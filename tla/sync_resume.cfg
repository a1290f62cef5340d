SPECIFICATION FairSpec
CONSTANTS
    films = films
    series = series
    f0 = f0
    f1 = f1
    f2 = f2
    f3 = f3
    f4 = f4
    f5 = f5
    s0 = s0
    s1 = s1
    None = None
    Cats <- MCCats
    Release = {f0, f1, f2, f3, f4, f5, s0, s1}
    CategoryOf <- MCCategoryOf
    TitleOf <- MCTitleOf
    Seeded = {f0, s0}
    Backlog <- MCBacklog
    Undated = {}
    Wanted = {f0, f1, f2, f5, s0, s1}
    UsesTmdb = {films}
    ManualDates = {}
    PageSize = 2
    Depth = 4
    DayLength = 6
    MaxClock = 12
    MaxBreaks = 2
    Faults = {}

    
PROPERTY
    ScanIsComplete
    
