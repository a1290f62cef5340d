SPECIFICATION Spec
CONSTANTS
    films = films
    series = series
    f0 = f0
    f1 = f1
    f2 = f2
    f3 = f3
    f4 = f4
    f5 = f5
    s0 = s0
    s1 = s1
    None = None
    Cats <- MCCats
    Release = {f0, f1, f2, f3, s0}
    CategoryOf <- MCCategoryOf
    TitleOf <- MCTitleOf
    Seeded = {f0}
    Backlog <- MCOneLate
    Undated = {f2}
    Wanted = {f0, f1, f2, s0}
    UsesTmdb = {films}
    ManualDates = {2}
    PageSize = 2
    Depth = 2
    DayLength = 2
    MaxClock = 4
    MaxBreaks = 1
    Faults = {"limit", "page", "removal"}
INVARIANT
    TypeOK
PROPERTY
    CheckpointNotAhead
