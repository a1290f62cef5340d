SPECIFICATION Spec
CONSTANTS
    None = None
    Blank = Blank
    Gone = Gone
    a = a
    b = b
    Cards = {1, 2, 3}
    Category <- MCCategory
    Releases = {r1, r2}
    Ids = {a, b}
    Pages = {"both", "imdb", "bare"}
    PageIds <- MCPageIds
    Scores <- MCScores
    MaxWork = 3
    MaxEdits = 1
SYMMETRY MCSymmetry
CHECK_DEADLOCK FALSE
INVARIANT
    TypeOK
    PageAgrees
    FixedIsComplete
PROPERTY
    ReleasesKept
