SPECIFICATION FairSpec
CONSTANTS
    items = items
    collections = collections
    None = None
    Order <- MCOneTable
    Items = items
    Row = {r1, r2, r3}
    BatchRows = 2
    WritesInSync = FALSE
    Faults = {"spawn", "io", "held"}
PROPERTY
    BlankNeverReplaces
    PullIsWhole
    SyncEnds
