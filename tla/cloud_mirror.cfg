SPECIFICATION Spec
CONSTANTS
    items = items
    collections = collections
    None = None
    Order <- MCOrder
    Items = items
    Row = {r1}
    BatchRows = 1
    WritesInSync = TRUE
    Faults = {"spawn", "io", "held"}
INVARIANTS
    TypeOK
    PushIsMirror
    NoOrphanWorker
