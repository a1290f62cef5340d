SPECIFICATION FairSpec
CONSTANTS
    None = None
    Items = {1, 2}
    Scripts = {"kinopub", "rezka", "tech", "reprocess"}
    BatchSize = 1
    CheckpointEvery = 1
    MaxBreaks = 1
    MaxEdits = 1
INVARIANT
    TypeOK
PROPERTY
    RefusedStaysQueued
    QueuesEmpty
