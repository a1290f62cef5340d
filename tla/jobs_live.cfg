SPECIFICATION FairSpec
CONSTANTS
    sync_video = sync_video
    kinopub = kinopub
    user = user
    Pipeline = full_pipeline
    None = None
    Script = {sync_video, user}
    Steps <- MCOneStep
    Unguarded = {user}
    Plain = {user}
    Polling = {sync_video}
    BootClears = {sync_video}
    Checkpointing = {sync_video}
    SavesOnStop = {sync_video}
    Stopper = {h1}
    Stoppable = {sync_video, user, full_pipeline}
    FlagShared = TRUE
    Faults = {"spawn", "missing"}
    MaxQueue = 1
INVARIANTS
    TypeOK
    AtMostOneChild
    HonestCompleted
    FlagOnlyWhileRunning
PROPERTY
    LimitCheckpointKept
    StopKills
    AcceptedRuns
