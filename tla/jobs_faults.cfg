SPECIFICATION Spec
CONSTANTS
    sync_video = sync_video
    kinopub = kinopub
    user = user
    Pipeline = full_pipeline
    None = None
    Script = {sync_video, kinopub}
    Steps <- MCSteps
    Unguarded = {}
    Plain = {}
    Polling = {sync_video, kinopub}
    BootClears = {sync_video}
    Checkpointing = {sync_video, kinopub}
    SavesOnStop = {sync_video}
    Stopper = {h1}
    Stoppable = {sync_video, kinopub}
    FlagShared = TRUE
    Faults = {"stream", "shutdown", "crash"}
    MaxQueue = 1
INVARIANTS
    BusyIsReal
    PipelineShortCircuits
    StaleFlagIgnored
