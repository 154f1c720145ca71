SPECIFICATION MCSpec
CONSTANTS
    CallbackCapacity = 1
    WriterCapacity = 1
    TargetBlocks = 2
    MaxBlocks = 3
    MaxSessions = 1
    MaxTests = 1
    MaxCaptureFaults = 1
    Recordings = {"r1", "r2"}
    SessionLimit = 1
    EventLimit = 2
    DrainLimit = 1
    SegmentLimit = 2
    TapCapacity = 1
    MaxTicks = 2
    MaxWorkers = 2
    WindowSamples = 2
    LaneSamples = 3
    MaxInstant = 7
INVARIANTS CaptureSafe DeviceOwned LiveSafe WindowsFaithful
PROPERTIES ThreadsEnd
CHECK_DEADLOCK FALSE
