SPECIFICATION TrackedSpec
CONSTANTS
    BackendCount = 2
    DeviceCount = 2
    TagCount = 1
    MAX_BACKENDS = 3
    ECAT_MAX_SLAVES = 3
    MaxRequests = 2
    MAX_ALLOCS = 4
INVARIANTS
    TypeOK
    MemoryOutlivesThreads
    SchedulerEndsFirst
    StartedIsFinalized
    MisuseIsKnown
    CleanupIsComplete
    SlavesAreReleased
    ReportIsRight
PROPERTIES
    StopCompletes
\* The program does end.
CHECK_DEADLOCK FALSE
