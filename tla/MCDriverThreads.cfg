SPECIFICATION TimedSpec
CONSTANTS
    Rt = Rt
    Wd = Wd
    FREQ = 4
    MICRO = 3
    thread_cycle_us = 3
    SLEEP_US = 2
    YIELD_US = 1
    INT32_RANGE = 10
    MaxWork = 1
    MaxLag = 8
    MaxDelays = 7
INVARIANTS
    TypeOK
    MainHasTheBusAlone
    StoppedStaysDown
    RhythmIsKept
    LatenessIsBounded
    DelaysAreRecorded
PROPERTIES
    StopCompletes
    LockMakesProgress
    CatchUpEnds
    StopRunsDown
\* The driver does stop.
CHECK_DEADLOCK FALSE
