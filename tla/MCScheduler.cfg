SPECIFICATION AppSpec
CONSTANTS
    Tick = 2
    ConfigCount = 3
    MaxTasks = 2
    Period <- MCPeriod
    Offset <- MCOffset
    Policy <- MCPolicy
    MaxClock = 16
    Blinker = 1
    BlinkAfter = 1
INVARIANTS
    TypeOK
    RunsMatchTime
    BlinkFollowsTime
PROPERTIES
    StopCompletes
    StopIsNear
\* The scheduler does stop.
CHECK_DEADLOCK FALSE
