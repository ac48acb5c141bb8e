SPECIFICATION Spec
CONSTANTS
    Tick = 2
    ConfigCount = 3
    MaxTasks = 2
    Period <- MCPeriod
    Offset <- MCOffset
    Policy <- MCPolicy
    MaxClock = 12
PROPERTIES
    ControlStopsOnFault
CHECK_DEADLOCK FALSE
