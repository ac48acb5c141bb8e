SPECIFICATION Spec
CONSTANTS
    BackendCount = 1
    DeviceCount = 1
    TagCount = 1
    MAX_BACKENDS = 3
    ECAT_MAX_SLAVES = 3
    MaxRequests = 1
PROPERTIES
    RequestIsHonoured
\* The program does end.
CHECK_DEADLOCK FALSE
