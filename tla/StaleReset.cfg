SPECIFICATION Spec
CONSTANTS
    SlaveCount = 1
    OutputSlaves = {1}
    WD_BAD_TO_LATCH_FAULT = 2
    WD_GOOD_TO_ARM = 2
    WkcTolerated = 2
    WkcClampAbove = 4
    WkcClampTo = 3
    MaxWkc = 5
    MaxFaults = 2
PROPERTIES
    RearmNeedsFreshRequest
