SPECIFICATION Spec
CONSTANTS
    SlaveCount = 2
    OutputSlaves = {1}
    WD_BAD_TO_LATCH_FAULT = 3
    WD_GOOD_TO_ARM = 3
    WkcTolerated = 2
    WkcClampAbove = 3
    WkcClampTo = 3
    MaxWkc = 4
    MaxFaults = 2
INVARIANTS
    TypeOK
    LostIsTended
    StatusIsConsistent
    PersistentFaultIsLatched
PROPERTIES
    RearmIsEarned
    ImplementsLatch
