SPECIFICATION Spec
CONSTANTS
    SlaveCount = 2
    InBytes <- MCInBytes
    Tags <- MCTags
    MaxCycle = 4
INVARIANTS
    ReadIsFresh
    ShortReadIsCoherent
    LateClearCostsOneImage
PROPERTIES
    ImplementsChannel
