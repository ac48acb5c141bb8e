SPECIFICATION Spec
CONSTANTS
    SlaveCount = 2
    OutBytes <- MCOutBytes
    MaxCommit = 3
INVARIANTS
    Remanence
    FrameIsFresh
    QuietFrameIsTheCommit
PROPERTIES
    ImplementsChannel
