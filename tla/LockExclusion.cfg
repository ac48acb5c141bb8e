SPECIFICATION Spec
CONSTANTS
    Rt = Rt
    Wd = Wd
INVARIANTS
    LockExcludes
CHECK_DEADLOCK FALSE
