SPECIFICATION Spec
CONSTANTS
    o1 = o1
    o2 = o2
    o3 = o3
    Operations = {o1, o2, o3}
    MaxRetries = 2
    MaxLines = 2
    MaxTrims = 1
    MaxCrashes = 1
    MaxFiles = 6
SYMMETRY OperationsSymmetry
INVARIANTS
    TypeOK
    LockIsHeld
    HandedOutOnce
    Accounted
CHECK_DEADLOCK FALSE
