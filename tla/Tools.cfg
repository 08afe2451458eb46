SPECIFICATION FairSpec
CONSTANTS
    a = a
    b = b
    Path = {a, b}
    NumCalls = 3
    Signatures <- ToolSignatures
INVARIANTS
    TypeOK
    ProgramOrder
    AsIfSequential
    NoNeedlessWait
PROPERTIES
    BatchSettles
CHECK_DEADLOCK FALSE
