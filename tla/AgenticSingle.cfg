SPECIFICATION Spec
CONSTANTS
    Messages = {m1}
    m1 = m1
    MaxTools = 1
    MaxGenerations = 2
    MaxEvictions = 0
INVARIANTS
    OneGeneration
CHECK_DEADLOCK FALSE
