SPECIFICATION Spec
CONSTANTS
    MaxRestarts = 1
    MaxSpawns = 2
    MaxPortFailures = 2
    MaxFaults = 0
    Forking = {}
PROPERTY HealthRestarts
CHECK_DEADLOCK FALSE
