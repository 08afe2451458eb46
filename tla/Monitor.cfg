SPECIFICATION Spec
CONSTANTS
    MaxRestarts = 1
    MaxSpawns = 3
    MaxPortFailures = 3
    MaxFaults = 1
    Forking = {1}
INVARIANTS
    TypeOK
    NoneLeftBehind
PROPERTIES
    HealthKillOwnFailure
    Implements
    CrashRestarts
    ShutdownEnds
CHECK_DEADLOCK FALSE
