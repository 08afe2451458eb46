SPECIFICATION FairSpec
CONSTANTS
    MaxRetries = 2
    MaxPendingSends = 2
    MaxConnections = 2
    MaxSockets = 3
    MaxMessages = 3
    MaxFaults = 3
INVARIANTS
    TypeOK
    OneSocket
    HelloFirst
PROPERTIES
    Implements
    QueuedIsSent
CHECK_DEADLOCK FALSE
