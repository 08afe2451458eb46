SPECIFICATION FairSpec
CONSTANTS
    Messages = {m1}
    m1 = m1
    MaxTools = 2
    MaxGenerations = 2
    MaxEvictions = 1
INVARIANTS
    TypeOK
    MessageKept
    WakeupKept
PROPERTIES
    QueuedIsFetched
CHECK_DEADLOCK FALSE
