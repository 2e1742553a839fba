SPECIFICATION FairSpec
CONSTANTS
    Senders = {a, b}
    MaxSends = 2
    MaxConnections = 4
    MaxFailures = 1
    MayClose = TRUE
CHECK_DEADLOCK FALSE
INVARIANTS
    TypeOK
    LinkUsable
    OneConnection
PROPERTIES
    KeepsPromise
    EveryMessageArrives
