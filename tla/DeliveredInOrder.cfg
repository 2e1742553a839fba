SPECIFICATION Spec
CONSTANTS
    Senders = {a, b}
    MaxSends = 2
    MaxConnections = 4
    MaxFailures = 1
    MayClose = FALSE
CHECK_DEADLOCK FALSE
INVARIANTS
    DeliveredInOrder
