SPECIFICATION Spec
CONSTANTS
    k1 = k1
    k2 = k2
    k3 = k3
    s1 = s1
    s2 = s2
    None = None
    Orders = {o1, o2}
    Snapshots = {s1, s2}
    Markers = {k1, k2}
    SnapshotOf <- MCSnapshotOf
CHECK_DEADLOCK FALSE
INVARIANTS
    TypeOK
    RecordExact
    SummaryNotBehind
    QuiescentDelivered
    OneReport
