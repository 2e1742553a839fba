SPECIFICATION Spec
CONSTANTS
    P0 = P0
    r1 = r1
    r2 = r2
    f1 = f1
    f2 = f2
    Proc = {P0, r1, f1}
    Restaurants = {r1}
    Runners = {f1}
    Partner <- MCPartner
    Orders = {o1, o2}
    Snapshots = {s1}
    MaxTriggers = 2
    MaxLoss = 2
CHECK_DEADLOCK FALSE
CONSTRAINTS
    MCOrderOrSnapshots
INVARIANTS
    TypeOK
    ClocksKnownOnly
    NoLostVerdict
PROPERTIES
    OrdersOnTheirWay
    SnapshotsOnTheirWay
    NeverBackwards
    ReportsFinal
    WorkShrinks
