SPECIFICATION CutSpec
CONSTANTS
    P0 = P0
    r1 = r1
    r2 = r2
    f1 = f1
    f2 = f2
    Proc = {P0, r1, f1}
    Restaurants = {r1}
    Runners = {f1}
    Partner <- MCPartner
    Orders = {o1}
    Snapshots = {s1}
    MaxTriggers = 1
    MaxLoss = 0
CHECK_DEADLOCK FALSE
INVARIANTS
    ChannelStateComplete
