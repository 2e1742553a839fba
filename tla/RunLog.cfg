SPECIFICATION LogSpec
CONSTANTS
    P0 = 0
    Proc = {0, 1, 2, 3, 4}
    Restaurants = {1, 2}
    Runners = {3, 4}
    Partner <- MCPartner
    Orders = {o1, o2}
    Snapshots = {}
    MaxTriggers = 0
    MaxLoss = 0
CHECK_DEADLOCK FALSE
SYMMETRY MCSymmetry
INVARIANTS
    TimelineCausal
    ConcurrentExact
