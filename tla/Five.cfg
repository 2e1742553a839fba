SPECIFICATION FairCutSpec
CONSTANTS
    P0 = P0
    r1 = r1
    r2 = r2
    f1 = f1
    f2 = f2
    Proc = {P0, r1, r2, f1, f2}
    Restaurants = {r1, r2}
    Runners = {f1, f2}
    Partner <- MCPartner
    Orders = {}
    Snapshots = {s1}
    MaxTriggers = 1
    MaxLoss = 0
CHECK_DEADLOCK FALSE
ACTION_CONSTRAINTS
    MCNoLook
    MCReleaseAtOnce
INVARIANTS
    CriterionExact
    NoLostVerdict
PROPERTIES
    SnapshotCollected
