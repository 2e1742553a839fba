SPECIFICATION Spec
CONSTANTS
    P0 = 0
    Remotes = {1, 3}
    Snapshots = {s1, s2}
    NoSnapshot = NoSnapshot
    MaxGlued = 1
CHECK_DEADLOCK FALSE
SYMMETRY MCSymmetry
INVARIANTS
    TypeOK
    CompleteSound
    AnalyserExact
