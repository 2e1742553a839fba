SPECIFICATION FairSpec
CONSTANTS
    n1 = n1
    n2 = n2
    P0 = P0
    P1 = P1
    NodeKeys <- MCNodeKeys
    ProcessNode <- MCProcessNode
    Address = {here, there, loopback}
    here = here
    there = there
    loopback = loopback
    Entries <- MCEntries
    LocalIps = {here}
    Localhost = Localhost
    Unset = Unset
    NoFile = NoFile
    MaxCalls = 3
    Driver = P0
    StartRank <- MCStartRank
    MaxRuns = 2
CHECK_DEADLOCK FALSE
CONSTRAINTS
    MCOneCutOff
INVARIANTS
    TypeOK
    Recoverable
    NoneLeftBehind
    PreflightMeans
    MetaDescribesLogs
PROPERTIES
    OriginalKept
    EveryRunEnds
