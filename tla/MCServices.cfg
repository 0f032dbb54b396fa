CONSTANTS
    RuleCallers = {c1, c2, c3}
    RuleAddrs = {a, b}
    MaxRulePools = 3
    RpcCalls = {c1, c2}
    RpcConns = {r1, r2}
    NoConn = NoConn
    RetrySettings <- MCRetrySettings
    Chunks = 2
    Writers = {c1, c2}
    NoWriter = NoWriter
    MaxRecords = 3
    MaxDay = 2
    MaxRestarts = 1
    MaxFaults = 1
    MaxFileSize = 1
    MaxFileCount = 2
    Nodes = {n1, n2}
    WorkerBits = 1
    DataBits = 1
    SeqBits = 1
    IdBits = 6
    WorkerIds <- MCIds
    DataIds <- MCIds
    MaxClock = 4
    i1 = i1
    i2 = i2
    g1 = g1
    g2 = g2
    g3 = g3
    Instances = {i1, i2}
    Goroutines = {g1, g2, g3}
    Uses <- MCUses
    Tokens = {c1, c2}
    NoToken = NoToken
    Nobody = Nobody
    TTL = 4
    Millisecond = 2
    MinRetryDelay = 2
    MaxRetryDelay = 3
SPECIFICATION Spec
SYMMETRY Symmetry
INVARIANTS
    RulePoolsOwned
    SelectedIsOpen
    LeaseDiscipline
    OnlyDisconnectedReplayed
    NoRecordLost
    RotatedWhenDue
    HolderKeepsKey
    AcquiringExact
PROPERTIES
    RulesLostByOverlapOnly
    IdsIncrease
    OnlyOwnerDeletes
CHECK_DEADLOCK FALSE
