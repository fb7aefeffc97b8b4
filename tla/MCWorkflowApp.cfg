SPECIFICATION MCSpec
CONSTANTS
    Key = {k1, k2, k3}
    Value = {v1, v2}
    TTLs = {0, 1}
    MaxEntries = 2
    EvictionDivisor = 2
    MaxTime = 2
    None = None
    x1 = x1
    x2 = x2
    x3 = x3
    b1 = b1
    b2 = b2
    p1 = p1
    p2 = p2
    n1 = n1
    n2 = n2
    n3 = n3
    key1 = key1
    key2 = key2
    sa = sa
    sb = sb
    Execution = {x1, x2, x3}
    KeyOf <- MCKeyOf
    Binary = {b1, b2}
    BinaryOf <- MCBinaryOf
    Size <- MCSize
    RelayNode = {n1, n2, n3}
    FaultyRelay = {n3}
    Callback = {1}
    Reports = {1}
    Requests <- MCRequests
    Contents <- MCContents
    Gateways = 2
    MaxSends = 2
    MaxExecutions = 2
    DefaultCompilations = 1
    DefaultCacheBytes = 3
    Settings <- MCSettings
    Post = {p1, p2}
    HostPost = {p1}
    MaxAttempts = 2
    AppConfigs <- MCAppConfigs
    MaxUpdates = 2
    Nil = Nil
CHECK_DEADLOCK FALSE
INVARIANTS
    TypeOK
    KeyListExact
    Bounded
    NothingMissed
    LRUExact
    SlotsExact
    DispatcherCurrent
    RelayHonest
    RelayAvailable
PROPERTIES
    ImplementsMap
    AdmittedEnds
