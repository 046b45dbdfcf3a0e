SPECIFICATION MCFairSpec
CONSTANTS
    SubIds = {"1", "2"}
    MaxResolvers = 3
    MaxSubscriptions = 2
    OutboundCapacity = 1
    MaxReceived = 3
    MaxStreamed = 2
    Conns = {a, b}
    LiveIds = {"1", "2"}
    MaxTasks = 2
    MaxActors = 3
    MaxTotal = 2
    MaxPerConnection = 1
    EventBuffer = 1
    UpdateCapacity = 1
    OutgoingCapacity = 1
    MaxHeard = 2
    MaxPublished = 1
    MaxRequests = 2
    Burst = 1
    Rps = 2
    MaxAge = 2
    MaxEdits = 2
    MaxTicks = 4
    Connections = {c1, c2}
    MaxSignals = 2
    Users = {u1, u2}
    BaseCosts = {1, 2}
    MaxCost = 3
    Budget = 2
    Window = 1
    HighLoad = 4
    MaxUserBudgets = 1
    MaxCostHistory = 1
    MaxClock = 3
    OperationIds = {i1, i2}
    Documents = {d1, d2}
    Managers = {m1, m2}
    NoId = NoId
    NoQuery = NoQuery
    RootFields = {f, g}
    MaxFragments = 2
    MaxAsked = 3
    Reads = {r1, r2}
    Writes = {w1}
    RestKeys = {k1, k2}
    MaxRetries = 1
    RestCacheSize = 1
    MaxClears = 1
    NotCached = NotCached
    GbpValues <- MCGbpValues
    ColumnarMin = 2
    RleMin = 1
    ParallelOver = 3
    ChunkSize = 2
INVARIANTS TypeOK HashFollowsIds DeferredIsWhole RoundTrips ClearedReadsShowWrites OwnEntryKept RegisteredIsReachable BurstKept SpendingBounded
PROPERTIES SocketKeepsPromise CancelEnds SlowClientBlocksNoTask ReloadsConverge ServerStops
CHECK_DEADLOCK FALSE
