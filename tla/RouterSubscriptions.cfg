SPECIFICATION FairSpec
CONSTANTS
    a = a
    b = b
    orders = orders
    lost = lost
    all = all
    Subgraphs = {a, b}
    Fields = {orders, all, lost}
    Requests <- MCRequests
    Routing <- MCRouting
    AutoRoute = TRUE
    MaxStreams = 2
    MaxUpstreams = 2
    MergedCapacity = 1
    JsonCapacity = 1
    MaxEvents = 1
    Ids = {"1", "2"}
    QueryIds = {"2"}
    Limit = 2
    OutCapacity = 1
    MaxMessages = 3
INVARIANTS GaugesNeverUnderstate UpstreamsWithinPermits EndsAreTold
PROPERTIES KeepsPromise HangupReleases
CHECK_DEADLOCK FALSE
