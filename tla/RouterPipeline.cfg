SPECIFICATION FairSpec
CONSTANTS
    q1 = q1
    q2 = q2
    Requests = {r1, r2}
    Queries = {q1, q2}
    Subgraphs = {s1, s2}
    CacheSize = 1
    v1 = v1
    v2 = v2
    Variables = {v1, v2}
    None = None
    Failed = Failed
    Asks <- MCAsks
INVARIANTS AnswersOwnQuery CachedIsComplete FailFastIsComplete OrderCoversStore
PROPERTIES FollowersShareTheOutcome
CHECK_DEADLOCK FALSE
