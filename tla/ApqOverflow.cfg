SPECIFICATION SerialSpec
CONSTANTS
    Requests = {r1, r2, r3, r4}
    Queries = {q1, q2, q3}
    CacheSize = 1
    Variables = {v1}
    None = None
    Asks <- MCAsks
INVARIANTS SizeKept
CHECK_DEADLOCK FALSE
