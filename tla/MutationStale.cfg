SPECIFICATION MCSpec
CONSTANTS
    q1 = q1
    q2 = q2
    q3 = q3
    m1 = m1
    k1 = k1
    k2 = k2
    user = user
    user1 = user1
    Queries = {q1, q2, q3}
    Mutations = {m1}
    Keys = {k1, k2}
    KeyOf <- MCKeyOf
    Types = {user}
    Entities = {user1}
    Shows <- Nothing
    DependsOn <- MCDependsOn
    Reports <- NothingReported
    Writes <- MCWrites
    MaxSize = 2
    None = None
    f1 = f1
    f2 = f2
    f3 = f3
    f4 = f4
    f5 = f5
    f6 = f6
    FastKeys = {f1, f2, f3, f4, f5, f6}
    NumShards = 2
    ShardOf <- MCShardOf
    MaxEntries = 2
    FastTasks = {w1, w2}
    FastMutations = {mu}
    MaxCount = 2
    MaxInPlay = 5
    NoEntry = NoEntry
INVARIANT MutationsInvalidate
CHECK_DEADLOCK FALSE
