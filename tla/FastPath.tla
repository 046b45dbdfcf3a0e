------------------------------- MODULE FastPath -------------------------------
(***************************************************************************)
(* The gateway's fast path: ShardedCache (src/high_performance.rs), which    *)
(* handle_fast (src/runtime.rs) reads before anything else and handle_http    *)
(* fills after a query and clears after a mutation.  Its shards are locked     *)
(* one at a time, and it has no indexes: a mutation clears it all.  As in the  *)
(* response cache, a response's content is the set of mutations it shows.      *)
(***************************************************************************)
EXTENDS Naturals, FiniteSets

CONSTANTS
    FastKeys,       \* cache keys, as the 64-bit hashes they are reduced to
    NumShards,      \* a power of two
    ShardOf,        \* the low bits of a hash
    MaxEntries,     \* max_entries_per_shard
    FastTasks,      \* tasks that serve queries, one after the other
    FastMutations,  \* mutations, each sent once
    MaxCount,       \* bound: what access_count is told apart up to
    MaxInPlay,      \* bound: entries, busy tasks, and twice the mutations that ran
    NoEntry

Shards == 1..NumShards

ASSUME FastAssumption ==
    /\ IsFiniteSet(FastKeys)
    /\ NumShards \in Nat \ {0} /\ ShardOf \in [FastKeys -> Shards]
    /\ MaxEntries \in Nat /\ MaxCount \in Nat /\ MaxInPlay \in Nat

VARIABLES
    shard,      \* the shards' maps, as one function: key -> entry
    fastTask,   \* task -> where it is, its key, and what its execution has read
    mutation,   \* mutation -> where it is, and the shards it has cleared
    performed   \* the mutations the backend has executed

fastVars == <<shard, fastTask, mutation, performed>>

Idle == [at |-> "idle", key |-> NoEntry, read |-> {}]

FastInit ==
    /\ shard = [k \in FastKeys |-> NoEntry]
    /\ fastTask = [t \in FastTasks |-> Idle]
    /\ mutation = [m \in FastMutations |-> [at |-> "execute", cleared |-> 0]]
    /\ performed = {}

InCache == {k \in FastKeys : shard[k] # NoEntry}
InShard(s) == {k \in InCache : ShardOf[k] = s}
Outdated(keys) == {k \in keys : shard[k].expired}

Finish(t) == fastTask' = [fastTask EXCEPT ![t] = Idle]

-----------------------------------------------------------------------------
\* ShardedCache::get under the shard's read lock: a hit counts, and answers the request;
\* an expired entry is a miss and stays.
FastGet(t, k) ==
    /\ fastTask[t].at = "idle"
    /\ IF k \in InCache /\ ~shard[k].expired
       THEN /\ shard' = [shard EXCEPT ![k].count = IF @ < MaxCount THEN @ + 1 ELSE @]
            /\ UNCHANGED fastTask
       ELSE /\ fastTask' = [fastTask EXCEPT ![t] = [at |-> "execute", key |-> k, read |-> {}]]
            /\ UNCHANGED shard
    /\ UNCHANGED <<mutation, performed>>

\* The endpoints that call handle_http do not look here first.
Standard(t, k) ==
    /\ fastTask[t].at = "idle"
    /\ fastTask' = [fastTask EXCEPT ![t] = [at |-> "execute", key |-> k, read |-> {}]]
    /\ UNCHANGED <<shard, mutation, performed>>

\* handle_http: refused, answered by the response cache, a live query or an error, it puts
\* nothing here; executed, it first awaits the puts of the response cache.
FastExecute(t) ==
    /\ fastTask[t].at = "execute"
    /\ \/ fastTask' = [fastTask EXCEPT ![t].at = "insert", ![t].read = performed]
       \/ Finish(t)
    /\ UNCHANGED <<shard, mutation, performed>>

\* A quarter of a full shard, those with the fewest accesses, in any order among equals.
LeastUsed(keys) ==
    {set \in SUBSET keys :
        /\ Cardinality(set) = Cardinality(keys) \div 4
        /\ \A k \in set, l \in keys \ set : shard[k].count <= shard[l].count}

\* Mutant of Evicted: the expired entries are thought to be enough.
EvictedExpired(keys) == {Outdated(keys)}

\* evict_from_shard: what is expired, and if that is less than a quarter the least used too.
Evicted(keys) ==
    IF Cardinality(Outdated(keys)) < Cardinality(keys) \div 4
    THEN {Outdated(keys) \cup set : set \in LeastUsed(keys)}
    ELSE {Outdated(keys)}

\* ShardedCache::insert under the shard's write lock; a full shard evicts even when the
\* key is in it.
FastInsert(t) ==
    LET k == fastTask[t].key
        keys == InShard(ShardOf[k])
    IN  /\ fastTask[t].at = "insert"
        /\ \E gone \in IF Cardinality(keys) >= MaxEntries THEN Evicted(keys) ELSE {{}} :
             shard' = [l \in FastKeys |->
                          IF l = k THEN [data |-> fastTask[t].read, since |-> performed,
                                         count |-> 1, expired |-> FALSE]
                          ELSE IF l \in gone THEN NoEntry ELSE shard[l]]
        /\ Finish(t)
        /\ UNCHANGED <<mutation, performed>>

\* The request's future is dropped at an await: its client is gone.
FastDrop(t) ==
    /\ fastTask[t].at # "idle"
    /\ Finish(t)
    /\ UNCHANGED <<shard, mutation, performed>>

-----------------------------------------------------------------------------
MoveTo(m, where) == mutation' = [mutation EXCEPT ![m].at = where]

\* The mutation executes; unless a plugin's on_response then fails, the invalidation of the
\* response cache is awaited.
FastMutate(m) ==
    /\ mutation[m].at = "execute"
    /\ performed' = performed \cup {m}
    /\ MoveTo(m, "invalidate") \/ MoveTo(m, "abandoned")
    /\ UNCHANGED <<shard, fastTask>>

\* Its client leaves before the caches are invalidated, and nobody does it.
DropMutation(m) ==
    /\ mutation[m].at = "invalidate"
    /\ MoveTo(m, "abandoned")
    /\ UNCHANGED <<shard, fastTask, performed>>

StartClear(m) ==
    /\ mutation[m].at = "invalidate"
    /\ MoveTo(m, "clear")
    /\ UNCHANGED <<shard, fastTask, performed>>

\* Mutant of ClearShard: the last shard is left out.
ClearShardButLast(m) ==
    LET s == mutation[m].cleared + 1 IN
    /\ mutation[m].at = "clear"
    /\ shard' = [k \in FastKeys |-> IF s < NumShards /\ ShardOf[k] = s THEN NoEntry ELSE shard[k]]
    /\ mutation' = [mutation EXCEPT ![m] =
                       [at |-> IF s >= NumShards THEN "cleared" ELSE "clear", cleared |-> s]]
    /\ UNCHANGED <<fastTask, performed>>

\* ShardedCache::clear, a shard at a time.
ClearShard(m) ==
    LET s == mutation[m].cleared + 1 IN
    /\ mutation[m].at = "clear"
    /\ shard' = [k \in FastKeys |-> IF ShardOf[k] = s THEN NoEntry ELSE shard[k]]
    /\ mutation' = [mutation EXCEPT ![m] =
                       [at |-> IF s >= NumShards THEN "cleared" ELSE "clear", cleared |-> s]]
    /\ UNCHANGED <<fastTask, performed>>

\* Sixty seconds pass.
Outdate(k) ==
    /\ k \in InCache /\ ~shard[k].expired
    /\ shard' = [shard EXCEPT ![k].expired = TRUE]
    /\ UNCHANGED <<fastTask, mutation, performed>>

FastStep ==
    \/ \E t \in FastTasks :
         \/ \E k \in FastKeys : FastGet(t, k) \/ Standard(t, k)
         \/ FastExecute(t) \/ FastInsert(t) \/ FastDrop(t)
    \/ \E m \in FastMutations :
         FastMutate(m) \/ DropMutation(m) \/ StartClear(m) \/ ClearShard(m)
    \/ \E k \in FastKeys : Outdate(k)

Busy == {t \in FastTasks : fastTask[t].at # "idle"}

InPlay == Cardinality(InCache) + Cardinality(Busy) + 2 * Cardinality(performed)

FastNext == FastStep /\ InPlay' <= MaxInPlay

FastSpec == FastInit /\ [][FastStep]_fastVars

-----------------------------------------------------------------------------
FastEntry == [data : SUBSET FastMutations, since : SUBSET FastMutations,
              count : Nat, expired : BOOLEAN]

\* The type invariant.
FastTypeOK ==
    /\ shard \in [FastKeys -> FastEntry \cup {NoEntry}]
    /\ fastTask \in [FastTasks -> [at : {"idle", "execute", "insert"},
                                  key : FastKeys \cup {NoEntry}, read : SUBSET FastMutations]]
    /\ \A t \in FastTasks : fastTask[t].at # "idle" => fastTask[t].key \in FastKeys
    /\ mutation \in [FastMutations ->
          [at : {"execute", "invalidate", "clear", "cleared", "abandoned"}, cleared : Nat]]
    /\ performed \subseteq FastMutations

\* However queries insert, hit and expire, a shard stays within max_entries_per_shard.  A
\* quarter of less than four entries is none, so a smaller limit is not kept, but four is.
ShardsBounded ==
    \A s \in Shards : Cardinality(InShard(s)) <= IF MaxEntries < 4 THEN 4 ELSE MaxEntries

\* Once a mutation has gone through all the shards, a response in the cache that lacks its
\* effect was inserted after the mutation was performed, by a query that had executed
\* before: handle_http reads, awaits and inserts, so nothing better holds.
ClearedIsForgotten ==
    \A m \in FastMutations, k \in InCache :
        mutation[m].at = "cleared" => m \in shard[k].data \cup shard[k].since

=============================================================================
