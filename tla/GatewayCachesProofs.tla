-------------------------- MODULE GatewayCachesProofs --------------------------
(***************************************************************************)
(* The gateway's two caches.                                                *)
(*                                                                          *)
(* The fast path's sharded cache, for any keys, shards, limit, tasks and    *)
(* mutations: its size, and what a mutation leaves in it.                   *)
(*                                                                          *)
(* The response cache, for any keys, types, queries and mutations and either*)
(* backend.  put() and invalidate_by_mutation() work tag by tag, each under *)
(* locks, or Redis commands, of its own.  LinkedSoFar ties an entry's place in*)
(* the index to how far its put has come; StaleIsPending says that a mutation*)
(* which has not removed an older response yet has still to visit one of its*)
(* tags, or has read it there (MembersHeld) and is about to delete it.      *)
(***************************************************************************)
EXTENDS ResponseCache, FastPath, FiniteSetTheorems, TLAPS

USE FastAssumption

\* FastInit and every step of the tasks, the mutations and the clock keep the types of the
\* shards' entries and of the requests.
THEOREM FastTypeCorrect == FastSpec => []FastTypeOK
<1>1. FastInit => FastTypeOK
  BY DEF FastInit, FastTypeOK, Idle
<1>2. FastTypeOK /\ [FastStep]_fastVars => FastTypeOK'
  <2> SUFFICES ASSUME FastTypeOK, [FastStep]_fastVars PROVE FastTypeOK'
    OBVIOUS
  <2> USE DEF FastTypeOK, FastEntry
  <2>1. ASSUME NEW t \in FastTasks, NEW k \in FastKeys, FastGet(t, k) PROVE FastTypeOK'
    <3>1. CASE k \in InCache /\ ~shard[k].expired
      <4>1. shard[k] \in FastEntry
        BY <3>1 DEF InCache
      <4>2. [shard[k] EXCEPT !.count = IF @ < MaxCount THEN @ + 1 ELSE @] \in FastEntry
        BY <4>1
      <4>3. shard' \in [FastKeys -> FastEntry \cup {NoEntry}]
        BY <2>1, <3>1, <4>2 DEF FastGet
      <4> QED
        BY <2>1, <3>1, <4>3 DEF FastGet
    <3>2. CASE ~(k \in InCache /\ ~shard[k].expired)
      BY <2>1, <3>2 DEF FastGet
    <3> QED
      BY <3>1, <3>2
  <2>2. ASSUME NEW t \in FastTasks, NEW k \in FastKeys, Standard(t, k) PROVE FastTypeOK'
    BY <2>2 DEF Standard
  <2>3. ASSUME NEW t \in FastTasks, FastExecute(t) PROVE FastTypeOK'
    <3>1. fastTask[t].at = "execute" /\ UNCHANGED <<shard, mutation, performed>>
      BY <2>3 DEF FastExecute
    <3>2. CASE fastTask' = [fastTask EXCEPT ![t].at = "insert", ![t].read = performed]
      <4>1. fastTask'[t] = [at |-> "insert", key |-> fastTask[t].key, read |-> performed]
        BY <3>2, ZenonT(30)
      <4> QED
        BY <3>1, <3>2, <4>1
    <3>3. CASE Finish(t)
      BY <3>1, <3>3 DEF Finish, Idle
    <3> QED
      BY <2>3, <3>2, <3>3 DEF FastExecute
  <2>4. ASSUME NEW t \in FastTasks, FastInsert(t) PROVE FastTypeOK'
    BY <2>4 DEF FastInsert, Finish, Idle
  <2>5. ASSUME NEW t \in FastTasks, FastDrop(t) PROVE FastTypeOK'
    BY <2>5 DEF FastDrop, Finish, Idle
  <2>6. ASSUME NEW m \in FastMutations,
               FastMutate(m) \/ DropMutation(m) \/ StartClear(m)
        PROVE FastTypeOK'
    BY <2>6 DEF FastMutate, DropMutation, StartClear, MoveTo
  <2>7. ASSUME NEW m \in FastMutations, ClearShard(m) PROVE FastTypeOK'
    BY <2>7 DEF ClearShard
  <2>8. ASSUME NEW k \in FastKeys, Outdate(k) PROVE FastTypeOK'
    BY <2>8, ZenonT(30) DEF Outdate, InCache
  <2>9. CASE UNCHANGED fastVars
    BY <2>9 DEF fastVars
  <2> QED
    BY <2>1, <2>2, <2>3, <2>4, <2>5, <2>6, <2>7, <2>8, <2>9 DEF FastStep
<1> QED
  BY <1>1, <1>2, PTL DEF FastSpec

-----------------------------------------------------------------------------
\* A step that brings no new key keeps the shards within their bound.
LEMMA NoNewKeys ==
    ASSUME ShardsBounded, InCache' \subseteq InCache
    PROVE  ShardsBounded'
<1> SUFFICES ASSUME NEW s \in Shards
             PROVE  Cardinality(InShard(s)') <= IF MaxEntries < 4 THEN 4 ELSE MaxEntries
  BY DEF ShardsBounded
<1>1. InShard(s)' \subseteq InShard(s) /\ InShard(s) \subseteq FastKeys
  BY DEF InShard, InCache
<1>2. IsFiniteSet(InShard(s))
  BY <1>1, FS_Subset
<1>3. /\ Cardinality(InShard(s)') <= Cardinality(InShard(s))
      /\ Cardinality(InShard(s)') \in Nat /\ Cardinality(InShard(s)) \in Nat
  BY <1>1, <1>2, FS_Subset, FS_CardinalityType
<1> QED
  BY <1>3 DEF ShardsBounded

\* evict_from_shard removes something from a shard of four entries or more.
LEMMA EvictsSome ==
    ASSUME NEW keys, keys \subseteq FastKeys, Cardinality(keys) >= 4,
           NEW gone \in Evicted(keys)
    PROVE  gone \cap keys # {} /\ gone \subseteq keys
<1>1. IsFiniteSet(keys) /\ Cardinality(keys) \in Nat
  BY FS_Subset, FS_CardinalityType
<1>2. Cardinality(keys) \div 4 >= 1
  BY <1>1
<1>3. Outdated(keys) \subseteq keys
  BY DEF Outdated
<1>4. ASSUME NEW set, set \subseteq keys, set = {} PROVE Cardinality(set) < Cardinality(keys) \div 4
  <2>1. Cardinality(set) = 0
    BY <1>4, FS_EmptySet
  <2> QED
    BY <2>1, <1>1, <1>2
<1>5. CASE Cardinality(Outdated(keys)) < Cardinality(keys) \div 4
  <2>1. PICK set \in LeastUsed(keys) : gone = Outdated(keys) \cup set
    BY <1>5 DEF Evicted
  <2>2. set \subseteq keys /\ Cardinality(set) = Cardinality(keys) \div 4
    BY <2>1 DEF LeastUsed
  <2>3. set # {}
    <3> SUFFICES ASSUME set = {} PROVE FALSE
      OBVIOUS
    <3>1. Cardinality(set) < Cardinality(keys) \div 4
      BY <2>2, <1>4
    <3>2. Cardinality(keys) \div 4 \in Nat
      BY <1>1
    <3> QED
      BY <3>1, <3>2, <2>2
  <2> QED
    BY <1>3, <2>1, <2>2, <2>3
<1>6. CASE ~(Cardinality(Outdated(keys)) < Cardinality(keys) \div 4)
  BY <1>3, <1>4, <1>6 DEF Evicted
<1> QED
  BY <1>5, <1>6

\* ShardsBounded is inductive: an insertion into a shard at its limit that evicts nothing
\* finds at most three entries there.
THEOREM ShardsStayBounded == FastSpec => []ShardsBounded
<1>1. FastInit => ShardsBounded
  <2> SUFFICES ASSUME FastInit, NEW s \in Shards
               PROVE  Cardinality(InShard(s)) <= IF MaxEntries < 4 THEN 4 ELSE MaxEntries
    BY DEF ShardsBounded
  <2>1. InShard(s) = {}
    BY DEF FastInit, InShard, InCache
  <2> QED
    BY <2>1, FS_EmptySet
<1>2. ShardsBounded /\ FastTypeOK /\ [FastStep]_fastVars => ShardsBounded'
  <2> SUFFICES ASSUME ShardsBounded, FastTypeOK, [FastStep]_fastVars PROVE ShardsBounded'
    OBVIOUS
  <2>1. ASSUME NEW t \in FastTasks, FastInsert(t) PROVE ShardsBounded'
    <3> SUFFICES ASSUME NEW s \in Shards
                 PROVE  Cardinality(InShard(s)') <= IF MaxEntries < 4 THEN 4 ELSE MaxEntries
      BY DEF ShardsBounded
    <3> DEFINE k == fastTask[t].key
               keys == InShard(ShardOf[k])
               new == [data |-> fastTask[t].read, since |-> performed, count |-> 1,
                       expired |-> FALSE]
    <3>1. k \in FastKeys
      BY <2>1 DEF FastInsert, FastTypeOK
    <3>2. PICK gone \in IF Cardinality(keys) >= MaxEntries THEN Evicted(keys) ELSE {{}} :
            shard' = [l \in FastKeys |-> IF l = k THEN new
                                         ELSE IF l \in gone THEN NoEntry ELSE shard[l]]
      BY <2>1 DEF FastInsert
    <3>3. /\ InShard(s) \subseteq FastKeys /\ IsFiniteSet(InShard(s))
          /\ Cardinality(InShard(s)) \in Nat
      BY FS_Subset, FS_CardinalityType DEF InShard, InCache
    <3>4. CASE s # ShardOf[k]
      <4>1. InShard(s)' \subseteq InShard(s)
        BY <3>2, <3>4 DEF InShard, InCache
      <4>2. /\ Cardinality(InShard(s)') <= Cardinality(InShard(s))
            /\ Cardinality(InShard(s)') \in Nat
        BY <4>1, <3>3, FS_Subset, FS_CardinalityType
      <4> QED
        BY <4>2, <3>3 DEF ShardsBounded
    <3>5. CASE s = ShardOf[k]
      <4>1. InShard(s)' \subseteq (keys \ gone) \cup {k}
        BY <3>2, <3>5 DEF InShard, InCache
      <4>2. /\ keys \subseteq FastKeys /\ IsFiniteSet(keys) /\ Cardinality(keys) \in Nat
            /\ Cardinality(keys) <= IF MaxEntries < 4 THEN 4 ELSE MaxEntries
        BY <3>3, <3>5 DEF ShardsBounded
      <4>3. /\ IsFiniteSet(keys \ gone) /\ Cardinality(keys \ gone) \in Nat
            /\ Cardinality(keys \ gone) <= Cardinality(keys)
        BY <4>2, FS_Subset, FS_CardinalityType
      <4>4. /\ IsFiniteSet((keys \ gone) \cup {k})
            /\ Cardinality((keys \ gone) \cup {k}) <= Cardinality(keys \ gone) + 1
            /\ Cardinality((keys \ gone) \cup {k}) \in Nat
        <5> HIDE DEF keys, k
        <5>1. /\ IsFiniteSet((keys \ gone) \cup {k})
              /\ \/ Cardinality((keys \ gone) \cup {k}) = Cardinality(keys \ gone)
                 \/ Cardinality((keys \ gone) \cup {k}) = Cardinality(keys \ gone) + 1
          BY <4>3, FS_AddElement
        <5> QED
          BY <4>3, <5>1
      <4>5. /\ Cardinality(InShard(s)') <= Cardinality(keys \ gone) + 1
            /\ Cardinality(InShard(s)') \in Nat
        <5>1. /\ Cardinality(InShard(s)') <= Cardinality((keys \ gone) \cup {k})
              /\ IsFiniteSet(InShard(s)')
          BY <4>1, <4>4, FS_Subset
        <5>2. Cardinality(InShard(s)') \in Nat
          BY <5>1, FS_CardinalityType
        <5> QED
          BY <5>1, <5>2, <4>3, <4>4
      <4>6. CASE Cardinality(keys) < MaxEntries \/ Cardinality(keys) < 4
        BY <4>2, <4>3, <4>5, <4>6
      <4>7. CASE Cardinality(keys) >= MaxEntries /\ Cardinality(keys) >= 4
        <5>1. gone \in Evicted(keys)
          BY <3>2, <4>7
        <5>2. PICK l \in keys : l \in gone
          BY <5>1, <4>2, <4>7, EvictsSome
        <5>3. keys \ gone \subseteq keys \ {l}
          BY <5>2
        <5>4. /\ Cardinality(keys \ {l}) = Cardinality(keys) - 1
              /\ IsFiniteSet(keys \ {l})
          BY <5>2, <4>2, FS_RemoveElement
        <5>5. Cardinality(keys \ gone) <= Cardinality(keys) - 1
          BY <5>3, <5>4, FS_Subset
        <5> QED
          BY <5>5, <4>2, <4>3, <4>5
      <4> QED
        BY <4>2, <4>6, <4>7
    <3> QED
      BY <3>4, <3>5
  <2>2. ASSUME NEW t \in FastTasks, NEW k \in FastKeys, FastGet(t, k)
        PROVE InCache' \subseteq InCache
    BY <2>2 DEF FastGet, InCache, FastTypeOK
  <2>3. ASSUME NEW k \in FastKeys, Outdate(k) PROVE InCache' \subseteq InCache
    BY <2>3 DEF Outdate, InCache, FastTypeOK
  <2>4. ASSUME NEW m \in FastMutations, ClearShard(m) PROVE InCache' \subseteq InCache
    BY <2>4 DEF ClearShard, InCache
  <2>5. ASSUME UNCHANGED shard PROVE InCache' \subseteq InCache
    BY <2>5 DEF InCache
  <2>6. UNCHANGED shard
        \/ (\E t \in FastTasks : FastInsert(t))
        \/ (\E t \in FastTasks, k \in FastKeys : FastGet(t, k))
        \/ (\E k \in FastKeys : Outdate(k))
        \/ (\E m \in FastMutations : ClearShard(m))
    BY DEF FastStep, fastVars, Standard, FastExecute, FastDrop, FastMutate, DropMutation,
           StartClear
  <2> QED
    BY <2>1, <2>2, <2>3, <2>4, <2>5, <2>6, NoNewKeys
<1> QED
  BY <1>1, <1>2, FastTypeCorrect, PTL DEF FastSpec

-----------------------------------------------------------------------------
\* What ClearedIsForgotten needs on the way: the same of the shards cleared so far, and that
\* a mutation that clears has been performed.
ForgottenSoFar ==
    /\ \A m \in FastMutations :
         /\ mutation[m].at \in {"invalidate", "clear", "cleared"} => m \in performed
         /\ mutation[m].at = "cleared" => mutation[m].cleared >= NumShards
         /\ mutation[m].at \in {"execute", "invalidate"} => mutation[m].cleared = 0
    /\ \A m \in FastMutations, k \in InCache :
         mutation[m].at \in {"clear", "cleared"} /\ ShardOf[k] <= mutation[m].cleared
           => m \in shard[k].data \cup shard[k].since

ForgetInv == FastTypeOK /\ ForgottenSoFar

\* Entries keep what they hold, and mutations where they are.
LEMMA SameContent ==
    ASSUME ForgottenSoFar, UNCHANGED <<mutation, performed>>, InCache' \subseteq InCache,
           \A k \in InCache' : shard'[k].data = shard[k].data /\ shard'[k].since = shard[k].since
    PROVE  ForgottenSoFar'
  BY DEF ForgottenSoFar

\* The cache of the fast path forgets what a mutation made stale, shard by shard, but for
\* what was inserted since the mutation was performed.
THEOREM ClearForgets == FastSpec => []ClearedIsForgotten
<1>1. FastInit => ForgottenSoFar
  BY DEF FastInit, ForgottenSoFar, InCache
<1>2. ForgetInv /\ [FastStep]_fastVars => ForgottenSoFar'
  <2> SUFFICES ASSUME ForgetInv, [FastStep]_fastVars PROVE ForgottenSoFar'
    OBVIOUS
  <2> USE DEF ForgetInv
  <2>1. ASSUME NEW t \in FastTasks, NEW k \in FastKeys, FastGet(t, k) PROVE ForgottenSoFar'
    <3>1. InCache' \subseteq InCache
      BY <2>1 DEF FastGet, InCache, FastTypeOK
    <3>2. \A l \in InCache' : shard'[l].data = shard[l].data /\ shard'[l].since = shard[l].since
      BY <2>1, <3>1 DEF FastGet, InCache, FastTypeOK, FastEntry
    <3> QED
      BY <2>1, <3>1, <3>2, SameContent DEF FastGet
  <2>2. ASSUME NEW k \in FastKeys, Outdate(k) PROVE ForgottenSoFar'
    <3>1. InCache' \subseteq InCache
      BY <2>2 DEF Outdate, InCache, FastTypeOK
    <3>2. \A l \in InCache' : shard'[l].data = shard[l].data /\ shard'[l].since = shard[l].since
      BY <2>2, <3>1 DEF Outdate, InCache, FastTypeOK, FastEntry
    <3> QED
      BY <2>2, <3>1, <3>2, SameContent DEF Outdate
  <2>3. ASSUME NEW t \in FastTasks, FastInsert(t) PROVE ForgottenSoFar'
    <3> DEFINE new == [data |-> fastTask[t].read, since |-> performed, count |-> 1,
                       expired |-> FALSE]
    <3>1. UNCHANGED <<mutation, performed>>
      BY <2>3 DEF FastInsert
    <3>2. \A k \in InCache' : shard'[k] = new \/ (k \in InCache /\ shard'[k] = shard[k])
      <4> DEFINE keys == InShard(ShardOf[fastTask[t].key])
      <4>1. PICK gone \in IF Cardinality(keys) >= MaxEntries THEN Evicted(keys) ELSE {{}} :
              shard' = [l \in FastKeys |-> IF l = fastTask[t].key THEN new
                                           ELSE IF l \in gone THEN NoEntry ELSE shard[l]]
        BY <2>3 DEF FastInsert
      <4> HIDE DEF keys, new
      <4>2. SUFFICES ASSUME NEW k \in InCache'
                    PROVE  shard'[k] = new \/ (k \in InCache /\ shard'[k] = shard[k])
        OBVIOUS
      <4>3. shard'[k] = IF k = fastTask[t].key THEN new
                        ELSE IF k \in gone THEN NoEntry ELSE shard[k]
        BY <4>1 DEF InCache
      <4> QED
        BY <4>3 DEF InCache
    <3>3. \A m \in FastMutations, k \in InCache' :
            mutation[m].at \in {"clear", "cleared"} /\ ShardOf[k] <= mutation[m].cleared
              => m \in shard'[k].data \cup shard'[k].since
      BY <3>2 DEF ForgottenSoFar
    <3> QED
      BY <3>1, <3>3 DEF ForgottenSoFar
  <2>4. ASSUME NEW m \in FastMutations, FastMutate(m) \/ DropMutation(m) \/ StartClear(m)
        PROVE ForgottenSoFar'
    <3>1. \A k \in FastKeys : ShardOf[k] \in Nat /\ ShardOf[k] > 0
      BY DEF Shards
    <3>2. InCache' = InCache /\ shard' = shard /\ InCache \subseteq FastKeys
      BY <2>4 DEF FastMutate, DropMutation, StartClear, InCache
    <3> QED
      BY <2>4, <3>1, <3>2
      DEF ForgottenSoFar, FastTypeOK, FastMutate, DropMutation, StartClear, MoveTo
  <2>5. ASSUME NEW m \in FastMutations, ClearShard(m) PROVE ForgottenSoFar'
    <3>1. \A k \in FastKeys : ShardOf[k] \in Nat
      BY DEF Shards
    <3>2. \A k \in InCache' : /\ k \in InCache /\ shard'[k] = shard[k] /\ k \in FastKeys
                              /\ ShardOf[k] # mutation[m].cleared + 1
      BY <2>5 DEF ClearShard, InCache
    <3>3. mutation' = [mutation EXCEPT ![m] =
                         [at |-> IF mutation[m].cleared + 1 >= NumShards THEN "cleared" ELSE "clear",
                          cleared |-> mutation[m].cleared + 1]]
      BY <2>5 DEF ClearShard
    <3>4. ASSUME NEW n \in FastMutations, NEW k \in InCache',
                 mutation'[n].at \in {"clear", "cleared"}, ShardOf[k] <= mutation'[n].cleared
          PROVE  n \in shard'[k].data \cup shard'[k].since
      <4>1. k \in InCache /\ shard'[k] = shard[k] /\ ShardOf[k] \in Nat
        BY <3>1, <3>2
      <4>2. CASE n # m
        <5>1. mutation'[n] = mutation[n]
          BY <3>3, <4>2 DEF FastTypeOK
        <5> QED
          BY <3>4, <4>1, <5>1 DEF ForgottenSoFar
      <4>3. CASE n = m
        <5>1. mutation[m].at = "clear" /\ mutation[m].cleared \in Nat
          BY <2>5 DEF ClearShard, FastTypeOK
        <5>2. mutation'[m].cleared = mutation[m].cleared + 1
          BY <3>3 DEF FastTypeOK
        <5>3. ShardOf[k] <= mutation[m].cleared
          BY <3>2, <3>4, <4>1, <4>3, <5>1, <5>2
        <5> QED
          BY <4>1, <4>3, <5>1, <5>3 DEF ForgottenSoFar
      <4> QED
        BY <4>2, <4>3
    <3>5. \A n \in FastMutations :
            /\ mutation'[n].at \in {"invalidate", "clear", "cleared"} => n \in performed'
            /\ mutation'[n].at = "cleared" => mutation'[n].cleared >= NumShards
            /\ mutation'[n].at \in {"execute", "invalidate"} => mutation'[n].cleared = 0
      BY <2>5, <3>3 DEF ForgottenSoFar, FastTypeOK, ClearShard
    <3> QED
      BY <3>4, <3>5 DEF ForgottenSoFar
  <2>6. ASSUME UNCHANGED <<shard, mutation, performed>> PROVE ForgottenSoFar'
    BY <2>6 DEF ForgottenSoFar, InCache
  <2>7. (\E t \in FastTasks, k \in FastKeys : FastGet(t, k))
        \/ (\E k \in FastKeys : Outdate(k))
        \/ (\E t \in FastTasks : FastInsert(t))
        \/ (\E m \in FastMutations : FastMutate(m) \/ DropMutation(m) \/ StartClear(m))
        \/ (\E m \in FastMutations : ClearShard(m))
        \/ UNCHANGED <<shard, mutation, performed>>
    BY DEF FastStep, fastVars, Standard, FastExecute, FastDrop
  <2> QED
    BY <2>1, <2>2, <2>3, <2>4, <2>5, <2>6, <2>7
<1>3. ForgetInv => ClearedIsForgotten
  <2>1. \A k \in FastKeys : ShardOf[k] \in Nat /\ ShardOf[k] <= NumShards
    BY DEF Shards
  <2> QED
    BY <2>1 DEF ForgetInv, ForgottenSoFar, ClearedIsForgotten, InCache, FastTypeOK
<1>4. FastTypeOK /\ ForgottenSoFar => ForgetInv
  BY DEF ForgetInv
<1> QED
  BY <1>1, <1>2, <1>3, <1>4, FastTypeCorrect, PTL DEF FastSpec

-----------------------------------------------------------------------------
QuerySteps == {"get", "fetch", "fields", "done"} \cup Fetched
MutationSteps == {"mutate", "visit", "remove", "retain", "delete", "done"}

\* What the steps read, typed: the insertion order is left to TypeOK, which TLC checks.
CacheStateOK ==
    /\ backend \in {"memory", "redis"}
    /\ cache \in [Slots -> Entry \cup {None}]
    /\ index \in [Tags -> SUBSET Keys]
    /\ read \in [Queries -> SUBSET Mutations]
    /\ DOMAIN todo = Requests
    /\ \A m \in Mutations : todo[m] \subseteq IF pc[m] = "visit" THEN Tags ELSE Keys \cup Tags
    /\ racing \in [Mutations -> SUBSET Queries]
    /\ visiting \in [Mutations -> Tags \cup {None}]
    /\ lapses \subseteq Requests
    /\ DOMAIN pc = Requests
    /\ \A q \in Queries : pc[q] \in QuerySteps
    /\ \A m \in Mutations : pc[m] \in MutationSteps
    /\ applied = {m \in Mutations : pc[m] # "mutate"}

\* A step of one backend is not taken with the other.
OwnSteps ==
    /\ \A q \in Queries : pc[q] = "put" => backend = "redis"
    /\ \A q \in Queries : pc[q] \in Fetched \ {"put"} => backend = "memory"
    /\ \A m \in Mutations : pc[m] = "delete" => backend = "redis" /\ visiting[m] \in Tags

\* An entry is linked as far as the put that stored it has come.
LinkedSoFar ==
    \A k \in Keys \cap Stored :
        /\ KeyOf[cache[k].by] = k
        /\ pc[cache[k].by] \in {"order", "types", "entities", "fields", "done"}
        /\ cache[k].by \notin lapses =>
             /\ pc[cache[k].by] = "entities" => \A t \in Shows[k] \cap Types : k \in index[t]
             /\ pc[cache[k].by] \in {"fields", "done"} => \A t \in Shows[k] : k \in index[t]

\* Between SMEMBERS and DEL a mutation holds every member of the set, but for those that a
\* put adds in between.
MembersHeld ==
    \A m \in Mutations, k \in Keys \cap Stored :
        (pc[m] = "delete" /\ cache[k].by \notin lapses /\ pc[cache[k].by] \in {"fields", "done"} /\ visiting[m] \in Shows[k])
            => k \in todo[m]

\* A query that read the backend before a mutation and has yet to put raced with it.
UnreadRace ==
    \A q \in Queries, m \in Mutations :
        (pc[q] \in Fetched /\ pc[m] # "mutate" /\ m \notin read[q]) => q \in racing[m]

\* A response that predates a mutation it did not race with is still to be visited by
\* every tag both show, or among the keys about to be removed.
StaleIsPending ==
    /\ \A m \in Mutations : pc[m] = "done" => todo[m] = {}
    /\ \A m \in Mutations, k \in Keys \cap Stored :
        (pc[m] # "mutate" /\ {m, cache[k].by} \cap lapses = {} /\ m \notin cache[k].data /\ cache[k].by \notin racing[m])
        => /\ pc[cache[k].by] \in {"fields", "done"}
           /\ \/ Shows[k] \cap Reports[m] \subseteq todo[m]
              \/ pc[m] \in {"remove", "delete"} /\ k \in todo[m]

CacheInv == CacheStateOK /\ OwnSteps /\ LinkedSoFar /\ MembersHeld /\ UnreadRace /\ StaleIsPending

HIDE FastAssumption
USE CacheAssumption, ApartAssumption

\* Nothing is stored, and no mutation has begun.
LEMMA CacheInvHoldsFirst == Init => CacheInv
  BY DEF Init, CacheInv, CacheStateOK, OwnSteps, LinkedSoFar, MembersHeld, UnreadRace,
         StaleIsPending, Stored, Slots, Requests, Fetched, QuerySteps, MutationSteps

\* The steps of the gateway and those of the in-memory backend.
LEMMA PlainStepKeepsCacheInv ==
  ASSUME CacheInv, UNCHANGED backend, PlainNext, UNCHANGED redisVars
  PROVE  CacheInv'
<1> USE DEF CacheInv, CacheStateOK, OwnSteps, LinkedSoFar, MembersHeld, UnreadRace,
            StaleIsPending, QuerySteps, MutationSteps, Fetched, Requests, Slots, Tags, Entry,
            Stored, redisVars, Goto
<1>1. ASSUME NEW q \in Queries, Get(q) PROVE CacheInv'
  <2>1. pc[q] = "get" /\ UNCHANGED <<cache, index, applied, read, todo, racing>>
    BY <1>1 DEF Get
  <2>2. pc' = [pc EXCEPT ![q] = "done"] \/ pc' = [pc EXCEPT ![q] = "fetch"]
    BY <1>1 DEF Get
  <2>3. CASE pc' = [pc EXCEPT ![q] = "done"]
    BY <2>1, <2>3, SMTT(30)
  <2>4. CASE pc' = [pc EXCEPT ![q] = "fetch"]
    BY <2>1, <2>4, SMTT(30)
  <2> QED
    BY <2>2, <2>3, <2>4
<1>2. ASSUME NEW q \in Queries, Fetch(q) PROVE CacheInv'
  BY <1>2 DEF Fetch
<1>3. ASSUME NEW q \in Queries, EvictLen(q) PROVE CacheInv'
  BY <1>3, SMTT(30) DEF EvictLen
<1>4. ASSUME NEW q \in Queries, EvictDrain(q) PROVE CacheInv'
  BY <1>4 DEF EvictDrain
<1>5. ASSUME NEW q \in Queries, EvictRemove(q) PROVE CacheInv'
  BY <1>5, SMTT(30) DEF EvictRemove, RemoveInternal
<1>6. ASSUME NEW q \in Queries, Store(q) PROVE CacheInv'
  BY <1>6, SMTT(30) DEF Store
<1>7. ASSUME NEW q \in Queries, PushOrder(q) PROVE CacheInv'
  BY <1>7 DEF PushOrder
<1>8. ASSUME NEW q \in Queries, IndexTypes(q) PROVE CacheInv'
  BY <1>8, SMTT(30) DEF IndexTypes, LinkAll
<1>9. ASSUME NEW q \in Queries, IndexEntities(q) PROVE CacheInv'
  BY <1>9, SMTT(30) DEF IndexEntities, LinkAll
<1>10. ASSUME NEW q \in Queries, StoreEntities(q) PROVE CacheInv'
  BY <1>10, SMTT(30) DEF StoreEntities
<1>11. ASSUME NEW m \in Mutations, Mutate(m) PROVE CacheInv'
  <2>1. /\ pc[m] = "mutate" /\ pc' = [pc EXCEPT ![m] = "visit"]
        /\ applied' = applied \cup {m}
        /\ racing' = [racing EXCEPT ![m] = {q \in Queries : pc[q] \in Fetched}]
        /\ todo' = [todo EXCEPT ![m] = Reports[m]]
        /\ UNCHANGED <<cache, index, read, backend, visiting, lapses>>
    BY <1>11 DEF Mutate
  <2>2. CacheStateOK' /\ OwnSteps' /\ LinkedSoFar' /\ MembersHeld'
    BY <2>1, SMTT(30)
  <2>3. UnreadRace'
    BY <2>1, SMTT(30)
  <2>4. StaleIsPending'
    BY <2>1, SMTT(30)
  <2> QED
    BY <2>2, <2>3, <2>4
<1>12. ASSUME NEW m \in Mutations, Visit(m) PROVE CacheInv'
  <2>1. backend = "memory" /\ pc[m] = "visit" /\ UNCHANGED <<cache, index, applied, read, racing>>
    BY <1>12 DEF Visit
  <2>2. PICK t \in todo[m] :
          IF index[t] = {} THEN todo' = [todo EXCEPT ![m] = @ \ {t}] /\ UNCHANGED pc
          ELSE todo' = [todo EXCEPT ![m] = (@ \ {t}) \cup index[t]] /\ pc' = [pc EXCEPT ![m] = "remove"]
    BY <1>12 DEF Visit
  <2>3. CASE index[t] = {}
    <3>1. todo' = [todo EXCEPT ![m] = @ \ {t}] /\ UNCHANGED pc
      BY <2>2, <2>3
    <3>2. UNCHANGED <<visiting, lapses, backend>> /\ t \in Tags
      BY <2>1, <2>2
    <3>3. CacheStateOK'
      BY <2>1, <3>1, <3>2
    <3>4. OwnSteps' /\ LinkedSoFar' /\ MembersHeld'
      BY <2>1, <3>1, <3>2
    <3>5. UnreadRace'
      BY <2>1, <3>1, <3>2
    <3>6. StaleIsPending'
      BY <2>1, <2>3, <3>1, <3>2, SMTT(30)
    <3> QED
      BY <3>3, <3>4, <3>5, <3>6
  <2>4. CASE index[t] # {}
    <3>1. todo' = [todo EXCEPT ![m] = (@ \ {t}) \cup index[t]] /\ pc' = [pc EXCEPT ![m] = "remove"]
      BY <2>2, <2>4
    <3>2. UNCHANGED <<visiting, lapses, backend>> /\ t \in Tags
      BY <2>1, <2>2
    <3>3. CacheStateOK'
      BY <2>1, <3>1, <3>2
    <3>4. OwnSteps' /\ LinkedSoFar' /\ MembersHeld'
      BY <2>1, <3>1, <3>2
    <3>5. UnreadRace'
      BY <2>1, <3>1, <3>2
    <3>6. StaleIsPending'
      BY <2>1, <2>4, <3>1, <3>2, SMTT(30)
    <3> QED
      BY <3>3, <3>4, <3>5, <3>6
  <2> QED
    BY <2>3, <2>4
<1>13. ASSUME NEW m \in Mutations, RemoveEntries(m) PROVE CacheInv'
  BY <1>13, SMTT(30) DEF RemoveEntries, RemoveInternal
<1>14. ASSUME NEW m \in Mutations, RetainOrder(m) PROVE CacheInv'
  BY <1>14 DEF RetainOrder
<1>15. ASSUME NEW m \in Mutations, Invalidated(m) PROVE CacheInv'
  BY <1>15 DEF Invalidated
<1>16. CASE Expire
  <2>1. UNCHANGED <<index, applied, pc, read, todo, racing, visiting, lapses>>
    BY <1>16 DEF Expire
  <2>2. CASE UNCHANGED cache
    BY <2>1, <2>2
  <2>3. ASSUME NEW s \in Stored, cache' = [cache EXCEPT ![s] = None] PROVE CacheInv'
    <3>1. /\ cache' \in [Slots -> Entry \cup {None}] /\ Stored' \subseteq Stored
          /\ \A k \in Stored' : cache'[k] = cache[k]
      BY <2>3
    <3>2. CacheStateOK' /\ OwnSteps'
      BY <2>1, <3>1
    <3> HIDE DEF Stored
    <3>3. LinkedSoFar' /\ MembersHeld'
      BY <2>1, <3>1
    <3>4. UnreadRace' /\ StaleIsPending'
      BY <2>1, <3>1
    <3> QED
      BY <3>2, <3>3, <3>4
  <2> QED
    BY <1>16, <2>2, <2>3 DEF Expire
<1> QED
  BY <1>1, <1>2, <1>3, <1>4, <1>5, <1>6, <1>7, <1>8, <1>9, <1>10, <1>11, <1>12, <1>13, <1>14,
     <1>15, <1>16 DEF PlainNext

\* SMEMBERS: a tag is left unvisited only by a mutation that then counts as failed.
LEMMA MembersKeepsCacheInv ==
  ASSUME CacheInv, UNCHANGED backend, NEW m \in Mutations, RedisMembers(m)
  PROVE  CacheInv'
<1> USE DEF CacheInv, CacheStateOK, OwnSteps, LinkedSoFar, MembersHeld, UnreadRace,
            StaleIsPending, QuerySteps, MutationSteps, Fetched, Requests, Slots, Tags, Entry,
            Stored, Goto
<1>1. /\ backend = "redis" /\ pc[m] = "visit"
      /\ UNCHANGED <<cache, index, applied, read, racing>>
  BY DEF RedisMembers
<1>2. PICK t \in todo[m] :
        /\ t \in Types \/ todo[m] \cap Types = {}
        /\ \/ /\ index[t] # {}
              /\ todo' = [todo EXCEPT ![m] = (@ \ {t}) \cup index[t]]
              /\ visiting' = [visiting EXCEPT ![m] = t]
              /\ pc' = [pc EXCEPT ![m] = "delete"]
              /\ UNCHANGED lapses
           \/ /\ todo' = [todo EXCEPT ![m] = @ \ {t}]
              /\ lapses' = IF index[t] = {} THEN lapses ELSE lapses \cup {m}
              /\ UNCHANGED <<pc, visiting>>
  BY DEF RedisMembers
<1>3. CASE /\ index[t] # {}
           /\ todo' = [todo EXCEPT ![m] = (@ \ {t}) \cup index[t]]
           /\ visiting' = [visiting EXCEPT ![m] = t]
           /\ pc' = [pc EXCEPT ![m] = "delete"]
           /\ UNCHANGED lapses
  BY <1>1, <1>3, SMTT(60)
<1>4. CASE /\ todo' = [todo EXCEPT ![m] = @ \ {t}]
           /\ lapses' = IF index[t] = {} THEN lapses ELSE lapses \cup {m}
           /\ UNCHANGED <<pc, visiting>>
  BY <1>1, <1>4, SMTT(60)
<1> QED
  BY <1>2, <1>3, <1>4

\* The pipeline with DEL deletes the entries it holds with the set they were found in.
LEMMA DeleteKeepsCacheInv ==
  ASSUME CacheInv, UNCHANGED backend, NEW m \in Mutations, RedisDelete(m)
  PROVE  CacheInv'
<1> USE DEF CacheInv, CacheStateOK, OwnSteps, LinkedSoFar, MembersHeld, UnreadRace,
            StaleIsPending, QuerySteps, MutationSteps, Fetched, Requests, Slots, Tags, Entry,
            Stored, Goto
<1>1. /\ pc[m] = "delete"
      /\ todo' = [todo EXCEPT ![m] = @ \ Keys]
      /\ pc' = [pc EXCEPT ![m] = "visit"]
      /\ UNCHANGED <<applied, read, racing, visiting>>
  BY DEF RedisDelete
<1>2. CASE /\ cache' = [s \in Slots |-> IF s \in todo[m] \cap Keys THEN None ELSE cache[s]]
           /\ index' = [index EXCEPT ![visiting[m]] = {}]
           /\ UNCHANGED lapses
  BY <1>1, <1>2, SMTT(60)
<1>3. CASE lapses' = lapses \cup {m} /\ UNCHANGED <<cache, index>>
  BY <1>1, <1>3, SMTT(60)
<1> QED
  BY <1>2, <1>3 DEF RedisDelete

\* A put in one pipeline, counted as a lapse when it comes between the two commands.
LEMMA RedisPutKeepsCacheInv ==
  ASSUME CacheInv, UNCHANGED backend, NEW q \in Queries, RedisPut(q)
  PROVE  CacheInv'
<1> USE DEF CacheInv, CacheStateOK, OwnSteps, LinkedSoFar, MembersHeld, UnreadRace,
            StaleIsPending, QuerySteps, MutationSteps, Fetched, Requests, Slots, Tags, Entry,
            Stored, Goto
<1>1. /\ pc[q] = "put" /\ pc' = [pc EXCEPT ![q] = "fields"]
      /\ UNCHANGED <<applied, read, todo, racing, visiting>>
  BY DEF RedisPut
<1>2. CASE UNCHANGED <<cache, index, lapses>>
  BY <1>1, <1>2, SMTT(30)
<1>3. CASE /\ cache' = [cache EXCEPT ![KeyOf[q]] = [data |-> read[q], by |-> q]]
           /\ LinkAll(KeyOf[q], Shows[KeyOf[q]])
           /\ lapses' = IF \E m \in Mutations : pc[m] = "delete" THEN lapses \cup {q} ELSE lapses
  BY <1>1, <1>3, SMTT(60) DEF LinkAll
<1> QED
  BY <1>2, <1>3 DEF RedisPut

\* Every step of the gateway, of Redis and of the in-memory store.
LEMMA StepKeepsCacheInv == CacheInv /\ [Next]_vars => CacheInv'
<1> SUFFICES ASSUME CacheInv, [Next]_vars PROVE CacheInv'
  OBVIOUS
<1>1. CASE Next
  BY <1>1, PlainStepKeepsCacheInv, RedisPutKeepsCacheInv, MembersKeepsCacheInv,
     DeleteKeepsCacheInv DEF Next, RedisNext
<1>2. CASE UNCHANGED vars
  BY <1>2 DEF vars, CacheInv, CacheStateOK, OwnSteps, LinkedSoFar, MembersHeld, UnreadRace,
              StaleIsPending, Stored
<1> QED
  BY <1>1, <1>2

\* The invariant the two properties of the response cache follow from: how far every put() and
\* every invalidate_by_mutation() has come is matched by what the cache and its index hold.
THEOREM CacheInvAlways == Spec => []CacheInv
<1> QED
  BY CacheInvHoldsFirst, StepKeepsCacheInv, PTL DEF Spec

\* Whatever a put that has returned left in the response cache is in the index under every type,
\* entity and field its response shows: CachedIsIndexed, for both backends.
THEOREM PutsAreIndexed == Spec => []CachedIsIndexed
<1>1. CacheInv => CachedIsIndexed
  BY DEF CacheInv, LinkedSoFar, CachedIsIndexed
<1> QED
  BY <1>1, CacheInvAlways, PTL

\* A response that predates a mutation stays in the cache after invalidate_by_mutation() only if
\* its request raced with the mutation, or an index entry expired: StaleOnlyFromRaces.
THEOREM OnlyRacesStayStale == Spec => []StaleOnlyFromRaces
<1>1. CacheInv => StaleOnlyFromRaces
  BY DEF CacheInv, StaleIsPending, StaleOnlyFromRaces
<1> QED
  BY <1>1, CacheInvAlways, PTL

=============================================================================
