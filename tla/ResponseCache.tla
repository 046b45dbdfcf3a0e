---------------------------- MODULE ResponseCache ----------------------------
(***************************************************************************)
(* The response cache (src/cache.rs) under the gateway's HTTP               *)
(* path (ServeMux::handle_http in src/runtime.rs): queries look up, execute *)
(* on a miss and put what they read; mutations execute and then invalidate  *)
(* by the types and entities named in their response.                       *)
(*                                                                          *)
(* In memory, the map, the insertion order and the two indexes are four      *)
(* RwLocks, and an operation takes them one after the other: one action per  *)
(* lock section, any other request in between.  In Redis an operation is one  *)
(* command or one atomic pipeline, or two, and each may fail.  A response's   *)
(* content is the set of mutations whose effect it shows.                     *)
(***************************************************************************)
EXTENDS Naturals, Sequences, FiniteSets, SequencesExt

CONSTANTS
    Queries, Mutations,  \* requests, each sent once
    Keys,                \* cache keys of query responses
    KeyOf,               \* the cache key of each query
    Types, Entities,     \* __typename values, and Type#id entity keys
    Shows,               \* types and entities visible in the response under a key
    DependsOn,           \* types and entities its data comes from
    Reports,             \* types and entities visible in a mutation's response
    Writes,              \* types and entities a mutation changes
    MaxSize,             \* CacheConfig::max_size
    None

Tags == Types \cup Entities
Slots == Keys \cup Entities      \* put_all_entities stores under "entity:Type#id"
Requests == Queries \cup Mutations

ASSUME CacheAssumption ==
    /\ KeyOf \in [Queries -> Keys]
    /\ Shows \in [Keys -> SUBSET Tags] /\ DependsOn \in [Keys -> SUBSET Tags]
    /\ Reports \in [Mutations -> SUBSET Tags] /\ Writes \in [Mutations -> SUBSET Tags]
    /\ \A k \in Keys : Shows[k] \subseteq DependsOn[k]
    /\ \A m \in Mutations : Reports[m] \subseteq Writes[m]
    /\ MaxSize \in Nat

\* Requests are queries or mutations; a cache key is a hash of the request, an entity is
\* stored under another prefix and indexed, as types are, in maps of their own.
ASSUME ApartAssumption ==
    /\ Queries \cap Mutations = {} /\ Keys \cap Tags = {}
    /\ None \notin [data : SUBSET Mutations, by : Queries]

VARIABLES
    backend,   \* CacheBackend: "memory" or "redis"
    cache,     \* HashMap<String, CachedResponse>, by slot; the keys in Redis
    expired,   \* memory: the slots whose entry is past its ttl (and past the stale window)
    order,     \* insertion_order
    index,     \* type_index and entity_index, by tag
    applied,   \* the mutations the backend has executed
    pc,        \* where each request stands
    read,      \* the data a query has fetched
    todo,      \* an operation's private list: keys to remove, tags to go through
    excess,    \* to_remove in evict_if_needed
    racing,    \* history: the queries between fetch and index when a mutation was applied
    visiting,  \* Redis: the tag a mutation is at
    lapses     \* history, Redis: queries whose put came between the two commands of an
               \* invalidation, and mutations one of whose commands failed

vars == <<backend, cache, expired, order, index, applied, pc, read, todo, excess, racing,
          visiting, lapses>>

redisVars == <<visiting, lapses>>

Fetched == {"put", "len", "drain", "evict", "store", "order", "types", "entities"}

Goto(r, step) == pc' = [pc EXCEPT ![r] = step]

Init ==
    /\ backend \in {"memory", "redis"}
    /\ cache = [s \in Slots |-> None]
    /\ expired = {}
    /\ order = <<>>
    /\ index = [t \in Tags |-> {}]
    /\ applied = {}
    /\ pc = [r \in Requests |-> IF r \in Queries THEN "get" ELSE "mutate"]
    /\ read = [q \in Queries |-> {}]
    /\ todo = [r \in Requests |-> {}]
    /\ excess = [q \in Queries |-> 0]
    /\ racing = [m \in Mutations |-> {}]
    /\ visiting = [m \in Mutations |-> None]
    /\ lapses = {}

Stored == {s \in Slots : cache[s] # None}

\* remove_entries_internal: the map's write lock is held throughout; links are
\* cleaned for the entries that were there.
RemoveInternal(keys) ==
    /\ cache' = [s \in Slots |-> IF s \in keys THEN None ELSE cache[s]]
    /\ index' = [t \in Tags |-> index[t] \ {k \in keys \cap Stored : t \in Shows[k]}]

-----------------------------------------------------------------------------
\* A fresh or stale-but-usable entry answers the query, anything else is a miss, and so
\* is an error of Redis.
Get(q) ==
    /\ pc[q] = "get"
    /\ \/ KeyOf[q] \in Stored \ expired /\ Goto(q, "done")
       \/ (KeyOf[q] \notin Stored \ expired \/ backend = "redis") /\ Goto(q, "fetch")
    /\ UNCHANGED <<cache, expired, order, index, applied, read, todo, excess, racing>>

\* execute_with_middlewares: the backends answer with what they have now.
Fetch(q) ==
    /\ pc[q] = "fetch"
    /\ read' = [read EXCEPT ![q] = applied]
    /\ Goto(q, IF backend = "redis" THEN "put" ELSE "len")
    /\ UNCHANGED <<cache, expired, order, index, applied, todo, excess, racing>>

\* evict_if_needed: the map's length under its read lock ...
EvictLen(q) ==
    /\ pc[q] = "len"
    /\ IF Cardinality(Stored) >= MaxSize
       THEN /\ excess' = [excess EXCEPT ![q] = Cardinality(Stored) - MaxSize + 1]
            /\ Goto(q, "drain")
       ELSE Goto(q, "store") /\ UNCHANGED excess
    /\ UNCHANGED <<cache, expired, order, index, applied, read, todo, racing>>

\* ... the oldest keys drained from the insertion order ...
EvictDrain(q) ==
    LET n == IF excess[q] < Len(order) THEN excess[q] ELSE Len(order)
    IN  /\ pc[q] = "drain"
        /\ todo' = [todo EXCEPT ![q] = ToSet(SubSeq(order, 1, n))]
        /\ order' = SubSeq(order, n + 1, Len(order))
        /\ Goto(q, "evict")
        /\ UNCHANGED <<cache, expired, index, applied, read, excess, racing>>

\* ... and their entries removed.
EvictRemove(q) ==
    /\ pc[q] = "evict"
    /\ RemoveInternal(todo[q])
    /\ todo' = [todo EXCEPT ![q] = {}]
    /\ Goto(q, "store")
    /\ UNCHANGED <<expired, order, applied, read, excess, racing>>

\* put_with_ttl, lock by lock: the map,
Store(q) ==
    /\ pc[q] = "store"
    /\ cache' = [cache EXCEPT ![KeyOf[q]] = [data |-> read[q], by |-> q]]
    /\ expired' = expired \ {KeyOf[q]}
    /\ Goto(q, "order")
    /\ UNCHANGED <<order, index, applied, read, todo, excess, racing>>

\* the insertion order,
PushOrder(q) ==
    /\ pc[q] = "order"
    /\ order' = Append(SelectSeq(order, LAMBDA k : k # KeyOf[q]), KeyOf[q])
    /\ Goto(q, "types")
    /\ UNCHANGED <<cache, expired, index, applied, read, todo, excess, racing>>

LinkAll(k, tags) == index' = [t \in Tags |-> IF t \in tags THEN index[t] \cup {k} ELSE index[t]]

\* Mutant of IndexTypes: or_insert_with without the insert that follows it.
IndexTypesOnce(q) ==
    /\ pc[q] = "types"
    /\ LinkAll(KeyOf[q], {t \in Shows[KeyOf[q]] \cap Types : index[t] = {}})
    /\ Goto(q, "entities")
    /\ UNCHANGED <<cache, expired, order, applied, read, todo, excess, racing>>

\* the type index,
IndexTypes(q) ==
    /\ pc[q] = "types"
    /\ LinkAll(KeyOf[q], Shows[KeyOf[q]] \cap Types)
    /\ Goto(q, "entities")
    /\ UNCHANGED <<cache, expired, order, applied, read, todo, excess, racing>>

\* the entity index.
IndexEntities(q) ==
    /\ pc[q] = "entities"
    /\ LinkAll(KeyOf[q], Shows[KeyOf[q]] \cap Entities)
    /\ Goto(q, "fields")
    /\ UNCHANGED <<cache, expired, order, applied, read, todo, excess, racing>>

\* put_all_entities: each entity of the response goes into the map alone, with
\* no types, no entities and no place in the insertion order; an error of Redis skips it.
StoreEntities(q) ==
    LET shown == Shows[KeyOf[q]] \cap Entities
    IN  /\ pc[q] = "fields"
        /\ \E set \in IF backend = "redis" THEN SUBSET shown ELSE {shown} :
             /\ cache' = [s \in Slots |-> IF s \in set THEN [data |-> read[q], by |-> q]
                                         ELSE cache[s]]
             /\ expired' = expired \ set
        /\ Goto(q, "done")
        /\ UNCHANGED <<order, index, applied, read, todo, excess, racing>>

\* put_with_ttl in Redis: SETEX and the SADDs are one pipeline; an error is logged.
RedisPut(q) ==
    /\ pc[q] = "put"
    /\ \/ /\ cache' = [cache EXCEPT ![KeyOf[q]] = [data |-> read[q], by |-> q]]
          /\ LinkAll(KeyOf[q], Shows[KeyOf[q]])
          /\ lapses' = IF \E m \in Mutations : pc[m] = "delete" THEN lapses \cup {q} ELSE lapses
       \/ UNCHANGED <<cache, index, lapses>>
    /\ Goto(q, "fields")
    /\ UNCHANGED <<expired, order, applied, read, todo, excess, racing, visiting>>

-----------------------------------------------------------------------------
\* The mutation executes; its response names the types and entities to visit.
Mutate(m) ==
    /\ pc[m] = "mutate"
    /\ applied' = applied \cup {m}
    /\ racing' = [racing EXCEPT ![m] = {q \in Queries : pc[q] \in Fetched}]
    /\ todo' = [todo EXCEPT ![m] = Reports[m]]
    /\ Goto(m, "visit")
    /\ UNCHANGED <<cache, expired, order, index, read, excess>>

\* invalidate_by_type for each type, then invalidate_by_entity for each entity:
\* copy the index set, release the index, and remove what was copied.
Visit(m) ==
    /\ backend = "memory" /\ pc[m] = "visit"
    /\ \E t \in todo[m] :
         /\ t \in Types \/ todo[m] \cap Types = {}
         /\ IF index[t] = {}
            THEN todo' = [todo EXCEPT ![m] = @ \ {t}] /\ UNCHANGED pc
            ELSE todo' = [todo EXCEPT ![m] = (@ \ {t}) \cup index[t]] /\ Goto(m, "remove")
    /\ UNCHANGED <<cache, expired, order, index, applied, read, excess, racing>>

\* Mutant of RemoveEntries: the visited tags' sets are dropped whole, as the
\* Redis backend does with DEL after its SMEMBERS.
RemoveEntriesAndSets(m) ==
    /\ pc[m] = "remove"
    /\ cache' = [s \in Slots |-> IF s \in todo[m] \cap Keys THEN None ELSE cache[s]]
    /\ index' = [t \in Tags |-> IF t \in Reports[m] \ todo[m] THEN {} ELSE index[t]]
    /\ Goto(m, "retain")
    /\ UNCHANGED <<expired, order, applied, read, todo, excess, racing>>

RemoveEntries(m) ==
    /\ pc[m] = "remove"
    /\ RemoveInternal(todo[m] \cap Keys)
    /\ Goto(m, "retain")
    /\ UNCHANGED <<expired, order, applied, read, todo, excess, racing>>

RetainOrder(m) ==
    /\ pc[m] = "retain"
    /\ order' = SelectSeq(order, LAMBDA k : k \notin todo[m])
    /\ todo' = [todo EXCEPT ![m] = @ \ Keys]
    /\ Goto(m, "visit")
    /\ UNCHANGED <<cache, expired, index, applied, read, excess, racing>>

\* invalidate_by_type and invalidate_by_entity in Redis: SMEMBERS; an error ends the visit.
RedisMembers(m) ==
    /\ backend = "redis" /\ pc[m] = "visit"
    /\ \E t \in todo[m] :
         /\ t \in Types \/ todo[m] \cap Types = {}
         /\ \/ /\ index[t] # {}
               /\ todo' = [todo EXCEPT ![m] = (@ \ {t}) \cup index[t]]
               /\ visiting' = [visiting EXCEPT ![m] = t]
               /\ Goto(m, "delete")
               /\ UNCHANGED lapses
            \/ /\ todo' = [todo EXCEPT ![m] = @ \ {t}]
               /\ lapses' = IF index[t] = {} THEN lapses ELSE lapses \cup {m}
               /\ UNCHANGED <<pc, visiting>>
    /\ UNCHANGED <<cache, expired, order, index, applied, read, excess, racing>>

\* Then one pipeline that deletes the members and the set itself, whatever has been added
\* to it since; an error is ignored.
RedisDelete(m) ==
    /\ pc[m] = "delete"
    /\ \/ /\ cache' = [s \in Slots |-> IF s \in todo[m] \cap Keys THEN None ELSE cache[s]]
          /\ index' = [index EXCEPT ![visiting[m]] = {}]
          /\ UNCHANGED lapses
       \/ lapses' = lapses \cup {m} /\ UNCHANGED <<cache, index>>
    /\ todo' = [todo EXCEPT ![m] = @ \ Keys]
    /\ Goto(m, "visit")
    /\ UNCHANGED <<expired, order, applied, read, excess, racing, visiting>>

Invalidated(m) ==
    /\ pc[m] = "visit" /\ todo[m] = {}
    /\ Goto(m, "done")
    /\ UNCHANGED <<cache, expired, order, index, applied, read, todo, excess, racing>>

\* Time passes an entry's ttl: it stays in the map but answers no query; Redis drops it.
Expire ==
    /\ \E s \in Stored \ expired :
         IF backend = "memory" THEN expired' = expired \cup {s} /\ UNCHANGED cache
         ELSE cache' = [cache EXCEPT ![s] = None] /\ UNCHANGED expired
    /\ UNCHANGED <<order, index, applied, pc, read, todo, excess, racing>>

\* The steps that do not touch what is Redis's alone.
PlainNext ==
    \/ \E q \in Queries :
         \/ Get(q) \/ Fetch(q) \/ EvictLen(q) \/ EvictDrain(q) \/ EvictRemove(q)
         \/ Store(q) \/ PushOrder(q) \/ IndexTypes(q) \/ IndexEntities(q) \/ StoreEntities(q)
    \/ \E m \in Mutations :
         Mutate(m) \/ Visit(m) \/ RemoveEntries(m) \/ RetainOrder(m) \/ Invalidated(m)
    \/ Expire

RedisNext ==
    \/ \E q \in Queries : RedisPut(q)
    \/ \E m \in Mutations : RedisMembers(m) \/ RedisDelete(m)

Next ==
    /\ UNCHANGED backend
    /\ \/ PlainNext /\ UNCHANGED redisVars
       \/ RedisNext

Spec == Init /\ [][Next]_vars

-----------------------------------------------------------------------------
Entry == [data : SUBSET Mutations, by : Queries]

TypeOK ==
    /\ cache \in [Slots -> Entry \cup {None}]
    /\ expired \subseteq Slots
    /\ order \in Seq(Keys) /\ IsInjective(order)
    /\ index \in [Tags -> SUBSET Keys]
    /\ applied \subseteq Mutations
    /\ read \in [Queries -> SUBSET Mutations]
    /\ todo \in [Requests -> SUBSET (Keys \cup Tags)]
    /\ excess \in [Queries -> Nat]
    /\ racing \in [Mutations -> SUBSET Queries]
    /\ backend \in {"memory", "redis"}
    /\ visiting \in [Mutations -> Tags \cup {None}] /\ lapses \subseteq Requests

\* A cached response whose put is past the indexes can be found by everything it
\* shows, whatever evictions, invalidations and other puts of the key ran between; in
\* Redis, unless it came between the two commands of an invalidation.
CachedIsIndexed ==
    \A k \in Keys \cap Stored :
        pc[cache[k].by] \in {"fields", "done"} /\ cache[k].by \notin lapses => \A t \in Shows[k] : k \in index[t]

\* When a mutation's invalidation is through, a response that shows something
\* the mutation reports but not its effect was put by a query that had read the
\* backend before the mutation and had not finished its put; unless Redis failed the
\* invalidation, or the entry came between the two commands of another one.
StaleOnlyFromRaces ==
    \A m \in Mutations, k \in Keys \cap Stored :
        (pc[m] = "done" /\ {m, cache[k].by} \cap lapses = {} /\ Shows[k] \cap Reports[m] # {} /\ m \notin cache[k].data)
            => cache[k].by \in racing[m]

\* caching.md: "Subsequent queries fetch fresh data": no race excused, no
\* __typename needed: once a mutation is through and no query it raced with
\* remains, no usable response predates it.
MutationsInvalidate ==
    \A m \in Mutations, k \in Keys \cap (Stored \ expired) :
        (pc[m] = "done" /\ racing[m] = {} /\ DependsOn[k] \cap Writes[m] # {})
            => m \in cache[k].data

=============================================================================
