-------------------------- MODULE PersistedQueries --------------------------
(***************************************************************************)
(* The store of Automatic Persisted Queries (src/persisted_queries.rs):     *)
(* a map from hash to query and, under a lock of its own, the order of      *)
(* insertion that eviction follows.  process_apq_request runs in the task   *)
(* of the request, without an await, and takes the locks one by one.        *)
(*                                                                          *)
(* SHA-256 is taken to be injective: a hash is named by the query that has   *)
(* it.  What the map holds under a hash is a query of its own, so that what  *)
(* put() validates matters.                                                  *)
(***************************************************************************)
EXTENDS Naturals, Sequences, FiniteSets

CONSTANTS
    Requests,    \* request tasks, each asking once
    Queries,     \* query texts, and their hashes
    CacheSize,   \* PersistedQueryConfig::cache_size
    None,        \* no text, no hash, nothing stored
    Variables,   \* what a query's variables may be
    Asks         \* what a request may send: a hash, a text, both or neither

Request == [hash : Queries \cup {None}, text : Queries \cup {None}, variables : Variables]

ASSUME StoreAssumption ==
    /\ CacheSize \in Nat
    /\ None \notin Queries
    /\ Asks \subseteq Request

VARIABLES
    pc,               \* where process_apq_request stands for each request
    ask,              \* what each request has sent
    resolved,         \* the query string process_apq_request returned
    stored,           \* the map: hash -> query
    expired,          \* hashes whose entry is older than the ttl
    insertion_order,  \* hashes, oldest first
    excess,           \* how many entries an eviction wants to remove
    victims           \* the hashes it has drained from the order

apqVars == <<pc, ask, resolved, stored, expired, insertion_order, excess, victims>>

ApqSteps == {"new", "get", "put", "evict", "remove", "insert", "push", "resolved", "rejected"}

Goto(r, step) == pc' = [pc EXCEPT ![r] = step]

Held == {h \in Queries : stored[h] # None}

Elements(s) == {s[i] : i \in 1..Len(s)}
Listed == Elements(insertion_order)

\* The query a request names: that of its hash, if it sent one, else its text.
Meant(r) == IF ask[r].hash # None THEN ask[r].hash ELSE ask[r].text

-----------------------------------------------------------------------------
ApqInit ==
    /\ pc = [r \in Requests |-> "new"]
    /\ ask \in [Requests -> Asks]
    /\ resolved = [r \in Requests |-> None]
    /\ stored = [h \in Queries |-> None]
    /\ expired = {}
    /\ insertion_order = <<>>
    /\ excess = [r \in Requests |-> 0]
    /\ victims = [r \in Requests |-> {}]

Resolve(r, q) == resolved' = [resolved EXCEPT ![r] = q] /\ Goto(r, "resolved")

\* Without the extension the text is taken as it is (none at all is an error of
\* the caller); an unknown version is rejected; else the store is asked.
Begin(r) ==
    LET a == ask[r]
    IN  /\ pc[r] = "new"
        /\ \/ a.hash = None /\ a.text # None /\ Resolve(r, a.text)
           \/ a.hash = None /\ a.text = None /\ Goto(r, "rejected") /\ UNCHANGED resolved
           \/ a.hash # None /\ (\E s \in {"get", "rejected"} : Goto(r, s)) /\ UNCHANGED resolved
        /\ UNCHANGED <<ask, stored, expired, insertion_order, excess, victims>>

\* get(): under one lock, an expired entry is removed and counts as absent.
Get(r) ==
    LET h == ask[r].hash
    IN  /\ pc[r] = "get"
        /\ IF h \in Held \ expired
           THEN Resolve(r, stored[h]) /\ UNCHANGED <<stored, expired>>
           ELSE /\ stored' = [stored EXCEPT ![h] = None]
                /\ expired' = expired \ {h}
                /\ Goto(r, IF ask[r].text = None THEN "rejected" ELSE "put")
                /\ UNCHANGED resolved
        /\ UNCHANGED <<ask, insertion_order, excess, victims>>

\* Mutant of Put: the hash is not compared with that of the text.
PutUnvalidated(r) ==
    /\ pc[r] = "put"
    /\ excess' = [excess EXCEPT ![r] = IF Cardinality(Held) >= CacheSize
                                       THEN Cardinality(Held) - CacheSize + 1 ELSE 0]
    /\ Goto(r, IF Cardinality(Held) >= CacheSize THEN "evict" ELSE "insert")
    /\ UNCHANGED <<ask, resolved, stored, expired, insertion_order, victims>>

\* put() validates the hash, then evict_if_needed reads the length.
Put(r) ==
    /\ pc[r] = "put"
    /\ IF ask[r].text # ask[r].hash THEN Goto(r, "rejected") /\ UNCHANGED excess
       ELSE LET full == Cardinality(Held) >= CacheSize
            IN  /\ excess' = [excess EXCEPT ![r] = IF full THEN Cardinality(Held) - CacheSize + 1
                                                   ELSE 0]
                /\ Goto(r, IF full THEN "evict" ELSE "insert")
    /\ UNCHANGED <<ask, resolved, stored, expired, insertion_order, victims>>

\* The order's lock: drain the oldest hashes, those without an entry included.
Evict(r) ==
    LET n == IF excess[r] < Len(insertion_order) THEN excess[r] ELSE Len(insertion_order)
    IN  /\ pc[r] = "evict"
        /\ victims' = [victims EXCEPT ![r] = {insertion_order[i] : i \in 1..n}]
        /\ insertion_order' = SubSeq(insertion_order, n + 1, Len(insertion_order))
        /\ Goto(r, "remove")
        /\ UNCHANGED <<ask, resolved, stored, expired, excess>>

\* Mutant of Remove: the hash that is being put is removed, not those drained.
RemoveOwn(r) ==
    /\ pc[r] = "remove"
    /\ stored' = [stored EXCEPT ![ask[r].hash] = None]
    /\ expired' = expired \ {ask[r].hash}
    /\ Goto(r, "insert")
    /\ UNCHANGED <<ask, resolved, insertion_order, excess, victims>>

\* The map's lock again: the drained hashes go.
Remove(r) ==
    /\ pc[r] = "remove"
    /\ stored' = [h \in Queries |-> IF h \in victims[r] THEN None ELSE stored[h]]
    /\ expired' = expired \ victims[r]
    /\ Goto(r, "insert")
    /\ UNCHANGED <<ask, resolved, insertion_order, excess, victims>>

Insert(r) ==
    /\ pc[r] = "insert"
    /\ stored' = [stored EXCEPT ![ask[r].hash] = ask[r].text]
    /\ expired' = expired \ {ask[r].hash}
    /\ Goto(r, "push")
    /\ UNCHANGED <<ask, resolved, insertion_order, excess, victims>>

\* A sequence without the element at position i.
Omit(s, i) == [j \in 1..(Len(s) - 1) |-> IF j < i THEN s[j] ELSE s[j + 1]]

\* order.retain(|h| h != hash): no hash is listed twice.
Retain(s, h) == IF \E i \in 1..Len(s) : s[i] = h
                THEN Omit(s, CHOOSE i \in 1..Len(s) : s[i] = h) ELSE s

Push(r) ==
    /\ pc[r] = "push"
    /\ insertion_order' = Append(Retain(insertion_order, ask[r].hash), ask[r].hash)
    /\ Resolve(r, ask[r].text)
    /\ UNCHANGED <<ask, stored, expired, excess, victims>>

\* An entry passes its ttl.
Expire(h) ==
    /\ h \in Held \ expired
    /\ expired' = expired \cup {h}
    /\ UNCHANGED <<pc, ask, resolved, stored, insertion_order, excess, victims>>

Process(r) == Get(r) \/ Put(r) \/ Evict(r) \/ Remove(r) \/ Insert(r) \/ Push(r)

ApqNext ==
    \/ \E r \in Requests : Begin(r) \/ Process(r)
    \/ \E h \in Queries : Expire(h)

ApqSpec == ApqInit /\ [][ApqNext]_apqVars

-----------------------------------------------------------------------------
ApqTypeOK ==
    /\ pc \in [Requests -> ApqSteps]
    /\ ask \in [Requests -> Request]
    /\ resolved \in [Requests -> Queries \cup {None}]
    /\ stored \in [Queries -> Queries \cup {None}]
    /\ expired \subseteq Queries
    /\ insertion_order \in Seq(Queries)
    /\ excess \in [Requests -> Nat]
    /\ victims \in [Requests -> SUBSET Queries]

\* Eviction can find every stored query: its hash is in the order, or a put that
\* holds it has yet to push, or an eviction that drained it has yet to remove.
\* The map and the order are never locked together.
OrderCoversStore ==
    \A h \in Held :
        \/ h \in Listed
        \/ \E r \in Requests : pc[r] = "push" /\ ask[r].hash = h
        \/ \E r \in Requests : pc[r] = "remove" /\ h \in victims[r]

\* "Maximum number of queries to cache": with no request inside the store, no
\* more than cache_size queries are held.
SizeKept ==
    (\A r \in Requests : pc[r] \in {"new", "resolved", "rejected"})
        => Cardinality(Held) <= CacheSize

=============================================================================
