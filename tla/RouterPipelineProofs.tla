------------------------- MODULE RouterPipelineProofs --------------------------
(***************************************************************************)
(* The router's request path for any number of requests, queries and subgraphs.*)
(*                                                                          *)
(* The store of persisted queries first: eviction can find whatever is stored,*)
(* and a hash resolves to its own query.  A request that is past the        *)
(* validation in put() holds a text that has its hash (Validated); everything*)
(* in the map was inserted by such a request (OwnQueries).                  *)
(*                                                                          *)
(* The router implements the store step by step, so what is proved of the   *)
(* store holds here.  Results stay tied to their key because a follower's key*)
(* is its leader's (Placed), and are complete in the cache because a fan-out*)
(* that goes on has every reply, or failed fast with an error among them    *)
(* (Settled).                                                               *)
(***************************************************************************)
EXTENDS RouterPipeline, FiniteSetTheorems, SequenceTheorems, TLAPS

NoDuplicates(s) == \A i, j \in 1..Len(s) : s[i] = s[j] => i = j

\* What each step of process_apq_request may rely on.
Validated ==
    \A r \in Requests :
        /\ pc[r] \in {"get", "put", "evict", "remove", "insert", "push"} => ask[r].hash \in Queries
        /\ pc[r] \in {"put", "evict", "remove", "insert", "push"} => ask[r].text \in Queries
        /\ pc[r] \in {"evict", "remove", "insert", "push"} => ask[r].text = ask[r].hash

OwnQueries == \A h \in Held : stored[h] = h

\* A query is resolved to the one that was meant.
ResolvedAsMeant ==
    \A r \in Requests : pc[r] = "resolved" => resolved[r] = Meant(r) /\ resolved[r] \in Queries

ApqInv ==
    /\ ApqTypeOK
    /\ IsFiniteSet(Held)
    /\ NoDuplicates(insertion_order)
    /\ Validated
    /\ OwnQueries
    /\ ResolvedAsMeant
    /\ OrderCoversStore

\* retain and push: the hash is last, every other one is still listed, none twice.
LEMMA RetainPush ==
    ASSUME NEW s \in Seq(Queries), NEW h \in Queries, NoDuplicates(s)
    PROVE  LET t == Append(Retain(s, h), h)
           IN  t \in Seq(Queries) /\ Elements(t) = Elements(s) \cup {h} /\ NoDuplicates(t)
<1> DEFINE t == Append(Retain(s, h), h)
<1>1. CASE ~\E i \in 1..Len(s) : s[i] = h
  <2>1. t = Append(s, h)
    BY <1>1 DEF Retain
  <2>2. t \in Seq(Queries) /\ Len(t) = Len(s) + 1 /\ t[Len(s) + 1] = h
        /\ \A i \in 1..Len(s) : t[i] = s[i]
    BY <2>1, AppendProperties
  <2> HIDE DEF t
  <2>3. Elements(t) = Elements(s) \cup {h}
    BY <2>2 DEF Elements
  <2>4. NoDuplicates(t)
    BY <2>2, <1>1 DEF NoDuplicates
  <2> QED
    BY <2>2, <2>3, <2>4 DEF t
<1>2. CASE \E i \in 1..Len(s) : s[i] = h
  <2> DEFINE p == CHOOSE i \in 1..Len(s) : s[i] = h
             u == Omit(s, p)
  <2>1. p \in 1..Len(s) /\ s[p] = h /\ Retain(s, h) = u
    BY <1>2 DEF Retain
  <2> HIDE DEF p
  <2>2. /\ u \in Seq(Queries) /\ Len(u) = Len(s) - 1
        /\ \A j \in 1..(Len(s) - 1) : u[j] = IF j < p THEN s[j] ELSE s[j + 1]
    <3>1. Len(s) \in Nat /\ \A j \in 1..(Len(s) - 1) : s[j] \in Queries /\ s[j + 1] \in Queries
      BY ElementOfSeq, LenProperties
    <3>2. u = [j \in 1..(Len(s) - 1) |-> IF j < p THEN s[j] ELSE s[j + 1]]
      BY DEF Omit
    <3>3. u \in Seq(Queries)
      BY <3>1, <3>2, IsASeq, <2>1
    <3> QED
      BY <3>1, <3>2, <3>3, <2>1, LenProperties
  <2> HIDE DEF u
  <2>3. t \in Seq(Queries) /\ Len(t) = Len(s) /\ t[Len(s)] = h
        /\ \A j \in 1..(Len(s) - 1) : t[j] = IF j < p THEN s[j] ELSE s[j + 1]
    BY <2>1, <2>2, AppendProperties, LenProperties
  <2> HIDE DEF t
  <2>4. Elements(t) \subseteq Elements(s) \cup {h}
    BY <2>1, <2>3, LenProperties DEF Elements
  <2>5. Elements(s) \cup {h} \subseteq Elements(t)
    <3>1. ASSUME NEW i \in 1..Len(s) PROVE s[i] \in Elements(t)
      <4>1. CASE i = p
        BY <4>1, <2>1, <2>3, LenProperties DEF Elements
      <4>2. CASE i < p
        <5>1. i \in 1..(Len(s) - 1) /\ t[i] = s[i]
          BY <4>2, <2>1, <2>3, LenProperties
        <5> QED
          BY <5>1, <2>3 DEF Elements
      <4>3. CASE i > p
        <5>1. i - 1 \in 1..(Len(s) - 1) /\ t[i - 1] = s[i]
          BY <4>3, <2>1, <2>3, LenProperties
        <5> QED
          BY <5>1, <2>3, LenProperties DEF Elements
      <4> QED
        BY <4>1, <4>2, <4>3, <2>1, LenProperties
    <3>2. h \in Elements(t)
      BY <3>1, <2>1
    <3> QED
      BY <3>1, <3>2 DEF Elements
  <2>6. NoDuplicates(t)
    BY <2>1, <2>3, LenProperties DEF NoDuplicates
  <2> QED
    BY <2>3, <2>4, <2>5, <2>6 DEF t
<1> QED
  BY <1>1, <1>2

\* drain: what leaves the order and what stays are together what was listed.
LEMMA Drain ==
    ASSUME NEW s \in Seq(Queries), NEW n \in 0..Len(s), NoDuplicates(s)
    PROVE  LET t == SubSeq(s, n + 1, Len(s))
               out == {s[i] : i \in 1..n}
           IN  /\ t \in Seq(Queries) /\ NoDuplicates(t)
               /\ out \subseteq Queries /\ Elements(s) \subseteq out \cup Elements(t)
<1> DEFINE t == SubSeq(s, n + 1, Len(s))
           out == {s[i] : i \in 1..n}
<1>1. Len(s) \in Nat /\ \A i \in 1..Len(s) : s[i] \in Queries
  BY ElementOfSeq, LenProperties
<1>2. /\ t \in Seq(Queries)
      /\ Len(t) = Len(s) - n
      /\ \A i \in 1..(Len(s) - n) : t[i] = s[n + i]
  <2>1. n + 1 \in Int /\ Len(s) \in Int /\ \A i \in (n + 1)..Len(s) : s[i] \in Queries
    BY <1>1
  <2>2. /\ t \in Seq(Queries)
        /\ Len(t) = IF n + 1 <= Len(s) THEN Len(s) - (n + 1) + 1 ELSE 0
        /\ \A i \in 1..(Len(s) - (n + 1) + 1) : t[i] = s[(n + 1) + i - 1]
    BY <2>1, SubSeqProperties
  <2> QED
    BY <2>2, <1>1
<1> HIDE DEF t
<1>3. NoDuplicates(t)
  BY <1>1, <1>2 DEF NoDuplicates
<1>4. out \subseteq Queries
  BY <1>1
<1>5. ASSUME NEW i \in 1..Len(s) PROVE s[i] \in out \cup Elements(t)
  <2>1. CASE i <= n
    BY <2>1, <1>1
  <2>2. CASE i > n
    <3>1. i - n \in 1..Len(t) /\ t[i - n] = s[i]
      BY <2>2, <1>1, <1>2
    <3> QED
      BY <3>1 DEF Elements
  <2> QED
    BY <2>1, <2>2, <1>1
<1> QED
  BY <1>2, <1>3, <1>4, <1>5 DEF t, Elements

LEMMA ApqInitInv == ApqInit => ApqInv
<1> SUFFICES ASSUME ApqInit PROVE ApqInv
  OBVIOUS
<1> USE StoreAssumption DEF StoreAssumption, ApqInit
<1>1. ApqTypeOK
  BY EmptySeq DEF ApqTypeOK, ApqSteps
<1>2. Held = {}
  BY DEF Held
<1>3. IsFiniteSet(Held) /\ OwnQueries /\ OrderCoversStore
  BY <1>2, FS_EmptySet DEF OwnQueries, OrderCoversStore
<1>4. NoDuplicates(insertion_order)
  BY EmptySeq, LenProperties DEF NoDuplicates
<1>5. Validated /\ ResolvedAsMeant
  BY DEF Validated, ResolvedAsMeant
<1> QED
  BY <1>1, <1>3, <1>4, <1>5 DEF ApqInv

\* Every action preserves the invariant; the two that touch the order do so by the
\* lemmas above.
LEMMA BeginInv == ASSUME ApqInv, NEW r \in Requests, Begin(r) PROVE ApqInv'
<1> USE StoreAssumption DEF StoreAssumption, ApqInv, Begin, Goto, Resolve
<1>0. ask[r].hash \in Queries \cup {None} /\ ask[r].text \in Queries \cup {None}
  BY DEF ApqTypeOK, Request
<1>1. ApqTypeOK'
  BY <1>0 DEF ApqTypeOK, ApqSteps
<1>2. UNCHANGED <<Held, insertion_order, Listed>> /\ IsFiniteSet(Held)' /\ OwnQueries'
  BY DEF Held, Listed, OwnQueries
<1>3. NoDuplicates(insertion_order)'
  BY DEF NoDuplicates
<1>4. Validated'
  BY <1>0 DEF Validated, ApqTypeOK
<1>5. ResolvedAsMeant'
  BY <1>0 DEF ResolvedAsMeant, Meant, ApqTypeOK
<1>6. OrderCoversStore'
  BY <1>2 DEF OrderCoversStore, ApqTypeOK
<1> QED
  BY <1>1, <1>2, <1>3, <1>4, <1>5, <1>6

LEMMA GetInv == ASSUME ApqInv, NEW r \in Requests, Get(r) PROVE ApqInv'
<1> USE StoreAssumption DEF StoreAssumption, ApqInv, Get, Goto, Resolve
<1>0. ask[r].hash \in Queries /\ ask[r].text \in Queries \cup {None}
  BY DEF Validated, ApqTypeOK, Request
<1>1. ApqTypeOK'
  BY <1>0 DEF ApqTypeOK, ApqSteps, Held
<1>2. Held' \subseteq Held /\ (\A h \in Held' : stored'[h] = stored[h]) /\ UNCHANGED Listed
  BY <1>0 DEF Held, Listed, ApqTypeOK
<1>3. IsFiniteSet(Held)' /\ OwnQueries'
  BY <1>2, FS_Subset DEF OwnQueries
<1>4. NoDuplicates(insertion_order)'
  BY DEF NoDuplicates
<1>5. Validated'
  BY <1>0 DEF Validated, ApqTypeOK
<1>6. ResolvedAsMeant'
  BY <1>0, SMTT(30) DEF ResolvedAsMeant, Meant, ApqTypeOK, OwnQueries, Held
<1>7. OrderCoversStore'
  BY <1>2, ZenonT(30) DEF OrderCoversStore, ApqTypeOK
<1> QED
  BY <1>1, <1>3, <1>4, <1>5, <1>6, <1>7

LEMMA PutInv == ASSUME ApqInv, NEW r \in Requests, Put(r) PROVE ApqInv'
<1> USE StoreAssumption DEF StoreAssumption, ApqInv, Put, Goto
<1>0. Cardinality(Held) \in Nat
  BY FS_CardinalityType
<1>1. ApqTypeOK'
  <2>1. excess' \in [Requests -> Nat]
    <3> DEFINE c == Cardinality(Held)
    <3> HIDE DEF c
    <3>1. CASE ask[r].text # ask[r].hash
      BY <3>1 DEF ApqTypeOK
    <3>2. CASE ask[r].text = ask[r].hash
      <4>1. c \in Nat
        BY <1>0 DEF c
      <4>2. excess' = [excess EXCEPT ![r] = IF c >= CacheSize THEN c - CacheSize + 1 ELSE 0]
        BY <3>2 DEF c
      <4> QED
        BY <4>1, <4>2 DEF ApqTypeOK
    <3> QED
      BY <3>1, <3>2
  <2>2. pc' \in [Requests -> ApqSteps]
    BY DEF ApqTypeOK, ApqSteps
  <2> QED
    BY <2>1, <2>2 DEF ApqTypeOK
<1>2. UNCHANGED <<Held, Listed>> /\ IsFiniteSet(Held)' /\ OwnQueries'
  BY DEF Held, Listed, OwnQueries
<1>3. NoDuplicates(insertion_order)'
  BY DEF NoDuplicates
<1>4. Validated' /\ ResolvedAsMeant'
  BY DEF Validated, ResolvedAsMeant, Meant, ApqTypeOK
<1>5. OrderCoversStore'
  BY <1>2 DEF OrderCoversStore, ApqTypeOK
<1> QED
  BY <1>1, <1>2, <1>3, <1>4, <1>5

LEMMA EvictInv == ASSUME ApqInv, NEW r \in Requests, Evict(r) PROVE ApqInv'
<1> USE StoreAssumption DEF StoreAssumption, ApqInv, Evict, Goto
<1> DEFINE n == IF excess[r] < Len(insertion_order) THEN excess[r] ELSE Len(insertion_order)
<1>0. insertion_order \in Seq(Queries) /\ n \in 0..Len(insertion_order)
  BY LenProperties DEF ApqTypeOK
<1>1. /\ insertion_order' \in Seq(Queries) /\ NoDuplicates(insertion_order')
      /\ victims'[r] \subseteq Queries /\ Listed \subseteq victims'[r] \cup Listed'
  BY <1>0, Drain DEF Listed, ApqTypeOK
<1>2. ApqTypeOK'
  BY <1>1 DEF ApqTypeOK, ApqSteps
<1>3. UNCHANGED Held /\ IsFiniteSet(Held)' /\ OwnQueries'
  BY DEF Held, OwnQueries
<1>4. NoDuplicates(insertion_order)'
  BY <1>1 DEF NoDuplicates
<1>5. Validated' /\ ResolvedAsMeant'
  BY DEF Validated, ResolvedAsMeant, Meant, ApqTypeOK
<1>6. OrderCoversStore'
  <2> SUFFICES ASSUME NEW h \in Held
               PROVE  \/ h \in Listed'
                      \/ \E q \in Requests : pc'[q] = "push" /\ ask'[q].hash = h
                      \/ \E q \in Requests : pc'[q] = "remove" /\ h \in victims'[q]
    BY <1>3 DEF OrderCoversStore
  <2>1. CASE h \in Listed
    BY <2>1, <1>1 DEF ApqTypeOK
  <2>2. CASE \E q \in Requests : pc[q] = "push" /\ ask[q].hash = h
    BY <2>2 DEF ApqTypeOK
  <2>3. CASE \E q \in Requests : pc[q] = "remove" /\ h \in victims[q]
    BY <2>3 DEF ApqTypeOK
  <2> QED
    BY <2>1, <2>2, <2>3 DEF OrderCoversStore
<1> QED
  BY <1>2, <1>3, <1>4, <1>5, <1>6

LEMMA RemoveInv == ASSUME ApqInv, NEW r \in Requests, Remove(r) PROVE ApqInv'
<1> USE StoreAssumption DEF StoreAssumption, ApqInv, Remove, Goto
<1>1. ApqTypeOK'
  BY DEF ApqTypeOK, ApqSteps
<1>2. /\ Held' = Held \ victims[r] /\ UNCHANGED Listed
      /\ \A h \in Held' : stored'[h] = stored[h]
  BY DEF Held, Listed, ApqTypeOK
<1>3. IsFiniteSet(Held)' /\ OwnQueries'
  BY <1>2, FS_Subset DEF OwnQueries
<1>4. NoDuplicates(insertion_order)'
  BY DEF NoDuplicates
<1>5. Validated' /\ ResolvedAsMeant'
  BY DEF Validated, ResolvedAsMeant, Meant, ApqTypeOK
<1>6. OrderCoversStore'
  BY <1>2 DEF OrderCoversStore, ApqTypeOK
<1> QED
  BY <1>1, <1>3, <1>4, <1>5, <1>6

LEMMA InsertInv == ASSUME ApqInv, NEW r \in Requests, Insert(r) PROVE ApqInv'
<1> USE StoreAssumption DEF StoreAssumption, ApqInv, Insert, Goto
<1>0. ask[r].hash \in Queries /\ ask[r].text = ask[r].hash
  BY DEF Validated
<1>1. ApqTypeOK'
  BY <1>0 DEF ApqTypeOK, ApqSteps
<1>2. Held' = Held \cup {ask[r].hash} /\ UNCHANGED Listed
  BY <1>0 DEF Held, Listed, ApqTypeOK
<1>3. IsFiniteSet(Held)' /\ OwnQueries'
  <2>1. IsFiniteSet(Held \cup {ask[r].hash})
    BY FS_AddElement
  <2>2. ASSUME NEW h \in Held' PROVE stored'[h] = h
    BY <1>0, <1>2 DEF OwnQueries, ApqTypeOK
  <2> QED
    BY <1>2, <2>1, <2>2 DEF OwnQueries
<1>4. NoDuplicates(insertion_order)'
  BY DEF NoDuplicates
<1>5. Validated' /\ ResolvedAsMeant'
  BY DEF Validated, ResolvedAsMeant, Meant, ApqTypeOK
<1>6. OrderCoversStore'
  BY <1>2 DEF OrderCoversStore, ApqTypeOK
<1> QED
  BY <1>1, <1>3, <1>4, <1>5, <1>6

LEMMA PushInv == ASSUME ApqInv, NEW r \in Requests, Push(r) PROVE ApqInv'
<1> USE StoreAssumption DEF StoreAssumption, ApqInv, Push, Goto, Resolve
<1>0. insertion_order \in Seq(Queries) /\ ask[r].hash \in Queries /\ ask[r].text = ask[r].hash
  BY DEF ApqTypeOK, Validated
<1>1. /\ insertion_order' \in Seq(Queries) /\ NoDuplicates(insertion_order')
      /\ Listed' = Listed \cup {ask[r].hash}
  BY <1>0, RetainPush DEF Listed
<1>2. ApqTypeOK'
  BY <1>0, <1>1 DEF ApqTypeOK, ApqSteps
<1>3. UNCHANGED Held /\ IsFiniteSet(Held)' /\ OwnQueries'
  BY DEF Held, OwnQueries
<1>4. NoDuplicates(insertion_order)'
  BY <1>1 DEF NoDuplicates
<1>5. Validated'
  BY DEF Validated, ApqTypeOK
<1>6. ResolvedAsMeant'
  BY <1>0 DEF ResolvedAsMeant, Meant, ApqTypeOK
<1>7. OrderCoversStore'
  BY <1>1, <1>3 DEF OrderCoversStore, ApqTypeOK
<1> QED
  BY <1>2, <1>3, <1>4, <1>5, <1>6, <1>7

LEMMA ExpireInv == ASSUME ApqInv, NEW h \in Queries, Expire(h) PROVE ApqInv'
<1> USE DEF ApqInv, Expire
<1>1. ApqTypeOK'
  BY DEF ApqTypeOK
<1>2. UNCHANGED <<Held, Listed>> /\ IsFiniteSet(Held)' /\ OwnQueries'
  BY DEF Held, Listed, OwnQueries
<1>3. NoDuplicates(insertion_order)' /\ Validated' /\ ResolvedAsMeant'
  BY DEF NoDuplicates, Validated, ResolvedAsMeant, Meant
<1>4. OrderCoversStore'
  BY <1>2 DEF OrderCoversStore
<1> QED
  BY <1>1, <1>2, <1>3, <1>4

LEMMA ApqStepInv == ApqInv /\ [ApqNext]_apqVars => ApqInv'
<1> SUFFICES ASSUME ApqInv, [ApqNext]_apqVars PROVE ApqInv'
  OBVIOUS
<1>1. ASSUME NEW r \in Requests, Process(r) PROVE ApqInv'
  BY <1>1, GetInv, PutInv, EvictInv, RemoveInv, InsertInv, PushInv DEF Process
<1>2. ASSUME NEW r \in Requests, Begin(r) PROVE ApqInv'
  BY <1>2, BeginInv
<1>3. ASSUME NEW h \in Queries, Expire(h) PROVE ApqInv'
  BY <1>3, ExpireInv
<1>4. CASE UNCHANGED apqVars
  BY <1>4 DEF apqVars, ApqInv, ApqTypeOK, Held, Listed, NoDuplicates, Validated, OwnQueries,
              ResolvedAsMeant, Meant, OrderCoversStore
<1> QED
  BY <1>1, <1>2, <1>3, <1>4 DEF ApqNext

\* Eviction can find every stored query, whatever the interleaving of puts, lookups
\* and evictions over the two locks.
THEOREM EvictionFindsAll == ApqSpec => []OrderCoversStore
<1>1. ApqInv => OrderCoversStore
  BY DEF ApqInv
<1> QED
  BY <1>1, ApqInitInv, ApqStepInv, PTL DEF ApqSpec

\* A request whose query could be resolved executes the query it named.
THEOREM ResolvesAsMeant == ApqSpec => []ResolvedAsMeant
<1>1. ApqInv => ResolvedAsMeant
  BY DEF ApqInv
<1> QED
  BY <1>1, ApqInitInv, ApqStepInv, PTL DEF ApqSpec

-----------------------------------------------------------------------------
\* The loop over the subgraphs' calls is over.
Settled(r) == Replied(r, "pending") = {} \/ (fail_fast[r] /\ Replied(r, "error") # {})

\* What each stage of a request may rely on.
Placed ==
    \A r \in Requests :
        /\ stage[r] \in {"lookup", "collapse", "follow", "gather", "broadcast", "store"}
               => pc[r] = "resolved"
        /\ leader[r] # None => pc[r] = "resolved"
        /\ stage[r] = "follow" => leader[r] \in Requests /\ Key(leader[r]) = Key(r)
                                  /\ pc[leader[r]] = "resolved"
        /\ sent[r] => stage[r] \in {"store", "done"}
        /\ stage[r] \in {"broadcast", "store"} \/ sent[r] => Settled(r)
        /\ stage[r] = "store" => Replied(r, "error") = {}

CachedIsRight == \A k \in Keys : cache[k] # None => cache[k].of = k

Answered == \A r \in Requests : answer[r] \in Result => stage[r] = "done" /\ pc[r] = "resolved"

RouterInv ==
    /\ TypeOK
    /\ Placed
    /\ CachedIsRight
    /\ CachedIsComplete
    /\ Answered
    /\ AnswersOwnQuery
    /\ FailFastIsComplete

\* Init and Next of the router are those of the store, or leave it alone.
THEOREM ImplementsStore == Spec => ApqSpec
<1>1. Init => ApqInit
  BY DEF Init
<1>2. ASSUME [Next]_vars PROVE [ApqNext]_apqVars
  BY <1>2 DEF Next, vars, Work, Reject, Check, CacheCheck, Collapse, Reply, Gather, Broadcast,
              Store, Receive, ReceiveError, Drop, Forget
<1> QED
  BY <1>1, <1>2, PTL DEF Spec, ApqSpec

\* A resolved request is out of the store's reach.
LEMMA ResolvedIsFinal ==
    ASSUME ApqTypeOK, [ApqNext]_apqVars, NEW r \in Requests, pc[r] = "resolved"
    PROVE  pc'[r] = "resolved" /\ resolved'[r] = resolved[r] /\ ask'[r] = ask[r]
<1>1. ASSUME NEW q \in Requests, Process(q) PROVE r # q /\ UNCHANGED <<pc[r], resolved[r], ask[r]>>
  BY <1>1 DEF Process, Get, Put, Evict, Remove, Insert, Push, Goto, Resolve, ApqTypeOK
<1>2. ASSUME NEW q \in Requests, Begin(q)
      PROVE  UNCHANGED <<pc[r], resolved[r], ask[r]>>
  BY <1>2 DEF Begin, Goto, Resolve, ApqTypeOK
<1>3. ASSUME NEW h \in Queries, Expire(h) PROVE UNCHANGED <<pc[r], resolved[r], ask[r]>>
  BY <1>3 DEF Expire
<1>4. CASE UNCHANGED apqVars
  BY <1>4 DEF apqVars
<1> QED
  BY <1>1, <1>2, <1>3, <1>4 DEF ApqNext

\* A fan-out that is over without an error has every subgraph's data.
LEMMA SettledIsComplete ==
    ASSUME TypeOK, NEW r \in Requests, Settled(r), Replied(r, "error") = {}
    PROVE  Replied(r, "data") = Subgraphs
<1>1. \A s \in Subgraphs : replies[r][s] \in {"pending", "data", "error"}
  BY DEF TypeOK
<1> QED
  BY <1>1 DEF Settled, Replied

\* What a leader returns is of its key and, failing fast, lacks nothing.
LEMMA OutcomeFacts ==
    ASSUME TypeOK, NEW r \in Requests, Key(r) \in Keys
    PROVE  /\ Outcome(r) \in Result \cup {Failed}
           /\ Outcome(r) \in Result => Outcome(r).of = Key(r)
           /\ Outcome(r) \in Result /\ Settled(r) /\ fail_fast[r] => Outcome(r).parts = Subgraphs
<1> USE RouterAssumption DEF RouterAssumption, Result, Keys, Key, Executed
<1>1. CASE fail_fast[r] /\ Replied(r, "error") # {}
  BY <1>1 DEF Outcome
<1>2. CASE ~(fail_fast[r] /\ Replied(r, "error") # {})
  <2>1. Outcome(r) = [of |-> Key(r), parts |-> Replied(r, "data")]
    BY <1>2 DEF Outcome, Executed, Key
  <2>2. Replied(r, "data") \subseteq Subgraphs
    BY DEF Replied
  <2>3. fail_fast[r] /\ Settled(r) => Replied(r, "data") = Subgraphs
    BY <1>2, SettledIsComplete
  <2> QED
    BY <2>1, <2>2, <2>3
<1> QED
  BY <1>1, <1>2

\* A request past the checks has the key of the query it named.
LEMMA KeyFacts ==
    ASSUME RouterInv, ApqInv, NEW r \in Requests, pc[r] = "resolved"
    PROVE  Key(r) \in Keys /\ Key(r) = <<Meant(r), ask[r].variables>>
<1>1. resolved[r] = Meant(r) /\ resolved[r] \in Queries /\ ask[r].variables \in Variables
  BY DEF ApqInv, ResolvedAsMeant, ApqTypeOK, Request
<1> QED
  BY <1>1 DEF Key, Keys

LEMMA RouterInitInv == Init => RouterInv
<1> SUFFICES ASSUME Init PROVE RouterInv
  OBVIOUS
<1> USE RouterAssumption DEF RouterAssumption, Init
<1>1. TypeOK
  BY ApqInitInv DEF ApqInv, TypeOK, Stages
<1>2. Placed
  BY DEF Placed
<1>3. CachedIsRight /\ CachedIsComplete
  BY DEF CachedIsRight, CachedIsComplete
<1>4. Answered /\ AnswersOwnQuery /\ FailFastIsComplete
  BY DEF Answered, AnswersOwnQuery, FailFastIsComplete, Result, Keys
<1> QED
  BY <1>1, <1>2, <1>3, <1>4 DEF RouterInv

\* The store's steps leave the router's variables alone and resolved requests too.
LEMMA StoreStepInv ==
    ASSUME RouterInv, ApqInv, ApqInv', [ApqNext]_apqVars, UNCHANGED routerVars
    PROVE  RouterInv'
<1> USE DEF RouterInv, ApqInv, routerVars
<1>0. \A r \in Requests : pc[r] = "resolved"
         => pc'[r] = "resolved" /\ resolved'[r] = resolved[r] /\ ask'[r] = ask[r]
  BY ResolvedIsFinal
<1>1. TypeOK'
  BY DEF TypeOK
<1>2. Placed'
  BY <1>0 DEF Placed, Settled, Replied, Key
<1>3. CachedIsRight' /\ CachedIsComplete'
  BY DEF CachedIsRight, CachedIsComplete
<1>4. Answered' /\ AnswersOwnQuery' /\ FailFastIsComplete'
  BY <1>0 DEF Answered, AnswersOwnQuery, FailFastIsComplete, Meant
<1> QED
  BY <1>1, <1>2, <1>3, <1>4

\* Steps that only move a request along.
LEMMA MoveInv ==
    ASSUME RouterInv, ApqInv, NEW r \in Requests, Collapse(r) \/ Gather(r) \/ Drop(r)
    PROVE  RouterInv'
<1> USE RouterAssumption DEF RouterAssumption, RouterInv, ApqInv, Collapse, Gather, Drop, Move
<1>1. TypeOK'
  <2>1. stage' \in [Requests -> Stages] /\ leader' \in [Requests -> Requests \cup {None}]
    <3>1. CASE Collapse(r)
      BY <3>1 DEF TypeOK, Stages
    <3>2. CASE Gather(r) \/ Drop(r)
      BY <3>2 DEF TypeOK, Stages
    <3> QED
      BY <3>1, <3>2
  <2>2. ApqTypeOK'
    BY DEF ApqTypeOK, apqVars
  <2> QED
    BY <2>1, <2>2 DEF TypeOK
<1>2. UNCHANGED <<pc, resolved, ask, fail_fast, replies, sent, cache, answer>>
  BY DEF apqVars
<1>3. Placed'
  <2>1. CASE Collapse(r)
    <3>1. PICK l \in Requests :
            /\ leader' = [leader EXCEPT ![r] = l]
            /\ \/ l = r /\ stage' = [stage EXCEPT ![r] = "gather"]
               \/ Leads(l) /\ Key(l) = Key(r) /\ stage' = [stage EXCEPT ![r] = "follow"]
      BY <2>1
    <3>2. stage[r] = "collapse" /\ pc[r] = "resolved" /\ (Leads(l) => pc[l] = "resolved")
      BY <2>1 DEF Placed, Leads
    <3>3. l = r => stage'[r] = "gather" \/ Key(l) = Key(r)
      BY <3>1
    <3> QED
      BY <1>2, <3>1, <3>2, <3>3 DEF Placed, Settled, Replied, Key, TypeOK
  <2>2. CASE Gather(r)
    BY <1>2, <2>2 DEF Placed, Settled, Replied, Key, TypeOK
  <2>3. CASE Drop(r)
    BY <1>2, <2>3 DEF Placed, Settled, Replied, Key, TypeOK
  <2> QED
    BY <2>1, <2>2, <2>3
<1>4. CachedIsRight' /\ CachedIsComplete'
  BY <1>2 DEF CachedIsRight, CachedIsComplete
<1>5. Answered' /\ AnswersOwnQuery'
  BY <1>2 DEF Answered, AnswersOwnQuery, Meant, TypeOK
<1>6. FailFastIsComplete'
  BY <1>2 DEF FailFastIsComplete, Answered, TypeOK
<1> QED
  BY <1>1, <1>3, <1>4, <1>5, <1>6

LEMMA ReplyInv ==
    ASSUME RouterInv, ApqInv, NEW r \in Requests, NEW s \in Subgraphs, Reply(r, s)
    PROVE  RouterInv'
<1> USE DEF RouterInv, ApqInv, Reply
<1>1. TypeOK'
  BY DEF TypeOK, apqVars, ApqTypeOK
<1>2. UNCHANGED <<pc, resolved, ask, fail_fast, stage, leader, sent, cache, answer>>
  BY DEF apqVars
<1>3. \A q \in Requests : q # r => replies'[q] = replies[q]
  BY DEF TypeOK
<1>4. Placed'
  BY <1>2, <1>3 DEF Placed, Settled, Replied, Key
<1>5. CachedIsRight' /\ CachedIsComplete' /\ Answered' /\ AnswersOwnQuery' /\ FailFastIsComplete'
  BY <1>2 DEF CachedIsRight, CachedIsComplete, Answered, AnswersOwnQuery, Meant, FailFastIsComplete
<1> QED
  BY <1>1, <1>4, <1>5

\* A request returns a: what it must have for the properties of answers to go on.
LEMMA AnswerInv ==
    ASSUME RouterInv, ApqInv, NEW r \in Requests, NEW a \in Result \cup {Failed},
           stage[r] # "done", Answer(r, a), UNCHANGED <<apqVars, fail_fast, leader, replies>>,
           a \in Result =>
               /\ a.of = <<Meant(r), ask[r].variables>> /\ pc[r] = "resolved"
               /\ fail_fast[r] /\ a.parts # Subgraphs
                      => leader[r] \in Requests /\ ~fail_fast[leader[r]]
    PROVE  /\ Answered' /\ AnswersOwnQuery' /\ FailFastIsComplete'
           /\ answer' \in [Requests -> Result \cup {None, Failed}]
           /\ stage' = [stage EXCEPT ![r] = "done"]
<1>1. UNCHANGED <<pc, ask, fail_fast, leader>>
  BY DEF apqVars
<1>2. /\ answer' = [answer EXCEPT ![r] = a] /\ answer \in [Requests -> Result \cup {None, Failed}]
      /\ stage' = [stage EXCEPT ![r] = "done"] /\ stage \in [Requests -> Stages]
  BY DEF Answer, Move, RouterInv, TypeOK
<1>3. /\ answer'[r] = a /\ stage'[r] = "done"
      /\ \A q \in Requests : q # r => answer'[q] = answer[q] /\ stage'[q] = stage[q]
  BY <1>2
<1>4. Answered'
  BY <1>1, <1>3 DEF RouterInv, Answered
<1>5. AnswersOwnQuery'
  BY <1>1, <1>3 DEF RouterInv, AnswersOwnQuery, Meant
<1>6. FailFastIsComplete'
  BY <1>1, <1>3 DEF RouterInv, FailFastIsComplete
<1> QED
  BY <1>2, <1>4, <1>5, <1>6

LEMMA ChecksInv ==
    ASSUME RouterInv, ApqInv, NEW r \in Requests, Reject(r) \/ Check(r) \/ ReceiveError(r)
    PROVE  RouterInv'
<1> USE RouterAssumption DEF RouterAssumption, RouterInv, ApqInv, Reject, Check, ReceiveError
<1>1. UNCHANGED <<apqVars, pc, resolved, ask, fail_fast, leader, replies, sent, cache>>
  BY DEF apqVars
<1>2. CASE Answer(r, Failed)
  <2>1. Answered' /\ AnswersOwnQuery' /\ FailFastIsComplete'
        /\ answer' \in [Requests -> Result \cup {None, Failed}]
        /\ stage' = [stage EXCEPT ![r] = "done"]
    BY <1>1, <1>2, AnswerInv DEF Result, Keys
  <2>2. TypeOK'
    BY <1>1, <2>1 DEF TypeOK, Stages, ApqTypeOK, apqVars
  <2>3. Placed'
    BY <1>1, <2>1 DEF Placed, Settled, Replied, Key, TypeOK
  <2>4. CachedIsRight' /\ CachedIsComplete'
    BY <1>1 DEF CachedIsRight, CachedIsComplete
  <2> QED
    BY <2>1, <2>2, <2>3, <2>4
<1>3. CASE Move(r, "lookup") /\ UNCHANGED answer /\ Check(r)
  <2>1. TypeOK'
    BY <1>1, <1>3 DEF TypeOK, Stages, ApqTypeOK, apqVars, Move
  <2>2. Placed'
    BY <1>1, <1>3 DEF Placed, Settled, Replied, Key, TypeOK, Move
  <2>3. CachedIsRight' /\ CachedIsComplete'
    BY <1>1 DEF CachedIsRight, CachedIsComplete
  <2>4. Answered' /\ AnswersOwnQuery' /\ FailFastIsComplete'
    BY <1>1, <1>3 DEF Answered, AnswersOwnQuery, FailFastIsComplete, Meant, TypeOK, Move
  <2> QED
    BY <2>1, <2>2, <2>3, <2>4
<1> QED
  BY <1>2, <1>3

LEMMA CacheCheckInv ==
    ASSUME RouterInv, ApqInv, NEW r \in Requests, CacheCheck(r)
    PROVE  RouterInv'
<1> USE RouterAssumption DEF RouterAssumption, RouterInv, ApqInv, CacheCheck
<1>1. UNCHANGED <<apqVars, pc, resolved, ask, fail_fast, leader, replies, sent, cache>>
  BY DEF apqVars
<1>2. pc[r] = "resolved" /\ Key(r) \in Keys /\ Key(r) = <<Meant(r), ask[r].variables>>
  BY KeyFacts DEF Placed
<1>3. CachedIsRight' /\ CachedIsComplete'
  BY <1>1 DEF CachedIsRight, CachedIsComplete
<1>4. CASE cache[Key(r)] # None
  <2> DEFINE a == cache[Key(r)]
  <2>1. a \in Result /\ a.of = Key(r) /\ a.parts = Subgraphs
    BY <1>2, <1>4 DEF TypeOK, CachedIsRight, CachedIsComplete
  <2>2. Answer(r, a)
    BY <1>4
  <2> HIDE DEF a
  <2>3. Answered' /\ AnswersOwnQuery' /\ FailFastIsComplete'
        /\ answer' \in [Requests -> Result \cup {None, Failed}]
        /\ stage' = [stage EXCEPT ![r] = "done"]
    BY <1>1, <1>2, <2>1, <2>2, AnswerInv
  <2>4. TypeOK'
    BY <1>1, <2>3 DEF TypeOK, Stages, ApqTypeOK, apqVars
  <2>5. Placed'
    BY <1>1, <2>3 DEF Placed, Settled, Replied, Key, TypeOK
  <2> QED
    BY <1>3, <2>3, <2>4, <2>5
<1>5. CASE cache[Key(r)] = None
  <2>1. Move(r, "collapse") /\ UNCHANGED answer
    BY <1>5
  <2>2. TypeOK'
    BY <1>1, <2>1 DEF TypeOK, Stages, ApqTypeOK, apqVars, Move
  <2>3. Placed'
    BY <1>1, <1>2, <2>1 DEF Placed, Settled, Replied, Key, TypeOK, Move
  <2>4. Answered' /\ AnswersOwnQuery' /\ FailFastIsComplete'
    BY <1>1, <2>1 DEF Answered, AnswersOwnQuery, FailFastIsComplete, Meant, TypeOK, Move
  <2> QED
    BY <1>3, <2>2, <2>3, <2>4
<1> QED
  BY <1>4, <1>5

LEMMA BroadcastInv ==
    ASSUME RouterInv, ApqInv, NEW r \in Requests, Broadcast(r)
    PROVE  RouterInv'
<1> USE RouterAssumption DEF RouterAssumption, RouterInv, ApqInv, Broadcast
<1>1. UNCHANGED <<apqVars, pc, resolved, ask, fail_fast, leader, replies, cache>>
  BY DEF apqVars
<1>2. pc[r] = "resolved" /\ Key(r) \in Keys /\ Key(r) = <<Meant(r), ask[r].variables>> /\ Settled(r)
  BY KeyFacts DEF Placed
<1>3. CachedIsRight' /\ CachedIsComplete'
  BY <1>1 DEF CachedIsRight, CachedIsComplete
<1>4. sent' \in [Requests -> BOOLEAN] /\ \A q \in Requests : q # r => sent'[q] = sent[q]
  BY DEF TypeOK
<1>5. CASE Replied(r, "error") = {}
  <2>1. Move(r, "store") /\ UNCHANGED answer
    BY <1>5
  <2>2. TypeOK'
    BY <1>1, <1>4, <2>1 DEF TypeOK, Stages, ApqTypeOK, apqVars, Move
  <2>3. Placed'
    BY <1>1, <1>2, <1>4, <1>5, <2>1 DEF Placed, Settled, Replied, Key, TypeOK, Move
  <2>4. Answered' /\ AnswersOwnQuery' /\ FailFastIsComplete'
    BY <1>1, <2>1 DEF Answered, AnswersOwnQuery, FailFastIsComplete, Meant, TypeOK, Move
  <2> QED
    BY <1>3, <2>2, <2>3, <2>4
<1>6. CASE Replied(r, "error") # {}
  <2> DEFINE a == Outcome(r)
  <2>1. a \in Result \cup {Failed} /\ (a \in Result => a.of = Key(r))
        /\ (a \in Result /\ fail_fast[r] => a.parts = Subgraphs)
    BY <1>2, OutcomeFacts
  <2>2. Answer(r, a)
    BY <1>6
  <2> HIDE DEF a
  <2>3. Answered' /\ AnswersOwnQuery' /\ FailFastIsComplete'
        /\ answer' \in [Requests -> Result \cup {None, Failed}]
        /\ stage' = [stage EXCEPT ![r] = "done"]
    BY <1>1, <1>2, <2>1, <2>2, AnswerInv
  <2>4. TypeOK'
    BY <1>1, <1>4, <2>3 DEF TypeOK, Stages, ApqTypeOK, apqVars
  <2>5. Placed'
    BY <1>1, <1>2, <1>4, <2>3 DEF Placed, Settled, Replied, Key, TypeOK
  <2> QED
    BY <1>3, <2>3, <2>4, <2>5
<1> QED
  BY <1>5, <1>6

LEMMA StoreInv ==
    ASSUME RouterInv, ApqInv, NEW r \in Requests, Store(r)
    PROVE  RouterInv'
<1> USE RouterAssumption DEF RouterAssumption, RouterInv, ApqInv, Store
<1>1. UNCHANGED <<apqVars, pc, resolved, ask, fail_fast, leader, replies, sent>>
  BY DEF apqVars
<1>2. pc[r] = "resolved" /\ Key(r) \in Keys /\ Key(r) = <<Meant(r), ask[r].variables>> /\ Settled(r)
      /\ Replied(r, "error") = {}
  BY KeyFacts DEF Placed
<1> DEFINE a == Outcome(r)
<1>3. a \in Result /\ a.of = Key(r) /\ a.parts = Subgraphs
  <2>1. a = [of |-> Key(r), parts |-> Replied(r, "data")]
    BY <1>2 DEF Outcome, Executed, Key
  <2> QED
    BY <1>2, <2>1, SettledIsComplete DEF Result
<1>4. Answer(r, a) /\ cache' = [cache EXCEPT ![Key(r)] = a]
  OBVIOUS
<1> HIDE DEF a
<1>5. cache' \in [Keys -> Result \cup {None}] /\ CachedIsRight' /\ CachedIsComplete'
  BY <1>2, <1>3, <1>4 DEF CachedIsRight, CachedIsComplete, TypeOK
<1>6. Answered' /\ AnswersOwnQuery' /\ FailFastIsComplete'
      /\ answer' \in [Requests -> Result \cup {None, Failed}]
      /\ stage' = [stage EXCEPT ![r] = "done"]
  BY <1>1, <1>2, <1>3, <1>4, AnswerInv
<1>7. TypeOK'
  BY <1>1, <1>5, <1>6 DEF TypeOK, Stages, ApqTypeOK, apqVars
<1>8. Placed'
  BY <1>1, <1>6 DEF Placed, Settled, Replied, Key, TypeOK
<1> QED
  BY <1>5, <1>6, <1>7, <1>8

LEMMA ReceiveInv ==
    ASSUME RouterInv, ApqInv, NEW r \in Requests, Receive(r)
    PROVE  RouterInv'
<1> USE RouterAssumption DEF RouterAssumption, RouterInv, ApqInv, Receive
<1>1. UNCHANGED <<apqVars, pc, resolved, ask, fail_fast, leader, replies, sent, cache>>
  BY DEF apqVars
<1> DEFINE l == leader[r]
           a == Outcome(l)
<1>2. l \in Requests /\ pc[l] = "resolved" /\ Key(l) = Key(r) /\ Settled(l)
  BY DEF Placed
<1>3. pc[r] = "resolved" /\ Key(r) \in Keys /\ Key(r) = <<Meant(r), ask[r].variables>>
  BY KeyFacts DEF Placed
<1>4. Answer(r, a)
  OBVIOUS
<1> HIDE DEF l
<1>5. a \in Result \cup {Failed} /\ (a \in Result => a.of = Key(r))
      /\ (a \in Result /\ fail_fast[l] => a.parts = Subgraphs)
  BY <1>2, <1>3, OutcomeFacts
<1> HIDE DEF a
<1>6. Answered' /\ AnswersOwnQuery' /\ FailFastIsComplete'
      /\ answer' \in [Requests -> Result \cup {None, Failed}]
      /\ stage' = [stage EXCEPT ![r] = "done"]
  BY <1>1, <1>2, <1>3, <1>4, <1>5, AnswerInv DEF l
<1>7. TypeOK'
  BY <1>1, <1>6 DEF TypeOK, Stages, ApqTypeOK, apqVars
<1>8. Placed'
  BY <1>1, <1>6 DEF Placed, Settled, Replied, Key, TypeOK
<1>9. CachedIsRight' /\ CachedIsComplete'
  BY <1>1 DEF CachedIsRight, CachedIsComplete
<1> QED
  BY <1>6, <1>7, <1>8, <1>9

LEMMA ForgetInv ==
    ASSUME RouterInv, ApqInv, NEW k \in Keys, Forget(k)
    PROVE  RouterInv'
<1> USE DEF RouterInv, Forget
<1>1. UNCHANGED <<pc, resolved, ask, fail_fast, stage, leader, replies, sent, answer>>
  BY DEF apqVars
<1>2. cache' \in [Keys -> Result \cup {None}] /\ CachedIsRight' /\ CachedIsComplete'
  BY DEF CachedIsRight, CachedIsComplete, TypeOK
<1>3. TypeOK'
  BY <1>1, <1>2 DEF TypeOK, ApqTypeOK, apqVars
<1>4. Placed' /\ Answered' /\ AnswersOwnQuery' /\ FailFastIsComplete'
  BY <1>1 DEF Placed, Settled, Replied, Key, Answered, AnswersOwnQuery, Meant, FailFastIsComplete
<1> QED
  BY <1>2, <1>3, <1>4

LEMMA RouterStepInv == RouterInv /\ ApqInv /\ ApqInv' /\ [Next]_vars => RouterInv'
<1> SUFFICES ASSUME RouterInv, ApqInv, ApqInv', [Next]_vars PROVE RouterInv'
  OBVIOUS
<1>1. CASE ApqNext /\ UNCHANGED routerVars
  BY <1>1, StoreStepInv
<1>2. ASSUME NEW r \in Requests, Work(r) PROVE RouterInv'
  BY <1>2, MoveInv, ReplyInv, ChecksInv, CacheCheckInv, BroadcastInv, StoreInv, ReceiveInv DEF Work
<1>3. ASSUME NEW r \in Requests, ReceiveError(r) \/ Drop(r) PROVE RouterInv'
  BY <1>3, ChecksInv, MoveInv
<1>4. ASSUME NEW k \in Keys, Forget(k) PROVE RouterInv'
  BY <1>4, ForgetInv
<1>5. CASE UNCHANGED vars
  BY <1>5, StoreStepInv DEF vars
<1> QED
  BY <1>1, <1>2, <1>3, <1>4, <1>5 DEF Next

LEMMA RouterInvariant == Spec => [](RouterInv /\ ApqInv)
<1>1. Init => ApqInv
  BY ApqInitInv DEF Init
<1>2. ApqInv /\ [Next]_vars => ApqInv'
  <2>1. ASSUME [Next]_vars PROVE [ApqNext]_apqVars
    BY <2>1 DEF Next, vars, Work, Reject, Check, CacheCheck, Collapse, Reply, Gather, Broadcast,
                Store, Receive, ReceiveError, Drop, Forget
  <2> QED
    BY <2>1, ApqStepInv
<1> QED
  BY <1>1, <1>2, RouterInitInv, RouterStepInv, PTL DEF Spec

\* Whatever a request is answered from, the answer is to the query and variables it named.
THEOREM OwnQueryAnswered == Spec => []AnswersOwnQuery
<1>1. RouterInv => AnswersOwnQuery
  BY DEF RouterInv
<1> QED
  BY <1>1, RouterInvariant, PTL

\* No result that lacks a subgraph is ever in the cache.
THEOREM OnlyCompleteCached == Spec => []CachedIsComplete
<1>1. RouterInv => CachedIsComplete
  BY DEF RouterInv
<1> QED
  BY <1>1, RouterInvariant, PTL

\* Failing fast, a partial result can only come from a scatter-gather leader.
THEOREM FailFastComplete == Spec => []FailFastIsComplete
<1>1. RouterInv => FailFastIsComplete
  BY DEF RouterInv
<1> QED
  BY <1>1, RouterInvariant, PTL

\* Under the router, too, eviction finds every persisted query.
THEOREM RouterEvictionFindsAll == Spec => []OrderCoversStore
  BY ImplementsStore, EvictionFindsAll, PTL

-----------------------------------------------------------------------------
(***************************************************************************)
(* The safety half of FollowersShareTheOutcome: from the moment a follower  *)
(* subscribes to a leader that waits for the subgraphs it is in that        *)
(* leader's hands (InHand) until it returns what the leader returns, or one *)
(* of the two is dropped.  The argument is that the broadcast sees the      *)
(* follower, so the channel keeps the result, and that a settled leader's   *)
(* outcome is final.                                                        *)
(***************************************************************************)

InHand(r, l) == r \in Following(l) /\ (stage[l] \in {"gather", "broadcast"} \/ sent[l])

Over(r, l) ==
    \/ stage[r] = "dropped" \/ stage[l] = "dropped"
    \/ stage[r] = "done" /\ answer[r] = Outcome(l)

\* The same, with what makes it last: the leader is through, its outcome is final.
Led(r, l) ==
    /\ Leads(l) /\ stage[l] \in {"gather", "broadcast", "store", "done", "dropped"}
    /\ \/ InHand(r, l) \/ stage[r] = "dropped" \/ stage[l] = "dropped"
       \/ stage[r] = "done" /\ answer[r] = Outcome(l) /\ stage[l] \in {"store", "done"}

LEMMA OutcomeIsFinal ==
  ASSUME NEW l, UNCHANGED <<fail_fast[l], replies[l], resolved[l], ask[l]>>
  PROVE  Outcome(l)' = Outcome(l)
  BY DEF Outcome, Replied, Executed

\* A step that leaves both requests where they are.
LEMMA LedUntouched ==
  ASSUME NEW r \in Requests, NEW l \in Requests, Led(r, l),
         UNCHANGED <<stage[r], stage[l], leader[r], leader[l], answer[r], sent[l], fail_fast[l],
                     replies[l], resolved[l], ask[l]>>
  PROVE  Led(r, l)'
<1>1. Outcome(l)' = Outcome(l)
  BY OutcomeIsFinal
<1> QED
  BY <1>1 DEF Led, InHand, Following, Leads

LEMMA LedStays ==
  ASSUME RouterInv, ApqInv, NEW r \in Requests, NEW l \in Requests, Led(r, l), [Next]_vars
  PROVE  Led(r, l)'
<1>0. /\ Leads(l) /\ pc[l] = "resolved" /\ ApqTypeOK
      /\ sent[l] => stage[l] \in {"store", "done"}
      /\ stage \in [Requests -> Stages] /\ answer \in [Requests -> Result \cup {None, Failed}]
      /\ leader \in [Requests -> Requests \cup {None}] /\ sent \in [Requests -> BOOLEAN]
      /\ replies \in [Requests -> [Subgraphs -> {"pending", "data", "error"}]]
      /\ stage[l] \in {"gather", "broadcast", "store", "done", "dropped"}
      /\ stage[r] \in {"follow", "done", "dropped"} \/ stage[l] = "dropped"
  BY RouterAssumption DEF RouterInv, Placed, Led, InHand, Following, Leads, TypeOK, RouterAssumption
\* What the store does to a request is done before it leads.
<1>1. CASE UNCHANGED routerVars /\ [ApqNext]_apqVars
  <2>1. resolved'[l] = resolved[l] /\ ask'[l] = ask[l]
    BY <1>0, <1>1, ResolvedIsFinal
  <2> QED
    BY <1>1, <2>1, LedUntouched DEF routerVars
<1>2. ASSUME NEW q \in Requests, Work(q) \/ ReceiveError(q) \/ Drop(q)
      PROVE  /\ UNCHANGED <<fail_fast, resolved, ask>>
             /\ \A p \in Requests \ {q} :
                  UNCHANGED <<stage[p], leader[p], answer[p], sent[p], replies[p]>>
  BY <1>0, <1>2 DEF Work, Reject, Check, CacheCheck, Collapse, Reply, Gather, Broadcast, Store, Receive,
     ReceiveError, Drop, Move, Answer, apqVars
<1>3. ASSUME NEW q \in Requests \ {r, l}, Work(q) \/ ReceiveError(q) \/ Drop(q) PROVE Led(r, l)'
  BY <1>2, <1>3, LedUntouched
\* The leader moves: it is not the follower, which left "follow" only for good.
<1>4. CASE Work(l) \/ ReceiveError(l) \/ Drop(l)
  <2>1. \/ \E s \in Subgraphs : Reply(l, s)
        \/ Gather(l) \/ Broadcast(l) \/ Store(l) \/ Drop(l)
    BY <1>0, <1>4 DEF Work, Reject, Check, CacheCheck, Collapse, Receive, ReceiveError
  <2>2. stage[l] \in {"gather", "broadcast", "store"}
    BY <1>0, <2>1 DEF Reply, Gather, Broadcast, Store, Drop
  <2>3. r # l
    BY <1>0, <2>2
  <2>4. UNCHANGED <<stage[r], leader[r], answer[r], fail_fast, resolved, ask>>
    BY <1>2, <1>4, <2>3
  <2>5. UNCHANGED leader
    BY <2>1 DEF Reply, Gather, Broadcast, Store, Drop
  <2>6. CASE Drop(l)
    <3>1. stage'[l] = "dropped"
      BY <1>0, <2>6 DEF Drop, Move
    <3> QED
      BY <1>0, <2>5, <3>1 DEF Led, Leads
  <2>7. CASE (\E s \in Subgraphs : Reply(l, s)) \/ Gather(l)
    <3>1. stage[l] = "gather" /\ stage'[l] \in {"gather", "broadcast"}
      BY <1>0, <2>7 DEF Reply, Gather, Move
    <3> QED
      BY <1>0, <2>4, <2>5, <3>1 DEF Led, InHand, Following, Leads
  <2>8. CASE Broadcast(l)
    <3>1. /\ stage[l] = "broadcast" /\ stage'[l] \in {"store", "done"}
          /\ sent'[l] = (Following(l) # {})
      BY <1>0, <2>8 DEF Broadcast, Move, Answer
    <3> QED
      BY <1>0, <2>4, <2>5, <3>1 DEF Led, InHand, Following, Leads
  <2>9. CASE Store(l)
    <3>1. stage[l] = "store" /\ stage'[l] = "done" /\ UNCHANGED <<sent, replies>>
      BY <1>0, <2>9 DEF Store, Move, Answer
    <3>2. Outcome(l)' = Outcome(l)
      BY <2>4, <3>1, OutcomeIsFinal
    <3> QED
      BY <1>0, <2>4, <2>5, <3>1, <3>2 DEF Led, InHand, Following, Leads
  <2> QED
    BY <2>1, <2>6, <2>7, <2>8, <2>9
\* The follower moves: it finds its leader's result, or gives up.
<1>5. CASE r # l /\ (Work(r) \/ ReceiveError(r) \/ Drop(r))
  <2>1. UNCHANGED <<stage[l], leader[l], sent[l], fail_fast[l], replies[l], resolved[l], ask[l]>>
    BY <1>2, <1>5
  <2>2. Outcome(l)' = Outcome(l)
    BY <2>1, OutcomeIsFinal
  <2>3. CASE stage[l] = "dropped"
    BY <1>0, <2>1, <2>3 DEF Led, Leads
  <2>4. CASE stage[l] # "dropped"
    <3>1. Receive(r) \/ ReceiveError(r) \/ Drop(r)
      BY <1>0, <1>5, <2>4 DEF Work, Reject, Check, CacheCheck, Collapse, Reply, Gather, Broadcast, Store
    <3>2. stage[r] = "follow"
      BY <1>0, <2>4, <3>1 DEF Receive, ReceiveError, Drop
    <3>3. leader[r] = l /\ (stage[l] \in {"gather", "broadcast"} \/ sent[l])
      BY <2>4, <3>2 DEF Led, InHand, Following
    <3>4. CASE Receive(r)
      <4>1. stage'[r] = "done" /\ answer'[r] = Outcome(l) /\ stage[l] \in {"store", "done"}
        BY <1>0, <3>3, <3>4 DEF Receive, Answer, Move
      <4> QED
        BY <1>0, <2>1, <2>2, <4>1 DEF Led, Leads
    <3>5. CASE ReceiveError(r)
      BY <2>4, <3>3, <3>5 DEF ReceiveError
    <3>6. CASE Drop(r)
      <4>1. stage'[r] = "dropped"
        BY <1>0, <3>6 DEF Drop, Move
      <4> QED
        BY <1>0, <2>1, <4>1 DEF Led, Leads
    <3> QED
      BY <3>1, <3>4, <3>5, <3>6
  <2> QED
    BY <2>3, <2>4
<1>6. ASSUME NEW k \in Keys, Forget(k) PROVE Led(r, l)'
  BY <1>6, LedUntouched DEF Forget, apqVars
<1>7. CASE UNCHANGED vars
  BY <1>1, <1>7 DEF vars
<1> QED
  BY <1>1, <1>3, <1>4, <1>5, <1>6, <1>7 DEF Next

\* However requests are dropped, calls fail and the store and the cache change meanwhile, a
\* follower that subscribed in time is in its leader's hands until it returns the leader's
\* outcome, an error included (collapsing and recv in execute_scatter_gather and
\* execute_fail_fast).  FollowersShareTheOutcome adds that the wait ends.
THEOREM FollowersAreInHand ==
  ASSUME NEW r \in Requests, NEW l \in Requests
  PROVE  Spec => [](r \in Following(l) /\ Fetching(l) => [](InHand(r, l) \/ Over(r, l)))
<1>1. r \in Following(l) /\ Fetching(l) => Led(r, l)
  BY DEF Fetching, Led, InHand
<1>2. RouterInv /\ ApqInv /\ Led(r, l) /\ [Next]_vars => Led(r, l)'
  BY LedStays
<1>3. Led(r, l) => InHand(r, l) \/ Over(r, l)
  BY DEF Led, Over
<1> QED
  BY <1>1, <1>2, <1>3, RouterInvariant, PTL DEF Spec

=============================================================================
