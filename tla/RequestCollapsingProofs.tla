----------------------- MODULE RequestCollapsingProofs -----------------------
(***************************************************************************)
(* Request collapsing for any number of requests and keys and any           *)
(* configuration.  What a request finds in the registry belongs to one that *)
(* leads, or has led (Led); so a reset of an entry's age, which only         *)
(* becoming its leader does, cannot make an entry joinable again for a       *)
(* request that has turned it down (TurnedDown).                            *)
(***************************************************************************)
EXTENDS RequestCollapsing, FiniteSetTheorems, TLAPS

\* Where a request is once it has led.
Past == {"leading", "answered", "dropped"}

Led ==
    /\ \A k \in Keys : in_flight[k] # None => pc[in_flight[k]] \in Past
    /\ \A r \in Requests : entry[r] # None => pc[entry[r]] \in Past

HasEntry == \A r \in Requests : pc[r] \in {"found", "waiting"} => entry[r] # None

TurnedDown ==
    \A r \in Requests : pc[r] = "lead" /\ entry[r] # None => ~Joinable(entry[r])

\* The waiters of an entry are all counted.
Counted ==
    \A l \in Requests : IsFiniteSet(Followers(l)) /\ Cardinality(Followers(l)) <= waiter_count[l]

\* A follower that subscribed while its leader was executing finds the result in the
\* channel once the leader is through, even if the entry was replaced or evicted.
ResultReachesFollowers ==
    \A r \in Requests : pc[r] = "waiting" /\ ~late[r] /\ pc[entry[r]] = "answered"
                           => sent[entry[r]]

\* No leader has more than max_waiters requests waiting.
WaitersBounded == \A l \in Requests : Cardinality(Followers(l)) <= MaxWaiters

Inv == TypeOK /\ Led /\ HasEntry /\ TurnedDown /\ ResultReachesFollowers

-----------------------------------------------------------------------------
LEMMA OldestNat == Oldest \in Nat \ {0}
  BY RegistryAssumption DEF Oldest

LEMMA InitInv == Init => Inv
  BY RegistryAssumption, OldestNat
  DEF Init, Inv, TypeOK, Led, HasEntry, TurnedDown, ResultReachesFollowers, Steps

\* Every step keeps the types.
LEMMA TypeStep == TypeOK /\ HasEntry /\ [Next]_vars => TypeOK'
<1> SUFFICES ASSUME TypeOK, HasEntry, [Next]_vars PROVE TypeOK'
  OBVIOUS
<1> USE OldestNat, RegistryAssumption DEF TypeOK, Steps, Goto
<1>1. CASE UNCHANGED vars
  BY <1>1 DEF vars
<1>2. ASSUME NEW r \in Requests, Lookup(r) PROVE TypeOK'
  BY <1>2 DEF Lookup
<1>3. ASSUME NEW r \in Requests, Join(r) PROVE TypeOK'
  <2>1. entry[r] \in Requests
    BY <1>3 DEF Join, HasEntry
  <2>2. waiter_count' \in [Requests -> 0..MaxWaiters]
    BY <1>3, <2>1 DEF Join, Joinable
  <2>3. late' \in [Requests -> BOOLEAN]
    BY <1>3, <2>1 DEF Join
  <2> QED
    BY <1>3, <2>1, <2>2, <2>3 DEF Join
<1>4. ASSUME NEW r \in Requests, BecomeLeader(r) PROVE TypeOK'
  <2>1. in_flight' \in [Keys -> Requests \cup {None}]
    BY <1>4 DEF BecomeLeader
  <2> QED
    BY <1>4, <2>1 DEF BecomeLeader
<1>5. ASSUME NEW r \in Requests, Broadcast(r) PROVE TypeOK'
  BY <1>5 DEF Broadcast
<1>6. ASSUME NEW r \in Requests, Receive(r) PROVE TypeOK'
  BY <1>6 DEF Receive
<1>7. ASSUME NEW r \in Requests, Drop(r) PROVE TypeOK'
  BY <1>7 DEF Drop
<1>8. CASE Tick
  BY <1>8 DEF Tick
<1> QED
  BY <1>1, <1>2, <1>3, <1>4, <1>5, <1>6, <1>7, <1>8 DEF Next, Work

\* Every step keeps the invariant.
LEMMA InvStep == Inv /\ [Next]_vars => Inv'
<1> SUFFICES ASSUME Inv, [Next]_vars PROVE Inv'
  OBVIOUS
<1> USE OldestNat, RegistryAssumption
<1>0. TypeOK /\ TypeOK'
  BY TypeStep DEF Inv
<1>1. CASE UNCHANGED vars
  BY <1>0, <1>1 DEF vars, Inv, Led, HasEntry, TurnedDown, Joinable, ResultReachesFollowers
<1>2. ASSUME NEW r \in Requests, Lookup(r) PROVE Inv'
  <2>1. Led'
    BY <1>0, <1>2 DEF Lookup, Inv, Led, Goto, Past, TypeOK
  <2>2. HasEntry' /\ TurnedDown' /\ ResultReachesFollowers'
    BY <1>0, <1>2 DEF Lookup, Inv, Led, Goto, Past, TypeOK, HasEntry, TurnedDown, Joinable,
                      ResultReachesFollowers
  <2> QED
    BY <1>0, <2>1, <2>2 DEF Inv
<1>3. ASSUME NEW r \in Requests, Join(r) PROVE Inv'
  <2>1. entry[r] \in Requests /\ pc[entry[r]] \in Past /\ entry[r] # r
    BY <1>0, <1>3 DEF Join, Inv, Led, HasEntry, Past, TypeOK
  <2>2. Led' /\ HasEntry'
    BY <1>0, <1>3, <2>1 DEF Join, Inv, Led, Goto, Past, TypeOK, HasEntry
  <2>3. TurnedDown'
    <3>1. CASE Joinable(entry[r])
      BY <1>0, <1>3, <2>1, <3>1 DEF Join, Inv, Goto, TypeOK, TurnedDown, Joinable
    <3>2. CASE ~Joinable(entry[r])
      BY <1>0, <1>3, <2>1, <3>2 DEF Join, Inv, Goto, TypeOK, TurnedDown, Joinable
    <3> QED
      BY <3>1, <3>2
  <2>4. ResultReachesFollowers'
    BY <1>0, <1>3, <2>1 DEF Join, Inv, Goto, TypeOK, Led, Past, ResultReachesFollowers, HasEntry
  <2> QED
    BY <1>0, <2>2, <2>3, <2>4 DEF Inv
<1>4. ASSUME NEW r \in Requests, BecomeLeader(r) PROVE Inv'
  <2>1. /\ pc[r] = "lead" /\ pc' = [pc EXCEPT ![r] = "leading"]
        /\ age' = [age EXCEPT ![r] = 0]
        /\ UNCHANGED <<waiter_count, sent, entry, late>>
        /\ \A k \in Keys : in_flight'[k] \in {r, None, in_flight[k]}
    BY <1>0, <1>4 DEF BecomeLeader, Goto, TypeOK
  <2>2. \A q \in Requests : entry[q] # r
    BY <1>0, <2>1 DEF Inv, Led, Past, TypeOK
  <2>3. Led'
    BY <1>0, <2>1 DEF Inv, Led, Past, TypeOK
  <2>4. HasEntry' /\ TurnedDown'
    BY <1>0, <2>1, <2>2 DEF Inv, HasEntry, TurnedDown, Joinable, TypeOK
  <2>5. ResultReachesFollowers'
    BY <1>0, <2>1, <2>2 DEF Inv, ResultReachesFollowers, TypeOK, HasEntry
  <2> QED
    BY <1>0, <2>3, <2>4, <2>5 DEF Inv
<1>5. ASSUME NEW r \in Requests, Broadcast(r) PROVE Inv'
  <2>1. Led' /\ HasEntry' /\ TurnedDown'
    BY <1>0, <1>5 DEF Broadcast, Goto, Inv, Led, Past, HasEntry, TurnedDown, Joinable, TypeOK
  <2>2. ASSUME NEW q \in Requests, pc'[q] = "waiting", ~late'[q], pc'[entry'[q]] = "answered"
        PROVE  sent'[entry'[q]]
    <3>1. pc[q] = "waiting" /\ ~late[q] /\ entry[q] \in Requests /\ entry'[q] = entry[q]
      BY <1>0, <1>5, <2>2 DEF Broadcast, Goto, Inv, HasEntry, TypeOK
    <3>2. CASE entry[q] = r
      BY <1>0, <1>5, <3>1, <3>2 DEF Broadcast, Followers, TypeOK
    <3>3. CASE entry[q] # r
      BY <1>0, <1>5, <2>2, <3>1, <3>3 DEF Broadcast, Goto, Inv, ResultReachesFollowers, TypeOK
    <3> QED
      BY <3>2, <3>3
  <2> QED
    BY <1>0, <2>1, <2>2 DEF Inv, ResultReachesFollowers
<1>6. ASSUME NEW r \in Requests, Receive(r) PROVE Inv'
  <2>1. \A q \in Requests : entry[q] # r
    BY <1>0, <1>6 DEF Receive, Inv, Led, Past, TypeOK
  <2>2. \A k \in Keys : in_flight[k] # r
    BY <1>0, <1>6 DEF Receive, Inv, Led, Past, TypeOK
  <2>3. Led' /\ HasEntry' /\ TurnedDown'
    BY <1>0, <1>6, <2>1, <2>2 DEF Receive, Goto, Inv, Led, Past, HasEntry, TurnedDown, Joinable, TypeOK
  <2>4. ResultReachesFollowers'
    BY <1>0, <1>6, <2>1 DEF Receive, Goto, Inv, ResultReachesFollowers, HasEntry, TypeOK
  <2> QED
    BY <1>0, <2>3, <2>4 DEF Inv
<1>7. ASSUME NEW r \in Requests, Drop(r) PROVE Inv'
  BY <1>0, <1>7 DEF Drop, Goto, Inv, Led, Past, HasEntry, TurnedDown, Joinable, TypeOK,
                    ResultReachesFollowers
<1>8. CASE Tick
  <2>1. UNCHANGED <<pc, in_flight, waiter_count, sent, entry, late>>
        /\ \A r \in Requests : age'[r] >= age[r]
    BY <1>0, <1>8 DEF Tick, TypeOK
  <2>2. Led' /\ HasEntry' /\ ResultReachesFollowers'
    BY <2>1 DEF Inv, Led, HasEntry, ResultReachesFollowers
  <2>3. TurnedDown'
    BY <1>0, <2>1 DEF Inv, TurnedDown, Joinable, TypeOK
  <2> QED
    BY <1>0, <2>2, <2>3 DEF Inv
<1> QED
  BY <1>1, <1>2, <1>3, <1>4, <1>5, <1>6, <1>7, <1>8 DEF Next, Work

\* Every step keeps the waiters counted: only Join adds one, and it counts it.
LEMMA CountedStep == Inv /\ Counted /\ [Next]_vars => Counted'
<1> SUFFICES ASSUME Inv, Counted, [Next]_vars, NEW l \in Requests
             PROVE  IsFiniteSet(Followers(l)') /\ Cardinality(Followers(l)') <= waiter_count'[l]
  BY DEF Counted
<1>0. TypeOK /\ TypeOK'
  BY TypeStep DEF Inv
<1>1. waiter_count[l] \in Nat /\ waiter_count'[l] \in Nat
  BY <1>0, RegistryAssumption DEF TypeOK
<1>2. IsFiniteSet(Followers(l)) /\ Cardinality(Followers(l)) <= waiter_count[l]
  BY DEF Counted
<1>3. ASSUME Followers(l)' \subseteq Followers(l), waiter_count'[l] >= waiter_count[l]
      PROVE  IsFiniteSet(Followers(l)') /\ Cardinality(Followers(l)') <= waiter_count'[l]
  <2>1. IsFiniteSet(Followers(l)') /\ Cardinality(Followers(l)') <= Cardinality(Followers(l))
    BY <1>2, <1>3, FS_Subset
  <2>2. Cardinality(Followers(l)') \in Nat /\ Cardinality(Followers(l)) \in Nat
    BY <2>1, <1>2, FS_CardinalityType
  <2> QED
    BY <1>1, <1>2, <1>3, <2>1, <2>2
<1>4. CASE UNCHANGED vars
  BY <1>1, <1>3, <1>4 DEF vars, Followers
<1>5. ASSUME NEW r \in Requests, Lookup(r) PROVE Followers(l)' \subseteq Followers(l) /\ waiter_count'[l] >= waiter_count[l]
  BY <1>0, <1>1, <1>5 DEF Lookup, Goto, Followers, TypeOK
<1>6. ASSUME NEW r \in Requests, Join(r)
      PROVE  IsFiniteSet(Followers(l)') /\ Cardinality(Followers(l)') <= waiter_count'[l]
  <2>1. entry[r] \in Requests /\ pc[r] = "found"
    BY <1>0, <1>6 DEF Join, Inv, HasEntry, TypeOK
  <2>2. CASE Joinable(entry[r]) /\ entry[r] = l
    <3>1. Followers(l)' = Followers(l) \cup {r} /\ r \notin Followers(l)
          /\ waiter_count'[l] = waiter_count[l] + 1
      BY <1>0, <1>6, <2>1, <2>2 DEF Join, Goto, Followers, TypeOK
    <3>2. IsFiniteSet(Followers(l)') /\ Cardinality(Followers(l)') = Cardinality(Followers(l)) + 1
      BY <1>2, <3>1, FS_AddElement
    <3>3. Cardinality(Followers(l)) \in Nat
      BY <1>2, FS_CardinalityType
    <3> QED
      BY <1>1, <1>2, <3>1, <3>2, <3>3
  <2>3. CASE ~(Joinable(entry[r]) /\ entry[r] = l)
    <3>1. Followers(l)' \subseteq Followers(l) /\ waiter_count'[l] >= waiter_count[l]
      BY <1>0, <1>1, <1>6, <2>1, <2>3 DEF Join, Goto, Followers, TypeOK
    <3> QED
      BY <1>3, <3>1
  <2> QED
    BY <2>2, <2>3
<1>7. ASSUME NEW r \in Requests, BecomeLeader(r) \/ Broadcast(r) \/ Receive(r) \/ Drop(r)
      PROVE  Followers(l)' \subseteq Followers(l) /\ waiter_count'[l] >= waiter_count[l]
  BY <1>0, <1>1, <1>7 DEF BecomeLeader, Broadcast, Receive, Drop, Goto, Followers, TypeOK
<1>8. CASE Tick
  BY <1>1, <1>3, <1>8 DEF Tick, Followers
<1> QED
  BY <1>3, <1>4, <1>5, <1>6, <1>7, <1>8 DEF Next, Work

LEMMA InitCounted == Init => Counted
<1> SUFFICES ASSUME Init, NEW l \in Requests
             PROVE  IsFiniteSet(Followers(l)) /\ Cardinality(Followers(l)) <= waiter_count[l]
  BY DEF Counted
<1>1. Followers(l) = {} /\ waiter_count[l] = 0
  BY DEF Init, Followers
<1> QED
  BY <1>1, FS_EmptySet

LEMMA Invariance == Spec => [](Inv /\ Counted)
<1>1. Init => Inv /\ Counted
  BY InitInv, InitCounted
<1>2. (Inv /\ Counted) /\ [Next]_vars => (Inv /\ Counted)'
  BY InvStep, CountedStep
<1> QED
  BY <1>1, <1>2, PTL DEF Spec

-----------------------------------------------------------------------------
\* Every variable of the registry keeps its type; in particular the counter of an
\* entry stays within max_waiters (try_collapse).
THEOREM TypeCorrect == Spec => []TypeOK
<1>1. Inv => TypeOK
  BY DEF Inv
<1> QED
  BY <1>1, Invariance, PTL

\* Followers that joined while the leader was executing find what it broadcast,
\* whatever else is inserted, replaced or evicted meanwhile.
THEOREM ResultsReachFollowers == Spec => []ResultReachesFollowers
<1>1. Inv => ResultReachesFollowers
  BY DEF Inv
<1> QED
  BY <1>1, Invariance, PTL

\* No entry ever has more than max_waiters requests waiting on it, although any
\* number of requests may have found it before one of them locks it.
THEOREM WaitersAreBounded == Spec => []WaitersBounded
<1>1. Inv /\ Counted => WaitersBounded
  <2> SUFFICES ASSUME Inv, Counted, NEW l \in Requests
               PROVE  Cardinality(Followers(l)) <= MaxWaiters
    BY DEF WaitersBounded
  <2>1. waiter_count[l] \in 0..MaxWaiters
    BY DEF Inv, TypeOK
  <2>2. Cardinality(Followers(l)) <= waiter_count[l] /\ Cardinality(Followers(l)) \in Nat
    BY FS_CardinalityType DEF Counted
  <2> QED
    BY <2>1, <2>2, RegistryAssumption
<1> QED
  BY <1>1, Invariance, PTL

\* A second leader takes over a joinable entry only if it had looked the key up
\* before that entry was there: one that found the entry has turned it down for good.
THEOREM OnlyRacers == Spec => OnlyRacersLeadTwice
<1>1. Inv /\ [Next]_vars =>
         [\A r \in Requests : LET l == in_flight[KeyOf[r]]
                              IN  BecomeLeader(r) /\ l # None /\ Joinable(l) => entry[r] # l]_vars
  BY DEF Inv, TurnedDown, BecomeLeader
<1> QED
  BY <1>1, Invariance, PTL DEF Spec, OnlyRacersLeadTwice

\* recv() reports a closed channel to no follower that subscribed while its leader was
\* executing, unless that leader was dropped: what TimelyFollowersServed says of the answer,
\* for every order in which entries are replaced, evicted and let go of.
NoTimelyFollowerFails ==
    [][\A r \in Requests : pc[r] = "waiting" /\ pc'[r] = "failed" => late[r] \/ LeaderDropped(r)]_vars

\* A timely follower always has something to wait for: its leader still executes and will
\* broadcast, or the result is in the channel, or the leader was dropped.
NoTimelyFollowerIsStranded ==
    \A r \in Requests : pc[r] = "waiting" /\ ~late[r]
        => pc[entry[r]] = "leading" \/ sent[entry[r]] \/ LeaderDropped(r)

\* The safety half of TimelyFollowersServed, first the wait ...
THEOREM TimelyFollowersAreLed == Spec => []NoTimelyFollowerIsStranded
<1>1. Inv => NoTimelyFollowerIsStranded
  BY DEF Inv, Led, HasEntry, Past, ResultReachesFollowers, NoTimelyFollowerIsStranded, LeaderDropped
<1> QED
  BY <1>1, Invariance, PTL

\* ... and then the answer: the error of RequestReceiver::recv is for late followers and for
\* those whose leader was dropped.
THEOREM TimelyFollowersDoNotFail == Spec => NoTimelyFollowerFails
<1>1. ASSUME Inv, Next, NEW r \in Requests, pc[r] = "waiting", pc'[r] = "failed", ~late[r]
      PROVE  LeaderDropped(r)
  <2>1. pc \in [Requests -> Steps]
    BY <1>1 DEF Inv, TypeOK
  <2>2. \A q \in Requests : \A step : Goto(q, step) => q = r /\ step = "failed"
    BY <1>1, <2>1 DEF Goto
  <2>3. Receive(r)
    <3>1. PICK q \in Requests : Lookup(q) \/ Join(q) \/ BecomeLeader(q) \/ Broadcast(q) \/ Receive(q)
                                 \/ Drop(q)
      BY <1>1 DEF Next, Work, Tick
    <3>2. ~Lookup(q) /\ ~Join(q) /\ ~BecomeLeader(q) /\ ~Broadcast(q) /\ ~Drop(q)
      BY <2>2 DEF Lookup, Join, BecomeLeader, Broadcast, Drop
    <3>3. Receive(q)
      BY <3>1, <3>2
    <3> QED
      BY <2>2, <3>3 DEF Receive
  <2>4. ~sent[entry[r]] /\ pc[entry[r]] # "leading"
    BY <2>2, <2>3 DEF Receive, SenderAlive
  <2> QED
    BY <1>1, <2>4 DEF Inv, Led, HasEntry, Past, ResultReachesFollowers, LeaderDropped
<1>2. Inv /\ [Next]_vars =>
        [\A r \in Requests : pc[r] = "waiting" /\ pc'[r] = "failed" => late[r] \/ LeaderDropped(r)]_vars
  BY <1>1
<1> QED
  BY <1>2, Invariance, PTL DEF Spec, NoTimelyFollowerFails

=============================================================================
