------------------------ MODULE CircuitBreakerProofs ------------------------
(***************************************************************************)
(* The safety properties of CircuitBreaker for every number of tasks and    *)
(* every configuration.  Counting is tied to history: failure_count never   *)
(* runs ahead of the failures counted since the circuit was closed          *)
(* (CountBound), and in a half-open episode the requests let through never  *)
(* run ahead of half_open_requests (EpisodeBound); the two properties       *)
(* follow because every path to "open" and to "call" tests those counters.  *)
(*                                                                          *)
(* The refinement of BreakerLifecycle holds as long as requests come one at *)
(* a time: then at most one task is in the breaker (Alone), and what it has *)
(* decided but not yet written is what the mapping shows.                   *)
(***************************************************************************)
EXTENDS MCCircuitBreaker, FiniteSetTheorems, TLAPS

\* Up to the threshold, every failure in the counter was counted since the last close.
CountBound == failures < FailureThreshold => failure_count <= failures

\* While the circuit is half-open the counter covers every request let through.
EpisodeBound == state = "HalfOpen" => probes <= half_open_requests

IInv == TypeOK /\ CountBound /\ NoEarlyTrip /\ EpisodeBound /\ ProbeBudget

\* A saturating counter stays within its cap.
LEMMA AtMostType ==
    ASSUME NEW cap \in Nat, NEW n \in Nat
    PROVE  AtMost(n, cap) \in 0..cap /\ AtMost(n, cap) <= n /\ (n >= cap => AtMost(n, cap) = cap)
  BY DEF AtMost

\* The initial state satisfies the invariant.
LEMMA InitInv == Init => IInv
<1> SUFFICES ASSUME Init PROVE IInv
  OBVIOUS
<1> USE ConfigAssumption DEF ConfigAssumption, Init
<1>1. TypeOK
  <2>1. pc \in [Tasks -> Step]
    BY DEF Step
  <2>2. opened \in 0..RecoveryTimeout /\ seen \in [Tasks -> 0..RecoveryTimeout]
    OBVIOUS
  <2>3. dropped \in BOOLEAN
    OBVIOUS
  <2> QED
    BY <2>1, <2>2, <2>3 DEF TypeOK, CircuitState
<1>2. CountBound /\ EpisodeBound /\ ProbeBudget
  BY DEF CountBound, EpisodeBound, ProbeBudget
<1>3. NoEarlyTrip
  BY DEF NoEarlyTrip
<1> QED
  BY <1>1, <1>2, <1>3 DEF IInv

\* Types are preserved by every step.
LEMMA TypeStep == TypeOK /\ [Next]_vars => TypeOK'
<1> SUFFICES ASSUME TypeOK, [Next]_vars PROVE TypeOK'
  OBVIOUS
<1> USE ConfigAssumption DEF ConfigAssumption, TypeOK, Goto
<1>1. ASSUME NEW t \in Tasks, AllowBegin(t) \/ StateBegin(t) PROVE TypeOK'
  BY <1>1 DEF AllowBegin, StateBegin, Observe, breaker, history, Step
<1>2. ASSUME NEW t \in Tasks, LoadOpenedAt(t) \/ CheckElapsed(t) PROVE TypeOK'
  BY <1>2 DEF LoadOpenedAt, CheckElapsed, breaker, history, Step
<1>3. ASSUME NEW t \in Tasks, LockHalfOpen(t) PROVE TypeOK'
  BY <1>3 DEF LockHalfOpen, EnterHalfOpen, breaker, Step, CircuitState
<1>4. ASSUME NEW t \in Tasks, Dispatch(t) PROVE TypeOK'
  BY <1>4 DEF Dispatch, breaker, history, Step, CircuitState
<1>5. ASSUME NEW t \in Tasks, Admit(t) PROVE TypeOK'
  <2>1. half_open_requests' \in 0..HalfOpenMax
    BY <1>5, AtMostType DEF Admit
  <2> QED
    BY <1>5, <2>1 DEF Admit, Step
<1>6. ASSUME NEW t \in Tasks, Answer(t) \/ Drop(t) PROVE TypeOK'
  BY <1>6 DEF Answer, Drop, breaker, history, Step
<1>7. ASSUME NEW t \in Tasks, SuccessRead(t) \/ ClearFailures(t) \/ CountSuccess(t) PROVE TypeOK'
  BY <1>7 DEF SuccessRead, ClearFailures, CountSuccess, breaker, history, Step
<1>8. ASSUME NEW t \in Tasks, FailureRead(t) PROVE TypeOK'
  BY <1>8 DEF FailureRead, breaker, history, Step, CircuitState
<1>9. ASSUME NEW t \in Tasks, CountFailure(t) PROVE TypeOK'
  <2>1. failures' \in 0..FailureThreshold
    BY <1>9, AtMostType DEF CountFailure
  <2> QED
    BY <1>9, <2>1 DEF CountFailure, Step
<1>10. ASSUME NEW t \in Tasks, Close(t) \/ Open(t) PROVE TypeOK'
  BY <1>10 DEF Close, Open, TripClosed, TripOpen, Step, CircuitState
<1>11. ASSUME Reset PROVE TypeOK'
  BY <1>11 DEF Reset, TripClosed, CircuitState
<1>12. ASSUME Tick PROVE TypeOK'
  <2>1. opened' \in 0..RecoveryTimeout
    BY <1>12, AtMostType DEF Tick
  <2>2. \A t \in Tasks : AtMost(seen[t] + 1, RecoveryTimeout) \in 0..RecoveryTimeout
    BY AtMostType
  <2> QED
    BY <1>12, <2>1, <2>2 DEF Tick, history
<1>13. CASE UNCHANGED vars
  BY <1>13 DEF vars, breaker, history
<1> QED
  BY <1>1, <1>2, <1>3, <1>4, <1>5, <1>6, <1>7, <1>8, <1>9, <1>10, <1>11, <1>12, <1>13
  DEF Next, Work

\* The counting invariants are preserved by every step.
LEMMA InvStep == IInv /\ [Next]_vars => IInv'
<1> SUFFICES ASSUME IInv, [Next]_vars PROVE IInv'
  OBVIOUS
<1> TypeOK'
  BY TypeStep DEF IInv
<1> USE ConfigAssumption DEF ConfigAssumption, IInv, TypeOK, Goto
<1> SUFFICES CountBound' /\ NoEarlyTrip' /\ EpisodeBound' /\ ProbeBudget'
  BY DEF IInv
<1> DEFINE Counted == CountBound' /\ EpisodeBound' /\ ProbeBudget'
<1>1. ASSUME NEW t \in Tasks,
             \/ AllowBegin(t) \/ StateBegin(t) \/ LoadOpenedAt(t) \/ CheckElapsed(t)
             \/ Dispatch(t) \/ Answer(t) \/ Drop(t) \/ SuccessRead(t)
      PROVE  Counted /\ NoEarlyTrip'
  <2>1. UNCHANGED <<breaker, failures, stale, probes>>
    BY <1>1 DEF AllowBegin, StateBegin, Observe, LoadOpenedAt, CheckElapsed, Dispatch, Answer,
                Drop, SuccessRead, history
  <2>2. \A u \in Tasks : pc'[u] = "open" => pc[u] = "open"
    BY <1>1 DEF AllowBegin, StateBegin, Observe, LoadOpenedAt, CheckElapsed, Dispatch, Answer,
                Drop, SuccessRead, CircuitState
  <2> QED
    BY <2>1, <2>2 DEF breaker, CountBound, NoEarlyTrip, EpisodeBound, ProbeBudget
<1>2. ASSUME NEW t \in Tasks, LockHalfOpen(t) PROVE Counted /\ NoEarlyTrip'
  <2>1. \A u \in Tasks : pc'[u] = "open" => pc[u] = "open"
    BY <1>2 DEF LockHalfOpen
  <2>2. NoEarlyTrip'
    BY <1>2, <2>1 DEF LockHalfOpen, EnterHalfOpen, breaker, NoEarlyTrip
  <2>3. Counted
    BY <1>2 DEF LockHalfOpen, EnterHalfOpen, breaker, CountBound, EpisodeBound, ProbeBudget
  <2> QED
    BY <2>2, <2>3
<1>3. ASSUME NEW t \in Tasks, Admit(t) PROVE Counted /\ NoEarlyTrip'
  \* Admission: the counter grows by one with the request it covers, or is full.
  <2>1. CASE half_open_requests < HalfOpenMax
    <3>1. half_open_requests' = half_open_requests + 1
      BY <1>3, <2>1 DEF Admit, AtMost
    <3> QED
      BY <1>3, <2>1, <3>1 DEF Admit, CountBound, NoEarlyTrip, EpisodeBound, ProbeBudget
  <2>2. CASE ~(half_open_requests < HalfOpenMax)
    <3>1. half_open_requests' = HalfOpenMax
      BY <1>3, <2>2 DEF Admit, AtMost
    <3> QED
      BY <1>3, <2>2, <3>1 DEF Admit, CountBound, NoEarlyTrip, EpisodeBound, ProbeBudget
  <2> QED
    BY <2>1, <2>2
<1>4. ASSUME NEW t \in Tasks, ClearFailures(t) \/ CountSuccess(t) PROVE Counted /\ NoEarlyTrip'
  BY <1>4 DEF ClearFailures, CountSuccess, history, CountBound, NoEarlyTrip, EpisodeBound,
              ProbeBudget
<1>5. ASSUME NEW t \in Tasks, FailureRead(t) PROVE Counted /\ NoEarlyTrip'
  \* A failed probe goes on to open the circuit, which is not closed.
  <2>1. UNCHANGED <<breaker, failures, stale, probes>>
    BY <1>5 DEF FailureRead, history
  <2>2. pc'[t] = "open" => state = "HalfOpen"
    BY <1>5 DEF FailureRead, CircuitState
  <2>3. \A u \in Tasks : u # t => pc'[u] = pc[u]
    BY <1>5 DEF FailureRead
  <2> QED
    BY <2>1, <2>2, <2>3 DEF breaker, CountBound, NoEarlyTrip, EpisodeBound, ProbeBudget
<1>6. ASSUME NEW t \in Tasks, CountFailure(t) PROVE Counted /\ NoEarlyTrip'
  <2>1. CASE failures < FailureThreshold
    <3>1. failure_count <= failures
      BY <2>1 DEF CountBound
    <3>2. failures' = failures + 1
      <4>1. AtMost(failures + 1, FailureThreshold) = failures + 1
        BY <2>1 DEF AtMost
      <4> QED
        BY <1>6, <4>1 DEF CountFailure
    <3>3. pc'[t] = "open" => failures' = FailureThreshold
      BY <1>6, <2>1, <3>1, <3>2 DEF CountFailure
    <3> QED
      BY <1>6, <2>1, <3>1, <3>2, <3>3 DEF CountFailure, CountBound, NoEarlyTrip, EpisodeBound, ProbeBudget
  <2>2. CASE ~(failures < FailureThreshold)
    <3>1. failures' = FailureThreshold
      BY <1>6, <2>2 DEF CountFailure, AtMost
    <3> QED
      BY <1>6, <2>2, <3>1 DEF CountFailure, CountBound, NoEarlyTrip, EpisodeBound, ProbeBudget
  <2> QED
    BY <2>1, <2>2
<1>7. ASSUME NEW t \in Tasks, Close(t) PROVE Counted /\ NoEarlyTrip'
  BY <1>7 DEF Close, TripClosed, CountBound, NoEarlyTrip, EpisodeBound, ProbeBudget
<1>8. ASSUME NEW t \in Tasks, Open(t) PROVE Counted /\ NoEarlyTrip'
  BY <1>8 DEF Open, TripOpen, CountBound, NoEarlyTrip, EpisodeBound, ProbeBudget
<1>9. ASSUME Reset PROVE Counted /\ NoEarlyTrip'
  BY <1>9 DEF Reset, TripClosed, CountBound, NoEarlyTrip, EpisodeBound, ProbeBudget
<1>10. ASSUME Tick PROVE Counted /\ NoEarlyTrip'
  BY <1>10 DEF Tick, history, CountBound, NoEarlyTrip, EpisodeBound, ProbeBudget
<1>11. ASSUME UNCHANGED vars PROVE Counted /\ NoEarlyTrip'
  BY <1>11 DEF vars, breaker, history, CountBound, NoEarlyTrip, EpisodeBound, ProbeBudget
<1> QED
  BY <1>1, <1>2, <1>3, <1>4, <1>5, <1>6, <1>7, <1>8, <1>9, <1>10, <1>11 DEF Next, Work

\* The inductive invariant holds in every reachable state.
LEMMA Invariance == Spec => []IInv
  BY InitInv, InvStep, PTL DEF Spec

\* Every variable keeps its type, in every configuration of the breaker.
THEOREM TypeCorrect == Spec => []TypeOK
  BY Invariance, PTL DEF IInv

\* A closed circuit is not tripped before failure_threshold failures were counted
\* since it was closed, whatever the order in which late outcomes arrive.
THEOREM NeverTripsEarly == Spec => []NoEarlyTrip
  BY Invariance, PTL DEF IInv

\* No half-open episode lets more than half_open_max_requests requests through.
THEOREM ProbesAreBounded == Spec => []ProbeBudget
  BY Invariance, PTL DEF IInv

\* A closed circuit never turns half-open: the write-locked section of
\* maybe_transition_to_half_open looks at the state again.
THEOREM ClosedIsNotProbed == Spec => NoProbingOfClosed
<1>1. ASSUME TypeOK, [Next]_vars, state = "Closed" PROVE state' # "HalfOpen"
  BY <1>1 DEF Next, Work, AllowBegin, StateBegin, Observe, LoadOpenedAt, CheckElapsed,
     LockHalfOpen, EnterHalfOpen, Dispatch, Admit, Answer, Drop, SuccessRead, ClearFailures,
     CountSuccess, Close, TripClosed, FailureRead, CountFailure, Open, TripOpen, Reset, Tick,
     vars, breaker
<1> QED
  BY <1>1, TypeCorrect, PTL DEF Spec, NoProbingOfClosed

-----------------------------------------------------------------------------
\* The refinement.  While requests come one at a time at most one task is in the breaker
\* (Alone); what it has loaded is no older than the circuit's, and it counts a failure only
\* of a closed circuit.
Alone ==
    /\ \A t, u \in Tasks : pc[t] # "idle" /\ pc[u] # "idle" => t = u
    /\ \A t \in Tasks :
         /\ pc[t] \in {"allow.check", "state.check"} => seen[t] <= opened
         /\ pc[t] \in {"allow.lock", "state.lock"} => opened = RecoveryTimeout
         /\ pc[t] = "fail" => state = "Closed"

MCInv == TypeOK /\ (~overlapped => Alone)

\* Two busy tasks at once are noticed.
LEMMA OverlapIsNoticed ==
  ASSUME TypeOK, Alone, NEW t \in Tasks, \A u \in Tasks \ {t} : pc'[u] = pc[u],
         ~(Cardinality({u \in Tasks : pc'[u] # "idle"}) > 1)
  PROVE  \A u, v \in Tasks : pc'[u] # "idle" /\ pc'[v] # "idle" => u = v
<1> SUFFICES ASSUME NEW u \in Tasks, NEW v \in Tasks, pc'[u] # "idle", pc'[v] # "idle", u # v
             PROVE  FALSE
  OBVIOUS
<1> DEFINE S == {w \in Tasks : pc'[w] # "idle"}
<1>1. \A w \in S : w = u \/ w = v
  BY DEF Alone
<1>2. S = {u, v}
  BY <1>1
<1>3. Cardinality({u, v}) = 2
  <2>1. IsFiniteSet({u}) /\ Cardinality({u}) = 1
    BY FS_Singleton
  <2>2. {u} \cup {v} = {u, v} /\ v \notin {u}
    OBVIOUS
  <2>3. Cardinality({u} \cup {v}) = Cardinality({u}) + 1
    BY <2>1, <2>2, FS_AddElement
  <2> QED
    BY <2>1, <2>2, <2>3
<1> HIDE DEF S
<1>4. ~(Cardinality(S) > 1)
  BY DEF S
<1> QED
  BY <1>2, <1>3, <1>4

LEMMA AloneStays ==
  ASSUME TypeOK, Alone, Next, ~(Cardinality({u \in Tasks : pc'[u] # "idle"}) > 1)
  PROVE  Alone'
<1> DEFINE Single == \A u, v \in Tasks : pc'[u] # "idle" /\ pc'[v] # "idle" => u = v
<1> USE ConfigAssumption DEF ConfigAssumption, TypeOK, Goto
<1>1. ASSUME NEW t \in Tasks, AllowBegin(t) \/ StateBegin(t) PROVE Alone'
  <2>1. /\ \A u \in Tasks \ {t} : pc'[u] = pc[u]
        /\ pc'[t] \in {"allow.load", "state.load", "allow.dispatch", "idle"}
        /\ UNCHANGED <<breaker, seen>>
    BY <1>1 DEF AllowBegin, StateBegin, Observe
  <2>2. Single
    BY <2>1, OverlapIsNoticed
  <2> QED
    BY <2>1, <2>2 DEF Alone, breaker
<1>2. ASSUME NEW t \in Tasks, LoadOpenedAt(t) PROVE Alone'
  <2>1. /\ \A u \in Tasks \ {t} : pc'[u] = pc[u] /\ seen'[u] = seen[u]
        /\ pc'[t] \in {"allow.check", "state.check"} /\ seen'[t] = opened
        /\ UNCHANGED breaker
    BY <1>2 DEF LoadOpenedAt
  <2>2. Single
    BY <2>1, OverlapIsNoticed
  <2> QED
    BY <2>1, <2>2 DEF Alone, breaker
<1>3. ASSUME NEW t \in Tasks, CheckElapsed(t) PROVE Alone'
  <2>1. /\ \A u \in Tasks \ {t} : pc'[u] = pc[u]
        /\ pc[t] \in {"allow.check", "state.check"}
        /\ pc'[t] \in {"allow.lock", "state.lock", "allow.dispatch", "idle"}
        /\ pc'[t] \in {"allow.lock", "state.lock"} => seen[t] >= RecoveryTimeout
        /\ UNCHANGED <<breaker, seen>>
    BY <1>3 DEF CheckElapsed
  <2>2. Single
    BY <2>1, OverlapIsNoticed
  <2>3. pc'[t] \in {"allow.lock", "state.lock"} => opened = RecoveryTimeout
    BY <2>1 DEF Alone
  <2> QED
    BY <2>1, <2>2, <2>3 DEF Alone, breaker
<1>4. ASSUME NEW t \in Tasks,
             \/ LockHalfOpen(t) \/ Dispatch(t) \/ Admit(t) \/ Answer(t) \/ Drop(t) \/ SuccessRead(t)
             \/ ClearFailures(t) \/ CountSuccess(t) \/ Close(t) \/ CountFailure(t) \/ Open(t)
      PROVE  Alone'
  <2>1. /\ \A u \in Tasks \ {t} : pc'[u] = pc[u]
        /\ pc[t] # "idle"
        /\ pc'[t] \notin {"allow.check", "state.check", "allow.lock", "state.lock", "fail"}
    BY <1>4 DEF LockHalfOpen, Dispatch, Admit, Answer, Drop, SuccessRead, ClearFailures,
                CountSuccess, Close, CountFailure, Open, CircuitState
  <2>2. Single
    BY <2>1, OverlapIsNoticed
  <2>3. \A u \in Tasks \ {t} : pc'[u] = "idle"
    BY <2>1 DEF Alone
  <2> QED
    BY <2>1, <2>2, <2>3 DEF Alone
<1>5. ASSUME NEW t \in Tasks, FailureRead(t) PROVE Alone'
  <2>1. /\ \A u \in Tasks \ {t} : pc'[u] = pc[u]
        /\ pc[t] = "err" /\ pc'[t] \in {"fail", "open", "idle"}
        /\ pc'[t] = "fail" => state = "Closed"
        /\ UNCHANGED <<breaker, seen>>
    BY <1>5 DEF FailureRead, CircuitState
  <2>2. Single
    BY <2>1, OverlapIsNoticed
  <2> QED
    BY <2>1, <2>2 DEF Alone, breaker
<1>6. CASE Reset
  BY <1>6 DEF Reset, TripClosed, Alone
<1>7. CASE Tick
  <2>1. UNCHANGED <<state, pc>> /\ opened \in 0..RecoveryTimeout
    BY <1>7 DEF Tick
  <2>2. opened' = IF opened < RecoveryTimeout THEN opened + 1 ELSE RecoveryTimeout
    BY <1>7 DEF Tick, AtMost
  <2>3. \A t \in Tasks : /\ seen[t] \in 0..RecoveryTimeout
                         /\ seen'[t] = IF seen[t] < RecoveryTimeout THEN seen[t] + 1 ELSE RecoveryTimeout
    BY <1>7 DEF Tick, AtMost
  <2>4. \A t \in Tasks : seen[t] <= opened => seen'[t] <= opened'
    BY <2>1, <2>2, <2>3
  <2>5. opened = RecoveryTimeout => opened' = RecoveryTimeout
    BY <2>2
  <2> QED
    BY <2>1, <2>4, <2>5 DEF Alone
<1> QED
  BY <1>1, <1>2, <1>3, <1>4, <1>5, <1>6, <1>7 DEF Next, Work

LEMMA StepRefines ==
  ASSUME TypeOK, Alone, Next
  PROVE  Lifecycle!Next \/ UNCHANGED Lifecycle!vars
<1> USE ConfigAssumption DEF ConfigAssumption, TypeOK, Goto
<1> DEFINE Same == (Opening' <=> Opening) /\ (Closing' <=> Closing)
<1>0. ASSUME UNCHANGED breaker, Same PROVE UNCHANGED Lifecycle!vars
  <2>1. UNCHANGED <<state, failure_count, opened, half_open_requests, half_open_successes>>
    BY <1>0 DEF breaker
  <2>2. Probing' <=> Probing
    BY <1>0, <2>1 DEF Probing
  <2> HIDE DEF Opening, Closing, Probing
  <2> QED
    BY <1>0, <2>1, <2>2 DEF Lifecycle!vars
<1>1. ASSUME NEW t \in Tasks,
             \/ AllowBegin(t) \/ StateBegin(t) \/ LoadOpenedAt(t) \/ CheckElapsed(t) \/ Dispatch(t)
             \/ Answer(t) \/ Drop(t) \/ SuccessRead(t)
      PROVE  UNCHANGED Lifecycle!vars
  <2>1. /\ \A u \in Tasks \ {t} : pc'[u] = pc[u]
        /\ pc[t] \notin {"open", "close"} /\ pc'[t] \notin {"open", "close"}
        /\ UNCHANGED breaker
    BY <1>1 DEF AllowBegin, StateBegin, Observe, LoadOpenedAt, CheckElapsed, Dispatch, Answer, Drop,
                SuccessRead, CircuitState
  <2>2. Same
    BY <2>1 DEF Opening, Closing
  <2> QED
    BY <1>0, <2>1, <2>2
\* The other steps of a task: it is the only one, so what it decides is what the circuit is about to do.
<1>2. ASSUME NEW t \in Tasks, pc[t] # "idle", \A u \in Tasks \ {t} : pc'[u] = pc[u]
      PROVE  /\ (Opening <=> pc[t] = "open") /\ (Closing <=> pc[t] = "close")
             /\ (Opening' <=> pc'[t] = "open") /\ (Closing' <=> pc'[t] = "close")
  BY <1>2 DEF Opening, Closing, Alone
<1>3. ASSUME NEW t \in Tasks, LockHalfOpen(t) PROVE Lifecycle!Recover \/ UNCHANGED Lifecycle!vars
  <2>1. /\ pc[t] \in {"allow.lock", "state.lock"} /\ \A u \in Tasks \ {t} : pc'[u] = pc[u]
        /\ pc'[t] \in {"allow.dispatch", "idle"} /\ EnterHalfOpen
    BY <1>3 DEF LockHalfOpen
  <2>2. ~Opening /\ ~Closing /\ ~Opening' /\ ~Closing'
    BY <1>2, <2>1
  <2>3. opened = RecoveryTimeout
    BY <2>1 DEF Alone
  <2>4. CASE state = "Open"
    <3>1. ~Probing
      BY <2>4 DEF Probing
    <3> HIDE DEF Opening, Closing
    <3> QED
      BY <2>1, <2>2, <2>3, <2>4, <3>1 DEF EnterHalfOpen, Lifecycle!Recover, Probing
  <2>5. CASE state # "Open"
    BY <1>0, <2>1, <2>2, <2>5 DEF EnterHalfOpen
  <2> QED
    BY <2>4, <2>5
<1>4. ASSUME NEW t \in Tasks, Admit(t) PROVE Lifecycle!Probe \/ UNCHANGED Lifecycle!vars
  <2>1. /\ pc[t] = "allow.admit" /\ \A u \in Tasks \ {t} : pc'[u] = pc[u]
        /\ pc'[t] \in {"call", "idle"}
        /\ UNCHANGED <<state, failure_count, opened, half_open_successes>>
    BY <1>4 DEF Admit
  <2>2. ~Opening /\ ~Closing /\ ~Opening' /\ ~Closing'
    BY <1>2, <2>1
  <2>3. half_open_requests' = IF half_open_requests < HalfOpenMax THEN half_open_requests + 1
                              ELSE half_open_requests
    BY <1>4 DEF Admit, AtMost
  <2>4. Probing' <=> Probing
    BY <2>1, <2>2 DEF Probing
  <2>5. Probing => state = "HalfOpen"
    BY DEF Probing
  <2> HIDE DEF Opening, Closing, Probing
  <2>6. CASE Probing /\ half_open_requests < HalfOpenMax
    BY <2>1, <2>2, <2>3, <2>4, <2>5, <2>6 DEF Lifecycle!Probe
  <2>7. CASE ~(Probing /\ half_open_requests < HalfOpenMax)
    BY <2>1, <2>2, <2>3, <2>4, <2>7 DEF Lifecycle!vars
  <2> QED
    BY <2>6, <2>7
<1>5. ASSUME NEW t \in Tasks, ClearFailures(t) PROVE Lifecycle!Success \/ UNCHANGED Lifecycle!vars
  <2>1. /\ pc[t] = "clear" /\ \A u \in Tasks \ {t} : pc'[u] = pc[u] /\ pc'[t] = "idle"
        /\ pc'[t] = "idle" /\ failure_count' = 0
        /\ UNCHANGED <<state, opened, half_open_requests, half_open_successes>>
    BY <1>5 DEF ClearFailures, Alone
  <2>2. ~Opening /\ ~Closing /\ ~Opening' /\ ~Closing'
    BY <1>2, <2>1
  <2>3. Probing' <=> Probing
    BY <2>1, <2>2 DEF Probing
  <2>4. Probing => state = "HalfOpen"
    BY DEF Probing
  <2> HIDE DEF Opening, Closing, Probing
  <2>5. CASE state = "Closed"
    BY <2>1, <2>2, <2>3, <2>4, <2>5 DEF Lifecycle!Success
  <2>6. CASE state # "Closed"
    BY <2>1, <2>2, <2>3, <2>4, <2>6 DEF Lifecycle!vars
  <2> QED
    BY <2>5, <2>6
<1>6. ASSUME NEW t \in Tasks, CountSuccess(t)
      PROVE  Lifecycle!Success \/ Lifecycle!BecomeClosed \/ UNCHANGED Lifecycle!vars
  <2>1. /\ pc[t] = "success" /\ \A u \in Tasks \ {t} : pc'[u] = pc[u]
        /\ pc'[t] = IF half_open_successes + 1 >= HalfOpenMax THEN "close" ELSE "idle"
        /\ half_open_successes' = half_open_successes + 1
        /\ UNCHANGED <<state, failure_count, opened, half_open_requests>>
    BY <1>6 DEF CountSuccess
  <2>2. ~Opening /\ ~Closing /\ ~Opening' /\ (Closing' <=> half_open_successes + 1 >= HalfOpenMax)
    BY <1>2, <2>1
  <2>3. /\ Probing <=> state = "HalfOpen"
        /\ Probing' <=> state = "HalfOpen" /\ ~Closing'
    BY <2>1, <2>2 DEF Probing
  <2> HIDE DEF Opening, Closing, Probing
  <2>4. CASE half_open_successes + 1 >= HalfOpenMax
    <3>1. CASE state = "HalfOpen" \/ state = "Open"
      BY <2>1, <2>2, <2>3, <2>4, <3>1 DEF Lifecycle!BecomeClosed
    <3>2. CASE state = "Closed"
      BY <2>1, <2>2, <2>3, <2>4, <3>2 DEF Lifecycle!vars
    <3> QED
      BY <3>1, <3>2 DEF CircuitState
  <2>5. CASE ~(half_open_successes + 1 >= HalfOpenMax)
    <3>1. CASE state = "HalfOpen"
      BY <2>1, <2>2, <2>3, <2>5, <3>1 DEF Lifecycle!Success
    <3>2. CASE state # "HalfOpen"
      BY <2>1, <2>2, <2>3, <2>5, <3>2 DEF Lifecycle!vars
    <3> QED
      BY <3>1, <3>2
  <2> QED
    BY <2>4, <2>5
<1>7. ASSUME NEW t \in Tasks, Close(t) PROVE Lifecycle!BecomeClosed
  <2>1. /\ pc[t] = "close" /\ \A u \in Tasks \ {t} : pc'[u] = pc[u]
        /\ pc'[t] = "idle" /\ state' = "Closed" /\ failure_count' = 0 /\ UNCHANGED opened
    BY <1>7 DEF Close, TripClosed
  <2>2. ~Opening /\ Closing /\ ~Opening' /\ ~Closing'
    BY <1>2, <2>1
  <2>3. ~Probing /\ ~Probing'
    BY <2>1, <2>2 DEF Probing
  <2> HIDE DEF Opening, Closing, Probing
  <2> QED
    BY <2>1, <2>2, <2>3 DEF Lifecycle!BecomeClosed
<1>8. ASSUME NEW t \in Tasks, FailureRead(t) PROVE Lifecycle!Failure \/ UNCHANGED Lifecycle!vars
  <2>1. /\ pc[t] = "err" /\ \A u \in Tasks \ {t} : pc'[u] = pc[u]
        /\ pc'[t] \in {"fail", "open", "idle"} /\ (pc'[t] = "open" <=> state = "HalfOpen")
        /\ UNCHANGED breaker
    BY <1>8 DEF FailureRead, CircuitState
  <2>2. ~Opening /\ ~Closing /\ (Opening' <=> state = "HalfOpen") /\ ~Closing'
    BY <1>2, <2>1
  <2>3. CASE state = "HalfOpen"
    <3>1. ~Probing'
      BY <2>2, <2>3 DEF Probing
    <3> HIDE DEF Opening, Closing, Probing
    <3> QED
      BY <2>1, <2>2, <2>3, <3>1 DEF Lifecycle!Failure, Lifecycle!BecomeOpen, breaker
  <2>4. CASE state # "HalfOpen"
    BY <1>0, <2>1, <2>2, <2>4
  <2> QED
    BY <2>3, <2>4
<1>9. ASSUME NEW t \in Tasks, CountFailure(t) PROVE Lifecycle!Failure
  <2>1. /\ pc[t] = "fail" /\ \A u \in Tasks \ {t} : pc'[u] = pc[u]
        /\ pc'[t] = IF failure_count + 1 >= FailureThreshold THEN "open" ELSE "idle"
        /\ failure_count' = failure_count + 1
        /\ UNCHANGED <<state, opened, half_open_requests, half_open_successes>>
    BY <1>9 DEF CountFailure
  <2>2. ~Opening /\ ~Closing /\ (Opening' <=> failure_count + 1 >= FailureThreshold) /\ ~Closing'
    BY <1>2, <2>1
  <2>3. state = "Closed" /\ state' = "Closed" /\ ~Probing /\ ~Probing'
    BY <2>1 DEF Alone, Probing
  <2> HIDE DEF Opening, Closing, Probing
  <2>4. CASE failure_count + 1 >= FailureThreshold
    BY <2>1, <2>2, <2>3, <2>4 DEF Lifecycle!Failure, Lifecycle!BecomeOpen
  <2>5. CASE ~(failure_count + 1 >= FailureThreshold)
    BY <2>1, <2>2, <2>3, <2>5 DEF Lifecycle!Failure
  <2> QED
    BY <2>4, <2>5
<1>10. ASSUME NEW t \in Tasks, Open(t) PROVE UNCHANGED Lifecycle!vars
  <2>1. /\ pc[t] = "open" /\ \A u \in Tasks \ {t} : pc'[u] = pc[u]
        /\ pc'[t] = "idle" /\ state' = "Open" /\ opened' = 0
    BY <1>10 DEF Open, TripOpen
  <2>2. Opening /\ ~Closing /\ ~Opening' /\ ~Closing'
    BY <1>2, <2>1
  <2>3. ~Probing /\ ~Probing'
    BY <2>1, <2>2 DEF Probing
  <2> HIDE DEF Opening, Closing, Probing
  <2> QED
    BY <2>1, <2>2, <2>3 DEF Lifecycle!vars
<1>11. CASE Reset
  <2>1. /\ state' = "Closed" /\ failure_count' = 0 /\ UNCHANGED <<opened, pc>>
    BY <1>11 DEF Reset, TripClosed
  <2>2. Same /\ ~Probing'
    BY <2>1 DEF Opening, Closing, Probing
  <2>3. Opening => ~Probing
    BY DEF Probing
  <2> HIDE DEF Opening, Closing, Probing
  <2>4. CASE Opening
    BY <2>1, <2>2, <2>3, <2>4 DEF Lifecycle!vars
  <2>5. CASE ~Opening
    BY <2>1, <2>2, <2>5 DEF Lifecycle!Next, Lifecycle!BecomeClosed
  <2> QED
    BY <2>4, <2>5 DEF Lifecycle!Next
<1>12. CASE Tick
  <2>1. UNCHANGED <<state, failure_count, half_open_requests, half_open_successes, pc>>
    BY <1>12 DEF Tick
  <2>2. opened' = IF opened < RecoveryTimeout THEN opened + 1 ELSE opened
    BY <1>12 DEF Tick, AtMost
  <2>3. Same /\ (Probing' <=> Probing)
    BY <2>1 DEF Opening, Closing, Probing
  <2> HIDE DEF Opening, Closing, Probing
  <2>4. CASE ~Opening /\ opened < RecoveryTimeout
    BY <2>1, <2>2, <2>3, <2>4 DEF Lifecycle!Next, Lifecycle!Tick
  <2>5. CASE ~(~Opening /\ opened < RecoveryTimeout)
    BY <2>1, <2>2, <2>3, <2>5 DEF Lifecycle!vars
  <2> QED
    BY <2>4, <2>5
<1> QED
  BY <1>1, <1>3, <1>4, <1>5, <1>6, <1>7, <1>8, <1>9, <1>10, <1>11, <1>12
  DEF Next, Work, Lifecycle!Next

\* As long as requests come one at a time, the breaker's operations, split at every lock and
\* atomic, implement the life cycle of the module comment, with any number of tasks and resets.
THEOREM BreakerImplementsLifecycle == MCFairSpec => ImplementsLifecycle
<1> DEFINE mcVars == <<vars, overlapped>>
<1>1. MCInit => MCInv /\ Lifecycle!Init
  <2> SUFFICES ASSUME MCInit PROVE MCInv /\ Lifecycle!Init
    OBVIOUS
  <2>1. Init
    BY DEF MCInit
  <2>2. TypeOK
    BY <2>1, InitInv DEF IInv
  <2>3. Alone /\ ~Opening /\ ~Closing
    BY <2>1 DEF Init, Alone, Opening, Closing
  <2>4. ~Probing
    BY <2>1 DEF Init, Probing
  <2> HIDE DEF Opening, Closing, Probing
  <2> QED
    BY <2>1, <2>2, <2>3, <2>4 DEF MCInv, Init, Lifecycle!Init
<1>2. MCInv /\ [MCNext]_mcVars => MCInv'
  <2> SUFFICES ASSUME MCInv, [MCNext]_mcVars PROVE MCInv'
    OBVIOUS
  <2>1. TypeOK'
    BY TypeStep DEF MCInv, MCNext, vars
  <2>2. CASE MCNext
    BY <2>1, <2>2, AloneStays DEF MCInv, MCNext
  <2>3. CASE UNCHANGED mcVars
    BY <2>1, <2>3 DEF MCInv, Alone, vars, breaker
  <2> QED
    BY <2>2, <2>3
<1>3. MCInv /\ [MCNext]_mcVars =>
        [~overlapped' => Lifecycle!Next \/ UNCHANGED Lifecycle!vars]_mcVars
  BY StepRefines DEF MCInv, MCNext
<1> QED
  BY <1>1, <1>2, <1>3, PTL DEF MCFairSpec, ImplementsLifecycle

-----------------------------------------------------------------------------
(***************************************************************************)
(* The safety core of HalfOpenDecides: a half-open circuit with no budget   *)
(* left for another request is in the hands of a task that will decide it.  *)
(* The budget that was used is accounted for by the successes counted and   *)
(* the tasks still on their way to an outcome (Accounted), and the success  *)
(* that completes the count sends its task to close it (LastSuccessCloses). *)
(***************************************************************************)

\* Tasks on their way to an outcome of the half-open episode.
Probers == {t \in Tasks : pc[t] \in {"call", "ok", "err", "success", "close", "open"}}

Accounted ==
    state = "HalfOpen" /\ ~dropped => half_open_requests <= half_open_successes + Cardinality(Probers)

LastSuccessCloses ==
    HalfOpenMax > 0 /\ half_open_successes >= HalfOpenMax => \E t \in Tasks : pc[t] = "close"

NotWedged ==
    HalfOpenMax > 0 /\ state = "HalfOpen" /\ half_open_requests = HalfOpenMax /\ ~dropped
        => Probers # {}

DecidedInv == TypeOK /\ IsFiniteSet(Probers) /\ Accounted /\ LastSuccessCloses

LEMMA OneMore ==
  ASSUME NEW S, IsFiniteSet(S), NEW t
  PROVE  /\ IsFiniteSet(S \cup {t}) /\ IsFiniteSet(S \ {t})
         /\ Cardinality(S) \in Nat
         /\ Cardinality(S \cup {t}) = IF t \in S THEN Cardinality(S) ELSE Cardinality(S) + 1
         /\ Cardinality(S \ {t}) = IF t \in S THEN Cardinality(S) - 1 ELSE Cardinality(S)
  BY FS_AddElement, FS_RemoveElement, FS_CardinalityType

\* Only t moves: it joins the tasks on their way to an outcome, leaves them, or neither.
LEMMA ProbersMove ==
  ASSUME TypeOK, IsFiniteSet(Probers), NEW t \in Tasks, NEW step, Goto(t, step)
  PROVE  /\ Probers' = IF step \in {"call", "ok", "err", "success", "close", "open"}
                       THEN Probers \cup {t} ELSE Probers \ {t}
         /\ IsFiniteSet(Probers') /\ Cardinality(Probers) \in Nat /\ Cardinality(Probers') \in Nat
         /\ t \in Probers /\ t \in Probers' => Cardinality(Probers') = Cardinality(Probers)
         /\ t \notin Probers => Cardinality(Probers') >= Cardinality(Probers)
         /\ t \notin Probers /\ t \in Probers' => Cardinality(Probers') = Cardinality(Probers) + 1
         /\ t \in Probers /\ t \notin Probers' => Cardinality(Probers') = Cardinality(Probers) - 1
<1>1. pc' = [pc EXCEPT ![t] = step] /\ pc \in [Tasks -> Step]
  BY DEF Goto, TypeOK
<1>2. \A u \in Tasks : pc'[u] = IF u = t THEN step ELSE pc[u]
  BY <1>1
<1>3. Probers' = IF step \in {"call", "ok", "err", "success", "close", "open"}
                 THEN Probers \cup {t} ELSE Probers \ {t}
  BY <1>2 DEF Probers
<1>4. Probers' = Probers \cup {t} \/ Probers' = Probers \ {t}
  BY <1>3
<1> HIDE DEF Probers
<1>5. /\ IsFiniteSet(Probers \cup {t}) /\ IsFiniteSet(Probers \ {t})
      /\ Cardinality(Probers) \in Nat
      /\ Cardinality(Probers \cup {t}) = IF t \in Probers THEN Cardinality(Probers)
                                         ELSE Cardinality(Probers) + 1
      /\ Cardinality(Probers \ {t}) = IF t \in Probers THEN Cardinality(Probers) - 1
                                      ELSE Cardinality(Probers)
  BY OneMore
<1>6. t \in Probers => Cardinality(Probers) # 0
  BY FS_EmptySet
<1>7. CASE Probers' = Probers \cup {t}
  BY <1>3, <1>5, <1>7
<1>8. CASE Probers' = Probers \ {t}
  BY <1>3, <1>5, <1>6, <1>8
<1> QED
  BY <1>4, <1>7, <1>8

LEMMA DecidedStays == DecidedInv /\ [Next]_vars => DecidedInv'
<1> SUFFICES ASSUME DecidedInv, [Next]_vars
             PROVE  IsFiniteSet(Probers') /\ Accounted' /\ LastSuccessCloses'
  BY TypeStep DEF DecidedInv
<1>0. /\ TypeOK /\ IsFiniteSet(Probers) /\ Accounted /\ LastSuccessCloses
      /\ half_open_requests \in Nat /\ half_open_successes \in Nat /\ HalfOpenMax \in Nat
      /\ half_open_requests <= HalfOpenMax
  BY ConfigAssumption DEF ConfigAssumption, DecidedInv, TypeOK
<1> DEFINE Outcome == {"call", "ok", "err", "success", "close", "open"}
\* Steps that move one task and neither counter.
<1>1. ASSUME NEW t \in Tasks, NEW step \in Step, Goto(t, step),
             UNCHANGED <<half_open_requests, half_open_successes>>, pc[t] # "close",
             state' = "HalfOpen" => state = "HalfOpen",
             dropped => dropped',
             state' = "HalfOpen" /\ ~dropped' /\ pc[t] \in Outcome => step \in Outcome
      PROVE  IsFiniteSet(Probers') /\ Accounted' /\ LastSuccessCloses'
  <2>1. /\ t \in Probers <=> pc[t] \in Outcome
        /\ t \in Probers' <=> step \in Outcome
        /\ \A u \in Tasks : pc[u] = "close" => pc'[u] = "close"
    BY <1>0, <1>1 DEF Goto, TypeOK, Probers
  <2>2. /\ IsFiniteSet(Probers') /\ Cardinality(Probers) \in Nat /\ Cardinality(Probers') \in Nat
        /\ t \in Probers /\ t \in Probers' => Cardinality(Probers') = Cardinality(Probers)
        /\ t \notin Probers => Cardinality(Probers') >= Cardinality(Probers)
    BY <1>0, <1>1, ProbersMove
  <2> HIDE DEF Probers
  <2>3. LastSuccessCloses'
    BY <1>0, <1>1, <2>1 DEF LastSuccessCloses
  <2>4. ASSUME state' = "HalfOpen", ~dropped'
        PROVE  half_open_requests' <= half_open_successes' + Cardinality(Probers')
    <3>1. Cardinality(Probers') >= Cardinality(Probers)
      BY <1>1, <2>1, <2>2, <2>4
    <3>2. half_open_requests <= half_open_successes + Cardinality(Probers)
      BY <1>0, <1>1, <2>4 DEF Accounted
    <3> QED
      BY <1>0, <1>1, <2>2, <3>1, <3>2
  <2> QED
    BY <2>2, <2>3, <2>4 DEF Accounted
<1>2. ASSUME NEW t \in Tasks,
             AllowBegin(t) \/ StateBegin(t) \/ LoadOpenedAt(t) \/ CheckElapsed(t) \/ Dispatch(t)
      PROVE  IsFiniteSet(Probers') /\ Accounted' /\ LastSuccessCloses'
  <2>1. PICK step \in {"idle", "allow.load", "state.load", "allow.check", "state.check",
                       "allow.lock", "state.lock", "allow.dispatch", "allow.admit", "call"} :
          Goto(t, step)
    BY <1>0, <1>2 DEF AllowBegin, StateBegin, Observe, LoadOpenedAt, CheckElapsed, Dispatch, TypeOK,
                      CircuitState
  <2>2. /\ UNCHANGED <<half_open_requests, half_open_successes, state, dropped>>
        /\ pc[t] \notin Outcome /\ step \in Step
    BY <1>2, <2>1 DEF AllowBegin, StateBegin, Observe, LoadOpenedAt, CheckElapsed, Dispatch, breaker,
                      history, Step
  <2> QED
    BY <1>1, <2>1, <2>2
<1>3. ASSUME NEW t \in Tasks, Answer(t) \/ Drop(t) \/ SuccessRead(t) \/ FailureRead(t)
      PROVE  IsFiniteSet(Probers') /\ Accounted' /\ LastSuccessCloses'
  <2>1. PICK step \in {"idle", "ok", "err", "success", "clear", "fail", "open"} :
          /\ Goto(t, step)
          /\ state = "HalfOpen" /\ ~dropped' => step \in Outcome
    BY <1>0, <1>3 DEF Answer, Drop, SuccessRead, FailureRead, TypeOK, CircuitState
  <2>2. /\ UNCHANGED <<half_open_requests, half_open_successes, state>> /\ (dropped => dropped')
        /\ pc[t] \in {"call", "ok", "err"} /\ step \in Step
    BY <1>3, <2>1 DEF Answer, Drop, SuccessRead, FailureRead, breaker, history, Step
  <2> QED
    BY <1>1, <2>1, <2>2
<1>4. ASSUME NEW t \in Tasks, ClearFailures(t) \/ CountFailure(t)
      PROVE  IsFiniteSet(Probers') /\ Accounted' /\ LastSuccessCloses'
  <2>1. PICK step \in {"idle", "open"} : Goto(t, step)
    BY <1>4 DEF ClearFailures, CountFailure
  <2>2. /\ UNCHANGED <<half_open_requests, half_open_successes, state, dropped>>
        /\ pc[t] \in {"clear", "fail"} /\ step \in Step
    BY <1>4, <2>1 DEF ClearFailures, CountFailure, history, Step
  <2> QED
    BY <1>1, <2>1, <2>2
<1>5. ASSUME NEW t \in Tasks, LockHalfOpen(t)
      PROVE  IsFiniteSet(Probers') /\ Accounted' /\ LastSuccessCloses'
  <2>1. PICK step \in {"idle", "allow.dispatch"} : Goto(t, step)
    BY <1>5 DEF LockHalfOpen
  <2>2. pc[t] \in {"allow.lock", "state.lock"} /\ step \in Step /\ UNCHANGED dropped /\ EnterHalfOpen
    BY <1>5, <2>1 DEF LockHalfOpen, Step
  <2>3. CASE state # "Open"
    BY <1>1, <2>1, <2>2, <2>3 DEF EnterHalfOpen, breaker
  <2>4. CASE state = "Open"
    <3>1. half_open_requests' = 0 /\ half_open_successes' = 0
      BY <2>2, <2>4 DEF EnterHalfOpen
    <3>2. IsFiniteSet(Probers') /\ Cardinality(Probers') \in Nat
      BY <1>0, <2>1, ProbersMove
    <3> HIDE DEF Probers
    <3>3. 0 <= 0 + Cardinality(Probers') /\ ~(HalfOpenMax > 0 /\ 0 >= HalfOpenMax)
      BY <1>0, <3>2
    <3> QED
      BY <3>1, <3>2, <3>3 DEF Accounted, LastSuccessCloses
  <2> QED
    BY <2>3, <2>4
<1>6. ASSUME NEW t \in Tasks, Admit(t)
      PROVE  IsFiniteSet(Probers') /\ Accounted' /\ LastSuccessCloses'
  <2>1. /\ pc[t] = "allow.admit" /\ UNCHANGED <<state, half_open_successes, dropped>>
        /\ half_open_requests' = AtMost(half_open_requests + 1, HalfOpenMax)
    BY <1>6 DEF Admit
  <2>2. CASE half_open_requests < HalfOpenMax
    <3>1. Goto(t, "call") /\ half_open_requests' = half_open_requests + 1
      BY <1>0, <1>6, <2>1, <2>2 DEF Admit, AtMost
    <3>2. /\ t \notin Probers /\ t \in Probers'
          /\ \A u \in Tasks : pc[u] = "close" => pc'[u] = "close"
      BY <1>0, <2>1, <3>1 DEF Goto, TypeOK, Probers
    <3>3. /\ IsFiniteSet(Probers') /\ Cardinality(Probers) \in Nat
          /\ Cardinality(Probers') = Cardinality(Probers) + 1
      BY <1>0, <3>1, <3>2, ProbersMove
    <3>4. LastSuccessCloses'
      BY <1>0, <2>1, <3>2 DEF LastSuccessCloses
    <3>5. Accounted'
      BY <1>0, <2>1, <3>1, <3>3 DEF Accounted
    <3> QED
      BY <3>3, <3>4, <3>5
  <2>3. CASE ~(half_open_requests < HalfOpenMax)
    <3>1. Goto(t, "idle") /\ half_open_requests' = half_open_requests
      BY <1>0, <1>6, <2>1, <2>3 DEF Admit, AtMost
    <3> QED
      BY <1>1, <2>1, <3>1 DEF Step
  <2> QED
    BY <2>2, <2>3
<1>7. ASSUME NEW t \in Tasks, CountSuccess(t)
      PROVE  IsFiniteSet(Probers') /\ Accounted' /\ LastSuccessCloses'
  <2>1. /\ pc[t] = "success" /\ UNCHANGED <<state, half_open_requests, dropped>>
        /\ half_open_successes' = half_open_successes + 1
        /\ Goto(t, IF half_open_successes + 1 >= HalfOpenMax THEN "close" ELSE "idle")
    BY <1>7 DEF CountSuccess, history
  <2>2. /\ t \in Probers
        /\ half_open_successes + 1 >= HalfOpenMax => pc'[t] = "close"
    BY <1>0, <2>1 DEF Goto, TypeOK, Probers
  <2>3. /\ IsFiniteSet(Probers') /\ Cardinality(Probers) \in Nat /\ Cardinality(Probers') \in Nat
        /\ Cardinality(Probers') >= Cardinality(Probers) - 1
    BY <1>0, <2>1, <2>2, ProbersMove
  <2>4. LastSuccessCloses'
    BY <2>1, <2>2 DEF LastSuccessCloses
  <2>5. Accounted'
    BY <1>0, <2>1, <2>3 DEF Accounted
  <2> QED
    BY <2>3, <2>4, <2>5
<1>8. ASSUME NEW t \in Tasks, Close(t) \/ Open(t)
      PROVE  IsFiniteSet(Probers') /\ Accounted' /\ LastSuccessCloses'
  <2>1. Goto(t, "idle") /\ state' # "HalfOpen" /\ half_open_successes' = 0
    BY <1>8 DEF Close, Open, TripClosed, TripOpen
  <2>2. IsFiniteSet(Probers') /\ ~(HalfOpenMax > 0 /\ 0 >= HalfOpenMax)
    BY <1>0, <2>1, ProbersMove
  <2> QED
    BY <2>1, <2>2 DEF Accounted, LastSuccessCloses
<1>9. CASE Reset
  <2>1. UNCHANGED pc /\ state' # "HalfOpen" /\ half_open_successes' = 0
    BY <1>9 DEF Reset, TripClosed
  <2>2. Probers' = Probers /\ ~(HalfOpenMax > 0 /\ 0 >= HalfOpenMax)
    BY <1>0, <2>1 DEF Probers
  <2> QED
    BY <1>0, <2>1, <2>2 DEF Accounted, LastSuccessCloses
<1>10. CASE Tick \/ UNCHANGED vars
  <2>1. UNCHANGED <<pc, state, half_open_requests, half_open_successes, dropped>>
    BY <1>10 DEF Tick, vars, breaker, history
  <2>2. Probers' = Probers
    BY <2>1 DEF Probers
  <2> QED
    BY <1>0, <2>1, <2>2 DEF Accounted, LastSuccessCloses
<1> QED
  BY <1>2, <1>3, <1>4, <1>5, <1>6, <1>7, <1>8, <1>9, <1>10 DEF Next, Work

\* A half-open circuit whose budget of half_open_max_requests is used up always has a task that
\* will decide it, unless a request future was dropped: the safety core of HalfOpenDecides.
\* However outcomes, resets and late requests interleave, allow_request never refuses everyone
\* while nobody is on the way to record_success or record_failure.
THEOREM HalfOpenIsInHand == Spec => []NotWedged
<1>1. Init => DecidedInv
  <2> SUFFICES ASSUME Init PROVE DecidedInv
    OBVIOUS
  <2>1. TypeOK /\ HalfOpenMax \in Nat
    BY InitInv, ConfigAssumption DEF IInv, ConfigAssumption
  <2>2. Probers = {} /\ IsFiniteSet({})
    BY FS_EmptySet DEF Init, Probers
  <2>3. Accounted /\ LastSuccessCloses
    BY <2>1 DEF Init, Accounted, LastSuccessCloses
  <2> QED
    BY <2>1, <2>2, <2>3 DEF DecidedInv
<1>2. DecidedInv => NotWedged
  <2> SUFFICES ASSUME DecidedInv, HalfOpenMax > 0, state = "HalfOpen",
                      half_open_requests = HalfOpenMax, ~dropped, Probers = {}
               PROVE  FALSE
    BY DEF NotWedged
  <2>1. HalfOpenMax \in Nat /\ half_open_successes \in Nat /\ Cardinality(Probers) = 0
    BY ConfigAssumption, FS_EmptySet DEF ConfigAssumption, DecidedInv, TypeOK
  <2>2. half_open_successes >= HalfOpenMax
    BY <2>1 DEF DecidedInv, Accounted
  <2>3. PICK t \in Tasks : pc[t] = "close"
    BY <2>2 DEF DecidedInv, LastSuccessCloses
  <2>4. t \in Probers
    BY <2>3 DEF Probers
  <2> QED
    BY <2>4
<1> QED
  BY <1>1, <1>2, DecidedStays, PTL DEF Spec

=============================================================================
