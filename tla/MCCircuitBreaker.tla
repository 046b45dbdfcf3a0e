--------------------------- MODULE MCCircuitBreaker ---------------------------
(* Instances of CircuitBreaker for TLC. *)
EXTENDS CircuitBreaker, FiniteSets

VARIABLE overlapped   \* history: two requests were in the breaker at a time

MCInit == Init /\ overlapped = FALSE
MCNext == Next /\ overlapped' = (overlapped \/ Cardinality({t \in Tasks : pc'[t] # "idle"}) > 1)
MCFairSpec == MCInit /\ [][MCNext]_<<vars, overlapped>> /\ Fairness

\* The one task that has decided to open or close the circuit but has not yet
\* taken the write lock counts as having done it.
Opening == \E t \in Tasks : pc[t] = "open"
Closing == \E t \in Tasks : pc[t] = "close"
Probing == state = "HalfOpen" /\ ~Opening /\ ~Closing
Lifecycle == INSTANCE BreakerLifecycle WITH
    state     <- IF Opening THEN "Open" ELSE IF Closing THEN "Closed" ELSE state,
    streak    <- IF state = "Closed" /\ ~Opening THEN failure_count ELSE 0,
    elapsed   <- IF Opening THEN 0 ELSE opened,
    asked     <- IF Probing THEN half_open_requests ELSE 0,
    succeeded <- IF Probing THEN half_open_successes ELSE 0

\* As long as requests come one at a time the breaker, its operations split at
\* every lock and atomic, implements the documented life cycle.
ImplementsLifecycle ==
    /\ Lifecycle!Init
    /\ [][~overlapped' => Lifecycle!Next \/ UNCHANGED Lifecycle!vars]_<<vars, overlapped>>

=============================================================================
