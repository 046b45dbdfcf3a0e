--------------------------- MODULE CircuitBreaker ---------------------------
(***************************************************************************)
(* One circuit breaker shared by concurrent request tasks                   *)
(* (src/circuit_breaker.rs), driven the way the router drives it            *)
(* (src/router/mod.rs): ask allow_request, await the subgraph call, record  *)
(* the outcome.                                                             *)
(*                                                                          *)
(* The breaker's enum sits behind a RwLock and its four counters are        *)
(* atomics beside it, so an operation reads the state, drops the lock and   *)
(* acts on what it read.  Each lock-protected section and each atomic       *)
(* read-modify-write is one action; between two of them any other task may  *)
(* run.  Time is kept as ages: the code only ever asks whether               *)
(* now - opened_at >= recovery_timeout, so an age stops growing there.      *)
(***************************************************************************)
EXTENDS Naturals, FiniteSets

CONSTANTS
    Tasks,              \* the request tasks that share the breaker
    FailureThreshold,   \* CircuitBreakerConfig::failure_threshold
    RecoveryTimeout,    \* CircuitBreakerConfig::recovery_timeout, in ticks
    HalfOpenMax         \* CircuitBreakerConfig::half_open_max_requests

ASSUME ConfigAssumption ==
    /\ FailureThreshold \in Nat
    /\ RecoveryTimeout \in Nat
    /\ HalfOpenMax \in Nat

VARIABLES
    state,               \* RwLock<CircuitState>
    failure_count,       \* AtomicU32
    opened,              \* age of opened_at, saturated at RecoveryTimeout
    half_open_requests,  \* AtomicU32, saturated at HalfOpenMax
    half_open_successes, \* AtomicU32
    pc,                  \* where each task stands
    seen,                \* age of the opened_at value a task has loaded
    failures,            \* history: failures counted since the circuit was last closed
    stale,               \* history: tasks that had decided to open it before that
    probes,              \* history: requests admitted in this half-open episode
    dropped              \* history: a request future was dropped during its call

breaker == <<state, failure_count, opened, half_open_requests, half_open_successes>>
history == <<failures, stale, probes, dropped>>
vars == <<breaker, pc, seen, history>>

CircuitState == {"Closed", "Open", "HalfOpen"}

\* "idle" no operation; "state.*" state(), "allow.*" allow_request(); "call"
\* awaiting the subgraph; "ok"/"err" about to read the state in record_success
\* or record_failure; the rest: acting on the state that was read.
Step == {"idle",
         "allow.load", "allow.check", "allow.lock", "allow.dispatch", "allow.admit",
         "state.load", "state.check", "state.lock",
         "call", "ok", "err", "clear", "success", "close", "fail", "open"}

AtMost(n, cap) == IF n < cap THEN n ELSE cap

Goto(t, step) == pc' = [pc EXCEPT ![t] = step]

-----------------------------------------------------------------------------
Init ==
    /\ state = "Closed"
    /\ failure_count = 0
    /\ opened = RecoveryTimeout      \* opened_at is 0, the UNIX epoch
    /\ half_open_requests = 0
    /\ half_open_successes = 0
    /\ pc = [t \in Tasks |-> "idle"]
    /\ seen = [t \in Tasks |-> RecoveryTimeout]
    /\ failures = 0 /\ stale = {}
    /\ probes = 0
    /\ dropped = FALSE

\* open(): one section under the write lock.
TripOpen ==
    /\ state' = "Open"
    /\ opened' = 0
    /\ half_open_requests' = 0
    /\ half_open_successes' = 0
    /\ UNCHANGED <<failure_count, probes>>

\* Mutant of TripClosed: the old failures still count after the recovery.
TripClosedKeepsFailures ==
    /\ state' = "Closed"
    /\ half_open_requests' = 0
    /\ half_open_successes' = 0
    /\ failures' = 0 /\ stale' = {t \in Tasks : pc[t] = "open"}
    /\ UNCHANGED <<failure_count, opened, probes>>

\* close(): one section under the write lock.
TripClosed ==
    /\ state' = "Closed"
    /\ failure_count' = 0
    /\ half_open_requests' = 0
    /\ half_open_successes' = 0
    /\ failures' = 0 /\ stale' = {t \in Tasks : pc[t] = "open"}
    /\ UNCHANGED <<opened, probes>>

\* Mutant of EnterHalfOpen: no recheck once the write lock is held.
EnterHalfOpenUnchecked ==
    /\ state' = "HalfOpen"
    /\ half_open_requests' = 0
    /\ half_open_successes' = 0
    /\ probes' = IF state = "HalfOpen" THEN probes ELSE 0
    /\ UNCHANGED <<failure_count, opened>>

\* The write-locked section of maybe_transition_to_half_open, with its recheck.
EnterHalfOpen ==
    IF state = "Open"
    THEN /\ state' = "HalfOpen"
         /\ half_open_requests' = 0
         /\ half_open_successes' = 0
         /\ probes' = 0
         /\ UNCHANGED <<failure_count, opened>>
    ELSE UNCHANGED <<breaker, probes>>

\* The common opening of state() and allow_request(): read the state, and load
\* opened_at only if the circuit is open.
Observe(t, load, otherwise) ==
    /\ pc[t] = "idle"
    /\ Goto(t, IF state = "Open" THEN load ELSE otherwise)
    /\ UNCHANGED <<breaker, seen, history>>

\* Mutant of AllowBegin: only state() looks whether the timeout has passed.
AllowBeginNoRecovery(t) == Observe(t, "allow.dispatch", "allow.dispatch")

AllowBegin(t) == Observe(t, "allow.load", "allow.dispatch")
StateBegin(t) == Observe(t, "state.load", "idle")

LoadOpenedAt(t) ==
    /\ \/ pc[t] = "allow.load" /\ Goto(t, "allow.check")
       \/ pc[t] = "state.load" /\ Goto(t, "state.check")
    /\ seen' = [seen EXCEPT ![t] = opened]
    /\ UNCHANGED <<breaker, history>>

\* elapsed >= recovery_timeout, on the loaded value.
CheckElapsed(t) ==
    LET due == seen[t] >= RecoveryTimeout
    IN  /\ \/ pc[t] = "allow.check" /\ Goto(t, IF due THEN "allow.lock" ELSE "allow.dispatch")
           \/ pc[t] = "state.check" /\ Goto(t, IF due THEN "state.lock" ELSE "idle")
        /\ UNCHANGED <<breaker, seen, history>>

LockHalfOpen(t) ==
    /\ \/ pc[t] = "allow.lock" /\ Goto(t, "allow.dispatch")
       \/ pc[t] = "state.lock" /\ Goto(t, "idle")
    /\ EnterHalfOpen
    /\ UNCHANGED <<seen, failures, stale, dropped>>

\* The second read of the state in allow_request: Open refuses the request.
Dispatch(t) ==
    /\ pc[t] = "allow.dispatch"
    /\ Goto(t, CASE state = "Closed"   -> "call"
                 [] state = "Open"     -> "idle"
                 [] state = "HalfOpen" -> "allow.admit")
    /\ UNCHANGED <<breaker, seen, history>>

\* half_open_requests.fetch_add(1) and the comparison with its old value.
Admit(t) ==
    /\ pc[t] = "allow.admit"
    /\ half_open_requests' = AtMost(half_open_requests + 1, HalfOpenMax)
    /\ IF half_open_requests < HalfOpenMax
       THEN /\ Goto(t, "call")
            /\ probes' = IF state = "HalfOpen" THEN probes + 1 ELSE probes
       ELSE Goto(t, "idle") /\ UNCHANGED probes
    /\ UNCHANGED <<state, failure_count, opened, half_open_successes, seen, failures, stale,
                   dropped>>

\* The subgraph call returns, either way.
Answer(t) ==
    /\ pc[t] = "call"
    /\ \E outcome \in {"ok", "err"} : Goto(t, outcome)
    /\ UNCHANGED <<breaker, seen, history>>

\* The request future is dropped at its await point: nothing is recorded.
Drop(t) ==
    /\ pc[t] = "call"
    /\ Goto(t, "idle")
    /\ dropped' = TRUE
    /\ UNCHANGED <<breaker, seen, failures, stale, probes>>

-----------------------------------------------------------------------------
\* record_success(): the read that chooses the branch.
SuccessRead(t) ==
    /\ pc[t] = "ok"
    /\ Goto(t, IF state = "HalfOpen" THEN "success" ELSE "clear")
    /\ UNCHANGED <<breaker, seen, history>>

ClearFailures(t) ==
    /\ pc[t] = "clear"
    /\ failure_count' = 0
    /\ Goto(t, "idle")
    /\ UNCHANGED <<state, opened, half_open_requests, half_open_successes, seen, history>>

CountSuccess(t) ==
    /\ pc[t] = "success"
    /\ half_open_successes' = half_open_successes + 1
    /\ Goto(t, IF half_open_successes + 1 >= HalfOpenMax THEN "close" ELSE "idle")
    /\ UNCHANGED <<state, failure_count, opened, half_open_requests, seen, history>>

Close(t) ==
    /\ pc[t] = "close"
    /\ TripClosed
    /\ Goto(t, "idle")
    /\ UNCHANGED <<seen, dropped>>

\* Mutant of FailureRead: a failed probe leaves the episode undecided.
FailureReadIgnoresProbe(t) ==
    /\ pc[t] = "err"
    /\ Goto(t, IF state = "Closed" THEN "fail" ELSE "idle")
    /\ UNCHANGED <<breaker, seen, history>>

\* record_failure(): the read that chooses the branch.
FailureRead(t) ==
    /\ pc[t] = "err"
    /\ Goto(t, CASE state = "Closed"   -> "fail"
                 [] state = "HalfOpen" -> "open"
                 [] state = "Open"     -> "idle")
    /\ UNCHANGED <<breaker, seen, history>>

\* Mutant of CountFailure: off by one, the threshold is compared too early.
CountFailureEarly(t) ==
    /\ pc[t] = "fail"
    /\ failure_count' = failure_count + 1
    /\ failures' = AtMost(failures + 1, FailureThreshold)
    /\ Goto(t, IF failure_count + 2 >= FailureThreshold THEN "open" ELSE "idle")
    /\ UNCHANGED <<state, opened, half_open_requests, half_open_successes, seen, stale, probes,
                   dropped>>

CountFailure(t) ==
    /\ pc[t] = "fail"
    /\ failure_count' = failure_count + 1
    /\ failures' = AtMost(failures + 1, FailureThreshold)
    /\ Goto(t, IF failure_count + 1 >= FailureThreshold THEN "open" ELSE "idle")
    /\ UNCHANGED <<state, opened, half_open_requests, half_open_successes, seen, stale, probes,
                   dropped>>

Open(t) ==
    /\ pc[t] = "open"
    /\ TripOpen
    /\ Goto(t, "idle")
    /\ stale' = stale \ {t}
    /\ UNCHANGED <<seen, failures, dropped>>

\* reset(): an operator forces the circuit closed.
Reset ==
    /\ TripClosed
    /\ UNCHANGED <<pc, seen, dropped>>

\* The clock advances; every remembered opened_at grows older.
Tick ==
    /\ opened' = AtMost(opened + 1, RecoveryTimeout)
    /\ seen' = [t \in Tasks |-> AtMost(seen[t] + 1, RecoveryTimeout)]
    /\ UNCHANGED <<state, failure_count, half_open_requests, half_open_successes, pc, history>>

\* What a task does once it has started, the call included.
Work(t) ==
    \/ LoadOpenedAt(t) \/ CheckElapsed(t) \/ LockHalfOpen(t) \/ Dispatch(t) \/ Admit(t)
    \/ Answer(t)
    \/ SuccessRead(t) \/ ClearFailures(t) \/ CountSuccess(t) \/ Close(t)
    \/ FailureRead(t) \/ CountFailure(t) \/ Open(t)

Next ==
    \/ \E t \in Tasks : AllowBegin(t) \/ StateBegin(t) \/ Work(t) \/ Drop(t)
    \/ Reset
    \/ Tick

Spec == Init /\ [][Next]_vars

\* Time passes, tasks that run go on running (the executor polls every ready
\* future and the client call carries a timeout), and requests keep arriving.
Fairness ==
    /\ WF_vars(Tick)
    /\ \A t \in Tasks : WF_vars(Work(t)) /\ WF_vars(AllowBegin(t))

FairSpec == Spec /\ Fairness

-----------------------------------------------------------------------------
TypeOK ==
    /\ state \in CircuitState
    /\ failure_count \in Nat
    /\ opened \in 0..RecoveryTimeout
    /\ half_open_requests \in 0..HalfOpenMax
    /\ half_open_successes \in Nat
    /\ pc \in [Tasks -> Step]
    /\ seen \in [Tasks -> 0..RecoveryTimeout]
    /\ failures \in 0..FailureThreshold
    /\ stale \subseteq Tasks
    /\ probes \in Nat
    /\ dropped \in BOOLEAN

\* However late outcomes arrive, no task is about to open the closed circuit before
\* failure_threshold failures were counted since it was closed, unless the task
\* had decided to open it before that.
NoEarlyTrip ==
    \A t \in Tasks \ stale :
        state = "Closed" /\ pc[t] = "open" => failures = FailureThreshold

\* One half-open episode lets at most half_open_max_requests requests through to
\* the recovering subgraph, although the state is read, released and acted on.
ProbeBudget == probes <= HalfOpenMax

\* The recheck under the write lock: nothing takes a closed circuit to half-open.
NoProbingOfClosed == [][state = "Closed" => state' # "HalfOpen"]_vars

\* As long as requests keep coming an open circuit is eventually tried again.
OpenIsTried == []<>(state # "Open")

\* A half-open episode is decided one way or the other, unless a request future
\* is dropped while its call is outstanding.
HalfOpenDecides == (state = "HalfOpen") ~> (state # "HalfOpen" \/ dropped)

\* "Maximum requests allowed in Half-Open state before deciding": the same with
\* no exception.  A probe that is dropped is never recorded and never returned.
HalfOpenAlwaysDecides == (state = "HalfOpen") ~> (state # "HalfOpen")

=============================================================================
