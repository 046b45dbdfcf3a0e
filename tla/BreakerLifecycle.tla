-------------------------- MODULE BreakerLifecycle --------------------------
(***************************************************************************)
(* What a circuit breaker promises: the three-state life cycle of the       *)
(* module comment of src/circuit_breaker.rs, with every operation atomic.   *)
(* A half-open episode needs half_open_max_requests successes to close, as  *)
(* the code has it, not the one success the comment speaks of.              *)
(***************************************************************************)
EXTENDS Naturals

CONSTANTS FailureThreshold, RecoveryTimeout, HalfOpenMax

VARIABLES
    state,      \* "Closed", "Open" or "HalfOpen"
    streak,     \* consecutive failures while closed
    elapsed,    \* time since the circuit opened, up to RecoveryTimeout
    asked,      \* requests let through in this half-open episode
    succeeded   \* successes counted in this half-open episode

vars == <<state, streak, elapsed, asked, succeeded>>

Init ==
    /\ state = "Closed"
    /\ streak = 0 /\ elapsed = RecoveryTimeout /\ asked = 0 /\ succeeded = 0

BecomeOpen ==
    state' = "Open" /\ streak' = 0 /\ elapsed' = 0 /\ asked' = 0 /\ succeeded' = 0

BecomeClosed ==
    state' = "Closed" /\ streak' = 0 /\ asked' = 0 /\ succeeded' = 0 /\ UNCHANGED elapsed

Recover ==
    /\ state = "Open" /\ elapsed = RecoveryTimeout
    /\ state' = "HalfOpen"
    /\ UNCHANGED <<streak, elapsed, asked, succeeded>>

Probe ==
    /\ state = "HalfOpen" /\ asked < HalfOpenMax
    /\ asked' = asked + 1
    /\ UNCHANGED <<state, streak, elapsed, succeeded>>

\* A success matters to a closed circuit (the streak ends) and to a half-open one.
Success ==
    \/ state = "Closed" /\ streak' = 0 /\ UNCHANGED <<state, elapsed, asked, succeeded>>
    \/ /\ state = "HalfOpen" /\ succeeded + 1 < HalfOpenMax
       /\ succeeded' = succeeded + 1 /\ UNCHANGED <<state, streak, elapsed, asked>>
    \/ state = "HalfOpen" /\ succeeded + 1 >= HalfOpenMax /\ BecomeClosed

Failure ==
    \/ /\ state = "Closed" /\ streak + 1 < FailureThreshold
       /\ streak' = streak + 1 /\ UNCHANGED <<state, elapsed, asked, succeeded>>
    \/ state = "Closed" /\ streak + 1 >= FailureThreshold /\ BecomeOpen
    \/ state = "HalfOpen" /\ BecomeOpen

Tick ==
    /\ elapsed < RecoveryTimeout
    /\ elapsed' = elapsed + 1
    /\ UNCHANGED <<state, streak, asked, succeeded>>

Next == Recover \/ Probe \/ Success \/ Failure \/ Tick \/ BecomeClosed

Spec == Init /\ [][Next]_vars

=============================================================================
