------------------------------- MODULE Shutdown -------------------------------
(***************************************************************************)
(* Graceful shutdown (src/shutdown.rs): run_with_graceful_shutdown spawns a *)
(* task that waits for SIGTERM or SIGINT and then calls shutdown(), which    *)
(* tells the server through a broadcast channel; the server's own task       *)
(* returns from axum::serve and calls shutdown() again.                      *)
(***************************************************************************)
EXTENDS Naturals, FiniteSets

CONSTANTS
    Connections,   \* connections that may be open at a time
    MaxSignals     \* bound: signals sent to the process

ASSUME ShutdownAssumption == MaxSignals \in Nat

Stoppers == {"signal", "main"}

VARIABLES
    stopper,       \* the two tasks: where they are
    initiated,     \* is_shutting_down
    phase,         \* ShutdownState
    notice,        \* the server's receiver: none yet, empty, or with the message
    open,          \* connections being served
    guarded,       \* handlers hold a RequestGuard: the gateway's do not, those of
                   \* an application that runs its server in the same way may
    deadline,      \* config.timeout has passed since the drain began
    signals        \* signals sent

shutdownVars == <<stopper, initiated, phase, notice, open, guarded, deadline, signals>>

ShutdownInit ==
    /\ stopper = [p \in Stoppers |-> IF p = "signal" THEN "spawned" ELSE "starting"]
    /\ initiated = FALSE /\ phase = "Running"
    /\ notice = "none"
    /\ open = {} /\ guarded \in BOOLEAN
    /\ deadline = FALSE /\ signals = 0

Alive == stopper["main"] \notin {"returned", "killed"}
At(p, where) == Alive /\ stopper[p] = where
Goes(p, where) == stopper' = [stopper EXCEPT ![p] = where]
active_count == IF guarded THEN Cardinality(open) ELSE 0

-----------------------------------------------------------------------------
\* signal(): before the handlers are installed a signal kills the process, later
\* ones only wake the task.
Install == /\ At("signal", "spawned") /\ Goes("signal", "waiting")
           /\ UNCHANGED <<initiated, phase, notice, open, guarded, deadline, signals>>

Signal ==
    /\ Alive /\ signals < MaxSignals
    /\ signals' = signals + 1
    /\ stopper' = IF stopper["signal"] = "spawned" THEN [stopper EXCEPT !["main"] = "killed"]
                  ELSE IF stopper["signal"] = "waiting"
                  THEN [stopper EXCEPT !["signal"] = "initiate"]
                  ELSE stopper
    /\ UNCHANGED <<initiated, phase, notice, open, guarded, deadline>>

\* shutdown_signal() subscribes when it is called; axum polls it later.
Serve ==
    /\ At("main", "starting") /\ Goes("main", "serving")
    /\ notice' = "empty"
    /\ UNCHANGED <<initiated, phase, open, guarded, deadline, signals>>

Listen == /\ At("main", "serving") /\ Goes("main", "listening")
          /\ UNCHANGED <<initiated, phase, notice, open, guarded, deadline, signals>>

Accept(c) ==
    /\ Alive /\ stopper["main"] \in {"serving", "listening"}
    /\ c \notin open /\ open' = open \cup {c}
    /\ UNCHANGED <<stopper, initiated, phase, notice, guarded, deadline, signals>>

Close(c) ==
    /\ Alive /\ c \in open /\ open' = open \ {c}
    /\ UNCHANGED <<stopper, initiated, phase, notice, guarded, deadline, signals>>

\* The message is there: no connection is accepted any more ...
Hear == /\ At("main", "listening") /\ notice = "message" /\ Goes("main", "closing")
        /\ UNCHANGED <<initiated, phase, notice, open, guarded, deadline, signals>>

\* ... and axum::serve returns when the open ones are closed, however long it takes.
Drained == /\ At("main", "closing") /\ open = {} /\ Goes("main", "initiate")
           /\ UNCHANGED <<initiated, phase, notice, open, guarded, deadline, signals>>

-----------------------------------------------------------------------------
\* ShutdownCoordinator::shutdown: the second caller returns at once.
Initiate(p) ==
    /\ At(p, "initiate")
    /\ initiated' = TRUE
    /\ Goes(p, IF initiated THEN "returned" ELSE "announce")
    /\ UNCHANGED <<phase, notice, open, guarded, deadline, signals>>

Announce(p) ==
    /\ At(p, "announce") /\ Goes(p, "notify")
    /\ phase' = "Draining"
    /\ UNCHANGED <<initiated, notice, open, guarded, deadline, signals>>

\* Mutant of Notify: only a receiver that is being polled gets the message.
NotifyWaiters(p) ==
    /\ At(p, "notify") /\ Goes(p, "poll")
    /\ notice' = IF stopper["main"] = "listening" THEN "message" ELSE notice
    /\ UNCHANGED <<initiated, phase, open, guarded, deadline, signals>>

\* broadcast: every receiver there is keeps the message; without one it is lost.
Notify(p) ==
    /\ At(p, "notify") /\ Goes(p, "poll")
    /\ notice' = IF notice = "none" THEN "none" ELSE "message"
    /\ UNCHANGED <<initiated, phase, open, guarded, deadline, signals>>

\* The loop: until no request is active, or the timeout.
Poll(p) ==
    /\ At(p, "poll") /\ (active_count = 0 \/ deadline)
    /\ Goes(p, "force")
    /\ UNCHANGED <<initiated, phase, notice, open, guarded, deadline, signals>>

Deadline ==
    /\ \E p \in Stoppers : At(p, "poll")
    /\ ~deadline /\ deadline' = TRUE
    /\ UNCHANGED <<stopper, initiated, phase, notice, open, guarded, signals>>

\* force_shutdown_delay, if requests are still active, and the state is final.
ForceStop(p) ==
    /\ \/ At(p, "force") /\ active_count > 0 /\ Goes(p, "delay") /\ UNCHANGED phase
       \/ /\ At(p, "delay") \/ (At(p, "force") /\ active_count = 0)
          /\ Goes(p, "returned") /\ phase' = "Shutdown"
    /\ UNCHANGED <<initiated, notice, open, guarded, deadline, signals>>

-----------------------------------------------------------------------------
\* What runs by itself; signals come and clients close connections as they please.
ShutdownTasks ==
    \/ Install \/ Serve \/ Listen \/ Hear \/ Drained \/ Deadline
    \/ \E p \in Stoppers : Initiate(p) \/ Announce(p) \/ Notify(p) \/ Poll(p) \/ ForceStop(p)

ShutdownNext ==
    \/ Signal
    \/ \E c \in Connections : Accept(c) \/ Close(c)
    \/ ShutdownTasks

ShutdownTypeOK ==
    /\ stopper["signal"] \in {"spawned", "waiting", "initiate", "announce", "notify", "poll",
                              "force", "delay", "returned"}
    /\ stopper["main"] \in {"starting", "serving", "listening", "closing", "initiate", "returned",
                            "killed"}
    /\ phase \in {"Running", "Draining", "Shutdown"}
    /\ notice \in {"none", "empty", "message"}
    /\ signals \in 0..MaxSignals

\* A signal that finds the server serving stops it, whether or not it waits for the
\* message yet, unless a connection is never closed: neither the timeout nor a
\* second signal ends that wait.
ServerStops ==
    stopper["signal"] = "initiate" /\ stopper["main"] \in {"serving", "listening"}
        ~> (stopper["main"] = "returned" \/ [](open # {}))

=============================================================================
