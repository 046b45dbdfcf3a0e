------------------------------ MODULE RouterReload ------------------------------
(***************************************************************************)
(* The router's reloadable state (InnerState in src/bin/router.rs) behind   *)
(* one RwLock: requests hold it for reading from their rate-limit check to   *)
(* the end of their execution, the config watcher takes it for writing to    *)
(* put a new configuration in place, and a cleanup task reads it.  The rate  *)
(* limiters (DdosProtection in src/router/mod.rs) are part of that state.    *)
(* tokio's RwLock is fair: once the watcher waits, new readers wait, too.     *)
(***************************************************************************)
EXTENDS Naturals, Sequences

CONSTANTS
    MaxRequests,   \* bound: requests, all from one address
    Burst, Rps,    \* per_ip_burst, per_ip_rps: a limiter regains a cell every 1/Rps seconds
    MaxAge,        \* max_age_secs of the cleanup
    MaxEdits,      \* bound: edits of the configuration file
    MaxTicks       \* bound: ticks of the clock, each 1/Rps seconds

Callers == 1..MaxRequests

ASSUME ReloadAssumption ==
    /\ {MaxRequests, MaxEdits, MaxTicks} \subseteq Nat
    /\ {Burst, Rps, MaxAge} \subseteq Nat \ {0}

VARIABLES
    file,       \* the file: version, and whether it is a valid configuration
    changed,    \* the watcher's channel has an event
    watcher,    \* the watcher task: where it is, and the version it has loaded
    serving,    \* version of the configuration in place
    caller,     \* requests: where they are, and the limiter they hold
    limiters,   \* every limiter made: cells left and age, in seconds since last seen
    current,    \* ip_limiters: the address's limiter, 0 when absent
    ticks,      \* the clock
    beat,       \* ticks into the second, by which limiters are stamped
    window,     \* history: a window of at most a second, opened at any tick: its ticks so far
    granted,    \* history: requests admitted in it under this configuration
    strays      \* history: those of them admitted on a limiter nobody has touched in time

reloadVars == <<file, changed, watcher, serving, caller, limiters, current, ticks, beat, window,
                granted, strays>>
time == <<ticks, beat>>
rateLimits == <<limiters, current, window, granted, strays>>

ReloadInit ==
    /\ file = [version |-> 0, valid |-> TRUE]
    /\ changed = FALSE
    /\ watcher = [at |-> "idle", version |-> 0]
    /\ serving = 0
    /\ caller = [r \in Callers |-> [at |-> "new", limiter |-> 0]]
    /\ limiters = <<>> /\ current = 0
    /\ ticks = 0 /\ beat = 0 /\ window = 0 /\ granted = 0 /\ strays = 0

-----------------------------------------------------------------------------
\* An administrator writes the file; the watcher thread passes the event on.
Edit ==
    /\ file.version < MaxEdits
    /\ \E ok \in BOOLEAN : file' = [version |-> file.version + 1, valid |-> ok]
    /\ changed' = TRUE
    /\ UNCHANGED <<watcher, serving, caller, time, rateLimits>>

\* rx.recv(), and the debounce sleep starts.
Wake ==
    /\ watcher.at = "idle" /\ changed
    /\ changed' = FALSE
    /\ watcher' = [watcher EXCEPT !.at = "debounce"]
    /\ UNCHANGED <<file, serving, caller, time, rateLimits>>

\* The sleep is over, and the events that came meanwhile are drained.
Drain ==
    /\ watcher.at = "debounce"
    /\ changed' = FALSE
    /\ watcher' = [watcher EXCEPT !.at = "load"]
    /\ UNCHANGED <<file, serving, caller, time, rateLimits>>

\* load_inner_state: an invalid file keeps the configuration.  (reload_in_flight
\* and reload_lock are held from here to the end; nobody else takes them.)
Load ==
    /\ watcher.at = "load"
    /\ watcher' = IF file.valid THEN [at |-> "write", version |-> file.version]
                  ELSE [watcher EXCEPT !.at = "idle"]
    /\ UNCHANGED <<file, changed, serving, caller, time, rateLimits>>

Reading == {r \in Callers : caller[r].at \notin {"new", "waiting", "done"}}

\* Mutant of Swap: the events that came meanwhile are drained once more.
SwapDrains ==
    /\ watcher.at = "write" /\ Reading = {}
    /\ serving' = watcher.version
    /\ watcher' = [watcher EXCEPT !.at = "idle"]
    /\ changed' = FALSE
    /\ current' = 0 /\ window' = 0 /\ granted' = 0 /\ strays' = 0
    /\ UNCHANGED <<file, caller, limiters, time>>

\* inner.write(): granted when every reader has left.  The new state has a
\* DdosProtection of its own.
Swap ==
    /\ watcher.at = "write" /\ Reading = {}
    /\ serving' = watcher.version
    /\ watcher' = [watcher EXCEPT !.at = "idle"]
    /\ current' = 0 /\ window' = 0 /\ granted' = 0 /\ strays' = 0
    /\ UNCHANGED <<file, changed, caller, limiters, time>>

-----------------------------------------------------------------------------
CallerAt(r, where) == caller' = [caller EXCEPT ![r].at = where]

\* inner.read(): a caller that finds the watcher waiting queues behind it.
Enter(r) ==
    /\ \/ caller[r].at = "new"
          /\ CallerAt(r, IF watcher.at = "write" THEN "waiting" ELSE "global")
       \/ caller[r].at = "waiting" /\ watcher.at # "write" /\ CallerAt(r, "global")
    /\ UNCHANGED <<file, changed, watcher, serving, time, rateLimits>>

\* DdosProtection::check: a rate of 0 or the limit of all clients together refuses;
\* then the address's limiter is looked up.
GlobalLimit(r) ==
    /\ caller[r].at = "global"
    /\ \E where \in {"lookup", "done"} : CallerAt(r, where)
    /\ UNCHANGED <<file, changed, watcher, serving, time, rateLimits>>

LookUp(r) ==
    /\ caller[r].at = "lookup"
    /\ caller' = [caller EXCEPT ![r] = [at |-> IF current = 0 THEN "create" ELSE "touch",
                                        limiter |-> current]]
    /\ UNCHANGED <<file, changed, watcher, serving, time, rateLimits>>

Touch(r) ==
    /\ caller[r].at = "touch"
    /\ limiters' = [limiters EXCEPT ![caller[r].limiter].age = 0]
    /\ CallerAt(r, "spend")
    /\ UNCHANGED <<file, changed, watcher, serving, time, current, window, granted,
                   strays>>

\* Mutant of Create: no second look under the write lock.
CreateUnchecked(r) ==
    /\ caller[r].at = "create"
    /\ limiters' = Append(limiters, [cells |-> Burst, age |-> 0])
    /\ current' = Len(limiters')
    /\ caller' = [caller EXCEPT ![r] = [at |-> "spend", limiter |-> current']]
    /\ UNCHANGED <<file, changed, watcher, serving, time, window, granted, strays>>

\* Under the write lock: a limiter that was inserted meanwhile is used, not touched.
Create(r) ==
    /\ caller[r].at = "create"
    /\ limiters' = IF current # 0 THEN limiters
                   ELSE Append(limiters, [cells |-> Burst, age |-> 0])
    /\ current' = IF current # 0 THEN current ELSE Len(limiters')
    /\ caller' = [caller EXCEPT ![r] = [at |-> "spend", limiter |-> current']]
    /\ UNCHANGED <<file, changed, watcher, serving, time, window, granted, strays>>

\* A limiter that is not the address's any more, or may be cleaned up within a second.
Fading(l) == l # current \/ limiters[l].age + 1 >= MaxAge

\* limiter.check(): the request is admitted if a cell is left.
Spend(r) ==
    LET l == caller[r].limiter IN
    /\ caller[r].at = "spend"
    /\ IF limiters[l].cells = 0 THEN CallerAt(r, "done") /\ UNCHANGED rateLimits
       ELSE /\ limiters' = [limiters EXCEPT ![l].cells = @ - 1]
            /\ granted' = granted + 1
            /\ strays' = IF Fading(l) THEN strays + 1 ELSE strays
            /\ \E where \in {"execute", "done"} : CallerAt(r, where)
            /\ UNCHANGED <<current, window>>
    /\ UNCHANGED <<file, changed, watcher, serving, time>>

\* Execution, and for a query over a WebSocket the sends to its client; the read
\* guard is dropped.
Finish(r) ==
    /\ caller[r].at = "execute"
    /\ CallerAt(r, "done")
    /\ UNCHANGED <<file, changed, watcher, serving, time, rateLimits>>

\* cleanup_stale_limiters, under inner.read() and the write lock of ip_limiters.
Cleanup ==
    /\ watcher.at # "write"
    /\ current # 0 /\ limiters[current].age >= MaxAge
    /\ current' = 0
    /\ UNCHANGED <<file, changed, watcher, serving, caller, time, limiters, window, granted, strays>>

\* 1/rps seconds pass, and every limiter that is not full regains one cell (the quota
\* per_second(rps).allow_burst(burst)).  The ages are of whole seconds.  The window goes on,
\* if it is not a second long yet, or another is opened.
Tick ==
    /\ ticks < MaxTicks
    /\ ticks' = ticks + 1
    /\ beat' = IF beat + 1 = Rps THEN 0 ELSE beat + 1
    /\ limiters' = [l \in DOMAIN limiters |->
          [cells |-> IF limiters[l].cells < Burst THEN limiters[l].cells + 1 ELSE Burst,
           age |-> IF beat' = 0 /\ limiters[l].age < MaxAge THEN limiters[l].age + 1
                   ELSE limiters[l].age]]
    /\ \/ window < Rps /\ window' = window + 1 /\ UNCHANGED <<granted, strays>>
       \/ window' = 0 /\ granted' = 0 /\ strays' = 0
    /\ UNCHANGED <<file, changed, watcher, serving, caller, current>>

-----------------------------------------------------------------------------
\* Requests under way are served, and the watcher runs.
ReloadTasks ==
    \/ Wake \/ Drain \/ Load \/ Swap
    \/ \E r \in Callers : GlobalLimit(r) \/ LookUp(r) \/ Touch(r) \/ Create(r) \/ Spend(r)
                          \/ Finish(r)

ReloadNext ==
    \/ Edit \/ Cleanup \/ Tick
    \/ \E r \in Callers : Enter(r)
    \/ ReloadTasks

ReloadTypeOK ==
    /\ file.version \in 0..MaxEdits /\ serving \in 0..MaxEdits
    /\ watcher.at \in {"idle", "debounce", "load", "write"}
    /\ current \in 0..Len(limiters)
    /\ \A l \in DOMAIN limiters : limiters[l].cells \in 0..Burst /\ limiters[l].age \in 0..MaxAge
    /\ \A r \in Callers : caller[r].limiter \in 0..Len(limiters)

\* Edits come while the watcher sleeps, loads, and waits for the requests under way;
\* again and again, so also after the last edit, what a valid file says is in place.
ReloadsConverge == []<>(file.valid => serving = file.version)

\* Limiters are looked up, created and cleaned up under different locks, yet an address has
\* only one bucket to draw on: in any time of at most a second it is admitted no more than
\* its burst and one request for each 1/rps seconds that passed, but for requests that hold a
\* limiter which was, or may be, cleaned up under them.
BurstKept == granted <= Burst + window + strays

=============================================================================
