------------------------------ MODULE LiveSocket ------------------------------
(***************************************************************************)
(* One live-query WebSocket connection (handle_live_socket in               *)
(* src/runtime.rs) fed by the process-wide invalidation channel of          *)
(* src/live_query.rs.  Three tasks share the connection: the main loop       *)
(* (`main`) handles the client's messages one at a time, the invalidation    *)
(* task (`pusher`) re-executes the subscriptions an event matches, and the   *)
(* forward task drains the bounded channel both of them send to.             *)
(*                                                                          *)
(* Data are the committed writes, numbered; a result is the number of the    *)
(* last write it shows.  Publishing an event is up to the application, after *)
(* its commit.  Live queries bypass the response cache.                      *)
(***************************************************************************)
EXTENDS Naturals, Sequences, FiniteSets

CONSTANTS
    Subs,               \* subscription ids the client uses
    Topics,             \* "Type.action" events
    Watches,            \* the topics each subscription reads and is triggered by
    MaxSubscriptions,   \* MAX_SUBSCRIPTIONS_PER_CONNECTION
    Buffer,             \* capacity of the broadcast channel
    OutCapacity,        \* capacity of the mpsc channel to the forward task
    MaxWrites,          \* bound: writes committed
    MaxMessages         \* bound: messages from the client

ASSUME LiveAssumption ==
    /\ Watches \in [Subs -> SUBSET Topics]
    /\ {MaxSubscriptions, Buffer, OutCapacity} \subseteq Nat \ {0}
    /\ MaxWrites \in Nat /\ MaxMessages \in Nat

VARIABLES
    writes,      \* the topic of each committed write
    events,      \* the writes whose event was published, in channel order
    taken,       \* how far this connection's receiver has come in events
    initialized, \* connection_initialized
    active,      \* active_subscriptions
    main,        \* the main loop: where it is, and the request it handles
    pusher,      \* the invalidation task: where it is, and its matching_subs
    out,         \* the channel to the forward task
    forwarding,  \* the forward task runs
    connected,   \* the client is there
    sent,        \* messages the client has sent
    shown,       \* the last result the client got, by id
    used, reused,\* history: ids subscribed, subscribed more than once
    ended, late, \* history: ids the client completed, updates sent for them since
    missed       \* history: a write no re-execution will show, by id

vars == <<writes, events, taken, initialized, active, main, pusher, out, forwarding,
          connected, sent, shown, used, reused, ended, late, missed>>

store == <<writes, events>>
client == <<connected, sent>>
history == <<used, reused, ended, late, missed>>

Idle == [at |-> "idle", id |-> "none", live |-> FALSE, data |-> 0]
Waiting == [at |-> "recv", batch |-> {}, id |-> "none", data |-> 0]

Init ==
    /\ writes = <<>> /\ events = <<>> /\ taken = 0
    /\ initialized = FALSE
    /\ active = {}
    /\ main = Idle /\ pusher = Waiting
    /\ out = <<>> /\ forwarding = TRUE
    /\ connected = TRUE /\ sent = 0
    /\ shown = [s \in Subs |-> 0]
    /\ used = {} /\ reused = {} /\ ended = {} /\ missed = {}
    /\ late = [s \in Subs |-> 0]

\* What executing the query of s returns: the last write it reads.
Latest(s) ==
    LET seen == {i \in DOMAIN writes : writes[i] \in Watches[s]}
    IN  IF seen = {} THEN 0 ELSE CHOOSE i \in seen : \A j \in seen : j <= i

\* Writes whose events i the request in the main loop has not read, although it
\* will send its result (and register its subscription) only later.
Overlooked(i) ==
    {s \in Subs : /\ main.at \in {"next", "register"} /\ main.id = s
                  /\ writes[i] \in Watches[s] /\ i > main.data}

-----------------------------------------------------------------------------
\* A mutation commits; its handler publishes the event afterwards.
Commit ==
    /\ Len(writes) < MaxWrites
    /\ \E t \in Topics : writes' = Append(writes, t)
    /\ UNCHANGED <<events, taken, initialized, active, main, pusher, out, forwarding,
                   client, shown, history>>

Publish ==
    /\ \E i \in DOMAIN writes :
         /\ \A j \in DOMAIN events : events[j] # i
         /\ events' = Append(events, i)
    /\ UNCHANGED <<writes, taken, initialized, active, main, pusher, out, forwarding,
                   client, shown, history>>

-----------------------------------------------------------------------------
Enqueue(m) == Len(out) < OutCapacity /\ out' = Append(out, m)

\* The main loop takes the next message of the client.
NextMessage ==
    /\ main.at = "idle" /\ connected /\ sent < MaxMessages
    /\ sent' = sent + 1

ConnectionInit ==
    /\ NextMessage
    /\ initialized' = TRUE
    /\ main' = [main EXCEPT !.at = "connection_ack"]
    /\ UNCHANGED <<store, taken, active, pusher, out, forwarding, connected, shown, history>>

\* Only the size of the map is checked: the id may be in use.
Subscribe ==
    /\ NextMessage
    /\ initialized
    /\ \E s \in Subs, live \in BOOLEAN :
         IF Cardinality(active) >= MaxSubscriptions
         THEN main' = [Idle EXCEPT !.at = "error", !.id = s] /\ UNCHANGED <<used, reused, ended, late>>
         ELSE /\ main' = [Idle EXCEPT !.at = "execute", !.id = s, !.live = live]
              /\ used' = used \cup {s} /\ reused' = reused \cup ({s} \cap used)
              /\ ended' = ended \ {s} /\ late' = [late EXCEPT ![s] = 0]
    /\ UNCHANGED <<store, taken, initialized, active, pusher, out, forwarding, connected,
                   shown, missed>>

\* Mutant of Complete: the subscription stays in the map.
CompleteIgnored ==
    /\ NextMessage
    /\ \E s \in Subs : ended' = ended \cup {s}
    /\ UNCHANGED <<store, taken, initialized, active, main, pusher, out, forwarding,
                   connected, shown, used, reused, late, missed>>

Complete ==
    /\ NextMessage
    /\ \E s \in Subs : active' = active \ {s} /\ ended' = ended \cup {s}
    /\ UNCHANGED <<store, taken, initialized, main, pusher, out, forwarding,
                   connected, shown, used, reused, late, missed>>

\* Mutant of Execute: the subscription is registered before it is executed.
ExecuteRegistered ==
    /\ main.at = "execute"
    /\ main' = [main EXCEPT !.at = "next", !.data = Latest(main.id)]
    /\ active' = IF main.live THEN active \cup {main.id} ELSE active
    /\ UNCHANGED <<store, taken, initialized, pusher, out, forwarding, client, shown, history>>

\* handle_http for the initial result.
Execute ==
    /\ main.at = "execute"
    /\ main' = [main EXCEPT !.at = "next", !.data = Latest(main.id)]
    /\ UNCHANGED <<store, taken, initialized, active, pusher, out, forwarding, client,
                   shown, history>>

\* ws_tx.send(..).await: waits for room; fails once the forward task is gone,
\* which ends the main loop except after an error message.
Send ==
    LET after == CASE main.at \in {"connection_ack", "error", "complete"} -> "idle"
                   [] main.at = "next" -> IF main.live THEN "register" ELSE "complete"
    IN  /\ main.at \in {"connection_ack", "error", "next", "complete"}
        /\ \/ /\ forwarding
              /\ Enqueue([type |-> main.at, id |-> main.id, data |-> main.data])
              /\ main' = IF after = "idle" THEN Idle ELSE [main EXCEPT !.at = after]
           \/ /\ ~forwarding
              /\ main' = IF main.at = "error" THEN Idle ELSE [Idle EXCEPT !.at = "leaving"]
              /\ UNCHANGED out
        /\ UNCHANGED <<store, taken, initialized, active, pusher, forwarding, client,
                       shown, history>>

\* A live query enters the map only after its initial result was sent.
Register ==
    /\ main.at = "register"
    /\ active' = active \cup {main.id}
    /\ main' = Idle
    /\ UNCHANGED <<store, taken, initialized, pusher, out, forwarding, client, shown, history>>

\* The loop is left: the other two tasks are aborted and everything is dropped.
Close ==
    /\ main.at = "leaving" \/ (main.at = "idle" /\ ~connected)
    /\ main' = [Idle EXCEPT !.at = "closed"]
    /\ pusher' = [Waiting EXCEPT !.at = "aborted"]
    /\ forwarding' = FALSE
    /\ out' = <<>> /\ active' = {}
    /\ UNCHANGED <<store, taken, initialized, client, shown, history>>

-----------------------------------------------------------------------------
\* An event arrives: the matching subscriptions are cloned out of the map.
Receive ==
    /\ pusher.at = "recv" /\ taken < Len(events) /\ Len(events) - taken <= Buffer
    /\ LET i == events[taken + 1]
           matching == {s \in active : writes[i] \in Watches[s]}
       IN  /\ pusher' = IF matching = {} THEN Waiting
                        ELSE [Waiting EXCEPT !.at = "execute", !.batch = matching]
           /\ missed' = missed \cup Overlooked(i)
    /\ taken' = taken + 1
    /\ UNCHANGED <<store, initialized, active, main, out, forwarding, client, shown,
                   used, reused, ended, late>>

\* Mutant of Lagged: every error of recv ends the task.
LaggedEnds ==
    /\ pusher.at = "recv" /\ Len(events) - taken > Buffer
    /\ pusher' = [Waiting EXCEPT !.at = "ended"]
    /\ UNCHANGED <<store, taken, initialized, active, main, out, forwarding, client, shown, history>>

\* RecvError::Lagged: the oldest events were overwritten, `continue`.
Lagged ==
    /\ pusher.at = "recv" /\ Len(events) - taken > Buffer
    /\ taken' = Len(events) - Buffer
    /\ missed' = missed \cup {s \in Subs :
                     \E j \in (taken + 1)..taken' : writes[events[j]] \in Watches[s]}
    /\ UNCHANGED <<store, initialized, active, main, pusher, out, forwarding, client, shown,
                   used, reused, ended, late>>

\* Re-execution of one of the clones, in the map's arbitrary order ...
Reexecute ==
    /\ pusher.at = "execute"
    /\ \E s \in pusher.batch :
         /\ pusher' = [at |-> "send", batch |-> pusher.batch \ {s}, id |-> s, data |-> Latest(s)]
         /\ missed' = IF main.at \in {"next", "register"} /\ main.id = s THEN missed ELSE missed \ {s}
    /\ UNCHANGED <<store, taken, initialized, active, main, out, forwarding, client, shown,
                   used, reused, ended, late>>

\* ... and its update; a failing send leaves only the loop over the clones.
Push ==
    /\ pusher.at = "send"
    /\ \/ /\ forwarding
          /\ Enqueue([type |-> "next", id |-> pusher.id, data |-> pusher.data])
          /\ pusher' = IF pusher.batch = {} THEN Waiting
                       ELSE [Waiting EXCEPT !.at = "execute", !.batch = pusher.batch]
          /\ late' = IF pusher.id \in ended THEN [late EXCEPT ![pusher.id] = @ + 1] ELSE late
       \/ ~forwarding /\ pusher' = Waiting /\ UNCHANGED <<out, late>>
    /\ UNCHANGED <<store, taken, initialized, active, main, forwarding, client, shown,
                   used, reused, ended, missed>>

\* Mutant of Forward: a failing send to the socket is not noticed.
ForwardNeverEnds ==
    /\ forwarding /\ out # <<>> /\ connected
    /\ out' = Tail(out)
    /\ shown' = IF Head(out).type = "next" THEN [shown EXCEPT ![Head(out).id] = Head(out).data]
                ELSE shown
    /\ UNCHANGED <<store, taken, initialized, active, main, pusher, forwarding, client, history>>

\* The forward task: the next message goes to the client, or the send fails and
\* the task ends, dropping its end of the channel.
Forward ==
    /\ forwarding /\ out # <<>>
    /\ IF connected
       THEN /\ out' = Tail(out)
            /\ shown' = IF Head(out).type = "next"
                        THEN [shown EXCEPT ![Head(out).id] = Head(out).data] ELSE shown
            /\ UNCHANGED forwarding
       ELSE forwarding' = FALSE /\ out' = <<>> /\ UNCHANGED shown
    /\ UNCHANGED <<store, taken, initialized, active, main, pusher, client, history>>

\* The client closes the socket, or is lost.
Hangup ==
    /\ connected
    /\ connected' = FALSE
    /\ UNCHANGED <<store, taken, initialized, active, main, pusher, out, forwarding, sent,
                   shown, history>>

-----------------------------------------------------------------------------
Main == Execute \/ Send \/ Register \/ Close
Invalidation == Receive \/ Lagged \/ Reexecute \/ Push
Client == ConnectionInit \/ Subscribe \/ Complete \/ Hangup

Next == Commit \/ Publish \/ Client \/ Main \/ Invalidation \/ Forward

Spec == Init /\ [][Next]_vars

\* The three tasks are polled when they are ready, and a handler that has
\* committed goes on to publish.  Nothing obliges the client or new mutations.
Fairness == WF_vars(Main) /\ WF_vars(Invalidation) /\ WF_vars(Forward) /\ WF_vars(Publish)

FairSpec == Spec /\ Fairness

-----------------------------------------------------------------------------
TypeOK ==
    /\ writes \in Seq(Topics)
    /\ events \in Seq(DOMAIN writes)
    /\ taken \in 0..Len(events)
    /\ {initialized, forwarding, connected} \subseteq BOOLEAN
    /\ active \subseteq Subs
    /\ main.id \in Subs \cup {"none"} /\ main.data \in 0..Len(writes)
    /\ pusher.batch \subseteq Subs /\ pusher.data \in 0..Len(writes)
    /\ Len(out) <= OutCapacity
    /\ shown \in [Subs -> 0..Len(writes)]
    /\ late \in [Subs -> Nat]

\* A completed subscription may still be in the invalidation task's list of
\* clones, but in one list only: at most one update follows the completion.
OneLateUpdate == \A s \in Subs : late[s] <= 1

\* Initial result and pushed updates come from two tasks, yet a client that uses
\* an id once is never shown older data after newer data.
NeverGoesBack == [][\A s \in Subs \ reused' : shown'[s] >= shown[s]]_vars

\* The writes come to an end, and then every live subscription shows the last of
\* them, unless its event was skipped by a lagging receiver or matched between
\* the initial execution of the query and its registration, or its id was used
\* before (an update for the earlier subscription may then be shown last).
UpdatesArrive ==
    \A s \in Subs : <>[](s \in active \ (missed \cup reused) /\ connected => shown[s] = Latest(s))

\* A connection the client has left is cleaned up, whatever its tasks wait for.
HangupReleases == ~connected ~> (main.at = "closed" /\ pusher.at = "aborted")

=============================================================================
