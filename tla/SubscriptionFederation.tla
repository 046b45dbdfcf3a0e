------------------------ MODULE SubscriptionFederation ------------------------
(***************************************************************************)
(* The engine that spreads a GraphQL subscription over the subgraphs        *)
(* (src/subscription_federation.rs).  For each client subscription (a       *)
(* stream) handle_subscription runs in a task of its own: it plans the      *)
(* fan-out, takes that many permits of a shared semaphore, spawns one       *)
(* upstream task per subgraph, merges what they report and hands it to the  *)
(* client's channel.  Upstream tasks outlive a handler that is aborted: only *)
(* a handler that comes to its own end aborts them.                         *)
(***************************************************************************)
EXTENDS Integers, Sequences, FiniteSets

CONSTANTS
    MaxStreams,       \* bound: subscriptions handled
    Subgraphs,        \* names of the configured subgraph endpoints
    Fields,           \* top-level subscription fields
    Requests,         \* the sets of fields each stream may be opened with
    Routing,          \* config.routing: the fields routed explicitly, and where to
    AutoRoute,        \* config.auto_route
    MaxUpstreams,     \* config.max_upstream_connections
    MergedCapacity,   \* capacity of the channel upstream tasks report on
    JsonCapacity,     \* capacity of the channel to the client's relay
    MaxEvents         \* bound: next messages the subgraphs send

Streams == 1..MaxStreams

ASSUME FederationAssumption ==
    /\ MaxStreams \in Nat /\ MaxEvents \in Nat /\ MaxUpstreams \in Nat
    /\ {MergedCapacity, JsonCapacity} \subseteq Nat \ {0}
    /\ DOMAIN Routing \subseteq Fields /\ AutoRoute \in BOOLEAN
    /\ Requests \in [Streams -> SUBSET SUBSET Fields]
    /\ IsFiniteSet(Subgraphs)

VARIABLES
    handler,     \* handle_subscription of each stream: where it is, what it delivers
    upstream,    \* the upstream task of each stream and subgraph
    merged,      \* channel from the upstream tasks to the handler
    cancel,      \* the handler's cancel channel: open, signalled, or its sender dropped
    json,        \* channel from the handler to the client's relay task
    relay,       \* the relay task, which holds the receiving end of json
    permits,     \* upstream_limit: permits left
    active,      \* Counters.active_subscriptions
    connections, \* Counters.active_upstream_connections
    produced     \* next messages the subgraphs have sent

engineVars == <<handler, upstream, merged, cancel, json, relay, permits, active,
                connections, produced>>

At(h) == [at |-> h, msg |-> "none"]
EngineInit ==
    /\ handler = [s \in Streams |-> At("none")]
    /\ upstream = [s \in Streams |-> [g \in Subgraphs |-> "none"]]
    /\ merged = [s \in Streams |-> <<>>]
    /\ cancel = [s \in Streams |-> "open"]
    /\ json = [s \in Streams |-> <<>>]
    /\ relay = [s \in Streams |-> "none"]
    /\ permits = MaxUpstreams
    /\ active = 0 /\ connections = 0 /\ produced = 0

-----------------------------------------------------------------------------
\* The subgraphs a subscription on these fields goes to.
Routable(fields) ==
    \A f \in fields : IF f \in DOMAIN Routing THEN Routing[f] \in Subgraphs ELSE AutoRoute

Route(fields) ==
    UNION {IF f \in DOMAIN Routing THEN {Routing[f]} ELSE Subgraphs : f \in fields}

\* The handler's ends of its channels exist while it runs.
MergedOpen(s) == handler[s].at \in {"relay", "deliver", "complete"}
JsonOpen(s) == relay[s] = "running"

\* Upstream tasks that hold, or are about to open, a connection.
Running(s) == {g \in Subgraphs : upstream[s][g] \notin {"none", "ended"}}
Held(s) == Cardinality({g \in Subgraphs : upstream[s][g] # "none"})

\* First poll of the handler: an unreadable or unroutable query (no field, a field
\* that leads nowhere) or too few permits is answered with an error; otherwise
\* the upstream tasks are spawned.
Start(s, fields) ==
    LET plan == Route(fields)
        ok == fields # {} /\ Routable(fields) /\ Cardinality(plan) <= permits
    IN  /\ handler[s].at = "spawned"
        /\ active' = active + 1
        /\ IF ok
           THEN /\ handler' = [handler EXCEPT ![s] = At("relay")]
                /\ permits' = permits - Cardinality(plan)
                /\ upstream' = [upstream EXCEPT ![s] =
                                   [g \in Subgraphs |-> IF g \in plan THEN "spawned" ELSE "none"]]
           ELSE handler' = [handler EXCEPT ![s] = At("error")] /\ UNCHANGED <<permits, upstream>>
        /\ UNCHANGED <<merged, cancel, json, relay, connections, produced>>

\* client_tx.send: waits for room, fails when the relay is gone.
ClientSend(s, type) ==
    \/ JsonOpen(s) /\ Len(json[s]) < JsonCapacity /\ json' = [json EXCEPT ![s] = Append(@, type)]
    \/ ~JsonOpen(s) /\ UNCHANGED json

\* Mutant of Refuse: the return after the refusal is missing.
RefuseGoesOn(s) ==
    /\ handler[s].at = "error"
    /\ ClientSend(s, "error")
    /\ handler' = [handler EXCEPT ![s] = At("complete")]
    /\ UNCHANGED <<upstream, merged, cancel, relay, permits, active, connections, produced>>

\* The refusal is sent, and the handler is over.
Refuse(s) ==
    /\ handler[s].at = "error"
    /\ ClientSend(s, "error")
    /\ handler' = [handler EXCEPT ![s] = At("returned")]
    /\ active' = active - 1
    /\ UNCHANGED <<upstream, merged, cancel, relay, permits, connections, produced>>

\* select!: the cancel channel has a message, or lost its sender ...
Cancelled(s) ==
    /\ handler[s].at = "relay" /\ cancel[s] # "open"
    /\ handler' = [handler EXCEPT ![s] = At("complete")]
    /\ UNCHANGED <<upstream, merged, cancel, json, relay, permits, active, connections, produced>>

\* ... or an upstream task reported.  Its completion alone ends nothing.
TakeEvent(s) ==
    /\ handler[s].at = "relay" /\ merged[s] # <<>>
    /\ merged' = [merged EXCEPT ![s] = Tail(@)]
    /\ handler' = IF Head(merged[s]) = "complete" THEN handler
                  ELSE [handler EXCEPT ![s] = [at |-> "deliver", msg |-> Head(merged[s])]]
    /\ UNCHANGED <<upstream, cancel, json, relay, permits, active, connections, produced>>

\* ... or every upstream task has dropped its sender.
AllEnded(s) ==
    /\ handler[s].at = "relay" /\ merged[s] = <<>> /\ Running(s) = {}
    /\ handler' = [handler EXCEPT ![s] = At("complete")]
    /\ UNCHANGED <<upstream, merged, cancel, json, relay, permits, active, connections, produced>>

\* Data and upstream errors both go to the client as `next`; only for data does a
\* lost client end the loop.
Deliver(s) ==
    /\ handler[s].at = "deliver"
    /\ ClientSend(s, "next")
    /\ handler' = [handler EXCEPT ![s] =
                      At(IF handler[s].msg = "next" /\ ~JsonOpen(s) THEN "complete" ELSE "relay")]
    /\ UNCHANGED <<upstream, merged, cancel, relay, permits, active, connections, produced>>

\* Mutant of Stopped: the tasks are left to end by themselves.
StoppedByThemselves(s) == upstream[s]

\* abort() of the upstream tasks, none of which counts itself out.
Stopped(s) == [g \in Subgraphs |-> IF g \in Running(s) THEN "ended" ELSE upstream[s][g]]

\* Mutant of Complete: nothing is sent at the end.
CompleteSilently(s) ==
    /\ handler[s].at = "complete"
    /\ handler' = [handler EXCEPT ![s] = At("returned")]
    /\ upstream' = [upstream EXCEPT ![s] = Stopped(s)]
    /\ permits' = permits + Held(s)
    /\ active' = active - 1
    /\ merged' = [merged EXCEPT ![s] = <<>>]
    /\ UNCHANGED <<json, cancel, relay, connections, produced>>

\* `complete` is sent, the upstream tasks are aborted, and the permits go back.
Complete(s) ==
    /\ handler[s].at = "complete"
    /\ ClientSend(s, "complete")
    /\ handler' = [handler EXCEPT ![s] = At("returned")]
    /\ upstream' = [upstream EXCEPT ![s] = Stopped(s)]
    /\ permits' = permits + Held(s)
    /\ active' = active - 1
    /\ merged' = [merged EXCEPT ![s] = <<>>]
    /\ UNCHANGED <<cancel, relay, connections, produced>>

\* abort() of the handler, at any await: its permits go back, its counters stay,
\* and its upstream tasks run on without it.
Abort(s) ==
    IF handler[s].at \in {"returned", "done", "aborted"} THEN UNCHANGED engineVars
    ELSE /\ handler' = [handler EXCEPT ![s] = At("aborted")]
         /\ permits' = permits + (IF MergedOpen(s) THEN Held(s) ELSE 0)
         /\ merged' = [merged EXCEPT ![s] = <<>>]
         /\ UNCHANGED <<upstream, cancel, json, relay, active, connections, produced>>

-----------------------------------------------------------------------------
Becomes(s, g, where) == upstream' = [upstream EXCEPT ![s][g] = where]

\* Mutant of Connect: a task is not counted, though it counts itself out.
ConnectUncounted(s, g) ==
    /\ upstream[s][g] = "spawned"
    /\ Becomes(s, g, "handshake")
    /\ UNCHANGED <<handler, merged, cancel, json, relay, permits, active, connections, produced>>

\* First poll of an upstream task.
Connect(s, g) ==
    /\ upstream[s][g] = "spawned"
    /\ Becomes(s, g, "handshake")
    /\ connections' = connections + 1
    /\ UNCHANGED <<handler, merged, cancel, json, relay, permits, active, produced>>

\* A report on merged_tx waits for room, and is lost when the handler is gone.  (A
\* task that waits for room counts as one that has not heard yet.)
Report(s, type) ==
    IF MergedOpen(s)
    THEN Len(merged[s]) < MergedCapacity /\ merged' = [merged EXCEPT ![s] = Append(@, type)]
    ELSE UNCHANGED merged

\* The task closes its WebSocket and returns.
Return(s, g) == Becomes(s, g, "ended") /\ connections' = connections - 1

\* Connecting, connection_init, connection_ack and subscribe succeed, or one of
\* them fails or times out, is reported, and the task returns.
Handshake(s, g) ==
    /\ upstream[s][g] = "handshake"
    /\ \/ Becomes(s, g, "streaming") /\ UNCHANGED <<merged, connections>>
       \/ Report(s, "error") /\ Return(s, g)
    /\ UNCHANGED <<handler, cancel, json, relay, permits, active, produced>>

\* What the subgraph does next: a result, after which the task goes on unless the
\* handler is gone; an error, its completion or a close; or the heartbeat finds it
\* dead, which reports nothing.
Hear(s, g) ==
    /\ upstream[s][g] = "streaming"
    /\ \/ /\ produced < MaxEvents /\ produced' = produced + 1
          /\ Report(s, "next")
          /\ IF MergedOpen(s) THEN UNCHANGED <<upstream, connections>> ELSE Return(s, g)
       \/ /\ \E type \in {"error", "complete"} : Report(s, type)
          /\ Return(s, g) /\ UNCHANGED produced
       \/ Return(s, g) /\ UNCHANGED <<merged, produced>>
    /\ UNCHANGED <<handler, cancel, json, relay, permits, active>>

\* The steps of an upstream task that do not wait for the subgraph to speak.
UpstreamTask(s, g) == Connect(s, g) \/ Handshake(s, g)
HandlerTask(s) == Refuse(s) \/ Cancelled(s) \/ TakeEvent(s) \/ AllEnded(s) \/ Deliver(s)
                  \/ Complete(s)

EngineTypeOK ==
    /\ \A s \in Streams :
         /\ handler[s].at \in {"none", "spawned", "error", "relay", "deliver", "complete",
                               "returned", "done", "aborted"}
         /\ cancel[s] \in {"open", "signalled", "dropped"}
         /\ relay[s] \in {"none", "running", "ended", "aborted"}
         /\ Len(json[s]) <= JsonCapacity /\ Len(merged[s]) <= MergedCapacity
         /\ \A g \in Subgraphs : upstream[s][g] \in
              {"none", "spawned", "handshake", "streaming", "ended"}
    /\ permits \in 0..MaxUpstreams
    /\ {active, connections} \subseteq Nat /\ produced \in 0..MaxEvents

\* Handlers may be aborted and their tasks orphaned, yet the gauges of
\* /metrics never show fewer subscriptions or upstream connections than there are.
GaugesNeverUnderstate ==
    /\ active >= Cardinality({s \in Streams :
                    handler[s].at \in {"error", "relay", "deliver", "complete"}})
    /\ connections >= Cardinality({p \in Streams \X Subgraphs :
                    p[2] \in Running(p[1]) /\ upstream[p[1]][p[2]] # "spawned"})

\* Upstream tasks are within the limit and within the permits taken, except those
\* an aborted handler has left behind.
UpstreamsWithinPermits ==
    Cardinality({p \in Streams \X Subgraphs :
                    p[2] \in Running(p[1]) /\ handler[p[1]].at # "aborted"})
      <= MaxUpstreams - permits

=============================================================================
