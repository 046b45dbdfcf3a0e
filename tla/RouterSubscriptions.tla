-------------------------- MODULE RouterSubscriptions --------------------------
(***************************************************************************)
(* The router's subscription endpoint (handle_subscription_socket in        *)
(* src/bin/router.rs): one WebSocket connection on top of the federation    *)
(* engine.  The main loop (`main`) handles the client's messages; each       *)
(* subscription has a handler task in the engine and a relay task; a query   *)
(* sent over the socket has a task of its own; the forward task drains the   *)
(* bounded channel they all send to.                                        *)
(***************************************************************************)
EXTENDS SubscriptionFederation

CONSTANTS
    Ids,           \* operation ids the client uses
    QueryIds,      \* bound: ids queries are sent under, each once
    Limit,         \* MAX_WS_SUBSCRIPTIONS_PER_CONNECTION
    OutCapacity,   \* capacity of the channel to the forward task
    MaxMessages    \* bound: messages from the client

\* "none" stands for no id.
ASSUME SocketAssumption ==
    /\ QueryIds \subseteq Ids /\ "none" \notin Ids
    /\ {Limit, OutCapacity} \subseteq Nat \ {0} /\ MaxMessages \in Nat

VARIABLES
    initialized,   \* connection_initialized
    entry,         \* active_subscriptions: id -> stream, 0 when absent
    stream,        \* id and fields each stream was started with
    query,         \* the task of each id's query: none, reading, next, complete, error
    main,          \* the main loop: where it is, and on what
    out,           \* the channel to the forward task
    forwarding,    \* the forward task runs
    connected,     \* the client is there
    sent,          \* messages the client has sent
    phase, items,  \* history: what the client has seen of each id
    again,         \* history: ids the client has used more than once
    untold         \* history: streams whose relay was aborted with messages in its channel

socketVars == <<initialized, entry, stream, query, main, out, forwarding, connected, sent,
                phase, items, again, untold>>
vars == <<engineVars, socketVars>>
history == <<phase, items, again, untold>>

Receiving == [at |-> "receive", id |-> "none", s |-> 0]
NoStream == [id |-> "none", fields |-> {}]
Started == {s \in Streams : stream[s] # NoStream}

Init ==
    /\ EngineInit
    /\ initialized = FALSE
    /\ entry = [i \in Ids |-> 0]
    /\ stream = [s \in Streams |-> NoStream]
    /\ query = [i \in Ids |-> "none"]
    /\ main = Receiving
    /\ out = <<>> /\ forwarding = TRUE
    /\ connected = TRUE /\ sent = 0
    /\ phase = [i \in Ids |-> "unused"] /\ items = [i \in Ids |-> 0]
    /\ again = {} /\ untold = {}

-----------------------------------------------------------------------------
\* outgoing_tx.send: waits for room, fails when the forward task is gone.
Enqueue(type, id) ==
    \/ forwarding /\ Len(out) < OutCapacity /\ out' = Append(out, [type |-> type, id |-> id])
    \/ ~forwarding /\ UNCHANGED out

\* The main loop takes the next message of the client.
NextMessage == main.at = "receive" /\ connected /\ sent < MaxMessages /\ sent' = sent + 1

ConnectionInit ==
    /\ NextMessage
    /\ initialized' = TRUE
    /\ main' = [Receiving EXCEPT !.at = "connection_ack"]
    /\ UNCHANGED <<engineVars, entry, stream, query, out, forwarding, connected, history>>

\* What the client may expect from now on for the id it uses.
Used(i) ==
    /\ phase' = [phase EXCEPT ![i] = IF @ \in {"unused", "ended"} THEN "open" ELSE "reused"]
    /\ items' = [items EXCEPT ![i] = 0]
    /\ again' = IF phase[i] = "unused" THEN again ELSE again \cup {i}

\* subscribe before connection_init, beyond the limit, or turned down by the
\* rate limiter or the firewall.  The limit counts ended subscriptions, too.
Refused(i) ==
    /\ NextMessage
    /\ main' = [Receiving EXCEPT !.at = "error", !.id = i]
    /\ Used(i)
    /\ UNCHANGED <<engineVars, initialized, entry, stream, query, out, forwarding, connected,
                   untold>>

\* subscribe with a subscription: handler and relay are spawned.  The id may be in
\* use: the entry is overwritten, and the former handler loses its cancel_tx.
Subscribe(i) ==
    /\ NextMessage
    /\ initialized /\ Cardinality({j \in Ids : entry[j] # 0}) < Limit
    /\ Used(i)
    /\ \E s \in Streams \ Started :
         /\ \A r \in Streams \ Started : s <= r
         /\ \E fields \in Requests[s] : stream' = [stream EXCEPT ![s] = [id |-> i, fields |-> fields]]
         /\ entry' = [entry EXCEPT ![i] = s]
         /\ handler' = [handler EXCEPT ![s] = At("spawned")]
         /\ relay' = [relay EXCEPT ![s] = "running"]
    /\ cancel' = IF entry[i] = 0 THEN cancel ELSE [cancel EXCEPT ![entry[i]] = "dropped"]
    /\ UNCHANGED <<upstream, merged, json, permits, active, connections, produced,
                   initialized, query, main, out, forwarding, connected, untold>>

\* subscribe with a query: executed by a task that is not in active_subscriptions.
Query(i) ==
    /\ NextMessage
    /\ initialized /\ Cardinality({j \in Ids : entry[j] # 0}) < Limit
    /\ query[i] = "none" /\ i \in QueryIds
    /\ Used(i)
    /\ query' = [query EXCEPT ![i] = "reading"]
    /\ UNCHANGED <<engineVars, initialized, entry, stream, main, out, forwarding, connected,
                   untold>>

\* complete: the entry is removed and cancel_tx is sent to; the abort follows.
ClientComplete(i) ==
    /\ NextMessage
    /\ IF entry[i] = 0 THEN UNCHANGED <<entry, cancel, main>>
       ELSE /\ entry' = [entry EXCEPT ![i] = 0]
            /\ cancel' = [cancel EXCEPT ![entry[i]] = "signalled"]
            /\ main' = [Receiving EXCEPT !.at = "abort", !.s = entry[i]]
    /\ UNCHANGED <<handler, upstream, merged, json, relay, permits, active, connections,
                   produced, initialized, stream, query, out, forwarding, connected, history>>

\* ... of the handler; at the end of the connection the clean-up goes on.
AbortHandler ==
    /\ main.at \in {"abort", "clean"}
    /\ Abort(main.s)
    /\ main' = IF main.at = "abort" THEN Receiving ELSE [Receiving EXCEPT !.at = "leaving"]
    /\ UNCHANGED <<initialized, entry, stream, query, out, forwarding, connected, sent, history>>

\* An acknowledgement or an error; a failed send is ignored.
Reply ==
    /\ main.at \in {"connection_ack", "error"}
    /\ Enqueue(main.at, main.id)
    /\ main' = Receiving
    /\ UNCHANGED <<engineVars, initialized, entry, stream, query, forwarding, connected, sent,
                   history>>

\* The client is gone: every entry is cancelled and its handler aborted.
Leave ==
    /\ main.at = "leaving" \/ (main.at = "receive" /\ ~connected)
    /\ \/ /\ \A i \in Ids : entry[i] = 0
          /\ main' = [Receiving EXCEPT !.at = "closed"]
          /\ UNCHANGED <<entry, cancel>>
       \/ \E i \in Ids :
            /\ entry[i] # 0
            /\ entry' = [entry EXCEPT ![i] = 0]
            /\ cancel' = [cancel EXCEPT ![entry[i]] = "signalled"]
            /\ main' = [Receiving EXCEPT !.at = "clean", !.s = entry[i]]
    /\ UNCHANGED <<handler, upstream, merged, json, relay, permits, active, connections, produced,
                   initialized, stream, query, out, forwarding, connected, sent, history>>

-----------------------------------------------------------------------------
\* The wrapper around handle_subscription aborts the relay when it returns.
AbortRelay(s) ==
    /\ handler[s].at = "returned"
    /\ handler' = [handler EXCEPT ![s] = At("done")]
    /\ relay' = [relay EXCEPT ![s] = IF @ = "running" THEN "aborted" ELSE @]
    /\ json' = [json EXCEPT ![s] = <<>>]
    /\ untold' = IF json[s] # <<>> THEN untold \cup {s} ELSE untold
    /\ UNCHANGED <<upstream, merged, cancel, permits, active, connections, produced, initialized,
                   entry, stream, query, main, out, forwarding, connected, sent, phase, items,
                   again>>

\* The relay passes the next message on; it ends when the forward task or the
\* handler is gone.
Relay(s) ==
    /\ relay[s] = "running"
    /\ \/ /\ json[s] # <<>>
          /\ Enqueue(Head(json[s]), stream[s].id)
          /\ json' = [json EXCEPT ![s] = IF forwarding THEN Tail(@) ELSE <<>>]
          /\ relay' = [relay EXCEPT ![s] = IF forwarding THEN @ ELSE "ended"]
       \/ /\ json[s] = <<>> /\ handler[s].at = "aborted"
          /\ relay' = [relay EXCEPT ![s] = "ended"]
          /\ UNCHANGED <<json, out>>
    /\ UNCHANGED <<handler, upstream, merged, cancel, permits, active, connections, produced,
                   initialized, entry, stream, query, main, forwarding, connected, sent, history>>

\* The query's result and `complete`, or its error; failed sends are ignored.
QueryTask(i) ==
    /\ \/ /\ query[i] = "reading"
          /\ \E answer \in {"next", "error"} : query' = [query EXCEPT ![i] = answer]
          /\ UNCHANGED out
       \/ /\ query[i] \in {"next", "complete", "error"}
          /\ Enqueue(query[i], i)
          /\ query' = [query EXCEPT ![i] = IF @ = "next" THEN "complete" ELSE "done"]
    /\ UNCHANGED <<engineVars, initialized, entry, stream, main, forwarding, connected, sent,
                   history>>

\* Senders of the outgoing channel: the main loop, handlers, relays and queries.
Senders ==
    \/ main.at # "closed"
    \/ \E s \in Streams : relay[s] = "running"
                          \/ handler[s].at \notin {"none", "done", "aborted"}
    \/ \E i \in Ids : query[i] \notin {"none", "done"}

\* What the client makes of a message.
Show(m) ==
    /\ items' = IF m.type = "next" /\ phase[m.id] # "reused"
                THEN [items EXCEPT ![m.id] = @ + 1] ELSE items
    /\ phase' = IF m.type \in {"complete", "error"} /\ phase[m.id] # "reused"
                THEN [phase EXCEPT ![m.id] = IF @ = "open" THEN "ended" ELSE "broken"] ELSE phase

\* Mutant of Forward: a lost client is not noticed.
ForwardNeverEnds ==
    /\ forwarding /\ out # <<>> /\ connected
    /\ out' = Tail(out) /\ Show(Head(out))
    /\ UNCHANGED <<engineVars, initialized, entry, stream, query, main, forwarding, connected,
                   sent, again, untold>>

\* The forward task: the next message goes to the client, or the task ends, for
\* the client or all senders are gone.
Forward ==
    /\ forwarding
    /\ \/ /\ out # <<>> /\ connected
          /\ out' = Tail(out) /\ Show(Head(out))
          /\ UNCHANGED forwarding
       \/ /\ (out # <<>> /\ ~connected) \/ (out = <<>> /\ ~Senders)
          /\ forwarding' = FALSE /\ out' = <<>>
          /\ UNCHANGED <<items, phase>>
    /\ UNCHANGED <<engineVars, initialized, entry, stream, query, main, connected, sent,
                   again, untold>>

\* The client closes the socket, or is lost.
Hangup ==
    /\ connected
    /\ connected' = FALSE
    /\ UNCHANGED <<engineVars, initialized, entry, stream, query, main, out, forwarding, sent,
                   history>>

-----------------------------------------------------------------------------
Client == \/ ConnectionInit \/ Hangup
          \/ \E i \in Ids : \/ Refused(i) \/ Query(i) \/ ClientComplete(i)
                            \/ Subscribe(i)
Main == AbortHandler \/ Reply \/ Leave

Handler(s) ==
    \/ (Start(s, stream[s].fields) \/ HandlerTask(s)) /\ UNCHANGED socketVars
    \/ AbortRelay(s)

Upstream(s, g) == UpstreamTask(s, g) /\ UNCHANGED socketVars

Tasks ==
    \/ Main \/ Forward
    \/ \E s \in Streams : Handler(s) \/ Relay(s) \/ \E g \in Subgraphs : Upstream(s, g)
    \/ \E i \in Ids : QueryTask(i)

Next ==
    \/ Client \/ Tasks
    \/ \E s \in Streams, g \in Subgraphs : Hear(s, g) /\ UNCHANGED socketVars

Spec == Init /\ [][Next]_vars

\* Tasks are polled when they are ready, and connecting to a subgraph has a timeout.
\* As every task comes to an end or to a wait, it is enough that some ready task
\* goes on.  Nothing obliges the client, or a subgraph once it is streaming.
Fairness == WF_vars(Tasks)

FairSpec == Spec /\ Fairness

-----------------------------------------------------------------------------
TypeOK ==
    /\ EngineTypeOK
    /\ entry \in [Ids -> Streams \cup {0}]
    /\ main.s \in Streams \cup {0}
    /\ Len(out) <= OutCapacity
    /\ untold \subseteq Streams
    /\ items \in [Ids -> Nat]

\* Three tasks and two channels stand between a subgraph and the client, yet the
\* client sees what the protocol promises for every id it uses anew only after its end.
Promise == INSTANCE SubscriptionStream
KeepsPromise == Promise!Spec

\* A connection the client has left is released, its main loop, handlers,
\* relays, queries and forward task, whatever they wait for.
HangupReleases ==
    ~connected ~> /\ main.at = "closed" /\ ~forwarding
                  /\ \A s \in Streams : /\ handler[s].at \in {"none", "done", "aborted"}
                                        /\ relay[s] # "running"
                  /\ \A i \in Ids : query[i] \in {"none", "done"}

\* A subscription that has ended has told the client, or its last message is on
\* the way, unless the connection is lost, the relay was aborted with messages
\* still in its channel, or the id has another use.
EndsAreTold ==
    \A s \in Streams, i \in Ids :
        handler[s].at = "done" /\ stream[s].id = i /\ forwarding =>
            \/ phase[i] = "ended" \/ i \in again \/ s \in untold
            \/ \E k \in DOMAIN out : out[k].id = i /\ out[k].type \in {"complete", "error"}

=============================================================================
