--------------------------- MODULE SubscriptionSocket ---------------------------
(***************************************************************************)
(* The gateway's subscription endpoint (src/subscription.rs): one WebSocket *)
(* connection.  The main loop (`loop`) registers subscriptions and cancels  *)
(* them; each runs in a resolver task that reads a gRPC stream; the write   *)
(* task drains the bounded channel they all send to, and cancels what is    *)
(* registered when it ends.                                                 *)
(***************************************************************************)
EXTENDS Naturals, Sequences, FiniteSets

CONSTANTS
    SubIds,            \* operation ids the client uses
    MaxResolvers,      \* bound: subscriptions accepted
    MaxSubscriptions,  \* config.max_subscriptions_per_connection
    OutboundCapacity,  \* capacity of the outbound channel
    MaxReceived,       \* bound: messages from the client
    MaxStreamed        \* bound: messages from the gRPC streams

Resolvers == 1..MaxResolvers

\* "none" stands for no id.
ASSUME SubscriptionAssumption ==
    /\ "none" \notin SubIds
    /\ {MaxResolvers, MaxReceived, MaxStreamed} \subseteq Nat
    /\ {MaxSubscriptions, OutboundCapacity} \subseteq Nat \ {0}

VARIABLES
    loop,          \* the main loop: where it is, and on which id
    registry,      \* SubscriptionRegistry: id -> resolver, 0 when absent
    resolver,      \* resolver tasks: their id, where they are, what they send
    cancelRx,      \* cancel channel of each resolver: open, signalled, or its sender dropped
    outbound,      \* channel to the write task
    writer,        \* the write task: running, cleaning, ended
    present,       \* the client is connected
    received,      \* messages received from the client
    streamed,      \* messages received from gRPC streams
    subPhase, subItems   \* history: what the client has seen of each id

socketState == <<loop, registry, resolver, cancelRx, outbound, writer, present, received,
                 streamed, subPhase, subItems>>
subHistory == <<subPhase, subItems>>

Listening == [at |-> "receive", id |-> "none"]
Unborn == [id |-> "none", at |-> "none", msg |-> "none"]

\* require_connection_init or not.
SocketInit ==
    /\ loop \in {Listening, [Listening EXCEPT !.at = "init"]}
    /\ registry = [i \in SubIds |-> 0]
    /\ resolver = [k \in Resolvers |-> Unborn]
    /\ cancelRx = [k \in Resolvers |-> "open"]
    /\ outbound = <<>> /\ writer = "running"
    /\ present = TRUE /\ received = 0 /\ streamed = 0
    /\ subPhase = [i \in SubIds |-> "unused"] /\ subItems = [i \in SubIds |-> 0]

-----------------------------------------------------------------------------
\* outbound_tx.send: waits for room, fails when write_messages has returned.
ToWriter(type, i) ==
    \/ /\ writer = "running" /\ Len(outbound) < OutboundCapacity
       /\ outbound' = Append(outbound, [type |-> type, id |-> i])
    \/ writer # "running" /\ UNCHANGED outbound

\* The main loop takes the client's next message; go is where it leads.
Hears(go, i) ==
    /\ present /\ received < MaxReceived
    /\ received' = received + 1
    /\ loop' = [at |-> go, id |-> i]
    /\ UNCHANGED <<registry, resolver, cancelRx, outbound, writer, present, streamed>>

InitMessage == loop.at = "init" /\ Hears("init.ack", "none") /\ UNCHANGED subHistory

\* connection_init_timeout, or the client closes first: handle_socket awaits the
\* write task while it still owns a sender of its channel.
InitFails ==
    /\ loop.at \in {"init", "init.ack"}
    /\ loop' = [Listening EXCEPT !.at = "abandoned"]
    /\ UNCHANGED <<registry, resolver, cancelRx, outbound, writer, present, received, streamed,
                   subHistory>>

\* A ping, or connection_init again.
PingMessage == loop.at = "receive" /\ Hears("answer", "none") /\ UNCHANGED subHistory

\* pong or connection_ack; a failed send is ignored.
Acknowledge ==
    /\ loop.at \in {"init.ack", "answer"}
    /\ ToWriter("ack", "none")
    /\ loop' = Listening
    /\ UNCHANGED <<registry, resolver, cancelRx, writer, present, received, streamed, subHistory>>

SubscribeMessage(i) ==
    /\ loop.at = "receive" /\ Hears("contains", i)
    /\ subPhase' = [subPhase EXCEPT ![i] = IF @ \in {"unused", "ended"} THEN "open" ELSE "reused"]
    /\ subItems' = [subItems EXCEPT ![i] = 0]

\* Mutant of CheckId: an id in use is accepted.
CheckIdNot ==
    /\ loop.at = "contains" /\ loop' = [loop EXCEPT !.at = "limit"]
    /\ UNCHANGED <<registry, resolver, cancelRx, outbound, writer, present, received, streamed,
                   subHistory>>

\* handle_subscribe looks whether the id is in the registry ...
CheckId ==
    /\ loop.at = "contains"
    /\ loop' = [loop EXCEPT !.at = IF registry[loop.id] # 0 THEN "refuse" ELSE "limit"]
    /\ UNCHANGED <<registry, resolver, cancelRx, outbound, writer, present, received, streamed,
                   subHistory>>

\* ... then, under another read lock, whether the registry is full; then it parses
\* the payload.
CheckLimit ==
    /\ loop.at = "limit"
    /\ \E readable \in BOOLEAN :
         loop' = [loop EXCEPT !.at =
            IF Cardinality({i \in SubIds : registry[i] # 0}) < MaxSubscriptions /\ readable
            THEN "register" ELSE "refuse"]
    /\ UNCHANGED <<registry, resolver, cancelRx, outbound, writer, present, received, streamed,
                   subHistory>>

Refusal ==
    /\ loop.at = "refuse"
    /\ ToWriter("error", loop.id)
    /\ loop' = Listening
    /\ UNCHANGED <<registry, resolver, cancelRx, writer, present, received, streamed, subHistory>>

\* The subscription is registered and its resolver spawned.
Register ==
    /\ loop.at = "register"
    /\ \E k \in Resolvers :
         /\ resolver[k] = Unborn /\ \A j \in 1..(k - 1) : resolver[j] # Unborn
         /\ registry' = [registry EXCEPT ![loop.id] = k]
         /\ resolver' = [resolver EXCEPT ![k] = [id |-> loop.id, at |-> "opening", msg |-> "none"]]
    /\ loop' = Listening
    /\ UNCHANGED <<cancelRx, outbound, writer, present, received, streamed, subHistory>>

\* complete: SubscriptionRegistry::cancel, whose send always finds room.
CompleteMessage(i) ==
    /\ loop.at = "receive" /\ present /\ received < MaxReceived
    /\ received' = received + 1
    /\ registry' = [registry EXCEPT ![i] = 0]
    /\ cancelRx' = [k \in Resolvers |-> IF k = registry[i] THEN "signalled" ELSE cancelRx[k]]
    /\ UNCHANGED <<loop, resolver, outbound, writer, present, streamed, subHistory>>

\* process_messages returns and drops its sender.
Leaves ==
    /\ loop.at = "receive" /\ ~present
    /\ loop' = [Listening EXCEPT !.at = "closed"]
    /\ UNCHANGED <<registry, resolver, cancelRx, outbound, writer, present, received, streamed,
                   subHistory>>

-----------------------------------------------------------------------------
Moves(k, where, msg) == resolver' = [resolver EXCEPT ![k].at = where, ![k].msg = msg]

\* The query is parsed and the gRPC stream opened, or one of them fails: resolve
\* returns the error and the client is not told.
OpenStream(k) ==
    /\ resolver[k].at = "opening"
    /\ \E where \in {"streaming", "remove"} : Moves(k, where, "none")
    /\ UNCHANGED <<loop, registry, cancelRx, outbound, writer, present, received, streamed,
                   subHistory>>

\* select!: the stream has an item (one that cannot be converted ends the task
\* without a word), an error, or its end.
StreamItem(k) ==
    /\ resolver[k].at = "streaming" /\ streamed < MaxStreamed
    /\ streamed' = streamed + 1
    /\ \/ \E type \in {"next", "error", "complete"} : Moves(k, "send", type)
       \/ Moves(k, "remove", "none")
    /\ UNCHANGED <<loop, registry, cancelRx, outbound, writer, present, received, subHistory>>

\* Mutant of Cancelled: only a message counts, not a dropped sender.
CancelledBySignal(k) ==
    /\ resolver[k].at = "streaming" /\ cancelRx[k] = "signalled"
    /\ Moves(k, "remove", "none")
    /\ UNCHANGED <<loop, registry, cancelRx, outbound, writer, present, received, streamed,
                   subHistory>>

\* ... or the cancel channel has a message, or lost its sender.
Cancelled(k) ==
    /\ resolver[k].at = "streaming" /\ cancelRx[k] # "open"
    /\ Moves(k, "remove", "none")
    /\ UNCHANGED <<loop, registry, cancelRx, outbound, writer, present, received, streamed,
                   subHistory>>

\* Mutant of SendItem: after an error the loop goes on to the stream's end.
SendItemGoesOn(k) ==
    /\ resolver[k].at = "send"
    /\ ToWriter(resolver[k].msg, resolver[k].id)
    /\ Moves(k, IF resolver[k].msg # "complete" /\ writer = "running" THEN "streaming"
                ELSE "remove", "none")
    /\ UNCHANGED <<loop, registry, cancelRx, writer, present, received, streamed, subHistory>>

SendItem(k) ==
    /\ resolver[k].at = "send"
    /\ ToWriter(resolver[k].msg, resolver[k].id)
    /\ Moves(k, IF resolver[k].msg = "next" /\ writer = "running" THEN "streaming" ELSE "remove",
             "none")
    /\ UNCHANGED <<loop, registry, cancelRx, writer, present, received, streamed, subHistory>>

\* The task removes its id, whoever is registered under it by now.
RemoveId(k) ==
    LET i == resolver[k].id IN
    /\ resolver[k].at = "remove"
    /\ registry' = [registry EXCEPT ![i] = 0]
    /\ cancelRx' = [j \in Resolvers |->
                       IF j = registry[i] /\ cancelRx[j] = "open" THEN "dropped" ELSE cancelRx[j]]
    /\ Moves(k, "done", "none")
    /\ UNCHANGED <<loop, outbound, writer, present, received, streamed, subHistory>>

\* Senders of the outbound channel.
SenderLeft ==
    \/ loop.at # "closed"
    \/ \E k \in Resolvers : resolver[k].at \in {"opening", "streaming", "send"}

\* write_messages: the next message goes to the client, or the task is over, as
\* the client or every sender is gone.
Write ==
    /\ writer = "running"
    /\ \/ /\ outbound # <<>> /\ present
          /\ outbound' = Tail(outbound)
          /\ LET m == Head(outbound) IN
             IF m.id = "none" \/ subPhase[m.id] = "reused" THEN UNCHANGED subHistory
             ELSE IF m.type = "next"
             THEN subItems' = [subItems EXCEPT ![m.id] = @ + 1] /\ UNCHANGED subPhase
             ELSE subPhase' = [subPhase EXCEPT ![m.id] = IF @ = "open" THEN "ended" ELSE "broken"]
                  /\ UNCHANGED subItems
          /\ UNCHANGED writer
       \/ /\ (outbound # <<>> /\ ~present) \/ (outbound = <<>> /\ ~SenderLeft)
          /\ writer' = "cleaning" /\ outbound' = <<>>
          /\ UNCHANGED subHistory
    /\ UNCHANGED <<loop, registry, resolver, cancelRx, present, received, streamed>>

\* Then SubscriptionRegistry::cancel_all.
CancelAll ==
    /\ writer = "cleaning"
    /\ writer' = "ended"
    /\ registry' = [i \in SubIds |-> 0]
    /\ cancelRx' = [k \in Resolvers |-> IF \E i \in SubIds : registry[i] = k
                                        THEN "signalled" ELSE cancelRx[k]]
    /\ UNCHANGED <<loop, resolver, outbound, present, received, streamed, subHistory>>

\* The client closes the socket, or is lost.
Vanish ==
    /\ present /\ present' = FALSE
    /\ UNCHANGED <<loop, registry, resolver, cancelRx, outbound, writer, received, streamed,
                   subHistory>>

-----------------------------------------------------------------------------
\* The steps that wait for nobody outside.
SocketTasks ==
    \/ Acknowledge \/ CheckId \/ CheckLimit \/ Refusal \/ Register \/ Leaves
    \/ Write \/ CancelAll
    \/ \E k \in Resolvers : Cancelled(k) \/ SendItem(k) \/ RemoveId(k)

SocketNext ==
    \/ InitMessage \/ InitFails \/ PingMessage \/ Vanish
    \/ \E i \in SubIds : SubscribeMessage(i) \/ CompleteMessage(i)
    \/ \E k \in Resolvers : OpenStream(k) \/ StreamItem(k)
    \/ SocketTasks

SocketTypeOK ==
    /\ loop.at \in {"init", "init.ack", "receive", "answer", "contains", "limit", "register",
                    "refuse", "abandoned", "closed"}
    /\ registry \in [SubIds -> Resolvers \cup {0}]
    /\ \A k \in Resolvers : /\ resolver[k].at \in {"none", "opening", "streaming", "send",
                                                   "remove", "done"}
                            /\ cancelRx[k] \in {"open", "signalled", "dropped"}
    /\ Len(outbound) <= OutboundCapacity
    /\ writer \in {"running", "cleaning", "ended"}

\* Resolvers, the main loop and the write task share one channel, yet the client
\* sees what the protocol promises for every id it uses anew only after its end.
SocketPromise == INSTANCE SubscriptionStream WITH
    Ids <- SubIds, phase <- subPhase, items <- subItems
SocketKeepsPromise == SocketPromise!Spec

\* A resolver removes an id it may no longer own.  As long as the client completes no
\* subscription whose id it means to use again, no subscription loses its entry, the only
\* way to cancel it, to another one, whatever else the client sends.
OwnEntryKept ==
    \A k \in Resolvers :
        /\ resolver[k].at \notin {"none", "done"}
        /\ \A j \in 1..k : resolver[j].id = resolver[k].id => cancelRx[j] # "signalled"
        => registry[resolver[k].id] = k

Stopping(k) == resolver[k].at \in {"streaming", "send", "remove"} /\ cancelRx[k] # "open"

\* Resolvers that were cancelled, or can no longer be, end, whether their streams
\* go on, are silent, or their last item waits for room.
CancelEnds == (\E k \in Resolvers : Stopping(k)) ~> (\A k \in Resolvers : ~Stopping(k))

=============================================================================
