------------------------------ MODULE LiveQueries ------------------------------
(***************************************************************************)
(* The router's live queries: LiveQueryStore (src/live_query.rs), one for   *)
(* all connections, and the live sockets on it (handle_live_socket and      *)
(* handle_live_query_subscription in src/bin/router.rs).  The store is four *)
(* maps, each under a lock of its own; registering and unregistering take   *)
(* them one after the other, in main loops and subscription tasks alike.    *)
(***************************************************************************)
EXTENDS Naturals, Sequences, FiniteSets

CONSTANTS
    Conns,            \* connections
    LiveIds,          \* ids the clients use; the store is keyed by them alone
    MaxTasks,         \* bound: subscription tasks
    MaxActors,        \* bound: subscription tasks, and connections that do anything
    MaxTotal,         \* config.max_total
    MaxPerConnection, \* config.max_per_connection
    EventBuffer,      \* config.invalidation_buffer_size
    UpdateCapacity,   \* capacity of a connection's channel of updates
    OutgoingCapacity, \* capacity of a connection's channel of messages
    MaxHeard,         \* bound: messages from the clients
    MaxPublished      \* bound: invalidations

LiveTasks == 1..MaxTasks

\* "none" stands for no id and for no connection.
ASSUME LiveAssumption ==
    /\ {MaxTasks, MaxActors, MaxTotal, MaxPerConnection, MaxHeard, MaxPublished} \subseteq Nat
    /\ {EventBuffer, UpdateCapacity, OutgoingCapacity} \subseteq Nat \ {0}
    /\ Conns \cap LiveTasks = {} /\ "none" \notin LiveIds \cup Conns

VARIABLES
    queries,          \* id -> the task that registered it, 0 when absent
    triggerIndex,     \* ids under the trigger "*.*", the only one the router uses
    connectionIndex,  \* connection -> ids
    updateSenders,    \* id -> the connection whose update_tx is stored
    task,             \* subscription tasks: connection, id, where, and the channel sent to
    pending,          \* events each task has not received; more than EventBuffer: it lags
    removal,          \* the unregister each main loop or task is in
    socket,           \* main loops: where they are, and the ids still to unregister
    updates,          \* channel of updates of each connection
    outgoing,         \* messages in the outgoing channel of each connection
    relaying,         \* connections whose update relay runs
    forwarder,        \* connections whose forward task runs
    online,           \* connections whose client is there
    acting,           \* connections that have done anything
    heard, published

storeVars == <<queries, triggerIndex, connectionIndex, updateSenders>>
channels == <<updates, outgoing, relaying, forwarder>>
liveVars == <<storeVars, task, pending, removal, socket, channels, online, acting,
              heard, published>>

Actors == Conns \cup LiveTasks
NoConn == "none"
NoRemoval == [at |-> "none", id |-> "none", conn |-> NoConn]
NewRemoval(i) == [at |-> "query", id |-> i, conn |-> NoConn]
Awaiting == [at |-> "receive", left |-> {}]

LiveInit ==
    /\ queries = [i \in LiveIds |-> 0]
    /\ triggerIndex = {}
    /\ connectionIndex = [c \in Conns |-> {}]
    /\ updateSenders = [i \in LiveIds |-> NoConn]
    /\ task = [t \in LiveTasks |-> [conn |-> NoConn, id |-> "none", at |-> "none", to |-> NoConn]]
    /\ pending = [t \in LiveTasks |-> 0]
    /\ removal = [p \in Actors |-> NoRemoval]
    /\ socket = [c \in Conns |-> Awaiting]
    /\ updates = [c \in Conns |-> <<>>] /\ outgoing = [c \in Conns |-> 0]
    /\ relaying = Conns /\ forwarder = Conns /\ online = Conns
    /\ acting = {} /\ heard = 0 /\ published = 0

-----------------------------------------------------------------------------
\* Mutant of RemoveQuery: the maps are cleaned even if there was no entry.
RemoveQueryAnyway(p) ==
    LET i == removal[p].id IN
    /\ removal[p].at = "query"
    /\ removal' = [removal EXCEPT ![p].at = "trigger",
                                  ![p].conn = IF p \in Conns THEN p ELSE task[p].conn]
    /\ queries' = [queries EXCEPT ![i] = 0]
    /\ UNCHANGED <<triggerIndex, connectionIndex, updateSenders>>

\* LiveQueryStore::unregister: without an entry there is nothing to do ...
RemoveQuery(p) ==
    LET i == removal[p].id IN
    /\ removal[p].at = "query"
    /\ removal' = [removal EXCEPT ![p] =
                      IF queries[i] = 0 THEN NoRemoval
                      ELSE [at |-> "trigger", id |-> i, conn |-> task[queries[i]].conn]]
    /\ queries' = [queries EXCEPT ![i] = 0]
    /\ UNCHANGED <<triggerIndex, connectionIndex, updateSenders>>

\* ... with one, the id leaves the other maps, one lock at a time.
RemoveTrigger(p) ==
    /\ removal[p].at = "trigger"
    /\ removal' = [removal EXCEPT ![p].at = "connection"]
    /\ triggerIndex' = triggerIndex \ {removal[p].id}
    /\ UNCHANGED <<queries, connectionIndex, updateSenders>>

RemoveFromConnection(p) ==
    /\ removal[p].at = "connection"
    /\ removal' = [removal EXCEPT ![p].at = "sender"]
    /\ connectionIndex' = [connectionIndex EXCEPT ![removal[p].conn] = @ \ {removal[p].id}]
    /\ UNCHANGED <<queries, triggerIndex, updateSenders>>

RemoveSender(p) ==
    /\ removal[p].at = "sender"
    /\ removal' = [removal EXCEPT ![p] = NoRemoval]
    /\ updateSenders' = [updateSenders EXCEPT ![removal[p].id] = NoConn]
    /\ UNCHANGED <<queries, triggerIndex, connectionIndex>>

Unregister(p) ==
    /\ RemoveQuery(p) \/ RemoveTrigger(p) \/ RemoveFromConnection(p) \/ RemoveSender(p)
    /\ UNCHANGED <<task, pending, socket, channels, online, acting, heard, published>>

\* LiveQueryStore::invalidate: every listening task gets the event.
Invalidate ==
    /\ published < MaxPublished
    /\ published' = published + 1
    /\ pending' = [t \in LiveTasks |->
                      IF task[t].at \in {"listen", "get", "reexecute", "sender", "send"}
                         /\ pending[t] <= EventBuffer
                      THEN pending[t] + 1 ELSE pending[t]]
    /\ UNCHANGED <<storeVars, task, removal, socket, channels, online, acting, heard>>

-----------------------------------------------------------------------------
Stands(t, where) == task[t].at = where /\ removal[t] = NoRemoval
Moved(t, where) == task' = [task EXCEPT ![t].at = where]

\* No @live, or the initial execution fails: the task ends and the client is not told.
ExecuteInitial(t) ==
    /\ Stands(t, "execute")
    /\ \E where \in {"total", "done"} : Moved(t, where)
    /\ UNCHANGED <<storeVars, pending, removal, channels>>

\* LiveQueryStore::register checks one limit, then the other ...
CheckTotal(t) ==
    /\ Stands(t, "total")
    /\ Moved(t, IF Cardinality({i \in LiveIds : queries[i] # 0}) >= MaxTotal
                THEN "done" ELSE "per.connection")
    /\ UNCHANGED <<storeVars, pending, removal, channels>>

CheckConnection(t) ==
    /\ Stands(t, "per.connection")
    /\ Moved(t, IF Cardinality(connectionIndex[task[t].conn]) >= MaxPerConnection
                THEN "done" ELSE "insert")
    /\ UNCHANGED <<storeVars, pending, removal, channels>>

\* ... and fills the maps.
Insert(t) ==
    LET i == task[t].id
        c == task[t].conn
    IN  \/ /\ Stands(t, "insert") /\ Moved(t, "insert.trigger")
           /\ queries' = [queries EXCEPT ![i] = t]
           /\ UNCHANGED <<triggerIndex, connectionIndex, updateSenders>>
        \/ /\ Stands(t, "insert.trigger") /\ Moved(t, "insert.connection")
           /\ triggerIndex' = triggerIndex \cup {i}
           /\ UNCHANGED <<queries, connectionIndex, updateSenders>>
        \/ /\ Stands(t, "insert.connection") /\ Moved(t, "insert.sender")
           /\ connectionIndex' = [connectionIndex EXCEPT ![c] = @ \cup {i}]
           /\ UNCHANGED <<queries, triggerIndex, updateSenders>>
        \/ /\ Stands(t, "insert.sender") /\ Moved(t, "initial")
           /\ updateSenders' = [updateSenders EXCEPT ![i] = c]
           /\ UNCHANGED <<queries, triggerIndex, connectionIndex>>

InsertInto(t) == Insert(t) /\ UNCHANGED <<pending, removal, channels>>

\* Mutant of ToRelay: the channel is unbounded.
ToRelayUnbounded(c, t) ==
    \/ c \in relaying /\ updates' = [updates EXCEPT ![c] = Append(@, t)]
    \/ c \notin relaying /\ UNCHANGED updates

\* update_tx.send to a connection: waits for room; fails when its relay is gone.
ToRelay(c, t) ==
    \/ c \in relaying /\ Len(updates[c]) < UpdateCapacity
       /\ updates' = [updates EXCEPT ![c] = Append(@, t)]
    \/ c \notin relaying /\ UNCHANGED updates

\* The initial result is sent, and only then the task subscribes to the events.
SendInitial(t) ==
    LET c == task[t].conn IN
    /\ Stands(t, "initial")
    /\ ToRelay(c, t)
    /\ Moved(t, IF c \in relaying THEN "listen" ELSE "done")
    /\ removal' = IF c \in relaying THEN removal
                  ELSE [removal EXCEPT ![t] = NewRemoval(task[t].id)]
    /\ UNCHANGED <<storeVars, pending, outgoing, relaying, forwarder>>

\* recv(): an event, or Lagged, which ends the loop with the query registered.
ReceiveEvent(t) ==
    /\ Stands(t, "listen") /\ pending[t] > 0
    /\ IF pending[t] > EventBuffer
       THEN Moved(t, "done") /\ pending' = [pending EXCEPT ![t] = 0]
       ELSE Moved(t, "get") /\ pending' = [pending EXCEPT ![t] = @ - 1]
    /\ UNCHANGED <<storeVars, removal, channels>>

\* The query may be unregistered by now; an event within throttle_ms is dropped.
GetQuery(t) ==
    /\ Stands(t, "get")
    /\ IF queries[task[t].id] = 0 THEN Moved(t, "done")
       ELSE \E where \in {"listen", "reexecute"} : Moved(t, where)
    /\ UNCHANGED <<storeVars, pending, removal, channels>>

ReexecuteQuery(t) ==
    /\ Stands(t, "reexecute")
    /\ \E where \in {"listen", "sender"} : Moved(t, where)
    /\ UNCHANGED <<storeVars, pending, removal, channels>>

\* send_update: the sender stored under the id, whosever it is, gets the update.
FindSender(t) ==
    LET to == updateSenders[task[t].id] IN
    /\ Stands(t, "sender")
    /\ task' = [task EXCEPT ![t].at = IF to = NoConn THEN "done" ELSE "send", ![t].to = to]
    /\ UNCHANGED <<storeVars, pending, removal, channels>>

SendUpdate(t) ==
    LET c == task[t].to IN
    /\ Stands(t, "send")
    /\ ToRelay(c, t)
    /\ task' = [task EXCEPT ![t].at = IF c \in relaying THEN "listen" ELSE "done",
                            ![t].to = NoConn]
    /\ UNCHANGED <<storeVars, pending, removal, outgoing, relaying, forwarder>>

LiveTask(t) ==
    /\ \/ ExecuteInitial(t) \/ CheckTotal(t) \/ CheckConnection(t) \/ InsertInto(t)
       \/ SendInitial(t) \/ ReceiveEvent(t) \/ GetQuery(t) \/ ReexecuteQuery(t)
       \/ FindSender(t) \/ SendUpdate(t)
    /\ UNCHANGED <<socket, online, acting, heard, published>>

-----------------------------------------------------------------------------
\* The bound on who takes part: `more` tasks are started by c.
Acts(c, more) ==
    LET tasks == {t \in LiveTasks : task[t].at # "none"} IN
    /\ acting' = acting \cup {c}
    /\ Cardinality(acting \cup {c}) + Cardinality(tasks) + more <= MaxActors

\* The main loop of a connection takes the client's next message.
Takes(c) ==
    /\ socket[c].at = "receive" /\ removal[c] = NoRemoval
    /\ c \in online /\ heard < MaxHeard
    /\ heard' = heard + 1
    /\ UNCHANGED <<storeVars, pending, channels, online, published>>

\* connection_init, ping, or a subscribe that is refused.
AnsweredMessage(c) ==
    /\ Takes(c) /\ Acts(c, 0)
    /\ socket' = [socket EXCEPT ![c].at = "answer"]
    /\ UNCHANGED <<task, removal>>

SubscribeLive(c, i) ==
    /\ Takes(c) /\ Acts(c, 1)
    /\ \E t \in LiveTasks :
         /\ task[t].at = "none" /\ \A r \in 1..(t - 1) : task[r].at # "none"
         /\ task' = [task EXCEPT ![t] = [conn |-> c, id |-> i, at |-> "execute", to |-> NoConn]]
    /\ UNCHANGED <<socket, removal>>

CompleteLive(c, i) ==
    /\ Takes(c) /\ Acts(c, 0)
    /\ removal' = [removal EXCEPT ![c] = NewRemoval(i)]
    /\ UNCHANGED <<socket, task>>

\* outgoing_tx.send by the main loop: waits for room, a failure is ignored.
SendAnswer(c) ==
    /\ socket[c].at = "answer"
    /\ \/ c \in forwarder /\ outgoing[c] < OutgoingCapacity
          /\ outgoing' = [outgoing EXCEPT ![c] = @ + 1]
       \/ c \notin forwarder /\ UNCHANGED outgoing
    /\ socket' = [socket EXCEPT ![c].at = "receive"]
    /\ UNCHANGED <<storeVars, task, pending, removal, updates, relaying, forwarder, online,
                   acting, heard, published>>

\* unregister_connection: the ids of the connection are read, then unregistered
\* one after the other.  What is registered after the read stays.
CloseLive(c) ==
    /\ removal[c] = NoRemoval
    /\ \/ /\ socket[c].at = "receive" /\ c \notin online
          /\ socket' = [socket EXCEPT ![c] = [at |-> "closing", left |-> connectionIndex[c]]]
          /\ UNCHANGED removal
       \/ /\ socket[c].at = "closing" /\ socket[c].left = {}
          /\ socket' = [socket EXCEPT ![c].at = "closed"]
          /\ UNCHANGED removal
       \/ /\ socket[c].at = "closing"
          /\ \E i \in socket[c].left :
               /\ socket' = [socket EXCEPT ![c].left = @ \ {i}]
               /\ removal' = [removal EXCEPT ![c] = NewRemoval(i)]
    /\ UNCHANGED <<storeVars, task, pending, channels, online, acting, heard, published>>

\* Mutant of RelayUpdate: the relay waits for room in the outgoing channel.
RelayUpdateWaits(c) ==
    /\ c \in relaying /\ updates[c] # <<>>
    /\ c \notin forwarder \/ outgoing[c] < OutgoingCapacity
    /\ updates' = [updates EXCEPT ![c] = IF c \in forwarder THEN Tail(@) ELSE <<>>]
    /\ outgoing' = [outgoing EXCEPT ![c] = IF c \in forwarder THEN @ + 1 ELSE @]
    /\ relaying' = IF c \in forwarder THEN relaying ELSE relaying \ {c}
    /\ UNCHANGED <<storeVars, task, pending, removal, socket, forwarder, online, acting, heard, published>>

\* try_send: an update that finds no room is dropped, a closed channel ends the relay.
RelayUpdate(c) ==
    /\ c \in relaying /\ updates[c] # <<>>
    /\ updates' = [updates EXCEPT ![c] = IF c \in forwarder THEN Tail(@) ELSE <<>>]
    /\ outgoing' = [outgoing EXCEPT ![c] =
                       IF c \in forwarder /\ @ < OutgoingCapacity THEN @ + 1 ELSE @]
    /\ relaying' = IF c \in forwarder THEN relaying ELSE relaying \ {c}
    /\ UNCHANGED <<storeVars, task, pending, removal, socket, forwarder, online, acting, heard, published>>

\* Holders of a connection's update_tx: its main loop, its tasks, and the store.
UpdateSenderLeft(c) ==
    \/ socket[c].at # "closed"
    \/ \E t \in LiveTasks : (task[t].conn = c \/ task[t].to = c) /\ task[t].at # "done"
    \/ \E i \in LiveIds : updateSenders[i] = c

RelayEnds(c) ==
    /\ c \in relaying /\ updates[c] = <<>> /\ ~UpdateSenderLeft(c)
    /\ relaying' = relaying \ {c}
    /\ UNCHANGED <<storeVars, task, pending, removal, socket, updates, outgoing, forwarder, online,
                   acting, heard, published>>

\* The forward task: as slow as the client reads.
ForwardMessage(c) ==
    /\ c \in forwarder
    /\ \/ outgoing[c] > 0 /\ c \in online /\ outgoing' = [outgoing EXCEPT ![c] = @ - 1]
          /\ UNCHANGED forwarder
       \/ /\ \/ outgoing[c] > 0 /\ c \notin online
             \/ outgoing[c] = 0 /\ socket[c].at = "closed" /\ c \notin relaying
          /\ forwarder' = forwarder \ {c} /\ outgoing' = [outgoing EXCEPT ![c] = 0]
    /\ UNCHANGED <<storeVars, task, pending, removal, socket, updates, relaying, online,
                   acting, heard, published>>

LeaveLive(c) ==
    /\ c \in online /\ Acts(c, 0)
    /\ online' = online \ {c}
    /\ UNCHANGED <<storeVars, task, pending, removal, socket, channels, heard, published>>

-----------------------------------------------------------------------------
LiveWork ==
    \/ \E p \in Actors : Unregister(p)
    \/ \E t \in LiveTasks : LiveTask(t)
    \/ \E c \in Conns : SendAnswer(c) \/ CloseLive(c) \/ RelayUpdate(c) \/ RelayEnds(c)

LiveNext ==
    \/ \E c \in Conns : \/ AnsweredMessage(c) \/ LeaveLive(c) \/ ForwardMessage(c)
                        \/ \E i \in LiveIds : SubscribeLive(c, i) \/ CompleteLive(c, i)
    \/ Invalidate
    \/ LiveWork

LiveTypeOK ==
    /\ queries \in [LiveIds -> LiveTasks \cup {0}]
    /\ triggerIndex \subseteq LiveIds
    /\ connectionIndex \in [Conns -> SUBSET LiveIds]
    /\ updateSenders \in [LiveIds -> Conns \cup {NoConn}]
    /\ \A t \in LiveTasks : pending[t] \in 0..(EventBuffer + 1)
    /\ \A c \in Conns : Len(updates[c]) <= UpdateCapacity /\ outgoing[c] \in 0..OutgoingCapacity

\* Registering and unregistering interleave lock by lock, yet a query that is in the
\* store once its registration is over can be triggered, unregistered with its
\* connection, and sent to, unless another subscription uses its id.
RegisteredIsReachable ==
    \A t \in LiveTasks :
        LET i == task[t].id IN
        /\ task[t].at \in {"initial", "listen", "get", "reexecute", "sender", "send"}
        /\ \A r \in LiveTasks \ {t} : task[r].id # i
        /\ queries[i] = t
        => i \in triggerIndex /\ i \in connectionIndex[task[t].conn]
           /\ updateSenders[i] = task[t].conn

Sending(t) == task[t].at \in {"initial", "send"}

\* A client that reads slowly, or not at all, holds up no task that has a result for
\* it, so no other client's: the promise of the comment on the update relay.
SlowClientBlocksNoTask ==
    (\E t \in LiveTasks : Sending(t)) ~> (\A t \in LiveTasks : ~Sending(t))

=============================================================================
