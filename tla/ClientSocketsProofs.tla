-------------------------- MODULE ClientSocketsProofs --------------------------
(***************************************************************************)
(* The two kinds of client connection a server holds tasks for.             *)
(*                                                                          *)
(* SubscriptionSocket: OneSender is why the client sees a well-formed stream,*)
(* and Entries why the registry names the resolver an id belongs to: of two *)
(* resolvers with one id, the former was cancelled and has not noticed.     *)
(* Before the connection is initialized nothing was sent (NothingYet), which*)
(* is why a connection whose init failed is never released.                  *)
(*                                                                          *)
(* LiveQueries: OwnerIsReachable follows the four maps along the registration*)
(* of a task whose id no other task has used.  It rests on StoreFollowsTasks:*)
(* the store, and a removal under way, know only ids that some task has, so *)
(* that the first task of an id finds nothing of it.  A relay serves for as *)
(* long as its connection is read from and anybody can send (RelayServes).  *)
(***************************************************************************)
EXTENDS SubscriptionSocket, LiveQueries, TLAPS

SocketSpec == SocketInit /\ [][SocketNext]_socketState

Asked == {"contains", "limit", "register", "refuse"}
Streaming == {"opening", "streaming", "send"}
SocketMessages == [type : {"next", "error", "complete", "ack"}, id : SubIds \cup {"none"}]

SocketShape ==
    /\ loop \in [at : {"init", "init.ack", "receive", "answer", "abandoned", "closed"} \cup Asked,
                 id : SubIds \cup {"none"}]
    /\ loop.at \in Asked => loop.id \in SubIds
    /\ registry \in [SubIds -> Resolvers \cup {0}]
    /\ resolver \in [Resolvers -> {Unborn} \cup
                        [id : SubIds, at : Streaming \cup {"remove", "done"},
                         msg : {"none", "next", "error", "complete"}]]
    /\ \A k \in Resolvers : resolver[k].at = "send" => resolver[k].msg # "none"
    /\ cancelRx \in [Resolvers -> {"open", "signalled", "dropped"}]
    /\ outbound \in Seq(SocketMessages) /\ Len(outbound) <= OutboundCapacity
    /\ \A n \in DOMAIN outbound : outbound[n].type = "ack" <=> outbound[n].id = "none"
    /\ writer \in {"running", "cleaning", "ended"}
    /\ subPhase \in [SubIds -> {"unused", "open", "ended", "reused"}]
    /\ subItems \in [SubIds -> Nat]

\* What may still send for an operation id: the loop while it handles a subscribe, or a
\* resolver.
LoopSends(i) == loop.at \in Asked /\ loop.id = i
ResolverSends(i, k) == resolver[k].id = i /\ resolver[k].at \in Streaming
SocketSends(i) == LoopSends(i) \/ \E k \in Resolvers : ResolverSends(i, k)
OnItsWay(i) == \E n \in DOMAIN outbound : outbound[n].id = i
EndOnItsWay(i) == \E n \in DOMAIN outbound : outbound[n].id = i /\ outbound[n].type # "next"

\* One of them at a time, and nothing follows an end, as long as the id is not used before it.
OneSender ==
    \A i \in SubIds : subPhase[i] # "reused" =>
        /\ \A k, j \in Resolvers : ResolverSends(i, k) /\ ResolverSends(i, j) => k = j
        /\ \A k \in Resolvers : ResolverSends(i, k) => ~LoopSends(i)
        /\ \A n, l \in DOMAIN outbound :
              n < l /\ outbound[n].id = i /\ outbound[l].id = i => outbound[n].type = "next"
        /\ EndOnItsWay(i) => ~SocketSends(i)
        /\ subPhase[i] # "open" => ~SocketSends(i) /\ ~OnItsWay(i)

\* Resolvers start one after the other; the loop registers an id that is free; and of two
\* resolvers with one id the former was cancelled, or had its entry taken by a resolver that
\* outlived its own cancellation.
Outlived(k) == \E j \in 1..k : resolver[j].id = resolver[k].id /\ cancelRx[j] = "signalled"

Entries ==
    /\ \A k \in Resolvers : resolver[k] # Unborn => \A j \in 1..k : resolver[j] # Unborn
    /\ loop.at \in {"limit", "register"} => registry[loop.id] = 0
    /\ \A i \in SubIds : registry[i] # 0 => resolver[registry[i]].id = i
    /\ \A k \in Resolvers : resolver[k].at \notin {"none", "done"} =>
         \/ Outlived(k)
         \/ /\ registry[resolver[k].id] = k
            /\ \A j \in (k + 1)..MaxResolvers : resolver[j].id # resolver[k].id

SocketInv == SocketShape /\ OneSender /\ Entries

LEMMA SocketConstants ==
  /\ MaxResolvers \in Nat /\ OutboundCapacity \in Nat /\ OutboundCapacity > 0
  /\ "none" \notin SubIds
<1>1. /\ {MaxResolvers, MaxReceived, MaxStreamed} \subseteq Nat
      /\ {MaxSubscriptions, OutboundCapacity} \subseteq Nat \ {0}
      /\ "none" \notin SubIds
  BY SubscriptionAssumption, Zenon DEF SubscriptionAssumption
<1>2. MaxResolvers \in Nat /\ OutboundCapacity \in Nat \ {0}
  BY <1>1
<1> QED
  BY <1>1, <1>2

LEMMA SocketInvHoldsFirst == SocketInit => SocketInv
<1> SUFFICES ASSUME SocketInit PROVE SocketInv
  OBVIOUS
<1>1. SocketShape
  <2>1. outbound \in Seq(SocketMessages) /\ Len(outbound) = 0 /\ DOMAIN outbound = {}
    BY DEF SocketInit
  <2> QED
    BY <2>1, SocketConstants DEF SocketInit, SocketShape, Listening, Asked, Unborn
<1>2. OneSender
  BY DEF SocketInit, OneSender, ResolverSends, SocketSends, LoopSends, OnItsWay, EndOnItsWay,
         Listening, Asked, Unborn, Streaming
<1>3. Entries
  BY DEF SocketInit, Entries, Listening, Unborn
<1> QED
  BY <1>1, <1>2, <1>3 DEF SocketInv

\* A step of one resolver.
LEMMA ResolverMoves ==
  ASSUME SocketShape, NEW k \in Resolvers, resolver[k].at \in Streaming \cup {"remove", "done"},
         NEW where \in Streaming \cup {"remove", "done"},
         NEW msg \in {"none", "next", "error", "complete"}, where = "send" => msg # "none",
         Moves(k, where, msg)
  PROVE  /\ resolver' \in [Resolvers -> {Unborn} \cup
                        [id : SubIds, at : Streaming \cup {"remove", "done"},
                         msg : {"none", "next", "error", "complete"}]]
         /\ \A j \in Resolvers : resolver'[j].at = "send" => resolver'[j].msg # "none"
         /\ \A j \in Resolvers \ {k} : resolver'[j] = resolver[j]
         /\ resolver'[k].id = resolver[k].id /\ resolver'[k].at = where
         /\ resolver'[k] # Unborn /\ resolver[k] # Unborn /\ resolver[k].id \in SubIds
<1>1. resolver[k] \in [id : SubIds, at : Streaming \cup {"remove", "done"},
                       msg : {"none", "next", "error", "complete"}]
  BY DEF SocketShape, Unborn, Streaming
<1>2. resolver \in [Resolvers -> {Unborn} \cup
                        [id : SubIds, at : Streaming \cup {"remove", "done"},
                         msg : {"none", "next", "error", "complete"}]]
  BY DEF SocketShape
<1>3. /\ resolver'[k] = [id |-> resolver[k].id, at |-> where, msg |-> msg]
      /\ DOMAIN resolver' = Resolvers /\ resolver' = [j \in Resolvers |-> resolver'[j]]
      /\ \A j \in Resolvers \ {k} : resolver'[j] = resolver[j]
  BY <1>1, <1>2 DEF Moves
<1>4. where # "none" /\ resolver[k].at # "none"
  BY DEF Streaming
<1>5. [id |-> resolver[k].id, at |-> where, msg |-> msg] \in
         [id : SubIds, at : Streaming \cup {"remove", "done"}, msg : {"none", "next", "error", "complete"}]
  BY <1>1
<1>6. resolver' \in [Resolvers -> {Unborn} \cup
                        [id : SubIds, at : Streaming \cup {"remove", "done"},
                         msg : {"none", "next", "error", "complete"}]]
  BY <1>2, <1>3, <1>5
<1>7. \A j \in Resolvers : resolver'[j].at = "send" => resolver'[j].msg # "none"
  <2>1. \A j \in Resolvers : resolver[j].at = "send" => resolver[j].msg # "none"
    BY DEF SocketShape
  <2>2. resolver'[k].at = where /\ resolver'[k].msg = msg
    BY <1>3
  <2> QED
    BY <1>3, <2>1, <2>2
<1> QED
  BY <1>1, <1>3, <1>4, <1>6, <1>7 DEF Unborn

\* A message to the write task: appended, or lost with it.
LEMMA ToWriterKeepsShape ==
  ASSUME SocketShape, NEW type \in {"next", "error", "complete", "ack"}, NEW i \in SubIds \cup {"none"},
         type = "ack" <=> i = "none", ToWriter(type, i)
  PROVE  /\ outbound' \in Seq(SocketMessages) /\ Len(outbound') <= OutboundCapacity
         /\ \A n \in DOMAIN outbound' : outbound'[n].type = "ack" <=> outbound'[n].id = "none"
<1>1. CASE outbound' = Append(outbound, [type |-> type, id |-> i]) /\ Len(outbound) < OutboundCapacity
  <2>1. [type |-> type, id |-> i] \in SocketMessages
    BY DEF SocketMessages
  <2>2. /\ outbound' \in Seq(SocketMessages) /\ Len(outbound') = Len(outbound) + 1 /\ Len(outbound) \in Nat
        /\ DOMAIN outbound' = 1..(Len(outbound) + 1) /\ DOMAIN outbound = 1..Len(outbound)
        /\ \A n \in DOMAIN outbound : outbound'[n] = outbound[n]
        /\ outbound'[Len(outbound) + 1] = [type |-> type, id |-> i]
    BY <1>1, <2>1 DEF SocketShape
  <2>3. \A n \in DOMAIN outbound' : outbound'[n].type = "ack" <=> outbound'[n].id = "none"
    <3> SUFFICES ASSUME NEW n \in 1..(Len(outbound) + 1)
                 PROVE  outbound'[n].type = "ack" <=> outbound'[n].id = "none"
      BY <2>2
    <3>1. CASE n = Len(outbound) + 1
      <4>1. outbound'[n] = [type |-> type, id |-> i]
        BY <2>2, <3>1
      <4> QED
        BY <4>1
    <3>2. CASE n # Len(outbound) + 1
      <4>1. n \in DOMAIN outbound
        BY ONLY <2>2, <3>2, n \in 1..(Len(outbound) + 1)
      <4> QED
        BY <2>2, <4>1 DEF SocketShape
    <3> QED
      BY <3>1, <3>2
  <2>4. Len(outbound') <= OutboundCapacity
    BY <1>1, <2>2, SocketConstants
  <2> QED
    BY <2>2, <2>3, <2>4
<1>2. CASE UNCHANGED outbound
  BY <1>2 DEF SocketShape
<1> QED
  BY <1>1, <1>2 DEF ToWriter

LEMMA LoopKeepsShape ==
  ASSUME SocketShape,
         \/ InitMessage \/ InitFails \/ PingMessage \/ Vanish \/ Acknowledge \/ CheckId \/ CheckLimit
         \/ Refusal \/ Leaves
         \/ \E i \in SubIds : SubscribeMessage(i) \/ CompleteMessage(i)
  PROVE  SocketShape'
<1> USE DEF Listening, Asked
<1>1. CASE InitMessage \/ InitFails \/ PingMessage \/ Vanish \/ Leaves
  <2>1. /\ UNCHANGED <<registry, resolver, cancelRx, outbound, writer, subPhase, subItems>>
        /\ \/ UNCHANGED loop
           \/ loop' \in {[at |-> "init.ack", id |-> "none"], [at |-> "abandoned", id |-> "none"],
                         [at |-> "answer", id |-> "none"], [at |-> "closed", id |-> "none"]}
    BY <1>1 DEF InitMessage, InitFails, PingMessage, Vanish, Leaves, Hears, subHistory
  <2> QED
    BY <2>1 DEF SocketShape
<1>2. CASE Acknowledge
  <2>1. /\ UNCHANGED <<registry, resolver, cancelRx, writer, subPhase, subItems>> /\ loop' = Listening
    BY <1>2 DEF Acknowledge, subHistory
  <2>2. /\ outbound' \in Seq(SocketMessages) /\ Len(outbound') <= OutboundCapacity
        /\ \A n \in DOMAIN outbound' : outbound'[n].type = "ack" <=> outbound'[n].id = "none"
    BY <1>2, ToWriterKeepsShape DEF Acknowledge
  <2> QED
    BY <2>1, <2>2 DEF SocketShape
<1>3. CASE CheckId \/ CheckLimit
  <2>1. /\ UNCHANGED <<registry, resolver, cancelRx, outbound, writer, subPhase, subItems>>
        /\ loop.at \in Asked
        /\ \E where \in Asked : loop' = [loop EXCEPT !.at = where]
    BY <1>3 DEF CheckId, CheckLimit, subHistory
  <2>2. /\ loop' \in [at : {"init", "init.ack", "receive", "answer", "abandoned", "closed"} \cup Asked,
                      id : SubIds \cup {"none"}]
        /\ loop'.id \in SubIds
    BY <2>1 DEF SocketShape
  <2> QED
    BY <2>1, <2>2 DEF SocketShape
<1>4. CASE Refusal
  <2>1. /\ UNCHANGED <<registry, resolver, cancelRx, writer, subPhase, subItems>> /\ loop' = Listening
        /\ ToWriter("error", loop.id) /\ loop.id \in SubIds /\ loop.id # "none"
    BY <1>4, SocketConstants DEF Refusal, subHistory, SocketShape
  <2>2. /\ outbound' \in Seq(SocketMessages) /\ Len(outbound') <= OutboundCapacity
        /\ \A n \in DOMAIN outbound' : outbound'[n].type = "ack" <=> outbound'[n].id = "none"
    BY <2>1, ToWriterKeepsShape
  <2> QED
    BY <2>1, <2>2 DEF SocketShape
<1>5. ASSUME NEW i \in SubIds, SubscribeMessage(i) PROVE SocketShape'
  <2>1. /\ UNCHANGED <<registry, resolver, cancelRx, outbound, writer>> /\ loop' = [at |-> "contains", id |-> i]
    BY <1>5 DEF SubscribeMessage, Hears
  <2>2. /\ subPhase' \in [SubIds -> {"unused", "open", "ended", "reused"}]
        /\ subItems' \in [SubIds -> Nat]
    BY <1>5 DEF SubscribeMessage, SocketShape
  <2> QED
    BY <2>1, <2>2 DEF SocketShape
<1>6. ASSUME NEW i \in SubIds, CompleteMessage(i) PROVE SocketShape'
  <2>1. /\ UNCHANGED <<loop, resolver, outbound, writer, subPhase, subItems>>
        /\ registry' \in [SubIds -> Resolvers \cup {0}]
        /\ cancelRx' \in [Resolvers -> {"open", "signalled", "dropped"}]
    BY <1>6 DEF CompleteMessage, subHistory, SocketShape
  <2> QED
    BY <2>1 DEF SocketShape
<1> QED
  BY <1>1, <1>2, <1>3, <1>4, <1>5, <1>6

LEMMA RegisterKeepsShape == ASSUME SocketShape, Register PROVE SocketShape'
<1>1. PICK k \in Resolvers :
        /\ registry' = [registry EXCEPT ![loop.id] = k]
        /\ resolver' = [resolver EXCEPT ![k] = [id |-> loop.id, at |-> "opening", msg |-> "none"]]
  BY DEF Register
<1>2. /\ UNCHANGED <<cancelRx, outbound, writer, subPhase, subItems>> /\ loop' = Listening
      /\ loop.id \in SubIds
  BY DEF Register, subHistory, SocketShape, Asked
<1>3. /\ registry' \in [SubIds -> Resolvers \cup {0}]
      /\ resolver' \in [Resolvers -> {Unborn} \cup
                        [id : SubIds, at : Streaming \cup {"remove", "done"},
                         msg : {"none", "next", "error", "complete"}]]
  BY <1>1, <1>2 DEF SocketShape, Streaming
<1>4. \A j \in Resolvers : resolver'[j].at = "send" => resolver'[j].msg # "none"
  BY <1>1 DEF SocketShape
<1> QED
  BY <1>2, <1>3, <1>4 DEF SocketShape, Listening, Asked

LEMMA ResolversKeepShape ==
  ASSUME SocketShape, NEW k \in Resolvers,
         OpenStream(k) \/ StreamItem(k) \/ Cancelled(k) \/ SendItem(k) \/ RemoveId(k)
  PROVE  SocketShape'
<1>1. CASE OpenStream(k) \/ StreamItem(k) \/ Cancelled(k)
  <2>1. /\ UNCHANGED <<loop, registry, cancelRx, outbound, writer, subPhase, subItems>>
        /\ resolver[k].at \in Streaming
    BY <1>1 DEF OpenStream, StreamItem, Cancelled, subHistory, Streaming
  <2>2. \E where \in Streaming \cup {"remove"}, msg \in {"none", "next", "error", "complete"} :
           (where = "send" => msg # "none") /\ Moves(k, where, msg)
    BY <1>1 DEF OpenStream, StreamItem, Cancelled, Streaming
  <2> QED
    BY <2>1, <2>2, ResolverMoves DEF SocketShape
<1>2. CASE SendItem(k)
  <2>1. /\ UNCHANGED <<loop, registry, cancelRx, writer, subPhase, subItems>>
        /\ resolver[k].at \in Streaming /\ resolver[k].at = "send"
        /\ ToWriter(resolver[k].msg, resolver[k].id)
    BY <1>2 DEF SendItem, subHistory, Streaming
  <2>2. \E where \in {"streaming", "remove"} : Moves(k, where, "none")
    BY <1>2 DEF SendItem
  <2>3. /\ resolver[k].msg \in {"next", "error", "complete"} /\ resolver[k].id \in SubIds
        /\ resolver[k].id # "none"
    BY <2>1, SocketConstants DEF SocketShape, Unborn
  <2>4. /\ outbound' \in Seq(SocketMessages) /\ Len(outbound') <= OutboundCapacity
        /\ \A n \in DOMAIN outbound' : outbound'[n].type = "ack" <=> outbound'[n].id = "none"
    BY <2>1, <2>3, ToWriterKeepsShape
  <2>5. /\ resolver' \in [Resolvers -> {Unborn} \cup
                        [id : SubIds, at : Streaming \cup {"remove", "done"},
                         msg : {"none", "next", "error", "complete"}]]
        /\ \A j \in Resolvers : resolver'[j].at = "send" => resolver'[j].msg # "none"
    BY <2>1, <2>2, ResolverMoves DEF Streaming
  <2> QED
    BY <2>1, <2>4, <2>5 DEF SocketShape
<1>3. CASE RemoveId(k)
  <2>1. /\ UNCHANGED <<loop, outbound, writer, subPhase, subItems>> /\ resolver[k].at = "remove"
        /\ Moves(k, "done", "none")
        /\ registry' \in [SubIds -> Resolvers \cup {0}]
        /\ cancelRx' \in [Resolvers -> {"open", "signalled", "dropped"}]
    BY <1>3 DEF RemoveId, subHistory, SocketShape
  <2>2. /\ resolver' \in [Resolvers -> {Unborn} \cup
                        [id : SubIds, at : Streaming \cup {"remove", "done"},
                         msg : {"none", "next", "error", "complete"}]]
        /\ \A j \in Resolvers : resolver'[j].at = "send" => resolver'[j].msg # "none"
    BY <2>1, ResolverMoves
  <2> QED
    BY <2>1, <2>2 DEF SocketShape
<1> QED
  BY <1>1, <1>2, <1>3

\* What the client makes of a message.
SocketShows(m) ==
    IF m.id = "none" \/ subPhase[m.id] = "reused" THEN UNCHANGED subHistory
    ELSE IF m.type = "next"
    THEN subItems' = [subItems EXCEPT ![m.id] = @ + 1] /\ UNCHANGED subPhase
    ELSE subPhase' = [subPhase EXCEPT ![m.id] = IF @ = "open" THEN "ended" ELSE "broken"]
         /\ UNCHANGED subItems

\* The next message to the client, spelled out.
LEMMA Written ==
  ASSUME SocketShape, outbound # <<>>, outbound' = Tail(outbound)
  PROVE  /\ Head(outbound) = outbound[1] /\ 1 \in DOMAIN outbound
         /\ outbound[1].id \in SubIds \cup {"none"} /\ outbound' \in Seq(SocketMessages)
         /\ Len(outbound') <= OutboundCapacity
         /\ \A n \in DOMAIN outbound' : n + 1 \in DOMAIN outbound /\ 1 < n + 1 /\ outbound'[n] = outbound[n + 1]
         /\ \A n, l \in DOMAIN outbound' : n < l => n + 1 < l + 1
<1>1. /\ Head(outbound) = outbound[1] /\ Len(outbound) \in Nat /\ DOMAIN outbound = 1..Len(outbound)
      /\ 1 \in DOMAIN outbound /\ outbound[1] \in SocketMessages /\ outbound' \in Seq(SocketMessages)
      /\ Len(outbound') = Len(outbound) - 1
      /\ DOMAIN outbound' = 1..(Len(outbound) - 1) /\ \A n \in DOMAIN outbound' : outbound'[n] = outbound[n + 1]
  BY DEF SocketShape
<1>2. /\ \A n \in DOMAIN outbound' : n + 1 \in DOMAIN outbound /\ 1 < n + 1
      /\ \A n, l \in DOMAIN outbound' : n < l => n + 1 < l + 1
  BY <1>1
<1>3. Len(outbound') <= OutboundCapacity
  BY <1>1, SocketConstants DEF SocketShape
<1>4. outbound[1].id \in SubIds \cup {"none"}
  BY <1>1 DEF SocketMessages
<1> QED
  BY <1>1, <1>2, <1>3, <1>4

LEMMA WriterKeepsShape ==
  ASSUME SocketShape, OneSender, Write \/ CancelAll
  PROVE  SocketShape'
<1>1. CASE Write /\ outbound # <<>> /\ outbound' = Tail(outbound) /\ SocketShows(Head(outbound)) /\ UNCHANGED writer
  <2>1. UNCHANGED <<loop, registry, resolver, cancelRx>>
    BY <1>1 DEF Write
  <2>2. PICK m : m = Head(outbound)
    OBVIOUS
  <2>3. m = outbound[1] /\ 1 \in DOMAIN outbound /\ m.id \in SubIds \cup {"none"}
    BY <1>1, <2>2, Written
  <2>4. /\ subPhase' \in [SubIds -> {"unused", "open", "ended", "reused"}]
        /\ subItems' \in [SubIds -> Nat]
    <3>1. CASE m.id = "none" \/ subPhase[m.id] = "reused"
      BY <1>1, <2>2, <3>1 DEF SocketShows, subHistory, SocketShape
    <3>2. CASE ~(m.id = "none" \/ subPhase[m.id] = "reused")
      <4>1. PICK i \in SubIds : i = m.id
        BY <2>3, <3>2
      <4>2. subPhase[i] = "open"
        BY <2>3, <3>2, <4>1 DEF OneSender, OnItsWay
      <4>3. \/ subItems' = [subItems EXCEPT ![i] = @ + 1] /\ UNCHANGED subPhase
            \/ subPhase' = [subPhase EXCEPT ![i] = "ended"] /\ UNCHANGED subItems
        BY <1>1, <2>2, <3>2, <4>1, <4>2 DEF SocketShows
      <4>4. subPhase \in [SubIds -> {"unused", "open", "ended", "reused"}] /\ subItems \in [SubIds -> Nat]
        BY DEF SocketShape
      <4>5. subItems[i] + 1 \in Nat
        BY <4>4
      <4> QED
        BY <4>3, <4>4, <4>5
    <3> QED
      BY <3>1, <3>2
  <2>5. /\ outbound' \in Seq(SocketMessages) /\ Len(outbound') <= OutboundCapacity
        /\ \A n \in DOMAIN outbound' : outbound'[n].type = "ack" <=> outbound'[n].id = "none"
    BY <1>1, Written DEF SocketShape
  <2> QED
    BY <1>1, <2>1, <2>4, <2>5 DEF SocketShape
<1>2. CASE Write /\ outbound' = <<>> /\ writer' = "cleaning" /\ UNCHANGED subHistory
  <2>1. outbound' \in Seq(SocketMessages) /\ Len(outbound') <= OutboundCapacity /\ DOMAIN outbound' = {}
    BY <1>2, SocketConstants
  <2> QED
    BY <1>2, <2>1 DEF Write, SocketShape, subHistory
<1>3. CASE CancelAll
  BY <1>3 DEF CancelAll, SocketShape, subHistory
<1> QED
  BY <1>1, <1>2, <1>3 DEF Write, SocketShows

LEMMA StepKeepsSocketShape ==
  ASSUME SocketShape, OneSender, [SocketNext]_socketState PROVE SocketShape'
<1>1. CASE UNCHANGED socketState
  BY <1>1 DEF socketState, SocketShape
<1> QED
  BY <1>1, LoopKeepsShape, RegisterKeepsShape, ResolversKeepShape, WriterKeepsShape
  DEF SocketNext, SocketTasks

\* Senders fall silent.
Quieter == \A i \in SubIds : /\ LoopSends(i)' => LoopSends(i)
                             /\ \A k \in Resolvers : ResolverSends(i, k)' => ResolverSends(i, k)

LEMMA QuieterKeepsOneSender ==
  ASSUME OneSender, Quieter, UNCHANGED <<outbound, subPhase>>
  PROVE  OneSender'
<1>1. \A i \in SubIds : SocketSends(i)' => SocketSends(i)
  BY DEF Quieter, SocketSends
<1> QED
  BY <1>1 DEF OneSender, Quieter, EndOnItsWay, OnItsWay

\* A sender's message goes out; after an end the sender is silent.
LEMMA SentKeepsOneSender ==
  ASSUME SocketShape, OneSender, Quieter, UNCHANGED subPhase,
         NEW i \in SubIds, NEW type \in {"next", "error", "complete"}, SocketSends(i),
         outbound' = Append(outbound, [type |-> type, id |-> i]),
         type # "next" /\ subPhase[i] # "reused" => ~SocketSends(i)'
  PROVE  OneSender'
<1>1. \A j \in SubIds : SocketSends(j)' => SocketSends(j)
  BY DEF Quieter, SocketSends
<1>2. /\ Len(outbound) \in Nat /\ DOMAIN outbound = 1..Len(outbound) /\ DOMAIN outbound' = 1..(Len(outbound) + 1)
      /\ \A k \in DOMAIN outbound : outbound'[k] = outbound[k]
      /\ outbound'[Len(outbound) + 1].type = type /\ outbound'[Len(outbound) + 1].id = i
  BY DEF SocketShape
<1>3. ASSUME NEW j \in SubIds, subPhase[j] # "reused"
      PROVE  /\ \A n, l \in DOMAIN outbound' :
                  n < l /\ outbound'[n].id = j /\ outbound'[l].id = j => outbound'[n].type = "next"
             /\ EndOnItsWay(j)' => ~SocketSends(j)'
             /\ subPhase[j] # "open" => ~SocketSends(j)' /\ ~OnItsWay(j)'
  <2>1. ASSUME NEW n \in DOMAIN outbound', NEW l \in DOMAIN outbound', n < l, outbound'[n].id = j,
               outbound'[l].id = j
        PROVE  outbound'[n].type = "next"
    <3>1. n \in DOMAIN outbound
      BY <1>2, <2>1
    <3>2. CASE l \in DOMAIN outbound
      BY <1>2, <1>3, <2>1, <3>1, <3>2 DEF OneSender
    <3>3. CASE l = Len(outbound) + 1
      <4>1. j = i /\ ~EndOnItsWay(i)
        BY <1>2, <1>3, <2>1, <3>3 DEF OneSender
      <4> QED
        BY <1>2, <2>1, <3>1, <4>1 DEF EndOnItsWay
    <3> QED
      BY <1>2, <3>2, <3>3
  <2>2. EndOnItsWay(j)' => EndOnItsWay(j) \/ (j = i /\ type # "next")
    BY <1>2 DEF EndOnItsWay
  <2>3. OnItsWay(j)' => OnItsWay(j) \/ j = i
    BY <1>2 DEF OnItsWay
  <2> QED
    BY <1>1, <1>3, <2>1, <2>2, <2>3 DEF OneSender
<1> QED
  BY <1>3 DEF OneSender, Quieter

LEMMA LoopKeepsOneSender ==
  ASSUME SocketShape, OneSender,
         \/ InitMessage \/ InitFails \/ PingMessage \/ Vanish \/ Acknowledge \/ CheckId \/ CheckLimit
         \/ Refusal \/ Leaves
         \/ \E i \in SubIds : SubscribeMessage(i) \/ CompleteMessage(i)
  PROVE  OneSender'
<1> USE DEF Listening, Asked
<1>1. CASE \/ InitMessage \/ InitFails \/ PingMessage \/ Vanish \/ Leaves \/ CheckId \/ CheckLimit
           \/ \E i \in SubIds : CompleteMessage(i)
  <2>1. /\ UNCHANGED <<resolver, outbound, subPhase>>
        /\ \/ UNCHANGED loop
           \/ loop'.at \notin Asked
           \/ loop.at \in Asked /\ loop'.id = loop.id
    <3>1. CASE CheckId \/ CheckLimit
      <4>1. loop.at \in Asked /\ \E where \in Asked : loop' = [loop EXCEPT !.at = where]
        BY <3>1 DEF CheckId, CheckLimit
      <4> QED
        BY <3>1, <4>1 DEF CheckId, CheckLimit, subHistory, SocketShape
    <3> QED
      BY <1>1, <3>1 DEF InitMessage, InitFails, PingMessage, Vanish, Leaves, Hears, CompleteMessage,
                        subHistory
  <2>2. Quieter
    BY <2>1 DEF Quieter, LoopSends, ResolverSends, SocketShape
  <2> QED
    BY <2>1, <2>2, QuieterKeepsOneSender
<1>2. CASE Acknowledge
  <2>1. UNCHANGED <<resolver, subPhase>> /\ loop' = Listening
    BY <1>2 DEF Acknowledge, subHistory
  <2>2. Quieter
    BY <2>1 DEF Quieter, LoopSends, ResolverSends
  <2>3. CASE UNCHANGED outbound
    BY <2>1, <2>2, <2>3, QuieterKeepsOneSender
  <2>4. CASE outbound' = Append(outbound, [type |-> "ack", id |-> "none"])
    <3>1. /\ Len(outbound) \in Nat /\ DOMAIN outbound = 1..Len(outbound) /\ DOMAIN outbound' = 1..(Len(outbound) + 1)
          /\ \A k \in DOMAIN outbound : outbound'[k] = outbound[k]
          /\ outbound'[Len(outbound) + 1].id \notin SubIds
      BY <2>4, SocketConstants DEF SocketShape
    <3>2. \A j \in SubIds : /\ OnItsWay(j)' <=> OnItsWay(j)
                            /\ EndOnItsWay(j)' <=> EndOnItsWay(j)
                            /\ SocketSends(j)' => SocketSends(j)
      BY <2>2, <3>1 DEF OnItsWay, EndOnItsWay, SocketSends, Quieter
    <3>3. \A j \in SubIds : \A n \in DOMAIN outbound' :
             outbound'[n].id = j => n \in DOMAIN outbound /\ outbound'[n] = outbound[n]
      BY <3>1
    <3> QED
      BY <2>1, <2>2, <3>2, <3>3 DEF OneSender, Quieter
  <2> QED
    BY <1>2, <2>3, <2>4 DEF Acknowledge, ToWriter
<1>3. CASE Refusal
  <2>1. PICK i \in SubIds : i = loop.id
    BY <1>3 DEF Refusal, SocketShape
  <2>2. UNCHANGED <<resolver, subPhase>> /\ loop' = Listening /\ LoopSends(i) /\ ToWriter("error", i)
    BY <1>3, <2>1 DEF Refusal, subHistory, LoopSends
  <2>3. Quieter
    BY <2>2 DEF Quieter, LoopSends, ResolverSends
  <2>4. subPhase[i] # "reused" => ~SocketSends(i)'
    BY <2>2, <2>3 DEF OneSender, SocketSends, Quieter, LoopSends
  <2>5. SocketSends(i)
    BY <2>2 DEF SocketSends
  <2>6. CASE UNCHANGED outbound
    BY <2>2, <2>3, <2>6, QuieterKeepsOneSender
  <2>7. CASE outbound' = Append(outbound, [type |-> "error", id |-> i])
    BY <2>2, <2>3, <2>4, <2>5, <2>7, SentKeepsOneSender
  <2> QED
    BY <2>2, <2>6, <2>7 DEF ToWriter
<1>4. ASSUME NEW i \in SubIds, SubscribeMessage(i) PROVE OneSender'
  <2>1. /\ UNCHANGED <<resolver, outbound>> /\ loop.at = "receive" /\ loop' = [at |-> "contains", id |-> i]
        /\ subPhase' = [subPhase EXCEPT ![i] = IF @ \in {"unused", "ended"} THEN "open" ELSE "reused"]
    BY <1>4 DEF SubscribeMessage, Hears
  <2>2. /\ subPhase'[i] # "reused" => subPhase[i] \in {"unused", "ended"} /\ subPhase'[i] = "open"
        /\ \A j \in SubIds \ {i} : subPhase'[j] = subPhase[j]
    BY <2>1 DEF SocketShape
  <2>3. \A j \in SubIds : /\ OnItsWay(j)' <=> OnItsWay(j)
                          /\ EndOnItsWay(j)' <=> EndOnItsWay(j)
                          /\ EndOnItsWay(j) => OnItsWay(j)
                          /\ ~LoopSends(j) /\ (j # i => ~LoopSends(j)')
                          /\ \A k \in Resolvers : ResolverSends(j, k)' <=> ResolverSends(j, k)
    BY <2>1 DEF OnItsWay, EndOnItsWay, LoopSends, ResolverSends
  <2>4. \A j \in SubIds \ {i} : SocketSends(j)' => SocketSends(j)
    BY <2>3 DEF SocketSends
  <2>5. subPhase'[i] # "reused" => ~OnItsWay(i) /\ \A k \in Resolvers : ~ResolverSends(i, k)
    BY <2>2 DEF OneSender, SocketSends
  <2>6. ASSUME NEW j \in SubIds, subPhase'[j] # "reused"
        PROVE  /\ \A k, l \in Resolvers : ResolverSends(j, k)' /\ ResolverSends(j, l)' => k = l
               /\ \A k \in Resolvers : ResolverSends(j, k)' => ~LoopSends(j)'
               /\ \A n, l \in DOMAIN outbound' :
                    n < l /\ outbound'[n].id = j /\ outbound'[l].id = j => outbound'[n].type = "next"
               /\ EndOnItsWay(j)' => ~SocketSends(j)'
               /\ subPhase'[j] # "open" => ~SocketSends(j)' /\ ~OnItsWay(j)'
    <3>1. CASE j = i
      BY <2>1, <2>2, <2>3, <2>5, <2>6, <3>1 DEF OnItsWay
    <3>2. CASE j # i
      BY <2>1, <2>2, <2>3, <2>4, <2>6, <3>2 DEF OneSender
    <3> QED
      BY <3>1, <3>2
  <2> QED
    BY <2>6 DEF OneSender
<1> QED
  BY <1>1, <1>2, <1>3, <1>4

\* The loop hands the id over to a resolver.
LEMMA RegisterKeepsOneSender == ASSUME SocketShape, OneSender, Register PROVE OneSender'
<1>1. PICK k \in Resolvers :
        /\ resolver[k] = Unborn
        /\ resolver' = [resolver EXCEPT ![k] = [id |-> loop.id, at |-> "opening", msg |-> "none"]]
  BY DEF Register
<1>2. PICK i \in SubIds : i = loop.id
  BY DEF Register, SocketShape, Asked
<1>3. UNCHANGED <<outbound, subPhase>> /\ LoopSends(i) /\ \A j \in SubIds : ~LoopSends(j)'
  BY <1>2 DEF Register, LoopSends, Listening, Asked, subHistory
<1>4. /\ resolver'[k].id = i /\ \A j \in Resolvers \ {k} : resolver'[j] = resolver[j]
  BY <1>1, <1>2 DEF SocketShape
<1>5. \A j \in SubIds : \A l \in Resolvers : ResolverSends(j, l)' => ResolverSends(j, l) \/ (j = i /\ l = k)
  BY <1>4 DEF ResolverSends
<1>6. \A j \in SubIds : SocketSends(j)' => SocketSends(j)
  BY <1>3, <1>5 DEF SocketSends
<1>7. \A j \in SubIds : (OnItsWay(j)' <=> OnItsWay(j)) /\ (EndOnItsWay(j)' <=> EndOnItsWay(j))
  BY <1>3 DEF OnItsWay, EndOnItsWay
<1> QED
  BY <1>3, <1>5, <1>6, <1>7 DEF OneSender

LEMMA ResolversKeepOneSender ==
  ASSUME SocketShape, OneSender, NEW k \in Resolvers,
         OpenStream(k) \/ StreamItem(k) \/ Cancelled(k) \/ SendItem(k) \/ RemoveId(k)
  PROVE  OneSender'
<1>1. CASE OpenStream(k) \/ StreamItem(k) \/ Cancelled(k) \/ RemoveId(k)
  <2>1. UNCHANGED <<loop, outbound, subPhase>>
    BY <1>1 DEF OpenStream, StreamItem, Cancelled, RemoveId, subHistory
  <2>2. \/ resolver[k].at \in Streaming /\ \E where \in Streaming \cup {"remove"} : \E msg : Moves(k, where, msg)
        \/ resolver[k].at = "remove" /\ Moves(k, "done", "none")
    BY <1>1 DEF OpenStream, StreamItem, Cancelled, RemoveId, Streaming
  <2>3. /\ resolver'[k].id = resolver[k].id /\ \A j \in Resolvers \ {k} : resolver'[j] = resolver[j]
        /\ resolver'[k].at \in Streaming => resolver[k].at \in Streaming
    <3>1. ASSUME NEW where, NEW msg, Moves(k, where, msg), resolver[k].at # "none"
          PROVE  /\ resolver'[k].id = resolver[k].id /\ resolver'[k].at = where
                 /\ \A j \in Resolvers \ {k} : resolver'[j] = resolver[j]
      BY <3>1 DEF Moves, SocketShape, Unborn
    <3> QED
      BY <2>2, <3>1 DEF Streaming
  <2>4. Quieter
    BY <2>1, <2>3 DEF Quieter, LoopSends, ResolverSends
  <2> QED
    BY <2>1, <2>4, QuieterKeepsOneSender
<1>2. CASE SendItem(k)
  <2>1. UNCHANGED <<loop, subPhase>> /\ resolver[k].at = "send" /\ ToWriter(resolver[k].msg, resolver[k].id)
    BY <1>2 DEF SendItem, subHistory
  <2>2. resolver[k].msg \in {"next", "error", "complete"} /\ resolver[k].id \in SubIds
    BY <2>1 DEF SocketShape, Unborn
  <2>3. PICK i \in SubIds : i = resolver[k].id
    BY <2>2
  <2>4. PICK type \in {"next", "error", "complete"} : type = resolver[k].msg
    BY <2>2
  <2>5. Moves(k, IF type = "next" /\ writer = "running" THEN "streaming" ELSE "remove", "none")
    BY <1>2, <2>4 DEF SendItem
  <2>6. /\ resolver'[k].id = i /\ \A j \in Resolvers \ {k} : resolver'[j] = resolver[j]
        /\ resolver'[k].at = IF type = "next" /\ writer = "running" THEN "streaming" ELSE "remove"
    BY <2>3, <2>5 DEF Moves, SocketShape, Unborn
  <2>7. Quieter /\ ResolverSends(i, k)
    BY <2>1, <2>3, <2>6 DEF Quieter, LoopSends, ResolverSends, Streaming
  <2>8. SocketSends(i)
    BY <2>7 DEF SocketSends
  <2>9. type # "next" => ~ResolverSends(i, k)'
    BY <2>6 DEF ResolverSends, Streaming
  <2>10. type # "next" /\ subPhase[i] # "reused" => ~SocketSends(i)'
    BY <2>1, <2>7, <2>9 DEF OneSender, SocketSends, Quieter
  <2>11. CASE UNCHANGED outbound
    BY <2>1, <2>7, <2>11, QuieterKeepsOneSender
  <2>12. CASE outbound' = Append(outbound, [type |-> type, id |-> i])
    BY <2>1, <2>7, <2>8, <2>10, <2>12, SentKeepsOneSender
  <2> QED
    BY <2>1, <2>3, <2>4, <2>11, <2>12 DEF ToWriter
<1> QED
  BY <1>1, <1>2

LEMMA WriterKeepsOneSender == ASSUME SocketShape, OneSender, Write \/ CancelAll PROVE OneSender'
<1>1. UNCHANGED <<loop, resolver>>
  BY DEF Write, CancelAll
<1>2. \A i \in SubIds : (LoopSends(i)' <=> LoopSends(i)) /\ (SocketSends(i)' <=> SocketSends(i))
                        /\ \A k \in Resolvers : ResolverSends(i, k)' <=> ResolverSends(i, k)
  BY <1>1 DEF LoopSends, ResolverSends, SocketSends
<1>3. CASE Write /\ outbound # <<>> /\ outbound' = Tail(outbound) /\ SocketShows(Head(outbound))
  <2>1. /\ 1 \in DOMAIN outbound /\ Head(outbound) = outbound[1]
        /\ outbound[1].id \in SubIds \cup {"none"} /\ (outbound[1].id = "none" <=> outbound[1].type = "ack")
        /\ \A n \in DOMAIN outbound' : n + 1 \in DOMAIN outbound /\ 1 < n + 1 /\ outbound'[n] = outbound[n + 1]
        /\ \A n, l \in DOMAIN outbound' : n < l => n + 1 < l + 1
    BY <1>3, Written DEF SocketShape
  <2>2. \A j \in SubIds : (OnItsWay(j)' => OnItsWay(j)) /\ (EndOnItsWay(j)' => EndOnItsWay(j))
    BY <2>1 DEF OnItsWay, EndOnItsWay
  <2>3. \A j \in SubIds : subPhase[j] # "reused" =>
           \A n, l \in DOMAIN outbound' :
              n < l /\ outbound'[n].id = j /\ outbound'[l].id = j => outbound'[n].type = "next"
    BY <2>1 DEF OneSender
  <2>4. CASE UNCHANGED subPhase
    BY <1>2, <2>2, <2>3, <2>4 DEF OneSender
  <2>5. ASSUME NEW i \in SubIds, i = outbound[1].id, subPhase[i] # "reused", outbound[1].type # "next",
               subPhase' = [subPhase EXCEPT ![i] = IF @ = "open" THEN "ended" ELSE "broken"]
        PROVE  OneSender'
    <3>1. subPhase[i] = "open" /\ EndOnItsWay(i)
      BY <2>1, <2>5 DEF OneSender, OnItsWay, EndOnItsWay
    <3>2. subPhase'[i] = "ended" /\ \A j \in SubIds \ {i} : subPhase'[j] = subPhase[j]
      BY <2>5, <3>1 DEF SocketShape
    <3>3. ~SocketSends(i) /\ ~OnItsWay(i)'
      <4>1. \A n \in DOMAIN outbound' : outbound'[n].id # i
        BY <2>1, <2>5 DEF OneSender
      <4> QED
        BY <2>5, <3>1, <4>1 DEF OneSender, OnItsWay
    <3>4. \A j \in SubIds : subPhase'[j] # "reused" => subPhase[j] # "reused"
      BY <2>5, <3>2
    <3>5. ASSUME NEW j \in SubIds, subPhase'[j] # "reused"
          PROVE  /\ \A k, l \in Resolvers : ResolverSends(j, k)' /\ ResolverSends(j, l)' => k = l
                 /\ \A k \in Resolvers : ResolverSends(j, k)' => ~LoopSends(j)'
                 /\ EndOnItsWay(j)' => ~SocketSends(j)'
                 /\ subPhase'[j] # "open" => ~SocketSends(j)' /\ ~OnItsWay(j)'
      BY <1>2, <2>2, <3>2, <3>3, <3>4, <3>5 DEF OneSender
    <3> QED
      BY <2>3, <3>4, <3>5 DEF OneSender
  <2> QED
    BY <1>3, <2>1, <2>4, <2>5 DEF SocketShows, subHistory
<1>4. CASE outbound' = <<>> /\ UNCHANGED subPhase
  BY <1>2, <1>4 DEF OneSender, OnItsWay, EndOnItsWay
<1>5. CASE UNCHANGED <<outbound, subPhase>>
  BY <1>2, <1>5 DEF OneSender, OnItsWay, EndOnItsWay
<1> QED
  BY <1>3, <1>4, <1>5 DEF Write, CancelAll, SocketShows, subHistory

LEMMA StepKeepsOneSender ==
  ASSUME SocketShape, OneSender, [SocketNext]_socketState PROVE OneSender'
<1>1. CASE UNCHANGED socketState
  <2>1. UNCHANGED <<loop, resolver, outbound, subPhase>>
    BY <1>1 DEF socketState
  <2>2. Quieter
    BY <2>1 DEF Quieter, LoopSends, ResolverSends
  <2> QED
    BY <2>1, <2>2, QuieterKeepsOneSender
<1> QED
  BY <1>1, LoopKeepsOneSender, RegisterKeepsOneSender, ResolversKeepOneSender, WriterKeepsOneSender
  DEF SocketNext, SocketTasks

LEMMA ShapedResolvers ==
  ASSUME SocketShape
  PROVE  /\ \A k \in Resolvers : resolver[k].at = "none" <=> resolver[k] = Unborn
         /\ \A k \in Resolvers : resolver[k] # Unborn => resolver[k].id \in SubIds
         /\ Unborn.id \notin SubIds
         /\ Resolvers \subseteq Nat /\ 0 \notin Resolvers /\ MaxResolvers \in Nat
         /\ \A k \in Resolvers : \A j \in 1..k : j \in Resolvers
         /\ \A k \in Resolvers, j \in Resolvers : j \in 1..k \/ j \in (k + 1)..MaxResolvers
         /\ \A k \in Resolvers : \A j \in (k + 1)..MaxResolvers : j \in Resolvers /\ j # k /\ k \in 1..j
         /\ \A k \in Resolvers : k \in 1..k
<1>1. MaxResolvers \in Nat
  BY SocketConstants
<1>2. /\ Resolvers \subseteq Nat /\ 0 \notin Resolvers
      /\ \A k \in Resolvers : \A j \in 1..k : j \in Resolvers
      /\ \A k \in Resolvers, j \in Resolvers : j \in 1..k \/ j \in (k + 1)..MaxResolvers
      /\ \A k \in Resolvers : \A j \in (k + 1)..MaxResolvers : j \in Resolvers /\ j # k /\ k \in 1..j
      /\ \A k \in Resolvers : k \in 1..k
  BY <1>1 DEF Resolvers
<1>3. Unborn.at = "none" /\ Unborn.id \notin SubIds
  BY SocketConstants DEF Unborn
<1>4. \A k \in Resolvers : resolver[k] # Unborn => resolver[k].id \in SubIds /\ resolver[k].at # "none"
  BY DEF SocketShape, Streaming
<1> QED
  BY <1>1, <1>2, <1>3, <1>4

\* Steps that touch no entry and no cancellation.
LEMMA SameEntries ==
  ASSUME SocketShape, Entries, UNCHANGED <<registry, cancelRx>>,
         \/ UNCHANGED loop
         \/ loop'.at \notin {"limit", "register"}
         \/ loop'.id = loop.id /\ registry[loop.id] = 0,
         \A k \in Resolvers : /\ resolver'[k].id = resolver[k].id
                              /\ resolver'[k] = Unborn <=> resolver[k] = Unborn
                              /\ resolver'[k].at = "none" <=> resolver[k].at = "none"
                              /\ resolver[k].at = "done" => resolver'[k].at = "done"
  PROVE  Entries'
<1>1. \A k \in Resolvers : Outlived(k)' <=> Outlived(k)
  BY ShapedResolvers DEF Outlived
<1>2. \A k \in Resolvers : resolver'[k].at \notin {"none", "done"} => resolver[k].at \notin {"none", "done"}
  OBVIOUS
<1>3. \A k \in Resolvers : resolver'[k] # Unborn => \A j \in 1..k : resolver'[j] # Unborn
  BY ShapedResolvers DEF Entries
<1>4. loop'.at \in {"limit", "register"} => registry'[loop'.id] = 0
  BY DEF Entries
<1>5. \A i \in SubIds : registry'[i] # 0 => resolver'[registry'[i]].id = i
  BY DEF Entries, SocketShape
<1>6. ASSUME NEW k \in Resolvers, resolver'[k].at \notin {"none", "done"}
      PROVE  \/ Outlived(k)'
             \/ /\ registry'[resolver'[k].id] = k
                /\ \A j \in (k + 1)..MaxResolvers : resolver'[j].id # resolver'[k].id
  BY <1>1, <1>2, <1>6, ShapedResolvers DEF Entries
<1> QED
  BY <1>3, <1>4, <1>5, <1>6 DEF Entries

\* Steps that take entries away: each is that of a resolver that is done, or is signalled.
LEMMA FewerEntries ==
  ASSUME SocketShape, Entries, UNCHANGED loop,
         \A i \in SubIds : registry'[i] \in {registry[i], 0},
         \A k \in Resolvers : /\ cancelRx[k] = "signalled" => cancelRx'[k] = "signalled"
                              /\ resolver'[k].id = resolver[k].id
                              /\ resolver'[k] = Unborn <=> resolver[k] = Unborn
                              /\ resolver'[k].at \notin {"none", "done"} => resolver[k].at \notin {"none", "done"},
         \A k \in Resolvers : resolver'[k].at \notin {"none", "done"} /\ registry[resolver[k].id] = k
                                 /\ (\A j \in (k + 1)..MaxResolvers : resolver[j].id # resolver[k].id)
                              => registry'[resolver[k].id] = k \/ cancelRx'[k] = "signalled" \/ Outlived(k)
  PROVE  Entries'
<1>1. \A k \in Resolvers : /\ Outlived(k) => Outlived(k)'
                           /\ cancelRx'[k] = "signalled" => Outlived(k)'
  BY ShapedResolvers DEF Outlived
<1>2. \A k \in Resolvers : resolver'[k] # Unborn => \A j \in 1..k : resolver'[j] # Unborn
  BY ShapedResolvers DEF Entries
<1>3. loop'.at \in {"limit", "register"} => registry'[loop'.id] = 0
  BY DEF Entries, SocketShape, Asked
<1>4. \A i \in SubIds : registry'[i] # 0 => resolver'[registry'[i]].id = i
  BY DEF Entries, SocketShape
<1>5. ASSUME NEW k \in Resolvers, resolver'[k].at \notin {"none", "done"}
      PROVE  \/ Outlived(k)'
             \/ /\ registry'[resolver'[k].id] = k
                /\ \A j \in (k + 1)..MaxResolvers : resolver'[j].id # resolver'[k].id
  <2>1. CASE Outlived(k)
    BY <1>1, <2>1
  <2>2. CASE ~Outlived(k)
    <3>1. /\ registry[resolver[k].id] = k
          /\ \A j \in (k + 1)..MaxResolvers : resolver[j].id # resolver[k].id
      BY <1>5, <2>2 DEF Entries
    <3>2. registry'[resolver[k].id] = k \/ cancelRx'[k] = "signalled"
      BY <1>5, <2>2, <3>1
    <3>3. \A j \in (k + 1)..MaxResolvers : resolver'[j].id = resolver[j].id
      BY ShapedResolvers
    <3> QED
      BY <1>1, <3>1, <3>2, <3>3
  <2> QED
    BY <2>1, <2>2
<1> QED
  BY <1>2, <1>3, <1>4, <1>5 DEF Entries

LEMMA RegisterKeepsEntries == ASSUME SocketShape, Entries, Register PROVE Entries'
<1>1. PICK k \in Resolvers :
        /\ resolver[k] = Unborn /\ \A j \in 1..(k - 1) : resolver[j] # Unborn
        /\ registry' = [registry EXCEPT ![loop.id] = k]
        /\ resolver' = [resolver EXCEPT ![k] = [id |-> loop.id, at |-> "opening", msg |-> "none"]]
  BY DEF Register
<1>2. PICK i \in SubIds : i = loop.id /\ registry[i] = 0
  BY DEF Register, SocketShape, Asked, Entries
<1>3. /\ registry'[i] = k /\ \A j \in SubIds \ {i} : registry'[j] = registry[j]
      /\ resolver'[k] = [id |-> i, at |-> "opening", msg |-> "none"]
      /\ \A j \in Resolvers \ {k} : resolver'[j] = resolver[j]
      /\ UNCHANGED cancelRx /\ loop' = Listening
  BY <1>1, <1>2 DEF SocketShape, Register
<1>4. \A j \in (k + 1)..MaxResolvers : resolver[j] = Unborn /\ resolver'[j] = Unborn /\ Unborn.id # i
  BY <1>1, <1>3, ShapedResolvers DEF Entries
<1>5. \A l \in Resolvers : resolver'[l] # Unborn => \A j \in 1..l : resolver'[j] # Unborn
  <2>1. SUFFICES ASSUME NEW l \in Resolvers, resolver'[l] # Unborn, NEW j \in 1..l PROVE resolver'[j] # Unborn
    OBVIOUS
  <2>2. resolver'[k] # Unborn
    BY <1>3 DEF Unborn
  <2>3. l \in 1..k /\ j \in Resolvers
    BY <1>4, <2>1, ShapedResolvers
  <2>4. j = k \/ j \in 1..(k - 1)
    BY <2>1, <2>3, ShapedResolvers
  <2> QED
    BY <1>1, <1>3, <2>2, <2>3, <2>4
<1>6. \A l \in Resolvers \ {k} : resolver[l] # Unborn /\ Outlived(l) => Outlived(l)'
  <2> SUFFICES ASSUME NEW l \in Resolvers \ {k}, NEW j \in 1..l, resolver[j].id = resolver[l].id,
                      resolver[l] # Unborn, cancelRx[j] = "signalled"
               PROVE  resolver'[j].id = resolver'[l].id /\ cancelRx'[j] = "signalled"
    BY DEF Outlived
  <2>1. j \in Resolvers /\ resolver[l].id \in SubIds
    BY ShapedResolvers
  <2>2. j # k
    BY <1>1, <2>1, ShapedResolvers
  <2> QED
    BY <1>3, <2>1, <2>2
<1>7. ASSUME NEW l \in Resolvers, resolver'[l].at \notin {"none", "done"}
      PROVE  \/ Outlived(l)'
             \/ /\ registry'[resolver'[l].id] = l
                /\ \A j \in (l + 1)..MaxResolvers : resolver'[j].id # resolver'[l].id
  <2>1. CASE l = k
    BY <1>3, <1>4, <2>1
  <2>2. CASE l # k
    <3>1. resolver'[l] = resolver[l] /\ resolver[l] # Unborn
      BY <1>3, <1>7, <2>2, ShapedResolvers
    <3>2. CASE resolver[l].id = i
      <4>1. registry[i] # l
        BY <1>2, ShapedResolvers
      <4> QED
        BY <1>6, <1>7, <2>2, <3>1, <3>2, <4>1 DEF Entries
    <3>3. CASE resolver[l].id # i
      <4>1. resolver[l].id \in SubIds
        BY <1>7, <3>1, ShapedResolvers
      <4>2. \A j \in (l + 1)..MaxResolvers : resolver'[j].id = resolver[j].id \/ resolver'[j].id = i
        BY <1>3, ShapedResolvers
      <4>3. Outlived(l) \/ (/\ registry[resolver[l].id] = l
                            /\ \A j \in (l + 1)..MaxResolvers : resolver[j].id # resolver[l].id)
        BY <1>7, <3>1 DEF Entries
      <4> QED
        BY <1>3, <1>6, <2>2, <3>1, <3>3, <4>1, <4>2, <4>3
    <3> QED
      BY <3>2, <3>3
  <2> QED
    BY <2>1, <2>2
<1>8. \A j \in SubIds : registry'[j] # 0 => resolver'[registry'[j]].id = j
  <2> SUFFICES ASSUME NEW j \in SubIds \ {i}, registry[j] # 0 PROVE resolver'[registry[j]].id = j
    BY <1>3
  <2>1. registry[j] \in Resolvers /\ resolver[registry[j]].id = j
    BY DEF Entries, SocketShape
  <2>2. registry[j] # k
    BY <1>1, <2>1, ShapedResolvers
  <2> QED
    BY <1>3, <2>1, <2>2
<1> QED
  BY <1>3, <1>5, <1>7, <1>8 DEF Entries, Listening

LEMMA StepKeepsEntries ==
  ASSUME SocketShape, Entries, [SocketNext]_socketState PROVE Entries'
<1>1. CASE UNCHANGED socketState
  BY <1>1, SameEntries DEF socketState
<1>2. CASE InitMessage \/ InitFails \/ PingMessage \/ Vanish \/ Acknowledge \/ CheckId \/ CheckLimit \/ Refusal \/ Leaves
           \/ Write \/ \E i \in SubIds : SubscribeMessage(i)
  <2>1. UNCHANGED <<registry, cancelRx, resolver>>
    BY <1>2 DEF InitMessage, InitFails, PingMessage, Vanish, Acknowledge, CheckId, CheckLimit, Refusal,
                Leaves, Write, SubscribeMessage, Hears
  <2>2. CASE CheckId
    <3>1. loop'.id = loop.id /\ (loop'.at = "limit" => registry[loop.id] = 0) /\ loop'.at \in {"limit", "refuse"}
      BY <2>2 DEF CheckId, SocketShape
    <3> QED
      BY <2>1, <3>1, SameEntries
  <2>3. CASE CheckLimit
    <3>1. loop.at = "limit" /\ \E where \in {"register", "refuse"} : loop' = [loop EXCEPT !.at = where]
      BY <2>3 DEF CheckLimit
    <3>2. loop'.id = loop.id /\ registry[loop.id] = 0
      BY <3>1 DEF SocketShape, Entries
    <3> QED
      BY <2>1, <3>2, SameEntries
  <2>4. CASE ~CheckId /\ ~CheckLimit
    <3>1. UNCHANGED loop \/ loop'.at \notin {"limit", "register"}
      BY <1>2, <2>4 DEF InitMessage, InitFails, PingMessage, Vanish, Acknowledge, Refusal, Leaves, Write,
                        SubscribeMessage, Hears, Listening
    <3> QED
      BY <2>1, <3>1, SameEntries
  <2> QED
    BY <2>2, <2>3, <2>4
<1>3. ASSUME NEW i \in SubIds, CompleteMessage(i) PROVE Entries'
  <2>1. /\ UNCHANGED <<loop, resolver>>
        /\ registry'[i] = 0 /\ \A j \in SubIds \ {i} : registry'[j] = registry[j]
        /\ \A k \in Resolvers : cancelRx'[k] = IF k = registry[i] THEN "signalled" ELSE cancelRx[k]
    BY <1>3 DEF CompleteMessage, SocketShape
  <2>2. \A k \in Resolvers : resolver[k].at # "none" => resolver[k].id \in SubIds
    BY ShapedResolvers
  <2> QED
    BY <2>1, <2>2, FewerEntries
<1>4. ASSUME NEW k \in Resolvers, OpenStream(k) \/ StreamItem(k) \/ Cancelled(k) \/ SendItem(k) PROVE Entries'
  <2>1. /\ UNCHANGED <<loop, registry, cancelRx>> /\ resolver[k].at \in Streaming
        /\ \E where \in Streaming \cup {"remove"} : \E msg : Moves(k, where, msg)
    BY <1>4 DEF OpenStream, StreamItem, Cancelled, SendItem, Streaming
  <2>2. /\ \A j \in Resolvers \ {k} : resolver'[j] = resolver[j]
        /\ resolver'[k].id = resolver[k].id /\ resolver'[k].at \in Streaming \cup {"remove"}
    BY <2>1 DEF Moves, SocketShape, Unborn, Streaming
  <2>3. resolver'[k] # Unborn /\ resolver[k] # Unborn
    BY <2>1, <2>2 DEF Unborn, Streaming
  <2> QED
    BY <2>1, <2>2, <2>3, SameEntries DEF Streaming
<1>5. ASSUME NEW k \in Resolvers, RemoveId(k) PROVE Entries'
  <2>1. /\ UNCHANGED loop /\ resolver[k].at = "remove" /\ Moves(k, "done", "none")
        /\ registry' = [registry EXCEPT ![resolver[k].id] = 0]
        /\ \A j \in Resolvers : cancelRx[j] = "signalled" => cancelRx'[j] = "signalled"
    BY <1>5 DEF RemoveId
  <2>2. /\ \A j \in Resolvers \ {k} : resolver'[j] = resolver[j]
        /\ resolver'[k].id = resolver[k].id /\ resolver'[k].at = "done" /\ resolver'[k] # Unborn
        /\ resolver[k] # Unborn
    <3>1. resolver[k] # Unborn
      BY <2>1 DEF Unborn
    <3>2. resolver'[k].at = "done" /\ resolver'[k].id = resolver[k].id
          /\ \A j \in Resolvers \ {k} : resolver'[j] = resolver[j]
      BY <2>1, ResolverMoves
    <3> QED
      BY <2>1, <3>1, <3>2, ResolverMoves
  <2>3. PICK i \in SubIds : i = resolver[k].id
    BY <2>2, ShapedResolvers
  <2>4. registry'[i] = 0 /\ \A j \in SubIds \ {i} : registry'[j] = registry[j]
    BY <2>1, <2>3 DEF SocketShape
  <2>5. ASSUME NEW j \in Resolvers \ {k}, resolver[j].id = i, registry[i] = j,
               \A l \in (j + 1)..MaxResolvers : resolver[l].id # i
        PROVE  Outlived(j)
    <3>1. Outlived(k) /\ k \in 1..j
      BY <2>1, <2>3, <2>5, ShapedResolvers DEF Entries
    <3>2. PICK l \in 1..k : resolver[l].id = i /\ cancelRx[l] = "signalled"
      BY <2>3, <3>1 DEF Outlived
    <3>3. l \in 1..j
      BY <3>1, ShapedResolvers
    <3> QED
      BY <2>5, <3>2, <3>3 DEF Outlived
  <2>6. \A j \in Resolvers : resolver[j].at # "none" => resolver[j].id \in SubIds
    BY ShapedResolvers
  <2> QED
    BY <2>1, <2>2, <2>4, <2>5, <2>6, FewerEntries
<1>6. CASE CancelAll
  <2>1. /\ UNCHANGED <<loop, resolver>> /\ \A i \in SubIds : registry'[i] = 0
        /\ \A k \in Resolvers : cancelRx'[k] = IF \E i \in SubIds : registry[i] = k THEN "signalled" ELSE cancelRx[k]
    BY <1>6 DEF CancelAll
  <2>2. \A k \in Resolvers : resolver[k].at # "none" => resolver[k].id \in SubIds
    BY ShapedResolvers
  <2> QED
    BY <2>1, <2>2, FewerEntries
<1> QED
  BY <1>1, <1>2, <1>3, <1>4, <1>5, <1>6, RegisterKeepsEntries DEF SocketNext, SocketTasks

\* The invariant the theorems on the subscription socket follow from.
THEOREM SocketInvAlways == SocketSpec => []SocketInv
<1>1. SocketInv /\ [SocketNext]_socketState => SocketInv'
  BY StepKeepsSocketShape, StepKeepsOneSender, StepKeepsEntries DEF SocketInv
<1> QED
  BY <1>1, SocketInvHoldsFirst, PTL DEF SocketSpec

\* The socket's loop, registry, resolvers and channel keep their types.
THEOREM SocketIsTyped == SocketSpec => []SocketTypeOK
<1>1. SocketInv => SocketTypeOK
  BY DEF SocketInv, SocketShape, SocketTypeOK, Asked, Streaming, Unborn
<1> QED
  BY <1>1, SocketInvAlways, PTL

\* A resolver that is still at work has its own entry in the registry, unless its id was used
\* again after a cancellation it has not noticed: OwnEntryKept.
THEOREM EntriesAreKept == SocketSpec => []OwnEntryKept
<1>1. SocketInv => OwnEntryKept
  BY DEF SocketInv, Entries, OwnEntryKept, Outlived
<1> QED
  BY <1>1, SocketInvAlways, PTL

\* The client's history moves as the protocol allows.
LEMMA SocketStepsAsPromised ==
  SocketInv /\ [SocketNext]_socketState => [SocketPromise!Next]_(SocketPromise!vars)
<1> SUFFICES ASSUME SocketShape, OneSender, [SocketNext]_socketState, ~UNCHANGED <<subPhase, subItems>>
             PROVE  SocketPromise!Next
  BY DEF SocketInv, SocketPromise!vars
<1>1. \/ \E i \in SubIds : SubscribeMessage(i)
      \/ Write /\ outbound # <<>> /\ outbound' = Tail(outbound) /\ SocketShows(Head(outbound))
  BY DEF SocketNext, SocketTasks, InitMessage, InitFails, PingMessage, Vanish, CompleteMessage,
         OpenStream, StreamItem, Acknowledge, CheckId, CheckLimit, Refusal, Register, Leaves, Write,
         CancelAll, Cancelled, SendItem, RemoveId, SocketShows, subHistory, socketState
<1>2. ASSUME NEW i \in SubIds, SubscribeMessage(i) PROVE SocketPromise!Next
  <2>1. subPhase[i] \in {"unused", "open", "ended", "reused"}
    BY DEF SocketShape
  <2>2. SocketPromise!Subscribe(i) \/ SocketPromise!Reuse(i)
    BY <1>2, <2>1 DEF SubscribeMessage, SocketPromise!Subscribe, SocketPromise!Reuse
  <2> QED
    BY <2>2 DEF SocketPromise!Next
<1>3. CASE Write /\ outbound # <<>> /\ outbound' = Tail(outbound) /\ SocketShows(Head(outbound))
  <2>1. PICK m : m = Head(outbound) /\ m = outbound[1]
    BY <1>3, Written
  <2>2. 1 \in DOMAIN outbound /\ m.id \in SubIds
    BY <1>3, <2>1, Written DEF SocketShows, subHistory
  <2>3. PICK i \in SubIds : i = m.id
    BY <2>2
  <2>4. subPhase[i] # "reused" /\ i # "none"
    BY <1>3, <2>1, <2>3, SocketConstants DEF SocketShows, subHistory
  <2>5. subPhase[i] = "open"
    BY <2>1, <2>2, <2>3, <2>4 DEF OneSender, OnItsWay
  <2>6. \/ subItems' = [subItems EXCEPT ![i] = @ + 1] /\ UNCHANGED subPhase
        \/ subPhase' = [subPhase EXCEPT ![i] = "ended"] /\ UNCHANGED subItems
    BY <1>3, <2>1, <2>3, <2>4, <2>5 DEF SocketShows
  <2>7. SocketPromise!Item(i) \/ SocketPromise!End(i)
    BY <2>5, <2>6 DEF SocketPromise!Item, SocketPromise!End
  <2> QED
    BY <2>7 DEF SocketPromise!Next
<1> QED
  BY <1>1, <1>2, <1>3

\* The socket implements SubscriptionStream, the promise of the graphql-ws protocol.
THEOREM SocketPromiseIsKept == SocketSpec => SocketKeepsPromise
<1>1. SocketInit => SocketPromise!Init
  BY DEF SocketInit, SocketPromise!Init
<1> QED
  BY <1>1, SocketStepsAsPromised, SocketInvAlways, PTL
  DEF SocketSpec, SocketKeepsPromise, SocketPromise!Spec

-----------------------------------------------------------------------------
\* Before the connection is initialized, and when that failed, nobody has sent anything.
Uninitialized == loop.at \in {"init", "init.ack", "abandoned"}

NothingYet == outbound = <<>> /\ writer = "running" /\ \A k \in Resolvers : resolver[k].at = "none"

HeldOpen == loop.at = "abandoned" /\ writer = "running"

LEMMA UninitializedStays ==
  ASSUME SocketShape, Uninitialized => NothingYet, [SocketNext]_socketState
  PROVE  /\ Uninitialized' => NothingYet'
         /\ loop.at = "abandoned" => HeldOpen'
<1> USE DEF HeldOpen
<1>0. loop = [at |-> loop.at, id |-> loop.id]
  BY DEF SocketShape
<1>1. CASE ~Uninitialized
  <2>1. CASE UNCHANGED loop
    BY <1>1, <2>1 DEF Uninitialized
  <2>2. CASE loop'.at \in {"answer", "contains", "limit", "register", "refuse", "receive", "closed"}
    BY <1>1, <2>2 DEF Uninitialized
  <2>3. CASE InitMessage \/ InitFails
    BY <1>1, <2>3 DEF InitMessage, InitFails, Uninitialized
  <2>4. CASE PingMessage \/ Acknowledge \/ CheckId \/ CheckLimit \/ Refusal \/ Register \/ Leaves
    <3>1. CASE PingMessage \/ Acknowledge \/ Refusal \/ Register \/ Leaves
      <4>1. loop'.at \in {"answer", "receive", "closed"}
        BY <3>1 DEF PingMessage, Hears, Acknowledge, Refusal, Register, Leaves, Listening
      <4> QED
        BY <2>2, <4>1
    <3>2. CASE CheckId \/ CheckLimit
      <4>1. \E where \in {"limit", "register", "refuse"} : loop' = [loop EXCEPT !.at = where]
        BY <3>2 DEF CheckId, CheckLimit
      <4>2. loop'.at \in {"limit", "register", "refuse"}
        BY <1>0, <4>1
      <4> QED
        BY <2>2, <4>2
    <3> QED
      BY <2>4, <3>1, <3>2
  <2>5. ASSUME NEW i \in SubIds, SubscribeMessage(i) \/ CompleteMessage(i)
        PROVE  UNCHANGED loop \/ loop'.at = "contains"
    BY <2>5 DEF SubscribeMessage, CompleteMessage, Hears
  <2>6. CASE Vanish \/ Write \/ CancelAll \/ UNCHANGED socketState
    BY <2>1, <2>6 DEF Vanish, Write, CancelAll, socketState
  <2>7. ASSUME NEW k \in Resolvers,
               OpenStream(k) \/ StreamItem(k) \/ Cancelled(k) \/ SendItem(k) \/ RemoveId(k)
        PROVE  UNCHANGED loop
    BY <2>7 DEF OpenStream, StreamItem, Cancelled, SendItem, RemoveId
  <2> QED
    BY <2>1, <2>2, <2>3, <2>4, <2>5, <2>6, <2>7 DEF SocketNext, SocketTasks
<1>2. CASE Uninitialized
  <2>0. NothingYet
    BY <1>2
  <2>1. CASE UNCHANGED <<outbound, writer, resolver>> /\ (loop.at = "abandoned" => UNCHANGED loop)
    BY <2>0, <2>1 DEF NothingYet
  <2>2. CASE InitMessage \/ InitFails \/ Vanish \/ UNCHANGED socketState
    BY <2>1, <2>2 DEF InitMessage, Hears, InitFails, Vanish, socketState
  <2>3. CASE Acknowledge
    BY <2>3 DEF Acknowledge, Listening, Uninitialized
  <2>4. ~(PingMessage \/ CheckId \/ CheckLimit \/ Refusal \/ Register \/ Leaves)
    BY <1>2 DEF PingMessage, CheckId, CheckLimit, Refusal, Register, Leaves, Uninitialized
  <2>5. \A i \in SubIds : ~(SubscribeMessage(i) \/ CompleteMessage(i))
    BY <1>2 DEF SubscribeMessage, CompleteMessage, Uninitialized
  <2>6. ~(Write \/ CancelAll)
    BY <1>2, <2>0 DEF Write, CancelAll, SenderLeft, Uninitialized, NothingYet
  <2>7. \A k \in Resolvers :
           ~(OpenStream(k) \/ StreamItem(k) \/ Cancelled(k) \/ SendItem(k) \/ RemoveId(k))
    BY <2>0 DEF OpenStream, StreamItem, Cancelled, SendItem, RemoveId, NothingYet
  <2> QED
    BY <2>2, <2>3, <2>4, <2>5, <2>6, <2>7 DEF SocketNext, SocketTasks
<1> QED
  BY <1>1, <1>2

\* What handle_socket does after connection_init_timeout: it awaits the write task, which waits
\* for a message or for the end of a channel whose sender handle_socket still owns.  Whatever
\* the client does then, and if it leaves, neither of the two ever ends.
THEOREM AbandonedIsNeverReleased ==
  SocketSpec => [](loop.at = "abandoned" => []HeldOpen)
<1> DEFINE Early == Uninitialized => NothingYet
<1>1. SocketInit => Early
  BY DEF SocketInit, NothingYet, Unborn
<1>2. SocketInv /\ Early /\ [SocketNext]_socketState
        => Early' /\ (loop.at = "abandoned" => HeldOpen')
  BY UninitializedStays DEF SocketInv
<1>3. (Early /\ loop.at = "abandoned" => HeldOpen) /\ (HeldOpen => loop.at = "abandoned")
  BY DEF Uninitialized, NothingYet, HeldOpen
<1> HIDE DEF Early
<1> QED
  BY <1>1, <1>2, <1>3, SocketInvAlways, PTL DEF SocketSpec

-----------------------------------------------------------------------------
LiveSpec == LiveInit /\ [][LiveNext]_liveVars

\* Where a task is before it has an entry, and how far its registration has come after.
Unregistered == {"execute", "total", "per.connection", "insert"}
Registered == {"initial", "listen", "get", "reexecute", "sender", "send"}
InConnection == {"insert.sender"} \cup Registered
InTriggers == {"insert.connection"} \cup InConnection
TaskSteps == {"none", "insert.trigger", "done"} \cup Unregistered \cup InTriggers
Unregistering == {"trigger", "connection", "sender"}

StoreShape ==
    /\ queries \in [LiveIds -> LiveTasks \cup {0}]
    /\ triggerIndex \subseteq LiveIds
    /\ connectionIndex \in [Conns -> SUBSET LiveIds]
    /\ updateSenders \in [LiveIds -> Conns \cup {NoConn}]

TaskRecord == [conn : Conns \cup {NoConn}, id : LiveIds \cup {"none"}, at : TaskSteps, to : Conns \cup {NoConn}]
TaskShape ==
    /\ task \in [LiveTasks -> TaskRecord]
    /\ \A t \in LiveTasks : IF task[t].at = "none" THEN task[t].id = "none"
                            ELSE task[t].id \in LiveIds /\ task[t].conn \in Conns
    /\ \A t \in LiveTasks : task[t].at = "send" => task[t].to \in Conns

RemovalRecord == [at : {"none", "query"} \cup Unregistering, id : LiveIds \cup {"none"},
                  conn : Conns \cup {NoConn}]
RemovalShape ==
    /\ removal \in [Actors -> RemovalRecord]
    /\ \A p \in Actors : /\ removal[p].at # "none" => removal[p].id \in LiveIds
                         /\ removal[p].at \in Unregistering => removal[p].conn \in Conns

LoopShape == socket \in [Conns -> [at : {"receive", "answer", "closing", "closed"}, left : SUBSET LiveIds]]

LiveShape == StoreShape /\ TaskShape /\ RemovalShape /\ LoopShape

ChannelShape ==
    /\ pending \in [LiveTasks -> 0..(EventBuffer + 1)]
    /\ updates \in [Conns -> Seq(LiveTasks)]
    /\ \A c \in Conns : Len(updates[c]) <= UpdateCapacity
    /\ outgoing \in [Conns -> 0..OutgoingCapacity]

\* The store knows no id that no task has had.
StoreFollowsTasks ==
    /\ \A i \in LiveIds : queries[i] # 0 => task[queries[i]].id = i
    /\ \A p \in Actors : removal[p].at \in Unregistering => \E t \in LiveTasks : task[t].id = removal[p].id

\* The entry of a task whose id no other task has: the maps follow as far as its registration
\* has come, and no removal is under way.
OwnsId(t) == task[t].at # "none" /\ \A r \in LiveTasks \ {t} : task[r].id # task[t].id
Untouched(i) == \A p \in Actors : removal[p].at \in Unregistering => removal[p].id # i

OwnerIsReachable ==
    \A t \in LiveTasks : OwnsId(t) =>
        LET i == task[t].id IN
        /\ task[t].at \in Unregistered => queries[i] # t /\ Untouched(i)
        /\ (queries[i] = t) =>
             /\ Untouched(i)
             /\ (task[t].at \in InTriggers) => i \in triggerIndex
             /\ (task[t].at \in InConnection) => i \in connectionIndex[task[t].conn]
             /\ (task[t].at \in Registered) => updateSenders[i] = task[t].conn

LiveInv == LiveShape /\ ChannelShape /\ StoreFollowsTasks /\ OwnerIsReachable

LEMMA LiveConstants ==
  /\ MaxTasks \in Nat /\ EventBuffer \in Nat /\ UpdateCapacity \in Nat /\ OutgoingCapacity \in Nat
  /\ EventBuffer > 0 /\ UpdateCapacity > 0 /\ OutgoingCapacity > 0
  /\ "none" \notin LiveIds /\ NoConn \notin Conns
<1>1. /\ {MaxTasks, MaxActors, MaxTotal, MaxPerConnection, MaxHeard, MaxPublished} \subseteq Nat
      /\ {EventBuffer, UpdateCapacity, OutgoingCapacity} \subseteq Nat \ {0}
      /\ "none" \notin LiveIds \cup Conns
  BY LiveAssumption, Zenon DEF LiveAssumption
<1>2. /\ MaxTasks \in Nat /\ EventBuffer \in Nat \ {0} /\ UpdateCapacity \in Nat \ {0}
      /\ OutgoingCapacity \in Nat \ {0}
  BY <1>1
<1> QED
  BY <1>1, <1>2 DEF NoConn

LEMMA LiveInvHoldsFirst == LiveInit => LiveInv
<1> SUFFICES ASSUME LiveInit PROVE LiveInv
  OBVIOUS
<1> USE LiveConstants
<1>1. LiveShape
  BY DEF LiveInit, LiveShape, StoreShape, TaskShape, TaskRecord, RemovalShape, RemovalRecord, LoopShape, NoRemoval, Awaiting, TaskSteps, NoConn, Unregistering
<1>2. ChannelShape
  BY DEF LiveInit, ChannelShape
<1>3. StoreFollowsTasks
  BY DEF LiveInit, StoreFollowsTasks, NoRemoval, Unregistering
<1>4. OwnerIsReachable
  BY DEF LiveInit, OwnerIsReachable, OwnsId
<1> QED
  BY <1>1, <1>2, <1>3, <1>4 DEF LiveInv

\* A step of a subscription task that changes only where it is.
LEMMA TaskMoves ==
  ASSUME TaskShape, NEW t \in LiveTasks, task[t].at # "none",
         NEW where \in TaskSteps \ {"none", "send"}, Moved(t, where)
  PROVE  /\ TaskShape' /\ \A r \in LiveTasks \ {t} : task'[r] = task[r]
         /\ task'[t].id = task[t].id /\ task'[t].conn = task[t].conn /\ task'[t].at = where
         /\ task[t].id \in LiveIds /\ task[t].conn \in Conns
<1>1. task \in [LiveTasks -> TaskRecord]
  BY DEF TaskShape
<1>2. task[t].id \in LiveIds /\ task[t].conn \in Conns
  BY DEF TaskShape
<1>3. /\ task'[t] = [conn |-> task[t].conn, id |-> task[t].id, at |-> where, to |-> task[t].to]
      /\ task' = [r \in LiveTasks |-> task'[r]]
      /\ \A r \in LiveTasks \ {t} : task'[r] = task[r]
  BY <1>1 DEF Moved, TaskRecord
<1>4. task'[t] \in TaskRecord
  BY <1>1, <1>2, <1>3 DEF TaskRecord
<1>5. task' \in [LiveTasks -> TaskRecord]
  BY <1>1, <1>3, <1>4
<1>6. \A r \in LiveTasks : IF task'[r].at = "none" THEN task'[r].id = "none"
                           ELSE task'[r].id \in LiveIds /\ task'[r].conn \in Conns
  BY <1>2, <1>3 DEF TaskShape
<1>7. \A r \in LiveTasks : task'[r].at = "send" => task'[r].to \in Conns
  BY <1>3 DEF TaskShape
<1> QED
  BY <1>2, <1>3, <1>5, <1>6, <1>7 DEF TaskShape

\* A result to a connection's relay.
LEMMA ToRelayKeepsShape ==
  ASSUME ChannelShape, NEW c \in Conns, NEW t \in LiveTasks, ToRelay(c, t)
  PROVE  updates' \in [Conns -> Seq(LiveTasks)] /\ \A d \in Conns : Len(updates'[d]) <= UpdateCapacity
<1>1. updates[c] \in Seq(LiveTasks) /\ Len(updates[c]) \in Nat
  BY DEF ChannelShape
<1>2. CASE Len(updates[c]) < UpdateCapacity /\ updates' = [updates EXCEPT ![c] = Append(@, t)]
  <2>1. Append(updates[c], t) \in Seq(LiveTasks) /\ Len(Append(updates[c], t)) <= UpdateCapacity
    BY <1>1, <1>2, LiveConstants
  <2> QED
    BY <1>2, <2>1 DEF ChannelShape
<1>3. CASE UNCHANGED updates
  BY <1>3 DEF ChannelShape
<1> QED
  BY <1>2, <1>3 DEF ToRelay

LEMMA StepKeepsChannelShape ==
  ASSUME LiveShape, ChannelShape, [LiveNext]_liveVars PROVE ChannelShape'
<1>1. CASE UNCHANGED <<pending, updates, outgoing>>
  BY <1>1 DEF ChannelShape
<1>2. ASSUME NEW c \in Conns, RelayUpdate(c) \/ ForwardMessage(c) \/ SendAnswer(c) PROVE ChannelShape'
  <2>1. UNCHANGED pending
    BY <1>2 DEF RelayUpdate, ForwardMessage, SendAnswer, storeVars
  <2>2. outgoing' \in [Conns -> 0..OutgoingCapacity]
    <3>1. outgoing[c] \in 0..OutgoingCapacity /\ OutgoingCapacity \in Nat
      BY LiveConstants DEF ChannelShape
    <3>2. \E n \in 0..OutgoingCapacity : outgoing' = [outgoing EXCEPT ![c] = n]
      <4>1. CASE RelayUpdate(c)
        <5>1. CASE c \in forwarder /\ outgoing[c] < OutgoingCapacity
          <6>1. outgoing' = [outgoing EXCEPT ![c] = outgoing[c] + 1]
            BY <4>1, <5>1 DEF RelayUpdate
          <6>2. outgoing[c] + 1 \in 0..OutgoingCapacity
            BY <3>1, <5>1
          <6> QED
            BY <6>1, <6>2
        <5>2. CASE ~(c \in forwarder /\ outgoing[c] < OutgoingCapacity)
          <6>1. outgoing' = [outgoing EXCEPT ![c] = outgoing[c]]
            BY <4>1, <5>2 DEF RelayUpdate
          <6> QED
            BY <3>1, <6>1
        <5> QED
          BY <5>1, <5>2
      <4>2. CASE ForwardMessage(c)
        BY <3>1, <4>2 DEF ForwardMessage
      <4>3. CASE SendAnswer(c)
        <5>1. UNCHANGED outgoing => outgoing' = [outgoing EXCEPT ![c] = outgoing[c]]
          BY DEF ChannelShape
        <5> QED
          BY <3>1, <4>3, <5>1 DEF SendAnswer
      <4> QED
        BY <1>2, <4>1, <4>2, <4>3
    <3> QED
      BY <3>2 DEF ChannelShape
  <2>3. updates' \in [Conns -> Seq(LiveTasks)] /\ \A d \in Conns : Len(updates'[d]) <= UpdateCapacity
    <3>1. CASE UNCHANGED updates
      BY <3>1 DEF ChannelShape
    <3>2. CASE RelayUpdate(c)
      <4>1. updates[c] # <<>> /\ \E q \in {Tail(updates[c]), <<>>} : updates' = [updates EXCEPT ![c] = q]
        BY <3>2 DEF RelayUpdate
      <4>2. /\ Tail(updates[c]) \in Seq(LiveTasks) /\ Len(Tail(updates[c])) <= UpdateCapacity
            /\ <<>> \in Seq(LiveTasks) /\ Len(<<>>) <= UpdateCapacity
        BY <4>1, LiveConstants DEF ChannelShape
      <4> QED
        BY <4>1, <4>2 DEF ChannelShape
    <3> QED
      BY <1>2, <3>1, <3>2 DEF ForwardMessage, SendAnswer
  <2> QED
    BY <2>1, <2>2, <2>3 DEF ChannelShape
<1>3. ASSUME NEW t \in LiveTasks, LiveTask(t) PROVE ChannelShape'
  <2>1. CASE SendInitial(t)
    <3>1. task[t].conn \in Conns /\ ToRelay(task[t].conn, t) /\ UNCHANGED <<pending, outgoing>>
      BY <2>1 DEF SendInitial, Stands, LiveShape, TaskShape
    <3> QED
      BY <3>1, ToRelayKeepsShape DEF ChannelShape
  <2>2. CASE SendUpdate(t)
    <3>1. task[t].to \in Conns /\ ToRelay(task[t].to, t) /\ UNCHANGED <<pending, outgoing>>
      BY <2>2 DEF SendUpdate, Stands, LiveShape, TaskShape
    <3> QED
      BY <3>1, ToRelayKeepsShape DEF ChannelShape
  <2>3. CASE ReceiveEvent(t)
    <3>1. /\ UNCHANGED channels /\ pending[t] > 0
          /\ \E n \in {0, pending[t] - 1} : pending' = [pending EXCEPT ![t] = n]
      BY <2>3 DEF ReceiveEvent
    <3>2. pending[t] \in 0..(EventBuffer + 1) /\ EventBuffer \in Nat
      BY LiveConstants DEF ChannelShape
    <3>3. 0 \in 0..(EventBuffer + 1) /\ pending[t] - 1 \in 0..(EventBuffer + 1)
      BY ONLY <3>1, <3>2
    <3>4. \E n \in 0..(EventBuffer + 1) : pending' = [pending EXCEPT ![t] = n]
      BY ONLY <3>1, <3>3
    <3> QED
      BY <3>1, <3>4 DEF ChannelShape, channels
  <2>4. CASE ~SendInitial(t) /\ ~SendUpdate(t) /\ ~ReceiveEvent(t)
    BY <1>1, <1>3, <2>4 DEF LiveTask, ExecuteInitial, CheckTotal, CheckConnection, InsertInto, GetQuery,
                            ReexecuteQuery, FindSender, channels
  <2> QED
    BY <2>1, <2>2, <2>3, <2>4
<1>4. CASE Invalidate
  <2>1. /\ UNCHANGED channels
        /\ \A t \in LiveTasks : pending[t] \in 0..(EventBuffer + 1) /\ EventBuffer \in Nat
    BY <1>4, LiveConstants DEF Invalidate, ChannelShape
  <2>2. pending' \in [LiveTasks -> 0..(EventBuffer + 1)]
    BY <1>4, <2>1 DEF Invalidate
  <2> QED
    BY <2>1, <2>2 DEF ChannelShape, channels
<1>5. ASSUME NEW p \in Actors, Unregister(p) PROVE ChannelShape'
  BY <1>1, <1>5 DEF Unregister, channels
<1>6. ASSUME NEW c \in Conns, \/ AnsweredMessage(c) \/ LeaveLive(c) \/ CloseLive(c) \/ RelayEnds(c)
                              \/ \E i \in LiveIds : SubscribeLive(c, i) \/ CompleteLive(c, i)
      PROVE ChannelShape'
  BY <1>1, <1>6 DEF AnsweredMessage, LeaveLive, CloseLive, RelayEnds, SubscribeLive, CompleteLive, Takes,
                    channels
<1>7. CASE UNCHANGED liveVars
  BY <1>1, <1>7 DEF liveVars, channels
<1> QED
  BY <1>2, <1>3, <1>4, <1>5, <1>6, <1>7 DEF LiveNext, LiveWork

\* A main loop or a task starts, ends or advances its removal.
LEMMA RemovalIsSet ==
  ASSUME RemovalShape, NEW p \in Actors, NEW r \in RemovalRecord,
         r.at # "none" => r.id \in LiveIds, r.at \in Unregistering => r.conn \in Conns,
         removal' = [removal EXCEPT ![p] = r]
  PROVE  RemovalShape' /\ removal'[p] = r /\ \A q \in Actors \ {p} : removal'[q] = removal[q]
<1>1. /\ removal' \in [Actors -> RemovalRecord] /\ removal'[p] = r
      /\ \A q \in Actors \ {p} : removal'[q] = removal[q]
  BY DEF RemovalShape
<1> QED
  BY <1>1 DEF RemovalShape

LEMMA RemovalAdvances ==
  ASSUME RemovalShape, NEW p \in Actors, removal[p].at \in Unregistering,
         NEW where \in Unregistering, removal' = [removal EXCEPT ![p].at = where]
  PROVE  /\ RemovalShape' /\ \A q \in Actors \ {p} : removal'[q] = removal[q]
         /\ removal'[p].at = where /\ removal'[p].id = removal[p].id /\ removal'[p].conn = removal[p].conn
<1> DEFINE r == [at |-> where, id |-> removal[p].id, conn |-> removal[p].conn]
<1>1. removal \in [Actors -> RemovalRecord]
  BY DEF RemovalShape
<1>2. removal[p] \in RemovalRecord /\ removal[p].id \in LiveIds /\ removal[p].conn \in Conns
  BY DEF RemovalShape, Unregistering
<1>3. r \in RemovalRecord
  BY <1>2 DEF RemovalRecord
<1>4. /\ removal'[p] = r /\ removal' = [q \in Actors |-> removal'[q]]
      /\ \A q \in Actors \ {p} : removal'[q] = removal[q]
  BY <1>1 DEF RemovalRecord
<1> HIDE DEF r
<1>5. removal' = [removal EXCEPT ![p] = r]
  BY <1>1, <1>4
<1>6. r.at = where /\ r.id = removal[p].id /\ r.conn = removal[p].conn
  BY DEF r
<1> QED
  BY <1>2, <1>3, <1>5, <1>6, RemovalIsSet

\* What unregister does to the removal of p.
LEMMA UnregisterSteps ==
  ASSUME LiveShape, StoreFollowsTasks, NEW p \in Actors, Unregister(p)
  PROVE  /\ RemovalShape' /\ \A q \in Actors \ {p} : removal'[q] = removal[q]
         /\ removal[p].id \in LiveIds
         /\ removal'[p].at \in Unregistering =>
              /\ removal'[p].id = removal[p].id
              /\ \/ removal[p].at \in Unregistering
                 \/ RemoveQuery(p) /\ queries[removal[p].id] # 0
<1>0. RemovalShape /\ removal[p] \in RemovalRecord
  BY DEF LiveShape, RemovalShape
<1>1. CASE RemoveQuery(p)
  <2> DEFINE i == removal[p].id
  <2>1. removal[p].at = "query" /\ i \in LiveIds
    BY <1>1 DEF RemoveQuery, LiveShape, RemovalShape
  <2>2. CASE queries[i] = 0
    <3>1. removal' = [removal EXCEPT ![p] = NoRemoval]
      BY <1>1, <2>2 DEF RemoveQuery
    <3>2. NoRemoval \in RemovalRecord /\ NoRemoval.at = "none"
      BY DEF NoRemoval, RemovalRecord, NoConn
    <3>3. NoRemoval.at \notin Unregistering
      BY <3>2 DEF Unregistering
    <3> HIDE DEF i
    <3> QED
      BY <1>0, <2>1, <3>1, <3>2, <3>3, RemovalIsSet DEF i
  <2>3. CASE queries[i] # 0
    <3> DEFINE r == [at |-> "trigger", id |-> i, conn |-> task[queries[i]].conn]
    <3>1. removal' = [removal EXCEPT ![p] = r]
      BY <1>1, <2>3 DEF RemoveQuery
    <3>3. queries[i] \in LiveTasks /\ task[queries[i]].conn \in Conns \cup {NoConn}
      BY <2>1, <2>3 DEF LiveShape, StoreShape, TaskShape, TaskRecord
    <3>4. task[queries[i]].conn \in Conns
      BY <2>1, <2>3, <3>3, LiveConstants DEF StoreFollowsTasks, LiveShape, TaskShape
    <3>5. r \in RemovalRecord /\ r.at = "trigger" /\ r.id = i /\ r.conn \in Conns
      BY <2>1, <3>4 DEF RemovalRecord, Unregistering
    <3> HIDE DEF r
    <3>6. RemovalShape' /\ removal'[p] = r /\ \A q \in Actors \ {p} : removal'[q] = removal[q]
      BY <1>0, <2>1, <3>1, <3>5, RemovalIsSet
    <3> QED
      BY <1>1, <2>1, <2>3, <3>5, <3>6
  <2> QED
    BY <2>2, <2>3
<1>2. CASE RemoveTrigger(p) \/ RemoveFromConnection(p)
  <2>1. removal[p].at \in Unregistering /\ removal[p].id \in LiveIds
    BY <1>2 DEF RemoveTrigger, RemoveFromConnection, Unregistering, LiveShape, RemovalShape
  <2>2. \E where \in Unregistering : removal' = [removal EXCEPT ![p].at = where]
    BY <1>2 DEF RemoveTrigger, RemoveFromConnection, Unregistering
  <2> QED
    BY <1>0, <2>1, <2>2, RemovalAdvances
<1>3. CASE RemoveSender(p)
  <2>1. removal[p].id \in LiveIds
    BY <1>3 DEF RemoveSender, LiveShape, RemovalShape
  <2>2. NoRemoval \in RemovalRecord /\ NoRemoval.at = "none"
    BY DEF NoRemoval, RemovalRecord, NoConn
  <2>3. NoRemoval.at \notin Unregistering
    BY <2>2 DEF Unregistering
  <2> QED
    BY <1>0, <1>3, <2>1, <2>2, <2>3, RemovalIsSet DEF RemoveSender
<1> QED
  BY <1>1, <1>2, <1>3 DEF Unregister

\* How far the registration of a task has come stays, or the task is done.
KeepsProgress(t) ==
    /\ task'[t].at \in Unregistered => task[t].at \in Unregistered
    /\ task'[t].at \in InTriggers => task[t].at \in InTriggers
    /\ task'[t].at \in InConnection => task[t].at \in InConnection
    /\ task'[t].at \in Registered => task[t].at \in Registered

\* What a subscription task does to its record, and to the removals.
LEMMA LiveTaskSteps ==
  ASSUME LiveShape, NEW t \in LiveTasks, LiveTask(t)
  PROVE  /\ TaskShape' /\ RemovalShape'
         /\ \A r \in LiveTasks \ {t} : task'[r] = task[r]
         /\ task'[t].id = task[t].id /\ task'[t].conn = task[t].conn
         /\ task[t].at # "none" /\ task'[t].at # "none"
         /\ task[t].id \in LiveIds /\ task[t].conn \in Conns
         /\ \A p \in Actors : removal'[p].at \in Unregistering => removal'[p] = removal[p]
         /\ (UNCHANGED storeVars /\ KeepsProgress(t)) \/ InsertInto(t)
<1>1. TaskShape /\ RemovalShape
  BY DEF LiveShape
<1>2. task[t].at # "none"
  BY DEF LiveTask, ExecuteInitial, CheckTotal, CheckConnection, InsertInto, Insert, SendInitial, ReceiveEvent,
         GetQuery, ReexecuteQuery, FindSender, SendUpdate, Stands
<1>3. ASSUME NEW where \in TaskSteps \ {"none", "send"}, Moved(t, where), UNCHANGED removal
      PROVE  /\ TaskShape' /\ RemovalShape'
             /\ \A r \in LiveTasks \ {t} : task'[r] = task[r]
             /\ task'[t].id = task[t].id /\ task'[t].conn = task[t].conn /\ task'[t].at = where
             /\ task'[t].at # "none" /\ task[t].id \in LiveIds /\ task[t].conn \in Conns
             /\ \A p \in Actors : removal'[p].at \in Unregistering => removal'[p] = removal[p]
  <2>1. RemovalShape'
    BY <1>1, <1>3 DEF RemovalShape
  <2> QED
    BY <1>1, <1>2, <1>3, <2>1, TaskMoves
<1>4. CASE ExecuteInitial(t) \/ CheckTotal(t) \/ CheckConnection(t)
  <2>1. /\ \E where \in {"total", "per.connection", "insert", "done"} : Moved(t, where)
        /\ task[t].at \in Unregistered /\ UNCHANGED <<storeVars, removal>>
    BY <1>4 DEF ExecuteInitial, CheckTotal, CheckConnection, Stands, Unregistered
  <2>2. \A where \in {"total", "per.connection", "insert", "done"} :
          where \in TaskSteps \ {"none", "send"} /\ where \notin InTriggers
    BY DEF TaskSteps, Unregistered, InTriggers, InConnection, Registered
  <2>3. UNCHANGED removal /\ UNCHANGED storeVars
    BY <2>1
  <2>4. InConnection \subseteq InTriggers /\ Registered \subseteq InTriggers
    BY DEF InTriggers, InConnection
  <2> QED
    BY <1>2, <1>3, <2>1, <2>2, <2>3, <2>4 DEF KeepsProgress
<1>5. CASE InsertInto(t)
  <2>1. \E where \in {"insert.trigger", "insert.connection", "insert.sender", "initial"} : Moved(t, where)
    BY <1>5 DEF InsertInto, Insert
  <2>2. {"insert.trigger", "insert.connection", "insert.sender", "initial"} \subseteq TaskSteps \ {"none", "send"}
    BY DEF TaskSteps, InTriggers, InConnection, Registered, Unregistered
  <2>3. UNCHANGED removal
    BY <1>5 DEF InsertInto
  <2> QED
    BY <1>2, <1>3, <1>5, <2>1, <2>2, <2>3
<1>6. CASE SendInitial(t)
  <2>1. /\ \E where \in {"listen", "done"} : Moved(t, where)
        /\ task[t].at = "initial" /\ UNCHANGED storeVars
    BY <1>6 DEF SendInitial, Stands
  <2>2. /\ {"listen", "done"} \subseteq TaskSteps \ {"none", "send"} /\ "done" \notin Unregistered \cup InTriggers
        /\ "listen" \notin Unregistered /\ "initial" \in Registered
        /\ Registered \subseteq InConnection /\ InConnection \subseteq InTriggers
    BY DEF TaskSteps, Unregistered, InTriggers, InConnection, Registered
  <2>3. /\ TaskShape' /\ \A r \in LiveTasks \ {t} : task'[r] = task[r]
        /\ task'[t].id = task[t].id /\ task'[t].conn = task[t].conn /\ task'[t].at \in {"listen", "done"}
        /\ task[t].id \in LiveIds /\ task[t].conn \in Conns
    BY <1>1, <1>2, <2>1, <2>2, TaskMoves
  <2>4. RemovalShape' /\ \A p \in Actors : removal'[p].at \in Unregistering => removal'[p] = removal[p]
    <3>1. CASE UNCHANGED removal
      BY <1>1, <3>1 DEF RemovalShape
    <3>2. CASE ~UNCHANGED removal
      <4> DEFINE r == NewRemoval(task[t].id)
      <4>1. removal' = [removal EXCEPT ![t] = r]
        BY <1>6, <3>2 DEF SendInitial
      <4>2. t \in Actors /\ r \in RemovalRecord /\ r.id \in LiveIds /\ r.at \notin Unregistering
        BY <2>3 DEF NewRemoval, Actors, RemovalRecord, Unregistering
      <4> HIDE DEF r
      <4> QED
        BY <1>1, <4>1, <4>2, RemovalIsSet
    <3> QED
      BY <3>1, <3>2
  <2>5. task'[t].at # "none" /\ KeepsProgress(t)
    BY <2>1, <2>2, <2>3 DEF KeepsProgress
  <2> QED
    BY <1>2, <2>1, <2>3, <2>4, <2>5
<1>7. CASE ReceiveEvent(t) \/ GetQuery(t) \/ ReexecuteQuery(t)
  <2>1. /\ \E where \in {"done", "get", "listen", "reexecute", "sender"} : Moved(t, where)
        /\ task[t].at \in Registered /\ UNCHANGED <<storeVars, removal>>
    BY <1>7 DEF ReceiveEvent, GetQuery, ReexecuteQuery, Stands, Registered
  <2>2. /\ {"done", "get", "listen", "reexecute", "sender"} \subseteq TaskSteps \ {"none", "send"}
        /\ Registered \subseteq InConnection /\ InConnection \subseteq InTriggers
        /\ \A where \in {"done", "get", "listen", "reexecute", "sender"} : where \notin Unregistered
    BY DEF TaskSteps, Unregistered, InTriggers, InConnection, Registered
  <2>3. UNCHANGED removal /\ UNCHANGED storeVars
    BY <2>1
  <2> QED
    BY <1>2, <1>3, <2>1, <2>2, <2>3 DEF KeepsProgress
<1>8. CASE FindSender(t) \/ SendUpdate(t)
  <2>1. /\ UNCHANGED <<storeVars, removal>> /\ task[t].at \in Registered
        /\ \E where \in {"done", "send", "listen"}, to \in Conns \cup {NoConn} :
              /\ where = "send" => to \in Conns
              /\ task' = [task EXCEPT ![t].at = where, ![t].to = to]
    <3>1. task[t].id \in LiveIds
      BY <1>1, <1>2 DEF TaskShape
    <3>2. updateSenders[task[t].id] \in Conns \cup {NoConn}
      BY <3>1 DEF LiveShape, StoreShape
    <3> QED
      BY <1>8, <3>2 DEF FindSender, SendUpdate, Stands, Registered
  <2>2. PICK where \in {"done", "send", "listen"}, to \in Conns \cup {NoConn} :
              /\ where = "send" => to \in Conns
              /\ task' = [task EXCEPT ![t].at = where, ![t].to = to]
    BY <2>1
  <2>3. where \in TaskSteps /\ where # "none" /\ where \notin Unregistered
    BY DEF TaskSteps, Unregistered, InTriggers, InConnection, Registered
  <2>4. /\ task'[t] = [conn |-> task[t].conn, id |-> task[t].id, at |-> where, to |-> to]
        /\ task' = [r \in LiveTasks |-> task'[r]] /\ \A r \in LiveTasks \ {t} : task'[r] = task[r]
    BY <1>1, <2>2 DEF TaskShape, TaskRecord
  <2>5. task[t].id \in LiveIds /\ task[t].conn \in Conns
    BY <1>1, <1>2 DEF TaskShape
  <2>6. task'[t] \in TaskRecord
    BY <2>3, <2>4, <2>5 DEF TaskRecord
  <2>7. TaskShape'
    <3>1. task' \in [LiveTasks -> TaskRecord]
      BY <1>1, <2>4, <2>6 DEF TaskShape
    <3> QED
      BY <1>1, <2>2, <2>3, <2>4, <2>5, <3>1 DEF TaskShape
  <2>8. RemovalShape' /\ UNCHANGED storeVars /\ UNCHANGED removal
    BY <1>1, <2>1 DEF RemovalShape
  <2>9. KeepsProgress(t)
    <3>1. Registered \subseteq InConnection /\ InConnection \subseteq InTriggers
      BY DEF InConnection, InTriggers
    <3>2. task'[t].at = where
      BY <2>4
    <3>3. task'[t].at \notin Unregistered
      BY <2>3, <3>2
    <3> QED
      BY <2>1, <3>1, <3>3 DEF KeepsProgress
  <2> QED
    BY <1>2, <2>3, <2>4, <2>5, <2>7, <2>8, <2>9
<1> QED
  BY <1>4, <1>5, <1>6, <1>7, <1>8 DEF LiveTask

\* What a main loop, the relays and the clients do to the store's users: at most start a removal.
LEMMA LoopSteps ==
  ASSUME LiveShape, NEW c \in Conns,
         \/ AnsweredMessage(c) \/ LeaveLive(c) \/ ForwardMessage(c) \/ SendAnswer(c) \/ CloseLive(c)
         \/ RelayUpdate(c) \/ RelayEnds(c) \/ \E i \in LiveIds : CompleteLive(c, i)
  PROVE  /\ UNCHANGED <<storeVars, task>> /\ RemovalShape' /\ LoopShape'
         /\ \A p \in Actors : removal'[p].at \in Unregistering => removal'[p] = removal[p]
<1>1. /\ RemovalShape /\ LoopShape /\ c \in Actors
      /\ connectionIndex[c] \subseteq LiveIds
      /\ socket[c] \in [at : {"receive", "answer", "closing", "closed"}, left : SUBSET LiveIds]
  BY DEF LiveShape, LoopShape, StoreShape, Actors
<1>2. ASSUME NEW i \in LiveIds, removal' = [removal EXCEPT ![c] = NewRemoval(i)]
      PROVE  RemovalShape' /\ \A p \in Actors : removal'[p].at \in Unregistering => removal'[p] = removal[p]
  <2>1. NewRemoval(i) \in RemovalRecord /\ NewRemoval(i).id \in LiveIds /\ NewRemoval(i).at \notin Unregistering
    BY DEF NewRemoval, RemovalRecord, Unregistering
  <2> QED
    BY <1>1, <1>2, <2>1, RemovalIsSet
<1>3. UNCHANGED removal => /\ RemovalShape'
                           /\ \A p \in Actors : removal'[p].at \in Unregistering => removal'[p] = removal[p]
  BY <1>1 DEF RemovalShape
<1>4. CASE AnsweredMessage(c) \/ LeaveLive(c) \/ ForwardMessage(c) \/ SendAnswer(c) \/ RelayUpdate(c) \/ RelayEnds(c)
  <2>1. UNCHANGED storeVars /\ UNCHANGED task /\ UNCHANGED removal
    BY <1>4 DEF AnsweredMessage, Takes, LeaveLive, ForwardMessage, SendAnswer, RelayUpdate, RelayEnds
  <2>2. socket' \in [Conns -> [at : {"receive", "answer", "closing", "closed"}, left : SUBSET LiveIds]]
    BY <1>1, <1>4 DEF LoopShape, AnsweredMessage, LeaveLive, ForwardMessage, SendAnswer, RelayUpdate, RelayEnds
  <2> QED
    BY <1>3, <2>1, <2>2 DEF LoopShape
<1>5. CASE \E i \in LiveIds : CompleteLive(c, i)
  <2>1. UNCHANGED storeVars /\ UNCHANGED task /\ UNCHANGED socket
    BY <1>5 DEF CompleteLive, Takes
  <2> QED
    BY <1>1, <1>2, <1>5, <2>1 DEF CompleteLive, LoopShape
<1>6. CASE CloseLive(c)
  <2>1. UNCHANGED storeVars /\ UNCHANGED task
    BY <1>6 DEF CloseLive
  <2>2. UNCHANGED removal \/ \E i \in LiveIds : removal' = [removal EXCEPT ![c] = NewRemoval(i)]
    BY <1>1, <1>6 DEF CloseLive
  <2>3. socket' \in [Conns -> [at : {"receive", "answer", "closing", "closed"}, left : SUBSET LiveIds]]
    <3>1. CASE socket' = [socket EXCEPT ![c] = [at |-> "closing", left |-> connectionIndex[c]]]
      BY <1>1, <3>1 DEF LoopShape
    <3>2. CASE socket' = [socket EXCEPT ![c].at = "closed"]
      BY <1>1, <3>2 DEF LoopShape
    <3>3. CASE \E i \in LiveIds : socket' = [socket EXCEPT ![c].left = @ \ {i}]
      BY <1>1, <3>3 DEF LoopShape
    <3>4. \/ socket' = [socket EXCEPT ![c] = [at |-> "closing", left |-> connectionIndex[c]]]
          \/ socket' = [socket EXCEPT ![c].at = "closed"]
          \/ \E i \in LiveIds : socket' = [socket EXCEPT ![c].left = @ \ {i}]
      BY <1>1, <1>6 DEF CloseLive
    <3> QED
      BY <3>1, <3>2, <3>3, <3>4
  <2> QED
    BY <1>2, <1>3, <2>1, <2>2, <2>3 DEF LoopShape
<1> QED
  BY <1>4, <1>5, <1>6

\* A new subscription task.
LEMMA SubscribeSteps ==
  ASSUME LiveShape, NEW c \in Conns, NEW i \in LiveIds, SubscribeLive(c, i)
  PROVE  /\ UNCHANGED <<storeVars, removal, socket>> /\ TaskShape'
         /\ \E t \in LiveTasks : /\ task[t].at = "none" /\ task'[t].id = i /\ task'[t].at = "execute"
                                 /\ \A r \in LiveTasks \ {t} : task'[r] = task[r]
<1>1. UNCHANGED storeVars /\ UNCHANGED removal /\ UNCHANGED socket
  BY DEF SubscribeLive, Takes
<1> DEFINE new == [conn |-> c, id |-> i, at |-> "execute", to |-> NoConn]
<1>2. PICK t \in LiveTasks : task[t].at = "none" /\ task' = [task EXCEPT ![t] = new]
  BY DEF SubscribeLive
<1>3. new \in TaskRecord /\ new.id = i /\ new.conn = c /\ new.at = "execute"
  BY DEF TaskRecord, TaskSteps, Unregistered
<1> HIDE DEF new
<1>4. task \in [LiveTasks -> TaskRecord]
  BY DEF LiveShape, TaskShape
<1>5. task' \in [LiveTasks -> TaskRecord] /\ task'[t] = new /\ \A r \in LiveTasks \ {t} : task'[r] = task[r]
  BY <1>2, <1>3, <1>4
<1>6. TaskShape'
  BY <1>3, <1>5 DEF LiveShape, TaskShape
<1> QED
  BY <1>1, <1>2, <1>3, <1>5, <1>6

\* The store's maps keep their shape.
LEMMA StepKeepsStoreShape ==
  ASSUME LiveShape, StoreFollowsTasks, [LiveNext]_liveVars PROVE StoreShape'
<1>1. StoreShape
  BY DEF LiveShape
<1>2. CASE UNCHANGED storeVars
  BY <1>1, <1>2 DEF StoreShape, storeVars
<1>3. ASSUME NEW p \in Actors, Unregister(p) PROVE StoreShape'
  <2>1. removal[p].id \in LiveIds
    BY <1>3, UnregisterSteps
  <2>2. /\ queries' \in [LiveIds -> LiveTasks \cup {0}] /\ triggerIndex' \subseteq LiveIds
    BY <1>1, <1>3, <2>1 DEF StoreShape, Unregister, RemoveQuery, RemoveTrigger, RemoveFromConnection, RemoveSender
  <2>3. connectionIndex' \in [Conns -> SUBSET LiveIds]
    BY <1>1, <1>3, <2>1 DEF StoreShape, Unregister, RemoveQuery, RemoveTrigger, RemoveFromConnection, RemoveSender
  <2>4. updateSenders' \in [LiveIds -> Conns \cup {NoConn}]
    BY <1>1, <1>3, <2>1 DEF StoreShape, Unregister, RemoveQuery, RemoveTrigger, RemoveFromConnection, RemoveSender
  <2> QED
    BY <2>2, <2>3, <2>4 DEF StoreShape
<1>4. ASSUME NEW t \in LiveTasks, InsertInto(t) PROVE StoreShape'
  <2>1. task[t].at # "none"
    BY <1>4 DEF InsertInto, Insert, Stands
  <2>2. task[t].id \in LiveIds /\ task[t].conn \in Conns
    BY <2>1 DEF LiveShape, TaskShape
  <2>3. /\ queries' \in [LiveIds -> LiveTasks \cup {0}] /\ triggerIndex' \subseteq LiveIds
    BY <1>1, <1>4, <2>2 DEF StoreShape, InsertInto, Insert
  <2>4. connectionIndex' \in [Conns -> SUBSET LiveIds]
    BY <1>1, <1>4, <2>2 DEF StoreShape, InsertInto, Insert
  <2>5. updateSenders' \in [LiveIds -> Conns \cup {NoConn}]
    BY <1>1, <1>4, <2>2 DEF StoreShape, InsertInto, Insert
  <2> QED
    BY <2>3, <2>4, <2>5 DEF StoreShape
<1>5. ASSUME NEW t \in LiveTasks, LiveTask(t) PROVE UNCHANGED storeVars \/ InsertInto(t)
  BY <1>5, LiveTaskSteps
<1>6. ASSUME NEW c \in Conns PROVE
        /\ (\/ AnsweredMessage(c) \/ LeaveLive(c) \/ ForwardMessage(c) \/ SendAnswer(c) \/ CloseLive(c)
            \/ RelayUpdate(c) \/ RelayEnds(c) \/ \E i \in LiveIds : CompleteLive(c, i)) => UNCHANGED storeVars
        /\ \A i \in LiveIds : SubscribeLive(c, i) => UNCHANGED storeVars
  BY LoopSteps, SubscribeSteps
<1>7. (Invalidate => UNCHANGED storeVars) /\ (UNCHANGED liveVars => UNCHANGED storeVars)
  BY DEF Invalidate, liveVars
<1> QED
  BY <1>2, <1>3, <1>4, <1>5, <1>6, <1>7 DEF LiveNext, LiveWork

\* A step that leaves the store alone, and the tasks and removals as far as they are.
QuietStep ==
    /\ UNCHANGED storeVars
    /\ \A t \in LiveTasks : /\ task'[t].id = task[t].id /\ task'[t].conn = task[t].conn
                            /\ (task'[t].at = "none") = (task[t].at = "none")
                            /\ KeepsProgress(t)
    /\ \A p \in Actors : removal'[p].at \in Unregistering => removal'[p] = removal[p]

LEMMA StepIsQuiet ==
  ASSUME LiveShape, StoreFollowsTasks, [LiveNext]_liveVars
  PROVE  /\ TaskShape' /\ RemovalShape' /\ LoopShape'
         /\ \/ QuietStep
            \/ \E p \in Actors : Unregister(p)
            \/ \E t \in LiveTasks : LiveTask(t) /\ InsertInto(t)
            \/ \E c \in Conns, i \in LiveIds : SubscribeLive(c, i)
<1>1. TaskShape /\ RemovalShape /\ LoopShape
  BY DEF LiveShape
<1>2. ASSUME UNCHANGED <<storeVars, task>>,
             \A p \in Actors : removal'[p].at \in Unregistering => removal'[p] = removal[p]
      PROVE  TaskShape' /\ QuietStep
  BY <1>1, <1>2 DEF TaskShape, QuietStep, KeepsProgress
<1>3. CASE Invalidate \/ UNCHANGED liveVars
  <2>1. UNCHANGED storeVars /\ UNCHANGED task /\ UNCHANGED removal /\ UNCHANGED socket
    BY <1>3 DEF Invalidate, liveVars
  <2> QED
    BY <1>1, <1>2, <2>1 DEF RemovalShape, LoopShape
<1>4. ASSUME NEW c \in Conns,
             \/ AnsweredMessage(c) \/ LeaveLive(c) \/ ForwardMessage(c) \/ SendAnswer(c) \/ CloseLive(c)
             \/ RelayUpdate(c) \/ RelayEnds(c) \/ \E i \in LiveIds : CompleteLive(c, i)
      PROVE  TaskShape' /\ RemovalShape' /\ LoopShape' /\ QuietStep
  BY <1>2, <1>4, LoopSteps
<1>5. ASSUME NEW c \in Conns, NEW i \in LiveIds, SubscribeLive(c, i)
      PROVE  TaskShape' /\ RemovalShape' /\ LoopShape'
  BY <1>1, <1>5, SubscribeSteps DEF RemovalShape, LoopShape
<1>6. ASSUME NEW p \in Actors, Unregister(p) PROVE TaskShape' /\ RemovalShape' /\ LoopShape'
  <2>1. UNCHANGED task /\ UNCHANGED socket
    BY <1>6 DEF Unregister
  <2> QED
    BY <1>1, <1>6, <2>1, UnregisterSteps DEF TaskShape, LoopShape
<1>7. ASSUME NEW t \in LiveTasks, LiveTask(t)
      PROVE  TaskShape' /\ RemovalShape' /\ LoopShape' /\ (QuietStep \/ InsertInto(t))
  <2>1. UNCHANGED socket
    BY <1>7 DEF LiveTask
  <2>2. TaskShape' /\ RemovalShape'
    BY <1>7, LiveTaskSteps
  <2>3. ASSUME ~InsertInto(t) PROVE QuietStep
    <3>1. /\ UNCHANGED storeVars /\ KeepsProgress(t) /\ \A r \in LiveTasks \ {t} : task'[r] = task[r]
          /\ task'[t].id = task[t].id /\ task'[t].conn = task[t].conn
          /\ task[t].at # "none" /\ task'[t].at # "none"
          /\ \A p \in Actors : removal'[p].at \in Unregistering => removal'[p] = removal[p]
      BY <1>7, <2>3, LiveTaskSteps
    <3>2. \A r \in LiveTasks : /\ task'[r].id = task[r].id /\ task'[r].conn = task[r].conn
                               /\ (task'[r].at = "none") = (task[r].at = "none")
                               /\ KeepsProgress(r)
      BY <3>1 DEF KeepsProgress
    <3> QED
      BY <3>1, <3>2 DEF QuietStep
  <2> QED
    BY <1>1, <2>1, <2>2, <2>3 DEF LoopShape
<1> QED
  BY <1>3, <1>4, <1>5, <1>6, <1>7 DEF LiveNext, LiveWork

LEMMA StepKeepsFollowing ==
  ASSUME LiveShape, StoreFollowsTasks, [LiveNext]_liveVars PROVE StoreFollowsTasks'
<1>1. "none" \notin LiveIds
  BY LiveConstants
<1>2. CASE QuietStep
  <2>1. UNCHANGED queries /\ \A t \in LiveTasks : task'[t].id = task[t].id
    BY <1>2 DEF QuietStep, storeVars
  <2>2. \A p \in Actors : removal'[p].at \in Unregistering => removal'[p] = removal[p]
    BY <1>2 DEF QuietStep
  <2>3. \A i \in LiveIds : queries[i] \in LiveTasks \cup {0}
    BY DEF LiveShape, StoreShape
  <2> QED
    BY <2>1, <2>2, <2>3 DEF StoreFollowsTasks
<1>3. ASSUME NEW p \in Actors, Unregister(p) PROVE StoreFollowsTasks'
  <2>1. /\ \A q \in Actors \ {p} : removal'[q] = removal[q]
        /\ removal[p].id \in LiveIds
        /\ removal'[p].at \in Unregistering =>
             /\ removal'[p].id = removal[p].id
             /\ removal[p].at \in Unregistering \/ queries[removal[p].id] # 0
    BY <1>3, UnregisterSteps
  <2>2. UNCHANGED task /\ \A i \in LiveIds : queries'[i] \in {0, queries[i]}
    BY <1>3, <2>1 DEF Unregister, RemoveQuery, RemoveTrigger, RemoveFromConnection, RemoveSender, LiveShape, StoreShape
  <2>3. \A i \in LiveIds : queries'[i] # 0 => task'[queries'[i]].id = i
    BY <2>2 DEF StoreFollowsTasks
  <2>4. \A i \in LiveIds : queries[i] # 0 => queries[i] \in LiveTasks /\ task[queries[i]].id = i
    BY DEF StoreFollowsTasks, LiveShape, StoreShape
  <2>5. \A q \in Actors : removal'[q].at \in Unregistering => \E t \in LiveTasks : task'[t].id = removal'[q].id
    BY <2>1, <2>2, <2>4 DEF StoreFollowsTasks
  <2> QED
    BY <2>3, <2>5 DEF StoreFollowsTasks
<1>4. ASSUME NEW t \in LiveTasks, LiveTask(t), InsertInto(t) PROVE StoreFollowsTasks'
  <2>1. /\ \A r \in LiveTasks : task'[r].id = task[r].id
        /\ task[t].id \in LiveIds /\ UNCHANGED removal
    BY <1>4, LiveTaskSteps DEF InsertInto
  <2>2. \A i \in LiveIds : queries'[i] = queries[i] \/ (i = task[t].id /\ queries'[i] = t)
    BY <1>4, <2>1 DEF InsertInto, Insert, LiveShape, StoreShape
  <2>3. \A i \in LiveIds : queries[i] \in LiveTasks \cup {0}
    BY DEF LiveShape, StoreShape
  <2> QED
    BY <2>1, <2>2, <2>3 DEF StoreFollowsTasks
<1>5. ASSUME NEW c \in Conns, NEW i \in LiveIds, SubscribeLive(c, i) PROVE StoreFollowsTasks'
  <2>1. PICK t \in LiveTasks : task[t].at = "none" /\ \A r \in LiveTasks \ {t} : task'[r] = task[r]
    BY <1>5, SubscribeSteps
  <2>2. task[t].id = "none" /\ UNCHANGED removal /\ UNCHANGED queries
    BY <1>5, <2>1, SubscribeSteps DEF LiveShape, TaskShape, storeVars
  <2>3. \A j \in LiveIds : queries[j] \in LiveTasks \cup {0}
    BY DEF LiveShape, StoreShape
  <2>4. \A j \in LiveIds : queries[j] # 0 => queries[j] \in LiveTasks \ {t} /\ task[queries[j]].id = j
    BY <1>1, <2>2, <2>3 DEF StoreFollowsTasks
  <2>5. \A p \in Actors : removal[p].at \in Unregistering => \E r \in LiveTasks \ {t} : task[r].id = removal[p].id
    <3>1. \A p \in Actors : removal[p].at \in Unregistering => removal[p].id \in LiveIds
      BY DEF LiveShape, RemovalShape, Unregistering
    <3> QED
      BY <1>1, <2>2, <3>1 DEF StoreFollowsTasks
  <2>6. \A j \in LiveIds : queries'[j] # 0 => task'[queries'[j]].id = j
    BY <2>1, <2>2, <2>4
  <2>7. \A p \in Actors : removal'[p].at \in Unregistering => \E r \in LiveTasks : task'[r].id = removal'[p].id
    BY <2>1, <2>2, <2>5
  <2> QED
    BY <2>6, <2>7 DEF StoreFollowsTasks
<1> QED
  BY <1>2, <1>3, <1>4, <1>5, StepIsQuiet

\* A removal under way spares the owner: its id is another one.
LEMMA RemovalSparesOwner ==
  ASSUME LiveShape, StoreFollowsTasks, OwnerIsReachable, NEW p \in Actors, Unregister(p)
  PROVE  OwnerIsReachable'
<1>1. /\ \A q \in Actors \ {p} : removal'[q] = removal[q]
      /\ removal[p].id \in LiveIds
      /\ removal'[p].at \in Unregistering =>
           /\ removal'[p].id = removal[p].id
           /\ \/ removal[p].at \in Unregistering
              \/ RemoveQuery(p) /\ queries[removal[p].id] # 0
  BY UnregisterSteps
<1>2. UNCHANGED task
  BY DEF Unregister
<1> SUFFICES ASSUME NEW t \in LiveTasks, OwnsId(t)'
             PROVE  /\ task[t].at \in Unregistered => queries'[task[t].id] # t /\ Untouched(task[t].id)'
                    /\ (queries'[task[t].id] = t) =>
                         /\ Untouched(task[t].id)'
                         /\ (task[t].at \in InTriggers) => task[t].id \in triggerIndex'
                         /\ (task[t].at \in InConnection) => task[t].id \in connectionIndex'[task[t].conn]
                         /\ (task[t].at \in Registered) => updateSenders'[task[t].id] = task[t].conn
  BY <1>2 DEF OwnerIsReachable
<1>3. OwnsId(t) /\ task[t].id \in LiveIds /\ task[t].conn \in Conns
  BY <1>2 DEF OwnsId, LiveShape, TaskShape
<1> DEFINE i == task[t].id
           j == removal[p].id
           c == task[t].conn
<1>4. /\ task[t].at \in Unregistered => queries[i] # t /\ Untouched(i)
      /\ (queries[i] = t) =>
           /\ Untouched(i)
           /\ (task[t].at \in InTriggers) => i \in triggerIndex
           /\ (task[t].at \in InConnection) => i \in connectionIndex[c]
           /\ (task[t].at \in Registered) => updateSenders[i] = c
  BY <1>3 DEF OwnerIsReachable
<1>5. 0 \notin LiveTasks
  BY LiveConstants DEF LiveTasks
<1>6. queries \in [LiveIds -> LiveTasks \cup {0}] /\ connectionIndex \in [Conns -> SUBSET LiveIds]
      /\ updateSenders \in [LiveIds -> Conns \cup {NoConn}]
  BY DEF LiveShape, StoreShape
<1>7. queries[i] # 0 => queries[i] = t
  BY <1>3, <1>6 DEF StoreFollowsTasks, OwnsId
<1>8. queries'[i] = t => queries[i] = t
  BY <1>1, <1>3, <1>5, <1>6 DEF Unregister, RemoveQuery, RemoveTrigger, RemoveFromConnection, RemoveSender
<1>9. task[t].at \in Unregistered \/ queries'[i] = t => Untouched(i)'
  <2> SUFFICES ASSUME task[t].at \in Unregistered \/ queries'[i] = t,
                      NEW q \in Actors, removal'[q].at \in Unregistering
               PROVE  removal'[q].id # i
    BY <1>2 DEF Untouched
  <2>1. Untouched(i)
    BY <1>4, <1>8
  <2>2. CASE q # p
    BY <1>1, <2>1, <2>2 DEF Untouched
  <2>3. CASE q = p /\ removal[p].at \in Unregistering
    BY <1>1, <2>1, <2>3 DEF Untouched
  <2>4. CASE q = p /\ RemoveQuery(p) /\ queries[j] # 0
    <3>1. j # i
      <4>1. CASE task[t].at \in Unregistered
        BY <1>4, <1>7, <2>4, <4>1
      <4>2. CASE queries'[i] = t
        <5>1. queries'[j] = 0
          BY <1>1, <1>6, <2>4 DEF RemoveQuery
        <5> QED
          BY <1>5, <4>2, <5>1
      <4> QED
        BY <4>1, <4>2
    <3> QED
      BY <1>1, <2>4, <3>1
  <2> QED
    BY <1>1, <2>2, <2>3, <2>4
<1>10. task[t].at \in Unregistered => queries'[i] # t
  BY <1>4, <1>8
<1>11. ASSUME queries'[i] = t
       PROVE  /\ (task[t].at \in InTriggers) => i \in triggerIndex'
              /\ (task[t].at \in InConnection) => i \in connectionIndex'[c]
              /\ (task[t].at \in Registered) => updateSenders'[i] = c
  <2>1. queries[i] = t /\ Untouched(i)
    BY <1>4, <1>8, <1>11
  <2>2. removal[p].at \in Unregistering => j # i
    BY <2>1 DEF Untouched
  <2>3. CASE RemoveQuery(p)
    BY <1>4, <2>1, <2>3 DEF RemoveQuery
  <2>4. CASE RemoveTrigger(p) \/ RemoveFromConnection(p) \/ RemoveSender(p)
    <3>1. j # i
      BY <2>2, <2>4 DEF RemoveTrigger, RemoveFromConnection, RemoveSender, Unregistering
    <3>2. /\ i \in triggerIndex => i \in triggerIndex'
          /\ i \in connectionIndex[c] => i \in connectionIndex'[c]
          /\ updateSenders'[i] = updateSenders[i]
      BY <1>3, <1>6, <2>4, <3>1 DEF RemoveTrigger, RemoveFromConnection, RemoveSender
    <3> QED
      BY <1>4, <2>1, <3>2
  <2> QED
    BY <2>3, <2>4 DEF Unregister
<1> QED
  BY <1>9, <1>10, <1>11

\* Registering: the owner's maps fill, those of another owner stay.
LEMMA InsertServesOwner ==
  ASSUME LiveShape, StoreFollowsTasks, OwnerIsReachable, NEW u \in LiveTasks, LiveTask(u), InsertInto(u)
  PROVE  OwnerIsReachable'
<1>1. /\ \A r \in LiveTasks \ {u} : task'[r] = task[r]
      /\ task'[u].id = task[u].id /\ task'[u].conn = task[u].conn
      /\ task[u].at # "none" /\ task'[u].at # "none"
      /\ task[u].id \in LiveIds /\ task[u].conn \in Conns
  BY LiveTaskSteps
<1>2. UNCHANGED removal
  BY DEF InsertInto
<1>3. queries \in [LiveIds -> LiveTasks \cup {0}] /\ connectionIndex \in [Conns -> SUBSET LiveIds]
      /\ updateSenders \in [LiveIds -> Conns \cup {NoConn}] /\ task \in [LiveTasks -> TaskRecord]
  BY DEF LiveShape, StoreShape, TaskShape
<1> SUFFICES ASSUME NEW t \in LiveTasks, OwnsId(t)'
             PROVE  /\ task'[t].at \in Unregistered => queries'[task[t].id] # t /\ Untouched(task[t].id)'
                    /\ (queries'[task[t].id] = t) =>
                         /\ Untouched(task[t].id)'
                         /\ (task'[t].at \in InTriggers) => task[t].id \in triggerIndex'
                         /\ (task'[t].at \in InConnection) => task[t].id \in connectionIndex'[task[t].conn]
                         /\ (task'[t].at \in Registered) => updateSenders'[task[t].id] = task[t].conn
  <2>1. \A t \in LiveTasks : task'[t].id = task[t].id /\ task'[t].conn = task[t].conn
    BY <1>1
  <2> QED
    BY <2>1 DEF OwnerIsReachable
<1>4. OwnsId(t) /\ task[t].id \in LiveIds /\ task[t].conn \in Conns
  BY <1>1 DEF OwnsId, LiveShape, TaskShape
<1> DEFINE i == task[t].id
           c == task[t].conn
<1>5. /\ task[t].at \in Unregistered => queries[i] # t /\ Untouched(i)
      /\ (queries[i] = t) =>
           /\ Untouched(i)
           /\ (task[t].at \in InTriggers) => i \in triggerIndex
           /\ (task[t].at \in InConnection) => i \in connectionIndex[c]
           /\ (task[t].at \in Registered) => updateSenders[i] = c
  BY <1>4 DEF OwnerIsReachable
<1>6. Untouched(i)' = Untouched(i)
  BY <1>1, <1>2 DEF Untouched
<1>7. CASE t # u
  <2>1. task[u].id # i /\ task'[t] = task[t]
    BY <1>1, <1>4, <1>7 DEF OwnsId
  <2>2. /\ queries'[i] = queries[i]
        /\ i \in triggerIndex => i \in triggerIndex'
        /\ i \in connectionIndex[c] => i \in connectionIndex'[c]
        /\ updateSenders'[i] = updateSenders[i]
    BY <1>1, <1>3, <1>4, <2>1 DEF InsertInto, Insert
  <2> QED
    BY <1>5, <1>6, <2>1, <2>2
<1>8. CASE t = u
  <2>1. /\ InConnection \subseteq InTriggers /\ Registered \subseteq InConnection
        /\ {"insert.trigger", "insert.connection", "insert.sender", "initial"} \cap Unregistered = {}
        /\ "insert" \in Unregistered /\ "insert.trigger" \notin InTriggers
        /\ "insert.connection" \in InTriggers \ InConnection
        /\ "insert.sender" \in InConnection \ Registered
    BY DEF InConnection, InTriggers, Unregistered, Registered
  <2>2. CASE Stands(t, "insert") /\ Moved(t, "insert.trigger") /\ UNCHANGED <<triggerIndex, connectionIndex, updateSenders>>
    <3>1. task[t].at = "insert" /\ task'[t].at = "insert.trigger"
      BY <1>3, <2>2 DEF Stands, Moved, TaskRecord
    <3> QED
      BY <1>5, <1>6, <2>1, <3>1
  <2>3. CASE /\ Stands(t, "insert.trigger") /\ Moved(t, "insert.connection")
             /\ triggerIndex' = triggerIndex \cup {i} /\ UNCHANGED queries
    <3>1. task'[t].at = "insert.connection" /\ i \in triggerIndex'
      BY <1>3, <2>3 DEF Moved, TaskRecord
    <3>2. queries'[i] = queries[i]
      BY <2>3
    <3> QED
      BY <1>5, <1>6, <2>1, <3>1, <3>2
  <2>4. CASE /\ Stands(t, "insert.connection") /\ Moved(t, "insert.sender")
             /\ connectionIndex' = [connectionIndex EXCEPT ![c] = @ \cup {i}] /\ UNCHANGED <<queries, triggerIndex>>
    <3>1. /\ task[t].at = "insert.connection" /\ task'[t].at = "insert.sender" /\ i \in connectionIndex'[c]
          /\ queries'[i] = queries[i] /\ triggerIndex' = triggerIndex
      BY <1>3, <1>4, <2>4 DEF Moved, Stands, TaskRecord
    <3> QED
      BY <1>5, <1>6, <2>1, <3>1
  <2>5. CASE /\ Stands(t, "insert.sender") /\ Moved(t, "initial")
             /\ updateSenders' = [updateSenders EXCEPT ![i] = c]
             /\ UNCHANGED <<queries, triggerIndex, connectionIndex>>
    <3>1. /\ task[t].at = "insert.sender" /\ task'[t].at = "initial" /\ updateSenders'[i] = c
          /\ queries'[i] = queries[i] /\ triggerIndex' = triggerIndex /\ connectionIndex' = connectionIndex
      BY <1>3, <1>4, <2>5 DEF Moved, Stands, TaskRecord
    <3> QED
      BY <1>5, <1>6, <2>1, <3>1
  <2> QED
    BY <1>8, <2>2, <2>3, <2>4, <2>5 DEF InsertInto, Insert
<1> QED
  BY <1>7, <1>8

\* The first task of an id finds nothing of it in the store.
LEMMA NewTaskStartsClean ==
  ASSUME LiveShape, StoreFollowsTasks, OwnerIsReachable, NEW d \in Conns, NEW j \in LiveIds, SubscribeLive(d, j)
  PROVE  OwnerIsReachable'
<1>1. UNCHANGED storeVars /\ UNCHANGED removal
  BY SubscribeSteps
<1>2. PICK u \in LiveTasks : /\ task[u].at = "none" /\ task'[u].id = j /\ task'[u].at = "execute"
                             /\ \A r \in LiveTasks \ {u} : task'[r] = task[r]
  BY SubscribeSteps
<1>3. task[u].id = "none" /\ "none" \notin LiveIds
  BY <1>2, LiveConstants DEF LiveShape, TaskShape
<1>4. UNCHANGED <<queries, triggerIndex, connectionIndex, updateSenders>>
  BY <1>1 DEF storeVars
<1>5. \A i : Untouched(i)' = Untouched(i)
  BY <1>1 DEF Untouched
<1>6. queries[j] \in LiveTasks \cup {0}
  BY DEF LiveShape, StoreShape
<1> SUFFICES ASSUME NEW t \in LiveTasks, OwnsId(t)'
             PROVE  LET i == task'[t].id IN
                    /\ task'[t].at \in Unregistered => queries[i] # t /\ Untouched(i)
                    /\ (queries[i] = t) =>
                         /\ Untouched(i)
                         /\ (task'[t].at \in InTriggers) => i \in triggerIndex
                         /\ (task'[t].at \in InConnection) => i \in connectionIndex[task'[t].conn]
                         /\ (task'[t].at \in Registered) => updateSenders[i] = task'[t].conn
  <2>1. \A t \in LiveTasks : Untouched(task[t].id)' = Untouched(task'[t].id)
    BY <1>1 DEF Untouched
  <2> QED
    BY <1>4, <2>1 DEF OwnerIsReachable
<1>7. CASE t = u
  <2>1. task'[t].id = j /\ task'[t].at = "execute" /\ \A r \in LiveTasks \ {t} : task[r].id # j
    BY <1>2, <1>7 DEF OwnsId
  <2>2. \A r \in LiveTasks : task[r].id # j
    BY <1>3, <1>7, <2>1
  <2>3. queries[j] # t
    <3>1. t # 0
      BY LiveConstants DEF LiveTasks
    <3> QED
      BY <2>2, <3>1 DEF StoreFollowsTasks
  <2>4. Untouched(j)
    BY <2>2 DEF Untouched, StoreFollowsTasks
  <2> QED
    BY <2>1, <2>3, <2>4
<1>8. CASE t # u
  <2>1. task'[t] = task[t] /\ task[t].at # "none"
    BY <1>2, <1>8 DEF OwnsId
  <2>2. task[t].id \in LiveIds
    BY <2>1 DEF LiveShape, TaskShape
  <2>3. OwnsId(t)
    BY <1>2, <1>3, <1>8, <2>1, <2>2 DEF OwnsId
  <2> QED
    BY <2>1, <2>3 DEF OwnerIsReachable
<1> QED
  BY <1>7, <1>8

LEMMA StepKeepsLiveInv ==
  ASSUME LiveInv, [LiveNext]_liveVars PROVE LiveInv'
<1>1. LiveShape /\ ChannelShape /\ StoreFollowsTasks /\ OwnerIsReachable
  BY DEF LiveInv
<1>2. LiveShape'
  BY <1>1, StepKeepsStoreShape, StepIsQuiet DEF LiveShape
<1>3. ChannelShape' /\ StoreFollowsTasks'
  BY <1>1, StepKeepsChannelShape, StepKeepsFollowing
<1>4. CASE QuietStep
  <2>1. /\ UNCHANGED <<queries, triggerIndex, connectionIndex, updateSenders>>
        /\ \A t \in LiveTasks : /\ task'[t].id = task[t].id /\ task'[t].conn = task[t].conn
                                /\ (task'[t].at = "none") = (task[t].at = "none")
                                /\ KeepsProgress(t)
    BY <1>4 DEF QuietStep, storeVars
  <2>2. \A p \in Actors : removal'[p].at \in Unregistering => removal'[p] = removal[p]
    BY <1>4 DEF QuietStep
  <2>3. \A t \in LiveTasks : OwnsId(t)' => OwnsId(t)
    BY <2>1 DEF OwnsId
  <2>4. \A t \in LiveTasks : Untouched(task[t].id) => Untouched(task[t].id)'
    BY <2>1, <2>2 DEF Untouched
  <2>5. OwnerIsReachable'
    BY <1>1, <2>1, <2>3, <2>4 DEF OwnerIsReachable, KeepsProgress
  <2> QED
    BY <1>2, <1>3, <2>5 DEF LiveInv
<1>5. CASE \E p \in Actors : Unregister(p)
  BY <1>1, <1>2, <1>3, <1>5, RemovalSparesOwner DEF LiveInv
<1>6. CASE \E t \in LiveTasks : LiveTask(t) /\ InsertInto(t)
  BY <1>1, <1>2, <1>3, <1>6, InsertServesOwner DEF LiveInv
<1>7. CASE \E c \in Conns, i \in LiveIds : SubscribeLive(c, i)
  BY <1>1, <1>2, <1>3, <1>7, NewTaskStartsClean DEF LiveInv
<1> QED
  BY <1>1, <1>4, <1>5, <1>6, <1>7, StepIsQuiet

\* The invariant the theorems on the live queries follow from.
THEOREM LiveInvAlways == LiveSpec => []LiveInv
BY LiveInvHoldsFirst, StepKeepsLiveInv, PTL DEF LiveSpec

\* The four maps and the channels of the live queries keep their types.
THEOREM LiveIsTyped == LiveSpec => []LiveTypeOK
<1>1. LiveInv => LiveTypeOK
  BY DEF LiveInv, LiveShape, StoreShape, ChannelShape, LiveTypeOK
<1> QED
  BY <1>1, LiveInvAlways, PTL

\* However registrations and removals interleave lock by lock, a registered query whose id no
\* other subscription uses is in all four maps: RegisteredIsReachable.
THEOREM RegisteredQueriesAreReachable == LiveSpec => []RegisteredIsReachable
<1>1. LiveInv => RegisteredIsReachable
  <2> SUFFICES ASSUME LiveInv, NEW t \in LiveTasks, task[t].at \in Registered,
                      \A r \in LiveTasks \ {t} : task[r].id # task[t].id, queries[task[t].id] = t
               PROVE  /\ task[t].id \in triggerIndex /\ task[t].id \in connectionIndex[task[t].conn]
                      /\ updateSenders[task[t].id] = task[t].conn
    BY DEF RegisteredIsReachable, Registered
  <2>1. task[t].at \in InConnection /\ task[t].at \in InTriggers /\ OwnsId(t)
    BY DEF InConnection, InTriggers, Registered, OwnsId
  <2>2. OwnerIsReachable
    BY DEF LiveInv
  <2> QED
    BY <2>1, <2>2 DEF OwnerIsReachable
<1> QED
  BY <1>1, LiveInvAlways, PTL

-----------------------------------------------------------------------------
\* Once nobody is left who could send an update to a connection, nobody comes: a task that could
\* put its sender into the store, or take it from there, would have been counted.
LEMMA NoSenderComes ==
  ASSUME LiveShape, [LiveNext]_liveVars, NEW c \in Conns, UpdateSenderLeft(c)'
  PROVE  UpdateSenderLeft(c)
<1>0. NoConn \notin Conns
  BY LiveConstants
<1>1. CASE /\ socket'[c].at # "closed" => socket[c].at # "closed"
           /\ UNCHANGED updateSenders
           /\ \A t \in LiveTasks : task'[t] = task[t]
  BY <1>1 DEF UpdateSenderLeft
<1>2. CASE Invalidate \/ UNCHANGED liveVars
  BY <1>1, <1>2 DEF Invalidate, liveVars, storeVars
<1>3. ASSUME NEW d \in Conns,
             \/ AnsweredMessage(d) \/ LeaveLive(d) \/ ForwardMessage(d) \/ SendAnswer(d) \/ CloseLive(d)
             \/ RelayUpdate(d) \/ RelayEnds(d) \/ \E i \in LiveIds : CompleteLive(d, i)
      PROVE  UpdateSenderLeft(c)
  <2>1. UNCHANGED updateSenders /\ UNCHANGED task
    BY <1>3, LoopSteps DEF storeVars
  <2>2. socket \in [Conns -> [at : {"receive", "answer", "closing", "closed"}, left : SUBSET LiveIds]]
    BY DEF LiveShape, LoopShape
  <2>3. socket[c].at = "closed" => socket'[c] = socket[c]
    BY <1>3, <2>2 DEF AnsweredMessage, LeaveLive, ForwardMessage, SendAnswer, CloseLive, RelayUpdate,
                      RelayEnds, CompleteLive, Takes
  <2> QED
    BY <1>1, <2>1, <2>3
<1>4. ASSUME NEW d \in Conns, NEW i \in LiveIds, SubscribeLive(d, i) PROVE UpdateSenderLeft(c)
  <2>1. UNCHANGED updateSenders /\ UNCHANGED socket /\ socket[d].at = "receive"
    BY <1>4 DEF SubscribeLive, Takes, storeVars
  <2>2. PICK t \in LiveTasks :
           task' = [task EXCEPT ![t] = [conn |-> d, id |-> i, at |-> "execute", to |-> NoConn]]
    BY <1>4 DEF SubscribeLive
  <2>3. CASE c = d
    BY <2>1, <2>3 DEF UpdateSenderLeft
  <2>4. CASE c # d
    <3>1. task'[t].conn = d /\ task'[t].to = NoConn /\ \A r \in LiveTasks \ {t} : task'[r] = task[r]
      BY <2>2 DEF LiveShape, TaskShape
    <3> QED
      BY <1>0, <2>1, <2>4, <3>1 DEF UpdateSenderLeft
  <2> QED
    BY <2>3, <2>4
<1>5. ASSUME NEW p \in Actors, Unregister(p) PROVE UpdateSenderLeft(c)
  <2>1. UNCHANGED socket /\ UNCHANGED task
    BY <1>5 DEF Unregister
  <2>2. \A i \in LiveIds : updateSenders'[i] \in {NoConn, updateSenders[i]}
    BY <1>5 DEF Unregister, RemoveQuery, RemoveTrigger, RemoveFromConnection, RemoveSender, LiveShape,
                StoreShape
  <2> QED
    BY <1>0, <2>1, <2>2 DEF UpdateSenderLeft
<1>6. ASSUME NEW t \in LiveTasks, LiveTask(t) PROVE UpdateSenderLeft(c)
  <2>1. /\ \A r \in LiveTasks \ {t} : task'[r] = task[r]
        /\ task'[t].conn = task[t].conn /\ task[t].id \in LiveIds
    BY <1>6, LiveTaskSteps
  <2>2. task[t].at # "done" /\ UNCHANGED socket
    BY <1>6 DEF LiveTask, ExecuteInitial, CheckTotal, CheckConnection, InsertInto, Insert, SendInitial,
                ReceiveEvent, GetQuery, ReexecuteQuery, FindSender, SendUpdate, Stands
  <2>3. \A i \in LiveIds : updateSenders'[i] \in {updateSenders[i], task[t].conn}
    <3>1. CASE InsertInto(t)
      BY <3>1, <2>1 DEF InsertInto, Insert, LiveShape, StoreShape
    <3>2. CASE UNCHANGED storeVars
      BY <3>2 DEF storeVars
    <3> QED
      BY <1>6, <3>1, <3>2, LiveTaskSteps
  <2>4. task'[t].to \in {task[t].to, NoConn, updateSenders[task[t].id]}
    BY <1>6 DEF LiveTask, ExecuteInitial, CheckTotal, CheckConnection, InsertInto, Insert, SendInitial,
                ReceiveEvent, GetQuery, ReexecuteQuery, FindSender, SendUpdate, Moved, LiveShape,
                TaskShape, TaskRecord
  <2> QED
    BY <1>0, <2>1, <2>2, <2>3, <2>4 DEF UpdateSenderLeft
<1> QED
  BY <1>2, <1>3, <1>4, <1>5, <1>6 DEF LiveNext, LiveWork

\* A relay ends when the forward task has ended, or for want of senders.
RelayServes == \A c \in Conns : c \in relaying \/ c \notin forwarder \/ ~UpdateSenderLeft(c)

LEMMA StepKeepsRelayServing ==
  ASSUME LiveShape, RelayServes, [LiveNext]_liveVars PROVE RelayServes'
<1>1. ASSUME forwarder' \subseteq forwarder,
             \A c \in Conns : c \in relaying /\ c \notin relaying' => c \notin forwarder \/ ~UpdateSenderLeft(c)
      PROVE  RelayServes'
  BY <1>1, NoSenderComes DEF RelayServes
<1>2. CASE UNCHANGED relaying /\ forwarder' \subseteq forwarder
  BY <1>1, <1>2
<1>3. ASSUME NEW c \in Conns, RelayUpdate(c) \/ RelayEnds(c) PROVE RelayServes'
  <2>1. /\ UNCHANGED forwarder /\ relaying' \in {relaying, relaying \ {c}}
        /\ relaying' # relaying => c \notin forwarder \/ ~UpdateSenderLeft(c)
    BY <1>3 DEF RelayUpdate, RelayEnds
  <2> QED
    BY <1>1, <2>1
<1>4. ASSUME NEW c \in Conns,
             \/ AnsweredMessage(c) \/ LeaveLive(c) \/ ForwardMessage(c) \/ SendAnswer(c) \/ CloseLive(c)
             \/ \E i \in LiveIds : SubscribeLive(c, i) \/ CompleteLive(c, i)
      PROVE  UNCHANGED relaying /\ forwarder' \subseteq forwarder
  BY <1>4 DEF AnsweredMessage, LeaveLive, ForwardMessage, SendAnswer, CloseLive, SubscribeLive,
              CompleteLive, Takes, channels
<1>5. ASSUME NEW p \in Actors, Unregister(p) PROVE UNCHANGED relaying /\ UNCHANGED forwarder
  BY <1>5 DEF Unregister, channels
<1>6. ASSUME NEW t \in LiveTasks, LiveTask(t) PROVE UNCHANGED relaying /\ UNCHANGED forwarder
  BY <1>6 DEF LiveTask, ExecuteInitial, CheckTotal, CheckConnection, InsertInto, SendInitial,
              ReceiveEvent, GetQuery, ReexecuteQuery, FindSender, SendUpdate, channels
<1>7. CASE Invalidate \/ UNCHANGED liveVars
  BY <1>2, <1>7 DEF Invalidate, liveVars, channels
<1> QED
  BY <1>2, <1>3, <1>4, <1>5, <1>6, <1>7 DEF LiveNext, LiveWork

\* As long as the forward task of a connection runs, so does the relay that every live query of
\* the connection, and every task that took its sender from the store, sends to: such a send
\* fails, and ends the query, only after the socket to the client has failed.  This is the safety
\* half of SlowClientBlocksNoTask (the update relay of handle_live_socket).
THEOREM RelayOutlivesItsSenders ==
  LiveSpec => [](\A t \in LiveTasks : \A c \in Conns :
                    task[t].at # "done" /\ c \in {task[t].conn, task[t].to} /\ c \in forwarder
                      => c \in relaying)
<1>1. LiveInit => RelayServes
  BY DEF LiveInit, RelayServes
<1>2. LiveInv /\ RelayServes /\ [LiveNext]_liveVars => RelayServes'
  BY StepKeepsRelayServing DEF LiveInv
<1>3. RelayServes => \A t \in LiveTasks : \A c \in Conns :
                        task[t].at # "done" /\ c \in {task[t].conn, task[t].to} /\ c \in forwarder
                          => c \in relaying
  BY DEF RelayServes, UpdateSenderLeft
<1> QED
  BY <1>1, <1>2, <1>3, LiveInvAlways, PTL DEF LiveSpec

=============================================================================
