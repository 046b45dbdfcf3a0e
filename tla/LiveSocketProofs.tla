--------------------------- MODULE LiveSocketProofs ----------------------------
(***************************************************************************)
(* Theorems about one live-query connection (LiveSocket).                   *)
(*                                                                          *)
(* OneLateUpdate: the invalidation task works on one list of clones, which  *)
(* holds an id at most once; a completed id left the map before, so no later*)
(* list holds it, and once its update is sent nothing is left of it         *)
(* (LateOK).                                                                *)
(*                                                                          *)
(* NeverGoesBack: the initial result of an id that is used once is in the   *)
(* channel before the map knows the id, hence before every update of it     *)
(* (Fresh); what is shown, queued and about to be pushed is in order, and   *)
(* none of it newer than the data (InOrder).                                *)
(***************************************************************************)
EXTENDS LiveSocket, WellFoundedInduction, TLAPS

MainSteps == {"idle", "connection_ack", "error", "execute", "next", "register", "complete",
              "leaving", "closed"}
PusherSteps == {"recv", "execute", "send", "aborted"}

LiveShape ==
    /\ writes \in Seq(Topics)
    /\ events \in Seq(Nat) /\ \A j \in DOMAIN events : events[j] \in DOMAIN writes
    /\ taken \in 0..Len(events)
    /\ {initialized, forwarding, connected} \subseteq BOOLEAN
    /\ active \subseteq Subs
    /\ main \in [at : MainSteps, id : Subs \cup {"none"}, live : BOOLEAN, data : 0..Len(writes)]
    /\ main.at \in {"error", "execute", "next", "register", "complete"} => main.id \in Subs
    /\ pusher \in [at : PusherSteps, batch : SUBSET Subs, id : Subs \cup {"none"},
                   data : 0..Len(writes)]
    /\ pusher.at = "send" => pusher.id \in Subs
    /\ out \in Seq([type : {"connection_ack", "error", "next", "complete"},
                    id : Subs \cup {"none"}, data : 0..Len(writes)])
    /\ Len(out) <= OutCapacity
    /\ \A i \in DOMAIN out : out[i].type = "next" => out[i].id \in Subs
    /\ shown \in [Subs -> 0..Len(writes)]
    /\ late \in [Subs -> Nat]
    /\ used \subseteq Subs /\ reused \subseteq Subs /\ ended \subseteq Subs

Pushing(s) == pusher.at = "send" /\ pusher.id = s

LateOK(s) ==
    /\ late[s] <= 1
    /\ s \notin ended => late[s] = 0
    /\ s \in ended => s \notin active
    /\ s \in pusher.batch => ~Pushing(s)
    /\ s \in pusher.batch \/ Pushing(s) => late[s] = 0
    /\ main.at \in {"execute", "next", "register"} /\ main.id = s => s \notin ended

IsNext(m, s) == m.type = "next" /\ m.id = s

\* Nothing was sent for the subscription yet, and the invalidation task does not know it.
Fresh(s) ==
    /\ s \notin active /\ s \notin pusher.batch /\ ~Pushing(s)
    /\ \A i \in DOMAIN out : ~IsNext(out[i], s)
    /\ shown[s] = 0

InOrder(s) ==
    /\ shown[s] <= Latest(s)
    /\ \A i \in DOMAIN out : IsNext(out[i], s) => shown[s] <= out[i].data /\ out[i].data <= Latest(s)
    /\ \A i, j \in DOMAIN out :
         i < j /\ IsNext(out[i], s) /\ IsNext(out[j], s) => out[i].data <= out[j].data
    /\ Pushing(s) => /\ shown[s] <= pusher.data /\ pusher.data <= Latest(s)
                     /\ \A i \in DOMAIN out : IsNext(out[i], s) => out[i].data <= pusher.data
    /\ main.at = "next" /\ main.id = s => main.data <= Latest(s)
    /\ main.at \in {"execute", "next"} /\ main.id = s => Fresh(s)

Unused(s) == Fresh(s) /\ ~(main.at \in {"execute", "next", "register"} /\ main.id = s)

OrderOK(s) == (s \notin used => Unused(s)) /\ (s \notin reused => InOrder(s))

LiveInv ==
    /\ LiveShape
    /\ \A s \in Subs : LateOK(s)
    /\ \A s \in Subs : OrderOK(s)

-----------------------------------------------------------------------------
LEMMA LeastInOrder ==
  ASSUME NEW R, IsWellFoundedOn(R, Nat), \A x, y \in Nat : x < y => <<x, y>> \in R,
         NEW S \in SUBSET Nat, S # {}
  PROVE  \E m \in S : \A k \in S : m <= k
<1>0. S \subseteq Nat
  OBVIOUS
<1>1. \E m \in S : \A k \in S : ~(<<k, m>> \in R)
  BY ONLY <1>0, IsWellFoundedOn(R, Nat), S # {}, WFMin, Zenon
<1>2. PICK m \in S : \A k \in S : ~(<<k, m>> \in R)
  BY <1>1
<1>3. \A k \in S : ~(k < m)
  BY <1>0, <1>2
<1> QED
  BY <1>0, <1>3

LEMMA LeastNatural ==
  ASSUME NEW S \in SUBSET Nat, S # {}
  PROVE  \E m \in S : \A k \in S : m <= k
<1>1. \A x, y \in Nat : x < y => <<x, y>> \in OpToRel(<, Nat)
  BY Zenon DEF OpToRel
<1> QED
  BY <1>1, NatLessThanWellFounded, LeastInOrder, Zenon

LEMMA GreatestIndex ==
  ASSUME NEW n \in Nat, NEW S \in SUBSET (1..n), S # {}
  PROVE  \E m \in S : \A k \in S : k <= m
<1> DEFINE T == {x \in Nat : n - x \in S}
<1>1. T \in SUBSET Nat /\ T # {}
  <2>1. PICK k \in S : TRUE
    OBVIOUS
  <2>2. k \in 1..n
    OBVIOUS
  <2>3. n - k \in Nat /\ n - (n - k) = k
    BY <2>2
  <2>4. n - k \in T
    BY <2>3
  <2> QED
    BY <2>4
<1>2. PICK x \in T : \A y \in T : x <= y
  BY <1>1, LeastNatural
<1>3. x \in Nat /\ n - x \in S
  BY <1>2
<1>4. ASSUME NEW k \in S PROVE k <= n - x
  <2>1. k \in 1..n
    OBVIOUS
  <2>2. n - k \in Nat /\ n - (n - k) = k
    BY <2>1
  <2>3. x <= n - k
    BY <1>2, <2>2
  <2> QED
    BY <1>3, <2>1, <2>3
<1> QED
  BY <1>3, <1>4

LEMMA ChosenIndex ==
  ASSUME NEW n \in Nat, NEW S \in SUBSET (1..n), S # {}
  PROVE  LET last == CHOOSE i \in S : \A j \in S : j <= i
         IN  last \in S /\ \A j \in S : j <= last
  BY GreatestIndex

Read(w, s) == {i \in DOMAIN w : w[i] \in Watches[s]}
LastRead(w, s) ==
    IF Read(w, s) = {} THEN 0 ELSE CHOOSE i \in Read(w, s) : \A j \in Read(w, s) : j <= i

LEMMA LatestIsLastRead == \A s : Latest(s) = LastRead(writes, s)
  BY DEF Latest, LastRead, Read

LEMMA LastReadFacts ==
  ASSUME NEW w \in Seq(Topics), NEW s
  PROVE  /\ LastRead(w, s) \in 0..Len(w)
         /\ LastRead(w, s) # 0 => LastRead(w, s) \in Read(w, s)
         /\ \A j \in Read(w, s) : j <= LastRead(w, s)
<1>1. Len(w) \in Nat /\ Read(w, s) \in SUBSET (1..Len(w))
  BY DEF Read
<1>2. CASE Read(w, s) = {}
  BY <1>1, <1>2 DEF LastRead
<1>3. CASE Read(w, s) # {}
  <2>1. LastRead(w, s) \in Read(w, s) /\ \A j \in Read(w, s) : j <= LastRead(w, s)
    BY <1>1, <1>3, ChosenIndex DEF LastRead
  <2> QED
    BY <1>1, <2>1
<1> QED
  BY <1>2, <1>3

\* The data only grow.
LEMMA LastReadGrows ==
  ASSUME NEW w \in Seq(Topics), NEW t \in Topics, NEW s
  PROVE  LastRead(w, s) <= LastRead(Append(w, t), s)
<1> DEFINE v == Append(w, t)
<1>1. v \in Seq(Topics) /\ Len(w) \in Nat /\ \A i \in DOMAIN w : i \in DOMAIN v /\ v[i] = w[i]
  OBVIOUS
<1>2. Read(w, s) \subseteq Read(v, s)
  BY <1>1 DEF Read
<1> SUFFICES LastRead(w, s) <= LastRead(v, s)
  OBVIOUS
<1> HIDE DEF v
<1>3. LastRead(w, s) \in Nat /\ LastRead(v, s) \in Nat
  BY <1>1, LastReadFacts
<1>4. CASE LastRead(w, s) = 0
  BY <1>3, <1>4
<1>5. CASE LastRead(w, s) # 0
  BY <1>1, <1>2, <1>5, LastReadFacts
<1> QED
  BY <1>4, <1>5

-----------------------------------------------------------------------------
LEMMA LiveConstants ==
  /\ MaxSubscriptions \in Nat /\ Buffer \in Nat /\ OutCapacity \in Nat
  /\ OutCapacity > 0 /\ Buffer > 0
  BY LiveAssumption

LEMMA LatestType ==
  ASSUME LiveShape, NEW s
  PROVE  Latest(s) \in 0..Len(writes)
  BY LatestIsLastRead, LastReadFacts DEF LiveShape

Message == [type : {"connection_ack", "error", "next", "complete"},
            id : Subs \cup {"none"}, data : 0..Len(writes)]

LEMMA LiveHoldsFirst == Init => LiveInv
<1> SUFFICES ASSUME Init PROVE LiveInv
  OBVIOUS
<1>1. LiveShape
  <2>1. Len(writes) = 0 /\ Len(events) = 0 /\ Len(out) = 0 /\ taken = 0
    BY DEF Init
  <2>2. main = [at |-> "idle", id |-> "none", live |-> FALSE, data |-> 0]
    BY DEF Init, Idle
  <2>3. pusher = [at |-> "recv", batch |-> {}, id |-> "none", data |-> 0]
    BY DEF Init, Waiting
  <2>4. main \in [at : MainSteps, id : Subs \cup {"none"}, live : BOOLEAN, data : 0..Len(writes)]
    BY <2>1, <2>2 DEF MainSteps
  <2>5. pusher \in [at : PusherSteps, batch : SUBSET Subs, id : Subs \cup {"none"},
                    data : 0..Len(writes)]
    BY <2>1, <2>3 DEF PusherSteps
  <2>6. main.at = "idle" /\ pusher.at = "recv"
    BY <2>2, <2>3
  <2>7. Len(out) <= OutCapacity
    BY <2>1, LiveConstants
  <2>8. /\ writes \in Seq(Topics) /\ events \in Seq(Nat) /\ DOMAIN events = {}
        /\ out \in Seq(Message) /\ DOMAIN out = {}
    BY DEF Init
  <2>9. /\ shown \in [Subs -> 0..Len(writes)] /\ late \in [Subs -> Nat]
    BY <2>1 DEF Init
  <2>10. /\ {initialized, forwarding, connected} \subseteq BOOLEAN
         /\ active = {} /\ used = {} /\ reused = {} /\ ended = {}
    BY DEF Init
  <2> QED
    BY <2>1, <2>4, <2>5, <2>6, <2>7, <2>8, <2>9, <2>10 DEF LiveShape, Message
<1>2. ASSUME NEW s \in Subs PROVE LateOK(s) /\ Unused(s) /\ InOrder(s)
  <2>1. /\ main.at = "idle" /\ pusher.at = "recv" /\ pusher.batch = {} /\ DOMAIN out = {}
        /\ late[s] = 0 /\ ended = {} /\ active = {} /\ shown[s] = 0
    BY DEF Init, Idle, Waiting
  <2>2. Latest(s) \in Nat
    BY <1>1, LatestType DEF LiveShape
  <2> QED
    BY <2>1, <2>2 DEF LateOK, Unused, InOrder, Fresh, Pushing
<1> QED
  BY <1>1, <1>2 DEF LiveInv, OrderOK

\* What the shape of the state says of its parts.
LEMMA ShapeOfParts ==
  ASSUME LiveShape
  PROVE  /\ Len(writes) \in Nat /\ Len(out) \in Nat /\ Len(events) \in Nat
         /\ main.at \in MainSteps /\ main.id \in Subs \cup {"none"} /\ main.live \in BOOLEAN
         /\ main.data \in 0..Len(writes)
         /\ main = [at |-> main.at, id |-> main.id, live |-> main.live, data |-> main.data]
         /\ pusher.at \in PusherSteps /\ pusher.batch \subseteq Subs
         /\ pusher.id \in Subs \cup {"none"} /\ pusher.data \in 0..Len(writes)
         /\ out \in Seq(Message)
  BY DEF LiveShape, Message

LEMMA CommitShape == ASSUME LiveShape, Commit PROVE LiveShape'
<1>1. PICK t \in Topics : writes' = Append(writes, t)
  BY DEF Commit
<1>2. UNCHANGED <<events, taken, initialized, active, main, pusher, out, forwarding,
                  client, shown, history>>
  BY DEF Commit
<1>3. /\ writes' \in Seq(Topics) /\ Len(writes') = Len(writes) + 1 /\ Len(writes) \in Nat
      /\ DOMAIN writes \subseteq DOMAIN writes'
  BY <1>1 DEF LiveShape
<1>4. 0..Len(writes) \subseteq 0..Len(writes')
  BY <1>3
<1>5. Message \subseteq Message'
  BY <1>4 DEF Message
<1>6. out \in Seq(Message')
  BY <1>5, ShapeOfParts
<1>7. shown \in [Subs -> 0..Len(writes')]
  BY <1>4 DEF LiveShape
<1>8. main \in [at : MainSteps, id : Subs \cup {"none"}, live : BOOLEAN, data : 0..Len(writes')]
  BY <1>4 DEF LiveShape
<1>9. pusher \in [at : PusherSteps, batch : SUBSET Subs, id : Subs \cup {"none"},
                  data : 0..Len(writes')]
  BY <1>4 DEF LiveShape
<1> QED
  BY <1>2, <1>3, <1>6, <1>7, <1>8, <1>9 DEF LiveShape, Message, client, history

\* The steps that leave the data alone.
Kept == /\ writes \in Seq(Topics)
        /\ {initialized, forwarding, connected} \subseteq BOOLEAN
        /\ used \subseteq Subs /\ reused \subseteq Subs /\ ended \subseteq Subs
        /\ active \subseteq Subs
EventsShape == /\ events \in Seq(Nat) /\ \A j \in DOMAIN events : events[j] \in DOMAIN writes
               /\ taken \in 0..Len(events)
MainShape ==
    /\ main \in [at : MainSteps, id : Subs \cup {"none"}, live : BOOLEAN, data : 0..Len(writes)]
    /\ main.at \in {"error", "execute", "next", "register", "complete"} => main.id \in Subs
PusherShape ==
    /\ pusher \in [at : PusherSteps, batch : SUBSET Subs, id : Subs \cup {"none"},
                   data : 0..Len(writes)]
    /\ pusher.at = "send" => pusher.id \in Subs
OutShape ==
    /\ out \in Seq(Message) /\ Len(out) <= OutCapacity
    /\ \A i \in DOMAIN out : out[i].type = "next" => out[i].id \in Subs
ShownShape == shown \in [Subs -> 0..Len(writes)]
LateShape == late \in [Subs -> Nat]

LEMMA ShapeParts ==
  LiveShape <=> Kept /\ EventsShape /\ MainShape /\ PusherShape /\ OutShape /\ ShownShape /\ LateShape
BY DEF LiveShape, Kept, EventsShape, MainShape, PusherShape, OutShape, ShownShape, LateShape, Message

LEMMA Unchanging ==
  ASSUME UNCHANGED writes
  PROVE  /\ EventsShape /\ UNCHANGED <<events, taken>> => EventsShape'
         /\ MainShape /\ UNCHANGED main => MainShape'
         /\ PusherShape /\ UNCHANGED pusher => PusherShape'
         /\ OutShape /\ UNCHANGED out => OutShape'
         /\ ShownShape /\ UNCHANGED shown => ShownShape'
         /\ LateShape /\ UNCHANGED late => LateShape'
<1>1. Message' = Message
  BY DEF Message
<1> QED
  BY <1>1 DEF EventsShape, MainShape, PusherShape, OutShape, ShownShape, LateShape

LEMMA Enqueued ==
  ASSUME OutShape, UNCHANGED writes, NEW m \in Message, m.type = "next" => m.id \in Subs, Enqueue(m)
  PROVE  OutShape'
<1>1. /\ out' = Append(out, m) /\ Len(out) < OutCapacity /\ Len(out) \in Nat /\ out \in Seq(Message)
  BY DEF Enqueue, OutShape
<1>2. out' \in Seq(Message) /\ Len(out') = Len(out) + 1
  BY <1>1
<1>3. \A i \in DOMAIN out' : out'[i] = IF i = Len(out) + 1 THEN m ELSE out[i]
  BY <1>1
<1>4. \A i \in DOMAIN out' : i = Len(out) + 1 \/ i \in DOMAIN out
  BY <1>1, <1>2
<1>5. Message' = Message
  BY DEF Message
<1> QED
  BY <1>1, <1>2, <1>3, <1>4, <1>5, LiveConstants DEF OutShape

LEMMA MainRecord ==
  ASSUME MainShape
  PROVE  /\ main = [at |-> main.at, id |-> main.id, live |-> main.live, data |-> main.data]
         /\ main.at \in MainSteps /\ main.id \in Subs \cup {"none"} /\ main.live \in BOOLEAN
         /\ main.data \in 0..Len(writes)
         /\ \A w : [main EXCEPT !.at = w] =
                   [at |-> w, id |-> main.id, live |-> main.live, data |-> main.data]
  BY DEF MainShape

LEMMA IdleShape ==
  ASSUME writes \in Seq(Topics)
  PROVE  /\ Idle = [at |-> "idle", id |-> "none", live |-> FALSE, data |-> 0]
         /\ 0 \in 0..Len(writes) /\ Len(writes) \in Nat
  BY DEF Idle

\* Where the main loop may go.
LEMMA MainMoves ==
  ASSUME MainShape, Kept, UNCHANGED writes, NEW w \in MainSteps,
         \/ main' = [main EXCEPT !.at = w] /\ (main.id \in Subs \/ w \in {"idle", "connection_ack"})
         \/ main' = [Idle EXCEPT !.at = w] /\ w \in {"idle", "leaving", "closed"}
         \/ main' = Idle
  PROVE  MainShape'
<1>1. CASE main' = [main EXCEPT !.at = w] /\ (main.id \in Subs \/ w \in {"idle", "connection_ack"})
  BY <1>1, MainRecord DEF MainShape
<1>2. CASE main' = [Idle EXCEPT !.at = w] /\ w \in {"idle", "leaving", "closed"}
  <2>1. main' = [at |-> w, id |-> "none", live |-> FALSE, data |-> 0]
    BY <1>2 DEF Idle
  <2>2. main' \in [at : MainSteps, id : Subs \cup {"none"}, live : BOOLEAN, data : 0..Len(writes)]
    BY <2>1, IdleShape DEF Kept
  <2>3. main'.at = w
    BY <2>1
  <2> QED
    BY <1>2, <2>2, <2>3 DEF MainShape
<1>3. CASE main' = Idle
  <2>1. main' = [at |-> "idle", id |-> "none", live |-> FALSE, data |-> 0] /\ 0 \in 0..Len(writes)
    BY <1>3, IdleShape DEF Kept
  <2>2. main'.at = "idle" /\ "idle" \in MainSteps
    BY <2>1 DEF MainSteps
  <2> QED
    BY <2>1, <2>2 DEF MainShape
<1> QED
  BY <1>1, <1>2, <1>3

LEMMA ShapeStays == LiveShape /\ [Next]_vars => LiveShape'
<1> SUFFICES ASSUME LiveShape, [Next]_vars PROVE LiveShape'
  OBVIOUS
<1>0. /\ Kept /\ EventsShape /\ MainShape /\ PusherShape /\ OutShape /\ ShownShape /\ LateShape
  BY ShapeParts
<1> DEFINE Goal == Kept' /\ EventsShape' /\ MainShape' /\ PusherShape' /\ OutShape' /\ ShownShape'
                   /\ LateShape'
<1>q. Goal => LiveShape'
  BY ShapeParts, PTL
<1> SUFFICES Goal
  BY <1>q
<1>1. CASE Commit
  BY <1>1, CommitShape, ShapeParts, PTL
<1>2. CASE Publish
  <2>1. PICK i \in DOMAIN writes : events' = Append(events, i)
    BY <1>2 DEF Publish
  <2>2. UNCHANGED <<writes, taken, initialized, active, main, pusher, out, forwarding,
                   client, shown, history>>
    BY <1>2 DEF Publish
  <2>3. i \in Nat
    BY <1>0 DEF Kept
  <2>4. /\ events' \in Seq(Nat) /\ Len(events') = Len(events) + 1 /\ Len(events) \in Nat
        /\ \A j \in DOMAIN events' : events'[j] = IF j = Len(events) + 1 THEN i ELSE events[j]
        /\ \A j \in DOMAIN events' : j = Len(events) + 1 \/ j \in DOMAIN events
    BY <1>0, <2>1, <2>3 DEF EventsShape
  <2>5. EventsShape'
    BY <1>0, <2>2, <2>4 DEF EventsShape
  <2> QED
    BY <1>0, <2>2, <2>5, Unchanging DEF Kept, client, history
<1>3. CASE ConnectionInit
  <2>1. /\ main.at = "idle" /\ main' = [main EXCEPT !.at = "connection_ack"]
        /\ initialized' = TRUE
        /\ UNCHANGED <<store, taken, active, pusher, out, forwarding, connected, shown, history>>
    BY <1>3 DEF ConnectionInit, NextMessage
  <2>2. MainShape'
    BY <1>0, <2>1, MainMoves DEF MainSteps, store
  <2> QED
    BY <1>0, <2>1, <2>2, Unchanging DEF Kept, store, history
<1>4. CASE Subscribe
  <2>1. UNCHANGED <<store, taken, initialized, active, pusher, out, forwarding, connected,
                    shown, missed>>
    BY <1>4 DEF Subscribe
  <2>2. PICK s \in Subs, live \in BOOLEAN :
         IF Cardinality(active) >= MaxSubscriptions
         THEN main' = [Idle EXCEPT !.at = "error", !.id = s] /\ UNCHANGED <<used, reused, ended, late>>
         ELSE /\ main' = [Idle EXCEPT !.at = "execute", !.id = s, !.live = live]
              /\ used' = used \cup {s} /\ reused' = reused \cup ({s} \cap used)
              /\ ended' = ended \ {s} /\ late' = [late EXCEPT ![s] = 0]
    BY <1>4, Zenon DEF Subscribe
  <2>3. used' \subseteq Subs /\ reused' \subseteq Subs /\ ended' \subseteq Subs /\ LateShape'
    BY <1>0, <2>2 DEF Kept, LateShape
  <2>4. PICK w \in {"error", "execute"}, l \in BOOLEAN :
          main' = [at |-> w, id |-> s, live |-> l, data |-> 0]
    BY <2>2 DEF Idle
  <2>5. MainShape'
    BY <1>0, <2>1, <2>4, IdleShape DEF MainShape, MainSteps, Kept, store
  <2> QED
    BY <1>0, <2>1, <2>3, <2>5, Unchanging DEF Kept, store
<1>5. CASE Complete
  <2>1. UNCHANGED <<store, taken, initialized, main, pusher, out, forwarding,
                    connected, shown, used, reused, late, missed>>
    BY <1>5 DEF Complete
  <2>2. active' \subseteq Subs /\ ended' \subseteq Subs
    BY <1>0, <1>5 DEF Complete, Kept
  <2> QED
    BY <1>0, <2>1, <2>2, Unchanging DEF Kept, store
<1>6. CASE Hangup
  <2>1. /\ connected' = FALSE
        /\ UNCHANGED <<store, taken, initialized, active, main, pusher, out, forwarding, sent,
                       shown, history>>
    BY <1>6 DEF Hangup
  <2> QED
    BY <1>0, <2>1, Unchanging DEF Kept, store, history
<1>7. CASE Execute
  <2>1. /\ main.at = "execute" /\ main' = [main EXCEPT !.at = "next", !.data = Latest(main.id)]
        /\ UNCHANGED <<store, taken, initialized, active, pusher, out, forwarding, client,
                       shown, history>>
    BY <1>7 DEF Execute
  <2>2. Latest(main.id) \in 0..Len(writes) /\ main.id \in Subs
    BY <1>0, <2>1, LatestType DEF MainShape
  <2>3. main' = [at |-> "next", id |-> main.id, live |-> main.live, data |-> Latest(main.id)]
    BY <1>0, <2>1 DEF MainShape
  <2>4. MainShape'
    BY <1>0, <2>1, <2>2, <2>3 DEF MainShape, MainSteps, store
  <2> QED
    BY <1>0, <2>1, <2>4, Unchanging DEF Kept, store, client, history
<1>8. CASE Send
  <2>1. UNCHANGED <<store, taken, initialized, active, pusher, forwarding, client, shown, history>>
    BY <1>8 DEF Send
  <2>2. main.at \in {"connection_ack", "error", "next", "complete"}
    BY <1>8 DEF Send
  <2>3. \/ /\ Enqueue([type |-> main.at, id |-> main.id, data |-> main.data])
           /\ \/ main' = Idle
              \/ main.at = "next" /\ \E w \in {"register", "complete"} : main' = [main EXCEPT !.at = w]
        \/ /\ UNCHANGED out
           /\ main' = Idle \/ main' = [Idle EXCEPT !.at = "leaving"]
    BY <1>8 DEF Send
  <2>4. main.id \in Subs \/ main.at = "connection_ack"
    BY <1>0, <2>2 DEF MainShape
  <2>5. MainShape'
    <3>1. CASE main' = Idle \/ main' = [Idle EXCEPT !.at = "leaving"]
      BY <1>0, <2>1, <3>1, MainMoves DEF MainSteps, store
    <3>2. CASE main.at = "next" /\ \E w \in {"register", "complete"} : main' = [main EXCEPT !.at = w]
      BY <1>0, <2>1, <2>4, <3>2, MainMoves DEF MainSteps, store
    <3> QED
      BY <2>3, <3>1, <3>2
  <2>6. OutShape'
    <3>1. [type |-> main.at, id |-> main.id, data |-> main.data] \in Message
      BY <1>0, <2>2, MainRecord DEF Message
    <3>2. main.at = "next" => main.id \in Subs
      BY <2>4
    <3>3. CASE Enqueue([type |-> main.at, id |-> main.id, data |-> main.data])
      BY <1>0, <2>1, <3>1, <3>2, <3>3, Enqueued DEF store
    <3> QED
      BY <1>0, <2>1, <2>3, <3>3, Unchanging DEF store
  <2> QED
    BY <1>0, <2>1, <2>5, <2>6, Unchanging DEF Kept, store, client, history
<1>9. CASE Register
  <2>1. /\ main.at = "register" /\ active' = active \cup {main.id} /\ main' = Idle
        /\ UNCHANGED <<store, taken, initialized, pusher, out, forwarding, client, shown, history>>
    BY <1>9 DEF Register
  <2>2. MainShape' /\ active' \subseteq Subs
    BY <1>0, <2>1, MainMoves DEF MainSteps, store, MainShape, Kept
  <2> QED
    BY <1>0, <2>1, <2>2, Unchanging DEF Kept, store, client, history
<1>10. CASE Close
  <2>1. /\ main' = [Idle EXCEPT !.at = "closed"] /\ pusher' = [Waiting EXCEPT !.at = "aborted"]
        /\ forwarding' = FALSE /\ out' = <<>> /\ active' = {}
        /\ UNCHANGED <<store, taken, initialized, client, shown, history>>
    BY <1>10 DEF Close
  <2>2. MainShape'
    BY <1>0, <2>1, MainMoves DEF MainSteps, store
  <2>3. PusherShape'
    <3>1. pusher' = [at |-> "aborted", batch |-> {}, id |-> "none", data |-> 0]
      BY <2>1 DEF Waiting
    <3>2. 0 \in 0..Len(writes)' /\ pusher'.at = "aborted"
      BY <1>0, <2>1, <3>1, IdleShape DEF Kept, store
    <3> QED
      BY <3>1, <3>2 DEF PusherShape, PusherSteps
  <2>4. OutShape'
    BY <2>1, LiveConstants DEF OutShape
  <2> QED
    BY <1>0, <2>1, <2>2, <2>3, <2>4, Unchanging DEF Kept, store, client, history
<1>11. CASE Receive
  <2>1. /\ pusher.at = "recv" /\ taken < Len(events) /\ taken' = taken + 1
        /\ \/ pusher' = Waiting
           \/ \E b \in SUBSET active : pusher' = [Waiting EXCEPT !.at = "execute", !.batch = b]
        /\ UNCHANGED <<store, initialized, active, main, out, forwarding, client, shown,
                       used, reused, ended, late>>
    BY <1>11 DEF Receive
  <2>2. PICK w \in {"recv", "execute"}, b \in SUBSET active :
          pusher' = [at |-> w, batch |-> b, id |-> "none", data |-> 0]
    BY <2>1 DEF Waiting
  <2>3. PusherShape'
    BY <1>0, <2>1, <2>2, IdleShape DEF PusherShape, PusherSteps, Kept, store
  <2>4. EventsShape'
    <3>1. taken' \in 0..Len(events)
      <4>1. taken \in Nat /\ Len(events) \in Nat
        BY <1>0 DEF EventsShape
      <4>2. taken < Len(events) /\ taken' = taken + 1
        BY <2>1
      <4> QED
        BY ONLY <4>1, <4>2
    <3>2. UNCHANGED <<writes, events>>
      BY <2>1 DEF store
    <3> QED
      BY <1>0, <3>1, <3>2 DEF EventsShape
  <2> QED
    BY <1>0, <2>1, <2>3, <2>4, Unchanging DEF Kept, store, client
<1>12. CASE Lagged
  <2>1. /\ Len(events) - taken > Buffer /\ taken' = Len(events) - Buffer
        /\ UNCHANGED <<store, initialized, active, main, pusher, out, forwarding, client, shown,
                       used, reused, ended, late>>
    BY <1>12 DEF Lagged
  <2>2. EventsShape'
    BY <1>0, <2>1, LiveConstants DEF EventsShape, store
  <2> QED
    BY <1>0, <2>1, <2>2, Unchanging DEF Kept, store, client
<1>13. CASE Reexecute
  <2>1. PICK s \in pusher.batch :
          pusher' = [at |-> "send", batch |-> pusher.batch \ {s}, id |-> s, data |-> Latest(s)]
    BY <1>13 DEF Reexecute
  <2>2. UNCHANGED <<store, taken, initialized, active, main, out, forwarding, client, shown,
                    used, reused, ended, late>>
    BY <1>13 DEF Reexecute
  <2>3. Latest(s) \in 0..Len(writes) /\ s \in Subs /\ pusher.batch \subseteq Subs
    BY <1>0, LatestType DEF PusherShape
  <2>4. PusherShape'
    BY <2>1, <2>2, <2>3 DEF PusherShape, PusherSteps, store
  <2> QED
    BY <1>0, <2>2, <2>4, Unchanging DEF Kept, store, client
<1>14. CASE Push
  <2>1. /\ pusher.at = "send"
        /\ UNCHANGED <<store, taken, initialized, active, main, forwarding, client, shown,
                       used, reused, ended, missed>>
    BY <1>14 DEF Push
  <2>2. \/ /\ Enqueue([type |-> "next", id |-> pusher.id, data |-> pusher.data])
           /\ pusher' = Waiting \/ pusher' = [Waiting EXCEPT !.at = "execute", !.batch = pusher.batch]
           /\ late' = late \/ late' = [late EXCEPT ![pusher.id] = @ + 1]
        \/ pusher' = Waiting /\ UNCHANGED <<out, late>>
    BY <1>14 DEF Push
  <2>3. pusher.id \in Subs /\ pusher.batch \subseteq Subs /\ pusher.data \in 0..Len(writes)
    BY <1>0, <2>1 DEF PusherShape
  <2>4. PusherShape'
    <3>1. PICK w \in {"recv", "execute"}, b \in SUBSET Subs :
            pusher' = [at |-> w, batch |-> b, id |-> "none", data |-> 0]
      BY <2>2, <2>3 DEF Waiting
    <3> QED
      BY <1>0, <2>1, <3>1, IdleShape DEF PusherShape, PusherSteps, Kept, store
  <2>5. LateShape'
    BY <1>0, <2>2, <2>3 DEF LateShape
  <2>6. OutShape'
    <3>1. [type |-> "next", id |-> pusher.id, data |-> pusher.data] \in Message
      BY <2>3 DEF Message
    <3>2. CASE Enqueue([type |-> "next", id |-> pusher.id, data |-> pusher.data])
      BY <1>0, <2>1, <2>3, <3>1, <3>2, Enqueued DEF store
    <3> QED
      BY <1>0, <2>1, <2>2, <3>2, Unchanging DEF store
  <2> QED
    BY <1>0, <2>1, <2>4, <2>5, <2>6, Unchanging DEF Kept, store, client
<1>15. CASE Forward
  <2>1. /\ out # <<>>
        /\ UNCHANGED <<store, taken, initialized, active, main, pusher, client, history>>
    BY <1>15 DEF Forward
  <2>2. \/ /\ out' = Tail(out) /\ UNCHANGED forwarding
           /\ \/ shown' = shown
              \/ Head(out).type = "next" /\ shown' = [shown EXCEPT ![Head(out).id] = Head(out).data]
        \/ forwarding' = FALSE /\ out' = <<>> /\ UNCHANGED shown
    BY <1>15 DEF Forward
  <2>3. /\ out \in Seq(Message) /\ Len(out) \in Nat /\ Len(out) > 0 /\ Head(out) = out[1]
        /\ Tail(out) \in Seq(Message) /\ Len(Tail(out)) = Len(out) - 1
        /\ \A i \in DOMAIN Tail(out) : i + 1 \in DOMAIN out /\ Tail(out)[i] = out[i + 1]
        /\ 1 \in DOMAIN out /\ out[1] \in Message
    BY <1>0, <2>1 DEF OutShape
  <2>4. OutShape'
    <3>1. CASE out' = Tail(out)
      <4>1. \A i \in DOMAIN out' : out'[i].type = "next" => out'[i].id \in Subs
        BY <1>0, <2>3, <3>1 DEF OutShape
      <4>2. Message' = Message
        BY <2>1 DEF Message, store
      <4> QED
        BY <1>0, <2>3, <3>1, <4>1, <4>2, LiveConstants DEF OutShape
    <3>2. CASE out' = <<>>
      BY <3>2, LiveConstants DEF OutShape
    <3> QED
      BY <2>2, <3>1, <3>2
  <2>5. ShownShape'
    BY <1>0, <2>1, <2>2, <2>3 DEF ShownShape, Message, store
  <2>6. forwarding' \in BOOLEAN
    BY <1>0, <2>2 DEF Kept
  <2> QED
    BY <1>0, <2>1, <2>4, <2>5, <2>6, Unchanging DEF Kept, store, client, history
<1>16. CASE UNCHANGED vars
  BY <1>0, <1>16, Unchanging DEF vars, Kept, store, client, history
<1> QED
  BY <1>1, <1>2, <1>3, <1>4, <1>5, <1>6, <1>7, <1>8, <1>9, <1>10, <1>11, <1>12, <1>13, <1>14,
     <1>15, <1>16, Zenon DEF Next, Client, Main, Invalidation

-----------------------------------------------------------------------------
LEMMA LateStays ==
  ASSUME LiveShape, \A s \in Subs : LateOK(s), [Next]_vars
  PROVE  \A s \in Subs : LateOK(s)'
<1> SUFFICES ASSUME NEW s \in Subs PROVE LateOK(s)'
  OBVIOUS
<1>0. LateOK(s) /\ late \in [Subs -> Nat]
  BY DEF LiveShape
<1>1. CASE UNCHANGED <<active, main, pusher, late, ended>>
  BY <1>0, <1>1 DEF LateOK, Pushing
<1>2. CASE Commit \/ Publish \/ Hangup \/ Forward \/ UNCHANGED vars \/ Lagged
  BY <1>1, <1>2 DEF Commit, Publish, Hangup, Forward, vars, client, history, Lagged
<1>3. CASE ConnectionInit
  BY <1>0, <1>3 DEF ConnectionInit, NextMessage, LateOK, Pushing, history
<1>4. CASE Subscribe
  <2>1. PICK t \in Subs, live \in BOOLEAN :
         IF Cardinality(active) >= MaxSubscriptions
         THEN main' = [Idle EXCEPT !.at = "error", !.id = t] /\ UNCHANGED <<used, reused, ended, late>>
         ELSE /\ main' = [Idle EXCEPT !.at = "execute", !.id = t, !.live = live]
              /\ used' = used \cup {t} /\ reused' = reused \cup ({t} \cap used)
              /\ ended' = ended \ {t} /\ late' = [late EXCEPT ![t] = 0]
    BY <1>4, Zenon DEF Subscribe
  <2>2. UNCHANGED <<active, pusher>>
    BY <1>4 DEF Subscribe
  <2>3. CASE Cardinality(active) >= MaxSubscriptions
    <3>1. main'.at = "error" /\ UNCHANGED <<ended, late>>
      BY <2>1, <2>3 DEF Idle
    <3> QED
      BY <1>0, <2>2, <3>1 DEF LateOK, Pushing
  <2>4. CASE ~(Cardinality(active) >= MaxSubscriptions)
    <3>1. main'.id = t /\ ended' = ended \ {t} /\ late' = [late EXCEPT ![t] = 0]
      BY <2>1, <2>4 DEF Idle
    <3>2. CASE s = t
      BY <1>0, <2>2, <3>1, <3>2 DEF LateOK, Pushing
    <3>3. CASE s # t
      BY <1>0, <2>2, <3>1, <3>3 DEF LateOK, Pushing
    <3> QED
      BY <3>2, <3>3
  <2> QED
    BY <2>3, <2>4
<1>5. CASE Complete
  <2>1. PICK t \in Subs : active' = active \ {t} /\ ended' = ended \cup {t}
    BY <1>5 DEF Complete
  <2>2. main.at = "idle" /\ UNCHANGED <<main, pusher, late>>
    BY <1>5 DEF Complete, NextMessage
  <2> QED
    BY <1>0, <2>1, <2>2 DEF LateOK, Pushing
<1>6. CASE Execute
  <2>1. /\ main.at = "execute" /\ main'.id = main.id
        /\ UNCHANGED <<active, pusher, late, ended>>
    BY <1>6, ShapeOfParts DEF Execute, history
  <2> QED
    BY <1>0, <2>1 DEF LateOK, Pushing
<1>7. CASE Send
  <2>1. UNCHANGED <<active, pusher, late, ended>>
    BY <1>7 DEF Send, history
  <2>2. \/ main'.at \in {"idle", "leaving"}
        \/ main.at = "next" /\ main'.id = main.id
    BY <1>7, ShapeOfParts DEF Send, Idle
  <2> QED
    BY <1>0, <2>1, <2>2 DEF LateOK, Pushing
<1>8. CASE Register
  <2>1. /\ main.at = "register" /\ active' = active \cup {main.id} /\ main'.at = "idle"
        /\ UNCHANGED <<pusher, late, ended>>
    BY <1>8 DEF Register, Idle, history
  <2> QED
    BY <1>0, <2>1 DEF LateOK, Pushing
<1>9. CASE Close
  <2>1. /\ main'.at = "closed" /\ pusher'.at = "aborted" /\ pusher'.batch = {} /\ active' = {}
        /\ UNCHANGED <<late, ended>>
    BY <1>9 DEF Close, Idle, Waiting, history
  <2> QED
    BY <1>0, <2>1 DEF LateOK, Pushing
<1>10. CASE Receive
  <2>1. PICK b \in SUBSET active : pusher'.at # "send" /\ pusher'.batch = b
    <3>1. \/ pusher' = Waiting
          \/ \E b \in SUBSET active : pusher' = [Waiting EXCEPT !.at = "execute", !.batch = b]
      BY <1>10 DEF Receive
    <3>2. PICK w \in {"recv", "execute"}, b \in SUBSET active :
            pusher' = [at |-> w, batch |-> b, id |-> "none", data |-> 0]
      BY <3>1 DEF Waiting
    <3> QED
      BY <3>2
  <2>2. UNCHANGED <<active, main, ended, late>>
    BY <1>10 DEF Receive
  <2> QED
    BY <1>0, <2>1, <2>2 DEF LateOK, Pushing
<1>11. CASE Reexecute
  <2>1. PICK t \in pusher.batch :
          pusher' = [at |-> "send", batch |-> pusher.batch \ {t}, id |-> t, data |-> Latest(t)]
    BY <1>11 DEF Reexecute
  <2>2. UNCHANGED <<active, main, ended, late>>
    BY <1>11 DEF Reexecute
  <2> QED
    BY <1>0, <2>1, <2>2 DEF LateOK, Pushing
<1>12. CASE Push
  <2>1. /\ pusher.at = "send" /\ UNCHANGED <<active, main, ended>>
    BY <1>12 DEF Push
  <2>2. pusher'.at # "send" /\ pusher'.batch \subseteq pusher.batch
    <3>1. PICK w \in {"recv", "execute"}, b \in SUBSET pusher.batch :
            pusher' = [at |-> w, batch |-> b, id |-> "none", data |-> 0]
      BY <1>12 DEF Push, Waiting
    <3> QED
      BY <3>1
  <2>3. late' = late \/ (pusher.id \in ended /\ late' = [late EXCEPT ![pusher.id] = @ + 1])
    BY <1>12 DEF Push
  <2>4. CASE s = pusher.id
    <3>1. late[s] = 0 /\ s \notin pusher.batch
      BY <1>0, <2>1, <2>4 DEF LateOK, Pushing
    <3>2. late'[s] \in {0, 1} /\ (s \notin ended => late'[s] = 0)
      BY <1>0, <2>3, <2>4, <3>1
    <3> QED
      BY <1>0, <2>1, <2>2, <3>1, <3>2 DEF LateOK, Pushing
  <2>5. CASE s # pusher.id
    <3>1. late'[s] = late[s]
      BY <1>0, <2>3, <2>5
    <3> QED
      BY <1>0, <2>1, <2>2, <3>1 DEF LateOK, Pushing
  <2> QED
    BY <2>4, <2>5
<1> QED
  BY <1>2, <1>3, <1>4, <1>5, <1>6, <1>7, <1>8, <1>9, <1>10, <1>11, <1>12, Zenon
  DEF Next, Client, Main, Invalidation

-----------------------------------------------------------------------------
\* The facts about one subscription that its order is made of.
LEMMA OrderFacts ==
  ASSUME LiveShape, NEW s \in Subs
  PROVE  /\ shown[s] \in Nat /\ Latest(s) \in Nat /\ Len(out) \in Nat /\ main.data \in Nat
         /\ pusher.data \in Nat /\ DOMAIN out = 1..Len(out)
         /\ \A i \in DOMAIN out : out[i] \in Message /\ out[i].data \in Nat
         /\ \A r : pusher.at = "send" /\ pusher.id = r <=> Pushing(r)
<1>1. Len(writes) \in Nat /\ Latest(s) \in 0..Len(writes)
  BY ShapeOfParts, LatestType
<1>2. shown[s] \in 0..Len(writes)
  BY DEF LiveShape
<1>3. out \in Seq(Message) /\ \A m \in Message : m.data \in 0..Len(writes)
  BY ShapeOfParts DEF Message
<1>4. main.data \in 0..Len(writes) /\ pusher.data \in 0..Len(writes)
  BY ShapeOfParts
<1> QED
  BY <1>1, <1>2, <1>3, <1>4 DEF Pushing

LEMMA SameLatest == ASSUME UNCHANGED writes, NEW s PROVE Latest(s)' = Latest(s)
  BY DEF Latest

\* The channel, the shown results and the data are as they were.
LEMMA OrderUntouched ==
  ASSUME LiveShape, NEW s \in Subs, OrderOK(s), UNCHANGED <<writes, out, shown, used, reused>>,
         s \in active' => s \in active \/ (main.at = "register" /\ main.id = s),
         s \in pusher'.batch => s \in pusher.batch \/ s \in active,
         Pushing(s)' => Pushing(s) /\ pusher'.data = pusher.data,
         main'.at \in {"execute", "next", "register"} /\ main'.id = s =>
             main.at \in {"execute", "next"} /\ main.id = s /\ main'.data <= Latest(s)
  PROVE  OrderOK(s)'
<1>1. Latest(s)' = Latest(s)
  BY SameLatest
<1>2. Fresh(s) /\ ~(main.at = "register" /\ main.id = s) => Fresh(s)'
  BY DEF Fresh
<1>3. s \notin used => Unused(s)'
  BY <1>2 DEF OrderOK, Unused
<1>4. ASSUME s \notin reused PROVE InOrder(s)'
  <2>1. InOrder(s)
    BY <1>4 DEF OrderOK
  <2>2. main'.at \in {"execute", "next"} /\ main'.id = s => Fresh(s)'
    BY <1>2, <2>1 DEF InOrder
  <2>3. main'.at = "next" /\ main'.id = s => main'.data <= Latest(s)
    OBVIOUS
  <2> QED
    BY <1>1, <2>1, <2>2, <2>3 DEF InOrder
<1> QED
  BY <1>3, <1>4 DEF OrderOK

\* A message enters the channel.
LEMMA OrderSent ==
  ASSUME LiveShape, NEW s \in Subs, OrderOK(s), UNCHANGED <<writes, shown, used, reused, active>>,
         NEW m \in Message, out' = Append(out, m),
         ~Pushing(s)' \/ (Pushing(s) /\ pusher'.data = pusher.data /\ ~IsNext(m, s)),
         pusher'.batch \subseteq pusher.batch,
         main'.at \in {"execute", "next"} /\ main'.id = s =>
             main.at = main'.at /\ main.id = s /\ main'.data = main.data,
         main'.at = "register" /\ main'.id = s =>
             main.at \in {"register", "next"} /\ main.id = s,
         IsNext(m, s) => \/ Pushing(s) /\ m.data = pusher.data
                         \/ /\ main.at = "next" /\ main.id = s /\ m.data = main.data
                            /\ main'.at \notin {"execute", "next"}
  PROVE  OrderOK(s)'
<1>1. Latest(s)' = Latest(s)
  BY SameLatest
<1>2. /\ DOMAIN out' = 1..(Len(out) + 1) /\ DOMAIN out = 1..Len(out) /\ Len(out) \in Nat
      /\ \A i \in DOMAIN out : out'[i] = out[i]
      /\ out'[Len(out) + 1] = m
      /\ \A i \in DOMAIN out' : i \in DOMAIN out \/ i = Len(out) + 1
  BY ShapeOfParts
<1>3. Fresh(s) /\ ~IsNext(m, s) => Fresh(s)'
  BY <1>2 DEF Fresh, IsNext
<1>4. Fresh(s) /\ ~(main.at = "next" /\ main.id = s) => ~IsNext(m, s)
  BY DEF Fresh
<1>5. s \notin used => Unused(s)'
  BY <1>3, <1>4 DEF OrderOK, Unused
<1>6. ASSUME s \notin reused PROVE InOrder(s)'
  <2>1. InOrder(s)
    BY <1>6 DEF OrderOK
  <2>2. main'.at \in {"execute", "next"} /\ main'.id = s => Fresh(s)'
    <3>1. ASSUME main'.at \in {"execute", "next"}, main'.id = s PROVE Fresh(s)'
      <4>1. Fresh(s)
        BY <2>1, <3>1 DEF InOrder
      <4>2. ~IsNext(m, s)
        BY <3>1, <4>1 DEF Fresh
      <4> QED
        BY <1>3, <4>1, <4>2
    <3> QED
      BY <3>1
  <2>3. main'.at = "next" /\ main'.id = s => main'.data <= Latest(s)
    BY <2>1 DEF InOrder
  <2>4. IsNext(m, s) => /\ shown[s] <= m.data /\ m.data <= Latest(s)
                        /\ \A i \in DOMAIN out : IsNext(out[i], s) => out[i].data <= m.data
    <3>1. CASE Pushing(s) /\ m.data = pusher.data
      BY <2>1, <3>1 DEF InOrder
    <3>2. CASE main.at = "next" /\ main.id = s /\ m.data = main.data
      <4>1. Fresh(s) /\ main.data <= Latest(s)
        BY <2>1, <3>2 DEF InOrder
      <4>2. main.data \in Nat
        BY OrderFacts
      <4> QED
        BY <3>2, <4>1, <4>2 DEF Fresh
    <3> QED
      BY <3>1, <3>2
  <2>5. \A i \in DOMAIN out' : IsNext(out'[i], s) =>
            shown[s] <= out'[i].data /\ out'[i].data <= Latest(s)
    BY <1>2, <2>1, <2>4 DEF InOrder
  <2>6. ASSUME NEW i \in DOMAIN out', NEW j \in DOMAIN out', i < j,
               IsNext(out'[i], s), IsNext(out'[j], s)
        PROVE  out'[i].data <= out'[j].data
    <3>1. i \in DOMAIN out
      BY <1>2, <2>6
    <3>2. CASE j \in DOMAIN out
      BY <1>2, <2>1, <2>6, <3>1, <3>2 DEF InOrder
    <3>3. CASE j = Len(out) + 1
      BY <1>2, <2>4, <2>6, <3>1, <3>3
    <3> QED
      BY <1>2, <3>2, <3>3
  <2>7. Pushing(s)' => /\ shown[s] <= pusher'.data /\ pusher'.data <= Latest(s)
                       /\ \A i \in DOMAIN out' : IsNext(out'[i], s) => out'[i].data <= pusher'.data
    BY <1>2, <2>1 DEF InOrder
  <2>8. \A i, j \in DOMAIN out' :
          i < j /\ IsNext(out'[i], s) /\ IsNext(out'[j], s) => out'[i].data <= out'[j].data
    BY <2>6
  <2>9. shown'[s] = shown[s] /\ shown[s] <= Latest(s)
    BY <2>1 DEF InOrder
  <2> QED
    BY <1>1, <2>2, <2>3, <2>5, <2>7, <2>8, <2>9, Zenon DEF InOrder
<1> QED
  BY <1>5, <1>6 DEF OrderOK

LEMMA OrderStays ==
  ASSUME LiveShape, \A s \in Subs : OrderOK(s), [Next]_vars
  PROVE  \A s \in Subs : OrderOK(s)'
<1> SUFFICES ASSUME NEW s \in Subs PROVE OrderOK(s)'
  OBVIOUS
<1>0. OrderOK(s)
  OBVIOUS
<1> DEFINE Still == \/ ~(main'.at \in {"execute", "next", "register"} /\ main'.id = s)
                    \/ main' = main /\ main.at # "register"
<1>1. CASE Commit
  <2>1. PICK t \in Topics : writes' = Append(writes, t)
    BY <1>1 DEF Commit
  <2>2. Latest(s) <= Latest(s)' /\ Latest(s)' \in Nat /\ Latest(s) \in Nat
    <3>1. writes \in Seq(Topics) /\ writes' \in Seq(Topics)
      BY <2>1 DEF LiveShape
    <3>2. Latest(s) = LastRead(writes, s) /\ Latest(s)' = LastRead(writes', s)
      BY DEF Latest, LastRead, Read
    <3>3. LastRead(writes, s) \in Nat /\ LastRead(writes', s) \in Nat
      BY <3>1, LastReadFacts
    <3> QED
      BY <2>1, <3>1, <3>2, <3>3, LastReadGrows
  <2>3. UNCHANGED <<active, main, pusher, out, shown, used, reused>>
    BY <1>1 DEF Commit, history
  <2>4. s \notin used => Unused(s)'
    BY <1>0, <2>3 DEF OrderOK, Unused, Fresh, Pushing
  <2>5. ASSUME s \notin reused PROVE InOrder(s)'
    <3>1. InOrder(s)
      BY <1>0, <2>5 DEF OrderOK
    <3>2. \A x \in Nat : x <= Latest(s) => x <= Latest(s)'
      BY <2>2
    <3>3. /\ shown[s] \in Nat /\ main.data \in Nat /\ pusher.data \in Nat
          /\ \A i \in DOMAIN out : out[i].data \in Nat
      BY OrderFacts
    <3>4. shown[s] <= Latest(s)' /\ \A i \in DOMAIN out : IsNext(out[i], s) =>
             shown[s] <= out[i].data /\ out[i].data <= Latest(s)'
      BY <3>1, <3>2, <3>3 DEF InOrder
    <3>5. /\ Pushing(s) => pusher.data <= Latest(s)'
          /\ main.at = "next" /\ main.id = s => main.data <= Latest(s)'
      BY <3>1, <3>2, <3>3 DEF InOrder
    <3>6. Pushing(s)' = Pushing(s) /\ Fresh(s)' = Fresh(s)
      BY <2>3 DEF Pushing, Fresh
    <3> QED
      BY <2>3, <3>1, <3>4, <3>5, <3>6 DEF InOrder
  <2> QED
    BY <2>4, <2>5, <2>3 DEF OrderOK
<1>2. CASE Publish \/ Hangup \/ Lagged \/ UNCHANGED vars
  <2>1. UNCHANGED <<writes, active, main, pusher, out, shown, used, reused>>
    BY <1>2 DEF Publish, Hangup, Lagged, vars, store, history
  <2>2. UNCHANGED <<writes, out, shown, used, reused>> => Latest(s)' = Latest(s)
    BY SameLatest
  <2> QED
    BY <1>0, <2>1, <2>2 DEF OrderOK, Unused, InOrder, Fresh, Pushing
<1>3. CASE ConnectionInit
  <2>1. /\ main'.at = "connection_ack"
        /\ UNCHANGED <<writes, active, pusher, out, shown, used, reused>>
    BY <1>3, ShapeOfParts DEF ConnectionInit, store, history
  <2>2. Pushing(s)' = Pushing(s)
    BY <2>1 DEF Pushing
  <2> QED
    BY <1>0, <2>1, <2>2, OrderUntouched
<1>4. CASE Subscribe
  <2>1. PICK t \in Subs, live \in BOOLEAN :
         IF Cardinality(active) >= MaxSubscriptions
         THEN main' = [Idle EXCEPT !.at = "error", !.id = t] /\ UNCHANGED <<used, reused, ended, late>>
         ELSE /\ main' = [Idle EXCEPT !.at = "execute", !.id = t, !.live = live]
              /\ used' = used \cup {t} /\ reused' = reused \cup ({t} \cap used)
              /\ ended' = ended \ {t} /\ late' = [late EXCEPT ![t] = 0]
    BY <1>4, Zenon DEF Subscribe
  <2>2. UNCHANGED <<writes, active, pusher, out, shown>>
    BY <1>4 DEF Subscribe, store
  <2>3. Pushing(s)' = Pushing(s) /\ Fresh(s)' = Fresh(s) /\ Latest(s)' = Latest(s)
    BY <2>2, SameLatest DEF Pushing, Fresh
  <2>4. CASE Cardinality(active) >= MaxSubscriptions
    <3>1. main'.at = "error" /\ UNCHANGED <<used, reused>>
      BY <2>1, <2>4 DEF Idle
    <3> QED
      BY <1>0, <2>2, <2>3, <3>1, OrderUntouched
  <2>5. CASE ~(Cardinality(active) >= MaxSubscriptions)
    <3>1. main'.at = "execute" /\ main'.id = t /\ used' = used \cup {t} /\ reused' = reused \cup ({t} \cap used)
      BY <2>1, <2>5 DEF Idle
    <3>2. s \notin used' => Unused(s)'
      BY <1>0, <2>3, <3>1 DEF OrderOK, Unused
    <3>3. ASSUME s \notin reused' PROVE InOrder(s)'
      <4>1. InOrder(s)
        BY <1>0, <3>1, <3>3 DEF OrderOK
      <4>2. main'.id = s => Fresh(s)'
        BY <1>0, <2>3, <3>1, <3>3 DEF OrderOK, Unused
      <4> QED
        BY <2>2, <2>3, <3>1, <4>1, <4>2 DEF InOrder
    <3> QED
      BY <3>2, <3>3 DEF OrderOK
  <2> QED
    BY <2>4, <2>5
<1>5. CASE Complete
  <2>1. /\ active' \subseteq active /\ main.at = "idle"
        /\ UNCHANGED <<writes, main, pusher, out, shown, used, reused>>
    BY <1>5 DEF Complete, NextMessage, store
  <2>2. Pushing(s)' = Pushing(s)
    BY <2>1 DEF Pushing
  <2> QED
    BY <1>0, <2>1, <2>2, OrderUntouched
<1>6. CASE Execute
  <2>1. /\ main.at = "execute" /\ main'.at = "next" /\ main'.id = main.id
        /\ main'.data = Latest(main.id)
        /\ UNCHANGED <<writes, active, pusher, out, shown, used, reused>>
    <3>1. main' = [at |-> "next", id |-> main.id, live |-> main.live, data |-> Latest(main.id)]
      BY <1>6, ShapeOfParts DEF Execute
    <3> QED
      BY <1>6, <3>1 DEF Execute, store, history
  <2>2. Pushing(s)' = Pushing(s)
    BY <2>1 DEF Pushing
  <2>3. Latest(s) <= Latest(s)
    BY OrderFacts
  <2> QED
    BY <1>0, <2>1, <2>2, <2>3, OrderUntouched
<1>7. CASE Send
  <2>1. UNCHANGED <<writes, active, pusher, shown, used, reused>>
    BY <1>7 DEF Send, store, history
  <2>2. main.at \in {"connection_ack", "error", "next", "complete"}
    BY <1>7 DEF Send
  <2>3. \/ /\ out' = Append(out, [type |-> main.at, id |-> main.id, data |-> main.data])
           /\ main'.at = "idle" \/ (main.at = "next" /\ main'.at \in {"register", "complete"}
                                    /\ main'.id = main.id)
        \/ /\ UNCHANGED out
           /\ main'.at \in {"idle", "leaving"}
    BY <1>7, ShapeOfParts DEF Send, Idle, Enqueue
  <2>4. Pushing(s)' = Pushing(s)
    BY <2>1 DEF Pushing
  <2>5. CASE UNCHANGED out /\ main'.at \in {"idle", "leaving"}
    BY <1>0, <2>1, <2>4, <2>5, OrderUntouched
  <2>6. CASE out' = Append(out, [type |-> main.at, id |-> main.id, data |-> main.data])
             /\ (main'.at = "idle" \/ (main.at = "next" /\ main'.at \in {"register", "complete"}
                                       /\ main'.id = main.id))
    <3> DEFINE m == [type |-> main.at, id |-> main.id, data |-> main.data]
    <3>1. m \in Message /\ (IsNext(m, s) <=> main.at = "next" /\ main.id = s) /\ m.data = main.data
      BY <2>2, ShapeOfParts DEF Message, IsNext
    <3>2. IsNext(m, s) => ~Pushing(s) \/ (s \in reused /\ s \in used)
      BY <1>0, <3>1 DEF OrderOK, InOrder, Fresh, Unused
    <3> HIDE DEF m
    <3>3. CASE ~(IsNext(m, s) /\ Pushing(s))
      BY <1>0, <2>1, <2>4, <2>6, <3>1, <3>3, OrderSent DEF m
    <3>4. CASE IsNext(m, s) /\ Pushing(s)
      BY <2>1, <3>2, <3>4 DEF OrderOK
    <3> QED
      BY <3>3, <3>4
  <2> QED
    BY <2>3, <2>5, <2>6
<1>8. CASE Register
  <2>1. /\ main.at = "register" /\ active' = active \cup {main.id} /\ main'.at = "idle"
        /\ UNCHANGED <<writes, pusher, out, shown, used, reused>>
    BY <1>8 DEF Register, Idle, store, history
  <2>2. Pushing(s)' = Pushing(s)
    BY <2>1 DEF Pushing
  <2> QED
    BY <1>0, <2>1, <2>2, OrderUntouched
<1>9. CASE Close
  <2>1. /\ main'.at = "closed" /\ pusher'.at = "aborted" /\ pusher'.batch = {} /\ active' = {}
        /\ out' = <<>> /\ UNCHANGED <<writes, shown, used, reused>>
    BY <1>9 DEF Close, Idle, Waiting, store, history
  <2>2. Latest(s)' = Latest(s) /\ DOMAIN out' = {} /\ ~Pushing(s)'
    BY <2>1, SameLatest DEF Pushing
  <2> QED
    BY <1>0, <2>1, <2>2 DEF OrderOK, Unused, InOrder, Fresh
<1>10. CASE Receive
  <2>1. PICK b \in SUBSET active : pusher'.at # "send" /\ pusher'.batch = b
    <3>1. \/ pusher' = Waiting
          \/ \E b \in SUBSET active : pusher' = [Waiting EXCEPT !.at = "execute", !.batch = b]
      BY <1>10 DEF Receive
    <3>2. PICK w \in {"recv", "execute"}, b \in SUBSET active :
            pusher' = [at |-> w, batch |-> b, id |-> "none", data |-> 0]
      BY <3>1 DEF Waiting
    <3> QED
      BY <3>2
  <2>2. UNCHANGED <<writes, active, main, out, shown, used, reused>> /\ ~Pushing(s)'
    BY <1>10, <2>1 DEF Receive, Pushing, store
  <2>3. Latest(s)' = Latest(s)
    BY <2>2, SameLatest
  <2> QED
    BY <1>0, <2>1, <2>2, <2>3 DEF OrderOK, Unused, InOrder, Fresh
<1>11. CASE Reexecute
  <2>1. PICK t \in pusher.batch :
          pusher' = [at |-> "send", batch |-> pusher.batch \ {t}, id |-> t, data |-> Latest(t)]
    BY <1>11 DEF Reexecute
  <2>2. UNCHANGED <<writes, active, main, out, shown, used, reused>> /\ pusher.at = "execute"
    BY <1>11 DEF Reexecute, store
  <2>3. Latest(s)' = Latest(s)
    BY <2>2, SameLatest
  <2>4. /\ Pushing(s)' <=> s = t
        /\ pusher'.batch \subseteq pusher.batch /\ pusher'.data = Latest(t)
    BY <2>1 DEF Pushing
  <2>5. CASE s = t
    <3>1. ~Fresh(s)
      BY <2>5 DEF Fresh
    <3>2. ASSUME s \notin reused PROVE InOrder(s)'
      <4>1. InOrder(s) /\ Latest(s) <= Latest(s)
        BY <1>0, <3>2, OrderFacts DEF OrderOK
      <4> QED
        BY <2>2, <2>3, <2>4, <2>5, <3>1, <4>1 DEF InOrder
    <3> QED
      BY <1>0, <2>2, <3>1, <3>2 DEF OrderOK, Unused
  <2>6. CASE s # t
    <3>1. ~Pushing(s)' /\ (Fresh(s) => Fresh(s)')
      BY <2>2, <2>4, <2>6 DEF Fresh
    <3> QED
      BY <1>0, <2>2, <2>3, <3>1 DEF OrderOK, Unused, InOrder
  <2> QED
    BY <2>5, <2>6
<1>12. CASE Push
  <2>1. pusher.at = "send" /\ UNCHANGED <<writes, active, main, shown, used, reused>>
    BY <1>12 DEF Push, store
  <2>2. pusher'.at # "send" /\ pusher'.batch \subseteq pusher.batch
    <3>1. PICK w \in {"recv", "execute"}, b \in SUBSET pusher.batch :
            pusher' = [at |-> w, batch |-> b, id |-> "none", data |-> 0]
      BY <1>12 DEF Push, Waiting
    <3> QED
      BY <3>1
  <2>3. \/ out' = Append(out, [type |-> "next", id |-> pusher.id, data |-> pusher.data])
        \/ UNCHANGED out
    BY <1>12 DEF Push, Enqueue
  <2>4. ~Pushing(s)'
    BY <2>2 DEF Pushing
  <2>5. CASE UNCHANGED out
    <3>1. Fresh(s) => Fresh(s)'
      BY <2>1, <2>2, <2>4, <2>5 DEF Fresh
    <3>2. Latest(s)' = Latest(s)
      BY <2>1, SameLatest
    <3> QED
      BY <1>0, <2>1, <2>4, <2>5, <3>1, <3>2 DEF OrderOK, Unused, InOrder
  <2>6. CASE out' = Append(out, [type |-> "next", id |-> pusher.id, data |-> pusher.data])
    <3> DEFINE m == [type |-> "next", id |-> pusher.id, data |-> pusher.data]
    <3>1. m \in Message /\ (IsNext(m, s) => Pushing(s) /\ m.data = pusher.data)
      BY <2>1, ShapeOfParts DEF Message, IsNext, Pushing
    <3> HIDE DEF m
    <3>2. CASE main.at = "register" /\ main.id = s
      BY <1>0, <2>1, <2>2, <2>4, <2>6, <3>1, <3>2, OrderSent DEF m
    <3>3. CASE ~(main.at = "register" /\ main.id = s)
      BY <1>0, <2>1, <2>2, <2>4, <2>6, <3>1, <3>3, OrderSent DEF m
    <3> QED
      BY <3>2, <3>3
  <2> QED
    BY <2>3, <2>5, <2>6
<1>13. CASE Forward
  <2>1. out # <<>> /\ UNCHANGED <<writes, active, main, pusher, used, reused>>
    BY <1>13 DEF Forward, store, history
  <2>2. \/ /\ out' = Tail(out)
           /\ shown' = IF Head(out).type = "next" THEN [shown EXCEPT ![Head(out).id] = Head(out).data]
                       ELSE shown
        \/ out' = <<>> /\ UNCHANGED shown
    BY <1>13 DEF Forward
  <2>3. Pushing(s)' = Pushing(s) /\ Latest(s)' = Latest(s)
    BY <2>1, SameLatest DEF Pushing
  <2>4. CASE out' = <<>> /\ UNCHANGED shown
    <3>1. DOMAIN out' = {} /\ (Fresh(s) => Fresh(s)')
      BY <2>1, <2>3, <2>4 DEF Fresh
    <3> QED
      BY <1>0, <2>1, <2>3, <2>4, <3>1 DEF OrderOK, Unused, InOrder
  <2>5. CASE /\ out' = Tail(out)
             /\ shown' = IF Head(out).type = "next" THEN [shown EXCEPT ![Head(out).id] = Head(out).data]
                         ELSE shown
    <3>1. /\ Len(out) \in Nat /\ DOMAIN out = 1..Len(out) /\ 1 \in DOMAIN out /\ Head(out) = out[1]
          /\ DOMAIN out' = 1..(Len(out) - 1)
          /\ \A i \in DOMAIN out' : i \in Nat /\ i + 1 \in DOMAIN out /\ out'[i] = out[i + 1]
      BY <2>1, <2>5, ShapeOfParts
    <3>2. shown'[s] = IF IsNext(out[1], s) THEN out[1].data ELSE shown[s]
      <4>1. shown \in [Subs -> Nat]
        BY OrderFacts DEF LiveShape
      <4> QED
        BY <2>5, <3>1, <4>1 DEF IsNext
    <3>3. Fresh(s) => Fresh(s)'
      BY <2>1, <2>3, <3>1, <3>2 DEF Fresh
    <3>4. ASSUME s \notin reused PROVE InOrder(s)'
      <4>1. InOrder(s)
        BY <1>0, <3>4 DEF OrderOK
      <4>2. shown'[s] <= Latest(s)
        BY <3>1, <3>2, <4>1 DEF InOrder
      <4>3. ASSUME NEW i \in DOMAIN out', IsNext(out'[i], s)
            PROVE  shown'[s] <= out'[i].data /\ out'[i].data <= Latest(s)
        <5>1. i + 1 \in DOMAIN out /\ out'[i] = out[i + 1] /\ 1 < i + 1
          BY <3>1
        <5> QED
          BY <3>1, <3>2, <4>1, <4>3, <5>1 DEF InOrder
      <4>4. ASSUME NEW i \in DOMAIN out', NEW j \in DOMAIN out', i < j,
                   IsNext(out'[i], s), IsNext(out'[j], s)
            PROVE  out'[i].data <= out'[j].data
        <5>1. i + 1 \in DOMAIN out /\ j + 1 \in DOMAIN out /\ i + 1 < j + 1
          BY <3>1, <4>4
        <5> QED
          BY <3>1, <4>1, <4>4, <5>1 DEF InOrder
      <4>5. ASSUME Pushing(s)
            PROVE  /\ shown'[s] <= pusher.data /\ pusher.data <= Latest(s)
                   /\ \A i \in DOMAIN out' : IsNext(out'[i], s) => out'[i].data <= pusher.data
        BY <3>1, <3>2, <4>1, <4>5 DEF InOrder
      <4>6. \A i, j \in DOMAIN out' :
              i < j /\ IsNext(out'[i], s) /\ IsNext(out'[j], s) => out'[i].data <= out'[j].data
        BY <4>4
      <4>7. main.at = "next" /\ main.id = s => main.data <= Latest(s)
        BY <4>1 DEF InOrder
      <4>8. main.at \in {"execute", "next"} /\ main.id = s => Fresh(s)'
        BY <3>3, <4>1 DEF InOrder
      <4> QED
        BY <2>1, <2>3, <4>2, <4>3, <4>5, <4>6, <4>7, <4>8, Zenon DEF InOrder
    <3> QED
      BY <1>0, <2>1, <3>3, <3>4 DEF OrderOK, Unused
  <2> QED
    BY <2>2, <2>4, <2>5
<1> QED
  BY <1>1, <1>2, <1>3, <1>4, <1>5, <1>6, <1>7, <1>8, <1>9, <1>10, <1>11, <1>12, <1>13, Zenon
  DEF Next, Client, Main, Invalidation

LEMMA LiveInvStays == LiveInv /\ [Next]_vars => LiveInv'
<1> SUFFICES ASSUME LiveInv, [Next]_vars PROVE LiveInv'
  OBVIOUS
<1>1. LiveShape /\ (\A s \in Subs : LateOK(s)) /\ (\A s \in Subs : OrderOK(s))
  BY DEF LiveInv
<1> QED
  BY <1>1, ShapeStays, LateStays, OrderStays DEF LiveInv

\* A step shows a subscription that is used once nothing older than before.
LEMMA ShownNewer ==
  ASSUME LiveInv, Next, NEW s \in Subs \ reused'
  PROVE  shown'[s] >= shown[s]
<1>1. LiveShape /\ shown[s] \in Nat
  BY OrderFacts DEF LiveInv
<1>2. CASE shown' = shown
  BY <1>1, <1>2
<1>3. CASE Forward /\ shown' # shown
  <2>1. /\ reused' = reused /\ out # <<>> /\ Head(out).type = "next"
        /\ shown' = [shown EXCEPT ![Head(out).id] = Head(out).data]
    BY <1>3 DEF Forward, history
  <2>2. InOrder(s)
    BY <2>1 DEF LiveInv, OrderOK
  <2>3. 1 \in DOMAIN out /\ Head(out) = out[1] /\ shown \in [Subs -> Nat] /\ out[1].data \in Nat
    BY <1>1, <2>1, ShapeOfParts, OrderFacts, SMTT(30) DEF LiveShape
  <2>4. CASE IsNext(out[1], s)
    BY <1>1, <2>1, <2>2, <2>3, <2>4 DEF InOrder, IsNext
  <2>5. CASE ~IsNext(out[1], s)
    BY <1>1, <2>1, <2>3, <2>5 DEF IsNext
  <2> QED
    BY <2>4, <2>5
<1>4. Forward \/ shown' = shown
  BY DEF Next, Client, Main, Invalidation, Commit, Publish, ConnectionInit, Subscribe, Complete,
         Hangup, Execute, Send, Register, Close, Receive, Lagged, Reexecute, Push
<1> QED
  BY <1>2, <1>3, <1>4

\* The map, the channel within its capacity, the task's clones and the results shown are what
\* the handler's types say, whatever the client does and however far the channel lags.
THEOREM LiveSocketIsTyped == Spec => []TypeOK
<1>1. LiveInv => TypeOK
  <2> SUFFICES ASSUME LiveInv PROVE TypeOK
    OBVIOUS
  <2>1. LiveShape /\ Len(writes) \in Nat
    BY ShapeOfParts DEF LiveInv
  <2>2. events \in Seq(DOMAIN writes)
    <3>1. events = [j \in 1..Len(events) |-> events[j]] /\ Len(events) \in Nat
      BY <2>1 DEF LiveShape
    <3>2. \A j \in 1..Len(events) : events[j] \in DOMAIN writes
      BY <2>1 DEF LiveShape
    <3> QED
      BY <3>1, <3>2
  <2>3. main.id \in Subs \cup {"none"} /\ main.data \in 0..Len(writes)
    BY <2>1, ShapeOfParts
  <2>4. pusher.batch \subseteq Subs /\ pusher.data \in 0..Len(writes)
    BY <2>1, ShapeOfParts
  <2> QED
    BY <2>1, <2>2, <2>3, <2>4 DEF LiveShape, TypeOK
<1> QED
  BY <1>1, LiveHoldsFirst, LiveInvStays, PTL DEF Spec

\* After a client completes a subscription, the invalidation task sends at most one update
\* for it: the one it had cloned out of the map (handle_live_socket, the invalidation task).
THEOREM AtMostOneLate == Spec => []OneLateUpdate
<1>1. LiveInv => OneLateUpdate
  BY DEF LiveInv, LateOK, OneLateUpdate
<1> QED
  BY <1>1, LiveHoldsFirst, LiveInvStays, PTL DEF Spec

\* Initial results and updates come from two tasks that share a channel, yet an id that is
\* used once is never shown older data after newer data (the subscribe branch sends its
\* result before it registers the subscription).
THEOREM ShownDataGrow == Spec => NeverGoesBack
<1>1. LiveInv /\ [Next]_vars => [\A s \in Subs \ reused' : shown'[s] >= shown[s]]_vars
  BY ShownNewer
<1> QED
  BY <1>1, LiveHoldsFirst, LiveInvStays, PTL DEF Spec, NeverGoesBack

-----------------------------------------------------------------------------
(***************************************************************************)
(* Nothing is forgotten: the safety core of UpdatesArrive.  Once the tasks  *)
(* have nothing left to do, what the client sees of a live subscription is  *)
(* the last write its query reads (QuietShowsLatest).                       *)
(***************************************************************************)

\* The client sees write i or a later one, or will once what is on its way arrives.
Reaches(s, i) ==
    \/ shown[s] >= i
    \/ \E n \in DOMAIN out : IsNext(out[n], s) /\ out[n].data >= i
    \/ Pushing(s) /\ pusher.data >= i

\* The writes of interest to s whose events the receiver has passed.
Taken(s) == {i \in DOMAIN writes : writes[i] \in Watches[s] /\ \E j \in 1..taken : events[j] = i}

Covered(s) == s \in pusher.batch \/ \A i \in Taken(s) : Reaches(s, i)

InWindow(s) == main.at \in {"next", "register"} /\ main.id = s

\* The request the main loop handles read every write whose event has passed.
WindowOK(s) ==
    InWindow(s) => /\ \A i \in Taken(s) : i <= main.data
                   /\ main.at = "register" => Reaches(s, main.data)

RememberedFor(s) == WindowOK(s) /\ (s \in active => Covered(s))

Linked ==
    /\ connected => forwarding /\ main.at \notin {"leaving", "closed"} /\ pusher.at # "aborted"
    /\ pusher.at = "recv" => pusher.batch = {}

Remembered == connected => \A s \in Subs \ (missed \cup reused) : RememberedFor(s)

\* Every write is published, the receiver has caught up, nothing is on its way.
Settled ==
    /\ \A i \in DOMAIN writes : \E j \in DOMAIN events : events[j] = i
    /\ taken = Len(events) /\ pusher.at = "recv" /\ out = <<>>

Quiet == connected /\ Settled => \A s \in active \ (missed \cup reused) : shown[s] = Latest(s)

LiveInvMore == LiveInv /\ Linked /\ Remembered

-----------------------------------------------------------------------------
\* What the steps of the tasks do to the state nothing may be forgotten from.
LEMMA SubscribeFacts ==
  ASSUME LiveShape, Subscribe
  PROVE  /\ main.at = "idle" /\ main'.at \in {"error", "execute"} /\ reused \subseteq reused'
         /\ UNCHANGED <<writes, events, taken, active, pusher, out, forwarding, connected, shown,
                        missed>>
<1>1. PICK t \in Subs, live \in BOOLEAN :
         IF Cardinality(active) >= MaxSubscriptions
         THEN main' = [Idle EXCEPT !.at = "error", !.id = t] /\ UNCHANGED <<used, reused, ended, late>>
         ELSE /\ main' = [Idle EXCEPT !.at = "execute", !.id = t, !.live = live]
              /\ used' = used \cup {t} /\ reused' = reused \cup ({t} \cap used)
              /\ ended' = ended \ {t} /\ late' = [late EXCEPT ![t] = 0]
  BY Zenon DEF Subscribe
<1>2. main'.at \in {"error", "execute"} /\ reused \subseteq reused'
  <2>1. CASE Cardinality(active) >= MaxSubscriptions
    BY <1>1, <2>1 DEF Idle
  <2>2. CASE ~(Cardinality(active) >= MaxSubscriptions)
    BY <1>1, <2>2 DEF Idle
  <2> QED
    BY <2>1, <2>2
<1>3. /\ main.at = "idle"
      /\ UNCHANGED <<writes, events, taken, active, pusher, out, forwarding, connected, shown,
                     missed>>
  BY DEF Subscribe, NextMessage, store
<1> QED
  BY <1>2, <1>3

LEMMA ExecuteFacts ==
  ASSUME LiveShape, Execute
  PROVE  /\ main.at = "execute" /\ main'.at = "next" /\ main'.id = main.id
         /\ main'.data = Latest(main.id)
         /\ UNCHANGED <<writes, events, taken, active, pusher, out, forwarding, connected, shown,
                        reused, missed>>
<1>1. main' = [at |-> "next", id |-> main.id, live |-> main.live, data |-> Latest(main.id)]
  BY ShapeOfParts DEF Execute
<1> QED
  BY <1>1 DEF Execute, store, client, history

\* With the forward task alive a send succeeds once there is room.
LEMMA SendFacts ==
  ASSUME LiveShape, Send, forwarding
  PROVE  /\ out' = Append(out, [type |-> main.at, id |-> main.id, data |-> main.data])
         /\ main'.at \in {"idle", "register", "complete"}
         /\ main'.at = "register" => /\ main.at = "next" /\ main'.id = main.id
                                     /\ main'.data = main.data
         /\ main.at \in {"connection_ack", "error", "next", "complete"}
         /\ UNCHANGED <<writes, events, taken, active, pusher, forwarding, connected, shown,
                        reused, missed>>
<1>1. \A w : [main EXCEPT !.at = w] =
             [at |-> w, id |-> main.id, live |-> main.live, data |-> main.data]
  BY ShapeOfParts
<1>2. Idle.at = "idle"
  BY DEF Idle
<1>3. main.at \in {"connection_ack", "error", "next", "complete"}
  BY DEF Send
<1>4. out' = Append(out, [type |-> main.at, id |-> main.id, data |-> main.data])
  BY DEF Send, Enqueue
<1>5. \/ main' = Idle
      \/ main.at = "next" /\ main' = [main EXCEPT !.at = "register"]
      \/ main.at = "next" /\ main' = [main EXCEPT !.at = "complete"]
  BY <1>3 DEF Send
<1>6. UNCHANGED <<writes, events, taken, active, pusher, forwarding, connected, shown, reused, missed>>
  BY DEF Send, store, client, history
<1> QED
  BY <1>1, <1>2, <1>3, <1>4, <1>5, <1>6

LEMMA ReceiveFacts ==
  ASSUME LiveShape, Receive
  PROVE  LET i == events[taken + 1]
             matching == {s \in active : writes[i] \in Watches[s]}
         IN  /\ pusher.at = "recv" /\ taken + 1 \in DOMAIN events /\ i \in DOMAIN writes
             /\ pusher'.at \in {"recv", "execute"} /\ pusher'.batch = matching
             /\ pusher'.at = "recv" => matching = {}
             /\ missed' = missed \cup Overlooked(i) /\ taken' = taken + 1
             /\ UNCHANGED <<writes, events, active, main, out, forwarding, connected, shown, reused>>
<1> DEFINE i == events[taken + 1]
           matching == {s \in active : writes[i] \in Watches[s]}
<1>1. pusher' = IF matching = {} THEN Waiting ELSE [Waiting EXCEPT !.at = "execute", !.batch = matching]
  BY DEF Receive
<1>2. taken + 1 \in DOMAIN events /\ i \in DOMAIN writes
  BY DEF Receive, LiveShape
<1>3. /\ missed' = missed \cup Overlooked(i) /\ taken' = taken + 1 /\ pusher.at = "recv"
      /\ UNCHANGED <<writes, events, active, main, out, forwarding, connected, shown, reused>>
  BY DEF Receive, store, client
<1> HIDE DEF matching, i
<1>4. /\ pusher'.at \in {"recv", "execute"} /\ pusher'.batch = matching
      /\ pusher'.at = "recv" => matching = {}
  BY <1>1 DEF Waiting
<1> QED
  BY <1>2, <1>3, <1>4 DEF matching, i

LEMMA PushFacts ==
  ASSUME LiveShape, Push
  PROVE  /\ pusher.at = "send" /\ pusher'.at \in {"recv", "execute"}
         /\ pusher'.at = "recv" => pusher'.batch = {}
         /\ forwarding =>
              /\ out' = Append(out, [type |-> "next", id |-> pusher.id, data |-> pusher.data])
              /\ pusher'.batch = pusher.batch
         /\ UNCHANGED <<writes, events, taken, active, main, forwarding, connected, shown, reused,
                        missed>>
<1>1. pusher.at = "send"
  BY DEF Push
<1>2. \/ /\ forwarding
         /\ out' = Append(out, [type |-> "next", id |-> pusher.id, data |-> pusher.data])
         /\ pusher' = IF pusher.batch = {} THEN Waiting
                      ELSE [Waiting EXCEPT !.at = "execute", !.batch = pusher.batch]
      \/ ~forwarding /\ pusher' = Waiting
  BY DEF Push, Enqueue
<1>3. Waiting.at = "recv" /\ Waiting.batch = {}
  BY DEF Waiting
<1>4. \A b : LET w == [Waiting EXCEPT !.at = "execute", !.batch = b]
             IN  w.at = "execute" /\ w.batch = b
  BY DEF Waiting
<1>5. UNCHANGED <<writes, events, taken, active, main, forwarding, connected, shown, reused, missed>>
  BY DEF Push, store, client
<1> QED
  BY <1>1, <1>2, <1>3, <1>4, <1>5

LEMMA LinkedStays == LiveShape /\ Linked /\ [Next]_vars => Linked'
<1> SUFFICES ASSUME LiveShape, Linked, [Next]_vars PROVE Linked'
  OBVIOUS
<1>0. /\ \A w : [main EXCEPT !.at = w] =
               [at |-> w, id |-> main.id, live |-> main.live, data |-> main.data]
      /\ main.at \in MainSteps
  BY ShapeOfParts
<1>1. CASE UNCHANGED vars
  BY <1>1 DEF vars, Linked, client
<1>2. CASE Commit \/ Publish \/ Hangup \/ Complete \/ Lagged
  BY <1>2 DEF Commit, Publish, Hangup, Complete, Lagged, NextMessage, Linked, client
<1>3. CASE ConnectionInit \/ Subscribe
  <2>1. /\ UNCHANGED <<pusher, forwarding, connected>>
        /\ main'.at \in {"connection_ack", "error", "execute"}
    <3>1. CASE ConnectionInit
      BY <1>0, <3>1 DEF ConnectionInit
    <3>2. CASE Subscribe
      BY <3>2, SubscribeFacts
    <3> QED
      BY <1>3, <3>1, <3>2
  <2> QED
    BY <2>1 DEF Linked
<1>4. CASE Execute \/ Register
  <2>1. UNCHANGED <<pusher, forwarding, connected>> /\ main'.at \in {"next", "idle"}
    BY <1>4, ExecuteFacts DEF Register, Idle, client
  <2> QED
    BY <2>1 DEF Linked
<1>5. CASE Send
  <2>1. /\ UNCHANGED <<pusher, forwarding, connected>>
        /\ forwarding => main'.at \in {"idle", "register", "complete"}
    BY <1>5, SendFacts DEF Send, client
  <2> QED
    BY <2>1 DEF Linked
<1>6. CASE Close
  <2>1. UNCHANGED connected /\ ~connected /\ pusher'.batch = {}
    BY <1>6 DEF Close, Waiting, Linked, client
  <2> QED
    BY <2>1 DEF Linked
<1>7. CASE Receive
  <2>1. /\ UNCHANGED <<main, forwarding, connected>>
        /\ pusher'.at \in {"recv", "execute"} /\ (pusher'.at = "recv" => pusher'.batch = {})
    BY <1>7, ReceiveFacts
  <2> QED
    BY <2>1 DEF Linked
<1>8. CASE Reexecute
  <2>1. UNCHANGED <<main, forwarding, connected>> /\ pusher'.at = "send"
    BY <1>8 DEF Reexecute, client
  <2> QED
    BY <2>1 DEF Linked
<1>9. CASE Push
  <2>1. /\ UNCHANGED <<main, forwarding, connected>>
        /\ pusher'.at \in {"recv", "execute"} /\ (pusher'.at = "recv" => pusher'.batch = {})
    BY <1>9, PushFacts
  <2> QED
    BY <2>1 DEF Linked
<1>10. CASE Forward
  <2>1. UNCHANGED <<main, pusher, connected>> /\ (connected => UNCHANGED forwarding)
    BY <1>10 DEF Forward, client
  <2> QED
    BY <2>1 DEF Linked
<1> QED
  BY <1>1, <1>2, <1>3, <1>4, <1>5, <1>6, <1>7, <1>8, <1>9, <1>10
  DEF Next, Client, Main, Invalidation

\* The writes behind the receiver are those it passed before and those it passes in this step.
LEMMA TakenFacts ==
  ASSUME LiveShape, NEW s \in Subs
  PROVE  /\ Taken(s) \subseteq Read(writes, s) /\ Taken(s) \subseteq Nat
         /\ \A i \in Taken(s) : i <= Latest(s)
<1>1. Taken(s) \subseteq Read(writes, s)
  BY DEF Taken, Read
<1>2. writes \in Seq(Topics) /\ Read(writes, s) \subseteq Nat
  BY DEF LiveShape, Read
<1> QED
  BY <1>1, <1>2, LastReadFacts, LatestIsLastRead

LEMMA TakenKept ==
  ASSUME LiveShape, NEW s \in Subs, UNCHANGED <<writes, events, taken>>
  PROVE  Taken(s)' = Taken(s)
  BY DEF Taken

\* What is on its way stays on its way while the channel only grows and the
\* invalidation task keeps, or has sent, its result.
LEMMA ReachesKept ==
  ASSUME LiveShape, NEW s \in Subs, NEW i, UNCHANGED shown, Reaches(s, i),
         DOMAIN out \subseteq DOMAIN out', \A n \in DOMAIN out : out'[n] = out[n],
         \/ Pushing(s) => Pushing(s)' /\ pusher'.data = pusher.data
         \/ \E n \in DOMAIN out' : IsNext(out'[n], s) /\ out'[n].data = pusher.data
  PROVE  Reaches(s, i)'
<1>1. CASE Pushing(s) /\ pusher.data >= i
  BY <1>1 DEF Reaches, IsNext
<1>2. CASE \E n \in DOMAIN out : IsNext(out[n], s) /\ out[n].data >= i
  <2>1. PICK n \in DOMAIN out : IsNext(out[n], s) /\ out[n].data >= i
    BY <1>2
  <2>2. n \in DOMAIN out' /\ out'[n] = out[n]
    BY <2>1
  <2>3. IsNext(out'[n], s)
    BY <2>1, <2>2
  <2>4. (\E k \in DOMAIN out : IsNext(out[k], s) /\ out[k].data >= i)'
    BY <2>1, <2>2, <2>3 DEF IsNext
  <2> QED
    BY <2>4 DEF Reaches
<1>3. CASE shown[s] >= i
  BY <1>3 DEF Reaches
<1> QED
  BY <1>1, <1>2, <1>3 DEF Reaches

\* A step that touches nothing of s but, perhaps, takes it out of the map.
LEMMA StillRemembered ==
  ASSUME LiveShape, NEW s \in Subs, RememberedFor(s),
         UNCHANGED <<shown, out>>, Taken(s)' = Taken(s),
         s \in active' => s \in active,
         s \in pusher.batch => s \in pusher'.batch,
         Pushing(s) => Pushing(s)' /\ pusher'.data = pusher.data,
         InWindow(s)' => UNCHANGED main
  PROVE  RememberedFor(s)'
<1>1. \A i : Reaches(s, i) => Reaches(s, i)'
  BY ReachesKept
<1>2. (s \in active => Covered(s))'
  BY <1>1 DEF RememberedFor, Covered
<1>3. WindowOK(s)'
  <2>1. InWindow(s)' => InWindow(s)
    BY DEF InWindow
  <2> QED
    BY <1>1, <2>1 DEF RememberedFor, WindowOK
<1> QED
  BY <1>2, <1>3 DEF RememberedFor

\* A message joins the channel: what was on its way still is, and so is the message.
LEMMA ReachesGrown ==
  ASSUME LiveShape, NEW s \in Subs, NEW i, UNCHANGED shown, NEW m \in Message,
         out' = Append(out, m),
         Pushing(s) => \/ Pushing(s)' /\ pusher'.data = pusher.data
                       \/ IsNext(m, s) /\ m.data = pusher.data
  PROVE  /\ Reaches(s, i) => Reaches(s, i)'
         /\ IsNext(m, s) /\ m.data >= i => Reaches(s, i)'
<1>1. /\ Len(out) \in Nat /\ DOMAIN out = 1..Len(out) /\ DOMAIN out' = 1..(Len(out) + 1)
      /\ out'[Len(out) + 1] = m /\ \A n \in DOMAIN out : out'[n] = out[n]
  BY ShapeOfParts
<1>2. DOMAIN out \subseteq DOMAIN out' /\ Len(out) + 1 \in DOMAIN out'
  BY <1>1
<1>3. IsNext(m, s) /\ m.data >= i => Reaches(s, i)'
  BY <1>1, <1>2 DEF Reaches, IsNext
<1>4. ASSUME Reaches(s, i) PROVE Reaches(s, i)'
  <2>1. CASE Pushing(s) => Pushing(s)' /\ pusher'.data = pusher.data
    BY <1>1, <1>2, <1>4, <2>1, ReachesKept
  <2>2. CASE IsNext(m, s) /\ m.data = pusher.data
    BY <1>1, <1>2, <1>4, <2>2, ReachesKept
  <2> QED
    BY <2>1, <2>2
<1> QED
  BY <1>3, <1>4

\* The client gets the next message: an id used once is shown nothing older.
LEMMA ReachesShown ==
  ASSUME LiveInv, NEW s \in Subs \ reused, NEW i \in Nat, Forward, connected, Reaches(s, i)
  PROVE  Reaches(s, i)'
<1>1. /\ out # <<>> /\ out' = Tail(out) /\ UNCHANGED <<pusher, reused>>
      /\ shown' = IF Head(out).type = "next" THEN [shown EXCEPT ![Head(out).id] = Head(out).data]
                  ELSE shown
  BY DEF Forward, history
<1>2. /\ LiveShape /\ shown \in [Subs -> Nat] /\ shown[s] \in Nat
      /\ \A n \in DOMAIN out : out[n].data \in Nat
  BY OrderFacts DEF LiveInv, LiveShape
<1>3. /\ Len(out) \in Nat /\ DOMAIN out = 1..Len(out) /\ 1 \in DOMAIN out /\ Head(out) = out[1]
      /\ DOMAIN out' = 1..(Len(out) - 1)
      /\ \A n \in DOMAIN out' : n \in Nat /\ n + 1 \in DOMAIN out /\ out'[n] = out[n + 1]
  BY <1>1, <1>2, ShapeOfParts
<1>4. shown'[s] = IF IsNext(out[1], s) THEN out[1].data ELSE shown[s]
  BY <1>1, <1>2, <1>3 DEF IsNext
<1>5. shown'[s] \in Nat /\ shown'[s] >= shown[s]
  <2>1. InOrder(s)
    BY DEF LiveInv, OrderOK
  <2>2. IsNext(out[1], s) => shown[s] <= out[1].data
    BY <1>3, <2>1 DEF InOrder
  <2> QED
    BY <1>2, <1>3, <1>4, <2>2
<1>6. CASE shown[s] >= i
  BY <1>2, <1>5, <1>6 DEF Reaches
<1>7. CASE Pushing(s) /\ pusher.data >= i
  BY <1>1, <1>7 DEF Reaches, Pushing
<1>8. CASE \E n \in DOMAIN out : IsNext(out[n], s) /\ out[n].data >= i
  <2>1. PICK n \in DOMAIN out : IsNext(out[n], s) /\ out[n].data >= i
    BY <1>8
  <2>2. CASE n = 1
    BY <1>4, <2>1, <2>2 DEF Reaches
  <2>3. CASE n # 1
    <3>1. n - 1 \in DOMAIN out' /\ out'[n - 1] = out[n]
      BY <1>3, <2>1, <2>3
    <3> DEFINE k == n - 1
    <3>2. k \in DOMAIN out' /\ out'[k] = out[n]
      BY <3>1
    <3> HIDE DEF k
    <3>3. (\E x \in DOMAIN out : IsNext(out[x], s) /\ out[x].data >= i)'
      BY <2>1, <3>2 DEF IsNext
    <3> QED
      BY <3>3 DEF Reaches
  <2> QED
    BY <2>2, <2>3
<1> QED
  BY <1>6, <1>7, <1>8 DEF Reaches

LEMMA RememberedStays == LiveInv /\ Linked /\ Remembered /\ [Next]_vars => Remembered'
<1> SUFFICES ASSUME LiveInv, Linked, Remembered, [Next]_vars, connected',
                    NEW s \in Subs, s \notin (missed \cup reused)'
             PROVE  RememberedFor(s)'
  BY DEF Remembered
<1>0. /\ LiveShape /\ connected
      /\ forwarding /\ main.at \notin {"leaving", "closed"} /\ pusher.at # "aborted"
  <2>1. connected' => connected
    BY DEF Next, Client, Main, Invalidation, vars, client, Commit, Publish, ConnectionInit, Subscribe,
           Complete, Hangup, Execute, Send, Register, Close, Receive, Lagged, Reexecute, Push, Forward
  <2> QED
    BY <2>1 DEF LiveInv, Linked
<1>a. s \notin missed \cup reused => RememberedFor(s)
  BY <1>0 DEF Remembered
<1>1. CASE Commit
  <2>1. PICK t \in Topics : writes' = Append(writes, t)
    BY <1>1 DEF Commit
  <2>2. UNCHANGED <<events, taken, active, main, pusher, out, shown, reused, missed>>
    BY <1>1 DEF Commit, history
  <2>3. /\ \A i \in DOMAIN writes : i \in DOMAIN writes' /\ writes'[i] = writes[i]
        /\ \A j \in 1..taken : events[j] \in DOMAIN writes
    <3>1. /\ writes \in Seq(Topics) /\ events \in Seq(Nat) /\ taken \in 0..Len(events)
          /\ \A j \in DOMAIN events : events[j] \in DOMAIN writes
      BY <1>0 DEF LiveShape
    <3>2. 1..taken \subseteq DOMAIN events
      BY <3>1
    <3>3. \A i \in DOMAIN writes : i \in DOMAIN writes' /\ writes'[i] = writes[i]
      BY <2>1, <3>1
    <3> QED
      BY <3>1, <3>2, <3>3
  <2>4. Taken(s)' = Taken(s)
    BY <2>2, <2>3 DEF Taken
  <2>5. UNCHANGED <<shown, out>> /\ (Pushing(s) => Pushing(s)' /\ pusher'.data = pusher.data)
    BY <2>2 DEF Pushing
  <2> QED
    BY <1>0, <1>a, <2>2, <2>4, <2>5, StillRemembered
<1>2. CASE Publish
  <2>1. PICK i \in DOMAIN writes : events' = Append(events, i)
    BY <1>2 DEF Publish
  <2>2. UNCHANGED <<writes, taken, active, main, pusher, out, shown, reused, missed>>
    BY <1>2 DEF Publish, history
  <2>3. \A j \in 1..taken : events'[j] = events[j]
    BY <1>0, <2>1 DEF LiveShape
  <2>4. Taken(s)' = Taken(s)
    BY <2>2, <2>3 DEF Taken
  <2>5. Pushing(s) => Pushing(s)' /\ pusher'.data = pusher.data
    BY <2>2 DEF Pushing
  <2> QED
    BY <1>0, <1>a, <2>2, <2>4, <2>5, StillRemembered
<1>3. CASE UNCHANGED vars \/ Hangup \/ Complete
  <2>1. /\ active' \subseteq active
        /\ UNCHANGED <<writes, events, taken, main, pusher, out, shown, reused, missed>>
    BY <1>3 DEF vars, Hangup, Complete, store, history
  <2>2. Taken(s)' = Taken(s) /\ (Pushing(s) => Pushing(s)' /\ pusher'.data = pusher.data)
    BY <1>0, <2>1, TakenKept DEF Pushing
  <2> QED
    BY <1>0, <1>a, <2>1, <2>2, StillRemembered
<1>4. CASE ConnectionInit \/ Subscribe
  <2>1. /\ main'.at \notin {"next", "register"} /\ reused \subseteq reused'
        /\ UNCHANGED <<writes, events, taken, active, pusher, out, shown, missed>>
    <3>1. CASE ConnectionInit
      BY <1>0, <3>1, ShapeOfParts DEF ConnectionInit, store, history
    <3>2. CASE Subscribe
      BY <1>0, <3>2, SubscribeFacts
    <3> QED
      BY <1>4, <3>1, <3>2
  <2>2. Taken(s)' = Taken(s) /\ (Pushing(s) => Pushing(s)' /\ pusher'.data = pusher.data)
    BY <1>0, <2>1, TakenKept DEF Pushing
  <2>3. ~InWindow(s)'
    BY <2>1 DEF InWindow
  <2> QED
    BY <1>0, <1>a, <2>1, <2>2, <2>3, StillRemembered
<1>5. CASE Execute
  <2>1. /\ main'.at = "next" /\ main'.id = main.id /\ main'.data = Latest(main.id)
        /\ UNCHANGED <<writes, events, taken, active, pusher, out, shown, reused, missed>>
    BY <1>0, <1>5, ExecuteFacts
  <2>2. RememberedFor(s)
    BY <1>a, <2>1
  <2>3. Taken(s)' = Taken(s) /\ (Pushing(s) => Pushing(s)' /\ pusher'.data = pusher.data)
    BY <1>0, <2>1, TakenKept DEF Pushing
  <2>4. CASE main.id = s
    <3>1. (s \in active => Covered(s))'
      <4>1. \A i : Reaches(s, i) => Reaches(s, i)'
        BY <1>0, <2>1, <2>3, ReachesKept
      <4> QED
        BY <2>1, <2>2, <2>3, <4>1 DEF RememberedFor, Covered
    <3>2. WindowOK(s)'
      BY <1>0, <2>1, <2>3, <2>4, TakenFacts DEF WindowOK
    <3> QED
      BY <3>1, <3>2 DEF RememberedFor
  <2>5. CASE main.id # s
    <3>1. ~InWindow(s)'
      BY <2>1, <2>5 DEF InWindow
    <3> QED
      BY <1>0, <2>1, <2>2, <2>3, <3>1, StillRemembered
  <2> QED
    BY <2>4, <2>5
<1>6. CASE Send
  <2> DEFINE m == [type |-> main.at, id |-> main.id, data |-> main.data]
  <2>1. /\ out' = Append(out, m)
        /\ main'.at \in {"idle", "register", "complete"}
        /\ main'.at = "register" => /\ main.at = "next" /\ main'.id = main.id
                                    /\ main'.data = main.data
        /\ main.at \in {"connection_ack", "error", "next", "complete"}
        /\ UNCHANGED <<writes, events, taken, active, pusher, shown, reused, missed>>
    BY <1>0, <1>6, SendFacts
  <2>2. m \in Message /\ m.data = main.data /\ (IsNext(m, s) <=> main.at = "next" /\ main.id = s)
    BY <1>0, <2>1, ShapeOfParts DEF Message, IsNext
  <2> HIDE DEF m
  <2>3. RememberedFor(s)
    BY <1>a, <2>1
  <2>4. Taken(s)' = Taken(s) /\ (Pushing(s) => Pushing(s)' /\ pusher'.data = pusher.data)
    BY <1>0, <2>1, TakenKept DEF Pushing
  <2>5. \A i : (Reaches(s, i) => Reaches(s, i)') /\ (IsNext(m, s) /\ m.data >= i => Reaches(s, i)')
    BY <1>0, <2>1, <2>2, <2>4, ReachesGrown
  <2>6. (s \in active => Covered(s))'
    BY <2>1, <2>3, <2>4, <2>5 DEF RememberedFor, Covered
  <2>7. WindowOK(s)'
    <3>1. SUFFICES ASSUME InWindow(s)'
                   PROVE  (\A i \in Taken(s) : i <= main.data)' /\ Reaches(s, main.data)'
      BY DEF WindowOK
    <3>2. main.at = "next" /\ main.id = s /\ main'.data = main.data
      BY <2>1, <3>1 DEF InWindow
    <3>3. main.data >= main.data
      BY <1>0, OrderFacts
    <3>4. Reaches(s, main.data)'
      BY <2>2, <2>5, <3>2, <3>3
    <3>5. \A i \in Taken(s) : i <= main.data
      BY <2>3, <3>2 DEF RememberedFor, WindowOK, InWindow
    <3> QED
      BY <2>4, <3>2, <3>4, <3>5
  <2> QED
    BY <2>6, <2>7 DEF RememberedFor
<1>7. CASE Register
  <2>1. /\ main.at = "register" /\ active' = active \cup {main.id} /\ main'.at = "idle"
        /\ UNCHANGED <<writes, events, taken, pusher, out, shown, reused, missed>>
    BY <1>7 DEF Register, Idle, store, history
  <2>2. RememberedFor(s)
    BY <1>a, <2>1
  <2>3. Taken(s)' = Taken(s) /\ (Pushing(s) => Pushing(s)' /\ pusher'.data = pusher.data)
    BY <1>0, <2>1, TakenKept DEF Pushing
  <2>4. ~InWindow(s)'
    BY <2>1 DEF InWindow
  <2>5. CASE s # main.id \/ s \in active
    BY <1>0, <2>1, <2>2, <2>3, <2>4, <2>5, StillRemembered
  <2>6. CASE s = main.id
    <3>1. Reaches(s, main.data) /\ \A i \in Taken(s) : i <= main.data
      BY <2>1, <2>2, <2>6 DEF RememberedFor, WindowOK, InWindow
    <3>2. /\ shown[s] \in Nat /\ main.data \in Nat /\ pusher.data \in Nat /\ Taken(s) \subseteq Nat
          /\ \A n \in DOMAIN out : out[n].data \in Nat
      BY <1>0, OrderFacts, TakenFacts
    <3>3. \A i \in Taken(s) : Reaches(s, i)
      BY <3>1, <3>2 DEF Reaches
    <3>4. \A i \in Taken(s) : Reaches(s, i)'
      BY <1>0, <2>1, <2>3, <3>3, ReachesKept
    <3> QED
      BY <2>3, <2>4, <3>4 DEF RememberedFor, Covered, WindowOK
  <2> QED
    BY <2>5, <2>6
<1>8. CASE Close
  BY <1>0, <1>8 DEF Close
<1>9. CASE Receive
  <2> DEFINE i == events[taken + 1]
             matching == {r \in active : writes[i] \in Watches[r]}
  <2>1. /\ pusher.at = "recv" /\ taken + 1 \in DOMAIN events /\ i \in DOMAIN writes
        /\ pusher'.at \in {"recv", "execute"} /\ pusher'.batch = matching
        /\ missed' = missed \cup Overlooked(i) /\ taken' = taken + 1
        /\ UNCHANGED <<writes, events, active, main, out, shown, reused>>
    BY <1>0, <1>9, ReceiveFacts
  <2>2. RememberedFor(s) /\ s \notin Overlooked(i)
    BY <1>a, <2>1
  <2>3. i \in Nat /\ taken \in Nat /\ pusher.batch = {} /\ main.data \in Nat
    BY <1>0, <2>1, OrderFacts DEF LiveShape, Linked
  <2>4. Taken(s)' = IF writes[i] \in Watches[s] THEN Taken(s) \cup {i} ELSE Taken(s)
    <3>1. 1..(taken + 1) = (1..taken) \cup {taken + 1}
      BY <2>3
    <3>2. \A k \in DOMAIN writes :
            (\E j \in 1..(taken + 1) : events[j] = k) <=> (\E j \in 1..taken : events[j] = k) \/ k = i
      BY <3>1
    <3>3. Taken(s)' = {k \in DOMAIN writes : writes[k] \in Watches[s] /\
                         ((\E j \in 1..taken : events[j] = k) \/ k = i)}
      BY <2>1, <3>2 DEF Taken
    <3> QED
      BY <2>1, <3>3 DEF Taken
  <2> HIDE DEF i
  <2>5. \A k : Reaches(s, k) => Reaches(s, k)'
    <3>1. ~Pushing(s)
      BY <2>1 DEF Pushing
    <3> QED
      BY <1>0, <2>1, <3>1, ReachesKept
  <2>6. (s \in active => Covered(s))'
    <3>1. SUFFICES ASSUME s \in active, s \notin matching PROVE Covered(s)'
      BY <2>1 DEF Covered
    <3>2. Taken(s)' = Taken(s)
      BY <2>4, <3>1
    <3>3. \A k \in Taken(s) : Reaches(s, k)
      BY <2>2, <2>3, <3>1 DEF RememberedFor, Covered
    <3> QED
      BY <2>5, <3>2, <3>3 DEF Covered
  <2>7. WindowOK(s)'
    <3>1. SUFFICES ASSUME InWindow(s)
                   PROVE  /\ (\A k \in Taken(s) : k <= main.data)'
                          /\ (main.at = "register" => Reaches(s, main.data))'
      BY <2>1 DEF WindowOK, InWindow
    <3>2. writes[i] \in Watches[s] => i <= main.data
      BY <2>2, <2>3, <3>1 DEF Overlooked, InWindow
    <3>3. /\ \A k \in Taken(s) : k <= main.data
          /\ main.at = "register" => Reaches(s, main.data)
      BY <2>2, <3>1 DEF RememberedFor, WindowOK
    <3> QED
      BY <2>1, <2>4, <2>5, <3>2, <3>3
  <2> QED
    BY <2>6, <2>7 DEF RememberedFor
<1>10. CASE Lagged
  <2>1. /\ pusher.at = "recv" /\ Len(events) - taken > Buffer /\ taken' = Len(events) - Buffer
        /\ missed' = missed \cup {r \in Subs :
                        \E j \in (taken + 1)..taken' : writes[events[j]] \in Watches[r]}
        /\ UNCHANGED <<writes, events, active, main, pusher, out, shown, reused>>
    BY <1>10 DEF Lagged, store, client
  <2>2. RememberedFor(s) /\ \A j \in (taken + 1)..taken' : writes[events[j]] \notin Watches[s]
    BY <1>a, <2>1
  <2>3. taken \in Nat /\ taken' \in Nat /\ taken <= taken'
    <3>1. taken \in 0..Len(events) /\ Len(events) \in Nat
      BY <1>0 DEF LiveShape
    <3>2. Len(events) - taken > Buffer /\ taken' = Len(events) - Buffer
      BY <2>1
    <3> QED
      BY ONLY <3>1, <3>2, LiveConstants
  <2>4. \A j \in 1..taken' : j \in 1..taken \/ j \in (taken + 1)..taken'
    BY <2>3
  <2>5. Taken(s)' = Taken(s)
    <3>1. Taken(s)' = {k \in DOMAIN writes : writes[k] \in Watches[s] /\ \E j \in 1..taken' : events[j] = k}
      BY <2>1 DEF Taken
    <3>2. \A k : writes[k] \in Watches[s] =>
            ((\E j \in 1..taken' : events[j] = k) <=> (\E j \in 1..taken : events[j] = k))
      <4>1. 1..taken \subseteq 1..taken'
        BY <2>3
      <4> QED
        BY <2>2, <2>4, <4>1
    <3> QED
      BY <3>1, <3>2 DEF Taken
  <2>6. Pushing(s) => Pushing(s)' /\ pusher'.data = pusher.data
    BY <2>1 DEF Pushing
  <2> QED
    BY <1>0, <2>1, <2>2, <2>5, <2>6, StillRemembered
<1>11. CASE Reexecute
  <2>1. PICK t \in pusher.batch :
          /\ pusher' = [at |-> "send", batch |-> pusher.batch \ {t}, id |-> t, data |-> Latest(t)]
          /\ missed' = IF main.at \in {"next", "register"} /\ main.id = t THEN missed ELSE missed \ {t}
    BY <1>11 DEF Reexecute
  <2>2. UNCHANGED <<writes, events, taken, active, main, out, shown, reused>> /\ pusher.at = "execute"
    BY <1>11 DEF Reexecute, store, client
  <2>3. pusher'.at = "send" /\ pusher'.batch = pusher.batch \ {t} /\ pusher'.id = t /\ pusher'.data = Latest(t)
    BY <2>1
  <2>4. Taken(s)' = Taken(s) /\ ~Pushing(s)
    BY <1>0, <2>2, TakenKept DEF Pushing
  <2>5. \A i : Reaches(s, i) => Reaches(s, i)'
    BY <1>0, <2>2, <2>4, ReachesKept
  <2>6. CASE t = s
    <3>1. \A i \in Taken(s) : i <= Latest(s) /\ i \in Nat /\ Latest(s) \in Nat
      BY <1>0, TakenFacts, OrderFacts
    <3>2. \A i \in Taken(s) : Reaches(s, i)'
      BY <2>3, <2>6, <3>1 DEF Reaches, Pushing
    <3>3. WindowOK(s)'
      <4>1. CASE InWindow(s)
        <5>1. RememberedFor(s)
          BY <1>a, <2>1, <2>2, <2>6, <4>1 DEF InWindow
        <5> QED
          BY <2>2, <2>4, <2>5, <5>1 DEF RememberedFor, WindowOK, InWindow
      <4>2. CASE ~InWindow(s)
        BY <2>2, <4>2 DEF WindowOK, InWindow
      <4> QED
        BY <4>1, <4>2
    <3> QED
      BY <2>4, <3>2, <3>3 DEF RememberedFor, Covered
  <2>7. CASE t # s
    <3>1. RememberedFor(s)
      BY <1>a, <2>1, <2>2, <2>7
    <3>2. (s \in active => Covered(s))'
      BY <2>2, <2>3, <2>4, <2>5, <2>7, <3>1 DEF RememberedFor, Covered
    <3>3. WindowOK(s)'
      BY <2>2, <2>4, <2>5, <3>1 DEF RememberedFor, WindowOK, InWindow
    <3> QED
      BY <3>2, <3>3 DEF RememberedFor
  <2> QED
    BY <2>6, <2>7
<1>12. CASE Push
  <2> DEFINE m == [type |-> "next", id |-> pusher.id, data |-> pusher.data]
  <2>1. /\ out' = Append(out, m) /\ pusher'.batch = pusher.batch /\ pusher.at = "send"
        /\ UNCHANGED <<writes, events, taken, active, main, shown, reused, missed>>
    BY <1>0, <1>12, PushFacts
  <2>2. m \in Message /\ m.data = pusher.data /\ (Pushing(s) => IsNext(m, s))
    BY <1>0, <2>1, ShapeOfParts DEF Message, IsNext, Pushing
  <2> HIDE DEF m
  <2>3. RememberedFor(s) /\ Taken(s)' = Taken(s)
    BY <1>0, <1>a, <2>1, TakenKept
  <2>4. \A i : Reaches(s, i) => Reaches(s, i)'
    BY <1>0, <2>1, <2>2, ReachesGrown
  <2>5. (s \in active => Covered(s))'
    BY <2>1, <2>3, <2>4 DEF RememberedFor, Covered
  <2>6. WindowOK(s)'
    BY <2>1, <2>3, <2>4 DEF RememberedFor, WindowOK, InWindow
  <2> QED
    BY <2>5, <2>6 DEF RememberedFor
<1>13. CASE Forward
  <2>1. UNCHANGED <<writes, events, taken, active, main, pusher, reused, missed>>
    BY <1>13 DEF Forward, store, history
  <2>2. RememberedFor(s) /\ Taken(s)' = Taken(s) /\ Taken(s) \subseteq Nat /\ main.data \in Nat
    BY <1>0, <1>a, <2>1, TakenKept, TakenFacts, OrderFacts
  <2>3. s \in Subs \ reused
    BY <2>1
  <2>4. \A i \in Nat : Reaches(s, i) => Reaches(s, i)'
    BY <1>0, <1>13, <2>3, ReachesShown
  <2>5. (s \in active => Covered(s))'
    BY <2>1, <2>2, <2>4 DEF RememberedFor, Covered
  <2>6. WindowOK(s)'
    BY <2>1, <2>2, <2>4 DEF RememberedFor, WindowOK, InWindow
  <2> QED
    BY <2>5, <2>6 DEF RememberedFor
<1> QED
  BY <1>1, <1>2, <1>3, <1>4, <1>5, <1>6, <1>7, <1>8, <1>9, <1>10, <1>11, <1>12, <1>13, Zenon
  DEF Next, Client, Main, Invalidation

LEMMA LiveInvMoreHolds == Spec => []LiveInvMore
<1>1. Init => LiveInvMore
  <2> SUFFICES ASSUME Init PROVE Linked /\ Remembered
    BY LiveHoldsFirst DEF LiveInvMore
  <2>1. /\ main.at = "idle" /\ pusher.at = "recv" /\ pusher.batch = {} /\ forwarding = TRUE
        /\ active = {}
    BY DEF Init, Idle, Waiting
  <2> QED
    BY <2>1 DEF Linked, Remembered, RememberedFor, WindowOK, InWindow
<1>2. LiveInvMore /\ [Next]_vars => LiveInvMore'
  BY LiveInvStays, LinkedStays, RememberedStays DEF LiveInvMore, LiveInv
<1> QED
  BY <1>1, <1>2, PTL DEF Spec

\* However the receiver, the main loop and the forward task interleave, a write whose event
\* this connection's receiver has passed is either shown by the client of every live
\* subscription that reads it, or on its way there, or the id is among those the code may
\* leave behind: skipped by a lagging receiver, matched before the registration, used before.
THEOREM NothingIsForgotten == Spec => []Remembered
<1>1. LiveInvMore => Remembered
  BY DEF LiveInvMore
<1> QED
  BY <1>1, LiveInvMoreHolds, PTL

\* The safety core of UpdatesArrive: whenever every write is published and the tasks have
\* nothing left to do, a live subscription, but for those exceptions, shows the last write its
\* query reads.  What fairness adds is only that this state is reached.
THEOREM QuietShowsLatest == Spec => []Quiet
<1>1. LiveInvMore => Quiet
  <2> SUFFICES ASSUME LiveInvMore, connected, Settled, NEW s \in active \ (missed \cup reused)
               PROVE  shown[s] = Latest(s)
    BY DEF Quiet
  <2>1. LiveShape /\ s \in Subs /\ writes \in Seq(Topics) /\ pusher.batch = {} /\ ~Pushing(s)
    BY DEF LiveInvMore, LiveInv, LiveShape, Linked, Settled, Pushing
  <2>2. shown[s] \in Nat /\ Latest(s) \in Nat /\ DOMAIN out = {}
    BY <2>1, OrderFacts DEF Settled
  <2>3. shown[s] <= Latest(s)
    BY <2>1 DEF LiveInvMore, LiveInv, OrderOK, InOrder
  <2>4. \A i \in Taken(s) : shown[s] >= i
    BY <2>1, <2>2 DEF LiveInvMore, Remembered, RememberedFor, Covered, Reaches
  <2>5. Taken(s) = Read(writes, s)
    <3>1. DOMAIN events = 1..taken
      BY <2>1 DEF LiveShape, Settled
    <3> QED
      BY <3>1 DEF Taken, Read, Settled
  <2>6. CASE Latest(s) = 0
    BY <2>2, <2>3, <2>6
  <2>7. CASE Latest(s) # 0
    <3>1. Latest(s) \in Taken(s)
      BY <2>1, <2>5, <2>7, LatestIsLastRead, LastReadFacts
    <3> QED
      BY <2>2, <2>3, <2>4, <3>1
  <2> QED
    BY <2>6, <2>7
<1> QED
  BY <1>1, LiveInvMoreHolds, PTL
=============================================================================
