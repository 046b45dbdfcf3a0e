----------------------- MODULE RouterSubscriptionsProofs -----------------------
(***************************************************************************)
(* The router's subscriptions for any number of streams, ids, subgraphs and *)
(* events, and any limits and capacities.                                   *)
(*                                                                          *)
(* Counted ties the permits and the two gauges to the handlers and upstream *)
(* tasks that hold them.  OneSource is why the client sees a well-formed    *)
(* stream: as long as an id is not used again before its end, at most one   *)
(* handler, query or refusal can still send for it, an end is the last of its*)
(* messages, and what it waits for is spread over two channels (JsonOrdered)*)
(* that keep their order.  EndsOnTheWay says where the end of a handler that*)
(* has returned is until the client has it.                                 *)
(***************************************************************************)
EXTENDS RouterSubscriptions, FiniteSetTheorems, TLAPS

HandlerSteps == {"none", "spawned", "error", "relay", "deliver", "complete", "returned", "done",
                 "aborted"}
UpstreamSteps == {"none", "spawned", "handshake", "streaming", "ended"}
Messages == {"next", "error", "complete"}
Ends == {"error", "complete"}
Working == {"spawned", "error", "relay", "deliver", "complete"}

EngineShape ==
    /\ handler \in [Streams -> [at : HandlerSteps, msg : Messages \cup {"none"}]]
    /\ upstream \in [Streams -> [Subgraphs -> UpstreamSteps]]
    /\ merged \in [Streams -> Seq(Messages)]
    /\ json \in [Streams -> Seq(Messages)]
    /\ relay \in [Streams -> {"none", "running", "ended", "aborted"}]
    /\ cancel \in [Streams -> {"open", "signalled", "dropped"}]
    /\ \A s \in Streams : Len(json[s]) <= JsonCapacity /\ Len(merged[s]) <= MergedCapacity
    /\ permits \in Nat /\ active \in Nat /\ connections \in Nat /\ produced \in 0..MaxEvents

Serving == {s \in Streams : handler[s].at \in {"error", "relay", "deliver", "complete"}}
Linked == {p \in Streams \X Subgraphs : upstream[p[1]][p[2]] \in {"handshake", "streaming"}}
Taken == {p \in Streams \X Subgraphs : MergedOpen(p[1]) /\ upstream[p[1]][p[2]] # "none"}

Counted ==
    /\ active >= Cardinality(Serving)
    /\ connections >= Cardinality(Linked)
    /\ permits = MaxUpstreams - Cardinality(Taken)
    /\ \A s \in Streams, g \in Subgraphs :
         /\ handler[s].at \in {"none", "spawned"} => upstream[s][g] = "none"
         /\ handler[s].at \in {"error", "returned", "done"} => upstream[s][g] \in {"none", "ended"}

SocketShape ==
    /\ entry \in [Ids -> Streams \cup {0}]
    /\ stream \in [Streams -> {NoStream} \cup [id : Ids, fields : SUBSET Fields]]
    /\ query \in [Ids -> {"none", "reading", "next", "complete", "error", "done"}]
    /\ main \in [at : {"receive", "connection_ack", "error", "abort", "clean", "leaving", "closed"},
                 id : Ids \cup {"none"}, s : Streams \cup {0}]
    /\ main.at = "error" => main.id \in Ids
    /\ main.at \in {"abort", "clean"} => main.s \in Streams /\ handler[main.s].at # "none"
    /\ \A i \in Ids : entry[i] # 0 => handler[entry[i]].at # "none"
    /\ out \in Seq([type : Messages \cup {"connection_ack"}, id : Ids \cup {"none"}])
    /\ Len(out) <= OutCapacity
    /\ \A k \in DOMAIN out : out[k].type \in Messages => out[k].id \in Ids
    /\ phase \in [Ids -> {"unused", "open", "ended", "reused"}]
    /\ items \in [Ids -> Nat]
    /\ untold \subseteq Streams
    /\ again \subseteq Ids
    /\ \A s \in Streams : stream[s] = NoStream <=> handler[s].at = "none"
    /\ \A s \in Streams : handler[s].at = "none" => relay[s] = "none" /\ json[s] = <<>>
    /\ forwarding \in BOOLEAN

\* What may still send messages for an operation id: a stream, a query, or a refusal.
StreamSends(s) == relay[s] = "running" /\ (json[s] # <<>> \/ handler[s].at \in Working)
QuerySends(i) == query[i] \in {"reading", "next", "complete", "error"}
MainSends(i) == main.at = "error" /\ main.id = i
Live(i) == MainSends(i) \/ QuerySends(i) \/ \E s \in Streams : stream[s].id = i /\ StreamSends(s)
EndInOut(i) == \E k \in DOMAIN out : out[k].id = i /\ out[k].type \in Ends
InOut(i) == \E k \in DOMAIN out : out[k].id = i /\ out[k].type \in Messages

\* What a relay has yet to pass on ends with its only end, sent when the handler is over.
JsonOrdered ==
    \A s \in Streams :
        /\ \A k, l \in DOMAIN json[s] : k < l => json[s][k] = "next"
        /\ handler[s].at \notin {"returned", "done"} =>
             \A k \in DOMAIN json[s] : json[s][k] = "next"

\* As long as an id is not used before its end, one source at a time sends for it, and
\* nothing follows an end.
OneSource ==
    \A i \in Ids : phase[i] # "reused" =>
        /\ \A s, r \in Streams :
              (stream[s].id = i /\ stream[r].id = i /\ StreamSends(s) /\ StreamSends(r)) => s = r
        /\ ~ (MainSends(i) /\ QuerySends(i))
        /\ \A s \in Streams : stream[s].id = i /\ StreamSends(s) => ~MainSends(i) /\ ~QuerySends(i)
        /\ \A k, l \in DOMAIN out :
              (k < l /\ out[k].id = i /\ out[l].id = i /\ out[l].type \in Messages)
                  => out[k].type \notin Ends
        /\ EndInOut(i) => ~Live(i)
        /\ phase[i] # "open" => ~Live(i) /\ ~InOut(i)

PromiseInv == SocketShape /\ JsonOrdered /\ OneSource

Told(i) == phase[i] = "ended" \/ EndInOut(i)

EndsOnTheWay ==
    /\ \A i \in Ids : phase[i] = "reused" => i \in again
    /\ forwarding => \A s \in Streams :
         /\ handler[s].at \in Working \cup {"returned"} => relay[s] = "running"
         /\ LET i == stream[s].id
            IN  stream[s] # NoStream /\ i \notin again =>
                /\ phase[i] # "unused"
                /\ handler[s].at = "returned" =>
                      Told(i) \/ \E k \in DOMAIN json[s] : json[s][k] \in Ends
                /\ handler[s].at = "done" => Told(i) \/ s \in untold

LEMMA Constants ==
  /\ MaxStreams \in Nat /\ MaxEvents \in Nat /\ MaxUpstreams \in Nat
  /\ MergedCapacity \in Nat /\ JsonCapacity \in Nat /\ OutCapacity \in Nat
  /\ MergedCapacity > 0 /\ JsonCapacity > 0 /\ OutCapacity > 0
<1>1. {MergedCapacity, JsonCapacity} \subseteq Nat \ {0} /\ {Limit, OutCapacity} \subseteq Nat \ {0}
  BY FederationAssumption, SocketAssumption, Zenon DEF FederationAssumption, SocketAssumption
<1>2. MergedCapacity \in Nat \ {0} /\ JsonCapacity \in Nat \ {0} /\ OutCapacity \in Nat \ {0}
  BY <1>1
<1>3. MaxStreams \in Nat /\ MaxEvents \in Nat /\ MaxUpstreams \in Nat
  BY FederationAssumption, Zenon DEF FederationAssumption
<1> QED
  BY <1>2, <1>3

Pairs == Streams \X Subgraphs

LEMMA FiniteCounts ==
  /\ \A S \in SUBSET Streams : IsFiniteSet(S) /\ Cardinality(S) \in Nat
  /\ \A P \in SUBSET Pairs : IsFiniteSet(P) /\ Cardinality(P) \in Nat
  /\ \A G \in SUBSET Subgraphs : IsFiniteSet(G) /\ Cardinality(G) \in Nat
<1>1. IsFiniteSet(Streams) /\ IsFiniteSet(Subgraphs)
  BY Constants, FS_Interval, FederationAssumption DEF Streams, FederationAssumption
<1>2. IsFiniteSet(Pairs)
  BY <1>1, FS_Product DEF Pairs
<1> QED
  BY <1>1, <1>2, FS_Subset, FS_CardinalityType

LEMMA CountsAreNat ==
  /\ Cardinality(Serving) \in Nat /\ Cardinality(Linked) \in Nat /\ Cardinality(Taken) \in Nat
  /\ \A G \in SUBSET Subgraphs : Cardinality(G) \in Nat
<1>1. Serving \in SUBSET Streams /\ Linked \in SUBSET Pairs /\ Taken \in SUBSET Pairs
  BY DEF Serving, Linked, Taken, Pairs
<1> QED
  BY <1>1, FiniteCounts

LEMMA Beside ==
  ASSUME NEW s \in Streams, NEW G \in SUBSET Subgraphs
  PROVE  /\ {s} \X G \in SUBSET Pairs
         /\ Cardinality({s} \X G) = Cardinality(G)
<1>1. IsFiniteSet(G) /\ IsFiniteSet({s}) /\ Cardinality({s}) = 1 /\ Cardinality(G) \in Nat
  BY FiniteCounts, FS_Singleton
<1>2. Cardinality({s} \X G) = Cardinality({s}) * Cardinality(G)
  BY <1>1, FS_Product
<1> QED
  BY <1>1, <1>2 DEF Pairs

LEMMA Disjoint ==
  ASSUME NEW P \in SUBSET Pairs, NEW R \in SUBSET Pairs, P \cap R = {}
  PROVE  Cardinality(P \cup R) = Cardinality(P) + Cardinality(R)
<1>1. Cardinality(P \cup R) = Cardinality(P) + Cardinality(R) - Cardinality(P \cap R)
  BY FiniteCounts, FS_Union
<1> QED
  BY <1>1, FiniteCounts, FS_EmptySet

LEMMA Without ==
  ASSUME NEW P \in SUBSET Pairs, NEW R \in SUBSET Pairs, R \subseteq P
  PROVE  Cardinality(P \ R) = Cardinality(P) - Cardinality(R)
<1>1. P \ R \in SUBSET Pairs /\ (P \ R) \cap R = {} /\ (P \ R) \cup R = P
  OBVIOUS
<1>2. Cardinality(P) = Cardinality(P \ R) + Cardinality(R)
  BY <1>1, Disjoint
<1> QED
  BY <1>1, <1>2, FiniteCounts

\* Every subgraph a routable subscription goes to is configured.
LEMMA RouteIsConfigured ==
  ASSUME NEW fields, Routable(fields)
  PROVE  Route(fields) \in SUBSET Subgraphs
  BY DEF Routable, Route

EngineInv == EngineShape /\ Counted

LEMMA EngineHoldsFirst == EngineInit => EngineInv
<1> SUFFICES ASSUME EngineInit PROVE EngineInv
  OBVIOUS
<1>1. EngineShape
  BY Constants DEF EngineInit, EngineShape, HandlerSteps, UpstreamSteps, Messages, At
<1>2. Serving = {} /\ Linked = {} /\ Taken = {}
  BY DEF EngineInit, Serving, Linked, Taken, MergedOpen, At
<1>3. Cardinality({}) = 0
  BY FS_EmptySet
<1> QED
  BY Constants, <1>1, <1>2, <1>3 DEF EngineInit, Counted, EngineInv, At

\* What the steps of one handler may do to the counts without the counters moving.
LEMMA SameCounts ==
  ASSUME EngineInv, UNCHANGED <<upstream, permits, active, connections>>, EngineShape',
         \A s \in Streams :
             \/ handler'[s].at = handler[s].at
             \/ handler[s].at = "none" /\ handler'[s].at = "spawned"
             \/ handler[s].at = "returned" /\ handler'[s].at = "done"
             \/ {handler[s].at, handler'[s].at} \subseteq {"relay", "deliver", "complete"}
  PROVE  EngineInv'
<1>1. Serving' = Serving /\ Linked' = Linked /\ Taken' = Taken
  BY DEF Serving, Linked, Taken, MergedOpen
<1> QED
  BY <1>1 DEF EngineInv, Counted

LEMMA SendKeepsShape ==
  ASSUME EngineShape, NEW s \in Streams, NEW type \in Messages, ClientSend(s, type)
  PROVE  json' \in [Streams -> Seq(Messages)] /\ \A r \in Streams : Len(json'[r]) <= JsonCapacity
<1>1. json[s] \in Seq(Messages) /\ Len(json[s]) \in Nat
  BY DEF EngineShape
<1>2. CASE Len(json[s]) < JsonCapacity /\ json' = [json EXCEPT ![s] = Append(@, type)]
  <2>1. Append(json[s], type) \in Seq(Messages) /\ Len(Append(json[s], type)) <= JsonCapacity
    BY <1>1, <1>2, Constants
  <2> HIDE DEF Messages
  <2> QED
    BY <1>2, <2>1 DEF EngineShape
<1>3. CASE UNCHANGED json
  BY <1>3 DEF EngineShape
<1> QED
  BY <1>2, <1>3 DEF ClientSend

LEMMA ReportKeepsShape ==
  ASSUME EngineShape, NEW s \in Streams, NEW type \in Messages, Report(s, type)
  PROVE  merged' \in [Streams -> Seq(Messages)] /\ \A r \in Streams : Len(merged'[r]) <= MergedCapacity
<1>1. merged[s] \in Seq(Messages) /\ Len(merged[s]) \in Nat
  BY DEF EngineShape
<1>2. CASE Len(merged[s]) < MergedCapacity /\ merged' = [merged EXCEPT ![s] = Append(@, type)]
  <2>1. Append(merged[s], type) \in Seq(Messages) /\ Len(Append(merged[s], type)) <= MergedCapacity
    BY <1>1, <1>2, Constants
  <2> QED
    BY <1>2, <2>1 DEF EngineShape
<1>3. CASE UNCHANGED merged
  BY <1>3 DEF EngineShape
<1> QED
  BY <1>2, <1>3 DEF Report

LEMMA StartKeepsEngine ==
  ASSUME EngineInv, NEW s \in Streams, NEW fields, Start(s, fields)
  PROVE  EngineInv'
<1> DEFINE plan == Route(fields)
           ok == fields # {} /\ Routable(fields) /\ Cardinality(plan) <= permits
<1>1. /\ handler[s].at = "spawned" /\ active' = active + 1
      /\ UNCHANGED <<merged, cancel, json, relay, connections, produced>>
  BY DEF Start
<1>2. \A g \in Subgraphs : upstream[s][g] = "none"
  BY <1>1 DEF EngineInv, Counted
<1>3. s \notin Serving
  BY <1>1 DEF Serving
<1>4. CASE ok
  <2>1. /\ handler' = [handler EXCEPT ![s] = At("relay")]
        /\ permits' = permits - Cardinality(plan)
        /\ upstream' = [upstream EXCEPT ![s] =
                            [g \in Subgraphs |-> IF g \in plan THEN "spawned" ELSE "none"]]
    BY <1>4 DEF Start
  <2>2. plan \in SUBSET Subgraphs
    BY <1>4, RouteIsConfigured
  <2>3. EngineShape'
    <3>1. Cardinality(plan) \in Nat
      BY <2>2, FiniteCounts
    <3>2. permits' \in Nat /\ active' \in Nat
      BY <1>1, <1>4, <2>1, <3>1 DEF EngineInv, EngineShape
    <3>3. handler' \in [Streams -> [at : HandlerSteps, msg : Messages \cup {"none"}]]
      BY <2>1 DEF EngineInv, EngineShape, At, HandlerSteps
    <3>4. upstream' \in [Streams -> [Subgraphs -> UpstreamSteps]]
      BY <2>1 DEF EngineInv, EngineShape, UpstreamSteps
    <3> QED
      BY <1>1, <3>2, <3>3, <3>4 DEF EngineInv, EngineShape
  <2>4. Serving' = Serving \cup {s}
    BY <1>1, <2>1 DEF Serving, At, EngineInv, EngineShape
  <2>5. Linked' = Linked
    BY <1>1, <1>2, <2>1 DEF Linked, EngineInv, EngineShape
  <2>6. Taken' = Taken \cup ({s} \X plan) /\ Taken \cap ({s} \X plan) = {}
    BY <1>1, <1>2, <2>1, <2>2 DEF Taken, MergedOpen, At, EngineInv, EngineShape
  <2>7. Cardinality(Taken') = Cardinality(Taken) + Cardinality(plan)
    <3>1. {s} \X plan \in SUBSET Pairs /\ Cardinality({s} \X plan) = Cardinality(plan)
      BY <2>2, Beside
    <3>2. Taken \in SUBSET Pairs
      BY DEF Taken, Pairs
    <3> HIDE DEF plan
    <3> QED
      BY <2>6, <3>1, <3>2, Disjoint
  <2>8. Cardinality(Serving') = Cardinality(Serving) + 1
    BY <1>3, <2>4, FiniteCounts, FS_AddElement DEF Serving
  <2>9. \A r \in Streams : r # s => handler'[r] = handler[r] /\ upstream'[r] = upstream[r]
    BY <2>1 DEF EngineInv, EngineShape
  <2>10. handler'[s].at = "relay"
    BY <2>1 DEF EngineInv, EngineShape, At
  <2>11. Cardinality(Serving) \in Nat /\ Cardinality(Taken) \in Nat /\ Cardinality(plan) \in Nat
    BY <2>2, CountsAreNat
  <2>12. /\ active' >= Cardinality(Serving') /\ connections' >= Cardinality(Linked')
         /\ permits' = MaxUpstreams - Cardinality(Taken')
    BY <1>1, <2>1, <2>5, <2>7, <2>8, <2>11, Constants, SMTT(30) DEF EngineInv, EngineShape, Counted
  <2>13. \A r \in Streams, g \in Subgraphs :
           /\ handler'[r].at \in {"none", "spawned"} => upstream'[r][g] = "none"
           /\ handler'[r].at \in {"error", "returned", "done"} => upstream'[r][g] \in {"none", "ended"}
    BY <2>9, <2>10 DEF EngineInv, Counted
  <2> QED
    BY <2>3, <2>12, <2>13 DEF EngineInv, Counted
<1>5. CASE ~ok
  <2>1. handler' = [handler EXCEPT ![s] = At("error")] /\ UNCHANGED <<permits, upstream>>
    BY <1>5 DEF Start
  <2>2. EngineShape'
    BY <1>1, <2>1 DEF EngineInv, EngineShape, At, HandlerSteps
  <2>3. Serving' = Serving \cup {s}
    BY <1>1, <2>1 DEF Serving, At, EngineInv, EngineShape
  <2>4. Linked' = Linked /\ Taken' = Taken
    BY <1>1, <2>1 DEF Linked, Taken, MergedOpen, At, EngineInv, EngineShape
  <2>5. Cardinality(Serving') = Cardinality(Serving) + 1
    BY <1>3, <2>3, FiniteCounts, FS_AddElement DEF Serving
  <2>6. \A r \in Streams : r # s => handler'[r] = handler[r]
    BY <2>1 DEF EngineInv, EngineShape
  <2>7. /\ active' >= Cardinality(Serving') /\ connections' >= Cardinality(Linked')
        /\ permits' = MaxUpstreams - Cardinality(Taken')
    BY <1>1, <2>1, <2>4, <2>5, CountsAreNat DEF EngineInv, EngineShape, Counted
  <2>8. \A r \in Streams, g \in Subgraphs :
           /\ handler'[r].at \in {"none", "spawned"} => upstream'[r][g] = "none"
           /\ handler'[r].at \in {"error", "returned", "done"} => upstream'[r][g] \in {"none", "ended"}
    <3>1. handler'[s].at = "error"
      BY <2>1 DEF EngineInv, EngineShape, At
    <3> QED
      BY <1>2, <2>1, <2>6, <3>1 DEF EngineInv, Counted
  <2> QED
    BY <2>2, <2>7, <2>8 DEF EngineInv, Counted
<1> QED
  BY <1>4, <1>5

LEMMA RefuseKeepsEngine ==
  ASSUME EngineInv, NEW s \in Streams, Refuse(s)
  PROVE  EngineInv'
<1>1. /\ handler[s].at = "error" /\ handler' = [handler EXCEPT ![s] = At("returned")]
      /\ active' = active - 1
      /\ UNCHANGED <<upstream, merged, cancel, relay, permits, connections, produced>>
  BY DEF Refuse
<1>2. Serving' = Serving \ {s} /\ s \in Serving
  BY <1>1 DEF Serving, At, EngineInv, EngineShape
<1>3. Cardinality(Serving') = Cardinality(Serving) - 1
  BY <1>2, FiniteCounts, FS_RemoveElement DEF Serving
<1>4. Linked' = Linked /\ Taken' = Taken
  BY <1>1 DEF Linked, Taken, MergedOpen, At, EngineInv, EngineShape
<1>5. Cardinality(Serving) \in Nat /\ Cardinality(Serving') \in Nat
  <2>1. Serving \in SUBSET Streams /\ Serving' \in SUBSET Streams
    BY DEF Serving
  <2> QED
    BY <2>1, FiniteCounts
<1>6. EngineShape'
  <2>1. active' \in Nat
    BY <1>1, <1>3, <1>5 DEF EngineInv, EngineShape, Counted
  <2>2. json' \in [Streams -> Seq(Messages)] /\ \A r \in Streams : Len(json'[r]) <= JsonCapacity
    BY SendKeepsShape DEF Refuse, Messages, EngineInv
  <2> QED
    BY <1>1, <2>1, <2>2 DEF EngineInv, EngineShape, At, HandlerSteps
<1> QED
  BY <1>1, <1>3, <1>4, <1>5, <1>6 DEF EngineInv, EngineShape, Counted, At

\* The ends of a handler: what it held goes back, its subscription is no longer served.
LEMMA GiveBack ==
  ASSUME EngineInv, NEW s \in Streams,
         permits' = permits + (IF MergedOpen(s) THEN Held(s) ELSE 0),
         ~MergedOpen(s)', \A r \in Streams : r # s => MergedOpen(r)' = MergedOpen(r) /\ upstream'[r] = upstream[r]
  PROVE  permits' \in Nat /\ permits' = MaxUpstreams - Cardinality(Taken')
<1> DEFINE G == {g \in Subgraphs : upstream[s][g] # "none"}
<1>1. G \in SUBSET Subgraphs /\ Held(s) = Cardinality(G) /\ Cardinality(G) \in Nat
  BY CountsAreNat DEF Held
<1>2. CASE MergedOpen(s)
  <2>1. Taken' = Taken \ ({s} \X G) /\ {s} \X G \subseteq Taken
    BY <1>2 DEF Taken
  <2>2. {s} \X G \in SUBSET Pairs /\ Cardinality({s} \X G) = Cardinality(G)
    BY <1>1, Beside
  <2>3. Taken \in SUBSET Pairs
    BY DEF Taken, Pairs
  <2>4. Cardinality(Taken') = Cardinality(Taken) - Cardinality(G)
    <3> HIDE DEF G
    <3> QED
      BY <2>1, <2>2, <2>3, Without
  <2> QED
    BY <1>1, <1>2, <2>4, CountsAreNat, Constants, SMTT(30) DEF EngineInv, EngineShape, Counted
<1>3. CASE ~MergedOpen(s)
  <2>1. Taken' = Taken
    BY <1>3 DEF Taken
  <2> QED
    BY <1>3, <2>1 DEF EngineInv, EngineShape, Counted
<1> QED
  BY <1>2, <1>3

LEMMA CompleteKeepsEngine ==
  ASSUME EngineInv, NEW s \in Streams, Complete(s)
  PROVE  EngineInv'
<1>1. /\ handler[s].at = "complete" /\ handler' = [handler EXCEPT ![s] = At("returned")]
      /\ upstream' = [upstream EXCEPT ![s] = Stopped(s)]
      /\ permits' = permits + Held(s) /\ active' = active - 1
      /\ merged' = [merged EXCEPT ![s] = <<>>]
      /\ UNCHANGED <<cancel, relay, connections, produced>>
  BY DEF Complete
<1>2. handler'[s].at = "returned" /\ \A r \in Streams : r # s => handler'[r] = handler[r] /\ upstream'[r] = upstream[r]
  BY <1>1 DEF EngineInv, EngineShape, At
<1>3. Serving' = Serving \ {s} /\ s \in Serving
  BY <1>1, <1>2 DEF Serving
<1>4. Cardinality(Serving') = Cardinality(Serving) - 1 /\ Cardinality(Serving') \in Nat
  BY <1>3, FiniteCounts, FS_RemoveElement DEF Serving
<1>5. upstream'[s] = Stopped(s) /\ upstream[s] \in [Subgraphs -> UpstreamSteps]
  BY <1>1 DEF EngineInv, EngineShape
<1>6. \A g \in Subgraphs : upstream'[s][g] \in {"none", "ended"}
  BY <1>5 DEF Stopped, Running
<1>7. Linked' \subseteq Linked
  BY <1>2, <1>6 DEF Linked
<1>8. Cardinality(Linked') <= Cardinality(Linked) /\ Cardinality(Linked') \in Nat
  <2>1. IsFiniteSet(Linked) /\ Linked' \in SUBSET Linked
    BY <1>7, FiniteCounts DEF Linked, Pairs
  <2> QED
    BY <2>1, FS_Subset, FS_CardinalityType
<1>9. permits' \in Nat /\ permits' = MaxUpstreams - Cardinality(Taken')
  <2>1. MergedOpen(s) /\ ~MergedOpen(s)' /\ \A r \in Streams : r # s => MergedOpen(r)' = MergedOpen(r)
    BY <1>1, <1>2 DEF MergedOpen
  <2> QED
    BY <1>1, <1>2, <2>1, GiveBack
<1>10. EngineShape'
  <2>1. active' \in Nat
    BY <1>1, <1>4, CountsAreNat DEF EngineInv, EngineShape, Counted
  <2>2. json' \in [Streams -> Seq(Messages)] /\ \A r \in Streams : Len(json'[r]) <= JsonCapacity
    BY SendKeepsShape DEF Complete, Messages, EngineInv
  <2>3. merged' \in [Streams -> Seq(Messages)] /\ \A r \in Streams : Len(merged'[r]) <= MergedCapacity
    BY <1>1, Constants DEF EngineInv, EngineShape
  <2>4. handler' \in [Streams -> [at : HandlerSteps, msg : Messages \cup {"none"}]]
    BY <1>1 DEF EngineInv, EngineShape, At, HandlerSteps
  <2>5. upstream' \in [Streams -> [Subgraphs -> UpstreamSteps]]
    BY <1>1, <1>5 DEF EngineInv, EngineShape, UpstreamSteps, Stopped
  <2> QED
    BY <1>1, <1>9, <2>1, <2>2, <2>3, <2>4, <2>5 DEF EngineInv, EngineShape
<1>11. \A r \in Streams, g \in Subgraphs :
         /\ handler'[r].at \in {"none", "spawned"} => upstream'[r][g] = "none"
         /\ handler'[r].at \in {"error", "returned", "done"} => upstream'[r][g] \in {"none", "ended"}
  BY <1>2, <1>6 DEF EngineInv, Counted
<1>12. active' >= Cardinality(Serving') /\ connections' >= Cardinality(Linked')
  BY <1>1, <1>4, <1>8, CountsAreNat DEF EngineInv, EngineShape, Counted
<1> QED
  BY <1>9, <1>10, <1>11, <1>12 DEF EngineInv, Counted

LEMMA AbortKeepsEngine ==
  ASSUME EngineInv, NEW s \in Streams, Abort(s)
  PROVE  EngineInv'
<1>1. CASE UNCHANGED engineVars
  BY <1>1 DEF engineVars, EngineInv, EngineShape, Counted, Serving, Linked, Taken, MergedOpen
<1>2. CASE ~ UNCHANGED engineVars
  <2>1. /\ handler[s].at \notin {"returned", "done", "aborted"}
        /\ handler' = [handler EXCEPT ![s] = At("aborted")]
        /\ permits' = permits + (IF MergedOpen(s) THEN Held(s) ELSE 0)
        /\ merged' = [merged EXCEPT ![s] = <<>>]
        /\ UNCHANGED <<upstream, cancel, json, relay, active, connections, produced>>
    BY <1>2 DEF Abort
  <2>2. handler'[s].at = "aborted" /\ \A r \in Streams : r # s => handler'[r] = handler[r]
    BY <2>1 DEF EngineInv, EngineShape, At
  <2>3. permits' \in Nat /\ permits' = MaxUpstreams - Cardinality(Taken')
    <3>1. ~MergedOpen(s)' /\ \A r \in Streams : r # s => MergedOpen(r)' = MergedOpen(r)
      BY <2>2 DEF MergedOpen
    <3> QED
      BY <2>1, <3>1, GiveBack
  <2>4. EngineShape'
    <3>1. merged' \in [Streams -> Seq(Messages)] /\ \A r \in Streams : Len(merged'[r]) <= MergedCapacity
      BY <2>1, Constants DEF EngineInv, EngineShape
    <3>2. handler' \in [Streams -> [at : HandlerSteps, msg : Messages \cup {"none"}]]
      BY <2>1 DEF EngineInv, EngineShape, At, HandlerSteps
    <3> QED
      BY <2>1, <2>3, <3>1, <3>2 DEF EngineInv, EngineShape
  <2>5. active' >= Cardinality(Serving') /\ connections' >= Cardinality(Linked')
    <3>1. Serving' \in SUBSET Serving /\ IsFiniteSet(Serving)
      BY <2>2, FiniteCounts DEF Serving
    <3>2. Cardinality(Serving') <= Cardinality(Serving) /\ Cardinality(Serving') \in Nat
      BY <3>1, FS_Subset, FS_CardinalityType
    <3>3. Linked' = Linked
      BY <2>1 DEF Linked
    <3> QED
      BY <2>1, <3>2, <3>3, CountsAreNat DEF EngineInv, EngineShape, Counted
  <2>6. \A r \in Streams, g \in Subgraphs :
          /\ handler'[r].at \in {"none", "spawned"} => upstream'[r][g] = "none"
          /\ handler'[r].at \in {"error", "returned", "done"} => upstream'[r][g] \in {"none", "ended"}
    BY <2>1, <2>2 DEF EngineInv, Counted
  <2> QED
    BY <2>3, <2>4, <2>5, <2>6 DEF EngineInv, Counted
<1> QED
  BY <1>1, <1>2

LEMMA ConnectKeepsEngine ==
  ASSUME EngineInv, NEW s \in Streams, NEW g \in Subgraphs, Connect(s, g)
  PROVE  EngineInv'
<1>1. /\ upstream[s][g] = "spawned" /\ upstream' = [upstream EXCEPT ![s][g] = "handshake"]
      /\ connections' = connections + 1
      /\ UNCHANGED <<handler, merged, cancel, json, relay, permits, active, produced>>
  BY DEF Connect, Becomes
<1>2. /\ upstream'[s][g] = "handshake"
      /\ \A r \in Streams, h \in Subgraphs : <<r, h>> # <<s, g>> => upstream'[r][h] = upstream[r][h]
  BY <1>1 DEF EngineInv, EngineShape
<1>3. Serving' = Serving /\ Taken' = Taken
  BY <1>1, <1>2 DEF Serving, Taken, MergedOpen
<1>4. Linked' = Linked \cup {<<s, g>>} /\ <<s, g>> \notin Linked
  BY <1>1, <1>2 DEF Linked
<1>5. Cardinality(Linked') = Cardinality(Linked) + 1
  BY <1>4, FiniteCounts, FS_AddElement DEF Linked, Pairs
<1>6. EngineShape'
  BY <1>1 DEF EngineInv, EngineShape, UpstreamSteps
<1>7. \A r \in Streams, h \in Subgraphs :
        /\ handler'[r].at \in {"none", "spawned"} => upstream'[r][h] = "none"
        /\ handler'[r].at \in {"error", "returned", "done"} => upstream'[r][h] \in {"none", "ended"}
  BY <1>1, <1>2 DEF EngineInv, Counted
<1>8. /\ active' >= Cardinality(Serving') /\ connections' >= Cardinality(Linked')
      /\ permits' = MaxUpstreams - Cardinality(Taken')
  BY <1>1, <1>3, <1>5, CountsAreNat DEF EngineInv, EngineShape, Counted
<1> QED
  BY <1>6, <1>7, <1>8 DEF EngineInv, Counted

\* A task that returns was counted.
LEMMA ReturnKeepsEngine ==
  ASSUME EngineInv, NEW s \in Streams, NEW g \in Subgraphs,
         upstream[s][g] \in {"handshake", "streaming"}, Return(s, g),
         UNCHANGED <<handler, permits, active, json, relay, cancel>>,
         merged' \in [Streams -> Seq(Messages)], \A r \in Streams : Len(merged'[r]) <= MergedCapacity,
         produced' \in 0..MaxEvents
  PROVE  EngineInv'
<1>1. upstream' = [upstream EXCEPT ![s][g] = "ended"] /\ connections' = connections - 1
  BY DEF Return, Becomes
<1>2. /\ upstream'[s][g] = "ended"
      /\ \A r \in Streams, h \in Subgraphs : <<r, h>> # <<s, g>> => upstream'[r][h] = upstream[r][h]
  BY <1>1 DEF EngineInv, EngineShape
<1>3. Serving' = Serving /\ Taken' = Taken
  BY <1>2 DEF Serving, Taken, MergedOpen
<1>4. Linked' = Linked \ {<<s, g>>} /\ <<s, g>> \in Linked
  BY <1>2 DEF Linked
<1>5. Cardinality(Linked') = Cardinality(Linked) - 1 /\ Cardinality(Linked') \in Nat
  <2>1. IsFiniteSet(Linked)
    BY FiniteCounts DEF Linked, Pairs
  <2>2. IsFiniteSet(Linked \ {<<s, g>>}) /\ Cardinality(Linked \ {<<s, g>>}) = Cardinality(Linked) - 1
    BY <1>4, <2>1, FS_RemoveElement
  <2> QED
    BY <1>4, <2>2, FS_CardinalityType
<1>6. EngineShape'
  <2>1. connections' \in Nat
    BY <1>1, <1>5, CountsAreNat DEF EngineInv, EngineShape, Counted
  <2>2. upstream' \in [Streams -> [Subgraphs -> UpstreamSteps]]
    BY <1>1 DEF EngineInv, EngineShape, UpstreamSteps
  <2> QED
    BY <2>1, <2>2 DEF EngineInv, EngineShape
<1>7. \A r \in Streams, h \in Subgraphs :
        /\ handler'[r].at \in {"none", "spawned"} => upstream'[r][h] = "none"
        /\ handler'[r].at \in {"error", "returned", "done"} => upstream'[r][h] \in {"none", "ended"}
  BY <1>2 DEF EngineInv, Counted
<1>8. /\ active' >= Cardinality(Serving') /\ connections' >= Cardinality(Linked')
      /\ permits' = MaxUpstreams - Cardinality(Taken')
  BY <1>1, <1>3, <1>5, CountsAreNat DEF EngineInv, EngineShape, Counted
<1> QED
  BY <1>6, <1>7, <1>8 DEF EngineInv, Counted

LEMMA HandshakeKeepsEngine ==
  ASSUME EngineInv, NEW s \in Streams, NEW g \in Subgraphs, Handshake(s, g)
  PROVE  EngineInv'
<1>1. /\ upstream[s][g] = "handshake"
      /\ UNCHANGED <<handler, cancel, json, relay, permits, active, produced>>
  BY DEF Handshake
<1>2. CASE Report(s, "error") /\ Return(s, g)
  <2>1. merged' \in [Streams -> Seq(Messages)] /\ \A r \in Streams : Len(merged'[r]) <= MergedCapacity
    BY <1>2, ReportKeepsShape DEF EngineInv, Messages
  <2>2. produced' \in 0..MaxEvents
    BY <1>1 DEF EngineInv, EngineShape
  <2> QED
    BY <1>1, <1>2, <2>1, <2>2, ReturnKeepsEngine
<1>3. CASE Becomes(s, g, "streaming") /\ UNCHANGED <<merged, connections>>
  <2>1. upstream' = [upstream EXCEPT ![s][g] = "streaming"]
    BY <1>3 DEF Becomes
  <2>2. /\ upstream'[s][g] = "streaming"
        /\ \A r \in Streams, h \in Subgraphs : <<r, h>> # <<s, g>> => upstream'[r][h] = upstream[r][h]
    BY <2>1 DEF EngineInv, EngineShape
  <2>3. Serving' = Serving /\ Taken' = Taken /\ Linked' = Linked
    BY <1>1, <2>2 DEF Serving, Taken, MergedOpen, Linked
  <2>4. EngineShape'
    BY <1>1, <1>3, <2>1 DEF EngineInv, EngineShape, UpstreamSteps
  <2>5. \A r \in Streams, h \in Subgraphs :
          /\ handler'[r].at \in {"none", "spawned"} => upstream'[r][h] = "none"
          /\ handler'[r].at \in {"error", "returned", "done"} => upstream'[r][h] \in {"none", "ended"}
    BY <1>1, <2>2 DEF EngineInv, Counted
  <2> QED
    BY <1>1, <1>3, <2>3, <2>4, <2>5 DEF EngineInv, Counted
<1> QED
  BY <1>2, <1>3 DEF Handshake

LEMMA HearKeepsEngine ==
  ASSUME EngineInv, NEW s \in Streams, NEW g \in Subgraphs, Hear(s, g)
  PROVE  EngineInv'
<1>1. /\ upstream[s][g] = "streaming"
      /\ UNCHANGED <<handler, cancel, json, relay, permits, active>>
  BY DEF Hear
<1>2. produced' \in 0..MaxEvents
  BY Constants DEF Hear, EngineInv, EngineShape
<1>3. merged' \in [Streams -> Seq(Messages)] /\ \A r \in Streams : Len(merged'[r]) <= MergedCapacity
  <2>1. CASE UNCHANGED merged
    BY <2>1 DEF EngineInv, EngineShape
  <2>2. CASE \E type \in Messages : Report(s, type)
    BY <2>2, ReportKeepsShape DEF EngineInv
  <2> QED
    BY <2>1, <2>2 DEF Hear, Messages
<1>4. CASE Return(s, g)
  BY <1>1, <1>2, <1>3, <1>4, ReturnKeepsEngine
<1>5. CASE UNCHANGED <<upstream, connections>>
  <2>1. EngineShape'
    BY <1>1, <1>2, <1>3, <1>5 DEF EngineInv, EngineShape
  <2> QED
    BY <1>1, <1>5, <2>1, SameCounts
<1> QED
  BY <1>4, <1>5 DEF Hear

LEMMA HandlerKeepsEngine ==
  ASSUME EngineInv, NEW s \in Streams, HandlerTask(s)
  PROVE  EngineInv'
<1>1. CASE Refuse(s) \/ Complete(s)
  BY <1>1, RefuseKeepsEngine, CompleteKeepsEngine
<1>2. CASE Cancelled(s) \/ AllEnded(s)
  <2>1. /\ handler[s].at = "relay" /\ handler' = [handler EXCEPT ![s] = At("complete")]
        /\ UNCHANGED <<upstream, merged, cancel, json, relay, permits, active, connections, produced>>
    BY <1>2 DEF Cancelled, AllEnded
  <2>2. EngineShape'
    BY <2>1 DEF EngineInv, EngineShape, At, HandlerSteps
  <2> QED
    BY <2>1, <2>2, SameCounts DEF EngineInv, EngineShape, At
<1>3. CASE TakeEvent(s)
  <2>1. merged[s] \in Seq(Messages) /\ merged[s] # <<>> /\ merged' = [merged EXCEPT ![s] = Tail(@)]
    BY <1>3 DEF TakeEvent, EngineInv, EngineShape
  <2>2. /\ Head(merged[s]) \in Messages /\ Tail(merged[s]) \in Seq(Messages)
        /\ Len(Tail(merged[s])) <= MergedCapacity
    BY <2>1, Constants DEF EngineInv, EngineShape
  <2>3. merged' \in [Streams -> Seq(Messages)] /\ \A r \in Streams : Len(merged'[r]) <= MergedCapacity
    BY <2>1, <2>2 DEF EngineInv, EngineShape
  <2>4. CASE handler' = handler
    <3>1. EngineShape'
      BY <1>3, <2>3, <2>4 DEF TakeEvent, EngineInv, EngineShape
    <3> QED
      BY <1>3, <2>4, <3>1, SameCounts DEF TakeEvent
  <2>5. CASE handler' = [handler EXCEPT ![s] = [at |-> "deliver", msg |-> Head(merged[s])]]
    <3>1. EngineShape'
      BY <1>3, <2>2, <2>3, <2>5 DEF TakeEvent, EngineInv, EngineShape, HandlerSteps
    <3> QED
      BY <1>3, <2>5, <3>1, SameCounts DEF TakeEvent, EngineInv, EngineShape
  <2> QED
    BY <1>3, <2>4, <2>5 DEF TakeEvent
<1>4. CASE Deliver(s)
  <2>1. json' \in [Streams -> Seq(Messages)] /\ \A r \in Streams : Len(json'[r]) <= JsonCapacity
    BY <1>4, SendKeepsShape DEF Deliver, Messages, EngineInv
  <2>2. PICK where \in {"relay", "complete"} : handler' = [handler EXCEPT ![s] = At(where)]
    BY <1>4 DEF Deliver
  <2>3. EngineShape'
    <3>1. handler' \in [Streams -> [at : HandlerSteps, msg : Messages \cup {"none"}]]
      BY <2>2 DEF EngineInv, EngineShape, At, HandlerSteps
    <3>2. UNCHANGED <<upstream, merged, cancel, relay, permits, active, connections, produced>>
      BY <1>4 DEF Deliver
    <3> QED
      BY <2>1, <3>1, <3>2 DEF EngineInv, EngineShape
  <2> QED
    BY <1>4, <2>2, <2>3, SameCounts DEF Deliver, EngineInv, EngineShape, At
<1> QED
  BY <1>1, <1>2, <1>3, <1>4 DEF HandlerTask

LEMMA ClientKeepsEngine ==
  ASSUME EngineInv, SocketShape, Client
  PROVE  EngineInv'
<1>1. CASE UNCHANGED engineVars
  BY <1>1 DEF engineVars, EngineInv, EngineShape, Counted, Serving, Linked, Taken, MergedOpen
<1>2. ASSUME NEW i \in Ids, ClientComplete(i) PROVE EngineInv'
  <2>1. EngineShape'
    BY <1>2 DEF ClientComplete, EngineInv, EngineShape
  <2> QED
    BY <1>2, <2>1, SameCounts DEF ClientComplete
<1>3. ASSUME NEW i \in Ids, Subscribe(i) PROVE EngineInv'
  <2>1. PICK s \in Streams \ Started :
          handler' = [handler EXCEPT ![s] = At("spawned")] /\ relay' = [relay EXCEPT ![s] = "running"]
    BY <1>3 DEF Subscribe
  <2>2. handler[s].at = "none"
    BY <2>1 DEF Started, SocketShape
  <2>3. EngineShape'
    BY <1>3, <2>1 DEF Subscribe, EngineInv, EngineShape, At, HandlerSteps
  <2> QED
    BY <1>3, <2>1, <2>2, <2>3, SameCounts DEF Subscribe, EngineInv, EngineShape, At
<1> QED
  BY <1>1, <1>2, <1>3 DEF Client, ConnectionInit, Hangup, Refused, Query

LEMMA StepKeepsEngine == EngineInv /\ SocketShape /\ [Next]_vars => EngineInv'
<1> SUFFICES ASSUME EngineInv, SocketShape, [Next]_vars PROVE EngineInv'
  OBVIOUS
<1>1. CASE UNCHANGED engineVars
  BY <1>1 DEF engineVars, EngineInv, EngineShape, Counted, Serving, Linked, Taken, MergedOpen
<1>2. CASE Client
  BY <1>2, ClientKeepsEngine
<1>3. CASE AbortHandler
  BY <1>3, AbortKeepsEngine DEF AbortHandler, SocketShape
<1>4. CASE Leave
  <2>1. EngineShape'
    BY <1>4 DEF Leave, EngineInv, EngineShape
  <2> QED
    BY <1>4, <2>1, SameCounts DEF Leave
<1>5. ASSUME NEW s \in Streams, Start(s, stream[s].fields) PROVE EngineInv'
  BY <1>5, StartKeepsEngine
<1>6. ASSUME NEW s \in Streams, HandlerTask(s) PROVE EngineInv'
  BY <1>6, HandlerKeepsEngine
<1>7. ASSUME NEW s \in Streams, AbortRelay(s) PROVE EngineInv'
  <2>1. EngineShape'
    BY <1>7, Constants DEF AbortRelay, EngineInv, EngineShape, At, HandlerSteps
  <2> QED
    BY <1>7, <2>1, SameCounts DEF AbortRelay, EngineInv, EngineShape, At
<1>8. ASSUME NEW s \in Streams, Relay(s) PROVE EngineInv'
  <2>1. json' \in [Streams -> Seq(Messages)] /\ \A r \in Streams : Len(json'[r]) <= JsonCapacity
    <3>1. CASE UNCHANGED json
      BY <3>1 DEF EngineInv, EngineShape
    <3>2. CASE json' = [json EXCEPT ![s] = <<>>]
      BY <3>2, Constants DEF EngineInv, EngineShape
    <3>3. CASE json[s] # <<>> /\ json' = [json EXCEPT ![s] = Tail(@)]
      <4>1. Tail(json[s]) \in Seq(Messages) /\ Len(Tail(json[s])) <= JsonCapacity
        BY <3>3, Constants DEF EngineInv, EngineShape
      <4> QED
        BY <3>3, <4>1 DEF EngineInv, EngineShape
    <3> QED
      BY <1>8, <3>1, <3>2, <3>3 DEF Relay
  <2>2. relay' \in [Streams -> {"none", "running", "ended", "aborted"}]
    BY <1>8 DEF Relay, EngineInv, EngineShape
  <2>3. EngineShape'
    BY <1>8, <2>1, <2>2 DEF Relay, EngineInv, EngineShape
  <2> QED
    BY <1>8, <2>3, SameCounts DEF Relay
<1>9. ASSUME NEW s \in Streams, NEW g \in Subgraphs, UpstreamTask(s, g) \/ Hear(s, g) PROVE EngineInv'
  BY <1>9, ConnectKeepsEngine, HandshakeKeepsEngine, HearKeepsEngine DEF UpstreamTask
<1>10. CASE Reply \/ Forward \/ (\E i \in Ids : QueryTask(i)) \/ UNCHANGED vars
  BY <1>1, <1>10 DEF Reply, Forward, QueryTask, vars
<1> QED
  BY <1>2, <1>3, <1>4, <1>5, <1>6, <1>7, <1>8, <1>9, <1>10 DEF Next, Tasks, Main, Handler, Upstream

LEMMA SocketHoldsFirst == Init => EngineInv /\ SocketShape /\ JsonOrdered /\ OneSource /\ EndsOnTheWay
<1> SUFFICES ASSUME Init PROVE EngineInv /\ SocketShape /\ JsonOrdered /\ OneSource /\ EndsOnTheWay
  OBVIOUS
<1>1. EngineInv
  BY EngineHoldsFirst DEF Init
<1>2. \A s \in Streams : handler[s].at = "none" /\ relay[s] = "none" /\ json[s] = <<>>
  BY DEF Init, EngineInit, At
<1>3. SocketShape
  BY <1>2, Constants DEF Init, SocketShape, Receiving, NoStream, Messages
<1>4. JsonOrdered
  BY <1>2 DEF JsonOrdered
<1>5. OneSource
  BY <1>2 DEF Init, OneSource, MainSends, QuerySends, StreamSends, Live, InOut, EndInOut, Receiving
<1>6. EndsOnTheWay
  BY <1>2 DEF Init, EndsOnTheWay, Working
<1> QED
  BY <1>1, <1>3, <1>4, <1>5, <1>6

\* What the engine does to one stream, as far as the client can tell.
Advances(s) ==
    \/ json'[s] = json[s] /\ (handler'[s].at = handler[s].at \/ {handler[s].at, handler'[s].at} \subseteq Working)
    \/ json'[s] = Append(json[s], "next") /\ {handler[s].at, handler'[s].at} \subseteq Working
    \/ /\ handler[s].at \in Working /\ handler'[s].at = "returned"
       /\ \/ relay[s] = "running" /\ \E e \in Ends : json'[s] = Append(json[s], e)
          \/ relay[s] # "running" /\ json'[s] = json[s]
    \/ json'[s] = json[s] /\ handler[s].at \notin {"none", "returned", "done"} /\ handler'[s].at = "aborted"

LEMMA EngineAdvances ==
  ASSUME EngineInv, NEW s \in Streams,
         \/ Start(s, stream[s].fields) \/ HandlerTask(s)
         \/ \E g \in Subgraphs : UpstreamTask(s, g) \/ Hear(s, g)
         \/ Abort(s) /\ handler[s].at # "none"
  PROVE  UNCHANGED relay /\ \A r \in Streams : Advances(r)
<1> USE DEF EngineInv, EngineShape, At, Working, Ends
<1>1. CASE UNCHANGED <<handler, json, relay>>
  BY <1>1 DEF Advances
<1>2. CASE Start(s, stream[s].fields)
  <2>1. /\ UNCHANGED <<json, relay>> /\ handler[s].at = "spawned"
        /\ handler' = [handler EXCEPT ![s] = At("relay")] \/ handler' = [handler EXCEPT ![s] = At("error")]
    BY <1>2 DEF Start
  <2>2. handler'[s].at \in {"relay", "error"} /\ \A r \in Streams \ {s} : handler'[r] = handler[r]
    BY <2>1
  <2> QED
    BY <2>1, <2>2 DEF Advances
<1>3. CASE Refuse(s)
  <2>1. /\ UNCHANGED relay /\ handler[s].at = "error" /\ handler' = [handler EXCEPT ![s] = At("returned")]
        /\ ClientSend(s, "error")
    BY <1>3 DEF Refuse
  <2> QED
    BY <2>1 DEF Advances, ClientSend, JsonOpen
<1>4. CASE Complete(s)
  <2>1. /\ UNCHANGED relay /\ handler[s].at = "complete" /\ handler' = [handler EXCEPT ![s] = At("returned")]
        /\ ClientSend(s, "complete")
    BY <1>4 DEF Complete
  <2> QED
    BY <2>1 DEF Advances, ClientSend, JsonOpen
<1>5. CASE Deliver(s)
  <2>1. /\ UNCHANGED relay /\ handler[s].at = "deliver" /\ ClientSend(s, "next")
        /\ handler' = [handler EXCEPT ![s] = At("complete")] \/ handler' = [handler EXCEPT ![s] = At("relay")]
    BY <1>5 DEF Deliver
  <2>2. handler'[s].at \in {"relay", "complete"} /\ \A r \in Streams \ {s} : handler'[r] = handler[r]
    BY <2>1
  <2>3. /\ json'[s] = json[s] \/ json'[s] = Append(json[s], "next")
        /\ \A r \in Streams \ {s} : json'[r] = json[r]
    BY <2>1 DEF ClientSend
  <2> QED
    BY <2>1, <2>2, <2>3 DEF Advances
<1>6. CASE Cancelled(s) \/ AllEnded(s)
  <2>1. /\ UNCHANGED <<relay, json>> /\ handler[s].at = "relay" /\ handler' = [handler EXCEPT ![s] = At("complete")]
    BY <1>6 DEF Cancelled, AllEnded
  <2> QED
    BY <2>1 DEF Advances
<1>7. CASE TakeEvent(s)
  <2>1. /\ UNCHANGED <<relay, json>> /\ handler[s].at = "relay"
        /\ handler' = handler \/ handler' = [handler EXCEPT ![s] = [at |-> "deliver", msg |-> Head(merged[s])]]
    BY <1>7 DEF TakeEvent
  <2>2. handler'[s].at \in {"relay", "deliver"} /\ \A r \in Streams \ {s} : handler'[r] = handler[r]
    BY <2>1
  <2> QED
    BY <2>1, <2>2 DEF Advances
<1>8. CASE Abort(s) /\ handler[s].at # "none" /\ ~UNCHANGED engineVars
  <2>1. /\ UNCHANGED <<relay, json>> /\ handler[s].at \notin {"returned", "done", "aborted"}
        /\ handler' = [handler EXCEPT ![s] = At("aborted")]
    BY <1>8 DEF Abort
  <2> QED
    BY <1>8, <2>1 DEF Advances
<1> QED
  BY <1>1, <1>2, <1>3, <1>4, <1>5, <1>6, <1>7, <1>8
  DEF HandlerTask, UpstreamTask, Connect, Handshake, Hear, Abort, engineVars

LEMMA AdvanceKeepsPromise ==
  ASSUME EngineInv, SocketShape, JsonOrdered, OneSource, EndsOnTheWay,
         UNCHANGED <<relay, stream, query, out, phase, again, untold, forwarding>>,
         \A i \in Ids : MainSends(i)' = MainSends(i),
         \A s \in Streams : Advances(s)
  PROVE  JsonOrdered' /\ OneSource' /\ EndsOnTheWay'
<1>1. \A s \in Streams : json[s] \in Seq(Messages)
  BY DEF EngineInv, EngineShape
<1>2. JsonOrdered'
  BY <1>1, SMTT(30) DEF JsonOrdered, Advances, Working, Ends
<1>3. \A s \in Streams : StreamSends(s)' => StreamSends(s)
  BY DEF StreamSends, Advances, Working
<1>4. OneSource'
  BY <1>3 DEF OneSource, Live, QuerySends, EndInOut, InOut
<1>5. EndsOnTheWay'
  <2> SUFFICES ASSUME forwarding, NEW s \in Streams
               PROVE  /\ handler'[s].at \in Working \cup {"returned"} => relay'[s] = "running"
                      /\ LET i == stream[s].id
                         IN  stream[s] # NoStream /\ i \notin again =>
                               /\ phase[i] # "unused"
                               /\ handler'[s].at = "returned" =>
                                    Told(i) \/ \E k \in DOMAIN json'[s] : json'[s][k] \in Ends
                               /\ handler'[s].at = "done" => Told(i) \/ s \in untold
    BY DEF EndsOnTheWay, Told, EndInOut
  <2>1. handler[s].at \in Working \cup {"returned"} => relay[s] = "running"
    BY DEF EndsOnTheWay
  <2>2. handler'[s].at \in Working \cup {"returned"} => handler[s].at \in Working \cup {"returned"}
    BY DEF Advances, Working
  <2>3. handler'[s].at = "done" => handler[s].at = "done"
    BY DEF Advances, Working
  <2>4. handler'[s].at = "returned" =>
           \/ handler[s].at = "returned" /\ json'[s] = json[s]
           \/ \E k \in DOMAIN json'[s] : json'[s][k] \in Ends
    <3>1. ASSUME NEW e \in Ends, json'[s] = Append(json[s], e)
          PROVE  Len(json[s]) + 1 \in DOMAIN json'[s] /\ json'[s][Len(json[s]) + 1] \in Ends
      BY <1>1, <3>1
    <3> QED
      BY <2>1, <3>1 DEF Advances, Working
  <2> QED
    BY <2>1, <2>2, <2>3, <2>4 DEF EndsOnTheWay
<1> QED
  BY <1>2, <1>4, <1>5

LEMMA EngineKeepsSocketShape ==
  ASSUME SocketShape, UNCHANGED socketVars, UNCHANGED relay, \A r \in Streams : Advances(r)
  PROVE  SocketShape'
<1>1. \A r \in Streams : handler'[r].at = "none" <=> handler[r].at = "none"
  BY DEF Advances, Working
<1>2. \A r \in Streams : handler'[r].at = "none" => relay'[r] = "none" /\ json'[r] = <<>>
  BY <1>1 DEF Advances, Working, SocketShape
<1>3. main'.at \in {"abort", "clean"} => main'.s \in Streams /\ handler'[main'.s].at # "none"
  BY <1>1 DEF SocketShape, socketVars
<1>4. \A i \in Ids : entry'[i] # 0 => handler'[entry'[i]].at # "none"
  <2> SUFFICES ASSUME NEW i \in Ids, entry[i] # 0 PROVE handler'[entry[i]].at # "none"
    BY DEF socketVars
  <2>1. entry[i] \in Streams /\ handler[entry[i]].at # "none"
    BY DEF SocketShape
  <2> QED
    BY <1>1, <2>1
<1>5. \A s \in Streams : stream'[s] = NoStream <=> handler'[s].at = "none"
  BY <1>1 DEF SocketShape, socketVars
<1> QED
  BY <1>2, <1>3, <1>4, <1>5 DEF SocketShape, socketVars

LEMMA UsedKeepsShape ==
  ASSUME SocketShape, NEW i \in Ids, Used(i)
  PROVE  /\ phase' \in [Ids -> {"unused", "open", "ended", "reused"}] /\ items' \in [Ids -> Nat]
         /\ again' \subseteq Ids
  BY DEF SocketShape, Used

LEMMA EnqueueKeepsShape ==
  ASSUME SocketShape, NEW type \in Messages \cup {"connection_ack"}, NEW id \in Ids \cup {"none"},
         type \in Messages => id \in Ids, Enqueue(type, id)
  PROVE  /\ out' \in Seq([type : Messages \cup {"connection_ack"}, id : Ids \cup {"none"}])
         /\ Len(out') <= OutCapacity
         /\ \A k \in DOMAIN out' : out'[k].type \in Messages => out'[k].id \in Ids
<1>1. CASE UNCHANGED out
  BY <1>1 DEF SocketShape
<1>2. CASE Len(out) < OutCapacity /\ out' = Append(out, [type |-> type, id |-> id])
  <2>1. [type |-> type, id |-> id] \in [type : Messages \cup {"connection_ack"}, id : Ids \cup {"none"}]
    OBVIOUS
  <2>2. /\ out' \in Seq([type : Messages \cup {"connection_ack"}, id : Ids \cup {"none"}])
        /\ Len(out') = Len(out) + 1
    BY <1>2, <2>1 DEF SocketShape
  <2>3. \A k \in DOMAIN out' : IF k \in DOMAIN out THEN out'[k] = out[k] ELSE out'[k] = [type |-> type, id |-> id]
    BY <1>2 DEF SocketShape
  <2>4. \A k \in DOMAIN out' : out'[k].type \in Messages => out'[k].id \in Ids
    BY <2>3, SMTT(30) DEF SocketShape
  <2> QED
    BY <1>2, <2>2, <2>4, Constants DEF SocketShape
<1> QED
  BY <1>1, <1>2 DEF Enqueue

LEMMA ClientKeepsSocketShape ==
  ASSUME EngineInv, SocketShape, Client
  PROVE  SocketShape'
<1> USE Constants
<1>1. CASE ConnectionInit \/ Hangup
  BY <1>1 DEF ConnectionInit, Hangup, SocketShape, Receiving, engineVars, history
<1>2. ASSUME NEW i \in Ids, Refused(i) PROVE SocketShape'
  BY <1>2, UsedKeepsShape DEF Refused, SocketShape, Receiving, engineVars
<1>3. ASSUME NEW i \in Ids, Query(i) PROVE SocketShape'
  BY <1>3, UsedKeepsShape DEF Query, SocketShape, engineVars
<1>4. ASSUME NEW i \in Ids, ClientComplete(i) PROVE SocketShape'
  <2>1. CASE entry[i] = 0
    BY <1>4, <2>1 DEF ClientComplete, SocketShape, history
  <2>2. CASE entry[i] # 0
    <3>1. /\ entry' = [entry EXCEPT ![i] = 0] /\ main' = [Receiving EXCEPT !.at = "abort", !.s = entry[i]]
          /\ UNCHANGED <<handler, relay, json, stream, query, out, forwarding, phase, items, again, untold>>
      BY <1>4, <2>2 DEF ClientComplete, history
    <3>2. entry[i] \in Streams /\ handler[entry[i]].at # "none"
      BY <2>2 DEF SocketShape
    <3>3. main' = [at |-> "abort", id |-> "none", s |-> entry[i]]
      BY <3>1 DEF Receiving
    <3>4. /\ main' \in [at : {"receive", "connection_ack", "error", "abort", "clean", "leaving", "closed"},
                        id : Ids \cup {"none"}, s : Streams \cup {0}]
          /\ main'.at = "abort" /\ main'.s = entry[i]
      BY <3>2, <3>3
    <3> QED
      BY <3>1, <3>2, <3>4 DEF SocketShape
  <2> QED
    BY <2>1, <2>2
<1>5. ASSUME NEW i \in Ids, Subscribe(i) PROVE SocketShape'
  <2>0. PICK s \in Streams \ Started :
           /\ \E fields \in Requests[s] : stream' = [stream EXCEPT ![s] = [id |-> i, fields |-> fields]]
           /\ entry' = [entry EXCEPT ![i] = s] /\ handler' = [handler EXCEPT ![s] = At("spawned")]
           /\ relay' = [relay EXCEPT ![s] = "running"]
    BY <1>5 DEF Subscribe
  <2>1. PICK fields \in Requests[s] : stream' = [stream EXCEPT ![s] = [id |-> i, fields |-> fields]]
    BY <2>0
  <2>2. /\ UNCHANGED <<json, query, main, out, forwarding, untold>>
        /\ main.at = "receive"
    BY <1>5 DEF Subscribe, NextMessage
  <2>3. fields \in SUBSET Fields
    BY FederationAssumption DEF FederationAssumption
  <2>4. [id |-> i, fields |-> fields] # NoStream
    BY SocketAssumption DEF SocketAssumption, NoStream
  <2>5. stream' \in [Streams -> {NoStream} \cup [id : Ids, fields : SUBSET Fields]]
    BY <2>1, <2>3 DEF SocketShape
  <2>6. handler'[s].at = "spawned" /\ \A r \in Streams \ {s} : handler'[r] = handler[r]
    BY <2>0 DEF EngineInv, EngineShape, At
  <2>7. \A r \in Streams : stream'[r] = NoStream <=> handler'[r].at = "none"
    <3>1. stream'[s] = [id |-> i, fields |-> fields] /\ \A r \in Streams \ {s} : stream'[r] = stream[r]
      BY <2>1 DEF SocketShape
    <3>2. \A r \in Streams : stream[r] = NoStream <=> handler[r].at = "none"
      BY DEF SocketShape
    <3> QED
      BY <2>4, <2>6, <3>1, <3>2
  <2>8. \A r \in Streams : handler'[r].at = "none" => relay'[r] = "none" /\ json'[r] = <<>>
    BY <2>0, <2>2, <2>6 DEF SocketShape
  <2>9. entry' \in [Ids -> Streams \cup {0}] /\ \A j \in Ids : entry'[j] # 0 => handler'[entry'[j]].at # "none"
    BY <2>0, <2>6 DEF SocketShape
  <2>10. /\ phase' \in [Ids -> {"unused", "open", "ended", "reused"}] /\ items' \in [Ids -> Nat]
         /\ again' \subseteq Ids
    BY <1>5, UsedKeepsShape DEF Subscribe
  <2> QED
    BY <2>2, <2>5, <2>7, <2>8, <2>9, <2>10 DEF SocketShape
<1> QED
  BY <1>1, <1>2, <1>3, <1>4, <1>5 DEF Client

LEMMA ShowKeepsShape ==
  ASSUME SocketShape, OneSource, out # <<>>, Show(Head(out))
  PROVE  /\ phase' \in [Ids -> {"unused", "open", "ended", "reused"}] /\ items' \in [Ids -> Nat]
<1> DEFINE Message == [type : Messages \cup {"connection_ack"}, id : Ids \cup {"none"}]
<1>1. Head(out) = out[1] /\ 1 \in DOMAIN out /\ out[1] \in Message
  <2>1. out \in Seq(Message)
    BY DEF SocketShape
  <2> HIDE DEF Message
  <2> QED
    BY <2>1
<1>2. out[1].type \in Messages => out[1].id \in Ids
  BY <1>1 DEF SocketShape
<1>3. out[1].type \in Messages /\ phase[out[1].id] # "reused" => phase[out[1].id] = "open"
  BY <1>1, <1>2 DEF OneSource, InOut
<1>4. phase' \in [Ids -> {"unused", "open", "ended", "reused"}]
  BY <1>1, <1>2, <1>3 DEF Show, SocketShape, Messages
<1>5. items' \in [Ids -> Nat]
  BY <1>1, <1>2 DEF Show, SocketShape, Messages
<1> QED
  BY <1>4, <1>5

LEMMA TasksKeepSocketShape ==
  ASSUME EngineInv, EngineInv', SocketShape, OneSource, Tasks
  PROVE  SocketShape'
<1> USE Constants
<1>1. CASE AbortHandler
  <2>1. /\ main.at \in {"abort", "clean"} /\ main.s \in Streams /\ Abort(main.s) /\ handler[main.s].at # "none"
        /\ main' = Receiving \/ main' = [Receiving EXCEPT !.at = "leaving"]
        /\ UNCHANGED <<entry, stream, query, out, forwarding, phase, items, again, untold>>
    BY <1>1 DEF AbortHandler, SocketShape, history
  <2>2. UNCHANGED relay /\ \A r \in Streams : Advances(r)
    BY <2>1, EngineAdvances
  <2>3. \A r \in Streams : handler'[r].at = "none" <=> handler[r].at = "none"
    BY <2>2 DEF Advances, Working
  <2>4. \A r \in Streams : handler'[r].at = "none" => relay'[r] = "none" /\ json'[r] = <<>>
    BY <2>2, <2>3 DEF Advances, Working, SocketShape
  <2>5. \A i \in Ids : entry'[i] # 0 => handler'[entry'[i]].at # "none"
    BY <2>1, <2>3 DEF SocketShape
  <2>6. /\ main' \in [at : {"receive", "connection_ack", "error", "abort", "clean", "leaving", "closed"},
                      id : Ids \cup {"none"}, s : Streams \cup {0}]
        /\ main'.at \in {"receive", "leaving"}
    BY <2>1 DEF Receiving
  <2> QED
    BY <2>1, <2>3, <2>4, <2>5, <2>6 DEF SocketShape
<1>2. CASE Reply
  <2>1. main.at \in Messages => main.id \in Ids
    BY <1>2 DEF Reply, SocketShape, Messages
  <2>2. /\ out' \in Seq([type : Messages \cup {"connection_ack"}, id : Ids \cup {"none"}])
        /\ Len(out') <= OutCapacity
        /\ \A k \in DOMAIN out' : out'[k].type \in Messages => out'[k].id \in Ids
    BY <1>2, <2>1, EnqueueKeepsShape DEF Reply, SocketShape, Messages
  <2>3. main' = Receiving /\ UNCHANGED <<handler, relay, json, entry, stream, query, forwarding, phase, items, again, untold>>
    BY <1>2 DEF Reply, engineVars, history
  <2> QED
    BY <2>2, <2>3 DEF SocketShape, Receiving
<1>3. CASE Leave
  <2>1. UNCHANGED <<handler, relay, json, stream, query, out, forwarding, phase, items, again, untold>>
    BY <1>3 DEF Leave, history
  <2>2. CASE main' = [Receiving EXCEPT !.at = "closed"] /\ UNCHANGED entry
    BY <2>1, <2>2 DEF SocketShape, Receiving
  <2>3. ASSUME NEW i \in Ids, entry[i] # 0, entry' = [entry EXCEPT ![i] = 0],
               main' = [Receiving EXCEPT !.at = "clean", !.s = entry[i]]
        PROVE  SocketShape'
    <3>1. entry[i] \in Streams /\ handler[entry[i]].at # "none"
      BY <2>3 DEF SocketShape
    <3>2. main' = [at |-> "clean", id |-> "none", s |-> entry[i]]
      BY <2>3 DEF Receiving
    <3>3. /\ main' \in [at : {"receive", "connection_ack", "error", "abort", "clean", "leaving", "closed"},
                        id : Ids \cup {"none"}, s : Streams \cup {0}]
          /\ main'.at = "clean" /\ main'.s = entry[i]
      BY <3>1, <3>2
    <3> QED
      BY <2>1, <2>3, <3>1, <3>3 DEF SocketShape
  <2> QED
    BY <1>3, <2>2, <2>3 DEF Leave
<1>4. CASE Forward
  <2>1. UNCHANGED <<handler, relay, json, entry, stream, query, main, again, untold>>
    BY <1>4 DEF Forward, engineVars
  <2>2. CASE out # <<>> /\ out' = Tail(out) /\ Show(Head(out)) /\ UNCHANGED forwarding
    <3>1. phase' \in [Ids -> {"unused", "open", "ended", "reused"}] /\ items' \in [Ids -> Nat]
      BY <2>2, ShowKeepsShape
    <3>2. /\ out' \in Seq([type : Messages \cup {"connection_ack"}, id : Ids \cup {"none"}])
          /\ Len(out') <= OutCapacity
      BY <2>2 DEF SocketShape
    <3>3. \A k \in DOMAIN out' : k + 1 \in DOMAIN out /\ out'[k] = out[k + 1]
      BY <2>2 DEF SocketShape
    <3> QED
      BY <2>1, <2>2, <3>1, <3>2, <3>3 DEF SocketShape
  <2>3. CASE forwarding' = FALSE /\ out' = <<>> /\ UNCHANGED <<items, phase>>
    <3>1. /\ out' \in Seq([type : Messages \cup {"connection_ack"}, id : Ids \cup {"none"}])
          /\ Len(out') <= OutCapacity /\ DOMAIN out' = {}
      BY <2>3
    <3> QED
      BY <2>1, <2>3, <3>1 DEF SocketShape
  <2> QED
    BY <1>4, <2>2, <2>3 DEF Forward
<1>5. ASSUME NEW s \in Streams, Handler(s) PROVE SocketShape'
  <2>1. CASE (Start(s, stream[s].fields) \/ HandlerTask(s)) /\ UNCHANGED socketVars
    BY <2>1, EngineAdvances, EngineKeepsSocketShape
  <2>2. CASE AbortRelay(s)
    <3>1. /\ handler[s].at = "returned" /\ handler'[s].at = "done"
          /\ \A r \in Streams \ {s} : handler'[r] = handler[r] /\ relay'[r] = relay[r] /\ json'[r] = json[r]
      BY <2>2 DEF AbortRelay, At, EngineInv, EngineShape
    <3>2. /\ UNCHANGED <<entry, stream, query, main, out, forwarding, phase, items, again>>
          /\ untold' \subseteq Streams
      BY <2>2 DEF AbortRelay, SocketShape
    <3>3. \A r \in Streams : handler'[r].at = "none" <=> handler[r].at = "none"
      BY <3>1
    <3>4. \A r \in Streams : handler'[r].at = "none" => relay'[r] = "none" /\ json'[r] = <<>>
      <4>1. \A r \in Streams : handler[r].at = "none" => relay[r] = "none" /\ json[r] = <<>>
        BY DEF SocketShape
      <4> QED
        BY <3>1, <3>3, <4>1
    <3>5. \A i \in Ids : entry'[i] # 0 => handler'[entry'[i]].at # "none"
      BY <3>2, <3>3 DEF SocketShape
    <3>6. main'.at \in {"abort", "clean"} => main'.s \in Streams /\ handler'[main'.s].at # "none"
      BY <3>2, <3>3 DEF SocketShape
    <3> QED
      BY <3>2, <3>3, <3>4, <3>5, <3>6 DEF SocketShape
  <2> QED
    BY <1>5, <2>1, <2>2 DEF Handler
<1>6. ASSUME NEW s \in Streams, Relay(s) PROVE SocketShape'
  <2>1. handler[s].at # "none" /\ stream[s] # NoStream /\ stream[s].id \in Ids
    BY <1>6 DEF Relay, SocketShape
  <2>2. /\ UNCHANGED <<handler, entry, stream, query, main, forwarding, phase, items, again, untold>>
        /\ \A r \in Streams \ {s} : relay'[r] = relay[r] /\ json'[r] = json[r]
    BY <1>6 DEF Relay, EngineInv, EngineShape, history
  <2>3. CASE UNCHANGED out
    BY <2>1, <2>2, <2>3 DEF SocketShape
  <2>4. CASE json[s] # <<>> /\ Enqueue(Head(json[s]), stream[s].id)
    <3>1. Head(json[s]) \in Messages
      BY <2>4 DEF EngineInv, EngineShape
    <3>2. /\ out' \in Seq([type : Messages \cup {"connection_ack"}, id : Ids \cup {"none"}])
          /\ Len(out') <= OutCapacity
          /\ \A k \in DOMAIN out' : out'[k].type \in Messages => out'[k].id \in Ids
      BY <2>1, <2>4, <3>1, EnqueueKeepsShape
    <3> QED
      BY <2>1, <2>2, <3>2 DEF SocketShape
  <2> QED
    BY <1>6, <2>3, <2>4 DEF Relay
<1>7. ASSUME NEW s \in Streams, NEW g \in Subgraphs, Upstream(s, g) PROVE SocketShape'
  BY <1>7, EngineAdvances, EngineKeepsSocketShape DEF Upstream
<1>8. ASSUME NEW i \in Ids, QueryTask(i) PROVE SocketShape'
  <2>1. UNCHANGED <<handler, relay, json, entry, stream, main, forwarding, phase, items, again, untold>>
    BY <1>8 DEF QueryTask, engineVars, history
  <2>2. query' \in [Ids -> {"none", "reading", "next", "complete", "error", "done"}]
    BY <1>8 DEF QueryTask, SocketShape
  <2>3. CASE UNCHANGED out
    BY <2>1, <2>2, <2>3 DEF SocketShape
  <2>4. CASE query[i] \in Messages /\ Enqueue(query[i], i)
    <3>1. /\ out' \in Seq([type : Messages \cup {"connection_ack"}, id : Ids \cup {"none"}])
          /\ Len(out') <= OutCapacity
          /\ \A k \in DOMAIN out' : out'[k].type \in Messages => out'[k].id \in Ids
      BY <2>4, EnqueueKeepsShape
    <3> QED
      BY <2>1, <2>2, <3>1 DEF SocketShape
  <2> QED
    BY <1>8, <2>3, <2>4 DEF QueryTask, Messages
<1> QED
  BY <1>1, <1>2, <1>3, <1>4, <1>5, <1>6, <1>7, <1>8 DEF Tasks, Main

LEMMA StepKeepsSocketShape ==
  ASSUME EngineInv, SocketShape, OneSource, EngineInv', [Next]_vars
  PROVE  SocketShape'
<1>1. ASSUME NEW s \in Streams, NEW g \in Subgraphs, Hear(s, g) /\ UNCHANGED socketVars PROVE SocketShape'
  BY <1>1, EngineAdvances, EngineKeepsSocketShape
<1>2. CASE UNCHANGED vars
  BY <1>2 DEF vars, engineVars, socketVars, SocketShape
<1> QED
  BY <1>1, <1>2, ClientKeepsSocketShape, TasksKeepSocketShape DEF Next

\* Sources fall silent.
Fewer == /\ \A s \in Streams : StreamSends(s)' => StreamSends(s)
         /\ \A j \in Ids : (QuerySends(j)' => QuerySends(j)) /\ (MainSends(j)' => MainSends(j))

LEMMA FewerSources ==
  ASSUME OneSource, Fewer, UNCHANGED <<out, phase, stream>>
  PROVE  OneSource'
<1>1. \A i \in Ids : Live(i)' => Live(i)
  BY DEF Fewer, Live
<1> QED
  BY <1>1 DEF OneSource, EndInOut, InOut, Fewer

\* A message of a source that sends goes out; after an end the source is silent.
LEMMA PassedOn ==
  ASSUME SocketShape, OneSource, Fewer, UNCHANGED <<phase, stream>>,
         NEW i \in Ids, NEW type \in Messages, Live(i),
         out' = Append(out, [type |-> type, id |-> i]),
         type \in Ends /\ phase[i] # "reused" => ~Live(i)'
  PROVE  /\ OneSource' /\ \A j \in Ids : EndInOut(j) => EndInOut(j)'
         /\ type \in Ends => EndInOut(i)'
<1>1. \A j \in Ids : Live(j)' => Live(j)
  BY DEF Fewer, Live
<1>2. /\ Len(out) \in Nat /\ DOMAIN out = 1..Len(out) /\ DOMAIN out' = 1..(Len(out) + 1)
      /\ \A k \in DOMAIN out : out'[k] = out[k]
      /\ out'[Len(out) + 1].type = type /\ out'[Len(out) + 1].id = i
  BY DEF SocketShape
<1>3. /\ \A j \in Ids : EndInOut(j) => EndInOut(j)'
      /\ type \in Ends => EndInOut(i)'
  BY <1>2 DEF EndInOut
<1>4. ASSUME NEW j \in Ids, phase[j] # "reused"
      PROVE  /\ \A k, l \in DOMAIN out' :
                  (k < l /\ out'[k].id = j /\ out'[l].id = j /\ out'[l].type \in Messages)
                      => out'[k].type \notin Ends
             /\ EndInOut(j)' => ~Live(j)'
             /\ phase[j] # "open" => ~Live(j)' /\ ~InOut(j)'
  <2>1. ASSUME NEW k \in DOMAIN out', NEW l \in DOMAIN out', k < l, out'[k].id = j,
               out'[l].id = j, out'[l].type \in Messages
        PROVE  out'[k].type \notin Ends
    <3>1. k \in DOMAIN out
      BY <1>2, <2>1
    <3>2. CASE l \in DOMAIN out
      BY <1>2, <1>4, <2>1, <3>1, <3>2 DEF OneSource
    <3>3. CASE l = Len(out) + 1
      <4>1. j = i /\ ~EndInOut(i)
        BY <1>2, <1>4, <2>1, <3>3 DEF OneSource
      <4> QED
        BY <1>2, <2>1, <3>1, <4>1 DEF EndInOut
    <3> QED
      BY <1>2, <3>2, <3>3
  <2>2. EndInOut(j)' => EndInOut(j) \/ (j = i /\ type \in Ends)
    BY <1>2 DEF EndInOut
  <2>3. InOut(j)' => InOut(j) \/ j = i
    BY <1>2 DEF InOut
  <2> QED
    BY <1>1, <1>4, <2>1, <2>2, <2>3 DEF OneSource
<1>5. OneSource'
  BY <1>4 DEF OneSource, Fewer
<1> QED
  BY <1>3, <1>5

\* The engine's own promise is untouched by the rest of the connection.
SameEngine == UNCHANGED <<handler, json>>

LEMMA SameOrder == JsonOrdered /\ SameEngine => JsonOrdered'
  BY DEF JsonOrdered, SameEngine

LEMMA AckPassedOn ==
  ASSUME SocketShape, OneSource, Fewer, UNCHANGED <<phase, stream>>, NEW id,
         out' = Append(out, [type |-> "connection_ack", id |-> id])
  PROVE  OneSource' /\ \A j \in Ids : EndInOut(j) => EndInOut(j)'
<1>1. /\ Len(out) \in Nat /\ DOMAIN out = 1..Len(out) /\ DOMAIN out' = 1..(Len(out) + 1)
      /\ \A k \in DOMAIN out : out'[k] = out[k]
      /\ out'[Len(out) + 1].type = "connection_ack"
  BY DEF SocketShape
<1>2. \A j \in Ids : (EndInOut(j)' <=> EndInOut(j)) /\ (InOut(j)' <=> InOut(j)) /\ (Live(j)' => Live(j))
  BY <1>1 DEF EndInOut, InOut, Fewer, Live, Ends, Messages
<1>3. \A k, l \in DOMAIN out' :
        k < l /\ out'[l].type \in Messages => /\ k \in DOMAIN out /\ l \in DOMAIN out
                                             /\ out'[k] = out[k] /\ out'[l] = out[l]
  BY <1>1 DEF Messages
<1> QED
  BY <1>2, <1>3 DEF OneSource, Fewer

\* The ends on their way stay there as long as no relay is aborted.
LEMMA EndsStay ==
  ASSUME EndsOnTheWay, UNCHANGED <<phase, again, untold, stream, handler, json>>, forwarding' => forwarding,
         \A s \in Streams : relay'[s] = relay[s], \A j \in Ids : EndInOut(j) => EndInOut(j)',
         \A s \in Streams : stream[s] # NoStream => stream[s].id \in Ids
  PROVE  EndsOnTheWay'
  BY DEF EndsOnTheWay, Told

LEMMA ReplyKeepsPromise ==
  ASSUME SocketShape, JsonOrdered, OneSource, EndsOnTheWay, Reply
  PROVE  JsonOrdered' /\ OneSource' /\ EndsOnTheWay'
<1>1. /\ UNCHANGED <<handler, json, relay, stream, query, forwarding, phase, again, untold>>
      /\ main.at \in {"connection_ack", "error"} /\ main' = Receiving /\ Enqueue(main.at, main.id)
  BY DEF Reply, engineVars, history
<1>2. Fewer /\ \A j \in Ids : ~MainSends(j)'
  BY <1>1 DEF Fewer, StreamSends, QuerySends, MainSends, Receiving
<1>3. OneSource' /\ \A j \in Ids : EndInOut(j) => EndInOut(j)'
  <2>1. CASE UNCHANGED out
    BY <1>1, <1>2, <2>1, FewerSources DEF EndInOut
  <2>2. CASE main.at = "error" /\ out' = Append(out, [type |-> "error", id |-> main.id])
    <3>1. PICK i \in Ids : i = main.id
      BY <2>2 DEF SocketShape
    <3>2. MainSends(i) /\ Live(i)
      BY <2>2, <3>1 DEF Live, MainSends
    <3>3. phase[i] # "reused" => ~Live(i)'
      BY <1>1, <1>2, <3>2 DEF OneSource, Live, Fewer
    <3>4. "error" \in Messages
      BY DEF Messages
    <3> QED
      BY <1>1, <1>2, <2>2, <3>1, <3>2, <3>3, <3>4, PassedOn
  <2>3. CASE main.at = "connection_ack" /\ out' = Append(out, [type |-> "connection_ack", id |-> main.id])
    <3>1. PICK id : id = main.id
      OBVIOUS
    <3> QED
      BY <1>1, <1>2, <2>3, <3>1, AckPassedOn
  <2> QED
    BY <1>1, <2>1, <2>2, <2>3 DEF Enqueue
<1>4. EndsOnTheWay'
  BY <1>1, <1>3, EndsStay DEF SocketShape
<1> QED
  BY <1>1, <1>3, <1>4, SameOrder DEF SameEngine

LEMMA QueryKeepsPromise ==
  ASSUME SocketShape, JsonOrdered, OneSource, EndsOnTheWay, NEW i \in Ids, QueryTask(i)
  PROVE  JsonOrdered' /\ OneSource' /\ EndsOnTheWay'
<1>1. UNCHANGED <<handler, json, relay, stream, main, forwarding, phase, again, untold>>
  BY DEF QueryTask, engineVars, history
<1>2. QuerySends(i) /\ \A j \in Ids \ {i} : query'[j] = query[j]
  BY DEF QueryTask, QuerySends, SocketShape
<1>3. Fewer /\ Live(i)
  BY <1>1, <1>2 DEF Fewer, StreamSends, QuerySends, MainSends, Live
<1>4. OneSource' /\ \A j \in Ids : EndInOut(j) => EndInOut(j)'
  <2>1. CASE UNCHANGED out
    BY <1>1, <1>3, <2>1, FewerSources DEF EndInOut
  <2>2. CASE query[i] \in Messages /\ out' = Append(out, [type |-> query[i], id |-> i])
    <3>1. query[i] \in Ends => ~QuerySends(i)'
      BY <2>2 DEF QueryTask, QuerySends, SocketShape, Ends
    <3>2. query[i] \in Ends /\ phase[i] # "reused" => ~Live(i)'
      BY <1>1, <1>2, <1>3, <3>1 DEF OneSource, Live, Fewer
    <3> QED
      BY <1>1, <1>3, <2>2, <3>2, PassedOn
  <2> QED
    BY <2>1, <2>2 DEF QueryTask, Enqueue, Messages
<1>5. EndsOnTheWay'
  BY <1>1, <1>4, EndsStay DEF SocketShape
<1> QED
  BY <1>1, <1>4, <1>5, SameOrder DEF SameEngine

LEMMA RelayKeepsPromise ==
  ASSUME EngineInv, SocketShape, JsonOrdered, OneSource, EndsOnTheWay, NEW s \in Streams, Relay(s)
  PROVE  JsonOrdered' /\ OneSource' /\ EndsOnTheWay'
<1>1. /\ UNCHANGED <<handler, stream, query, main, forwarding, phase, again, untold>>
      /\ relay[s] = "running" /\ \A r \in Streams \ {s} : relay'[r] = relay[r] /\ json'[r] = json[r]
  BY DEF Relay, EngineInv, EngineShape, history
<1>2. json[s] \in Seq(Messages)
  BY DEF EngineInv, EngineShape
<1>3. stream[s] # NoStream /\ stream[s].id \in Ids
  BY <1>1 DEF SocketShape
<1>4. PICK i \in Ids : i = stream[s].id
  BY <1>3
<1>5. CASE json[s] = <<>> /\ handler[s].at = "aborted" /\ UNCHANGED <<json, out>> /\ relay' = [relay EXCEPT ![s] = "ended"]
  <2>1. relay'[s] = "ended"
    BY <1>5 DEF EngineInv, EngineShape
  <2>2. Fewer
    BY <1>1, <1>5, <2>1 DEF Fewer, StreamSends, QuerySends, MainSends
  <2>3. EndsOnTheWay'
    BY <1>1, <1>5 DEF EndsOnTheWay, Told, EndInOut, Working
  <2> QED
    BY <1>1, <1>5, <2>2, <2>3, FewerSources, SameOrder DEF SameEngine
<1>6. CASE json[s] # <<>> /\ ~forwarding /\ UNCHANGED out /\ json' = [json EXCEPT ![s] = <<>>]
           /\ relay' = [relay EXCEPT ![s] = "ended"]
  <2>1. relay'[s] = "ended" /\ json'[s] = <<>>
    BY <1>6 DEF EngineInv, EngineShape
  <2>2. Fewer
    BY <1>1, <2>1 DEF Fewer, StreamSends, QuerySends, MainSends
  <2>3. JsonOrdered'
    BY <1>1, <2>1 DEF JsonOrdered
  <2>4. EndsOnTheWay'
    BY <1>1, <1>6 DEF EndsOnTheWay
  <2> QED
    BY <1>1, <1>6, <2>2, <2>3, <2>4, FewerSources
<1>7. CASE json[s] # <<>> /\ forwarding /\ out' = Append(out, [type |-> Head(json[s]), id |-> stream[s].id])
           /\ json' = [json EXCEPT ![s] = Tail(@)] /\ UNCHANGED relay
  <2>1. PICK type \in Messages : type = Head(json[s]) /\ type = json[s][1]
    BY <1>2, <1>7
  <2>2. /\ json'[s] = Tail(json[s]) /\ Len(json[s]) \in Nat /\ DOMAIN json[s] = 1..Len(json[s]) /\ 1 \in DOMAIN json[s]
        /\ DOMAIN json'[s] = 1..(Len(json[s]) - 1) /\ \A k \in DOMAIN json'[s] : json'[s][k] = json[s][k + 1]
    BY <1>2, <1>7 DEF EngineInv, EngineShape
  <2>3. StreamSends(s) /\ Live(i)
    BY <1>1, <1>4, <1>7 DEF StreamSends, Live
  <2>4. Fewer
    BY <1>1, <1>7, <2>3 DEF Fewer, StreamSends, QuerySends, MainSends
  <2>5. type \in Ends => /\ json'[s] = <<>> /\ handler[s].at \in {"returned", "done"}
                         /\ ~StreamSends(s)'
    <3>1. SUFFICES ASSUME type \in Ends
                   PROVE  json'[s] = <<>> /\ handler[s].at \in {"returned", "done"} /\ ~StreamSends(s)'
      OBVIOUS
    <3>2. type # "next"
      BY <3>1 DEF Ends
    <3>3. Len(json[s]) = 1
      <4>1. ASSUME 2 \in DOMAIN json[s] PROVE FALSE
        <5>1. json[s][1] = "next"
          BY <2>2, <4>1 DEF JsonOrdered
        <5> QED
          BY <2>1, <3>2, <5>1
      <4>2. Len(json[s]) \in Nat /\ 2 \notin 1..Len(json[s]) /\ 1 \in 1..Len(json[s])
        BY <2>2, <4>1
      <4>3. \A n \in Nat : 2 \notin 1..n /\ 1 \in 1..n => n = 1
        OBVIOUS
      <4> QED
        BY ONLY <4>2, <4>3
    <3>4. json'[s] = <<>>
      BY <1>2, <2>2, <3>3
    <3>5. handler[s].at \in {"returned", "done"}
      BY <2>1, <2>2, <3>2 DEF JsonOrdered
    <3> QED
      BY <1>1, <3>4, <3>5 DEF StreamSends, Working
  <2>6. type \in Ends /\ phase[i] # "reused" => ~Live(i)'
    BY <1>1, <1>4, <2>3, <2>4, <2>5 DEF OneSource, Live, Fewer
  <2>7. /\ OneSource' /\ \A j \in Ids : EndInOut(j) => EndInOut(j)'
        /\ type \in Ends => EndInOut(i)'
    BY <1>1, <1>4, <1>7, <2>1, <2>3, <2>4, <2>6, PassedOn
  <2>8. JsonOrdered'
    <3>1. /\ \A k, l \in DOMAIN json'[s] : k < l => json'[s][k] = "next"
          /\ handler[s].at \notin {"returned", "done"} => \A k \in DOMAIN json'[s] : json'[s][k] = "next"
      <4>1. \A k \in DOMAIN json'[s] : k + 1 \in DOMAIN json[s] /\ json'[s][k] = json[s][k + 1]
        BY <2>2
      <4>2. \A k, l \in DOMAIN json'[s] : k < l => k + 1 < l + 1
        BY <2>2
      <4> QED
        BY <4>1, <4>2 DEF JsonOrdered
    <3>2. \A r \in Streams \ {s} : json'[r] = json[r]
      BY <1>1
    <3> QED
      BY <1>1, <3>1, <3>2 DEF JsonOrdered
  <2>9. EndsOnTheWay'
    <3>1. ASSUME NEW r \in Streams, stream[r] # NoStream, stream[r].id \notin again
          PROVE  /\ phase[stream[r].id] # "unused"
                 /\ handler[r].at = "returned" =>
                       Told(stream[r].id)' \/ \E k \in DOMAIN json'[r] : json'[r][k] \in Ends
                 /\ handler[r].at = "done" => Told(stream[r].id)' \/ r \in untold
      <4>1. PICK j \in Ids : j = stream[r].id
        BY <3>1 DEF SocketShape
      <4>2. Told(j) => Told(j)'
        BY <1>1, <2>7 DEF Told
      <4>3. /\ phase[j] # "unused"
            /\ handler[r].at = "returned" => Told(j) \/ \E k \in DOMAIN json[r] : json[r][k] \in Ends
            /\ handler[r].at = "done" => Told(j) \/ r \in untold
        BY <1>7, <3>1, <4>1 DEF EndsOnTheWay
      <4>4. CASE r # s
        BY <1>1, <4>1, <4>2, <4>3, <4>4 DEF Told
      <4>5. CASE r = s
        <5>1. ASSUME NEW k \in DOMAIN json[s], json[s][k] \in Ends
              PROVE  Told(j)' \/ \E l \in DOMAIN json'[s] : json'[s][l] \in Ends
          <6>1. CASE k = 1
            BY <1>4, <2>1, <2>7, <4>1, <4>5, <5>1, <6>1 DEF Told
          <6>2. CASE k # 1
            <7>1. k - 1 \in DOMAIN json'[s] /\ json'[s][k - 1] = json[s][k]
              BY <2>2, <5>1, <6>2
            <7> QED
              BY <5>1, <7>1
          <6> QED
            BY <6>1, <6>2
        <5> QED
          BY <1>1, <4>1, <4>2, <4>3, <4>5, <5>1 DEF Told
      <4> QED
        BY <4>4, <4>5
    <3>2. \A r \in Streams : handler[r].at \in Working \cup {"returned"} => relay[r] = "running"
      BY <1>7 DEF EndsOnTheWay
    <3> QED
      BY <1>1, <1>7, <3>1, <3>2 DEF EndsOnTheWay, Told
  <2> QED
    BY <2>7, <2>8, <2>9
<1>8. CASE json[s] # <<>>
  <2>1. /\ Enqueue(Head(json[s]), stream[s].id)
        /\ json' = [json EXCEPT ![s] = IF forwarding THEN Tail(@) ELSE <<>>]
        /\ relay' = [relay EXCEPT ![s] = IF forwarding THEN @ ELSE "ended"]
    BY <1>8 DEF Relay
  <2>2. CASE forwarding
    <3>1. UNCHANGED relay
      BY <2>1, <2>2 DEF EngineInv, EngineShape
    <3> QED
      BY <1>7, <1>8, <2>1, <2>2, <3>1 DEF Enqueue
  <2>3. CASE ~forwarding
    BY <1>6, <1>8, <2>1, <2>3 DEF Enqueue
  <2> QED
    BY <2>2, <2>3
<1> QED
  BY <1>5, <1>8 DEF Relay

LEMMA AbortRelayKeepsPromise ==
  ASSUME EngineInv, SocketShape, JsonOrdered, OneSource, EndsOnTheWay, NEW s \in Streams, AbortRelay(s)
  PROVE  JsonOrdered' /\ OneSource' /\ EndsOnTheWay'
<1>1. /\ UNCHANGED <<stream, query, main, out, forwarding, phase, again>>
      /\ handler[s].at = "returned" /\ handler'[s].at = "done" /\ json'[s] = <<>> /\ relay'[s] # "running"
      /\ \A r \in Streams \ {s} : handler'[r] = handler[r] /\ relay'[r] = relay[r] /\ json'[r] = json[r]
      /\ untold' = IF json[s] # <<>> THEN untold \cup {s} ELSE untold
  BY DEF AbortRelay, EngineInv, EngineShape, At
<1>2. Fewer
  BY <1>1 DEF Fewer, StreamSends, QuerySends, MainSends
<1>3. JsonOrdered'
  BY <1>1 DEF JsonOrdered
<1>4. EndsOnTheWay'
  <2>1. forwarding /\ stream[s] # NoStream /\ stream[s].id \notin again =>
           Told(stream[s].id) \/ \E k \in DOMAIN json[s] : json[s][k] \in Ends
    BY <1>1 DEF EndsOnTheWay
  <2>2. (\E k \in DOMAIN json[s] : json[s][k] \in Ends) => json[s] # <<>>
    BY DEF EngineInv, EngineShape
  <2> QED
    BY <1>1, <2>1, <2>2 DEF EndsOnTheWay, Told, EndInOut, Working
<1> QED
  BY <1>1, <1>2, <1>3, <1>4, FewerSources

LEMMA ForwardKeepsPromise ==
  ASSUME SocketShape, JsonOrdered, OneSource, EndsOnTheWay, Forward
  PROVE  JsonOrdered' /\ OneSource' /\ EndsOnTheWay'
<1>1. UNCHANGED <<handler, json, relay, stream, query, main, untold, again>>
  BY DEF Forward, engineVars
<1>2. JsonOrdered' /\ \A i \in Ids : Live(i)' <=> Live(i)
  BY <1>1 DEF JsonOrdered, Live, MainSends, QuerySends, StreamSends
<1>3. CASE forwarding' = FALSE /\ out' = <<>> /\ UNCHANGED <<items, phase>>
  <2>1. OneSource'
    BY <1>1, <1>2, <1>3 DEF OneSource, EndInOut, InOut, MainSends, QuerySends, StreamSends
  <2>2. EndsOnTheWay'
    BY <1>1, <1>3 DEF EndsOnTheWay
  <2> QED
    BY <1>2, <2>1, <2>2
<1>4. CASE forwarding /\ out # <<>> /\ out' = Tail(out) /\ Show(Head(out)) /\ UNCHANGED forwarding
  <2>1. /\ Head(out) = out[1] /\ Len(out) \in Nat /\ DOMAIN out = 1..Len(out) /\ 1 \in DOMAIN out
        /\ DOMAIN out' = 1..(Len(out) - 1) /\ \A k \in DOMAIN out' : out'[k] = out[k + 1]
    BY <1>4 DEF SocketShape
  <2>2. out[1].type \in Messages => out[1].id \in Ids
    BY <2>1 DEF SocketShape
  <2>3. \A k \in DOMAIN out' : k + 1 \in DOMAIN out /\ k + 1 # 1 /\ 1 < k + 1
    BY <2>1
  <2>4. \A j \in Ids : (InOut(j)' => InOut(j)) /\ (EndInOut(j)' => EndInOut(j))
    BY <2>1, <2>3 DEF InOut, EndInOut
  <2>5. \A j \in Ids : EndInOut(j) => EndInOut(j)' \/ (out[1].id = j /\ out[1].type \in Ends)
    <3> SUFFICES ASSUME NEW j \in Ids, NEW k \in DOMAIN out, out[k].id = j, out[k].type \in Ends, k # 1
                 PROVE  EndInOut(j)'
      BY DEF EndInOut
    <3>1. k - 1 \in DOMAIN out' /\ out'[k - 1] = out[k]
      BY <2>1
    <3> QED
      BY <3>1 DEF EndInOut
  <2>6. CASE out[1].type \in Ends /\ phase[out[1].id] # "reused"
    <3>1. PICK i \in Ids : i = out[1].id
      BY <2>2, <2>6 DEF Ends, Messages
    <3>2. phase[i] = "open" /\ EndInOut(i) /\ ~Live(i)
      BY <2>1, <2>6, <3>1 DEF OneSource, InOut, EndInOut, Ends, Messages
    <3>3. phase' = [phase EXCEPT ![i] = "ended"]
      BY <1>4, <2>1, <2>6, <3>1, <3>2 DEF Show, Ends
    <3>4. phase'[i] = "ended" /\ \A j \in Ids \ {i} : phase'[j] = phase[j]
      BY <3>3 DEF SocketShape
    <3>5. ~InOut(i)'
      <4> SUFFICES ASSUME NEW k \in DOMAIN out', out'[k].id = i, out'[k].type \in Messages PROVE FALSE
        BY DEF InOut
      <4>1. 1 < k + 1 /\ k + 1 \in DOMAIN out /\ out[k + 1].id = i /\ out[k + 1].type \in Messages
        BY <2>1, <2>3
      <4> QED
        BY <2>1, <2>6, <3>1, <4>1 DEF OneSource
    <3>6. OneSource'
      <4> SUFFICES ASSUME NEW j \in Ids, phase'[j] # "reused"
                   PROVE  /\ \A s, r \in Streams :
                               (stream[s].id = j /\ stream[r].id = j /\ StreamSends(s) /\ StreamSends(r)) => s = r
                          /\ ~ (MainSends(j) /\ QuerySends(j))
                          /\ \A s \in Streams : stream[s].id = j /\ StreamSends(s) => ~MainSends(j) /\ ~QuerySends(j)
                          /\ \A k, l \in DOMAIN out' :
                                (k < l /\ out'[k].id = j /\ out'[l].id = j /\ out'[l].type \in Messages)
                                    => out'[k].type \notin Ends
                          /\ EndInOut(j)' => ~Live(j)
                          /\ phase'[j] # "open" => ~Live(j) /\ ~InOut(j)'
        BY <1>1, <1>2 DEF OneSource, MainSends, QuerySends, StreamSends
      <4>1. phase[j] # "reused"
        BY <3>2, <3>4
      <4>2. ASSUME NEW k \in DOMAIN out', NEW l \in DOMAIN out', k < l, out'[k].id = j,
                   out'[l].id = j, out'[l].type \in Messages
            PROVE  out'[k].type \notin Ends
        <5>1. k + 1 \in DOMAIN out /\ l + 1 \in DOMAIN out /\ k + 1 < l + 1
          BY <2>1, <4>2
        <5> QED
          BY <2>1, <4>1, <4>2, <5>1 DEF OneSource
      <4> QED
        BY <2>4, <3>2, <3>4, <3>5, <4>1, <4>2 DEF OneSource
    <3>7. EndsOnTheWay'
      <4>1. \A j \in Ids : phase'[j] = "reused" => phase[j] = "reused"
        BY <3>4
      <4>2. \A j \in Ids : Told(j) => Told(j)'
        BY <2>5, <3>1, <3>4 DEF Told
      <4>3. \A j \in Ids : phase[j] # "unused" => phase'[j] # "unused"
        BY <3>4
      <4>4. \A r \in Streams : stream[r] # NoStream => stream[r].id \in Ids
        BY DEF SocketShape
      <4> QED
        BY <1>1, <1>4, <4>1, <4>2, <4>3, <4>4, SMTT(30) DEF EndsOnTheWay
    <3> QED
      BY <1>2, <3>6, <3>7
  <2>7. CASE ~ (out[1].type \in Ends /\ phase[out[1].id] # "reused")
    <3>1. UNCHANGED phase
      BY <1>4, <2>1, <2>7 DEF Show, Ends
    <3>2. OneSource'
      <4> SUFFICES ASSUME NEW j \in Ids, phase[j] # "reused"
                   PROVE  \A k, l \in DOMAIN out' :
                             (k < l /\ out'[k].id = j /\ out'[l].id = j /\ out'[l].type \in Messages)
                                    => out'[k].type \notin Ends
        BY <1>1, <1>2, <2>4, <3>1 DEF OneSource, MainSends, QuerySends, StreamSends
      <4>2. ASSUME NEW k \in DOMAIN out', NEW l \in DOMAIN out', k < l, out'[k].id = j,
                   out'[l].id = j, out'[l].type \in Messages
            PROVE  out'[k].type \notin Ends
        <5>1. k + 1 \in DOMAIN out /\ l + 1 \in DOMAIN out /\ k + 1 < l + 1
          BY <2>1, <4>2
        <5> QED
          BY <2>1, <4>2, <5>1 DEF OneSource
      <4> QED
        BY <4>2
    <3>3. \A j \in Ids : EndInOut(j) => EndInOut(j)' \/ j \in again
      BY <2>5, <2>7 DEF EndsOnTheWay
    <3>4. EndsOnTheWay'
      BY <1>1, <1>4, <3>1, <3>3 DEF EndsOnTheWay, Told, SocketShape
    <3> QED
      BY <1>2, <3>2, <3>4
  <2> QED
    BY <2>6, <2>7
<1> QED
  BY <1>3, <1>4 DEF Forward

\* The client's messages that use no id.
LEMMA SameButMain ==
  ASSUME EngineInv, SocketShape, JsonOrdered, OneSource, EndsOnTheWay,
         UNCHANGED <<handler, json, relay, stream, query, out, phase, again, untold, forwarding>>,
         \A i \in Ids : ~MainSends(i) /\ ~MainSends(i)'
  PROVE  JsonOrdered' /\ OneSource' /\ EndsOnTheWay'
<1>1. \A i \in Ids : MainSends(i)' = MainSends(i)
  BY DEF MainSends
<1>2. \A s \in Streams : Advances(s)
  BY DEF Advances
<1> QED
  BY <1>1, <1>2, AdvanceKeepsPromise

\* Two sources that send for an id are one.
Alone(i) ==
    /\ \A s, r \in Streams :
          (stream[s].id = i /\ stream[r].id = i /\ StreamSends(s) /\ StreamSends(r)) => s = r
    /\ ~ (MainSends(i) /\ QuerySends(i))
    /\ \A s \in Streams : stream[s].id = i /\ StreamSends(s) => ~MainSends(i) /\ ~QuerySends(i)

\* An id that is used anew has had no source, and gets one.
LEMMA AnewKeepsOneSource ==
  ASSUME SocketShape, OneSource, NEW i \in Ids, Used(i), UNCHANGED out,
         phase[i] \in {"unused", "ended"} => Alone(i)',
         \A j \in Ids \ {i} : /\ QuerySends(j)' => QuerySends(j)
                              /\ MainSends(j)' => MainSends(j)
                              /\ \A s \in Streams : StreamSends(s)' /\ stream'[s].id = j =>
                                                    StreamSends(s) /\ stream[s].id = j
  PROVE  OneSource'
<1>1. /\ phase'[i] # "reused" => phase[i] \in {"unused", "ended"} /\ phase'[i] = "open"
      /\ \A j \in Ids \ {i} : phase'[j] = phase[j]
  BY DEF Used, SocketShape
<1>2. \A j \in Ids : InOut(j)' = InOut(j) /\ EndInOut(j)' = EndInOut(j) /\ (EndInOut(j) => InOut(j))
  BY DEF InOut, EndInOut, Ends, Messages
<1>3. ASSUME NEW j \in Ids, phase'[j] # "reused", j # i
      PROVE  /\ Alone(j)' /\ (Live(j)' => Live(j))
             /\ \A k, l \in DOMAIN out' :
                  (k < l /\ out'[k].id = j /\ out'[l].id = j /\ out'[l].type \in Messages)
                      => out'[k].type \notin Ends
  <2>1. phase[j] # "reused"
    BY <1>1, <1>3
  <2>2. Alone(j)
    BY <2>1 DEF OneSource, Alone
  <2>3. Alone(j)' /\ (Live(j)' => Live(j))
    BY <1>3, <2>2 DEF Alone, Live
  <2> QED
    BY <2>1, <2>3 DEF OneSource
<1>4. ASSUME phase'[i] # "reused"
      PROVE  /\ Alone(i)' /\ phase'[i] = "open" /\ ~InOut(i)
             /\ \A k, l \in DOMAIN out' :
                  (k < l /\ out'[k].id = i /\ out'[l].id = i /\ out'[l].type \in Messages)
                      => out'[k].type \notin Ends
  <2>1. phase[i] \in {"unused", "ended"} /\ phase'[i] = "open"
    BY <1>1, <1>4
  <2>2. ~InOut(i)
    BY <2>1 DEF OneSource
  <2> QED
    BY <2>1, <2>2 DEF InOut
<1>5. \A j \in Ids : phase'[j] # "reused" =>
        /\ Alone(j)' /\ (EndInOut(j)' => ~Live(j)') /\ (phase'[j] # "open" => ~Live(j)' /\ ~InOut(j)')
        /\ \A k, l \in DOMAIN out' :
              (k < l /\ out'[k].id = j /\ out'[l].id = j /\ out'[l].type \in Messages)
                  => out'[k].type \notin Ends
  BY <1>1, <1>2, <1>3, <1>4 DEF OneSource
<1> QED
  BY <1>5 DEF OneSource, Alone

LEMMA AnewKeepsEnds ==
  ASSUME SocketShape, EndsOnTheWay, NEW i \in Ids, Used(i), UNCHANGED <<out, untold, forwarding, json>>,
         \A s \in Streams :
             \/ handler'[s].at = handler[s].at /\ relay'[s] = relay[s] /\ stream'[s] = stream[s]
             \/ handler'[s].at = "spawned" /\ relay'[s] = "running" /\ stream'[s].id = i
  PROVE  EndsOnTheWay'
<1>1. /\ phase'[i] # "unused" /\ again \subseteq again' /\ again' \subseteq again \cup {i}
      /\ i \notin again' => phase[i] = "unused"
      /\ phase'[i] = "reused" => i \in again'
      /\ \A j \in Ids \ {i} : phase'[j] = phase[j]
  <2>1. phase[i] \in {"unused", "open", "ended", "reused"}
    BY DEF SocketShape
  <2> QED
    BY <2>1 DEF Used, SocketShape
<1>2. \A j \in Ids : phase'[j] = "reused" => j \in again'
  BY <1>1 DEF EndsOnTheWay
<1>3. ASSUME forwarding, NEW s \in Streams
      PROVE  /\ handler'[s].at \in Working \cup {"returned"} => relay'[s] = "running"
             /\ stream'[s] # NoStream /\ stream'[s].id \notin again' =>
                  /\ phase'[stream'[s].id] # "unused"
                  /\ handler'[s].at = "returned" =>
                       Told(stream[s].id)' \/ \E k \in DOMAIN json'[s] : json'[s][k] \in Ends
                  /\ handler'[s].at = "done" => Told(stream[s].id)' \/ s \in untold'
  <2>1. CASE handler'[s].at = "spawned" /\ relay'[s] = "running" /\ stream'[s].id = i
    BY <1>1, <2>1
  <2>2. CASE handler'[s].at = handler[s].at /\ relay'[s] = relay[s] /\ stream'[s] = stream[s]
    <3>1. handler[s].at \in Working \cup {"returned"} => relay[s] = "running"
      BY <1>3 DEF EndsOnTheWay
    <3>2. ASSUME stream[s] # NoStream, stream[s].id \notin again'
          PROVE  stream[s].id # i /\ stream[s].id \in Ids
      <4>1. stream[s].id \in Ids /\ stream[s].id \notin again
        BY <1>1, <3>2 DEF SocketShape
      <4>2. phase[stream[s].id] # "unused"
        BY <1>3, <3>2, <4>1 DEF EndsOnTheWay
      <4> QED
        BY <1>1, <3>2, <4>1, <4>2
    <3>3. ASSUME NEW j \in Ids \ {i}, Told(j) PROVE Told(j)'
      BY <1>1, <3>3 DEF Told, EndInOut
    <3>4. ASSUME NEW j \in Ids \ {i}, j = stream[s].id, stream[s] # NoStream, j \notin again'
          PROVE  /\ phase'[j] # "unused"
                 /\ handler'[s].at = "returned" =>
                       Told(j)' \/ \E k \in DOMAIN json'[s] : json'[s][k] \in Ends
                 /\ handler'[s].at = "done" => Told(j)' \/ s \in untold'
      <4>1. /\ phase[j] # "unused"
            /\ handler[s].at = "returned" => Told(j) \/ \E k \in DOMAIN json[s] : json[s][k] \in Ends
            /\ handler[s].at = "done" => Told(j) \/ s \in untold
        BY <1>1, <1>3, <3>4 DEF EndsOnTheWay
      <4> QED
        BY <1>1, <2>2, <3>3, <3>4, <4>1
    <3> QED
      <4>1. stream'[s] # NoStream /\ stream'[s].id \notin again' => stream[s].id \in Ids \ {i}
        BY <2>2, <3>2
      <4>2. ASSUME stream'[s] # NoStream, stream'[s].id \notin again'
            PROVE  /\ phase'[stream'[s].id] # "unused"
                   /\ handler'[s].at = "returned" =>
                       Told(stream[s].id)' \/ \E k \in DOMAIN json'[s] : json'[s][k] \in Ends
                   /\ handler'[s].at = "done" => Told(stream[s].id)' \/ s \in untold'
        <5>1. PICK j \in Ids \ {i} : j = stream[s].id
          BY <4>1, <4>2
        <5>2. stream'[s].id = j
          BY <2>2, <5>1
        <5> QED
          BY <2>2, <3>4, <4>2, <5>1, <5>2 DEF Told, EndInOut
      <4> QED
        BY <2>2, <3>1, <4>2
  <2> QED
    BY <2>1, <2>2
<1>4. UNCHANGED forwarding
  OBVIOUS
<1> QED
  BY <1>2, <1>3, <1>4 DEF EndsOnTheWay, Told, EndInOut

LEMMA ClientKeepsPromise ==
  ASSUME EngineInv, SocketShape, JsonOrdered, OneSource, EndsOnTheWay, Client
  PROVE  JsonOrdered' /\ OneSource' /\ EndsOnTheWay'
<1>1. CASE ConnectionInit \/ Hangup
  <2>1. UNCHANGED <<handler, json, relay, stream, query, out, phase, again, untold, forwarding>>
    BY <1>1 DEF ConnectionInit, Hangup, engineVars, history
  <2>2. main' = main \/ (main.at # "error" /\ main'.at # "error")
    BY <1>1 DEF ConnectionInit, Hangup, NextMessage, Receiving
  <2>3. \A i \in Ids : MainSends(i)' = MainSends(i)
    BY <2>2 DEF MainSends
  <2>4. \A s \in Streams : Advances(s)
    BY <2>1 DEF Advances
  <2> QED
    BY <2>1, <2>3, <2>4, AdvanceKeepsPromise
<1>2. ASSUME NEW i \in Ids, ClientComplete(i) PROVE JsonOrdered' /\ OneSource' /\ EndsOnTheWay'
  <2>1. UNCHANGED <<handler, json, relay, stream, query, out, phase, again, untold, forwarding>>
    BY <1>2 DEF ClientComplete, history
  <2>2. main.at = "receive" /\ main'.at \in {"receive", "abort"}
    BY <1>2 DEF ClientComplete, NextMessage, Receiving
  <2> QED
    BY <2>1, <2>2, SameButMain DEF MainSends
<1>3. ASSUME NEW i \in Ids, Refused(i) PROVE JsonOrdered' /\ OneSource' /\ EndsOnTheWay'
  <2>1. /\ UNCHANGED <<handler, json, relay, stream, query, out, untold, forwarding>> /\ Used(i)
        /\ main.at = "receive" /\ main'.at = "error" /\ main'.id = i
    BY <1>3 DEF Refused, NextMessage, Receiving, engineVars
  <2>2. /\ \A s \in Streams : StreamSends(s)' <=> StreamSends(s)
        /\ \A j \in Ids : (QuerySends(j)' <=> QuerySends(j)) /\ (j # i => ~MainSends(j)')
    BY <2>1 DEF StreamSends, QuerySends, MainSends
  <2>3. phase[i] \in {"unused", "ended"} => Alone(i)'
    <3>1. phase[i] \in {"unused", "ended"} => ~Live(i)
      BY DEF OneSource
    <3> QED
      BY <2>1, <2>2, <3>1 DEF Alone, Live
  <2>4. OneSource'
    BY <2>1, <2>2, <2>3, AnewKeepsOneSource
  <2> QED
    BY <2>1, <2>4, AnewKeepsEnds, SameOrder DEF SameEngine
<1>4. ASSUME NEW i \in Ids, Query(i) PROVE JsonOrdered' /\ OneSource' /\ EndsOnTheWay'
  <2>1. /\ UNCHANGED <<handler, json, relay, stream, main, out, untold, forwarding>> /\ Used(i)
        /\ main.at = "receive" /\ \A j \in Ids \ {i} : query'[j] = query[j]
    BY <1>4 DEF Query, NextMessage, engineVars, SocketShape
  <2>2. /\ \A s \in Streams : StreamSends(s)' <=> StreamSends(s)
        /\ \A j \in Ids : (QuerySends(j)' /\ j # i => QuerySends(j)) /\ ~MainSends(j)'
    BY <2>1 DEF StreamSends, QuerySends, MainSends
  <2>3. phase[i] \in {"unused", "ended"} => Alone(i)'
    <3>1. phase[i] \in {"unused", "ended"} => ~Live(i)
      BY DEF OneSource
    <3> QED
      BY <2>1, <2>2, <3>1 DEF Alone, Live
  <2>4. OneSource'
    BY <2>1, <2>2, <2>3, AnewKeepsOneSource
  <2> QED
    BY <2>1, <2>4, AnewKeepsEnds, SameOrder DEF SameEngine
<1>5. ASSUME NEW i \in Ids, Subscribe(i) PROVE JsonOrdered' /\ OneSource' /\ EndsOnTheWay'
  <2>1. /\ UNCHANGED <<json, query, main, out, untold, forwarding>> /\ Used(i) /\ main.at = "receive"
    BY <1>5 DEF Subscribe, NextMessage
  <2>2. PICK s \in Streams \ Started :
          /\ \E fields \in Requests[s] : stream' = [stream EXCEPT ![s] = [id |-> i, fields |-> fields]]
          /\ handler' = [handler EXCEPT ![s] = At("spawned")]
          /\ relay' = [relay EXCEPT ![s] = "running"]
    BY <1>5 DEF Subscribe
  <2>3. /\ handler[s].at = "none" /\ json[s] = <<>> /\ relay[s] = "none"
        /\ stream'[s].id = i /\ handler'[s].at = "spawned" /\ relay'[s] = "running"
        /\ \A r \in Streams \ {s} : stream'[r] = stream[r] /\ handler'[r] = handler[r] /\ relay'[r] = relay[r]
    BY <2>2 DEF SocketShape, EngineInv, EngineShape, Started, At
  <2>4. /\ \A r \in Streams \ {s} : StreamSends(r)' <=> StreamSends(r)
        /\ \A j \in Ids : (QuerySends(j)' <=> QuerySends(j)) /\ ~MainSends(j)'
    BY <2>1, <2>3 DEF StreamSends, QuerySends, MainSends
  <2>5. phase[i] \in {"unused", "ended"} => Alone(i)'
    <3>1. phase[i] \in {"unused", "ended"} => ~Live(i)
      BY DEF OneSource
    <3>2. phase[i] \in {"unused", "ended"} =>
             ~QuerySends(i)' /\ \A r \in Streams : stream'[r].id = i /\ StreamSends(r)' => r = s
      BY <2>3, <2>4, <3>1 DEF Live
    <3> QED
      BY <2>4, <3>2 DEF Alone
  <2>6. OneSource'
    BY <2>1, <2>3, <2>4, <2>5, AnewKeepsOneSource
  <2>7. JsonOrdered'
    BY <2>1, <2>3 DEF JsonOrdered
  <2> QED
    BY <2>1, <2>3, <2>6, <2>7, AnewKeepsEnds
<1> QED
  BY <1>1, <1>2, <1>3, <1>4, <1>5 DEF Client

LEMMA MainKeepsPromise ==
  ASSUME EngineInv, SocketShape, JsonOrdered, OneSource, EndsOnTheWay, Main
  PROVE  JsonOrdered' /\ OneSource' /\ EndsOnTheWay'
<1>1. CASE AbortHandler
  <2>1. PICK s \in Streams : s = main.s /\ handler[s].at # "none"
    BY <1>1 DEF AbortHandler, SocketShape
  <2>2. /\ Abort(s) /\ main.at # "error" /\ main'.at # "error"
        /\ UNCHANGED <<stream, query, out, phase, again, untold, forwarding>>
    BY <1>1, <2>1 DEF AbortHandler, Receiving, history
  <2>3. UNCHANGED relay /\ \A r \in Streams : Advances(r)
    BY <2>1, <2>2, EngineAdvances
  <2>4. \A i \in Ids : MainSends(i)' = MainSends(i)
    BY <2>2 DEF MainSends
  <2> QED
    BY <2>2, <2>3, <2>4, AdvanceKeepsPromise
<1>2. CASE Leave
  <2>1. UNCHANGED <<handler, json, relay, stream, query, out, phase, again, untold, forwarding>>
    BY <1>2 DEF Leave, history
  <2>2. main.at # "error" /\ main'.at # "error"
    BY <1>2 DEF Leave, Receiving
  <2> QED
    BY <2>1, <2>2, SameButMain DEF MainSends
<1> QED
  BY <1>1, <1>2, ReplyKeepsPromise DEF Main

LEMMA EngineKeepsPromise ==
  ASSUME EngineInv, SocketShape, JsonOrdered, OneSource, EndsOnTheWay, NEW s \in Streams,
         \/ Start(s, stream[s].fields) \/ HandlerTask(s)
         \/ \E g \in Subgraphs : UpstreamTask(s, g) \/ Hear(s, g),
         UNCHANGED socketVars
  PROVE  JsonOrdered' /\ OneSource' /\ EndsOnTheWay'
<1>1. UNCHANGED relay /\ \A r \in Streams : Advances(r)
  BY EngineAdvances
<1>2. UNCHANGED <<stream, query, main, out, phase, again, untold, forwarding>>
  BY DEF socketVars
<1>3. \A i \in Ids : MainSends(i)' = MainSends(i)
  BY <1>2 DEF MainSends
<1> QED
  BY <1>1, <1>2, <1>3, AdvanceKeepsPromise

SocketInv == EngineInv /\ SocketShape /\ JsonOrdered /\ OneSource /\ EndsOnTheWay

LEMMA StepKeepsSocketInv == SocketInv /\ [Next]_vars => SocketInv'
<1> SUFFICES ASSUME EngineInv, SocketShape, JsonOrdered, OneSource, EndsOnTheWay, [Next]_vars
             PROVE  SocketInv'
  BY DEF SocketInv
<1>1. EngineInv'
  BY StepKeepsEngine
<1>2. SocketShape'
  BY <1>1, StepKeepsSocketShape
<1>3. JsonOrdered' /\ OneSource' /\ EndsOnTheWay'
  <2>1. CASE Tasks
    <3>1. ASSUME NEW s \in Streams, Handler(s) PROVE JsonOrdered' /\ OneSource' /\ EndsOnTheWay'
      BY <3>1, EngineKeepsPromise, AbortRelayKeepsPromise DEF Handler
    <3>2. ASSUME NEW s \in Streams, NEW g \in Subgraphs, Upstream(s, g)
          PROVE  JsonOrdered' /\ OneSource' /\ EndsOnTheWay'
      BY <3>2, EngineKeepsPromise DEF Upstream
    <3> QED
      BY <2>1, <3>1, <3>2, MainKeepsPromise, ForwardKeepsPromise, RelayKeepsPromise, QueryKeepsPromise
      DEF Tasks
  <2>2. ASSUME NEW s \in Streams, NEW g \in Subgraphs, Hear(s, g), UNCHANGED socketVars
        PROVE  JsonOrdered' /\ OneSource' /\ EndsOnTheWay'
    BY <2>2, EngineKeepsPromise
  <2>3. CASE UNCHANGED vars
    <3>1. UNCHANGED <<handler, json, relay, stream, query, main, out, phase, again, untold, forwarding>>
      BY <2>3 DEF vars, engineVars, socketVars
    <3>2. \A s \in Streams : Advances(s)
      BY <3>1 DEF Advances
    <3>3. \A i \in Ids : MainSends(i)' = MainSends(i)
      BY <3>1 DEF MainSends
    <3> QED
      BY <3>1, <3>2, <3>3, AdvanceKeepsPromise
  <2> QED
    BY <2>1, <2>2, <2>3, ClientKeepsPromise DEF Next
<1> QED
  BY <1>1, <1>2, <1>3 DEF SocketInv

\* The invariant the theorems below follow from, of the engine and the socket together.
THEOREM SocketInvAlways == Spec => []SocketInv
<1>1. Init => SocketInv
  BY SocketHoldsFirst DEF SocketInv
<1> QED
  BY <1>1, StepKeepsSocketInv, PTL DEF Spec

\* The connection's and the engine's state keep their types: TypeOK.
THEOREM ConnectionIsTyped == Spec => []TypeOK
<1>1. SocketInv => TypeOK
  <2> SUFFICES ASSUME EngineShape, Counted, SocketShape PROVE TypeOK
    BY DEF SocketInv, EngineInv
  <2>1. permits \in 0..MaxUpstreams
    BY Constants, CountsAreNat DEF EngineShape, Counted
  <2>2. {active, connections} \subseteq Nat
    BY DEF EngineShape
  <2>3. EngineTypeOK
    BY <2>1, <2>2 DEF EngineTypeOK, EngineShape, HandlerSteps, UpstreamSteps
  <2> QED
    BY <2>3 DEF TypeOK, SocketShape
<1> QED
  BY <1>1, SocketInvAlways, PTL

\* The gauges of SubscriptionMetrics never show less than what runs: GaugesNeverUnderstate.
THEOREM GaugesHold == Spec => []GaugesNeverUnderstate
<1>1. SocketInv => GaugesNeverUnderstate
  <2> SUFFICES ASSUME EngineShape, Counted PROVE GaugesNeverUnderstate
    BY DEF SocketInv, EngineInv
  <2>1. {p \in Streams \X Subgraphs : p[2] \in Running(p[1]) /\ upstream[p[1]][p[2]] # "spawned"} = Linked
    BY DEF Linked, Running, EngineShape, UpstreamSteps
  <2> QED
    BY <2>1 DEF GaugesNeverUnderstate, Counted, Serving
<1> QED
  BY <1>1, SocketInvAlways, PTL

\* However handlers start, end and are aborted, no more upstream subscriptions run than
\* max_upstream_subscriptions has permits for: UpstreamsWithinPermits.
THEOREM PermitsCoverUpstreams == Spec => []UpstreamsWithinPermits
<1>1. SocketInv => UpstreamsWithinPermits
  <2> SUFFICES ASSUME EngineShape, Counted PROVE UpstreamsWithinPermits
    BY DEF SocketInv, EngineInv
  <2> DEFINE Covered == {p \in Streams \X Subgraphs : p[2] \in Running(p[1]) /\ handler[p[1]].at # "aborted"}
  <2>1. Covered \subseteq Taken
    <3> SUFFICES ASSUME NEW s \in Streams, NEW g \in Subgraphs, upstream[s][g] \notin {"none", "ended"},
                        handler[s].at # "aborted"
                 PROVE  MergedOpen(s)
      BY DEF Taken, Running
    <3> QED
      BY DEF Counted, EngineShape, HandlerSteps, MergedOpen
  <2>2. Taken \in SUBSET Pairs
    BY DEF Taken, Pairs
  <2>3. Cardinality(Covered) <= Cardinality(Taken)
    BY <2>1, <2>2, FiniteCounts, FS_Subset
  <2>4. MaxUpstreams - permits = Cardinality(Taken)
    BY Constants, CountsAreNat DEF Counted
  <2> QED
    BY <2>3, <2>4 DEF UpstreamsWithinPermits
<1> QED
  BY <1>1, SocketInvAlways, PTL

\* The end of a stream that has returned reaches the client, or is on its way, unless the client
\* had given the id up: EndsAreTold.
THEOREM EndsReachTheClient == Spec => []EndsAreTold
<1>1. SocketInv => EndsAreTold
  <2> SUFFICES ASSUME SocketInv, NEW s \in Streams, NEW i \in Ids, handler[s].at = "done",
                      stream[s].id = i, forwarding, i \notin again
               PROVE  Told(i) \/ s \in untold
    BY DEF EndsAreTold, Told, EndInOut, Ends
  <2>1. stream[s] # NoStream
    BY DEF SocketInv, SocketShape
  <2> QED
    BY <2>1 DEF SocketInv, EndsOnTheWay
<1> QED
  BY <1>1, SocketInvAlways, PTL

\* What the client sees of a message is what the protocol promises.
LEMMA ShownAsPromised ==
  ASSUME SocketShape, OneSource, out # <<>>, Show(Head(out))
  PROVE  Promise!Next \/ UNCHANGED <<phase, items>>
<1>1. PICK m : m = Head(out)
  OBVIOUS
<1>2. m = out[1] /\ 1 \in DOMAIN out
  BY <1>1 DEF SocketShape
<1>3. m.type \in Messages => m.id \in Ids
  BY <1>2 DEF SocketShape
<1>4. m.type \in Messages /\ phase[m.id] # "reused" => phase[m.id] = "open"
  BY <1>2, <1>3 DEF OneSource, InOut
<1>5. CASE m.type \in Messages /\ phase[m.id] # "reused"
  <2>1. PICK i \in Ids : i = m.id
    BY <1>3, <1>5
  <2>2. phase[i] = "open"
    BY <1>4, <1>5, <2>1
  <2>3. Promise!Item(i) \/ Promise!End(i)
    BY <1>1, <1>5, <2>1, <2>2 DEF Show, Messages, Promise!Item, Promise!End
  <2> QED
    BY <2>3 DEF Promise!Next
<1>6. CASE ~ (m.type \in Messages /\ phase[m.id] # "reused")
  BY <1>1, <1>6 DEF Show, Messages
<1> QED
  BY <1>5, <1>6

LEMMA UsedAsPromised ==
  ASSUME SocketShape, NEW i \in Ids, Used(i)
  PROVE  Promise!Next
<1>1. phase[i] \in {"unused", "open", "ended", "reused"}
  BY DEF SocketShape
<1>2. Promise!Subscribe(i) \/ Promise!Reuse(i)
  BY <1>1 DEF Used, Promise!Subscribe, Promise!Reuse
<1> QED
  BY <1>2 DEF Promise!Next

LEMMA StepsAsPromised == SocketInv /\ [Next]_vars => [Promise!Next]_(Promise!vars)
<1> SUFFICES ASSUME SocketShape, OneSource, [Next]_vars PROVE Promise!Next \/ UNCHANGED <<phase, items>>
  BY DEF SocketInv, Promise!vars
<1>1. CASE Client
  BY <1>1, UsedAsPromised DEF Client, ConnectionInit, Hangup, Refused, Query, Subscribe, ClientComplete, history
<1>2. CASE Forward
  BY <1>2, ShownAsPromised DEF Forward
<1>3. CASE Main
  BY <1>3 DEF Main, AbortHandler, Reply, Leave, history
<1>4. ASSUME NEW s \in Streams, Handler(s) \/ Relay(s) \/ \E g \in Subgraphs : Upstream(s, g)
      PROVE  UNCHANGED <<phase, items>>
  BY <1>4 DEF Handler, AbortRelay, Relay, Upstream, socketVars, history
<1>5. ASSUME NEW i \in Ids, QueryTask(i) PROVE UNCHANGED <<phase, items>>
  BY <1>5 DEF QueryTask, history
<1>6. ASSUME NEW s \in Streams, NEW g \in Subgraphs, Hear(s, g) /\ UNCHANGED socketVars PROVE UNCHANGED <<phase, items>>
  BY <1>6 DEF socketVars
<1>7. CASE UNCHANGED vars
  BY <1>7 DEF vars, socketVars
<1> QED
  BY <1>1, <1>2, <1>3, <1>4, <1>5, <1>6, <1>7 DEF Next, Tasks

\* The connection implements what the graphql-ws protocol promises of an operation id
\* (SubscriptionStream): items only between the subscribe and the end, and one end.
THEOREM PromiseIsKept == Spec => KeepsPromise
<1>1. Init => Promise!Init
  BY DEF Init, Promise!Init
<1> QED
  BY <1>1, StepsAsPromised, SocketInvAlways, PTL DEF Spec, KeepsPromise, Promise!Spec

=============================================================================
