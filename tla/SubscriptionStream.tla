--------------------------- MODULE SubscriptionStream ---------------------------
(***************************************************************************)
(* What a client of the graphql-transport-ws protocol may rely on, for each *)
(* operation id (the protocol summary in src/subscription.rs): results come *)
(* only for an operation it has subscribed, in any number, then at most one *)
(* `complete` or `error`, then nothing, until the id is used again.  An id   *)
(* that is used again before its end is outside the promise.                *)
(***************************************************************************)
EXTENDS Naturals

CONSTANT Ids

VARIABLES
    phase,  \* of each id: "unused", "open", "ended", "reused"
    items   \* results received for it

vars == <<phase, items>>

Init == phase = [i \in Ids |-> "unused"] /\ items = [i \in Ids |-> 0]

Subscribe(i) ==
    /\ phase[i] \in {"unused", "ended"}
    /\ phase' = [phase EXCEPT ![i] = "open"]
    /\ items' = [items EXCEPT ![i] = 0]

Item(i) ==
    /\ phase[i] = "open"
    /\ items' = [items EXCEPT ![i] = @ + 1]
    /\ UNCHANGED phase

End(i) ==
    /\ phase[i] = "open"
    /\ phase' = [phase EXCEPT ![i] = "ended"]
    /\ UNCHANGED items

Reuse(i) ==
    /\ phase[i] \in {"open", "reused"}
    /\ phase' = [phase EXCEPT ![i] = "reused"]
    /\ items' = [items EXCEPT ![i] = 0]

Next == \E i \in Ids : Subscribe(i) \/ Item(i) \/ End(i) \/ Reuse(i)

Spec == Init /\ [][Next]_vars

=============================================================================
