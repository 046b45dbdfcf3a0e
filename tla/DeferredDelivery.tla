--------------------------- MODULE DeferredDelivery ---------------------------
(***************************************************************************)
(* A query with @defer (src/defer.rs, and its handlers in src/runtime.rs):    *)
(* the whole query is executed first, then a spawned task splits the response  *)
(* and sends the parts through a channel to the HTTP stream, which may be      *)
(* dropped with its client.  Fragments carry no path, so the fields they name  *)
(* are taken from the root object only.                                        *)
(***************************************************************************)
EXTENDS Naturals, Sequences

CONSTANTS
    RootFields,     \* fields the response may have at its root
    MaxFragments,   \* max_deferred_fragments
    MaxAsked        \* bound: fragments in a query

ASSUME DeferAssumption == {MaxFragments, MaxAsked} \subseteq Nat

\* The enabled fragments of a query in order, each by the names in it that are fields of
\* the root; the others find nothing.
Queries == UNION {[1..n -> SUBSET RootFields] : n \in 0..MaxAsked}

VARIABLES
    fragments,   \* extract_deferred_fragments, those that execute keeps
    disabled,    \* how many more there are with `if: false`; only their number is used
    data,        \* fields of the full response not yet split off
    response,    \* history: fields of the full response
    splitter,    \* DeferredExecution::execute: where it is, and the patches to send
    parts,       \* the channel
    stream,      \* the HTTP response: "none", "plain", "refused", "open", "ended" or "dropped"
    delivered,   \* parts given to the client
    late         \* history: max_total_timeout was exceeded

deferVars == <<fragments, disabled, data, response, splitter, parts, stream, delivered, late>>

DeferInit ==
    /\ fragments \in Queries
    /\ disabled \in 0..(MaxAsked - Len(fragments))
    /\ data = {} /\ response = {}
    /\ splitter = [at |-> "none", patches |-> <<>>]
    /\ parts = <<>> /\ stream = "none" /\ delivered = <<>> /\ late = FALSE

\* How many fragments extract_deferred_fragments found.
Found == Len(fragments) + disabled

ChannelCapacity == Found + 2

Part(fields, more) == [fields |-> fields, has_next |-> more]

-----------------------------------------------------------------------------
\* Too many fragments: /graphql answers as if there were no @defer, /graphql/defer
\* with an error.
TooMany ==
    /\ stream = "none" /\ Found > MaxFragments
    /\ stream' \in {"plain", "refused"}
    /\ UNCHANGED <<fragments, disabled, data, response, splitter, parts, delivered, late>>

\* handle_http with the directives stripped; data is null when it fails.
Respond ==
    /\ stream = "none" /\ Found <= MaxFragments
    /\ \E fields \in SUBSET RootFields : response' = fields /\ data' = fields
    /\ stream' = "open"
    /\ splitter' = [splitter EXCEPT !.at = "split"]
    /\ UNCHANGED <<fragments, disabled, parts, delivered, late>>

\* extract_and_remove_fields, fragment by fragment: what an earlier one took is gone.
Patches ==
    [i \in DOMAIN fragments |->
        (fragments[i] \cap data) \ UNION {fragments[j] : j \in 1..(i - 1)}]

Initial ==
    LET deferred == UNION {fragments[i] : i \in DOMAIN fragments}
    IN  Part(data \ deferred, fragments # <<>>)

CanSend == stream = "open" /\ Len(parts) < ChannelCapacity

\* A send to a stream that was dropped fails and ends the task.
SendFails ==
    /\ splitter.at \in {"split", "patch", "timeout"} /\ stream # "open"
    /\ splitter' = [at |-> "done", patches |-> <<>>]
    /\ UNCHANGED <<fragments, disabled, data, response, parts, stream, delivered, late>>

SendInitialPart ==
    /\ splitter.at = "split" /\ CanSend
    /\ parts' = Append(parts, Initial)
    /\ data' = Initial.fields
    /\ splitter' = [at |-> IF fragments = <<>> THEN "done" ELSE "patch", patches |-> Patches]
    /\ UNCHANGED <<fragments, disabled, response, stream, delivered, late>>

\* Mutant of SendPatch: the patch before the last is taken for the last.
SendPatchEarly ==
    /\ splitter.at = "patch" /\ CanSend
    /\ parts' = Append(parts, Part(Head(splitter.patches), Len(splitter.patches) > 2))
    /\ splitter' = [at |-> IF Len(splitter.patches) = 1 THEN "done" ELSE "patch",
                    patches |-> Tail(splitter.patches)]
    /\ UNCHANGED <<fragments, disabled, data, response, stream, delivered, late>>

\* One patch; the last has no next.
SendPatch ==
    /\ splitter.at = "patch" /\ CanSend
    /\ parts' = Append(parts, Part(Head(splitter.patches), Len(splitter.patches) > 1))
    /\ splitter' = [at |-> IF Len(splitter.patches) = 1 THEN "done" ELSE "patch",
                    patches |-> Tail(splitter.patches)]
    /\ UNCHANGED <<fragments, disabled, data, response, stream, delivered, late>>

\* Before a patch the clock is looked at; past the total timeout an empty part ends it.
TimeOut ==
    /\ splitter.at = "patch"
    /\ splitter' = [at |-> "timeout", patches |-> <<>>]
    /\ late' = TRUE
    /\ UNCHANGED <<fragments, disabled, data, response, parts, stream, delivered>>

SendFinal ==
    /\ splitter.at = "timeout" /\ CanSend
    /\ parts' = Append(parts, Part({}, FALSE))
    /\ splitter' = [splitter EXCEPT !.at = "done"]
    /\ UNCHANGED <<fragments, disabled, data, response, stream, delivered, late>>

\* The stream: a part; after a patch without a next it ends, and the channel with it.
Receive ==
    /\ stream = "open" /\ parts # <<>>
    /\ delivered' = Append(delivered, Head(parts))
    /\ parts' = Tail(parts)
    /\ stream' = IF delivered # <<>> /\ ~Head(parts).has_next THEN "ended" ELSE "open"
    /\ UNCHANGED <<fragments, disabled, data, response, splitter, late>>

\* The task is over and the channel empty.
CloseStream ==
    /\ stream = "open" /\ parts = <<>> /\ splitter.at = "done"
    /\ stream' = "ended"
    /\ UNCHANGED <<fragments, disabled, data, response, splitter, parts, delivered, late>>

\* The client leaves, and the stream is dropped.
ClientLeaves ==
    /\ stream = "open"
    /\ stream' = "dropped" /\ parts' = <<>>
    /\ UNCHANGED <<fragments, disabled, data, response, splitter, delivered, late>>

-----------------------------------------------------------------------------
DeferNext ==
    \/ TooMany \/ Respond \/ SendFails \/ SendInitialPart \/ SendPatch \/ TimeOut \/ SendFinal
    \/ Receive \/ CloseStream \/ ClientLeaves

DeferTypeOK ==
    /\ fragments \in Seq(SUBSET RootFields) /\ disabled \in Nat
    /\ data \subseteq response /\ response \subseteq RootFields
    /\ splitter.at \in {"none", "split", "patch", "timeout", "done"}
    /\ Len(parts) <= ChannelCapacity
    /\ stream \in {"none", "plain", "refused", "open", "ended", "dropped"}
    /\ late \in BOOLEAN

\* When the stream has ended, every field of the response was in one part and one only,
\* whichever fragments name it, and the last part, but no other, had no next; unless the
\* total timeout was exceeded, and then the last part says so, too.
DeferredIsWhole ==
    stream = "ended" =>
        /\ late \/ \A f \in response : \E n \in DOMAIN delivered :
               f \in delivered[n].fields
                 /\ \A k \in DOMAIN delivered \ {n} : f \notin delivered[k].fields
        /\ \A n \in DOMAIN delivered : delivered[n].has_next <=> n < Len(delivered)

=============================================================================
