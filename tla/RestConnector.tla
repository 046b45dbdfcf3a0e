----------------------------- MODULE RestConnector -----------------------------
(***************************************************************************)
(* RestConnector::execute (src/rest_connector.rs): the look-up of a GET in   *)
(* the connector's cache, the retry loop against a service that may answer    *)
(* with an error, late or not at all, the insertion of a GET's response, and   *)
(* clear_cache.  A response's content is the set of writes it shows.            *)
(***************************************************************************)
EXTENDS Naturals, FiniteSets, SequencesExt

CONSTANTS
    Reads,          \* calls of GET endpoints
    Writes,         \* calls of the others
    RestKeys,       \* an endpoint's name and arguments
    MaxRetries,
    RestCacheSize,
    MaxClears,      \* bound: how often the cache is cleared
    NotCached

Calls == Reads \cup Writes

Ended == [at |-> "ended", key |-> NotCached, attempts |-> 0, shows |-> {}, early |-> FALSE]

ASSUME RestAssumption ==
    /\ Reads \cap Writes = {} /\ MaxRetries \in Nat /\ RestCacheSize \in Nat /\ MaxClears \in Nat
    /\ NotCached \notin [shows : SUBSET Writes, early : BOOLEAN]

VARIABLES
    restCall,   \* call -> where it is, its key, attempts, what its answer shows, and
                \* whether it was answered before the cache was last cleared
    underWay,   \* <<write, attempt>>: requests the service may still perform
    stored,     \* the writes the service has performed
    told,       \* the writes that returned Ok
    restCache, restOrder,   \* RestCache::entries, RestCache::order
    floor,      \* the writes told when the cache was last cleared
    clears

restVars == <<restCall, underWay, stored, told, restCache, restOrder, floor, clears>>
cacheVars == <<restCache, restOrder, floor, clears>>

RestInit ==
    /\ restCall = [c \in Calls |-> [Ended EXCEPT !.at = "start"]]
    /\ underWay = {} /\ stored = {} /\ told = {}
    /\ restCache = [k \in RestKeys |-> NotCached] /\ restOrder = <<>>
    /\ floor = {} /\ clears = 0

CachedKeys == {k \in RestKeys : restCache[k] # NotCached}

MoveCall(c, where) == restCall' = [restCall EXCEPT ![c].at = where]
Ends(c) == restCall' = [restCall EXCEPT ![c] = Ended]

-----------------------------------------------------------------------------
\* build_request or an interceptor refuses the call, or it goes on; a GET that is cached
\* ends here.
Lookup(c) ==
    /\ restCall[c].at = "start"
    /\ \/ Ends(c)
       \/ c \in Writes /\ MoveCall(c, "send")
       \/ \E k \in RestKeys :
             /\ c \in Reads
             /\ IF k \in CachedKeys THEN Ends(c)
                ELSE restCall' = [restCall EXCEPT ![c].key = k, ![c].at = "send"]
    /\ UNCHANGED <<underWay, stored, told, cacheVars>>

\* The top of the loop in execute_with_retry, at first or when the backoff is over.
Send(c) ==
    /\ restCall[c].at = "send"
    /\ restCall' = [restCall EXCEPT ![c].at = "waiting", ![c].attempts = @ + 1, ![c].shows = {},
                                    ![c].early = FALSE]
    /\ underWay' = underWay \cup ({<<c, restCall[c].attempts + 1>>} \cap (Writes \X Nat))
    /\ UNCHANGED <<stored, told, cacheVars>>

Awaited(c, n) == restCall[c].at = "waiting" /\ restCall[c].attempts = n

\* The service answers a GET.
Answer(c) ==
    /\ c \in Reads /\ restCall[c].at = "waiting"
    /\ restCall' = [restCall EXCEPT ![c].at = "answered", ![c].shows = stored]
    /\ UNCHANGED <<underWay, stored, told, cacheVars>>

\* The service performs a write, be it long after the connector gave the request up, and
\* the answer is sent or lost.
Perform(c, n) ==
    /\ <<c, n>> \in underWay
    /\ underWay' = underWay \ {<<c, n>>}
    /\ stored' = stored \cup {c}
    /\ (Awaited(c, n) /\ MoveCall(c, "answered")) \/ UNCHANGED restCall
    /\ UNCHANGED <<told, cacheVars>>

\* Another attempt after the backoff, or the error to the caller.
RetryOrFail(c) == IF restCall[c].attempts <= MaxRetries THEN MoveCall(c, "send") ELSE Ends(c)

\* Mutant of Reject: the status of the answer is not looked at.
RejectUnseen(c) ==
    /\ restCall[c].at = "waiting"
    /\ underWay' = underWay \ {<<c, restCall[c].attempts>>}
    /\ MoveCall(c, "answered")
    /\ UNCHANGED <<stored, told, cacheVars>>

\* The service answers with an error, with a status that is tried again or another; a write
\* may have been performed all the same.
Reject(c) ==
    /\ restCall[c].at = "waiting"
    /\ underWay' = underWay \ {<<c, restCall[c].attempts>>}
    /\ RetryOrFail(c) \/ Ends(c)
    /\ UNCHANGED <<stored, told, cacheVars>>

\* execute_request fails, by its timeout or by an answer that breaks off: the request may
\* still be on its way, or served already.
GiveUp(c) ==
    /\ restCall[c].at \in {"waiting", "answered"}
    /\ RetryOrFail(c)
    /\ UNCHANGED <<underWay, stored, told, cacheVars>>

\* The answer is in, and the transformer takes it or fails.  Only a GET goes on to the cache.
TakeAnswer(c) ==
    /\ restCall[c].at = "answered"
    /\ \/ c \in Reads /\ MoveCall(c, "insert") /\ UNCHANGED told
       \/ c \in Writes /\ Ends(c) /\ told' = told \cup {c}
       \/ Ends(c) /\ UNCHANGED told
    /\ UNCHANGED <<underWay, stored, cacheVars>>

\* RestCache::insert under the write lock: a key in the cache moves to the end of the
\* order, which holds it once (RestTypeOK); a new one takes the place of the oldest.
RestInsert(c) ==
    LET k == restCall[c].key
        kept == IF k \in CachedKeys
                THEN RemoveAt(restOrder, CHOOSE i \in DOMAIN restOrder : restOrder[i] = k)
                ELSE IF Len(restOrder) < RestCacheSize THEN restOrder
                ELSE SubSeq(restOrder, Len(restOrder) - RestCacheSize + 2, Len(restOrder))
    IN  /\ restCall[c].at = "insert"
        /\ restCache' = [l \in RestKeys |->
                            IF l = k THEN [shows |-> restCall[c].shows, early |-> restCall[c].early]
                            ELSE IF l \in ToSet(kept) THEN restCache[l] ELSE NotCached]
        /\ restOrder' = Append(kept, k)
        /\ Ends(c)
        /\ UNCHANGED <<underWay, stored, told, floor, clears>>

\* The caller's future is dropped at an await.
Abandon(c) ==
    /\ restCall[c].at \in {"send", "waiting", "answered", "insert"}
    /\ Ends(c)
    /\ UNCHANGED <<underWay, stored, told, cacheVars>>

\* clear_cache, called by whoever holds the connector.
ClearRest ==
    /\ clears < MaxClears
    /\ clears' = clears + 1
    /\ restCache' = [k \in RestKeys |-> NotCached] /\ restOrder' = <<>>
    /\ floor' = told
    /\ restCall' = [c \in Calls |-> IF restCall[c].at \in {"answered", "insert"}
                                    THEN [restCall[c] EXCEPT !.early = TRUE] ELSE restCall[c]]
    /\ UNCHANGED <<underWay, stored, told>>

RestNext ==
    \/ \E c \in Calls :
         \/ Lookup(c) \/ Send(c) \/ Answer(c) \/ Reject(c) \/ GiveUp(c)
         \/ TakeAnswer(c) \/ RestInsert(c) \/ Abandon(c)
         \/ \E n \in 1..(MaxRetries + 1) : Perform(c, n)
    \/ ClearRest

-----------------------------------------------------------------------------
\* The type invariant: a request is tried at most max_retries + 1 times, and the order
\* holds each key of the cache once, no more of them than the cache's size.
RestTypeOK ==
    /\ \A c \in Calls :
         /\ restCall[c].at \in {"start", "send", "waiting", "answered", "insert", "ended"}
         /\ restCall[c].attempts <= MaxRetries + 1
    /\ underWay \subseteq Writes \X (1..(MaxRetries + 1))
    /\ told \subseteq Writes /\ floor \subseteq Writes /\ stored \subseteq Writes
    /\ IsInjective(restOrder) /\ ToSet(restOrder) = CachedKeys
    /\ Len(restOrder) <= IF RestCacheSize = 0 THEN 1 ELSE RestCacheSize

\* Whatever was lost, late, refused or tried again: once the cache was cleared, a response
\* in it shows every write that had returned Ok before, unless it was already on its way
\* back when the cache was cleared.
ClearedReadsShowWrites ==
    \A k \in CachedKeys : floor \subseteq restCache[k].shows \/ restCache[k].early

=============================================================================
