-------------------------- MODULE RequestCollapsing --------------------------
(***************************************************************************)
(* The registry of in-flight requests (src/request_collapsing.rs), used by  *)
(* the router's two execution modes: a request either leads (it executes    *)
(* and broadcasts) or follows (it waits on the leader's watch channel).     *)
(*                                                                          *)
(* A leader makes one registry entry and one channel, so both are named by  *)
(* the leading request.  A channel has two senders: the broadcaster's, gone *)
(* once the leader has broadcast or was dropped, and the clone inside the   *)
(* entry, gone when nothing holds the entry any more.  broadcast() removes  *)
(* the key from a registry made for that broadcaster alone, so the shared   *)
(* registry keeps the entry.                                                *)
(***************************************************************************)
EXTENDS Naturals, FiniteSets

CONSTANTS
    Requests,       \* requests, each asking once
    Keys,           \* RequestKey: the hash of query and variables
    KeyOf,          \* the key of each request
    Window,         \* coalesce_window, in ticks
    StaleFactor,    \* evict_stale_entries looks for entries 10 windows old
    MaxWaiters,     \* max_waiters
    MaxCacheSize,   \* max_cache_size
    None            \* no entry

ASSUME RegistryAssumption ==
    /\ KeyOf \in [Requests -> Keys]
    /\ Window \in Nat
    /\ StaleFactor \in Nat \ {0}
    /\ MaxWaiters \in Nat
    /\ MaxCacheSize \in Nat
    /\ None \notin Requests

VARIABLES
    pc,            \* where each request stands
    in_flight,     \* HashMap<RequestKey, entry>
    age,           \* time since started_at of the entry of each leader
    waiter_count,  \* InFlightRequest::waiter_count of that entry
    sent,          \* has its watch channel received the result?
    entry,         \* the entry a request has looked up or follows
    late           \* history: the request subscribed after its leader had ended

vars == <<pc, in_flight, age, waiter_count, sent, entry, late>>

Steps == {"new", "found", "lead", "leading", "waiting", "answered", "failed", "dropped"}

Oldest == Window * StaleFactor + 1

Goto(r, step) == pc' = [pc EXCEPT ![r] = step]

Entries == {in_flight[k] : k \in Keys} \ {None}
Registered == {k \in Keys : in_flight[k] # None}

\* The receivers subscribed to the channel of leader l.
Followers(l) == {r \in Requests : pc[r] = "waiting" /\ entry[r] = l}

\* Someone holds the entry: the registry, or a request between lookup and lock.
EntryHeld(l) == l \in Entries \/ \E r \in Requests : pc[r] = "found" /\ entry[r] = l

SenderAlive(l) == pc[l] = "leading" \/ EntryHeld(l)

-----------------------------------------------------------------------------
Init ==
    /\ pc = [r \in Requests |-> "new"]
    /\ in_flight = [k \in Keys |-> None]
    /\ age = [r \in Requests |-> 0]
    /\ waiter_count = [r \in Requests |-> 0]
    /\ sent = [r \in Requests |-> FALSE]
    /\ entry = [r \in Requests |-> None]
    /\ late = [r \in Requests |-> FALSE]

\* The registry's read lock: clone the Arc of the key's entry, release the lock.
Lookup(r) ==
    /\ pc[r] = "new"
    /\ entry' = [entry EXCEPT ![r] = in_flight[KeyOf[r]]]
    /\ Goto(r, IF in_flight[KeyOf[r]] = None THEN "lead" ELSE "found")
    /\ UNCHANGED <<in_flight, age, waiter_count, sent, late>>

\* Mutant of Joinable: one waiter too many.
JoinableOffByOne(l) == age[l] < Window /\ waiter_count[l] <= MaxWaiters

Joinable(l) == age[l] < Window /\ waiter_count[l] < MaxWaiters

\* The entry's own mutex: subscribe, or go on to lead.
Join(r) ==
    LET l == entry[r]
    IN  /\ pc[r] = "found"
        /\ IF Joinable(l)
           THEN /\ waiter_count' = [waiter_count EXCEPT ![l] = @ + 1]
                /\ late' = [late EXCEPT ![r] = pc[l] # "leading"]
                /\ Goto(r, "waiting")
           ELSE Goto(r, "lead") /\ UNCHANGED <<waiter_count, late>>
        /\ UNCHANGED <<in_flight, age, sent, entry>>

\* evict_stale_entries: entries over ten windows old go, except those whose
\* mutex a joining request may hold at that moment (try_lock fails).
Evictable(busy) ==
    {k \in Registered : age[in_flight[k]] > Window * StaleFactor /\ in_flight[k] \notin busy}

\* The registry's write lock: evict if it is full, then insert all the same.
BecomeLeader(r) ==
    /\ pc[r] = "lead"
    /\ \E busy \in SUBSET {entry[q] : q \in {q \in Requests : pc[q] = "found"}} :
         LET evicted == IF Cardinality(Registered) >= MaxCacheSize THEN Evictable(busy) ELSE {}
         IN  in_flight' = [k \in Keys |-> IF k = KeyOf[r] THEN r
                                          ELSE IF k \in evicted THEN None ELSE in_flight[k]]
    /\ age' = [age EXCEPT ![r] = 0]
    /\ Goto(r, "leading")
    /\ UNCHANGED <<waiter_count, sent, entry, late>>

\* Mutant of Broadcast: the leader sends only while its entry is the current one.
BroadcastIfRegistered(r) ==
    /\ pc[r] = "leading"
    /\ sent' = [sent EXCEPT ![r] = Followers(r) # {} /\ in_flight[KeyOf[r]] = r]
    /\ Goto(r, "answered")
    /\ UNCHANGED <<in_flight, age, waiter_count, entry, late>>

\* The leader's call returned.  watch::Sender::send leaves the channel empty
\* when it has no receiver, and the shared registry is not touched.
Broadcast(r) ==
    /\ pc[r] = "leading"
    /\ sent' = [sent EXCEPT ![r] = Followers(r) # {}]
    /\ Goto(r, "answered")
    /\ UNCHANGED <<in_flight, age, waiter_count, entry, late>>

\* RequestReceiver::recv: the current value, else an error once no sender is left.
Receive(r) ==
    /\ pc[r] = "waiting"
    /\ \/ sent[entry[r]] /\ Goto(r, "answered")
       \/ ~sent[entry[r]] /\ ~SenderAlive(entry[r]) /\ Goto(r, "failed")
    /\ UNCHANGED <<in_flight, age, waiter_count, sent, entry, late>>

\* Mutant of Drop: a dropped follower hands its place back.
DropReturnsPlace(r) ==
    /\ pc[r] \in {"found", "leading", "waiting"}
    /\ waiter_count' = IF pc[r] = "waiting"
                       THEN [waiter_count EXCEPT ![entry[r]] = @ - 1] ELSE waiter_count
    /\ Goto(r, "dropped")
    /\ UNCHANGED <<in_flight, age, sent, entry, late>>

\* The request future is dropped at an await: the mutex, the call or the channel.
Drop(r) ==
    /\ pc[r] \in {"found", "leading", "waiting"}
    /\ Goto(r, "dropped")
    /\ UNCHANGED <<in_flight, age, waiter_count, sent, entry, late>>

Tick ==
    /\ age' = [r \in Requests |-> IF age[r] < Oldest THEN age[r] + 1 ELSE Oldest]
    /\ UNCHANGED <<pc, in_flight, waiter_count, sent, entry, late>>

Work(r) == Join(r) \/ BecomeLeader(r) \/ Broadcast(r) \/ Receive(r)

Next ==
    \/ \E r \in Requests : Lookup(r) \/ Work(r) \/ Drop(r)
    \/ Tick

Spec == Init /\ [][Next]_vars

\* A request that has started is polled, and subgraph calls return.
FairSpec == Spec /\ \A r \in Requests : WF_vars(Work(r))

-----------------------------------------------------------------------------
TypeOK ==
    /\ pc \in [Requests -> Steps]
    /\ in_flight \in [Keys -> Requests \cup {None}]
    /\ age \in [Requests -> 0..Oldest]
    /\ waiter_count \in [Requests -> 0..MaxWaiters]
    /\ sent \in [Requests -> BOOLEAN]
    /\ entry \in [Requests -> Requests \cup {None}]
    /\ late \in [Requests -> BOOLEAN]

\* A second leader displaces an entry that could have taken it as a follower
\* only if it had looked the key up before that entry was registered.
OnlyRacersLeadTwice ==
    [][\A r \in Requests : LET l == in_flight[KeyOf[r]]
                           IN  BecomeLeader(r) /\ l # None /\ Joinable(l) => entry[r] # l]_vars

LeaderDropped(r) == entry[r] # None /\ pc[entry[r]] = "dropped"

\* A follower that subscribed in time is given the result and never the error of
\* a closed channel, unless it gives up or its leader was dropped.
TimelyFollowersServed ==
    \A r \in Requests : (pc[r] = "waiting" /\ ~late[r])
        ~> (pc[r] \in {"answered", "dropped"} \/ LeaderDropped(r))

\* "Ignore errors - no receivers is fine", "Clean up the in-flight entry": a
\* leader that completes leaves nobody waiting.  But a request that joins after a
\* broadcast that had no receivers waits on a channel that stays empty and, by
\* the entry left in the registry, open.
FollowersServed ==
    \A r \in Requests : (pc[r] = "waiting")
        ~> (pc[r] # "waiting" \/ LeaderDropped(r))

=============================================================================
