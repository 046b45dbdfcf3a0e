--------------------------- MODULE RouterPipeline ---------------------------
(***************************************************************************)
(* The federation router's two ways of executing a request                  *)
(* (src/router/mod.rs): execute_scatter_gather answers with the subgraphs    *)
(* that replied, execute_fail_fast gives up at the first one that failed.    *)
(* Both go through the store of persisted queries, the checks, the response  *)
(* cache, the registry of in-flight requests, the fan-out, the broadcast to  *)
(* followers and the insertion in the cache, and share all of these.         *)
(*                                                                          *)
(* PersistedQueries is composed as it is.  The registry is taken by what it   *)
(* promises (RequestCollapsing has its locks): a request leads, or follows    *)
(* any request that leads the same key, and the channel keeps the result if *)
(* someone was following when it was sent.  A breaker that refuses a call is  *)
(* one way for the call to fail (CircuitBreaker has its states).  The 64-bit   *)
(* hashes of the cache key are taken to be injective.                         *)
(***************************************************************************)
EXTENDS PersistedQueries

CONSTANTS
    Subgraphs,
    Failed         \* the answer Err(_)

ASSUME RouterAssumption ==
    /\ Failed # None /\ None \notin Requests
    /\ {None, Failed} \cap [of : Queries \X Variables, parts : SUBSET Subgraphs] = {}

VARIABLES
    fail_fast,   \* which function the request was given to
    stage,       \* where it stands once its query is resolved
    leader,      \* the request it follows, itself if it leads
    replies,     \* what each subgraph's call has come to
    sent,        \* the channel of this leader holds its result
    cache,       \* the response cache
    answer       \* what the function returned

routerVars == <<fail_fast, stage, leader, replies, sent, cache, answer>>
vars == <<apqVars, routerVars>>

Stages == {"checks", "lookup", "collapse", "follow", "gather", "broadcast", "store",
           "done", "dropped"}

Keys == Queries \X Variables

Result == [of : Keys, parts : SUBSET Subgraphs]

Move(r, step) == stage' = [stage EXCEPT ![r] = step]

Leads(r) == leader[r] = r
Fetching(l) == Leads(l) /\ stage[l] = "gather"
Following(l) == {r \in Requests : stage[r] = "follow" /\ leader[r] = l}

Replied(r, reply) == {s \in Subgraphs : replies[r][s] = reply}

\* What the subgraphs are asked.
Executed(r) == <<resolved[r], ask[r].variables>>

\* compute_cache_key, for the cache and the registry.
Key(r) == <<resolved[r], ask[r].variables>>

-----------------------------------------------------------------------------
Init ==
    /\ ApqInit
    /\ fail_fast \in [Requests -> BOOLEAN]
    /\ stage = [r \in Requests |-> "checks"]
    /\ leader = [r \in Requests |-> None]
    /\ replies = [r \in Requests |-> [s \in Subgraphs |-> "pending"]]
    /\ sent = [r \in Requests |-> FALSE]
    /\ cache = [k \in Keys |-> None]
    /\ answer = [r \in Requests |-> None]

Answer(r, a) == answer' = [answer EXCEPT ![r] = a] /\ Move(r, "done")

\* A query that could not be resolved is the answer to its request.
Reject(r) ==
    /\ pc[r] = "rejected" /\ stage[r] = "checks"
    /\ Answer(r, Failed)
    /\ UNCHANGED <<apqVars, fail_fast, leader, replies, sent, cache>>

\* Introspection, firewall and cost: refused, or on to the cache.
Check(r) ==
    /\ pc[r] = "resolved" /\ stage[r] = "checks"
    /\ \/ Move(r, "lookup") /\ UNCHANGED answer
       \/ Answer(r, Failed)
    /\ UNCHANGED <<apqVars, fail_fast, leader, replies, sent, cache>>

\* ShardedCache::get, under the shard's read lock.
CacheCheck(r) ==
    /\ stage[r] = "lookup"
    /\ IF cache[Key(r)] # None
       THEN Answer(r, cache[Key(r)])
       ELSE Move(r, "collapse") /\ UNCHANGED answer
    /\ UNCHANGED <<apqVars, fail_fast, leader, replies, sent, cache>>

\* try_collapse: lead, or follow a request that leads or has led the same key.
\* Passthrough, when collapsing is off, is to lead and not to be followed.
Collapse(r) ==
    /\ stage[r] = "collapse"
    /\ \E l \in Requests :
         /\ leader' = [leader EXCEPT ![r] = l]
         /\ \/ l = r /\ Move(r, "gather")
            \/ Leads(l) /\ Key(l) = Key(r) /\ Move(r, "follow")
    /\ UNCHANGED <<apqVars, fail_fast, replies, sent, cache, answer>>

\* A subgraph's call comes to an end: it replied, or it failed or was refused.
Reply(r, s) ==
    /\ stage[r] = "gather"
    /\ replies[r][s] = "pending"
    /\ \E reply \in {"data", "error"} : replies' = [replies EXCEPT ![r][s] = reply]
    /\ UNCHANGED <<apqVars, fail_fast, stage, leader, sent, cache, answer>>

\* Mutant of Gather: failing fast returns without a broadcast.
GatherReturns(r) ==
    /\ stage[r] = "gather"
    /\ \/ fail_fast[r] /\ Replied(r, "error") # {} /\ Answer(r, Failed)
       \/ Replied(r, "pending") = {} /\ ~(fail_fast[r] /\ Replied(r, "error") # {})
             /\ Move(r, "broadcast") /\ UNCHANGED answer
    /\ UNCHANGED <<apqVars, fail_fast, leader, replies, sent, cache>>

\* The loop over the calls ends with the last one or, failing fast, at an error:
\* the calls still under way are dropped.
Gather(r) ==
    /\ stage[r] = "gather"
    /\ Replied(r, "pending") = {} \/ (fail_fast[r] /\ Replied(r, "error") # {})
    /\ Move(r, "broadcast")
    /\ UNCHANGED <<apqVars, fail_fast, leader, replies, sent, cache, answer>>

\* Mutant of Outcome: failing fast, what had arrived is returned.
OutcomePartial(r) == [of |-> Executed(r), parts |-> Replied(r, "data")]

\* What the leader returns and its followers are sent: the merged results, an
\* error only when failing fast.
Outcome(r) ==
    IF fail_fast[r] /\ Replied(r, "error") # {} THEN Failed
    ELSE [of |-> Executed(r), parts |-> Replied(r, "data")]

\* Mutant of Broadcast: a partial result is stored in the cache as well.
BroadcastStoresAll(r) ==
    /\ stage[r] = "broadcast"
    /\ sent' = [sent EXCEPT ![r] = Following(r) # {}]
    /\ IF Outcome(r) # Failed THEN Move(r, "store") /\ UNCHANGED answer
       ELSE Answer(r, Outcome(r))
    /\ UNCHANGED <<apqVars, fail_fast, leader, replies, cache>>

\* The result is sent before it is cached, and is cached if no call failed.
Broadcast(r) ==
    /\ stage[r] = "broadcast"
    /\ sent' = [sent EXCEPT ![r] = Following(r) # {}]
    /\ IF Replied(r, "error") = {} THEN Move(r, "store") /\ UNCHANGED answer
       ELSE Answer(r, Outcome(r))
    /\ UNCHANGED <<apqVars, fail_fast, leader, replies, cache>>

\* ShardedCache::insert.
Store(r) ==
    /\ stage[r] = "store"
    /\ cache' = [cache EXCEPT ![Key(r)] = Outcome(r)]
    /\ Answer(r, Outcome(r))
    /\ UNCHANGED <<apqVars, fail_fast, leader, replies, sent>>

\* RequestReceiver::recv finds the leader's result.
Receive(r) ==
    /\ stage[r] = "follow"
    /\ sent[leader[r]]
    /\ Answer(r, Outcome(leader[r]))
    /\ UNCHANGED <<apqVars, fail_fast, leader, replies, sent, cache>>

\* recv finds the channel closed and empty: the leader was dropped, or sent its
\* result when nobody was following.
ReceiveError(r) ==
    /\ stage[r] = "follow"
    /\ ~sent[leader[r]] /\ stage[leader[r]] \in {"store", "done", "dropped"}
    /\ Answer(r, Failed)
    /\ UNCHANGED <<apqVars, fail_fast, leader, replies, sent, cache>>

\* The request's future is dropped at an await: the cost analyzer's, the
\* registry's, the channel's or the gathering loop's.
Drop(r) ==
    /\ pc[r] = "resolved"
    /\ stage[r] \in {"checks", "collapse", "follow", "gather"}
    /\ Move(r, "dropped")
    /\ UNCHANGED <<apqVars, fail_fast, leader, replies, sent, cache, answer>>

\* A cached result expires, is evicted by an insertion in its shard, or goes with
\* clear_cache.
Forget(k) ==
    /\ cache[k] # None
    /\ cache' = [cache EXCEPT ![k] = None]
    /\ UNCHANGED <<apqVars, fail_fast, stage, leader, replies, sent, answer>>

Work(r) ==
    \/ Reject(r) \/ Check(r) \/ CacheCheck(r) \/ Collapse(r) \/ Gather(r)
    \/ Broadcast(r) \/ Store(r) \/ Receive(r)
    \/ \E s \in Subgraphs : Reply(r, s)

Next ==
    \/ ApqNext /\ UNCHANGED routerVars
    \/ \E r \in Requests : Work(r) \/ ReceiveError(r) \/ Drop(r)
    \/ \E k \in Keys : Forget(k)

Spec == Init /\ [][Next]_vars

\* A request that has started is polled and its calls end: the client has a
\* timeout.  Nothing else is fair: requests need not come, nor results expire.
FairSpec ==
    /\ Spec
    /\ \A r \in Requests : WF_vars(Work(r))

-----------------------------------------------------------------------------
TypeOK ==
    /\ ApqTypeOK
    /\ fail_fast \in [Requests -> BOOLEAN]
    /\ stage \in [Requests -> Stages]
    /\ leader \in [Requests -> Requests \cup {None}]
    /\ replies \in [Requests -> [Subgraphs -> {"pending", "data", "error"}]]
    /\ sent \in [Requests -> BOOLEAN]
    /\ cache \in [Keys -> Result \cup {None}]
    /\ answer \in [Requests -> Result \cup {None, Failed}]

\* Whatever a request is answered from - another client's persisted query, the
\* cache, a leader it follows - the answer is to the query and variables it named.
AnswersOwnQuery ==
    \A r \in Requests : answer[r] \in Result => answer[r].of = <<Meant(r), ask[r].variables>>

\* A result with a subgraph missing is given to the request that gathered it and
\* to its followers, never to the requests that find the query in the cache.
CachedIsComplete == \A k \in Keys : cache[k] # None => cache[k].parts = Subgraphs

\* A request given to execute_fail_fast never returns a partial result, unless it
\* followed one that was given to execute_scatter_gather.
FailFastIsComplete ==
    \A r \in Requests :
        answer[r] \in Result /\ fail_fast[r] /\ answer[r].parts # Subgraphs
            => leader[r] \in Requests /\ ~fail_fast[leader[r]]

\* A follower that subscribed while its leader was waiting for the subgraphs
\* returns what the leader returned, an error included, unless one was dropped.
FollowersShareTheOutcome ==
    \A r, l \in Requests :
        (r \in Following(l) /\ Fetching(l))
            ~> \/ stage[r] = "dropped" \/ stage[l] = "dropped"
               \/ stage[r] = "done" /\ answer[r] = Outcome(l)

=============================================================================
