--------------------------- MODULE MCResponseCache ---------------------------
(* The gateway's two caches.  Response cache: two cache keys that show the same user, and *)
(* one mutation of that user.  Fast path: six keys, five of them in one shard.            *)
EXTENDS ResponseCache, FastPath, TLC

CONSTANTS q1, q2, q3, m1, k1, k2, user, user1

MCKeyOf == [q \in Queries |-> IF q = q3 THEN k2 ELSE k1]

\* k1 selects the user's id, k2 only its __typename.
MCShows == [k \in Keys |-> IF k = k1 THEN {user, user1} ELSE {user}]
MCDependsOn == [k \in Keys |-> {user, user1}]
MCWrites == [m \in Mutations |-> {user, user1}]

\* q1 and q2 ask for the same key and are interchangeable.
Twins == Permutations({q1, q2})

CONSTANTS f1, f2, f3, f4, f5, f6

MCShardOf == [k \in FastKeys |-> IF k = f6 THEN 2 ELSE 1]

VARIABLE part   \* the cache this behaviour is about

mcVars == <<part, vars, fastVars>>

MCInit ==
    /\ part \in {"response cache", "fast path"}
    /\ Init /\ (part = "fast path" => backend = "memory")
    /\ FastInit

MCNext ==
    \/ part = "response cache" /\ Next /\ UNCHANGED <<part, fastVars>>
    \/ part = "fast path" /\ FastNext /\ UNCHANGED <<part, vars>>

MCSpec == MCInit /\ [][MCNext]_mcVars

\* The queries of the documentation's example, which select no __typename.
Nothing == [k \in Keys |-> {}]
NothingReported == [m \in Mutations |-> {}]

=============================================================================
