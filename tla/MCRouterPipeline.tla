-------------------------- MODULE MCRouterPipeline --------------------------
(* A query as text and as a persisted query, its hash with another text, nothing   *)
(* at all; its hash alone, with other variables; a second query to evict it.       *)
EXTENDS RouterPipeline

CONSTANTS q1, q2, v1, v2

MCAsks ==
    [hash : {None}, text : {q1, None}, variables : {v1}]
        \cup [hash : {q1}, text : {q1, q2}, variables : {v1}]
        \cup {[hash |-> q1, text |-> None, variables |-> v2],
              [hash |-> q2, text |-> q2, variables |-> v2]}

=============================================================================
