------------------------- MODULE MCPersistedQueries -------------------------
(* Clients that send a hash with its text, or the hash alone, one after the other. *)
EXTENDS PersistedQueries

MCAsks ==
    [hash : Queries, text : {None}, variables : Variables]
        \cup {[hash |-> q, text |-> q, variables |-> v] : q \in Queries, v \in Variables}

Inside == {r \in Requests : pc[r] \notin {"new", "resolved", "rejected"}}

SerialSpec == ApqInit /\ [][ApqNext /\ Cardinality(Inside') <= 1]_apqVars

=============================================================================
