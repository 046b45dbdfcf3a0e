------------------------ MODULE MCRequestCollapsing ------------------------
(* Four requests, three of which share a key. *)
EXTENDS RequestCollapsing

CONSTANTS r1, r2, r3, r4, k1, k2

MCKeyOf == [r \in Requests |-> IF r = r4 THEN k2 ELSE k1]

=============================================================================
