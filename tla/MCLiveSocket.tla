----------------------------- MODULE MCLiveSocket -----------------------------
(* Two subscriptions, one topic in common and one that only s2 watches. *)
EXTENDS LiveSocket

CONSTANTS s1, s2, user, post

MCWatches == [s \in Subs |-> IF s = s1 THEN {user} ELSE {user, post}]

=============================================================================
