------------------------ MODULE MCRouterSubscriptions ------------------------
(* One field routed to a, one to a subgraph that is not configured, and one that
   goes to every subgraph. *)
EXTENDS RouterSubscriptions, TLC

CONSTANTS a, b, orders, lost, all

MCRequests == <<{{orders, all}, {lost}}, {{orders}}>>
MCRouting == (orders :> a) @@ (lost :> "none")

=============================================================================
