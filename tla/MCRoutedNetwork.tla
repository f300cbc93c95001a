-------------------------- MODULE MCRoutedNetwork ---------------------------
(* A router with two links: one host on the first, two on the second. *)
EXTENDS RoutedNetwork

MCHostIP == [h \in Host |-> CASE h = "a" -> 1 [] h = "b" -> 4 [] h = "c" -> 5]

MCHostEthernet == [h \in Host |-> h]

MCGateway == [h \in Host |-> IF h = "a" THEN 0 ELSE 6]

MCRouterIP == <<0, 6>>

MCRouterEthernet == <<"r1", "r2">>

MCLink == << <<"a">>, <<"b", "c">> >>

\* Everything else goes through a; addresses from 4 on are on the second link,
\* although a later rule of the same length sends them to a; one is behind b.
MCRules == <<RouteRule(0, 0, {1}, 1), RouteRule(0, 2, {}, 2), RouteRule(4, 1, {}, 2),
             RouteRule(6, 1, {1}, 1), RouteRule(7, 3, {4}, 2)>>
=============================================================================
