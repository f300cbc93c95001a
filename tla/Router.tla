------------------------------- MODULE Router -------------------------------
(***************************************************************************)
(* classes AsyncNetworkInterface and Router (libsponge/router.{hh,cc}):    *)
(* datagrams received by any interface are forwarded by the rule with the  *)
(* longest prefix that matches their destination.                          *)
(*                                                                         *)
(* An address is a number of ADDRESS_BITS bits; a rule's optional next hop *)
(* is a set with at most one address.  Interfaces are numbered from 0 in   *)
(* the code and from 1 here.                                               *)
(***************************************************************************)
EXTENDS Naturals, Sequences

CONSTANTS ETHERNET_BROADCAST, CACHE_TIME, REQUEST_TIME,
    ADDRESS_BITS    \* the width of an IP address: 32 in the code

NI == INSTANCE NetworkInterface

Address == 0 .. (2 ^ ADDRESS_BITS - 1)

-----------------------------------------------------------------------------
\* class AsyncNetworkInterface

NewAsyncNetworkInterface(ethernet_address, ip_address) ==
    [ni            |-> NI!NewNetworkInterface(ethernet_address, ip_address),
     datagrams_out |-> << >>]

recv_frame(interface, frame, parses) ==
    [ni            |-> NI!recv_frame(interface.ni, frame, parses),
     datagrams_out |-> interface.datagrams_out \o NI!received(interface.ni, frame, parses)]
-----------------------------------------------------------------------------
\* class Router

NewRouter(interfaces) == [interfaces |-> interfaces, rules |-> << >>]

RouteRule(route_prefix, prefix_length, next_hop, interface_num) ==
    [route_prefix |-> route_prefix, prefix_length |-> prefix_length,
     next_hop |-> next_hop, interface_num |-> interface_num]

add_route(router, rule) == [router EXCEPT !.rules = Append(@, rule)]

\* The addresses agree under a mask of prefix_length leading ones: they are
\* the same once the other bits have been shifted out.
match(ip1, ip2, prefix_length) ==
    LET hostbits == ADDRESS_BITS - prefix_length
    IN  prefix_length = 0 \/ ip1 \div (2 ^ hostbits) = ip2 \div (2 ^ hostbits)

\* Plausible bug: of equally long prefixes the last one wins.
picked_rule_last(rules, dst) ==
    LET picked[k \in 0 .. Len(rules)] ==
            IF k = 0 THEN 0
            ELSE IF /\ match(dst, rules[k].route_prefix, rules[k].prefix_length)
                    /\ \/ picked[k - 1] = 0
                       \/ rules[picked[k - 1]].prefix_length <= rules[k].prefix_length
                 THEN k
                 ELSE picked[k - 1]
    IN  picked[Len(rules)]

\* The number of the rule picked among the first Len(rules), 0 for none.
picked_rule(rules, dst) ==
    LET picked[k \in 0 .. Len(rules)] ==
            IF k = 0 THEN 0
            ELSE IF /\ match(dst, rules[k].route_prefix, rules[k].prefix_length)
                    /\ \/ picked[k - 1] = 0
                       \/ rules[picked[k - 1]].prefix_length < rules[k].prefix_length
                 THEN k
                 ELSE picked[k - 1]
    IN  picked[Len(rules)]

\* An empty next hop means that the destination is directly attached.
next_hop(rule, dst) ==
    IF rule.next_hop = {} THEN dst ELSE CHOOSE hop \in rule.next_hop : TRUE

expired(dgram) == dgram.ttl <= 1

route_one_datagram(router, dgram) ==
    LET k    == picked_rule(router.rules, dgram.dst)
        rule == router.rules[k]
    IN  IF expired(dgram) \/ k = 0
        THEN router
        ELSE [router EXCEPT !.interfaces[rule.interface_num].ni =
                NI!send_datagram(@, [dgram EXCEPT !.ttl = @ - 1], next_hop(rule, dgram.dst))]

\* Every datagram of one interface's queue is routed, in order, and the queue
\* is empty afterwards.  Sending adds nothing to any such queue.  The singleton
\* binds each intermediate router once.
route_interface(router, i) ==
    LET queue == router.interfaces[i].datagrams_out
        routed[k \in 0 .. Len(queue)] ==
            IF k = 0 THEN router
            ELSE CHOOSE y \in {route_one_datagram(x, queue[k]) : x \in {routed[k - 1]}} : TRUE
    IN  [routed[Len(queue)] EXCEPT !.interfaces[i].datagrams_out = << >>]

route(router) ==
    LET n == Len(router.interfaces)
        routed[i \in 0 .. n] ==
            IF i = 0 THEN router
            ELSE CHOOSE y \in {route_interface(x, i) : x \in {routed[i - 1]}} : TRUE
    IN  routed[n]
=============================================================================
