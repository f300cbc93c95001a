---------------------------- MODULE AdapterSpec -----------------------------
(***************************************************************************)
(* A listening datagram adapter and several connected ones that call it,   *)
(* over UDP or over IPv4, each inside a LossyFdAdapter that may drop what  *)
(* it reads and writes.  Datagrams may be lost, duplicated and reordered.  *)
(***************************************************************************)
EXTENDS FdAdapter, Naturals, FiniteSets

CONSTANTS
    Callers,    \* those who connect
    Server,     \* the one that listens
    Home,       \* Home[h]: the ip and the port of host h
    AnyIP,      \* what a server is bound to that takes calls at any ip
    MaxInFlight \* bound: datagrams on the way at a time

Host == Callers \union {Server}

ASSUME HostsAssumption ==
    /\ Server \notin Callers
    /\ DOMAIN Home = Host
    /\ \A h \in Host : Home[h] = [ip |-> Home[h].ip, port |-> Home[h].port]
    /\ \A g, h \in Host : Home[g] = Home[h] => g = h

VARIABLES
    kind,       \* "udp" or "ip"
    adapter,    \* adapter[h]: the adapter of host h
    net,        \* the datagrams on the way
    heard       \* history: heard[h], the hosts whose segments were handed up to h

\* A server over IPv4 may be bound to any address.
Anywhere == [ip |-> AnyIP, port |-> Home[Server].port]

Segment == [from : Host, syn : BOOLEAN, rst : BOOLEAN]

\* TCPOverUDPSocketAdapter or TCPOverIPv4Adapter
adapter_read(a, dgram) == IF kind = "udp" THEN udp_read(a, dgram) ELSE unwrap_tcp_in_ip(a, dgram)
adapter_write(a, seg) == IF kind = "udp" THEN udp_write(a, seg) ELSE wrap_tcp_in_ip(a, seg)

\* The host a datagram gets to: for UDP the one whose socket it is for, on an
\* IP link everybody at the address.
Gets(h, dgram) ==
    IF kind = "udp" THEN dgram.destination = Home[h] ELSE dgram.dst = Home[h].ip

adapterVars == <<kind, adapter, net, heard>>

AdapterInit ==
    /\ kind \in {"udp", "ip"}
    /\ adapter = [h \in Host |->
          IF h = Server THEN NewAdapter(IF kind = "ip" THEN Anywhere ELSE Home[h], Anywhere, TRUE)
          ELSE NewAdapter(Home[h], Home[Server], FALSE)]
    /\ net = {}
    /\ heard = [h \in Host |-> {}]

\* A connection writes a segment.  A listening one has nothing to say.
WriteNext(h, seg, drop) ==
    /\ seg.from = h /\ ~adapter[h].listening
    /\ Cardinality(net) < MaxInFlight
    /\ net' = net \cup lossy_write(adapter_write(adapter[h], seg), drop)
    /\ UNCHANGED <<kind, adapter, heard>>

\* Something that is not a segment comes from a host's address.
Junk(h, broken, proto) ==
    /\ broken \/ proto # "TCP"
    /\ Cardinality(net) < MaxInFlight
    /\ \E d \in {adapter_write(adapter[h], [from |-> h, syn |-> TRUE, rst |-> FALSE])} :
          net' = net \cup {IF kind = "udp" THEN [d EXCEPT !.parses = ~broken]
                           ELSE [d EXCEPT !.parses = ~broken, !.proto = proto]}
    /\ UNCHANGED <<kind, adapter, heard>>

\* The datagram may come again.
ReadNext(h, dgram, drop) ==
    /\ Gets(h, dgram)
    /\ \E r \in {lossy_read(adapter_read(adapter[h], dgram), drop)} :
          /\ adapter' = [adapter EXCEPT ![h] = r.adapter]
          /\ heard' = [heard EXCEPT ![h] = @ \cup {seg.from : seg \in r.segs}]
    /\ UNCHANGED <<kind, net>>

Lose(dgram) == net' = net \ {dgram} /\ UNCHANGED <<kind, adapter, heard>>

AdapterNext ==
    \/ \E h \in Host, seg \in Segment, drop \in BOOLEAN : WriteNext(h, seg, drop)
    \/ \E h \in Callers, broken \in BOOLEAN, proto \in {"TCP", "UDP"} : Junk(h, broken, proto)
    \/ \E h \in Host, dgram \in net, drop \in BOOLEAN : ReadNext(h, dgram, drop)
    \/ \E dgram \in net : Lose(dgram)

AdaptersSpec == AdapterInit /\ [][AdapterNext]_adapterVars
-----------------------------------------------------------------------------
\* Whatever arrives in whatever order, all the segments that a connection is
\* handed come from one peer: a caller hears the server, the server the
\* caller it has settled on.
OnePeer ==
    /\ \A h \in Callers : heard[h] \subseteq {Server}
    /\ \A h \in heard[Server] : adapter[Server].destination = Home[h]

\* Once the server's adapter has settled on a caller, also if the SYN that
\* made it settle was then dropped, each hears what the other writes.
Conversation ==
    ~adapter[Server].listening =>
        \E h \in Callers : \A x, y \in {h, Server} :
            LET seg == [from |-> x, syn |-> TRUE, rst |-> FALSE]
                dgram == adapter_write(adapter[x], seg)
            IN  x # y => Gets(y, dgram) /\ adapter_read(adapter[y], dgram).segs = {seg}
=============================================================================
