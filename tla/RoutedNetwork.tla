--------------------------- MODULE RoutedNetwork ----------------------------
(***************************************************************************)
(* One Router between links with hosts, as apps/network_simulator.cc       *)
(* builds them: every host has an interface and a gateway, every link      *)
(* joins one interface of the router with some hosts, and nothing is lost  *)
(* on a link.  Hosts send, links carry frames, the router routes and time  *)
(* passes in any order; ARP at the hosts and at the router happens on the  *)
(* way.                                                                    *)
(*                                                                         *)
(* A datagram is its number, its destination and its time to live.         *)
(***************************************************************************)
EXTENDS Router, SequencesExt

CONSTANTS
    Host,           \* the hosts
    HostIP,         \* HostIP[h]: h's address
    HostEthernet,   \* HostEthernet[h]: h's Ethernet address
    Gateway,        \* Gateway[h]: the next hop of everything h sends
    RouterIP,       \* RouterIP[i]: the address of the router's interface i
    RouterEthernet, \* RouterEthernet[i]: its Ethernet address
    Link,           \* Link[i]: the hosts on the link of interface i, in order
    Rules,          \* the routes, in the order they are added
    Destination,    \* the destinations that are sent to
    TimeToLive,     \* the initial times to live
    MaxDatagrams,   \* bound: datagrams sent
    MaxTime         \* bound: ticks

Interface == 1 .. Len(RouterIP)

ASSUME NetworkAssumption ==
    /\ ADDRESS_BITS \in Nat
    /\ CACHE_TIME \in Nat /\ REQUEST_TIME \in Nat /\ REQUEST_TIME <= CACHE_TIME
    /\ HostIP \in [Host -> Address] /\ Gateway \in [Host -> Address]
    /\ Len(RouterEthernet) = Len(RouterIP) /\ Len(Link) = Len(RouterIP)
    /\ \A i \in Interface : Link[i] \in Seq(Host)
    /\ \A k \in 1 .. Len(Rules) : Rules[k].interface_num \in Interface
    /\ MaxDatagrams \in Nat /\ MaxTime \in Nat

VARIABLES
    host,       \* host[h]: h's AsyncNetworkInterface
    router,     \* the Router
    sent,       \* history: the datagrams sent, in order, with their senders
    time        \* how often time has passed

vars == <<host, router, sent, time>>

Init ==
    /\ host = [h \in Host |-> NewAsyncNetworkInterface(HostEthernet[h], HostIP[h])]
    /\ router = NewRouter([i \in Interface |->
                             NewAsyncNetworkInterface(RouterEthernet[i], RouterIP[i])])
    /\ sent = << >>
    /\ time = 0

Ready == Len(router.rules) = Len(Rules)

\* The routes are added before anything is sent.
AddRoute ==
    /\ ~Ready
    /\ router' = add_route(router, Rules[Len(router.rules) + 1])
    /\ UNCHANGED <<host, sent, time>>

SendTo(h, dst, ttl) ==
    LET dgram == [id |-> Len(sent) + 1, dst |-> dst, ttl |-> ttl]
    IN  /\ Ready /\ Len(sent) < MaxDatagrams
        /\ host' = [host EXCEPT ![h].ni = NI!send_datagram(@, dgram, Gateway[h])]
        /\ sent' = Append(sent, [from |-> h, dst |-> dst, ttl |-> ttl])
        /\ UNCHANGED <<router, time>>

\* The interface at place n of link i: the router's first, then the hosts'.
At(i, n) == IF n = 0 THEN router.interfaces[i] ELSE host[Link[i][n]]

\* An interface that is handed frames one after the other.  The singleton
\* binds each intermediate interface once.
recv_all(interface, frames) ==
    FoldLeft(LAMBDA acc, frame :
               CHOOSE y \in {recv_frame(x, frame, TRUE) : x \in {acc}} : TRUE,
             interface, frames)

\* What the interface at place n becomes when the link carries everything
\* that was queued: it is handed the frames of all the others, and loses those
\* of its own that were queued when the exchange began.
Exchanged(i, n) ==
    LET queued(m) == At(i, m).ni.frames_out
        others == FlattenSeq([m \in 1 .. Len(Link[i]) + 1 |->
                                IF m - 1 = n THEN << >> ELSE queued(m - 1)])
    IN  [recv_all(At(i, n), others) EXCEPT
            !.ni.frames_out = SubSeq(@, Len(queued(n)) + 1, Len(@))]

Busy(i) == \E n \in 0 .. Len(Link[i]) : At(i, n).ni.frames_out # << >>

ExchangeFrames(i) ==
    /\ Busy(i)
    /\ router' = [router EXCEPT !.interfaces[i] = Exchanged(i, 0)]
    /\ host' = [h \in Host |->
                  IF h \in ToSet(Link[i])
                  THEN Exchanged(i, CHOOSE n \in 1 .. Len(Link[i]) : Link[i][n] = h)
                  ELSE host[h]]
    /\ UNCHANGED <<sent, time>>

Pending == \E i \in Interface : router.interfaces[i].datagrams_out # << >>

Route ==
    /\ Pending
    /\ router' = route(router)
    /\ UNCHANGED <<host, sent, time>>

\* Time passes for everybody.
Tick ==
    /\ Ready /\ time < MaxTime
    /\ time' = time + 1
    /\ host' = [h \in Host |-> [host[h] EXCEPT !.ni = NI!tick(@, 1)]]
    /\ router' = [router EXCEPT !.interfaces =
                    [i \in Interface |-> [@[i] EXCEPT !.ni = NI!tick(@, 1)]]]
    /\ UNCHANGED sent

Next ==
    \/ AddRoute
    \/ \E h \in Host, dst \in Destination, ttl \in TimeToLive : SendTo(h, dst, ttl)
    \/ \E i \in Interface : ExchangeFrames(i)
    \/ Route
    \/ Tick

Spec == Init /\ [][Next]_vars

\* Weak fairness of Route and of each ExchangeFrames(i), with Pending and
\* Busy(i), which say when they change something, in the place of ENABLED.
Fairness ==
    /\ ([]<>~Pending) \/ ([]<><<Route>>_vars)
    /\ \A i \in Interface : ([]<>~Busy(i)) \/ ([]<><<ExchangeFrames(i)>>_vars)

FairSpec == Spec /\ Fairness
-----------------------------------------------------------------------------
Owner(ip, i) == {h \in ToSet(Link[i]) : HostIP[h] = ip}

\* Bit i of an address, the last one being bit 0.
Bit(address, i) == (address \div (2 ^ i)) % 2

\* The rules whose prefix has the leading bits of dst.
Matching(dst) ==
    {k \in 1 .. Len(Rules) :
        \A i \in (ADDRESS_BITS - Rules[k].prefix_length) .. (ADDRESS_BITS - 1) :
            Bit(Rules[k].route_prefix, i) = Bit(dst, i)}

\* Rule k has "the longest prefix_length that matches the datagram's
\* destination address" (router.hh), and is the first of those.
Best(k, dst) ==
    /\ k \in Matching(dst)
    /\ \A j \in Matching(dst) \ {k} :
          \/ Rules[j].prefix_length < Rules[k].prefix_length
          \/ Rules[j].prefix_length = Rules[k].prefix_length /\ k < j

\* The hosts, one or none, that a datagram for dst has to get to.
Target(dst) ==
    UNION {Owner(next_hop(Rules[k], dst), Rules[k].interface_num) :
             k \in {k \in 1 .. Len(Rules) : Best(k, dst)}}

\* A datagram is received by the host that the longest matching prefix leads
\* to and by nobody else, with a time to live one less, which is not zero; one
\* whose time was up is received by nobody.  What one host receives from
\* another comes in the order it was sent, and nothing twice, although every
\* hop may have had to wait for ARP.
RightReceiver ==
    \A h \in Host : \A i \in 1 .. Len(host[h].datagrams_out) :
        LET dgram == host[h].datagrams_out[i]
        IN  /\ h \in Target(dgram.dst)
            /\ dgram.dst = sent[dgram.id].dst
            /\ dgram.ttl = sent[dgram.id].ttl - 1 /\ dgram.ttl > 0
            /\ \A j \in 1 .. i - 1 :
                  LET earlier == host[h].datagrams_out[j].id
                  IN  /\ earlier # dgram.id
                      /\ sent[earlier].from = sent[dgram.id].from => earlier < dgram.id

Received(id) ==
    \E h \in Host : \E i \in 1 .. Len(host[h].datagrams_out) : host[h].datagrams_out[i].id = id

\* Every datagram that has somewhere to go and the time to get there arrives.
EventuallyReceived ==
    \A id \in 1 .. MaxDatagrams :
        (id <= Len(sent) /\ sent[id].ttl > 1 /\ Target(sent[id].dst) # {}) ~> Received(id)
=============================================================================
