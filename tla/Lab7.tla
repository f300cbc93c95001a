-------------------------------- MODULE Lab7 --------------------------------
(***************************************************************************)
(* Two instances of apps/lab7.cc, a client and a server, that meet through *)
(* apps/bouncer.cc: on each side a host with a TCP socket over Ethernet, a *)
(* router with a host side and an Internet side, and a UDP socket over     *)
(* which the frames of the Internet side travel.  UDP may lose them.       *)
(*                                                                         *)
(* Of TCP there remains what keeps the network going: the client sends its *)
(* SYN again until it is answered, the server answers every SYN.  The      *)
(* frames of a side cross its network in milliseconds and time is counted  *)
(* in seconds: it passes when no frame is on the way.                      *)
(***************************************************************************)
EXTENDS EthernetAdapter, Naturals, Sequences

CONSTANTS
    ADDRESS_BITS,   \* the width of an IP address
    MaxLost,        \* bound: UDP datagrams lost
    LastStart,      \* bound: when the server starts at the latest
    MaxTime         \* bound: time in all

R == INSTANCE Router

VARIABLES
    started,    \* started[s]: side s runs
    host,       \* host[s]: the NetworkInterfaceAdapter of the host
    router,     \* router[s]: the Router; interface 1 is the host side
    pair,       \* pair[s]: the frames between host and router, [out, in]
    up, down,   \* up[s], down[s]: UDP datagrams from and to side s
    met,        \* met[s]: the bouncer has learned the address of side s
    owed,       \* owed[s]: segments that TCP at s has to send
    wrote,      \* wrote[s]: how many segments s has written
    heard,      \* heard[s]: the numbers of the segments handed up at s
    lost, time

vars == <<started, host, router, pair, up, down, met, owed, wrote, heard, lost, time>>

Side == {"client", "server"}
Other(s) == IF s = "client" THEN "server" ELSE "client"

---------------------------------------------------------------------------
(* The addresses: 192.168/16 is 0..3, 10/8 is 4..7, 172.16/12 is 8..11. *)

Net(s) == IF s = "client" THEN 0 ELSE 8
HostIP(s) == Net(s) + 2
HostSide(s) == Net(s) + 1
InternetSide(s) == IF s = "client" THEN 5 ELSE 6

Ethernet(s, part) == <<s, part>>

NewHost(s) ==
    NewEthernetAdapter(Ethernet(s, "host"), HostIP(s), HostSide(s),
        IF s = "client"
        THEN NewAdapter([ip |-> HostIP(s), port |-> 7], [ip |-> HostIP("server"), port |-> 1234], FALSE)
        ELSE NewAdapter([ip |-> HostIP(s), port |-> 1234], [ip |-> 0, port |-> 0], TRUE))

SideRouter(s) ==
    [interfaces |-> <<R!NewAsyncNetworkInterface(Ethernet(s, "inner"), HostSide(s)),
                      R!NewAsyncNetworkInterface(Ethernet(s, "outer"), InternetSide(s))>>,
     rules |-> <<R!RouteRule(Net(s), 2, {}, 1),
                 R!RouteRule(4, 2, {}, 2),
                 R!RouteRule(Net(Other(s)), 2, {InternetSide(Other(s))}, 2)>>]

Init ==
    /\ started = [s \in Side |-> FALSE]
    /\ host = [s \in Side |-> NewHost(s)]
    /\ router = [s \in Side |-> SideRouter(s)]
    /\ pair = [s \in Side |-> [out |-> << >>, in |-> << >>]]
    /\ up = [s \in Side |-> << >>] /\ down = [s \in Side |-> << >>]
    /\ met = [s \in Side |-> FALSE]
    /\ owed = [s \in Side |-> IF s = "client" THEN 1 ELSE 0]
    /\ wrote = [s \in Side |-> 0] /\ heard = [s \in Side |-> << >>]
    /\ lost = 0 /\ time = 0

\* The empty datagrams that let the bouncer know where a side is.
Hello == << >>

Start(s) ==
    /\ ~started[s]
    /\ started' = [started EXCEPT ![s] = TRUE]
    /\ up' = [up EXCEPT ![s] = <<Hello, Hello, Hello>>]
    /\ UNCHANGED <<host, router, pair, down, met, owed, wrote, heard, lost, time>>

---------------------------------------------------------------------------
(* The thread of the TCP socket *)

\* The frames that the adapter has written go to the router.
HostBecomes(s, a) ==
    /\ host' = [host EXCEPT ![s] = a]
    /\ pair' = [pair EXCEPT ![s].out = @ \o a.tap]

Segment(s) == [number |-> wrote[s] + 1, syn |-> TRUE, rst |-> FALSE]

HostWrite(s) ==
    /\ started[s] /\ owed[s] > 0
    /\ \E a \in {adapter_write(host[s], Segment(s))} : HostBecomes(s, a)
    /\ owed' = [owed EXCEPT ![s] = @ - 1]
    /\ wrote' = [wrote EXCEPT ![s] = @ + 1]
    /\ UNCHANGED <<started, router, up, down, met, heard, lost, time>>

HostRead(s) ==
    /\ pair[s].in # << >>
    /\ \E r \in {adapter_read(host[s], Head(pair[s].in), TRUE)} :
          /\ host' = [host EXCEPT ![s] = r.adapter]
          /\ pair' = [pair EXCEPT ![s] = [out |-> @.out \o r.adapter.tap, in |-> Tail(@.in)]]
          /\ IF r.segs = {} THEN UNCHANGED <<owed, heard>>
             ELSE \E seg \in r.segs :
                    /\ heard' = [heard EXCEPT ![s] = Append(@, seg.number)]
                    /\ owed' = [owed EXCEPT ![s] = IF s = "server" THEN @ + 1 ELSE 0]
    /\ UNCHANGED <<started, router, up, down, met, wrote, lost, time>>

---------------------------------------------------------------------------
(* The network thread: the rules of its event loop *)

\* The interface i of a router is handed a frame, and the router routes.
Routed(s, i, frame) ==
    With([router[s] EXCEPT !.interfaces[i] = R!recv_frame(@, frame, TRUE)], R!route)

Frames(s, i) == router[s].interfaces[i].ni.frames_out

Popped(s, i) == [router EXCEPT ![s].interfaces[i].ni.frames_out = Tail(@)]

FromHost(s) ==
    /\ pair[s].out # << >>
    /\ pair' = [pair EXCEPT ![s].out = Tail(@)]
    /\ router' = [router EXCEPT ![s] = Routed(s, 1, Head(pair[s].out))]
    /\ UNCHANGED <<started, host, up, down, met, owed, wrote, heard, lost, time>>

ToHost(s) ==
    /\ Frames(s, 1) # << >>
    /\ pair' = [pair EXCEPT ![s].in = Append(@, Head(Frames(s, 1)))]
    /\ router' = Popped(s, 1)
    /\ UNCHANGED <<started, host, up, down, met, owed, wrote, heard, lost, time>>

ToInternet(s) ==
    /\ Frames(s, 2) # << >>
    /\ up' = [up EXCEPT ![s] = Append(@, Head(Frames(s, 2)))]
    /\ router' = Popped(s, 2)
    /\ UNCHANGED <<started, host, pair, down, met, owed, wrote, heard, lost, time>>

FromInternet(s) ==
    /\ down[s] # << >>
    /\ down' = [down EXCEPT ![s] = Tail(@)]
    /\ router' = [router EXCEPT ![s] = Routed(s, 2, Head(down[s]))]
    /\ UNCHANGED <<started, host, pair, up, met, owed, wrote, heard, lost, time>>

---------------------------------------------------------------------------
(* The bouncer, UDP and time *)

\* What comes from one side goes to the other, once that one is known.
Bounce(s) ==
    /\ up[s] # << >>
    /\ up' = [up EXCEPT ![s] = Tail(@)]
    /\ met' = [met EXCEPT ![s] = TRUE]
    /\ down' = IF met[Other(s)] /\ Head(up[s]) # Hello
               THEN [down EXCEPT ![Other(s)] = Append(@, Head(up[s]))] ELSE down
    /\ UNCHANGED <<started, host, router, pair, owed, wrote, heard, lost, time>>

Lose(s) ==
    /\ up[s] # << >> /\ lost < MaxLost
    /\ up' = [up EXCEPT ![s] = Tail(@)]
    /\ lost' = lost + 1
    /\ UNCHANGED <<started, host, router, pair, down, met, owed, wrote, heard, time>>

\* Nothing is on the way and nobody has anything to send.
Quiet ==
    \A s \in Side :
        /\ started[s] => owed[s] = 0
        /\ pair[s].out = << >> /\ pair[s].in = << >> /\ up[s] = << >> /\ down[s] = << >>
        /\ Frames(s, 1) = << >> /\ Frames(s, 2) = << >>

\* Every clock advances; the client's retransmission timer goes off.
Tick ==
    /\ Quiet /\ time < MaxTime
    /\ started["client"] /\ (started["server"] \/ time < LastStart)
    /\ time' = time + 1
    /\ host' = [s \in Side |-> adapter_tick(host[s], 1)]
    /\ router' = [s \in Side |-> [router[s] EXCEPT
                    !.interfaces = [i \in 1..2 |-> [@[i] EXCEPT !.ni = tick(@, 1)]]]]
    /\ owed' = [owed EXCEPT !["client"] = IF heard["client"] = << >> THEN 1 ELSE 0]
    /\ UNCHANGED <<started, pair, up, down, met, wrote, heard, lost>>

Forward ==
    \/ Tick
    \/ \E s \in Side : \/ Start(s) \/ HostWrite(s) \/ HostRead(s) \/ Bounce(s)
                       \/ FromHost(s) \/ ToHost(s) \/ ToInternet(s) \/ FromInternet(s)

Next == Forward \/ \E s \in Side : Lose(s)

Spec == Init /\ [][Next]_vars

\* Both threads of both programs and the bouncer keep running, and so does
\* the clock.
FairSpec == Spec /\ WF_vars(Forward)

---------------------------------------------------------------------------
(* Properties *)

Increasing(seq) == \A i, j \in DOMAIN seq : i < j => seq[i] < seq[j]

\* Across two hosts and two routers, each of which holds segments back until
\* it has learned an address, what one host writes is handed up at the other
\* in order and at most once.
InOrderOnce == \A s \in Side : Increasing(heard[s]) /\ \A i \in DOMAIN heard[s] : heard[s][i] <= wrote[Other(s)]

\* The client gets its answer, whichever datagrams are lost, ARP requests and
\* replies and the ones that introduce a side to the bouncer among them: the
\* interfaces ask again when TCP sends again.
Answered == <>(heard["client"] # << >>)
=============================================================================
