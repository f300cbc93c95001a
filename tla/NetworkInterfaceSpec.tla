------------------------ MODULE NetworkInterfaceSpec ------------------------
(***************************************************************************)
(* One NetworkInterface: its owner hands it datagrams and lets time pass,  *)
(* hosts on the link send it frames of every kind whenever they like.  The *)
(* owner empties frames_out between calls, so that after a step it holds   *)
(* what that call has sent.                                                *)
(*                                                                         *)
(* The i-th datagram handed over is represented by i.                      *)
(***************************************************************************)
EXTENDS NetworkInterface

CONSTANTS
    EthernetAddress,    \* the addresses of the hosts on the link
    IP,                 \* their IP addresses
    MyEthernet, MyIP,   \* the addresses of this interface
    MaxDatagrams,       \* bound: datagrams handed over
    MaxTick,            \* bound: time between two ticks
    MaxTime             \* bound: time in all

ASSUME InterfaceAssumption ==
    /\ CACHE_TIME \in Nat
    /\ REQUEST_TIME \in Nat
    /\ REQUEST_TIME <= CACHE_TIME
    /\ MyEthernet \in EthernetAddress
    /\ ETHERNET_BROADCAST \notin EthernetAddress
    /\ MaxDatagrams \in Nat
    /\ MaxTick \in Nat \ {0}
    /\ MaxTime \in Nat

VARIABLES
    ni,         \* the NetworkInterface
    handed,     \* history: handed[i] is the next hop of datagram i
    framed,     \* history: the datagrams that have left in frames, in order
    claimed,    \* history: what each IP address last claimed, and when
    asked       \* history: when each IP address was last asked for

vars == <<ni, handed, framed, claimed, asked>>

Emptied == [ni EXCEPT !.frames_out = << >>]

Init ==
    /\ ni = NewNetworkInterface(MyEthernet, MyIP)
    /\ handed = << >>
    /\ framed = << >>
    /\ claimed = [ip \in {} |-> [eth |-> MyEthernet, time |-> 0]]
    /\ asked = [ip \in {} |-> 0]

\* The elements of s that are in S, in their order: SelectSeq with a set for
\* the test.
Selected(s, S) ==
    LET upto[n \in 0 .. Len(s)] ==
            IF n = 0 THEN << >>
            ELSE IF s[n] \in S THEN Append(upto[n - 1], s[n]) ELSE upto[n - 1]
    IN  upto[Len(s)]

IsDatagram(frame) == frame.type = "IPv4"

RequestFor(frame, ip) ==
    /\ frame.type = "ARP"
    /\ frame.payload.opcode = "REQUEST" /\ frame.payload.target_ip_address = ip

Requests(s, ip) == \E i \in 1 .. Len(s.frames_out) : RequestFor(s.frames_out[i], ip)

\* The datagrams among what s has sent.
Framed(s) ==
    LET frames == {s.frames_out[i] : i \in 1 .. Len(s.frames_out)}
        out == Selected(s.frames_out, {frame \in frames : IsDatagram(frame)})
    IN  [i \in 1 .. Len(out) |-> out[i].payload]

\* The interface becomes s; the histories follow from what it has sent.
Becomes(s) ==
    /\ ni' = s
    /\ framed' = framed \o Framed(s)
    /\ asked' = [ip \in DOMAIN asked \union {i \in IP : Requests(s, i)} |->
                    IF Requests(s, ip) THEN s.current_time ELSE asked[ip]]

SendDatagram(next_hop) ==
    /\ Len(handed) < MaxDatagrams
    /\ Becomes(send_datagram(Emptied, Len(handed) + 1, next_hop))
    /\ handed' = Append(handed, next_hop)
    /\ UNCHANGED claimed

\* What other hosts put on the link.  Not every payload parses; what a
\* received datagram holds does not matter here.
Frame ==
    LET Header(type, payloads) ==
            [dst : EthernetAddress \union {ETHERNET_BROADCAST},
             type : {type}, payload : payloads]
    IN  Header("IPv4", {0})
          \union Header("ARP", [opcode : {"REQUEST", "REPLY"},
                                sender_ethernet_address : EthernetAddress \ {MyEthernet},
                                sender_ip_address : IP,
                                target_ip_address : IP \union {MyIP}])

RecvFrame(frame, parses) ==
    /\ Becomes(recv_frame(Emptied, frame, parses))
    /\ claimed' =
         IF parses /\ frame.type = "ARP" /\ for_us(ni, frame)
         THEN put(claimed, frame.payload.sender_ip_address,
                  [eth  |-> frame.payload.sender_ethernet_address,
                   time |-> ni.current_time])
         ELSE claimed
    /\ UNCHANGED handed

Tick(ms) ==
    /\ ni.current_time + ms <= MaxTime
    /\ Becomes(tick(Emptied, ms))
    /\ UNCHANGED <<handed, claimed>>

Next ==
    \/ \E next_hop \in IP : SendDatagram(next_hop)
    \/ \E frame \in Frame, parses \in BOOLEAN : RecvFrame(frame, parses)
    \/ \E ms \in 1 .. MaxTick : Tick(ms)

Spec == Init /\ [][Next]_vars
-----------------------------------------------------------------------------
\* f is a map whose keys are IP addresses and whose values are in V.
MapTo(f, V) == DOMAIN f \subseteq IP /\ f \in [DOMAIN f -> V]

\* The members keep their types.
TypeOK ==
    /\ ni.ethernet_address = MyEthernet /\ ni.ip_address = MyIP
    /\ ni.current_time \in Nat
    /\ MapTo(ni.addr_cache, [eth : EthernetAddress, time : Nat])
    /\ MapTo(ni.addr_request_time, Nat)
    /\ MapTo(ni.waiting_dgrams, Seq(Nat))
    /\ handed \in Seq(IP)
    /\ MapTo(claimed, [eth : EthernetAddress, time : Nat])
    /\ MapTo(asked, Nat)

\* A datagram waits only while its next hop is unknown and has been asked for,
\* and nothing is asked for without a datagram that waits: a mapping learned
\* in whatever way never leaves one behind.
RequestIffWaiting ==
    /\ DOMAIN ni.waiting_dgrams = DOMAIN ni.addr_request_time
    /\ DOMAIN ni.waiting_dgrams \intersect DOMAIN ni.addr_cache = {}

\* The datagrams for one next hop leave in the order they were handed over,
\* each once: what has left, followed by what waits, is all of them.
InOrderPerHop ==
    \A ip \in IP :
        LET all  == [i \in 1 .. Len(handed) |-> i]
            mine == {i \in 1 .. Len(handed) : handed[i] = ip}
        IN  Selected(framed, mine) \o waiting(ni, ip) = Selected(all, mine)

\* A datagram goes to whoever last claimed its next hop, and never on a claim
\* older than CACHE_TIME ("Cache would expire in 30s").
MappingsFresh ==
    /\ \A ip \in DOMAIN ni.addr_cache :
          /\ ip \in DOMAIN claimed /\ ni.addr_cache[ip] = claimed[ip]
          /\ ni.current_time - claimed[ip].time <= CACHE_TIME
    /\ \A i \in 1 .. Len(ni.frames_out) :
          LET frame == ni.frames_out[i]
          IN  IsDatagram(frame) =>
                 /\ handed[frame.payload] \in DOMAIN claimed
                 /\ frame.dst = claimed[handed[frame.payload]].eth

\* "The ARP request for the same IP address would only be sent if at least 5s
\* have passed": also across an answer that has been received, cached and
\* forgotten again in between.
RequestsSpaced ==
    [][\A ip \in DOMAIN asked :
          Requests(ni', ip) => ni'.current_time - asked[ip] > REQUEST_TIME]_vars
=============================================================================
