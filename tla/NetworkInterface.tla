-------------------------- MODULE NetworkInterface --------------------------
(***************************************************************************)
(* class NetworkInterface (libsponge/network_interface.{hh,cc}): connects  *)
(* IP to Ethernet.  A datagram for a next hop whose Ethernet address is    *)
(* not known waits while ARP asks for it; what ARP messages tell is cached *)
(* for a while.                                                            *)
(*                                                                         *)
(* A datagram is opaque here.  A frame's payload is either a datagram, an  *)
(* ARP message, or something parse() refuses.  Times are in the units of   *)
(* tick().  _waiting_dgrams, one deque of pairs that the code only appends *)
(* to and searches by address, is a queue for each address it holds.       *)
(***************************************************************************)
EXTENDS Naturals, Sequences

CONSTANTS
    ETHERNET_BROADCAST,     \* the Ethernet address that means everybody
    CACHE_TIME,             \* how long a mapping is kept: 30000 in the code
    REQUEST_TIME            \* how long an ARP request is not repeated: 5000

\* The constructor: every map and every queue starts empty.
NewNetworkInterface(ethernet_address, ip_address) ==
    [ethernet_address  |-> ethernet_address,
     ip_address        |-> ip_address,
     frames_out        |-> << >>,
     current_time      |-> 0,
     addr_cache        |-> [ip \in {} |-> [eth |-> ethernet_address, time |-> 0]],
     addr_request_time |-> [ip \in {} |-> 0],
     waiting_dgrams    |-> [ip \in {} |-> << >>]]

\* The map f with k set to v, and without k.
put(f, k, v) == [x \in DOMAIN f \union {k} |-> IF x = k THEN v ELSE f[x]]

without(f, K) == [x \in DOMAIN f \ K |-> f[x]]

\* The fields of an ARP message that a receiver looks at.
ARPMessage(opcode, sender_eth, sender_ip, target_ip) ==
    [opcode |-> opcode, sender_ethernet_address |-> sender_eth,
     sender_ip_address |-> sender_ip, target_ip_address |-> target_ip]

\* The source address of a frame is left out: no receiver reads it.
make_frame(dst, type, payload) == [dst |-> dst, type |-> type, payload |-> payload]

send_frame(ni, dst, type, payload) ==
    [ni EXCEPT !.frames_out = Append(@, make_frame(dst, type, payload))]

\* Plausible bug: an address is asked for once.
may_request_once(ni, ip) == ip \notin DOMAIN ni.addr_request_time

\* No request for this address is recent enough to wait for its answer.
may_request(ni, ip) ==
    \/ ip \notin DOMAIN ni.addr_request_time
    \/ ni.current_time - ni.addr_request_time[ip] > REQUEST_TIME

\* Plausible bug: a repeated request keeps the time of the first.
request_keeps_time(ni, ip) ==
    [send_frame(ni, ETHERNET_BROADCAST, "ARP",
                ARPMessage("REQUEST", ni.ethernet_address, ni.ip_address, ip))
        EXCEPT !.addr_request_time =
            IF ip \in DOMAIN @ THEN @ ELSE put(@, ip, ni.current_time)]

request(ni, ip) ==
    [send_frame(ni, ETHERNET_BROADCAST, "ARP",
                ARPMessage("REQUEST", ni.ethernet_address, ni.ip_address, ip))
        EXCEPT !.addr_request_time = put(@, ip, ni.current_time)]

\* The datagrams that wait for ip, in the order they came.
waiting(ni, ip) ==
    IF ip \in DOMAIN ni.waiting_dgrams THEN ni.waiting_dgrams[ip] ELSE << >>

\* Plausible bug: a datagram is kept only when a request goes out for it.
send_datagram_drops(ni, dgram, next_hop) ==
    IF next_hop \in DOMAIN ni.addr_cache
    THEN send_frame(ni, ni.addr_cache[next_hop].eth, "IPv4", dgram)
    ELSE IF may_request(ni, next_hop)
    THEN [request(ni, next_hop) EXCEPT !.waiting_dgrams =
            put(@, next_hop, Append(waiting(ni, next_hop), dgram))]
    ELSE ni

send_datagram(ni, dgram, next_hop) ==
    IF next_hop \in DOMAIN ni.addr_cache
    THEN send_frame(ni, ni.addr_cache[next_hop].eth, "IPv4", dgram)
    ELSE LET asked == IF may_request(ni, next_hop) THEN request(ni, next_hop) ELSE ni
         IN  [asked EXCEPT !.waiting_dgrams =
                put(@, next_hop, Append(waiting(ni, next_hop), dgram))]

\* Plausible bug: what has been sent still waits.
try_send_waiting_keeps(ni, ip) ==
    LET ready == waiting(ni, ip)
    IN  [ni EXCEPT !.frames_out = @ \o [i \in 1 .. Len(ready) |->
            make_frame(ni.addr_cache[ip].eth, "IPv4", ready[i])]]

try_send_waiting(ni, ip) ==
    LET ready == waiting(ni, ip)
    IN  [ni EXCEPT
            !.frames_out = @ \o [i \in 1 .. Len(ready) |->
                make_frame(ni.addr_cache[ip].eth, "IPv4", ready[i])],
            !.waiting_dgrams = without(@, {ip})]

\* Plausible bug: an answered request stays on record.
learn_keeps_request(ni, msg) ==
    [ni EXCEPT !.addr_cache = put(@, msg.sender_ip_address,
                                  [eth  |-> msg.sender_ethernet_address,
                                   time |-> ni.current_time])]

\* The sender's mapping is recorded, and the request for it is answered.
learn(ni, msg) ==
    [ni EXCEPT !.addr_cache = put(@, msg.sender_ip_address,
                                  [eth  |-> msg.sender_ethernet_address,
                                   time |-> ni.current_time]),
               !.addr_request_time = without(@, {msg.sender_ip_address})]

reply(ni, msg) ==
    IF msg.opcode = "REQUEST" /\ msg.target_ip_address = ni.ip_address
    THEN send_frame(ni, msg.sender_ethernet_address, "ARP",
            ARPMessage("REPLY", ni.ethernet_address, ni.ip_address, msg.sender_ip_address))
    ELSE ni

for_us(ni, frame) == frame.dst \in {ni.ethernet_address, ETHERNET_BROADCAST}

\* What recv_frame() does to the interface ...
recv_frame(ni, frame, parses) ==
    IF for_us(ni, frame) /\ frame.type = "ARP" /\ parses
    THEN reply(try_send_waiting(learn(ni, frame.payload), frame.payload.sender_ip_address),
               frame.payload)
    ELSE ni

\* ... and the datagrams, one or none, it returns.
received(ni, frame, parses) ==
    IF for_us(ni, frame) /\ frame.type = "IPv4" /\ parses THEN <<frame.payload>> ELSE << >>

\* Plausible bug: nothing expires.
remove_expired_cache_never(ni) == ni

remove_expired_cache(ni) ==
    [ni EXCEPT !.addr_cache =
        without(@, {ip \in DOMAIN @ : ni.current_time - @[ip].time > CACHE_TIME})]

tick(ni, ms_since_last_tick) ==
    remove_expired_cache([ni EXCEPT !.current_time = @ + ms_since_last_tick])
=============================================================================
