---------------------------- MODULE FormatsSpec -----------------------------
(***************************************************************************)
(* A message crosses a wire: a TCP segment wrapped in an IPv4 datagram, or *)
(* an ARP message in an Ethernet frame.  On the way one byte may change,   *)
(* bytes may be cut off the end, or padding may be added.                  *)
(***************************************************************************)
EXTENDS Formats

CONSTANTS
    Noise,      \* what may be added to a byte on the wire, modulo 256
    Padding     \* the most bytes added at the end

VARIABLES
    message,    \* what is sent
    wire,       \* its bytes
    fate,       \* "new", "threw", or what happened to the bytes
    done,   \* have they been read?
    arrived     \* the messages handed up: none or one

vars == <<message, wire, fate, done, arrived>>

---------------------------------------------------------------------------
(* Sending and receiving *)

\* TCPOverIPv4Adapter::wrap_tcp_in_ip()
datagram_of(m) ==
    LET length == 20 + 4 * m.header.doff + Len(m.payload)
        header == [NewIPv4Header EXCEPT !.src = m.src, !.dst = m.dst, !.len = length]
    IN  [header |-> header, payload |-> tcp_segment_serialize(m, pseudo_cksum(header))]

\* NetworkInterface::_make_frame() with an ARP message as payload.
frame_of(m) ==
    [header |-> [dst |-> m.dst, src |-> m.arp.sender_ethernet_address, type |-> TYPE_ARP],
     payload |-> arp_serialize(m.arp)]

\* TCPOverIPv4Adapter::unwrap_tcp_in_ip(), up to a valid segment.
receive_segment(bytes) ==
    With(ipv4_datagram_parse(bytes), LAMBDA d :
        IF d.result # "NoError" \/ d.header.proto # 6 THEN {}
        ELSE With(tcp_segment_parse(d.payload, pseudo_cksum(d.header)), LAMBDA seg :
            IF seg.result # "NoError" THEN {}
            ELSE {[kind |-> "tcp", src |-> d.header.src, dst |-> d.header.dst,
                   header |-> [seg.header EXCEPT !.cksum = 0], payload |-> seg.payload]}))

\* NetworkInterface::recv_frame(), up to a valid ARP message.
receive_frame(bytes) ==
    With(ethernet_frame_parse(bytes), LAMBDA f :
        IF f.result # "NoError" \/ f.header.type # TYPE_ARP THEN {}
        ELSE With(arp_parse(f.payload), LAMBDA a :
            IF a.result # "NoError" THEN {}
            ELSE {[kind |-> "arp", dst |-> f.header.dst, arp |-> a.message]}))

---------------------------------------------------------------------------
(* The messages *)

Mac(n) == <<2, 0, 0, 0, 0, n>>
Broadcast == <<255, 255, 255, 255, 255, 255>>

Segments ==
    {[kind |-> "tcp", src |-> <<2560, 1>>, dst |-> <<49320, 300>>, payload |-> payload,
      header |-> [NewTCPHeader EXCEPT !.sport = 80, !.dport = 40000, !.seqno = <<65535, 65534>>,
                                      !.ackno = <<0, 7>>, !.win = 64000, !.doff = doff,
                                      !.ack = TRUE, !.syn = (f = "syn"), !.fin = (f = "fin"),
                                      !.psh = (f = "psh"), !.urg = (f = "psh"), !.rst = (f = "rst")]] :
        payload \in {<< >>, <<7>>, <<0, 255, 0>>}, doff \in {4, 5, 6}, f \in {"syn", "fin", "psh", "rst"}}

Messages ==
    {[kind |-> "arp", dst |-> IF opcode = 1 THEN Broadcast ELSE Mac(2),
      arp |-> [hardware_type |-> 1, protocol_type |-> TYPE_IPv4, hardware_address_size |-> 6,
               protocol_address_size |-> 4, opcode |-> opcode,
               sender_ethernet_address |-> Mac(1), sender_ip_address |-> <<2560, 1>>,
               target_ethernet_address |-> Mac(IF opcode = 1 THEN 0 ELSE 2),
               target_ip_address |-> <<49320, 300>>]] : opcode \in {1, 2, 3}}

Init ==
    /\ message \in Segments \cup Messages
    /\ wire = << >> /\ fate = "new" /\ done = FALSE /\ arrived = {}

\* serialize() throws; wrapping a segment serializes it first.
throws(m) ==
    IF m.kind = "arp" THEN throws_arp(m.arp) ELSE throws_tcp(m) \/ throws_ipv4(datagram_of(m))

Serialize ==
    /\ fate = "new"
    /\ \/ /\ throws(message)
          /\ fate' = "threw" /\ wire' = wire
       \/ /\ ~throws(message)
          /\ fate' = "whole"
          /\ wire' = IF message.kind = "tcp" THEN ipv4_datagram_serialize(datagram_of(message))
                     ELSE ethernet_frame_serialize(frame_of(message))
    /\ UNCHANGED <<message, done, arrived>>

Corrupt(i, n) ==
    /\ fate = "whole" /\ ~done /\ i \in DOMAIN wire
    /\ wire' = [wire EXCEPT ![i] = (@ + n) % 256]
    /\ fate' = "corrupt"
    /\ UNCHANGED <<message, done, arrived>>

Truncate(n) ==
    /\ fate = "whole" /\ ~done /\ n < Len(wire)
    /\ wire' = SubSeq(wire, 1, n)
    /\ fate' = "truncated"
    /\ UNCHANGED <<message, done, arrived>>

Pad(n) ==
    /\ fate = "whole" /\ ~done
    /\ wire' = resize(wire, Len(wire) + n)
    /\ fate' = "padded"
    /\ UNCHANGED <<message, done, arrived>>

Receive ==
    /\ ~done /\ fate \notin {"new", "threw"}
    /\ arrived' = IF message.kind = "tcp" THEN receive_segment(wire) ELSE receive_frame(wire)
    /\ done' = TRUE
    /\ UNCHANGED <<message, wire, fate>>

Next ==
    \/ Serialize
    \/ \E i \in 1..60, n \in Noise : Corrupt(i, n)
    \/ \E n \in 0..60 : Truncate(n)
    \/ \E n \in 1..Padding : Pad(n)
    \/ Receive

Spec == Init /\ [][Next]_vars

---------------------------------------------------------------------------
(* Properties *)

\* Every message with a possible header can be serialized, and parse() reads
\* back what serialize() wrote, field by field, flags, options and an odd
\* number of payload bytes included.
RoundTrip ==
    /\ fate = "threw" => IF message.kind = "tcp" THEN message.header.doff < 5 ELSE message.arp.opcode = 3
    /\ done /\ fate = "whole" => arrived = {message}

\* A TCP segment that is handed up is the one that was sent, from and to the
\* same addresses, if at most one byte changed on the way or the datagram got
\* shorter or longer: what the header checks of IPv4 let pass (their result
\* is dropped) the length check and the TCP checksum catch.  An ARP message,
\* which has no checksum, is handed up only complete.
IntactOrDropped ==
    (message.kind = "tcp" \/ fate \in {"truncated", "padded"}) => arrived \subseteq {message}

\* What the documentation of IPv4Header::parse() lists as errors to check
\* for, a wrong version number or a bad checksum for instance, is not
\* accepted as a datagram.
HeaderErrorsReported ==
    message.kind = "tcp" /\ fate = "corrupt" =>
        (ipv4_datagram_parse(wire).result = "NoError" => ipv4_header_parse(NewNetParser(wire)).result = "NoError")
=============================================================================
