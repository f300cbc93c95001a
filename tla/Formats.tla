------------------------------ MODULE Formats -------------------------------
(***************************************************************************)
(* The wire formats of the stack, in tcp_helpers/: IPv4Header and          *)
(* IPv4Datagram, TCPHeader and TCPSegment, EthernetHeader and              *)
(* EthernetFrame, ARPMessage.                                              *)
(*                                                                         *)
(* Parsing a header gives the parser after it, the header, and the         *)
(* ParseResult that parse() returns; parsing a packet gives its header,    *)
(* its payload and the result.  serialize() throws on the packets for      *)
(* which the operator named throws_ holds.                                 *)
(***************************************************************************)
EXTENDS Parser

Parsed(p, header, result) == [p |-> p, header |-> header, result |-> result]
Packet(header, payload, result) == [header |-> header, payload |-> payload, result |-> result]

flag(n, bit) == (n \div bit) % 2 = 1
bits(set, bit) == IF set THEN bit ELSE 0

---------------------------------------------------------------------------
(* IPv4 *)

IPv4Fields == << <<"first", 1>>, <<"tos", 1>>, <<"len", 2>>, <<"id", 2>>, <<"fo", 2>>, <<"ttl", 1>>,
                 <<"proto", 1>>, <<"cksum", 2>>, <<"src", 4>>, <<"dst", 4>> >>

NewIPv4Header ==
    [ver |-> 4, hlen |-> 5, tos |-> 0, len |-> 0, id |-> 0, df |-> TRUE, mf |-> FALSE, offset |-> 0,
     ttl |-> 128, proto |-> 6, cksum |-> 0, src |-> <<0, 0>>, dst |-> <<0, 0>>]

\* IPv4Header::parse(): the fields.
IPv4Decode(f) ==
    [ver |-> f.first \div 16, hlen |-> f.first % 16, tos |-> f.tos, len |-> f.len, id |-> f.id,
     df |-> flag(f.fo, 16384), mf |-> flag(f.fo, 8192), offset |-> f.fo % 8192,
     ttl |-> f.ttl, proto |-> f.proto, cksum |-> f.cksum, src |-> f.src, dst |-> f.dst]

internet_checksum(initial, bytes) == checksum_value(checksum_add(NewInternetChecksum(initial), bytes))

\* IPv4Header::parse()
ipv4_header_parse(p) ==
    IF Len(p.buffer) < 20 THEN Parsed(p, NewIPv4Header, "PacketTooShort")
    ELSE With(parse_fields(p, IPv4Fields), LAMBDA r :
         With(IPv4Decode(named(r.values, IPv4Fields)), LAMBDA h :
            IF Len(p.buffer) < 4 * h.hlen THEN Parsed(r.p, h, "PacketTooShort")
            ELSE IF h.ver # 4 THEN Parsed(r.p, h, "WrongIPVersion")
            ELSE IF h.hlen < 5 THEN Parsed(r.p, h, "HeaderTooShort")
            ELSE IF Len(p.buffer) # h.len THEN Parsed(r.p, h, "TruncatedPacket")
            ELSE With(remove_prefix(r.p, 4 * h.hlen - 20), LAMBDA q :
                     Parsed(q, h, IF q.error # "NoError" THEN q.error
                                  ELSE IF internet_checksum(0, SubSeq(p.buffer, 1, 4 * h.hlen)) # 0
                                  THEN "BadChecksum" ELSE "NoError"))))

\* IPv4Header::serialize()
ipv4_header_serialize(h) ==
    resize(unparse_fields([first |-> 16 * h.ver + (h.hlen % 16), tos |-> h.tos, len |-> h.len, id |-> h.id,
                           fo |-> bits(h.df, 16384) + bits(h.mf, 8192) + (h.offset % 8192),
                           ttl |-> h.ttl, proto |-> h.proto, cksum |-> h.cksum,
                           src |-> h.src, dst |-> h.dst], IPv4Fields),
           4 * h.hlen)

payload_length(h) == (h.len - 4 * h.hlen) % 65536

\* IPv4Header::pseudo_cksum()
pseudo_cksum(h) == h.src[1] + h.src[2] + h.dst[1] + h.dst[2] + h.proto + payload_length(h)

\* Plausible bug: a datagram shorter than it claims is delivered.
ipv4_datagram_parse_any_length(bytes) ==
    With(ipv4_header_parse(NewNetParser(bytes)), LAMBDA r : Packet(r.header, r.p.buffer, r.p.error))

\* IPv4Datagram::parse()
ipv4_datagram_parse(bytes) ==
    With(ipv4_header_parse(NewNetParser(bytes)), LAMBDA r :
        Packet(r.header, r.p.buffer,
               IF Len(r.p.buffer) # payload_length(r.header) THEN "PacketTooShort" ELSE r.p.error))

throws_ipv4(d) == Len(d.payload) # payload_length(d.header) \/ d.header.ver # 4 \/ d.header.hlen < 5

\* IPv4Datagram::serialize()
ipv4_datagram_serialize(d) ==
    LET blank == [d.header EXCEPT !.cksum = 0]
        cksum == internet_checksum(0, ipv4_header_serialize(blank))
    IN  ipv4_header_serialize([d.header EXCEPT !.cksum = cksum]) \o d.payload

---------------------------------------------------------------------------
(* TCP *)

TCPFields == << <<"sport", 2>>, <<"dport", 2>>, <<"seqno", 4>>, <<"ackno", 4>>, <<"off", 1>>, <<"flags", 1>>,
                <<"win", 2>>, <<"cksum", 2>>, <<"uptr", 2>> >>

NewTCPHeader ==
    [sport |-> 0, dport |-> 0, seqno |-> <<0, 0>>, ackno |-> <<0, 0>>, doff |-> 5,
     urg |-> FALSE, ack |-> FALSE, psh |-> FALSE, rst |-> FALSE, syn |-> FALSE, fin |-> FALSE,
     win |-> 0, cksum |-> 0, uptr |-> 0]

\* TCPHeader::parse(): the fields.
TCPDecode(f) ==
    [sport |-> f.sport, dport |-> f.dport, seqno |-> f.seqno, ackno |-> f.ackno, doff |-> f.off \div 16,
     urg |-> flag(f.flags, 32), ack |-> flag(f.flags, 16), psh |-> flag(f.flags, 8),
     rst |-> flag(f.flags, 4), syn |-> flag(f.flags, 2), fin |-> flag(f.flags, 1),
     win |-> f.win, cksum |-> f.cksum, uptr |-> f.uptr]

\* TCPHeader::parse()
tcp_header_parse(p) ==
    With(parse_fields(p, TCPFields), LAMBDA r :
    With(TCPDecode(named(r.values, TCPFields)), LAMBDA h :
        IF h.doff < 5 THEN Parsed(r.p, h, "HeaderTooShort")
        ELSE With(remove_prefix(r.p, 4 * h.doff - 20), LAMBDA q : Parsed(q, h, q.error))))

\* TCPHeader::serialize()
tcp_header_serialize(h) ==
    resize(unparse_fields([sport |-> h.sport, dport |-> h.dport, seqno |-> h.seqno, ackno |-> h.ackno,
                           off |-> 16 * h.doff,
                           flags |-> bits(h.urg, 32) + bits(h.ack, 16) + bits(h.psh, 8)
                                     + bits(h.rst, 4) + bits(h.syn, 2) + bits(h.fin, 1),
                           win |-> h.win, cksum |-> h.cksum, uptr |-> h.uptr], TCPFields),
           4 * h.doff)

\* TCPSegment::parse(): after a bad checksum the segment is as constructed.
tcp_segment_parse(bytes, datagram_layer_checksum) ==
    IF internet_checksum(datagram_layer_checksum, bytes) # 0
    THEN Packet(NewTCPHeader, << >>, "BadChecksum")
    ELSE With(tcp_header_parse(NewNetParser(bytes)), LAMBDA r : Packet(r.header, r.p.buffer, r.p.error))

throws_tcp(seg) == seg.header.doff < 5

\* TCPSegment::serialize()
tcp_segment_serialize(seg, datagram_layer_checksum) ==
    LET blank == tcp_header_serialize([seg.header EXCEPT !.cksum = 0])
        check == checksum_add(checksum_add(NewInternetChecksum(datagram_layer_checksum), blank), seg.payload)
    IN  tcp_header_serialize([seg.header EXCEPT !.cksum = checksum_value(check)]) \o seg.payload

---------------------------------------------------------------------------
(* Ethernet and ARP *)

EthernetFields == << <<"dst", 6>>, <<"src", 6>>, <<"type", 2>> >>

TYPE_IPv4 == 2048
TYPE_ARP == 2054

NewEthernetHeader ==
    [dst |-> <<0, 0, 0, 0, 0, 0>>, src |-> <<0, 0, 0, 0, 0, 0>>, type |-> 0]

\* EthernetHeader::parse()
ethernet_header_parse(p) ==
    IF Len(p.buffer) < 14 THEN Parsed(p, NewEthernetHeader, "PacketTooShort")
    ELSE With(parse_fields(p, EthernetFields), LAMBDA r :
             Parsed(r.p, named(r.values, EthernetFields), r.p.error))

\* EthernetFrame::parse()
ethernet_frame_parse(bytes) ==
    With(ethernet_header_parse(NewNetParser(bytes)), LAMBDA r : Packet(r.header, r.p.buffer, r.p.error))

\* EthernetFrame::serialize()
ethernet_frame_serialize(f) == unparse_fields(f.header, EthernetFields) \o f.payload

ARPFields == << <<"hardware_type", 2>>, <<"protocol_type", 2>>, <<"hardware_address_size", 1>>,
                <<"protocol_address_size", 1>>, <<"opcode", 2>>,
                <<"sender_ethernet_address", 6>>, <<"sender_ip_address", 4>>,
                <<"target_ethernet_address", 6>>, <<"target_ip_address", 4>> >>

\* ARPMessage::supported()
supported(m) ==
    /\ m.hardware_type = 1 /\ m.protocol_type = TYPE_IPv4
    /\ m.hardware_address_size = 6 /\ m.protocol_address_size = 4
    /\ m.opcode \in {1, 2}

\* ARPMessage::parse(): the message counts only without an error.
arp_parse(bytes) ==
    With(parse_fields(NewNetParser(bytes), ARPFields), LAMBDA r :
    With(named(r.values, ARPFields), LAMBDA m :
        [message |-> m,
         result  |-> IF Len(bytes) < 28 THEN "PacketTooShort"
                     ELSE IF ~supported(m) THEN "Unsupported" ELSE r.p.error]))

throws_arp(m) == ~supported(m)

\* ARPMessage::serialize()
arp_serialize(m) == unparse_fields(m, ARPFields)
=============================================================================
