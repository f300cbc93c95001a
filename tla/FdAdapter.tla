----------------------------- MODULE FdAdapter ------------------------------
(***************************************************************************)
(* The datagram adapters between a TCPConnection and the network:          *)
(* FdAdapterBase, TCPOverUDPSocketAdapter, LossyFdAdapter                  *)
(* (tcp_helpers/fd_adapter.{hh,cc}, lossy_fd_adapter.hh) and               *)
(* TCPOverIPv4Adapter (tcp_over_ip.cc, tuntap_adapter.hh).                 *)
(*                                                                         *)
(* An adapter is its configuration and the listening flag.  An address is  *)
(* a record of an ip and a port.  An optional is a set with at most one    *)
(* element.  A datagram says whether its payload parses.                   *)
(***************************************************************************)

NewAdapter(source, destination, listening) ==
    [source |-> source, destination |-> destination, listening |-> listening]

\* What a read comes to: the adapter, and the segment handed up, if any.
ReadResult(a, segs) == [adapter |-> a, segs |-> segs]

\* Plausible bug: the adapter goes on answering from the address it is bound to.
latch_keeps_source(a, source, peer) == NewAdapter(a.source, peer, FALSE)

\* From here on the adapter talks to peer only.
latch(a, source, peer) == NewAdapter(source, peer, FALSE)

opens(seg) == seg.syn /\ ~seg.rst

\* TCPOverUDPSocketAdapter::read()
udp_read(a, dgram) ==
    IF (~a.listening /\ dgram.source # a.destination) \/ ~dgram.parses THEN ReadResult(a, {})
    ELSE IF ~a.listening THEN ReadResult(a, {dgram.seg})
    ELSE IF opens(dgram.seg) THEN ReadResult(latch(a, a.source, dgram.source), {dgram.seg})
    ELSE ReadResult(a, {})

\* TCPOverUDPSocketAdapter::write(): the datagram that leaves.
udp_write(a, seg) ==
    [source |-> a.source, destination |-> a.destination, parses |-> TRUE, seg |-> seg]

\* Plausible bug: the ports are compared only while listening.
unwrap_tcp_in_ip_any_port(a, dgram) ==
    LET peer == [ip |-> dgram.src, port |-> dgram.sport]
        here == [ip |-> dgram.dst, port |-> a.source.port]
    IN  IF \/ ~a.listening /\ (dgram.dst # a.source.ip \/ dgram.src # a.destination.ip)
           \/ dgram.proto # "TCP" \/ ~dgram.parses
        THEN ReadResult(a, {})
        ELSE IF ~a.listening THEN ReadResult(a, {dgram.seg})
        ELSE IF opens(dgram.seg) THEN ReadResult(latch(a, here, peer), {dgram.seg})
        ELSE ReadResult(a, {})

\* TCPOverIPv4Adapter::unwrap_tcp_in_ip(): a listening adapter bound to any
\* address answers from the one that was contacted.
unwrap_tcp_in_ip(a, dgram) ==
    LET peer == [ip |-> dgram.src, port |-> dgram.sport]
        here == [ip |-> dgram.dst, port |-> a.source.port]
    IN  IF \/ ~a.listening /\ (dgram.dst # a.source.ip \/ dgram.src # a.destination.ip)
           \/ dgram.proto # "TCP" \/ ~dgram.parses
           \/ dgram.dport # a.source.port
        THEN ReadResult(a, {})
        ELSE IF ~a.listening
        THEN ReadResult(a, IF dgram.sport = a.destination.port THEN {dgram.seg} ELSE {})
        ELSE IF opens(dgram.seg) THEN ReadResult(latch(a, here, peer), {dgram.seg})
        ELSE ReadResult(a, {})

\* TCPOverIPv4Adapter::wrap_tcp_in_ip()
wrap_tcp_in_ip(a, seg) ==
    [src |-> a.source.ip, sport |-> a.source.port, proto |-> "TCP", ttl |-> 128, parses |-> TRUE,
     dst |-> a.destination.ip, dport |-> a.destination.port, seg |-> seg]

\* LossyFdAdapter::read(): the adapter inside has read, whatever is dropped.
lossy_read(result, drop) == IF drop THEN ReadResult(result.adapter, {}) ELSE result

\* LossyFdAdapter::write(): the datagrams that leave, one or none.
lossy_write(dgram, drop) == IF drop THEN {} ELSE {dgram}
=============================================================================
