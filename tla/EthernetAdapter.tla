-------------------------- MODULE EthernetAdapter ---------------------------
(***************************************************************************)
(* class TCPOverIPv4OverEthernetAdapter (tcp_helpers/tuntap_adapter.cc):   *)
(* a TCPOverIPv4Adapter that reaches its next hop through a                *)
(* NetworkInterface.  apps/lab7.cc has the same class over a socket pair.  *)
(*                                                                         *)
(* tap is what the last call has written to the device.                    *)
(***************************************************************************)
EXTENDS NetworkInterface, FdAdapter, Binding

NewEthernetAdapter(ethernet_address, ip_address, next_hop, adapter) ==
    [interface |-> NewNetworkInterface(ethernet_address, ip_address),
     next_hop |-> next_hop, ip |-> adapter, tap |-> << >>]

\* send_pending(): whatever the interface wants to send is written.
send_pending(a, interface) ==
    [a EXCEPT !.interface = [interface EXCEPT !.frames_out = << >>],
              !.tap = interface.frames_out]

\* read(): a frame that does not parse is dropped.
adapter_read(a, frame, parses) ==
    IF ~parses THEN ReadResult([a EXCEPT !.tap = << >>], {})
    ELSE With(send_pending(a, recv_frame(a.interface, frame, TRUE)), LAMBDA b :
            IF received(a.interface, frame, TRUE) = << >> THEN ReadResult(b, {})
            ELSE With(unwrap_tcp_in_ip(b.ip, frame.payload), LAMBDA r :
                    ReadResult([b EXCEPT !.ip = r.adapter], r.segs)))

adapter_tick(a, ms) == send_pending(a, tick(a.interface, ms))

adapter_write(a, seg) == send_pending(a, send_datagram(a.interface, wrap_tcp_in_ip(a.ip, seg), a.next_hop))
=============================================================================
