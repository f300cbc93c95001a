-------------------------- MODULE TCPSpongeSocket ---------------------------
(***************************************************************************)
(* class TCPSpongeSocket (libsponge/tcp_helpers/tcp_sponge_socket.{hh,cc}) *)
(* without its threads: the four rules that join a TCPConnection, a        *)
(* datagram adapter and one end of a socket pair by an event loop, as      *)
(* operators on the record s of what the TCP thread works on.              *)
(*                                                                         *)
(* to_thread and to_owner are the two directions of the socket pair, inbox *)
(* holds the datagrams that have arrived, outbox those that have left.     *)
(***************************************************************************)
EXTENDS TCPState

CONSTANT PipeRoom   \* bytes the kernel holds in one direction of the socket pair

FD == INSTANCE FileDescriptor
FA == INSTANCE FdAdapter

NewTCPSpongeSocket(tcp, adapter) ==
    [tcp |-> tcp, adapter |-> adapter, inbox |-> << >>, outbox |-> << >>,
     thread_data |-> FD!NewFDWrapper, to_thread |-> FD!Queue(PipeRoom),
     to_owner |-> FD!Queue(PipeRoom), outbound_shutdown |-> FALSE,
     inbound_shutdown |-> FALSE]

DATAGRAM_IN  == 1
DATA_IN      == 2
DATA_OUT     == 3
DATAGRAM_OUT == 4

Rules == <<DATAGRAM_IN, DATA_IN, DATA_OUT, DATAGRAM_OUT>>

Eof(s, r) == r = DATA_IN /\ s.thread_data.eof

Closed(s, r) == r \in {DATA_IN, DATA_OUT} /\ s.thread_data.closed

over(stream) == BS!eof(stream) \/ stream.error

\* Plausible bug: an end that comes without bytes is not passed on.
Interest_ignores_end(s, r) ==
    CASE r = DATAGRAM_IN  -> s.tcp.active
      [] r = DATA_IN      -> /\ s.tcp.active /\ ~s.outbound_shutdown
                             /\ BS!remaining_capacity(outbound(s.tcp)) > 0
      [] r = DATA_OUT     -> ~BS!buffer_empty(inbound(s.tcp))
      [] r = DATAGRAM_OUT -> s.tcp.segments_out # << >>

Interest(s, r) ==
    CASE r = DATAGRAM_IN  -> s.tcp.active
      [] r = DATA_IN      -> /\ s.tcp.active /\ ~s.outbound_shutdown
                             /\ BS!remaining_capacity(outbound(s.tcp)) > 0
      [] r = DATA_OUT     -> \/ ~BS!buffer_empty(inbound(s.tcp))
                             \/ over(inbound(s.tcp)) /\ ~s.inbound_shutdown
      [] r = DATAGRAM_OUT -> s.tcp.segments_out # << >>

end_outbound(s) ==
    [s EXCEPT !.tcp = end_input_stream(@), !.outbound_shutdown = TRUE]

Cancel(s, r) == IF r = DATA_IN THEN end_outbound(s) ELSE s

Outcome(s, threw) == [s |-> s, serviced |-> TRUE, threw |-> threw]

\* Rule 1: a datagram to the connection.
datagram_in(s) ==
    With(FA!udp_read(s.adapter, Head(s.inbox)), LAMBDA x :
        {Outcome([s EXCEPT !.inbox = Tail(@), !.adapter = x.adapter, !.tcp = new], FALSE) :
            new \in IF x.segs = {} THEN {s.tcp} ELSE {segment_received(s.tcp, seg) : seg \in x.segs}})

\* Rule 2: what the owner wrote, or its end, to the connection.
data_in(s) ==
    {LET short == BS!write_size(outbound(s.tcp), x.data) # Len(x.data)
         taken == [s EXCEPT !.thread_data = x.fd, !.to_thread = x.q,
                            !.tcp = IF x.threw THEN @ ELSE write(@, x.data)]
     IN  Outcome(IF x.fd.eof THEN With(taken, end_outbound) ELSE taken, x.threw \/ short) :
        x \in FD!read(s.thread_data, s.to_thread, BS!remaining_capacity(outbound(s.tcp)))}

\* Plausible bug: everything offered counts as written.
data_out_pops_all(s) ==
    {LET popped == BS!pop_output(inbound(s.tcp), BS!buffer_size(inbound(s.tcp)))
     IN  Outcome([s EXCEPT !.tcp.receiver.reassembler.output = popped,
                           !.to_owner = IF over(popped) THEN FD!shutdown_write(x.q) ELSE x.q,
                           !.inbound_shutdown = @ \/ over(popped)], x.threw) :
        x \in FD!write(s.thread_data, s.to_owner,
                       BS!peek_output(inbound(s.tcp), BS!buffer_size(inbound(s.tcp))))}

\* Plausible bug: the owner is told of the end before it has the last bytes.
data_out_ends_early(s) ==
    {LET popped == BS!pop_output(inbound(s.tcp), Len(x.data))
     IN  Outcome([s EXCEPT !.tcp.receiver.reassembler.output = popped,
                           !.to_owner = IF popped.input_ended THEN FD!shutdown_write(x.q) ELSE x.q,
                           !.inbound_shutdown = @ \/ popped.input_ended], x.threw) :
        x \in FD!write(s.thread_data, s.to_owner,
                       BS!peek_output(inbound(s.tcp), BS!buffer_size(inbound(s.tcp))))}

\* Rule 3: what the peer sent, or its end, to the owner.  At most 65536 bytes
\* at a time: more than the streams here hold.
data_out(s) ==
    {LET popped == BS!pop_output(inbound(s.tcp), Len(x.data))
     IN  Outcome([s EXCEPT !.tcp.receiver.reassembler.output = popped,
                           !.to_owner = IF over(popped) THEN FD!shutdown_write(x.q) ELSE x.q,
                           !.inbound_shutdown = @ \/ over(popped)], x.threw) :
        x \in FD!write(s.thread_data, s.to_owner,
                       BS!peek_output(inbound(s.tcp), BS!buffer_size(inbound(s.tcp))))}

\* Rule 4: every segment the connection has queued to the network.
datagram_out(s) ==
    {Outcome([s EXCEPT !.tcp.segments_out = << >>,
                       !.outbox = @ \o [i \in DOMAIN s.tcp.segments_out |->
                                           FA!udp_write(s.adapter, s.tcp.segments_out[i])]],
             FALSE)}

Callback(s, r) ==
    CASE r = DATAGRAM_IN  -> datagram_in(s)
      [] r = DATA_IN      -> data_in(s)
      [] r = DATA_OUT     -> data_out(s)
      [] r = DATAGRAM_OUT -> datagram_out(s)

\* poll(2): a UDP socket takes what it is given; a stream socket hangs up when
\* both its directions have been shut down, by either side.
Revents(s, r) ==
    [ready |-> CASE r = DATAGRAM_IN  -> s.inbox # << >>
                 [] r = DATA_IN      -> FD!readable(s.to_thread)
                 [] r = DATA_OUT     -> FD!writable(s.to_owner)
                 [] r = DATAGRAM_OUT -> TRUE,
     hup   |-> /\ r \in {DATA_IN, DATA_OUT}
               /\ s.to_thread.ended /\ (s.to_owner.ended \/ s.to_owner.gone),
     err   |-> FALSE]

EL == INSTANCE EventLoop

\* The condition of the loop in connect() and in listen_and_accept().
opening(s, listens) ==
    \E name \in IF listens THEN {"LISTEN", "SYN_RCVD", "SYN_SENT"} ELSE {"SYN_SENT"} :
        is(s.tcp, name)

\* shutdown(SHUT_RDWR) on the owner's end: what is queued towards the owner can
\* still be read.
shutdown_owner(s) ==
    [s EXCEPT !.to_thread = FD!shutdown_write(@),
              !.to_owner = FD!shutdown_read(FD!shutdown_write(@))]

\* The end of _tcp_main(): the segments ~TCPConnection() queues go with it.
finish(s) ==
    [shutdown_owner(s) EXCEPT !.tcp = [destroy(@) EXCEPT !.segments_out = << >>]]
=============================================================================
