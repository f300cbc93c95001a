--------------------------- MODULE TCPConnection ----------------------------
(***************************************************************************)
(* class TCPConnection (libsponge/tcp_connection.{hh,cc}): a sender and a  *)
(* receiver joined into one endpoint, with its reset and shutdown rules.   *)
(*                                                                         *)
(* segments_out is the queue towards the network.  Every public method     *)
(* that makes the sender queue a segment also moves it there, stamped with *)
(* the receiver's current ackno and window.                                *)
(***************************************************************************)
EXTENDS Integers, Sequences, Binding

CONSTANTS
    Base,               \* the number of relative sequence numbers
    MAX_PAYLOAD_SIZE,   \* TCPConfig::MAX_PAYLOAD_SIZE
    MAX_RETX_ATTEMPTS,  \* TCPConfig::MAX_RETX_ATTEMPTS
    MAX_WIN,            \* numeric_limits<uint16_t>::max()
    LINGER              \* 10 * rt_timeout, the time to stay after both streams

RX  == INSTANCE TCPReceiver
TX  == INSTANCE TCPSender
BS  == INSTANCE ByteStream
W   == INSTANCE WrappingIntegers
SEG == INSTANCE TCPSegment

NewTCPConnection(recv_capacity, send_capacity, rt_timeout, isn) ==
    [receiver     |-> RX!NewTCPReceiver(recv_capacity),
     sender       |-> TX!NewTCPSender(send_capacity, rt_timeout, isn),
     segments_out |-> << >>,
     last_recv_et |-> 0,
     linger_after_streams_finish |-> TRUE,
     active       |-> TRUE]

inbound(c) == RX!stream_out(c.receiver)

outbound(c) == c.sender.stream

\* The header fields the receiver provides.
stamp(c, seg) ==
    [seg EXCEPT
        !.win   = BS!MinOf(RX!window_size(c.receiver), MAX_WIN),
        !.ack   = RX!has_ackno(c.receiver),
        !.ackno = IF RX!has_ackno(c.receiver) THEN RX!ackno(c.receiver) ELSE @]

clear_sendbuf(c) ==
    LET queue == c.sender.segments_out
    IN  [c EXCEPT !.segments_out = @ \o [i \in 1 .. Len(queue) |-> stamp(c, queue[i])],
                  !.sender.segments_out = << >>]

shutdown(c, clean) ==
    IF clean
    THEN [c EXCEPT !.active = FALSE]
    ELSE [c EXCEPT !.active = FALSE,
                   !.sender.stream = BS!set_error(@),
                   !.receiver.reassembler.output = BS!set_error(@)]

send_empty(c) ==
    [c EXCEPT !.sender = TX!send_empty_segment(@, FALSE, FALSE, FALSE)]

send_rst_segment(c) ==
    With([c EXCEPT !.sender = TX!send_empty_segment(@, FALSE, FALSE, TRUE)], clear_sendbuf)

\* A segment that occupies sequence numbers is answered by something: what
\* the ack let out, what the window allows now, or else a bare ack.
answer(c, seg) ==
    LET ensure(filled) ==
            IF filled.sender.segments_out # << >> THEN filled ELSE send_empty(filled)
    IN  IF SEG!length_in_sequence_space(seg) = 0 \/ c.sender.segments_out # << >>
        THEN c
        ELSE With([c EXCEPT !.sender = TX!fill_window(@)], ensure)

\* A bare segment one below the expected number is a keep-alive probe.
answer_keep_alive(c, seg) ==
    IF /\ RX!has_ackno(c.receiver)
       /\ SEG!length_in_sequence_space(seg) = 0
       /\ seg.seqno = W!minus(RX!ackno(c.receiver), 1)
    THEN send_empty(c)
    ELSE c

\* Plausible bug: either end may skip lingering.
note_passive_close_always(c) ==
    IF inbound(c).input_ended
    THEN [c EXCEPT !.linger_after_streams_finish = FALSE]
    ELSE c

\* The peer's stream has ended before ours: no need to linger.
note_passive_close(c) ==
    IF inbound(c).input_ended /\ ~outbound(c).input_ended
    THEN [c EXCEPT !.linger_after_streams_finish = FALSE]
    ELSE c

take_ack(c, seg) ==
    IF seg.ack
    THEN [c EXCEPT !.sender = TX!ack_received(@, seg.ackno, seg.win)]
    ELSE c

segment_received(c0, seg) ==
    LET c == [c0 EXCEPT !.last_recv_et = 0]
        received == [c EXCEPT !.receiver = RX!segment_received(@, seg)]
        acked    == With(received, LAMBDA x : take_ack(x, seg))
        answered == With(acked, LAMBDA x : answer(x, seg))
        probed   == With(answered, LAMBDA x : answer_keep_alive(x, seg))
    IN  IF seg.rst
        THEN shutdown(c, FALSE)
        ELSE With(With(probed, clear_sendbuf), note_passive_close)

write(c, data) ==
    With([c EXCEPT !.sender = TX!fill_window([c.sender EXCEPT !.stream = BS!write(@, data)])],
         clear_sendbuf)

end_input_stream(c) ==
    With([c EXCEPT !.sender = TX!fill_window([c.sender EXCEPT !.stream = BS!end_input(@)])],
         clear_sendbuf)

connect(c) == With([c EXCEPT !.sender = TX!fill_window(@)], clear_sendbuf)

\* Plausible bug: the peer's acknowledgment is not waited for.
should_shutdown_unacked(c) ==
    inbound(c).input_ended /\ outbound(c).input_ended

\* Plausible bug: the FIN is left out of the count.
should_shutdown_without_fin(c) ==
    /\ inbound(c).input_ended /\ outbound(c).input_ended
    /\ TX!bytes_in_flight(c.sender) = 0
    /\ c.sender.next_seqno = outbound(c).bytes_written + 1

\* Both streams are over and the peer has acknowledged all of ours.
should_shutdown(c) ==
    /\ inbound(c).input_ended
    /\ RX!unassembled_bytes(c.receiver) = 0
    /\ outbound(c).input_ended
    /\ TX!bytes_in_flight(c.sender) = 0
    /\ c.sender.next_seqno = outbound(c).bytes_written + 2

\* last_recv_et is only ever compared with LINGER, so it stops there.
tick(c0, ms_since_last_tick) ==
    LET c == [c0 EXCEPT !.last_recv_et = BS!MinOf(@ + ms_since_last_tick, LINGER)]
        lingering == c.linger_after_streams_finish /\ c.last_recv_et < LINGER
        finish(ticked) ==
            IF should_shutdown(ticked) /\ ~lingering THEN shutdown(ticked, TRUE) ELSE ticked
    IN  IF TX!consecutive_retransmissions(c.sender) >= MAX_RETX_ATTEMPTS
        THEN shutdown(send_rst_segment(c), FALSE)
        ELSE With(With([c EXCEPT !.sender = TX!tick(@, ms_since_last_tick)], finish),
                  clear_sendbuf)

\* ~TCPConnection()
destroy(c) == IF c.active THEN shutdown(send_rst_segment(c), FALSE) ELSE c
=============================================================================
