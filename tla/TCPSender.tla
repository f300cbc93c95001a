----------------------------- MODULE TCPSender ------------------------------
(***************************************************************************)
(* classes Timer and TCPSender (libsponge/tcp_sender.{hh,cc}): cuts the    *)
(* outgoing ByteStream into segments that fit the peer's window, keeps     *)
(* them until they are acknowledged, and retransmits the oldest when the   *)
(* timer expires.                                                          *)
(*                                                                         *)
(* segments_out is the queue towards the owner, retrans_buf the segments   *)
(* sent but not yet acknowledged.  Time is in the units of tick().         *)
(***************************************************************************)
EXTENDS WrappingIntegers, Sequences, Binding

CONSTANT MAX_PAYLOAD_SIZE   \* TCPConfig::MAX_PAYLOAD_SIZE

BS  == INSTANCE ByteStream
SEG == INSTANCE TCPSegment
-----------------------------------------------------------------------------
\* class Timer

timer_reset == [active |-> FALSE, expired |-> FALSE, current_time |-> 0, timeout |-> 0]

timer_start(timeout) ==
    [active |-> TRUE, expired |-> FALSE, current_time |-> 0, timeout |-> timeout]

\* Throws when the timer is inactive; tick() never calls it then.
timer_update(t, time_elapsed) ==
    [t EXCEPT !.current_time = @ + time_elapsed,
              !.expired      = @ \/ t.current_time + time_elapsed >= t.timeout]

timer_expired(t) == t.active /\ t.expired
-----------------------------------------------------------------------------
\* class TCPSender

NewTCPSender(capacity, retx_timeout, isn) ==
    [isn             |-> isn,
     segments_out    |-> << >>,
     retrans_buf     |-> << >>,
     initial_retransmission_timeout |-> retx_timeout,
     retrans_timeout |-> retx_timeout,
     consec_retrans_count |-> 0,
     stream          |-> BS!NewByteStream(capacity),
     next_seqno      |-> 0,
     window_size     |-> 1,
     syn_sent        |-> FALSE,
     fin_sent        |-> FALSE,
     timer           |-> timer_reset]

bytes_in_flight(tx) ==
    LET res[k \in 0 .. Len(tx.retrans_buf)] ==
            IF k = 0 THEN 0
            ELSE res[k - 1] + SEG!length_in_sequence_space(tx.retrans_buf[k])
    IN  res[Len(tx.retrans_buf)]

\* The window fill_window() works with: an advertised zero counts as one.
effective_window(tx) == IF tx.window_size # 0 THEN tx.window_size ELSE 1

\* Plausible bug: what is in flight is not taken off the window.
remaining_winsize_whole(tx) == effective_window(tx)

\* What is left of the window.  Every segment sent takes the same amount from
\* remaining_winsize as it adds to bytes_in_flight().
remaining_winsize(tx) == effective_window(tx) - bytes_in_flight(tx)

\* One turn of fill_window()'s loop: the next segment, or nothing when the
\* window is used up or there is nothing to send.
fill_turn(tx) ==
    LET syn       == ~tx.syn_sent
        seg_size  == remaining_winsize(tx) - SEG!One(syn)
        len       == BS!MinOf(seg_size, MAX_PAYLOAD_SIZE)
        data      == BS!peek_output(tx.stream, len)
        stream    == BS!read(tx.stream, len)
        fin       == ~tx.fin_sent /\ BS!eof(stream) /\ seg_size > Len(data)
        seg       == SEG!Segment(wrap(tx.next_seqno, tx.isn), syn, data, fin)
    IN  IF remaining_winsize(tx) <= 0 \/ ~(syn \/ data # << >> \/ fin)
        THEN tx
        ELSE [tx EXCEPT !.stream       = stream,
                        !.syn_sent     = TRUE,
                        !.fin_sent     = @ \/ fin,
                        !.segments_out = Append(@, seg),
                        !.retrans_buf  = Append(@, seg),
                        !.next_seqno   = @ + SEG!length_in_sequence_space(seg),
                        !.timer        = IF @.active THEN @
                                         ELSE timer_start(tx.retrans_timeout)]

\* Every turn that sends takes at least a byte, the SYN or the FIN, so this
\* many reach the end of the loop.
fill_window(tx) ==
    LET last == Len(tx.stream.buf) + 2
        turns[k \in 0 .. last] ==
            IF k = 0 THEN tx
            ELSE With(turns[k - 1], fill_turn)
    IN  turns[last]

\* How many segments at the front of retrans_buf an ack of everything below
\* ack_seqno covers completely.
acked_segments(tx, ack_seqno) ==
    LET acked(seg) == unwrap(seg.seqno, tx.isn, tx.next_seqno)
                        + SEG!length_in_sequence_space(seg) <= ack_seqno
        n == Len(tx.retrans_buf)
    IN  CHOOSE k \in 0 .. n :
            /\ \A i \in 1 .. k : acked(tx.retrans_buf[i])
            /\ k < n => ~acked(tx.retrans_buf[k + 1])

\* Plausible bug: the timer goes on when nothing is outstanding.
erase_acked_keeps_timer(tx, n) ==
    [tx EXCEPT !.retrans_buf = SubSeq(@, n + 1, Len(@)),
               !.retrans_timeout = IF n = 0 THEN @ ELSE tx.initial_retransmission_timeout,
               !.consec_retrans_count = IF n = 0 THEN @ ELSE 0]

\* Each segment erased resets the back-off and restarts the timer; an empty
\* retransmission buffer stops it.
erase_acked(tx, n) ==
    LET buf == SubSeq(tx.retrans_buf, n + 1, Len(tx.retrans_buf))
        rto == tx.initial_retransmission_timeout
    IN  IF n = 0
        THEN [tx EXCEPT !.timer = IF buf = << >> THEN timer_reset ELSE @]
        ELSE [tx EXCEPT !.retrans_buf          = buf,
                        !.retrans_timeout      = rto,
                        !.consec_retrans_count = 0,
                        !.timer = IF buf = << >> THEN timer_reset ELSE timer_start(rto)]

\* Plausible bug: a wider window is not used at once.
ack_received_without_fill(tx, ackno, window_size) ==
    LET told == [tx EXCEPT !.window_size = window_size]
    IN  erase_acked(told, acked_segments(told, unwrap(ackno, tx.isn, tx.next_seqno)))

ack_received(tx, ackno, window_size) ==
    LET told      == [tx EXCEPT !.window_size = window_size]
        ack_seqno == unwrap(ackno, tx.isn, tx.next_seqno)
    IN  IF ack_seqno > tx.next_seqno
        THEN told
        ELSE With(erase_acked(told, acked_segments(told, ack_seqno)), fill_window)

\* Plausible bug: the timer is not started again after it expired.
tick_once(tx, ms_since_last_tick) ==
    LET timer == IF tx.timer.active
                 THEN timer_update(tx.timer, ms_since_last_tick)
                 ELSE tx.timer
    IN  IF timer_expired(timer)
        THEN [tx EXCEPT !.segments_out         = Append(@, tx.retrans_buf[1]),
                        !.consec_retrans_count = @ + 1,
                        !.timer                = timer_reset]
        ELSE [tx EXCEPT !.timer = timer]

tick(tx, ms_since_last_tick) ==
    LET timer    == IF tx.timer.active
                    THEN timer_update(tx.timer, ms_since_last_tick)
                    ELSE tx.timer
        back_off == tx.window_size > 0
        rto      == IF back_off THEN 2 * tx.retrans_timeout ELSE tx.retrans_timeout
    IN  IF timer_expired(timer)
        THEN [tx EXCEPT !.segments_out         = Append(@, tx.retrans_buf[1]),
                        !.consec_retrans_count = @ + SEG!One(back_off),
                        !.retrans_timeout      = rto,
                        !.timer                = timer_start(rto)]
        ELSE [tx EXCEPT !.timer = timer]

consecutive_retransmissions(tx) == tx.consec_retrans_count

\* Plausible bug: a bare segment takes a sequence number.
send_empty_segment_counted(tx, syn, fin, rst) ==
    [tx EXCEPT !.next_seqno   = @ + 1,
               !.segments_out = Append(@, SEG!Segment(wrap(tx.next_seqno, tx.isn),
                                                      syn, << >>, fin))]

send_empty_segment(tx, syn, fin, rst) ==
    LET seg == [SEG!Segment(wrap(tx.next_seqno, tx.isn), syn, << >>, fin)
                  EXCEPT !.rst = rst]
    IN  [tx EXCEPT !.syn_sent     = @ \/ syn,
                   !.fin_sent     = @ \/ fin,
                   !.next_seqno   = @ + SEG!length_in_sequence_space(seg),
                   !.segments_out = Append(@, seg)]
=============================================================================
