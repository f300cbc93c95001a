--------------------------- MODULE TCPSenderSpec ----------------------------
(***************************************************************************)
(* One TCPSender: a writer fills its stream and ends it, acknowledgments   *)
(* arrive late, twice, out of order and with any window, time passes.  The *)
(* owner empties segments_out between calls, so that after a step it holds *)
(* what that call has sent.                                                *)
(*                                                                         *)
(* The byte at stream index i is represented by i itself.                  *)
(***************************************************************************)
EXTENDS TCPSender

CONSTANTS
    Isn,            \* the initial sequence number
    SendCapacity,   \* capacity of the outgoing stream
    RtTimeout,      \* the initial retransmission timeout
    StreamLength,   \* bound: bytes written
    MaxWindow,      \* bound: the largest window advertised
    MaxTick,        \* bound: time between two ticks
    MaxRetx,        \* bound: consecutive retransmissions before the owner stops
    AckBeyond       \* how far past next_seqno the ackno of some peers points

\* A window, 16 bits in the code, is less than half the sequence space, 32 bits.
ASSUME SenderAssumption ==
    /\ MAX_PAYLOAD_SIZE \in Nat \ {0}
    /\ Isn \in WrappingInt32
    /\ SendCapacity \in Nat
    /\ RtTimeout \in Nat
    /\ StreamLength \in Nat
    /\ MaxWindow \in Nat
    /\ MaxTick \in Nat
    /\ MaxRetx \in Nat
    /\ AckBeyond \in Nat
    /\ Base > 2 /\ Base > 2 * MaxWindow

VARIABLES
    tx,     \* the TCPSender
    beyond  \* how far past next_seqno the ackno of this peer may point

txvars == <<tx, beyond>>

\* The sender with its outbound queue taken over by the owner.
Emptied == [tx EXCEPT !.segments_out = << >>]

SenderInit ==
    /\ tx = NewTCPSender(SendCapacity, RtTimeout, Isn)
    /\ beyond \in {0, AckBeyond}

FillWindow == tx' = fill_window(Emptied)

\* The writer and the owner: TCPConnection::write() and end_input_stream()
\* fill the window after they have touched the stream.
WriteData(len) ==
    LET data == [i \in 1 .. len |-> tx.stream.bytes_written + i - 1]
    IN  /\ tx.stream.bytes_written + len <= StreamLength
        /\ tx' = fill_window([Emptied EXCEPT !.stream = BS!write(@, data)])

EndData == tx' = fill_window([Emptied EXCEPT !.stream = BS!end_input(@)])

\* An acknowledgment is as old as it likes, up to half the sequence space.
AckReceived(ack_seqno, window_size) ==
    /\ 2 * (tx.next_seqno - ack_seqno) < Base
    /\ tx' = ack_received(Emptied, wrap(ack_seqno, Isn), window_size)

Tick(ms) ==
    /\ consecutive_retransmissions(tx) < MaxRetx
    /\ tx' = tick(Emptied, ms)

SendEmpty == tx' = send_empty_segment(Emptied, FALSE, FALSE, FALSE)

SenderNext ==
    /\ \/ FillWindow
       \/ \E len \in 1 .. StreamLength : WriteData(len)
       \/ EndData
       \/ \E ack_seqno \in 0 .. (tx.next_seqno + beyond), win \in 0 .. MaxWindow :
             AckReceived(ack_seqno, win)
       \/ \E ms \in 1 .. MaxTick : Tick(ms)
       \/ SendEmpty
    /\ UNCHANGED beyond

SenderSpec == SenderInit /\ [][SenderNext]_txvars
-----------------------------------------------------------------------------
\* t doubled n times.
Doubled(t, n) ==
    LET after[k \in 0 .. n] == IF k = 0 THEN t ELSE 2 * after[k - 1]
    IN  after[n]

\* The timer runs exactly while something is outstanding.  Were it to run on
\* an empty buffer, tick() would take the front of an empty deque; were it
\* off with segments outstanding, a lost one would never be sent again.  The
\* timeout in force is the initial one doubled once per consecutive
\* retransmission.
TimerSound ==
    /\ tx.timer.active <=> tx.retrans_buf # << >>
    /\ tx.retrans_timeout = Doubled(RtTimeout, tx.consec_retrans_count)

\* The absolute position of an outstanding segment.
Position(seg) == unwrap(seg.seqno, tx.isn, tx.next_seqno)

\* The outstanding segments are the end of what has been sent, without a gap:
\* ack_received() may stop at the first one it cannot erase, and
\* bytes_in_flight() measures the distance to next_seqno.  Each carries the
\* bytes that its sequence number stands for, the SYN at 0 and the FIN after
\* the last byte of a stream that has ended, so that a retransmission repeats
\* what was sent before.
TailOfSent ==
    LET buf == tx.retrans_buf
        End(seg) == Position(seg) + SEG!length_in_sequence_space(seg)
    IN  \A i \in 1 .. Len(buf) :
            /\ End(buf[i]) = IF i = Len(buf) THEN tx.next_seqno ELSE Position(buf[i + 1])
            /\ buf[i].syn <=> Position(buf[i]) = 0
            /\ \A j \in 1 .. Len(buf[i].payload) :
                  buf[i].payload[j] = Position(buf[i]) + SEG!One(buf[i].syn) + j - 2
            /\ buf[i].fin => /\ tx.stream.input_ended
                             /\ End(buf[i]) = tx.stream.bytes_written + 2

\* Sequence numbers account for exactly what has left the stream: the SYN,
\* every byte read from it once, and the FIN after all of them.
SequenceAccounting ==
    /\ tx.next_seqno = SEG!One(tx.syn_sent) + tx.stream.bytes_read + SEG!One(tx.fin_sent)
    /\ tx.fin_sent => BS!eof(tx.stream)

\* Both: what is outstanding is the end of what has been sent, and what has
\* been sent is what has left the stream.
OutstandingIsTail == TailOfSent /\ SequenceAccounting

\* Nothing new leaves beyond the window in force, a zero window counting as
\* one.
WindowRespected ==
    [][tx'.next_seqno > tx.next_seqno
         => bytes_in_flight(tx') <= effective_window(tx')]_txvars

\* fill_window() sends "as much of the window as possible": while there is
\* room, nothing is left behind in the stream, not even the end of it.  Only
\* an acknowledgment that ack_received() rejects can open the window without
\* filling it.
WindowFilled ==
    beyond = 0 /\ tx.syn_sent /\ remaining_winsize(tx) > 0 =>
        /\ BS!buffer_empty(tx.stream)
        /\ tx.stream.input_ended => tx.fin_sent
=============================================================================
