---------------------------- MODULE TCPReceiver -----------------------------
(***************************************************************************)
(* class TCPReceiver (libsponge/tcp_receiver.{hh,cc}): places inbound      *)
(* segments in the stream, hands them to its reassembler and computes the  *)
(* acknowledgment number and the window to advertise.                      *)
(***************************************************************************)
EXTENDS Integers, Sequences, Binding

CONSTANT Base   \* the number of relative sequence numbers

W   == INSTANCE WrappingIntegers
SR  == INSTANCE StreamReassembler
BS  == INSTANCE ByteStream
SEG == INSTANCE TCPSegment

NewTCPReceiver(cap) ==
    [reassembler |-> SR!NewStreamReassembler(cap),
     capacity    |-> cap,
     syn_set     |-> FALSE,
     fin_set     |-> FALSE,
     init_seqno  |-> 0]

stream_out(rx) == rx.reassembler.output

unassembled_bytes(rx) == SR!unassembled_bytes(rx.reassembler)

\* The data of a segment, pushed at the index its seqno stands for.  The
\* stream index of a byte is its absolute seqno less one, for the SYN, which
\* a segment that carries the SYN accounts for itself.  Data at the SYN's
\* own seqno is ignored.
push_payload(rx, seg) ==
    LET index == W!unwrap(W!minus(seg.seqno, SEG!One(~seg.syn)),
                          rx.init_seqno, rx.reassembler.wait_index)
    IN  IF seg.payload # << >> /\ (seg.syn \/ seg.seqno # rx.init_seqno)
        THEN With(index, LAMBDA i :
                [rx EXCEPT !.reassembler = SR!push_substring(@, seg.payload, i, seg.fin)])
        ELSE rx

segment_received(rx, seg) ==
    LET synced == IF rx.syn_set
                  THEN rx
                  ELSE [rx EXCEPT !.syn_set = TRUE, !.init_seqno = seg.seqno]
        note_fin(r) ==
            LET fin == seg.fin \/ r.fin_set
            IN  IF fin /\ unassembled_bytes(r) = 0
                THEN [r EXCEPT !.fin_set = TRUE,
                               !.reassembler.output = BS!end_input(@)]
                ELSE [r EXCEPT !.fin_set = fin]
    IN  IF ~seg.syn /\ ~rx.syn_set
        THEN rx
        ELSE With(With(synced, LAMBDA r : push_payload(r, seg)), note_fin)

\* ackno() is an optional: it has a value once a SYN has been received.
has_ackno(rx) == rx.syn_set

\* Plausible bug: the FIN is acknowledged as soon as it arrives.
ack_seqno_early_fin(rx) == rx.reassembler.wait_index + 1 + SEG!One(rx.fin_set)

\* Plausible bug: one more than what has arrived.
ack_seqno_next(rx) == rx.reassembler.wait_index + 2

\* The absolute sequence number behind ackno().
ack_seqno(rx) ==
    rx.reassembler.wait_index + 1 + SEG!One(stream_out(rx).input_ended)

ackno(rx) == W!wrap(ack_seqno(rx), rx.init_seqno)

\* Plausible bug: what waits unassembled shrinks the window as well.
window_size_shrinks(rx) ==
    rx.capacity - BS!buffer_size(stream_out(rx)) - unassembled_bytes(rx)

window_size(rx) == rx.capacity - BS!buffer_size(stream_out(rx))
=============================================================================
