----------------------------- MODULE TCPSegment -----------------------------
(***************************************************************************)
(* class TCPSegment (libsponge/tcp_helpers/tcp_segment.{hh,cc}) with the   *)
(* fields of TCPHeader that the endpoints read or set.  A header starts    *)
(* with every flag clear; ackno and win stay at the default until          *)
(* TCPConnection fills them in.                                            *)
(***************************************************************************)
EXTENDS Naturals, Sequences

One(flag) == IF flag THEN 1 ELSE 0

Segment(seqno, syn, payload, fin) ==
    [seqno   |-> seqno,
     syn     |-> syn,
     payload |-> payload,
     fin     |-> fin,
     rst     |-> FALSE,
     ack     |-> FALSE,
     ackno   |-> 0,
     win     |-> 0]

length_in_sequence_space(seg) == One(seg.syn) + Len(seg.payload) + One(seg.fin)
=============================================================================
