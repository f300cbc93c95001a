-------------------------- MODULE TCPReceiverSpec ---------------------------
(***************************************************************************)
(* One TCPReceiver and a network that delivers segments of one peer's      *)
(* stream in any order, any number of times, cut anywhere.                 *)
(*                                                                         *)
(* The peer's sequence space is 0 .. StreamLength + 1: the SYN, the bytes  *)
(* and the FIN.  A segment is a range of it, placed in the header by       *)
(* wrap().  The byte at stream index i is represented by i itself.         *)
(***************************************************************************)
EXTENDS TCPReceiver

CONSTANTS
    Isn,            \* the peer's initial sequence number
    Capacity,       \* the receiver's capacity
    StreamLength,   \* bound: bytes in the peer's stream
    MaxPayload,     \* bound: bytes in a segment
    MaxRead,        \* bound: bytes per read
    Cuts            \* where a peer that cuts once cuts its sequence space

VARIABLES
    rx,     \* the TCPReceiver
    got,    \* history: the peer's sequence numbers the receiver has been given
    recuts  \* does this peer cut its retransmissions anew?

vars == <<rx, got, recuts>>

Seqno == 0 .. (StreamLength + 1)

\* The segment that occupies the sequence numbers from .. upto - 1.
PeerSegment(from, upto) ==
    LET first == IF from = 0 THEN 0 ELSE from - 1
        last  == BS!MinOf(upto - 1, StreamLength) - 1
    IN  SEG!Segment(W!wrap(from, Isn), from = 0 /\ upto > 0,
                    [i \in 1 .. (last - first + 1) |-> first + i - 1],
                    upto = StreamLength + 2)

WindowEnd == rx.capacity + stream_out(rx).bytes_read

\* A peer stays within the window it has been told of, and never puts more
\* than MaxPayload bytes in a segment.  TCPSender retransmits its segments as
\* they were first cut; other TCPs may cut them again.  A segment does not
\* live in the network for half the sequence space.  A FIN without data comes
\* after the data: TCPPair has a run in which it does not.
CanDeliver(from, upto) ==
    LET seg == PeerSegment(from, upto)
    IN  /\ from < upto
        /\ \/ recuts
           \/ Cuts \intersect from .. upto = {from, upto}
        /\ 2 * (ack_seqno(rx) - from) < Base
        /\ Len(seg.payload) <= MaxPayload
        /\ BS!MinOf(upto - 1, StreamLength) <= WindowEnd
        /\ from = StreamLength + 1 => rx.reassembler.wait_index = StreamLength

AfterDelivery(from, upto) == segment_received(rx, PeerSegment(from, upto))

Init ==
    /\ rx = NewTCPReceiver(Capacity)
    /\ got = {}
    /\ recuts \in BOOLEAN

Deliver(from, upto) ==
    /\ CanDeliver(from, upto)
    /\ rx' = AfterDelivery(from, upto)
    /\ got' = IF rx.syn_set \/ from = 0 THEN got \union from .. (upto - 1) ELSE got
    /\ UNCHANGED recuts

Read(len) ==
    /\ ~BS!buffer_empty(stream_out(rx))
    /\ rx' = [rx EXCEPT !.reassembler.output = BS!read(@, len)]
    /\ UNCHANGED <<got, recuts>>

Next ==
    \/ \E from \in Seqno, upto \in 1 .. (StreamLength + 2) : Deliver(from, upto)
    \/ \E len \in 1 .. MaxRead : Read(len)

Spec == Init /\ [][Next]_vars
-----------------------------------------------------------------------------
\* The output is the peer's stream in order: every segment was placed at its
\* own index although its seqno had wrapped.
OutputInOrder ==
    LET out == stream_out(rx)
    IN  /\ \A i \in 1 .. Len(out.buf) : out.buf[i] = out.bytes_read + i - 1
        /\ out.bytes_read + Len(out.buf) = rx.reassembler.wait_index

\* "the sequence number of the first byte in the stream that the receiver
\* hasn't received" (tcp_receiver.hh): nothing that has not arrived is
\* acknowledged, neither a byte nor the FIN.
AcksOnlyReceived == has_ackno(rx) => 0 .. (ack_seqno(rx) - 1) \subseteq got

\* The reader of a peer that cuts once sees the end of the stream only after
\* all of it.  With other peers the last bytes may be discarded, as those that
\* wait are counted twice, and the FIN be accepted.
EofOnlyAtEnd ==
    ~recuts /\ BS!eof(stream_out(rx)) => stream_out(rx).bytes_read = StreamLength

\* While there is room, a segment of such a peer that covers the first missing
\* byte moves the acknowledgment number.
MissingByteAccepted ==
    \A from \in 0 .. ack_seqno(rx), upto \in 1 .. (StreamLength + 2) :
        /\ ~recuts /\ has_ackno(rx)
        /\ CanDeliver(from, upto)
        /\ ack_seqno(rx) < upto
        /\ window_size(rx) > 0
        => ack_seqno(AfterDelivery(from, upto)) > ack_seqno(rx)

\* The acknowledgment number and the right edge of the advertised window
\* never move back, so a peer never has to recall what it was allowed to send.
EdgesAdvance ==
    [][/\ ack_seqno(rx)' >= ack_seqno(rx)
       /\ (ack_seqno(rx) + window_size(rx))' >= ack_seqno(rx) + window_size(rx)]_vars
=============================================================================
