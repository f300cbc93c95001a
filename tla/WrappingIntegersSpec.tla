------------------------ MODULE WrappingIntegersSpec ------------------------
(***************************************************************************)
(* A reader of sequence numbers: its checkpoint moves forward along the    *)
(* stream while relative sequence numbers arrive that it has to place.     *)
(***************************************************************************)
EXTENDS WrappingIntegers

CONSTANT MaxCheckpoint  \* bound: how far the checkpoint moves

VARIABLES
    peer_isn,   \* the initial number of the stream
    checkpoint, \* a position nearby
    peer_seqno  \* the number that has come

readerVars == <<peer_isn, checkpoint, peer_seqno>>

ReaderInit ==
    /\ peer_isn \in WrappingInt32
    /\ checkpoint = 0
    /\ peer_seqno \in WrappingInt32

Advance ==
    /\ checkpoint < MaxCheckpoint
    /\ checkpoint' = checkpoint + 1
    /\ UNCHANGED <<peer_isn, peer_seqno>>

Arrive(m) ==
    /\ peer_seqno' = m
    /\ UNCHANGED <<peer_isn, checkpoint>>

ReaderNext == Advance \/ \E m \in WrappingInt32 : Arrive(m)

ReaderSpec == ReaderInit /\ [][ReaderNext]_readerVars
-----------------------------------------------------------------------------
\* The values keep their types.
ReaderTypeOK ==
    /\ peer_isn \in WrappingInt32
    /\ checkpoint \in Nat
    /\ peer_seqno \in WrappingInt32

Distance(a, b) == IF a <= b THEN b - a ELSE a - b

\* The absolute positions worth comparing: everything within one wrap of
\* the checkpoint, on either side.
Candidates == {a \in 0 .. (checkpoint + 2 * Base) : wrap(a, peer_isn) = peer_seqno}

\* unwrap() returns a position that wraps to the number, and none is closer to the
\* checkpoint ("the 64-bit sequence number that wraps to `n` and is closest
\* to `checkpoint`", wrapping_integers.cc); of two equally close ones it is
\* the lower.
UnwrapIsClosest ==
    LET u == unwrap(peer_seqno, peer_isn, checkpoint)
    IN  /\ u \in Candidates
        /\ \A a \in Candidates :
              \/ Distance(u, checkpoint) < Distance(a, checkpoint)
              \/ Distance(u, checkpoint) = Distance(a, checkpoint) /\ u <= a
=============================================================================
