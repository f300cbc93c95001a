----------------------- MODULE StreamReassemblerSpec ------------------------
(***************************************************************************)
(* One StreamReassembler, a peer that pushes substrings of one logical     *)
(* stream in any order, any number of times and cut anywhere, and a reader *)
(* that takes bytes out of the output.                                     *)
(*                                                                         *)
(* The byte at index i of the logical stream is represented by i itself,   *)
(* so a byte that ends up at the wrong place is seen at once.              *)
(***************************************************************************)
EXTENDS StreamReassembler

CONSTANTS
    RecvCapacity,   \* the capacity the reassembler is built with
    RecvLength,     \* bound: length of the logical stream
    MaxPush,        \* bound: length of a pushed substring
    MaxRecv,        \* bound: length of a read
    Overrun         \* how far past the window some peers reach

\* No index gets near the end of size_t.
ASSUME ReassemblerAssumption ==
    /\ RecvCapacity \in Nat
    /\ RecvLength \in Nat
    /\ RecvCapacity + RecvLength < SIZE_MAX
    /\ MaxPush \in Nat
    /\ MaxRecv \in Nat
    /\ Overrun \in Nat

VARIABLES
    r,      \* the StreamReassembler
    reaches \* how many bytes past the window's end this peer may reach

rvars == <<r, reaches>>

\* The first index past the receive window: what fits once the bytes already
\* read have left.
WindowEnd == r.capacity + r.output.bytes_read

Substring(index, len) == [i \in 1 .. len |-> index + i - 1]

ReassemblerInit ==
    /\ r = NewStreamReassembler(RecvCapacity)
    /\ reaches \in {0, Overrun}

\* The substrings the peer may push next: cut anywhere, the end announced
\* only by the substring that holds it.
CanPush(index, len, eof) ==
    /\ index + len <= RecvLength
    /\ len = 0 \/ index + len <= WindowEnd + reaches
    /\ eof => index + len = RecvLength

AfterPush(index, len, eof) == push_substring(r, Substring(index, len), index, eof)

Push(index, len, eof) ==
    /\ CanPush(index, len, eof)
    /\ r' = AfterPush(index, len, eof)
    /\ UNCHANGED reaches

ReadOutput(len) ==
    /\ ~Output!buffer_empty(r.output)
    /\ r' = [r EXCEPT !.output = Output!read(@, len)]
    /\ UNCHANGED reaches

ReassemblerNext ==
    \/ \E index \in 0 .. RecvLength, len \in 0 .. MaxPush, eof \in BOOLEAN :
          Push(index, len, eof)
    \/ \E len \in 1 .. MaxRecv : ReadOutput(len)

ReassemblerSpec == ReassemblerInit /\ [][ReassemblerNext]_rvars

\* A peer that keeps resending the first missing byte, and announces the end
\* with the last one or, when that has arrived without it, alone.
Resend ==
    LET len == Output!MinOf(1, RecvLength - r.wait_index)
    IN  Push(r.wait_index, len, r.wait_index + len = RecvLength)

FairReassemblerSpec == ReassemblerSpec /\ WF_rvars(Resend) /\ WF_rvars(ReadOutput(1))
-----------------------------------------------------------------------------
\* The indices of the bytes an entry holds.
Held(s, e) == e .. (e + Len(s.wait_map[e]) - 1)

\* The output is the logical stream, in order and without a gap, up to the
\* waiting index (class comment: "assembles ... into an in-order byte stream").
OutputInOrder ==
    /\ \A i \in 1 .. Len(r.output.buf) : r.output.buf[i] = r.output.bytes_read + i - 1
    /\ r.output.bytes_read + Len(r.output.buf) = r.wait_index

\* What waits is what the stream has at those indices, no byte is stored
\* twice ("no repeating data will be stored"), and nothing waits that could
\* already have been assembled.  Erasing the entry update_waitmap() is about
\* to visit, an invalid iterator, would need two overlapping entries.
WaitingIsSound ==
    \A e \in DOMAIN r.wait_map :
        /\ r.wait_map[e] = Substring(e, Len(r.wait_map[e]))
        /\ e > r.wait_index
        /\ \A f \in DOMAIN r.wait_map \ {e} : Held(r, e) \intersect Held(r, f) = {}

\* The output is ended when the last byte has been assembled and the end of
\* the stream has been announced, and not before; an end announced by bytes
\* that had to be discarded is remembered.
EndedIffComplete ==
    r.output.input_ended <=> r.wait_index = r.eof_index

\* The output is the stream in order, it ends when the stream is complete, and
\* what waits is what the stream has there, stored once.
ReassemblySound == OutputInOrder /\ EndedIffComplete /\ WaitingIsSound

\* "This capacity limits both the bytes that have been reassembled, and those
\* that have not yet been reassembled": the subtraction in truncate_data()
\* never wraps.
WithinCapacity ==
    Len(r.output.buf) + unassembled_bytes(r) <= r.capacity

\* While the reader leaves room, any push that covers the first missing byte
\* moves the waiting index: with a peer that stays within the window, what
\* already waits never keeps it out.
MissingByteAccepted ==
    \A index \in 0 .. r.wait_index, len \in 1 .. MaxPush, eof \in BOOLEAN :
        /\ reaches = 0 /\ CanPush(index, len, eof)
        /\ r.wait_index < index + len
        /\ Len(r.output.buf) < r.capacity
        => AfterPush(index, len, eof).wait_index > r.wait_index

\* What waits and what has been assembled fit the capacity, and never keep the
\* first missing byte of a peer within the window out of it.
CapacityUsable == WithinCapacity /\ MissingByteAccepted

\* The whole stream comes out, whatever else such a peer pushes meanwhile.
AllComesOut ==
    reaches = 0 => <>(r.output.bytes_read = RecvLength /\ Output!eof(r.output))
=============================================================================
