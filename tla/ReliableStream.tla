--------------------------- MODULE ReliableStream ---------------------------
(***************************************************************************)
(* What a reliable byte stream promises its two users, whatever carries    *)
(* it.  The writer's bytes are sent in order until the writer closes; the  *)
(* reader receives a prefix of them, in order, each once; the reader is    *)
(* told that the stream has finished only after the writer has closed it   *)
(* and every byte has been received.                                       *)
(*                                                                         *)
(* ByteStreamSpec implements it within one process, and it is the contract *)
(* a TCP connection is there to implement between two.                     *)
(***************************************************************************)
EXTENDS Naturals, Sequences

VARIABLES
    sent,       \* every byte the writer has handed over, in order
    received,   \* every byte the reader has taken, in order
    closed,     \* the writer has ended the stream
    finished    \* the reader has been told that nothing follows

rsVars == <<sent, received, closed, finished>>

PrefixOf(s, t) == Len(s) <= Len(t) /\ s = SubSeq(t, 1, Len(s))

Init ==
    /\ sent = << >>
    /\ received = << >>
    /\ closed = FALSE
    /\ finished = FALSE

\* The reader may be told of the end as soon as it holds, or later.
Tell == finished' \in {finished, closed' /\ received' = sent'}

Send ==
    /\ ~closed
    /\ PrefixOf(sent, sent')
    /\ UNCHANGED <<received, closed, finished>>

Close ==
    /\ closed' = TRUE
    /\ UNCHANGED <<sent, received>>
    /\ Tell

Receive ==
    /\ PrefixOf(received, received')
    /\ PrefixOf(received', sent)
    /\ UNCHANGED <<sent, closed>>
    /\ Tell

Next == Send \/ Close \/ Receive

Spec == Init /\ [][Next]_rsVars
=============================================================================
