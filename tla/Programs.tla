------------------------------ MODULE Programs ------------------------------
(***************************************************************************)
(* The programs under apps/ that use a socket: two lab7 that meet through  *)
(* a bouncer, and the bidirectional_stream_copy() of all of them.  A       *)
(* behaviour is a behaviour of one of the two; the variables of the other  *)
(* keep their initial values.                                              *)
(***************************************************************************)
EXTENDS Lab7

CONSTANTS
    MaxCopy, BufferSize,            \* max_copy_length, buffer_size
    KernelRoom,                     \* bytes the kernel holds in one direction
    MaxTyped, MaxSent               \* bounds: bytes on standard input, from the peer

VARIABLES
    program,                            \* the one that runs
    copy, rules, round, phase, world    \* StreamCopy

SC == INSTANCE StreamCopy

copyvars == <<copy, rules, round, phase, world>>

AnyInit ==
    /\ program \in {"lab7", "stream_copy"}
    /\ Init
    /\ SC!Init /\ (program # "stream_copy" => copy.piped = FALSE)

AnyNext ==
    /\ UNCHANGED program
    /\ \/ program = "lab7" /\ Next /\ UNCHANGED copyvars
       \/ program = "stream_copy" /\ SC!Next /\ UNCHANGED vars

\* The fairness of each, for behaviours that are its own.
AnyFairness ==
    /\ WF_vars(program = "lab7" /\ Forward)
    /\ WF_copyvars(program = "stream_copy" /\ SC!Poll)
    /\ WF_copyvars(program = "stream_copy" /\ SC!Dispatch)
    /\ WF_copyvars(program = "stream_copy" /\ SC!Take("tx"))

AnySpec == AnyInit /\ [][AnyNext]_<<program, vars, copyvars>> /\ AnyFairness
-----------------------------------------------------------------------------
(* The properties, stated and explained in the modules they come from. *)

\* The client of lab7 gets its answer although datagrams are lost.
EventuallyAnswered == program = "lab7" => Answered

\* bidirectional_stream_copy() delivers both directions in order.
CopiesReliably == SC!CopiesReliably

\* It returns only when both directions are complete.
ReturnsComplete == SC!ReturnsComplete

\* It throws only if the socket or the output fails.
ThrowsOnlyOnFailure == SC!ThrowsOnlyOnFailure

\* It passes the input on even if nobody takes the output.
InputReachesPeer == program = "stream_copy" => SC!InputReachesPeer
=============================================================================
