------------------------------ MODULE Classes -------------------------------
(***************************************************************************)
(* The classes a byte passes through, each on its own in an environment    *)
(* that calls it in any order: ByteStream, the wrapping integers,          *)
(* StreamReassembler, TCPReceiver and TCPSender.  A behaviour is a         *)
(* behaviour of one of them; the variables of the others keep their        *)
(* initial values.                                                         *)
(***************************************************************************)
EXTENDS ByteStreamSpec, WrappingIntegersSpec, StreamReassemblerSpec, TCPSenderSpec

VARIABLES
    class,                              \* the one whose behaviour this is
    rx, got, recuts                     \* TCPReceiverSpec

RX == INSTANCE TCPReceiverSpec
    WITH Isn <- 13, Capacity <- 6, StreamLength <- 10, MaxPayload <- 3, MaxRead <- 2,
         Cuts <- {0, 1, 2, 3, 5, 6, 7, 8, 9, 10, 12}

rxv == <<rx, got, recuts>>

AnyInit ==
    /\ class \in {"stream", "wrapping", "reassembler", "receiver", "sender"}
    /\ Init
    /\ ReaderInit /\ (class # "wrapping" => peer_isn = 0 /\ peer_seqno = 0)
    /\ ReassemblerInit /\ (class # "reassembler" => reaches = 0)
    /\ RX!Init /\ (class # "receiver" => recuts = FALSE)
    /\ SenderInit /\ (class # "sender" => beyond = 0)

AnyNext ==
    /\ UNCHANGED class
    /\ \/ class = "stream" /\ Next /\ UNCHANGED <<readerVars, rvars, rxv, txvars>>
       \/ class = "wrapping" /\ ReaderNext /\ UNCHANGED <<vars, rvars, rxv, txvars>>
       \/ class = "reassembler" /\ ReassemblerNext /\ UNCHANGED <<vars, readerVars, rxv, txvars>>
       \/ class = "receiver" /\ RX!Next /\ UNCHANGED <<vars, readerVars, rvars, txvars>>
       \/ class = "sender" /\ SenderNext /\ UNCHANGED <<vars, readerVars, rvars, rxv>>

AnyVars == <<class, vars, readerVars, rvars, rxv, txvars>>

\* The fairness of StreamReassemblerSpec, for behaviours that are its own.
AnyFairness ==
    /\ WF_rvars(class = "reassembler" /\ Resend)
    /\ WF_rvars(class = "reassembler" /\ ReadOutput(1))

AnySpec == AnyInit /\ [][AnyNext]_AnyVars /\ AnyFairness
-----------------------------------------------------------------------------
(* The properties, stated and explained in the modules they come from. *)

\* A peer within the window gets its whole stream through the reassembler.
EventuallyComplete == class = "reassembler" => AllComesOut

\* The receiver's output is the peer's stream in order although seqnos wrap,
\* nothing is acknowledged that has not come, and eof() is after the last byte.
ReceivesInOrder == RX!OutputInOrder /\ RX!AcksOnlyReceived /\ RX!EofOnlyAtEnd

\* Neither edge of the advertised window ever moves back.
EdgesAdvance == RX!EdgesAdvance
=============================================================================
