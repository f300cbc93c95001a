------------------------------ MODULE TCPState ------------------------------
(***************************************************************************)
(* class TCPState (libsponge/tcp_helpers/tcp_state.{hh,cc}): a connection  *)
(* has no state machine of its own; what its sender and its receiver know, *)
(* with the active and linger bits, is compared with the official states.  *)
(***************************************************************************)
EXTENDS TCPConnection

TCPState(sender, receiver, active, linger) ==
    [sender |-> sender, receiver |-> receiver, active |-> active, linger |-> linger]

\* TCPState(const State state)
Official ==
    [LISTEN      |-> TCPState("CLOSED",    "LISTEN",   TRUE,  TRUE),
     SYN_RCVD    |-> TCPState("SYN_SENT",  "SYN_RECV", TRUE,  TRUE),
     SYN_SENT    |-> TCPState("SYN_SENT",  "LISTEN",   TRUE,  TRUE),
     ESTABLISHED |-> TCPState("SYN_ACKED", "SYN_RECV", TRUE,  TRUE),
     CLOSE_WAIT  |-> TCPState("SYN_ACKED", "FIN_RECV", TRUE,  FALSE),
     LAST_ACK    |-> TCPState("FIN_SENT",  "FIN_RECV", TRUE,  FALSE),
     CLOSING     |-> TCPState("FIN_SENT",  "FIN_RECV", TRUE,  TRUE),
     FIN_WAIT_1  |-> TCPState("FIN_SENT",  "SYN_RECV", TRUE,  TRUE),
     FIN_WAIT_2  |-> TCPState("FIN_ACKED", "SYN_RECV", TRUE,  TRUE),
     TIME_WAIT   |-> TCPState("FIN_ACKED", "FIN_RECV", TRUE,  TRUE),
     RESET       |-> TCPState("ERROR",     "ERROR",    FALSE, FALSE),
     CLOSED      |-> TCPState("FIN_ACKED", "FIN_RECV", FALSE, FALSE)]

receiver_summary(rx) ==
    CASE RX!stream_out(rx).error       -> "ERROR"
      [] ~RX!stream_out(rx).error /\ ~RX!has_ackno(rx) -> "LISTEN"
      [] OTHER -> IF RX!stream_out(rx).input_ended THEN "FIN_RECV" ELSE "SYN_RECV"

sender_summary(tx) ==
    IF tx.stream.error THEN "ERROR"
    ELSE IF tx.next_seqno = 0 THEN "CLOSED"
    ELSE IF tx.next_seqno = TX!bytes_in_flight(tx) THEN "SYN_SENT"
    ELSE IF ~BS!eof(tx.stream) \/ tx.next_seqno < tx.stream.bytes_written + 2 THEN "SYN_ACKED"
    ELSE IF TX!bytes_in_flight(tx) > 0 THEN "FIN_SENT" ELSE "FIN_ACKED"

\* TCPConnection::state()
state(c) ==
    TCPState(sender_summary(c.sender), receiver_summary(c.receiver), c.active,
             c.active /\ c.linger_after_streams_finish)

\* The comparison of a connection's state with an official one.
is(c, name) == state(c) = Official[name]
=============================================================================
