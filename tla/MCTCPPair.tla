----------------------------- MODULE MCTCPPair ------------------------------
(* Instances of TCPPair: the values a .cfg cannot write down. *)
EXTENDS TCPPair

\* The client's numbers wrap around within the run.
MCIsn == [p \in Peer |-> IF p = Client THEN Base - 2 ELSE 3]

Bytes(client, server) == [p \in Peer |-> IF p = Client THEN client ELSE server]

\* A receiver that takes the whole stream, on a network that loses nothing.
Roomy ==
    [recv_capacity |-> 4, send_capacity |-> 3, stream_length |-> Bytes(3, 1),
     max_read |-> 1, fifo |-> TRUE, max_loss |-> 0, patient |-> TRUE,
     readers |-> Peer, aborters |-> {}]

\* The same with less room than there are bytes.
Tight == [Roomy EXCEPT !.recv_capacity = 2]

\* Losses, and a client that may be gone before it has finished.
Lossy ==
    [recv_capacity |-> 2, send_capacity |-> 2, stream_length |-> Bytes(2, 0),
     max_read |-> 2, fifo |-> TRUE, max_loss |-> 2, patient |-> TRUE,
     readers |-> Peer, aborters |-> {Client}]

\* Segments arrive in any order, again, or never; timers fire at any time.
Unordered ==
    [recv_capacity |-> 2, send_capacity |-> 2, stream_length |-> Bytes(2, 0),
     max_read |-> 1, fifo |-> FALSE, max_loss |-> 0, patient |-> FALSE,
     readers |-> {}, aborters |-> {}]

FairWorlds == {Roomy, Lossy}
TightWorlds == {Tight}
UnorderedWorlds == {Unordered}
=============================================================================
