------------------------------ MODULE TCPPair -------------------------------
(***************************************************************************)
(* Two TCPConnections of this repository talking to each other over a      *)
(* network: a client that connects and a server that listens, an           *)
(* application on each side that writes, closes and reads, time passing    *)
(* independently at each end.                                              *)
(*                                                                         *)
(* net[p] holds the segments on their way to p.  When it is fifo, it is a  *)
(* queue: segments arrive in order and once, or are lost.  Else it is the  *)
(* set of all segments ever sent to p: any of them may arrive at any       *)
(* moment, in any order, again and again, or never, which is what an IP    *)
(* network may do to them.                                                 *)
(*                                                                         *)
(* The i-th byte an application writes is represented by its index, so the *)
(* byte found at stream index i of the other side has to be i.             *)
(***************************************************************************)
EXTENDS TCPState, FiniteSets

CONSTANTS
    Client, Server,     \* the two endpoints
    Isn,                \* Isn[p]: p's initial sequence number
    RtTimeout,          \* the initial retransmission timeout, in ticks
    MaxTransit,         \* bound: segments in transit one way when a timer fires
    Worlds              \* the circumstances the connections may find themselves in

Peer == {Client, Server}

\* The circumstances: capacities of the streams; how much p's application
\* writes (stream_length[p]) and asks for in a read; whether the network keeps
\* segments in order and how many it then loses; whether ticks wait until the
\* network has been emptied; who reads, and whose socket may go away early.
World ==
    [recv_capacity : Nat, send_capacity : Nat, stream_length : [Peer -> Nat],
     max_read : Nat, fifo : BOOLEAN, max_loss : Nat, patient : BOOLEAN,
     readers : SUBSET Peer, aborters : SUBSET Peer]

\* A segment may stay on its way for ever, so a stream takes less than half of
\* the sequence space.  A window, 16 bits in the code, is less than half of it,
\* and no stream index gets near the end of size_t.
InRange(w, p) ==
    /\ 2 * (w.stream_length[p] + 2) < Base
    /\ 2 * BS!MinOf(w.recv_capacity, MAX_WIN) < Base
    /\ w.recv_capacity + w.stream_length[p] < RX!SR!SIZE_MAX

ASSUME PairAssumption ==
    /\ Base \in Nat /\ Base > 2
    /\ MAX_PAYLOAD_SIZE \in Nat \ {0}
    /\ MAX_RETX_ATTEMPTS \in Nat
    /\ MAX_WIN \in Nat
    /\ LINGER \in Nat
    /\ Client # Server
    /\ Isn \in [Peer -> W!WrappingInt32]
    /\ RtTimeout \in Nat
    /\ MaxTransit \in Nat
    /\ Worlds \subseteq World
    /\ \A w \in Worlds, p \in Peer : InRange(w, p)

VARIABLES
    conn,   \* conn[p]: p's TCPConnection
    net,    \* net[p]: the segments on their way to p
    lost,   \* how many segments the network has lost
    world   \* the circumstances of this behaviour; never changes

vars == <<conn, net, lost, world>>

Other(p) == IF p = Client THEN Server ELSE Client

Init ==
    /\ world \in Worlds
    /\ conn = [p \in Peer |-> NewTCPConnection(world.recv_capacity, world.send_capacity,
                                               RtTimeout, Isn[p])]
    /\ net = [p \in Peer |-> IF world.fifo THEN << >> ELSE {}]
    /\ lost = 0

\* segments_out handed to the network.
Sent(queue, segs) == IF world.fifo THEN queue \o segs ELSE queue \union {segs[i] : i \in 1 .. Len(segs)}

\* p's connection becomes new, and what it has queued is on its way.
Becomes(p, new) ==
    \E c \in {new} :
        /\ conn' = [conn EXCEPT ![p] = [c EXCEPT !.segments_out = << >>]]
        /\ net' = [net EXCEPT ![Other(p)] = Sent(@, c.segments_out)]
        /\ UNCHANGED <<lost, world>>

\* Where the loops of TCPSpongeSocket::connect() and listen_and_accept() go on.
Handshake(p) ==
    IF p = Client THEN {"SYN_SENT"} ELSE {"LISTEN", "SYN_RCVD", "SYN_SENT"}

\* They have returned: p's application has its socket.
Established(p) ==
    /\ p = Client => conn[p].sender.syn_sent
    /\ \A name \in Handshake(p) : ~is(conn[p], name)

Connect ==
    /\ conn[Client].active
    /\ ~conn[Client].sender.syn_sent
    /\ Becomes(Client, connect(conn[Client]))

Write(p, len) ==
    LET start == outbound(conn[p]).bytes_written
    IN  /\ conn[p].active /\ Established(p)
        /\ ~outbound(conn[p]).input_ended
        /\ start + len <= world.stream_length[p]
        /\ len <= BS!remaining_capacity(outbound(conn[p]))
        /\ Becomes(p, write(conn[p], [i \in 1 .. len |-> start + i - 1]))

CanEndInput(p) ==
    /\ conn[p].active /\ Established(p)
    /\ ~outbound(conn[p]).input_ended

EndInput(p) ==
    /\ CanEndInput(p)
    /\ Becomes(p, end_input_stream(conn[p]))

Read(p, len) ==
    /\ p \in world.readers
    /\ ~BS!buffer_empty(inbound(conn[p]))
    /\ conn' = [conn EXCEPT ![p].receiver.reassembler.output = BS!read(@, len)]
    /\ UNCHANGED <<net, lost, world>>

\* While listening the adapter lets only a SYN through; later on, and at the
\* client, every segment of the peer.
Accepts(p, seg) ==
    \/ p = Client /\ conn[p].sender.syn_sent
    \/ p = Server /\ (conn[p].receiver.syn_set \/ (seg.syn /\ ~seg.rst))

\* A segment reaches p.  An endpoint that is no longer active is gone, and a
\* segment that is not accepted is dropped.
Receive(p, seg) ==
    IF conn[p].active /\ Accepts(p, seg)
    THEN segment_received(conn[p], seg)
    ELSE conn[p]

\* The segments that may reach p next.
Arriving(p) ==
    IF ~world.fifo THEN net[p] ELSE IF net[p] = << >> THEN {} ELSE {Head(net[p])}

Deliver(p, seg) ==
    \E c \in {Receive(p, seg)} :
        /\ conn' = [conn EXCEPT ![p] = [c EXCEPT !.segments_out = << >>]]
        /\ net' = [net EXCEPT ![p] = IF world.fifo THEN Tail(@) ELSE @,
                              ![Other(p)] = Sent(@, c.segments_out)]
        /\ UNCHANGED <<lost, world>>

\* When not fifo a lost segment is one that is never delivered.
Lose(p) ==
    /\ world.fifo
    /\ net[p] # << >>
    /\ lost < world.max_loss
    /\ lost' = lost + 1
    /\ net' = [net EXCEPT ![p] = Tail(@)]
    /\ UNCHANGED <<conn, world>>

InTransit(p) == IF world.fifo THEN Len(net[p]) ELSE Cardinality(net[p])

Tick(p) ==
    /\ conn[p].active
    /\ InTransit(Other(p)) < MaxTransit
    /\ world.patient => \A q \in Peer : InTransit(q) = 0
    /\ Becomes(p, tick(conn[p], 1))

\* The socket goes away while its connection is still active.  The reset that
\* ~TCPConnection() queues goes away with the queue: nobody empties it.
Destroy(p) ==
    /\ p \in world.aborters
    /\ conn[p].active /\ Established(p)
    /\ conn' = [conn EXCEPT ![p] = [destroy(@) EXCEPT !.segments_out = << >>]]
    /\ UNCHANGED <<net, lost, world>>

Next ==
    \/ Connect
    \/ \E p \in Peer :
         \/ \E len \in 1 .. world.stream_length[p] : Write(p, len)
         \/ EndInput(p)
         \/ \E len \in 1 .. world.max_read : Read(p, len)
         \/ \E seg \in Arriving(p) : Deliver(p, seg)
         \/ Lose(p)
         \/ Tick(p)
         \/ Destroy(p)

Spec == Init /\ [][Next]_vars

\* A segment left the queue towards p and was not lost: it was delivered.
Delivered(p) == net[p] # << >> /\ net'[p] = Tail(net[p]) /\ lost' = lost

\* The client connects, both applications read and in the end close, every
\* segment that is not lost arrives, and time goes on.  Closing is done once,
\* so weak fairness of EndInput says that it does not stay possible; that of
\* Deliver is spelled out by what delivering does to the queue.
Fairness ==
    /\ WF_vars(Connect)
    /\ \A p \in Peer :
         /\ WF_vars(Read(p, 1))
         /\ WF_vars(Tick(p))
         /\ []<>~CanEndInput(p)
         /\ []<>(net[p] = << >>) \/ []<><<Delivered(p)>>_vars

FairSpec == Spec /\ Fairness
-----------------------------------------------------------------------------
\* The prefix of the byte stream that has n bytes.
Prefix(n) == [i \in 1 .. n |-> i - 1]

\* What an application can read is what the other one wrote, in order, each
\* byte once, whatever the network does.
StreamIntegrity ==
    \A p \in Peer :
        LET in == inbound(conn[p])
        IN  /\ \A i \in 1 .. Len(in.buf) : in.buf[i] = in.bytes_read + i - 1
            /\ in.bytes_written <= outbound(conn[Other(p)]).bytes_written

\* An endpoint never acknowledges what the other has not sent, so the early
\* return of ack_received() ("it's impossible that ackno > _next_seqno") is
\* never taken.
AcksOnlySent ==
    \A p \in Peer :
        RX!has_ackno(conn[p].receiver) =>
            RX!ack_seqno(conn[p].receiver) <= conn[Other(p)].sender.next_seqno

Failed(p) == inbound(conn[p]).error

\* An endpoint that has finished cleanly has had its whole stream and its end
\* received by the other one, even if that one never learns that it is over.
CleanCloseDelivers ==
    \A p \in Peer :
        ~conn[p].active /\ ~Failed(p) =>
            LET in == inbound(conn[Other(p)])
            IN  in.input_ended /\ in.bytes_written = outbound(conn[p]).bytes_written

\* The two endpoints never both leave without lingering: somebody stays to
\* acknowledge the last FIN again.
SomebodyLingers ==
    \E p \in Peer : conn[p].linger_after_streams_finish

\* The official name of a connection's state.  Three kinds of state have none:
\* one end of the handshake has been overtaken (our SYN is acknowledged by a
\* segment that comes before the peer's SYN, or the peer's FIN comes before our
\* SYN is acknowledged); the application has closed, the window has no room for
\* the FIN, and the peer's comes first; and a connection that is over but has
\* not been ticked since.
StateName(c) ==
    LET s == state(c)
        names == {name \in DOMAIN Official : Official[name] = s}
    IN  CASE names # {} -> CHOOSE name \in names : TRUE
          [] s.active /\ (s.receiver = "LISTEN" \/ s.sender = "SYN_SENT") -> "OVERTAKEN"
          [] s = TCPState("SYN_ACKED", "FIN_RECV", TRUE, TRUE) -> "FIN_QUEUED"
          [] s = TCPState("FIN_ACKED", "FIN_RECV", TRUE, FALSE) -> "OVER"
          [] OTHER -> "UNKNOWN"

\* The arrows of the state diagram of RFC 793, with those of the three.
Arrows ==
    {<<"LISTEN", "SYN_SENT">>, <<"LISTEN", "SYN_RCVD">>, <<"SYN_SENT", "SYN_RCVD">>,
     <<"SYN_SENT", "ESTABLISHED">>, <<"SYN_RCVD", "ESTABLISHED">>,
     <<"SYN_SENT", "OVERTAKEN">>, <<"SYN_RCVD", "OVERTAKEN">>, <<"OVERTAKEN", "ESTABLISHED">>,
     <<"ESTABLISHED", "FIN_WAIT_1">>, <<"ESTABLISHED", "CLOSE_WAIT">>,
     <<"ESTABLISHED", "FIN_QUEUED">>, <<"FIN_QUEUED", "CLOSING">>,
     <<"FIN_WAIT_1", "FIN_WAIT_2">>, <<"FIN_WAIT_1", "CLOSING">>,
     <<"FIN_WAIT_2", "TIME_WAIT">>, <<"CLOSING", "TIME_WAIT">>, <<"TIME_WAIT", "CLOSED">>,
     <<"CLOSE_WAIT", "LAST_ACK">>, <<"LAST_ACK", "OVER">>, <<"OVER", "CLOSED">>}

\* A step may follow several arrows, one segment can carry a SYN, an ACK and a
\* FIN, or none.
Twice(R) == {<<p[1][1], p[2][2]>> : p \in {q \in R \X R : q[1][2] = q[2][1]}}

Reaches ==
    LET upto1 == Arrows \cup {<<a[i], a[i]>> : a \in Arrows, i \in {1, 2}}
        upto4 == With(With(upto1, Twice), Twice)
    IN  With(With(upto4, Twice), Twice)

\* Both connections stay within the states of the standard and move along its
\* diagram, never back, or are reset (tcp_state.hh: "To test that Sponge
\* follows the TCP spec, we use this class to compare the official states with
\* Sponge's").
FollowsStandard ==
    [][\A p \in Peer :
          LET to == StateName(conn'[p])
          IN  to = "RESET" \/ <<StateName(conn[p]), to>> \in Reaches]_vars

\* The stream from p to the other side, as its two applications see it while
\* the network loses nothing.
SentBy(p) == Prefix(IF world.max_loss = 0 THEN outbound(conn[p]).bytes_written ELSE 0)

ReceivedFrom(p) == Prefix(IF world.max_loss = 0 THEN inbound(conn[Other(p)]).bytes_read ELSE 0)

Finished(p) == world.max_loss = 0 /\ BS!eof(inbound(conn[Other(p)]))

ClientStream == INSTANCE ReliableStream
    WITH sent <- SentBy(Client), received <- ReceivedFrom(Client),
         closed <- outbound(conn[Client]).input_ended, finished <- Finished(Client)

ServerStream == INSTANCE ReliableStream
    WITH sent <- SentBy(Server), received <- ReceivedFrom(Server),
         closed <- outbound(conn[Server]).input_ended, finished <- Finished(Server)

\* On a network that loses nothing, the bytes of each side reach the other as
\* ReliableStream promises: each once, and the end of the stream is seen only
\* after all of it.  That they are the right bytes is StreamIntegrity.
StreamsReliable == ClientStream!Spec /\ ServerStream!Spec

\* p has sent everything, its end included, and had it acknowledged, and waits
\* for the peer to close its side (FIN_WAIT_2); but the peer is gone.
Orphaned(p) ==
    /\ ~conn[Other(p)].active
    /\ conn[p].sender.fin_sent /\ conn[p].sender.retrans_buf = << >>
    /\ ~inbound(conn[p]).input_ended

\* p has something unacknowledged, and nobody is there to acknowledge it.
Unanswered(p) == ~conn[Other(p)].active /\ conn[p].sender.retrans_buf # << >>

\* Whatever is lost and whoever leaves, each connection comes to an end, by
\* both streams finishing, by the peer's reset or by giving up after
\* MAX_RETX_ATTEMPTS.  There are two exceptions when the peer has gone silently:
\* FIN_WAIT_2, which nothing times out, and a sender that knows of no window,
\* whose probes are not counted.
OnlyStrandedHang ==
    <>[](\A p \in Peer :
            conn[p].active =>
                Orphaned(p) \/ (Unanswered(p) /\ conn[p].sender.window_size = 0))

\* When nothing is lost and nobody leaves early, both connections come to an
\* end, without an error and with everything delivered.
BothFinishCleanly ==
    world.max_loss = 0 /\ world.aborters = {} =>
    <>[](\A p \in Peer : ~conn[p].active /\ ~Failed(p))
=============================================================================
