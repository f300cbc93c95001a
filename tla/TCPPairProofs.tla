--------------------------- MODULE TCPPairProofs ----------------------------
(***************************************************************************)
(* The safety of a connection, for every capacity, window, stream length   *)
(* and network that the assumptions of TCPPair allow.                      *)
(*                                                                         *)
(* TCPConnectionProofs says what a connection's methods do, from laws of   *)
(* the sender, of the reassembler and of sequence numbers.  Here every     *)
(* step of the pair is shown to keep the inductive invariant IInv, from    *)
(* the same laws.  Then the laws are shown to hold: the operators of       *)
(* TCPSender and StreamReassembler that a connection uses are those of the *)
(* modules where they are proved about, and what is sound there obeys the  *)
(* laws.                                                                   *)
(***************************************************************************)
EXTENDS TCPPair, TCPConnectionProofs

\* The surroundings of p.
EnvOf(snd, rsm, p) ==
    [snd |-> snd, rsm |-> rsm, cap |-> world.recv_capacity, len |-> world.stream_length[p],
     far |-> world.stream_length[Other(p)], isn |-> Isn[p],
     rto |-> RtTimeout]

\* The inductive invariant, for what is sound of senders and of reassemblers.
IInv(snd, rsm) ==
    /\ world \in Worlds
    /\ conn = [p \in Peer |-> conn[p]] /\ net = [p \in Peer |-> net[p]]
    /\ \A p \in Peer :
         /\ EndOK(EnvOf(snd, rsm, p), conn[p], conn[Other(p)])
         /\ Carrying(world.fifo, net[p], conn[Other(p)])
    /\ SomebodyLingers

Lawful(snd, rsm) == SenderLaws(snd, RtTimeout) /\ ReassemblerLaws(rsm) /\ NumberLaw

\* There are two endpoints.
LEMMA Others ==
    ASSUME NEW p \in Peer
    PROVE  /\ Other(p) \in Peer /\ Other(p) # p /\ Other(Other(p)) = p
           /\ \A q \in Peer : q = p \/ q = Other(p)
<1>1. Client # Server
  BY PairAssumption DEF PairAssumption
<1> QED
  BY <1>1, SMTT(60) DEF Peer, Other

\* The surroundings are as the assumptions say.
LEMMA Surroundings ==
    ASSUME NEW snd, NEW rsm, Lawful(snd, rsm), world \in Worlds, NEW p \in Peer
    PROVE  /\ Env(EnvOf(snd, rsm, p))
           /\ Mirror(EnvOf(snd, rsm, p), EnvOf(snd, rsm, Other(p)))
<1> USE ZenonT(60)
<1> DEFINE E == EnvOf(snd, rsm, p)
           F == EnvOf(snd, rsm, Other(p))
           m == BS!MinOf(world.recv_capacity, MAX_WIN)
<1>1. Other(p) \in Peer /\ Other(Other(p)) = p
  BY Others
<1>2. /\ E.snd = snd /\ E.rsm = rsm /\ E.cap = world.recv_capacity /\ E.isn = Isn[p]
      /\ E.rto = RtTimeout /\ E.len = world.stream_length[p] /\ E.far = world.stream_length[Other(p)]
  BY DEF EnvOf
<1>3. /\ F.snd = snd /\ F.rsm = rsm /\ F.cap = world.recv_capacity
      /\ F.len = world.stream_length[Other(p)] /\ F.far = world.stream_length[p]
  BY <1>1 DEF EnvOf
<1> HIDE DEF E, F
<1>4. /\ world.recv_capacity \in Nat /\ world.stream_length \in [Peer -> Nat]
      /\ Isn \in [Peer -> W!WrappingInt32]
      /\ Base \in Nat /\ Base > 2 /\ MAX_WIN \in Nat
  BY PairAssumption DEF PairAssumption, World
<1>5. /\ world.stream_length[p] \in Nat /\ world.stream_length[Other(p)] \in Nat
      /\ Isn[p] \in W!WrappingInt32
  BY <1>1, <1>4
<1>6. InRange(world, p) /\ InRange(world, Other(p))
  BY <1>1, PairAssumption DEF PairAssumption
<1>7. /\ 2 * (world.stream_length[p] + 2) < Base
      /\ 2 * (world.stream_length[Other(p)] + 2) < Base /\ 2 * m < Base
      /\ world.recv_capacity + world.stream_length[p] < RX!SR!SIZE_MAX
      /\ world.recv_capacity + world.stream_length[Other(p)] < RX!SR!SIZE_MAX
  BY <1>6 DEF InRange
<1>8. RX!SR!SIZE_MAX \in Nat
  BY SMTT(60) DEF RX!SR!SIZE_MAX, RX!SR!SIZE_MOD
<1>9. world.stream_length[p] < RX!SR!SIZE_MAX
  BY <1>4, <1>5, <1>7, <1>8, SMTT(60)
<1>10. m <= MaxWin
  <2>1. m \in Nat
    BY <1>4, SMTT(60) DEF BS!MinOf
  <2> HIDE DEF m
  <2> QED
    BY <2>1, <1>4, <1>7, SMTT(60) DEF MaxWin
<1>11. Env(E)
  BY <1>2, <1>4, <1>5, <1>7, <1>9, <1>10 DEF Env, Lawful
<1>12. Mirror(E, F)
  BY <1>2, <1>3 DEF Mirror
<1> QED
  BY <1>11, <1>12 DEF E, F

\* The connection of p has become d, and the network towards p and from p has
\* become what it has become.
LEMMA StepKeeps ==
    ASSUME NEW snd, NEW rsm, Lawful(snd, rsm), IInv(snd, rsm), NEW p \in Peer, NEW d,
           Became(EnvOf(snd, rsm, p), conn[p], d, conn[Other(p)]), ~d.active => Over(d),
           conn' = [conn EXCEPT ![p] = Emptied(d)], world' = world,
           net' = [x \in Peer |-> net'[x]],
           Carrying(world.fifo, net'[p], conn[Other(p)]),
           \/ net'[Other(p)] = net[Other(p)]
           \/ net'[Other(p)] = Joined(world.fifo, net[Other(p)], d.segments_out)
    PROVE  IInv(snd, rsm)'
<1> USE ZenonT(60)
<1> DEFINE q == Other(p)
           E == EnvOf(snd, rsm, p)
           F == EnvOf(snd, rsm, q)
           c == conn[p]
           o == conn[q]
           e == Emptied(d)
<1>1. /\ q \in Peer /\ q # p /\ Other(q) = p /\ \A x \in Peer : x = p \/ x = q
  BY Others
<1>2. world \in Worlds /\ conn = [x \in Peer |-> conn[x]] /\ SomebodyLingers
  BY DEF IInv
<1>3. Env(E) /\ Mirror(E, F)
  BY <1>2, Surroundings
<1>4. EndOK(E, c, o) /\ EndOK(F, o, c) /\ Carrying(world.fifo, net[q], c)
  BY <1>1 DEF IInv
<1>5. world.fifo \in BOOLEAN
  BY <1>2, PairAssumption DEF PairAssumption, World
<1>6. /\ conn' = [x \in Peer |-> conn'[x]] /\ conn'[p] = e /\ conn'[q] = o
  BY <1>1, <1>2
<1>7. /\ EnvOf(snd, rsm, p)' = E /\ EnvOf(snd, rsm, q)' = F
  BY DEF EnvOf, Other
<1>8. e = Emptied(d)
  OBVIOUS
<1> HIDE DEF E, F, c, o, e, q
<1>9. Became(E, c, d, o)
  BY DEF E, c, o, q
<1>10. /\ EndOK(E, e, o) /\ EndOK(F, o, e)
       /\ c.linger_after_streams_finish \/ o.linger_after_streams_finish =>
             e.linger_after_streams_finish \/ o.linger_after_streams_finish
       /\ e.sender = d.sender /\ e.receiver = d.receiver
  BY <1>3, <1>4, <1>8, <1>9, EndsKept, SMTT(60)
<1>11. Facing(E, c, o) /\ Goes(E, c, d, o)
  BY <1>4, <1>9 DEF EndOK, Became
<1>12. Carrying(world.fifo, net[q], e)
       /\ Carrying(world.fifo, Joined(world.fifo, net[q], d.segments_out), e)
  BY <1>3, <1>4, <1>5, <1>10, <1>11, NetKept, SMTT(60)
<1>13. Carrying(world.fifo, net'[q], e)
  BY <1>12 DEF q
<1>14. c.linger_after_streams_finish \/ o.linger_after_streams_finish
  BY <1>1, <1>2 DEF SomebodyLingers, c, o
<1>15. SomebodyLingers'
  BY <1>1, <1>6, <1>10, <1>14 DEF SomebodyLingers
<1>16. ASSUME NEW x \in Peer
       PROVE  /\ EndOK(EnvOf(snd, rsm, x)', conn'[x], conn'[Other(x)])
              /\ Carrying(world'.fifo, net'[x], conn'[Other(x)])
  <2>1. CASE x = p
    <3>1. Other(x) = q
      BY <2>1 DEF q
    <3>2. Carrying(world.fifo, net'[p], o)
      BY DEF o, q
    <3> QED
      BY <2>1, <3>1, <3>2, <1>6, <1>7, <1>10
  <2>2. CASE x = q
    BY <2>2, <1>1, <1>6, <1>7, <1>10, <1>13
  <2> QED
    BY <2>1, <2>2, <1>1
<1> QED
  BY <1>2, <1>6, <1>15, <1>16 DEF IInv

\* d, as any of the methods leaves it, keeps the invariant.
LEMMA BecomesKeeps ==
    ASSUME NEW snd, NEW rsm, Lawful(snd, rsm), IInv(snd, rsm), NEW p \in Peer, NEW d,
           Became(EnvOf(snd, rsm, p), conn[p], d, conn[Other(p)]), conn[p].active,
           Becomes(p, d)
    PROVE  IInv(snd, rsm)'
<1> USE ZenonT(60)
<1>1. Other(p) \in Peer /\ Other(p) # p
  BY Others
<1>2. /\ conn' = [conn EXCEPT ![p] = Emptied(d)] /\ world' = world
      /\ net' = [net EXCEPT ![Other(p)] = Joined(world.fifo, @, d.segments_out)]
  <2>1. \A q, segs : Sent(q, segs) = Joined(world.fifo, q, segs)
    BY DEF Sent, Joined
  <2>2. /\ conn' = [conn EXCEPT ![p] = Emptied(d)] /\ world' = world
        /\ net' = [net EXCEPT ![Other(p)] = Sent(@, d.segments_out)]
    BY DEF Becomes, Emptied
  <2> QED
    BY <2>1, <2>2
<1>3. net = [x \in Peer |-> net[x]] /\ Carrying(world.fifo, net[p], conn[Other(p)])
  BY DEF IInv
<1>4. /\ net' = [x \in Peer |-> net'[x]] /\ net'[p] = net[p]
      /\ net'[Other(p)] = Joined(world.fifo, net[Other(p)], d.segments_out)
  BY <1>1, <1>2, <1>3
<1>5. ~d.active => Over(d)
  BY DEF Became
<1>6. Carrying(world.fifo, net'[p], conn[Other(p)])
  BY <1>3, <1>4
<1> QED
  BY <1>2, <1>4, <1>5, <1>6, StepKeeps

\* What IInv says of p.
LEMMA PeerFacing ==
    ASSUME NEW snd, NEW rsm, Lawful(snd, rsm), IInv(snd, rsm), NEW p \in Peer
    PROVE  /\ Env(EnvOf(snd, rsm, p)) /\ Other(p) \in Peer
           /\ Facing(EnvOf(snd, rsm, p), conn[p], conn[Other(p)])
<1> USE ZenonT(60)
<1>1. Env(EnvOf(snd, rsm, p))
  BY Surroundings DEF IInv
<1>2. Other(p) \in Peer
  BY Others
<1> QED
  BY <1>1, <1>2 DEF IInv, EndOK

\* connect() on the client.
LEMMA ConnectKeeps ==
    ASSUME NEW snd, NEW rsm, Lawful(snd, rsm), IInv(snd, rsm), Connect
    PROVE  IInv(snd, rsm)'
<1> USE ZenonT(60)
<1> DEFINE E == EnvOf(snd, rsm, Client)
           d == connect(conn[Client])
<1>1. Client \in Peer
  BY DEF Peer
<1>2. Env(E) /\ Facing(E, conn[Client], conn[Other(Client)])
  BY <1>1, PeerFacing
<1>3. Sends(E, conn[Client], d, conn[Other(Client)])
  <2> HIDE DEF E
  <2> QED
    BY <1>2, ConnectSends
<1>4. Becomes(Client, d) /\ conn[Client].active
  BY DEF Connect
<1>5. Became(E, conn[Client], d, conn[Other(Client)])
  BY <1>3 DEF Sends, Moves, Became
<1> HIDE DEF d
<1> QED
  BY <1>1, <1>4, <1>5, BecomesKeeps

\* TCPConnection::write() on either side.
LEMMA WriteKeeps ==
    ASSUME NEW snd, NEW rsm, Lawful(snd, rsm), IInv(snd, rsm), NEW p \in Peer,
           NEW len \in Nat, Write(p, len)
    PROVE  IInv(snd, rsm)'
<1> USE ZenonT(60)
<1> DEFINE E == EnvOf(snd, rsm, p)
           d == write(conn[p], Substring(outbound(conn[p]).bytes_written, len))
<1>1. Env(E) /\ Facing(E, conn[p], conn[Other(p)])
  BY PeerFacing
<1>2. /\ Becomes(p, d) /\ conn[p].active
      /\ outbound(conn[p]).bytes_written + len <= world.stream_length[p]
  BY DEF Write, Substring
<1>3. E.len = world.stream_length[p]
  BY DEF EnvOf
<1>4. Moves(E, conn[p], d, conn[Other(p)])
  <2> HIDE DEF E
  <2>1. outbound(conn[p]).bytes_written + len <= E.len
    BY <1>2, <1>3
  <2> QED
    BY <1>1, <2>1, WriteMoves
<1>5. Became(E, conn[p], d, conn[Other(p)])
  BY <1>4 DEF Moves, Became
<1> HIDE DEF d
<1> QED
  BY <1>2, <1>5, BecomesKeeps

\* end_input_stream() on either side.
LEMMA EndInputKeeps ==
    ASSUME NEW snd, NEW rsm, Lawful(snd, rsm), IInv(snd, rsm), NEW p \in Peer, EndInput(p)
    PROVE  IInv(snd, rsm)'
<1> USE ZenonT(60)
<1> DEFINE E == EnvOf(snd, rsm, p)
           d == end_input_stream(conn[p])
<1>1. Env(E) /\ Facing(E, conn[p], conn[Other(p)])
  BY PeerFacing
<1>2. Becomes(p, d) /\ conn[p].active
  BY DEF EndInput, CanEndInput
<1>3. Moves(E, conn[p], d, conn[Other(p)])
  <2> HIDE DEF E
  <2> QED
    BY <1>1, EndMoves
<1>4. Became(E, conn[p], d, conn[Other(p)])
  BY <1>3 DEF Moves, Became
<1> HIDE DEF d
<1> QED
  BY <1>2, <1>4, BecomesKeeps

\* tick() on either side: retransmission, giving up, or the end of the linger.
LEMMA TickKeeps ==
    ASSUME NEW snd, NEW rsm, Lawful(snd, rsm), IInv(snd, rsm), NEW p \in Peer, Tick(p)
    PROVE  IInv(snd, rsm)'
<1> USE ZenonT(60)
<1> DEFINE E == EnvOf(snd, rsm, p)
           d == tick(conn[p], 1)
<1>1. Env(E) /\ Facing(E, conn[p], conn[Other(p)])
  BY PeerFacing
<1>2. Becomes(p, d) /\ conn[p].active
  BY DEF Tick
<1>3. Leaves(E, conn[p], d, conn[Other(p)])
  <2> HIDE DEF E
  <2>1. 1 \in Nat
    OBVIOUS
  <2> QED
    BY <1>1, <2>1, TickLeaves
<1>4. Became(E, conn[p], d, conn[Other(p)])
  BY <1>3 DEF Leaves, Became
<1> HIDE DEF d
<1> QED
  BY <1>2, <1>4, BecomesKeeps

\* The destructor on either side resets a connection that is still active.
LEMMA DestroyKeeps ==
    ASSUME NEW snd, NEW rsm, Lawful(snd, rsm), IInv(snd, rsm), NEW p \in Peer, Destroy(p)
    PROVE  IInv(snd, rsm)'
<1> USE ZenonT(60)
<1> DEFINE E == EnvOf(snd, rsm, p)
           d == shutdown(send_rst_segment(conn[p]), FALSE)
<1>1. Env(E) /\ Facing(E, conn[p], conn[Other(p)])
  BY PeerFacing
<1>2. conn = [x \in Peer |-> conn[x]] /\ net = [x \in Peer |-> net[x]]
  BY DEF IInv
<1>3. conn' = [conn EXCEPT ![p] = Emptied(d)] /\ conn[p].active /\ net' = net /\ world' = world
  BY <1>2 DEF Destroy, destroy, Emptied
<1>4. Leaves(E, conn[p], d, conn[Other(p)])
  <2> HIDE DEF E
  <2> QED
    BY <1>1, AbortLeaves
<1>5. Became(E, conn[p], d, conn[Other(p)]) /\ (~d.active => Over(d))
  BY <1>3, <1>4 DEF Leaves, Became
<1>6. Carrying(world.fifo, net[p], conn[Other(p)])
  BY DEF IInv
<1> HIDE DEF d
<1> QED
  BY <1>2, <1>3, <1>5, <1>6, StepKeeps

\* The application reads.
LEMMA ReadKeeps ==
    ASSUME NEW snd, NEW rsm, Lawful(snd, rsm), IInv(snd, rsm), NEW p \in Peer,
           NEW len \in Nat \ {0}, Read(p, len)
    PROVE  IInv(snd, rsm)'
<1> USE ZenonT(60)
<1> DEFINE E == EnvOf(snd, rsm, p)
           c == conn[p]
           d == AfterRead(c, len)
<1>1. Env(E) /\ Facing(E, c, conn[Other(p)])
  BY PeerFacing
<1>2. /\ conn = [x \in Peer |-> conn[x]] /\ net = [x \in Peer |-> net[x]]
      /\ EndOK(E, c, conn[Other(p)]) /\ Carrying(world.fifo, net[p], conn[Other(p)])
  BY DEF IInv
<1>3. conn' = [conn EXCEPT ![p] = d] /\ net' = net /\ world' = world
  <2>1. [conn EXCEPT ![p].receiver.reassembler.output = BS!read(@, len)] = [conn EXCEPT ![p] = d]
    BY <1>2 DEF AfterRead
  <2> QED
    BY <2>1 DEF Read
<1> HIDE DEF d, E, c
<1>4. /\ Moves(E, c, d, conn[Other(p)]) /\ (Over(c) => Over(d))
      /\ d.segments_out = c.segments_out
  <2>1. d = AfterRead(c, len)
    BY DEF d
  <2> QED
    BY <1>1, <2>1, ReadMoves, SMTT(60)
<1>5. d = Emptied(d)
  <2>1. IsConn(d)
    BY <1>4 DEF Moves, Goes, Facing
  <2>2. d.segments_out = << >>
    BY <1>2, <1>4 DEF EndOK
  <2> QED
    BY <2>1, <2>2 DEF IsConn, Emptied
<1>6. Became(E, c, d, conn[Other(p)]) /\ (~d.active => Over(d))
  BY <1>2, <1>4 DEF Moves, Became, EndOK
<1>7. /\ conn' = [conn EXCEPT ![p] = Emptied(d)] /\ world' = world
      /\ net' = [x \in Peer |-> net'[x]] /\ Carrying(world.fifo, net'[p], conn[Other(p)])
      /\ net'[Other(p)] = net[Other(p)]
  BY <1>2, <1>3, <1>5
<1> QED
  BY <1>6, <1>7, StepKeeps DEF E, c

\* segment_received(): the network delivers any segment that is on its way.
LEMMA DeliverKeeps ==
    ASSUME NEW snd, NEW rsm, Lawful(snd, rsm), IInv(snd, rsm), NEW p \in Peer,
           NEW seg \in Arriving(p), Deliver(p, seg)
    PROVE  IInv(snd, rsm)'
<1> USE ZenonT(60)
<1> DEFINE E == EnvOf(snd, rsm, p)
           c == conn[p]
           o == conn[Other(p)]
           d == Receive(p, seg)
<1>1. Env(E) /\ Facing(E, c, o) /\ Other(p) \in Peer /\ Other(p) # p
  BY PeerFacing, Others
<1>2. /\ conn = [x \in Peer |-> conn[x]] /\ net = [x \in Peer |-> net[x]]
      /\ EndOK(E, c, o) /\ Carrying(world.fifo, net[p], o) /\ world \in Worlds
  BY DEF IInv
<1>3. world.fifo \in BOOLEAN
  BY <1>2, PairAssumption DEF PairAssumption, World
<1>4. /\ conn' = [conn EXCEPT ![p] = Emptied(d)] /\ world' = world
      /\ net' = [net EXCEPT ![p] = IF world.fifo THEN Tail(@) ELSE @,
                            ![Other(p)] = Joined(world.fifo, @, d.segments_out)]
  <2>1. \A q, segs : Sent(q, segs) = Joined(world.fifo, q, segs)
    BY DEF Sent, Joined
  <2>2. /\ conn' = [conn EXCEPT ![p] = Emptied(d)] /\ world' = world
        /\ net' = [net EXCEPT ![p] = IF world.fifo THEN Tail(@) ELSE @,
                              ![Other(p)] = Sent(@, d.segments_out)]
    BY DEF Deliver, Emptied
  <2> QED
    BY <2>1, <2>2
<1>5. /\ net' = [x \in Peer |-> net'[x]]
      /\ net'[p] = IF world.fifo THEN Tail(net[p]) ELSE net[p]
      /\ net'[Other(p)] = Joined(world.fifo, net[Other(p)], d.segments_out)
  BY <1>1, <1>2, <1>4
<1>6. SegOK(seg, o) /\ Carrying(world.fifo, net'[p], o)
  <2>1. CASE world.fifo
    <3>1. net[p] # << >> /\ seg = Head(net[p])
      BY <2>1 DEF Arriving
    <3>2. Carrying(TRUE, net[p], o)
      BY <1>2, <2>1 DEF Carrying
    <3>3. SegOK(seg, o) /\ Carrying(TRUE, Tail(net[p]), o)
      BY <3>1, <3>2, TailCarrying
    <3> QED
      BY <1>5, <2>1, <3>3 DEF Carrying
  <2>2. CASE ~world.fifo
    BY <1>2, <1>5, <2>2 DEF Arriving, Carrying
  <2> QED
    BY <1>3, <2>1, <2>2
<1>7. Became(E, c, d, o) /\ (~d.active => Over(d))
  <2> HIDE DEF E, o
  <2>1. CASE c.active /\ d = segment_received(c, seg)
    <3>1. Became(E, c, d, o)
      BY <1>1, <1>6, <2>1, ReceiveBecame
    <3> QED
      BY <2>1, <3>1 DEF Became
  <2>2. CASE d = c
    <3>1. Sends(E, c, c, o)
      BY <1>1, SendsNothing
    <3> QED
      BY <2>2, <3>1, <1>2 DEF Sends, Moves, Became, EndOK
  <2> QED
    BY <2>1, <2>2 DEF Receive
<1> HIDE DEF d
<1>8. conn' = [conn EXCEPT ![p] = Emptied(d)] /\ world' = world
  BY <1>4
<1> QED
  BY <1>5, <1>6, <1>7, <1>8, StepKeeps

\* The network loses one.
LEMMA LoseKeeps ==
    ASSUME NEW snd, NEW rsm, IInv(snd, rsm), NEW p \in Peer, Lose(p)
    PROVE  IInv(snd, rsm)'
<1> USE ZenonT(60)
<1>1. /\ conn' = conn /\ world' = world /\ world.fifo /\ net[p] # << >>
      /\ net' = [net EXCEPT ![p] = Tail(@)]
  BY DEF Lose
<1>2. net = [x \in Peer |-> net[x]] /\ SomebodyLingers
  BY DEF IInv
<1>3. net' = [x \in Peer |-> net'[x]] /\ net'[p] = Tail(net[p])
      /\ \A x \in Peer : x # p => net'[x] = net[x]
  BY <1>1, <1>2
<1>4. Carrying(world.fifo, net'[p], conn[Other(p)])
  <2>1. Carrying(TRUE, net[p], conn[Other(p)])
    BY <1>1 DEF IInv, Carrying
  <2>2. Carrying(TRUE, Tail(net[p]), conn[Other(p)])
    BY <1>1, <2>1, TailCarrying
  <2> QED
    BY <1>1, <1>3, <2>2 DEF Carrying
<1>5. \A x \in Peer : Carrying(world.fifo, net'[x], conn[Other(x)])
  BY <1>3, <1>4 DEF IInv
<1>6. \A x \in Peer : EnvOf(snd, rsm, x)' = EnvOf(snd, rsm, x)
  BY <1>1 DEF EnvOf
<1>7. SomebodyLingers'
  BY <1>1, <1>2 DEF SomebodyLingers
<1> QED
  BY <1>1, <1>3, <1>5, <1>6, <1>7 DEF IInv

\* Nothing happens.
LEMMA StutterKeeps ==
    ASSUME NEW snd, NEW rsm, IInv(snd, rsm), UNCHANGED vars
    PROVE  IInv(snd, rsm)'
<1> USE ZenonT(60)
<1>1. conn' = conn /\ world' = world /\ net' = net
  BY DEF vars
<1>2. \A x \in Peer : EnvOf(snd, rsm, x)' = EnvOf(snd, rsm, x)
  BY <1>1 DEF EnvOf
<1>3. SomebodyLingers'
  BY <1>1 DEF SomebodyLingers, IInv
<1> QED
  BY <1>1, <1>2, <1>3 DEF IInv

\* Every step keeps the invariant.
LEMMA NextKeeps ==
    ASSUME NEW snd, NEW rsm, Lawful(snd, rsm), IInv(snd, rsm), [Next]_vars
    PROVE  IInv(snd, rsm)'
<1> USE ZenonT(60)
<1>1. CASE Connect
  BY <1>1, ConnectKeeps
<1>2. ASSUME NEW p \in Peer, NEW len \in 1 .. world.stream_length[p], Write(p, len)
      PROVE  IInv(snd, rsm)'
  <2>1. len \in Nat
    BY SMTT(60)
  <2> QED
    BY <2>1, <1>2, WriteKeeps
<1>3. ASSUME NEW p \in Peer, EndInput(p) PROVE IInv(snd, rsm)'
  BY <1>3, EndInputKeeps
<1>4. ASSUME NEW p \in Peer, NEW len \in 1 .. world.max_read, Read(p, len)
      PROVE  IInv(snd, rsm)'
  <2>1. len \in Nat \ {0}
    BY SMTT(60)
  <2> QED
    BY <2>1, <1>4, ReadKeeps
<1>5. ASSUME NEW p \in Peer, NEW seg \in Arriving(p), Deliver(p, seg) PROVE IInv(snd, rsm)'
  BY <1>5, DeliverKeeps
<1>6. ASSUME NEW p \in Peer, Lose(p) PROVE IInv(snd, rsm)'
  BY <1>6, LoseKeeps
<1>7. ASSUME NEW p \in Peer, Tick(p) PROVE IInv(snd, rsm)'
  BY <1>7, TickKeeps
<1>8. ASSUME NEW p \in Peer, Destroy(p) PROVE IInv(snd, rsm)'
  BY <1>8, DestroyKeeps
<1>9. CASE UNCHANGED vars
  BY <1>9, StutterKeeps
<1> QED
  BY <1>1, <1>2, <1>3, <1>4, <1>5, <1>6, <1>7, <1>8, <1>9 DEF Next

\* Two new connections and an empty network satisfy the invariant.
LEMMA InitKeeps ==
    ASSUME NEW snd, NEW rsm, Lawful(snd, rsm), Init
    PROVE  IInv(snd, rsm)
<1> USE ZenonT(60)
<1> DEFINE New(p) == NewTCPConnection(world.recv_capacity, world.send_capacity, RtTimeout, Isn[p])
<1>1. /\ world \in Worlds /\ conn = [p \in Peer |-> New(p)]
      /\ net = [p \in Peer |-> IF world.fifo THEN << >> ELSE {}]
  BY DEF Init
<1> HIDE DEF New
<1>2. /\ conn = [p \in Peer |-> conn[p]] /\ net = [p \in Peer |-> net[p]]
      /\ \A p \in Peer : conn[p] = New(p)
      /\ \A p \in Peer : net[p] = IF world.fifo THEN << >> ELSE {}
  BY <1>1
<1>3. world.send_capacity \in Nat /\ world.fifo \in BOOLEAN
  BY <1>1, PairAssumption DEF PairAssumption, World
<1>4. ASSUME NEW p \in Peer
      PROVE  /\ EndOK(EnvOf(snd, rsm, p), conn[p], conn[Other(p)])
             /\ conn[p].linger_after_streams_finish
  <2> DEFINE E == EnvOf(snd, rsm, p)
             F == EnvOf(snd, rsm, Other(p))
             c == conn[p]
             o == conn[Other(p)]
             k == world.send_capacity
  <2>1. Other(p) \in Peer
    BY Others
  <2>2. Env(E) /\ Mirror(E, F)
    BY <1>1, Surroundings
  <2>3. E.cap = world.recv_capacity /\ E.rto = RtTimeout /\ E.isn = Isn[p] /\ F.isn = Isn[Other(p)]
    BY DEF EnvOf
  <2>4. F.isn \in W!WrappingInt32
    BY <2>1, <2>3, PairAssumption DEF PairAssumption
  <2>5. c = New(p) /\ o = New(Other(p))
    BY <1>2, <2>1
  <2> HIDE DEF E, F, c, o, k
  <2>6. /\ c = NewTCPConnection(E.cap, k, E.rto, E.isn)
        /\ o = NewTCPConnection(E.cap, k, E.rto, F.isn)
    BY <2>3, <2>5 DEF New, k
  <2>7. EndOK(E, c, o) /\ c.linger_after_streams_finish
    <3>1. k \in Nat
      BY <1>3 DEF k
    <3> QED
      BY <3>1, <2>2, <2>4, <2>6, NewFaces, SMTT(60)
  <2> QED
    BY <2>7 DEF E, c, o
<1>5. ASSUME NEW p \in Peer PROVE Carrying(world.fifo, net[p], conn[Other(p)])
  <2>1. << >> \in Seq(Segments) /\ \A i \in 1 .. Len(<< >>) : SegOK(<< >>[i], conn[Other(p)])
    BY SMTT(60)
  <2> QED
    BY <1>2, <1>3, <2>1 DEF Carrying
<1>6. SomebodyLingers
  BY <1>4 DEF SomebodyLingers, Peer
<1> QED
  BY <1>1, <1>2, <1>4, <1>5, <1>6 DEF IInv

\* What the invariant says of the bytes that an application can read.
LEMMA IInvIntegrity ==
    ASSUME NEW snd, NEW rsm, Lawful(snd, rsm), IInv(snd, rsm)
    PROVE  StreamIntegrity
<1> USE ZenonT(60)
<1> SUFFICES ASSUME NEW p \in Peer
             PROVE  LET in == inbound(conn[p])
                    IN  /\ \A i \in 1 .. Len(in.buf) : in.buf[i] = in.bytes_read + i - 1
                        /\ in.bytes_written <= outbound(conn[Other(p)]).bytes_written
  BY DEF StreamIntegrity
<1> DEFINE E == EnvOf(snd, rsm, p)
           c == conn[p]
           o == conn[Other(p)]
           m == c.receiver.reassembler
<1>1. Env(E) /\ Facing(E, c, o)
  BY PeerFacing
<1> HIDE DEF E, o
<1>2. Stored(m, E.cap, o.sender.stream.bytes_read) /\ SenderFacts(o.sender)
  BY <1>1, FacingTypes
<1>3. inbound(c) = m.output /\ outbound(o) = o.sender.stream
  BY DEF inbound, outbound, RX!stream_out
<1> HIDE DEF m, c
<1>4. m.output.bytes_written <= o.sender.stream.bytes_written
  BY <1>2, SMTT(60) DEF Stored, SenderFacts
<1>5. \A i \in 1 .. Len(m.output.buf) : m.output.buf[i] = m.output.bytes_read + i - 1
  BY <1>2 DEF Stored
<1> QED
  BY <1>3, <1>4, <1>5 DEF c, o

\* What it says of acknowledgments.
LEMMA IInvAcks ==
    ASSUME NEW snd, NEW rsm, Lawful(snd, rsm), IInv(snd, rsm)
    PROVE  AcksOnlySent
<1> USE ZenonT(60)
<1> SUFFICES ASSUME NEW p \in Peer, RX!has_ackno(conn[p].receiver)
             PROVE  RX!ack_seqno(conn[p].receiver) <= conn[Other(p)].sender.next_seqno
  BY DEF AcksOnlySent
<1> DEFINE E == EnvOf(snd, rsm, p)
           s == conn[Other(p)].sender
           r == conn[p].receiver
<1>1. Env(E) /\ s \in E.snd /\ ReceiverOK(E, r, s)
  BY PeerFacing DEF Facing, Opposite
<1>2. r.syn_set
  BY DEF RX!has_ackno
<1> HIDE DEF E, s, r
<1>3. RX!ack_seqno(r) <= s.next_seqno
  BY <1>1, <1>2, ReceiverTypes DEF ReceiverOK
<1> QED
  BY <1>3 DEF r, s

\* What it says of an endpoint that has finished.
LEMMA IInvClean ==
    ASSUME NEW snd, NEW rsm, Lawful(snd, rsm), IInv(snd, rsm)
    PROVE  CleanCloseDelivers
<1> USE ZenonT(60)
<1> SUFFICES ASSUME NEW p \in Peer, ~conn[p].active, ~Failed(p)
             PROVE  LET in == inbound(conn[Other(p)])
                    IN  in.input_ended /\ in.bytes_written = outbound(conn[p]).bytes_written
  BY DEF CleanCloseDelivers
<1> DEFINE E == EnvOf(snd, rsm, p)
           c == conn[p]
           s == conn[p].sender
           r == conn[Other(p)].receiver
           m == r.reassembler
<1>1. Env(E) /\ s \in E.snd /\ ReceiverOK(E, r, s) /\ First(s) <= Acked(r)
  BY PeerFacing DEF Facing
<1>2. First(s) = s.stream.bytes_written + 2
  <2>1. Over(c) /\ ~inbound(c).error
    BY DEF IInv, EndOK, Failed
  <2> QED
    BY <2>1 DEF Over, Settled
<1> HIDE DEF E, s
<1>3. SenderFacts(s) /\ s.stream.bytes_read \in Nat /\ s.stream.bytes_written \in Nat
      /\ s.stream.bytes_read <= s.stream.bytes_written
  <2>1. SenderFacts(s)
    BY <1>1, Facts
  <2> QED
    BY <2>1 DEF SenderFacts
<1>4. /\ Stored(m, E.cap, s.stream.bytes_read) /\ r.syn_set \in BOOLEAN
      /\ RX!ack_seqno(r) \in Nat
      /\ RX!stream_out(r).input_ended => RX!ack_seqno(r) = m.wait_index + 2
      /\ ~RX!stream_out(r).input_ended => RX!ack_seqno(r) = m.wait_index + 1
  BY <1>1, ReceiverTypes DEF ReceiverOK
<1>5. /\ m.wait_index \in Nat /\ m.wait_index <= s.stream.bytes_read
      /\ m.output.bytes_written = m.wait_index
  BY <1>4 DEF Stored
<1>6. /\ Acked(r) = RX!ack_seqno(r) \/ Acked(r) = 0
  BY DEF Acked
<1> HIDE DEF r, m
<1>7. /\ RX!stream_out(r).input_ended /\ m.wait_index = s.stream.bytes_written
  BY <1>1, <1>2, <1>3, <1>4, <1>5, <1>6, SMTT(60)
<1>8. inbound(conn[Other(p)]) = RX!stream_out(r) /\ RX!stream_out(r) = m.output
      /\ outbound(conn[p]) = s.stream
  BY DEF inbound, outbound, RX!stream_out, r, m, s
<1> QED
  BY <1>5, <1>7, <1>8

\* IInv is inductive and says what matters.
LEMMA Inductive ==
    ASSUME NEW snd, NEW rsm, Lawful(snd, rsm)
    PROVE  /\ Init => IInv(snd, rsm)
           /\ IInv(snd, rsm) /\ [Next]_vars => IInv(snd, rsm)'
           /\ IInv(snd, rsm) =>
                 StreamIntegrity /\ AcksOnlySent /\ CleanCloseDelivers /\ SomebodyLingers
<1> USE ZenonT(60)
<1>1. IInv(snd, rsm) => SomebodyLingers
  BY DEF IInv
<1> QED
  BY <1>1, InitKeeps, NextKeeps, IInvIntegrity, IInvAcks, IInvClean
-----------------------------------------------------------------------------
\* What is proved of a sender, whatever variable holds it.
SN == INSTANCE TCPSenderProofs
    WITH Isn <- 0, SendCapacity <- 0, StreamLength <- 0, MaxWindow <- (Base - 1) \div 2,
         MaxTick <- 0, MaxRetx <- 0, AckBeyond <- 0, tx <- 0, beyond <- 0,
         MaxCheckpoint <- 0, peer_isn <- 0, checkpoint <- 0, peer_seqno <- 0

\* The instance's assumptions.
LEMMA SenderInstance == SN!SenderAssumption /\ SN!WrappingAssumption
BY PairAssumption, SMTT(60)
   DEF PairAssumption, SN!SenderAssumption, SN!WrappingInt32, SN!WrappingAssumption

\* The operators of the sender, of sequence numbers and of the stream are those
\* of the instance.
LEMMA SenderOps ==
    /\ \A s : TX!bytes_in_flight(s) = SN!bytes_in_flight(s)
    /\ \A s : TX!fill_window(s) = SN!fill_window(s)
    /\ \A s, ackno, w : TX!ack_received(s, ackno, w) = SN!ack_received(s, ackno, w)
    /\ \A s, ms : TX!tick(s, ms) = SN!tick(s, ms)
    /\ \A s, rst : TX!send_empty_segment(s, FALSE, FALSE, rst)
                     = SN!send_empty_segment(s, FALSE, FALSE, rst)
    /\ \A cap, rto, isn : TX!NewTCPSender(cap, rto, isn) = SN!NewTCPSender(cap, rto, isn)
    /\ \A n, isn, c : W!unwrap(n, isn, c) = SN!unwrap(n, isn, c)
    /\ \A n, isn : W!wrap(n, isn) = SN!wrap(n, isn)
    /\ \A a, b : W!minus(a, b) = SN!minus(a, b)
    /\ W!WrappingInt32 = SN!WrappingInt32
    /\ \A st, data : BS!write(st, data) = SN!BS!write(st, data)
    /\ \A st : BS!end_input(st) = SN!BS!end_input(st)
    /\ \A st : BS!set_error(st) = SN!BS!set_error(st)
<1> USE ZenonT(60)
<1>1. /\ \A s : TX!bytes_in_flight(s) = SN!bytes_in_flight(s)
      /\ \A s : TX!fill_window(s) = SN!fill_window(s)
  BY DEF TX!fill_window, TX!fill_turn, TX!remaining_winsize, TX!effective_window,
         TX!bytes_in_flight, TX!BS!MinOf, TX!BS!peek_output, TX!BS!read, TX!BS!pop_output,
         TX!BS!eof, TX!BS!buffer_empty, TX!SEG!Segment, TX!wrap, TX!plus, TX!timer_start,
         TX!With, TX!SEG!One, TX!SEG!length_in_sequence_space, SN!fill_window,
         SN!fill_turn, SN!remaining_winsize, SN!effective_window, SN!bytes_in_flight,
         SN!BS!MinOf, SN!BS!peek_output, SN!BS!read, SN!BS!pop_output, SN!BS!eof,
         SN!BS!buffer_empty, SN!SEG!Segment, SN!wrap, SN!plus, SN!timer_start, SN!With,
         SN!SEG!One, SN!SEG!length_in_sequence_space
<1>2. ASSUME NEW s, NEW ackno, NEW w
      PROVE  TX!ack_received(s, ackno, w) = SN!ack_received(s, ackno, w)
  BY DEF TX!fill_window, TX!fill_turn, TX!remaining_winsize, TX!effective_window,
         TX!bytes_in_flight, TX!BS!MinOf, TX!BS!peek_output, TX!BS!read, TX!BS!pop_output,
         TX!BS!eof, TX!BS!buffer_empty, TX!SEG!Segment, TX!wrap, TX!plus, TX!timer_start,
         TX!With, TX!SEG!One, TX!SEG!length_in_sequence_space, TX!ack_received,
         TX!acked_segments, TX!erase_acked, TX!timer_reset, TX!unwrap, TX!minus,
         SN!fill_window, SN!fill_turn, SN!remaining_winsize, SN!effective_window,
         SN!bytes_in_flight, SN!BS!MinOf, SN!BS!peek_output, SN!BS!read, SN!BS!pop_output,
         SN!BS!eof, SN!BS!buffer_empty, SN!SEG!Segment, SN!wrap, SN!plus, SN!timer_start,
         SN!With, SN!SEG!One, SN!SEG!length_in_sequence_space, SN!ack_received,
         SN!acked_segments, SN!erase_acked, SN!timer_reset, SN!unwrap, SN!minus
<1>3. /\ \A s, ms : TX!tick(s, ms) = SN!tick(s, ms)
      /\ \A s, rst : TX!send_empty_segment(s, FALSE, FALSE, rst)
                       = SN!send_empty_segment(s, FALSE, FALSE, rst)
      /\ \A cap, rto, isn : TX!NewTCPSender(cap, rto, isn) = SN!NewTCPSender(cap, rto, isn)
  BY DEF TX!tick, TX!timer_update, TX!timer_expired, TX!timer_start, TX!SEG!One,
         TX!send_empty_segment, TX!SEG!Segment, TX!wrap, TX!plus,
         TX!SEG!length_in_sequence_space, TX!NewTCPSender, TX!BS!NewByteStream,
         TX!timer_reset, SN!tick, SN!timer_update, SN!timer_expired, SN!timer_start,
         SN!SEG!One, SN!send_empty_segment, SN!SEG!Segment, SN!wrap, SN!plus,
         SN!SEG!length_in_sequence_space, SN!NewTCPSender, SN!BS!NewByteStream,
         SN!timer_reset
<1>4. /\ \A n, isn, c : W!unwrap(n, isn, c) = SN!unwrap(n, isn, c)
      /\ \A n, isn : W!wrap(n, isn) = SN!wrap(n, isn)
      /\ \A a, b : W!minus(a, b) = SN!minus(a, b)
      /\ W!WrappingInt32 = SN!WrappingInt32
      /\ \A st, data : BS!write(st, data) = SN!BS!write(st, data)
      /\ \A st : BS!end_input(st) = SN!BS!end_input(st)
      /\ \A st : BS!set_error(st) = SN!BS!set_error(st)
  BY DEF W!unwrap, W!minus, W!wrap, W!plus, W!WrappingInt32, SN!unwrap, SN!minus, SN!wrap,
         SN!plus, SN!WrappingInt32, BS!write, BS!write_size, BS!remaining_capacity,
         BS!MinOf, BS!end_input, BS!set_error, SN!BS!write, SN!BS!write_size,
         SN!BS!remaining_capacity, SN!BS!MinOf, SN!BS!end_input, SN!BS!set_error
<1> QED
  BY <1>1, <1>2, <1>3, <1>4

\* The senders that are sound.
SoundSenders == {s \in SN!Senders : SN!SenderOK(s)}

\* What the instance says of a sender, and of one that comes later, is what the
\* laws say.
LEMMA SenderNotions ==
    /\ \A s : s \in SoundSenders <=> SN!SenderOK(s)
    /\ \A s : First(s) = SN!First(s)
    /\ \A i, c : Substring(i, c) = SN!Substring(i, c)
    /\ \A s : /\ SN!SenderFacts(s)
              /\ \A i \in 1 .. Len(s.segments_out) : SN!Carried(s.segments_out[i], s)
              => SenderFacts(s)
    /\ \A s, t : SN!Onward(s, t) => Onward(SoundSenders, s, t)
    /\ \A s, t, ackno : SN!Advanced(s, t, ackno) => Advanced(SoundSenders, s, t, ackno)
    /\ \A s, t, n : SN!Rewritten(s, t, n) => Rewritten(SoundSenders, s, t, n)
<1> USE SenderOps, ZenonT(60)
<1> \A s : s \in SoundSenders <=> SN!SenderOK(s)
  BY DEF SoundSenders, SN!SenderOK
<1> \A s : First(s) = SN!First(s)
  BY DEF First, SN!First
<1> \A s, t : SN!Later(s, t) => Later(s, t)
  BY DEF Later, SN!Later, SN!StreamLater
<1> \A seg, s : SN!Carried(seg, s) => Carried(seg, s)
  BY DEF Carried, SN!Carried, Placed, SN!Placed, Substring, SN!Substring
<1> Segments = SN!Segments
  BY DEF Segments, SN!Segments
<1> QED
  BY DEF SenderFacts, SN!SenderFacts, Substring, SN!Substring, Onward, SN!Onward, SN!Steady,
         Advanced, SN!Advanced, Rewritten, SN!Rewritten

\* What the sender's methods do.
LEMMA MethodsSound ==
    ASSUME NEW s \in SoundSenders
    PROVE  /\ SenderFacts(s)
           /\ Onward(SoundSenders, s, TX!fill_window(s))
           /\ \A ms \in Nat : Onward(SoundSenders, s, TX!tick(s, ms))
           /\ \A rst \in BOOLEAN :
                 Onward(SoundSenders, s, TX!send_empty_segment(s, FALSE, FALSE, rst))
           /\ Onward(SoundSenders, s, [s EXCEPT !.segments_out = << >>])
           /\ \A ackno \in Nat, w \in 0 .. MaxWin :
                 Advanced(SoundSenders, s, TX!ack_received(s, ackno, w), ackno)
<1> USE SenderInstance, SenderOps, SenderNotions, ZenonT(60)
<1> SN!SenderOK(s)
  OBVIOUS
<1> /\ SN!SenderFacts(s)
    /\ \A i \in 1 .. Len(s.segments_out) : SN!Carried(s.segments_out[i], s)
  BY SN!SenderSound, SN!QueueLaw
<1> /\ SN!Onward(s, SN!fill_window(s))
    /\ \A ms \in Nat : SN!Onward(s, SN!tick(s, ms))
    /\ \A rst \in BOOLEAN : SN!Onward(s, SN!send_empty_segment(s, FALSE, FALSE, rst))
    /\ SN!Onward(s, [s EXCEPT !.segments_out = << >>])
    /\ \A ackno \in Nat, w \in 0 .. MaxWin :
          SN!Advanced(s, SN!ack_received(s, ackno, w), ackno)
  BY SN!MethodLaws DEF MaxWin
<1> QED
  OBVIOUS

\* What the applications do to the sender's stream.
LEMMA StreamsSound ==
    ASSUME NEW s \in SoundSenders
    PROVE  /\ Onward(SoundSenders, s, [s EXCEPT !.stream = BS!set_error(@)])
           /\ \A len \in Nat :
                 Rewritten(SoundSenders, s,
                     [s EXCEPT !.stream = BS!write(@, Substring(s.stream.bytes_written, len))],
                     s.stream.bytes_written + len)
           /\ Rewritten(SoundSenders, s, [s EXCEPT !.stream = BS!end_input(@)],
                        s.stream.bytes_written)
<1> USE SenderInstance, SenderOps, SenderNotions, ZenonT(60)
<1> SN!SenderOK(s)
  OBVIOUS
<1> /\ SN!Onward(s, [s EXCEPT !.stream = SN!BS!set_error(s.stream)])
    /\ \A len \in Nat :
          SN!Rewritten(s,
              [s EXCEPT !.stream = SN!BS!write(s.stream, SN!Substring(s.stream.bytes_written, len))],
              s.stream.bytes_written + len)
    /\ SN!Rewritten(s, [s EXCEPT !.stream = SN!BS!end_input(s.stream)], s.stream.bytes_written)
  BY SN!StreamLaws
<1> QED
  OBVIOUS

\* The laws of the sender hold.
LEMMA SendersLawful == SenderLaws(SoundSenders, RtTimeout)
<1>1. ASSUME NEW cap \in Nat, NEW isn \in W!WrappingInt32,
             NEW s, s = TX!NewTCPSender(cap, RtTimeout, isn)
      PROVE  /\ s \in SoundSenders /\ s.isn = isn /\ First(s) = 0 /\ s.stream.bytes_written = 0
             /\ s.segments_out = << >> /\ ~s.syn_sent
  <2>1. s = SN!NewTCPSender(cap, RtTimeout, isn) /\ isn \in SN!WrappingInt32
    BY <1>1, SenderOps, ZenonT(60)
  <2>2. /\ SN!SenderOK(s) /\ s.isn = isn /\ SN!First(s) = 0 /\ s.segments_out = << >>
        /\ ~s.syn_sent /\ s.stream = SN!BS!NewByteStream(cap)
    BY <2>1, SenderInstance, SN!NewSenderOK, SMTT(60)
  <2>3. s.stream.bytes_written = 0
    BY <2>2 DEF SN!BS!NewByteStream
  <2> QED
    BY <2>2, <2>3, SenderNotions, ZenonT(60)
<1> QED
  BY <1>1, MethodsSound, StreamsSound, ZenonT(60) DEF SenderLaws

\* unwrap() undoes wrap() near its checkpoint.
LEMMA NumbersLawful == NumberLaw
BY SenderInstance, SN!Unwraps, SenderOps, ZenonT(60) DEF NumberLaw
-----------------------------------------------------------------------------
\* What is proved of a reassembler, whatever variable holds it.
SP == INSTANCE StreamReassemblerProofs
    WITH RecvCapacity <- 0, RecvLength <- 0, MaxPush <- 0, MaxRecv <- 0, Overrun <- 0,
         r <- 0, reaches <- 0

\* The instance's assumption.
LEMMA ReassemblerInstance == SP!ReassemblerAssumption
BY SMTT(60) DEF SP!ReassemblerAssumption, SP!SIZE_MAX, SP!SIZE_MOD

\* The operators of the reassembler and of its output are those of the instance.
LEMMA ReassemblerOps ==
    /\ \A s, data, i, eof :
          RX!SR!push_substring(s, data, i, eof) = SP!push_substring(s, data, i, eof)
    /\ \A cap : RX!SR!NewStreamReassembler(cap) = SP!NewStreamReassembler(cap)
    /\ RX!SR!SIZE_MAX = SP!SIZE_MAX
    /\ \A o : RX!BS!end_input(o) = SP!Output!end_input(o)
    /\ \A o : BS!set_error(o) = SP!Output!set_error(o)
    /\ \A o, n : BS!read(o, n) = SP!Output!read(o, n)
<1> USE ZenonT(60)
<1>1. ASSUME NEW s, NEW data, NEW i, NEW eof
      PROVE  RX!SR!push_substring(s, data, i, eof) = SP!push_substring(s, data, i, eof)
  BY DEF RX!SR!unassembled_bytes, RX!SR!InKeyOrder, RX!SR!With, RX!SR!Max,
         RX!SR!truncate_data, RX!SR!size_t, RX!SR!SIZE_MOD, RX!SR!Output!MinOf,
         RX!SR!Output!buffer_size, RX!SR!checked_insert, RX!SR!elem_end, RX!SR!overlapping,
         RX!SR!covered, RX!SR!covers, RX!SR!merge, RX!SR!merged, RX!SR!Suffix, RX!SR!erase,
         RX!SR!insert, RX!SR!refit, RX!SR!update_waitmap, RX!SR!write_output,
         RX!SR!Output!write, RX!SR!Output!write_size, RX!SR!Output!remaining_capacity,
         RX!SR!take, RX!SR!assemble, RX!SR!assemble_all, RX!SR!end_output,
         RX!SR!Output!end_input, RX!SR!push_data, RX!SR!push_noted, RX!SR!push_substring,
         RX!SR!empty, RX!SR!Cardinality, SP!unassembled_bytes, SP!InKeyOrder, SP!With,
         SP!Max, SP!truncate_data, SP!size_t, SP!SIZE_MOD, SP!Output!MinOf,
         SP!Output!buffer_size, SP!checked_insert, SP!elem_end, SP!overlapping, SP!covered,
         SP!covers, SP!merge, SP!merged, SP!Suffix, SP!erase, SP!insert, SP!refit,
         SP!update_waitmap, SP!write_output, SP!Output!write, SP!Output!write_size,
         SP!Output!remaining_capacity, SP!take, SP!assemble, SP!assemble_all,
         SP!end_output, SP!Output!end_input, SP!push_data, SP!push_noted,
         SP!push_substring, SP!empty, SP!Cardinality
<1>2. /\ \A cap : RX!SR!NewStreamReassembler(cap) = SP!NewStreamReassembler(cap)
      /\ RX!SR!SIZE_MAX = SP!SIZE_MAX
      /\ \A o : RX!BS!end_input(o) = SP!Output!end_input(o)
      /\ \A o : BS!set_error(o) = SP!Output!set_error(o)
      /\ \A o, n : BS!read(o, n) = SP!Output!read(o, n)
  BY DEF RX!SR!NewStreamReassembler, RX!SR!Output!NewByteStream, RX!SR!SIZE_MAX,
         SP!NewStreamReassembler, SP!Output!NewByteStream, SP!SIZE_MAX, RX!BS!end_input,
         BS!set_error, SP!Output!set_error, BS!read, BS!pop_output, BS!peek_output,
         BS!MinOf, SP!Output!read, SP!Output!pop_output, SP!Output!peek_output,
         SP!Output!MinOf, SP!Output!end_input, RX!SR!SIZE_MOD, SP!SIZE_MOD
<1> QED
  BY <1>1, <1>2

\* The laws of the reassembler hold.
LEMMA ReassemblersLawful == ReassemblerLaws(SP!SoundReassemblers)
<1> USE ZenonT(60)
<1>1. SP!ReassemblerLaws(SP!SoundReassemblers)
  BY ReassemblerInstance, SP!SoundLaws
<1>2. /\ \A rsm, s, cap, b : SP!Stored(s, cap, b) => Stored(s, cap, b)
      /\ \A rsm, s, cap, b : SP!Extends(rsm, s, cap, b) => Extends(rsm, s, cap, b)
      /\ \A rsm, s, t, cap, b : SP!Marked(rsm, s, t, cap, b) => Marked(rsm, s, t, cap, b)
      /\ \A rsm, s, t, cap, b, eof :
            SP!Received(rsm, s, t, cap, b, eof) => Pushed(rsm, s, t, cap, b, eof)
      /\ \A i, c : SP!Substring(i, c) = Substring(i, c)
  BY DEF Stored, SP!Stored, Extends, SP!Extends, Marked, SP!Marked, Pushed, SP!Received,
         Substring, SP!Substring
<1>3. ASSUME NEW rsm, NEW s, NEW cap, NEW b, SP!Pushes(rsm, s, cap, b)
      PROVE  Pushes(rsm, s, cap, b)
  BY <1>2, <1>3, ReassemblerOps DEF Pushes, SP!Pushes
<1>4. /\ \A rsm, s, cap, b : SP!Ends(rsm, s, cap, b) => Ends(rsm, s, cap, b)
      /\ \A rsm, s, cap, b : SP!Fails(rsm, s, cap, b) => Fails(rsm, s, cap, b)
      /\ \A rsm, s, cap, b : SP!Reads(rsm, s, cap, b) => Reads(rsm, s, cap, b)
      /\ \A rsm, cap : SP!NewOne(rsm, cap) => NewReassembler(rsm, cap)
  BY <1>2, ReassemblerOps
     DEF Ends, SP!Ends, Fails, SP!Fails, Reads, SP!Reads, NewReassembler, SP!NewOne
<1> QED
  BY <1>1, <1>2, <1>3, <1>4 DEF ReassemblerLaws, SP!ReassemblerLaws
-----------------------------------------------------------------------------
\* The inductive invariant, for the senders and reassemblers that are sound.
PairIInv == IInv(SoundSenders, SP!SoundReassemblers)

\* It is one, and it says what matters.
LEMMA PairInductive ==
    /\ Init => PairIInv
    /\ PairIInv /\ [Next]_vars => PairIInv'
    /\ PairIInv => StreamIntegrity /\ AcksOnlySent /\ CleanCloseDelivers /\ SomebodyLingers
<1>1. Lawful(SoundSenders, SP!SoundReassemblers)
  BY SendersLawful, ReassemblersLawful, NumbersLawful, ZenonT(60) DEF Lawful
<1> QED
  BY <1>1, Inductive, ZenonT(60) DEF PairIInv

\* All of it holds always.
LEMMA PairSafe ==
    Spec => [](StreamIntegrity /\ AcksOnlySent /\ CleanCloseDelivers /\ SomebodyLingers)
BY PairInductive, PTL DEF Spec

\* Whatever the network loses, reorders or repeats, for streams of any length
\* that the sequence numbers tell apart, what an application can read is what the
\* other application has written, in order, each byte once.
THEOREM PairStreamIntegrity == Spec => []StreamIntegrity
BY PairSafe, PTL

\* No endpoint ever acknowledges what its peer has not sent, so the early return
\* of ack_received() is never taken.
THEOREM PairAcksOnlySent == Spec => []AcksOnlySent
BY PairSafe, PTL

\* An endpoint that has finished without a failure has had all of its bytes, and
\* their end, received by its peer.
THEOREM PairCleanClose == Spec => []CleanCloseDelivers
BY PairSafe, PTL

\* At any time one of the endpoints at least is to linger after the streams have
\* finished: segment_received() never clears the flag on both sides.
THEOREM PairSomebodyLingers == Spec => []SomebodyLingers
BY PairSafe, PTL
=============================================================================
