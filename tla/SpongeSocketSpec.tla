-------------------------- MODULE SpongeSocketSpec --------------------------
(***************************************************************************)
(* A TCPSpongeSocket at work: its owner's thread, its TCP thread, and a    *)
(* peer, another TCPConnection with an application of its own, over UDP.   *)
(*                                                                         *)
(* connect() and listen_and_accept() run the event loop in the owner's     *)
(* thread; they return after starting the TCP thread, which runs it from   *)
(* there on.  loop says who is in it, phase how far wait_next_event() and  *)
(* the rest of the body of _tcp_loop() have come.                          *)
(*                                                                         *)
(* Time passes when poll() has waited in vain, or has returned without     *)
(* anything to do, and the peer has got what was sent; the peer's clock is *)
(* slow.  Losses, reorderings and timers that fire early are the subject   *)
(* of TCPPair.                                                             *)
(***************************************************************************)
EXTENDS TCPSpongeSocket

CONSTANTS
    Isn, PeerIsn,       \* initial sequence numbers
    RtTimeout,          \* the initial retransmission timeout, in ticks
    Capacity,           \* capacity of all four streams
    Worlds              \* how the socket opens, what the peer is ("polite",
                        \* "absent" or "resets"), how much both have to say

VARIABLES
    s,      \* what the loop works on
    rules,  \* the rules not cancelled yet
    round,  \* what poll() has reported and is still to be gone through
    loop,   \* "none", "opening" in the owner's thread, "main", "ended", "threw"
    phase,  \* "poll" or "round"
    spins,  \* the last round held nothing to do
    owner,  \* the owner: its stage, bytes written and read, what it has closed
    peer,   \* the peer's TCPConnection, and the bytes its application has read
    world

vars == <<s, rules, round, loop, phase, spins, owner, peer, world>>

Here == "here"

There == "there"

Init ==
    /\ world \in Worlds
    /\ s = NewTCPSpongeSocket(NewTCPConnection(Capacity, Capacity, RtTimeout, Isn),
                              FA!NewAdapter(Here, There, world.listens))
    /\ rules = Rules
    /\ round = << >>
    /\ loop = "none"
    /\ phase = "poll"
    /\ spins = FALSE
    /\ owner = [stage |-> "new", wrote |-> 0, closed |-> FALSE, got |-> << >>,
                eof |-> "no", abort |-> FALSE]
    /\ peer = [conn |-> NewTCPConnection(Capacity, Capacity, RtTimeout, PeerIsn),
               got |-> << >>]

\* connect() and listen_and_accept() up to their loop.
Open ==
    /\ owner.stage = "new"
    /\ owner' = [owner EXCEPT !.stage = "opening"]
    /\ loop' = "opening"
    /\ s' = IF world.listens THEN s ELSE [s EXCEPT !.tcp = connect(@)]
    /\ UNCHANGED <<rules, round, phase, spins, peer, world>>

\* The loop of connect() or listen_and_accept() is over: the thread starts.
StartThread ==
    /\ loop' = "main"
    /\ phase' = "poll"
    /\ owner' = [owner EXCEPT !.stage = "using"]

\* ... or the one of _tcp_main() is, and so is the thread.
EndThread(final) ==
    /\ s' = finish(final)
    /\ loop' = "ended"
    /\ phase' = "poll"
    /\ UNCHANGED owner

LeaveLoop(final) ==
    IF loop = "opening" THEN StartThread /\ s' = final ELSE EndThread(final)

Running == loop \in {"opening", "main"}

Opened ==
    /\ loop = "opening" /\ phase = "poll" /\ ~opening(s, world.listens)
    /\ StartThread
    /\ UNCHANGED <<s, rules, round, spins, peer, world>>

\* Plausible bug: the connection is never told that time has passed.
AfterEvent_no_tick(now, elapsed) ==
    IF owner.abort THEN LeaveLoop(now)
    ELSE s' = now /\ phase' = "poll" /\ UNCHANGED <<loop, owner>>

\* Plausible bug: the flag that the destructor sets is not looked at.
AfterEvent_no_abort(now, elapsed) ==
    /\ s' = IF now.tcp.active THEN [now EXCEPT !.tcp = tick(@, elapsed)] ELSE now
    /\ phase' = "poll"
    /\ UNCHANGED <<loop, owner>>

\* The body of _tcp_loop() after wait_next_event(), which has taken elapsed.
AfterEvent(now, elapsed) ==
    IF owner.abort THEN LeaveLoop(now)
    ELSE /\ s' = IF now.tcp.active THEN [now EXCEPT !.tcp = tick(@, elapsed)] ELSE now
         /\ phase' = "poll"
         /\ UNCHANGED <<loop, owner>>

Idle(events) == \A i \in DOMAIN events : ~events[i].ready

\* wait_next_event(TCP_TICK_MS) up to the return of poll(), and to the end when
\* nothing happens in time.
Poll ==
    /\ Running /\ phase = "poll"
    /\ loop = "opening" => opening(s, world.listens)
    /\ \E prepared \in {EL!prepare(s, rules)} :
       \E events \in {EL!Round(prepared)} :
         /\ rules' = prepared.rules
         /\ IF EL!nothing_to_poll(prepared)
            THEN LeaveLoop(prepared.s) /\ UNCHANGED <<round, spins>>
            ELSE /\ round' = events
                 /\ spins' = (events # << >> /\ Idle(events))
                 /\ IF events = << >> THEN s.outbox = << >> /\ AfterEvent(prepared.s, 1)
                    ELSE s' = prepared.s /\ phase' = "round" /\ UNCHANGED <<loop, owner>>
    /\ UNCHANGED <<peer, world>>

\* The next rule that poll() has reported something about.
Dispatch ==
    /\ Running /\ phase = "round"
    /\ \E d \in EL!dispatch(s, Head(round)) :
         /\ rules' = IF d.stays THEN rules ELSE SelectSeq(rules, LAMBDA r : r # Head(round).rule)
         /\ round' = Tail(round)
         /\ IF d.out.threw
            THEN s' = d.out.s /\ loop' = "threw" /\ UNCHANGED <<phase, owner>>
            ELSE IF Tail(round) # << >>
            THEN s' = d.out.s /\ UNCHANGED <<loop, phase, owner>>
            ELSE AfterEvent(d.out.s, IF spins /\ s.outbox = << >> THEN 1 ELSE 0)
    /\ UNCHANGED <<spins, peer, world>>
-----------------------------------------------------------------------------
\* The owner.  What is written, read or received during a round could as well
\* have come before it; what is shut down could not.
OwnerStep ==
    /\ UNCHANGED <<rules, round, loop, phase, spins, peer, world>>

Using == owner.stage = "using"

OwnerWrite ==
    /\ phase = "poll" /\ Using /\ ~owner.closed /\ owner.wrote < world.owner_bytes
    /\ FD!writable(s.to_thread) /\ ~s.to_thread.ended
    /\ owner' = [owner EXCEPT !.wrote = @ + 1]
    /\ s' = [s EXCEPT !.to_thread.buf = Append(@, owner.wrote)]
    /\ OwnerStep

\* shutdown(SHUT_WR)
OwnerShutdown ==
    /\ Using /\ ~owner.closed
    /\ owner' = [owner EXCEPT !.closed = TRUE]
    /\ s' = [s EXCEPT !.to_thread = FD!shutdown_write(@)]
    /\ OwnerStep

\* A read() returns a byte, or that there are no more.
OwnerRead ==
    /\ phase = "poll" /\ Using /\ owner.eof = "no" /\ FD!readable(s.to_owner)
    /\ IF s.to_owner.buf # << >>
       THEN /\ owner' = [owner EXCEPT !.got = Append(@, Head(s.to_owner.buf))]
            /\ s' = [s EXCEPT !.to_owner.buf = Tail(@)]
       ELSE /\ owner' = [owner EXCEPT !.eof = IF inbound(s.tcp).error THEN "failed" ELSE "clean"]
            /\ UNCHANGED s
    /\ OwnerStep

\* wait_until_closed(), which "is only advisable if the socket has reached EOF".
WaitUntilClosed ==
    /\ Using /\ owner.eof # "no"
    /\ owner' = [owner EXCEPT !.stage = "waiting", !.closed = TRUE]
    /\ s' = shutdown_owner(s)
    /\ OwnerStep

\* ~TCPSpongeSocket() with the thread still joinable.
Destroy ==
    /\ Using
    /\ owner' = [owner EXCEPT !.stage = "destroying", !.abort = TRUE]
    /\ UNCHANGED s
    /\ OwnerStep

\* join() returns, in wait_until_closed() or in the destructor.
CanJoin == owner.stage \in {"waiting", "destroying"} /\ loop = "ended"

Join ==
    /\ CanJoin
    /\ owner' = [owner EXCEPT !.stage = "done"]
    /\ UNCHANGED s
    /\ OwnerStep
-----------------------------------------------------------------------------
\* The first n bytes of a stream; a byte is its index.
FirstBytes(n) == [i \in 1 .. n |-> i - 1]

\* The peer's connection becomes new and sends what it has queued.
PeerBecomes(new, rest, got) ==
    \E c \in {new} :
        /\ phase = "poll" /\ world.peer # "absent"
        /\ peer' = [conn |-> [c EXCEPT !.segments_out = << >>], got |-> got]
        /\ s' = [s EXCEPT !.outbox = rest,
                          !.inbox = @ \o [i \in DOMAIN c.segments_out |->
                              [source |-> There, parses |-> TRUE, seg |-> c.segments_out[i]]]]
        /\ UNCHANGED <<rules, round, loop, phase, spins, owner, world>>

PeerDoes(new) == Running /\ peer.conn.active /\ PeerBecomes(new, s.outbox, peer.got)

PeerReceive ==
    /\ s.outbox # << >>
    /\ PeerBecomes(IF peer.conn.active THEN segment_received(peer.conn, Head(s.outbox).seg)
                   ELSE peer.conn, Tail(s.outbox), peer.got)

PeerConnect ==
    /\ world.listens /\ ~peer.conn.sender.syn_sent
    /\ PeerDoes(connect(peer.conn))

PeerWriting ==
    /\ is(peer.conn, "ESTABLISHED") \/ is(peer.conn, "CLOSE_WAIT")
    /\ ~outbound(peer.conn).input_ended

\* All the peer's application has to say.
PeerWrite ==
    /\ PeerWriting /\ outbound(peer.conn).bytes_written = 0 /\ world.peer_bytes > 0
    /\ PeerDoes(write(peer.conn, FirstBytes(world.peer_bytes)))

PeerEnd == PeerWriting /\ PeerDoes(end_input_stream(peer.conn))

PeerRead ==
    /\ ~BS!buffer_empty(inbound(peer.conn))
    /\ PeerBecomes([peer.conn EXCEPT !.receiver.reassembler.output = BS!read(@, Capacity)],
                   s.outbox, peer.got \o inbound(peer.conn).buf)

PeerReset ==
    /\ world.peer = "resets" /\ peer.conn.sender.syn_sent
    /\ PeerDoes(destroy(peer.conn))

\* Nobody is at the other end: what is sent there is gone.
Vanish ==
    /\ world.peer = "absent" /\ s.outbox # << >> /\ phase = "poll"
    /\ s' = [s EXCEPT !.outbox = Tail(@)]
    /\ UNCHANGED <<rules, round, loop, phase, spins, owner, peer, world>>

Next ==
    \/ Open \/ Opened \/ Poll \/ Dispatch
    \/ OwnerWrite \/ OwnerShutdown \/ OwnerRead \/ WaitUntilClosed \/ Destroy \/ Join
    \/ PeerReceive \/ PeerConnect \/ PeerWrite \/ PeerEnd \/ PeerRead \/ PeerReset
    \/ Vanish

Spec == Init /\ [][Next]_vars

\* Both threads are scheduled, and the peer takes part: segments reach it and
\* its application reads.  Nothing is assumed of what the owner does with its
\* socket, nor that the peer's application writes or closes.
Fairness ==
    /\ WF_vars(Opened \/ Poll \/ Dispatch)
    /\ []<>~CanJoin
    /\ []<>(s.outbox = << >>)
    /\ []<>BS!buffer_empty(inbound(peer.conn))

FairSpec == Spec /\ Fairness
-----------------------------------------------------------------------------
ToPeer == INSTANCE ReliableStream
    WITH sent <- FirstBytes(owner.wrote), received <- peer.got, closed <- owner.closed,
         finished <- BS!eof(inbound(peer.conn))

ToOwner == INSTANCE ReliableStream
    WITH sent <- FirstBytes(outbound(peer.conn).bytes_written), received <- owner.got,
         closed <- outbound(peer.conn).input_ended, finished <- owner.eof = "clean"

\* From application to application, through the socket pair, the event loop, the
\* connection and the adapter, both directions are reliable streams; an owner
\* that reads an end without a failure has read everything.
SocketReliable == ToPeer!Spec /\ ToOwner!Spec

\* An owner who calls wait_until_closed() only after EOF never makes the TCP
\* thread fail: the stream takes what remaining_outbound_capacity() promised, a
\* socket that poll() found ready is still ready after the callbacks before it,
\* and nothing is written to an end that has been shut down.
NoThrow == loop # "threw"

\* connect() "blocks until connect succeeds or fails": it does return, also when
\* nobody answers or the answer is a reset.
ConnectReturns == (owner.stage = "opening" /\ ~world.listens) ~> owner.stage = "using"

\* When the peer's stream is over, cleanly or not, the owner is told, even if it
\* keeps its own direction open: its next read reaches the end.
OwnerTold ==
    (loop = "main" /\ (inbound(s.tcp).input_ended \/ inbound(s.tcp).error)) ~> s.to_owner.ended

\* Whoever joins the TCP thread gets it: the destructor always, and
\* wait_until_closed() after EOF.
JoinReturns == owner.stage \in {"waiting", "destroying"} ~> owner.stage = "done"

\* "When a connected socket is destructed, it will send a RST": when the thread
\* has ended because of the destructor, and both ends had been connected, the
\* peer has been or is being told.
DestructionSendsReset ==
    owner.stage = "done" /\ owner.abort /\ inbound(s.tcp).error =>
        inbound(peer.conn).error \/ \E i \in DOMAIN s.outbox : s.outbox[i].seg.rst
=============================================================================
