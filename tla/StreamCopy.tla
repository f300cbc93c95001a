----------------------------- MODULE StreamCopy -----------------------------
(***************************************************************************)
(* bidirectional_stream_copy() (apps/bidirectional_stream_copy.cc): one    *)
(* thread copies standard input to a socket and the socket to standard     *)
(* output through two ByteStreams, by four rules of an EventLoop.          *)
(*                                                                         *)
(* Around it: somebody who types, a peer at the other end of the socket,   *)
(* and whoever takes the output.  A byte is its index in its stream.       *)
(***************************************************************************)
EXTENDS FileDescriptor

CONSTANTS
    MaxCopy,        \* max_copy_length
    BufferSize,     \* buffer_size
    KernelRoom,     \* bytes the kernel holds in one direction
    MaxTyped,       \* bound: bytes on standard input
    MaxSent         \* bound: bytes from the peer

BS == INSTANCE ByteStream

VARIABLES
    copy,   \* the program: its streams, flags, descriptors and their queues
    rules,  \* the rules not cancelled yet
    round,  \* what poll() has reported and is still to be gone through
    phase,  \* in "wait_next_event", in the middle of a "round", "returned" or "threw"
    world   \* how many bytes have been typed and sent; which have been taken and shown

vars == <<copy, rules, round, phase, world>>

STDIN_IN   == 1
SOCKET_OUT == 2
SOCKET_IN  == 3
STDOUT_OUT == 4
-----------------------------------------------------------------------------
fd(r) == CASE r = STDIN_IN -> "input" [] r = STDOUT_OUT -> "output" [] OTHER -> "socket"

CopyEof(s, r) == r \in {STDIN_IN, SOCKET_IN} /\ s[fd(r)].eof

CopyClosed(s, r) == s[fd(r)].closed

\* The stream a rule fills or empties: 1 and 2 share one, 3 and 4 the other.
stream(r) == IF r \in {STDIN_IN, SOCKET_OUT} THEN "outbound" ELSE "inbound"

shut(r) == IF r = SOCKET_OUT THEN "outbound_shutdown" ELSE "inbound_shutdown"

\* Plausible bug: an empty stream that has ended is not shut down.
CopyInterest_forgets_end(s, r) ==
    IF r \in {STDIN_IN, SOCKET_IN}
    THEN ~s.outbound.error /\ ~s.inbound.error /\ BS!remaining_capacity(s[stream(r)]) > 0
    ELSE ~BS!buffer_empty(s[stream(r)])

\* Plausible bug: input is read only when nothing waits to be shown.
CopyInterest_coupled(s, r) ==
    IF r \in {STDIN_IN, SOCKET_IN}
    THEN /\ BS!remaining_capacity(s[stream(r)]) > 0
         /\ r = STDIN_IN => BS!buffer_empty(s.inbound)
    ELSE ~BS!buffer_empty(s[stream(r)]) \/ (BS!eof(s[stream(r)]) /\ ~s[shut(r)])

CopyInterest(s, r) ==
    IF r \in {STDIN_IN, SOCKET_IN}
    THEN ~s.outbound.error /\ ~s.inbound.error /\ BS!remaining_capacity(s[stream(r)]) > 0
    ELSE ~BS!buffer_empty(s[stream(r)]) \/ (BS!eof(s[stream(r)]) /\ ~s[shut(r)])

CopyCancel(s, r) == [s EXCEPT ![stream(r)] = BS!end_input(@)]

queue(r) ==
    CASE r = STDIN_IN -> "stdin" [] r = SOCKET_OUT -> "tx" [] r = SOCKET_IN -> "rx"
      [] r = STDOUT_OUT -> "stdout"

\* Rules 1 and 3: from a descriptor into a stream.
fill(s, r) ==
    {[s |-> LET filled == BS!write(s[stream(r)], x.data)
            IN  [s EXCEPT ![fd(r)] = x.fd, ![queue(r)] = x.q,
                          ![stream(r)] = IF x.fd.eof THEN BS!end_input(filled) ELSE filled],
      serviced |-> TRUE, threw |-> x.threw] :
        x \in read(s[fd(r)], s[queue(r)], BS!remaining_capacity(s[stream(r)]))}

\* Plausible bug: the partial write is taken for a whole one.
drain_pops_all(s, r) ==
    {[s |-> LET drained == BS!pop_output(s[stream(r)], MaxCopy)
                done    == BS!eof(drained)
            IN  [s EXCEPT ![stream(r)] = drained, ![shut(r)] = @ \/ done,
                          ![queue(r)] = IF done THEN shutdown_write(x.q) ELSE x.q,
                          ![fd(r)] = IF done /\ r = STDOUT_OUT THEN close(x.fd) ELSE x.fd],
      serviced |-> TRUE, threw |-> x.threw] :
        x \in write(s[fd(r)], s[queue(r)], BS!peek_output(s[stream(r)], MaxCopy))}

\* Plausible bug: the end of the input is passed on before the last bytes.
drain_ends_early(s, r) ==
    {[s |-> LET drained == BS!pop_output(s[stream(r)], Len(x.data))
                done    == drained.input_ended
            IN  [s EXCEPT ![stream(r)] = drained, ![shut(r)] = @ \/ done,
                          ![queue(r)] = IF done THEN shutdown_write(x.q) ELSE x.q],
      serviced |-> TRUE, threw |-> x.threw] :
        x \in write(s[fd(r)], s[queue(r)], BS!peek_output(s[stream(r)], MaxCopy))}

\* Rules 2 and 4: from a stream into a descriptor, which is shut down or closed
\* after the last byte.
drain(s, r) ==
    {[s |-> LET drained == BS!pop_output(s[stream(r)], Len(x.data))
                done    == BS!eof(drained)
            IN  [s EXCEPT ![stream(r)] = drained, ![shut(r)] = @ \/ done,
                          ![queue(r)] = IF done THEN shutdown_write(x.q) ELSE x.q,
                          ![fd(r)] = IF done /\ r = STDOUT_OUT THEN close(x.fd) ELSE x.fd],
      serviced |-> TRUE, threw |-> x.threw] :
        x \in write(s[fd(r)], s[queue(r)], BS!peek_output(s[stream(r)], MaxCopy))}

CopyCallback(s, r) == IF r \in {STDIN_IN, SOCKET_IN} THEN fill(s, r) ELSE drain(s, r)

\* poll(2): a pipe whose writer has gone reports a hangup and, when empty,
\* nothing to read; a socket hangs up when both directions are shut down; a
\* reader that has gone is an error.
CopyRevents(s, r) ==
    LET q == s[queue(r)]
    IN  [ready |-> IF r = STDIN_IN /\ s.piped THEN q.buf # << >>
                   ELSE IF r \in {STDIN_IN, SOCKET_IN} THEN readable(q) ELSE writable(q),
         hup   |-> CASE r = STDIN_IN -> s.piped /\ q.ended
                     [] r = STDOUT_OUT -> FALSE
                     [] OTHER -> s.rx.ended /\ s.tx.ended,
         err   |-> (r = STDOUT_OUT /\ s.stdout.gone) \/ (fd(r) = "socket" /\ s.tx.gone)]

EL == INSTANCE EventLoop
    WITH Eof <- CopyEof, Closed <- CopyClosed, Interest <- CopyInterest,
         Cancel <- CopyCancel, Callback <- CopyCallback, Revents <- CopyRevents
-----------------------------------------------------------------------------
Init ==
    /\ \E piped \in BOOLEAN :
         copy = [input |-> NewFDWrapper, output |-> NewFDWrapper, socket |-> NewFDWrapper,
                 stdin |-> Queue(KernelRoom), stdout |-> Queue(KernelRoom),
                 rx |-> Queue(KernelRoom), tx |-> Queue(KernelRoom),
                 outbound |-> BS!NewByteStream(BufferSize),
                 inbound |-> BS!NewByteStream(BufferSize),
                 outbound_shutdown |-> FALSE, inbound_shutdown |-> FALSE,
                 piped |-> piped]
    /\ rules = <<STDIN_IN, SOCKET_OUT, SOCKET_IN, STDOUT_OUT>>
    /\ round = << >>
    /\ phase = "wait_next_event"
    /\ world = [stdin |-> 0, rx |-> 0, tx |-> << >>, stdout |-> << >>]

\* wait_next_event(-1) up to the return of poll(); with nothing left to poll the
\* function returns.
Poll ==
    /\ phase = "wait_next_event"
    /\ \E prepared \in {EL!prepare(copy, rules)} :
         /\ copy' = prepared.s
         /\ rules' = prepared.rules
         /\ IF EL!nothing_to_poll(prepared)
            THEN phase' = "returned" /\ UNCHANGED round
            ELSE phase' = "round" /\ round' = EL!Round(prepared) /\ round' # << >>
    /\ UNCHANGED world

\* The next rule that poll() has reported something about.
Dispatch ==
    /\ phase = "round"
    /\ \E d \in EL!dispatch(copy, Head(round)) :
         /\ copy' = d.out.s
         /\ rules' = IF d.stays THEN rules ELSE SelectSeq(rules, LAMBDA r : r # Head(round).rule)
         /\ round' = Tail(round)
         /\ phase' = IF d.out.threw THEN "threw"
                     ELSE IF Tail(round) = << >> THEN "wait_next_event" ELSE "round"
    /\ UNCHANGED world

\* Somebody types (stdin) or the peer sends (rx): the next byte, or the end.
Supply(q) ==
    /\ phase \in {"wait_next_event", "round"}
    /\ writable(copy[q]) /\ ~copy[q].ended /\ world[q] < (IF q = "stdin" THEN MaxTyped ELSE MaxSent)
    /\ copy' = [copy EXCEPT ![q].buf = Append(@, world[q])]
    /\ world' = [world EXCEPT ![q] = @ + 1]
    /\ UNCHANGED <<rules, round, phase>>

End(q) ==
    /\ phase \in {"wait_next_event", "round"}
    /\ ~copy[q].ended
    /\ copy' = [copy EXCEPT ![q] = shutdown_write(@)]
    /\ UNCHANGED <<rules, round, phase, world>>

\* The peer (tx) or whoever shows the output (stdout) takes a byte.
Take(q) ==
    /\ phase # "threw" /\ ~copy[q].gone /\ copy[q].buf # << >>
    /\ copy' = [copy EXCEPT ![q].buf = Tail(@)]
    /\ world' = [world EXCEPT ![q] = Append(@, Head(copy[q].buf))]
    /\ UNCHANGED <<rules, round, phase>>

\* The peer resets the connection (tx), or nobody is there to take the output.
Leave(q) ==
    /\ phase \in {"wait_next_event", "round"}
    /\ ~copy[q].gone
    /\ copy' = [copy EXCEPT ![q] = shutdown_read(@)]
    /\ UNCHANGED <<rules, round, phase, world>>

Next ==
    \/ Poll
    \/ Dispatch
    \/ \E q \in {"stdin", "rx"} : Supply(q) \/ End(q)
    \/ \E q \in {"tx", "stdout"} : Take(q) \/ Leave(q)

Spec == Init /\ [][Next]_vars

\* The program runs, and the peer takes what it is sent.  Nothing is assumed of
\* who types, of the peer's own stream, or of who shows the output.
Fairness == WF_vars(Poll) /\ WF_vars(Dispatch) /\ WF_vars(Take("tx"))

FairSpec == Spec /\ Fairness
-----------------------------------------------------------------------------
Intact == ~copy.tx.gone /\ ~copy.stdout.gone

FirstBytes(n) == [i \in 1 .. n |-> i - 1]

Outgoing == INSTANCE ReliableStream
    WITH sent <- FirstBytes(world.stdin), received <- world.tx,
         closed <- copy.stdin.ended, finished <- copy.tx.ended /\ copy.tx.buf = << >>

Incoming == INSTANCE ReliableStream
    WITH sent <- FirstBytes(world.rx), received <- world.stdout,
         closed <- copy.rx.ended, finished <- copy.stdout.ended /\ copy.stdout.buf = << >>

\* Both directions, from one kernel queue to the other through a rule, a
\* bounded stream and another rule, deliver in order and shut down only after
\* the last byte.
CopiesReliably == Outgoing!Spec /\ Incoming!Spec

\* The function returns ("loop until completion") only when both directions
\* are complete: nothing is left in a queue it reads or in a stream, and both
\* ends have been passed on.
ReturnsComplete ==
    phase = "returned" =>
        /\ \A q \in {"stdin", "rx"} : copy[q].ended /\ copy[q].buf = << >>
        /\ copy.outbound_shutdown /\ copy.inbound_shutdown

\* Unless the socket or the output fails, no system call does: what poll() has
\* reported still holds when its callback runs, whatever the callbacks before
\* it did.
ThrowsOnlyOnFailure == phase = "threw" => ~Intact

\* A direction does not wait for the other: when the input ends, the peer gets
\* all of it and its end, even if nobody ever takes the output.
InputReachesPeer ==
    (copy.stdin.ended /\ Intact) ~> (~Intact \/ (copy.tx.ended /\ world.tx = FirstBytes(world.stdin)))
=============================================================================
