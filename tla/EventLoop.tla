----------------------------- MODULE EventLoop ------------------------------
(***************************************************************************)
(* class EventLoop (libsponge/util/eventloop.{hh,cc}).                     *)
(*                                                                         *)
(* A program gives its rules by operators on its own state s.  A rule is   *)
(* its number, rules is the list of those not yet cancelled, in order.     *)
(*                                                                         *)
(* wait_next_event() is cut where something else can get in between: after *)
(* poll() has returned, and after each callback.  What comes before poll() *)
(* only reads and changes what the calling thread owns, so prepare() is    *)
(* one step with poll().  A round is what poll() has returned and the      *)
(* rules still have to be gone through.                                    *)
(***************************************************************************)
EXTENDS Naturals, Sequences, Binding

CONSTANTS
    Eof(_, _),      \* Eof(s, r): r reads, and its fd has reached EOF
    Closed(_, _),   \* Closed(s, r): r's fd has been closed
    Interest(_, _), \* Interest(s, r)
    Cancel(_, _),   \* Cancel(s, r): the state after r's cancel()
    Callback(_, _), \* Callback(s, r): what the callback may do, a set of outcomes
    Revents(_, _)   \* Revents(s, r): what poll() reports of r's fd

\* What a callback leaves: the new state, whether the fd has been read or
\* written (in the rule's direction), whether an exception has left it.
Outcome(s, serviced) == [s |-> s, serviced |-> serviced, threw |-> FALSE]

Threw(s) == [s |-> s, serviced |-> FALSE, threw |-> TRUE]

\* One rule of the first loop: cancelled, asked for, or a placeholder.
visit(acc, r) ==
    IF Eof(acc.s, r) \/ Closed(acc.s, r)
    THEN [acc EXCEPT !.s = Cancel(acc.s, r)]
    ELSE [acc EXCEPT !.rules = Append(@, r),
                     !.asked = IF Interest(acc.s, r) THEN @ \union {r} ELSE @]

prepare(s, rules) ==
    LET upto[i \in 0 .. Len(rules)] ==
            IF i = 0 THEN [s |-> s, rules |-> << >>, asked |-> {}]
            ELSE With(upto[i - 1], LAMBDA acc : visit(acc, rules[i]))
    IN  upto[Len(rules)]

nothing_to_poll(prepared) == prepared.asked = {}

\* The results of poll() that say something, in the order of the rules: the
\* condition asked for, a hangup or an error, the last two also for a
\* placeholder.  Without any, poll() blocks.
Round(prepared) ==
    LET result(r) ==
            With(Revents(prepared.s, r), LAMBDA status :
                [rule |-> r, asked |-> r \in prepared.asked,
                 ready |-> status.ready /\ r \in prepared.asked,
                 hup |-> status.hup, err |-> status.err])
        results == [i \in DOMAIN prepared.rules |-> result(prepared.rules[i])]
    IN  SelectSeq(results, LAMBDA event : event.ready \/ event.hup \/ event.err)

\* One rule of the second loop: the outcomes, and whether the rule stays.
\* What was ready when poll() returned is not asked for again.
dispatch(s, event) ==
    IF event.err THEN {[out |-> Threw(s), stays |-> TRUE]}
    ELSE IF event.hup /\ event.asked /\ ~event.ready
         THEN {[out |-> Outcome(Cancel(s, event.rule), TRUE), stays |-> FALSE]}
    ELSE IF event.ready
         THEN {[out |-> IF ~o.threw /\ ~o.serviced /\ Interest(o.s, event.rule)
                        THEN Threw(o.s) ELSE o,
                stays |-> TRUE] : o \in Callback(s, event.rule)}
    ELSE {[out |-> Outcome(s, TRUE), stays |-> TRUE]}
=============================================================================
