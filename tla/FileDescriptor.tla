--------------------------- MODULE FileDescriptor ---------------------------
(***************************************************************************)
(* class FileDescriptor (libsponge/util/file_descriptor.{hh,cc}) and       *)
(* Socket::shutdown(), over a kernel queue of bytes in one direction.      *)
(*                                                                         *)
(* The queue is what poll(2), read(2) and writev(2) make of it: a bounded  *)
(* buffer, whether the writing end has finished and whether the reading    *)
(* end has gone.  A read may return less than there is, a write may take   *)
(* less than there is room for.  A system call that fails throws.          *)
(***************************************************************************)
EXTENDS Naturals, Sequences

LOCAL Least(a, b) == IF a <= b THEN a ELSE b

\* A kernel queue: a pipe, or one direction of a stream socket.
Queue(room) == [buf |-> << >>, room |-> room, ended |-> FALSE, gone |-> FALSE]

\* Data, or the end, can be read without blocking.
readable(q) == q.buf # << >> \/ q.ended

free(q) == q.room - Len(q.buf)

writable(q) == free(q) > 0

\* FDWrapper: the flags kept beside the descriptor's number.
NewFDWrapper == [eof |-> FALSE, closed |-> FALSE]

close(fd) == [fd EXCEPT !.eof = TRUE, !.closed = TRUE]

\* What a call can end in.
Result(fd, q, data) == [fd |-> fd, q |-> q, data |-> data, threw |-> FALSE]

Failed(fd, q) == [fd |-> fd, q |-> q, data |-> << >>, threw |-> TRUE]

\* Reading from a descriptor that does not block: nothing there is an error.
read(fd, q, limit) ==
    IF limit = 0 THEN {Result(fd, q, << >>)}
    ELSE IF q.buf # << >>
         THEN {Result(fd, [q EXCEPT !.buf = SubSeq(@, n + 1, Len(@))], SubSeq(q.buf, 1, n)) :
                   n \in 1 .. Least(limit, Len(q.buf))}
    ELSE IF q.ended THEN {Result([fd EXCEPT !.eof = TRUE], q, << >>)}
    ELSE {Failed(fd, q)}

\* One writev(2) (write_all is false at every call of the event loops); data
\* is what has been taken.  Writing nothing does not reach the socket; a queue
\* that has been shut down or is full is an error.
write(fd, q, buffer) ==
    IF buffer = << >> THEN {Result(fd, q, << >>)}
    ELSE IF q.ended \/ q.gone \/ free(q) = 0 THEN {Failed(fd, q)}
    ELSE {Result(fd, [q EXCEPT !.buf = @ \o SubSeq(buffer, 1, n)], SubSeq(buffer, 1, n)) :
              n \in 1 .. Least(free(q), Len(buffer))}

\* Socket::shutdown(SHUT_WR), seen in the queue that is written.
shutdown_write(q) == [q EXCEPT !.ended = TRUE]

\* Socket::shutdown(SHUT_RD), seen in the queue that is read: what has been
\* queued can still be read.
shutdown_read(q) == [q EXCEPT !.gone = TRUE]
=============================================================================
