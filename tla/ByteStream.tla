----------------------------- MODULE ByteStream -----------------------------
(***************************************************************************)
(* class ByteStream (libsponge/byte_stream.{hh,cc}): a bounded in-order    *)
(* stream of bytes between one writer and one reader.                      *)
(*                                                                         *)
(* The object is a record and every method an operator on it: a method     *)
(* that changes the object returns the new record.  The reassembler, the   *)
(* receiver and the sender hold ByteStreams as fields, so they call these  *)
(* operators exactly where the code calls the methods; the object on its   *)
(* own, with its callers, is the state machine of ByteStreamSpec.          *)
(***************************************************************************)
EXTENDS Naturals, Sequences

\* std::min on two sizes.
MinOf(a, b) == IF a <= b THEN a ELSE b

\* The constructor, with the member initialisers of the class.
NewByteStream(cap) ==
    [buf           |-> << >>,
     capacity      |-> cap,
     bytes_written |-> 0,
     bytes_read    |-> 0,
     input_ended   |-> FALSE,
     error         |-> FALSE]

buffer_size(s) == Len(s.buf)

buffer_empty(s) == s.buf = << >>

remaining_capacity(s) == s.capacity - Len(s.buf)

\* How many bytes write() accepts: none once the input has ended, otherwise
\* as many as fit.
write_size(s, data) ==
    IF s.input_ended THEN 0 ELSE MinOf(Len(data), remaining_capacity(s))

write(s, data) ==
    LET n == write_size(s, data)
    IN  [s EXCEPT !.buf = @ \o SubSeq(data, 1, n), !.bytes_written = @ + n]

peek_output(s, len) == SubSeq(s.buf, 1, MinOf(len, Len(s.buf)))

pop_output(s, len) ==
    LET n == MinOf(len, Len(s.buf))
    IN  [s EXCEPT !.buf = SubSeq(@, n + 1, Len(@)), !.bytes_read = @ + n]

\* read(len) peeks, then pops exactly what it peeked; len = 0 is an early
\* return that changes nothing.
read(s, len) == IF len = 0 THEN s ELSE pop_output(s, Len(peek_output(s, len)))

end_input(s) == [s EXCEPT !.input_ended = TRUE]

set_error(s) == [s EXCEPT !.error = TRUE]

\* Plausible bug: the end is reported with bytes still buffered.
eof_ignores_buffer(s) == s.input_ended

eof(s) == s.input_ended /\ buffer_empty(s)
=============================================================================
