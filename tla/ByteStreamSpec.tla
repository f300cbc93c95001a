--------------------------- MODULE ByteStreamSpec ---------------------------
(***************************************************************************)
(* One ByteStream with its writer and its reader calling the methods in    *)
(* any order.  accepted and delivered are history variables: what write()  *)
(* has taken and what the reader has taken out.                            *)
(***************************************************************************)
EXTENDS ByteStream

CONSTANTS
    Byte,       \* the byte values
    Capacity,   \* the capacity the stream is built with
    MaxWrite,   \* bound: bytes per call of write()
    MaxRead,    \* bound: length asked of pop_output() and read()
    MaxBytes    \* bound: bytes written over the stream's life

ASSUME ByteStreamAssumption ==
    /\ Capacity \in Nat
    /\ MaxWrite \in Nat
    /\ MaxRead \in Nat
    /\ MaxBytes \in Nat

VARIABLES stream, accepted, delivered

vars == <<stream, accepted, delivered>>

\* A call's argument: a string of at most n bytes.
Chunk(n) == UNION {[1 .. k -> Byte] : k \in 0 .. n}

Init ==
    /\ stream = NewByteStream(Capacity)
    /\ accepted = << >>
    /\ delivered = << >>

Write(data) ==
    /\ stream.bytes_written + Len(data) <= MaxBytes
    /\ stream' = write(stream, data)
    /\ accepted' = accepted \o SubSeq(data, 1, write_size(stream, data))
    /\ UNCHANGED delivered

\* pop_output() and read() differ in the early return of read(0).
PopOutput(len) ==
    /\ stream' = pop_output(stream, len)
    /\ delivered' = delivered \o peek_output(stream, len)
    /\ UNCHANGED accepted

Read(len) ==
    /\ stream' = read(stream, len)
    /\ delivered' = delivered \o peek_output(stream, len)
    /\ UNCHANGED accepted

EndInput ==
    /\ stream' = end_input(stream)
    /\ UNCHANGED <<accepted, delivered>>

SetError ==
    /\ stream' = set_error(stream)
    /\ UNCHANGED <<accepted, delivered>>

Next ==
    \/ \E data \in Chunk(MaxWrite) : Write(data)
    \/ \E len \in 0 .. MaxRead : PopOutput(len)
    \/ \E len \in 0 .. MaxRead : Read(len)
    \/ EndInput
    \/ SetError

Spec == Init /\ [][Next]_vars
-----------------------------------------------------------------------------
\* The members keep their types.
TypeOK ==
    /\ stream \in [buf : Seq(Byte), capacity : {Capacity},
                   bytes_written : Nat, bytes_read : Nat,
                   input_ended : BOOLEAN, error : BOOLEAN]
    /\ accepted \in Seq(Byte)
    /\ delivered \in Seq(Byte)

\* First in, first out: what has been taken out, followed by what is still
\* buffered, is what was accepted, whatever the order of writes and reads.
FifoOrder == delivered \o stream.buf = accepted

\* The buffer never outgrows the capacity, so remaining_capacity(), an
\* unsigned subtraction, cannot wrap; and the two running totals that the
\* reassembler and the receiver compute windows from agree with the buffer.
Accounting ==
    /\ Len(stream.buf) <= stream.capacity
    /\ stream.bytes_written = stream.bytes_read + Len(stream.buf)
    /\ stream.bytes_written = Len(accepted)

\* The stream keeps the contract of ReliableStream.
RS == INSTANCE ReliableStream
        WITH sent <- accepted, received <- delivered,
             closed <- stream.input_ended, finished <- eof(stream)

\* One process's ByteStream is a reliable stream: in-order prefix delivery,
\* and eof() only after end_input() with every accepted byte taken.
ImplementsReliableStream == RS!Spec
=============================================================================
