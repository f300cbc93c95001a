--------------------------- MODULE EndpointProofs ---------------------------
(***************************************************************************)
(* Proofs about the two ends of a connection: the ByteStream through which *)
(* bytes enter and leave it, for every capacity, every set of bytes and    *)
(* every bound, and the adapters through which its segments do, for any    *)
(* callers and any addresses, as long as no two hosts share both ip and    *)
(* port.                                                                   *)
(*                                                                         *)
(* For the stream, TypeOK /\ FifoOrder /\ Accounting is inductive as it    *)
(* stands: write() is bounded by what Accounting leaves of the capacity,   *)
(* and the refinement reads "nothing buffered" as "everything delivered"   *)
(* through FifoOrder.  The adapters need an invariant of their own.        *)
(***************************************************************************)
EXTENDS ByteStreamSpec, AdapterSpec, SequenceTheorems, TLAPS

IInv == TypeOK /\ FifoOrder /\ Accounting

\* The smaller of two sizes is one of them and exceeds neither.
LEMMA MinOfBounds ==
    ASSUME NEW a \in Nat, NEW b \in Nat
    PROVE  MinOf(a, b) \in Nat /\ MinOf(a, b) <= a /\ MinOf(a, b) <= b
BY DEF MinOf

\* A sequence cut in two at any point is the concatenation of its parts.
LEMMA CutAnywhere ==
    ASSUME NEW S, NEW s \in Seq(S), NEW n \in 0 .. Len(s)
    PROVE  /\ SubSeq(s, 1, n) \in Seq(S) /\ Len(SubSeq(s, 1, n)) = n
           /\ SubSeq(s, n + 1, Len(s)) \in Seq(S)
           /\ Len(SubSeq(s, n + 1, Len(s))) = Len(s) - n
           /\ SubSeq(s, 1, n) \o SubSeq(s, n + 1, Len(s)) = s
<1>1. Len(s) \in Nat /\ \A i \in 1 .. Len(s) : s[i] \in S
  BY LenProperties, ElementOfSeq
<1>2. SubSeq(s, 1, n) \in Seq(S) /\ Len(SubSeq(s, 1, n)) = n
  BY <1>1, SubSeqProperties
<1>3. /\ SubSeq(s, n + 1, Len(s)) \in Seq(S)
      /\ Len(SubSeq(s, n + 1, Len(s))) = Len(s) - n
  BY <1>1, SubSeqProperties
<1>4. SubSeq(s, 1, n) \o SubSeq(s, n + 1, Len(s)) = SubSeq(s, 1, Len(s))
  <2>1. 1 \in 1 .. Len(s) + 1 /\ n \in 1 - 1 .. Len(s) /\ Len(s) \in n .. Len(s)
    BY <1>1
  <2> QED
    BY <2>1, ConcatAdjacentSubSeq, ZenonT(60)
<1> QED
  BY <1>2, <1>3, <1>4, SubSeqFull, ZenonT(60)

\* Moving the front of one sequence to the back of another keeps their
\* concatenation.
LEMMA MoveFront ==
    ASSUME NEW S, NEW h \in Seq(S), NEW s \in Seq(S), NEW n \in 0 .. Len(s)
    PROVE  /\ h \o SubSeq(s, 1, n) \in Seq(S)
           /\ (h \o SubSeq(s, 1, n)) \o SubSeq(s, n + 1, Len(s)) = h \o s
<1>1. \A a, b \in Seq(S) : (h \o a) \o b = h \o (a \o b)
  BY ConcatAssociative, SMTT(30)
<1>2. \A a \in Seq(S) : h \o a \in Seq(S)
  BY ConcatProperties
<1> DEFINE front == SubSeq(s, 1, n)
           rest  == SubSeq(s, n + 1, Len(s))
<1>3. front \in Seq(S) /\ rest \in Seq(S) /\ front \o rest = s
  BY CutAnywhere, ZenonT(60)
<1> HIDE DEF front, rest
<1>4. h \o front \in Seq(S) /\ (h \o front) \o rest = h \o s
  BY <1>1, <1>2, <1>3, ZenonT(60)
<1> QED
  BY <1>4, ZenonT(60) DEF front, rest

\* A call's argument is a sequence of bytes.
LEMMA ChunkIsSeq == ASSUME NEW data \in Chunk(MaxWrite) PROVE data \in Seq(Byte)
<1>1. PICK k \in 0 .. MaxWrite : data \in [1 .. k -> Byte]
  BY DEF Chunk
<1> QED
  BY <1>1, ByteStreamAssumption, SeqDef DEF ByteStreamAssumption

\* write() accepts at most what is offered and at most what fits.
LEMMA WriteSizeBounds ==
    ASSUME IInv, NEW data \in Seq(Byte)
    PROVE  /\ write_size(stream, data) \in 0 .. Len(data)
           /\ Len(stream.buf) + write_size(stream, data) <= stream.capacity
<1>1. Len(data) \in Nat /\ Len(stream.buf) \in Nat
  BY LenProperties DEF IInv, TypeOK
<1>2. remaining_capacity(stream) \in Nat
  BY <1>1, ByteStreamAssumption
  DEF remaining_capacity, IInv, TypeOK, Accounting, ByteStreamAssumption
<1>3. stream.capacity \in Nat /\ Len(stream.buf) <= stream.capacity
  BY ByteStreamAssumption DEF IInv, TypeOK, Accounting, ByteStreamAssumption
<1>4. CASE stream.input_ended
  BY <1>1, <1>3, <1>4 DEF write_size
<1>5. CASE ~stream.input_ended
  <2>1. write_size(stream, data) = MinOf(Len(data), remaining_capacity(stream))
    BY <1>5 DEF write_size
  <2>2. /\ write_size(stream, data) \in Nat
        /\ write_size(stream, data) <= Len(data)
        /\ write_size(stream, data) <= remaining_capacity(stream)
    BY <1>1, <1>2, <2>1, MinOfBounds
  <2> QED
    BY <1>1, <1>3, <2>2 DEF remaining_capacity
<1> QED
  BY <1>4, <1>5

\* The initial stream is empty, and so are both histories.
LEMMA InitIInv == Init => IInv
<1> SUFFICES ASSUME Init PROVE IInv
  OBVIOUS
<1>1. << >> \in Seq(Byte) /\ Len(<< >>) = 0 /\ << >> \o << >> = << >>
  BY EmptySeq, ConcatEmptySeq
<1> QED
  BY <1>1, ByteStreamAssumption
  DEF Init, NewByteStream, IInv, TypeOK, FifoOrder, Accounting, ByteStreamAssumption

\* What a write adds to the buffer it adds to the accepted bytes.
LEMMA WriteIInv ==
    ASSUME IInv, NEW data \in Chunk(MaxWrite), Write(data)
    PROVE  IInv'
<1> DEFINE n == write_size(stream, data)
           taken == SubSeq(data, 1, n)
<1>1. data \in Seq(Byte)
  BY ChunkIsSeq
<1>2. n \in 0 .. Len(data) /\ Len(stream.buf) + n <= stream.capacity
  BY <1>1, WriteSizeBounds
<1>3. taken \in Seq(Byte) /\ Len(taken) = n
  BY <1>1, <1>2, CutAnywhere
<1>4. /\ stream' = [stream EXCEPT !.buf = @ \o taken, !.bytes_written = @ + n]
      /\ accepted' = accepted \o taken
      /\ delivered' = delivered
  BY DEF Write, write
<1> HIDE DEF n, taken
<1>5. /\ stream.buf \o taken \in Seq(Byte) /\ accepted \o taken \in Seq(Byte)
      /\ Len(stream.buf \o taken) = Len(stream.buf) + n
      /\ Len(accepted \o taken) = Len(accepted) + n
  BY <1>3, ConcatProperties, ZenonT(60) DEF IInv, TypeOK
<1>6. n \in Nat /\ Len(stream.buf) \in Nat
  BY <1>2, LenProperties DEF IInv, TypeOK
<1>7. stream.bytes_written + n \in Nat
  BY <1>6 DEF IInv, TypeOK
<1>8. TypeOK'
  BY <1>4, <1>5, <1>7, ZenonT(60) DEF IInv, TypeOK
<1>9. FifoOrder'
  <2>1. (delivered \o stream.buf) \o taken = delivered \o (stream.buf \o taken)
    BY <1>3, ConcatAssociative, SMTT(90) DEF IInv, TypeOK
  <2> QED
    BY <1>4, <2>1, ZenonT(60) DEF IInv, TypeOK, FifoOrder
<1>10. Accounting'
  BY <1>2, <1>4, <1>5, <1>6, SMTT(90) DEF IInv, TypeOK, Accounting
<1> QED
  BY <1>8, <1>9, <1>10 DEF IInv

\* pop_output() and read() take the same bytes: as many as were asked for and
\* are there, off the front.
LEMMA TakeEffect ==
    ASSUME IInv, NEW len \in 0 .. MaxRead, PopOutput(len) \/ Read(len)
    PROVE  \E n \in 0 .. Len(stream.buf) :
              /\ stream' = [stream EXCEPT !.buf = SubSeq(@, n + 1, Len(@)),
                                         !.bytes_read = @ + n]
              /\ delivered' = delivered \o SubSeq(stream.buf, 1, n)
              /\ accepted' = accepted
<1> DEFINE n == MinOf(len, Len(stream.buf))
<1>1. stream.buf \in Seq(Byte) /\ Len(stream.buf) \in Nat /\ len \in Nat
  BY LenProperties, ByteStreamAssumption DEF IInv, TypeOK, ByteStreamAssumption
<1>2. n \in 0 .. Len(stream.buf)
  BY <1>1 DEF MinOf
<1>3. PopOutput(len) =>
        /\ stream' = [stream EXCEPT !.buf = SubSeq(@, n + 1, Len(@)),
                                   !.bytes_read = @ + n]
        /\ delivered' = delivered \o SubSeq(stream.buf, 1, n)
        /\ accepted' = accepted
  BY DEF PopOutput, pop_output, peek_output
<1>4. Read(len) =>
        /\ stream' = [stream EXCEPT !.buf = SubSeq(@, n + 1, Len(@)),
                                   !.bytes_read = @ + n]
        /\ delivered' = delivered \o SubSeq(stream.buf, 1, n)
        /\ accepted' = accepted
  <2> SUFFICES ASSUME Read(len)
               PROVE  stream' = [stream EXCEPT !.buf = SubSeq(@, n + 1, Len(@)),
                                               !.bytes_read = @ + n]
    BY DEF Read, peek_output
  <2>1. CASE len = 0
    <3>1. n = 0 /\ n + 1 = 1
      BY <1>1, <2>1 DEF MinOf
    <3>2. SubSeq(stream.buf, 1, Len(stream.buf)) = stream.buf
      BY <1>1, SubSeqFull
    <3>3. stream.bytes_read + n = stream.bytes_read
      BY <3>1 DEF IInv, TypeOK
    <3>4. stream = [stream EXCEPT !.buf = stream.buf, !.bytes_read = stream.bytes_read]
      BY ZenonT(60) DEF IInv, TypeOK
    <3> QED
      BY <2>1, <3>1, <3>2, <3>3, <3>4, ZenonT(60) DEF Read, read
  <2>2. CASE len # 0
    <3>1. Len(peek_output(stream, len)) = n
      BY <1>1, <1>2, CutAnywhere DEF peek_output
    <3>2. MinOf(n, Len(stream.buf)) = n
      BY <1>1, <1>2 DEF MinOf
    <3> QED
      BY <2>2, <3>1, <3>2 DEF Read, read, pop_output
  <2> QED
    BY <2>1, <2>2
<1> QED
  BY <1>2, <1>3, <1>4, ZenonT(60)

\* What leaves the front of the buffer is added to the delivered bytes.
LEMMA TakeIInv ==
    ASSUME IInv, NEW len \in 0 .. MaxRead, PopOutput(len) \/ Read(len)
    PROVE  IInv'
<1>1. PICK n \in 0 .. Len(stream.buf) :
        /\ stream' = [stream EXCEPT !.buf = SubSeq(@, n + 1, Len(@)),
                                   !.bytes_read = @ + n]
        /\ delivered' = delivered \o SubSeq(stream.buf, 1, n)
        /\ accepted' = accepted
  BY TakeEffect, ZenonT(60)
<1>2. /\ stream'.buf = SubSeq(stream.buf, n + 1, Len(stream.buf))
      /\ stream'.capacity = stream.capacity
      /\ stream'.bytes_read = stream.bytes_read + n
      /\ stream'.bytes_written = stream.bytes_written
  BY <1>1, ZenonT(60) DEF IInv, TypeOK
<1>3. stream'.buf \in Seq(Byte) /\ Len(stream'.buf) = Len(stream.buf) - n
  BY <1>2, CutAnywhere, SMTT(90) DEF IInv, TypeOK
<1>4. delivered' \in Seq(Byte) /\ delivered' \o stream'.buf = delivered \o stream.buf
  <2>1. stream.buf \in Seq(Byte) /\ delivered \in Seq(Byte)
    BY DEF IInv, TypeOK
  <2>2. /\ delivered \o SubSeq(stream.buf, 1, n) \in Seq(Byte)
        /\ (delivered \o SubSeq(stream.buf, 1, n))
              \o SubSeq(stream.buf, n + 1, Len(stream.buf)) = delivered \o stream.buf
    BY <2>1, MoveFront, ZenonT(90)
  <2> QED
    BY <1>1, <1>2, <2>2, ZenonT(60)
<1>5. /\ Len(stream.buf) \in Nat /\ n \in Nat /\ stream.capacity \in Nat
      /\ stream.bytes_read \in Nat
  BY LenProperties, ByteStreamAssumption DEF IInv, TypeOK, ByteStreamAssumption
<1>6. TypeOK'
  <2>1. stream.bytes_read + n \in Nat
    BY <1>5
  <2> QED
    BY <1>1, <1>2, <1>3, <1>4, <2>1, ZenonT(60) DEF IInv, TypeOK
<1>7. FifoOrder'
  BY <1>1, <1>4, ZenonT(60) DEF IInv, FifoOrder
<1>8. Accounting'
  <2>1. /\ Len(stream.buf) - n <= stream.capacity
        /\ stream.bytes_written = (stream.bytes_read + n) + (Len(stream.buf) - n)
        /\ stream.bytes_written = Len(accepted)
    BY <1>5, SMTT(90) DEF IInv, Accounting
  <2> QED
    BY <1>1, <1>2, <1>3, <2>1 DEF Accounting
<1> QED
  BY <1>6, <1>7, <1>8, SMTT(60) DEF IInv

\* end_input() and set_error() touch only their flag.
LEMMA FlagIInv == ASSUME IInv, EndInput \/ SetError PROVE IInv'
<1>1. /\ stream'.buf = stream.buf /\ stream'.capacity = stream.capacity
      /\ stream'.bytes_written = stream.bytes_written
      /\ stream'.bytes_read = stream.bytes_read
      /\ accepted' = accepted /\ delivered' = delivered
  BY DEF EndInput, end_input, SetError, set_error, IInv, TypeOK
<1>2. TypeOK'
  BY ZenonT(60) DEF EndInput, end_input, SetError, set_error, IInv, TypeOK
<1> QED
  BY <1>1, <1>2 DEF IInv, FifoOrder, Accounting

\* Every call preserves the inductive invariant.
LEMMA NextIInv == IInv /\ [Next]_vars => IInv'
<1> SUFFICES ASSUME IInv, [Next]_vars PROVE IInv'
  OBVIOUS
<1>1. ASSUME NEW data \in Chunk(MaxWrite), Write(data) PROVE IInv'
  BY <1>1, WriteIInv
<1>2. ASSUME NEW len \in 0 .. MaxRead, PopOutput(len) \/ Read(len) PROVE IInv'
  BY <1>2, TakeIInv
<1>3. CASE EndInput \/ SetError
  BY <1>3, FlagIInv
<1>4. CASE UNCHANGED vars
  BY <1>4 DEF vars, IInv, TypeOK, FifoOrder, Accounting
<1> QED
  BY <1>1, <1>2, <1>3, <1>4 DEF Next

\* The members keep their types under every sequence of calls.
THEOREM StreamTyped == Spec => []TypeOK
<1>1. IInv => TypeOK
  BY DEF IInv
<1> QED
  BY InitIInv, NextIInv, <1>1, PTL DEF Spec

\* Whatever the writer and the reader call, bytes come out in the order they
\* were accepted, each once.
THEOREM StreamIsFifo == Spec => []FifoOrder
<1>1. IInv => FifoOrder
  BY DEF IInv
<1> QED
  BY InitIInv, NextIInv, <1>1, PTL DEF Spec

\* The buffer stays within the capacity and the running totals are exact, so
\* the unsigned remaining_capacity() never wraps.
THEOREM StreamAccounts == Spec => []Accounting
<1>1. IInv => Accounting
  BY DEF IInv
<1> QED
  BY InitIInv, NextIInv, <1>1, PTL DEF Spec
-----------------------------------------------------------------------------
\* A sequence is a prefix of any sequence it starts.
LEMMA PrefixOfConcat ==
    ASSUME NEW S, NEW s \in Seq(S), NEW t \in Seq(S)
    PROVE  RS!PrefixOf(s, s \o t)
<1>1. /\ s \o t \in Seq(S) /\ Len(s) \in Nat /\ Len(t) \in Nat
      /\ Len(s \o t) = Len(s) + Len(t)
      /\ \A i \in 1 .. Len(s) : (s \o t)[i] = s[i]
  BY ConcatProperties, LenProperties
<1>2. Len(s) \in 0 .. Len(s \o t)
  BY <1>1
<1>3. /\ SubSeq(s \o t, 1, Len(s)) \in Seq(S)
      /\ Len(SubSeq(s \o t, 1, Len(s))) = Len(s)
  BY <1>1, <1>2, CutAnywhere
<1>4. \A i \in 1 .. Len(s) : SubSeq(s \o t, 1, Len(s))[i] = s[i]
  <2>1. \A i \in 1 .. Len(s) : (s \o t)[i] \in S
    BY <1>1, ElementOfSeq
  <2> QED
    BY <1>1, <2>1, SubSeqProperties
<1>5. SubSeq(s \o t, 1, Len(s)) = s
  BY <1>3, <1>4, SeqEqual
<1> QED
  BY <1>1, <1>5 DEF RS!PrefixOf

\* Everything accepted has been delivered exactly when nothing is buffered.
LEMMA DeliveredAll == ASSUME IInv PROVE delivered = accepted <=> stream.buf = << >>
<1>1. delivered \in Seq(Byte) /\ stream.buf \in Seq(Byte)
  BY DEF IInv, TypeOK
<1>2. delivered \o stream.buf = delivered <=> stream.buf = << >>
  BY <1>1, ConcatEqualIffEmpty
<1> QED
  BY <1>2 DEF IInv, FifoOrder

\* A write sends, or changes nothing when the input has ended.
LEMMA WriteSends ==
    ASSUME IInv, NEW data \in Chunk(MaxWrite), Write(data)
    PROVE  [RS!Next]_RS!rsVars
<1>1. data \in Seq(Byte)
  BY ChunkIsSeq
<1>2. /\ delivered' = delivered /\ stream'.input_ended = stream.input_ended
      /\ accepted' = accepted \o SubSeq(data, 1, write_size(stream, data))
      /\ stream'.buf = stream.buf \o SubSeq(data, 1, write_size(stream, data))
  BY ZenonT(60) DEF Write, write, IInv, TypeOK
<1>3. CASE stream.input_ended
  <2>1. SubSeq(data, 1, write_size(stream, data)) = << >>
    BY <1>3, SubSeqEmpty DEF write_size
  <2>2. accepted' = accepted /\ stream'.buf = stream.buf
    BY <1>2, <2>1, ConcatEmptySeq, ZenonT(60) DEF IInv, TypeOK
  <2> QED
    BY <1>2, <2>2, ZenonT(60) DEF RS!rsVars, eof, buffer_empty
<1>4. CASE ~stream.input_ended
  <2>1. SubSeq(data, 1, write_size(stream, data)) \in Seq(Byte)
    BY <1>1, WriteSizeBounds, CutAnywhere
  <2>2. RS!PrefixOf(accepted, accepted')
    BY <1>2, <2>1, PrefixOfConcat, ZenonT(60) DEF IInv, TypeOK
  <2>3. eof(stream)' = eof(stream)
    BY <1>2, <1>4 DEF eof
  <2> QED
    BY <1>2, <1>4, <2>2, <2>3 DEF RS!Next, RS!Send
<1> QED
  BY <1>3, <1>4

\* Taking bytes out receives them, and tells of the end with the last one.
LEMMA TakeReceives ==
    ASSUME IInv, IInv', NEW len \in 0 .. MaxRead, PopOutput(len) \/ Read(len)
    PROVE  RS!Receive
<1>1. PICK n \in 0 .. Len(stream.buf) :
        /\ stream' = [stream EXCEPT !.buf = SubSeq(@, n + 1, Len(@)),
                                   !.bytes_read = @ + n]
        /\ delivered' = delivered \o SubSeq(stream.buf, 1, n)
        /\ accepted' = accepted
  BY TakeEffect, ZenonT(60)
<1>2. SubSeq(stream.buf, 1, n) \in Seq(Byte)
  BY CutAnywhere DEF IInv, TypeOK
<1>3. RS!PrefixOf(delivered, delivered')
  BY <1>1, <1>2, PrefixOfConcat, ZenonT(60) DEF IInv, TypeOK
<1>4. RS!PrefixOf(delivered', accepted)
  <2>1. delivered' \in Seq(Byte) /\ stream'.buf \in Seq(Byte)
    BY DEF IInv, TypeOK
  <2>2. RS!PrefixOf(delivered', delivered' \o stream'.buf)
    BY <2>1, PrefixOfConcat
  <2> QED
    BY <1>1, <2>2 DEF IInv, FifoOrder
<1>5. stream'.input_ended = stream.input_ended
  BY <1>1 DEF IInv, TypeOK
<1>6. delivered' = accepted' <=> stream'.buf = << >>
  <2>1. delivered' \in Seq(Byte) /\ stream'.buf \in Seq(Byte)
    BY DEF IInv, TypeOK
  <2>2. delivered' \o stream'.buf = delivered' <=> stream'.buf = << >>
    BY <2>1, ConcatEqualIffEmpty
  <2> QED
    BY <2>2 DEF IInv, FifoOrder
<1> QED
  BY <1>1, <1>3, <1>4, <1>5, <1>6, SMTT(60) DEF RS!Receive, RS!Tell, eof, buffer_empty

\* Ending the input closes, and tells of the end if everything was delivered.
LEMMA EndCloses == ASSUME IInv, EndInput PROVE RS!Close
<1>1. /\ stream'.input_ended = TRUE /\ stream'.buf = stream.buf
      /\ accepted' = accepted /\ delivered' = delivered
  BY DEF EndInput, end_input, IInv, TypeOK
<1> QED
  BY <1>1, DeliveredAll DEF RS!Close, RS!Tell, eof, buffer_empty

\* Under the mapping of ByteStreamSpec (sent is what write() took, received
\* what the reader took, finished is eof()), every call is a step of
\* ReliableStream or changes nothing it can see.
THEOREM StreamImplementsReliableStream == Spec => ImplementsReliableStream
<1>1. Init => RS!Init
  BY DEF Init, NewByteStream, RS!Init, eof
<1>2. ASSUME IInv, IInv', [Next]_vars PROVE [RS!Next]_RS!rsVars
  <2>1. ASSUME NEW data \in Chunk(MaxWrite), Write(data) PROVE [RS!Next]_RS!rsVars
    BY <1>2, <2>1, WriteSends
  <2>2. ASSUME NEW len \in 0 .. MaxRead, PopOutput(len) \/ Read(len)
        PROVE  [RS!Next]_RS!rsVars
    BY <1>2, <2>2, TakeReceives DEF RS!Next
  <2>3. CASE EndInput
    BY <1>2, <2>3, EndCloses DEF RS!Next
  <2>4. CASE SetError
    <3>1. /\ stream'.input_ended = stream.input_ended /\ stream'.buf = stream.buf
          /\ accepted' = accepted /\ delivered' = delivered
      BY <1>2, <2>4 DEF SetError, set_error, IInv, TypeOK
    <3> QED
      BY <3>1 DEF RS!rsVars, eof, buffer_empty
  <2>5. CASE UNCHANGED vars
    BY <2>5 DEF vars, RS!rsVars, eof, buffer_empty
  <2> QED
    BY <1>2, <2>1, <2>2, <2>3, <2>4, <2>5 DEF Next
<1> QED
  BY <1>1, <1>2, InitIInv, NextIInv, PTL DEF Spec, ImplementsReliableStream, RS!Spec
-----------------------------------------------------------------------------
\* Where a datagram says it comes from.
Origin(d) == IF kind = "udp" THEN d.source ELSE [ip |-> d.src, port |-> d.sport]

\* The server's adapter before and after it has settled on a caller.
Waiting == NewAdapter(IF kind = "ip" THEN Anywhere ELSE Home[Server], Anywhere, TRUE)

Settled(h) == NewAdapter(Home[Server], Home[h], FALSE)

\* The adapters of the callers never change.
CallersKeep ==
    \A h \in Callers : adapter[h] = NewAdapter(Home[h], Home[Server], FALSE)

\* The server's adapter is as it was made and has handed nothing up, or it has
\* settled on a caller for good and has handed up only what that one wrote.
ServerSettles ==
    \/ adapter[Server] = Waiting /\ heard[Server] = {}
    \/ \E h \in Callers : adapter[Server] = Settled(h) /\ heard[Server] \subseteq {h}

\* What is on the way says truly who wrote it, and a listening server has not
\* written anything.
OriginsTrue ==
    \A d \in net :
        /\ d.seg.from \in Host
        /\ Origin(d) = Home[d.seg.from]
        /\ adapter[Server].listening => d.seg.from \in Callers

\* The inductive invariant.
AdapterIInv ==
    /\ kind \in {"udp", "ip"}
    /\ adapter = [h \in Host |-> adapter[h]]
    /\ heard = [h \in Host |-> heard[h]]
    /\ CallersKeep
    /\ ServerSettles
    /\ OriginsTrue
    /\ \A h \in Callers : heard[h] \subseteq {Server}
-----------------------------------------------------------------------------
\* What a host writes carries its own address, over UDP and over IPv4.
LEMMA WriteIsTrue ==
    ASSUME AdapterIInv, NEW h \in Host, ~adapter[h].listening, NEW seg
    PROVE  /\ Origin(adapter_write(adapter[h], seg)) = Home[h]
           /\ adapter_write(adapter[h], seg).seg = seg
<1>1. Home[h] = [ip |-> Home[h].ip, port |-> Home[h].port]
  BY HostsAssumption
<1>2. adapter[h].source = Home[h]
  BY HostsAssumption
  DEF AdapterIInv, CallersKeep, ServerSettles, Waiting, Settled, NewAdapter, Host
<1> QED
  BY <1>1, <1>2 DEF Origin, adapter_write, udp_write, wrap_tcp_in_ip

\* read() leaves an adapter that does not listen as it is and lets through only
\* what comes from its destination.
LEMMA ReadConnected ==
    ASSUME NEW STATE a, ~a.listening, NEW d
    PROVE  /\ adapter_read(a, d).adapter = a
           /\ \/ adapter_read(a, d).segs = {}
              \/ /\ adapter_read(a, d).segs = {d.seg}
                 /\ kind = "udp" => d.source = a.destination
                 /\ kind # "udp" => d.src = a.destination.ip /\ d.sport = a.destination.port
  BY DEF adapter_read, udp_read, unwrap_tcp_in_ip, ReadResult

\* read() of the listening server lets nothing through and goes on listening,
\* or lets through what has come and settles on where it came from.
LEMMA ReadListening ==
    ASSUME NEW d, Gets(Server, d)
    PROVE  \/ adapter_read(Waiting, d) = ReadResult(Waiting, {})
           \/ adapter_read(Waiting, d) = ReadResult(NewAdapter(Home[Server], Origin(d), FALSE), {d.seg})
<1>1. Home[Server] = [ip |-> Home[Server].ip, port |-> Home[Server].port]
  BY HostsAssumption, ZenonT(60) DEF Host
<1>2. CASE kind = "udp"
  <2>1. Waiting.listening /\ Waiting.source = Home[Server]
    BY <1>2 DEF Waiting, NewAdapter
  <2> QED
    BY <1>2, <2>1, ZenonT(60) DEF adapter_read, udp_read, latch, Origin
<1>3. CASE kind # "udp"
  <2>1. d.dst = Home[Server].ip
    BY <1>3 DEF Gets
  <2>2. Waiting.listening
    BY DEF Waiting, NewAdapter
  <2>3. Waiting.source.port = Home[Server].port
    BY DEF Waiting, NewAdapter, Anywhere
  <2>4. [ip |-> d.dst, port |-> Waiting.source.port] = Home[Server]
    BY <1>1, <2>1, <2>3
  <2> QED
    BY <1>3, <2>2, <2>4, ZenonT(60) DEF adapter_read, unwrap_tcp_in_ip, latch, Origin
<1> QED
  BY <1>2, <1>3, ZenonT(60)
-----------------------------------------------------------------------------
\* A connection that writes, whether LossyFdAdapter drops it or not, adds to
\* what is on the way nothing that is not its own.
LEMMA WriteKeeps ==
    ASSUME AdapterIInv, NEW h \in Host, NEW seg \in Segment, NEW drop \in BOOLEAN,
           WriteNext(h, seg, drop)
    PROVE  AdapterIInv'
<1>1. seg.from = h /\ ~adapter[h].listening /\ UNCHANGED <<kind, adapter, heard>>
  BY DEF WriteNext
<1>2. net' \subseteq net \union {adapter_write(adapter[h], seg)}
  BY DEF WriteNext, lossy_write
<1>3. Origin(adapter_write(adapter[h], seg)) = Home[h] /\ adapter_write(adapter[h], seg).seg = seg
  BY <1>1, WriteIsTrue
<1>4. adapter[Server].listening => h \in Callers
  BY <1>1 DEF Host
<1>5. OriginsTrue'
  BY <1>1, <1>2, <1>3, <1>4, ZenonT(60) DEF AdapterIInv, OriginsTrue, Origin
<1> QED
  BY <1>1, <1>5, ZenonT(60) DEF AdapterIInv, CallersKeep, ServerSettles, Waiting, Settled

\* Nor does what comes broken, or in another protocol, from a caller's address.
LEMMA JunkKeeps ==
    ASSUME AdapterIInv, NEW h \in Callers, NEW broken \in BOOLEAN, NEW proto,
           Junk(h, broken, proto)
    PROVE  AdapterIInv'
<1> DEFINE seg == [from |-> h, syn |-> TRUE, rst |-> FALSE]
           sent == adapter_write(adapter[h], seg)
           junk == IF kind = "udp" THEN [sent EXCEPT !.parses = ~broken]
                   ELSE [sent EXCEPT !.parses = ~broken, !.proto = proto]
<1>1. net' = net \union {junk} /\ UNCHANGED <<kind, adapter, heard>>
  BY DEF Junk
<1>2. h \in Host /\ ~adapter[h].listening /\ adapter[h].source = Home[h]
  BY DEF Host, AdapterIInv, CallersKeep, NewAdapter
<1>3. Home[h] = [ip |-> Home[h].ip, port |-> Home[h].port]
  BY <1>2, HostsAssumption
<1>4. Origin(junk) = Home[h] /\ junk.seg.from = h
  BY <1>2, <1>3 DEF Origin, adapter_write, udp_write, wrap_tcp_in_ip
<1>5. OriginsTrue'
  <2> HIDE DEF junk
  <2> QED
    BY <1>1, <1>2, <1>4, ZenonT(60) DEF AdapterIInv, OriginsTrue, Origin
<1> QED
  BY <1>1, <1>5, ZenonT(60) DEF AdapterIInv, CallersKeep, ServerSettles, Waiting, Settled

\* A caller reads: its adapter stays, and only the server is heard.
LEMMA CallerReadKeeps ==
    ASSUME AdapterIInv, NEW h \in Callers, NEW d \in net, NEW drop \in BOOLEAN,
           ReadNext(h, d, drop)
    PROVE  AdapterIInv'
<1>1. h \in Host /\ h # Server /\ Server \in Host
  BY HostsAssumption DEF Host
<1>2. ~adapter[h].listening /\ adapter[h].destination = Home[Server]
  <2>1. adapter[h] = NewAdapter(Home[h], Home[Server], FALSE)
    BY ZenonT(60) DEF AdapterIInv, CallersKeep
  <2> QED
    BY <2>1 DEF NewAdapter
<1> DEFINE r == adapter_read(adapter[h], d)
<1>3. /\ r.adapter = adapter[h]
      /\ r.segs = {} \/ (r.segs = {d.seg} /\ d.seg.from = Server)
  <2>1. Home[Server] = [ip |-> Home[Server].ip, port |-> Home[Server].port]
    BY <1>1, HostsAssumption
  <2>2. d.seg.from \in Host /\ Origin(d) = Home[d.seg.from]
    BY DEF AdapterIInv, OriginsTrue
  <2>3. Origin(d) = Home[Server] => d.seg.from = Server
    BY <1>1, <2>2, HostsAssumption, ZenonT(60)
  <2>4. /\ r.adapter = adapter[h]
        /\ \/ r.segs = {}
           \/ /\ r.segs = {d.seg}
              /\ kind = "udp" => d.source = Home[Server]
              /\ kind # "udp" => d.src = Home[Server].ip /\ d.sport = Home[Server].port
    BY <1>2, ReadConnected
  <2> HIDE DEF r
  <2> QED
    BY <2>1, <2>3, <2>4 DEF Origin
<1> DEFINE new == {seg.from : seg \in lossy_read(r, drop).segs}
<1>4. /\ adapter' = [adapter EXCEPT ![h] = lossy_read(r, drop).adapter]
      /\ heard' = [heard EXCEPT ![h] = @ \union new]
      /\ UNCHANGED <<kind, net>>
  BY DEF ReadNext
<1>5. lossy_read(r, drop).adapter = r.adapter /\ lossy_read(r, drop).segs \in {{}, r.segs}
  BY DEF lossy_read, ReadResult
<1> HIDE DEF r
<1>6. adapter' = adapter
  BY <1>3, <1>4, <1>5, ZenonT(60) DEF AdapterIInv
<1> new \subseteq {Server}
  BY <1>3, <1>5
<1> HIDE DEF new
<1>7. /\ heard' = [g \in Host |-> heard'[g]]
      /\ heard'[Server] = heard[Server]
      /\ \A g \in Callers : heard'[g] \subseteq {Server}
  BY <1>1, <1>4, ZenonT(60) DEF AdapterIInv, Host
<1> QED
  BY <1>4, <1>6, <1>7, ZenonT(60)
  DEF AdapterIInv, CallersKeep, ServerSettles, OriginsTrue, Origin, Waiting, Settled

\* An adapter that has settled on a peer sends to it, and listens no longer.
LEMMA SettledOn ==
    ASSUME NEW h
    PROVE  Settled(h).destination = Home[h] /\ ~Settled(h).listening
  BY DEF Settled, NewAdapter

\* The server reads: it goes on listening, settles on the caller whose segment
\* this is, or hears the caller it has settled on, and nobody else.
LEMMA ServerReadKeeps ==
    ASSUME AdapterIInv, NEW d \in net, NEW drop \in BOOLEAN, ReadNext(Server, d, drop)
    PROVE  AdapterIInv'
<1>1. Server \in Host /\ Server \notin Callers
  BY HostsAssumption DEF Host
<1>2. d.seg.from \in Host /\ Origin(d) = Home[d.seg.from]
  BY DEF AdapterIInv, OriginsTrue
<1> DEFINE r == adapter_read(adapter[Server], d)
           new == {seg.from : seg \in lossy_read(r, drop).segs}
<1>3. /\ adapter' = [adapter EXCEPT ![Server] = lossy_read(r, drop).adapter]
      /\ heard' = [heard EXCEPT ![Server] = @ \union new]
      /\ UNCHANGED <<kind, net>>
  BY DEF ReadNext
<1>4. /\ lossy_read(r, drop).adapter = r.adapter
      /\ r.segs = {} => new = {}
      /\ r.segs = {d.seg} => new \subseteq {d.seg.from}
  BY DEF lossy_read, ReadResult
<1>5. \/ /\ r.adapter = adapter[Server]
         /\ adapter[Server] = Waiting /\ heard[Server] = {} /\ new = {}
      \/ \E h \in Callers : /\ r.adapter = Settled(h)
                            /\ heard[Server] \union new \subseteq {h}
  <2>1. CASE adapter[Server] = Waiting /\ heard[Server] = {}
    <3>1. Gets(Server, d)
      BY DEF ReadNext
    <3>2. \/ r = ReadResult(Waiting, {})
          \/ r = ReadResult(NewAdapter(Home[Server], Origin(d), FALSE), {d.seg})
      BY <2>1, <3>1, ReadListening, ZenonT(60)
    <3>3. d.seg.from \in Callers
      BY <2>1 DEF AdapterIInv, OriginsTrue, Waiting, NewAdapter
    <3> HIDE DEF r, new
    <3>4. CASE r = ReadResult(Waiting, {})
      <4>1. r.adapter = Waiting /\ r.segs = {}
        BY <3>4 DEF ReadResult
      <4> QED
        BY <1>4, <2>1, <4>1
    <3>5. CASE r = ReadResult(NewAdapter(Home[Server], Origin(d), FALSE), {d.seg})
      <4>1. r.adapter = Settled(d.seg.from) /\ r.segs = {d.seg}
        BY <1>2, <3>5 DEF ReadResult, Settled
      <4>2. heard[Server] \union new \subseteq {d.seg.from}
        BY <1>4, <2>1, <4>1
      <4> QED
        BY <3>3, <4>1, <4>2
    <3> QED
      BY <3>2, <3>4, <3>5, ZenonT(60)
  <2>2. CASE \E h \in Callers : adapter[Server] = Settled(h) /\ heard[Server] \subseteq {h}
    <3>1. PICK h \in Callers : adapter[Server] = Settled(h) /\ heard[Server] \subseteq {h}
      BY <2>2
    <3>2. ~adapter[Server].listening /\ adapter[Server].destination = Home[h]
      BY <3>1 DEF Settled, NewAdapter
    <3>3. /\ r.adapter = adapter[Server]
          /\ \/ r.segs = {}
             \/ /\ r.segs = {d.seg}
                /\ kind = "udp" => d.source = Home[h]
                /\ kind # "udp" => d.src = Home[h].ip /\ d.sport = Home[h].port
      BY <3>2, ReadConnected
    <3>4. h \in Host /\ Home[h] = [ip |-> Home[h].ip, port |-> Home[h].port]
      BY HostsAssumption, ZenonT(60) DEF Host
    <3>5. Origin(d) = Home[h] => d.seg.from = h
      BY <1>2, <3>4, HostsAssumption, ZenonT(60)
    <3> HIDE DEF r, new
    <3> QED
      BY <1>4, <3>1, <3>3, <3>4, <3>5 DEF Origin
  <2> QED
    BY <2>1, <2>2, ZenonT(60) DEF AdapterIInv, ServerSettles
<1> HIDE DEF r, new
<1>6. /\ adapter' = [g \in Host |-> adapter'[g]] /\ heard' = [g \in Host |-> heard'[g]]
      /\ adapter'[Server] = r.adapter /\ heard'[Server] = heard[Server] \union new
      /\ \A g \in Callers : adapter'[g] = adapter[g] /\ heard'[g] = heard[g]
  BY <1>1, <1>3, <1>4, ZenonT(60) DEF AdapterIInv, Host
<1>7. ServerSettles'
  BY <1>3, <1>5, <1>6, ZenonT(60) DEF ServerSettles, Waiting, Settled
<1>8. adapter'[Server].listening => adapter[Server].listening
  <2>1. CASE r.adapter = adapter[Server]
    BY <1>6, <2>1
  <2>2. CASE \E h \in Callers : r.adapter = Settled(h)
    BY <1>6, <2>2, SettledOn
  <2> QED
    BY <1>5, <2>1, <2>2
<1>9. OriginsTrue'
  BY <1>3, <1>8, ZenonT(60) DEF AdapterIInv, OriginsTrue, Origin
<1> QED
  BY <1>3, <1>6, <1>7, <1>9, ZenonT(60) DEF AdapterIInv, CallersKeep
-----------------------------------------------------------------------------
\* Every step of the adapters and of the network preserves the invariant.
LEMMA StepKeeps == AdapterIInv /\ [AdapterNext]_adapterVars => AdapterIInv'
<1> SUFFICES ASSUME AdapterIInv, [AdapterNext]_adapterVars PROVE AdapterIInv'
  OBVIOUS
<1>1. ASSUME NEW h \in Host, NEW seg \in Segment, NEW drop \in BOOLEAN, WriteNext(h, seg, drop)
      PROVE  AdapterIInv'
  BY <1>1, WriteKeeps
<1>2. ASSUME NEW h \in Callers, NEW broken \in BOOLEAN, NEW proto \in {"TCP", "UDP"},
             Junk(h, broken, proto)
      PROVE  AdapterIInv'
  BY <1>2, JunkKeeps
<1>3. ASSUME NEW h \in Host, NEW d \in net, NEW drop \in BOOLEAN, ReadNext(h, d, drop)
      PROVE  AdapterIInv'
  BY <1>3, CallerReadKeeps, ServerReadKeeps DEF Host
<1>4. ASSUME NEW d \in net, Lose(d)
      PROVE  AdapterIInv'
  BY <1>4, ZenonT(60)
  DEF Lose, AdapterIInv, CallersKeep, ServerSettles, OriginsTrue, Origin, Waiting, Settled
<1>5. CASE UNCHANGED adapterVars
  BY <1>5, ZenonT(60)
  DEF adapterVars, AdapterIInv, CallersKeep, ServerSettles, OriginsTrue, Origin, Waiting, Settled
<1> QED
  BY <1>1, <1>2, <1>3, <1>4, <1>5 DEF AdapterNext

\* The adapters start in it: callers connected, the server listening.
LEMMA InitHolds == AdapterInit => AdapterIInv
  BY HostsAssumption, ZenonT(60)
  DEF AdapterInit, AdapterIInv, CallersKeep, ServerSettles, OriginsTrue, Waiting, Host

\* The invariant holds in every behaviour.
LEMMA AlwaysIInv == AdaptersSpec => []AdapterIInv
  BY InitHolds, StepKeeps, PTL DEF AdaptersSpec

\* For any number of callers at any addresses: all the segments that the read()
\* of an adapter hands up come from one peer, whatever arrives in whatever order.
THEOREM AdapterHearsOnePeer == AdaptersSpec => []OnePeer
<1>1. AdapterIInv => OnePeer
  <2> SUFFICES ASSUME AdapterIInv PROVE \A h \in heard[Server] : adapter[Server].destination = Home[h]
    BY DEF AdapterIInv, OnePeer
  <2> QED
    BY SettledOn DEF AdapterIInv, ServerSettles
<1> QED
  BY <1>1, AlwaysIInv, PTL

\* What a read comes to hands up the segments it was made with.
LEMMA ReadSegs ==
    ASSUME NEW STATE a, NEW STATE segs
    PROVE  ReadResult(a, segs).segs = segs
  BY DEF ReadResult

\* y hears what x writes.
Hello(x) == [from |-> x, syn |-> TRUE, rst |-> FALSE]

Hears(y, x) ==
    /\ Gets(y, adapter_write(adapter[x], Hello(x)))
    /\ adapter_read(adapter[y], adapter_write(adapter[x], Hello(x))).segs = {Hello(x)}

\* Two adapters that are each the other's destination hear each other.
LEMMA Facing ==
    ASSUME NEW x \in Host, NEW y \in Host, kind \in {"udp", "ip"},
           adapter[x] = NewAdapter(Home[x], Home[y], FALSE),
           adapter[y] = NewAdapter(Home[y], Home[x], FALSE)
    PROVE  Hears(y, x)
<1> DEFINE d == adapter_write(adapter[x], Hello(x))
<1>1. /\ adapter[x].source = Home[x] /\ adapter[x].destination = Home[y]
      /\ adapter[y].source = Home[y] /\ adapter[y].destination = Home[x]
      /\ ~adapter[y].listening
  BY DEF NewAdapter
<1>2. CASE kind = "udp"
  <2>1. d.source = Home[x] /\ d.destination = Home[y] /\ d.parses /\ d.seg = Hello(x)
    BY <1>1, <1>2, ZenonT(60) DEF adapter_write, udp_write
  <2>2. adapter_read(adapter[y], d) = ReadResult(adapter[y], {Hello(x)})
    BY <1>1, <1>2, <2>1, ZenonT(60) DEF adapter_read, udp_read
  <2> QED
    <3>1. adapter_read(adapter[y], d).segs = {Hello(x)}
      BY <2>2, ReadSegs, ZenonT(90)
    <3>2. Gets(y, d)
      BY <1>2, <2>1, ZenonT(60) DEF Gets
    <3> QED
      BY <3>1, <3>2, ZenonT(60) DEF Hears
<1>3. CASE kind = "ip"
  <2>1. /\ d.src = Home[x].ip /\ d.sport = Home[x].port /\ d.proto = "TCP" /\ d.parses
        /\ d.dst = Home[y].ip /\ d.dport = Home[y].port /\ d.seg = Hello(x)
    BY <1>1, <1>3, ZenonT(60) DEF adapter_write, wrap_tcp_in_ip
  <2>2. adapter_read(adapter[y], d) = ReadResult(adapter[y], {Hello(x)})
    BY <1>1, <1>3, <2>1, ZenonT(60) DEF adapter_read, unwrap_tcp_in_ip
  <2> QED
    <3>1. adapter_read(adapter[y], d).segs = {Hello(x)}
      BY <2>2, ReadSegs, ZenonT(90)
    <3>2. Gets(y, d)
      BY <1>3, <2>1, ZenonT(60) DEF Gets
    <3> QED
      BY <3>1, <3>2, ZenonT(60) DEF Hears
<1> QED
  BY <1>2, <1>3

\* For any number of callers at any addresses: once the server's adapter has
\* settled on a caller, each hears what the other writes, over UDP and over
\* IPv4, although the SYN that made it settle may have been dropped above it.
THEOREM AdapterConversation == AdaptersSpec => []Conversation
<1>1. AdapterIInv => Conversation
  <2> SUFFICES ASSUME AdapterIInv, ~adapter[Server].listening PROVE Conversation
    BY ZenonT(60) DEF Conversation
  <2>1. PICK h \in Callers : adapter[Server] = Settled(h)
    BY DEF AdapterIInv, ServerSettles, Waiting, NewAdapter
  <2>2. h \in Host /\ Server \in Host
    BY DEF Host
  <2>3. /\ adapter[h] = NewAdapter(Home[h], Home[Server], FALSE)
        /\ adapter[Server] = NewAdapter(Home[Server], Home[h], FALSE)
        /\ kind \in {"udp", "ip"}
    BY <2>1, ZenonT(60) DEF AdapterIInv, CallersKeep, Settled
  <2>4. Hears(Server, h) /\ Hears(h, Server)
    BY <2>2, <2>3, Facing, ZenonT(60)
  <2>5. \A x, y \in {h, Server} : x # y => Hears(y, x)
    BY <2>4
  <2> QED
    BY <2>5, ZenonT(60) DEF Conversation, Hears, Hello
<1> QED
  BY <1>1, AlwaysIInv, PTL
=============================================================================
