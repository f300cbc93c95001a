------------------------ MODULE TCPConnectionProofs -------------------------
(***************************************************************************)
(* What each method of a TCPConnection does to the endpoint c that faces   *)
(* the endpoint o, for any capacities, window and stream lengths, as long  *)
(* as the sequence numbers tell the positions apart.                       *)
(*                                                                         *)
(* What a connection needs of a sender, of a reassembler and of sequence   *)
(* numbers is stated as laws: of a set snd of senders and of the sets      *)
(* rsm[cap, b] of reassemblers that are sound for a capacity and for a     *)
(* stream of which b bytes have been sent.  TCPPairProofs shows that the   *)
(* sound ones of TCPSenderProofs and StreamReassemblerProofs obey them.    *)
(*                                                                         *)
(* The receiver of c knows only what o's sender has sent, every segment    *)
(* that c has queued or the network carries for o stands where its         *)
(* sequence number says and acknowledges no more than c has received, and  *)
(* what c's own sender counts as acknowledged o has received.  A step of c *)
(* moves it to an endpoint that faces o (Moves, Sends, Leaves, Became),    *)
(* and o goes on facing it because nothing of c ever goes back (Later,     *)
(* RecvLater).                                                             *)
(***************************************************************************)
EXTENDS TCPConnection, TLAPS

Segments ==
    [seqno : W!WrappingInt32, syn : BOOLEAN, payload : Seq(Nat), fin : BOOLEAN,
     rst : BOOLEAN, ack : BOOLEAN, ackno : Nat, win : Nat]

\* The substring of c bytes at index i.
Substring(i, c) == [k \in 1 .. c |-> i + k - 1]

\* Where a segment of s lies in the stream: its payload is the substring at
\* index i, and a FIN follows the last byte.
Placed(seg, s, i) ==
    /\ seg.payload = Substring(i, Len(seg.payload)) /\ i \in Nat
    /\ i + Len(seg.payload) <= s.stream.bytes_read
    /\ seg.fin => i + Len(seg.payload) = s.stream.bytes_read
    /\ W!minus(seg.seqno, IF seg.syn THEN 0 ELSE 1) = W!wrap(i, s.isn)

\* seg carries nothing but what s has sent.
Carried(seg, s) ==
    /\ seg.syn => s.syn_sent /\ seg.seqno = s.isn
    /\ seg.fin => s.fin_sent
    /\ seg.payload # << >> => \E i : Placed(seg, s, i)

\* The first position of s that is not acknowledged.
First(s) == s.next_seqno - TX!bytes_in_flight(s)

\* What a sender that is sound says of itself.
SenderFacts(s) ==
    /\ s.isn \in W!WrappingInt32 /\ s.next_seqno \in Nat
    /\ s.syn_sent \in BOOLEAN /\ s.fin_sent \in BOOLEAN /\ s.stream.input_ended \in BOOLEAN
    /\ s.stream.bytes_read \in Nat /\ s.stream.bytes_written \in Nat
    /\ s.stream.bytes_read <= s.stream.bytes_written
    /\ s.syn_sent /\ ~s.fin_sent => s.next_seqno = s.stream.bytes_read + 1
    /\ s.fin_sent => s.syn_sent /\ s.next_seqno = s.stream.bytes_read + 2
    /\ ~s.syn_sent => s.next_seqno = 0 /\ s.stream.bytes_read = 0
    /\ s.fin_sent => s.stream.input_ended /\ s.stream.bytes_read = s.stream.bytes_written
    /\ First(s) \in Nat /\ First(s) <= s.next_seqno
    /\ s.segments_out \in Seq(Segments)
    /\ \A i \in 1 .. Len(s.segments_out) : Carried(s.segments_out[i], s)

\* t is s, later.
Later(s, t) ==
    /\ t.isn = s.isn /\ s.next_seqno <= t.next_seqno
    /\ s.syn_sent => t.syn_sent
    /\ s.fin_sent => t.fin_sent
    /\ s.stream.bytes_read <= t.stream.bytes_read
    /\ s.stream.input_ended =>
          t.stream.input_ended /\ t.stream.bytes_written = s.stream.bytes_written

\* t is s after it may have sent something; nothing was written or acknowledged.
Onward(snd, s, t) ==
    /\ t \in snd /\ Later(s, t) /\ First(t) = First(s)
    /\ t.stream.bytes_written = s.stream.bytes_written
    /\ t.stream.input_ended = s.stream.input_ended

\* t is s after an acknowledgment of everything before the position of ackno.
Advanced(snd, s, t, ackno) ==
    /\ t \in snd /\ Later(s, t)
    /\ First(t) = First(s) \/ First(t) <= W!unwrap(ackno, s.isn, s.next_seqno)
    /\ t.stream.bytes_written = s.stream.bytes_written
    /\ t.stream.input_ended = s.stream.input_ended

\* t is s after its application has written up to n bytes or closed.
Rewritten(snd, s, t, n) ==
    /\ t \in snd /\ Later(s, t) /\ First(t) = First(s)
    /\ t.stream.bytes_written <= n

\* The largest window that half of the sequence space has room for.
MaxWin == (Base - 1) \div 2

\* What the methods of a sender do to those in snd, the sound ones, and that one
\* made with the timeout rto is among them.
SenderLaws(snd, rto) ==
    /\ \A s \in snd :
         /\ SenderFacts(s)
         /\ Onward(snd, s, TX!fill_window(s))
         /\ \A ms \in Nat : Onward(snd, s, TX!tick(s, ms))
         /\ \A rst \in BOOLEAN : Onward(snd, s, TX!send_empty_segment(s, FALSE, FALSE, rst))
         /\ Onward(snd, s, [s EXCEPT !.segments_out = << >>])
         /\ Onward(snd, s, [s EXCEPT !.stream = BS!set_error(@)])
         /\ \A ackno \in Nat, w \in 0 .. MaxWin :
               Advanced(snd, s, TX!ack_received(s, ackno, w), ackno)
         /\ \A len \in Nat :
               Rewritten(snd, s,
                   [s EXCEPT !.stream = BS!write(@, Substring(s.stream.bytes_written, len))],
                   s.stream.bytes_written + len)
         /\ Rewritten(snd, s, [s EXCEPT !.stream = BS!end_input(@)], s.stream.bytes_written)
    /\ \A cap \in Nat, isn \in W!WrappingInt32 :
         LET s == TX!NewTCPSender(cap, rto, isn)
         IN  /\ s \in snd /\ s.isn = isn /\ First(s) = 0 /\ s.stream.bytes_written = 0
             /\ s.segments_out = << >> /\ ~s.syn_sent

\* What a reassembler says of itself that is sound for cap and a stream of which
\* b bytes have been sent.
Stored(s, cap, b) ==
    /\ s.wait_index \in Nat /\ s.wait_index <= b /\ s.eof_index \in Nat /\ s.eof_index >= b
    /\ s.output.input_ended \in BOOLEAN /\ s.output.bytes_written = s.wait_index
    /\ s.output.bytes_read \in Nat /\ Len(s.output.buf) \in Nat /\ Len(s.output.buf) <= cap
    /\ \A i \in 1 .. Len(s.output.buf) : s.output.buf[i] = s.output.bytes_read + i - 1

\* t is s with something done to its output.
Marked(rsm, s, t, cap, b) ==
    /\ t \in rsm[cap, b] /\ t.wait_index = s.wait_index /\ t.eof_index = s.eof_index

\* t is s after push_substring().
Pushed(rsm, s, t, cap, b, eof) ==
    /\ t \in rsm[cap, b] /\ s.wait_index <= t.wait_index
    /\ t.eof_index = IF eof THEN b ELSE s.eof_index
    /\ t.output.input_ended <=> s.output.input_ended \/ t.wait_index = t.eof_index

\* What may be done to a reassembler that is sound: more may be sent, a substring
\* pushed, the output ended, marked as failed or read.
Extends(rsm, s, cap, b) ==
    \A d \in Nat : b <= d /\ d <= s.eof_index => s \in rsm[cap, d]

Pushes(rsm, s, cap, b) ==
    \A i \in Nat, c \in Nat, eof \in BOOLEAN :
        cap + b < RX!SR!SIZE_MAX /\ i + c <= b /\ (eof => i + c = b) =>
            Pushed(rsm, s, RX!SR!push_substring(s, Substring(i, c), i, eof), cap, b, eof)

Ends(rsm, s, cap, b) ==
    LET t == [s EXCEPT !.output = RX!BS!end_input(@)]
    IN  Marked(rsm, s, t, cap, b) /\ t.output.input_ended

Fails(rsm, s, cap, b) ==
    LET t == [s EXCEPT !.output = BS!set_error(@)]
    IN  /\ Marked(rsm, s, t, cap, b) /\ t.output.error
        /\ t.output.input_ended = s.output.input_ended

Reads(rsm, s, cap, b) ==
    \A n \in Nat \ {0} :
        LET t == [s EXCEPT !.output = BS!read(@, n)]
        IN  /\ Marked(rsm, s, t, cap, b) /\ t.output.error = s.output.error
            /\ t.output.input_ended = s.output.input_ended

NewReassembler(rsm, cap) ==
    LET s == RX!SR!NewStreamReassembler(cap)
    IN  /\ s \in rsm[cap, 0] /\ s.wait_index = 0 /\ s.eof_index = RX!SR!SIZE_MAX
        /\ ~s.output.input_ended

\* What the methods of a reassembler do to those in rsm[cap, b], the sound ones.
ReassemblerLaws(rsm) ==
    /\ \A cap \in Nat, b \in Nat : \A s \in rsm[cap, b] :
         /\ Stored(s, cap, b) /\ Extends(rsm, s, cap, b) /\ Pushes(rsm, s, cap, b)
         /\ Ends(rsm, s, cap, b) /\ Fails(rsm, s, cap, b) /\ Reads(rsm, s, cap, b)
    /\ \A cap \in Nat : NewReassembler(rsm, cap)

\* A position is recovered from its sequence number and a checkpoint nearby.
NumberLaw ==
    \A isn \in W!WrappingInt32, a \in Nat, c \in Nat :
        2 * (a - c) < Base /\ 2 * (c - a) < Base => W!unwrap(W!wrap(a, isn), isn, c) = a

\* The surroundings of an endpoint: the widths, what is sound, its capacity, how
\* much its own application and that of its peer may write, its retransmission
\* timeout and its initial sequence number.
Env(E) ==
    /\ Base \in Nat /\ Base > 2 /\ MAX_WIN \in Nat
    /\ E.cap \in Nat /\ E.len \in Nat /\ E.far \in Nat /\ E.isn \in W!WrappingInt32
    /\ 2 * (E.len + 2) < Base /\ 2 * (E.far + 2) < Base
    /\ BS!MinOf(E.cap, MAX_WIN) <= MaxWin
    /\ E.cap + E.far < RX!SR!SIZE_MAX /\ E.len < RX!SR!SIZE_MAX
    /\ SenderLaws(E.snd, E.rto) /\ ReassemblerLaws(E.rsm) /\ NumberLaw
-----------------------------------------------------------------------------
\* The receiver r of what s sends, when fin says whether a FIN has come: it knows
\* only what s has sent, and ends its output only after a FIN.
Heard(E, r, s, fin) ==
    /\ r \in [reassembler : {r.reassembler}, capacity : {E.cap}, syn_set : BOOLEAN,
              fin_set : BOOLEAN, init_seqno : W!WrappingInt32]
    /\ r.reassembler \in E.rsm[E.cap, s.stream.bytes_read]
    /\ r.syn_set => s.syn_sent /\ r.init_seqno = s.isn
    /\ fin => r.syn_set /\ s.fin_sent
    /\ RX!stream_out(r).input_ended => fin
    /\ \/ r.reassembler.eof_index = RX!SR!SIZE_MAX
       \/ fin /\ r.reassembler.eof_index = s.stream.bytes_read

ReceiverOK(E, r, s) == Heard(E, r, s, r.fin_set)

\* What r has acknowledged.
Acked(r) == IF r.syn_set THEN RX!ack_seqno(r) ELSE 0

\* t is r, later.
RecvLater(r, t) ==
    r.syn_set => /\ t.syn_set /\ t.init_seqno = r.init_seqno
                 /\ RX!ack_seqno(r) <= RX!ack_seqno(t)

\* s is the sender that E knows on the other side.
Opposite(E, s) == s \in E.snd /\ s.stream.bytes_written <= E.far

\* What is known of a sound sender.
LEMMA Facts ==
    ASSUME NEW E, Env(E), NEW s \in E.snd
    PROVE  SenderFacts(s)
BY DEF Env, SenderLaws

\* What is known of a receiver: it has not acknowledged more than has been sent.
LEMMA ReceiverTypes ==
    ASSUME NEW E, Env(E), NEW s, s \in E.snd, NEW r, NEW fin, Heard(E, r, s, fin)
    PROVE  /\ Stored(r.reassembler, E.cap, s.stream.bytes_read)
           /\ r.syn_set \in BOOLEAN /\ r.fin_set \in BOOLEAN /\ r.init_seqno \in W!WrappingInt32
           /\ r.capacity = E.cap
           /\ RX!ack_seqno(r) \in Nat /\ Acked(r) \in Nat
           /\ RX!stream_out(r).input_ended => RX!ack_seqno(r) = r.reassembler.wait_index + 2
           /\ ~RX!stream_out(r).input_ended => RX!ack_seqno(r) = r.reassembler.wait_index + 1
           /\ r.syn_set => RX!ack_seqno(r) <= s.next_seqno
<1> DEFINE m == r.reassembler
           z == RX!SEG!One(RX!stream_out(r).input_ended)
<1>1. SenderFacts(s)
  BY Facts
<1>2. s.stream.bytes_read \in Nat /\ E.cap \in Nat
  BY <1>1 DEF SenderFacts, Env
<1>3. Stored(m, E.cap, s.stream.bytes_read)
  BY <1>2, ZenonT(60) DEF Heard, Env, ReassemblerLaws
<1>4. /\ r.syn_set \in BOOLEAN /\ r.fin_set \in BOOLEAN /\ r.init_seqno \in W!WrappingInt32
      /\ r.capacity = E.cap
  BY DEF Heard
<1>5. RX!ack_seqno(r) = m.wait_index + 1 + z
  BY ZenonT(60) DEF RX!ack_seqno
<1>6. (RX!stream_out(r).input_ended => z = 1) /\ (~RX!stream_out(r).input_ended => z = 0)
  BY ZenonT(60) DEF RX!SEG!One
<1> HIDE DEF z
<1>7. m.wait_index \in Nat /\ m.wait_index <= s.stream.bytes_read
  BY <1>3 DEF Stored
<1>8. /\ RX!ack_seqno(r) \in Nat
      /\ RX!stream_out(r).input_ended => RX!ack_seqno(r) = m.wait_index + 2
      /\ ~RX!stream_out(r).input_ended => RX!ack_seqno(r) = m.wait_index + 1
  BY <1>5, <1>6, <1>7, SMTT(60)
<1>9. Acked(r) \in Nat
  BY <1>8 DEF Acked
<1>10. r.syn_set => RX!ack_seqno(r) <= s.next_seqno
  <2>1. (r.syn_set => s.syn_sent) /\ (RX!stream_out(r).input_ended => s.fin_sent)
    BY DEF Heard
  <2> QED
    BY <2>1, <1>1, <1>7, <1>8, SMTT(60) DEF SenderFacts
<1> QED
  BY <1>3, <1>4, <1>8, <1>9, <1>10

\* A receiver that is sound stays so while the sender goes on.
LEMMA ReceiverLater ==
    ASSUME NEW E, Env(E), NEW s, s \in E.snd, NEW r, ReceiverOK(E, r, s),
           NEW t, t \in E.snd, Later(s, t), t.stream.bytes_read < RX!SR!SIZE_MAX
    PROVE  ReceiverOK(E, r, t)
<1> DEFINE m == r.reassembler
           b == s.stream.bytes_read
           d == t.stream.bytes_read
<1>1. SenderFacts(s) /\ SenderFacts(t)
  BY Facts
<1>2. b \in Nat /\ d \in Nat /\ b <= d /\ E.cap \in Nat
  BY <1>1 DEF SenderFacts, Env, Later
<1>3. s.fin_sent => d = b
  BY <1>1, SMTT(60) DEF SenderFacts, Later
<1>4. /\ m \in E.rsm[E.cap, b]
      /\ m.eof_index = RX!SR!SIZE_MAX \/ (r.fin_set /\ m.eof_index = b)
      /\ r.fin_set => s.fin_sent
  BY DEF ReceiverOK, Heard
<1>5. Stored(m, E.cap, b) /\ Extends(E.rsm, m, E.cap, b)
  BY <1>2, <1>4, ZenonT(60) DEF Env, ReassemblerLaws
<1>6. d <= m.eof_index
  <2>1. CASE m.eof_index = RX!SR!SIZE_MAX
    BY <1>2, <1>5, <2>1 DEF Stored
  <2>2. CASE m.eof_index = b /\ s.fin_sent
    BY <1>2, <1>3, <2>2
  <2> QED
    BY <1>4, <2>1, <2>2
<1>7. m \in E.rsm[E.cap, d]
  BY <1>2, <1>5, <1>6, ZenonT(60) DEF Extends
<1>8. m.eof_index = RX!SR!SIZE_MAX \/ (r.fin_set /\ m.eof_index = d)
  BY <1>3, <1>4
<1> QED
  BY <1>7, <1>8 DEF ReceiverOK, Heard, Later

\* r is not behind where it was.
Grown(r, t) ==
    /\ r.reassembler.wait_index <= t.reassembler.wait_index
    /\ RX!stream_out(r).input_ended => RX!stream_out(t).input_ended

\* What is acknowledged grows with what is assembled.
LEMMA GrownLater ==
    ASSUME NEW E, Env(E), NEW s, s \in E.snd, NEW r, NEW fin, Heard(E, r, s, fin),
           NEW t, NEW end, Heard(E, t, s, end), Grown(r, t),
           r.syn_set => t.syn_set /\ t.init_seqno = r.init_seqno
    PROVE  RecvLater(r, t)
<1>1. /\ Stored(r.reassembler, E.cap, s.stream.bytes_read)
      /\ RX!ack_seqno(r) \in Nat
      /\ RX!stream_out(r).input_ended => RX!ack_seqno(r) = r.reassembler.wait_index + 2
      /\ ~RX!stream_out(r).input_ended => RX!ack_seqno(r) = r.reassembler.wait_index + 1
  BY ReceiverTypes, ZenonT(60)
<1>2. /\ Stored(t.reassembler, E.cap, s.stream.bytes_read)
      /\ RX!ack_seqno(t) \in Nat
      /\ RX!stream_out(t).input_ended => RX!ack_seqno(t) = t.reassembler.wait_index + 2
      /\ ~RX!stream_out(t).input_ended => RX!ack_seqno(t) = t.reassembler.wait_index + 1
  BY ReceiverTypes, ZenonT(60)
<1>3. RX!ack_seqno(r) <= RX!ack_seqno(t)
  BY <1>1, <1>2, SMTT(60) DEF Stored, Grown
<1> QED
  BY <1>3 DEF RecvLater

\* The operators of sequence numbers are the same everywhere.
LEMMA NumberOps ==
    /\ \A n, isn, c : RX!W!unwrap(n, isn, c) = W!unwrap(n, isn, c)
    /\ \A n, isn : RX!W!wrap(n, isn) = W!wrap(n, isn)
    /\ \A a, b : RX!W!minus(a, b) = W!minus(a, b)
BY ZenonT(60) DEF RX!W!unwrap, RX!W!minus, RX!W!wrap, RX!W!plus, W!unwrap, W!minus, W!wrap, W!plus

\* The start of a segment's reception.
Sync(r, seg) ==
    IF r.syn_set THEN r ELSE [r EXCEPT !.syn_set = TRUE, !.init_seqno = seg.seqno]

\* r is t, which knows of the SYN.
Started(E, r, t, s) ==
    /\ ReceiverOK(E, t, s) /\ t.syn_set /\ t.init_seqno = s.isn /\ Grown(r, t)
    /\ r.syn_set => t.init_seqno = r.init_seqno

\* The first segment with a SYN, or any after it.
LEMMA Synced ==
    ASSUME NEW E, Env(E), NEW s, Opposite(E, s), NEW r, ReceiverOK(E, r, s),
           NEW seg \in Segments, Carried(seg, s), seg.syn \/ r.syn_set
    PROVE  Started(E, r, Sync(r, seg), s)
<1> DEFINE t == Sync(r, seg)
<1>1. Stored(r.reassembler, E.cap, s.stream.bytes_read) /\ r.syn_set \in BOOLEAN
  BY ReceiverTypes, ZenonT(60) DEF ReceiverOK, Opposite
<1>2. r.reassembler.wait_index <= r.reassembler.wait_index
  BY <1>1 DEF Stored
<1>3. CASE r.syn_set
  <2>1. t = r
    BY <1>3 DEF Sync
  <2> QED
    BY <1>2, <1>3, <2>1, ZenonT(60) DEF Started, ReceiverOK, Heard, Grown
<1>4. CASE ~r.syn_set
  <2>1. t = [r EXCEPT !.syn_set = TRUE, !.init_seqno = seg.seqno]
    BY <1>4 DEF Sync
  <2> HIDE DEF t
  <2>2. seg.syn /\ s.syn_sent /\ seg.seqno = s.isn /\ seg.seqno \in W!WrappingInt32
    BY <1>4 DEF Carried, Segments
  <2>3. r \in [reassembler : {r.reassembler}, capacity : {E.cap}, syn_set : BOOLEAN,
               fin_set : BOOLEAN, init_seqno : W!WrappingInt32]
    BY DEF ReceiverOK, Heard
  <2>4. /\ t \in [reassembler : {t.reassembler}, capacity : {E.cap}, syn_set : BOOLEAN,
                  fin_set : BOOLEAN, init_seqno : W!WrappingInt32]
        /\ t.reassembler = r.reassembler /\ t.syn_set /\ t.init_seqno = seg.seqno
        /\ t.fin_set = r.fin_set
    BY <2>1, <2>2, <2>3, ZenonT(60)
  <2>5. RX!stream_out(t) = RX!stream_out(r)
    BY <2>4, ZenonT(60) DEF RX!stream_out
  <2>6. ReceiverOK(E, t, s)
    BY <2>2, <2>4, <2>5, ZenonT(60) DEF ReceiverOK, Heard
  <2>7. Grown(r, t)
    BY <1>2, <2>4, <2>5, ZenonT(60) DEF Grown
  <2> QED
    BY <1>4, <2>2, <2>4, <2>6, <2>7, ZenonT(60) DEF Started, t
<1> QED
  BY <1>1, <1>3, <1>4

\* What a segment leaves of the receiver before its FIN is noted.
Half(E, r, t, s, fin) ==
    /\ Heard(E, t, s, fin \/ r.fin_set) /\ Grown(r, t)
    /\ t.syn_set = r.syn_set /\ t.init_seqno = r.init_seqno /\ t.fin_set = r.fin_set

\* The payload of a segment is pushed at its index.
LEMMA PayloadPushed ==
    ASSUME NEW E, Env(E), NEW s, Opposite(E, s), NEW r, ReceiverOK(E, r, s), r.syn_set,
           NEW seg \in Segments, Carried(seg, s)
    PROVE  Half(E, r, RX!push_payload(r, seg), s, seg.fin)
<1> DEFINE b == s.stream.bytes_read
           m == r.reassembler
           c == Len(seg.payload)
<1>1. SenderFacts(s) /\ s \in E.snd
  BY Facts DEF Opposite
<1>2. b \in Nat /\ E.cap \in Nat /\ E.cap + b < RX!SR!SIZE_MAX /\ 2 * b < Base
  <2>1. b \in Nat /\ b <= E.far /\ E.cap \in Nat /\ E.far \in Nat
    BY <1>1, SMTT(60) DEF SenderFacts, Opposite, Env
  <2>2. RX!SR!SIZE_MAX \in Nat /\ Base \in Nat
    BY DEF Env, RX!SR!SIZE_MAX, RX!SR!SIZE_MOD
  <2>3. E.cap + E.far < RX!SR!SIZE_MAX /\ 2 * (E.far + 2) < Base
    BY DEF Env
  <2> QED
    BY <2>1, <2>2, <2>3, SMTT(60)
<1>3. /\ Stored(m, E.cap, b) /\ r.syn_set \in BOOLEAN /\ r.init_seqno \in W!WrappingInt32
  BY <1>1, ReceiverTypes, ZenonT(60) DEF ReceiverOK
<1>4. seg.fin \in BOOLEAN /\ seg.syn \in BOOLEAN /\ c \in Nat /\ (seg.fin => s.fin_sent)
  BY DEF Segments, Carried
<1>5. m.wait_index \in Nat /\ m.wait_index <= b
  BY <1>3 DEF Stored
<1>6. CASE ~(seg.payload # << >> /\ (seg.syn \/ seg.seqno # r.init_seqno))
  <2>1. RX!push_payload(r, seg) = r
    BY <1>6, ZenonT(60) DEF RX!push_payload
  <2>2. Heard(E, r, s, seg.fin \/ r.fin_set)
    BY <1>4, ZenonT(60) DEF ReceiverOK, Heard
  <2>3. Grown(r, r)
    BY <1>5 DEF Grown
  <2> QED
    BY <2>1, <2>2, <2>3 DEF Half
<1>7. CASE seg.payload # << >> /\ (seg.syn \/ seg.seqno # r.init_seqno)
  <2>1. PICK i : Placed(seg, s, i)
    BY <1>7 DEF Carried
  <2>2. r.init_seqno = s.isn /\ s.isn \in W!WrappingInt32
    BY <1>1 DEF ReceiverOK, Heard, SenderFacts
  <2>3. i \in Nat /\ i + c <= b /\ (seg.fin => i + c = b) /\ seg.payload = Substring(i, c)
    BY <2>1 DEF Placed
  <2>4. 2 * (i - m.wait_index) < Base /\ 2 * (m.wait_index - i) < Base
    <3> HIDE DEF b, m, c
    <3>1. Base \in Nat
      BY DEF Env
    <3> QED
      BY <3>1, <1>2, <1>4, <1>5, <2>3, SMTT(60)
  <2>5. RX!W!unwrap(RX!W!minus(seg.seqno, RX!SEG!One(~seg.syn)), r.init_seqno, m.wait_index) = i
    <3>1. RX!SEG!One(~seg.syn) = IF seg.syn THEN 0 ELSE 1
      BY <1>4 DEF RX!SEG!One
    <3>2. W!minus(seg.seqno, RX!SEG!One(~seg.syn)) = W!wrap(i, s.isn)
      BY <2>1, <3>1, ZenonT(60) DEF Placed
    <3>3. W!unwrap(W!wrap(i, s.isn), s.isn, m.wait_index) = i
      BY <1>5, <2>2, <2>3, <2>4, ZenonT(60) DEF Env, NumberLaw
    <3> QED
      BY <2>2, <3>2, <3>3, NumberOps, ZenonT(60)
  <2> DEFINE n == RX!SR!push_substring(m, Substring(i, c), i, seg.fin)
             t == [r EXCEPT !.reassembler = n]
  <2>6. RX!push_payload(r, seg) = t
    <3>1. \A x : RX!With(x, LAMBDA k : [r EXCEPT !.reassembler = RX!SR!push_substring(@, seg.payload, k, seg.fin)])
                   = [r EXCEPT !.reassembler = RX!SR!push_substring(@, seg.payload, x, seg.fin)]
      BY ZenonT(60) DEF RX!With
    <3> QED
      BY <3>1, <1>7, <2>3, <2>5, ZenonT(60) DEF RX!push_payload
  <2> HIDE DEF n
  <2>7. Pushed(E.rsm, m, n, E.cap, b, seg.fin)
    <3>1. Pushes(E.rsm, m, E.cap, b)
      BY <1>2, ZenonT(60) DEF ReceiverOK, Heard, Env, ReassemblerLaws
    <3> QED
      BY <3>1, <1>2, <1>4, <2>3, ZenonT(60) DEF Pushes, n
  <2>8. /\ t \in [reassembler : {t.reassembler}, capacity : {E.cap}, syn_set : BOOLEAN,
                  fin_set : BOOLEAN, init_seqno : W!WrappingInt32]
        /\ t.reassembler = n /\ t.syn_set = r.syn_set /\ t.init_seqno = r.init_seqno
        /\ t.fin_set = r.fin_set /\ RX!stream_out(t) = n.output
    BY ZenonT(60) DEF ReceiverOK, Heard, RX!stream_out
  <2> HIDE DEF t
  <2>9. n \in E.rsm[E.cap, b] /\ Stored(n, E.cap, b)
    BY <1>2, <2>7, ZenonT(60) DEF Env, ReassemblerLaws, Pushed
  <2>10. n.eof_index = RX!SR!SIZE_MAX \/ ((seg.fin \/ r.fin_set) /\ n.eof_index = b)
    BY <1>4, <2>7, ZenonT(60) DEF Pushed, ReceiverOK, Heard
  <2>11. n.output.input_ended => seg.fin \/ r.fin_set
    <3>1. n.wait_index # RX!SR!SIZE_MAX
      <4>1. RX!SR!SIZE_MAX \in Nat
        BY DEF RX!SR!SIZE_MAX, RX!SR!SIZE_MOD
      <4>2. n.wait_index \in Nat /\ n.wait_index <= b
        BY <2>9, ZenonT(60) DEF Stored
      <4> QED
        BY <4>1, <4>2, <1>2, SMTT(60)
    <3> QED
      BY <3>1, <2>7, <2>10, ZenonT(60) DEF Pushed, ReceiverOK, Heard, RX!stream_out
  <2>12. Heard(E, t, s, seg.fin \/ r.fin_set)
    BY <1>4, <2>8, <2>9, <2>10, <2>11, ZenonT(60) DEF ReceiverOK, Heard
  <2>13. Grown(r, t)
    BY <2>7, <2>8, ZenonT(60) DEF Grown, Pushed, RX!stream_out
  <2> QED
    BY <2>6, <2>8, <2>12, <2>13 DEF Half
<1> QED
  BY <1>6, <1>7

\* The end of a segment's reception.
NoteFin(r, fin) ==
    IF fin /\ RX!unassembled_bytes(r) = 0
    THEN [r EXCEPT !.fin_set = TRUE, !.reassembler.output = RX!BS!end_input(@)]
    ELSE [r EXCEPT !.fin_set = fin]

\* A FIN is remembered, and ends the output when nothing waits.
LEMMA FinNoted ==
    ASSUME NEW E, Env(E), NEW s, Opposite(E, s), NEW r, NEW fin \in BOOLEAN,
           Heard(E, r, s, fin \/ r.fin_set), NEW t, t = NoteFin(r, fin \/ r.fin_set)
    PROVE  /\ ReceiverOK(E, t, s) /\ Grown(r, t)
           /\ t.syn_set = r.syn_set /\ t.init_seqno = r.init_seqno
<1> DEFINE b == s.stream.bytes_read
           m == r.reassembler
           f == fin \/ r.fin_set
           n == [m EXCEPT !.output = RX!BS!end_input(@)]
<1>1. SenderFacts(s) /\ s \in E.snd
  BY Facts DEF Opposite
<1>2. b \in Nat /\ E.cap \in Nat
  BY <1>1 DEF SenderFacts, Env
<1>3. Stored(m, E.cap, b) /\ r.fin_set \in BOOLEAN
  BY <1>1, ReceiverTypes, ZenonT(60)
<1>4. f \in BOOLEAN
  BY <1>3
<1>5. /\ r \in [reassembler : {m}, capacity : {E.cap}, syn_set : BOOLEAN,
                fin_set : BOOLEAN, init_seqno : W!WrappingInt32]
      /\ m \in E.rsm[E.cap, b]
      /\ r.syn_set => s.syn_sent /\ r.init_seqno = s.isn
      /\ f => r.syn_set /\ s.fin_sent
      /\ m.output.input_ended => f
      /\ m.eof_index = RX!SR!SIZE_MAX \/ (f /\ m.eof_index = b)
  BY ZenonT(60) DEF Heard, RX!stream_out
<1>6. Ends(E.rsm, m, E.cap, b)
  BY <1>2, <1>5, ZenonT(60) DEF Env, ReassemblerLaws
<1>7. m.wait_index <= m.wait_index
  BY <1>3 DEF Stored
<1> HIDE DEF f, n
<1>8. CASE f /\ RX!unassembled_bytes(r) = 0
  <2>1. t = [r EXCEPT !.fin_set = TRUE, !.reassembler.output = RX!BS!end_input(@)]
    BY <1>8, ZenonT(60) DEF NoteFin, f
  <2>2. /\ t \in [reassembler : {t.reassembler}, capacity : {E.cap}, syn_set : BOOLEAN,
                  fin_set : BOOLEAN, init_seqno : W!WrappingInt32]
        /\ t.reassembler = n /\ t.syn_set = r.syn_set /\ t.init_seqno = r.init_seqno
        /\ t.fin_set = TRUE
    BY <1>5, <2>1, ZenonT(60) DEF n
  <2>3. Marked(E.rsm, m, n, E.cap, b) /\ n.output.input_ended
    BY <1>6, ZenonT(60) DEF Ends, n
  <2>4. ReceiverOK(E, t, s)
    BY <1>5, <1>8, <2>2, <2>3, ZenonT(60) DEF ReceiverOK, Heard, Marked, RX!stream_out
  <2>5. Grown(r, t)
    BY <1>7, <2>2, <2>3, ZenonT(60) DEF Grown, Marked, RX!stream_out
  <2> QED
    BY <2>2, <2>4, <2>5
<1>9. CASE ~(f /\ RX!unassembled_bytes(r) = 0)
  <2>1. t = [r EXCEPT !.fin_set = f]
    BY <1>9, ZenonT(60) DEF NoteFin, f
  <2>2. /\ t \in [reassembler : {t.reassembler}, capacity : {E.cap}, syn_set : BOOLEAN,
                  fin_set : BOOLEAN, init_seqno : W!WrappingInt32]
        /\ t.reassembler = m /\ t.syn_set = r.syn_set /\ t.init_seqno = r.init_seqno
        /\ t.fin_set = f
    BY <1>4, <1>5, <2>1, ZenonT(60)
  <2>3. ReceiverOK(E, t, s)
    BY <1>5, <2>2, ZenonT(60) DEF ReceiverOK, Heard, RX!stream_out
  <2>4. Grown(r, t)
    BY <1>7, <2>2, ZenonT(60) DEF Grown, RX!stream_out
  <2> QED
    BY <2>2, <2>3, <2>4
<1> QED
  BY <1>8, <1>9

\* segment_received() of the receiver, for a segment that the other side has sent.
LEMMA ReceiverReceives ==
    ASSUME NEW E, Env(E), NEW s, Opposite(E, s), NEW r, ReceiverOK(E, r, s),
           NEW seg \in Segments, Carried(seg, s)
    PROVE  /\ ReceiverOK(E, RX!segment_received(r, seg), s)
           /\ RecvLater(r, RX!segment_received(r, seg))
<1> DEFINE new == RX!segment_received(r, seg)
           u == Sync(r, seg)
           v == RX!push_payload(u, seg)
           t == NoteFin(v, seg.fin \/ v.fin_set)
<1>1. s \in E.snd /\ seg.fin \in BOOLEAN /\ seg.syn \in BOOLEAN
  BY DEF Opposite, Segments
<1>2. Stored(r.reassembler, E.cap, s.stream.bytes_read) /\ r.syn_set \in BOOLEAN /\ RX!ack_seqno(r) \in Nat
  BY <1>1, ReceiverTypes, ZenonT(60) DEF ReceiverOK
<1>3. CASE ~seg.syn /\ ~r.syn_set
  <2>1. new = r
    BY <1>3, ZenonT(60) DEF RX!segment_received
  <2> QED
    BY <1>2, <2>1 DEF RecvLater
<1>4. CASE ~(~seg.syn /\ ~r.syn_set)
  <2>1. new = t
    <3>1. \A x : RX!With(x, LAMBDA k : RX!push_payload(k, seg)) = RX!push_payload(x, seg)
      BY ZenonT(60) DEF RX!With
    <3>2. new = RX!With(RX!With(u, LAMBDA k : RX!push_payload(k, seg)),
                        LAMBDA k : NoteFin(k, seg.fin \/ k.fin_set))
      BY <1>4, ZenonT(60) DEF RX!segment_received, NoteFin, Sync
    <3>3. \A x : RX!With(x, LAMBDA k : NoteFin(k, seg.fin \/ k.fin_set))
                   = NoteFin(x, seg.fin \/ x.fin_set)
      BY ZenonT(60) DEF RX!With
    <3> QED
      BY <3>1, <3>2, <3>3, ZenonT(60)
  <2>2. /\ ReceiverOK(E, u, s) /\ u.syn_set /\ u.init_seqno = s.isn /\ Grown(r, u)
        /\ r.syn_set => u.init_seqno = r.init_seqno
    <3>1. seg.syn \/ r.syn_set
      BY <1>1, <1>4
    <3>2. Started(E, r, u, s)
      BY <3>1, Synced, ZenonT(60)
    <3> QED
      BY <3>2 DEF Started
  <2> HIDE DEF u
  <2>3. Half(E, u, v, s, seg.fin)
    BY <2>2, PayloadPushed, ZenonT(60)
  <2> HIDE DEF v
  <2>4. /\ Heard(E, v, s, seg.fin \/ v.fin_set) /\ Grown(u, v)
        /\ v.syn_set = u.syn_set /\ v.init_seqno = u.init_seqno
    BY <2>3 DEF Half
  <2>5. /\ ReceiverOK(E, t, s) /\ Grown(v, t)
        /\ t.syn_set = v.syn_set /\ t.init_seqno = v.init_seqno
    <3> HIDE DEF t
    <3>1. t = NoteFin(v, seg.fin \/ v.fin_set)
      BY DEF t
    <3> QED
      BY <1>1, <2>4, <3>1, FinNoted, SMTT(60)
  <2> HIDE DEF t
  <2>6. Grown(r, t)
    <3>1. Stored(u.reassembler, E.cap, s.stream.bytes_read)
      BY <1>1, <2>2, ReceiverTypes, ZenonT(60) DEF ReceiverOK
    <3>2. Stored(v.reassembler, E.cap, s.stream.bytes_read)
      BY <1>1, <2>4, ReceiverTypes, ZenonT(60)
    <3>3. Stored(t.reassembler, E.cap, s.stream.bytes_read)
      BY <1>1, <2>5, ReceiverTypes, ZenonT(60) DEF ReceiverOK
    <3> QED
      BY <1>2, <2>2, <2>4, <2>5, <3>1, <3>2, <3>3, SMTT(60) DEF Grown, Stored
  <2>7. RecvLater(r, t)
    BY <1>1, <2>2, <2>4, <2>5, <2>6, GrownLater, ZenonT(60) DEF ReceiverOK
  <2> QED
    BY <2>1, <2>5, <2>7
<1> QED
  BY <1>3, <1>4
-----------------------------------------------------------------------------
\* seg is a segment that c may have sent: its numbers stand for what c's sender
\* has sent and for what c's receiver has got.
SegOK(seg, c) ==
    /\ seg \in Segments /\ Carried(seg, c.sender) /\ seg.win <= MaxWin
    /\ seg.ack => /\ c.receiver.syn_set
                  /\ \E a \in Nat : /\ a <= RX!ack_seqno(c.receiver)
                                    /\ seg.ackno = W!wrap(a, c.receiver.init_seqno)

IsConn(c) ==
    c \in [receiver : {c.receiver}, sender : {c.sender}, segments_out : {c.segments_out},
           last_recv_et : {c.last_recv_et}, linger_after_streams_finish : BOOLEAN,
           active : BOOLEAN]

\* What c has queued for the network.
Queued(c) ==
    /\ c.segments_out \in Seq(Segments)
    /\ \A i \in 1 .. Len(c.segments_out) : SegOK(c.segments_out[i], c)

\* The endpoint c, whose peer is o: what each has received and has had
\* acknowledged is what the other has sent and received.
Facing(E, c, o) ==
    /\ IsConn(c) /\ Queued(c)
    /\ c.sender \in E.snd /\ c.sender.isn = E.isn /\ c.sender.stream.bytes_written <= E.len
    /\ ReceiverOK(E, c.receiver, o.sender) /\ First(c.sender) <= Acked(o.receiver)
    /\ Opposite(E, o.sender)
    /\ ReceiverOK(E, o.receiver, c.sender) /\ First(o.sender) <= Acked(c.receiver)

\* d is c, later.
Goes(E, c, d, o) ==
    /\ Facing(E, d, o)
    /\ Later(c.sender, d.sender) /\ RecvLater(c.receiver, d.receiver)

\* d is c after something that leaves its flags alone.
Moves(E, c, d, o) ==
    /\ Goes(E, c, d, o)
    /\ d.linger_after_streams_finish = c.linger_after_streams_finish
    /\ d.active = c.active

\* What has been sent stays sent.
LEMMA CarriedLater ==
    ASSUME NEW seg \in Segments, NEW s, SenderFacts(s), NEW t, SenderFacts(t),
           Carried(seg, s), Later(s, t)
    PROVE  Carried(seg, t)
<1> DEFINE b == s.stream.bytes_read
           d == t.stream.bytes_read
<1>1. seg.syn => t.syn_sent /\ seg.seqno = t.isn
  BY DEF Carried, Later
<1>2. seg.fin => t.fin_sent
  BY DEF Carried, Later
<1>3. b \in Nat /\ d \in Nat /\ b <= d /\ (s.fin_sent => d = b)
  BY SMTT(60) DEF SenderFacts, Later
<1>4. ASSUME seg.payload # << >> PROVE \E i : Placed(seg, t, i)
  <2>1. PICK i : Placed(seg, s, i)
    BY <1>4 DEF Carried
  <2>2. Len(seg.payload) \in Nat
    BY DEF Segments
  <2>3. i \in Nat /\ i + Len(seg.payload) <= b /\ (seg.fin => i + Len(seg.payload) = b)
    BY <2>1 DEF Placed
  <2>4. i + Len(seg.payload) <= d
    BY <1>3, <2>2, <2>3, SMTT(60)
  <2>5. seg.fin => i + Len(seg.payload) = d
    BY <1>3, <2>3, ZenonT(60) DEF Carried
  <2>6. Placed(seg, t, i)
    BY <2>1, <2>4, <2>5, ZenonT(60) DEF Placed, Later
  <2> QED
    BY <2>6
<1> QED
  BY <1>1, <1>2, <1>4 DEF Carried

\* The numbers that an endpoint compares.
LEMMA FacingTypes ==
    ASSUME NEW E, Env(E), NEW c, NEW o, Facing(E, c, o)
    PROVE  /\ SenderFacts(c.sender) /\ SenderFacts(o.sender)
           /\ RX!ack_seqno(c.receiver) \in Nat /\ RX!ack_seqno(o.receiver) \in Nat
           /\ Acked(c.receiver) \in Nat /\ Acked(o.receiver) \in Nat
           /\ Stored(c.receiver.reassembler, E.cap, o.sender.stream.bytes_read)
           /\ c.receiver.syn_set \in BOOLEAN /\ c.receiver.init_seqno \in W!WrappingInt32
           /\ c.receiver.capacity = E.cap
           /\ o.receiver.syn_set => RX!ack_seqno(o.receiver) <= c.sender.next_seqno
<1>1. c.sender \in E.snd /\ o.sender \in E.snd
  BY DEF Facing, Opposite
<1>2. SenderFacts(c.sender) /\ SenderFacts(o.sender)
  BY <1>1, Facts
<1>3. /\ Stored(c.receiver.reassembler, E.cap, o.sender.stream.bytes_read)
      /\ c.receiver.syn_set \in BOOLEAN /\ c.receiver.init_seqno \in W!WrappingInt32
      /\ c.receiver.capacity = E.cap
      /\ RX!ack_seqno(c.receiver) \in Nat /\ Acked(c.receiver) \in Nat
  BY <1>1, ReceiverTypes, ZenonT(60) DEF Facing, ReceiverOK
<1>4. /\ RX!ack_seqno(o.receiver) \in Nat /\ Acked(o.receiver) \in Nat
      /\ o.receiver.syn_set => RX!ack_seqno(o.receiver) <= c.sender.next_seqno
  BY <1>1, ReceiverTypes, ZenonT(60) DEF Facing, ReceiverOK
<1> QED
  BY <1>2, <1>3, <1>4

\* What c may have sent, d may have sent.
LEMMA SegLater ==
    ASSUME NEW seg, NEW c, NEW d, SegOK(seg, c), SenderFacts(c.sender), SenderFacts(d.sender),
           Later(c.sender, d.sender), RecvLater(c.receiver, d.receiver),
           RX!ack_seqno(c.receiver) \in Nat, RX!ack_seqno(d.receiver) \in Nat
    PROVE  SegOK(seg, d)
<1>1. Carried(seg, d.sender)
  BY CarriedLater, ZenonT(60) DEF SegOK
<1>2. ASSUME seg.ack
      PROVE  /\ d.receiver.syn_set
             /\ \E a \in Nat : /\ a <= RX!ack_seqno(d.receiver)
                               /\ seg.ackno = W!wrap(a, d.receiver.init_seqno)
  <2>1. c.receiver.syn_set
    BY <1>2 DEF SegOK
  <2>2. PICK a \in Nat : /\ a <= RX!ack_seqno(c.receiver)
                         /\ seg.ackno = W!wrap(a, c.receiver.init_seqno)
    BY <1>2 DEF SegOK
  <2>3. /\ d.receiver.syn_set /\ d.receiver.init_seqno = c.receiver.init_seqno
        /\ RX!ack_seqno(c.receiver) <= RX!ack_seqno(d.receiver)
    BY <2>1 DEF RecvLater
  <2>4. a <= RX!ack_seqno(d.receiver)
    BY <2>2, <2>3, SMTT(60)
  <2> QED
    BY <2>2, <2>3, <2>4
<1> QED
  BY <1>1, <1>2 DEF SegOK

\* The queue of c is one of d.
LEMMA QueueLater ==
    ASSUME NEW c, NEW d, Queued(c), d.segments_out = c.segments_out,
           SenderFacts(c.sender), SenderFacts(d.sender),
           Later(c.sender, d.sender), RecvLater(c.receiver, d.receiver),
           RX!ack_seqno(c.receiver) \in Nat, RX!ack_seqno(d.receiver) \in Nat
    PROVE  Queued(d)
<1>1. ASSUME NEW i \in 1 .. Len(c.segments_out) PROVE SegOK(c.segments_out[i], d)
  <2>1. SegOK(c.segments_out[i], c)
    BY DEF Queued
  <2> QED
    BY <2>1, SegLater, ZenonT(60)
<1> QED
  BY <1>1 DEF Queued

\* c with another sender that is no earlier and has had no more acknowledged
\* than the peer has received.
Resent(E, c, o, s) ==
    /\ s \in E.snd /\ Later(c.sender, s) /\ s.stream.bytes_written <= E.len
    /\ First(s) <= Acked(o.receiver)

\* A connection whose sender has been replaced by a later one.
LEMMA SenderMoved ==
    ASSUME NEW E, Env(E), NEW c, NEW o, Facing(E, c, o), NEW s, Resent(E, c, o, s),
           NEW d, d = [c EXCEPT !.sender = s]
    PROVE  /\ Moves(E, c, d, o)
           /\ d.sender = s /\ d.receiver = c.receiver /\ d.segments_out = c.segments_out
<1>1. /\ IsConn(d) /\ d.sender = s /\ d.receiver = c.receiver /\ d.segments_out = c.segments_out
      /\ d.linger_after_streams_finish = c.linger_after_streams_finish /\ d.active = c.active
  BY ZenonT(60) DEF Facing, IsConn
<1>2. /\ SenderFacts(c.sender) /\ SenderFacts(o.sender) /\ RX!ack_seqno(c.receiver) \in Nat
  BY FacingTypes, ZenonT(60)
<1>3. SenderFacts(s)
  BY Facts, ZenonT(60) DEF Resent
<1>4. RecvLater(c.receiver, d.receiver)
  BY <1>1, <1>2 DEF RecvLater
<1>5. Queued(d)
  <2>1. /\ Queued(c) /\ SenderFacts(d.sender) /\ Later(c.sender, d.sender)
        /\ RX!ack_seqno(d.receiver) \in Nat
    BY <1>1, <1>2, <1>3, ZenonT(60) DEF Facing, Resent
  <2> QED
    BY <2>1, <1>1, <1>2, <1>4, QueueLater, ZenonT(60)
<1>6. s.stream.bytes_read < RX!SR!SIZE_MAX
  <2>1. RX!SR!SIZE_MAX \in Nat
    BY DEF RX!SR!SIZE_MAX, RX!SR!SIZE_MOD
  <2> QED
    BY <2>1, <1>3, SMTT(60) DEF SenderFacts, Resent, Env
<1>7. ReceiverOK(E, o.receiver, s)
  BY <1>6, ReceiverLater, ZenonT(60) DEF Facing, Resent
<1>8. s.isn = E.isn
  BY DEF Facing, Resent, Later
<1>9. Facing(E, d, o)
  BY <1>1, <1>5, <1>7, <1>8, ZenonT(60) DEF Facing, Resent
<1> QED
  BY <1>1, <1>4, <1>9, ZenonT(60) DEF Moves, Goes, Resent

\* c with another receiver.
LEMMA ReceiverMoved ==
    ASSUME NEW E, Env(E), NEW c, NEW o, Facing(E, c, o),
           NEW r, ReceiverOK(E, r, o.sender), RecvLater(c.receiver, r),
           NEW d, d = [c EXCEPT !.receiver = r]
    PROVE  /\ Moves(E, c, d, o)
           /\ d.sender = c.sender /\ d.receiver = r /\ d.segments_out = c.segments_out
<1>1. /\ IsConn(d) /\ d.sender = c.sender /\ d.receiver = r /\ d.segments_out = c.segments_out
      /\ d.linger_after_streams_finish = c.linger_after_streams_finish /\ d.active = c.active
  BY ZenonT(60) DEF Facing, IsConn
<1>2. /\ SenderFacts(c.sender) /\ SenderFacts(o.sender) /\ RX!ack_seqno(c.receiver) \in Nat
      /\ Acked(c.receiver) \in Nat /\ c.receiver.syn_set \in BOOLEAN
  BY FacingTypes, ZenonT(60)
<1>3. RX!ack_seqno(r) \in Nat /\ Acked(r) \in Nat
  BY ReceiverTypes, ZenonT(60) DEF Facing, Opposite, ReceiverOK
<1>4. Later(c.sender, d.sender)
  BY <1>1, <1>2 DEF Later, SenderFacts
<1>5. Queued(d)
  <2>1. /\ Queued(c) /\ SenderFacts(d.sender) /\ RX!ack_seqno(d.receiver) \in Nat
        /\ RecvLater(c.receiver, d.receiver)
    BY <1>1, <1>2, <1>3, ZenonT(60) DEF Facing
  <2> QED
    BY <2>1, <1>1, <1>2, <1>4, QueueLater, ZenonT(60)
<1>6. Acked(c.receiver) <= Acked(r)
  <2>1. CASE c.receiver.syn_set
    BY <2>1, ZenonT(60) DEF Acked, RecvLater
  <2>2. CASE ~c.receiver.syn_set
    BY <2>2, <1>3 DEF Acked
  <2> QED
    BY <1>2, <2>1, <2>2
<1>7. First(o.sender) <= Acked(r)
  <2>1. First(o.sender) <= Acked(c.receiver) /\ First(o.sender) \in Nat
    BY <1>2 DEF Facing, SenderFacts
  <2> QED
    BY <2>1, <1>2, <1>3, <1>6, SMTT(60)
<1>8. Facing(E, d, o)
  BY <1>1, <1>5, <1>7, ZenonT(60) DEF Facing
<1> QED
  BY <1>1, <1>4, <1>8, ZenonT(60) DEF Moves, Goes

\* Later is transitive.
LEMMA LaterTwice ==
    ASSUME NEW s, NEW t, NEW u, SenderFacts(s), SenderFacts(t), SenderFacts(u),
           Later(s, t), Later(t, u)
    PROVE  Later(s, u)
<1>1. /\ s.next_seqno \in Nat /\ t.next_seqno \in Nat /\ u.next_seqno \in Nat
      /\ s.stream.bytes_read \in Nat /\ t.stream.bytes_read \in Nat
      /\ u.stream.bytes_read \in Nat
  BY ZenonT(60) DEF SenderFacts
<1> QED
  BY <1>1, SMTT(60) DEF Later

\* One after another.
LEMMA GoesTwice ==
    ASSUME NEW E, Env(E), NEW b, NEW c, NEW d, NEW o,
           Facing(E, b, o), Goes(E, b, c, o), Goes(E, c, d, o)
    PROVE  Goes(E, b, d, o)
<1>1. /\ SenderFacts(b.sender) /\ RX!ack_seqno(b.receiver) \in Nat
  BY FacingTypes, ZenonT(60)
<1>2. /\ SenderFacts(c.sender) /\ RX!ack_seqno(c.receiver) \in Nat
  BY FacingTypes, ZenonT(60) DEF Goes
<1>3. /\ SenderFacts(d.sender) /\ RX!ack_seqno(d.receiver) \in Nat
  BY FacingTypes, ZenonT(60) DEF Goes
<1>4. Later(b.sender, d.sender)
  BY <1>1, <1>2, <1>3, LaterTwice, ZenonT(60) DEF Goes
<1>5. RecvLater(b.receiver, d.receiver)
  BY <1>1, <1>2, <1>3, SMTT(60) DEF Goes, RecvLater
<1> QED
  BY <1>4, <1>5 DEF Goes

\* Moves is transitive.
LEMMA MovesTwice ==
    ASSUME NEW E, Env(E), NEW b, NEW c, NEW d, NEW o,
           Facing(E, b, o), Moves(E, b, c, o), Moves(E, c, d, o)
    PROVE  Moves(E, b, d, o)
<1>1. Goes(E, b, d, o)
  BY GoesTwice, ZenonT(60) DEF Moves
<1> QED
  BY <1>1, ZenonT(60) DEF Moves

\* The header fields that the receiver provides.
LEMMA Stamped ==
    ASSUME NEW E, Env(E), NEW c, NEW o, Facing(E, c, o),
           NEW seg \in Segments, Carried(seg, c.sender)
    PROVE  SegOK(stamp(c, seg), c)
<1> DEFINE r == c.receiver
           t == stamp(c, seg)
           w == BS!MinOf(RX!window_size(r), MAX_WIN)
           a == IF RX!has_ackno(r) THEN RX!ackno(r) ELSE seg.ackno
<1>1. /\ Stored(r.reassembler, E.cap, o.sender.stream.bytes_read) /\ r.capacity = E.cap
      /\ r.syn_set \in BOOLEAN /\ r.init_seqno \in W!WrappingInt32 /\ RX!ack_seqno(r) \in Nat
  BY FacingTypes, ZenonT(60)
<1>2. w \in Nat /\ w <= MaxWin
  <2>1. RX!window_size(r) = E.cap - Len(r.reassembler.output.buf)
    BY <1>1, ZenonT(60) DEF RX!window_size, RX!BS!buffer_size, RX!stream_out
  <2>2. RX!window_size(r) \in Nat /\ RX!window_size(r) <= E.cap /\ E.cap \in Nat
    BY <2>1, <1>1, SMTT(60) DEF Stored, Env
  <2>3. MAX_WIN \in Nat /\ MaxWin \in Int
    BY DEF Env, MaxWin
  <2>4. BS!MinOf(E.cap, MAX_WIN) <= MaxWin
    BY DEF Env
  <2> QED
    BY <2>2, <2>3, <2>4, SMTT(60) DEF BS!MinOf
<1>3. RX!has_ackno(r) <=> r.syn_set
  BY DEF RX!has_ackno
<1>4. RX!ackno(r) = W!wrap(RX!ack_seqno(r), r.init_seqno)
  BY NumberOps, ZenonT(60) DEF RX!ackno
<1>5. a \in Nat
  <2>1. W!wrap(RX!ack_seqno(r), r.init_seqno) \in Nat
    <3>1. Base \in Nat /\ Base > 2
      BY DEF Env
    <3> QED
      BY <1>1, <3>1, SMTT(60) DEF W!wrap, W!plus, W!WrappingInt32
  <2>2. seg.ackno \in Nat
    BY DEF Segments
  <2> QED
    BY <2>1, <2>2, <1>4
<1>6. t = [seg EXCEPT !.win = w, !.ack = RX!has_ackno(r), !.ackno = a]
  BY ZenonT(60) DEF stamp
<1>7. RX!has_ackno(r) \in BOOLEAN
  BY <1>1 DEF RX!has_ackno
<1> HIDE DEF w, a, t
<1>8. /\ t \in Segments /\ t.win = w /\ t.ack = RX!has_ackno(r) /\ t.ackno = a
      /\ t.seqno = seg.seqno /\ t.syn = seg.syn /\ t.fin = seg.fin /\ t.payload = seg.payload
  BY <1>2, <1>5, <1>6, <1>7, ZenonT(60) DEF Segments
<1>9. Carried(t, c.sender)
  BY <1>8, ZenonT(60) DEF Carried, Placed
<1>10. ASSUME t.ack
       PROVE  /\ r.syn_set
              /\ \E k \in Nat : k <= RX!ack_seqno(r) /\ t.ackno = W!wrap(k, r.init_seqno)
  <2>1. r.syn_set /\ t.ackno = W!wrap(RX!ack_seqno(r), r.init_seqno)
    BY <1>3, <1>4, <1>8, <1>10, ZenonT(60) DEF a
  <2>2. RX!ack_seqno(r) <= RX!ack_seqno(r)
    BY <1>1
  <2> QED
    BY <2>1, <2>2, <1>1, ZenonT(60)
<1> QED
  BY <1>2, <1>8, <1>9, <1>10, ZenonT(60) DEF SegOK, t

\* c with another queue, whose segments c may have sent.
LEMMA QueueMoved ==
    ASSUME NEW E, Env(E), NEW c, NEW o, Facing(E, c, o),
           NEW q \in Seq(Segments), \A i \in 1 .. Len(q) : SegOK(q[i], c),
           NEW d, d = [c EXCEPT !.segments_out = q]
    PROVE  /\ Moves(E, c, d, o)
           /\ d.sender = c.sender /\ d.receiver = c.receiver /\ d.segments_out = q
<1>1. /\ IsConn(d) /\ d.sender = c.sender /\ d.receiver = c.receiver /\ d.segments_out = q
      /\ d.linger_after_streams_finish = c.linger_after_streams_finish /\ d.active = c.active
  BY ZenonT(60) DEF Facing, IsConn
<1>2. /\ SenderFacts(c.sender) /\ RX!ack_seqno(c.receiver) \in Nat
  BY FacingTypes, ZenonT(60)
<1>3. Later(c.sender, d.sender) /\ RecvLater(c.receiver, d.receiver)
  BY <1>1, <1>2 DEF Later, RecvLater, SenderFacts
<1>4. Queued(d)
  BY <1>1, ZenonT(60) DEF Queued, SegOK
<1>5. Facing(E, d, o)
  BY <1>1, <1>4, ZenonT(60) DEF Facing
<1> QED
  BY <1>1, <1>3, <1>5, ZenonT(60) DEF Moves, Goes

\* Sending something leaves what is acknowledged alone.
LEMMA OnwardResent ==
    ASSUME NEW E, NEW c, NEW o, Facing(E, c, o), NEW s, Onward(E.snd, c.sender, s)
    PROVE  Resent(E, c, o, s)
BY ZenonT(60) DEF Facing, Onward, Resent

\* Everything of c's stream has been sent and acknowledged, its end included.
Settled(c) ==
    /\ c.sender.next_seqno = c.sender.stream.bytes_written + 2
    /\ First(c.sender) = c.sender.next_seqno

\* The reasons to leave.
Over(c) == inbound(c).error \/ Settled(c)

\* d is c with a sender that may have sent more.
Sends(E, c, d, o) ==
    /\ Moves(E, c, d, o) /\ d.receiver = c.receiver
    /\ Over(c) => Over(d)

\* A sender that goes on without an acknowledgment makes its connection send.
LEMMA OnwardSends ==
    ASSUME NEW E, Env(E), NEW c, NEW o, Facing(E, c, o), NEW s, Onward(E.snd, c.sender, s),
           NEW d, d = [c EXCEPT !.sender = s]
    PROVE  Sends(E, c, d, o) /\ d.sender = s /\ d.segments_out = c.segments_out
<1>1. Resent(E, c, o, s)
  BY OnwardResent, ZenonT(60)
<1>2. /\ Moves(E, c, d, o)
      /\ d.sender = s /\ d.receiver = c.receiver /\ d.segments_out = c.segments_out
  BY <1>1, SenderMoved, SMTT(60)
<1>3. inbound(d) = inbound(c)
  BY <1>2, ZenonT(60) DEF inbound
<1>4. ASSUME Settled(c) PROVE Settled(d)
  <2>1. SenderFacts(c.sender) /\ SenderFacts(s)
    BY <1>1, FacingTypes, Facts, ZenonT(60) DEF Resent
  <2>2. s.next_seqno = s.stream.bytes_written + 2 /\ First(s) = s.next_seqno
    BY <1>4, <2>1, SMTT(60) DEF Settled, Onward, Later, SenderFacts
  <2> QED
    BY <1>2, <2>2, ZenonT(60) DEF Settled
<1> QED
  BY <1>2, <1>3, <1>4, ZenonT(60) DEF Sends, Over

\* What Sends does twice.
LEMMA SendsTwice ==
    ASSUME NEW E, Env(E), NEW b, NEW c, NEW d, NEW o,
           Facing(E, b, o), Sends(E, b, c, o), Sends(E, c, d, o)
    PROVE  Sends(E, b, d, o)
<1>1. Moves(E, b, d, o)
  BY MovesTwice, ZenonT(60) DEF Sends
<1> QED
  BY <1>1, ZenonT(60) DEF Sends

\* clear_sendbuf() moves what the sender has queued to the connection's queue.
LEMMA Cleared ==
    ASSUME NEW E, Env(E), NEW c, NEW o, Facing(E, c, o)
    PROVE  Sends(E, c, clear_sendbuf(c), o)
<1> DEFINE d == clear_sendbuf(c)
           queue == c.sender.segments_out
           new == [i \in 1 .. Len(queue) |-> stamp(c, queue[i])]
           q == c.segments_out \o new
           e == [c EXCEPT !.segments_out = q]
           s == [c.sender EXCEPT !.segments_out = << >>]
<1>1. SenderFacts(c.sender) /\ c.segments_out \in Seq(Segments)
  BY FacingTypes, ZenonT(60) DEF Facing, Queued
<1>2. queue \in Seq(Segments) /\ \A i \in 1 .. Len(queue) : Carried(queue[i], c.sender)
  BY <1>1 DEF SenderFacts
<1>3. ASSUME NEW i \in 1 .. Len(queue) PROVE SegOK(stamp(c, queue[i]), c)
  <2>1. queue[i] \in Segments /\ Carried(queue[i], c.sender)
    BY <1>2
  <2> QED
    BY <2>1, Stamped, ZenonT(60)
<1>4. Len(queue) \in Nat
  BY <1>2
<1> HIDE DEF queue
<1>5. \A i \in 1 .. Len(queue) : SegOK(new[i], c)
  BY <1>3, ZenonT(60)
<1>6. new \in Seq(Segments) /\ Len(new) = Len(queue)
  <2>1. \A i \in 1 .. Len(queue) : stamp(c, queue[i]) \in Segments
    BY <1>3, ZenonT(60) DEF SegOK
  <2> QED
    BY <1>4, <2>1, SMTT(60)
<1> HIDE DEF new
<1>7. q \in Seq(Segments) /\ \A i \in 1 .. Len(q) : SegOK(q[i], c)
  <2>1. q \in Seq(Segments) /\ Len(q) = Len(c.segments_out) + Len(new)
    BY <1>1, <1>6, SMTT(60)
  <2>2. ASSUME NEW i \in 1 .. Len(q) PROVE SegOK(q[i], c)
    <3>1. CASE i <= Len(c.segments_out)
      <4>1. q[i] = c.segments_out[i] /\ i \in 1 .. Len(c.segments_out)
        BY <1>1, <1>6, <2>1, <3>1, SMTT(60)
      <4> QED
        BY <4>1, ZenonT(60) DEF Facing, Queued
    <3>2. CASE ~(i <= Len(c.segments_out))
      <4>1. /\ q[i] = new[i - Len(c.segments_out)]
            /\ i - Len(c.segments_out) \in 1 .. Len(queue)
        BY <1>1, <1>4, <1>6, <2>1, <3>2, SMTT(60)
      <4> QED
        BY <4>1, <1>5, ZenonT(60)
    <3> QED
      BY <3>1, <3>2
  <2> QED
    BY <2>1, <2>2
<1> HIDE DEF q
<1>8. /\ Moves(E, c, e, o)
      /\ e.sender = c.sender /\ e.receiver = c.receiver /\ e.segments_out = q
  <2> HIDE DEF e
  <2>1. e = [c EXCEPT !.segments_out = q]
    BY DEF e
  <2> QED
    BY <1>7, <2>1, QueueMoved, SMTT(60)
<1>9. Sends(E, c, e, o)
  BY <1>8, ZenonT(60) DEF Sends, Over, Settled, inbound
<1>10. Onward(E.snd, e.sender, s)
  BY <1>8, ZenonT(60) DEF Facing, Env, SenderLaws
<1>11. d = [e EXCEPT !.sender = s]
  BY ZenonT(60) DEF clear_sendbuf, Facing, IsConn, q, new, queue
<1> HIDE DEF d, e, s
<1>12. Sends(E, e, d, o)
  BY <1>8, <1>10, <1>11, OnwardSends, ZenonT(60) DEF Moves, Goes
<1>13. Sends(E, c, d, o)
  BY <1>9, <1>12, SendsTwice, ZenonT(60)
<1> QED
  BY <1>13 DEF d

\* d differs from c in its flags only.
Alike(c, d) ==
    /\ IsConn(d) /\ d.sender = c.sender /\ d.receiver = c.receiver
    /\ d.segments_out = c.segments_out

\* What is known of an endpoint rests on its sender, receiver and queue only.
LEMMA AlikeFaces ==
    ASSUME NEW E, Env(E), NEW c, NEW o, Facing(E, c, o), NEW d, Alike(c, d)
    PROVE  /\ Facing(E, d, o) /\ Later(c.sender, d.sender) /\ RecvLater(c.receiver, d.receiver)
           /\ Over(c) => Over(d)
<1>1. /\ SenderFacts(c.sender) /\ RX!ack_seqno(c.receiver) \in Nat
  BY FacingTypes, ZenonT(60)
<1>2. Later(c.sender, d.sender) /\ RecvLater(c.receiver, d.receiver)
  BY <1>1 DEF Alike, Later, RecvLater, SenderFacts
<1>3. Queued(d)
  BY ZenonT(60) DEF Alike, Facing, Queued, SegOK
<1>4. Facing(E, d, o)
  BY <1>3, ZenonT(60) DEF Alike, Facing
<1>5. Over(c) => Over(d)
  BY ZenonT(60) DEF Alike, Over, Settled, inbound
<1> QED
  BY <1>2, <1>4, <1>5

\* Doing nothing is a way to send.
LEMMA SendsNothing ==
    ASSUME NEW E, Env(E), NEW c, NEW o, Facing(E, c, o)
    PROVE  Sends(E, c, c, o)
<1>1. Alike(c, c)
  BY DEF Alike, Facing
<1> QED
  BY <1>1, AlikeFaces, ZenonT(60) DEF Sends, Moves, Goes

\* send_empty().
LEMMA EmptySends ==
    ASSUME NEW E, Env(E), NEW c, NEW o, Facing(E, c, o), NEW rst \in BOOLEAN
    PROVE  Sends(E, c, [c EXCEPT !.sender = TX!send_empty_segment(@, FALSE, FALSE, rst)], o)
<1> DEFINE s == TX!send_empty_segment(c.sender, FALSE, FALSE, rst)
           d == [c EXCEPT !.sender = TX!send_empty_segment(@, FALSE, FALSE, rst)]
<1>1. Onward(E.snd, c.sender, s)
  BY ZenonT(60) DEF Facing, Env, SenderLaws
<1>2. d = [c EXCEPT !.sender = s]
  BY ZenonT(60) DEF Facing, IsConn
<1> HIDE DEF s, d
<1>3. Sends(E, c, d, o)
  BY <1>1, <1>2, OnwardSends, SMTT(60)
<1> QED
  BY <1>3 DEF d

\* fill_window().
LEMMA FillSends ==
    ASSUME NEW E, Env(E), NEW c, NEW o, Facing(E, c, o)
    PROVE  Sends(E, c, [c EXCEPT !.sender = TX!fill_window(@)], o)
<1> DEFINE s == TX!fill_window(c.sender)
           d == [c EXCEPT !.sender = TX!fill_window(@)]
<1>1. Onward(E.snd, c.sender, s)
  BY ZenonT(60) DEF Facing, Env, SenderLaws
<1>2. d = [c EXCEPT !.sender = s]
  BY ZenonT(60) DEF Facing, IsConn
<1> HIDE DEF s, d
<1>3. Sends(E, c, d, o)
  BY <1>1, <1>2, OnwardSends, SMTT(60)
<1> QED
  BY <1>3 DEF d

\* send_rst_segment().
LEMMA RstSends ==
    ASSUME NEW E, Env(E), NEW c, NEW o, Facing(E, c, o)
    PROVE  Sends(E, c, send_rst_segment(c), o)
<1> DEFINE d == [c EXCEPT !.sender = TX!send_empty_segment(@, FALSE, FALSE, TRUE)]
<1>1. send_rst_segment(c) = clear_sendbuf(d)
  <2>1. \A x : With(x, clear_sendbuf) = clear_sendbuf(x)
    BY ZenonT(60) DEF With
  <2> QED
    BY <2>1, ZenonT(60) DEF send_rst_segment
<1>2. Sends(E, c, d, o)
  BY EmptySends, ZenonT(60)
<1> HIDE DEF d
<1>3. Sends(E, d, clear_sendbuf(d), o)
  BY <1>2, Cleared, ZenonT(60) DEF Sends, Moves, Goes
<1> QED
  BY <1>1, <1>2, <1>3, SendsTwice, ZenonT(60)

\* A segment is answered if it has to be.
LEMMA AnswerSends ==
    ASSUME NEW E, Env(E), NEW c, NEW o, Facing(E, c, o), NEW seg
    PROVE  Sends(E, c, answer(c, seg), o)
<1> DEFINE d == [c EXCEPT !.sender = TX!fill_window(@)]
           ensure(x) == IF x.sender.segments_out # << >> THEN x ELSE send_empty(x)
<1> HIDE DEF ensure
<1>1. \A x : With(x, ensure) = ensure(x)
  BY ZenonT(60) DEF With
<1>2. answer(c, seg) = c \/ answer(c, seg) = ensure(d)
  BY <1>1, ZenonT(60) DEF answer, ensure
<1>3. Sends(E, c, d, o)
  BY FillSends, ZenonT(60)
<1>4. Sends(E, c, c, o)
  BY SendsNothing, ZenonT(60)
<1> HIDE DEF d
<1>5. Sends(E, d, send_empty(d), o)
  BY <1>3, EmptySends, ZenonT(60) DEF Sends, Moves, Goes, send_empty
<1>6. Sends(E, c, send_empty(d), o)
  BY <1>3, <1>5, SendsTwice, ZenonT(60)
<1> QED
  BY <1>2, <1>3, <1>4, <1>6, ZenonT(60) DEF ensure

\* So is a keep-alive probe.
LEMMA ProbeSends ==
    ASSUME NEW E, Env(E), NEW c, NEW o, Facing(E, c, o), NEW seg
    PROVE  Sends(E, c, answer_keep_alive(c, seg), o)
<1>1. answer_keep_alive(c, seg) = c \/ answer_keep_alive(c, seg) = send_empty(c)
  BY ZenonT(60) DEF answer_keep_alive
<1>2. Sends(E, c, c, o)
  BY SendsNothing, ZenonT(60)
<1>3. Sends(E, c, send_empty(c), o)
  BY EmptySends, ZenonT(60) DEF send_empty
<1> QED
  BY <1>1, <1>2, <1>3, ZenonT(60)

\* The acknowledgment of a segment that the peer has sent is no more than the
\* peer has received, and unwrap() finds it.
LEMMA AckMoves ==
    ASSUME NEW E, Env(E), NEW c, NEW o, Facing(E, c, o), NEW seg, SegOK(seg, o)
    PROVE  Moves(E, c, take_ack(c, seg), o)
<1> DEFINE s == TX!ack_received(c.sender, seg.ackno, seg.win)
           d == take_ack(c, seg)
<1>1. CASE ~seg.ack
  <2>1. d = c
    BY <1>1 DEF take_ack
  <2> QED
    BY <2>1, SendsNothing, ZenonT(60) DEF Sends
<1>2. CASE seg.ack
  <2>1. d = [c EXCEPT !.sender = s]
    BY <1>2, ZenonT(60) DEF take_ack, Facing, IsConn
  <2>2. PICK a \in Nat : /\ a <= RX!ack_seqno(o.receiver)
                         /\ seg.ackno = W!wrap(a, o.receiver.init_seqno)
    BY <1>2 DEF SegOK
  <2>3. /\ o.receiver.syn_set /\ o.receiver.init_seqno = c.sender.isn
        /\ Acked(o.receiver) = RX!ack_seqno(o.receiver)
    BY <1>2, ZenonT(60) DEF SegOK, Facing, ReceiverOK, Heard, Acked
  <2>4. /\ SenderFacts(c.sender) /\ RX!ack_seqno(o.receiver) \in Nat
        /\ RX!ack_seqno(o.receiver) <= c.sender.next_seqno
    BY <2>3, FacingTypes, ZenonT(60)
  <2>5. /\ c.sender.isn \in W!WrappingInt32 /\ c.sender.next_seqno \in Nat
        /\ c.sender.next_seqno <= E.len + 2 /\ E.len \in Nat /\ 2 * (E.len + 2) < Base
    <3>1. c.sender.stream.bytes_written <= E.len
      BY DEF Facing
    <3> QED
      BY <3>1, <2>4, SMTT(60) DEF SenderFacts, Env
  <2>6. 2 * (a - c.sender.next_seqno) < Base /\ 2 * (c.sender.next_seqno - a) < Base
    <3>1. Base \in Nat
      BY DEF Env
    <3> QED
      BY <3>1, <2>2, <2>4, <2>5, SMTT(60)
  <2>7. W!unwrap(seg.ackno, c.sender.isn, c.sender.next_seqno) = a
    <3>1. W!unwrap(W!wrap(a, c.sender.isn), c.sender.isn, c.sender.next_seqno) = a
      BY <2>5, <2>6, ZenonT(60) DEF Env, NumberLaw
    <3> QED
      BY <2>2, <2>3, <3>1, ZenonT(60)
  <2>8. Advanced(E.snd, c.sender, s, seg.ackno)
    <3>1. seg.ackno \in Nat /\ seg.win \in 0 .. MaxWin
      <4>1. MaxWin \in Int
        BY DEF Env, MaxWin
      <4>2. seg.ackno \in Nat /\ seg.win \in Nat /\ seg.win <= MaxWin
        BY DEF SegOK, Segments
      <4> QED
        BY <4>1, <4>2
    <3> QED
      BY <3>1, ZenonT(60) DEF Facing, Env, SenderLaws
  <2> HIDE DEF s
  <2>9. First(s) <= Acked(o.receiver)
    <3>1. SenderFacts(s)
      BY <2>8, Facts, ZenonT(60) DEF Advanced
    <3>2. First(s) \in Nat /\ (First(s) = First(c.sender) \/ First(s) <= a)
      BY <2>7, <2>8, <3>1, ZenonT(60) DEF Advanced, SenderFacts
    <3>3. First(c.sender) <= RX!ack_seqno(o.receiver)
      BY <2>3, ZenonT(60) DEF Facing
    <3> QED
      BY <2>2, <2>3, <2>4, <3>2, <3>3, SMTT(60)
  <2>10. Resent(E, c, o, s)
    BY <2>8, <2>9, ZenonT(60) DEF Advanced, Resent, Facing
  <2> HIDE DEF d
  <2>11. Moves(E, c, d, o)
    BY <2>1, <2>10, SenderMoved, SMTT(60)
  <2> QED
    BY <2>11 DEF d
<1> QED
  BY <1>1, <1>2

\* A receiver whose output has been marked as failed or has been read.
LEMMA ReceiverMarked ==
    ASSUME NEW E, Env(E), NEW s, s \in E.snd, NEW r, ReceiverOK(E, r, s),
           NEW m, Marked(E.rsm, r.reassembler, m, E.cap, s.stream.bytes_read),
           m.output.input_ended = r.reassembler.output.input_ended,
           NEW t, t = [r EXCEPT !.reassembler = m]
    PROVE  /\ ReceiverOK(E, t, s) /\ RecvLater(r, t) /\ RX!stream_out(t) = m.output
<1>1. /\ t \in [reassembler : {t.reassembler}, capacity : {E.cap}, syn_set : BOOLEAN,
                fin_set : BOOLEAN, init_seqno : W!WrappingInt32]
      /\ t.reassembler = m /\ t.syn_set = r.syn_set /\ t.fin_set = r.fin_set
      /\ t.init_seqno = r.init_seqno
  BY ZenonT(60) DEF ReceiverOK, Heard
<1>2. /\ RX!stream_out(t) = m.output
      /\ RX!stream_out(t).input_ended = RX!stream_out(r).input_ended
  BY <1>1, ZenonT(60) DEF RX!stream_out
<1>3. ReceiverOK(E, t, s)
  BY <1>1, <1>2, ZenonT(60) DEF ReceiverOK, Heard, Marked
<1>4. Stored(r.reassembler, E.cap, s.stream.bytes_read)
  BY ReceiverTypes, ZenonT(60) DEF ReceiverOK
<1>5. r.reassembler.wait_index <= t.reassembler.wait_index
  <2>1. t.reassembler.wait_index = r.reassembler.wait_index
    BY <1>1, ZenonT(60) DEF Marked
  <2> QED
    BY <2>1, <1>4 DEF Stored
<1>6. Grown(r, t)
  BY <1>2, <1>5, ZenonT(60) DEF Grown
<1>7. RecvLater(r, t)
  BY <1>1, <1>3, <1>6, GrownLater, ZenonT(60) DEF ReceiverOK
<1> QED
  BY <1>2, <1>3, <1>7

\* d is c after something that may have ended it.
Leaves(E, c, d, o) ==
    /\ Goes(E, c, d, o)
    /\ d.linger_after_streams_finish = c.linger_after_streams_finish
    /\ d.active = c.active \/ Over(d)

\* d is c after one of its methods: it lingers no more only if it has seen the
\* end of the peer's stream before its own.
Became(E, c, d, o) ==
    /\ Goes(E, c, d, o)
    /\ \/ d.linger_after_streams_finish = c.linger_after_streams_finish
       \/ inbound(d).input_ended /\ ~outbound(d).input_ended
    /\ d.active = c.active \/ Over(d)

\* Leaving after a move is leaving.
LEMMA LeavesAfter ==
    ASSUME NEW E, Env(E), NEW b, NEW c, NEW d, NEW o,
           Facing(E, b, o), Moves(E, b, c, o), Leaves(E, c, d, o)
    PROVE  Leaves(E, b, d, o)
<1>1. Goes(E, b, d, o)
  BY GoesTwice, ZenonT(60) DEF Moves, Leaves
<1> QED
  BY <1>1, ZenonT(60) DEF Moves, Leaves

\* Sending after leaving is leaving.
LEMMA SendsAfter ==
    ASSUME NEW E, Env(E), NEW b, NEW c, NEW d, NEW o,
           Facing(E, b, o), Leaves(E, b, c, o), Sends(E, c, d, o)
    PROVE  Leaves(E, b, d, o)
<1>1. Goes(E, b, d, o)
  BY GoesTwice, ZenonT(60) DEF Moves, Leaves, Sends
<1> QED
  BY <1>1, ZenonT(60) DEF Moves, Leaves, Sends

\* A reset, or giving up, marks both streams as failed.
LEMMA UncleanLeaves ==
    ASSUME NEW E, Env(E), NEW c, NEW o, Facing(E, c, o)
    PROVE  Leaves(E, c, shutdown(c, FALSE), o)
<1> DEFINE s == [c.sender EXCEPT !.stream = BS!set_error(@)]
           m == [c.receiver.reassembler EXCEPT !.output = BS!set_error(@)]
           r == [c.receiver EXCEPT !.reassembler = m]
           e == [c EXCEPT !.sender = s]
           f == [e EXCEPT !.receiver = r]
           d == shutdown(c, FALSE)
<1>1. d = [f EXCEPT !.active = FALSE]
  BY ZenonT(60) DEF shutdown, Facing, IsConn, ReceiverOK, Heard
<1>2. Onward(E.snd, c.sender, s)
  BY ZenonT(60) DEF Facing, Env, SenderLaws
<1>3. /\ Marked(E.rsm, c.receiver.reassembler, m, E.cap, o.sender.stream.bytes_read)
      /\ m.output.error /\ m.output.input_ended = c.receiver.reassembler.output.input_ended
  <2>1. /\ SenderFacts(o.sender) /\ ReceiverOK(E, c.receiver, o.sender)
    BY FacingTypes, ZenonT(60) DEF Facing
  <2>2. /\ E.cap \in Nat /\ o.sender.stream.bytes_read \in Nat
        /\ c.receiver.reassembler \in E.rsm[E.cap, o.sender.stream.bytes_read]
    BY <2>1, ZenonT(60) DEF SenderFacts, Env, ReceiverOK, Heard
  <2>3. Fails(E.rsm, c.receiver.reassembler, E.cap, o.sender.stream.bytes_read)
    BY <2>2, ZenonT(60) DEF Env, ReassemblerLaws
  <2> QED
    BY <2>3, ZenonT(60) DEF Fails
<1> HIDE DEF s, m
<1>4. /\ ReceiverOK(E, r, o.sender) /\ RecvLater(c.receiver, r) /\ RX!stream_out(r) = m.output
  <2>1. o.sender \in E.snd /\ ReceiverOK(E, c.receiver, o.sender)
    BY DEF Facing, Opposite
  <2>2. r = [c.receiver EXCEPT !.reassembler = m]
    OBVIOUS
  <2> HIDE DEF r
  <2> QED
    BY <2>1, <2>2, <1>3, ReceiverMarked, SMTT(60)
<1> HIDE DEF r
<1>5. Sends(E, c, e, o) /\ e.sender = s
  <2>1. e = [c EXCEPT !.sender = s]
    OBVIOUS
  <2> HIDE DEF e
  <2> QED
    BY <2>1, <1>2, OnwardSends, SMTT(60)
<1> HIDE DEF e
<1>6. Moves(E, e, f, o) /\ f.receiver = r
  <2>1. f = [e EXCEPT !.receiver = r]
    OBVIOUS
  <2>2. Facing(E, e, o) /\ e.receiver = c.receiver
    BY <1>5 DEF Sends, Moves, Goes
  <2> HIDE DEF f
  <2> QED
    BY <2>1, <2>2, <1>4, ReceiverMoved, SMTT(60)
<1> HIDE DEF f
<1>7. Facing(E, f, o)
  BY <1>6 DEF Moves, Goes
<1>8. Alike(f, d) /\ d.linger_after_streams_finish = f.linger_after_streams_finish
  BY <1>1, <1>7, ZenonT(60) DEF Alike, Facing, IsConn
<1>9. Goes(E, f, d, o)
  BY <1>7, <1>8, AlikeFaces, ZenonT(60) DEF Goes
<1>10. Over(d)
  BY <1>3, <1>4, <1>6, <1>8, ZenonT(60) DEF Over, inbound, Alike
<1>11. Moves(E, c, f, o)
  BY <1>5, <1>6, MovesTwice, ZenonT(60) DEF Sends
<1>12. Leaves(E, f, d, o)
  BY <1>8, <1>9, <1>10 DEF Leaves
<1> HIDE DEF d
<1>13. Leaves(E, c, d, o)
  BY <1>11, <1>12, LeavesAfter, ZenonT(60)
<1> QED
  BY <1>13 DEF d

\* A clean end comes when everything has been acknowledged.
LEMMA CleanLeaves ==
    ASSUME NEW E, Env(E), NEW c, NEW o, Facing(E, c, o), should_shutdown(c)
    PROVE  Leaves(E, c, shutdown(c, TRUE), o)
<1> DEFINE d == shutdown(c, TRUE)
<1>1. d = [c EXCEPT !.active = FALSE]
  BY DEF shutdown
<1>2. Alike(c, d) /\ d.linger_after_streams_finish = c.linger_after_streams_finish
  BY <1>1, ZenonT(60) DEF Alike, Facing, IsConn
<1>3. Settled(c)
  <2>1. SenderFacts(c.sender)
    BY FacingTypes, ZenonT(60)
  <2>2. c.sender.next_seqno \in Nat
    BY <2>1 DEF SenderFacts
  <2>3. /\ TX!bytes_in_flight(c.sender) = 0
        /\ c.sender.next_seqno = c.sender.stream.bytes_written + 2
    BY DEF should_shutdown, outbound
  <2> QED
    BY <2>2, <2>3, SMTT(60) DEF Settled, First
<1> HIDE DEF d
<1>4. Goes(E, c, d, o) /\ Over(d)
  BY <1>2, <1>3, AlikeFaces, ZenonT(60) DEF Goes, Over
<1>5. Leaves(E, c, d, o)
  BY <1>2, <1>4 DEF Leaves
<1> QED
  BY <1>5 DEF d

\* connect(), and the second half of write() and end_input_stream().
LEMMA ConnectSends ==
    ASSUME NEW E, Env(E), NEW c, NEW o, Facing(E, c, o)
    PROVE  Sends(E, c, connect(c), o)
<1> DEFINE d == [c EXCEPT !.sender = TX!fill_window(@)]
<1>1. connect(c) = clear_sendbuf(d)
  <2>1. \A x : With(x, clear_sendbuf) = clear_sendbuf(x)
    BY ZenonT(60) DEF With
  <2> QED
    BY <2>1, ZenonT(60) DEF connect
<1>2. Sends(E, c, d, o)
  BY FillSends, ZenonT(60)
<1> HIDE DEF d
<1>3. Sends(E, d, clear_sendbuf(d), o)
  BY <1>2, Cleared, ZenonT(60) DEF Sends, Moves, Goes
<1> QED
  BY <1>1, <1>2, <1>3, SendsTwice, ZenonT(60)

\* The application has written or closed, and what the window allows is sent.
LEMMA RewrittenMoves ==
    ASSUME NEW E, Env(E), NEW c, NEW o, Facing(E, c, o),
           NEW n \in Nat, n <= E.len, NEW s, Rewritten(E.snd, c.sender, s, n),
           NEW d, d = With([c EXCEPT !.sender = TX!fill_window(s)], clear_sendbuf)
    PROVE  Moves(E, c, d, o)
<1> DEFINE e == [c EXCEPT !.sender = s]
<1>1. s.stream.bytes_written <= E.len
  <2>1. SenderFacts(s)
    BY Facts, ZenonT(60) DEF Rewritten
  <2>2. s.stream.bytes_written \in Nat /\ s.stream.bytes_written <= n /\ E.len \in Nat
    BY <2>1 DEF SenderFacts, Rewritten, Env
  <2> QED
    BY <2>2, SMTT(60)
<1>2. Resent(E, c, o, s)
  BY <1>1, ZenonT(60) DEF Rewritten, Resent, Facing
<1>3. d = connect(e)
  <2>1. [c EXCEPT !.sender = TX!fill_window(s)] = [e EXCEPT !.sender = TX!fill_window(@)]
    BY ZenonT(60) DEF Facing, IsConn
  <2> HIDE DEF e
  <2> QED
    BY <2>1, ZenonT(60) DEF connect
<1>4. Moves(E, c, e, o)
  <2>1. e = [c EXCEPT !.sender = s]
    OBVIOUS
  <2> HIDE DEF e
  <2> QED
    BY <2>1, <1>2, SenderMoved, SMTT(60)
<1> HIDE DEF e
<1>5. Moves(E, e, d, o)
  BY <1>3, <1>4, ConnectSends, ZenonT(60) DEF Moves, Goes, Sends
<1> QED
  BY <1>4, <1>5, MovesTwice, ZenonT(60)

\* write().
LEMMA WriteMoves ==
    ASSUME NEW E, Env(E), NEW c, NEW o, Facing(E, c, o), NEW len \in Nat,
           outbound(c).bytes_written + len <= E.len
    PROVE  Moves(E, c, write(c, Substring(outbound(c).bytes_written, len)), o)
<1> DEFINE data == Substring(outbound(c).bytes_written, len)
           s == [c.sender EXCEPT !.stream = BS!write(@, data)]
           n == outbound(c).bytes_written + len
           d == write(c, data)
<1>1. n \in Nat
  <2>1. SenderFacts(c.sender)
    BY FacingTypes, ZenonT(60)
  <2> QED
    BY <2>1 DEF SenderFacts, outbound
<1>2. Rewritten(E.snd, c.sender, s, n)
  BY ZenonT(60) DEF Facing, Env, SenderLaws, outbound
<1>3. d = With([c EXCEPT !.sender = TX!fill_window(s)], clear_sendbuf)
  BY ZenonT(60) DEF write
<1>4. n <= E.len
  OBVIOUS
<1> HIDE DEF s, n, d, data
<1>5. Moves(E, c, d, o)
  BY <1>1, <1>2, <1>3, <1>4, RewrittenMoves, SMTT(60)
<1> QED
  BY <1>5 DEF d, data

\* end_input_stream().
LEMMA EndMoves ==
    ASSUME NEW E, Env(E), NEW c, NEW o, Facing(E, c, o)
    PROVE  Moves(E, c, end_input_stream(c), o)
<1> DEFINE s == [c.sender EXCEPT !.stream = BS!end_input(@)]
           n == c.sender.stream.bytes_written
           d == end_input_stream(c)
<1>1. n \in Nat /\ n <= E.len
  <2>1. SenderFacts(c.sender)
    BY FacingTypes, ZenonT(60)
  <2> QED
    BY <2>1 DEF SenderFacts, Facing
<1>2. Rewritten(E.snd, c.sender, s, n)
  BY ZenonT(60) DEF Facing, Env, SenderLaws
<1>3. d = With([c EXCEPT !.sender = TX!fill_window(s)], clear_sendbuf)
  BY ZenonT(60) DEF end_input_stream
<1> HIDE DEF s, n, d
<1>4. Moves(E, c, d, o)
  BY <1>1, <1>2, <1>3, RewrittenMoves, ZenonT(60)
<1> QED
  BY <1>4 DEF d

\* A moment of last_recv_et.
LEMMA ClockMoves ==
    ASSUME NEW E, Env(E), NEW c, NEW o, Facing(E, c, o), NEW t,
           NEW d, d = [c EXCEPT !.last_recv_et = t]
    PROVE  Moves(E, c, d, o)
<1>1. /\ Alike(c, d) /\ d.linger_after_streams_finish = c.linger_after_streams_finish
      /\ d.active = c.active
  BY ZenonT(60) DEF Alike, Facing, IsConn
<1> QED
  BY <1>1, AlikeFaces, ZenonT(60) DEF Moves, Goes

\* Giving up: a reset is queued and both streams fail.
LEMMA AbortLeaves ==
    ASSUME NEW E, Env(E), NEW c, NEW o, Facing(E, c, o)
    PROVE  Leaves(E, c, shutdown(send_rst_segment(c), FALSE), o)
<1> DEFINE d == send_rst_segment(c)
<1>1. Moves(E, c, d, o)
  BY RstSends, ZenonT(60) DEF Sends
<1> HIDE DEF d
<1>2. Leaves(E, d, shutdown(d, FALSE), o)
  BY <1>1, UncleanLeaves, ZenonT(60) DEF Moves, Goes
<1>3. Leaves(E, c, shutdown(d, FALSE), o)
  BY <1>1, <1>2, LeavesAfter, ZenonT(60)
<1> QED
  BY <1>3 DEF d

\* tick().
LEMMA TickLeaves ==
    ASSUME NEW E, Env(E), NEW b, NEW o, Facing(E, b, o), NEW ms \in Nat
    PROVE  Leaves(E, b, tick(b, ms), o)
<1> DEFINE c == [b EXCEPT !.last_recv_et = BS!MinOf(@ + ms, LINGER)]
           lingering == c.linger_after_streams_finish /\ c.last_recv_et < LINGER
           s == TX!tick(c.sender, ms)
           e == [c EXCEPT !.sender = s]
           finish(x) == IF should_shutdown(x) /\ ~lingering THEN shutdown(x, TRUE) ELSE x
<1>1. Moves(E, b, c, o)
  <2>1. c = [b EXCEPT !.last_recv_et = BS!MinOf(b.last_recv_et + ms, LINGER)]
    BY ZenonT(60) DEF Facing, IsConn
  <2> DEFINE t == BS!MinOf(b.last_recv_et + ms, LINGER)
  <2>2. c = [b EXCEPT !.last_recv_et = t]
    BY <2>1
  <2> HIDE DEF t, c
  <2> QED
    BY <2>2, ClockMoves, SMTT(60)
<1> HIDE DEF lingering
<1> HIDE DEF finish
<1>2. tick(b, ms) = IF TX!consecutive_retransmissions(c.sender) >= MAX_RETX_ATTEMPTS
                    THEN shutdown(send_rst_segment(c), FALSE)
                    ELSE clear_sendbuf(finish([c EXCEPT !.sender = TX!tick(@, ms)]))
  <2>1. \A x : With(x, clear_sendbuf) = clear_sendbuf(x)
    BY ZenonT(60) DEF With
  <2>2. \A x : With(x, finish) = finish(x)
    BY ZenonT(60) DEF With
  <2> QED
    BY <2>1, <2>2, ZenonT(60) DEF tick, finish, lingering
<1> HIDE DEF c
<1>3. Facing(E, c, o)
  BY <1>1 DEF Moves, Goes
<1>4. CASE TX!consecutive_retransmissions(c.sender) >= MAX_RETX_ATTEMPTS
  <2>1. Leaves(E, c, tick(b, ms), o)
    BY <1>2, <1>3, <1>4, AbortLeaves, ZenonT(60)
  <2> QED
    BY <2>1, <1>1, LeavesAfter, ZenonT(60)
<1>5. CASE ~(TX!consecutive_retransmissions(c.sender) >= MAX_RETX_ATTEMPTS)
  <2>1. [c EXCEPT !.sender = TX!tick(@, ms)] = e
    BY <1>3, ZenonT(60) DEF Facing, IsConn
  <2>2. Onward(E.snd, c.sender, s)
    BY <1>3, ZenonT(60) DEF Facing, Env, SenderLaws
  <2> HIDE DEF s
  <2>3. Sends(E, c, e, o)
    <3>1. e = [c EXCEPT !.sender = s]
      OBVIOUS
    <3> HIDE DEF e
    <3> QED
      BY <1>3, <2>2, <3>1, OnwardSends, SMTT(60)
  <2> HIDE DEF e
  <2>4. Facing(E, e, o) /\ Leaves(E, e, e, o)
    <3>1. Facing(E, e, o)
      BY <2>3 DEF Sends, Moves, Goes
    <3> QED
      BY <3>1, SendsNothing, ZenonT(60) DEF Sends, Moves, Leaves
  <2>5. Leaves(E, e, finish(e), o)
    BY <2>4, CleanLeaves, ZenonT(60) DEF finish
  <2> DEFINE f == finish(e)
  <2> HIDE DEF f
  <2>6. Leaves(E, e, f, o)
    BY <2>5 DEF f
  <2>7. Sends(E, f, clear_sendbuf(f), o)
    BY <2>6, Cleared, ZenonT(60) DEF Leaves, Goes
  <2>8. Leaves(E, e, clear_sendbuf(f), o)
    BY <2>4, <2>6, <2>7, SendsAfter, ZenonT(60)
  <2>9. Moves(E, b, e, o)
    BY <1>1, <2>3, MovesTwice, ZenonT(60) DEF Sends
  <2>10. tick(b, ms) = clear_sendbuf(f)
    BY <1>2, <1>5, <2>1, ZenonT(60) DEF f
  <2> QED
    BY <2>8, <2>9, <2>10, LeavesAfter, ZenonT(60)
<1> QED
  BY <1>4, <1>5

\* The peer's end may be noted.
LEMMA PassiveBecame ==
    ASSUME NEW E, Env(E), NEW c, NEW o, Facing(E, c, o)
    PROVE  Became(E, c, note_passive_close(c), o)
<1> DEFINE d == note_passive_close(c)
<1>1. /\ Alike(c, d) /\ d.active = c.active
      /\ \/ d.linger_after_streams_finish = c.linger_after_streams_finish
         \/ inbound(c).input_ended /\ ~outbound(c).input_ended
  <2>1. d = c \/ (d = [c EXCEPT !.linger_after_streams_finish = FALSE]
                  /\ inbound(c).input_ended /\ ~outbound(c).input_ended)
    BY ZenonT(60) DEF note_passive_close
  <2> HIDE DEF d
  <2> QED
    BY <2>1, ZenonT(60) DEF Alike, Facing, IsConn
<1> HIDE DEF d
<1>2. inbound(d) = inbound(c) /\ outbound(d) = outbound(c)
  BY <1>1, ZenonT(60) DEF Alike, inbound, outbound
<1>3. Goes(E, c, d, o)
  BY <1>1, AlikeFaces, ZenonT(60) DEF Goes
<1>4. Became(E, c, d, o)
  BY <1>1, <1>2, <1>3, ZenonT(60) DEF Became
<1> QED
  BY <1>4 DEF d

\* What happens after a move may happen at once.
LEMMA BecameAfter ==
    ASSUME NEW E, Env(E), NEW b, NEW c, NEW d, NEW o,
           Facing(E, b, o), Moves(E, b, c, o), Became(E, c, d, o)
    PROVE  Became(E, b, d, o)
<1>1. Goes(E, b, d, o)
  BY GoesTwice, ZenonT(60) DEF Moves, Became
<1> QED
  BY <1>1, ZenonT(60) DEF Moves, Became

\* segment_received().
LEMMA ReceiveBecame ==
    ASSUME NEW E, Env(E), NEW b, NEW o, Facing(E, b, o), NEW seg, SegOK(seg, o)
    PROVE  Became(E, b, segment_received(b, seg), o)
<1> DEFINE c == [b EXCEPT !.last_recv_et = 0]
           r == RX!segment_received(c.receiver, seg)
           received == [c EXCEPT !.receiver = r]
           acked == take_ack(received, seg)
           answered == answer(acked, seg)
           probed == answer_keep_alive(answered, seg)
           cleared == clear_sendbuf(probed)
<1>1. Moves(E, b, c, o)
  <2>1. c = [b EXCEPT !.last_recv_et = 0]
    OBVIOUS
  <2> HIDE DEF c
  <2> QED
    BY <2>1, ClockMoves, SMTT(60)
<1>2. segment_received(b, seg) =
          IF seg.rst THEN shutdown(c, FALSE)
          ELSE note_passive_close(clear_sendbuf(answer_keep_alive(answer(take_ack(
                   [c EXCEPT !.receiver = RX!segment_received(@, seg)], seg), seg), seg)))
  <2>1. \A x : With(x, clear_sendbuf) = clear_sendbuf(x)
    BY ZenonT(60) DEF With
  <2>2. \A x : With(x, note_passive_close) = note_passive_close(x)
    BY ZenonT(60) DEF With
  <2>3. \A x : With(x, LAMBDA y : take_ack(y, seg)) = take_ack(x, seg)
    BY ZenonT(60) DEF With
  <2>4. \A x : With(x, LAMBDA y : answer(y, seg)) = answer(x, seg)
    BY ZenonT(60) DEF With
  <2>5. \A x : With(x, LAMBDA y : answer_keep_alive(y, seg)) = answer_keep_alive(x, seg)
    BY ZenonT(60) DEF With
  <2> QED
    BY <2>1, <2>2, <2>3, <2>4, <2>5, ZenonT(60) DEF segment_received
<1> HIDE DEF c
<1>3. Facing(E, c, o)
  BY <1>1 DEF Moves, Goes
<1>4. CASE seg.rst
  <2>1. Became(E, c, segment_received(b, seg), o)
    BY <1>2, <1>3, <1>4, UncleanLeaves, ZenonT(60) DEF Leaves, Became
  <2> QED
    BY <2>1, <1>1, BecameAfter, ZenonT(60)
<1>5. CASE ~seg.rst
  <2>1. [c EXCEPT !.receiver = RX!segment_received(@, seg)] = received
    BY <1>3, ZenonT(60) DEF Facing, IsConn
  <2>2. ReceiverOK(E, r, o.sender) /\ RecvLater(c.receiver, r)
    BY <1>3, ReceiverReceives, ZenonT(60) DEF Facing, SegOK
  <2> HIDE DEF r
  <2>3. Moves(E, c, received, o)
    <3>1. received = [c EXCEPT !.receiver = r]
      OBVIOUS
    <3> HIDE DEF received
    <3> QED
      BY <1>3, <2>2, <3>1, ReceiverMoved, SMTT(60)
  <2> HIDE DEF received
  <2>4. Moves(E, received, acked, o)
    <3>1. Facing(E, received, o)
      BY <2>3 DEF Moves, Goes
    <3> QED
      BY <3>1, AckMoves, ZenonT(60)
  <2> HIDE DEF acked
  <2>5. Moves(E, acked, answered, o)
    <3>1. Facing(E, acked, o)
      BY <2>4 DEF Moves, Goes
    <3> QED
      BY <3>1, AnswerSends, ZenonT(60) DEF Sends
  <2> HIDE DEF answered
  <2>6. Moves(E, answered, probed, o)
    <3>1. Facing(E, answered, o)
      BY <2>5 DEF Moves, Goes
    <3> QED
      BY <3>1, ProbeSends, ZenonT(60) DEF Sends
  <2> HIDE DEF probed
  <2>7. Moves(E, probed, cleared, o)
    <3>1. Facing(E, probed, o)
      BY <2>6 DEF Moves, Goes
    <3> QED
      BY <3>1, Cleared, ZenonT(60) DEF Sends
  <2> HIDE DEF cleared
  <2>8. Became(E, cleared, note_passive_close(cleared), o)
    BY <2>7, PassiveBecame, ZenonT(60) DEF Moves, Goes
  <2>9. Moves(E, b, received, o)
    BY <1>1, <2>3, MovesTwice, ZenonT(60)
  <2>10. Moves(E, b, acked, o)
    BY <2>9, <2>4, MovesTwice, ZenonT(60)
  <2>11. Moves(E, b, answered, o)
    BY <2>10, <2>5, MovesTwice, ZenonT(60)
  <2>12. Moves(E, b, probed, o)
    BY <2>11, <2>6, MovesTwice, ZenonT(60)
  <2>13. Moves(E, b, cleared, o)
    BY <2>12, <2>7, MovesTwice, ZenonT(60)
  <2>14. segment_received(b, seg) = note_passive_close(cleared)
    BY <1>2, <1>5, <2>1, ZenonT(60) DEF cleared, probed, answered, acked
  <2> QED
    BY <2>8, <2>13, <2>14, BecameAfter, ZenonT(60)
<1> QED
  BY <1>4, <1>5

\* c after its application has read up to n bytes.
AfterRead(c, n) == [c EXCEPT !.receiver.reassembler.output = BS!read(@, n)]

\* The application reads.
LEMMA ReadMoves ==
    ASSUME NEW E, Env(E), NEW c, NEW o, Facing(E, c, o), NEW n \in Nat \ {0},
           NEW d, d = AfterRead(c, n)
    PROVE  Moves(E, c, d, o) /\ (Over(c) => Over(d)) /\ d.segments_out = c.segments_out
<1> DEFINE m == [c.receiver.reassembler EXCEPT !.output = BS!read(@, n)]
           r == [c.receiver EXCEPT !.reassembler = m]
<1>1. d = [c EXCEPT !.receiver = r]
  BY ZenonT(60) DEF AfterRead, Facing, IsConn, ReceiverOK, Heard
<1>2. /\ Marked(E.rsm, c.receiver.reassembler, m, E.cap, o.sender.stream.bytes_read)
      /\ m.output.error = c.receiver.reassembler.output.error
      /\ m.output.input_ended = c.receiver.reassembler.output.input_ended
  <2>1. /\ SenderFacts(o.sender) /\ ReceiverOK(E, c.receiver, o.sender)
    BY FacingTypes, ZenonT(60) DEF Facing
  <2>2. /\ E.cap \in Nat /\ o.sender.stream.bytes_read \in Nat
        /\ c.receiver.reassembler \in E.rsm[E.cap, o.sender.stream.bytes_read]
    BY <2>1, ZenonT(60) DEF SenderFacts, Env, ReceiverOK, Heard
  <2>3. Reads(E.rsm, c.receiver.reassembler, E.cap, o.sender.stream.bytes_read)
    BY <2>2, ZenonT(60) DEF Env, ReassemblerLaws
  <2> QED
    BY <2>3, ZenonT(60) DEF Reads
<1> HIDE DEF m
<1>3. /\ ReceiverOK(E, r, o.sender) /\ RecvLater(c.receiver, r) /\ RX!stream_out(r) = m.output
  <2>1. o.sender \in E.snd /\ ReceiverOK(E, c.receiver, o.sender)
    BY DEF Facing, Opposite
  <2>2. r = [c.receiver EXCEPT !.reassembler = m]
    OBVIOUS
  <2> HIDE DEF r
  <2> QED
    BY <2>1, <2>2, <1>2, ReceiverMarked, SMTT(60)
<1> HIDE DEF r
<1>4. /\ Moves(E, c, d, o)
      /\ d.sender = c.sender /\ d.receiver = r /\ d.segments_out = c.segments_out
  BY <1>1, <1>3, ReceiverMoved, SMTT(60)
<1>5. inbound(d).error = inbound(c).error
  BY <1>2, <1>3, <1>4, ZenonT(60) DEF inbound, RX!stream_out
<1>6. Over(c) => Over(d)
  BY <1>4, <1>5, ZenonT(60) DEF Over, Settled
<1> QED
  BY <1>4, <1>6
-----------------------------------------------------------------------------
\* The endpoint c between two steps: its queue has been handed to the network,
\* it has left for a reason, and it lingers unless the peer has closed.
EndOK(E, c, o) ==
    /\ Facing(E, c, o) /\ c.segments_out = << >>
    /\ ~c.active => Over(c)
    /\ ~c.linger_after_streams_finish => outbound(o).input_ended

\* The segments on their way from c.
Carrying(fifo, q, c) ==
    IF fifo THEN q \in Seq(Segments) /\ \A i \in 1 .. Len(q) : SegOK(q[i], c)
            ELSE \A seg \in q : SegOK(seg, c)

Joined(fifo, q, segs) ==
    IF fifo THEN q \o segs ELSE q \union {segs[i] : i \in 1 .. Len(segs)}

\* The surroundings of the peer.
Mirror(E, F) ==
    /\ F.snd = E.snd /\ F.rsm = E.rsm /\ F.cap = E.cap /\ F.len = E.far /\ F.far = E.len

\* d after its queue has been handed over.
Emptied(d) == [d EXCEPT !.segments_out = << >>]

\* What Facing says of both sides, seen from the other one.
LEMMA Mirrored ==
    ASSUME NEW E, NEW F, Mirror(E, F), NEW c, NEW d, NEW o, Facing(F, o, c), Facing(E, d, o)
    PROVE  Facing(F, o, d)
<1>1. IsConn(o) /\ Queued(o)
  BY DEF Facing
<1>2. o.sender \in F.snd /\ o.sender.isn = F.isn /\ o.sender.stream.bytes_written <= F.len
  BY DEF Facing
<1>3. ReceiverOK(F, o.receiver, d.sender) /\ ReceiverOK(F, d.receiver, o.sender)
  <2>1. ReceiverOK(E, o.receiver, d.sender) /\ ReceiverOK(E, d.receiver, o.sender)
    BY DEF Facing
  <2> QED
    BY <2>1, ZenonT(60) DEF Mirror, ReceiverOK, Heard
<1>4. First(d.sender) <= Acked(o.receiver) /\ First(o.sender) <= Acked(d.receiver)
  BY DEF Facing
<1>5. Opposite(F, d.sender)
  BY ZenonT(60) DEF Facing, Mirror, Opposite
<1> QED
  BY <1>1, <1>2, <1>3, <1>4, <1>5 DEF Facing

\* What both sides and the network between them know after d has replaced c.
LEMMA EndsKept ==
    ASSUME NEW E, Env(E), NEW F, Mirror(E, F), NEW c, NEW d, NEW o,
           EndOK(E, c, o), EndOK(F, o, c), Became(E, c, d, o), ~d.active => Over(d),
           NEW e, e = Emptied(d)
    PROVE  /\ EndOK(E, e, o) /\ EndOK(F, o, e)
           /\ c.linger_after_streams_finish \/ o.linger_after_streams_finish =>
                 e.linger_after_streams_finish \/ o.linger_after_streams_finish
           /\ e.sender = d.sender /\ e.receiver = d.receiver
<1>1. Facing(E, c, o) /\ Facing(E, d, o) /\ Facing(F, o, c)
  BY DEF EndOK, Became, Goes
<1>2. Moves(E, d, e, o) /\ e.sender = d.sender /\ e.receiver = d.receiver /\ e.segments_out = << >>
  <2> DEFINE q == << >>
  <2>1. q \in Seq(Segments) /\ \A i \in 1 .. Len(q) : SegOK(q[i], d)
    OBVIOUS
  <2>2. e = [d EXCEPT !.segments_out = q]
    BY DEF Emptied
  <2> HIDE DEF q
  <2>3. Moves(E, d, e, o) /\ e.sender = d.sender /\ e.receiver = d.receiver /\ e.segments_out = q
    BY <1>1, <2>1, <2>2, QueueMoved, SMTT(60)
  <2> QED
    BY <2>3 DEF q
<1>3. Facing(E, e, o)
  BY <1>2 DEF Moves, Goes
<1>4. Facing(F, o, e)
  BY <1>1, <1>3, Mirrored, ZenonT(60)
<1>5. inbound(e) = inbound(d) /\ outbound(e) = outbound(d)
  BY <1>2, ZenonT(60) DEF inbound, outbound
<1>6. ~e.active => Over(e)
  BY <1>2, <1>5, ZenonT(60) DEF Moves, Over, Settled
<1>7. outbound(c).input_ended => outbound(e).input_ended
  BY <1>5, ZenonT(60) DEF Became, Goes, Later, outbound
<1>8. inbound(e).input_ended => outbound(o).input_ended
  <2>1. SenderFacts(o.sender)
    BY <1>1, FacingTypes, ZenonT(60)
  <2>2. inbound(e).input_ended => o.sender.fin_sent
    BY <1>3, ZenonT(60) DEF Facing, ReceiverOK, Heard, inbound
  <2> QED
    BY <2>1, <2>2, ZenonT(60) DEF SenderFacts, outbound
<1>9. \/ e.linger_after_streams_finish = c.linger_after_streams_finish
      \/ inbound(e).input_ended /\ ~outbound(e).input_ended
  BY <1>2, <1>5, ZenonT(60) DEF Became, Moves
<1>10. ~e.linger_after_streams_finish => outbound(o).input_ended
  BY <1>8, <1>9, ZenonT(60) DEF EndOK
<1>11. ~o.linger_after_streams_finish => outbound(e).input_ended
  BY <1>7, ZenonT(60) DEF EndOK
<1>12. c.linger_after_streams_finish \/ o.linger_after_streams_finish =>
          e.linger_after_streams_finish \/ o.linger_after_streams_finish
  BY <1>9, <1>11, ZenonT(60)
<1>13. EndOK(E, e, o)
  BY <1>2, <1>3, <1>6, <1>10 DEF EndOK
<1>14. EndOK(F, o, e)
  BY <1>4, <1>11, ZenonT(60) DEF EndOK
<1> QED
  BY <1>2, <1>12, <1>13, <1>14

\* What is on its way stays so, and what d has queued joins it.
LEMMA NetKept ==
    ASSUME NEW E, Env(E), NEW c, NEW d, NEW o, Facing(E, c, o), Goes(E, c, d, o),
           NEW e, e.sender = d.sender, e.receiver = d.receiver,
           NEW fifo \in BOOLEAN, NEW q, Carrying(fifo, q, c)
    PROVE  Carrying(fifo, q, e) /\ Carrying(fifo, Joined(fifo, q, d.segments_out), e)
<1> DEFINE segs == d.segments_out
<1>1. /\ SenderFacts(c.sender) /\ RX!ack_seqno(c.receiver) \in Nat
  BY FacingTypes, ZenonT(60)
<1>2. /\ SenderFacts(d.sender) /\ RX!ack_seqno(d.receiver) \in Nat
  BY FacingTypes, ZenonT(60) DEF Goes
<1>3. ASSUME NEW seg, SegOK(seg, c) PROVE SegOK(seg, e)
  <2>1. SegOK(seg, d)
    BY <1>1, <1>2, <1>3, SegLater, ZenonT(60) DEF Goes
  <2> QED
    BY <2>1, ZenonT(60) DEF SegOK
<1>4. /\ segs \in Seq(Segments)
      /\ \A i \in 1 .. Len(segs) : SegOK(segs[i], e)
  BY ZenonT(60) DEF Goes, Facing, Queued, SegOK
<1> HIDE DEF segs
<1>5. CASE fifo
  <2>1. q \in Seq(Segments) /\ \A i \in 1 .. Len(q) : SegOK(q[i], e)
    BY <1>3, <1>5, ZenonT(60) DEF Carrying
  <2>2. q \o segs \in Seq(Segments) /\ \A i \in 1 .. Len(q \o segs) : SegOK((q \o segs)[i], e)
    <3>1. q \o segs \in Seq(Segments) /\ Len(q \o segs) = Len(q) + Len(segs)
      BY <1>4, <2>1, SMTT(60)
    <3>2. ASSUME NEW i \in 1 .. Len(q \o segs) PROVE SegOK((q \o segs)[i], e)
      <4>1. CASE i <= Len(q)
        <5>1. (q \o segs)[i] = q[i] /\ i \in 1 .. Len(q)
          BY <1>4, <2>1, <3>1, <4>1, SMTT(60)
        <5> QED
          BY <2>1, <5>1, ZenonT(60)
      <4>2. CASE ~(i <= Len(q))
        <5>1. (q \o segs)[i] = segs[i - Len(q)] /\ i - Len(q) \in 1 .. Len(segs)
          BY <1>4, <2>1, <3>1, <4>2, SMTT(60)
        <5> QED
          BY <1>4, <5>1, ZenonT(60)
      <4> QED
        BY <4>1, <4>2
    <3> QED
      BY <3>1, <3>2
  <2>3. Joined(fifo, q, segs) = q \o segs
    BY <1>5 DEF Joined
  <2> QED
    BY <1>5, <2>1, <2>2, <2>3, ZenonT(60) DEF Carrying, segs
<1>6. CASE ~fifo
  <2>1. \A seg \in q : SegOK(seg, e)
    BY <1>3, <1>6, ZenonT(60) DEF Carrying
  <2>2. Joined(fifo, q, segs) = q \union {segs[i] : i \in 1 .. Len(segs)}
    BY <1>6 DEF Joined
  <2>3. \A seg \in q \union {segs[i] : i \in 1 .. Len(segs)} : SegOK(seg, e)
    BY <1>4, <2>1, ZenonT(60)
  <2> QED
    BY <1>6, <2>1, <2>2, <2>3, ZenonT(60) DEF Carrying, segs
<1> QED
  BY <1>5, <1>6

\* A segment that has left a queue.
LEMMA TailCarrying ==
    ASSUME NEW q, NEW c, Carrying(TRUE, q, c), q # << >>
    PROVE  SegOK(Head(q), c) /\ Carrying(TRUE, Tail(q), c)
<1>1. q \in Seq(Segments) /\ \A i \in 1 .. Len(q) : SegOK(q[i], c)
  BY DEF Carrying
<1>2. /\ 1 \in 1 .. Len(q) /\ Head(q) = q[1]
      /\ Tail(q) \in Seq(Segments) /\ Len(Tail(q)) = Len(q) - 1 /\ Len(q) \in Nat
  BY <1>1, SMTT(60)
<1>3. ASSUME NEW i \in 1 .. Len(Tail(q)) PROVE SegOK(Tail(q)[i], c)
  <2>1. Tail(q)[i] = q[i + 1] /\ i + 1 \in 1 .. Len(q)
    BY <1>1, <1>2, SMTT(60)
  <2> QED
    BY <1>1, <2>1, ZenonT(60)
<1> QED
  BY <1>1, <1>2, <1>3, ZenonT(60) DEF Carrying

\* A pair of new connections.
LEMMA NewFaces ==
    ASSUME NEW E, Env(E), NEW F, Mirror(E, F), F.isn \in W!WrappingInt32,
           NEW k \in Nat, NEW c, c = NewTCPConnection(E.cap, k, E.rto, E.isn),
           NEW o, o = NewTCPConnection(E.cap, k, E.rto, F.isn)
    PROVE  EndOK(E, c, o) /\ c.linger_after_streams_finish
<1> DEFINE s == TX!NewTCPSender(k, E.rto, E.isn)
           t == TX!NewTCPSender(k, E.rto, F.isn)
           r == RX!NewTCPReceiver(E.cap)
           m == RX!SR!NewStreamReassembler(E.cap)
<1>1. /\ IsConn(c) /\ c.sender = s /\ c.receiver = r /\ c.segments_out = << >>
      /\ c.active /\ c.linger_after_streams_finish
  BY ZenonT(60) DEF NewTCPConnection, IsConn
<1>2. o.sender = t /\ o.receiver = r
  BY ZenonT(60) DEF NewTCPConnection
<1>3. /\ r \in [reassembler : {r.reassembler}, capacity : {E.cap}, syn_set : BOOLEAN,
                fin_set : BOOLEAN, init_seqno : W!WrappingInt32]
      /\ r.reassembler = m /\ ~r.syn_set /\ ~r.fin_set
  <2>1. 0 \in W!WrappingInt32
    <3>1. Base \in Nat /\ Base > 2
      BY DEF Env
    <3> QED
      BY <3>1, SMTT(60) DEF W!WrappingInt32
  <2>2. r = [reassembler |-> m, capacity |-> E.cap, syn_set |-> FALSE, fin_set |-> FALSE,
             init_seqno |-> 0]
    BY DEF RX!NewTCPReceiver
  <2> HIDE DEF r, m
  <2> QED
    BY <2>1, <2>2, ZenonT(60)
<1>4. /\ s \in E.snd /\ s.isn = E.isn /\ First(s) = 0 /\ s.stream.bytes_written = 0
      /\ ~s.syn_sent
  BY ZenonT(60) DEF Env, SenderLaws
<1>5. t \in E.snd /\ First(t) = 0 /\ t.stream.bytes_written = 0 /\ ~t.syn_sent
  BY ZenonT(60) DEF Env, SenderLaws
<1> HIDE DEF s, t
<1>6. s.stream.bytes_read = 0 /\ t.stream.bytes_read = 0
  <2>1. SenderFacts(s) /\ SenderFacts(t)
    BY <1>4, <1>5, Facts, ZenonT(60)
  <2> QED
    BY <2>1, <1>4, <1>5, ZenonT(60) DEF SenderFacts
<1>7. /\ m \in E.rsm[E.cap, 0] /\ m.eof_index = RX!SR!SIZE_MAX /\ ~m.output.input_ended
  BY ZenonT(60) DEF Env, ReassemblerLaws, NewReassembler
<1> HIDE DEF r, m
<1>8. ReceiverOK(E, r, s) /\ ReceiverOK(E, r, t)
  BY <1>3, <1>6, <1>7, ZenonT(60) DEF ReceiverOK, Heard, RX!stream_out
<1>9. Acked(r) = 0
  BY <1>3 DEF Acked
<1>10. 0 <= E.len /\ 0 <= E.far /\ 0 <= 0
  BY DEF Env
<1>11. Queued(c)
  <2>1. << >> \in Seq(Segments) /\ \A i \in 1 .. Len(<< >>) : SegOK(<< >>[i], c)
    OBVIOUS
  <2> QED
    BY <1>1, <2>1, ZenonT(60) DEF Queued
<1>12. Facing(E, c, o)
  BY <1>1, <1>2, <1>4, <1>5, <1>8, <1>9, <1>10, <1>11, ZenonT(60) DEF Facing, Opposite
<1> QED
  BY <1>1, <1>12, ZenonT(60) DEF EndOK
=============================================================================
