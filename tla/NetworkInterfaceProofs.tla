----------------------- MODULE NetworkInterfaceProofs -----------------------
(***************************************************************************)
(* Proofs about NetworkInterfaceSpec, for any number of hosts, addresses   *)
(* and datagrams and any times.                                            *)
(*                                                                         *)
(* Each method gets a lemma that says what it does to the members, without *)
(* the nested EXCEPTs.  The inductive invariant adds three things to the   *)
(* properties: nothing has been recorded in the future, what waits for an  *)
(* address was handed over for it, and for every address asked for there   *)
(* is a reason not to ask again too soon.                                  *)
(***************************************************************************)
EXTENDS NetworkInterfaceSpec, DataInduction

\* f is the recursion of Selected(s, S).
Selects(f, s, S) ==
    f = [n \in 0 .. Len(s) |->
            IF n = 0 THEN << >>
            ELSE IF s[n] \in S THEN Append(f[n - 1], s[n]) ELSE f[n - 1]]

\* Of two sequences, one the beginning of the other, the recursions agree as
\* far as the shorter one goes.
LEMMA SelectsUnique ==
    ASSUME NEW V, NEW s \in Seq(V), NEW t \in Seq(V), NEW S, NEW f, NEW g,
           Selects(f, s, S), Selects(g, t, S),
           Len(s) <= Len(t), \A i \in 1 .. Len(s) : s[i] = t[i]
    PROVE  \A n \in 0 .. Len(s) : f[n] = g[n]
<1> DEFINE N == {n \in Nat : n <= Len(s) => f[n] = g[n]}
<1>0. Len(s) \in Nat /\ Len(t) \in Nat
  OBVIOUS
<1> DEFINE Rec(h, q) == \A k \in 0 .. Len(q) :
                h[k] = IF k = 0 THEN << >>
                       ELSE IF q[k] \in S THEN Append(h[k - 1], q[k]) ELSE h[k - 1]
<1>a. Rec(f, s) /\ Rec(g, t)
  BY ZenonT(60) DEF Selects
<1>1. 0 \in N
  BY <1>0, <1>a
<1>2. ASSUME NEW n \in Nat, n \in N PROVE n + 1 \in N
  <2>1. SUFFICES ASSUME n + 1 <= Len(s) PROVE f[n + 1] = g[n + 1]
    OBVIOUS
  <2>2. f[n] = g[n] /\ n + 1 \in 0 .. Len(s) /\ n + 1 \in 0 .. Len(t) /\ s[n + 1] = t[n + 1]
    BY <1>0, <1>2, <2>1
  <2>3. f[n + 1] = IF s[n + 1] \in S THEN Append(f[n], s[n + 1]) ELSE f[n]
    BY <1>a, <2>2
  <2>4. g[n + 1] = IF t[n + 1] \in S THEN Append(g[n], t[n + 1]) ELSE g[n]
    BY <1>a, <2>2
  <2> QED
    BY <2>2, <2>3, <2>4
<1> HIDE DEF N
<1>3. Nat \subseteq N
  BY <1>1, <1>2, NatInd
<1> QED
  BY <1>0, <1>3 DEF N

\* The recursion exists.
LEMMA SelectsExists ==
    ASSUME NEW V, NEW s \in Seq(V), NEW S
    PROVE  \E f : Selects(f, s, S)
<1> DEFINE Good(g, n) == g = [k \in 0 .. n |->
                IF k = 0 THEN << >>
                ELSE IF s[k] \in S THEN Append(g[k - 1], s[k]) ELSE g[k - 1]]
           N == {n \in Nat : \E g : Good(g, n)}
<1>1. 0 \in N
  <2>1. Good([k \in 0 .. 0 |-> << >>], 0)
    OBVIOUS
  <2> QED
    BY <2>1, ZenonT(60)
<1>2. ASSUME NEW n \in Nat, n \in N PROVE n + 1 \in N
  <2>1. PICK g : Good(g, n)
    BY <1>2
  <2> DEFINE h == [k \in 0 .. n + 1 |->
                IF k <= n THEN g[k]
                ELSE IF s[k] \in S THEN Append(g[n], s[k]) ELSE g[n]]
  <2>2. ASSUME NEW k \in 0 .. n + 1
        PROVE  h[k] = IF k = 0 THEN << >>
                      ELSE IF s[k] \in S THEN Append(h[k - 1], s[k]) ELSE h[k - 1]
    <3>1. CASE k <= n
      <4>1. k \in 0 .. n
        BY <3>1
      <4>2. g[k] = IF k = 0 THEN << >>
                   ELSE IF s[k] \in S THEN Append(g[k - 1], s[k]) ELSE g[k - 1]
        BY <2>1, <4>1, ZenonT(60)
      <4> QED
        BY <3>1, <4>1, <4>2
    <3>2. CASE k = n + 1
      BY <3>2
    <3> QED
      BY <3>1, <3>2
  <2>3. h = [k \in 0 .. n + 1 |-> h[k]]
    OBVIOUS
  <2> HIDE DEF h
  <2>4. Good(h, n + 1)
    BY <2>2, <2>3, SMTT(60)
  <2> QED
    BY <2>4, SMTT(60)
<1> HIDE DEF N
<1>3. Len(s) \in N
  BY <1>1, <1>2, NatInd
<1>4. \E g : Good(g, Len(s))
  BY <1>3 DEF N
<1> QED
  BY <1>4, ZenonT(60) DEF Selects

\* Selected is the last value of its recursion.
LEMMA SelectedDef ==
    ASSUME NEW V, NEW s \in Seq(V), NEW S
    PROVE  \E f : Selects(f, s, S) /\ Selected(s, S) = f[Len(s)]
<1> DEFINE f == CHOOSE g : Selects(g, s, S)
<1>1. Selects(f, s, S)
  BY SelectsExists, ZenonT(60)
<1>2. Selected(s, S) = f[Len(s)]
  BY ZenonT(60) DEF Selected, Selects
<1> QED
  BY <1>1, <1>2, ZenonT(60)

\* Nothing is selected from nothing.
LEMMA SelectedEmpty == \A S : Selected(<< >>, S) = << >>
<1> SUFFICES ASSUME NEW S PROVE Selected(<< >>, S) = << >>
  OBVIOUS
<1>1. << >> \in Seq({}) /\ Len(<< >>) = 0
  OBVIOUS
<1>2. PICK f : Selects(f, << >>, S) /\ Selected(<< >>, S) = f[0]
  BY <1>1, SelectedDef, ZenonT(60)
<1>3. \A k \in 0 .. Len(<< >>) :
         f[k] = IF k = 0 THEN << >>
                ELSE IF << >>[k] \in S THEN Append(f[k - 1], << >>[k]) ELSE f[k - 1]
  BY <1>2, ZenonT(60) DEF Selects
<1>4. f[0] = << >>
  BY <1>1, <1>3
<1> QED
  BY <1>2, <1>4

\* Another element is selected or not.
LEMMA SelectedAppend ==
    ASSUME NEW V, NEW s \in Seq(V), NEW x \in V, NEW S
    PROVE  Selected(Append(s, x), S) =
             IF x \in S THEN Append(Selected(s, S), x) ELSE Selected(s, S)
<1> DEFINE t == Append(s, x)
           n == Len(s)
<1>1. /\ t \in Seq(V) /\ n \in Nat /\ Len(t) = n + 1 /\ t[n + 1] = x
      /\ \A i \in 1 .. n : s[i] = t[i]
  OBVIOUS
<1> HIDE DEF t
<1>2. PICK f : Selects(f, s, S) /\ Selected(s, S) = f[n]
  BY SelectedDef
<1>3. PICK g : Selects(g, t, S) /\ Selected(t, S) = g[n + 1]
  BY <1>1, SelectedDef
<1>4. f[n] = g[n]
  BY <1>1, <1>2, <1>3, SelectsUnique
<1>5. \A k \in 0 .. Len(t) :
         g[k] = IF k = 0 THEN << >>
                ELSE IF t[k] \in S THEN Append(g[k - 1], t[k]) ELSE g[k - 1]
  BY <1>3, ZenonT(60) DEF Selects
<1>6. g[n + 1] = IF x \in S THEN Append(g[n], x) ELSE g[n]
  BY <1>1, <1>5
<1> QED
  BY <1>2, <1>3, <1>4, <1>6 DEF t

\* What is selected is a sequence of the same elements.
LEMMA SelectedType ==
    ASSUME NEW V, NEW S
    PROVE  \A s \in Seq(V) : Selected(s, S) \in Seq(V)
<1> DEFINE P == {s \in Seq(V) : Selected(s, S) \in Seq(V)}
<1>0. << >> \in Seq(V)
  OBVIOUS
<1>1. << >> \in P
  BY <1>0, SelectedEmpty, ZenonT(60)
<1>2. ASSUME NEW s \in Seq(V), NEW x \in V, s \in P PROVE Append(s, x) \in P
  <2>1. Selected(s, S) \in Seq(V)
    BY <1>2
  <2>2. Append(s, x) \in Seq(V) /\ Append(Selected(s, S), x) \in Seq(V)
    BY <2>1
  <2>3. Selected(Append(s, x), S) \in {Append(Selected(s, S), x), Selected(s, S)}
    BY SelectedAppend
  <2> QED
    BY <2>1, <2>2, <2>3, ZenonT(60)
<1> HIDE DEF P
<1>3. Seq(V) \subseteq P
  BY <1>1, <1>2, SeqInd
<1> QED
  BY <1>3 DEF P

\* Selecting from a concatenation.
LEMMA SelectedConcat ==
    ASSUME NEW V, NEW s \in Seq(V), NEW S
    PROVE  \A t \in Seq(V) : Selected(s \o t, S) = Selected(s, S) \o Selected(t, S)
<1> DEFINE P == {t \in Seq(V) : Selected(s \o t, S) = Selected(s, S) \o Selected(t, S)}
<1>0. Selected(s, S) \in Seq(V) /\ \A t \in Seq(V) : Selected(t, S) \in Seq(V)
  BY SelectedType
<1>1. << >> \in P
  <2>1. s \o << >> = s /\ << >> \in Seq(V)
    OBVIOUS
  <2>2. Selected(s, S) \o << >> = Selected(s, S)
    BY <1>0
  <2> QED
    BY <2>1, <2>2, SelectedEmpty, ZenonT(60)
<1>2. ASSUME NEW t \in Seq(V), NEW x \in V, t \in P PROVE Append(t, x) \in P
  <2>1. s \o Append(t, x) = Append(s \o t, x) /\ s \o t \in Seq(V) /\ Append(t, x) \in Seq(V)
    OBVIOUS
  <2>2. Selected(s \o t, S) = Selected(s, S) \o Selected(t, S)
    BY <1>2
  <2>3. Selected(s, S) \o Append(Selected(t, S), x) = Append(Selected(s, S) \o Selected(t, S), x)
    BY <1>0
  <2>4. Selected(Append(s \o t, x), S) =
           IF x \in S THEN Append(Selected(s \o t, S), x) ELSE Selected(s \o t, S)
    BY <2>1, SelectedAppend, ZenonT(60)
  <2>5. Selected(Append(t, x), S) =
           IF x \in S THEN Append(Selected(t, S), x) ELSE Selected(t, S)
    BY SelectedAppend
  <2>6. Selected(s \o Append(t, x), S) = Selected(s, S) \o Selected(Append(t, x), S)
    BY <2>1, <2>2, <2>3, <2>4, <2>5, ZenonT(60)
  <2> QED
    BY <2>1, <2>6, ZenonT(60)
<1> HIDE DEF P
<1>3. Seq(V) \subseteq P
  BY <1>1, <1>2, SeqInd
<1> QED
  BY <1>3 DEF P

\* Only what is in the sequence matters of the set.
LEMMA SelectedSame ==
    ASSUME NEW V, NEW S, NEW T, \A x \in V : x \in S <=> x \in T
    PROVE  \A s \in Seq(V) : Selected(s, S) = Selected(s, T)
<1> DEFINE P == {s \in Seq(V) : Selected(s, S) = Selected(s, T)}
<1>1. << >> \in P
  BY SelectedEmpty
<1>2. ASSUME NEW s \in Seq(V), NEW x \in V, s \in P PROVE Append(s, x) \in P
  <2>1. Append(s, x) \in Seq(V)
    OBVIOUS
  <2>2. Selected(Append(s, x), S) =
           IF x \in S THEN Append(Selected(s, S), x) ELSE Selected(s, S)
    BY SelectedAppend
  <2>3. Selected(Append(s, x), T) =
           IF x \in T THEN Append(Selected(s, T), x) ELSE Selected(s, T)
    BY SelectedAppend
  <2>4. Selected(s, S) = Selected(s, T)
    BY <1>2
  <2>5. Selected(Append(s, x), S) = Selected(Append(s, x), T)
    BY <2>2, <2>3, <2>4
  <2> QED
    BY <2>1, <2>5
<1> HIDE DEF P
<1>3. Seq(V) \subseteq P
  BY <1>1, <1>2, SeqInd
<1> QED
  BY <1>3 DEF P

\* All or nothing is selected from a sequence within or outside the set.
LEMMA SelectedAllOrNone ==
    ASSUME NEW V, NEW S
    PROVE  /\ V \subseteq S => \A s \in Seq(V) : Selected(s, S) = s
           /\ V \intersect S = {} => \A s \in Seq(V) : Selected(s, S) = << >>
<1> DEFINE P == {s \in Seq(V) : Selected(s, S) = s}
           Q == {s \in Seq(V) : Selected(s, S) = << >>}
<1>1. << >> \in P /\ << >> \in Q
  BY SelectedEmpty
<1>2. ASSUME V \subseteq S, NEW s \in Seq(V), NEW x \in V, s \in P PROVE Append(s, x) \in P
  BY <1>2, SelectedAppend
<1>3. ASSUME V \intersect S = {}, NEW s \in Seq(V), NEW x \in V, s \in Q
      PROVE  Append(s, x) \in Q
  BY <1>3, SelectedAppend
<1> HIDE DEF P, Q
<1>4. V \subseteq S => Seq(V) \subseteq P
  BY <1>1, <1>2, SeqInd
<1>5. V \intersect S = {} => Seq(V) \subseteq Q
  BY <1>1, <1>3, SeqInd
<1> QED
  BY <1>4, <1>5 DEF P, Q
-----------------------------------------------------------------------------
\* s has the members of a NetworkInterface.
Shape(s) ==
    s = [ethernet_address  |-> s.ethernet_address,
         ip_address        |-> s.ip_address,
         frames_out        |-> s.frames_out,
         current_time      |-> s.current_time,
         addr_cache        |-> s.addr_cache,
         addr_request_time |-> s.addr_request_time,
         waiting_dgrams    |-> s.waiting_dgrams]

\* The members that only tick() or nobody changes.
Same(s, t) ==
    /\ t.ethernet_address = s.ethernet_address
    /\ t.ip_address = s.ip_address
    /\ t.current_time = s.current_time

\* What request() does.
LEMMA RequestEffect ==
    ASSUME NEW s, Shape(s), s.frames_out = << >>, NEW ip
    PROVE  LET t == request(s, ip)
           IN  /\ Shape(t) /\ Same(s, t)
               /\ t.addr_cache = s.addr_cache
               /\ t.waiting_dgrams = s.waiting_dgrams
               /\ t.addr_request_time = put(s.addr_request_time, ip, s.current_time)
               /\ t.frames_out = <<make_frame(ETHERNET_BROADCAST, "ARP",
                     ARPMessage("REQUEST", s.ethernet_address, s.ip_address, ip))>>
<1> DEFINE frame == make_frame(ETHERNET_BROADCAST, "ARP",
                      ARPMessage("REQUEST", s.ethernet_address, s.ip_address, ip))
           times == put(s.addr_request_time, ip, s.current_time)
<1>1. request(s, ip) = [s EXCEPT !.frames_out = Append(@, frame),
                                 !.addr_request_time = times]
  BY DEF Shape, request, send_frame
<1>2. Append(s.frames_out, frame) = <<frame>>
  OBVIOUS
<1> HIDE DEF frame, times
<1> QED
  BY <1>1, <1>2, ZenonT(60) DEF Shape, Same, frame, times

\* send_datagram() sends at once, or asks if it may and waits.
SendsOrWaits(s, t, d, hop) ==
    /\ Same(s, t) /\ t.addr_cache = s.addr_cache
    /\ hop \in DOMAIN s.addr_cache =>
          /\ t.frames_out = <<make_frame(s.addr_cache[hop].eth, "IPv4", d)>>
          /\ t.addr_request_time = s.addr_request_time
          /\ t.waiting_dgrams = s.waiting_dgrams
    /\ hop \notin DOMAIN s.addr_cache =>
          /\ t.waiting_dgrams = put(s.waiting_dgrams, hop, Append(waiting(s, hop), d))
          /\ may_request(s, hop) =>
                /\ t.addr_request_time = put(s.addr_request_time, hop, s.current_time)
                /\ t.frames_out = <<make_frame(ETHERNET_BROADCAST, "ARP",
                      ARPMessage("REQUEST", s.ethernet_address, s.ip_address, hop))>>
          /\ ~may_request(s, hop) =>
                /\ t.addr_request_time = s.addr_request_time
                /\ t.frames_out = << >>

\* What send_datagram() does is that.
LEMMA SendEffect ==
    ASSUME NEW s, Shape(s), s.frames_out = << >>, NEW d, NEW hop
    PROVE  LET t == send_datagram(s, d, hop) IN Shape(t) /\ SendsOrWaits(s, t, d, hop)
<1> DEFINE t == send_datagram(s, d, hop)
           a == IF may_request(s, hop) THEN request(s, hop) ELSE s
<1>1. CASE hop \in DOMAIN s.addr_cache
  BY <1>1 DEF Shape, Same, send_datagram, send_frame, SendsOrWaits
<1>2. CASE hop \notin DOMAIN s.addr_cache
  <2>1. t = [a EXCEPT !.waiting_dgrams = put(@, hop, Append(waiting(s, hop), d))]
    BY <1>2 DEF send_datagram
  <2>2. /\ Shape(a) /\ Same(s, a)
        /\ a.addr_cache = s.addr_cache /\ a.waiting_dgrams = s.waiting_dgrams
    BY RequestEffect DEF Same
  <2>3. may_request(s, hop) =>
           /\ a.addr_request_time = put(s.addr_request_time, hop, s.current_time)
           /\ a.frames_out = <<make_frame(ETHERNET_BROADCAST, "ARP",
                 ARPMessage("REQUEST", s.ethernet_address, s.ip_address, hop))>>
    BY RequestEffect
  <2>4. ~may_request(s, hop) =>
           a.addr_request_time = s.addr_request_time /\ a.frames_out = << >>
    OBVIOUS
  <2> HIDE DEF a, t
  <2>5. /\ Shape(t) /\ Same(a, t) /\ t.addr_cache = a.addr_cache
        /\ t.addr_request_time = a.addr_request_time /\ t.frames_out = a.frames_out
        /\ t.waiting_dgrams = put(a.waiting_dgrams, hop, Append(waiting(s, hop), d))
    BY <2>1, <2>2 DEF Shape, Same
  <2> QED
    BY <1>2, <2>2, <2>3, <2>4, <2>5 DEF Same, SendsOrWaits, t
<1> QED
  BY <1>1, <1>2

\* The addresses whose mappings are too old at a given time.
Old(cache, now) == {ip \in DOMAIN cache : now - cache[ip].time > CACHE_TIME}

\* What tick() does: time passes, and mappings that are too old go.
LEMMA TickEffect ==
    ASSUME NEW s, Shape(s), NEW ms
    PROVE  LET t == tick(s, ms)
           IN  /\ Shape(t)
               /\ t.ethernet_address = s.ethernet_address
               /\ t.ip_address = s.ip_address
               /\ t.frames_out = s.frames_out
               /\ t.current_time = s.current_time + ms
               /\ t.addr_cache = without(s.addr_cache, Old(s.addr_cache, t.current_time))
               /\ t.addr_request_time = s.addr_request_time
               /\ t.waiting_dgrams = s.waiting_dgrams
<1> DEFINE later == [s EXCEPT !.current_time = s.current_time + ms]
<1>1. tick(s, ms) = remove_expired_cache(later)
  BY DEF Shape, tick
<1>2. /\ Shape(later) /\ later.current_time = s.current_time + ms
      /\ later.ethernet_address = s.ethernet_address
      /\ later.ip_address = s.ip_address
      /\ later.frames_out = s.frames_out
      /\ later.addr_cache = s.addr_cache
      /\ later.addr_request_time = s.addr_request_time
      /\ later.waiting_dgrams = s.waiting_dgrams
  BY DEF Shape
<1> HIDE DEF later
<1> QED
  BY <1>1, <1>2, ZenonT(60) DEF Shape, remove_expired_cache, Old

\* A call that sends no datagram adds none to the history.
LEMMA FramedNone ==
    ASSUME NEW s, NEW U, s.frames_out \in Seq(U), \A f \in U : ~IsDatagram(f)
    PROVE  Framed(s) = << >>
<1> DEFINE frames == {s.frames_out[i] : i \in 1 .. Len(s.frames_out)}
           S == {f \in frames : IsDatagram(f)}
<1>1. U \intersect S = {}
  OBVIOUS
<1> HIDE DEF S
<1>2. Selected(s.frames_out, S) = << >>
  BY <1>1, SelectedAllOrNone
<1>3. Framed(s) = LET out == Selected(s.frames_out, S)
                  IN  [i \in 1 .. Len(out) |-> out[i].payload]
  BY ZenonT(60) DEF Framed, S
<1> QED
  BY <1>2, <1>3

\* A call that sends only datagrams, and perhaps one frame after them that is
\* none, adds what they hold.
LEMMA FramedAll ==
    ASSUME NEW s, NEW U, NEW sent \in Seq(U), \A f \in U : IsDatagram(f),
           NEW ans, ~IsDatagram(ans), s.frames_out \in {sent, Append(sent, ans)}
    PROVE  Framed(s) = [i \in 1 .. Len(sent) |-> sent[i].payload]
<1> DEFINE V == {sent[i] : i \in 1 .. Len(sent)}
           frames == {s.frames_out[i] : i \in 1 .. Len(s.frames_out)}
           S == {f \in frames : IsDatagram(f)}
<1>1. sent \in Seq(V)
  OBVIOUS
<1>2. V \subseteq S
  <2>1. ASSUME NEW i \in 1 .. Len(sent) PROVE sent[i] \in S
    <3>1. i \in 1 .. Len(s.frames_out) /\ s.frames_out[i] = sent[i]
      BY SMTT(60)
    <3>2. sent[i] \in U
      OBVIOUS
    <3> QED
      BY <3>1, <3>2
  <2> QED
    BY <2>1
<1>3. ans \notin S
  OBVIOUS
<1> HIDE DEF S, V
<1>4. Selected(sent, S) = sent
  BY <1>1, <1>2, SelectedAllOrNone
<1>5. Selected(Append(sent, ans), S) = Selected(sent, S)
  <2>1. sent \in Seq(V \union {ans}) /\ ans \in V \union {ans}
    BY <1>1
  <2> QED
    BY <1>3, <2>1, SelectedAppend
<1>6. Framed(s) = LET out == Selected(s.frames_out, S)
                  IN  [i \in 1 .. Len(out) |-> out[i].payload]
  BY ZenonT(60) DEF Framed, S
<1>7. Selected(s.frames_out, S) = sent
  BY <1>4, <1>5, ZenonT(60)
<1> QED
  BY <1>6, <1>7

\* With an accepted ARP message the sender's mapping is known and no longer
\* asked for, and what waited for it leaves; nothing that is sent is a request.
Learns(s, t, msg) ==
    LET ip == msg.sender_ip_address
    IN  /\ Same(s, t)
        /\ t.addr_cache = put(s.addr_cache, ip,
              [eth |-> msg.sender_ethernet_address, time |-> s.current_time])
        /\ t.addr_request_time = without(s.addr_request_time, {ip})
        /\ t.waiting_dgrams = without(s.waiting_dgrams, {ip})
        /\ Framed(t) = waiting(s, ip)
        /\ \A i \in 1 .. Len(t.frames_out) :
              /\ \A x : ~RequestFor(t.frames_out[i], x)
              /\ IsDatagram(t.frames_out[i]) =>
                    /\ t.frames_out[i].dst = msg.sender_ethernet_address
                    /\ \E j \in 1 .. Len(waiting(s, ip)) :
                          t.frames_out[i].payload = waiting(s, ip)[j]

\* What recv_frame() does with an ARP message is that.
LEMMA LearnEffect ==
    ASSUME NEW s, Shape(s), s.frames_out = << >>, NEW frame,
           for_us(s, frame), frame.type = "ARP",
           waiting(s, frame.payload.sender_ip_address) \in Seq(Nat)
    PROVE  LET t == recv_frame(s, frame, TRUE) IN Shape(t) /\ Learns(s, t, frame.payload)
<1> DEFINE msg   == frame.payload
           ip    == msg.sender_ip_address
           entry == [eth |-> msg.sender_ethernet_address, time |-> s.current_time]
           ready == waiting(s, ip)
           sent  == [i \in 1 .. Len(ready) |->
                       make_frame(msg.sender_ethernet_address, "IPv4", ready[i])]
           u     == learn(s, msg)
           v     == try_send_waiting(u, ip)
           ans   == make_frame(msg.sender_ethernet_address, "ARP",
                       ARPMessage("REPLY", v.ethernet_address, v.ip_address, ip))
           t     == recv_frame(s, frame, TRUE)
<1>1. /\ Shape(u) /\ Same(s, u) /\ u.frames_out = << >>
      /\ u.addr_cache = put(s.addr_cache, ip, entry)
      /\ u.addr_request_time = without(s.addr_request_time, {ip})
      /\ u.waiting_dgrams = s.waiting_dgrams
  <2> DEFINE cache == put(s.addr_cache, ip, entry)
             times == without(s.addr_request_time, {ip})
  <2>1. u = [s EXCEPT !.addr_cache = cache, !.addr_request_time = times]
    BY DEF learn
  <2> HIDE DEF u, cache, times
  <2> QED
    BY <2>1, ZenonT(60) DEF Shape, Same, cache, times
<1>2. u.addr_cache[ip] = entry
  BY <1>1 DEF put
<1>3. waiting(u, ip) = ready
  BY <1>1 DEF waiting
<1>4. v = [u EXCEPT !.frames_out = u.frames_out \o sent,
                    !.waiting_dgrams = without(u.waiting_dgrams, {ip})]
  <2> HIDE DEF u, ready
  <2>1. u.addr_cache[ip].eth = msg.sender_ethernet_address
    BY <1>2
  <2> QED
    BY <1>1, <1>3, <2>1, ZenonT(60) DEF Shape, try_send_waiting
<1>5. /\ sent \in Seq({sent[i] : i \in 1 .. Len(ready)})
      /\ Len(sent) = Len(ready)
  OBVIOUS
<1>6. u.frames_out \o sent = sent
  BY <1>1, <1>5, SMTT(60)
<1>7. /\ Shape(v) /\ Same(u, v) /\ v.frames_out = sent
      /\ v.addr_cache = u.addr_cache
      /\ v.addr_request_time = u.addr_request_time
      /\ v.waiting_dgrams = without(u.waiting_dgrams, {ip})
  <2> HIDE DEF u, sent, v
  <2> QED
    BY <1>1, <1>4, <1>6, ZenonT(60) DEF Shape, Same
<1>8. t = reply(v, msg)
  BY DEF recv_frame
<1>9. t = v \/ t = [v EXCEPT !.frames_out = Append(sent, ans)]
  <2> HIDE DEF v, t, sent
  <2> QED
    BY <1>7, <1>8 DEF reply, send_frame, Shape
<1>10. /\ Shape(t) /\ Same(v, t) /\ t.frames_out \in {sent, Append(sent, ans)}
       /\ t.addr_cache = v.addr_cache
       /\ t.addr_request_time = v.addr_request_time
       /\ t.waiting_dgrams = v.waiting_dgrams
  <2> HIDE DEF v, t, sent, ans
  <2> QED
    BY <1>7, <1>9 DEF Shape, Same
<1>11. ASSUME NEW i \in 1 .. Len(t.frames_out)
       PROVE  (i \in 1 .. Len(ready) /\ t.frames_out[i] = sent[i]) \/ t.frames_out[i] = ans
  <2> HIDE DEF t, ans, ready, sent
  <2>1. CASE t.frames_out = sent
    BY <1>5, <2>1
  <2>2. CASE t.frames_out = Append(sent, ans)
    BY <1>5, <2>2
  <2> QED
    BY <1>10, <2>1, <2>2
<1>12. ASSUME NEW i \in 1 .. Len(t.frames_out)
       PROVE  /\ \A x : ~RequestFor(t.frames_out[i], x)
              /\ IsDatagram(t.frames_out[i]) =>
                    /\ t.frames_out[i].dst = msg.sender_ethernet_address
                    /\ \E j \in 1 .. Len(ready) : t.frames_out[i].payload = ready[j]
  <2>1. CASE t.frames_out[i] = ans
    <3> HIDE DEF t, v
    <3> QED
      BY <2>1 DEF RequestFor, IsDatagram, make_frame, ARPMessage
  <2>2. CASE i \in 1 .. Len(ready) /\ t.frames_out[i] = sent[i]
    <3>1. sent[i] = make_frame(msg.sender_ethernet_address, "IPv4", ready[i])
      BY <2>2
    <3> HIDE DEF t, sent, ready
    <3> QED
      BY <2>2, <3>1 DEF RequestFor, IsDatagram, make_frame
  <2> QED
    BY <1>11, <2>1, <2>2, ZenonT(60)
<1>13. Framed(t) = ready
  <2> DEFINE U == {sent[i] : i \in 1 .. Len(ready)}
  <2>1. \A i \in 1 .. Len(ready) : sent[i].type = "IPv4" /\ sent[i].payload = ready[i]
    BY DEF make_frame
  <2>2. ans.type = "ARP"
    BY DEF make_frame
  <2> HIDE DEF t, ans, sent, ready
  <2>3. (\A f \in U : IsDatagram(f)) /\ ~IsDatagram(ans)
    BY <2>1, <2>2 DEF IsDatagram
  <2>4. sent \in Seq(U) /\ t.frames_out \in {sent, Append(sent, ans)}
    BY <1>5, <1>10
  <2> HIDE DEF U
  <2>5. Framed(t) = [i \in 1 .. Len(sent) |-> sent[i].payload]
    BY <2>3, <2>4, FramedAll, SMTT(60)
  <2>6. [i \in 1 .. Len(sent) |-> sent[i].payload] = [i \in 1 .. Len(ready) |-> ready[i]]
    BY <1>5, <2>1
  <2>7. ready = [i \in 1 .. Len(ready) |-> ready[i]]
    BY DEF ready
  <2> QED
    BY <2>5, <2>6, <2>7
<1> QED
  <2> HIDE DEF t, u, v, ready
  <2>1. /\ Shape(t) /\ Same(s, t)
        /\ t.addr_cache = put(s.addr_cache, ip, entry)
        /\ t.addr_request_time = without(s.addr_request_time, {ip})
        /\ t.waiting_dgrams = without(s.waiting_dgrams, {ip})
    BY <1>1, <1>7, <1>10 DEF Same
  <2> QED
    BY <1>12, <1>13, <2>1, ZenonT(60) DEF t, ready, Learns
-----------------------------------------------------------------------------
\* Nothing has been claimed or asked for later than now.
NothingAhead ==
    /\ \A ip \in DOMAIN claimed : claimed[ip].time <= ni.current_time
    /\ \A ip \in DOMAIN asked : asked[ip] <= ni.current_time

\* What waits for an address was handed over for it.
WaitsForItsHop ==
    \A ip \in DOMAIN ni.waiting_dgrams : \A j \in 1 .. Len(ni.waiting_dgrams[ip]) :
        LET d == ni.waiting_dgrams[ip][j]
        IN  d \in 1 .. Len(handed) /\ handed[d] = ip

\* The last request for an address is on record, or was followed by an answer
\* that is still cached, or is older than any answer that could be cached.
AskedAccounted ==
    /\ \A ip \in DOMAIN ni.addr_request_time :
          ip \in DOMAIN asked /\ asked[ip] = ni.addr_request_time[ip]
    /\ \A ip \in DOMAIN asked \ DOMAIN ni.addr_request_time :
          IF ip \in DOMAIN ni.addr_cache
          THEN asked[ip] <= ni.addr_cache[ip].time
          ELSE ni.current_time - asked[ip] > CACHE_TIME

IInv ==
    /\ Shape(ni) /\ TypeOK
    /\ RequestIffWaiting /\ MappingsFresh
    /\ NothingAhead /\ WaitsForItsHop /\ AskedAccounted

\* put() and without() keep the type of a map.
LEMMA MapsStayMaps ==
    ASSUME NEW V, NEW f, MapTo(f, V)
    PROVE  /\ \A k \in IP, v \in V : MapTo(put(f, k, v), V)
           /\ \A K : MapTo(without(f, K), V)
<1>1. ASSUME NEW k \in IP, NEW v \in V PROVE MapTo(put(f, k, v), V)
  BY DEF MapTo, put
<1>2. ASSUME NEW K PROVE MapTo(without(f, K), V)
  BY DEF MapTo, without
<1> QED
  BY <1>1, <1>2

\* A call that sends no request leaves asked alone.
LEMMA QuietCall ==
    ASSUME MapTo(asked, Nat), NEW s, Becomes(s),
           \A i \in 1 .. Len(s.frames_out) : \A x : ~RequestFor(s.frames_out[i], x)
    PROVE  asked' = asked /\ \A x : ~Requests(s, x)
<1>1. \A x : ~Requests(s, x)
  BY DEF Requests
<1>2. asked' = [x \in DOMAIN asked |-> asked[x]]
  BY <1>1, ZenonT(60) DEF Becomes
<1>3. asked = [x \in DOMAIN asked |-> asked[x]]
  BY DEF MapTo
<1> QED
  BY <1>1, <1>2, <1>3

\* A call that sends one request asks for its target, now.
LEMMA AskingCall ==
    ASSUME NEW s, NEW hop \in IP, NEW a, NEW b, Becomes(s),
           s.frames_out = <<make_frame(ETHERNET_BROADCAST, "ARP",
                                       ARPMessage("REQUEST", a, b, hop))>>
    PROVE  /\ asked' = put(asked, hop, s.current_time)
           /\ \A x : Requests(s, x) <=> x = hop
<1>1. \A x : Requests(s, x) <=> x = hop
  BY DEF Requests, RequestFor, make_frame, ARPMessage
<1>2. {i \in IP : Requests(s, i)} = {hop}
  BY <1>1
<1>3. asked' = [x \in DOMAIN asked \union {hop} |->
                  IF Requests(s, x) THEN s.current_time ELSE asked[x]]
  BY <1>2 DEF Becomes
<1> QED
  BY <1>1, <1>3 DEF put

\* Taking the frames off the queue changes nothing else.
LEMMA EmptiedEffect ==
    ASSUME Shape(ni)
    PROVE  /\ Shape(Emptied) /\ Same(ni, Emptied) /\ Emptied.frames_out = << >>
           /\ Emptied.addr_cache = ni.addr_cache
           /\ Emptied.addr_request_time = ni.addr_request_time
           /\ Emptied.waiting_dgrams = ni.waiting_dgrams
BY DEF Shape, Same, Emptied

\* A new interface knows nothing and has asked for nothing.
LEMMA InitIInv == Init => IInv
<1> SUFFICES ASSUME Init PROVE IInv
  OBVIOUS
<1>1. /\ ni.ethernet_address = MyEthernet /\ ni.ip_address = MyIP
      /\ ni.frames_out = << >> /\ ni.current_time = 0
      /\ ni.addr_cache = [ip \in {} |-> [eth |-> MyEthernet, time |-> 0]]
      /\ ni.addr_request_time = [ip \in {} |-> 0]
      /\ ni.waiting_dgrams = [ip \in {} |-> << >>]
      /\ Shape(ni)
  BY DEF Init, NewNetworkInterface, Shape
<1>2. TypeOK
  BY <1>1 DEF Init, TypeOK, MapTo
<1>3. RequestIffWaiting /\ MappingsFresh
  BY <1>1 DEF RequestIffWaiting, MappingsFresh
<1>4. NothingAhead /\ WaitsForItsHop /\ AskedAccounted
  BY <1>1 DEF Init, NothingAhead, WaitsForItsHop, AskedAccounted
<1> QED
  BY <1>1, <1>2, <1>3, <1>4 DEF IInv

\* tick() makes everything older, and drops the mappings that are too old.
LEMMA TickIInv ==
    ASSUME IInv, NEW ms \in 1 .. MaxTick, Tick(ms)
    PROVE  IInv' /\ \A x : ~Requests(ni', x)
<1> DEFINE old == Old(ni.addr_cache, ni'.current_time)
<1>1. /\ ni' = tick(Emptied, ms) /\ Becomes(ni')
      /\ handed' = handed /\ claimed' = claimed
  BY DEF Tick, Becomes
<1>2. /\ Shape(ni)' /\ ni'.frames_out = << >>
      /\ ni'.ethernet_address = ni.ethernet_address
      /\ ni'.ip_address = ni.ip_address
      /\ ni'.current_time = ni.current_time + ms
      /\ ni'.addr_cache = without(ni.addr_cache, old)
      /\ ni'.addr_request_time = ni.addr_request_time
      /\ ni'.waiting_dgrams = ni.waiting_dgrams
  <2>1. /\ Shape(Emptied) /\ Same(ni, Emptied) /\ Emptied.frames_out = << >>
        /\ Emptied.addr_cache = ni.addr_cache
        /\ Emptied.addr_request_time = ni.addr_request_time
        /\ Emptied.waiting_dgrams = ni.waiting_dgrams
    BY EmptiedEffect DEF IInv
  <2>2. /\ Shape(ni')
        /\ ni'.ethernet_address = Emptied.ethernet_address
        /\ ni'.ip_address = Emptied.ip_address
        /\ ni'.frames_out = Emptied.frames_out
        /\ ni'.current_time = Emptied.current_time + ms
        /\ ni'.addr_cache = without(Emptied.addr_cache,
                                    Old(Emptied.addr_cache, ni'.current_time))
        /\ ni'.addr_request_time = Emptied.addr_request_time
        /\ ni'.waiting_dgrams = Emptied.waiting_dgrams
    BY <1>1, <2>1, TickEffect
  <2>3. Shape(ni)'
    BY <2>2 DEF Shape
  <2> QED
    BY <2>1, <2>2, <2>3 DEF Same
<1> HIDE DEF old
<1>3. asked' = asked /\ \A x : ~Requests(ni', x)
  BY <1>1, <1>2, QuietCall DEF IInv, TypeOK
<1>4. ni'.current_time \in Nat /\ ni.current_time \in Nat /\ ni'.current_time > ni.current_time
  BY <1>2, InterfaceAssumption DEF IInv, TypeOK, InterfaceAssumption
<1>5. /\ DOMAIN ni'.addr_cache = DOMAIN ni.addr_cache \ old
      /\ \A ip \in DOMAIN ni'.addr_cache : ni'.addr_cache[ip] = ni.addr_cache[ip]
  BY <1>2 DEF without
<1>6. TypeOK'
  <2>1. MapTo(ni'.addr_cache, [eth : EthernetAddress, time : Nat])
    BY <1>2, MapsStayMaps DEF IInv, TypeOK
  <2> QED
    BY <1>1, <1>2, <1>3, <1>4, <2>1 DEF IInv, TypeOK
<1>7. RequestIffWaiting'
  BY <1>2, <1>5 DEF IInv, RequestIffWaiting
<1>8. NothingAhead' /\ WaitsForItsHop'
  BY <1>1, <1>2, <1>3, <1>4
  DEF IInv, NothingAhead, WaitsForItsHop, TypeOK, MapTo
<1>9. MappingsFresh'
  <2>1. \A ip \in DOMAIN ni'.addr_cache :
           /\ ip \in DOMAIN claimed /\ ni.addr_cache[ip] = claimed[ip]
           /\ ni'.addr_cache[ip] = claimed[ip]
    BY <1>5 DEF IInv, MappingsFresh
  <2>2. ASSUME NEW ip \in DOMAIN ni'.addr_cache
        PROVE  ni'.current_time - claimed[ip].time <= CACHE_TIME
    <3>1. ip \notin old /\ ip \in DOMAIN ni.addr_cache
      BY <1>5
    <3>2. ~(ni'.current_time - ni.addr_cache[ip].time > CACHE_TIME)
      BY <3>1 DEF old, Old
    <3>3. claimed[ip].time \in Nat /\ ni.addr_cache[ip] = claimed[ip]
      BY <2>1 DEF IInv, TypeOK, MapTo
    <3> QED
      BY <1>4, <3>2, <3>3, InterfaceAssumption DEF InterfaceAssumption
  <2> QED
    BY <1>1, <1>2, <2>1, <2>2 DEF MappingsFresh
<1>10. AskedAccounted'
  <2>1. ASSUME NEW ip \in DOMAIN asked \ DOMAIN ni.addr_request_time
        PROVE  IF ip \in DOMAIN ni'.addr_cache
               THEN asked[ip] <= ni'.addr_cache[ip].time
               ELSE ni'.current_time - asked[ip] > CACHE_TIME
    <3>1. IF ip \in DOMAIN ni.addr_cache
          THEN asked[ip] <= ni.addr_cache[ip].time
          ELSE ni.current_time - asked[ip] > CACHE_TIME
      BY DEF IInv, AskedAccounted
    <3>2. asked[ip] \in Nat
      BY DEF IInv, TypeOK, MapTo
    <3>3. CASE ip \in DOMAIN ni'.addr_cache
      BY <1>5, <3>1, <3>3
    <3>4. CASE ip \in old
      <4>1. ip \in DOMAIN ni.addr_cache /\ ni'.current_time - ni.addr_cache[ip].time > CACHE_TIME
        BY <3>4 DEF old, Old
      <4>2. ni.addr_cache[ip].time \in Nat
        BY <4>1 DEF IInv, TypeOK, MapTo
      <4> QED
        BY <1>4, <1>5, <3>1, <3>2, <3>4, <4>1, <4>2, InterfaceAssumption
        DEF InterfaceAssumption
    <3>5. CASE ip \notin DOMAIN ni.addr_cache
      BY <1>4, <1>5, <3>1, <3>2, <3>5, InterfaceAssumption DEF InterfaceAssumption
    <3> QED
      BY <1>5, <3>3, <3>4, <3>5
  <2> QED
    BY <1>2, <1>3, <2>1 DEF IInv, AskedAccounted
<1> QED
  BY <1>2, <1>3, <1>6, <1>7, <1>8, <1>9, <1>10 DEF IInv

\* What SendDatagram does to the members.
LEMMA SendStep ==
    ASSUME IInv, NEW hop \in IP, SendDatagram(hop)
    PROVE  /\ Shape(ni)' /\ SendsOrWaits(ni, ni', Len(handed) + 1, hop)
           /\ Becomes(ni') /\ handed' = Append(handed, hop) /\ claimed' = claimed
<1> DEFINE d == Len(handed) + 1
<1>1. /\ ni' = send_datagram(Emptied, d, hop) /\ Becomes(ni')
      /\ handed' = Append(handed, hop) /\ claimed' = claimed
  BY DEF SendDatagram, Becomes
<1>2. /\ Shape(Emptied) /\ Same(ni, Emptied) /\ Emptied.frames_out = << >>
      /\ Emptied.addr_cache = ni.addr_cache
      /\ Emptied.addr_request_time = ni.addr_request_time
      /\ Emptied.waiting_dgrams = ni.waiting_dgrams
  BY EmptiedEffect DEF IInv
<1>3. /\ waiting(Emptied, hop) = waiting(ni, hop)
      /\ may_request(Emptied, hop) <=> may_request(ni, hop)
  BY <1>2 DEF waiting, may_request, Same
<1> HIDE DEF d
<1>4. Shape(ni') /\ SendsOrWaits(Emptied, ni', d, hop)
  BY <1>1, <1>2, SendEffect
<1>5. Shape(ni)'
  BY <1>4, SMTT(60) DEF Shape
<1>6. SendsOrWaits(ni, ni', d, hop)
  BY <1>2, <1>3, <1>4, SMTT(60) DEF SendsOrWaits, Same
<1> QED
  BY <1>1, <1>5, <1>6 DEF d

\* What is added to a queue was handed over for its address.
LEMMA EnqueueKeepsHops ==
    ASSUME IInv, NEW hop \in IP, handed' = Append(handed, hop),
           \/ ni'.waiting_dgrams = ni.waiting_dgrams
           \/ ni'.waiting_dgrams = put(ni.waiting_dgrams, hop,
                                       Append(waiting(ni, hop), Len(handed) + 1))
    PROVE  WaitsForItsHop' /\ MapTo(ni'.waiting_dgrams, Seq(Nat))
<1> DEFINE old == ni.waiting_dgrams
           queue == waiting(ni, hop)
           d == Len(handed) + 1
<1>1. /\ handed \in Seq(IP) /\ Len(handed) \in Nat /\ d \in Nat
      /\ \A i \in 1 .. Len(handed) : handed'[i] = handed[i]
      /\ Len(handed') = d /\ handed'[d] = hop
  BY DEF IInv, TypeOK
<1>2. \A ip \in DOMAIN old : \A j \in 1 .. Len(old[ip]) :
         old[ip][j] \in 1 .. Len(handed') /\ handed'[old[ip][j]] = ip
  BY <1>1 DEF IInv, WaitsForItsHop
<1>3. MapTo(old, Seq(Nat))
  BY DEF IInv, TypeOK
<1>4. queue \in Seq(Nat)
  BY <1>3 DEF waiting, MapTo
<1>5. \A j \in 1 .. Len(queue) : queue[j] \in 1 .. Len(handed') /\ handed'[queue[j]] = hop
  BY <1>2, <1>4 DEF waiting
<1>6. Append(queue, d) \in Seq(Nat)
  BY <1>1, <1>4
<1>7. \A j \in 1 .. Len(Append(queue, d)) :
         /\ Append(queue, d)[j] \in 1 .. Len(handed')
         /\ handed'[Append(queue, d)[j]] = hop
  BY <1>1, <1>4, <1>5, SMTT(90)
<1> HIDE DEF old, queue, d
<1>8. CASE ni'.waiting_dgrams = old
  BY <1>2, <1>3, <1>8 DEF WaitsForItsHop
<1>9. CASE ni'.waiting_dgrams = put(old, hop, Append(queue, d))
  <2> DEFINE new == Append(queue, d)
  <2>1. MapTo(ni'.waiting_dgrams, Seq(Nat))
    BY <1>3, <1>6, <1>9, MapsStayMaps, ZenonT(60)
  <2>2. /\ DOMAIN ni'.waiting_dgrams = DOMAIN old \union {hop}
        /\ ni'.waiting_dgrams[hop] = new
        /\ \A x \in DOMAIN old \ {hop} : ni'.waiting_dgrams[x] = old[x]
    <3>1. ni'.waiting_dgrams = put(old, hop, new)
      BY <1>9
    <3> HIDE DEF new
    <3> QED
      BY <3>1 DEF put
  <2>3. \A ip \in DOMAIN ni'.waiting_dgrams : \A j \in 1 .. Len(ni'.waiting_dgrams[ip]) :
           /\ ni'.waiting_dgrams[ip][j] \in 1 .. Len(handed')
           /\ handed'[ni'.waiting_dgrams[ip][j]] = ip
    <3>1. \A j \in 1 .. Len(new) : new[j] \in 1 .. Len(handed') /\ handed'[new[j]] = hop
      BY <1>7
    <3> HIDE DEF new
    <3> QED
      BY <1>2, <2>2, <3>1
  <2> QED
    BY <2>1, <2>3 DEF WaitsForItsHop
<1> QED
  BY <1>8, <1>9 DEF old, queue, d

\* A request made by a step comes late enough after the one before it.
Spaced ==
    \A ip \in DOMAIN asked :
        Requests(ni', ip) => ni'.current_time - asked[ip] > REQUEST_TIME

\* send_datagram() preserves the invariant: a mapping it uses is fresh, and an
\* address it asks for has not been asked for recently.
LEMMA SendIInv ==
    ASSUME IInv, NEW hop \in IP, SendDatagram(hop)
    PROVE  IInv' /\ Spaced
<1> DEFINE now == ni.current_time
           cache == ni.addr_cache
           times == ni.addr_request_time
           d == Len(handed) + 1
<1>1. /\ Shape(ni)' /\ SendsOrWaits(ni, ni', d, hop)
      /\ Becomes(ni') /\ handed' = Append(handed, hop) /\ claimed' = claimed
  BY SendStep
<1>2. /\ ni'.ethernet_address = MyEthernet /\ ni'.ip_address = MyIP
      /\ ni'.current_time = now /\ ni'.addr_cache = cache /\ now \in Nat
      /\ handed' \in Seq(IP) /\ handed'[d] = hop
  BY <1>1, SMTT(60) DEF SendsOrWaits, Same, IInv, TypeOK
<1>3. WaitsForItsHop' /\ MapTo(ni'.waiting_dgrams, Seq(Nat))
  BY <1>1, EnqueueKeepsHops DEF SendsOrWaits
<1>4. /\ MapTo(cache, [eth : EthernetAddress, time : Nat])
      /\ MapTo(claimed, [eth : EthernetAddress, time : Nat])
      /\ MapTo(times, Nat) /\ MapTo(asked, Nat)
  BY DEF IInv, TypeOK
<1>5. \A ip \in DOMAIN cache :
         /\ ip \in DOMAIN claimed /\ cache[ip] = claimed[ip]
         /\ now - claimed[ip].time <= CACHE_TIME
  BY DEF IInv, MappingsFresh
<1>6. CASE hop \in DOMAIN cache
  <2> DEFINE frame == make_frame(cache[hop].eth, "IPv4", d)
  <2>1. /\ ni'.frames_out = <<frame>>
        /\ ni'.addr_request_time = times
        /\ ni'.waiting_dgrams = ni.waiting_dgrams
    BY <1>1, <1>6 DEF SendsOrWaits
  <2>2. frame.type = "IPv4" /\ frame.dst = cache[hop].eth /\ frame.payload = d
    BY DEF make_frame
  <2> HIDE DEF frame
  <2>3. \A i \in 1 .. Len(ni'.frames_out) : \A x : ~RequestFor(ni'.frames_out[i], x)
    BY <2>1, <2>2 DEF RequestFor
  <2>4. asked' = asked /\ \A x : ~Requests(ni', x)
    BY <1>1, <1>4, <2>3, QuietCall, ZenonT(60)
  <2>5. TypeOK'
    BY <1>1, <1>2, <1>3, <1>4, <2>1, <2>4, SMTT(60) DEF TypeOK
  <2>6. MappingsFresh'
    BY <1>1, <1>2, <1>5, <1>6, <2>1, <2>2, SMTT(60) DEF MappingsFresh
  <2>7. RequestIffWaiting' /\ NothingAhead' /\ AskedAccounted'
    BY <1>1, <1>2, <2>1, <2>4
    DEF IInv, RequestIffWaiting, NothingAhead, AskedAccounted
  <2> QED
    BY <1>1, <1>3, <2>4, <2>5, <2>6, <2>7, SMTT(60) DEF IInv, Spaced
<1>7. CASE hop \notin DOMAIN cache /\ may_request(ni, hop)
  <2>1. /\ ni'.frames_out = <<make_frame(ETHERNET_BROADCAST, "ARP",
              ARPMessage("REQUEST", ni.ethernet_address, ni.ip_address, hop))>>
        /\ ni'.addr_request_time = put(times, hop, now)
        /\ ni'.waiting_dgrams = put(ni.waiting_dgrams, hop, Append(waiting(ni, hop), d))
    BY <1>1, <1>7, SMTT(60) DEF SendsOrWaits
  <2>2. /\ asked' = put(asked, hop, now)
        /\ \A x : Requests(ni', x) <=> x = hop
    BY <1>1, <1>2, <2>1, AskingCall
  <2>3. /\ DOMAIN ni'.addr_request_time = DOMAIN times \union {hop}
        /\ DOMAIN asked' = DOMAIN asked \union {hop}
        /\ ni'.addr_request_time[hop] = now /\ asked'[hop] = now
        /\ \A x \in DOMAIN times \ {hop} : ni'.addr_request_time[x] = times[x]
        /\ \A x \in DOMAIN asked \ {hop} : asked'[x] = asked[x]
    <3> HIDE DEF times, now
    <3> QED
      BY <2>1, <2>2, SMTT(60) DEF put
  <2>4. TypeOK'
    <3>1. MapTo(ni'.addr_request_time, Nat) /\ MapTo(asked', Nat)
      BY <1>2, <1>4, <2>1, <2>2, MapsStayMaps, SMTT(60)
    <3> QED
      BY <1>1, <1>2, <1>3, <1>4, <3>1, SMTT(60) DEF TypeOK
  <2>5. RequestIffWaiting'
    <3>1. DOMAIN ni'.waiting_dgrams = DOMAIN ni.waiting_dgrams \union {hop}
      BY <2>1, SMTT(60) DEF put
    <3> QED
      BY <1>2, <1>7, <2>3, <3>1 DEF IInv, RequestIffWaiting
  <2>6. MappingsFresh'
    <3>1. ni'.frames_out[1].type = "ARP" /\ Len(ni'.frames_out) = 1
      BY <2>1 DEF make_frame
    <3> QED
      BY <1>1, <1>2, <1>5, <3>1, SMTT(90) DEF MappingsFresh, IsDatagram
  <2>7. NothingAhead'
    BY <1>1, <1>2, <2>3 DEF IInv, NothingAhead
  <2>8. AskedAccounted'
    BY <1>2, <2>3 DEF IInv, AskedAccounted
  <2>9. Spaced
    <3>1. SUFFICES ASSUME hop \in DOMAIN asked PROVE now - asked[hop] > REQUEST_TIME
      BY <1>2, <2>2 DEF Spaced
    <3>2. asked[hop] \in Nat
      BY <1>4, <3>1 DEF MapTo
    <3>3. CASE hop \in DOMAIN times
      BY <1>7, <3>3 DEF may_request, IInv, AskedAccounted
    <3>4. CASE hop \notin DOMAIN times
      <4>1. now - asked[hop] > CACHE_TIME
        BY <1>7, <3>1, <3>4 DEF IInv, AskedAccounted
      <4> QED
        BY <1>2, <3>2, <4>1, InterfaceAssumption DEF InterfaceAssumption
    <3> QED
      BY <3>3, <3>4, SMTT(60)
  <2> QED
    BY <1>1, <1>3, <2>4, <2>5, <2>6, <2>7, <2>8, <2>9, SMTT(60) DEF IInv
<1>8. CASE hop \notin DOMAIN cache /\ ~may_request(ni, hop)
  <2>1. /\ ni'.frames_out = << >>
        /\ ni'.addr_request_time = times
        /\ ni'.waiting_dgrams = put(ni.waiting_dgrams, hop, Append(waiting(ni, hop), d))
    BY <1>1, <1>8, SMTT(60) DEF SendsOrWaits
  <2>2. asked' = asked /\ \A x : ~Requests(ni', x)
    BY <1>1, <1>4, <2>1, QuietCall, SMTT(90)
  <2>3. DOMAIN ni'.waiting_dgrams = DOMAIN ni.waiting_dgrams
    <3>1. hop \in DOMAIN ni.waiting_dgrams
      BY <1>8 DEF may_request, IInv, RequestIffWaiting
    <3>2. DOMAIN ni'.waiting_dgrams = DOMAIN ni.waiting_dgrams \union {hop}
      BY <2>1, SMTT(60) DEF put
    <3> QED
      BY <3>1, <3>2
  <2>4. TypeOK'
    BY <1>1, <1>2, <1>3, <1>4, <2>1, <2>2, SMTT(60) DEF TypeOK
  <2>5. RequestIffWaiting' /\ NothingAhead' /\ AskedAccounted'
    BY <1>1, <1>2, <2>1, <2>2, <2>3, SMTT(60)
    DEF IInv, RequestIffWaiting, NothingAhead, AskedAccounted
  <2>6. MappingsFresh'
    BY <1>1, <1>2, <1>5, <2>1, SMTT(90) DEF MappingsFresh
  <2> QED
    BY <1>1, <1>3, <2>2, <2>4, <2>5, <2>6, SMTT(60) DEF IInv, Spaced
<1> QED
  BY <1>6, <1>7, <1>8

\* An ARP message that recv_frame() accepts preserves the invariant: what it
\* claims is the newest there is, and what waited for it leaves to it.
LEMMA LearnIInv ==
    ASSUME IInv, NEW frame \in Frame, RecvFrame(frame, TRUE),
           for_us(ni, frame), frame.type = "ARP"
    PROVE  IInv' /\ \A x : ~Requests(ni', x)
<1> DEFINE msg   == frame.payload
           ip    == msg.sender_ip_address
           now   == ni.current_time
           entry == [eth |-> msg.sender_ethernet_address, time |-> now]
           ready == waiting(ni, ip)
<1>1. /\ ni' = recv_frame(Emptied, frame, TRUE) /\ Becomes(ni')
      /\ claimed' = put(claimed, ip, entry) /\ handed' = handed
  BY DEF RecvFrame, Becomes
<1>2. ip \in IP /\ now \in Nat /\ entry \in [eth : EthernetAddress, time : Nat]
  BY DEF Frame, IInv, TypeOK
<1>3. /\ MapTo(ni.addr_cache, [eth : EthernetAddress, time : Nat])
      /\ MapTo(claimed, [eth : EthernetAddress, time : Nat])
      /\ MapTo(ni.addr_request_time, Nat) /\ MapTo(asked, Nat)
      /\ MapTo(ni.waiting_dgrams, Seq(Nat))
  BY DEF IInv, TypeOK
<1>4. ready \in Seq(Nat)
  BY <1>3 DEF waiting, MapTo
<1>5. /\ Shape(Emptied) /\ Same(ni, Emptied) /\ Emptied.frames_out = << >>
      /\ Emptied.addr_cache = ni.addr_cache
      /\ Emptied.addr_request_time = ni.addr_request_time
      /\ Emptied.waiting_dgrams = ni.waiting_dgrams
  BY EmptiedEffect DEF IInv
<1>6. for_us(Emptied, frame) /\ waiting(Emptied, ip) = ready
  BY <1>5, SMTT(60) DEF for_us, waiting, Same
<1>7. /\ Shape(ni') /\ Same(ni, ni')
      /\ ni'.addr_cache = put(ni.addr_cache, ip, entry)
      /\ ni'.addr_request_time = without(ni.addr_request_time, {ip})
      /\ ni'.waiting_dgrams = without(ni.waiting_dgrams, {ip})
      /\ \A i \in 1 .. Len(ni'.frames_out) :
            /\ \A x : ~RequestFor(ni'.frames_out[i], x)
            /\ IsDatagram(ni'.frames_out[i]) =>
                  /\ ni'.frames_out[i].dst = msg.sender_ethernet_address
                  /\ \E j \in 1 .. Len(ready) : ni'.frames_out[i].payload = ready[j]
  <2>1. Emptied.current_time = now
    BY <1>5, SMTT(60) DEF Same
  <2>2. Shape(ni') /\ Learns(Emptied, ni', msg)
    BY <1>1, <1>4, <1>5, <1>6, LearnEffect, ZenonT(60)
  <2> QED
    BY <1>5, <1>6, <2>1, <2>2, SMTT(60) DEF Same, Learns
<1>8. Shape(ni)'
  BY <1>7 DEF Shape
<1>9. asked' = asked /\ \A x : ~Requests(ni', x)
  BY <1>1, <1>3, <1>7, QuietCall, ZenonT(60)
<1> HIDE DEF entry, ready
<1>10. /\ DOMAIN ni'.addr_cache = DOMAIN ni.addr_cache \union {ip}
       /\ DOMAIN claimed' = DOMAIN claimed \union {ip}
       /\ ni'.addr_cache[ip] = entry /\ claimed'[ip] = entry
       /\ \A x \in DOMAIN ni.addr_cache \ {ip} : ni'.addr_cache[x] = ni.addr_cache[x]
       /\ \A x \in DOMAIN claimed \ {ip} : claimed'[x] = claimed[x]
  BY <1>1, <1>7, ZenonT(60) DEF put
<1>11. /\ DOMAIN ni'.addr_request_time = DOMAIN ni.addr_request_time \ {ip}
       /\ DOMAIN ni'.waiting_dgrams = DOMAIN ni.waiting_dgrams \ {ip}
       /\ \A x \in DOMAIN ni'.addr_request_time :
             ni'.addr_request_time[x] = ni.addr_request_time[x]
       /\ \A x \in DOMAIN ni'.waiting_dgrams :
             ni'.waiting_dgrams[x] = ni.waiting_dgrams[x]
  BY <1>7, SMTT(60) DEF without
<1>12. /\ entry.time = now /\ entry.eth = msg.sender_ethernet_address
       /\ ni'.current_time = now
  BY <1>7 DEF entry, Same
<1>13. TypeOK'
  <2>1. /\ MapTo(ni'.addr_cache, [eth : EthernetAddress, time : Nat])
        /\ MapTo(claimed', [eth : EthernetAddress, time : Nat])
    <3> DEFINE V == [eth : EthernetAddress, time : Nat]
    <3>1. entry \in V /\ MapTo(ni.addr_cache, V) /\ MapTo(claimed, V)
      BY <1>2, <1>3
    <3> HIDE DEF V
    <3>2. MapTo(put(ni.addr_cache, ip, entry), V) /\ MapTo(put(claimed, ip, entry), V)
      BY <1>2, <3>1, MapsStayMaps, SMTT(60)
    <3> QED
      BY <1>1, <1>7, <3>2, ZenonT(60) DEF V
  <2>2. MapTo(ni'.addr_request_time, Nat) /\ MapTo(ni'.waiting_dgrams, Seq(Nat))
    BY <1>3, <1>7, MapsStayMaps, SMTT(90)
  <2> QED
    BY <1>1, <1>3, <1>7, <1>9, <2>1, <2>2, ZenonT(60) DEF IInv, TypeOK, Same
<1>14. RequestIffWaiting'
  BY <1>10, <1>11, SMTT(60) DEF IInv, RequestIffWaiting
<1>15. NothingAhead'
  <2>1. ASSUME NEW x \in DOMAIN claimed' PROVE claimed'[x].time <= now
    <3>1. CASE x = ip
      BY <1>2, <1>10, <1>12, <3>1, SMTT(90)
    <3>2. CASE x # ip
      BY <1>10, <3>2, SMTT(60) DEF IInv, NothingAhead
    <3> QED
      BY <3>1, <3>2, SMTT(60)
  <2> QED
    BY <1>9, <1>12, <2>1, SMTT(60) DEF IInv, NothingAhead
<1>16. WaitsForItsHop'
  <2>1. SUFFICES ASSUME NEW x \in DOMAIN ni'.waiting_dgrams,
                        NEW j \in 1 .. Len(ni'.waiting_dgrams[x])
                 PROVE  /\ ni'.waiting_dgrams[x][j] \in 1 .. Len(handed')
                        /\ handed'[ni'.waiting_dgrams[x][j]] = x
    BY DEF WaitsForItsHop
  <2>2. x \in DOMAIN ni.waiting_dgrams /\ ni'.waiting_dgrams[x] = ni.waiting_dgrams[x]
    BY <1>11, <2>1
  <2>3. handed' = handed
    BY <1>1, SMTT(60)
  <2> QED
    BY <2>1, <2>2, <2>3 DEF IInv, WaitsForItsHop
<1>17. AskedAccounted'
  <2>1. \A x \in DOMAIN asked : asked[x] <= now
    BY SMTT(60) DEF IInv, NothingAhead
  <2> QED
    BY <1>9, <1>10, <1>11, <1>12, <2>1, SMTT(60) DEF IInv, AskedAccounted
<1>18. MappingsFresh'
  <2>1. ASSUME NEW x \in DOMAIN ni'.addr_cache
        PROVE  /\ x \in DOMAIN claimed' /\ ni'.addr_cache[x] = claimed'[x]
               /\ ni'.current_time - claimed'[x].time <= CACHE_TIME
    <3>1. CASE x = ip
      BY <1>2, <1>10, <1>12, <3>1, InterfaceAssumption, SMTT(60) DEF InterfaceAssumption
    <3>2. CASE x # ip
      BY <1>10, <1>12, <3>2 DEF IInv, MappingsFresh
    <3> QED
      BY <3>1, <3>2, SMTT(60)
  <2>2. ASSUME NEW i \in 1 .. Len(ni'.frames_out), IsDatagram(ni'.frames_out[i])
        PROVE  /\ handed'[ni'.frames_out[i].payload] \in DOMAIN claimed'
               /\ ni'.frames_out[i].dst = claimed'[handed'[ni'.frames_out[i].payload]].eth
    <3>1. PICK j \in 1 .. Len(ready) : ni'.frames_out[i].payload = ready[j]
      BY <1>7, <2>2, SMTT(60)
    <3>2. ip \in DOMAIN ni.waiting_dgrams /\ ready = ni.waiting_dgrams[ip]
      BY <3>1, SMTT(60) DEF ready, waiting
    <3>3. handed[ready[j]] = ip
      BY <3>1, <3>2, SMTT(60) DEF IInv, WaitsForItsHop
    <3> QED
      BY <1>1, <1>7, <1>10, <1>12, <2>2, <3>1, <3>3, ZenonT(90)
  <2> QED
    BY <2>1, <2>2 DEF MappingsFresh
<1> QED
  BY <1>8, <1>9, <1>13, <1>14, <1>15, <1>16, <1>17, <1>18, SMTT(60) DEF IInv

\* Any other frame leaves the interface as it is, its queue emptied.
LEMMA IgnoredIInv ==
    ASSUME IInv, NEW frame, NEW parses, RecvFrame(frame, parses),
           ~(parses /\ frame.type = "ARP" /\ for_us(ni, frame))
    PROVE  IInv' /\ \A x : ~Requests(ni', x)
<1>1. /\ Shape(Emptied) /\ Same(ni, Emptied) /\ Emptied.frames_out = << >>
      /\ Emptied.addr_cache = ni.addr_cache
      /\ Emptied.addr_request_time = ni.addr_request_time
      /\ Emptied.waiting_dgrams = ni.waiting_dgrams
  BY EmptiedEffect, SMTT(60) DEF IInv
<1>2. ~(for_us(Emptied, frame) /\ frame.type = "ARP" /\ parses)
  BY <1>1, SMTT(60) DEF for_us, Same
<1>3. /\ ni' = Emptied /\ Becomes(ni') /\ claimed' = claimed /\ handed' = handed
  BY <1>2 DEF RecvFrame, Becomes, recv_frame
<1>4. /\ Shape(ni)' /\ Same(ni, ni') /\ ni'.frames_out = << >>
      /\ ni'.addr_cache = ni.addr_cache
      /\ ni'.addr_request_time = ni.addr_request_time
      /\ ni'.waiting_dgrams = ni.waiting_dgrams
  BY <1>1, <1>3, SMTT(60) DEF Shape
<1>5. asked' = asked /\ \A x : ~Requests(ni', x)
  BY <1>3, <1>4, QuietCall, SMTT(90) DEF IInv, TypeOK
<1>6. claimed' = claimed /\ handed' = handed
  BY <1>3, SMTT(60)
<1>7. TypeOK'
  BY <1>4, <1>5, <1>6 DEF IInv, TypeOK, Same
<1>8. RequestIffWaiting'
  BY <1>4, SMTT(60) DEF IInv, RequestIffWaiting
<1>9. MappingsFresh'
  BY <1>4, <1>6, SMTT(90) DEF IInv, MappingsFresh, Same
<1>10. NothingAhead'
  BY <1>4, <1>5, <1>6, SMTT(60) DEF IInv, NothingAhead, Same
<1>11. WaitsForItsHop'
  BY <1>4, <1>6, SMTT(90) DEF IInv, WaitsForItsHop
<1>12. AskedAccounted'
  BY <1>4, <1>5 DEF IInv, AskedAccounted, Same
<1> QED
  BY <1>4, <1>5, <1>7, <1>8, <1>9, <1>10, <1>11, <1>12, SMTT(60) DEF IInv
-----------------------------------------------------------------------------
\* Every step preserves the invariant, and asks for nothing too soon.
LEMMA NextIInv == IInv /\ [Next]_vars => IInv' /\ [Spaced]_vars
<1> SUFFICES ASSUME IInv, [Next]_vars PROVE IInv' /\ [Spaced]_vars
  OBVIOUS
<1>1. ASSUME NEW hop \in IP, SendDatagram(hop) PROVE IInv' /\ Spaced
  BY <1>1, SendIInv
<1>2. ASSUME NEW frame \in Frame, NEW parses \in BOOLEAN, RecvFrame(frame, parses)
      PROVE  IInv' /\ Spaced
  <2>1. CASE parses /\ frame.type = "ARP" /\ for_us(ni, frame)
    <3>1. RecvFrame(frame, TRUE)
      <4>1. parses = TRUE
        BY <2>1
      <4> QED
        BY <1>2, <4>1, ZenonT(60)
    <3> QED
      BY <2>1, <3>1, LearnIInv, ZenonT(60) DEF Spaced
  <2>2. CASE ~(parses /\ frame.type = "ARP" /\ for_us(ni, frame))
    BY <1>2, <2>2, IgnoredIInv DEF Spaced
  <2> QED
    BY <2>1, <2>2
<1>3. ASSUME NEW ms \in 1 .. MaxTick, Tick(ms) PROVE IInv' /\ Spaced
  BY <1>3, TickIInv, SMTT(60) DEF Spaced
<1>4. CASE UNCHANGED vars
  BY <1>4 DEF vars, IInv, Shape, TypeOK, RequestIffWaiting, MappingsFresh,
              NothingAhead, WaitsForItsHop, AskedAccounted
<1> QED
  BY <1>1, <1>2, <1>3, <1>4 DEF Next

-----------------------------------------------------------------------------
\* The datagrams handed over for an address, and all of them.
Mine(h, ip) == {i \in 1 .. Len(h) : h[i] = ip}
All(h) == [i \in 1 .. Len(h) |-> i]

\* What has left had been handed over: the other half of the invariant that
\* InOrderPerHop needs.
OrderInv == framed \in Seq(1 .. Len(handed)) /\ InOrderPerHop

\* One more datagram handed over comes last among those for its address, and
\* changes nothing for the others.
LEMMA OneMore ==
    ASSUME NEW h \in Seq(IP), NEW hop \in IP, NEW ip \in IP, NEW f \in Seq(1 .. Len(h))
    PROVE  LET g == Append(h, hop)
               d == Len(h) + 1
           IN  /\ Selected(f, Mine(g, ip)) = Selected(f, Mine(h, ip))
               /\ Selected(Append(f, d), Mine(g, ip)) =
                     IF ip = hop THEN Append(Selected(f, Mine(h, ip)), d)
                                 ELSE Selected(f, Mine(h, ip))
<1> DEFINE g == Append(h, hop)
           d == Len(h) + 1
           V == 1 .. Len(h)
           W == V \union {d}
<1>1. /\ Len(g) = d /\ g[d] = hop /\ d \in Nat /\ d \notin V
      /\ \A i \in V : i \in 1 .. Len(g) /\ g[i] = h[i]
  OBVIOUS
<1>2. \A i \in V : i \in Mine(g, ip) <=> i \in Mine(h, ip)
  BY <1>1 DEF Mine
<1>3. d \in Mine(g, ip) <=> ip = hop
  BY <1>1 DEF Mine
<1>4. f \in Seq(W) /\ d \in W
  BY <1>1, SMTT(60)
<1> HIDE DEF g, d, V, W
<1>5. Selected(f, Mine(g, ip)) = Selected(f, Mine(h, ip))
  BY <1>2, SelectedSame DEF V
<1>6. Selected(Append(f, d), Mine(g, ip)) =
         IF d \in Mine(g, ip) THEN Append(Selected(f, Mine(g, ip)), d)
                              ELSE Selected(f, Mine(g, ip))
  BY <1>4, SelectedAppend
<1> QED
  BY <1>3, <1>5, <1>6 DEF g, d

\* Counting them all goes one further.
LEMMA AllOneMore ==
    ASSUME NEW h \in Seq(IP), NEW hop \in IP
    PROVE  All(h) \in Seq(1 .. Len(h)) /\ All(Append(h, hop)) = Append(All(h), Len(h) + 1)
BY DEF All

\* InOrderPerHop in these terms.
LEMMA InOrderAlt ==
    InOrderPerHop <=> \A ip \in IP :
        Selected(framed, Mine(handed, ip)) \o waiting(ni, ip)
            = Selected(All(handed), Mine(handed, ip))
BY ZenonT(60) DEF InOrderPerHop, Mine, All

\* A call that sends no datagram and keeps the queues keeps the order.
LEMMA QuietOrder ==
    ASSUME OrderInv, Becomes(ni'), Framed(ni') = << >>, handed' = handed,
           ni'.waiting_dgrams = ni.waiting_dgrams
    PROVE  OrderInv'
<1>1. framed' = framed
  BY DEF Becomes, OrderInv
<1>2. \A ip : waiting(ni, ip)' = waiting(ni, ip)
  BY DEF waiting
<1> QED
  BY <1>1, <1>2, ZenonT(60) DEF OrderInv, InOrderPerHop

\* send_datagram() sends a datagram at once only when none waits before it,
\* and queues it last otherwise.
LEMMA SendOrder ==
    ASSUME IInv, OrderInv, NEW hop \in IP, SendDatagram(hop)
    PROVE  OrderInv'
<1> DEFINE d == Len(handed) + 1
           Q(ip) == waiting(ni, ip)
<1>1. /\ SendsOrWaits(ni, ni', d, hop)
      /\ framed' = framed \o Framed(ni') /\ handed' = Append(handed, hop)
  BY SendStep, ZenonT(60) DEF Becomes
<1>2. /\ handed \in Seq(IP) /\ framed \in Seq(1 .. Len(handed))
      /\ \A ip \in IP : Q(ip) \in Seq(Nat)
  BY DEF IInv, TypeOK, OrderInv, MapTo, waiting
<1>3. d \in Nat /\ handed' \in Seq(IP) /\ Len(handed') = d
  BY <1>1, <1>2
<1>4. \A ip \in IP : Selected(framed, Mine(handed, ip)) \o Q(ip)
                        = Selected(All(handed), Mine(handed, ip))
  BY InOrderAlt DEF OrderInv
<1>5. \A ip \in IP : Selected(framed, Mine(handed, ip)) \in Seq(1 .. Len(handed))
  BY <1>2, SelectedType
<1>6. ASSUME NEW ip \in IP
      PROVE  /\ Selected(framed, Mine(handed', ip)) = Selected(framed, Mine(handed, ip))
             /\ Selected(Append(framed, d), Mine(handed', ip)) =
                   IF ip = hop THEN Append(Selected(framed, Mine(handed, ip)), d)
                               ELSE Selected(framed, Mine(handed, ip))
             /\ Selected(All(handed'), Mine(handed', ip)) =
                   IF ip = hop THEN Append(Selected(All(handed), Mine(handed, ip)), d)
                               ELSE Selected(All(handed), Mine(handed, ip))
  <2>1. /\ Selected(framed, Mine(Append(handed, hop), ip)) = Selected(framed, Mine(handed, ip))
        /\ Selected(Append(framed, d), Mine(Append(handed, hop), ip)) =
              IF ip = hop THEN Append(Selected(framed, Mine(handed, ip)), d)
                          ELSE Selected(framed, Mine(handed, ip))
    BY <1>2, OneMore
  <2>2. /\ All(handed) \in Seq(1 .. Len(handed))
        /\ All(Append(handed, hop)) = Append(All(handed), d)
    BY <1>2, AllOneMore
  <2>3. Selected(Append(All(handed), d), Mine(Append(handed, hop), ip)) =
           IF ip = hop THEN Append(Selected(All(handed), Mine(handed, ip)), d)
                       ELSE Selected(All(handed), Mine(handed, ip))
    BY <1>2, <2>2, OneMore
  <2> QED
    BY <1>1, <2>1, <2>2, <2>3
<1>7. CASE hop \in DOMAIN ni.addr_cache
  <2> DEFINE frame == make_frame(ni.addr_cache[hop].eth, "IPv4", d)
  <2>1. ni'.frames_out = <<frame>> /\ ni'.waiting_dgrams = ni.waiting_dgrams
    BY <1>1, <1>7 DEF SendsOrWaits
  <2>2. IsDatagram(frame) /\ frame.payload = d
    BY DEF make_frame, IsDatagram
  <2> HIDE DEF frame, d
  <2>3. Framed(ni') = <<d>>
    <3>1. <<frame>> \in Seq({frame}) /\ \E ans : ~IsDatagram(ans)
      <4>1. ~IsDatagram([type |-> "ARP"])
        BY DEF IsDatagram
      <4> QED
        BY <4>1
    <3>2. PICK ans : ~IsDatagram(ans)
      BY <3>1
    <3>3. \A f \in {frame} : IsDatagram(f)
      BY <2>2
    <3> DEFINE U == {frame}
               sent == <<frame>>
    <3>4. ni'.frames_out \in {sent, Append(sent, ans)} /\ sent \in Seq(U)
      BY <2>1, <3>1
    <3> HIDE DEF U, sent
    <3>5. Framed(ni') = [i \in 1 .. Len(sent) |-> sent[i].payload]
      BY <3>2, <3>3, <3>4, FramedAll DEF U
    <3> QED
      BY <2>2, <3>5 DEF sent
  <2>4. framed' = Append(framed, d) /\ framed' \in Seq(1 .. Len(handed'))
    <3>1. framed \o <<d>> = Append(framed, d)
      BY <1>2
    <3>2. 1 .. Len(handed') = 1 .. Len(handed) \union {d}
      BY <1>2, <1>3 DEF d
    <3> QED
      BY <1>1, <1>2, <2>3, <3>1, <3>2
  <2>5. Q(hop) = << >> /\ \A ip \in IP : waiting(ni', ip) = Q(ip)
    BY <1>7, <2>1 DEF IInv, RequestIffWaiting, waiting
  <2>6. ASSUME NEW ip \in IP
        PROVE  Selected(framed', Mine(handed', ip)) \o waiting(ni', ip)
                  = Selected(All(handed'), Mine(handed', ip))
    <3>1. CASE ip = hop
      <4>1. Selected(framed, Mine(handed, hop)) \o << >> = Selected(framed, Mine(handed, hop))
        BY <1>5
      <4>2. Append(Selected(framed, Mine(handed, hop)), d) \o << >>
              = Append(Selected(framed, Mine(handed, hop)), d)
        BY <1>3, <1>5
      <4> QED
        BY <1>4, <1>6, <2>4, <2>5, <3>1, <4>1, <4>2, ZenonT(60)
    <3>2. CASE ip # hop
      BY <1>4, <1>6, <2>4, <2>5, <3>2, ZenonT(60)
    <3> QED
      BY <3>1, <3>2
  <2>7. InOrderPerHop'
    BY <2>6, ZenonT(60) DEF InOrderPerHop, Mine, All
  <2> QED
    BY <2>4, <2>7, SMTT(60) DEF OrderInv
<1>8. CASE hop \notin DOMAIN ni.addr_cache
  <2>1. ni'.waiting_dgrams = put(ni.waiting_dgrams, hop, Append(Q(hop), d))
    BY <1>1, <1>8 DEF SendsOrWaits
  <2>2. Framed(ni') = << >>
    <3> DEFINE ask == make_frame(ETHERNET_BROADCAST, "ARP",
                        ARPMessage("REQUEST", ni.ethernet_address, ni.ip_address, hop))
    <3>1. ni'.frames_out \in {<<ask>>, << >>}
      BY <1>1, <1>8, ZenonT(60) DEF SendsOrWaits
    <3>2. ~IsDatagram(ask)
      BY DEF make_frame, IsDatagram
    <3> HIDE DEF ask
    <3> DEFINE U == {ask}
    <3>3. ni'.frames_out \in Seq(U) /\ \A f \in U : ~IsDatagram(f)
      <4>1. <<ask>> \in Seq(U) /\ << >> \in Seq(U)
        OBVIOUS
      <4> QED
        BY <3>1, <3>2, <4>1, ZenonT(60)
    <3> HIDE DEF U
    <3> QED
      BY <3>3, FramedNone
  <2>3. framed' = framed /\ framed' \in Seq(1 .. Len(handed'))
    <3>1. framed \o << >> = framed /\ 1 .. Len(handed) \subseteq 1 .. Len(handed')
      BY <1>2, <1>3
    <3> QED
      BY <1>1, <1>2, <2>2, <3>1
  <2>4. /\ waiting(ni', hop) = Append(Q(hop), d)
        /\ \A ip \in IP \ {hop} : waiting(ni', ip) = Q(ip)
    <3> DEFINE new == Append(Q(hop), d)
    <3>1. ni'.waiting_dgrams = put(ni.waiting_dgrams, hop, new)
      BY <2>1
    <3> HIDE DEF new
    <3>2. waiting(ni', hop) = new /\ \A ip \in IP \ {hop} : waiting(ni', ip) = waiting(ni, ip)
      BY <3>1 DEF put, waiting
    <3> QED
      BY <3>2 DEF new
  <2>5. ASSUME NEW ip \in IP
        PROVE  Selected(framed', Mine(handed', ip)) \o waiting(ni', ip)
                  = Selected(All(handed'), Mine(handed', ip))
    <3>1. CASE ip = hop
      <4> DEFINE left == Selected(framed, Mine(handed, hop))
      <4>1. left \in Seq(Nat) /\ Q(hop) \in Seq(Nat)
        BY <1>2, <1>5
      <4>2. left \o Append(Q(hop), d) = Append(left \o Q(hop), d)
        <5> HIDE DEF left, d, Q
        <5> QED
          BY <1>3, <4>1, SMTT(60)
      <4> QED
        BY <1>4, <1>6, <2>3, <2>4, <3>1, <4>2, ZenonT(60)
    <3>2. CASE ip # hop
      BY <1>4, <1>6, <2>3, <2>4, <3>2, ZenonT(60)
    <3> QED
      BY <3>1, <3>2
  <2>6. InOrderPerHop'
    BY <2>5, ZenonT(60) DEF InOrderPerHop, Mine, All
  <2> QED
    BY <2>3, <2>6 DEF OrderInv
<1> QED
  BY <1>7, <1>8

\* What waited for a claimed address leaves, in its order, after what had left.
LEMMA LearnOrder ==
    ASSUME IInv, OrderInv, NEW frame \in Frame, RecvFrame(frame, TRUE),
           for_us(ni, frame), frame.type = "ARP"
    PROVE  OrderInv'
<1> DEFINE ip == frame.payload.sender_ip_address
           ready == waiting(ni, ip)
<1>1. ni' = recv_frame(Emptied, frame, TRUE) /\ Becomes(ni') /\ handed' = handed
  BY ZenonT(60) DEF RecvFrame, Becomes
<1>2. /\ handed \in Seq(IP) /\ framed \in Seq(1 .. Len(handed))
      /\ \A x \in IP : waiting(ni, x) \in Seq(Nat)
  BY DEF IInv, TypeOK, OrderInv, MapTo, waiting
<1>3. ip \in IP /\ ready \in Seq(Nat)
  BY <1>2 DEF Frame
<1>4. Framed(ni') = ready /\ ni'.waiting_dgrams = without(ni.waiting_dgrams, {ip})
  <2>1. /\ Shape(Emptied) /\ Same(ni, Emptied) /\ Emptied.frames_out = << >>
        /\ Emptied.waiting_dgrams = ni.waiting_dgrams
    BY EmptiedEffect DEF IInv
  <2>2. for_us(Emptied, frame) /\ waiting(Emptied, ip) = ready
    BY <2>1, SMTT(60) DEF for_us, waiting, Same
  <2> HIDE DEF ready
  <2>3. Learns(Emptied, ni', frame.payload)
    BY <1>1, <1>3, <2>1, <2>2, LearnEffect, ZenonT(60)
  <2> QED
    BY <2>1, <2>2, <2>3, ZenonT(60) DEF Learns
<1>5. \A j \in 1 .. Len(ready) : ready[j] \in Mine(handed, ip)
  BY SMTT(60) DEF ready, waiting, IInv, WaitsForItsHop, Mine
<1> HIDE DEF ready
<1>6. framed' = framed \o ready
  BY <1>1, <1>4, ZenonT(60) DEF Becomes
<1>7. ready \in Seq(1 .. Len(handed)) /\ framed' \in Seq(1 .. Len(handed'))
  <2>1. \A j \in 1 .. Len(ready) : ready[j] \in 1 .. Len(handed)
    BY <1>5 DEF Mine
  <2>2. ready \in Seq(1 .. Len(handed))
    BY <1>3, <2>1
  <2> QED
    BY <1>1, <1>2, <1>6, <2>2
<1>8. ASSUME NEW x \in IP
      PROVE  Selected(framed', Mine(handed', x)) \o waiting(ni', x)
                = Selected(All(handed'), Mine(handed', x))
  <2> DEFINE left == Selected(framed, Mine(handed, x))
             V == {ready[j] : j \in 1 .. Len(ready)}
  <2>1. Selected(framed', Mine(handed', x)) = left \o Selected(ready, Mine(handed, x))
    BY <1>1, <1>2, <1>6, <1>7, SelectedConcat
  <2>2. left \o waiting(ni, x) = Selected(All(handed), Mine(handed, x))
    BY InOrderAlt DEF OrderInv
  <2>3. left \in Seq(1 .. Len(handed))
    BY <1>2, SelectedType
  <2>4. ready \in Seq(V)
    BY <1>3, SMTT(60)
  <2> HIDE DEF left
  <2>5. CASE x = ip
    <3>1. Selected(ready, Mine(handed, x)) = ready
      <4>1. V \subseteq Mine(handed, x)
        BY <1>5, <2>5
      <4> HIDE DEF V
      <4> QED
        BY <2>4, <4>1, SelectedAllOrNone
    <3>2. waiting(ni', x) = << >>
      BY <1>4, <2>5 DEF waiting, without
    <3>3. (left \o ready) \o << >> = left \o ready
      BY <1>7, <2>3
    <3> QED
      BY <1>1, <2>1, <2>2, <2>5, <3>1, <3>2, <3>3, ZenonT(60) DEF ready
  <2>6. CASE x # ip
    <3>1. Selected(ready, Mine(handed, x)) = << >>
      <4>1. V \intersect Mine(handed, x) = {}
        BY <1>5, <2>6 DEF Mine
      <4> HIDE DEF V
      <4> QED
        BY <2>4, <4>1, SelectedAllOrNone
    <3>2. waiting(ni', x) = waiting(ni, x)
      BY <1>4, <2>6 DEF waiting, without
    <3>3. left \o << >> = left
      BY <2>3
    <3> QED
      BY <1>1, <2>1, <2>2, <3>1, <3>2, <3>3, ZenonT(60)
  <2> QED
    BY <2>5, <2>6
<1>9. InOrderPerHop'
  BY <1>8, ZenonT(60) DEF InOrderPerHop, Mine, All
<1> QED
  BY <1>7, <1>9 DEF OrderInv

\* Every step keeps the order.
LEMMA NextOrder == IInv /\ OrderInv /\ [Next]_vars => OrderInv'
<1> SUFFICES ASSUME IInv, OrderInv, [Next]_vars PROVE OrderInv'
  OBVIOUS
<1>1. /\ Shape(Emptied) /\ Same(ni, Emptied) /\ Emptied.frames_out = << >>
      /\ Emptied.waiting_dgrams = ni.waiting_dgrams
  BY EmptiedEffect DEF IInv
<1>2. \A s : s.frames_out = << >> => Framed(s) = << >>
  <2>1. SUFFICES ASSUME NEW s, s.frames_out = << >> PROVE Framed(s) = << >>
    OBVIOUS
  <2> DEFINE U == {}
  <2>2. s.frames_out \in Seq(U) /\ \A f \in U : ~IsDatagram(f)
    BY <2>1
  <2> HIDE DEF U
  <2> QED
    BY <2>2, FramedNone
<1>3. ASSUME NEW frame \in Frame, NEW parses \in BOOLEAN, RecvFrame(frame, parses)
      PROVE  OrderInv'
  <2>1. CASE parses /\ frame.type = "ARP" /\ for_us(ni, frame)
    <3>1. parses = TRUE
      BY <2>1
    <3>2. RecvFrame(frame, TRUE)
      BY <1>3, <3>1, ZenonT(60)
    <3> QED
      BY <2>1, <3>2, LearnOrder, ZenonT(60)
  <2>2. CASE ~(parses /\ frame.type = "ARP" /\ for_us(ni, frame))
    <3>1. ~(for_us(Emptied, frame) /\ frame.type = "ARP" /\ parses)
      BY <1>1, <2>2, SMTT(60) DEF for_us, Same
    <3>2. ni' = Emptied /\ Becomes(ni') /\ handed' = handed
      BY <1>3, <3>1, ZenonT(60) DEF RecvFrame, Becomes, recv_frame
    <3> QED
      BY <1>1, <1>2, <3>2, QuietOrder
  <2> QED
    BY <2>1, <2>2
<1>4. ASSUME NEW ms \in 1 .. MaxTick, Tick(ms) PROVE OrderInv'
  <2>1. ni' = tick(Emptied, ms) /\ Becomes(ni') /\ handed' = handed
    BY <1>4, SMTT(60) DEF Tick, Becomes
  <2>2. ni'.frames_out = << >> /\ ni'.waiting_dgrams = ni.waiting_dgrams
    BY <1>1, <2>1, TickEffect
  <2> QED
    BY <1>2, <2>1, <2>2, QuietOrder, SMTT(60)
<1>5. CASE UNCHANGED vars
  BY <1>5, ZenonT(60) DEF vars, OrderInv, InOrderPerHop
<1> QED
  BY <1>3, <1>4, <1>5, SendOrder DEF Next

\* The members of a NetworkInterface keep their types, whatever it is handed
\* and whatever arrives.
THEOREM InterfaceTyped == Spec => []TypeOK
<1>1. IInv => TypeOK
  BY DEF IInv
<1> QED
  BY <1>1, InitIInv, NextIInv, PTL DEF Spec

\* A datagram waits in _waiting_dgrams exactly while a request for its next
\* hop is on record and no mapping for it is cached.
THEOREM InterfaceNeverForgets == Spec => []RequestIffWaiting
<1>1. IInv => RequestIffWaiting
  BY DEF IInv
<1> QED
  BY <1>1, InitIInv, NextIInv, PTL DEF Spec

\* send_datagram() and recv_frame() address a datagram to whoever last claimed
\* its next hop, never on a claim older than CACHE_TIME.
THEOREM InterfaceUsesFreshMappings == Spec => []MappingsFresh
<1>1. IInv => MappingsFresh
  BY DEF IInv
<1> QED
  BY <1>1, InitIInv, NextIInv, PTL DEF Spec

\* send_datagram() never asks for an address again within REQUEST_TIME, also
\* when an answer has come and expired in between.
THEOREM InterfaceSpacesRequests == Spec => RequestsSpaced
<1>1. [Spaced]_vars =>
        [\A ip \in DOMAIN asked :
            Requests(ni', ip) => ni'.current_time - asked[ip] > REQUEST_TIME]_vars
  BY DEF Spaced
<1> QED
  BY <1>1, InitIInv, NextIInv, PTL DEF Spec, RequestsSpaced

\* The datagrams for one next hop leave in the order in which send_datagram()
\* was given them, each once and none left out, however requests, answers and
\* expiries fall in between.
THEOREM InterfaceKeepsOrder == Spec => []InOrderPerHop
<1>1. Init => OrderInv
  <2> SUFFICES ASSUME Init PROVE OrderInv
    OBVIOUS
  <2>1. handed = << >> /\ framed = << >> /\ ni.waiting_dgrams = [ip \in {} |-> << >>]
    BY DEF Init, NewNetworkInterface
  <2>2. framed \in Seq(1 .. Len(handed))
    BY <2>1
  <2>3. ASSUME NEW ip \in IP
        PROVE  Selected(framed, Mine(handed, ip)) \o waiting(ni, ip)
                  = Selected(All(handed), Mine(handed, ip))
    <3>1. All(handed) = << >> /\ waiting(ni, ip) = << >>
      BY <2>1 DEF All, waiting
    <3>2. << >> \o << >> = << >>
      OBVIOUS
    <3> QED
      BY <2>1, <3>1, <3>2, SelectedEmpty, ZenonT(60)
  <2> QED
    BY <2>2, <2>3, InOrderAlt DEF OrderInv
<1>2. OrderInv => InOrderPerHop
  BY DEF OrderInv
<1> QED
  BY <1>1, <1>2, InitIInv, NextIInv, NextOrder, PTL DEF Spec
=============================================================================
