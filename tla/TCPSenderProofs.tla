-------------------------- MODULE TCPSenderProofs ---------------------------
(***************************************************************************)
(* Proofs about TCPSenderSpec, for any stream, any window below half the   *)
(* sequence space and any acknowledgments, and about the sequence numbers  *)
(* that it rests on, for every Base, 2^32 included.                        *)
(*                                                                         *)
(* A position wraps to n exactly when its remainder is n - isn, so the     *)
(* candidates of unwrap() are Base apart, and it compares the checkpoint   *)
(* with the two of them on either side of it.                              *)
(*                                                                         *)
(* The sender's methods act on a sender, which need not be the variable    *)
(* tx, so the invariant is a predicate on senders.  Its heart is Chain:    *)
(* the segments in retrans_buf have absolute positions that follow each    *)
(* other up to next_seqno.  unwrap() finds those positions, because no     *)
(* more is ever outstanding than a window.                                 *)
(***************************************************************************)
EXTENDS TCPSenderSpec, WrappingIntegersSpec, DataInduction

\* Division with remainder.
LEMMA DivMod ==
    ASSUME NEW a \in Int, NEW b \in Nat \ {0}
    PROVE  /\ a \div b \in Int /\ a % b \in 0 .. b - 1
           /\ a = b * (a \div b) + (a % b)
<1>1. a \div b \in Int /\ a % b \in 0 .. b - 1
  OBVIOUS
<1>2. a = b * (a \div b) + (a % b)
  BY Z3
<1> QED
  BY <1>1, <1>2

\* A remainder is determined by any such decomposition.
LEMMA ModUnique ==
    ASSUME NEW b \in Nat \ {0}, NEW a \in Int, NEW q \in Int, NEW r \in 0 .. b - 1,
           a = b * q + r
    PROVE  a % b = r
OBVIOUS

\* wrap() puts a position at n exactly when its remainder is the one that
\* unwrap() computes from n.
LEMMA WrapIffRemainder ==
    ASSUME NEW m \in WrappingInt32, NEW i \in WrappingInt32, NEW a \in Nat
    PROVE  wrap(a, i) = m <=> a % Base = minus(m, i)
<1> DEFINE ar == a % Base
<1>1. Base \in Nat \ {0} /\ m \in 0 .. Base - 1 /\ i \in 0 .. Base - 1
  BY WrappingAssumption DEF WrappingAssumption, WrappingInt32
<1>2. ar \in 0 .. Base - 1
  BY <1>1, DivMod
<1> HIDE DEF ar
<1>3. wrap(a, i) = (i + ar) % Base /\ minus(m, i) = (m - i) % Base
  BY DEF wrap, plus, minus, ar
<1>4. (i + ar) % Base = IF i + ar < Base THEN i + ar ELSE i + ar - Base
  <2>1. CASE i + ar < Base
    <3>1. i + ar \in 0 .. Base - 1 /\ i + ar = Base * 0 + (i + ar)
      BY <1>1, <1>2, <2>1
    <3> QED
      BY <1>1, <2>1, <3>1, ModUnique
  <2>2. CASE ~(i + ar < Base)
    <3>1. i + ar - Base \in 0 .. Base - 1 /\ i + ar = Base * 1 + (i + ar - Base)
      BY <1>1, <1>2, <2>2
    <3> QED
      BY <1>1, <1>2, <2>2, <3>1, ModUnique
  <2> QED
    BY <2>1, <2>2
<1>5. (m - i) % Base = IF m >= i THEN m - i ELSE m - i + Base
  <2>1. CASE m >= i
    <3>1. m - i \in 0 .. Base - 1 /\ m - i = Base * 0 + (m - i)
      BY <1>1, <2>1
    <3> QED
      BY <1>1, <2>1, <3>1, ModUnique
  <2>2. CASE ~(m >= i)
    <3>1. m - i + Base \in 0 .. Base - 1 /\ m - i = Base * (-1) + (m - i + Base)
      BY <1>1, <2>2
    <3> QED
      BY <1>1, <2>2, <3>1, ModUnique, SMTT(90)
  <2> QED
    BY <2>1, <2>2
<1>6. (i + ar) % Base = m <=> ar = (m - i) % Base
  BY <1>1, <1>2, <1>4, <1>5
<1> QED
  BY <1>3, <1>6 DEF ar

\* The remainder of a number less than one Base away.
LEMMA NearMod ==
    ASSUME NEW b \in Nat \ {0}, NEW v \in Int, 0 - b <= v, v < 2 * b
    PROVE  v % b = IF v < 0 THEN v + b ELSE IF v < b THEN v ELSE v - b
<1>1. CASE v < 0
  <2>1. v + b \in 0 .. b - 1 /\ v = b * (-1) + (v + b)
    BY <1>1
  <2> QED
    BY <1>1, <2>1, ModUnique, SMTT(60)
<1>2. CASE 0 <= v /\ v < b
  <2>1. v \in 0 .. b - 1 /\ v = b * 0 + v
    BY <1>2
  <2> QED
    BY <1>2, <2>1, ModUnique, SMTT(60)
<1>3. CASE b <= v
  <2>1. v - b \in 0 .. b - 1 /\ v = b * 1 + (v - b)
    BY <1>3
  <2> QED
    BY <1>3, <2>1, ModUnique, SMTT(60)
<1> QED
  BY <1>1, <1>2, <1>3

\* The sequence number before that of position a + 1 is that of a, and that of
\* position 0 is isn itself.
LEMMA WrapBack ==
    ASSUME NEW i \in WrappingInt32, NEW a \in Nat
    PROVE  /\ minus(wrap(a + 1, i), 1) = wrap(a, i)
           /\ wrap(0, i) = i /\ minus(i, 0) = i
<1> DEFINE r == a % Base
           q == (a + 1) % Base
           w(k) == (i + k) % Base
<1>1. Base \in Nat \ {0} /\ i \in 0 .. Base - 1
  BY WrappingAssumption DEF WrappingAssumption, WrappingInt32
<1>2. r \in 0 .. Base - 1
  BY <1>1, DivMod
<1>3. q = IF r = Base - 1 THEN 0 ELSE r + 1
  <2> DEFINE d == a \div Base
  <2>1. d \in Int /\ a = Base * d + r
    BY <1>1, DivMod
  <2> HIDE DEF d, r
  <2>2. CASE r = Base - 1
    <3>1. a + 1 = Base * (d + 1) + 0 /\ 0 \in 0 .. Base - 1 /\ d + 1 \in Int
      BY <1>1, <2>1, <2>2, SMTT(60)
    <3> QED
      BY <1>1, <2>2, <3>1, ModUnique, SMTT(60)
  <2>3. CASE r # Base - 1
    <3>1. a + 1 = Base * d + (r + 1) /\ r + 1 \in 0 .. Base - 1 /\ a + 1 \in Int
      BY <1>1, <1>2, <2>1, <2>3, SMTT(60)
    <3>2. (a + 1) % Base = r + 1
      BY <1>1, <2>1, <3>1, ModUnique, ZenonT(60)
    <3> QED
      BY <2>3, <3>2
  <2> QED
    BY <2>2, <2>3
<1> HIDE DEF r, q
<1>4. ASSUME NEW k \in 0 .. Base - 1
      PROVE  w(k) = IF i + k < Base THEN i + k ELSE (i + k) - Base
  <2> DEFINE v == i + k
  <2>1. v \in Int /\ 0 - Base <= v /\ v < 2 * Base /\ ~(v < 0)
    BY <1>1
  <2> HIDE DEF v
  <2>2. v % Base = IF v < 0 THEN v + Base ELSE IF v < Base THEN v ELSE v - Base
    BY <1>1, <2>1, NearMod, ZenonT(60)
  <2> QED
    BY <2>1, <2>2 DEF v
<1>5. ASSUME NEW m \in 0 .. Base - 1
      PROVE  (m - 1) % Base = IF m = 0 THEN Base - 1 ELSE m - 1
  <2> DEFINE v == m - 1
  <2>1. v \in Int /\ 0 - Base <= v /\ v < 2 * Base /\ v < Base
    BY <1>1
  <2> HIDE DEF v
  <2>2. v % Base = IF v < 0 THEN v + Base ELSE IF v < Base THEN v ELSE v - Base
    BY <1>1, <2>1, NearMod, ZenonT(60)
  <2>3. v % Base = IF v < 0 THEN v + Base ELSE v
    BY <2>1, <2>2
  <2> QED
    BY <1>1, <2>3, SMTT(60) DEF v
<1>6. i % Base = i /\ 0 % Base = 0
  BY <1>1, NearMod, SMTT(60)
<1>7. q \in 0 .. Base - 1 /\ w(q) \in 0 .. Base - 1
  BY <1>1, <1>2, <1>3, <1>4, SMTT(60)
<1> HIDE DEF w
<1>8. (w(q) - 1) % Base = w(r)
  BY <1>1, <1>2, <1>3, <1>4, <1>5, <1>7, SMTT(60)
<1>9. minus(wrap(a + 1, i), 1) = wrap(a, i)
  BY <1>8 DEF minus, wrap, plus, w, q, r
<1> QED
  BY <1>1, <1>6, <1>9, SMTT(60) DEF minus, wrap, plus

\* Two positions with the same remainder are the same or Base apart.
LEMMA BaseApart ==
    ASSUME NEW b \in Nat \ {0}, NEW j \in Int, NEW k \in Int, NEW r \in Int
    PROVE  \/ b * j + r = b * k + r
           \/ b * j + r <= b * k + r - b
           \/ b * j + r >= b * k + r + b
<1>1. CASE j = k
  BY <1>1
<1>2. CASE j < k
  <2>1. b * j <= b * (k - 1)
    BY <1>2
  <2> QED
    BY <2>1
<1>3. CASE j > k
  <2>1. b * j >= b * (k + 1)
    BY <1>3
  <2> QED
    BY <2>1
<1> QED
  BY <1>1, <1>2, <1>3

\* unwrap() looks at cp_base, a multiple of Base, and the remainder of n: its
\* result is the candidate in the checkpoint's own wrap or in one beside it,
\* for the reason given.
LEMMA UnwrapCases ==
    ASSUME NEW m \in WrappingInt32, NEW i \in WrappingInt32, NEW c \in Nat
    PROVE  \E p \in Nat, cp_mod \in 0 .. Base :
              LET r == minus(m, i)
                  u == unwrap(m, i, c)
              IN  /\ c = Base * p + cp_mod
                  /\ \/ /\ r > cp_mod /\ p >= 1 /\ u = Base * (p - 1) + r
                        /\ Base - r + cp_mod <= r - cp_mod
                     \/ /\ r > cp_mod /\ u = Base * p + r
                        /\ p = 0 \/ Base - r + cp_mod > r - cp_mod
                     \/ /\ r <= cp_mod /\ u = Base * p + r
                        /\ cp_mod - r <= r + Base - cp_mod
                     \/ /\ r <= cp_mod /\ u = Base * (p + 1) + r
                        /\ cp_mod - r > r + Base - cp_mod
<1> DEFINE d == c \div Base
           mod0 == c % Base
           shift == mod0 = 0 /\ c >= Base
           p == IF shift THEN d - 1 ELSE d
           cp_mod == IF shift THEN Base ELSE mod0
           r == minus(m, i)
           u == unwrap(m, i, c)
<1>1. Base \in Nat \ {0}
  BY WrappingAssumption DEF WrappingAssumption
<1>2. d \in Int /\ mod0 \in 0 .. Base - 1 /\ c = Base * d + mod0
  BY <1>1, DivMod
<1>3. r \in 0 .. Base - 1
  BY <1>1, DivMod DEF minus, WrappingInt32
<1>4. u = LET cp_base == c - cp_mod
          IN  IF r > cp_mod
              THEN IF cp_base >= Base /\ Base - r + cp_mod <= r - cp_mod
                   THEN cp_base - Base + r
                   ELSE cp_base + r
              ELSE IF cp_mod - r <= r + Base - cp_mod
                   THEN cp_base + r
                   ELSE cp_base + Base + r
  BY DEF unwrap
<1> HIDE DEF d, mod0, r, u
<1>5. d >= 0 /\ (c >= Base => d >= 1)
  <2>1. CASE d < 0
    <3>1. Base * d <= Base * (-1)
      BY <1>1, <1>2, <2>1
    <3> QED
      BY <1>1, <1>2, <3>1
  <2>2. CASE d = 0
    BY <1>1, <1>2, <2>2
  <2> QED
    BY <1>2, <2>1, <2>2
<1>6. p \in Nat /\ cp_mod \in 0 .. Base /\ c = Base * p + cp_mod
  BY <1>1, <1>2, <1>5
<1> HIDE DEF p, cp_mod
<1>7. c - cp_mod = Base * p /\ Base * (p - 1) = Base * p - Base /\ Base * (p + 1) = Base * p + Base
  BY <1>1, <1>6
<1>8. Base * p >= Base <=> p >= 1
  <2>1. CASE p = 0
    BY <1>1, <2>1
  <2>2. CASE p >= 1
    BY <1>1, <1>6, <2>2
  <2> QED
    BY <1>6, <2>1, <2>2
<1> QED
  <2>1. \/ /\ r > cp_mod /\ p >= 1 /\ u = Base * (p - 1) + r
           /\ Base - r + cp_mod <= r - cp_mod
        \/ /\ r > cp_mod /\ u = Base * p + r
           /\ p = 0 \/ Base - r + cp_mod > r - cp_mod
        \/ /\ r <= cp_mod /\ u = Base * p + r
           /\ cp_mod - r <= r + Base - cp_mod
        \/ /\ r <= cp_mod /\ u = Base * (p + 1) + r
           /\ cp_mod - r > r + Base - cp_mod
    BY <1>1, <1>3, <1>4, <1>6, <1>7, <1>8
  <2> QED
    BY <1>6, <2>1 DEF r, u

\* unwrap() undoes wrap() for every position within half the sequence space of
\* the checkpoint: what its callers in TCPSender and TCPReceiver rely on.
LEMMA Unwraps ==
    ASSUME NEW i \in WrappingInt32, NEW a \in Nat, NEW c \in Nat,
           2 * (a - c) < Base, 2 * (c - a) < Base
    PROVE  unwrap(wrap(a, i), i, c) = a /\ wrap(a, i) \in WrappingInt32
<1> DEFINE m == wrap(a, i)
           r == minus(m, i)
           u == unwrap(m, i, c)
<1>1. Base \in Nat \ {0}
  BY WrappingAssumption DEF WrappingAssumption
<1>2. m \in WrappingInt32
  <2>1. i + (a % Base) \in Int
    BY <1>1, DivMod DEF WrappingInt32
  <2> QED
    BY <1>1, <2>1, DivMod DEF wrap, plus, WrappingInt32
<1> HIDE DEF m
<1>3. r \in 0 .. Base - 1
  BY <1>1, <1>2, DivMod DEF minus, WrappingInt32
<1>4. a % Base = r
  BY <1>2, WrapIffRemainder DEF m
<1>5. PICK q \in Int : a = Base * q + r
  <2>1. a \div Base \in Int /\ a = Base * (a \div Base) + r
    BY <1>1, <1>4, DivMod
  <2> QED
    BY <2>1, ZenonT(60)
<1>6. PICK p \in Nat, cp_mod \in 0 .. Base :
        /\ c = Base * p + cp_mod
        /\ \/ /\ r > cp_mod /\ p >= 1 /\ u = Base * (p - 1) + r
              /\ Base - r + cp_mod <= r - cp_mod
           \/ /\ r > cp_mod /\ u = Base * p + r
              /\ p = 0 \/ Base - r + cp_mod > r - cp_mod
           \/ /\ r <= cp_mod /\ u = Base * p + r
              /\ cp_mod - r <= r + Base - cp_mod
           \/ /\ r <= cp_mod /\ u = Base * (p + 1) + r
              /\ cp_mod - r > r + Base - cp_mod
  BY <1>2, UnwrapCases, ZenonT(60)
<1> HIDE DEF r, u
<1>7. PICK k \in Int : u = Base * k + r
  BY <1>6
<1>8. /\ Base * p \in Nat /\ Base * (p - 1) = Base * p - Base
      /\ Base * (p + 1) = Base * p + Base /\ (p = 0 => Base * p = 0)
  BY <1>1
<1>9. a = u \/ a <= u - Base \/ a >= u + Base
  <2>1. \/ Base * q + r = Base * k + r
        \/ Base * q + r <= Base * k + r - Base
        \/ Base * q + r >= Base * k + r + Base
    BY <1>1, <1>3, BaseApart
  <2>2. Base * q \in Int /\ Base * k \in Int
    BY <1>1
  <2> QED
    BY <1>1, <1>3, <1>5, <1>7, <2>1, <2>2
<1>10. u = a
  <2> DEFINE B == Base * p
  <2>1. B \in Nat /\ c = B + cp_mod /\ (p = 0 => B = 0)
    BY <1>6, <1>8
  <2>2. \/ /\ r > cp_mod /\ u = B - Base + r /\ Base - r + cp_mod <= r - cp_mod
        \/ r > cp_mod /\ u = B + r /\ (p = 0 \/ Base - r + cp_mod > r - cp_mod)
        \/ r <= cp_mod /\ u = B + r /\ cp_mod - r <= r + Base - cp_mod
        \/ r <= cp_mod /\ u = B + Base + r /\ cp_mod - r > r + Base - cp_mod
    BY <1>6, <1>8
  <2> HIDE DEF B
  <2> QED
    BY <1>1, <1>3, <1>9, <2>1, <2>2, SMTT(60)
<1> QED
  BY <1>2, <1>10 DEF u, m

\* The typed state is all that UnwrapIsClosest needs.
LEMMA TypedIsClosest == ReaderTypeOK => UnwrapIsClosest
<1> SUFFICES ASSUME ReaderTypeOK PROVE UnwrapIsClosest
  OBVIOUS
<1> DEFINE r == minus(peer_seqno, peer_isn)
           u == unwrap(peer_seqno, peer_isn, checkpoint)
<1>1. Base \in Nat \ {0} /\ checkpoint \in Nat
  BY WrappingAssumption DEF WrappingAssumption, ReaderTypeOK
<1>2. r \in 0 .. Base - 1
  BY <1>1, DivMod DEF minus, ReaderTypeOK, WrappingInt32
<1>3. PICK p \in Nat, cp_mod \in 0 .. Base :
        /\ checkpoint = Base * p + cp_mod
        /\ \/ /\ r > cp_mod /\ p >= 1 /\ u = Base * (p - 1) + r
              /\ Base - r + cp_mod <= r - cp_mod
           \/ /\ r > cp_mod /\ u = Base * p + r
              /\ p = 0 \/ Base - r + cp_mod > r - cp_mod
           \/ /\ r <= cp_mod /\ u = Base * p + r
              /\ cp_mod - r <= r + Base - cp_mod
           \/ /\ r <= cp_mod /\ u = Base * (p + 1) + r
              /\ cp_mod - r > r + Base - cp_mod
  BY <1>1, UnwrapCases, ZenonT(90) DEF ReaderTypeOK
<1> HIDE DEF r, u
<1>4. PICK k \in Nat : u = Base * k + r
  BY <1>3
<1>5. /\ Base * p \in Nat /\ Base * (p - 1) = Base * p - Base
      /\ Base * (p + 1) = Base * p + Base
      /\ p = 0 => Base * p = 0
      /\ p >= 1 => Base * p >= Base
  <2>1. Base * p \in Nat /\ Base * (p - 1) = Base * p - Base /\ Base * (p + 1) = Base * p + Base
    BY <1>1
  <2>2. p = 0 => Base * p = 0
    BY <1>1
  <2>3. p >= 1 => Base * p >= Base
    BY <1>1
  <2> QED
    BY <2>1, <2>2, <2>3
<1>6. u \in 0 .. (checkpoint + 2 * Base)
  BY <1>1, <1>2, <1>3, <1>5
<1>7. u \in Candidates
  <2>1. u % Base = r
    BY <1>1, <1>2, <1>4, <1>6, ModUnique
  <2>2. wrap(u, peer_isn) = peer_seqno
    BY <1>6, <2>1, WrapIffRemainder DEF ReaderTypeOK, r
  <2> QED
    BY <1>6, <2>2 DEF Candidates
<1>8. ASSUME NEW a \in Candidates
      PROVE  \/ Distance(u, checkpoint) < Distance(a, checkpoint)
             \/ Distance(u, checkpoint) = Distance(a, checkpoint) /\ u <= a
  <2>1. a \in Nat /\ a % Base = r
    <3>1. a \in Nat /\ wrap(a, peer_isn) = peer_seqno
      BY <1>1 DEF Candidates
    <3> QED
      BY <3>1, WrapIffRemainder DEF ReaderTypeOK, r
  <2>2. PICK j \in Int : a = Base * j + r
    <3>1. a \div Base \in Int /\ a = Base * (a \div Base) + r
      BY <1>1, <2>1, DivMod
    <3> QED
      BY <3>1, ZenonT(60)
  <2>3. a = u \/ a <= u - Base \/ a >= u + Base
    <3>1. \/ Base * j + r = Base * k + r
          \/ Base * j + r <= Base * k + r - Base
          \/ Base * j + r >= Base * k + r + Base
      BY <1>1, <1>2, BaseApart
    <3>2. Base * j \in Int /\ Base * k \in Int
      BY <1>1
    <3> QED
      BY <1>1, <1>2, <1>4, <2>2, <3>1, <3>2
  <2>4. CASE a = u
    BY <1>1, <1>6, <2>4 DEF Distance
  <2>5. CASE a <= u - Base
    BY <1>1, <1>2, <1>3, <1>5, <1>6, <2>1, <2>5 DEF Distance
  <2>6. CASE a >= u + Base
    BY <1>1, <1>2, <1>3, <1>5, <1>6, <2>1, <2>6 DEF Distance
  <2> QED
    BY <2>3, <2>4, <2>5, <2>6
<1> QED
  BY <1>7, <1>8 DEF UnwrapIsClosest, u

\* Wherever the checkpoint and the arriving numbers go, unwrap() returns the
\* position that wraps to the number and is closest to the checkpoint, the lower
\* one of two that are equally close.
THEOREM UnwrapAlwaysClosest == ReaderSpec => []UnwrapIsClosest
<1>1. ReaderInit => ReaderTypeOK
  BY DEF ReaderInit, ReaderTypeOK
<1>2. ReaderTypeOK /\ [ReaderNext]_readerVars => ReaderTypeOK'
  BY DEF ReaderTypeOK, ReaderNext, Advance, Arrive, readerVars
<1> QED
  BY <1>1, <1>2, TypedIsClosest, PTL DEF ReaderSpec
-----------------------------------------------------------------------------
\* wrap() yields a sequence number.
LEMMA WrapType ==
    ASSUME NEW isn \in WrappingInt32, NEW a \in Nat
    PROVE  wrap(a, isn) \in WrappingInt32
BY WrappingAssumption DEF WrappingAssumption, wrap, plus, WrappingInt32

\* What the recursion of Doubled computes.
LEMMA DoubledValue ==
    ASSUME NEW t \in Nat, NEW m \in Nat
    PROVE  \E f \in [0 .. m -> Nat] :
              /\ f[0] = t /\ \A k \in 1 .. m : f[k] = 2 * f[k - 1]
              /\ Doubled(t, m) = f[m]
<1> DEFINE Rec(f) == f = [k \in 0 .. m |-> IF k = 0 THEN t ELSE 2 * f[k - 1]]
           step == [k \in 1 .. m |-> [x \in Nat |-> 2 * x]]
           g == CHOOSE f : Rec(f)
<1>1. \E f : Rec(f)
  <2>1. StaysIn(Nat, step, m)
    BY DEF StaysIn
  <2>2. PICK f \in [0 .. m -> Nat] : f[0] = t /\ \A k \in 1 .. m : f[k] = step[k][f[k - 1]]
    <3> HIDE DEF step
    <3>1. PICK f : Iterates(f, Nat, t, step, m)
      BY <2>1, RecExists
    <3> QED
      BY <3>1, SMTT(60) DEF Iterates
  <2>3. ASSUME NEW k \in 0 .. m PROVE f[k] = IF k = 0 THEN t ELSE 2 * f[k - 1]
    <3>1. CASE k = 0
      BY <2>2, <3>1
    <3>2. CASE k # 0
      <4>1. k \in 1 .. m /\ f[k - 1] \in Nat
        BY <3>2
      <4>2. step[k][f[k - 1]] = 2 * f[k - 1]
        BY <4>1
      <4> HIDE DEF step
      <4> QED
        BY <2>2, <3>2, <4>1, <4>2
    <3> QED
      BY <3>1, <3>2
  <2>4. f = [k \in 0 .. m |-> f[k]]
    OBVIOUS
  <2>5. Rec(f)
    BY <2>3, <2>4, ZenonT(60)
  <2> QED
    BY <2>5
<1>2. Rec(g)
  BY <1>1, ZenonT(60)
<1>3. Doubled(t, m) = g[m]
  BY ZenonT(60) DEF Doubled
<1>4. \A k \in 0 .. m : g[k] = IF k = 0 THEN t ELSE 2 * g[k - 1]
  BY <1>2, ZenonT(60)
<1>5. g = [k \in 0 .. m |-> g[k]]
  BY <1>2, ZenonT(60)
<1> HIDE DEF g
<1> DEFINE S == {k \in 0 .. m : g[k] \in Nat}
<1>6. 0 .. m \subseteq S
  <2>1. 0 \in S
    BY <1>4
  <2>2. \A k \in 0 .. m - 1 : k \in S => k + 1 \in S
    BY <1>4
  <2> HIDE DEF S
  <2> QED
    BY <2>1, <2>2, IndUpTo
<1>7. g \in [0 .. m -> Nat]
  BY <1>5, <1>6
<1>8. \A k \in 1 .. m : g[k] = 2 * g[k - 1]
  BY <1>4, <1>7
<1>9. g[0] = t
  BY <1>4
<1> QED
  BY <1>3, <1>7, <1>8, <1>9, ZenonT(60)

\* Doubling no times, and once more.
LEMMA DoubledSteps ==
    ASSUME NEW t \in Nat
    PROVE  /\ Doubled(t, 0) = t
           /\ \A m \in Nat : /\ Doubled(t, m) \in Nat
                             /\ Doubled(t, m + 1) = 2 * Doubled(t, m)
<1>1. Doubled(t, 0) = t
  BY DoubledValue, ZenonT(60)
<1>2. ASSUME NEW m \in Nat PROVE Doubled(t, m) \in Nat /\ Doubled(t, m + 1) = 2 * Doubled(t, m)
  <2>1. PICK f \in [0 .. m -> Nat] :
           /\ f[0] = t /\ \A k \in 1 .. m : f[k] = 2 * f[k - 1]
           /\ Doubled(t, m) = f[m]
    BY DoubledValue, ZenonT(60)
  <2>2. PICK g \in [0 .. m + 1 -> Nat] :
           /\ g[0] = t /\ \A k \in 1 .. m + 1 : g[k] = 2 * g[k - 1]
           /\ Doubled(t, m + 1) = g[m + 1]
    <3>1. m + 1 \in Nat
      OBVIOUS
    <3> QED
      BY <3>1, DoubledValue, ZenonT(60)
  <2> DEFINE S == {k \in 0 .. m : f[k] = g[k]}
  <2>3. 0 \in S
    BY <2>1, <2>2
  <2>4. \A k \in 0 .. m - 1 : k \in S => k + 1 \in S
    BY <2>1, <2>2
  <2>5. m \in S
    <3> HIDE DEF S
    <3> QED
      <4>1. 0 .. m \subseteq S
        BY <2>3, <2>4, IndUpTo, ZenonT(60)
      <4> QED
        BY <4>1
  <2> QED
    BY <2>1, <2>2, <2>5
<1> QED
  BY <1>1, <1>2
-----------------------------------------------------------------------------
MW == IF MaxWindow >= 1 THEN MaxWindow ELSE 1

Segments ==
    [seqno : WrappingInt32, syn : BOOLEAN, payload : Seq(Nat), fin : BOOLEAN,
     rst : BOOLEAN, ack : BOOLEAN, ackno : Nat, win : Nat]

Streams ==
    [buf : Seq(Nat), capacity : Nat, bytes_written : Nat,
     bytes_read : Nat, input_ended : BOOLEAN, error : BOOLEAN]

Timers == [active : BOOLEAN, expired : BOOLEAN, current_time : Nat, timeout : Nat]

Senders ==
    [isn : WrappingInt32, segments_out : Seq(Segments), retrans_buf : Seq(Segments),
     initial_retransmission_timeout : {RtTimeout}, retrans_timeout : Nat,
     consec_retrans_count : Nat, stream : Streams, next_seqno : Nat,
     window_size : 0 .. MW, syn_sent : BOOLEAN, fin_sent : BOOLEAN, timer : Timers]

Length(seg) == SEG!length_in_sequence_space(seg)

\* seg may stand at position q of a sender whose numbers start at isn and whose
\* stream is st: the bytes it carries have been read from the stream.
Stands(seg, q, isn, st) ==
    /\ seg.seqno = wrap(q, isn) /\ Length(seg) >= 1
    /\ seg.syn <=> q = 0
    /\ \A j \in 1 .. Len(seg.payload) : seg.payload[j] = q + SEG!One(seg.syn) + j - 2
    /\ q + SEG!One(seg.syn) + Len(seg.payload) <= st.bytes_read + 1
    /\ seg.fin => st.input_ended /\ q + Length(seg) = st.bytes_written + 2

\* The segments of buf stand at the positions p, one after the other, up to
\* next_seqno, and span no more than a window.
Chain(buf, p, next_seqno, isn, st) ==
    /\ p \in [1 .. Len(buf) + 1 -> Nat]
    /\ p[Len(buf) + 1] = next_seqno
    /\ next_seqno - p[1] <= MW
    /\ \A i \in 1 .. Len(buf) : Stands(buf[i], p[i], isn, st) /\ p[i + 1] = p[i] + Length(buf[i])

\* The stream of a sender: its totals agree and its bytes are their indices.
StreamOK(st) ==
    /\ st \in Streams /\ Len(st.buf) <= st.capacity
    /\ st.bytes_written = st.bytes_read + Len(st.buf)
    /\ \A j \in 1 .. Len(st.buf) : st.buf[j] = st.bytes_read + j - 1

Accounted(s) ==
    /\ s.next_seqno = SEG!One(s.syn_sent) + s.stream.bytes_read + SEG!One(s.fin_sent)
    /\ s.fin_sent => BS!eof(s.stream)
    /\ ~s.syn_sent => s.next_seqno = 0

Timed(s) ==
    /\ s.timer.active <=> s.retrans_buf # << >>
    /\ s.retrans_timeout = Doubled(RtTimeout, s.consec_retrans_count)

\* seg is bare, or carries some of what s has sent, at the position that its
\* sequence number stands for.
Carries(seg, s) ==
    \E q \in Nat :
        /\ seg.seqno = wrap(q, s.isn) /\ q + Length(seg) <= s.next_seqno
        /\ Length(seg) # 0 => Stands(seg, q, s.isn, s.stream)

\* Nothing is queued that s has not sent.
Honest(out, s) == \A i \in 1 .. Len(out) : Carries(out[i], s)

\* The invariant.
SenderOK(s) ==
    /\ s \in Senders /\ StreamOK(s.stream) /\ Accounted(s) /\ Timed(s)
    /\ Honest(s.segments_out, s)
    /\ \E p : Chain(s.retrans_buf, p, s.next_seqno, s.isn, s.stream)

\* length_in_sequence_space() counts.
LEMMA LengthType ==
    ASSUME NEW seg \in Segments
    PROVE  Length(seg) \in Nat
<1>1. Len(seg.payload) \in Nat
  BY DEF Segments
<1>2. SEG!One(seg.syn) \in Nat /\ SEG!One(seg.fin) \in Nat
  BY DEF SEG!One
<1> QED
  BY <1>1, <1>2 DEF Length, SEG!length_in_sequence_space

\* Positions grow along the chain.
LEMMA ChainGrows ==
    ASSUME NEW buf \in Seq(Segments), NEW p, NEW nxt \in Nat, NEW isn, NEW st, Chain(buf, p, nxt, isn, st)
    PROVE  \A i \in 1 .. Len(buf) + 1 : p[i] \in Nat /\ p[1] <= p[i] /\ p[i] <= nxt
<1> DEFINE m == Len(buf)
           S == {k \in 0 .. m : p[1] <= p[k + 1]}
           T == {k \in 0 .. m : p[m + 1 - k] <= nxt}
<1>1. m \in Nat /\ \A i \in 1 .. m + 1 : p[i] \in Nat
  BY DEF Chain
<1>2. ASSUME NEW i \in 1 .. m PROVE p[i] <= p[i + 1]
  <2>1. p[i + 1] = p[i] + Length(buf[i])
    BY DEF Chain
  <2>2. buf[i] \in Segments
    OBVIOUS
  <2>3. Length(buf[i]) \in Nat
    BY <2>2, LengthType
  <2> QED
    BY <1>1, <2>1, <2>3
<1> HIDE DEF m
<1>3. 0 .. m \subseteq S
  <2>1. 0 \in S
    BY <1>1
  <2>2. ASSUME NEW k \in 0 .. m - 1, k \in S PROVE k + 1 \in S
    <3>1. p[k + 1] <= p[k + 1 + 1] /\ p[1] \in Nat /\ p[k + 1] \in Nat /\ p[k + 1 + 1] \in Nat
      BY <1>1, <1>2
    <3> QED
      BY <1>1, <2>2, <3>1
  <2> HIDE DEF S
  <2> QED
    BY <1>1, <2>1, <2>2, IndUpTo, ZenonT(60)
<1>4. 0 .. m \subseteq T
  <2>1. 0 \in T
    BY <1>1 DEF Chain, m
  <2>2. ASSUME NEW k \in 0 .. m - 1, k \in T PROVE k + 1 \in T
    <3> DEFINE i == m - k
    <3>1. i \in 1 .. m /\ m + 1 - k = i + 1 /\ m + 1 - (k + 1) = i
      BY <1>1
    <3>2. p[i] <= p[i + 1] /\ p[i] \in Nat /\ p[i + 1] \in Nat
      BY <1>1, <1>2, <3>1
    <3> HIDE DEF i
    <3>3. p[i + 1] <= nxt
      BY <2>2, <3>1
    <3>4. p[i] <= nxt
      BY <3>2, <3>3
    <3> QED
      BY <1>1, <3>1, <3>4
  <2> HIDE DEF T
  <2> QED
    BY <1>1, <2>1, <2>2, IndUpTo, ZenonT(60)
<1>5. ASSUME NEW i \in 1 .. m + 1 PROVE p[i] \in Nat /\ p[1] <= p[i] /\ p[i] <= nxt
  <2>1. i - 1 \in S /\ (m + 1 - i) \in T
    <3> HIDE DEF S, T
    <3> QED
      BY <1>1, <1>3, <1>4, SMTT(60)
  <2>2. (i - 1) + 1 = i /\ m + 1 - (m + 1 - i) = i
    BY <1>1
  <2> QED
    BY <1>1, <2>1, <2>2
<1> QED
  BY <1>5 DEF m

\* bytes_in_flight() is the distance from the first outstanding position to
\* next_seqno.
LEMMA InFlight ==
    ASSUME NEW s \in Senders, NEW p, Chain(s.retrans_buf, p, s.next_seqno, s.isn, s.stream)
    PROVE  bytes_in_flight(s) = s.next_seqno - p[1]
<1> DEFINE buf == s.retrans_buf
           m == Len(buf)
           Rec(f) == f = [k \in 0 .. m |-> IF k = 0 THEN 0 ELSE f[k - 1] + Length(buf[k])]
           step == [k \in 1 .. m |-> [x \in Nat |-> x + Length(buf[k])]]
           g == CHOOSE f : Rec(f)
<1>0. buf \in Seq(Segments) /\ s.next_seqno \in Nat
  BY DEF Senders
<1>1. m \in Nat /\ \A i \in 1 .. m : Length(buf[i]) \in Nat
  BY <1>0, LengthType
<1>2. \E f : Rec(f)
  <2>1. StaysIn(Nat, step, m)
    BY <1>1, SMTT(60) DEF StaysIn
  <2>2. PICK f \in [0 .. m -> Nat] : f[0] = 0 /\ \A k \in 1 .. m : f[k] = step[k][f[k - 1]]
    <3> HIDE DEF step, m
    <3>1. PICK f : Iterates(f, Nat, 0, step, m)
      BY <1>1, <2>1, RecExists, ZenonT(60)
    <3> QED
      BY <3>1, ZenonT(60) DEF Iterates
  <2>3. ASSUME NEW k \in 0 .. m PROVE f[k] = IF k = 0 THEN 0 ELSE f[k - 1] + Length(buf[k])
    <3>1. CASE k = 0
      BY <2>2, <3>1
    <3>2. CASE k # 0
      <4>1. k \in 1 .. m /\ f[k - 1] \in Nat
        BY <1>1, <3>2, SMTT(60)
      <4>2. step[k][f[k - 1]] = f[k - 1] + Length(buf[k])
        BY <4>1
      <4> HIDE DEF step
      <4> QED
        BY <2>2, <3>2, <4>1, <4>2
    <3> QED
      BY <3>1, <3>2
  <2>4. f = [k \in 0 .. m |-> f[k]]
    OBVIOUS
  <2>5. Rec(f)
    BY <2>3, <2>4, ZenonT(60)
  <2> QED
    BY <2>5
<1>3. Rec(g)
  BY <1>2, ZenonT(60)
<1>4. bytes_in_flight(s) = g[m]
  BY ZenonT(60) DEF bytes_in_flight, Length
<1>5. \A k \in 0 .. m : g[k] = IF k = 0 THEN 0 ELSE g[k - 1] + Length(buf[k])
  BY <1>3, ZenonT(60)
<1> HIDE DEF g
<1>6. \A i \in 1 .. m + 1 : p[i] \in Nat
  BY SMTT(60) DEF Chain
<1>7. \A i \in 1 .. m : p[i + 1] = p[i] + Length(buf[i])
  BY DEF Chain
<1> HIDE DEF buf, m
<1> DEFINE S == {k \in 0 .. m : g[k] = p[k + 1] - p[1]}
<1>8. 0 \in S
  BY <1>1, <1>5, <1>6
<1>9. ASSUME NEW k \in 0 .. m - 1, k \in S PROVE k + 1 \in S
  <2>1. /\ g[k] = p[k + 1] - p[1] /\ g[k + 1] = g[k] + Length(buf[k + 1])
        /\ p[k + 1 + 1] = p[k + 1] + Length(buf[k + 1])
    BY <1>1, <1>5, <1>7, <1>9
  <2>2. p[1] \in Nat /\ p[k + 1] \in Nat /\ Length(buf[k + 1]) \in Nat
    BY <1>1, <1>6
  <2> QED
    BY <1>1, <2>1, <2>2
<1>10. m \in S
  <2>1. 0 .. m \subseteq S
    <3> HIDE DEF S
    <3> QED
      BY <1>1, <1>8, <1>9, IndUpTo, SMTT(60)
  <2> HIDE DEF S
  <2> QED
    BY <1>1, <2>1
<1> QED
  BY <1>4, <1>10, SMTT(60) DEF Chain, buf, m
-----------------------------------------------------------------------------
\* data are the next bytes of st, at most len, and rest is what follows.
Splits(st, len, data, rest) ==
    /\ data \in Seq(Nat) /\ Len(data) <= len /\ Len(data) <= Len(st.buf)
    /\ Len(data) = len \/ Len(data) = Len(st.buf)
    /\ \A j \in 1 .. Len(data) : data[j] = st.bytes_read + j - 1
    /\ StreamOK(rest)
    /\ rest.bytes_read = st.bytes_read + Len(data)
    /\ rest.bytes_written = st.bytes_written
    /\ rest.input_ended = st.input_ended
    /\ Len(rest.buf) = Len(st.buf) - Len(data)

\* What fill_window() gets when it reads len bytes, and what it leaves.
LEMMA ReadEffect ==
    ASSUME NEW st, StreamOK(st), NEW len \in Nat
    PROVE  Splits(st, len, BS!peek_output(st, len), BS!read(st, len))
<1> SUFFICES ASSUME NEW data, data = BS!peek_output(st, len), NEW rest, rest = BS!read(st, len)
             PROVE  Splits(st, len, data, rest)
  OBVIOUS
<1> DEFINE b == st.buf
           m == Len(b)
           n == BS!MinOf(len, m)
           cut == SubSeq(b, n + 1, m)
<1>1. /\ b \in Seq(Nat) /\ m \in Nat /\ st.bytes_read \in Nat /\ m <= st.capacity /\ st.capacity \in Nat
      /\ st.bytes_written = st.bytes_read + m
      /\ \A j \in 1 .. m : b[j] = st.bytes_read + j - 1
  BY DEF StreamOK, Streams
<1>2. n \in 0 .. m /\ n <= len /\ (n = len \/ n = m)
  BY <1>1 DEF BS!MinOf
<1>0. m \in Nat /\ n \in Nat /\ st.bytes_read \in Nat
  BY <1>1, <1>2, SMTT(60)
<1>3. data \in Seq(Nat) /\ Len(data) = n /\ \A j \in 1 .. n : data[j] = st.bytes_read + j - 1
  <2>1. data = SubSeq(b, 1, n)
    BY DEF BS!peek_output
  <2> HIDE DEF b, n
  <2>2. data \in Seq(Nat) /\ Len(data) = n /\ \A j \in 1 .. n : data[j] = b[j]
    <3>1. /\ SubSeq(b, 1, n) \in Seq(Nat) /\ Len(SubSeq(b, 1, n)) = n
          /\ \A j \in 1 .. n : SubSeq(b, 1, n)[j] = b[j]
      BY <1>1, <1>2, CutSeq, ZenonT(60) DEF FirstPart
    <3> QED
      BY <2>1, <3>1, ZenonT(60)
  <2> HIDE DEF m
  <2>3. ASSUME NEW j \in 1 .. n PROVE data[j] = st.bytes_read + j - 1
    <3>1. j \in 1 .. m
      BY <1>0, <1>2
    <3> QED
      BY <1>1, <2>2, <3>1, ZenonT(60)
  <2> QED
    BY <2>2, <2>3, SMTT(60)
<1>4. cut \in Seq(Nat) /\ Len(cut) = m - n /\ \A j \in 1 .. m - n : cut[j] = st.bytes_read + n + j - 1
  <2> HIDE DEF b, n
  <2>1. cut \in Seq(Nat) /\ Len(cut) = m - n /\ \A j \in 1 .. m - n : cut[j] = b[n + j]
    <3>1. LastPart(Nat, b, n, cut)
      BY <1>1, <1>2, CutSeq, ZenonT(60)
    <3> HIDE DEF cut
    <3> QED
      BY <3>1, ZenonT(60) DEF LastPart
  <2> HIDE DEF cut, m
  <2>2. ASSUME NEW j \in 1 .. m - n PROVE cut[j] = st.bytes_read + n + j - 1
    <3>1. n + j \in 1 .. m
      BY <1>1, <1>2
    <3>2. b[n + j] = st.bytes_read + (n + j) - 1
      BY <1>1, <3>1, SMTT(60)
    <3>3. cut[j] = b[n + j]
      BY <2>1
    <3> QED
      BY <1>0, <3>2, <3>3
  <2> QED
    BY <2>1, <2>2
<1>5. CASE len = 0
  <2>1. rest = st /\ n = 0
    BY <1>2, <1>5 DEF BS!read
  <2> HIDE DEF n
  <2> QED
    BY <1>1, <1>2, <1>3, <2>1, SMTT(30) DEF Splits
<1>6. CASE len # 0
  <2>1. rest = [st EXCEPT !.buf = cut, !.bytes_read = @ + n]
    <3>1. rest = BS!pop_output(st, n)
      BY <1>3, <1>6, ZenonT(60) DEF BS!read
    <3>2. BS!MinOf(n, m) = n
      BY <1>1, <1>2 DEF BS!MinOf
    <3> HIDE DEF n
    <3> QED
      BY <3>1, <3>2, ZenonT(60) DEF BS!pop_output
  <2>2. st \in Streams
    BY DEF StreamOK
  <2> HIDE DEF n, cut
  <2>3. /\ rest \in Streams /\ rest.buf = cut /\ rest.bytes_read = st.bytes_read + n
        /\ rest.bytes_written = st.bytes_written /\ rest.input_ended = st.input_ended
        /\ rest.capacity = st.capacity
    <3>1. st.bytes_read + n \in Nat
      BY <1>1, <1>2
    <3> QED
      <4>1. rest \in Streams
        BY <1>4, <2>1, <2>2, <3>1, ZenonT(60) DEF Streams
      <4> QED
        BY <2>1, <2>2, <4>1 DEF Streams
  <2> HIDE DEF m
  <2>5. StreamOK(rest)
    <3>1. Len(rest.buf) <= rest.capacity
      BY <1>1, <1>2, <1>4, <2>3, SMTT(60)
    <3>2. rest.bytes_written = rest.bytes_read + Len(rest.buf)
      BY <1>1, <1>2, <1>4, <2>3
    <3>3. \A j \in 1 .. Len(rest.buf) : rest.buf[j] = rest.bytes_read + j - 1
      BY <1>4, <2>3
    <3> QED
      BY <2>3, <3>1, <3>2, <3>3 DEF StreamOK
  <2> QED
    BY <1>1, <1>2, <1>3, <1>4, <2>3, <2>5 DEF m, b, Splits
<1> QED
  BY <1>5, <1>6

\* What makes a chain.
LEMMA ChainIntro ==
    ASSUME NEW buf, NEW p, NEW nxt, NEW isn, NEW st,
           p \in [1 .. Len(buf) + 1 -> Nat] /\ p[Len(buf) + 1] = nxt, nxt - p[1] <= MW,
           \A i \in 1 .. Len(buf) : Stands(buf[i], p[i], isn, st) /\ p[i + 1] = p[i] + Length(buf[i])
    PROVE  Chain(buf, p, nxt, isn, st)
BY DEF Chain

\* st2 is st, later: more may have been read from it, and once it has ended
\* nothing more is written.
StreamLater(st, st2) ==
    /\ st.bytes_read \in Nat /\ st2.bytes_read \in Nat /\ st.bytes_read <= st2.bytes_read
    /\ st.input_ended => st2.input_ended /\ st2.bytes_written = st.bytes_written

\* What a segment carries stays true.
LEMMA StandsLater ==
    ASSUME NEW seg \in Segments, NEW q \in Nat, NEW isn, NEW st, NEW st2,
           Stands(seg, q, isn, st), StreamLater(st, st2)
    PROVE  Stands(seg, q, isn, st2)
<1>1. SEG!One(seg.syn) \in Nat /\ Len(seg.payload) \in Nat
  BY DEF SEG!One, Segments
<1>2. q + SEG!One(seg.syn) + Len(seg.payload) <= st2.bytes_read + 1
  BY <1>1 DEF Stands, StreamLater
<1> QED
  BY <1>2, ZenonT(60) DEF Stands, StreamLater

\* So does a chain.
LEMMA ChainStream ==
    ASSUME NEW buf \in Seq(Segments), NEW p, NEW nxt, NEW isn, NEW st, NEW st2,
           Chain(buf, p, nxt, isn, st), StreamLater(st, st2)
    PROVE  Chain(buf, p, nxt, isn, st2)
<1>1. p \in [1 .. Len(buf) + 1 -> Nat]
  BY DEF Chain
<1>2. ASSUME NEW i \in 1 .. Len(buf) PROVE Stands(buf[i], p[i], isn, st2)
  <2>1. Stands(buf[i], p[i], isn, st)
    BY DEF Chain
  <2>2. buf[i] \in Segments /\ p[i] \in Nat
    BY <1>1
  <2> QED
    BY <2>1, <2>2, StandsLater, ZenonT(60)
<1> QED
  BY <1>2, ZenonT(60) DEF Chain

\* t is s, later.
Later(s, t) ==
    /\ t.isn = s.isn /\ s.next_seqno \in Nat /\ t.next_seqno \in Nat
    /\ s.next_seqno <= t.next_seqno
    /\ s.syn_sent => t.syn_sent
    /\ s.fin_sent => t.fin_sent
    /\ StreamLater(s.stream, t.stream)

\* Later is transitive.
LEMMA LaterTwice ==
    ASSUME NEW s, NEW t, NEW u, Later(s, t), Later(t, u)
    PROVE  Later(s, u)
<1>1. StreamLater(s.stream, u.stream)
  <2>1. s.stream.bytes_read <= u.stream.bytes_read
    BY DEF Later, StreamLater
  <2> QED
    BY <2>1, ZenonT(60) DEF Later, StreamLater
<1>2. s.next_seqno <= u.next_seqno
  BY DEF Later
<1> QED
  BY <1>1, <1>2, ZenonT(60) DEF Later

\* What has been sent has been sent.
LEMMA CarriesLater ==
    ASSUME NEW seg \in Segments, NEW s, NEW t, Carries(seg, s), Later(s, t)
    PROVE  Carries(seg, t)
<1>1. PICK q \in Nat :
        /\ seg.seqno = wrap(q, s.isn) /\ q + Length(seg) <= s.next_seqno
        /\ Length(seg) # 0 => Stands(seg, q, s.isn, s.stream)
  BY DEF Carries
<1>2. q + Length(seg) <= t.next_seqno
  <2>1. Length(seg) \in Nat
    BY LengthType
  <2> QED
    BY <1>1, <2>1 DEF Later
<1>3. Length(seg) # 0 => Stands(seg, q, t.isn, t.stream)
  <2>1. StreamLater(s.stream, t.stream) /\ t.isn = s.isn
    BY DEF Later
  <2> QED
    BY <1>1, <2>1, StandsLater, ZenonT(60)
<1>4. seg.seqno = wrap(q, t.isn)
  BY <1>1 DEF Later
<1> QED
  BY <1>2, <1>3, <1>4, ZenonT(60) DEF Carries

\* An honest queue stays honest.
LEMMA HonestLater ==
    ASSUME NEW out \in Seq(Segments), NEW s, NEW t, Honest(out, s), Later(s, t)
    PROVE  Honest(out, t)
<1>1. ASSUME NEW i \in 1 .. Len(out) PROVE Carries(out[i], t)
  <2>1. out[i] \in Segments
    OBVIOUS
  <2>2. Carries(out[i], s)
    BY DEF Honest
  <2> QED
    BY <2>1, <2>2, CarriesLater, ZenonT(60)
<1> QED
  BY <1>1 DEF Honest

\* A queue with one more segment.
LEMMA HonestAppend ==
    ASSUME NEW out \in Seq(Segments), NEW seg \in Segments, NEW s, Honest(out, s), Carries(seg, s)
    PROVE  Append(out, seg) \in Seq(Segments) /\ Honest(Append(out, seg), s)
<1> DEFINE new == Append(out, seg)
<1>1. /\ new \in Seq(Segments) /\ Len(out) \in Nat /\ Len(new) = Len(out) + 1
      /\ new[Len(out) + 1] = seg /\ \A i \in 1 .. Len(out) : new[i] = out[i]
  OBVIOUS
<1> HIDE DEF new
<1>2. ASSUME NEW i \in 1 .. Len(new) PROVE Carries(new[i], s)
  <2>1. CASE i = Len(out) + 1
    BY <1>1, <2>1
  <2>2. CASE i \in 1 .. Len(out)
    <3>1. Carries(out[i], s) /\ new[i] = out[i]
      BY <1>1, <2>2 DEF Honest
    <3> QED
      BY <3>1
  <2> QED
    BY <1>1, <2>1, <2>2
<1> QED
  BY <1>1, <1>2 DEF Honest, new

\* A segment at next_seqno makes the chain longer.
LEMMA ChainAppend ==
    ASSUME NEW buf \in Seq(Segments), NEW p, NEW nxt \in Nat, NEW isn, NEW st, Chain(buf, p, nxt, isn, st),
           NEW seg \in Segments, Stands(seg, nxt, isn, st), (nxt + Length(seg)) - p[1] <= MW
    PROVE  \E q : Chain(Append(buf, seg), q, nxt + Length(seg), isn, st) /\ q[1] = p[1]
<1> DEFINE m == Len(buf)
           q == [i \in 1 .. m + 2 |-> IF i <= m + 1 THEN p[i] ELSE nxt + Length(seg)]
           new == Append(buf, seg)
<1>1. Length(seg) \in Nat /\ m \in Nat
  BY LengthType
<1>2. /\ p \in [1 .. m + 1 -> Nat] /\ p[m + 1] = nxt
      /\ \A i \in 1 .. m : Stands(buf[i], p[i], isn, st) /\ p[i + 1] = p[i] + Length(buf[i])
  BY DEF Chain
<1>3. Len(new) = m + 1 /\ new[m + 1] = seg /\ \A i \in 1 .. m : new[i] = buf[i]
  OBVIOUS
<1> HIDE DEF m, new
<1>4. q \in [1 .. m + 2 -> Nat] /\ q[1] = p[1] /\ q[m + 2] = nxt + Length(seg)
  BY <1>1, <1>2
<1>5. ASSUME NEW i \in 1 .. m + 1
      PROVE  Stands(new[i], q[i], isn, st) /\ q[i + 1] = q[i] + Length(new[i])
  <2>1. CASE i = m + 1
    BY <1>1, <1>2, <1>3, <2>1, SMTT(60)
  <2>2. CASE i \in 1 .. m
    BY <1>1, <1>2, <1>3, <2>2
  <2> QED
    BY <1>1, <2>1, <2>2
<1> HIDE DEF q
<1>6. Len(new) + 1 = m + 2
  BY <1>1, <1>3
<1>7. Chain(new, q, nxt + Length(seg), isn, st)
  <2>1. q \in [1 .. Len(new) + 1 -> Nat] /\ q[Len(new) + 1] = nxt + Length(seg)
    BY <1>4, <1>6
  <2>2. (nxt + Length(seg)) - q[1] <= MW
    BY <1>4
  <2>3. \A i \in 1 .. Len(new) : Stands(new[i], q[i], isn, st) /\ q[i + 1] = q[i] + Length(new[i])
    BY <1>3, <1>5
  <2> QED
    BY <2>1, <2>2, <2>3, ChainIntro, ZenonT(60)
<1> QED
  BY <1>4, <1>7, ZenonT(60) DEF new
-----------------------------------------------------------------------------
\* fill_window() has nothing to send.
Idle(s) ==
    \/ remaining_winsize(s) <= 0
    \/ s.syn_sent /\ s.stream.buf = << >> /\ (s.stream.input_ended => s.fin_sent)

\* What is left to send: bytes, the SYN and the FIN.
Left(s) == Len(s.stream.buf) + SEG!One(~s.syn_sent) + SEG!One(~s.fin_sent)

\* The first position that is still outstanding.
First(s) == s.next_seqno - bytes_in_flight(s)

\* Nothing has been written to the stream.
Steady(s, t) ==
    /\ t.stream.bytes_written = s.stream.bytes_written
    /\ t.stream.input_ended = s.stream.input_ended

\* t is s after something has been sent, within the window.
Sent(s, t) ==
    /\ SenderOK(t) /\ t.window_size = s.window_size
    /\ Later(s, t) /\ Steady(s, t) /\ First(t) = First(s)
    /\ t.next_seqno > s.next_seqno
    /\ bytes_in_flight(t) <= effective_window(t)
    /\ Left(t) < Left(s)

\* The types of what the methods use, and what is left of the window.
LEMMA SenderTypes ==
    ASSUME NEW s, SenderOK(s), NEW p, Chain(s.retrans_buf, p, s.next_seqno, s.isn, s.stream)
    PROVE  /\ s \in Senders /\ s.isn \in WrappingInt32 /\ s.next_seqno \in Nat
           /\ s.retrans_buf \in Seq(Segments) /\ s.segments_out \in Seq(Segments)
           /\ s.syn_sent \in BOOLEAN /\ s.fin_sent \in BOOLEAN /\ s.stream.input_ended \in BOOLEAN
           /\ s.stream \in Streams /\ s.stream.buf \in Seq(Nat) /\ Len(s.stream.buf) \in Nat
           /\ s.stream.bytes_read \in Nat /\ s.timer \in Timers /\ s.retrans_timeout \in Nat
           /\ effective_window(s) \in 1 .. MW
           /\ p[1] \in Nat /\ p[1] <= s.next_seqno
           /\ bytes_in_flight(s) = s.next_seqno - p[1]
           /\ remaining_winsize(s) = effective_window(s) - (s.next_seqno - p[1])
           /\ First(s) = p[1]
<1>1. s \in Senders /\ s.stream \in Streams
  BY DEF SenderOK, StreamOK
<1>2. /\ s.isn \in WrappingInt32 /\ s.next_seqno \in Nat
      /\ s.retrans_buf \in Seq(Segments) /\ s.segments_out \in Seq(Segments)
      /\ s.syn_sent \in BOOLEAN /\ s.fin_sent \in BOOLEAN
      /\ s.timer \in Timers /\ s.retrans_timeout \in Nat /\ s.window_size \in 0 .. MW
  BY <1>1, ZenonT(60) DEF Senders
<1>3. s.stream.input_ended \in BOOLEAN /\ s.stream.buf \in Seq(Nat) /\ s.stream.bytes_read \in Nat
  BY <1>1, ZenonT(60) DEF Streams
<1>4. Len(s.stream.buf) \in Nat
  BY <1>3
<1>5. effective_window(s) \in 1 .. MW
  BY <1>2, SenderAssumption DEF effective_window, MW
<1>6. p[1] \in Nat /\ p[1] <= s.next_seqno
  <2>1. 1 \in 1 .. Len(s.retrans_buf) + 1
    BY <1>2
  <2> QED
    BY <1>2, <2>1, ChainGrows, SMTT(60)
<1>7. bytes_in_flight(s) = s.next_seqno - p[1]
  BY <1>1, InFlight
<1> QED
  BY <1>1, <1>2, <1>3, <1>4, <1>5, <1>6, <1>7, SMTT(60) DEF remaining_winsize, First

\* A turn of fill_window()'s loop sends when there is something to send and
\* room for it, and changes nothing otherwise.
LEMMA TurnEffect ==
    ASSUME NEW s, SenderOK(s)
    PROVE  /\ Idle(s) => fill_turn(s) = s
           /\ ~Idle(s) => Sent(s, fill_turn(s))
<1> DEFINE room     == remaining_winsize(s)
           nxt      == s.next_seqno
           st       == s.stream
           syn      == ~s.syn_sent
           seg_size == room - SEG!One(syn)
           len      == BS!MinOf(seg_size, MAX_PAYLOAD_SIZE)
           data     == BS!peek_output(st, len)
           rest     == BS!read(st, len)
           fin      == ~s.fin_sent /\ BS!eof(rest) /\ seg_size > Len(data)
           seg      == SEG!Segment(wrap(nxt, s.isn), syn, data, fin)
<1>1. PICK p : Chain(s.retrans_buf, p, nxt, s.isn, st)
  BY DEF SenderOK
<1>2. /\ s \in Senders /\ s.isn \in WrappingInt32 /\ nxt \in Nat
      /\ s.retrans_buf \in Seq(Segments) /\ s.segments_out \in Seq(Segments)
      /\ s.syn_sent \in BOOLEAN /\ s.fin_sent \in BOOLEAN /\ st.input_ended \in BOOLEAN
      /\ st.buf \in Seq(Nat) /\ Len(st.buf) \in Nat /\ st.bytes_read \in Nat
      /\ s.timer \in Timers /\ s.retrans_timeout \in Nat
      /\ effective_window(s) \in 1 .. MW
      /\ p[1] \in Nat /\ p[1] <= nxt
      /\ bytes_in_flight(s) = nxt - p[1] /\ First(s) = p[1]
      /\ room = effective_window(s) - (nxt - p[1])
  BY <1>1, SenderTypes
<1>3. CASE room <= 0
  <2>1. Idle(s)
    BY <1>3 DEF Idle
  <2>2. fill_turn(s) = s
    BY <1>3, ZenonT(60) DEF fill_turn
  <2> QED
    BY <2>1, <2>2
<1>4. CASE ~(room <= 0)
  <2>1. MW \in Nat /\ room \in Nat /\ room >= 1
    BY <1>2, <1>4, SenderAssumption, SMTT(60) DEF MW
  <2> HIDE DEF room
  <2>2. seg_size \in Nat /\ (s.syn_sent => seg_size >= 1)
    BY <1>2, <2>1, SMTT(60) DEF SEG!One
  <2>3. len \in Nat /\ len <= seg_size /\ (seg_size >= 1 => len >= 1)
    <3> HIDE DEF seg_size
    <3> QED
      BY <2>2, SenderAssumption DEF BS!MinOf
  <2> HIDE DEF len
  <2>4. /\ data \in Seq(Nat) /\ Len(data) <= len /\ Len(data) <= Len(st.buf)
        /\ Len(data) = len \/ Len(data) = Len(st.buf)
        /\ \A j \in 1 .. Len(data) : data[j] = st.bytes_read + j - 1
        /\ StreamOK(rest)
        /\ rest.bytes_read = st.bytes_read + Len(data)
        /\ rest.bytes_written = st.bytes_written
        /\ rest.input_ended = st.input_ended
        /\ Len(rest.buf) = Len(st.buf) - Len(data)
    <3>1. StreamOK(st)
      BY DEF SenderOK
    <3>2. len \in Nat
      BY <2>3
    <3>3. Splits(st, len, data, rest)
      BY <3>1, <3>2, ReadEffect, SMTT(60)
    <3> HIDE DEF data, rest, st
    <3> QED
      BY <3>3, ZenonT(60) DEF Splits
  <2> HIDE DEF data, rest, st
  <2>5. Len(data) \in Nat /\ rest.buf \in Seq(Nat)
    BY <2>4, SMTT(60) DEF StreamOK, Streams
  <2>6. BS!eof(rest) <=> st.input_ended /\ Len(data) = Len(st.buf)
    BY <1>2, <2>4, <2>5, SMTT(60) DEF BS!eof, BS!buffer_empty
  <2>7. fin \in BOOLEAN /\ (fin <=> ~s.fin_sent /\ st.input_ended /\ Len(data) = Len(st.buf) /\ seg_size > Len(data))
    BY <2>6
  <2> HIDE DEF seg_size, fin
  <2>8. Idle(s) <=> ~(syn \/ data # << >> \/ fin)
    <3>1. data = << >> <=> Len(data) = 0
      BY <2>4
    <3>2. st.buf = << >> <=> Len(st.buf) = 0
      BY <1>2
    <3>3. Idle(s) <=> s.syn_sent /\ st.buf = << >> /\ (st.input_ended => s.fin_sent)
      BY <1>4 DEF Idle, room, st
    <3> QED
      BY <1>2, <2>2, <2>3, <2>4, <2>5, <2>7, <3>1, <3>2, <3>3, SMTT(60)
  <2>9. CASE Idle(s)
    <3>1. fill_turn(s) = s
      BY <2>8, <2>9, ZenonT(60) DEF fill_turn, room, seg_size, len, data, rest, fin, st
    <3> QED
      BY <2>9, <3>1
  <2>10. CASE ~Idle(s)
    <3>1. Sent(s, fill_turn(s))
      <4> DEFINE L     == Length(seg)
                 out   == Append(s.segments_out, seg)
                 buf   == Append(s.retrans_buf, seg)
                 timer == IF s.timer.active THEN s.timer ELSE timer_start(s.retrans_timeout)
                 done  == s.fin_sent \/ fin
                 t     == [s EXCEPT !.stream = rest, !.syn_sent = TRUE, !.fin_sent = done,
                                    !.segments_out = out, !.retrans_buf = buf,
                                    !.next_seqno = nxt + L, !.timer = timer]
                 a     == SEG!One(s.syn_sent)
                 b     == SEG!One(syn)
                 c     == SEG!One(s.fin_sent)
                 d     == SEG!One(fin)
                 e     == SEG!One(done)
      <4>0. /\ (s.syn_sent /\ a = 1 /\ b = 0) \/ (~s.syn_sent /\ a = 0 /\ b = 1)
            /\ (s.fin_sent /\ c = 1) \/ (~s.fin_sent /\ c = 0)
            /\ (fin /\ d = 1) \/ (~fin /\ d = 0)
            /\ (done /\ e = 1) \/ (~done /\ e = 0)
            /\ SEG!One(~s.syn_sent) = b /\ SEG!One(TRUE) = 1
            /\ SEG!One(~s.fin_sent) = 1 - c /\ SEG!One(~done) = 1 - e
        BY DEF SEG!One
      <4>n. /\ a \in Nat /\ b \in Nat /\ c \in Nat /\ d \in Nat /\ e \in Nat
            /\ nxt \in Nat /\ st.bytes_read \in Nat /\ Len(data) \in Nat /\ Len(st.buf) \in Nat
        BY <1>2, <2>5, SMTT(60) DEF SEG!One
      <4>b. a + b = 1 /\ b <= 1 /\ c <= 1 /\ d <= 1
        BY <4>0, SMTT(60)
      <4> HIDE DEF a, b, c, d, e
      <4>1. seg \in Segments /\ seg.seqno = wrap(nxt, s.isn) /\ seg.syn = syn /\ seg.payload = data /\ seg.fin = fin
        <5>1. wrap(nxt, s.isn) \in WrappingInt32
          BY <1>2, WrapType
        <5>2. syn \in BOOLEAN /\ 0 \in Nat
          BY <1>2
        <5>3. seg = SEG!Segment(wrap(nxt, s.isn), syn, data, fin)
          OBVIOUS
        <5> HIDE DEF seg, syn
        <5>4. seg \in Segments
          BY <2>4, <2>7, <5>1, <5>2, <5>3, ZenonT(60) DEF Segments, SEG!Segment
        <5> QED
          BY <5>3, <5>4 DEF SEG!Segment
      <4> HIDE DEF seg
      <4>2. L = b + Len(data) + d /\ L \in Nat
        BY <4>1, LengthType DEF Length, SEG!length_in_sequence_space, b, d
      <4> HIDE DEF L
      <4>3. L >= 1 /\ L <= room
        <5>1. data # << >> => Len(data) >= 1
          BY <2>4, <2>5
        <5>2. seg_size = room - b
          BY DEF seg_size, b
        <5>3. syn => b = 1
          BY <4>0
        <5>4. fin => d = 1 /\ seg_size > Len(data)
          BY <2>7, <4>0
        <5>5. ~fin => d = 0
          BY <4>0
        <5>6. L >= 1
          BY <2>8, <2>10, <4>2, <4>n, <5>1, <5>3, <5>4, SMTT(60)
        <5>7. Len(data) <= seg_size
          BY <2>2, <2>3, <2>4, <4>n, SMTT(60)
        <5>8. L <= room
          <6>1. d = 0 \/ (d = 1 /\ seg_size > Len(data))
            BY <5>4, <5>5
          <6> QED
            BY <2>1, <2>2, <4>2, <4>n, <5>2, <5>7, <6>1, SMTT(60)
        <5> QED
          BY <5>6, <5>8, SMTT(60)
      <4>4. /\ nxt = a + st.bytes_read + c
            /\ s.fin_sent => st.input_ended /\ Len(st.buf) = 0
            /\ ~s.syn_sent => nxt = 0
            /\ st.bytes_written = st.bytes_read + Len(st.buf)
        BY DEF SenderOK, Accounted, StreamOK, BS!eof, BS!buffer_empty, st, a, c
      <4>5. Stands(seg, nxt, s.isn, rest)
        <5>1. syn <=> nxt = 0
          BY <1>2, <4>0, <4>4, SMTT(60)
        <5>2. ASSUME NEW j \in 1 .. Len(data) PROVE data[j] = nxt + b + j - 2
          <6>1. data[j] = st.bytes_read + j - 1
            BY <2>4
          <6>2. Len(st.buf) >= 1
            BY <1>2, <2>4, <2>5, SMTT(60)
          <6>3. c = 0 /\ a + b = 1
            BY <1>2, <4>0, <4>4, <6>2, SMTT(60)
          <6> QED
            BY <4>4, <4>n, <6>1, <6>3, SMTT(60)
        <5>3. fin => rest.input_ended /\ nxt + L = rest.bytes_written + 2
          <6> SUFFICES ASSUME fin PROVE rest.input_ended /\ nxt + L = rest.bytes_written + 2
            OBVIOUS
          <6>1. c = 0 /\ d = 1 /\ a + b = 1 /\ Len(data) = Len(st.buf) /\ rest.input_ended
            BY <2>4, <2>7, <4>0
          <6>2. rest.bytes_written = st.bytes_read + Len(st.buf)
            BY <2>4, <4>4
          <6>3. nxt = a + st.bytes_read + c
            BY <4>4
          <6> HIDE DEF nxt
          <6>4. nxt + L = rest.bytes_written + 2
            <7> DEFINE x == st.bytes_read
                       y == Len(st.buf)
            <7>1. x \in Nat /\ y \in Nat /\ L = b + y + 1 /\ nxt = a + x + 0
              BY <4>2, <4>n, <6>1, <6>3, SMTT(60)
            <7> HIDE DEF x, y
            <7>2. nxt + L = (x + y) + 2
              BY <4>n, <6>1, <7>1, SMTT(60)
            <7> QED
              BY <6>2, <7>2 DEF x, y
          <6> QED
            BY <6>1, <6>4
        <5>4. nxt + b + Len(data) <= rest.bytes_read + 1
          <6>1. c = 0
            <7>1. s.fin_sent => st.buf = << >>
              BY <1>2, <4>4, SMTT(60)
            <7>2. s.fin_sent => s.syn_sent
              BY <4>0, <4>4, <4>n, SMTT(60)
            <7>3. ~s.fin_sent
              BY <2>10, <7>1, <7>2 DEF Idle, st
            <7> QED
              BY <4>0, <7>3
          <6>2. rest.bytes_read = st.bytes_read + Len(data)
            BY <2>4
          <6> QED
            BY <4>4, <4>b, <4>n, <6>1, <6>2, SMTT(60)
        <5> QED
          BY <4>1, <4>3, <5>1, <5>2, <5>3, <5>4, ZenonT(60) DEF Stands, L, b
      <4>s. StreamLater(st, rest)
        BY <1>2, <2>4, <4>n, SMTT(60) DEF StreamLater
      <4>6. PICK q : Chain(buf, q, nxt + L, s.isn, rest) /\ q[1] = p[1]
        <5>1. Chain(s.retrans_buf, p, nxt, s.isn, rest)
          BY <1>1, <1>2, <4>s, ChainStream, SMTT(60) DEF st
        <5>2. (nxt + L) - p[1] <= MW
          BY <1>2, <2>1, <4>2, <4>3, SMTT(60) DEF room
        <5> QED
          BY <1>2, <4>1, <4>5, <5>1, <5>2, ChainAppend, SMTT(60) DEF L
      <4>7. fill_turn(s) = t
        BY <2>8, <2>10, <1>4, ZenonT(60)
           DEF fill_turn, room, seg_size, len, data, rest, fin, seg, st, L, Length
      <4>8. timer \in Timers /\ timer.active = TRUE
        <5>1. timer_start(s.retrans_timeout) \in Timers /\ timer_start(s.retrans_timeout).active = TRUE
          BY <1>2 DEF timer_start, Timers
        <5>2. s.timer.active \in BOOLEAN
          BY <1>2 DEF Timers
        <5> QED
          BY <1>2, <5>1, <5>2, SMTT(60)
      <4>9. out \in Seq(Segments) /\ buf \in Seq(Segments) /\ buf # << >> /\ nxt + L \in Nat /\ rest \in Streams
        <5>1. Len(buf) = Len(s.retrans_buf) + 1 /\ Len(s.retrans_buf) \in Nat
          BY <1>2, <4>1
        <5>2. buf # << >>
          <6> HIDE DEF buf
          <6> QED
            BY <5>1, SMTT(60)
        <5>3. out \in Seq(Segments) /\ buf \in Seq(Segments)
          BY <1>2, <4>1, SMTT(60)
        <5>4. rest \in Streams
          BY <2>4, SMTT(60) DEF StreamOK
        <5>5. nxt + L \in Nat
          <6> HIDE DEF out, buf, timer, done, rest
          <6> QED
            BY <1>2, <4>2, SMTT(60)
        <5> QED
          BY <5>2, <5>3, <5>4, <5>5, ZenonT(60)
      <4>10. done \in BOOLEAN
        BY <1>2, <2>7
      <4> HIDE DEF out, buf, timer, done
      <4>11. t \in Senders
        BY <1>2, <4>8, <4>9, <4>10, ZenonT(60) DEF Senders
      <4>12. /\ t.stream = rest /\ t.syn_sent = TRUE /\ t.fin_sent = done /\ t.retrans_buf = buf
             /\ t.next_seqno = nxt + L /\ t.timer = timer /\ t.window_size = s.window_size
             /\ t.retrans_timeout = s.retrans_timeout /\ t.segments_out = out /\ t.isn = s.isn
             /\ t.consec_retrans_count = s.consec_retrans_count
        BY <1>2, SMTT(60) DEF Senders
      <4> HIDE DEF t
      <4>l. Later(s, t)
        <5>1. nxt <= nxt + L
          BY <4>2, <4>n, SMTT(60)
        <5> QED
          BY <4>9, <4>12, <4>n, <4>s, <5>1, ZenonT(60) DEF Later, done, st
      <4>h. Honest(t.segments_out, t)
        <5>1. Honest(s.segments_out, t)
          BY <1>2, <4>l, HonestLater, SMTT(60) DEF SenderOK
        <5>2. Carries(seg, t)
          <6>1. nxt + L <= t.next_seqno
            BY <4>9, <4>12, SMTT(60)
          <6>2. Stands(seg, nxt, t.isn, t.stream)
            BY <4>5, <4>12, SMTT(60)
          <6> QED
            BY <4>1, <4>12, <4>n, <6>1, <6>2, ZenonT(60) DEF Carries, L
        <5> QED
          BY <1>2, <4>1, <4>12, <5>1, <5>2, HonestAppend, SMTT(60) DEF out
      <4>13. SenderOK(t)
        <5>1. Accounted(t)
          <6>1. t.next_seqno = SEG!One(t.syn_sent) + t.stream.bytes_read + SEG!One(t.fin_sent)
            <7>1. e = c + d
              BY <1>2, <2>7, <4>0 DEF done
            <7>2. nxt + L = 1 + rest.bytes_read + e
              <8>1. rest.bytes_read = st.bytes_read + Len(data)
                BY <2>4
              <8>2. nxt = a + st.bytes_read + c
                BY <4>4, SMTT(60)
              <8> HIDE DEF nxt
              <8> QED
                <9> DEFINE x == st.bytes_read
                           y == Len(data)
                <9>1. x \in Nat /\ y \in Nat /\ L = b + y + d /\ nxt = a + x + c
                  BY <4>2, <4>n, <8>2
                <9> HIDE DEF x, y
                <9>2. nxt + L = 1 + (x + y) + e
                  BY <4>b, <4>n, <7>1, <9>1, SMTT(60)
                <9> QED
                  BY <8>1, <9>2 DEF x, y
            <7> QED
              BY <4>0, <4>12, <7>2, ZenonT(60) DEF e
          <6>2. t.fin_sent => BS!eof(t.stream)
            BY <1>2, <2>4, <2>5, <2>6, <2>7, <4>4, <4>12, SMTT(60) DEF done
          <6> QED
            BY <4>12, <6>1, <6>2, SMTT(60) DEF Accounted
        <5>2. Timed(t)
          BY <4>8, <4>9, <4>12, SMTT(60) DEF Timed, SenderOK
        <5> QED
          BY <2>4, <4>6, <4>h, <4>11, <4>12, <5>1, <5>2, SMTT(60) DEF SenderOK
      <4>14. bytes_in_flight(t) <= effective_window(t) /\ First(t) = p[1]
        <5>1. bytes_in_flight(t) = (nxt + L) - p[1]
          BY <4>6, <4>11, <4>12, InFlight, SMTT(60)
        <5>2. effective_window(t) = effective_window(s)
          BY <4>12, SMTT(60) DEF effective_window
        <5> QED
          BY <1>2, <4>2, <4>3, <4>12, <5>1, <5>2, SMTT(60) DEF room, First
      <4>15. Left(t) < Left(s)
        <5>1. e = c + d
          BY <1>2, <2>7, <4>0 DEF done
        <5>2. SEG!One(~t.syn_sent) = 0 /\ SEG!One(~t.fin_sent) = 1 - e
          BY <4>0, <4>12, SMTT(60) DEF SEG!One
        <5>3. Left(s) = Len(st.buf) + b + (1 - c)
          BY <4>0, SMTT(60) DEF Left, st
        <5>4. Left(t) = (Len(st.buf) - Len(data)) + 0 + (1 - e)
          BY <2>4, <4>12, <5>2, ZenonT(60) DEF Left
        <5> QED
          BY <1>2, <2>5, <4>0, <4>2, <4>3, <5>1, <5>3, <5>4, SMTT(60)
      <4>16. Steady(s, t)
        BY <2>4, <4>12 DEF Steady, st
      <4> QED
        BY <1>2, <4>2, <4>3, <4>7, <4>l, <4>12, <4>13, <4>14, <4>15, <4>16, SMTT(60) DEF Sent
    <3> QED
      BY <2>10, <3>1, SMTT(60)
  <2> QED
    BY <2>9, <2>10
<1> QED
  BY <1>3, <1>4

\* Left counts.
LEMMA LeftType == ASSUME NEW s, SenderOK(s) PROVE Left(s) \in Nat
<1>1. Len(s.stream.buf) \in Nat
  BY DEF SenderOK, StreamOK, Streams
<1>2. SEG!One(~s.syn_sent) \in Nat /\ SEG!One(~s.fin_sent) \in Nat
  BY DEF SEG!One
<1> QED
  BY <1>1, <1>2 DEF Left

\* With nothing left there is nothing to send.
LEMMA NothingLeft == ASSUME NEW s, SenderOK(s), Left(s) <= 0 PROVE Idle(s)
<1>1. s.stream.buf \in Seq(Nat)
  BY DEF SenderOK, StreamOK, Streams
<1>2. Len(s.stream.buf) \in Nat
  BY <1>1
<1>3. /\ (s.syn_sent /\ SEG!One(~s.syn_sent) = 0) \/ (~s.syn_sent /\ SEG!One(~s.syn_sent) = 1)
      /\ (s.fin_sent /\ SEG!One(~s.fin_sent) = 0) \/ (~s.fin_sent /\ SEG!One(~s.fin_sent) = 1)
  BY DEF SEG!One
<1>4. Len(s.stream.buf) = 0 /\ s.syn_sent /\ s.fin_sent
  BY <1>2, <1>3 DEF Left
<1>5. s.stream.buf = << >>
  BY <1>1, <1>4
<1> QED
  BY <1>4, <1>5 DEF Idle

\* t is s after fill_window(): nothing is left that could be sent, and what
\* was sent is within the window.
Filled(s, t) ==
    /\ SenderOK(t) /\ t.window_size = s.window_size
    /\ Later(s, t) /\ Steady(s, t) /\ First(t) = First(s)
    /\ t.next_seqno >= s.next_seqno
    /\ t.next_seqno > s.next_seqno => bytes_in_flight(t) <= effective_window(t)

\* fill_window() sends until nothing is left or the window is full.
LEMMA FillEffect ==
    ASSUME NEW s, SenderOK(s)
    PROVE  Filled(s, fill_window(s)) /\ Idle(fill_window(s))
<1> DEFINE last == Len(s.stream.buf) + 2
           X == {x \in Senders : SenderOK(x)}
           Rec(f) == f = [k \in 0 .. last |-> IF k = 0 THEN s ELSE With(f[k - 1], fill_turn)]
           step == [k \in 1 .. last |-> [x \in X |-> fill_turn(x)]]
           g == CHOOSE f : Rec(f)
<1>1. \A x : With(x, fill_turn) = fill_turn(x)
  BY ZenonT(60) DEF With
<1>2. ASSUME NEW x \in X PROVE fill_turn(x) \in X
  <2>1. SenderOK(x)
    OBVIOUS
  <2>2. SenderOK(fill_turn(x))
    BY <2>1, TurnEffect, SMTT(60) DEF Sent
  <2> QED
    BY <2>2 DEF SenderOK
<1>3. last \in Nat /\ s \in X
  BY DEF SenderOK, StreamOK, Streams
<1> HIDE DEF X, last
<1>4. \E f : Rec(f)
  <2>1. StaysIn(X, step, last)
    BY <1>2 DEF StaysIn
  <2>2. PICK f : Iterates(f, X, s, step, last)
    <3> HIDE DEF step
    <3> QED
      BY <1>3, <2>1, RecExists
  <2>3. f \in [0 .. last -> X] /\ f[0] = s /\ \A k \in 1 .. last : f[k] = step[k][f[k - 1]]
    <3> HIDE DEF step
    <3> QED
      BY <2>2 DEF Iterates
  <2>4. ASSUME NEW k \in 0 .. last PROVE f[k] = IF k = 0 THEN s ELSE With(f[k - 1], fill_turn)
    <3>1. CASE k = 0
      BY <2>3, <3>1, SMTT(60)
    <3>2. CASE k # 0
      <4>1. k \in 1 .. last /\ k - 1 \in 0 .. last
        BY <1>3, <3>2, SMTT(60)
      <4>2. f[k - 1] \in X
        BY <2>3, <4>1, SMTT(60)
      <4>3. f[k] = fill_turn(f[k - 1])
        BY <2>3, <4>1, <4>2, ZenonT(60)
      <4>4. f[k] = With(f[k - 1], fill_turn)
        BY <1>1, <4>3, ZenonT(60)
      <4> QED
        BY <3>2, <4>4, ZenonT(60)
    <3> QED
      BY <3>1, <3>2, ZenonT(60)
  <2>5. f = [k \in 0 .. last |-> f[k]]
    BY <2>3
  <2>6. Rec(f)
    BY <2>4, <2>5, ZenonT(60)
  <2> QED
    BY <2>6, ZenonT(60)
<1>5. Rec(g)
  BY <1>4, ZenonT(60)
<1>6. fill_window(s) = g[last]
  BY ZenonT(60) DEF fill_window, last
<1>7. \A k \in 0 .. last : g[k] = IF k = 0 THEN s ELSE With(g[k - 1], fill_turn)
  BY <1>5, ZenonT(60)
<1> HIDE DEF g, Rec
<1>8. ASSUME NEW k \in 0 .. last PROVE g[k] = IF k = 0 THEN s ELSE fill_turn(g[k - 1])
  <2>1. With(g[k - 1], fill_turn) = fill_turn(g[k - 1])
    BY <1>1, ZenonT(60)
  <2> QED
    BY <1>7, <2>1, ZenonT(60)
<1> DEFINE S == {k \in 0 .. last : Filled(s, g[k]) /\ (Idle(g[k]) \/ Left(g[k]) <= last - k)}
<1>9. 0 \in S
  <2>1. g[0] = s
    BY <1>3, <1>8, SMTT(60)
  <2>2. Filled(s, s)
    <3>1. s.next_seqno \in Nat /\ s.stream.bytes_read \in Nat
      BY DEF SenderOK, Senders, StreamOK, Streams
    <3>2. Later(s, s) /\ Steady(s, s)
      BY <3>1 DEF Later, StreamLater, Steady
    <3> QED
      BY <3>1, <3>2 DEF Filled
  <2>3. Left(s) <= last - 0
    <3>1. Len(s.stream.buf) \in Nat
      BY DEF SenderOK, StreamOK, Streams
    <3>2. SEG!One(~s.syn_sent) \in 0 .. 1 /\ SEG!One(~s.fin_sent) \in 0 .. 1
      BY DEF SEG!One
    <3> QED
      BY <3>1, <3>2 DEF Left, last
  <2> QED
    BY <1>3, <2>1, <2>2, <2>3, SMTT(60)
<1>10. ASSUME NEW k \in 0 .. last - 1, k \in S PROVE k + 1 \in S
  <2> DEFINE u == g[k]
             v == g[k + 1]
  <2>1. v = fill_turn(u)
    BY <1>3, <1>8
  <2>2. Filled(s, u) /\ (Idle(u) \/ Left(u) <= last - k)
    BY <1>10
  <2>3. k + 1 \in 0 .. last
    BY <1>3
  <2> HIDE DEF u, v
  <2>4. SenderOK(u)
    BY <2>2, SMTT(60) DEF Filled
  <2>5. CASE Idle(u)
    <3>1. v = u
      BY <2>1, <2>4, <2>5, TurnEffect, SMTT(60)
    <3> QED
      BY <2>2, <2>3, <2>5, <3>1, SMTT(60) DEF v
  <2>6. CASE ~Idle(u)
    <3>1. Sent(u, v)
      BY <2>1, <2>4, <2>6, TurnEffect, SMTT(60)
    <3>2. u.next_seqno \in Nat /\ v.next_seqno \in Nat /\ s.next_seqno \in Nat
      BY <2>4, <3>1, SMTT(60) DEF Sent, SenderOK, Senders
    <3>3. Filled(s, v)
      <4>1. Later(s, v)
        BY <2>2, <3>1, LaterTwice, ZenonT(60) DEF Filled, Sent
      <4>2. Steady(s, v) /\ First(v) = First(s)
        BY <2>2, <3>1, ZenonT(60) DEF Filled, Sent, Steady
      <4> QED
        BY <2>2, <3>1, <3>2, <4>1, <4>2, SMTT(60) DEF Filled, Sent
    <3>4. Left(u) \in Nat /\ Left(v) \in Nat
      BY <2>4, <3>1, LeftType, SMTT(60) DEF Sent
    <3>5. Left(v) <= last - (k + 1)
      BY <1>3, <2>2, <2>6, <3>1, <3>4, SMTT(60) DEF Sent
    <3> QED
      BY <2>3, <3>3, <3>5, SMTT(60) DEF v
  <2> QED
    BY <2>5, <2>6, SMTT(60)
<1>11. last \in S
  <2>1. 0 .. last \subseteq S
    <3> HIDE DEF S
    <3> QED
      BY <1>3, <1>9, <1>10, IndUpTo, SMTT(60)
  <2> HIDE DEF S
  <2> QED
    BY <1>3, <2>1
<1>12. Idle(g[last])
  <2>1. Filled(s, g[last]) /\ (Idle(g[last]) \/ Left(g[last]) <= last - last)
    BY <1>11
  <2>2. SenderOK(g[last])
    BY <2>1 DEF Filled
  <2>3. CASE Left(g[last]) <= 0
    BY <2>2, <2>3, NothingLeft, SMTT(60)
  <2> QED
    BY <1>3, <2>1, <2>3
<1> QED
  BY <1>6, <1>11, <1>12
-----------------------------------------------------------------------------
\* s and t agree on what has been sent and on the stream.
Same(s, t) ==
    /\ t.retrans_buf = s.retrans_buf /\ t.next_seqno = s.next_seqno
    /\ t.stream = s.stream /\ t.syn_sent = s.syn_sent /\ t.fin_sent = s.fin_sent
    /\ t.isn = s.isn

\* A change of the timer, the window or the outbound queue leaves the rest
\* of the invariant alone.
LEMMA SameOK ==
    ASSUME NEW s, SenderOK(s), NEW t \in Senders, Same(s, t), Timed(t),
           Honest(t.segments_out, s)
    PROVE  /\ SenderOK(t) /\ bytes_in_flight(t) = bytes_in_flight(s)
           /\ Later(s, t) /\ Steady(s, t) /\ First(t) = First(s)
           /\ t.window_size = s.window_size => (Idle(t) <=> Idle(s))
<1>1. PICK p : Chain(s.retrans_buf, p, s.next_seqno, s.isn, s.stream)
  BY DEF SenderOK
<1>2. Chain(t.retrans_buf, p, t.next_seqno, t.isn, t.stream)
  BY <1>1, SMTT(60) DEF Same
<1>3. Accounted(t) /\ StreamOK(t.stream)
  BY DEF SenderOK, Accounted, Same
<1>4. bytes_in_flight(t) = bytes_in_flight(s)
  <2>1. bytes_in_flight(s) = s.next_seqno - p[1]
    BY <1>1, InFlight, SMTT(60) DEF SenderOK
  <2>2. bytes_in_flight(t) = t.next_seqno - p[1]
    BY <1>2, InFlight, SMTT(60)
  <2> QED
    BY <2>1, <2>2 DEF Same
<1>5. ASSUME t.window_size = s.window_size PROVE Idle(t) <=> Idle(s)
  <2>1. remaining_winsize(t) = remaining_winsize(s)
    BY <1>4, <1>5 DEF remaining_winsize, effective_window
  <2> QED
    BY <2>1 DEF Idle, Same
<1>6. Later(s, t) /\ Steady(s, t) /\ First(t) = First(s)
  <2>1. s.next_seqno \in Nat /\ s.stream.bytes_read \in Nat
    BY DEF SenderOK, Senders, StreamOK, Streams
  <2> QED
    BY <1>4, <2>1, SMTT(60) DEF Later, StreamLater, Steady, First, Same
<1>7. Honest(t.segments_out, t)
  <2>1. t.segments_out \in Seq(Segments)
    BY DEF Senders
  <2> QED
    BY <1>6, <2>1, HonestLater, SMTT(60)
<1> QED
  BY <1>2, <1>3, <1>4, <1>5, <1>6, <1>7, SMTT(60) DEF SenderOK

\* The owner takes over the outbound queue.
LEMMA EmptiedOK ==
    ASSUME NEW s, SenderOK(s), NEW t, t = [s EXCEPT !.segments_out = << >>]
    PROVE  /\ SenderOK(t) /\ Same(s, t) /\ t.window_size = s.window_size
           /\ t.timer = s.timer /\ t.retrans_timeout = s.retrans_timeout
           /\ t.consec_retrans_count = s.consec_retrans_count /\ t.isn = s.isn
           /\ t.initial_retransmission_timeout = s.initial_retransmission_timeout
           /\ Idle(t) <=> Idle(s)
           /\ Later(s, t) /\ Steady(s, t) /\ First(t) = First(s) /\ t.segments_out = << >>
<1>1. s \in Senders
  BY DEF SenderOK
<1>2. << >> \in Seq(Segments)
  OBVIOUS
<1>3. t \in Senders
  BY <1>1, <1>2, ZenonT(60) DEF Senders
<1>4. /\ Same(s, t) /\ t.window_size = s.window_size
      /\ t.timer = s.timer /\ t.retrans_timeout = s.retrans_timeout
      /\ t.consec_retrans_count = s.consec_retrans_count /\ t.isn = s.isn
      /\ t.initial_retransmission_timeout = s.initial_retransmission_timeout
      /\ t.segments_out = << >>
  BY <1>1 DEF Senders, Same
<1>5. Timed(t)
  BY <1>4 DEF SenderOK, Timed, Same
<1>6. Honest(t.segments_out, s)
  BY <1>4, SMTT(60) DEF Honest
<1> QED
  BY <1>3, <1>4, <1>5, <1>6, SameOK, ZenonT(60)

\* A new window.
LEMMA ToldOK ==
    ASSUME NEW s, SenderOK(s), NEW w \in 0 .. MaxWindow, NEW t, t = [s EXCEPT !.window_size = w]
    PROVE  /\ SenderOK(t) /\ Same(s, t) /\ t.window_size = w
           /\ Later(s, t) /\ Steady(s, t) /\ First(t) = First(s)
<1>1. s \in Senders
  BY DEF SenderOK
<1>2. w \in 0 .. MW
  BY SenderAssumption DEF MW
<1>3. t \in Senders
  BY <1>1, <1>2, ZenonT(60) DEF Senders
<1>4. /\ Same(s, t) /\ t.window_size = w /\ t.segments_out = s.segments_out
      /\ t.timer = s.timer /\ t.retrans_timeout = s.retrans_timeout
      /\ t.consec_retrans_count = s.consec_retrans_count
  BY <1>1 DEF Senders, Same
<1>5. Timed(t)
  BY <1>4 DEF SenderOK, Timed, Same
<1>6. Honest(t.segments_out, s)
  BY <1>4 DEF SenderOK
<1>7. SenderOK(t) /\ Later(s, t) /\ Steady(s, t) /\ First(t) = First(s)
  BY <1>3, <1>4, <1>5, <1>6, SameOK, ZenonT(60)
<1> QED
  BY <1>4, <1>7

\* An acknowledgment covers some number of segments at the front.
LEMMA AckedExists ==
    ASSUME NEW s \in Senders, NEW a
    PROVE  /\ acked_segments(s, a) \in 0 .. Len(s.retrans_buf)
           /\ \A i \in 1 .. acked_segments(s, a) :
                 unwrap(s.retrans_buf[i].seqno, s.isn, s.next_seqno) + Length(s.retrans_buf[i]) <= a
<1> DEFINE acked(seg) == unwrap(seg.seqno, s.isn, s.next_seqno)
                           + SEG!length_in_sequence_space(seg) <= a
           n == Len(s.retrans_buf)
           Cut(k) == /\ \A i \in 1 .. k : acked(s.retrans_buf[i])
                     /\ k < n => ~acked(s.retrans_buf[k + 1])
           T == {k \in 0 .. n : k < n => ~acked(s.retrans_buf[k + 1])}
<1>1. n \in Nat
  BY DEF Senders
<1>2. acked_segments(s, a) = CHOOSE k \in 0 .. n : Cut(k)
  BY ZenonT(60) DEF acked_segments
<1> HIDE DEF acked, n
<1>3. n \in T /\ T \in SUBSET Nat
  BY <1>1
<1>4. PICK m \in T : \A k \in T : m <= k
  <2> HIDE DEF T
  <2> QED
    BY <1>3, LeastNat
<1>5. ASSUME NEW i \in 1 .. m PROVE acked(s.retrans_buf[i])
  <2>1. i - 1 \in 0 .. n /\ ~(m <= i - 1) /\ (i - 1) + 1 = i
    BY <1>1, <1>4, SMTT(60)
  <2>2. ~(i - 1 \in T)
    BY <1>4, <2>1
  <2> QED
    BY <2>1, <2>2
<1>6. Cut(m) /\ m \in 0 .. n
  BY <1>4, <1>5
<1> DEFINE j == CHOOSE k \in 0 .. n : Cut(k)
<1>7. j \in 0 .. n /\ Cut(j)
  <2> HIDE DEF Cut
  <2> QED
    BY <1>6, ZenonT(60)
<1> HIDE DEF j
<1>8. acked_segments(s, a) = j
  BY <1>2 DEF j
<1>9. \A i \in 1 .. j : acked(s.retrans_buf[i])
  BY <1>7
<1> QED
  BY <1>7, <1>8, <1>9, ZenonT(60) DEF n, acked, Length

\* A chain without its first n segments is a chain.
LEMMA ChainCut ==
    ASSUME NEW buf \in Seq(Segments), NEW p, NEW nxt \in Nat, NEW isn, NEW st, Chain(buf, p, nxt, isn, st),
           NEW n \in 0 .. Len(buf)
    PROVE  /\ SubSeq(buf, n + 1, Len(buf)) \in Seq(Segments)
           /\ \E q : Chain(SubSeq(buf, n + 1, Len(buf)), q, nxt, isn, st) /\ q[1] = p[n + 1]
<1> DEFINE m == Len(buf)
           new == SubSeq(buf, n + 1, m)
           q == [i \in 1 .. (m - n) + 1 |-> p[i + n]]
<1>1. m \in Nat /\ n \in 0 .. m
  OBVIOUS
<1>2. new \in Seq(Segments) /\ Len(new) = m - n /\ \A j \in 1 .. m - n : new[j] = buf[n + j]
  <2>1. LastPart(Segments, buf, n, new)
    BY CutSeq, ZenonT(60)
  <2> HIDE DEF new
  <2> QED
    BY <2>1, ZenonT(60) DEF LastPart
<1>3. /\ p \in [1 .. m + 1 -> Nat] /\ p[m + 1] = nxt /\ nxt - p[1] <= MW
      /\ \A i \in 1 .. m : Stands(buf[i], p[i], isn, st) /\ p[i + 1] = p[i] + Length(buf[i])
  BY DEF Chain
<1>4. \A i \in 1 .. m + 1 : p[i] \in Nat /\ p[1] <= p[i] /\ p[i] <= nxt
  BY ChainGrows, SMTT(60)
<1> HIDE DEF m, new
<1>5. q \in [1 .. Len(new) + 1 -> Nat] /\ q[Len(new) + 1] = nxt
  <2>1. \A i \in 1 .. (m - n) + 1 : i + n \in 1 .. m + 1 /\ p[i + n] \in Nat
    BY <1>1, <1>3, SMTT(60)
  <2>2. q \in [1 .. (m - n) + 1 -> Nat]
    BY <2>1, SMTT(60)
  <2>3. ((m - n) + 1) + n = m + 1 /\ (m - n) + 1 \in 1 .. (m - n) + 1
    BY <1>1, SMTT(60)
  <2>4. q[(m - n) + 1] = nxt
    BY <1>3, <2>3, SMTT(60)
  <2> QED
    BY <1>2, <2>2, <2>4, SMTT(60)
<1>6. nxt - q[1] <= MW /\ q[1] = p[n + 1]
  <2>1. 1 + n \in 1 .. m + 1 /\ 1 \in 1 .. (m - n) + 1 /\ 1 \in 1 .. m + 1
    BY <1>1, SMTT(60)
  <2>2. q[1] = p[1 + n] /\ p[1] <= p[1 + n] /\ p[1] \in Nat /\ p[1 + n] \in Nat /\ 1 + n = n + 1
    BY <1>1, <1>4, <2>1, SMTT(60)
  <2>3. MW \in Nat
    BY SenderAssumption, SMTT(60) DEF MW
  <2> QED
    BY <1>3, <2>2, <2>3, SMTT(60)
<1>7. ASSUME NEW i \in 1 .. Len(new)
      PROVE  Stands(new[i], q[i], isn, st) /\ q[i + 1] = q[i] + Length(new[i])
  <2>1. i \in 1 .. m - n /\ n + i \in 1 .. m /\ (n + i) + 1 = (i + 1) + n /\ n + i = i + n
    BY <1>1, <1>2, SMTT(60)
  <2>2. q[i] = p[n + i] /\ q[i + 1] = p[(n + i) + 1]
    BY <1>1, <2>1, SMTT(60)
  <2>3. new[i] = buf[n + i]
    BY <1>2, <2>1, SMTT(60)
  <2>4. Stands(buf[n + i], p[n + i], isn, st) /\ p[(n + i) + 1] = p[n + i] + Length(buf[n + i])
    BY <1>3, <2>1
  <2> QED
    BY <2>2, <2>3, <2>4, SMTT(60)
<1> HIDE DEF q
<1>8. Chain(new, q, nxt, isn, st)
  BY <1>5, <1>6, <1>7, ChainIntro, ZenonT(60)
<1> QED
  BY <1>2, <1>6, <1>8, ZenonT(60) DEF new, m

\* The timer started and stopped.
LEMMA TimerTypes ==
    /\ timer_reset \in Timers /\ timer_reset.active = FALSE
    /\ \A rto \in Nat : timer_start(rto) \in Timers /\ timer_start(rto).active = TRUE
BY DEF timer_reset, timer_start, Timers

\* ack_received() erases n segments.
LEMMA EraseOK ==
    ASSUME NEW s, SenderOK(s), NEW p, Chain(s.retrans_buf, p, s.next_seqno, s.isn, s.stream),
           NEW n \in 0 .. Len(s.retrans_buf), NEW t, t = erase_acked(s, n)
    PROVE  /\ SenderOK(t) /\ t.window_size = s.window_size /\ t.next_seqno = s.next_seqno
           /\ Later(s, t) /\ Steady(s, t) /\ First(t) = p[n + 1]
<1> DEFINE buf == SubSeq(s.retrans_buf, n + 1, Len(s.retrans_buf))
           rto == s.initial_retransmission_timeout
<1>1. /\ s \in Senders /\ s.timer \in Timers /\ s.retrans_buf \in Seq(Segments)
      /\ s.next_seqno \in Nat /\ First(s) = p[1] /\ s.segments_out \in Seq(Segments)
      /\ s.stream.bytes_read \in Nat
  BY SenderTypes, ZenonT(60)
<1>2. rto = RtTimeout /\ rto \in Nat
  BY <1>1, SenderAssumption, SMTT(60) DEF Senders
<1>3. /\ buf \in Seq(Segments)
      /\ \E q : Chain(buf, q, s.next_seqno, s.isn, s.stream) /\ q[1] = p[n + 1]
  BY <1>1, ChainCut, SMTT(60)
<1>4. Timed(s) /\ Accounted(s) /\ StreamOK(s.stream) /\ Honest(s.segments_out, s)
  BY ZenonT(60) DEF SenderOK
<1>5. CASE n = 0
  <2> DEFINE timer == IF s.retrans_buf = << >> THEN timer_reset ELSE s.timer
  <2>1. buf = s.retrans_buf
    BY <1>1, <1>5, SMTT(60)
  <2>2. t = [s EXCEPT !.timer = timer]
    BY <1>5, <2>1, ZenonT(60) DEF erase_acked
  <2>3. timer \in Timers /\ (timer.active <=> s.retrans_buf # << >>)
    BY <1>1, <1>4, TimerTypes, SMTT(60) DEF Timed
  <2> HIDE DEF timer
  <2>4. t \in Senders
    BY <1>1, <2>2, <2>3, ZenonT(60) DEF Senders
  <2>5. /\ Same(s, t) /\ t.window_size = s.window_size /\ t.timer = timer
        /\ t.retrans_timeout = s.retrans_timeout /\ t.segments_out = s.segments_out
        /\ t.consec_retrans_count = s.consec_retrans_count
    BY <1>1, <2>2, SMTT(60) DEF Senders, Same
  <2>6. Timed(t)
    BY <1>4, <2>3, <2>5, SMTT(60) DEF Timed, Same
  <2>7. Honest(t.segments_out, s) /\ n + 1 = 1
    BY <1>4, <1>5, <2>5, SMTT(60)
  <2> QED
    BY <1>1, <2>4, <2>5, <2>6, <2>7, SameOK, SMTT(60) DEF Same
<1>6. CASE n # 0
  <2> DEFINE timer == IF buf = << >> THEN timer_reset ELSE timer_start(rto)
  <2>1. t = [s EXCEPT !.retrans_buf = buf, !.retrans_timeout = rto,
                      !.consec_retrans_count = 0, !.timer = timer]
    BY <1>6, ZenonT(60) DEF erase_acked
  <2>2. timer \in Timers /\ (timer.active <=> buf # << >>)
    BY <1>2, TimerTypes, SMTT(60)
  <2>3. 0 \in Nat
    OBVIOUS
  <2> HIDE DEF timer, buf, rto
  <2>4. t \in Senders
    BY <1>1, <1>2, <1>3, <2>1, <2>2, <2>3, ZenonT(60) DEF Senders
  <2>5. /\ t.retrans_buf = buf /\ t.retrans_timeout = rto /\ t.consec_retrans_count = 0
        /\ t.timer = timer /\ t.window_size = s.window_size /\ t.next_seqno = s.next_seqno
        /\ t.stream = s.stream /\ t.syn_sent = s.syn_sent /\ t.fin_sent = s.fin_sent
        /\ t.segments_out = s.segments_out /\ t.isn = s.isn
    BY <1>1, <2>1, SMTT(60) DEF Senders
  <2>6. Doubled(RtTimeout, 0) = RtTimeout
    BY DoubledSteps, SenderAssumption, SMTT(60)
  <2>7. Timed(t)
    BY <1>2, <2>2, <2>5, <2>6, SMTT(60) DEF Timed
  <2>8. Accounted(t)
    BY <1>4, <2>5, SMTT(60) DEF Accounted
  <2>9. Later(s, t) /\ Steady(s, t)
    BY <1>1, <2>5, SMTT(60) DEF Later, StreamLater, Steady
  <2>10. Honest(t.segments_out, t)
    BY <1>1, <1>4, <2>5, <2>9, HonestLater, SMTT(60)
  <2>11. PICK q : Chain(t.retrans_buf, q, t.next_seqno, t.isn, t.stream) /\ q[1] = p[n + 1]
    BY <1>3, <2>5, SMTT(60)
  <2>12. SenderOK(t)
    BY <1>4, <2>4, <2>5, <2>7, <2>8, <2>10, <2>11, SMTT(60) DEF SenderOK
  <2>13. First(t) = q[1]
    BY <2>11, <2>12, SenderTypes, ZenonT(60)
  <2> QED
    BY <2>5, <2>9, <2>11, <2>12, <2>13, SMTT(60)
<1> QED
  BY <1>5, <1>6, SMTT(60)

\* The positions that unwrap() finds are those of the chain.
LEMMA Positions ==
    ASSUME NEW s, SenderOK(s), NEW p, Chain(s.retrans_buf, p, s.next_seqno, s.isn, s.stream)
    PROVE  \A i \in 1 .. Len(s.retrans_buf) :
              unwrap(s.retrans_buf[i].seqno, s.isn, s.next_seqno) = p[i]
<1> DEFINE buf == s.retrans_buf
           nxt == s.next_seqno
<1>1. s.isn \in WrappingInt32 /\ nxt \in Nat /\ buf \in Seq(Segments)
  BY DEF SenderOK, Senders
<1>2. Len(buf) \in Nat /\ \A i \in 1 .. Len(buf) + 1 : p[i] \in Nat /\ p[1] <= p[i] /\ p[i] <= nxt
  BY <1>1, ChainGrows, SMTT(60)
<1>3. ASSUME NEW i \in 1 .. Len(buf) PROVE unwrap(buf[i].seqno, s.isn, nxt) = p[i]
  <2>1. buf[i].seqno = wrap(p[i], s.isn)
    BY SMTT(60) DEF Chain, Stands
  <2>2. nxt - p[1] <= MW
    BY DEF Chain
  <2>3. MW \in Nat /\ 2 * MW < Base /\ Base \in Nat
    BY SenderAssumption, WrappingAssumption, SMTT(60) DEF MW
  <2>4. p[i] \in Nat /\ p[1] \in Nat /\ p[1] <= p[i] /\ p[i] <= nxt
    <3>1. i \in 1 .. Len(buf) + 1 /\ 1 \in 1 .. Len(buf) + 1
      BY <1>2
    <3> QED
      BY <1>2, <3>1, SMTT(60)
  <2>5. 2 * (nxt - p[i]) < Base /\ 2 * (p[i] - nxt) < Base
    BY <1>1, <2>2, <2>3, <2>4, SMTT(60)
  <2>6. unwrap(wrap(p[i], s.isn), s.isn, nxt) = p[i]
    BY <1>1, <2>4, <2>5, Unwraps, SMTT(60)
  <2> QED
    BY <2>1, <2>6, SMTT(60)
<1> QED
  BY <1>3, SMTT(60)

\* ack_received() keeps the invariant; unless it rejects the acknowledgment,
\* it fills the window.
LEMMA AckEffect ==
    ASSUME NEW s, SenderOK(s), NEW ackno, NEW w \in 0 .. MaxWindow,
           NEW t, t = ack_received(s, ackno, w)
    PROVE  /\ SenderOK(t) /\ t.window_size = w /\ t.next_seqno >= s.next_seqno
           /\ t.next_seqno > s.next_seqno => bytes_in_flight(t) <= effective_window(t)
           /\ ~(unwrap(ackno, s.isn, s.next_seqno) > s.next_seqno) => Idle(t)
           /\ Later(s, t) /\ Steady(s, t)
           /\ First(t) = First(s) \/ First(t) <= unwrap(ackno, s.isn, s.next_seqno)
<1> DEFINE told == [s EXCEPT !.window_size = w]
           a == unwrap(ackno, s.isn, s.next_seqno)
           n == acked_segments(told, a)
           u == erase_acked(told, n)
<1>1. /\ SenderOK(told) /\ Same(s, told) /\ told.window_size = w
      /\ Later(s, told) /\ Steady(s, told) /\ First(told) = First(s)
  BY ToldOK
<1>2. s.next_seqno \in Nat
  BY DEF SenderOK, Senders
<1>3. CASE a > s.next_seqno
  <2>1. t = told
    BY <1>3, ZenonT(60) DEF ack_received
  <2> QED
    BY <1>1, <1>2, <1>3, <2>1, SMTT(60) DEF Same
<1>4. CASE ~(a > s.next_seqno)
  <2>1. \A x : With(x, fill_window) = fill_window(x)
    BY ZenonT(60) DEF With
  <2>2. t = With(u, fill_window)
    BY <1>4, ZenonT(60) DEF ack_received
  <2>3. t = fill_window(u)
    BY <2>1, <2>2, ZenonT(60)
  <2> HIDE DEF told, a
  <2>4. /\ n \in 0 .. Len(told.retrans_buf)
        /\ \A i \in 1 .. n : unwrap(told.retrans_buf[i].seqno, told.isn, told.next_seqno)
                               + Length(told.retrans_buf[i]) <= a
    <3>1. told \in Senders
      BY <1>1, ZenonT(60) DEF SenderOK
    <3> QED
      BY <3>1, AckedExists, ZenonT(60)
  <2> HIDE DEF n
  <2>5. PICK p : Chain(told.retrans_buf, p, told.next_seqno, told.isn, told.stream)
    BY <1>1 DEF SenderOK
  <2>6. /\ SenderOK(u) /\ u.window_size = w /\ u.next_seqno = s.next_seqno
        /\ Later(told, u) /\ Steady(told, u) /\ First(u) = p[n + 1]
    <3>1. n \in 0 .. Len(told.retrans_buf) /\ SenderOK(told)
      BY <1>1, <2>4, ZenonT(60)
    <3>2. PICK v : v = u
      OBVIOUS
    <3>3. /\ SenderOK(v) /\ v.window_size = told.window_size
          /\ v.next_seqno = told.next_seqno
          /\ Later(told, v) /\ Steady(told, v) /\ First(v) = p[n + 1]
      BY <2>5, <3>1, <3>2, EraseOK, ZenonT(60)
    <3> QED
      BY <1>1, <3>2, <3>3, ZenonT(60) DEF Same
  <2> HIDE DEF u
  <2>7. Filled(u, t) /\ Idle(t)
    BY <2>3, <2>6, FillEffect, SMTT(60)
  <2>8. Later(s, t)
    <3>1. Later(s, u)
      BY <1>1, <2>6, LaterTwice, ZenonT(60)
    <3> QED
      BY <2>7, <3>1, LaterTwice, ZenonT(60) DEF Filled
  <2>9. Steady(s, t)
    BY <1>1, <2>6, <2>7 DEF Steady, Filled
  <2>10. p[n + 1] = First(s) \/ p[n + 1] <= a
    <3>1. CASE n = 0
      <4>1. First(told) = p[1]
        BY <1>1, <2>5, SenderTypes, ZenonT(60)
      <4> QED
        BY <1>1, <3>1, <4>1, SMTT(60)
    <3>2. CASE n # 0
      <4>1. n \in 1 .. Len(told.retrans_buf) /\ n \in 1 .. n
        BY <2>4, <3>2, SMTT(60)
      <4>2. p[n + 1] = p[n] + Length(told.retrans_buf[n])
        BY <2>5, <4>1, SMTT(60) DEF Chain
      <4>3. unwrap(told.retrans_buf[n].seqno, told.isn, told.next_seqno) = p[n]
        BY <1>1, <2>5, <4>1, Positions, SMTT(60)
      <4> QED
        BY <2>4, <4>1, <4>2, <4>3, SMTT(60)
    <3> QED
      BY <3>1, <3>2
  <2>11. First(t) = p[n + 1]
    BY <2>6, <2>7 DEF Filled
  <2>12. First(t) = First(s) \/ First(t) <= a
    BY <2>10, <2>11
  <2> QED
    BY <2>6, <2>7, <2>8, <2>9, <2>12, ZenonT(60) DEF Filled, a
<1> QED
  BY <1>3, <1>4, SMTT(60)

\* tick() keeps the invariant and sends nothing new.
LEMMA TickEffect ==
    ASSUME NEW s, SenderOK(s), NEW ms \in Nat, NEW t, t = tick(s, ms)
    PROVE  /\ SenderOK(t) /\ Same(s, t) /\ (Idle(t) <=> Idle(s))
           /\ Later(s, t) /\ Steady(s, t) /\ First(t) = First(s)
<1> DEFINE timer == IF s.timer.active THEN timer_update(s.timer, ms) ELSE s.timer
           back_off == s.window_size > 0
           rto == IF back_off THEN 2 * s.retrans_timeout ELSE s.retrans_timeout
           one == SEG!One(back_off)
           out == Append(s.segments_out, s.retrans_buf[1])
           count == s.consec_retrans_count + one
<1>1. /\ s \in Senders /\ s.timer \in Timers /\ s.retrans_timeout \in Nat
      /\ s.consec_retrans_count \in Nat /\ s.retrans_buf \in Seq(Segments)
      /\ s.segments_out \in Seq(Segments) /\ Timed(s) /\ Honest(s.segments_out, s)
  BY DEF SenderOK, Senders
<1>2. /\ s.timer.active \in BOOLEAN /\ s.timer.expired \in BOOLEAN
      /\ s.timer.current_time \in Nat /\ s.timer.timeout \in Nat
  BY <1>1, ZenonT(60) DEF Timers
<1>3. timer \in Timers /\ timer.active = s.timer.active
  <2> DEFINE now == s.timer.current_time + ms
             late == s.timer.expired \/ now >= s.timer.timeout
             up == [s.timer EXCEPT !.current_time = now, !.expired = late]
  <2>1. timer_update(s.timer, ms) = up
    BY ZenonT(60) DEF timer_update
  <2>2. now \in Nat /\ late \in BOOLEAN
    BY <1>2
  <2> HIDE DEF now, late
  <2>3. up \in Timers
    BY <1>1, <2>2, ZenonT(60) DEF Timers
  <2>4. up.active = s.timer.active
    BY <1>1 DEF Timers
  <2> HIDE DEF up
  <2> QED
    BY <1>1, <2>1, <2>3, <2>4, SMTT(60)
<1>4. CASE ~timer_expired(timer)
  <2>1. t = [s EXCEPT !.timer = timer]
    BY <1>4, ZenonT(60) DEF tick
  <2> HIDE DEF timer
  <2>2. t \in Senders
    BY <1>1, <1>3, <2>1, ZenonT(60) DEF Senders
  <2>3. /\ Same(s, t) /\ t.window_size = s.window_size /\ t.timer = timer
        /\ t.retrans_timeout = s.retrans_timeout /\ t.segments_out = s.segments_out
        /\ t.consec_retrans_count = s.consec_retrans_count
    BY <1>1, <2>1, SMTT(60) DEF Senders, Same
  <2>4. Timed(t)
    BY <1>1, <1>3, <2>3, SMTT(60) DEF Timed, Same
  <2> QED
    BY <1>1, <2>2, <2>3, <2>4, SameOK, SMTT(60)
<1>5. CASE timer_expired(timer)
  <2>1. t = [s EXCEPT !.segments_out = out, !.consec_retrans_count = count,
                      !.retrans_timeout = rto, !.timer = timer_start(rto)]
    BY <1>5, ZenonT(60) DEF tick
  <2>2. s.timer.active
    BY <1>2, <1>3, <1>5, SMTT(60) DEF timer_expired
  <2>3. s.retrans_buf # << >>
    BY <1>1, <2>2, SMTT(60) DEF Timed
  <2>4. out \in Seq(Segments)
    BY <1>1, <2>3, SMTT(60)
  <2>5. rto \in Nat /\ count \in Nat /\ rto = Doubled(RtTimeout, count)
    <3>1. s.retrans_timeout = Doubled(RtTimeout, s.consec_retrans_count)
      BY <1>1, SMTT(60) DEF Timed
    <3>2. Doubled(RtTimeout, s.consec_retrans_count + 1) = 2 * Doubled(RtTimeout, s.consec_retrans_count)
      BY <1>1, DoubledSteps, SenderAssumption, ZenonT(60)
    <3>3. CASE back_off
      <4>1. one = 1 /\ rto = 2 * s.retrans_timeout
        BY <3>3, SMTT(60) DEF SEG!One
      <4> HIDE DEF one, rto
      <4> QED
        BY <1>1, <3>1, <3>2, <4>1, SMTT(60)
    <3>4. CASE ~back_off
      <4>1. one = 0 /\ rto = s.retrans_timeout
        BY <3>4, SMTT(60) DEF SEG!One
      <4>2. count = s.consec_retrans_count
        BY <1>1, <4>1, SMTT(60)
      <4> HIDE DEF one, rto, count
      <4> QED
        BY <1>1, <3>1, <4>1, <4>2, SMTT(60)
    <3> QED
      BY <3>3, <3>4, SMTT(60)
  <2>6. timer_start(rto) \in Timers /\ timer_start(rto).active = TRUE
    BY <2>5, TimerTypes
  <2> HIDE DEF out, count, rto
  <2>7. t \in Senders
    BY <1>1, <2>1, <2>4, <2>5, <2>6, ZenonT(60) DEF Senders
  <2>8. /\ Same(s, t) /\ t.window_size = s.window_size /\ t.timer = timer_start(rto)
        /\ t.retrans_timeout = rto /\ t.consec_retrans_count = count /\ t.segments_out = out
    BY <1>1, <2>1, SMTT(60) DEF Senders, Same
  <2>9. Timed(t)
    BY <2>3, <2>5, <2>6, <2>8, SMTT(60) DEF Timed, Same
  <2>10. Honest(out, s)
    <3>1. PICK p : Chain(s.retrans_buf, p, s.next_seqno, s.isn, s.stream)
      BY DEF SenderOK
    <3> DEFINE seg == s.retrans_buf[1]
    <3>2. 1 \in 1 .. Len(s.retrans_buf) /\ 1 + 1 = 2 /\ 2 \in 1 .. Len(s.retrans_buf) + 1
      BY <1>1, <2>3, SMTT(60)
    <3>3. seg \in Segments
      BY <1>1, <3>2, SMTT(60)
    <3>4. /\ Stands(seg, p[1], s.isn, s.stream) /\ p[2] = p[1] + Length(seg)
          /\ p[1] \in Nat
      BY <3>1, <3>2, SMTT(60) DEF Chain
    <3>5. p[2] <= s.next_seqno
      <4>1. s.next_seqno \in Nat
        BY <1>1 DEF Senders
      <4> QED
        BY <1>1, <3>1, <3>2, <4>1, ChainGrows, SMTT(60)
    <3> HIDE DEF seg
    <3>6. Carries(seg, s)
      <4>1. seg.seqno = wrap(p[1], s.isn)
        BY <3>4 DEF Stands
      <4>2. p[1] + Length(seg) <= s.next_seqno
        BY <3>4, <3>5, SMTT(60)
      <4> QED
        BY <3>4, <4>1, <4>2, ZenonT(60) DEF Carries
    <3> QED
      BY <1>1, <3>3, <3>6, HonestAppend, SMTT(60) DEF out, seg
  <2> QED
    BY <2>7, <2>8, <2>9, <2>10, SameOK, SMTT(60)
<1> QED
  BY <1>4, <1>5, SMTT(60)

\* send_empty_segment() takes no sequence number.
LEMMA SendEmptyEffect ==
    ASSUME NEW s, SenderOK(s), NEW rst \in BOOLEAN,
           NEW t, t = send_empty_segment(s, FALSE, FALSE, rst)
    PROVE  /\ SenderOK(t) /\ Same(s, t) /\ (Idle(t) <=> Idle(s))
           /\ Later(s, t) /\ Steady(s, t) /\ First(t) = First(s)
<1> DEFINE seg0 == SEG!Segment(wrap(s.next_seqno, s.isn), FALSE, << >>, FALSE)
           seg == [seg0 EXCEPT !.rst = rst]
           out == Append(s.segments_out, seg)
<1>1. /\ s \in Senders /\ s.isn \in WrappingInt32 /\ s.next_seqno \in Nat /\ s.segments_out \in Seq(Segments)
      /\ s.syn_sent \in BOOLEAN /\ s.fin_sent \in BOOLEAN /\ Timed(s)
      /\ Honest(s.segments_out, s)
  BY DEF SenderOK, Senders
<1>2. seg \in Segments /\ Length(seg) = 0 /\ seg.seqno = wrap(s.next_seqno, s.isn)
  <2>1. wrap(s.next_seqno, s.isn) \in WrappingInt32 /\ << >> \in Seq(Nat) /\ 0 \in Nat
    BY <1>1, WrapType, SMTT(60)
  <2>2. seg0 \in Segments
    BY <2>1, ZenonT(60) DEF Segments, SEG!Segment
  <2>3. /\ seg0.syn = FALSE /\ seg0.payload = << >> /\ seg0.fin = FALSE
        /\ seg0.seqno = wrap(s.next_seqno, s.isn)
    BY DEF SEG!Segment
  <2> HIDE DEF seg0
  <2>4. seg \in Segments
    BY <2>2, ZenonT(60) DEF Segments
  <2>5. /\ seg.syn = FALSE /\ seg.payload = << >> /\ seg.fin = FALSE
        /\ seg.seqno = wrap(s.next_seqno, s.isn)
    BY <2>2, <2>3, SMTT(60) DEF Segments
  <2> HIDE DEF seg
  <2> QED
    BY <2>4, <2>5, SMTT(60) DEF Length, SEG!length_in_sequence_space, SEG!One
<1>3. t = [s EXCEPT !.syn_sent = @ \/ FALSE, !.fin_sent = @ \/ FALSE,
                    !.next_seqno = @ + Length(seg), !.segments_out = out]
  BY ZenonT(60) DEF send_empty_segment, Length
<1> HIDE DEF seg
<1>4. out \in Seq(Segments) /\ Honest(out, s)
  <2>1. s.next_seqno + Length(seg) <= s.next_seqno
    BY <1>1, <1>2, SMTT(60)
  <2>2. Carries(seg, s)
    BY <1>1, <1>2, <2>1, ZenonT(60) DEF Carries
  <2> QED
    BY <1>1, <1>2, <2>2, HonestAppend, SMTT(60)
<1>5. s.next_seqno + Length(seg) = s.next_seqno
  BY <1>1, <1>2, SMTT(60)
<1>6. (s.syn_sent \/ FALSE) = s.syn_sent /\ (s.fin_sent \/ FALSE) = s.fin_sent
  BY <1>1
<1> HIDE DEF out
<1>7. t = [s EXCEPT !.syn_sent = s.syn_sent, !.fin_sent = s.fin_sent,
                    !.next_seqno = s.next_seqno, !.segments_out = out]
  BY <1>3, <1>5, <1>6, ZenonT(60)
<1>8. t \in Senders
  BY <1>1, <1>4, <1>7, ZenonT(60) DEF Senders
<1>9. /\ Same(s, t) /\ t.window_size = s.window_size /\ t.timer = s.timer
      /\ t.retrans_timeout = s.retrans_timeout
      /\ t.consec_retrans_count = s.consec_retrans_count /\ t.segments_out = out
  BY <1>1, <1>7, ZenonT(60) DEF Senders, Same
<1>10. Timed(t)
  BY <1>1, <1>9, ZenonT(60) DEF Timed, Same
<1>11. Honest(t.segments_out, s)
  BY <1>4, <1>9
<1> QED
  BY <1>8, <1>9, <1>10, <1>11, SameOK, ZenonT(60)

\* The writer has changed the stream.
LEMMA NewStreamOK ==
    ASSUME NEW s, SenderOK(s), NEW st, StreamOK(st), st.bytes_read = s.stream.bytes_read,
           BS!eof(s.stream) => BS!eof(st),
           s.stream.input_ended => st.input_ended /\ st.bytes_written = s.stream.bytes_written,
           NEW t, t = [s EXCEPT !.stream = st]
    PROVE  /\ SenderOK(t) /\ t.next_seqno = s.next_seqno /\ t.stream = st
           /\ Later(s, t) /\ First(t) = First(s)
           /\ t.segments_out = s.segments_out /\ t.window_size = s.window_size
<1>1. /\ s \in Senders /\ st \in Streams /\ Timed(s) /\ Accounted(s)
      /\ Honest(s.segments_out, s) /\ s.segments_out \in Seq(Segments)
      /\ s.retrans_buf \in Seq(Segments) /\ s.next_seqno \in Nat /\ s.stream.bytes_read \in Nat
  BY DEF SenderOK, StreamOK, Senders, Streams
<1>2. t \in Senders
  BY <1>1, ZenonT(60) DEF Senders
<1>3. /\ t.stream = st /\ t.retrans_buf = s.retrans_buf /\ t.next_seqno = s.next_seqno
      /\ t.syn_sent = s.syn_sent /\ t.fin_sent = s.fin_sent /\ t.timer = s.timer
      /\ t.retrans_timeout = s.retrans_timeout /\ t.isn = s.isn
      /\ t.consec_retrans_count = s.consec_retrans_count
      /\ t.segments_out = s.segments_out /\ t.window_size = s.window_size
  BY <1>1 DEF Senders
<1>4. Timed(t) /\ Accounted(t)
  BY <1>1, <1>3 DEF Timed, Accounted
<1>5. PICK p : Chain(s.retrans_buf, p, s.next_seqno, s.isn, s.stream)
  BY DEF SenderOK
<1>6. StreamLater(s.stream, st)
  BY <1>1 DEF StreamLater
<1>7. Chain(t.retrans_buf, p, t.next_seqno, t.isn, t.stream)
  BY <1>1, <1>3, <1>5, <1>6, ChainStream, SMTT(60)
<1>8. Later(s, t)
  BY <1>1, <1>3, <1>6, SMTT(60) DEF Later
<1>9. Honest(t.segments_out, t)
  BY <1>1, <1>3, <1>8, HonestLater, SMTT(60)
<1>10. SenderOK(t)
  BY <1>2, <1>3, <1>4, <1>7, <1>9, SMTT(60) DEF SenderOK
<1>11. First(t) = First(s)
  BY <1>5, <1>7, <1>10, SenderTypes, ZenonT(60)
<1> QED
  BY <1>3, <1>8, <1>10, <1>11, SMTT(60)

\* write() takes the front of the data, as much as there is room for.
LEMMA WriteStream ==
    ASSUME NEW st, StreamOK(st), NEW len \in Nat, NEW new,
           new = BS!write(st, [i \in 1 .. len |-> st.bytes_written + i - 1])
    PROVE  /\ StreamOK(new) /\ new.bytes_read = st.bytes_read
           /\ new.bytes_written <= st.bytes_written + len /\ new.input_ended = st.input_ended
           /\ new.error = st.error
           /\ BS!eof(st) => BS!eof(new)
           /\ st.input_ended => new.input_ended /\ new.bytes_written = st.bytes_written
<1> DEFINE data == [i \in 1 .. len |-> st.bytes_written + i - 1]
           n == BS!write_size(st, data)
           part == SubSeq(data, 1, n)
           buf == st.buf \o part
           m == Len(st.buf)
           w == st.bytes_written + n
<1>1. /\ st \in Streams /\ st.buf \in Seq(Nat) /\ m \in Nat /\ st.bytes_read \in Nat
      /\ m <= st.capacity /\ st.bytes_written = st.bytes_read + m
      /\ st.capacity \in Nat /\ st.input_ended \in BOOLEAN
      /\ \A j \in 1 .. m : st.buf[j] = st.bytes_read + j - 1
  BY DEF StreamOK, Streams
<1>2. data \in Seq(Nat) /\ Len(data) = len
  <2>1. \A i \in 1 .. len : st.bytes_written + i - 1 \in Nat
    BY <1>1, SMTT(60)
  <2> QED
    BY <2>1, SMTT(60)
<1>3. n \in 0 .. len /\ m + n <= st.capacity /\ (st.input_ended => n = 0)
  <2> HIDE DEF data, m
  <2>1. n = IF st.input_ended THEN 0 ELSE BS!MinOf(len, st.capacity - m)
    BY <1>1, <1>2, SMTT(60) DEF BS!write_size, BS!remaining_capacity, m
  <2> HIDE DEF n
  <2> QED
    BY <1>1, <2>1, SMTT(60) DEF BS!MinOf
<1>4. part \in Seq(Nat) /\ Len(part) = n /\ \A j \in 1 .. n : part[j] = st.bytes_written + j - 1
  <2> HIDE DEF n
  <2>1. part \in Seq(Nat) /\ Len(part) = n /\ \A j \in 1 .. n : part[j] = data[j]
    <3> HIDE DEF data
    <3> QED
      BY <1>2, <1>3, CutSeq, SMTT(60) DEF FirstPart
  <2>2. \A j \in 1 .. n : data[j] = st.bytes_written + j - 1
    BY <1>3
  <2> QED
    BY <2>1, <2>2, ZenonT(60)
<1> HIDE DEF n, part
<1>5. new = [st EXCEPT !.buf = buf, !.bytes_written = w]
  BY ZenonT(60) DEF BS!write, n, part
<1>6. /\ buf \in Seq(Nat) /\ Len(buf) = m + n
      /\ \A j \in 1 .. m : buf[j] = st.buf[j]
      /\ \A j \in 1 .. n : buf[m + j] = part[j]
  <2> DEFINE b == st.buf
  <2> HIDE DEF b
  <2>1. b \in Seq(Nat) /\ m = Len(b) /\ buf = b \o part
    BY <1>1 DEF b
  <2> HIDE DEF m, buf
  <2>2. /\ buf \in Seq(Nat) /\ Len(buf) = m + n
        /\ \A j \in 1 .. m + n : buf[j] = IF j <= m THEN b[j] ELSE part[j - m]
    BY <1>4, <2>1, JoinSeq, SMTT(60)
  <2>3. ASSUME NEW j \in 1 .. n PROVE buf[m + j] = part[j]
    <3>1. m + j \in 1 .. m + n /\ ~(m + j <= m) /\ (m + j) - m = j
      BY <1>1, <1>3, SMTT(60)
    <3> QED
      BY <2>2, <3>1, SMTT(60)
  <2>4. ASSUME NEW j \in 1 .. m PROVE buf[j] = b[j]
    <3>1. j \in 1 .. m + n /\ j <= m
      BY <1>1, <1>3, SMTT(60)
    <3> QED
      BY <2>2, <3>1, SMTT(60)
  <2> QED
    BY <2>2, <2>3, <2>4, SMTT(60) DEF b
<1>7. w \in Nat
  BY <1>1, <1>3, SMTT(60)
<1> HIDE DEF buf, w, m
<1>8. new \in Streams
  BY <1>1, <1>5, <1>6, <1>7, ZenonT(60) DEF Streams
<1>9. /\ new.buf = buf /\ new.bytes_written = w /\ new.bytes_read = st.bytes_read
      /\ new.input_ended = st.input_ended /\ new.error = st.error /\ new.capacity = st.capacity
  BY <1>1, <1>5, ZenonT(60) DEF Streams
<1>10. ASSUME NEW j \in 1 .. m + n PROVE buf[j] = st.bytes_read + j - 1
  <2>1. CASE j <= m
    <3>1. j \in 1 .. m
      BY <1>1, <1>3, <2>1, SMTT(60)
    <3> QED
      BY <1>1, <1>6, <3>1, SMTT(60)
  <2>2. CASE ~(j <= m)
    <3>1. j - m \in 1 .. n /\ m + (j - m) = j
      BY <1>1, <1>3, <2>2, SMTT(60)
    <3>2. buf[j] = part[j - m] /\ part[j - m] = st.bytes_written + (j - m) - 1
      BY <1>4, <1>6, <3>1, ZenonT(60)
    <3> QED
      BY <1>1, <3>2, SMTT(60)
  <2> QED
    BY <2>1, <2>2, SMTT(60)
<1>11. StreamOK(new)
  <2>1. new.bytes_written = new.bytes_read + Len(new.buf) /\ Len(new.buf) <= new.capacity
    <3>1. w = (st.bytes_read + m) + n
      BY <1>1, SMTT(60) DEF w
    <3>2. m \in Nat /\ n \in Nat /\ st.bytes_read \in Nat /\ m + n <= st.capacity
      BY <1>1, <1>3, SMTT(60)
    <3>3. w = st.bytes_read + (m + n)
      BY <3>1, <3>2, SMTT(60)
    <3> QED
      BY <1>6, <1>9, <3>2, <3>3, ZenonT(60)
  <2>2. \A j \in 1 .. Len(new.buf) : new.buf[j] = new.bytes_read + j - 1
    BY <1>6, <1>9, <1>10, SMTT(60)
  <2> QED
    BY <1>8, <2>1, <2>2, ZenonT(60) DEF StreamOK
<1>12. st.input_ended => new.input_ended /\ new.bytes_written = st.bytes_written
  <2> SUFFICES ASSUME st.input_ended PROVE new.input_ended /\ new.bytes_written = st.bytes_written
    BY SMTT(60)
  <2>1. n = 0 /\ st.bytes_written \in Nat
    BY <1>1, <1>3, SMTT(60)
  <2>2. w = st.bytes_written
    BY <2>1, SMTT(60) DEF w
  <2> QED
    BY <1>9, <2>2, ZenonT(60)
<1>13. BS!eof(st) => BS!eof(new)
  <2> SUFFICES ASSUME st.input_ended, st.buf = << >> PROVE new.input_ended /\ new.buf = << >>
    BY SMTT(60) DEF BS!eof, BS!buffer_empty
  <2>1. m = 0 /\ n = 0
    BY <1>3, SMTT(60) DEF m
  <2>2. Len(buf) = 0
    BY <1>6, <2>1, SMTT(60)
  <2>3. buf = << >>
    BY <1>6, <2>2, SMTT(60)
  <2>4. new.buf = << >>
    BY <1>9, <2>3, SMTT(60)
  <2>5. new.input_ended
    BY <1>9, ZenonT(60)
  <2> QED
    BY <2>4, <2>5, SMTT(60)
<1>14. new.bytes_written <= st.bytes_written + len
  BY <1>1, <1>3, <1>9, SMTT(60) DEF w
<1> QED
  BY <1>9, <1>11, <1>12, <1>13, <1>14, SMTT(60)

\* end_input() marks the end.
LEMMA EndStream ==
    ASSUME NEW st, StreamOK(st), NEW new, new = BS!end_input(st)
    PROVE  /\ StreamOK(new) /\ new.bytes_read = st.bytes_read
           /\ new.bytes_written = st.bytes_written /\ new.error = st.error /\ new.input_ended
           /\ BS!eof(st) => BS!eof(new)
           /\ st.input_ended => new.input_ended /\ new.bytes_written = st.bytes_written
<1>1. st \in Streams
  BY DEF StreamOK
<1>2. new \in Streams
  BY <1>1, ZenonT(60) DEF Streams, BS!end_input
<1>3. /\ new.buf = st.buf /\ new.bytes_written = st.bytes_written
      /\ new.bytes_read = st.bytes_read /\ new.input_ended = TRUE
      /\ new.capacity = st.capacity /\ new.error = st.error
  BY <1>1, SMTT(60) DEF Streams, BS!end_input
<1>4. StreamOK(new)
  BY <1>2, <1>3, SMTT(60) DEF StreamOK
<1> QED
  BY <1>3, <1>4 DEF BS!eof, BS!buffer_empty

\* set_error() marks the failure.
LEMMA ErrorStream ==
    ASSUME NEW st, StreamOK(st), NEW new, new = BS!set_error(st)
    PROVE  /\ StreamOK(new) /\ new.bytes_read = st.bytes_read
           /\ new.bytes_written = st.bytes_written /\ new.error
           /\ new.input_ended = st.input_ended
           /\ BS!eof(st) => BS!eof(new)
<1>1. st \in Streams
  BY DEF StreamOK
<1>2. new \in Streams
  BY <1>1, ZenonT(60) DEF Streams, BS!set_error
<1>3. /\ new.buf = st.buf /\ new.bytes_written = st.bytes_written
      /\ new.bytes_read = st.bytes_read /\ new.input_ended = st.input_ended
      /\ new.capacity = st.capacity /\ new.error = TRUE
  BY <1>1, SMTT(60) DEF Streams, BS!set_error
<1>4. StreamOK(new)
  BY <1>2, <1>3, SMTT(60) DEF StreamOK
<1> QED
  BY <1>3, <1>4 DEF BS!eof, BS!buffer_empty
-----------------------------------------------------------------------------
\* The inductive invariant.
IInv ==
    /\ SenderOK(tx) /\ tx.isn = Isn
    /\ beyond \in Nat
    /\ beyond = 0 /\ tx.syn_sent => Idle(tx)

\* What every step does, beside keeping the invariant.
Within ==
    tx'.next_seqno > tx.next_seqno => bytes_in_flight(tx') <= effective_window(tx')

\* A new TCPSender.
LEMMA NewSenderOK ==
    ASSUME NEW cap \in Nat, NEW isn \in WrappingInt32,
           NEW s, s = NewTCPSender(cap, RtTimeout, isn)
    PROVE  /\ SenderOK(s) /\ s.isn = isn /\ s.next_seqno = 0 /\ First(s) = 0
           /\ ~s.syn_sent /\ s.segments_out = << >>
           /\ s.stream = BS!NewByteStream(cap)
<1> DEFINE st == BS!NewByteStream(cap)
           p == [i \in 1 .. 1 |-> 0]
<1>1. StreamOK(st) /\ st.bytes_read = 0
  <2>1. /\ st.buf = << >> /\ st.bytes_written = 0 /\ st.bytes_read = 0
        /\ << >> \in Seq(Nat) /\ 0 \in Nat
    BY DEF BS!NewByteStream
  <2>2. st \in Streams
    BY <2>1, ZenonT(60) DEF Streams, BS!NewByteStream
  <2>3. st.capacity = cap
    BY DEF BS!NewByteStream
  <2> HIDE DEF st
  <2> QED
    BY <2>1, <2>2, <2>3, SMTT(60) DEF StreamOK
<1>2. Doubled(RtTimeout, 0) = RtTimeout
  BY DoubledSteps, SenderAssumption, SMTT(60)
<1>3. /\ s.retrans_buf = << >> /\ s.segments_out = << >> /\ s.stream = st
      /\ s.next_seqno = 0 /\ s.window_size = 1 /\ s.syn_sent = FALSE /\ s.fin_sent = FALSE
      /\ s.isn = isn /\ s.timer = timer_reset /\ s.retrans_timeout = RtTimeout /\ s.consec_retrans_count = 0
  BY SMTT(60) DEF NewTCPSender
<1>4. /\ << >> \in Seq(Segments) /\ RtTimeout \in Nat /\ 0 \in Nat /\ 1 \in 0 .. MW
      /\ st \in Streams /\ timer_reset \in Timers
  BY <1>1, TimerTypes, SenderAssumption, SMTT(60) DEF MW, StreamOK
<1> HIDE DEF st
<1>5. s \in Senders
  BY <1>4, ZenonT(60) DEF NewTCPSender, Senders, st
<1>6. Accounted(s)
  BY <1>1, <1>3, SMTT(60) DEF Accounted, SEG!One
<1>7. Timed(s)
  BY <1>2, <1>3, TimerTypes, SMTT(60) DEF Timed
<1>8. Chain(s.retrans_buf, p, s.next_seqno, s.isn, s.stream)
  <2>1. Len(s.retrans_buf) = 0
    BY <1>3, SMTT(60)
  <2>2. MW \in Nat
    BY SenderAssumption, SMTT(60) DEF MW
  <2> QED
    BY <1>3, <2>1, <2>2, SMTT(60) DEF Chain
<1>h. Honest(s.segments_out, s)
  BY <1>3, SMTT(60) DEF Honest
<1>9. SenderOK(s)
  <2> HIDE DEF p
  <2> QED
    BY <1>1, <1>3, <1>5, <1>6, <1>7, <1>8, <1>h, SMTT(60) DEF SenderOK
<1>10. First(s) = 0
  <2>1. First(s) = p[1]
    <3> HIDE DEF p
    <3> QED
      BY <1>8, <1>9, SenderTypes, ZenonT(60)
  <2> QED
    BY <2>1, SMTT(60)
<1> QED
  BY <1>3, <1>9, <1>10, SMTT(60) DEF st

-----------------------------------------------------------------------------
\* What the owner of a sender may rely on, in terms of what it can see.  The
\* proofs about a whole connection rest on nothing else.
Substring(i, c) == [k \in 1 .. c |-> i + k - 1]

\* Where a segment of s lies in the stream: its payload is the substring at
\* index i, and a FIN follows the last byte.
Placed(seg, s, i) ==
    /\ seg.payload = Substring(i, Len(seg.payload)) /\ i \in Nat
    /\ i + Len(seg.payload) <= s.stream.bytes_read
    /\ seg.fin => i + Len(seg.payload) = s.stream.bytes_read
    /\ minus(seg.seqno, IF seg.syn THEN 0 ELSE 1) = wrap(i, s.isn)

\* seg carries nothing but what s has sent.
Carried(seg, s) ==
    /\ seg.syn => s.syn_sent /\ seg.seqno = s.isn
    /\ seg.fin => s.fin_sent
    /\ seg.payload # << >> => \E i : Placed(seg, s, i)

\* The numbers of s agree.
SenderFacts(s) ==
    /\ s.isn \in WrappingInt32 /\ s.next_seqno \in Nat
    /\ s.syn_sent \in BOOLEAN /\ s.fin_sent \in BOOLEAN /\ s.stream.input_ended \in BOOLEAN
    /\ s.stream.bytes_read \in Nat /\ s.stream.bytes_written \in Nat
    /\ s.stream.bytes_read <= s.stream.bytes_written
    /\ s.syn_sent /\ ~s.fin_sent => s.next_seqno = s.stream.bytes_read + 1
    /\ s.fin_sent => s.syn_sent /\ s.next_seqno = s.stream.bytes_read + 2
    /\ ~s.syn_sent => s.next_seqno = 0 /\ s.stream.bytes_read = 0
    /\ s.fin_sent => s.stream.input_ended /\ s.stream.bytes_read = s.stream.bytes_written
    /\ First(s) \in Nat /\ First(s) <= s.next_seqno
    /\ s.segments_out \in Seq(Segments)

\* They do in every sender that is sound.
LEMMA SenderSound ==
    ASSUME NEW s, SenderOK(s)
    PROVE  SenderFacts(s)
<1>1. PICK p : Chain(s.retrans_buf, p, s.next_seqno, s.isn, s.stream)
  BY DEF SenderOK
<1>2. /\ s.isn \in WrappingInt32 /\ s.next_seqno \in Nat
      /\ s.syn_sent \in BOOLEAN /\ s.fin_sent \in BOOLEAN /\ s.stream.input_ended \in BOOLEAN
      /\ s.segments_out \in Seq(Segments) /\ s.stream \in Streams
      /\ s.stream.bytes_read \in Nat /\ s.stream.buf \in Seq(Nat) /\ Len(s.stream.buf) \in Nat
      /\ p[1] \in Nat /\ p[1] <= s.next_seqno /\ First(s) = p[1]
  BY <1>1, SenderTypes, ZenonT(60)
<1>3. s.stream.bytes_written = s.stream.bytes_read + Len(s.stream.buf)
  BY DEF SenderOK, StreamOK
<1> DEFINE y == SEG!One(s.syn_sent)
           z == SEG!One(s.fin_sent)
<1>4. /\ s.next_seqno = y + s.stream.bytes_read + z
      /\ s.fin_sent => s.stream.input_ended /\ s.stream.buf = << >>
      /\ ~s.syn_sent => s.next_seqno = 0
  BY ZenonT(60) DEF SenderOK, Accounted, BS!eof, BS!buffer_empty
<1>5. /\ (s.syn_sent => y = 1) /\ (~s.syn_sent => y = 0)
      /\ (s.fin_sent => z = 1) /\ (~s.fin_sent => z = 0)
  BY ZenonT(60) DEF SEG!One
<1>6. s.fin_sent => Len(s.stream.buf) = 0
  BY <1>4
<1> HIDE DEF y, z
<1>7. /\ s.stream.bytes_written \in Nat /\ s.stream.bytes_read <= s.stream.bytes_written
      /\ s.fin_sent => s.stream.bytes_read = s.stream.bytes_written
  BY <1>2, <1>3, <1>6
<1>8. /\ s.syn_sent /\ ~s.fin_sent => s.next_seqno = s.stream.bytes_read + 1
      /\ s.fin_sent => s.syn_sent /\ s.next_seqno = s.stream.bytes_read + 2
      /\ ~s.syn_sent => s.next_seqno = 0 /\ s.stream.bytes_read = 0
  BY <1>2, <1>4, <1>5
<1> QED
  BY <1>2, <1>4, <1>7, <1>8, ZenonT(60) DEF SenderFacts

\* What Carries says of a segment, in terms of the stream.
LEMMA CarriesCarried ==
    ASSUME NEW s, SenderOK(s), NEW seg \in Segments, Carries(seg, s)
    PROVE  Carried(seg, s)
<1> DEFINE c == Len(seg.payload)
           y == IF seg.syn THEN 1 ELSE 0
           z == IF seg.fin THEN 1 ELSE 0
<1>1. /\ seg.payload \in Seq(Nat) /\ seg.syn \in BOOLEAN /\ seg.fin \in BOOLEAN
      /\ c \in Nat /\ (seg.payload # << >> => c # 0)
  BY SMTT(60) DEF Segments
<1>2. SenderFacts(s)
  BY SenderSound
<1>3. Length(seg) = y + c + z
  BY ZenonT(60) DEF Length, SEG!length_in_sequence_space, SEG!One
<1>4. PICK q \in Nat :
        /\ seg.seqno = wrap(q, s.isn) /\ q + Length(seg) <= s.next_seqno
        /\ Length(seg) # 0 => Stands(seg, q, s.isn, s.stream)
  BY DEF Carries
<1>5. /\ y \in Nat /\ z \in Nat /\ y <= 1 /\ z <= 1
      /\ (seg.syn => y = 1) /\ (~seg.syn => y = 0) /\ (seg.fin => z = 1) /\ (~seg.fin => z = 0)
  <2>1. /\ (seg.syn => y = 1) /\ (~seg.syn => y = 0)
        /\ (seg.fin => z = 1) /\ (~seg.fin => z = 0)
    BY ZenonT(60)
  <2> QED
    BY <1>1, <2>1
<1>6. SUFFICES ASSUME seg.syn \/ seg.fin \/ seg.payload # << >>
               PROVE  Carried(seg, s)
  BY ZenonT(60) DEF Carried
<1> HIDE DEF c, y, z
<1>7. y + c + z # 0 /\ q + (y + c + z) <= s.next_seqno
  BY <1>1, <1>3, <1>4, <1>5, <1>6, SMTT(60)
<1>8. Stands(seg, q, s.isn, s.stream)
  BY <1>3, <1>4, <1>7
<1>9. /\ seg.syn <=> q = 0
      /\ \A j \in 1 .. c : seg.payload[j] = q + y + j - 2
      /\ q + y + c <= s.stream.bytes_read + 1
      /\ seg.fin => q + (y + c + z) = s.stream.bytes_written + 2
  BY <1>3, <1>8, ZenonT(60) DEF Stands, SEG!One, c, y
<1>10. seg.syn => s.syn_sent /\ seg.seqno = s.isn
  <2>1. seg.syn => s.syn_sent
    BY <1>1, <1>2, <1>5, <1>7, SMTT(60) DEF SenderFacts
  <2>2. seg.syn => seg.seqno = s.isn
    BY <1>2, <1>4, <1>9, WrapBack, ZenonT(60) DEF SenderFacts
  <2> QED
    BY <2>1, <2>2
<1>11. seg.fin => s.fin_sent
  BY <1>1, <1>2, <1>5, <1>7, <1>9, SMTT(60) DEF SenderFacts
<1>12. ASSUME seg.payload # << >> PROVE \E i : Placed(seg, s, i)
  <2> DEFINE i == (q + y) - 1
  <2>1. i \in Nat /\ (seg.syn => i = 0) /\ (~seg.syn => q = i + 1)
    BY <1>5, <1>9, <1>1, SMTT(60)
  <2>2. i + c <= s.stream.bytes_read
    BY <1>1, <1>2, <1>5, <1>9, SMTT(60) DEF SenderFacts
  <2>3. seg.fin => i + c = s.stream.bytes_read
    BY <1>1, <1>2, <1>5, <1>9, <1>11, SMTT(60) DEF SenderFacts
  <2>4. minus(seg.seqno, IF seg.syn THEN 0 ELSE 1) = wrap(i, s.isn)
    <3> HIDE DEF i
    <3>1. s.isn \in WrappingInt32
      BY <1>2 DEF SenderFacts
    <3>2. CASE seg.syn
      <4>1. minus(s.isn, 0) = s.isn /\ wrap(0, s.isn) = s.isn
        BY <2>1, <3>1, WrapBack, ZenonT(60)
      <4> QED
        BY <2>1, <1>10, <3>2, <4>1, ZenonT(60)
    <3>3. CASE ~seg.syn
      <4>1. minus(wrap(i + 1, s.isn), 1) = wrap(i, s.isn)
        BY <2>1, <3>1, WrapBack, ZenonT(60)
      <4> QED
        BY <2>1, <1>4, <3>3, <4>1, ZenonT(60)
    <3> QED
      BY <3>2, <3>3
  <2>5. \A j \in 1 .. c : seg.payload[j] = i + j - 1
    BY <1>1, <1>5, <1>9, SMTT(60)
  <2>6. seg.payload = [j \in 1 .. c |-> i + j - 1]
    <3> HIDE DEF i
    <3>1. seg.payload = [j \in 1 .. c |-> seg.payload[j]]
      BY <1>1, SMTT(60) DEF c
    <3> QED
      BY <3>1, <2>5, ZenonT(60)
  <2>7. seg.payload = Substring(i, c)
    BY <2>6, ZenonT(60) DEF Substring
  <2> HIDE DEF i
  <2> QED
    BY <1>1, <2>1, <2>2, <2>3, <2>4, <2>7, ZenonT(60) DEF Placed, c
<1> QED
  BY <1>10, <1>11, <1>12, ZenonT(60) DEF Carried

\* t is s after it may have sent something; nothing was written or acknowledged.
Onward(s, t) == SenderOK(t) /\ Later(s, t) /\ Steady(s, t) /\ First(t) = First(s)

\* t is s after an acknowledgment of everything before the position of ackno.
Advanced(s, t, ackno) ==
    /\ SenderOK(t) /\ Later(s, t) /\ Steady(s, t)
    /\ First(t) = First(s) \/ First(t) <= unwrap(ackno, s.isn, s.next_seqno)

\* t is s after its application has written up to n bytes or closed.
Rewritten(s, t, n) ==
    SenderOK(t) /\ Later(s, t) /\ First(t) = First(s) /\ t.stream.bytes_written <= n

\* The sender's own methods.
LEMMA MethodLaws ==
    ASSUME NEW s, SenderOK(s)
    PROVE  /\ Onward(s, fill_window(s))
           /\ \A ms \in Nat : Onward(s, tick(s, ms))
           /\ \A rst \in BOOLEAN : Onward(s, send_empty_segment(s, FALSE, FALSE, rst))
           /\ Onward(s, [s EXCEPT !.segments_out = << >>])
           /\ \A ackno \in Nat, w \in 0 .. MaxWindow : Advanced(s, ack_received(s, ackno, w), ackno)
<1>1. Onward(s, fill_window(s))
  BY FillEffect, ZenonT(60) DEF Onward, Filled
<1>2. ASSUME NEW ms \in Nat PROVE Onward(s, tick(s, ms))
  BY TickEffect, ZenonT(60) DEF Onward
<1>3. ASSUME NEW rst \in BOOLEAN PROVE Onward(s, send_empty_segment(s, FALSE, FALSE, rst))
  BY SendEmptyEffect, ZenonT(60) DEF Onward
<1>4. Onward(s, [s EXCEPT !.segments_out = << >>])
  <2> DEFINE t == [s EXCEPT !.segments_out = << >>]
  <2>1. t = [s EXCEPT !.segments_out = << >>]
    OBVIOUS
  <2> HIDE DEF t
  <2>2. Onward(s, t)
    BY <2>1, EmptiedOK, ZenonT(60) DEF Onward
  <2> QED
    BY <2>2 DEF t
<1>5. ASSUME NEW ackno \in Nat, NEW w \in 0 .. MaxWindow
      PROVE  Advanced(s, ack_received(s, ackno, w), ackno)
  BY AckEffect, ZenonT(60) DEF Advanced
<1> QED
  BY <1>1, <1>2, <1>3, <1>4, <1>5, ZenonT(60)

\* What the application, or a failure, does to the stream.
LEMMA StreamLaws ==
    ASSUME NEW s, SenderOK(s)
    PROVE  /\ Onward(s, [s EXCEPT !.stream = BS!set_error(s.stream)])
           /\ \A len \in Nat :
                 Rewritten(s,
                     [s EXCEPT !.stream = BS!write(s.stream, Substring(s.stream.bytes_written, len))],
                     s.stream.bytes_written + len)
           /\ Rewritten(s, [s EXCEPT !.stream = BS!end_input(s.stream)], s.stream.bytes_written)
<1>1. StreamOK(s.stream)
  BY DEF SenderOK
<1>2. Onward(s, [s EXCEPT !.stream = BS!set_error(s.stream)])
  <2> DEFINE st == BS!set_error(s.stream)
             t == [s EXCEPT !.stream = st]
  <2>1. /\ StreamOK(st) /\ st.bytes_read = s.stream.bytes_read
        /\ st.bytes_written = s.stream.bytes_written /\ st.input_ended = s.stream.input_ended
        /\ BS!eof(s.stream) => BS!eof(st)
    BY <1>1, ErrorStream, ZenonT(60)
  <2>2. t = [s EXCEPT !.stream = st]
    OBVIOUS
  <2> HIDE DEF st, t
  <2>3. SenderOK(t) /\ t.stream = st /\ Later(s, t) /\ First(t) = First(s)
    BY <2>1, <2>2, NewStreamOK, SMTT(60)
  <2>4. Onward(s, t)
    BY <2>1, <2>3, ZenonT(60) DEF Onward, Steady
  <2> QED
    BY <2>4 DEF st, t
<1>3. ASSUME NEW len \in Nat
      PROVE  Rewritten(s,
                 [s EXCEPT !.stream = BS!write(s.stream, Substring(s.stream.bytes_written, len))],
                 s.stream.bytes_written + len)
  <2> DEFINE st == BS!write(s.stream, Substring(s.stream.bytes_written, len))
             t == [s EXCEPT !.stream = st]
  <2>0. st = BS!write(s.stream, [i \in 1 .. len |-> s.stream.bytes_written + i - 1])
    BY ZenonT(60) DEF Substring
  <2>2. t = [s EXCEPT !.stream = st]
    OBVIOUS
  <2> HIDE DEF st, t
  <2>1. /\ StreamOK(st) /\ st.bytes_read = s.stream.bytes_read
        /\ st.bytes_written <= s.stream.bytes_written + len
        /\ s.stream.input_ended => st.input_ended /\ st.bytes_written = s.stream.bytes_written
        /\ BS!eof(s.stream) => BS!eof(st)
    BY <2>0, <1>1, WriteStream, SMTT(60)
  <2>3. SenderOK(t) /\ t.stream = st /\ Later(s, t) /\ First(t) = First(s)
    BY <2>1, <2>2, NewStreamOK, SMTT(60)
  <2>4. Rewritten(s, t, s.stream.bytes_written + len)
    BY <2>1, <2>3, ZenonT(60) DEF Rewritten
  <2> QED
    BY <2>4 DEF st, t
<1>4. Rewritten(s, [s EXCEPT !.stream = BS!end_input(s.stream)], s.stream.bytes_written)
  <2> DEFINE st == BS!end_input(s.stream)
             t == [s EXCEPT !.stream = st]
  <2>1. /\ StreamOK(st) /\ st.bytes_read = s.stream.bytes_read
        /\ st.bytes_written = s.stream.bytes_written
        /\ s.stream.input_ended => st.input_ended
        /\ BS!eof(s.stream) => BS!eof(st)
    BY <1>1, EndStream, ZenonT(60)
  <2>2. t = [s EXCEPT !.stream = st]
    OBVIOUS
  <2> HIDE DEF st, t
  <2>3. SenderOK(t) /\ t.stream = st /\ Later(s, t) /\ First(t) = First(s)
    BY <2>1, <2>2, NewStreamOK, SMTT(60)
  <2>5. s.stream.bytes_written \in Nat
    BY <1>1, SMTT(60) DEF StreamOK, Streams
  <2>4. Rewritten(s, t, s.stream.bytes_written)
    <3>1. t.stream.bytes_written <= s.stream.bytes_written
      BY <2>1, <2>3, <2>5
    <3> QED
      BY <2>3, <3>1, ZenonT(60) DEF Rewritten
  <2> QED
    BY <2>4 DEF st, t
<1> QED
  BY <1>2, <1>3, <1>4, ZenonT(60)

\* What waits in the outbound queue carries nothing but what has been sent.
LEMMA QueueLaw ==
    ASSUME NEW s, SenderOK(s)
    PROVE  \A i \in 1 .. Len(s.segments_out) : Carried(s.segments_out[i], s)
<1> SUFFICES ASSUME NEW i \in 1 .. Len(s.segments_out)
             PROVE  Carried(s.segments_out[i], s)
  OBVIOUS
<1>1. s.segments_out \in Seq(Segments)
  BY SenderSound DEF SenderFacts
<1>2. s.segments_out[i] \in Segments
  BY <1>1, SMTT(60)
<1>3. Carries(s.segments_out[i], s)
  BY ZenonT(60) DEF SenderOK, Honest
<1> QED
  BY <1>2, <1>3, CarriesCarried, ZenonT(60)

\* Initially.
LEMMA InitIInv == SenderInit => IInv
<1> SUFFICES ASSUME SenderInit PROVE IInv
  OBVIOUS
<1>1. SendCapacity \in Nat /\ Isn \in WrappingInt32 /\ AckBeyond \in Nat
  BY SenderAssumption DEF SenderAssumption
<1>2. SenderOK(tx) /\ tx.isn = Isn /\ ~tx.syn_sent
  BY <1>1, NewSenderOK, ZenonT(60) DEF SenderInit
<1> QED
  BY <1>1, <1>2, SMTT(60) DEF IInv, SenderInit

\* The sender that a call starts from.
LEMMA EmptiedFacts ==
    ASSUME IInv
    PROVE  /\ SenderOK(Emptied) /\ Same(tx, Emptied) /\ tx.next_seqno \in Nat
           /\ Idle(Emptied) <=> Idle(tx)
           /\ Emptied.isn = Isn /\ Emptied.stream = tx.stream
BY EmptiedOK, ZenonT(60) DEF IInv, Emptied, SenderOK, Senders, Same

\* fill_window() after a change of the stream at most.
LEMMA FillStep ==
    ASSUME IInv, UNCHANGED beyond, NEW s, SenderOK(s), s.next_seqno = tx.next_seqno,
           s.isn = Isn, tx' = fill_window(s)
    PROVE  IInv' /\ Within
<1>1. Filled(s, tx') /\ Idle(tx')
  BY FillEffect
<1> QED
  BY <1>1, SMTT(60) DEF Filled, IInv, Within, Later

\* A step that leaves what has been sent alone.
LEMMA QuietStep ==
    ASSUME IInv, UNCHANGED beyond, SenderOK(tx'), Same(Emptied, tx'), Idle(tx') <=> Idle(Emptied)
    PROVE  IInv' /\ Within
<1>1. Same(tx, Emptied) /\ tx.next_seqno \in Nat /\ (Idle(Emptied) <=> Idle(tx)) /\ Emptied.isn = Isn
  BY EmptiedFacts, SMTT(60)
<1>2. tx'.next_seqno = tx.next_seqno /\ tx'.syn_sent = tx.syn_sent /\ tx'.isn = Isn
  BY <1>1, SMTT(60) DEF Same
<1> QED
  BY <1>1, <1>2, SMTT(60) DEF IInv, Within

\* fill_window() called by the owner.
LEMMA FillWindowStep == ASSUME IInv, UNCHANGED beyond, FillWindow PROVE IInv' /\ Within
BY EmptiedFacts, FillStep, SMTT(60) DEF FillWindow, Same

\* TCPConnection::write(): write(), then fill_window().
LEMMA WriteStep ==
    ASSUME IInv, UNCHANGED beyond, NEW len \in 1 .. StreamLength, WriteData(len)
    PROVE  IInv' /\ Within
<1> DEFINE data == [i \in 1 .. len |-> tx.stream.bytes_written + i - 1]
           st == BS!write(Emptied.stream, data)
           s == [Emptied EXCEPT !.stream = st]
<1>1. tx' = fill_window(s)
  BY ZenonT(60) DEF WriteData
<1>2. /\ SenderOK(Emptied) /\ Emptied.stream = tx.stream /\ Emptied.next_seqno = tx.next_seqno
      /\ Emptied.isn = Isn
  BY EmptiedFacts, SMTT(60) DEF Same
<1>3. len \in Nat /\ StreamOK(Emptied.stream)
  BY <1>2, SenderAssumption, SMTT(60) DEF SenderOK
<1>4. /\ StreamOK(st) /\ st.bytes_read = Emptied.stream.bytes_read
      /\ BS!eof(Emptied.stream) => BS!eof(st)
      /\ Emptied.stream.input_ended
           => st.input_ended /\ st.bytes_written = Emptied.stream.bytes_written
  <2>1. st = BS!write(Emptied.stream, [i \in 1 .. len |-> Emptied.stream.bytes_written + i - 1])
    BY <1>2, ZenonT(60)
  <2> HIDE DEF st
  <2> QED
    BY <1>3, <2>1, WriteStream, SMTT(60)
<1> HIDE DEF st
<1>5. SenderOK(s) /\ s.next_seqno = tx.next_seqno /\ s.isn = Isn
  BY <1>2, <1>4, NewStreamOK, SMTT(60) DEF Later
<1> HIDE DEF s
<1> QED
  BY <1>1, <1>5, FillStep, SMTT(60)

\* TCPConnection::end_input_stream(): end_input(), then fill_window().
LEMMA EndInputStep == ASSUME IInv, UNCHANGED beyond, EndData PROVE IInv' /\ Within
<1> DEFINE st == BS!end_input(Emptied.stream)
           s == [Emptied EXCEPT !.stream = st]
<1>1. tx' = fill_window(s)
  BY ZenonT(60) DEF EndData
<1>2. SenderOK(Emptied) /\ Emptied.next_seqno = tx.next_seqno /\ Emptied.isn = Isn
  BY EmptiedFacts, SMTT(60) DEF Same
<1>3. StreamOK(Emptied.stream)
  BY <1>2, SMTT(60) DEF SenderOK
<1>4. /\ StreamOK(st) /\ st.bytes_read = Emptied.stream.bytes_read
      /\ BS!eof(Emptied.stream) => BS!eof(st)
      /\ Emptied.stream.input_ended
           => st.input_ended /\ st.bytes_written = Emptied.stream.bytes_written
  BY <1>3, EndStream
<1> HIDE DEF st
<1>5. SenderOK(s) /\ s.next_seqno = tx.next_seqno /\ s.isn = Isn
  BY <1>2, <1>4, NewStreamOK, SMTT(60) DEF Later
<1> HIDE DEF s
<1> QED
  BY <1>1, <1>5, FillStep, SMTT(60)

\* An acknowledgment of no more than has been sent is understood.
LEMMA AckStep ==
    ASSUME IInv, UNCHANGED beyond,
           NEW ack_seqno \in 0 .. (tx.next_seqno + beyond), NEW win \in 0 .. MaxWindow,
           AckReceived(ack_seqno, win)
    PROVE  IInv' /\ Within
<1>1. /\ SenderOK(Emptied) /\ Emptied.next_seqno = tx.next_seqno /\ tx.next_seqno \in Nat
      /\ Emptied.isn = Isn /\ Isn \in WrappingInt32
  BY EmptiedFacts, SenderAssumption, SMTT(60) DEF Same
<1>2. tx' = ack_received(Emptied, wrap(ack_seqno, Isn), win)
  BY SMTT(60) DEF AckReceived
<1>3. /\ SenderOK(tx') /\ Within /\ tx'.isn = Isn
      /\ ~(unwrap(wrap(ack_seqno, Isn), Isn, tx.next_seqno) > tx.next_seqno) => Idle(tx')
  <2>1. PICK a : a = wrap(ack_seqno, Isn)
    OBVIOUS
  <2>2. tx' = ack_received(Emptied, a, win)
    BY <1>2, <2>1
  <2>3. /\ SenderOK(tx') /\ Later(Emptied, tx')
        /\ tx'.next_seqno > Emptied.next_seqno => bytes_in_flight(tx') <= effective_window(tx')
        /\ ~(unwrap(a, Emptied.isn, Emptied.next_seqno) > Emptied.next_seqno) => Idle(tx')
    BY <1>1, <2>2, AckEffect, ZenonT(60)
  <2>4. Within
    BY <1>1, <2>3, ZenonT(60) DEF Within
  <2>5. tx'.isn = Isn
    BY <1>1, <2>3, ZenonT(60) DEF Later
  <2> QED
    BY <1>1, <2>1, <2>3, <2>4, <2>5, ZenonT(60)
<1>4. beyond = 0 => unwrap(wrap(ack_seqno, Isn), Isn, tx.next_seqno) = ack_seqno
  <2> SUFFICES ASSUME beyond = 0
               PROVE  unwrap(wrap(ack_seqno, Isn), Isn, tx.next_seqno) = ack_seqno
    BY SMTT(60)
  <2>1. ack_seqno \in Nat /\ ack_seqno <= tx.next_seqno
    BY <1>1, SMTT(60)
  <2>2. 2 * (tx.next_seqno - ack_seqno) < Base /\ 2 * (ack_seqno - tx.next_seqno) < Base
    BY <1>1, <2>1, SenderAssumption, WrappingAssumption, SMTT(60) DEF AckReceived
  <2> QED
    BY <1>1, <2>1, <2>2, Unwraps, SMTT(60)
<1>5. beyond = 0 => Idle(tx')
  BY <1>1, <1>3, <1>4, SMTT(60)
<1> QED
  BY <1>3, <1>5, SMTT(60) DEF IInv

\* Time passes.
LEMMA TickStep ==
    ASSUME IInv, UNCHANGED beyond, NEW ms \in 1 .. MaxTick, Tick(ms)
    PROVE  IInv' /\ Within
<1>1. ms \in Nat
  BY SenderAssumption, SMTT(60)
<1>2. SenderOK(tx') /\ Same(Emptied, tx') /\ (Idle(tx') <=> Idle(Emptied))
  BY <1>1, EmptiedFacts, TickEffect, SMTT(60) DEF Tick
<1> QED
  BY <1>2, QuietStep, SMTT(60)

\* The owner asks for a bare segment.
LEMMA SendEmptyStep == ASSUME IInv, UNCHANGED beyond, SendEmpty PROVE IInv' /\ Within
<1>1. SenderOK(tx') /\ Same(Emptied, tx') /\ (Idle(tx') <=> Idle(Emptied))
  BY EmptiedFacts, SendEmptyEffect, ZenonT(60) DEF SendEmpty
<1> QED
  BY <1>1, QuietStep, SMTT(60)

\* Every step keeps the invariant and stays within the window.
LEMMA NextIInv == IInv /\ [SenderNext]_txvars => IInv' /\ (Within \/ UNCHANGED txvars)
<1> SUFFICES ASSUME IInv, [SenderNext]_txvars PROVE IInv' /\ (Within \/ UNCHANGED txvars)
  OBVIOUS
<1>1. CASE FillWindow /\ UNCHANGED beyond
  BY <1>1, FillWindowStep, SMTT(60)
<1>2. CASE (\E len \in 1 .. StreamLength : WriteData(len)) /\ UNCHANGED beyond
  BY <1>2, WriteStep, SMTT(60)
<1>3. CASE EndData /\ UNCHANGED beyond
  BY <1>3, EndInputStep
<1>4. CASE /\ \E ack_seqno \in 0 .. (tx.next_seqno + beyond), win \in 0 .. MaxWindow :
                 AckReceived(ack_seqno, win)
           /\ UNCHANGED beyond
  BY <1>4, AckStep, SMTT(60)
<1>5. CASE (\E ms \in 1 .. MaxTick : Tick(ms)) /\ UNCHANGED beyond
  BY <1>5, TickStep
<1>6. CASE SendEmpty /\ UNCHANGED beyond
  BY <1>6, SendEmptyStep
<1>7. CASE UNCHANGED txvars
  BY <1>7 DEF IInv, txvars
<1> QED
  BY <1>1, <1>2, <1>3, <1>4, <1>5, <1>6, <1>7, SMTT(60) DEF SenderNext

\* The timer runs exactly while something is outstanding, and the timeout has
\* doubled once per consecutive retransmission, whatever the calls.
THEOREM SenderTimerSound == SenderSpec => []TimerSound
<1>1. IInv => TimerSound
  BY SMTT(60) DEF IInv, SenderOK, Timed, TimerSound
<1> QED
  BY <1>1, InitIInv, NextIInv, PTL DEF SenderSpec

\* What is outstanding is the end of what has been sent, segment after
\* segment, each with the bytes that its sequence number stands for; and what
\* has been sent is the SYN, the bytes read from the stream and the FIN.
THEOREM SenderKeepsTail == SenderSpec => []OutstandingIsTail
<1>1. IInv => OutstandingIsTail
  <2> SUFFICES ASSUME IInv PROVE TailOfSent /\ SequenceAccounting
    BY DEF OutstandingIsTail
  <2> DEFINE buf == tx.retrans_buf
  <2>1. PICK p : Chain(buf, p, tx.next_seqno, tx.isn, tx.stream)
    BY SMTT(60) DEF IInv, SenderOK
  <2>2. \A i \in 1 .. Len(buf) : Position(buf[i]) = p[i]
    BY <2>1, Positions, SMTT(60) DEF IInv, Position
  <2>3. ASSUME NEW i \in 1 .. Len(buf)
        PROVE  /\ Position(buf[i]) + Length(buf[i])
                     = IF i = Len(buf) THEN tx.next_seqno ELSE Position(buf[i + 1])
               /\ buf[i].syn <=> Position(buf[i]) = 0
               /\ \A j \in 1 .. Len(buf[i].payload) :
                     buf[i].payload[j] = Position(buf[i]) + SEG!One(buf[i].syn) + j - 2
               /\ buf[i].fin => /\ tx.stream.input_ended
                                /\ Position(buf[i]) + Length(buf[i]) = tx.stream.bytes_written + 2
    <3>1. Position(buf[i]) = p[i]
      BY <2>2, SMTT(60)
    <3>2. p[i + 1] = IF i = Len(buf) THEN tx.next_seqno ELSE Position(buf[i + 1])
      <4>1. CASE i = Len(buf)
        BY <2>1, <4>1, SMTT(60) DEF Chain
      <4>2. CASE i # Len(buf)
        <5>1. Len(buf) \in Nat
          BY DEF IInv, SenderOK, Senders
        <5>2. i + 1 \in 1 .. Len(buf)
          BY <4>2, <5>1, SMTT(60)
        <5> QED
          BY <2>2, <4>2, <5>2, SMTT(60)
      <4> QED
        BY <4>1, <4>2, SMTT(60)
    <3>3. Stands(buf[i], p[i], tx.isn, tx.stream) /\ p[i + 1] = p[i] + Length(buf[i])
      BY <2>1 DEF Chain
    <3> QED
      BY <3>1, <3>2, <3>3, SMTT(60) DEF Stands
  <2>4. TailOfSent
    BY <2>3, ZenonT(60) DEF TailOfSent, Length
  <2>5. SequenceAccounting
    BY DEF IInv, SenderOK, Accounted, SequenceAccounting
  <2> QED
    BY <2>4, <2>5, SMTT(60)
<1> QED
  BY <1>1, InitIInv, NextIInv, PTL DEF SenderSpec

\* Nothing new leaves beyond the window in force.
THEOREM SenderRespectsWindow == SenderSpec => WindowRespected
<1>1. IInv /\ [SenderNext]_txvars
        => [tx'.next_seqno > tx.next_seqno
              => bytes_in_flight(tx') <= effective_window(tx')]_txvars
  BY NextIInv, SMTT(60) DEF Within
<1> QED
  BY <1>1, InitIInv, NextIInv, PTL DEF SenderSpec, WindowRespected

\* A peer that acknowledges no more than has been sent never finds room in
\* the window and bytes, or the end, left behind in the stream.
THEOREM SenderFillsWindow == SenderSpec => []WindowFilled
<1>1. IInv => WindowFilled
  <2> SUFFICES ASSUME IInv, beyond = 0, tx.syn_sent, remaining_winsize(tx) > 0
               PROVE  BS!buffer_empty(tx.stream) /\ (tx.stream.input_ended => tx.fin_sent)
    BY DEF WindowFilled
  <2>1. Idle(tx) /\ SenderOK(tx)
    BY SMTT(60) DEF IInv
  <2>2. PICK p : Chain(tx.retrans_buf, p, tx.next_seqno, tx.isn, tx.stream)
    BY <2>1, SMTT(60) DEF SenderOK
  <2>3. remaining_winsize(tx) \in Int
    <3>1. /\ effective_window(tx) \in 1 .. MW /\ p[1] \in Nat /\ tx.next_seqno \in Nat
          /\ remaining_winsize(tx) = effective_window(tx) - (tx.next_seqno - p[1])
      BY <2>1, <2>2, SenderTypes, SMTT(60)
    <3> QED
      BY <3>1, SMTT(60)
  <2> QED
    BY <2>1, <2>3, SMTT(60) DEF Idle, BS!buffer_empty
<1> QED
  BY <1>1, InitIInv, NextIInv, PTL DEF SenderSpec
=============================================================================
