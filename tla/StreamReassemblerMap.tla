------------------------ MODULE StreamReassemblerMap ------------------------
(***************************************************************************)
(* Lemmas about the map of a StreamReassembler: what its entries are and   *)
(* what they weigh, what truncate_data() keeps and what checked_insert()   *)
(* makes of the entries.                                                   *)
(*                                                                         *)
(* The methods act on a reassembler, which need not be the variable r, so  *)
(* what holds of it is a predicate on reassemblers.                        *)
(***************************************************************************)
EXTENDS StreamReassemblerSpec, DataInduction

\* A substring of the stream is a sequence of its indices.
LEMMA SubstringType ==
    ASSUME NEW i \in Nat, NEW n \in Nat
    PROVE  /\ Substring(i, n) \in Seq(Nat) /\ Len(Substring(i, n)) = n
           /\ \A j \in 1 .. n : Substring(i, n)[j] = i + j - 1
<1>1. \A j \in 1 .. n : i + j - 1 \in Nat
  OBVIOUS
<1> QED
  BY <1>1 DEF Substring

\* Two sequences with the same elements are equal.
LEMMA SameSeq ==
    ASSUME NEW V, NEW s \in Seq(V), NEW t \in Seq(V), Len(s) = Len(t),
           \A j \in 1 .. Len(s) : s[j] = t[j]
    PROVE  s = t
OBVIOUS

\* Cutting a substring, and joining two.
LEMMA SubstringCut ==
    ASSUME NEW i \in Nat, NEW n \in Nat, NEW k \in 0 .. n
    PROVE  /\ SubSeq(Substring(i, n), 1, k) = Substring(i, k)
           /\ Suffix(Substring(i, n), k) = Substring(i + k, n - k)
<1> DEFINE s == Substring(i, n)
           a == Substring(i, k)
           b == Substring(i + k, n - k)
<1>1. /\ s \in Seq(Nat) /\ Len(s) = n /\ \A j \in 1 .. n : s[j] = i + j - 1
      /\ a \in Seq(Nat) /\ Len(a) = k /\ \A j \in 1 .. k : a[j] = i + j - 1
      /\ b \in Seq(Nat) /\ Len(b) = n - k /\ \A j \in 1 .. n - k : b[j] = (i + k) + j - 1
  <2>1. k \in Nat /\ i + k \in Nat /\ n - k \in Nat
    OBVIOUS
  <2> QED
    BY <2>1, SubstringType, ZenonT(60)
<1> HIDE DEF s, a, b
<1> DEFINE p == SubSeq(s, 1, k)
           q == SubSeq(s, k + 1, Len(s))
<1>2. /\ p \in Seq(Nat) /\ Len(p) = k /\ \A j \in 1 .. k : p[j] = s[j]
      /\ q \in Seq(Nat) /\ Len(q) = n - k /\ \A j \in 1 .. n - k : q[j] = s[k + j]
  <2>1. k \in 0 .. Len(s)
    BY <1>1
  <2>2. /\ p \in Seq(Nat) /\ Len(p) = k /\ \A j \in 1 .. k : p[j] = s[j]
        /\ q \in Seq(Nat) /\ Len(q) = Len(s) - k /\ \A j \in 1 .. Len(s) - k : q[j] = s[k + j]
    <3>1. FirstPart(Nat, s, k, p) /\ LastPart(Nat, s, k, q)
      BY <1>1, <2>1, CutSeq, ZenonT(60)
    <3> HIDE DEF p, q
    <3> QED
      BY <3>1, ZenonT(60) DEF FirstPart, LastPart
  <2> HIDE DEF p, q
  <2> QED
    BY <1>1, <2>2
<1> HIDE DEF p, q
<1>3. p = a
  <2>1. \A j \in 1 .. k : p[j] = a[j]
    BY <1>1, <1>2
  <2> QED
    BY <1>1, <1>2, <2>1, SameSeq
<1>4. q = b
  <2>1. \A j \in 1 .. n - k : q[j] = b[j]
    BY <1>1, <1>2
  <2> QED
    BY <1>1, <1>2, <2>1, SameSeq
<1> QED
  BY <1>3, <1>4 DEF p, q, s, a, b, Suffix

\* Two adjacent substrings joined are one.
LEMMA SubstringJoin ==
    ASSUME NEW i \in Nat, NEW n \in Nat, NEW k \in Nat
    PROVE  Substring(i, n) \o Substring(i + n, k) = Substring(i, n + k)
<1> DEFINE a == Substring(i, n)
           b == Substring(i + n, k)
           c == Substring(i, n + k)
<1>1. /\ a \in Seq(Nat) /\ Len(a) = n /\ \A j \in 1 .. n : a[j] = i + j - 1
      /\ b \in Seq(Nat) /\ Len(b) = k /\ \A j \in 1 .. k : b[j] = (i + n) + j - 1
      /\ c \in Seq(Nat) /\ Len(c) = n + k /\ \A j \in 1 .. n + k : c[j] = i + j - 1
  <2>1. i + n \in Nat /\ n + k \in Nat
    OBVIOUS
  <2> QED
    BY <2>1, SubstringType, ZenonT(60)
<1> HIDE DEF a, b, c
<1> DEFINE d == a \o b
<1>2. /\ d \in Seq(Nat) /\ Len(d) = n + k
      /\ \A j \in 1 .. n + k : d[j] = IF j <= n THEN a[j] ELSE b[j - n]
  BY <1>1, JoinSeq, ZenonT(60)
<1> HIDE DEF d
<1>3. ASSUME NEW j \in 1 .. n + k PROVE d[j] = c[j]
  <2>1. CASE j <= n
    BY <1>1, <1>2, <2>1
  <2>2. CASE j > n
    <3>1. j - n \in 1 .. k /\ b[j - n] = (i + n) + (j - n) - 1
      BY <1>1, <2>2
    <3>2. d[j] = b[j - n] /\ c[j] = i + j - 1
      BY <1>1, <1>2, <2>2, SMTT(60)
    <3> QED
      BY <3>1, <3>2
  <2> QED
    BY <2>1, <2>2
<1>4. d = c
  BY <1>1, <1>2, <1>3, SameSeq
<1> QED
  BY <1>4 DEF a, b, c, d

\* The same, from i to j and from j to k.
LEMMA SubstringJoinAt ==
    ASSUME NEW i \in Nat, NEW j \in Nat, NEW k \in Nat, i <= j, j <= k
    PROVE  Substring(i, j - i) \o Substring(j, k - j) = Substring(i, k - i)
<1> DEFINE n == j - i
           l == k - j
<1>1. n \in Nat /\ l \in Nat /\ i + n = j /\ n + l = k - i
  OBVIOUS
<1> HIDE DEF n, l
<1>2. Substring(i, n) \o Substring(i + n, l) = Substring(i, n + l)
  BY <1>1, SubstringJoin, ZenonT(60)
<1> QED
  BY <1>1, <1>2, ZenonT(60) DEF n, l

\* The largest of some numbers below a bound.
LEMMA MaxBelow ==
    ASSUME NEW b \in Nat, NEW S \in SUBSET (0 .. b - 1), S # {}
    PROVE  Max(S) \in S /\ \A k \in S : k <= Max(S)
<1> DEFINE T == {b - k : k \in S}
<1>1. T \in SUBSET Nat /\ T # {}
  <2>1. ASSUME NEW k \in S PROVE b - k \in Nat
    OBVIOUS
  <2>2. T \subseteq Nat
    BY <2>1, ZenonT(60)
  <2>3. T # {}
    BY ZenonT(60)
  <2> QED
    BY <2>2, <2>3
<1>2. PICK m \in T : \A k \in T : m <= k
  <2> HIDE DEF T
  <2> QED
    BY <1>1, LeastNat
<1>3. b - m \in S /\ \A k \in S : k <= b - m
  BY <1>2, SMTT(60)
<1>4. \E x \in S : \A y \in S : x >= y
  BY <1>3
<1> QED
  BY <1>4 DEF Max
-----------------------------------------------------------------------------
\* Maps of substrings that end at or before b and share no byte.  An entry may
\* be empty, and lie anywhere then.
Maps(b) ==
    {m \in UNION {[D -> Seq(Nat)] : D \in SUBSET (0 .. b - 1)} :
        /\ \A e \in DOMAIN m : /\ m[e] = Substring(e, Len(m[e]))
                               /\ e + Len(m[e]) <= b
        /\ \A e, f \in DOMAIN m : e < f => e + Len(m[e]) <= f \/ Len(m[f]) = 0}

\* What it means to be in Maps, and how to show it.
LEMMA MapElim ==
    ASSUME NEW b \in Nat, NEW m \in Maps(b)
    PROVE  /\ DOMAIN m \in SUBSET (0 .. b - 1)
           /\ m \in [DOMAIN m -> Seq(Nat)]
           /\ \A e \in DOMAIN m : /\ e \in Nat /\ e < b
                                  /\ m[e] \in Seq(Nat) /\ Len(m[e]) \in Nat
                                  /\ m[e] = Substring(e, Len(m[e]))
                                  /\ e + Len(m[e]) <= b
           /\ \A e, f \in DOMAIN m : e < f => e + Len(m[e]) <= f \/ Len(m[f]) = 0
<1>1. PICK D \in SUBSET (0 .. b - 1) : m \in [D -> Seq(Nat)]
  BY DEF Maps
<1>2. DOMAIN m = D
  BY <1>1
<1>3. /\ \A e \in DOMAIN m : m[e] = Substring(e, Len(m[e])) /\ e + Len(m[e]) <= b
      /\ \A e, f \in DOMAIN m : e < f => e + Len(m[e]) <= f \/ Len(m[f]) = 0
  BY DEF Maps
<1>4. ASSUME NEW e \in DOMAIN m PROVE e \in Nat /\ e < b /\ m[e] \in Seq(Nat) /\ Len(m[e]) \in Nat
  BY <1>1, <1>2
<1> QED
  BY <1>1, <1>2, <1>3, <1>4

\* A map with these properties is a sound one.
LEMMA MapIntro ==
    ASSUME NEW b \in Nat, NEW D \in SUBSET (0 .. b - 1), NEW m \in [D -> Seq(Nat)],
           \A e \in D : m[e] = Substring(e, Len(m[e])) /\ e + Len(m[e]) <= b,
           \A e, f \in D : e < f => e + Len(m[e]) <= f \/ Len(m[f]) = 0
    PROVE  m \in Maps(b)
<1>1. DOMAIN m = D
  OBVIOUS
<1>2. m \in UNION {[E -> Seq(Nat)] : E \in SUBSET (0 .. b - 1)}
  BY ZenonT(60)
<1> QED
  BY <1>1, <1>2, ZenonT(60) DEF Maps

\* What is below one bound is below a larger one.
LEMMA MapsGrow ==
    ASSUME NEW b \in Nat, NEW c \in Nat, b <= c, NEW m \in Maps(b)
    PROVE  m \in Maps(c)
<1> DEFINE D == DOMAIN m
<1>1. /\ D \in SUBSET (0 .. b - 1) /\ m \in [D -> Seq(Nat)]
      /\ \A e \in D : /\ e \in Nat /\ Len(m[e]) \in Nat
                      /\ m[e] = Substring(e, Len(m[e])) /\ e + Len(m[e]) <= b
      /\ \A e, f \in D : e < f => e + Len(m[e]) <= f \/ Len(m[f]) = 0
  BY MapElim
<1> HIDE DEF D
<1>2. D \in SUBSET (0 .. c - 1)
  BY <1>1
<1>3. \A e \in D : m[e] = Substring(e, Len(m[e])) /\ e + Len(m[e]) <= c
  BY <1>1
<1> QED
  BY <1>1, <1>2, <1>3, MapIntro, ZenonT(60)

\* Erasing entries leaves the others.
LEMMA EraseMap ==
    ASSUME NEW b \in Nat, NEW m \in Maps(b), NEW K
    PROVE  /\ erase(m, K) \in Maps(b)
           /\ DOMAIN erase(m, K) = DOMAIN m \ K
           /\ \A e \in DOMAIN m \ K : erase(m, K)[e] = m[e]
<1> DEFINE D == DOMAIN m \ K
           t == erase(m, K)
<1>1. /\ DOMAIN m \in SUBSET (0 .. b - 1) /\ m \in [DOMAIN m -> Seq(Nat)]
      /\ \A e \in DOMAIN m : m[e] = Substring(e, Len(m[e])) /\ e + Len(m[e]) <= b
      /\ \A e, f \in DOMAIN m : e < f => e + Len(m[e]) <= f \/ Len(m[f]) = 0
  BY MapElim
<1>2. DOMAIN t = D /\ \A e \in D : t[e] = m[e]
  BY DEF erase
<1>3. D \in SUBSET (0 .. b - 1) /\ t \in [D -> Seq(Nat)]
  BY <1>1 DEF erase
<1> HIDE DEF t
<1>4. \A e \in D : t[e] = Substring(e, Len(t[e])) /\ e + Len(t[e]) <= b
  BY <1>1, <1>2, ZenonT(60)
<1>5. \A e, f \in D : e < f => e + Len(t[e]) <= f \/ Len(t[f]) = 0
  BY <1>1, <1>2, ZenonT(60)
<1>6. t \in Maps(b)
  <2> HIDE DEF D
  <2> QED
    BY <1>3, <1>4, <1>5, MapIntro, SMTT(60)
<1> QED
  BY <1>2, <1>6 DEF t

\* t is m with the entry of n bytes at i.
AddedTo(m, t, b, i, n) ==
    /\ t \in Maps(b)
    /\ DOMAIN t = DOMAIN m \union {i} /\ t[i] = Substring(i, n)
    /\ \A e \in DOMAIN m : t[e] = m[e]

\* A substring that shares no byte with the entries can be inserted.
LEMMA InsertMap ==
    ASSUME NEW b \in Nat, NEW m \in Maps(b), NEW i \in 0 .. b - 1, NEW n \in Nat,
           i \notin DOMAIN m, i + n <= b,
           \A e \in DOMAIN m : Len(m[e]) = 0 \/ n = 0 \/ e + Len(m[e]) <= i \/ i + n <= e
    PROVE  AddedTo(m, insert(m, i, Substring(i, n)), b, i, n)
<1> DEFINE D == DOMAIN m \union {i}
           d == Substring(i, n)
           t == insert(m, i, d)
<1>1. /\ DOMAIN m \in SUBSET (0 .. b - 1) /\ m \in [DOMAIN m -> Seq(Nat)]
      /\ \A e \in DOMAIN m : /\ e \in Nat /\ Len(m[e]) \in Nat
                             /\ m[e] = Substring(e, Len(m[e])) /\ e + Len(m[e]) <= b
      /\ \A e, f \in DOMAIN m : e < f => e + Len(m[e]) <= f \/ Len(m[f]) = 0
  BY MapElim
<1>2. d \in Seq(Nat) /\ Len(d) = n
  <2>1. i \in Nat
    OBVIOUS
  <2> QED
    BY <2>1, SubstringType, ZenonT(60)
<1>3. t = [k \in D |-> IF k = i THEN d ELSE m[k]]
  <2> HIDE DEF d
  <2> QED
    BY DEF insert
<1>4. D \in SUBSET (0 .. b - 1) /\ t \in [D -> Seq(Nat)]
  <2> HIDE DEF t, d
  <2> QED
    BY <1>1, <1>2, <1>3
<1>5. DOMAIN t = D /\ t[i] = d /\ \A e \in DOMAIN m : t[e] = m[e]
  <2> HIDE DEF t, d
  <2> QED
    BY <1>3
<1>6. \A e \in D : t[e] = Substring(e, Len(t[e])) /\ e + Len(t[e]) <= b
  <2>1. t[i] = Substring(i, Len(t[i])) /\ i + Len(t[i]) <= b
    <3>1. t[i] = Substring(i, n) /\ Len(t[i]) = n
      BY <1>2, <1>5
    <3> HIDE DEF t, d
    <3> QED
      BY <3>1, ZenonT(60)
  <2> HIDE DEF t, d
  <2> QED
    BY <1>1, <1>5, <2>1, ZenonT(60)
<1> HIDE DEF t, d
<1>7. ASSUME NEW e \in D, NEW f \in D, e < f PROVE e + Len(t[e]) <= f \/ Len(t[f]) = 0
  <2>1. CASE e # i /\ f # i
    BY <1>1, <1>5, <1>7, <2>1, ZenonT(60)
  <2>2. CASE e = i
    <3>1. f \in DOMAIN m /\ t[f] = m[f] /\ Len(t[e]) = n
      BY <1>2, <1>5, <1>7, <2>2
    <3> QED
      BY <1>1, <1>7, <2>2, <3>1, SMTT(60)
  <2>3. CASE f = i
    <3>1. e \in DOMAIN m /\ t[e] = m[e] /\ Len(t[f]) = n
      BY <1>2, <1>5, <1>7, <2>3
    <3> QED
      BY <1>1, <1>7, <2>3, <3>1
  <2> QED
    BY <2>1, <2>2, <2>3
<1>8. t \in Maps(b)
  <2> HIDE DEF D
  <2> QED
    BY <1>4, <1>6, <1>7, MapIntro, ZenonT(60)
<1>9. AddedTo(m, t, b, i, n)
  BY <1>5, <1>8, ZenonT(60) DEF AddedTo, d
<1> QED
  BY <1>9 DEF t, d
-----------------------------------------------------------------------------
\* The bytes in m: unassembled_bytes() of a reassembler with that map.
Weight(m) == InKeyOrder(LAMBDA n, k : n + Len(m[k]), 0, DOMAIN m)

\* f[k] is the number of bytes in the entries of m below k, for k up to b.
Sums(f, m, b) ==
    /\ f \in [0 .. b -> Nat] /\ f[0] = 0
    /\ \A k \in 0 .. b - 1 : f[k + 1] = f[k] + IF k \in DOMAIN m THEN Len(m[k]) ELSE 0

\* The loop of unassembled_bytes() adds up the sizes of the entries.
LEMMA WeightSums ==
    ASSUME NEW b \in Nat, NEW m \in Maps(b)
    PROVE  \E f : Sums(f, m, b) /\ f[b] = Weight(m)
<1> DEFINE D == DOMAIN m
           last == IF D = {} THEN 0 ELSE Max(D) + 1
           Rec(f) == f = [k \in 0 .. last |->
                            IF k = 0 THEN 0
                            ELSE IF k - 1 \in D
                            THEN With(f[k - 1], LAMBDA n : n + Len(m[k - 1]))
                            ELSE f[k - 1]]
           g == CHOOSE f : Rec(f)
           size == [k \in 0 .. b |-> IF k \in D THEN Len(m[k]) ELSE 0]
           step == [k \in 1 .. last |-> [x \in Nat |-> x + size[k - 1]]]
<1>1. D \in SUBSET (0 .. b - 1) /\ \A e \in D : Len(m[e]) \in Nat
  BY MapElim
<1>2. last \in 0 .. b /\ \A k \in D : k < last
  <2>1. CASE D = {}
    BY <2>1
  <2>2. CASE D # {}
    <3>1. Max(D) \in D /\ \A k \in D : k <= Max(D)
      <4> HIDE DEF D
      <4> QED
        BY <1>1, <2>2, MaxBelow, ZenonT(60)
    <3>2. last = Max(D) + 1
      BY <2>2
    <3> HIDE DEF D, last
    <3>3. Max(D) \in 0 .. b - 1
      BY <1>1, <3>1, ZenonT(60)
    <3> QED
      BY <1>1, <3>1, <3>2, <3>3
  <2> QED
    BY <2>1, <2>2
<1>3. size \in [0 .. b -> Nat]
  BY <1>1
<1>4. \A x, k : With(x, LAMBDA n : n + Len(m[k])) = x + Len(m[k])
  BY ZenonT(60) DEF With
<1>5. Weight(m) = g[last]
  BY ZenonT(60) DEF Weight, InKeyOrder
<1> HIDE DEF last
<1>6. \E f : Rec(f)
  <2>1. StaysIn(Nat, step, last)
    <3> HIDE DEF size
    <3> QED
      BY <1>2, <1>3 DEF StaysIn
  <2>2. PICK f : Iterates(f, Nat, 0, step, last)
    <3> HIDE DEF step
    <3> QED
      BY <1>2, <2>1, RecExists
  <2>3. f \in [0 .. last -> Nat] /\ f[0] = 0 /\ \A k \in 1 .. last : f[k] = step[k][f[k - 1]]
    <3> HIDE DEF step
    <3> QED
      BY <2>2 DEF Iterates
  <2>4. ASSUME NEW k \in 0 .. last
        PROVE  f[k] = IF k = 0 THEN 0
                      ELSE IF k - 1 \in D
                      THEN With(f[k - 1], LAMBDA n : n + Len(m[k - 1]))
                      ELSE f[k - 1]
    <3>1. CASE k = 0
      BY <2>3, <3>1, ZenonT(60)
    <3>2. CASE k # 0
      <4>1. k \in 1 .. last /\ k - 1 \in 0 .. last /\ k - 1 \in 0 .. b
        BY <1>2, <3>2
      <4>2. f[k - 1] \in Nat
        BY <2>3, <4>1
      <4>3. f[k] = f[k - 1] + size[k - 1]
        <5> HIDE DEF size
        <5> QED
          BY <2>3, <4>1, <4>2, ZenonT(60)
      <4>4. CASE k - 1 \in D
        <5>1. f[k] = f[k - 1] + Len(m[k - 1])
          BY <4>1, <4>3, <4>4
        <5>2. f[k] = With(f[k - 1], LAMBDA n : n + Len(m[k - 1]))
          BY <1>4, <5>1, ZenonT(60)
        <5> QED
          BY <3>2, <4>4, <5>2, ZenonT(60)
      <4>5. CASE k - 1 \notin D
        <5>1. f[k] = f[k - 1]
          BY <4>1, <4>2, <4>3, <4>5
        <5> QED
          BY <3>2, <4>5, <5>1, ZenonT(60)
      <4> QED
        BY <4>4, <4>5, ZenonT(60)
    <3> QED
      BY <3>1, <3>2, ZenonT(60)
  <2>5. f = [k \in 0 .. last |-> f[k]]
    BY <2>3
  <2>6. Rec(f)
    BY <2>4, <2>5, ZenonT(60)
  <2> QED
    BY <2>6, ZenonT(60)
<1>7. Rec(g)
  BY <1>6, ZenonT(60)
<1>8. \A k \in 0 .. last : g[k] = IF k = 0 THEN 0
                                  ELSE IF k - 1 \in D
                                  THEN With(g[k - 1], LAMBDA n : n + Len(m[k - 1]))
                                  ELSE g[k - 1]
  BY <1>7, ZenonT(60)
<1> HIDE DEF g, Rec
<1>9. ASSUME NEW k \in 0 .. last - 1
      PROVE  g[k + 1] = IF k \in D THEN g[k] + Len(m[k]) ELSE g[k]
  <2>1. ASSUME NEW i \in 0 .. last
        PROVE  g[i] = IF i = 0 THEN 0
                      ELSE IF i - 1 \in D THEN g[i - 1] + Len(m[i - 1]) ELSE g[i - 1]
    <3>1. With(g[i - 1], LAMBDA n : n + Len(m[i - 1])) = g[i - 1] + Len(m[i - 1])
      BY <1>4, ZenonT(60)
    <3> QED
      BY <1>8, <3>1, ZenonT(60)
  <2>2. k + 1 \in 0 .. last /\ k + 1 # 0 /\ (k + 1) - 1 = k
    BY <1>2
  <2> QED
    BY <2>1, <2>2
<1>10. g[0] = 0
  <2>1. 0 \in 0 .. last
    BY <1>2
  <2> QED
    BY <1>8, <2>1, ZenonT(60)
<1> DEFINE S == {k \in 0 .. last : g[k] \in Nat}
<1>11. 0 .. last \subseteq S
  <2>1. 0 \in S
    BY <1>2, <1>10
  <2>2. ASSUME NEW k \in 0 .. last - 1, k \in S PROVE k + 1 \in S
    <3>1. k + 1 \in 0 .. last /\ g[k] \in Nat
      BY <1>2, <2>2
    <3>2. g[k + 1] = IF k \in D THEN g[k] + Len(m[k]) ELSE g[k]
      BY <1>9
    <3>3. g[k + 1] \in Nat
      BY <1>1, <3>1, <3>2
    <3> QED
      BY <3>1, <3>3
  <2> HIDE DEF S
  <2> QED
    BY <1>2, <2>1, <2>2, IndUpTo
<1> DEFINE h == [k \in 0 .. b |-> IF k <= last THEN g[k] ELSE g[last]]
<1>12. h \in [0 .. b -> Nat] /\ h[0] = 0 /\ h[b] = g[last]
  BY <1>2, <1>10, <1>11
<1>13. ASSUME NEW k \in 0 .. b - 1
       PROVE  h[k + 1] = h[k] + IF k \in DOMAIN m THEN Len(m[k]) ELSE 0
  <2>1. k \in 0 .. b /\ k + 1 \in 0 .. b /\ g[last] \in Nat
    BY <1>2, <1>11
  <2>2. CASE k < last
    <3>1. k \in 0 .. last - 1 /\ g[k] \in Nat /\ h[k] = g[k] /\ h[k + 1] = g[k + 1]
      BY <1>2, <1>11, <2>1, <2>2
    <3> HIDE DEF h
    <3> QED
      BY <1>1, <1>9, <3>1
  <2>3. CASE k >= last
    <3>1. k \notin D /\ h[k] = g[last] /\ h[k + 1] = g[last]
      BY <1>2, <2>1, <2>3
    <3> HIDE DEF h
    <3> QED
      BY <2>1, <3>1
  <2> QED
    BY <1>2, <2>2, <2>3
<1> HIDE DEF h
<1> QED
  BY <1>5, <1>12, <1>13, ZenonT(60) DEF Sums

\* A weight is a number, and taking entries away does not add to it.
LEMMA WeightErase ==
    ASSUME NEW b \in Nat, NEW m \in Maps(b), NEW t \in Maps(b),
           DOMAIN t \subseteq DOMAIN m, \A e \in DOMAIN t : t[e] = m[e]
    PROVE  Weight(t) \in Nat /\ Weight(m) \in Nat /\ Weight(t) <= Weight(m)
<1>1. PICK f : Sums(f, m, b) /\ f[b] = Weight(m)
  BY WeightSums
<1>2. PICK g : Sums(g, t, b) /\ g[b] = Weight(t)
  BY WeightSums
<1>3. /\ f \in [0 .. b -> Nat] /\ f[0] = 0
      /\ \A k \in 0 .. b - 1 : f[k + 1] = f[k] + IF k \in DOMAIN m THEN Len(m[k]) ELSE 0
  BY <1>1 DEF Sums
<1>4. /\ g \in [0 .. b -> Nat] /\ g[0] = 0
      /\ \A k \in 0 .. b - 1 : g[k + 1] = g[k] + IF k \in DOMAIN t THEN Len(t[k]) ELSE 0
  BY <1>2 DEF Sums
<1>5. \A e \in DOMAIN m : Len(m[e]) \in Nat
  BY MapElim
<1> DEFINE S == {k \in 0 .. b : g[k] <= f[k]}
<1>6. 0 \in S
  BY <1>3, <1>4
<1>7. ASSUME NEW k \in 0 .. b - 1, k \in S PROVE k + 1 \in S
  <2>1. k \in 0 .. b /\ k + 1 \in 0 .. b /\ f[k] \in Nat /\ g[k] \in Nat /\ g[k] <= f[k]
    BY <1>3, <1>4, <1>7
  <2>2. CASE k \in DOMAIN t
    <3>1. k \in DOMAIN m /\ Len(t[k]) = Len(m[k]) /\ Len(m[k]) \in Nat
      BY <1>5, <2>2
    <3> QED
      BY <1>3, <1>4, <2>1, <2>2, <3>1
  <2>3. CASE k \notin DOMAIN t
    <3>1. g[k + 1] = g[k]
      BY <1>4, <2>1, <2>3
    <3>2. f[k + 1] >= f[k] /\ f[k + 1] \in Nat
      <4> DEFINE z == IF k \in DOMAIN m THEN Len(m[k]) ELSE 0
      <4>1. z \in Nat /\ f[k + 1] = f[k] + z
        BY <1>3, <1>5
      <4> HIDE DEF z
      <4> QED
        BY <2>1, <4>1
    <3> QED
      BY <2>1, <3>1, <3>2
  <2> QED
    BY <2>2, <2>3
<1> HIDE DEF S
<1>8. 0 .. b \subseteq S
  BY <1>6, <1>7, IndUpTo
<1>9. b \in S /\ b \in 0 .. b
  BY <1>8
<1>10. g[b] <= f[b] /\ g[b] \in Nat /\ f[b] \in Nat
  BY <1>3, <1>4, <1>9 DEF S
<1> QED
  BY <1>1, <1>2, <1>10

\* An entry more adds its size.
LEMMA WeightInsert ==
    ASSUME NEW b \in Nat, NEW m \in Maps(b), NEW t \in Maps(b), NEW i \in 0 .. b - 1,
           i \notin DOMAIN m, DOMAIN t = DOMAIN m \union {i},
           \A e \in DOMAIN m : t[e] = m[e]
    PROVE  Weight(t) = Weight(m) + Len(t[i])
<1>1. PICK f : Sums(f, m, b) /\ f[b] = Weight(m)
  BY WeightSums
<1>2. PICK g : Sums(g, t, b) /\ g[b] = Weight(t)
  BY WeightSums
<1>3. /\ f \in [0 .. b -> Nat] /\ f[0] = 0
      /\ \A k \in 0 .. b - 1 : f[k + 1] = f[k] + IF k \in DOMAIN m THEN Len(m[k]) ELSE 0
  BY <1>1 DEF Sums
<1>4. /\ g \in [0 .. b -> Nat] /\ g[0] = 0
      /\ \A k \in 0 .. b - 1 : g[k + 1] = g[k] + IF k \in DOMAIN t THEN Len(t[k]) ELSE 0
  BY <1>2 DEF Sums
<1>5. \A e \in DOMAIN t : Len(t[e]) \in Nat
  BY MapElim
<1> DEFINE n == Len(t[i])
           S == {k \in 0 .. b : g[k] = f[k] + IF k > i THEN n ELSE 0}
<1>6. n \in Nat
  BY <1>5
<1> HIDE DEF n
<1>7. 0 \in S
  BY <1>3, <1>4
<1>8. ASSUME NEW k \in 0 .. b - 1, k \in S PROVE k + 1 \in S
  <2>1. k \in 0 .. b /\ k + 1 \in 0 .. b /\ f[k] \in Nat /\ g[k] = f[k] + IF k > i THEN n ELSE 0
    BY <1>3, <1>8
  <2>2. CASE k = i
    <3>1. f[k + 1] = f[k] /\ g[k + 1] = g[k] + n /\ g[k] = f[k]
      BY <1>3, <1>4, <2>1, <2>2 DEF n
    <3> QED
      BY <1>6, <2>1, <2>2, <3>1
  <2>3. CASE k # i
    <3> DEFINE z == IF k \in DOMAIN m THEN Len(m[k]) ELSE 0
    <3>1. z = IF k \in DOMAIN t THEN Len(t[k]) ELSE 0
      BY <2>3
    <3>2. z \in Nat
      BY <1>5, <3>1
    <3>3. f[k + 1] = f[k] + z /\ g[k + 1] = g[k] + z
      BY <1>3, <1>4, <3>1
    <3> HIDE DEF z
    <3> QED
      BY <1>6, <2>1, <2>3, <3>2, <3>3
  <2> QED
    BY <2>2, <2>3
<1> HIDE DEF S
<1>9. 0 .. b \subseteq S
  BY <1>7, <1>8, IndUpTo
<1>10. b \in S /\ b > i
  BY <1>9
<1>11. g[b] = f[b] + n
  BY <1>10 DEF S
<1> QED
  BY <1>1, <1>2, <1>11 DEF n

\* Entries that share no byte fit between the first of them and their end.
LEMMA WeightSpan ==
    ASSUME NEW b \in Nat, NEW m \in Maps(b), NEW lo \in 0 .. b, \A e \in DOMAIN m : lo <= e
    PROVE  Weight(m) <= b - lo
<1>1. PICK f : Sums(f, m, b) /\ f[b] = Weight(m)
  BY WeightSums
<1>2. /\ f \in [0 .. b -> Nat] /\ f[0] = 0
      /\ \A k \in 0 .. b - 1 : f[k + 1] = f[k] + IF k \in DOMAIN m THEN Len(m[k]) ELSE 0
  BY <1>1 DEF Sums
<1>3. /\ \A e \in DOMAIN m : e \in Nat /\ Len(m[e]) \in Nat /\ e + Len(m[e]) <= b
      /\ \A e, g \in DOMAIN m : e < g => e + Len(m[e]) <= g \/ Len(m[g]) = 0
  BY MapElim
<1> DEFINE Ends(k, c) == \A e \in DOMAIN m : e < k => e + Len(m[e]) <= c
           S == {k \in 0 .. b : \A c \in lo .. b : Ends(k, c) => f[k] <= c - lo}
<1>4. 0 \in S
  BY <1>2
<1>5. ASSUME NEW k \in 0 .. b - 1, k \in S PROVE k + 1 \in S
  <2>1. k + 1 \in 0 .. b /\ k \in 0 .. b
    OBVIOUS
  <2>2. ASSUME NEW c \in lo .. b, Ends(k + 1, c) PROVE f[k + 1] <= c - lo
    <3>1. Ends(k, c)
      BY <1>3, <2>2
    <3>2. f[k] <= c - lo /\ f[k] \in Nat
      BY <1>2, <1>5, <2>1, <3>1, ZenonT(60)
    <3>3. CASE k \notin DOMAIN m \/ Len(m[k]) = 0
      <4>1. f[k + 1] = f[k]
        BY <1>2, <3>2, <3>3
      <4> QED
        BY <3>2, <4>1
    <3>4. CASE k \in DOMAIN m /\ Len(m[k]) # 0
      <4>1. Ends(k, k) /\ k \in lo .. b
        BY <1>3, <3>4
      <4>2. f[k] <= k - lo
        BY <1>5, <4>1
      <4>3. k + Len(m[k]) <= c /\ Len(m[k]) \in Nat
        BY <1>3, <2>2, <3>4
      <4>4. f[k + 1] = f[k] + Len(m[k])
        BY <1>2, <3>4, SMTT(60)
      <4> QED
        BY <3>2, <4>2, <4>3, <4>4, SMTT(60)
    <3> QED
      BY <3>3, <3>4
  <2> QED
    BY <2>1, <2>2
<1>6. 0 .. b \subseteq S
  <2> HIDE DEF S
  <2> QED
    BY <1>4, <1>5, IndUpTo
<1>7. b \in S /\ Ends(b, b) /\ b \in lo .. b
  BY <1>3, <1>6, SMTT(60)
<1>8. f[b] <= b - lo
  BY <1>7
<1> QED
  BY <1>1, <1>8
-----------------------------------------------------------------------------
\* size_t arithmetic on numbers in its range.
LEMMA SizeT ==
    /\ SIZE_MOD \in Nat \ {0} /\ SIZE_MAX \in Nat /\ SIZE_MAX < SIZE_MOD
    /\ \A x \in Int : size_t(x) \in Nat
    /\ \A x \in 0 .. SIZE_MAX : size_t(x) = x
<1>1. SIZE_MOD \in Nat \ {0}
  BY DEF SIZE_MOD
<1>2. SIZE_MAX = SIZE_MOD - 1
  BY DEF SIZE_MAX
<1>3. ASSUME NEW x \in Int PROVE size_t(x) \in Nat
  <2>1. x % SIZE_MOD \in 0 .. SIZE_MOD - 1
    BY <1>1
  <2> QED
    BY <1>1, <2>1 DEF size_t
<1>4. ASSUME NEW x \in 0 .. SIZE_MAX PROVE size_t(x) = x
  <2>1. x \in 0 .. SIZE_MOD - 1 /\ x = SIZE_MOD * 0 + x
    BY <1>1, <1>2
  <2>2. x % SIZE_MOD = x
    BY <1>1, <2>1
  <2> QED
    BY <2>2 DEF size_t
<1> QED
  BY <1>1, <1>2, <1>3, <1>4

\* The members of a reassembler whose entries end at or before b.
Outputs(cap) ==
    [buf : Seq(Nat), capacity : {cap}, bytes_written : Nat, bytes_read : Nat,
     input_ended : BOOLEAN, error : BOOLEAN]

Reassemblers(cap, b) ==
    [output : Outputs(cap), wait_map : Maps(b), capacity : {cap},
     wait_index : Nat, eof_index : {n \in Nat : n >= b}]

\* The output is the stream up to w.
OutOK(out, cap, w) ==
    /\ out \in Outputs(cap) /\ Len(out.buf) <= cap
    /\ out.bytes_read + Len(out.buf) = w /\ out.bytes_written = w
    /\ \A i \in 1 .. Len(out.buf) : out.buf[i] = out.bytes_read + i - 1

\* What holds at any time, and what holds between calls.
Loose(s, cap, b) ==
    /\ s \in Reassemblers(cap, b) /\ OutOK(s.output, cap, s.wait_index) /\ s.wait_index <= b
    /\ Len(s.output.buf) + Weight(s.wait_map) <= cap

Tight(s, cap, b) == Loose(s, cap, b) /\ \A e \in DOMAIN s.wait_map : e > s.wait_index

\* The types of what the methods use.
LEMMA LooseTypes ==
    ASSUME NEW cap \in Nat, NEW b \in Nat, NEW s, Loose(s, cap, b)
    PROVE  /\ s \in Reassemblers(cap, b) /\ s.output \in Outputs(cap) /\ s.wait_map \in Maps(b)
           /\ s.capacity = cap /\ s.output.capacity = cap
           /\ s.wait_index \in Nat /\ s.wait_index <= b
           /\ s.eof_index \in Nat /\ s.eof_index >= b
           /\ s.output.buf \in Seq(Nat) /\ Len(s.output.buf) \in Nat
           /\ s.output.bytes_read \in Nat /\ s.output.bytes_written \in Nat
           /\ s.output.input_ended \in BOOLEAN
           /\ s.output.bytes_read + Len(s.output.buf) = s.wait_index
           /\ s.output.bytes_written = s.wait_index
           /\ Weight(s.wait_map) \in Nat
           /\ Len(s.output.buf) + Weight(s.wait_map) <= cap
           /\ cap \in Nat
<1>1. s \in Reassemblers(cap, b)
  BY DEF Loose
<1>2. /\ s.output \in Outputs(cap) /\ s.wait_map \in Maps(b) /\ s.capacity = cap
      /\ s.wait_index \in Nat /\ s.eof_index \in Nat /\ s.eof_index >= b
  BY <1>1 DEF Reassemblers
<1>3. /\ s.output.capacity = cap /\ s.output.buf \in Seq(Nat)
      /\ s.output.bytes_read \in Nat /\ s.output.bytes_written \in Nat
      /\ s.output.input_ended \in BOOLEAN
  BY <1>2 DEF Outputs
<1>4. Len(s.output.buf) \in Nat
  BY <1>3
<1>5. Weight(s.wait_map) \in Nat
  BY <1>2, WeightErase
<1>6. /\ s.wait_index <= b /\ s.output.bytes_read + Len(s.output.buf) = s.wait_index
      /\ s.output.bytes_written = s.wait_index
      /\ Len(s.output.buf) + Weight(s.wait_map) <= cap
  BY DEF Loose, OutOK
<1>7. cap \in Nat
  OBVIOUS
<1> QED
  BY <1>1, <1>2, <1>3, <1>4, <1>5, <1>6, <1>7, ZenonT(60)

\* The first k bytes of a substring are what truncate_data() keeps.
Truncated(s, cap, i, n, j, k) ==
    /\ truncate_data(s, Substring(i, n), j) = Substring(i, k)
    /\ Len(s.output.buf) + Weight(s.wait_map) + k <= cap
    /\ /\ n > 0 /\ j < cap + s.output.bytes_read
       /\ Len(s.output.buf) + Weight(s.wait_map) < cap
       => k > 0

\* truncate_data() takes a prefix that fits, and takes something where there
\* is room and the index is within the window.
LEMMA TruncateEffect ==
    ASSUME NEW cap \in Nat, NEW b \in Nat, cap + b < SIZE_MAX, NEW s, Loose(s, cap, b),
           NEW i \in Nat, NEW n \in Nat, NEW j \in 0 .. b
    PROVE  \E k \in 0 .. n : Truncated(s, cap, i, n, j, k)
<1> DEFINE B == s.output.bytes_read
           z == Len(s.output.buf)
           w == Weight(s.wait_map)
           d == Substring(i, n)
           x == size_t(cap + B - j)
           y == size_t(cap - z - w)
           k == Output!MinOf(Output!MinOf(n, x), y)
<1>1. /\ s.capacity = cap /\ B \in Nat /\ z \in Nat /\ w \in Nat /\ z + w <= cap
      /\ s.wait_index \in Nat /\ s.wait_index <= b /\ B + z = s.wait_index
  BY LooseTypes, SMTT(60)
<1>2. d \in Seq(Nat) /\ Len(d) = n
  BY SubstringType
<1>3. truncate_data(s, d, j) = SubSeq(d, 1, k)
  <2>1. unassembled_bytes(s) = w
    BY ZenonT(60) DEF unassembled_bytes, Weight
  <2> HIDE DEF w, d
  <2> QED
    BY <1>1, <1>2, <2>1, ZenonT(60) DEF truncate_data, Output!buffer_size
<1> HIDE DEF B, z, w, d
<1>4. cap + B - j \in Int /\ cap - z - w \in 0 .. SIZE_MAX
  BY <1>1, SizeT
<1>5. x \in Nat /\ y = cap - z - w
  BY <1>4, SizeT, ZenonT(60)
<1>6. j < cap + B => x > 0
  <2>1. SUFFICES ASSUME j < cap + B PROVE x > 0
    OBVIOUS
  <2>2. cap + B - j \in 0 .. SIZE_MAX /\ cap + B - j > 0
    BY <1>1, <2>1, SizeT
  <2>3. x = cap + B - j
    BY <2>2, SizeT, ZenonT(60)
  <2> QED
    BY <2>2, <2>3
<1> HIDE DEF x, y
<1>7. k \in 0 .. n /\ k <= y /\ (n > 0 /\ x > 0 /\ y > 0 => k > 0)
  BY <1>1, <1>4, <1>5 DEF Output!MinOf
<1> HIDE DEF k
<1>8. SubSeq(d, 1, k) = Substring(i, k)
  BY <1>7, SubstringCut, ZenonT(60) DEF d
<1>9. z + w + k <= cap /\ (n > 0 /\ j < cap + B /\ z + w < cap => k > 0)
  BY <1>1, <1>4, <1>5, <1>6, <1>7
<1>10. Truncated(s, cap, i, n, j, k)
  BY <1>3, <1>8, <1>9, ZenonT(60) DEF Truncated, B, z, w, d
<1> QED
  BY <1>7, <1>10
-----------------------------------------------------------------------------
\* What checked_insert() has in hand while it goes over the entries that overlap
\* the new substring, which occupies i to h; those below k are done.
Ins == [index : Nat, data : Seq(Nat)]

Dropped(m, i, h, k) == \E c \in overlapping(m, i, h) : c < k /\ covers(m, i, h, c)

Joined(m, i, h, k, ins, a, z) ==
    /\ ins.index = a /\ ins.data = Substring(a, z - a)
    /\ a = i \/ (a \in overlapping(m, i, h) /\ a < k)
    /\ z = h + 1 \/ \E e \in overlapping(m, i, h) : e < k /\ e + Len(m[e]) = z

Merging(m, i, h, b, k, ins) ==
    /\ ins \in Ins
    /\ Dropped(m, i, h, k) => ins.data = << >>
    /\ ~Dropped(m, i, h, k) => \E a \in 0 .. i, z \in h + 1 .. b : Joined(m, i, h, k, ins, a, z)

\* Where an overlapping entry lies, and what that leaves for the entries before
\* it: if it is not covered, none of them reaches as far.
LEMMA OverlapFacts ==
    ASSUME NEW b \in Nat, NEW m \in Maps(b), NEW i \in Nat, NEW h \in Nat, i <= h, h < b,
           NEW e \in overlapping(m, i, h)
    PROVE  /\ e \in DOMAIN m /\ e \in 0 .. h /\ Len(m[e]) \in Nat
           /\ m[e] = Substring(e, Len(m[e])) /\ e + Len(m[e]) <= b
           /\ i < e + Len(m[e])
           /\ covered(m, i, h, e) <=> i <= e /\ e + Len(m[e]) <= h + 1
           /\ covers(m, i, h, e) <=> ~covered(m, i, h, e) /\ e <= i /\ e + Len(m[e]) > h
           /\ ~covered(m, i, h, e) =>
                 \A f \in DOMAIN m : f < e => f + Len(m[f]) <= e
<1>1. e \in DOMAIN m /\ i <= elem_end(m, e) /\ e <= h
  BY DEF overlapping
<1>2. /\ \A f \in DOMAIN m : /\ f \in Nat /\ Len(m[f]) \in Nat
                             /\ m[f] = Substring(f, Len(m[f])) /\ f + Len(m[f]) <= b
      /\ \A f, g \in DOMAIN m : f < g => f + Len(m[f]) <= g \/ Len(m[g]) = 0
  BY MapElim
<1> DEFINE n == Len(m[e])
<1>3. /\ e \in Nat /\ n \in Nat /\ m[e] = Substring(e, n) /\ e + n <= b
      /\ \A f \in DOMAIN m : f < e => f + Len(m[f]) <= e \/ n = 0
  BY <1>1, <1>2
<1>4. elem_end(m, e) = e + n - 1
  BY DEF elem_end
<1> HIDE DEF n
<1>5. i < e + n /\ e \in 0 .. h
  BY <1>1, <1>3, <1>4
<1>6. covered(m, i, h, e) <=> i <= e /\ e + n <= h + 1
  BY <1>3, <1>4 DEF covered
<1>7. covers(m, i, h, e) <=> ~covered(m, i, h, e) /\ e <= i /\ e + n > h
  BY <1>3, <1>4 DEF covers
<1>8. n = 0 => covered(m, i, h, e)
  BY <1>3, <1>5, <1>6
<1>9. ~covered(m, i, h, e) => \A f \in DOMAIN m : f < e => f + Len(m[f]) <= e
  BY <1>3, <1>8
<1> QED
  BY <1>1, <1>3, <1>5, <1>6, <1>7, <1>9, ZenonT(60) DEF n

\* merge() keeps the types.
LEMMA MergeType ==
    ASSUME NEW b \in Nat, NEW m \in Maps(b), NEW i \in Nat, NEW h \in Nat, i <= h, h < b,
           NEW e \in overlapping(m, i, h), NEW ins \in Ins
    PROVE  merge(m, i, h, ins, e) \in Ins
<1> DEFINE n == Len(m[e])
           tail == Suffix(m[e], h + 1 - e)
           head == SubSeq(m[e], 1, i - e)
<1>1. /\ e \in 0 .. h /\ n \in Nat /\ m[e] = Substring(e, n) /\ i < e + n
      /\ covered(m, i, h, e) <=> i <= e /\ e + n <= h + 1
      /\ covers(m, i, h, e) <=> ~covered(m, i, h, e) /\ e <= i /\ e + n > h
  BY OverlapFacts, SMTT(60)
<1>2. ins.index \in Nat /\ ins.data \in Seq(Nat)
  BY DEF Ins
<1> HIDE DEF n
<1>3. CASE covered(m, i, h, e)
  BY <1>3 DEF merge
<1>4. CASE ~covered(m, i, h, e) /\ covers(m, i, h, e)
  <2>1. merge(m, i, h, ins, e) = [ins EXCEPT !.data = << >>]
    BY <1>4, ZenonT(60) DEF merge
  <2>2. << >> \in Seq(Nat)
    OBVIOUS
  <2> QED
    BY <2>1, <2>2, ZenonT(60) DEF Ins
<1>5. CASE ~covered(m, i, h, e) /\ ~covers(m, i, h, e) /\ i <= e
  <2>1. merge(m, i, h, ins, e) = [ins EXCEPT !.data = ins.data \o tail]
    BY <1>5, ZenonT(60) DEF merge, Ins
  <2>2. h + 1 - e \in 0 .. n /\ e \in Nat
    BY <1>1, <1>5
  <2>3. tail \in Seq(Nat)
    <3>0. Suffix(Substring(e, n), h + 1 - e) = Substring(e + (h + 1 - e), n - (h + 1 - e))
      BY <1>1, <2>2, SubstringCut, SMTT(60)
    <3>1. tail = Substring(e + (h + 1 - e), n - (h + 1 - e))
      BY <1>1, <3>0, ZenonT(60)
    <3>2. e + (h + 1 - e) \in Nat /\ n - (h + 1 - e) \in Nat
      BY <1>1, <2>2
    <3> QED
      BY <3>1, <3>2, SubstringType, ZenonT(60)
  <2> HIDE DEF tail
  <2>4. ins.data \o tail \in Seq(Nat)
    BY <1>2, <2>3
  <2> QED
    BY <2>1, <2>4, ZenonT(60) DEF Ins
<1>6. CASE ~covered(m, i, h, e) /\ ~covers(m, i, h, e) /\ ~(i <= e)
  <2>1. merge(m, i, h, ins, e) = [index |-> e, data |-> head \o ins.data]
    BY <1>6, ZenonT(60) DEF merge
  <2>2. i - e \in 0 .. n /\ e \in Nat /\ i - e \in Nat
    BY <1>1, <1>6
  <2>3. head \in Seq(Nat)
    <3>0. SubSeq(Substring(e, n), 1, i - e) = Substring(e, i - e)
      <4>1. n \in Nat
        BY <1>1
      <4> QED
        BY <2>2, <4>1, SubstringCut, ZenonT(60)
    <3>1. head = Substring(e, i - e)
      BY <1>1, <3>0, ZenonT(60)
    <3> QED
      BY <2>2, <3>1, SubstringType, ZenonT(60)
  <2> HIDE DEF head
  <2>4. head \o ins.data \in Seq(Nat)
    BY <1>2, <2>3
  <2> QED
    BY <2>1, <2>2, <2>4, SMTT(60) DEF Ins
<1> QED
  BY <1>3, <1>4, <1>5, <1>6, ZenonT(60)

\* An entry that does not overlap leaves the state of the loop as it is.
LEMMA MergeSkip ==
    ASSUME NEW b \in Nat, NEW m \in Maps(b), NEW i \in Nat, NEW h \in Nat, i <= h, h < b,
           NEW k \in Nat, k \notin overlapping(m, i, h), NEW ins, Merging(m, i, h, b, k, ins)
    PROVE  Merging(m, i, h, b, k + 1, ins)
<1> DEFINE O == overlapping(m, i, h)
<1>1. \A e \in O : e \in Nat
  BY OverlapFacts
<1>2. \A e \in O : e < k + 1 <=> e < k
  BY <1>1
<1>3. Dropped(m, i, h, k + 1) <=> Dropped(m, i, h, k)
  BY <1>2, ZenonT(60) DEF Dropped
<1>4. \A a, z : Joined(m, i, h, k, ins, a, z) => Joined(m, i, h, k + 1, ins, a, z)
  BY <1>2, ZenonT(60) DEF Joined
<1> QED
  BY <1>3, <1>4, ZenonT(60) DEF Merging

\* One that does is dealt with so that the invariant of the loop holds of one
\* entry more.
LEMMA MergeStep ==
    ASSUME NEW b \in Nat, NEW m \in Maps(b), NEW i \in Nat, NEW h \in Nat, i <= h, h < b,
           NEW e \in overlapping(m, i, h), NEW ins, Merging(m, i, h, b, e, ins)
    PROVE  Merging(m, i, h, b, e + 1, merge(m, i, h, ins, e))
<1> DEFINE O == overlapping(m, i, h)
           n == Len(m[e])
           new == merge(m, i, h, ins, e)
<1>1. /\ e \in 0 .. h /\ n \in Nat /\ m[e] = Substring(e, n) /\ e + n <= b /\ i < e + n
      /\ covered(m, i, h, e) <=> i <= e /\ e + n <= h + 1
      /\ covers(m, i, h, e) <=> ~covered(m, i, h, e) /\ e <= i /\ e + n > h
  BY OverlapFacts, SMTT(60)
<1>2. ~covered(m, i, h, e) => \A f \in O : f < e => f + Len(m[f]) <= e
  BY OverlapFacts, ZenonT(60)
<1>3. \A f \in O : /\ f \in Nat /\ Len(m[f]) \in Nat /\ i < f + Len(m[f])
                   /\ covers(m, i, h, f) => f + Len(m[f]) > h
  BY OverlapFacts, SMTT(60)
<1>4. \A f \in O : f < e + 1 <=> f < e \/ f = e
  BY <1>1, <1>3
<1>5. ins \in Ins /\ new \in Ins
  BY MergeType, ZenonT(60) DEF Merging
<1> HIDE DEF n, O
<1>6. Dropped(m, i, h, e + 1) <=> Dropped(m, i, h, e) \/ covers(m, i, h, e)
  BY <1>4, ZenonT(60) DEF Dropped, O
<1>7. ~covered(m, i, h, e) => ~Dropped(m, i, h, e)
  <2>1. ASSUME ~covered(m, i, h, e), NEW c \in O, c < e, covers(m, i, h, c) PROVE FALSE
    <3>1. c + Len(m[c]) <= e /\ c + Len(m[c]) > h /\ c \in Nat /\ Len(m[c]) \in Nat
      BY <1>2, <1>3, <2>1
    <3> QED
      BY <1>1, <3>1
  <2> QED
    BY <2>1, ZenonT(60) DEF Dropped, O
<1>8. \A a, z : Joined(m, i, h, e, ins, a, z) => Joined(m, i, h, e + 1, ins, a, z)
  BY <1>4, ZenonT(60) DEF Joined, O
<1>9. CASE covered(m, i, h, e)
  <2>1. new = ins
    BY <1>9 DEF merge
  <2>2. ~covers(m, i, h, e)
    BY <1>1, <1>9
  <2> QED
    BY <1>5, <1>6, <1>8, <2>1, <2>2, ZenonT(60) DEF Merging
<1>10. CASE ~covered(m, i, h, e) /\ covers(m, i, h, e)
  <2>1. new = [ins EXCEPT !.data = << >>]
    BY <1>10, ZenonT(60) DEF merge
  <2>2. new.data = << >>
    BY <1>5, <2>1 DEF Ins
  <2> QED
    BY <1>5, <1>6, <1>10, <2>2, ZenonT(60) DEF Merging
<1>11. CASE ~covered(m, i, h, e) /\ ~covers(m, i, h, e)
  <2>1. ~Dropped(m, i, h, e + 1) /\ ~Dropped(m, i, h, e)
    BY <1>6, <1>7, <1>11
  <2>2. PICK a \in 0 .. i, z \in h + 1 .. b : Joined(m, i, h, e, ins, a, z)
    BY <2>1, ZenonT(60) DEF Merging
  <2>3. /\ ins.index = a /\ ins.data = Substring(a, z - a)
        /\ a = i \/ (a \in O /\ a < e)
        /\ z = h + 1 \/ \E f \in O : f < e /\ f + Len(m[f]) = z
    BY <2>2, ZenonT(60) DEF Joined, O
  <2>4. a \in Nat /\ z \in Nat /\ a <= i /\ h < z /\ z <= b /\ z - a \in Nat
    BY <2>2
  <2>5. \A f \in O : f < e => f + Len(m[f]) <= e
    BY <1>2, <1>11
  <2>6. CASE i <= e
    <3>1. z = h + 1
      <4>1. ASSUME NEW f \in O, f < e, f + Len(m[f]) = z PROVE FALSE
        <5>1. z <= e
          BY <2>5, <4>1
        <5> QED
          BY <1>1, <2>4, <5>1
      <4> QED
        BY <2>3, <4>1
    <3> DEFINE tail == Suffix(m[e], h + 1 - e)
    <3>2. new = [ins EXCEPT !.data = ins.data \o tail]
      BY <1>11, <1>5, <2>6, ZenonT(60) DEF merge, Ins
    <3>3. h + 1 - e \in 0 .. n /\ e \in Nat /\ n \in Nat
      BY <1>1, <1>11, <2>6
    <3>4. tail = Substring(h + 1, (e + n) - (h + 1))
      <4>1. Suffix(Substring(e, n), h + 1 - e) = Substring(e + (h + 1 - e), n - (h + 1 - e))
        BY <3>3, SubstringCut, ZenonT(60)
      <4>2. e + (h + 1 - e) = h + 1 /\ n - (h + 1 - e) = (e + n) - (h + 1)
        BY <3>3
      <4> QED
        BY <1>1, <4>1, <4>2, ZenonT(60)
    <3> HIDE DEF tail, new
    <3>5. new.index = a /\ new.data = Substring(a, (h + 1) - a) \o Substring(h + 1, (e + n) - (h + 1))
      <4>1. new.index = ins.index /\ new.data = ins.data \o tail
        BY <1>5, <3>2, ZenonT(60) DEF Ins
      <4> QED
        BY <2>3, <3>1, <3>4, <4>1, ZenonT(60)
    <3>6. /\ a \in Nat /\ (h + 1) - a \in Nat /\ (e + n) - (h + 1) \in Nat
          /\ a + ((h + 1) - a) = h + 1 /\ ((h + 1) - a) + ((e + n) - (h + 1)) = (e + n) - a
      BY <2>4, <3>1, <3>3
    <3>7. new.data = Substring(a, (e + n) - a)
      <4>1. h + 1 \in Nat /\ e + n \in Nat /\ a <= h + 1 /\ h + 1 <= e + n
        BY <3>3, <3>6
      <4>2. Substring(a, (h + 1) - a) \o Substring(h + 1, (e + n) - (h + 1))
              = Substring(a, (e + n) - a)
        BY <3>6, <4>1, SubstringJoinAt, ZenonT(60)
      <4> QED
        BY <3>5, <4>2, ZenonT(60)
    <3>8. e + n \in h + 1 .. b
      BY <1>1, <3>3, <3>6
    <3>9. Joined(m, i, h, e + 1, new, a, e + n)
      <4>1. e \in O /\ e < e + 1
        BY <3>3 DEF O
      <4> QED
        BY <1>4, <2>3, <3>5, <3>7, <4>1, ZenonT(60) DEF Joined, O, n
    <3> QED
      BY <1>5, <2>1, <2>2, <3>8, <3>9, ZenonT(60) DEF Merging, new
  <2>7. CASE ~(i <= e)
    <3>1. a = i
      <4>1. ASSUME a \in O, a < e PROVE FALSE
        <5>1. a + Len(m[a]) <= e /\ i < a + Len(m[a]) /\ Len(m[a]) \in Nat
          BY <1>3, <2>5, <4>1
        <5> QED
          BY <1>1, <2>4, <2>7, <5>1
      <4> QED
        BY <2>3, <4>1
    <3> DEFINE head == SubSeq(m[e], 1, i - e)
    <3>2. new = [index |-> e, data |-> head \o ins.data]
      BY <1>11, <2>7, ZenonT(60) DEF merge
    <3>3. i - e \in 0 .. n /\ e \in Nat /\ n \in Nat /\ i - e \in Nat
      BY <1>1, <2>7
    <3>4. head = Substring(e, i - e)
      <4>1. SubSeq(Substring(e, n), 1, i - e) = Substring(e, i - e)
        BY <3>3, SubstringCut, ZenonT(60)
      <4> QED
        BY <1>1, <4>1, ZenonT(60)
    <3> HIDE DEF head
    <3>5. new.index = e /\ new.data = Substring(e, i - e) \o Substring(i, z - i)
      BY <2>3, <3>1, <3>2, <3>4, SMTT(60)
    <3>6. z - i \in Nat /\ e + (i - e) = i /\ (i - e) + (z - i) = z - e
      BY <2>4, <3>1, <3>3
    <3>7. new.data = Substring(e, z - e)
      <4>1. e \in Nat /\ z \in Nat /\ e <= i /\ i <= z
        BY <2>4, <3>1, <3>3
      <4>2. Substring(e, i - e) \o Substring(i, z - i) = Substring(e, z - e)
        BY <4>1, SubstringJoinAt, ZenonT(60)
      <4> QED
        BY <3>5, <4>2, ZenonT(60)
    <3>8. e \in 0 .. i
      BY <2>7, <3>3
    <3>9. Joined(m, i, h, e + 1, new, e, z)
      BY <1>4, <2>3, <3>5, <3>7, ZenonT(60) DEF Joined, O
    <3> QED
      BY <1>5, <2>1, <2>2, <3>8, <3>9, ZenonT(60) DEF Merging, new
  <2> QED
    BY <2>6, <2>7
<1> QED
  BY <1>9, <1>10, <1>11, ZenonT(60)

\* A loop over the entries of a std::map: f[k] is what those below k have made of
\* base, step[k] is what the entry k does, and f[k] is always in P[k].
LastKey(S) == IF S = {} THEN 0 ELSE Max(S) + 1

LoopsOver(f, S, base, step, P) ==
    /\ f[0] = base
    /\ \A k \in 0 .. LastKey(S) : f[k] \in P[k]
    /\ \A k \in 1 .. LastKey(S) : f[k] = IF k - 1 \in S THEN step[k - 1][f[k - 1]] ELSE f[k - 1]

\* The last key up to a bound is the largest.
LEMMA LastKeyAbove ==
    ASSUME NEW b \in Nat, NEW S \in SUBSET (0 .. b - 1)
    PROVE  LastKey(S) \in 0 .. b /\ \A k \in S : k < LastKey(S)
<1>1. CASE S = {}
  BY <1>1 DEF LastKey
<1>2. CASE S # {}
  <2>1. Max(S) \in S /\ \A k \in S : k <= Max(S)
    BY <1>2, MaxBelow
  <2>2. LastKey(S) = Max(S) + 1
    BY <1>2, ZenonT(60) DEF LastKey
  <2>3. Max(S) \in 0 .. b - 1
    BY <2>1, ZenonT(60)
  <2> QED
    BY <2>1, <2>2, <2>3
<1> QED
  BY <1>1, <1>2

\* Steps that lead from P[k] to P[k + 1] make a loop.
LEMMA LoopExists ==
    ASSUME NEW b \in Nat, NEW S \in SUBSET (0 .. b - 1), NEW P, NEW base \in P[0], NEW step,
           \A k \in 0 .. b - 1 : \A x \in P[k] :
               (k \in S => step[k][x] \in P[k + 1]) /\ (k \notin S => x \in P[k + 1])
    PROVE  \E f : /\ f = [k \in 0 .. LastKey(S) |-> f[k]]
                  /\ LoopsOver(f, S, base, step, P)
<1> DEFINE n == LastKey(S)
           X == UNION {P[k] : k \in 0 .. n}
           t(k, x) == IF k - 1 \in S THEN step[k - 1][x] ELSE x
           total == [k \in 1 .. n |-> [x \in X |-> IF t(k, x) \in X THEN t(k, x) ELSE base]]
<1>1. n \in 0 .. b
  BY LastKeyAbove
<1> HIDE DEF n
<1>2. n \in Nat /\ 0 \in 0 .. n
  BY <1>1
<1>3. base \in X
  BY <1>2
<1>4. StaysIn(X, total, n)
  <2>1. \A k \in 1 .. n, x \in X : total[k][x] = IF t(k, x) \in X THEN t(k, x) ELSE base
    <3> HIDE DEF X, t
    <3> QED
      OBVIOUS
  <2> HIDE DEF X, t, total
  <2> QED
    BY <1>3, <2>1 DEF StaysIn
<1>5. PICK f : Iterates(f, X, base, total, n)
  <2> HIDE DEF X, total
  <2> QED
    BY <1>2, <1>3, <1>4, RecExists, ZenonT(60)
<1>6. f \in [0 .. n -> X] /\ f[0] = base /\ \A k \in 1 .. n : f[k] = total[k][f[k - 1]]
  <2> HIDE DEF X, total
  <2> QED
    BY <1>5, ZenonT(60) DEF Iterates
<1>7. ASSUME NEW k \in 0 .. n - 1, f[k] \in P[k]
      PROVE  f[k + 1] \in P[k + 1] /\ f[k + 1] = t(k + 1, f[k])
  <2>1. k \in 0 .. b - 1 /\ k + 1 \in 1 .. n /\ k + 1 \in 0 .. n /\ k + 1 - 1 = k /\ k \in 0 .. n
    BY <1>1
  <2>2. t(k + 1, f[k]) = IF k \in S THEN step[k][f[k]] ELSE f[k]
    BY <2>1
  <2>3. t(k + 1, f[k]) \in P[k + 1]
    <3> HIDE DEF t
    <3> QED
      BY <1>7, <2>1, <2>2, ZenonT(60)
  <2>4. t(k + 1, f[k]) \in X /\ f[k] \in X
    <3> HIDE DEF t
    <3> QED
      BY <1>7, <2>1, <2>3, ZenonT(60)
  <2>5. f[k + 1] = total[k + 1][f[k]]
    <3> HIDE DEF total
    <3> QED
      BY <1>6, <2>1
  <2>6. total[k + 1][f[k]] = t(k + 1, f[k])
    <3> HIDE DEF X, t
    <3> QED
      BY <2>1, <2>4
  <2> HIDE DEF total, t
  <2> QED
    BY <2>3, <2>5, <2>6
<1> DEFINE H == {k \in 0 .. n : f[k] \in P[k]}
<1>8. 0 .. n \subseteq H
  <2>1. 0 \in H
    BY <1>2, <1>6, SMTT(60)
  <2>2. \A k \in 0 .. n - 1 : k \in H => k + 1 \in H
    <3> HIDE DEF X, t, total
    <3> QED
      BY <1>2, <1>7
  <2> HIDE DEF H
  <2> QED
    BY <1>2, <2>1, <2>2, IndUpTo, ZenonT(60)
<1>9. \A k \in 0 .. n : f[k] \in P[k]
  BY <1>8, ZenonT(60)
<1>10. ASSUME NEW k \in 1 .. n PROVE f[k] = IF k - 1 \in S THEN step[k - 1][f[k - 1]] ELSE f[k - 1]
  <2>1. k - 1 \in 0 .. n - 1 /\ k - 1 + 1 = k /\ k - 1 \in 0 .. n
    BY <1>2
  <2>2. f[k - 1 + 1] = t(k - 1 + 1, f[k - 1])
    <3> HIDE DEF X, t, total
    <3> QED
      BY <1>7, <1>9, <2>1, ZenonT(60)
  <2>3. f[k] = t(k, f[k - 1])
    <3> HIDE DEF X, t, total
    <3> QED
      BY <2>1, <2>2
  <2> QED
    BY <2>3, ZenonT(60)
<1>11. f = [k \in 0 .. n |-> f[k]]
  <2> HIDE DEF X, total
  <2> QED
    BY <1>6, ZenonT(60)
<1> QED
  BY <1>6, <1>9, <1>10, <1>11, ZenonT(60) DEF LoopsOver, n

\* What is to be inserted once the loop of checked_insert() has merged every entry
\* that overlaps the new substring.
LEMMA MergedEffect ==
    ASSUME NEW b \in Nat, NEW m \in Maps(b), NEW i \in Nat, NEW c \in Nat \ {0}, i + c <= b,
           NEW data \in Seq(Nat), data = Substring(i, c), Len(data) = c
    PROVE  Merging(m, i, i + c - 1, b, b, merged(m, data, i))
<1> DEFINE h == i + Len(data) - 1
           O == overlapping(m, i, h)
           n == LastKey(O)
           base == [index |-> i, data |-> data]
           step == [k \in O |-> [x \in Ins |-> merge(m, i, h, x, k)]]
           P == [k \in 0 .. b |-> {x \in Ins : Merging(m, i, h, b, k, x)}]
           Rec(f) == f = [k \in 0 .. n |->
                            IF k = 0 THEN base
                            ELSE IF k - 1 \in O
                            THEN With(f[k - 1], LAMBDA acc : merge(m, i, h, acc, k - 1))
                            ELSE f[k - 1]]
           g == CHOOSE f : Rec(f)
<1>3. merged(m, data, i) = g[n]
  BY ZenonT(60) DEF merged, InKeyOrder, LastKey
<1>0. h = i + c - 1 /\ h \in Nat /\ i <= h /\ h < b /\ data = Substring(i, (h + 1) - i)
  <2>1. (h + 1) - i = c /\ h = i + c - 1 /\ h \in Nat /\ i <= h /\ h < b
    OBVIOUS
  <2> HIDE DEF h
  <2> QED
    BY <2>1, ZenonT(60)
<1> HIDE DEF h
<1>1. O \in SUBSET (0 .. b - 1)
  <2>1. \A e \in O : e \in 0 .. h
    BY <1>0, OverlapFacts, ZenonT(60)
  <2> HIDE DEF O
  <2> QED
    BY <1>0, <2>1
<1>2. n \in 0 .. b /\ \A k \in O : k < n
  <2> HIDE DEF O
  <2> QED
    BY <1>1, LastKeyAbove
<1> HIDE DEF n
<1>4. \A x, k : With(x, LAMBDA acc : merge(m, i, h, acc, k)) = merge(m, i, h, x, k)
  BY ZenonT(60) DEF With
<1>5. \A k \in 0 .. b : \A x : x \in P[k] <=> Merging(m, i, h, b, k, x)
  BY ZenonT(60) DEF Merging
<1>6. base \in P[0]
  <2>1. ~Dropped(m, i, h, 0)
    <3>1. \A e \in O : ~(e < 0)
      BY <1>1
    <3> QED
      BY <3>1, ZenonT(60) DEF Dropped
  <2>2. base \in Ins /\ base.index = i /\ base.data = data
    BY DEF Ins
  <2>3. i \in 0 .. i /\ h + 1 \in h + 1 .. b /\ 0 \in 0 .. b
    BY <1>0
  <2> HIDE DEF base, P
  <2>4. Joined(m, i, h, 0, base, i, h + 1)
    BY <1>0, <2>2, ZenonT(60) DEF Joined
  <2> QED
    BY <1>5, <2>1, <2>2, <2>3, <2>4, ZenonT(60) DEF Merging
<1>7. ASSUME NEW k \in 0 .. b - 1, NEW x \in P[k]
      PROVE  /\ k \in O => merge(m, i, h, x, k) \in P[k + 1]
             /\ k \notin O => x \in P[k + 1]
             /\ x \in Ins
  <2>1. k \in 0 .. b /\ k + 1 \in 0 .. b /\ k \in Nat
    OBVIOUS
  <2>2. Merging(m, i, h, b, k, x)
    BY <1>5, <1>7, <2>1, ZenonT(60)
  <2> HIDE DEF P
  <2>3. k \in O => Merging(m, i, h, b, k + 1, merge(m, i, h, x, k))
    BY <1>0, <2>2, MergeStep, ZenonT(60)
  <2>4. k \notin O => Merging(m, i, h, b, k + 1, x)
    BY <1>0, <2>1, <2>2, MergeSkip, ZenonT(60)
  <2>5. x \in Ins
    BY <2>2 DEF Merging
  <2> QED
    BY <1>5, <2>1, <2>3, <2>4, <2>5, ZenonT(60)
<1>8. \A k \in O, x \in Ins : step[k][x] = merge(m, i, h, x, k)
  <2> HIDE DEF O
  <2> QED
    OBVIOUS
<1>9. \E f : Rec(f)
  <2>1. \A k \in 0 .. b - 1 : \A x \in P[k] :
            (k \in O => step[k][x] \in P[k + 1]) /\ (k \notin O => x \in P[k + 1])
    <3> HIDE DEF P, step, O
    <3> QED
      BY <1>7, <1>8, ZenonT(60)
  <2>2. PICK f : f = [k \in 0 .. n |-> f[k]] /\ LoopsOver(f, O, base, step, P)
    <3> HIDE DEF P, step, O, base
    <3> QED
      BY <1>1, <1>6, <2>1, LoopExists, ZenonT(60) DEF n
  <2>3. /\ f[0] = base
        /\ \A k \in 0 .. n : f[k] \in P[k]
        /\ \A k \in 1 .. n : f[k] = IF k - 1 \in O THEN step[k - 1][f[k - 1]] ELSE f[k - 1]
    <3> HIDE DEF P, step, O, base
    <3> QED
      BY <2>2, ZenonT(60) DEF LoopsOver, n
  <2>4. ASSUME NEW k \in 0 .. n
        PROVE  f[k] = IF k = 0 THEN base
                      ELSE IF k - 1 \in O
                      THEN With(f[k - 1], LAMBDA acc : merge(m, i, h, acc, k - 1))
                      ELSE f[k - 1]
    <3>1. k = 0 \/ (k # 0 /\ k \in 1 .. n /\ k - 1 \in 0 .. n /\ k - 1 \in 0 .. b - 1)
      BY <1>2
    <3> HIDE DEF P, step, O, base
    <3>2. CASE k = 0
      BY <2>3, <3>2, ZenonT(60)
    <3>3. CASE k # 0
      <4>1. k \in 1 .. n /\ k - 1 \in 0 .. n
        BY <3>1, <3>3
      <4>2. f[k] = IF k - 1 \in O THEN step[k - 1][f[k - 1]] ELSE f[k - 1]
        BY <2>3, <4>1, ZenonT(60)
      <4>3. f[k - 1] \in Ins
        BY <1>7, <2>3, <3>1, <3>3, <4>1, ZenonT(60)
      <4>4. k - 1 \in O => step[k - 1][f[k - 1]] = merge(m, i, h, f[k - 1], k - 1)
        BY <1>8, <4>3, ZenonT(60)
      <4> QED
        BY <1>4, <3>3, <4>2, <4>4, ZenonT(60)
    <3> QED
      BY <3>2, <3>3
  <2> HIDE DEF base, O
  <2> QED
    BY <2>2, <2>4, ZenonT(60)
<1>10. Rec(g)
  <2> HIDE DEF Rec
  <2> QED
    BY <1>9, ZenonT(60)
<1> HIDE DEF g, base, O, step, P
<1>11. g[0] = base /\ \A k \in 0 .. n - 1 : g[k + 1] = IF k \in O THEN merge(m, i, h, g[k], k) ELSE g[k]
  <2>1. \A k \in 0 .. n : g[k] = IF k = 0 THEN base
                                 ELSE IF k - 1 \in O THEN merge(m, i, h, g[k - 1], k - 1)
                                 ELSE g[k - 1]
    BY <1>4, <1>10, ZenonT(60)
  <2>2. 0 \in 0 .. n /\ \A k \in 0 .. n - 1 : k + 1 \in 0 .. n /\ k + 1 # 0 /\ k + 1 - 1 = k
    BY <1>2
  <2> QED
    BY <2>1, <2>2, SMTT(60)
<1> DEFINE H == {k \in 0 .. n : g[k] \in P[k]}
<1>12. 0 .. n \subseteq H
  <2>1. 0 \in H
    BY <1>2, <1>6, <1>11
  <2>2. ASSUME NEW k \in 0 .. n - 1, k \in H PROVE k + 1 \in H
    <3>1. k \in 0 .. b - 1 /\ k + 1 \in 0 .. n /\ g[k] \in P[k]
      BY <1>2, <2>2
    <3> QED
      BY <1>7, <1>11, <3>1, ZenonT(60)
  <2> HIDE DEF H
  <2>3. n \in Nat
    BY <1>2
  <2> QED
    BY <2>1, <2>2, <2>3, IndUpTo, ZenonT(60)
<1>13. Merging(m, i, h, b, n, g[n])
  <2>1. n \in 0 .. n
    BY <1>2
  <2> QED
    BY <1>2, <1>5, <1>12, <2>1, ZenonT(60)
<1>14. \A e \in O : e < n /\ e < b
  BY <1>1, <1>2
<1>15. Dropped(m, i, h, n) <=> Dropped(m, i, h, b)
  BY <1>14, ZenonT(60) DEF Dropped, O
<1>16. \A a, z : Joined(m, i, h, n, g[n], a, z) => Joined(m, i, h, b, g[n], a, z)
  BY <1>14, ZenonT(60) DEF Joined, O
<1> QED
  BY <1>0, <1>3, <1>13, <1>15, <1>16, ZenonT(60) DEF Merging

\* A reassembler with another map that fits.
LEMMA LooseMap ==
    ASSUME NEW cap \in Nat, NEW b \in Nat, NEW s, Loose(s, cap, b), NEW M \in Maps(b),
           Len(s.output.buf) + Weight(M) <= cap,
           NEW t, t = [s EXCEPT !.wait_map = M]
    PROVE  /\ Loose(t, cap, b) /\ t.wait_map = M /\ t.output = s.output
           /\ t.wait_index = s.wait_index /\ t.eof_index = s.eof_index
<1>1. s \in Reassemblers(cap, b) /\ OutOK(s.output, cap, s.wait_index) /\ s.wait_index <= b
  BY DEF Loose
<1>2. /\ t.wait_map = M /\ t.output = s.output
      /\ t.wait_index = s.wait_index /\ t.eof_index = s.eof_index
  BY <1>1, ZenonT(60) DEF Reassemblers
<1>3. t \in Reassemblers(cap, b)
  BY <1>1, ZenonT(60) DEF Reassemblers
<1> QED
  BY <1>1, <1>2, <1>3, ZenonT(60) DEF Loose

\* checked_insert() changes nothing but the map; it adds at most the key of the
\* new substring, and keeps the entries that do not overlap it.
Inserted(s, t, cap, b, i, c) ==
    /\ Loose(t, cap, b)
    /\ t.output = s.output /\ t.wait_index = s.wait_index /\ t.eof_index = s.eof_index
    /\ DOMAIN t.wait_map \subseteq DOMAIN s.wait_map \union {i}
    /\ \A e \in DOMAIN s.wait_map \ overlapping(s.wait_map, i, i + c - 1) :
          e \in DOMAIN t.wait_map /\ t.wait_map[e] = s.wait_map[e]

\* checked_insert() of a substring of the stream leaves a sound map.
LEMMA InsertEffect ==
    ASSUME NEW cap \in Nat, NEW b \in Nat, cap + b < SIZE_MAX, NEW s, Loose(s, cap, b),
           NEW i \in Nat, NEW c \in Nat \ {0}, i + c <= b
    PROVE  Inserted(s, checked_insert(s, Substring(i, c), i), cap, b, i, c)
<1> DEFINE data == Substring(i, c)
           m == s.wait_map
           h == i + Len(data) - 1
           O == overlapping(m, i, h)
           gone == {e \in O : ~covers(m, i, h, e)}
           kept == [s EXCEPT !.wait_map = erase(@, gone)]
           store(x) == IF x.data = << >> THEN kept
                       ELSE [kept EXCEPT !.wait_map =
                               insert(@, x.index, truncate_data(kept, x.data, x.index))]
           ins == merged(m, data, i)
           t == checked_insert(s, data, i)
           K == erase(m, gone)
<1>1. t = store(ins)
  <2>1. t = With(ins, store)
    BY ZenonT(60) DEF checked_insert
  <2> HIDE DEF store, ins
  <2>2. \A x : With(x, store) = store(x)
    BY ZenonT(60) DEF With
  <2> QED
    BY <2>1, <2>2, ZenonT(60)
<1>2. data \in Seq(Nat) /\ Len(data) = c
  BY SubstringType
<1>3. h = i + c - 1 /\ h \in Nat /\ i <= h /\ h < b
  BY <1>2
<1>4. m \in Maps(b) /\ Weight(m) \in Nat /\ Len(s.output.buf) \in Nat
      /\ Len(s.output.buf) + Weight(m) <= cap /\ cap \in Nat
  BY LooseTypes
<1>5. Merging(m, i, h, b, b, ins)
  <2> HIDE DEF data, h, ins
  <2>1. data = Substring(i, c)
    BY DEF data
  <2> QED
    BY <1>2, <1>3, <1>4, <2>1, MergedEffect, ZenonT(60) DEF ins
<1> HIDE DEF ins, h, data, t
<1>6. /\ K \in Maps(b) /\ DOMAIN K = DOMAIN m \ gone
      /\ \A e \in DOMAIN m \ gone : K[e] = m[e]
  <2> HIDE DEF gone, m
  <2>1. m \in Maps(b)
    BY <1>4
  <2>2. K \in Maps(b)
    BY <2>1, EraseMap, ZenonT(60)
  <2>3. DOMAIN K = DOMAIN m \ gone
    BY <2>1, EraseMap, ZenonT(60)
  <2>4. ASSUME NEW e \in DOMAIN m \ gone PROVE K[e] = m[e]
    BY ZenonT(60) DEF erase
  <2> QED
    BY <2>2, <2>3, <2>4, ZenonT(60)
<1>7. Weight(K) \in Nat /\ Weight(K) <= Weight(m)
  <2>1. DOMAIN K \subseteq DOMAIN m /\ \A e \in DOMAIN K : K[e] = m[e]
    <3> HIDE DEF K, gone, m
    <3> QED
      BY <1>6, ZenonT(60)
  <2> HIDE DEF K, m
  <2> QED
    BY <1>4, <1>6, <2>1, WeightErase, ZenonT(60)
<1>8. kept = [s EXCEPT !.wait_map = K]
  BY ZenonT(60)
<1> HIDE DEF K, kept
<1>9. Len(s.output.buf) + Weight(K) <= cap
  <2> HIDE DEF m
  <2> QED
    BY <1>4, <1>7, SMTT(60)
<1>10. /\ Loose(kept, cap, b) /\ kept.wait_map = K /\ kept.output = s.output
       /\ kept.wait_index = s.wait_index /\ kept.eof_index = s.eof_index
  BY <1>6, <1>8, <1>9, LooseMap, SMTT(60)
<1>11. \A e \in DOMAIN m \ O : e \in DOMAIN K /\ K[e] = m[e]
  <2> HIDE DEF O
  <2> QED
    BY <1>6, ZenonT(60)
<1>12. ASSUME NEW M \in Maps(b), Len(s.output.buf) + Weight(M) <= cap,
              t = [kept EXCEPT !.wait_map = M], DOMAIN M \subseteq DOMAIN m \union {i},
              \A e \in DOMAIN K : e \in DOMAIN M /\ M[e] = K[e]
       PROVE  Inserted(s, t, cap, b, i, c)
  <2>1. /\ Loose(t, cap, b) /\ t.wait_map = M /\ t.output = kept.output
        /\ t.wait_index = kept.wait_index /\ t.eof_index = kept.eof_index
    BY <1>10, <1>12, LooseMap, SMTT(60)
  <2>2. \A e \in DOMAIN m \ overlapping(m, i, i + c - 1) : e \in DOMAIN M /\ M[e] = m[e]
    BY <1>3, <1>11, <1>12, ZenonT(60)
  <2> QED
    BY <1>10, <1>12, <2>1, <2>2, ZenonT(60) DEF Inserted
<1>13. ASSUME Dropped(m, i, h, b) PROVE Inserted(s, t, cap, b, i, c)
  <2>1. ins.data = << >>
    BY <1>5, <1>13, ZenonT(60) DEF Merging
  <2>2. t = kept
    BY <1>1, <2>1, ZenonT(60)
  <2>3. kept = [kept EXCEPT !.wait_map = K]
    <3>1. kept \in Reassemblers(cap, b)
      BY <1>10 DEF Loose
    <3> QED
      BY <1>10, <3>1, ZenonT(60) DEF Reassemblers
  <2>4. DOMAIN K \subseteq DOMAIN m \union {i}
    BY <1>6, ZenonT(60)
  <2> QED
    BY <1>6, <1>9, <1>12, <2>2, <2>3, <2>4, SMTT(60)
<1>14. ASSUME ~Dropped(m, i, h, b) PROVE Inserted(s, t, cap, b, i, c)
  <2> HIDE DEF m
  <2>1. PICK a \in 0 .. i, z \in h + 1 .. b : Joined(m, i, h, b, ins, a, z)
    BY <1>5, <1>14, ZenonT(60) DEF Merging
  <2>2. /\ ins.index = a /\ ins.data = Substring(a, z - a)
        /\ a = i \/ a \in O
        /\ z = h + 1 \/ \E f \in O : f + Len(m[f]) = z
    BY <2>1, ZenonT(60) DEF Joined
  <2>3. /\ a \in Nat /\ z \in Nat /\ a <= i /\ h < z /\ z <= b /\ z - a \in Nat \ {0}
        /\ a \in 0 .. b /\ a \in 0 .. b - 1
    BY <1>3
  <2>4. \A e \in O : /\ e \in DOMAIN m /\ e \in Nat /\ e <= h /\ e < b
                     /\ Len(m[e]) \in Nat /\ i < e + Len(m[e])
    <3>1. \A e \in O : /\ e \in DOMAIN m /\ e \in 0 .. h /\ Len(m[e]) \in Nat
                       /\ i < e + Len(m[e])
      BY <1>3, <1>4, OverlapFacts, SMTT(60)
    <3> HIDE DEF O
    <3> QED
      BY <1>3, <3>1
  <2>5. gone = O
    <3>1. \A e \in O : ~covers(m, i, h, e)
      BY <1>14, <2>4, ZenonT(60) DEF Dropped
    <3> HIDE DEF O
    <3> QED
      BY <3>1, ZenonT(60)
  <2>6. ins.data # << >>
    <3>0. a \in Nat /\ z - a \in Nat
      BY <2>3
    <3>1. Len(Substring(a, z - a)) = z - a
      BY <3>0, SubstringType, ZenonT(60)
    <3> QED
      BY <2>2, <2>3, <3>1
  <2> HIDE DEF gone
  <2>7. t = [kept EXCEPT !.wait_map = insert(kept.wait_map, a, truncate_data(kept, Substring(a, z - a), a))]
    <3>1. kept \in Reassemblers(cap, b)
      BY <1>10 DEF Loose
    <3> QED
      BY <1>1, <2>2, <2>6, <3>1, ZenonT(60) DEF Reassemblers
  <2>8. PICK k \in 0 .. z - a :
            /\ truncate_data(kept, Substring(a, z - a), a) = Substring(a, k)
            /\ Len(kept.output.buf) + Weight(kept.wait_map) + k <= cap
    <3>1. z - a \in Nat
      BY <2>3
    <3>2. \E k \in 0 .. z - a : Truncated(kept, cap, a, z - a, a, k)
      BY <1>10, <2>3, <3>1, TruncateEffect, ZenonT(60)
    <3> QED
      BY <3>2, ZenonT(60) DEF Truncated
  <2> DEFINE M == insert(K, a, Substring(a, k))
  <2>9. t = [kept EXCEPT !.wait_map = M]
    BY <1>10, <2>7, <2>8, ZenonT(60)
  <2>10. CASE a \in DOMAIN K
    <3>1. M = K
      BY <2>10, ZenonT(60) DEF insert
    <3>2. DOMAIN K \subseteq DOMAIN m \union {i}
      BY <1>6, ZenonT(60)
    <3> HIDE DEF M
    <3> QED
      BY <1>6, <1>9, <1>12, <2>9, <3>1, <3>2, SMTT(60) DEF m
  <2>11. CASE a \notin DOMAIN K
    <3>1. k \in Nat /\ a + k <= z /\ a + k <= b
      BY <2>3, <2>8
    <3>2. ASSUME NEW e \in DOMAIN K
          PROVE  Len(K[e]) = 0 \/ k = 0 \/ e + Len(K[e]) <= a \/ a + k <= e
      <4>1. e \in DOMAIN m /\ e \notin O /\ K[e] = m[e]
        BY <1>6, <2>5, ZenonT(60)
      <4>2. /\ e \in Nat /\ Len(m[e]) \in Nat
            /\ \A f \in DOMAIN m : /\ f < e => f + Len(m[f]) <= e \/ Len(m[e]) = 0
                                   /\ e < f => e + Len(m[e]) <= f \/ Len(m[f]) = 0
        BY <1>4, <4>1, MapElim, ZenonT(60)
      <4>3. e + Len(m[e]) <= i \/ e > h
        <5>1. ~(i <= e + Len(m[e]) - 1 /\ e <= h)
          BY <4>1, ZenonT(60) DEF overlapping, elem_end
        <5> HIDE DEF O
        <5> QED
          BY <1>3, <4>2, <5>1, SMTT(60)
      <4> DEFINE n == Len(m[e])
      <4>4. CASE e + n <= i
        <5>1. CASE a = i
          BY <4>1, <4>4, <5>1
        <5>2. CASE a \in O
          <6> DEFINE q == Len(m[a])
          <6>1. q \in Nat /\ i < a + q /\ a # e
                /\ (a < e => a + q <= e \/ n = 0) /\ (e < a => e + n <= a \/ q = 0)
            BY <2>4, <4>1, <4>2, <5>2, SMTT(60)
          <6> HIDE DEF q, n
          <6>2. n = 0 \/ e + n <= a
            BY <2>3, <4>2, <4>4, <6>1, SMTT(60) DEF n
          <6> QED
            BY <4>1, <6>2 DEF n
        <5> QED
          BY <2>2, <5>1, <5>2
      <4>5. CASE e > h
        <5>1. CASE z = h + 1
          BY <1>3, <3>1, <4>2, <4>5, <5>1, <2>3, SMTT(60)
        <5>2. ASSUME NEW f \in O, f + Len(m[f]) = z PROVE n = 0 \/ a + k <= e
          <6>1. f \in DOMAIN m /\ f < e
            BY <1>3, <2>4, <4>2, <4>5, SMTT(60)
          <6>2. z <= e \/ n = 0
            BY <4>2, <5>2, <6>1
          <6> HIDE DEF n, O
          <6> QED
            BY <2>3, <3>1, <4>2, <6>2, SMTT(60)
        <5> QED
          BY <2>2, <4>1, <5>1, <5>2, SMTT(60)
      <4> QED
        BY <4>3, <4>4, <4>5
    <3>3. /\ M \in Maps(b) /\ DOMAIN M = DOMAIN K \union {a} /\ M[a] = Substring(a, k)
          /\ \A e \in DOMAIN K : M[e] = K[e]
      <4>1. a \in 0 .. b - 1 /\ k \in Nat /\ K \in Maps(b) /\ a + k <= b
        BY <1>6, <2>3, <3>1
      <4>2. AddedTo(K, M, b, a, k)
        <5> HIDE DEF K
        <5> QED
          BY <2>11, <3>2, <4>1, InsertMap, ZenonT(60)
      <4> QED
        BY <4>2, ZenonT(60) DEF AddedTo
    <3> HIDE DEF M
    <3>4. Weight(M) = Weight(K) + Len(M[a])
      BY <1>6, <2>3, <2>11, <3>3, WeightInsert, SMTT(60)
    <3>5. Len(M[a]) = k
      BY <2>3, <3>1, <3>3, SubstringType, SMTT(60)
    <3>6. Len(s.output.buf) + Weight(M) <= cap
      <4>1. Len(s.output.buf) + Weight(K) + k <= cap
        BY <1>10, <2>8, ZenonT(60)
      <4> QED
        BY <1>4, <1>7, <3>1, <3>4, <3>5, <4>1, SMTT(60)
    <3>7. DOMAIN M \subseteq DOMAIN m \union {i}
      <4>1. a = i \/ a \in DOMAIN m
        BY <2>2, <2>4
      <4> QED
        BY <1>6, <3>3, <4>1, ZenonT(60)
    <3> QED
      BY <1>12, <2>9, <3>3, <3>6, <3>7, SMTT(60) DEF m
  <2> QED
    BY <2>10, <2>11
<1> QED
  BY <1>13, <1>14, ZenonT(60) DEF t, data
=============================================================================
