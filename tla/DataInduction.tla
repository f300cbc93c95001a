--------------------------- MODULE DataInduction ----------------------------
(***************************************************************************)
(* Induction over the natural numbers and over sequences in the form in    *)
(* which the provers can use it, with a set for what is to be shown.       *)
(***************************************************************************)
EXTENDS Sequences, WellFoundedInduction, TLAPS

\* A set of natural numbers that is not empty has a least element.
LEMMA LeastNat ==
    ASSUME NEW T \in SUBSET Nat, T # {}
    PROVE  \E m \in T : \A k \in T : m <= k
<1> DEFINE R == OpToRel(<, Nat)
<1>1. IsWellFoundedOn(R, Nat)
  BY NatLessThanWellFounded, ZenonT(60)
<1>2. PICK m \in T : \A k \in T : ~(<<k, m>> \in R)
  <2> HIDE DEF R
  <2> QED
    BY <1>1, WFMin, ZenonT(60)
<1>3. ASSUME NEW k \in T PROVE m <= k
  <2>1. k \in Nat /\ m \in Nat
    OBVIOUS
  <2>2. k < m => <<k, m>> \in R
    BY <2>1 DEF OpToRel
  <2> HIDE DEF R
  <2> QED
    BY <1>2, <2>1, <2>2
<1> QED
  BY <1>2, <1>3, ZenonT(60)

\* Induction: a set with 0 in it, and with n its successor, holds every n.
LEMMA NatInd ==
    ASSUME NEW S, 0 \in S, \A n \in Nat : n \in S => n + 1 \in S
    PROVE  Nat \subseteq S
<1> SUFFICES ASSUME Nat \ S # {} PROVE FALSE
  BY ZenonT(60)
<1>1. PICK m \in Nat \ S : \A k \in Nat \ S : m <= k
  BY LeastNat, ZenonT(60)
<1>2. m # 0
  OBVIOUS
<1>3. m - 1 \in Nat /\ m - 1 \in S
  BY <1>1, <1>2
<1> QED
  BY <1>1, <1>3

\* The same up to a number.
LEMMA IndUpTo ==
    ASSUME NEW m \in Nat, NEW S, 0 \in S, \A k \in 0 .. m - 1 : k \in S => k + 1 \in S
    PROVE  0 .. m \subseteq S
<1> DEFINE T == {k \in Nat : k <= m => k \in S}
<1>1. 0 \in T
  OBVIOUS
<1>2. ASSUME NEW k \in Nat, k \in T PROVE k + 1 \in T
  BY <1>2
<1> HIDE DEF T
<1>3. Nat \subseteq T
  BY <1>1, <1>2, NatInd
<1> QED
  BY <1>3 DEF T

\* The m steps of a recursion, and f going through them.
StaysIn(X, step, m) == \A k \in 1 .. m, x \in X : step[k][x] \in X

Iterates(f, X, base, step, m) ==
    /\ f \in [0 .. m -> X]
    /\ f[0] = base
    /\ \A k \in 1 .. m : f[k] = step[k][f[k - 1]]

\* A recursion that stays in a set defines a function.
LEMMA RecExists ==
    ASSUME NEW X, NEW base \in X, NEW step, NEW m \in Nat, StaysIn(X, step, m)
    PROVE  \E f : Iterates(f, X, base, step, m)
<1>0. \A k \in 1 .. m, x \in X : step[k][x] \in X
  BY DEF StaysIn
<1> DEFINE Good(f, j) == /\ f \in [0 .. j -> X]
                         /\ f[0] = base /\ \A k \in 1 .. j : f[k] = step[k][f[k - 1]]
           S == {j \in Nat : \E f : Good(f, j)}
<1>1. 0 \in S
  <2>1. Good([k \in 0 .. 0 |-> base], 0)
    OBVIOUS
  <2> QED
    BY <2>1, ZenonT(60)
<1>2. ASSUME NEW j \in 0 .. m - 1, j \in S PROVE j + 1 \in S
  <2>1. PICK f : Good(f, j)
    BY <1>2
  <2> DEFINE g == [k \in 0 .. j + 1 |-> IF k <= j THEN f[k] ELSE step[k][f[j]]]
  <2>2. f[j] \in X /\ step[j + 1][f[j]] \in X
    BY <1>0, <2>1
  <2>3. g \in [0 .. j + 1 -> X]
    BY <2>1, <2>2
  <2>4. g[0] = base
    BY <2>1
  <2>5. ASSUME NEW k \in 1 .. j + 1 PROVE g[k] = step[k][g[k - 1]]
    <3>1. CASE k <= j
      <4>1. k \in 1 .. j /\ g[k] = f[k] /\ g[k - 1] = f[k - 1]
        BY <3>1
      <4> QED
        BY <2>1, <4>1
    <3>2. CASE k = j + 1
      BY <3>2
    <3> QED
      BY <3>1, <3>2
  <2> HIDE DEF g
  <2>6. Good(g, j + 1)
    BY <2>3, <2>4, <2>5
  <2> QED
    BY <2>6
<1> HIDE DEF S
<1>3. m \in S
  BY <1>1, <1>2, IndUpTo
<1>4. PICK f : Good(f, m)
  BY <1>3 DEF S
<1> QED
  BY <1>4 DEF Iterates

\* Induction over sequences, one element at a time.
LEMMA SeqInd ==
    ASSUME NEW V, NEW P, << >> \in P,
           \A s \in Seq(V), x \in V : s \in P => Append(s, x) \in P
    PROVE  Seq(V) \subseteq P
<1> DEFINE N == {n \in Nat : \A s \in Seq(V) : Len(s) = n => s \in P}
<1>1. 0 \in N
  OBVIOUS
<1>2. ASSUME NEW n \in Nat, n \in N PROVE n + 1 \in N
  <2>1. SUFFICES ASSUME NEW s \in Seq(V), Len(s) = n + 1 PROVE s \in P
    OBVIOUS
  <2> DEFINE front == [i \in 1 .. n |-> s[i]]
  <2>2. front \in Seq(V) /\ Len(front) = n /\ s[n + 1] \in V
    BY <2>1
  <2>3. s = Append(front, s[n + 1])
    BY <2>1
  <2>4. front \in P
    BY <1>2, <2>2
  <2> HIDE DEF front
  <2> QED
    BY <2>2, <2>3, <2>4, ZenonT(60)
<1> HIDE DEF N
<1>3. Nat \subseteq N
  BY <1>1, <1>2, NatInd
<1>4. ASSUME NEW s \in Seq(V) PROVE s \in P
  <2>1. Len(s) \in Nat
    OBVIOUS
  <2> QED
    BY <1>3, <2>1 DEF N
<1> QED
  BY <1>4

\* The first n elements of a sequence, and the others.
FirstPart(V, s, n, p) ==
    p \in Seq(V) /\ Len(p) = n /\ \A j \in 1 .. n : p[j] = s[j]

LastPart(V, s, n, q) ==
    q \in Seq(V) /\ Len(q) = Len(s) - n /\ \A j \in 1 .. Len(s) - n : q[j] = s[n + j]

\* A sequence cut after n elements.
LEMMA CutSeq ==
    ASSUME NEW V, NEW s \in Seq(V), NEW n \in 0 .. Len(s)
    PROVE  FirstPart(V, s, n, SubSeq(s, 1, n)) /\ LastPart(V, s, n, SubSeq(s, n + 1, Len(s)))
<1>1. Len(s) \in Nat /\ \A i \in 1 .. Len(s) : s[i] \in V
  OBVIOUS
<1>2. SubSeq(s, 1, n) \in Seq(V) /\ Len(SubSeq(s, 1, n)) = n
  BY <1>1
<1>3. \A j \in 1 .. n : SubSeq(s, 1, n)[j] = s[j]
  BY <1>1
<1>4. /\ SubSeq(s, n + 1, Len(s)) \in Seq(V)
      /\ Len(SubSeq(s, n + 1, Len(s))) = Len(s) - n
  BY <1>1
<1>5. ASSUME NEW j \in 1 .. Len(s) - n PROVE SubSeq(s, n + 1, Len(s))[j] = s[n + j]
  <2>1. (n + 1) + j - 1 = n + j /\ j \in 1 .. Len(s) - (n + 1) + 1
    BY <1>1
  <2> QED
    BY <1>1, <1>4, <2>1
<1> QED
  BY <1>2, <1>3, <1>4, <1>5, ZenonT(60) DEF FirstPart, LastPart

\* Two sequences joined.
LEMMA JoinSeq ==
    ASSUME NEW V, NEW s \in Seq(V), NEW t \in Seq(V)
    PROVE  /\ s \o t \in Seq(V) /\ Len(s \o t) = Len(s) + Len(t)
           /\ \A j \in 1 .. Len(s) + Len(t) :
                 (s \o t)[j] = IF j <= Len(s) THEN s[j] ELSE t[j - Len(s)]
<1>1. s \o t \in Seq(V)
  OBVIOUS
<1>2. Len(s \o t) = Len(s) + Len(t)
  OBVIOUS
<1>3. ASSUME NEW j \in 1 .. Len(s) + Len(t)
      PROVE  (s \o t)[j] = IF j <= Len(s) THEN s[j] ELSE t[j - Len(s)]
  OBVIOUS
<1> QED
  BY <1>1, <1>2, <1>3
=============================================================================
