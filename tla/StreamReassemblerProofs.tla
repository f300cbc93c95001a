---------------------- MODULE StreamReassemblerProofs -----------------------
(***************************************************************************)
(* Proofs about StreamReassemblerSpec, for any stream, any capacity, any   *)
(* substrings and any reads.                                               *)
(*                                                                         *)
(* Within a call a reassembler is Loose, when entries of the map may lie   *)
(* below the waiting index, and Tight again after the loop that assembles. *)
(***************************************************************************)
EXTENDS StreamReassemblerMap, FiniteSetTheorems

\* A reassembler with entries erased.
Erased(s, t, cap, b, K) ==
    /\ Loose(t, cap, b) /\ t.output = s.output
    /\ t.wait_index = s.wait_index /\ t.eof_index = s.eof_index
    /\ t.wait_map \in Maps(b) /\ DOMAIN t.wait_map = DOMAIN s.wait_map \ K
    /\ \A e \in DOMAIN s.wait_map \ K : t.wait_map[e] = s.wait_map[e]

\* Erasing an entry keeps what holds at any time.
LEMMA LooseErase ==
    ASSUME NEW cap \in Nat, NEW b \in Nat, NEW s, Loose(s, cap, b), NEW K
    PROVE  Erased(s, [s EXCEPT !.wait_map = erase(s.wait_map, K)], cap, b, K)
<1> DEFINE m == s.wait_map
           M == erase(m, K)
           t == [s EXCEPT !.wait_map = M]
<1>1. m \in Maps(b) /\ Weight(m) \in Nat /\ Len(s.output.buf) \in Nat
      /\ Len(s.output.buf) + Weight(m) <= cap /\ cap \in Nat
  BY LooseTypes
<1>2. M \in Maps(b)
  <2> HIDE DEF m
  <2> QED
    BY <1>1, EraseMap, ZenonT(60)
<1>3. DOMAIN M = DOMAIN m \ K
  BY ZenonT(60) DEF erase
<1>4. \A e \in DOMAIN m \ K : M[e] = m[e]
  BY ZenonT(60) DEF erase
<1> HIDE DEF M, m
<1>5. Weight(M) \in Nat /\ Weight(M) <= Weight(m)
  <2>1. DOMAIN M \subseteq DOMAIN m /\ \A e \in DOMAIN M : M[e] = m[e]
    BY <1>3, <1>4, ZenonT(60)
  <2> QED
    BY <1>1, <1>2, <2>1, WeightErase, ZenonT(60)
<1>6. Len(s.output.buf) + Weight(M) <= cap
  BY <1>1, <1>5, SMTT(60)
<1>7. t = [s EXCEPT !.wait_map = M]
  OBVIOUS
<1> HIDE DEF t
<1>8. /\ Loose(t, cap, b) /\ t.wait_map = M /\ t.output = s.output
      /\ t.wait_index = s.wait_index /\ t.eof_index = s.eof_index
  BY <1>2, <1>6, <1>7, LooseMap, SMTT(60)
<1>9. Erased(s, t, cap, b, K)
  BY <1>2, <1>3, <1>4, <1>8, ZenonT(60) DEF Erased, m
<1> QED
  BY <1>9 DEF t, M, m

\* What update_waitmap() does with the entry e below the waiting index: it goes,
\* and the entries between it and the waiting index stay.
Refitted(s, t, cap, b, e) ==
    /\ Loose(t, cap, b)
    /\ t.output = s.output /\ t.wait_index = s.wait_index /\ t.eof_index = s.eof_index
    /\ DOMAIN t.wait_map \subseteq (DOMAIN s.wait_map \ {e}) \union {s.wait_index}
    /\ \A f \in DOMAIN s.wait_map :
          e < f /\ f < s.wait_index => f \in DOMAIN t.wait_map /\ t.wait_map[f] = s.wait_map[f]

\* One round of update_waitmap() leaves nothing of an entry it visits below
\* the waiting index.
LEMMA RefitEffect ==
    ASSUME NEW cap \in Nat, NEW b \in Nat, cap + b < SIZE_MAX, NEW s, Loose(s, cap, b),
           NEW e \in DOMAIN s.wait_map, e < s.wait_index
    PROVE  Refitted(s, refit(s, e), cap, b, e)
<1> DEFINE m == s.wait_map
           w == s.wait_index
           n == Len(m[e])
           c == (e + n) - w
           cut == [s EXCEPT !.wait_map = erase(m, {e})]
           t == refit(s, e)
<1>1. m \in Maps(b) /\ w \in Nat
  BY LooseTypes
<1>2. /\ e \in Nat /\ n \in Nat /\ m[e] = Substring(e, n) /\ e + n <= b
      /\ \A f \in DOMAIN m : /\ f \in Nat /\ Len(m[f]) \in Nat
                             /\ e < f => e + n <= f \/ Len(m[f]) = 0
  <2> HIDE DEF m
  <2> QED
    BY <1>1, MapElim, SMTT(60) DEF m
<1>3. t = IF e + n > w THEN checked_insert(cut, Suffix(m[e], w - e), w) ELSE cut
  <2>1. s \in Reassemblers(cap, b)
    BY DEF Loose
  <2> QED
    BY <2>1, ZenonT(60) DEF refit, Reassemblers
<1>4. /\ Loose(cut, cap, b) /\ cut.output = s.output
      /\ cut.wait_index = w /\ cut.eof_index = s.eof_index
      /\ cut.wait_map \in Maps(b) /\ DOMAIN cut.wait_map = DOMAIN m \ {e}
      /\ \A f \in DOMAIN m \ {e} : cut.wait_map[f] = m[f]
  <2>1. Erased(s, cut, cap, b, {e})
    BY LooseErase
  <2> HIDE DEF cut
  <2> QED
    BY <2>1, ZenonT(60) DEF Erased
<1> HIDE DEF cut, t, m, n
<1>5. ASSUME ~(e + n > w) PROVE Refitted(s, t, cap, b, e)
  <2>1. t = cut
    BY <1>3, <1>5, ZenonT(60)
  <2>2. DOMAIN t.wait_map \subseteq (DOMAIN m \ {e}) \union {w}
    BY <1>4, <2>1, ZenonT(60)
  <2>3. ASSUME NEW f \in DOMAIN m, e < f PROVE f \in DOMAIN t.wait_map /\ t.wait_map[f] = m[f]
    <3>1. f # e
      BY <1>2, <2>3
    <3> QED
      BY <1>4, <2>1, <3>1, ZenonT(60)
  <2> QED
    BY <1>4, <2>1, <2>2, <2>3, ZenonT(60) DEF Refitted, m
<1>6. ASSUME e + n > w PROVE Refitted(s, t, cap, b, e)
  <2>1. c \in Nat \ {0} /\ w + c = e + n /\ w + c <= b /\ w - e \in 0 .. n /\ n - (w - e) = c /\ e + (w - e) = w
    <3>1. e \in Nat /\ n \in Nat /\ w \in Nat /\ e < w /\ e + n > w /\ e + n <= b
      BY <1>1, <1>2, <1>6, ZenonT(60)
    <3> HIDE DEF n, w
    <3> QED
      BY <3>1, SMTT(60)
  <2>2. Suffix(m[e], w - e) = Substring(w, c)
    <3>1. Suffix(Substring(e, n), w - e) = Substring(e + (w - e), n - (w - e))
      BY <1>2, <2>1, SubstringCut, ZenonT(60)
    <3> QED
      BY <1>2, <2>1, <3>1, ZenonT(60)
  <2> HIDE DEF c
  <2>3. t = checked_insert(cut, Substring(w, c), w)
    BY <1>3, <1>6, <2>2, ZenonT(60)
  <2>4. Inserted(cut, t, cap, b, w, c)
    <3>1. w + c <= b /\ c \in Nat \ {0} /\ Loose(cut, cap, b) /\ w \in Nat
      BY <1>1, <1>4, <2>1, ZenonT(60)
    <3> QED
      BY <2>3, <3>1, InsertEffect, SMTT(60)
  <2>5. /\ Loose(t, cap, b)
        /\ t.output = cut.output /\ t.wait_index = cut.wait_index /\ t.eof_index = cut.eof_index
        /\ DOMAIN t.wait_map \subseteq DOMAIN cut.wait_map \union {w}
        /\ \A f \in DOMAIN cut.wait_map \ overlapping(cut.wait_map, w, w + c - 1) :
              f \in DOMAIN t.wait_map /\ t.wait_map[f] = cut.wait_map[f]
    BY <2>4, ZenonT(60) DEF Inserted
  <2>6. ASSUME NEW f \in DOMAIN m, e < f, f < w
        PROVE  f \in DOMAIN t.wait_map /\ t.wait_map[f] = m[f]
    <3>1. f # e /\ Len(m[f]) = 0 /\ f \in Nat
      BY <1>1, <1>2, <1>6, <2>6
    <3>2. f \in DOMAIN cut.wait_map /\ cut.wait_map[f] = m[f]
      BY <1>4, <3>1, ZenonT(60)
    <3>3. ~(w <= f + Len(cut.wait_map[f]) - 1)
      BY <1>1, <2>6, <3>1, <3>2, SMTT(60)
    <3>4. f \notin overlapping(cut.wait_map, w, w + c - 1)
      BY <3>3, ZenonT(60) DEF overlapping, elem_end
    <3> QED
      BY <2>5, <3>2, <3>4, ZenonT(60)
  <2>7. DOMAIN t.wait_map \subseteq (DOMAIN m \ {e}) \union {w}
    BY <1>4, <2>5, ZenonT(60)
  <2> QED
    BY <1>4, <2>5, <2>6, <2>7, ZenonT(60) DEF Refitted, m
<1> QED
  BY <1>5, <1>6, ZenonT(60) DEF t

\* What update_waitmap() has made of s when it is about to visit the entries from k.
Refitting(s, x, cap, b, k) ==
    /\ Loose(x, cap, b)
    /\ x.output = s.output /\ x.wait_index = s.wait_index /\ x.eof_index = s.eof_index
    /\ DOMAIN x.wait_map \subseteq DOMAIN s.wait_map \union {s.wait_index}
    /\ \A f \in DOMAIN x.wait_map : f < s.wait_index => k <= f
    /\ \A f \in DOMAIN s.wait_map :
          k <= f /\ f < s.wait_index => f \in DOMAIN x.wait_map /\ x.wait_map[f] = s.wait_map[f]
    /\ k = 0 => x = s

\* The loop goes on from an entry below the waiting index ...
LEMMA RefittingStep ==
    ASSUME NEW cap \in Nat, NEW b \in Nat, cap + b < SIZE_MAX, NEW s, Loose(s, cap, b), NEW k \in Nat,
           k \in DOMAIN s.wait_map, k < s.wait_index, NEW x, Refitting(s, x, cap, b, k)
    PROVE  Refitting(s, refit(x, k), cap, b, k + 1)
<1> DEFINE t == refit(x, k)
           w == s.wait_index
           D == DOMAIN s.wait_map
<1>1. /\ Loose(x, cap, b) /\ x.wait_index = w
      /\ x.output = s.output /\ x.eof_index = s.eof_index
      /\ DOMAIN x.wait_map \subseteq D \union {w}
      /\ \A f \in DOMAIN x.wait_map : f < w => k <= f
      /\ \A f \in D : k <= f /\ f < w => f \in DOMAIN x.wait_map /\ x.wait_map[f] = s.wait_map[f]
  BY ZenonT(60) DEF Refitting
<1>2. w \in Nat /\ \A f \in D : f \in Nat
  <2>1. s.wait_map \in Maps(b) /\ w \in Nat
    BY LooseTypes
  <2> QED
    BY <2>1, MapElim
<1>3. k \in DOMAIN x.wait_map /\ k <= k
  BY <1>1, <1>2
<1>4. Refitted(x, t, cap, b, k)
  BY <1>1, <1>3, RefitEffect, ZenonT(60)
<1>5. /\ Loose(t, cap, b)
      /\ t.output = x.output /\ t.wait_index = x.wait_index /\ t.eof_index = x.eof_index
      /\ DOMAIN t.wait_map \subseteq (DOMAIN x.wait_map \ {k}) \union {w}
      /\ \A f \in DOMAIN x.wait_map :
            k < f /\ f < w => f \in DOMAIN t.wait_map /\ t.wait_map[f] = x.wait_map[f]
  BY <1>1, <1>4, ZenonT(60) DEF Refitted
<1> HIDE DEF t, w, D
<1>6. DOMAIN t.wait_map \subseteq D \union {w}
  BY <1>1, <1>5, ZenonT(60)
<1>7. ASSUME NEW f \in DOMAIN t.wait_map, f < w PROVE k + 1 <= f
  <2>1. f \in Nat /\ f # w
    BY <1>2, <1>6, <1>7
  <2>2. f \in DOMAIN x.wait_map /\ f # k
    BY <1>5, <2>1, ZenonT(60)
  <2>3. k <= f
    BY <1>1, <1>7, <2>2, ZenonT(60)
  <2> QED
    BY <2>1, <2>2, <2>3
<1>8. ASSUME NEW f \in D, k + 1 <= f, f < w
      PROVE  f \in DOMAIN t.wait_map /\ t.wait_map[f] = s.wait_map[f]
  <2>1. k <= f /\ k < f
    BY <1>2, <1>8
  <2> QED
    BY <1>1, <1>5, <1>8, <2>1, ZenonT(60)
<1>9. k + 1 # 0
  OBVIOUS
<1>10. Refitting(s, t, cap, b, k + 1)
  BY <1>1, <1>5, <1>6, <1>7, <1>8, <1>9, ZenonT(60) DEF Refitting, w, D
<1> QED
  BY <1>10 DEF t

\* ... and over an index without one.
LEMMA RefittingSkip ==
    ASSUME NEW cap \in Nat, NEW b \in Nat, NEW s, Loose(s, cap, b), NEW k \in Nat, NEW j \in Nat, k <= j, j # 0 \/ k = j,
           \A f \in DOMAIN s.wait_map : f < s.wait_index => (k <= f <=> j <= f),
           NEW x, Refitting(s, x, cap, b, k)
    PROVE  Refitting(s, x, cap, b, j)
<1> DEFINE w == s.wait_index
           D == DOMAIN s.wait_map
<1>1. /\ DOMAIN x.wait_map \subseteq D \union {w}
      /\ \A f \in DOMAIN x.wait_map : f < w => k <= f
      /\ \A f \in D : k <= f /\ f < w => f \in DOMAIN x.wait_map /\ x.wait_map[f] = s.wait_map[f]
  BY ZenonT(60) DEF Refitting
<1>2. w \in Nat
  BY LooseTypes
<1> HIDE DEF w, D
<1>3. ASSUME NEW f \in DOMAIN x.wait_map, f < w PROVE j <= f
  <2>1. f # w
    BY <1>2, <1>3
  <2>2. f \in D
    BY <1>1, <2>1, ZenonT(60)
  <2> QED
    BY <1>1, <1>3, <2>2, ZenonT(60) DEF D, w
<1>4. ASSUME NEW f \in D, j <= f, f < w
      PROVE  f \in DOMAIN x.wait_map /\ x.wait_map[f] = s.wait_map[f]
  BY <1>1, <1>4, ZenonT(60) DEF D, w
<1>5. j = 0 => k = 0
  BY ZenonT(60)
<1> QED
  BY <1>1, <1>3, <1>4, <1>5, ZenonT(60) DEF Refitting, w, D

\* update_waitmap() leaves no entry below the waiting index, adds at most one at
\* it, and does nothing when there is none below it.
Updated(s, x, cap, b) ==
    /\ Loose(x, cap, b)
    /\ x.output = s.output /\ x.wait_index = s.wait_index /\ x.eof_index = s.eof_index
    /\ DOMAIN x.wait_map \subseteq DOMAIN s.wait_map \union {s.wait_index}
    /\ \A f \in DOMAIN x.wait_map : s.wait_index <= f
    /\ (\A f \in DOMAIN s.wait_map : s.wait_index <= f) => x = s

\* update_waitmap() leaves nothing below the waiting index.
LEMMA UpdateEffect ==
    ASSUME NEW cap \in Nat, NEW b \in Nat, cap + b < SIZE_MAX, NEW s, Loose(s, cap, b)
    PROVE  Updated(s, update_waitmap(s), cap, b)
<1> DEFINE w == s.wait_index
           D == DOMAIN s.wait_map
           S == {e \in D : e < w}
           n == LastKey(S)
           X == Reassemblers(cap, b)
           step == [k \in S |-> [x \in X |-> refit(x, k)]]
           P == [k \in 0 .. b |-> {x \in X : Refitting(s, x, cap, b, k)}]
           Rec(f) == f = [k \in 0 .. n |->
                            IF k = 0 THEN s
                            ELSE IF k - 1 \in S
                            THEN With(f[k - 1], LAMBDA acc : refit(acc, k - 1))
                            ELSE f[k - 1]]
           g == CHOOSE f : Rec(f)
<1>3. update_waitmap(s) = g[n]
  BY ZenonT(60) DEF update_waitmap, InKeyOrder, LastKey
<1>0. w \in Nat /\ s.wait_map \in Maps(b)
  BY LooseTypes
<1>1. D \in SUBSET (0 .. b - 1) /\ S \in SUBSET (0 .. b - 1)
  BY <1>0, MapElim
<1> HIDE DEF D, w
<1>2. n \in 0 .. b /\ n \in Nat /\ \A k \in S : k < n
  <2> HIDE DEF S
  <2> QED
    BY <1>1, LastKeyAbove
<1> HIDE DEF n
<1>4. \A x, k : With(x, LAMBDA acc : refit(acc, k)) = refit(x, k)
  BY ZenonT(60) DEF With
<1>5. \A k \in 0 .. b : \A x : x \in P[k] <=> Refitting(s, x, cap, b, k)
  BY ZenonT(60) DEF Refitting, Loose
<1>6. s \in P[0]
  <2>1. \A f \in D : f \in Nat /\ 0 <= f
    BY <1>1
  <2>2. 0 \in 0 .. b
    OBVIOUS
  <2>3. Refitting(s, s, cap, b, 0)
    BY <2>1, ZenonT(60) DEF Refitting, D, w
  <2> HIDE DEF P
  <2> QED
    BY <1>5, <2>2, <2>3, ZenonT(60)
<1>7. ASSUME NEW k \in 0 .. b - 1, NEW x \in P[k]
      PROVE  /\ k \in S => refit(x, k) \in P[k + 1]
             /\ k \notin S => x \in P[k + 1]
             /\ x \in X
  <2>1. k \in 0 .. b /\ k + 1 \in 0 .. b /\ k \in Nat /\ k + 1 \in Nat /\ k <= k + 1 /\ k + 1 # 0
    OBVIOUS
  <2>2. Refitting(s, x, cap, b, k)
    BY <1>5, <1>7, <2>1, ZenonT(60)
  <2> HIDE DEF P
  <2>3. ASSUME k \in S PROVE Refitting(s, refit(x, k), cap, b, k + 1)
    BY <2>1, <2>2, <2>3, RefittingStep, ZenonT(60) DEF D, w
  <2>4. ASSUME k \notin S PROVE Refitting(s, x, cap, b, k + 1)
    <3>1. ASSUME NEW f \in D, f < w PROVE k <= f <=> k + 1 <= f
      <4>1. f \in Nat /\ f # k
        BY <1>1, <2>4, <3>1
      <4> QED
        BY <2>1, <4>1
    <3> HIDE DEF S
    <3>2. \A f \in DOMAIN s.wait_map : f < s.wait_index => (k <= f <=> k + 1 <= f)
      BY <3>1 DEF D, w
    <3> QED
      BY <2>1, <2>2, <3>2, RefittingSkip, ZenonT(60)
  <2>5. x \in X
    BY <2>2 DEF Refitting, Loose
  <2> HIDE DEF S, X
  <2> QED
    BY <1>5, <2>1, <2>3, <2>4, <2>5, ZenonT(60)
<1>8. \A k \in S, x \in X : step[k][x] = refit(x, k)
  <2> HIDE DEF S, X
  <2> QED
    OBVIOUS
<1> HIDE DEF S, X
<1>9. \E f : Rec(f)
  <2>1. \A k \in 0 .. b - 1 : \A x \in P[k] :
            (k \in S => step[k][x] \in P[k + 1]) /\ (k \notin S => x \in P[k + 1])
    <3> HIDE DEF P, step
    <3> QED
      BY <1>7, <1>8, ZenonT(60)
  <2>2. PICK f : f = [k \in 0 .. n |-> f[k]] /\ LoopsOver(f, S, s, step, P)
    <3> HIDE DEF P, step
    <3> QED
      BY <1>1, <1>6, <2>1, LoopExists, ZenonT(60) DEF n
  <2>3. /\ f[0] = s
        /\ \A k \in 0 .. n : f[k] \in P[k]
        /\ \A k \in 1 .. n : f[k] = IF k - 1 \in S THEN step[k - 1][f[k - 1]] ELSE f[k - 1]
    <3> HIDE DEF P, step
    <3> QED
      BY <2>2, ZenonT(60) DEF LoopsOver, n
  <2>4. ASSUME NEW k \in 0 .. n
        PROVE  f[k] = IF k = 0 THEN s
                      ELSE IF k - 1 \in S
                      THEN With(f[k - 1], LAMBDA acc : refit(acc, k - 1))
                      ELSE f[k - 1]
    <3>1. k = 0 \/ (k # 0 /\ k \in 1 .. n /\ k - 1 \in 0 .. n /\ k - 1 \in 0 .. b - 1)
      BY <1>2
    <3> HIDE DEF P, step
    <3> QED
      BY <1>4, <1>7, <1>8, <2>3, <3>1, ZenonT(60)
  <2> QED
    BY <2>2, <2>4, ZenonT(60)
<1>10. Rec(g)
  <2> HIDE DEF Rec
  <2> QED
    BY <1>9, ZenonT(60)
<1> HIDE DEF g, step, P
<1>11. g[0] = s /\ \A k \in 0 .. n - 1 : g[k + 1] = IF k \in S THEN refit(g[k], k) ELSE g[k]
  <2>1. \A k \in 0 .. n : g[k] = IF k = 0 THEN s
                                 ELSE IF k - 1 \in S THEN refit(g[k - 1], k - 1)
                                 ELSE g[k - 1]
    BY <1>4, <1>10, ZenonT(60)
  <2>2. 0 \in 0 .. n /\ \A k \in 0 .. n - 1 : k + 1 \in 0 .. n /\ k + 1 # 0 /\ k + 1 - 1 = k
    BY <1>2
  <2> QED
    BY <2>1, <2>2, SMTT(60)
<1> DEFINE H == {k \in 0 .. n : g[k] \in P[k]}
<1>12. 0 .. n \subseteq H
  <2>1. 0 \in H
    BY <1>2, <1>6, <1>11
  <2>2. ASSUME NEW k \in 0 .. n - 1, k \in H PROVE k + 1 \in H
    <3>1. k \in 0 .. b - 1 /\ k + 1 \in 0 .. n /\ g[k] \in P[k]
      BY <1>2, <2>2
    <3> QED
      BY <1>7, <1>11, <3>1, ZenonT(60)
  <2> HIDE DEF H
  <2> QED
    BY <1>2, <2>1, <2>2, IndUpTo, ZenonT(60)
<1>13. Refitting(s, g[n], cap, b, n)
  <2>1. n \in 0 .. n
    BY <1>2
  <2> QED
    BY <1>2, <1>5, <1>12, <2>1, ZenonT(60)
<1> DEFINE x == g[n]
<1>14. /\ Loose(x, cap, b)
       /\ x.output = s.output /\ x.wait_index = w /\ x.eof_index = s.eof_index
       /\ DOMAIN x.wait_map \subseteq D \union {w}
       /\ \A f \in DOMAIN x.wait_map : f < w => n <= f
       /\ n = 0 => x = s
  <2> HIDE DEF H
  <2> QED
    BY <1>13, ZenonT(60) DEF Refitting, D, w
<1> HIDE DEF x, H
<1>15. ASSUME NEW f \in DOMAIN x.wait_map PROVE w <= f
  <2>1. f \in D \/ f = w
    BY <1>14, ZenonT(60)
  <2>0. D \subseteq Nat
    <3> HIDE DEF D, S
    <3> QED
      BY <1>1
  <2>2. f \in Nat
    BY <1>0, <2>0, <2>1, ZenonT(60)
  <2>3. ASSUME f < w PROVE FALSE
    <3>1. f \in S /\ n <= f
      BY <1>0, <1>14, <2>1, <2>3, SMTT(60) DEF S
    <3> QED
      BY <1>2, <2>2, <3>1
  <2> QED
    BY <1>0, <2>2, <2>3
<1>16. ASSUME \A f \in D : w <= f PROVE x = s
  <2>1. S = {}
    BY <1>0, <1>1, <1>16, SMTT(60) DEF S
  <2>2. n = 0
    BY <2>1 DEF n, LastKey
  <2> QED
    BY <1>14, <2>2
<1>17. Updated(s, x, cap, b)
  BY <1>14, <1>15, <1>16, ZenonT(60) DEF Updated, D, w
<1> QED
  BY <1>3, <1>17 DEF x
-----------------------------------------------------------------------------
\* c bytes from w on are appended to the output.
Written(o, p, cap, w, c) ==
    /\ OutOK(p, cap, w + c) /\ Len(p.buf) = Len(o.buf) + c
    /\ p.bytes_read = o.bytes_read /\ p.input_ended = o.input_ended

\* ByteStream::write() takes all of a substring there is room for, unless the
\* input has ended.
LEMMA WriteEffect ==
    ASSUME NEW cap \in Nat, NEW o, NEW w \in Nat, OutOK(o, cap, w), NEW n \in Nat, Len(o.buf) + n <= cap,
           NEW c, c = IF o.input_ended THEN 0 ELSE n
    PROVE  /\ c \in 0 .. n /\ Output!write_size(o, Substring(w, n)) = c
           /\ Written(o, Output!write(o, Substring(w, n)), cap, w, c)
<1> DEFINE data == Substring(w, n)
           new == Substring(w, c)
           buf == o.buf \o new
           L == Len(o.buf)
           p == Output!write(o, data)
<1>1. /\ o \in Outputs(cap) /\ o.bytes_read \in Nat /\ o.buf \in Seq(Nat) /\ L \in Nat
      /\ o.capacity = cap /\ o.bytes_read + L = w /\ o.bytes_written = w
      /\ \A i \in 1 .. L : o.buf[i] = o.bytes_read + i - 1
  BY DEF OutOK, Outputs
<1>2. cap \in Nat
  OBVIOUS
<1>3. c \in 0 .. n /\ c \in Nat
  OBVIOUS
<1>4. data \in Seq(Nat) /\ Len(data) = n
  BY SubstringType, ZenonT(60)
<1> HIDE DEF L
<1>5. Output!write_size(o, data) = c
  <2>1. Output!remaining_capacity(o) = cap - L
    BY <1>1 DEF Output!remaining_capacity, L
  <2>2. n <= cap - L
    BY <1>1, <1>2 DEF L
  <2>3. Output!MinOf(n, cap - L) = n
    BY <2>2 DEF Output!MinOf
  <2> HIDE DEF data
  <2> QED
    BY <1>4, <2>1, <2>3, ZenonT(60) DEF Output!write_size
<1>6. SubSeq(data, 1, c) = new
  BY <1>3, SubstringCut, ZenonT(60)
<1>7. /\ new \in Seq(Nat) /\ Len(new) = c /\ \A j \in 1 .. c : new[j] = w + j - 1
  BY <1>3, SubstringType, ZenonT(60)
<1>8. p = [o EXCEPT !.buf = buf, !.bytes_written = o.bytes_written + c]
  <2> HIDE DEF data, new
  <2> QED
    BY <1>1, <1>5, <1>6, ZenonT(60) DEF Output!write, Outputs
<1> HIDE DEF data, new, p
<1>9. /\ buf \in Seq(Nat) /\ Len(buf) = L + c
      /\ \A i \in 1 .. L : buf[i] = o.buf[i]
      /\ \A i \in L + 1 .. L + c : buf[i] = new[i - L]
  <2>1. /\ buf \in Seq(Nat) /\ Len(buf) = L + c
        /\ \A i \in 1 .. L + c : buf[i] = IF i <= L THEN o.buf[i] ELSE new[i - L]
    <3>1. o.buf \in Seq(Nat) /\ new \in Seq(Nat) /\ Len(new) = c
      BY <1>1, <1>7
    <3>2. /\ buf \in Seq(Nat) /\ Len(buf) = Len(o.buf) + Len(new)
          /\ \A i \in 1 .. Len(o.buf) + Len(new) :
                buf[i] = IF i <= Len(o.buf) THEN o.buf[i] ELSE new[i - Len(o.buf)]
      BY <3>1, JoinSeq, ZenonT(60)
    <3> HIDE DEF buf
    <3> QED
      BY <3>1, <3>2, ZenonT(60) DEF L
  <2> HIDE DEF buf
  <2>2. ASSUME NEW i \in 1 .. L PROVE i \in 1 .. L + c /\ i <= L
    BY <1>1, <1>3
  <2>3. ASSUME NEW i \in L + 1 .. L + c PROVE i \in 1 .. L + c /\ ~(i <= L)
    BY <1>1, <1>3
  <2> QED
    BY <2>1, <2>2, <2>3, ZenonT(60)
<1> HIDE DEF buf
<1>10. ASSUME NEW i \in 1 .. Len(buf) PROVE buf[i] = o.bytes_read + i - 1
  <2>1. CASE i \in 1 .. L
    BY <1>1, <1>9, <2>1
  <2>2. CASE ~(i \in 1 .. L)
    <3>1. i \in L + 1 .. L + c /\ i - L \in 1 .. c /\ i \in Nat
      BY <1>1, <1>3, <1>9, <2>2
    <3>2. buf[i] = w + (i - L) - 1
      BY <1>7, <1>9, <3>1, ZenonT(60)
    <3> QED
      BY <1>1, <3>1, <3>2, SMTT(60)
  <2> QED
    BY <2>1, <2>2
<1>11. o.bytes_written + c \in Nat
  BY <1>1, <1>3
<1>12. /\ p \in Outputs(cap) /\ p.buf = buf /\ p.bytes_read = o.bytes_read
       /\ p.input_ended = o.input_ended /\ p.bytes_written = w + c
  BY <1>1, <1>8, <1>9, <1>11, ZenonT(60) DEF Outputs
<1>13. Len(buf) <= cap /\ o.bytes_read + Len(buf) = w + c
  <2>1. L + n <= cap
    BY DEF L
  <2>2. /\ L \in Nat /\ o.bytes_read \in Nat /\ o.bytes_read + L = w /\ Len(buf) = L + c
        /\ c \in Nat /\ c <= n
    BY <1>1, <1>3, <1>9
  <2> QED
    BY <1>2, <2>1, <2>2, SMTT(60)
<1>14. OutOK(p, cap, w + c)
  BY <1>10, <1>12, <1>13, ZenonT(60) DEF OutOK
<1>15. Written(o, p, cap, w, c)
  BY <1>9, <1>12, <1>14, ZenonT(60) DEF Written, L
<1> QED
  BY <1>3, <1>5, <1>15, ZenonT(60) DEF p, data

\* A reassembler after a substring at the waiting index has been written and the
\* map has become M.
WroteOut(s, t, cap, b, n, M) ==
    /\ Loose(t, cap, b) /\ t.eof_index = s.eof_index /\ t.wait_map = M
    /\ t.wait_index = s.wait_index + IF s.output.input_ended THEN 0 ELSE n
    /\ t.output.bytes_read = s.output.bytes_read
    /\ t.output.input_ended = s.output.input_ended

\* n bytes from the waiting index on fit the output next to what waits in M.
Fits(s, cap, b, n, M) ==
    /\ Loose(s, cap, b) /\ n \in Nat /\ s.wait_index + n <= b
    /\ M \in Maps(b) /\ Weight(M) \in Nat /\ Len(s.output.buf) + n + Weight(M) <= cap

\* What write_output() of n bytes at the waiting index leaves, with any map M for
\* which they fit.
WriteOut(s, u, cap, b, n, M) ==
    /\ WroteOut(s, [u EXCEPT !.wait_map = M], cap, b, n, M)
    /\ u \in Reassemblers(cap, b) /\ u.wait_map = s.wait_map

\* write_output() appends to the output and moves the waiting index past it.
LEMMA WriteOutEffect ==
    ASSUME NEW cap \in Nat, NEW b \in Nat, NEW s, NEW n, NEW M, Fits(s, cap, b, n, M)
    PROVE  WriteOut(s, write_output(s, Substring(s.wait_index, n)), cap, b, n, M)
<1> DEFINE w == s.wait_index
           o == s.output
           data == Substring(w, n)
           c == IF o.input_ended THEN 0 ELSE n
           p == Output!write(o, data)
           u == write_output(s, data)
           t == [u EXCEPT !.wait_map = M]
<1>0. /\ Loose(s, cap, b) /\ n \in Nat /\ s.wait_index + n <= b
      /\ M \in Maps(b) /\ Weight(M) \in Nat /\ Len(s.output.buf) + n + Weight(M) <= cap
  BY DEF Fits
<1>1. /\ s \in Reassemblers(cap, b) /\ w \in Nat /\ Len(o.buf) \in Nat /\ cap \in Nat
      /\ OutOK(o, cap, w)
  BY <1>0, LooseTypes, ZenonT(60) DEF Loose
<1>2. Len(o.buf) + n <= cap
  BY <1>0, <1>1, SMTT(60)
<1>3. c \in 0 .. n /\ Output!write_size(o, data) = c /\ Written(o, p, cap, w, c)
  <2> HIDE DEF w, o
  <2> QED
    BY <1>0, <1>1, <1>2, WriteEffect, SMTT(60)
<1> HIDE DEF c
<1>4. u = [s EXCEPT !.output = p, !.wait_index = w + c]
  BY <1>1, <1>3, ZenonT(60) DEF write_output, Reassemblers
<1> HIDE DEF data, u, p
<1>5. /\ OutOK(p, cap, w + c) /\ Len(p.buf) = Len(o.buf) + c
      /\ p.bytes_read = o.bytes_read /\ p.input_ended = o.input_ended
  BY <1>3, ZenonT(60) DEF Written
<1>6. p \in Outputs(cap) /\ w + c \in Nat /\ w + c <= b
  BY <1>0, <1>1, <1>3, <1>5, SMTT(60) DEF OutOK
<1>7. u \in Reassemblers(cap, b) /\ u.wait_map = s.wait_map
  <2> HIDE DEF w
  <2> QED
    BY <1>1, <1>4, <1>6, ZenonT(60) DEF Reassemblers
<1>8. /\ t \in Reassemblers(cap, b) /\ t.output = p /\ t.wait_index = w + c /\ t.wait_map = M
      /\ t.eof_index = s.eof_index
  <2> HIDE DEF w
  <2> QED
    BY <1>0, <1>1, <1>4, <1>6, <1>7, ZenonT(60) DEF Reassemblers
<1>9. Len(p.buf) + Weight(M) <= cap
  <2> HIDE DEF o
  <2> QED
    BY <1>0, <1>1, <1>3, <1>5, SMTT(60) DEF o
<1> HIDE DEF t
<1>10. Loose(t, cap, b)
  BY <1>5, <1>6, <1>8, <1>9, ZenonT(60) DEF Loose
<1>11. WroteOut(s, t, cap, b, n, M)
  BY <1>5, <1>8, <1>10, ZenonT(60) DEF WroteOut, c
<1> QED
  BY <1>7, <1>11, ZenonT(60) DEF WriteOut, t, u, data

\* What the loop that assembles leaves alone.
Onward(s, t) ==
    /\ t.eof_index = s.eof_index /\ s.wait_index <= t.wait_index
    /\ t.output.bytes_read = s.output.bytes_read
    /\ t.output.input_ended = s.output.input_ended

\* The entry at the waiting index is written to the output.
LEMMA TakeEffect ==
    ASSUME NEW cap \in Nat, NEW b \in Nat, NEW s, Loose(s, cap, b)
    PROVE  /\ Loose(take(s), cap, b) /\ Onward(s, take(s))
           /\ DOMAIN take(s).wait_map = DOMAIN s.wait_map \ {s.wait_index}
           /\ s.wait_index \notin DOMAIN s.wait_map => take(s) = s
<1> DEFINE w == s.wait_index
           m == s.wait_map
           t == take(s)
<1>1. /\ m \in Maps(b) /\ w \in Nat /\ Weight(m) \in Nat /\ Len(s.output.buf) \in Nat
      /\ Len(s.output.buf) + Weight(m) <= cap /\ cap \in Nat
  BY LooseTypes
<1>2. CASE w \notin DOMAIN m
  <2>1. t = s
    BY <1>2, ZenonT(60) DEF take
  <2>2. w <= w
    BY <1>1
  <2>3. DOMAIN m = DOMAIN m \ {w}
    <3> HIDE DEF m, w
    <3> QED
      BY <1>2, ZenonT(60)
  <2> HIDE DEF t
  <2> QED
    BY <2>1, <2>2, <2>3, ZenonT(60) DEF Onward, t
<1>3. CASE w \in DOMAIN m
  <2> DEFINE n == Len(m[w])
             M == erase(m, {w})
             u == write_output(s, m[w])
  <2>1. /\ n \in Nat /\ m[w] = Substring(w, n) /\ w + n <= b /\ w \in 0 .. b - 1
    <3> HIDE DEF m, w
    <3> QED
      BY <1>1, <1>3, MapElim
  <2>2. M \in Maps(b)
    <3> HIDE DEF m, w
    <3> QED
      BY <1>1, EraseMap, ZenonT(60)
  <2>3. DOMAIN M = DOMAIN m \ {w} /\ \A e \in DOMAIN m \ {w} : M[e] = m[e]
    BY ZenonT(60) DEF erase
  <2> HIDE DEF M
  <2>4. Weight(m) = Weight(M) + n
    <3>1. w \notin DOMAIN M /\ DOMAIN m = DOMAIN M \union {w} /\ \A e \in DOMAIN M : m[e] = M[e]
      <4> HIDE DEF m, w
      <4> QED
        BY <1>3, <2>3, ZenonT(60)
    <3> HIDE DEF m, w
    <3> QED
      BY <1>1, <2>1, <2>2, <3>1, WeightInsert, SMTT(60)
  <2>5. Weight(M) \in Nat
    <3>1. DOMAIN M \subseteq DOMAIN m /\ \A e \in DOMAIN M : M[e] = m[e]
      <4> HIDE DEF m, w
      <4> QED
        BY <2>3, ZenonT(60)
    <3> HIDE DEF m, w
    <3> QED
      BY <1>1, <2>2, <3>1, WeightErase, ZenonT(60)
  <2>6. Len(s.output.buf) + n + Weight(M) <= cap
    <3> HIDE DEF m, n
    <3> QED
      BY <1>1, <2>1, <2>4, <2>5, SMTT(60)
  <2>7. /\ WroteOut(s, [write_output(s, Substring(w, n)) EXCEPT !.wait_map = M], cap, b, n, M)
        /\ write_output(s, Substring(w, n)) \in Reassemblers(cap, b)
        /\ write_output(s, Substring(w, n)).wait_map = m
    <3>1. Fits(s, cap, b, n, M)
      BY <2>1, <2>2, <2>5, <2>6, ZenonT(60) DEF Fits
    <3> HIDE DEF n
    <3>2. WriteOut(s, write_output(s, Substring(w, n)), cap, b, n, M)
      BY <3>1, WriteOutEffect, ZenonT(60)
    <3> QED
      BY <3>2 DEF WriteOut
  <2>8. WroteOut(s, [u EXCEPT !.wait_map = M], cap, b, n, M) /\ u.wait_map = m
    <3> HIDE DEF n
    <3> QED
      BY <2>1, <2>7, ZenonT(60)
  <2>9. t = [u EXCEPT !.wait_map = erase(u.wait_map, {w})]
    BY <1>3, ZenonT(60) DEF take
  <2>10. t = [u EXCEPT !.wait_map = M]
    BY <2>8, <2>9, ZenonT(60) DEF M
  <2>11. WroteOut(s, t, cap, b, n, M)
    <3> HIDE DEF t, n, u
    <3> QED
      BY <2>8, <2>10, ZenonT(60)
  <2> HIDE DEF t, n
  <2>12. /\ Loose(t, cap, b) /\ t.eof_index = s.eof_index /\ t.wait_map = M
         /\ t.wait_index = w + IF s.output.input_ended THEN 0 ELSE n
         /\ t.output.bytes_read = s.output.bytes_read
         /\ t.output.input_ended = s.output.input_ended
    BY <2>11, ZenonT(60) DEF WroteOut
  <2>13. w <= t.wait_index
    BY <1>1, <2>1, <2>12
  <2>14. DOMAIN t.wait_map = DOMAIN m \ {w}
    BY <2>3, <2>12, ZenonT(60)
  <2>15. Onward(s, t)
    BY <2>12, <2>13, ZenonT(60) DEF Onward
  <2> QED
    BY <1>3, <2>12, <2>14, <2>15, ZenonT(60) DEF t
<1> QED
  BY <1>2, <1>3

\* One turn of the loop removes an entry, or finds that none can be assembled.
Assembled(s, t, cap, b) ==
    /\ Loose(t, cap, b) /\ Onward(s, t)
    /\ DOMAIN t.wait_map \subseteq DOMAIN s.wait_map
    /\ Tight(t, cap, b) \/ \E e \in DOMAIN s.wait_map : e \notin DOMAIN t.wait_map
    /\ Tight(s, cap, b) => t = s

\* One round of the loop that assembles writes the entry at the waiting index
\* and refits the others.
LEMMA AssembleEffect ==
    ASSUME NEW cap \in Nat, NEW b \in Nat, cap + b < SIZE_MAX, NEW s, Loose(s, cap, b)
    PROVE  Assembled(s, assemble(s), cap, b)
<1> DEFINE x == update_waitmap(s)
           t == take(x)
           w == s.wait_index
           D == DOMAIN s.wait_map
<1>1. assemble(s) = t
  BY ZenonT(60) DEF assemble, With
<1>2. Updated(s, x, cap, b)
  BY UpdateEffect
<1> HIDE DEF x
<1>3. /\ Loose(x, cap, b)
      /\ x.output = s.output /\ x.wait_index = w /\ x.eof_index = s.eof_index
      /\ DOMAIN x.wait_map \subseteq D \union {w}
      /\ \A f \in DOMAIN x.wait_map : w <= f
      /\ (\A f \in D : w <= f) => x = s
  BY <1>2, ZenonT(60) DEF Updated
<1>4. w \in Nat /\ \A f \in D : f \in Nat
  <2>1. s.wait_map \in Maps(b) /\ w \in Nat
    BY LooseTypes
  <2> QED
    BY <2>1, MapElim
<1>5. /\ Loose(t, cap, b) /\ Onward(x, t)
      /\ DOMAIN t.wait_map = DOMAIN x.wait_map \ {w}
      /\ w \notin DOMAIN x.wait_map => t = x
  <2>1. /\ Loose(t, cap, b) /\ Onward(x, t)
        /\ DOMAIN t.wait_map = DOMAIN x.wait_map \ {x.wait_index}
        /\ x.wait_index \notin DOMAIN x.wait_map => t = x
    BY <1>3, TakeEffect
  <2> HIDE DEF t, w
  <2> QED
    BY <1>3, <2>1, ZenonT(60)
<1>6. Onward(s, t)
  <2> HIDE DEF t
  <2> QED
    BY <1>3, <1>5, ZenonT(60) DEF Onward
<1> HIDE DEF t, D, w
<1>7. DOMAIN t.wait_map \subseteq D
  BY <1>3, <1>5, ZenonT(60)
<1>8. ASSUME w \notin DOMAIN x.wait_map PROVE Tight(t, cap, b)
  <2>1. t = x
    BY <1>5, <1>8
  <2>2. ASSUME NEW e \in DOMAIN x.wait_map PROVE e > x.wait_index
    <3>1. e \in D /\ e # w /\ w <= e
      BY <1>3, <1>8, ZenonT(60)
    <3>2. e > w
      BY <1>4, <3>1
    <3> QED
      BY <1>3, <3>2
  <2> QED
    BY <1>3, <2>1, <2>2, ZenonT(60) DEF Tight
<1>9. ASSUME w \in DOMAIN x.wait_map PROVE \E e \in D : e \notin DOMAIN t.wait_map
  <2>1. CASE \A f \in D : w <= f
    <3>1. w \in D
      BY <1>3, <1>9, <2>1, ZenonT(60) DEF D
    <3> QED
      BY <1>5, <3>1, ZenonT(60)
  <2>2. CASE ~(\A f \in D : w <= f)
    <3>1. PICK e \in D : ~(w <= e)
      BY <2>2
    <3> QED
      BY <1>3, <1>5, <3>1, ZenonT(60)
  <2> QED
    BY <2>1, <2>2
<1>10. ASSUME Tight(s, cap, b) PROVE t = s
  <2>1. \A f \in D : f > w
    BY <1>10, ZenonT(60) DEF Tight, D, w
  <2>2. x = s
    BY <1>3, <1>4, <2>1, SMTT(60)
  <2>3. w \notin D
    BY <1>4, <2>1
  <2> QED
    BY <1>5, <2>2, <2>3, ZenonT(60) DEF D
<1>11. Assembled(s, t, cap, b)
  BY <1>5, <1>6, <1>7, <1>8, <1>9, <1>10, ZenonT(60) DEF Assembled, D
<1> QED
  BY <1>1, <1>11

\* A subset that lacks an element is smaller.
LEMMA SmallerWithout ==
    ASSUME NEW S, IsFiniteSet(S), NEW T \in SUBSET S
    PROVE  /\ IsFiniteSet(T) /\ Cardinality(T) \in Nat /\ Cardinality(S) \in Nat
           /\ Cardinality(T) <= Cardinality(S)
           /\ (\E e \in S : e \notin T) => Cardinality(T) + 1 <= Cardinality(S)
<1>1. IsFiniteSet(T) /\ Cardinality(T) <= Cardinality(S) /\ (Cardinality(S) = Cardinality(T) => S = T)
  BY FS_Subset
<1>2. Cardinality(T) \in Nat /\ Cardinality(S) \in Nat
  BY <1>1, FS_CardinalityType
<1>3. ASSUME NEW e \in S, e \notin T PROVE Cardinality(T) + 1 <= Cardinality(S)
  <2>1. Cardinality(S) # Cardinality(T)
    BY <1>1, <1>3
  <2> QED
    BY <1>1, <1>2, <2>1, SMTT(60)
<1> QED
  BY <1>1, <1>2, <1>3, SMTT(60)

\* The loop has run k times since s.
Assembling(s, x, cap, b, k) ==
    /\ Loose(x, cap, b) /\ Onward(s, x)
    /\ DOMAIN x.wait_map \subseteq DOMAIN s.wait_map
    /\ Tight(x, cap, b) \/ Cardinality(DOMAIN x.wait_map) + k <= Cardinality(DOMAIN s.wait_map)

\* The loop goes on to the next round.
LEMMA AssemblingStep ==
    ASSUME NEW cap \in Nat, NEW b \in Nat, cap + b < SIZE_MAX, NEW s, Loose(s, cap, b), NEW k \in Nat,
           NEW x, Assembling(s, x, cap, b, k)
    PROVE  Assembling(s, assemble(x), cap, b, k + 1)
<1> DEFINE t == assemble(x)
           D == DOMAIN s.wait_map
           E == DOMAIN x.wait_map
           F == DOMAIN t.wait_map
<1>1. /\ Loose(x, cap, b) /\ Onward(s, x) /\ E \subseteq D
      /\ Tight(x, cap, b) \/ Cardinality(E) + k <= Cardinality(D)
  BY ZenonT(60) DEF Assembling
<1>2. Assembled(x, t, cap, b)
  BY <1>1, AssembleEffect
<1> HIDE DEF t
<1>3. /\ Loose(t, cap, b) /\ Onward(x, t) /\ F \subseteq E
      /\ Tight(t, cap, b) \/ \E e \in E : e \notin F
      /\ Tight(x, cap, b) => t = x
  BY <1>2, ZenonT(60) DEF Assembled
<1>4. IsFiniteSet(D)
  <2>1. D \in SUBSET (0 .. b - 1)
    <3>1. s.wait_map \in Maps(b)
      BY LooseTypes
    <3> QED
      BY <3>1, MapElim
  <2>2. IsFiniteSet(0 .. b - 1)
    BY FS_Interval
  <2> HIDE DEF D
  <2> QED
    BY <2>1, <2>2, FS_Subset, ZenonT(60)
<1>5. s.wait_index \in Nat /\ x.wait_index \in Nat /\ t.wait_index \in Nat
  BY <1>1, <1>3, LooseTypes, SMTT(60)
<1>6. Onward(s, t)
  BY <1>1, <1>3, <1>5, SMTT(60) DEF Onward
<1> HIDE DEF D, E, F
<1>7. ASSUME ~Tight(t, cap, b) PROVE Cardinality(F) + (k + 1) <= Cardinality(D)
  <2>1. ~Tight(x, cap, b)
    BY <1>3, <1>7, ZenonT(60)
  <2>2. Cardinality(E) + k <= Cardinality(D)
    BY <1>1, <2>1, SMTT(60)
  <2>3. IsFiniteSet(E) /\ Cardinality(E) \in Nat /\ Cardinality(D) \in Nat
    BY <1>1, <1>4, SmallerWithout, SMTT(60)
  <2>4. Cardinality(F) \in Nat /\ Cardinality(F) + 1 <= Cardinality(E)
    <3>1. F \in SUBSET E /\ \E e \in E : e \notin F
      BY <1>3, <1>7, ZenonT(60)
    <3> QED
      BY <2>3, <3>1, SmallerWithout, ZenonT(60)
  <2> QED
    BY <2>2, <2>3, <2>4, SMTT(60)
<1>8. F \subseteq D
  BY <1>1, <1>3, ZenonT(60)
<1>9. Assembling(s, t, cap, b, k + 1)
  BY <1>3, <1>6, <1>7, <1>8, ZenonT(60) DEF Assembling, D, F
<1> QED
  BY <1>9 DEF t

\* When the loop ends, nothing that could be assembled is left.
LEMMA AssembleAllEffect ==
    ASSUME NEW cap \in Nat, NEW b \in Nat, cap + b < SIZE_MAX, NEW s, Loose(s, cap, b)
    PROVE  Tight(assemble_all(s), cap, b) /\ Onward(s, assemble_all(s))
<1> DEFINE D == DOMAIN s.wait_map
           n == Cardinality(D) + 1
           X == {x \in Reassemblers(cap, b) : Loose(x, cap, b)}
           step == [k \in 1 .. n |-> [x \in X |-> assemble(x)]]
           Rec(f) == f = [k \in 0 .. n |-> IF k = 0 THEN s ELSE With(f[k - 1], assemble)]
           g == CHOOSE f : Rec(f)
<1>1. assemble_all(s) = g[n]
  BY ZenonT(60) DEF assemble_all
<1>2. IsFiniteSet(D) /\ Cardinality(D) \in Nat
  <2>1. D \in SUBSET (0 .. b - 1)
    <3>1. s.wait_map \in Maps(b)
      BY LooseTypes
    <3> QED
      BY <3>1, MapElim
  <2>2. IsFiniteSet(0 .. b - 1)
    BY FS_Interval
  <2> HIDE DEF D
  <2> QED
    BY <2>1, <2>2, SmallerWithout, ZenonT(60)
<1> HIDE DEF D
<1>3. n \in Nat
  BY <1>2
<1> HIDE DEF n
<1>4. \A x : x \in X <=> Loose(x, cap, b)
  BY ZenonT(60) DEF Loose
<1> HIDE DEF X
<1>5. \A x : With(x, assemble) = assemble(x)
  BY ZenonT(60) DEF With
<1>6. \A x \in X : assemble(x) \in X
  <2>1. ASSUME NEW x, Loose(x, cap, b) PROVE Loose(assemble(x), cap, b)
    <3>1. Assembled(x, assemble(x), cap, b)
      BY <2>1, AssembleEffect
    <3> QED
      BY <3>1 DEF Assembled
  <2> QED
    BY <1>4, <2>1, ZenonT(60)
<1>7. \E f : Rec(f)
  <2>1. \A k \in 1 .. n, x \in X : step[k][x] = assemble(x)
    OBVIOUS
  <2> HIDE DEF step
  <2>2. StaysIn(X, step, n)
    BY <1>6, <2>1, ZenonT(60) DEF StaysIn
  <2>3. s \in X
    BY <1>4
  <2>4. PICK f : Iterates(f, X, s, step, n)
    BY <1>3, <2>2, <2>3, RecExists, ZenonT(60)
  <2>5. f \in [0 .. n -> X] /\ f[0] = s /\ \A k \in 1 .. n : f[k] = step[k][f[k - 1]]
    BY <2>4, ZenonT(60) DEF Iterates
  <2>6. ASSUME NEW k \in 0 .. n PROVE f[k] = IF k = 0 THEN s ELSE With(f[k - 1], assemble)
    <3>1. k = 0 \/ (k # 0 /\ k \in 1 .. n /\ k - 1 \in 0 .. n)
      BY <1>3
    <3> QED
      BY <1>5, <2>1, <2>5, <3>1, ZenonT(60)
  <2>7. f = [k \in 0 .. n |-> f[k]]
    BY <2>5, ZenonT(60)
  <2> QED
    BY <2>6, <2>7, ZenonT(60)
<1>8. Rec(g)
  <2> HIDE DEF Rec
  <2> QED
    BY <1>7, ZenonT(60)
<1> HIDE DEF g, step
<1>9. g[0] = s /\ \A k \in 0 .. n - 1 : g[k + 1] = assemble(g[k])
  <2>1. \A k \in 0 .. n : g[k] = IF k = 0 THEN s ELSE assemble(g[k - 1])
    BY <1>5, <1>8, ZenonT(60)
  <2>2. 0 \in 0 .. n /\ \A k \in 0 .. n - 1 : k + 1 \in 0 .. n /\ k + 1 # 0 /\ k + 1 - 1 = k
    BY <1>3
  <2> QED
    BY <2>1, <2>2, SMTT(60)
<1> DEFINE H == {k \in 0 .. n : Assembling(s, g[k], cap, b, k)}
<1>10. 0 .. n \subseteq H
  <2>1. 0 \in H
    <3>1. s.wait_index <= s.wait_index
      BY LooseTypes
    <3>2. Cardinality(D) + 0 <= Cardinality(D)
      BY <1>2
    <3>3. Assembling(s, s, cap, b, 0)
      BY <3>1, <3>2, ZenonT(60) DEF Assembling, Onward, D
    <3>4. 0 \in 0 .. n
      BY <1>3
    <3> QED
      BY <1>9, <3>3, <3>4, ZenonT(60)
  <2>2. ASSUME NEW k \in 0 .. n - 1, k \in H PROVE k + 1 \in H
    <3>1. k \in Nat /\ k + 1 \in 0 .. n
      BY <1>3
    <3>2. Assembling(s, g[k], cap, b, k)
      BY <2>2
    <3>3. Assembling(s, assemble(g[k]), cap, b, k + 1)
      BY <3>1, <3>2, AssemblingStep
    <3> QED
      BY <1>9, <3>1, <3>3, ZenonT(60)
  <2> HIDE DEF H
  <2> QED
    BY <1>3, <2>1, <2>2, IndUpTo, ZenonT(60)
<1>11. Assembling(s, g[n], cap, b, n)
  <2>1. n \in 0 .. n
    BY <1>3
  <2> QED
    BY <1>10, <2>1, ZenonT(60)
<1>12. ASSUME Cardinality(DOMAIN g[n].wait_map) + n <= Cardinality(D) PROVE FALSE
  <2>1. DOMAIN g[n].wait_map \in SUBSET D
    BY <1>11, ZenonT(60) DEF Assembling, D
  <2>2. Cardinality(DOMAIN g[n].wait_map) \in Nat
    BY <1>2, <2>1, SmallerWithout, ZenonT(60)
  <2> QED
    BY <1>2, <1>12, <2>2 DEF n
<1>13. Tight(g[n], cap, b) /\ Onward(s, g[n])
  BY <1>11, <1>12, ZenonT(60) DEF Assembling, D
<1> QED
  BY <1>1, <1>13, ZenonT(60)
-----------------------------------------------------------------------------
\* Once the whole stream has been assembled nothing waits: what waits lies behind
\* the waiting index and before the end.
LEMMA NothingWaits ==
    ASSUME NEW cap \in Nat, NEW b \in Nat, NEW s, Tight(s, cap, b), s.wait_index >= s.eof_index
    PROVE  s.wait_index = s.eof_index /\ s.eof_index = b /\ empty(s)
<1>1. /\ Loose(s, cap, b) /\ \A e \in DOMAIN s.wait_map : e > s.wait_index
  BY ZenonT(60) DEF Tight
<1>2. /\ s.wait_map \in Maps(b) /\ s.wait_index \in Nat /\ s.wait_index <= b
      /\ s.eof_index \in Nat /\ s.eof_index >= b
  BY <1>1, LooseTypes, SMTT(60)
<1>3. s.eof_index = b /\ s.wait_index = b
  BY <1>2
<1>4. ASSUME NEW e \in DOMAIN s.wait_map PROVE FALSE
  <2>1. e \in Nat /\ e < b /\ e > s.wait_index
    BY <1>1, <1>2, MapElim, SMTT(60)
  <2> QED
    BY <1>3, <2>1, SMTT(60)
<1> QED
  BY <1>3, <1>4, ZenonT(60) DEF empty

\* What a push may do to a reassembler: it is sound, and ended if and only if it
\* was ended before or is complete.
Pushed(s, t, cap, b) ==
    /\ Tight(t, cap, b)
    /\ t.output.input_ended <=> s.output.input_ended \/ t.wait_index = t.eof_index
    /\ t.output.bytes_read = s.output.bytes_read /\ s.wait_index <= t.wait_index

Closed(s, x, t, cap, b) ==
    Pushed(s, t, cap, b) /\ t.wait_index = x.wait_index /\ t.eof_index = x.eof_index

\* The end of a push ends the output if the stream is complete.
LEMMA CloseEffect ==
    ASSUME NEW cap \in Nat, NEW b \in Nat, cap + b < SIZE_MAX, NEW s, NEW x, Tight(x, cap, b),
           x.output.input_ended = s.output.input_ended,
           x.output.bytes_read = s.output.bytes_read, s.wait_index <= x.wait_index,
           NEW t, t = IF empty(x) /\ x.wait_index = x.eof_index THEN end_output(x) ELSE x
    PROVE  Closed(s, x, t, cap, b)
<1>1. Loose(x, cap, b) /\ \A e \in DOMAIN x.wait_map : e > x.wait_index
  BY ZenonT(60) DEF Tight
<1>2. CASE x.wait_index # x.eof_index
  <2>1. t = x
    BY <1>2, ZenonT(60)
  <2>2. x.output.input_ended \in BOOLEAN
    BY <1>1, LooseTypes
  <2>3. x.output.input_ended <=> s.output.input_ended \/ x.wait_index = x.eof_index
    BY <1>2, <2>2
  <2>4. Pushed(s, x, cap, b)
    BY <2>3, ZenonT(60) DEF Pushed
  <2> QED
    BY <2>1, <2>4 DEF Closed
<1>3. CASE x.wait_index = x.eof_index
  <2>1. empty(x)
    <3>1. x.wait_index >= x.eof_index
      <4>1. x.wait_index \in Nat
        BY <1>1, LooseTypes
      <4> QED
        BY <1>3, <4>1, SMTT(60)
    <3> QED
      BY <3>1, NothingWaits, ZenonT(60)
  <2> DEFINE o == x.output
             p == Output!end_input(o)
  <2>2. t = [x EXCEPT !.output = p]
    <3>1. x \in Reassemblers(cap, b)
      BY <1>1 DEF Loose
    <3> QED
      BY <1>3, <2>1, <3>1, ZenonT(60) DEF end_output, Reassemblers
  <2>3. o \in Outputs(cap) /\ x \in Reassemblers(cap, b) /\ OutOK(o, cap, x.wait_index)
    BY <1>1, LooseTypes DEF Loose
  <2>4. /\ p \in Outputs(cap) /\ p.buf = o.buf /\ p.bytes_read = o.bytes_read
        /\ p.input_ended = TRUE /\ p.bytes_written = o.bytes_written
    <3> HIDE DEF o
    <3> QED
      BY <2>3, ZenonT(60) DEF Outputs, Output!end_input
  <2> HIDE DEF p
  <2>5. OutOK(p, cap, x.wait_index)
    <3> HIDE DEF o
    <3> QED
      BY <2>3, <2>4, ZenonT(60) DEF OutOK
  <2>6. /\ t \in Reassemblers(cap, b) /\ t.output = p /\ t.wait_map = x.wait_map
        /\ t.wait_index = x.wait_index /\ t.eof_index = x.eof_index
    BY <2>2, <2>3, <2>4, ZenonT(60) DEF Reassemblers
  <2>7. Loose(t, cap, b)
    BY <1>1, <2>4, <2>5, <2>6, ZenonT(60) DEF Loose
  <2>8. Tight(t, cap, b)
    BY <1>1, <2>6, <2>7, ZenonT(60) DEF Tight
  <2> QED
    BY <1>3, <2>4, <2>6, <2>8, ZenonT(60) DEF Closed, Pushed
<1> QED
  BY <1>2, <1>3

\* The part of a push that is new, when it does not start at the waiting index.
LEMMA StoreEffect ==
    ASSUME NEW cap \in Nat, NEW b \in Nat, cap + b < SIZE_MAX, NEW s, Tight(s, cap, b),
           NEW i \in Nat, NEW c \in Nat \ {0}, i + c <= b, i > s.wait_index
    PROVE  /\ Tight(checked_insert(s, Substring(i, c), i), cap, b)
           /\ Onward(s, checked_insert(s, Substring(i, c), i))
<1> DEFINE t == checked_insert(s, Substring(i, c), i)
<1>1. Loose(s, cap, b) /\ \A e \in DOMAIN s.wait_map : e > s.wait_index
  BY ZenonT(60) DEF Tight
<1>2. Inserted(s, t, cap, b, i, c)
  BY <1>1, InsertEffect, SMTT(60)
<1> HIDE DEF t
<1>3. /\ Loose(t, cap, b)
      /\ t.output = s.output /\ t.wait_index = s.wait_index /\ t.eof_index = s.eof_index
      /\ DOMAIN t.wait_map \subseteq DOMAIN s.wait_map \union {i}
  BY <1>2, ZenonT(60) DEF Inserted
<1>4. s.wait_index \in Nat
  BY <1>1, LooseTypes
<1>5. s.wait_index <= s.wait_index
  BY <1>4
<1>6. Tight(t, cap, b)
  BY <1>1, <1>3, ZenonT(60) DEF Tight
<1>7. Onward(s, t)
  BY <1>3, <1>5, ZenonT(60) DEF Onward
<1> QED
  BY <1>6, <1>7 DEF t

\* The part that is new, when it does: it is written, as far as there is room,
\* and what waits is assembled.
LEMMA AppendEffect ==
    ASSUME NEW cap \in Nat, NEW b \in Nat, cap + b < SIZE_MAX, NEW s, Tight(s, cap, b),
           NEW c \in Nat \ {0}, s.wait_index + c <= b, NEW j \in 0 .. s.wait_index, NEW t,
           t = assemble_all(write_output(s, truncate_data(s, Substring(s.wait_index, c), j)))
    PROVE  /\ Tight(t, cap, b) /\ Onward(s, t)
           /\ (/\ ~s.output.input_ended
               /\ b <= cap + s.output.bytes_read /\ Len(s.output.buf) < cap)
                 => s.wait_index < t.wait_index
<1> DEFINE w == s.wait_index
           m == s.wait_map
           data == truncate_data(s, Substring(w, c), j)
           u == write_output(s, data)
<1>1. Loose(s, cap, b) /\ \A e \in DOMAIN m : e > w
  BY ZenonT(60) DEF Tight
<1>2. /\ m \in Maps(b) /\ w \in Nat /\ Weight(m) \in Nat /\ Len(s.output.buf) \in Nat
      /\ cap \in Nat /\ s.output.bytes_read \in Nat
      /\ s.output.bytes_read + Len(s.output.buf) = w
  BY <1>1, LooseTypes, SMTT(60)
<1>3. c \in Nat /\ j \in 0 .. b
  BY <1>2, SMTT(60)
<1>4. PICK k \in 0 .. c :
          /\ data = Substring(w, k)
          /\ Len(s.output.buf) + Weight(m) + k <= cap
          /\ /\ c > 0 /\ j < cap + s.output.bytes_read
             /\ Len(s.output.buf) + Weight(m) < cap
             => k > 0
  <2>1. Loose(s, cap, b) /\ w \in Nat
    BY <1>1, <1>2
  <2>2. \E k \in 0 .. c : Truncated(s, cap, w, c, j, k)
    <3> HIDE DEF w
    <3> QED
      BY <1>3, <2>1, TruncateEffect, ZenonT(60)
  <2> QED
    BY <2>2, ZenonT(60) DEF Truncated
<1> HIDE DEF data
<1>5. k \in Nat /\ w + k <= b /\ Len(s.output.buf) + k + Weight(m) <= cap
  <2>1. \A z, h, room, d \in Nat : z + h + d <= room => z + d + h <= room
    OBVIOUS
  <2>2. k \in Nat /\ w + k <= b
    <3> HIDE DEF m, w
    <3> QED
      BY <1>2, SMTT(60) DEF w
  <2> HIDE DEF m
  <2>3. Len(s.output.buf) + Weight(m) + k <= cap
    BY <1>4
  <2> QED
    BY <1>2, <2>1, <2>2, <2>3, ZenonT(60)
<1>6. /\ WroteOut(s, [write_output(s, Substring(w, k)) EXCEPT !.wait_map = m], cap, b, k, m)
      /\ write_output(s, Substring(w, k)) \in Reassemblers(cap, b)
      /\ write_output(s, Substring(w, k)).wait_map = m
  <2>1. k \in Nat /\ w + k <= b /\ Len(s.output.buf) + k + Weight(m) <= cap
    BY <1>2, <1>5, SMTT(60)
  <2>2. Fits(s, cap, b, k, m)
    BY <1>1, <1>2, <2>1, ZenonT(60) DEF Fits
  <2>3. WriteOut(s, write_output(s, Substring(w, k)), cap, b, k, m)
    BY <2>2, WriteOutEffect, ZenonT(60)
  <2> QED
    BY <2>3 DEF WriteOut
<1>7. u = write_output(s, Substring(w, k))
  BY <1>4
<1>8. WroteOut(s, u, cap, b, k, m)
  <2>1. u \in Reassemblers(cap, b) /\ u.wait_map = m
    BY <1>6, <1>7, ZenonT(60)
  <2> HIDE DEF u
  <2>2. [u EXCEPT !.wait_map = m] = u
    BY <2>1, ZenonT(60) DEF Reassemblers
  <2> QED
    BY <1>6, <1>7, <2>2, ZenonT(60)
<1>9. t = assemble_all(u)
  BY DEF data
<1> HIDE DEF u
<1> DEFINE n == IF s.output.input_ended THEN 0 ELSE k
<1>10. /\ Loose(u, cap, b) /\ u.eof_index = s.eof_index /\ u.wait_index = w + n
       /\ u.output.bytes_read = s.output.bytes_read
       /\ u.output.input_ended = s.output.input_ended
  BY <1>8, ZenonT(60) DEF WroteOut
<1>11. Tight(t, cap, b) /\ Onward(u, t)
  BY <1>9, <1>10, AssembleAllEffect, SMTT(60)
<1>12. t.wait_index \in Nat /\ n \in Nat /\ w + n <= t.wait_index
  <2>1. t.wait_index \in Nat
    BY <1>11, LooseTypes, SMTT(60) DEF Tight
  <2> QED
    BY <1>5, <1>10, <1>11, <2>1, SMTT(60) DEF Onward
<1>13. Onward(s, t)
  <2>1. w <= t.wait_index
    BY <1>2, <1>12, SMTT(60)
  <2> QED
    BY <1>10, <1>11, <2>1, ZenonT(60) DEF Onward
<1>14. ASSUME ~s.output.input_ended, b <= cap + s.output.bytes_read, Len(s.output.buf) < cap
       PROVE  w < t.wait_index
  <2>1. \A e \in DOMAIN m : w + 1 <= e
    <3>1. \A e \in DOMAIN m : e \in Nat
      BY <1>2, MapElim, SMTT(60)
    <3> HIDE DEF m
    <3> QED
      BY <1>1, <1>2, <3>1, SMTT(60)
  <2>2. w + 1 \in 0 .. b
    BY <1>2, SMTT(60)
  <2>3. Weight(m) <= b - (w + 1)
    <3> HIDE DEF m
    <3> QED
      BY <1>2, <2>1, <2>2, WeightSpan, ZenonT(60)
  <2>4. Len(s.output.buf) + Weight(m) < cap
    <3>1. \A z, h, br, room, ww, bb \in Nat :
             z + br = ww /\ h <= bb - (ww + 1) /\ bb <= room + br => z + h < room
      OBVIOUS
    <3> HIDE DEF m
    <3>2. s.output.bytes_read + Len(s.output.buf) = Len(s.output.buf) + s.output.bytes_read
      BY <1>2, SMTT(60)
    <3> QED
      BY <1>2, <1>14, <2>3, <3>1, <3>2, ZenonT(60)
  <2>5. c > 0 /\ j < cap + s.output.bytes_read
    BY <1>2, <1>14, SMTT(60)
  <2>6. k > 0
    BY <1>4, <2>4, <2>5, ZenonT(60)
  <2> QED
    BY <1>2, <1>5, <1>12, <1>14, <2>6, SMTT(60)
<1> QED
  BY <1>11, <1>13, <1>14, ZenonT(60)

\* push_substring() once the end is noted.
LEMMA NotedEffect ==
    ASSUME NEW cap \in Nat, NEW b \in Nat, cap + b < SIZE_MAX, NEW s, Tight(s, cap, b),
           NEW i \in Nat, NEW c \in Nat, c = 0 \/ i + c <= b,
           NEW t, t = push_noted(s, Substring(i, c), i)
    PROVE  /\ Pushed(s, t, cap, b) /\ t.eof_index = s.eof_index
           /\ /\ ~s.output.input_ended /\ i <= s.wait_index /\ s.wait_index < i + c
              /\ b <= cap + s.output.bytes_read /\ Len(s.output.buf) < cap
              => s.wait_index < t.wait_index
<1> DEFINE w == s.wait_index
           d == Substring(i, c)
           start == IF i < w THEN w - i ELSE 0
           x == push_data(s, Suffix(d, start), i, i + start)
           close(u) == IF empty(u) /\ u.wait_index = u.eof_index THEN end_output(u) ELSE u
           Covers == /\ ~s.output.input_ended /\ i <= w /\ w < i + c
                     /\ b <= cap + s.output.bytes_read
                     /\ Len(s.output.buf) < cap
<1>1. Loose(s, cap, b)
  BY ZenonT(60) DEF Tight
<1>2. w \in Nat /\ s.eof_index \in Nat
  BY <1>1, LooseTypes, ZenonT(60)
<1>4. Len(d) = c
  BY SubstringType, ZenonT(60)
<1> HIDE DEF d
<1>5. start \in Nat
  BY <1>2
<1>6. t = IF start >= c
          THEN IF empty(s) /\ w >= s.eof_index THEN end_output(s) ELSE s
          ELSE close(x)
  <2>1. \A u : With(u, close) = close(u)
    <3> HIDE DEF close
    <3> QED
      BY ZenonT(60) DEF With
  <2>2. t = push_noted(s, d, i)
    BY DEF d
  <2>3. push_noted(s, d, i) =
          IF start >= Len(d)
          THEN IF empty(s) /\ w >= s.eof_index THEN end_output(s) ELSE s
          ELSE With(x, close)
    BY DEF push_noted
  <2> HIDE DEF x, close, start
  <2> QED
    BY <1>4, <2>1, <2>2, <2>3, ZenonT(60)
<1>7. CASE start >= c
  <2>1. (empty(s) /\ w >= s.eof_index) <=> (empty(s) /\ w = s.eof_index)
    <3>1. w >= s.eof_index => w = s.eof_index
      BY NothingWaits, ZenonT(60)
    <3>2. w = s.eof_index => w >= s.eof_index
      BY <1>2
    <3> QED
      BY <3>1, <3>2, ZenonT(60)
  <2>2. t = IF empty(s) /\ w = s.eof_index THEN end_output(s) ELSE s
    <3> HIDE DEF start, w, x, close
    <3> QED
      BY <1>6, <1>7, <2>1, ZenonT(60)
  <2>3. w <= w
    BY <1>2, SMTT(60)
  <2>4. Pushed(s, t, cap, b) /\ t.eof_index = s.eof_index
    <3>1. Closed(s, s, t, cap, b)
      BY <2>2, <2>3, CloseEffect, ZenonT(60)
    <3> QED
      BY <3>1 DEF Closed
  <2>5. ~Covers
    BY <1>2, <1>7
  <2> QED
    BY <2>4, <2>5, ZenonT(60)
<1>8. CASE ~(start >= c)
  <2>1. t = close(x)
    <3> HIDE DEF start, x, close
    <3> QED
      BY <1>6, <1>8, ZenonT(60)
  <2>2. c \in Nat \ {0} /\ i + c <= b /\ w < i + c
    BY <1>2, <1>8
  <2>5. Tight(x, cap, b) /\ Onward(s, x) /\ (Covers => w < x.wait_index)
    <3>1. CASE i > w
      <4>1. start = 0 /\ ~(i <= w) /\ i + start = i
        BY <1>2, <3>1, SMTT(60)
      <4>2. Suffix(d, 0) = Substring(i, c)
        <5>1. Suffix(d, 0) = Substring(i + 0, c - 0)
          BY SubstringCut DEF d
        <5> QED
          BY <5>1, SMTT(60)
      <4>3. x = checked_insert(s, Substring(i, c), i)
        <5> HIDE DEF start
        <5> QED
          BY <3>1, <4>1, <4>2, ZenonT(60) DEF push_data
      <4>4. Tight(x, cap, b) /\ Onward(s, x)
        <5> HIDE DEF x
        <5> QED
          BY <2>2, <3>1, <4>3, StoreEffect, SMTT(60)
      <4> QED
        BY <4>1, <4>4, ZenonT(60)
    <3>2. CASE ~(i > w)
      <4> DEFINE n == (i + c) - w
      <4>1. /\ start = w - i /\ i + start = w /\ i \in 0 .. w /\ w - i \in 0 .. c
            /\ n \in Nat \ {0} /\ w + n <= b /\ i + (w - i) = w /\ c - (w - i) = n
            /\ ~(w > w)
        BY <1>2, <2>2, <3>2, SMTT(60)
      <4>2. Suffix(d, w - i) = Substring(w, n)
        <5>1. Suffix(d, w - i) = Substring(i + (w - i), c - (w - i))
          <6> HIDE DEF w
          <6> QED
            BY <4>1, SubstringCut, ZenonT(60) DEF d
        <5> QED
          BY <4>1, <5>1, SMTT(60)
      <4>3. x = assemble_all(write_output(s, truncate_data(s, Substring(w, n), i)))
        <5> HIDE DEF start, n
        <5> QED
          BY <4>1, <4>2, ZenonT(60) DEF push_data
      <4> HIDE DEF x, n
      <4>4. /\ Tight(x, cap, b) /\ Onward(s, x)
            /\ (/\ ~s.output.input_ended
                /\ b <= cap + s.output.bytes_read /\ Len(s.output.buf) < cap)
                  => w < x.wait_index
        BY <4>1, <4>3, AppendEffect, ZenonT(60)
      <4> QED
        BY <4>4, ZenonT(60)
    <3> QED
      BY <3>1, <3>2, SMTT(60)
  <2> HIDE DEF x
  <2>6. /\ x.output.bytes_read = s.output.bytes_read /\ w <= x.wait_index
        /\ x.output.input_ended = s.output.input_ended /\ x.eof_index = s.eof_index
    BY <2>5, ZenonT(60) DEF Onward
  <2>7. Pushed(s, t, cap, b) /\ t.wait_index = x.wait_index /\ t.eof_index = s.eof_index
    <3>1. Tight(x, cap, b)
      BY <2>5, SMTT(60)
    <3>2. Closed(s, x, t, cap, b)
      BY <2>1, <2>6, <3>1, CloseEffect, ZenonT(60)
    <3> QED
      BY <2>6, <3>2, SMTT(60) DEF Closed
  <2> QED
    BY <2>5, <2>7, ZenonT(60)
<1> QED
  BY <1>7, <1>8

\* push_substring() keeps what holds between calls, and takes the first missing
\* byte while there is room.
LEMMA PushEffect ==
    ASSUME NEW cap \in Nat, NEW b \in Nat, cap + b < SIZE_MAX, NEW s, Tight(s, cap, b),
           NEW i \in Nat, NEW c \in Nat, c = 0 \/ i + c <= b,
           NEW eof \in BOOLEAN, eof => i + c >= b,
           NEW t, t = push_substring(s, Substring(i, c), i, eof)
    PROVE  /\ Pushed(s, t, cap, b) /\ t.eof_index = IF eof THEN i + c ELSE s.eof_index
           /\ /\ ~s.output.input_ended /\ i <= s.wait_index /\ s.wait_index < i + c
              /\ b <= cap + s.output.bytes_read /\ Len(s.output.buf) < cap
              => s.wait_index < t.wait_index
<1> DEFINE u == IF eof THEN [s EXCEPT !.eof_index = i + c] ELSE s
<1>1. Loose(s, cap, b) /\ \A e \in DOMAIN s.wait_map : e > s.wait_index
  BY ZenonT(60) DEF Tight
<1>2. s \in Reassemblers(cap, b)
  BY <1>1, LooseTypes, SMTT(60)
<1>3. i + c \in Nat
  OBVIOUS
<1>4. Len(Substring(i, c)) = c
  BY SubstringType, ZenonT(60)
<1>5. t = push_noted(u, Substring(i, c), i)
  BY <1>4, ZenonT(60) DEF push_substring
<1>6. /\ u \in Reassemblers(cap, b) /\ u.output = s.output /\ u.wait_map = s.wait_map
      /\ u.wait_index = s.wait_index /\ u.eof_index = IF eof THEN i + c ELSE s.eof_index
  BY <1>2, <1>3, ZenonT(60) DEF Reassemblers
<1> HIDE DEF u
<1>7. Loose(u, cap, b)
  BY <1>1, <1>6, ZenonT(60) DEF Loose
<1>8. Tight(u, cap, b)
  BY <1>1, <1>6, <1>7, ZenonT(60) DEF Tight
<1>9. /\ Pushed(u, t, cap, b) /\ t.eof_index = u.eof_index
      /\ /\ ~u.output.input_ended /\ i <= u.wait_index /\ u.wait_index < i + c
         /\ b <= cap + u.output.bytes_read /\ Len(u.output.buf) < cap
         => u.wait_index < t.wait_index
  BY <1>5, <1>8, NotedEffect, ZenonT(60)
<1>10. Pushed(s, t, cap, b)
  BY <1>6, <1>9, ZenonT(60) DEF Pushed
<1> QED
  BY <1>6, <1>9, <1>10, ZenonT(60)
-----------------------------------------------------------------------------
\* Reading takes a prefix of what is in order.
LEMMA ReadEffect ==
    ASSUME NEW cap \in Nat, NEW w, NEW o, OutOK(o, cap, w), NEW n \in Nat \ {0},
           NEW p, p = Output!read(o, n)
    PROVE  /\ OutOK(p, cap, w) /\ p.bytes_read \in Nat /\ o.bytes_read <= p.bytes_read
           /\ p.input_ended = o.input_ended /\ p.error = o.error
           /\ Len(p.buf) \in Nat /\ Len(o.buf) \in Nat /\ Len(p.buf) <= Len(o.buf)
<1> DEFINE z == Len(o.buf)
           k == Output!MinOf(n, z)
           rest == SubSeq(o.buf, k + 1, z)
<1>1. /\ o \in Outputs(cap) /\ z <= cap /\ o.bytes_read + z = w /\ o.bytes_written = w
      /\ \A i \in 1 .. z : o.buf[i] = o.bytes_read + i - 1
  BY ZenonT(60) DEF OutOK
<1>2. o.buf \in Seq(Nat) /\ o.bytes_read \in Nat
  BY <1>1, ZenonT(60) DEF Outputs
<1>3. z \in Nat /\ cap \in Nat
  BY <1>2, SMTT(60)
<1>4. k \in 0 .. z /\ Output!MinOf(k, z) = k
  <2> HIDE DEF z
  <2> QED
    BY <1>3 DEF Output!MinOf
<1> HIDE DEF k
<1>5. /\ Len(SubSeq(o.buf, 1, k)) = k /\ rest \in Seq(Nat) /\ Len(rest) = z - k
      /\ \A j \in 1 .. z - k : rest[j] = o.buf[k + j]
  <2>1. FirstPart(Nat, o.buf, k, SubSeq(o.buf, 1, k)) /\ LastPart(Nat, o.buf, k, rest)
    BY <1>2, <1>4, CutSeq, ZenonT(60)
  <2> HIDE DEF rest
  <2> QED
    BY <2>1, ZenonT(60) DEF FirstPart, LastPart
<1>6. p = [o EXCEPT !.buf = rest, !.bytes_read = o.bytes_read + k]
  <2>1. n # 0
    OBVIOUS
  <2>2. p = Output!pop_output(o, Len(SubSeq(o.buf, 1, k)))
    BY <2>1, ZenonT(60) DEF Output!read, Output!peek_output, k
  <2>3. p = Output!pop_output(o, k)
    BY <1>5, <2>2, ZenonT(60)
  <2> QED
    BY <1>1, <1>4, <2>3, ZenonT(60) DEF Output!pop_output, Outputs
<1>7. o.bytes_read + k \in Nat
  BY <1>2, <1>3, <1>4
<1> HIDE DEF rest
<1>8. /\ p \in Outputs(cap) /\ p.buf = rest /\ p.bytes_read = o.bytes_read + k
      /\ p.input_ended = o.input_ended /\ p.bytes_written = o.bytes_written
      /\ p.error = o.error
  BY <1>1, <1>5, <1>6, <1>7, ZenonT(60) DEF Outputs
<1> HIDE DEF z
<1>9. /\ Len(p.buf) = z - k /\ z - k \in Nat /\ z - k <= z /\ z - k <= cap
      /\ p.bytes_read + Len(p.buf) = w /\ o.bytes_read <= p.bytes_read
  <2>1. \A x, y \in Nat : \A d \in 0 .. y :
           /\ y - d \in Nat /\ y - d <= y /\ (x + d) + (y - d) = x + y /\ x <= x + d
    OBVIOUS
  <2>2. /\ z - k \in Nat /\ z - k <= z /\ o.bytes_read <= o.bytes_read + k
        /\ (o.bytes_read + k) + (z - k) = o.bytes_read + z
    BY <1>2, <1>3, <1>4, <2>1, ZenonT(60)
  <2>3. z - k <= cap
    BY <1>1, <1>3, <2>2, SMTT(60)
  <2>4. Len(p.buf) = z - k
    BY <1>5, <1>8, ZenonT(60)
  <2> QED
    BY <1>1, <1>8, <2>2, <2>3, <2>4, ZenonT(60)
<1>10. \A i \in 1 .. z - k : p.buf[i] = p.bytes_read + i - 1
  <2>1. SUFFICES ASSUME NEW i \in 1 .. z - k PROVE p.buf[i] = p.bytes_read + i - 1
    OBVIOUS
  <2>2. k + i \in 1 .. z
    BY <1>3, <1>4, SMTT(60)
  <2>3. p.buf[i] = o.bytes_read + (k + i) - 1
    BY <1>1, <1>5, <1>8, <2>2, ZenonT(60)
  <2> QED
    BY <1>2, <1>3, <1>4, <1>8, <2>3, SMTT(60)
<1>11. OutOK(p, cap, w)
  BY <1>1, <1>8, <1>9, <1>10, ZenonT(60) DEF OutOK
<1> QED
  BY <1>3, <1>7, <1>8, <1>9, <1>11, ZenonT(60) DEF z

\* A reassembler that is sound for a bound is sound for a larger one that its end,
\* if it is known, does not lie before.
LEMMA TightGrow ==
    ASSUME NEW cap \in Nat, NEW b \in Nat, NEW d \in Nat, b <= d,
           NEW s, Tight(s, cap, b), s.eof_index >= d
    PROVE  Tight(s, cap, d)
<1>1. Loose(s, cap, b) /\ \A e \in DOMAIN s.wait_map : e > s.wait_index
  BY ZenonT(60) DEF Tight
<1>2. /\ s \in Reassemblers(cap, b) /\ s.wait_map \in Maps(b)
      /\ s.wait_index \in Nat /\ s.wait_index <= b /\ s.eof_index \in Nat
  BY <1>1, LooseTypes, ZenonT(60)
<1>3. s.wait_map \in Maps(d) /\ s.wait_index <= d
  BY <1>2, MapsGrow, SMTT(60)
<1>4. s \in Reassemblers(cap, d)
  BY <1>2, <1>3, ZenonT(60) DEF Reassemblers
<1>5. Loose(s, cap, d)
  BY <1>1, <1>3, <1>4, ZenonT(60) DEF Loose
<1> QED
  BY <1>1, <1>5, ZenonT(60) DEF Tight

\* Reading from the output of a sound reassembler leaves a sound one.
LEMMA ReadTight ==
    ASSUME NEW cap \in Nat, NEW b \in Nat, NEW s, Tight(s, cap, b), NEW n \in Nat \ {0},
           NEW t, t = [s EXCEPT !.output = Output!read(s.output, n)]
    PROVE  /\ Tight(t, cap, b) /\ t.wait_index = s.wait_index /\ t.eof_index = s.eof_index
           /\ t.output = Output!read(s.output, n)
           /\ t.output.input_ended = s.output.input_ended /\ t.output.error = s.output.error
           /\ s.output.bytes_read \in Nat /\ t.output.bytes_read \in Nat
           /\ s.output.bytes_read <= t.output.bytes_read
<1> DEFINE o == s.output
           p == Output!read(s.output, n)
<1>1. Loose(s, cap, b) /\ \A e \in DOMAIN s.wait_map : e > s.wait_index
  BY ZenonT(60) DEF Tight
<1>2. /\ s \in Reassemblers(cap, b) /\ OutOK(o, cap, s.wait_index) /\ s.wait_index <= b
      /\ Len(o.buf) + Weight(s.wait_map) <= cap
  BY <1>1, ZenonT(60) DEF Loose
<1>3. o.bytes_read \in Nat /\ Weight(s.wait_map) \in Nat
  BY <1>1, LooseTypes, ZenonT(60)
<1>4. /\ OutOK(p, cap, s.wait_index) /\ p.bytes_read \in Nat /\ o.bytes_read <= p.bytes_read
      /\ p.input_ended = o.input_ended /\ p.error = o.error
      /\ Len(p.buf) \in Nat /\ Len(o.buf) \in Nat /\ Len(p.buf) <= Len(o.buf)
  <2> HIDE DEF o
  <2>1. OutOK(o, cap, s.wait_index) /\ p = Output!read(o, n)
    BY <1>2 DEF o
  <2> HIDE DEF p
  <2> QED
    BY <2>1, ReadEffect, SMTT(60)
<1> HIDE DEF p
<1>5. p \in Outputs(cap)
  BY <1>4 DEF OutOK
<1>6. /\ t \in Reassemblers(cap, b) /\ t.output = p /\ t.wait_map = s.wait_map
      /\ t.wait_index = s.wait_index /\ t.eof_index = s.eof_index
  BY <1>2, <1>5, ZenonT(60) DEF Reassemblers, p
<1>7. Len(p.buf) + Weight(s.wait_map) <= cap
  BY <1>2, <1>3, <1>4, SMTT(60)
<1>8. Loose(t, cap, b)
  BY <1>2, <1>4, <1>6, <1>7, ZenonT(60) DEF Loose
<1>9. Tight(t, cap, b)
  BY <1>1, <1>6, <1>8, ZenonT(60) DEF Tight
<1> QED
  BY <1>3, <1>4, <1>6, <1>9, ZenonT(60) DEF p

\* So does marking its output, as ended or as failed.
LEMMA MarkTight ==
    ASSUME NEW cap \in Nat, NEW b \in Nat, NEW s, Tight(s, cap, b),
           NEW o, o \in {Output!end_input(s.output), Output!set_error(s.output)},
           NEW t, t = [s EXCEPT !.output = o]
    PROVE  /\ Tight(t, cap, b) /\ t.wait_index = s.wait_index /\ t.eof_index = s.eof_index
           /\ t.output = o
           /\ o = Output!end_input(s.output) => o.input_ended
           /\ o = Output!set_error(s.output) => o.error /\ o.input_ended = s.output.input_ended
<1>1. Loose(s, cap, b) /\ \A e \in DOMAIN s.wait_map : e > s.wait_index
  BY ZenonT(60) DEF Tight
<1>2. /\ s \in Reassemblers(cap, b) /\ OutOK(s.output, cap, s.wait_index) /\ s.wait_index <= b
      /\ Len(s.output.buf) + Weight(s.wait_map) <= cap
  BY <1>1, ZenonT(60) DEF Loose
<1>3. s.output \in Outputs(cap)
  BY <1>2 DEF OutOK
<1>4. /\ o \in Outputs(cap) /\ o.buf = s.output.buf /\ o.bytes_read = s.output.bytes_read
      /\ o.bytes_written = s.output.bytes_written
      /\ o = Output!end_input(s.output) => o.input_ended
      /\ o = Output!set_error(s.output) => o.error /\ o.input_ended = s.output.input_ended
  <2>1. CASE o = Output!end_input(s.output)
    <3>1. o = [s.output EXCEPT !.input_ended = TRUE]
      BY <2>1 DEF Output!end_input
    <3>2. /\ o \in Outputs(cap) /\ o.buf = s.output.buf /\ o.bytes_read = s.output.bytes_read
          /\ o.bytes_written = s.output.bytes_written /\ o.input_ended = TRUE
          /\ o.error = s.output.error
      BY <1>3, <3>1, ZenonT(60) DEF Outputs
    <3>3. o = Output!set_error(s.output) => o.error /\ o.input_ended = s.output.input_ended
      BY <1>3, SMTT(60) DEF Outputs, Output!set_error
    <3> QED
      BY <3>2, <3>3, ZenonT(60)
  <2>2. CASE o = Output!set_error(s.output)
    <3>1. o = [s.output EXCEPT !.error = TRUE]
      BY <2>2 DEF Output!set_error
    <3>2. /\ o \in Outputs(cap) /\ o.buf = s.output.buf /\ o.bytes_read = s.output.bytes_read
          /\ o.bytes_written = s.output.bytes_written /\ o.error = TRUE
          /\ o.input_ended = s.output.input_ended
      BY <1>3, <3>1, ZenonT(60) DEF Outputs
    <3>3. o = Output!end_input(s.output) => o.input_ended
      BY <1>3, SMTT(60) DEF Outputs, Output!end_input
    <3> QED
      BY <3>2, <3>3, ZenonT(60)
  <2> QED
    BY <2>1, <2>2
<1>5. OutOK(o, cap, s.wait_index)
  BY <1>2, <1>4, ZenonT(60) DEF OutOK
<1>6. /\ t \in Reassemblers(cap, b) /\ t.output = o /\ t.wait_map = s.wait_map
      /\ t.wait_index = s.wait_index /\ t.eof_index = s.eof_index
  BY <1>2, <1>4, ZenonT(60) DEF Reassemblers
<1>7. Loose(t, cap, b)
  BY <1>2, <1>4, <1>5, <1>6, ZenonT(60) DEF Loose
<1>8. Tight(t, cap, b)
  BY <1>1, <1>6, <1>7, ZenonT(60) DEF Tight
<1> QED
  BY <1>4, <1>6, <1>8, ZenonT(60)

\* A reassembler without entries and with nothing in its output is sound.
LEMMA NewTight ==
    ASSUME NEW cap \in Nat, NEW b \in Nat, b <= SIZE_MAX, NEW s, s = NewStreamReassembler(cap)
    PROVE  /\ Tight(s, cap, b) /\ s.wait_index = 0 /\ s.eof_index = SIZE_MAX
           /\ s.output.bytes_read = 0 /\ ~s.output.input_ended
<1> DEFINE m == [k \in {} |-> << >>]
           o == Output!NewByteStream(cap)
<1>1. SIZE_MAX \in Nat
  BY SizeT
<1>2. /\ s.output = o /\ s.wait_map = m /\ s.capacity = cap
      /\ s.wait_index = 0 /\ s.eof_index = SIZE_MAX
      /\ s = [output |-> o, wait_map |-> m, capacity |-> cap,
              wait_index |-> 0, eof_index |-> SIZE_MAX]
  <2> HIDE DEF o, m
  <2> QED
    BY SMTT(60) DEF NewStreamReassembler, o, m
<1>3. /\ o \in Outputs(cap) /\ o.buf = << >> /\ o.bytes_read = 0 /\ o.input_ended = FALSE
      /\ o.bytes_written = 0
  BY DEF Output!NewByteStream, Outputs
<1> HIDE DEF o
<1>4. m \in Maps(b) /\ DOMAIN m = {}
  <2>1. m \in [{} -> Seq(Nat)] /\ DOMAIN m = {}
    OBVIOUS
  <2> HIDE DEF m
  <2>2. {} \in SUBSET (0 .. b - 1)
    OBVIOUS
  <2> QED
    BY <2>1, <2>2, MapIntro, ZenonT(60)
<1> HIDE DEF m
<1>5. Weight(m) = 0
  <2>1. Weight(m) \in Nat
    BY <1>4, WeightErase, SMTT(60)
  <2>2. b \in 0 .. b
    OBVIOUS
  <2>3. Weight(m) <= b - b
    BY <1>4, <2>2, WeightSpan, SMTT(60)
  <2> QED
    BY <2>1, <2>3, SMTT(60)
<1>6. s \in Reassemblers(cap, b)
  BY <1>1, <1>2, <1>3, <1>4, SMTT(60) DEF Reassemblers
<1>7. Len(o.buf) = 0
  BY <1>3
<1>8. OutOK(o, cap, 0)
  BY <1>3, <1>7, SMTT(60) DEF OutOK
<1>9. Loose(s, cap, b)
  <2>1. Len(o.buf) + Weight(m) <= cap /\ 0 <= b
    BY <1>5, <1>7, SMTT(60)
  <2> QED
    BY <1>2, <1>6, <1>8, <2>1, ZenonT(60) DEF Loose
<1>10. Tight(s, cap, b)
  BY <1>2, <1>4, <1>9, ZenonT(60) DEF Tight
<1> QED
  BY <1>2, <1>3, <1>10, SMTT(60)
-----------------------------------------------------------------------------
\* What the owner of a reassembler may rely on, in terms of what it can see, when
\* its capacity is cap and b bytes of the stream have been sent.  The proofs about
\* a whole connection rest on nothing else.
Stored(s, cap, b) ==
    /\ s.wait_index \in Nat /\ s.wait_index <= b /\ s.eof_index \in Nat /\ s.eof_index >= b
    /\ s.output.input_ended \in BOOLEAN /\ s.output.bytes_written = s.wait_index
    /\ s.output.bytes_read \in Nat /\ Len(s.output.buf) \in Nat /\ Len(s.output.buf) <= cap
    /\ \A i \in 1 .. Len(s.output.buf) : s.output.buf[i] = s.output.bytes_read + i - 1

\* t is s with something done to its output; rsm[cap, b] are those that are sound.
Marked(rsm, s, t, cap, b) ==
    /\ t \in rsm[cap, b] /\ t.wait_index = s.wait_index /\ t.eof_index = s.eof_index

\* t is s after push_substring().
Received(rsm, s, t, cap, b, eof) ==
    /\ t \in rsm[cap, b] /\ s.wait_index <= t.wait_index
    /\ t.eof_index = IF eof THEN b ELSE s.eof_index
    /\ t.output.input_ended <=> s.output.input_ended \/ t.wait_index = t.eof_index

\* More may be sent, a substring pushed, the output ended, marked as failed or read.
Extends(rsm, s, cap, b) ==
    \A d \in Nat : b <= d /\ d <= s.eof_index => s \in rsm[cap, d]

Pushes(rsm, s, cap, b) ==
    \A i \in Nat, c \in Nat, eof \in BOOLEAN :
        cap + b < SIZE_MAX /\ i + c <= b /\ (eof => i + c = b) =>
            Received(rsm, s, push_substring(s, Substring(i, c), i, eof), cap, b, eof)

Ends(rsm, s, cap, b) ==
    LET t == [s EXCEPT !.output = Output!end_input(@)]
    IN  Marked(rsm, s, t, cap, b) /\ t.output.input_ended

Fails(rsm, s, cap, b) ==
    LET t == [s EXCEPT !.output = Output!set_error(@)]
    IN  /\ Marked(rsm, s, t, cap, b) /\ t.output.error
        /\ t.output.input_ended = s.output.input_ended

Reads(rsm, s, cap, b) ==
    \A n \in Nat \ {0} :
        LET t == [s EXCEPT !.output = Output!read(@, n)]
        IN  /\ Marked(rsm, s, t, cap, b) /\ t.output.error = s.output.error
            /\ t.output.input_ended = s.output.input_ended

NewOne(rsm, cap) ==
    LET s == NewStreamReassembler(cap)
    IN  /\ s \in rsm[cap, 0] /\ s.wait_index = 0 /\ s.eof_index = SIZE_MAX
        /\ ~s.output.input_ended

\* The reassemblers that are sound, by capacity and by how much has been sent.
SoundReassemblers ==
    [x \in Nat \X Nat |-> {s \in Reassemblers(x[1], x[2]) : Tight(s, x[1], x[2])}]

\* They are the ones between calls.
LEMMA SoundReassembler ==
    ASSUME NEW cap \in Nat, NEW b \in Nat, NEW s
    PROVE  s \in SoundReassemblers[cap, b] <=> Tight(s, cap, b)
BY ZenonT(60) DEF SoundReassemblers, Tight, Loose

\* What a reassembler that is sound shows, and that it stays sound while more of
\* the stream is sent.
LEMMA StoredLaws ==
    ASSUME NEW cap \in Nat, NEW b \in Nat, NEW s, Tight(s, cap, b)
    PROVE  Stored(s, cap, b) /\ Extends(SoundReassemblers, s, cap, b)
<1>1. Loose(s, cap, b)
  BY DEF Tight
<1>2. /\ s.wait_index \in Nat /\ s.wait_index <= b /\ s.eof_index \in Nat /\ s.eof_index >= b
      /\ s.output.input_ended \in BOOLEAN /\ s.output.bytes_written = s.wait_index
      /\ s.output.bytes_read \in Nat /\ Len(s.output.buf) \in Nat
  BY <1>1, LooseTypes, SMTT(60)
<1>3. /\ Len(s.output.buf) <= cap
      /\ \A i \in 1 .. Len(s.output.buf) : s.output.buf[i] = s.output.bytes_read + i - 1
  BY <1>1, ZenonT(60) DEF Loose, OutOK
<1>4. Stored(s, cap, b)
  BY <1>2, <1>3, ZenonT(60) DEF Stored
<1>5. ASSUME NEW d \in Nat, b <= d, d <= s.eof_index PROVE Tight(s, cap, d)
  <2>1. s.eof_index >= d
    BY <1>2, <1>5
  <2> QED
    BY <1>5, <2>1, TightGrow, ZenonT(60)
<1> QED
  BY <1>4, <1>5, SoundReassembler, ZenonT(60) DEF Extends

\* push_substring() of a substring of what has been sent.
LEMMA PushLaw ==
    ASSUME NEW cap \in Nat, NEW b \in Nat, NEW s, Tight(s, cap, b)
    PROVE  Pushes(SoundReassemblers, s, cap, b)
<1>1. ASSUME NEW i \in Nat, NEW c \in Nat, NEW eof \in BOOLEAN,
             cap + b < SIZE_MAX, i + c <= b, eof => i + c = b
      PROVE  Received(SoundReassemblers, s, push_substring(s, Substring(i, c), i, eof), cap, b, eof)
  <2> DEFINE t == push_substring(s, Substring(i, c), i, eof)
  <2>1. eof => i + c >= b
    BY <1>1
  <2>2. t = push_substring(s, Substring(i, c), i, eof)
    OBVIOUS
  <2> HIDE DEF t
  <2>3. Pushed(s, t, cap, b) /\ t.eof_index = IF eof THEN i + c ELSE s.eof_index
    BY <1>1, <2>1, <2>2, PushEffect, SMTT(60)
  <2>4. t.eof_index = IF eof THEN b ELSE s.eof_index
    BY <1>1, <2>3, ZenonT(60)
  <2>5. Received(SoundReassemblers, s, t, cap, b, eof)
    BY <2>3, <2>4, SoundReassembler, ZenonT(60) DEF Pushed, Received
  <2> QED
    BY <2>2, <2>5
<1> QED
  BY <1>1, ZenonT(60) DEF Pushes

\* The owner's marks on the output, and its reads.
LEMMA OutputLaws ==
    ASSUME NEW cap \in Nat, NEW b \in Nat, NEW s, Tight(s, cap, b)
    PROVE  /\ Ends(SoundReassemblers, s, cap, b) /\ Fails(SoundReassemblers, s, cap, b)
           /\ Reads(SoundReassemblers, s, cap, b)
<1>1. Ends(SoundReassemblers, s, cap, b)
  <2> DEFINE o == Output!end_input(s.output)
             t == [s EXCEPT !.output = o]
  <2>1. t = [s EXCEPT !.output = o] /\ o = Output!end_input(s.output)
    OBVIOUS
  <2> HIDE DEF o, t
  <2>2. o \in {Output!end_input(s.output), Output!set_error(s.output)}
    BY <2>1
  <2>3. /\ Tight(t, cap, b) /\ t.wait_index = s.wait_index /\ t.eof_index = s.eof_index
        /\ t.output.input_ended
    BY <2>1, <2>2, MarkTight, SMTT(60)
  <2>4. Marked(SoundReassemblers, s, t, cap, b)
    BY <2>3, SoundReassembler, ZenonT(60) DEF Marked
  <2> QED
    BY <2>3, <2>4, ZenonT(60) DEF Ends, o, t
<1>2. Fails(SoundReassemblers, s, cap, b)
  <2> DEFINE o == Output!set_error(s.output)
             t == [s EXCEPT !.output = o]
  <2>1. t = [s EXCEPT !.output = o] /\ o = Output!set_error(s.output)
    OBVIOUS
  <2> HIDE DEF o, t
  <2>2. o \in {Output!end_input(s.output), Output!set_error(s.output)}
    BY <2>1
  <2>3. /\ Tight(t, cap, b) /\ t.wait_index = s.wait_index /\ t.eof_index = s.eof_index
        /\ t.output.error /\ t.output.input_ended = s.output.input_ended
    BY <2>1, <2>2, MarkTight, SMTT(60)
  <2>4. Marked(SoundReassemblers, s, t, cap, b)
    BY <2>3, SoundReassembler, ZenonT(60) DEF Marked
  <2> QED
    BY <2>3, <2>4, ZenonT(60) DEF Fails, o, t
<1>3. ASSUME NEW n \in Nat \ {0}, NEW t, t = [s EXCEPT !.output = Output!read(s.output, n)]
      PROVE  /\ Marked(SoundReassemblers, s, t, cap, b) /\ t.output.error = s.output.error
             /\ t.output.input_ended = s.output.input_ended
  <2>1. /\ Tight(t, cap, b) /\ t.wait_index = s.wait_index /\ t.eof_index = s.eof_index
        /\ t.output.input_ended = s.output.input_ended /\ t.output.error = s.output.error
    BY <1>3, ReadTight, SMTT(60)
  <2> QED
    BY <2>1, SoundReassembler, ZenonT(60) DEF Marked
<1>4. Reads(SoundReassemblers, s, cap, b)
  BY <1>3, ZenonT(60) DEF Reads
<1> QED
  BY <1>1, <1>2, <1>4

\* What the methods of a reassembler do to those in rsm[cap, b], the sound ones.
ReassemblerLaws(rsm) ==
    /\ \A cap \in Nat, b \in Nat : \A s \in rsm[cap, b] :
         /\ Stored(s, cap, b) /\ Extends(rsm, s, cap, b) /\ Pushes(rsm, s, cap, b)
         /\ Ends(rsm, s, cap, b) /\ Fails(rsm, s, cap, b) /\ Reads(rsm, s, cap, b)
    /\ \A cap \in Nat : NewOne(rsm, cap)

\* The sound ones obey the laws.
LEMMA SoundLaws == ReassemblerLaws(SoundReassemblers)
<1>1. ASSUME NEW cap \in Nat PROVE NewOne(SoundReassemblers, cap)
  <2> DEFINE s == NewStreamReassembler(cap)
  <2>1. 0 \in Nat /\ 0 <= SIZE_MAX
    BY SMTT(60) DEF SIZE_MAX, SIZE_MOD
  <2>2. s = NewStreamReassembler(cap)
    OBVIOUS
  <2> HIDE DEF s
  <2>3. /\ Tight(s, cap, 0) /\ s.wait_index = 0 /\ s.eof_index = SIZE_MAX
        /\ ~s.output.input_ended
    BY <2>1, <2>2, NewTight, SMTT(60)
  <2>4. s \in SoundReassemblers[cap, 0]
    BY <2>1, <2>3, SoundReassembler, ZenonT(60)
  <2> QED
    BY <2>2, <2>3, <2>4, ZenonT(60) DEF NewOne
<1> QED
  BY <1>1, SoundReassembler, StoredLaws, PushLaw, OutputLaws, ZenonT(60) DEF ReassemblerLaws
-----------------------------------------------------------------------------
\* Where a peer that reaches so far past the window may write.
Bound(s, far) == Output!MinOf(RecvLength, (RecvCapacity + s.output.bytes_read) + far)

\* The invariant: reassembler and peer as they are between calls.
ReassemblerIInv ==
    /\ reaches \in Nat
    /\ Tight(r, RecvCapacity, Bound(r, reaches))
    /\ r.eof_index \in {SIZE_MAX, RecvLength}
    /\ EndedIffComplete

\* The bound is one, and it grows with what has been read.
LEMMA BoundGrows ==
    ASSUME NEW s, NEW t, s.output.bytes_read \in Nat, t.output.bytes_read \in Nat,
           s.output.bytes_read <= t.output.bytes_read, NEW far \in Nat
    PROVE  /\ Bound(s, far) \in Nat /\ Bound(t, far) \in Nat /\ Bound(s, far) <= Bound(t, far)
           /\ Bound(s, far) <= RecvLength
           /\ Bound(s, far) <= (RecvCapacity + s.output.bytes_read) + far
<1>1. RecvLength \in Nat /\ RecvCapacity \in Nat
  BY ReassemblerAssumption
<1> DEFINE x == s.output.bytes_read
           y == t.output.bytes_read
<1>2. x \in Nat /\ y \in Nat /\ x <= y
  OBVIOUS
<1> HIDE DEF x, y
<1>3. /\ Output!MinOf(RecvLength, (RecvCapacity + x) + far) \in Nat
      /\ Output!MinOf(RecvLength, (RecvCapacity + y) + far) \in Nat
      /\ Output!MinOf(RecvLength, (RecvCapacity + x) + far)
            <= Output!MinOf(RecvLength, (RecvCapacity + y) + far)
      /\ Output!MinOf(RecvLength, (RecvCapacity + x) + far) <= RecvLength
      /\ Output!MinOf(RecvLength, (RecvCapacity + x) + far) <= (RecvCapacity + x) + far
  BY <1>1, <1>2, SMTT(60) DEF Output!MinOf
<1> QED
  BY <1>3, ZenonT(60) DEF Bound, x, y

\* The invariant holds at first.
LEMMA InitSound ==
    ReassemblerInit => ReassemblerIInv
<1>1. SUFFICES ASSUME ReassemblerInit PROVE ReassemblerIInv
  OBVIOUS
<1> DEFINE b == Bound(r, reaches)
<1>2. /\ RecvLength \in Nat /\ RecvCapacity \in Nat /\ Overrun \in Nat
      /\ RecvLength < SIZE_MAX /\ SIZE_MAX \in Nat
  BY ReassemblerAssumption, SizeT, SMTT(60)
<1>3. r = NewStreamReassembler(RecvCapacity) /\ reaches \in Nat
  <2>1. 0 \in Nat
    OBVIOUS
  <2> QED
    BY <1>1, <1>2, <2>1, ZenonT(60) DEF ReassemblerInit
<1>4. 0 \in Nat /\ 0 <= SIZE_MAX
  BY <1>2
<1>5. r.output.bytes_read = 0
  BY <1>2, <1>3, <1>4, NewTight, ZenonT(60)
<1>6. b \in Nat /\ b <= RecvLength
  <2>1. r.output.bytes_read \in Nat /\ r.output.bytes_read <= r.output.bytes_read
    BY <1>5, SMTT(60)
  <2> QED
    BY <1>3, <2>1, BoundGrows, ZenonT(60)
<1> HIDE DEF b
<1>7. b <= SIZE_MAX
  BY <1>2, <1>6, SMTT(60)
<1>8. /\ Tight(r, RecvCapacity, b) /\ r.wait_index = 0 /\ r.eof_index = SIZE_MAX
      /\ ~r.output.input_ended
  BY <1>2, <1>3, <1>6, <1>7, NewTight, ZenonT(60)
<1>9. EndedIffComplete
  <2>1. 0 # SIZE_MAX
    BY <1>2
  <2> QED
    BY <1>8, <2>1, ZenonT(60) DEF EndedIffComplete
<1> QED
  BY <1>3, <1>8, <1>9, ZenonT(60) DEF ReassemblerIInv, b

\* The types that go with the invariant.
LEMMA IInvTypes ==
    ASSUME ReassemblerIInv
    PROVE  /\ Bound(r, reaches) \in Nat /\ Bound(r, reaches) <= RecvLength
           /\ Bound(r, reaches) <= (RecvCapacity + r.output.bytes_read) + reaches
           /\ Loose(r, RecvCapacity, Bound(r, reaches)) /\ r.output.bytes_read \in Nat
           /\ r.capacity = RecvCapacity
<1>1. reaches \in Nat /\ Loose(r, RecvCapacity, Bound(r, reaches))
  BY ZenonT(60) DEF ReassemblerIInv, Tight
<1>2. /\ r.output \in Outputs(RecvCapacity) /\ r.capacity = RecvCapacity
  BY <1>1, ZenonT(60) DEF Loose, Reassemblers
<1>3. r.output.bytes_read \in Nat
  BY <1>2, ZenonT(60) DEF Outputs
<1>4. r.output.bytes_read <= r.output.bytes_read
  BY <1>3
<1> QED
  BY <1>1, <1>2, <1>3, <1>4, BoundGrows, ZenonT(60)

\* Every substring the peer may push.
LEMMA PushKeeps ==
    ASSUME ReassemblerIInv, NEW i \in Nat, NEW c \in Nat, NEW eof \in BOOLEAN, CanPush(i, c, eof)
    PROVE  /\ Pushed(r, AfterPush(i, c, eof), RecvCapacity, Bound(r, reaches))
           /\ AfterPush(i, c, eof).eof_index = IF eof THEN RecvLength ELSE r.eof_index
           /\ /\ i <= r.wait_index /\ r.wait_index < i + c
              /\ reaches = 0 /\ Len(r.output.buf) < RecvCapacity
              => r.wait_index < AfterPush(i, c, eof).wait_index
<1> DEFINE b == Bound(r, reaches)
           t == AfterPush(i, c, eof)
<1>1. /\ b \in Nat /\ b <= RecvLength /\ b <= (RecvCapacity + r.output.bytes_read) + reaches
      /\ r.output.bytes_read \in Nat /\ r.capacity = RecvCapacity
  BY IInvTypes
<1>2. /\ reaches \in Nat /\ Tight(r, RecvCapacity, b) /\ r.eof_index \in {SIZE_MAX, RecvLength}
      /\ r.output.input_ended <=> r.wait_index = r.eof_index
  BY ZenonT(60) DEF ReassemblerIInv, EndedIffComplete
<1>3. /\ RecvLength \in Nat /\ RecvCapacity \in Nat
      /\ RecvCapacity + RecvLength < SIZE_MAX /\ SIZE_MAX \in Nat
  BY ReassemblerAssumption, SizeT, SMTT(60)
<1>4. (c = 0 \/ i + c <= b) /\ (eof => i + c = RecvLength)
  BY <1>1, <1>2, <1>3, SMTT(60) DEF CanPush, WindowEnd, Bound, Output!MinOf
<1>5. t = push_substring(r, Substring(i, c), i, eof)
  BY DEF AfterPush
<1> HIDE DEF t, b
<1>8. RecvCapacity + b < SIZE_MAX /\ (eof => i + c >= b)
  BY <1>1, <1>3, <1>4, SMTT(60)
<1>6. /\ Pushed(r, t, RecvCapacity, b) /\ t.eof_index = IF eof THEN i + c ELSE r.eof_index
      /\ /\ ~r.output.input_ended /\ i <= r.wait_index /\ r.wait_index < i + c
         /\ b <= RecvCapacity + r.output.bytes_read /\ Len(r.output.buf) < RecvCapacity
         => r.wait_index < t.wait_index
  <2>1. /\ RecvCapacity \in Nat /\ b \in Nat /\ RecvCapacity + b < SIZE_MAX
        /\ Tight(r, RecvCapacity, b) /\ (c = 0 \/ i + c <= b) /\ (eof => i + c >= b)
    BY <1>1, <1>2, <1>3, <1>4, <1>8
  <2> QED
    BY <1>5, <2>1, PushEffect, SMTT(60)
<1>7. reaches = 0 => b <= RecvCapacity + r.output.bytes_read
  BY <1>1, <1>3, SMTT(60)
<1>9. i <= r.wait_index /\ r.wait_index < i + c => ~r.output.input_ended
  <2>1. r.wait_index \in Nat /\ r.wait_index <= b
    BY <1>1, <1>2, <1>3, LooseTypes, ZenonT(60) DEF Tight
  <2>2. i <= r.wait_index /\ r.wait_index < i + c => r.wait_index # r.eof_index
    BY <1>1, <1>2, <1>3, <1>4, <2>1, SMTT(60)
  <2> QED
    BY <1>2, <2>2, ZenonT(60)
<1> QED
  BY <1>4, <1>6, <1>7, <1>9, ZenonT(60) DEF t, b

\* Every step keeps the invariant.
LEMMA StepSound ==
    ASSUME ReassemblerIInv, [ReassemblerNext]_rvars
    PROVE  ReassemblerIInv'
<1>1. CASE UNCHANGED rvars
  <2>1. r' = r /\ reaches' = reaches
    BY <1>1 DEF rvars
  <2> QED
    BY <2>1 DEF ReassemblerIInv, EndedIffComplete, Tight, Loose, OutOK, Bound
<1>2. ASSUME NEW i \in 0 .. RecvLength, NEW c \in 0 .. MaxPush, NEW eof \in BOOLEAN,
             Push(i, c, eof)
      PROVE  ReassemblerIInv'
  <2>1. CanPush(i, c, eof) /\ r' = AfterPush(i, c, eof) /\ reaches' = reaches
    BY <1>2 DEF Push
  <2>2. i \in Nat /\ c \in Nat
    BY ReassemblerAssumption
  <2>3. /\ Pushed(r, AfterPush(i, c, eof), RecvCapacity, Bound(r, reaches))
        /\ AfterPush(i, c, eof).eof_index = IF eof THEN RecvLength ELSE r.eof_index
    BY <2>1, <2>2, PushKeeps, ZenonT(60)
  <2>4. /\ Pushed(r, r', RecvCapacity, Bound(r, reaches))
        /\ r'.eof_index = IF eof THEN RecvLength ELSE r.eof_index
    BY <2>1, <2>3
  <2>9. /\ r.eof_index \in {SIZE_MAX, RecvLength}
        /\ r.output.input_ended <=> r.wait_index = r.eof_index
    BY ZenonT(60) DEF ReassemblerIInv, EndedIffComplete
  <2>10. r'.eof_index \in {SIZE_MAX, RecvLength}
    BY <2>4, <2>9, ZenonT(60)
  <2>5. /\ Tight(r', RecvCapacity, Bound(r, reaches)) /\ r'.output.bytes_read = r.output.bytes_read
        /\ r'.output.input_ended <=> r.output.input_ended \/ r'.wait_index = r'.eof_index
        /\ r.wait_index <= r'.wait_index
    BY <2>4, ZenonT(60) DEF Pushed
  <2>6. Bound(r', reaches') = Bound(r, reaches)
    BY <2>1, <2>5, ZenonT(60) DEF Bound
  <2>7. Tight(r', RecvCapacity, Bound(r', reaches'))
    BY <2>5, <2>6, SMTT(60)
  <2>8. reaches' \in Nat
    BY <2>1 DEF ReassemblerIInv
  <2>11. r.output.input_ended => r'.wait_index = r'.eof_index
    <3>1. /\ Bound(r, reaches) \in Nat /\ Bound(r, reaches) <= RecvLength
          /\ Loose(r, RecvCapacity, Bound(r, reaches))
          /\ Loose(r', RecvCapacity, Bound(r, reaches))
      BY <2>5, IInvTypes, ZenonT(60) DEF Tight
    <3>2. /\ RecvCapacity \in Nat /\ RecvLength \in Nat /\ RecvLength < SIZE_MAX
          /\ SIZE_MAX \in Nat
      BY ReassemblerAssumption, SizeT, SMTT(60)
    <3>3. /\ r.wait_index \in Nat /\ r.wait_index <= Bound(r, reaches)
          /\ r'.wait_index \in Nat /\ r'.wait_index <= Bound(r, reaches)
      BY <3>1, <3>2, LooseTypes, ZenonT(60)
    <3>4. r.wait_index = r.eof_index => r.eof_index = RecvLength /\ r'.wait_index = RecvLength
      BY <2>5, <2>9, <3>1, <3>2, <3>3, SMTT(60)
    <3> QED
      BY <2>4, <2>9, <3>4, ZenonT(60)
  <2> QED
    BY <2>5, <2>7, <2>8, <2>10, <2>11, ZenonT(60) DEF ReassemblerIInv, EndedIffComplete
<1>3. ASSUME NEW n \in 1 .. MaxRecv, ReadOutput(n)
      PROVE  ReassemblerIInv'
  <2> DEFINE b == Bound(r, reaches)
             d == Bound(r', reaches)
  <2>1. r' = [r EXCEPT !.output = Output!read(r.output, n)] /\ reaches' = reaches
    BY <1>3 DEF ReadOutput
  <2>2. /\ b \in Nat /\ Tight(r, RecvCapacity, b) /\ reaches \in Nat
        /\ r.eof_index \in {SIZE_MAX, RecvLength}
        /\ r.output.input_ended <=> r.wait_index = r.eof_index
    BY IInvTypes, ZenonT(60) DEF ReassemblerIInv, EndedIffComplete
  <2>3. /\ RecvCapacity \in Nat /\ RecvLength \in Nat /\ RecvLength < SIZE_MAX
        /\ SIZE_MAX \in Nat /\ n \in Nat \ {0}
    BY ReassemblerAssumption, SizeT, SMTT(60)
  <2> HIDE DEF b
  <2>4. /\ Tight(r', RecvCapacity, b)
        /\ r'.wait_index = r.wait_index /\ r'.eof_index = r.eof_index
        /\ r'.output.input_ended = r.output.input_ended
        /\ r.output.bytes_read \in Nat /\ r'.output.bytes_read \in Nat
        /\ r.output.bytes_read <= r'.output.bytes_read
    BY <2>1, <2>2, <2>3, ReadTight, SMTT(60)
  <2>5. d \in Nat /\ b <= d /\ d <= RecvLength
    <3>1. r'.output.bytes_read <= r'.output.bytes_read
      BY <2>4
    <3> QED
      BY <2>2, <2>4, <3>1, BoundGrows, ZenonT(60) DEF b
  <2> HIDE DEF d
  <2>6. r'.eof_index >= d
    BY <2>2, <2>3, <2>4, <2>5, SMTT(60)
  <2>7. Tight(r', RecvCapacity, d)
    BY <2>2, <2>3, <2>4, <2>5, <2>6, TightGrow, ZenonT(60)
  <2> QED
    BY <2>1, <2>2, <2>4, <2>7, ZenonT(60) DEF ReassemblerIInv, EndedIffComplete, d
<1> QED
  BY <1>1, <1>2, <1>3, SMTT(60) DEF ReassemblerNext

\* What the invariant says of the output and of what waits.
LEMMA IInvSound ==
    ReassemblerIInv => ReassemblySound
<1>1. SUFFICES ASSUME ReassemblerIInv PROVE ReassemblySound
  OBVIOUS
<1> DEFINE b == Bound(r, reaches)
           m == r.wait_map
<1>2. b \in Nat /\ Loose(r, RecvCapacity, b) /\ (\A e \in DOMAIN m : e > r.wait_index) /\ EndedIffComplete
  BY <1>1, IInvTypes, ZenonT(60) DEF ReassemblerIInv, Tight
<1>3. OutputInOrder
  BY <1>2, ZenonT(60) DEF Loose, OutOK, OutputInOrder
<1>4. m \in Maps(b)
  BY <1>2, LooseTypes, ReassemblerAssumption, SMTT(60)
<1>5. /\ \A e \in DOMAIN m : e \in Nat /\ Len(m[e]) \in Nat /\ m[e] = Substring(e, Len(m[e]))
      /\ \A e, f \in DOMAIN m : e < f => e + Len(m[e]) <= f \/ Len(m[f]) = 0
  BY <1>2, <1>4, MapElim, SMTT(60)
<1>6. ASSUME NEW e \in DOMAIN m, NEW f \in DOMAIN m \ {e}, NEW x,
             x \in Held(r, e), x \in Held(r, f)
      PROVE  FALSE
  <2> DEFINE p == Len(m[e])
             q == Len(m[f])
  <2>1. /\ e \in Nat /\ f \in Nat /\ p \in Nat /\ q \in Nat /\ e # f
        /\ e < f => e + p <= f \/ q = 0
        /\ f < e => f + q <= e \/ p = 0
    BY <1>5
  <2>2. x \in e .. (e + p - 1) /\ x \in f .. (f + q - 1)
    BY <1>6 DEF Held
  <2> HIDE DEF p, q
  <2> QED
    BY <2>1, <2>2, SMTT(60)
<1>7. WaitingIsSound
  <2>1. ASSUME NEW e \in DOMAIN m, NEW f \in DOMAIN m \ {e}
        PROVE  Held(r, e) \intersect Held(r, f) = {}
    BY <1>6, ZenonT(60)
  <2> QED
    BY <1>2, <1>5, <2>1, ZenonT(60) DEF WaitingIsSound
<1> QED
  BY <1>2, <1>3, <1>7, SMTT(60) DEF ReassemblySound

\* What it says of the room.
LEMMA IInvUsable ==
    ReassemblerIInv => CapacityUsable
<1>1. SUFFICES ASSUME ReassemblerIInv PROVE CapacityUsable
  OBVIOUS
<1>2. Bound(r, reaches) \in Nat /\ Loose(r, RecvCapacity, Bound(r, reaches)) /\ r.capacity = RecvCapacity
  BY <1>1, IInvTypes, ZenonT(60)
<1>3. r.wait_index \in Nat
  <2>1. RecvCapacity \in Nat
    BY ReassemblerAssumption
  <2> QED
    BY <1>2, <2>1, LooseTypes, ZenonT(60)
<1>4. WithinCapacity
  <2>1. unassembled_bytes(r) = Weight(r.wait_map)
    BY ZenonT(60) DEF unassembled_bytes, Weight
  <2> QED
    BY <1>2, <2>1, ZenonT(60) DEF Loose, WithinCapacity
<1>5. ASSUME NEW i \in 0 .. r.wait_index, NEW c \in 1 .. MaxPush, NEW eof \in BOOLEAN,
             reaches = 0, CanPush(i, c, eof), r.wait_index < i + c, Len(r.output.buf) < r.capacity
      PROVE  AfterPush(i, c, eof).wait_index > r.wait_index
  <2>1. i \in Nat /\ c \in Nat /\ i <= r.wait_index /\ Len(r.output.buf) < RecvCapacity
    BY <1>2, <1>3, <1>5, ReassemblerAssumption, SMTT(60)
  <2>2. /\ Pushed(r, AfterPush(i, c, eof), RecvCapacity, Bound(r, reaches))
        /\ AfterPush(i, c, eof).eof_index = IF eof THEN RecvLength ELSE r.eof_index
        /\ /\ i <= r.wait_index /\ r.wait_index < i + c
           /\ reaches = 0 /\ Len(r.output.buf) < RecvCapacity
           => r.wait_index < AfterPush(i, c, eof).wait_index
    BY <1>1, <1>5, <2>1, PushKeeps, ZenonT(60)
  <2>3. r.wait_index < AfterPush(i, c, eof).wait_index
    BY <1>5, <2>1, <2>2, ZenonT(60)
  <2>4. AfterPush(i, c, eof).wait_index \in Nat
    <3>1. Loose(AfterPush(i, c, eof), RecvCapacity, Bound(r, reaches))
      BY <2>2, ZenonT(60) DEF Pushed, Tight
    <3> QED
      BY <1>2, <3>1, LooseTypes, ReassemblerAssumption, SMTT(60)
  <2> QED
    BY <1>3, <2>3, <2>4, SMTT(60)
<1>6. MissingByteAccepted
  BY <1>5, ZenonT(60) DEF MissingByteAccepted
<1> QED
  BY <1>4, <1>6, SMTT(60) DEF CapacityUsable
-----------------------------------------------------------------------------
\* Whatever is pushed, in whatever order and however often, and whatever is read
\* meanwhile, the output is the stream in order up to the waiting index, it is
\* ended exactly when the stream is complete, and what waits is what the stream
\* has there, behind the waiting index and stored once: checked_insert() and
\* update_waitmap() never leave two entries that overlap.
THEOREM ReassemblerSound == ReassemblerSpec => []ReassemblySound
<1>1. ReassemblerIInv /\ [ReassemblerNext]_rvars => ReassemblerIInv'
  BY StepSound, SMTT(60)
<1> QED
  BY InitSound, <1>1, IInvSound, PTL DEF ReassemblerSpec

\* What has been assembled and what waits fit the capacity, so the subtraction
\* in truncate_data() never wraps, and what waits never keeps the first missing
\* byte out: a push that holds it moves the waiting index whenever the output has
\* room and the peer stays within the window.
THEOREM ReassemblerUsesCapacity == ReassemblerSpec => []CapacityUsable
<1>1. ReassemblerIInv /\ [ReassemblerNext]_rvars => ReassemblerIInv'
  BY StepSound
<1> QED
  BY InitSound, <1>1, IInvUsable, PTL DEF ReassemblerSpec
=============================================================================
