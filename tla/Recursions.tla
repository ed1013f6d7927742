----------------------------- MODULE Recursions -----------------------------
(***************************************************************************)
(* Induction and recursion over the natural numbers, without operators for *)
(* parameters: what the proofs about loops over sequences rest on.         *)
(***************************************************************************)
EXTENDS Integers, TLAPS, WellFoundedInduction

\* A set of numbers that contains 0 and with each number the next is all.
LEMMA SetInduction ==
  ASSUME NEW S \in SUBSET Nat, 0 \in S, \A n \in S : n + 1 \in S
  PROVE  S = Nat
<1> DEFINE Rest == Nat \ S
<1> SUFFICES ASSUME Rest # {} PROVE FALSE
  OBVIOUS
<1>1. PICK n \in Rest : \A m \in Rest : <<m, n>> \notin OpToRel(<, Nat)
  BY NatLessThanWellFounded, WFMin
<1>2. \A m \in Rest : ~(m < n)
  BY <1>1 DEF OpToRel
<1>3. n \in Nat /\ n # 0 /\ n \notin S
  BY <1>1
<1>4. n - 1 \in Nat /\ n - 1 < n /\ (n - 1) + 1 = n
  BY <1>3
<1>5. n - 1 \in S
  BY <1>2, <1>4
<1> QED
  BY <1>3, <1>4, <1>5

\* A set of numbers that is not empty has a least one.
LEMMA LeastNumber ==
  ASSUME NEW S \in SUBSET Nat, S # {}
  PROVE  \E n \in S : \A m \in S : n <= m
<1>1. PICK n \in S : \A m \in S : <<m, n>> \notin OpToRel(<, Nat)
  BY NatLessThanWellFounded, WFMin
<1>2. \A m \in S : ~(m < n)
  BY <1>1 DEF OpToRel
<1> QED
  BY <1>2

\* f starts at base and goes on by step.
Recursive(f, base, step) ==
  f[0] = base /\ \A n \in Nat : f[n + 1] = step[<<f[n], n>>]

\* A function defined by its value at 0 and by a step exists.
LEMMA Recursion ==
  ASSUME NEW S, NEW base \in S, NEW step \in [S \X Nat -> S]
  PROVE  \E f \in [Nat -> S] : Recursive(f, base, step)
<1> DEFINE Goes(h, n) == /\ h \in [0 .. n -> S] /\ h[0] = base
                         /\ \A k \in 0 .. (n - 1) : h[k + 1] = step[<<h[k], k>>]
           Have(n) == \E h : Goes(h, n)
           P == { n \in Nat : Have(n) }
<1>1. 0 \in P
  <2>1. PICK h : h = [k \in 0 .. 0 |-> base]
    OBVIOUS
  <2>2. Goes(h, 0)
    BY <2>1
  <2> QED
    BY <2>2
<1>2. ASSUME NEW n \in P PROVE n + 1 \in P
  <2>1. PICK h : Goes(h, n)
    OBVIOUS
  <2>2. PICK g : g = [k \in 0 .. (n + 1) |-> IF k = n + 1 THEN step[<<h[n], n>>] ELSE h[k]]
    OBVIOUS
  <2>3. n \in Nat /\ h[n] \in S
    BY <2>1
  <2>4. step[<<h[n], n>>] \in S
    BY <2>3
  <2>5. g \in [0 .. (n + 1) -> S] /\ g[0] = base
    BY <2>1, <2>2, <2>3, <2>4
  <2>6. ASSUME NEW k \in 0 .. ((n + 1) - 1) PROVE g[k + 1] = step[<<g[k], k>>]
    <3>1. k \in 0 .. n /\ g[k] = h[k]
      BY <2>2, <2>3
    <3>2. CASE k = n
      <4>1. g[n + 1] = step[<<h[n], n>>]
        BY <2>2, <2>3
      <4>2. g[k] = h[n]
        BY <3>1, <3>2
      <4> QED
        BY <3>2, <4>1, <4>2
    <3>3. CASE k # n
      <4>1. k \in 0 .. (n - 1) /\ k + 1 \in 0 .. (n + 1) /\ k + 1 # n + 1
        BY <2>3, <3>1, <3>3
      <4>2. g[k + 1] = h[k + 1]
        BY <2>2, <4>1
      <4> QED
        BY <2>1, <3>1, <4>1, <4>2
    <3> QED
      BY <3>2, <3>3
  <2>7. Goes(g, n + 1)
    BY <2>5, <2>6
  <2> QED
    BY <2>3, <2>7
<1>3. P = Nat
  <2> HIDE DEF P
  <2>1. P \in SUBSET Nat
    BY DEF P
  <2> QED
    BY <1>1, <1>2, <2>1, SetInduction
<1>4. ASSUME NEW m \in Nat, NEW n \in Nat, NEW g, NEW h, Goes(g, m), Goes(h, n)
      PROVE  \A k \in Nat : k <= m /\ k <= n => g[k] = h[k]
  <2> DEFINE Same == { k \in Nat : k <= m /\ k <= n => g[k] = h[k] }
  <2>1. 0 \in Same
    BY <1>4
  <2>2. ASSUME NEW k \in Same PROVE k + 1 \in Same
    <3> SUFFICES ASSUME k + 1 <= m, k + 1 <= n PROVE g[k + 1] = h[k + 1]
      OBVIOUS
    <3>1. k \in 0 .. (m - 1) /\ k \in 0 .. (n - 1) /\ g[k] = h[k]
      OBVIOUS
    <3> QED
      BY <1>4, <3>1
  <2>3. Same = Nat
    <3> HIDE DEF Same
    <3>1. Same \in SUBSET Nat
      BY DEF Same
    <3> QED
      BY <2>1, <2>2, <3>1, SetInduction
  <2> QED
    BY <2>3
<1> DEFINE Part(n) == CHOOSE h : Goes(h, n)
           f == [n \in Nat |-> Part(n)[n]]
<1>5. ASSUME NEW n \in Nat PROVE Goes(Part(n), n)
  <2>1. \E h : Goes(h, n)
    BY <1>3
  <2> HIDE DEF Goes
  <2> QED
    BY <2>1
<1>6. ASSUME NEW n \in Nat PROVE f[n] \in S
  <2>1. n \in 0 .. n
    OBVIOUS
  <2> HIDE DEF Part
  <2>2. Part(n) \in [0 .. n -> S]
    BY <1>5
  <2> QED
    BY <2>1, <2>2
<1>7. f[0] = base
  BY <1>5
<1>8. ASSUME NEW n \in Nat PROVE f[n + 1] = step[<<f[n], n>>]
  <2> HIDE DEF Part
  <2>0. n + 1 \in Nat
    OBVIOUS
  <2>1. Goes(Part(n), n) /\ Goes(Part(n + 1), n + 1)
    <3> HIDE DEF Goes
    <3> QED
      BY <1>5, <2>0
  <2>2. Part(n)[n] = Part(n + 1)[n]
    <3> HIDE DEF Goes
    <3> QED
      BY <1>4, <2>1
  <2>3. n \in 0 .. ((n + 1) - 1)
    OBVIOUS
  <2>4. Part(n + 1)[n + 1] = step[<<Part(n + 1)[n], n>>]
    BY <2>1, <2>3
  <2> QED
    BY <2>1, <2>2, <2>4
<1>9. f \in [Nat -> S]
  BY <1>6
<1> HIDE DEF f
<1>10. Recursive(f, base, step)
  BY <1>7, <1>8 DEF Recursive
<1> QED
  BY <1>9, <1>10
=============================================================================
