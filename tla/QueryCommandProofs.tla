------------------------- MODULE QueryCommandProofs -------------------------
(***************************************************************************)
(* Proofs about Parser and QueryCommand, for every choice of their         *)
(* constants: any tokens, segments and command lines.                      *)
(***************************************************************************)
EXTENDS QueryCommand, QueryProofs, Recursions

-----------------------------------------------------------------------------
(* Tokens written in a row.                                                *)

\* One more part in the row.
PartStep(sep, parts, n, before) ==
  before \o (IF n = 1 THEN <<>> ELSE sep) \o parts[n]

\* f is the row of the first parts, for each number of them.
RowOf(f, T, sep, parts) ==
  /\ f \in [0 .. Len(parts) -> Seq(T)]
  /\ f[0] = <<>>
  /\ \A n \in 1 .. Len(parts) : f[n] = PartStep(sep, parts, n, f[n - 1])

LEMMA PartStepType ==
  ASSUME NEW T, NEW sep \in Seq(T), NEW parts \in Seq(Seq(T)),
         NEW n \in 1 .. Len(parts), NEW before \in Seq(T)
  PROVE  PartStep(sep, parts, n, before) \in Seq(T)
<1>1. parts[n] \in Seq(T)
  BY ElementOfSeq
<1>2. PICK gap \in Seq(T) : gap = IF n = 1 THEN <<>> ELSE sep
  BY EmptySeq
<1>3. before \o gap \in Seq(T)
  BY ConcatProperties
<1>4. (before \o gap) \o parts[n] \in Seq(T)
  BY <1>1, <1>3, ConcatProperties
<1> QED
  BY <1>2, <1>4 DEF PartStep

\* Between adds the parts one by one.
LEMMA BetweenUnfolds ==
  ASSUME NEW T, NEW sep \in Seq(T), NEW parts \in Seq(Seq(T))
  PROVE  \E f : RowOf(f, T, sep, parts) /\ Between(sep, parts) = f[Len(parts)]
<1> DEFINE m == Len(parts)
           S == Seq(T)
           Def(f) == f = [n \in 0 .. m |->
                            IF n = 0 THEN <<>>
                            ELSE f[n - 1] \o (IF n = 1 THEN <<>> ELSE sep) \o parts[n]]
<1>0. m \in Nat
  BY LenProperties
<1>1. PICK empty \in S : empty = <<>>
  BY EmptySeq
<1>2. PICK step : step = [p \in S \X Nat |-> IF p[2] < m THEN PartStep(sep, parts, p[2] + 1, p[1])
                                             ELSE p[1]]
  OBVIOUS
<1>3. step \in [S \X Nat -> S]
  <2>1. ASSUME NEW b \in S, NEW k \in Nat, k < m PROVE PartStep(sep, parts, k + 1, b) \in S
    <3>1. k + 1 \in 1 .. Len(parts)
      BY <1>0, <2>1
    <3> QED
      BY <3>1, PartStepType
  <2> HIDE DEF S
  <2> QED
    BY <1>2, <2>1
<1>4. PICK g \in [Nat -> S] : Recursive(g, empty, step)
  <2> HIDE DEF S
  <2> QED
    BY <1>3, Recursion
<1>5. PICK f : f = [n \in 0 .. m |-> g[n]]
  OBVIOUS
<1>6. f[0] = <<>> /\ f \in [0 .. m -> S]
  <2> HIDE DEF S
  <2>1. 0 \in 0 .. m
    BY <1>0
  <2> QED
    BY <1>0, <1>1, <1>4, <1>5, <2>1 DEF Recursive
<1>7. ASSUME NEW n \in 1 .. m PROVE f[n] = PartStep(sep, parts, n, f[n - 1])
  <2>0. m \in Nat /\ n \in 1 .. m
    BY <1>0
  <2> HIDE DEF m
  <2>1. n - 1 \in Nat /\ n - 1 \in 0 .. m /\ n - 1 < m /\ (n - 1) + 1 = n /\ n \in 0 .. m
    BY <2>0
  <2>2. g[n] = step[<<g[n - 1], n - 1>>]
    BY <1>4, <2>1 DEF Recursive
  <2>3. g[n - 1] \in S
    BY <1>4, <2>1
  <2>4. step[<<g[n - 1], n - 1>>] = PartStep(sep, parts, n, g[n - 1])
    <3> HIDE DEF S
    <3> QED
      BY <1>2, <2>1, <2>3
  <2> QED
    BY <1>5, <2>1, <2>2, <2>4
<1>8. Def(f)
  <2>1. ASSUME NEW n \in 0 .. m, n # 0
        PROVE  f[n] = f[n - 1] \o (IF n = 1 THEN <<>> ELSE sep) \o parts[n]
    <3>1. n \in 1 .. m
      BY <1>0, <2>1
    <3> QED
      BY <1>7, <3>1 DEF PartStep
  <2>2. f = [n \in 0 .. m |-> f[n]]
    BY <1>6
  <2> QED
    BY <1>6, <2>1, <2>2
<1>9. PICK e : e = CHOOSE h : Def(h)
  OBVIOUS
<1>10. Def(e)
  <2> HIDE DEF Def
  <2> QED
    BY <1>8, <1>9
<1>11. Between(sep, parts) = e[m]
  BY <1>9 DEF Between
<1>12. e[0] = <<>> /\ \A n \in 1 .. m : e[n] = PartStep(sep, parts, n, e[n - 1])
  <2>1. 0 \in 0 .. m
    BY <1>0
  <2>2. ASSUME NEW n \in 1 .. m PROVE e[n] = PartStep(sep, parts, n, e[n - 1])
    <3>1. n \in 0 .. m /\ n # 0
      BY <1>0
    <3> QED
      BY <1>10, <3>1 DEF PartStep
  <2> QED
    BY <1>10, <2>1, <2>2
<1>13. e \in [0 .. m -> S]
  <2> DEFINE Good == { n \in Nat : n <= m => e[n] \in S }
  <2>1. 0 \in Good
    BY <1>12, EmptySeq
  <2>2. ASSUME NEW n \in Good PROVE n + 1 \in Good
    <3> SUFFICES ASSUME n + 1 <= m PROVE e[n + 1] \in S
      OBVIOUS
    <3>1. n \in Nat /\ n + 1 \in 1 .. m /\ (n + 1) - 1 = n /\ e[n] \in S
      BY <1>0
    <3>2. PartStep(sep, parts, n + 1, e[n]) \in S
      BY <3>1, PartStepType
    <3> QED
      BY <1>12, <3>1, <3>2
  <2>3. Good = Nat
    <3> HIDE DEF Good
    <3>1. Good \in SUBSET Nat
      BY DEF Good
    <3> QED
      BY <2>1, <2>2, <3>1, SetInduction
  <2>4. ASSUME NEW n \in 0 .. m PROVE e[n] \in S
    <3>1. n \in Nat /\ n <= m
      BY <1>0
    <3>2. n \in Good
      BY <2>3, <3>1
    <3> QED
      BY <3>1, <3>2
  <2>5. e = [n \in 0 .. m |-> e[n]]
    BY <1>10
  <2> QED
    BY <2>4, <2>5
<1> QED
  BY <1>11, <1>12, <1>13 DEF RowOf

\* No part, one part, and one part more.
LEMMA BetweenNone ==
  ASSUME NEW T, NEW sep \in Seq(T)
  PROVE  Between(sep, <<>>) = <<>>
<1>1. PICK parts \in Seq(Seq(T)) : parts = <<>>
  BY EmptySeq
<1>2. PICK f : RowOf(f, T, sep, parts) /\ Between(sep, parts) = f[Len(parts)]
  BY BetweenUnfolds
<1>3. Len(parts) = 0
  BY <1>1
<1> QED
  BY <1>1, <1>2, <1>3 DEF RowOf

LEMMA BetweenOne ==
  ASSUME NEW T, NEW sep \in Seq(T), NEW part \in Seq(T)
  PROVE  Between(sep, <<part>>) = part
<1>1. PICK parts \in Seq(Seq(T)) : parts = <<part>>
  <2>1. ASSUME NEW S, NEW s \in S PROVE <<s>> \in Seq(S)
    OBVIOUS
  <2> QED
    BY <2>1
<1>2. PICK f : RowOf(f, T, sep, parts) /\ Between(sep, parts) = f[Len(parts)]
  BY BetweenUnfolds
<1>3. Len(parts) = 1 /\ parts[1] = part
  BY <1>1
<1>4. 1 \in 1 .. Len(parts) /\ 1 - 1 = 0
  BY <1>3
<1>5. f[1] = PartStep(sep, parts, 1, f[0]) /\ f[0] = <<>>
  BY <1>2, <1>4 DEF RowOf
<1>6. f[1] = (<<>> \o <<>>) \o part
  BY <1>3, <1>5 DEF PartStep
<1>7. <<>> \o <<>> = <<>>
  OBVIOUS
<1>8. <<>> \o part = part
  BY ConcatEmptySeq
<1>9. f[1] = part
  BY <1>6, <1>7, <1>8
<1> QED
  BY <1>1, <1>2, <1>3, <1>9

LEMMA BetweenType ==
  ASSUME NEW T, NEW sep \in Seq(T), NEW parts \in Seq(Seq(T))
  PROVE  Between(sep, parts) \in Seq(T)
<1>1. PICK f : RowOf(f, T, sep, parts) /\ Between(sep, parts) = f[Len(parts)]
  BY BetweenUnfolds
<1>2. Len(parts) \in 0 .. Len(parts)
  BY LenProperties
<1> QED
  BY <1>1, <1>2 DEF RowOf

LEMMA BetweenMore ==
  ASSUME NEW T, NEW sep \in Seq(T), NEW parts \in Seq(Seq(T)), parts # <<>>, NEW part \in Seq(T)
  PROVE  /\ Between(sep, Append(parts, part)) = Between(sep, parts) \o sep \o part
         /\ Between(sep, parts) \in Seq(T)
<1>1. PICK f : RowOf(f, T, sep, parts) /\ Between(sep, parts) = f[Len(parts)]
  BY BetweenUnfolds
<1>2. PICK longer \in Seq(Seq(T)) : longer = Append(parts, part)
  BY AppendProperties
<1>3. PICK g : RowOf(g, T, sep, longer) /\ Between(sep, longer) = g[Len(longer)]
  BY BetweenUnfolds
<1>4. PICK m \in Nat : m = Len(parts)
  BY LenProperties
<1>5. /\ Len(longer) = m + 1 /\ longer[m + 1] = part
      /\ \A i \in 1 .. m : longer[i] = parts[i]
  BY <1>2, <1>4, AppendProperties
<1>6. m # 0
  BY <1>4, EmptySeq
<1> DEFINE Same == { n \in Nat : n <= m => f[n] = g[n] }
<1>7. 0 \in Same
  BY <1>1, <1>3 DEF RowOf
<1>8. ASSUME NEW n \in Same PROVE n + 1 \in Same
  <2> SUFFICES ASSUME n + 1 <= m PROVE f[n + 1] = g[n + 1]
    OBVIOUS
  <2>1. n \in Nat /\ n + 1 \in 1 .. m /\ n + 1 \in 1 .. (m + 1) /\ (n + 1) - 1 = n /\ f[n] = g[n]
    OBVIOUS
  <2>2. f[n + 1] = PartStep(sep, parts, n + 1, f[n])
    BY <1>1, <1>4, <2>1 DEF RowOf
  <2>3. g[n + 1] = PartStep(sep, longer, n + 1, g[n])
    BY <1>3, <1>5, <2>1 DEF RowOf
  <2>4. longer[n + 1] = parts[n + 1]
    BY <1>5, <2>1
  <2> QED
    BY <2>1, <2>2, <2>3, <2>4 DEF PartStep
<1>9. Same = Nat
  <2> HIDE DEF Same
  <2>1. Same \in SUBSET Nat
    BY DEF Same
  <2> QED
    BY <1>7, <1>8, <2>1, SetInduction
<1>10. f[m] = g[m]
  <2>1. m \in Same
    BY <1>9
  <2>2. m <= m
    OBVIOUS
  <2> QED
    BY <2>1, <2>2
<1>11. m + 1 \in 1 .. (m + 1) /\ (m + 1) - 1 = m /\ m + 1 # 1
  BY <1>6
<1>12. g[m + 1] = PartStep(sep, longer, m + 1, g[m])
  BY <1>3, <1>5, <1>11 DEF RowOf
<1>13. g[m + 1] = g[m] \o sep \o part
  BY <1>5, <1>11, <1>12 DEF PartStep
<1>14. f[m] \in Seq(T) /\ Between(sep, parts) = f[m]
  <2>1. Between(sep, parts) \in Seq(T)
    BY BetweenType
  <2> QED
    BY <1>1, <1>4, <2>1
<1>15. Between(sep, longer) = g[m + 1]
  BY <1>3, <1>5
<1>16. Between(sep, longer) = f[m] \o sep \o part
  BY <1>10, <1>13, <1>15
<1> QED
  BY <1>2, <1>14, <1>16

\* A sequence and more, where only that matters.
Cat(a, b) == a \o b

LEMMA CatOn ==
  ASSUME NEW T, NEW a \in Seq(T), NEW b \in Seq(T), NEW e \in Seq(T)
  PROVE  Cat(a, b) \in Seq(T) /\ Cat(Cat(a, b), e) = Cat(a, Cat(b, e))
<1>1. a \o b \in Seq(T)
  BY ConcatProperties
<1>2. (a \o b) \o e = a \o (b \o e)
  BY ConcatAssociative
<1> QED
  BY <1>1, <1>2 DEF Cat

\* The last part may be written on.
LEMMA BetweenOn ==
  ASSUME NEW T, NEW sep \in Seq(T), NEW parts \in Seq(Seq(T)),
         NEW part \in Seq(T), NEW rest \in Seq(T)
  PROVE  Between(sep, Append(parts, Cat(part, rest))) = Cat(Between(sep, Append(parts, part)), rest)
<1>1. Cat(part, rest) \in Seq(T)
  BY CatOn
<1>2. CASE parts = <<>>
  <2>1. Append(parts, Cat(part, rest)) = <<Cat(part, rest)>> /\ Append(parts, part) = <<part>>
    BY <1>2
  <2> QED
    BY <1>1, <2>1, BetweenOne
<1>3. CASE parts # <<>>
  <2>1. PICK b \in Seq(T) : b = Between(sep, parts)
    BY <1>3, BetweenMore
  <2>2. Between(sep, Append(parts, Cat(part, rest))) = Cat(Cat(b, sep), Cat(part, rest))
    BY <1>1, <1>3, <2>1, BetweenMore DEF Cat
  <2>3. Between(sep, Append(parts, part)) = Cat(Cat(b, sep), part)
    BY <1>3, <2>1, BetweenMore DEF Cat
  <2>4. Cat(b, sep) \in Seq(T)
    BY <2>1, CatOn
  <2>5. Cat(Cat(Cat(b, sep), part), rest) = Cat(Cat(b, sep), Cat(part, rest))
    BY <2>4, CatOn
  <2> QED
    BY <2>2, <2>3, <2>5
<1> QED
  BY <1>2, <1>3

-----------------------------------------------------------------------------
(* The conditions of a WHERE, in groups.                                   *)

\* Groups of comparisons, none of them empty.
GroupList == { g \in Seq(Seq(Comparison)) : g # <<>> /\ \A i \in DOMAIN g : g[i] # <<>> }

\* There is a comparison behind every AND or OR.
Counted ==
  /\ comps \in Seq(Comparison) /\ ops \in Seq({"AND", "OR"})
  /\ Len(comps) = Len(ops) + 1

\* A sequence is not empty when it has been appended to, and its last
\* element can be replaced.
EndWith(g, new) == [g EXCEPT ![Len(g)] = new]

LEMMA LastReplaced ==
  ASSUME NEW S, NEW front \in Seq(S), NEW last \in S, NEW new \in S
  PROVE  /\ Append(front, last)[Len(Append(front, last))] = last
         /\ EndWith(Append(front, last), new) = Append(front, new)
<1>1. PICK h : h = Append(front, last)
  OBVIOUS
<1>2. PICK k : k = Append(front, new)
  OBVIOUS
<1>3. PICK n \in Nat : n = Len(front)
  BY LenProperties
<1>4. h \in Seq(S) /\ Len(h) = n + 1 /\ h[n + 1] = last /\ \A i \in 1 .. n : h[i] = front[i]
  BY <1>1, <1>3, AppendProperties
<1>5. k \in Seq(S) /\ Len(k) = n + 1 /\ k[n + 1] = new /\ \A i \in 1 .. n : k[i] = front[i]
  BY <1>2, <1>3, AppendProperties
<1>6. PICK t : t = [h EXCEPT ![n + 1] = new]
  OBVIOUS
<1>7. n + 1 \in 1 .. Len(h)
  BY <1>3, <1>4
<1>8. t \in Seq(S) /\ Len(t) = Len(h) /\ \A i \in 1 .. Len(h) : t[i] = IF i = n + 1 THEN new ELSE h[i]
  BY <1>4, <1>6, <1>7, ExceptSeq
<1>9. \A i \in 1 .. (n + 1) : t[i] = k[i]
  <2>1. ASSUME NEW i \in 1 .. (n + 1) PROVE t[i] = k[i]
    <3>1. CASE i = n + 1
      BY <1>4, <1>5, <1>8, <3>1
    <3>2. CASE i # n + 1
      <4>1. i \in 1 .. n
        BY <1>3, <3>2
      <4> QED
        BY <1>4, <1>5, <1>8, <3>2, <4>1
    <3> QED
      BY <3>1, <3>2
  <2> QED
    BY <2>1
<1>10. t = k
  BY <1>4, <1>5, <1>8, <1>9, SeqEqual
<1>11. EndWith(h, new) = Append(front, new)
  BY <1>2, <1>3, <1>4, <1>6, <1>10 DEF EndWith
<1> QED
  BY <1>1, <1>3, <1>4, <1>11

\* A turn of pass 2 writes on the last group or begins another.
LEMMA JoinGroupIs ==
  ASSUME NEW front \in Seq(Seq(Comparison)), NEW last \in Seq(Comparison),
         NEW i \in Nat, comps[i + 1] \in Comparison
  PROVE  JoinGroup(Append(front, last), i)
           = IF ops[i] = "AND" THEN Append(front, Append(last, comps[i + 1]))
             ELSE Append(Append(front, last), <<comps[i + 1]>>)
<1>1. PICK g : g = Append(front, last)
  OBVIOUS
<1>2. Append(last, comps[i + 1]) \in Seq(Comparison)
  BY AppendProperties
<1>3. g[Len(g)] = last /\ EndWith(g, Append(last, comps[i + 1])) = Append(front, Append(last, comps[i + 1]))
  <2>1. PICK new \in Seq(Comparison) : new = Append(last, comps[i + 1])
    BY <1>2
  <2>2. g[Len(g)] = last /\ EndWith(g, new) = Append(front, new)
    BY <1>1, LastReplaced
  <2> QED
    BY <2>1, <2>2
<1>4. JoinGroup(g, i) = IF ops[i] = "AND" THEN EndWith(g, Append(g[Len(g)], comps[i + 1]))
                        ELSE Append(g, <<comps[i + 1]>>)
  BY DEF JoinGroup, EndWith
<1>5. JoinGroup(g, i) = IF ops[i] = "AND" THEN Append(front, Append(last, comps[i + 1]))
                        ELSE Append(g, <<comps[i + 1]>>)
  BY <1>3, <1>4
<1> QED
  BY <1>1, <1>5

\* Groups have a last one.
LEMMA GroupListEnds ==
  ASSUME NEW g \in GroupList
  PROVE  \E front \in Seq(Seq(Comparison)), last \in Seq(Comparison) :
           g = Append(front, last) /\ last # <<>>
           /\ \A i \in DOMAIN front : front[i] # <<>>
<1>1. g \in Seq(Seq(Comparison)) /\ g # <<>> /\ \A i \in DOMAIN g : g[i] # <<>>
  BY DEF GroupList
<1>2. PICK front \in Seq(Seq(Comparison)), last \in Seq(Comparison) : g = Append(front, last)
  BY <1>1, SequenceEmptyOrAppend
<1>3. PICK n \in Nat : n = Len(front) /\ DOMAIN front = 1 .. n
  BY LenProperties
<1>4. Len(g) = n + 1 /\ g[n + 1] = last /\ \A i \in 1 .. n : g[i] = front[i]
  BY <1>2, <1>3, AppendProperties
<1>5. DOMAIN g = 1 .. (n + 1)
  BY <1>1, <1>4, LenProperties
<1>6. n + 1 \in 1 .. (n + 1) /\ \A i \in 1 .. n : i \in 1 .. (n + 1)
  BY <1>3
<1>7. last # <<>> /\ \A i \in DOMAIN front : front[i] # <<>>
  BY <1>1, <1>3, <1>4, <1>5, <1>6
<1> QED
  BY <1>2, <1>7

\* Groups are made by appending a group to groups.
LEMMA GroupListGrows ==
  ASSUME NEW front \in Seq(Seq(Comparison)), \A i \in DOMAIN front : front[i] # <<>>,
         NEW last \in Seq(Comparison), last # <<>>
  PROVE  Append(front, last) \in GroupList
<1>1. PICK g : g = Append(front, last)
  OBVIOUS
<1>2. PICK n \in Nat : n = Len(front) /\ DOMAIN front = 1 .. n
  BY LenProperties
<1>3. /\ g \in Seq(Seq(Comparison)) /\ g # <<>>
      /\ Len(g) = n + 1 /\ g[n + 1] = last /\ \A i \in 1 .. n : g[i] = front[i]
  BY <1>1, <1>2, AppendProperties
<1>4. DOMAIN g = 1 .. (n + 1)
  BY <1>3, LenProperties
<1>5. ASSUME NEW i \in 1 .. (n + 1) PROVE g[i] # <<>>
  <2>1. CASE i = n + 1
    BY <1>3, <2>1
  <2>2. CASE i # n + 1
    <3>1. i \in 1 .. n
      BY <1>2, <2>2
    <3> QED
      BY <1>2, <1>3, <3>1
  <2> QED
    BY <2>1, <2>2
<1>6. g \in GroupList
  BY <1>3, <1>4, <1>5 DEF GroupList
<1> QED
  BY <1>1, <1>6

LEMMA JoinGroupType ==
  ASSUME Counted, NEW g \in GroupList, NEW i \in 1 .. Len(ops)
  PROVE  JoinGroup(g, i) \in GroupList /\ comps[i + 1] \in Comparison
<1>1. comps \in Seq(Comparison) /\ ops \in Seq({"AND", "OR"}) /\ Len(comps) = Len(ops) + 1
  BY DEF Counted
<1>2. Len(ops) \in Nat
  BY <1>1, LenProperties
<1>3. i \in Nat /\ i + 1 \in 1 .. Len(comps)
  BY <1>1, <1>2
<1>4. comps[i + 1] \in Comparison
  BY <1>1, <1>3, ElementOfSeq
<1>5. PICK front \in Seq(Seq(Comparison)), last \in Seq(Comparison) :
        g = Append(front, last) /\ last # <<>> /\ \A x \in DOMAIN front : front[x] # <<>>
  BY GroupListEnds
<1>6. JoinGroup(g, i) = IF ops[i] = "AND" THEN Append(front, Append(last, comps[i + 1]))
                        ELSE Append(Append(front, last), <<comps[i + 1]>>)
  BY <1>3, <1>4, <1>5, JoinGroupIs
<1>7. Append(last, comps[i + 1]) \in Seq(Comparison) /\ Append(last, comps[i + 1]) # <<>>
  BY <1>4, AppendProperties
<1>8. Append(front, Append(last, comps[i + 1])) \in GroupList
  BY <1>5, <1>7, GroupListGrows
<1>9. <<comps[i + 1]>> \in Seq(Comparison) /\ <<comps[i + 1]>> # <<>>
  BY <1>4
<1>10. g \in Seq(Seq(Comparison)) /\ \A x \in DOMAIN g : g[x] # <<>>
  BY DEF GroupList
<1>11. Append(g, <<comps[i + 1]>>) \in GroupList
  BY <1>9, <1>10, GroupListGrows
<1> QED
  BY <1>4, <1>5, <1>6, <1>8, <1>11

\* f is the groups of the first comparisons, for each number of operators.
PassOf(f) ==
  /\ f \in [0 .. Len(ops) -> GroupList]
  /\ f[0] = << <<comps[1]>> >>
  /\ \A n \in 1 .. Len(ops) : f[n] = JoinGroup(f[n - 1], n)

\* Pass 2 takes the operators one by one.
LEMMA GroupUnfolds ==
  ASSUME Counted
  PROVE  \E f : PassOf(f) /\ GroupComparisons = f[Len(ops)]
<1> DEFINE m == Len(ops)
           S == GroupList
           Def(f) == f = [i \in 0 .. m |-> IF i = 0 THEN << <<comps[1]>> >>
                                           ELSE JoinGroup(f[i - 1], i)]
<1>0. m \in Nat /\ comps \in Seq(Comparison) /\ 1 \in 1 .. Len(comps)
  <2>1. comps \in Seq(Comparison) /\ ops \in Seq({"AND", "OR"}) /\ Len(comps) = Len(ops) + 1
    BY DEF Counted
  <2>2. Len(ops) \in Nat
    BY <2>1, LenProperties
  <2> QED
    BY <2>1, <2>2
<1>1. PICK first \in S : first = << <<comps[1]>> >>
  <2>1. comps[1] \in Comparison
    BY <1>0, ElementOfSeq
  <2>2. <<comps[1]>> \in Seq(Comparison) /\ <<comps[1]>> # <<>>
    BY <2>1
  <2>3. PICK none \in Seq(Seq(Comparison)) : none = <<>>
    BY EmptySeq
  <2>4. \A i \in DOMAIN none : none[i] # <<>>
    BY <2>3
  <2>5. Append(none, <<comps[1]>>) \in GroupList
    BY <2>2, <2>4, GroupListGrows
  <2>6. Append(none, <<comps[1]>>) = << <<comps[1]>> >>
    BY <2>3
  <2> QED
    BY <2>5, <2>6
<1>2. PICK step : step = [p \in S \X Nat |-> IF p[2] < m THEN JoinGroup(p[1], p[2] + 1) ELSE p[1]]
  OBVIOUS
<1>3. step \in [S \X Nat -> S]
  <2>1. ASSUME NEW b \in S, NEW k \in Nat, k < m PROVE JoinGroup(b, k + 1) \in S
    <3>1. k + 1 \in 1 .. Len(ops)
      BY <1>0, <2>1
    <3> QED
      BY <3>1, JoinGroupType
  <2> HIDE DEF S
  <2> QED
    BY <1>2, <2>1
<1>4. PICK g \in [Nat -> S] : Recursive(g, first, step)
  <2> HIDE DEF S
  <2> QED
    BY <1>3, Recursion
<1>5. PICK f : f = [n \in 0 .. m |-> g[n]]
  OBVIOUS
<1>6. f[0] = << <<comps[1]>> >> /\ f \in [0 .. m -> S]
  <2> HIDE DEF S
  <2>1. 0 \in 0 .. m
    BY <1>0
  <2> QED
    BY <1>0, <1>1, <1>4, <1>5, <2>1 DEF Recursive
<1>7. ASSUME NEW n \in 1 .. m PROVE f[n] = JoinGroup(f[n - 1], n)
  <2>0. m \in Nat /\ n \in 1 .. m
    BY <1>0
  <2> HIDE DEF m
  <2>1. n - 1 \in Nat /\ n - 1 \in 0 .. m /\ n - 1 < m /\ (n - 1) + 1 = n /\ n \in 0 .. m
    BY <2>0
  <2>2. g[n] = step[<<g[n - 1], n - 1>>]
    BY <1>4, <2>1 DEF Recursive
  <2>3. g[n - 1] \in S
    BY <1>4, <2>1
  <2>4. step[<<g[n - 1], n - 1>>] = JoinGroup(g[n - 1], n)
    <3> HIDE DEF S
    <3> QED
      BY <1>2, <2>1, <2>3
  <2> QED
    BY <1>5, <2>1, <2>2, <2>4
<1>8. Def(f)
  <2>1. ASSUME NEW n \in 0 .. m, n # 0
        PROVE  f[n] = JoinGroup(f[n - 1], n)
    <3>1. n \in 1 .. m
      BY <1>0, <2>1
    <3> QED
      BY <1>7, <3>1
  <2>2. f = [n \in 0 .. m |-> f[n]]
    BY <1>6
  <2> QED
    BY <1>6, <2>1, <2>2
<1>9. PICK e : e = CHOOSE h : Def(h)
  OBVIOUS
<1>10. Def(e)
  <2> HIDE DEF Def
  <2> QED
    BY <1>8, <1>9
<1>11. GroupComparisons = e[m]
  BY <1>9 DEF GroupComparisons
<1>12. e[0] = << <<comps[1]>> >> /\ \A n \in 1 .. m : e[n] = JoinGroup(e[n - 1], n)
  <2>1. 0 \in 0 .. m
    BY <1>0
  <2>2. ASSUME NEW n \in 1 .. m PROVE e[n] = JoinGroup(e[n - 1], n)
    <3>1. n \in 0 .. m /\ n # 0
      BY <1>0
    <3> QED
      BY <1>10, <3>1
  <2> QED
    BY <1>10, <2>1, <2>2
<1>13. e \in [0 .. m -> S]
  <2> DEFINE Good == { n \in Nat : n <= m => e[n] \in S }
  <2>1. 0 \in Good
    BY <1>1, <1>12
  <2>2. ASSUME NEW n \in Good PROVE n + 1 \in Good
    <3> SUFFICES ASSUME n + 1 <= m PROVE e[n + 1] \in S
      OBVIOUS
    <3>1. n \in Nat /\ n + 1 \in 1 .. m /\ (n + 1) - 1 = n /\ e[n] \in S
      BY <1>0
    <3>2. JoinGroup(e[n], n + 1) \in S
      BY <3>1, JoinGroupType
    <3> QED
      BY <1>12, <3>1, <3>2
  <2>3. Good = Nat
    <3> HIDE DEF Good
    <3>1. Good \in SUBSET Nat
      BY DEF Good
    <3> QED
      BY <2>1, <2>2, <3>1, SetInduction
  <2>4. ASSUME NEW n \in 0 .. m PROVE e[n] \in S
    <3>1. n \in Nat /\ n <= m
      BY <1>0
    <3>2. n \in Good
      BY <2>3, <3>1
    <3> QED
      BY <3>1, <3>2
  <2>5. e = [n \in 0 .. m |-> e[n]]
    BY <1>10
  <2> QED
    BY <2>4, <2>5
<1> QED
  BY <1>11, <1>12, <1>13 DEF PassOf

\* A group lowered is a comparison or an AND of two or more, and its
\* conjuncts are the group.
AndFilter == [kind : {"and"}, kids : Seq(Comparison)]

LEMMA LowerGroupIs ==
  ASSUME NEW members \in Seq(Comparison), members # <<>>
  PROVE  /\ LowerGroup(members) \in Comparison \cup AndFilter
         /\ LowerGroup(members).kind \in {"cmp", "and"}
         /\ LowerGroup(members).kind = "and" =>
              LowerGroup(members).kids = members /\ Len(members) >= 2
         /\ Conjuncts(LowerGroup(members)) = members
<1>1. Len(members) \in Nat \ {0}
  BY EmptySeq
<1>2. CASE Len(members) = 1
  <2>1. members[1] \in Comparison /\ members = <<members[1]>>
    BY <1>2
  <2>2. LowerGroup(members) = members[1] /\ members[1].kind = "cmp"
    BY <1>2, <2>1 DEF LowerGroup, Comparison
  <2> QED
    BY <2>1, <2>2 DEF Conjuncts
<1>3. CASE Len(members) # 1
  <2>1. LowerGroup(members) = [kind |-> "and", kids |-> members]
    BY <1>3 DEF LowerGroup, And
  <2>2. PICK e : e = LowerGroup(members)
    OBVIOUS
  <2>3. e.kind = "and" /\ e.kids = members /\ e \in AndFilter
    BY <2>1, <2>2 DEF AndFilter
  <2>4. Len(members) >= 2
    <3>1. PICK k \in Nat \ {0} : k = Len(members)
      BY <1>1
    <3>2. k # 1
      BY <1>3, <3>1
    <3>3. k >= 2
      BY <3>2
    <3> QED
      BY <3>1, <3>3
  <2>5. Conjuncts(e) = members
    BY <2>3 DEF Conjuncts
  <2> QED
    BY <2>2, <2>3, <2>4, <2>5
<1> QED
  BY <1>2, <1>3

\* The groups lowered have the shape the executor relies on, and one disjunct
\* for each group.
WellShaped(e) ==
  /\ e.kind \in {"none", "cmp", "and", "or"}
  /\ e.kind \in {"and", "or"} => Len(e.kids) >= 2
  /\ e.kind = "and" => \A i \in DOMAIN e.kids : e.kids[i].kind = "cmp"
  /\ e.kind = "or" =>
       \A i \in DOMAIN e.kids :
         \/ e.kids[i].kind = "cmp"
         \/ e.kids[i].kind = "and" /\ Len(e.kids[i].kids) >= 2

LEMMA LowerGroupsIs ==
  ASSUME NEW g \in GroupList
  PROVE  /\ WellShaped(LowerGroups(g)) /\ LowerGroups(g).kind # "none"
         /\ Disjuncts(LowerGroups(g)) \in Seq(Comparison \cup AndFilter)
         /\ Disjuncts(LowerGroups(g)) = [i \in DOMAIN g |-> LowerGroup(g[i])]
         /\ DOMAIN Disjuncts(LowerGroups(g)) = DOMAIN g
         /\ Disjuncts(LowerGroups(g)) # <<>>
<1>1. g \in Seq(Seq(Comparison)) /\ g # <<>> /\ \A i \in DOMAIN g : g[i] # <<>>
  BY DEF GroupList
<1>2. PICK n \in Nat \ {0} : n = Len(g) /\ DOMAIN g = 1 .. n
  BY <1>1, EmptySeq, LenProperties
<1>3. PICK kids : kids = [i \in 1 .. n |-> LowerGroup(g[i])]
  OBVIOUS
<1>4. ASSUME NEW i \in 1 .. n
      PROVE  /\ kids[i] = LowerGroup(g[i]) /\ kids[i] \in Comparison \cup AndFilter
             /\ kids[i].kind \in {"cmp", "and"}
             /\ kids[i].kind = "and" => Len(kids[i].kids) >= 2 /\ kids[i].kids \in Seq(Comparison)
  <2>1. PICK members : members = g[i]
    OBVIOUS
  <2>2. members \in Seq(Comparison) /\ members # <<>>
    BY <1>1, <1>2, <2>1, ElementOfSeq
  <2>3. kids[i] = LowerGroup(members)
    BY <1>3, <2>1
  <2> QED
    BY <2>1, <2>2, <2>3, LowerGroupIs
<1>5. kids \in Seq(Comparison \cup AndFilter) /\ Len(kids) = n /\ DOMAIN kids = 1 .. n
  <2>1. kids \in [1 .. n -> Comparison \cup AndFilter]
    BY <1>3, <1>4
  <2>2. kids \in Seq(Comparison \cup AndFilter)
    <3> DEFINE S == Comparison \cup AndFilter
    <3> HIDE DEF S
    <3> QED
      BY <1>2, <2>1, FunctionIsSeq
  <2> QED
    BY <1>2, <1>3, <2>2, LenProperties
<1>6. CASE n = 1
  <2>1. PICK e : e = kids[1]
    OBVIOUS
  <2>2. LowerGroups(g) = e
    BY <1>2, <1>4, <1>6, <2>1 DEF LowerGroups
  <2>3. /\ e \in Comparison \cup AndFilter /\ e.kind \in {"cmp", "and"}
        /\ e.kind = "and" => Len(e.kids) >= 2 /\ e.kids \in Seq(Comparison)
    BY <1>4, <1>6, <2>1
  <2>4. e.kind = "and" => \A i \in DOMAIN e.kids : e.kids[i].kind = "cmp"
    <3> SUFFICES ASSUME e.kind = "and", NEW i \in DOMAIN e.kids PROVE e.kids[i].kind = "cmp"
      OBVIOUS
    <3>1. i \in 1 .. Len(e.kids)
      BY <2>3, LenProperties
    <3>2. e.kids[i] \in Comparison
      BY <2>3, <3>1, ElementOfSeq
    <3> QED
      BY <3>2 DEF Comparison
  <2>5. WellShaped(e)
    BY <2>3, <2>4 DEF WellShaped
  <2>6. Disjuncts(e) = <<e>>
    BY <2>3 DEF Disjuncts
  <2>7. kids = <<e>>
    BY <1>3, <1>6, <2>1
  <2>8. Disjuncts(e) = [i \in DOMAIN g |-> LowerGroup(g[i])]
    BY <1>2, <1>3, <2>6, <2>7
  <2>9. DOMAIN kids = DOMAIN g /\ kids # <<>> /\ e.kind # "none"
    BY <1>2, <1>5, <2>3, <2>7
  <2> QED
    BY <1>5, <2>2, <2>5, <2>6, <2>7, <2>8, <2>9
<1>7. CASE n # 1
  <2>1. LowerGroups(g) = [kind |-> "or", kids |-> kids]
    BY <1>2, <1>3, <1>7 DEF LowerGroups, Or
  <2>2. PICK e : e = LowerGroups(g)
    OBVIOUS
  <2>3. e.kind = "or" /\ e.kids = kids /\ Disjuncts(e) = kids
    BY <2>1, <2>2 DEF Disjuncts
  <2>4. WellShaped(e)
    BY <1>2, <1>4, <1>5, <1>7, <2>3 DEF WellShaped
  <2>5. kids # <<>>
    BY <1>2, <1>5
  <2> QED
    BY <1>2, <1>3, <1>5, <2>2, <2>3, <2>4, <2>5
<1> QED
  BY <1>6, <1>7

-----------------------------------------------------------------------------
(* The query that is being filled in.                                      *)

\* What a WHERE is made of: no disjunct is empty.
WhereOK(e) ==
  /\ WellShaped(e)
  /\ Disjuncts(e) \in Seq(Comparison \cup AndFilter)
  /\ e.kind # "none" <=> Disjuncts(e) # <<>>
  /\ \A i \in DOMAIN Disjuncts(e) : Conjuncts(Disjuncts(e)[i]) # <<>>

AstType(e) ==
  [proj : ProjectionKind, cols : Seq(Names \ {EmptyName}), sumCol : Names,
   groupBy : Names, agg : Aggregate, where : {e}]

\* The phases before the first comparison, and those up to GROUP BY.
BeforeWhere == {"select", "projection", "columns", "clauses"}
BeforeGroup == BeforeWhere \cup {"comparison", "conditions"}

\* The parser's inductive invariant: what its types rest on, and the shape
\* of the tree.
AstInv ==
  /\ ast \in AstType(ast.where) /\ WhereOK(ast.where)
  /\ phase \in BeforeGroup => ast.where = NoFilterExpr
  /\ phase \in BeforeGroup \cup {"group"} => ast.groupBy = EmptyName
  /\ phase = "columns" => ast.proj = "columns" /\ ast.cols # <<>>
  /\ ast.proj = "grouped" => ast.cols # <<>>
  /\ phase \in BeforeWhere => comps = <<>> /\ ops = <<>>
  /\ phase = "comparison" => Len(comps) = Len(ops)
  /\ phase = "conditions" => Len(comps) = Len(ops) + 1

ParserInv ==
  /\ toks \in Seq(Token)
  /\ at \in 1 .. (Len(toks) + 1)
  /\ blame \in 0 .. (Len(toks) + 1)
  /\ phase \in BeforeGroup \cup {"group", "end", "parsed", "rejected"}
  /\ comps \in Seq(Comparison)
  /\ ops \in Seq({"AND", "OR"})
  /\ AstInv

LEMMA EmptyWhereOK == WhereOK(NoFilterExpr)
<1>1. PICK e : e = NoFilterExpr
  OBVIOUS
<1>2. e.kind = "none"
  BY <1>1 DEF NoFilterExpr
<1>3. Disjuncts(e) = <<>>
  BY <1>2 DEF Disjuncts
<1>4. <<>> \in Seq(Comparison \cup AndFilter) /\ DOMAIN <<>> = {}
  BY EmptySeq
<1>5. WhereOK(e)
  BY <1>2, <1>3, <1>4 DEF WhereOK, WellShaped
<1> QED
  BY <1>1, <1>5

LEMMA LoweredWhereOK ==
  ASSUME NEW g \in GroupList
  PROVE  WhereOK(LowerGroups(g)) /\ LowerGroups(g).kind # "none"
<1>1. PICK e : e = LowerGroups(g)
  OBVIOUS
<1>2. /\ WellShaped(e) /\ e.kind # "none"
      /\ Disjuncts(e) \in Seq(Comparison \cup AndFilter)
      /\ Disjuncts(e) = [i \in DOMAIN g |-> LowerGroup(g[i])]
      /\ DOMAIN Disjuncts(e) = DOMAIN g
      /\ Disjuncts(e) # <<>>
  BY <1>1, LowerGroupsIs
<1>3. ASSUME NEW i \in DOMAIN Disjuncts(e) PROVE Conjuncts(Disjuncts(e)[i]) # <<>>
  <2>1. g \in Seq(Seq(Comparison)) /\ i \in DOMAIN g /\ g[i] # <<>>
    BY <1>2, <1>3 DEF GroupList
  <2>2. PICK members \in Seq(Comparison) : members = g[i]
    <3>1. DOMAIN g = 1 .. Len(g)
      BY <2>1, LenProperties
    <3> QED
      BY <2>1, <3>1, ElementOfSeq
  <2>3. Disjuncts(e)[i] = LowerGroup(members)
    BY <1>2, <2>1, <2>2
  <2>4. Conjuncts(LowerGroup(members)) = members
    BY <2>1, <2>2, LowerGroupIs
  <2> QED
    BY <2>1, <2>2, <2>3, <2>4
<1>4. WhereOK(e)
  BY <1>2, <1>3 DEF WhereOK
<1> QED
  BY <1>1, <1>2, <1>4

\* A query so formed is one the executor takes.
LEMMA AstOK ==
  ASSUME ast \in AstType(ast.where), WhereOK(ast.where)
  PROVE  QueryOK(ast)
<1>1. /\ ast.proj \in ProjectionKind /\ ast.agg \in Aggregate
      /\ ast.cols \in Seq(Names \ {EmptyName}) /\ ast.sumCol \in Names /\ ast.groupBy \in Names
  BY DEF AstType
<1>2. ast.cols \in Seq(Names)
  <2> DEFINE S == Names \ {EmptyName}
  <2>1. S \subseteq Names
    OBVIOUS
  <2>2. ast.cols \in Seq(S)
    BY <1>1
  <2> HIDE DEF S
  <2> QED
    BY <2>1, <2>2
<1>3. PICK e : e = ast.where
  OBVIOUS
<1>4. /\ Disjuncts(e) \in Seq(Comparison \cup AndFilter)
      /\ e.kind # "none" <=> Disjuncts(e) # <<>>
      /\ \A i \in DOMAIN Disjuncts(e) : Conjuncts(Disjuncts(e)[i]) # <<>>
  BY <1>3 DEF WhereOK
<1> QED
  BY <1>1, <1>2, <1>3, <1>4 DEF QueryOK, AndFilter, Filtered, Terms

LEMMA ParserInvInit == ParserInit => ParserInv
<1> SUFFICES ASSUME ParserInit PROVE ParserInv
  OBVIOUS
<1>1. toks \in Seq(Token) /\ Len(toks) \in Nat
  BY InputAssumption, LenProperties DEF ParserInit
<1>2. ast = EmptyQuery /\ comps = <<>> /\ ops = <<>> /\ at = 1 /\ blame = 0 /\ phase = "select"
  BY DEF ParserInit
<1>3. ast.where = NoFilterExpr /\ ast.groupBy = EmptyName /\ ast.proj = "columns"
  BY <1>2 DEF EmptyQuery
<1>4. <<>> \in Seq(Names \ {EmptyName}) /\ <<>> \in Seq(Comparison) /\ <<>> \in Seq({"AND", "OR"})
  BY EmptySeq
<1>5. EmptyName \in Names
  BY NameAssumption
<1>6. EmptyQuery \in AstType(NoFilterExpr)
  BY <1>4, <1>5 DEF AstType, EmptyQuery, ProjectionKind, Aggregate
<1>7. AstInv
  BY <1>2, <1>3, <1>6, EmptyWhereOK DEF AstInv, BeforeGroup, BeforeWhere
<1> QED
  BY <1>1, <1>2, <1>4, <1>7 DEF ParserInv, BeforeGroup, BeforeWhere

-----------------------------------------------------------------------------
(* Tokens and patterns.                                                    *)

\* What a token of some kind is, and that the end mark is none.
LEMMA TokenAt ==
  ASSUME toks \in Seq(Token), NEW i \in Nat \ {0}
  PROVE  /\ i \notin DOMAIN toks => Kind(i) = "EOF"
         /\ Kind(i) # "EOF" => i \in 1 .. Len(toks) /\ toks[i].kind = Kind(i)
         /\ i <= Len(toks) => Kind(i) # "EOF" /\ toks[i] = [kind |-> Kind(i), text |-> Text(i)]
         /\ Kind(i) \in Keyword \cup Punctuation => toks[i] = [kind |-> Kind(i), text |-> Kind(i)]
         /\ Kind(i) = "ident" => Text(i) \in Names \ {EmptyName}
         /\ Kind(i) = "op" => Text(i) \in FilterOp
         /\ Kind(i) \in ColumnType => Text(i) \in Bits \cup {OutOfRange}
<1>1. DOMAIN toks = 1 .. Len(toks) /\ Len(toks) \in Nat
  BY LenProperties
<1>2. CASE i \notin DOMAIN toks
  <2>1. Kind(i) = "EOF"
    BY <1>2 DEF Kind
  <2> QED
    BY <1>1, <1>2, <2>1 DEF Keyword, Punctuation, ColumnType
<1>3. CASE i \in DOMAIN toks
  <2>1. PICK t \in Token : t = toks[i]
    BY <1>1, <1>3, ElementOfSeq
  <2>2. Kind(i) = t.kind /\ Text(i) = t.text
    BY <1>3, <2>1 DEF Kind, Text
  <2>3. /\ t.kind # "EOF" /\ t = [kind |-> t.kind, text |-> t.text]
        /\ t.kind \in Keyword \cup Punctuation => t.text = t.kind
        /\ t.kind = "ident" => t.text \in Names \ {EmptyName}
        /\ t.kind = "op" => t.text \in FilterOp
        /\ t.kind \in ColumnType => t.text \in Bits \cup {OutOfRange}
    <3>1. CASE t \in [kind : {"ident"}, text : Names \ {EmptyName}]
      BY <3>1 DEF Keyword, Punctuation, ColumnType
    <3>2. CASE t \in { [kind |-> k, text |-> k] : k \in Keyword \cup Punctuation }
      <4>1. PICK k \in Keyword \cup Punctuation : t = [kind |-> k, text |-> k]
        BY <3>2
      <4> QED
        BY <4>1 DEF Keyword, Punctuation, ColumnType
    <3>3. CASE t \in [kind : {"op"}, text : FilterOp]
      BY <3>3 DEF Keyword, Punctuation, ColumnType
    <3>4. CASE t \in [kind : {"string"}, text : Bits]
      BY <3>4 DEF Keyword, Punctuation, ColumnType
    <3>5. CASE t \in [kind : {"int64", "float64"}, text : Bits \cup {OutOfRange}]
      BY <3>5 DEF Keyword, Punctuation, ColumnType
    <3> QED
      BY <3>1, <3>2, <3>3, <3>4, <3>5 DEF Token
  <2>4. i \in 1 .. Len(toks)
    BY <1>1, <1>3
  <2>5. t.kind \in Keyword \cup Punctuation => t = [kind |-> t.kind, text |-> t.kind]
    BY <2>3
  <2> QED
    BY <1>3, <2>1, <2>2, <2>3, <2>4, <2>5
<1> QED
  BY <1>2, <1>3

\* A pattern of n places, none of which takes the end mark.
PatternOf(pattern, n) ==
  DOMAIN pattern = 1 .. n /\ \A i \in 1 .. n : "EOF" \notin pattern[i]

\* The first token that does not fit is behind tokens that do, so it is one
\* of the input or the end mark.
LEMMA MisfitAt ==
  ASSUME at \in Nat, NEW pattern, NEW n \in Nat, PatternOf(pattern, n), ~Fits(pattern)
  PROVE  \E k \in 1 .. n : /\ Misfit(pattern) = at - 1 + k
                           /\ Kind(at + k - 1) \notin pattern[k]
                           /\ \A j \in 1 .. (k - 1) : Kind(at + j - 1) \in pattern[j]
<1> DEFINE Bad == { i \in 1 .. n : Kind(at + i - 1) \notin pattern[i] }
           First(i) == /\ Kind(at + i - 1) \notin pattern[i]
                       /\ \A j \in 1 .. (i - 1) : Kind(at + j - 1) \in pattern[j]
<1>0. DOMAIN pattern = 1 .. n
  BY DEF PatternOf
<1>1. Bad # {} /\ Bad \in SUBSET Nat
  BY <1>0 DEF Fits
<1>2. PICK i \in Bad : \A j \in Bad : i <= j
  <2> HIDE DEF Bad
  <2> QED
    BY <1>1, LeastNumber
<1>3. ASSUME NEW j \in 1 .. (i - 1) PROVE Kind(at + j - 1) \in pattern[j]
  <2>1. j \in 1 .. n /\ ~(i <= j)
    OBVIOUS
  <2> QED
    BY <1>2, <2>1
<1>4. i \in DOMAIN pattern /\ First(i)
  BY <1>0, <1>3
<1>5. PICK k : k = CHOOSE x \in DOMAIN pattern : First(x)
  OBVIOUS
<1>6. k \in DOMAIN pattern /\ First(k)
  <2> HIDE DEF First
  <2> QED
    BY <1>4, <1>5
<1>7. Misfit(pattern) = at - 1 + k
  BY <1>5 DEF Misfit
<1> QED
  BY <1>0, <1>6, <1>7

LEMMA MisfitIs ==
  ASSUME toks \in Seq(Token), at \in 1 .. (Len(toks) + 1),
         NEW pattern, NEW n \in Nat, PatternOf(pattern, n), ~Fits(pattern)
  PROVE  Misfit(pattern) \in at .. (Len(toks) + 1)
<1>1. Len(toks) \in Nat /\ at \in Nat \ {0}
  BY LenProperties
<1>2. PICK k \in 1 .. n : /\ Misfit(pattern) = at - 1 + k
                          /\ \A j \in 1 .. (k - 1) : Kind(at + j - 1) \in pattern[j]
  BY <1>1, MisfitAt
<1>3. \A i \in 1 .. n : "EOF" \notin pattern[i]
  BY DEF PatternOf
<1>4. at - 1 + k <= Len(toks) + 1
  <2>1. CASE k = 1
    BY <1>1, <2>1
  <2>2. CASE k # 1
    <3>1. k - 1 \in 1 .. (k - 1) /\ k - 1 \in 1 .. n /\ at + (k - 1) - 1 \in Nat \ {0}
      BY <1>1, <2>2
    <3>2. Kind(at + (k - 1) - 1) # "EOF"
      BY <1>2, <1>3, <3>1
    <3>3. at + (k - 1) - 1 \in 1 .. Len(toks)
      BY <3>1, <3>2, TokenAt
    <3> QED
      BY <1>1, <3>3
  <2> QED
    BY <2>1, <2>2
<1> QED
  BY <1>1, <1>2, <1>4

\* Tokens that fit are there to be taken.
LEMMA FitsIs ==
  ASSUME toks \in Seq(Token), at \in 1 .. (Len(toks) + 1),
         NEW pattern, NEW n \in Nat \ {0}, PatternOf(pattern, n), Fits(pattern)
  PROVE  /\ at + n \in 1 .. (Len(toks) + 1)
         /\ \A i \in 1 .. n : Kind(at + i - 1) \in pattern[i]
<1>1. Len(toks) \in Nat /\ at \in Nat \ {0}
  BY LenProperties
<1>2. \A i \in 1 .. n : Kind(at + i - 1) \in pattern[i] /\ "EOF" \notin pattern[i]
  BY DEF Fits, PatternOf
<1>3. n \in 1 .. n /\ at + n - 1 \in Nat \ {0}
  BY <1>1
<1>4. Kind(at + n - 1) # "EOF"
  BY <1>2, <1>3
<1>5. at + n - 1 \in 1 .. Len(toks)
  BY <1>3, <1>4, TokenAt
<1> QED
  BY <1>1, <1>2, <1>5

\* One token that is not the end mark may be taken.
LEMMA PeekIs ==
  ASSUME toks \in Seq(Token), at \in 1 .. (Len(toks) + 1), NEW n \in Nat,
         Kind(at + n) # "EOF"
  PROVE  at + n \in 1 .. Len(toks) /\ at + n + 1 \in 1 .. (Len(toks) + 1) /\ at + n \in Nat \ {0}
<1>1. Len(toks) \in Nat /\ at \in Nat \ {0}
  BY LenProperties
<1>2. at + n \in Nat \ {0}
  BY <1>1
<1>3. at + n \in 1 .. Len(toks)
  BY <1>2, TokenAt
<1> QED
  BY <1>1, <1>2, <1>3

-----------------------------------------------------------------------------
(* Every step of the parser preserves ParserInv.                           *)

Phases == BeforeGroup \cup {"group", "end", "parsed", "rejected"}

LEMMA RejectStep ==
  ASSUME ParserInv, NEW i \in 0 .. (Len(toks) + 1), Reject(i)
  PROVE  ParserInv'
<1>1. AstInv'
  BY DEF ParserInv, AstInv, Reject, BeforeGroup, BeforeWhere
<1> QED
  BY <1>1 DEF ParserInv, Reject

LEMMA MisfitStep ==
  ASSUME ParserInv, NEW pattern, NEW n \in Nat, PatternOf(pattern, n),
         ~Fits(pattern), Reject(Misfit(pattern))
  PROVE  ParserInv'
<1>1. toks \in Seq(Token) /\ at \in 1 .. (Len(toks) + 1) /\ Len(toks) \in Nat
  BY LenProperties DEF ParserInv
<1>2. Misfit(pattern) \in at .. (Len(toks) + 1)
  BY <1>1, MisfitIs
<1>3. Misfit(pattern) \in 0 .. (Len(toks) + 1)
  BY <1>1, <1>2
<1> QED
  BY <1>3, RejectStep

LEMMA TakeStep ==
  ASSUME ParserInv, NEW n, NEW then \in Phases, Take(n, then),
         at + n \in 1 .. (Len(toks) + 1),
         comps' \in Seq(Comparison), ops' \in Seq({"AND", "OR"}), AstInv'
  PROVE  ParserInv'
BY DEF ParserInv, Take, Phases

\* The patterns of the parser.
LEMMA Patterns ==
  /\ PatternOf(CountPattern, 4) /\ PatternOf(SumPattern, 4)
  /\ PatternOf(GroupByPattern, 3) /\ PatternOf(ComparisonPattern, 3)
<1>1. PatternOf(CountPattern, 4)
  BY DEF CountPattern, PatternOf
<1>2. PatternOf(SumPattern, 4)
  BY DEF SumPattern, PatternOf
<1>3. PatternOf(GroupByPattern, 3)
  BY DEF GroupByPattern, PatternOf
<1>4. PatternOf(ComparisonPattern, 3)
  BY DEF ComparisonPattern, ColumnType, PatternOf
<1> QED
  BY <1>1, <1>2, <1>3, <1>4

\* The rest of a column list that ends in an aggregate.
ListEnd(isSum) == << {","} >> \o (IF isSum THEN SumPattern ELSE CountPattern)

\* Short sequences, put together.
LEMMA AppendOne ==
  ASSUME NEW S, NEW u \in S, NEW v \in S
  PROVE  <<u>> \o <<v>> = <<u, v>> /\ <<u>> \in Seq(S) /\ <<u, v>> \in Seq(S)
<1>1. <<u>> \in Seq(S) /\ Len(<<u>>) = 1 /\ <<u>>[1] = u
  OBVIOUS
<1>2. PICK r : r = <<u, v>>
  OBVIOUS
<1>3. r \in Seq(S) /\ Len(r) = 2 /\ r[1] = u /\ r[2] = v
  BY <1>2
<1>4. PICK t : t = Append(<<u>>, v)
  OBVIOUS
<1>5. t \in Seq(S) /\ Len(t) = 2 /\ t[1] = u /\ t[2] = v
  BY <1>1, <1>4, AppendProperties
<1>6. \A k \in 1 .. Len(t) : t[k] = r[k]
  BY <1>3, <1>5
<1>7. t = r
  BY <1>3, <1>5, <1>6, SeqEqual
<1>8. <<u>> \o <<v>> = t
  BY <1>1, <1>4, AppendIsConcat
<1> QED
  BY <1>1, <1>2, <1>3, <1>7, <1>8

LEMMA AppendTwo ==
  ASSUME NEW S, NEW u \in S, NEW v \in S, NEW w \in S
  PROVE  <<u, v>> \o <<w>> = <<u, v, w>> /\ <<u, v, w>> \in Seq(S)
<1>1. PICK s : s = <<u, v>>
  OBVIOUS
<1>2. s \in Seq(S) /\ Len(s) = 2 /\ s[1] = u /\ s[2] = v
  BY <1>1
<1>3. PICK r : r = <<u, v, w>>
  OBVIOUS
<1>4. r \in Seq(S) /\ Len(r) = 3 /\ r[1] = u /\ r[2] = v /\ r[3] = w
  BY <1>3
<1>5. PICK t : t = Append(s, w)
  OBVIOUS
<1>6. t \in Seq(S) /\ Len(t) = 3 /\ t[1] = u /\ t[2] = v /\ t[3] = w
  <2>1. t \in Seq(S) /\ Len(t) = 2 + 1 /\ t[2 + 1] = w /\ \A i \in 1 .. 2 : t[i] = s[i]
    <3>1. s \in Seq(S)
      BY <1>2
    <3>2. PICK n \in Nat : n = Len(s)
      BY <3>1, LenProperties
    <3>3. t \in Seq(S) /\ Len(t) = n + 1 /\ t[n + 1] = w /\ \A i \in 1 .. n : t[i] = s[i]
      BY <1>5, <3>1, <3>2, AppendProperties
    <3>4. n = 2
      BY <1>2, <3>2
    <3> QED
      BY <3>3, <3>4
  <2>2. t[1] = s[1] /\ t[2] = s[2]
    BY <2>1
  <2> QED
    BY <1>2, <2>1, <2>2
<1>7. \A k \in 1 .. Len(t) : t[k] = r[k]
  BY <1>4, <1>6
<1>8. t = r
  BY <1>4, <1>6, <1>7, SeqEqual
<1>9. s \o <<w>> = t
  BY <1>2, <1>5, AppendIsConcat
<1> QED
  BY <1>1, <1>3, <1>4, <1>8, <1>9

LEMMA AppendThree ==
  ASSUME NEW S, NEW u \in S, NEW v \in S, NEW w \in S, NEW x \in S
  PROVE  <<u, v, w>> \o <<x>> = <<u, v, w, x>> /\ <<u, v, w, x>> \in Seq(S)
<1>1. PICK s : s = <<u, v, w>>
  OBVIOUS
<1>2. s \in Seq(S) /\ Len(s) = 3 /\ s[1] = u /\ s[2] = v /\ s[3] = w
  BY <1>1
<1>3. PICK r : r = <<u, v, w, x>>
  OBVIOUS
<1>4. r \in Seq(S) /\ Len(r) = 4 /\ r[1] = u /\ r[2] = v /\ r[3] = w /\ r[4] = x
  BY <1>3
<1>5. PICK t : t = Append(s, x)
  OBVIOUS
<1>6. t \in Seq(S) /\ Len(t) = 4 /\ t[1] = u /\ t[2] = v /\ t[3] = w /\ t[4] = x
  <2>1. t \in Seq(S) /\ Len(t) = 3 + 1 /\ t[3 + 1] = x /\ \A i \in 1 .. 3 : t[i] = s[i]
    <3>1. s \in Seq(S)
      BY <1>2
    <3>2. PICK n \in Nat : n = Len(s)
      BY <3>1, LenProperties
    <3>3. t \in Seq(S) /\ Len(t) = n + 1 /\ t[n + 1] = x /\ \A i \in 1 .. n : t[i] = s[i]
      BY <1>5, <3>1, <3>2, AppendProperties
    <3>4. n = 3
      BY <1>2, <3>2
    <3> QED
      BY <3>3, <3>4
  <2>2. t[1] = s[1] /\ t[2] = s[2] /\ t[3] = s[3]
    BY <2>1
  <2> QED
    BY <1>2, <2>1, <2>2
<1>7. \A k \in 1 .. Len(t) : t[k] = r[k]
  BY <1>4, <1>6
<1>8. t = r
  BY <1>4, <1>6, <1>7, SeqEqual
<1>9. s \o <<x>> = t
  BY <1>2, <1>5, AppendIsConcat
<1> QED
  BY <1>1, <1>3, <1>4, <1>8, <1>9

LEMMA OneAndTwo ==
  ASSUME NEW S, NEW u \in S, NEW v \in S, NEW w \in S
  PROVE  <<u>> \o <<v, w>> = <<u, v, w>>
<1>1. PICK a \in Seq(S) : a = <<u>>
  BY AppendOne
<1>2. PICK b \in Seq(S) : b = <<v>>
  BY AppendOne
<1>3. PICK e \in Seq(S) : e = <<w>>
  BY AppendOne
<1>4. a \o b = <<u, v>> /\ b \o e = <<v, w>> /\ <<u, v>> \o e = <<u, v, w>>
  BY <1>1, <1>2, <1>3, AppendOne, AppendTwo
<1>5. (a \o b) \o e = a \o (b \o e)
  BY ConcatAssociative
<1> QED
  BY <1>1, <1>4, <1>5

LEMMA OneAndFour ==
  ASSUME NEW S, NEW u \in S, NEW four \in Seq(S), Len(four) = 4
  PROVE  LET t == <<u>> \o four
         IN  /\ Len(t) = 5 /\ DOMAIN t = 1 .. 5 /\ t[1] = u
             /\ t[2] = four[1] /\ t[3] = four[2] /\ t[4] = four[3] /\ t[5] = four[4]
<1>1. PICK a \in Seq(S) : a = <<u>> /\ Len(a) = 1 /\ a[1] = u
  <2>1. <<u>> \in Seq(S)
    BY AppendOne
  <2> QED
    BY <2>1
<1>2. PICK t : t = a \o four
  OBVIOUS
<1>3. t \in Seq(S) /\ Len(t) = 5 /\ \A i \in 1 .. 5 : t[i] = IF i <= 1 THEN a[i] ELSE four[i - 1]
  <2>1. PICK m : m = Len(four)
    OBVIOUS
  <2>2. m = 4 /\ /\ t \in Seq(S) /\ Len(t) = 1 + m
        /\ \A i \in 1 .. (1 + m) : t[i] = IF i <= 1 THEN a[i] ELSE four[i - 1]
    BY <1>1, <1>2, <2>1, ConcatProperties
  <2>3. 1 + m = 5
    BY <2>2
  <2> QED
    BY <2>2, <2>3
<1>4. DOMAIN t = 1 .. 5
  BY <1>3, LenProperties
<1>5. 1 \in 1 .. 5 /\ 2 \in 1 .. 5 /\ 3 \in 1 .. 5 /\ 4 \in 1 .. 5 /\ 5 \in 1 .. 5
  OBVIOUS
<1>6. t[1] = a[1] /\ t[2] = four[1] /\ t[3] = four[2] /\ t[4] = four[3] /\ t[5] = four[4]
  BY <1>3, <1>5
<1> QED
  BY <1>1, <1>2, <1>3, <1>4, <1>6

\* What the pattern is, place by place.
ListEndAt(t, isSum) ==
  /\ DOMAIN t = 1 .. 5 /\ \A i \in 1 .. 5 : "EOF" \notin t[i]
  /\ t[1] = {","} /\ t[3] = {"("} /\ t[5] = {")"}
  /\ t[2] = IF isSum THEN {"SUM"} ELSE {"COUNT"}
  /\ t[4] = IF isSum THEN {"ident"} ELSE {"*"}

LEMMA ListEndIs ==
  ASSUME NEW isSum \in BOOLEAN
  PROVE  ListEndAt(ListEnd(isSum), isSum)
<1> DEFINE S == SUBSET {",", "SUM", "COUNT", "(", ")", "*", "ident"}
<1>1. PICK comma \in S : comma = {","}
  OBVIOUS
<1>2. PICK four : four = IF isSum THEN SumPattern ELSE CountPattern
  OBVIOUS
<1>3. /\ four \in Seq(S) /\ Len(four) = 4 /\ four[2] = {"("} /\ four[4] = {")"}
      /\ four[1] = IF isSum THEN {"SUM"} ELSE {"COUNT"}
      /\ four[3] = IF isSum THEN {"ident"} ELSE {"*"}
  <2>1. /\ {"SUM"} \in S /\ {"COUNT"} \in S /\ {"("} \in S
        /\ {"ident"} \in S /\ {"*"} \in S /\ {")"} \in S
    OBVIOUS
  <2> HIDE DEF S
  <2>2. CASE isSum
    <3>1. four = << {"SUM"}, {"("}, {"ident"}, {")"} >>
      BY <1>2, <2>2 DEF SumPattern
    <3>2. four \in Seq(S)
      BY <2>1, <3>1, AppendThree
    <3> QED
      BY <2>2, <3>1, <3>2
  <2>3. CASE ~isSum
    <3>1. four = << {"COUNT"}, {"("}, {"*"}, {")"} >>
      BY <1>2, <2>3 DEF CountPattern
    <3>2. four \in Seq(S)
      BY <2>1, <3>1, AppendThree
    <3> QED
      BY <2>3, <3>1, <3>2
  <2> QED
    BY <2>2, <2>3
<1>4. PICK t : t = ListEnd(isSum)
  OBVIOUS
<1>5. t = <<comma>> \o four
  BY <1>1, <1>2, <1>4 DEF ListEnd
<1>6. four \in Seq(S) /\ Len(four) = 4
  BY <1>3
<1>7. /\ DOMAIN t = 1 .. 5 /\ t[1] = comma
      /\ t[2] = four[1] /\ t[3] = four[2] /\ t[4] = four[3] /\ t[5] = four[4]
  <2> HIDE DEF S
  <2> QED
    BY <1>5, <1>6, OneAndFour
<1>8. /\ "EOF" \notin four[1] /\ "EOF" \notin four[2]
      /\ "EOF" \notin four[3] /\ "EOF" \notin four[4] /\ "EOF" \notin comma
  <2>1. /\ four[2] = {"("} /\ four[4] = {")"} /\ comma = {","}
        /\ four[1] = {"SUM"} \/ four[1] = {"COUNT"}
        /\ four[3] = {"ident"} \/ four[3] = {"*"}
    BY <1>1, <1>3
  <2> QED
    BY <2>1
<1>9. \A i \in 1 .. 5 : "EOF" \notin t[i]
  <2> HIDE DEF S
  <2>1. \A i \in 1 .. 5 : i = 1 \/ i = 2 \/ i = 3 \/ i = 4 \/ i = 5
    OBVIOUS
  <2>2. "EOF" \notin t[1] /\ "EOF" \notin t[2] /\ "EOF" \notin t[3] /\ "EOF" \notin t[4] /\ "EOF" \notin t[5]
    BY <1>7, <1>8
  <2> QED
    BY <2>1, <2>2
<1>10. ListEndAt(t, isSum)
  BY <1>1, <1>3, <1>7, <1>9 DEF ListEndAt
<1> QED
  BY <1>4, <1>10

\* The facts that most steps need.
LEMMA ParserFacts ==
  ASSUME ParserInv
  PROVE  /\ toks \in Seq(Token) /\ Len(toks) \in Nat /\ DOMAIN toks = 1 .. Len(toks)
         /\ at \in 1 .. (Len(toks) + 1) /\ at \in Nat \ {0} /\ at + 0 = at
         /\ at \in 0 .. (Len(toks) + 1) /\ 0 \in 0 .. (Len(toks) + 1)
         /\ comps \in Seq(Comparison) /\ ops \in Seq({"AND", "OR"})
         /\ Peek # "EOF" => at + 1 \in 1 .. (Len(toks) + 1) /\ at \in 1 .. Len(toks)
         /\ AstInv
<1>1. toks \in Seq(Token) /\ Len(toks) \in Nat /\ DOMAIN toks = 1 .. Len(toks)
  BY LenProperties DEF ParserInv
<1>2. at \in 1 .. (Len(toks) + 1)
  BY DEF ParserInv
<1>3. at \in Nat \ {0} /\ at + 0 = at /\ at \in 0 .. (Len(toks) + 1) /\ 0 \in 0 .. (Len(toks) + 1)
  BY <1>1, <1>2
<1>4. ASSUME Peek # "EOF" PROVE at + 1 \in 1 .. (Len(toks) + 1) /\ at \in 1 .. Len(toks)
  <2>1. at \in 1 .. Len(toks)
    BY <1>1, <1>3, <1>4, TokenAt DEF Peek
  <2> QED
    BY <1>1, <2>1
<1> QED
  BY <1>1, <1>2, <1>3, <1>4 DEF ParserInv

\* A step that leaves the query and the conditions as they are.
LEMMA SameAst ==
  ASSUME AstInv, UNCHANGED <<ast, comps, ops>>,
         \/ phase = "select" /\ phase' = "projection"
         \/ phase = "columns" /\ phase' = "clauses"
         \/ phase = "clauses" /\ phase' \in {"comparison", "group"}
         \/ phase = "group" /\ phase' = "end"
         \/ phase = "end" /\ phase' = "parsed"
  PROVE  AstInv'
<1>1. ASSUME comps = <<>>, ops = <<>> PROVE Len(comps) = Len(ops)
  BY <1>1
<1> QED
  BY <1>1 DEF AstInv, BeforeGroup, BeforeWhere

LEMMA InvSelect == ParserInv /\ ParseSelect => ParserInv'
<1> SUFFICES ASSUME ParserInv, ParseSelect PROVE ParserInv'
  OBVIOUS
<1>1. CASE Peek # "SELECT" /\ Reject(at)
  BY <1>1, ParserFacts, RejectStep
<1>2. CASE Peek = "SELECT" /\ Take(1, "projection") /\ UNCHANGED <<ast, comps, ops>>
  <2>1. at + 1 \in 1 .. (Len(toks) + 1) /\ AstInv
    BY <1>2, ParserFacts
  <2>2. AstInv'
    BY <1>2, <2>1, SameAst DEF ParseSelect, Take
  <2>3. comps' \in Seq(Comparison) /\ ops' \in Seq({"AND", "OR"}) /\ "projection" \in Phases
    BY <1>2, ParserFacts DEF Phases, BeforeGroup, BeforeWhere
  <2> QED
    BY <1>2, <2>1, <2>2, <2>3, TakeStep
<1> QED
  BY <1>1, <1>2 DEF ParseSelect

\* A step that fills in the projection and goes on with the clauses or with
\* the next column.
LEMMA AstFilled ==
  ASSUME AstInv, phase \in BeforeWhere, UNCHANGED <<comps, ops>>,
         phase' \in {"clauses", "columns"},
         ast' \in AstType(ast.where), ast'.where = ast.where, ast'.groupBy = ast.groupBy,
         phase' = "columns" \/ ast'.proj = "grouped" => ast'.cols # <<>>,
         phase' = "columns" => ast'.proj = "columns"
  PROVE  AstInv'
<1>1. ast' \in AstType(ast'.where) /\ WhereOK(ast'.where)
  <2>1. WhereOK(ast.where)
    BY DEF AstInv
  <2>2. PICK e : e = ast.where /\ WhereOK(e)
    BY <2>1
  <2>3. ast' \in AstType(e) /\ ast'.where = e
    BY <2>2
  <2> QED
    BY <2>2, <2>3
<1>2. /\ ast.where = NoFilterExpr /\ ast.groupBy = EmptyName
      /\ comps = <<>> /\ ops = <<>>
  BY DEF AstInv, BeforeGroup, BeforeWhere
<1>3. /\ phase' = "columns" => ast'.proj = "columns" /\ ast'.cols # <<>>
      /\ ast'.proj = "grouped" => ast'.cols # <<>>
  OBVIOUS
<1>4. /\ ast'.where = NoFilterExpr /\ ast'.groupBy = EmptyName
      /\ comps' = <<>> /\ ops' = <<>>
  BY <1>2
<1>5. phase' # "comparison" /\ phase' # "conditions"
  OBVIOUS
<1> QED
  BY <1>1, <1>3, <1>4, <1>5 DEF AstInv

\* Such a step, as a whole.
LEMMA FillStep ==
  ASSUME ParserInv, phase \in BeforeWhere, UNCHANGED <<comps, ops>>,
         NEW n, NEW then \in {"clauses", "columns"}, Take(n, then),
         at + n \in 1 .. (Len(toks) + 1),
         ast' \in AstType(ast.where), ast'.where = ast.where, ast'.groupBy = ast.groupBy,
         then = "columns" \/ ast'.proj = "grouped" => ast'.cols # <<>>,
         then = "columns" => ast'.proj = "columns"
  PROVE  ParserInv'
<1>1. phase' = then
  BY DEF Take
<1>2. AstInv'
  BY <1>1, ParserFacts, AstFilled
<1>3. comps' \in Seq(Comparison) /\ ops' \in Seq({"AND", "OR"}) /\ then \in Phases
  BY ParserFacts DEF Phases, BeforeGroup, BeforeWhere
<1> QED
  BY <1>2, <1>3, TakeStep

\* What the query filled in looks like.
LEMMA AstFields ==
  ASSUME ParserInv
  PROVE  /\ ast \in AstType(ast.where)
         /\ ast.cols \in Seq(Names \ {EmptyName}) /\ ast.sumCol \in Names /\ ast.groupBy \in Names
         /\ ast.proj \in ProjectionKind /\ ast.agg \in Aggregate
<1>1. ast \in AstType(ast.where)
  BY DEF ParserInv, AstInv
<1> QED
  BY <1>1 DEF AstType

LEMMA InvStar == ParserInv /\ ParseStar => ParserInv'
<1> SUFFICES ASSUME ParserInv, ParseStar PROVE ParserInv'
  OBVIOUS
<1>1. Peek = "*" /\ phase = "projection" /\ ast' = [ast EXCEPT !.proj = "star"]
      /\ Take(1, "clauses") /\ UNCHANGED <<comps, ops>>
  BY DEF ParseStar
<1>2. at + 1 \in 1 .. (Len(toks) + 1)
  BY <1>1, ParserFacts
<1>3. ast' \in AstType(ast.where) /\ ast'.where = ast.where /\ ast'.groupBy = ast.groupBy
      /\ ast'.proj = "star"
  BY <1>1, AstFields DEF AstType, ProjectionKind
<1> QED
  BY <1>1, <1>2, <1>3, FillStep DEF BeforeWhere

LEMMA InvCount == ParserInv /\ ParseCount => ParserInv'
<1> SUFFICES ASSUME ParserInv, ParseCount PROVE ParserInv'
  OBVIOUS
<1>1. CASE ~Fits(CountPattern) /\ Reject(Misfit(CountPattern))
  BY <1>1, Patterns, MisfitStep
<1>2. CASE Fits(CountPattern) /\ ast' = [ast EXCEPT !.proj = "count"]
           /\ Take(4, "clauses") /\ UNCHANGED <<comps, ops>>
  <2>1. at + 4 \in 1 .. (Len(toks) + 1)
    BY <1>2, ParserFacts, Patterns, FitsIs
  <2>2. ast' \in AstType(ast.where) /\ ast'.where = ast.where /\ ast'.groupBy = ast.groupBy
        /\ ast'.proj = "count"
    BY <1>2, AstFields DEF AstType, ProjectionKind
  <2> QED
    BY <1>2, <2>1, <2>2, FillStep DEF ParseCount, BeforeWhere
<1> QED
  BY <1>1, <1>2 DEF ParseCount

LEMMA InvSum == ParserInv /\ ParseSum => ParserInv'
<1> SUFFICES ASSUME ParserInv, ParseSum PROVE ParserInv'
  OBVIOUS
<1>1. CASE ~Fits(SumPattern) /\ Reject(Misfit(SumPattern))
  BY <1>1, Patterns, MisfitStep
<1>2. CASE Fits(SumPattern) /\ ast' = [ast EXCEPT !.proj = "sum", !.sumCol = Text(at + 2)]
           /\ Take(4, "clauses") /\ UNCHANGED <<comps, ops>>
  <2>1. at + 4 \in 1 .. (Len(toks) + 1) /\ \A i \in 1 .. 4 : Kind(at + i - 1) \in SumPattern[i]
    <3>1. PatternOf(SumPattern, 4) /\ 4 \in Nat \ {0}
      BY Patterns
    <3>2. toks \in Seq(Token) /\ at \in 1 .. (Len(toks) + 1) /\ Fits(SumPattern)
      BY <1>2, ParserFacts
    <3>3. at + 4 \in 1 .. (Len(toks) + 1)
      BY <3>1, <3>2, FitsIs
    <3>4. \A i \in 1 .. 4 : Kind(at + i - 1) \in SumPattern[i]
      BY <3>1, <3>2, FitsIs
    <3> QED
      BY <3>3, <3>4
  <2>2. Kind(at + 2) = "ident" /\ at + 2 \in Nat \ {0}
    <3>1. at \in Nat /\ 3 \in 1 .. 4 /\ at + 3 - 1 = at + 2 /\ at + 2 \in Nat \ {0}
      BY ParserFacts
    <3>2. SumPattern[3] = {"ident"}
      BY DEF SumPattern
    <3> QED
      BY <2>1, <3>1, <3>2
  <2>3. Text(at + 2) \in Names \ {EmptyName}
    BY <2>2, ParserFacts, TokenAt
  <2>4. ast' \in AstType(ast.where) /\ ast'.where = ast.where /\ ast'.groupBy = ast.groupBy
        /\ ast'.proj = "sum"
    BY <1>2, <2>3, AstFields DEF AstType, ProjectionKind
  <2> QED
    BY <1>2, <2>1, <2>4, FillStep DEF ParseSum, BeforeWhere
<1> QED
  BY <1>1, <1>2 DEF ParseSum

LEMMA InvFirstColumn == ParserInv /\ ParseFirstColumn => ParserInv'
<1> SUFFICES ASSUME ParserInv, ParseFirstColumn PROVE ParserInv'
  OBVIOUS
<1>1. Peek = "ident" /\ phase = "projection" /\ Take(1, "columns") /\ UNCHANGED <<comps, ops>>
      /\ ast' = [ast EXCEPT !.proj = "columns", !.cols = <<Text(at)>>]
  BY DEF ParseFirstColumn
<1>2. at + 1 \in 1 .. (Len(toks) + 1)
  BY <1>1, ParserFacts
<1>3. Text(at) \in Names \ {EmptyName}
  BY <1>1, ParserFacts, TokenAt DEF Peek
<1>4. <<Text(at)>> \in Seq(Names \ {EmptyName}) /\ <<Text(at)>> # <<>>
  BY <1>3, AppendOne
<1>5. ast' \in AstType(ast.where) /\ ast'.where = ast.where /\ ast'.groupBy = ast.groupBy
      /\ ast'.proj = "columns" /\ ast'.cols # <<>>
  BY <1>1, <1>4, AstFields DEF AstType, ProjectionKind
<1> QED
  BY <1>1, <1>2, <1>5, FillStep DEF BeforeWhere

LEMMA InvNoProjection == ParserInv /\ ParseNoProjection => ParserInv'
BY ParserFacts, RejectStep DEF ParseNoProjection

LEMMA InvNextColumn == ParserInv /\ ParseNextColumn => ParserInv'
<1> SUFFICES ASSUME ParserInv, ParseNextColumn PROVE ParserInv'
  OBVIOUS
<1>0. /\ Peek = "," /\ phase = "columns" /\ ast.cols # <<>>
      /\ at + 1 \in 0 .. (Len(toks) + 1) /\ at + 1 \in Nat \ {0}
      /\ toks \in Seq(Token) /\ at \in 1 .. (Len(toks) + 1)
  <2>1. Peek = "," /\ phase = "columns"
    BY DEF ParseNextColumn
  <2>2. at + 1 \in 1 .. (Len(toks) + 1) /\ Len(toks) \in Nat
    BY <2>1, ParserFacts
  <2>3. ast.cols # <<>>
    BY <2>1, ParserFacts DEF AstInv
  <2>4. at + 1 \in 0 .. (Len(toks) + 1) /\ at + 1 \in Nat \ {0}
    BY <2>2
  <2>5. toks \in Seq(Token) /\ at \in 1 .. (Len(toks) + 1)
    BY ParserFacts
  <2> QED
    BY <2>1, <2>3, <2>4, <2>5
<1>1. CASE Reject(at + 1)
  BY <1>0, <1>1, RejectStep
<1>2. CASE /\ Kind(at + 1) = "ident"
           /\ ast' = [ast EXCEPT !.cols = Append(@, Text(at + 1))]
           /\ Take(2, "columns") /\ UNCHANGED <<comps, ops>>
  <2>1. at + 1 + 1 \in 1 .. (Len(toks) + 1)
    BY <1>0, <1>2, PeekIs
  <2>2. at + 2 \in 1 .. (Len(toks) + 1)
    <3>1. at + 1 + 1 = at + 2
      BY ParserFacts
    <3> QED
      BY <2>1, <3>1
  <2>3. Text(at + 1) \in Names \ {EmptyName}
    BY <1>0, <1>2, TokenAt
  <2>4. PICK cols : cols = Append(ast.cols, Text(at + 1))
    OBVIOUS
  <2>5. cols \in Seq(Names \ {EmptyName}) /\ cols # <<>>
    BY <2>3, <2>4, AstFields, AppendProperties
  <2>6. ast' = [ast EXCEPT !.cols = cols] /\ ast.proj = "columns"
    BY <1>0, <1>2, <2>4, ParserFacts DEF AstInv
  <2>7. ast' \in AstType(ast.where) /\ ast'.where = ast.where /\ ast'.groupBy = ast.groupBy
        /\ ast'.proj = "columns" /\ ast'.cols # <<>>
    BY <2>5, <2>6, AstFields DEF AstType
  <2> QED
    BY <1>0, <1>2, <2>2, <2>7, FillStep DEF BeforeWhere
<1>3. CASE /\ Kind(at + 1) \in {"COUNT", "SUM"} /\ Len(ast.cols) = 1
           /\ LET isSum   == Kind(at + 1) = "SUM"
                  pattern == << {","} >> \o (IF isSum THEN SumPattern ELSE CountPattern)
              IN  \/ ~Fits(pattern) /\ Reject(Misfit(pattern))
                  \/ Fits(pattern) /\ Kind(at + 5) = "," /\ Reject(at + 5)
                  \/ /\ Fits(pattern) /\ Kind(at + 5) # ","
                     /\ ast' = [ast EXCEPT !.proj = "grouped",
                                           !.agg = IF isSum THEN "sum" ELSE "count",
                                           !.sumCol = IF isSum THEN Text(at + 3) ELSE @]
                     /\ Take(5, "clauses") /\ UNCHANGED <<comps, ops>>
  <2>1. PICK isSum \in BOOLEAN : isSum = (Kind(at + 1) = "SUM")
    OBVIOUS
  <2>2. PICK pattern : pattern = ListEnd(isSum)
    OBVIOUS
  <2>3. ListEndAt(pattern, isSum)
    BY <2>2, ListEndIs
  <2>4. PatternOf(pattern, 5)
    BY <2>3 DEF ListEndAt, PatternOf
  <2>5. \/ ~Fits(pattern) /\ Reject(Misfit(pattern))
        \/ Fits(pattern) /\ Kind(at + 5) = "," /\ Reject(at + 5)
        \/ /\ Fits(pattern) /\ Kind(at + 5) # ","
           /\ ast' = [ast EXCEPT !.proj = "grouped",
                                 !.agg = IF isSum THEN "sum" ELSE "count",
                                 !.sumCol = IF isSum THEN Text(at + 3) ELSE @]
           /\ Take(5, "clauses") /\ UNCHANGED <<comps, ops>>
    BY <1>3, <2>1, <2>2 DEF ListEnd
  <2>6. CASE ~Fits(pattern) /\ Reject(Misfit(pattern))
    BY <2>4, <2>6, MisfitStep
  <2>7. CASE Fits(pattern)
    <3>1. at + 5 \in 1 .. (Len(toks) + 1) /\ \A i \in 1 .. 5 : Kind(at + i - 1) \in pattern[i]
      <4>1. toks \in Seq(Token) /\ at \in 1 .. (Len(toks) + 1)
        BY ParserFacts
      <4>2. PatternOf(pattern, 5) /\ Fits(pattern)
        BY <2>4, <2>7
      <4>3. at + 5 \in 1 .. (Len(toks) + 1)
        BY <4>1, <4>2, FitsIs
      <4>4. \A i \in 1 .. 5 : Kind(at + i - 1) \in pattern[i]
        BY <4>1, <4>2, FitsIs
      <4> QED
        BY <4>3, <4>4
    <3>2. CASE Reject(at + 5)
      <4>1. at + 5 \in 0 .. (Len(toks) + 1)
        BY <3>1, ParserFacts
      <4> QED
        BY <3>2, <4>1, RejectStep
    <3>3. CASE /\ ast' = [ast EXCEPT !.proj = "grouped",
                                     !.agg = IF isSum THEN "sum" ELSE "count",
                                     !.sumCol = IF isSum THEN Text(at + 3) ELSE @]
               /\ Take(5, "clauses") /\ UNCHANGED <<comps, ops>>
      <4>1. PICK sumCol : sumCol = IF isSum THEN Text(at + 3) ELSE ast.sumCol
        OBVIOUS
      <4>2. PICK agg \in Aggregate : agg = IF isSum THEN "sum" ELSE "count"
        BY DEF Aggregate
      <4>3. sumCol \in Names
        <5>1. CASE isSum
          <6>1. at + 4 - 1 = at + 3 /\ at + 3 \in Nat \ {0} /\ 4 \in 1 .. 5
            BY ParserFacts
          <6>2. Kind(at + 3) = "ident"
            BY <2>3, <3>1, <5>1, <6>1 DEF ListEndAt
          <6> QED
            BY <1>0, <4>1, <5>1, <6>1, <6>2, TokenAt
        <5>2. CASE ~isSum
          BY <4>1, <5>2, AstFields
        <5> QED
          BY <5>1, <5>2
      <4>4. ast' = [ast EXCEPT !.proj = "grouped", !.agg = agg, !.sumCol = sumCol]
        BY <3>3, <4>1, <4>2
      <4>5. ast' \in AstType(ast.where) /\ ast'.where = ast.where /\ ast'.groupBy = ast.groupBy
            /\ ast'.cols # <<>>
        BY <1>0, <4>3, <4>4, AstFields DEF AstType, ProjectionKind
      <4> QED
        BY <1>0, <3>1, <3>3, <4>5, FillStep DEF BeforeWhere
    <3> QED
      BY <2>5, <2>7, <3>2, <3>3
  <2> QED
    BY <2>5, <2>6, <2>7
<1> QED
  BY <1>1, <1>2, <1>3 DEF ParseNextColumn

\* A step that leaves the query and the conditions as they are, as a whole.
LEMMA PassStep ==
  ASSUME ParserInv, NEW n, NEW then, Take(n, then), at + n \in 1 .. (Len(toks) + 1),
         UNCHANGED <<ast, comps, ops>>,
         \/ phase = "columns" /\ then = "clauses"
         \/ phase = "clauses" /\ then \in {"comparison", "group"}
         \/ phase = "group" /\ then = "end"
         \/ phase = "end" /\ then = "parsed"
  PROVE  ParserInv'
<1>1. phase' = then /\ then \in Phases
  BY DEF Take, Phases, BeforeGroup, BeforeWhere
<1>2. AstInv'
  BY <1>1, ParserFacts, SameAst
<1>3. comps' \in Seq(Comparison) /\ ops' \in Seq({"AND", "OR"})
  BY ParserFacts
<1> QED
  BY <1>1, <1>2, <1>3, TakeStep

LEMMA InvEndColumns == ParserInv /\ EndColumns => ParserInv'
BY ParserFacts, PassStep DEF EndColumns

LEMMA InvClauses == ParserInv /\ ParseClauses => ParserInv'
<1> SUFFICES ASSUME ParserInv, ParseClauses PROVE ParserInv'
  OBVIOUS
<1>1. CASE Reject(at)
  BY <1>1, ParserFacts, RejectStep
<1>2. CASE Peek = "WHERE" /\ Take(1, "comparison") /\ UNCHANGED <<ast, comps, ops>>
  BY <1>2, ParserFacts, PassStep DEF ParseClauses
<1>3. CASE Take(0, "group") /\ UNCHANGED <<ast, comps, ops>>
  BY <1>3, ParserFacts, PassStep DEF ParseClauses
<1> QED
  BY <1>1, <1>2, <1>3 DEF ParseClauses

\* The comparison that three tokens make.
ComparisonAt(i) ==
  [kind |-> "cmp", col |-> Text(i), op |-> Text(i + 1),
   lit |-> [type |-> Kind(i + 2), bits |-> Text(i + 2)]]

LEMMA ComparisonRead ==
  ASSUME toks \in Seq(Token), at \in 1 .. (Len(toks) + 1),
         Fits(ComparisonPattern), Text(at + 2) # OutOfRange
  PROVE  /\ at + 3 \in 1 .. (Len(toks) + 1)
         /\ Kind(at) = "ident" /\ Kind(at + 1) = "op" /\ Kind(at + 2) \in ColumnType
         /\ ComparisonAt(at) \in Comparison
<1>1. at + 3 \in 1 .. (Len(toks) + 1) /\ \A i \in 1 .. 3 : Kind(at + i - 1) \in ComparisonPattern[i]
  <2>1. PatternOf(ComparisonPattern, 3)
    BY Patterns
  <2>2. at + 3 \in 1 .. (Len(toks) + 1)
    BY <2>1, FitsIs
  <2>3. \A i \in 1 .. 3 : Kind(at + i - 1) \in ComparisonPattern[i]
    BY <2>1, FitsIs
  <2> QED
    BY <2>2, <2>3
<1>2. /\ at \in Nat \ {0} /\ at + 1 \in Nat \ {0} /\ at + 2 \in Nat \ {0}
      /\ at + 1 - 1 = at /\ at + 2 - 1 = at + 1 /\ at + 3 - 1 = at + 2
      /\ 1 \in 1 .. 3 /\ 2 \in 1 .. 3 /\ 3 \in 1 .. 3
  BY LenProperties
<1>3. ComparisonPattern[1] = {"ident"} /\ ComparisonPattern[2] = {"op"}
      /\ ComparisonPattern[3] = ColumnType
  BY DEF ComparisonPattern
<1>4. Kind(at) = "ident" /\ Kind(at + 1) = "op" /\ Kind(at + 2) \in ColumnType
  BY <1>1, <1>2, <1>3
<1>5. Text(at) \in Names /\ Text(at + 1) \in FilterOp /\ Text(at + 2) \in Bits
  BY <1>2, <1>4, TokenAt
<1>6. [type |-> Kind(at + 2), bits |-> Text(at + 2)] \in Literal
  BY <1>4, <1>5 DEF Literal
<1>7. ComparisonAt(at) \in Comparison
  BY <1>5, <1>6 DEF ComparisonAt, Comparison
<1> QED
  BY <1>1, <1>4, <1>7

LEMMA InvComparison == ParserInv /\ ParseComparison => ParserInv'
<1> SUFFICES ASSUME ParserInv, ParseComparison PROVE ParserInv'
  OBVIOUS
<1>0. /\ phase = "comparison" /\ toks \in Seq(Token) /\ at \in 1 .. (Len(toks) + 1)
      /\ comps \in Seq(Comparison) /\ ops \in Seq({"AND", "OR"})
  BY ParserFacts DEF ParseComparison
<1>1. CASE ~Fits(ComparisonPattern) /\ Reject(Misfit(ComparisonPattern))
  BY <1>1, Patterns, MisfitStep
<1>2. CASE Fits(ComparisonPattern) /\ Text(at + 2) = OutOfRange /\ Reject(at + 2)
  <2>1. PatternOf(ComparisonPattern, 3)
    BY Patterns
  <2>2. at + 3 \in 1 .. (Len(toks) + 1)
    BY <1>0, <1>2, <2>1, FitsIs
  <2>3. at + 2 \in 0 .. (Len(toks) + 1)
    BY <2>2, ParserFacts
  <2> QED
    BY <1>2, <2>3, RejectStep
<1>3. CASE /\ Fits(ComparisonPattern) /\ Text(at + 2) # OutOfRange
           /\ comps' = Append(comps, ComparisonAt(at))
           /\ Take(3, "conditions") /\ UNCHANGED <<ast, ops>>
  <2>1. at + 3 \in 1 .. (Len(toks) + 1) /\ ComparisonAt(at) \in Comparison
    BY <1>0, <1>3, ComparisonRead
  <2>2. PICK e \in Comparison : e = ComparisonAt(at)
    BY <2>1
  <2>3. comps' \in Seq(Comparison) /\ Len(comps') = Len(comps) + 1
    BY <1>0, <1>3, <2>2, AppendProperties
  <2>4. phase' = "conditions" /\ "conditions" \in Phases
    BY <1>3 DEF Take, Phases, BeforeGroup
  <2>5. AstInv'
    <3>1. AstInv /\ Len(comps) = Len(ops)
      BY <1>0, ParserFacts DEF AstInv
    <3> QED
      BY <1>0, <1>3, <2>3, <2>4, <3>1 DEF AstInv, BeforeGroup, BeforeWhere
  <2> QED
    BY <1>0, <1>3, <2>1, <2>3, <2>4, <2>5, TakeStep
<1> QED
  BY <1>1, <1>2, <1>3 DEF ParseComparison, ComparisonAt

LEMMA GroupsAre ==
  ASSUME Counted
  PROVE  GroupComparisons \in GroupList
<1>1. PICK f : PassOf(f) /\ GroupComparisons = f[Len(ops)]
  BY GroupUnfolds
<1>2. Len(ops) \in 0 .. Len(ops)
  <2>1. ops \in Seq({"AND", "OR"})
    BY DEF Counted
  <2> QED
    BY <2>1, LenProperties
<1> QED
  BY <1>1, <1>2 DEF PassOf

LEMMA InvConditions == ParserInv /\ ParseConditions => ParserInv'
<1> SUFFICES ASSUME ParserInv, ParseConditions PROVE ParserInv'
  OBVIOUS
<1>0. /\ phase = "conditions" /\ toks \in Seq(Token) /\ at \in 1 .. (Len(toks) + 1)
      /\ comps \in Seq(Comparison) /\ ops \in Seq({"AND", "OR"}) /\ AstInv
      /\ Len(comps) = Len(ops) + 1
  BY ParserFacts DEF ParseConditions, AstInv
<1>1. CASE Peek \in {"AND", "OR"} /\ ops' = Append(ops, Peek)
           /\ Take(1, "comparison") /\ UNCHANGED <<ast, comps>>
  <2>1. at + 1 \in 1 .. (Len(toks) + 1)
    BY <1>1, ParserFacts
  <2>2. ops' \in Seq({"AND", "OR"}) /\ Len(ops') = Len(ops) + 1
    BY <1>0, <1>1, AppendProperties
  <2>3. phase' = "comparison" /\ "comparison" \in Phases
    BY <1>1 DEF Take, Phases, BeforeGroup
  <2>4. AstInv'
    BY <1>0, <1>1, <2>2, <2>3 DEF AstInv, BeforeGroup, BeforeWhere
  <2> QED
    BY <1>0, <1>1, <2>1, <2>2, <2>3, <2>4, TakeStep
<1>2. CASE Reject(at)
  BY <1>2, ParserFacts, RejectStep
<1>3. CASE ast' = [ast EXCEPT !.where = LowerGroups(GroupComparisons)]
           /\ Take(0, "group") /\ UNCHANGED <<comps, ops>>
  <2>1. Counted
    BY <1>0 DEF Counted
  <2>2. PICK e : e = LowerGroups(GroupComparisons)
    OBVIOUS
  <2>3. WhereOK(e)
    BY <2>1, <2>2, GroupsAre, LoweredWhereOK
  <2>4. ast' = [ast EXCEPT !.where = e]
    BY <1>3, <2>2
  <2>5. /\ ast'.where = e /\ ast' \in AstType(e) /\ ast'.groupBy = ast.groupBy
        /\ ast'.proj = ast.proj /\ ast'.cols = ast.cols
    BY <2>4, AstFields DEF AstType
  <2>6. phase' = "group" /\ "group" \in Phases
    BY <1>3 DEF Take, Phases
  <2>7. ast.groupBy = EmptyName /\ (ast.proj = "grouped" => ast.cols # <<>>)
    BY <1>0 DEF AstInv, BeforeGroup
  <2>8. AstInv'
    <3>1. ast' \in AstType(ast'.where) /\ WhereOK(ast'.where)
      BY <2>3, <2>5
    <3>2. ast'.groupBy = EmptyName /\ (ast'.proj = "grouped" => ast'.cols # <<>>)
      BY <2>5, <2>7
    <3> QED
      BY <2>6, <3>1, <3>2 DEF AstInv, BeforeGroup, BeforeWhere
  <2>9. at + 0 \in 1 .. (Len(toks) + 1) /\ comps' \in Seq(Comparison) /\ ops' \in Seq({"AND", "OR"})
    BY <1>3, ParserFacts
  <2> QED
    BY <1>3, <2>6, <2>8, <2>9, TakeStep
<1> QED
  BY <1>1, <1>2, <1>3 DEF ParseConditions

LEMMA GroupByRead ==
  ASSUME toks \in Seq(Token), at \in 1 .. (Len(toks) + 1), Fits(GroupByPattern)
  PROVE  /\ at + 3 \in 1 .. (Len(toks) + 1)
         /\ Kind(at) = "GROUP" /\ Kind(at + 1) = "BY" /\ Kind(at + 2) = "ident"
         /\ Text(at + 2) \in Names \ {EmptyName}
<1>1. at + 3 \in 1 .. (Len(toks) + 1) /\ \A i \in 1 .. 3 : Kind(at + i - 1) \in GroupByPattern[i]
  <2>1. PatternOf(GroupByPattern, 3)
    BY Patterns
  <2>2. at + 3 \in 1 .. (Len(toks) + 1)
    BY <2>1, FitsIs
  <2>3. \A i \in 1 .. 3 : Kind(at + i - 1) \in GroupByPattern[i]
    BY <2>1, FitsIs
  <2> QED
    BY <2>2, <2>3
<1>2. /\ at \in Nat \ {0} /\ at + 2 \in Nat \ {0}
      /\ at + 1 - 1 = at /\ at + 2 - 1 = at + 1 /\ at + 3 - 1 = at + 2
      /\ 1 \in 1 .. 3 /\ 2 \in 1 .. 3 /\ 3 \in 1 .. 3
  BY LenProperties
<1>3. GroupByPattern[1] = {"GROUP"} /\ GroupByPattern[2] = {"BY"} /\ GroupByPattern[3] = {"ident"}
  BY DEF GroupByPattern
<1>4. Kind(at) = "GROUP" /\ Kind(at + 1) = "BY" /\ Kind(at + 2) = "ident"
  BY <1>1, <1>2, <1>3
<1> QED
  BY <1>1, <1>2, <1>4, TokenAt

LEMMA InvGroupBy == ParserInv /\ ParseGroupBy => ParserInv'
<1> SUFFICES ASSUME ParserInv, ParseGroupBy PROVE ParserInv'
  OBVIOUS
<1>0. phase = "group" /\ toks \in Seq(Token) /\ at \in 1 .. (Len(toks) + 1) /\ AstInv
  BY ParserFacts DEF ParseGroupBy
<1>1. CASE Take(0, "end") /\ UNCHANGED <<ast, comps, ops>>
  BY <1>0, <1>1, ParserFacts, PassStep
<1>2. CASE ~Fits(GroupByPattern) /\ Reject(Misfit(GroupByPattern))
  BY <1>2, Patterns, MisfitStep
<1>3. CASE Fits(GroupByPattern) /\ Reject(at + 3)
  <2>1. at + 3 \in 1 .. (Len(toks) + 1)
    BY <1>0, <1>3, GroupByRead
  <2>2. at + 3 \in 0 .. (Len(toks) + 1)
    BY <2>1, ParserFacts
  <2> QED
    BY <1>3, <2>2, RejectStep
<1>4. CASE Fits(GroupByPattern) /\ ast' = [ast EXCEPT !.groupBy = Text(at + 2)]
           /\ Take(3, "end") /\ UNCHANGED <<comps, ops>>
  <2>1. at + 3 \in 1 .. (Len(toks) + 1) /\ Text(at + 2) \in Names
    BY <1>0, <1>4, GroupByRead
  <2>2. /\ ast'.where = ast.where /\ ast' \in AstType(ast.where)
        /\ ast'.proj = ast.proj /\ ast'.cols = ast.cols
    BY <1>4, <2>1, AstFields DEF AstType
  <2>3. phase' = "end" /\ "end" \in Phases
    BY <1>4 DEF Take, Phases
  <2>4. AstInv'
    <3>1. PICK e : e = ast.where
      OBVIOUS
    <3>2. WhereOK(e) /\ (ast.proj = "grouped" => ast.cols # <<>>)
      BY <1>0, <3>1 DEF AstInv
    <3>3. ast'.where = e /\ ast' \in AstType(e) /\ (ast'.proj = "grouped" => ast'.cols # <<>>)
      BY <2>2, <3>1, <3>2
    <3>4. ast' \in AstType(ast'.where) /\ WhereOK(ast'.where)
      BY <3>2, <3>3
    <3> QED
      BY <2>3, <3>3, <3>4 DEF AstInv, BeforeGroup, BeforeWhere
  <2>5. comps' \in Seq(Comparison) /\ ops' \in Seq({"AND", "OR"})
    BY <1>4, ParserFacts
  <2> QED
    BY <1>4, <2>1, <2>3, <2>4, <2>5, TakeStep
<1> QED
  BY <1>1, <1>2, <1>3, <1>4 DEF ParseGroupBy

LEMMA InvEnd == ParserInv /\ ParseEnd => ParserInv'
<1> SUFFICES ASSUME ParserInv, ParseEnd PROVE ParserInv'
  OBVIOUS
<1>1. CASE Reject(at)
  BY <1>1, ParserFacts, RejectStep
<1>2. CASE Reject(0)
  BY <1>2, ParserFacts, RejectStep
<1>3. CASE Take(0, "parsed") /\ UNCHANGED <<ast, comps, ops>>
  BY <1>3, ParserFacts, PassStep DEF ParseEnd
<1> QED
  BY <1>1, <1>2, <1>3 DEF ParseEnd

LEMMA ParserInvStep == ParserInv /\ [ParserNext]_pvars => ParserInv'
<1>1. ParserInv /\ UNCHANGED pvars => ParserInv'
  BY DEF ParserInv, AstInv, pvars
<1> QED
  BY <1>1, InvSelect, InvStar, InvCount, InvSum, InvFirstColumn, InvNoProjection,
     InvNextColumn, InvEndColumns, InvClauses, InvComparison, InvConditions, InvGroupBy, InvEnd
     DEF ParserNext

LEMMA ParserInvariant == ParserSpec => []ParserInv
BY ParserInvInit, ParserInvStep, PTL DEF ParserSpec

\* Types: the parser stays on the tokens and the end mark, and the query it
\* fills in is one the executor takes at any time (ParserTypeOK).
LEMMA ParserTyped == ParserInv => ParserTypeOK
<1> SUFFICES ASSUME ParserInv PROVE ParserTypeOK
  OBVIOUS
<1>1. QueryOK(ast)
  BY ParserFacts, AstOK DEF AstInv
<1> QED
  BY <1>1 DEF ParserInv, ParserTypeOK, BeforeGroup, BeforeWhere

LEMMA ParserTypeCorrect == ParserSpec => []ParserTypeOK
BY ParserInvariant, ParserTyped, PTL

\* Whatever the tokens are, when parseWhere has read a list of conditions
\* there is one operator fewer than comparisons, so that the grouping finds
\* the comparison behind every operator, and no group it makes is empty
\* (parser.go:443-487).
THEOREM ConditionsGroup ==
  ParserSpec => [](phase = "conditions" => /\ Len(comps) = Len(ops) + 1
                                           /\ GroupComparisons \in GroupList)
<1>1. ASSUME ParserInv, phase = "conditions"
      PROVE  Len(comps) = Len(ops) + 1 /\ GroupComparisons \in GroupList
  <2>1. Counted
    BY <1>1 DEF ParserInv, AstInv, Counted
  <2> QED
    BY <2>1, GroupsAre DEF Counted
<1> QED
  BY <1>1, ParserInvariant, PTL

\* The tree a query is parsed into has the shape the executor relies on, for
\* any tokens: at most two levels, OR above AND, no group of one.
THEOREM TreeShaped == ParserSpec => []TreeShape
<1>1. ParserInv => TreeShape
  BY DEF ParserInv, AstInv, WhereOK, WellShaped, TreeShape
<1> QED
  BY <1>1, ParserInvariant, PTL

-----------------------------------------------------------------------------
(* The tokens that parts of a query are written with.                      *)

\* Tokens, and the name that is none.
Written == Token \cup [kind : {"ident"}, text : Names]

LEMMA CatIs ==
  ASSUME NEW a \in Seq(Written), NEW b \in Seq(Written), NEW e \in Seq(Written)
  PROVE  Cat(a, b) \in Seq(Written) /\ Cat(Cat(a, b), e) = Cat(a, Cat(b, e))
BY CatOn

LengthIs(s, n) == Len(s) = n

Mapped(h, s) == [i \in DOMAIN s |-> h[s[i]]]

LEMMA MappedType ==
  ASSUME NEW S, NEW R, NEW h \in [S -> R], NEW s \in Seq(S)
  PROVE  /\ Mapped(h, s) \in Seq(R) /\ LengthIs(Mapped(h, s), Len(s))
         /\ s # <<>> => Mapped(h, s) # <<>>
<1>1. PICK n \in Nat : n = Len(s) /\ DOMAIN s = 1 .. n
  BY LenProperties
<1>2. ASSUME NEW i \in 1 .. n PROVE h[s[i]] \in R
  <2>1. s[i] \in S
    BY <1>1, ElementOfSeq
  <2> QED
    BY <2>1
<1>3. PICK t : t = Mapped(h, s)
  OBVIOUS
<1>4. t \in [1 .. n -> R]
  BY <1>1, <1>2, <1>3 DEF Mapped
<1>5. t \in Seq(R)
  BY <1>1, <1>4, FunctionIsSeq
<1>6. Len(t) = n /\ DOMAIN t = 1 .. n
  BY <1>1, <1>4, <1>5, LenProperties
<1>7. s # <<>> => t # <<>>
  BY <1>1, <1>6, EmptySeq
<1> QED
  BY <1>1, <1>3, <1>5, <1>6, <1>7 DEF LengthIs

LEMMA MappedAppend ==
  ASSUME NEW S, NEW R, NEW h \in [S -> R], NEW s \in Seq(S), NEW x \in S
  PROVE  Mapped(h, Append(s, x)) = Append(Mapped(h, s), h[x])
<1>1. PICK n \in Nat : n = Len(s) /\ DOMAIN s = 1 .. n
  BY LenProperties
<1>2. PICK longer \in Seq(S) : longer = Append(s, x)
  BY AppendProperties
<1>3. Len(longer) = n + 1 /\ longer[n + 1] = x /\ \A i \in 1 .. n : longer[i] = s[i]
  BY <1>1, <1>2, AppendProperties
<1>4. PICK t \in Seq(R) : t = Mapped(h, longer) /\ Len(t) = n + 1
  <2>1. Mapped(h, longer) \in Seq(R)
    BY <1>2, MappedType
  <2>2. LengthIs(Mapped(h, longer), Len(longer))
    BY <1>2, MappedType
  <2> QED
    BY <1>3, <2>1, <2>2 DEF LengthIs
<1>5. PICK r \in Seq(R) : r = Mapped(h, s) /\ Len(r) = n
  BY <1>1, MappedType DEF LengthIs
<1>6. PICK y \in R : y = h[x]
  OBVIOUS
<1>7. PICK u \in Seq(R) : u = Append(r, y)
  BY AppendProperties
<1>8. Len(u) = n + 1 /\ u[n + 1] = y /\ \A i \in 1 .. n : u[i] = r[i]
  BY <1>5, <1>7, AppendProperties
<1>9. DOMAIN longer = 1 .. (n + 1)
  BY <1>3, LenProperties
<1>10. ASSUME NEW i \in 1 .. (n + 1) PROVE t[i] = u[i]
  <2>1. t[i] = h[longer[i]]
    BY <1>4, <1>9 DEF Mapped
  <2>2. CASE i = n + 1
    BY <1>3, <1>6, <1>8, <2>1, <2>2
  <2>3. CASE i # n + 1
    <3>1. i \in 1 .. n
      BY <1>1, <2>3
    <3>2. r[i] = h[s[i]]
      BY <1>1, <1>5, <3>1 DEF Mapped
    <3> QED
      BY <1>3, <1>8, <2>1, <3>1, <3>2
  <2> QED
    BY <2>2, <2>3
<1>11. t = u
  BY <1>4, <1>8, <1>10, SeqEqual
<1> QED
  BY <1>2, <1>4, <1>5, <1>6, <1>7, <1>11

LEMMA MappedOne ==
  ASSUME NEW S, NEW R, NEW h \in [S -> R], NEW x \in S
  PROVE  Mapped(h, <<x>>) = <<h[x]>>
<1>1. DOMAIN <<x>> = 1 .. 1 /\ <<x>>[1] = x
  OBVIOUS
<1>2. PICK t : t = Mapped(h, <<x>>)
  OBVIOUS
<1>3. t = [i \in 1 .. 1 |-> h[<<x>>[i]]]
  BY <1>1, <1>2 DEF Mapped
<1>4. t = <<h[x]>>
  BY <1>1, <1>3
<1> QED
  BY <1>2, <1>4

\* Tokens of all kinds.
LEMMA SymType ==
  ASSUME NEW k \in Keyword \cup Punctuation
  PROVE  Sym(k) \in Seq(Written)
<1>1. [kind |-> k, text |-> k] \in Written
  BY DEF Written, Token
<1> QED
  BY <1>1, AppendOne DEF Sym

LEMMA IdentType ==
  ASSUME NEW n \in Names
  PROVE  Ident(n) \in Seq(Written) /\ [kind |-> "ident", text |-> n] \in Written
<1>1. [kind |-> "ident", text |-> n] \in Written
  BY DEF Written
<1> QED
  BY <1>1, AppendOne DEF Ident

LEMMA ComparisonTokensAre ==
  ASSUME NEW e \in Comparison
  PROVE  /\ ComparisonTokens(e) \in Seq(Written)
         /\ ComparisonTokens(e) = << [kind |-> "ident", text |-> e.col], [kind |-> "op", text |-> e.op],
                                     [kind |-> e.lit.type, text |-> e.lit.bits] >>
<1>1. PICK u \in Written : u = [kind |-> "ident", text |-> e.col]
  <2>1. e.col \in Names
    BY DEF Comparison
  <2> QED
    BY <2>1, IdentType
<1>2. PICK v \in Written : v = [kind |-> "op", text |-> e.op]
  BY DEF Comparison, Written, Token
<1>3. PICK w \in Written : w = [kind |-> e.lit.type, text |-> e.lit.bits]
  <2>1. e.lit \in Literal
    BY DEF Comparison
  <2>2. e.lit.type \in ColumnType /\ e.lit.bits \in Bits
    BY <2>1 DEF Literal
  <2>3. [kind |-> e.lit.type, text |-> e.lit.bits]
          \in [kind : {"string"}, text : Bits] \cup [kind : {"int64", "float64"}, text : Bits \cup {OutOfRange}]
    BY <2>2 DEF ColumnType
  <2> QED
    BY <2>3 DEF Written, Token
<1>4. ComparisonTokens(e) = <<u>> \o <<v, w>>
  BY <1>1, <1>2, <1>3 DEF ComparisonTokens, Ident
<1>5. <<u>> \o <<v, w>> = <<u, v, w>> /\ <<u, v, w>> \in Seq(Written)
  BY OneAndTwo, AppendTwo
<1> QED
  BY <1>1, <1>2, <1>3, <1>4, <1>5

CompText  == [e \in Comparison |-> ComparisonTokens(e)]
TermText  == [m \in Seq(Comparison) |-> TermTokens(m)]
IdentText == [n \in Names |-> Ident(n)]

LEMMA TermTokensAre ==
  ASSUME NEW terms \in Seq(Comparison)
  PROVE  /\ TermTokens(terms) = Between(Sym("AND"), Mapped(CompText, terms))
         /\ TermTokens(terms) \in Seq(Written)
         /\ CompText \in [Comparison -> Seq(Written)]
         /\ Mapped(CompText, terms) \in Seq(Seq(Written))
<1>1. CompText \in [Comparison -> Seq(Written)]
  BY ComparisonTokensAre DEF CompText
<1>2. ASSUME NEW i \in DOMAIN terms PROVE ComparisonTokens(terms[i]) = CompText[terms[i]]
  <2>1. terms[i] \in Comparison
    <3>1. i \in 1 .. Len(terms)
      BY LenProperties
    <3> QED
      BY <3>1, ElementOfSeq
  <2> QED
    BY <2>1 DEF CompText
<1>3. [i \in DOMAIN terms |-> ComparisonTokens(terms[i])] = Mapped(CompText, terms)
  BY <1>2 DEF Mapped
<1>4. TermTokens(terms) = Between(Sym("AND"), Mapped(CompText, terms))
  BY <1>3 DEF TermTokens
<1>5. Mapped(CompText, terms) \in Seq(Seq(Written))
  BY <1>1, MappedType
<1>6. Sym("AND") \in Seq(Written)
  BY SymType DEF Keyword
<1> QED
  BY <1>1, <1>4, <1>5, <1>6, BetweenType

LEMMA ListedIs ==
  ASSUME NEW names \in Seq(Names)
  PROVE  /\ Listed(names) = Between(Sym(","), Mapped(IdentText, names))
         /\ Listed(names) \in Seq(Written)
         /\ IdentText \in [Names -> Seq(Written)]
         /\ Mapped(IdentText, names) \in Seq(Seq(Written))
<1>1. IdentText \in [Names -> Seq(Written)]
  BY IdentType DEF IdentText
<1>2. ASSUME NEW i \in DOMAIN names PROVE Ident(names[i]) = IdentText[names[i]]
  <2>1. names[i] \in Names
    <3>1. i \in 1 .. Len(names)
      BY LenProperties
    <3> QED
      BY <3>1, ElementOfSeq
  <2> QED
    BY <2>1 DEF IdentText
<1>3. [i \in DOMAIN names |-> Ident(names[i])] = Mapped(IdentText, names)
  BY <1>2 DEF Mapped
<1>4. Listed(names) = Between(Sym(","), Mapped(IdentText, names))
  BY <1>3 DEF Listed
<1>5. Mapped(IdentText, names) \in Seq(Seq(Written))
  BY <1>1, MappedType
<1>6. Sym(",") \in Seq(Written)
  BY SymType DEF Punctuation
<1> QED
  BY <1>1, <1>4, <1>5, <1>6, BetweenType

\* A list of one column, and a column more.
LEMMA ListedGrows ==
  ASSUME NEW names \in Seq(Names), NEW x \in Names
  PROVE  /\ Listed(<<x>>) = Ident(x)
         /\ names # <<>> => Listed(Append(names, x)) = (Listed(names) \o Sym(",")) \o Ident(x)
<1>1. IdentText \in [Names -> Seq(Written)] /\ IdentText[x] = Ident(x) /\ Ident(x) \in Seq(Written)
  BY IdentType, ListedIs DEF IdentText
<1>2. Sym(",") \in Seq(Written)
  BY SymType DEF Punctuation
<1>3. Listed(<<x>>) = Ident(x)
  <2>1. <<x>> \in Seq(Names)
    BY AppendOne
  <2>2. Listed(<<x>>) = Between(Sym(","), Mapped(IdentText, <<x>>))
    BY <2>1, ListedIs
  <2>3. Mapped(IdentText, <<x>>) = <<Ident(x)>>
    BY <1>1, MappedOne
  <2>4. Between(Sym(","), <<Ident(x)>>) = Ident(x)
    BY <1>1, <1>2, BetweenOne
  <2> QED
    BY <2>2, <2>3, <2>4
<1>4. ASSUME names # <<>> PROVE Listed(Append(names, x)) = (Listed(names) \o Sym(",")) \o Ident(x)
  <2>1. PICK parts \in Seq(Seq(Written)) : parts = Mapped(IdentText, names)
    <3>1. IdentText \in [Names -> Seq(Written)]
      BY <1>1
    <3>2. Mapped(IdentText, names) \in Seq(Seq(Written))
      BY <3>1, MappedType
    <3> QED
      BY <3>2
  <2>2. parts # <<>>
    BY <1>1, <1>4, <2>1, MappedType
  <2>3. Append(names, x) \in Seq(Names)
    BY AppendProperties
  <2>4. Listed(Append(names, x)) = Between(Sym(","), Mapped(IdentText, Append(names, x)))
    BY <2>3, ListedIs
  <2>5. Mapped(IdentText, Append(names, x)) = Append(parts, Ident(x))
    BY <1>1, <2>1, MappedAppend
  <2>6. Between(Sym(","), Append(parts, Ident(x))) = (Between(Sym(","), parts) \o Sym(",")) \o Ident(x)
    BY <1>1, <1>2, <2>2, BetweenMore
  <2>7. Listed(names) = Between(Sym(","), parts)
    BY <2>1, ListedIs
  <2> QED
    BY <2>4, <2>5, <2>6, <2>7
<1> QED
  BY <1>3, <1>4

\* A group of one comparison, and a comparison more.
LEMMA TermsGrow ==
  ASSUME NEW terms \in Seq(Comparison), NEW x \in Comparison
  PROVE  /\ TermTokens(<<x>>) = ComparisonTokens(x)
         /\ terms # <<>> =>
              TermTokens(Append(terms, x)) = (TermTokens(terms) \o Sym("AND")) \o ComparisonTokens(x)
<1>1. /\ CompText \in [Comparison -> Seq(Written)] /\ CompText[x] = ComparisonTokens(x)
      /\ ComparisonTokens(x) \in Seq(Written)
  BY ComparisonTokensAre, TermTokensAre, EmptySeq DEF CompText
<1>2. Sym("AND") \in Seq(Written)
  BY SymType DEF Keyword
<1>3. TermTokens(<<x>>) = ComparisonTokens(x)
  <2>1. <<x>> \in Seq(Comparison)
    BY AppendOne
  <2>2. TermTokens(<<x>>) = Between(Sym("AND"), Mapped(CompText, <<x>>))
    BY <2>1, TermTokensAre
  <2>3. Mapped(CompText, <<x>>) = <<ComparisonTokens(x)>>
    BY <1>1, MappedOne
  <2>4. Between(Sym("AND"), <<ComparisonTokens(x)>>) = ComparisonTokens(x)
    BY <1>1, <1>2, BetweenOne
  <2> QED
    BY <2>2, <2>3, <2>4
<1>4. ASSUME terms # <<>>
      PROVE  TermTokens(Append(terms, x)) = (TermTokens(terms) \o Sym("AND")) \o ComparisonTokens(x)
  <2>1. PICK parts \in Seq(Seq(Written)) : parts = Mapped(CompText, terms)
    <3>1. CompText \in [Comparison -> Seq(Written)]
      BY <1>1
    <3>2. Mapped(CompText, terms) \in Seq(Seq(Written))
      BY <3>1, MappedType
    <3> QED
      BY <3>2
  <2>2. parts # <<>>
    BY <1>1, <1>4, <2>1, MappedType
  <2>3. Append(terms, x) \in Seq(Comparison)
    BY AppendProperties
  <2>4. TermTokens(Append(terms, x)) = Between(Sym("AND"), Mapped(CompText, Append(terms, x)))
    BY <2>3, TermTokensAre
  <2>5. Mapped(CompText, Append(terms, x)) = Append(parts, ComparisonTokens(x))
    BY <1>1, <2>1, MappedAppend
  <2>6. Between(Sym("AND"), Append(parts, ComparisonTokens(x)))
          = (Between(Sym("AND"), parts) \o Sym("AND")) \o ComparisonTokens(x)
    BY <1>1, <1>2, <2>2, BetweenMore
  <2>7. TermTokens(terms) = Between(Sym("AND"), parts)
    BY <2>1, TermTokensAre
  <2> QED
    BY <2>4, <2>5, <2>6, <2>7
<1> QED
  BY <1>3, <1>4

\* Groups, as they are written.
GroupText(groups_) == Between(Sym("OR"), Mapped(TermText, groups_))

LEMMA GroupTextType ==
  ASSUME NEW g \in Seq(Seq(Comparison))
  PROVE  /\ TermText \in [Seq(Comparison) -> Seq(Written)]
         /\ Mapped(TermText, g) \in Seq(Seq(Written))
         /\ GroupText(g) \in Seq(Written) /\ Sym("OR") \in Seq(Written)
<1>1. TermText \in [Seq(Comparison) -> Seq(Written)]
  BY TermTokensAre DEF TermText
<1>2. Mapped(TermText, g) \in Seq(Seq(Written))
  BY <1>1, MappedType
<1>3. Sym("OR") \in Seq(Written)
  BY SymType DEF Keyword
<1> QED
  BY <1>1, <1>2, <1>3, BetweenType DEF GroupText

\* The condition of lowered groups is written like the groups.
LEMMA LoweredText ==
  ASSUME NEW g \in GroupList
  PROVE  ConditionTokens(LowerGroups(g)) = GroupText(g)
<1>1. PICK e : e = LowerGroups(g)
  OBVIOUS
<1>2. Disjuncts(e) = [i \in DOMAIN g |-> LowerGroup(g[i])] /\ DOMAIN Disjuncts(e) = DOMAIN g
  BY <1>1, LowerGroupsIs
<1>3. g \in Seq(Seq(Comparison)) /\ \A i \in DOMAIN g : g[i] # <<>>
  BY DEF GroupList
<1>4. ASSUME NEW i \in DOMAIN g PROVE TermTokens(Conjuncts(Disjuncts(e)[i])) = TermText[g[i]]
  <2>1. PICK m \in Seq(Comparison) : m = g[i] /\ m # <<>>
    <3>1. i \in 1 .. Len(g)
      BY <1>3, LenProperties
    <3> QED
      BY <1>3, <3>1, ElementOfSeq
  <2>2. Conjuncts(LowerGroup(m)) = m
    BY <2>1, LowerGroupIs
  <2>3. Disjuncts(e)[i] = LowerGroup(m)
    BY <1>2, <2>1
  <2>4. TermText[m] = TermTokens(m)
    BY DEF TermText
  <2> QED
    BY <2>1, <2>2, <2>3, <2>4
<1>5. [i \in DOMAIN Disjuncts(e) |-> TermTokens(Conjuncts(Disjuncts(e)[i]))] = Mapped(TermText, g)
  BY <1>2, <1>4 DEF Mapped
<1> QED
  BY <1>1, <1>5 DEF ConditionTokens, GroupText

\* A turn of pass 2 adds the operator and the comparison behind it to what
\* is written.
LEMMA JoinGroupText ==
  ASSUME Counted, NEW g \in GroupList, NEW i \in 1 .. Len(ops)
  PROVE  GroupText(JoinGroup(g, i)) = Cat(Cat(GroupText(g), Sym(ops[i])), ComparisonTokens(comps[i + 1]))
<1>1. i \in Nat /\ ops[i] \in {"AND", "OR"}
  <2>1. ops \in Seq({"AND", "OR"}) /\ Len(ops) \in Nat
    BY LenProperties DEF Counted
  <2> QED
    BY <2>1, ElementOfSeq
<1>2. PICK x \in Comparison : x = comps[i + 1]
  BY JoinGroupType
<1>3. PICK text \in Seq(Written) : text = ComparisonTokens(x)
  BY ComparisonTokensAre
<1>4. PICK front \in Seq(Seq(Comparison)), last \in Seq(Comparison) :
        g = Append(front, last) /\ last # <<>>
  BY GroupListEnds
<1>5. JoinGroup(g, i) = IF ops[i] = "AND" THEN Append(front, Append(last, x)) ELSE Append(g, <<x>>)
  BY <1>1, <1>2, <1>4, JoinGroupIs
<1>6. g \in Seq(Seq(Comparison)) /\ g # <<>>
  BY DEF GroupList
<1>7. /\ TermText \in [Seq(Comparison) -> Seq(Written)] /\ Sym("OR") \in Seq(Written)
      /\ Sym("AND") \in Seq(Written)
  BY <1>6, GroupTextType, SymType DEF Keyword
<1>8. CASE ops[i] = "AND"
  <2>1. PICK longer \in Seq(Comparison) : longer = Append(last, x)
    BY AppendProperties
  <2>2. PICK parts \in Seq(Seq(Written)) : parts = Mapped(TermText, front)
    BY GroupTextType
  <2>3. PICK part \in Seq(Written) : part = TermTokens(last)
    BY TermTokensAre
  <2>4. PICK rest \in Seq(Written) : rest = Cat(Sym("AND"), text)
    BY <1>3, <1>7, CatIs
  <2>5. TermText[last] = part
    BY <2>3 DEF TermText
  <2>6. TermText[longer] = Cat(part, rest)
    <3>1. TermTokens(longer) = Cat(Cat(part, Sym("AND")), text)
      BY <1>3, <1>4, <2>1, <2>3, TermsGrow DEF Cat
    <3>2. Cat(Cat(part, Sym("AND")), text) = Cat(part, rest)
      BY <1>3, <1>7, <2>3, <2>4, CatIs
    <3> QED
      BY <2>1, <3>1, <3>2 DEF TermText
  <2>7. Cat(part, rest) \in Seq(Written)
    BY <2>3, <2>4, CatIs
  <2>8. Mapped(TermText, g) = Append(parts, part)
    BY <1>4, <1>7, <2>2, <2>5, MappedAppend
  <2>9. Mapped(TermText, Append(front, longer)) = Append(parts, Cat(part, rest))
    BY <1>7, <2>1, <2>2, <2>6, MappedAppend
  <2>10. Between(Sym("OR"), Append(parts, Cat(part, rest))) = Cat(Between(Sym("OR"), Append(parts, part)), rest)
    BY <1>7, <2>2, <2>3, <2>4, BetweenOn
  <2>11. GroupText(JoinGroup(g, i)) = Cat(GroupText(g), rest)
    BY <1>5, <1>8, <2>1, <2>8, <2>9, <2>10 DEF GroupText
  <2>12. GroupText(g) \in Seq(Written)
    BY <1>6, GroupTextType
  <2>13. Cat(Cat(GroupText(g), Sym("AND")), text) = Cat(GroupText(g), rest)
    BY <1>3, <1>7, <2>4, <2>12, CatIs
  <2> QED
    BY <1>2, <1>3, <1>8, <2>11, <2>13
<1>9. CASE ops[i] # "AND"
  <2>1. ops[i] = "OR"
    BY <1>1, <1>9
  <2>2. PICK parts \in Seq(Seq(Written)) : parts = Mapped(TermText, g)
    <3>1. TermText \in [Seq(Comparison) -> Seq(Written)] /\ g \in Seq(Seq(Comparison))
      BY <1>6, <1>7
    <3>2. Mapped(TermText, g) \in Seq(Seq(Written))
      BY <3>1, MappedType
    <3> QED
      BY <3>2
  <2>3. parts # <<>>
    BY <1>6, <1>7, <2>2, MappedType
  <2>4. <<x>> \in Seq(Comparison) /\ TermTokens(<<x>>) = text
    BY <1>3, AppendOne, TermsGrow, EmptySeq
  <2>5. PICK one \in Seq(Comparison) : one = <<x>>
    BY <2>4
  <2>6. TermText[one] = text
    BY <2>4, <2>5 DEF TermText
  <2>7. Mapped(TermText, Append(g, one)) = Append(parts, text)
    <3>1. TermText \in [Seq(Comparison) -> Seq(Written)] /\ g \in Seq(Seq(Comparison))
      BY <1>6, <1>7
    <3>2. Mapped(TermText, Append(g, one)) = Append(Mapped(TermText, g), TermText[one])
      BY <2>5, <3>1, MappedAppend
    <3> QED
      BY <2>2, <2>6, <3>2
  <2>8. Between(Sym("OR"), Append(parts, text)) = Cat(Cat(Between(Sym("OR"), parts), Sym("OR")), text)
    BY <1>3, <1>7, <2>2, <2>3, BetweenMore DEF Cat
  <2>9. JoinGroup(g, i) = Append(g, one)
    BY <1>5, <1>9, <2>5
  <2>10. GroupText(JoinGroup(g, i)) = Cat(Cat(GroupText(g), Sym("OR")), text)
    BY <2>2, <2>7, <2>8, <2>9 DEF GroupText
  <2> QED
    BY <1>2, <1>3, <2>1, <2>10
<1> QED
  BY <1>8, <1>9

\* Neighbouring stretches of a sequence make one stretch.
LEMMA Adjacent ==
  ASSUME NEW T, NEW s \in Seq(T), NEW i \in Nat, NEW j \in Nat, NEW k \in Nat,
         1 <= i, i <= j + 1, j <= k, k <= Len(s)
  PROVE  /\ Cat(SubSeq(s, i, j), SubSeq(s, j + 1, k)) = SubSeq(s, i, k)
         /\ SubSeq(s, i, j) \in Seq(T)
<1>1. Len(s) \in Nat
  BY LenProperties
<1>2. i \in 1 .. Len(s) + 1 /\ j \in i - 1 .. Len(s) /\ k \in j .. Len(s)
  BY <1>1
<1>3. SubSeq(s, i, j) \o SubSeq(s, j + 1, k) = SubSeq(s, i, k)
  BY <1>2, ConcatAdjacentSubSeq
<1>4. SubSeq(s, i, j) \in Seq(T)
  <2>1. ASSUME NEW x \in i .. j PROVE s[x] \in T
    <3>1. x \in 1 .. Len(s)
      BY <1>1
    <3> QED
      BY <3>1, ElementOfSeq
  <2> QED
    BY <2>1, SubSeqProperties
<1> QED
  BY <1>3, <1>4 DEF Cat

\* The tokens from i to j.
Stretch(i, j) == SubSeq(toks, i, j)

LEMMA StretchOn ==
  ASSUME toks \in Seq(Written), NEW i \in Nat, NEW j \in Nat, NEW l \in Nat, NEW k \in Nat,
         l = j + 1, 1 <= i, i <= l, j <= k, k <= Len(toks)
  PROVE  /\ Cat(Stretch(i, j), Stretch(l, k)) = Stretch(i, k)
         /\ Stretch(i, j) \in Seq(Written)
BY Adjacent DEF Stretch

\* Four tokens for each condition but the last, from behind place w on.
ConditionsFrom(w) ==
  /\ \A i \in 1 .. Len(comps) :
       Stretch(w + 4 * i - 3, w + 4 * i - 1) = ComparisonTokens(comps[i])
  /\ \A i \in 1 .. Len(ops) : Stretch(w + 4 * i, w + 4 * i) = Sym(ops[i])

\* Such tokens are what the groups of pass 2 are written with.
LEMMA ConditionsText ==
  ASSUME Counted, NEW w \in Nat, toks \in Seq(Written), ConditionsFrom(w),
         w + 4 * Len(ops) + 3 <= Len(toks)
  PROVE  GroupText(GroupComparisons) = Stretch(w + 1, w + 4 * Len(ops) + 3)
<1>1. PICK f : PassOf(f) /\ GroupComparisons = f[Len(ops)]
  BY GroupUnfolds
<1>2. PICK m \in Nat : m = Len(ops) /\ Len(comps) = m + 1
  BY LenProperties DEF Counted
<1>3. PICK size \in Nat : size = Len(toks) /\ w + 4 * m + 3 <= size
  BY <1>2, LenProperties
<1>4. PICK first \in Comparison : first = comps[1]
  <2>1. comps \in Seq(Comparison) /\ 1 \in 1 .. Len(comps)
    BY <1>2 DEF Counted
  <2> QED
    BY <2>1, ElementOfSeq
<1>5. /\ \A i \in 1 .. (m + 1) : Stretch(w + 4 * i - 3, w + 4 * i - 1) = ComparisonTokens(comps[i])
      /\ \A i \in 1 .. m : Stretch(w + 4 * i, w + 4 * i) = Sym(ops[i])
  BY <1>2 DEF ConditionsFrom
<1> DEFINE Good == { n \in Nat : n <= m => GroupText(f[n]) = Stretch(w + 1, w + 4 * n + 3) }
<1>6. 0 \in Good
  <2>1. f[0] = << <<first>> >>
    BY <1>1, <1>4 DEF PassOf
  <2>2. PICK one \in Seq(Comparison) : one = <<first>>
    BY <1>4, AppendOne
  <2>3. PICK text \in Seq(Written) : text = ComparisonTokens(first)
    BY <1>4, ComparisonTokensAre
  <2>4. TermText[one] = text
    BY <1>4, <2>2, <2>3, TermsGrow, EmptySeq DEF TermText
  <2>5. TermText \in [Seq(Comparison) -> Seq(Written)] /\ Sym("OR") \in Seq(Written)
    BY GroupTextType, EmptySeq
  <2>6. Mapped(TermText, <<one>>) = <<text>>
    BY <2>2, <2>4, <2>5, MappedOne
  <2>7. Between(Sym("OR"), <<text>>) = text
    BY <2>3, <2>5, BetweenOne
  <2>8. GroupText(f[0]) = ComparisonTokens(comps[1])
    BY <1>4, <2>1, <2>2, <2>3, <2>6, <2>7 DEF GroupText
  <2>9. 1 \in 1 .. (m + 1) /\ w + 4 * 1 - 3 = w + 1 /\ w + 4 * 1 - 1 = w + 4 * 0 + 3
    BY <1>2
  <2>10. ComparisonTokens(comps[1]) = Stretch(w + 1, w + 4 * 0 + 3)
    BY <1>5, <2>9
  <2> QED
    BY <2>8, <2>10
<1>7. ASSUME NEW n \in Good PROVE n + 1 \in Good
  <2>0. n \in Nat /\ (n <= m => GroupText(f[n]) = Stretch(w + 1, w + 4 * n + 3))
    OBVIOUS
  <2> HIDE DEF Good
  <2> SUFFICES ASSUME n + 1 <= m
               PROVE  GroupText(f[n + 1]) = Stretch(w + 1, w + 4 * (n + 1) + 3)
    BY <2>0 DEF Good
  <2>1. /\ n \in Nat /\ n + 1 \in 1 .. m /\ n + 2 \in 1 .. (m + 1)
        /\ (n + 1) - 1 = n /\ (n + 1) + 1 = n + 2 /\ n \in 0 .. m
    BY <1>2, <2>0
  <2>2. GroupText(f[n]) = Stretch(w + 1, w + 4 * n + 3)
    BY <1>2, <2>0, <2>1
  <2>3. f[n] \in GroupList /\ f[n + 1] = JoinGroup(f[n], n + 1)
    BY <1>1, <1>2, <2>1 DEF PassOf
  <2>4. GroupText(JoinGroup(f[n], n + 1))
          = Cat(Cat(GroupText(f[n]), Sym(ops[n + 1])), ComparisonTokens(comps[n + 2]))
    <3>1. n + 1 \in 1 .. Len(ops)
      BY <1>2, <2>1
    <3>2. GroupText(JoinGroup(f[n], n + 1))
            = Cat(Cat(GroupText(f[n]), Sym(ops[n + 1])), ComparisonTokens(comps[(n + 1) + 1]))
      BY <2>3, <3>1, JoinGroupText
    <3> QED
      BY <2>1, <3>2
  <2>5. PICK j \in Nat : j = w + 4 * n + 3
    BY <2>1
  <2>6. w + 4 * (n + 1) = j + 1 /\ w + 4 * (n + 2) - 3 = j + 2 /\ w + 4 * (n + 2) - 1 = j + 4
        /\ w + 4 * (n + 1) + 3 = j + 4
    BY <2>1, <2>5
  <2>7. Sym(ops[n + 1]) = Stretch(j + 1, j + 1)
    BY <1>5, <2>1, <2>6
  <2>8. ComparisonTokens(comps[n + 2]) = Stretch(j + 2, j + 4)
    BY <1>5, <2>1, <2>6
  <2>10. Cat(Stretch(w + 1, j), Stretch(j + 1, j + 1)) = Stretch(w + 1, j + 1)
    <3>1. /\ j \in Nat /\ j + 1 \in Nat /\ w + 1 \in Nat /\ toks \in Seq(Written)
          /\ 1 <= w + 1 /\ w + 1 <= j + 1 /\ j <= j + 1 /\ j + 1 <= Len(toks)
      BY <1>2, <1>3, <2>1, <2>5
    <3> QED
      BY <3>1, StretchOn
  <2>11. Cat(Stretch(w + 1, j + 1), Stretch(j + 2, j + 4)) = Stretch(w + 1, j + 4)
    <3>1. /\ j + 1 \in Nat /\ j + 2 \in Nat /\ j + 4 \in Nat /\ w + 1 \in Nat
          /\ toks \in Seq(Written) /\ j + 2 = (j + 1) + 1
          /\ 1 <= w + 1 /\ w + 1 <= j + 2 /\ j + 1 <= j + 4 /\ j + 4 <= Len(toks)
      BY <1>2, <1>3, <2>1, <2>5
    <3> QED
      BY <3>1, StretchOn
  <2>12. GroupText(f[n]) = Stretch(w + 1, j)
    BY <2>2, <2>5
  <2>13. GroupText(f[n + 1]) = Stretch(w + 1, j + 4)
    BY <2>3, <2>4, <2>7, <2>8, <2>10, <2>11, <2>12
  <2> QED
    BY <2>6, <2>13
<1>8. Good = Nat
  <2> HIDE DEF Good
  <2>1. Good \in SUBSET Nat
    BY DEF Good
  <2> QED
    BY <1>6, <1>7, <2>1, SetInduction
<1>9. ASSUME NEW n \in Nat, n <= m
      PROVE  GroupText(f[n]) = Stretch(w + 1, w + 4 * n + 3)
  <2>1. n \in Good
    <3> HIDE DEF Good
    <3> QED
      BY <1>8
  <2> QED
    BY <1>9, <2>1
<1>10. GroupText(f[m]) = Stretch(w + 1, w + 4 * m + 3)
  <2>1. m \in Nat /\ m <= m
    BY <1>2
  <2> QED
    BY <1>9, <2>1
<1> QED
  BY <1>1, <1>2, <1>10

-----------------------------------------------------------------------------
(* What has been read of the input.                                        *)

ReadTokens == Stretch(1, at - 1)

AggregateText(x) == IF x.agg = "sum" THEN SumTokens(x) ELSE CountTokens

\* A query's SELECT, before it is known what it is grouped by, its WHERE and
\* its GROUP BY.
ProjectionOf(x) ==
  IF x.proj = "grouped" THEN Cat(Cat(Ident(x.cols[1]), Sym(",")), AggregateText(x))
  ELSE ProjectionTokens(x)
HeadOf(x)  == Cat(Sym("SELECT"), ProjectionOf(x))
WhereOf(x) == IF Filtered(x) THEN Cat(Sym("WHERE"), ConditionTokens(x.where)) ELSE <<>>
GroupByOf(x) ==
  IF x.groupBy = EmptyName THEN <<>> ELSE Cat(Cat(Sym("GROUP"), Sym("BY")), Ident(x.groupBy))

\* The WHERE is token w, and the conditions read so far are behind it.
ConditionsAt(w, past) ==
  /\ Stretch(1, w - 1) = HeadOf(ast) /\ Stretch(w, w) = Sym("WHERE")
  /\ ConditionsFrom(w)
  /\ at = w + 4 * Len(ops) + past

\* The parser has read what is in the query so far, and nothing else.
TextInv ==
  /\ phase = "select" => at = 1
  /\ phase = "projection" => ReadTokens = Sym("SELECT")
  /\ phase \in {"columns", "clauses"} => ReadTokens = HeadOf(ast)
  /\ phase = "comparison" => \E w \in 1 .. Len(toks) : ConditionsAt(w, 1)
  /\ phase = "conditions" => \E w \in 1 .. Len(toks) : ConditionsAt(w, 4)
  /\ phase = "group" => ReadTokens = Cat(HeadOf(ast), WhereOf(ast))
  /\ phase = "end" => ReadTokens = Cat(Cat(HeadOf(ast), WhereOf(ast)), GroupByOf(ast))
  /\ phase = "parsed" => Sentence(ast) = toks

LEMMA TokensWritten ==
  ASSUME toks \in Seq(Token)
  PROVE  toks \in Seq(Written)
<1>1. Token \subseteq Written
  BY DEF Written
<1> HIDE DEF Token, Written
<1> QED
  BY <1>1

\* One token of the input.
LEMMA TokenText ==
  ASSUME toks \in Seq(Token), NEW i \in Nat \ {0}, Kind(i) # "EOF"
  PROVE  /\ Stretch(i, i) = << [kind |-> Kind(i), text |-> Text(i)] >>
         /\ Stretch(i, i) \in Seq(Written)
         /\ Kind(i) \in Keyword \cup Punctuation => Stretch(i, i) = Sym(Kind(i))
         /\ Kind(i) = "ident" => Stretch(i, i) = Ident(Text(i)) /\ Text(i) \in Names
<1>1. PICK n \in Nat : n = Len(toks) /\ i \in 1 .. n
  BY TokenAt, LenProperties
<1>2. PICK t \in Token : t = toks[i]
  BY <1>1, ElementOfSeq
<1>3. t = [kind |-> Kind(i), text |-> Text(i)]
  <2>1. i <= Len(toks)
    BY <1>1
  <2>2. toks[i] = [kind |-> Kind(i), text |-> Text(i)]
    BY <2>1, TokenAt
  <2> QED
    BY <1>2, <2>2
<1>4. PICK s : s = Stretch(i, i)
  OBVIOUS
<1>5. s \in Seq(Token) /\ Len(s) = 1 /\ s[1] = t
  <2>1. \A k \in i .. i : toks[k] \in Token
    BY <1>2
  <2>2. /\ SubSeq(toks, i, i) \in Seq(Token)
        /\ Len(SubSeq(toks, i, i)) = IF i <= i THEN i - i + 1 ELSE 0
        /\ \A k \in 1 .. i - i + 1 : SubSeq(toks, i, i)[k] = toks[i + k - 1]
    BY <2>1, SubSeqProperties
  <2>3. i - i + 1 = 1 /\ i + 1 - 1 = i /\ i <= i
    OBVIOUS
  <2> QED
    BY <1>2, <1>4, <2>2, <2>3 DEF Stretch
<1>6. s = <<t>>
  <2>1. PICK r : r = <<t>>
    OBVIOUS
  <2>2. r \in Seq(Token) /\ Len(r) = 1 /\ r[1] = t
    BY <2>1
  <2>3. s = r
    BY <1>5, <2>2, SeqEqual
  <2> QED
    BY <2>1, <2>3
<1>7. s \in Seq(Written)
  <2>1. t \in Written
    BY DEF Written
  <2> QED
    BY <1>6, <2>1, AppendOne
<1>8. Kind(i) \in Keyword \cup Punctuation => t = [kind |-> Kind(i), text |-> Kind(i)]
  BY <1>2, TokenAt
<1> QED
  BY <1>3, <1>4, <1>6, <1>7, <1>8, TokenAt DEF Sym, Ident

\* Some tokens are read behind those read before.
LEMMA ReadType ==
  ASSUME toks \in Seq(Token), at \in 1 .. (Len(toks) + 1)
  PROVE  ReadTokens \in Seq(Written)
<1>1. PICK j \in Nat : j = at - 1
  BY LenProperties
<1>2. 1 \in Nat /\ 1 <= 1 /\ 1 <= j + 1 /\ j <= j /\ j <= Len(toks) /\ toks \in Seq(Written)
  BY <1>1, LenProperties, TokensWritten
<1>3. SubSeq(toks, 1, j) \in Seq(Written)
  BY <1>2, Adjacent
<1> QED
  BY <1>1, <1>3 DEF ReadTokens, Stretch

LEMMA ReadMore ==
  ASSUME toks \in Seq(Token), at \in 1 .. (Len(toks) + 1), NEW k \in Nat,
         at <= k, k <= Len(toks)
  PROVE  Stretch(1, k) = Cat(ReadTokens, Stretch(at, k))
<1>1. PICK j \in Nat : j = at - 1
  BY LenProperties
<1>2. /\ at \in Nat /\ at = j + 1 /\ 1 <= at /\ j <= k /\ k <= Len(toks)
      /\ 1 \in Nat /\ 1 <= 1 /\ toks \in Seq(Written)
  BY <1>1, LenProperties, TokensWritten
<1>3. Cat(Stretch(1, j), Stretch(at, k)) = Stretch(1, k)
  BY <1>2, StretchOn
<1> QED
  BY <1>1, <1>3 DEF ReadTokens

LEMMA TakenTokens ==
  ASSUME NEW n, NEW then, Take(n, then)
  PROVE  /\ ReadTokens' = Stretch(1, (at + n) - 1) /\ phase' = then /\ toks' = toks
         /\ at' = at + n
BY DEF Take, ReadTokens, Stretch

\* Two, three and four tokens.
LEMMA Tokens ==
  ASSUME toks \in Seq(Token), NEW i \in Nat \ {0}
  PROVE  /\ i + 1 <= Len(toks) => Stretch(i, i + 1) = Cat(Stretch(i, i), Stretch(i + 1, i + 1))
         /\ i + 2 <= Len(toks) => Stretch(i, i + 2) = Cat(Stretch(i, i + 1), Stretch(i + 2, i + 2))
         /\ i + 3 <= Len(toks) => Stretch(i, i + 3) = Cat(Stretch(i, i + 2), Stretch(i + 3, i + 3))
<1>0. toks \in Seq(Written) /\ Len(toks) \in Nat
  BY TokensWritten, LenProperties
<1>1. ASSUME NEW j \in Nat, NEW k \in Nat, k = j + 1, i <= k, k <= Len(toks)
      PROVE  Stretch(i, k) = Cat(Stretch(i, j), Stretch(k, k))
  <2>1. i \in Nat /\ 1 <= i /\ i <= k /\ j <= k /\ k <= Len(toks) /\ toks \in Seq(Written)
    BY <1>0, <1>1
  <2> QED
    BY <1>1, <2>1, StretchOn
<1>2. /\ i + 1 \in Nat /\ i + 2 \in Nat /\ i + 3 \in Nat /\ i + 2 = (i + 1) + 1 /\ i + 3 = (i + 2) + 1
      /\ i <= i + 1 /\ i <= i + 2 /\ i <= i + 3
  OBVIOUS
<1> QED
  BY <1>1, <1>2

-----------------------------------------------------------------------------
(* Every step of the parser preserves TextInv.                             *)

\* The parts of the SELECT that patterns stand for.
LEMMA PatternText ==
  ASSUME toks \in Seq(Token), NEW i \in Nat \ {0}, i + 3 <= Len(toks), NEW x,
         Kind(i + 1) = "(", Kind(i + 3) = ")"
  PROVE  /\ Kind(i) = "SUM" /\ Kind(i + 2) = "ident" /\ x.sumCol = Text(i + 2) =>
              Stretch(i, i + 3) = SumTokens(x)
         /\ Kind(i) = "COUNT" /\ Kind(i + 2) = "*" => Stretch(i, i + 3) = CountTokens
<1>1. /\ i + 1 \in Nat \ {0} /\ i + 2 \in Nat \ {0} /\ i + 3 \in Nat \ {0} /\ Len(toks) \in Nat
      /\ i + 1 <= Len(toks) /\ i + 2 <= Len(toks)
  BY LenProperties
<1>2. Stretch(i, i + 3)
        = Cat(Cat(Cat(Stretch(i, i), Stretch(i + 1, i + 1)), Stretch(i + 2, i + 2)), Stretch(i + 3, i + 3))
  BY <1>1, Tokens
<1>3. Stretch(i + 1, i + 1) = Sym("(") /\ Stretch(i + 3, i + 3) = Sym(")")
  BY <1>1, TokenText DEF Punctuation
<1>4. ASSUME Kind(i) = "SUM", Kind(i + 2) = "ident", x.sumCol = Text(i + 2)
      PROVE  Stretch(i, i + 3) = SumTokens(x)
  <2>1. Stretch(i, i) = Sym("SUM") /\ Stretch(i + 2, i + 2) = Ident(x.sumCol)
    BY <1>1, <1>4, TokenText DEF Keyword
  <2> QED
    BY <1>2, <1>3, <2>1 DEF SumTokens, Cat
<1>5. ASSUME Kind(i) = "COUNT", Kind(i + 2) = "*"
      PROVE  Stretch(i, i + 3) = CountTokens
  <2>1. Stretch(i, i) = Sym("COUNT") /\ Stretch(i + 2, i + 2) = Sym("*")
    BY <1>1, <1>5, TokenText DEF Keyword, Punctuation
  <2> QED
    BY <1>2, <1>3, <2>1 DEF CountTokens, Cat
<1> QED
  BY <1>4, <1>5

LEMMA TextReject ==
  ASSUME NEW i, Reject(i)
  PROVE  TextInv'
BY DEF Reject, TextInv

\* The projection has been read, as one part.
LEMMA ProjectionStep ==
  ASSUME ParserInv, TextInv, phase = "projection",
         NEW n \in Nat \ {0}, NEW then \in {"clauses", "columns"}, Take(n, then),
         at + n \in 1 .. (Len(toks) + 1),
         Stretch(at, at + (n - 1)) = ProjectionOf(ast')
  PROVE  TextInv'
<1>1. toks \in Seq(Token) /\ at \in 1 .. (Len(toks) + 1)
  BY ParserFacts
<1>2. Stretch(1, (at + n) - 1) = Cat(ReadTokens, Stretch(at, at + (n - 1)))
  <2>1. PICK k \in Nat : k = (at + n) - 1 /\ k = at + (n - 1)
    BY ParserFacts
  <2>2. at <= k /\ k <= Len(toks)
    BY <2>1, ParserFacts
  <2> QED
    BY <1>1, <2>1, <2>2, ReadMore
<1>3. ReadTokens = Sym("SELECT")
  BY DEF TextInv
<1>4. ReadTokens' = HeadOf(ast') /\ phase' = then
  BY <1>2, <1>3, TakenTokens DEF HeadOf
<1> QED
  BY <1>4 DEF TextInv

LEMMA TextInit == ParserInit => TextInv
BY DEF ParserInit, TextInv

LEMMA TextSelect == ParserInv /\ TextInv /\ ParseSelect => TextInv'
<1> SUFFICES ASSUME ParserInv, TextInv, ParseSelect PROVE TextInv'
  OBVIOUS
<1>1. CASE Reject(at)
  BY <1>1, TextReject
<1>2. CASE Peek = "SELECT" /\ Take(1, "projection") /\ UNCHANGED <<ast, comps, ops>>
  <2>1. at = 1 /\ toks \in Seq(Token)
    BY ParserFacts DEF ParseSelect, TextInv
  <2>2. Kind(at) = "SELECT" /\ at \in Nat \ {0}
    BY <1>2, <2>1 DEF Peek
  <2>3. Stretch(at, at) = Sym("SELECT")
    BY <2>1, <2>2, TokenText DEF Keyword
  <2>4. (at + 1) - 1 = at
    BY <2>1
  <2>5. ReadTokens' = Sym("SELECT") /\ phase' = "projection"
    BY <1>2, <2>1, <2>3, <2>4, TakenTokens
  <2> QED
    BY <2>5 DEF TextInv
<1> QED
  BY <1>1, <1>2 DEF ParseSelect

LEMMA TextStar == ParserInv /\ TextInv /\ ParseStar => TextInv'
<1> SUFFICES ASSUME ParserInv, TextInv, ParseStar PROVE TextInv'
  OBVIOUS
<1>1. Peek = "*" /\ phase = "projection" /\ ast' = [ast EXCEPT !.proj = "star"] /\ Take(1, "clauses")
  BY DEF ParseStar
<1>2. at + 1 \in 1 .. (Len(toks) + 1) /\ toks \in Seq(Token) /\ at \in Nat \ {0} /\ at + (1 - 1) = at
  BY <1>1, ParserFacts
<1>3. Stretch(at, at) = Sym("*")
  BY <1>1, <1>2, TokenText DEF Peek, Punctuation
<1>4. ast'.proj = "star"
  BY <1>1, AstFields DEF AstType
<1>5. Stretch(at, at + (1 - 1)) = ProjectionOf(ast')
  BY <1>2, <1>3, <1>4 DEF ProjectionOf, ProjectionTokens
<1> QED
  BY <1>1, <1>2, <1>5, ProjectionStep

LEMMA TextCount == ParserInv /\ TextInv /\ ParseCount => TextInv'
<1> SUFFICES ASSUME ParserInv, TextInv, ParseCount PROVE TextInv'
  OBVIOUS
<1>1. CASE Reject(Misfit(CountPattern))
  BY <1>1, TextReject
<1>2. CASE Fits(CountPattern) /\ ast' = [ast EXCEPT !.proj = "count"] /\ Take(4, "clauses")
  <2>1. toks \in Seq(Token) /\ at \in 1 .. (Len(toks) + 1) /\ PatternOf(CountPattern, 4)
    BY ParserFacts, Patterns
  <2>2. at + 4 \in 1 .. (Len(toks) + 1)
    BY <1>2, <2>1, FitsIs
  <2>3. \A i \in 1 .. 4 : Kind(at + i - 1) \in CountPattern[i]
    BY <1>2, <2>1, FitsIs
  <2>4. /\ at \in Nat \ {0} /\ at + 3 <= Len(toks) /\ at + (4 - 1) = at + 3
        /\ at + 1 - 1 = at /\ at + 2 - 1 = at + 1 /\ at + 3 - 1 = at + 2 /\ at + 4 - 1 = at + 3
        /\ 1 \in 1 .. 4 /\ 2 \in 1 .. 4 /\ 3 \in 1 .. 4 /\ 4 \in 1 .. 4
    BY <2>2, ParserFacts
  <2>5. /\ CountPattern[1] = {"COUNT"} /\ CountPattern[2] = {"("}
        /\ CountPattern[3] = {"*"} /\ CountPattern[4] = {")"}
    BY DEF CountPattern
  <2>6. Kind(at) = "COUNT" /\ Kind(at + 1) = "(" /\ Kind(at + 2) = "*" /\ Kind(at + 3) = ")"
    BY <2>3, <2>4, <2>5
  <2>7. Stretch(at, at + 3) = CountTokens
    BY <2>1, <2>4, <2>6, PatternText
  <2>8. ast'.proj = "count"
    BY <1>2, AstFields DEF AstType
  <2>9. Stretch(at, at + (4 - 1)) = ProjectionOf(ast')
    BY <2>4, <2>7, <2>8 DEF ProjectionOf, ProjectionTokens
  <2>10. phase = "projection"
    BY DEF ParseCount
  <2> QED
    BY <1>2, <2>2, <2>9, <2>10, ProjectionStep
<1> QED
  BY <1>1, <1>2 DEF ParseCount

LEMMA TextSum == ParserInv /\ TextInv /\ ParseSum => TextInv'
<1> SUFFICES ASSUME ParserInv, TextInv, ParseSum PROVE TextInv'
  OBVIOUS
<1>1. CASE Reject(Misfit(SumPattern))
  BY <1>1, TextReject
<1>2. CASE Fits(SumPattern) /\ ast' = [ast EXCEPT !.proj = "sum", !.sumCol = Text(at + 2)]
           /\ Take(4, "clauses")
  <2>1. toks \in Seq(Token) /\ at \in 1 .. (Len(toks) + 1) /\ PatternOf(SumPattern, 4)
        /\ Fits(SumPattern) /\ 4 \in Nat \ {0}
    BY <1>2, ParserFacts, Patterns
  <2>2. at + 4 \in 1 .. (Len(toks) + 1)
    BY <2>1, FitsIs
  <2>3. \A i \in 1 .. 4 : Kind(at + i - 1) \in SumPattern[i]
    BY <2>1, FitsIs
  <2>4. /\ at \in Nat \ {0} /\ at + 3 <= Len(toks) /\ at + (4 - 1) = at + 3
        /\ at + 1 - 1 = at /\ at + 2 - 1 = at + 1 /\ at + 3 - 1 = at + 2 /\ at + 4 - 1 = at + 3
        /\ 1 \in 1 .. 4 /\ 2 \in 1 .. 4 /\ 3 \in 1 .. 4 /\ 4 \in 1 .. 4
    BY <2>2, ParserFacts
  <2>5. /\ SumPattern[1] = {"SUM"} /\ SumPattern[2] = {"("}
        /\ SumPattern[3] = {"ident"} /\ SumPattern[4] = {")"}
    BY DEF SumPattern
  <2>6. Kind(at) = "SUM" /\ Kind(at + 1) = "(" /\ Kind(at + 2) = "ident" /\ Kind(at + 3) = ")"
    BY <2>3, <2>4, <2>5
  <2>7. PICK x : x = ast' /\ x.proj = "sum" /\ x.sumCol = Text(at + 2)
    <3>1. ast'.proj = "sum" /\ ast'.sumCol = Text(at + 2)
      BY <1>2, AstFields DEF AstType
    <3> QED
      BY <3>1
  <2>8. Stretch(at, at + 3) = SumTokens(x)
    BY <2>1, <2>4, <2>6, <2>7, PatternText
  <2>9. Stretch(at, at + (4 - 1)) = ProjectionOf(ast')
    BY <2>4, <2>7, <2>8 DEF ProjectionOf, ProjectionTokens
  <2>10. phase = "projection"
    BY DEF ParseSum
  <2> QED
    BY <1>2, <2>2, <2>9, <2>10, ProjectionStep
<1> QED
  BY <1>1, <1>2 DEF ParseSum

LEMMA TextFirstColumn == ParserInv /\ TextInv /\ ParseFirstColumn => TextInv'
<1> SUFFICES ASSUME ParserInv, TextInv, ParseFirstColumn PROVE TextInv'
  OBVIOUS
<1>1. Peek = "ident" /\ phase = "projection" /\ Take(1, "columns")
      /\ ast' = [ast EXCEPT !.proj = "columns", !.cols = <<Text(at)>>]
  BY DEF ParseFirstColumn
<1>2. at + 1 \in 1 .. (Len(toks) + 1) /\ toks \in Seq(Token) /\ at \in Nat \ {0} /\ at + (1 - 1) = at
  BY <1>1, ParserFacts
<1>3. Stretch(at, at) = Ident(Text(at)) /\ Text(at) \in Names
  BY <1>1, <1>2, TokenText DEF Peek
<1>4. ast'.proj = "columns" /\ ast'.cols = <<Text(at)>>
  BY <1>1, AstFields DEF AstType
<1>5. Listed(<<Text(at)>>) = Ident(Text(at))
  BY <1>3, ListedGrows, EmptySeq
<1>6. Stretch(at, at + (1 - 1)) = ProjectionOf(ast')
  BY <1>2, <1>3, <1>4, <1>5 DEF ProjectionOf, ProjectionTokens
<1> QED
  BY <1>1, <1>2, <1>6, ProjectionStep

LEMMA TextNoProjection == ParserInv /\ TextInv /\ ParseNoProjection => TextInv'
BY TextReject DEF ParseNoProjection

\* What a list of columns read so far is written with.
LEMMA ColumnsRead ==
  ASSUME ParserInv, TextInv, phase = "columns"
  PROVE  /\ ReadTokens = Cat(Sym("SELECT"), Listed(ast.cols))
         /\ ast.proj = "columns" /\ ast.cols # <<>> /\ ast.cols \in Seq(Names)
         /\ Listed(ast.cols) \in Seq(Written)
         /\ Sym("SELECT") \in Seq(Written) /\ Sym(",") \in Seq(Written)
<1>1. ast.proj = "columns" /\ ast.cols # <<>>
  BY DEF ParserInv, AstInv
<1>2. ReadTokens = HeadOf(ast)
  BY DEF TextInv
<1>3. HeadOf(ast) = Cat(Sym("SELECT"), Listed(ast.cols))
  BY <1>1 DEF HeadOf, ProjectionOf, ProjectionTokens
<1>4. ast.cols \in Seq(Names)
  <2>1. PICK S : S = Names \ {EmptyName}
    OBVIOUS
  <2>2. ast.cols \in Seq(S) /\ S \subseteq Names
    BY <2>1, AstFields
  <2> QED
    BY <2>2
<1> QED
  BY <1>1, <1>2, <1>3, <1>4, ListedIs, SymType DEF Keyword, Punctuation

LEMMA TextNextColumn == ParserInv /\ TextInv /\ ParseNextColumn => TextInv'
<1> SUFFICES ASSUME ParserInv, TextInv, ParseNextColumn PROVE TextInv'
  OBVIOUS
<1>0. /\ Kind(at) = "," /\ phase = "columns"
      /\ toks \in Seq(Token) /\ at \in 1 .. (Len(toks) + 1) /\ at \in Nat \ {0}
      /\ at + 1 \in Nat \ {0} /\ Len(toks) \in Nat
  <2>1. Kind(at) = "," /\ phase = "columns"
    BY DEF ParseNextColumn, Peek
  <2>2. /\ toks \in Seq(Token) /\ at \in 1 .. (Len(toks) + 1) /\ at \in Nat \ {0}
        /\ Len(toks) \in Nat
    BY ParserFacts
  <2>3. at + 1 \in Nat \ {0}
    BY <2>2
  <2> QED
    BY <2>1, <2>2, <2>3
<1>1. Stretch(at, at) = Sym(",")
  BY <1>0, TokenText DEF Punctuation
<1>2. CASE Reject(at + 1)
  BY <1>2, TextReject
<1>3. CASE /\ Kind(at + 1) = "ident"
           /\ ast' = [ast EXCEPT !.cols = Append(@, Text(at + 1))]
           /\ Take(2, "columns")
  <2>1. at + 1 \in 1 .. Len(toks)
    BY <1>0, <1>3, PeekIs
  <2>2. at + 1 <= Len(toks) /\ at + 1 \in Nat /\ at <= at + 1 /\ (at + 2) - 1 = at + 1
    <3>1. at \in Nat /\ Len(toks) \in Nat
      BY <1>0
    <3> QED
      BY <2>1, <3>1
  <2>3. PICK name \in Names : name = Text(at + 1) /\ Stretch(at + 1, at + 1) = Ident(name)
    BY <1>0, <1>3, TokenText
  <2>4. PICK read \in Seq(Written) : read = ReadTokens
    BY <1>0, ReadType
  <2>5. Stretch(1, (at + 2) - 1) = Cat(read, Stretch(at, at + 1))
    <3>1. Stretch(1, at + 1) = Cat(ReadTokens, Stretch(at, at + 1))
      BY <1>0, <2>2, ReadMore
    <3> QED
      BY <2>2, <2>4, <3>1
  <2>6. Stretch(at, at + 1) = Cat(Sym(","), Ident(name))
    BY <1>0, <1>1, <2>2, <2>3, Tokens
  <2>7. PICK cols \in Seq(Names) : cols = ast.cols /\ cols # <<>> /\ read = Cat(Sym("SELECT"), Listed(cols))
    BY <1>0, <2>4, ColumnsRead
  <2>8. PICK list \in Seq(Written) : list = Listed(cols)
    BY <2>7, ListedIs
  <2>9. Listed(Append(cols, name)) = Cat(Cat(list, Sym(",")), Ident(name))
    BY <2>7, <2>8, ListedGrows DEF Cat
  <2>10. /\ Sym("SELECT") \in Seq(Written) /\ Sym(",") \in Seq(Written) /\ Ident(name) \in Seq(Written)
    BY <1>0, ColumnsRead, IdentType
  <2>11. Cat(Cat(Sym("SELECT"), list), Cat(Sym(","), Ident(name)))
           = Cat(Sym("SELECT"), Cat(list, Cat(Sym(","), Ident(name))))
    <3>1. PICK tail \in Seq(Written) : tail = Cat(Sym(","), Ident(name))
      BY <2>10, CatIs
    <3>2. list \in Seq(Written) /\ tail \in Seq(Written) /\ Sym("SELECT") \in Seq(Written)
      BY <2>8, <2>10, <3>1
    <3>3. Cat(Cat(Sym("SELECT"), list), tail) = Cat(Sym("SELECT"), Cat(list, tail))
      BY <3>2, CatIs
    <3> QED
      BY <3>1, <3>3
  <2>12. Cat(list, Cat(Sym(","), Ident(name))) = Cat(Cat(list, Sym(",")), Ident(name))
    BY <2>8, <2>10, CatIs
  <2>13. Stretch(1, (at + 2) - 1) = Cat(Sym("SELECT"), Listed(Append(cols, name)))
    BY <2>5, <2>6, <2>7, <2>8, <2>9, <2>11, <2>12
  <2>14. ast' = [ast EXCEPT !.cols = Append(cols, name)]
    BY <1>3, <2>3, <2>7
  <2>15. ast'.proj = "columns" /\ ast'.cols = Append(cols, name)
    BY <1>0, <2>14, AstFields, ColumnsRead DEF AstType
  <2>16. ReadTokens' = HeadOf(ast') /\ phase' = "columns"
    BY <1>3, <2>13, <2>15, TakenTokens DEF HeadOf, ProjectionOf, ProjectionTokens
  <2> QED
    BY <2>16 DEF TextInv
<1>4. CASE /\ Kind(at + 1) \in {"COUNT", "SUM"} /\ Len(ast.cols) = 1
           /\ LET isSum   == Kind(at + 1) = "SUM"
                  pattern == << {","} >> \o (IF isSum THEN SumPattern ELSE CountPattern)
              IN  \/ ~Fits(pattern) /\ Reject(Misfit(pattern))
                  \/ Fits(pattern) /\ Kind(at + 5) = "," /\ Reject(at + 5)
                  \/ /\ Fits(pattern) /\ Kind(at + 5) # ","
                     /\ ast' = [ast EXCEPT !.proj = "grouped",
                                           !.agg = IF isSum THEN "sum" ELSE "count",
                                           !.sumCol = IF isSum THEN Text(at + 3) ELSE @]
                     /\ Take(5, "clauses") /\ UNCHANGED <<comps, ops>>
  <2>1. PICK isSum \in BOOLEAN : isSum = (Kind(at + 1) = "SUM")
    OBVIOUS
  <2>2. PICK pattern : pattern = ListEnd(isSum)
    OBVIOUS
  <2>3. ListEndAt(pattern, isSum)
    BY <2>2, ListEndIs
  <2>4. PatternOf(pattern, 5)
    BY <2>3 DEF ListEndAt, PatternOf
  <2>5. \/ ~Fits(pattern) /\ Reject(Misfit(pattern))
        \/ Fits(pattern) /\ Kind(at + 5) = "," /\ Reject(at + 5)
        \/ /\ Fits(pattern) /\ Kind(at + 5) # ","
           /\ ast' = [ast EXCEPT !.proj = "grouped",
                                 !.agg = IF isSum THEN "sum" ELSE "count",
                                 !.sumCol = IF isSum THEN Text(at + 3) ELSE @]
           /\ Take(5, "clauses") /\ UNCHANGED <<comps, ops>>
    BY <1>4, <2>1, <2>2 DEF ListEnd
  <2>6. CASE Reject(Misfit(pattern)) \/ Reject(at + 5)
    BY <2>6, TextReject
  <2>7. CASE /\ Fits(pattern)
             /\ ast' = [ast EXCEPT !.proj = "grouped",
                                   !.agg = IF isSum THEN "sum" ELSE "count",
                                   !.sumCol = IF isSum THEN Text(at + 3) ELSE @]
             /\ Take(5, "clauses")
    <3>1. Fits(pattern) /\ 5 \in Nat \ {0}
      BY <2>7
    <3>2. at + 5 \in 1 .. (Len(toks) + 1)
      BY <1>0, <2>4, <3>1, FitsIs
    <3>3. \A i \in 1 .. 5 : Kind(at + i - 1) \in pattern[i]
      BY <1>0, <2>4, <3>1, FitsIs
    <3>4. /\ at + 1 <= Len(toks) /\ (at + 1) + 3 <= Len(toks) /\ at + (5 - 1) = at + 4
          /\ at + 2 - 1 = at + 1 /\ at + 3 - 1 = at + 2 /\ at + 4 - 1 = at + 3 /\ at + 5 - 1 = at + 4
          /\ 2 \in 1 .. 5 /\ 3 \in 1 .. 5 /\ 4 \in 1 .. 5 /\ 5 \in 1 .. 5
          /\ (at + 1) + 1 = at + 2 /\ (at + 1) + 2 = at + 3 /\ (at + 1) + 3 = at + 4
          /\ at + 4 <= Len(toks)
      BY <3>2, ParserFacts
    <3>5. /\ Kind(at + 2) = "(" /\ Kind(at + 4) = ")"
          /\ Kind(at + 1) = IF isSum THEN "SUM" ELSE "COUNT"
          /\ Kind(at + 3) = IF isSum THEN "ident" ELSE "*"
      <4>1. /\ pattern[3] = {"("} /\ pattern[5] = {")"}
            /\ pattern[2] = IF isSum THEN {"SUM"} ELSE {"COUNT"}
            /\ pattern[4] = IF isSum THEN {"ident"} ELSE {"*"}
        BY <2>3 DEF ListEndAt
      <4>2. /\ Kind(at + 1) \in pattern[2] /\ Kind(at + 2) \in pattern[3]
            /\ Kind(at + 3) \in pattern[4] /\ Kind(at + 4) \in pattern[5]
        BY <3>3, <3>4
      <4> QED
        BY <4>1, <4>2
    <3>6. PICK sumCol : sumCol = IF isSum THEN Text(at + 3) ELSE ast.sumCol
      OBVIOUS
    <3>7. PICK agg \in Aggregate : agg = IF isSum THEN "sum" ELSE "count"
      BY DEF Aggregate
    <3>8. ast' = [ast EXCEPT !.proj = "grouped", !.agg = agg, !.sumCol = sumCol]
      BY <2>7, <3>6, <3>7
    <3>9. PICK x : /\ x = ast' /\ x.proj = "grouped" /\ x.agg = agg /\ x.sumCol = sumCol
                   /\ x.cols = ast.cols
      <4>1. /\ ast'.proj = "grouped" /\ ast'.agg = agg /\ ast'.sumCol = sumCol
            /\ ast'.cols = ast.cols
        BY <3>8, AstFields DEF AstType
      <4> QED
        BY <4>1
    <3>10. Stretch(at + 1, at + 4) = AggregateText(x)
      <4>1. at + 1 \in Nat \ {0} /\ (at + 1) + 3 <= Len(toks) /\ toks \in Seq(Token)
            /\ Kind((at + 1) + 1) = "(" /\ Kind((at + 1) + 3) = ")"
        BY <1>0, <3>4, <3>5
      <4>2. CASE isSum
        <5>1. Kind(at + 1) = "SUM" /\ Kind((at + 1) + 2) = "ident" /\ x.sumCol = Text((at + 1) + 2)
          BY <3>4, <3>5, <3>6, <3>9, <4>2
        <5>2. Stretch(at + 1, (at + 1) + 3) = SumTokens(x)
          BY <4>1, <5>1, PatternText
        <5> QED
          BY <3>4, <3>7, <3>9, <4>2, <5>2 DEF AggregateText
      <4>3. CASE ~isSum
        <5>1. Kind(at + 1) = "COUNT" /\ Kind((at + 1) + 2) = "*"
          BY <3>4, <3>5, <4>3
        <5>2. Stretch(at + 1, (at + 1) + 3) = CountTokens
          BY <4>1, <5>1, PatternText
        <5> QED
          BY <3>4, <3>7, <3>9, <4>3, <5>2 DEF AggregateText
      <4> QED
        BY <4>2, <4>3
    <3>11. /\ Cat(Stretch(at, at), Stretch(at + 1, at + 4)) = Stretch(at, at + 4)
           /\ Stretch(at + 1, at + 4) \in Seq(Written)
      <4>1. /\ at \in Nat /\ at + 1 \in Nat /\ at + 4 \in Nat /\ toks \in Seq(Written)
            /\ 1 <= at /\ at <= at + 1 /\ at <= at + 4 /\ at + 4 <= Len(toks)
        <5>1. toks \in Seq(Written)
          BY <1>0, TokensWritten
        <5>2. at + 4 <= Len(toks)
          BY <3>4
        <5>3. at \in Nat /\ at + 1 \in Nat /\ at + 4 \in Nat /\ 1 <= at /\ at <= at + 1 /\ at <= at + 4
          <6>1. at \in Nat /\ at # 0
            BY <1>0
          <6> QED
            BY <6>1
        <5> QED
          BY <5>1, <5>2, <5>3
      <4>2. Cat(Stretch(at, at), Stretch(at + 1, at + 4)) = Stretch(at, at + 4)
        <5>1. PICK l \in Nat : l = at + 1
          BY <4>1
        <5>2. at <= l
          BY <4>1, <5>1
        <5>3. Cat(Stretch(at, at), Stretch(l, at + 4)) = Stretch(at, at + 4)
          BY <4>1, <5>1, <5>2, StretchOn
        <5> QED
          BY <5>1, <5>3
      <4>3. Stretch(at + 1, at + 4) \in Seq(Written)
        <5>1. PICK i \in Nat : i = at + 1
          BY <4>1
        <5>2. PICK j \in Nat : j = at + 4
          BY <4>1
        <5>3. 1 <= i /\ i <= j /\ j <= Len(toks)
          BY <3>4, <4>1, <5>1, <5>2
        <5>4. i <= j + 1 /\ j <= j
          BY <5>3
        <5>5. SubSeq(toks, i, j) \in Seq(Written)
          BY <4>1, <5>3, <5>4, Adjacent
        <5> QED
          BY <5>1, <5>2, <5>5 DEF Stretch
      <4> QED
        BY <4>2, <4>3
    <3>12. PICK text \in Seq(Written) : text = AggregateText(x) /\ Stretch(at, at + 4) = Cat(Sym(","), text)
      BY <1>1, <3>10, <3>11
    <3>13. PICK read \in Seq(Written) : read = ReadTokens
      BY <1>0, ReadType
    <3>14. Stretch(1, (at + 5) - 1) = Cat(read, Stretch(at, at + 4))
      <4>1. at + 4 \in Nat /\ at <= at + 4 /\ at + 4 <= Len(toks) /\ (at + 5) - 1 = at + 4
        <5>1. at + 4 <= Len(toks)
          BY <3>4
        <5>2. at + 4 \in Nat /\ at <= at + 4 /\ (at + 5) - 1 = at + 4
          <6>1. at \in Nat
            BY <1>0
          <6> QED
            BY <6>1
        <5> QED
          BY <5>1, <5>2
      <4>2. Stretch(1, at + 4) = Cat(ReadTokens, Stretch(at, at + 4))
        BY <1>0, <4>1, ReadMore
      <4> QED
        BY <3>13, <4>1, <4>2
    <3>15. PICK name \in Names : ast.cols = <<name>> /\ ast.cols[1] = name
      <4>1. PICK cols \in Seq(Names) : cols = ast.cols
        BY <1>0, ColumnsRead
      <4>2. Len(cols) = 1
        BY <1>4, <4>1
      <4>3. cols[1] \in Names
        <5>1. 1 \in 1 .. Len(cols)
          BY <4>2
        <5> QED
          BY <5>1, ElementOfSeq
      <4>4. PICK one : one = <<cols[1]>>
        OBVIOUS
      <4>5. one \in Seq(Names) /\ Len(one) = 1 /\ one[1] = cols[1]
        BY <4>3, <4>4
      <4>6. cols = one
        BY <4>2, <4>5, SeqEqual
      <4> QED
        BY <4>1, <4>3, <4>4, <4>6
    <3>16. Listed(ast.cols) = Ident(name)
      BY <3>15, ListedGrows, EmptySeq
    <3>17. read = Cat(Sym("SELECT"), Ident(name))
      BY <1>0, <3>13, <3>16, ColumnsRead
    <3>18. /\ Sym("SELECT") \in Seq(Written) /\ Sym(",") \in Seq(Written) /\ Ident(name) \in Seq(Written)
      BY <1>0, ColumnsRead, IdentType
    <3>19. Cat(Cat(Sym("SELECT"), Ident(name)), Cat(Sym(","), text))
             = Cat(Sym("SELECT"), Cat(Ident(name), Cat(Sym(","), text)))
      <4>1. PICK tail \in Seq(Written) : tail = Cat(Sym(","), text)
        <5>1. text \in Seq(Written)
          BY <3>12
        <5> QED
          BY <3>18, <5>1, CatIs
      <4>2. Ident(name) \in Seq(Written) /\ tail \in Seq(Written) /\ Sym("SELECT") \in Seq(Written)
        BY <3>18, <4>1
      <4>3. Cat(Cat(Sym("SELECT"), Ident(name)), tail) = Cat(Sym("SELECT"), Cat(Ident(name), tail))
        BY <4>2, CatIs
      <4> QED
        BY <4>1, <4>3
    <3>20. Cat(Ident(name), Cat(Sym(","), text)) = Cat(Cat(Ident(name), Sym(",")), text)
      <4>1. PICK first \in Seq(Written) : first = Ident(name)
        BY <3>18
      <4>2. PICK comma \in Seq(Written) : comma = Sym(",")
        BY <3>18
      <4>3. text \in Seq(Written) /\ first \in Seq(Written) /\ comma \in Seq(Written)
        BY <3>12, <4>1, <4>2
      <4>4. Cat(Cat(first, comma), text) = Cat(first, Cat(comma, text))
        BY <4>3, CatIs
      <4> QED
        BY <4>1, <4>2, <4>4
    <3>21. ProjectionOf(x) = Cat(Cat(Ident(name), Sym(",")), text)
      BY <3>9, <3>12, <3>15 DEF ProjectionOf
    <3>22. Stretch(1, (at + 5) - 1) = HeadOf(x)
      BY <3>12, <3>14, <3>17, <3>19, <3>20, <3>21 DEF HeadOf
    <3>23. ReadTokens' = HeadOf(ast') /\ phase' = "clauses"
      BY <2>7, <3>9, <3>22, TakenTokens
    <3> QED
      BY <3>23 DEF TextInv
  <2> QED
    BY <2>5, <2>6, <2>7
<1> QED
  BY <1>2, <1>3, <1>4 DEF ParseNextColumn

LEMMA TextEndColumns == ParserInv /\ TextInv /\ EndColumns => TextInv'
<1> SUFFICES ASSUME ParserInv, TextInv, EndColumns PROVE TextInv'
  OBVIOUS
<1>1. ReadTokens = HeadOf(ast) /\ phase' = "clauses"
  BY DEF TextInv, EndColumns, Take
<1>2. ReadTokens' = ReadTokens /\ ast' = ast
  BY ParserFacts DEF EndColumns, Take, ReadTokens, Stretch
<1> QED
  BY <1>1, <1>2 DEF TextInv

LEMMA TextClauses == ParserInv /\ TextInv /\ ParseClauses => TextInv'
<1> SUFFICES ASSUME ParserInv, TextInv, ParseClauses PROVE TextInv'
  OBVIOUS
<1>0. /\ phase = "clauses" /\ ReadTokens = HeadOf(ast) /\ toks \in Seq(Token)
      /\ at \in 1 .. (Len(toks) + 1) /\ comps = <<>> /\ ops = <<>> /\ ast.where = NoFilterExpr
  <2>1. phase = "clauses"
    BY DEF ParseClauses
  <2>2. ReadTokens = HeadOf(ast)
    BY <2>1 DEF TextInv
  <2>3. comps = <<>> /\ ops = <<>> /\ ast.where = NoFilterExpr
    BY <2>1 DEF ParserInv, AstInv, BeforeGroup, BeforeWhere
  <2> QED
    BY <2>1, <2>2, <2>3, ParserFacts
<1>1. CASE Reject(at)
  BY <1>1, TextReject
<1>2. CASE Peek = "WHERE" /\ Take(1, "comparison") /\ UNCHANGED <<ast, comps, ops>>
  <2>1. at \in 1 .. Len(toks) /\ at \in Nat /\ Len(toks) \in Nat
    BY <1>2, ParserFacts
  <2>4. Kind(at) = "WHERE" /\ at \in Nat \ {0}
    BY <1>2, ParserFacts DEF Peek
  <2>5. Stretch(at, at) = Sym("WHERE")
    BY <1>0, <2>4, TokenText DEF Keyword
  <2>6. SubSeq(toks, 1, at - 1) = HeadOf(ast) /\ SubSeq(toks, at, at) = Sym("WHERE")
    BY <1>0, <2>5 DEF Stretch, ReadTokens
  <2>7. Len(comps) = 0 /\ Len(ops) = 0
    BY <1>0
  <2>8. at + 4 * Len(ops) + 1 = at + 1
    BY <2>1, <2>7
  <2>9. /\ phase' = "comparison" /\ at' = at + 1
        /\ toks' = toks /\ ast' = ast /\ comps' = comps /\ ops' = ops
    BY <1>2 DEF Take
  <2>10. PICK w \in 1 .. Len(toks) : w = at
    BY <2>1
  <2>11. ConditionsAt(w, 1)'
    BY <2>6, <2>7, <2>8, <2>9, <2>10 DEF ConditionsAt, ConditionsFrom, Stretch
  <2>12. w \in 1 .. Len(toks')
    BY <2>9
  <2> QED
    BY <2>9, <2>11, <2>12 DEF TextInv
<1>3. CASE Take(0, "group") /\ UNCHANGED <<ast, comps, ops>>
  <2>1. ReadTokens' = ReadTokens /\ ast' = ast /\ phase' = "group"
    BY <1>3, ParserFacts DEF Take, ReadTokens, Stretch
  <2>2. PICK head \in Seq(Written) : head = HeadOf(ast)
    BY <1>0, ReadType
  <2>3. head \o <<>> = head
    BY <2>2, ConcatEmptySeq
  <2>4. WhereOf(ast) = <<>>
    BY <1>0 DEF WhereOf, Filtered, NoFilterExpr
  <2>5. Cat(HeadOf(ast), WhereOf(ast)) = HeadOf(ast)
    BY <2>2, <2>3, <2>4 DEF Cat
  <2> QED
    BY <1>0, <2>1, <2>5 DEF TextInv
<1> QED
  BY <1>1, <1>2, <1>3 DEF ParseClauses

\* A comparison has been read behind the conditions.
LEMMA ConditionTaken ==
  ASSUME ParserInv, phase = "comparison", NEW w \in 1 .. Len(toks), ConditionsAt(w, 1),
         Fits(ComparisonPattern), Text(at + 2) # OutOfRange
  PROVE  /\ at + 3 \in 1 .. (Len(toks) + 1)
         /\ ComparisonAt(at) \in Comparison
         /\ Stretch(w + 4 * (Len(comps) + 1) - 3, w + 4 * (Len(comps) + 1) - 1)
              = ComparisonTokens(ComparisonAt(at))
         /\ Len(comps) = Len(ops) /\ Len(ops) \in Nat /\ at \in Nat
         /\ comps \in Seq(Comparison)
<1>0. /\ toks \in Seq(Token) /\ at \in 1 .. (Len(toks) + 1) /\ at \in Nat \ {0} /\ Len(toks) \in Nat
      /\ comps \in Seq(Comparison) /\ Len(ops) \in Nat /\ Len(comps) = Len(ops)
  BY ParserFacts, LenProperties DEF AstInv
<1>1. /\ at + 3 \in 1 .. (Len(toks) + 1)
      /\ Kind(at) = "ident" /\ Kind(at + 1) = "op" /\ Kind(at + 2) \in ColumnType
      /\ ComparisonAt(at) \in Comparison
  BY <1>0, ComparisonRead
<1>2. /\ at + 1 \in Nat \ {0} /\ at + 2 \in Nat \ {0} /\ at + 2 <= Len(toks) /\ at + 1 <= Len(toks)
  BY <1>0, <1>1
<1>3. Stretch(at, at + 2) = Cat(Cat(Stretch(at, at), Stretch(at + 1, at + 1)), Stretch(at + 2, at + 2))
  BY <1>0, <1>2, Tokens
<1>4. PICK e \in Comparison : e = ComparisonAt(at)
  BY <1>1
<1>5. /\ e.col = Text(at) /\ e.op = Text(at + 1)
      /\ e.lit.type = Kind(at + 2) /\ e.lit.bits = Text(at + 2)
  BY <1>4 DEF ComparisonAt
<1>6. Kind(at + 2) # "EOF"
  BY <1>1 DEF ColumnType
<1>7. Stretch(at, at) = << [kind |-> "ident", text |-> e.col] >>
  BY <1>0, <1>1, <1>5, TokenText
<1>8. Stretch(at + 1, at + 1) = << [kind |-> "op", text |-> e.op] >>
  BY <1>0, <1>1, <1>2, <1>5, TokenText
<1>9. Stretch(at + 2, at + 2) = << [kind |-> e.lit.type, text |-> e.lit.bits] >>
  BY <1>0, <1>2, <1>5, <1>6, TokenText
<1>10. PICK u \in Written : u = [kind |-> "ident", text |-> e.col]
  BY IdentType DEF Comparison
<1>11. PICK v \in Written : v = [kind |-> "op", text |-> e.op]
  BY DEF Comparison, Written, Token
<1>12. PICK x : x = [kind |-> e.lit.type, text |-> e.lit.bits]
  OBVIOUS
<1>13. x \in Written
  <2>1. <<x>> \in Seq(Written) /\ Len(<<x>>) = 1 /\ <<x>>[1] = x
    BY <1>0, <1>2, <1>6, <1>9, <1>12, TokenText
  <2>2. PICK s \in Seq(Written) : s = <<x>>
    BY <2>1
  <2>3. Len(s) = 1 /\ s[1] = x
    BY <2>2
  <2>4. 1 \in 1 .. Len(s)
    BY <2>3
  <2>5. s[1] \in Written
    BY <2>4, ElementOfSeq
  <2> QED
    BY <2>3, <2>5
<1>14. <<u>> \o <<v>> = <<u, v>> /\ <<u, v>> \o <<x>> = <<u, v, x>>
  BY <1>13, AppendOne, AppendTwo
<1>15. Stretch(at, at + 2) = <<u, v, x>>
  BY <1>3, <1>7, <1>8, <1>9, <1>10, <1>11, <1>12, <1>14 DEF Cat
<1>16. ComparisonTokens(e) = <<u, v, x>>
  BY <1>10, <1>11, <1>12, ComparisonTokensAre
<1>17. at = w + 4 * Len(ops) + 1
  BY DEF ConditionsAt
<1>18. w + 4 * (Len(comps) + 1) - 3 = at /\ w + 4 * (Len(comps) + 1) - 1 = at + 2
  BY <1>0, <1>17
<1> QED
  BY <1>0, <1>1, <1>4, <1>15, <1>16, <1>18

LEMMA TextComparison == ParserInv /\ TextInv /\ ParseComparison => TextInv'
<1> SUFFICES ASSUME ParserInv, TextInv, ParseComparison PROVE TextInv'
  OBVIOUS
<1>1. CASE Reject(Misfit(ComparisonPattern)) \/ Reject(at + 2)
  BY <1>1, TextReject
<1>2. CASE /\ Fits(ComparisonPattern) /\ Text(at + 2) # OutOfRange
           /\ comps' = Append(comps, ComparisonAt(at))
           /\ Take(3, "conditions") /\ UNCHANGED <<ast, ops>>
  <2>1. phase = "comparison"
    BY DEF ParseComparison
  <2>2. PICK w \in 1 .. Len(toks) : ConditionsAt(w, 1)
    BY <2>1 DEF TextInv
  <2>3. /\ ComparisonAt(at) \in Comparison
        /\ Stretch(w + 4 * (Len(comps) + 1) - 3, w + 4 * (Len(comps) + 1) - 1)
             = ComparisonTokens(ComparisonAt(at))
        /\ Len(comps) = Len(ops) /\ Len(ops) \in Nat /\ at \in Nat /\ comps \in Seq(Comparison)
    BY <1>2, <2>1, <2>2, ConditionTaken
  <2>4. PICK n \in Nat : n = Len(comps) /\ n = Len(ops)
    BY <2>3
  <2>5. PICK e \in Comparison : e = ComparisonAt(at)
    BY <2>3
  <2>6. /\ comps' \in Seq(Comparison) /\ Len(comps') = n + 1 /\ comps'[n + 1] = e
        /\ \A i \in 1 .. n : comps'[i] = comps[i]
    BY <1>2, <2>3, <2>4, <2>5, AppendProperties
  <2>7. /\ phase' = "conditions" /\ at' = at + 3 /\ toks' = toks /\ ast' = ast /\ ops' = ops
    BY <1>2 DEF Take
  <2>8. /\ SubSeq(toks, 1, w - 1) = HeadOf(ast) /\ SubSeq(toks, w, w) = Sym("WHERE")
        /\ at = w + 4 * n + 1
        /\ \A i \in 1 .. n : SubSeq(toks, w + 4 * i - 3, w + 4 * i - 1) = ComparisonTokens(comps[i])
        /\ \A i \in 1 .. n : SubSeq(toks, w + 4 * i, w + 4 * i) = Sym(ops[i])
    BY <2>2, <2>4 DEF ConditionsAt, ConditionsFrom, Stretch
  <2>9. ASSUME NEW i \in 1 .. (n + 1)
        PROVE  SubSeq(toks, w + 4 * i - 3, w + 4 * i - 1) = ComparisonTokens(comps'[i])
    <3>1. CASE i = n + 1
      BY <2>3, <2>4, <2>5, <2>6, <3>1 DEF Stretch
    <3>2. CASE i # n + 1
      <4>1. i \in 1 .. n
        BY <3>2
      <4> QED
        BY <2>6, <2>8, <4>1
    <3> QED
      BY <3>1, <3>2
  <2>10. at + 3 = w + 4 * n + 4
    BY <2>8
  <2>11. ConditionsFrom(w)'
    BY <2>4, <2>6, <2>7, <2>8, <2>9 DEF ConditionsFrom, Stretch
  <2>12. ConditionsAt(w, 4)'
    BY <2>4, <2>7, <2>8, <2>10, <2>11 DEF ConditionsAt, Stretch
  <2>13. w \in 1 .. Len(toks')
    BY <2>7
  <2> QED
    BY <2>7, <2>12, <2>13 DEF TextInv
<1> QED
  BY <1>1, <1>2 DEF ParseComparison, ComparisonAt

\* The SELECT does not depend on the other clauses.
LEMMA SameHead ==
  ASSUME NEW x, NEW y, x.proj \in ProjectionKind, y.proj = x.proj, y.cols = x.cols,
         y.sumCol = x.sumCol, y.agg = x.agg
  PROVE  HeadOf(y) = HeadOf(x)
<1>1. SumTokens(y) = SumTokens(x)
  BY DEF SumTokens
<1>2. AggregateText(y) = AggregateText(x)
  BY <1>1 DEF AggregateText
<1>3. CASE x.proj = "grouped"
  BY <1>2, <1>3 DEF HeadOf, ProjectionOf
<1>4. CASE x.proj \in {"star", "count", "sum", "columns"}
  BY <1>1, <1>4 DEF HeadOf, ProjectionOf, ProjectionTokens
<1> QED
  BY <1>3, <1>4 DEF ProjectionKind

LEMMA TextConditions == ParserInv /\ TextInv /\ ParseConditions => TextInv'
<1> SUFFICES ASSUME ParserInv, TextInv, ParseConditions PROVE TextInv'
  OBVIOUS
<1>0. /\ phase = "conditions" /\ toks \in Seq(Token) /\ at \in 1 .. (Len(toks) + 1) /\ at \in Nat \ {0}
      /\ comps \in Seq(Comparison) /\ ops \in Seq({"AND", "OR"}) /\ Len(comps) = Len(ops) + 1
      /\ Len(toks) \in Nat
  BY ParserFacts DEF ParseConditions, AstInv
<1>1. PICK w \in 1 .. Len(toks) : ConditionsAt(w, 4)
  BY <1>0 DEF TextInv
<1>2. PICK n \in Nat : n = Len(ops)
  BY <1>0, LenProperties
<1>3. /\ Stretch(1, w - 1) = HeadOf(ast) /\ Stretch(w, w) = Sym("WHERE")
      /\ at = w + 4 * n + 4 /\ ConditionsFrom(w)
  BY <1>1, <1>2 DEF ConditionsAt
<1>4. CASE Reject(at)
  BY <1>4, TextReject
<1>5. CASE Peek \in {"AND", "OR"} /\ ops' = Append(ops, Peek)
           /\ Take(1, "comparison") /\ UNCHANGED <<ast, comps>>
  <2>1. /\ ops' \in Seq({"AND", "OR"}) /\ Len(ops') = n + 1 /\ ops'[n + 1] = Peek
        /\ \A i \in 1 .. n : ops'[i] = ops[i]
    BY <1>0, <1>2, <1>5, AppendProperties
  <2>2. Stretch(at, at) = Sym(Peek)
    <3>1. Kind(at) = Peek /\ Kind(at) # "EOF" /\ Kind(at) \in Keyword \cup Punctuation
      BY <1>5 DEF Peek, Keyword
    <3> QED
      BY <1>0, <3>1, TokenText
  <2>3. /\ phase' = "comparison" /\ at' = at + 1 /\ toks' = toks /\ ast' = ast /\ comps' = comps
    BY <1>5 DEF Take
  <2>4. /\ \A i \in 1 .. Len(comps) :
             SubSeq(toks, w + 4 * i - 3, w + 4 * i - 1) = ComparisonTokens(comps[i])
        /\ \A i \in 1 .. n : SubSeq(toks, w + 4 * i, w + 4 * i) = Sym(ops[i])
    BY <1>2, <1>3 DEF ConditionsFrom, Stretch
  <2>5. ASSUME NEW i \in 1 .. (n + 1)
        PROVE  SubSeq(toks, w + 4 * i, w + 4 * i) = Sym(ops'[i])
    <3>1. CASE i = n + 1
      <4>1. w + 4 * i = at
        BY <1>3, <3>1
      <4> QED
        BY <2>1, <2>2, <3>1, <4>1 DEF Stretch
    <3>2. CASE i # n + 1
      <4>1. i \in 1 .. n
        BY <3>2
      <4> QED
        BY <2>1, <2>4, <4>1
    <3> QED
      BY <3>1, <3>2
  <2>6. ConditionsFrom(w)'
    BY <2>1, <2>3, <2>4, <2>5 DEF ConditionsFrom, Stretch
  <2>7. at + 1 = w + 4 * (n + 1) + 1
    BY <1>3
  <2>8. SubSeq(toks, 1, w - 1) = HeadOf(ast) /\ SubSeq(toks, w, w) = Sym("WHERE")
    BY <1>3 DEF Stretch
  <2>9. ConditionsAt(w, 1)'
    BY <2>1, <2>3, <2>6, <2>7, <2>8 DEF ConditionsAt, Stretch
  <2>10. w \in 1 .. Len(toks')
    BY <2>3
  <2> QED
    BY <2>3, <2>9, <2>10 DEF TextInv
<1>6. CASE ast' = [ast EXCEPT !.where = LowerGroups(GroupComparisons)]
           /\ Take(0, "group") /\ UNCHANGED <<comps, ops>>
  <2>1. Counted
    BY <1>0 DEF Counted
  <2>2. PICK e : e = LowerGroups(GroupComparisons)
    OBVIOUS
  <2>3. PICK g \in GroupList : g = GroupComparisons
    BY <2>1, GroupsAre
  <2>4. e.kind # "none" /\ ConditionTokens(e) = GroupText(g)
    BY <2>2, <2>3, LoweredWhereOK, LoweredText
  <2>5. PICK k \in Nat : k = at - 1
    BY <1>0
  <2>6. /\ w \in Nat /\ w + 1 \in Nat /\ w - 1 \in Nat /\ w + 4 * n + 3 = k /\ k <= Len(toks)
        /\ w <= k /\ w <= Len(toks) /\ w + 1 <= k + 1 /\ 1 <= w /\ w = (w - 1) + 1
    BY <1>0, <1>3, <2>5
  <2>7. toks \in Seq(Written)
    BY <1>0, TokensWritten
  <2>8. GroupText(g) = Stretch(w + 1, k)
    <3>1. w + 4 * Len(ops) + 3 <= Len(toks)
      BY <1>2, <2>6
    <3>2. GroupText(GroupComparisons) = Stretch(w + 1, w + 4 * Len(ops) + 3)
      BY <1>3, <2>1, <2>6, <2>7, <3>1, ConditionsText
    <3> QED
      BY <1>2, <2>3, <2>6, <3>2
  <2>9. PICK head \in Seq(Written) : head = Stretch(1, w - 1) /\ Cat(head, Stretch(w, w)) = Stretch(1, w)
    <3>1. PICK j \in Nat : j = w - 1
      BY <2>6
    <3>2. 1 \in Nat /\ w = j + 1 /\ 1 <= 1 /\ 1 <= w /\ j <= w /\ w <= Len(toks)
      BY <2>6, <3>1
    <3>3. Cat(Stretch(1, j), Stretch(w, w)) = Stretch(1, w)
      BY <2>6, <2>7, <3>2, StretchOn
    <3>4. Stretch(1, j) \in Seq(Written)
      BY <2>6, <2>7, <3>2, StretchOn
    <3> QED
      BY <3>1, <3>3, <3>4
  <2>10. Cat(Stretch(1, w), Stretch(w + 1, k)) = Stretch(1, k)
    <3>1. PICK l \in Nat : l = w + 1
      BY <2>6
    <3>2. 1 \in Nat /\ w \in Nat /\ 1 <= 1 /\ 1 <= l /\ w <= k /\ k <= Len(toks)
      BY <2>6, <3>1
    <3>3. Cat(Stretch(1, w), Stretch(l, k)) = Stretch(1, k)
      BY <2>7, <3>1, <3>2, StretchOn
    <3> QED
      BY <3>1, <3>3
  <2>11. PICK text \in Seq(Written) : text = GroupText(g)
    <3>1. g \in Seq(Seq(Comparison))
      BY DEF GroupList
    <3> QED
      BY <3>1, GroupTextType
  <2>12. Sym("WHERE") \in Seq(Written)
    BY SymType DEF Keyword
  <2>13. Cat(Cat(head, Sym("WHERE")), text) = Cat(head, Cat(Sym("WHERE"), text))
    <3>1. head \in Seq(Written) /\ text \in Seq(Written)
      BY <2>9, <2>11
    <3> QED
      BY <2>12, <3>1, CatIs
  <2>14. Stretch(1, k) = Cat(HeadOf(ast), Cat(Sym("WHERE"), text))
    BY <1>3, <2>8, <2>9, <2>10, <2>11, <2>13
  <2>15. PICK x : /\ x = ast' /\ x.where = e /\ x.proj = ast.proj /\ x.cols = ast.cols
                  /\ x.sumCol = ast.sumCol /\ x.agg = ast.agg
    <3>1. ast' = [ast EXCEPT !.where = e]
      BY <1>6, <2>2
    <3>2. /\ ast'.where = e /\ ast'.proj = ast.proj /\ ast'.cols = ast.cols
          /\ ast'.sumCol = ast.sumCol /\ ast'.agg = ast.agg
      BY <3>1, AstFields DEF AstType
    <3> QED
      BY <3>2
  <2>16. HeadOf(x) = HeadOf(ast)
    BY <2>15, AstFields, SameHead
  <2>17. WhereOf(x) = Cat(Sym("WHERE"), text)
    BY <2>4, <2>11, <2>15 DEF WhereOf, Filtered
  <2>18. phase' = "group" /\ ReadTokens' = Stretch(1, k)
    <3>1. ReadTokens' = Stretch(1, (at + 0) - 1) /\ phase' = "group"
      BY <1>6, TakenTokens
    <3>2. (at + 0) - 1 = k
      BY <1>0, <2>5
    <3> QED
      BY <3>1, <3>2
  <2>19. ReadTokens' = Cat(HeadOf(ast'), WhereOf(ast'))
    BY <2>14, <2>15, <2>16, <2>17, <2>18
  <2> QED
    BY <2>18, <2>19 DEF TextInv
<1> QED
  BY <1>4, <1>5, <1>6 DEF ParseConditions

LEMMA TextGroupBy == ParserInv /\ TextInv /\ ParseGroupBy => TextInv'
<1> SUFFICES ASSUME ParserInv, TextInv, ParseGroupBy PROVE TextInv'
  OBVIOUS
<1>0. /\ phase = "group" /\ toks \in Seq(Token) /\ at \in 1 .. (Len(toks) + 1) /\ at \in Nat \ {0}
      /\ Len(toks) \in Nat /\ ast.groupBy = EmptyName
      /\ ReadTokens = Cat(HeadOf(ast), WhereOf(ast))
  <2>1. phase = "group"
    BY DEF ParseGroupBy
  <2>2. ast.groupBy = EmptyName
    BY <2>1 DEF ParserInv, AstInv
  <2>3. ReadTokens = Cat(HeadOf(ast), WhereOf(ast))
    BY <2>1 DEF TextInv
  <2> QED
    BY <2>1, <2>2, <2>3, ParserFacts
<1>1. CASE Take(0, "end") /\ UNCHANGED <<ast, comps, ops>>
  <2>1. PICK read \in Seq(Written) : read = ReadTokens
    BY <1>0, ReadType
  <2>2. read \o <<>> = read
    BY <2>1, ConcatEmptySeq
  <2>3. GroupByOf(ast) = <<>>
    BY <1>0 DEF GroupByOf
  <2>4. ReadTokens = Cat(Cat(HeadOf(ast), WhereOf(ast)), GroupByOf(ast))
    BY <1>0, <2>1, <2>2, <2>3 DEF Cat
  <2>5. ReadTokens' = ReadTokens /\ ast' = ast /\ phase' = "end"
    BY <1>1, ParserFacts DEF Take, ReadTokens, Stretch
  <2> QED
    BY <2>4, <2>5 DEF TextInv
<1>2. CASE Reject(Misfit(GroupByPattern)) \/ Reject(at + 3)
  BY <1>2, TextReject
<1>3. CASE Fits(GroupByPattern) /\ ast' = [ast EXCEPT !.groupBy = Text(at + 2)]
           /\ Take(3, "end") /\ UNCHANGED <<comps, ops>>
  <2>1. Fits(GroupByPattern)
    BY <1>3
  <2>2. /\ at + 3 \in 1 .. (Len(toks) + 1)
        /\ Kind(at) = "GROUP" /\ Kind(at + 1) = "BY" /\ Kind(at + 2) = "ident"
        /\ Text(at + 2) \in Names \ {EmptyName}
    BY <1>0, <2>1, GroupByRead
  <2>3. /\ at + 2 <= Len(toks) /\ at + 1 <= Len(toks) /\ at + 1 \in Nat \ {0} /\ at + 2 \in Nat \ {0}
        /\ at + 2 \in Nat /\ at <= at + 2 /\ (at + 3) - 1 = at + 2
    BY <1>0, <2>2
  <2>4. Stretch(at, at + 2) = Cat(Cat(Stretch(at, at), Stretch(at + 1, at + 1)), Stretch(at + 2, at + 2))
    BY <1>0, <2>3, Tokens
  <2>5. PICK name \in Names \ {EmptyName} : name = Text(at + 2)
    BY <2>2
  <2>6. Stretch(at, at) = Sym("GROUP")
    BY <1>0, <2>2, TokenText DEF Keyword
  <2>7. Stretch(at + 1, at + 1) = Sym("BY")
    BY <1>0, <2>2, <2>3, TokenText DEF Keyword
  <2>8. Stretch(at + 2, at + 2) = Ident(name)
    BY <1>0, <2>2, <2>3, <2>5, TokenText
  <2>9. PICK x : /\ x = ast' /\ x.groupBy = name /\ x.proj = ast.proj /\ x.cols = ast.cols
                 /\ x.sumCol = ast.sumCol /\ x.agg = ast.agg /\ x.where = ast.where
    <3>1. ast' = [ast EXCEPT !.groupBy = name]
      BY <1>3, <2>5
    <3>2. /\ ast'.groupBy = name /\ ast'.proj = ast.proj /\ ast'.cols = ast.cols
          /\ ast'.sumCol = ast.sumCol /\ ast'.agg = ast.agg /\ ast'.where = ast.where
      BY <3>1, AstFields DEF AstType
    <3> QED
      BY <3>2
  <2>10. HeadOf(x) = HeadOf(ast)
    BY <2>9, AstFields, SameHead
  <2>11. WhereOf(x) = WhereOf(ast)
    BY <2>9 DEF WhereOf, Filtered
  <2>12. GroupByOf(x) = Stretch(at, at + 2)
    BY <2>4, <2>5, <2>6, <2>7, <2>8, <2>9 DEF GroupByOf
  <2>13. Stretch(1, at + 2) = Cat(ReadTokens, Stretch(at, at + 2))
    BY <1>0, <2>3, ReadMore
  <2>14. ReadTokens' = Stretch(1, at + 2) /\ phase' = "end"
    <3>1. ReadTokens' = Stretch(1, (at + 3) - 1) /\ phase' = "end"
      BY <1>3, TakenTokens
    <3> QED
      BY <2>3, <3>1
  <2>15. ReadTokens' = Cat(Cat(HeadOf(ast'), WhereOf(ast')), GroupByOf(ast'))
    BY <1>0, <2>9, <2>10, <2>11, <2>12, <2>13, <2>14
  <2> QED
    BY <2>14, <2>15 DEF TextInv
<1> QED
  BY <1>1, <1>2, <1>3 DEF ParseGroupBy

\* At the end mark of a query grouped as it should be, all is read.
LEMMA AllRead ==
  ASSUME ParserInv, TextInv, phase = "end", Peek = "EOF", ValidGrouping
  PROVE  Sentence(ast) = toks
<1>1. toks \in Seq(Token) /\ at \in 1 .. (Len(toks) + 1) /\ at \in Nat \ {0} /\ Len(toks) \in Nat
  BY ParserFacts
<1>2. at - 1 = Len(toks)
  <2>1. ~(at <= Len(toks))
    BY <1>1, TokenAt DEF Peek
  <2> QED
    BY <1>1, <2>1
<1>3. ReadTokens = toks
  BY <1>1, <1>2, SubSeqFull DEF ReadTokens, Stretch
<1>4. ReadTokens = Cat(Cat(HeadOf(ast), WhereOf(ast)), GroupByOf(ast))
  BY DEF TextInv
<1>5. ProjectionOf(ast) = ProjectionTokens(ast)
  <2>1. CASE ast.proj = "grouped"
    <3>1. ast.groupBy = ast.cols[1]
      BY <2>1 DEF ValidGrouping
    <3> QED
      BY <2>1, <3>1 DEF ProjectionOf, ProjectionTokens, AggregateText, Cat
  <2>2. CASE ast.proj # "grouped"
    BY <2>2 DEF ProjectionOf
  <2> QED
    BY <2>1, <2>2
<1>6. GroupByOf(ast) = IF ast.proj = "grouped"
                     THEN Cat(Cat(Sym("GROUP"), Sym("BY")), Ident(ast.groupBy)) ELSE <<>>
  <2>1. CASE ast.proj = "grouped"
    <3>1. ast.groupBy = ast.cols[1] /\ ast.cols # <<>> /\ ast.cols \in Seq(Names \ {EmptyName})
      BY <2>1, AstFields DEF ValidGrouping, ParserInv, AstInv
    <3>2. PICK S : S = Names \ {EmptyName}
      OBVIOUS
    <3>3. PICK cols \in Seq(S) : cols = ast.cols /\ cols # <<>>
      BY <3>1, <3>2
    <3>4. 1 \in 1 .. Len(cols)
      BY <3>3, EmptySeq
    <3>5. cols[1] \in S
      BY <3>4, ElementOfSeq
    <3>6. ast.groupBy # EmptyName
      BY <3>1, <3>2, <3>3, <3>5
    <3> QED
      BY <2>1, <3>6 DEF GroupByOf
  <2>2. CASE ast.proj # "grouped"
    BY <2>2 DEF GroupByOf, ValidGrouping
  <2> QED
    BY <2>1, <2>2
<1>7. Sentence(ast) = Cat(Cat(Cat(Sym("SELECT"), ProjectionTokens(ast)), WhereOf(ast)), GroupByOf(ast))
  BY <1>6 DEF Sentence, WhereOf, Cat
<1> QED
  BY <1>3, <1>4, <1>5, <1>7 DEF HeadOf

LEMMA TextEnd == ParserInv /\ TextInv /\ ParseEnd => TextInv'
<1> SUFFICES ASSUME ParserInv, TextInv, ParseEnd PROVE TextInv'
  OBVIOUS
<1>1. CASE Reject(at) \/ Reject(0)
  BY <1>1, TextReject
<1>2. CASE Peek = "EOF" /\ ValidGrouping /\ Take(0, "parsed") /\ UNCHANGED <<ast, comps, ops>>
  <2>1. Sentence(ast) = toks
    BY <1>2, AllRead DEF ParseEnd
  <2>2. ast' = ast /\ toks' = toks /\ phase' = "parsed"
    BY <1>2 DEF Take
  <2> QED
    BY <2>1, <2>2 DEF TextInv
<1> QED
  BY <1>1, <1>2 DEF ParseEnd

LEMMA TextStep == ParserInv /\ TextInv /\ [ParserNext]_pvars => TextInv'
<1>1. ParserInv /\ TextInv /\ UNCHANGED pvars => TextInv'
  BY DEF TextInv, ReadTokens, Stretch, ConditionsAt, ConditionsFrom, pvars
<1> QED
  BY <1>1, TextSelect, TextStar, TextCount, TextSum, TextFirstColumn, TextNoProjection,
     TextNextColumn, TextEndColumns, TextClauses, TextComparison, TextConditions, TextGroupBy, TextEnd
     DEF ParserNext

LEMMA TextInvariant == ParserSpec => []TextInv
<1>1. ParserInit => ParserInv /\ TextInv
  BY ParserInvInit, TextInit
<1>2. ParserInv /\ TextInv /\ [ParserNext]_pvars => (ParserInv /\ TextInv)'
  BY ParserInvStep, TextStep
<1> QED
  BY <1>1, <1>2, PTL DEF ParserSpec

\* No query is silently misread: whatever the tokens, the query that comes
\* out of Parse is written with exactly these, in this order (ReadsBack).
THEOREM NothingMisread == ParserSpec => []ReadsBack
<1>1. TextInv => ReadsBack
  BY DEF TextInv, ReadsBack
<1> QED
  BY <1>1, TextInvariant, PTL

-----------------------------------------------------------------------------
(* The form of a sentence: which kinds its tokens have, at which places.   *)

\* What may stand in a row, if each part may and so may two that are joined.
LEMMA BetweenStays ==
  ASSUME NEW T, NEW sep \in Seq(T), NEW R \in SUBSET Seq(T),
         \A u, v \in R : (u \o sep) \o v \in R,
         NEW parts \in Seq(R), parts # <<>>
  PROVE  Between(sep, parts) \in R
<1>1. parts \in Seq(Seq(T))
  OBVIOUS
<1>2. PICK f : RowOf(f, T, sep, parts) /\ Between(sep, parts) = f[Len(parts)]
  BY <1>1, BetweenUnfolds
<1>3. PICK k \in Nat : k = Len(parts) /\ k # 0
  BY LenProperties, EmptySeq
<1> DEFINE Good == { n \in Nat : n + 1 <= k => f[n + 1] \in R }
<1>4. ASSUME NEW n \in 1 .. k PROVE parts[n] \in R /\ f[n] = PartStep(sep, parts, n, f[n - 1])
  BY <1>2, <1>3, <1>4, ElementOfSeq DEF RowOf
<1>5. 0 \in Good
  <2>1. 1 \in 1 .. k /\ 1 - 1 = 0
    BY <1>3
  <2>2. f[1] = (<<>> \o <<>>) \o parts[1] /\ parts[1] \in Seq(T)
    BY <1>2, <1>4, <2>1 DEF RowOf, PartStep
  <2>3. <<>> \o <<>> = <<>>
    OBVIOUS
  <2>4. f[1] = parts[1]
    BY <2>2, <2>3, ConcatEmptySeq
  <2> QED
    BY <1>4, <2>1, <2>4
<1>6. ASSUME NEW n \in Good PROVE n + 1 \in Good
  <2> SUFFICES ASSUME (n + 1) + 1 <= k PROVE f[(n + 1) + 1] \in R
    OBVIOUS
  <2>1. n \in Nat /\ f[n + 1] \in R /\ (n + 1) + 1 \in 1 .. k /\ ((n + 1) + 1) - 1 = n + 1 /\ (n + 1) + 1 # 1
    BY <1>3
  <2>2. f[(n + 1) + 1] = (f[n + 1] \o sep) \o parts[(n + 1) + 1]
    BY <1>4, <2>1 DEF PartStep
  <2> QED
    BY <1>4, <2>1, <2>2
<1>7. Good = Nat
  <2> HIDE DEF Good
  <2>1. Good \in SUBSET Nat
    BY DEF Good
  <2> QED
    BY <1>5, <1>6, <2>1, SetInduction
<1>8. k - 1 \in Good /\ (k - 1) + 1 = k
  <2>1. k - 1 \in Nat /\ (k - 1) + 1 = k
    BY <1>3
  <2> HIDE DEF Good
  <2> QED
    BY <1>7, <2>1
<1>9. f[k] \in R
  BY <1>3, <1>8
<1> QED
  BY <1>2, <1>3, <1>9

\* The token at a place of a text, and its kind.
TokenOf(s, i) == IF i \in DOMAIN s THEN s[i] ELSE [kind |-> "EOF"]
KindIn(s, i)  == TokenOf(s, i).kind

\* Where the tokens of a text w in two parts are, the first one of length k.
Joined(w, u, v, k) ==
  /\ k \in Nat /\ k = Len(u) /\ Len(w) = k + Len(v)
  /\ \A i \in Nat \ {0} : i <= k => TokenOf(w, i) = TokenOf(u, i)
  /\ \A i \in Nat \ {0} : TokenOf(w, k + i) = TokenOf(v, i)

LEMMA JoinedAt ==
  ASSUME NEW u \in Seq(Written), NEW v \in Seq(Written), NEW w, w = Cat(u, v)
  PROVE  w \in Seq(Written) /\ Joined(w, u, v, Len(u))
<1>1. w \in Seq(Written)
  BY CatIs
<1>2. PICK l \in Nat : l = Len(v) /\ DOMAIN v = 1 .. l
  BY LenProperties
<1>3. PICK k \in Nat : k = Len(u) /\ DOMAIN u = 1 .. k
  BY LenProperties
<1>4. /\ Len(w) = k + l
      /\ \A i \in 1 .. (k + l) : w[i] = IF i <= k THEN u[i] ELSE v[i - k]
  BY <1>2, <1>3, ConcatProperties DEF Cat
<1>5. DOMAIN w = 1 .. (k + l)
  BY <1>1, <1>4, LenProperties
<1>6. ASSUME NEW i \in Nat \ {0}, i <= k PROVE TokenOf(w, i) = TokenOf(u, i)
  BY <1>2, <1>3, <1>4, <1>5, <1>6 DEF TokenOf
<1>7. ASSUME NEW i \in Nat \ {0} PROVE TokenOf(w, k + i) = TokenOf(v, i)
  <2>1. k + i \in 1 .. (k + l) <=> i \in 1 .. l
    BY <1>2, <1>3
  <2>2. i \in 1 .. l => w[k + i] = v[i]
    <3>1. ~(k + i <= k) /\ (k + i) - k = i
      BY <1>3
    <3> QED
      BY <1>4, <2>1, <3>1
  <2> QED
    BY <1>2, <1>5, <2>1, <2>2 DEF TokenOf
<1>8. k = Len(u) /\ Len(w) = k + Len(v)
  BY <1>2, <1>3, <1>4
<1> QED
  BY <1>1, <1>6, <1>7, <1>8 DEF Joined

\* Texts of one token and of two.
LEMMA KindOfSym ==
  ASSUME NEW k \in Keyword \cup Punctuation
  PROVE  Sym(k) \in Seq(Written) /\ Len(Sym(k)) = 1 /\ KindIn(Sym(k), 1) = k
<1>1. PICK t : t = [kind |-> k, text |-> k]
  OBVIOUS
<1>2. Len(<<t>>) = 1 /\ TokenOf(<<t>>, 1) = t
  BY DEF TokenOf
<1> QED
  BY <1>1, <1>2, SymType DEF Sym, KindIn

LEMMA KindOfIdent ==
  ASSUME NEW n \in Names
  PROVE  /\ Ident(n) \in Seq(Written) /\ Len(Ident(n)) = 1
         /\ TokenOf(Ident(n), 1) = [kind |-> "ident", text |-> n] /\ KindIn(Ident(n), 1) = "ident"
<1>1. PICK t : t = [kind |-> "ident", text |-> n]
  OBVIOUS
<1>2. Len(<<t>>) = 1 /\ TokenOf(<<t>>, 1) = t
  BY DEF TokenOf
<1> QED
  BY <1>1, <1>2, IdentType DEF Ident, KindIn

\* A list of n names: commas at the even places.
Comma == ","

ListForm(s, n) ==
  /\ n \in Nat \ {0} /\ Len(s) = 2 * n - 1
  /\ \A j \in 1 .. n : KindIn(s, 2 * j - 1) = "ident"
  /\ \A j \in 1 .. (n - 1) : KindIn(s, 2 * j) = Comma

LEMMA ListJoined ==
  ASSUME NEW u \in Seq(Written), NEW v \in Seq(Written), NEW n, NEW k, ListForm(u, n), ListForm(v, k)
  PROVE  ListForm(Cat(Cat(u, Sym(Comma)), v), n + k)
<1>0. n \in Nat \ {0} /\ k \in Nat \ {0} /\ 2 * n - 1 = Len(u) /\ Len(v) = 2 * k - 1
  BY DEF ListForm
<1>1. PICK gap \in Seq(Written) : gap = Sym(Comma) /\ Len(gap) = 1 /\ KindIn(gap, 1) = Comma
  <2>1. Comma \in Keyword \cup Punctuation
    BY Zenon DEF Punctuation, Comma
  <2> QED
    BY <2>1, KindOfSym
<1>2. PICK x \in Seq(Written) : x = Cat(u, gap) /\ Joined(x, u, gap, Len(u))
  BY <1>1, JoinedAt
<1>3. PICK y \in Seq(Written) : y = Cat(x, v) /\ Joined(y, x, v, Len(x))
  BY JoinedAt
<1>4. PICK l : l = 2 * n
  OBVIOUS
<1>5. /\ Len(y) = l + (2 * k - 1)
      /\ \A i \in Nat \ {0} : i <= 2 * n - 1 => KindIn(y, i) = KindIn(u, i)
      /\ KindIn(y, l) = Comma
      /\ \A i \in Nat \ {0} : KindIn(y, l + i) = KindIn(v, i)
  <2>1. Len(x) = l /\ l \in Nat \ {0}
    <3>1. Len(x) = Len(u) + Len(gap)
      BY <1>2 DEF Joined
    <3> QED
      BY <1>0, <1>1, <1>4, <3>1
  <2>2. KindIn(x, l) = Comma
    <3>1. PICK m : m = Len(u)
      OBVIOUS
    <3>2. TokenOf(x, m + 1) = TokenOf(gap, 1)
      BY <1>2, <3>1 DEF Joined
    <3>3. m + 1 = l
      BY <1>0, <1>4, <3>1
    <3> QED
      BY <1>1, <3>2, <3>3 DEF KindIn
  <2>3. ASSUME NEW i \in Nat \ {0}, i <= 2 * n - 1 PROVE KindIn(y, i) = KindIn(u, i)
    <3>1. TokenOf(x, i) = TokenOf(u, i)
      BY <1>0, <1>2, <2>3 DEF Joined
    <3>2. i <= l
      BY <1>0, <1>4, <2>3
    <3>3. TokenOf(y, i) = TokenOf(x, i)
      BY <1>3, <2>1, <3>2 DEF Joined
    <3> QED
      BY <3>1, <3>3 DEF KindIn
  <2>4. TokenOf(y, l) = TokenOf(x, l)
    BY <1>3, <2>1 DEF Joined
  <2>5. \A i \in Nat \ {0} : TokenOf(y, l + i) = TokenOf(v, i)
    BY <1>3, <2>1 DEF Joined
  <2>6. Len(y) = l + Len(v)
    BY <1>3, <2>1 DEF Joined
  <2> QED
    BY <1>0, <2>2, <2>3, <2>4, <2>5, <2>6 DEF KindIn
<1>6. PICK m : m = n + k
  OBVIOUS
<1>9. m \in Nat \ {0} /\ Len(y) = 2 * m - 1
  <2>1. Len(y) = l + (2 * k - 1)
    BY <1>5
  <2> QED
    BY <1>0, <1>4, <1>6, <2>1
<1>7. ASSUME NEW j \in 1 .. m PROVE KindIn(y, 2 * j - 1) = "ident"
  <2>1. CASE j <= n
    <3>1. j \in 1 .. n /\ 2 * j - 1 \in Nat \ {0} /\ 2 * j - 1 <= 2 * n - 1
      BY <1>0, <1>6, <1>9, <1>4, <2>1
    <3> QED
      BY <1>5, <3>1 DEF ListForm
  <2>2. CASE ~(j <= n)
    <3>1. j - n \in 1 .. k /\ 2 * (j - n) - 1 \in Nat \ {0} /\ 2 * j - 1 = l + (2 * (j - n) - 1)
      BY <1>0, <1>6, <1>9, <1>4, <2>2
    <3> QED
      BY <1>5, <3>1 DEF ListForm
  <2> QED
    BY <2>1, <2>2
<1>8. ASSUME NEW j \in 1 .. (m - 1) PROVE KindIn(y, 2 * j) = Comma
  <2>0. j < n \/ j = n \/ j > n
    <3>1. j \in Int /\ n \in Int
      BY <1>0, <1>6, <1>9
    <3> QED
      BY <3>1
  <2>1. CASE j < n
    <3>1. j \in 1 .. (n - 1) /\ 2 * j \in Nat \ {0} /\ 2 * j <= 2 * n - 1
      BY <1>0, <1>6, <1>9, <1>4, <2>1
    <3> QED
      BY <1>5, <3>1 DEF ListForm
  <2>2. CASE j = n
    <3>1. 2 * j = l
      BY <1>4, <2>2
    <3> QED
      BY <1>5, <3>1
  <2>3. CASE j > n
    <3>1. j - n \in 1 .. (k - 1) /\ 2 * (j - n) \in Nat \ {0} /\ 2 * j = l + 2 * (j - n)
      BY <1>0, <1>6, <1>9, <1>4, <2>3
    <3> QED
      BY <1>5, <3>1 DEF ListForm
  <2> QED
    BY <2>0, <2>1, <2>2, <2>3
<1>10. ListForm(y, m)
  BY <1>7, <1>8, <1>9, Zenon DEF ListForm
<1> QED
  BY <1>1, <1>2, <1>3, <1>6, <1>10

LEMMA ListedForm ==
  ASSUME NEW names \in Seq(Names), names # <<>>
  PROVE  Listed(names) \in Seq(Written) /\ \E n : ListForm(Listed(names), n)
<1> DEFINE R == { s \in Seq(Written) : \E n : ListForm(s, n) }
<1>1. PICK gap \in Seq(Written) : gap = Sym(Comma)
  <2>1. Comma \in Keyword \cup Punctuation
    BY Zenon DEF Punctuation, Comma
  <2> QED
    BY <2>1, SymType
<1>2. ASSUME NEW u \in R, NEW v \in R PROVE (u \o gap) \o v \in R
  <2>1. PICK n, k : ListForm(u, n) /\ ListForm(v, k)
    OBVIOUS
  <2>2. ListForm(Cat(Cat(u, gap), v), n + k) /\ Cat(Cat(u, gap), v) \in Seq(Written)
    BY <1>1, <2>1, ListJoined, CatIs
  <2> QED
    BY <2>2 DEF Cat
<1>3. ASSUME NEW x \in Names PROVE Ident(x) \in R
  <2>1. Ident(x) \in Seq(Written) /\ Len(Ident(x)) = 1 /\ KindIn(Ident(x), 1) = "ident"
    BY KindOfIdent
  <2>2. ListForm(Ident(x), 1)
    BY <2>1 DEF ListForm
  <2> QED
    BY <2>1, <2>2
<1>4. PICK S : S = R
  OBVIOUS
<1> HIDE DEF R
<1>5. IdentText \in [Names -> S]
  BY <1>3, <1>4 DEF IdentText
<1>6. Mapped(IdentText, names) \in Seq(S) /\ Mapped(IdentText, names) # <<>>
  BY <1>5, MappedType
<1>7. S \in SUBSET Seq(Written) /\ \A u, v \in S : (u \o gap) \o v \in S
  BY <1>2, <1>4 DEF R
<1>8. Between(gap, Mapped(IdentText, names)) \in S
  BY <1>6, <1>7, BetweenStays
<1>9. Listed(names) = Between(Sym(Comma), Mapped(IdentText, names))
  BY ListedIs, Zenon DEF Comma
<1> QED
  BY <1>1, <1>4, <1>8, <1>9 DEF R

\* A comparison from place i on, and m comparisons with an AND or OR between
\* each and the next.
ConditionAt(s, i) ==
  /\ KindIn(s, i) = "ident" /\ KindIn(s, i + 1) = "op"
  /\ KindIn(s, i + 2) \in ColumnType /\ TokenOf(s, i + 2).text # OutOfRange

ConditionForm(s, m) ==
  /\ m \in Nat \ {0} /\ Len(s) = 4 * m - 1
  /\ \A j \in 1 .. m : ConditionAt(s, 4 * j - 3)
  /\ \A j \in 1 .. (m - 1) : KindIn(s, 4 * j) \in {"AND", "OR"}

LEMMA ConditionMoved ==
  ASSUME NEW s, NEW t, NEW i \in Nat, NEW k \in Nat,
         TokenOf(t, k) = TokenOf(s, i), TokenOf(t, k + 1) = TokenOf(s, i + 1),
         TokenOf(t, k + 2) = TokenOf(s, i + 2), ConditionAt(s, i)
  PROVE  ConditionAt(t, k)
BY DEF ConditionAt, KindIn

LEMMA ConditionJoined ==
  ASSUME NEW u \in Seq(Written), NEW v \in Seq(Written), NEW n, NEW k,
         ConditionForm(u, n), ConditionForm(v, k), NEW op \in {"AND", "OR"}
  PROVE  ConditionForm(Cat(Cat(u, Sym(op)), v), n + k)
<1>0. n \in Nat \ {0} /\ k \in Nat \ {0} /\ 4 * n - 1 = Len(u) /\ Len(v) = 4 * k - 1
  BY DEF ConditionForm
<1>1. PICK gap \in Seq(Written) : gap = Sym(op) /\ Len(gap) = 1 /\ KindIn(gap, 1) = op
  <2>1. op \in Keyword \cup Punctuation
    BY DEF Keyword
  <2> QED
    BY <2>1, KindOfSym
<1>2. PICK x \in Seq(Written) : x = Cat(u, gap) /\ Joined(x, u, gap, Len(u))
  BY <1>1, JoinedAt
<1>3. PICK y \in Seq(Written) : y = Cat(x, v) /\ Joined(y, x, v, Len(x))
  BY JoinedAt
<1>4. PICK l : l = 4 * n
  OBVIOUS
<1>5. /\ Len(y) = l + (4 * k - 1)
      /\ \A i \in Nat \ {0} : i <= 4 * n - 1 => TokenOf(y, i) = TokenOf(u, i)
      /\ KindIn(y, l) = op
      /\ \A i \in Nat \ {0} : TokenOf(y, l + i) = TokenOf(v, i)
  <2>1. Len(x) = l /\ l \in Nat \ {0}
    <3>1. Len(x) = Len(u) + Len(gap)
      BY <1>2 DEF Joined
    <3> QED
      BY <1>0, <1>1, <1>4, <3>1
  <2>2. KindIn(x, l) = op
    <3>1. PICK m : m = Len(u)
      OBVIOUS
    <3>2. TokenOf(x, m + 1) = TokenOf(gap, 1)
      BY <1>2, <3>1 DEF Joined
    <3>3. m + 1 = l
      BY <1>0, <1>4, <3>1
    <3> QED
      BY <1>1, <3>2, <3>3 DEF KindIn
  <2>3. ASSUME NEW i \in Nat \ {0}, i <= 4 * n - 1 PROVE TokenOf(y, i) = TokenOf(u, i)
    <3>1. TokenOf(x, i) = TokenOf(u, i)
      BY <1>0, <1>2, <2>3 DEF Joined
    <3>2. i <= l
      BY <1>0, <1>4, <2>3
    <3>3. TokenOf(y, i) = TokenOf(x, i)
      BY <1>3, <2>1, <3>2 DEF Joined
    <3> QED
      BY <3>1, <3>3
  <2>4. TokenOf(y, l) = TokenOf(x, l)
    BY <1>3, <2>1 DEF Joined
  <2>5. \A i \in Nat \ {0} : TokenOf(y, l + i) = TokenOf(v, i)
    BY <1>3, <2>1 DEF Joined
  <2>6. Len(y) = l + Len(v)
    BY <1>3, <2>1 DEF Joined
  <2> QED
    BY <1>0, <2>2, <2>3, <2>4, <2>5, <2>6 DEF KindIn
<1>6. PICK m : m = n + k
  OBVIOUS
<1>7. m \in Nat \ {0} /\ Len(y) = 4 * m - 1
  <2>1. Len(y) = l + (4 * k - 1)
    BY <1>5
  <2> QED
    BY <1>0, <1>4, <1>6, <2>1
<1>8. ASSUME NEW j \in 1 .. m PROVE ConditionAt(y, 4 * j - 3)
  <2>1. CASE j <= n
    <3>1. PICK i \in Nat \ {0} : /\ i = 4 * j - 3 /\ i <= 4 * n - 1 /\ i + 1 <= 4 * n - 1
                                 /\ i + 2 <= 4 * n - 1 /\ i + 1 \in Nat \ {0} /\ i + 2 \in Nat \ {0}
      BY <1>0, <1>6, <1>7, <2>1
    <3>2. ConditionAt(u, i)
      <4>1. j \in 1 .. n
        BY <1>0, <1>6, <1>7, <2>1
      <4> QED
        BY <3>1, <4>1 DEF ConditionForm
    <3>3. /\ TokenOf(y, i) = TokenOf(u, i) /\ TokenOf(y, i + 1) = TokenOf(u, i + 1)
          /\ TokenOf(y, i + 2) = TokenOf(u, i + 2)
      BY <1>5, <3>1
    <3> QED
      BY <3>1, <3>2, <3>3, ConditionMoved
  <2>2. CASE ~(j <= n)
    <3>1. PICK h : h = j - n
      OBVIOUS
    <3>2. h \in 1 .. k
      BY <1>0, <1>6, <1>7, <2>2, <3>1
    <3>3. PICK i \in Nat \ {0} : i = 4 * h - 3 /\ i + 1 \in Nat \ {0} /\ i + 2 \in Nat \ {0}
      BY <1>0, <3>2
    <3>4. PICK g \in Nat : g = l + i /\ l + (i + 1) = g + 1 /\ l + (i + 2) = g + 2
      <4>1. l \in Nat /\ i \in Nat
        BY <1>0, <1>4, <3>3
      <4> QED
        BY <4>1
    <3>5. ConditionAt(v, i)
      BY <3>2, <3>3 DEF ConditionForm
    <3>6. /\ TokenOf(y, g) = TokenOf(v, i) /\ TokenOf(y, g + 1) = TokenOf(v, i + 1)
          /\ TokenOf(y, g + 2) = TokenOf(v, i + 2)
      BY <1>5, <3>3, <3>4
    <3>7. g = 4 * j - 3
      BY <1>0, <1>4, <1>7, <3>1, <3>3, <3>4
    <3>8. ConditionAt(y, g)
      BY <3>3, <3>5, <3>6, ConditionMoved
    <3> QED
      BY <3>7, <3>8
  <2> QED
    BY <2>1, <2>2
<1>9. ASSUME NEW j \in 1 .. (m - 1) PROVE KindIn(y, 4 * j) \in {"AND", "OR"}
  <2>0. j < n \/ j = n \/ j > n
    <3>1. j \in Int /\ n \in Int
      BY <1>0, <1>7
    <3> QED
      BY <3>1
  <2>1. CASE j < n
    <3>1. j \in 1 .. (n - 1) /\ 4 * j \in Nat \ {0} /\ 4 * j <= 4 * n - 1
      BY <1>0, <1>6, <1>7, <2>1
    <3>2. KindIn(y, 4 * j) = KindIn(u, 4 * j)
      BY <1>5, <3>1 DEF KindIn
    <3> QED
      BY <3>1, <3>2 DEF ConditionForm
  <2>2. CASE j = n
    <3>1. 4 * j = l
      BY <1>4, <2>2
    <3> QED
      BY <1>5, <3>1
  <2>3. CASE j > n
    <3>1. PICK h : h = j - n
      OBVIOUS
    <3>2. h \in 1 .. (k - 1) /\ 4 * h \in Nat \ {0} /\ 4 * j = l + 4 * h
      BY <1>0, <1>4, <1>6, <1>7, <2>3, <3>1
    <3>3. KindIn(y, 4 * j) = KindIn(v, 4 * h)
      BY <1>5, <3>2 DEF KindIn
    <3> QED
      BY <3>2, <3>3 DEF ConditionForm
  <2> QED
    BY <2>0, <2>1, <2>2, <2>3
<1>10. ConditionForm(y, m)
  BY <1>7, <1>8, <1>9, Zenon DEF ConditionForm
<1> QED
  BY <1>1, <1>2, <1>3, <1>6, <1>10

\* The texts that are conditions.
ConditionTexts == { s \in Seq(Written) : \E m : ConditionForm(s, m) }

LEMMA ConditionsJoin ==
  ASSUME NEW op \in {"AND", "OR"}, NEW u \in ConditionTexts, NEW v \in ConditionTexts
  PROVE  (u \o Sym(op)) \o v \in ConditionTexts
<1>1. PICK n, k : ConditionForm(u, n) /\ ConditionForm(v, k)
  BY DEF ConditionTexts
<1>2. u \in Seq(Written) /\ v \in Seq(Written) /\ Sym(op) \in Seq(Written)
  BY SymType DEF ConditionTexts, Keyword
<1>3. ConditionForm(Cat(Cat(u, Sym(op)), v), n + k) /\ Cat(Cat(u, Sym(op)), v) \in Seq(Written)
  BY <1>1, <1>2, ConditionJoined, CatIs
<1> QED
  BY <1>3 DEF Cat, ConditionTexts

LEMMA ComparisonForm ==
  ASSUME NEW e \in Comparison
  PROVE  ComparisonTokens(e) \in ConditionTexts
<1>1. PICK a, b, gap : /\ a = [kind |-> "ident", text |-> e.col] /\ b = [kind |-> "op", text |-> e.op]
                     /\ gap = [kind |-> e.lit.type, text |-> e.lit.bits]
  OBVIOUS
<1>2. PICK s \in Seq(Written) : s = <<a, b, gap>> /\ s = ComparisonTokens(e)
  BY <1>1, ComparisonTokensAre
<1>3. Len(s) = 3 /\ TokenOf(s, 1) = a /\ TokenOf(s, 2) = b /\ TokenOf(s, 3) = gap
  BY <1>2 DEF TokenOf
<1>4. a.kind = "ident" /\ b.kind = "op" /\ gap.kind \in ColumnType /\ gap.text # OutOfRange
  <2>1. e.lit \in Literal
    BY DEF Comparison
  <2> QED
    BY <1>1, <2>1, InputAssumption DEF Literal
<1>5. ConditionAt(s, 1)
  BY <1>3, <1>4 DEF ConditionAt, KindIn
<1>6. ConditionForm(s, 1)
  BY <1>3, <1>5 DEF ConditionForm
<1> QED
  BY <1>2, <1>6 DEF ConditionTexts

LEMMA TermsForm ==
  ASSUME NEW terms \in Seq(Comparison), terms # <<>>
  PROVE  TermTokens(terms) \in ConditionTexts
<1>1. PICK S \in SUBSET Seq(Written) : S = ConditionTexts
  BY DEF ConditionTexts
<1>2. CompText \in [Comparison -> S]
  BY <1>1, ComparisonForm DEF CompText
<1>3. Mapped(CompText, terms) \in Seq(S) /\ Mapped(CompText, terms) # <<>>
  BY <1>2, MappedType
<1>4. PICK gap \in Seq(Written) : gap = Sym("AND")
  BY SymType DEF Keyword
<1>5. \A u, v \in S : (u \o gap) \o v \in S
  BY <1>1, <1>4, ConditionsJoin
<1>6. Between(gap, Mapped(CompText, terms)) \in S
  BY <1>3, <1>5, BetweenStays
<1> QED
  BY <1>1, <1>4, <1>6, TermTokensAre

LEMMA ConditionsForm ==
  ASSUME NEW x, QueryOK(x), Filtered(x)
  PROVE  ConditionTokens(x.where) \in ConditionTexts
<1>1. PICK D : D = Disjuncts(x.where)
  OBVIOUS
<1>2. D \in Seq(Comparison \cup [kind : {"and"}, kids : Seq(Comparison)]) /\ D # <<>>
  BY <1>1 DEF QueryOK
<1>3. PICK n \in Nat : n = Len(D) /\ DOMAIN D = 1 .. n
  BY <1>2, LenProperties
<1>4. PICK S \in SUBSET Seq(Written) : S = ConditionTexts
  BY DEF ConditionTexts
<1> DEFINE part(i) == TermTokens(Conjuncts(D[i]))
<1>5. ASSUME NEW i \in 1 .. n PROVE part(i) \in S
  <2>1. Terms(x, i) \in Seq(Comparison) /\ Terms(x, i) # <<>>
    BY <1>1, <1>3, TermsType DEF QueryOK
  <2>2. TermTokens(Terms(x, i)) \in S
    BY <1>4, <2>1, TermsForm
  <2> QED
    BY <1>1, <2>2 DEF Terms
<1> HIDE DEF part
<1>6. PICK parts : parts = [i \in 1 .. n |-> part(i)]
  OBVIOUS
<1>7. parts \in [1 .. n -> S]
  BY <1>5, <1>6
<1>8. parts \in Seq(S)
  BY <1>7, FunctionIsSeq
<1>9. parts # <<>>
  <2>1. n # 0
    BY <1>2, <1>3, EmptySeq
  <2>2. DOMAIN parts = 1 .. n /\ 1 \in 1 .. n
    BY <1>6, <2>1
  <2> QED
    BY <2>2, EmptySeq
<1>10. PICK gap \in Seq(Written) : gap = Sym("OR")
  BY SymType DEF Keyword
<1>11. \A u, v \in S : (u \o gap) \o v \in S
  BY <1>4, <1>10, ConditionsJoin
<1>12. Between(gap, parts) \in S
  BY <1>8, <1>9, <1>11, BetweenStays
<1>13. ConditionTokens(x.where) = Between(Sym("OR"), parts)
  <2>1. parts = [i \in DOMAIN D |-> TermTokens(Conjuncts(D[i]))]
    BY <1>3, <1>6 DEF part
  <2> QED
    BY <1>1, <2>1 DEF ConditionTokens
<1> QED
  BY <1>4, <1>10, <1>12, <1>13

\* COUNT(*) and SUM(column) from place i on.
CountAt(s, i) ==
  /\ KindIn(s, i) = "COUNT" /\ KindIn(s, i + 1) = "("
  /\ KindIn(s, i + 2) = "*" /\ KindIn(s, i + 3) = ")"
SumAt(s, i) ==
  /\ KindIn(s, i) = "SUM" /\ KindIn(s, i + 1) = "("
  /\ KindIn(s, i + 2) = "ident" /\ KindIn(s, i + 3) = ")"

\* A text made of the tokens a, b, z and y.
LEMMA FourTokens ==
  ASSUME NEW a \in Written, NEW b \in Written, NEW z \in Written, NEW y \in Written
  PROVE  /\ <<a, b, z, y>> \in Seq(Written)
         /\ Cat(Cat(Cat(<<a>>, <<b>>), <<z>>), <<y>>) = <<a, b, z, y>>
<1>1. <<a>> \o <<b>> = <<a, b>>
  BY AppendOne
<1>2. <<a, b>> \o <<z>> = <<a, b, z>>
  BY AppendTwo
<1>3. <<a, b, z>> \o <<y>> = <<a, b, z, y>> /\ <<a, b, z, y>> \in Seq(Written)
  BY AppendThree
<1> QED
  BY <1>1, <1>2, <1>3 DEF Cat

LEMMA CountForm ==
  CountTokens \in Seq(Written) /\ Len(CountTokens) = 4 /\ CountAt(CountTokens, 1)
<1>1. PICK a \in Written : a = [kind |-> "COUNT", text |-> "COUNT"]
  BY DEF Written, Token, Keyword
<1>2. PICK b \in Written : b = [kind |-> "(", text |-> "("]
  BY DEF Written, Token, Punctuation
<1>3. PICK z \in Written : z = [kind |-> "*", text |-> "*"]
  BY DEF Written, Token, Punctuation
<1>4. PICK y \in Written : y = [kind |-> ")", text |-> ")"]
  BY DEF Written, Token, Punctuation
<1>5. PICK s \in Seq(Written) : s = <<a, b, z, y>> /\ s = CountTokens
  <2>1. CountTokens = Cat(Cat(Cat(<<a>>, <<b>>), <<z>>), <<y>>)
    BY <1>1, <1>2, <1>3, <1>4 DEF CountTokens, Cat, Sym
  <2>2. /\ <<a, b, z, y>> \in Seq(Written)
        /\ Cat(Cat(Cat(<<a>>, <<b>>), <<z>>), <<y>>) = <<a, b, z, y>>
    BY FourTokens
  <2> QED
    BY <2>1, <2>2, Zenon
<1>6. Len(s) = 4 /\ TokenOf(s, 1) = a /\ TokenOf(s, 2) = b /\ TokenOf(s, 3) = z /\ TokenOf(s, 4) = y
  BY <1>5 DEF TokenOf
<1>7. KindIn(s, 1) = "COUNT" /\ KindIn(s, 2) = "(" /\ KindIn(s, 3) = "*" /\ KindIn(s, 4) = ")"
  BY <1>1, <1>2, <1>3, <1>4, <1>6 DEF KindIn
<1>8. CountAt(s, 1)
  <2>1. 1 + 1 = 2 /\ 1 + 2 = 3 /\ 1 + 3 = 4
    OBVIOUS
  <2> QED
    BY <1>7, <2>1 DEF CountAt
<1> QED
  BY <1>5, <1>6, <1>8

LEMMA SumForm ==
  ASSUME NEW x, x.sumCol \in Names
  PROVE  SumTokens(x) \in Seq(Written) /\ Len(SumTokens(x)) = 4 /\ SumAt(SumTokens(x), 1)
<1>1. PICK a \in Written : a = [kind |-> "SUM", text |-> "SUM"]
  BY DEF Written, Token, Keyword
<1>2. PICK b \in Written : b = [kind |-> "(", text |-> "("]
  BY DEF Written, Token, Punctuation
<1>3. PICK z \in Written : z = [kind |-> "ident", text |-> x.sumCol]
  BY IdentType
<1>4. PICK y \in Written : y = [kind |-> ")", text |-> ")"]
  BY DEF Written, Token, Punctuation
<1>5. PICK s \in Seq(Written) : s = <<a, b, z, y>> /\ s = SumTokens(x)
  <2>1. SumTokens(x) = Cat(Cat(Cat(<<a>>, <<b>>), <<z>>), <<y>>)
    BY <1>1, <1>2, <1>3, <1>4 DEF SumTokens, Cat, Sym, Ident
  <2>2. /\ <<a, b, z, y>> \in Seq(Written)
        /\ Cat(Cat(Cat(<<a>>, <<b>>), <<z>>), <<y>>) = <<a, b, z, y>>
    BY FourTokens
  <2> QED
    BY <2>1, <2>2, Zenon
<1>6. Len(s) = 4 /\ TokenOf(s, 1) = a /\ TokenOf(s, 2) = b /\ TokenOf(s, 3) = z /\ TokenOf(s, 4) = y
  BY <1>5 DEF TokenOf
<1>7. KindIn(s, 1) = "SUM" /\ KindIn(s, 2) = "(" /\ KindIn(s, 3) = "ident" /\ KindIn(s, 4) = ")"
  BY <1>1, <1>2, <1>3, <1>4, <1>6 DEF KindIn
<1>8. SumAt(s, 1)
  <2>1. 1 + 1 = 2 /\ 1 + 2 = 3 /\ 1 + 3 = 4
    OBVIOUS
  <2> QED
    BY <1>7, <2>1 DEF SumAt
<1> QED
  BY <1>5, <1>6, <1>8

LEMMA AggregateMoved ==
  ASSUME NEW s, NEW t, NEW i \in Nat, NEW k \in Nat,
         TokenOf(t, k) = TokenOf(s, i), TokenOf(t, k + 1) = TokenOf(s, i + 1),
         TokenOf(t, k + 2) = TokenOf(s, i + 2), TokenOf(t, k + 3) = TokenOf(s, i + 3)
  PROVE  (CountAt(s, i) => CountAt(t, k)) /\ (SumAt(s, i) => SumAt(t, k))
BY DEF CountAt, SumAt, KindIn

\* The text of a projection, of n columns where it is a list of columns.
ProjectionText(s, q, n) ==
  /\ n \in Nat \ {0}
  /\ q.proj = "star"    => Len(s) = 1 /\ KindIn(s, 1) = "*"
  /\ q.proj = "count"   => Len(s) = 4 /\ CountAt(s, 1)
  /\ q.proj = "sum"     => Len(s) = 4 /\ SumAt(s, 1)
  /\ q.proj = "columns" => ListForm(s, n)
  /\ q.proj = "grouped" =>
       /\ Len(s) = 6 /\ TokenOf(s, 1) = [kind |-> "ident", text |-> q.groupBy]
       /\ KindIn(s, 2) = Comma /\ (CountAt(s, 3) \/ SumAt(s, 3))

LEMMA ProjectionTextIs ==
  ASSUME NEW q, QueryOK(q), q.proj = "columns" => q.cols # <<>>
  PROVE  ProjectionTokens(q) \in Seq(Written) /\ \E n : ProjectionText(ProjectionTokens(q), q, n)
<1>1. q.proj \in ProjectionKind /\ q.cols \in Seq(Names) /\ q.sumCol \in Names /\ q.groupBy \in Names
  BY DEF QueryOK
<1>2. CASE q.proj = "star"
  <2>1. ProjectionTokens(q) = Sym("*")
    BY <1>2 DEF ProjectionTokens
  <2>2. Sym("*") \in Seq(Written) /\ Len(Sym("*")) = 1 /\ KindIn(Sym("*"), 1) = "*"
    BY KindOfSym DEF Punctuation
  <2>3. ProjectionText(Sym("*"), q, 1)
    BY <1>2, <2>2 DEF ProjectionText
  <2> QED
    BY <2>1, <2>2, <2>3
<1>3. CASE q.proj = "count"
  <2>1. ProjectionTokens(q) = CountTokens
    BY <1>3 DEF ProjectionTokens
  <2>2. ProjectionText(CountTokens, q, 1)
    BY <1>3, CountForm DEF ProjectionText
  <2> QED
    BY <2>1, <2>2, CountForm
<1>4. CASE q.proj = "sum"
  <2>1. ProjectionTokens(q) = SumTokens(q)
    BY <1>4 DEF ProjectionTokens
  <2>2. ProjectionText(SumTokens(q), q, 1)
    BY <1>1, <1>4, SumForm DEF ProjectionText
  <2> QED
    BY <1>1, <2>1, <2>2, SumForm
<1>5. CASE q.proj = "columns"
  <2>1. ProjectionTokens(q) = Listed(q.cols)
    BY <1>5 DEF ProjectionTokens
  <2>2. PICK names \in Seq(Names) : names = q.cols /\ names # <<>>
    BY <1>1, <1>5
  <2>3. Listed(names) \in Seq(Written) /\ \E n : ListForm(Listed(names), n)
    BY <2>2, ListedForm
  <2>4. PICK n : ListForm(Listed(names), n)
    BY <2>3
  <2>5. n \in Nat \ {0}
    BY <2>4 DEF ListForm
  <2>6. ProjectionText(Listed(names), q, n)
    BY <1>5, <2>4, <2>5 DEF ProjectionText
  <2> QED
    BY <2>1, <2>2, <2>3, <2>6
<1>6. CASE q.proj = "grouped"
  <2>1. PICK agg \in Seq(Written) : /\ agg = AggregateText(q) /\ Len(agg) = 4
                                    /\ CountAt(agg, 1) \/ SumAt(agg, 1)
    <3>1. CASE q.agg = "sum"
      BY <1>1, <3>1, SumForm DEF AggregateText
    <3>2. CASE q.agg # "sum"
      BY <3>2, CountForm DEF AggregateText
    <3> QED
      BY <3>1, <3>2
  <2>2. PICK u \in Seq(Written) : /\ u = Ident(q.groupBy) /\ Len(u) = 1
                                  /\ TokenOf(u, 1) = [kind |-> "ident", text |-> q.groupBy]
    BY <1>1, KindOfIdent
  <2>3. PICK gap \in Seq(Written) : gap = Sym(Comma) /\ Len(gap) = 1 /\ KindIn(gap, 1) = Comma
    <3>1. Comma \in Keyword \cup Punctuation
      BY Zenon DEF Punctuation, Comma
    <3> QED
      BY <3>1, KindOfSym
  <2>4. PICK x \in Seq(Written) : x = Cat(u, gap) /\ Joined(x, u, gap, 1)
    <3>1. PICK l : l = Len(u)
      OBVIOUS
    <3>2. PICK x \in Seq(Written) : x = Cat(u, gap) /\ Joined(x, u, gap, Len(u))
      BY JoinedAt
    <3> QED
      BY <2>2, <3>2
  <2>5. /\ Len(x) = 2 /\ TokenOf(x, 1) = [kind |-> "ident", text |-> q.groupBy]
        /\ KindIn(x, 2) = Comma
    <3>1. Len(x) = 1 + Len(gap) /\ TokenOf(x, 1) = TokenOf(u, 1) /\ TokenOf(x, 1 + 1) = TokenOf(gap, 1)
      BY <2>4 DEF Joined
    <3>2. 1 + 1 = 2
      OBVIOUS
    <3> QED
      BY <2>2, <2>3, <3>1, <3>2 DEF KindIn
  <2>6. PICK y \in Seq(Written) : y = Cat(x, agg) /\ Joined(y, x, agg, 2)
    <3>1. PICK y \in Seq(Written) : y = Cat(x, agg) /\ Joined(y, x, agg, Len(x))
      BY JoinedAt
    <3> QED
      BY <2>5, <3>1
  <2>7. /\ Len(y) = 2 + Len(agg) /\ TokenOf(y, 1) = TokenOf(x, 1) /\ TokenOf(y, 2) = TokenOf(x, 2)
        /\ TokenOf(y, 2 + 1) = TokenOf(agg, 1) /\ TokenOf(y, 2 + 2) = TokenOf(agg, 2)
        /\ TokenOf(y, 2 + 3) = TokenOf(agg, 3) /\ TokenOf(y, 2 + 4) = TokenOf(agg, 4)
    <3>1. \A i \in Nat \ {0} : i <= 2 => TokenOf(y, i) = TokenOf(x, i)
      BY <2>6 DEF Joined
    <3>2. \A i \in Nat \ {0} : TokenOf(y, 2 + i) = TokenOf(agg, i)
      BY <2>6 DEF Joined
    <3>3. Len(y) = 2 + Len(agg)
      BY <2>6 DEF Joined
    <3>4. /\ 1 \in Nat \ {0} /\ 2 \in Nat \ {0} /\ 3 \in Nat \ {0} /\ 4 \in Nat \ {0}
          /\ 1 <= 2 /\ 2 <= 2
      OBVIOUS
    <3> QED
      BY <3>1, <3>2, <3>3, <3>4, Zenon
  <2>8. CountAt(y, 3) \/ SumAt(y, 3)
    <3>1. /\ 2 + 1 = 3 /\ 2 + 2 = 3 + 1 /\ 2 + 3 = 3 + 2 /\ 2 + 4 = 3 + 3
          /\ 2 = 1 + 1 /\ 3 = 1 + 2 /\ 4 = 1 + 3
      OBVIOUS
    <3>2. /\ TokenOf(y, 3) = TokenOf(agg, 1) /\ TokenOf(y, 3 + 1) = TokenOf(agg, 1 + 1)
          /\ TokenOf(y, 3 + 2) = TokenOf(agg, 1 + 2) /\ TokenOf(y, 3 + 3) = TokenOf(agg, 1 + 3)
      BY <2>7, <3>1
    <3> QED
      BY <2>1, <3>2, AggregateMoved
  <2>9. Len(y) = 6
    <3>1. Len(y) = 2 + Len(agg)
      BY <2>7
    <3> QED
      BY <2>1, <3>1
  <2>10. ProjectionText(y, q, 1)
    <3>1. TokenOf(y, 1) = [kind |-> "ident", text |-> q.groupBy]
      BY <2>5, <2>7
    <3>2. KindIn(y, 2) = Comma
      BY <2>5, <2>7 DEF KindIn
    <3> QED
      BY <1>6, <2>8, <2>9, <3>1, <3>2 DEF ProjectionText
  <2>11. ProjectionTokens(q) = y
    <3>1. ProjectionTokens(q) = Cat(Cat(Ident(q.groupBy), Sym(Comma)), AggregateText(q))
      BY <1>6 DEF ProjectionTokens, AggregateText, Cat, Comma
    <3> QED
      BY <2>1, <2>2, <2>3, <2>4, <2>6, <3>1, Zenon
  <2> QED
    BY <2>10, <2>11
<1> QED
  BY <1>1, <1>2, <1>3, <1>4, <1>5, <1>6 DEF ProjectionKind

\* The text of a WHERE with m conditions, empty where m is 0.
WhereText(s, m) ==
  /\ m \in Nat /\ Len(s) = 4 * m
  /\ m # 0 =>
       /\ KindIn(s, 1) = "WHERE"
       /\ \A j \in 1 .. m : ConditionAt(s, 4 * j - 2)
       /\ \A j \in 1 .. (m - 1) : KindIn(s, 4 * j + 1) \in {"AND", "OR"}

LEMMA WhereTextIs ==
  ASSUME NEW q, QueryOK(q)
  PROVE  WhereOf(q) \in Seq(Written) /\ \E m : WhereText(WhereOf(q), m)
<1>1. CASE ~Filtered(q)
  <2>1. WhereOf(q) = <<>> /\ <<>> \in Seq(Written) /\ Len(<<>>) = 0
    BY <1>1 DEF WhereOf
  <2>2. WhereText(<<>>, 0)
    BY <2>1 DEF WhereText
  <2> QED
    BY <2>1, <2>2
<1>2. CASE Filtered(q)
  <2>0. PICK s \in ConditionTexts : s = ConditionTokens(q.where)
    BY <1>2, ConditionsForm
  <2>1. PICK m : ConditionForm(s, m) /\ s \in Seq(Written)
    BY DEF ConditionTexts
  <2>2. PICK u \in Seq(Written) : u = Sym("WHERE") /\ Len(u) = 1 /\ KindIn(u, 1) = "WHERE"
    BY KindOfSym DEF Keyword
  <2>3. PICK y \in Seq(Written) : y = Cat(u, s) /\ Joined(y, u, s, 1)
    <3>1. PICK y \in Seq(Written) : y = Cat(u, s) /\ Joined(y, u, s, Len(u))
      BY <2>1, JoinedAt
    <3> QED
      BY <2>2, <3>1
  <2>4. /\ Len(y) = 1 + Len(s) /\ TokenOf(y, 1) = TokenOf(u, 1)
        /\ \A i \in Nat \ {0} : TokenOf(y, 1 + i) = TokenOf(s, i)
    BY <2>3 DEF Joined
  <2>5. m \in Nat \ {0} /\ Len(s) = 4 * m - 1
    BY <2>1 DEF ConditionForm
  <2>6. Len(y) = 4 * m
    BY <2>4, <2>5
  <2>7. ASSUME NEW j \in 1 .. m PROVE ConditionAt(y, 4 * j - 2)
    <3>1. PICK i \in Nat \ {0} : i = 4 * j - 3 /\ i + 1 \in Nat \ {0} /\ i + 2 \in Nat \ {0}
      BY <2>5
    <3>2. PICK k \in Nat : k = 4 * j - 2 /\ 1 + i = k /\ 1 + (i + 1) = k + 1 /\ 1 + (i + 2) = k + 2
      BY <2>5, <3>1
    <3>3. ConditionAt(s, i)
      BY <2>1, <3>1 DEF ConditionForm
    <3>4. /\ TokenOf(y, k) = TokenOf(s, i) /\ TokenOf(y, k + 1) = TokenOf(s, i + 1)
          /\ TokenOf(y, k + 2) = TokenOf(s, i + 2)
      BY <2>4, <3>1, <3>2
    <3>5. ConditionAt(y, k)
      BY <3>3, <3>4, ConditionMoved
    <3> QED
      BY <3>2, <3>5
  <2>8. ASSUME NEW j \in 1 .. (m - 1) PROVE KindIn(y, 4 * j + 1) \in {"AND", "OR"}
    <3>1. PICK i \in Nat \ {0} : i = 4 * j
      BY <2>5
    <3>2. 1 + i = 4 * j + 1
      BY <3>1
    <3>3. KindIn(s, i) \in {"AND", "OR"}
      BY <2>1, <3>1 DEF ConditionForm
    <3> QED
      BY <2>4, <3>1, <3>2, <3>3 DEF KindIn
  <2>9. WhereText(y, m)
    BY <2>2, <2>4, <2>5, <2>6, <2>7, <2>8 DEF WhereText, KindIn
  <2>10. WhereOf(q) = y
    BY <1>2, <2>0, <2>2, <2>3 DEF WhereOf
  <2> QED
    BY <2>9, <2>10
<1> QED
  BY <1>1, <1>2

\* Where in a sentence w of a query q its tokens are: the projection takes
\* the a places from the second one on, then there are m conditions, and the
\* GROUP BY or the end.
ProjectionAt(w, q, a, n) ==
  /\ a \in Nat \ {0} /\ n \in Nat \ {0}
  /\ q.proj = "star"    => a = 1 /\ KindIn(w, 2) = "*"
  /\ q.proj = "count"   => a = 4 /\ CountAt(w, 2)
  /\ q.proj = "sum"     => a = 4 /\ SumAt(w, 2)
  /\ q.proj = "columns" => /\ a = 2 * n - 1
                           /\ \A j \in 1 .. n : KindIn(w, 2 * j) = "ident"
                           /\ \A j \in 1 .. (n - 1) : KindIn(w, 2 * j + 1) = Comma
  /\ q.proj = "grouped" => /\ a = 6 /\ TokenOf(w, 2) = [kind |-> "ident", text |-> q.groupBy]
                           /\ KindIn(w, 3) = Comma /\ (CountAt(w, 4) \/ SumAt(w, 4))

WhereAt(w, a, m) ==
  /\ m \in Nat
  /\ m # 0 =>
       /\ KindIn(w, a + 2) = "WHERE"
       /\ \A j \in 1 .. m : ConditionAt(w, a + 4 * j - 1)
       /\ \A j \in 1 .. (m - 1) : KindIn(w, a + 4 * j + 2) \in {"AND", "OR"}

GroupAt(w, q, z) ==
  IF q.proj = "grouped"
  THEN /\ KindIn(w, z) = "GROUP" /\ KindIn(w, z + 1) = "BY"
       /\ TokenOf(w, z + 2) = [kind |-> "ident", text |-> q.groupBy] /\ KindIn(w, z + 3) = "EOF"
  ELSE KindIn(w, z) = "EOF"

SentenceForm(w, q, a, n, m) ==
  /\ KindIn(w, 1) = "SELECT"
  /\ ProjectionAt(w, q, a, n) /\ WhereAt(w, a, m) /\ GroupAt(w, q, a + 4 * m + 2)

\* The text p is in w, from the place behind k on.
Within(w, k, p) == \A i \in Nat \ {0} : i <= Len(p) => TokenOf(w, k + i) = TokenOf(p, i)

LEMMA ProjectionWithin ==
  ASSUME NEW p \in Seq(Written), NEW w, NEW q, NEW n, ProjectionText(p, q, n), Within(w, 1, p),
         q.proj \in ProjectionKind
  PROVE  ProjectionAt(w, q, Len(p), n)
<1>1. PICK a : a = Len(p) /\ n \in Nat \ {0}
  BY DEF ProjectionText
<1>2. \A i \in Nat \ {0} : i <= a => TokenOf(w, 1 + i) = TokenOf(p, i)
  BY <1>1 DEF Within
<1>3. ASSUME NEW i \in Nat \ {0}, NEW k, k = 1 + i, i <= a PROVE TokenOf(w, k) = TokenOf(p, i)
  BY <1>2, <1>3
<1>4. CASE q.proj = "star"
  <2>1. a = 1 /\ KindIn(p, 1) = "*"
    BY <1>1, <1>4 DEF ProjectionText
  <2>2. TokenOf(w, 2) = TokenOf(p, 1)
    BY <1>3, <2>1
  <2> QED
    BY <1>1, <1>4, <2>1, <2>2 DEF ProjectionAt, KindIn
<1>5. ASSUME a = 4 PROVE (CountAt(p, 1) => CountAt(w, 2)) /\ (SumAt(p, 1) => SumAt(w, 2))
  <2>1. /\ TokenOf(w, 2) = TokenOf(p, 1) /\ TokenOf(w, 3) = TokenOf(p, 2)
        /\ TokenOf(w, 4) = TokenOf(p, 3) /\ TokenOf(w, 5) = TokenOf(p, 4)
    BY <1>3, <1>5
  <2>2. 2 + 1 = 3 /\ 2 + 2 = 4 /\ 2 + 3 = 5 /\ 1 + 1 = 2 /\ 1 + 2 = 3 /\ 1 + 3 = 4
    OBVIOUS
  <2>3. /\ TokenOf(w, 2 + 1) = TokenOf(p, 1 + 1) /\ TokenOf(w, 2 + 2) = TokenOf(p, 1 + 2)
        /\ TokenOf(w, 2 + 3) = TokenOf(p, 1 + 3)
    BY <2>1, <2>2
  <2> QED
    BY <2>1, <2>3, AggregateMoved
<1>6. CASE q.proj = "count"
  BY <1>1, <1>5, <1>6 DEF ProjectionText, ProjectionAt
<1>7. CASE q.proj = "sum"
  BY <1>1, <1>5, <1>7 DEF ProjectionText, ProjectionAt
<1>8. CASE q.proj = "columns"
  <2>1. /\ a = 2 * n - 1 /\ \A j \in 1 .. n : KindIn(p, 2 * j - 1) = "ident"
        /\ \A j \in 1 .. (n - 1) : KindIn(p, 2 * j) = Comma
    BY <1>1, <1>8 DEF ProjectionText, ListForm
  <2>2. ASSUME NEW j \in 1 .. n PROVE KindIn(w, 2 * j) = "ident"
    <3>1. PICK i \in Nat \ {0} : i = 2 * j - 1 /\ i <= a /\ 2 * j = 1 + i
      BY <1>1, <2>1
    <3> QED
      BY <1>3, <2>1, <3>1 DEF KindIn
  <2>3. ASSUME NEW j \in 1 .. (n - 1) PROVE KindIn(w, 2 * j + 1) = Comma
    <3>1. PICK i \in Nat \ {0} : i = 2 * j /\ i <= a /\ 2 * j + 1 = 1 + i
      BY <1>1, <2>1
    <3>2. KindIn(p, i) = Comma
      BY <2>1, <3>1
    <3> QED
      BY <1>3, <3>1, <3>2 DEF KindIn
  <2>4. a \in Nat \ {0}
    BY <1>1, <2>1
  <2> QED
    BY <1>1, <1>8, <2>1, <2>2, <2>3, <2>4, Zenon DEF ProjectionAt
<1>9. CASE q.proj = "grouped"
  <2>1. /\ a = 6 /\ TokenOf(p, 1) = [kind |-> "ident", text |-> q.groupBy]
        /\ KindIn(p, 2) = Comma /\ (CountAt(p, 3) \/ SumAt(p, 3))
    BY <1>1, <1>9 DEF ProjectionText
  <2>2. /\ TokenOf(w, 2) = TokenOf(p, 1) /\ TokenOf(w, 3) = TokenOf(p, 2)
        /\ TokenOf(w, 4) = TokenOf(p, 3) /\ TokenOf(w, 5) = TokenOf(p, 4)
        /\ TokenOf(w, 6) = TokenOf(p, 5) /\ TokenOf(w, 7) = TokenOf(p, 6)
    BY <1>3, <2>1
  <2>3. 4 + 1 = 5 /\ 4 + 2 = 6 /\ 4 + 3 = 7 /\ 3 + 1 = 4 /\ 3 + 2 = 5 /\ 3 + 3 = 6
    OBVIOUS
  <2>4. /\ TokenOf(w, 4 + 1) = TokenOf(p, 3 + 1) /\ TokenOf(w, 4 + 2) = TokenOf(p, 3 + 2)
        /\ TokenOf(w, 4 + 3) = TokenOf(p, 3 + 3)
    BY <2>2, <2>3
  <2>5. CountAt(w, 4) \/ SumAt(w, 4)
    BY <2>1, <2>2, <2>4, AggregateMoved
  <2>6. KindIn(w, 3) = Comma
    BY <2>1, <2>2 DEF KindIn
  <2> QED
    BY <1>1, <1>9, <2>1, <2>2, <2>5, <2>6 DEF ProjectionAt
<1> QED
  BY <1>1, <1>4, <1>6, <1>7, <1>8, <1>9 DEF ProjectionKind

LEMMA WhereWithin ==
  ASSUME NEW p \in Seq(Written), NEW w, NEW a \in Nat, NEW m, WhereText(p, m), Within(w, a + 1, p)
  PROVE  WhereAt(w, a, m)
<1>1. m \in Nat /\ Len(p) = 4 * m
  BY DEF WhereText
<1>2. \A i \in Nat \ {0} : i <= 4 * m => TokenOf(w, (a + 1) + i) = TokenOf(p, i)
  BY <1>1 DEF Within
<1>3. ASSUME NEW i \in Nat \ {0}, NEW k, k = (a + 1) + i, i <= 4 * m PROVE TokenOf(w, k) = TokenOf(p, i)
  BY <1>2, <1>3
<1> SUFFICES ASSUME m # 0
             PROVE  /\ KindIn(w, a + 2) = "WHERE"
                    /\ \A j \in 1 .. m : ConditionAt(w, a + 4 * j - 1)
                    /\ \A j \in 1 .. (m - 1) : KindIn(w, a + 4 * j + 2) \in {"AND", "OR"}
  BY <1>1, Zenon DEF WhereAt
<1>4. KindIn(w, a + 2) = "WHERE"
  <2>1. a + 2 = (a + 1) + 1 /\ 1 <= 4 * m
    BY <1>1
  <2>2. TokenOf(w, a + 2) = TokenOf(p, 1)
    BY <1>3, <2>1
  <2> QED
    BY <2>2 DEF WhereText, KindIn
<1>5. ASSUME NEW j \in 1 .. m PROVE ConditionAt(w, a + 4 * j - 1)
  <2>1. PICK i \in Nat \ {0} : /\ i = 4 * j - 2 /\ i <= 4 * m /\ i + 1 <= 4 * m /\ i + 2 <= 4 * m
                               /\ i + 1 \in Nat \ {0} /\ i + 2 \in Nat \ {0}
    BY <1>1
  <2>2. PICK k \in Nat : /\ k = a + 4 * j - 1 /\ k = (a + 1) + i
                         /\ k + 1 = (a + 1) + (i + 1) /\ k + 2 = (a + 1) + (i + 2)
    <3>1. PICK h \in Nat : h = 4 * j
      BY <1>1
    <3> QED
      BY <2>1, <3>1
  <2>3. ConditionAt(p, i)
    BY <2>1 DEF WhereText
  <2>4. /\ TokenOf(w, k) = TokenOf(p, i) /\ TokenOf(w, k + 1) = TokenOf(p, i + 1)
        /\ TokenOf(w, k + 2) = TokenOf(p, i + 2)
    BY <1>3, <2>1, <2>2
  <2>5. ConditionAt(w, k)
    BY <2>3, <2>4, ConditionMoved
  <2> QED
    BY <2>2, <2>5
<1>6. ASSUME NEW j \in 1 .. (m - 1) PROVE KindIn(w, a + 4 * j + 2) \in {"AND", "OR"}
  <2>1. PICK i \in Nat \ {0} : i = 4 * j + 1 /\ i <= 4 * m /\ a + 4 * j + 2 = (a + 1) + i
    <3>1. PICK h \in Nat : h = 4 * j /\ h + 1 <= 4 * m
      BY <1>1
    <3> QED
      BY <3>1
  <2>2. TokenOf(w, a + 4 * j + 2) = TokenOf(p, i)
    BY <1>3, <2>1
  <2>3. KindIn(p, i) \in {"AND", "OR"}
    BY <2>1 DEF WhereText
  <2> QED
    BY <2>2, <2>3 DEF KindIn
<1> QED
  BY <1>4, <1>5, <1>6

\* The text of a GROUP BY, empty where there is none.
GroupClause(q) ==
  IF q.proj = "grouped" THEN Cat(Cat(Sym("GROUP"), Sym("BY")), Ident(q.groupBy)) ELSE <<>>

LEMMA GroupTextIs ==
  ASSUME NEW q, q.groupBy \in Names
  PROVE  GroupClause(q) \in Seq(Written) /\ GroupAt(GroupClause(q), q, 1)
<1>1. CASE q.proj # "grouped"
  <2>1. GroupClause(q) = <<>> /\ <<>> \in Seq(Written)
    BY <1>1 DEF GroupClause
  <2>2. KindIn(<<>>, 1) = "EOF"
    <3>1. 1 \notin DOMAIN <<>>
      BY EmptySeq
    <3>2. TokenOf(<<>>, 1) = [kind |-> "EOF"]
      BY <3>1 DEF TokenOf
    <3> QED
      BY <3>2 DEF KindIn
  <2> QED
    BY <1>1, <2>1, <2>2 DEF GroupAt
<1>2. CASE q.proj = "grouped"
  <2>1. PICK t \in Written : t = [kind |-> "GROUP", text |-> "GROUP"]
    BY DEF Written, Token, Keyword
  <2>2. PICK u \in Written : u = [kind |-> "BY", text |-> "BY"]
    BY DEF Written, Token, Keyword
  <2>3. PICK v \in Written : v = [kind |-> "ident", text |-> q.groupBy]
    BY IdentType
  <2>4. <<t>> \o <<u>> = <<t, u>>
    BY AppendOne
  <2>5. <<t, u>> \o <<v>> = <<t, u, v>> /\ <<t, u, v>> \in Seq(Written)
    BY AppendTwo
  <2>6. PICK s \in Seq(Written) : s = <<t, u, v>> /\ s = GroupClause(q)
    <3>1. GroupClause(q) = (<<t>> \o <<u>>) \o <<v>>
      BY <1>2, <2>1, <2>2, <2>3 DEF GroupClause, Cat, Sym, Ident
    <3> QED
      BY <2>4, <2>5, <3>1
  <2>7. Len(s) = 3 /\ TokenOf(s, 1) = t /\ TokenOf(s, 2) = u /\ TokenOf(s, 3) = v
    BY <2>6 DEF TokenOf
  <2>8. TokenOf(s, 4) = [kind |-> "EOF"]
    BY <2>6 DEF TokenOf
  <2>9. /\ KindIn(s, 1) = "GROUP" /\ KindIn(s, 2) = "BY" /\ KindIn(s, 4) = "EOF"
        /\ 1 + 1 = 2 /\ 1 + 2 = 3 /\ 1 + 3 = 4
    BY <2>1, <2>2, <2>7, <2>8 DEF KindIn
  <2> QED
    BY <1>2, <2>3, <2>6, <2>7, <2>9 DEF GroupAt
<1> QED
  BY <1>1, <1>2

LEMMA GroupMoved ==
  ASSUME NEW s, NEW w, NEW q, NEW z \in Nat \ {0}, GroupAt(s, q, 1),
         \A i \in Nat \ {0} : TokenOf(w, (z - 1) + i) = TokenOf(s, i)
  PROVE  GroupAt(w, q, z)
<1>1. (z - 1) + 1 = z /\ (z - 1) + 2 = z + 1 /\ (z - 1) + 3 = z + 2 /\ (z - 1) + 4 = z + 3
  OBVIOUS
<1>2. 1 \in Nat \ {0} /\ 2 \in Nat \ {0} /\ 3 \in Nat \ {0} /\ 4 \in Nat \ {0}
  OBVIOUS
<1>3. /\ TokenOf(w, (z - 1) + 1) = TokenOf(s, 1) /\ TokenOf(w, (z - 1) + 2) = TokenOf(s, 2)
      /\ TokenOf(w, (z - 1) + 3) = TokenOf(s, 3) /\ TokenOf(w, (z - 1) + 4) = TokenOf(s, 4)
  BY <1>2, Zenon
<1>4. /\ TokenOf(w, z) = TokenOf(s, 1) /\ TokenOf(w, z + 1) = TokenOf(s, 2)
      /\ TokenOf(w, z + 2) = TokenOf(s, 3) /\ TokenOf(w, z + 3) = TokenOf(s, 4)
  BY <1>1, <1>3
<1>5. 1 + 1 = 2 /\ 1 + 2 = 3 /\ 1 + 3 = 4
  OBVIOUS
<1> QED
  BY <1>4, <1>5 DEF GroupAt, KindIn

\* Every sentence of the grammar has this form.
LEMMA SentenceIs ==
  ASSUME NEW q, QueryOK(q), q.proj = "columns" => q.cols # <<>>
  PROVE  Sentence(q) \in Seq(Written) /\ \E a, n, m : SentenceForm(Sentence(q), q, a, n, m)
<1>0. q.proj \in ProjectionKind /\ q.groupBy \in Names
  BY DEF QueryOK
<1>1. PICK p \in Seq(Written) : p = ProjectionTokens(q)
  BY ProjectionTextIs
<1>2. PICK n : ProjectionText(p, q, n)
  BY <1>1, ProjectionTextIs
<1>3. PICK s \in Seq(Written) : s = WhereOf(q)
  BY WhereTextIs
<1>4. PICK m : WhereText(s, m)
  BY <1>3, WhereTextIs
<1>5. PICK g \in Seq(Written) : g = GroupClause(q) /\ GroupAt(g, q, 1)
  BY <1>0, GroupTextIs
<1>6. PICK u \in Seq(Written) : u = Sym("SELECT") /\ Len(u) = 1 /\ KindIn(u, 1) = "SELECT"
  BY KindOfSym DEF Keyword
<1>7. PICK a \in Nat : a = Len(p)
  BY LenProperties
<1>8. m \in Nat /\ Len(s) = 4 * m
  BY <1>4 DEF WhereText
<1>9. PICK up \in Seq(Written) : up = Cat(u, p) /\ Joined(up, u, p, Len(u))
  BY JoinedAt
<1>10. PICK ups \in Seq(Written) : ups = Cat(up, s) /\ Joined(ups, up, s, Len(up))
  BY JoinedAt
<1>11. PICK w \in Seq(Written) : w = Cat(ups, g) /\ Joined(w, ups, g, Len(ups))
  BY JoinedAt
<1>12. /\ Len(up) = a + 1 /\ TokenOf(up, 1) = TokenOf(u, 1)
       /\ \A i \in Nat \ {0} : TokenOf(up, 1 + i) = TokenOf(p, i)
  <2>0. 1 <= 1 /\ 1 \in Nat \ {0}
    OBVIOUS
  <2>1. Joined(up, u, p, 1)
    BY <1>6, <1>9
  <2>2. Len(up) = 1 + Len(p)
    BY <2>1 DEF Joined
  <2>3. \A i \in Nat \ {0} : i <= 1 => TokenOf(up, i) = TokenOf(u, i)
    BY <2>1 DEF Joined
  <2>4. \A i \in Nat \ {0} : TokenOf(up, 1 + i) = TokenOf(p, i)
    BY <2>1 DEF Joined
  <2>5. TokenOf(up, 1) = TokenOf(u, 1)
    BY <2>0, <2>3
  <2> QED
    BY <1>7, <2>2, <2>4, <2>5
<1>13. PICK z \in Nat \ {0} : z = a + 4 * m + 2
  BY <1>7, <1>8
<1>14. /\ Len(ups) = z - 1
       /\ \A i \in Nat \ {0} : i <= a + 1 => TokenOf(ups, i) = TokenOf(up, i)
       /\ \A i \in Nat \ {0} : TokenOf(ups, (a + 1) + i) = TokenOf(s, i)
  <2>1. Joined(ups, up, s, a + 1)
    BY <1>10, <1>12
  <2>2. Len(ups) = (a + 1) + 4 * m
    BY <1>8, <2>1 DEF Joined
  <2>3. \A i \in Nat \ {0} : i <= a + 1 => TokenOf(ups, i) = TokenOf(up, i)
    BY <2>1 DEF Joined
  <2>4. \A i \in Nat \ {0} : TokenOf(ups, (a + 1) + i) = TokenOf(s, i)
    BY <2>1 DEF Joined
  <2> QED
    BY <1>8, <1>13, <2>2, <2>3, <2>4
<1>15. /\ \A i \in Nat \ {0} : i <= z - 1 => TokenOf(w, i) = TokenOf(ups, i)
       /\ \A i \in Nat \ {0} : TokenOf(w, (z - 1) + i) = TokenOf(g, i)
  BY <1>11, <1>14 DEF Joined
<1>16. KindIn(w, 1) = "SELECT"
  <2>1. 1 \in Nat \ {0} /\ 1 <= a + 1 /\ 1 <= z - 1
    BY <1>7, <1>8, <1>13
  <2>2. TokenOf(w, 1) = TokenOf(u, 1)
    BY <1>12, <1>14, <1>15, <2>1
  <2> QED
    BY <1>6, <2>2 DEF KindIn
<1>17. Within(w, 1, p)
  <2> SUFFICES ASSUME NEW i \in Nat \ {0}, i <= Len(p) PROVE TokenOf(w, 1 + i) = TokenOf(p, i)
    BY DEF Within
  <2>1. PICK k \in Nat \ {0} : k = 1 + i /\ k <= a + 1 /\ k <= z - 1
    BY <1>7, <1>8, <1>13
  <2>2. TokenOf(w, k) = TokenOf(ups, k)
    BY <1>15, <2>1
  <2>3. TokenOf(ups, k) = TokenOf(up, k)
    BY <1>14, <2>1
  <2>4. TokenOf(up, 1 + i) = TokenOf(p, i)
    BY <1>12
  <2> QED
    BY <2>1, <2>2, <2>3, <2>4
<1>18. Within(w, a + 1, s)
  <2> SUFFICES ASSUME NEW i \in Nat \ {0}, i <= Len(s) PROVE TokenOf(w, (a + 1) + i) = TokenOf(s, i)
    BY DEF Within
  <2>0. PICK l \in Nat : l = 4 * m /\ i <= l /\ z - 1 = (a + 1) + l
    BY <1>8, <1>13
  <2>1. PICK k \in Nat \ {0} : k = (a + 1) + i /\ k <= z - 1
    BY <1>7, <2>0
  <2>2. TokenOf(w, k) = TokenOf(ups, k)
    BY <1>15, <2>1
  <2>3. TokenOf(ups, (a + 1) + i) = TokenOf(s, i)
    BY <1>14
  <2> QED
    BY <2>1, <2>2, <2>3
<1>19. ProjectionAt(w, q, a, n)
  BY <1>0, <1>2, <1>7, <1>17, ProjectionWithin
<1>20. WhereAt(w, a, m)
  BY <1>4, <1>7, <1>18, WhereWithin
<1>21. GroupAt(w, q, z)
  BY <1>5, <1>15, GroupMoved
<1>22. SentenceForm(w, q, a, n, m)
  BY <1>13, <1>16, <1>19, <1>20, <1>21 DEF SentenceForm
<1>23. Sentence(q) = w
  <2>1. WhereOf(q) = IF Filtered(q) THEN Sym("WHERE") \o ConditionTokens(q.where) ELSE <<>>
    BY DEF WhereOf, Cat
  <2>2. GroupClause(q) = IF q.proj = "grouped" THEN Sym("GROUP") \o Sym("BY") \o Ident(q.groupBy) ELSE <<>>
    BY DEF GroupClause, Cat
  <2>3. Sentence(q) = ((Sym("SELECT") \o ProjectionTokens(q)) \o WhereOf(q)) \o GroupClause(q)
    BY <2>1, <2>2 DEF Sentence
  <2> QED
    BY <1>1, <1>3, <1>5, <1>6, <1>9, <1>10, <1>11, <2>3 DEF Cat
<1> QED
  BY <1>22, <1>23

-----------------------------------------------------------------------------
(* A sentence of the grammar is parsed along its form.                      *)

\* The first column is the second token, whatever else is read.
PlaceInv ==
  /\ phase = "select" => at = 1
  /\ phase = "projection" => at = 2
  /\ ast.cols # <<>> => ast.cols[1] = Text(2)

LEMMA PlaceKept ==
  ASSUME PlaceInv, toks' = toks, ast'.cols = ast.cols, phase' \notin {"select", "projection"}
  PROVE  PlaceInv'
BY DEF PlaceInv, Text

LEMMA PlaceRefused ==
  ASSUME PlaceInv, NEW i, Reject(i)
  PROVE  PlaceInv'
BY PlaceKept DEF Reject

LEMMA PlaceTaken ==
  ASSUME PlaceInv, NEW n, NEW then, Take(n, then), then \notin {"select", "projection"},
         ast'.cols = ast.cols
  PROVE  PlaceInv'
BY PlaceKept DEF Take

LEMMA PlaceColumn ==
  ASSUME ParserInv, PlaceInv, ParseFirstColumn \/ ParseNextColumn
  PROVE  PlaceInv'
<1>1. ast.cols \in Seq(Names \ {EmptyName}) /\ ast \in AstType(ast.where)
  BY AstFields
<1>2. CASE ParseFirstColumn
  <2>1. /\ at = 2 /\ ast' = [ast EXCEPT !.proj = "columns", !.cols = <<Text(at)>>]
        /\ toks' = toks /\ phase' = "columns"
    BY <1>2 DEF ParseFirstColumn, PlaceInv, Take
  <2>2. PICK name : name = Text(at)
    OBVIOUS
  <2>3. ast'.cols = <<name>> /\ <<name>>[1] = name
    BY <1>1, <2>1, <2>2 DEF AstType
  <2>4. Text(2)' = name
    BY <2>1, <2>2 DEF Text
  <2> QED
    BY <2>1, <2>3, <2>4 DEF PlaceInv
<1>3. CASE ParseNextColumn
  <2>0. phase = "columns" /\ ast.cols # <<>>
    BY <1>3, ParserFacts DEF ParseNextColumn, AstInv
  <2>1. CASE \E i : Reject(i)
    BY <2>1, PlaceRefused
  <2>2. CASE /\ ast' = [ast EXCEPT !.cols = Append(@, Text(at + 1))]
             /\ Kind(at + 1) = "ident" /\ Take(2, "columns")
    <3>1. PICK cols : cols = Append(ast.cols, Text(at + 1))
      OBVIOUS
    <3>2. Text(at + 1) \in Names \ {EmptyName}
      <4>1. at + 1 \in Nat \ {0} /\ toks \in Seq(Token)
        BY ParserFacts
      <4> QED
        BY <2>2, <4>1, TokenAt
    <3>3. PICK l \in Nat : l = Len(ast.cols) /\ l # 0
      BY <1>1, <2>0, LenProperties, EmptySeq
    <3>4. cols[1] = ast.cols[1]
      <4>1. PICK S : S = Names \ {EmptyName}
        OBVIOUS
      <4>2. ast.cols \in Seq(S) /\ Text(at + 1) \in S /\ 1 \in 1 .. Len(ast.cols)
        BY <1>1, <3>2, <3>3, <4>1
      <4> QED
        BY <3>1, <4>2, AppendProperties
    <3>5. ast' = [ast EXCEPT !.cols = cols]
      BY <2>2, <3>1
    <3>6. ast'.cols = cols
      BY <1>1, <3>5 DEF AstType
    <3>7. ast.cols[1] = Text(2) /\ Text(2)' = Text(2) /\ phase' = "columns"
      BY <2>0, <2>2 DEF PlaceInv, Take, Text
    <3> QED
      BY <3>4, <3>6, <3>7 DEF PlaceInv
  <2>3. CASE \E agg, sumCol : /\ ast' = [ast EXCEPT !.proj = "grouped", !.agg = agg, !.sumCol = sumCol]
                              /\ Take(5, "clauses")
    <3>1. PICK agg, sumCol : ast' = [ast EXCEPT !.proj = "grouped", !.agg = agg, !.sumCol = sumCol]
      BY <2>3
    <3>2. ast'.cols = ast.cols
      BY <1>1, <3>1 DEF AstType
    <3> QED
      BY <2>3, <3>2, PlaceTaken
  <2> QED
    <3>1. \/ Kind(at + 1) \in {"COUNT", "SUM"} /\ Len(ast.cols) = 1
             /\ LET isSum   == Kind(at + 1) = "SUM"
                    pattern == << {","} >> \o (IF isSum THEN SumPattern ELSE CountPattern)
                IN  \/ ~Fits(pattern) /\ Reject(Misfit(pattern))
                    \/ Fits(pattern) /\ Kind(at + 5) = "," /\ Reject(at + 5)
                    \/ /\ Fits(pattern) /\ Kind(at + 5) # ","
                       /\ ast' = [ast EXCEPT !.proj = "grouped",
                                             !.agg = IF isSum THEN "sum" ELSE "count",
                                             !.sumCol = IF isSum THEN Text(at + 3) ELSE @]
                       /\ Take(5, "clauses") /\ UNCHANGED <<comps, ops>>
          \/ Reject(at + 1)
          \/ /\ ast' = [ast EXCEPT !.cols = Append(@, Text(at + 1))]
             /\ Kind(at + 1) = "ident" /\ Take(2, "columns")
      BY <1>3 DEF ParseNextColumn
    <3>2. ASSUME NEW isSum \in BOOLEAN, NEW pattern,
                 ast' = [ast EXCEPT !.proj = "grouped",
                                    !.agg = IF isSum THEN "sum" ELSE "count",
                                    !.sumCol = IF isSum THEN Text(at + 3) ELSE @]
          PROVE  \E agg, sumCol : ast' = [ast EXCEPT !.proj = "grouped", !.agg = agg, !.sumCol = sumCol]
      <4>1. PICK sumCol : sumCol = IF isSum THEN Text(at + 3) ELSE ast.sumCol
        OBVIOUS
      <4>2. ast' = [ast EXCEPT !.proj = "grouped", !.agg = IF isSum THEN "sum" ELSE "count",
                               !.sumCol = sumCol]
        BY <3>2, <4>1
      <4> QED
        BY <4>2
    <3> QED
      BY <2>1, <2>2, <2>3, <3>1, <3>2
<1> QED
  BY <1>2, <1>3

LEMMA PlaceStep == ParserInv /\ PlaceInv /\ [ParserNext]_pvars => PlaceInv'
<1> SUFFICES ASSUME ParserInv, PlaceInv, [ParserNext]_pvars PROVE PlaceInv'
  OBVIOUS
<1>0. ast \in AstType(ast.where)
  BY AstFields
<1>1. CASE UNCHANGED pvars
  BY <1>1 DEF PlaceInv, pvars, Text
<1>2. CASE ParseSelect
  <2>1. CASE Reject(at)
    BY <2>1, PlaceRefused
  <2>2. CASE Take(1, "projection") /\ ast' = ast
    <3>1. at' = 2 /\ phase' = "projection" /\ ast'.cols = ast.cols /\ Text(2)' = Text(2)
      BY <1>2, <2>2 DEF ParseSelect, PlaceInv, Take, Text
    <3> QED
      BY <3>1 DEF PlaceInv
  <2> QED
    BY <1>2, <2>1, <2>2 DEF ParseSelect
<1>3. CASE ParseStar
  <2>1. ast' = [ast EXCEPT !.proj = "star"] /\ Take(1, "clauses")
    BY <1>3 DEF ParseStar
  <2>2. ast'.cols = ast.cols
    BY <1>0, <2>1 DEF AstType
  <2> QED
    BY <2>1, <2>2, PlaceTaken
<1>4. CASE ParseCount
  <2>1. CASE Reject(Misfit(CountPattern))
    BY <2>1, PlaceRefused
  <2>2. CASE ast' = [ast EXCEPT !.proj = "count"] /\ Take(4, "clauses")
    <3>1. ast'.cols = ast.cols
      BY <1>0, <2>2 DEF AstType
    <3> QED
      BY <2>2, <3>1, PlaceTaken
  <2> QED
    BY <1>4, <2>1, <2>2 DEF ParseCount
<1>5. CASE ParseSum
  <2>1. CASE Reject(Misfit(SumPattern))
    BY <2>1, PlaceRefused
  <2>2. CASE ast' = [ast EXCEPT !.proj = "sum", !.sumCol = Text(at + 2)] /\ Take(4, "clauses")
    <3>1. ast'.cols = ast.cols
      BY <1>0, <2>2 DEF AstType
    <3> QED
      BY <2>2, <3>1, PlaceTaken
  <2> QED
    BY <1>5, <2>1, <2>2 DEF ParseSum
<1>6. CASE ParseNoProjection
  BY <1>6, PlaceRefused DEF ParseNoProjection
<1>7. CASE EndColumns
  BY <1>7, PlaceTaken DEF EndColumns
<1>8. CASE ParseClauses
  BY <1>8, PlaceRefused, PlaceTaken DEF ParseClauses
<1>9. CASE ParseComparison
  BY <1>9, PlaceRefused, PlaceTaken DEF ParseComparison
<1>10. CASE ParseConditions
  <2>1. CASE Reject(at)
    BY <2>1, PlaceRefused
  <2>2. CASE Take(1, "comparison") /\ ast' = ast
    BY <2>2, PlaceTaken
  <2>3. CASE ast' = [ast EXCEPT !.where = LowerGroups(GroupComparisons)] /\ Take(0, "group")
    <3>1. PICK e : e = LowerGroups(GroupComparisons)
      OBVIOUS
    <3>2. ast' = [ast EXCEPT !.where = e]
      BY <2>3, <3>1
    <3>3. ast'.cols = ast.cols
      BY <1>0, <3>2 DEF AstType
    <3> QED
      BY <2>3, <3>3, PlaceTaken
  <2> QED
    BY <1>10, <2>1, <2>2, <2>3 DEF ParseConditions
<1>11. CASE ParseGroupBy
  <2>1. CASE \E i : Reject(i)
    BY <2>1, PlaceRefused
  <2>2. CASE Take(0, "end") /\ ast' = ast
    BY <2>2, PlaceTaken
  <2>3. CASE ast' = [ast EXCEPT !.groupBy = Text(at + 2)] /\ Take(3, "end")
    <3>1. ast'.cols = ast.cols
      BY <1>0, <2>3 DEF AstType
    <3> QED
      BY <2>3, <3>1, PlaceTaken
  <2> QED
    BY <1>11, <2>1, <2>2, <2>3 DEF ParseGroupBy
<1>12. CASE ParseEnd
  BY <1>12, PlaceRefused, PlaceTaken DEF ParseEnd
<1> QED
  BY <1>1, <1>2, <1>3, <1>4, <1>5, <1>6, <1>7, <1>8, <1>9, <1>10, <1>11, <1>12, PlaceColumn
     DEF ParserNext

\* The input begins like the text w, up to place i.
Agrees(w, i) == \A j \in 1 .. i : TokenOf(w, j) = TokenOf(toks, j)

\* The last token that has been looked at.
Heard == IF phase # "rejected" THEN at ELSE IF blame = 0 THEN Len(toks) + 1 ELSE blame

\* Where the parser is in a sentence that it has found nothing else than.
Reaches(w, q, a, n, m) ==
  /\ phase = "select" => at = 1
  /\ phase = "projection" => at = 2
  /\ phase = "columns" =>
       /\ at = 2 * Len(ast.cols) + 1
       /\ \/ q.proj = "columns" /\ Len(ast.cols) \in 1 .. n
          \/ q.proj = "grouped" /\ Len(ast.cols) = 1
  /\ phase \in {"clauses", "comparison", "conditions", "group"} => ast.proj = q.proj
  /\ phase = "clauses" => at = a + 2
  /\ phase = "comparison" => at = a + 4 * Len(comps) + 3 /\ Len(comps) < m
  /\ phase = "conditions" => at = a + 4 * Len(comps) + 2 /\ Len(comps) \in 1 .. m
  /\ phase = "group" => at = a + 4 * m + 2
  /\ phase = "end" => KindIn(w, at) = "EOF" /\ ValidGrouping
  /\ phase # "rejected"

Formed(w, q, a, n, m) == SentenceForm(w, q, a, n, m) /\ q.proj \in ProjectionKind
Tracks(w, q, a, n, m) == Agrees(w, Heard) => Reaches(w, q, a, n, m)

LEMMA AgreesAt ==
  ASSUME NEW w, NEW i \in Nat, Agrees(w, i), NEW j \in Nat \ {0}, j <= i
  PROVE  /\ KindIn(w, j) = Kind(j)
         /\ TokenOf(w, j).text # OutOfRange /\ j \in DOMAIN toks => Text(j) # OutOfRange
         /\ j \in DOMAIN toks => TokenOf(w, j) = toks[j]
<1>1. TokenOf(w, j) = TokenOf(toks, j)
  BY DEF Agrees
<1>2. j \in DOMAIN toks => TokenOf(w, j) = toks[j]
  BY <1>1 DEF TokenOf
<1>3. KindIn(w, j) = Kind(j)
  <2>1. CASE j \in DOMAIN toks
    BY <1>2, <2>1 DEF KindIn, Kind
  <2>2. CASE j \notin DOMAIN toks
    <3>1. TokenOf(w, j) = [kind |-> "EOF"]
      BY <1>1, <2>2 DEF TokenOf
    <3> QED
      BY <2>2, <3>1 DEF KindIn, Kind
  <2> QED
    BY <2>1, <2>2
<1> QED
  BY <1>2, <1>3 DEF Text

LEMMA AgreesLess ==
  ASSUME NEW w, NEW i \in Nat, NEW j \in Nat, j <= i, Agrees(w, i)
  PROVE  Agrees(w, j)
<1> SUFFICES ASSUME NEW k \in 1 .. j PROVE TokenOf(w, k) = TokenOf(toks, k)
  BY DEF Agrees
<1>1. k \in 1 .. i
  OBVIOUS
<1> QED
  BY <1>1 DEF Agrees

\* What a step that refuses the input looked at, and one that goes on.
LEMMA Refused ==
  ASSUME ParserInv, phase # "rejected", NEW i \in Nat, i = 0 \/ at <= i, Reject(i),
         NEW w, NEW q, NEW a, NEW n, NEW m, Tracks(w, q, a, n, m), Agrees(w, Heard)'
  PROVE  Reaches(w, q, a, n, m) /\ Agrees(w, at) /\ (i # 0 => Agrees(w, i))
<1>1. Heard' = IF i = 0 THEN Len(toks) + 1 ELSE i
  BY DEF Heard, Reject
<1>2. PICK k \in Nat : k = IF i = 0 THEN Len(toks) + 1 ELSE i
  BY ParserFacts
<1>3. Agrees(w, k)
  BY <1>1, <1>2 DEF Agrees, Reject
<1>4. at \in Nat /\ at <= k
  BY <1>2, ParserFacts
<1>5. Agrees(w, at)
  BY <1>3, <1>4, AgreesLess
<1>6. Heard = at
  BY DEF Heard
<1> QED
  BY <1>2, <1>3, <1>5, <1>6 DEF Tracks

LEMMA Taken ==
  ASSUME ParserInv, phase # "rejected", NEW k \in Nat, NEW then, then # "rejected", Take(k, then),
         NEW w, NEW q, NEW a, NEW n, NEW m, Tracks(w, q, a, n, m), Agrees(w, Heard)'
  PROVE  Reaches(w, q, a, n, m) /\ Agrees(w, at) /\ Agrees(w, at + k) /\ phase' = then /\ at' = at + k
<1>1. Heard' = at + k /\ phase' = then /\ at' = at + k
  BY DEF Heard, Take
<1>2. Agrees(w, at + k)
  BY <1>1 DEF Agrees, Take
<1>3. at \in Nat /\ at + k \in Nat /\ at <= at + k
  BY ParserFacts
<1>4. Agrees(w, at)
  BY <1>2, <1>3, AgreesLess
<1>5. Heard = at
  BY DEF Heard
<1> QED
  BY <1>1, <1>2, <1>4, <1>5 DEF Tracks

LEMMA MisfitRefused ==
  ASSUME ParserInv, phase # "rejected", NEW pattern, NEW k \in Nat, PatternOf(pattern, k),
         ~Fits(pattern), Reject(Misfit(pattern)),
         NEW w, NEW q, NEW a, NEW n, NEW m, Tracks(w, q, a, n, m), Agrees(w, Heard)'
  PROVE  /\ Reaches(w, q, a, n, m) /\ Agrees(w, at) /\ Agrees(w, Misfit(pattern))
         /\ Misfit(pattern) \in Nat /\ at <= Misfit(pattern)
<1>1. toks \in Seq(Token) /\ at \in 1 .. (Len(toks) + 1) /\ at \in Nat \ {0}
  BY ParserFacts
<1>2. Misfit(pattern) \in at .. (Len(toks) + 1)
  BY <1>1, MisfitIs
<1>3. PICK i \in Nat : i = Misfit(pattern) /\ at <= i /\ i # 0
  BY <1>1, <1>2
<1>4. Reaches(w, q, a, n, m) /\ Agrees(w, at) /\ Agrees(w, i)
  BY <1>3, Refused
<1> QED
  BY <1>3, <1>4

\* A pattern that the sentence has where the parser is.
LEMMA Due ==
  ASSUME ParserInv, NEW pattern, NEW n \in Nat, PatternOf(pattern, n), ~Fits(pattern),
         NEW w, \A k \in 1 .. n : KindIn(w, at + k - 1) \in pattern[k]
  PROVE  ~Agrees(w, Misfit(pattern))
<1> SUFFICES ASSUME Agrees(w, Misfit(pattern)) PROVE FALSE
  OBVIOUS
<1>1. at \in Nat \ {0}
  BY ParserFacts
<1>2. PICK k \in 1 .. n : Misfit(pattern) = at - 1 + k /\ Kind(at + k - 1) \notin pattern[k]
  BY <1>1, MisfitAt
<1>3. PICK i \in Nat \ {0} : i = at + k - 1 /\ i = at - 1 + k
  BY <1>1
<1>4. Agrees(w, i) /\ i <= i
  BY <1>2, <1>3
<1>5. KindIn(w, i) = Kind(i)
  BY <1>4, AgreesAt
<1> QED
  BY <1>2, <1>3, <1>5

\* The first tokens of a sentence, and those behind its projection.
LEMMA FirstTokens ==
  ASSUME NEW w, NEW q, NEW a, NEW n, NEW m, Formed(w, q, a, n, m)
  PROVE  /\ a \in Nat \ {0} /\ n \in Nat \ {0} /\ m \in Nat /\ KindIn(w, 1) = "SELECT"
         /\ \/ q.proj = "star" /\ a = 1 /\ KindIn(w, 2) = "*"
            \/ q.proj = "count" /\ a = 4 /\ KindIn(w, 2) = "COUNT" /\ CountAt(w, 2)
            \/ q.proj = "sum" /\ a = 4 /\ KindIn(w, 2) = "SUM" /\ SumAt(w, 2)
            \/ q.proj = "columns" /\ KindIn(w, 2) = "ident" /\ a = 2 * n - 1
            \/ q.proj = "grouped" /\ KindIn(w, 2) = "ident" /\ a = 6
<1>1. ProjectionAt(w, q, a, n) /\ WhereAt(w, a, m) /\ KindIn(w, 1) = "SELECT" /\ q.proj \in ProjectionKind
  BY DEF Formed, SentenceForm
<1>2. a \in Nat \ {0} /\ n \in Nat \ {0} /\ m \in Nat
  BY <1>1 DEF ProjectionAt, WhereAt
<1>3. CASE q.proj = "star"
  BY <1>1, <1>2, <1>3 DEF ProjectionAt
<1>4. CASE q.proj = "count"
  BY <1>1, <1>2, <1>4 DEF ProjectionAt, CountAt
<1>5. CASE q.proj = "sum"
  BY <1>1, <1>2, <1>5 DEF ProjectionAt, SumAt
<1>6. CASE q.proj = "columns"
  <2>1. 1 \in 1 .. n /\ 2 * 1 = 2
    BY <1>2
  <2> QED
    BY <1>1, <1>2, <1>6, <2>1 DEF ProjectionAt
<1>7. CASE q.proj = "grouped"
  BY <1>1, <1>2, <1>7 DEF ProjectionAt, KindIn
<1> QED
  BY <1>1, <1>3, <1>4, <1>5, <1>6, <1>7 DEF ProjectionKind

LEMMA ClauseTokens ==
  ASSUME NEW w, NEW q, NEW a, NEW n, NEW m, Formed(w, q, a, n, m)
  PROVE  /\ KindIn(w, a + 4 * m + 2) = IF q.proj = "grouped" THEN "GROUP" ELSE "EOF"
         /\ m = 0 => KindIn(w, a + 2) = IF q.proj = "grouped" THEN "GROUP" ELSE "EOF"
         /\ m # 0 => KindIn(w, a + 2) = "WHERE"
<1>1. WhereAt(w, a, m) /\ GroupAt(w, q, a + 4 * m + 2)
  BY DEF Formed, SentenceForm
<1>2. a \in Nat /\ m \in Nat
  BY FirstTokens
<1>3. KindIn(w, a + 4 * m + 2) = IF q.proj = "grouped" THEN "GROUP" ELSE "EOF"
  BY <1>1 DEF GroupAt
<1>4. m = 0 => a + 4 * m + 2 = a + 2
  BY <1>2
<1>5. m # 0 => KindIn(w, a + 2) = "WHERE"
  BY <1>1 DEF WhereAt
<1> QED
  BY <1>3, <1>4, <1>5

\* The parser on its way through a sentence of the grammar.
OnTheWay(w, q, a, n, m) ==
  ParserInv /\ PlaceInv /\ Formed(w, q, a, n, m) /\ Tracks(w, q, a, n, m)

LEMMA GoSelect ==
  ASSUME NEW w, NEW q, NEW a, NEW n, NEW m, OnTheWay(w, q, a, n, m), ParseSelect, Agrees(w, Heard)'
  PROVE  Reaches(w, q, a, n, m)'
<1>0. /\ phase = "select" /\ at = 1 /\ KindIn(w, 1) = "SELECT" /\ ParserInv
      /\ Tracks(w, q, a, n, m) /\ at \in Nat \ {0}
  BY FirstTokens DEF ParseSelect, OnTheWay, PlaceInv
<1>1. CASE Peek # "SELECT" /\ Reject(at)
  <2>1. Agrees(w, at)
    BY <1>0, <1>1, Refused
  <2> QED
    BY <1>0, <1>1, <2>1, AgreesAt DEF Peek
<1>2. CASE Take(1, "projection")
  <2>1. at' = 2 /\ phase' = "projection"
    BY <1>0, <1>2 DEF Take
  <2> QED
    BY <2>1 DEF Reaches
<1> QED
  BY <1>1, <1>2 DEF ParseSelect

LEMMA GoStar ==
  ASSUME NEW w, NEW q, NEW a, NEW n, NEW m, OnTheWay(w, q, a, n, m), ParseStar, Agrees(w, Heard)'
  PROVE  Reaches(w, q, a, n, m)'
<1>0. /\ phase = "projection" /\ at = 2 /\ Peek = "*" /\ ParserInv /\ Formed(w, q, a, n, m)
      /\ Tracks(w, q, a, n, m) /\ at \in Nat \ {0} /\ Take(1, "clauses")
      /\ ast' = [ast EXCEPT !.proj = "star"]
  BY DEF ParseStar, OnTheWay, PlaceInv
<1>1. Agrees(w, at) /\ phase' = "clauses" /\ at' = at + 1
  BY <1>0, Taken
<1>2. KindIn(w, 2) = "*"
  BY <1>0, <1>1, AgreesAt DEF Peek
<1>3. q.proj = "star" /\ a = 1
  BY <1>0, <1>2, FirstTokens
<1>4. ast'.proj = "star"
  BY <1>0, AstFields DEF AstType
<1> QED
  BY <1>0, <1>1, <1>3, <1>4 DEF Reaches

LEMMA GoCount ==
  ASSUME NEW w, NEW q, NEW a, NEW n, NEW m, OnTheWay(w, q, a, n, m), ParseCount, Agrees(w, Heard)'
  PROVE  Reaches(w, q, a, n, m)'
<1>0. /\ phase = "projection" /\ at = 2 /\ Peek = "COUNT" /\ ParserInv /\ Formed(w, q, a, n, m)
      /\ Tracks(w, q, a, n, m) /\ at \in Nat \ {0}
  BY DEF ParseCount, OnTheWay, PlaceInv
<1>1. ASSUME Agrees(w, at) PROVE q.proj = "count" /\ a = 4 /\ CountAt(w, 2)
  <2>1. KindIn(w, 2) = "COUNT"
    BY <1>0, <1>1, AgreesAt DEF Peek
  <2> QED
    BY <1>0, <2>1, FirstTokens
<1>2. CASE ~Fits(CountPattern) /\ Reject(Misfit(CountPattern))
  <2>1. PatternOf(CountPattern, 4)
    BY Patterns
  <2>2. Agrees(w, at) /\ Agrees(w, Misfit(CountPattern))
    BY <1>0, <1>2, <2>1, MisfitRefused
  <2>3. CountAt(w, 2)
    BY <1>1, <2>2
  <2>4. \A k \in 1 .. 4 : KindIn(w, at + k - 1) \in CountPattern[k]
    <3>1. /\ KindIn(w, 2) = "COUNT" /\ KindIn(w, 3) = "(" /\ KindIn(w, 4) = "*" /\ KindIn(w, 5) = ")"
      BY <2>3 DEF CountAt
    <3> QED
      BY <1>0, <3>1 DEF CountPattern
  <2> QED
    BY <1>0, <1>2, <2>1, <2>2, <2>4, Due
<1>3. CASE ast' = [ast EXCEPT !.proj = "count"] /\ Take(4, "clauses")
  <2>1. Agrees(w, at) /\ phase' = "clauses" /\ at' = at + 4
    BY <1>0, <1>3, Taken
  <2>2. ast'.proj = "count"
    BY <1>0, <1>3, AstFields DEF AstType
  <2> QED
    BY <1>0, <1>1, <2>1, <2>2 DEF Reaches
<1> QED
  BY <1>2, <1>3 DEF ParseCount

LEMMA GoSum ==
  ASSUME NEW w, NEW q, NEW a, NEW n, NEW m, OnTheWay(w, q, a, n, m), ParseSum, Agrees(w, Heard)'
  PROVE  Reaches(w, q, a, n, m)'
<1>0. /\ phase = "projection" /\ at = 2 /\ Peek = "SUM" /\ ParserInv /\ Formed(w, q, a, n, m)
      /\ Tracks(w, q, a, n, m) /\ at \in Nat \ {0}
  BY DEF ParseSum, OnTheWay, PlaceInv
<1>1. ASSUME Agrees(w, at) PROVE q.proj = "sum" /\ a = 4 /\ SumAt(w, 2)
  <2>1. KindIn(w, 2) = "SUM"
    BY <1>0, <1>1, AgreesAt DEF Peek
  <2> QED
    BY <1>0, <2>1, FirstTokens
<1>2. CASE ~Fits(SumPattern) /\ Reject(Misfit(SumPattern))
  <2>1. PatternOf(SumPattern, 4)
    BY Patterns
  <2>2. Agrees(w, at) /\ Agrees(w, Misfit(SumPattern))
    BY <1>0, <1>2, <2>1, MisfitRefused
  <2>3. SumAt(w, 2)
    BY <1>1, <2>2
  <2>4. \A k \in 1 .. 4 : KindIn(w, at + k - 1) \in SumPattern[k]
    <3>1. /\ KindIn(w, 2) = "SUM" /\ KindIn(w, 3) = "(" /\ KindIn(w, 4) = "ident" /\ KindIn(w, 5) = ")"
      BY <2>3 DEF SumAt
    <3> QED
      BY <1>0, <3>1 DEF SumPattern
  <2> QED
    BY <1>0, <1>2, <2>1, <2>2, <2>4, Due
<1>3. CASE ast' = [ast EXCEPT !.proj = "sum", !.sumCol = Text(at + 2)] /\ Take(4, "clauses")
  <2>1. Agrees(w, at) /\ phase' = "clauses" /\ at' = at + 4
    BY <1>0, <1>3, Taken
  <2>2. ast'.proj = "sum"
    BY <1>0, <1>3, AstFields DEF AstType
  <2> QED
    BY <1>0, <1>1, <2>1, <2>2 DEF Reaches
<1> QED
  BY <1>2, <1>3 DEF ParseSum

LEMMA GoFirstColumn ==
  ASSUME NEW w, NEW q, NEW a, NEW n, NEW m, OnTheWay(w, q, a, n, m), ParseFirstColumn, Agrees(w, Heard)'
  PROVE  Reaches(w, q, a, n, m)'
<1>0. /\ phase = "projection" /\ at = 2 /\ Peek = "ident" /\ ParserInv /\ Formed(w, q, a, n, m)
      /\ Tracks(w, q, a, n, m) /\ at \in Nat \ {0} /\ Take(1, "columns")
      /\ ast' = [ast EXCEPT !.proj = "columns", !.cols = <<Text(at)>>]
  BY DEF ParseFirstColumn, OnTheWay, PlaceInv
<1>1. Agrees(w, at) /\ phase' = "columns" /\ at' = at + 1
  BY <1>0, Taken
<1>2. KindIn(w, 2) = "ident"
  BY <1>0, <1>1, AgreesAt DEF Peek
<1>3. q.proj \in {"columns", "grouped"} /\ n \in Nat \ {0}
  BY <1>0, <1>2, FirstTokens
<1>4. ast'.cols = <<Text(at)>>
  BY <1>0, AstFields DEF AstType
<1>5. Len(ast'.cols) = 1
  BY <1>4
<1> QED
  BY <1>0, <1>1, <1>3, <1>5 DEF Reaches

LEMMA GoNoProjection ==
  ASSUME NEW w, NEW q, NEW a, NEW n, NEW m, OnTheWay(w, q, a, n, m), ParseNoProjection, Agrees(w, Heard)'
  PROVE  Reaches(w, q, a, n, m)'
<1>0. /\ phase = "projection" /\ at = 2 /\ Peek \notin {"*", "COUNT", "SUM", "ident"} /\ ParserInv
      /\ Formed(w, q, a, n, m) /\ Tracks(w, q, a, n, m) /\ at \in Nat \ {0} /\ Reject(at)
  BY DEF ParseNoProjection, OnTheWay, PlaceInv
<1>1. Agrees(w, at)
  BY <1>0, Refused
<1>2. KindIn(w, 2) \notin {"*", "COUNT", "SUM", "ident"}
  BY <1>0, <1>1, AgreesAt DEF Peek
<1> QED
  BY <1>0, <1>2, FirstTokens

\* The tokens behind a column of the projection.
LEMMA ColumnTokens ==
  ASSUME NEW w, NEW q, NEW a, NEW n, NEW m, Formed(w, q, a, n, m)
  PROVE  /\ q.proj = "columns" =>
              \A k \in 1 .. n : /\ k < n => KindIn(w, 2 * k + 1) = Comma /\ KindIn(w, 2 * k + 2) = "ident"
                                /\ k = n => KindIn(w, 2 * k + 1) # Comma /\ a + 2 = 2 * k + 1
         /\ q.proj = "grouped" =>
              /\ a = 6 /\ KindIn(w, 3) = Comma /\ KindIn(w, 8) # Comma
              /\ CountAt(w, 4) \/ SumAt(w, 4)
<1>1. ProjectionAt(w, q, a, n) /\ a \in Nat /\ n \in Nat
  BY FirstTokens DEF Formed, SentenceForm
<1>2. KindIn(w, a + 2) # Comma
  <2>1. KindIn(w, a + 2) \in {"WHERE", "GROUP", "EOF"}
    BY FirstTokens, ClauseTokens
  <2>2. Comma \notin {"WHERE", "GROUP", "EOF"}
    BY Zenon DEF Comma
  <2> QED
    BY <2>1, <2>2
<1>3. ASSUME q.proj = "columns", NEW k \in 1 .. n, k < n
      PROVE  KindIn(w, 2 * k + 1) = Comma /\ KindIn(w, 2 * k + 2) = "ident"
  <2>1. /\ \A j \in 1 .. n : KindIn(w, 2 * j) = "ident"
        /\ \A j \in 1 .. (n - 1) : KindIn(w, 2 * j + 1) = Comma
    BY <1>1, <1>3 DEF ProjectionAt
  <2>2. k + 1 \in 1 .. n /\ k \in 1 .. (n - 1) /\ 2 * (k + 1) = 2 * k + 2
    BY <1>1, <1>3
  <2>3. KindIn(w, 2 * (k + 1)) = "ident"
    BY <2>1, <2>2
  <2> QED
    BY <2>1, <2>2, <2>3
<1>4. ASSUME q.proj = "columns", NEW k \in 1 .. n, k = n
      PROVE  KindIn(w, 2 * k + 1) # Comma /\ a + 2 = 2 * k + 1
  <2>1. a = 2 * n - 1
    BY <1>1, <1>4 DEF ProjectionAt
  <2>2. a + 2 = 2 * k + 1
    BY <1>1, <1>4, <2>1
  <2> QED
    BY <1>2, <2>2
<1>5. ASSUME q.proj = "grouped"
      PROVE  /\ a = 6 /\ KindIn(w, 3) = Comma /\ KindIn(w, 8) # Comma
             /\ CountAt(w, 4) \/ SumAt(w, 4)
  <2>1. a = 6 /\ KindIn(w, 3) = Comma /\ (CountAt(w, 4) \/ SumAt(w, 4))
    BY <1>1, <1>5 DEF ProjectionAt
  <2>2. a + 2 = 8
    BY <2>1
  <2> QED
    BY <1>2, <2>1, <2>2
<1> QED
  BY <1>3, <1>4, <1>5

\* The comma that the parser looks at is one of the sentence's.
ColumnDue(w, q, a, n, k) ==
  /\ at = 2 * k + 1
  /\ \/ q.proj = "columns" /\ k \in 1 .. n /\ k < n /\ KindIn(w, at + 1) = "ident"
     \/ q.proj = "grouped" /\ k = 1 /\ at = 3 /\ a = 6 /\ (CountAt(w, 4) \/ SumAt(w, 4))

LEMMA ColumnIsDue ==
  ASSUME NEW w, NEW q, NEW a, NEW n, NEW m, OnTheWay(w, q, a, n, m), phase = "columns", Peek = Comma,
         Reaches(w, q, a, n, m), Agrees(w, at)
  PROVE  ColumnDue(w, q, a, n, Len(ast.cols))
<1>1. /\ at \in Nat \ {0} /\ Formed(w, q, a, n, m) /\ n \in Nat \ {0}
  BY ParserFacts, FirstTokens DEF OnTheWay
<1>2. PICK k : k = Len(ast.cols)
  OBVIOUS
<1>3. at = 2 * k + 1 /\ ((q.proj = "columns" /\ k \in 1 .. n) \/ (q.proj = "grouped" /\ k = 1))
  <2>1. /\ at = 2 * Len(ast.cols) + 1
        /\ \/ q.proj = "columns" /\ Len(ast.cols) \in 1 .. n
           \/ q.proj = "grouped" /\ Len(ast.cols) = 1
    BY Zenon DEF Reaches
  <2> QED
    BY <1>2, <2>1, Zenon
<1>4. KindIn(w, at) = Comma
  BY <1>1, AgreesAt DEF Peek
<1>5. CASE q.proj = "columns"
  <2>1. k \in 1 .. n
    BY <1>3, <1>5
  <2>2. k # n
    BY <1>1, <1>3, <1>4, <1>5, <2>1, ColumnTokens
  <2>3. k < n /\ at + 1 = 2 * k + 2
    BY <1>1, <1>3, <2>1, <2>2
  <2>4. KindIn(w, at + 1) = "ident"
    <3>1. KindIn(w, 2 * k + 2) = "ident"
      <4>1. \A i \in 1 .. n : i < n => KindIn(w, 2 * i + 2) = "ident"
        BY <1>1, <1>5, ColumnTokens
      <4> QED
        BY <2>1, <2>3, <4>1
    <3> QED
      BY <2>3, <3>1
  <2>5. at = 2 * k + 1
    BY <1>3
  <2>6. ColumnDue(w, q, a, n, k)
    BY <1>5, <2>1, <2>3, <2>4, <2>5 DEF ColumnDue
  <2> QED
    BY <1>2, <2>6
<1>6. CASE q.proj = "grouped"
  <2>1. k = 1 /\ at = 3
    BY <1>3, <1>6
  <2>2. a = 6 /\ (CountAt(w, 4) \/ SumAt(w, 4))
    BY <1>1, <1>6, ColumnTokens
  <2> QED
    BY <1>2, <1>3, <1>6, <2>1, <2>2 DEF ColumnDue
<1> QED
  BY <1>3, <1>5, <1>6

\* The aggregate that ends a grouped projection.
LEMMA GoAggregate ==
  ASSUME NEW w, NEW q, NEW a, NEW n, NEW m, OnTheWay(w, q, a, n, m), Agrees(w, Heard)',
         phase = "columns", Peek = Comma, Kind(at + 1) \in {"COUNT", "SUM"},
         NEW pattern, ListEndAt(pattern, Kind(at + 1) = "SUM"),
         \/ ~Fits(pattern) /\ Reject(Misfit(pattern))
         \/ Fits(pattern) /\ Kind(at + 5) = Comma /\ Reject(at + 5)
         \/ ast'.proj = "grouped" /\ Take(5, "clauses")
  PROVE  Reaches(w, q, a, n, m)'
<1>0. /\ at \in Nat \ {0} /\ Formed(w, q, a, n, m) /\ n \in Nat \ {0} /\ ParserInv
      /\ Tracks(w, q, a, n, m) /\ PatternOf(pattern, 5)
  BY ParserFacts, FirstTokens DEF OnTheWay, ListEndAt, PatternOf
<1>1. ASSUME Reaches(w, q, a, n, m), Agrees(w, at), NEW i \in Nat, at + 1 <= i, Agrees(w, i)
      PROVE  at = 3 /\ a = 6 /\ q.proj = "grouped" /\ KindIn(w, 4) = Kind(4)
             /\ (CountAt(w, 4) \/ SumAt(w, 4))
  <2>1. ColumnDue(w, q, a, n, Len(ast.cols))
    BY <1>1, ColumnIsDue
  <2>2. at + 1 \in Nat \ {0} /\ KindIn(w, at + 1) = Kind(at + 1)
    BY <1>0, <1>1, AgreesAt
  <2>3. KindIn(w, at + 1) # "ident"
    BY <2>2
  <2>4. at = 3 /\ a = 6 /\ q.proj = "grouped" /\ (CountAt(w, 4) \/ SumAt(w, 4))
    BY <2>1, <2>3 DEF ColumnDue
  <2>5. at + 1 = 4
    BY <2>4
  <2> QED
    BY <2>2, <2>4, <2>5
<1>2. CASE ~Fits(pattern) /\ Reject(Misfit(pattern))
  <2>1. /\ Reaches(w, q, a, n, m) /\ Agrees(w, at) /\ Agrees(w, Misfit(pattern))
        /\ Misfit(pattern) \in Nat /\ at <= Misfit(pattern)
    BY <1>0, <1>2, MisfitRefused
  <2>2. Misfit(pattern) # at
    <3>1. PICK k \in 1 .. 5 : Misfit(pattern) = at - 1 + k /\ Kind(at + k - 1) \notin pattern[k]
      BY <1>0, <1>2, MisfitAt
    <3>2. k # 1
      <4>1. Kind(at) \in pattern[1]
        BY Zenon DEF ListEndAt, Peek, Comma
      <4>2. at + 1 - 1 = at
        BY <1>0
      <4> QED
        BY <3>1, <4>1, <4>2
    <3> QED
      BY <1>0, <3>1, <3>2
  <2>3. at + 1 <= Misfit(pattern)
    BY <1>0, <2>1, <2>2
  <2>4. at = 3 /\ KindIn(w, 4) = Kind(4) /\ (CountAt(w, 4) \/ SumAt(w, 4)) /\ q.proj = "grouped"
    BY <1>1, <2>1, <2>3
  <2>5. Kind(4) \in {"COUNT", "SUM"}
    BY <2>4
  <2>6. /\ KindIn(w, 3) \in pattern[1] /\ KindIn(w, 4) \in pattern[2] /\ KindIn(w, 5) \in pattern[3]
        /\ KindIn(w, 6) \in pattern[4] /\ KindIn(w, 7) \in pattern[5]
    <3>1. KindIn(w, 3) = Comma /\ pattern[1] = {Comma}
      BY <1>0, <2>4, ColumnTokens, Zenon DEF ListEndAt, Comma
    <3>2. /\ pattern[2] = IF Kind(4) = "SUM" THEN {"SUM"} ELSE {"COUNT"}
          /\ pattern[4] = IF Kind(4) = "SUM" THEN {"ident"} ELSE {"*"}
          /\ pattern[3] = {"("} /\ pattern[5] = {")"}
      <4>1. at + 1 = 4
        BY <2>4
      <4> QED
        BY <4>1, Zenon DEF ListEndAt
    <3>3. 4 + 1 = 5 /\ 4 + 2 = 6 /\ 4 + 3 = 7
      OBVIOUS
    <3>4. CASE CountAt(w, 4)
      BY <2>4, <3>1, <3>2, <3>3, <3>4 DEF CountAt
    <3>5. CASE SumAt(w, 4)
      BY <2>4, <3>1, <3>2, <3>3, <3>5 DEF SumAt
    <3> QED
      BY <2>4, <3>4, <3>5
  <2>7. \A k \in 1 .. 5 : KindIn(w, at + k - 1) \in pattern[k]
    BY <2>4, <2>6
  <2> QED
    BY <1>0, <1>2, <2>1, <2>7, Due
<1>3. CASE Fits(pattern) /\ Kind(at + 5) = Comma /\ Reject(at + 5)
  <2>1. at + 5 \in Nat /\ at <= at + 5 /\ at + 5 # 0 /\ at + 1 <= at + 5 /\ at + 5 <= at + 5
        /\ at + 5 \in Nat \ {0}
    BY <1>0
  <2>2. Reaches(w, q, a, n, m) /\ Agrees(w, at) /\ Agrees(w, at + 5)
    BY <1>0, <1>3, <2>1, Refused
  <2>3. at = 3 /\ q.proj = "grouped"
    BY <1>1, <2>1, <2>2
  <2>4. KindIn(w, at + 5) = Kind(at + 5) /\ at + 5 = 8
    BY <2>1, <2>2, <2>3, AgreesAt
  <2>5. KindIn(w, 8) # Comma
    BY <1>0, <2>3, ColumnTokens
  <2> QED
    BY <1>3, <2>4, <2>5
<1>4. CASE ast'.proj = "grouped" /\ Take(5, "clauses")
  <2>1. at + 5 \in Nat /\ at + 1 <= at + 5 /\ 5 \in Nat
    BY <1>0
  <2>2. /\ Reaches(w, q, a, n, m) /\ Agrees(w, at) /\ Agrees(w, at + 5)
        /\ phase' = "clauses" /\ at' = at + 5
    BY <1>0, <1>4, <2>1, Taken
  <2>3. at = 3 /\ q.proj = "grouped" /\ a = 6
    BY <1>1, <2>1, <2>2
  <2> QED
    BY <1>4, <2>2, <2>3 DEF Reaches
<1> QED
  BY <1>2, <1>3, <1>4

LEMMA GoNextColumn ==
  ASSUME NEW w, NEW q, NEW a, NEW n, NEW m, OnTheWay(w, q, a, n, m), ParseNextColumn, Agrees(w, Heard)'
  PROVE  Reaches(w, q, a, n, m)'
<1>0. /\ phase = "columns" /\ Peek = Comma /\ ParserInv /\ Formed(w, q, a, n, m)
      /\ Tracks(w, q, a, n, m)
  BY Zenon DEF ParseNextColumn, OnTheWay, Comma
<1>1. /\ at \in Nat \ {0} /\ at + 1 \in Nat \ {0} /\ at <= at + 1 /\ at + 1 <= at + 1
      /\ at + 1 # 0 /\ at + 1 <= at + 2 /\ at + 2 \in Nat /\ at + 1 \in Nat /\ 2 \in Nat
  BY <1>0, ParserFacts
<1>2. ASSUME Reaches(w, q, a, n, m), Agrees(w, at), NEW i \in Nat, at + 1 <= i, Agrees(w, i)
      PROVE  \/ Kind(at + 1) = "ident" /\ q.proj = "columns"
             \/ Kind(at + 1) \in {"COUNT", "SUM"} /\ Len(ast.cols) = 1
  <2>1. ColumnDue(w, q, a, n, Len(ast.cols))
    BY <1>0, <1>2, ColumnIsDue
  <2>2. KindIn(w, at + 1) = Kind(at + 1)
    BY <1>1, <1>2, AgreesAt
  <2>3. CASE q.proj = "columns"
    BY <2>1, <2>2, <2>3 DEF ColumnDue
  <2>4. CASE q.proj # "columns"
    <3>1. Len(ast.cols) = 1 /\ at = 3 /\ (CountAt(w, 4) \/ SumAt(w, 4))
      BY <2>1, <2>4 DEF ColumnDue
    <3>2. KindIn(w, 4) \in {"COUNT", "SUM"} /\ at + 1 = 4
      BY <3>1 DEF CountAt, SumAt
    <3> QED
      BY <2>2, <3>1, <3>2
  <2> QED
    BY <2>3, <2>4
<1>3. ASSUME Reject(at + 1) PROVE \/ Kind(at + 1) = "ident"
                                  \/ Kind(at + 1) \in {"COUNT", "SUM"} /\ Len(ast.cols) = 1
  <2>1. Reaches(w, q, a, n, m) /\ Agrees(w, at) /\ Agrees(w, at + 1)
    BY <1>0, <1>1, <1>3, Refused
  <2> QED
    BY <1>1, <1>2, <2>1
<1>4. CASE /\ Kind(at + 1) = "ident"
           /\ ast' = [ast EXCEPT !.cols = Append(@, Text(at + 1))]
           /\ Take(2, "columns")
  <2>1. /\ Reaches(w, q, a, n, m) /\ Agrees(w, at) /\ Agrees(w, at + 2)
        /\ phase' = "columns" /\ at' = at + 2
    BY <1>0, <1>1, <1>4, Taken
  <2>2. q.proj = "columns"
    BY <1>1, <1>2, <1>4, <2>1
  <2>3. ColumnDue(w, q, a, n, Len(ast.cols))
    BY <1>0, <2>1, ColumnIsDue
  <2>4. PICK k \in Nat : k = Len(ast.cols)
    BY <1>0, AstFields, LenProperties
  <2>5. at = 2 * k + 1 /\ k \in 1 .. n /\ k < n /\ n \in Nat
    BY <1>0, <2>2, <2>3, <2>4, FirstTokens DEF ColumnDue
  <2>6. PICK cols : cols = Append(ast.cols, Text(at + 1))
    OBVIOUS
  <2>7. Len(cols) = k + 1
    <3>1. Text(at + 1) \in Names \ {EmptyName} /\ ast.cols \in Seq(Names \ {EmptyName})
      BY <1>0, <1>1, <1>4, ParserFacts, TokenAt, AstFields
    <3>2. PICK S : S = Names \ {EmptyName}
      OBVIOUS
    <3> QED
      BY <2>4, <2>6, <3>1, <3>2, AppendProperties
  <2>8. ast' = [ast EXCEPT !.cols = cols]
    BY <1>4, <2>6
  <2>9. ast'.cols = cols
    BY <1>0, <2>8, AstFields DEF AstType
  <2>10. at' = 2 * (k + 1) + 1 /\ k + 1 \in 1 .. n
    BY <2>1, <2>5
  <2>11. at' = 2 * Len(ast'.cols) + 1 /\ Len(ast'.cols) \in 1 .. n
    BY <2>7, <2>9, <2>10
  <2> QED
    BY <2>1, <2>2, <2>11 DEF Reaches
<1>5. ASSUME Kind(at + 1) \in {"COUNT", "SUM"}, NEW isSum, isSum = (Kind(at + 1) = "SUM"),
             NEW pattern, pattern = ListEnd(isSum),
             \/ ~Fits(pattern) /\ Reject(Misfit(pattern))
             \/ Fits(pattern) /\ Kind(at + 5) = Comma /\ Reject(at + 5)
             \/ /\ ast' = [ast EXCEPT !.proj = "grouped",
                                      !.agg = IF isSum THEN "sum" ELSE "count",
                                      !.sumCol = IF isSum THEN Text(at + 3) ELSE @]
                /\ Take(5, "clauses")
      PROVE  Reaches(w, q, a, n, m)'
  <2>1. ListEndAt(pattern, Kind(at + 1) = "SUM")
    <3>1. isSum \in BOOLEAN
      BY <1>5
    <3>2. ListEndAt(ListEnd(isSum), isSum)
      BY <3>1, ListEndIs
    <3> QED
      BY <1>5, <3>2
  <2>2. ASSUME ast' = [ast EXCEPT !.proj = "grouped",
                                  !.agg = IF isSum THEN "sum" ELSE "count",
                                  !.sumCol = IF isSum THEN Text(at + 3) ELSE @]
        PROVE  ast'.proj = "grouped"
    <3>1. PICK agg : agg = IF isSum THEN "sum" ELSE "count"
      OBVIOUS
    <3>2. PICK sumCol : sumCol = IF isSum THEN Text(at + 3) ELSE ast.sumCol
      OBVIOUS
    <3>3. ast' = [ast EXCEPT !.proj = "grouped", !.agg = agg, !.sumCol = sumCol]
      BY <2>2, <3>1, <3>2
    <3> QED
      BY <1>0, <3>3, AstFields DEF AstType
  <2> QED
    BY <1>0, <1>5, <2>1, <2>2, GoAggregate
<1> QED
  <2>1. \/ Kind(at + 1) \notin {"ident", "COUNT", "SUM"} /\ Reject(at + 1)
        \/ /\ Kind(at + 1) = "ident"
           /\ ast' = [ast EXCEPT !.cols = Append(@, Text(at + 1))]
           /\ Take(2, "columns")
        \/ Kind(at + 1) \in {"COUNT", "SUM"} /\ Len(ast.cols) # 1 /\ Reject(at + 1)
        \/ /\ Kind(at + 1) \in {"COUNT", "SUM"}
           /\ \E isSum, pattern :
                /\ isSum = (Kind(at + 1) = "SUM") /\ pattern = ListEnd(isSum)
                /\ \/ ~Fits(pattern) /\ Reject(Misfit(pattern))
                   \/ Fits(pattern) /\ Kind(at + 5) = Comma /\ Reject(at + 5)
                   \/ /\ ast' = [ast EXCEPT !.proj = "grouped",
                                            !.agg = IF isSum THEN "sum" ELSE "count",
                                            !.sumCol = IF isSum THEN Text(at + 3) ELSE @]
                      /\ Take(5, "clauses")
    BY Zenon DEF ParseNextColumn, ListEnd, Comma
  <2> QED
    BY <1>3, <1>4, <1>5, <2>1

LEMMA GoEndColumns ==
  ASSUME NEW w, NEW q, NEW a, NEW n, NEW m, OnTheWay(w, q, a, n, m), EndColumns, Agrees(w, Heard)'
  PROVE  Reaches(w, q, a, n, m)'
<1>0. /\ phase = "columns" /\ Peek # Comma /\ ParserInv /\ Formed(w, q, a, n, m) /\ ast' = ast
      /\ Tracks(w, q, a, n, m) /\ Take(0, "clauses")
  BY Zenon DEF EndColumns, OnTheWay, Comma
<1>1. at \in Nat \ {0} /\ n \in Nat /\ at + 0 = at /\ at <= at /\ 0 \in Nat /\ at \in Nat
  BY <1>0, ParserFacts, FirstTokens
<1>2. Reaches(w, q, a, n, m) /\ Agrees(w, at) /\ phase' = "clauses" /\ at' = at
  <2>1. /\ Reaches(w, q, a, n, m) /\ Agrees(w, at) /\ phase' = "clauses" /\ at' = at + 0
    BY <1>0, <1>1, Taken
  <2> QED
    BY <1>1, <2>1
<1>3. KindIn(w, at) # Comma
  <2>1. KindIn(w, at) = Kind(at)
    BY <1>1, <1>2, AgreesAt
  <2> QED
    BY <1>0, <2>1 DEF Peek
<1>4. PICK k \in Nat : k = Len(ast.cols)
  BY <1>0, AstFields, LenProperties
<1>5. at = 2 * k + 1 /\ ((q.proj = "columns" /\ k \in 1 .. n) \/ (q.proj = "grouped" /\ k = 1))
  <2>1. /\ at = 2 * Len(ast.cols) + 1
        /\ \/ q.proj = "columns" /\ Len(ast.cols) \in 1 .. n
           \/ q.proj = "grouped" /\ Len(ast.cols) = 1
    BY <1>0, <1>2, Zenon DEF Reaches
  <2> QED
    BY <1>4, <2>1, Zenon
<1>6. q.proj = "columns" /\ k \in 1 .. n
  <2>1. ~(q.proj = "grouped")
    <3> SUFFICES ASSUME q.proj = "grouped" PROVE FALSE
      OBVIOUS
    <3>1. at = 3
      BY <1>5
    <3> QED
      BY <1>0, <1>3, <3>1, ColumnTokens
  <2> QED
    BY <1>5, <2>1
<1>7. k = n
  <2>1. \A i \in 1 .. n : i < n => KindIn(w, 2 * i + 1) = Comma
    BY <1>0, <1>6, ColumnTokens
  <2>2. ~(k < n)
    BY <1>3, <1>5, <1>6, <2>1
  <2> QED
    BY <1>1, <1>6, <2>2
<1>8. at = a + 2
  <2>1. \A i \in 1 .. n : i = n => a + 2 = 2 * i + 1
    BY <1>0, <1>6, ColumnTokens
  <2> QED
    BY <1>5, <1>6, <1>7, <2>1
<1>9. ast.proj = "columns"
  BY <1>0, ParserFacts DEF AstInv
<1> QED
  BY <1>0, <1>2, <1>6, <1>8, <1>9 DEF Reaches

LEMMA GoClauses ==
  ASSUME NEW w, NEW q, NEW a, NEW n, NEW m, OnTheWay(w, q, a, n, m), ParseClauses, Agrees(w, Heard)'
  PROVE  Reaches(w, q, a, n, m)'
<1>0. /\ phase = "clauses" /\ ParserInv /\ Formed(w, q, a, n, m) /\ Tracks(w, q, a, n, m)
      /\ at \in Nat \ {0} /\ at + 0 = at /\ comps = <<>> /\ a \in Nat /\ m \in Nat
  BY ParserFacts, FirstTokens DEF ParseClauses, OnTheWay, AstInv, BeforeWhere
<1>1. ASSUME Reaches(w, q, a, n, m), Agrees(w, at)
      PROVE  /\ at = a + 2 /\ ast.proj = q.proj
             /\ m # 0 => Peek = "WHERE"
             /\ m = 0 => Peek \in {"GROUP", "EOF"} /\ at = a + 4 * m + 2
  <2>1. at = a + 2 /\ ast.proj = q.proj
    BY <1>0, <1>1 DEF Reaches
  <2>2. KindIn(w, at) = Peek
    BY <1>0, <1>1, AgreesAt DEF Peek
  <2>3. m = 0 => at = a + 4 * m + 2
    BY <1>0, <2>1
  <2> QED
    BY <1>0, <2>1, <2>2, <2>3, ClauseTokens
<1>2. CASE Peek = "FROM" /\ Reject(at)
  <2>1. Reaches(w, q, a, n, m) /\ Agrees(w, at)
    BY <1>0, <1>2, Refused
  <2> QED
    BY <1>0, <1>1, <1>2, <2>1
<1>3. CASE Peek = "WHERE" /\ Take(1, "comparison") /\ UNCHANGED <<ast, comps>>
  <2>1. Reaches(w, q, a, n, m) /\ Agrees(w, at) /\ phase' = "comparison" /\ at' = at + 1
    BY <1>0, <1>3, Taken
  <2>2. at = a + 2 /\ ast.proj = q.proj /\ m # 0
    BY <1>0, <1>1, <1>3, <2>1
  <2>3. Len(comps') = 0
    BY <1>0, <1>3
  <2>4. at' = a + 4 * 0 + 3 /\ 0 < m
    BY <1>0, <2>1, <2>2
  <2> QED
    BY <1>3, <2>1, <2>2, <2>3, <2>4 DEF Reaches
<1>4. CASE Peek # "WHERE" /\ Take(0, "group") /\ ast' = ast
  <2>1. Reaches(w, q, a, n, m) /\ Agrees(w, at) /\ phase' = "group" /\ at' = at + 0
    BY <1>0, <1>4, Taken
  <2>2. ast.proj = q.proj /\ at = a + 4 * m + 2
    BY <1>0, <1>1, <1>4, <2>1
  <2> QED
    BY <1>0, <1>4, <2>1, <2>2 DEF Reaches
<1> QED
  BY <1>2, <1>3, <1>4 DEF ParseClauses

\* The tokens of the conditions.
LEMMA WhereTokens ==
  ASSUME NEW w, NEW q, NEW a, NEW n, NEW m, Formed(w, q, a, n, m), NEW k \in Nat
  PROVE  /\ k < m => ConditionAt(w, a + 4 * k + 3)
         /\ k \in 1 .. m /\ k # m => KindIn(w, a + 4 * k + 2) \in {"AND", "OR"}
<1>1. WhereAt(w, a, m) /\ a \in Nat /\ m \in Nat
  BY FirstTokens DEF Formed, SentenceForm
<1>2. ASSUME k < m PROVE ConditionAt(w, a + 4 * k + 3)
  <2>1. \A j \in 1 .. m : ConditionAt(w, a + 4 * j - 1)
    BY <1>1, <1>2 DEF WhereAt
  <2>2. k + 1 \in 1 .. m /\ a + 4 * (k + 1) - 1 = a + 4 * k + 3
    BY <1>1, <1>2
  <2>3. ConditionAt(w, a + 4 * (k + 1) - 1)
    BY <2>1, <2>2
  <2> QED
    BY <2>2, <2>3
<1>3. ASSUME k \in 1 .. m, k # m PROVE KindIn(w, a + 4 * k + 2) \in {"AND", "OR"}
  <2>1. \A j \in 1 .. (m - 1) : KindIn(w, a + 4 * j + 2) \in {"AND", "OR"}
    BY <1>1, <1>3 DEF WhereAt
  <2>2. k \in 1 .. (m - 1)
    BY <1>1, <1>3
  <2> QED
    BY <2>1, <2>2
<1> QED
  BY <1>2, <1>3

LEMMA GoComparison ==
  ASSUME NEW w, NEW q, NEW a, NEW n, NEW m, OnTheWay(w, q, a, n, m), ParseComparison, Agrees(w, Heard)'
  PROVE  Reaches(w, q, a, n, m)'
<1>0. /\ phase = "comparison" /\ ParserInv /\ Formed(w, q, a, n, m) /\ Tracks(w, q, a, n, m)
      /\ at \in Nat \ {0} /\ a \in Nat /\ m \in Nat /\ comps \in Seq(Comparison)
  BY ParserFacts, FirstTokens DEF ParseComparison, OnTheWay
<1>1. PICK k \in Nat : k = Len(comps)
  BY <1>0, LenProperties
<1>2. ASSUME Reaches(w, q, a, n, m)
      PROVE  at = a + 4 * k + 3 /\ k < m /\ ast.proj = q.proj /\ ConditionAt(w, at)
  <2>1. at = a + 4 * Len(comps) + 3 /\ Len(comps) < m /\ ast.proj = q.proj
    BY <1>0, <1>2, Zenon DEF Reaches
  <2>2. at = a + 4 * k + 3 /\ k < m /\ ast.proj = q.proj
    BY <1>1, <2>1
  <2>3. ConditionAt(w, a + 4 * k + 3)
    BY <1>0, <2>2, WhereTokens
  <2> QED
    BY <2>2, <2>3
<1>3. PatternOf(ComparisonPattern, 3)
  BY Patterns
<1>4. CASE ~Fits(ComparisonPattern) /\ Reject(Misfit(ComparisonPattern))
  <2>1. Reaches(w, q, a, n, m) /\ Agrees(w, Misfit(ComparisonPattern))
    BY <1>0, <1>3, <1>4, MisfitRefused
  <2>2. ConditionAt(w, at)
    BY <1>2, <2>1
  <2>3. \A i \in 1 .. 3 : KindIn(w, at + i - 1) \in ComparisonPattern[i]
    <3>1. /\ at + 1 - 1 = at /\ at + 2 - 1 = at + 1 /\ at + 3 - 1 = at + 2
          /\ \A i \in 1 .. 3 : i = 1 \/ i = 2 \/ i = 3
      BY <1>0
    <3>2. /\ KindIn(w, at) \in ComparisonPattern[1] /\ KindIn(w, at + 1) \in ComparisonPattern[2]
          /\ KindIn(w, at + 2) \in ComparisonPattern[3]
      BY <2>2 DEF ConditionAt, ComparisonPattern
    <3> QED
      BY <3>1, <3>2
  <2> QED
    BY <1>0, <1>3, <1>4, <2>1, <2>3, Due
<1>5. CASE Fits(ComparisonPattern) /\ Text(at + 2) = OutOfRange /\ Reject(at + 2)
  <2>1. at + 2 \in Nat /\ at <= at + 2 /\ at + 2 # 0 /\ at + 2 \in Nat \ {0} /\ at + 2 <= at + 2
    BY <1>0
  <2>2. Reaches(w, q, a, n, m) /\ Agrees(w, at + 2)
    BY <1>0, <1>5, <2>1, Refused
  <2>3. TokenOf(w, at + 2).text # OutOfRange
    BY <1>2, <2>2 DEF ConditionAt
  <2>4. at + 2 \in DOMAIN toks
    <3>1. Kind(at + 2) # "EOF"
      <4>1. toks \in Seq(Token) /\ at \in 1 .. (Len(toks) + 1)
        BY <1>0, ParserFacts
      <4>2. at + 3 - 1 = at + 2 /\ 3 \in 1 .. 3 /\ 3 \in Nat \ {0}
        BY <1>0
      <4>3. Kind(at + 3 - 1) \in ComparisonPattern[3]
        BY <1>3, <1>5, <4>1, <4>2, FitsIs
      <4>4. "EOF" \notin ComparisonPattern[3]
        BY <1>3, <4>2 DEF PatternOf
      <4> QED
        BY <4>2, <4>3, <4>4
    <3> QED
      BY <3>1 DEF Kind
  <2>5. Text(at + 2) # OutOfRange
    BY <2>1, <2>2, <2>3, <2>4, AgreesAt
  <2> QED
    BY <1>5, <2>5
<1>6. CASE /\ Fits(ComparisonPattern) /\ Text(at + 2) # OutOfRange
           /\ comps' = Append(comps, ComparisonAt(at)) /\ Take(3, "conditions") /\ ast' = ast
  <2>1. Reaches(w, q, a, n, m) /\ phase' = "conditions" /\ at' = at + 3
    BY <1>0, <1>6, Taken
  <2>2. at = a + 4 * k + 3 /\ k < m /\ ast.proj = q.proj
    BY <1>2, <2>1
  <2>3. PICK e \in Comparison : e = ComparisonAt(at)
    <3>1. toks \in Seq(Token) /\ at \in 1 .. (Len(toks) + 1)
      BY <1>0, ParserFacts
    <3> QED
      BY <1>6, <3>1, ComparisonRead
  <2>4. Len(comps') = k + 1
    BY <1>0, <1>1, <1>6, <2>3, AppendProperties
  <2>5. at' = a + 4 * (k + 1) + 2 /\ k + 1 \in 1 .. m
    BY <1>0, <2>1, <2>2
  <2>6. at' = a + 4 * Len(comps') + 2 /\ Len(comps') \in 1 .. m
    BY <2>4, <2>5
  <2> QED
    BY <1>6, <2>1, <2>2, <2>6 DEF Reaches
<1> QED
  BY <1>4, <1>5, <1>6 DEF ParseComparison, ComparisonAt

LEMMA GoConditions ==
  ASSUME NEW w, NEW q, NEW a, NEW n, NEW m, OnTheWay(w, q, a, n, m), ParseConditions, Agrees(w, Heard)'
  PROVE  Reaches(w, q, a, n, m)'
<1>0. /\ phase = "conditions" /\ ParserInv /\ Formed(w, q, a, n, m) /\ Tracks(w, q, a, n, m)
      /\ at \in Nat \ {0} /\ at + 0 = at /\ a \in Nat /\ m \in Nat /\ comps \in Seq(Comparison)
  BY ParserFacts, FirstTokens DEF ParseConditions, OnTheWay
<1>1. PICK k \in Nat : k = Len(comps)
  BY <1>0, LenProperties
<1>2. ASSUME Reaches(w, q, a, n, m), Agrees(w, at)
      PROVE  /\ at = a + 4 * k + 2 /\ k \in 1 .. m /\ ast.proj = q.proj
             /\ k # m => Peek \in {"AND", "OR"}
             /\ k = m => Peek \in {"GROUP", "EOF"}
  <2>1. at = a + 4 * Len(comps) + 2 /\ Len(comps) \in 1 .. m /\ ast.proj = q.proj
    BY <1>0, <1>2, Zenon DEF Reaches
  <2>2. at = a + 4 * k + 2 /\ k \in 1 .. m /\ ast.proj = q.proj
    BY <1>1, <2>1
  <2>3. KindIn(w, at) = Peek
    BY <1>0, <1>2, AgreesAt DEF Peek
  <2>4. k # m => KindIn(w, at) \in {"AND", "OR"}
    BY <1>0, <2>2, WhereTokens
  <2>5. k = m => KindIn(w, at) \in {"GROUP", "EOF"}
    <3>1. KindIn(w, a + 4 * m + 2) \in {"GROUP", "EOF"}
      BY <1>0, ClauseTokens
    <3> QED
      BY <2>2, <3>1
  <2> QED
    BY <2>2, <2>3, <2>4, <2>5
<1>3. CASE Peek \in {"AND", "OR"} /\ Take(1, "comparison") /\ UNCHANGED <<ast, comps>>
  <2>1. Reaches(w, q, a, n, m) /\ Agrees(w, at) /\ phase' = "comparison" /\ at' = at + 1
    BY <1>0, <1>3, Taken
  <2>2. at = a + 4 * k + 2 /\ k \in 1 .. m /\ k # m /\ ast.proj = q.proj
    BY <1>2, <1>3, <2>1
  <2>3. at' = a + 4 * k + 3 /\ k < m
    BY <1>0, <2>1, <2>2
  <2>4. at' = a + 4 * Len(comps') + 3 /\ Len(comps') < m
    BY <1>1, <1>3, <2>3
  <2> QED
    BY <1>3, <2>1, <2>2, <2>4 DEF Reaches
<1>4. CASE Peek = "ident" /\ Reject(at)
  <2>1. Reaches(w, q, a, n, m) /\ Agrees(w, at)
    BY <1>0, <1>4, Refused
  <2> QED
    BY <1>2, <1>4, <2>1
<1>5. CASE /\ Peek \notin {"AND", "OR", "ident"}
           /\ ast' = [ast EXCEPT !.where = LowerGroups(GroupComparisons)] /\ Take(0, "group")
  <2>1. Reaches(w, q, a, n, m) /\ Agrees(w, at) /\ phase' = "group" /\ at' = at + 0
    BY <1>0, <1>5, Taken
  <2>2. at = a + 4 * k + 2 /\ k = m /\ ast.proj = q.proj
    BY <1>2, <1>5, <2>1
  <2>3. at' = a + 4 * m + 2
    BY <1>0, <2>1, <2>2
  <2>4. PICK e : e = LowerGroups(GroupComparisons)
    OBVIOUS
  <2>5. ast' = [ast EXCEPT !.where = e]
    BY <1>5, <2>4
  <2>6. ast'.proj = ast.proj
    BY <1>0, <2>5, AstFields DEF AstType
  <2> QED
    BY <2>1, <2>2, <2>3, <2>6 DEF Reaches
<1> QED
  BY <1>3, <1>4, <1>5 DEF ParseConditions

LEMMA GoGroupBy ==
  ASSUME NEW w, NEW q, NEW a, NEW n, NEW m, OnTheWay(w, q, a, n, m), ParseGroupBy, Agrees(w, Heard)'
  PROVE  Reaches(w, q, a, n, m)'
<1>0. /\ phase = "group" /\ ParserInv /\ PlaceInv /\ Formed(w, q, a, n, m) /\ Tracks(w, q, a, n, m)
      /\ at \in Nat \ {0} /\ at + 0 = at /\ a \in Nat /\ m \in Nat /\ ast.groupBy = EmptyName
      /\ toks \in Seq(Token) /\ at \in 1 .. (Len(toks) + 1) /\ (ast.proj = "grouped" => ast.cols # <<>>)
  BY ParserFacts, FirstTokens DEF ParseGroupBy, OnTheWay, AstInv
<1>1. ASSUME Reaches(w, q, a, n, m), Agrees(w, at)
      PROVE  /\ GroupAt(w, q, at) /\ ast.proj = q.proj
             /\ Peek = IF q.proj = "grouped" THEN "GROUP" ELSE "EOF"
  <2>1. at = a + 4 * m + 2 /\ ast.proj = q.proj
    BY <1>0, <1>1, Zenon DEF Reaches
  <2>2. GroupAt(w, q, at)
    BY <1>0, <2>1 DEF Formed, SentenceForm
  <2>3. KindIn(w, at) = Peek
    BY <1>0, <1>1, AgreesAt DEF Peek
  <2> QED
    BY <2>1, <2>2, <2>3 DEF GroupAt
<1>2. PatternOf(GroupByPattern, 3)
  BY Patterns
<1>3. CASE Peek # "GROUP" /\ Take(0, "end") /\ ast' = ast
  <2>1. Reaches(w, q, a, n, m) /\ Agrees(w, at) /\ phase' = "end" /\ at' = at + 0
    BY <1>0, <1>3, Taken
  <2>2. q.proj # "grouped" /\ GroupAt(w, q, at) /\ ast.proj = q.proj
    BY <1>1, <1>3, <2>1
  <2>3. KindIn(w, at) = "EOF"
    BY <2>2 DEF GroupAt
  <2>4. ValidGrouping'
    BY <1>0, <1>3, <2>2 DEF ValidGrouping
  <2> QED
    BY <1>0, <2>1, <2>3, <2>4 DEF Reaches
<1>4. CASE Peek = "GROUP" /\ ~Fits(GroupByPattern) /\ Reject(Misfit(GroupByPattern))
  <2>1. Reaches(w, q, a, n, m) /\ Agrees(w, at) /\ Agrees(w, Misfit(GroupByPattern))
    BY <1>0, <1>2, <1>4, MisfitRefused
  <2>2. q.proj = "grouped" /\ GroupAt(w, q, at)
    BY <1>1, <1>4, <2>1
  <2>3. \A i \in 1 .. 3 : KindIn(w, at + i - 1) \in GroupByPattern[i]
    <3>1. /\ at + 1 - 1 = at /\ at + 2 - 1 = at + 1 /\ at + 3 - 1 = at + 2
          /\ \A i \in 1 .. 3 : i = 1 \/ i = 2 \/ i = 3
      BY <1>0
    <3>2. KindIn(w, at) = "GROUP" /\ KindIn(w, at + 1) = "BY" /\ KindIn(w, at + 2) = "ident"
      BY <2>2 DEF GroupAt, KindIn
    <3>3. /\ KindIn(w, at) \in GroupByPattern[1] /\ KindIn(w, at + 1) \in GroupByPattern[2]
          /\ KindIn(w, at + 2) \in GroupByPattern[3]
      BY <3>2 DEF GroupByPattern
    <3> QED
      BY <3>1, <3>3
  <2> QED
    BY <1>0, <1>2, <1>4, <2>1, <2>3, Due
<1>5. CASE Fits(GroupByPattern) /\ Kind(at + 3) = Comma /\ Reject(at + 3)
  <2>1. at + 3 \in Nat /\ at <= at + 3 /\ at + 3 # 0 /\ at + 3 \in Nat \ {0} /\ at + 3 <= at + 3
    BY <1>0
  <2>2. Reaches(w, q, a, n, m) /\ Agrees(w, at) /\ Agrees(w, at + 3)
    BY <1>0, <1>5, <2>1, Refused
  <2>3. Peek = "GROUP"
    BY <1>0, <1>5, GroupByRead DEF Peek
  <2>4. KindIn(w, at + 3) = "EOF"
    BY <1>1, <2>2, <2>3 DEF GroupAt
  <2>5. KindIn(w, at + 3) = Comma
    BY <1>5, <2>1, <2>2, AgreesAt
  <2> QED
    BY <2>4, <2>5, Zenon DEF Comma
<1>6. CASE /\ Fits(GroupByPattern) /\ ast' = [ast EXCEPT !.groupBy = Text(at + 2)]
           /\ Take(3, "end")
  <2>0. at + 2 \in Nat \ {0} /\ 2 \in Nat \ {0} /\ at + 2 <= at + 3 /\ 2 <= at + 3 /\ at + 3 \in Nat
    BY <1>0
  <2>1. Reaches(w, q, a, n, m) /\ Agrees(w, at) /\ Agrees(w, at + 3) /\ phase' = "end" /\ at' = at + 3
    BY <1>0, <1>6, Taken
  <2>2. Peek = "GROUP" /\ Kind(at + 2) = "ident"
    BY <1>0, <1>6, GroupByRead DEF Peek
  <2>3. q.proj = "grouped" /\ GroupAt(w, q, at) /\ ast.proj = "grouped"
    BY <1>1, <2>1, <2>2
  <2>4. KindIn(w, at + 3) = "EOF" /\ TokenOf(w, at + 2) = [kind |-> "ident", text |-> q.groupBy]
    BY <2>3 DEF GroupAt
  <2>5. Text(at + 2) = q.groupBy
    <3>1. at + 2 \in DOMAIN toks
      BY <2>2 DEF Kind
    <3>2. toks[at + 2] = [kind |-> "ident", text |-> q.groupBy]
      BY <2>0, <2>1, <2>4, <3>1, AgreesAt
    <3> QED
      BY <3>2 DEF Text
  <2>6. Text(2) = q.groupBy
    <3>1. TokenOf(w, 2) = [kind |-> "ident", text |-> q.groupBy]
      BY <1>0, <2>3 DEF Formed, SentenceForm, ProjectionAt
    <3>2. Kind(2) = "ident"
      <4>1. KindIn(w, 2) = Kind(2)
        BY <2>0, <2>1, AgreesAt
      <4> QED
        BY <3>1, <4>1 DEF KindIn
    <3>3. 2 \in DOMAIN toks
      BY <3>2 DEF Kind
    <3>4. toks[2] = [kind |-> "ident", text |-> q.groupBy]
      BY <2>0, <2>1, <3>1, <3>3, AgreesAt
    <3> QED
      BY <3>4 DEF Text
  <2>7. ast.cols[1] = q.groupBy
    BY <1>0, <2>3, <2>6 DEF PlaceInv
  <2>8. ast'.groupBy = q.groupBy /\ ast'.proj = "grouped" /\ ast'.cols = ast.cols
    BY <1>0, <1>6, <2>3, <2>5, AstFields DEF AstType
  <2>9. ValidGrouping'
    BY <2>7, <2>8 DEF ValidGrouping
  <2> QED
    BY <2>1, <2>4, <2>9 DEF Reaches
<1> QED
  <2>1. \/ Peek # "GROUP" /\ Take(0, "end") /\ ast' = ast
        \/ Peek = "GROUP" /\ ~Fits(GroupByPattern) /\ Reject(Misfit(GroupByPattern))
        \/ Fits(GroupByPattern) /\ Kind(at + 3) = Comma /\ Reject(at + 3)
        \/ /\ Fits(GroupByPattern) /\ ast' = [ast EXCEPT !.groupBy = Text(at + 2)]
           /\ Take(3, "end")
    BY Zenon DEF ParseGroupBy, Comma
  <2> QED
    BY <1>3, <1>4, <1>5, <1>6, <2>1

LEMMA GoEnd ==
  ASSUME NEW w, NEW q, NEW a, NEW n, NEW m, OnTheWay(w, q, a, n, m), ParseEnd, Agrees(w, Heard)'
  PROVE  Reaches(w, q, a, n, m)'
<1>0. /\ phase = "end" /\ ParserInv /\ Tracks(w, q, a, n, m) /\ at \in Nat \ {0} /\ 0 \in Nat
      /\ at <= at /\ at \in Nat
  BY ParserFacts DEF ParseEnd, OnTheWay
<1>1. ASSUME Reaches(w, q, a, n, m), Agrees(w, at) PROVE Peek = "EOF" /\ ValidGrouping
  <2>1. KindIn(w, at) = "EOF" /\ ValidGrouping
    BY <1>0, <1>1, Zenon DEF Reaches
  <2> QED
    BY <1>0, <1>1, <2>1, AgreesAt DEF Peek
<1>2. ASSUME Reject(at) \/ Reject(0) PROVE Peek = "EOF" /\ ValidGrouping
  <2>1. Reaches(w, q, a, n, m) /\ Agrees(w, at)
    BY <1>0, <1>2, Refused
  <2> QED
    BY <1>1, <2>1
<1>3. CASE Take(0, "parsed")
  <2>1. phase' = "parsed"
    BY <1>3 DEF Take
  <2> QED
    BY <2>1 DEF Reaches
<1> QED
  BY <1>2, <1>3 DEF ParseEnd

\* The inductive invariant: in every sentence that the parser has found
\* nothing else than, it has come to the place where the sentence has what is
\* read next, and it has not refused it.
GrammarInv == \A w, q, a, n, m : Formed(w, q, a, n, m) => Tracks(w, q, a, n, m)

LEMMA GrammarInit == ParserInit => PlaceInv /\ GrammarInv
<1> SUFFICES ASSUME ParserInit PROVE PlaceInv /\ GrammarInv
  OBVIOUS
<1>1. phase = "select" /\ at = 1 /\ ast = EmptyQuery
  BY DEF ParserInit
<1>2. ast.cols = <<>>
  BY <1>1 DEF EmptyQuery
<1>3. PlaceInv
  BY <1>1, <1>2 DEF PlaceInv
<1>4. ASSUME NEW w, NEW q, NEW a, NEW n, NEW m PROVE Reaches(w, q, a, n, m)
  BY <1>1 DEF Reaches
<1> QED
  BY <1>3, <1>4 DEF GrammarInv, Tracks

LEMMA GrammarStep == ParserInv /\ PlaceInv /\ GrammarInv /\ [ParserNext]_pvars => GrammarInv'
<1> SUFFICES ASSUME ParserInv, PlaceInv, GrammarInv, [ParserNext]_pvars,
                    NEW w, NEW q, NEW a, NEW n, NEW m, Formed(w, q, a, n, m)
             PROVE  Tracks(w, q, a, n, m)'
  BY DEF GrammarInv, Formed, SentenceForm, ProjectionAt, WhereAt, GroupAt, CountAt, SumAt,
     ConditionAt, KindIn, TokenOf
<1>1. OnTheWay(w, q, a, n, m)
  BY DEF GrammarInv, OnTheWay
<1>2. CASE UNCHANGED pvars
  <2>1. Agrees(w, Heard)' <=> Agrees(w, Heard)
    BY <1>2 DEF Agrees, Heard, pvars
  <2>2. Reaches(w, q, a, n, m)' <=> Reaches(w, q, a, n, m)
    BY <1>2 DEF Reaches, ValidGrouping, pvars
  <2> QED
    BY <1>1, <2>1, <2>2 DEF OnTheWay, Tracks
<1>3. ASSUME ParserNext, Agrees(w, Heard)' PROVE Reaches(w, q, a, n, m)'
  BY <1>1, <1>3, GoSelect, GoStar, GoCount, GoSum, GoFirstColumn, GoNoProjection, GoNextColumn,
     GoEndColumns, GoClauses, GoComparison, GoConditions, GoGroupBy, GoEnd DEF ParserNext
<1> QED
  BY <1>2, <1>3 DEF Tracks

LEMMA GrammarInvariant == ParserSpec => [](ParserInv /\ GrammarInv)
<1>1. ParserInit => ParserInv /\ PlaceInv /\ GrammarInv
  BY ParserInvInit, GrammarInit
<1>2. ParserInv /\ PlaceInv /\ GrammarInv /\ [ParserNext]_pvars => (ParserInv /\ PlaceInv /\ GrammarInv)'
  BY ParserInvStep, PlaceStep, GrammarStep
<1> QED
  BY <1>1, <1>2, PTL DEF ParserSpec

\* A query of the grammar has a sentence of the form.
LEMMA GrammarForm ==
  ASSUME NEW q \in Grammar
  PROVE  /\ Sentence(q) \in Seq(Written)
         /\ \E a, n, m : Formed(Sentence(q), q, a, n, m)
<1>1. QueryOK(q) /\ (q.proj = "columns" => q.cols # <<>>)
  BY InputAssumption
<1>2. q.proj \in ProjectionKind
  BY <1>1 DEF QueryOK
<1>3. PICK w : w = Sentence(q)
  OBVIOUS
<1>4. w \in Seq(Written) /\ \E a, n, m : SentenceForm(w, q, a, n, m)
  BY <1>1, <1>3, SentenceIs
<1> QED
  BY <1>2, <1>3, <1>4 DEF Formed

\* No query of the grammar is refused, however its tokens came about
\* (AcceptsGrammar).
THEOREM NoneRefused == ParserSpec => []AcceptsGrammar
<1>1. ParserInv /\ GrammarInv => AcceptsGrammar
  <2> SUFFICES ASSUME ParserInv, GrammarInv, phase = "rejected", toks \in Sentences PROVE FALSE
    BY DEF AcceptsGrammar
  <2>1. PICK q \in Grammar : toks = Sentence(q)
    BY DEF Sentences
  <2>2. PICK a, n, m : Formed(toks, q, a, n, m)
    BY <2>1, GrammarForm
  <2>3. Agrees(toks, Heard)
    BY DEF Agrees
  <2>4. Reaches(toks, q, a, n, m)
    BY <2>2, <2>3 DEF GrammarInv, Tracks
  <2> QED
    BY <2>4 DEF Reaches
<1> QED
  BY <1>1, GrammarInvariant, PTL

\* Two texts that begin with the same tokens.
LEMMA SameBeginning ==
  ASSUME toks \in Seq(Token), NEW w \in Seq(Written), NEW i \in DOMAIN toks, NEW k \in DOMAIN w,
         SubSeq(toks, 1, i) = SubSeq(w, 1, k)
  PROVE  Agrees(w, i)
<1>1. DOMAIN toks = 1 .. Len(toks) /\ Len(toks) \in Nat /\ DOMAIN w = 1 .. Len(w) /\ Len(w) \in Nat
  BY LenProperties
<1>2. i \in Nat /\ k \in Nat /\ 1 <= i /\ i <= Len(toks) /\ 1 <= k /\ k <= Len(w)
  BY <1>1
<1>3. Len(SubSeq(toks, 1, i)) = i /\ \A j \in 1 .. i : SubSeq(toks, 1, i)[j] = toks[j]
  <2>1. \A j \in 1 .. i : toks[j] \in Token
    BY <1>1, <1>2, ElementOfSeq
  <2>2. /\ Len(SubSeq(toks, 1, i)) = IF 1 <= i THEN i - 1 + 1 ELSE 0
        /\ \A j \in 1 .. i - 1 + 1 : SubSeq(toks, 1, i)[j] = toks[1 + j - 1]
    BY <2>1, SubSeqProperties
  <2>3. i - 1 + 1 = i /\ \A j \in 1 .. i : 1 + j - 1 = j
    BY <1>2
  <2> QED
    BY <1>2, <2>2, <2>3
<1>4. Len(SubSeq(w, 1, k)) = k /\ \A j \in 1 .. k : SubSeq(w, 1, k)[j] = w[j]
  <2>1. \A j \in 1 .. k : w[j] \in Written
    BY <1>1, <1>2, ElementOfSeq
  <2>2. /\ Len(SubSeq(w, 1, k)) = IF 1 <= k THEN k - 1 + 1 ELSE 0
        /\ \A j \in 1 .. k - 1 + 1 : SubSeq(w, 1, k)[j] = w[1 + j - 1]
    BY <2>1, SubSeqProperties
  <2>3. k - 1 + 1 = k /\ \A j \in 1 .. k : 1 + j - 1 = j
    BY <1>2
  <2> QED
    BY <1>2, <2>2, <2>3
<1>5. i = k
  BY <1>3, <1>4
<1>6. ASSUME NEW j \in 1 .. i PROVE TokenOf(w, j) = TokenOf(toks, j)
  <2>1. w[j] = toks[j]
    BY <1>3, <1>4, <1>5
  <2>2. j \in DOMAIN w /\ j \in DOMAIN toks
    BY <1>1, <1>2, <1>5
  <2> QED
    BY <2>1, <2>2 DEF TokenOf
<1> QED
  BY <1>6 DEF Agrees

\* The token that an error names is one that is wrong: no query of the
\* grammar begins with the tokens up to it (BlameIsDue).
THEOREM BlameDue == ParserSpec => []BlameIsDue
<1>1. ParserInv /\ GrammarInv => BlameIsDue
  <2> SUFFICES ASSUME ParserInv, GrammarInv, phase = "rejected", blame \in DOMAIN toks,
                      SubSeq(toks, 1, blame) \in Beginnings
               PROVE  FALSE
    BY DEF BlameIsDue
  <2>1. PICK q \in Grammar : \E k \in DOMAIN Sentence(q) : SubSeq(toks, 1, blame) = SubSeq(Sentence(q), 1, k)
    BY DEF Beginnings, Sentences
  <2>2. PICK w : w = Sentence(q)
    OBVIOUS
  <2>3. PICK k \in DOMAIN w : SubSeq(toks, 1, blame) = SubSeq(w, 1, k)
    BY <2>1, <2>2
  <2>4. w \in Seq(Written) /\ toks \in Seq(Token)
    BY <2>2, GrammarForm, ParserFacts
  <2>5. PICK a, n, m : Formed(w, q, a, n, m)
    BY <2>2, GrammarForm
  <2>6. Agrees(w, blame)
    BY <2>3, <2>4, SameBeginning
  <2>7. blame # 0
    <3>1. DOMAIN toks = 1 .. Len(toks)
      BY <2>4, LenProperties
    <3> QED
      BY <3>1
  <2>8. Heard = blame
    BY <2>7 DEF Heard
  <2>9. Reaches(w, q, a, n, m)
    BY <2>5, <2>6, <2>8 DEF GrammarInv, Tracks
  <2> QED
    BY <2>9 DEF Reaches
<1> QED
  BY <1>1, GrammarInvariant, PTL
-----------------------------------------------------------------------------
(* A sentence has one meaning: what is written with the same tokens is the *)
(* same projection, grouping and conditions.                               *)

\* The texts with no token of some kinds, and those that are empty or begin
\* with one.
FreeOf(K)     == { s \in Seq(Written) : \A i \in 1 .. Len(s) : s[i].kind \notin K }
BeginsWith(K) == { s \in Seq(Written) : s # <<>> => s[1].kind \in K }

LEMMA FreeJoined ==
  ASSUME NEW K, NEW u \in FreeOf(K), NEW v \in FreeOf(K)
  PROVE  Cat(u, v) \in FreeOf(K)
<1>1. u \in Seq(Written) /\ v \in Seq(Written)
  BY DEF FreeOf
<1>2. PICK n \in Nat : n = Len(u)
  BY <1>1, LenProperties
<1>3. PICK l \in Nat : l = Len(v)
  BY <1>1, LenProperties
<1>4. PICK w \in Seq(Written) : w = Cat(u, v)
  BY <1>1, CatIs
<1>5. Len(w) = n + l /\ \A i \in 1 .. (n + l) : w[i] = IF i <= n THEN u[i] ELSE v[i - n]
  BY <1>1, <1>2, <1>3, <1>4, ConcatProperties DEF Cat
<1>6. ASSUME NEW i \in 1 .. Len(w) PROVE w[i].kind \notin K
  <2>1. CASE i <= n
    <3>1. i \in 1 .. Len(u) /\ w[i] = u[i]
      BY <1>2, <1>5, <2>1
    <3> QED
      BY <3>1 DEF FreeOf
  <2>2. CASE ~(i <= n)
    <3>1. i - n \in 1 .. Len(v) /\ w[i] = v[i - n]
      BY <1>3, <1>5, <2>2
    <3> QED
      BY <3>1 DEF FreeOf
  <2> QED
    BY <2>1, <2>2
<1> QED
  BY <1>4, <1>6 DEF FreeOf

LEMMA FreeBetween ==
  ASSUME NEW K, NEW gap \in FreeOf(K), NEW parts \in Seq(FreeOf(K)), parts # <<>>
  PROVE  Between(gap, parts) \in FreeOf(K)
<1>1. PICK R \in SUBSET Seq(Written) : R = FreeOf(K)
  BY DEF FreeOf
<1>2. \A u, v \in R : (u \o gap) \o v \in R
  BY <1>1, FreeJoined DEF Cat
<1> QED
  BY <1>1, <1>2, BetweenStays

\* A text of one token.
LEMMA OneToken ==
  ASSUME NEW t \in Written
  PROVE  /\ <<t>> \in Seq(Written) /\ Len(<<t>>) = 1 /\ <<t>>[1] = t
         /\ \A K : t.kind \notin K => <<t>> \in FreeOf(K)
<1>1. PICK s \in Seq(Written) : s = <<t>>
  BY AppendOne
<1>2. Len(s) = 1 /\ s[1] = t
  BY <1>1
<1>3. ASSUME NEW K, t.kind \notin K PROVE s \in FreeOf(K)
  <2>1. ASSUME NEW i \in 1 .. Len(s) PROVE s[i].kind \notin K
    BY <1>2, <1>3
  <2> QED
    BY <2>1 DEF FreeOf
<1> QED
  BY <1>1, <1>2, <1>3

\* Two texts in two parts each, the first parts of one length.
LEMMA PartsEqual ==
  ASSUME NEW u \in Seq(Written), NEW v \in Seq(Written), NEW x \in Seq(Written), NEW y \in Seq(Written),
         Len(u) = Len(x), Cat(u, v) = Cat(x, y)
  PROVE  u = x /\ v = y
<1>1. PICK n \in Nat : n = Len(u) /\ n = Len(x)
  BY LenProperties
<1>2. PICK w \in Seq(Written) : w = Cat(u, v) /\ w = Cat(x, y)
  BY CatIs
<1>3. PICK l \in Nat : l = Len(v)
  BY LenProperties
<1>4. PICK m \in Nat : m = Len(y)
  BY LenProperties
<1>5. Len(w) = n + l /\ \A i \in 1 .. (n + l) : w[i] = IF i <= n THEN u[i] ELSE v[i - n]
  BY <1>1, <1>2, <1>3, ConcatProperties DEF Cat
<1>6. Len(w) = n + m /\ \A i \in 1 .. (n + m) : w[i] = IF i <= n THEN x[i] ELSE y[i - n]
  BY <1>1, <1>2, <1>4, ConcatProperties DEF Cat
<1>7. l = m
  BY <1>5, <1>6
<1>8. ASSUME NEW i \in 1 .. n PROVE u[i] = x[i]
  <2>1. i \in 1 .. (n + l) /\ i <= n
    OBVIOUS
  <2> QED
    BY <1>5, <1>6, <1>7, <2>1
<1>9. ASSUME NEW i \in 1 .. l PROVE v[i] = y[i]
  <2>1. n + i \in 1 .. (n + l) /\ ~(n + i <= n) /\ (n + i) - n = i
    OBVIOUS
  <2>2. w[n + i] = v[i]
    BY <1>5, <2>1
  <2>3. w[n + i] = y[i]
    BY <1>6, <1>7, <2>1
  <2> QED
    BY <2>2, <2>3
<1> QED
  BY <1>1, <1>3, <1>4, <1>7, <1>8, <1>9, SeqEqual

\* What comes before the first token of some kinds is determined.
LEMMA NotShorter ==
  ASSUME NEW K, NEW u \in Seq(Written), NEW v \in BeginsWith(K), NEW x \in FreeOf(K), NEW y \in Seq(Written),
         Cat(u, v) = Cat(x, y)
  PROVE  ~(Len(u) < Len(x))
<1> SUFFICES ASSUME Len(u) < Len(x) PROVE FALSE
  OBVIOUS
<1>1. v \in Seq(Written) /\ x \in Seq(Written)
  BY DEF FreeOf, BeginsWith
<1>2. PICK n \in Nat : n = Len(u)
  BY LenProperties
<1>3. PICK l \in Nat : l = Len(v)
  BY <1>1, LenProperties
<1>4. PICK k \in Nat : k = Len(x)
  BY <1>1, LenProperties
<1>5. PICK m \in Nat : m = Len(y)
  BY LenProperties
<1>6. PICK w : w = Cat(u, v) /\ w = Cat(x, y)
  OBVIOUS
<1>7. Len(w) = n + l /\ \A i \in 1 .. (n + l) : w[i] = IF i <= n THEN u[i] ELSE v[i - n]
  BY <1>1, <1>2, <1>3, <1>6, ConcatProperties DEF Cat
<1>8. Len(w) = k + m /\ \A i \in 1 .. (k + m) : w[i] = IF i <= k THEN x[i] ELSE y[i - k]
  BY <1>1, <1>4, <1>5, <1>6, ConcatProperties DEF Cat
<1>9. n + 1 \in 1 .. (n + l) /\ n + 1 \in 1 .. (k + m) /\ ~(n + 1 <= n) /\ n + 1 <= k /\ (n + 1) - n = 1
      /\ n + 1 \in 1 .. k /\ l # 0
  BY <1>2, <1>4, <1>7, <1>8
<1>10. w[n + 1] = v[1]
  BY <1>7, <1>9
<1>11. w[n + 1] = x[n + 1]
  BY <1>8, <1>9
<1>12. v # <<>>
  BY <1>3, <1>9, EmptySeq
<1>13. v[1].kind \in K
  BY <1>12 DEF BeginsWith
<1>14. x[n + 1].kind \notin K
  BY <1>4, <1>9 DEF FreeOf
<1> QED
  BY <1>10, <1>11, <1>13, <1>14

LEMMA SplitAtFirst ==
  ASSUME NEW K, NEW u \in FreeOf(K), NEW v \in BeginsWith(K), NEW x \in FreeOf(K), NEW y \in BeginsWith(K),
         Cat(u, v) = Cat(x, y)
  PROVE  u = x /\ v = y
<1>1. u \in Seq(Written) /\ v \in Seq(Written) /\ x \in Seq(Written) /\ y \in Seq(Written)
  BY DEF FreeOf, BeginsWith
<1>2. ~(Len(u) < Len(x)) /\ ~(Len(x) < Len(u))
  BY <1>1, NotShorter
<1>3. Len(u) \in Nat /\ Len(x) \in Nat
  BY <1>1, LenProperties
<1>4. Len(u) = Len(x)
  BY <1>2, <1>3
<1> QED
  BY <1>1, <1>4, PartsEqual

\* Where the tokens of a text in two parts are.
TwoParts(w, u, v, n, l) ==
  /\ n = Len(u) /\ l = Len(v) /\ Len(w) = n + l
  /\ \A i \in 1 .. n : i \in 1 .. (n + l) /\ w[i] = u[i]
  /\ \A i \in 1 .. l : n + i \in 1 .. (n + l) /\ w[n + i] = v[i]

LEMMA CatTokens ==
  ASSUME NEW u \in Seq(Written), NEW v \in Seq(Written)
  PROVE  Cat(u, v) \in Seq(Written) /\ TwoParts(Cat(u, v), u, v, Len(u), Len(v))
<1>1. PICK n, l \in Nat : n = Len(u) /\ l = Len(v)
  BY LenProperties
<1>2. PICK w \in Seq(Written) : w = Cat(u, v)
  BY CatIs
<1>3. Len(w) = n + l /\ \A i \in 1 .. (n + l) : w[i] = IF i <= n THEN u[i] ELSE v[i - n]
  BY <1>1, <1>2, ConcatProperties DEF Cat
<1>4. ASSUME NEW i \in 1 .. n PROVE i \in 1 .. (n + l) /\ w[i] = u[i]
  BY <1>1, <1>3
<1>5. ASSUME NEW i \in 1 .. l PROVE n + i \in 1 .. (n + l) /\ w[n + i] = v[i]
  <2>1. n + i \in 1 .. (n + l) /\ ~(n + i <= n) /\ (n + i) - n = i
    BY <1>1
  <2> QED
    BY <1>3, <2>1
<1>6. TwoParts(w, u, v, n, l)
  BY <1>1, <1>3, <1>4, <1>5 DEF TwoParts
<1> QED
  BY <1>1, <1>2, <1>6

\* What comes behind the last token of a kind is determined.
LEMMA NotLonger ==
  ASSUME NEW t \in Written, NEW u \in Seq(Written), NEW v \in FreeOf({t.kind}), NEW x \in Seq(Written),
         NEW y \in Seq(Written), Cat(Cat(u, <<t>>), v) = Cat(Cat(x, <<t>>), y)
  PROVE  ~(Len(u) < Len(x))
<1> SUFFICES ASSUME Len(u) < Len(x) PROVE FALSE
  OBVIOUS
<1>1. v \in Seq(Written)
  BY DEF FreeOf
<1>2. PICK g \in Seq(Written) : g = <<t>> /\ Len(g) = 1 /\ g[1] = t
  BY OneToken
<1>3. PICK n \in Nat : n = Len(u)
  BY LenProperties
<1>4. PICK l \in Nat : l = Len(v)
  BY <1>1, LenProperties
<1>5. PICK k \in Nat : k = Len(x)
  BY LenProperties
<1>6. PICK m \in Nat : m = Len(y)
  BY LenProperties
<1>7. PICK ug \in Seq(Written) : ug = Cat(u, g) /\ Len(ug) = n + 1
  <2>1. PICK ug \in Seq(Written) : ug = Cat(u, g) /\ TwoParts(ug, u, g, Len(u), Len(g))
    BY CatTokens
  <2>2. TwoParts(ug, u, g, n, 1)
    BY <1>2, <1>3, <2>1
  <2> QED
    BY <2>1, <2>2 DEF TwoParts
<1>8. PICK xg \in Seq(Written) : xg = Cat(x, g) /\ Len(xg) = k + 1 /\ xg[k + 1] = t
  <2>1. PICK xg \in Seq(Written) : xg = Cat(x, g) /\ TwoParts(xg, x, g, Len(x), Len(g))
    BY CatTokens
  <2>2. TwoParts(xg, x, g, k, 1)
    BY <1>2, <1>5, <2>1
  <2>3. Len(xg) = k + 1 /\ xg[k + 1] = g[1]
    BY <2>2 DEF TwoParts
  <2> QED
    BY <1>2, <2>1, <2>3
<1>9. PICK w : w = Cat(ug, v) /\ w = Cat(xg, y)
  BY <1>2, <1>7, <1>8
<1>10. PICK a \in Nat : a = n + 1
  OBVIOUS
<1>11. PICK b \in Nat : b = k + 1
  OBVIOUS
<1>12. Len(w) = a + l /\ \A i \in 1 .. l : w[a + i] = v[i]
  <2>1. TwoParts(w, ug, v, Len(ug), Len(v))
    BY <1>1, <1>9, CatTokens
  <2>2. TwoParts(w, ug, v, a, l)
    BY <1>4, <1>7, <1>10, <2>1
  <2> QED
    BY <2>2 DEF TwoParts
<1>13. Len(w) = b + m /\ \A i \in 1 .. b : w[i] = xg[i]
  <2>1. TwoParts(w, xg, y, Len(xg), Len(y))
    BY <1>9, CatTokens
  <2>2. TwoParts(w, xg, y, b, m)
    BY <1>6, <1>8, <1>11, <2>1
  <2> QED
    BY <2>2 DEF TwoParts
<1>14. PICK i \in 1 .. l : a + i = b
  <2>1. a < b /\ a + l = b + m
    <3>1. n < k
      BY <1>3, <1>5
    <3>2. a + l = b + m
      BY <1>12, <1>13
    <3> QED
      BY <1>10, <1>11, <3>1, <3>2
  <2>2. b - a \in 1 .. l /\ a + (b - a) = b
    BY <1>4, <1>6, <2>1
  <2> QED
    BY <2>2
<1>15. w[b] = v[i]
  BY <1>12, <1>14
<1>16. w[b] = t
  <2>1. b \in 1 .. b
    BY <1>11
  <2> QED
    BY <1>8, <1>11, <1>13, <2>1
<1>17. v[i].kind # t.kind
  BY <1>4 DEF FreeOf
<1> QED
  BY <1>15, <1>16, <1>17

LEMMA SplitAtLast ==
  ASSUME NEW t \in Written, NEW u \in Seq(Written), NEW v \in FreeOf({t.kind}), NEW x \in Seq(Written),
         NEW y \in FreeOf({t.kind}), Cat(Cat(u, <<t>>), v) = Cat(Cat(x, <<t>>), y)
  PROVE  u = x /\ v = y
<1>1. v \in Seq(Written) /\ y \in Seq(Written) /\ <<t>> \in Seq(Written)
  BY OneToken DEF FreeOf
<1>2. ~(Len(u) < Len(x)) /\ ~(Len(x) < Len(u))
  BY <1>1, NotLonger
<1>3. Len(u) \in Nat /\ Len(x) \in Nat
  BY LenProperties
<1>4. Len(u) = Len(x)
  BY <1>2, <1>3
<1>5. /\ Cat(Cat(u, <<t>>), v) = Cat(u, Cat(<<t>>, v)) /\ Cat(Cat(x, <<t>>), y) = Cat(x, Cat(<<t>>, y))
      /\ Cat(<<t>>, v) \in Seq(Written) /\ Cat(<<t>>, y) \in Seq(Written)
  BY <1>1, CatIs
<1>6. u = x /\ Cat(<<t>>, v) = Cat(<<t>>, y)
  BY <1>4, <1>5, PartsEqual
<1>7. v = y
  BY <1>1, <1>6, PartsEqual
<1> QED
  BY <1>6, <1>7

\* A text with the token in it is not free of it.
LEMMA NotFree ==
  ASSUME NEW t \in Written, NEW u \in Seq(Written), NEW v \in Seq(Written)
  PROVE  Cat(Cat(u, <<t>>), v) \notin FreeOf({t.kind})
<1>1. PICK g \in Seq(Written) : g = <<t>> /\ Len(g) = 1 /\ g[1] = t
  BY OneToken
<1>2. PICK n \in Nat : n = Len(u)
  BY LenProperties
<1>3. PICK l \in Nat : l = Len(v)
  BY LenProperties
<1>4. PICK ug \in Seq(Written) : ug = Cat(u, g) /\ Len(ug) = n + 1 /\ ug[n + 1] = t
  <2>1. PICK ug \in Seq(Written) : ug = Cat(u, g) /\ TwoParts(ug, u, g, Len(u), Len(g))
    BY CatTokens
  <2>2. TwoParts(ug, u, g, n, 1)
    BY <1>1, <1>2, <2>1
  <2>3. Len(ug) = n + 1 /\ ug[n + 1] = g[1]
    BY <2>2 DEF TwoParts
  <2> QED
    BY <1>1, <2>1, <2>3
<1>5. PICK a \in Nat : a = n + 1
  OBVIOUS
<1>6. PICK w \in Seq(Written) : /\ w = Cat(ug, v) /\ Len(w) = a + l
                               /\ \A i \in 1 .. a : i \in 1 .. (a + l) /\ w[i] = ug[i]
  <2>1. PICK w \in Seq(Written) : w = Cat(ug, v) /\ TwoParts(w, ug, v, Len(ug), Len(v))
    BY CatTokens
  <2>2. TwoParts(w, ug, v, a, l)
    BY <1>3, <1>4, <1>5, <2>1
  <2> QED
    BY <2>1, <2>2 DEF TwoParts
<1>7. a \in 1 .. a
  BY <1>5
<1>8. w[a].kind = t.kind /\ a \in 1 .. Len(w)
  BY <1>4, <1>5, <1>6, <1>7
<1>9. w \notin FreeOf({t.kind})
  BY <1>8 DEF FreeOf
<1> QED
  BY <1>1, <1>4, <1>6, <1>9

\* Parts with a token between them that none of them has are determined.
LEMMA PartsDetermined ==
  ASSUME NEW t \in Written, NEW p \in Seq(FreeOf({t.kind})), NEW q \in Seq(FreeOf({t.kind})),
         p # <<>>, q # <<>>, Between(<<t>>, p) = Between(<<t>>, q)
  PROVE  p = q
<1>0. PICK R \in SUBSET Seq(Written) : R = FreeOf({t.kind})
  BY DEF FreeOf
<1>1. PICK g \in Seq(Written) : g = <<t>>
  BY OneToken
<1>2. ASSUME NEW s \in Seq(R), s # <<>>
      PROVE  \/ \E x \in R : s = <<x>> /\ Between(g, s) = x
             \/ \E front \in Seq(R), x \in R : /\ front # <<>> /\ s = Append(front, x)
                                               /\ Between(g, front) \in Seq(Written)
                                               /\ Between(g, s) = Cat(Cat(Between(g, front), g), x)
                                               /\ Between(g, s) \notin R
  <2>1. PICK front \in Seq(R), x \in R : s = Append(front, x)
    BY <1>2, SequenceEmptyOrAppend
  <2>2. front \in Seq(Seq(Written)) /\ x \in Seq(Written)
    OBVIOUS
  <2>3. CASE front = <<>>
    <3>1. s = <<x>>
      BY <2>1, <2>3
    <3>2. Between(g, <<x>>) = x
      BY <2>2, BetweenOne
    <3> QED
      BY <3>1, <3>2
  <2>4. CASE front # <<>>
    <3>1. Between(g, s) = Cat(Cat(Between(g, front), g), x) /\ Between(g, front) \in Seq(Written)
      BY <2>1, <2>2, <2>4, BetweenMore DEF Cat
    <3>2. Between(g, s) \notin R
      BY <1>0, <1>1, <2>2, <3>1, NotFree
    <3> QED
      BY <2>1, <2>4, <3>1, <3>2
  <2> QED
    BY <2>3, <2>4
<1> DEFINE Same(a, b) == Between(g, a) = Between(g, b) => a = b
           Good == { n \in Nat : \A a, b \in Seq(R) : Len(a) = n + 1 /\ b # <<>> => Same(a, b) }
       Ends(a, b, fa, fb, x) == /\ a = Append(fa, x) /\ b = Append(fb, x)
                                /\ fa # <<>> /\ fb # <<>>
                                /\ Between(g, fa) = Between(g, fb)
<1>3. ASSUME NEW a \in Seq(R), NEW b \in Seq(R), a # <<>>, b # <<>>, Between(g, a) = Between(g, b), a # b
      PROVE  \E fa, fb \in Seq(R), x \in R : Ends(a, b, fa, fb, x)
  <2>1. CASE \E x \in R : a = <<x>> /\ Between(g, a) = x
    <3>1. Between(g, a) \in R
      BY <2>1
    <3>2. PICK y \in R : b = <<y>> /\ Between(g, b) = y
      BY <1>2, <1>3, <3>1
    <3> QED
      BY <1>3, <2>1, <3>2
  <2>2. CASE \E y \in R : b = <<y>> /\ Between(g, b) = y
    <3>1. Between(g, b) \in R
      BY <2>2
    <3>2. PICK x \in R : a = <<x>> /\ Between(g, a) = x
      BY <1>2, <1>3, <3>1
    <3> QED
      BY <1>3, <2>2, <3>2
  <2>3. CASE ~(\E x \in R : a = <<x>> /\ Between(g, a) = x) /\ ~(\E y \in R : b = <<y>> /\ Between(g, b) = y)
    <3>1. PICK fa \in Seq(R), x \in R : /\ fa # <<>> /\ a = Append(fa, x)
                                        /\ Between(g, fa) \in Seq(Written)
                                        /\ Between(g, a) = Cat(Cat(Between(g, fa), g), x)
      BY <1>2, <1>3, <2>3
    <3>2. PICK fb \in Seq(R), y \in R : /\ fb # <<>> /\ b = Append(fb, y)
                                        /\ Between(g, fb) \in Seq(Written)
                                        /\ Between(g, b) = Cat(Cat(Between(g, fb), g), y)
      BY <1>2, <1>3, <2>3
    <3>3. Between(g, fa) = Between(g, fb) /\ x = y
      <4>1. PICK u, v \in Seq(Written) : u = Between(g, fa) /\ v = Between(g, fb)
        BY <3>1, <3>2
      <4>2. Cat(Cat(u, g), x) = Cat(Cat(v, g), y)
        BY <1>3, <3>1, <3>2, <4>1
      <4>3. u = v /\ x = y
        <5>1. x \in FreeOf({t.kind}) /\ y \in FreeOf({t.kind})
          BY <1>0
        <5>2. Cat(Cat(u, <<t>>), x) = Cat(Cat(v, <<t>>), y)
          BY <1>1, <4>2
        <5> QED
          BY <5>1, <5>2, SplitAtLast
      <4> QED
        BY <4>1, <4>3
    <3> QED
      BY <3>1, <3>2, <3>3
  <2> QED
    BY <2>1, <2>2, <2>3
<1>4. 0 \in Good
  <2> SUFFICES ASSUME NEW a \in Seq(R), NEW b \in Seq(R), Len(a) = 0 + 1, b # <<>>,
                      Between(g, a) = Between(g, b), a # b
               PROVE  FALSE
    OBVIOUS
  <2>1. a # <<>>
    <3>1. 0 + 1 # 0
      OBVIOUS
    <3> QED
      BY <3>1, EmptySeq
  <2>2. PICK fa, fb \in Seq(R), x \in R : Ends(a, b, fa, fb, x)
    <3> HIDE DEF Ends
    <3> QED
      BY <1>3, <2>1, Zenon
  <2>3. Len(fa) \in Nat \ {0} /\ Len(a) = Len(fa) + 1
    BY <2>2, EmptySeq, AppendProperties
  <2>4. ~(Len(fa) + 1 = 0 + 1)
    BY <2>3
  <2> QED
    BY <2>1, <2>3, <2>4
<1>5. ASSUME NEW n \in Good PROVE n + 1 \in Good
  <2> SUFFICES ASSUME NEW a \in Seq(R), NEW b \in Seq(R), Len(a) = (n + 1) + 1, b # <<>>,
                      Between(g, a) = Between(g, b), a # b
               PROVE  FALSE
    OBVIOUS
  <2>1. n \in Nat /\ a # <<>>
    BY EmptySeq
  <2>2. PICK fa, fb \in Seq(R), x \in R : Ends(a, b, fa, fb, x)
    <3> HIDE DEF Ends
    <3> QED
      BY <1>3, <2>1, Zenon
  <2>3. Len(fa) = n + 1
    <3>1. Len(fa) \in Nat /\ Len(a) = Len(fa) + 1
      BY <2>2, LenProperties, AppendProperties
    <3> QED
      BY <2>1, <3>1
  <2>4. Same(fa, fb)
    BY <2>2, <2>3
  <2> QED
    BY <2>2, <2>4
<1>6. Good = Nat
  <2> HIDE DEF Good
  <2>1. Good \in SUBSET Nat
    BY DEF Good
  <2> QED
    BY <1>4, <1>5, <2>1, SetInduction
<1>7. PICK n \in Nat : Len(p) = n + 1
  <2>1. Len(p) \in Nat \ {0}
    BY <1>0, EmptySeq
  <2>2. Len(p) - 1 \in Nat /\ Len(p) = (Len(p) - 1) + 1
    BY <2>1
  <2> QED
    BY <2>2
<1>8. n \in Good
  BY <1>6
<1>9. Same(p, q)
  BY <1>0, <1>7, <1>8
<1> QED
  BY <1>1, <1>9

-----------------------------------------------------------------------------
(* Which tokens the parts of a sentence have.                              *)

ConditionKinds  == {"ident", "op", "AND", "OR"} \cup ColumnType
ProjectionKinds == {"ident", "*", "(", ")", "COUNT", "SUM", Comma}

LEMMA IdentFree ==
  ASSUME NEW n \in Names, NEW K, "ident" \notin K
  PROVE  Ident(n) \in FreeOf(K)
<1>1. PICK t \in Written : t = [kind |-> "ident", text |-> n]
  BY IdentType
<1>2. t.kind \notin K
  BY <1>1
<1>3. <<t>> \in FreeOf(K)
  BY <1>2, OneToken
<1> QED
  BY <1>1, <1>3 DEF Ident

LEMMA SymFree ==
  ASSUME NEW k \in Keyword \cup Punctuation, NEW K, k \notin K
  PROVE  Sym(k) \in FreeOf(K)
<1>1. PICK t \in Written : t = [kind |-> k, text |-> k]
  BY DEF Written, Token
<1>2. t.kind \notin K
  BY <1>1
<1>3. <<t>> \in FreeOf(K)
  BY <1>2, OneToken
<1> QED
  BY <1>1, <1>3 DEF Sym

LEMMA ComparisonFree ==
  ASSUME NEW e \in Comparison, NEW K, K \cap ({"ident", "op"} \cup ColumnType) = {}
  PROVE  ComparisonTokens(e) \in FreeOf(K)
<1>1. PICK a, b, z : /\ a = [kind |-> "ident", text |-> e.col] /\ b = [kind |-> "op", text |-> e.op]
                     /\ z = [kind |-> e.lit.type, text |-> e.lit.bits]
  OBVIOUS
<1>2. PICK s \in Seq(Written) : s = <<a, b, z>> /\ s = ComparisonTokens(e)
  BY <1>1, ComparisonTokensAre
<1>3. Len(s) = 3 /\ s[1] = a /\ s[2] = b /\ s[3] = z
  BY <1>2
<1>4. a.kind \notin K /\ b.kind \notin K /\ z.kind \notin K
  <2>1. e.lit \in Literal
    BY DEF Comparison
  <2>2. e.lit.type \in ColumnType
    BY <2>1 DEF Literal
  <2>3. a.kind = "ident" /\ b.kind = "op" /\ z.kind = e.lit.type
    BY <1>1
  <2> QED
    BY <2>2, <2>3
<1>5. ASSUME NEW i \in 1 .. Len(s) PROVE s[i].kind \notin K
  <2>1. i = 1 \/ i = 2 \/ i = 3
    BY <1>3
  <2> QED
    BY <1>3, <1>4, <2>1
<1> QED
  BY <1>2, <1>5 DEF FreeOf

LEMMA TermsFree ==
  ASSUME NEW terms \in Seq(Comparison), terms # <<>>,
         NEW K, K \cap ({"ident", "op", "AND"} \cup ColumnType) = {}
  PROVE  /\ TermTokens(terms) \in FreeOf(K)
         /\ CompText \in [Comparison -> FreeOf(K)]
<1>1. PICK R : R = FreeOf(K)
  OBVIOUS
<1>2. CompText \in [Comparison -> R]
  BY <1>1, ComparisonFree DEF CompText
<1>3. Mapped(CompText, terms) \in Seq(R) /\ Mapped(CompText, terms) # <<>>
  BY <1>2, MappedType
<1>4. Sym("AND") \in R
  <2>1. "AND" \notin K /\ "AND" \in Keyword \cup Punctuation
    BY DEF Keyword
  <2> QED
    BY <1>1, <2>1, SymFree
<1>5. Between(Sym("AND"), Mapped(CompText, terms)) \in R
  BY <1>1, <1>3, <1>4, FreeBetween
<1> QED
  BY <1>1, <1>2, <1>5, TermTokensAre

\* The terms of each disjunct, and the texts of them.
TermsOf(x)    == [i \in 1 .. Len(Disjuncts(x.where)) |-> Terms(x, i)]
TermGroups    == { m \in Seq(Comparison) : m # <<>> }
GroupTexts    == [m \in TermGroups |-> TermTokens(m)]

LEMMA TermsOfType ==
  ASSUME NEW x, QueryOK(x)
  PROVE  /\ TermsOf(x) \in Seq(TermGroups) /\ LengthIs(TermsOf(x), Len(Disjuncts(x.where)))
         /\ Filtered(x) <=> TermsOf(x) # <<>>
         /\ ConditionTokens(x.where) = Between(Sym("OR"), Mapped(GroupTexts, TermsOf(x)))
<1>1. PICK D : D = Disjuncts(x.where)
  OBVIOUS
<1>2. D \in Seq(Comparison \cup [kind : {"and"}, kids : Seq(Comparison)]) /\ (Filtered(x) <=> D # <<>>)
  BY <1>1 DEF QueryOK
<1>3. PICK n \in Nat : n = Len(D) /\ DOMAIN D = 1 .. n
  BY <1>2, LenProperties
<1>4. ASSUME NEW i \in 1 .. n PROVE Terms(x, i) \in TermGroups
  <2>1. Terms(x, i) \in Seq(Comparison) /\ Terms(x, i) # <<>>
    BY <1>1, <1>3, TermsType DEF QueryOK
  <2> QED
    BY <2>1 DEF TermGroups
<1>5. PICK T : T = TermsOf(x)
  OBVIOUS
<1>6. T = [i \in 1 .. n |-> Terms(x, i)]
  BY <1>1, <1>3, <1>5 DEF TermsOf
<1>7. T \in [1 .. n -> TermGroups]
  BY <1>4, <1>6
<1>8. T \in Seq(TermGroups)
  BY <1>7, FunctionIsSeq
<1>9. DOMAIN T = 1 .. n /\ Len(T) = n
  BY <1>6, <1>8, LenProperties
<1>10. Filtered(x) <=> T # <<>>
  BY <1>2, <1>3, <1>8, <1>9, EmptySeq
<1>11. [i \in DOMAIN D |-> TermTokens(Conjuncts(D[i]))] = Mapped(GroupTexts, T)
  <2>1. ASSUME NEW i \in 1 .. n PROVE TermTokens(Conjuncts(D[i])) = GroupTexts[T[i]]
    <3>1. Conjuncts(D[i]) = Terms(x, i) /\ T[i] = Terms(x, i)
      BY <1>1, <1>6 DEF Terms
    <3> QED
      BY <1>4, <3>1 DEF GroupTexts
  <2> QED
    BY <1>3, <1>9, <2>1 DEF Mapped
<1>12. ConditionTokens(x.where) = Between(Sym("OR"), Mapped(GroupTexts, T))
  BY <1>1, <1>11 DEF ConditionTokens
<1> QED
  BY <1>1, <1>3, <1>5, <1>8, <1>9, <1>10, <1>12 DEF LengthIs

LEMMA ConditionsFree ==
  ASSUME NEW x, QueryOK(x), Filtered(x), NEW K, K \cap ConditionKinds = {}
  PROVE  ConditionTokens(x.where) \in FreeOf(K)
<1>1. PICK R : R = FreeOf(K)
  OBVIOUS
<1>2. K \cap ({"ident", "op", "AND"} \cup ColumnType) = {} /\ "OR" \notin K
  BY DEF ConditionKinds
<1>3. GroupTexts \in [TermGroups -> R]
  BY <1>1, <1>2, TermsFree DEF GroupTexts, TermGroups
<1>4. Mapped(GroupTexts, TermsOf(x)) \in Seq(R) /\ Mapped(GroupTexts, TermsOf(x)) # <<>>
  BY <1>3, TermsOfType, MappedType
<1>5. Sym("OR") \in R
  BY <1>1, <1>2, SymFree DEF Keyword
<1> QED
  BY <1>1, <1>4, <1>5, TermsOfType, FreeBetween

LEMMA ListedFree ==
  ASSUME NEW names \in Seq(Names), names # <<>>, NEW K, "ident" \notin K, Comma \notin K
  PROVE  Listed(names) \in FreeOf(K)
<1>1. PICK R : R = FreeOf(K)
  OBVIOUS
<1>2. IdentText \in [Names -> R]
  BY <1>1, IdentFree DEF IdentText
<1>3. Mapped(IdentText, names) \in Seq(R) /\ Mapped(IdentText, names) # <<>>
  BY <1>2, MappedType
<1>4. Sym(Comma) \in R
  <2>1. Comma \in Keyword \cup Punctuation
    BY Zenon DEF Punctuation, Comma
  <2> QED
    BY <1>1, <2>1, SymFree
<1>5. Between(Sym(Comma), Mapped(IdentText, names)) \in R
  BY <1>1, <1>3, <1>4, FreeBetween
<1>6. Listed(names) = Between(Sym(Comma), Mapped(IdentText, names))
  BY ListedIs, Zenon DEF Comma
<1> QED
  BY <1>1, <1>5, <1>6

LEMMA AggregateIs ==
  ASSUME NEW x, x.sumCol \in Names, x.agg \in Aggregate
  PROVE  /\ \A K : K \cap ProjectionKinds = {} => AggregateText(x) \in FreeOf(K)
         /\ AggregateText(x) \in Seq(Written)
         /\ CountTokens \in Seq(Written) /\ CountTokens[1].kind = "COUNT"
         /\ SumTokens(x) \in Seq(Written) /\ SumTokens(x)[1].kind = "SUM"
         /\ SumTokens(x)[3].text = x.sumCol
<1>1. PICK a \in Written : a = [kind |-> "SUM", text |-> "SUM"]
  BY DEF Written, Token, Keyword
<1>2. PICK b \in Written : b = [kind |-> "(", text |-> "("]
  BY DEF Written, Token, Punctuation
<1>3. PICK z \in Written : z = [kind |-> "ident", text |-> x.sumCol]
  BY IdentType
<1>4. PICK y \in Written : y = [kind |-> ")", text |-> ")"]
  BY DEF Written, Token, Punctuation
<1>5. PICK e \in Written : e = [kind |-> "COUNT", text |-> "COUNT"]
  BY DEF Written, Token, Keyword
<1>6. PICK f \in Written : f = [kind |-> "*", text |-> "*"]
  BY DEF Written, Token, Punctuation
<1>7. PICK s \in Seq(Written) : s = <<a, b, z, y>> /\ s = SumTokens(x)
  <2>1. SumTokens(x) = Cat(Cat(Cat(<<a>>, <<b>>), <<z>>), <<y>>)
    BY <1>1, <1>2, <1>3, <1>4 DEF SumTokens, Cat, Sym, Ident
  <2>2. /\ <<a, b, z, y>> \in Seq(Written)
        /\ Cat(Cat(Cat(<<a>>, <<b>>), <<z>>), <<y>>) = <<a, b, z, y>>
    BY FourTokens
  <2> QED
    BY <2>1, <2>2, Zenon
<1>8. PICK r \in Seq(Written) : r = <<e, b, f, y>> /\ r = CountTokens
  <2>1. CountTokens = Cat(Cat(Cat(<<e>>, <<b>>), <<f>>), <<y>>)
    BY <1>2, <1>4, <1>5, <1>6 DEF CountTokens, Cat, Sym
  <2>2. /\ <<e, b, f, y>> \in Seq(Written)
        /\ Cat(Cat(Cat(<<e>>, <<b>>), <<f>>), <<y>>) = <<e, b, f, y>>
    BY FourTokens
  <2> QED
    BY <2>1, <2>2, Zenon
<1>9. ASSUME NEW K, K \cap ProjectionKinds = {} PROVE s \in FreeOf(K) /\ r \in FreeOf(K)
  <2>1. a.kind \notin K /\ b.kind \notin K /\ z.kind \notin K /\ y.kind \notin K /\ e.kind \notin K /\ f.kind \notin K
    BY <1>1, <1>2, <1>3, <1>4, <1>5, <1>6, <1>9 DEF ProjectionKinds
  <2>2. ASSUME NEW i \in 1 .. 4 PROVE s[i].kind \notin K /\ r[i].kind \notin K
    <3>1. i = 1 \/ i = 2 \/ i = 3 \/ i = 4
      OBVIOUS
    <3> QED
      BY <1>7, <1>8, <2>1, <3>1
  <2>3. Len(s) = 4 /\ Len(r) = 4
    BY <1>7, <1>8
  <2> QED
    BY <2>2, <2>3 DEF FreeOf
<1>10. s[1].kind = "SUM" /\ s[3].text = x.sumCol /\ r[1].kind = "COUNT"
  BY <1>1, <1>3, <1>5, <1>7, <1>8
<1>11. AggregateText(x) = s \/ AggregateText(x) = r
  BY <1>7, <1>8 DEF AggregateText
<1> QED
  BY <1>7, <1>8, <1>9, <1>10, <1>11

LEMMA ProjectionFree ==
  ASSUME NEW x, QueryOK(x), x.proj = "columns" => x.cols # <<>>, NEW K, K \cap ProjectionKinds = {}
  PROVE  ProjectionTokens(x) \in FreeOf(K)
<1>1. /\ x.proj \in ProjectionKind /\ x.agg \in Aggregate /\ x.cols \in Seq(Names)
      /\ x.sumCol \in Names /\ x.groupBy \in Names
  BY DEF QueryOK
<1>2. "ident" \notin K /\ Comma \notin K /\ "*" \notin K
  BY DEF ProjectionKinds
<1>3. CASE x.proj = "star"
  <2>1. Sym("*") \in FreeOf(K)
    BY <1>2, SymFree DEF Punctuation
  <2> QED
    BY <1>3, <2>1 DEF ProjectionTokens
<1>4. CASE x.proj \in {"count", "sum"}
  <2>1. PICK y : /\ y = [agg |-> x.proj, sumCol |-> x.sumCol]
    OBVIOUS
  <2>2. y.agg \in Aggregate /\ y.sumCol \in Names /\ AggregateText(y) = ProjectionTokens(x)
    BY <1>1, <1>4, <2>1 DEF Aggregate, AggregateText, ProjectionTokens, SumTokens
  <2> QED
    BY <2>2, AggregateIs
<1>5. CASE x.proj = "columns"
  BY <1>1, <1>2, <1>5, ListedFree DEF ProjectionTokens
<1>6. CASE x.proj = "grouped"
  <2>1. Ident(x.groupBy) \in FreeOf(K) /\ AggregateText(x) \in FreeOf(K)
    BY <1>1, <1>2, IdentFree, AggregateIs
  <2>2. Sym(Comma) \in FreeOf(K)
    <3>1. Comma \in Keyword \cup Punctuation
      BY Zenon DEF Punctuation, Comma
    <3> QED
      BY <1>2, <3>1, SymFree
  <2>3. ProjectionTokens(x) = Cat(Cat(Ident(x.groupBy), Sym(Comma)), AggregateText(x))
    BY <1>6 DEF ProjectionTokens, AggregateText, Cat, Comma
  <2> QED
    BY <2>1, <2>2, <2>3, FreeJoined
<1> QED
  BY <1>1, <1>3, <1>4, <1>5, <1>6 DEF ProjectionKind

-----------------------------------------------------------------------------
(* What the parts are written with determines them.                        *)

LEMMA MappedOnce ==
  ASSUME NEW S, NEW R, NEW h \in [S -> R], \A a, b \in S : h[a] = h[b] => a = b,
         NEW s \in Seq(S), NEW t \in Seq(S), Mapped(h, s) = Mapped(h, t)
  PROVE  s = t
<1>1. PICK n \in Nat : n = Len(s) /\ DOMAIN s = 1 .. n
  BY LenProperties
<1>2. PICK m \in Nat : m = Len(t) /\ DOMAIN t = 1 .. m
  BY LenProperties
<1>3. PICK u \in Seq(R) : u = Mapped(h, s) /\ u = Mapped(h, t) /\ Len(u) = n /\ Len(u) = m
  <2>1. Mapped(h, s) \in Seq(R) /\ LengthIs(Mapped(h, s), Len(s)) /\ LengthIs(Mapped(h, t), Len(t))
    BY MappedType
  <2> QED
    BY <1>1, <1>2, <2>1 DEF LengthIs
<1>4. ASSUME NEW i \in 1 .. n PROVE s[i] = t[i]
  <2>1. u[i] = h[s[i]] /\ u[i] = h[t[i]]
    BY <1>1, <1>2, <1>3 DEF Mapped
  <2>2. s[i] \in S /\ t[i] \in S
    BY <1>1, <1>2, <1>3, ElementOfSeq
  <2> QED
    BY <2>1, <2>2
<1> QED
  BY <1>1, <1>2, <1>3, <1>4, SeqEqual

LEMMA IdentOnce ==
  ASSUME NEW n, NEW m, Ident(n) = Ident(m)
  PROVE  n = m
<1>1. PICK t, u : t = [kind |-> "ident", text |-> n] /\ u = [kind |-> "ident", text |-> m]
  OBVIOUS
<1>2. <<t>> = <<u>>
  BY <1>1 DEF Ident
<1>3. t = u
  BY <1>2
<1>4. t.text = n /\ u.text = m
  BY <1>1
<1> QED
  BY <1>3, <1>4

LEMMA ListedOnce ==
  ASSUME NEW names \in Seq(Names), NEW others \in Seq(Names), names # <<>>, others # <<>>,
         Listed(names) = Listed(others)
  PROVE  names = others
<1>1. Comma \in Keyword \cup Punctuation
  BY Zenon DEF Punctuation, Comma
<1>2. PICK t \in Written : t = [kind |-> Comma, text |-> Comma]
  BY <1>1 DEF Written, Token
<1>3. t.kind = Comma /\ Sym(Comma) = <<t>>
  BY <1>2 DEF Sym
<1>4. PICK R : R = FreeOf({Comma})
  OBVIOUS
<1>5. "ident" \notin {Comma}
  <2>1. "ident" # Comma
    BY Zenon DEF Comma
  <2> QED
    BY <2>1
<1>6. IdentText \in [Names -> R] /\ \A a, b \in Names : IdentText[a] = IdentText[b] => a = b
  BY <1>4, <1>5, IdentFree, IdentOnce DEF IdentText
<1>7. /\ Mapped(IdentText, names) \in Seq(R) /\ Mapped(IdentText, names) # <<>>
      /\ Mapped(IdentText, others) \in Seq(R) /\ Mapped(IdentText, others) # <<>>
  BY <1>6, MappedType
<1>8. /\ Listed(names) = Between(Sym(Comma), Mapped(IdentText, names))
      /\ Listed(others) = Between(Sym(Comma), Mapped(IdentText, others))
  BY ListedIs, Zenon DEF Comma
<1>9. PICK p, q \in Seq(R) : /\ p = Mapped(IdentText, names) /\ q = Mapped(IdentText, others)
                             /\ p # <<>> /\ q # <<>>
  BY <1>7
<1>10. Between(<<t>>, p) = Between(<<t>>, q)
  BY <1>3, <1>8, <1>9
<1>11. p = q
  BY <1>3, <1>4, <1>9, <1>10, PartsDetermined
<1> QED
  BY <1>6, <1>9, <1>11, MappedOnce

LEMMA ComparisonOnce ==
  ASSUME NEW e \in Comparison, NEW f \in Comparison, ComparisonTokens(e) = ComparisonTokens(f)
  PROVE  e = f
<1>1. PICK a, b, z : /\ a = [kind |-> "ident", text |-> e.col] /\ b = [kind |-> "op", text |-> e.op]
                     /\ z = [kind |-> e.lit.type, text |-> e.lit.bits]
  OBVIOUS
<1>2. PICK u, v, w : /\ u = [kind |-> "ident", text |-> f.col] /\ v = [kind |-> "op", text |-> f.op]
                     /\ w = [kind |-> f.lit.type, text |-> f.lit.bits]
  OBVIOUS
<1>3. <<a, b, z>> = <<u, v, w>>
  BY <1>1, <1>2, ComparisonTokensAre
<1>4. a = u /\ b = v /\ z = w
  BY <1>3
<1>5. e.col = f.col /\ e.op = f.op /\ e.lit.type = f.lit.type /\ e.lit.bits = f.lit.bits
  <2>1. e.col = a.text /\ e.op = b.text /\ e.lit.type = z.kind /\ e.lit.bits = z.text
    BY <1>1
  <2>2. f.col = u.text /\ f.op = v.text /\ f.lit.type = w.kind /\ f.lit.bits = w.text
    BY <1>2
  <2> QED
    BY <1>4, <2>1, <2>2
<1>6. e.lit = f.lit
  BY <1>5 DEF Comparison, Literal
<1> QED
  BY <1>5, <1>6 DEF Comparison

LEMMA TermsOnce ==
  ASSUME NEW m \in TermGroups, NEW k \in TermGroups, TermTokens(m) = TermTokens(k)
  PROVE  m = k
<1>1. m \in Seq(Comparison) /\ k \in Seq(Comparison) /\ m # <<>> /\ k # <<>>
  BY DEF TermGroups
<1>2. PICK t \in Written : t = [kind |-> "AND", text |-> "AND"]
  BY DEF Written, Token, Keyword
<1>3. t.kind = "AND" /\ Sym("AND") = <<t>>
  BY <1>2 DEF Sym
<1>4. PICK R : R = FreeOf({"AND"})
  OBVIOUS
<1>5. {"AND"} \cap ({"ident", "op"} \cup ColumnType) = {}
  BY DEF ColumnType
<1>6. CompText \in [Comparison -> R] /\ \A a, b \in Comparison : CompText[a] = CompText[b] => a = b
  BY <1>4, <1>5, ComparisonFree, ComparisonOnce DEF CompText
<1>7. PICK p, q \in Seq(R) : /\ p = Mapped(CompText, m) /\ q = Mapped(CompText, k)
                             /\ p # <<>> /\ q # <<>>
  <2>1. Mapped(CompText, m) \in Seq(R) /\ Mapped(CompText, m) # <<>>
    BY <1>1, <1>6, MappedType
  <2>2. Mapped(CompText, k) \in Seq(R) /\ Mapped(CompText, k) # <<>>
    BY <1>1, <1>6, MappedType
  <2> QED
    BY <2>1, <2>2
<1>8. Between(<<t>>, p) = Between(<<t>>, q)
  <2>1. /\ TermTokens(m) = Between(Sym("AND"), Mapped(CompText, m))
        /\ TermTokens(k) = Between(Sym("AND"), Mapped(CompText, k))
    BY <1>1, TermTokensAre
  <2> QED
    BY <2>1, <1>3, <1>7
<1>9. p = q
  BY <1>3, <1>4, <1>7, <1>8, PartsDetermined
<1> QED
  BY <1>1, <1>6, <1>7, <1>9, MappedOnce

LEMMA ConditionsOnce ==
  ASSUME NEW x, NEW y, QueryOK(x), QueryOK(y), Filtered(x), Filtered(y),
         ConditionTokens(x.where) = ConditionTokens(y.where)
  PROVE  TermsOf(x) = TermsOf(y)
<1>1. PICK m, k \in Seq(TermGroups) : m = TermsOf(x) /\ k = TermsOf(y) /\ m # <<>> /\ k # <<>>
  BY TermsOfType
<1>2. PICK t \in Written : t = [kind |-> "OR", text |-> "OR"]
  BY DEF Written, Token, Keyword
<1>3. t.kind = "OR" /\ Sym("OR") = <<t>>
  BY <1>2 DEF Sym
<1>4. PICK R : R = FreeOf({"OR"})
  OBVIOUS
<1>5. {"OR"} \cap ({"ident", "op", "AND"} \cup ColumnType) = {}
  BY DEF ColumnType
<1>6. GroupTexts \in [TermGroups -> R] /\ \A a, b \in TermGroups : GroupTexts[a] = GroupTexts[b] => a = b
  <2>1. \A a \in TermGroups : TermTokens(a) \in R
    BY <1>4, <1>5, TermsFree DEF TermGroups
  <2>2. \A a, b \in TermGroups : TermTokens(a) = TermTokens(b) => a = b
    BY TermsOnce
  <2> QED
    BY <2>1, <2>2 DEF GroupTexts
<1>7. PICK p, q \in Seq(R) : /\ p = Mapped(GroupTexts, m) /\ q = Mapped(GroupTexts, k)
                             /\ p # <<>> /\ q # <<>>
  BY <1>1, <1>6, MappedType
<1>8. Between(<<t>>, p) = Between(<<t>>, q)
  BY <1>1, <1>3, <1>7, TermsOfType
<1>9. p = q
  BY <1>3, <1>4, <1>7, <1>8, PartsDetermined
<1> QED
  BY <1>1, <1>6, <1>7, <1>9, MappedOnce

-----------------------------------------------------------------------------
(* A sentence determines its projection, its conditions and its grouping.  *)

\* The queries that the grammar can write.
Writable(x) == QueryOK(x) /\ (x.proj = "columns" => x.cols # <<>>)

\* What the fields of two queries have in common when they ask for the same.
SameProjection(x, y) ==
  /\ x.proj = y.proj
  /\ x.proj = "columns" => x.cols = y.cols
  /\ x.proj = "grouped" => x.groupBy = y.groupBy /\ x.agg = y.agg
  /\ Sums(x) => x.sumCol = y.sumCol
SameMeaning(x, y) ==
  SameProjection(x, y) /\ (Filtered(x) <=> Filtered(y)) /\ TermsOf(x) = TermsOf(y)

LEMMA BegunWith ==
  ASSUME NEW k \in Keyword, NEW v \in Seq(Written)
  PROVE  Cat(Sym(k), v) \in BeginsWith({k}) /\ Cat(Sym(k), v) # <<>>
<1>1. PICK t \in Written : t = [kind |-> k, text |-> k]
  BY DEF Written, Token
<1>2. PICK u \in Seq(Written) : u = <<t>> /\ u = Sym(k) /\ Len(u) = 1 /\ u[1] = t
  BY <1>1, OneToken DEF Sym
<1>3. PICK l \in Nat : l = Len(v)
  BY LenProperties
<1>4. PICK w \in Seq(Written) : w = Cat(u, v) /\ Len(w) = 1 + l /\ w[1] = u[1]
  <2>1. Cat(u, v) \in Seq(Written) /\ TwoParts(Cat(u, v), u, v, 1, l)
    BY <1>2, <1>3, CatTokens
  <2> QED
    BY <2>1 DEF TwoParts
<1>5. w # <<>> /\ w[1].kind \in {k}
  BY <1>1, <1>2, <1>3, <1>4
<1> QED
  BY <1>2, <1>4, <1>5 DEF BeginsWith

LEMMA NothingBegins == \A K : <<>> \in BeginsWith(K) /\ <<>> \in FreeOf(K)
BY DEF BeginsWith, FreeOf

LEMMA SentenceParts ==
  ASSUME NEW x, Writable(x)
  PROVE  /\ Sentence(x) = Cat(Cat(Cat(Sym("SELECT"), ProjectionTokens(x)), WhereOf(x)), GroupClause(x))
         /\ Cat(Sym("SELECT"), ProjectionTokens(x)) \in FreeOf({"WHERE"})
         /\ Cat(Cat(Sym("SELECT"), ProjectionTokens(x)), WhereOf(x)) \in FreeOf({"GROUP"})
         /\ WhereOf(x) \in BeginsWith({"WHERE"}) /\ (WhereOf(x) # <<>> <=> Filtered(x))
         /\ GroupClause(x) \in BeginsWith({"GROUP"}) /\ (GroupClause(x) # <<>> <=> x.proj = "grouped")
<1>0. QueryOK(x) /\ (x.proj = "columns" => x.cols # <<>>) /\ x.groupBy \in Names
  BY DEF Writable, QueryOK
<1>1. Sentence(x) = Cat(Cat(Cat(Sym("SELECT"), ProjectionTokens(x)), WhereOf(x)), GroupClause(x))
  <2>1. WhereOf(x) = IF Filtered(x) THEN Sym("WHERE") \o ConditionTokens(x.where) ELSE <<>>
    BY DEF WhereOf, Cat
  <2>2. GroupClause(x) = IF x.proj = "grouped" THEN Sym("GROUP") \o Sym("BY") \o Ident(x.groupBy) ELSE <<>>
    BY DEF GroupClause, Cat
  <2>3. Sentence(x) = ((Sym("SELECT") \o ProjectionTokens(x)) \o WhereOf(x)) \o GroupClause(x)
    BY <2>1, <2>2 DEF Sentence
  <2> QED
    BY <2>3 DEF Cat
<1>2. ASSUME NEW k \in {"WHERE", "GROUP"}
      PROVE  Cat(Sym("SELECT"), ProjectionTokens(x)) \in FreeOf({k})
  <2>1. Sym("SELECT") \in FreeOf({k})
    BY SymFree DEF Keyword
  <2>2. {k} \cap ProjectionKinds = {}
    <3>1. k # Comma
      BY Zenon DEF Comma
    <3> QED
      BY <3>1 DEF ProjectionKinds
  <2>3. ProjectionTokens(x) \in FreeOf({k})
    BY <1>0, <2>2, ProjectionFree
  <2> QED
    BY <2>1, <2>3, FreeJoined
<1>3. Filtered(x) => /\ WhereOf(x) \in FreeOf({"GROUP"}) /\ WhereOf(x) \in BeginsWith({"WHERE"})
                     /\ WhereOf(x) # <<>>
  <2> HAVE Filtered(x)
  <2>1. WhereOf(x) = Cat(Sym("WHERE"), ConditionTokens(x.where))
    BY DEF WhereOf
  <2>2. {"GROUP"} \cap ConditionKinds = {}
    BY DEF ConditionKinds, ColumnType
  <2>3. ConditionTokens(x.where) \in FreeOf({"GROUP"})
    BY <1>0, <2>2, ConditionsFree
  <2>4. Sym("WHERE") \in FreeOf({"GROUP"})
    BY SymFree DEF Keyword
  <2>5. WhereOf(x) \in FreeOf({"GROUP"})
    BY <2>1, <2>3, <2>4, FreeJoined
  <2>6. ConditionTokens(x.where) \in Seq(Written) /\ "WHERE" \in Keyword
    BY <2>3 DEF FreeOf, Keyword
  <2> QED
    BY <2>1, <2>5, <2>6, BegunWith
<1>4. ~Filtered(x) => WhereOf(x) = <<>>
  BY DEF WhereOf
<1>5. WhereOf(x) \in FreeOf({"GROUP"}) /\ WhereOf(x) \in BeginsWith({"WHERE"}) /\ (WhereOf(x) # <<>> <=> Filtered(x))
  BY <1>3, <1>4, NothingBegins
<1>6. x.proj = "grouped" => GroupClause(x) \in BeginsWith({"GROUP"}) /\ GroupClause(x) # <<>>
  <2> HAVE x.proj = "grouped"
  <2>1. PICK b, i \in Seq(Written) : b = Sym("BY") /\ i = Ident(x.groupBy)
    BY <1>0, SymType, IdentType DEF Keyword
  <2>2. PICK g \in Seq(Written) : g = Sym("GROUP")
    BY SymType DEF Keyword
  <2>3. GroupClause(x) = Cat(g, Cat(b, i))
    BY <2>1, <2>2, CatOn DEF GroupClause
  <2>4. Cat(b, i) \in Seq(Written) /\ "GROUP" \in Keyword
    BY CatIs DEF Keyword
  <2> QED
    BY <2>2, <2>3, <2>4, BegunWith
<1>7. x.proj # "grouped" => GroupClause(x) = <<>>
  BY DEF GroupClause
<1>8. GroupClause(x) \in BeginsWith({"GROUP"}) /\ (GroupClause(x) # <<>> <=> x.proj = "grouped")
  BY <1>6, <1>7, NothingBegins
<1>9. Cat(Cat(Sym("SELECT"), ProjectionTokens(x)), WhereOf(x)) \in FreeOf({"GROUP"})
  BY <1>2, <1>5, FreeJoined
<1> QED
  BY <1>1, <1>2, <1>5, <1>8, <1>9

LEMMA FirstOfProjection ==
  ASSUME NEW x, Writable(x)
  PROVE  KindIn(ProjectionTokens(x), 1) =
           CASE x.proj = "star"  -> "*"
             [] x.proj = "count" -> "COUNT"
             [] x.proj = "sum"   -> "SUM"
             [] OTHER            -> "ident"
<1>1. PICK s : s = ProjectionTokens(x)
  OBVIOUS
<1>2. PICK n : ProjectionText(s, x, n)
  BY <1>1, ProjectionTextIs DEF Writable
<1>3. x.proj = "columns" => KindIn(s, 1) = "ident"
  <2> HAVE x.proj = "columns"
  <2>1. ListForm(s, n) /\ n \in Nat \ {0}
    BY <1>2 DEF ProjectionText
  <2>2. 1 \in 1 .. n /\ 2 * 1 - 1 = 1
    BY <2>1
  <2>3. KindIn(s, 2 * 1 - 1) = "ident"
    BY <2>1, <2>2 DEF ListForm
  <2> QED
    BY <2>2, <2>3
<1>4. x.proj = "grouped" => KindIn(s, 1) = "ident"
  BY <1>2 DEF ProjectionText, KindIn
<1>5. /\ x.proj = "star" => KindIn(s, 1) = "*"
      /\ x.proj = "count" => KindIn(s, 1) = "COUNT"
      /\ x.proj = "sum" => KindIn(s, 1) = "SUM"
  BY <1>2 DEF ProjectionText, CountAt, SumAt
<1>6. x.proj \in {"columns", "star", "count", "sum", "grouped"}
  BY DEF Writable, QueryOK, ProjectionKind
<1> QED
  BY <1>1, <1>3, <1>4, <1>5, <1>6

LEMMA SumOnce ==
  ASSUME NEW x, NEW y, x.sumCol \in Names, y.sumCol \in Names, SumTokens(x) = SumTokens(y)
  PROVE  x.sumCol = y.sumCol
<1>1. PICK u, v : /\ u = [agg |-> "sum", sumCol |-> x.sumCol]
                  /\ v = [agg |-> "sum", sumCol |-> y.sumCol]
  OBVIOUS
<1>2. /\ u.agg \in Aggregate /\ v.agg \in Aggregate /\ u.sumCol = x.sumCol /\ v.sumCol = y.sumCol
  BY <1>1 DEF Aggregate
<1>3. SumTokens(u) = SumTokens(x) /\ SumTokens(v) = SumTokens(y)
  BY <1>2 DEF SumTokens
<1>4. SumTokens(u)[3].text = x.sumCol /\ SumTokens(v)[3].text = y.sumCol
  BY <1>2, AggregateIs
<1> QED
  BY <1>3, <1>4

LEMMA AggregateOnce ==
  ASSUME NEW x, NEW y, QueryOK(x), QueryOK(y), AggregateText(x) = AggregateText(y)
  PROVE  x.agg = y.agg /\ (x.agg = "sum" => x.sumCol = y.sumCol)
<1>1. x.agg \in Aggregate /\ y.agg \in Aggregate /\ x.sumCol \in Names /\ y.sumCol \in Names
  BY DEF QueryOK
<1>2. /\ CountTokens[1].kind = "COUNT" /\ SumTokens(x)[1].kind = "SUM" /\ SumTokens(y)[1].kind = "SUM"
  BY <1>1, AggregateIs
<1>3. SumTokens(x) # CountTokens /\ SumTokens(y) # CountTokens
  BY <1>2
<1>4. x.agg = y.agg
  BY <1>1, <1>3 DEF AggregateText, Aggregate
<1>5. x.agg = "sum" => SumTokens(x) = SumTokens(y)
  BY <1>4 DEF AggregateText
<1> QED
  BY <1>1, <1>4, <1>5, SumOnce

LEMMA ProjectionOnce ==
  ASSUME NEW x, NEW y, Writable(x), Writable(y), ProjectionTokens(x) = ProjectionTokens(y),
         GroupClause(x) = GroupClause(y)
  PROVE  SameProjection(x, y)
<1>0. /\ QueryOK(x) /\ QueryOK(y) /\ x.proj \in ProjectionKind /\ y.proj \in ProjectionKind
      /\ x.groupBy \in Names /\ y.groupBy \in Names /\ x.sumCol \in Names /\ y.sumCol \in Names
      /\ x.cols \in Seq(Names) /\ y.cols \in Seq(Names)
  BY DEF Writable, QueryOK
<1>1. x.proj = "grouped" <=> y.proj = "grouped"
  BY SentenceParts
<1>2. x.proj = y.proj
  <2>1. PICK k : k = KindIn(ProjectionTokens(x), 1) /\ k = KindIn(ProjectionTokens(y), 1)
    OBVIOUS
  <2>2. k = CASE x.proj = "star"  -> "*"
              [] x.proj = "count" -> "COUNT"
              [] x.proj = "sum"   -> "SUM"
              [] OTHER            -> "ident"
    BY <2>1, FirstOfProjection
  <2>3. k = CASE y.proj = "star"  -> "*"
              [] y.proj = "count" -> "COUNT"
              [] y.proj = "sum"   -> "SUM"
              [] OTHER            -> "ident"
    BY <2>1, FirstOfProjection
  <2> QED
    BY <1>0, <1>1, <2>2, <2>3 DEF ProjectionKind
<1>3. x.proj = "columns" => x.cols = y.cols
  <2> HAVE x.proj = "columns"
  <2>1. /\ Listed(x.cols) = Listed(y.cols) /\ x.cols # <<>> /\ y.cols # <<>>
    BY <1>2 DEF ProjectionTokens, Writable
  <2> QED
    BY <1>0, <2>1, ListedOnce
<1>4. x.proj = "sum" => x.sumCol = y.sumCol
  <2> HAVE x.proj = "sum"
  <2>1. SumTokens(x) = SumTokens(y)
    BY <1>2 DEF ProjectionTokens
  <2> QED
    BY <1>0, <2>1, SumOnce
<1>5. x.proj = "grouped" => x.groupBy = y.groupBy /\ x.agg = y.agg /\ (x.agg = "sum" => x.sumCol = y.sumCol)
  <2> HAVE x.proj = "grouped"
  <2>1. PICK i, j \in Seq(Written) : i = Ident(x.groupBy) /\ j = Ident(y.groupBy) /\ Len(i) = 1 /\ Len(j) = 1
    BY <1>0, KindOfIdent
  <2>2. PICK z \in Seq(Written) : z = Cat(Sym("GROUP"), Sym("BY"))
    <3>1. Sym("GROUP") \in Seq(Written) /\ Sym("BY") \in Seq(Written)
      BY SymType DEF Keyword
    <3> QED
      BY <3>1, CatIs
  <2>3. Cat(z, i) = Cat(z, j)
    BY <1>2, <2>1, <2>2 DEF GroupClause
  <2>4. x.groupBy = y.groupBy
    BY <2>1, <2>3, PartsEqual, IdentOnce
  <2>5. PICK g \in Seq(Written) : g = Sym(Comma)
    <3>1. Comma \in Keyword \cup Punctuation
      BY Zenon DEF Punctuation, Comma
    <3> QED
      BY <3>1, SymType
  <2>6. /\ ProjectionTokens(x) = Cat(Cat(i, g), AggregateText(x))
        /\ ProjectionTokens(y) = Cat(Cat(j, g), AggregateText(y))
    BY <1>2, <2>1, <2>5 DEF ProjectionTokens, AggregateText, Cat, Comma
  <2>7. PICK h \in Seq(Written) : h = Cat(i, g) /\ h = Cat(j, g)
    BY <2>1, <2>4, CatIs
  <2>8. PICK s, t \in Seq(Written) : s = AggregateText(x) /\ t = AggregateText(y)
    BY <1>0, AggregateIs DEF QueryOK
  <2>9. Cat(h, s) = Cat(h, t)
    BY <2>6, <2>7, <2>8
  <2>10. s = t
    BY <2>9, PartsEqual
  <2> QED
    BY <1>0, <2>4, <2>8, <2>10, AggregateOnce
<1> QED
  BY <1>2, <1>3, <1>4, <1>5 DEF SameProjection, Sums

\* A text of the grammar has one meaning: two queries that are written with
\* the same tokens have the same projection, grouping and conditions, however
\* the conditions are nested (parseQuery and what it calls never have a choice
\* to make).
THEOREM OneMeaning ==
  ASSUME NEW x, NEW y, Writable(x), Writable(y), Sentence(x) = Sentence(y)
  PROVE  SameMeaning(x, y)
<1>0. QueryOK(x) /\ QueryOK(y)
  BY DEF Writable
<1>1. PICK hx, hy : /\ hx = Cat(Sym("SELECT"), ProjectionTokens(x))
                    /\ hy = Cat(Sym("SELECT"), ProjectionTokens(y))
  OBVIOUS
<1>2. PICK wx, wy : wx = WhereOf(x) /\ wy = WhereOf(y)
  OBVIOUS
<1>3. PICK gx, gy : gx = GroupClause(x) /\ gy = GroupClause(y)
  OBVIOUS
<1>4. /\ hx \in FreeOf({"WHERE"}) /\ Cat(hx, wx) \in FreeOf({"GROUP"}) /\ wx \in BeginsWith({"WHERE"})
      /\ gx \in BeginsWith({"GROUP"}) /\ Sentence(x) = Cat(Cat(hx, wx), gx)
      /\ (wx # <<>> <=> Filtered(x))
  BY <1>1, <1>2, <1>3, SentenceParts
<1>5. /\ hy \in FreeOf({"WHERE"}) /\ Cat(hy, wy) \in FreeOf({"GROUP"}) /\ wy \in BeginsWith({"WHERE"})
      /\ gy \in BeginsWith({"GROUP"}) /\ Sentence(y) = Cat(Cat(hy, wy), gy)
      /\ (wy # <<>> <=> Filtered(y))
  BY <1>1, <1>2, <1>3, SentenceParts
<1>6. Cat(hx, wx) = Cat(hy, wy) /\ gx = gy
  <2>1. PICK u, v \in FreeOf({"GROUP"}) : u = Cat(hx, wx) /\ v = Cat(hy, wy)
    BY <1>4, <1>5
  <2>2. Cat(u, gx) = Cat(v, gy)
    BY <1>4, <1>5, <2>1
  <2>3. u = v /\ gx = gy
    BY <1>4, <1>5, <2>2, SplitAtFirst
  <2> QED
    BY <2>1, <2>3
<1>7. hx = hy /\ wx = wy
  BY <1>4, <1>5, <1>6, SplitAtFirst
<1>8. ProjectionTokens(x) = ProjectionTokens(y)
  <2>1. PICK s \in Seq(Written) : s = Sym("SELECT")
    BY SymType DEF Keyword
  <2>2. PICK p, q \in Seq(Written) : p = ProjectionTokens(x) /\ q = ProjectionTokens(y)
    BY ProjectionTextIs DEF Writable
  <2> QED
    BY <1>1, <1>7, <2>1, <2>2, PartsEqual
<1>9. SameProjection(x, y)
  BY <1>3, <1>6, <1>8, ProjectionOnce
<1>10. Filtered(x) <=> Filtered(y)
  BY <1>4, <1>5, <1>7
<1>11. TermsOf(x) = TermsOf(y)
  <2>1. CASE ~Filtered(x)
    BY <1>0, <1>10, <2>1, TermsOfType
  <2>2. CASE Filtered(x)
    <3>1. PICK s \in Seq(Written) : s = Sym("WHERE")
      BY SymType DEF Keyword
    <3>2. {"GROUP"} \cap ConditionKinds = {}
      BY DEF ConditionKinds, ColumnType
    <3>3. PICK p, q \in Seq(Written) : p = ConditionTokens(x.where) /\ q = ConditionTokens(y.where)
      BY <1>0, <1>10, <2>2, <3>2, ConditionsFree DEF FreeOf
    <3>4. Cat(s, p) = Cat(s, q)
      BY <1>2, <1>7, <1>10, <2>2, <3>1, <3>3 DEF WhereOf
    <3>5. p = q
      BY <3>4, PartsEqual
    <3> QED
      BY <1>0, <1>10, <2>2, <3>3, <3>5, ConditionsOnce
  <2> QED
    BY <2>1, <2>2
<1> QED
  BY <1>9, <1>10, <1>11 DEF SameMeaning

-----------------------------------------------------------------------------
(* Queries with the same meaning have the same answer on every segment.    *)

LEMMA SameTerms ==
  ASSUME NEW x, NEW y, QueryOK(x), QueryOK(y), SameMeaning(x, y)
  PROVE  /\ DOMAIN Disjuncts(x.where) = DOMAIN Disjuncts(y.where)
         /\ \A i \in DOMAIN Disjuncts(x.where) : Terms(x, i) = Terms(y, i)
<1>1. PICK D, E : D = Disjuncts(x.where) /\ E = Disjuncts(y.where)
  OBVIOUS
<1>2. PICK n \in Nat : n = Len(D) /\ DOMAIN D = 1 .. n
  BY <1>1, LenProperties DEF QueryOK
<1>3. PICK m \in Nat : m = Len(E) /\ DOMAIN E = 1 .. m
  BY <1>1, LenProperties DEF QueryOK
<1>4. PICK t : t = TermsOf(x) /\ t = TermsOf(y)
  BY DEF SameMeaning
<1>5. n = m
  BY <1>1, <1>2, <1>3, <1>4, TermsOfType DEF LengthIs
<1>6. ASSUME NEW i \in 1 .. n PROVE Terms(x, i) = Terms(y, i)
  <2>1. t[i] = Terms(x, i)
    BY <1>1, <1>2, <1>4 DEF TermsOf
  <2>2. t[i] = Terms(y, i)
    BY <1>1, <1>3, <1>4, <1>5 DEF TermsOf
  <2> QED
    BY <2>1, <2>2
<1> QED
  BY <1>1, <1>2, <1>3, <1>5, <1>6

LEMMA SameColumns ==
  ASSUME NEW x, NEW y, QueryOK(x), QueryOK(y), SameMeaning(x, y), NEW s
  PROVE  /\ ProjectedColumns(s, x) = ProjectedColumns(s, y)
         /\ Sums(x) <=> Sums(y)
         /\ Selected(s, x) = Selected(s, y)
         /\ Mentioned(s, x) = Mentioned(s, y)
<1>0. /\ x.proj = y.proj /\ (x.proj = "columns" => x.cols = y.cols)
      /\ (x.proj = "grouped" => x.groupBy = y.groupBy /\ x.agg = y.agg)
      /\ (Sums(x) => x.sumCol = y.sumCol)
      /\ (Filtered(x) <=> Filtered(y))
  BY DEF SameMeaning, SameProjection
<1>1. Sums(x) <=> Sums(y)
  BY <1>0 DEF Sums
<1>2. ProjectedColumns(s, x) = ProjectedColumns(s, y)
  BY <1>0 DEF ProjectedColumns, Sums
<1>3. Selected(s, x) = Selected(s, y)
  <2>1. ASSUME NEW r PROVE (\E i \in DOMAIN Disjuncts(x.where) : r \in MeetsAll(s, Terms(x, i)))
                             <=> (\E i \in DOMAIN Disjuncts(y.where) : r \in MeetsAll(s, Terms(y, i)))
    BY SameTerms
  <2> QED
    BY <1>0, <2>1 DEF Selected
<1>4. WhereColumns(x) = WhereColumns(y)
  <2>1. ASSUME NEW e PROVE (\E i \in DOMAIN Disjuncts(x.where) : \E j \in DOMAIN Terms(x, i) : Terms(x, i)[j].col = e)
                             <=> (\E i \in DOMAIN Disjuncts(y.where) : \E j \in DOMAIN Terms(y, i) : Terms(y, i)[j].col = e)
    BY SameTerms
  <2> QED
    BY <2>1 DEF WhereColumns
<1>5. /\ { e \in {x.groupBy} : x.proj = "grouped" } = { e \in {y.groupBy} : y.proj = "grouped" }
      /\ { e \in {x.sumCol} : Sums(x) } = { e \in {y.sumCol} : Sums(y) }
  BY <1>0, <1>1
<1>6. Mentioned(s, x) = Mentioned(s, y)
  BY <1>2, <1>4, <1>5 DEF Mentioned
<1> QED
  BY <1>1, <1>2, <1>3, <1>6

\* A sum depends on no more of a query than the column to sum.
SumOver(s, col, S) ==
  LET upTo[r \in 0 .. s.rows] ==
        IF r = 0 THEN 0
        ELSE upTo[r - 1] + (IF r \in S THEN Value(s, col, r) ELSE 0)
  IN  upTo[s.rows]

LEMMA SumOverColumn ==
  \A s, x, S : SumIn(s, x, S) = SumOver(s, x.sumCol, S)
BY DEF SumIn, SumOver

LEMMA SameGrouping ==
  ASSUME NEW x, NEW y, QueryOK(x), QueryOK(y), SameMeaning(x, y), NEW s
  PROVE  /\ \A S : Sums(x) => SumIn(s, x, S) = SumIn(s, y, S)
         /\ \A S : AggregateOf(s, x, S) = AggregateOf(s, y, S)
         /\ GroupsOf(s, x) = GroupsOf(s, y)
         /\ x.proj = "grouped" =>
              Leaders(s, x) = Leaders(s, y) /\ \A r : GroupOf(s, x, r) = GroupOf(s, y, r)
<1>0. /\ x.proj = y.proj /\ (x.proj = "grouped" => x.groupBy = y.groupBy)
      /\ (Sums(x) => x.sumCol = y.sumCol)
  BY DEF SameMeaning, SameProjection
<1>1. (Sums(x) <=> Sums(y)) /\ Selected(s, x) = Selected(s, y)
  BY SameColumns
<1>2. ASSUME NEW S, Sums(x) PROVE SumIn(s, x, S) = SumIn(s, y, S)
  <2>1. SumIn(s, x, S) = SumOver(s, x.sumCol, S) /\ SumIn(s, y, S) = SumOver(s, y.sumCol, S)
    BY SumOverColumn
  <2> QED
    BY <1>0, <1>2, <2>1
<1>3. ASSUME NEW S PROVE AggregateOf(s, x, S) = AggregateOf(s, y, S)
  <2>1. CASE ~Sums(x)
    BY <1>1, <2>1 DEF AggregateOf
  <2>2. CASE Sums(x)
    <3>1. PICK col : col = x.sumCol /\ col = y.sumCol
      BY <1>0, <2>2
    <3>2. PICK n : n = SumIn(s, x, S) /\ n = SumIn(s, y, S)
      BY <1>2, <2>2
    <3> QED
      BY <1>1, <2>2, <3>1, <3>2 DEF AggregateOf
  <2> QED
    BY <2>1, <2>2
<1>4. x.proj = "grouped" => \A r : GroupOf(s, x, r) = GroupOf(s, y, r)
  BY <1>0, <1>1 DEF GroupOf
<1>5. x.proj = "grouped" => Leaders(s, x) = Leaders(s, y)
  BY <1>1, <1>4 DEF Leaders
<1>6. GroupsOf(s, x) = GroupsOf(s, y)
  BY <1>0, <1>1, <1>4, <1>5 DEF GroupsOf
<1> QED
  BY <1>2, <1>3, <1>4, <1>5, <1>6

LEMMA SameAnswer ==
  ASSUME NEW x, NEW y, QueryOK(x), QueryOK(y), SameMeaning(x, y), NEW s
  PROVE  /\ Faults(s, x) = Faults(s, y) /\ (Overflows(s, x) <=> Overflows(s, y))
         /\ RowsOf(s, x) = RowsOf(s, y)
<1>0. /\ x.proj = y.proj /\ (x.proj = "grouped" => x.groupBy = y.groupBy)
      /\ (Sums(x) => x.sumCol = y.sumCol)
  BY DEF SameMeaning, SameProjection
<1>1. /\ Sums(x) <=> Sums(y)
      /\ Selected(s, x) = Selected(s, y) /\ Mentioned(s, x) = Mentioned(s, y)
      /\ ProjectedColumns(s, x) = ProjectedColumns(s, y)
  BY SameColumns
<1>2. Mistyped(s, x) <=> Mistyped(s, y)
  <2>1. (\E i \in DOMAIN Disjuncts(x.where) : \E j \in DOMAIN Terms(x, i) :
           HasColumn(s, Terms(x, i)[j].col) /\ Terms(x, i)[j].lit.type # TypeIn(s, Terms(x, i)[j].col))
        <=> (\E i \in DOMAIN Disjuncts(y.where) : \E j \in DOMAIN Terms(y, i) :
           HasColumn(s, Terms(y, i)[j].col) /\ Terms(y, i)[j].lit.type # TypeIn(s, Terms(y, i)[j].col))
    BY SameTerms
  <2> QED
    BY <1>0, <1>1, <2>1 DEF Mistyped
<1>3. Faults(s, x) = Faults(s, y)
  BY <1>1, <1>2 DEF Faults
<1>4. Overflows(s, x) <=> Overflows(s, y)
  <2>1. CASE ~Sums(x)
    BY <1>1, <2>1 DEF Overflows
  <2>2. CASE Sums(x)
    <3>1. PICK G, col : G = GroupsOf(s, x) /\ G = GroupsOf(s, y) /\ col = x.sumCol /\ col = y.sumCol
      BY <1>0, <2>2, SameGrouping
    <3>2. \A S : SumIn(s, x, S) = SumIn(s, y, S)
      BY <2>2, SameGrouping
    <3>3. \A S : SumIn(s, x, S) \notin Int64 <=> SumIn(s, y, S) \notin Int64
      BY <3>2
    <3>4. \A S, r : SumIn(s, x, { z \in S : z <= r }) \notin Int64
                      <=> SumIn(s, y, { z \in S : z <= r }) \notin Int64
      BY <3>3
    <3>5. (\E S \in G : \E r \in S : SumIn(s, x, { z \in S : z <= r }) \notin Int64)
            <=> (\E S \in G : \E r \in S : SumIn(s, y, { z \in S : z <= r }) \notin Int64)
      BY <3>4, Zenon
    <3>6. Overflows(s, x) <=> /\ TypeIn(s, col) = "int64"
                              /\ \E S \in G : \E r \in S : SumIn(s, x, { z \in S : z <= r }) \notin Int64
      BY <2>2, <3>1, Zenon DEF Overflows
    <3>7. Overflows(s, y) <=> /\ TypeIn(s, col) = "int64"
                              /\ \E S \in G : \E r \in S : SumIn(s, y, { z \in S : z <= r }) \notin Int64
      BY <1>1, <2>2, <3>1, Zenon DEF Overflows
    <3> QED
      BY <3>5, <3>6, <3>7, Zenon
  <2> QED
    BY <2>1, <2>2
<1>5. RowsOf(s, x) = RowsOf(s, y)
  <2>1. CASE x.proj \in {"count", "sum"}
    BY <1>0, <1>1, <2>1, SameGrouping DEF RowsOf
  <2>2. CASE x.proj = "grouped"
    <3>1. PICK L, g : L = Leaders(s, x) /\ L = Leaders(s, y) /\ g = x.groupBy /\ g = y.groupBy
      BY <1>0, <2>2, SameGrouping
    <3>2. \A r : <<CellAt(s, g, r), AggregateOf(s, x, GroupOf(s, x, r))>>
                   = <<CellAt(s, g, r), AggregateOf(s, y, GroupOf(s, y, r))>>
      BY <2>2, SameGrouping
    <3> QED
      BY <1>0, <2>2, <3>1, <3>2 DEF RowsOf
  <2>3. CASE x.proj \notin {"count", "sum", "grouped"}
    BY <1>0, <1>1, <2>3 DEF RowsOf
  <2> QED
    BY <2>1, <2>2, <2>3
<1> QED
  BY <1>3, <1>4, <1>5

-----------------------------------------------------------------------------
(* The command.                                                             *)

\* The rows of an answer are a sequence.
IsSequence(x) == \E S : x \in Seq(S)
AnswerOK == result.kind = "rows" => IsSequence(result.rows)

LEMMA ReturnedIs ==
  ASSUME TInv
  PROVE  IsSequence(Returned)
<1>1. rows \in Seq(Seq(Literal)) /\ keys \in Seq(Literal)
  BY DEF TInv, QueryTypeOK
<1>2. CASE query.proj \in {"columns", "star"}
  BY <1>1, <1>2 DEF Returned, IsSequence
<1>3. CASE query.proj \in {"count", "sum"}
  <2>1. PICK x : x = <<AggregateValue(acc)>>
    OBVIOUS
  <2>2. Returned = <<x>>
    BY <1>3, <2>1 DEF Returned
  <2>3. <<x>> \in Seq({x})
    OBVIOUS
  <2> QED
    BY <2>2, <2>3 DEF IsSequence
<1>4. CASE query.proj \notin {"columns", "star", "count", "sum"}
  <2> DEFINE entry(i) == <<keys[i], AggregateValue(groups[Number[keys[i].type][keys[i].bits]])>>
  <2>1. DOMAIN keys = 1 .. Len(keys) /\ Len(keys) \in Nat
    BY <1>1, LenProperties
  <2>2. Returned = [i \in 1 .. Len(keys) |-> entry(i)]
    BY <1>4, <2>1 DEF Returned
  <2> HIDE DEF entry
  <2>3. PICK S : S = { entry(i) : i \in 1 .. Len(keys) }
    OBVIOUS
  <2>4. Returned \in [1 .. Len(keys) -> S]
    BY <2>2, <2>3
  <2>5. Returned \in Seq(S)
    BY <2>1, <2>4, FunctionIsSeq
  <2> QED
    BY <2>5 DEF IsSequence
<1> QED
  BY <1>2, <1>3, <1>4

\* Where an answer comes from, and where it does not.
LEMMA AnswerFrom ==
  ASSUME [QueryNext]_qvars
  PROVE  BeginCount \/ Emit \/ result' = result \/ result'.kind = "error"
<1>1. ASSUME NEW why, Fails(why) PROVE result'.kind = "error"
  BY <1>1 DEF Fails, Returns
<1>2. ASSUME NEW name, NEW before, OpensSumColumn(name, before)
      PROVE  result' = result \/ result'.kind = "error"
  BY <1>1, <1>2 DEF OpensSumColumn, Proceeds
<1>3. Resolve \/ FailComparison \/ Compare => result' = result \/ result'.kind = "error"
  BY <1>1 DEF Resolve, FailComparison, Compare
<1>4. BeginSum \/ BeginProject \/ BeginGrouped => result' = result \/ result'.kind = "error"
  BY <1>1, <1>2 DEF BeginSum, BeginProject, BeginGrouped, Proceeds
<1>5. /\ SkipRow \/ ProjectRow \/ AggregateRow \/ GroupRow \/ Panic => result' = result
      /\ SumOverflow => result'.kind = "error"
  BY <1>1 DEF SkipRow, ProjectRow, AggregateRow, GroupRow, SumOverflow, Panic, NextRow
<1>6. UNCHANGED qvars => result' = result
  BY DEF qvars
<1> QED
  BY <1>3, <1>4, <1>5, <1>6 DEF QueryNext

LEMMA AnswerStep == TInv /\ AnswerOK /\ [QueryNext]_qvars => AnswerOK'
<1> SUFFICES ASSUME TInv, AnswerOK, [QueryNext]_qvars PROVE AnswerOK'
  OBVIOUS
<1>1. CASE result' = result
  BY <1>1 DEF AnswerOK
<1>2. CASE result'.kind = "error"
  BY <1>2 DEF AnswerOK
<1>3. CASE BeginCount
  <2>1. CASE Returns([kind |-> "rows", rows |-> << <<[count |-> seg.rows]>> >>])
    <3>1. PICK x : x = <<[count |-> seg.rows]>>
      OBVIOUS
    <3>2. result'.rows = <<x>> /\ <<x>> \in Seq({x})
      BY <2>1, <3>1 DEF Returns
    <3> QED
      BY <3>2 DEF AnswerOK, IsSequence
  <2>2. CASE Proceeds
    BY <1>1, <2>2 DEF Proceeds
  <2> QED
    BY <1>3, <2>1, <2>2 DEF BeginCount
<1>4. CASE Emit
  <2>1. result'.rows = Returned
    BY <1>4 DEF Emit, Returns
  <2> QED
    BY <2>1, ReturnedIs DEF AnswerOK
<1> QED
  BY <1>1, <1>2, <1>3, <1>4, AnswerFrom

\* What holds of the executor from the call of Execute on.
ExecutorInv == SInv /\ PInv /\ CInv /\ AnswerOK

LEMMA ExecutorStep == ExecutorInv /\ [QueryNext]_qvars => ExecutorInv'
BY SelectionStep, PrunedStep, CountsStep, AnswerStep DEF ExecutorInv, SInv

LEMMA ExecutorInit == Called => ExecutorInv
<1>1. Called => AnswerOK
  BY DEF Called, Fresh, NoResult, AnswerOK
<1> QED
  BY <1>1, SelectionInit, PrunedInit, CountsInit DEF ExecutorInv

LEMMA ExecutorCalled == Called' => ExecutorInv'
BY ExecutorInit, PTL

\* The rows that runQuery prints of an answer x: those within --limit in a
\* table of anything but one number, else all.
Shown(x) == IF cmd.format = "table" THEN Len(Cut(x)) ELSE Len(x)

\* Tokens in, the executor's rows out: with exit code 0 the query executed is
\* the one written by the tokens, every column it mentions was read, and what
\* was printed is a beginning of the answer; all that is to be shown, but for
\* a table whose writing failed.
PrintsItsResult ==
  code = 0 =>
    /\ Sentence(query) = toks
    /\ result.kind = "rows" /\ reads = Mentioned(seg, query)
    /\ \E n \in 0 .. Len(result.rows) :
         /\ printed = SubSeq(result.rows, 1, n)
         /\ IF broken THEN cmd.format = "table" ELSE n = Shown(result.rows)

\* The inductive invariant of the command.  The executor waits until it is
\* called, with its locals fresh; from then on it has the parser's query.
ProcessOK ==
  /\ cmd \in Commands
  /\ pc \in {"start", "open", "parse", "execute", "render", "exited"}
  /\ pc = "exited" <=> code # NoCode
  /\ code \in {NoCode, 0, 1, 2}

Waiting == SegmentOK(seg) /\ stage = "waiting" /\ Fresh
HasQuery == phase = "parsed" /\ query = ast /\ ExecutorInv

CommandInv ==
  /\ ProcessOK /\ ParserInv /\ TextInv
  /\ pc \in {"start", "open", "parse"} => Waiting /\ broken = FALSE
  /\ pc \in {"execute", "render"} => HasQuery /\ broken = FALSE
  /\ pc = "render" => result.kind = "rows"
  /\ PrintsItsResult

LEMMA ParserKept ==
  ASSUME ParserInv, TextInv, UNCHANGED pvars
  PROVE  ParserInv' /\ TextInv'
BY ParserInvStep, TextStep

LEMMA WaitingKept ==
  ASSUME Waiting, UNCHANGED qvars
  PROVE  Waiting'
BY DEF Waiting, Fresh, qvars, inputs, where, scanned

LEMMA QueryKept ==
  ASSUME HasQuery, UNCHANGED <<pvars, qvars>>
  PROVE  HasQuery'
<1>1. ExecutorInv'
  BY ExecutorStep DEF HasQuery
<1> QED
  BY <1>1 DEF HasQuery, pvars, qvars, inputs

\* Leaving with an error asks for nothing more.
LEMMA ExitStep ==
  ASSUME CommandInv, NEW n \in {1, 2}, Exits(n), UNCHANGED <<cmd, pvars>>
  PROVE  CommandInv'
<1>1. ParserInv' /\ TextInv'
  BY ParserKept DEF CommandInv
<1> QED
  BY <1>1 DEF CommandInv, ProcessOK, NoCode, Exits, PrintsItsResult

LEMMA CommandCheck == CommandInv /\ CheckArguments => CommandInv'
<1> SUFFICES ASSUME CommandInv, CheckArguments PROVE CommandInv'
  OBVIOUS
<1>1. pc = "start" /\ UNCHANGED <<cmd, pvars>> /\ UNCHANGED <<broken, qvars>>
  BY DEF CheckArguments
<1>2. CASE \E n \in {1, 2} : Exits(n)
  BY <1>1, <1>2, ExitStep
<1>3. CASE pc' = "open" /\ UNCHANGED code
  <2>1. ParserInv' /\ TextInv' /\ Waiting'
    BY <1>1, ParserKept, WaitingKept DEF CommandInv
  <2> QED
    BY <1>1, <1>3, <2>1 DEF CommandInv, ProcessOK, NoCode, PrintsItsResult
<1> QED
  BY <1>2, <1>3 DEF CheckArguments

LEMMA CommandOpen == CommandInv /\ OpenFile => CommandInv'
<1> SUFFICES ASSUME CommandInv, OpenFile PROVE CommandInv'
  OBVIOUS
<1>1. pc = "open" /\ UNCHANGED <<cmd, pvars>> /\ UNCHANGED <<broken, qvars>>
  BY DEF OpenFile
<1>2. CASE Exits(1)
  BY <1>1, <1>2, ExitStep
<1>3. CASE pc' = "parse" /\ UNCHANGED code
  <2>1. ParserInv' /\ TextInv' /\ Waiting'
    BY <1>1, ParserKept, WaitingKept DEF CommandInv
  <2> QED
    BY <1>1, <1>3, <2>1 DEF CommandInv, ProcessOK, NoCode, PrintsItsResult
<1> QED
  BY <1>2, <1>3 DEF OpenFile

LEMMA CommandParse == CommandInv /\ Parse => CommandInv'
<1> SUFFICES ASSUME CommandInv, Parse PROVE CommandInv'
  OBVIOUS
<1>1. ParserInv' /\ TextInv' /\ Waiting'
  BY ParserInvStep, TextStep, WaitingKept DEF CommandInv, Parse
<1> QED
  BY <1>1 DEF CommandInv, ProcessOK, NoCode, PrintsItsResult, Parse, cvars

\* Execute is called with a query that it takes.
LEMMA CommandCall == CommandInv /\ CallExecute => CommandInv'
<1> SUFFICES ASSUME CommandInv, CallExecute PROVE CommandInv'
  OBVIOUS
<1>1. /\ pc = "parse" /\ phase = "parsed" /\ pc' = "execute" /\ query' = ast /\ stage' = "resolve"
      /\ cmd' = cmd /\ code' = code /\ broken' = broken /\ seg' = seg /\ UNCHANGED pvars
      /\ UNCHANGED <<where, reads, row, scanned, result>>
  BY DEF CallExecute
<1>2. ParserInv' /\ TextInv' /\ phase' = "parsed" /\ query' = ast'
  BY <1>1, ParserKept DEF CommandInv, pvars
<1>3. QueryOK(query') /\ SegmentOK(seg')
  BY <1>1, AstOK DEF CommandInv, ParserInv, AstInv, Waiting
<1>4. Fresh'
  BY <1>1 DEF CommandInv, Waiting, Fresh, where, scanned
<1>5. HasQuery'
  BY <1>1, <1>2, <1>3, <1>4, ExecutorCalled DEF HasQuery, Called
<1> QED
  BY <1>1, <1>2, <1>5 DEF CommandInv, ProcessOK, NoCode, PrintsItsResult

LEMMA CommandExecute == CommandInv /\ Execute => CommandInv'
<1> SUFFICES ASSUME CommandInv, Execute PROVE CommandInv'
  OBVIOUS
<1>1. pc = "execute" /\ QueryNext /\ UNCHANGED cvars /\ UNCHANGED pvars
  BY DEF Execute
<1>2. ParserInv' /\ TextInv'
  BY <1>1, ParserKept DEF CommandInv
<1>3. HasQuery'
  <2>1. ExecutorInv'
    BY <1>1, ExecutorStep DEF CommandInv, HasQuery
  <2>2. query' = query /\ phase' = phase /\ ast' = ast
    BY <1>1, InputsStay DEF pvars
  <2> QED
    BY <1>1, <2>1, <2>2 DEF CommandInv, HasQuery
<1> QED
  BY <1>1, <1>2, <1>3 DEF CommandInv, ProcessOK, NoCode, PrintsItsResult, cvars

LEMMA CommandReturn == CommandInv /\ ExecuteReturns => CommandInv'
<1> SUFFICES ASSUME CommandInv, ExecuteReturns PROVE CommandInv'
  OBVIOUS
<1>1. pc = "execute" /\ UNCHANGED <<cmd, pvars>> /\ UNCHANGED <<broken, qvars>>
  BY DEF ExecuteReturns
<1>2. CASE Exits(1)
  BY <1>1, <1>2, ExitStep
<1>3. CASE result.kind = "rows" /\ pc' = "render" /\ UNCHANGED code
  <2>1. ParserInv' /\ TextInv' /\ HasQuery'
    BY <1>1, ParserKept, QueryKept DEF CommandInv
  <2> QED
    BY <1>1, <1>3, <2>1 DEF CommandInv, ProcessOK, NoCode, PrintsItsResult, qvars
<1> QED
  BY <1>2, <1>3 DEF ExecuteReturns

\* The rows within the limit are a beginning of the answer.
LEMMA CutIs ==
  ASSUME NEW S, NEW x \in Seq(S), cmd \in Commands, NEW n \in 0 .. Len(Cut(x))
  PROVE  /\ Len(Cut(x)) \in 0 .. Len(x) /\ n \in 0 .. Len(x)
         /\ SubSeq(Cut(x), 1, n) = SubSeq(x, 1, n)
<1>1. cmd.limit \in Int /\ Len(x) \in Nat
  BY CommandAssumption, LenProperties DEF Command
<1>2. CASE Cut(x) = x
  BY <1>1, <1>2
<1>3. CASE Cut(x) # x
  <2>1. PICK m : m = cmd.limit
    OBVIOUS
  <2>2. m \in 1 .. Len(x) /\ Cut(x) = SubSeq(x, 1, m)
    BY <1>1, <1>3, <2>1 DEF Cut
  <2>3. PICK y : y = SubSeq(x, 1, m)
    OBVIOUS
  <2>4. y \in Seq(S) /\ Len(y) = m /\ \A i \in 1 .. m : y[i] = x[i]
    BY <1>1, <2>2, <2>3, SubSeqProperties
  <2>5. n \in 0 .. m /\ m \in Nat
    BY <1>1, <2>2, <2>3, <2>4
  <2>6. SubSeq(y, 1, n) = SubSeq(x, 1, n)
    BY <1>1, <2>2, <2>4, <2>5 DEF SubSeq
  <2> QED
    BY <1>1, <2>2, <2>3, <2>4, <2>5, <2>6
<1> QED
  BY <1>2, <1>3

\* A beginning of the answer, printed with exit code 0, is what is to be.
LEMMA PrintStep ==
  ASSUME CommandInv, pc = "render", Exits(0), UNCHANGED <<cmd, pvars, qvars>>,
         NEW n \in 0 .. Len(result.rows), printed' = SubSeq(result.rows, 1, n),
         IF broken' THEN cmd.format = "table" ELSE n = Shown(result.rows)
  PROVE  CommandInv'
<1>1. ParserInv' /\ TextInv' /\ code' = 0 /\ pc' = "exited" /\ cmd' = cmd
  BY ParserKept DEF CommandInv, Exits
<1>2. query' = query /\ result' = result /\ reads' = reads /\ seg' = seg /\ toks' = toks
  BY DEF qvars, inputs, pvars
<1>3. Sentence(query) = toks
  BY DEF CommandInv, HasQuery, TextInv
<1>4. result.kind = "rows" /\ reads = Mentioned(seg, query)
  BY DEF CommandInv, HasQuery, ExecutorInv, PInv, Pruned
<1>5. Shown(result.rows)' = Shown(result.rows)
  BY <1>1, <1>2 DEF Shown, Cut, IsAggregate
<1>6. PrintsItsResult'
  BY <1>2, <1>1, <1>3, <1>4, <1>5 DEF PrintsItsResult
<1> QED
  BY <1>1, <1>6 DEF CommandInv, ProcessOK, NoCode

LEMMA CommandTable == CommandInv /\ RenderTable => CommandInv'
<1> SUFFICES ASSUME CommandInv, RenderTable PROVE CommandInv'
  OBVIOUS
<1>1. PICK n \in 0 .. Len(Cut(result.rows)) :
        /\ printed' = SubSeq(Cut(result.rows), 1, n)
        /\ broken' = TRUE \/ (n = Len(Cut(result.rows)) /\ UNCHANGED broken)
  BY DEF RenderTable
<1>2. /\ pc = "render" /\ cmd.format = "table" /\ cmd \in Commands /\ broken = FALSE
      /\ Exits(0) /\ UNCHANGED <<cmd, pvars, qvars>>
  BY DEF RenderTable, CommandInv, ProcessOK
<1>3. PICK S : result.rows \in Seq(S)
  BY <1>2 DEF CommandInv, HasQuery, ExecutorInv, AnswerOK, IsSequence
<1>4. n \in 0 .. Len(result.rows) /\ printed' = SubSeq(result.rows, 1, n)
  BY <1>1, <1>2, <1>3, CutIs
<1>5. IF broken' THEN cmd.format = "table" ELSE n = Shown(result.rows)
  BY <1>1, <1>2 DEF Shown
<1> QED
  BY <1>2, <1>4, <1>5, PrintStep

LEMMA CommandCSV == CommandInv /\ RenderCSV => CommandInv'
<1> SUFFICES ASSUME CommandInv, RenderCSV PROVE CommandInv'
  OBVIOUS
<1>1. PICK n \in 0 .. Len(result.rows) :
        /\ printed' = SubSeq(result.rows, 1, n)
        /\ \/ broken' = TRUE /\ Exits(1)
           \/ n = Len(result.rows) /\ Exits(0) /\ UNCHANGED broken
  BY DEF RenderCSV
<1>2. /\ pc = "render" /\ cmd.format = "csv" /\ broken = FALSE
      /\ UNCHANGED <<cmd, pvars, qvars>>
  BY DEF RenderCSV, CommandInv
<1>3. CASE Exits(1)
  BY <1>2, <1>3, ExitStep
<1>4. CASE n = Len(result.rows) /\ Exits(0) /\ UNCHANGED broken
  <2>1. IF broken' THEN cmd.format = "table" ELSE n = Shown(result.rows)
    BY <1>2, <1>4 DEF Shown
  <2> QED
    BY <1>1, <1>2, <1>4, <2>1, PrintStep
<1> QED
  BY <1>1, <1>3, <1>4

LEMMA CommandStutter ==
  ASSUME CommandInv, UNCHANGED <<cvars, pvars, qvars>>
  PROVE  CommandInv'
<1>1. ParserInv' /\ TextInv'
  BY ParserKept DEF CommandInv
<1>2. pc \in {"start", "open", "parse"} => Waiting'
  BY WaitingKept DEF CommandInv
<1>3. pc \in {"execute", "render"} => HasQuery'
  BY QueryKept DEF CommandInv
<1>4. UNCHANGED cvars /\ UNCHANGED <<query, seg, result, reads, toks>>
  BY DEF pvars, qvars, inputs
<1>5. UNCHANGED <<cmd, code, printed, broken>> /\ UNCHANGED <<query, seg, result, reads, toks>>
  BY <1>4 DEF cvars
<1>6. Shown(result.rows)' = Shown(result.rows)
  BY <1>5 DEF Shown, Cut, IsAggregate
<1>7. PrintsItsResult'
  BY <1>5, <1>6 DEF CommandInv, PrintsItsResult
<1> QED
  BY <1>1, <1>2, <1>3, <1>5, <1>7 DEF CommandInv, ProcessOK, cvars

LEMMA CommandStart == CommandInit => CommandInv
<1> SUFFICES ASSUME CommandInit PROVE CommandInv
  OBVIOUS
<1>1. ParserInv /\ TextInv
  BY ParserInvInit, TextInit DEF CommandInit
<1>2. Waiting
  BY QueryAssumption DEF CommandInit, Waiting
<1> QED
  BY <1>1, <1>2 DEF CommandInit, CommandInv, ProcessOK, NoCode, PrintsItsResult

LEMMA CommandStep == CommandInv /\ [CommandNext]_<<cvars, pvars, qvars>> => CommandInv'
<1>1. CommandInv /\ (ParseFails \/ Crash) => CommandInv'
  <2> SUFFICES ASSUME CommandInv, ParseFails \/ Crash PROVE CommandInv'
    OBVIOUS
  <2>1. UNCHANGED <<cmd, pvars>> /\ \E n \in {1, 2} : Exits(n)
    BY DEF ParseFails, Crash
  <2> QED
    BY <2>1, ExitStep
<1> QED
  BY <1>1, CommandCheck, CommandOpen, CommandParse, CommandCall, CommandExecute, CommandReturn,
     CommandTable, CommandCSV, CommandStutter DEF CommandNext

LEMMA CommandInvariant == CommandSpec => []CommandInv
BY CommandStart, CommandStep, PTL DEF CommandSpec

\* Types: Execute runs on a query that it takes, the one that was parsed, and
\* a process has a code when it has ended (CommandTypeOK).
THEOREM CommandTypeCorrect == CommandSpec => []CommandTypeOK
<1>1. CommandInv => CommandTypeOK
  BY ParserTyped DEF CommandInv, ProcessOK, HasQuery, ExecutorInv, SInv, TInv, CommandTypeOK
<1> QED
  BY <1>1, CommandInvariant, PTL

\* Exit code 0 is never a wrong statement answered: the query executed is
\* written by exactly the tokens given, was answered from every column it
\* mentions, and what was printed is the answer up to the limit; only a table
\* whose writing failed is cut anywhere.
THEOREM PrintsWhatWasAsked == CommandSpec => []PrintsItsResult
<1>1. CommandInv => PrintsItsResult
  BY DEF CommandInv
<1> QED
  BY <1>1, CommandInvariant, PTL

\* Composed with the parser the executor does what it does alone: while it
\* runs, its selection and its counts are those that the query means.
THEOREM AnswersRight ==
  CommandSpec => [](pc \in {"execute", "render"} => SelectionRight /\ CountsExact /\ Pruned)
<1>1. CommandInv => (pc \in {"execute", "render"} => SelectionRight /\ CountsExact /\ Pruned)
  BY DEF CommandInv, HasQuery, ExecutorInv, SInv, CInv, PInv
<1> QED
  BY <1>1, CommandInvariant, PTL

-----------------------------------------------------------------------------
(* Tokens in, the meaning of the statement out.                            *)

\* A query that was parsed to its end names a column where it lists columns.
FilledInv ==
  phase \notin {"select", "projection", "rejected"} /\ ast.proj = "columns" => ast.cols # <<>>

LEMMA FilledStep == ParserInv /\ FilledInv /\ [ParserNext]_pvars => FilledInv'
<1> SUFFICES ASSUME ParserInv, FilledInv, [ParserNext]_pvars PROVE FilledInv'
  OBVIOUS
<1>1. CASE phase' \in {"projection", "rejected"}
  BY <1>1 DEF FilledInv
<1>2. CASE ast'.proj = ast.proj /\ ast'.cols = ast.cols /\ phase \notin {"select", "projection", "rejected"}
  BY <1>2 DEF FilledInv
<1>3. CASE ast'.proj # "columns"
  BY <1>3 DEF FilledInv
<1>4. CASE ast'.cols # <<>>
  BY <1>4 DEF FilledInv
<1>5. UNCHANGED pvars => FilledInv'
  BY DEF FilledInv, pvars
<1>6. ParseSelect => phase' \in {"projection", "rejected"}
  BY DEF ParseSelect, Take, Reject
<1>7. ParseStar => ast'.proj # "columns"
  <2> HAVE ParseStar
  <2>1. ast' = [ast EXCEPT !.proj = "star"]
    BY DEF ParseStar
  <2> QED
    BY <2>1, AstFields DEF AstType
<1>8. ParseCount => phase' = "rejected" \/ ast'.proj # "columns"
  <2> HAVE ParseCount
  <2>1. phase' = "rejected" \/ ast' = [ast EXCEPT !.proj = "count"]
    BY DEF ParseCount, Reject
  <2> QED
    BY <2>1, AstFields DEF AstType
<1>9. ParseSum => phase' = "rejected" \/ ast'.proj # "columns"
  <2> HAVE ParseSum
  <2>1. PICK z : z = Text(at + 2)
    OBVIOUS
  <2>2. phase' = "rejected" \/ ast' = [ast EXCEPT !.proj = "sum", !.sumCol = z]
    BY <2>1 DEF ParseSum, Reject
  <2> QED
    BY <2>2, AstFields DEF AstType
<1>10. ParseFirstColumn => ast'.cols # <<>>
  <2> HAVE ParseFirstColumn
  <2>1. PICK z : z = Text(at)
    OBVIOUS
  <2>2. ast' = [ast EXCEPT !.proj = "columns", !.cols = <<z>>]
    BY <2>1 DEF ParseFirstColumn
  <2>3. ast'.cols = <<z>>
    BY <2>2, AstFields DEF AstType
  <2> QED
    BY <2>3
<1>11. ParseNoProjection => phase' = "rejected"
  BY DEF ParseNoProjection, Reject
<1>12. ParseNextColumn => phase' = "rejected" \/ ast'.proj # "columns" \/ ast'.cols # <<>>
  <2> SUFFICES ASSUME ParseNextColumn, phase' # "rejected", ast'.proj = "columns" PROVE ast'.cols # <<>>
    OBVIOUS
  <2>1. PICK cs : cs = ast.cols /\ cs \in Seq(Names \ {EmptyName})
    BY AstFields
  <2>2. CASE \E z : ast' = [ast EXCEPT !.cols = Append(@, z)]
    <3>1. PICK z : ast' = [ast EXCEPT !.cols = Append(@, z)]
      BY <2>2
    <3>2. PICK new : new = Append(cs, z)
      OBVIOUS
    <3>3. ast' = [ast EXCEPT !.cols = new]
      BY <2>1, <3>1, <3>2
    <3>4. ast'.cols = new
      BY <3>3, AstFields DEF AstType
    <3>5. new # <<>>
      BY <2>1, <3>2
    <3> QED
      BY <3>4, <3>5
  <2>3. CASE \E y, z : ast' = [ast EXCEPT !.proj = "grouped", !.agg = y, !.sumCol = z]
    BY <2>3, AstFields DEF AstType
  <2> QED
    BY <2>2, <2>3 DEF ParseNextColumn, Reject
<1>13. EndColumns \/ ParseClauses \/ ParseComparison \/ ParseEnd =>
         phase' = "rejected" \/ (ast' = ast /\ phase \notin {"select", "projection", "rejected"})
  BY DEF EndColumns, ParseClauses, ParseComparison, ParseEnd, Reject
<1>14. ParseConditions =>
         phase' = "rejected" \/ (ast'.proj = ast.proj /\ ast'.cols = ast.cols /\ phase = "conditions")
  <2> HAVE ParseConditions
  <2>1. PICK e : e = LowerGroups(GroupComparisons)
    OBVIOUS
  <2>2. phase = "conditions" /\ (phase' = "rejected" \/ ast' = ast \/ ast' = [ast EXCEPT !.where = e])
    BY <2>1 DEF ParseConditions, Reject
  <2> QED
    BY <2>2, AstFields DEF AstType
<1>15. ParseGroupBy =>
         phase' = "rejected" \/ (ast'.proj = ast.proj /\ ast'.cols = ast.cols /\ phase = "group")
  <2> HAVE ParseGroupBy
  <2>1. PICK z : z = Text(at + 2)
    OBVIOUS
  <2>2. phase = "group" /\ (phase' = "rejected" \/ ast' = ast \/ ast' = [ast EXCEPT !.groupBy = z])
    BY <2>1 DEF ParseGroupBy, Reject
  <2> QED
    BY <2>2, AstFields DEF AstType
<1> QED
  BY <1>1, <1>2, <1>3, <1>4, <1>5, <1>6, <1>7, <1>8, <1>9, <1>10, <1>11, <1>12, <1>13, <1>14, <1>15
     DEF ParserNext

\* What the parser brings to the end of the command.
ParsedInv == toks \in Inputs /\ PlaceInv /\ GrammarInv /\ FilledInv

LEMMA ParsedStart == ParserInit => ParsedInv
<1> SUFFICES ASSUME ParserInit PROVE ParsedInv
  OBVIOUS
<1>1. toks \in Inputs /\ phase = "select"
  BY DEF ParserInit
<1> QED
  BY <1>1, GrammarInit DEF ParsedInv, FilledInv

LEMMA ParsedStep == ParserInv /\ ParsedInv /\ [ParserNext]_pvars => ParsedInv'
<1> SUFFICES ASSUME ParserInv, ParsedInv, [ParserNext]_pvars PROVE ParsedInv'
  OBVIOUS
<1>1. toks' = toks
  BY DEF ParserNext, pvars, ParseSelect, ParseStar, ParseCount, ParseSum, ParseFirstColumn,
         ParseNoProjection, ParseNextColumn, EndColumns, ParseClauses, ParseComparison,
         ParseConditions, ParseGroupBy, ParseEnd, Take, Reject
<1> QED
  BY <1>1, PlaceStep, GrammarStep, FilledStep DEF ParsedInv

\* The query that is executed is one that the grammar can write.
LEMMA ParsedWritable ==
  ASSUME ParserInv, FilledInv, phase = "parsed"
  PROVE  Writable(ast)
<1>1. QueryOK(ast)
  BY AstOK DEF ParserInv, AstInv
<1> QED
  BY <1>1 DEF Writable, FilledInv

\* A query is a reading of the tokens: it is written with them.
ReadAs(x) == Writable(x) /\ Sentence(x) = toks

LEMMA RefusedUnread ==
  ASSUME ParserInv, GrammarInv, phase = "rejected", NEW x
  PROVE  ~ReadAs(x)
<1> SUFFICES ASSUME ReadAs(x) PROVE FALSE
  OBVIOUS
<1>1. PICK a, n, m : SentenceForm(toks, x, a, n, m)
  BY SentenceIs DEF ReadAs, Writable
<1>2. Formed(toks, x, a, n, m)
  BY <1>1 DEF Formed, ReadAs, Writable, QueryOK
<1>3. Agrees(toks, Heard)
  BY DEF Agrees
<1>4. Reaches(toks, x, a, n, m)
  BY <1>2, <1>3 DEF GrammarInv, Tracks
<1> QED
  BY <1>4 DEF Reaches

\* A query groups by a column that has a NaN in a row it selects.
Panics(x) == x.proj = "grouped" /\ \E r \in Selected(seg, x) : Value(seg, x.groupBy, r) = NaN

\* The executor panics on exactly those.
PanicInv ==
  /\ query.proj # "grouped" => keys = <<>>
  /\ stage = "panicked" => Panics(query)
  /\ result.kind = "rows" => ~Panics(query)

LEMMA PanicMeans ==
  ASSUME MInv, AtEnd, query.proj = "grouped"
  PROVE  HasNaNKey <=> Panics(query)
<1>1. Chosen = Selected(seg, query)
  BY DEF Chosen
<1>2. ASSUME NEW i \in DOMAIN keys, Number[keys[i].type][keys[i].bits] = NaN PROVE Panics(query)
  <2>1. PICK r \in Chosen : Number[keys[i].type][keys[i].bits] = KeyOf(r)
    BY KeysAre
  <2> QED
    BY <1>1, <1>2, <2>1 DEF Panics, KeyOf
<1>3. ~HasNaNKey => ~Panics(query)
  BY <1>1, LeadersAre DEF Panics, KeyOf
<1> QED
  BY <1>2, <1>3 DEF HasNaNKey

LEMMA PanicStep == MInv /\ PanicInv /\ [QueryNext]_qvars => PanicInv'
<1> SUFFICES ASSUME MInv, PanicInv, [QueryNext]_qvars PROVE PanicInv'
  OBVIOUS
<1>1. seg' = seg /\ query' = query
  BY InputsStay
<1>2. Panics(query)' <=> Panics(query)
  BY <1>1 DEF Panics
<1>3. keys' = keys \/ query.proj = "grouped"
  BY DEF QueryNext, qvars, scanned, Resolve, FailComparison, Compare, BeginCount, BeginSum, BeginProject,
         BeginGrouped, SkipRow, ProjectRow, AggregateRow, GroupRow, SumOverflow, Emit, Panic
<1>4. AtEnd /\ ~Panics(query) => ~HasNaNKey
  <2>1. CASE query.proj = "grouped"
    BY <2>1, PanicMeans
  <2>2. CASE query.proj # "grouped"
    BY <2>2 DEF PanicInv, HasNaNKey
  <2> QED
    BY <2>1, <2>2
<1>5. stage' = "panicked" => stage = "panicked" \/ Panic
  <2>1. ASSUME NEW why, Fails(why) PROVE stage' # "panicked"
    BY <2>1 DEF Fails, Returns
  <2>2. ASSUME NEW name, NEW before, OpensSumColumn(name, before) PROVE stage' # "panicked"
    BY <2>1, <2>2 DEF OpensSumColumn, Proceeds
  <2>3. Resolve \/ FailComparison \/ Compare => stage' # "panicked"
    BY <2>1 DEF Resolve, FailComparison, Compare
  <2>4. BeginCount \/ BeginSum \/ BeginProject \/ BeginGrouped => stage' # "panicked"
    BY <2>1, <2>2 DEF BeginCount, BeginSum, BeginProject, BeginGrouped, Proceeds, Returns
  <2>5. SkipRow \/ ProjectRow \/ AggregateRow \/ GroupRow => stage' = stage
    BY DEF SkipRow, ProjectRow, AggregateRow, GroupRow, NextRow
  <2>6. SumOverflow \/ Emit => stage' # "panicked"
    BY <2>1 DEF SumOverflow, Emit, Returns
  <2>7. UNCHANGED qvars => stage' = stage
    BY DEF qvars
  <2> QED
    BY <2>3, <2>4, <2>5, <2>6, <2>7 DEF QueryNext
<1>6. stage' = "panicked" => Panics(query)
  BY <1>4, <1>5 DEF PanicInv, Panic
<1>7. BeginCount => ~Panics(query)
  BY DEF BeginCount, Panics
<1>8. Emit => ~Panics(query)
  <2> HAVE Emit
  <2>1. CASE query.proj = "grouped"
    BY <2>1, PanicMeans DEF Emit
  <2>2. CASE query.proj # "grouped"
    BY <2>2 DEF Panics
  <2> QED
    BY <2>1, <2>2
<1>9. result'.kind = "rows" => ~Panics(query)
  BY <1>7, <1>8, AnswerFrom DEF PanicInv
<1> QED
  BY <1>1, <1>2, <1>3, <1>6, <1>9 DEF PanicInv

LEMMA PanicInit == Called => PanicInv
BY DEF Called, Fresh, NoResult, PanicInv

\* What holds of the executor beyond ExecutorInv.
OutcomeInv == MInv /\ PanicInv

LEMMA OutcomeStep == OutcomeInv /\ [QueryNext]_qvars => OutcomeInv'
BY MeantStep, PanicStep DEF OutcomeInv

LEMMA OutcomeInit == Called => OutcomeInv
BY MeantInit, PanicInit DEF OutcomeInv

\* What an ended process leaves.  The query that it was about:
Answered ==
  /\ ReadAs(query) /\ Answerable(query) /\ ~Panics(query)
  /\ result.rows = RowsOf(seg, query) /\ IsSequence(result.rows)
Unanswered == ReadAs(query) /\ ~Answerable(query)
Panicked   == ReadAs(query) /\ Panics(query)

\* and the reasons for its exit code.
Reason ==
  /\ code = 0 => Usable /\ opens /\ Answered
  /\ code = 1 =>
       \/ ~Usable \/ ~opens
       \/ phase = "rejected"
       \/ Unanswered
       \/ cmd.format = "csv" /\ broken /\ Answered
  /\ code = 2 => cmd.flags = "unparsable" \/ Panicked

EndInv ==
  /\ ParsedInv
  /\ pc \in {"open", "parse", "execute", "render"} => Usable
  /\ pc \in {"parse", "execute", "render"} => opens
  /\ pc \in {"execute", "render"} => OutcomeInv
  /\ Reason

LEMMA OutcomeCalled == Called' => OutcomeInv'
BY OutcomeInit, PTL

LEMMA CallOutcome ==
  ASSUME CommandInv, CallExecute
  PROVE  OutcomeInv'
<1>1. /\ phase = "parsed" /\ pc = "parse" /\ query' = ast /\ stage' = "resolve" /\ seg' = seg
      /\ UNCHANGED <<where, reads, row, scanned, result>>
  BY DEF CallExecute
<1>2. QueryOK(query') /\ SegmentOK(seg')
  BY <1>1, AstOK DEF CommandInv, ParserInv, AstInv, Waiting
<1>3. Fresh'
  BY <1>1 DEF CommandInv, Waiting, Fresh, where, scanned
<1> QED
  BY <1>1, <1>2, <1>3, OutcomeCalled DEF Called

LEMMA OutcomeKept ==
  ASSUME OutcomeInv, UNCHANGED qvars
  PROVE  OutcomeInv'
BY OutcomeStep

\* The query at hand is the one that the tokens were parsed to.
LEMMA QueryIsRead ==
  ASSUME CommandInv, EndInv, pc \in {"execute", "render"}
  PROVE  ReadAs(query)
<1>1. phase = "parsed" /\ query = ast /\ ParserInv /\ TextInv
  BY DEF CommandInv, HasQuery
<1> QED
  BY <1>1, ParsedWritable DEF EndInv, ParsedInv, TextInv, ReadAs

\* What the exit codes stand for, action by action.
LEMMA EndExits ==
  ASSUME CommandInv, EndInv, CommandNext
  PROVE  Reason'
<1>1. code = NoCode
  <2>1. pc # "exited"
    BY DEF CommandNext, CheckArguments, OpenFile, Parse, ParseFails, CallExecute, Execute,
           ExecuteReturns, Crash, RenderTable, RenderCSV
  <2> QED
    BY <2>1 DEF CommandInv, ProcessOK
<1>2. CASE UNCHANGED code
  BY <1>1, <1>2 DEF NoCode, Reason
<1>3. CASE CheckArguments /\ ~UNCHANGED code
  <2>1. /\ \/ Exits(2) /\ cmd.flags = "unparsable"
           \/ Exits(1) /\ ~Usable
        /\ cmd' = cmd
    BY <1>3 DEF CheckArguments
  <2> QED
    BY <2>1 DEF Exits, Reason, Usable
<1>4. CASE OpenFile /\ Exits(1)
  <2>1. ~opens /\ opens' = opens
    BY <1>4 DEF OpenFile, Exits
  <2> QED
    BY <1>4, <2>1 DEF Exits, Reason
<1>5. CASE ParseFails
  <2>1. phase = "rejected" /\ phase' = phase /\ Exits(1)
    BY <1>5 DEF ParseFails, pvars
  <2> QED
    BY <2>1 DEF Exits, Reason
<1>6. CASE ExecuteReturns /\ Exits(1)
  <2>1. /\ result.kind = "error" /\ pc = "execute"
        /\ query' = query /\ seg' = seg /\ toks' = toks
    BY <1>6 DEF ExecuteReturns, Exits, pvars, qvars, inputs
  <2>2. ~Answerable(query)
    BY <2>1 DEF EndInv, OutcomeInv, MInv, Meaningful, Meant, Answerable
  <2>3. ReadAs(query)
    BY <2>1, QueryIsRead
  <2>4. Unanswered
    BY <2>2, <2>3 DEF Unanswered
  <2>5. Unanswered'
    BY <2>1, <2>4 DEF Unanswered, Answerable, ReadAs
  <2> QED
    BY <1>6, <2>5 DEF Exits, Reason
<1>7. CASE Crash
  <2>1. /\ stage = "panicked" /\ pc = "execute" /\ Exits(2)
        /\ query' = query /\ seg' = seg /\ toks' = toks
    BY <1>7 DEF Crash, pvars, qvars, inputs
  <2>2. Panics(query)
    BY <2>1 DEF EndInv, OutcomeInv, PanicInv
  <2>3. Panicked
    BY <2>1, <2>2, QueryIsRead DEF Panicked
  <2>4. Panicked'
    BY <2>1, <2>3 DEF Panicked, Panics, ReadAs
  <2> QED
    BY <2>1, <2>4 DEF Exits, Reason
<1>8. CASE RenderTable \/ RenderCSV
  <2>1. /\ pc = "render" /\ query' = query /\ seg' = seg /\ result' = result /\ toks' = toks
        /\ cmd' = cmd /\ opens' = opens
    BY <1>8 DEF RenderTable, RenderCSV, qvars, inputs, pvars
  <2>2. result.kind = "rows" /\ IsSequence(result.rows)
    BY <2>1 DEF CommandInv, HasQuery, ExecutorInv, AnswerOK
  <2>3. Answerable(query) /\ ~Panics(query) /\ result.rows = RowsOf(seg, query)
    BY <2>1, <2>2 DEF EndInv, OutcomeInv, PanicInv, MInv, Meaningful, Meant, Answerable
  <2>4. ReadAs(query)
    BY <2>1, QueryIsRead
  <2>5. Answered
    BY <2>2, <2>3, <2>4 DEF Answered
  <2>6. Answered'
    BY <2>1, <2>5 DEF Answered, Answerable, Panics, ReadAs
  <2>7. Usable' /\ opens'
    BY <2>1 DEF EndInv, Usable
  <2>8. Exits(0) \/ (cmd'.format = "csv" /\ broken' = TRUE /\ Exits(1))
    BY <1>8, <2>1 DEF RenderTable, RenderCSV
  <2> QED
    BY <2>6, <2>7, <2>8 DEF Exits, Reason
<1> QED
  BY <1>2, <1>3, <1>4, <1>5, <1>6, <1>7, <1>8
     DEF CommandNext, OpenFile, Parse, CallExecute, Execute, ExecuteReturns, cvars

LEMMA EndStart == CommandInit => EndInv
<1> SUFFICES ASSUME CommandInit PROVE EndInv
  OBVIOUS
<1>1. ParsedInv
  BY ParsedStart DEF CommandInit
<1> QED
  BY <1>1 DEF CommandInit, EndInv, Reason, NoCode

LEMMA EndStutter ==
  ASSUME CommandInv, EndInv, UNCHANGED <<cvars, pvars, qvars>>
  PROVE  EndInv'
<1>1. ParsedInv'
  BY ParsedStep DEF CommandInv, EndInv
<1>2. UNCHANGED <<pc, code, cmd, opens, broken>> /\ UNCHANGED <<query, seg, result, toks, phase>>
  BY DEF cvars, pvars, qvars, inputs
<1>3. pc \in {"execute", "render"} => OutcomeInv'
  BY OutcomeKept DEF EndInv
<1>4. /\ Answered' <=> Answered
      /\ Unanswered' <=> Unanswered
      /\ Panicked' <=> Panicked
      /\ Usable' <=> Usable
  BY <1>2 DEF Answered, Unanswered, Panicked, Answerable, Panics, Usable, ReadAs
<1>5. Reason'
  BY <1>2, <1>4 DEF EndInv, Reason
<1> QED
  BY <1>1, <1>2, <1>3, <1>4, <1>5 DEF EndInv

LEMMA EndInvStep ==
  CommandInv /\ EndInv /\ [CommandNext]_<<cvars, pvars, qvars>> => EndInv'
<1> SUFFICES ASSUME CommandInv, EndInv, CommandNext PROVE EndInv'
  BY EndStutter
<1>1. [ParserNext]_pvars
  BY DEF CommandNext, CheckArguments, OpenFile, Parse, ParseFails, CallExecute, Execute,
         ExecuteReturns, Crash, RenderTable, RenderCSV
<1>2. ParsedInv'
  BY <1>1, ParsedStep DEF CommandInv, EndInv
<1>3. pc' \in {"execute", "render"} => OutcomeInv'
  <2>1. CASE CallExecute
    BY <2>1, CallOutcome
  <2>2. CASE Execute
    BY <2>2, OutcomeStep DEF Execute, EndInv
  <2>3. CASE ExecuteReturns
    BY <2>3, OutcomeKept DEF ExecuteReturns, EndInv
  <2>4. CASE ~CallExecute /\ ~Execute /\ ~ExecuteReturns
    BY <2>4 DEF CommandNext, CheckArguments, OpenFile, Parse, ParseFails, Crash, RenderTable,
                RenderCSV, Exits, cvars
  <2> QED
    BY <2>1, <2>2, <2>3, <2>4
<1>4. /\ pc' \in {"open", "parse", "execute", "render"} => Usable'
      /\ pc' \in {"parse", "execute", "render"} => opens'
  <2>1. /\ pc' \in {"open", "parse", "execute", "render"} => Usable
        /\ pc' \in {"parse", "execute", "render"} => opens
    BY DEF EndInv, CommandNext, CheckArguments, OpenFile, Parse, ParseFails, CallExecute, Execute,
           ExecuteReturns, Crash, RenderTable, RenderCSV, Exits, cvars
  <2>2. cmd' = cmd /\ opens' = opens
    BY DEF CommandNext, CheckArguments, OpenFile, Parse, ParseFails, CallExecute, Execute,
           ExecuteReturns, Crash, RenderTable, RenderCSV, cvars
  <2> QED
    BY <2>1, <2>2 DEF Usable
<1> QED
  BY <1>2, <1>3, <1>4, EndExits DEF EndInv

LEMMA EndInvariant == CommandSpec => [](CommandInv /\ EndInv)
<1>1. CommandInit => CommandInv /\ EndInv
  BY CommandStart, EndStart
<1>2. CommandInv /\ EndInv /\ [CommandNext]_<<cvars, pvars, qvars>> => (CommandInv /\ EndInv)'
  BY CommandStep, EndInvStep
<1> QED
  BY <1>1, <1>2, PTL DEF CommandSpec

\* A beginning of a sequence.
LEMMA PrefixIs ==
  ASSUME NEW S, NEW x \in Seq(S), NEW n \in 0 .. Len(x), NEW y, y = SubSeq(x, 1, n)
  PROVE  IsPrefix(y, x) /\ Len(y) = n
<1>1. Len(x) \in Nat
  BY LenProperties
<1>2. n \in Nat /\ n <= Len(x)
  BY <1>1
<1>3. y \in Seq(S) /\ Len(y) = n /\ \A i \in 1 .. n : y[i] = x[i]
  BY <1>1, <1>2, SubSeqProperties
<1>4. SubSeq(y, 1, n) = SubSeq(x, 1, n)
  BY <1>2, <1>3
<1> QED
  BY <1>2, <1>3, <1>4 DEF IsPrefix

\* How much is shown of the rows of an answer.
LEMMA ShownIsWanted ==
  ASSUME NEW S, NEW y \in Seq(S), cmd \in Commands, NEW x, x.proj = query.proj, y = RowsOf(seg, x)
  PROVE  Shown(y) = Wanted(x)
<1>1. PICK n \in Nat : n = Len(y)
  BY LenProperties
<1>2. PICK k \in Int : k = cmd.limit
  BY CommandAssumption DEF Command
<1>3. CASE cmd.format = "table" /\ ~IsAggregate /\ k >= 1
  <2>1. Wanted(x) = Min({k, n})
    BY <1>1, <1>2, <1>3 DEF Wanted, IsAggregate
  <2>2. Shown(y) = Len(Cut(y))
    BY <1>3 DEF Shown
  <2>3. CASE n > k
    <3>1. Cut(y) = SubSeq(y, 1, k)
      BY <1>1, <1>2, <1>3, <2>3 DEF Cut
    <3>2. k \in 0 .. Len(y)
      BY <1>1, <1>3, <2>3
    <3>3. Len(SubSeq(y, 1, k)) = k
      BY <3>2, PrefixIs
    <3>4. Min({k, n}) = k
      BY <1>1, <1>2, <2>3 DEF Min
    <3> QED
      BY <2>1, <2>2, <3>1, <3>3, <3>4
  <2>4. CASE ~(n > k)
    <3>1. Cut(y) = y
      BY <1>1, <1>2, <2>4 DEF Cut
    <3>2. Min({k, n}) = n
      BY <1>1, <1>2, <2>4 DEF Min
    <3> QED
      BY <1>1, <2>1, <2>2, <3>1, <3>2
  <2> QED
    BY <2>3, <2>4
<1>4. CASE ~(cmd.format = "table" /\ ~IsAggregate /\ k >= 1)
  <2>1. Wanted(x) = n
    BY <1>1, <1>2, <1>4 DEF Wanted, IsAggregate
  <2>2. cmd.format = "table" => Cut(y) = y
    BY <1>2, <1>4 DEF Cut
  <2> QED
    BY <1>1, <2>1, <2>2 DEF Shown
<1> QED
  BY <1>3, <1>4

\* What was printed of the rows that a query means.
Printed(x) ==
  /\ Answerable(x)
  /\ IsPrefix(printed, RowsOf(seg, x))
  /\ IF broken THEN cmd.format = "table" ELSE Len(printed) = Wanted(x)

\* The executed query means what every query does that reads the same.
LEMMA ReadingsAgree ==
  ASSUME NEW x, ReadAs(x), ReadAs(query)
  PROVE  /\ x.proj = query.proj /\ (Answerable(x) <=> Answerable(query))
         /\ RowsOf(seg, x) = RowsOf(seg, query) /\ (Panics(x) <=> Panics(query))
<1>1. SameMeaning(x, query)
  BY OneMeaning DEF ReadAs
<1>2. QueryOK(x) /\ QueryOK(query)
  BY DEF ReadAs, Writable
<1>3. /\ Faults(seg, x) = Faults(seg, query) /\ (Overflows(seg, x) <=> Overflows(seg, query))
      /\ RowsOf(seg, x) = RowsOf(seg, query)
  BY <1>1, <1>2, SameAnswer
<1>4. x.proj = query.proj /\ (x.proj = "grouped" => x.groupBy = query.groupBy)
  BY <1>1 DEF SameMeaning, SameProjection
<1>5. Selected(seg, x) = Selected(seg, query)
  BY <1>1, <1>2, SameColumns
<1>6. Panics(x) <=> Panics(query)
  BY <1>4, <1>5 DEF Panics
<1> QED
  BY <1>3, <1>4, <1>6 DEF Answerable

LEMMA ReadingPrinted ==
  ASSUME CommandInv, EndInv, code = 0, NEW x, ReadAs(x)
  PROVE  Printed(x) /\ ~Panics(x)
<1>1. \E n \in 0 .. Len(result.rows) :
           /\ printed = SubSeq(result.rows, 1, n)
           /\ IF broken THEN cmd.format = "table" ELSE n = Shown(result.rows)
  BY DEF CommandInv, PrintsItsResult
<1>2. /\ ReadAs(query) /\ Answerable(query) /\ ~Panics(query)
      /\ result.rows = RowsOf(seg, query) /\ IsSequence(result.rows)
  BY DEF EndInv, Reason, Answered
<1>3. PICK S : result.rows \in Seq(S)
  BY <1>2 DEF IsSequence
<1>4. PICK y \in Seq(S) : y = result.rows
  BY <1>3
<1>5. x.proj = query.proj /\ Answerable(x) /\ ~Panics(x) /\ RowsOf(seg, x) = y
  BY <1>2, <1>4, ReadingsAgree
<1>6. PICK n \in 0 .. Len(y) :
        /\ printed = SubSeq(y, 1, n)
        /\ IF broken THEN cmd.format = "table" ELSE n = Shown(y)
  BY <1>1, <1>4
<1>7. IsPrefix(printed, y) /\ Len(printed) = n
  BY <1>6, PrefixIs
<1>8. Shown(y) = Wanted(x)
  BY <1>5, ShownIsWanted DEF CommandInv, ProcessOK
<1> QED
  BY <1>5, <1>6, <1>7, <1>8 DEF Printed

\* What the exit code says of a reading x of the statement, where the
\* arguments and the segment are as they should be.
EndsFor(x) ==
  \/ code = 0 /\ ~Panics(x) /\ Printed(x)
  \/ code = 1 /\ ~Answerable(x)
  \/ code = 1 /\ Answerable(x) /\ ~Panics(x) /\ cmd.format = "csv" /\ broken
  \/ code = 2 /\ Panics(x)

LEMMA ReadingEnds ==
  ASSUME CommandInv, EndInv, pc = "exited", Usable, opens, NEW x, ReadAs(x)
  PROVE  EndsFor(x)
<1>1. code \in {0, 1, 2} /\ ParserInv /\ GrammarInv /\ Reason
  BY DEF CommandInv, ProcessOK, EndInv, ParsedInv
<1>2. CASE code = 0
  BY <1>2, ReadingPrinted DEF EndsFor
<1>3. CASE code = 1
  <2>1. phase # "rejected"
    BY <1>1, RefusedUnread
  <2>2. Unanswered \/ (cmd.format = "csv" /\ broken /\ Answered)
    BY <1>1, <1>3, <2>1 DEF Reason
  <2> QED
    BY <1>3, <2>2, ReadingsAgree DEF Unanswered, Answered, EndsFor
<1>4. CASE code = 2
  <2>1. Panicked
    BY <1>1, <1>4 DEF Reason, Usable
  <2> QED
    BY <1>4, <2>1, ReadingsAgree DEF Panicked, EndsFor
<1> QED
  BY <1>1, <1>2, <1>3, <1>4

\* Tokens in, rows out, for every end of the process (runQuery).  Where the
\* arguments are usable and the segment opens, the exit code and the output
\* are those that the statement's meaning on the segment calls for, whichever
\* query the statement is read as.  It is 0 with the meaning printed: all of
\* its rows in CSV, its first --limit rows in a table, no more and no fewer,
\* but for a table that could not be written.  It is 1 where the statement has
\* no meaning there, or the CSV of the answer could not be written, and 2
\* exactly where it groups by a column that is NaN in a row it selects, if
\* nothing failed before.  A statement that no query is written with ends
\* with 1.
THEOREM ExitCodesDue ==
  CommandSpec =>
    [](pc = "exited" =>
         IF Usable /\ opens
         THEN (\A x : ReadAs(x) => EndsFor(x)) /\ ((\A x : ~ReadAs(x)) => code = 1)
         ELSE code \in {1, 2})
<1>1. CommandInv /\ EndInv =>
        (pc = "exited" =>
           IF Usable /\ opens
           THEN (\A x : ReadAs(x) => EndsFor(x)) /\ ((\A x : ~ReadAs(x)) => code = 1)
           ELSE code \in {1, 2})
  <2> SUFFICES ASSUME CommandInv, EndInv, pc = "exited"
               PROVE  IF Usable /\ opens
                      THEN (\A x : ReadAs(x) => EndsFor(x)) /\ ((\A x : ~ReadAs(x)) => code = 1)
                      ELSE code \in {1, 2}
    OBVIOUS
  <2>1. code \in {0, 1, 2} /\ Reason
    BY DEF CommandInv, ProcessOK, EndInv
  <2>2. Usable /\ opens => \A x : ReadAs(x) => EndsFor(x)
    BY ReadingEnds
  <2>3. Usable /\ (\A x : ~ReadAs(x)) => code = 1
    BY <2>1 DEF Reason, Answered, Panicked, Usable
  <2>4. ~(Usable /\ opens) => code \in {1, 2}
    BY <2>1 DEF Reason
  <2> QED
    BY <2>2, <2>3, <2>4
<1> QED
  BY <1>1, EndInvariant, PTL

\* The queries in Grammar are queries that the grammar can write.
LEMMA StatementsRead ==
  ASSUME NEW x \in Statements
  PROVE  ReadAs(x)
<1>1. x \in Grammar /\ Sentence(x) = toks
  BY DEF Statements
<1> QED
  BY <1>1, InputAssumption DEF ReadAs, Writable

\* Grammar holds a query for every input that some query is written with.
GrammarComplete == \A s \in Inputs : (\E x : Writable(x) /\ Sentence(x) = s) => s \in Sentences

\* The same of the queries in Grammar, which TLC goes through: if no input
\* has its only reading outside of them, exit code 0 means that one of them
\* was written and that each that was has been answered (PrintsTheAnswer).
THEOREM StatementAnswered == CommandSpec => [](GrammarComplete => PrintsTheAnswer)
<1>1. CommandInv /\ EndInv => (GrammarComplete => PrintsTheAnswer)
  <2> SUFFICES ASSUME CommandInv, EndInv, GrammarComplete, code = 0
               PROVE  Statements # {} /\ \A x \in Statements : Printed(x)
    BY DEF PrintsTheAnswer, Printed
  <2>1. ReadAs(query) /\ toks \in Inputs
    BY DEF EndInv, Reason, Answered, ParsedInv
  <2>2. toks \in Sentences
    BY <2>1 DEF GrammarComplete, ReadAs
  <2>3. PICK q \in Grammar : toks = Sentence(q)
    BY <2>2 DEF Sentences
  <2>4. q \in Statements
    BY <2>3 DEF Statements
  <2>5. ASSUME NEW x \in Statements PROVE Printed(x)
    BY StatementsRead, ReadingPrinted
  <2> QED
    BY <2>4, <2>5
<1> QED
  BY <1>1, EndInvariant, PTL

\* And a failure is never the parser's or the executor's own: with exit code 1
\* the arguments are wrong, the segment does not open, the CSV could not be
\* written, or no query in Grammar that the statement is written with has a
\* meaning on this segment: it names what is not there, of another type,
\* unreadable or too large to sum (FailsForAReason).
THEOREM FailuresDue == CommandSpec => []FailsForAReason
<1>1. CommandInv /\ EndInv => FailsForAReason
  <2> SUFFICES ASSUME CommandInv, EndInv, code = 1, Usable, opens, ~(cmd.format = "csv" /\ broken),
                      NEW x \in Statements
               PROVE  ~Answerable(x)
    BY DEF FailsForAReason
  <2>1. pc = "exited"
    BY DEF CommandInv, ProcessOK, NoCode
  <2>2. EndsFor(x)
    BY <2>1, StatementsRead, ReadingEnds
  <2> QED
    BY <2>2 DEF EndsFor
<1> QED
  BY <1>1, EndInvariant, PTL
=============================================================================
