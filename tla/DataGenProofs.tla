--------------------------- MODULE DataGenProofs ---------------------------
(***************************************************************************)
(* That the benchmark's rows repeat keys exactly where GenRows says, for   *)
(* every number of rows and every fraction.  The bound on the number of    *)
(* duplicates is what makes it true: there is a unique row to repeat.      *)
(***************************************************************************)
EXTENDS DataGen, TLAPS

\* The first uniques rows count from 1, the others take one of their keys.
Numbered == \A i \in 1 .. Len(ids) :
              IF i <= uniques THEN ids[i] = i ELSE ids[i] \in 1 .. uniques

GInv ==
  /\ n \in Int /\ dupFraction \in Int /\ floor \in Nat /\ ids \in Seq(Nat)
  /\ ids = <<>> \/ Len(ids) <= n
  /\ Numbered

-----------------------------------------------------------------------------
\* The number of duplicates leaves one row unique (datagen.go:54-56).
LEMMA OneIsUnique ==
  ASSUME floor \in Nat, n \in Int, n > 0
  PROVE  uniques \in 1 .. n
  BY DEF uniques, dups

\* The number of uniques is fixed for the run.
LEMMA UniquesStay ==
  ASSUME UNCHANGED args
  PROVE  uniques' = uniques
  BY DEF uniques, dups, args

\* A step adds one row that is numbered as it should be.
LEMMA GStep ==
  ASSUME GInv, [GenNext]_gvars
  PROVE  GInv'
<1>1. CASE AddUnique
  <2>1. /\ n > 0 /\ Len(ids) < uniques /\ ids' = Append(ids, Len(ids) + 1)
        /\ uniques' = uniques /\ n' = n /\ dupFraction' = dupFraction /\ floor' = floor
    BY <1>1, UniquesStay DEF AddUnique, args
  <2>2. uniques \in 1 .. n /\ Len(ids) \in Nat
    BY <2>1, OneIsUnique DEF GInv
  <2>3. /\ ids' \in Seq(Nat) /\ Len(ids') = Len(ids) + 1
        /\ ids'[Len(ids) + 1] = Len(ids) + 1
        /\ \A i \in 1 .. Len(ids) : ids'[i] = ids[i]
    BY <2>1, <2>2 DEF GInv
  <2>4. Numbered'
    BY <2>1, <2>2, <2>3 DEF GInv, Numbered
  <2> QED
    BY <2>1, <2>2, <2>3, <2>4 DEF GInv
<1>2. CASE AddDuplicate
  <2>1. PICK src \in 1 .. uniques : ids' = Append(ids, ids[src])
    BY <1>2 DEF AddDuplicate
  <2>2. /\ n > 0 /\ uniques <= Len(ids) /\ Len(ids) < n
        /\ uniques' = uniques /\ n' = n /\ dupFraction' = dupFraction /\ floor' = floor
    BY <1>2, UniquesStay DEF AddDuplicate, args
  <2>3. uniques \in 1 .. n /\ Len(ids) \in Nat
    BY <2>2, OneIsUnique DEF GInv
  <2>4. ids[src] = src
    BY <2>1, <2>2, <2>3 DEF GInv, Numbered
  <2>5. /\ ids' \in Seq(Nat) /\ Len(ids') = Len(ids) + 1
        /\ ids'[Len(ids) + 1] = src
        /\ \A i \in 1 .. Len(ids) : ids'[i] = ids[i]
    BY <2>1, <2>3, <2>4 DEF GInv
  <2>6. Numbered'
    BY <2>1, <2>2, <2>3, <2>5 DEF GInv, Numbered
  <2> QED
    BY <2>2, <2>3, <2>5, <2>6 DEF GInv
<1>3. CASE UNCHANGED gvars
  <2>1. uniques' = uniques /\ ids' = ids
    BY <1>3, UniquesStay DEF gvars, args
  <2> QED
    BY <1>3, <2>1 DEF GInv, Numbered, gvars
<1> QED
  BY <1>1, <1>2, <1>3 DEF GenNext

\* Numbered rows repeat a key exactly after the uniques.
LEMMA NumberedRepeats ==
  ASSUME GInv
  PROVE  DuplicatesLast
<1>1. Len(ids) <= n \/ ids = <<>>
  BY DEF GInv
<1>2. ASSUME NEW i \in DOMAIN ids
      PROVE  Repeats(i) <=> i > uniques
  <2>1. DOMAIN ids = 1 .. Len(ids) /\ Len(ids) \in Nat
    BY DEF GInv
  <2>2. n > 0
    BY <1>1, <1>2, <2>1 DEF GInv
  <2>3. uniques \in 1 .. n
    BY <2>2, OneIsUnique DEF GInv
  <2>4. CASE i <= uniques
    <3>1. \A j \in 1 .. (i - 1) : ids[j] = j /\ ids[i] = i
      BY <1>2, <2>1, <2>3, <2>4 DEF GInv, Numbered
    <3> QED
      BY <1>2, <2>1, <2>3, <2>4, <3>1 DEF Repeats
  <2>5. CASE i > uniques
    <3>1. ids[i] \in 1 .. uniques
      BY <1>2, <2>1, <2>3, <2>5 DEF GInv, Numbered
    <3>2. ids[i] \in 1 .. (i - 1) /\ ids[ids[i]] = ids[i]
      BY <1>2, <2>1, <2>3, <2>5, <3>1 DEF GInv, Numbered
    <3> QED
      BY <2>5, <3>2 DEF Repeats
  <2> QED
    BY <1>2, <2>1, <2>3, <2>4, <2>5
<1> QED
  BY <1>1, <1>2 DEF DuplicatesLast

\* A row repeats the key of an earlier one exactly if it comes after the
\* uniques, for every n and dupFraction (GenRows).
THEOREM DuplicatesComeLast == GenSpec => []DuplicatesLast
<1>1. GenInit => GInv
  BY DataGenAssumption DEF GenInit, GInv, Numbered, Floors
<1>2. GInv /\ [GenNext]_gvars => GInv'
  BY GStep
<1>3. GInv => DuplicatesLast
  BY NumberedRepeats
<1> QED
  BY <1>1, <1>2, <1>3, PTL DEF GenSpec
=============================================================================
