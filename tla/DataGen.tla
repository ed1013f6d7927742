------------------------------ MODULE DataGen ------------------------------
(***************************************************************************)
(* The benchmark's row generator (bench/datagen.go GenRows).  Only the     *)
(* event_id of a row, its key, matters here; the random choice of the row  *)
(* that a duplicate repeats is any choice.  Fractions are whole percents;  *)
(* float64 has no exact value for most of them, so that a whole product    *)
(* may come out just below and be truncated to one less (0.29*100 is 28).  *)
(***************************************************************************)
EXTENDS Integers, Sequences

CONSTANTS Counts,    \* values of n
          Fractions  \* values of dupFraction, in percent

ASSUME DataGenAssumption == Counts \subseteq Int /\ Fractions \subseteq Int

VARIABLES n, dupFraction,
          floor,       \* int(math.Floor(dupFraction*float64(n)))
          ids

gvars == <<n, dupFraction, floor, ids>>
args  == <<n, dupFraction, floor>>

Clamped == IF dupFraction < 0 THEN 0 ELSE IF dupFraction > 100 THEN 100 ELSE dupFraction

\* The whole part of the product, and what float64 makes of it.
WholePart == IF n > 0 THEN (Clamped * n) \div 100 ELSE 0
Inexact   == (Clamped * n) % 100 = 0 /\ Clamped \notin {0, 25, 50, 75, 100}
Floors    == { q \in 0 .. WholePart : q = WholePart \/ (Inexact /\ q = WholePart - 1) }

\* Mutant: every row may be a duplicate.
dupsUncapped == floor

dups == IF floor <= n - 1 THEN floor ELSE n - 1
uniques == n - dups

GenInit == n \in Counts /\ dupFraction \in Fractions /\ floor \in Floors /\ ids = <<>>

AddUnique ==
  /\ n > 0 /\ Len(ids) < uniques
  /\ ids' = Append(ids, Len(ids) + 1)
  /\ UNCHANGED args

\* Mutant: the source of a duplicate is counted from 0 to uniques, inclusive.
AddDuplicateOffByOne ==
  /\ n > 0 /\ uniques <= Len(ids) /\ Len(ids) < n
  /\ \E src \in 1 .. (uniques + 1) : ids' = Append(ids, src)
  /\ UNCHANGED args

AddDuplicate ==
  /\ n > 0 /\ uniques <= Len(ids) /\ Len(ids) < n
  /\ \E src \in 1 .. uniques : ids' = Append(ids, ids[src])
  /\ UNCHANGED args

GenNext == AddUnique \/ AddDuplicate
GenSpec == GenInit /\ [][GenNext]_gvars /\ WF_gvars(GenNext)

-----------------------------------------------------------------------------
(* Properties.                                                              *)

\* A row that repeats an earlier row's key.
Repeats(i) == \E j \in 1 .. (i - 1) : ids[j] = ids[i]

\* Everything the benchmarks count on: a row repeats the key of an earlier
\* row exactly if it comes after the uniques, so that a table without false
\* positives accepts the uniques and rejects the others (GenRows's comment).
DuplicatesLast ==
  /\ Len(ids) <= n \/ ids = <<>>
  /\ \A i \in DOMAIN ids : Repeats(i) <=> i > uniques

\* Liveness: with at least one unique to repeat, all n rows are produced.
GeneratesAll == <>(Len(ids) = IF n > 0 THEN n ELSE 0)

\* GenRows's comment (datagen.go:34-35): "the duplicate count is exact,
\* floor(dupFraction*n)", which is taken to mean the floor the code computes.
ExactFraction == n > 0 /\ Len(ids) = n => n - uniques = floor
=============================================================================
