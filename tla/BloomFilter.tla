----------------------------- MODULE BloomFilter -----------------------------
(***************************************************************************)
(* The Bloom filter of bloom/bloom.go.                                     *)
(*                                                                         *)
(* The 128-bit FNV-1a sum of a key is external: H1 and H2 give its two     *)
(* halves (a key is a member of Bits).  Probe i of a key is                *)
(* (h1 + i*h2) mod 2^64 mod m, with Word standing for 2^64.  The bit array *)
(* is the set of the positions that are 1.  The real-valued size formula   *)
(* ceil(-n ln p / (ln 2)^2) is external too: OptimalM.                     *)
(***************************************************************************)
EXTENDS Types, Integers, FiniteSets

CONSTANTS
  Word,        \* 2^64 in the code
  H1, H2,      \* the two halves of the hash of a key
  MaxItems,    \* bound on the expectedItems handed to New
  OptimalM,    \* OptimalM[n][p]: ceil(-n ln p / (ln 2)^2), p in percent
  MaxM         \* the largest m New accepts, 2^63 in the code

ASSUME WordAssumption == Word \in Nat \ {0}
ASSUME HashAssumption == /\ H1 \in [Bits -> 0 .. (Word - 1)]
                         /\ H2 \in [Bits -> 0 .. (Word - 1)]
ASSUME SizeAssumption == /\ MaxItems \in Nat
                         /\ OptimalM \in [1 .. MaxItems -> [1 .. 99 -> Nat]]
                         /\ MaxM \in Nat

minK == 1
maxK == 30

\* The nil *Filter: no filter has m = 0.
NoFilter == [m |-> 0, k |-> 0, bits |-> {}, nAdded |-> 0]

\* A filter: m bits, k probes, the positions set, and the number of Add calls.
Filter == { f \in [m : Nat \ {0}, k : minK .. maxK, bits : SUBSET Nat, nAdded : Nat] :
              f.bits \subseteq 0 .. (f.m - 1) }

\* The positions Add sets and Contains probes.
Probe(f, key, i) == ((H1[key] + i * H2[key]) % Word) % f.m
Indices(f, key)  == { Probe(f, key, i) : i \in 0 .. (f.k - 1) }

\* Mutants of BloomAdd: probe 0 is left out; the call is not counted.
BloomAddLosesProbe(f, key) ==
  [f EXCEPT !.bits = @ \cup { Probe(f, key, i) : i \in 1 .. (f.k - 1) },
            !.nAdded = @ + 1]
BloomAddUncounted(f, key) == [f EXCEPT !.bits = @ \cup Indices(f, key)]

BloomAdd(f, key) ==
  [f EXCEPT !.bits = @ \cup Indices(f, key), !.nAdded = @ + 1]

BloomContains(f, key) == Indices(f, key) \subseteq f.bits

\* round((m / n) * ln 2) with ln 2 taken as 693/1000, clamped to minK..maxK.
ProbeCount(m, n) ==
  LET rounded == (2 * m * 693 + n * 1000) \div (2 * n * 1000)
  IN  IF rounded < minK THEN minK
      ELSE IF rounded > maxK THEN maxK
      ELSE rounded

\* New refuses no items, a rate outside (0, 1), given here in percent, and
\* a pair that asks for too large a filter.
ValidParameters(n, p) == n # 0 /\ p > 0 /\ p < 100 /\ OptimalM[n][p] <= MaxM

BloomNew(n, p) ==
  LET m == IF OptimalM[n][p] = 0 THEN 1 ELSE OptimalM[n][p]
  IN  [m |-> m, k |-> ProbeCount(m, n), bits |-> {}, nAdded |-> 0]
=============================================================================
