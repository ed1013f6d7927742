------------------------------- MODULE MCTable -------------------------------
(***************************************************************************)
(* Instances of Table for TLC.                                             *)
(***************************************************************************)
EXTENDS Table, TLC

PathSymmetry == Permutations(Paths)

MCNames == {"", "id", "v"}

\* Three keys on a 3-bit filter with two probes: keys 0 and 1 together cover
\* the bits of key 2, so a false positive happens; key 1's sum overflows Word.
MCBits == 0 .. 2
MCH1   == [b \in MCBits |-> IF b = 1 THEN 13 ELSE 0]
MCH2   == [b \in MCBits |-> CASE b = 0 -> 1 [] b = 1 -> 5 [] OTHER -> 2]
MCOptimalM == [n \in 1 .. MaxItems |-> [p \in 1 .. 99 |-> IF p = 1 THEN 3 ELSE MaxM + 1]]

id    == [name |-> "id", type |-> "int64"]
v     == [name |-> "v", type |-> "string"]
PairSchema == [PK |-> "id", Columns |-> <<v, id>>]

GoodSchemas == {
  PairSchema,
  [PK |-> "", Columns |-> <<[name |-> "", type |-> "int64"]>>],
  [PK |-> "id", Columns |-> <<id, [name |-> "v", type |-> "unknown"]>>],
  [PK |-> "id", Columns |-> <<[name |-> "id", type |-> "unknown"]>>] }

\* Schemas that Validate refuses, one for each reason.
BadSchemas == {
  [PK |-> "id", Columns |-> <<>>],
  [PK |-> "id", Columns |-> <<id, id>>],
  [PK |-> "id", Columns |-> <<v>>] }

MCSchemas == GoodSchemas \cup BadSchemas

MCOptions == {
  [BloomDisabled |-> FALSE, BloomExpectedItems |-> 1, BloomTargetFPR |-> 1],
  [BloomDisabled |-> FALSE, BloomExpectedItems |-> 1, BloomTargetFPR |-> 100],
  [BloomDisabled |-> FALSE, BloomExpectedItems |-> 1, BloomTargetFPR |-> 2],
  [BloomDisabled |-> FALSE, BloomExpectedItems |-> 0, BloomTargetFPR |-> 1],
  [BloomDisabled |-> TRUE, BloomExpectedItems |-> 0, BloomTargetFPR |-> 0] }

IntCell(b) == [type |-> "int64", bits |-> b]
StrCell(b) == [type |-> "string", bits |-> b]
Nil    == [type |-> "nil", bits |-> 0]

\* Good rows, rows whose key or other cell has the wrong type, and short rows.
MCRows ==
  { <<StrCell(0), IntCell(b)>> : b \in MCBits } \cup { <<Nil, IntCell(1)>>,
    <<StrCell(0), StrCell(1)>>, <<IntCell(1), StrCell(0)>>, <<IntCell(0)>> }

SomeFilter == BloomAdd(BloomNew(1, 1), 1)
SegmentOf(ver, pk, cs, f) ==
  [kind |-> "segment", version |-> ver, pkName |-> pk, Columns |-> cs,
   cols |-> [i \in 1 .. Len(cs) |-> <<1>>], rows |-> 1, bloom |-> f]

\* One foreign segment for each reason LoadTable has to refuse a segment.
MCForeign == {
  SegmentOf(1, "", <<id>>, NoFilter),
  SegmentOf(2, "", <<id>>, SomeFilter),
  SegmentOf(2, "id", <<id>>, NoFilter),
  SegmentOf(2, "id", <<id, id>>, SomeFilter),
  SegmentOf(2, "id", <<v>>, SomeFilter) }
=============================================================================
