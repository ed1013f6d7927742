------------------------------- MODULE Query -------------------------------
(***************************************************************************)
(* The query executor (query/exec.go Execute): resolve the projection,     *)
(* evaluate the WHERE comparison by comparison into a selection, then scan *)
(* the rows.  A selection vector is the set of rows whose flag is set.     *)
(***************************************************************************)
EXTENDS QueryData

VARIABLES
  seg, query,  \* the segment and the query, fixed at the start
  stage,       \* where Execute is
  d, c,        \* the disjunct and the comparison in it to evaluate next
  conj,        \* the selection of the current disjunct so far
  selection,   \* the selection of the disjuncts before it
  reads,       \* history: the columns ReadColumn was called for
  row,         \* the row to scan next
  rows,        \* the result rows so far
  acc,         \* the aggregate so far
  keys,        \* the group keys in the order they were found
  groups,      \* the map from keys to accumulators
  result

inputs  == <<seg, query>>
where   == <<d, c, conj, selection>>
scanned == <<rows, acc, keys, groups>>
qvars   == <<inputs, stage, where, reads, row, scanned, result>>

NoResult == [kind |-> "none"]

\* groupAccumulator; a float64 sum is the addends in the order they came.
Accumulator == [count : Nat, sumI64 : Int64, sumF64 : Seq(Bits)]
NewAccumulator == [count |-> 0, sumI64 |-> 0, sumF64 |-> <<>>]

\* The locals of Execute and of what it calls.
Fresh ==
  /\ d = 1 /\ c = 1 /\ conj = {} /\ selection = {}
  /\ reads = {} /\ row = 1
  /\ rows = <<>> /\ acc = NewAccumulator /\ keys = <<>> /\ groups = [k \in {} |-> acc]
  /\ result = NoResult

QueryInit == seg \in Segments /\ query \in Queries /\ stage = "resolve" /\ Fresh

\* Mutant: a comparison with NaN is false, "!=" included.
CompareRowUnordered(v, op, w) ==
  LET ordered == v # NaN /\ w # NaN
  IN  CASE op = "="  -> ordered /\ v = w
        [] op = "!=" -> ordered /\ v # w
        [] op = "<"  -> ordered /\ v < w
        [] op = ">"  -> ordered /\ v > w
        [] op = "<=" -> ordered /\ v <= w
        [] op = ">=" -> ordered /\ v >= w

\* One of the three comparison functions; which one is the column's type.
CompareRow(v, op, w) ==
  LET ordered == v # NaN /\ w # NaN
  IN  CASE op = "="  -> ordered /\ v = w
        [] op = "!=" -> ~(ordered /\ v = w)
        [] op = "<"  -> ordered /\ v < w
        [] op = ">"  -> ordered /\ v > w
        [] op = "<=" -> ordered /\ v <= w
        [] op = ">=" -> ordered /\ v >= w

Scan(e) ==
  { r \in 1 .. seg.rows : CompareRow(Value(seg, e.col, r), e.op, Number[e.lit.type][e.lit.bits]) }

\* int64 addition, of two int64 values.
Wrap(z) ==
  CASE z > MaxInt -> z - 2 * (MaxInt + 1)
    [] z < MinInt -> z + 2 * (MaxInt + 1)
    [] OTHER      -> z

\* Mutant: the test misses the sum that wraps around to exactly zero.
AddOverflowsMissesZero(sum, x) ==
  \/ sum > 0 /\ x > 0 /\ Wrap(sum + x) < 0
  \/ sum < 0 /\ x < 0 /\ Wrap(sum + x) > 0

AddOverflows(sum, x) ==
  \/ sum > 0 /\ x > 0 /\ Wrap(sum + x) < 0
  \/ sum < 0 /\ x < 0 /\ Wrap(sum + x) >= 0

Returns(answer) == stage' = "done" /\ result' = answer
Fails(why) == Returns([kind |-> "error", why |-> why])

Has(name)  == HasColumn(seg, name)
Readable(name) == seg.data[name] # Undecodable
Summable(name) == TypeIn(seg, name) \in {"int64", "float64"}

-----------------------------------------------------------------------------
Resolve ==
  /\ stage = "resolve"
  /\ LET cols == ProjectedColumns(seg, query)
     IN  \/ (\E i \in DOMAIN cols : ~Has(cols[i])) /\ Fails("unknown column")
         \/ /\ \A i \in DOMAIN cols : Has(cols[i])
            /\ stage' = IF Filtered(query) THEN "where" ELSE "begin"
            /\ UNCHANGED result
  /\ UNCHANGED <<inputs, where, reads, row, scanned>>

\* evalComparison on the next comparison of the WHERE.
FailComparison ==
  /\ stage = "where"
  /\ LET e == Terms(query, d)[c]
     IN  \/ ~Has(e.col) /\ Fails("unknown column") /\ UNCHANGED reads
         \/ /\ Has(e.col) /\ e.lit.type # TypeIn(seg, e.col)
            /\ Fails("type mismatch") /\ UNCHANGED reads
         \/ /\ Has(e.col) /\ e.lit.type = TypeIn(seg, e.col) /\ ~Readable(e.col)
            /\ Fails("unreadable") /\ reads' = reads \cup {e.col}
  /\ UNCHANGED <<inputs, where, row, scanned>>

\* Mutant: the index into the terms is not reset for the next disjunct.
CompareKeepsIndex ==
  /\ stage = "where"
  /\ LET e == Terms(query, d)[c]
         terms == IF c = 1 THEN Scan(e) ELSE conj \cap Scan(e)
     IN  /\ Has(e.col) /\ e.lit.type = TypeIn(seg, e.col) /\ Readable(e.col)
         /\ reads' = reads \cup {e.col}
         /\ conj' = terms
         /\ \/ c < Len(Terms(query, d)) /\ c' = c + 1 /\ UNCHANGED <<stage, d, selection>>
            \/ /\ c = Len(Terms(query, d)) /\ d' = d + 1 /\ UNCHANGED c
               /\ selection' = IF d = 1 THEN terms ELSE selection \cup terms
               /\ stage' = IF d = Len(Disjuncts(query.where)) THEN "begin" ELSE "where"
  /\ UNCHANGED <<inputs, row, scanned, result>>

\* Mutant: every disjunct is combined with OR, its first term with those before.
CompareFlat ==
  /\ stage = "where"
  /\ LET e == Terms(query, d)[c]
     IN  /\ Has(e.col) /\ e.lit.type = TypeIn(seg, e.col) /\ Readable(e.col)
         /\ reads' = reads \cup {e.col}
         /\ conj' = conj
         /\ selection' = selection \cup Scan(e)
         /\ \/ c < Len(Terms(query, d)) /\ c' = c + 1 /\ UNCHANGED <<stage, d>>
            \/ /\ c = Len(Terms(query, d)) /\ d' = d + 1 /\ c' = 1
               /\ stage' = IF d = Len(Disjuncts(query.where)) THEN "begin" ELSE "where"
  /\ UNCHANGED <<inputs, row, scanned, result>>

\* The vector of a first child is taken as it is, each later one is combined.
Compare ==
  /\ stage = "where"
  /\ LET e == Terms(query, d)[c]
         terms == IF c = 1 THEN Scan(e) ELSE conj \cap Scan(e)
     IN  /\ Has(e.col) /\ e.lit.type = TypeIn(seg, e.col) /\ Readable(e.col)
         /\ reads' = reads \cup {e.col}
         /\ conj' = terms
         /\ \/ /\ c < Len(Terms(query, d))
               /\ c' = c + 1 /\ UNCHANGED <<stage, d, selection>>
            \/ /\ c = Len(Terms(query, d))
               /\ selection' = IF d = 1 THEN terms ELSE selection \cup terms
               /\ d' = d + 1 /\ c' = 1
               /\ stage' = IF d = Len(Disjuncts(query.where)) THEN "begin" ELSE "where"
  /\ UNCHANGED <<inputs, row, scanned, result>>

-----------------------------------------------------------------------------
(* What each projection does before its loop over the rows.                 *)

Proceeds == stage' = "scan" /\ UNCHANGED result
Reads(name) == reads' = reads \cup {name}

\* The count of an unfiltered segment is taken from its header.
BeginCount ==
  /\ stage = "begin" /\ query.proj = "count"
  /\ \/ Filtered(query) /\ Proceeds
     \/ /\ ~Filtered(query)
        /\ Returns([kind |-> "rows", rows |-> << <<[count |-> seg.rows]>> >>])
  /\ UNCHANGED <<inputs, where, reads, row, scanned>>

\* Look up, type check and read a column to sum.
OpensSumColumn(name, before) ==
  \/ ~Summable(name) /\ Fails("type mismatch") /\ reads' = before
  \/ Summable(name) /\ ~Readable(name) /\ Fails("unreadable") /\ reads' = before \cup {name}
  \/ Summable(name) /\ Readable(name) /\ Proceeds /\ reads' = before \cup {name}

BeginSum ==
  /\ stage = "begin" /\ query.proj = "sum"
  /\ OpensSumColumn(query.sumCol, reads)
  /\ UNCHANGED <<inputs, where, row, scanned>>

\* Mutant: every column of the segment is read, whatever the projection.
BeginProjectReadsAll ==
  /\ stage = "begin" /\ query.proj \in {"columns", "star"}
  /\ reads' = { seg.Columns[i].name : i \in DOMAIN seg.Columns }
  /\ \/ (\E name \in reads' : ~Readable(name)) /\ Fails("unreadable")
     \/ (\A name \in reads' : Readable(name)) /\ Proceeds
  /\ UNCHANGED <<inputs, where, row, scanned>>

\* Read the projected columns in order, up to the first that fails.
BeginProject ==
  /\ stage = "begin" /\ query.proj \in {"columns", "star"}
  /\ LET cols == ProjectedColumns(seg, query)
         upTo(n) == reads \cup { cols[i] : i \in 1 .. n }
     IN  \/ \E n \in DOMAIN cols :
              /\ ~Readable(cols[n])
              /\ \A i \in 1 .. (n - 1) : Readable(cols[i])
              /\ Fails("unreadable") /\ reads' = upTo(n)
         \/ /\ \A i \in DOMAIN cols : Readable(cols[i])
            /\ Proceeds /\ reads' = upTo(Len(cols))
  /\ UNCHANGED <<inputs, where, row, scanned>>

BeginGrouped ==
  /\ stage = "begin" /\ query.proj = "grouped"
  /\ LET key == query.groupBy
     IN  \/ ~Has(key) /\ Fails("unknown column") /\ UNCHANGED reads
         \/ Has(key) /\ ~Readable(key) /\ Fails("unreadable") /\ Reads(key)
         \/ Has(key) /\ Readable(key) /\ query.agg = "count" /\ Proceeds /\ Reads(key)
         \/ /\ Has(key) /\ Readable(key) /\ query.agg = "sum" /\ ~Has(query.sumCol)
            /\ Fails("unknown column") /\ Reads(key)
         \/ /\ Has(key) /\ Readable(key) /\ query.agg = "sum" /\ Has(query.sumCol)
            /\ OpensSumColumn(query.sumCol, reads \cup {key})
  /\ UNCHANGED <<inputs, where, row, scanned>>

-----------------------------------------------------------------------------
(* The loop over the rows.                                                  *)

Picked(r) == Filtered(query) => r \in selection
AtRow  == stage = "scan" /\ row <= seg.rows /\ Picked(row)
NextRow == row' = row + 1 /\ UNCHANGED <<inputs, stage, where, reads, result>>

CellOf(name, r) == [type |-> TypeIn(seg, name), bits |-> seg.data[name][r]]

\* Mutant: a row that is filtered out is looked at again.
SkipRowAgain ==
  /\ stage = "scan" /\ row <= seg.rows /\ ~Picked(row)
  /\ row' = row /\ UNCHANGED <<inputs, stage, where, reads, result, scanned>>

SkipRow ==
  /\ stage = "scan" /\ row <= seg.rows /\ ~Picked(row)
  /\ NextRow /\ UNCHANGED scanned

ProjectRow ==
  /\ AtRow /\ query.proj \in {"columns", "star"}
  /\ LET cols == ProjectedColumns(seg, query)
     IN  rows' = Append(rows, [j \in DOMAIN cols |-> CellOf(cols[j], row)])
  /\ NextRow /\ UNCHANGED <<acc, keys, groups>>

\* Adding the row at hand to an accumulator; an int64 sum is checked.
SumsInts == Sums(query) /\ TypeIn(seg, query.sumCol) = "int64"
Addend == Value(seg, query.sumCol, row)
AddFails(a) == SumsInts /\ AddOverflows(a.sumI64, Addend)
Add(a) ==
  CASE ~Sums(query) -> [a EXCEPT !.count = @ + 1]
    [] SumsInts     -> [a EXCEPT !.sumI64 = Wrap(@ + Addend)]
    [] OTHER        -> [a EXCEPT !.sumF64 = Append(@, seg.data[query.sumCol][row])]

AggregateRow ==
  /\ AtRow /\ query.proj \in {"count", "sum"}
  /\ ~AddFails(acc)
  /\ acc' = Add(acc)
  /\ NextRow /\ UNCHANGED <<rows, keys, groups>>

\* A map lookup finds a key by its value, and never finds NaN: a NaN row gets
\* an accumulator that no lookup will return, in this loop or afterwards.
Key == Value(seg, query.groupBy, row)
Found == Key # NaN /\ Key \in DOMAIN groups
\* Mutant: each row of a group starts from a new accumulator.
AccumulatorAlwaysNew == NewAccumulator

AccumulatorAt == IF Found THEN groups[Key] ELSE NewAccumulator

GroupRow ==
  /\ AtRow /\ query.proj = "grouped"
  /\ ~AddFails(AccumulatorAt)
  /\ keys' = IF Found THEN keys ELSE Append(keys, CellOf(query.groupBy, row))
  /\ groups' = IF Key = NaN THEN groups
               ELSE [k \in DOMAIN groups \cup {Key} |->
                       IF k = Key THEN Add(AccumulatorAt) ELSE groups[k]]
  /\ NextRow /\ UNCHANGED <<rows, acc>>

SumOverflow ==
  /\ AtRow
  /\ \/ query.proj = "sum" /\ AddFails(acc)
     \/ query.proj = "grouped" /\ AddFails(AccumulatorAt)
  /\ Fails("sum overflow")
  /\ UNCHANGED <<inputs, where, reads, row, scanned>>

-----------------------------------------------------------------------------
(* What each projection returns after the loop.                             *)

AtEnd == stage = "scan" /\ row > seg.rows

AggregateValue(a) ==
  CASE ~Sums(query) -> [count |-> a.count]
    [] SumsInts     -> [sum |-> a.sumI64]
    [] OTHER        -> [addends |-> a.sumF64]

Returned ==
  CASE query.proj \in {"columns", "star"} -> rows
    [] query.proj \in {"count", "sum"}    -> << <<AggregateValue(acc)>> >>
    [] OTHER ->
         [i \in DOMAIN keys |->
            <<keys[i], AggregateValue(groups[Number[keys[i].type][keys[i].bits]])>>]

HasNaNKey == \E i \in DOMAIN keys : Number[keys[i].type][keys[i].bits] = NaN

Emit ==
  /\ AtEnd /\ ~HasNaNKey
  /\ Returns([kind |-> "rows", rows |-> Returned])
  /\ UNCHANGED <<inputs, where, reads, row, scanned>>

\* groups[k] is nil for a NaN key: the emission dereferences it.
Panic ==
  /\ AtEnd /\ HasNaNKey
  /\ stage' = "panicked"
  /\ UNCHANGED <<inputs, where, reads, row, scanned, result>>

QueryNext ==
  \/ Resolve \/ FailComparison \/ Compare
  \/ BeginCount \/ BeginSum \/ BeginProject \/ BeginGrouped
  \/ SkipRow \/ ProjectRow \/ AggregateRow \/ GroupRow \/ SumOverflow
  \/ Emit \/ Panic

QuerySpec == QueryInit /\ [][QueryNext]_qvars /\ WF_qvars(QueryNext)
-----------------------------------------------------------------------------
(* Properties.                                                              *)

\* Type invariant (Execute): positions stay inside the WHERE and the segment,
\* running sums stay in int64.
QueryTypeOK ==
  /\ SegmentOK(seg) /\ QueryOK(query)
  /\ stage \in {"resolve", "where", "begin", "scan", "done", "panicked"}
  /\ stage = "where" => d \in DOMAIN Disjuncts(query.where) /\ c \in DOMAIN Terms(query, d)
  /\ d \in Nat \ {0} /\ c \in Nat \ {0}
  /\ conj \subseteq 1 .. seg.rows /\ selection \subseteq 1 .. seg.rows
  /\ reads \subseteq Names
  /\ row \in 1 .. (seg.rows + 1)
  /\ rows \in Seq(Seq(Literal))
  /\ acc \in Accumulator
  /\ keys \in Seq(Literal)
  /\ DOMAIN groups \subseteq Int /\ groups \in [DOMAIN groups -> Accumulator]

\* The accumulating selection vectors of evaluate mean, between any two
\* comparisons, the part of the WHERE that was evaluated, and after the last
\* one the WHERE.
SelectionRight ==
  /\ stage = "where" =>
       /\ selection = { r \in 1 .. seg.rows :
                          \E i \in 1 .. (d - 1) : r \in MeetsAll(seg, Terms(query, i)) }
       /\ c > 1 => conj = { r \in 1 .. seg.rows :
                              \A i \in 1 .. (c - 1) : r \in Meets(seg, Terms(query, d)[i]) }
  /\ stage \in {"begin", "scan", "panicked"} =>
       { r \in 1 .. seg.rows : Picked(r) } = Selected(seg, query)

\* COUNT(*), grouped or not, counts exactly the selected rows scanned so far,
\* and there is one accumulator for every value a GROUP BY column had in
\* them, other than NaN; the keys slice has each of those once and one entry
\* for every NaN row (execCount, execGrouped).
Before == { r \in 1 .. (row - 1) : Picked(r) }
InGroup(k) == { r \in Before : Value(seg, query.groupBy, r) = k }

CountsExact ==
  stage = "scan" =>
    /\ query.proj = "count" => acc.count = Cardinality(Before)
    /\ query.proj = "grouped" =>
         /\ DOMAIN groups = { Value(seg, query.groupBy, r) : r \in Before } \ {NaN}
         /\ Len(keys) = Cardinality(DOMAIN groups) + Cardinality(InGroup(NaN))
         /\ query.agg = "count" =>
              \A k \in DOMAIN groups : groups[k].count = Cardinality(InGroup(k))

\* Column pruning (README.md:197): whatever happens, only columns the query
\* names are read, and an answer was made from all of them.
Pruned ==
  /\ reads \subseteq Mentioned(seg, query)
  /\ result.kind = "rows" => reads = Mentioned(seg, query)

\* The two's complement overflow test of addInt64Checked: a row moves the
\* int64 sum it belongs to by exactly its value and no other sum, and SUM
\* fails only where the exact sum is not an int64.
SumOf(k) == IF k \in DOMAIN groups THEN groups[k].sumI64 ELSE 0

AddsExactly ==
  [][ stage = "scan" /\ SumsInts =>
      /\ row' # row /\ query.proj = "sum" =>
           acc'.sumI64 = acc.sumI64 + (IF Picked(row) THEN Addend ELSE 0)
      /\ row' # row /\ query.proj = "grouped" =>
           \A k \in DOMAIN groups' :
             groups'[k].sumI64 = SumOf(k) + (IF Picked(row) /\ Key = k THEN Addend ELSE 0)
      /\ result' # result /\ result' = [kind |-> "error", why |-> "sum overflow"] =>
           (IF query.proj = "sum" THEN acc.sumI64 ELSE SumOf(Key)) + Addend \notin Int64
    ]_qvars

\* Refinement: the executor answers with the relational meaning of the query,
\* or with an error that applies to it.
Relation == INSTANCE Relational WITH q <- query, answer <- result
ImplementsRelation == Relation!Spec

\* Liveness (Execute runs on one goroutine, nothing blocks): it ends.
Terminates == <>(stage \in {"done", "panicked"})

\* execGrouped's comment (exec.go:444-446): NaN group keys are not special,
\* "distinct NaN bit patterns become distinct groups".  So they come out as
\* groups: the emission does not panic.
NaNsAreGroups == stage # "panicked"
=============================================================================
