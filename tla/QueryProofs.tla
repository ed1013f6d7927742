---------------------------- MODULE QueryProofs ----------------------------
(***************************************************************************)
(* Proofs about Query, for every choice of its constants: any number of    *)
(* rows, columns and conditions, any values.                               *)
(***************************************************************************)
EXTENDS Query, Meaning, Recursions, TLAPS, SequenceTheorems, FiniteSetTheorems

-----------------------------------------------------------------------------
(* Segments and queries.                                                    *)

\* The terms of a disjunct are comparisons.
LEMMA TermsType ==
  ASSUME NEW q, QueryOK(q), NEW i \in DOMAIN Disjuncts(q.where)
  PROVE  Terms(q, i) \in Seq(Comparison) /\ Len(Terms(q, i)) \in Nat \ {0}
<1> DEFINE e == Disjuncts(q.where)[i]
<1>1. e \in Comparison \cup [kind : {"and"}, kids : Seq(Comparison)] /\ Terms(q, i) # <<>>
  BY DEF QueryOK
<1>2. CASE e \in Comparison
  <2>1. e.kind = "cmp"
    BY <1>2 DEF Comparison
  <2>2. Terms(q, i) = <<e>>
    BY <2>1 DEF Terms, Conjuncts
  <2> QED
    BY <1>2, <2>2
<1>3. CASE e \in [kind : {"and"}, kids : Seq(Comparison)]
  <2>1. Terms(q, i) = e.kids
    BY <1>3 DEF Terms, Conjuncts
  <2> QED
    BY <1>1, <1>3, <2>1
<1> QED
  BY <1>1, <1>2, <1>3

\* A segment's columns have distinct names, so a name finds its column.
LEMMA ColumnFound ==
  ASSUME NEW s, SegmentOK(s), NEW name, HasColumn(s, name)
  PROVE  /\ TypeIn(s, name) \in ColumnType
         /\ \E i \in DOMAIN s.Columns : s.Columns[i].name = name
<1>1. PICK i \in DOMAIN s.Columns : s.Columns[i].name = name
  BY DEF HasColumn
<1>2. s.Columns \in Seq(Column)
  BY DEF SegmentOK
<1>3. \A j \in 1 .. (i - 1) : s.Columns[j].name # name
  BY <1>1, <1>2 DEF SegmentOK, HasDuplicateColumn
<1>4. ColumnIndex(s, name) \in DOMAIN s.Columns
  <2> DEFINE P(x) == /\ s.Columns[x].name = name
                     /\ \A j \in 1 .. (x - 1) : s.Columns[j].name # name
  <2>1. ColumnIndex(s, name) = CHOOSE x \in DOMAIN s.Columns : P(x)
    BY DEF ColumnIndex
  <2>2. \E x \in DOMAIN s.Columns : P(x)
    BY <1>1, <1>3
  <2> HIDE DEF P
  <2> QED
    BY <2>1, <2>2
<1> QED
  BY <1>1, <1>4 DEF TypeIn, SegmentOK

\* A value in a readable column is an integer, or NaN in a float64 column.
LEMMA ValueType ==
  ASSUME NEW s, SegmentOK(s), NEW name \in Names, HasColumn(s, name),
         s.data[name] # Undecodable, NEW r \in 1 .. s.rows
  PROVE  /\ s.data[name][r] \in Bits
         /\ Value(s, name, r) \in Int \cup {NaN}
         /\ TypeIn(s, name) = "int64" => Value(s, name, r) \in Int64
<1>1. s.data[name] \in Seq(Bits) /\ Len(s.data[name]) = s.rows /\ s.rows \in Nat
  BY DEF SegmentOK
<1>2. s.data[name][r] \in Bits
  BY <1>1
<1>3. TypeIn(s, name) \in ColumnType
  BY ColumnFound
<1> QED
  BY <1>2, <1>3, NumberAssumption DEF Value

\* A function on 1..n is a sequence.
LEMMA FunctionIsSeq ==
  ASSUME NEW S, NEW m \in Nat, NEW f \in [1 .. m -> S]
  PROVE  f \in Seq(S)
<1>1. [1 .. m -> S] \in { [1 .. n -> S] : n \in Nat }
  OBVIOUS
<1>2. f \in UNION { [1 .. n -> S] : n \in Nat }
  BY <1>1
<1> QED
  BY <1>2, SeqDef, Zenon

\* The columns of a projection are names.
LEMMA ProjectedType ==
  ASSUME NEW s, SegmentOK(s), NEW q, QueryOK(q)
  PROVE  /\ ProjectedColumns(s, q) \in Seq(Names)
         /\ q.proj = "sum" => ProjectedColumns(s, q) = <<q.sumCol>>
<1>1. s.Columns \in Seq(Column)
  BY DEF SegmentOK
<1> DEFINE names == [i \in DOMAIN s.Columns |-> s.Columns[i].name]
<1>2. DOMAIN s.Columns = 1 .. Len(s.Columns) /\ Len(s.Columns) \in Nat
  BY <1>1
<1>3. \A i \in DOMAIN s.Columns : s.Columns[i] \in Column
  BY <1>1
<1>4. \A i \in DOMAIN s.Columns : s.Columns[i].name \in Names
  BY <1>3 DEF Column
<1>5. names \in [1 .. Len(s.Columns) -> Names]
  BY <1>2, <1>4
<1>6. names \in Seq(Names)
  BY <1>2, <1>5, FunctionIsSeq
<1> QED
  BY <1>6 DEF ProjectedColumns, QueryOK

\* The test of addInt64Checked is exact: it fails a sum exactly if the sum is
\* not an int64, and a sum that passes is the mathematical one.
LEMMA AdditionExact ==
  ASSUME NEW a \in Int64, NEW b \in Int64
  PROVE  /\ AddOverflows(a, b) <=> a + b \notin Int64
         /\ ~AddOverflows(a, b) => Wrap(a + b) = a + b
BY NumberAssumption DEF AddOverflows, Wrap, Int64, MinInt

\* The comparison functions implement the order of the values.
LEMMA CompareMeans ==
  ASSUME NEW v \in Int \cup {NaN}, NEW w \in Int \cup {NaN}, NEW op \in FilterOp
  PROVE  CompareRow(v, op, w) <=> Order(v, w) \in Admits(op)
<1>1. CASE NaN \in {v, w}
  <2>1. Order(v, w) = "unordered" /\ ~(v # NaN /\ w # NaN)
    BY <1>1 DEF Order
  <2> QED
    BY <2>1 DEF CompareRow, Admits, FilterOp
<1>2. CASE NaN \notin {v, w}
  <2>0. v \in Int /\ w \in Int /\ v # NaN /\ w # NaN
    BY <1>2
  <2>1. CASE v < w
    <3>1. Order(v, w) = "less"
      BY <1>2, <2>1 DEF Order
    <3>2. ~(v = w) /\ ~(v > w) /\ v <= w /\ ~(v >= w)
      BY <2>0, <2>1
    <3> QED
      BY <2>0, <2>1, <3>1, <3>2 DEF CompareRow, Admits, FilterOp
  <2>2. CASE v = w
    <3>0. ~(v < w) /\ ~(v > w) /\ v <= w /\ v >= w
      BY <2>0, <2>2
    <3>1. Order(v, w) = "equal"
      BY <1>2, <2>2, <3>0 DEF Order
    <3> QED
      BY <2>0, <2>2, <3>0, <3>1 DEF CompareRow, Admits, FilterOp
  <2>3. CASE v > w
    <3>0. ~(v < w) /\ ~(v = w) /\ ~(v <= w) /\ v >= w
      BY <2>0, <2>3
    <3>1. Order(v, w) = "greater"
      BY <1>2, <3>0 DEF Order
    <3> QED
      BY <2>0, <2>3, <3>0, <3>1 DEF CompareRow, Admits, FilterOp
  <2> QED
    BY <2>0, <2>1, <2>2, <2>3
<1> QED
  BY <1>1, <1>2

-----------------------------------------------------------------------------
(* Types.  What the scan uses was opened before it started.                 *)

Cols == ProjectedColumns(seg, query)

Opened ==
  /\ stage = "resolve" => d = 1 /\ c = 1
  /\ stage = "where" => Filtered(query)
  /\ stage \in {"where", "begin", "scan"} => \A i \in DOMAIN Cols : Has(Cols[i])
  /\ stage = "scan" =>
       /\ query.proj \in {"columns", "star"} => \A i \in DOMAIN Cols : Readable(Cols[i])
       /\ query.proj = "grouped" => Has(query.groupBy) /\ Readable(query.groupBy)
       /\ Sums(query) => Has(query.sumCol) /\ Readable(query.sumCol) /\ Summable(query.sumCol)

TInv == QueryTypeOK /\ Opened

\* Adding a row to an accumulator leaves it one, and an int64 sum exact.
LEMMA AddType ==
  ASSUME TInv, stage = "scan", row <= seg.rows, NEW a \in Accumulator, ~AddFails(a)
  PROVE  /\ Add(a) \in Accumulator
         /\ SumsInts => Addend \in Int64 /\ Add(a).sumI64 = a.sumI64 + Addend
         /\ ~SumsInts => Add(a).sumI64 = a.sumI64
         /\ ~Sums(query) => Add(a).count = a.count + 1
<1>0. /\ SegmentOK(seg) /\ QueryOK(query) /\ row \in 1 .. seg.rows
      /\ a \in [count : Nat, sumI64 : Int64, sumF64 : Seq(Bits)]
  <2>1. seg.rows \in Nat
    BY DEF TInv, QueryTypeOK, SegmentOK
  <2> QED
    BY <2>1 DEF TInv, QueryTypeOK, Accumulator
<1>1. CASE ~Sums(query)
  <2>1. Add(a) = [a EXCEPT !.count = @ + 1] /\ ~SumsInts
    BY <1>1 DEF Add, SumsInts
  <2>2. a.count + 1 \in Nat
    BY <1>0
  <2> QED
    BY <1>0, <1>1, <2>1, <2>2 DEF Accumulator
<1>2. CASE Sums(query)
  <2>0. query.sumCol \in Names /\ Has(query.sumCol) /\ Readable(query.sumCol)
    BY <1>0, <1>2 DEF TInv, Opened, QueryOK
  <2>1. /\ seg.data[query.sumCol][row] \in Bits
        /\ TypeIn(seg, query.sumCol) = "int64" => Value(seg, query.sumCol, row) \in Int64
    BY <1>0, <2>0, ValueType DEF Has, Readable
  <2>2. CASE SumsInts
    <3>1. Addend \in Int64 /\ a.sumI64 \in Int64
      BY <1>0, <2>1, <2>2 DEF SumsInts, Addend
    <3>2. ~AddOverflows(a.sumI64, Addend)
      BY <2>2 DEF AddFails
    <3>3. a.sumI64 + Addend \in Int64 /\ Wrap(a.sumI64 + Addend) = a.sumI64 + Addend
      BY <3>1, <3>2, AdditionExact
    <3>4. Add(a) = [a EXCEPT !.sumI64 = Wrap(@ + Addend)]
      BY <1>2, <2>2 DEF Add
    <3>5. Add(a) = [a EXCEPT !.sumI64 = a.sumI64 + Addend]
      BY <1>0, <3>3, <3>4
    <3> QED
      BY <1>0, <1>2, <2>2, <3>1, <3>3, <3>5 DEF Accumulator
  <2>3. CASE ~SumsInts
    <3>1. Add(a) = [a EXCEPT !.sumF64 = Append(@, seg.data[query.sumCol][row])]
      BY <1>2, <2>3 DEF Add
    <3>2. Append(a.sumF64, seg.data[query.sumCol][row]) \in Seq(Bits)
      BY <1>0, <2>1
    <3> QED
      BY <1>0, <1>2, <2>3, <3>1, <3>2 DEF Accumulator
  <2> QED
    BY <2>2, <2>3
<1> QED
  BY <1>1, <1>2

\* A new accumulator is empty.
LEMMA NewAccumulatorType == NewAccumulator \in Accumulator /\ NewAccumulator.sumI64 = 0 /\ NewAccumulator.count = 0
<1>1. 0 \in Int64
  BY NumberAssumption DEF Int64, MinInt
<1>2. <<>> \in Seq(Bits)
  OBVIOUS
<1> QED
  BY <1>1, <1>2 DEF NewAccumulator, Accumulator

\* The accumulator a row is added to has its type.
LEMMA AccumulatorAtType ==
  ASSUME TInv
  PROVE  /\ AccumulatorAt \in Accumulator
         /\ \A k \in DOMAIN groups : groups[k] \in Accumulator
<1>1. \A k \in DOMAIN groups : groups[k] \in Accumulator
  BY DEF TInv, QueryTypeOK
<1>2. Found => Key \in DOMAIN groups
  BY DEF Found
<1> QED
  BY <1>1, <1>2, NewAccumulatorType DEF AccumulatorAt

\* A cell of an opened column.
LEMMA CellOfType ==
  ASSUME TInv, stage = "scan", row <= seg.rows, NEW name \in Names, Has(name), Readable(name)
  PROVE  CellOf(name, row) \in Literal /\ Value(seg, name, row) \in Int \cup {NaN}
<1>1. SegmentOK(seg) /\ row \in 1 .. seg.rows
  <2>1. SegmentOK(seg) /\ seg.rows \in Nat
    BY DEF TInv, QueryTypeOK, SegmentOK
  <2> QED
    BY <2>1 DEF TInv, QueryTypeOK
<1>2. seg.data[name][row] \in Bits /\ Value(seg, name, row) \in Int \cup {NaN}
  BY <1>1, ValueType DEF Has, Readable
<1>3. TypeIn(seg, name) \in ColumnType
  BY <1>1, ColumnFound DEF Has
<1> QED
  BY <1>2, <1>3 DEF CellOf, Literal

\* Every step leaves the inputs alone, and with them all that depends on them.
LEMMA InputsStay ==
  ASSUME QueryNext \/ UNCHANGED qvars
  PROVE  seg' = seg /\ query' = query
BY DEF QueryNext, Resolve, FailComparison, Compare, BeginCount, BeginSum, BeginProject,
       BeginGrouped, SkipRow, ProjectRow, AggregateRow, GroupRow, SumOverflow, Emit, Panic,
       NextRow, inputs, qvars

\* Execute has been called, on whatever segment and query.
Called == SegmentOK(seg) /\ QueryOK(query) /\ stage = "resolve" /\ Fresh

LEMMA InitCalled == QueryInit => Called
BY QueryAssumption DEF QueryInit, Called

\* The initial states.
LEMMA TypeInit == Called => TInv
<1> SUFFICES ASSUME Called PROVE TInv
  OBVIOUS
<1>1. SegmentOK(seg) /\ QueryOK(query)
  BY DEF Called
<1>2. seg.rows \in Nat
  BY <1>1 DEF SegmentOK
<1>3. row \in 1 .. (seg.rows + 1)
  BY <1>2 DEF Called, Fresh
<1>4. acc \in Accumulator
  BY NewAccumulatorType DEF Called, Fresh
<1>5. DOMAIN groups = {} /\ groups \in [DOMAIN groups -> Accumulator]
  BY DEF Called, Fresh
<1>6. rows \in Seq(Seq(Literal)) /\ keys \in Seq(Literal)
  BY DEF Called, Fresh
<1> QED
  BY <1>1, <1>3, <1>4, <1>5, <1>6 DEF TInv, QueryTypeOK, Opened, Called, Fresh

\* A step that leaves the results of the scan alone and ends, in another stage
\* than the first four, or where it was.
LEMMA EndStep ==
  ASSUME TInv, UNCHANGED <<inputs, where, row, scanned>>,
         stage' \in {"done", "panicked"}, reads' \subseteq Names
  PROVE  TInv'
BY DEF TInv, QueryTypeOK, Opened, Cols, inputs, where, scanned


\* Resolve.
LEMMA TypeResolve == TInv /\ Resolve => TInv'
<1> SUFFICES ASSUME TInv, Resolve PROVE TInv'
  OBVIOUS
<1>0. reads \subseteq Names
  BY DEF TInv, QueryTypeOK
<1>1. CASE Fails("unknown column")
  BY <1>0, <1>1, EndStep DEF Resolve, Fails, Returns
<1>2. CASE ~Fails("unknown column")
  <2>1. /\ \A i \in DOMAIN Cols : Has(Cols[i])
        /\ stage' = IF Filtered(query) THEN "where" ELSE "begin"
        /\ UNCHANGED <<inputs, where, reads, row, scanned>>
    BY <1>2 DEF Resolve, Cols
  <2>2. Opened'
    BY <2>1 DEF Opened, Cols, Has, inputs
  <2>3. Filtered(query) => 1 \in DOMAIN Disjuncts(query.where) /\ 1 \in DOMAIN Terms(query, 1)
    <3>1. SUFFICES ASSUME Filtered(query) PROVE 1 \in DOMAIN Disjuncts(query.where) /\ 1 \in DOMAIN Terms(query, 1)
      OBVIOUS
    <3>2. QueryOK(query) /\ Len(Disjuncts(query.where)) # 0
      BY <3>1 DEF TInv, QueryTypeOK, QueryOK
    <3>3. Disjuncts(query.where) \in Seq(Comparison \cup [kind : {"and"}, kids : Seq(Comparison)])
      BY <3>2 DEF QueryOK
    <3>4. 1 \in DOMAIN Disjuncts(query.where)
      BY <3>2, <3>3
    <3> QED
      BY <3>2, <3>4, TermsType
  <2>4. QueryTypeOK'
    BY <2>1, <2>3 DEF TInv, Opened, Resolve, QueryTypeOK, inputs, where, scanned
  <2> QED
    BY <2>2, <2>4 DEF TInv
<1> QED
  BY <1>1, <1>2

\* The comparison to evaluate next.
LEMMA Current ==
  ASSUME TInv, stage = "where"
  PROVE  /\ Terms(query, d) \in Seq(Comparison) /\ c \in DOMAIN Terms(query, d)
         /\ Terms(query, d)[c].col \in Names /\ Terms(query, d)[c].lit \in Literal
         /\ Terms(query, d)[c].op \in FilterOp
<1>1. QueryOK(query) /\ d \in DOMAIN Disjuncts(query.where) /\ c \in DOMAIN Terms(query, d)
  BY DEF TInv, QueryTypeOK
<1>2. Terms(query, d) \in Seq(Comparison)
  BY <1>1, TermsType
<1>3. Terms(query, d)[c] \in Comparison
  BY <1>1, <1>2
<1> QED
  BY <1>1, <1>2, <1>3 DEF Comparison

\* FailComparison.
LEMMA TypeFailComparison == TInv /\ FailComparison => TInv'
<1> SUFFICES ASSUME TInv, FailComparison PROVE TInv'
  OBVIOUS
<1>1. Terms(query, d)[c].col \in Names
  BY Current DEF FailComparison
<1>2. reads' \subseteq Names
  BY <1>1 DEF FailComparison, TInv, QueryTypeOK
<1> QED
  BY <1>2, EndStep DEF FailComparison, Fails, Returns

\* Compare: the next comparison is one of the WHERE.
LEMMA TypeCompare == TInv /\ Compare => TInv'
<1> SUFFICES ASSUME TInv, Compare PROVE TInv'
  OBVIOUS
<1> DEFINE e == Terms(query, d)[c]
           all == 1 .. seg.rows
<1>1. Terms(query, d) \in Seq(Comparison) /\ Len(Terms(query, d)) \in Nat \ {0} /\ c \in DOMAIN Terms(query, d)
  BY TermsType DEF TInv, QueryTypeOK, Compare
<1>2. e.col \in Names
  BY Current DEF Compare
<1>3. reads' \subseteq Names
  BY <1>2 DEF Compare, TInv, QueryTypeOK
<1>4. conj' \subseteq all /\ selection' \subseteq all
  BY DEF Compare, Scan, TInv, QueryTypeOK
<1>5. UNCHANGED <<inputs, row, scanned, result>>
  BY DEF Compare
<1>6. Disjuncts(query.where) \in Seq(Comparison \cup [kind : {"and"}, kids : Seq(Comparison)])
      /\ d \in DOMAIN Disjuncts(query.where) /\ QueryOK(query)
  BY DEF Compare, TInv, QueryTypeOK, QueryOK
<1>7. CASE /\ c < Len(Terms(query, d))
           /\ c' = c + 1 /\ UNCHANGED <<stage, d, selection>>
  <2>1. c' \in DOMAIN Terms(query, d) /\ c' \in Nat \ {0}
    BY <1>1, <1>7
  <2>2. Opened'
    BY <1>5, <1>7 DEF TInv, Opened, Cols, Has, Compare, inputs
  <2>3. QueryTypeOK'
    BY <1>3, <1>4, <1>5, <1>7, <2>1 DEF TInv, QueryTypeOK, Compare, inputs, scanned
  <2> QED
    BY <2>2, <2>3 DEF TInv
<1>8. CASE /\ d' = d + 1 /\ c' = 1
           /\ stage' = IF d = Len(Disjuncts(query.where)) THEN "begin" ELSE "where"
  <2>1. stage' = "where" => d' \in DOMAIN Disjuncts(query.where)
    BY <1>6, <1>8
  <2>2. stage' = "where" => 1 \in DOMAIN Terms(query, d')
    BY <1>6, <2>1, TermsType
  <2>3. Opened'
    BY <1>5, <1>8 DEF TInv, Opened, Cols, Has, Compare, inputs
  <2>4. d' \in Nat \ {0}
    BY <1>6, <1>8
  <2>5. QueryTypeOK'
    BY <1>3, <1>4, <1>5, <1>8, <2>1, <2>2, <2>4 DEF TInv, QueryTypeOK, inputs, scanned
  <2> QED
    BY <2>3, <2>5 DEF TInv
<1> QED
  BY <1>7, <1>8 DEF Compare
\* The projected columns of a step that is about to scan are names.
LEMMA ColsType == TInv => Cols \in Seq(Names)
BY ProjectedType DEF TInv, QueryTypeOK, Cols

\* A step that starts to scan opened what the projection needs.
LEMMA ProceedStep ==
  ASSUME TInv, stage = "begin", UNCHANGED <<inputs, where, row, scanned>>, Proceeds,
         reads' \subseteq Names,
         query.proj \in {"columns", "star"} => \A i \in DOMAIN Cols : Readable(Cols[i]),
         query.proj = "grouped" => Has(query.groupBy) /\ Readable(query.groupBy),
         Sums(query) => Has(query.sumCol) /\ Readable(query.sumCol) /\ Summable(query.sumCol)
  PROVE  TInv'
<1>1. Opened'
  BY DEF TInv, Opened, Cols, Has, Readable, Summable, Proceeds, inputs
<1>2. QueryTypeOK'
  BY DEF TInv, QueryTypeOK, Proceeds, inputs, where, scanned
<1> QED
  BY <1>1, <1>2 DEF TInv

\* What is true once the column to sum is open.
LEMMA OpensType ==
  ASSUME TInv, NEW name \in Names, NEW before \in SUBSET Names, OpensSumColumn(name, before)
  PROVE  /\ reads' \subseteq Names
         /\ stage' = "done" \/ (Proceeds /\ Summable(name) /\ Readable(name))
BY DEF OpensSumColumn, Fails, Returns, Proceeds

\* The four ways to begin a scan.
LEMMA TypeBegin == TInv /\ (BeginCount \/ BeginSum \/ BeginProject \/ BeginGrouped) => TInv'
<1> USE DEF Fails, Returns
<1>0. TInv => QueryOK(query) /\ reads \subseteq Names
  BY DEF TInv, QueryTypeOK
<1>1. TInv /\ BeginCount => TInv'
  <2>1. ASSUME TInv, BeginCount, stage' = "done" PROVE TInv'
    BY <1>0, <2>1, EndStep DEF BeginCount
  <2>2. ASSUME TInv, BeginCount, stage' # "done" PROVE TInv'
    BY <1>0, <2>2, ProceedStep DEF BeginCount, Sums
  <2> QED
    BY <2>1, <2>2
<1>2. TInv /\ BeginSum => TInv'
  <2> SUFFICES ASSUME TInv, BeginSum PROVE TInv'
    OBVIOUS
  <2>1. query.sumCol \in Names /\ query.proj = "sum"
    BY <1>0 DEF BeginSum, QueryOK
  <2>2. Has(query.sumCol)
    <3>1. Cols = <<query.sumCol>>
      BY <2>1 DEF Cols, ProjectedColumns
    <3> QED
      BY <3>1 DEF BeginSum, TInv, Opened
  <2>3. CASE stage' = "done"
    BY <1>0, <2>1, <2>3, OpensType, EndStep DEF BeginSum
  <2>4. CASE stage' # "done"
    BY <1>0, <2>1, <2>2, <2>4, OpensType, ProceedStep DEF BeginSum
  <2> QED
    BY <2>3, <2>4
<1>3. TInv /\ BeginProject => TInv'
  <2> SUFFICES ASSUME TInv, BeginProject PROVE TInv'
    OBVIOUS
  <2>1. Cols \in Seq(Names)
    BY ColsType
  <2>2. \A n \in DOMAIN Cols : \A i \in 1 .. n : Cols[i] \in Names
    BY <2>1
  <2>3. reads' \subseteq Names
    <3>1. CASE \E n \in DOMAIN Cols : reads' = reads \cup { Cols[i] : i \in 1 .. n }
      BY <1>0, <2>2, <3>1
    <3>2. CASE reads' = reads \cup { Cols[i] : i \in 1 .. Len(Cols) }
      BY <1>0, <2>1, <3>2
    <3> QED
      BY <3>1, <3>2 DEF BeginProject, Cols
  <2>4. CASE stage' = "done"
    BY <2>3, <2>4, EndStep DEF BeginProject
  <2>5. CASE stage' # "done"
    BY <2>3, <2>5, ProceedStep DEF BeginProject, Cols, Sums
  <2> QED
    BY <2>4, <2>5
<1>4. TInv /\ BeginGrouped => TInv'
  <2> SUFFICES ASSUME TInv, BeginGrouped PROVE TInv'
    OBVIOUS
  <2>1. query.sumCol \in Names /\ query.groupBy \in Names /\ query.proj = "grouped"
    BY <1>0 DEF BeginGrouped, QueryOK
  <2>2. CASE stage' = "done" /\ reads' \in {reads, reads \cup {query.groupBy}}
    BY <1>0, <2>1, <2>2, EndStep DEF BeginGrouped
  <2>3. CASE Has(query.groupBy) /\ Readable(query.groupBy) /\ query.agg = "count" /\ Proceeds
             /\ Reads(query.groupBy)
    BY <1>0, <2>1, <2>3, ProceedStep DEF BeginGrouped, Reads, Sums
  <2>4. CASE /\ Has(query.groupBy) /\ Readable(query.groupBy) /\ Has(query.sumCol)
             /\ OpensSumColumn(query.sumCol, reads \cup {query.groupBy})
    <3>1. reads \cup {query.groupBy} \in SUBSET Names
      BY <1>0, <2>1
    <3>2. CASE stage' = "done"
      BY <2>1, <2>4, <3>1, <3>2, OpensType, EndStep DEF BeginGrouped
    <3>3. CASE stage' # "done"
      BY <2>1, <2>4, <3>1, <3>3, OpensType, ProceedStep DEF BeginGrouped
    <3> QED
      BY <3>2, <3>3
  <2> QED
    BY <2>2, <2>3, <2>4 DEF BeginGrouped, Reads
<1> QED
  BY <1>1, <1>2, <1>3, <1>4
\* A step of the loop: the next row, and accumulators that are still ones.
LEMMA RowStep ==
  ASSUME TInv, stage = "scan", row <= seg.rows, NextRow,
         rows' \in Seq(Seq(Literal)), acc' \in Accumulator, keys' \in Seq(Literal),
         DOMAIN groups' \subseteq Int, groups' \in [DOMAIN groups' -> Accumulator]
  PROVE  TInv'
<1>1. seg.rows \in Nat
  BY DEF TInv, QueryTypeOK, SegmentOK
<1>2. row' \in 1 .. (seg.rows + 1)
  BY <1>1 DEF TInv, QueryTypeOK, NextRow
<1>3. Opened'
  BY DEF TInv, Opened, Cols, Has, Readable, Summable, NextRow, inputs, where
<1>4. QueryTypeOK'
  BY <1>2 DEF TInv, QueryTypeOK, NextRow, inputs, where
<1> QED
  BY <1>3, <1>4 DEF TInv

\* The actions of the loop over the rows.
LEMMA TypeScan ==
  TInv /\ (SkipRow \/ ProjectRow \/ AggregateRow \/ GroupRow \/ SumOverflow) => TInv'
<1>0. TInv => /\ QueryOK(query) /\ reads \subseteq Names
              /\ rows \in Seq(Seq(Literal)) /\ acc \in Accumulator /\ keys \in Seq(Literal)
              /\ DOMAIN groups \subseteq Int /\ groups \in [DOMAIN groups -> Accumulator]
  BY DEF TInv, QueryTypeOK
<1>1. TInv /\ SkipRow => TInv'
  BY <1>0, RowStep DEF SkipRow, scanned
<1>2. TInv /\ ProjectRow => TInv'
  <2> SUFFICES ASSUME TInv, ProjectRow PROVE TInv'
    OBVIOUS
  <2> DEFINE cells == [j \in DOMAIN Cols |-> CellOf(Cols[j], row)]
  <2>1. Cols \in Seq(Names)
    BY ColsType
  <2>2. \A j \in DOMAIN Cols : Has(Cols[j]) /\ Readable(Cols[j])
    BY DEF TInv, Opened, ProjectRow, AtRow
  <2>3. \A j \in DOMAIN Cols : CellOf(Cols[j], row) \in Literal
    BY <2>1, <2>2, CellOfType DEF ProjectRow, AtRow
  <2>4. DOMAIN Cols = 1 .. Len(Cols) /\ Len(Cols) \in Nat
    BY <2>1
  <2>5. cells \in [1 .. Len(Cols) -> Literal]
    BY <2>3, <2>4
  <2>6. cells \in Seq(Literal)
    BY <2>4, <2>5, FunctionIsSeq
  <2>7. rows' = Append(rows, cells)
    BY DEF ProjectRow, Cols
  <2>8. rows' \in Seq(Seq(Literal))
    BY <1>0, <2>6, <2>7
  <2> QED
    BY <1>0, <2>8, RowStep DEF ProjectRow, AtRow
<1>3. TInv /\ AggregateRow => TInv'
  <2> SUFFICES ASSUME TInv, AggregateRow PROVE TInv'
    OBVIOUS
  <2>1. acc' \in Accumulator
    BY <1>0, AddType DEF AggregateRow, AtRow
  <2> QED
    BY <1>0, <2>1, RowStep DEF AggregateRow, AtRow
<1>4. TInv /\ GroupRow => TInv'
  <2> SUFFICES ASSUME TInv, GroupRow PROVE TInv'
    OBVIOUS
  <2>1. query.groupBy \in Names /\ Has(query.groupBy) /\ Readable(query.groupBy)
    BY <1>0 DEF TInv, Opened, GroupRow, AtRow, QueryOK
  <2>2. CellOf(query.groupBy, row) \in Literal /\ Key \in Int \cup {NaN}
    BY <2>1, CellOfType DEF GroupRow, AtRow, Key
  <2>3. keys' \in Seq(Literal)
    BY <1>0, <2>2 DEF GroupRow
  <2>4. Add(AccumulatorAt) \in Accumulator
    BY AccumulatorAtType, AddType DEF GroupRow, AtRow
  <2>5. DOMAIN groups' \subseteq Int /\ groups' \in [DOMAIN groups' -> Accumulator]
    <3>1. CASE Key = NaN
      BY <1>0, <3>1 DEF GroupRow
    <3>2. CASE Key # NaN
      <4>1. Key \in Int
        BY <2>2, <3>2
      <4>2. groups' = [k \in DOMAIN groups \cup {Key} |->
                         IF k = Key THEN Add(AccumulatorAt) ELSE groups[k]]
        BY <3>2 DEF GroupRow
      <4>3. \A k \in DOMAIN groups : groups[k] \in Accumulator
        BY AccumulatorAtType
      <4> QED
        BY <1>0, <2>4, <4>1, <4>2, <4>3
    <3> QED
      BY <3>1, <3>2
  <2> QED
    BY <1>0, <2>3, <2>5, RowStep DEF GroupRow, AtRow
<1>5. TInv /\ SumOverflow => TInv'
  BY <1>0, EndStep DEF SumOverflow, Fails, Returns
<1> QED
  BY <1>1, <1>2, <1>3, <1>4, <1>5

\* What comes after the loop.
LEMMA TypeEnd == TInv /\ (Emit \/ Panic) => TInv'
<1>0. TInv => reads \subseteq Names
  BY DEF TInv, QueryTypeOK
<1>1. TInv /\ Emit => TInv'
  BY <1>0, EndStep DEF Emit, Returns
<1>2. TInv /\ Panic => TInv'
  BY <1>0, EndStep DEF Panic
<1> QED
  BY <1>1, <1>2

\* Every action of the executor.
LEMMA TypeStep == TInv /\ [QueryNext]_qvars => TInv'
<1>1. ASSUME TInv, UNCHANGED qvars PROVE TInv'
  BY <1>1 DEF TInv, QueryTypeOK, Opened, Cols, Has, Readable, Summable,
              qvars, inputs, where, scanned
<1> QED
  BY <1>1, TypeResolve, TypeFailComparison, TypeCompare, TypeBegin, TypeScan, TypeEnd DEF QueryNext

\* TInv is inductive.
LEMMA TypeInvariant == QuerySpec => []TInv
<1> QED
  BY InitCalled, TypeInit, TypeStep, PTL DEF QuerySpec

\* The executor stays in its types: no index leaves the WHERE or the columns,
\* and every running sum is an int64, whatever the segment and the query.
THEOREM QueryTypeCorrect == QuerySpec => []QueryTypeOK
<1>1. TInv => QueryTypeOK
  BY DEF TInv
<1> QED
  BY <1>1, TypeInvariant, PTL

-----------------------------------------------------------------------------
(* Sums.                                                                    *)

\* A step of the loop in a query that sums int64 values.
LEMMA AddsStep ==
  ASSUME TInv, QueryNext, stage = "scan", SumsInts
  PROVE  /\ row' # row /\ query.proj = "sum" =>
              acc'.sumI64 = acc.sumI64 + (IF Picked(row) THEN Addend ELSE 0)
         /\ row' # row /\ query.proj = "grouped" =>
              \A k \in DOMAIN groups' :
                groups'[k].sumI64 = SumOf(k) + (IF Picked(row) /\ Key = k THEN Addend ELSE 0)
         /\ result' # result /\ result' = [kind |-> "error", why |-> "sum overflow"] =>
              (IF query.proj = "sum" THEN acc.sumI64 ELSE SumOf(Key)) + Addend \notin Int64
<1>0. /\ acc \in Accumulator /\ \A k \in DOMAIN groups : groups[k] \in Accumulator
      /\ AccumulatorAt \in Accumulator /\ row \in Nat /\ seg.rows \in Nat
      /\ DOMAIN groups \subseteq Int /\ NaN \notin Int
  BY AccumulatorAtType, NumberAssumption DEF TInv, QueryTypeOK, SegmentOK
<1>1. \A a \in Accumulator : a.sumI64 \in Int
  BY NumberAssumption DEF Accumulator, Int64, MinInt
<1>2. \A k \in DOMAIN groups : groups[k].sumI64 \in Int /\ SumOf(k) = groups[k].sumI64
  BY <1>0, <1>1 DEF SumOf
<1>3. AccumulatorAt.sumI64 = SumOf(Key)
  BY <1>0, NewAccumulatorType DEF AccumulatorAt, Found, SumOf
<1>4. CASE SkipRow
  <2>1. row' = row + 1 /\ ~Picked(row) /\ acc' = acc /\ groups' = groups /\ result' = result
    BY <1>4 DEF SkipRow, NextRow, scanned
  <2> QED
    BY <1>0, <1>1, <1>2, <2>1
<1>5. CASE AggregateRow
  <2>1. Picked(row) /\ acc' = Add(acc) /\ ~AddFails(acc) /\ row <= seg.rows
        /\ query.proj # "grouped" /\ result' = result
    BY <1>5 DEF AggregateRow, AtRow, NextRow
  <2>2. Add(acc).sumI64 = acc.sumI64 + Addend
    BY <1>0, <2>1, AddType
  <2> QED
    BY <2>1, <2>2
<1>6. CASE GroupRow
  <2>1. /\ Picked(row) /\ ~AddFails(AccumulatorAt) /\ row <= seg.rows
        /\ query.proj = "grouped" /\ result' = result
        /\ groups' = IF Key = NaN THEN groups
                     ELSE [k \in DOMAIN groups \cup {Key} |->
                             IF k = Key THEN Add(AccumulatorAt) ELSE groups[k]]
    BY <1>6 DEF GroupRow, AtRow, NextRow
  <2>2. Add(AccumulatorAt).sumI64 = SumOf(Key) + Addend
    BY <1>0, <1>3, <2>1, AddType
  <2>3. ASSUME NEW k \in DOMAIN groups'
        PROVE  groups'[k].sumI64 = SumOf(k) + (IF Picked(row) /\ Key = k THEN Addend ELSE 0)
    <3>1. CASE k = Key
      <4>1. Key # NaN
        BY <1>0, <2>1, <2>3, <3>1
      <4>2. groups'[k] = Add(AccumulatorAt)
        BY <2>1, <3>1, <4>1
      <4> QED
        BY <2>1, <2>2, <3>1, <4>2
    <3>2. CASE k # Key
      <4>1. k \in DOMAIN groups /\ groups'[k] = groups[k]
        BY <2>1, <2>3, <3>2
      <4> QED
        BY <1>2, <3>2, <4>1
    <3> QED
      BY <3>1, <3>2
  <2> QED
    BY <2>1, <2>3
<1>7. CASE SumOverflow
  <2>0. row' = row /\ row <= seg.rows
    BY <1>7 DEF SumOverflow, AtRow
  <2>1. Addend \in Int64
    <3>1. Sums(query) /\ query.sumCol \in Names /\ TypeIn(seg, query.sumCol) = "int64"
      BY DEF SumsInts, TInv, QueryTypeOK, QueryOK
    <3>2. Has(query.sumCol) /\ Readable(query.sumCol)
      BY <3>1 DEF TInv, Opened
    <3>3. row \in 1 .. seg.rows /\ SegmentOK(seg)
      BY <1>0, <2>0 DEF TInv, QueryTypeOK
    <3> QED
      BY <3>1, <3>2, <3>3, ValueType DEF Addend, Has, Readable
  <2>2. ASSUME NEW a \in Accumulator, AddFails(a) PROVE a.sumI64 + Addend \notin Int64
    <3>1. a.sumI64 \in Int64
      BY DEF Accumulator
    <3> QED
      BY <2>1, <2>2, <3>1, AdditionExact DEF AddFails
  <2>3. CASE query.proj = "sum" /\ AddFails(acc)
    BY <1>0, <2>0, <2>2, <2>3
  <2>4. CASE query.proj = "grouped" /\ AddFails(AccumulatorAt)
    BY <1>0, <1>3, <2>0, <2>2, <2>4
  <2> QED
    BY <1>7, <2>3, <2>4 DEF SumOverflow
<1>8. CASE ProjectRow
  BY <1>8 DEF ProjectRow, SumsInts, Sums
<1>9. CASE Emit \/ Panic
  <2>1. row' = row
    BY <1>9 DEF Emit, Panic
  <2>2. result' = result \/ result'.kind = "rows"
    BY <1>9 DEF Emit, Panic, Returns
  <2>3. [kind |-> "error", why |-> "sum overflow"].kind # "rows"
    OBVIOUS
  <2>4. ~(result' # result /\ result' = [kind |-> "error", why |-> "sum overflow"])
    BY <2>2, <2>3
  <2> QED
    BY <2>1, <2>4
<1>10. CASE Resolve \/ FailComparison \/ Compare \/ BeginCount \/ BeginSum \/ BeginProject \/ BeginGrouped
  BY <1>10 DEF Resolve, FailComparison, Compare, BeginCount, BeginSum, BeginProject, BeginGrouped
<1> QED
  BY <1>4, <1>5, <1>6, <1>7, <1>8, <1>9, <1>10 DEF QueryNext

\* SUM is exact: it moves each int64 sum by exactly the value of the row, and
\* fails only where the sum is not an int64, for every width of the integers.
THEOREM SumsExact == QuerySpec => AddsExactly
<1> DEFINE A == stage = "scan" /\ SumsInts =>
      /\ row' # row /\ query.proj = "sum" =>
           acc'.sumI64 = acc.sumI64 + (IF Picked(row) THEN Addend ELSE 0)
      /\ row' # row /\ query.proj = "grouped" =>
           \A k \in DOMAIN groups' :
             groups'[k].sumI64 = SumOf(k) + (IF Picked(row) /\ Key = k THEN Addend ELSE 0)
      /\ result' # result /\ result' = [kind |-> "error", why |-> "sum overflow"] =>
           (IF query.proj = "sum" THEN acc.sumI64 ELSE SumOf(Key)) + Addend \notin Int64
<1>1. TInv /\ [QueryNext]_qvars => [A]_qvars
  BY AddsStep
<1> QED
  BY <1>1, TypeInvariant, PTL DEF QuerySpec, AddsExactly

-----------------------------------------------------------------------------
(* Selections.                                                              *)

\* What one comparison adds to the selection is the rows that meet it.
LEMMA ScanMeets ==
  ASSUME TInv, stage = "where", Has(Terms(query, d)[c].col),
         Terms(query, d)[c].lit.type = TypeIn(seg, Terms(query, d)[c].col),
         Readable(Terms(query, d)[c].col)
  PROVE  Scan(Terms(query, d)[c]) = Meets(seg, Terms(query, d)[c])
<1> DEFINE e == Terms(query, d)[c]
           w == Number[e.lit.type][e.lit.bits]
<1>1. e.col \in Names /\ e.lit \in Literal /\ e.op \in FilterOp /\ SegmentOK(seg)
  BY Current DEF TInv, QueryTypeOK
<1>2. w \in Int \cup {NaN}
  BY <1>1, NumberAssumption DEF Literal
<1>3. \A r \in 1 .. seg.rows : Value(seg, e.col, r) \in Int \cup {NaN}
  BY <1>1, ValueType DEF Has, Readable
<1>4. \A r \in 1 .. seg.rows :
        CompareRow(Value(seg, e.col, r), e.op, w) <=> Order(Value(seg, e.col, r), w) \in Admits(e.op)
  BY <1>1, <1>2, <1>3, CompareMeans
<1> QED
  BY <1>4 DEF Scan, Meets

\* SelectionRight needs to know how the evaluation starts.
SInv == TInv /\ SelectionRight /\ (stage = "resolve" => selection = {})

\* A comparison extends the part of the WHERE that was evaluated.
LEMMA SelectionCompare == SInv /\ Compare => SelectionRight'
<1> SUFFICES ASSUME SInv, Compare PROVE SelectionRight'
  OBVIOUS
<1> DEFINE all == 1 .. seg.rows
           ts == Terms(query, d)
           met(n) == { r \in all : \A i \in 1 .. n : r \in Meets(seg, ts[i]) }
           sel(n) == { r \in all : \E i \in 1 .. n : r \in MeetsAll(seg, Terms(query, i)) }
           terms == IF c = 1 THEN Scan(ts[c]) ELSE conj \cap Scan(ts[c])
<1>1. /\ TInv /\ stage = "where" /\ seg' = seg /\ query' = query
      /\ selection = sel(d - 1) /\ (c > 1 => conj = met(c - 1))
  BY DEF SInv, SelectionRight, Compare, inputs
<1>2. /\ ts \in Seq(Comparison) /\ c \in DOMAIN ts /\ c \in Nat \ {0} /\ d \in Nat \ {0}
      /\ d \in DOMAIN Disjuncts(query.where)
      /\ DOMAIN Disjuncts(query.where) = 1 .. Len(Disjuncts(query.where))
      /\ DOMAIN ts = 1 .. Len(ts) /\ Len(ts) \in Nat /\ Len(Disjuncts(query.where)) \in Nat
  BY <1>1, Current DEF TInv, QueryTypeOK, QueryOK
<1>3. Scan(ts[c]) = Meets(seg, ts[c]) /\ conj' = terms
  BY <1>1, ScanMeets DEF Compare
<1>4. Meets(seg, ts[c]) \subseteq all
  BY DEF Meets
<1>5. terms = met(c)
  <2>1. CASE c = 1
    BY <1>2, <1>3, <1>4, <2>1
  <2>2. CASE c > 1
    <3>1. terms = met(c - 1) \cap Meets(seg, ts[c])
      BY <1>1, <1>2, <1>3, <2>2
    <3>2. \A i : i \in 1 .. c <=> i \in 1 .. (c - 1) \/ i = c
      BY <1>2
    <3> QED
      BY <1>4, <3>1, <3>2
  <2> QED
    BY <1>2, <2>1, <2>2
<1>6. CASE c < Len(ts) /\ c' = c + 1 /\ UNCHANGED <<stage, d, selection>>
  <2>1. c' - 1 = c
    BY <1>2, <1>6
  <2> QED
    BY <1>1, <1>3, <1>5, <1>6, <2>1 DEF SelectionRight
<1>7. CASE /\ c = Len(ts) /\ d' = d + 1 /\ c' = 1
           /\ selection' = IF d = 1 THEN terms ELSE selection \cup terms
           /\ stage' = IF d = Len(Disjuncts(query.where)) THEN "begin" ELSE "where"
  <2>1. terms = MeetsAll(seg, ts)
    BY <1>2, <1>5, <1>7 DEF MeetsAll
  <2>2. selection' = sel(d)
    <3>1. \A i : i \in 1 .. d <=> i \in 1 .. (d - 1) \/ i = d
      BY <1>2
    <3>2. MeetsAll(seg, ts) \subseteq all
      BY DEF MeetsAll
    <3>3. sel(d) = sel(d - 1) \cup MeetsAll(seg, ts)
      BY <3>1, <3>2
    <3>4. d = 1 => sel(d - 1) = {}
      OBVIOUS
    <3> QED
      BY <1>1, <1>7, <2>1, <3>3, <3>4
  <2>3. CASE stage' = "where"
    BY <1>1, <1>2, <1>7, <2>2, <2>3 DEF SelectionRight
  <2>4. CASE stage' = "begin"
    <3>1. d = Len(Disjuncts(query.where)) /\ Filtered(query)
      BY <1>1, <1>7, <2>4 DEF TInv, Opened
    <3>2. sel(d) = Selected(seg, query)
      BY <1>2, <3>1 DEF Selected
    <3>3. { r \in 1 .. seg'.rows : Picked(r)' } = sel(d)
      BY <1>1, <2>2, <3>1 DEF Picked
    <3> QED
      BY <1>1, <2>4, <3>2, <3>3 DEF SelectionRight
  <2> QED
    BY <1>7, <2>3, <2>4
<1> QED
  BY <1>6, <1>7 DEF Compare

\* Every action keeps SInv.
LEMMA SelectionStep == SInv /\ [QueryNext]_qvars => SInv'
<1> SUFFICES ASSUME SInv, [QueryNext]_qvars PROVE SInv'
  OBVIOUS
<1>1. TInv'
  BY TypeStep DEF SInv
<1>3. CASE UNCHANGED qvars
  <2>1. /\ seg' = seg /\ query' = query /\ stage' = stage
        /\ d' = d /\ c' = c /\ conj' = conj /\ selection' = selection
    BY <1>3 DEF qvars, inputs, where
  <2>2. SelectionRight'
    BY <2>1 DEF SInv, SelectionRight, Picked
  <2> QED
    BY <1>1, <2>1, <2>2 DEF SInv
<1>4. CASE Compare
  <2>1. SelectionRight'
    BY <1>4, SelectionCompare
  <2>2. stage' # "resolve"
    BY <1>4 DEF Compare
  <2> QED
    BY <1>1, <2>1, <2>2 DEF SInv
<1>5. CASE Resolve
  <2>1. /\ seg' = seg /\ query' = query /\ selection' = {} /\ d' = 1 /\ c' = 1
        /\ stage' \in {"done", "where", "begin"} /\ (stage' = "begin" => ~Filtered(query))
    BY <1>5 DEF Resolve, inputs, where, SInv, TInv, Opened, Fails, Returns
  <2>2. ASSUME stage' = "where" PROVE SelectionRight'
    <3>1. 1 .. (d' - 1) = {} /\ ~(c' > 1)
      BY <2>1
    <3> QED
      BY <2>1, <2>2, <3>1 DEF SelectionRight
  <2>3. ASSUME stage' = "begin" PROVE SelectionRight'
    <3>1. \A r : Picked(r)'
      BY <2>1, <2>3 DEF Picked
    <3>2. { r \in 1 .. seg'.rows : Picked(r)' } = Selected(seg', query')
      BY <2>1, <2>3, <3>1 DEF Selected
    <3> QED
      BY <2>3, <3>2 DEF SelectionRight
  <2>4. SelectionRight'
    BY <2>1, <2>2, <2>3 DEF SelectionRight
  <2> QED
    BY <1>1, <2>1, <2>4 DEF SInv
<1>6. CASE FailComparison
  <2>1. stage' = "done"
    BY <1>6 DEF FailComparison, Fails, Returns
  <2> QED
    BY <1>1, <2>1 DEF SInv, SelectionRight
<1>7. CASE BeginCount \/ BeginSum \/ BeginProject \/ BeginGrouped \/ SkipRow \/ ProjectRow
           \/ AggregateRow \/ GroupRow \/ SumOverflow \/ Emit \/ Panic
  <2>1. /\ seg' = seg /\ query' = query /\ UNCHANGED where
        /\ stage \in {"begin", "scan"} /\ stage' \in {"scan", "done", "panicked"}
    BY <1>7 DEF BeginCount, BeginSum, BeginProject,
         BeginGrouped, SkipRow, ProjectRow, AggregateRow, GroupRow, SumOverflow, Emit, Panic,
         NextRow, Fails, Returns, Proceeds, OpensSumColumn, AtRow, AtEnd, inputs
  <2>2. SelectionRight'
    BY <2>1 DEF SInv, SelectionRight, where, Picked
  <2> QED
    BY <1>1, <2>1, <2>2 DEF SInv
<1> QED
  BY <1>3, <1>4, <1>5, <1>6, <1>7 DEF QueryNext

\* SInv is inductive.
LEMMA SelectionInit == Called => SInv
BY TypeInit DEF SInv, SelectionRight, Called, Fresh

LEMMA SelectionInvariant == QuerySpec => []SInv
BY InitCalled, SelectionInit, SelectionStep, PTL DEF QuerySpec

\* Whatever the segment and the WHERE, the accumulated selection vectors are
\* its meaning.
THEOREM SelectionCorrect == QuerySpec => []SelectionRight
<1>1. SInv => SelectionRight
  BY DEF SInv
<1> QED
  BY <1>1, SelectionInvariant, PTL

-----------------------------------------------------------------------------
(* Column pruning.                                                          *)

\* The columns of the first n terms of a disjunct, and of the first n disjuncts.
TermColumns(i, n) == { Terms(query, i)[j].col : j \in 1 .. n }
FilterColumns(n) ==
  UNION { { Terms(query, i)[j].col : j \in DOMAIN Terms(query, i) } : i \in 1 .. n }
OtherColumns ==
  { Cols[i] : i \in DOMAIN Cols }
  \cup { x \in {query.groupBy} : query.proj = "grouped" }
  \cup { x \in {query.sumCol} : Sums(query) }

\* What was read is what the evaluation has come past.
ReadSoFar ==
  /\ stage = "resolve" => reads = {}
  /\ stage = "where" => reads = FilterColumns(d - 1) \cup TermColumns(d, c - 1)
  /\ stage = "begin" => reads = WhereColumns(query)
  /\ stage = "scan" => reads = Mentioned(seg, query)
  /\ stage # "done" => result = NoResult

PInv == TInv /\ ReadSoFar /\ Pruned

\* A query mentions what it projects, filters, groups and sums.
LEMMA MentionedIs ==
  ASSUME TInv
  PROVE  Mentioned(seg, query) = OtherColumns \cup WhereColumns(query)
<1> DEFINE columns == { Cols[i] : i \in DOMAIN Cols }
           group == { x \in {query.groupBy} : query.proj = "grouped" }
           sum == { x \in {query.sumCol} : Sums(query) }
<1>1. Mentioned(seg, query) = columns \cup WhereColumns(query) \cup group \cup sum
  BY DEF Mentioned, Cols
<1>2. OtherColumns = columns \cup group \cup sum
  BY DEF OtherColumns
<1> HIDE DEF columns, group, sum
<1> QED
  BY <1>1, <1>2

\* All disjuncts together.
LEMMA FilterColumnsAll ==
  ASSUME TInv
  PROVE  WhereColumns(query) = FilterColumns(Len(Disjuncts(query.where)))
<1>1. /\ QueryOK(query)
      /\ DOMAIN Disjuncts(query.where) = 1 .. Len(Disjuncts(query.where))
  BY DEF TInv, QueryTypeOK, QueryOK
<1>2. ASSUME NEW i \in DOMAIN Disjuncts(query.where), NEW j \in DOMAIN Terms(query, i)
      PROVE  Terms(query, i)[j].col \in Names
  <2>1. Terms(query, i) \in Seq(Comparison)
    BY <1>1, TermsType
  <2>2. Terms(query, i)[j] \in Comparison
    BY <2>1
  <2> QED
    BY <2>2 DEF Comparison
<1> QED
  BY <1>1, <1>2 DEF WhereColumns, FilterColumns

\* One more comparison.
LEMMA FilterGrows ==
  ASSUME TInv, stage = "where"
  PROVE  /\ FilterColumns(d - 1) \cup TermColumns(d, c - 1) \cup {Terms(query, d)[c].col}
              = FilterColumns(d - 1) \cup TermColumns(d, c)
         /\ c = Len(Terms(query, d)) =>
              FilterColumns(d - 1) \cup TermColumns(d, c) = FilterColumns(d)
         /\ FilterColumns(d - 1) \cup TermColumns(d, c) \subseteq WhereColumns(query)
<1>1. /\ c \in Nat \ {0} /\ d \in Nat \ {0} /\ Len(Terms(query, d)) \in Nat
      /\ DOMAIN Terms(query, d) = 1 .. Len(Terms(query, d)) /\ c \in DOMAIN Terms(query, d)
      /\ d \in 1 .. Len(Disjuncts(query.where)) /\ Len(Disjuncts(query.where)) \in Nat
  <2>1. Disjuncts(query.where) \in Seq(Comparison \cup [kind : {"and"}, kids : Seq(Comparison)])
    BY DEF TInv, QueryTypeOK, QueryOK
  <2> QED
    BY <2>1, Current DEF TInv, QueryTypeOK
<1>2. \A i : i \in 1 .. c <=> i \in 1 .. (c - 1) \/ i = c
  BY <1>1
<1>3. \A i : i \in 1 .. d <=> i \in 1 .. (d - 1) \/ i = d
  BY <1>1
<1>4. TermColumns(d, c) = TermColumns(d, c - 1) \cup {Terms(query, d)[c].col}
  BY <1>2 DEF TermColumns
<1> DEFINE own == { Terms(query, d)[j].col : j \in DOMAIN Terms(query, d) }
<1>5. FilterColumns(d) = FilterColumns(d - 1) \cup own
  BY <1>3 DEF FilterColumns
<1>6. TermColumns(d, c) \subseteq own /\ (c = Len(Terms(query, d)) => TermColumns(d, c) = own)
  BY <1>1 DEF TermColumns
<1>7. \A i \in 1 .. d : i \in 1 .. Len(Disjuncts(query.where))
  BY <1>1
<1>8. FilterColumns(d) \subseteq WhereColumns(query)
  BY <1>7, FilterColumnsAll DEF FilterColumns
<1> QED
  BY <1>4, <1>5, <1>6, <1>8

\* An error is no answer.
LEMMA FailsKind ==
  ASSUME NEW why, Fails(why)
  PROVE  stage' = "done" /\ result'.kind = "error"
BY DEF Fails, Returns

\* A comparison reads the column it names.
LEMMA PrunedCompare == PInv /\ (FailComparison \/ Compare) => ReadSoFar' /\ Pruned'
<1> SUFFICES ASSUME PInv, FailComparison \/ Compare PROVE ReadSoFar' /\ Pruned'
  OBVIOUS
<1> DEFINE past == FilterColumns(d - 1) \cup TermColumns(d, c)
<1>1. /\ TInv /\ stage = "where" /\ seg' = seg /\ query' = query /\ result = NoResult
      /\ reads = FilterColumns(d - 1) \cup TermColumns(d, c - 1)
  BY DEF PInv, ReadSoFar, FailComparison, Compare, inputs
<1>2. reads \cup {Terms(query, d)[c].col} = past
  BY <1>1, FilterGrows
<1>3. past \subseteq Mentioned(seg, query)
  BY <1>1, FilterGrows, MentionedIs
<1>4. NoResult.kind # "rows"
  BY DEF NoResult
<1>5. CASE FailComparison
  <2>1. stage' = "done" /\ reads' \in {reads, past} /\ result'.kind = "error"
    BY <1>2, <1>5, FailsKind DEF FailComparison
  <2> QED
    BY <1>1, <1>2, <1>3, <2>1 DEF ReadSoFar, Pruned
<1>6. CASE Compare
  <2>1. reads' = past /\ result' = NoResult
    BY <1>1, <1>2, <1>6 DEF Compare
  <2>2. Pruned'
    BY <1>1, <1>3, <1>4, <2>1 DEF Pruned
  <2>3. CASE c' = c + 1 /\ UNCHANGED <<stage, d, selection>>
    <3>1. c' - 1 = c
      BY <1>1, <2>3 DEF TInv, QueryTypeOK
    <3>2. reads' = (FilterColumns(d - 1) \cup TermColumns(d, c - 1))'
      BY <1>1, <2>1, <2>3, <3>1 DEF FilterColumns, TermColumns
    <3>3. stage' = "where"
      BY <1>1, <2>3
    <3> QED
      BY <2>1, <2>2, <3>2, <3>3 DEF ReadSoFar
  <2>4. CASE /\ c = Len(Terms(query, d)) /\ d' = d + 1 /\ c' = 1
             /\ stage' = IF d = Len(Disjuncts(query.where)) THEN "begin" ELSE "where"
    <3>1. d' - 1 = d /\ c' - 1 = 0 /\ 1 .. 0 = {}
      BY <1>1, <2>4 DEF TInv, QueryTypeOK
    <3>2. reads' = FilterColumns(d)
      BY <1>1, <2>1, <2>4, FilterGrows
    <3>3. TermColumns(d', 0) = {}
      BY <3>1 DEF TermColumns
    <3>4. stage' = "begin" => reads' = WhereColumns(query)'
      BY <1>1, <2>4, <3>2, FilterColumnsAll
    <3>5. stage' = "where" => reads' = (FilterColumns(d - 1) \cup TermColumns(d, c - 1))'
      BY <1>1, <3>1, <3>2, <3>3 DEF TermColumns, FilterColumns
    <3> QED
      BY <2>1, <2>2, <2>4, <3>4, <3>5 DEF ReadSoFar
  <2> QED
    BY <1>6, <2>3, <2>4 DEF Compare
<1> QED
  BY <1>5, <1>6

\* A step from "begin" reads what the query names, or less and fails.
LEMMA PrunedBegin ==
  PInv /\ (BeginCount \/ BeginSum \/ BeginProject \/ BeginGrouped) => ReadSoFar' /\ Pruned'
<1> SUFFICES ASSUME PInv, BeginCount \/ BeginSum \/ BeginProject \/ BeginGrouped
             PROVE  ReadSoFar' /\ Pruned'
  OBVIOUS
<1>1. /\ TInv /\ stage = "begin" /\ seg' = seg /\ query' = query /\ result = NoResult
      /\ reads = WhereColumns(query) /\ Mentioned(seg, query) = OtherColumns \cup WhereColumns(query)
  BY MentionedIs DEF PInv, ReadSoFar, BeginCount, BeginSum, BeginProject, BeginGrouped, inputs
<1>2. NoResult.kind # "rows"
  BY DEF NoResult
<1> DEFINE Failed == stage' = "done" /\ result'.kind = "error" /\ reads' \subseteq Mentioned(seg, query)
           Went == /\ reads' = Mentioned(seg, query)
                   /\ (stage' = "scan" /\ result' = NoResult) \/ stage' = "done"
<1>3. Failed => ReadSoFar' /\ Pruned'
  BY <1>1 DEF ReadSoFar, Pruned
<1>4. Went => ReadSoFar' /\ Pruned'
  BY <1>1, <1>2 DEF ReadSoFar, Pruned
<1>5. CASE BeginCount
  <2>1. OtherColumns = {}
    BY <1>5 DEF BeginCount, OtherColumns, Cols, ProjectedColumns, Sums
  <2>2. Went
    BY <1>1, <1>5, <2>1 DEF BeginCount, Returns, Proceeds
  <2> QED
    BY <1>4, <2>2
<1>6. CASE BeginSum
  <2>1. OtherColumns = {query.sumCol}
    BY <1>6 DEF BeginSum, OtherColumns, Cols, ProjectedColumns, Sums
  <2>2. Went \/ Failed
    BY <1>1, <1>6, <2>1, FailsKind DEF BeginSum, OpensSumColumn, Proceeds
  <2> QED
    BY <1>3, <1>4, <2>2
<1>7. CASE BeginProject
  <2>1. OtherColumns = { Cols[i] : i \in DOMAIN Cols }
    BY <1>7 DEF BeginProject, OtherColumns, Sums
  <2>2. DOMAIN Cols = 1 .. Len(Cols) /\ Len(Cols) \in Nat
    BY <1>1, ColsType
  <2>3. CASE \E n \in DOMAIN Cols :
               Fails("unreadable") /\ reads' = reads \cup { Cols[i] : i \in 1 .. n }
    <3>1. reads' \subseteq Mentioned(seg, query)
      BY <1>1, <2>1, <2>2, <2>3
    <3> QED
      BY <1>3, <2>3, <3>1, FailsKind
  <2>4. CASE Proceeds /\ reads' = reads \cup { Cols[i] : i \in 1 .. Len(Cols) }
    <3>1. reads' = Mentioned(seg, query)
      BY <1>1, <2>1, <2>2, <2>4
    <3> QED
      BY <1>1, <1>4, <2>4, <3>1 DEF Proceeds
  <2> QED
    BY <1>7, <2>3, <2>4 DEF BeginProject, Cols
<1>8. CASE BeginGrouped
  <2>1. OtherColumns = {query.groupBy} \cup { x \in {query.sumCol} : query.agg = "sum" }
    <3>1. query.proj = "grouped" /\ Cols = <<>>
      BY <1>8 DEF BeginGrouped, Cols, ProjectedColumns
    <3>2. Sums(query) <=> query.agg = "sum"
      BY <3>1 DEF Sums
    <3> QED
      BY <3>1, <3>2 DEF OtherColumns
  <2>2. CASE stage' = "done" /\ result'.kind = "error"
             /\ reads' \in {reads, reads \cup {query.groupBy}}
    <3>1. Failed
      BY <1>1, <2>1, <2>2
    <3> QED
      BY <1>3, <3>1
  <2>3. CASE query.agg = "count" /\ Proceeds /\ reads' = reads \cup {query.groupBy}
    <3>1. Went
      BY <1>1, <2>1, <2>3 DEF Proceeds
    <3> QED
      BY <1>4, <3>1
  <2>4. CASE query.agg = "sum" /\ OpensSumColumn(query.sumCol, reads \cup {query.groupBy})
    <3>1. Went \/ Failed
      BY <1>1, <2>1, <2>4, FailsKind DEF OpensSumColumn, Proceeds
    <3> QED
      BY <1>3, <1>4, <3>1
  <2> QED
    BY <1>8, <2>2, <2>3, <2>4, FailsKind DEF BeginGrouped, Reads
<1> QED
  BY <1>5, <1>6, <1>7, <1>8

\* Every action keeps PInv.
LEMMA PrunedStep == PInv /\ [QueryNext]_qvars => PInv'
<1> SUFFICES ASSUME PInv, [QueryNext]_qvars PROVE PInv'
  OBVIOUS
<1>1. TInv'
  BY TypeStep DEF PInv
<1>2. NoResult.kind # "rows"
  BY DEF NoResult
<1>3. CASE UNCHANGED qvars
  BY <1>1, <1>3 DEF PInv, ReadSoFar, Pruned, FilterColumns, TermColumns, WhereColumns,
                    qvars, inputs, where
<1>4. CASE Resolve
  <2>1. /\ seg' = seg /\ query' = query /\ reads' = {} /\ d' = 1 /\ c' = 1
        /\ \/ stage' = "done" /\ result'.kind = "error"
           \/ stage' \in {"where", "begin"} /\ result' = NoResult /\ (stage' = "begin" => ~Filtered(query))
    BY <1>4, FailsKind DEF Resolve, inputs, where, PInv, ReadSoFar, TInv, Opened
  <2>2. stage' = "begin" => WhereColumns(query)' = {}
    <3>1. Filtered(query) <=> Disjuncts(query.where) # <<>>
      BY DEF PInv, TInv, QueryTypeOK, QueryOK
    <3> QED
      BY <2>1, <3>1 DEF WhereColumns, FilterColumns
  <2>3. stage' = "where" => (FilterColumns(d - 1) \cup TermColumns(d, c - 1))' = {}
    BY <2>1 DEF FilterColumns, TermColumns
  <2>4. ReadSoFar' /\ Pruned'
    BY <1>2, <2>1, <2>2, <2>3 DEF ReadSoFar, Pruned
  <2> QED
    BY <1>1, <2>4 DEF PInv
<1>5. CASE FailComparison \/ Compare
  BY <1>1, <1>5, PrunedCompare DEF PInv
<1>6. CASE BeginCount \/ BeginSum \/ BeginProject \/ BeginGrouped
  BY <1>1, <1>6, PrunedBegin DEF PInv
<1>7. CASE SkipRow \/ ProjectRow \/ AggregateRow \/ GroupRow \/ SumOverflow \/ Emit \/ Panic
  <2>1. /\ seg' = seg /\ query' = query /\ reads' = reads /\ stage = "scan" /\ result = NoResult
        /\ stage' = "done" \/ (stage' \in {"scan", "panicked"} /\ result' = result)
    BY <1>7 DEF SkipRow, ProjectRow, AggregateRow, GroupRow, SumOverflow, Emit, Panic,
                NextRow, AtRow, AtEnd, Fails, Returns, inputs, PInv, ReadSoFar
  <2>2. ReadSoFar' /\ Pruned'
    BY <2>1 DEF PInv, ReadSoFar, Pruned
  <2> QED
    BY <1>1, <2>2 DEF PInv
<1> QED
  BY <1>3, <1>4, <1>5, <1>6, <1>7 DEF QueryNext

LEMMA PrunedInit == Called => PInv
<1>1. Called => stage = "resolve" /\ reads = {} /\ result = NoResult
  BY DEF Called, Fresh
<1>2. NoResult.kind # "rows"
  BY DEF NoResult
<1> QED
  BY <1>1, <1>2, TypeInit DEF PInv, ReadSoFar, Pruned

\* Only columns that the query names are read, and an answer was made from
\* all of them, whatever the segment and the query.
THEOREM PruningCorrect == QuerySpec => []Pruned
<1>1. QuerySpec => []PInv
  BY InitCalled, PrunedInit, PrunedStep, PTL DEF QuerySpec
<1>2. PInv => Pruned
  BY DEF PInv
<1> QED
  BY <1>1, <1>2, PTL

-----------------------------------------------------------------------------
(* Counts.                                                                  *)

\* Nothing is counted before the loop.
Untouched ==
  stage \in {"resolve", "where", "begin"} =>
    row = 1 /\ acc.count = 0 /\ keys = <<>> /\ DOMAIN groups = {}

CInv == TInv /\ Untouched /\ CountsExact

\* The rows before the next one are finitely many, and so are those of a group.
LEMMA BeforeFinite ==
  ASSUME TInv
  PROVE  /\ IsFiniteSet(Before) /\ row \notin Before
         /\ \A k : IsFiniteSet(InGroup(k)) /\ row \notin InGroup(k)
<1>1. row \in Nat \ {0} /\ seg.rows \in Nat
  BY DEF TInv, QueryTypeOK, SegmentOK
<1>2. IsFiniteSet(1 .. (row - 1))
  BY <1>1, FS_Interval
<1>3. Before \subseteq 1 .. (row - 1) /\ row \notin 1 .. (row - 1)
  BY <1>1 DEF Before
<1>4. \A k : InGroup(k) \subseteq 1 .. (row - 1)
  BY <1>3 DEF InGroup
<1> QED
  BY <1>2, <1>3, <1>4, FS_Subset

\* What the next row does to the sets of rows before it.
LEMMA BeforeGrows ==
  ASSUME TInv, NextRow
  PROVE  /\ Before' = IF Picked(row) THEN Before \cup {row} ELSE Before
         /\ \A k : InGroup(k)' = IF Picked(row) /\ Key = k THEN InGroup(k) \cup {row} ELSE InGroup(k)
<1>1. /\ row \in Nat \ {0} /\ row' = row + 1 /\ seg' = seg /\ query' = query
      /\ selection' = selection
  BY DEF TInv, QueryTypeOK, SegmentOK, NextRow, inputs, where
<1>2. \A r : r \in 1 .. (row' - 1) <=> r \in 1 .. (row - 1) \/ r = row
  BY <1>1
<1>3. \A r : Picked(r)' <=> Picked(r)
  BY <1>1 DEF Picked
<1>4. Before' = IF Picked(row) THEN Before \cup {row} ELSE Before
  BY <1>1, <1>2, <1>3 DEF Before
<1>5. ASSUME NEW k
      PROVE  InGroup(k)' = IF Picked(row) /\ Key = k THEN InGroup(k) \cup {row} ELSE InGroup(k)
  <2>1. InGroup(k)' = { r \in Before' : Value(seg, query.groupBy, r) = k }
    BY <1>1 DEF InGroup
  <2> QED
    BY <1>4, <2>1 DEF InGroup, Key
<1> QED
  BY <1>4, <1>5

\* A row is counted in its group only.
LEMMA CountsGroupRow == CInv /\ GroupRow => CountsExact'
<1> SUFFICES ASSUME CInv, GroupRow PROVE CountsExact'
  OBVIOUS
<1> DEFINE G == DOMAIN groups
<1>1. /\ TInv /\ stage = "scan" /\ query.proj = "grouped" /\ Picked(row) /\ row <= seg.rows
      /\ NextRow /\ query' = query /\ seg' = seg /\ ~AddFails(AccumulatorAt)
      /\ groups' = IF Key = NaN THEN groups
                   ELSE [k \in G \cup {Key} |-> IF k = Key THEN Add(AccumulatorAt) ELSE groups[k]]
      /\ keys' = IF Found THEN keys ELSE Append(keys, CellOf(query.groupBy, row))
  BY DEF CInv, GroupRow, AtRow, NextRow, inputs
<1>2. /\ G = { Value(seg, query.groupBy, r) : r \in Before } \ {NaN}
      /\ Len(keys) = Cardinality(G) + Cardinality(InGroup(NaN))
      /\ query.agg = "count" => \A k \in G : groups[k].count = Cardinality(InGroup(k))
  BY <1>1 DEF CInv, CountsExact
<1>3. Before' = Before \cup {row} /\ \A k : InGroup(k)' = IF Key = k THEN InGroup(k) \cup {row} ELSE InGroup(k)
  BY <1>1, BeforeGrows
<1>4. DOMAIN groups' = (G \cup {Key}) \ {NaN}
  BY <1>1, <1>2
<1>5. DOMAIN groups' = { Value(seg', query'.groupBy, r) : r \in Before' } \ {NaN}
  BY <1>1, <1>2, <1>3, <1>4 DEF Key
<1>6. /\ \A k : IsFiniteSet(InGroup(k)) /\ row \notin InGroup(k)
      /\ \A k : Cardinality(InGroup(k)) \in Nat
      /\ \A k : Cardinality(InGroup(k) \cup {row}) = Cardinality(InGroup(k)) + 1
  BY <1>1, BeforeFinite, FS_CardinalityType, FS_AddElement
<1>7. IsFiniteSet(G) /\ Cardinality(G) \in Nat
  <2> DEFINE values == { Value(seg, query.groupBy, r) : r \in Before }
             value == [r \in Before |-> Value(seg, query.groupBy, r)]
  <2>0. value \in Surjection(Before, values)
    BY DEF Surjection
  <2> HIDE DEF values, value
  <2>1. IsFiniteSet(values)
    BY <1>1, <2>0, BeforeFinite, FS_Surjection
  <2> QED
    BY <1>2, <2>1, FS_Subset, FS_CardinalityType DEF values
<1>8. keys \in Seq(Literal) /\ CellOf(query.groupBy, row) \in Literal
  BY <1>1, CellOfType DEF TInv, QueryTypeOK, Opened, QueryOK
<1>9. Len(keys)' = Cardinality(DOMAIN groups') + Cardinality(InGroup(NaN)')
  <2>1. CASE Key = NaN
    <3>1. DOMAIN groups' = G /\ InGroup(NaN)' = InGroup(NaN) \cup {row}
      BY <1>1, <1>3, <2>1
    <3>2. Len(keys') = Len(keys) + 1
      BY <1>1, <1>8, <2>1 DEF Found
    <3> QED
      BY <1>2, <1>6, <1>7, <3>1, <3>2
  <2>2. CASE Key # NaN /\ Key \in G
    BY <1>1, <1>2, <1>3, <1>4, <2>2 DEF Found
  <2>3. CASE Key # NaN /\ Key \notin G
    <3>1. DOMAIN groups' = G \cup {Key} /\ InGroup(NaN)' = InGroup(NaN)
      BY <1>1, <1>3, <2>3
    <3>2. Len(keys') = Len(keys) + 1
      BY <1>1, <1>8, <2>3 DEF Found
    <3>3. Cardinality(G \cup {Key}) = Cardinality(G) + 1
      BY <1>7, <2>3, FS_AddElement
    <3> QED
      BY <1>2, <1>6, <1>7, <3>1, <3>2, <3>3
  <2> QED
    BY <2>1, <2>2, <2>3
<1>10. ASSUME query.agg = "count", NEW k \in DOMAIN groups'
       PROVE  groups'[k].count = Cardinality(InGroup(k)')
  <2>0. ~Sums(query)
    BY <1>1, <1>10 DEF Sums
  <2>1. CASE k = Key
    <3>1. groups'[k] = Add(AccumulatorAt) /\ Key # NaN
      BY <1>1, <1>2, <1>10, <2>1
    <3>2. Add(AccumulatorAt).count = AccumulatorAt.count + 1
      BY <1>1, <2>0, AccumulatorAtType, AddType
    <3>3. AccumulatorAt.count = Cardinality(InGroup(Key))
      <4>1. CASE Key \in G
        BY <1>2, <1>10, <3>1, <4>1 DEF AccumulatorAt, Found
      <4>2. CASE Key \notin G
        <5>1. InGroup(Key) = {}
          BY <1>2, <3>1, <4>2 DEF InGroup
        <5> QED
          BY <4>2, <5>1, NewAccumulatorType, FS_EmptySet DEF AccumulatorAt, Found
      <4> QED
        BY <4>1, <4>2
    <3> QED
      BY <1>3, <1>6, <2>1, <3>1, <3>2, <3>3
  <2>2. CASE k # Key
    <3>1. k \in G /\ groups'[k] = groups[k]
      BY <1>1, <1>10, <2>2
    <3> QED
      BY <1>2, <1>3, <1>10, <2>2, <3>1
  <2> QED
    BY <2>1, <2>2
<1> QED
  BY <1>1, <1>5, <1>9, <1>10 DEF CountsExact

\* Every action keeps CInv.
LEMMA CountsStep == CInv /\ [QueryNext]_qvars => CInv'
<1> SUFFICES ASSUME CInv, [QueryNext]_qvars PROVE CInv'
  OBVIOUS
<1>1. TInv'
  BY TypeStep DEF CInv
<1>2. CASE UNCHANGED qvars
  BY <1>1, <1>2 DEF CInv, Untouched, CountsExact, Before, InGroup, Picked,
                    qvars, inputs, where, scanned
<1>3. CASE Resolve \/ FailComparison \/ Compare
  <2>1. /\ stage \in {"resolve", "where"} /\ stage' \in {"where", "begin", "done"}
        /\ UNCHANGED <<row, scanned>>
    BY <1>3 DEF Resolve, FailComparison, Compare, Fails, Returns
  <2> QED
    BY <1>1, <2>1 DEF CInv, Untouched, CountsExact, scanned
<1>4. CASE BeginCount \/ BeginSum \/ BeginProject \/ BeginGrouped
  <2>1. /\ stage = "begin" /\ stage' \in {"scan", "done"} /\ row' = 1 /\ query' = query
        /\ acc'.count = 0 /\ keys' = <<>> /\ DOMAIN groups' = {}
    BY <1>4 DEF BeginCount, BeginSum, BeginProject, BeginGrouped, Fails, Returns, Proceeds,
                OpensSumColumn, CInv, Untouched, scanned, inputs
  <2>2. Before' = {} /\ InGroup(NaN)' = {}
    BY <2>1 DEF Before, InGroup
  <2>3. Cardinality({}) = 0
    BY FS_EmptySet
  <2>4. CountsExact'
    BY <2>1, <2>2, <2>3 DEF CountsExact
  <2> QED
    BY <1>1, <2>1, <2>4 DEF CInv, Untouched
<1>5. CASE SkipRow \/ ProjectRow
  <2>1. /\ stage' = stage /\ query' = query /\ NextRow /\ stage = "scan" /\ seg' = seg
        /\ UNCHANGED <<acc, keys, groups>>
    BY <1>5 DEF SkipRow, ProjectRow, NextRow, AtRow, inputs, scanned
  <2>2. query.proj \in {"count", "grouped"} => Before' = Before /\ \A k : InGroup(k)' = InGroup(k)
    BY <1>5, <2>1, BeforeGrows DEF CInv, SkipRow, ProjectRow
  <2>3. CountsExact'
    BY <2>1, <2>2 DEF CInv, CountsExact
  <2> QED
    BY <1>1, <2>1, <2>3 DEF CInv, Untouched
<1>6. CASE AggregateRow
  <2>1. /\ stage' = stage /\ query' = query /\ NextRow /\ stage = "scan" /\ Picked(row)
        /\ query.proj \in {"count", "sum"} /\ acc' = Add(acc) /\ row <= seg.rows
        /\ ~AddFails(acc) /\ acc \in Accumulator
    BY <1>6 DEF AggregateRow, NextRow, AtRow, inputs, CInv, TInv, QueryTypeOK
  <2>2. ASSUME query.proj = "count" PROVE acc'.count = Cardinality(Before')
    <3>1. acc'.count = acc.count + 1
      BY <2>1, <2>2, AddType DEF CInv, Sums
    <3>2. Before' = Before \cup {row}
      BY <2>1, BeforeGrows DEF CInv
    <3>3. acc.count = Cardinality(Before)
      BY <2>1, <2>2 DEF CInv, CountsExact
    <3> QED
      BY <3>1, <3>2, <3>3, BeforeFinite, FS_AddElement DEF CInv
  <2>3. CountsExact'
    BY <2>1, <2>2 DEF CountsExact
  <2> QED
    BY <1>1, <2>1, <2>3 DEF CInv, Untouched
<1>7. CASE GroupRow
  <2>1. stage' = "scan"
    BY <1>7 DEF GroupRow, AtRow, NextRow
  <2> QED
    BY <1>1, <1>7, <2>1, CountsGroupRow DEF CInv, Untouched
<1>8. CASE SumOverflow \/ Emit \/ Panic
  <2>1. stage' \in {"done", "panicked"}
    BY <1>8 DEF SumOverflow, Emit, Panic, Fails, Returns
  <2> QED
    BY <1>1, <2>1 DEF CInv, Untouched, CountsExact
<1> QED
  BY <1>2, <1>3, <1>4, <1>5, <1>6, <1>7, <1>8 DEF QueryNext

LEMMA CountsInit == Called => CInv
<1> SUFFICES ASSUME Called PROVE CInv
  OBVIOUS
<1>1. stage = "resolve" /\ row = 1 /\ acc = NewAccumulator /\ keys = <<>> /\ DOMAIN groups = {}
  BY DEF Called, Fresh
<1> QED
  BY <1>1, TypeInit, NewAccumulatorType DEF CInv, Untouched, CountsExact

\* Counts are exact, and there is one group for every value, whatever the
\* segment and the query.
THEOREM CountsCorrect == QuerySpec => []CountsExact
<1>1. QuerySpec => []CInv
  BY InitCalled, CountsInit, CountsStep, PTL DEF QuerySpec
<1>2. CInv => CountsExact
  BY DEF CInv
<1> QED
  BY <1>1, <1>2, PTL

-----------------------------------------------------------------------------
(* What Meaning's operators make of one more row.                           *)

\* Rows behind all of S do not change what was up to a member of S.
LEMMA RankedStays ==
  ASSUME NEW S, IsFiniteSet(S), S \subseteq Nat, NEW m \in Nat, \A x \in S : x < m
  PROVE  /\ \A i \in 1 .. Cardinality(S) : Ranked(S \cup {m}, i) = Ranked(S, i)
         /\ Ranked(S \cup {m}, Cardinality(S) + 1) = {m}
<1>1. PICK n \in Nat : n = Cardinality(S)
  BY FS_CardinalityType
<1>2. m \notin S
  OBVIOUS
<1>3. { x \in S \cup {m} : x <= m } = S \cup {m} /\ Cardinality(S \cup {m}) = n + 1
  <2>1. Cardinality(S \cup {m}) = n + 1
    BY <1>1, <1>2, FS_AddElement
  <2>2. \A x \in S \cup {m} : x <= m
    OBVIOUS
  <2> QED
    BY <2>1, <2>2
<1>4. ASSUME NEW r \in S
      PROVE  { x \in S \cup {m} : x <= r } = { x \in S : x <= r }
  <2>1. ~(m <= r)
    OBVIOUS
  <2> QED
    BY <2>1
<1>5. ASSUME NEW r \in S
      PROVE  Cardinality({ x \in S : x <= r }) \in Nat /\ Cardinality({ x \in S : x <= r }) <= n
  BY <1>1, FS_Subset, FS_CardinalityType
<1>6. ASSUME NEW i \in 1 .. n PROVE Ranked(S \cup {m}, i) = Ranked(S, i)
  <2>1. Cardinality({ x \in S \cup {m} : x <= m }) # i
    BY <1>3, <1>1
  <2>2. ASSUME NEW r
        PROVE  r \in Ranked(S \cup {m}, i) <=> r \in Ranked(S, i)
    <3>1. CASE r \in S
      BY <1>4, <3>1 DEF Ranked
    <3>2. CASE r \notin S
      BY <2>1, <3>2 DEF Ranked
    <3> QED
      BY <3>1, <3>2
  <2> QED
    BY <2>2
<1>7. Ranked(S \cup {m}, n + 1) = {m}
  <2>1. ASSUME NEW r \in S PROVE r \notin Ranked(S \cup {m}, n + 1)
    <3>1. Cardinality({ x \in S : x <= r }) # n + 1
      BY <1>5, <1>1
    <3> QED
      BY <1>4, <3>1 DEF Ranked
  <2>2. m \in Ranked(S \cup {m}, n + 1)
    BY <1>3 DEF Ranked
  <2>3. Ranked(S \cup {m}, n + 1) \subseteq S \cup {m}
    BY DEF Ranked
  <2> QED
    BY <2>1, <2>2, <2>3
<1> QED
  BY <1>1, <1>6, <1>7

\* The last row comes last.
LEMMA OrderGrows ==
  ASSUME NEW S, IsFiniteSet(S), S \subseteq Nat, NEW m \in Nat, \A x \in S : x < m
  PROVE  /\ Cardinality(S) \in Nat
         /\ DOMAIN InOrder(S) = 1 .. Cardinality(S)
         /\ DOMAIN InOrder(S \cup {m}) = 1 .. (Cardinality(S) + 1)
         /\ \A i \in 1 .. Cardinality(S) : InOrder(S \cup {m})[i] = InOrder(S)[i]
         /\ InOrder(S \cup {m})[Cardinality(S) + 1] = m
<1>1. PICK n \in Nat : n = Cardinality(S)
  BY FS_CardinalityType
<1>2. m \notin S
  OBVIOUS
<1>3. Cardinality(S \cup {m}) = n + 1
  BY <1>1, <1>2, FS_AddElement
<1>4. \A i \in 1 .. n : Ranked(S \cup {m}, i) = Ranked(S, i)
  BY <1>1, RankedStays
<1>5. Ranked(S \cup {m}, n + 1) = {m}
  BY <1>1, RankedStays
<1>6. \A i \in 1 .. (n + 1) : InOrder(S \cup {m})[i] = CHOOSE r \in Ranked(S \cup {m}, i) : TRUE
  BY <1>3 DEF InOrder
<1>7. \A i \in 1 .. n : InOrder(S)[i] = CHOOSE r \in Ranked(S, i) : TRUE
  BY <1>1 DEF InOrder
<1>8. ASSUME NEW i \in 1 .. n PROVE InOrder(S \cup {m})[i] = InOrder(S)[i]
  <2>1. i \in 1 .. (n + 1)
    BY <1>1
  <2>2. InOrder(S \cup {m})[i] = CHOOSE r \in Ranked(S \cup {m}, i) : TRUE
    BY <1>6, <2>1
  <2>3. InOrder(S)[i] = CHOOSE r \in Ranked(S, i) : TRUE
    BY <1>7
  <2>4. Ranked(S \cup {m}, i) = Ranked(S, i)
    BY <1>4
  <2> QED
    BY <2>2, <2>3, <2>4
<1>9. InOrder(S \cup {m})[n + 1] = m
  <2>1. n + 1 \in 1 .. (n + 1)
    BY <1>1
  <2>2. InOrder(S \cup {m})[n + 1] = CHOOSE r \in {m} : TRUE
    BY <1>5, <1>6, <2>1
  <2> QED
    BY <2>2
<1> QED
  BY <1>1, <1>3, <1>8, <1>9 DEF InOrder

\* The members of a set of rows, in order, are its members.
LEMMA OrderMembers ==
  ASSUME NEW n \in Nat, NEW S \in SUBSET (1 .. n)
  PROVE  \A i \in 1 .. Cardinality(S) : InOrder(S)[i] \in S
<1> DEFINE Inside(T) == \A i \in 1 .. Cardinality(T) : InOrder(T)[i] \in T
           Good == { k \in Nat : \A T \in SUBSET (1 .. k) : Inside(T) }
<1>1. 0 \in Good
  <2>1. \A T \in SUBSET (1 .. 0) : T = {}
    OBVIOUS
  <2>2. Cardinality({}) = 0
    BY FS_EmptySet
  <2>3. Inside({})
    BY <2>2
  <2> HIDE DEF Inside
  <2> QED
    BY <2>1, <2>3
<1>2. ASSUME NEW k \in Good PROVE k + 1 \in Good
  <2>1. k \in Nat /\ \A T \in SUBSET (1 .. k) : Inside(T)
    OBVIOUS
  <2>2. ASSUME NEW T \in SUBSET (1 .. (k + 1)) PROVE Inside(T)
    <3>1. PICK S0 : S0 = T \ {k + 1}
      OBVIOUS
    <3>2. S0 \in SUBSET (1 .. k)
      BY <2>1, <3>1
    <3>3. Inside(S0)
      BY <2>1, <3>2
    <3>4. CASE k + 1 \notin T
      <4>1. T = S0
        BY <3>1, <3>4
      <4> HIDE DEF Inside
      <4> QED
        BY <3>3, <4>1
    <3>5. CASE k + 1 \in T
      <4>1. T = S0 \cup {k + 1}
        BY <3>1, <3>5
      <4>2. IsFiniteSet(S0)
        <5>1. IsFiniteSet(1 .. k)
          BY <2>1, FS_Interval
        <5> QED
          BY <3>2, <5>1, FS_Subset
      <4>3. S0 \subseteq Nat /\ \A x \in S0 : x < k + 1
        BY <2>1, <3>2
      <4>4. PICK m \in Nat : m = k + 1
        BY <2>1
      <4>5. /\ Cardinality(S0) \in Nat
            /\ \A i \in 1 .. Cardinality(S0) : InOrder(S0 \cup {m})[i] = InOrder(S0)[i]
            /\ InOrder(S0 \cup {m})[Cardinality(S0) + 1] = m
        BY <4>2, <4>3, <4>4, OrderGrows
      <4>6. Cardinality(T) = Cardinality(S0) + 1
        BY <3>1, <4>1, <4>2, FS_AddElement
      <4>7. ASSUME NEW i \in 1 .. Cardinality(T) PROVE InOrder(T)[i] \in T
        <5>1. CASE i \in 1 .. Cardinality(S0)
          BY <3>1, <3>3, <4>1, <4>4, <4>5, <5>1
        <5>2. CASE i \notin 1 .. Cardinality(S0)
          <6>1. i = Cardinality(S0) + 1
            BY <4>5, <4>6, <5>2
          <6> QED
            BY <4>1, <4>4, <4>5, <6>1
        <5> QED
          BY <5>1, <5>2
      <4> QED
        BY <4>7
    <3> QED
      BY <3>4, <3>5
  <2>3. k + 1 \in Nat
    BY <2>1
  <2> HIDE DEF Inside
  <2> QED
    BY <2>2, <2>3
<1>3. Good = Nat
  <2>1. Good \in SUBSET Nat
    OBVIOUS
  <2> HIDE DEF Good
  <2> QED
    BY <1>1, <1>2, <2>1, SetInduction
<1>4. \A T \in SUBSET (1 .. n) : Inside(T)
  <2> HIDE DEF Inside
  <2>1. n \in Good
    BY <1>3
  <2> QED
    BY <2>1
<1> QED
  BY <1>4

\* Every member has its place in the order.
LEMMA OrderCovers ==
  ASSUME NEW n \in Nat, NEW S \in SUBSET (1 .. n), NEW r \in S
  PROVE  \E i \in 1 .. Cardinality(S) : InOrder(S)[i] = r
<1> DEFINE UpTo(y) == { x \in S : x <= y }
<1>1. IsFiniteSet(S)
  <2>1. IsFiniteSet(1 .. n)
    BY FS_Interval
  <2> QED
    BY <2>1, FS_Subset
<1>2. \A y : IsFiniteSet(UpTo(y)) /\ Cardinality(UpTo(y)) <= Cardinality(S)
  BY <1>1, FS_Subset
<1>3. PICK i : i = Cardinality(UpTo(r))
  OBVIOUS
<1>4. i \in 1 .. Cardinality(S)
  <2>1. r \in UpTo(r)
    OBVIOUS
  <2>2. i \in Nat /\ i # 0 /\ Cardinality(S) \in Nat /\ i <= Cardinality(S)
    <3>1. UpTo(r) # {}
      BY <2>1
    <3> HIDE DEF UpTo
    <3>2. i \in Nat /\ Cardinality(S) \in Nat
      BY <1>1, <1>2, <1>3, FS_CardinalityType
    <3>3. i # 0
      BY <1>2, <1>3, <3>1, FS_EmptySet
    <3> QED
      BY <1>2, <1>3, <3>2, <3>3
  <2> QED
    BY <2>2
<1>5. ASSUME NEW y \in S, Cardinality(UpTo(y)) = i PROVE y = r
  <2>1. y \in Nat /\ r \in Nat
    OBVIOUS
  <2>2. CASE y < r
    <3>0. r <= r /\ ~(r <= y) /\ \A x \in S : x <= y => x <= r
      BY <2>1, <2>2
    <3>1. UpTo(y) \subseteq UpTo(r) /\ r \in UpTo(r) /\ r \notin UpTo(y)
      BY <3>0
    <3> HIDE DEF UpTo
    <3>2. UpTo(y) = UpTo(r)
      BY <1>2, <1>3, <1>5, <3>1, FS_Subset
    <3> QED
      BY <3>1, <3>2
  <2>3. CASE r < y
    <3>0. y <= y /\ ~(y <= r) /\ \A x \in S : x <= r => x <= y
      BY <2>1, <2>3
    <3>1. UpTo(r) \subseteq UpTo(y) /\ y \in UpTo(y) /\ y \notin UpTo(r)
      BY <3>0
    <3> HIDE DEF UpTo
    <3>2. UpTo(y) = UpTo(r)
      BY <1>2, <1>3, <1>5, <3>1, FS_Subset
    <3> QED
      BY <3>1, <3>2
  <2> QED
    BY <2>1, <2>2, <2>3
<1>6. Ranked(S, i) = {r}
  BY <1>3, <1>5 DEF Ranked
<1>7. InOrder(S)[i] = r
  BY <1>4, <1>6 DEF InOrder
<1> QED
  BY <1>4, <1>7

\* The values of a function on some rows, in their order.
InTurn(v, S) == [i \in 1 .. Cardinality(S) |-> v[InOrder(S)[i]]]

LEMMA ListGrows ==
  ASSUME NEW n \in Nat, NEW S \in SUBSET (1 .. n), NEW m \in Nat, n < m,
         NEW T, NEW v, \A r \in S \cup {m} : v[r] \in T
  PROVE  /\ InTurn(v, S) \in Seq(T)
         /\ InTurn(v, S \cup {m}) = Append(InTurn(v, S), v[m])
<1>1. IsFiniteSet(S) /\ S \subseteq Nat /\ \A x \in S : x < m
  <2>1. IsFiniteSet(1 .. n)
    BY FS_Interval
  <2>2. IsFiniteSet(S)
    BY <2>1, FS_Subset
  <2> QED
    BY <2>2
<1>2. PICK k \in Nat : k = Cardinality(S)
  BY <1>1, FS_CardinalityType
<1>3. m \notin S /\ Cardinality(S \cup {m}) = k + 1
  <2>1. m \notin S
    BY <1>1
  <2> QED
    BY <1>1, <1>2, <2>1, FS_AddElement
<1>4. \A i \in 1 .. k : InOrder(S)[i] \in S
  BY <1>2, OrderMembers
<1>5. /\ \A i \in 1 .. k : InOrder(S \cup {m})[i] = InOrder(S)[i]
      /\ InOrder(S \cup {m})[k + 1] = m
  BY <1>1, <1>2, OrderGrows
<1>6. PICK t : t = InTurn(v, S)
  OBVIOUS
<1>7. PICK u : u = InTurn(v, S \cup {m})
  OBVIOUS
<1>8. t \in [1 .. k -> T] /\ \A i \in 1 .. k : t[i] = v[InOrder(S)[i]]
  BY <1>2, <1>4, <1>6 DEF InTurn
<1>9. t \in Seq(T) /\ Len(t) = k
  <2>1. t \in Seq(T)
    BY <1>8, FunctionIsSeq
  <2> QED
    BY <1>8, <2>1
<1>10. /\ u = [i \in 1 .. (k + 1) |-> v[InOrder(S \cup {m})[i]]]
       /\ u[k + 1] = v[m] /\ \A i \in 1 .. k : u[i] = t[i]
  <2>1. u = [i \in 1 .. (k + 1) |-> v[InOrder(S \cup {m})[i]]]
    BY <1>3, <1>7 DEF InTurn
  <2>2. u[k + 1] = v[m]
    <3>1. k + 1 \in 1 .. (k + 1)
      OBVIOUS
    <3> QED
      BY <1>5, <2>1, <3>1
  <2>3. ASSUME NEW i \in 1 .. k PROVE u[i] = t[i]
    <3>1. i \in 1 .. (k + 1)
      OBVIOUS
    <3>2. u[i] = v[InOrder(S \cup {m})[i]]
      BY <2>1, <3>1
    <3> QED
      BY <1>5, <1>8, <3>2
  <2> QED
    BY <2>1, <2>2, <2>3
<1>11. u \in [1 .. (k + 1) -> T]
  <2>1. ASSUME NEW i \in 1 .. (k + 1) PROVE u[i] \in T
    <3>1. CASE i = k + 1
      BY <1>10, <3>1
    <3>2. CASE i # k + 1
      <4>1. i \in 1 .. k
        BY <3>2
      <4> QED
        BY <1>8, <1>10, <4>1
    <3> QED
      BY <3>1, <3>2
  <2> QED
    BY <1>10, <2>1
<1>12. u \in Seq(T) /\ Len(u) = k + 1
  <2>1. u \in Seq(T)
    BY <1>11, FunctionIsSeq
  <2> QED
    BY <1>11, <2>1
<1>13. PICK w \in T : w = v[m]
  OBVIOUS
<1>14. u = Append(t, w)
  <2>1. /\ Append(t, w) \in Seq(T) /\ Len(Append(t, w)) = k + 1
        /\ \A i \in 1 .. k : Append(t, w)[i] = t[i]
        /\ Append(t, w)[k + 1] = w
    BY <1>9, <1>13
  <2>2. PICK x : x = Append(t, w)
    OBVIOUS
  <2>3. \A i \in 1 .. (k + 1) : u[i] = x[i]
    <3>1. \A i \in 1 .. (k + 1) : i \in 1 .. k \/ i = k + 1
      OBVIOUS
    <3> QED
      BY <1>10, <1>13, <2>1, <2>2, <3>1
  <2>4. x \in Seq(T) /\ Len(x) = k + 1
    BY <2>1, <2>2
  <2>5. u = x
    BY <1>12, <2>3, <2>4, SeqEqual
  <2> QED
    BY <2>2, <2>5
<1> QED
  BY <1>6, <1>7, <1>9, <1>13, <1>14

\* Of no rows there is nothing to list.
LEMMA ListOfNone ==
  ASSUME NEW v
  PROVE  InTurn(v, {}) = <<>>
<1>1. Cardinality({}) = 0 /\ 1 .. 0 = {}
  BY FS_EmptySet
<1>2. InTurn(v, {}) = [i \in {} |-> v[InOrder({})[i]]]
  BY <1>1 DEF InTurn
<1> QED
  BY <1>2

\* What a row adds to the sum of a column over S.
Adds(s, q, S, r) == IF r \in S THEN Value(s, q.sumCol, r) ELSE 0

\* The column to sum is one of integers.
Integral(s, q) == s.rows \in Nat /\ \A r \in 1 .. s.rows : Value(s, q.sumCol, r) \in Int

\* f is the sum over the rows of S so far, row by row.
SumsUp(f, s, q, S) ==
  /\ f \in [0 .. s.rows -> Int] /\ f[0] = 0
  /\ \A r \in 1 .. s.rows : f[r] = f[r - 1] + Adds(s, q, S, r)

LEMMA AddsType ==
  ASSUME NEW s, NEW q, Integral(s, q), NEW S, NEW r \in 1 .. s.rows
  PROVE  Adds(s, q, S, r) \in Int
BY DEF Adds, Integral

\* SumIn adds row by row.
LEMMA SumUnfolds ==
  ASSUME NEW s, NEW q, Integral(s, q), NEW S
  PROVE  \E f : SumsUp(f, s, q, S) /\ SumIn(s, q, S) = f[s.rows]
<1> DEFINE Def(f) == f = [r \in 0 .. s.rows |->
                            IF r = 0 THEN 0
                            ELSE f[r - 1] + (IF r \in S THEN Value(s, q.sumCol, r) ELSE 0)]
<1>1. PICK m \in Nat : m = s.rows
  BY DEF Integral
<1>2. PICK step : step = [p \in Int \X Nat |-> IF p[2] < m THEN p[1] + Adds(s, q, S, p[2] + 1) ELSE p[1]]
  OBVIOUS
<1>3. step \in [Int \X Nat -> Int]
  <2>1. ASSUME NEW b \in Int, NEW k \in Nat, k < m PROVE b + Adds(s, q, S, k + 1) \in Int
    <3>1. k + 1 \in 1 .. s.rows
      BY <1>1, <2>1
    <3>2. Adds(s, q, S, k + 1) \in Int
      BY <3>1, AddsType
    <3> QED
      BY <3>2
  <2> QED
    BY <1>2, <2>1
<1>4. PICK g \in [Nat -> Int] : Recursive(g, 0, step)
  <2>1. PICK zero \in Int : zero = 0
    OBVIOUS
  <2>2. \E g \in [Nat -> Int] : Recursive(g, zero, step)
    BY <1>3, Recursion
  <2> QED
    BY <2>1, <2>2
<1>5. PICK f : f = [n \in 0 .. m |-> g[n]]
  OBVIOUS
<1>6. f[0] = 0 /\ f \in [0 .. m -> Int]
  BY <1>1, <1>4, <1>5 DEF Recursive
<1>7. ASSUME NEW n \in 1 .. m PROVE f[n] = f[n - 1] + Adds(s, q, S, n)
  <2>1. n - 1 \in Nat /\ n - 1 \in 0 .. m /\ n - 1 < m /\ (n - 1) + 1 = n /\ n \in 0 .. m
    BY <1>1
  <2>2. g[n] = step[<<g[n - 1], n - 1>>]
    BY <1>4, <2>1 DEF Recursive
  <2>3. g[n - 1] \in Int
    BY <1>4, <2>1
  <2>4. step[<<g[n - 1], n - 1>>] = g[n - 1] + Adds(s, q, S, n)
    BY <1>2, <2>1, <2>3
  <2> QED
    BY <1>5, <2>1, <2>2, <2>4
<1>8. Def(f)
  <2>1. ASSUME NEW n \in 0 .. s.rows, n # 0
        PROVE  f[n] = f[n - 1] + (IF n \in S THEN Value(s, q.sumCol, n) ELSE 0)
    <3>1. n \in 1 .. m
      BY <1>1, <2>1
    <3> QED
      BY <1>7, <3>1 DEF Adds
  <2>2. f = [n \in 0 .. s.rows |-> f[n]]
    BY <1>1, <1>6
  <2> QED
    BY <1>6, <2>1, <2>2
<1>9. PICK e : e = CHOOSE h : Def(h)
  OBVIOUS
<1>10. Def(e)
  <2> HIDE DEF Def
  <2> QED
    BY <1>8, <1>9
<1>11. SumIn(s, q, S) = e[s.rows]
  BY <1>9 DEF SumIn
<1>12. e[0] = 0 /\ \A n \in 1 .. m : e[n] = e[n - 1] + Adds(s, q, S, n)
  <2>1. \A n \in 0 .. m : e[n] = IF n = 0 THEN 0 ELSE e[n - 1] + Adds(s, q, S, n)
    BY <1>1, <1>10 DEF Adds
  <2>2. 0 \in 0 .. m /\ \A n \in 1 .. m : n \in 0 .. m /\ n # 0
    BY <1>1
  <2> HIDE DEF Def
  <2> QED
    BY <2>1, <2>2
<1>13. \A n \in 0 .. m : e[n] = f[n]
  <2> DEFINE Same == { n \in Nat : n <= m => e[n] = f[n] }
  <2> HIDE DEF Def
  <2>1. 0 \in Same
    BY <1>6, <1>12
  <2>2. ASSUME NEW n \in Same PROVE n + 1 \in Same
    <3> SUFFICES ASSUME n + 1 <= m PROVE e[n + 1] = f[n + 1]
      OBVIOUS
    <3>1. n + 1 \in 1 .. m /\ (n + 1) - 1 = n /\ e[n] = f[n]
      OBVIOUS
    <3>2. e[n + 1] = e[n] + Adds(s, q, S, n + 1)
      BY <1>12, <3>1
    <3>3. f[n + 1] = f[n] + Adds(s, q, S, n + 1)
      BY <1>7, <3>1
    <3> QED
      BY <3>1, <3>2, <3>3
  <2>3. Same = Nat
    <3>1. Same \in SUBSET Nat
      OBVIOUS
    <3> HIDE DEF Same
    <3> QED
      BY <2>1, <2>2, <3>1, SetInduction
  <2>4. ASSUME NEW n \in 0 .. m PROVE e[n] = f[n]
    <3>1. n \in Same /\ n <= m
      BY <2>3
    <3> QED
      BY <3>1
  <2> QED
    BY <2>4
<1>14. SumIn(s, q, S) = f[s.rows]
  <2>1. m \in 0 .. m
    BY <1>1
  <2> HIDE DEF Def
  <2> QED
    BY <1>1, <1>11, <1>13, <2>1
<1>15. SumsUp(f, s, q, S)
  BY <1>1, <1>6, <1>7 DEF SumsUp
<1> QED
  BY <1>14, <1>15

LEMMA SumType ==
  ASSUME NEW s, NEW q, Integral(s, q), NEW S
  PROVE  SumIn(s, q, S) \in Int
<1>1. PICK f : SumsUp(f, s, q, S) /\ SumIn(s, q, S) = f[s.rows]
  BY SumUnfolds
<1> QED
  BY <1>1 DEF SumsUp, Integral

\* One more row adds its value.
LEMMA SumGrows ==
  ASSUME NEW s, NEW q, Integral(s, q), NEW S, NEW m \in 1 .. s.rows, m \notin S
  PROVE  SumIn(s, q, S \cup {m}) = SumIn(s, q, S) + Value(s, q.sumCol, m)
<1>1. PICK n \in Nat : n = s.rows
  BY DEF Integral
<1>2. PICK v \in Int : v = Value(s, q.sumCol, m)
  BY DEF Integral
<1>3. PICK f : SumsUp(f, s, q, S) /\ SumIn(s, q, S) = f[n]
  BY <1>1, SumUnfolds
<1>4. PICK g : SumsUp(g, s, q, S \cup {m}) /\ SumIn(s, q, S \cup {m}) = g[n]
  BY <1>1, SumUnfolds
<1> DEFINE Same == { r \in Nat : r <= n => g[r] = f[r] + (IF r >= m THEN v ELSE 0) }
<1>5. m \in 1 .. n
  BY <1>1
<1>6. 0 \in Same
  BY <1>3, <1>4, <1>5 DEF SumsUp
<1>7. ASSUME NEW r \in Same PROVE r + 1 \in Same
  <2> SUFFICES ASSUME r + 1 <= n PROVE g[r + 1] = f[r + 1] + (IF r + 1 >= m THEN v ELSE 0)
    OBVIOUS
  <2>1. r \in Nat /\ r + 1 \in 1 .. n /\ (r + 1) - 1 = r /\ g[r] = f[r] + (IF r >= m THEN v ELSE 0)
    OBVIOUS
  <2>2. PICK k : k = r + 1
    OBVIOUS
  <2>3. g[k] = g[r] + Adds(s, q, S \cup {m}, k) /\ f[k] = f[r] + Adds(s, q, S, k)
    BY <1>1, <1>3, <1>4, <2>1, <2>2 DEF SumsUp
  <2>4. f[r] \in Int /\ g[r] \in Int
    <3>1. f \in [0 .. n -> Int] /\ g \in [0 .. n -> Int]
      BY <1>1, <1>3, <1>4 DEF SumsUp
    <3>2. r \in 0 .. n
      BY <2>1
    <3> QED
      BY <3>1, <3>2
  <2>5. Adds(s, q, S, k) \in Int
    BY <1>1, <2>1, <2>2, AddsType
  <2>6. CASE k = m
    <3>1. Adds(s, q, S \cup {m}, k) = v /\ Adds(s, q, S, k) = 0
      BY <1>2, <2>6 DEF Adds
    <3>2. ~(r >= m) /\ k >= m
      BY <1>5, <2>1, <2>2, <2>6
    <3> QED
      BY <2>1, <2>2, <2>3, <2>4, <3>1, <3>2
  <2>7. CASE k # m
    <3>1. Adds(s, q, S \cup {m}, k) = Adds(s, q, S, k)
      BY <2>7 DEF Adds
    <3>2. r >= m <=> k >= m
      BY <1>5, <2>1, <2>2, <2>7
    <3> QED
      BY <2>1, <2>2, <2>3, <2>4, <2>5, <3>1, <3>2
  <2> QED
    BY <2>6, <2>7
<1>8. Same = Nat
  <2>1. Same \in SUBSET Nat
    OBVIOUS
  <2> HIDE DEF Same
  <2> QED
    BY <1>6, <1>7, <2>1, SetInduction
<1>9. n \in Same /\ n <= n /\ n >= m
  BY <1>1, <1>5, <1>8
<1>10. g[n] = f[n] + v
  BY <1>9
<1> QED
  BY <1>2, <1>3, <1>4, <1>10

LEMMA SumOfNone ==
  ASSUME NEW s, NEW q, Integral(s, q)
  PROVE  SumIn(s, q, {}) = 0
<1>1. PICK n \in Nat : n = s.rows
  BY DEF Integral
<1>2. PICK f : SumsUp(f, s, q, {}) /\ SumIn(s, q, {}) = f[n]
  BY <1>1, SumUnfolds
<1> DEFINE Same == { r \in Nat : r <= n => f[r] = 0 }
<1>3. 0 \in Same
  BY <1>2 DEF SumsUp
<1>4. ASSUME NEW r \in Same PROVE r + 1 \in Same
  <2> SUFFICES ASSUME r + 1 <= n PROVE f[r + 1] = 0
    OBVIOUS
  <2>1. r + 1 \in 1 .. n /\ (r + 1) - 1 = r /\ f[r] = 0
    OBVIOUS
  <2>2. f[r + 1] = f[r] + Adds(s, q, {}, r + 1)
    BY <1>1, <1>2, <2>1 DEF SumsUp
  <2> QED
    BY <2>1, <2>2 DEF Adds
<1>5. Same = Nat
  <2>1. Same \in SUBSET Nat
    OBVIOUS
  <2> HIDE DEF Same
  <2> QED
    BY <1>3, <1>4, <2>1, SetInduction
<1>6. n \in Same /\ n <= n
  BY <1>5
<1> QED
  BY <1>2, <1>6

-----------------------------------------------------------------------------
(* The meaning of a query: what the loop makes of the rows before the next  *)
(* one, and why a query has no answer.                                      *)

\* A comparison of the WHERE passes the checks of evalComparison.
Evaluable(i, j) ==
  LET e == Terms(query, i)[j]
  IN  Has(e.col) /\ e.lit.type = TypeIn(seg, e.col) /\ Readable(e.col)

FilterChecked ==
  /\ stage = "where" =>
       /\ \A i \in 1 .. (d - 1) : \A j \in DOMAIN Terms(query, i) : Evaluable(i, j)
       /\ \A j \in 1 .. (c - 1) : Evaluable(d, j)
  /\ stage \in {"begin", "scan"} =>
       \A i \in DOMAIN Disjuncts(query.where) : \A j \in DOMAIN Terms(query, i) : Evaluable(i, j)

\* An accumulator holds the aggregate of some rows, and an int64 sum stayed
\* one after each of them.
Holds(a, S) ==
  /\ ~Sums(query) => a.count = Cardinality(S)
  /\ SumsInts => /\ a.sumI64 = SumIn(seg, query, S)
                 /\ \A r \in S : SumIn(seg, query, { x \in S : x <= r }) \in Int64
  /\ Sums(query) /\ ~SumsInts => a.sumF64 = InTurn(seg.data[query.sumCol], S)

\* The cells to return for each row, and its group key.
CellsOf == [r \in 1 .. seg.rows |-> [j \in DOMAIN Cols |-> CellOf(Cols[j], r)]]
KeyCells == [r \in 1 .. seg.rows |-> CellOf(query.groupBy, r)]

\* The rows that begin a group, so far.
KeyOf(r) == Value(seg, query.groupBy, r)
Firsts == { r \in Before : KeyOf(r) = NaN \/ \A x \in InGroup(KeyOf(r)) : r <= x }

Scanned ==
  /\ query.proj \in {"columns", "star"} => rows = InTurn(CellsOf, Before)
  /\ query.proj \in {"count", "sum"} => Holds(acc, Before)
  /\ query.proj = "grouped" =>
       /\ \A k \in DOMAIN groups : Holds(groups[k], InGroup(k))
       /\ keys = InTurn(KeyCells, Firsts)

Unscanned ==
  row = 1 /\ rows = <<>> /\ acc = NewAccumulator /\ keys = <<>> /\ DOMAIN groups = {}

\* What is returned is the meaning of the query, or a reason why it has none.
Meant ==
  /\ result.kind = "rows" =>
       /\ Faults(seg, query) = {} /\ ~Overflows(seg, query)
       /\ result.rows = RowsOf(seg, query)
  /\ result.kind = "error" =>
       \/ result.why \in Faults(seg, query)
       \/ /\ Faults(seg, query) = {} /\ Overflows(seg, query)
          /\ result.why = "sum overflow"

Meaningful ==
  /\ FilterChecked
  /\ stage \in {"resolve", "where", "begin"} => Unscanned
  /\ stage = "scan" => Scanned
  /\ stage # "done" => result = NoResult
  /\ Meant

MInv == CInv /\ SInv /\ Meaningful

\* The reasons, one by one.
LEMMA FaultIs ==
  /\ "unknown column" \in Faults(seg, query) <=> \E name \in Mentioned(seg, query) : ~Has(name)
  /\ "type mismatch" \in Faults(seg, query) <=> Mistyped(seg, query)
  /\ "unreadable" \in Faults(seg, query) <=>
       \E name \in Mentioned(seg, query) : Has(name) /\ ~Readable(name)
  /\ Faults(seg, query) \subseteq {"unknown column", "type mismatch", "unreadable"}
<1> DEFINE Unknown == \E name \in Mentioned(seg, query) : ~HasColumn(seg, name)
           Unreadable == \E name \in Mentioned(seg, query) :
                           HasColumn(seg, name) /\ seg.data[name] = Undecodable
           Mismatch == Mistyped(seg, query)
<1>1. Faults(seg, query) =
        { why \in {"unknown column", "type mismatch", "unreadable"} :
            CASE why = "unknown column" -> Unknown
              [] why = "type mismatch"  -> Mismatch
              [] why = "unreadable"     -> Unreadable }
  BY DEF Faults
<1>2. Unknown <=> \E name \in Mentioned(seg, query) : ~Has(name)
  BY DEF Has
<1>3. Unreadable <=> \E name \in Mentioned(seg, query) : Has(name) /\ ~Readable(name)
  BY DEF Has, Readable
<1>4. Mismatch <=> Mistyped(seg, query)
  OBVIOUS
<1> HIDE DEF Unknown, Unreadable, Mismatch
<1>5. "unknown column" \in Faults(seg, query) <=> Unknown
  BY <1>1
<1>6. "type mismatch" \in Faults(seg, query) <=> Mismatch
  BY <1>1
<1>7. "unreadable" \in Faults(seg, query) <=> Unreadable
  BY <1>1
<1>8. Faults(seg, query) \subseteq {"unknown column", "type mismatch", "unreadable"}
  BY <1>1
<1> QED
  BY <1>2, <1>3, <1>4, <1>5, <1>6, <1>7, <1>8

\* What a query names.
LEMMA NamedBy ==
  ASSUME TInv
  PROVE  \A name : name \in Mentioned(seg, query) <=>
           \/ \E i \in DOMAIN Cols : Cols[i] = name
           \/ \E i \in DOMAIN Disjuncts(query.where) : \E j \in DOMAIN Terms(query, i) :
                Terms(query, i)[j].col = name
           \/ query.proj = "grouped" /\ name = query.groupBy
           \/ Sums(query) /\ name = query.sumCol
<1>1. QueryOK(query)
  BY DEF TInv, QueryTypeOK
<1>2. ASSUME NEW i \in DOMAIN Disjuncts(query.where), NEW j \in DOMAIN Terms(query, i)
      PROVE  Terms(query, i)[j].col \in Names
  <2>1. Terms(query, i) \in Seq(Comparison)
    BY <1>1, TermsType
  <2>2. Terms(query, i)[j] \in Comparison
    BY <2>1, ElementOfSeq
  <2> QED
    BY <2>2 DEF Comparison
<1>3. \A name : name \in WhereColumns(query) <=>
        \E i \in DOMAIN Disjuncts(query.where) : \E j \in DOMAIN Terms(query, i) :
          Terms(query, i)[j].col = name
  BY <1>2 DEF WhereColumns
<1> QED
  BY <1>3 DEF Mentioned, Cols

\* Every column passed its checks: nothing stands in the way of an answer.
FilterPasses ==
  \A i \in DOMAIN Disjuncts(query.where) : \A j \in DOMAIN Terms(query, i) : Evaluable(i, j)

LEMMA Faultless ==
  ASSUME TInv, FilterPasses,
         \A i \in DOMAIN Cols : Has(Cols[i]) /\ Readable(Cols[i]),
         query.proj = "grouped" => Has(query.groupBy) /\ Readable(query.groupBy),
         Sums(query) => Has(query.sumCol) /\ Readable(query.sumCol) /\ Summable(query.sumCol)
  PROVE  Faults(seg, query) = {}
<1>1. ASSUME NEW i \in DOMAIN Disjuncts(query.where), NEW j \in DOMAIN Terms(query, i)
      PROVE  /\ Has(Terms(query, i)[j].col) /\ Readable(Terms(query, i)[j].col)
             /\ Terms(query, i)[j].lit.type = TypeIn(seg, Terms(query, i)[j].col)
  BY DEF FilterPasses, Evaluable
<1>2. ASSUME NEW name \in Mentioned(seg, query) PROVE Has(name) /\ Readable(name)
  <2>1. CASE \E i \in DOMAIN Cols : Cols[i] = name
    BY <2>1
  <2>2. CASE \E i \in DOMAIN Disjuncts(query.where) : \E j \in DOMAIN Terms(query, i) :
                Terms(query, i)[j].col = name
    BY <1>1, <2>2
  <2>3. CASE query.proj = "grouped" /\ name = query.groupBy
    BY <2>3
  <2>4. CASE Sums(query) /\ name = query.sumCol
    BY <2>4
  <2> QED
    BY <2>1, <2>2, <2>3, <2>4, NamedBy
<1>3. ~Mistyped(seg, query)
  <2>1. ~(Sums(query) /\ HasColumn(seg, query.sumCol) /\ TypeIn(seg, query.sumCol) = "string")
    BY DEF Summable
  <2>2. ~ \E i \in DOMAIN Disjuncts(query.where) : \E j \in DOMAIN Terms(query, i) :
            HasColumn(seg, Terms(query, i)[j].col)
            /\ Terms(query, i)[j].lit.type # TypeIn(seg, Terms(query, i)[j].col)
    BY <1>1
  <2> QED
    BY <2>1, <2>2 DEF Mistyped
<1> QED
  BY <1>2, <1>3, FaultIs

\* So it is while the rows are scanned.
LEMMA ScanFaultless ==
  ASSUME TInv, FilterChecked, stage = "scan"
  PROVE  Faults(seg, query) = {}
<1>1. FilterPasses /\ query.proj \in ProjectionKind
  BY DEF FilterChecked, FilterPasses, TInv, QueryTypeOK, QueryOK
<1>2. /\ query.proj \in {"columns", "star"} => \A i \in DOMAIN Cols : Has(Cols[i]) /\ Readable(Cols[i])
      /\ query.proj = "grouped" => Has(query.groupBy) /\ Readable(query.groupBy)
      /\ Sums(query) => Has(query.sumCol) /\ Readable(query.sumCol) /\ Summable(query.sumCol)
  BY DEF TInv, Opened
<1>3. query.proj = "sum" => \A i \in DOMAIN Cols : Has(Cols[i]) /\ Readable(Cols[i])
  BY <1>2 DEF Cols, ProjectedColumns, Sums
<1>4. query.proj \in {"count", "grouped"} => DOMAIN Cols = {}
  BY DEF Cols, ProjectedColumns
<1>5. \A i \in DOMAIN Cols : Has(Cols[i]) /\ Readable(Cols[i])
  BY <1>1, <1>2, <1>3, <1>4 DEF ProjectionKind
<1> QED
  BY <1>1, <1>2, <1>5, Faultless

\* A step that fails has a reason.
FailsRightly(why) ==
  \/ why \in Faults(seg, query)
  \/ Faults(seg, query) = {} /\ Overflows(seg, query) /\ why = "sum overflow"

LEMMA FailsMeant ==
  ASSUME UNCHANGED inputs, NEW why, FailsRightly(why), Fails(why)
  PROVE  Meaningful'
<1>1. seg' = seg /\ query' = query /\ stage' = "done" /\ result' = [kind |-> "error", why |-> why]
  BY DEF Fails, Returns, inputs
<1>2. FilterChecked'
  BY <1>1 DEF FilterChecked
<1>3. Meant'
  BY <1>1 DEF Meant, FailsRightly
<1> QED
  BY <1>1, <1>2, <1>3 DEF Meaningful

\* Resolve.
LEMMA MeantResolve == MInv /\ Resolve => Meaningful'
<1> SUFFICES ASSUME MInv, Resolve PROVE Meaningful'
  OBVIOUS
<1>0. TInv /\ Unscanned /\ result = NoResult /\ stage = "resolve" /\ d = 1 /\ c = 1
  BY DEF MInv, CInv, Meaningful, Resolve, TInv, Opened
<1>1. CASE \E i \in DOMAIN Cols : ~Has(Cols[i])
  <2>1. "unknown column" \in Faults(seg, query)
    BY <1>0, <1>1, NamedBy, FaultIs
  <2>2. Fails("unknown column") /\ UNCHANGED inputs
    BY <1>1 DEF Resolve, Cols
  <2> QED
    BY <2>1, <2>2, FailsMeant DEF FailsRightly
<1>2. CASE ~ \E i \in DOMAIN Cols : ~Has(Cols[i])
  <2>1. /\ stage' \in {"where", "begin"} /\ (stage' = "begin" => ~Filtered(query))
        /\ seg' = seg /\ query' = query /\ result' = result /\ d' = 1 /\ c' = 1
        /\ UNCHANGED <<row, scanned>>
    BY <1>0, <1>2 DEF Resolve, Cols, inputs, where
  <2>2. ~Filtered(query) => DOMAIN Disjuncts(query.where) = {}
    BY DEF Filtered, Disjuncts
  <2>3. FilterChecked'
    <3>1. CASE stage' = "where"
      <4>1. 1 .. (d' - 1) = {} /\ 1 .. (c' - 1) = {}
        BY <2>1
      <4> QED
        BY <3>1, <4>1 DEF FilterChecked
    <3>2. CASE stage' = "begin"
      BY <2>1, <2>2, <3>2 DEF FilterChecked
    <3> QED
      BY <2>1, <3>1, <3>2
  <2>4. Unscanned'
    BY <1>0, <2>1 DEF Unscanned, scanned
  <2>5. Meant'
    BY <1>0, <2>1 DEF Meant, NoResult
  <2> QED
    BY <1>0, <2>1, <2>3, <2>4, <2>5 DEF Meaningful
<1> QED
  BY <1>1, <1>2

\* A comparison fails.
LEMMA MeantFailComparison == MInv /\ FailComparison => Meaningful'
<1> SUFFICES ASSUME MInv, FailComparison PROVE Meaningful'
  OBVIOUS
<1> DEFINE e == Terms(query, d)[c]
<1>0. TInv /\ stage = "where" /\ UNCHANGED inputs
  BY DEF MInv, CInv, FailComparison
<1>1. d \in DOMAIN Disjuncts(query.where) /\ c \in DOMAIN Terms(query, d)
  BY <1>0 DEF TInv, QueryTypeOK
<1>2. e.col \in Mentioned(seg, query)
  BY <1>0, <1>1, NamedBy
<1>3. CASE ~Has(e.col) /\ Fails("unknown column")
  BY <1>0, <1>2, <1>3, FaultIs, FailsMeant DEF FailsRightly
<1>4. CASE Has(e.col) /\ e.lit.type # TypeIn(seg, e.col) /\ Fails("type mismatch")
  <2>1. HasColumn(seg, e.col)
    BY <1>4 DEF Has
  <2>2. Mistyped(seg, query)
    BY <1>1, <1>4, <2>1 DEF Mistyped
  <2> QED
    BY <1>0, <1>4, <2>2, FaultIs, FailsMeant DEF FailsRightly
<1>5. CASE Has(e.col) /\ ~Readable(e.col) /\ Fails("unreadable")
  BY <1>0, <1>2, <1>5, FaultIs, FailsMeant DEF FailsRightly
<1> QED
  BY <1>3, <1>4, <1>5 DEF FailComparison

\* A comparison passes, and with the last one the WHERE.
LEMMA MeantCompare == MInv /\ Compare => Meaningful'
<1> SUFFICES ASSUME MInv, Compare PROVE Meaningful'
  OBVIOUS
<1>0. /\ TInv /\ stage = "where" /\ seg' = seg /\ query' = query /\ Unscanned /\ result = NoResult
      /\ UNCHANGED <<row, scanned, result>>
  BY DEF MInv, CInv, Meaningful, Compare, inputs
<1>1. Evaluable(d, c)
  BY DEF Compare, Evaluable
<1>2. /\ \A i \in 1 .. (d - 1) : \A j \in DOMAIN Terms(query, i) : Evaluable(i, j)
      /\ \A j \in 1 .. (c - 1) : Evaluable(d, j)
  BY <1>0 DEF MInv, Meaningful, FilterChecked
<1>3. /\ c \in Nat \ {0} /\ d \in Nat \ {0} /\ Len(Terms(query, d)) \in Nat
      /\ DOMAIN Terms(query, d) = 1 .. Len(Terms(query, d))
      /\ DOMAIN Disjuncts(query.where) = 1 .. Len(Disjuncts(query.where))
  <2>1. Disjuncts(query.where) \in Seq(Comparison \cup [kind : {"and"}, kids : Seq(Comparison)])
    BY <1>0 DEF TInv, QueryTypeOK, QueryOK
  <2> QED
    BY <1>0, <2>1, Current DEF TInv, QueryTypeOK
<1>4. \A j \in 1 .. c : Evaluable(d, j)
  <2>1. \A j \in 1 .. c : j \in 1 .. (c - 1) \/ j = c
    BY <1>3
  <2> QED
    BY <1>1, <1>2, <2>1
<1>5. \A i, j : Evaluable(i, j)' <=> Evaluable(i, j)
  BY <1>0 DEF Evaluable, Has, Readable
<1>6. CASE c < Len(Terms(query, d))
  <2>1. stage' = "where" /\ d' = d /\ c' = c + 1
    BY <1>0, <1>6 DEF Compare
  <2>2. c' - 1 = c
    BY <1>3, <2>1
  <2>3. FilterChecked'
    BY <1>0, <1>2, <1>4, <1>5, <2>1, <2>2 DEF FilterChecked
  <2> QED
    BY <1>0, <2>1, <2>3 DEF Meaningful, Unscanned, scanned, Meant, NoResult
<1>7. CASE ~(c < Len(Terms(query, d)))
  <2>1. /\ stage' = IF d = Len(Disjuncts(query.where)) THEN "begin" ELSE "where"
        /\ d' = d + 1 /\ c' = 1 /\ c = Len(Terms(query, d))
    BY <1>7 DEF Compare
  <2>2. \A i \in 1 .. d : \A j \in DOMAIN Terms(query, i) : Evaluable(i, j)
    <3>1. \A i \in 1 .. d : i \in 1 .. (d - 1) \/ i = d
      BY <1>3
    <3> QED
      BY <1>2, <1>3, <1>4, <2>1, <3>1
  <2>3. FilterChecked'
    <3>1. CASE d = Len(Disjuncts(query.where))
      <4>1. stage' = "begin"
        BY <2>1, <3>1
      <4> QED
        BY <1>0, <1>3, <1>5, <2>2, <3>1, <4>1 DEF FilterChecked
    <3>2. CASE d # Len(Disjuncts(query.where))
      <4>1. stage' = "where" /\ d' - 1 = d /\ 1 .. (c' - 1) = {}
        BY <1>3, <2>1, <3>2
      <4> QED
        BY <1>0, <1>5, <2>2, <4>1 DEF FilterChecked
    <3> QED
      BY <3>1, <3>2
  <2>4. stage' \in {"begin", "where"}
    BY <2>1
  <2> QED
    BY <1>0, <2>4, <2>3 DEF Meaningful, Unscanned, scanned, Meant, NoResult
<1> QED
  BY <1>6, <1>7

\* An integer column that is opened can be summed.
LEMMA OpenedIntegral ==
  ASSUME TInv, SumsInts, Has(query.sumCol), Readable(query.sumCol)
  PROVE  Integral(seg, query) /\ \A r \in 1 .. seg.rows : Value(seg, query.sumCol, r) \in Int64
<1>1. SegmentOK(seg) /\ seg.rows \in Nat /\ query.sumCol \in Names
  BY DEF TInv, QueryTypeOK, SegmentOK, QueryOK
<1>2. \A r \in 1 .. seg.rows : Value(seg, query.sumCol, r) \in Int64
  BY <1>1, ValueType DEF Has, Readable, SumsInts
<1>3. Int64 \subseteq Int
  BY NumberAssumption DEF Int64, MinInt
<1> QED
  BY <1>1, <1>2, <1>3 DEF Integral

\* A new accumulator holds the aggregate of no rows.
LEMMA NewHolds ==
  ASSUME SumsInts => Integral(seg, query)
  PROVE  Holds(NewAccumulator, {})
<1>1. NewAccumulator.count = 0 /\ NewAccumulator.sumI64 = 0 /\ NewAccumulator.sumF64 = <<>>
  BY DEF NewAccumulator
<1>2. Cardinality({}) = 0
  BY FS_EmptySet
<1>3. SumsInts => SumIn(seg, query, {}) = 0
  BY SumOfNone
<1>4. InTurn(seg.data[query.sumCol], {}) = <<>>
  BY ListOfNone
<1> QED
  BY <1>1, <1>2, <1>3, <1>4 DEF Holds

\* Adding a row adds it to what the accumulator holds.
LEMMA AddHolds ==
  ASSUME TInv, stage = "scan", row <= seg.rows, NEW a \in Accumulator, ~AddFails(a),
         NEW S \in SUBSET (1 .. (row - 1)), Holds(a, S)
  PROVE  Holds(Add(a), S \cup {row})
<1>1. /\ seg.rows \in Nat /\ row \in 1 .. seg.rows /\ row - 1 \in Nat /\ row - 1 < row
      /\ SegmentOK(seg) /\ QueryOK(query)
  <2>1. SegmentOK(seg) /\ QueryOK(query) /\ seg.rows \in Nat /\ row \in 1 .. (seg.rows + 1)
    BY DEF TInv, QueryTypeOK, SegmentOK
  <2> QED
    BY <2>1
<1>2. IsFiniteSet(S) /\ row \notin S
  <2>1. IsFiniteSet(1 .. (row - 1))
    BY <1>1, FS_Interval
  <2>2. row \notin 1 .. (row - 1)
    BY <1>1
  <2>3. S \subseteq 1 .. (row - 1)
    OBVIOUS
  <2>4. IsFiniteSet(S)
    BY <2>1, <2>3, FS_Subset
  <2> QED
    BY <2>2, <2>3, <2>4
<1>3. ASSUME ~Sums(query) PROVE Add(a).count = Cardinality(S \cup {row})
  <2>1. Add(a).count = a.count + 1 /\ a.count = Cardinality(S)
    BY <1>3, AddType DEF Holds
  <2>2. Cardinality(S \cup {row}) = Cardinality(S) + 1
    BY <1>2, FS_AddElement
  <2> QED
    BY <2>1, <2>2
<1>4. ASSUME SumsInts
      PROVE  /\ Add(a).sumI64 = SumIn(seg, query, S \cup {row})
             /\ \A r \in S \cup {row} : SumIn(seg, query, { x \in S \cup {row} : x <= r }) \in Int64
  <2>1. Has(query.sumCol) /\ Readable(query.sumCol)
    BY <1>4 DEF TInv, Opened, SumsInts
  <2>2. SumIn(seg, query, S \cup {row}) = SumIn(seg, query, S) + Addend
    BY <1>1, <1>2, <1>4, <2>1, OpenedIntegral, SumGrows DEF Addend
  <2>3. a.sumI64 = SumIn(seg, query, S) /\ \A r \in S : SumIn(seg, query, { x \in S : x <= r }) \in Int64
    BY <1>4 DEF Holds
  <2>4. Add(a) \in Accumulator /\ Add(a).sumI64 = a.sumI64 + Addend
    BY <1>4, AddType
  <2>5. Add(a).sumI64 = SumIn(seg, query, S \cup {row}) /\ Add(a).sumI64 \in Int64
    BY <2>2, <2>3, <2>4 DEF Accumulator
  <2>6. \A x \in S \cup {row} : x <= row
    BY <1>1
  <2>7. { x \in S \cup {row} : x <= row } = S \cup {row}
    BY <2>6
  <2>8. ASSUME NEW r \in S PROVE { x \in S \cup {row} : x <= r } = { x \in S : x <= r }
    <3>1. ~(row <= r)
      BY <1>1
    <3> QED
      BY <3>1
  <2> QED
    BY <2>3, <2>5, <2>7, <2>8
<1>5. ASSUME Sums(query), ~SumsInts
      PROVE  Add(a).sumF64 = InTurn(seg.data[query.sumCol], S \cup {row})
  <2>1. query.sumCol \in Names /\ Has(query.sumCol) /\ Readable(query.sumCol)
    BY <1>1, <1>5 DEF TInv, Opened, QueryOK
  <2>2. \A r \in 1 .. seg.rows : seg.data[query.sumCol][r] \in Bits
    BY <1>1, <2>1, ValueType DEF Has, Readable
  <2>3. \A r \in S \cup {row} : r \in 1 .. seg.rows
    BY <1>1
  <2>4. InTurn(seg.data[query.sumCol], S \cup {row})
          = Append(InTurn(seg.data[query.sumCol], S), seg.data[query.sumCol][row])
    <3>1. PICK n \in Nat : n = row - 1
      BY <1>1
    <3>2. S \in SUBSET (1 .. n) /\ row \in Nat /\ n < row
      BY <1>1, <3>1
    <3>3. PICK v : v = seg.data[query.sumCol]
      OBVIOUS
    <3>4. \A r \in S \cup {row} : v[r] \in Bits
      BY <2>2, <2>3, <3>3
    <3>5. InTurn(v, S \cup {row}) = Append(InTurn(v, S), v[row])
      BY <3>2, <3>4, ListGrows
    <3> QED
      BY <3>3, <3>5
  <2>5. Add(a) = [a EXCEPT !.sumF64 = Append(@, seg.data[query.sumCol][row])]
    BY <1>5 DEF Add
  <2>6. a.sumF64 = InTurn(seg.data[query.sumCol], S)
    BY <1>5 DEF Holds
  <2>7. a \in [count : Nat, sumI64 : Int64, sumF64 : Seq(Bits)]
    BY DEF Accumulator
  <2> QED
    BY <2>4, <2>5, <2>6, <2>7
<1> QED
  BY <1>3, <1>4, <1>5 DEF Holds

\* What the scan holds depends on the inputs, which stay.
LEMMA ScannedNext ==
  ASSUME seg' = seg, query' = query,
         query.proj \in {"columns", "star"} => rows' = InTurn(CellsOf, Before'),
         query.proj \in {"count", "sum"} => Holds(acc', Before'),
         query.proj = "grouped" => \A k \in DOMAIN groups' : Holds(groups'[k], InGroup(k)'),
         query.proj = "grouped" => keys' = InTurn(KeyCells, Firsts')
  PROVE  Scanned'
<1>1. CellsOf' = CellsOf /\ KeyCells' = KeyCells
  BY DEF CellsOf, KeyCells, Cols, CellOf
<1>2. query.proj \in {"count", "sum"} => Holds(acc, Before)'
  BY DEF Holds, SumsInts
<1>3. query.proj = "grouped" => \A k \in DOMAIN groups' : Holds(groups[k], InGroup(k))'
  BY DEF Holds, SumsInts
<1> QED
  BY <1>1, <1>2, <1>3 DEF Scanned, InTurn

\* The scan starts with nothing.
LEMMA MeantProceeds ==
  ASSUME MInv, stage = "begin", UNCHANGED <<inputs, where, row, scanned>>, Proceeds, TInv'
  PROVE  Meaningful'
<1>1. /\ seg' = seg /\ query' = query /\ stage' = "scan" /\ result' = NoResult
      /\ row' = 1 /\ rows' = <<>> /\ acc' = NewAccumulator /\ keys' = <<>> /\ DOMAIN groups' = {}
      /\ TInv /\ FilterChecked
  BY DEF MInv, CInv, Meaningful, Unscanned, Proceeds, inputs, scanned
<1>2. FilterChecked'
  BY <1>1 DEF FilterChecked, Evaluable, Has, Readable
<1>3. Before' = {}
  BY <1>1 DEF Before
<1>4. Firsts' = {}
  BY <1>3 DEF Firsts
<1>5. SumsInts => Has(query.sumCol) /\ Readable(query.sumCol)
  BY <1>1 DEF TInv, Opened, SumsInts, Has, Readable
<1>6. Holds(NewAccumulator, {})
  BY <1>1, <1>5, OpenedIntegral, NewHolds
<1>7. Scanned'
  BY <1>1, <1>3, <1>4, <1>6, ListOfNone, ScannedNext
<1>8. Meant'
  BY <1>1 DEF Meant, NoResult
<1> QED
  BY <1>1, <1>2, <1>7, <1>8 DEF Meaningful

\* Where a column to sum is looked up.
LEMMA MeantOpens ==
  ASSUME MInv, stage = "begin", UNCHANGED <<inputs, where, row, scanned>>, TInv',
         Sums(query), Has(query.sumCol), NEW before, OpensSumColumn(query.sumCol, before)
  PROVE  Meaningful'
<1>1. TInv /\ SegmentOK(seg) /\ UNCHANGED inputs
  BY DEF MInv, CInv, TInv, QueryTypeOK
<1>2. query.sumCol \in Mentioned(seg, query)
  BY <1>1, NamedBy
<1>3. CASE ~Summable(query.sumCol) /\ Fails("type mismatch")
  <2>1. TypeIn(seg, query.sumCol) \in ColumnType
    BY <1>1, ColumnFound DEF Has
  <2>2. Mistyped(seg, query)
    BY <1>3, <2>1 DEF Mistyped, Summable, ColumnType, Has
  <2> QED
    BY <1>1, <1>3, <2>2, FaultIs, FailsMeant DEF FailsRightly
<1>4. CASE ~Readable(query.sumCol) /\ Fails("unreadable")
  BY <1>1, <1>2, <1>4, FaultIs, FailsMeant DEF FailsRightly
<1>5. CASE Proceeds
  BY <1>5, MeantProceeds
<1> QED
  BY <1>3, <1>4, <1>5 DEF OpensSumColumn

\* The rows of a segment that is not filtered are counted in its header.
LEMMA MeantHeader ==
  ASSUME MInv, BeginCount, ~Filtered(query)
  PROVE  Meaningful'
<1>1. /\ TInv /\ seg' = seg /\ query' = query /\ stage' = "done" /\ query.proj = "count"
      /\ result' = [kind |-> "rows", rows |-> << <<[count |-> seg.rows]>> >>]
      /\ seg.rows \in Nat
  BY DEF MInv, CInv, BeginCount, Returns, Proceeds, inputs, TInv, QueryTypeOK, SegmentOK
<1>2. Faults(seg, query) = {}
  <2>1. FilterPasses
    BY DEF FilterPasses, Filtered, Disjuncts
  <2>2. DOMAIN Cols = {} /\ ~Sums(query)
    BY <1>1 DEF Cols, ProjectedColumns, Sums
  <2> QED
    BY <1>1, <2>1, <2>2, Faultless
<1>3. ~Overflows(seg, query)
  BY <1>1 DEF Overflows, Sums
<1>4. RowsOf(seg, query) = << <<[count |-> seg.rows]>> >>
  <2>1. Selected(seg, query) = 1 .. seg.rows
    BY DEF Selected
  <2>2. Cardinality(1 .. seg.rows) = seg.rows
    BY <1>1, FS_Interval
  <2>3. AggregateOf(seg, query, Selected(seg, query)) = [count |-> seg.rows]
    BY <1>1, <2>1, <2>2 DEF AggregateOf, Sums
  <2> QED
    BY <1>1, <2>3 DEF RowsOf
<1>5. Meant'
  BY <1>1, <1>2, <1>3, <1>4 DEF Meant
<1> QED
  BY <1>1, <1>5 DEF Meaningful, FilterChecked

\* The four ways to begin.
LEMMA MeantBegin ==
  MInv /\ (BeginCount \/ BeginSum \/ BeginProject \/ BeginGrouped) => Meaningful'
<1> SUFFICES ASSUME MInv, BeginCount \/ BeginSum \/ BeginProject \/ BeginGrouped PROVE Meaningful'
  OBVIOUS
<1>0. TInv /\ TInv'
  BY TypeBegin DEF MInv, CInv
<1>1. CASE BeginCount
  BY <1>0, <1>1, MeantHeader, MeantProceeds DEF BeginCount
<1>2. CASE BeginSum
  <2>1. Cols = <<query.sumCol>> /\ Sums(query)
    BY <1>2 DEF BeginSum, Cols, ProjectedColumns, Sums
  <2>2. Has(query.sumCol)
    BY <1>0, <1>2, <2>1 DEF BeginSum, TInv, Opened
  <2> QED
    BY <1>0, <1>2, <2>1, <2>2, MeantOpens DEF BeginSum
<1>3. CASE BeginProject
  <2>1. CASE Proceeds
    BY <1>0, <1>3, <2>1, MeantProceeds DEF BeginProject
  <2>2. CASE ~Proceeds
    <3>1. PICK n \in DOMAIN Cols : ~Readable(Cols[n]) /\ Fails("unreadable")
      BY <1>3, <2>2 DEF BeginProject, Cols
    <3>2. Has(Cols[n]) /\ Cols[n] \in Mentioned(seg, query)
      BY <1>0, <1>3, NamedBy DEF TInv, Opened, BeginProject
    <3>3. UNCHANGED inputs
      BY <1>3 DEF BeginProject
    <3> QED
      BY <3>1, <3>2, <3>3, FaultIs, FailsMeant DEF FailsRightly
  <2> QED
    BY <2>1, <2>2
<1>4. CASE BeginGrouped
  <2>1. /\ query.groupBy \in Mentioned(seg, query) /\ UNCHANGED inputs
        /\ query.agg = "sum" => Sums(query) /\ query.sumCol \in Mentioned(seg, query)
    BY <1>0, <1>4, NamedBy DEF BeginGrouped, Sums
  <2>2. CASE ~Has(query.groupBy) /\ Fails("unknown column")
    BY <2>1, <2>2, FaultIs, FailsMeant DEF FailsRightly
  <2>3. CASE Has(query.groupBy) /\ ~Readable(query.groupBy) /\ Fails("unreadable")
    BY <2>1, <2>3, FaultIs, FailsMeant DEF FailsRightly
  <2>4. CASE Proceeds
    BY <1>0, <1>4, <2>4, MeantProceeds DEF BeginGrouped
  <2>5. CASE query.agg = "sum" /\ ~Has(query.sumCol) /\ Fails("unknown column")
    BY <2>1, <2>5, FaultIs, FailsMeant DEF FailsRightly
  <2>6. CASE query.agg = "sum" /\ Has(query.sumCol)
             /\ OpensSumColumn(query.sumCol, reads \cup {query.groupBy})
    BY <1>0, <1>4, <2>1, <2>6, MeantOpens DEF BeginGrouped
  <2> QED
    BY <1>4, <2>2, <2>3, <2>4, <2>5, <2>6 DEF BeginGrouped
<1> QED
  BY <1>1, <1>2, <1>3, <1>4

\* The rows before the next one come before it.
LEMMA BeforeBounds ==
  ASSUME TInv
  PROVE  /\ row - 1 \in Nat /\ row \in Nat /\ row - 1 < row /\ seg.rows \in Nat
         /\ Before \in SUBSET (1 .. (row - 1)) /\ Firsts \in SUBSET (1 .. (row - 1))
         /\ \A k : InGroup(k) \in SUBSET (1 .. (row - 1))
         /\ \A r \in Before : r \in 1 .. seg.rows
         /\ row <= seg.rows => row \in 1 .. seg.rows
<1>1. row \in 1 .. (seg.rows + 1) /\ seg.rows \in Nat
  BY DEF TInv, QueryTypeOK, SegmentOK
<1>2. row - 1 \in Nat /\ row \in Nat /\ row - 1 < row /\ row - 1 <= seg.rows
  BY <1>1
<1>3. Before \in SUBSET (1 .. (row - 1))
  BY DEF Before
<1>4. \A r \in 1 .. (row - 1) : r \in 1 .. seg.rows
  BY <1>1, <1>2
<1>5. Firsts \subseteq Before /\ \A k : InGroup(k) \subseteq Before
  BY DEF Firsts, InGroup
<1>6. row <= seg.rows => row \in 1 .. seg.rows
  BY <1>1, <1>2
<1> QED
  BY <1>1, <1>2, <1>3, <1>4, <1>5, <1>6

\* A row begins a group if its key was not found.
LEMMA FirstsGrow ==
  ASSUME CInv, stage = "scan", query.proj = "grouped", NextRow
  PROVE  Firsts' = IF Picked(row) /\ ~Found THEN Firsts \cup {row} ELSE Firsts
<1>1. /\ TInv /\ seg' = seg /\ query' = query
      /\ DOMAIN groups = { Value(seg, query.groupBy, r) : r \in Before } \ {NaN}
  BY DEF CInv, CountsExact, NextRow, inputs
<1>2. Before' = IF Picked(row) THEN Before \cup {row} ELSE Before
  BY <1>1, BeforeGrows
<1>3. \A k : InGroup(k)' = IF Picked(row) /\ Key = k THEN InGroup(k) \cup {row} ELSE InGroup(k)
  BY <1>1, BeforeGrows
<1>4. \A r : KeyOf(r)' = KeyOf(r)
  BY <1>1 DEF KeyOf
<1>5. Key = KeyOf(row) /\ row \notin Before /\ \A r \in Before : r < row
  BY <1>1, BeforeBounds DEF Key, KeyOf
<1>6. /\ Firsts = { r \in Before : KeyOf(r) = NaN \/ \A x \in Before : KeyOf(x) = KeyOf(r) => r <= x }
      /\ Firsts' = { r \in Before' : KeyOf(r) = NaN \/ \A x \in Before' : KeyOf(x) = KeyOf(r) => r <= x }
  <2>1. Firsts' = { r \in Before' : KeyOf(r)' = NaN \/ \A x \in InGroup(KeyOf(r))' : r <= x }
    BY DEF Firsts
  <2>2. \A r : /\ InGroup(KeyOf(r)) = { x \in Before : KeyOf(x) = KeyOf(r) }
               /\ InGroup(KeyOf(r))' = { x \in Before' : KeyOf(x) = KeyOf(r) }
    BY <1>1 DEF InGroup, KeyOf
  <2>3. Firsts = { r \in Before : KeyOf(r) = NaN \/ \A x \in InGroup(KeyOf(r)) : r <= x }
    BY DEF Firsts
  <2> QED
    BY <1>4, <2>1, <2>2, <2>3
<1>7. CASE ~Picked(row)
  BY <1>2, <1>6, <1>7
<1>8. CASE Picked(row)
  <2>1. \A x : x \in Before' <=> x \in Before \/ x = row
    BY <1>2, <1>8
  <2>2. ASSUME NEW r \in Before PROVE r \in Firsts' <=> r \in Firsts
    <3>1. r <= row
      BY <1>1, <1>5, BeforeBounds
    <3>2. (\A x \in Before' : KeyOf(x) = KeyOf(r) => r <= x) <=> (\A x \in Before : KeyOf(x) = KeyOf(r) => r <= x)
      BY <2>1, <3>1
    <3> QED
      BY <1>6, <2>1, <3>2
  <2>3. row \in Firsts' <=> ~Found
    <3>1. Found <=> Key # NaN /\ \E x \in Before : KeyOf(x) = Key
      BY <1>1 DEF Found, KeyOf
    <3>2. \A x \in Before : ~(row <= x)
      BY <1>1, <1>5, BeforeBounds
    <3>3. row <= row
      BY <1>1, BeforeBounds
    <3>4. (\A x \in Before' : KeyOf(x) = KeyOf(row) => row <= x) <=> ~ \E x \in Before : KeyOf(x) = Key
      BY <1>5, <2>1, <3>2, <3>3
    <3>5. row \in Firsts' <=> KeyOf(row) = NaN \/ \A x \in Before' : KeyOf(x) = KeyOf(row) => row <= x
      BY <1>6, <2>1
    <3> QED
      BY <1>5, <3>1, <3>4, <3>5
  <2>4. Firsts' \subseteq Before' /\ Firsts \subseteq Before
    BY <1>6
  <2> QED
    BY <1>5, <1>8, <2>1, <2>2, <2>3, <2>4
<1> QED
  BY <1>7, <1>8

\* The loop goes on to the next row.
LEMMA NextMeant ==
  ASSUME MInv, stage = "scan", NextRow, Scanned'
  PROVE  Meaningful'
<1>1. seg' = seg /\ query' = query /\ stage' = "scan" /\ result' = NoResult /\ FilterChecked
  BY DEF MInv, Meaningful, NextRow, inputs
<1>2. FilterChecked'
  BY <1>1 DEF FilterChecked, Evaluable, Has, Readable
<1>3. Meant'
  BY <1>1 DEF Meant, NoResult
<1> QED
  BY <1>1, <1>2, <1>3 DEF Meaningful

\* A row that is not selected changes nothing.
LEMMA MeantSkipRow == MInv /\ SkipRow => Meaningful'
<1> SUFFICES ASSUME MInv, SkipRow PROVE Meaningful'
  OBVIOUS
<1>1. /\ CInv /\ TInv /\ Scanned /\ stage = "scan" /\ NextRow /\ ~Picked(row)
      /\ seg' = seg /\ query' = query
      /\ rows' = rows /\ acc' = acc /\ keys' = keys /\ groups' = groups
  BY DEF MInv, CInv, Meaningful, SkipRow, NextRow, inputs, scanned
<1>2. Before' = Before /\ \A k : InGroup(k)' = InGroup(k)
  BY <1>1, BeforeGrows
<1>3. query.proj = "grouped" => Firsts' = Firsts
  BY <1>1, FirstsGrow
<1>4. Scanned'
  BY <1>1, <1>2, <1>3, ScannedNext DEF Scanned
<1> QED
  BY <1>1, <1>4, NextMeant

\* ProjectRow: one more row of cells.
LEMMA MeantProjectRow == MInv /\ ProjectRow => Meaningful'
<1> SUFFICES ASSUME MInv, ProjectRow PROVE Meaningful'
  OBVIOUS
<1>1. /\ TInv /\ Scanned /\ stage = "scan" /\ row <= seg.rows /\ NextRow /\ Picked(row)
      /\ query.proj \in {"columns", "star"} /\ seg' = seg /\ query' = query
      /\ rows' = Append(rows, [j \in DOMAIN Cols |-> CellOf(Cols[j], row)])
  BY DEF MInv, CInv, Meaningful, ProjectRow, AtRow, NextRow, inputs, Cols
<1>2. row \in 1 .. seg.rows /\ \A r \in Before \cup {row} : r \in 1 .. seg.rows
  BY <1>1, BeforeBounds
<1>3. rows' = Append(rows, CellsOf[row])
  BY <1>1, <1>2 DEF CellsOf
<1>4. InTurn(CellsOf, Before \cup {row}) = Append(InTurn(CellsOf, Before), CellsOf[row])
  <2>1. PICK n \in Nat : n = row - 1
    BY <1>1, BeforeBounds
  <2>2. Before \in SUBSET (1 .. n) /\ row \in Nat /\ n < row
    BY <1>1, <2>1, BeforeBounds
  <2>3. PICK v : v = CellsOf
    OBVIOUS
  <2>4. PICK T : T = { v[r] : r \in 1 .. seg.rows }
    OBVIOUS
  <2>5. \A r \in Before \cup {row} : v[r] \in T
    BY <1>2, <2>4
  <2>6. InTurn(v, Before \cup {row}) = Append(InTurn(v, Before), v[row])
    BY <2>2, <2>5, ListGrows
  <2> QED
    BY <2>3, <2>6
<1>5. Before' = Before \cup {row}
  BY <1>1, BeforeGrows
<1>6. rows' = InTurn(CellsOf, Before')
  BY <1>1, <1>3, <1>4, <1>5 DEF Scanned
<1>7. Scanned'
  BY <1>1, <1>6, ScannedNext
<1> QED
  BY <1>1, <1>7, NextMeant

\* AggregateRow: one more row in the aggregate.
LEMMA MeantAggregateRow == MInv /\ AggregateRow => Meaningful'
<1> SUFFICES ASSUME MInv, AggregateRow PROVE Meaningful'
  OBVIOUS
<1>1. /\ TInv /\ Scanned /\ stage = "scan" /\ row <= seg.rows /\ NextRow /\ Picked(row)
      /\ query.proj \in {"count", "sum"} /\ ~AddFails(acc) /\ acc' = Add(acc)
      /\ seg' = seg /\ query' = query /\ acc \in Accumulator
  BY DEF MInv, CInv, Meaningful, AggregateRow, AtRow, NextRow, inputs, TInv, QueryTypeOK
<1>2. Before' = Before \cup {row} /\ Before \in SUBSET (1 .. (row - 1))
  BY <1>1, BeforeGrows, BeforeBounds
<1>3. Holds(acc, Before)
  BY <1>1 DEF Scanned
<1>4. Holds(Add(acc), Before \cup {row})
  BY <1>1, <1>2, <1>3, AddHolds
<1>5. Scanned'
  BY <1>1, <1>2, <1>4, ScannedNext
<1> QED
  BY <1>1, <1>5, NextMeant

\* What the accumulator at hand holds: the rows so far with the row's key.
LEMMA AccumulatorHolds ==
  ASSUME MInv, stage = "scan", query.proj = "grouped", row <= seg.rows, Key # NaN
  PROVE  Holds(AccumulatorAt, InGroup(Key))
<1>1. TInv /\ Scanned /\ DOMAIN groups = { Value(seg, query.groupBy, r) : r \in Before } \ {NaN}
  BY DEF MInv, CInv, CountsExact, Meaningful
<1>2. CASE Key \in DOMAIN groups
  BY <1>1, <1>2 DEF AccumulatorAt, Found, Scanned
<1>3. CASE Key \notin DOMAIN groups
  <2>1. InGroup(Key) = {}
    BY <1>1, <1>3 DEF InGroup
  <2>2. SumsInts => Integral(seg, query)
    <3>1. SumsInts => Has(query.sumCol) /\ Readable(query.sumCol)
      BY <1>1 DEF TInv, Opened, SumsInts
    <3> QED
      BY <1>1, <3>1, OpenedIntegral
  <2>3. AccumulatorAt = NewAccumulator
    BY <1>3 DEF AccumulatorAt, Found
  <2> QED
    BY <2>1, <2>2, <2>3, NewHolds
<1> QED
  BY <1>2, <1>3

\* GroupRow: one more row in its group.
LEMMA MeantGroupRow == MInv /\ GroupRow => Meaningful'
<1> SUFFICES ASSUME MInv, GroupRow PROVE Meaningful'
  OBVIOUS
<1>1. /\ TInv /\ CInv /\ Scanned /\ stage = "scan" /\ row <= seg.rows /\ NextRow /\ Picked(row)
      /\ query.proj = "grouped" /\ ~AddFails(AccumulatorAt) /\ seg' = seg /\ query' = query
      /\ DOMAIN groups = { Value(seg, query.groupBy, r) : r \in Before } \ {NaN}
  BY DEF MInv, CInv, CountsExact, Meaningful, GroupRow, AtRow, NextRow, inputs
<1>2. /\ keys' = IF Found THEN keys ELSE Append(keys, CellOf(query.groupBy, row))
      /\ groups' = IF Key = NaN THEN groups
                   ELSE [k \in DOMAIN groups \cup {Key} |->
                           IF k = Key THEN Add(AccumulatorAt) ELSE groups[k]]
  BY DEF GroupRow
<1>3. \A k : InGroup(k)' = IF Key = k THEN InGroup(k) \cup {row} ELSE InGroup(k)
  BY <1>1, BeforeGrows
<1>4. keys = InTurn(KeyCells, Firsts) /\ \A k \in DOMAIN groups : Holds(groups[k], InGroup(k))
  BY <1>1 DEF Scanned
<1>5. keys' = InTurn(KeyCells, Firsts')
  <2>1. Firsts' = IF ~Found THEN Firsts \cup {row} ELSE Firsts
    BY <1>1, FirstsGrow
  <2>2. row \in 1 .. seg.rows /\ \A r \in Firsts \cup {row} : r \in 1 .. seg.rows
    BY <1>1, BeforeBounds DEF Firsts
  <2>3. KeyCells[row] = CellOf(query.groupBy, row)
    BY <2>2 DEF KeyCells
  <2>4. InTurn(KeyCells, Firsts \cup {row}) = Append(InTurn(KeyCells, Firsts), KeyCells[row])
    <3>1. PICK n \in Nat : n = row - 1
      BY <1>1, BeforeBounds
    <3>2. Firsts \in SUBSET (1 .. n) /\ row \in Nat /\ n < row
      BY <1>1, <3>1, BeforeBounds
    <3>3. PICK v : v = KeyCells
      OBVIOUS
    <3>4. PICK T : T = { v[r] : r \in 1 .. seg.rows }
      OBVIOUS
    <3>5. \A r \in Firsts \cup {row} : v[r] \in T
      BY <2>2, <3>4
    <3>6. InTurn(v, Firsts \cup {row}) = Append(InTurn(v, Firsts), v[row])
      BY <3>2, <3>5, ListGrows
    <3> QED
      BY <3>3, <3>6
  <2> QED
    BY <1>2, <1>4, <2>1, <2>3, <2>4
<1>6. ASSUME NEW k \in DOMAIN groups' PROVE Holds(groups'[k], InGroup(k)')
  <2>1. CASE Key = NaN
    <3>1. k \in DOMAIN groups /\ groups'[k] = groups[k] /\ k # Key
      BY <1>1, <1>2, <2>1
    <3> QED
      BY <1>3, <1>4, <3>1
  <2>2. CASE Key # NaN /\ k # Key
    <3>1. k \in DOMAIN groups /\ groups'[k] = groups[k]
      BY <1>2, <2>2
    <3> QED
      BY <1>3, <1>4, <2>2, <3>1
  <2>3. CASE Key # NaN /\ k = Key
    <3>1. groups'[k] = Add(AccumulatorAt)
      BY <1>2, <2>3
    <3>2. AccumulatorAt \in Accumulator /\ InGroup(Key) \in SUBSET (1 .. (row - 1))
      BY <1>1, AccumulatorAtType, BeforeBounds
    <3>3. Holds(AccumulatorAt, InGroup(Key))
      BY <1>1, <2>3, AccumulatorHolds
    <3>4. PICK a \in Accumulator : a = AccumulatorAt
      BY <3>2
    <3>5. PICK S \in SUBSET (1 .. (row - 1)) : S = InGroup(Key)
      BY <3>2
    <3>6. Holds(Add(a), S \cup {row})
      BY <1>1, <3>3, <3>4, <3>5, AddHolds
    <3> QED
      BY <1>3, <2>3, <3>1, <3>4, <3>5, <3>6
  <2> QED
    BY <2>1, <2>2, <2>3
<1>7. Scanned'
  BY <1>1, <1>5, <1>6, ScannedNext
<1> QED
  BY <1>1, <1>7, NextMeant

\* Values that compare as equal.
LEMMA OrderEqual ==
  ASSUME NEW v \in Int \cup {NaN}, NEW w \in Int \cup {NaN}
  PROVE  Order(v, w) = "equal" <=> v # NaN /\ v = w
<1>1. CASE NaN \in {v, w}
  BY <1>1 DEF Order
<1>2. CASE NaN \notin {v, w}
  <2>1. v \in Int /\ w \in Int /\ v # NaN
    BY <1>2
  <2>2. CASE v < w
    BY <1>2, <2>1, <2>2 DEF Order
  <2>3. CASE v = w
    <3>1. ~(v < w)
      BY <2>1, <2>3
    <3> QED
      BY <1>2, <2>1, <2>3, <3>1 DEF Order
  <2>4. CASE v > w
    <3>1. ~(v < w) /\ v # w
      BY <2>1, <2>4
    <3> QED
      BY <1>2, <2>1, <3>1 DEF Order
  <2> QED
    BY <2>1, <2>2, <2>3, <2>4
<1> QED
  BY <1>1, <1>2

\* The rows of the answer, and how far they are scanned.
Chosen == Selected(seg, query)
SameKey(k) == { x \in Chosen : KeyOf(x) = k }

LEMMA ChosenIs ==
  ASSUME TInv, SelectionRight, stage = "scan"
  PROVE  /\ Chosen = { r \in 1 .. seg.rows : Picked(r) } /\ Chosen \in SUBSET (1 .. seg.rows)
         /\ Before = { r \in Chosen : r < row }
         /\ \A k : InGroup(k) = { r \in SameKey(k) : r < row }
<1>1. Chosen = { r \in 1 .. seg.rows : Picked(r) }
  BY DEF SelectionRight, Chosen
<1>2. row \in 1 .. (seg.rows + 1) /\ seg.rows \in Nat
  BY DEF TInv, QueryTypeOK, SegmentOK
<1>3. \A r : r \in 1 .. (row - 1) <=> r \in 1 .. seg.rows /\ r < row
  BY <1>2
<1>4. Before = { r \in Chosen : r < row }
  BY <1>1, <1>3 DEF Before
<1>5. \A k : InGroup(k) = { r \in SameKey(k) : r < row }
  BY <1>4 DEF InGroup, SameKey, KeyOf
<1> QED
  BY <1>1, <1>4, <1>5

\* The group of a row: those with its key, or itself alone.
LEMMA GroupIs ==
  ASSUME TInv, SelectionRight, stage = "scan", query.proj = "grouped", NEW r \in Chosen
  PROVE  GroupOf(seg, query, r) = IF KeyOf(r) = NaN THEN {r} ELSE SameKey(KeyOf(r))
<1>1. ASSUME NEW x \in Chosen PROVE KeyOf(x) \in Int \cup {NaN}
  <2>1. x \in 1 .. seg.rows
    BY ChosenIs
  <2>2. SegmentOK(seg) /\ query.groupBy \in Names /\ Has(query.groupBy) /\ Readable(query.groupBy)
    BY DEF TInv, QueryTypeOK, QueryOK, Opened
  <2> QED
    BY <2>1, <2>2, ValueType DEF KeyOf, Has, Readable
<1>2. GroupOf(seg, query, r) = {r} \cup { x \in Chosen : Order(KeyOf(x), KeyOf(r)) = "equal" }
  BY DEF GroupOf, Chosen, KeyOf
<1>3. \A x \in Chosen : Order(KeyOf(x), KeyOf(r)) = "equal" <=> KeyOf(x) # NaN /\ KeyOf(x) = KeyOf(r)
  BY <1>1, OrderEqual
<1>4. GroupOf(seg, query, r) = {r} \cup { x \in Chosen : KeyOf(x) # NaN /\ KeyOf(x) = KeyOf(r) }
  BY <1>2, <1>3
<1> QED
  BY <1>4 DEF SameKey

\* A group has a first row.
LEMMA GroupLeads ==
  ASSUME TInv, SelectionRight, stage = "scan", query.proj = "grouped",
         NEW r \in Chosen, KeyOf(r) # NaN
  PROVE  SameKey(KeyOf(r)) \in GroupsOf(seg, query)
<1>1. PICK k : k = KeyOf(r)
  OBVIOUS
<1>2. SameKey(k) \in SUBSET Nat /\ SameKey(k) # {}
  <2>1. Chosen \in SUBSET (1 .. seg.rows)
    BY ChosenIs
  <2>2. seg.rows \in Nat
    BY DEF TInv, QueryTypeOK, SegmentOK
  <2>3. SameKey(k) \subseteq Chosen /\ r \in SameKey(k)
    BY <1>1 DEF SameKey
  <2>4. 1 .. seg.rows \subseteq Nat
    BY <2>2
  <2> QED
    BY <2>1, <2>3, <2>4
<1>3. PICK l \in SameKey(k) : \A x \in SameKey(k) : l <= x
  BY <1>2, LeastNumber
<1>4. l \in Chosen /\ KeyOf(l) = k
  BY <1>3 DEF SameKey
<1>5. GroupOf(seg, query, l) = SameKey(k)
  BY <1>1, <1>4, GroupIs
<1>6. l \in Leaders(seg, query)
  BY <1>3, <1>4, <1>5 DEF Leaders, Chosen
<1> QED
  BY <1>1, <1>5, <1>6 DEF GroupsOf

\* A sum that is refused is not an int64.
LEMMA FailedSum ==
  ASSUME TInv, stage = "scan", row <= seg.rows, NEW a \in Accumulator, AddFails(a),
         NEW S \in SUBSET (1 .. (row - 1)), Holds(a, S)
  PROVE  SumsInts /\ SumIn(seg, query, S \cup {row}) \notin Int64
<1>1. SumsInts /\ AddOverflows(a.sumI64, Addend)
  BY DEF AddFails
<1>2. Has(query.sumCol) /\ Readable(query.sumCol) /\ row \in 1 .. seg.rows /\ row \notin S
  <2>1. row \notin 1 .. (row - 1) /\ row \in 1 .. seg.rows
    BY BeforeBounds
  <2> QED
    BY <1>1, <2>1 DEF TInv, Opened, SumsInts
<1>3. Integral(seg, query) /\ Addend \in Int64
  BY <1>1, <1>2, OpenedIntegral DEF Addend
<1>4. a.sumI64 \in Int64 /\ a.sumI64 = SumIn(seg, query, S)
  BY <1>1 DEF Accumulator, Holds
<1>5. a.sumI64 + Addend \notin Int64
  BY <1>1, <1>3, <1>4, AdditionExact
<1>6. SumIn(seg, query, S \cup {row}) = SumIn(seg, query, S) + Addend
  BY <1>2, <1>3, SumGrows DEF Addend
<1> QED
  BY <1>1, <1>4, <1>5, <1>6

\* SumOverflow: the sum of a group, up to this row, is not an int64.
LEMMA MeantSumOverflow == MInv /\ SumOverflow => Meaningful'
<1> SUFFICES ASSUME MInv, SumOverflow PROVE Meaningful'
  OBVIOUS
<1>1. /\ TInv /\ SelectionRight /\ Scanned /\ FilterChecked /\ stage = "scan" /\ row <= seg.rows
      /\ Picked(row) /\ Fails("sum overflow") /\ UNCHANGED inputs
  BY DEF MInv, CInv, SInv, Meaningful, SumOverflow, AtRow
<1>2. row \in Chosen /\ \A x \in Chosen : x < row \/ x = row <=> x <= row
  <2>1. row \in 1 .. seg.rows /\ Chosen = { r \in 1 .. seg.rows : Picked(r) } /\ seg.rows \in Nat
    BY <1>1, BeforeBounds, ChosenIs
  <2>2. \A x \in 1 .. seg.rows : x < row \/ x = row <=> x <= row
    BY <2>1
  <2>3. row \in Chosen /\ \A x \in Chosen : x \in 1 .. seg.rows
    BY <1>1, <2>1
  <2> QED
    BY <2>2, <2>3
<1>3. CASE query.proj = "sum" /\ AddFails(acc)
  <2>1. acc \in Accumulator /\ Before \in SUBSET (1 .. (row - 1)) /\ Holds(acc, Before)
    BY <1>1, <1>3, BeforeBounds DEF TInv, QueryTypeOK, Scanned
  <2>2. SumsInts /\ SumIn(seg, query, Before \cup {row}) \notin Int64
    BY <1>1, <1>3, <2>1, FailedSum
  <2>3. { x \in Chosen : x <= row } = Before \cup {row}
    BY <1>1, <1>2, ChosenIs
  <2>4. Chosen \in GroupsOf(seg, query)
    BY <1>3 DEF GroupsOf, Chosen
  <2>5. Overflows(seg, query)
    BY <1>2, <2>2, <2>3, <2>4 DEF Overflows, SumsInts
  <2> QED
    BY <1>1, <2>5, ScanFaultless, FailsMeant DEF FailsRightly
<1>4. CASE query.proj = "grouped" /\ AddFails(AccumulatorAt)
  <2>1. Key # NaN
    <3>1. SUFFICES ASSUME Key = NaN PROVE FALSE
      OBVIOUS
    <3>2. AccumulatorAt = NewAccumulator
      BY <3>1 DEF AccumulatorAt, Found
    <3>3. NewAccumulator.sumI64 = 0
      BY NewAccumulatorType
    <3> QED
      BY <1>4, <3>2, <3>3 DEF AddFails, AddOverflows
  <2>2. PICK a \in Accumulator : a = AccumulatorAt
    BY <1>1, AccumulatorAtType
  <2>3. PICK S \in SUBSET (1 .. (row - 1)) : S = InGroup(Key)
    BY <1>1, BeforeBounds
  <2>4. Holds(a, S) /\ AddFails(a)
    BY <1>1, <1>4, <2>1, <2>2, <2>3, AccumulatorHolds
  <2>5. SumsInts /\ SumIn(seg, query, S \cup {row}) \notin Int64
    BY <1>1, <2>4, FailedSum
  <2>6. KeyOf(row) = Key /\ row \in SameKey(Key) /\ SameKey(Key) \subseteq Chosen
    BY <1>2 DEF KeyOf, Key, SameKey
  <2>7. { x \in SameKey(Key) : x <= row } = S \cup {row}
    BY <1>1, <1>2, <2>3, <2>6, ChosenIs
  <2>8. SameKey(Key) \in GroupsOf(seg, query)
    BY <1>1, <1>2, <1>4, <2>1, <2>6, GroupLeads
  <2>9. Overflows(seg, query)
    BY <2>5, <2>6, <2>7, <2>8 DEF Overflows, SumsInts
  <2> QED
    BY <1>1, <2>9, ScanFaultless, FailsMeant DEF FailsRightly
<1> QED
  BY <1>3, <1>4 DEF SumOverflow

\* After the loop every row was scanned.
LEMMA Ended ==
  ASSUME MInv, AtEnd
  PROVE  /\ TInv /\ SelectionRight /\ stage = "scan" /\ Scanned /\ seg.rows \in Nat
         /\ Before = Chosen /\ Chosen \in SUBSET (1 .. seg.rows)
         /\ \A k : InGroup(k) = SameKey(k)
<1>1. TInv /\ SelectionRight /\ stage = "scan" /\ Scanned /\ row > seg.rows
  BY DEF MInv, CInv, SInv, Meaningful, AtEnd
<1>2. seg.rows \in Nat /\ row \in Nat /\ Chosen \in SUBSET (1 .. seg.rows)
  BY <1>1, BeforeBounds, ChosenIs
<1>3. \A r \in 1 .. seg.rows : r < row
  BY <1>1, <1>2
<1>4. Before = { r \in Chosen : r < row } /\ \A k : InGroup(k) = { r \in SameKey(k) : r < row }
  BY <1>1, ChosenIs
<1>5. \A k : SameKey(k) \subseteq Chosen
  BY DEF SameKey
<1> QED
  BY <1>1, <1>2, <1>3, <1>4, <1>5

\* The value of an accumulator is the aggregate it holds.
LEMMA HoldsMeans ==
  ASSUME NEW a, NEW S, Holds(a, S)
  PROVE  AggregateValue(a) = AggregateOf(seg, query, S)
<1>1. CASE ~Sums(query)
  BY <1>1 DEF AggregateValue, AggregateOf, Holds, SumsInts
<1>2. CASE SumsInts
  BY <1>2 DEF AggregateValue, AggregateOf, Holds, SumsInts
<1>3. CASE Sums(query) /\ ~SumsInts
  <2>1. AggregateValue(a) = [addends |-> a.sumF64]
    BY <1>3 DEF AggregateValue
  <2>2. AggregateOf(seg, query, S) = [addends |-> InTurn(seg.data[query.sumCol], S)]
    BY <1>3 DEF AggregateOf, SumsInts, InTurn
  <2> QED
    BY <1>3, <2>1, <2>2 DEF Holds
<1> QED
  BY <1>1, <1>2, <1>3

\* A sum that an accumulator holds never left int64.
LEMMA HoldsStays ==
  ASSUME NEW a, NEW S, Holds(a, S), SumsInts, NEW r \in S
  PROVE  SumIn(seg, query, { x \in S : x <= r }) \in Int64
BY DEF Holds

\* The keys are those of the rows that begin a group.
LEMMA KeysAre ==
  ASSUME MInv, AtEnd, query.proj = "grouped"
  PROVE  /\ DOMAIN keys = 1 .. Cardinality(Firsts)
         /\ \A i \in DOMAIN keys :
              LET r == InOrder(Firsts)[i]
              IN  /\ r \in Firsts /\ r \in Chosen
                  /\ keys[i] = CellAt(seg, query.groupBy, r)
                  /\ Number[keys[i].type][keys[i].bits] = KeyOf(r)
         /\ \A r \in Firsts : \E i \in DOMAIN keys : InOrder(Firsts)[i] = r
<1>1. /\ TInv /\ Before = Chosen /\ Chosen \in SUBSET (1 .. seg.rows) /\ keys = InTurn(KeyCells, Firsts)
      /\ row - 1 \in Nat /\ Firsts \in SUBSET (1 .. (row - 1)) /\ Firsts \subseteq Before
  BY Ended, BeforeBounds DEF Scanned, Firsts
<1>2. /\ \A i \in 1 .. Cardinality(Firsts) : InOrder(Firsts)[i] \in Firsts
      /\ \A r \in Firsts : \E i \in 1 .. Cardinality(Firsts) : InOrder(Firsts)[i] = r
  BY <1>1, OrderMembers, OrderCovers
<1>3. keys = [i \in 1 .. Cardinality(Firsts) |-> KeyCells[InOrder(Firsts)[i]]]
  BY <1>1 DEF InTurn
<1>4. \A r \in Firsts : /\ KeyCells[r] = CellAt(seg, query.groupBy, r)
                        /\ Number[KeyCells[r].type][KeyCells[r].bits] = KeyOf(r)
  BY <1>1 DEF KeyCells, CellOf, CellAt, KeyOf, Value
<1> QED
  BY <1>1, <1>2, <1>3, <1>4

\* Where no key is NaN the rows that begin a group are the leaders.
LEMMA LeadersAre ==
  ASSUME MInv, AtEnd, query.proj = "grouped", ~HasNaNKey
  PROVE  /\ Leaders(seg, query) = Firsts
         /\ \A r \in Chosen : KeyOf(r) # NaN /\ GroupOf(seg, query, r) = SameKey(KeyOf(r))
         /\ \A r \in Chosen : KeyOf(r) \in DOMAIN groups
<1>1. TInv /\ SelectionRight /\ stage = "scan" /\ Before = Chosen /\ \A k : InGroup(k) = SameKey(k)
  BY Ended
<1>2. ASSUME NEW r \in Chosen PROVE KeyOf(r) # NaN
  <2> SUFFICES ASSUME KeyOf(r) = NaN PROVE FALSE
    OBVIOUS
  <2>1. r \in Firsts
    BY <1>1 DEF Firsts
  <2>2. PICK i \in DOMAIN keys : InOrder(Firsts)[i] = r
    BY <2>1, KeysAre
  <2>3. Number[keys[i].type][keys[i].bits] = NaN
    BY <2>2, KeysAre
  <2> QED
    BY <2>3 DEF HasNaNKey
<1>3. \A r \in Chosen : GroupOf(seg, query, r) = SameKey(KeyOf(r))
  BY <1>1, <1>2, GroupIs
<1>4. Leaders(seg, query) = { r \in Chosen : \A x \in SameKey(KeyOf(r)) : r <= x }
  BY <1>3 DEF Leaders, Chosen
<1>5. Firsts = { r \in Chosen : \A x \in SameKey(KeyOf(r)) : r <= x }
  BY <1>1, <1>2 DEF Firsts
<1>6. DOMAIN groups = { KeyOf(r) : r \in Chosen } \ {NaN}
  BY <1>1 DEF MInv, CInv, CountsExact, KeyOf
<1> QED
  BY <1>2, <1>3, <1>4, <1>5, <1>6

\* No sum overflowed.
LEMMA EmitsInRange ==
  ASSUME MInv, Emit
  PROVE  ~Overflows(seg, query)
<1> SUFFICES ASSUME SumsInts PROVE \A S \in GroupsOf(seg, query) : \A r \in S :
                                     SumIn(seg, query, { x \in S : x <= r }) \in Int64
  BY DEF Overflows, SumsInts
<1>1. AtEnd /\ ~HasNaNKey /\ Scanned /\ Before = Chosen /\ \A k : InGroup(k) = SameKey(k)
  BY Ended DEF Emit
<1>2. CASE query.proj = "grouped"
  <2>1. ASSUME NEW S \in GroupsOf(seg, query) PROVE \E k \in DOMAIN groups : Holds(groups[k], S)
    <3>1. PICK l \in Leaders(seg, query) : S = GroupOf(seg, query, l)
      BY <1>2 DEF GroupsOf
    <3>2. l \in Chosen
      BY DEF Leaders, Chosen
    <3>3. S = InGroup(KeyOf(l)) /\ KeyOf(l) \in DOMAIN groups
      BY <1>1, <1>2, <3>1, <3>2, LeadersAre
    <3> QED
      BY <1>1, <1>2, <3>3 DEF Scanned
  <2> QED
    BY <2>1, HoldsStays
<1>3. CASE query.proj # "grouped"
  <2>1. query.proj = "sum" /\ GroupsOf(seg, query) = {Chosen}
    BY <1>3 DEF SumsInts, Sums, GroupsOf, Chosen
  <2>2. Holds(acc, Chosen)
    BY <1>1, <2>1 DEF Scanned
  <2> QED
    BY <2>1, <2>2, HoldsStays
<1> QED
  BY <1>2, <1>3

\* What is returned is the answer.
LEMMA EmitsRows ==
  ASSUME MInv, Emit
  PROVE  Returned = RowsOf(seg, query)
<1>1. /\ AtEnd /\ ~HasNaNKey /\ Scanned /\ Before = Chosen /\ \A k : InGroup(k) = SameKey(k)
      /\ TInv /\ Chosen \in SUBSET (1 .. seg.rows) /\ seg.rows \in Nat /\ query.proj \in ProjectionKind
  BY Ended DEF Emit, TInv, QueryTypeOK, QueryOK
<1>2. CASE query.proj \in {"count", "sum"}
  <2>1. AggregateValue(acc) = AggregateOf(seg, query, Selected(seg, query))
    BY <1>1, <1>2, HoldsMeans DEF Scanned, Chosen
  <2> QED
    BY <1>2, <2>1 DEF Returned, RowsOf
<1>3. CASE query.proj = "grouped"
  <2>1. Leaders(seg, query) = Firsts /\ DOMAIN keys = 1 .. Cardinality(Firsts)
    BY <1>1, <1>3, KeysAre, LeadersAre
  <2>2. ASSUME NEW i \in DOMAIN keys
        PROVE  LET r == InOrder(Firsts)[i]
               IN  /\ keys[i] = CellAt(seg, query.groupBy, r)
                   /\ AggregateValue(groups[Number[keys[i].type][keys[i].bits]])
                        = AggregateOf(seg, query, GroupOf(seg, query, r))
    <3>1. PICK r \in Chosen : /\ r = InOrder(Firsts)[i] /\ keys[i] = CellAt(seg, query.groupBy, r)
                              /\ Number[keys[i].type][keys[i].bits] = KeyOf(r)
      BY <1>1, <1>3, KeysAre
    <3>2. KeyOf(r) \in DOMAIN groups /\ GroupOf(seg, query, r) = InGroup(KeyOf(r))
      BY <1>1, <1>3, LeadersAre
    <3>3. Holds(groups[KeyOf(r)], InGroup(KeyOf(r)))
      BY <1>1, <1>3, <3>2 DEF Scanned
    <3>4. AggregateValue(groups[KeyOf(r)]) = AggregateOf(seg, query, GroupOf(seg, query, r))
      BY <3>2, <3>3, HoldsMeans
    <3> QED
      BY <3>1, <3>4
  <2>3. Returned = [i \in DOMAIN keys |->
                      <<keys[i], AggregateValue(groups[Number[keys[i].type][keys[i].bits]])>>]
    BY <1>3 DEF Returned
  <2>4. RowsOf(seg, query) =
          [i \in 1 .. Cardinality(Firsts) |->
             LET r == InOrder(Firsts)[i]
             IN  <<CellAt(seg, query.groupBy, r), AggregateOf(seg, query, GroupOf(seg, query, r))>>]
    BY <1>3, <2>1 DEF RowsOf
  <2> QED
    BY <2>1, <2>2, <2>3, <2>4
<1>4. CASE query.proj \in {"columns", "star"}
  <2>1. Returned = [i \in 1 .. Cardinality(Chosen) |-> CellsOf[InOrder(Chosen)[i]]]
    BY <1>1, <1>4 DEF Returned, Scanned, InTurn
  <2>2. \A i \in 1 .. Cardinality(Chosen) : InOrder(Chosen)[i] \in 1 .. seg.rows
    BY <1>1, OrderMembers
  <2>3. \A r \in 1 .. seg.rows : CellsOf[r] = [j \in DOMAIN Cols |-> CellAt(seg, Cols[j], r)]
    BY DEF CellsOf, CellOf, CellAt
  <2>4. Returned = [i \in 1 .. Cardinality(Chosen) |->
                      [j \in DOMAIN Cols |-> CellAt(seg, Cols[j], InOrder(Chosen)[i])]]
    BY <2>1, <2>2, <2>3
  <2> QED
    BY <1>4, <2>4 DEF RowsOf, Cols, Chosen
<1> QED
  BY <1>1, <1>2, <1>3, <1>4 DEF ProjectionKind

\* Emit and Panic.
LEMMA MeantEnd == MInv /\ (Emit \/ Panic) => Meaningful'
<1>1. ASSUME MInv, Emit PROVE Meaningful'
  <2>1. Faults(seg, query) = {} /\ ~Overflows(seg, query) /\ Returned = RowsOf(seg, query)
    BY <1>1, ScanFaultless, EmitsInRange, EmitsRows DEF MInv, CInv, Meaningful, Emit, AtEnd
  <2>2. /\ seg' = seg /\ query' = query /\ stage' = "done"
        /\ result' = [kind |-> "rows", rows |-> Returned]
    BY <1>1 DEF Emit, Returns, inputs
  <2>3. Meant'
    BY <2>1, <2>2 DEF Meant
  <2> QED
    BY <2>2, <2>3 DEF Meaningful, FilterChecked
<1>2. ASSUME MInv, Panic PROVE Meaningful'
  <2>1. /\ seg' = seg /\ query' = query /\ stage' = "panicked" /\ result' = NoResult
    BY <1>2 DEF Panic, inputs, MInv, Meaningful, AtEnd
  <2> QED
    BY <2>1 DEF Meaningful, FilterChecked, Meant, NoResult
<1> QED
  BY <1>1, <1>2

\* Every action keeps MInv.
LEMMA MeantStep == MInv /\ [QueryNext]_qvars => MInv'
<1>1. MInv /\ [QueryNext]_qvars => CInv' /\ SInv'
  BY CountsStep, SelectionStep DEF MInv
<1>2. MInv /\ UNCHANGED qvars => Meaningful'
  <2> SUFFICES ASSUME MInv, UNCHANGED qvars PROVE Meaningful'
    OBVIOUS
  <2>1. /\ seg' = seg /\ query' = query /\ stage' = stage /\ d' = d /\ c' = c /\ row' = row
        /\ rows' = rows /\ acc' = acc /\ keys' = keys /\ groups' = groups /\ result' = result
        /\ selection' = selection
    BY DEF qvars, inputs, where, scanned
  <2>2. FilterChecked' <=> FilterChecked
    BY <2>1 DEF FilterChecked, Evaluable, Has, Readable
  <2>3. Before' = Before /\ \A k : InGroup(k)' = InGroup(k)
    BY <2>1 DEF Before, InGroup, Picked
  <2>4. Firsts' = Firsts
    BY <2>1 DEF Firsts, Before, InGroup, Picked, KeyOf
  <2>5. Scanned => Scanned'
    BY <2>1, <2>3, <2>4, ScannedNext DEF Scanned
  <2>6. (Unscanned' <=> Unscanned) /\ (Meant' <=> Meant)
    BY <2>1 DEF Unscanned, Meant
  <2> QED
    BY <2>1, <2>2, <2>5, <2>6 DEF MInv, Meaningful
<1> QED
  BY <1>1, <1>2, MeantResolve, MeantFailComparison, MeantCompare, MeantBegin, MeantSkipRow,
     MeantProjectRow, MeantAggregateRow, MeantGroupRow, MeantSumOverflow, MeantEnd
     DEF QueryNext, MInv

LEMMA MeantInit == Called => MInv
<1> SUFFICES ASSUME Called PROVE MInv
  OBVIOUS
<1>1. /\ stage = "resolve" /\ result = NoResult /\ row = 1 /\ rows = <<>> /\ acc = NewAccumulator
      /\ keys = <<>> /\ DOMAIN groups = {}
  BY DEF Called, Fresh
<1>2. Meaningful
  BY <1>1 DEF Meaningful, FilterChecked, Unscanned, Meant, NoResult
<1> QED
  BY <1>2, CountsInit, SelectionInit DEF MInv

-----------------------------------------------------------------------------
(* The abstract specification.                                              *)

\* Relation means by its operators what Meaning does.
LEMMA SameFaults == Relation!Faults(seg, query) = Faults(seg, query)
BY DEF Relation!Faults, Relation!Mentioned, Relation!ProjectedColumns, Relation!WhereColumns,
       Relation!Disjuncts, Relation!Terms, Relation!Conjuncts, Relation!Sums, Relation!HasColumn,
       Relation!Mistyped, Relation!TypeIn, Relation!ColumnIndex,
       Faults, Mentioned, ProjectedColumns, WhereColumns, Disjuncts, Terms, Conjuncts, Sums,
       HasColumn, Mistyped, TypeIn, ColumnIndex

LEMMA SameSelected == \A s, x : Relation!Selected(s, x) = Selected(s, x)
BY DEF Relation!Selected, Relation!MeetsAll, Relation!Meets, Relation!Order, Relation!Admits,
       Relation!Value, Relation!TypeIn, Relation!ColumnIndex, Relation!HasColumn, Relation!Filtered,
       Relation!Disjuncts, Relation!Terms, Relation!Conjuncts,
       Selected, MeetsAll, Meets, Order, Admits, Value, TypeIn, ColumnIndex, HasColumn, Filtered,
       Disjuncts, Terms, Conjuncts

LEMMA SameValue ==
  /\ \A s, name, r : Relation!Value(s, name, r) = Value(s, name, r)
  /\ \A s, name, r : Relation!CellAt(s, name, r) = CellAt(s, name, r)
  /\ \A s, name : Relation!TypeIn(s, name) = TypeIn(s, name)
BY DEF Relation!Value, Relation!CellAt, Relation!TypeIn, Relation!ColumnIndex, Relation!HasColumn,
       Value, CellAt, TypeIn, ColumnIndex, HasColumn

LEMMA SameCardinality == \A S : Relation!Cardinality(S) = Cardinality(S)
BY DEF Relation!Cardinality, Cardinality

LEMMA SameOrder == \A S : Relation!InOrder(S) = InOrder(S)
<1>1. \A S, i : Relation!Ranked(S, i) = Ranked(S, i)
  BY SameCardinality DEF Relation!Ranked, Ranked
<1> QED
  BY <1>1, SameCardinality DEF Relation!InOrder, InOrder

LEMMA SameSum == \A s, x, S : Relation!SumIn(s, x, S) = SumIn(s, x, S)
BY SameValue DEF Relation!SumIn, SumIn

LEMMA SameAggregate == \A s, x, S : Relation!AggregateOf(s, x, S) = AggregateOf(s, x, S)
BY SameValue, SameCardinality, SameOrder, SameSum DEF Relation!AggregateOf, Relation!Sums, AggregateOf, Sums

LEMMA SameGroups ==
  /\ \A s, x, r : Relation!GroupOf(s, x, r) = GroupOf(s, x, r)
  /\ \A s, x : Relation!Leaders(s, x) = Leaders(s, x)
  /\ \A s, x : Relation!GroupsOf(s, x) = GroupsOf(s, x)
<1>1. \A s, x, r : Relation!GroupOf(s, x, r) = GroupOf(s, x, r)
  BY SameSelected, SameValue DEF Relation!GroupOf, Relation!Order, GroupOf, Order
<1>2. \A s, x : Relation!Leaders(s, x) = Leaders(s, x)
  BY <1>1, SameSelected DEF Relation!Leaders, Leaders
<1> QED
  BY <1>1, <1>2, SameSelected DEF Relation!GroupsOf, GroupsOf

LEMMA SameOverflows == Relation!Overflows(seg, query) <=> Overflows(seg, query)
BY SameGroups, SameSum, SameValue
   DEF Relation!Overflows, Relation!Sums, Relation!Int64, Relation!MinInt, Overflows, Sums, Int64, MinInt

LEMMA SameRows == Relation!RowsOf(seg, query) = RowsOf(seg, query)
<1>1. \A s, x : Relation!ProjectedColumns(s, x) = ProjectedColumns(s, x)
  BY DEF Relation!ProjectedColumns, ProjectedColumns
<1> QED
  BY <1>1, SameGroups, SameAggregate, SameCardinality, SameOrder, SameValue, SameSelected
     DEF Relation!RowsOf, RowsOf

\* A step answers once, with what the query means or a reason why it does not.
LEMMA AnswersOnce ==
  ASSUME MInv, MInv', [QueryNext]_qvars
  PROVE  [Relation!Answer]_<<seg, query, result>>
<1>1. seg' = seg /\ query' = query
  BY InputsStay
<1>2. CASE result' = result
  BY <1>1, <1>2
<1>3. CASE result' # result
  <2>1. result = NoResult
    <3>1. stage # "done"
      BY <1>3 DEF QueryNext, Resolve, FailComparison, Compare, BeginCount, BeginSum, BeginProject,
                  BeginGrouped, SkipRow, ProjectRow, AggregateRow, GroupRow, SumOverflow, Emit, Panic,
                  AtRow, AtEnd, qvars
    <3> QED
      BY <3>1 DEF MInv, Meaningful
  <2>2. \/ \E why : result' = [kind |-> "error", why |-> why]
        \/ \E table : result' = [kind |-> "rows", rows |-> table]
    BY <1>3 DEF QueryNext, Resolve, FailComparison, Compare, BeginCount, BeginSum, BeginProject,
                BeginGrouped, SkipRow, ProjectRow, AggregateRow, GroupRow, SumOverflow, Emit, Panic,
                AtRow, AtEnd, qvars, Fails, Returns, OpensSumColumn, Proceeds, NextRow
  <2>3. /\ result'.kind = "rows" =>
             /\ Faults(seg, query) = {} /\ ~Overflows(seg, query)
             /\ result'.rows = RowsOf(seg, query)
        /\ result'.kind = "error" =>
             \/ result'.why \in Faults(seg, query)
             \/ /\ Faults(seg, query) = {} /\ Overflows(seg, query)
                /\ result'.why = "sum overflow"
    BY <1>1 DEF MInv, Meaningful, Meant
  <2>4. \/ \E why \in Faults(seg, query) : result' = [kind |-> "error", why |-> why]
        \/ /\ Faults(seg, query) = {} /\ Overflows(seg, query)
           /\ result' = [kind |-> "error", why |-> "sum overflow"]
        \/ /\ Faults(seg, query) = {} /\ ~Overflows(seg, query)
           /\ result' = [kind |-> "rows", rows |-> RowsOf(seg, query)]
    <3>1. CASE \E why : result' = [kind |-> "error", why |-> why]
      <4>1. PICK why : result' = [kind |-> "error", why |-> why]
        BY <3>1
      <4>2. result'.kind = "error" /\ result'.why = why
        BY <4>1
      <4> QED
        BY <2>3, <4>1, <4>2
    <3>2. CASE \E table : result' = [kind |-> "rows", rows |-> table]
      <4>1. PICK table : result' = [kind |-> "rows", rows |-> table]
        BY <3>2
      <4>2. result'.kind = "rows" /\ result'.rows = table
        BY <4>1
      <4> QED
        BY <2>3, <4>1, <4>2
    <3> QED
      BY <2>2, <3>1, <3>2
  <2> QED
    BY <1>1, <2>1, <2>4, SameFaults, SameOverflows, SameRows
       DEF Relation!Answer, Relation!Error, Relation!Table, Relation!Unanswered, NoResult
<1> QED
  BY <1>2, <1>3

\* The executor implements the abstract specification: whatever the segment
\* and the query, Execute answers at most once, and then with the relational
\* meaning of the query, or with an error that applies to it.
THEOREM QueryImplements == QuerySpec => ImplementsRelation
<1>1. QueryInit => Relation!Init
  BY DEF QueryInit, Fresh, NoResult, Relation!Init, Relation!Unanswered
<1>2. QuerySpec => []MInv
  BY InitCalled, MeantInit, MeantStep, PTL DEF QuerySpec
<1>3. MInv /\ MInv' /\ [QueryNext]_qvars => [Relation!Answer]_<<seg, query, result>>
  BY AnswersOnce
<1> QED
  BY <1>1, <1>2, <1>3, PTL DEF QuerySpec, ImplementsRelation, Relation!Spec
=============================================================================
