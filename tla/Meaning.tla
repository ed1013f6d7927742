------------------------------ MODULE Meaning ------------------------------
(***************************************************************************)
(* What a query means on a segment: its answer, as an expression over the  *)
(* set of selected rows, and the reasons why it may have none.             *)
(***************************************************************************)
EXTENDS QueryData

\* The members of a set of rows in their order: the i-th has i of them up to it.
Ranked(S, i) == { r \in S : Cardinality({ x \in S : x <= r }) = i }
InOrder(S) == [i \in 1 .. Cardinality(S) |-> CHOOSE r \in Ranked(S, i) : TRUE]

CellAt(s, name, r) == [type |-> TypeIn(s, name), bits |-> s.data[name][r]]

\* The sum of a column over some rows, row by row.
SumIn(s, q, S) ==
  LET upTo[r \in 0 .. s.rows] ==
        IF r = 0 THEN 0
        ELSE upTo[r - 1] + (IF r \in S THEN Value(s, q.sumCol, r) ELSE 0)
  IN  upTo[s.rows]

\* The aggregate of some rows.  A float64 sum depends on the order of its
\* addends: it is given as that order.
AggregateOf(s, q, S) ==
  CASE ~Sums(q) -> [count |-> Cardinality(S)]
    [] Sums(q) /\ TypeIn(s, q.sumCol) = "int64" -> [sum |-> SumIn(s, q, S)]
    [] OTHER -> [addends |-> [i \in 1 .. Cardinality(S) |-> s.data[q.sumCol][InOrder(S)[i]]]]

\* NaN equals no value, itself included: such a row is a group by itself.
GroupOf(s, q, r) ==
  {r} \cup { x \in Selected(s, q) :
               Order(Value(s, q.groupBy, x), Value(s, q.groupBy, r)) = "equal" }
Leaders(s, q) == { r \in Selected(s, q) : \A x \in GroupOf(s, q, r) : r <= x }

GroupsOf(s, q) ==
  IF q.proj = "grouped" THEN { GroupOf(s, q, r) : r \in Leaders(s, q) } ELSE {Selected(s, q)}

RowsOf(s, q) ==
  CASE q.proj \in {"count", "sum"} -> << <<AggregateOf(s, q, Selected(s, q))>> >>
    [] q.proj = "grouped" ->
         [i \in 1 .. Cardinality(Leaders(s, q)) |->
            LET r == InOrder(Leaders(s, q))[i]
            IN  <<CellAt(s, q.groupBy, r), AggregateOf(s, q, GroupOf(s, q, r))>>]
    [] OTHER ->
         [i \in 1 .. Cardinality(Selected(s, q)) |->
            [j \in DOMAIN ProjectedColumns(s, q) |->
               CellAt(s, ProjectedColumns(s, q)[j], InOrder(Selected(s, q))[i])]]

\* Why a query has no meaning on a segment.
Mistyped(s, q) ==
  \/ \E i \in DOMAIN Disjuncts(q.where) : \E j \in DOMAIN Terms(q, i) :
       LET e == Terms(q, i)[j] IN HasColumn(s, e.col) /\ e.lit.type # TypeIn(s, e.col)
  \/ Sums(q) /\ HasColumn(s, q.sumCol) /\ TypeIn(s, q.sumCol) = "string"

Faults(s, q) ==
  { why \in {"unknown column", "type mismatch", "unreadable"} :
      CASE why = "unknown column" -> \E name \in Mentioned(s, q) : ~HasColumn(s, name)
        [] why = "type mismatch"  -> Mistyped(s, q)
        [] why = "unreadable"     ->
             \E name \in Mentioned(s, q) : HasColumn(s, name) /\ s.data[name] = Undecodable }

\* A running int64 sum, in row order, leaves the range.
Overflows(s, q) ==
  /\ Sums(q) /\ TypeIn(s, q.sumCol) = "int64"
  /\ \E S \in GroupsOf(s, q) : \E r \in S : SumIn(s, q, { x \in S : x <= r }) \notin Int64
=============================================================================
