---------------------------- MODULE QuerySyntax ----------------------------
(***************************************************************************)
(* The parsed form of a query (query/parser.go Query, FilterExpr), which   *)
(* the parser builds and the executor reads.                               *)
(***************************************************************************)
EXTENDS Types

FilterOp == {"=", "!=", "<", ">", "<=", ">="}
Literal  == [type : ColumnType, bits : Bits]

\* WHERE expressions: one comparison, or an AND of comparisons, or an OR of
\* those; "none" where the query has no WHERE.
Comparison == [kind : {"cmp"}, col : Names, op : FilterOp, lit : Literal]
And(kids)  == [kind |-> "and", kids |-> kids]
Or(kids)   == [kind |-> "or", kids |-> kids]
NoFilterExpr == [kind |-> "none"]

Conjuncts(e) == IF e.kind = "and" THEN e.kids ELSE <<e>>
Disjuncts(e) ==
  CASE e.kind = "none" -> <<>>
    [] e.kind = "or"   -> e.kids
    [] OTHER           -> <<e>>
Terms(q, d) == Conjuncts(Disjuncts(q.where)[d])

Filtered(q) == q.where.kind # "none"

ProjectionKind == {"columns", "star", "count", "sum", "grouped"}
Aggregate      == {"count", "sum"}

\* sumCol and groupBy mean something only where proj and agg use them.
QueryOK(q) ==
  /\ q.proj \in ProjectionKind /\ q.agg \in Aggregate
  /\ q.cols \in Seq(Names) /\ q.sumCol \in Names /\ q.groupBy \in Names
  /\ Disjuncts(q.where) \in Seq(Comparison \cup [kind : {"and"}, kids : Seq(Comparison)])
  /\ Filtered(q) <=> Disjuncts(q.where) # <<>>
  /\ \A d \in DOMAIN Disjuncts(q.where) : Terms(q, d) # <<>>

Sums(q) == q.proj = "sum" \/ (q.proj = "grouped" /\ q.agg = "sum")
=============================================================================
