------------------------------ MODULE MCQuery ------------------------------
(***************************************************************************)
(* Instances of Query for TLC: three rows of an int64, a float64 and a     *)
(* string column, int64 being -4 .. 3.                                     *)
(***************************************************************************)
EXTENDS Query, TLC

MCNames == {"", "k", "f", "s"}
MCBits  == 0 .. 4

\* The edges of int64, zero, and values that cross zero when summed; two NaNs
\* and the two zeros of float64.
MCNumber == [
  int64   |-> [b \in MCBits |-> <<-4, -1, 0, 1, 3>>[b + 1]],
  float64 |-> [b \in MCBits |-> <<NaN, 0, 0, 1, NaN>>[b + 1]],
  string  |-> [b \in MCBits |-> b] ]

MCColumns == << [name |-> "k", type |-> "int64"], [name |-> "f", type |-> "float64"],
                [name |-> "s", type |-> "string"] >>

\* A segment from the contents of its columns.
SegmentWith(kbits, fbits, sbits) ==
  [PK |-> "k", Columns |-> MCColumns, rows |-> Len(kbits),
   data |-> ("" :> <<>>) @@ ("k" :> kbits) @@ ("f" :> fbits) @@ ("s" :> sbits)]
Triples == { <<x, y, z>> : x, y, z \in MCBits }
Distinct == <<0, 2, 4>>

Broken(name) == [SegmentWith(Distinct, Distinct, Distinct) EXCEPT !.data[name] = Undecodable]

MCSegments ==
  { SegmentWith(t, Distinct, <<t[3], t[2], t[1]>>) : t \in Triples } \cup
  { SegmentWith(<<3, 1, 3>>, <<x, y, z>>, <<1, 2, 1>>) : x, y, z \in {0, 1, 2, 3} } \cup
  { SegmentWith(<<>>, <<>>, <<>>), SegmentWith(<<4>>, <<1>>, <<0>>) } \cup
  { Broken(name) : name \in {"k", "f", "s"} }

Cmp(col, op, t, b) ==
  [kind |-> "cmp", col |-> col, op |-> op, lit |-> [type |-> t, bits |-> b]]

\* Every operator on every type, AND, OR and both, and each way to go wrong.
Kp  == Cmp("k", ">", "int64", 2)
Fp  == Cmp("f", "<=", "float64", 3)
Sp  == Cmp("s", "!=", "string", 1)
MCWheres ==
  {NoFilterExpr} \cup
  { Cmp("k", op, "int64", 2) : op \in FilterOp } \cup
  { Cmp("f", op, "float64", 2) : op \in FilterOp } \cup
  { And(<<Kp, Sp>>), Or(<<Sp, Fp, Kp>>), Or(<<And(<<Kp, Fp>>), Sp>>),
    Or(<<Kp, And(<<Fp, Sp>>)>>), And(<<Kp, Sp, Fp>>),
    Cmp("k", "=", "string", 1), Or(<<Kp, Cmp("", "=", "int64", 1)>>),
    Cmp("s", "<", "string", 2) }

Star == [proj |-> "star", cols |-> <<>>, sumCol |-> "", groupBy |-> "", agg |-> "count",
         where |-> NoFilterExpr]
Columns(cols) == [Star EXCEPT !.proj = "columns", !.cols = cols]
SumQ(col) == [Star EXCEPT !.proj = "sum", !.sumCol = col]
CountBy(col) == [Star EXCEPT !.proj = "grouped", !.groupBy = col]
SumBy(col, by) == [CountBy(by) EXCEPT !.agg = "sum", !.sumCol = col]

Count == [Star EXCEPT !.proj = "count"]
Projections ==
  { Star, Columns(<<"s", "k", "s">>), SumQ("k"), SumQ("f"), CountBy("k"), SumBy("k", "s"), Columns(<<"s", "">>), SumQ("s"), SumQ(""), CountBy(""), CountBy("s"),
    SumBy("", "k"), SumBy("s", "k"), SumBy("f", "k"), SumBy("k", "k") }

MCQueries ==
  { [Count EXCEPT !.where = e] : e \in MCWheres } \cup
  { [x EXCEPT !.where = e] : x \in Projections, e \in {NoFilterExpr, Kp, Or(<<Kp, And(<<Fp, Sp>>)>>)} } \cup
  { CountBy("f"), SumBy("k", "f") }

\* Grouping by a float64 column.
MCNaNQueries == { CountBy("f") }
=============================================================================
