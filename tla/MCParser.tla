------------------------------ MODULE MCParser ------------------------------
(***************************************************************************)
(* An instance of Parser for TLC: sentences of the grammar with up to three*)
(* columns and three conditions, cut off anywhere or with one token        *)
(* deleted, inserted or replaced.                                          *)
(***************************************************************************)
EXTENDS Parser, TLC

MCNames == {"", "a", "b"}
MCBits  == {0, 1}

Cmp(col, op, t, b) ==
  [kind |-> "cmp", col |-> col, op |-> op, lit |-> [type |-> t, bits |-> b]]
C1 == Cmp("a", "=", "int64", 0)
C2 == Cmp("b", "<=", "string", 1)
C3 == Cmp("a", "!=", "float64", 1)

Wheres == {
  C2, And(<<C1, C2>>), Or(<<C1, C2>>),
  And(<<C1, C2, C3>>), Or(<<C1, C2, C3>>),
  Or(<<And(<<C1, C2>>), C3>>), Or(<<C1, And(<<C2, C3>>)>>),
  Or(<<And(<<C1, C2>>), And(<<C3, C1>>)>>) }

With(x, e) == [x EXCEPT !.where = e]
Columns(cols) == [EmptyQuery EXCEPT !.cols = cols]
Star  == [EmptyQuery EXCEPT !.proj = "star"]
ByA   == [Columns(<<"a">>) EXCEPT !.proj = "grouped", !.groupBy = "a"]
Projections == {
  Star, [EmptyQuery EXCEPT !.proj = "count"],
  [EmptyQuery EXCEPT !.proj = "sum", !.sumCol = "a"],
  Columns(<<"a">>), Columns(<<"b", "a">>), Columns(<<"a", "b", "a">>),
  ByA, [ByA EXCEPT !.agg = "sum", !.sumCol = "b"] }

MCGrammar == Projections \cup
  { With(x, e) : x \in Projections, e \in {C1, Or(<<C2, C3>>)} } \cup
  { With(x, e) : x \in {Star, ByA}, e \in Wheres }

\* One token of each kind, and a number out of range.
Alphabet ==
  { [kind |-> k, text |-> k] : k \in Keyword \cup Punctuation } \cup
  { [kind |-> "ident", text |-> "b"], [kind |-> "op", text |-> "<"],
    [kind |-> "int64", text |-> 1], [kind |-> "float64", text |-> OutOfRange],
    [kind |-> "string", text |-> 0] }

\* Those sentences that are edited: each projection and each WHERE once.
Base == { Sentence(x) : x \in
          { y \in MCGrammar : y.where = NoFilterExpr \/ y.where = C1 \/
                              (y.proj = "grouped" /\ y.agg = "count") } }

Cut(s)     == { SubSeq(s, 1, n) : n \in 0 .. Len(s) }
Deleted(s) == { RemoveAt(s, i) : i \in 1 .. Len(s) }
Replaced(s) == { ReplaceAt(s, i, t) : i \in 1 .. Len(s), t \in Alphabet }
Inserted(s) == { InsertAt(s, i, t) : i \in 1 .. (Len(s) + 1), t \in Alphabet }

MCInputs == { Sentence(x) : x \in MCGrammar } \cup
  UNION { Cut(s) \cup Deleted(s) \cup Replaced(s) \cup Inserted(s) : s \in Base }
=============================================================================
