--------------------------- MODULE MCQueryCommand ---------------------------
(***************************************************************************)
(* An instance of QueryCommand for TLC: three rows of an int64, a string   *)
(* and a float64 column; statements of every projection, some of which the *)
(* parser or the executor refuses.                                         *)
(***************************************************************************)
EXTENDS QueryCommand, TLC

MCNames == {"", "k", "s", "f", "x"}
MCBits  == 0 .. 2

MCNumber == [
  int64   |-> [b \in MCBits |-> <<-4, 1, 3>>[b + 1]],
  float64 |-> [b \in MCBits |-> <<NaN, 0, 1>>[b + 1]],
  string  |-> [b \in MCBits |-> b] ]

SegmentWith(kbits, sbits) ==
  [PK |-> "k", rows |-> Len(kbits),
   Columns |-> << [name |-> "k", type |-> "int64"], [name |-> "s", type |-> "string"],
                  [name |-> "f", type |-> "float64"] >>,
   data |-> ("k" :> kbits) @@ ("s" :> sbits) @@ ("f" :> sbits) @@ ("" :> <<>>) @@ ("x" :> <<>>)]

MCSegments == {
  SegmentWith(<<0, 1, 2>>, <<1, 2, 1>>), SegmentWith(<<2, 1, 0>>, <<0, 0, 1>>),
  SegmentWith(<<>>, <<>>),
  [SegmentWith(<<0, 1, 2>>, <<1, 1, 1>>) EXCEPT !.data["s"] = Undecodable] }

Cmp(col, op, t, b) ==
  [kind |-> "cmp", col |-> col, op |-> op, lit |-> [type |-> t, bits |-> b]]
C1 == Cmp("k", "<=", "int64", 1)
C2 == Cmp("s", "=", "string", 1)
C3 == Cmp("k", "!=", "int64", 0)

Columns(cols) == [EmptyQuery EXCEPT !.cols = cols]
By(col) == [Columns(<<col>>) EXCEPT !.proj = "grouped", !.groupBy = col]
MCGrammar ==
  { [x EXCEPT !.where = e] :
      x \in { [EmptyQuery EXCEPT !.proj = "star"], [EmptyQuery EXCEPT !.proj = "count"],
              [EmptyQuery EXCEPT !.proj = "sum", !.sumCol = "k"],
              Columns(<<"s", "k">>), Columns(<<"x">>),
              By("s"), [By("s") EXCEPT !.agg = "sum", !.sumCol = "k"], By("f") },
      e \in { NoFilterExpr, C1, Or(<<C2, And(<<C1, C3>>)>>),
              Cmp("k", ">", "string", 1) } }

\* The statements, and each of them with a HAVING, without its last token, or
\* without its last three, which may be its GROUP BY.
MCInputs ==
  Sentences \cup { s \o Sym("HAVING") : s \in Sentences } \cup
  UNION { { SubSeq(s, 1, Len(s) - 1), SubSeq(s, 1, Len(s) - 3) } : s \in Sentences }

CommandLine == [flags |-> "ok", db |-> "given", sqls |-> 1, format |-> "table", limit |-> 2]
MCCommands == {
  CommandLine, [CommandLine EXCEPT !.limit = 0], [CommandLine EXCEPT !.limit = 1],
  [CommandLine EXCEPT !.format = "csv"], [CommandLine EXCEPT !.format = "unknown"],
  [CommandLine EXCEPT !.flags = "unparsable"], [CommandLine EXCEPT !.db = "empty"],
  [CommandLine EXCEPT !.sqls = 0], [CommandLine EXCEPT !.sqls = 2] }
=============================================================================
