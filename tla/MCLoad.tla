------------------------------- MODULE MCLoad -------------------------------
(***************************************************************************)
(* An instance of Load for TLC: one output path, an int64 key and a string *)
(* column, two keys whose second is a false positive after the first.      *)
(***************************************************************************)
EXTENDS Load, TLC

MCNames == {"", "id", "v"}
MCBits  == 0 .. 2

\* Keys 0 and 1 together cover the bits of key 2.
MCH1 == [k \in MCBits |-> IF k = 1 THEN 13 ELSE 0]
MCH2 == [k \in MCBits |-> CASE k = 0 -> 1 [] k = 1 -> 5 [] OTHER -> 2]
MCOptimalM == [n \in 1 .. MaxItems |-> [p \in 1 .. 99 |-> 3]]

id == [name |-> "id", type |-> "int64"]
v  == [name |-> "v", type |-> "string"]
On  == [BloomDisabled |-> FALSE, BloomExpectedItems |-> 1, BloomTargetFPR |-> 1]
Off == [On EXCEPT !.BloomDisabled = TRUE]
None == [On EXCEPT !.BloomExpectedItems = 0]
MCOptions == {On, Off, None}

Good == [flags |-> "ok", spec |-> <<v, id>>, pk |-> "id", option |-> On,
         out |-> CHOOSE p \in Paths : TRUE]
MCArguments == {
  Good,
  [Good EXCEPT !.option = Off], [Good EXCEPT !.option = None],
  [Good EXCEPT !.flags = "missing"], [Good EXCEPT !.flags = "unparsable"],
  [Good EXCEPT !.pk = ""],
  [Good EXCEPT !.pk = "", !.spec = <<[name |-> "", type |-> "int64"]>>], [Good EXCEPT !.spec = <<v>>],
  [Good EXCEPT !.spec = <<>>], [Good EXCEPT !.spec = <<id, id>>],
  [Good EXCEPT !.spec = <<id, [name |-> "", type |-> "string"]>>],
  [Good EXCEPT !.spec = <<id, [name |-> "v", type |-> "unknown"]>>] }

MCSchemas == { sch(w) : w \in MCArguments }

Text(n) == [int64 |-> NoValue, float64 |-> NoValue, string |-> n]
Number(n) == [int64 |-> n, float64 |-> n, string |-> n]
Rec(fields) == [kind |-> "record", fields |-> fields]
Items == { Rec(<<Number(n), Text(0)>>) : n \in MCBits } \cup
         { Rec(<<Text(1), Text(2)>>), Rec(<<Number(1)>>), [kind |-> "error"] }

MCInputs ==
  { [opens |-> TRUE, header |-> <<"id", "v">>, items |-> s, broken |-> x] :
      s \in UNION { [1 .. n -> Items] : n \in 0 .. MaxInserts }, x \in BOOLEAN } \cup
  { [opens |-> FALSE, header |-> <<>>, items |-> <<>>, broken |-> FALSE],
    [opens |-> TRUE, header |-> <<>>, items |-> <<>>, broken |-> TRUE],
    [opens |-> TRUE, header |-> <<"id", "id">>, items |-> <<>>, broken |-> FALSE],
    [opens |-> TRUE, header |-> <<"v", "id", "v">>, broken |-> FALSE,
     items |-> <<Rec(<<Text(0), Number(1), Text(1)>>), Rec(<<Text(0), Number(0)>>)>>] }

MCRows == { <<[type |-> "string", bits |-> s], [type |-> "int64", bits |-> n]>> :
              s \in MCBits, n \in MCBits }

\* An earlier output, written by an earlier version of the program.
MCForeign == { [kind |-> "segment", version |-> 1, pkName |-> "", Columns |-> <<id>>,
                cols |-> << <<1>> >>, rows |-> 1, bloom |-> NoFilter] }
=============================================================================
