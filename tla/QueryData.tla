----------------------------- MODULE QueryData -----------------------------
(***************************************************************************)
(* What the query package works on: segments as the executor sees them     *)
(* (storage.Segment: a schema, a row count, columns that decode or do      *)
(* not), the values in them, and the meaning of a WHERE condition.         *)
(***************************************************************************)
EXTENDS QuerySyntax, Integers, FiniteSets

CONSTANTS
  MaxInt,       \* math.MaxInt64
  Number,       \* the value of some bits, for each column type
  NaN,          \* the value of a float64 that is not a number
  Undecodable,  \* a column whose payload ReadColumn refuses
  Segments,     \* segments the executor is run on
  Queries       \* queries it is given

MinInt == -MaxInt - 1
Int64  == MinInt .. MaxInt

\* Strings are numbered in their order, so that values of any type compare
\* as numbers.  The two zeros of float64 have different bits and one value.
ASSUME NumberAssumption ==
  /\ MaxInt \in Nat
  /\ Number \in [ColumnType -> [Bits -> Int \cup {NaN}]]
  /\ NaN \notin Int
  /\ \A b \in Bits : Number["int64"][b] \in Int64 /\ Number["string"][b] \in Int
  /\ \A a, b \in Bits, t \in {"int64", "string"} : Number[t][a] = Number[t][b] => a = b

\* The type of a column that a segment has, and the value in one of its rows.
TypeIn(s, name) == s.Columns[ColumnIndex(s, name)].type
Value(s, name, r) == Number[TypeIn(s, name)][s.data[name][r]]

\* A segment that opened.  A column that decodes has as many values as the
\* header has rows (SegmentProofs!ColumnsAligned).
SegmentOK(s) ==
  /\ s \in [PK : Names, Columns : Seq(Column), rows : Nat,
            data : [Names -> Seq(Bits) \cup {Undecodable}]]
  /\ ~HasDuplicateColumn(s)
  /\ \A i \in DOMAIN s.Columns : s.Columns[i].type \in ColumnType
  /\ \A name \in Names :
       HasColumn(s, name) /\ s.data[name] # Undecodable => Len(s.data[name]) = s.rows

ASSUME QueryAssumption ==
  /\ \A s \in Segments : SegmentOK(s)
  /\ \A x \in Queries : QueryOK(x)

-----------------------------------------------------------------------------
(* What a condition means: values are ordered, but for NaN, and an operator *)
(* admits some outcomes of a comparison.                                    *)

Order(a, b) ==
  CASE NaN \in {a, b}         -> "unordered"
    [] NaN \notin {a, b} /\ a < b -> "less"
    [] NaN \notin {a, b} /\ a = b -> "equal"
    [] OTHER                  -> "greater"

Admits(op) ==
  CASE op = "="  -> {"equal"}
    [] op = "!=" -> {"less", "greater", "unordered"}
    [] op = "<"  -> {"less"}
    [] op = ">"  -> {"greater"}
    [] op = "<=" -> {"less", "equal"}
    [] op = ">=" -> {"greater", "equal"}

\* The rows of a segment that meet one comparison, one disjunct, a WHERE.
Meets(s, e) ==
  { r \in 1 .. s.rows :
      Order(Value(s, e.col, r), Number[e.lit.type][e.lit.bits]) \in Admits(e.op) }
MeetsAll(s, terms) == { r \in 1 .. s.rows : \A i \in DOMAIN terms : r \in Meets(s, terms[i]) }
Selected(s, q) ==
  { r \in 1 .. s.rows :
      Filtered(q) => \E d \in DOMAIN Disjuncts(q.where) : r \in MeetsAll(s, Terms(q, d)) }

-----------------------------------------------------------------------------
\* The columns of the projection, of the WHERE, and all that a query names.
ProjectedColumns(s, q) ==
  CASE q.proj = "columns" -> q.cols
    [] q.proj = "star"    -> [i \in DOMAIN s.Columns |-> s.Columns[i].name]
    [] q.proj = "sum"     -> <<q.sumCol>>
    [] OTHER              -> <<>>

WhereColumns(q) ==
  { x \in Names : \E d \in DOMAIN Disjuncts(q.where) :
                   \E c \in DOMAIN Terms(q, d) : Terms(q, d)[c].col = x }

Mentioned(s, q) ==
  { ProjectedColumns(s, q)[i] : i \in DOMAIN ProjectedColumns(s, q) }
  \cup WhereColumns(q)
  \cup { x \in {q.groupBy} : q.proj = "grouped" }
  \cup { x \in {q.sumCol} : Sums(q) }
=============================================================================
