------------------------------- MODULE Types -------------------------------
(***************************************************************************)
(* The type system of the engine (storage/types.go): columns, schemas and  *)
(* the dynamically typed cells of a row.                                   *)
(*                                                                         *)
(* A Go value of type `any` is a tagged record: the tag is the concrete    *)
(* type Go's type assertions look at, `bits` stands for the canonical      *)
(* bytes of the value.  Within one type, two values have the same `bits`   *)
(* exactly when they have the same bytes.                                  *)
(***************************************************************************)
EXTENDS Naturals, Sequences

CONSTANTS
  Names,      \* column names
  EmptyName,  \* the empty string, a legal column name in the library API
  Bits        \* canonical byte strings of values

ASSUME NameAssumption == EmptyName \in Names

\* The three column types; ColumnType is a uint8 in the code, so a schema can
\* also declare a value outside 1..3, which Validate does not look at.
ColumnType   == {"int64", "float64", "string"}
DeclaredType == ColumnType \cup {"unknown"}

\* What an `any` cell can hold: a value of a column type, nil, or a value of
\* some other Go type ("other").
CellType == ColumnType \cup {"nil", "other"}

Column == [name : Names, type : DeclaredType]
Cell   == [type : CellType, bits : Bits]
Row    == Seq(Cell)
Schema == [PK : Names, Columns : Seq(Column)]

HasDuplicateColumn(s) ==
  \E i, j \in DOMAIN s.Columns :
    i # j /\ s.Columns[i].name = s.Columns[j].name

HasColumn(s, name) == \E i \in DOMAIN s.Columns : s.Columns[i].name = name

\* The first structural error of a schema, in the order the code looks for
\* them, or "ok".  The column loop runs to its end before the key is looked up.
Validate(s) ==
  CASE Len(s.Columns) = 0 -> "ErrNoColumns"
    [] Len(s.Columns) # 0 /\ HasDuplicateColumn(s) -> "ErrDuplicateColumn"
    [] /\ Len(s.Columns) # 0
       /\ ~HasDuplicateColumn(s)
       /\ ~HasColumn(s, s.PK) -> "ErrPKNotFound"
    [] OTHER -> "ok"

\* Position of the first column called `name`.  The code counts from 0 and
\* returns -1 when there is none; here positions count from 1 and 0 is "none".
ColumnIndex(s, name) ==
  IF HasColumn(s, name)
  THEN CHOOSE i \in DOMAIN s.Columns :
         /\ s.Columns[i].name = name
         /\ \A j \in 1 .. (i - 1) : s.Columns[j].name # name
  ELSE 0

PKIndex(s) == ColumnIndex(s, s.PK)
=============================================================================
