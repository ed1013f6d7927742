---------------------------- MODULE WriteBuffer ----------------------------
(***************************************************************************)
(* The column-major append buffer of storage/buffer.go.  The three typed   *)
(* slice maps are one sequence of columns, each the sequence of canonical    *)
(* bytes held there: the type of a slice is its column's type.             *)
(* A column of unknown type has no slice in the code; it is never appended *)
(* to, so it is an empty sequence here.                                    *)
(***************************************************************************)
EXTENDS Types

Buffer == [cols : Seq(Seq(Bits)), rows : Nat]

\* Mutant of NewWriteBuffer: the slices are not made.
NewWriteBufferEmpty(s) == [cols |-> <<>>, rows |-> 0]

NewWriteBuffer(s) ==
  [cols |-> [i \in 1 .. Len(s.Columns) |-> <<>>], rows |-> 0]

\* A cell that Append refuses for a column: nil, a column of unknown type, or
\* a value of another concrete type.
BadCell(c, v) == v.type = "nil" \/ c.type = "unknown" \/ v.type # c.type

\* Append's checks, all made before the first slice changes.
AppendFails(s, row) ==
  \/ Len(row) # Len(s.Columns)
  \/ \E i \in DOMAIN s.Columns : BadCell(s.Columns[i], row[i])

\* Mutant of BufferAppend: the last of several columns is left out.
AppendForgetsLast(buf, row) ==
  [cols |-> [i \in 1 .. Len(buf.cols) |->
               IF i > 1 /\ i = Len(row) THEN buf.cols[i]
               ELSE Append(buf.cols[i], row[i].bits)],
   rows |-> buf.rows + 1]

\* The second loop of Append, for a row that passed the checks.
BufferAppend(buf, row) ==
  [cols |-> [i \in 1 .. Len(buf.cols) |-> Append(buf.cols[i], row[i].bits)],
   rows |-> buf.rows + 1]
=============================================================================
