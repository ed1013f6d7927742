----------------------------- MODULE RunLength -----------------------------
(***************************************************************************)
(* The two column encodings: runs (storage/rle.go) and raw                 *)
(* (storage/encoding.go).  A payload is a sequence of cells: a fixed-width *)
(* value or a uvarint is one cell, a string of n characters n cells.  A    *)
(* cell cut short and a missing cell are refused by the same test, so      *)
(* cells are as fine as truncation needs.  Floats are their bit patterns:  *)
(* encodeRLEFloat64 compares bits, not numbers.                            *)
(***************************************************************************)
EXTENDS Naturals, Sequences

ColumnType == {"int64", "float64", "string"}

\* The values of a column: a string is the sequence of its characters.
Values(type) == IF type = "string" THEN Seq(Nat) ELSE Nat

\* How one value is framed: strings carry their length.
Frame(type, v) == IF type = "string" THEN <<Len(v)>> \o v ELSE <<v>>

\* Where the run that starts behind the first i values ends.
RunEnd(vals, i) ==
  CHOOSE j \in (i + 1) .. Len(vals) :
    /\ \A l \in (i + 1) .. j : vals[l] = vals[i + 1]
    /\ j = Len(vals) \/ vals[j + 1] # vals[i + 1]

\* An encoding in progress: values encoded, cells written.
Unencoded == [i |-> 0, out |-> <<>>]

\* One turn of the loop of encodeRLE*: a (count, value) pair for a run.
EncodeRun(type, vals, st) ==
  IF st.i >= Len(vals) THEN st
  ELSE LET j == RunEnd(vals, st.i)
       IN  [i |-> j, out |-> st.out \o <<j - st.i>> \o Frame(type, vals[st.i + 1])]

\* The encoding after n turns.
EncodeTurns(type, vals) ==
  LET turns[n \in Nat] ==
        IF n = 0 THEN Unencoded ELSE EncodeRun(type, vals, turns[n - 1])
  IN  turns

\* Every turn encodes a value or more.
EncodeRLE(type, vals) == EncodeTurns(type, vals)[Len(vals)].out

\* The value framed at offset off (off cells have been consumed).
ValueMissing(type, data, off) ==
  IF type = "string"
  THEN off >= Len(data) \/ data[off + 1] > Len(data) - (off + 1)
  ELSE off >= Len(data)

ValueAt(type, data, off) ==
  IF type = "string"
  THEN SubSeq(data, off + 2, off + 1 + data[off + 1])
  ELSE data[off + 1]

ValueEnd(type, data, off) == off + Len(Frame(type, ValueAt(type, data, off)))

\* A decoding in progress: offset, rows produced, no error so far?
Start  == [off |-> 0, out |-> <<>>, ok |-> TRUE]

\* Mutant of Finish: a decoding that stops short of the rows is let through.
FinishAny(st, rows) == [ok |-> st.ok, out |-> st.out]

Finish(st, rows) == [ok |-> st.ok /\ Len(st.out) = rows, out |-> st.out]

\* One turn of the loop of decodeRLE*.
DecodeRun(type, data, rows, st) ==
  IF ~st.ok \/ st.off >= Len(data) THEN st
  ELSE LET count == data[st.off + 1]
           value == st.off + 1
       IN  IF ValueMissing(type, data, value) \/ count > rows - Len(st.out)
           THEN [st EXCEPT !.ok = FALSE]
           ELSE [ok  |-> TRUE, off |-> ValueEnd(type, data, value),
                 out |-> st.out \o [ j \in 1 .. count |-> ValueAt(type, data, value) ]]

\* Every turn consumes a cell or more.
DecodeTurns(type, data, rows) ==
  LET turns[n \in Nat] ==
        IF n = 0 THEN Start ELSE DecodeRun(type, data, rows, turns[n - 1])
  IN  turns

DecodeRLE(type, data, rows) == Finish(DecodeTurns(type, data, rows)[Len(data)], rows)

\* One turn of the loop of decodeRawString.  For the fixed-width types the
\* length test the code makes up front is the one Finish makes.
DecodeOne(type, data, rows, st) ==
  IF ~st.ok \/ st.off >= Len(data) THEN st
  ELSE IF Len(st.out) >= rows \/ ValueMissing(type, data, st.off)
       THEN [st EXCEPT !.ok = FALSE]
       ELSE [ok  |-> TRUE, off |-> ValueEnd(type, data, st.off),
             out |-> Append(st.out, ValueAt(type, data, st.off))]

RawTurns(type, data, rows) ==
  LET turns[n \in Nat] ==
        IF n = 0 THEN Start ELSE DecodeOne(type, data, rows, turns[n - 1])
  IN  turns

DecodeRaw(type, data, rows) == Finish(RawTurns(type, data, rows)[Len(data)], rows)
=============================================================================
