--------------------------- MODULE MCSegmentFile ---------------------------
(***************************************************************************)
(* An instance of SegmentFile for TLC.  Names and strings are sequences of *)
(* numbers; the two magics are numbers that nothing else in a file is.     *)
(***************************************************************************)
EXTENDS SegmentFile

a == <<7>>
b == <<8, 9>>
IntCol(n) == [name |-> n, type |-> "int64"]
FltCol(n) == [name |-> n, type |-> "float64"]
StrCol(n) == [name |-> n, type |-> "string"]

Ints    == { <<>>, <<4>>, <<4, 4, 5>>, <<4, 5, 4>>, <<0, 0, 0>> }
Strings == { <<>>, << <<>> >>, << <<1>>, <<1>>, <<>> >>, << <<>>, <<2, 1>>, <<2>> >> }
Pairs   == { p \in Ints \X Strings : Len(p[1]) = Len(p[2]) }

\* No filter, one with a full last byte, and one with a partly used one.
Filters == { NoFilter, [m |-> 8, k |-> 30, nAdded |-> 0, bits |-> <<0>>],
             [m |-> 9, k |-> 1, nAdded |-> 2, bits |-> <<5, 1>>] }

TableOf(pk, cs, cols, f) == [PK |-> pk, Columns |-> cs, cols |-> cols, bloom |-> f]

MCTables ==
  { TableOf(pk, <<IntCol(a), StrCol(b)>>, p, f) : pk \in {<<>>, a}, p \in Pairs, f \in Filters }
  \cup { TableOf(<<>>, <<FltCol(<<>>)>>, <<c>>, NoFilter) : c \in Ints }

-----------------------------------------------------------------------------
(* Files of other programs: v1 files, files of a later writer with more     *)
(* flags, and one file for each reason a reader has to refuse one.          *)

Head2(count, rows) == <<segmentMagic, 2, count, rows>>
Col(n, wire, enc, payload) == <<Len(n)>> \o n \o <<wire, enc, Len(payload)>> \o payload
Trailer(version, body) == <<bloomTrailerMagic, version>> \o body
Keyed(body) == Head2(1, 2) \o <<1, 3>> \o <<1>> \o a \o Col(a, 0, 1, <<2, 4>>) \o body

\* Lengths no slice can have, for each length there is: 500 is below MaxInt,
\* 5000 above it.
Oversized == UNION {
  { Head2(1, 0) \o <<n, 0, 1>>, Head2(1, 0) \o <<1, 1, n, 7>> \o Col(a, 0, 1, <<>>),
    Head2(1, 0) \o <<1, 0, n, 7, 0, 1, 0>>, Head2(1, 0) \o <<1, 0, 1, 7, 0, 1, n>>,
    Head2(2, 0) \o <<1, 0, 1, 7, 0, 1, n>> \o Col(b, 0, 1, <<>>) } : n \in {500, 5000} }

MCForeignFiles == Oversized \cup {
  <<>>, <<segmentMagic, 2, 0>>, <<0, 2, 0, 0>>, <<segmentMagic, 3, 0, 0>>,
  <<segmentMagic, 1, 1, 2>> \o Col(a, 0, 1, <<2, 4>>),
  <<segmentMagic, 1, 1, 2>> \o Col(a, 0, 1, <<2, 4>>) \o <<3>>,
  Head2(0, 0), Head2(0, 0) \o <<0>>, Head2(0, 0) \o <<2, 1>>,
  Head2(0, 3) \o <<2, 0, 1>>, Head2(1, 2) \o <<2, 1, 9, 1>> \o a \o Col(a, 0, 1, <<2, 4>>),
  Head2(1, 2) \o <<1, 0>> \o Col(a, 3, 1, <<2, 4>>),
  Head2(1, 2) \o <<1, 0>> \o Col(a, 0, 2, <<2, 4>>),
  Head2(1, 2) \o <<1, 0>> \o Col(a, 0, 0, <<4, 5>>),
  Head2(1, 2) \o <<1, 0>> \o Col(a, 2, 0, <<0, 1, 6>>),
  Head2(1, 2) \o <<1, 0>> \o Col(a, 2, 0, <<0, 1>>),
  Head2(1, 2) \o <<1, 0>> \o Col(a, 0, 1, <<3, 4>>),
  Head2(1, 2) \o <<1, 0>> \o Col(a, 0, 1, <<1, 4>>),
  Head2(1, 2) \o <<1, 0>> \o Col(a, 0, 1, <<0, 9, 2, 4>>),
  Head2(2, 1) \o <<1, 0>> \o Col(a, 0, 1, <<1, 4>>) \o Col(b, 0, 0, <<4, 5>>),
  Head2(2, 2) \o <<1, 0>> \o Col(a, 0, 1, <<2, 4>>) \o Col(a, 2, 1, <<2, 1, 6>>),
  Keyed(<<>>), Keyed(<<0, 1>>), Keyed(Trailer(2, <<>>)), Keyed(Trailer(1, <<8, 1>>)),
  Keyed(Trailer(1, <<0, 1, 0, 0>>)), Keyed(Trailer(1, <<8, 1, 0, 2, 0>>)),
  Keyed(Trailer(1, <<9, 1, 0, 1, 0>>)), Keyed(Trailer(1, <<8, 31, 0, 1, 0>>)),
  Keyed(Trailer(1, <<8, 0, 0, 1, 0>>)), Keyed(Trailer(1, <<8, 1, 1, 1, 6>>)) }
=============================================================================
