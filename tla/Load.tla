-------------------------------- MODULE Load --------------------------------
(***************************************************************************)
(* `uniqcol load` (cmd/uniqcol/load.go runLoad): create a table, read a    *)
(* CSV file record by record, insert what parses, then write the table to  *)
(* the output file.  The loader drives a Table: the steps that touch the   *)
(* table or a file are Table's own actions, with the loader's conditions.  *)
(*                                                                         *)
(* The CSV reader (encoding/csv over os.File) is external: it is the       *)
(* sequence of what its Read calls return, after which it is at the end of *)
(* the file or, if the file is broken, fails at every call.                *)
(***************************************************************************)
EXTENDS Table

CONSTANTS
  Arguments,    \* command lines: [flags, spec, pk, option, out]
  Inputs,       \* CSV files: [opens, header, items, broken]
  NoValue,      \* what a field that does not parse is worth
  maxLoadWarnings

VARIABLES
  args, input,  \* the command line and the CSV file, fixed at the start
  before,       \* history: the output path before the run
  pc,           \* where runLoad is
  exit,         \* what it returned, or NoExit
  unread,       \* the Read results still to come
  rowSlice,     \* the row all records are parsed into
  rowsRead, parseErrors, warningsEmit,
  suppressed    \* the number on the "more parse errors suppressed" line

given    == <<args, input, before>>
counters == <<rowsRead, parseErrors, warningsEmit, suppressed>>
lvars    == <<vars, given, pc, exit, unread, rowSlice, counters>>

NoExit == -1

\* A field, by what parseFieldByType makes of it for each column type.
Field  == [ColumnType -> Bits \cup {NoValue}]
Item   == [kind : {"record"}, fields : Seq(Field)] \cup [kind : {"error"}]
Input  == [opens : BOOLEAN, header : Seq(Names), items : Seq(Item), broken : BOOLEAN]

\* A schema item is a name and a type; an item or a type that does not parse
\* is "unknown".
Argument == [flags : {"ok", "missing", "unparsable"}, spec : Seq(Column), pk : Names,
             option : Option, out : Paths]

\* The schema a command line asks for.
sch(a) == [PK |-> a.pk, Columns |-> a.spec]

\* parseSchemaSpec returns no error.
GoodSpec(a) ==
  /\ a.spec # <<>>
  /\ \A i \in DOMAIN a.spec : a.spec[i].type # "unknown" /\ a.spec[i].name # EmptyName
  /\ ~HasDuplicateColumn(sch(a))

\* The checks made before CreateTable.
Usable(a) ==
  a.flags = "ok" /\ a.pk # EmptyName /\ GoodSpec(a) /\ HasColumn(sch(a), a.pk)

\* The header position of a column, the last one if it occurs twice.
InHeader(name) == \E j \in DOMAIN input.header : input.header[j] = name
csvIdx(name) ==
  CHOOSE j \in DOMAIN input.header :
    /\ input.header[j] = name
    /\ \A l \in DOMAIN input.header : input.header[l] = name => l <= j

\* The field of a record for a column, and what makes it bad: it is missing or
\* does not parse.  A record without a bad field is good.
FieldOf(rec, c)  == rec.fields[csvIdx(c.name)][c.type]
BadField(rec, c) == csvIdx(c.name) > Len(rec.fields) \/ FieldOf(rec, c) = NoValue
GoodRecord(rec)  == \A i \in DOMAIN args.spec : ~BadField(rec, args.spec[i])
Parses(item)     == item.kind = "record" /\ GoodRecord(item)

\* Reorder and parse: one slice serves all records.  A record overwrites its
\* cells in order up to the first bad field; the others keep an earlier
\* record's value, or nil.
NilCell == [type |-> "nil", bits |-> NoValue]
CellOf(rec, c) == [type |-> c.type, bits |-> FieldOf(rec, c)]
Filled(rec) ==
  [i \in 1 .. Len(args.spec) |->
     IF \A j \in 1 .. i : ~BadField(rec, args.spec[j])
     THEN CellOf(rec, args.spec[i]) ELSE rowSlice[i]]

\* The row that a good record stands for.
ParsedRow(rec) == [i \in 1 .. Len(args.spec) |-> CellOf(rec, args.spec[i])]

\* Every row that can come out of ParsedRow for a command line.
RowsOf(a) ==
  { row \in [1 .. Len(a.spec) -> Cell] : \A i \in 1 .. Len(a.spec) : row[i].type = a.spec[i].type }

ASSUME LoadAssumption ==
  /\ Arguments \subseteq Argument
  /\ Inputs \subseteq Input
  /\ NoValue \notin Bits
  /\ maxLoadWarnings \in Nat
  /\ \A f \in Inputs : Len(f.items) <= MaxInserts /\ Len(f.items) < Word
  /\ \A a \in Arguments : sch(a) \in Schemas /\ a.option \in Options
  /\ \A a \in Arguments : Usable(a) => RowsOf(a) \subseteq Rows

LoadInit ==
  /\ Init
  /\ args \in Arguments /\ input \in Inputs
  /\ before = disk[args.out]
  /\ pc = "start" /\ exit = NoExit
  /\ unread = input.items /\ rowSlice = <<>>
  /\ rowsRead = 0 /\ parseErrors = 0 /\ warningsEmit = 0 /\ suppressed = 0

-----------------------------------------------------------------------------
Go(label) == pc' = label /\ UNCHANGED <<given, exit, unread, counters>>

Return(code) == pc' = "returned" /\ exit' = code /\ UNCHANGED <<given, unread, counters>>

\* Flags, schema, key, and CreateTable.
Start ==
  /\ pc = "start"
  /\ \/ args.flags = "unparsable" /\ Return(2) /\ UNCHANGED vars
     \/ args.flags # "unparsable" /\ ~Usable(args) /\ Return(1) /\ UNCHANGED vars
     \/ /\ Usable(args)
        /\ CreateTable(sch(args), args.option)
        /\ \/ result' = "created" /\ Go("csv")
           \/ result' # "created" /\ Return(1)
  /\ UNCHANGED rowSlice

\* Open the CSV file, read its header and find every schema column in it.
ReadHeader ==
  /\ pc = "csv"
  /\ \/ /\ input.opens /\ input.header # <<>>
        /\ \A i \in DOMAIN args.spec : InHeader(args.spec[i].name)
        /\ Go("read")
        /\ rowSlice' = [i \in 1 .. Len(args.spec) |-> NilCell]
     \/ /\ \/ ~input.opens
           \/ input.header = <<>>
           \/ \E i \in DOMAIN args.spec : ~InHeader(args.spec[i].name)
        /\ Return(1) /\ UNCHANGED rowSlice
  /\ UNCHANGED vars

\* Mutant of CountParseError: a suppressed warning is not counted.
CountParseErrorIfShown ==
  /\ rowsRead' = (rowsRead + 1) % Word
  /\ parseErrors' = IF warningsEmit < maxLoadWarnings THEN (parseErrors + 1) % Word ELSE parseErrors
  /\ warningsEmit' = IF warningsEmit < maxLoadWarnings THEN warningsEmit + 1 ELSE warningsEmit
  /\ UNCHANGED <<vars, given, pc, exit, suppressed>>

\* Mutant of CountParseError: warnings are not capped.
CountParseErrorUncapped ==
  /\ rowsRead' = (rowsRead + 1) % Word
  /\ parseErrors' = (parseErrors + 1) % Word
  /\ warningsEmit' = warningsEmit + 1
  /\ UNCHANGED <<vars, given, pc, exit, suppressed>>

\* A row that is not inserted: counted, with a warning while there are few.
CountParseError ==
  /\ rowsRead' = (rowsRead + 1) % Word
  /\ parseErrors' = (parseErrors + 1) % Word
  /\ warningsEmit' = IF warningsEmit < maxLoadWarnings THEN warningsEmit + 1 ELSE warningsEmit
  /\ UNCHANGED <<vars, given, pc, exit, suppressed>>

\* Mutant of SkipRow: the reader is not advanced.
SkipRowAgain ==
  /\ pc = "read" /\ unread # <<>>
  /\ ~Parses(Head(unread))
  /\ UNCHANGED <<unread, rowSlice>>
  /\ CountParseError

\* Read returns an error, or a record one of whose fields is bad.
SkipRow ==
  /\ pc = "read" /\ unread # <<>>
  /\ \/ Head(unread).kind = "error" /\ UNCHANGED rowSlice
     \/ /\ Head(unread).kind = "record" /\ ~GoodRecord(Head(unread))
        /\ rowSlice' = Filled(Head(unread))
  /\ unread' = Tail(unread)
  /\ CountParseError

\* Mutant of InsertRow: a bad field does not keep the row from being inserted.
InsertAnyRow ==
  /\ pc = "read" /\ unread # <<>>
  /\ Head(unread).kind = "record"
  /\ unread' = Tail(unread)
  /\ rowSlice' = Filled(Head(unread))
  /\ Insert(Filled(Head(unread)))
  /\ rowsRead' = (rowsRead + 1) % Word
  /\ UNCHANGED <<given, pc, exit, parseErrors, warningsEmit, suppressed>>

\* A good record goes to the table, whose answer is ignored.
InsertRow ==
  /\ pc = "read" /\ unread # <<>>
  /\ Parses(Head(unread))
  /\ unread' = Tail(unread)
  /\ rowSlice' = Filled(Head(unread))
  /\ Insert(Filled(Head(unread)))
  /\ rowsRead' = (rowsRead + 1) % Word
  /\ UNCHANGED <<given, pc, exit, parseErrors, warningsEmit, suppressed>>

\* The file cannot be read any further: a warning, and the loop goes on.
ReadFailsAgain ==
  /\ pc = "read" /\ unread = <<>> /\ input.broken
  /\ UNCHANGED <<unread, rowSlice>>
  /\ CountParseError

\* Mutant of EndOfFile: any error ends the loop, not only io.EOF.
EndAtError ==
  /\ pc = "read"
  /\ IF unread = <<>> THEN ~input.broken ELSE Head(unread).kind = "error"
  /\ suppressed' = IF parseErrors > warningsEmit THEN parseErrors - warningsEmit ELSE 0
  /\ pc' = "create"
  /\ UNCHANGED <<vars, given, exit, unread, rowSlice, rowsRead, parseErrors, warningsEmit>>

\* Read returns io.EOF; the number of warnings not shown is printed.
EndOfFile ==
  /\ pc = "read" /\ unread = <<>> /\ ~input.broken
  /\ suppressed' = IF parseErrors > warningsEmit THEN parseErrors - warningsEmit ELSE 0
  /\ pc' = "create"
  /\ UNCHANGED <<vars, given, exit, unread, rowSlice, rowsRead, parseErrors, warningsEmit>>

\* Mutant of CreateOut: the output is created before the CSV file is read.
CreateOutEarly ==
  \/ /\ pc \in {"csv", "create"}
     /\ Return(1) /\ UNCHANGED <<vars, rowSlice>>
  \/ /\ pc \in {"csv", "create"}
     /\ CreateOutput(args.out) /\ Go("flush") /\ UNCHANGED rowSlice

\* os.Create.
CreateOut ==
  /\ pc = "create"
  /\ \/ Return(1) /\ UNCHANGED vars
     \/ CreateOutput(args.out) /\ Go("flush")
  /\ UNCHANGED rowSlice

\* Mutant of Flush: its error is dropped.
FlushUnchecked ==
  /\ pc = "flush"
  /\ FinishFlush \/ FlushFails
  /\ Go("close") /\ UNCHANGED rowSlice

\* Table.Flush to the new file; on an error the file is left as it is.
Flush ==
  /\ pc = "flush"
  /\ \/ FinishFlush /\ Go("close")
     \/ FlushFails /\ Return(1)
  /\ UNCHANGED rowSlice

\* Close the output and print the summary.
Close ==
  /\ pc = "close"
  /\ Return(0) \/ Return(1)
  /\ UNCHANGED <<vars, rowSlice>>

\* The process ends: killed at any point, or after runLoad has returned.
ProcessEnds ==
  /\ pc # "ended" /\ pc' = "ended"
  /\ IF opened THEN Exit ELSE UNCHANGED vars
  /\ UNCHANGED <<given, exit, unread, rowSlice, counters>>

Step ==
  \/ Start \/ ReadHeader
  \/ SkipRow \/ InsertRow \/ ReadFailsAgain \/ EndOfFile
  \/ CreateOut \/ Flush \/ Close

LoadNext == Step \/ ProcessEnds

\* One goroutine, every call of which returns.
LoadSpec == LoadInit /\ [][LoadNext]_lvars /\ WF_lvars(Step)

-----------------------------------------------------------------------------
(* Properties.                                                             *)

\* Types of the loader's variables; the table is open exactly while it runs.
LoadTypeOK ==
  /\ args \in Arguments /\ input \in Inputs
  /\ before \in {NoFile} \cup Foreign
  /\ pc \in {"start", "csv", "read", "create", "flush", "close", "returned", "ended"}
  /\ exit \in {NoExit, 0, 1, 2}
  /\ unread \in Seq(Item)
  /\ rowSlice \in Seq(Cell \cup {NilCell})
  /\ pc = "read" => Len(rowSlice) = Len(args.spec)
  /\ rowsRead \in 0 .. (Word - 1) /\ parseErrors \in 0 .. (Word - 1)
  /\ warningsEmit \in 0 .. maxLoadWarnings /\ suppressed \in 0 .. Word
  /\ pc \in {"csv", "read", "create", "flush", "close"} => opened
  /\ pc \in {"start", "ended"} => ~opened

\* The three counters of the summary, kept in two packages, add up to the
\* rows read, at every step and modulo the width of a uint64.
RowsAddUp == opened => rowsRead = (accepted + rejected + parseErrors) % Word

\* A run that succeeds has read the whole file, and every parse error was
\* either shown or is in the number said to be suppressed.
ErrorsAddUp ==
  exit = 0 =>
    /\ rowsRead = Len(input.items)
    /\ warningsEmit + suppressed = parseErrors

\* Exit code 0 means that the output is a segment, that a later session can
\* load it unless there is no filter, and that every record of the CSV file
\* is in it, was rejected or was counted as a parse error.
SuccessIsSaved ==
  exit = 0 /\ opened =>
    /\ disk[args.out] = Image
    /\ ~args.option.BloomDisabled => Loadable(disk[args.out])
    /\ disk[args.out].rows + rejected + parseErrors = Len(input.items)

\* After a success no key is forgotten: each record that parsed, stored or
\* rejected, has its key in the saved filter.
KeysReadAreKnown ==
  exit = 0 /\ opened /\ Unique =>
    \A i \in DOMAIN input.items :
      Parses(input.items[i]) => BloomContains(disk[args.out].bloom, Key(ParsedRow(input.items[i])))

\* The previous output survives every failure that comes before the end of
\* the CSV file: bad flags, schema or header, and a file that breaks off.
OutputIsLast ==
  disk[args.out] # before => unread = <<>> /\ ~input.broken /\ pc \notin {"start", "csv", "read"}

\* What the table has stored is what the file said: its rows are those of good
\* records, one each and in their order, and without a filter all of them.  No
\* cell that an earlier record left in the reused slice, and no row that was
\* counted as a parse error, gets into the table.
ReadSoFar == Len(input.items) - Len(unread)

StoresWhatItRead ==
  opened =>
    \E from \in [DOMAIN log -> 1 .. ReadSoFar] :
      /\ \A m, n \in DOMAIN log : m < n => from[m] < from[n]
      /\ \A n \in DOMAIN log :
           Parses(input.items[from[n]]) /\ log[n] = ParsedRow(input.items[from[n]])
      /\ ~Unique =>
           \A i \in 1 .. ReadSoFar : Parses(input.items[i]) => \E n \in DOMAIN log : from[n] = i

Over == pc \in {"returned", "ended"}

\* A CSV file with an end is loaded, or refused, after finitely many steps.
EndsWithFile == ~input.broken ~> Over

\* load.go:97-98: "Returns 0 on success, 1 on schema/CSV-level errors".
Returns == <>Over
=============================================================================
