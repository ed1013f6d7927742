---------------------------- MODULE QueryCommand ----------------------------
(***************************************************************************)
(* `uniqcol query` (cmd/uniqcol/query.go runQuery): open the segment, parse*)
(* the statement with Parser, execute it with Query, print the result.     *)
(***************************************************************************)
EXTENDS Parser, Query, Meaning

CONSTANT Commands  \* command lines: [flags, db, sqls, format, limit]

VARIABLES
  cmd,      \* the command line
  opens,    \* does OpenSegment succeed?
  pc,       \* where runQuery is
  code,     \* the exit code, or NoCode
  printed,  \* the rows written to standard output
  broken    \* did a write to standard output fail?

cvars == <<cmd, opens, pc, code, printed, broken>>

NoCode == -1

\* flags says whether flag.Parse succeeds; sqls counts the arguments left.
Command == [flags : {"ok", "unparsable"}, db : {"given", "empty"}, sqls : Nat,
            format : {"table", "csv", "unknown"}, limit : Int]

ASSUME CommandAssumption == Commands \subseteq Command

Usable == cmd.flags = "ok" /\ cmd.db = "given" /\ cmd.sqls = 1 /\ cmd.format # "unknown"

\* The segment file and the statement are there from the start; the executor
\* waits for its query.
CommandInit ==
  /\ cmd \in Commands /\ opens \in BOOLEAN
  /\ pc = "start" /\ code = NoCode /\ printed = <<>> /\ broken = FALSE
  /\ ParserInit
  /\ seg \in Segments /\ query = EmptyQuery /\ stage = "waiting" /\ Fresh

Exits(n) == code' = n /\ pc' = "exited"

\* Mutant: only a positive --limit is taken for a limit, 0 for an error.
CheckArgumentsStrict ==
  /\ pc = "start"
  /\ \/ cmd.flags = "unparsable" /\ Exits(2)
     \/ cmd.flags = "ok" /\ (~Usable \/ cmd.limit <= 0) /\ Exits(1)
     \/ Usable /\ cmd.limit > 0 /\ pc' = "open" /\ UNCHANGED code
  /\ UNCHANGED <<cmd, opens, printed, broken, pvars, qvars>>

CheckArguments ==
  /\ pc = "start"
  /\ \/ cmd.flags = "unparsable" /\ Exits(2)
     \/ cmd.flags = "ok" /\ ~Usable /\ Exits(1)
     \/ Usable /\ pc' = "open" /\ UNCHANGED code
  /\ UNCHANGED <<cmd, opens, printed, broken, pvars, qvars>>

OpenFile ==
  /\ pc = "open"
  /\ \/ ~opens /\ Exits(1)
     \/ opens /\ pc' = "parse" /\ UNCHANGED code
  /\ UNCHANGED <<cmd, opens, printed, broken, pvars, qvars>>

Parse == pc = "parse" /\ ParserNext /\ UNCHANGED <<cvars, qvars>>

\* Mutant: a parse error without a position is taken for none.
ParseFailsPositioned ==
  /\ pc = "parse" /\ phase = "rejected" /\ blame > 0
  /\ Exits(1) /\ UNCHANGED <<cmd, opens, printed, broken, pvars, qvars>>

ParseFails ==
  /\ pc = "parse" /\ phase = "rejected"
  /\ Exits(1) /\ UNCHANGED <<cmd, opens, printed, broken, pvars, qvars>>

\* Mutant: the statement that did not parse is reported and executed.
CallExecuteAnyway ==
  /\ pc = "parse" /\ phase \in {"parsed", "rejected"}
  /\ pc' = "execute" /\ query' = ast /\ stage' = "resolve"
  /\ UNCHANGED <<cmd, opens, code, printed, broken, pvars, seg, where, reads, row, scanned, result>>

\* The call of Execute.
CallExecute ==
  /\ pc = "parse" /\ phase = "parsed"
  /\ pc' = "execute" /\ query' = ast /\ stage' = "resolve"
  /\ UNCHANGED <<cmd, opens, code, printed, broken, pvars, seg, where, reads, row, scanned, result>>

Execute == pc = "execute" /\ QueryNext /\ UNCHANGED <<cvars, pvars>>

ExecuteReturns ==
  /\ pc = "execute" /\ stage = "done"
  /\ \/ result.kind = "error" /\ Exits(1)
     \/ result.kind = "rows" /\ pc' = "render" /\ UNCHANGED code
  /\ UNCHANGED <<cmd, opens, printed, broken, pvars, qvars>>

\* The runtime ends a process that panics with exit code 2.
Crash ==
  /\ pc = "execute" /\ stage = "panicked"
  /\ Exits(2) /\ UNCHANGED <<cmd, opens, printed, broken, pvars, qvars>>

\* Result.IsAggregate; the limit cuts other results, those of GROUP BY too.
IsAggregate == query.proj \in {"count", "sum"}

\* Mutant: the last row within the limit is dropped.
CutShort(x) ==
  IF ~IsAggregate /\ cmd.limit > 0 /\ Len(x) >= cmd.limit THEN SubSeq(x, 1, cmd.limit - 1) ELSE x

Cut(x) ==
  IF ~IsAggregate /\ cmd.limit > 0 /\ Len(x) > cmd.limit THEN SubSeq(x, 1, cmd.limit) ELSE x

\* renderTable applies the limit and looks at no write error.
RenderTable ==
  /\ pc = "render" /\ cmd.format = "table"
  /\ \E n \in 0 .. Len(Cut(result.rows)) :
       /\ printed' = SubSeq(Cut(result.rows), 1, n)
       /\ \/ broken' = TRUE
          \/ n = Len(Cut(result.rows)) /\ UNCHANGED broken
  /\ Exits(0) /\ UNCHANGED <<cmd, opens, pvars, qvars>>

\* renderCSV prints every row and returns the first write error.
RenderCSV ==
  /\ pc = "render" /\ cmd.format = "csv"
  /\ \E n \in 0 .. Len(result.rows) :
       /\ printed' = SubSeq(result.rows, 1, n)
       /\ \/ broken' = TRUE /\ Exits(1)
          \/ n = Len(result.rows) /\ Exits(0) /\ UNCHANGED broken
  /\ UNCHANGED <<cmd, opens, pvars, qvars>>

CommandNext ==
  \/ CheckArguments \/ OpenFile
  \/ Parse \/ ParseFails
  \/ CallExecute \/ Execute \/ ExecuteReturns \/ Crash
  \/ RenderTable \/ RenderCSV

CommandSpec ==
  CommandInit /\ [][CommandNext]_<<cvars, pvars, qvars>> /\ WF_<<cvars, pvars, qvars>>(CommandNext)

-----------------------------------------------------------------------------
(* Properties.                                                              *)

\* Type invariant: the executor has a query from the parser when it runs, and
\* the process a code when it has ended (runQuery).
CommandTypeOK ==
  /\ cmd \in Commands
  /\ pc \in {"start", "open", "parse", "execute", "render", "exited"}
  /\ ParserTypeOK
  /\ pc \in {"execute", "render"} => phase = "parsed" /\ query = ast /\ QueryTypeOK
  /\ pc = "exited" <=> code # NoCode
  /\ code \in {NoCode, 0, 1, 2}

\* What a statement means, going by the grammar and Meaning alone.
Answerable(x) == Faults(seg, x) = {} /\ ~Overflows(seg, x)
Statements == { x \in Grammar : Sentence(x) = toks }

\* Tokens in, rows out: what a successful run printed is the meaning of its
\* statement, all of it in CSV and its first --limit rows in a table that is
\* not one number.  Only a table whose writing failed is printed in part.
Wanted(x) ==
  IF cmd.format = "table" /\ x.proj \notin {"count", "sum"} /\ cmd.limit >= 1
  THEN Min({cmd.limit, Len(RowsOf(seg, x))})
  ELSE Len(RowsOf(seg, x))

PrintsTheAnswer ==
  code = 0 =>
    /\ Statements # {}
    /\ \A x \in Statements :
         /\ Answerable(x)
         /\ IsPrefix(printed, RowsOf(seg, x))
         /\ IF broken THEN cmd.format = "table" ELSE Len(printed) = Wanted(x)

\* Exit code 1 has a reason: the arguments, the file, the statement, or what
\* it asks of this segment; or CSV output that could not be written.
FailsForAReason ==
  code = 1 =>
    \/ ~Usable \/ ~opens
    \/ cmd.format = "csv" /\ broken
    \/ \A x \in Statements : ~Answerable(x)

\* Liveness (one goroutine, nothing waits): the process ends.
CommandEnds == <>(pc = "exited")

\* The help of --limit (query.go:23): "max rows printed for projections; 0 =
\* unlimited; ignored for aggregates", with no word of the output format.
LimitRespected ==
  code = 0 /\ query.proj \in {"columns", "star"} /\ cmd.limit > 0 => Len(printed) <= cmd.limit
=============================================================================
