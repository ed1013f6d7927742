# uniqcol in TLA+

A verification project for [uniqcol](../src), an embeddable column store that
refuses duplicate keys while it writes. A process creates a table (or loads one
from a segment file), inserts rows, and flushes the rows together with the Bloom
filter of their keys to a segment; a later process can go on from there. `uniqcol
query` parses a statement and answers it from one segment. The program is
single-threaded. What makes it hard is state that outlives a process (a filter
that stands for rows in other files, files that are cut off by a crash), packages
that each keep a part of the same count, and an executor that joins columns by
position only and adds up in fixed-width integers.

## Inventory

| component | state | operations | hard behaviour | what makes it correct |
|---|---|---|---|---|
| Bloom filter (`bloom/bloom.go`) | `m`, `k`, bits, `nAdded` | `New`, `Add`, `Contains`, `EstimatedFPR`, `MarshalBinary`, `UnmarshalBinary` | 64-bit wrap of `h1 + i*h2`; saturation; partly used last byte; a size out of range | no false negatives, also after a reload; `nAdded` counts distinct keys |
| schema, rows (`storage/types.go`) | none | `Validate`, `ColumnIndex`, `PKIndex` | columns of undeclared type and empty names pass `Validate` | a validated schema has its key column, once |
| write buffer (`storage/buffer.go`) | one slice per column, a row count | `NewWriteBuffer`, `Append`, `Len`, `Reset` | a row that fails half way | the buffer is the transpose of the accepted rows |
| table (`storage/table.go`) | schema, buffer, filter, two counters | `CreateTable`, `LoadTable`, `Insert`, `Flush`, `Stats` | sessions chained through files; flush over the file loaded from; crash while flushing | no key stored twice; nothing refused as known that is nowhere, unless a flush replaced it; a finished segment can be continued |
| segment file (`storage/segment.go`) | a file; per reader an offset and what it has read; decoded columns | `WriteSegment`, `ReadSegmentHeader`, `OpenSegment`, `ReadColumn` | partial writes, no checksum; two parsers of one layout; files of other versions | torn files are refused, complete ones read back as written, the parsers agree, decoded columns are as long as the header says |
| encodings (`storage/rle.go`, `storage/encoding.go`) | none | encode and decode, RLE and raw | run counts, empty strings, truncation | decoding inverts encoding and refuses the rest |
| load command (`cmd/uniqcol/load.go`) | counters, the position in the CSV file, the row all records are parsed into | `runLoad` | every call can fail; a bad record leaves the row half overwritten; cap on warnings; the output is truncated by `os.Create` | counters add up; only the rows of good records are stored; exit 0 means saved; the old output survives a bad input; the loop ends |
| query parser (`query/parser.go`) | tokens and a position; the query being filled in; comparisons and the operators between them | `Parse`: one method per clause; AND and OR are read flat and grouped afterwards | a hand-written grammar with rules that span clauses; positions in errors | accepts the grammar and nothing else; the query written down again is the input; an error names a token that is wrong |
| query executor (`query/exec.go`) | selection vectors, accumulators per group, the order of groups | `Execute`: `evaluate`, `execCount`, `execSum`, `execProject`, `execGrouped` | int64 overflow, NaN as a map key, vectors changed in place, columns aligned by position, damaged columns | the relational answer, or an error that applies; reads only what the query names; ends |
| query command (`cmd/uniqcol/query.go`) | exit code, what has been printed | `runQuery`, `renderTable`, `renderCSV` | `--limit` differs by projection and format; writing can fail | prints the meaning of the statement, cut off where documented; exit 1 has a reason |
| inspect command (`cmd/uniqcol/inspect.go`) | none | `runInspect` on `ColumnInfo` | schema in order, blocks by name | describes the table that was written |
| benchmark data (`bench/datagen.go`) | rows so far | `GenRows` | how many duplicates, and where | the rows after the uniques, and no others, repeat a key |
| dispatch, formatting, version (`cmd/uniqcol`) | none | a switch; formatting of numbers | | not modelled |

`cmd` calls `storage.CreateTable`, `Insert`, `Flush`; `Table` owns a `WriteBuffer`
and a `bloom.Filter`; `Flush` hands both to `WriteSegment`; `LoadTable` and the
query command open the file with `OpenSegment`, and columns are decoded when
`ReadColumn` first asks for them. All calls are synchronous. There are no locks, goroutines or
callbacks; the interleavings that matter are those of a run with failures, with a
crash, and with the next run. `runQuery` checks its arguments, opens the segment,
calls `Parse` and then `Execute` on the result, and renders what that returns;
each stage ends the process when it fails.

## Modules

| module | models | state and actions |
|---|---|---|
| `Types` | `storage/types.go` | operators: `Validate`, `ColumnIndex`, `PKIndex`, with "unknown" for a `ColumnType` outside the three |
| `BloomFilter` | `bloom/bloom.go` | operators on a filter record; the bit array is the set of positions that are 1. `H1`, `H2` (the halves of FNV-1a) and `OptimalM` (the size formula) are constants; `New` refuses a size above `MaxM` |
| `WriteBuffer` | `storage/buffer.go` | operators on a buffer record |
| `Table` | `storage/table.go` and its callers' use of files | variables are the fields of `Table`, the files (`disk`), the file being written (`writing`), and history (`log`, `lineage`, `saved`, `dropped`). One action per method; `Insert` has one disjunct per return. `CreateOutput` is the caller's `os.Create`, `FinishFlush` and `FlushFails` are the two outcomes of `Flush`, `Exit` ends the process, also in the middle of a flush |
| `UniqueStore` | (abstract) | what a deduplicating table promises: a set of keys that grows by new keys only, saved under a path as a whole or not at all, continued where it stood |
| `RunLength` | `storage/rle.go`, `storage/encoding.go` | one turn of each loop as an operator; an encoder or decoder is a function of the number of its turns |
| `SegmentFile` | `storage/segment.go`, `MarshalBinary`, `UnmarshalBinary` | `written` counts the writes made; `WriteChunk` is one `w.Write`, `WriteFails` stops in the middle of one, or at an empty one; then `ReadSegmentHeader` (`Scan...`, on a stream) and `OpenSegment` (`Read...`, in memory) run over the same cells, one action per field with one disjunct per error. They share no check: the first makes its buffers before it knows what the stream holds, and panics (`Panic`) on a length that no slice can have; the second compares every length first. `ReadAColumn` decodes, `Inspect` is `uniqcol inspect` on the opened segment |
| `Load` | `cmd/uniqcol/load.go` | drives `Table`: its steps conjoin Table's actions with the loader's program counter, counters and guards. `rowSlice` is the one row that all records are parsed into, `Filled` what a record leaves in it. The CSV reader is external: the sequence of its results |
| `QuerySyntax` | `Query`, `FilterExpr`, `literalValue` of `query/parser.go` | operators: the statements, their disjuncts and terms |
| `QueryData` | what the executor sees of a segment | operators: segments, the order of values (NaN has none), what a condition means, the columns a statement names |
| `Query` | `query/exec.go` | `stage` is the function that runs. `Resolve` is the checks of `Execute`; `Compare` one comparison of `evaluate` with its accumulation into `conj` and `selection`; `Begin...` the reading of columns and the checks before a loop; `ProjectRow`, `AggregateRow`, `GroupRow`, `SkipRow` one row of a loop; `Emit` the answer; `Panic` the nil accumulator of a NaN key. `reads` is history: the columns decoded |
| `Meaning` | (abstract) | what a query means on a segment: the answer as a set expression over the selected rows, the reasons why there may be none |
| `Relational` | (abstract) | what the executor promises: the meaning of its query, or an error whose reason applies |
| `Parser` | `query/parser.go` from the tokens on | one action per method or branch; a fixed run of tokens (`COUNT ( * )`) is one action, which blames the first token that does not fit; `ParseConditions` ends with the two grouping passes (`JoinGroup` is one turn of the first). `Sentence` is the grammar, independent of the parser: the tokens a query is written with |
| `QueryCommand` | `cmd/uniqcol/query.go` | composes `Parser` and `Query`: their steps are steps of the command in phases `parse` and `execute`; the renderers print one row after the other, any of which may fail |
| `DataGen` | `bench/datagen.go` | keys only; one action per loop. `floor` is what float64 makes of the product of fraction and count: where the product is whole and the fraction no exact float64, it may be one less |
| `TableProofs` | | theorems about `Table` and `Load` |
| `SegmentProofs`, `SegmentRoundTrip` | | theorems about `SegmentFile`: the two readers against each other; the reader against the writer |
| `RunLengthProofs`, `Recursions` | | theorems about `RunLength`; induction and recursion over the naturals, for all modules |
| `QueryProofs`, `QueryCommandProofs` | | theorems about `Query`; about `Parser` and `QueryCommand` |
| `DataGenProofs` | | theorems about `DataGen` |
| `MCTable`, `MCSegmentFile`, `MCLoad`, `MCQuery`, `MCParser`, `MCQueryCommand`, `MCDataGen` | | values of the constants for TLC |

Abstractions. A key or a cell value is a member of `Bits`, standing for its
canonical bytes (`pkBytes`): two float keys +0.0 and -0.0 are two keys, as in the
code. In `Table` a file is nothing, torn, or a segment; `SegmentFile` is where
torn files are shown to be refused. Its cells are coarser than bytes (an integer
is one cell), because a cell cut short and a missing one fail the same test.
In `Query` a value is a member of `Bits`, and `Number` gives what it is for each
type: several bit patterns are one float64 zero, and several are NaN. A float64
sum is the sequence of its addends, since the order of addition matters and the
sum itself is the machine's. Strings compare by their rank. An error is its kind;
texts and column headers are left out. The selection vectors, `[]bool` in the
code, are the sets of rows that are true.

Mutants, the operators whose comment begins with "Mutant", are plausible bugs.
They are used by nothing in the model, and each property has one that breaks it.

## Runs

**table** (`MCTable.cfg`): two paths, symmetric; three keys on a filter of 3 bits
with two probes; seven schemas, good, bad for each reason, with an unknown type
and with an empty key name; four options; seven rows, good and wrong in each way;
five foreign segments, one for each reason `LoadTable` has to refuse a segment;
at most two inserts per session, any number of sessions. Two keys fill the filter so that the
third is a false positive, and the hash of one key wraps at `Word`. Two paths are
enough for a session continued from a file and saved to another or to the same.
`RowsStored`, `FilterExact`, `NoDuplicateKeys`, `KnownKeysStored`, the action
property `FlushReopens` and the refinement `ImplementsStore` hold. The table never
deadlocks: a process can always end and start. `KnownKeysStored` says where a key
the filter knows is stored: in the buffer, in a file, or in `dropped`, the
keys of which a flush replaced a copy. That is no excuse the code makes: a table flushed
over the file it was loaded from does go on refusing the keys of that file. What the
property then says is that there is no other way to lose a key that is known. One
option asks for a filter larger than `MaxM`, so that `New` refuses a size as well.

**segment** (`MCSegmentFile.cfg`): tables of an int64 and a string column with up to three rows
(all equal, alternating, runs at either end, empty strings), with and without key
name and filter, one filter with a partly used byte; each is written completely
and cut off at each cell. A second set is files of other writers, at least one for
each error of the two readers, with flags blocks longer than one cell, and with
each length replaced by ones above `MaxLen` (no slice is as long) and above `MaxInt`
(`int64` of it is negative), so that `ReadSegmentHeader` panics on them, and
steps over a payload of such a length as if it were empty. `TornRefused`,
`CompleteAccepted` and `RoundTrip` hold of every file that is `Complete`, also if the
last write failed and was empty (a table without rows and filter).
`HeaderAgrees` is about the two parsers, and `ColumnsAlign` is why the executor may
take the row count from the header or from any column. `InspectTellsTruth`:
the lengths and encodings that inspect prints are those of the column they are
printed for. The system stops when the columns are read and the file is inspected.

**load** (`MCLoad.cfg`): all CSV files of up to three records out of six (three
keys, an unparsable field, a short record, a read error), each ending or breaking
off; a repeated header column, a missing one, an unreadable file; twelve command
lines; warnings are capped at one instead of ten, so that suppression happens;
every call can fail and the process can be killed at each step. `RowsAddUp`,
`ErrorsAddUp`, `SuccessIsSaved`, `KeysReadAreKnown`, `OutputIsLast` and `StoresWhatItRead`
hold, and so does the liveness property `EndsWithFile`. Counters are `% Word`, as
a `uint64` is, with a `Word` of 16.

**load_broken** (`MCLoadBroken.cfg`) shows a finding. `load.go:97-98` says that
`runLoad` "Returns 0 on success, 1 on schema/CSV-level errors", but each error of
`Read` is taken for a bad row, so a file that cannot be read any further (an I/O
error that repeats) keeps the loop running for ever: TLC shows a lasso in which
`ReadFailsAgain` counts round and round, with the loader scheduled fairly.

**query** (`MCQuery.cfg`): 194 segments and 68 queries. int64 is -4 .. 3; the key
column takes all triples of -4, -1, 0, 1 and 3, so that sums overflow at either
end, return from near it, and wrap to exactly 0; the float64 column has two NaNs
and two zeros; some segments are empty or have one row, and in three one column
cannot be decoded. Each projection runs with no WHERE, with one comparison and
with OR over AND; COUNT runs with every operator on int64 and float64 and with
three terms in every shape; unknown columns and literals of the wrong type are
among all of them. `SelectionRight`, `CountsExact`, `Pruned`, `AddsExactly`, the
refinement `ImplementsRelation` and the liveness property `Terminates` hold. Three
rows are enough for two groups with one repeated, for a running sum that leaves
the range in the middle, and for every order of NaN and numbers.

**query_nan** (`MCQueryNaN.cfg`) shows a finding. `exec.go:444-446` says of NaN
group keys that "distinct NaN bit patterns become distinct groups. Not
special-cased". A map never finds a NaN key, so `groups[k]` is nil when the
groups are emitted and `Execute` panics.

**parser** (`MCParser.cfg`): 40 sentences of the grammar (every projection; one to
four conditions, in eight groupings), and those of a smaller set cut off anywhere or
with one token deleted, inserted or replaced by a token of any kind, among them a
number out of range. `ReadsBack` says the parser accepts nothing but the grammar and
misreads nothing, `AcceptsGrammar` that it accepts all of it; `TreeShape` is
what the executor relies on; `BlameIsDue` is about the position in an error;
`ParserStops` is liveness. The parser's type invariant is part of `CommandTypeOK`.
`BlameIsDue` says that a position in an error does not come too early; one past the
first wrong token would pass. The grammar is the one that the methods' own comments and
the tests have, with AND, OR and GROUP BY.

**parser_doc** (`MCParserDoc.cfg`) shows a finding. The package comment
(`parser.go:3-6`) gives a smaller grammar: "Supported grammar (one statement, no
AND/OR/JOIN/GROUP BY/expressions)", with a WHERE of one comparison. The parser
accepts AND, OR and GROUP BY, and the executor answers them: the comment was left behind.

**query_command** (`MCQueryCommand.cfg`): the composition, on four segments, 32
statements of which some have no answer, three broken forms of each, nine command
lines (both formats, limits 0, 1 and 2, and one for each refusal), a file that
opens or not and output that may fail at any row. `PrintsTheAnswer` goes from
tokens to printed rows by the grammar and `Meaning` alone; `FailsForAReason`
and `CommandEnds` hold, too.

**query_limit** (`MCQueryCommandLimit.cfg`) shows a finding. The help of `--limit`
(`query.go:23`) says "max rows printed for projections; 0 = unlimited; ignored for
aggregates"; `renderCSV` is not given the limit and prints all rows.

**datagen** (`MCDataGen.cfg`): row counts from -1 to 5 and fractions from below 0 to
above 1, in whole percents. `DuplicatesLast` and `GeneratesAll` hold, for the exact
floor of fraction times count and for one less. The code truncates a float64
product: 0.29*100 gives 28. Of the products in the instance none comes out short (the
first to do so is 0.58*50), so that the run has more behaviours than the code there.
**datagen_fraction** shows a finding: `datagen.go:34-35` says "the duplicate count is
exact, floor(dupFraction*n)", but with a fraction of 1 one row fewer is a duplicate.
The floor is read there as the one the code computes, so that the finding is not
about rounding.

Bounds: `MaxInt` (the largest int64), `MaxInserts` (calls of `Insert` on one table), `MaxItems`
(`expectedItems`), `MaxM` (the largest filter), `MaxLen` (the longest slice, and file),
`Word` (2^64), `maxLoadWarnings`, and the sets of inputs in the
MC modules.

Fairness: `Load` assumes weak fairness of `Step`, and `Query`, `Parser`,
`QueryCommand` and `DataGen` of their next-state relations: one goroutine whose next
statement is always executed and whose system calls return; nothing waits for
anything. Being killed is not part of `Step`, and `EndsWithFile` counts a killed
process as over. A query command whose executor panics ends as well (`Crash`).

## Proofs

All proofs are for every value of the constants: any set of keys, files, schemas
and rows, any hash functions, any filter size. They use the assumptions of the modules: the types of the constants; that foreign
segments are ones `LoadTable` refuses; for `Load`, that a CSV file has fewer records
than a `uint64` counts and not more than `MaxInserts`; for `SegmentFile`, that a table
to be written is one that `Validate` and the write buffer let through (`WellFormed`), that
a cell is a natural number (`CellAssumption`), and that a file fits into memory and
its length into an int (`SizeAssumption`); for `Parser`, that a number out of range is no
value, and that the queries called the grammar are queries, those with a column
list having a column in it (`InputAssumption`). TLC evaluates all of them.

- `TypeCorrect`: `Spec => []TypeOK`. It needs `Session` (an open table has a
  validated schema, so that the key column is in range; the file being written is
  torn), and the range of `Probe`.
- The table's invariants are proved together, as `IInv`, which is inductive
  (`Inductive`). `NoDuplicateKeys` is not inductive: `Insert`
  refuses a key because the filter contains it, so `IInv` adds that the filter
  knows exactly `lineage` (`FilterExact`) and that the keys of the buffer are in
  `lineage` (`KeysRemembered`). With `NoFalseNegatives`, an accepted key is then
  new. `KnownKeysStored` speaks of live filters and has to survive a reload, so
  `IInv` adds the same fact about saved filters (`SavedKeysStored`). A flush
  that replaces a file is the hard step: a key of that file which is stored nowhere
  else is in `dropped` if another filter still knows it (`KnownBeside`).
- `RowsCorrect`, `FilterCorrect`, `UniqueKeys`, `KnownKeysAreStored`: the parts of `IInv`.
- `FlushedSegmentsReopen`: the action property, from the type of `Image`.
- `Refinement`: `Spec => ImplementsStore`. Each step of `Table` is a step of
  `UniqueStore` or a stutter (its counter `taken` makes accepting a known key neither): creating or loading a table with a filter is
  `Create` or `Continue`, accepting a row is `Admit`, `CreateOutput` is `Lose`,
  `FinishFlush` is `Save` if a filter and a key name are there.
- What holds of `Table` holds of a load, as a load is a behaviour of `Table`
  (`LoaderDrivesTable`, a lemma). The invariant
  `Checked` says what the checks before the loop have established; from it a good
  record has a value of the right type for every column, so the row is one that
  `Table` accepts as input.
- `StoredRowsWereRead`: `Traced` maps each row of the table to the record it came
  from, and says that the slice has as many cells as there are columns. A good record
  overwrites all of them (`GoodFills`), a bad one is never inserted, so no cell of an
  earlier record gets into the table.
- `LoadedKeys`: in a load with a filter the filter has been taught exactly the keys that
  the table holds. A load starts from an empty table (`TaughtAreHere`), so
  that `FilterExact` speaks of the buffer alone.
- `LoadTypeCorrect`, `CountersAgree`, `WarningsAddUp`, `SuccessMeansSaved`,
  `OldOutputSurvives`: the counters are in two packages, so `RowsAddUp` is not
  inductive alone. `LoadInv` adds that the counters and what is left of the file
  make up the file (`Counting`), that after the loop all was read and each parse
  error shown or suppressed (`Reported`), and what is in the output once it was
  written (`Written`); it is inductive together with `IInv`, which
  `LoaderDrivesTable` brings along.
- `NoKeyForgotten`: its invariant `Learned` says that the filter has the key of
  every record already read; it needs that `Insert` never takes a bit out of the
  filter, whichever disjunct it ends in.
- `QueryTypeCorrect` and `SumsExact`: for every segment, query and width of int64.
  `TInv` adds to the type invariant what a loop has checked before it runs
  (`Opened`): the columns it uses are there and could be decoded, and the summed one
  is a number. `AdditionExact` is the arithmetic: the sign test of
  `addInt64Checked` says yes exactly if the sum leaves the range.
- `SelectionCorrect`: the vectors mean what was evaluated so far. The first
  comparison of a disjunct replaces `conj`, so nothing is said of `conj` before it;
  `SInv` adds that the evaluation starts with an empty selection.
- `PruningCorrect`: `ReadSoFar` says which columns are read at each point.
- `CountsCorrect`: `CInv` adds that nothing is counted before the loop (`Untouched`).
- `QueryImplements`: `QuerySpec => ImplementsRelation`. `MInv` says what the loop has made of
  the rows before the next one (`Scanned`): the rows listed, the aggregate each
  accumulator `Holds`, the keys of the rows that begin a group (`Firsts`), in order; and that
  every comparison evaluated passed its checks (`FilterChecked`). `Holds` also says
  that an int64 sum stayed one after each row, which is what `Overflows` asks. What one
  more row does to `Meaning`'s expressions over sets of rows are lemmas about those
  alone (`OrderGrows`, `SumGrows`, `ListGrows`). At the end of the loop the rows so far are
  the selected ones, the rows that begin a group are `Leaders`, and no group is
  one of NaN (`LeadersAre`), so what is returned is `RowsOf` (`EmitsRows`). An error has its
  reason at the step that returns it. Each step is then `Relational`'s `Answer` or a stutter.
- `ReadersAgree`: of every file that `OpenSegment` opens, `ReadSegmentHeader` has
  returned the same key, columns and rows, without a panic. The two have no action in
  common. A reader's state says nothing of
  how it got there, so `SegInv` has a witness: the offsets it stopped at (`Walk`), each
  of which follows from the one before and the file. Two walks over one
  file agree as far as both go (`WalksAgree`, by the least offset they differ
  at). In a file with a field that does not fit, `ReadSegmentHeader` may be on no walk at
  all (`Astray`: it has panicked, or stepped over a payload whose length is negative as
  an `int64`); such a file is `Misread`, and a walk that goes as far as `OpenSegment`'s
  shows that it is not (`NothingMisread`). Where a field fits, a buffer for it can be
  made (`SizeAssumption`). `ReadersStayInside` needs the
  bound of each offset by the length just read (`EndsInside`).
- `ColumnsAligned`: of any payload, decoding either fails or gives the number of rows it
  was asked for (`DecodesRows`), which is the header's. `QueryData` relies on it
  where it says what a segment is (`SegmentOK`).
- `DecodesItsEncoding`: `decodeRLE` of what `encodeRLE` wrote is the column, of any type
  and length. Encoder and decoder are recursive functions of a number of turns;
  `Recursions` says that such functions exist and unfold (from a set induction, the only
  one in reach). `InStep` is the induction: after n turns the decoder has consumed
  what n turns of the encoder wrote, and produced the values encoded so far. Every turn
  of either makes progress, so as many turns as values, or cells, are enough.
- `TornNeverOpens`, `CompleteOpens`, `ComesBackAsWritten`, `InspectIsRight`: of every
  table, and a write that stops in any cell. Where each write ends is a function of the table
  (`Ends`, `Laid`); `OnDisk` says that the file is a beginning of its writes,
  the whole of it exactly if the writer is done. `Told` says what `OpenSegment` has
  accepted so far, as a walk over the file; on such a file a walk stops where the
  writes end (`WalkHeld`), so what was read is what was written, and a torn file
  ends before the walk does (`TornEnds`). `Accepted` is the converse: no check of
  either reader fails on a field that is there as written. `Kept` carries the
  decoded columns, by `DecodesItsEncoding`.
- `ConditionsGroup`, `TreeShaped`: for any tokens. `ParserInv` adds to the types that
  there is one operator fewer than comparisons when the conditions have been read
  (`Counted`); then the grouping pass finds the comparison behind every operator, and
  at each turn no group is empty (`GroupsAre`).
- `NothingMisread`: the query `Parse` returns is written with exactly the tokens given.
  `TextInv` says for each phase that the tokens read so far are the text of what was
  filled in so far. The hard clause is WHERE, read flat and grouped afterwards:
  the text of the groups, joined by OR, is the text that was read (`JoinGroup`
  keeps that at each turn).
- `NoneRefused`, `BlameDue`: completeness of the grammar and the position in an error,
  from one invariant. `SentenceForm` gives the kinds of the tokens of a sentence at
  their places, clause by clause; `SentenceIs` shows that every `Sentence` has that form.
  `PlaceInv` says where in its input the parser is when it is in a phase.
  `GrammarInv` says of every sentence that agrees with the input as far as the
  parser has heard it: the parser is at a place of the sentence that fits its phase. So
  a token that is refused is one that no sentence has there.
- `CommandTypeCorrect`, `PrintsWhatWasAsked`, `AnswersRight`: `CommandInv` says that the
  parser's invariants hold throughout, that the executor waits with fresh locals
  until it is called, and that from then on it has the parser's query, so that
  the invariants of `QueryProofs` hold in the composition. `PrintsWhatWasAsked` goes
  from tokens to printed rows with the executor's result in between.
- `OneMeaning`: two queries written with the same tokens have the same projection,
  grouping and conditions. Neither WHERE nor GROUP occurs in what stands before it
  (`FreeOf`), so where a clause begins is determined (`SplitAtFirst`); the
  same for the parts of a list (`PartsDetermined`). `SameAnswer` is the other half: what
  `Meaning` says of a query (`Faults`, `Overflows`, `RowsOf`) depends on those fields alone.
- `ExitCodesDue`, from which `StatementAnswered` (`PrintsTheAnswer`) and `FailuresDue`
  (`FailsForAReason`) follow: each exit code and output are those that the meaning
  of the statement calls for, for any reading of it. `EndInv` adds to `CommandInv` what
  the parser did with the statement (`ParsedInv`), what the executor made of the query
  (`OutcomeInv`: its result is the meaning, by `MInv`; `PanicInv`: it panics exactly if the
  query groups by a column that is NaN in a row it selects), and the reason of every
  exit code (`Reason`). The parser's query is one reading among those there may
  be; `OneMeaning` carries what is known of it to all. The statement must be one the
  grammar can write (`Writable`: a column list has a column in it).
  `PrintsTheAnswer` looks for a reading in the constant `Grammar`, which TLC goes through,
  so `StatementAnswered` needs that `Grammar` holds a reading of each input that has
  one (`GrammarComplete`, of the constants alone; in `query_command` every input that
  parses is a sentence of `Grammar`, so the instance is one). `ExitCodesDue` has no such
  hypothesis.
- `DuplicatesComeLast`: `Numbered` says that the uniques count from 1 and the rows
  after them take one of their keys.

Only model-checked: liveness (`EndsWithFile`, `Terminates`, `ParserStops`,
`CommandEnds`, `GeneratesAll`), which is out of the prover's reach. Every safety
invariant and every action property of the passing runs is proved (`PrintsTheAnswer`
under the condition on `Grammar` above).

## Not modelled

`lex`, which turns characters into tokens (a loop over a position; which
identifiers are keywords is decided there); dispatch, version, formatting of
values and of times; texts, throughput and FPR figures, column headers, the size of the file on disk;
the width of the row count in a segment (2^63 or more
becomes a negative `int`), and lengths so large that memory runs out though a slice could
have them; fractions of `GenRows` other than whole percents; `WriteBuffer.Reset` and `Segment.Close`, which change
nothing the program uses afterwards; the raw encoder, which nothing chooses; several
tables in one process (they share nothing); a file system that loses a file after
`Close` has succeeded (the code does not sync); the columns of benchmark rows other
than the key, which are random.

## Plan

1. Done: the write side (`Types`, `BloomFilter`, `WriteBuffer`, `Table`,
   `UniqueStore`, `RunLength`, `SegmentFile`, `Load`), the read side (`QuerySyntax`,
   `QueryData`, `Query`, `Relational`, `Parser`, `QueryCommand`), inspect, `DataGen`, and
   the proofs above.
2. `SegmentFile` as an implementation of the flush and load steps of `Table`: a
   file is loadable in the sense of `Table` exactly if `OpenSegment` returns a
   segment with that image.
3. A `Lexer` over characters in classes, for keywords and number literals.
