-------------------------------- MODULE Table --------------------------------
(***************************************************************************)
(* The single-writer table of storage/table.go: a schema, a write buffer   *)
(* and, unless it was disabled, a Bloom filter that decides which keys are *)
(* new.  A process creates a table or loads one from a segment file,       *)
(* inserts rows, and flushes the buffer with the filter to a file; it may  *)
(* end at any point, also half way through writing a file.                 *)
(*                                                                         *)
(* A file is abstracted to what opening it can find: nothing, bytes that   *)
(* OpenSegment refuses ("torn": SegmentFile shows that every strict      *)
(* prefix of a written segment is refused), or a segment.                  *)
(***************************************************************************)
EXTENDS WriteBuffer, BloomFilter

CONSTANTS
  Paths, NoPath,   \* file names, and the absence of one
  Schemas,         \* the schemas a caller hands to CreateTable
  Options,         \* the TableOptions a caller hands to CreateTable
  Rows,            \* the rows a caller hands to Insert
  Foreign,         \* segments of other writers that LoadTable cannot continue
  MaxInserts       \* bound on the Insert calls made on one table

VARIABLES
  opened,          \* does the process hold a table?
  schema, buf, bloom, accepted, rejected,   \* the fields of Table
  writing,         \* path of the file being flushed to, or NoPath
  disk,            \* what each path holds
  result,          \* what the last call returned
  log,             \* history: rows accepted since the table was opened
  lineage,         \* history: keys accepted through this chain of filters
  saved,           \* history: lineage of the last segment finished on a path
  dropped          \* history: keys a filter knows of which a flush replaced a copy

memory  == <<schema, buf, bloom, accepted, rejected>>
history == <<log, lineage, saved, dropped>>
vars    == <<opened, memory, writing, disk, result, history>>

\* What a path holds.  PKName is EmptyName when the flags carry no key name.
NoFile  == [kind |-> "none"]
Torn    == [kind |-> "torn"]
Segment == [kind : {"segment"}, version : {1, 2}, pkName : Names,
            Columns : Seq(Column), cols : Seq(Seq(Bits)), rows : Nat,
            bloom : Filter \cup {NoFilter}]

Option == [BloomDisabled : BOOLEAN, BloomExpectedItems : 0 .. MaxItems,
           BloomTargetFPR : 0 .. 100]

SchemaOf(image) == [PK |-> image.pkName, Columns |-> image.Columns]

\* Why LoadTable refuses what a path holds, or "ok".
LoadCheck(image) ==
  CASE image.kind # "segment" -> "not a segment"
    [] image.kind = "segment" /\ \/ image.version # 2
                                 \/ image.pkName = EmptyName
                                 \/ image.bloom = NoFilter -> "ErrIncompatibleSegment"
    [] OTHER -> Validate(SchemaOf(image))

Loadable(image) == LoadCheck(image) = "ok"

ASSUME TableAssumption ==
  /\ NoPath \notin Paths
  /\ Schemas \subseteq Schema
  /\ Options \subseteq Option
  /\ Rows \subseteq Row
  /\ MaxInserts \in Nat
  /\ Foreign \subseteq Segment
  /\ \A image \in Foreign : ~Loadable(image)

BlankSchema == [PK |-> EmptyName, Columns |-> <<>>]

Init ==
  /\ opened = FALSE
  /\ schema = BlankSchema
  /\ buf = NewWriteBuffer(BlankSchema)
  /\ bloom = NoFilter
  /\ accepted = 0 /\ rejected = 0
  /\ writing = NoPath
  /\ log = <<>> /\ lineage = {}
  /\ disk \in [Paths -> {NoFile} \cup Foreign]
  /\ saved = [p \in Paths |-> {}]
  /\ dropped = {}
  /\ result = "none"

Unique == bloom # NoFilter      \* does the table deduplicate?
Ready  == opened /\ writing = NoPath

-----------------------------------------------------------------------------
(* Opening a table.                                                        *)

\* A table on schema s with filter f and no rows, continuing the keys ks.
Open(s, f, ks) ==
  /\ opened' = TRUE
  /\ schema' = s /\ buf' = NewWriteBuffer(s) /\ bloom' = f
  /\ accepted' = 0 /\ rejected' = 0
  /\ log' = <<>> /\ lineage' = ks
  /\ UNCHANGED <<writing, disk, saved, dropped>>

Refuse(reason) ==
  /\ result' = reason
  /\ UNCHANGED <<opened, memory, writing, disk, history>>

CreateTable(s, o) ==
  /\ ~opened
  /\ \/ Validate(s) # "ok" /\ Refuse(Validate(s))
     \/ /\ Validate(s) = "ok" /\ ~o.BloomDisabled
        /\ ~ValidParameters(o.BloomExpectedItems, o.BloomTargetFPR)
        /\ Refuse("ErrInvalidParameters")
     \/ /\ Validate(s) = "ok" /\ ~o.BloomDisabled
        /\ ValidParameters(o.BloomExpectedItems, o.BloomTargetFPR)
        /\ Open(s, BloomNew(o.BloomExpectedItems, o.BloomTargetFPR), {})
        /\ result' = "created"
     \/ /\ Validate(s) = "ok" /\ o.BloomDisabled
        /\ Open(s, NoFilter, {})
        /\ result' = "created"

\* Mutant of LoadTable: the table starts with an empty filter.
LoadTableForgetsFilter(p) ==
  /\ ~opened
  /\ \/ ~Loadable(disk[p]) /\ Refuse(LoadCheck(disk[p]))
     \/ /\ Loadable(disk[p])
        /\ Open(SchemaOf(disk[p]), [disk[p].bloom EXCEPT !.bits = {}, !.nAdded = 0], saved[p])
        /\ result' = "loaded"

LoadTable(p) ==
  /\ ~opened
  /\ \/ ~Loadable(disk[p]) /\ Refuse(LoadCheck(disk[p]))
     \/ /\ Loadable(disk[p])
        /\ Open(SchemaOf(disk[p]), disk[p].bloom, saved[p])
        /\ result' = "loaded"

-----------------------------------------------------------------------------
(* Insert: one disjunct per return.                                        *)

PKColumn  == schema.Columns[PKIndex(schema)]
PKCell(row) == row[PKIndex(schema)]

\* pkBytes fails: the key column has no known type or the cell has another.
BadKey(row) == PKColumn.type = "unknown" \/ PKCell(row).type # PKColumn.type
Key(row)    == PKCell(row).bits

Reject(reason) ==
  /\ rejected' = rejected + 1
  /\ result' = reason
  /\ UNCHANGED <<opened, schema, buf, bloom, accepted, writing, disk, history>>

\* A table that adds the key before Append has refused the row.
RejectRowAfterAdd(row) ==
  /\ rejected' = rejected + 1
  /\ result' = "row type"
  /\ bloom' = IF Unique THEN BloomAdd(bloom, Key(row)) ELSE bloom
  /\ UNCHANGED <<opened, schema, buf, accepted, writing, disk, history>>

Accept(row) ==
  /\ buf' = BufferAppend(buf, row)
  /\ bloom' = IF Unique THEN BloomAdd(bloom, Key(row)) ELSE bloom
  /\ accepted' = accepted + 1
  /\ result' = "accepted"
  /\ log' = Append(log, row)
  /\ lineage' = IF Unique THEN lineage \cup {Key(row)} ELSE lineage
  /\ UNCHANGED <<opened, schema, rejected, writing, disk, saved, dropped>>

RightLength(row) == Len(row) = Len(schema.Columns)

\* The key is not refused before Append is reached.
PassesFilter(row) ==
  Unique => ~BadKey(row) /\ ~BloomContains(bloom, Key(row))

\* Mutant of Insert: the filter learns the key before Append is called.
InsertAddsFirst(row) ==
  /\ Ready /\ accepted + rejected < MaxInserts
  /\ \/ ~RightLength(row) /\ Reject("row length")
     \/ RightLength(row) /\ Unique /\ BadKey(row) /\ Reject("key type")
     \/ /\ RightLength(row) /\ Unique /\ ~BadKey(row)
        /\ BloomContains(bloom, Key(row))
        /\ Reject("duplicate")
     \/ /\ RightLength(row) /\ PassesFilter(row) /\ AppendFails(schema, row)
        /\ RejectRowAfterAdd(row)
     \/ /\ RightLength(row) /\ PassesFilter(row) /\ ~AppendFails(schema, row)
        /\ Accept(row)

Insert(row) ==
  /\ Ready /\ accepted + rejected < MaxInserts
  /\ \/ ~RightLength(row) /\ Reject("row length")
     \/ RightLength(row) /\ Unique /\ BadKey(row) /\ Reject("key type")
     \/ /\ RightLength(row) /\ Unique /\ ~BadKey(row)
        /\ BloomContains(bloom, Key(row))
        /\ Reject("duplicate")
     \/ /\ RightLength(row) /\ PassesFilter(row) /\ AppendFails(schema, row)
        /\ Reject("row type")
     \/ /\ RightLength(row) /\ PassesFilter(row) /\ ~AppendFails(schema, row)
        /\ Accept(row)

-----------------------------------------------------------------------------
(* Flush: the caller's os.Create empties the file, WriteSegment fills it.  *)
(* The buffer and the counters are left as they are.                       *)

\* The keys in the columns of a table or a segment on schema s.
KeysOf(cols, s) == { cols[PKIndex(s)][n] : n \in DOMAIN cols[PKIndex(s)] }

\* Key k is stored on path p, where a later session can load it.
StoredOn(p, k) ==
  Loadable(disk[p]) /\ k \in KeysOf(disk[p].cols, SchemaOf(disk[p]))

\* A filter other than the one on path p knows key k.
KnownBeside(p, k) ==
  k \in lineage \/ \E q \in Paths \ {p} : Loadable(disk[q]) /\ k \in saved[q]

CreateOutput(p) ==
  /\ Ready
  /\ writing' = p
  /\ disk' = [disk EXCEPT ![p] = Torn]
  /\ dropped' =
       { k \in Bits : (k \in dropped \/ StoredOn(p, k)) /\ KnownBeside(p, k) }
  /\ UNCHANGED <<opened, memory, result, log, lineage, saved>>

\* Mutant of Image: the filter is not handed to WriteSegment.
ImageWithoutFilter ==
  [kind |-> "segment", version |-> 2, pkName |-> schema.PK,
   Columns |-> schema.Columns, cols |-> buf.cols, rows |-> buf.rows,
   bloom |-> NoFilter]

\* The segment WriteSegment produces from the table.
Image ==
  [kind |-> "segment", version |-> 2, pkName |-> schema.PK,
   Columns |-> schema.Columns, cols |-> buf.cols, rows |-> buf.rows,
   bloom |-> bloom]

\* No column stops WriteSegment.
Encodable == \A i \in DOMAIN schema.Columns : schema.Columns[i].type # "unknown"

FinishFlush ==
  /\ writing # NoPath /\ Encodable
  /\ disk' = [disk EXCEPT ![writing] = Image]
  /\ saved' = [saved EXCEPT ![writing] = lineage]
  /\ writing' = NoPath
  /\ result' = "flushed"
  /\ UNCHANGED <<opened, memory, log, lineage, dropped>>

\* A write error, or a column of unknown type, stops WriteSegment half way; but
\* the last write of a table without rows and filter is an empty payload, and
\* an error there leaves the whole segment behind.
FlushFails ==
  /\ writing # NoPath
  /\ \/ UNCHANGED disk
     \/ /\ Encodable /\ buf.rows = 0 /\ ~Unique
        /\ disk' = [disk EXCEPT ![writing] = Image]
  /\ writing' = NoPath
  /\ result' = "flush failed"
  /\ UNCHANGED <<opened, memory, history>>

\* The process ends, in an orderly way or not: memory is gone, files stay.
Exit ==
  /\ opened
  /\ opened' = FALSE
  /\ schema' = BlankSchema /\ buf' = NewWriteBuffer(BlankSchema)
  /\ bloom' = NoFilter
  /\ accepted' = 0 /\ rejected' = 0
  /\ writing' = NoPath
  /\ log' = <<>> /\ lineage' = {}
  /\ result' = "none"
  /\ UNCHANGED <<disk, saved, dropped>>

Next ==
  \/ \E s \in Schemas, o \in Options : CreateTable(s, o)
  \/ \E p \in Paths : LoadTable(p)
  \/ \E row \in Rows : Insert(row)
  \/ \E p \in Paths : CreateOutput(p)
  \/ FinishFlush
  \/ FlushFails
  \/ Exit

Spec == Init /\ [][Next]_vars

-----------------------------------------------------------------------------
(* Properties.                                                             *)

\* Types of the variables; a table that is not open holds nothing.
TypeOK ==
  /\ opened \in BOOLEAN
  /\ schema \in Schema
  /\ buf \in Buffer /\ Len(buf.cols) = Len(schema.Columns)
  /\ bloom \in Filter \cup {NoFilter}
  /\ accepted \in Nat /\ rejected \in Nat
  /\ writing \in Paths \cup {NoPath}
  /\ disk \in [Paths -> {NoFile, Torn} \cup Segment]
  /\ log \in Seq(Row)
  /\ lineage \in SUBSET Bits
  /\ saved \in [Paths -> SUBSET Bits]
  /\ dropped \in SUBSET Bits

\* What holds between calls: a process without a table holds nothing, an open
\* table has a schema that passed Validate and rows of its length, and the file
\* being written is torn.
Session ==
  /\ ~opened => schema = BlankSchema /\ bloom = NoFilter /\ log = <<>>
  /\ opened => Validate(schema) = "ok"
  /\ ~Unique => lineage = {}
  /\ writing # NoPath => opened /\ disk[writing] = Torn
  /\ \A n \in DOMAIN log : RightLength(log[n])
  /\ IsFiniteSet(lineage)
  /\ \A p \in Paths : IsFiniteSet(saved[p])

\* The column-major buffer is the transpose of the rows Insert accepted, in
\* order: a refused row leaves nothing behind, an accepted one is in every
\* column, and both counters of Stats agree with it (buffer.go Append checks
\* every cell before it changes a slice).
RowsStored ==
  /\ accepted = Len(log) /\ buf.rows = Len(log)
  /\ \A i \in 1 .. Len(buf.cols) :
       buf.cols[i] = [n \in 1 .. Len(log) |-> log[n][i].bits]

\* Filter f has learned exactly the keys ks: its bits are theirs, and it
\* counts each of them once.
Knows(f, ks) ==
  /\ f.bits = UNION { Indices(f, k) : k \in ks }
  /\ f.nAdded = Cardinality(ks)

\* The filter knows exactly the keys accepted through it, in this process and
\* the earlier ones: nothing is lost by a reload, no refused row leaves a
\* trace, and the count EstimatedFPR relies on is the number of distinct keys
\* (bloom.go says so of Table.Insert).
FilterExact ==
  /\ Unique => Knows(bloom, lineage)
  /\ \A p \in Paths : Loadable(disk[p]) => Knows(disk[p].bloom, saved[p])

DistinctKeys(cols, s) ==
  \A m, n \in DOMAIN cols[PKIndex(s)] :
    cols[PKIndex(s)][m] = cols[PKIndex(s)][n] => m = n

\* Neither the buffer of a deduplicating table nor a segment that one wrote
\* holds two rows with the same key.
NoDuplicateKeys ==
  /\ Unique => DistinctKeys(buf.cols, schema)
  /\ \A p \in Paths :
       Loadable(disk[p]) => DistinctKeys(disk[p].cols, SchemaOf(disk[p]))

\* A key the table refuses as known is stored, in the buffer or in a file of an
\* earlier session, unless a flush replaced a file that held it.  (A table
\* loaded from a file starts with an empty buffer: flushed over that file it
\* keeps in its filter keys that no file holds any more.)
KnownKeysStored ==
  Unique =>
    \A k \in lineage :
      \/ k \in KeysOf(buf.cols, schema)
      \/ \E p \in Paths : StoredOn(p, k)
      \/ k \in dropped

\* The inductive invariant behind the properties above.  Rows are refused as
\* duplicates because every key in the buffer is known to the filter, and known
\* keys are stored because the keys of every loadable file are.
KeysRemembered == Unique => KeysOf(buf.cols, schema) \subseteq lineage

SavedKeysStored ==
  \A p \in Paths : Loadable(disk[p]) =>
    \A k \in saved[p] :
      (\E q \in Paths : StoredOn(q, k)) \/ k \in dropped

IInv ==
  /\ TypeOK /\ Session /\ RowsStored /\ FilterExact
  /\ KeysRemembered /\ NoDuplicateKeys
  /\ SavedKeysStored /\ KnownKeysStored

\* A segment finished by a deduplicating table whose key column has a name can
\* be continued by LoadTable; one of a table without a filter cannot.
FlushReopens ==
  [][writing # NoPath /\ writing' = NoPath /\ result' = "flushed" =>
       (Loadable(disk'[writing]) <=> Unique /\ schema.PK # EmptyName)]_vars

\* A table with a filter implements the promise of UniqueStore: it is in use
\* while open, has the keys accepted along its chain of reloads, counts as
\* accepted the rows that bring a new one and no others, and a path holds a
\* store exactly when LoadTable would take it.
StoredIn == [p \in Paths |-> IF Loadable(disk[p]) THEN {saved[p]} ELSE {}]

Taken == IF Unique THEN accepted ELSE 0

Store == INSTANCE UniqueStore WITH
  Keys <- Bits, Places <- Paths,
  on <- Unique,
  live <- lineage,
  taken <- Taken,
  stored <- StoredIn

ImplementsStore == Store!StoreSpec
=============================================================================
