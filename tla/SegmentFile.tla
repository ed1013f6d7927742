---------------------------- MODULE SegmentFile ----------------------------
(***************************************************************************)
(* One segment file (storage/segment.go): WriteSegment's sequence of       *)
(* writes, any of which may be the last one that reaches the file, then a  *)
(* ReadSegmentHeader and an OpenSegment of whatever is there, and column   *)
(* reads.  The two readers are two parsers of one layout, one on a stream  *)
(* and one in memory, and have actions of their own.  The file is a        *)
(* sequence of cells (see RunLength): header fields, tags, uvarints and    *)
(* bit-array bytes are one cell each.                                      *)
(***************************************************************************)
EXTENDS RunLength, Integers

CONSTANTS
  Tables,       \* the tables that may be written: [PK, Columns, cols, bloom]
  ForeignFiles, \* files WriteSegment did not write
  NoFilter,     \* the nil *Filter
  MaxLen,       \* the longest slice make() can give, and the longest file
  MaxInt,       \* 2^63 - 1: int64() of a larger length is negative
  segmentMagic, bloomTrailerMagic   \* two cells

VARIABLES
  source,   \* the table being written, or NoTable
  written,  \* writes WriteSegment has made
  writer,   \* "writing", "done", "failed", or "foreign" for a foreign file
  file,     \* the cells on disk
  reader,   \* which reader runs: "none", "header" or "open"
  phase,    \* where it is
  off,      \* cells it has consumed
  seg,      \* what it has read
  hdr,      \* what ReadSegmentHeader returned, or NoResult
  decoded,  \* the columns ReadColumn has cached
  report    \* what `uniqcol inspect` printed, or NoReport

vars == <<source, written, writer, file, reader, phase, off, seg, hdr, decoded, report>>

NoTable  == [PK |-> <<>>, Columns |-> <<>>, cols |-> <<>>, bloom |-> NoFilter]
NoReport == <<>>
NoResult == [ok |-> FALSE, PK |-> <<>>, Columns |-> <<>>, rows |-> 0]

-----------------------------------------------------------------------------
(* The layout.                                                             *)

WireType == [int64 |-> 0, float64 |-> 1, string |-> 2]
TypeOf(wire) == CHOOSE t \in DOMAIN WireType : WireType[t] = wire
KnownWireTypes == { WireType[t] : t \in DOMAIN WireType }

EncodingRaw == 0
EncodingRLE == 1

\* Mutant of Flags: the filter's bit is only set without a key.
FlagsOverwritten(t) == IF t.PK # <<>> THEN 1 ELSE IF t.bloom # NoFilter THEN 2 ELSE 0

\* The flags byte: bit 0 is set with a key name, bit 1 with a filter.
Flags(t) == (IF t.PK # <<>> THEN 1 ELSE 0) + (IF t.bloom # NoFilter THEN 2 ELSE 0)
hasPKName(flags) == flags % 2 = 1
hasBloom(flags)  == (flags \div 2) % 2 = 1

\* The bytes New makes for a bit array of m bits.
BitsLen(m) == (m + 7) \div 8

\* Mutant of ExpectedBitsLen: rounds down.
ExpectedBitsLenDown(m) == m \div 8

\* The bytes UnmarshalBinary wants of one.
ExpectedBitsLen(m) == (m + 7) \div 8

MarshalBinary(f) == <<f.m, f.k, f.nAdded, Len(f.bits)>> \o f.bits

\* What UnmarshalBinary accepts: long enough, and length, m and k in line.
ValidFilter(data) ==
  /\ Len(data) >= 4
  /\ data[4] = Len(data) - 4
  /\ data[1] # 0
  /\ data[4] = ExpectedBitsLen(data[1])
  /\ data[2] \in 1 .. 30

UnmarshalBinary(data) ==
  [m |-> data[1], k |-> data[2], nAdded |-> data[3],
   bits |-> SubSeq(data, 5, Len(data))]

RowCount(t) == IF t.Columns = <<>> THEN 0 ELSE Len(t.cols[1])

\* The writes for one column: name length, name, tags, payload length, payload.
ColumnChunks(c, vals) ==
  LET payload == EncodeRLE(c.type, vals)
  IN  << <<Len(c.name)>>, c.name, <<WireType[c.type], EncodingRLE>>,
         <<Len(payload)>>, payload >>

\* Five writes for each column.
ColumnsChunks(t) ==
  [ k \in 1 .. 5 * Len(t.Columns) |->
      LET i == (k + 4) \div 5
      IN  ColumnChunks(t.Columns[i], t.cols[i])[k - 5 * (i - 1)] ]

\* Mutant of WriteChunks: the trailer goes before the columns.
WriteChunksTrailerFirst(t) ==
  << <<segmentMagic, 2, Len(t.Columns), RowCount(t)>>, <<1>>, <<Flags(t)>> >>
  \o (IF t.PK = <<>> THEN <<>> ELSE << <<Len(t.PK)>>, t.PK >>)
  \o (IF t.bloom = NoFilter THEN <<>>
      ELSE << <<bloomTrailerMagic>>, <<1>>, MarshalBinary(t.bloom) >>)
  \o ColumnsChunks(t)

\* WriteSegment as the sequence of its writes.
WriteChunks(t) ==
  << <<segmentMagic, 2, Len(t.Columns), RowCount(t)>>, <<1>>, <<Flags(t)>> >>
  \o (IF t.PK = <<>> THEN <<>> ELSE << <<Len(t.PK)>>, t.PK >>)
  \o ColumnsChunks(t)
  \o (IF t.bloom = NoFilter THEN <<>>
      ELSE << <<bloomTrailerMagic>>, <<1>>, MarshalBinary(t.bloom) >>)

-----------------------------------------------------------------------------
(* What may be written.                                                    *)

\* A filter as New makes it.
Filter == { f \in [m : Nat \ {0}, k : 1 .. 30, nAdded : Nat, bits : Seq(Nat)] :
              Len(f.bits) = BitsLen(f.m) }

\* A table as Validate and the write buffer leave it: distinct column names,
\* and in every column as many values of its type.
WellFormed(t) ==
  /\ t.PK \in Seq(Nat)
  /\ t.Columns \in Seq([name : Seq(Nat), type : ColumnType])
  /\ \A i, j \in DOMAIN t.Columns : t.Columns[i].name = t.Columns[j].name => i = j
  /\ DOMAIN t.cols = DOMAIN t.Columns
  /\ \A i \in DOMAIN t.Columns :
       t.cols[i] \in Seq(Values(t.Columns[i].type)) /\ Len(t.cols[i]) = RowCount(t)
  /\ t.bloom = NoFilter \/ t.bloom \in Filter

\* Every cell is a number: a length, a count, a tag, a value, a character.
ASSUME CellAssumption ==
  /\ \A t \in Tables : WellFormed(t)
  /\ ForeignFiles \subseteq Seq(Nat)
  /\ segmentMagic \in Nat /\ bloomTrailerMagic \in Nat

\* A file can be read into memory, and its length is an int.
ASSUME SizeAssumption ==
  /\ MaxLen \in Nat /\ MaxInt \in Nat /\ MaxLen <= MaxInt
  /\ \A f \in ForeignFiles : Len(f) <= MaxLen

-----------------------------------------------------------------------------
(* Writing.                                                                *)

Init ==
  /\ \/ source \in Tables /\ writer = "writing" /\ file = <<>>
     \/ source = NoTable /\ writer = "foreign" /\ file \in ForeignFiles
  /\ written = 0
  /\ reader = "none" /\ phase = "idle" /\ off = 0
  /\ seg = <<>> /\ hdr = NoResult /\ decoded = <<>> /\ report = NoReport

readerVars == <<reader, phase, off, seg, hdr, decoded, report>>

NextChunk == WriteChunks(source)[written + 1]

\* n more cells still make a file.
Room(n) == Len(file) + n <= MaxLen

WriteChunk ==
  /\ writer = "writing" /\ Room(Len(NextChunk))
  /\ file' = file \o NextChunk
  /\ written' = written + 1
  /\ writer' = IF written' = Len(WriteChunks(source)) THEN "done" ELSE "writing"
  /\ UNCHANGED <<source, readerVars>>

\* A write fails, or the process dies in it, after n cells have got through:
\* not all of them, but an empty write can fail too.
WriteFails ==
  /\ writer = "writing"
  /\ \E n \in {0} \cup 1 .. (Len(NextChunk) - 1) :
       Room(n) /\ file' = file \o SubSeq(NextChunk, 1, n)
  /\ writer' = "failed"
  /\ UNCHANGED <<source, written, readerVars>>

\* The writer is through, and nothing it had still to write holds a cell.
Complete ==
  /\ writer \in {"done", "failed"}
  /\ \A k \in (written + 1) .. Len(WriteChunks(source)) : WriteChunks(source)[k] = <<>>

-----------------------------------------------------------------------------
(* Reading.                                                                *)

writerVars == <<source, written, writer, file>>

\* ReadSegmentHeader runs first, then OpenSegment; a panic ends the process.
StartReader ==
  /\ writer # "writing" /\ phase \in {"idle", "ended", "panicked"}
  /\ \/ reader = "none" /\ reader' = "header"
     \/ reader = "header" /\ reader' = "open"
  /\ phase' = "header" /\ off' = 0
  /\ seg' = [version |-> 0, rows |-> 0, count |-> 0, flags |-> 0, PK |-> <<>>,
             Columns |-> <<>>, blocks |-> <<>>, bloom |-> NoFilter, err |-> "ok"]
  /\ UNCHANGED <<writerVars, hdr, decoded, report>>

\* The reader returns an error.
Fail(err) ==
  /\ seg' = [seg EXCEPT !.err = err] /\ phase' = "ended"
  /\ UNCHANGED <<writerVars, reader, off, hdr, decoded, report>>

\* Go on in phase p at offset o with s read so far.
Proceed(p, o, s) ==
  /\ phase' = p /\ off' = o /\ seg' = s
  /\ UNCHANGED <<writerVars, reader, hdr, decoded, report>>

-----------------------------------------------------------------------------
(* ReadSegmentHeader, on a stream.  It makes the buffer for a name or for   *)
(* the flags before it knows whether the stream holds as much.              *)

\* The stream has n cells behind the first o.
Streams(o, n) == o + n <= Len(file)

\* make([]byte, n) for an n no slice can have.
Panic ==
  /\ phase' = "panicked"
  /\ UNCHANGED <<writerVars, reader, off, seg, hdr, decoded, report>>

ScanHeader ==
  /\ reader = "header" /\ phase = "header"
  /\ \/ ~Streams(0, 4) /\ Fail("ErrTruncated")
     \/ Streams(0, 4) /\ file[1] # segmentMagic /\ Fail("ErrBadMagic")
     \/ /\ Streams(0, 4) /\ file[1] = segmentMagic
        /\ file[2] # 1 /\ file[2] # 2
        /\ Fail("ErrUnsupportedVersion")
     \/ /\ Streams(0, 4) /\ file[1] = segmentMagic
        /\ file[2] = 1 \/ file[2] = 2
        /\ Proceed(IF file[2] = 2 THEN "flags" ELSE "columns", 4,
                   [seg EXCEPT !.count = file[3], !.rows = file[4]])

\* Mutant of ScanFlags: takes the flags block to be one cell long.
ScanFlagsShort ==
  /\ reader = "header" /\ phase = "flags"
  /\ \/ ~Streams(off, 2) /\ Fail("ErrTruncated")
     \/ Streams(off, 2) /\ file[off + 1] = 0 /\ Fail("flagsLen")
     \/ /\ Streams(off, 2) /\ file[off + 1] # 0
        /\ Proceed(IF hasPKName(file[off + 2]) THEN "pkName" ELSE "columns",
                   off + 2, [seg EXCEPT !.flags = file[off + 2]])

ScanFlags ==
  LET flagsLen == file[off + 1]
  IN  /\ reader = "header" /\ phase = "flags"
      /\ \/ ~Streams(off, 1) /\ Fail("ErrTruncated")
         \/ Streams(off, 1) /\ flagsLen = 0 /\ Fail("flagsLen")
         \/ Streams(off, 1) /\ flagsLen > MaxLen /\ Panic
         \/ /\ Streams(off, 1) /\ flagsLen \in 1 .. MaxLen /\ ~Streams(off + 1, flagsLen)
            /\ Fail("ErrTruncated")
         \/ /\ Streams(off, 1) /\ flagsLen \in 1 .. MaxLen /\ Streams(off + 1, flagsLen)
            /\ Proceed(IF hasPKName(file[off + 2]) THEN "pkName" ELSE "columns",
                       off + 1 + flagsLen, [seg EXCEPT !.flags = file[off + 2]])

ScanPKName ==
  LET nameLen == file[off + 1]
  IN  /\ reader = "header" /\ phase = "pkName"
      /\ \/ ~Streams(off, 1) /\ Fail("ErrTruncated")
         \/ Streams(off, 1) /\ nameLen > MaxLen /\ Panic
         \/ /\ Streams(off, 1) /\ nameLen <= MaxLen /\ ~Streams(off + 1, nameLen)
            /\ Fail("ErrTruncated")
         \/ /\ Streams(off, 1) /\ nameLen <= MaxLen /\ Streams(off + 1, nameLen)
            /\ Proceed("columns", off + 1 + nameLen,
                       [seg EXCEPT !.PK = SubSeq(file, off + 2, off + 1 + nameLen)])

\* The name and the two tags of the column at off are there.
Scanned(nameLen) == Streams(off, 1) /\ nameLen <= MaxLen /\ Streams(off + 1, nameLen + 2)

\* The cells io.CopyN leaves out for a payload length: none for a negative one.
Skipped(payloadLen) == IF payloadLen > MaxInt THEN 0 ELSE payloadLen

\* The encoding is not looked at.
ScanColumnMeta ==
  LET nameLen    == file[off + 1]
      tags       == off + 1 + nameLen
      payloadLen == file[tags + 3]
  IN  /\ reader = "header" /\ phase = "columns" /\ Len(seg.Columns) < seg.count
      /\ \/ Streams(off, 1) /\ nameLen > MaxLen /\ Panic
         \/ /\ \/ ~Streams(off, 1)
               \/ Streams(off, 1) /\ nameLen <= MaxLen /\ ~Streams(off + 1, nameLen + 2)
            /\ Fail("ErrTruncated")
         \/ /\ Scanned(nameLen) /\ file[tags + 1] \notin KnownWireTypes
            /\ Fail("unknown type")
         \/ /\ Scanned(nameLen) /\ file[tags + 1] \in KnownWireTypes
            /\ \/ ~Streams(tags, 3)
               \/ Streams(tags, 3) /\ ~Streams(tags + 3, Skipped(payloadLen))
            /\ Fail("ErrTruncated")
         \/ /\ Scanned(nameLen) /\ file[tags + 1] \in KnownWireTypes
            /\ Streams(tags, 3) /\ Streams(tags + 3, Skipped(payloadLen))
            /\ Proceed("columns", tags + 3 + Skipped(payloadLen),
                 [seg EXCEPT !.Columns = Append(@, [name |-> SubSeq(file, off + 2, tags),
                                                    type |-> TypeOf(file[tags + 1])])])

\* After the last column it returns; the trailer is not looked at.
ScanDone ==
  /\ reader = "header" /\ phase = "columns" /\ Len(seg.Columns) = seg.count
  /\ phase' = "ended"
  /\ hdr' = [ok |-> TRUE, PK |-> seg.PK, Columns |-> seg.Columns, rows |-> seg.rows]
  /\ UNCHANGED <<writerVars, reader, off, seg, decoded, report>>

-----------------------------------------------------------------------------
(* OpenSegment, on the whole file in memory: every length is compared with  *)
(* what is left before it is used.                                          *)

\* At least n more cells after offset o.
Have(o, n) == n <= Len(file) - o

ReadHeader ==
  /\ reader = "open" /\ phase = "header"
  /\ \/ ~Have(0, 4) /\ Fail("ErrTruncated")
     \/ Have(0, 4) /\ file[1] # segmentMagic /\ Fail("ErrBadMagic")
     \/ /\ Have(0, 4) /\ file[1] = segmentMagic
        /\ file[2] \notin {1, 2}
        /\ Fail("ErrUnsupportedVersion")
     \/ /\ Have(0, 4) /\ file[1] = segmentMagic
        /\ file[2] \in {1, 2}
        /\ Proceed(IF file[2] = 2 THEN "flags" ELSE "columns", 4,
                   [seg EXCEPT !.version = file[2], !.count = file[3], !.rows = file[4]])

\* The flags block is flagsLen cells long, of which the first is understood.
ReadFlags ==
  /\ reader = "open" /\ phase = "flags"
  /\ \/ ~Have(off, 1) /\ Fail("ErrTruncated")
     \/ Have(off, 1) /\ file[off + 1] = 0 /\ Fail("flagsLen")
     \/ Have(off, 1) /\ ~Have(off + 1, file[off + 1]) /\ Fail("ErrTruncated")
     \/ /\ Have(off, 1) /\ file[off + 1] # 0 /\ Have(off + 1, file[off + 1])
        /\ Proceed(IF hasPKName(file[off + 2]) THEN "pkName" ELSE "columns",
                   off + 1 + file[off + 1], [seg EXCEPT !.flags = file[off + 2]])

\* A name at offset o: its length, then its characters.
NamePresent(o) == Have(o, 1) /\ Have(o + 1, file[o + 1])
NameEnd(o)     == o + 1 + file[o + 1]
NameAt(o)      == SubSeq(file, o + 2, NameEnd(o))

ReadPKName ==
  /\ reader = "open" /\ phase = "pkName"
  /\ \/ ~NamePresent(off) /\ Fail("ErrTruncated")
     \/ NamePresent(off) /\ Proceed("columns", NameEnd(off), [seg EXCEPT !.PK = NameAt(off)])

\* A column: name, two tags, payload length, payload.
TagsPresent(o) == NamePresent(o) /\ Have(NameEnd(o), 2)
WireTag(o)     == file[NameEnd(o) + 1]
EncodingTag(o) == file[NameEnd(o) + 2]
PayloadOff(o)  == NameEnd(o) + 3
PayloadLen(o)  == file[NameEnd(o) + 3]

\* Mutant of PayloadPresent: compares with what is left before the length.
PayloadOffByOne(o) == Have(NameEnd(o) + 2, 1) /\ Have(NameEnd(o) + 2, PayloadLen(o))

PayloadPresent(o) == Have(NameEnd(o) + 2, 1) /\ Have(PayloadOff(o), PayloadLen(o))

BadType(o)     == WireTag(o) \notin KnownWireTypes
BadEncoding(o) == EncodingTag(o) \notin {EncodingRaw, EncodingRLE}

ReadColumnMeta ==
  /\ reader = "open" /\ phase = "columns" /\ Len(seg.Columns) < seg.count
  /\ \/ ~TagsPresent(off) /\ Fail("ErrTruncated")
     \/ TagsPresent(off) /\ BadType(off) /\ Fail("unknown type")
     \/ TagsPresent(off) /\ ~BadType(off) /\ BadEncoding(off) /\ Fail("unknown encoding")
     \/ /\ TagsPresent(off) /\ ~BadType(off) /\ ~BadEncoding(off)
        /\ ~PayloadPresent(off)
        /\ Fail("ErrTruncated")
     \/ /\ TagsPresent(off) /\ ~BadType(off) /\ ~BadEncoding(off)
        /\ PayloadPresent(off)
        /\ Proceed("columns", PayloadOff(off) + PayloadLen(off),
             [seg EXCEPT !.Columns = Append(@, [name |-> NameAt(off), type |-> TypeOf(WireTag(off))]),
                         !.blocks = Append(@, [encoding |-> EncodingTag(off),
                                               off |-> PayloadOff(off), len |-> PayloadLen(off)])])

\* After the last column: the trailer, if the flags tell of one.
ColumnsDone == reader = "open" /\ phase = "columns" /\ Len(seg.Columns) = seg.count
WantsTrailer == seg.version = 2 /\ hasBloom(seg.flags)
TrailerBody == SubSeq(file, off + 3, Len(file))

\* OpenSegment returns the segment s.
Open(s) ==
  /\ seg' = s /\ phase' = "opened"
  /\ UNCHANGED <<writerVars, reader, off, hdr, decoded, report>>

ReadTrailer ==
  /\ ColumnsDone /\ WantsTrailer
  /\ \/ ~Have(off, 2) /\ Fail("ErrTruncated")
     \/ Have(off, 2) /\ file[off + 1] # bloomTrailerMagic /\ Fail("ErrBadBloomMagic")
     \/ /\ Have(off, 2) /\ file[off + 1] = bloomTrailerMagic
        /\ file[off + 2] # 1
        /\ Fail("ErrUnsupportedBloomVersion")
     \/ /\ Have(off, 2) /\ file[off + 1] = bloomTrailerMagic /\ file[off + 2] = 1
        /\ ~ValidFilter(TrailerBody)
        /\ Fail("ErrCorruptFilter")
     \/ /\ Have(off, 2) /\ file[off + 1] = bloomTrailerMagic /\ file[off + 2] = 1
        /\ ValidFilter(TrailerBody)
        /\ Open([seg EXCEPT !.bloom = UnmarshalBinary(TrailerBody)])

\* No trailer: what follows the last column is not looked at.
NoTrailer == ColumnsDone /\ ~WantsTrailer /\ Open(seg)

-----------------------------------------------------------------------------
(* Column reads.                                                           *)

\* Blocks are kept by name, the last one winning; the type is that of the
\* first column with the name.
BlockOf(name) == seg.blocks[CHOOSE i \in DOMAIN seg.Columns :
                   /\ seg.Columns[i].name = name
                   /\ \A j \in DOMAIN seg.Columns : seg.Columns[j].name = name => j <= i]
TypeOfColumn(name) == seg.Columns[CHOOSE i \in DOMAIN seg.Columns :
                        /\ seg.Columns[i].name = name
                        /\ \A j \in DOMAIN seg.Columns : seg.Columns[j].name = name => i <= j].type

Decode(name) ==
  LET b == BlockOf(name)
      payload == SubSeq(file, b.off + 1, b.off + b.len)
  IN  IF b.encoding = EncodingRLE
      THEN DecodeRLE(TypeOfColumn(name), payload, seg.rows)
      ELSE DecodeRaw(TypeOfColumn(name), payload, seg.rows)

\* The first read of a column decodes it, and caches it if that succeeds;
\* the entry keeps the outcome, so that a failure can be seen.
ReadColumn(name) ==
  /\ phase = "opened"
  /\ \A e \in { decoded[i] : i \in DOMAIN decoded } : e.name # name
  /\ decoded' = Append(decoded, [name |-> name, ok |-> Decode(name).ok, out |-> Decode(name).out])
  /\ UNCHANGED <<writerVars, reader, phase, off, seg, hdr, report>>

ReadAColumn == phase = "opened" /\ \E i \in DOMAIN seg.Columns : ReadColumn(seg.Columns[i].name)

-----------------------------------------------------------------------------
(* `uniqcol inspect` (cmd/uniqcol/inspect.go) on an opened segment.         *)

\* Mutant of ColumnInfo: the length of the first block for every column.
ColumnInfoFirst ==
  [i \in DOMAIN seg.Columns |->
     [name |-> seg.Columns[i].name, type |-> seg.Columns[i].type,
      encoding |-> BlockOf(seg.Columns[i].name).encoding, len |-> seg.blocks[1].len]]

ColumnInfo ==
  [i \in DOMAIN seg.Columns |->
     LET b == BlockOf(seg.Columns[i].name)
     IN  [name |-> seg.Columns[i].name, type |-> seg.Columns[i].type,
          encoding |-> b.encoding, len |-> b.len]]

\* The columns tagged as the key; a v1 file has no Bloom section.
Inspect ==
  /\ phase = "opened" /\ report = NoReport
  /\ report' = [version |-> seg.version, rows |-> seg.rows,
                keys |-> { i \in DOMAIN seg.Columns :
                             seg.PK # <<>> /\ seg.Columns[i].name = seg.PK },
                bloom |-> IF seg.version = 1 \/ seg.bloom = NoFilter THEN NoFilter
                          ELSE <<seg.bloom.m, seg.bloom.k, seg.bloom.nAdded>>,
                columns |-> ColumnInfo]
  /\ UNCHANGED <<writerVars, reader, phase, off, seg, hdr, decoded>>

Next ==
  \/ WriteChunk \/ WriteFails
  \/ StartReader
  \/ ScanHeader \/ ScanFlags \/ ScanPKName \/ ScanColumnMeta \/ ScanDone
  \/ ReadHeader \/ ReadFlags \/ ReadPKName \/ ReadColumnMeta \/ ReadTrailer \/ NoTrailer
  \/ ReadAColumn \/ Inspect

Spec == Init /\ [][Next]_vars

-----------------------------------------------------------------------------
(* Properties.                                                             *)

\* The readers stay inside the file, and what is decoded is a column that
\* was read, once each (storage/segment.go parseSegment, ReadColumn).
TypeOK ==
  /\ source \in Tables \cup {NoTable}
  /\ writer \in {"writing", "done", "failed", "foreign"}
  /\ reader \in {"none", "header", "open"}
  /\ phase \in {"idle", "header", "flags", "pkName", "columns", "opened", "ended", "panicked"}
  /\ off \in 0 .. Len(file)
  /\ hdr.ok \in BOOLEAN
  /\ \A i, j \in DOMAIN decoded : decoded[i].name = decoded[j].name => i = j

\* A segment whose writing failed is never opened while a cell of it is
\* missing: WriteSegment writes no checksum and no end mark, and OpenSegment
\* still tells a torn file from a complete one.
TornRefused == writer = "failed" /\ phase = "opened" => Complete

\* Whatever WriteSegment wrote completely, both readers accept and every
\* column of it decodes: lengths, runs and the rounding of the filter's bits
\* are one thing to the writer and another to the reader.
CompleteAccepted ==
  Complete =>
    /\ phase # "panicked"
    /\ phase = "ended" => seg.err = "ok"
    /\ \A i \in DOMAIN decoded : decoded[i].ok

\* What OpenSegment and ReadColumn return of a complete segment is what
\* WriteSegment was given: key, columns, row count, filter, every value.
RoundTrip ==
  Complete /\ phase = "opened" =>
    /\ seg.PK = source.PK
    /\ seg.Columns = source.Columns
    /\ seg.rows = RowCount(source)
    /\ seg.bloom = source.bloom
    /\ \A i \in DOMAIN decoded : \A c \in DOMAIN source.Columns :
         source.Columns[c].name = decoded[i].name => decoded[i].out = source.cols[c]

\* Every column that decodes has as many values as the header has rows, in
\* foreign files too: a COUNT(*) taken from the header, one taken from a
\* column, and columns read side by side speak of the same rows.
ColumnsAlign ==
  \A i \in DOMAIN decoded : decoded[i].ok => Len(decoded[i].out) = seg.rows

\* ReadSegmentHeader and OpenSegment parse the layout twice, one from a
\* stream and one from memory: of a file the second opens, the first has
\* returned the same key, columns and row count, foreign files included.
HeaderAgrees ==
  phase = "opened" =>
    hdr = [ok |-> TRUE, PK |-> seg.PK, Columns |-> seg.Columns, rows |-> seg.rows]

\* inspect describes the table WriteSegment was given: its rows, its key
\* column unless the key has no name, its filter, and for each column what
\* its own values encode to.
InspectTellsTruth ==
  Complete /\ report # NoReport =>
    /\ report.rows = RowCount(source)
    /\ report.bloom = IF source.bloom = NoFilter THEN NoFilter
                      ELSE <<source.bloom.m, source.bloom.k, source.bloom.nAdded>>
    /\ \A i \in DOMAIN source.Columns :
         /\ i \in report.keys <=> source.PK # <<>> /\ source.PK = source.Columns[i].name
         /\ report.columns[i] =
              [name |-> source.Columns[i].name, type |-> source.Columns[i].type,
               encoding |-> EncodingRLE,
               len |-> Len(EncodeRLE(source.Columns[i].type, source.cols[i]))]
=============================================================================
