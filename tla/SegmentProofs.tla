--------------------------- MODULE SegmentProofs ---------------------------
(***************************************************************************)
(* The two readers of a segment file, for every file: they stay inside it, *)
(* and of a file that OpenSegment opens ReadSegmentHeader has returned the *)
(* same schema and row count.                                              *)
(*                                                                         *)
(* A reader goes from column to column, so what it has read is told by the *)
(* offsets it stopped at.  Where columns begin and where each ends depends *)
(* on the file alone: two readers stop at the same offsets.                *)
(*                                                                         *)
(* In a file with a field that does not fit ReadSegmentHeader can go       *)
(* astray: it panics on a length no slice can have, and steps over a       *)
(* payload of a length no int can have as if it were empty.  Of such a     *)
(* file nothing is claimed of it, and OpenSegment refuses the file.        *)
(***************************************************************************)
EXTENDS SegmentFile, RunLengthProofs

-----------------------------------------------------------------------------
(* What is written.                                                        *)

\* A write is a sequence of cells.
Cells == Seq(Nat)

\* The writes before the first column, and after the last one.
Before(t) == IF t.PK = <<>> THEN 3 ELSE 5
Behind(t) == IF t.bloom = NoFilter THEN 0 ELSE 3

\* The parts of a table that may be written.
LEMMA Formed ==
  ASSUME NEW t, WellFormed(t)
  PROVE  /\ t.PK \in Seq(Nat)
         /\ Len(t.Columns) \in Nat /\ DOMAIN t.Columns = 1 .. Len(t.Columns)
         /\ t.Columns \in Seq([name : Seq(Nat), type : ColumnType])
         /\ \A i \in 1 .. Len(t.Columns) :
              /\ t.Columns[i].name \in Seq(Nat) /\ t.Columns[i].type \in ColumnType
              /\ t.cols[i] \in Seq(Values(t.Columns[i].type)) /\ Len(t.cols[i]) = RowCount(t)
         /\ RowCount(t) \in Nat
         /\ t.bloom # NoFilter =>
              /\ t.bloom.m \in Nat \ {0} /\ t.bloom.k \in 1 .. 30 /\ t.bloom.nAdded \in Nat
              /\ t.bloom.bits \in Cells /\ Len(t.bloom.bits) = BitsLen(t.bloom.m)
              /\ t.bloom = [m |-> t.bloom.m, k |-> t.bloom.k, nAdded |-> t.bloom.nAdded,
                            bits |-> t.bloom.bits]
<1>1. PICK c : c = t.Columns
  OBVIOUS
<1>2. /\ t.PK \in Seq(Nat) /\ c \in Seq([name : Seq(Nat), type : ColumnType])
      /\ t.bloom = NoFilter \/ t.bloom \in Filter
      /\ \A i \in DOMAIN c :
           t.cols[i] \in Seq(Values(c[i].type)) /\ Len(t.cols[i]) = RowCount(t)
  BY <1>1 DEF WellFormed
<1>3. Len(c) \in Nat /\ DOMAIN c = 1 .. Len(c)
  BY <1>2
<1>4. ASSUME NEW i \in 1 .. Len(c)
      PROVE  c[i].name \in Seq(Nat) /\ c[i].type \in ColumnType
  <2>1. PICK S : S = [name : Seq(Nat), type : ColumnType]
    OBVIOUS
  <2>2. c \in Seq(S) /\ i \in 1 .. Len(c)
    BY <1>2, <2>1
  <2>3. c[i] \in S
    BY <2>2, ElementOfSeq
  <2>4. c[i] \in [name : Seq(Nat), type : ColumnType]
    BY <2>1, <2>3
  <2> QED
    BY <2>4
<1>5. RowCount(t) \in Nat
  <2>1. CASE c = <<>>
    BY <1>1, <2>1 DEF RowCount
  <2>2. CASE c # <<>>
    <3>1. 1 \in DOMAIN c
      BY <1>2, <1>3, <2>2, EmptySeq
    <3>2. t.cols[1] \in Seq(Values(c[1].type)) /\ Len(t.cols[1]) = RowCount(t)
      BY <1>2, <3>1
    <3>3. Len(t.cols[1]) \in Nat
      BY <3>2, LenProperties
    <3> QED
      BY <3>2, <3>3
  <2> QED
    BY <2>1, <2>2
<1>6. ASSUME NEW f \in Filter
      PROVE  /\ f.m \in Nat \ {0} /\ f.k \in 1 .. 30 /\ f.nAdded \in Nat
             /\ f.bits \in Cells /\ Len(f.bits) = BitsLen(f.m)
             /\ f = [m |-> f.m, k |-> f.k, nAdded |-> f.nAdded, bits |-> f.bits]
  <2>1. f \in [m : Nat \ {0}, k : 1 .. 30, nAdded : Nat, bits : Seq(Nat)]
    BY DEF Filter
  <2>2. Len(f.bits) = BitsLen(f.m)
    BY DEF Filter
  <2> QED
    BY <2>1, <2>2 DEF Cells
<1> QED
  BY <1>1, <1>2, <1>3, <1>4, <1>5, <1>6

\* The writes for a column are five sequences of cells.
LEMMA ColumnWrites ==
  ASSUME NEW t, WellFormed(t), NEW i \in 1 .. Len(t.Columns), NEW q,
         q = ColumnChunks(t.Columns[i], t.cols[i])
  PROVE  /\ q \in Seq(Cells) /\ Len(q) = 5
         /\ q[1] = <<Len(t.Columns[i].name)>> /\ q[2] = t.Columns[i].name
         /\ q[3] = <<WireType[t.Columns[i].type], EncodingRLE>>
         /\ q[4] = <<Len(EncodeRLE(t.Columns[i].type, t.cols[i]))>>
         /\ q[5] = EncodeRLE(t.Columns[i].type, t.cols[i])
<1>1. PICK c : c = t.Columns[i]
  OBVIOUS
<1>2. PICK p : p = EncodeRLE(c.type, t.cols[i])
  OBVIOUS
<1>3. c.name \in Seq(Nat) /\ c.type \in ColumnType
  BY <1>1, Formed
<1>4. t.cols[i] \in Seq(Values(c.type))
  BY <1>1, Formed
<1>5. p \in Seq(Nat)
  BY <1>2, <1>3, <1>4, DecodesItsEncoding
<1>6. WireType[c.type] \in Nat /\ EncodingRLE \in Nat
  BY <1>3 DEF WireType, EncodingRLE, ColumnType
<1>7. q = << <<Len(c.name)>>, c.name, <<WireType[c.type], EncodingRLE>>, <<Len(p)>>, p >>
  BY <1>1, <1>2 DEF ColumnChunks
<1>8. /\ <<Len(c.name)>> \in Cells /\ <<Len(p)>> \in Cells /\ p \in Cells
      /\ <<WireType[c.type], EncodingRLE>> \in Cells /\ c.name \in Cells
  BY <1>3, <1>5, <1>6 DEF Cells
<1>9. q \in Seq(Cells) /\ Len(q) = 5
  BY <1>7, <1>8
<1> QED
  BY <1>1, <1>2, <1>7, <1>9

\* WriteSegment's writes, one by one.
LEMMA Writes ==
  ASSUME NEW t, WellFormed(t), NEW w, w = WriteChunks(t)
  PROVE  /\ w \in Seq(Cells) /\ Len(t.Columns) \in Nat /\ Before(t) \in {3, 5}
         /\ Len(w) = Before(t) + 5 * Len(t.Columns) + Behind(t)
         /\ w[1] = <<segmentMagic, 2, Len(t.Columns), RowCount(t)>>
         /\ w[2] = <<1>> /\ w[3] = <<Flags(t)>>
         /\ t.PK # <<>> => w[4] = <<Len(t.PK)>> /\ w[5] = t.PK
         /\ \A i \in 1 .. Len(t.Columns) : \A k \in 1 .. 5 :
              w[Before(t) + 5 * (i - 1) + k] = ColumnChunks(t.Columns[i], t.cols[i])[k]
         /\ t.bloom # NoFilter =>
              /\ w[Before(t) + 5 * Len(t.Columns) + 1] = <<bloomTrailerMagic>>
              /\ w[Before(t) + 5 * Len(t.Columns) + 2] = <<1>>
              /\ w[Before(t) + 5 * Len(t.Columns) + 3] = MarshalBinary(t.bloom)
<1>1. PICK n \in Nat : n = Len(t.Columns)
  BY Formed
<1>2. PICK a : a = << <<segmentMagic, 2, n, RowCount(t)>>, <<1>>, <<Flags(t)>> >>
  OBVIOUS
<1>3. PICK b : b = IF t.PK = <<>> THEN <<>> ELSE << <<Len(t.PK)>>, t.PK >>
  OBVIOUS
<1>4. PICK c : c = ColumnsChunks(t)
  OBVIOUS
<1>5. PICK d : d = IF t.bloom = NoFilter THEN <<>>
                   ELSE << <<bloomTrailerMagic>>, <<1>>, MarshalBinary(t.bloom) >>
  OBVIOUS
<1>6. PICK u : u = a \o b
  OBVIOUS
<1>7. PICK v : v = u \o c
  OBVIOUS
<1>8. w = v \o d
  BY <1>1, <1>2, <1>3, <1>4, <1>5, <1>6, <1>7 DEF WriteChunks
<1>9. a \in Seq(Cells) /\ Len(a) = 3
  <2>1. RowCount(t) \in Nat
    BY Formed
  <2>2. Flags(t) \in Nat
    BY DEF Flags
  <2>3. segmentMagic \in Nat
    BY CellAssumption
  <2>4. <<segmentMagic, 2, n, RowCount(t)>> \in Cells /\ <<Flags(t)>> \in Cells
    BY <2>1, <2>2, <2>3 DEF Cells
  <2>5. <<1>> \in Cells
    BY DEF Cells
  <2> QED
    BY <1>2, <2>4, <2>5
<1>10. b \in Seq(Cells) /\ 3 + Len(b) = Before(t)
  <2>1. t.PK \in Cells
    BY Formed DEF Cells
  <2>2. <<Len(t.PK)>> \in Cells
    BY <2>1 DEF Cells
  <2> QED
    BY <1>3, <2>1, <2>2 DEF Before
<1>11. /\ c \in Seq(Cells) /\ Len(c) = 5 * n
       /\ \A i \in 1 .. n : \A k \in 1 .. 5 :
            c[5 * (i - 1) + k] = ColumnChunks(t.Columns[i], t.cols[i])[k]
  <2>1. c = [ k \in 1 .. 5 * n |->
                ColumnChunks(t.Columns[(k + 4) \div 5], t.cols[(k + 4) \div 5])
                  [k - 5 * (((k + 4) \div 5) - 1)] ]
    BY <1>1, <1>4 DEF ColumnsChunks
  <2>2. ASSUME NEW i \in 1 .. n, NEW k \in 1 .. 5
        PROVE  /\ 5 * (i - 1) + k \in 1 .. 5 * n
               /\ c[5 * (i - 1) + k] = ColumnChunks(t.Columns[i], t.cols[i])[k]
    <3>1. PICK x : x = 5 * (i - 1) + k
      OBVIOUS
    <3>2. x \in 1 .. 5 * n /\ (x + 4) \div 5 = i /\ x - 5 * (i - 1) = k
      BY <3>1
    <3> QED
      BY <2>1, <3>1, <3>2
  <2>3. ASSUME NEW x \in 1 .. 5 * n
        PROVE  c[x] \in Cells
    <3>1. PICK i : i = (x + 4) \div 5
      OBVIOUS
    <3>2. PICK k : k = x - 5 * (i - 1)
      OBVIOUS
    <3>3. i \in 1 .. n /\ k \in 1 .. 5
      BY <3>1, <3>2
    <3>4. PICK q : q = ColumnChunks(t.Columns[i], t.cols[i])
      OBVIOUS
    <3>5. q \in Seq(Cells) /\ Len(q) = 5
      BY <1>1, <3>3, <3>4, ColumnWrites
    <3>6. c[x] = q[k]
      BY <2>1, <3>1, <3>2, <3>4
    <3>7. q[k] \in Cells
      BY <3>3, <3>5, ElementOfSeq
    <3> QED
      BY <3>6, <3>7
  <2>4. PICK m \in Nat : m = 5 * n
    OBVIOUS
  <2>5. c = [ x \in 1 .. m |-> c[x] ] /\ DOMAIN c = 1 .. m
    BY <2>1, <2>4
  <2>6. [ x \in 1 .. m |-> c[x] ] \in Seq(Cells)
    BY <2>3, <2>4, IsASeq
  <2>7. c \in Seq(Cells)
    BY <2>5, <2>6
  <2>8. Len(c) = m
    BY <2>4, <2>5, <2>7, LenProperties
  <2> QED
    BY <2>2, <2>4, <2>7, <2>8
<1>12. d \in Seq(Cells) /\ Len(d) = Behind(t)
  <2>1. CASE t.bloom = NoFilter
    BY <1>5, <2>1 DEF Behind
  <2>2. CASE t.bloom # NoFilter
    <3>1. PICK f : f = t.bloom
      OBVIOUS
    <3>2. PICK bits : bits = f.bits
      OBVIOUS
    <3>3. /\ f.m \in Nat \ {0} /\ f.k \in 1 .. 30 /\ f.nAdded \in Nat
          /\ bits \in Cells
      BY <2>2, <3>1, <3>2, Formed
    <3>4. PICK x : x = <<f.m, f.k, f.nAdded, Len(bits)>>
      OBVIOUS
    <3>5. MarshalBinary(f) \in Cells
      <4>1. Len(bits) \in Nat
        BY <3>3 DEF Cells
      <4>2. x \in Seq(Nat)
        <5>1. PICK m, k, nAdded : m = f.m /\ k = f.k /\ nAdded = f.nAdded
          OBVIOUS
        <5>2. x = <<m, k, nAdded, Len(bits)>>
          BY <3>4, <5>1
        <5>3. m \in Nat /\ k \in Nat /\ nAdded \in Nat
          BY <3>3, <5>1
        <5> QED
          BY <4>1, <5>2, <5>3
      <4>3. bits \in Seq(Nat)
        BY <3>3 DEF Cells
      <4>4. x \o bits \in Seq(Nat)
        BY <4>2, <4>3, ConcatProperties
      <4> QED
        BY <3>2, <3>4, <4>4 DEF MarshalBinary, Cells
    <3>6. <<bloomTrailerMagic>> \in Cells /\ <<1>> \in Cells
      BY CellAssumption DEF Cells
    <3> QED
      BY <1>5, <2>2, <3>1, <3>5, <3>6 DEF Behind
  <2> QED
    BY <2>1, <2>2
<1>13. /\ u \in Seq(Cells) /\ Len(u) = Before(t) /\ Extends(a, u)
       /\ \A x \in 1 .. Len(b) : u[3 + x] = b[x]
  <2>1. Joined(a, b, u)
    BY <1>6 DEF Joined
  <2>2. /\ u \in Seq(Cells) /\ Len(u) = Len(a) + Len(b) /\ Extends(a, u)
        /\ \A x \in 1 .. Len(b) : u[Len(a) + x] = b[x]
    <3>1. a \in Seq(Cells) /\ b \in Seq(Cells)
      BY <1>9, <1>10
    <3> QED
      BY <2>1, <3>1, Joins
  <2>3. Len(u) = Before(t)
    BY <1>9, <1>10, <2>2
  <2>4. \A x \in 1 .. Len(b) : u[3 + x] = b[x]
    BY <1>9, <2>2
  <2> QED
    BY <2>2, <2>3, <2>4
<1>14. /\ v \in Seq(Cells) /\ Len(v) = Before(t) + 5 * n /\ Extends(u, v)
       /\ \A x \in 1 .. 5 * n : v[Before(t) + x] = c[x]
  <2>1. Joined(u, c, v)
    BY <1>7 DEF Joined
  <2>2. /\ v \in Seq(Cells) /\ Len(v) = Len(u) + Len(c) /\ Extends(u, v)
        /\ \A x \in 1 .. Len(c) : v[Len(u) + x] = c[x]
    <3>1. u \in Seq(Cells) /\ c \in Seq(Cells)
      BY <1>13, <1>11
    <3> QED
      BY <2>1, <3>1, Joins
  <2>3. Len(v) = Before(t) + 5 * n
    BY <1>11, <1>13, <2>2
  <2>4. \A x \in 1 .. 5 * n : v[Before(t) + x] = c[x]
    BY <1>11, <1>13, <2>2
  <2> QED
    BY <2>2, <2>3, <2>4
<1>15. /\ w \in Seq(Cells) /\ Len(w) = Before(t) + 5 * n + Behind(t) /\ Extends(v, w)
       /\ \A x \in 1 .. Behind(t) : w[Before(t) + 5 * n + x] = d[x]
  <2>1. Joined(v, d, w)
    BY <1>8 DEF Joined
  <2> QED
    BY <1>12, <1>14, <2>1, Joins
<1>16. Before(t) \in {3, 5} /\ Before(t) \in Nat
  BY DEF Before
<1>17. \A x \in 1 .. 3 : w[x] = a[x]
  <2>1. Len(u) >= 3 /\ Len(v) >= 3
    BY <1>1, <1>13, <1>14, <1>16
  <2>2. ASSUME NEW x \in 1 .. 3 PROVE u[x] = a[x]
    BY <1>9, <1>13 DEF Extends
  <2>3. ASSUME NEW x \in 1 .. 3 PROVE v[x] = u[x]
    BY <1>13, <1>14, <1>16 DEF Extends
  <2>4. ASSUME NEW x \in 1 .. 3 PROVE w[x] = v[x]
    <3>1. x \in 1 .. Len(v)
      BY <1>1, <1>14, <1>16
    <3> QED
      BY <1>15, <3>1 DEF Extends
  <2> QED
    BY <2>2, <2>3, <2>4
<1>18. t.PK # <<>> => w[4] = <<Len(t.PK)>> /\ w[5] = t.PK
  <2> SUFFICES ASSUME t.PK # <<>> PROVE w[4] = b[1] /\ w[5] = b[2]
    BY <1>3
  <2>1. Len(b) = 2 /\ Before(t) = 5
    BY <1>3 DEF Before
  <2>2. u[4] = b[1] /\ u[5] = b[2]
    BY <1>13, <2>1
  <2>3. n \in Nat /\ 5 \in 1 .. Len(u) /\ 4 \in 1 .. Len(u)
    BY <1>1, <1>13, <2>1
  <2>4. v[4] = u[4] /\ v[5] = u[5] /\ 4 \in 1 .. Len(v) /\ 5 \in 1 .. Len(v)
    BY <1>13, <1>14, <2>1, <2>3 DEF Extends
  <2>5. w[4] = v[4] /\ w[5] = v[5]
    BY <1>15, <2>4 DEF Extends
  <2> QED
    BY <2>2, <2>4, <2>5
<1>19. ASSUME NEW i \in 1 .. n, NEW k \in 1 .. 5
       PROVE  w[Before(t) + 5 * (i - 1) + k] = ColumnChunks(t.Columns[i], t.cols[i])[k]
  <2>1. PICK x : x = 5 * (i - 1) + k
    OBVIOUS
  <2>2. x \in 1 .. 5 * n /\ c[x] = ColumnChunks(t.Columns[i], t.cols[i])[k]
    <3>1. c[5 * (i - 1) + k] = ColumnChunks(t.Columns[i], t.cols[i])[k]
      BY <1>11
    <3>2. x \in 1 .. 5 * n
      BY <2>1
    <3> QED
      BY <2>1, <3>1, <3>2
  <2>3. v[Before(t) + x] = c[x]
    BY <1>14, <2>2
  <2>4. Before(t) + x \in 1 .. Len(v) /\ Before(t) + 5 * (i - 1) + k = Before(t) + x
    <3>1. Len(v) = Before(t) + 5 * n /\ Before(t) \in Nat
      BY <1>14, <1>16
    <3>2. x \in 1 .. 5 * n
      BY <2>2
    <3>3. Before(t) + x \in 1 .. Len(v)
      BY <3>1, <3>2
    <3>4. Before(t) + 5 * (i - 1) + k = Before(t) + x
      BY <2>1, <3>1
    <3> QED
      BY <3>3, <3>4
  <2>5. w[Before(t) + x] = v[Before(t) + x]
    BY <1>15, <2>4 DEF Extends
  <2> QED
    BY <2>2, <2>3, <2>4, <2>5
<1>20. t.bloom # NoFilter =>
         /\ w[Before(t) + 5 * n + 1] = <<bloomTrailerMagic>>
         /\ w[Before(t) + 5 * n + 2] = <<1>>
         /\ w[Before(t) + 5 * n + 3] = MarshalBinary(t.bloom)
  BY <1>5, <1>15 DEF Behind
<1> QED
  BY <1>1, <1>2, <1>15, <1>16, <1>17, <1>18, <1>19, <1>20

-----------------------------------------------------------------------------
(* What the file says, whoever reads it.                                   *)

HeaderFits == Have(0, 4) /\ file[1] = segmentMagic /\ file[2] \in {1, 2}
FlagsFit   == Have(4, 1) /\ file[5] # 0 /\ Have(5, file[5])
FlagsEnd   == 5 + file[5]
Keyed      == hasPKName(file[6])

PreludeFits ==
  /\ HeaderFits
  /\ file[2] = 2 => FlagsFit
  /\ file[2] = 2 /\ Keyed => NamePresent(FlagsEnd)
PreludePK == IF file[2] = 2 /\ Keyed THEN NameAt(FlagsEnd) ELSE <<>>
Begin     == IF file[2] # 2 THEN 4 ELSE IF Keyed THEN NameEnd(FlagsEnd) ELSE FlagsEnd

ColumnFits(o) == TagsPresent(o) /\ ~BadType(o) /\ PayloadPresent(o)
ColumnEnd(o)  == PayloadOff(o) + PayloadLen(o)
ColumnAt(o)   == [name |-> NameAt(o), type |-> TypeOf(WireTag(o))]
ColumnsHere   == { ColumnAt(o) : o \in Nat }

\* The offsets of a walk over columns: each but the last begins a good one.
Walk(s) ==
  /\ s \in Seq(Nat) /\ s # <<>> /\ s[1] = Begin
  /\ \A i \in 1 .. (Len(s) - 1) : ColumnFits(s[i]) /\ s[i + 1] = ColumnEnd(s[i])

\* A walk that reads the columns cols.
Reads(s, cols) ==
  /\ Walk(s) /\ cols \in Seq(ColumnsHere)
  /\ Len(s) = Len(cols) + 1
  /\ \A i \in 1 .. Len(cols) : cols[i] = ColumnAt(s[i])

-----------------------------------------------------------------------------
(* The invariant.                                                          *)

Reading == phase \in {"header", "flags", "pkName", "columns", "opened"}

\* The file is a sequence of cells and stays as it is once it is read.
Stored ==
  /\ file \in Seq(Nat) /\ Len(file) <= MaxLen
  /\ source \in Tables \cup {NoTable}
  /\ writer \in {"writing", "done", "failed", "foreign"}
  /\ reader \in {"none", "header", "open"}
  /\ phase \in {"idle", "header", "flags", "pkName", "columns", "opened", "ended", "panicked"}
  /\ writer = "writing" =>
       /\ reader = "none" /\ source \in Tables
       /\ written \in 0 .. (Len(WriteChunks(source)) - 1)
  /\ reader = "none" <=> phase = "idle"
  /\ phase = "opened" => reader = "open"
  /\ phase = "panicked" => reader = "header"
  /\ off \in 0 .. Len(file)

\* The fields of what a reader has read.
Shaped(s) ==
  /\ DOMAIN s = {"version", "rows", "count", "flags", "PK", "Columns", "blocks", "bloom", "err"}
  /\ s = [x \in DOMAIN s |-> s[x]]

\* A field of the file does not fit: OpenSegment will refuse it.
Misread ==
  \/ ~PreludeFits
  \/ \E s : Walk(s) /\ Len(s) <= file[3] /\ ~ColumnFits(s[Len(s)])

Astray == reader = "header" /\ Misread

\* What a reader that is not astray knows in each phase.
Progress ==
  /\ Reading => Shaped(seg) /\ seg.err = "ok"
  /\ phase = "header" => off = 0
  /\ phase \in {"header", "flags", "pkName"} => seg.Columns = <<>> /\ seg.PK = <<>>
  /\ phase \in {"flags", "pkName", "columns", "opened"} =>
       HeaderFits /\ seg.count = file[3] /\ seg.rows = file[4]
  /\ phase \in {"flags", "pkName"} => file[2] = 2
  /\ phase = "flags" => off = 4
  /\ phase = "pkName" => FlagsFit /\ Keyed /\ off = FlagsEnd
  /\ phase \in {"columns", "opened"} =>
       /\ PreludeFits /\ seg.PK = PreludePK
       /\ \E s : Reads(s, seg.Columns) /\ (phase = "columns" => off = s[Len(s)])
       /\ Len(seg.Columns) <= seg.count
  /\ phase = "opened" => Len(seg.Columns) = seg.count
  /\ reader = "header" => phase # "panicked" /\ (phase = "ended" => seg.err = "ok")

\* What ReadSegmentHeader has found out, once it is through.
HeaderResult ==
  /\ hdr.ok \in BOOLEAN
  /\ \/ Misread
     \/ /\ hdr = [ok |-> TRUE, PK |-> PreludePK, Columns |-> hdr.Columns, rows |-> file[4]]
        /\ PreludeFits
        /\ \E s : Reads(s, hdr.Columns) /\ Len(hdr.Columns) = file[3]

HeaderKnown ==
  IF reader = "open" \/ (reader = "header" /\ phase \in {"ended", "panicked"})
  THEN HeaderResult ELSE hdr = NoResult

SegInv == Stored /\ HeaderKnown /\ (Astray \/ Progress)

-----------------------------------------------------------------------------
(* Walks.                                                                  *)

\* Two walks stop at the same offsets as long as both go on.
LEMMA WalksAgree ==
  ASSUME NEW s, NEW t, Walk(s), Walk(t)
  PROVE  \A i \in 1 .. Len(s) : i <= Len(t) => s[i] = t[i]
<1> DEFINE Differ == { i \in Nat : i \in 1 .. Len(s) /\ i <= Len(t) /\ s[i] # t[i] }
<1>1. SUFFICES ASSUME Differ # {} PROVE FALSE
  <2>1. Len(s) \in Nat /\ Len(t) \in Nat
    BY DEF Walk
  <2> QED
    BY <2>1
<1>2. PICK i \in Differ : \A j \in Differ : <<j, i>> \notin OpToRel(<, Nat)
  BY <1>1, NatLessThanWellFounded, WFMin
<1>3. \A j \in Differ : ~(j < i)
  BY <1>2 DEF OpToRel
<1>4. /\ Len(s) \in Nat /\ Len(t) \in Nat
      /\ i \in 1 .. Len(s) /\ i <= Len(t) /\ s[i] # t[i]
  BY DEF Walk
<1>5. i # 1
  BY <1>4 DEF Walk
<1>6. i - 1 \in 1 .. (Len(s) - 1) /\ i - 1 \in 1 .. (Len(t) - 1) /\ (i - 1) + 1 = i
  BY <1>4, <1>5
<1>7. s[i] = ColumnEnd(s[i - 1]) /\ t[i] = ColumnEnd(t[i - 1])
  BY <1>6 DEF Walk
<1>8. i - 1 \notin Differ
  BY <1>3, <1>4, <1>6
<1>9. s[i - 1] = t[i - 1]
  BY <1>4, <1>6, <1>8
<1> QED
  BY <1>4, <1>7, <1>9

\* A walk of one offset has read no columns.
LEMMA WalkStarts ==
  ASSUME Begin \in Nat
  PROVE  Reads(<<Begin>>, <<>>)
BY DEF Reads, Walk

\* A walk goes on over a good column.
LEMMA WalkGoesOn ==
  ASSUME NEW s, NEW cols, Reads(s, cols), NEW o, o = s[Len(s)],
         ColumnFits(o), ColumnEnd(o) \in Nat
  PROVE  Reads(Append(s, ColumnEnd(o)), Append(cols, ColumnAt(o)))
<1> DEFINE t == Append(s, ColumnEnd(o))
           c == Append(cols, ColumnAt(o))
<1>1. /\ s \in Seq(Nat) /\ Len(s) \in Nat /\ Len(s) >= 1
      /\ cols \in Seq(ColumnsHere) /\ Len(cols) = Len(s) - 1
  BY DEF Reads, Walk
<1>2. o \in Nat
  BY <1>1
<1>3. ColumnAt(o) \in ColumnsHere
  BY <1>2 DEF ColumnsHere
<1>4. /\ t \in Seq(Nat) /\ Len(t) = Len(s) + 1 /\ t[Len(s) + 1] = ColumnEnd(o)
      /\ \A i \in 1 .. Len(s) : t[i] = s[i]
  BY <1>1
<1>5. /\ c \in Seq(ColumnsHere) /\ Len(c) = Len(s) /\ c[Len(s)] = ColumnAt(o)
      /\ \A i \in 1 .. Len(cols) : c[i] = cols[i]
  BY <1>1, <1>3
<1> HIDE DEF t, c
<1>6. t # <<>> /\ t[1] = Begin
  BY <1>1, <1>4 DEF Reads, Walk
<1>7. ASSUME NEW i \in 1 .. (Len(t) - 1)
      PROVE  ColumnFits(t[i]) /\ t[i + 1] = ColumnEnd(t[i])
  <2>1. CASE i = Len(s)
    BY <1>1, <1>4, <2>1
  <2>2. CASE i # Len(s)
    <3>1. i \in 1 .. (Len(s) - 1) /\ i + 1 \in 1 .. Len(s)
      BY <1>1, <1>4, <1>7, <2>2
    <3>2. t[i] = s[i] /\ t[i + 1] = s[i + 1]
      BY <1>1, <1>4, <3>1
    <3>3. ColumnFits(s[i]) /\ s[i + 1] = ColumnEnd(s[i])
      BY <3>1 DEF Reads, Walk
    <3> QED
      BY <3>2, <3>3
  <2> QED
    BY <2>1, <2>2
<1>8. ASSUME NEW i \in 1 .. Len(c)
      PROVE  c[i] = ColumnAt(t[i])
  <2>1. CASE i = Len(s)
    BY <1>4, <1>5, <1>1, <2>1
  <2>2. CASE i # Len(s)
    <3>1. i \in 1 .. Len(cols)
      BY <1>1, <1>5, <1>8, <2>2
    <3> QED
      BY <1>1, <1>4, <1>5, <3>1 DEF Reads
  <2> QED
    BY <2>1, <2>2
<1>9. Walk(t)
  BY <1>4, <1>6, <1>7 DEF Walk
<1> QED
  BY <1>1, <1>4, <1>5, <1>8, <1>9 DEF Reads, t, c

-----------------------------------------------------------------------------
(* The layout.                                                             *)

\* A name, the tags behind it and a payload that are there end in the file.
LEMMA EndsInside ==
  ASSUME file \in Seq(Nat), NEW o \in Nat
  PROVE  /\ NamePresent(o) => NameEnd(o) \in 0 .. Len(file)
         /\ ColumnFits(o) => ColumnEnd(o) \in 0 .. Len(file)
<1>1. Len(file) \in Nat /\ \A i \in 1 .. Len(file) : file[i] \in Nat
  OBVIOUS
<1>2. ASSUME NamePresent(o)
      PROVE  NameEnd(o) \in 0 .. Len(file)
  <2>1. 1 <= Len(file) - o
    BY <1>2 DEF NamePresent, Have
  <2>2. file[o + 1] \in Nat
    BY <1>1, <2>1
  <2> QED
    BY <1>1, <1>2, <2>2 DEF NamePresent, Have, NameEnd
<1>3. ASSUME ColumnFits(o)
      PROVE  ColumnEnd(o) \in 0 .. Len(file)
  <2>1. NameEnd(o) \in Nat
    BY <1>2, <1>3 DEF ColumnFits, TagsPresent
  <2>2. 1 <= Len(file) - (NameEnd(o) + 2)
    BY <1>3 DEF ColumnFits, PayloadPresent, Have
  <2>3. file[NameEnd(o) + 3] \in Nat
    BY <1>1, <2>1, <2>2
  <2>4. file[NameEnd(o) + 3] <= Len(file) - (NameEnd(o) + 3)
    BY <1>3 DEF ColumnFits, PayloadPresent, Have, PayloadOff, PayloadLen
  <2>5. ColumnEnd(o) = NameEnd(o) + 3 + file[NameEnd(o) + 3]
    BY DEF ColumnEnd, PayloadOff, PayloadLen
  <2>6. Len(file) \in Nat
    BY <1>1
  <2> QED
    BY <2>1, <2>3, <2>4, <2>5, <2>6
<1> QED
  BY <1>2, <1>3

\* Where the prelude is there, the columns begin inside the file.
LEMMA BeginsInside ==
  ASSUME file \in Seq(Nat), PreludeFits
  PROVE  Begin \in 0 .. Len(file)
<1>1. Len(file) \in Nat /\ Len(file) >= 4 /\ \A i \in 1 .. Len(file) : file[i] \in Nat
  BY DEF PreludeFits, HeaderFits, Have
<1>2. CASE file[2] = 2
  <2>1. Len(file) >= 5
    BY <1>1, <1>2 DEF PreludeFits, FlagsFit, Have
  <2>2. file[5] \in Nat
    BY <1>1, <2>1
  <2>3. FlagsEnd \in 0 .. Len(file)
    BY <1>1, <1>2, <2>2 DEF PreludeFits, FlagsFit, FlagsEnd, Have
  <2>4. Keyed => NameEnd(FlagsEnd) \in 0 .. Len(file)
    BY <1>2, <2>3, EndsInside DEF PreludeFits
  <2> QED
    BY <1>2, <2>3, <2>4 DEF Begin
<1>3. CASE file[2] # 2
  BY <1>1, <1>3 DEF Begin
<1> QED
  BY <1>2, <1>3

\* What the file says stays while the file does.
LEMMA FileStays ==
  ASSUME UNCHANGED file
  PROVE  /\ HeaderFits' <=> HeaderFits
         /\ FlagsFit' <=> FlagsFit
         /\ FlagsEnd' = FlagsEnd
         /\ Keyed' <=> Keyed
         /\ PreludeFits' <=> PreludeFits
         /\ PreludePK' = PreludePK
         /\ Begin' = Begin
         /\ \A o : ColumnFits(o)' <=> ColumnFits(o)
         /\ \A s : Walk(s)' <=> Walk(s)
         /\ \A s, cols : Reads(s, cols)' <=> Reads(s, cols)
         /\ Misread' <=> Misread
<1>1. /\ HeaderFits' <=> HeaderFits
      /\ FlagsFit' <=> FlagsFit
      /\ FlagsEnd' = FlagsEnd
      /\ Keyed' <=> Keyed
  BY DEF HeaderFits, FlagsFit, FlagsEnd, Keyed, Have
<1>2. ASSUME NEW o
      PROVE  /\ NamePresent(o)' <=> NamePresent(o)
             /\ NameEnd(o)' = NameEnd(o)
             /\ NameAt(o)' = NameAt(o)
  BY DEF NamePresent, NameEnd, NameAt, Have
<1>3. /\ PreludeFits' <=> PreludeFits
      /\ PreludePK' = PreludePK
      /\ Begin' = Begin
  <2>1. /\ NamePresent(FlagsEnd)' <=> NamePresent(FlagsEnd)
        /\ NameEnd(FlagsEnd)' = NameEnd(FlagsEnd)
        /\ NameAt(FlagsEnd)' = NameAt(FlagsEnd)
    BY <1>1 DEF NamePresent, NameEnd, NameAt, Have
  <2> QED
    BY <1>1, <2>1 DEF PreludeFits, PreludePK, Begin
<1>4. ASSUME NEW o
      PROVE  /\ ColumnFits(o)' <=> ColumnFits(o)
             /\ ColumnEnd(o)' = ColumnEnd(o)
             /\ ColumnAt(o)' = ColumnAt(o)
  BY <1>2 DEF ColumnFits, TagsPresent, BadType, WireTag, PayloadPresent, PayloadOff,
              PayloadLen, ColumnEnd, ColumnAt, Have
<1>5. ColumnsHere' = ColumnsHere
  BY <1>4 DEF ColumnsHere
<1>6. ASSUME NEW s
      PROVE  Walk(s)' <=> Walk(s)
  BY <1>3, <1>4 DEF Walk
<1>7. ASSUME NEW s, NEW cols
      PROVE  Reads(s, cols)' <=> Reads(s, cols)
  BY <1>4, <1>5, <1>6 DEF Reads
<1>8. Misread' <=> Misread
  BY <1>3, <1>4, <1>6 DEF Misread
<1> QED
  BY <1>1, <1>3, <1>4, <1>6, <1>7, <1>8

-----------------------------------------------------------------------------
(* The steps.                                                              *)

\* The initial states.
LEMMA SegInit == Init => SegInv
<1> SUFFICES ASSUME Init PROVE SegInv
  OBVIOUS
<1>1. /\ file \in Seq(Nat) /\ Len(file) <= MaxLen /\ written = 0
      /\ writer = "writing" =>
           source \in Tables /\ written \in 0 .. (Len(WriteChunks(source)) - 1)
      /\ source \in Tables \cup {NoTable}
      /\ writer \in {"writing", "foreign"}
  <2>1. CASE source \in Tables /\ writer = "writing" /\ file = <<>>
    <3>1. 0 \in 0 .. (Len(WriteChunks(source)) - 1)
      BY <2>1, CellAssumption, Writes DEF Behind
    <3> QED
      BY <2>1, <3>1, SizeAssumption DEF Init
  <2>2. CASE source = NoTable /\ writer = "foreign" /\ file \in ForeignFiles
    BY <2>2, CellAssumption, SizeAssumption DEF Init
  <2> QED
    BY <2>1, <2>2 DEF Init
<1>2. Len(file) \in Nat
  BY <1>1
<1> QED
  BY <1>1, <1>2 DEF Init, SegInv, Stored, Progress, HeaderKnown, Reading

\* Writing goes on, or stops, before anything is read.
LEMMA WritingStep ==
  ASSUME SegInv, WriteChunk \/ WriteFails
  PROVE  SegInv'
<1>1. /\ writer = "writing" /\ reader = "none" /\ phase = "idle" /\ hdr = NoResult
      /\ UNCHANGED <<source, reader, phase, off, seg, hdr>>
  BY DEF SegInv, Stored, HeaderKnown, WriteChunk, WriteFails, readerVars
<1>2. /\ file \in Seq(Nat) /\ Len(file) <= MaxLen /\ off \in 0 .. Len(file)
      /\ source \in Tables /\ ~Astray
      /\ written \in 0 .. (Len(WriteChunks(source)) - 1)
  BY <1>1 DEF SegInv, Stored, Astray
<1>3. /\ NextChunk \in Seq(Nat) /\ Len(WriteChunks(source)) \in Nat
  <2>1. WriteChunks(source) \in Seq(Cells)
    BY <1>2, CellAssumption, Writes
  <2>2. Len(WriteChunks(source)) \in Nat
    BY <2>1
  <2>3. written + 1 \in 1 .. Len(WriteChunks(source))
    BY <1>2, <2>2
  <2>4. NextChunk \in Cells
    BY <2>1, <2>2, <2>3 DEF NextChunk
  <2> QED
    BY <2>2, <2>4 DEF Cells
<1>4. CASE WriteChunk
  <2>1. /\ file' = file \o NextChunk /\ written' = written + 1
        /\ writer' = IF written' = Len(WriteChunks(source)) THEN "done" ELSE "writing"
        /\ Len(file) + Len(NextChunk) <= MaxLen
    BY <1>4 DEF WriteChunk, Room
  <2>2. /\ file' \in Seq(Nat) /\ Len(file') = Len(file) + Len(NextChunk)
        /\ Len(file') <= MaxLen
    BY <1>2, <1>3, <2>1
  <2>3. /\ writer' \in {"writing", "done"}
        /\ writer' = "writing" => written' \in 0 .. (Len(WriteChunks(source')) - 1)
    BY <1>1, <1>2, <1>3, <2>1
  <2>4. off' \in 0 .. Len(file')
    BY <1>1, <1>2, <1>3, <2>2
  <2> QED
    BY <1>1, <1>2, <2>2, <2>3, <2>4 DEF SegInv, Stored, Progress, HeaderKnown, Reading
<1>5. CASE WriteFails
  <2>1. PICK n \in {0} \cup 1 .. (Len(NextChunk) - 1) :
          Len(file) + n <= MaxLen /\ file' = file \o SubSeq(NextChunk, 1, n)
    BY <1>5 DEF WriteFails, Room
  <2>2. n \in Nat /\ n <= Len(NextChunk)
    BY <1>3
  <2>3. SubSeq(NextChunk, 1, n) \in Seq(Nat) /\ Len(SubSeq(NextChunk, 1, n)) = n
    BY <1>3, <2>2
  <2>4. file' \in Seq(Nat) /\ Len(file') = Len(file) + n /\ Len(file') <= MaxLen
    BY <1>2, <2>1, <2>2, <2>3
  <2>5. off' \in 0 .. Len(file')
    BY <1>1, <1>2, <2>2, <2>4
  <2>6. writer' = "failed"
    BY <1>5 DEF WriteFails
  <2> QED
    BY <1>1, <1>2, <2>4, <2>5, <2>6 DEF SegInv, Stored, Progress, HeaderKnown, Reading
<1> QED
  BY <1>4, <1>5

\* A reader starts at the beginning of the file.
LEMMA StartStep ==
  ASSUME SegInv, StartReader
  PROVE  SegInv'
<1>1. /\ UNCHANGED <<source, written, writer, file, hdr>> /\ writer # "writing"
      /\ phase' = "header" /\ off' = 0
      /\ seg' = [version |-> 0, rows |-> 0, count |-> 0, flags |-> 0, PK |-> <<>>,
                 Columns |-> <<>>, blocks |-> <<>>, bloom |-> NoFilter, err |-> "ok"]
      /\ \/ reader = "none" /\ reader' = "header"
         \/ reader = "header" /\ phase \in {"ended", "panicked"} /\ reader' = "open"
  BY DEF StartReader, writerVars, SegInv, Stored
<1>2. Stored'
  BY <1>1 DEF SegInv, Stored
<1>3. Progress'
  BY <1>1 DEF Progress, Shaped, Reading
<1>4. HeaderKnown'
  BY <1>1, FileStays DEF SegInv, HeaderKnown, HeaderResult
<1> QED
  BY <1>2, <1>3, <1>4 DEF SegInv

\* OpenSegment returns an error.
LEMMA FailStep ==
  ASSUME SegInv, NEW err, Fail(err), reader = "open"
  PROVE  SegInv'
<1>1. /\ UNCHANGED <<source, written, writer, file, reader, off, hdr>> /\ phase' = "ended"
  BY DEF Fail, writerVars
<1>2. Stored'
  BY <1>1 DEF SegInv, Stored
<1>3. Progress'
  BY <1>1 DEF Progress, Reading
<1>4. HeaderKnown'
  BY <1>1, FileStays DEF SegInv, HeaderKnown, HeaderResult
<1> QED
  BY <1>2, <1>3, <1>4 DEF SegInv

\* Going on inside the file keeps all but what the reader knows.
LEMMA ProceedStep ==
  ASSUME SegInv, NEW p, NEW o, NEW s, Proceed(p, o, s),
         phase \in {"header", "flags", "pkName", "columns"},
         p \in {"flags", "pkName", "columns"}, o \in 0 .. Len(file)
  PROVE  /\ Stored' /\ HeaderKnown'
         /\ UNCHANGED file /\ phase' = p /\ off' = o /\ seg' = s
<1>1. /\ UNCHANGED <<source, written, writer, file, reader, hdr>>
      /\ phase' = p /\ off' = o /\ seg' = s
  BY DEF Proceed, writerVars
<1>2. Stored'
  BY <1>1 DEF SegInv, Stored
<1>3. HeaderKnown'
  BY <1>1, FileStays DEF SegInv, HeaderKnown, HeaderResult
<1> QED
  BY <1>1, <1>2, <1>3

\* Reading of columns begins where the prelude ends, with none read.
LEMMA ColumnsBegin ==
  ASSUME SegInv, ~Astray, PreludeFits, NEW s, Shaped(s), s.err = "ok",
         s.Columns = <<>>, s.PK = PreludePK, s.count = file[3], s.rows = file[4],
         Proceed("columns", Begin, s),
         phase \in {"header", "flags", "pkName"}
  PROVE  SegInv'
<1>1. file \in Seq(Nat)
  BY DEF SegInv, Stored
<1>2. Begin \in 0 .. Len(file) /\ Begin \in Nat
  BY <1>1, BeginsInside
<1>3. /\ Stored' /\ HeaderKnown' /\ UNCHANGED file
      /\ phase' = "columns" /\ off' = Begin /\ seg' = s
  BY <1>2, ProceedStep
<1>4. file[3] \in Nat
  BY <1>1 DEF PreludeFits, HeaderFits, Have
<1>5. Reads(<<Begin>>, <<>>)
  BY <1>2, WalkStarts
<1>6. /\ Reads(<<Begin>>, <<>>)' /\ PreludeFits' /\ HeaderFits' /\ PreludePK' = PreludePK
  BY <1>3, <1>5, FileStays DEF PreludeFits
<1>7. seg'.Columns = <<>> /\ off' = <<Begin>>[Len(<<Begin>>)]
  BY <1>3
<1>8. \E w : Reads(w, seg.Columns)' /\ (phase' = "columns" => off' = w[Len(w)])
  <2>1. PICK w : w = <<Begin>>
    OBVIOUS
  <2>2. Reads(w, s.Columns)
    BY <1>5, <2>1
  <2>3. Reads(w, s.Columns)'
    BY <1>3, <2>2, FileStays
  <2>4. Reads(w, seg.Columns)'
    BY <1>3, <2>3
  <2>5. off' = w[Len(w)]
    BY <1>3, <2>1
  <2> QED
    BY <2>4, <2>5
<1>9. Progress'
  BY <1>3, <1>4, <1>6, <1>7, <1>8 DEF Progress, Reading
<1> QED
  BY <1>3, <1>9 DEF SegInv

\* Where a reader that is not astray finds itself.
LEMMA OnCourse ==
  ASSUME SegInv, ~Astray
  PROVE  Progress /\ (reader = "header" => ~Misread)
BY DEF SegInv, Astray

\* The file can be read into memory.
LEMMA FileFits ==
  ASSUME SegInv
  PROVE  /\ file \in Seq(Nat) /\ Len(file) \in Nat /\ Len(file) <= MaxLen
         /\ MaxLen \in Nat /\ MaxInt \in Nat /\ MaxLen <= MaxInt
BY SizeAssumption DEF SegInv, Stored

\* What ReadSegmentHeader asks of a name is so of a name that is there.
Scans(o) ==
  /\ Streams(o, 1) /\ Streams(o + 1, file[o + 1])
  /\ file[o + 1] \in Nat /\ file[o + 1] <= MaxLen /\ ~(file[o + 1] > MaxLen)

LEMMA NameScans ==
  ASSUME SegInv, ~Astray, NEW o \in Nat, NamePresent(o)
  PROVE  Scans(o)
<1>1. PICK n : n = file[o + 1]
  OBVIOUS
<1>2. 1 <= Len(file) - o /\ n <= Len(file) - (o + 1)
  BY <1>1 DEF NamePresent, Have
<1>3. file \in Seq(Nat) /\ Len(file) \in Nat /\ Len(file) <= MaxLen /\ MaxLen \in Nat
  BY FileFits
<1>4. n \in Nat
  BY <1>1, <1>2, <1>3
<1>5. n <= MaxLen /\ ~(n > MaxLen) /\ o + 1 <= Len(file) /\ o + 1 + n <= Len(file)
  BY <1>2, <1>3, <1>4
<1> QED
  BY <1>1, <1>4, <1>5 DEF Scans, Streams

\* The file header.
LEMMA HeaderStep ==
  ASSUME SegInv, ~Astray, ReadHeader \/ ScanHeader
  PROVE  SegInv'
<1>1. /\ phase = "header" /\ off = 0 /\ Shaped(seg) /\ seg.err = "ok"
      /\ seg.Columns = <<>> /\ seg.PK = <<>> /\ file \in Seq(Nat)
  BY OnCourse, FileFits DEF Progress, Reading, ReadHeader, ScanHeader
<1>2. ASSUME reader = "open", NEW err, Fail(err)
      PROVE  SegInv'
  BY <1>2, FailStep
<1>3. ASSUME HeaderFits, NEW s, Shaped(s), s.err = "ok", s.Columns = <<>>, s.PK = <<>>,
             s.count = file[3], s.rows = file[4],
             Proceed(IF file[2] = 2 THEN "flags" ELSE "columns", 4, s)
      PROVE  SegInv'
  <2>1. /\ Shaped(s) /\ s.err = "ok" /\ s.Columns = <<>> /\ s.PK = <<>>
        /\ s.count = file[3] /\ s.rows = file[4]
    BY <1>3
  <2>2. CASE file[2] = 2
    <3>1. Proceed("flags", 4, s)
      BY <1>3, <2>2
    <3>2. 4 \in 0 .. Len(file)
      BY <1>1, <1>3 DEF HeaderFits, Have
    <3>3. /\ Stored' /\ HeaderKnown' /\ UNCHANGED file
          /\ phase' = "flags" /\ off' = 4 /\ seg' = s
      BY <1>1, <3>1, <3>2, ProceedStep
    <3>4. Progress'
      BY <1>3, <2>1, <2>2, <3>3, FileStays DEF Progress, Reading
    <3> QED
      BY <3>3, <3>4 DEF SegInv
  <2>3. CASE file[2] # 2
    <3>1. Begin = 4 /\ PreludePK = <<>> /\ PreludeFits
      BY <1>3, <2>3 DEF Begin, PreludePK, PreludeFits
    <3>2. Proceed("columns", Begin, s)
      BY <1>3, <2>3, <3>1
    <3> QED
      BY <1>1, <2>1, <3>1, <3>2, ColumnsBegin
  <2> QED
    BY <2>2, <2>3
<1>4. CASE ReadHeader
  <2>1. PICK s : s = [seg EXCEPT !.version = file[2], !.count = file[3], !.rows = file[4]]
    OBVIOUS
  <2>2. /\ Shaped(s) /\ s.err = "ok" /\ s.Columns = <<>> /\ s.PK = <<>>
        /\ s.count = file[3] /\ s.rows = file[4]
    BY <1>1, <2>1 DEF Shaped
  <2> QED
    BY <1>2, <1>3, <1>4, <2>1, <2>2 DEF ReadHeader, HeaderFits
<1>5. CASE ScanHeader
  <2>1. PICK s : s = [seg EXCEPT !.count = file[3], !.rows = file[4]]
    OBVIOUS
  <2>2. /\ Shaped(s) /\ s.err = "ok" /\ s.Columns = <<>> /\ s.PK = <<>>
        /\ s.count = file[3] /\ s.rows = file[4]
    BY <1>1, <2>1 DEF Shaped
  <2>3. HeaderFits
    BY <1>5, OnCourse DEF ScanHeader, Misread, PreludeFits
  <2>4. Streams(0, 4)
    BY <2>3, FileFits DEF HeaderFits, Have, Streams
  <2> QED
    BY <1>3, <1>5, <2>1, <2>2, <2>3, <2>4 DEF ScanHeader, HeaderFits
<1> QED
  BY <1>4, <1>5

\* The flags block.
LEMMA FlagsStep ==
  ASSUME SegInv, ~Astray, ReadFlags \/ ScanFlags
  PROVE  SegInv'
<1>1. /\ phase = "flags" /\ off = 4 /\ Shaped(seg) /\ seg.err = "ok"
      /\ seg.Columns = <<>> /\ seg.PK = <<>> /\ file \in Seq(Nat)
      /\ HeaderFits /\ seg.count = file[3] /\ seg.rows = file[4] /\ file[2] = 2
  BY OnCourse, FileFits DEF Progress, Reading, ReadFlags, ScanFlags
<1>2. ASSUME reader = "open", NEW err, Fail(err)
      PROVE  SegInv'
  BY <1>2, FailStep
<1>3. ASSUME FlagsFit,
             Proceed(IF Keyed THEN "pkName" ELSE "columns", FlagsEnd, [seg EXCEPT !.flags = file[6]])
      PROVE  SegInv'
  <2>0. PICK s : s = [seg EXCEPT !.flags = file[6]]
    OBVIOUS
  <2>1. /\ Shaped(s) /\ s.err = "ok" /\ s.Columns = <<>> /\ s.PK = <<>>
        /\ s.count = file[3] /\ s.rows = file[4]
    BY <1>1, <2>0 DEF Shaped
  <2>2. CASE Keyed
    <3>1. Proceed("pkName", FlagsEnd, s)
      BY <1>3, <2>0, <2>2
    <3>2. FlagsEnd \in 0 .. Len(file)
      <4>1. Len(file) \in Nat /\ Len(file) >= 5
        BY <1>1, <1>3 DEF FlagsFit, Have
      <4>2. file[5] \in Nat
        BY <1>1, <4>1
      <4> QED
        BY <1>3, <4>1, <4>2 DEF FlagsFit, Have, FlagsEnd
    <3>3. /\ Stored' /\ HeaderKnown' /\ UNCHANGED file
          /\ phase' = "pkName" /\ off' = FlagsEnd /\ seg' = s
      BY <1>1, <3>1, <3>2, ProceedStep
    <3>4. Progress'
      BY <1>1, <1>3, <2>1, <2>2, <3>3, FileStays DEF Progress, Reading
    <3> QED
      BY <3>3, <3>4 DEF SegInv
  <2>3. CASE ~Keyed
    <3>1. Begin = FlagsEnd /\ PreludePK = <<>> /\ PreludeFits
      BY <1>1, <1>3, <2>3 DEF Begin, PreludePK, PreludeFits
    <3>2. Proceed("columns", Begin, s)
      BY <1>3, <2>0, <2>3, <3>1
    <3> QED
      BY <1>1, <2>1, <3>1, <3>2, ColumnsBegin
  <2> QED
    BY <2>2, <2>3
<1>4. off + 1 = 5 /\ off + 2 = 6
  BY <1>1
<1>5. CASE ReadFlags
  BY <1>1, <1>2, <1>3, <1>4, <1>5 DEF ReadFlags, FlagsFit, FlagsEnd, Keyed
<1>6. CASE ScanFlags
  <2>1. FlagsFit
    BY <1>1, <1>6, OnCourse DEF ScanFlags, Misread, PreludeFits
  <2>2. Len(file) >= 5 /\ file[5] \in Nat \ {0} /\ file[5] <= Len(file) - 5
    BY <1>1, <2>1, FileFits DEF FlagsFit, Have
  <2>3. /\ Streams(4, 1) /\ Streams(5, file[5]) /\ file[5] \in 1 .. MaxLen
        /\ ~(file[5] > MaxLen)
    BY <2>2, FileFits DEF Streams
  <2> QED
    BY <1>1, <1>3, <1>4, <1>6, <2>1, <2>3 DEF ScanFlags, FlagsEnd, Keyed
<1> QED
  BY <1>5, <1>6

\* The name of the key.
LEMMA PKNameStep ==
  ASSUME SegInv, ~Astray, ReadPKName \/ ScanPKName
  PROVE  SegInv'
<1>1. /\ phase = "pkName" /\ off = FlagsEnd /\ Shaped(seg) /\ seg.err = "ok"
      /\ seg.Columns = <<>> /\ HeaderFits /\ FlagsFit /\ Keyed
      /\ seg.count = file[3] /\ seg.rows = file[4] /\ file[2] = 2
      /\ off \in Nat
  BY OnCourse DEF SegInv, Stored, Progress, Reading, ReadPKName, ScanPKName
<1>2. ASSUME reader = "open", NEW err, Fail(err)
      PROVE  SegInv'
  BY <1>2, FailStep
<1>3. ASSUME NamePresent(off), Proceed("columns", NameEnd(off), [seg EXCEPT !.PK = NameAt(off)])
      PROVE  SegInv'
  <2> DEFINE s == [seg EXCEPT !.PK = NameAt(off)]
  <2>1. /\ Shaped(s) /\ s.err = "ok" /\ s.Columns = <<>> /\ s.PK = NameAt(off)
        /\ s.count = file[3] /\ s.rows = file[4]
    BY <1>1 DEF Shaped
  <2> HIDE DEF s
  <2>2. Begin = NameEnd(off) /\ PreludePK = NameAt(off) /\ PreludeFits
    BY <1>1, <1>3 DEF Begin, PreludePK, PreludeFits
  <2>3. Proceed("columns", Begin, s)
    BY <1>3, <2>2 DEF s
  <2> QED
    BY <1>1, <2>1, <2>2, <2>3, ColumnsBegin
<1>4. CASE ReadPKName
  BY <1>2, <1>3, <1>4 DEF ReadPKName
<1>5. CASE ScanPKName
  <2>1. NamePresent(off)
    BY <1>1, <1>5, OnCourse DEF ScanPKName, Misread, PreludeFits
  <2>2. Scans(off)
    BY <1>1, <2>1, NameScans
  <2> QED
    BY <1>3, <1>5, <2>1, <2>2 DEF ScanPKName, Scans, NameEnd, NameAt
<1> QED
  BY <1>4, <1>5

\* The next column.
LEMMA ColumnStep ==
  ASSUME SegInv, ~Astray, ReadColumnMeta \/ ScanColumnMeta
  PROVE  SegInv'
<1>1. /\ phase = "columns" /\ Shaped(seg) /\ seg.err = "ok" /\ HeaderFits /\ PreludeFits
      /\ seg.count = file[3] /\ seg.rows = file[4] /\ seg.PK = PreludePK
      /\ Len(seg.Columns) < seg.count /\ file \in Seq(Nat)
      /\ off \in 0 .. Len(file)
  BY OnCourse DEF SegInv, Stored, Progress, Reading, ReadColumnMeta, ScanColumnMeta
<1>2. PICK s : Reads(s, seg.Columns) /\ off = s[Len(s)]
  BY <1>1, OnCourse DEF Progress
<1>3. /\ Len(seg.Columns) \in Nat /\ Len(s) = Len(seg.Columns) + 1 /\ Walk(s)
      /\ seg.Columns \in Seq(ColumnsHere)
  BY <1>2 DEF Reads
<1>4. Len(file) \in Nat /\ Len(file) >= 4 /\ file[3] \in Nat /\ off \in Nat
  BY <1>1 DEF HeaderFits, Have
<1>5. Len(s) <= file[3]
  <2>1. Len(seg.Columns) < file[3]
    BY <1>1
  <2>2. Len(seg.Columns) \in Nat /\ Len(s) = Len(seg.Columns) + 1
    BY <1>3
  <2>3. file[3] \in Nat
    BY <1>4
  <2> QED
    BY <2>1, <2>2, <2>3
<1>6. reader = "header" => ColumnFits(off)
  BY <1>2, <1>3, <1>5, OnCourse DEF Misread
<1>7. ASSUME reader = "open", NEW err, Fail(err)
      PROVE  SegInv'
  BY <1>7, FailStep
<1>8. ASSUME ColumnFits(off), NEW c, c = ColumnAt(off), NEW t, Shaped(t), t.err = "ok",
             t.Columns = Append(seg.Columns, c), t.PK = seg.PK, t.count = seg.count,
             t.rows = seg.rows, Proceed("columns", ColumnEnd(off), t)
      PROVE  SegInv'
  <2>1. /\ Shaped(t) /\ t.err = "ok" /\ t.Columns = Append(seg.Columns, c)
        /\ t.PK = PreludePK /\ t.count = file[3] /\ t.rows = file[4]
    BY <1>1, <1>8
  <2>2. ColumnEnd(off) \in 0 .. Len(file) /\ ColumnEnd(off) \in Nat
    BY <1>1, <1>4, <1>8, EndsInside
  <2>3. /\ Stored' /\ HeaderKnown' /\ UNCHANGED file
        /\ phase' = "columns" /\ off' = ColumnEnd(off) /\ seg' = t
    BY <1>1, <1>8, <2>2, ProceedStep
  <2>4. PICK w : w = Append(s, ColumnEnd(off))
    OBVIOUS
  <2>5. Reads(w, t.Columns)
    BY <1>2, <1>8, <2>1, <2>2, <2>4, WalkGoesOn
  <2>6. w[Len(w)] = ColumnEnd(off)
    BY <1>3, <2>2, <2>4 DEF Walk
  <2>7. Reads(w, t.Columns)'
    BY <2>3, <2>5, FileStays
  <2>8. Reads(w, seg.Columns)'
    BY <2>3, <2>7
  <2>9. \E v : Reads(v, seg.Columns)' /\ (phase' = "columns" => off' = v[Len(v)])
    BY <2>3, <2>6, <2>8
  <2>10. Len(t.Columns) <= t.count
    BY <1>1, <1>3, <1>4, <1>8, <2>1 DEF ColumnsHere
  <2>11. Progress'
    <3>1. PreludeFits' /\ HeaderFits' /\ PreludePK' = PreludePK
      BY <1>1, <2>3, FileStays
    <3> QED
      BY <2>1, <2>3, <2>9, <2>10, <3>1 DEF Progress, Reading
  <2> QED
    BY <2>3, <2>11 DEF SegInv
<1>9. PICK c : c = ColumnAt(off)
  OBVIOUS
<1>10. CASE ReadColumnMeta
  <2>1. PICK b : b = [encoding |-> EncodingTag(off), off |-> PayloadOff(off), len |-> PayloadLen(off)]
    OBVIOUS
  <2>2. PICK t : t = [seg EXCEPT !.Columns = Append(@, c), !.blocks = Append(@, b)]
    OBVIOUS
  <2>3. /\ Shaped(t) /\ t.err = "ok" /\ t.Columns = Append(seg.Columns, c) /\ t.PK = seg.PK
        /\ t.count = seg.count /\ t.rows = seg.rows
    BY <1>1, <2>2 DEF Shaped
  <2>4. ASSUME TagsPresent(off), ~BadType(off), PayloadPresent(off),
               Proceed("columns", PayloadOff(off) + PayloadLen(off), t)
        PROVE  SegInv'
    BY <1>8, <1>9, <2>3, <2>4 DEF ColumnFits, ColumnEnd
  <2> QED
    BY <1>7, <1>9, <1>10, <2>1, <2>2, <2>4 DEF ReadColumnMeta, ColumnAt
<1>11. CASE ScanColumnMeta
  <2>1. ColumnFits(off) /\ Scans(off)
    BY <1>4, <1>6, <1>11, NameScans DEF ScanColumnMeta, ColumnFits, TagsPresent
  <2>2. PICK n, tags, len : n = file[off + 1] /\ tags = off + 1 + n /\ len = file[tags + 3]
    OBVIOUS
  <2>3. /\ n \in Nat /\ n <= MaxLen /\ ~(n > MaxLen) /\ tags \in Nat /\ tags = NameEnd(off)
        /\ len = PayloadLen(off) /\ PayloadOff(off) = tags + 3
    BY <1>4, <2>1, <2>2 DEF Scans, NameEnd, PayloadLen, PayloadOff
  <2>4. /\ tags + 2 <= Len(file) /\ tags + 3 <= Len(file) /\ len <= Len(file) - (tags + 3)
    <3>1. 2 <= Len(file) - tags /\ 1 <= Len(file) - (tags + 2) /\ len <= Len(file) - (tags + 3)
      BY <2>1, <2>3 DEF ColumnFits, TagsPresent, PayloadPresent, Have
    <3> QED
      BY <1>4, <2>3, <3>1
  <2>5. len \in Nat
    <3>1. PICK i : i = tags + 3
      OBVIOUS
    <3>2. i \in 1 .. Len(file)
      BY <1>4, <2>3, <2>4, <3>1
    <3> QED
      BY <1>1, <2>2, <3>1, <3>2, ElementOfSeq
  <2>6. Skipped(len) = len /\ Streams(off, 1) /\ Streams(tags + 3, len) /\ Streams(tags, 3)
    <3>1. Skipped(len) = len
      <4>1. ~(len > MaxInt)
        BY <1>4, <2>3, <2>4, <2>5, FileFits
      <4> QED
        BY <4>1 DEF Skipped
    <3>2. Streams(off, 1)
      BY <2>1 DEF Scans
    <3>3. Streams(tags + 3, len) /\ Streams(tags, 3)
      BY <1>4, <2>3, <2>4, <2>5 DEF Streams
    <3> QED
      BY <3>1, <3>2, <3>3
  <2>7. Streams(off + 1, n + 2)
    BY <1>4, <2>2, <2>3, <2>4 DEF Streams
  <2>8. file[tags + 1] \in KnownWireTypes
    BY <2>1, <2>3 DEF ColumnFits, BadType, WireTag
  <2>9. c = [name |-> SubSeq(file, off + 2, tags), type |-> TypeOf(file[tags + 1])]
    BY <1>9, <2>3 DEF ColumnAt, NameAt, WireTag
  <2>10. PICK t : t = [seg EXCEPT !.Columns = Append(@, c)]
    OBVIOUS
  <2>11. /\ Shaped(t) /\ t.err = "ok" /\ t.Columns = Append(seg.Columns, c) /\ t.PK = seg.PK
         /\ t.count = seg.count /\ t.rows = seg.rows
    BY <1>1, <2>10 DEF Shaped
  <2>12. Proceed("columns", tags + 3 + len, t)
    BY <1>11, <2>2, <2>3, <2>6, <2>7, <2>8, <2>9, <2>10 DEF ScanColumnMeta, Scanned
  <2>13. ColumnEnd(off) = tags + 3 + len
    BY <2>3 DEF ColumnEnd
  <2> QED
    BY <1>8, <1>9, <2>1, <2>11, <2>12, <2>13
<1> QED
  BY <1>10, <1>11

\* A step of the rest: nothing is read of the file's layout.
LEMMA OtherStep ==
  ASSUME SegInv, UNCHANGED <<source, written, writer, file, reader, phase, off, seg, hdr>>
  PROVE  SegInv'
<1>1. Stored'
  BY DEF SegInv, Stored
<1>2. Astray' \/ Progress'
  BY FileStays DEF SegInv, Astray, Progress, Reading
<1>3. HeaderKnown'
  BY FileStays DEF SegInv, HeaderKnown, HeaderResult
<1> QED
  BY <1>1, <1>2, <1>3 DEF SegInv

\* A reader that has read all columns.
LEMMA AllRead ==
  ASSUME SegInv, ~Astray, phase = "columns", Len(seg.Columns) = seg.count
  PROVE  /\ Shaped(seg) /\ seg.err = "ok" /\ HeaderFits /\ PreludeFits
         /\ seg.count = file[3] /\ seg.rows = file[4] /\ seg.PK = PreludePK
         /\ \E w : Reads(w, seg.Columns)
BY OnCourse DEF Progress, Reading

\* OpenSegment has what it wants behind the columns and returns.
LEMMA OpenStep ==
  ASSUME SegInv, ColumnsDone, NEW s, Open(s), Shaped(s), s.err = "ok",
         s.PK = seg.PK, s.Columns = seg.Columns, s.count = seg.count, s.rows = seg.rows
  PROVE  SegInv'
<1>1. /\ phase = "columns" /\ Len(seg.Columns) = seg.count /\ HeaderFits /\ PreludeFits
      /\ seg.count = file[3] /\ seg.rows = file[4] /\ seg.PK = PreludePK
      /\ reader = "open" /\ \E w : Reads(w, seg.Columns)
  BY AllRead DEF ColumnsDone, Astray
<1>2. PICK w : Reads(w, seg.Columns)
  BY <1>1
<1>3. /\ UNCHANGED <<source, written, writer, file, reader, off, hdr>> /\ seg' = s
      /\ phase' = "opened"
  BY DEF Open, writerVars
<1>4. Stored'
  BY <1>1, <1>3 DEF SegInv, Stored
<1>5. /\ HeaderFits' /\ PreludeFits' /\ PreludePK' = PreludePK /\ Reads(w, seg.Columns)'
  <2>1. Reads(w, s.Columns)'
    BY <1>2, <1>3, FileStays
  <2> QED
    BY <1>1, <1>3, <2>1, FileStays
<1>6. Progress'
  BY <1>1, <1>3, <1>5 DEF Progress, Reading
<1>7. HeaderKnown'
  BY <1>1, <1>3, FileStays DEF SegInv, HeaderKnown, HeaderResult
<1> QED
  BY <1>4, <1>6, <1>7 DEF SegInv

\* ReadSegmentHeader returns.
LEMMA ScanDoneStep ==
  ASSUME SegInv, ~Astray, ScanDone
  PROVE  SegInv'
<1>1. /\ phase = "columns" /\ Len(seg.Columns) = seg.count /\ HeaderFits /\ PreludeFits
      /\ seg.count = file[3] /\ seg.rows = file[4] /\ seg.PK = PreludePK
      /\ reader = "header" /\ seg.err = "ok" /\ \E w : Reads(w, seg.Columns)
  BY AllRead DEF ScanDone
<1>2. PICK w : Reads(w, seg.Columns)
  BY <1>1
<1>3. /\ UNCHANGED <<source, written, writer, file, reader, off, seg>> /\ phase' = "ended"
      /\ hdr' = [ok |-> TRUE, PK |-> PreludePK, Columns |-> seg.Columns, rows |-> file[4]]
  BY <1>1 DEF ScanDone, writerVars
<1>4. Stored'
  BY <1>1, <1>3 DEF SegInv, Stored
<1>5. Progress'
  BY <1>1, <1>3 DEF Progress, Reading
<1>6. hdr'.Columns = seg.Columns /\ hdr'.ok = TRUE
  BY <1>3
<1>7. Reads(w, hdr.Columns)'
  BY <1>2, <1>3, <1>6, FileStays
<1>8. HeaderResult'
  BY <1>1, <1>3, <1>6, <1>7, FileStays DEF HeaderResult
<1> QED
  BY <1>1, <1>3, <1>4, <1>5, <1>8 DEF SegInv, HeaderKnown

\* The filter's trailer, which OpenSegment alone reads.
LEMMA TrailerStep ==
  ASSUME SegInv, ReadTrailer
  PROVE  SegInv'
<1>1. ColumnsDone /\ reader = "open" /\ Shaped(seg) /\ seg.err = "ok"
  BY AllRead DEF ReadTrailer, ColumnsDone, Astray
<1>2. ASSUME NEW err, Fail(err)
      PROVE  SegInv'
  BY <1>1, <1>2, FailStep
<1>3. ASSUME NEW b, Open([seg EXCEPT !.bloom = b])
      PROVE  SegInv'
  <2>1. PICK s : s = [seg EXCEPT !.bloom = b]
    OBVIOUS
  <2>2. /\ Shaped(s) /\ s.err = "ok" /\ s.PK = seg.PK /\ s.Columns = seg.Columns
        /\ s.count = seg.count /\ s.rows = seg.rows
    BY <1>1, <2>1 DEF Shaped
  <2> QED
    BY <1>1, <1>3, <2>1, <2>2, OpenStep
<1> QED
  BY <1>2, <1>3 DEF ReadTrailer

\* No trailer.
LEMMA NoTrailerStep ==
  ASSUME SegInv, NoTrailer
  PROVE  SegInv'
<1>1. ColumnsDone /\ Shaped(seg) /\ seg.err = "ok" /\ Open(seg)
  BY AllRead DEF NoTrailer, ColumnsDone, Astray
<1> QED
  BY <1>1, OpenStep

Scan == ScanHeader \/ ScanFlags \/ ScanPKName \/ ScanColumnMeta \/ ScanDone

\* What a step of ReadSegmentHeader does at most.
Stays ==
  /\ reader = "header" /\ UNCHANGED <<source, written, writer, file, reader>>
  /\ phase' \in {"flags", "pkName", "columns", "ended", "panicked"}
  /\ off' \in 0 .. Len(file)
  /\ \/ hdr' = hdr
     \/ phase' = "ended" /\ \E p, c, r : hdr' = [ok |-> TRUE, PK |-> p, Columns |-> c, rows |-> r]

\* Astray or not, it stays inside the file.
LEMMA ScanStays ==
  ASSUME SegInv, Scan
  PROVE  Stays
<1>1. /\ file \in Seq(Nat) /\ Len(file) \in Nat /\ off \in Nat /\ off <= Len(file)
      /\ \A i \in 1 .. Len(file) : file[i] \in Nat
  BY DEF SegInv, Stored
<1>2. ASSUME NEW p \in {"flags", "pkName", "columns"}, NEW o \in 0 .. Len(file), NEW s, Proceed(p, o, s)
      PROVE  /\ UNCHANGED <<source, written, writer, file, reader, hdr>>
             /\ phase' = p /\ off' = o
  BY <1>2 DEF Proceed, writerVars
<1>3. ASSUME NEW err, Fail(err) \/ Panic
      PROVE  /\ UNCHANGED <<source, written, writer, file, reader, hdr, off>>
             /\ phase' \in {"ended", "panicked"}
  BY <1>3 DEF Fail, Panic, writerVars
<1>4. CASE ScanHeader
  <2>1. Streams(0, 4) => 4 \in 0 .. Len(file)
    BY <1>1 DEF Streams
  <2> QED
    BY <1>1, <1>2, <1>3, <1>4, <2>1 DEF ScanHeader, Stays
<1>5. PICK n : n = file[off + 1]
  OBVIOUS
<1>6. Streams(off, 1) => n \in Nat
  BY <1>1, <1>5 DEF Streams
<1>7. Streams(off, 1) /\ Streams(off + 1, n) => off + 1 + n \in 0 .. Len(file)
  BY <1>1, <1>6 DEF Streams
<1>8. CASE ScanFlags
  BY <1>1, <1>2, <1>3, <1>5, <1>7, <1>8 DEF ScanFlags, Stays
<1>9. CASE ScanPKName
  BY <1>1, <1>2, <1>3, <1>5, <1>7, <1>9 DEF ScanPKName, Stays
<1>10. CASE ScanColumnMeta
  <2>1. PICK tags : tags = off + 1 + n
    OBVIOUS
  <2>2. PICK len : len = file[tags + 3]
    OBVIOUS
  <2>3. Scanned(n) /\ Streams(tags, 3) => tags \in Nat /\ tags + 3 <= Len(file) /\ len \in Nat
    <3> SUFFICES ASSUME Scanned(n), Streams(tags, 3)
                 PROVE  tags \in Nat /\ tags + 3 <= Len(file) /\ len \in Nat
      OBVIOUS
    <3>1. n \in Nat
      BY <1>6 DEF Scanned
    <3>2. PICK i : i = tags + 3
      OBVIOUS
    <3>3. tags \in Nat /\ i \in 1 .. Len(file) /\ tags + 3 <= Len(file)
      BY <1>1, <2>1, <3>1, <3>2 DEF Streams
    <3>4. len \in Nat
      BY <1>1, <2>2, <3>2, <3>3, ElementOfSeq
    <3> QED
      BY <3>3, <3>4
  <2>4. len \in Nat => Skipped(len) \in Nat
    BY DEF Skipped
  <2>5. Scanned(n) /\ Streams(tags, 3) /\ Streams(tags + 3, Skipped(len))
          => tags + 3 + Skipped(len) \in 0 .. Len(file)
    BY <1>1, <2>3, <2>4 DEF Streams
  <2>6. \/ Panic \/ \E err : Fail(err)
        \/ /\ tags + 3 + Skipped(len) \in 0 .. Len(file)
           /\ \E s : Proceed("columns", tags + 3 + Skipped(len), s)
    BY <1>5, <1>10, <2>1, <2>2, <2>5 DEF ScanColumnMeta
  <2>7. reader = "header"
    BY <1>10 DEF ScanColumnMeta
  <2> QED
    BY <1>1, <1>2, <1>3, <2>6, <2>7 DEF Stays
<1>11. CASE ScanDone
  <2>1. /\ reader = "header" /\ UNCHANGED <<source, written, writer, file, reader, off>>
        /\ phase' = "ended"
        /\ hdr' = [ok |-> TRUE, PK |-> seg.PK, Columns |-> seg.Columns, rows |-> seg.rows]
    BY <1>11 DEF ScanDone, writerVars
  <2>2. PICK x, y, z : x = seg.PK /\ y = seg.Columns /\ z = seg.rows
    OBVIOUS
  <2>3. hdr' = [ok |-> TRUE, PK |-> x, Columns |-> y, rows |-> z]
    BY <2>1, <2>2
  <2>4. \E p, c, r : hdr' = [ok |-> TRUE, PK |-> p, Columns |-> c, rows |-> r]
    BY <2>3
  <2>5. off' \in 0 .. Len(file)
    BY <1>1, <2>1
  <2> QED
    BY <2>1, <2>4, <2>5 DEF Stays
<1>12. ScanHeader \/ ScanFlags \/ ScanPKName \/ ScanColumnMeta \/ ScanDone
  BY DEF Scan
<1> QED
  BY <1>4, <1>8, <1>9, <1>10, <1>11, <1>12

\* Astray, nothing is known of ReadSegmentHeader, and nothing is lost.
LEMMA AstrayStep ==
  ASSUME SegInv, Astray, Scan
  PROVE  SegInv'
<1>1. /\ reader = "header" /\ UNCHANGED <<source, written, writer, file, reader>>
      /\ phase' \in {"flags", "pkName", "columns", "ended", "panicked"}
      /\ off' \in 0 .. Len(file)
  BY ScanStays DEF Stays
<1>2. Stored'
  BY <1>1 DEF SegInv, Stored
<1>3. Misread' /\ Astray'
  BY <1>1, FileStays DEF Astray
<1>4. hdr = NoResult
  BY DEF SegInv, HeaderKnown, Scan, ScanHeader, ScanFlags, ScanPKName, ScanColumnMeta, ScanDone
<1>5. hdr' = NoResult \/ (phase' = "ended" /\ hdr'.ok = TRUE)
  <2>1. CASE hdr' = hdr
    BY <1>4, <2>1
  <2>2. CASE phase' = "ended" /\ \E p, c, r : hdr' = [ok |-> TRUE, PK |-> p, Columns |-> c, rows |-> r]
    <3>1. PICK p, c, r : hdr' = [ok |-> TRUE, PK |-> p, Columns |-> c, rows |-> r]
      BY <2>2
    <3>2. hdr'.ok = TRUE
      BY <3>1
    <3> QED
      BY <2>2, <3>2
  <2> QED
    BY <2>1, <2>2, ScanStays DEF Stays
<1>6. HeaderKnown'
  <2>1. NoResult.ok = FALSE
    BY DEF NoResult
  <2>2. hdr'.ok \in BOOLEAN
    BY <1>5, <2>1
  <2> QED
    BY <1>1, <1>3, <1>5, <2>2 DEF HeaderKnown, HeaderResult
<1> QED
  BY <1>2, <1>3, <1>6 DEF SegInv

\* A step of ReadSegmentHeader.
LEMMA ScanStep ==
  ASSUME SegInv, Scan
  PROVE  SegInv'
<1>1. CASE Astray
  BY <1>1, AstrayStep
<1>2. CASE ~Astray
  BY <1>2, HeaderStep, FlagsStep, PKNameStep, ColumnStep, ScanDoneStep DEF Scan
<1> QED
  BY <1>1, <1>2

\* Every step.
LEMMA SegStep == SegInv /\ [Next]_vars => SegInv'
<1> SUFFICES ASSUME SegInv, [Next]_vars PROVE SegInv'
  OBVIOUS
<1>1. CASE WriteChunk \/ WriteFails
  BY <1>1, WritingStep
<1>2. CASE StartReader
  BY <1>2, StartStep
<1>3. CASE Scan
  BY <1>3, ScanStep
<1>4. ASSUME reader = "open"
      PROVE  ~Astray
  BY <1>4 DEF Astray
<1>5. CASE ReadHeader
  BY <1>4, <1>5, HeaderStep DEF ReadHeader
<1>6. CASE ReadFlags
  BY <1>4, <1>6, FlagsStep DEF ReadFlags
<1>7. CASE ReadPKName
  BY <1>4, <1>7, PKNameStep DEF ReadPKName
<1>8. CASE ReadColumnMeta
  BY <1>4, <1>8, ColumnStep DEF ReadColumnMeta
<1>9. CASE ReadTrailer
  BY <1>9, TrailerStep
<1>10. CASE NoTrailer
  BY <1>10, NoTrailerStep
<1>11. CASE ReadAColumn
  BY <1>11, OtherStep DEF ReadAColumn, ReadColumn, writerVars
<1>12. CASE Inspect
  BY <1>12, OtherStep DEF Inspect, writerVars
<1>13. CASE UNCHANGED vars
  BY <1>13, OtherStep DEF vars
<1> QED
  BY <1>1, <1>2, <1>3, <1>5, <1>6, <1>7, <1>8, <1>9, <1>10, <1>11, <1>12, <1>13
  DEF Next, Scan

-----------------------------------------------------------------------------
(* Agreement.                                                              *)

\* Two walks that read as many columns read the same ones.
LEMMA SameColumns ==
  ASSUME NEW s, NEW c, Reads(s, c), NEW t, NEW d, Reads(t, d), Len(c) = Len(d)
  PROVE  c = d
<1>1. /\ c \in Seq(ColumnsHere) /\ d \in Seq(ColumnsHere) /\ Walk(s) /\ Walk(t)
      /\ Len(s) = Len(c) + 1 /\ Len(t) = Len(s) /\ Len(c) \in Nat
  BY DEF Reads
<1>2. \A i \in 1 .. Len(s) : s[i] = t[i]
  BY <1>1, WalksAgree
<1>3. ASSUME NEW i \in 1 .. Len(c)
      PROVE  c[i] = d[i]
  BY <1>1, <1>2 DEF Reads
<1> QED
  BY <1>1, <1>3, SeqEqual

\* A walk that goes far enough finds every column before its end good.
LEMMA NothingMisread ==
  ASSUME PreludeFits, file[3] \in Nat,
         NEW s, NEW c, Reads(s, c), Len(c) = file[3]
  PROVE  ~Misread
<1> SUFFICES ASSUME NEW t, Walk(t), Len(t) <= file[3], ~ColumnFits(t[Len(t)])
             PROVE  FALSE
  BY DEF Misread
<1>1. /\ Walk(s) /\ Len(s) = file[3] + 1 /\ Len(t) \in Nat /\ Len(t) >= 1
  <2>1. Walk(s) /\ Len(s) = Len(c) + 1
    BY DEF Reads
  <2>2. t \in Seq(Nat) /\ t # <<>>
    BY DEF Walk
  <2> QED
    BY <2>1, <2>2
<1>2. s[Len(t)] = t[Len(t)]
  BY <1>1, WalksAgree
<1>3. ColumnFits(s[Len(t)])
  BY <1>1 DEF Walk
<1> QED
  BY <1>2, <1>3

\* What the readers know makes them agree.
LEMMA KnownAgrees == SegInv => HeaderAgrees
<1> SUFFICES ASSUME SegInv, phase = "opened"
             PROVE  hdr = [ok |-> TRUE, PK |-> seg.PK, Columns |-> seg.Columns, rows |-> seg.rows]
  BY DEF HeaderAgrees
<1>1. /\ reader = "open" /\ HeaderResult /\ PreludeFits /\ file \in Seq(Nat)
      /\ seg.PK = PreludePK /\ seg.rows = file[4] /\ Len(seg.Columns) = file[3]
  BY DEF SegInv, Stored, Progress, HeaderKnown, Astray
<1>2. PICK s : Reads(s, seg.Columns)
  BY <1>1 DEF SegInv, Progress, Astray
<1>3. file[3] \in Nat
  BY <1>1 DEF PreludeFits, HeaderFits, Have
<1>4. ~Misread
  BY <1>1, <1>2, <1>3, NothingMisread
<1>5. /\ hdr = [ok |-> TRUE, PK |-> PreludePK, Columns |-> hdr.Columns, rows |-> file[4]]
      /\ \E t : Reads(t, hdr.Columns) /\ Len(hdr.Columns) = file[3]
  BY <1>1, <1>4 DEF HeaderResult
<1>6. hdr.Columns = seg.Columns
  BY <1>1, <1>2, <1>5, SameColumns
<1> QED
  BY <1>1, <1>5, <1>6

\* Of every file OpenSegment opens, ReadSegmentHeader has returned the same
\* key, columns and row count, though the two are separate parsers, one on a
\* stream and one in memory, and the first can panic or lose its way in a file
\* the second refuses (storage/segment.go): whatever the file, torn and
\* foreign ones included.
THEOREM ReadersAgree == Spec => []HeaderAgrees
<1>1. Init => SegInv
  BY SegInit
<1>2. SegInv /\ [Next]_vars => SegInv'
  BY SegStep
<1>3. SegInv => HeaderAgrees
  BY KnownAgrees
<1> QED
  BY <1>1, <1>2, <1>3, PTL DEF Spec

-----------------------------------------------------------------------------
(* The columns that have been decoded.                                     *)

Cached ==
  /\ \E S : decoded \in Seq(S)
  /\ \A i, j \in DOMAIN decoded : decoded[i].name = decoded[j].name => i = j

\* A column is decoded once, and what is decoded is otherwise left alone.
LEMMA CachedStep == Cached /\ [Next]_vars => Cached'
<1> SUFFICES ASSUME Cached, [Next]_vars PROVE Cached'
  OBVIOUS
<1>1. CASE UNCHANGED decoded
  BY <1>1 DEF Cached
<1>2. CASE ReadAColumn
  <2>1. PICK i \in DOMAIN seg.Columns : ReadColumn(seg.Columns[i].name)
    BY <1>2 DEF ReadAColumn
  <2>2. PICK name : name = seg.Columns[i].name
    OBVIOUS
  <2>3. PICK e : e = [name |-> name, ok |-> Decode(name).ok, out |-> Decode(name).out]
    OBVIOUS
  <2>4. e.name = name
    BY <2>3
  <2>5. /\ \A d \in { decoded[k] : k \in DOMAIN decoded } : d.name # name
        /\ decoded' = Append(decoded, e)
    BY <2>1, <2>2, <2>3 DEF ReadColumn
  <2>6. PICK S : decoded \in Seq(S)
    BY DEF Cached
  <2>7. PICK T : T = S \cup {e}
    OBVIOUS
  <2>8. decoded \in Seq(T) /\ e \in T
    BY <2>6, <2>7
  <2>9. /\ decoded' \in Seq(T) /\ Len(decoded') = Len(decoded) + 1
        /\ Len(decoded) \in Nat /\ DOMAIN decoded = 1 .. Len(decoded)
        /\ DOMAIN decoded' = 1 .. (Len(decoded) + 1)
        /\ \A k \in 1 .. Len(decoded) : decoded'[k] = decoded[k]
        /\ decoded'[Len(decoded) + 1] = e
    BY <2>5, <2>8
  <2>10. ASSUME NEW k \in DOMAIN decoded', NEW l \in DOMAIN decoded',
                decoded'[k].name = decoded'[l].name
         PROVE  k = l
    <3>1. ASSUME NEW n \in 1 .. Len(decoded)
          PROVE  decoded'[n].name # name
      BY <2>5, <2>9
    <3>2. k \in 1 .. Len(decoded) /\ l \in 1 .. Len(decoded) => k = l
      BY <2>9, <2>10 DEF Cached
    <3>3. k = Len(decoded) + 1 => l = Len(decoded) + 1
      BY <2>4, <2>9, <2>10, <3>1
    <3>4. l = Len(decoded) + 1 => k = Len(decoded) + 1
      BY <2>4, <2>9, <2>10, <3>1
    <3> QED
      BY <2>9, <3>2, <3>3, <3>4
  <2> QED
    BY <2>9, <2>10 DEF Cached
<1> QED
  BY <1>1, <1>2
  DEF Next, vars, WriteChunk, WriteFails, StartReader, ScanHeader, ScanFlags, ScanPKName,
      ScanColumnMeta, ScanDone, ReadHeader, ReadFlags, ReadPKName, ReadColumnMeta,
      ReadTrailer, NoTrailer, Inspect, Fail, Panic, Open, Proceed, readerVars

\* Only what is opened has been decoded, and it is as long as the header says.
Aligned == ColumnsAlign /\ (decoded # <<>> => phase = "opened")

\* Whatever the payload, a decoding that succeeds gives the rows asked for.
LEMMA DecodesRows ==
  ASSUME NEW name, Decode(name).ok
  PROVE  Len(Decode(name).out) = seg.rows
<1>1. ASSUME NEW st, NEW rows, Finish(st, rows).ok
      PROVE  Len(Finish(st, rows).out) = rows
  BY <1>1 DEF Finish
<1>2. PICK type, payload, rows :
        /\ rows = seg.rows
        /\ \/ Decode(name) = DecodeRLE(type, payload, rows)
           \/ Decode(name) = DecodeRaw(type, payload, rows)
  <2>1. PICK type, payload, rows :
          /\ rows = seg.rows /\ type = TypeOfColumn(name)
          /\ payload = SubSeq(file, BlockOf(name).off + 1, BlockOf(name).off + BlockOf(name).len)
    OBVIOUS
  <2> QED
    BY <2>1 DEF Decode
<1>3. CASE Decode(name) = DecodeRLE(type, payload, rows)
  <2>1. PICK st : st = DecodeTurns(type, payload, rows)[Len(payload)]
    OBVIOUS
  <2>2. Decode(name) = Finish(st, rows)
    BY <1>3, <2>1 DEF DecodeRLE
  <2> QED
    BY <1>1, <1>2, <2>2
<1>4. CASE Decode(name) = DecodeRaw(type, payload, rows)
  <2>1. PICK st : st = RawTurns(type, payload, rows)[Len(payload)]
    OBVIOUS
  <2>2. Decode(name) = Finish(st, rows)
    BY <1>4, <2>1 DEF DecodeRaw
  <2> QED
    BY <1>1, <1>2, <2>2
<1> QED
  BY <1>2, <1>3, <1>4

\* A step decodes one column of what is opened, or none.
LEMMA AlignedStep == SegInv /\ Cached /\ Aligned /\ [Next]_vars => Aligned'
<1> SUFFICES ASSUME SegInv, Cached, Aligned, [Next]_vars PROVE Aligned'
  OBVIOUS
<1>1. CASE ReadAColumn
  <2>1. PICK i \in DOMAIN seg.Columns : ReadColumn(seg.Columns[i].name)
    BY <1>1 DEF ReadAColumn
  <2>2. PICK name : name = seg.Columns[i].name
    OBVIOUS
  <2>3. PICK e : e = [name |-> name, ok |-> Decode(name).ok, out |-> Decode(name).out]
    OBVIOUS
  <2>4. e.ok => Len(e.out) = seg.rows
    BY <2>3, DecodesRows
  <2>5. decoded' = Append(decoded, e) /\ phase = "opened" /\ UNCHANGED <<phase, seg>>
    BY <2>1, <2>2, <2>3 DEF ReadColumn
  <2>6. PICK S : decoded \in Seq(S)
    BY DEF Cached
  <2>7. PICK T : T = S \cup {e}
    OBVIOUS
  <2>8. decoded \in Seq(T) /\ e \in T
    BY <2>6, <2>7
  <2>9. /\ Len(decoded) \in Nat /\ DOMAIN decoded = 1 .. Len(decoded)
        /\ DOMAIN decoded' = 1 .. (Len(decoded) + 1)
        /\ \A k \in 1 .. Len(decoded) : decoded'[k] = decoded[k]
        /\ decoded'[Len(decoded) + 1] = e
    BY <2>5, <2>8
  <2>10. ASSUME NEW k \in DOMAIN decoded'
         PROVE  decoded'[k].ok => Len(decoded'[k].out) = seg.rows
    <3>1. CASE k \in 1 .. Len(decoded)
      BY <2>9, <3>1 DEF Aligned, ColumnsAlign
    <3>2. CASE k = Len(decoded) + 1
      BY <2>4, <2>9, <3>2
    <3> QED
      BY <2>9, <3>1, <3>2
  <2> QED
    BY <2>5, <2>10 DEF Aligned, ColumnsAlign
<1>2. CASE UNCHANGED <<phase, seg, decoded>>
  BY <1>2 DEF Aligned, ColumnsAlign
<1>3. CASE phase # "opened" /\ UNCHANGED decoded
  <2>1. decoded' = <<>>
    BY <1>3 DEF Aligned
  <2>2. DOMAIN decoded' = {}
    BY <2>1
  <2> QED
    BY <2>1, <2>2 DEF Aligned, ColumnsAlign
<1>4. WriteChunk \/ WriteFails \/ Inspect \/ UNCHANGED vars => UNCHANGED <<phase, seg, decoded>>
  BY DEF WriteChunk, WriteFails, Inspect, readerVars, vars
<1>5. StartReader \/ Scan => phase # "opened" /\ UNCHANGED decoded
  BY DEF StartReader, Scan, ScanHeader, ScanFlags, ScanPKName, ScanColumnMeta, ScanDone,
         Fail, Panic, Proceed
<1>6. ReadHeader \/ ReadFlags \/ ReadPKName => phase # "opened" /\ UNCHANGED decoded
  BY DEF ReadHeader, ReadFlags, ReadPKName, Fail, Proceed
<1>7. ReadColumnMeta \/ ReadTrailer \/ NoTrailer => phase # "opened" /\ UNCHANGED decoded
  BY DEF ReadColumnMeta, ReadTrailer, NoTrailer, ColumnsDone, Fail, Open, Proceed
<1> QED
  BY <1>1, <1>2, <1>3, <1>4, <1>5, <1>6, <1>7 DEF Next, Scan

\* Every column that decodes has as many values as the header counts rows,
\* whatever the file says of run lengths, payloads and names
\* (storage/rle.go, storage/encoding.go, storage/segment.go ReadColumn).
THEOREM ColumnsAligned == Spec => []ColumnsAlign
<1>1. Init => SegInv /\ Cached /\ Aligned
  <2> SUFFICES ASSUME Init PROVE Cached /\ Aligned
    BY SegInit
  <2>1. decoded = <<>>
    BY DEF Init
  <2>2. decoded \in Seq({}) /\ DOMAIN decoded = {}
    BY <2>1
  <2> QED
    BY <2>1, <2>2 DEF Cached, Aligned, ColumnsAlign
<1>2. SegInv /\ Cached /\ Aligned /\ [Next]_vars => (SegInv /\ Cached /\ Aligned)'
  BY SegStep, CachedStep, AlignedStep
<1>3. Aligned => ColumnsAlign
  BY DEF Aligned
<1> QED
  BY <1>1, <1>2, <1>3, PTL DEF Spec

\* The readers stay inside the file, whatever lengths it holds, and a column
\* is decoded once (storage/segment.go parseSegment, ReadColumn).
THEOREM ReadersStayInside == Spec => []TypeOK
<1>1. Init => SegInv /\ Cached
  <2>1. Init => Cached
    <3> SUFFICES ASSUME Init PROVE Cached
      OBVIOUS
    <3>1. decoded = <<>>
      BY DEF Init
    <3>2. decoded \in Seq({}) /\ DOMAIN decoded = {}
      BY <3>1
    <3> QED
      BY <3>2 DEF Cached
  <2> QED
    BY <2>1, SegInit
<1>2. SegInv /\ Cached /\ [Next]_vars => (SegInv /\ Cached)'
  BY SegStep, CachedStep
<1>3. SegInv /\ Cached => TypeOK
  <2> SUFFICES ASSUME SegInv, Cached PROVE TypeOK
    OBVIOUS
  <2>1. hdr.ok \in BOOLEAN
    <3>1. hdr = NoResult \/ hdr.ok \in BOOLEAN
      BY DEF SegInv, HeaderKnown, HeaderResult
    <3>2. NoResult.ok = FALSE
      BY DEF NoResult
    <3> QED
      BY <3>1, <3>2
  <2> QED
    BY <2>1 DEF SegInv, Stored, Cached, TypeOK
<1> QED
  BY <1>1, <1>2, <1>3, PTL DEF Spec
=============================================================================
