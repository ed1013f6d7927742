----------------------------- MODULE TableProofs -----------------------------
(***************************************************************************)
(* Proofs about Table, for every choice of its constants: its types, its   *)
(* safety properties and its refinement of UniqueStore.  Then about Load,  *)
(* which drives a Table, so that what is proved of tables holds of every   *)
(* `uniqcol load`; and its counters, exit code and output file are right.  *)
(***************************************************************************)
EXTENDS Load, TLAPS, FiniteSetTheorems, WellFoundedInduction

-----------------------------------------------------------------------------
(* The filter.                                                             *)

\* Every position a key probes is a position of the bit array, also when
\* h1 + i*h2 wraps around.
LEMMA ProbeRange ==
  ASSUME NEW f, f.m \in Nat \ {0}, f.k \in Nat, NEW key \in Bits,
         NEW i \in 0 .. (f.k - 1)
  PROVE  Probe(f, key, i) \in 0 .. (f.m - 1)
<1>1. H1[key] \in Int /\ H2[key] \in Int /\ i \in Int
  BY HashAssumption, WordAssumption
<1>2. \A a, b, c \in Int : a + b * c \in Int
  OBVIOUS
<1>3. H1[key] + i * H2[key] \in Int
  BY <1>1, <1>2
<1>4. \A a \in Int, w \in Nat \ {0} : a % w \in 0 .. (w - 1)
  OBVIOUS
<1>5. (H1[key] + i * H2[key]) % Word \in Int
  BY <1>3, <1>4, WordAssumption
<1> QED
  BY <1>4, <1>5 DEF Probe

\* Probes fall inside the bit array.
LEMMA IndicesRange ==
  ASSUME NEW f \in Filter, NEW key \in Bits
  PROVE  Indices(f, key) \subseteq 0 .. (f.m - 1)
<1>1. f.m \in Nat \ {0} /\ f.k \in Nat
  BY DEF Filter, minK, maxK
<1> QED
  BY <1>1, ProbeRange DEF Indices

\* Add changes neither m nor k, so every key keeps its positions.
LEMMA AddKeepsIndices ==
  ASSUME NEW f \in Filter, NEW key, NEW other
  PROVE  /\ BloomAdd(f, key).m = f.m
         /\ BloomAdd(f, key).k = f.k
         /\ Indices(BloomAdd(f, key), other) = Indices(f, other)
<1>1. BloomAdd(f, key).m = f.m /\ BloomAdd(f, key).k = f.k
  BY DEF BloomAdd, Filter
<1> QED
  BY <1>1 DEF Indices, Probe

\* Add returns a filter.
LEMMA AddType ==
  ASSUME NEW f \in Filter, NEW key \in Bits
  PROVE  BloomAdd(f, key) \in Filter
<1> DEFINE bits == f.bits \cup Indices(f, key)
<1>0. f \in [m : Nat \ {0}, k : minK .. maxK, bits : SUBSET Nat, nAdded : Nat]
  BY DEF Filter
<1>1. /\ f.m \in Nat \ {0} /\ f.k \in minK .. maxK /\ f.nAdded \in Nat
      /\ f.bits \subseteq 0 .. (f.m - 1)
  BY DEF Filter
<1>2. bits \subseteq 0 .. (f.m - 1)
  BY <1>1, IndicesRange
<1>3. bits \in SUBSET Nat
  BY <1>1, <1>2
<1>4. /\ BloomAdd(f, key).bits = bits
      /\ BloomAdd(f, key).m = f.m
  BY <1>0 DEF BloomAdd
<1>5. BloomAdd(f, key) \in
        [m : Nat \ {0}, k : minK .. maxK, bits : SUBSET Nat, nAdded : Nat]
  <2>1. f.nAdded + 1 \in Nat
    BY <1>1
  <2> QED
    BY <1>0, <1>3, <2>1 DEF BloomAdd
<1> HIDE DEF bits
<1> QED
  BY <1>2, <1>4, <1>5 DEF Filter

\* nil is not a filter.
LEMMA NilIsNoFilter == NoFilter \notin Filter
  BY DEF NoFilter, Filter

\* New returns a well-formed filter for every pair of parameters it accepts.
LEMMA NewType ==
  ASSUME NEW n \in 0 .. MaxItems, NEW p \in 0 .. 100, ValidParameters(n, p)
  PROVE  BloomNew(n, p) \in Filter
<1> DEFINE m == IF OptimalM[n][p] = 0 THEN 1 ELSE OptimalM[n][p]
           top == 2 * m * 693 + n * 1000
           bot == 2 * n * 1000
<1>1. n \in 1 .. MaxItems /\ n \in Nat \ {0} /\ p \in 1 .. 99
  BY SizeAssumption DEF ValidParameters
<1>2. m \in Nat \ {0}
  <2>1. OptimalM[n] \in [1 .. 99 -> Nat]
    BY <1>1, SizeAssumption
  <2>2. OptimalM[n][p] \in Nat
    BY <1>1, <2>1
  <2> QED
    BY <2>2
<1>3. ProbeCount(m, n) \in minK .. maxK
  <2> HIDE DEF m
  <2>1. top \in Int /\ bot \in Nat \ {0}
    BY <1>1, <1>2
  <2>2. ProbeCount(m, n) = IF top \div bot < minK THEN minK
                           ELSE IF top \div bot > maxK THEN maxK
                           ELSE top \div bot
    BY DEF ProbeCount
  <2> HIDE DEF top, bot
  <2>3. \A a \in Int, b \in Nat \ {0} : a \div b \in Int
    OBVIOUS
  <2>4. top \div bot \in Int
    BY <2>1, <2>3
  <2> QED
    BY <2>2, <2>4 DEF minK, maxK
<1>4. BloomNew(n, p) = [m |-> m, k |-> ProbeCount(m, n), bits |-> {}, nAdded |-> 0]
  BY DEF BloomNew
<1> HIDE DEF m
<1> QED
  BY <1>2, <1>3, <1>4 DEF Filter

-----------------------------------------------------------------------------
(* Schemas and buffers.                                                    *)

\* In a schema that passed Validate the key column exists.
LEMMA PKIndexRange ==
  ASSUME NEW s \in Schema, Validate(s) = "ok"
  PROVE  /\ PKIndex(s) \in 1 .. Len(s.Columns)
         /\ s.Columns[PKIndex(s)].name = s.PK
<1>1. s.Columns \in Seq(Column)
  BY DEF Schema
<1>2. DOMAIN s.Columns = 1 .. Len(s.Columns) /\ Len(s.Columns) \in Nat
  BY <1>1
<1>3. Len(s.Columns) # 0 /\ ~HasDuplicateColumn(s) /\ HasColumn(s, s.PK)
  BY DEF Validate
<1>4. PICK i \in DOMAIN s.Columns : s.Columns[i].name = s.PK
  BY <1>3 DEF HasColumn
<1>5. \A j \in 1 .. (i - 1) : s.Columns[j].name # s.PK
  <2> SUFFICES ASSUME NEW j \in 1 .. (i - 1), s.Columns[j].name = s.PK
               PROVE  FALSE
    OBVIOUS
  <2>1. i \in Nat /\ j \in DOMAIN s.Columns /\ i # j
    BY <1>2
  <2> QED
    BY <1>3, <1>4, <2>1 DEF HasDuplicateColumn
<1>6. /\ PKIndex(s) \in DOMAIN s.Columns
      /\ s.Columns[PKIndex(s)].name = s.PK
  BY <1>3, <1>4, <1>5, Zenon DEF PKIndex, ColumnIndex
<1> QED
  BY <1>2, <1>6

\* A fresh buffer has one empty column for every column of the schema.
LEMMA NewBufferType ==
  ASSUME NEW s \in Schema
  PROVE  /\ NewWriteBuffer(s) \in Buffer
         /\ Len(NewWriteBuffer(s).cols) = Len(s.Columns)
         /\ NewWriteBuffer(s).rows = 0
         /\ \A i \in 1 .. Len(NewWriteBuffer(s).cols) : NewWriteBuffer(s).cols[i] = <<>>
<1> DEFINE n == Len(s.Columns)
           cs == [i \in 1 .. n |-> <<>>]
<1>1. n \in Nat
  BY DEF Schema
<1> HIDE DEF n
<1>2. \A i \in 1 .. n : cs[i] \in Seq(Bits)
  OBVIOUS
<1>3. cs \in Seq(Seq(Bits)) /\ Len(cs) = n
  BY <1>1, <1>2
<1>4. NewWriteBuffer(s) = [cols |-> cs, rows |-> 0]
  BY DEF NewWriteBuffer, n
<1> QED
  BY <1>3, <1>4 DEF Buffer, n

\* Append adds one cell to every column.
LEMMA AppendType ==
  ASSUME NEW b \in Buffer, NEW row \in Row, Len(row) = Len(b.cols)
  PROVE  /\ BufferAppend(b, row) \in Buffer
         /\ Len(BufferAppend(b, row).cols) = Len(b.cols)
         /\ BufferAppend(b, row).rows = b.rows + 1
         /\ \A i \in 1 .. Len(b.cols) :
              BufferAppend(b, row).cols[i] = Append(b.cols[i], row[i].bits)
<1> DEFINE n == Len(b.cols)
           cs == [i \in 1 .. n |-> Append(b.cols[i], row[i].bits)]
<1>1. /\ b.cols \in Seq(Seq(Bits)) /\ b.rows \in Nat
      /\ n \in Nat /\ row \in Seq(Cell)
  BY DEF Buffer, Row
<1>2. \A i \in 1 .. n : b.cols[i] \in Seq(Bits) /\ row[i].bits \in Bits
  <2>1. \A i \in 1 .. n : b.cols[i] \in Seq(Bits) /\ row[i] \in Cell
    BY <1>1
  <2> QED
    BY <2>1 DEF Cell
<1>3. BufferAppend(b, row) = [cols |-> cs, rows |-> b.rows + 1]
  BY DEF BufferAppend
<1> HIDE DEF n
<1>4. \A i \in 1 .. n : cs[i] \in Seq(Bits)
  BY <1>2
<1>5. cs \in Seq(Seq(Bits)) /\ Len(cs) = n
  BY <1>1, <1>4
<1> QED
  BY <1>1, <1>3, <1>5 DEF Buffer, n

-----------------------------------------------------------------------------
(* Type correctness.                                                       *)

\* The initial states.
LEMMA TypeInit == Init => TypeOK
<1> SUFFICES ASSUME Init PROVE TypeOK
  OBVIOUS
<1>1. BlankSchema \in Schema
  BY NameAssumption DEF BlankSchema, Schema
<1>2. /\ buf \in Buffer /\ Len(buf.cols) = Len(schema.Columns)
      /\ schema \in Schema
  BY <1>1, NewBufferType DEF Init
<1>3. disk \in [Paths -> {NoFile, Torn} \cup Segment]
  <2>1. Foreign \subseteq Segment
    BY TableAssumption
  <2>2. disk \in [Paths -> {NoFile} \cup Foreign]
    BY DEF Init
  <2> QED
    BY <2>1, <2>2
<1>4. log \in Seq(Row) /\ accepted \in Nat /\ rejected \in Nat
  BY DEF Init
<1>5. saved \in [Paths -> SUBSET Bits]
  BY DEF Init
<1> QED
  BY <1>2, <1>3, <1>4, <1>5, Zenon DEF Init, TypeOK

\* Opening a table on a well-formed schema and filter keeps the types.
LEMMA OpenType ==
  ASSUME TypeOK, NEW s \in Schema, NEW f \in Filter \cup {NoFilter},
         NEW ks \in SUBSET Bits, Open(s, f, ks)
  PROVE  TypeOK'
<1>1. /\ buf' \in Buffer /\ Len(buf'.cols) = Len(schema'.Columns)
      /\ schema' \in Schema
  BY NewBufferType DEF Open
<1> QED
  BY <1>1 DEF Open, TypeOK

\* What LoadTable takes from a file is a well-formed schema and filter.
LEMMA LoadableType ==
  ASSUME TypeOK, NEW p \in Paths, Loadable(disk[p])
  PROVE  /\ disk[p] \in Segment
         /\ disk[p].bloom \in Filter
         /\ SchemaOf(disk[p]) \in Schema
         /\ Validate(SchemaOf(disk[p])) = "ok"
<1>1. disk[p].kind = "segment"
  BY DEF Loadable, LoadCheck
<1>2. disk[p] \in Segment
  BY <1>1 DEF TypeOK, NoFile, Torn
<1>3. disk[p].bloom # NoFilter /\ Validate(SchemaOf(disk[p])) = "ok"
  BY <1>1 DEF Loadable, LoadCheck
<1> QED
  BY <1>2, <1>3 DEF Segment, SchemaOf, Schema

\* An accepted row has a cell of the key column's type.
LEMMA KeyType ==
  ASSUME TypeOK, Session, opened, NEW row \in Row, RightLength(row)
  PROVE  /\ PKIndex(schema) \in 1 .. Len(schema.Columns)
         /\ Key(row) \in Bits
<1>1. PKIndex(schema) \in 1 .. Len(schema.Columns)
  BY PKIndexRange DEF TypeOK, Session
<1>2. row \in Seq(Cell) /\ Len(row) = Len(schema.Columns)
  BY DEF Row, RightLength
<1>3. row[PKIndex(schema)] \in Cell
  BY <1>1, <1>2
<1> QED
  BY <1>1, <1>3 DEF Key, PKCell, Cell

\* Accepting a row keeps the types.
LEMMA AcceptType ==
  ASSUME TypeOK, Session, opened, NEW row \in Row, RightLength(row), Accept(row)
  PROVE  TypeOK'
<1>1. /\ buf' \in Buffer
      /\ Len(buf'.cols) = Len(schema'.Columns)
  BY AppendType DEF TypeOK, Accept, RightLength
<1>2. Key(row) \in Bits
  BY KeyType
<1>3. bloom' \in Filter \cup {NoFilter}
  BY <1>2, AddType DEF TypeOK, Accept, Unique
<1>4. lineage' \in SUBSET Bits
  BY <1>2 DEF TypeOK, Accept
<1>5. log' \in Seq(Row)
  BY DEF TypeOK, Accept
<1> QED
  BY <1>1, <1>3, <1>4, <1>5 DEF TypeOK, Accept

\* A finished flush leaves a well-formed segment.
LEMMA ImageType ==
  ASSUME TypeOK
  PROVE  Image \in Segment
<1>1. schema.PK \in Names /\ schema.Columns \in Seq(Column)
  BY DEF TypeOK, Schema
<1>2. buf.cols \in Seq(Seq(Bits)) /\ buf.rows \in Nat
  BY DEF TypeOK, Buffer
<1> QED
  BY <1>1, <1>2 DEF TypeOK, Image, Segment

\* Every action keeps the types.
LEMMA TypeStep == TypeOK /\ Session /\ [Next]_vars => TypeOK'
<1> SUFFICES ASSUME TypeOK, Session, [Next]_vars PROVE TypeOK'
  OBVIOUS
<1>1. ASSUME NEW s \in Schemas, NEW o \in Options, CreateTable(s, o)
      PROVE  TypeOK'
  <2>1. s \in Schema /\ o \in Option
    BY TableAssumption
  <2>2. ASSUME NEW reason, Refuse(reason) PROVE TypeOK'
    BY <2>2 DEF Refuse, TypeOK, memory, history
  <2>3. ASSUME ValidParameters(o.BloomExpectedItems, o.BloomTargetFPR)
        PROVE  BloomNew(o.BloomExpectedItems, o.BloomTargetFPR) \in Filter
    BY <2>1, <2>3, NewType DEF Option
  <2> QED
    BY <1>1, <2>1, <2>2, <2>3, OpenType DEF CreateTable
<1>2. ASSUME NEW p \in Paths, LoadTable(p) PROVE TypeOK'
  <2>1. CASE ~Loadable(disk[p])
    BY <1>2, <2>1 DEF LoadTable, Refuse, TypeOK, memory, history
  <2>2. CASE Loadable(disk[p])
    <3>1. saved[p] \in SUBSET Bits
      BY DEF TypeOK
    <3>2. Open(SchemaOf(disk[p]), disk[p].bloom, saved[p])
      BY <1>2, <2>2 DEF LoadTable
    <3> QED
      BY <2>2, <3>1, <3>2, LoadableType, OpenType
  <2> QED
    BY <2>1, <2>2
<1>3. ASSUME NEW row \in Rows, Insert(row) PROVE TypeOK'
  <2>1. row \in Row
    BY TableAssumption
  <2>2. ASSUME NEW reason, Reject(reason) PROVE TypeOK'
    BY <2>2 DEF Reject, TypeOK, history
  <2>3. CASE RightLength(row) /\ Accept(row)
    BY <1>3, <2>1, <2>3, AcceptType DEF Insert, Ready
  <2> QED
    BY <1>3, <2>2, <2>3 DEF Insert
<1>4. ASSUME NEW p \in Paths, CreateOutput(p) PROVE TypeOK'
  BY <1>4 DEF CreateOutput, TypeOK, memory
<1>5. CASE FinishFlush
  <2>1. disk' \in [Paths -> {NoFile, Torn} \cup Segment]
    <3>1. Image \in Segment
      BY ImageType
    <3>2. disk' = [disk EXCEPT ![writing] = Image]
      BY <1>5 DEF FinishFlush
    <3> QED
      BY <3>1, <3>2 DEF TypeOK
  <2>2. saved' \in [Paths -> SUBSET Bits]
    BY <1>5 DEF FinishFlush, TypeOK
  <2> QED
    BY <1>5, <2>1, <2>2 DEF FinishFlush, TypeOK, memory
<1>6. CASE FlushFails
  <2>1. disk' \in [Paths -> {NoFile, Torn} \cup Segment]
    <3>1. Image \in Segment
      BY ImageType
    <3>2. disk' = disk \/ disk' = [disk EXCEPT ![writing] = Image]
      BY <1>6 DEF FlushFails
    <3> QED
      BY <3>1, <3>2 DEF TypeOK
  <2> QED
    BY <1>6, <2>1 DEF FlushFails, TypeOK, memory, history
<1>7. CASE Exit
  <2>1. BlankSchema \in Schema
    BY NameAssumption DEF BlankSchema, Schema
  <2>2. /\ buf' \in Buffer /\ Len(buf'.cols) = Len(schema'.Columns)
        /\ schema' \in Schema
    BY <1>7, <2>1, NewBufferType DEF Exit
  <2>3. log' \in Seq(Row) /\ accepted' \in Nat /\ rejected' \in Nat
    BY <1>7 DEF Exit
  <2>4. lineage' \in SUBSET Bits
    BY <1>7 DEF Exit
  <2> QED
    BY <1>7, <2>2, <2>3, <2>4, Zenon DEF Exit, TypeOK
<1>8. CASE UNCHANGED vars
  BY <1>8 DEF vars, TypeOK, memory, history
<1> QED
  BY <1>1, <1>2, <1>3, <1>4, <1>5, <1>6, <1>7, <1>8 DEF Next

-----------------------------------------------------------------------------
(* What holds between calls.                                               *)

\* No table is open at first.
LEMMA SessionInit == Init => Session
  BY FS_EmptySet DEF Init, Session, Unique

\* Opening a table makes its schema a valid one.
LEMMA OpenSession ==
  ASSUME TypeOK, Session, ~opened, NEW s, Validate(s) = "ok", NEW f, NEW ks,
         IsFiniteSet(ks), f = NoFilter => ks = {}, Open(s, f, ks)
  PROVE  Session'
<1>1. writing' = NoPath
  BY DEF Open, Session
<1>2. DOMAIN log' = {}
  BY DEF Open
<1>3. IsFiniteSet(lineage') /\ \A p \in Paths : IsFiniteSet(saved'[p])
  BY DEF Open, Session
<1>4. opened' /\ Validate(schema') = "ok" /\ (~Unique' => lineage' = {})
  BY DEF Open, Unique
<1> QED
  BY <1>1, <1>2, <1>3, <1>4 DEF Session

\* Accepting a row changes nothing about the session.
LEMMA AcceptSession ==
  ASSUME TypeOK, Session, opened, writing = NoPath, NEW row \in Row,
         RightLength(row), Accept(row)
  PROVE  Session'
<1>1. opened' /\ writing' = NoPath /\ Validate(schema') = "ok"
  BY DEF Accept, Session
<1>2. \A n \in DOMAIN log' : Len(log'[n]) = Len(schema'.Columns)
  <2>1. log \in Seq(Row) /\ log' = Append(log, row) /\ schema' = schema
    BY DEF TypeOK, Accept
  <2>2. \A n \in DOMAIN log' : log'[n] = row \/ (n \in DOMAIN log /\ log'[n] = log[n])
    BY <2>1
  <2>3. \A n \in DOMAIN log' : Len(log'[n]) = Len(schema.Columns)
    BY <2>2 DEF Session, RightLength
  <2> QED
    BY <2>1, <2>3
<1>3. IsFiniteSet(lineage')
  BY FS_AddElement DEF Accept, Session
<1>4. \A p \in Paths : IsFiniteSet(saved'[p])
  BY DEF Accept, Session
<1>5. ~Unique' => lineage' = {}
  <2>1. CASE Unique
    <3>1. bloom \in Filter /\ bloom' = BloomAdd(bloom, Key(row))
      BY <2>1 DEF TypeOK, Accept, Unique
    <3>2. Key(row) \in Bits
      BY KeyType
    <3> QED
      BY <3>1, <3>2, AddType, NilIsNoFilter DEF Unique
  <2>2. CASE ~Unique
    BY <2>2 DEF Accept, Session, Unique
  <2> QED
    BY <2>1, <2>2
<1> QED
  BY <1>1, <1>2, <1>3, <1>4, <1>5 DEF Session, RightLength

\* Every action keeps Session.
LEMMA SessionStep == TypeOK /\ Session /\ [Next]_vars => Session'
<1> SUFFICES ASSUME TypeOK, Session, [Next]_vars PROVE Session'
  OBVIOUS
<1>a. ASSUME NEW reason, Refuse(reason) PROVE Session'
  BY <1>a DEF Refuse, Session, memory, history, Unique, RightLength
<1>1. ASSUME NEW s \in Schemas, NEW o \in Options, CreateTable(s, o)
      PROVE  Session'
  BY <1>1, <1>a, OpenSession, FS_EmptySet DEF CreateTable
<1>2. ASSUME NEW p \in Paths, LoadTable(p) PROVE Session'
  <2>1. CASE ~Loadable(disk[p])
    BY <1>2, <2>1, <1>a DEF LoadTable
  <2>2. CASE Loadable(disk[p])
    <3>1. disk[p].bloom # NoFilter /\ Validate(SchemaOf(disk[p])) = "ok"
      BY <2>2, LoadableType, NilIsNoFilter
    <3>2. ~opened /\ Open(SchemaOf(disk[p]), disk[p].bloom, saved[p])
      BY <1>2, <2>2 DEF LoadTable
    <3>3. IsFiniteSet(saved[p])
      BY DEF Session
    <3> QED
      BY <3>1, <3>2, <3>3, OpenSession
  <2> QED
    BY <2>1, <2>2
<1>3. ASSUME NEW row \in Rows, Insert(row) PROVE Session'
  <2>1. row \in Row
    BY TableAssumption
  <2>2. ASSUME NEW reason, Reject(reason) PROVE Session'
    BY <2>2 DEF Reject, Session, history, Unique, RightLength
  <2>3. CASE RightLength(row) /\ Accept(row)
    BY <1>3, <2>1, <2>3, AcceptSession DEF Insert, Ready
  <2> QED
    BY <1>3, <2>2, <2>3 DEF Insert
<1>4. ASSUME NEW p \in Paths, CreateOutput(p) PROVE Session'
  <2>1. disk'[p] = Torn /\ writing' = p /\ opened'
    BY <1>4 DEF CreateOutput, Ready, TypeOK
  <2> QED
    BY <1>4, <2>1 DEF CreateOutput, Ready, Session, memory, Unique, RightLength
<1>5. CASE FinishFlush
  <2>1. \A p \in Paths : IsFiniteSet(saved'[p])
    BY <1>5 DEF FinishFlush, Session, TypeOK
  <2> QED
    BY <1>5, <2>1 DEF FinishFlush, Session, memory, Unique, RightLength
<1>6. CASE FlushFails
  BY <1>6 DEF FlushFails, Session, memory, history, Unique, RightLength
<1>7. CASE Exit
  <2>1. DOMAIN log' = {}
    BY <1>7 DEF Exit
  <2> QED
    BY <1>7, <2>1, FS_EmptySet DEF Exit, Session, Unique
<1>8. CASE UNCHANGED vars
  BY <1>8 DEF vars, Session, memory, history, Unique, RightLength
<1> QED
  BY <1>1, <1>2, <1>3, <1>4, <1>5, <1>6, <1>7, <1>8 DEF Next

\* Every reachable state is well typed.
THEOREM TypeCorrect == Spec => []TypeOK
<1>1. Init => TypeOK /\ Session
  BY TypeInit, SessionInit
<1>2. TypeOK /\ Session /\ [Next]_vars => (TypeOK /\ Session)'
  BY TypeStep, SessionStep
<1> QED
  BY <1>1, <1>2, PTL DEF Spec

-----------------------------------------------------------------------------
(* The kinds of steps the safety properties tell apart.                    *)

Creation ==
  \E s \in Schema, f \in Filter \cup {NoFilter} :
    /\ ~opened /\ Validate(s) = "ok"
    /\ f # NoFilter => Knows(f, {})
    /\ Open(s, f, {})

Loading ==
  \E p \in Paths :
    /\ ~opened /\ Loadable(disk[p])
    /\ Open(SchemaOf(disk[p]), disk[p].bloom, saved[p])

Acceptance ==
  \E row \in Row :
    /\ opened /\ writing = NoPath
    /\ RightLength(row) /\ PassesFilter(row)
    /\ Accept(row)

Idle == UNCHANGED <<opened, schema, buf, bloom, accepted, disk, log, lineage,
                    saved, dropped>>

\* A flush that failed in its last, empty write.
Leftover ==
  /\ UNCHANGED <<opened, schema, buf, bloom, accepted, log, lineage, saved, dropped>>
  /\ writing \in Paths /\ opened /\ ~Unique
  /\ disk' = [disk EXCEPT ![writing] = Image]

\* A filter fresh from New knows no key.
LEMMA NewKnowsNothing ==
  ASSUME NEW n, NEW p
  PROVE  Knows(BloomNew(n, p), {})
<1>1. BloomNew(n, p).bits = {} /\ BloomNew(n, p).nAdded = 0
  BY DEF BloomNew
<1>2. UNION { Indices(BloomNew(n, p), k) : k \in {} } = {}
  OBVIOUS
<1> QED
  BY <1>1, <1>2, FS_EmptySet DEF Knows

\* What a step can do to the files and the history.
LEMMA StepKinds ==
  ASSUME TypeOK, Session, [Next]_vars
  PROVE  \/ Creation \/ Loading \/ Acceptance \/ Exit \/ Idle
         \/ \E p \in Paths : CreateOutput(p)
         \/ FinishFlush \/ Leftover
<1>a. ASSUME NEW reason, Refuse(reason) PROVE Idle
  BY <1>a DEF Refuse, Idle, memory, history
<1>1. ASSUME NEW s \in Schemas, NEW o \in Options, CreateTable(s, o)
      PROVE  Creation \/ Idle
  <2>1. s \in Schema /\ o \in Option
    BY TableAssumption
  <2>2. ASSUME ValidParameters(o.BloomExpectedItems, o.BloomTargetFPR)
        PROVE  BloomNew(o.BloomExpectedItems, o.BloomTargetFPR) \in Filter
    BY <2>1, <2>2, NewType DEF Option
  <2> QED
    BY <1>1, <1>a, <2>1, <2>2, NewKnowsNothing DEF CreateTable, Creation
<1>2. ASSUME NEW p \in Paths, LoadTable(p) PROVE Loading \/ Idle
  BY <1>2, <1>a DEF LoadTable, Loading
<1>3. ASSUME NEW row \in Rows, Insert(row) PROVE Acceptance \/ Idle
  <2>1. row \in Row
    BY TableAssumption
  <2>2. ASSUME NEW reason, Reject(reason) PROVE Idle
    BY <2>2 DEF Reject, Idle, history
  <2> QED
    BY <1>3, <2>1, <2>2 DEF Insert, Ready, Acceptance
<1>4. ASSUME FlushFails PROVE Idle \/ Leftover
  <2>1. writing \in Paths /\ opened
    BY <1>4 DEF FlushFails, TypeOK, Session
  <2> QED
    BY <1>4, <2>1 DEF FlushFails, Idle, Leftover, memory, history
<1>5. ASSUME UNCHANGED vars PROVE Idle
  BY <1>5 DEF vars, Idle, memory, history
<1> QED
  BY <1>1, <1>2, <1>3, <1>4, <1>5 DEF Next

-----------------------------------------------------------------------------
(* The buffer is the transpose of the accepted rows.                       *)

\* The initial states.
LEMMA RowsInit == Init => RowsStored
<1> SUFFICES ASSUME Init PROVE RowsStored
  OBVIOUS
<1>1. Len(NewWriteBuffer(BlankSchema).cols) = 0 /\ buf.rows = 0
  BY DEF Init, NewWriteBuffer, BlankSchema
<1> QED
  BY <1>1 DEF Init, RowsStored

\* A table opens with an empty buffer.
LEMMA OpenRows ==
  ASSUME NEW s \in Schema, NEW f, NEW ks, Open(s, f, ks)
  PROVE  RowsStored'
<1>1. buf'.rows = 0 /\ accepted' = 0 /\ log' = <<>>
  BY NewBufferType DEF Open
<1>2. \A i \in 1 .. Len(buf'.cols) : buf'.cols[i] = <<>>
  BY NewBufferType DEF Open
<1>3. \A i \in 1 .. Len(buf'.cols) :
        buf'.cols[i] = [n \in 1 .. Len(log') |-> log'[n][i].bits]
  BY <1>1, <1>2
<1> QED
  BY <1>1, <1>3 DEF RowsStored

\* An accepted row is the last one of the buffer.
LEMMA AcceptRows ==
  ASSUME TypeOK, RowsStored, NEW row \in Row, RightLength(row), Accept(row)
  PROVE  RowsStored'
<1> DEFINE L == Len(log)
           oldc(i) == [n \in 1 .. L |-> log[n][i].bits]
           newc(i) == [n \in 1 .. Len(log') |-> log'[n][i].bits]
<1>1. /\ log \in Seq(Row) /\ L \in Nat
      /\ log' = Append(log, row) /\ Len(log') = L + 1
  BY DEF TypeOK, Accept
<1>2. /\ Len(buf'.cols) = Len(buf.cols) /\ buf'.rows = buf.rows + 1
      /\ \A i \in 1 .. Len(buf.cols) :
           buf'.cols[i] = Append(buf.cols[i], row[i].bits)
  BY AppendType DEF TypeOK, RightLength, Accept
<1>3. /\ buf'.rows = Len(log') /\ accepted' = Len(log')
  BY <1>1, <1>2 DEF RowsStored, Accept
<1>4. ASSUME NEW i \in 1 .. Len(buf.cols)
      PROVE  buf'.cols[i] = newc(i)
  <2>1. buf.cols[i] = oldc(i)
    BY DEF RowsStored
  <2>2. \A n \in 1 .. L + 1 :
          log'[n][i].bits = IF n = L + 1 THEN row[i].bits ELSE log[n][i].bits
    BY <1>1
  <2>3. buf.cols[i] \in Seq(Bits) /\ Len(buf.cols[i]) = L
    <3>1. buf.cols[i] \in Seq(Bits)
      BY DEF TypeOK, Buffer
    <3> QED
      BY <1>1, <2>1, <3>1
  <2>4. Append(buf.cols[i], row[i].bits) =
          [n \in 1 .. L + 1 |-> IF n = L + 1 THEN row[i].bits ELSE buf.cols[i][n]]
    BY <1>1, <2>3
  <2>5. \A n \in 1 .. L : buf.cols[i][n] = log[n][i].bits
    BY <2>1
  <2>6. newc(i) =
          [n \in 1 .. L + 1 |-> IF n = L + 1 THEN row[i].bits ELSE buf.cols[i][n]]
    BY <1>1, <2>2, <2>5
  <2> QED
    BY <1>2, <2>4, <2>6
<1> QED
  BY <1>2, <1>3, <1>4 DEF RowsStored

\* Every action keeps RowsStored.
LEMMA RowsStep == TypeOK /\ Session /\ RowsStored /\ [Next]_vars => RowsStored'
<1> SUFFICES ASSUME TypeOK, Session, RowsStored, [Next]_vars PROVE RowsStored'
  OBVIOUS
<1>1. CASE Creation
  BY <1>1, OpenRows DEF Creation
<1>2. CASE Loading
  BY <1>2, OpenRows, LoadableType DEF Loading
<1>3. CASE Acceptance
  BY <1>3, AcceptRows DEF Acceptance
<1>4. CASE Exit
  <2>1. Len(buf'.cols) = 0 /\ buf'.rows = 0
    BY <1>4 DEF Exit, NewWriteBuffer, BlankSchema
  <2> QED
    BY <1>4, <2>1 DEF Exit, RowsStored
<1>5. CASE Idle
  BY <1>5 DEF Idle, RowsStored
<1>6. ASSUME NEW p \in Paths, CreateOutput(p) PROVE RowsStored'
  BY <1>6 DEF CreateOutput, memory, RowsStored
<1>7. CASE FinishFlush
  BY <1>7 DEF FinishFlush, memory, RowsStored
<1>8. CASE Leftover
  BY <1>8 DEF Leftover, RowsStored
<1> QED
  BY <1>1, <1>2, <1>3, <1>4, <1>5, <1>6, <1>7, <1>8, StepKinds

-----------------------------------------------------------------------------
(* The filter knows exactly the accepted keys.                             *)

\* A key a filter knows is never reported as new: there are no false
\* negatives, whatever else was added (bloom.go, Contains).
THEOREM NoFalseNegatives ==
  ASSUME NEW f, NEW ks, NEW k \in ks, Knows(f, ks)
  PROVE  BloomContains(f, k)
BY DEF Knows, BloomContains

\* Adding a new key keeps the filter exact.
LEMMA KnowsAdd ==
  ASSUME NEW f \in Filter, NEW ks, IsFiniteSet(ks), NEW key \in Bits,
         key \notin ks, Knows(f, ks)
  PROVE  Knows(BloomAdd(f, key), ks \cup {key})
<1> DEFINE g == BloomAdd(f, key)
<1>1. \A k : Indices(g, k) = Indices(f, k)
  BY AddKeepsIndices
<1>2. g.bits = f.bits \cup Indices(f, key) /\ g.nAdded = f.nAdded + 1
  BY DEF BloomAdd, Filter
<1>3. f.bits = UNION { Indices(f, k) : k \in ks } /\ f.nAdded = Cardinality(ks)
  BY DEF Knows
<1> HIDE DEF g
<1>4. g.bits = UNION { Indices(g, k) : k \in ks \cup {key} }
  BY <1>1, <1>2, <1>3
<1>5. g.nAdded = Cardinality(ks \cup {key})
  BY <1>2, <1>3, FS_AddElement
<1> QED
  BY <1>4, <1>5 DEF Knows, g

\* An accepted key of a deduplicating table is new to the whole lineage.
LEMMA AcceptedKeyIsNew ==
  ASSUME FilterExact, Unique, NEW row, PassesFilter(row)
  PROVE  Key(row) \notin lineage
BY NoFalseNegatives DEF FilterExact, PassesFilter

\* The initial states.
LEMMA FilterInit == Init => FilterExact
<1> SUFFICES ASSUME Init PROVE FilterExact
  OBVIOUS
<1>1. \A p \in Paths : ~Loadable(disk[p])
  <2>1. ~Loadable(NoFile)
    BY DEF Loadable, LoadCheck, NoFile
  <2>2. \A image \in Foreign : ~Loadable(image)
    BY TableAssumption
  <2>3. \A p \in Paths : disk[p] \in {NoFile} \cup Foreign
    BY DEF Init
  <2> QED
    BY <2>1, <2>2, <2>3
<1> QED
  BY <1>1 DEF Init, Unique, FilterExact

\* A torn file is no segment.
LEMMA TornIsNotLoadable == ~Loadable(Torn)
BY DEF Loadable, LoadCheck, Torn

\* The image of a table is loadable exactly when it has a filter and its key
\* column a name.
LEMMA ImageLoadable ==
  ASSUME TypeOK, Session, opened
  PROVE  /\ Loadable(Image) <=> Unique /\ schema.PK # EmptyName
         /\ SchemaOf(Image) = schema
         /\ Image.bloom = bloom /\ Image.cols = buf.cols
<1>1. SchemaOf(Image) = schema
  BY DEF SchemaOf, Image, TypeOK, Schema
<1>2. /\ Image.kind = "segment" /\ Image.version = 2
      /\ Image.pkName = schema.PK
      /\ Image.bloom = bloom /\ Image.cols = buf.cols
  BY DEF Image
<1>3. Validate(SchemaOf(Image)) = "ok"
  BY <1>1 DEF Session
<1> QED
  BY <1>1, <1>2, <1>3 DEF Loadable, LoadCheck, Unique

\* What a failed flush leaves behind LoadTable refuses, like the torn file before.
LEMMA LeftoverKeeps ==
  ASSUME TypeOK, Session, Leftover
  PROVE  /\ \A q \in Paths : Loadable(disk'[q]) <=> Loadable(disk[q])
         /\ \A q \in Paths : Loadable(disk[q]) => disk'[q] = disk[q]
         /\ schema' = schema /\ buf' = buf /\ bloom' = bloom /\ accepted' = accepted
         /\ lineage' = lineage /\ saved' = saved /\ dropped' = dropped
<1>1. PICK w \in Paths : w = writing
  BY DEF Leftover
<1>2. \A q \in Paths : disk'[q] = IF q = w THEN Image ELSE disk[q]
  BY <1>1 DEF Leftover, TypeOK
<1>3. ~Loadable(Image)
  BY ImageLoadable DEF Leftover
<1>4. ~Loadable(disk[w])
  <2>1. w # NoPath
    BY TableAssumption
  <2> QED
    BY <1>1, <2>1, TornIsNotLoadable DEF Session
<1>5. /\ \A q \in Paths : Loadable(disk'[q]) <=> Loadable(disk[q])
      /\ \A q \in Paths : Loadable(disk[q]) => disk'[q] = disk[q]
  BY <1>2, <1>3, <1>4
<1> QED
  BY <1>5 DEF Leftover

\* Every action keeps FilterExact.
LEMMA FilterStep ==
  TypeOK /\ Session /\ FilterExact /\ [Next]_vars => FilterExact'
<1> SUFFICES ASSUME TypeOK, Session, FilterExact, [Next]_vars PROVE FilterExact'
  OBVIOUS
<1>1. CASE Creation
  BY <1>1 DEF Creation, Open, FilterExact, Unique
<1>2. CASE Loading
  BY <1>2 DEF Loading, Open, FilterExact, Unique
<1>3. CASE Acceptance
  <2>1. PICK row \in Row : /\ opened /\ RightLength(row)
                           /\ PassesFilter(row) /\ Accept(row)
    BY <1>3 DEF Acceptance
  <2>2. CASE Unique
    <3>1. Key(row) \in Bits /\ Key(row) \notin lineage
      BY <2>1, <2>2, KeyType, AcceptedKeyIsNew
    <3>2. Knows(bloom, lineage) /\ bloom \in Filter /\ IsFiniteSet(lineage)
      BY <2>2 DEF FilterExact, Unique, TypeOK, Session
    <3>3. Knows(bloom', lineage')
      BY <2>1, <2>2, <3>1, <3>2, KnowsAdd DEF Accept
    <3> QED
      BY <2>1, <3>3 DEF Accept, FilterExact
  <2>3. CASE ~Unique
    BY <2>1, <2>3 DEF Accept, FilterExact, Unique
  <2> QED
    BY <2>2, <2>3
<1>4. CASE Exit
  BY <1>4 DEF Exit, FilterExact, Unique
<1>5. CASE Idle
  BY <1>5 DEF Idle, FilterExact, Unique
<1>6. ASSUME NEW p \in Paths, CreateOutput(p) PROVE FilterExact'
  <2>1. \A q \in Paths : disk'[q] = IF q = p THEN Torn ELSE disk[q]
    BY <1>6 DEF CreateOutput, TypeOK
  <2> QED
    BY <1>6, <2>1, TornIsNotLoadable DEF CreateOutput, memory, FilterExact, Unique
<1>7. CASE FinishFlush
  <2>1. /\ \A q \in Paths : disk'[q] = IF q = writing THEN Image ELSE disk[q]
        /\ \A q \in Paths : saved'[q] = IF q = writing THEN lineage ELSE saved[q]
        /\ bloom' = bloom /\ lineage' = lineage /\ opened
    BY <1>7 DEF FinishFlush, TypeOK, memory, Session
  <2>2. Loadable(Image) => Knows(Image.bloom, lineage)
    BY <2>1, ImageLoadable DEF FilterExact
  <2> QED
    BY <2>1, <2>2 DEF FilterExact, Unique
<1>8. CASE Leftover
  BY <1>8, LeftoverKeeps DEF FilterExact, Unique
<1> QED
  BY <1>1, <1>2, <1>3, <1>4, <1>5, <1>6, <1>7, <1>8, StepKinds

-----------------------------------------------------------------------------
(* No two rows with one key.                                               *)

\* Appending a new key to a column of distinct known keys.
LEMMA AppendDistinct ==
  ASSUME NEW S, NEW c \in Seq(S), NEW e \in S, NEW known, e \notin known,
         \A n \in DOMAIN c : c[n] \in known,
         \A m, n \in DOMAIN c : c[m] = c[n] => m = n
  PROVE  /\ \A n \in DOMAIN Append(c, e) : Append(c, e)[n] \in known \cup {e}
         /\ \A m, n \in DOMAIN Append(c, e) :
              Append(c, e)[m] = Append(c, e)[n] => m = n
<1> DEFINE d == Append(c, e)
<1>1. /\ DOMAIN d = 1 .. (Len(c) + 1) /\ DOMAIN c = 1 .. Len(c)
      /\ Len(c) \in Nat
      /\ \A n \in 1 .. Len(c) : d[n] = c[n]
      /\ d[Len(c) + 1] = e
  OBVIOUS
<1> HIDE DEF d
<1>2. \A n \in DOMAIN d : \/ n \in DOMAIN c /\ d[n] = c[n]
                          \/ n = Len(c) + 1 /\ d[n] = e
  BY <1>1
<1>3. /\ \A n \in DOMAIN d : d[n] \in known \cup {e}
      /\ \A m, n \in DOMAIN d : d[m] = d[n] => m = n
  BY <1>2
<1> QED
  BY <1>3 DEF d

\* The key column of the buffer and what an accepted row adds to it.
LEMMA AcceptKeys ==
  ASSUME TypeOK, Session, RowsStored, opened, NEW row \in Row,
         RightLength(row), Accept(row)
  PROVE  LET c == buf.cols[PKIndex(schema)]
         IN  /\ c \in Seq(Bits)
             /\ buf'.cols[PKIndex(schema')] = Append(c, Key(row))
             /\ schema' = schema
<1>1. PKIndex(schema) \in 1 .. Len(buf.cols)
  BY KeyType DEF TypeOK
<1>2. buf.cols[PKIndex(schema)] \in Seq(Bits)
  BY <1>1 DEF TypeOK, Buffer
<1>3. /\ buf' = BufferAppend(buf, row) /\ schema' = schema
      /\ Len(row) = Len(buf.cols)
  BY DEF Accept, RightLength, TypeOK
<1>4. buf'.cols[PKIndex(schema)] = Append(buf.cols[PKIndex(schema)], Key(row))
  BY <1>1, <1>3, AppendType DEF TypeOK, Key, PKCell
<1> QED
  BY <1>2, <1>3, <1>4

DupFree == KeysRemembered /\ NoDuplicateKeys

\* The initial states.
LEMMA KeysInit == Init => DupFree
<1> SUFFICES ASSUME Init PROVE DupFree
  OBVIOUS
<1>1. \A p \in Paths : ~Loadable(disk[p])
  <2>1. ~Loadable(NoFile)
    BY DEF Loadable, LoadCheck, NoFile
  <2>2. \A image \in Foreign : ~Loadable(image)
    BY TableAssumption
  <2>3. \A p \in Paths : disk[p] \in {NoFile} \cup Foreign
    BY DEF Init
  <2> QED
    BY <2>1, <2>2, <2>3
<1> QED
  BY <1>1 DEF Init, Unique, DupFree, KeysRemembered, NoDuplicateKeys

\* Opening a table adds no key.
LEMMA OpenKeys ==
  ASSUME NEW s \in Schema, Validate(s) = "ok", NEW f, NEW ks, Open(s, f, ks)
  PROVE  /\ KeysOf(buf'.cols, schema') = {}
         /\ DistinctKeys(buf'.cols, schema')
<1>1. PKIndex(s) \in 1 .. Len(s.Columns)
  BY PKIndexRange
<1>2. buf'.cols[PKIndex(s)] = <<>> /\ schema' = s
  BY <1>1, NewBufferType DEF Open
<1>3. DOMAIN buf'.cols[PKIndex(s)] = {}
  BY <1>2
<1> QED
  BY <1>2, <1>3 DEF KeysOf, DistinctKeys

\* Every action keeps DupFree.
LEMMA KeysStep ==
  /\ TypeOK /\ Session /\ RowsStored /\ FilterExact /\ DupFree /\ [Next]_vars
  => DupFree'
<1> SUFFICES ASSUME TypeOK, Session, RowsStored, FilterExact, DupFree, [Next]_vars
             PROVE  DupFree'
  OBVIOUS
<1>1. CASE Creation
  <2>1. /\ KeysOf(buf'.cols, schema') = {} /\ DistinctKeys(buf'.cols, schema')
        /\ disk' = disk
    BY <1>1, OpenKeys DEF Creation, Open
  <2> QED
    BY <2>1 DEF DupFree, KeysRemembered, NoDuplicateKeys
<1>2. CASE Loading
  <2>1. /\ KeysOf(buf'.cols, schema') = {} /\ DistinctKeys(buf'.cols, schema')
        /\ disk' = disk
    BY <1>2, OpenKeys, LoadableType DEF Loading, Open
  <2> QED
    BY <2>1 DEF DupFree, KeysRemembered, NoDuplicateKeys
<1>3. CASE Acceptance
  <2>1. PICK row \in Row : /\ opened /\ RightLength(row)
                           /\ PassesFilter(row) /\ Accept(row)
    BY <1>3 DEF Acceptance
  <2> DEFINE c == buf.cols[PKIndex(schema)]
             d == buf'.cols[PKIndex(schema')]
  <2>2. c \in Seq(Bits) /\ d = Append(c, Key(row)) /\ Key(row) \in Bits
    BY <2>1, AcceptKeys, KeyType
  <2>3. disk' = disk /\ (~Unique => ~Unique')
    BY <2>1 DEF Accept, Unique
  <2>4. CASE Unique
    <3>1. Key(row) \notin lineage /\ lineage' = lineage \cup {Key(row)}
      BY <2>1, <2>4, AcceptedKeyIsNew DEF Accept
    <3>2. { c[n] : n \in DOMAIN c } \subseteq lineage
      BY <2>4 DEF DupFree, KeysRemembered, KeysOf
    <3>3. \A m, n \in DOMAIN c : c[m] = c[n] => m = n
      BY <2>4 DEF DupFree, NoDuplicateKeys, DistinctKeys
    <3>4. \A n \in DOMAIN c : c[n] \in lineage
      BY <3>2
    <3> HIDE DEF c, d
    <3>5. /\ \A n \in DOMAIN d : d[n] \in lineage'
          /\ \A m, n \in DOMAIN d : d[m] = d[n] => m = n
      BY <2>2, <3>1, <3>3, <3>4, AppendDistinct
    <3>6. KeysRemembered'
      BY <3>5 DEF KeysRemembered, KeysOf, d
    <3>7. DistinctKeys(buf'.cols, schema')
      BY <3>5 DEF DistinctKeys, d
    <3> QED
      BY <2>3, <3>6, <3>7 DEF DupFree, NoDuplicateKeys
  <2>5. CASE ~Unique
    BY <2>3, <2>5 DEF DupFree, KeysRemembered, NoDuplicateKeys
  <2> QED
    BY <2>4, <2>5
<1>4. CASE Exit
  BY <1>4 DEF Exit, DupFree, KeysRemembered, NoDuplicateKeys, Unique
<1>5. CASE Idle
  BY <1>5 DEF Idle, DupFree, KeysRemembered, NoDuplicateKeys, Unique
<1>6. ASSUME NEW p \in Paths, CreateOutput(p) PROVE DupFree'
  <2>1. \A q \in Paths : disk'[q] = IF q = p THEN Torn ELSE disk[q]
    BY <1>6 DEF CreateOutput, TypeOK
  <2> QED
    BY <1>6, <2>1, TornIsNotLoadable
    DEF CreateOutput, memory, DupFree, KeysRemembered, NoDuplicateKeys, Unique
<1>7. CASE FinishFlush
  <2>1. /\ \A q \in Paths : disk'[q] = IF q = writing THEN Image ELSE disk[q]
        /\ bloom' = bloom /\ lineage' = lineage /\ opened
        /\ buf' = buf /\ schema' = schema
    BY <1>7 DEF FinishFlush, TypeOK, memory, Session
  <2>2. Loadable(Image) => DistinctKeys(Image.cols, SchemaOf(Image))
    BY <2>1, ImageLoadable DEF DupFree, NoDuplicateKeys
  <2> QED
    BY <2>1, <2>2 DEF DupFree, KeysRemembered, NoDuplicateKeys, Unique
<1>8. CASE Leftover
  BY <1>8, LeftoverKeeps DEF DupFree, KeysRemembered, NoDuplicateKeys, Unique
<1> QED
  BY <1>1, <1>2, <1>3, <1>4, <1>5, <1>6, <1>7, <1>8, StepKinds

-----------------------------------------------------------------------------
(* Keys the filter knows are stored somewhere.                             *)

\* Key k is on a path, or was on one a flush replaced.
Placed(k) == (\E q \in Paths : StoredOn(q, k)) \/ k \in dropped

AllStored == SavedKeysStored /\ KnownKeysStored

\* The initial states.
LEMMA StoredInit == Init => AllStored
<1> SUFFICES ASSUME Init PROVE AllStored
  OBVIOUS
<1>1. \A p \in Paths : saved[p] = {}
  BY DEF Init
<1>2. ~Unique
  BY DEF Init, Unique
<1> QED
  BY <1>1, <1>2 DEF AllStored, SavedKeysStored, KnownKeysStored

\* Appending loses no element and adds the new one.
LEMMA AppendElements ==
  ASSUME NEW S, NEW c \in Seq(S), NEW e \in S
  PROVE  { Append(c, e)[n] : n \in DOMAIN Append(c, e) } =
           { c[n] : n \in DOMAIN c } \cup {e}
<1> DEFINE d == Append(c, e)
<1>1. /\ DOMAIN d = 1 .. (Len(c) + 1) /\ DOMAIN c = 1 .. Len(c)
      /\ Len(c) \in Nat
      /\ \A n \in 1 .. Len(c) : d[n] = c[n]
      /\ d[Len(c) + 1] = e
  OBVIOUS
<1> HIDE DEF d
<1>2. \A n \in DOMAIN d : d[n] \in { c[i] : i \in DOMAIN c } \cup {e}
  BY <1>1
<1>3. \A n \in DOMAIN c : c[n] \in { d[i] : i \in DOMAIN d }
  BY <1>1
<1>4. e \in { d[i] : i \in DOMAIN d }
  BY <1>1
<1>5. { d[n] : n \in DOMAIN d } = { c[n] : n \in DOMAIN c } \cup {e}
  BY <1>2, <1>3, <1>4
<1> QED
  BY <1>5 DEF d

\* Accepting a row adds its key to those of the buffer, and no other.
LEMMA AcceptKeySet ==
  ASSUME TypeOK, Session, RowsStored, opened, NEW row \in Row,
         RightLength(row), Accept(row)
  PROVE  KeysOf(buf'.cols, schema') = KeysOf(buf.cols, schema) \cup {Key(row)}
<1> DEFINE c == buf.cols[PKIndex(schema)]
           d == buf'.cols[PKIndex(schema')]
<1>1. c \in Seq(Bits) /\ d = Append(c, Key(row)) /\ Key(row) \in Bits
  BY AcceptKeys, KeyType
<1>2. KeysOf(buf'.cols, schema') = { d[n] : n \in DOMAIN d }
  BY DEF KeysOf
<1>3. KeysOf(buf.cols, schema) = { c[n] : n \in DOMAIN c }
  BY DEF KeysOf
<1> HIDE DEF c, d
<1> QED
  BY <1>1, <1>2, <1>3, AppendElements

\* The part of the inductive invariant the storage argument uses.
LEMMA StoredFinish ==
  ASSUME TypeOK, Session, AllStored, FinishFlush
  PROVE  AllStored'
<1>0. PICK w \in Paths : w = writing
  BY DEF FinishFlush, TypeOK
<1>1. /\ \A q \in Paths : disk'[q] = IF q = w THEN Image ELSE disk[q]
      /\ \A q \in Paths : saved'[q] = IF q = w THEN lineage ELSE saved[q]
      /\ bloom' = bloom /\ lineage' = lineage /\ opened
      /\ buf' = buf /\ schema' = schema /\ dropped' = dropped
  BY <1>0 DEF FinishFlush, TypeOK, memory, Session
<1>2. ~Loadable(disk[w])
  BY <1>0, TornIsNotLoadable DEF Session, FinishFlush
<1>3. ASSUME NEW k, Placed(k)
      PROVE  Placed(k)'
  <2>1. CASE k \in dropped
    BY <1>1, <2>1 DEF Placed
  <2>2. ASSUME NEW q \in Paths, StoredOn(q, k) PROVE StoredOn(q, k)'
    <3>1. q # w
      BY <1>2, <2>2 DEF StoredOn
    <3> QED
      BY <1>1, <2>2, <3>1 DEF StoredOn
  <2> QED
    BY <1>3, <2>1, <2>2 DEF Placed
<1>4. ASSUME Loadable(Image), NEW k \in KeysOf(buf.cols, schema)
      PROVE  Placed(k)'
  <2>1. StoredOn(w, k)'
    BY <1>0, <1>1, <1>4, ImageLoadable DEF StoredOn
  <2> QED
    BY <2>1 DEF Placed
<1>5. ASSUME Unique, NEW k \in lineage
      PROVE  k \in KeysOf(buf.cols, schema) \/ Placed(k)
  BY <1>5 DEF AllStored, KnownKeysStored, Placed
<1>6. ASSUME NEW p \in Paths, Loadable(disk'[p]), NEW k \in saved'[p]
      PROVE  Placed(k)'
  <2>1. CASE p = w
    <3>1. Loadable(Image) /\ k \in lineage /\ Unique
      BY <1>1, <1>6, <2>1, ImageLoadable
    <3> QED
      BY <1>3, <1>4, <1>5, <3>1
  <2>2. CASE p # w
    <3>1. Loadable(disk[p]) /\ k \in saved[p]
      BY <1>1, <1>6, <2>2
    <3>2. Placed(k)
      BY <3>1 DEF AllStored, SavedKeysStored, Placed
    <3> QED
      BY <1>3, <3>2
  <2> QED
    BY <2>1, <2>2
<1>7. SavedKeysStored'
  BY <1>6 DEF SavedKeysStored, Placed
<1>8. KnownKeysStored'
  <2> SUFFICES ASSUME Unique', NEW k \in lineage'
               PROVE  k \in KeysOf(buf'.cols, schema') \/ Placed(k)'
    BY DEF KnownKeysStored, Placed
  <2>1. Unique /\ k \in lineage
    BY <1>1 DEF Unique
  <2> QED
    BY <1>1, <1>3, <1>5, <2>1
<1> QED
  BY <1>7, <1>8 DEF AllStored

\* Creating the output empties one path; what it held is remembered as long as a
\* filter knows it.
LEMMA StoredCreate ==
  ASSUME TypeOK, Session, AllStored, NEW p \in Paths, CreateOutput(p)
  PROVE  AllStored'
<1>1. /\ \A q \in Paths : disk'[q] = IF q = p THEN Torn ELSE disk[q]
      /\ bloom' = bloom /\ lineage' = lineage /\ saved' = saved
      /\ buf' = buf /\ schema' = schema
      /\ dropped' = { k \in Bits : (k \in dropped \/ StoredOn(p, k)) /\ KnownBeside(p, k) }
  BY DEF CreateOutput, TypeOK, memory
<1>2. ASSUME NEW k \in Bits, Placed(k), KnownBeside(p, k)
      PROVE  Placed(k)'
  <2>1. CASE k \in dropped \/ StoredOn(p, k)
    <3>1. k \in dropped'
      BY <1>1, <1>2, <2>1
    <3> QED
      BY <3>1 DEF Placed
  <2>2. CASE ~(k \in dropped \/ StoredOn(p, k))
    <3>1. PICK q \in Paths : StoredOn(q, k)
      BY <1>2, <2>2 DEF Placed
    <3>2. q # p
      BY <2>2, <3>1
    <3>3. StoredOn(q, k)'
      BY <1>1, <3>1, <3>2 DEF StoredOn
    <3> QED
      BY <3>3 DEF Placed
  <2> QED
    BY <2>1, <2>2
<1>3. ASSUME NEW q \in Paths, Loadable(disk'[q]), NEW k \in saved'[q]
      PROVE  Placed(k)'
  <2>1. q # p
    BY <1>1, <1>3, TornIsNotLoadable
  <2>2. Loadable(disk[q]) /\ k \in saved[q] /\ k \in Bits
    BY <1>1, <1>3, <2>1 DEF TypeOK
  <2>3. Placed(k)
    BY <2>2 DEF AllStored, SavedKeysStored, Placed
  <2>4. KnownBeside(p, k)
    BY <2>1, <2>2 DEF KnownBeside
  <2> QED
    BY <1>2, <2>2, <2>3, <2>4
<1>4. SavedKeysStored'
  BY <1>3 DEF SavedKeysStored, Placed
<1>5. KnownKeysStored'
  <2> SUFFICES ASSUME Unique', NEW k \in lineage'
               PROVE  k \in KeysOf(buf'.cols, schema') \/ Placed(k)'
    BY DEF KnownKeysStored, Placed
  <2>1. Unique /\ k \in lineage /\ k \in Bits
    BY <1>1 DEF Unique, TypeOK
  <2>2. k \in KeysOf(buf.cols, schema) \/ Placed(k)
    BY <2>1 DEF AllStored, KnownKeysStored, Placed
  <2>3. KnownBeside(p, k)
    BY <2>1 DEF KnownBeside
  <2> QED
    BY <1>1, <1>2, <2>1, <2>2, <2>3
<1> QED
  BY <1>4, <1>5 DEF AllStored

\* Every action keeps AllStored.
LEMMA StoredStep ==
  TypeOK /\ Session /\ RowsStored /\ AllStored /\ [Next]_vars => AllStored'
<1> SUFFICES ASSUME TypeOK, Session, RowsStored, AllStored, [Next]_vars
             PROVE  AllStored'
  OBVIOUS
<1>1. CASE Creation
  BY <1>1 DEF Creation, Open, AllStored, SavedKeysStored, KnownKeysStored, StoredOn
<1>2. CASE Loading
  <2>1. PICK p \in Paths :
          /\ Loadable(disk[p])
          /\ Open(SchemaOf(disk[p]), disk[p].bloom, saved[p])
    BY <1>2 DEF Loading
  <2>2. disk' = disk /\ saved' = saved /\ dropped' = dropped /\ lineage' = saved[p]
    BY <2>1 DEF Open
  <2> QED
    BY <2>1, <2>2 DEF AllStored, SavedKeysStored, KnownKeysStored, StoredOn
<1>3. CASE Acceptance
  <2>1. PICK row \in Row : opened /\ RightLength(row) /\ Accept(row)
    BY <1>3 DEF Acceptance
  <2>2. /\ disk' = disk /\ saved' = saved /\ dropped' = dropped
        /\ (Unique' => Unique)
        /\ (Unique => lineage' = lineage \cup {Key(row)})
    BY <2>1 DEF Accept, Unique
  <2>3. KeysOf(buf'.cols, schema') = KeysOf(buf.cols, schema) \cup {Key(row)}
    BY <2>1, AcceptKeySet
  <2>4. SavedKeysStored'
    BY <2>2 DEF AllStored, SavedKeysStored, StoredOn
  <2>5. KnownKeysStored'
    BY <2>2, <2>3 DEF AllStored, KnownKeysStored, StoredOn
  <2> QED
    BY <2>4, <2>5 DEF AllStored
<1>4. CASE Exit
  BY <1>4 DEF Exit, AllStored, SavedKeysStored, KnownKeysStored, Unique, StoredOn
<1>5. CASE Idle
  BY <1>5 DEF Idle, AllStored, SavedKeysStored, KnownKeysStored, Unique, StoredOn
<1>6. ASSUME NEW p \in Paths, CreateOutput(p) PROVE AllStored'
  BY <1>6, StoredCreate
<1>7. CASE FinishFlush
  BY <1>7, StoredFinish
<1>8. CASE Leftover
  <2>1. \A q \in Paths : \A k : StoredOn(q, k) => StoredOn(q, k)'
    BY <1>8, LeftoverKeeps DEF StoredOn
  <2>2. /\ \A q \in Paths : Loadable(disk'[q]) => Loadable(disk[q])
        /\ schema' = schema /\ buf' = buf /\ bloom' = bloom
        /\ lineage' = lineage /\ saved' = saved /\ dropped' = dropped
    BY <1>8, LeftoverKeeps
  <2> QED
    BY <2>1, <2>2 DEF AllStored, SavedKeysStored, KnownKeysStored, Unique
<1> QED
  BY <1>1, <1>2, <1>3, <1>4, <1>5, <1>6, <1>7, <1>8, StepKinds

-----------------------------------------------------------------------------
(* The theorems.                                                           *)

\* The initial states.
LEMMA IInvInit == Init => IInv
BY TypeInit, SessionInit, RowsInit, FilterInit, KeysInit, StoredInit
DEF IInv, DupFree, AllStored

\* Every action keeps IInv.
LEMMA IInvStep == IInv /\ [Next]_vars => IInv'
<1> SUFFICES ASSUME IInv, [Next]_vars PROVE IInv'
  OBVIOUS
<1>1. TypeOK /\ Session /\ RowsStored /\ FilterExact /\ DupFree /\ AllStored
  BY DEF IInv, DupFree, AllStored
<1>2. (TypeOK /\ Session /\ RowsStored /\ FilterExact /\ DupFree /\ AllStored)'
  BY <1>1, TypeStep, SessionStep, RowsStep, FilterStep, KeysStep, StoredStep
<1> QED
  BY <1>2 DEF IInv, DupFree, AllStored

\* The conjunction of all the invariants is inductive.
THEOREM Inductive == Spec => []IInv
BY IInvInit, IInvStep, PTL DEF Spec

\* A refused row leaves no trace and an accepted one is in every column, for
\* any number of rows and columns.
THEOREM RowsCorrect == Spec => []RowsStored
<1>1. IInv => RowsStored
  BY DEF IInv
<1> QED
  BY <1>1, Inductive, PTL

\* The filter, live or on disk, knows exactly the keys accepted through it,
\* across any number of sessions, flushes and crashes.
THEOREM FilterCorrect == Spec => []FilterExact
<1>1. IInv => FilterExact
  BY DEF IInv
<1> QED
  BY <1>1, Inductive, PTL

\* No buffer of a deduplicating table and no segment that LoadTable takes has
\* two rows with one key.
THEOREM UniqueKeys == Spec => []NoDuplicateKeys
<1>1. IInv => NoDuplicateKeys
  BY DEF IInv
<1> QED
  BY <1>1, Inductive, PTL

\* Every key refused as known is stored, unless a flush replaced a copy of it.
THEOREM KnownKeysAreStored == Spec => []KnownKeysStored
<1>1. IInv => KnownKeysStored
  BY DEF IInv
<1> QED
  BY <1>1, Inductive, PTL

\* A segment finished by a deduplicating table with a named key can be
\* continued, and no other can.
THEOREM FlushedSegmentsReopen == Spec => FlushReopens
<1> DEFINE A == writing # NoPath /\ writing' = NoPath /\ result' = "flushed" =>
                 (Loadable(disk'[writing]) <=> Unique /\ schema.PK # EmptyName)
<1>1. IInv /\ [Next]_vars => [A]_vars
  <2> SUFFICES ASSUME TypeOK, Session, [Next]_vars, writing # NoPath,
                      writing' = NoPath, result' = "flushed"
               PROVE  Loadable(disk'[writing]) <=> Unique /\ schema.PK # EmptyName
    BY DEF IInv
  <2>1. opened
    BY DEF Session
  <2>2. CASE FinishFlush
    <3>1. disk'[writing] = Image
      BY <2>2 DEF FinishFlush, TypeOK
    <3> QED
      BY <2>1, <3>1, ImageLoadable
  <2>3. ~FlushFails /\ ~Exit /\ ~UNCHANGED vars
    BY DEF FlushFails, Exit, vars
  <2> QED
    BY <2>1, <2>2, <2>3 DEF Next, CreateTable, LoadTable, Insert, CreateOutput, Ready
<1> QED
  BY <1>1, Inductive, PTL DEF Spec, FlushReopens

-----------------------------------------------------------------------------
(* Refinement.                                                             *)

\* The initial states are initial states of the store.
LEMMA StoreInitHolds == Init => Store!StoreInit
<1> SUFFICES ASSUME Init PROVE Store!StoreInit
  OBVIOUS
<1>1. \A p \in Paths : ~Loadable(disk[p])
  <2>1. ~Loadable(NoFile)
    BY DEF Loadable, LoadCheck, NoFile
  <2>2. \A image \in Foreign : ~Loadable(image)
    BY TableAssumption
  <2>3. \A p \in Paths : disk[p] \in {NoFile} \cup Foreign
    BY DEF Init
  <2> QED
    BY <2>1, <2>2, <2>3
<1>2. StoredIn = [p \in Paths |-> {}]
  BY <1>1 DEF StoredIn
<1> QED
  BY <1>2 DEF Init, Unique, Taken, Store!StoreInit

\* Every step of the table is a step of the store or leaves it alone.
LEMMA StoreStepHolds == IInv /\ [Next]_vars => [Store!StoreNext]_(Store!svars)
<1> SUFFICES ASSUME TypeOK, Session, FilterExact, [Next]_vars
             PROVE  Store!StoreNext \/ UNCHANGED Store!svars
  BY DEF IInv
<1>s. ASSUME Unique' <=> Unique, lineage' = lineage, Taken' = Taken, StoredIn' = StoredIn
      PROVE  UNCHANGED Store!svars
  BY <1>s DEF Store!svars, Unique
<1>1. CASE Creation
  <2>1. PICK s \in Schema, f \in Filter \cup {NoFilter} : ~opened /\ Open(s, f, {})
    BY <1>1 DEF Creation
  <2>2. ~Unique /\ lineage = {} /\ lineage' = {} /\ StoredIn' = StoredIn
    BY <2>1 DEF Session, Open, Unique, StoredIn
  <2>3. CASE f = NoFilter
    BY <1>s, <2>1, <2>2, <2>3 DEF Open, Unique, Taken
  <2>4. CASE f # NoFilter
    <3>1. Unique' /\ Taken' = 0
      BY <2>1, <2>4 DEF Open, Unique, Taken
    <3>2. Store!Create
      BY <2>2, <3>1 DEF Store!Create
    <3> QED
      BY <3>2 DEF Store!StoreNext
  <2> QED
    BY <2>3, <2>4
<1>2. CASE Loading
  <2>1. PICK p \in Paths :
          /\ ~opened /\ Loadable(disk[p])
          /\ Open(SchemaOf(disk[p]), disk[p].bloom, saved[p])
    BY <1>2 DEF Loading
  <2>2. ~Unique /\ lineage' = saved[p] /\ StoredIn' = StoredIn
    BY <2>1 DEF Session, Open, Unique, StoredIn
  <2>3. Unique' /\ Taken' = 0
    BY <2>1, LoadableType, NilIsNoFilter DEF Open, Unique, Taken
  <2>4. lineage' \in StoredIn[p]
    BY <2>1, <2>2 DEF StoredIn
  <2>5. Store!Continue(p)
    BY <2>2, <2>3, <2>4 DEF Store!Continue
  <2> QED
    BY <2>5 DEF Store!StoreNext
<1>3. CASE Acceptance
  <2>1. PICK row \in Row : /\ opened /\ RightLength(row)
                           /\ PassesFilter(row) /\ Accept(row)
    BY <1>3 DEF Acceptance
  <2>2. StoredIn' = StoredIn
    BY <2>1 DEF Accept, StoredIn
  <2>3. CASE Unique
    <3>1. Key(row) \in Bits /\ Key(row) \notin lineage
      BY <2>1, <2>3, KeyType, AcceptedKeyIsNew
    <3>2. lineage' = lineage \cup {Key(row)}
      BY <2>1, <2>3 DEF Accept
    <3>3. bloom \in Filter /\ bloom' = BloomAdd(bloom, Key(row))
      BY <2>1, <2>3 DEF Accept, TypeOK, Unique
    <3>4. Unique'
      BY <3>1, <3>3, AddType, NilIsNoFilter DEF Unique
    <3>5. Taken' = Taken + 1
      BY <2>1, <2>3, <3>4 DEF Accept, Taken
    <3>6. Store!Admit(Key(row))
      BY <2>2, <2>3, <3>1, <3>2, <3>4, <3>5 DEF Store!Admit
    <3> QED
      BY <3>1, <3>6 DEF Store!StoreNext
  <2>4. CASE ~Unique
    BY <1>s, <2>1, <2>2, <2>4 DEF Accept, Unique, Taken
  <2> QED
    BY <2>3, <2>4
<1>4. CASE Exit
  <2>1. StoredIn' = StoredIn /\ ~Unique' /\ lineage' = {} /\ Taken' = 0
    BY <1>4 DEF Exit, StoredIn, Unique, Taken
  <2>2. CASE Unique
    <3>1. Store!Leave
      BY <2>1, <2>2 DEF Store!Leave
    <3> QED
      BY <3>1 DEF Store!StoreNext
  <2>3. CASE ~Unique
    BY <1>s, <2>1, <2>3 DEF Session, Taken
  <2> QED
    BY <2>2, <2>3
<1>5. CASE Idle
  <2>1. /\ Unique' <=> Unique
        /\ lineage' = lineage /\ Taken' = Taken
        /\ StoredIn' = StoredIn
    BY <1>5 DEF Idle, Unique, StoredIn, Taken
  <2> QED
    BY <1>s, <2>1
<1>6. ASSUME NEW p \in Paths, CreateOutput(p)
      PROVE  Store!StoreNext
  <2>1. /\ \A q \in Paths : disk'[q] = IF q = p THEN Torn ELSE disk[q]
        /\ bloom' = bloom /\ lineage' = lineage /\ saved' = saved
        /\ Taken' = Taken
    BY <1>6 DEF CreateOutput, TypeOK, memory, Taken, Unique
  <2>2. StoredIn' = [StoredIn EXCEPT ![p] = {}]
    BY <2>1, TornIsNotLoadable DEF StoredIn
  <2>3. Store!Lose(p)
    BY <2>1, <2>2 DEF Store!Lose, Unique
  <2> QED
    BY <2>3 DEF Store!StoreNext
<1>7. CASE FinishFlush
  <2>0. PICK w \in Paths : w = writing
    BY <1>7 DEF FinishFlush, TypeOK
  <2>1. /\ \A q \in Paths : disk'[q] = IF q = w THEN Image ELSE disk[q]
        /\ \A q \in Paths : saved'[q] = IF q = w THEN lineage ELSE saved[q]
        /\ bloom' = bloom /\ lineage' = lineage /\ opened
        /\ Taken' = Taken
    BY <1>7, <2>0 DEF FinishFlush, TypeOK, memory, Session, Taken, Unique
  <2>2. CASE Loadable(Image)
    <3>1. Unique
      BY <2>1, <2>2, ImageLoadable
    <3>2. StoredIn' = [StoredIn EXCEPT ![w] = {lineage}]
      BY <2>1, <2>2 DEF StoredIn
    <3>3. Store!Save(w)
      BY <2>1, <3>1, <3>2 DEF Store!Save, Unique
    <3> QED
      BY <3>3 DEF Store!StoreNext
  <2>3. CASE ~Loadable(Image)
    <3>1. StoredIn' = [StoredIn EXCEPT ![w] = {}]
      BY <2>1, <2>3 DEF StoredIn
    <3>2. Store!Lose(w)
      BY <2>1, <3>1 DEF Store!Lose, Unique
    <3> QED
      BY <3>2 DEF Store!StoreNext
  <2> QED
    BY <2>2, <2>3
<1>8. CASE Leftover
  <2>1. StoredIn' = StoredIn
    BY <1>8, LeftoverKeeps DEF StoredIn
  <2> QED
    BY <1>s, <1>8, <2>1, LeftoverKeeps DEF Unique, Taken
<1> QED
  BY <1>1, <1>2, <1>3, <1>4, <1>5, <1>6, <1>7, <1>8, StepKinds

\* A table with a filter implements the promise of UniqueStore.
THEOREM Refinement == Spec => ImplementsStore
<1>1. IInv /\ [Next]_vars => [Store!StoreNext]_(Store!svars)
  BY StoreStepHolds
<1> QED
  BY <1>1, StoreInitHolds, Inductive, PTL
  DEF Spec, ImplementsStore, Store!StoreSpec

-----------------------------------------------------------------------------
(* The header map.                                                         *)

\* A name that occurs in the header has a last occurrence, and that is its
\* position.
LEMMA LastInHeader ==
  ASSUME NEW name, input.header \in Seq(Names), InHeader(name)
  PROVE  csvIdx(name) \in DOMAIN input.header
<1> DEFINE n == Len(input.header)
           Behind == { d \in Nat : d <= n /\ n - d \in DOMAIN input.header
                                   /\ input.header[n - d] = name }
<1>1. n \in Nat /\ DOMAIN input.header = 1 .. n
  OBVIOUS
<1>2. PICK j \in DOMAIN input.header : input.header[j] = name
  BY DEF InHeader
<1>3. n - j \in Nat /\ n - j <= n /\ n - (n - j) = j
  BY <1>1
<1>4. n - j \in Behind
  BY <1>2, <1>3
<1>5. Behind \subseteq Nat /\ Behind # {}
  BY <1>4
<1>6. PICK d \in Behind : \A e \in Behind : <<e, d>> \notin OpToRel(<, Nat)
  BY <1>5, NatLessThanWellFounded, WFMin
<1>7. \A e \in Behind : ~(e < d)
  BY <1>6 DEF OpToRel
<1>8. n - d \in DOMAIN input.header /\ input.header[n - d] = name /\ d \in Nat
  OBVIOUS
<1>9. ASSUME NEW l \in DOMAIN input.header, input.header[l] = name
      PROVE  l <= n - d
  <2>1. n - l \in Nat /\ n - l <= n /\ n - (n - l) = l
    BY <1>1
  <2>2. n - l \in Behind
    BY <1>9, <2>1
  <2>3. ~(n - l < d)
    BY <2>2, <1>7
  <2> QED
    BY <2>1, <2>3, <1>8, <1>1
<1> HIDE DEF Behind, n
<1> QED
  BY <1>8, <1>9 DEF csvIdx

-----------------------------------------------------------------------------
(* The invariant: what the checks before the loop have established.        *)

Checked ==
  /\ args \in Arguments /\ input \in Inputs
  /\ unread \in Seq(Item)
  /\ pc \in {"csv", "read"} => Usable(args)
  /\ pc = "read" => \A i \in DOMAIN args.spec : InHeader(args.spec[i].name)

\* Nothing has been checked before the loader starts.
LEMMA CheckedInit == LoadInit => Checked
<1> SUFFICES ASSUME LoadInit PROVE Checked
  OBVIOUS
<1>1. input \in Input
  BY LoadAssumption DEF LoadInit
<1> QED
  BY <1>1 DEF LoadInit, Checked, Input

\* Each action keeps what the checks have established.
LEMMA CheckedStep == Checked /\ [LoadNext]_lvars => Checked'
<1> SUFFICES ASSUME Checked, [LoadNext]_lvars PROVE Checked'
  OBVIOUS
<1> USE DEF Checked
<1>1. ASSUME UNCHANGED <<args, input, unread, pc>> PROVE Checked'
  BY <1>1 DEF Usable, InHeader
<1>2. ASSUME NEW code, Return(code) PROVE Checked'
  BY <1>2 DEF Return, given
<1>3. ASSUME NEW label, Go(label), label \notin {"csv", "read"} PROVE Checked'
  BY <1>3 DEF Go, given
<1>4. CASE Start
  <2>1. ASSUME Usable(args), Go("csv") PROVE Checked'
    BY <2>1 DEF Go, given
  <2> QED
    BY <1>2, <1>4, <2>1 DEF Start
<1>5. CASE ReadHeader
  <2>1. ASSUME pc = "csv", \A i \in DOMAIN args.spec : InHeader(args.spec[i].name), Go("read")
        PROVE  Checked'
    BY <2>1 DEF Go, given, InHeader
  <2> QED
    BY <1>2, <1>5, <2>1 DEF ReadHeader
<1>6. ASSUME pc = "read", unread # <<>>, unread' = Tail(unread),
             UNCHANGED <<given, pc>>
      PROVE  Checked'
  <2>1. Tail(unread) \in Seq(Item)
    BY <1>6
  <2> QED
    BY <1>6, <2>1 DEF given, InHeader
<1>7. CASE SkipRow
  BY <1>6, <1>7 DEF SkipRow, CountParseError
<1>8. CASE InsertRow
  BY <1>6, <1>8 DEF InsertRow
<1>9. CASE ReadFailsAgain
  BY <1>1, <1>9 DEF ReadFailsAgain, CountParseError, given
<1>10. CASE EndOfFile
  BY <1>10 DEF EndOfFile, given
<1>11. CASE CreateOut
  BY <1>2, <1>3, <1>11 DEF CreateOut
<1>12. CASE Flush
  BY <1>2, <1>3, <1>12 DEF Flush
<1>13. CASE Close
  BY <1>2, <1>13 DEF Close
<1>14. CASE ProcessEnds
  BY <1>14 DEF ProcessEnds, given
<1>15. CASE UNCHANGED lvars
  BY <1>1, <1>15 DEF lvars, given
<1> QED
  BY <1>4, <1>5, <1>7, <1>8, <1>9, <1>10, <1>11, <1>12, <1>13, <1>14, <1>15
  DEF LoadNext, Step

-----------------------------------------------------------------------------
(* Every step of the loader is a step of the table, or none.               *)

\* A field that is not bad becomes a value of its column's type.
LEMMA FieldType ==
  ASSUME Checked, pc = "read", unread # <<>>, Head(unread).kind = "record",
         NEW i \in 1 .. Len(args.spec), ~BadField(Head(unread), args.spec[i])
  PROVE  /\ CellOf(Head(unread), args.spec[i]) \in Cell
         /\ CellOf(Head(unread), args.spec[i]).type = args.spec[i].type
<1> DEFINE rec == Head(unread)
<1>1. Usable(args) /\ args \in Arguments /\ input \in Inputs
  BY DEF Checked
<1>2. args \in Argument /\ input \in Input
  BY <1>1, LoadAssumption
<1>3. args.spec \in Seq(Column) /\ DOMAIN args.spec = 1 .. Len(args.spec)
  BY <1>2 DEF Argument
<1>4. rec \in Item
  BY DEF Checked
<1>5. rec.fields \in Seq(Field)
  BY <1>4 DEF Item
<1>6. args.spec[i] \in Column /\ args.spec[i].type # "unknown"
  BY <1>1, <1>3 DEF Usable, GoodSpec
<1>7. args.spec[i].type \in ColumnType
  BY <1>6 DEF Column, DeclaredType
<1>8. csvIdx(args.spec[i].name) \in DOMAIN input.header
  BY <1>2, <1>3, LastInHeader DEF Checked, Input
<1>9. DOMAIN input.header = 1 .. Len(input.header) /\ Len(input.header) \in Nat
  BY <1>2 DEF Input
<1>10. ~(csvIdx(args.spec[i].name) > Len(rec.fields)) /\ FieldOf(rec, args.spec[i]) # NoValue
  BY DEF BadField
<1> HIDE DEF rec
<1>11. csvIdx(args.spec[i].name) \in 1 .. Len(rec.fields)
  BY <1>5, <1>8, <1>9, <1>10
<1>12. rec.fields[csvIdx(args.spec[i].name)] \in Field
  BY <1>5, <1>11
<1>13. FieldOf(rec, args.spec[i]) \in Bits
  BY <1>7, <1>10, <1>12 DEF FieldOf, Field
<1>14. /\ CellOf(rec, args.spec[i]) \in Cell
       /\ CellOf(rec, args.spec[i]).type = args.spec[i].type
  BY <1>7, <1>13 DEF CellOf, Cell, CellType
<1> QED
  BY <1>14 DEF rec

\* A good record fills the whole slice, whatever was in it.
LEMMA GoodFills ==
  ASSUME Checked, NEW rec, Parses(rec)
  PROVE  Filled(rec) = ParsedRow(rec)
<1>1. args.spec \in Seq(Column) /\ Len(args.spec) \in Nat
      /\ DOMAIN args.spec = 1 .. Len(args.spec)
  BY LoadAssumption DEF Checked, Argument
<1>2. \A j \in 1 .. Len(args.spec) : ~BadField(rec, args.spec[j])
  BY <1>1 DEF Parses, GoodRecord
<1>3. \A i \in 1 .. Len(args.spec) : \A j \in 1 .. i : ~BadField(rec, args.spec[j])
  BY <1>1, <1>2
<1> QED
  BY <1>3 DEF Filled, ParsedRow

\* A good record becomes a row with a value of the right type in every
\* column.
LEMMA ParsedRowType ==
  ASSUME Checked, pc = "read", unread # <<>>, Parses(Head(unread))
  PROVE  ParsedRow(Head(unread)) \in Rows
<1> DEFINE rec == Head(unread)
<1>1. Usable(args) /\ args \in Arguments
  BY DEF Checked
<1>2. DOMAIN args.spec = 1 .. Len(args.spec)
  BY <1>1, LoadAssumption DEF Argument
<1>3. \A i \in 1 .. Len(args.spec) : ~BadField(rec, args.spec[i])
  BY <1>2 DEF Parses, GoodRecord
<1>4. \A i \in 1 .. Len(args.spec) : /\ CellOf(rec, args.spec[i]) \in Cell
                                   /\ CellOf(rec, args.spec[i]).type = args.spec[i].type
  BY <1>3, FieldType DEF Parses
<1>5. ParsedRow(rec) \in RowsOf(args)
  <2> HIDE DEF rec
  <2> QED
    BY <1>4 DEF ParsedRow, RowsOf
<1> QED
  BY <1>1, <1>5, LoadAssumption

\* Whatever a record does to it, the slice keeps its length and holds cells.
LEMMA FilledType ==
  ASSUME Checked, pc = "read", unread # <<>>, Head(unread).kind = "record",
         rowSlice \in Seq(Cell \cup {NilCell}), Len(rowSlice) = Len(args.spec)
  PROVE  /\ Filled(Head(unread)) \in Seq(Cell \cup {NilCell})
         /\ Len(Filled(Head(unread))) = Len(args.spec)
<1> DEFINE rec == Head(unread)
           n == Len(args.spec)
<1>1. n \in Nat
  BY LoadAssumption DEF Checked, Argument
<1>2. ASSUME NEW i \in 1 .. n, \A j \in 1 .. i : ~BadField(rec, args.spec[j])
      PROVE  CellOf(rec, args.spec[i]) \in Cell
  <2>1. i \in 1 .. i
    BY <1>1
  <2> QED
    BY <1>2, <2>1, FieldType
<1>3. \A i \in 1 .. n : rowSlice[i] \in Cell \cup {NilCell}
  OBVIOUS
<1> HIDE DEF rec, n
<1>4. \A i \in 1 .. n :
        (IF \A j \in 1 .. i : ~BadField(rec, args.spec[j])
         THEN CellOf(rec, args.spec[i]) ELSE rowSlice[i]) \in Cell \cup {NilCell}
  BY <1>2, <1>3
<1>5. Filled(rec) = [i \in 1 .. n |->
                       IF \A j \in 1 .. i : ~BadField(rec, args.spec[j])
                       THEN CellOf(rec, args.spec[i]) ELSE rowSlice[i]]
  BY DEF Filled, n
<1>6. Filled(rec) \in [1 .. n -> Cell \cup {NilCell}]
  BY <1>4, <1>5
<1>7. Filled(rec) \in Seq(Cell \cup {NilCell}) /\ Len(Filled(rec)) = n
  BY <1>1, <1>6
<1> QED
  BY <1>7 DEF rec, n

\* Each action is a step of Table or leaves it alone.
LEMMA DrivesStep == Checked /\ [LoadNext]_lvars => [Next]_vars
<1> SUFFICES ASSUME Checked, [LoadNext]_lvars PROVE [Next]_vars
  OBVIOUS
<1>1. args \in Arguments /\ args \in Argument
  BY LoadAssumption DEF Checked
<1>2. sch(args) \in Schemas /\ args.option \in Options /\ args.out \in Paths
  BY <1>1, LoadAssumption DEF Argument
<1>3. CASE Start
  BY <1>2, <1>3 DEF Start, Next
<1>4. CASE InsertRow
  BY <1>4, ParsedRowType, GoodFills DEF InsertRow, Next
<1>5. CASE CreateOut
  BY <1>2, <1>5 DEF CreateOut, Next
<1>6. CASE Flush
  BY <1>6 DEF Flush, Next
<1>7. CASE ProcessEnds
  BY <1>7 DEF ProcessEnds, Next
<1>8. CASE ReadHeader \/ EndOfFile \/ Close
  BY <1>8 DEF ReadHeader, EndOfFile, Close
<1>9. CASE SkipRow \/ ReadFailsAgain
  BY <1>9 DEF SkipRow, ReadFailsAgain, CountParseError
<1>10. CASE UNCHANGED lvars
  BY <1>10 DEF lvars
<1> QED
  BY <1>3, <1>4, <1>5, <1>6, <1>7, <1>8, <1>9, <1>10 DEF LoadNext, Step

\* So a load is a behaviour of the table, and the table's invariants hold of it.
LEMMA LoaderDrivesTable == LoadSpec => Spec
<1>1. LoadInit => Init
  BY DEF LoadInit
<1> QED
  BY <1>1, CheckedInit, CheckedStep, DrivesStep, PTL DEF LoadSpec, Spec

-----------------------------------------------------------------------------
(* Arithmetic on counters of Word values.                                  *)

\* A counter below Word is itself, and so is one that went round once.
LEMMA Wraps ==
  ASSUME NEW x \in 0 .. (Word - 1)
  PROVE  x % Word = x /\ (x + Word) % Word = x
<1>1. \A a \in Nat, w \in Nat \ {0} : a < w => a % w = a
  OBVIOUS
<1>2. \A a \in Nat, w \in Nat \ {0} : a < w => (a + w) % w = a
  OBVIOUS
<1>3. x \in Nat /\ x < Word
  BY WordAssumption
<1> QED
  BY <1>1, <1>2, <1>3, WordAssumption

\* Counting one more.
LEMMA Increments ==
  ASSUME NEW x \in 0 .. (Word - 1)
  PROVE  (x + 1) % Word = IF x + 1 = Word THEN 0 ELSE x + 1
<1>1. Word \in Nat /\ Word > 0
  BY WordAssumption
<1>2. CASE x + 1 = Word
  <2>1. 0 \in 0 .. (Word - 1) /\ x + 1 = 0 + Word
    BY <1>1, <1>2
  <2> QED
    BY <2>1, Wraps, <1>2
<1>3. CASE x + 1 # Word
  <2>1. x + 1 \in 0 .. (Word - 1)
    BY <1>1, <1>3
  <2> QED
    BY <2>1, Wraps, <1>3
<1> QED
  BY <1>2, <1>3

-----------------------------------------------------------------------------
(* What the steps of the table do to what the loader looks at.             *)

\* Creating a table opens it, empty, or is refused and changes nothing.
LEMMA Creating ==
  ASSUME NEW s \in Schemas, NEW o \in Options, CreateTable(s, o)
  PROVE  /\ UNCHANGED <<writing, disk>>
         /\ \/ /\ result' = "created" /\ opened' = TRUE
               /\ accepted' = 0 /\ rejected' = 0 /\ schema' = s
               /\ bloom' # NoFilter <=> ~o.BloomDisabled
            \/ result' # "created" /\ UNCHANGED <<opened, memory>>
<1>1. o \in Option
  BY TableAssumption
<1>2. CASE ~o.BloomDisabled /\ ValidParameters(o.BloomExpectedItems, o.BloomTargetFPR)
           /\ Open(s, BloomNew(o.BloomExpectedItems, o.BloomTargetFPR), {}) /\ result' = "created"
  <2>1. BloomNew(o.BloomExpectedItems, o.BloomTargetFPR) \in Filter
    BY <1>1, <1>2, NewType DEF Option
  <2>2. BloomNew(o.BloomExpectedItems, o.BloomTargetFPR) # NoFilter
    BY <2>1, NilIsNoFilter
  <2> QED
    BY <1>2, <2>2 DEF Open
<1>3. CASE o.BloomDisabled /\ Open(s, NoFilter, {}) /\ result' = "created"
  BY <1>3 DEF Open
<1>4. ASSUME NEW why, why # "created", Refuse(why)
      PROVE  UNCHANGED <<writing, disk, opened, memory>> /\ result' # "created"
  BY <1>4 DEF Refuse
<1>5. Validate(s) # "created"
  BY DEF Validate
<1> QED
  BY <1>2, <1>3, <1>4, <1>5 DEF CreateTable

\* An insert counts the row once, as accepted or as rejected.
LEMMA Inserting ==
  ASSUME TypeOK, NEW r, Insert(r)
  PROVE  /\ UNCHANGED <<opened, schema, writing, disk>>
         /\ accepted' + rejected' = accepted + rejected + 1
<1>1. accepted \in Nat /\ rejected \in Nat
  BY DEF TypeOK
<1>2. ASSUME NEW why, Reject(why)
      PROVE  UNCHANGED <<opened, schema, writing, disk>> /\ accepted' = accepted /\ rejected' = rejected + 1
  BY <1>2 DEF Reject
<1>3. ASSUME Accept(r)
      PROVE  UNCHANGED <<opened, schema, writing, disk>> /\ accepted' = accepted + 1 /\ rejected' = rejected
  BY <1>3 DEF Accept
<1>4. Accept(r) \/ \E why : Reject(why)
  BY DEF Insert
<1> QED
  BY <1>1, <1>2, <1>3, <1>4

\* Flushing changes the file only.
LEMMA Flushing ==
  ASSUME FinishFlush \/ FlushFails
  PROVE  UNCHANGED <<opened, memory>>
BY DEF FinishFlush, FlushFails

\* Taking one record off those that are left.
LEMMA TakesOne ==
  ASSUME Checked, unread # <<>>
  PROVE  /\ Len(unread) \in Nat /\ Len(unread) >= 1
         /\ Len(Tail(unread)) = Len(unread) - 1
<1>1. unread \in Seq(Item)
  BY DEF Checked
<1> QED
  BY <1>1

\* The sizes the counters are compared with.
LEMMA Sizes ==
  ASSUME Checked
  PROVE  /\ Len(input.items) \in Nat /\ Len(input.items) < Word
         /\ Len(unread) \in Nat
         /\ Word \in Nat /\ Word > 0
         /\ maxLoadWarnings \in Nat
<1>1. input \in Inputs /\ input \in Input /\ unread \in Seq(Item)
  BY LoadAssumption DEF Checked
<1>2. input.items \in Seq(Item)
  BY <1>1 DEF Input
<1> QED
  BY <1>1, <1>2, LoadAssumption, WordAssumption

-----------------------------------------------------------------------------
(* Types.                                                                  *)

\* The initial states.
LEMMA LoadTypesInit == LoadInit => LoadTypeOK
<1> SUFFICES ASSUME LoadInit PROVE LoadTypeOK
  OBVIOUS
<1>1. args \in Argument /\ input \in Input
  BY LoadAssumption DEF LoadInit
<1>2. args.out \in Paths /\ input.items \in Seq(Item)
  BY <1>1 DEF Argument, Input
<1>3. before \in {NoFile} \cup Foreign /\ ~opened
  BY <1>2 DEF LoadInit, Init
<1>4. 0 \in 0 .. (Word - 1) /\ 0 \in 0 .. maxLoadWarnings /\ 0 \in 0 .. Word
  BY WordAssumption, LoadAssumption
<1> QED
  BY <1>2, <1>3, <1>4 DEF LoadInit, LoadTypeOK

\* A row that is not inserted keeps the counters in their ranges.
LEMMA CountTypes ==
  ASSUME Checked, LoadTypeOK, CountParseError
  PROVE  /\ rowsRead' \in 0 .. (Word - 1) /\ parseErrors' \in 0 .. (Word - 1)
         /\ warningsEmit' \in 0 .. maxLoadWarnings
<1>1. rowsRead \in 0 .. (Word - 1) /\ parseErrors \in 0 .. (Word - 1)
      /\ warningsEmit \in 0 .. maxLoadWarnings
  BY DEF LoadTypeOK
<1>2. Word \in Nat /\ Word > 0
  BY Sizes
<1>3. rowsRead' \in 0 .. (Word - 1) /\ parseErrors' \in 0 .. (Word - 1)
  <2>1. rowsRead' = IF rowsRead + 1 = Word THEN 0 ELSE rowsRead + 1
    BY <1>1, Increments DEF CountParseError
  <2>2. parseErrors' = IF parseErrors + 1 = Word THEN 0 ELSE parseErrors + 1
    BY <1>1, Increments DEF CountParseError
  <2> QED
    BY <1>1, <1>2, <2>1, <2>2
<1>4. warningsEmit' \in 0 .. maxLoadWarnings
  <2>1. maxLoadWarnings \in Nat
    BY Sizes
  <2> QED
    BY <1>1, <2>1 DEF CountParseError
<1> QED
  BY <1>3, <1>4

\* Where the loader goes on from each statement.
LEMMA LoadTypesStart ==
  ASSUME Checked, LoadTypeOK, Start
  PROVE  /\ UNCHANGED <<given, unread, counters>>
         /\ \/ pc' = "csv" /\ UNCHANGED exit /\ opened' = TRUE
            \/ pc' = "returned" /\ exit' \in {1, 2} /\ opened' = opened
<1>1. sch(args) \in Schemas /\ args.option \in Options
  BY LoadAssumption DEF Checked
<1> QED
  BY <1>1, Creating DEF Start, Go, Return, vars

\* Every action keeps the types.
LEMMA LoadTypesStep == Checked /\ Checked' /\ IInv /\ LoadTypeOK /\ [LoadNext]_lvars => LoadTypeOK'
<1> SUFFICES ASSUME Checked, Checked', IInv, LoadTypeOK, [LoadNext]_lvars PROVE LoadTypeOK'
  OBVIOUS
<1> DEFINE Slice == /\ rowSlice' \in Seq(Cell \cup {NilCell})
                    /\ pc' = "read" => Len(rowSlice') = Len(args'.spec)
           Stays == /\ UNCHANGED <<given, exit>>
                    /\ rowsRead' \in 0 .. (Word - 1) /\ parseErrors' \in 0 .. (Word - 1)
                    /\ warningsEmit' \in 0 .. maxLoadWarnings /\ suppressed' \in 0 .. Word
<1>0. TypeOK /\ args' \in Arguments /\ input' \in Inputs /\ unread' \in Seq(Item)
  BY DEF IInv, Checked
<1>1. CASE Start
  <2>1. rowSlice' = rowSlice
    BY <1>1 DEF Start
  <2> QED
    BY <1>0, <1>1, <2>1, LoadTypesStart DEF LoadTypeOK, given, counters
<1>2. ASSUME NEW label \in {"read", "create", "flush", "close"}, Stays, Slice, pc' = label, opened' = TRUE
      PROVE  LoadTypeOK'
  BY <1>0, <1>2 DEF LoadTypeOK, given
<1>3. ASSUME NEW n \in {0, 1}, Return(n), UNCHANGED <<opened, rowSlice>>
      PROVE  LoadTypeOK'
  BY <1>0, <1>3 DEF LoadTypeOK, Return, given, counters
<1>s. ASSUME UNCHANGED <<args, rowSlice>>, pc' = "read" => pc = "read" PROVE Slice
  BY <1>s DEF LoadTypeOK
<1>4. ASSUME NEW label, Go(label) PROVE Stays /\ pc' = label
  BY <1>4 DEF Go, LoadTypeOK, counters
<1>5. pc \in {"csv", "read", "create", "flush", "close"} => opened = TRUE
  BY DEF LoadTypeOK
<1>6. CASE ReadHeader
  <2>1. CASE Return(1) /\ UNCHANGED <<vars, rowSlice>>
    BY <1>3, <2>1 DEF vars
  <2>2. CASE /\ Go("read") /\ UNCHANGED vars
             /\ rowSlice' = [i \in 1 .. Len(args.spec) |-> NilCell]
    <3>1. Len(args.spec) \in Nat
      BY LoadAssumption DEF Checked, Argument
    <3>2. args' = args /\ Len(rowSlice') = Len(args.spec) /\ rowSlice' \in Seq(Cell \cup {NilCell})
      BY <2>2, <3>1 DEF Go, given
    <3>3. opened' = TRUE
      BY <1>5, <1>6, <2>2 DEF ReadHeader, vars
    <3> QED
      BY <1>2, <1>4, <2>2, <3>2, <3>3
  <2> QED
    BY <1>6, <2>1, <2>2 DEF ReadHeader
<1>7. ASSUME CountParseError, pc = "read", Slice PROVE LoadTypeOK'
  BY <1>2, <1>5, <1>7, CountTypes DEF CountParseError, vars, given, LoadTypeOK
<1>f. ASSUME pc = "read", unread # <<>>, Head(unread).kind = "record", args' = args,
             rowSlice' = Filled(Head(unread))
      PROVE  Slice
  BY <1>f, FilledType DEF LoadTypeOK
<1>8. CASE SkipRow \/ ReadFailsAgain
  <2>1. args' = args /\ pc' = pc /\ pc = "read" /\ CountParseError
    BY <1>8 DEF SkipRow, ReadFailsAgain, CountParseError, given
  <2>2. Slice
    BY <1>8, <1>f, <1>s, <2>1 DEF SkipRow, ReadFailsAgain
  <2> QED
    BY <1>7, <2>1, <2>2
<1>9. CASE InsertRow
  <2>1. UNCHANGED opened
    BY <1>0, <1>9, Inserting DEF InsertRow
  <2>2. rowsRead' \in 0 .. (Word - 1)
    <3>1. Word \in Nat /\ Word > 0 /\ rowsRead \in 0 .. (Word - 1)
      BY Sizes DEF LoadTypeOK
    <3>2. rowsRead' = IF rowsRead + 1 = Word THEN 0 ELSE rowsRead + 1
      BY <1>9, <3>1, Increments DEF InsertRow
    <3> QED
      BY <3>1, <3>2
  <2>3. Stays /\ pc' = "read" /\ opened' = TRUE
    BY <1>5, <1>9, <2>1, <2>2 DEF InsertRow, LoadTypeOK, given
  <2>4. Slice
    BY <1>9, <1>f DEF InsertRow, Parses, given
  <2> QED
    BY <1>2, <2>3, <2>4
<1>10. CASE EndOfFile
  <2>1. suppressed' \in 0 .. Word
    BY <1>10, Sizes DEF EndOfFile, LoadTypeOK
  <2>2. Stays /\ pc' = "create" /\ opened' = TRUE
    BY <1>5, <1>10, <2>1 DEF EndOfFile, LoadTypeOK, vars, given
  <2>3. Slice
    BY <1>10, <1>s, <2>2 DEF EndOfFile, given
  <2> QED
    BY <1>2, <2>2, <2>3
<1>g. ASSUME NEW label \in {"flush", "close"}, Go(label), opened' = TRUE, UNCHANGED rowSlice
      PROVE  LoadTypeOK'
  <2>1. Slice
    BY <1>s, <1>g DEF Go, given
  <2> QED
    BY <1>2, <1>4, <1>g, <2>1
<1>11. CASE CreateOut
  BY <1>3, <1>5, <1>g, <1>11 DEF CreateOut, CreateOutput, vars
<1>12. CASE Flush
  BY <1>3, <1>5, <1>g, <1>12, Flushing DEF Flush
<1>13. CASE Close
  BY <1>3, <1>13 DEF Close, vars
<1>14. CASE ProcessEnds
  <2>1. opened' = FALSE
    BY <1>0, <1>14 DEF ProcessEnds, Exit, vars, TypeOK
  <2> QED
    BY <1>0, <1>14, <2>1 DEF ProcessEnds, LoadTypeOK, given, counters
<1>15. CASE UNCHANGED lvars
  BY <1>0, <1>15 DEF lvars, LoadTypeOK, given, counters, vars
<1> QED
  BY <1>1, <1>6, <1>8, <1>9, <1>10, <1>11, <1>12, <1>13, <1>14, <1>15 DEF LoadNext, Step

-----------------------------------------------------------------------------
(* The counters.                                                           *)

\* The rows of the table and the parse errors are the rows read, exactly as
\* long as the file has an end, and up to one round of the counters otherwise.
Counting ==
  /\ exit # NoExit => pc \in {"returned", "ended"}
  /\ pc = "start" =>
       unread = input.items /\ rowsRead = 0 /\ parseErrors = 0 /\ warningsEmit = 0
  /\ opened =>
       /\ accepted + rejected + Len(unread) <= Len(input.items)
       /\ accepted + rejected + parseErrors \in {rowsRead, rowsRead + Word}
  /\ ~input.broken =>
       /\ rowsRead + Len(unread) = Len(input.items)
       /\ warningsEmit <= parseErrors
       /\ opened => accepted + rejected + parseErrors = rowsRead

\* After the loop the whole file was read and every parse error is shown or in
\* the number of suppressed ones.
Reported ==
  pc \in {"create", "flush", "close"} \/ exit = 0 =>
    ~input.broken /\ unread = <<>> /\ warningsEmit + suppressed = parseErrors

\* The initial states.
LEMMA CountingInit == LoadInit => Counting /\ Reported
<1> SUFFICES ASSUME LoadInit PROVE Counting /\ Reported
  OBVIOUS
<1>1. Len(input.items) \in Nat
  BY CheckedInit, Sizes
<1> QED
  BY <1>1 DEF LoadInit, Init, Counting, Reported, NoExit

\* The types of what is counted.
LEMMA CounterTypes ==
  ASSUME Checked, IInv, LoadTypeOK
  PROVE  /\ accepted \in Nat /\ rejected \in Nat
         /\ rowsRead \in 0 .. (Word - 1) /\ parseErrors \in 0 .. (Word - 1)
         /\ warningsEmit \in Nat /\ suppressed \in Nat
         /\ pc = "read" => opened
<1>1. TypeOK /\ maxLoadWarnings \in Nat /\ Word \in Nat
  BY Sizes DEF IInv
<1> QED
  BY <1>1 DEF TypeOK, LoadTypeOK

\* A row that is not inserted is one more parse error.
LEMMA CountingParseError ==
  ASSUME Checked, IInv, LoadTypeOK, Counting, CountParseError, pc = "read",
         \/ unread # <<>> /\ unread' = Tail(unread)
         \/ input.broken /\ UNCHANGED unread
  PROVE  Counting'
<1> DEFINE n == accepted + rejected
<1>1. /\ n \in Nat /\ opened /\ exit = NoExit
      /\ rowsRead \in 0 .. (Word - 1) /\ parseErrors \in 0 .. (Word - 1) /\ warningsEmit \in Nat
  BY CounterTypes DEF Counting
<1>2. /\ UNCHANGED <<accepted, rejected, opened, pc, exit, input>>
      /\ rowsRead' = (rowsRead + 1) % Word /\ parseErrors' = (parseErrors + 1) % Word
      /\ warningsEmit' \in {warningsEmit, warningsEmit + 1}
  BY DEF CountParseError, vars, memory, given
<1>3. /\ rowsRead' = IF rowsRead + 1 = Word THEN 0 ELSE rowsRead + 1
      /\ parseErrors' = IF parseErrors + 1 = Word THEN 0 ELSE parseErrors + 1
  BY <1>1, <1>2, Increments
<1>4. /\ Len(input.items) \in Nat /\ Len(input.items) < Word /\ Len(unread) \in Nat /\ Word \in Nat
  BY Sizes
<1>5. \/ Len(unread') = Len(unread) - 1
      \/ input.broken /\ Len(unread') = Len(unread)
  BY TakesOne
<1>6. /\ n + Len(unread) <= Len(input.items)
      /\ n + parseErrors \in {rowsRead, rowsRead + Word}
  BY <1>1 DEF Counting
<1>7. n + Len(unread') <= Len(input.items)
  BY <1>1, <1>4, <1>5, <1>6
<1>8. n + parseErrors' \in {rowsRead', rowsRead' + Word}
  <2>1. n < Word
    BY <1>1, <1>4, <1>6
  <2> HIDE DEF n
  <2> QED
    BY <1>1, <1>3, <1>4, <1>6, <2>1
<1>9. ASSUME ~input.broken
      PROVE  /\ rowsRead' + Len(unread') = Len(input.items)
             /\ warningsEmit' <= parseErrors'
             /\ n + parseErrors' = rowsRead'
  <2>1. /\ rowsRead + Len(unread) = Len(input.items) /\ warningsEmit <= parseErrors
        /\ n + parseErrors = rowsRead
    BY <1>1, <1>9 DEF Counting
  <2>2. Len(unread') = Len(unread) - 1 /\ Len(unread) >= 1
    BY <1>9, TakesOne
  <2> HIDE DEF n
  <2>3. rowsRead + 1 < Word /\ parseErrors + 1 < Word
    BY <1>1, <1>4, <2>1, <2>2
  <2>4. rowsRead' = rowsRead + 1 /\ parseErrors' = parseErrors + 1
    BY <1>1, <1>3, <1>4, <2>3
  <2> QED
    BY <1>1, <1>2, <1>4, <2>1, <2>2, <2>4
<1> QED
  BY <1>1, <1>2, <1>7, <1>8, <1>9 DEF Counting

\* An inserted row is one more row of the table.
LEMMA CountingInsert ==
  ASSUME Checked, IInv, LoadTypeOK, Counting, InsertRow
  PROVE  Counting'
<1> DEFINE n == accepted + rejected
<1>1. /\ n \in Nat /\ opened /\ exit = NoExit /\ pc = "read"
      /\ rowsRead \in 0 .. (Word - 1) /\ parseErrors \in 0 .. (Word - 1) /\ warningsEmit \in Nat
  BY CounterTypes DEF Counting, InsertRow
<1>2. /\ UNCHANGED <<parseErrors, warningsEmit, pc, exit, input>>
      /\ rowsRead' = (rowsRead + 1) % Word
  BY DEF InsertRow, given
<1>3. opened' = opened /\ n' = n + 1
  BY Inserting DEF InsertRow, IInv
<1>4. rowsRead' = IF rowsRead + 1 = Word THEN 0 ELSE rowsRead + 1
  BY <1>1, <1>2, Increments
<1>5. /\ Len(input.items) \in Nat /\ Len(input.items) < Word /\ Len(unread) \in Nat /\ Word \in Nat
  BY Sizes
<1>6. Len(unread') = Len(unread) - 1 /\ Len(unread) >= 1
  BY TakesOne DEF InsertRow
<1>7. /\ n + Len(unread) <= Len(input.items)
      /\ n + parseErrors \in {rowsRead, rowsRead + Word}
  BY <1>1 DEF Counting
<1>8. /\ n' + Len(unread') <= Len(input.items)
      /\ n' + parseErrors' \in {rowsRead', rowsRead' + Word}
  <2> HIDE DEF n
  <2>1. n < Word
    BY <1>1, <1>5, <1>7
  <2> QED
    BY <1>1, <1>2, <1>3, <1>4, <1>5, <1>6, <1>7, <2>1
<1>9. ASSUME ~input.broken
      PROVE  /\ rowsRead' + Len(unread') = Len(input.items)
             /\ warningsEmit' <= parseErrors'
             /\ n' + parseErrors' = rowsRead'
  <2>1. /\ rowsRead + Len(unread) = Len(input.items) /\ warningsEmit <= parseErrors
        /\ n + parseErrors = rowsRead
    BY <1>1, <1>9 DEF Counting
  <2> HIDE DEF n
  <2>2. rowsRead' = rowsRead + 1
    BY <1>1, <1>4, <1>5, <1>6, <2>1
  <2> QED
    BY <1>1, <1>2, <1>3, <1>5, <1>6, <2>1, <2>2
<1> QED
  BY <1>1, <1>2, <1>3, <1>8, <1>9 DEF Counting

\* Where no record is read, the counters stay.
LEMMA CountingStays ==
  ASSUME Counting, UNCHANGED <<given, unread, rowsRead, parseErrors, warningsEmit, accepted, rejected>>,
         opened' => opened, pc' # "start", exit' # NoExit => pc' \in {"returned", "ended"}
  PROVE  Counting'
BY DEF Counting, given

\* Every action keeps Counting.
LEMMA CountingStep == Checked /\ IInv /\ LoadTypeOK /\ Counting /\ [LoadNext]_lvars => Counting'
<1> SUFFICES ASSUME Checked, IInv, LoadTypeOK, Counting, [LoadNext]_lvars PROVE Counting'
  OBVIOUS
<1> DEFINE Keeps == UNCHANGED <<given, unread, rowsRead, parseErrors, warningsEmit, accepted, rejected, opened>>
<1>1. ASSUME Keeps, pc' = "returned" PROVE Counting'
  BY <1>1, CountingStays
<1>2. ASSUME Keeps, pc' \in {"csv", "read", "create", "flush", "close"}, UNCHANGED exit,
             pc \notin {"returned", "ended"}
      PROVE  Counting'
  BY <1>2, CountingStays DEF Counting
<1>3. CASE Start
  <2>1. sch(args) \in Schemas /\ args.option \in Options
    BY LoadAssumption DEF Checked
  <2>2. UNCHANGED <<given, unread, counters>>
    BY <1>3 DEF Start, Go, Return
  <2>3. CASE pc' = "csv" /\ UNCHANGED exit /\ opened' = TRUE /\ accepted' = 0 /\ rejected' = 0
    <3>1. /\ unread = input.items /\ rowsRead = 0 /\ parseErrors = 0 /\ warningsEmit = 0 /\ exit = NoExit
      BY <1>3 DEF Start, Counting
    <3>2. Len(input.items) \in Nat
      BY Sizes
    <3> QED
      BY <2>2, <2>3, <3>1, <3>2 DEF Counting, given, counters
  <2>4. CASE pc' = "returned" /\ UNCHANGED <<opened, memory>>
    BY <1>1, <2>2, <2>4 DEF memory, counters
  <2> QED
    BY <2>1, <2>3, <2>4, <1>3, Creating DEF Start, Go, Return, vars
<1>4. ASSUME NEW n, Return(n), UNCHANGED <<opened, memory>> PROVE Counting'
  BY <1>1, <1>4 DEF Return, counters, memory
<1>5. ASSUME NEW label \in {"read", "flush", "close"}, Go(label), UNCHANGED <<opened, memory>>,
             pc \notin {"returned", "ended"}
      PROVE  Counting'
  BY <1>2, <1>5 DEF Go, counters, memory
<1>6. CASE ReadHeader
  BY <1>4, <1>5, <1>6 DEF ReadHeader, vars
<1>7. CASE SkipRow \/ ReadFailsAgain
  BY <1>7, CountingParseError DEF SkipRow, ReadFailsAgain
<1>8. CASE InsertRow
  BY <1>8, CountingInsert
<1>9. CASE EndOfFile
  BY <1>2, <1>9 DEF EndOfFile, vars, memory
<1>10. CASE CreateOut
  BY <1>4, <1>5, <1>10 DEF CreateOut, CreateOutput, vars
<1>11. CASE Flush
  BY <1>4, <1>5, <1>11, Flushing DEF Flush
<1>12. CASE Close
  BY <1>4, <1>12 DEF Close, vars
<1>13. CASE ProcessEnds
  <2>1. ~opened'
    BY <1>13 DEF ProcessEnds, Exit, vars
  <2> QED
    BY <1>13, <2>1 DEF ProcessEnds, Counting, given, counters
<1>14. CASE UNCHANGED lvars
  BY <1>14 DEF lvars, Counting, vars, memory, given, counters
<1> QED
  BY <1>3, <1>6, <1>7, <1>8, <1>9, <1>10, <1>11, <1>12, <1>13, <1>14 DEF LoadNext, Step

\* Every action keeps Reported.
LEMMA ReportedStep ==
  Checked /\ IInv /\ LoadTypeOK /\ Counting /\ Reported /\ [LoadNext]_lvars => Reported'
<1> SUFFICES ASSUME Checked, IInv, LoadTypeOK, Counting, Reported, [LoadNext]_lvars
             PROVE  Reported'
  OBVIOUS
<1>1. ASSUME NEW n \in {1, 2}, Return(n) PROVE Reported'
  BY <1>1 DEF Return, Reported
<1>2. ASSUME NEW label \in {"csv", "read"}, Go(label), exit = NoExit PROVE Reported'
  BY <1>2 DEF Go, Reported, NoExit
<1>3. ASSUME UNCHANGED <<given, unread, counters>>, pc \in {"create", "flush", "close"}
      PROVE  Reported'
  BY <1>3 DEF Reported, given, counters
<1>4. pc \in {"start", "csv", "read", "create", "flush", "close"} => exit = NoExit
  BY DEF Counting
<1>5. CASE Start
  BY <1>1, <1>2, <1>4, <1>5 DEF Start
<1>6. CASE ReadHeader
  BY <1>1, <1>2, <1>4, <1>6 DEF ReadHeader
<1>7. CASE SkipRow \/ InsertRow \/ ReadFailsAgain
  <2>1. pc = "read" /\ UNCHANGED <<pc, exit>>
    BY <1>7 DEF SkipRow, InsertRow, ReadFailsAgain, CountParseError
  <2> QED
    BY <1>4, <2>1 DEF Reported, NoExit
<1>8. CASE EndOfFile
  <2>1. /\ UNCHANGED <<given, unread, parseErrors, warningsEmit>>
        /\ suppressed' = IF parseErrors > warningsEmit THEN parseErrors - warningsEmit ELSE 0
        /\ unread = <<>> /\ ~input.broken
    BY <1>8 DEF EndOfFile
  <2>2. warningsEmit <= parseErrors /\ parseErrors \in Int /\ warningsEmit \in Int
    BY <2>1, CounterTypes DEF Counting
  <2> QED
    BY <2>1, <2>2 DEF Reported, given
<1>9. CASE CreateOut \/ Flush \/ Close
  BY <1>3, <1>9 DEF CreateOut, Flush, Close, Go, Return
<1>10. CASE ProcessEnds \/ UNCHANGED lvars
  BY <1>10 DEF ProcessEnds, lvars, Reported, given, counters
<1> QED
  BY <1>5, <1>6, <1>7, <1>8, <1>9, <1>10 DEF LoadNext, Step

-----------------------------------------------------------------------------
(* The output file.                                                        *)

\* The output has the table once it is flushed; the table is the one asked for.
Written ==
  /\ opened => Usable(args) /\ schema = sch(args) /\ (Unique <=> ~args.option.BloomDisabled)
  /\ pc = "flush" => writing = args.out
  /\ pc = "close" \/ (exit = 0 /\ opened) => disk[args.out] = Image

\* The initial states.
LEMMA WrittenInit == LoadInit => Written /\ OutputIsLast
<1> SUFFICES ASSUME LoadInit PROVE Written /\ OutputIsLast
  OBVIOUS
<1> QED
  BY DEF LoadInit, Init, Written, OutputIsLast, NoExit

\* Inserting a row keeps the filter, or its absence.
LEMMA FilterStays ==
  ASSUME TypeOK, NEW r, Insert(r)
  PROVE  Unique' <=> Unique
<1>1. ASSUME Unique PROVE BloomAdd(bloom, Key(r)) # NoFilter
  <2>1. bloom \in Filter
    BY <1>1 DEF TypeOK, Unique
  <2>2. BloomAdd(bloom, Key(r)).m = bloom.m /\ bloom.m # 0
    BY <2>1, AddKeepsIndices DEF Filter
  <2> QED
    BY <2>2 DEF NoFilter
<1>2. Accept(r) \/ \E why : Reject(why)
  BY DEF Insert
<1>3. CASE Accept(r)
  BY <1>1, <1>3 DEF Accept, Unique
<1>4. ASSUME NEW why, Reject(why) PROVE Unique' <=> Unique
  BY <1>4 DEF Reject, Unique
<1> QED
  BY <1>2, <1>3, <1>4

\* Every action keeps Written.
LEMMA WrittenStep ==
  Checked /\ IInv /\ LoadTypeOK /\ Counting /\ Written /\ [LoadNext]_lvars => Written'
<1> SUFFICES ASSUME Checked, IInv, LoadTypeOK, Counting, Written, [LoadNext]_lvars
             PROVE  Written'
  OBVIOUS
<1> DEFINE Table == <<opened, schema, buf, bloom>>
           AsAsked == opened => Usable(args) /\ schema = sch(args)
                                /\ (Unique <=> ~args.option.BloomDisabled)
<1>0. TypeOK /\ Session
  BY DEF IInv
<1>1. args.out \in Paths /\ sch(args) \in Schemas /\ args.option \in Options
  BY LoadAssumption DEF Checked, Argument
<1>2. pc \in {"start", "csv", "read", "create", "flush", "close"} => exit = NoExit
  BY DEF Counting
<1>3. ASSUME UNCHANGED <<Table, args>> PROVE AsAsked' /\ Image' = Image
  BY <1>3 DEF Written, Unique, Usable, GoodSpec, sch, Image
<1>4. ASSUME UNCHANGED <<Table, given>>, pc' \notin {"flush", "close"}, exit' # 0
      PROVE  Written'
  BY <1>3, <1>4 DEF Written, given
<1>5. CASE Start
  <2>1. UNCHANGED given /\ pc' \in {"csv", "returned"} /\ exit' # 0
    BY <1>2, <1>5 DEF Start, Go, Return, NoExit
  <2>2. CASE UNCHANGED <<opened, memory>>
    BY <1>4, <2>1, <2>2 DEF memory
  <2>3. CASE /\ Usable(args) /\ opened' = TRUE /\ schema' = sch(args)
             /\ bloom' # NoFilter <=> ~args.option.BloomDisabled
    <3>1. Usable(args)' /\ sch(args)' = sch(args) /\ args' = args
      BY <2>1, <2>3 DEF Usable, GoodSpec, sch, given
    <3> QED
      BY <2>1, <2>3, <3>1 DEF Written, Unique
  <2> QED
    BY <1>1, <1>5, <2>2, <2>3, Creating DEF Start, vars
<1>6. CASE ReadHeader
  BY <1>2, <1>4, <1>6 DEF ReadHeader, Go, Return, NoExit, vars, memory
<1>7. CASE SkipRow \/ ReadFailsAgain \/ EndOfFile
  BY <1>2, <1>4, <1>7 DEF SkipRow, ReadFailsAgain, EndOfFile, CountParseError, NoExit, vars, memory
<1>8. CASE InsertRow
  <2>1. UNCHANGED <<opened, schema>> /\ (Unique' <=> Unique)
    BY <1>0, <1>8, Inserting, FilterStays DEF InsertRow
  <2>2. UNCHANGED <<given, pc, exit>> /\ pc = "read" /\ exit = NoExit
    BY <1>2, <1>8 DEF InsertRow
  <2> QED
    BY <2>1, <2>2 DEF Written, given, NoExit, Usable, GoodSpec, sch
<1>9. CASE CreateOut
  <2>1. CASE Return(1) /\ UNCHANGED vars
    BY <1>4, <2>1 DEF Return, vars, memory
  <2>2. CASE CreateOutput(args.out) /\ Go("flush")
    <3>1. UNCHANGED <<Table, given, exit>> /\ pc' = "flush" /\ writing' = args.out /\ exit = NoExit
      BY <1>2, <1>9, <2>2 DEF CreateOut, CreateOutput, Go, memory
    <3> QED
      BY <1>3, <3>1 DEF Written, given, NoExit
  <2> QED
    BY <1>9, <2>1, <2>2 DEF CreateOut
<1>10. CASE Flush
  <2>1. UNCHANGED <<Table, given>> /\ pc = "flush" /\ exit = NoExit
    BY <1>2, <1>10, Flushing DEF Flush, Go, Return, memory
  <2>2. CASE FlushFails /\ Return(1)
    BY <1>4, <2>1, <2>2 DEF Return
  <2>3. CASE FinishFlush /\ Go("close")
    <3>1. disk' = [disk EXCEPT ![args.out] = Image] /\ args.out \in DOMAIN disk
      BY <1>0, <1>1, <2>1, <2>3 DEF FinishFlush, Written, TypeOK
    <3>2. disk'[args.out] = Image /\ pc' = "close" /\ exit' = NoExit /\ args' = args
      BY <2>1, <2>3, <3>1 DEF Go, given
    <3> QED
      BY <1>3, <2>1, <3>2 DEF Written, given, NoExit
  <2> QED
    BY <1>10, <2>2, <2>3 DEF Flush
<1>11. CASE Close
  <2>1. UNCHANGED <<Table, given, disk>> /\ pc = "close" /\ pc' = "returned"
    BY <1>11 DEF Close, Return, vars, memory
  <2> QED
    BY <1>3, <2>1 DEF Written, given
<1>12. CASE ProcessEnds
  <2>1. ~opened' /\ pc' = "ended"
    BY <1>12 DEF ProcessEnds, Exit, vars
  <2> QED
    BY <2>1 DEF Written
<1>13. CASE UNCHANGED lvars
  <2>1. UNCHANGED <<Table, given, disk, writing, pc, exit>>
    BY <1>13 DEF lvars, vars, memory
  <2> QED
    BY <1>3, <2>1 DEF Written, given
<1> QED
  BY <1>5, <1>6, <1>7, <1>8, <1>9, <1>10, <1>11, <1>12, <1>13 DEF LoadNext, Step

\* Every action keeps OutputIsLast.
LEMMA OutputStep ==
  Checked /\ IInv /\ Reported /\ OutputIsLast /\ [LoadNext]_lvars => OutputIsLast'
<1> SUFFICES ASSUME Checked, IInv, Reported, OutputIsLast, [LoadNext]_lvars
             PROVE  OutputIsLast'
  OBVIOUS
<1>1. ASSUME UNCHANGED <<disk, given, unread>>, pc' \notin {"start", "csv", "read"}
      PROVE  OutputIsLast'
  BY <1>1 DEF OutputIsLast, given
<1>2. ASSUME UNCHANGED <<disk, given>>, pc \in {"start", "csv", "read"}
      PROVE  OutputIsLast'
  BY <1>2 DEF OutputIsLast, given
<1>3. ASSUME UNCHANGED <<given, unread>>, pc \in {"create", "flush"},
             pc' \notin {"start", "csv", "read"}
      PROVE  OutputIsLast'
  BY <1>3 DEF OutputIsLast, Reported, given
<1>4. CASE Start
  <2>1. sch(args) \in Schemas /\ args.option \in Options
    BY LoadAssumption DEF Checked
  <2> QED
    BY <1>2, <1>4, <2>1, Creating DEF Start, Go, Return, vars
<1>5. CASE InsertRow
  BY <1>2, <1>5, Inserting DEF InsertRow, IInv
<1>6. CASE ReadHeader \/ SkipRow \/ ReadFailsAgain \/ EndOfFile
  BY <1>2, <1>6 DEF ReadHeader, SkipRow, ReadFailsAgain, EndOfFile, CountParseError, Go, Return, vars
<1>7. CASE CreateOut \/ Flush
  BY <1>3, <1>7 DEF CreateOut, Flush, Go, Return
<1>8. CASE Close
  BY <1>1, <1>8 DEF Close, Return, vars
<1>9. CASE ProcessEnds
  BY <1>1, <1>9 DEF ProcessEnds, Exit, vars
<1>10. CASE UNCHANGED lvars
  BY <1>10 DEF lvars, vars, OutputIsLast, given
<1> QED
  BY <1>4, <1>5, <1>6, <1>7, <1>8, <1>9, <1>10 DEF LoadNext, Step

-----------------------------------------------------------------------------
(* The records.                                                            *)

\* The records still to come are the rest of the file.
Following ==
  /\ ReadSoFar \in Nat
  /\ \A j \in 1 .. Len(unread) : unread[j] = input.items[ReadSoFar + j]

\* Nothing is read at first.
LEMMA FollowingInit == LoadInit => Following
<1> SUFFICES ASSUME LoadInit PROVE Following
  OBVIOUS
<1>1. Len(input.items) \in Nat /\ unread = input.items
  BY CheckedInit, Sizes DEF LoadInit
<1>2. ReadSoFar = 0
  BY <1>1 DEF ReadSoFar
<1> QED
  BY <1>1, <1>2 DEF Following

\* The record read next is the next one of the file.
LEMMA ReadsOn ==
  ASSUME Checked, Following, unread # <<>>, unread' = Tail(unread), UNCHANGED given
  PROVE  /\ ReadSoFar' = ReadSoFar + 1
         /\ Head(unread) = input.items[ReadSoFar + 1]
         /\ Following'
<1> DEFINE n == ReadSoFar
<1>1. /\ n \in Nat /\ Len(unread) \in Nat \ {0} /\ Len(input.items) \in Nat
      /\ unread \in Seq(Item)
  BY TakesOne, Sizes DEF Following, Checked
<1>2. /\ Len(unread') = Len(unread) - 1
      /\ \A j \in 1 .. Len(unread') : unread'[j] = unread[j + 1]
      /\ Head(unread) = unread[1]
  BY <1>1
<1>3. input' = input /\ ReadSoFar' = n + 1
  BY <1>1, <1>2 DEF given, ReadSoFar
<1>4. \A j \in 1 .. Len(unread) : unread[j] = input.items[n + j]
  BY DEF Following
<1>0. n = ReadSoFar
  OBVIOUS
<1> HIDE DEF n
<1>5. ASSUME NEW j \in 1 .. Len(unread')
      PROVE  unread'[j] = input'.items[(n + 1) + j]
  <2>1. unread'[j] = unread[j + 1]
    BY <1>2
  <2>2. j + 1 \in 1 .. Len(unread) /\ n + (j + 1) = (n + 1) + j
    BY <1>1, <1>2
  <2>3. unread[j + 1] = input.items[n + (j + 1)]
    BY <1>4, <2>2
  <2> QED
    BY <1>3, <2>1, <2>2, <2>3
<1>6. Head(unread) = input.items[n + 1]
  BY <1>1, <1>2, <1>4
<1>7. n + 1 \in Nat
  BY <1>1
<1>8. Following'
  BY <1>3, <1>5, <1>7 DEF Following
<1> QED
  BY <1>0, <1>3, <1>6, <1>8

\* Every action keeps Following.
LEMMA FollowingStep == Checked /\ Following /\ [LoadNext]_lvars => Following'
<1> SUFFICES ASSUME Checked, Following, [LoadNext]_lvars PROVE Following'
  OBVIOUS
<1>1. ASSUME UNCHANGED <<given, unread>> PROVE Following'
  BY <1>1 DEF Following, ReadSoFar, given
<1>2. CASE Start \/ ReadHeader \/ CreateOut \/ Flush \/ Close
  BY <1>1, <1>2 DEF Start, ReadHeader, CreateOut, Flush, Close, Go, Return
<1>3. CASE SkipRow \/ InsertRow
  BY <1>3, ReadsOn DEF SkipRow, InsertRow, CountParseError
<1>4. CASE ReadFailsAgain \/ EndOfFile \/ ProcessEnds
  BY <1>1, <1>4 DEF ReadFailsAgain, EndOfFile, ProcessEnds, CountParseError
<1>5. CASE UNCHANGED lvars
  BY <1>1, <1>5 DEF lvars
<1> QED
  BY <1>2, <1>3, <1>4, <1>5 DEF LoadNext, Step

-----------------------------------------------------------------------------
(* The theorems.                                                           *)

LoadInv ==
  Checked /\ LoadTypeOK /\ Counting /\ Reported /\ Written /\ OutputIsLast /\ Following

\* Each of the loader's invariants holds, beside those of its table.
LEMMA LoadInvariant == LoadSpec => [](LoadInv /\ IInv)
<1>1. LoadInit => LoadInv
  BY CheckedInit, LoadTypesInit, CountingInit, WrittenInit, FollowingInit DEF LoadInv
<1>2. LoadInv /\ IInv /\ [LoadNext]_lvars => LoadInv'
  BY CheckedStep, LoadTypesStep, CountingStep, ReportedStep, WrittenStep, OutputStep,
     FollowingStep DEF LoadInv
<1> QED
  BY <1>1, <1>2, LoaderDrivesTable, Inductive, PTL DEF LoadSpec

\* The loader's variables keep their types, and the table is open exactly
\* while it is in use (runLoad).
THEOREM LoadTypeCorrect == LoadSpec => []LoadTypeOK
<1>1. LoadInv => LoadTypeOK
  BY DEF LoadInv
<1> QED
  BY <1>1, LoadInvariant, PTL

\* rowsRead, parseErrors and the table's two counters describe the same rows
\* at every step, also after a counter went round (the summary of runLoad).
THEOREM CountersAgree == LoadSpec => []RowsAddUp
<1>1. LoadInv /\ IInv => RowsAddUp
  <2> SUFFICES ASSUME LoadInv, IInv, opened
               PROVE  rowsRead = (accepted + rejected + parseErrors) % Word
    BY DEF RowsAddUp
  <2>1. rowsRead \in 0 .. (Word - 1) /\ accepted + rejected + parseErrors \in {rowsRead, rowsRead + Word}
    BY CounterTypes DEF LoadInv, Counting
  <2> QED
    BY <2>1, Wraps
<1> QED
  BY <1>1, LoadInvariant, PTL

\* A successful load has read every record, and every parse error was shown
\* or is in the number said to be suppressed (load.go:237-247).
THEOREM WarningsAddUp == LoadSpec => []ErrorsAddUp
<1>1. LoadInv /\ IInv => ErrorsAddUp
  <2> SUFFICES ASSUME LoadInv, IInv, exit = 0 PROVE ErrorsAddUp
    BY DEF ErrorsAddUp
  <2>1. ~input.broken /\ unread = <<>> /\ warningsEmit + suppressed = parseErrors
    BY DEF LoadInv, Reported
  <2>2. rowsRead + Len(unread) = Len(input.items) /\ rowsRead \in Int
    BY <2>1, CounterTypes DEF LoadInv, Counting
  <2> QED
    BY <2>1, <2>2 DEF ErrorsAddUp
<1> QED
  BY <1>1, LoadInvariant, PTL

\* Exit code 0 means that the output holds the table, that it can be loaded
\* again unless the filter was disabled, and that every record is accounted
\* for (load.go:249-292).
THEOREM SuccessMeansSaved == LoadSpec => []SuccessIsSaved
<1>1. LoadInv /\ IInv => SuccessIsSaved
  <2> SUFFICES ASSUME LoadInv, IInv, exit = 0, opened PROVE SuccessIsSaved
    BY DEF SuccessIsSaved
  <2>1. disk[args.out] = Image /\ schema = sch(args) /\ Usable(args)
        /\ (Unique <=> ~args.option.BloomDisabled)
    BY DEF LoadInv, Written
  <2>2. ~args.option.BloomDisabled => Loadable(disk[args.out])
    BY <2>1, ImageLoadable DEF IInv, Usable, sch
  <2>3. ~input.broken /\ unread = <<>>
    BY DEF LoadInv, Reported
  <2>4. /\ rowsRead + Len(unread) = Len(input.items) /\ rowsRead \in Int
        /\ accepted + rejected + parseErrors = rowsRead
    BY <2>3, CounterTypes DEF LoadInv, Counting
  <2>5. disk[args.out].rows = accepted
    BY <2>1 DEF Image, IInv, RowsStored
  <2> QED
    BY <2>1, <2>2, <2>3, <2>4, <2>5 DEF SuccessIsSaved
<1> QED
  BY <1>1, LoadInvariant, PTL

\* Until the CSV file was read to its end, the previous output is untouched
\* (load.go:249).
THEOREM OldOutputSurvives == LoadSpec => []OutputIsLast
<1>1. LoadInv => OutputIsLast
  BY DEF LoadInv
<1> QED
  BY <1>1, LoadInvariant, PTL
-----------------------------------------------------------------------------
(* The keys.                                                               *)

\* What was read has been learned: the filter has the key of every good record
\* read.
KeyOf(rec) == Key(ParsedRow(rec))

Learned ==
  opened /\ Unique =>
    \A i \in 1 .. ReadSoFar :
      Parses(input.items[i]) => BloomContains(bloom, KeyOf(input.items[i]))

\* As long as the input and the schema stay, a record means the same row.
LEMMA SameRecords ==
  ASSUME UNCHANGED <<args, input, schema>>, NEW rec
  PROVE  /\ Parses(rec)' <=> Parses(rec)
         /\ ParsedRow(rec)' = ParsedRow(rec)
         /\ KeyOf(rec)' = KeyOf(rec)
<1>1. ASSUME NEW name PROVE csvIdx(name)' = csvIdx(name)
  BY DEF csvIdx
<1>2. ASSUME NEW c PROVE FieldOf(rec, c)' = FieldOf(rec, c)
  BY <1>1 DEF FieldOf
<1>3. GoodRecord(rec)' <=> GoodRecord(rec)
  BY <1>1, <1>2 DEF GoodRecord, BadField
<1>4. ParsedRow(rec)' = ParsedRow(rec)
  BY <1>2 DEF ParsedRow, CellOf
<1> QED
  BY <1>3, <1>4 DEF Parses, KeyOf, Key, PKCell

\* A row made of a good record passes every check of Insert but the filter's.
LEMMA ParsedRowInserts ==
  ASSUME Checked, IInv, Written, opened, pc = "read", unread # <<>>, Parses(Head(unread))
  PROVE  LET row == ParsedRow(Head(unread)) IN
           row \in Row /\ RightLength(row) /\ ~BadKey(row) /\ ~AppendFails(schema, row)
<1> DEFINE rec == Head(unread)
           row == ParsedRow(rec)
<1>1. row \in Row
  BY ParsedRowType, TableAssumption DEF Parses
<1>2. /\ schema = sch(args) /\ schema.Columns = args.spec /\ Usable(args)
      /\ args.spec \in Seq(Column) /\ DOMAIN args.spec = 1 .. Len(args.spec)
      /\ Len(args.spec) \in Nat
  BY LoadAssumption DEF Checked, Written, sch, Argument
<1> HIDE DEF rec
<1>3. \A i \in 1 .. Len(args.spec) : row[i].type = args.spec[i].type
  BY DEF ParsedRow, CellOf
<1>4. \A i \in 1 .. Len(args.spec) :
        args.spec[i] \in Column /\ args.spec[i].type # "unknown"
  BY <1>2 DEF Usable, GoodSpec
<1>5. \A i \in 1 .. Len(args.spec) :
        args.spec[i].type # "unknown" /\ args.spec[i].type # "nil"
  BY <1>4 DEF Column, DeclaredType, ColumnType
<1>6. Len(row) = Len(args.spec)
  BY <1>2 DEF ParsedRow
<1> HIDE DEF row
<1>7. RightLength(row)
  BY <1>2, <1>6 DEF RightLength
<1>8. PKIndex(schema) \in 1 .. Len(args.spec)
  BY <1>1, <1>2, <1>7, KeyType DEF IInv
<1>9. ~BadKey(row)
  BY <1>2, <1>3, <1>5, <1>8 DEF BadKey, PKColumn, PKCell
<1>10. ~AppendFails(schema, row)
  BY <1>2, <1>3, <1>5, <1>6 DEF AppendFails, BadCell
<1> QED
  BY <1>1, <1>7, <1>9, <1>10 DEF row, rec

\* After a good record the filter knows its key, and what it knew before.
LEMMA InsertLearns ==
  ASSUME Checked, IInv, Written, opened, Unique, InsertRow
  PROVE  /\ UNCHANGED schema
         /\ BloomContains(bloom', KeyOf(Head(unread)))
         /\ \A key : BloomContains(bloom, key) => BloomContains(bloom', key)
<1> DEFINE row == ParsedRow(Head(unread))
<1>1. Insert(row) /\ Parses(Head(unread)) /\ pc = "read" /\ unread # <<>>
  BY GoodFills DEF InsertRow
<1>2. RightLength(row) /\ ~BadKey(row) /\ ~AppendFails(schema, row)
  BY <1>1, ParsedRowInserts
<1>3. bloom \in Filter
  BY DEF IInv, TypeOK, Unique
<1> HIDE DEF row
<1>4. \/ BloomContains(bloom, Key(row)) /\ Reject("duplicate")
      \/ Accept(row)
  BY <1>1, <1>2 DEF Insert
<1>5. CASE BloomContains(bloom, Key(row)) /\ Reject("duplicate")
  BY <1>5 DEF Reject, KeyOf, row
<1>6. CASE Accept(row)
  <2>1. bloom' = BloomAdd(bloom, Key(row)) /\ schema' = schema
    BY <1>6 DEF Accept
  <2>2. bloom'.bits = bloom.bits \cup Indices(bloom, Key(row))
    BY <1>3, <2>1 DEF BloomAdd, Filter
  <2>3. \A key : Indices(bloom', key) = Indices(bloom, key)
    BY <1>3, <2>1, AddKeepsIndices
  <2> QED
    BY <2>1, <2>2, <2>3 DEF BloomContains, KeyOf, row
<1> QED
  BY <1>4, <1>5, <1>6

\* Reading one record keeps Learned if its key, should it have one, is known.
LEMMA LearnedReads ==
  ASSUME Checked, Following, Learned, opened, Unique, unread # <<>>, unread' = Tail(unread),
         UNCHANGED <<given, schema>>,
         Parses(Head(unread)) => BloomContains(bloom', KeyOf(Head(unread))),
         \A key : BloomContains(bloom, key) => BloomContains(bloom', key)
  PROVE  Learned'
<1> DEFINE n == ReadSoFar
<1>1. n \in Nat
  BY DEF Following
<1>2. Head(unread) = input.items[n + 1]
  BY ReadsOn
<1>3. UNCHANGED <<args, input>> /\ ReadSoFar' = n + 1
  BY ReadsOn DEF given
<1>4. /\ \A rec : Parses(rec)' <=> Parses(rec)
      /\ \A rec : KeyOf(rec)' = KeyOf(rec)
  BY <1>3, SameRecords
<1>5. \A i \in 1 .. n : Parses(input.items[i]) => BloomContains(bloom, KeyOf(input.items[i]))
  BY DEF Learned
<1> HIDE DEF n
<1>7. ASSUME NEW i \in 1 .. (n + 1), Parses(input.items[i])
      PROVE  BloomContains(bloom', KeyOf(input.items[i]))
  <2>1. CASE i = n + 1
    BY <1>1, <1>2, <1>5, <1>7, <2>1
  <2>2. CASE i # n + 1
    BY <1>1, <1>5, <1>7, <2>2
  <2> QED
    BY <2>1, <2>2
<1>8. \A i \in 1 .. ReadSoFar' :
        Parses(input.items[i])' => BloomContains(bloom, KeyOf(input.items[i]))'
  BY <1>3, <1>4, <1>7 DEF BloomContains, Indices, Probe
<1> QED
  BY <1>8 DEF Learned

\* Every action keeps Learned.
LEMMA LearnedStep ==
  LoadInv /\ IInv /\ Learned /\ [LoadNext]_lvars => Learned'
<1> SUFFICES ASSUME Checked, IInv, LoadTypeOK, Counting, Written, Following, Learned, [LoadNext]_lvars,
                    opened', Unique'
             PROVE  Learned'
  BY DEF Learned, LoadInv
<1>1. ASSUME UNCHANGED <<opened, schema, bloom, given, unread>> PROVE Learned'
  <2>1. /\ \A rec : Parses(rec)' <=> Parses(rec)
        /\ \A rec : KeyOf(rec)' = KeyOf(rec)
    BY <1>1, SameRecords DEF given
  <2> QED
    BY <1>1, <2>1 DEF Learned, Unique, given, ReadSoFar
<1>2. CASE Start
  <2>1. sch(args) \in Schemas /\ args.option \in Options
    BY LoadAssumption DEF Checked
  <2>2. UNCHANGED <<given, unread>> /\ unread = input.items
    BY <1>2 DEF Start, Go, Return, Counting
  <2>3. Len(input.items) \in Nat
    BY Sizes
  <2>4. ReadSoFar' = 0
    BY <2>2, <2>3 DEF ReadSoFar, given
  <2> QED
    BY <2>4 DEF Learned
<1>3. CASE ReadHeader \/ EndOfFile \/ Close
  BY <1>1, <1>3 DEF ReadHeader, EndOfFile, Close, Go, Return, vars, memory
<1>4. CASE SkipRow
  <2>1. UNCHANGED <<opened, schema, bloom, given>> /\ ~Parses(Head(unread))
        /\ unread # <<>> /\ unread' = Tail(unread)
    BY <1>4 DEF SkipRow, CountParseError, vars, memory, Parses
  <2> QED
    BY <2>1, LearnedReads DEF Unique
<1>5. CASE InsertRow
  <2>1. opened /\ Unique /\ unread # <<>> /\ unread' = Tail(unread) /\ UNCHANGED given
    BY <1>5, Inserting, FilterStays DEF InsertRow, IInv
  <2> QED
    BY <1>5, <2>1, InsertLearns, LearnedReads
<1>6. CASE ReadFailsAgain
  BY <1>1, <1>6 DEF ReadFailsAgain, CountParseError, vars, memory
<1>7. CASE CreateOut
  BY <1>1, <1>7 DEF CreateOut, CreateOutput, Go, Return, vars, memory
<1>8. CASE Flush
  BY <1>1, <1>8, Flushing DEF Flush, Go, Return, memory
<1>9. CASE ProcessEnds
  BY <1>9 DEF ProcessEnds, Exit, vars
<1>10. CASE UNCHANGED lvars
  BY <1>1, <1>10 DEF lvars, vars, memory
<1> QED
  BY <1>2, <1>3, <1>4, <1>5, <1>6, <1>7, <1>8, <1>9, <1>10 DEF LoadNext, Step

\* After a successful load the saved filter has the key of every record that
\* parsed, stored or rejected, whatever the false positives (load.go:218-233).
THEOREM NoKeyForgotten == LoadSpec => []KeysReadAreKnown
<1>1. LoadInit => Learned
  BY DEF LoadInit, Init, Learned
<1>2. LoadInv /\ IInv /\ Learned /\ [LoadNext]_lvars => Learned'
  BY LearnedStep
<1>3. LoadInv /\ IInv /\ Learned => KeysReadAreKnown
  <2> SUFFICES ASSUME LoadInv, IInv, Learned, exit = 0, opened, Unique,
                      NEW i \in DOMAIN input.items, Parses(input.items[i])
               PROVE  BloomContains(disk[args.out].bloom, KeyOf(input.items[i]))
    BY DEF KeysReadAreKnown, Parses, KeyOf
  <2>1. disk[args.out].bloom = bloom
    BY DEF LoadInv, Written, Image
  <2>2. unread = <<>> /\ Len(input.items) \in Nat
    BY Sizes DEF LoadInv, Reported
  <2>3. ReadSoFar = Len(input.items)
    BY <2>2 DEF ReadSoFar
  <2>4. input.items \in Seq(Item)
    BY LoadAssumption DEF LoadInv, Checked, Input
  <2> QED
    BY <2>1, <2>3, <2>4 DEF Learned
<1> QED
  BY <1>1, <1>2, <1>3, LoadInvariant, PTL DEF LoadSpec

-----------------------------------------------------------------------------
(* The rows.                                                               *)

\* Which record each row of the table came from.
From == [DOMAIN log -> 1 .. ReadSoFar]

Traces(from) ==
  /\ \A m, n \in DOMAIN log : m < n => from[m] < from[n]
  /\ \A n \in DOMAIN log :
       Parses(input.items[from[n]]) /\ log[n] = ParsedRow(input.items[from[n]])
  /\ ~Unique =>
       \A i \in 1 .. ReadSoFar : Parses(input.items[i]) => \E n \in DOMAIN log : from[n] = i

Traced == opened => \E from \in From : Traces(from)

\* Tracing is what StoresWhatItRead says.
LEMMA TracedMeans == Traced <=> StoresWhatItRead
BY DEF Traced, From, Traces, StoresWhatItRead

\* A record that adds no row, because it is bad or its key is known.
LEMMA TracedSkips ==
  ASSUME Checked, Following, Traced, opened, unread # <<>>, unread' = Tail(unread),
         UNCHANGED <<given, schema, log>>, Unique' <=> Unique,
         Unique \/ ~Parses(Head(unread))
  PROVE  Traced'
<1>1. PICK n \in Nat : n = ReadSoFar
  BY DEF Following
<1>2. ReadSoFar' = n + 1 /\ Head(unread) = input.items[n + 1] /\ UNCHANGED <<args, input>>
  BY <1>1, ReadsOn DEF given
<1>3. /\ \A rec : Parses(rec)' <=> Parses(rec)
      /\ \A rec : ParsedRow(rec)' = ParsedRow(rec)
  BY <1>2, SameRecords
<1>4. PICK from \in [DOMAIN log -> 1 .. n] : Traces(from)
  BY <1>1 DEF Traced, From
<1>5. from \in From'
  <2>1. 1 .. n \subseteq 1 .. (n + 1)
    OBVIOUS
  <2> QED
    BY <1>2, <2>1 DEF From
<1>6. \A m, k \in DOMAIN log : m < k => from[m] < from[k]
  BY <1>4 DEF Traces
<1>7. \A k \in DOMAIN log :
        Parses(input.items[from[k]]) /\ log[k] = ParsedRow(input.items[from[k]])
  BY <1>4 DEF Traces
<1>8. ASSUME ~Unique, NEW i \in 1 .. (n + 1), Parses(input.items[i])
      PROVE  \E k \in DOMAIN log : from[k] = i
  <2>1. i # n + 1
    BY <1>2, <1>8
  <2>2. i \in 1 .. n
    BY <2>1
  <2> QED
    BY <1>1, <1>4, <1>8, <2>2 DEF Traces
<1>9. Traces(from)'
  BY <1>2, <1>3, <1>6, <1>7, <1>8 DEF Traces
<1> QED
  BY <1>5, <1>9 DEF Traced

\* A record whose row was accepted.
LEMMA TracedAccepts ==
  ASSUME Checked, TypeOK, Following, Traced, opened, unread # <<>>, unread' = Tail(unread),
         UNCHANGED <<given, schema>>, Unique' <=> Unique,
         Parses(Head(unread)), log' = Append(log, ParsedRow(Head(unread)))
  PROVE  Traced'
<1>1. PICK n \in Nat : n = ReadSoFar
  BY DEF Following
<1>2. ReadSoFar' = n + 1 /\ Head(unread) = input.items[n + 1] /\ UNCHANGED <<args, input>>
  BY <1>1, ReadsOn DEF given
<1>3. /\ \A rec : Parses(rec)' <=> Parses(rec)
      /\ \A rec : ParsedRow(rec)' = ParsedRow(rec)
  BY <1>2, SameRecords
<1>4. PICK from \in [DOMAIN log -> 1 .. n] : Traces(from)
  BY <1>1 DEF Traced, From
<1>5. PICK L \in Nat : L = Len(log)
  BY DEF TypeOK
<1>6. /\ DOMAIN log = 1 .. L /\ DOMAIN log' = 1 .. (L + 1)
      /\ \A k \in 1 .. L : log'[k] = log[k]
      /\ log'[L + 1] = ParsedRow(input.items[n + 1])
  BY <1>2, <1>5 DEF TypeOK
<1> DEFINE next == [k \in 1 .. (L + 1) |-> IF k = L + 1 THEN n + 1 ELSE from[k]]
<1>7. /\ next[L + 1] = n + 1
      /\ \A k \in 1 .. L : next[k] = from[k] /\ from[k] \in 1 .. n
      /\ \A k \in 1 .. (L + 1) : k = L + 1 \/ k \in 1 .. L
      /\ next \in [1 .. (L + 1) -> 1 .. (n + 1)]
  BY <1>4, <1>6
<1> HIDE DEF next
<1>8. next \in From'
  BY <1>2, <1>6, <1>7 DEF From
<1>9. ASSUME NEW m \in 1 .. (L + 1), NEW k \in 1 .. (L + 1), m < k
      PROVE  next[m] < next[k]
  <2>1. m \in 1 .. L
    BY <1>9
  <2>2. CASE k = L + 1
    <3>1. next[m] \in 1 .. n
      BY <1>7, <2>1
    <3>2. next[k] = n + 1
      BY <1>7, <2>2
    <3> QED
      BY <3>1, <3>2
  <2>3. CASE k \in 1 .. L
    <3>1. from[m] < from[k]
      BY <1>4, <1>6, <1>9, <2>1, <2>3 DEF Traces
    <3> QED
      BY <1>7, <2>1, <2>3, <3>1
  <2> QED
    BY <1>7, <2>2, <2>3
<1>10. ASSUME NEW k \in 1 .. (L + 1)
       PROVE  Parses(input.items[next[k]]) /\ log'[k] = ParsedRow(input.items[next[k]])
  <2>1. CASE k = L + 1
    BY <1>2, <1>6, <1>7, <2>1
  <2>2. CASE k \in 1 .. L
    BY <1>4, <1>6, <1>7, <2>2 DEF Traces
  <2> QED
    BY <1>7, <2>1, <2>2
<1>11. ASSUME ~Unique, NEW i \in 1 .. (n + 1), Parses(input.items[i])
       PROVE  \E k \in 1 .. (L + 1) : next[k] = i
  <2>0. L + 1 \in 1 .. (L + 1) /\ 1 .. L \subseteq 1 .. (L + 1)
    OBVIOUS
  <2>1. CASE i = n + 1
    BY <1>7, <2>0, <2>1
  <2>2. CASE i # n + 1
    <3>1. i \in 1 .. n
      BY <2>2
    <3>2. PICK k \in 1 .. L : from[k] = i
      BY <1>1, <1>4, <1>6, <1>11, <3>1 DEF Traces
    <3> QED
      BY <1>7, <2>0, <3>2
  <2> QED
    BY <2>1, <2>2
<1>12. Traces(next)'
  BY <1>2, <1>3, <1>6, <1>9, <1>10, <1>11 DEF Traces
<1> QED
  BY <1>8, <1>12 DEF Traced

\* A new table has no rows, and no record has been read.
LEMMA TracedStarts ==
  ASSUME log' = <<>>, ReadSoFar' = 0
  PROVE  Traced'
<1> DEFINE none == [k \in {} |-> 0]
<1>1. DOMAIN log' = {} /\ 1 .. ReadSoFar' = {}
  OBVIOUS
<1>2. none \in From'
  BY <1>1 DEF From
<1>3. Traces(none)'
  BY <1>1 DEF Traces
<1> QED
  BY <1>2, <1>3 DEF Traced

\* Inserting a good record's row stores it, or is refused by the filter.
LEMMA InsertTraces ==
  ASSUME Checked, IInv, Written, Following, Traced, opened, InsertRow
  PROVE  Traced'
<1> DEFINE row == ParsedRow(Head(unread))
<1>1. /\ Insert(row) /\ Parses(Head(unread)) /\ pc = "read"
      /\ unread # <<>> /\ unread' = Tail(unread) /\ UNCHANGED given
  BY GoodFills DEF InsertRow
<1>2. RightLength(row) /\ ~BadKey(row) /\ ~AppendFails(schema, row)
  BY <1>1, ParsedRowInserts
<1>3. TypeOK
  BY DEF IInv
<1>4. schema' = schema /\ (Unique' <=> Unique)
  BY <1>1, <1>3, Inserting, FilterStays
<1> HIDE DEF row
<1>5. \/ Unique /\ Reject("duplicate")
      \/ Accept(row)
  BY <1>1, <1>2 DEF Insert
<1>6. \/ Unique /\ log' = log
      \/ log' = Append(log, row)
  BY <1>5 DEF Accept, Reject, history
<1> QED
  BY <1>1, <1>3, <1>4, <1>6, TracedSkips, TracedAccepts DEF row

\* Every action keeps Traced.
LEMMA TracedStep == LoadInv /\ IInv /\ Traced /\ [LoadNext]_lvars => Traced'
<1> SUFFICES ASSUME LoadInv, IInv, Traced, [LoadNext]_lvars, opened' PROVE Traced'
  BY DEF Traced
<1>0. Checked /\ Written /\ Following /\ Counting /\ LoadTypeOK
  BY DEF LoadInv
<1>1. ASSUME UNCHANGED <<opened, schema, bloom, log, given, unread>> PROVE Traced'
  <2>1. /\ \A rec : Parses(rec)' <=> Parses(rec)
        /\ \A rec : ParsedRow(rec)' = ParsedRow(rec)
    BY <1>1, SameRecords DEF given
  <2> QED
    BY <1>1, <2>1 DEF Traced, From, Traces, Unique, given, ReadSoFar
<1>2. CASE Start
  <2>1. UNCHANGED <<given, unread>> /\ unread = input.items
    BY <1>0, <1>2 DEF Start, Go, Return, Counting
  <2>2. Len(input.items) \in Nat
    BY <1>0, Sizes
  <2>3. ReadSoFar' = 0
    BY <2>1, <2>2 DEF ReadSoFar, given
  <2>4. log' = <<>>
    <3>1. ~opened
      BY <1>0, <1>2 DEF Start, LoadTypeOK
    <3>2. ASSUME NEW s, NEW o, CreateTable(s, o) PROVE log' = <<>>
      BY <3>1, <3>2 DEF CreateTable, Open, Refuse
    <3> QED
      BY <1>2, <3>1, <3>2 DEF Start, vars
  <2> QED
    BY <2>3, <2>4, TracedStarts
<1>3. CASE ReadHeader \/ EndOfFile \/ Close
  BY <1>1, <1>3 DEF ReadHeader, EndOfFile, Close, Go, Return, vars, memory, history
<1>4. CASE SkipRow
  <2>1. /\ UNCHANGED <<opened, schema, bloom, log, given>> /\ ~Parses(Head(unread))
        /\ unread # <<>> /\ unread' = Tail(unread)
    BY <1>4 DEF SkipRow, CountParseError, vars, memory, history, Parses
  <2> QED
    BY <1>0, <2>1, TracedSkips DEF Unique
<1>5. CASE InsertRow
  <2>1. opened
    BY <1>5, Inserting DEF InsertRow, IInv
  <2> QED
    BY <1>0, <1>5, <2>1, InsertTraces
<1>6. CASE ReadFailsAgain
  BY <1>1, <1>6 DEF ReadFailsAgain, CountParseError, vars, memory, history
<1>7. CASE CreateOut
  BY <1>1, <1>7 DEF CreateOut, CreateOutput, Go, Return, vars, memory, history
<1>8. CASE Flush
  <2>1. log' = log
    BY <1>8 DEF Flush, FinishFlush, FlushFails, history
  <2> QED
    BY <1>1, <1>8, <2>1, Flushing DEF Flush, Go, Return, memory
<1>9. CASE ProcessEnds
  BY <1>9 DEF ProcessEnds, Exit, vars
<1>10. CASE UNCHANGED lvars
  BY <1>1, <1>10 DEF lvars, vars, memory, history
<1> QED
  BY <1>2, <1>3, <1>4, <1>5, <1>6, <1>7, <1>8, <1>9, <1>10 DEF LoadNext, Step

\* The rows of the table are those of good records, one each and in the order
\* of the file, and without a filter of all of them: no field that an earlier
\* record left in the reused row slice is ever stored (load.go:205-235).
THEOREM StoredRowsWereRead == LoadSpec => []StoresWhatItRead
<1>1. LoadInit => Traced
  BY DEF LoadInit, Init, Traced
<1> QED
  BY <1>1, TracedStep, TracedMeans, LoadInvariant, PTL DEF LoadSpec

-----------------------------------------------------------------------------
(* The keys of a loaded table.                                             *)

\* Every key the filter was taught is in the buffer: a load starts with an
\* empty filter.
TaughtAreHere == opened /\ Unique => lineage \subseteq KeysOf(buf.cols, schema)

\* Every action keeps TaughtAreHere.
LEMMA TaughtStep == LoadInv /\ IInv /\ TaughtAreHere /\ [LoadNext]_lvars => TaughtAreHere'
<1> SUFFICES ASSUME LoadInv, IInv, TaughtAreHere, [LoadNext]_lvars, opened', Unique'
             PROVE  lineage' \subseteq KeysOf(buf'.cols, schema')
  BY DEF TaughtAreHere
<1>0. Checked /\ Written /\ LoadTypeOK /\ TypeOK /\ Session /\ RowsStored
  BY DEF LoadInv, IInv
<1>1. ASSUME UNCHANGED <<opened, schema, buf, bloom, lineage>>
      PROVE  lineage' \subseteq KeysOf(buf'.cols, schema')
  BY <1>1 DEF TaughtAreHere, Unique
<1>2. CASE Start
  <2>1. ~opened
    BY <1>0, <1>2 DEF Start, LoadTypeOK
  <2>2. ASSUME NEW s, NEW o, CreateTable(s, o) PROVE lineage' = {}
    BY <2>1, <2>2 DEF CreateTable, Open, Refuse
  <2>3. lineage' = {}
    BY <1>2, <2>1, <2>2 DEF Start, vars
  <2> QED
    BY <2>3
<1>3. CASE ReadHeader \/ EndOfFile \/ Close \/ SkipRow \/ ReadFailsAgain
  BY <1>1, <1>3 DEF ReadHeader, EndOfFile, Close, SkipRow, ReadFailsAgain, CountParseError,
                    vars, memory, history
<1>4. CASE InsertRow
  <2> DEFINE row == ParsedRow(Head(unread))
  <2>1. /\ Insert(row) /\ Parses(Head(unread)) /\ pc = "read" /\ unread # <<>> /\ opened
    BY <1>0, <1>4, GoodFills DEF InsertRow, LoadTypeOK
  <2>2. row \in Row /\ RightLength(row)
    BY <1>0, <2>1, ParsedRowInserts
  <2> HIDE DEF row
  <2>3. CASE Accept(row)
    <3>1. lineage' = IF Unique THEN lineage \cup {Key(row)} ELSE lineage
      BY <2>3 DEF Accept
    <3>2. KeysOf(buf'.cols, schema') = KeysOf(buf.cols, schema) \cup {Key(row)}
      BY <1>0, <2>1, <2>2, <2>3, AcceptKeySet
    <3>3. Unique
      BY <1>0, <2>1, FilterStays
    <3> QED
      BY <2>1, <3>1, <3>2, <3>3 DEF TaughtAreHere
  <2>4. ASSUME NEW why, Reject(why)
        PROVE  lineage' \subseteq KeysOf(buf'.cols, schema')
    BY <1>1, <2>4 DEF Reject, history
  <2> QED
    BY <2>1, <2>3, <2>4 DEF Insert
<1>5. CASE CreateOut \/ Flush
  <2>1. UNCHANGED <<opened, schema, buf, bloom, lineage>>
    BY <1>5 DEF CreateOut, Flush, CreateOutput, FinishFlush, FlushFails, vars, memory, history
  <2> QED
    BY <1>1, <2>1
<1>6. CASE ProcessEnds
  BY <1>6 DEF ProcessEnds, Exit, vars
<1>7. CASE UNCHANGED lvars
  BY <1>1, <1>7 DEF lvars, vars, memory, history
<1> QED
  BY <1>2, <1>3, <1>4, <1>5, <1>6, <1>7 DEF LoadNext, Step

\* In a load with a filter the filter has been taught exactly the keys of the
\* rows held, each of them once, and no two rows have one key: the rate the
\* summary prints is computed from the number of distinct keys loaded.
THEOREM LoadedKeys ==
  LoadSpec => [](opened /\ Unique =>
                   /\ Knows(bloom, KeysOf(buf.cols, schema))
                   /\ DistinctKeys(buf.cols, schema))
<1>1. LoadInit => TaughtAreHere
  BY DEF LoadInit, Init, TaughtAreHere
<1>2. IInv /\ TaughtAreHere =>
        (opened /\ Unique => /\ Knows(bloom, KeysOf(buf.cols, schema))
                             /\ DistinctKeys(buf.cols, schema))
  <2> SUFFICES ASSUME IInv, TaughtAreHere, opened, Unique
               PROVE  Knows(bloom, KeysOf(buf.cols, schema)) /\ DistinctKeys(buf.cols, schema)
    OBVIOUS
  <2>1. KeysOf(buf.cols, schema) = lineage
    BY DEF IInv, KeysRemembered, TaughtAreHere
  <2> QED
    BY <2>1 DEF IInv, FilterExact, NoDuplicateKeys
<1> QED
  BY <1>1, <1>2, TaughtStep, LoadInvariant, PTL DEF LoadSpec
=============================================================================
