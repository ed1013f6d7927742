-------------------------- MODULE RunLengthProofs --------------------------
(***************************************************************************)
(* What encodeRLE* writes of a column, decodeRLE* reads back, whatever the *)
(* values.  The loops are functions of the number of turns; the encoder    *)
(* and the decoder of its output take their turns in step.                 *)
(***************************************************************************)
EXTENDS RunLength, TLAPS, SequenceTheorems, Recursions

-----------------------------------------------------------------------------
(* The encoder.                                                            *)

\* A run ends behind its start, inside the column, and is of one value.
LEMMA RunEnds ==
  ASSUME NEW V, NEW vals \in Seq(V), NEW i \in Nat, i < Len(vals)
  PROVE  /\ RunEnd(vals, i) \in (i + 1) .. Len(vals)
         /\ \A l \in (i + 1) .. RunEnd(vals, i) : vals[l] = vals[i + 1]
<1> DEFINE Run(j) == \A l \in (i + 1) .. j : vals[l] = vals[i + 1]
           End(j) == Run(j) /\ (j = Len(vals) \/ vals[j + 1] # vals[i + 1])
<1>0. Len(vals) \in Nat
  OBVIOUS
<1>1. \E j \in (i + 1) .. Len(vals) : End(j)
  <2> SUFFICES ASSUME \A j \in (i + 1) .. Len(vals) : ~End(j) PROVE FALSE
    OBVIOUS
  <2> DEFINE Long == { n \in Nat : (i + 1) + n <= Len(vals) => Run((i + 1) + n) }
  <2>1. 0 \in Long
    OBVIOUS
  <2>2. ASSUME NEW n \in Long PROVE n + 1 \in Long
    <3> SUFFICES ASSUME (i + 1) + (n + 1) <= Len(vals) PROVE Run((i + 1) + (n + 1))
      OBVIOUS
    <3>1. PICK j : j = (i + 1) + n
      OBVIOUS
    <3>2. j \in (i + 1) .. Len(vals) /\ j # Len(vals) /\ j + 1 = (i + 1) + (n + 1)
      BY <1>0, <3>1
    <3>3. Run(j)
      BY <1>0, <3>1
    <3>4. vals[j + 1] = vals[i + 1]
      BY <3>2, <3>3
    <3> QED
      BY <3>2, <3>3, <3>4
  <2>3. Long = Nat
    <3> HIDE DEF Long
    <3>1. Long \in SUBSET Nat
      BY DEF Long
    <3> QED
      BY <2>1, <2>2, <3>1, SetInduction
  <2>4. PICK n : n = Len(vals) - (i + 1)
    OBVIOUS
  <2>5. n \in Nat /\ (i + 1) + n = Len(vals)
    BY <1>0, <2>4
  <2>6. n \in Long
    BY <2>3, <2>5
  <2>7. Run(Len(vals))
    BY <1>0, <2>5, <2>6
  <2> QED
    BY <1>0, <2>7
<1>2. RunEnd(vals, i) \in (i + 1) .. Len(vals) /\ End(RunEnd(vals, i))
  BY <1>1 DEF RunEnd
<1> QED
  BY <1>2

\* The cells of a value.
LEMMA Frames ==
  ASSUME NEW type \in ColumnType, NEW v \in Values(type)
  PROVE  /\ Frame(type, v) \in Seq(Nat)
         /\ Len(Frame(type, v)) = IF type = "string" THEN Len(v) + 1 ELSE 1
<1>1. CASE type = "string"
  <2>1. v \in Seq(Nat) /\ Len(v) \in Nat /\ <<Len(v)>> \in Seq(Nat)
    BY <1>1 DEF Values
  <2>2. <<Len(v)>> \o v \in Seq(Nat) /\ Len(<<Len(v)>> \o v) = Len(v) + 1
    BY <2>1
  <2> QED
    BY <1>1, <2>2 DEF Frame
<1>2. CASE type # "string"
  BY <1>2 DEF Values, Frame
<1> QED
  BY <1>1, <1>2

Encoding(vals) == [i : 0 .. Len(vals), out : Seq(Nat)]

\* A turn of the encoder leaves an encoding.
LEMMA EncodeRunTypes ==
  ASSUME NEW type \in ColumnType, NEW vals \in Seq(Values(type)), NEW st \in Encoding(vals)
  PROVE  EncodeRun(type, vals, st) \in Encoding(vals)
<1>1. CASE st.i >= Len(vals)
  BY <1>1 DEF EncodeRun
<1>2. CASE ~(st.i >= Len(vals))
  <2>0. st.i \in Nat /\ st.i < Len(vals) /\ Len(vals) \in Nat /\ st.out \in Seq(Nat)
    BY <1>2 DEF Encoding
  <2>1. PICK j : j = RunEnd(vals, st.i)
    OBVIOUS
  <2>2. j \in (st.i + 1) .. Len(vals)
    BY <2>0, <2>1, RunEnds
  <2>3. j - st.i \in Nat /\ j \in 0 .. Len(vals)
    BY <2>0, <2>2
  <2>4. vals[st.i + 1] \in Values(type)
    BY <2>0
  <2>5. Frame(type, vals[st.i + 1]) \in Seq(Nat)
    BY <2>4, Frames
  <2>6. st.out \o <<j - st.i>> \o Frame(type, vals[st.i + 1]) \in Seq(Nat)
    BY <2>0, <2>3, <2>5
  <2>7. EncodeRun(type, vals, st)
          = [i |-> j, out |-> st.out \o <<j - st.i>> \o Frame(type, vals[st.i + 1])]
    BY <1>2, <2>1 DEF EncodeRun
  <2> QED
    BY <2>3, <2>6, <2>7 DEF Encoding
<1> QED
  BY <1>1, <1>2

\* The encoding after no turn, and after one more.
LEMMA EncodeUnfolds ==
  ASSUME NEW type \in ColumnType, NEW vals \in Seq(Values(type))
  PROVE  /\ EncodeTurns(type, vals) \in [Nat -> Encoding(vals)]
         /\ EncodeTurns(type, vals)[0] = Unencoded
         /\ \A n \in Nat : EncodeTurns(type, vals)[n + 1]
                             = EncodeRun(type, vals, EncodeTurns(type, vals)[n])
<1> DEFINE S == Encoding(vals)
           Def(f) == f = [n \in Nat |-> IF n = 0 THEN Unencoded
                                        ELSE EncodeRun(type, vals, f[n - 1])]
<1>1. Unencoded \in S
  BY DEF Encoding, Unencoded
<1>2. PICK step : step = [p \in S \X Nat |-> EncodeRun(type, vals, p[1])]
  OBVIOUS
<1>3. step \in [S \X Nat -> S]
  <2>1. ASSUME NEW p \in S \X Nat PROVE EncodeRun(type, vals, p[1]) \in S
    BY EncodeRunTypes
  <2> QED
    BY <1>2, <2>1
<1>4. PICK f \in [Nat -> S] : Recursive(f, Unencoded, step)
  <2> HIDE DEF S
  <2> QED
    BY <1>1, <1>3, Recursion
<1>5. Def(f)
  <2>1. ASSUME NEW n \in Nat, n # 0
        PROVE  f[n] = EncodeRun(type, vals, f[n - 1])
    <3>1. n - 1 \in Nat /\ f[n - 1] \in S /\ (n - 1) + 1 = n
      BY <2>1
    <3>2. f[n] = step[<<f[n - 1], n - 1>>]
      BY <1>4, <3>1 DEF Recursive
    <3> HIDE DEF S
    <3> QED
      BY <1>2, <3>1, <3>2
  <2>2. f[0] = Unencoded
    BY <1>4 DEF Recursive
  <2> QED
    BY <1>4, <2>1, <2>2
<1>6. PICK e : e = EncodeTurns(type, vals)
  OBVIOUS
<1>7. Def(e)
  <2>1. e = CHOOSE g : Def(g)
    BY <1>6 DEF EncodeTurns
  <2> HIDE DEF Def
  <2> QED
    BY <1>5, <2>1
<1>8. ASSUME NEW n \in Nat
      PROVE  e[n] = IF n = 0 THEN Unencoded ELSE EncodeRun(type, vals, e[n - 1])
  BY <1>7
<1>9. e[0] = Unencoded /\ \A n \in Nat : e[n + 1] = EncodeRun(type, vals, e[n])
  <2>1. ASSUME NEW n \in Nat PROVE e[n + 1] = EncodeRun(type, vals, e[n])
    <3>1. n + 1 \in Nat /\ n + 1 # 0 /\ (n + 1) - 1 = n
      OBVIOUS
    <3> QED
      BY <1>8, <3>1
  <2> QED
    BY <1>8, <2>1
<1>10. e \in [Nat -> S]
  <2> DEFINE T == { n \in Nat : e[n] \in S }
  <2>1. 0 \in T
    BY <1>1, <1>9
  <2>2. ASSUME NEW n \in T PROVE n + 1 \in T
    <3>1. n \in Nat /\ e[n] \in Encoding(vals)
      OBVIOUS
    <3>2. EncodeRun(type, vals, e[n]) \in S
      BY <3>1, EncodeRunTypes
    <3>3. n + 1 \in Nat /\ e[n + 1] = EncodeRun(type, vals, e[n])
      BY <1>9, <3>1
    <3> HIDE DEF S
    <3> QED
      BY <3>2, <3>3
  <2>3. T = Nat
    <3> HIDE DEF T
    <3>1. T \in SUBSET Nat
      BY DEF T
    <3> QED
      BY <2>1, <2>2, <3>1, SetInduction
  <2> QED
    BY <1>7, <2>3
<1> QED
  BY <1>6, <1>9, <1>10

-----------------------------------------------------------------------------
(* The decoder.                                                            *)

Decoding(type) == [off : Nat, out : Seq(Values(type)), ok : BOOLEAN]

\* A value that is there is one of the column's, and ends where its frame does.
LEMMA ValuesThere ==
  ASSUME NEW type \in ColumnType, NEW data \in Seq(Nat), NEW off \in Nat,
         ~ValueMissing(type, data, off)
  PROVE  /\ ValueAt(type, data, off) \in Values(type)
         /\ ValueEnd(type, data, off) \in Nat
<1>0. Len(data) \in Nat /\ off < Len(data) /\ data[off + 1] \in Nat
  <2>1. Len(data) \in Nat /\ off < Len(data)
    BY DEF ValueMissing
  <2>2. off + 1 \in 1 .. Len(data)
    BY <2>1
  <2> QED
    BY <2>1, <2>2
<1>1. ValueAt(type, data, off) \in Values(type)
  <2>1. CASE type = "string"
    <3>1. data[off + 1] <= Len(data) - (off + 1)
      BY <1>0, <2>1 DEF ValueMissing
    <3>2. PICK b : b = off + 1 + data[off + 1]
      OBVIOUS
    <3>3. b \in Nat /\ b <= Len(data)
      BY <1>0, <3>1, <3>2
    <3>4. SubSeq(data, off + 2, b) \in Seq(Nat)
      BY <1>0, <3>3
    <3> QED
      BY <2>1, <3>2, <3>4 DEF ValueAt, Values
  <2>2. CASE type # "string"
    BY <1>0, <2>2 DEF ValueAt, Values
  <2> QED
    BY <2>1, <2>2
<1>2. Frame(type, ValueAt(type, data, off)) \in Seq(Nat)
  BY <1>1, Frames
<1>3. Len(Frame(type, ValueAt(type, data, off))) \in Nat
  BY <1>2
<1> QED
  BY <1>1, <1>3 DEF ValueEnd

\* A turn of the decoder leaves a decoding.
LEMMA DecodeRunTypes ==
  ASSUME NEW type \in ColumnType, NEW data \in Seq(Nat), NEW rows \in Nat,
         NEW st \in Decoding(type)
  PROVE  DecodeRun(type, data, rows, st) \in Decoding(type)
<1>0. st.off \in Nat /\ st.out \in Seq(Values(type)) /\ st.ok \in BOOLEAN /\ Len(data) \in Nat
  BY DEF Decoding
<1>1. CASE ~st.ok \/ st.off >= Len(data)
  BY <1>1 DEF DecodeRun
<1>2. CASE st.ok /\ st.off < Len(data)
  <2>1. PICK count : count = data[st.off + 1]
    OBVIOUS
  <2>2. count \in Nat
    BY <1>0, <1>2, <2>1
  <2>3. PICK value : value = st.off + 1
    OBVIOUS
  <2>4. CASE ValueMissing(type, data, value) \/ count > rows - Len(st.out)
    <3>1. DecodeRun(type, data, rows, st) = [st EXCEPT !.ok = FALSE]
      BY <1>0, <1>2, <2>1, <2>3, <2>4 DEF DecodeRun
    <3> QED
      BY <3>1 DEF Decoding
  <2>5. CASE ~(ValueMissing(type, data, value) \/ count > rows - Len(st.out))
    <3>1. PICK v : v = ValueAt(type, data, value)
      OBVIOUS
    <3>2. v \in Values(type) /\ ValueEnd(type, data, value) \in Nat
      BY <1>0, <2>3, <2>5, <3>1, ValuesThere
    <3>3. PICK run : run = [j \in 1 .. count |-> v]
      OBVIOUS
    <3>4. run \in Seq(Values(type))
      BY <2>2, <3>2, <3>3
    <3>5. st.out \o run \in Seq(Values(type))
      BY <1>0, <3>4
    <3>6. DecodeRun(type, data, rows, st)
            = [ok |-> TRUE, off |-> ValueEnd(type, data, value), out |-> st.out \o run]
      BY <1>0, <1>2, <2>1, <2>3, <2>5, <3>1, <3>3 DEF DecodeRun
    <3> QED
      BY <3>2, <3>5, <3>6 DEF Decoding
  <2> QED
    BY <2>4, <2>5
<1> QED
  BY <1>0, <1>1, <1>2

\* The decoding after no turn, and after one more.
LEMMA DecodeUnfolds ==
  ASSUME NEW type \in ColumnType, NEW data \in Seq(Nat), NEW rows \in Nat
  PROVE  /\ DecodeTurns(type, data, rows) \in [Nat -> Decoding(type)]
         /\ DecodeTurns(type, data, rows)[0] = Start
         /\ \A n \in Nat : DecodeTurns(type, data, rows)[n + 1]
                             = DecodeRun(type, data, rows, DecodeTurns(type, data, rows)[n])
<1> DEFINE S == Decoding(type)
           Def(f) == f = [n \in Nat |-> IF n = 0 THEN Start
                                        ELSE DecodeRun(type, data, rows, f[n - 1])]
<1>1. Start \in S
  BY DEF Decoding, Start
<1>2. PICK step : step = [p \in S \X Nat |-> DecodeRun(type, data, rows, p[1])]
  OBVIOUS
<1>3. step \in [S \X Nat -> S]
  <2>1. ASSUME NEW p \in S \X Nat PROVE DecodeRun(type, data, rows, p[1]) \in S
    BY DecodeRunTypes
  <2> QED
    BY <1>2, <2>1
<1>4. PICK f \in [Nat -> S] : Recursive(f, Start, step)
  <2> HIDE DEF S
  <2> QED
    BY <1>1, <1>3, Recursion
<1>5. Def(f)
  <2>1. ASSUME NEW n \in Nat, n # 0
        PROVE  f[n] = DecodeRun(type, data, rows, f[n - 1])
    <3>1. n - 1 \in Nat /\ f[n - 1] \in S /\ (n - 1) + 1 = n
      BY <2>1
    <3>2. f[n] = step[<<f[n - 1], n - 1>>]
      BY <1>4, <3>1 DEF Recursive
    <3> HIDE DEF S
    <3> QED
      BY <1>2, <3>1, <3>2
  <2>2. f[0] = Start
    BY <1>4 DEF Recursive
  <2> QED
    BY <1>4, <2>1, <2>2
<1>6. PICK d : d = DecodeTurns(type, data, rows)
  OBVIOUS
<1>7. Def(d)
  <2>1. d = CHOOSE g : Def(g)
    BY <1>6 DEF DecodeTurns
  <2> HIDE DEF Def
  <2> QED
    BY <1>5, <2>1
<1>8. ASSUME NEW n \in Nat
      PROVE  d[n] = IF n = 0 THEN Start ELSE DecodeRun(type, data, rows, d[n - 1])
  BY <1>7
<1>9. d[0] = Start /\ \A n \in Nat : d[n + 1] = DecodeRun(type, data, rows, d[n])
  <2>1. ASSUME NEW n \in Nat PROVE d[n + 1] = DecodeRun(type, data, rows, d[n])
    <3>1. n + 1 \in Nat /\ n + 1 # 0 /\ (n + 1) - 1 = n
      OBVIOUS
    <3> QED
      BY <1>8, <3>1
  <2> QED
    BY <1>8, <2>1
<1>10. d \in [Nat -> S]
  <2> DEFINE T == { n \in Nat : d[n] \in S }
  <2>1. 0 \in T
    BY <1>1, <1>9
  <2>2. ASSUME NEW n \in T PROVE n + 1 \in T
    <3>1. n \in Nat /\ d[n] \in Decoding(type)
      OBVIOUS
    <3>2. DecodeRun(type, data, rows, d[n]) \in S
      BY <3>1, DecodeRunTypes
    <3>3. n + 1 \in Nat /\ d[n + 1] = DecodeRun(type, data, rows, d[n])
      BY <1>9, <3>1
    <3> HIDE DEF S
    <3> QED
      BY <3>2, <3>3
  <2>3. T = Nat
    <3> HIDE DEF T
    <3>1. T \in SUBSET Nat
      BY DEF T
    <3> QED
      BY <2>1, <2>2, <3>1, SetInduction
  <2> QED
    BY <1>7, <2>3
<1> QED
  BY <1>6, <1>9, <1>10

-----------------------------------------------------------------------------
(* In step.                                                                *)

\* t begins with s.
Extends(s, t) == Len(s) <= Len(t) /\ \A x \in 1 .. Len(s) : t[x] = s[x]

\* What a turn that finds values left writes.
LEMMA EncodeGoesOn ==
  ASSUME NEW type \in ColumnType, NEW vals \in Seq(Values(type)), NEW st \in Encoding(vals),
         st.i < Len(vals)
  PROVE  /\ st.i \in Nat /\ vals[st.i + 1] \in Values(type)
         /\ EncodeRun(type, vals, st).i \in (st.i + 1) .. Len(vals)
         /\ \A l \in (st.i + 1) .. EncodeRun(type, vals, st).i : vals[l] = vals[st.i + 1]
         /\ EncodeRun(type, vals, st).out
              = st.out \o <<EncodeRun(type, vals, st).i - st.i>> \o Frame(type, vals[st.i + 1])
<1>1. st.i \in Nat /\ Len(vals) \in Nat
  BY DEF Encoding
<1>2. PICK j : j = RunEnd(vals, st.i)
  OBVIOUS
<1>3. PICK o : o = st.out \o <<j - st.i>> \o Frame(type, vals[st.i + 1])
  OBVIOUS
<1>4. EncodeRun(type, vals, st) = [i |-> j, out |-> o]
  BY <1>1, <1>2, <1>3 DEF EncodeRun
<1>5. j \in (st.i + 1) .. Len(vals) /\ \A l \in (st.i + 1) .. j : vals[l] = vals[st.i + 1]
  BY <1>1, <1>2, RunEnds
<1>6. vals[st.i + 1] \in Values(type)
  BY <1>1
<1>7. EncodeRun(type, vals, st).i = j /\ EncodeRun(type, vals, st).out = o
  BY <1>4
<1> QED
  BY <1>1, <1>3, <1>5, <1>6, <1>7

\* u is s and then t; t is s, a cell, and more cells; u is s from m to n.
Joined(s, t, u)       == u = s \o t
Continues(s, c, f, t) == t = s \o <<c>> \o f
Cut(s, m, n, u)       == u = SubSeq(s, m, n)

\* Two sequences joined, element by element.
LEMMA Joins ==
  ASSUME NEW S, NEW s \in Seq(S), NEW t \in Seq(S), NEW u, Joined(s, t, u)
  PROVE  /\ u \in Seq(S) /\ Len(u) \in Nat /\ Len(u) = Len(s) + Len(t) /\ Extends(s, u)
         /\ \A x \in 1 .. Len(t) : u[Len(s) + x] = t[x]
<1>1. Len(s) \in Nat /\ Len(t) \in Nat
  OBVIOUS
<1>2. /\ u \in Seq(S) /\ Len(u) = Len(s) + Len(t)
      /\ \A x \in 1 .. Len(s) + Len(t) : u[x] = IF x <= Len(s) THEN s[x] ELSE t[x - Len(s)]
  BY ConcatProperties DEF Joined
<1>3. ASSUME NEW x \in 1 .. Len(s) PROVE u[x] = s[x]
  BY <1>1, <1>2
<1>4. ASSUME NEW x \in 1 .. Len(t) PROVE u[Len(s) + x] = t[x]
  <2>1. Len(s) + x \in 1 .. Len(s) + Len(t) /\ ~(Len(s) + x <= Len(s)) /\ (Len(s) + x) - Len(s) = x
    BY <1>1
  <2> QED
    BY <1>2, <2>1
<1>5. Extends(s, u)
  BY <1>1, <1>2, <1>3 DEF Extends
<1> QED
  BY <1>1, <1>2, <1>4, <1>5

\* The same of cells.
LEMMA CellsJoin ==
  ASSUME NEW s \in Seq(Nat), NEW t \in Seq(Nat), NEW u, Joined(s, t, u)
  PROVE  /\ u \in Seq(Nat) /\ Len(u) \in Nat /\ Len(u) = Len(s) + Len(t) /\ Extends(s, u)
         /\ \A x \in 1 .. Len(t) : u[Len(s) + x] = t[x]
BY Joins

\* A sequence continued by a cell and by others, cell by cell.
LEMMA Continued ==
  ASSUME NEW s \in Seq(Nat), NEW c \in Nat, NEW f \in Seq(Nat), NEW t, Continues(s, c, f, t)
  PROVE  /\ t \in Seq(Nat) /\ Len(t) = Len(s) + 1 + Len(f) /\ Extends(s, t)
         /\ t[Len(s) + 1] = c
         /\ \A x \in 1 .. Len(f) : t[Len(s) + 1 + x] = f[x]
<1>1. PICK one : one = <<c>>
  OBVIOUS
<1>2. PICK u : u = s \o one
  OBVIOUS
<1>3. one \in Seq(Nat) /\ Len(one) = 1 /\ one[1] = c
  BY <1>1
<1>4. Len(s) \in Nat /\ Len(f) \in Nat
  OBVIOUS
<1>5. Joined(s, one, u) /\ Joined(u, f, t)
  BY <1>1, <1>2 DEF Continues, Joined
<1>6. /\ u \in Seq(Nat) /\ Len(u) = Len(s) + 1 /\ Extends(s, u)
      /\ u[Len(s) + 1] = c
  <2>1. /\ u \in Seq(Nat) /\ Len(u) = Len(s) + Len(one) /\ Extends(s, u)
        /\ \A x \in 1 .. Len(one) : u[Len(s) + x] = one[x]
    <3>1. one \in Seq(Nat)
      BY <1>3
    <3> QED
      BY <3>1, <1>5, CellsJoin
  <2> QED
    BY <1>3, <2>1
<1>7. /\ t \in Seq(Nat) /\ Len(t) = Len(u) + Len(f) /\ Extends(u, t)
      /\ \A x \in 1 .. Len(f) : t[Len(u) + x] = f[x]
  <2>1. u \in Seq(Nat)
    BY <1>6
  <2> QED
    BY <1>5, <2>1, CellsJoin
<1>8. \A x \in 1 .. Len(s) : t[x] = s[x]
  BY <1>4, <1>6, <1>7 DEF Extends
<1>9. t[Len(s) + 1] = c
  BY <1>4, <1>6, <1>7 DEF Extends
<1>10. \A x \in 1 .. Len(f) : t[Len(s) + 1 + x] = f[x]
  BY <1>6, <1>7
<1> QED
  BY <1>4, <1>6, <1>7, <1>8, <1>9, <1>10 DEF Extends

\* A part of a sequence, element by element.
LEMMA Cuts ==
  ASSUME NEW S, NEW s \in Seq(S), NEW m \in Nat \ {0}, NEW n \in Nat, n <= Len(s), m <= n + 1,
         NEW u, Cut(s, m, n, u)
  PROVE  /\ u \in Seq(S) /\ Len(u) = (n - m) + 1
         /\ \A x \in 1 .. ((n - m) + 1) : u[x] = s[(m + x) - 1]
<1>1. \A i \in m .. n : s[i] \in S
  OBVIOUS
<1>2. /\ u \in Seq(S) /\ Len(u) = IF m <= n THEN n - m + 1 ELSE 0
      /\ \A x \in 1 .. n - m + 1 : u[x] = s[m + x - 1]
  BY <1>1, SubSeqProperties DEF Cut
<1> QED
  BY <1>2

\* The same of cells.
LEMMA CellsCut ==
  ASSUME NEW s \in Seq(Nat), NEW m \in Nat \ {0}, NEW n \in Nat, n <= Len(s), m <= n + 1,
         NEW u, Cut(s, m, n, u)
  PROVE  /\ u \in Seq(Nat) /\ Len(u) = (n - m) + 1
         /\ \A x \in 1 .. ((n - m) + 1) : u[x] = s[(m + x) - 1]
BY Cuts

\* What a turn does to the values encoded and to the cells written.
Advances(st, nx, vals) ==
  /\ ~(st.i < Len(vals)) => nx = st /\ st.i = Len(vals)
  /\ st.i = Len(vals) => nx = st
  /\ st.i < Len(vals) => nx.i > st.i /\ Len(nx.out) > Len(st.out)

\* The turns of the encoder: each but the last ones encodes values, writes
\* cells, and continues what the turns before it wrote.
LEMMA EncodeAdvances ==
  ASSUME NEW type \in ColumnType, NEW vals \in Seq(Values(type)), NEW n \in Nat,
         NEW e, e = EncodeTurns(type, vals)
  PROVE  /\ e[n] \in Encoding(vals) /\ e[n + 1] = EncodeRun(type, vals, e[n])
         /\ Advances(e[n], e[n + 1], vals)
         /\ Extends(e[n].out, e[n + 1].out)
<1>1. e[n] \in Encoding(vals) /\ e[n + 1] = EncodeRun(type, vals, e[n])
  BY EncodeUnfolds
<1>2. PICK st : st = e[n]
  OBVIOUS
<1>3. PICK nx : nx = e[n + 1]
  OBVIOUS
<1>4. st \in Encoding(vals) /\ nx = EncodeRun(type, vals, st)
  BY <1>1, <1>2, <1>3
<1>5. st.i \in 0 .. Len(vals) /\ st.out \in Seq(Nat) /\ Len(st.out) \in Nat /\ Len(vals) \in Nat
  BY <1>4 DEF Encoding
<1>6. CASE ~(st.i < Len(vals))
  <2>1. nx = st /\ st.i = Len(vals)
    <3>1. st.i = Len(vals) /\ st.i >= Len(vals)
      BY <1>5, <1>6
    <3> QED
      BY <1>4, <3>1 DEF EncodeRun
  <2>2. Extends(st.out, nx.out)
    BY <1>5, <2>1 DEF Extends
  <2>3. Advances(st, nx, vals)
    BY <1>6, <2>1 DEF Advances
  <2> QED
    BY <1>1, <1>2, <1>3, <2>2, <2>3
<1>7. CASE st.i < Len(vals)
  <2>1. PICK v : v = vals[st.i + 1]
    OBVIOUS
  <2>2. /\ nx.i \in (st.i + 1) .. Len(vals) /\ v \in Values(type)
        /\ nx.out = st.out \o <<nx.i - st.i>> \o Frame(type, v)
    BY <1>4, <1>7, <2>1, EncodeGoesOn
  <2>3. nx.i - st.i \in Nat /\ nx.i > st.i
    BY <1>5, <2>2
  <2>4. Frame(type, v) \in Seq(Nat) /\ Len(Frame(type, v)) \in Nat
    BY <2>2, Frames
  <2>5. Len(nx.out) = Len(st.out) + 1 + Len(Frame(type, v)) /\ Extends(st.out, nx.out)
    <3>1. PICK f : f = Frame(type, v)
      OBVIOUS
    <3>2. PICK c : c = nx.i - st.i
      OBVIOUS
    <3>3. PICK a : a = st.out
      OBVIOUS
    <3>4. PICK b : b = nx.out
      OBVIOUS
    <3>5. Continues(a, c, f, b)
      BY <2>2, <3>1, <3>2, <3>3, <3>4 DEF Continues
    <3>6. a \in Seq(Nat)
      BY <1>5, <3>3
    <3>7. c \in Nat /\ f \in Seq(Nat)
      BY <2>3, <2>4, <3>1, <3>2
    <3>8. Len(b) = Len(a) + 1 + Len(f) /\ Extends(a, b)
      BY <3>5, <3>6, <3>7, Continued
    <3> QED
      BY <3>1, <3>3, <3>4, <3>8
  <2>6. Len(nx.out) > Len(st.out)
    BY <1>5, <2>4, <2>5
  <2>7. Advances(st, nx, vals)
    BY <1>5, <1>7, <2>3, <2>6 DEF Advances
  <2> QED
    BY <1>1, <1>2, <1>3, <2>5, <2>7
<1> QED
  BY <1>6, <1>7

\* After as many turns as there are values, all are encoded; what has been
\* written by then begins with what had been written before.
LEMMA EncodeEnds ==
  ASSUME NEW type \in ColumnType, NEW vals \in Seq(Values(type)),
         NEW e, e = EncodeTurns(type, vals)
  PROVE  /\ EncodeRLE(type, vals) = e[Len(vals)].out /\ EncodeRLE(type, vals) \in Seq(Nat)
         /\ e[Len(vals)].i = Len(vals)
         /\ \A n \in Nat : e[n].i = Len(vals) \/ Len(e[n].out) >= n
         /\ \A n \in Nat : Extends(e[n].out, EncodeRLE(type, vals))
<1> DEFINE N == Len(vals)
           data == EncodeRLE(type, vals)
<1>0. N \in Nat /\ data = e[N].out /\ e \in [Nat -> Encoding(vals)]
  BY EncodeUnfolds DEF EncodeRLE
<1>1. ASSUME NEW n \in Nat
      PROVE  e[n].i \in 0 .. N /\ e[n].out \in Seq(Nat) /\ Len(e[n].out) \in Nat
  <2>1. e[n] \in Encoding(vals)
    BY <1>0
  <2>2. e[n].out \in Seq(Nat)
    BY <2>1 DEF Encoding
  <2> QED
    BY <2>1, <2>2 DEF Encoding
<1>9. ASSUME NEW n \in Nat
      PROVE  /\ ~(e[n].i < N) => e[n + 1] = e[n] /\ e[n].i = N
             /\ e[n].i < N => e[n + 1].i > e[n].i /\ Len(e[n + 1].out) > Len(e[n].out)
  <2>1. PICK st : st = e[n]
    OBVIOUS
  <2>2. PICK nx : nx = e[n + 1]
    OBVIOUS
  <2>3. Advances(e[n], e[n + 1], vals)
    BY EncodeAdvances
  <2>4. Advances(st, nx, vals)
    BY <2>1, <2>2, <2>3
  <2> QED
    BY <2>1, <2>2, <2>4 DEF Advances
<1> DEFINE Far == { n \in Nat : e[n].i = N \/ (e[n].i >= n /\ Len(e[n].out) >= n) }
<1>2. Far = Nat
  <2>1. 0 \in Far
    BY <1>1
  <2>2. ASSUME NEW n \in Far PROVE n + 1 \in Far
    <3>1. n \in Nat /\ n + 1 \in Nat
      OBVIOUS
    <3>2. PICK st : st = e[n]
      OBVIOUS
    <3>3. PICK nx : nx = e[n + 1]
      OBVIOUS
    <3>4. /\ st.i \in 0 .. N /\ nx.i \in 0 .. N
          /\ Len(st.out) \in Nat /\ Len(nx.out) \in Nat
      BY <1>1, <3>1, <3>2, <3>3
    <3>5. /\ ~(st.i < N) => nx = st /\ st.i = N
          /\ st.i < N => nx.i > st.i /\ Len(nx.out) > Len(st.out)
      BY <1>9, <3>1, <3>2, <3>3
    <3>6. st.i = N \/ (st.i >= n /\ Len(st.out) >= n)
      BY <3>2
    <3>7. nx.i = N \/ (nx.i >= n + 1 /\ Len(nx.out) >= n + 1)
      BY <1>0, <3>1, <3>4, <3>5, <3>6
    <3> QED
      BY <3>1, <3>3, <3>7
  <2>3. Far \in SUBSET Nat
    OBVIOUS
  <2> HIDE DEF Far
  <2> QED
    BY <2>1, <2>2, <2>3, SetInduction
<1>3. ASSUME NEW n \in Nat PROVE e[n].i = N \/ (e[n].i >= n /\ Len(e[n].out) >= n)
  BY <1>2
<1>4. e[N].i = N
  BY <1>0, <1>1, <1>3
<1>5. ASSUME NEW n \in Nat PROVE Extends(e[n].out, data)
  <2>1. CASE n >= N
    <3> DEFINE After == { k \in Nat : e[N + k] = e[N] }
    <3>1. 0 \in After
      BY <1>0
    <3>2. ASSUME NEW k \in After PROVE k + 1 \in After
      <4>1. N + k \in Nat /\ N + (k + 1) = (N + k) + 1 /\ e[N + k] = e[N] /\ k + 1 \in Nat
        BY <1>0
      <4>2. e[(N + k) + 1] = e[N + k]
        BY <1>0, <1>4, <4>1, EncodeAdvances DEF Advances
      <4> QED
        BY <4>1, <4>2
    <3>3. After = Nat
      <4>1. After \in SUBSET Nat
        OBVIOUS
      <4> HIDE DEF After
      <4> QED
        BY <3>1, <3>2, <4>1, SetInduction
    <3>4. n - N \in Nat /\ N + (n - N) = n
      BY <1>0, <2>1
    <3>5. n - N \in After
      BY <3>3, <3>4
    <3>6. e[n] = e[N]
      BY <3>4, <3>5
    <3> QED
      BY <1>0, <1>1, <3>6 DEF Extends
  <2>2. CASE n < N
    <3> DEFINE Ahead == { k \in Nat : Extends(e[n].out, e[n + k].out) }
    <3>1. 0 \in Ahead
      <4>1. n + 0 = n
        OBVIOUS
      <4> QED
        BY <1>1, <4>1 DEF Extends
    <3>2. ASSUME NEW k \in Ahead PROVE k + 1 \in Ahead
      <4>1. n + k \in Nat /\ n + (k + 1) = (n + k) + 1 /\ k + 1 \in Nat
        OBVIOUS
      <4>2. PICK b : b = e[n + k].out
        OBVIOUS
      <4>3. PICK c : c = e[(n + k) + 1].out
        OBVIOUS
      <4>4. Extends(b, c) /\ Extends(e[n].out, b)
        BY <4>1, <4>2, <4>3, EncodeAdvances
      <4>5. Len(b) \in Nat /\ Len(c) \in Nat /\ Len(e[n].out) \in Nat
        BY <1>1, <4>1, <4>2, <4>3
      <4>6. Extends(e[n].out, c)
        BY <4>4, <4>5 DEF Extends
      <4> QED
        BY <4>1, <4>3, <4>6
    <3>3. Ahead = Nat
      <4>1. Ahead \in SUBSET Nat
        OBVIOUS
      <4> HIDE DEF Ahead
      <4> QED
        BY <3>1, <3>2, <4>1, SetInduction
    <3>4. N - n \in Nat /\ n + (N - n) = N
      BY <1>0, <2>2
    <3>5. N - n \in Ahead
      BY <3>3, <3>4
    <3> QED
      BY <1>0, <3>4, <3>5
  <2> QED
    BY <1>0, <2>1, <2>2
<1> QED
  BY <1>0, <1>1, <1>3, <1>4, <1>5

\* Values followed by a run are values.
LEMMA RunAppended ==
  ASSUME NEW V, NEW vals \in Seq(V), NEW i \in Nat, NEW j \in i .. Len(vals), NEW v,
         \A l \in (i + 1) .. j : vals[l] = v,
         NEW run \in Seq(V), Len(run) = j - i, \A x \in 1 .. Len(run) : run[x] = v
  PROVE  SubSeq(vals, 1, i) \o run = SubSeq(vals, 1, j)
<1>1. /\ Len(vals) \in Nat /\ j \in Nat /\ i <= j /\ j <= Len(vals) /\ j - i \in Nat
      /\ i + (j - i) = j
  OBVIOUS
<1>2. PICK a : a = SubSeq(vals, 1, i)
  OBVIOUS
<1>3. PICK b : b = SubSeq(vals, 1, j)
  OBVIOUS
<1>6. a \in Seq(V) /\ Len(a) = i /\ \A x \in 1 .. i : a[x] = vals[x]
  BY <1>1, <1>2
<1>7. b \in Seq(V) /\ Len(b) = j /\ \A x \in 1 .. j : b[x] = vals[x]
  BY <1>1, <1>3
<1>8. Len(run) = j - i /\ \A x \in 1 .. (j - i) : run[x] = v
  BY <1>1
<1>9. PICK c : c = a \o run
  OBVIOUS
<1>10. /\ c \in Seq(V) /\ Len(c) = j
       /\ \A x \in 1 .. i : c[x] = a[x]
       /\ \A x \in 1 .. (j - i) : c[i + x] = run[x]
  <2>1. Joined(a, run, c)
    BY <1>9 DEF Joined
  <2>2. a \in Seq(V) /\ run \in Seq(V)
    BY <1>6
  <2>3. c \in Seq(V) /\ Len(c) = Len(a) + Len(run)
    BY <2>1, <2>2, Joins
  <2>4. Extends(a, c)
    BY <2>1, <2>2, Joins
  <2>5. \A x \in 1 .. Len(run) : c[Len(a) + x] = run[x]
    BY <2>1, <2>2, Joins
  <2> QED
    BY <1>1, <1>6, <1>8, <2>3, <2>4, <2>5 DEF Extends
<1>11. ASSUME NEW x \in 1 .. j PROVE c[x] = b[x]
  <2>1. CASE x <= i
    <3>1. x \in 1 .. i
      BY <1>1, <2>1
    <3> QED
      BY <1>6, <1>7, <1>10, <3>1
  <2>2. CASE ~(x <= i)
    <3>1. x - i \in 1 .. (j - i) /\ x \in (i + 1) .. j /\ i + (x - i) = x
      BY <1>1, <2>2
    <3>2. c[i + (x - i)] = run[x - i]
      BY <1>10, <3>1
    <3>3. c[x] = v
      BY <1>8, <3>1, <3>2
    <3> QED
      BY <1>7, <3>1, <3>3
  <2> QED
    BY <2>1, <2>2
<1>12. c = b
  BY <1>7, <1>10, <1>11, SeqEqual
<1> QED
  BY <1>2, <1>3, <1>9, <1>12

\* A decoding that has consumed these cells and read the first i values.
Decoded(cells, vals, i) == [off |-> Len(cells), out |-> SubSeq(vals, 1, i), ok |-> TRUE]

\* A run that the encoder wrote, somewhere in the data.
RunRead(type, vals, i, j, v, out, nx, data) ==
  /\ i \in Nat /\ j \in (i + 1) .. Len(vals) /\ v \in Values(type)
  /\ \A l \in (i + 1) .. j : vals[l] = v
  /\ out \in Seq(Nat) /\ Continues(out, j - i, Frame(type, v), nx)
  /\ data \in Seq(Nat) /\ Extends(nx, data)

\* A string's frame is its length and then its cells.
LEMMA FrameCells ==
  ASSUME NEW n \in Nat, NEW v \in Seq(Nat), NEW f, f = <<n>> \o v
  PROVE  f[1] = n /\ \A x \in 1 .. Len(v) : f[x + 1] = v[x]
<1>1. Len(<<n>>) = 1 /\ <<n>>[1] = n /\ <<n>> \in Seq(Nat)
  OBVIOUS
<1>2. f[1] = n
  BY <1>1
<1>3. ASSUME NEW x \in 1 .. Len(v) PROVE f[x + 1] = v[x]
  BY <1>1
<1> QED
  BY <1>2, <1>3

\* The decoder reads one run back.
LEMMA DecodesRun ==
  ASSUME NEW type \in ColumnType, NEW vals \in Seq(Values(type)),
         NEW i, NEW j, NEW v, NEW out, NEW nx, NEW data,
         RunRead(type, vals, i, j, v, out, nx, data)
  PROVE  DecodeRun(type, data, Len(vals), Decoded(out, vals, i)) = Decoded(nx, vals, j)
<1>a. /\ i \in Nat /\ j \in (i + 1) .. Len(vals) /\ v \in Values(type)
      /\ \A l \in (i + 1) .. j : vals[l] = v
      /\ out \in Seq(Nat) /\ Continues(out, j - i, Frame(type, v), nx)
      /\ data \in Seq(Nat) /\ Extends(nx, data)
  BY DEF RunRead
<1> USE <1>a
<1>0. /\ Len(vals) \in Nat /\ Len(data) \in Nat /\ j - i \in Nat /\ Len(out) \in Nat
      /\ j \in i .. Len(vals) /\ i <= Len(vals)
  OBVIOUS
<1>1. PICK f : f = Frame(type, v)
  OBVIOUS
<1>2. f \in Seq(Nat) /\ Len(f) \in Nat /\ Len(f) = IF type = "string" THEN Len(v) + 1 ELSE 1
  BY <1>1, Frames
<1>3. /\ nx \in Seq(Nat) /\ Len(nx) = Len(out) + 1 + Len(f) /\ Extends(out, nx)
      /\ nx[Len(out) + 1] = j - i
      /\ \A x \in 1 .. Len(f) : nx[Len(out) + 1 + x] = f[x]
  <2>1. PICK c : c = j - i
    OBVIOUS
  <2>2. c \in Nat /\ Continues(out, c, f, nx)
    BY <1>0, <1>1, <2>1
  <2>3. f \in Seq(Nat)
    BY <1>2
  <2>4. /\ nx \in Seq(Nat) /\ Len(nx) = Len(out) + 1 + Len(f) /\ Extends(out, nx)
        /\ nx[Len(out) + 1] = c
        /\ \A x \in 1 .. Len(f) : nx[Len(out) + 1 + x] = f[x]
    BY <2>2, <2>3, Continued
  <2> QED
    BY <2>1, <2>4
<1>4. Len(nx) <= Len(data) /\ \A x \in 1 .. Len(nx) : data[x] = nx[x]
  BY DEF Extends
<1>5. PICK value : value = Len(out) + 1
  OBVIOUS
<1>6. value \in Nat
  BY <1>0, <1>5
<1>7. Len(out) < Len(data) /\ data[value] = j - i
  <2>1. Len(f) \in Nat /\ Len(nx) = Len(out) + 1 + Len(f) /\ Len(nx) <= Len(data)
    BY <1>2, <1>3, <1>4
  <2>2. value \in 1 .. Len(nx) /\ Len(out) < Len(data)
    BY <1>0, <1>5, <2>1
  <2> QED
    BY <1>3, <1>4, <1>5, <2>2
<1>8. ASSUME NEW x \in 1 .. Len(f) PROVE data[value + x] = f[x]
  <2>1. value + x \in 1 .. Len(nx)
    BY <1>0, <1>2, <1>3, <1>5
  <2> QED
    BY <1>3, <1>4, <1>5, <2>1
<1>9. ~ValueMissing(type, data, value) /\ ValueAt(type, data, value) = v
  <2>1. CASE type = "string"
    <3>1. v \in Seq(Nat) /\ Len(v) \in Nat /\ Len(f) = Len(v) + 1
      BY <1>2, <2>1 DEF Values
    <3>2. f[1] = Len(v) /\ \A x \in 1 .. Len(v) : f[x + 1] = v[x]
      <4>1. f = <<Len(v)>> \o v
        BY <1>1, <2>1 DEF Frame
      <4> QED
        BY <3>1, <4>1, FrameCells
    <3>3. value + 1 + Len(v) <= Len(data)
      BY <1>0, <1>3, <1>4, <1>5, <3>1
    <3>4. data[value + 1] = Len(v)
      BY <1>2, <1>8, <3>1, <3>2
    <3>5. ~ValueMissing(type, data, value)
      BY <1>0, <1>6, <2>1, <3>1, <3>3, <3>4 DEF ValueMissing
    <3>6. PICK w : w = SubSeq(data, value + 2, value + 1 + Len(v))
      OBVIOUS
    <3>7. /\ w \in Seq(Nat) /\ Len(w) = Len(v)
          /\ \A x \in 1 .. Len(v) : w[x] = data[value + 1 + x]
      <4>1. PICK m : m = value + 2
        OBVIOUS
      <4>2. PICK n : n = value + 1 + Len(v)
        OBVIOUS
      <4>3. Cut(data, m, n, w)
        BY <3>6, <4>1, <4>2 DEF Cut
      <4>4. m \in Nat \ {0} /\ n \in Nat /\ n <= Len(data) /\ m <= n + 1
        BY <1>6, <3>1, <3>3, <4>1, <4>2
      <4>5. /\ w \in Seq(Nat) /\ Len(w) = (n - m) + 1
            /\ \A x \in 1 .. ((n - m) + 1) : w[x] = data[(m + x) - 1]
        BY <4>3, <4>4, CellsCut
      <4>6. (n - m) + 1 = Len(v) /\ \A x \in Nat : (m + x) - 1 = value + 1 + x
        BY <1>6, <3>1, <4>1, <4>2
      <4> QED
        BY <4>5, <4>6
    <3>8. ASSUME NEW x \in 1 .. Len(v) PROVE w[x] = v[x]
      <4>1. x + 1 \in 1 .. Len(f) /\ value + 1 + x = value + (x + 1)
        BY <1>6, <3>1
      <4>2. data[value + (x + 1)] = f[x + 1]
        BY <1>8, <4>1
      <4> QED
        BY <3>2, <3>7, <4>1, <4>2
    <3>9. w = v
      BY <3>1, <3>7, <3>8, SeqEqual
    <3> QED
      BY <2>1, <3>4, <3>5, <3>6, <3>9 DEF ValueAt
  <2>2. CASE type # "string"
    <3>1. Len(f) = 1 /\ f[1] = v
      BY <1>1, <1>2, <2>2 DEF Frame
    <3>2. data[value + 1] = v
      BY <1>8, <3>1
    <3>3. value < Len(data)
      BY <1>0, <1>3, <1>4, <1>5, <3>1
    <3> QED
      BY <1>0, <1>6, <2>2, <3>2, <3>3 DEF ValueMissing, ValueAt
  <2> QED
    BY <2>1, <2>2
<1>10. ValueEnd(type, data, value) = Len(nx)
  BY <1>0, <1>1, <1>2, <1>3, <1>5, <1>9 DEF ValueEnd
<1>11. Len(SubSeq(vals, 1, i)) = i
  BY <1>0
<1>12. PICK run : run = [l \in 1 .. (j - i) |-> v]
  OBVIOUS
<1>13. SubSeq(vals, 1, i) \o run = SubSeq(vals, 1, j)
  <2>1. run \in Seq(Values(type)) /\ Len(run) = j - i /\ \A x \in 1 .. Len(run) : run[x] = v
    BY <1>0, <1>12
  <2> QED
    BY <1>0, <2>1, RunAppended
<1>14. PICK o : o = SubSeq(vals, 1, i)
  OBVIOUS
<1> DEFINE st == Decoded(out, vals, i)
<1>15. st.off = Len(out) /\ st.out = o /\ st.ok = TRUE
  BY <1>14 DEF Decoded
<1> HIDE DEF st
<1>16. ~(data[value] > Len(vals) - Len(o))
  BY <1>0, <1>7, <1>11, <1>14
<1>17. DecodeRun(type, data, Len(vals), st)
         = [ok |-> TRUE, off |-> Len(nx), out |-> o \o run]
  <2>1. st.ok /\ ~(st.off >= Len(data))
    BY <1>0, <1>7, <1>15
  <2>2. st.off + 1 = value /\ data[st.off + 1] = j - i
    BY <1>5, <1>7, <1>15
  <2>3. ~(ValueMissing(type, data, st.off + 1) \/ data[st.off + 1] > Len(vals) - Len(st.out))
    BY <1>7, <1>9, <1>15, <1>16, <2>2
  <2>4. [l \in 1 .. data[st.off + 1] |-> ValueAt(type, data, st.off + 1)] = run
    BY <1>9, <1>12, <2>2
  <2>5. DecodeRun(type, data, Len(vals), st)
          = [ok |-> TRUE, off |-> ValueEnd(type, data, st.off + 1), out |-> st.out \o run]
    BY <2>1, <2>3, <2>4 DEF DecodeRun
  <2> QED
    BY <1>10, <1>15, <2>2, <2>5
<1> QED
  BY <1>13, <1>14, <1>17 DEF st, Decoded

\* After each turn the decoder has read what the encoder had written by then.
LEMMA InStep ==
  ASSUME NEW type \in ColumnType, NEW vals \in Seq(Values(type)),
         NEW e, e = EncodeTurns(type, vals),
         NEW data, data = EncodeRLE(type, vals),
         NEW d, d = DecodeTurns(type, data, Len(vals))
  PROVE  \A n \in Nat :
           d[n] = Decoded(e[n].out, vals, e[n].i)
<1> DEFINE Same == { n \in Nat : d[n] = Decoded(e[n].out, vals, e[n].i) }
<1>1. /\ Len(vals) \in Nat /\ data \in Seq(Nat) /\ Len(data) \in Nat
      /\ data = e[Len(vals)].out /\ \A n \in Nat : Extends(e[n].out, data)
  BY EncodeEnds
<1>2. e[0] = Unencoded /\ d[0] = Start /\ \A n \in Nat : e[n] \in Encoding(vals)
  BY <1>1, EncodeUnfolds, DecodeUnfolds
<1>3. ASSUME NEW n \in Nat PROVE d[n + 1] = DecodeRun(type, data, Len(vals), d[n])
  BY <1>1, DecodeUnfolds
<1>4. ASSUME NEW n \in Nat, e[n].i = Len(vals) PROVE e[n].out = data
  <2>1. ASSUME NEW k \in Nat, e[k].i = Len(vals), NEW l \in Nat PROVE e[k + l] = e[k]
    <3> DEFINE Still == { m \in Nat : e[k + m] = e[k] }
    <3>1. 0 \in Still
      BY <2>1
    <3>2. ASSUME NEW m \in Still PROVE m + 1 \in Still
      <4>1. k + m \in Nat /\ k + (m + 1) = (k + m) + 1 /\ e[k + m] = e[k] /\ m + 1 \in Nat
        OBVIOUS
      <4>2. PICK p : p = k + m
        OBVIOUS
      <4>3. p \in Nat /\ e[p].i = Len(vals)
        BY <2>1, <4>1, <4>2
      <4>4. e[p + 1] = e[p]
        BY <4>3, EncodeAdvances DEF Advances
      <4> QED
        BY <4>1, <4>2, <4>4
    <3>3. Still = Nat
      <4>1. Still \in SUBSET Nat
        OBVIOUS
      <4> HIDE DEF Still
      <4> QED
        BY <3>1, <3>2, <4>1, SetInduction
    <3> QED
      BY <2>1, <3>3
  <2>2. e[Len(vals)].i = Len(vals)
    BY EncodeEnds
  <2>3. CASE n <= Len(vals)
    <3>1. Len(vals) - n \in Nat /\ n + (Len(vals) - n) = Len(vals)
      BY <1>1, <2>3
    <3>2. e[n + (Len(vals) - n)] = e[n]
      BY <1>4, <2>1, <3>1
    <3> QED
      BY <1>1, <3>1, <3>2
  <2>4. CASE n > Len(vals)
    <3>1. n - Len(vals) \in Nat /\ Len(vals) + (n - Len(vals)) = n
      BY <1>1, <2>4
    <3>2. e[Len(vals) + (n - Len(vals))] = e[Len(vals)]
      BY <1>1, <2>1, <2>2, <3>1
    <3> QED
      BY <1>1, <3>1, <3>2
  <2> QED
    BY <1>1, <2>3, <2>4
<1>5. 0 \in Same
  <2>1. SubSeq(vals, 1, 0) = <<>>
    BY SubSeqEmpty
  <2>2. e[0].i = 0 /\ e[0].out = <<>>
    BY <1>2 DEF Unencoded
  <2> QED
    BY <1>2, <2>1, <2>2 DEF Start, Decoded
<1>6. ASSUME NEW n \in Same PROVE n + 1 \in Same
  <2>1. n \in Nat /\ n + 1 \in Nat /\ d[n] = Decoded(e[n].out, vals, e[n].i)
    OBVIOUS
  <2>2. PICK st : st = e[n]
    OBVIOUS
  <2>3. PICK nx : nx = e[n + 1]
    OBVIOUS
  <2>4. st \in Encoding(vals) /\ nx = EncodeRun(type, vals, st)
    BY <2>1, <2>2, <2>3, EncodeAdvances
  <2>5. st.i \in 0 .. Len(vals) /\ st.out \in Seq(Nat) /\ Len(st.out) \in Nat
    BY <2>4 DEF Encoding
  <2>6. PICK was : was = Decoded(st.out, vals, st.i)
    OBVIOUS
  <2>7. d[n] = was
    BY <2>1, <2>2, <2>6
  <2>8. d[n + 1] = DecodeRun(type, data, Len(vals), was)
    BY <1>3, <2>1, <2>7
  <2>9. CASE ~(st.i < Len(vals))
    <3>0. st.i = Len(vals)
      BY <1>1, <2>5, <2>9
    <3>1. nx = st /\ st.i = Len(vals)
      BY <2>1, <2>2, <2>3, <3>0, EncodeAdvances DEF Advances
    <3>2. st.out = data
      BY <1>4, <2>1, <2>2, <3>1
    <3>3. was.off = Len(data)
      BY <2>6, <3>2 DEF Decoded
    <3>4. was.off >= Len(data)
      BY <1>1, <3>3
    <3>5. DecodeRun(type, data, Len(vals), was) = was
      BY <3>4 DEF DecodeRun
    <3> QED
      BY <2>1, <2>2, <2>3, <2>6, <2>8, <3>1, <3>5
  <2>10. CASE st.i < Len(vals)
    <3>1. PICK i : i = st.i
      OBVIOUS
    <3>2. PICK j : j = nx.i
      OBVIOUS
    <3>3. PICK v : v = vals[i + 1]
      OBVIOUS
    <3>4. PICK out : out = st.out
      OBVIOUS
    <3>5. PICK o : o = nx.out
      OBVIOUS
    <3>6. /\ i \in Nat /\ v \in Values(type) /\ j \in (i + 1) .. Len(vals)
          /\ \A l \in (i + 1) .. j : vals[l] = v
          /\ o = out \o <<j - i>> \o Frame(type, v)
      BY <2>4, <2>10, <3>1, <3>2, <3>3, <3>4, <3>5, EncodeGoesOn
    <3>7. out \in Seq(Nat) /\ was = Decoded(out, vals, i)
      BY <2>5, <2>6, <3>1, <3>4
    <3>12. PICK count : count = j - i
      OBVIOUS
    <3>8. Continues(out, count, Frame(type, v), o)
      BY <3>6, <3>12 DEF Continues
    <3>9. Extends(o, data)
      BY <1>1, <2>1, <2>3, <3>5
    <3>10. data \in Seq(Nat)
      BY <1>1
    <3>11. DecodeRun(type, data, Len(vals), was) = Decoded(o, vals, j)
      <4>1. /\ i \in Nat /\ v \in Values(type) /\ j \in (i + 1) .. Len(vals)
            /\ \A l \in (i + 1) .. j : vals[l] = v
        BY <3>6
      <4>3. out \in Seq(Nat) /\ Extends(o, data)
        BY <3>7, <3>9
      <4>4. RunRead(type, vals, i, j, v, out, o, data)
        BY <3>8, <3>10, <3>12, <4>1, <4>3 DEF RunRead
      <4>2. DecodeRun(type, data, Len(vals), Decoded(out, vals, i)) = Decoded(o, vals, j)
        BY <4>4, DecodesRun
      <4> QED
        BY <3>7, <4>2
    <3> QED
      BY <2>1, <2>3, <2>8, <3>2, <3>5, <3>11
  <2> QED
    BY <2>9, <2>10
<1>7. Same = Nat
  <2>1. Same \in SUBSET Nat
    OBVIOUS
  <2> HIDE DEF Same
  <2> QED
    BY <1>5, <1>6, <2>1, SetInduction
<1> QED
  BY <1>7

\* What the encoder writes of a column the decoder accepts and reads back,
\* value by value: integers, float bit patterns, strings, empty columns
\* (storage/rle.go encodeRLE*, decodeRLE*).
THEOREM DecodesItsEncoding ==
  ASSUME NEW type \in ColumnType, NEW vals \in Seq(Values(type))
  PROVE  /\ EncodeRLE(type, vals) \in Seq(Nat)
         /\ DecodeRLE(type, EncodeRLE(type, vals), Len(vals)) = [ok |-> TRUE, out |-> vals]
<1>1. PICK e : e = EncodeTurns(type, vals)
  OBVIOUS
<1>2. PICK data : data = EncodeRLE(type, vals)
  OBVIOUS
<1>3. PICK d : d = DecodeTurns(type, data, Len(vals))
  OBVIOUS
<1>4. PICK n : n = Len(data)
  OBVIOUS
<1>5. /\ data \in Seq(Nat) /\ n \in Nat /\ Len(vals) \in Nat
      /\ \A k \in Nat : e[k].i = Len(vals) \/ Len(e[k].out) >= k
      /\ \A k \in Nat : Extends(e[k].out, data)
  <2>1. data \in Seq(Nat)
    BY <1>2, EncodeEnds
  <2>2. \A k \in Nat : e[k].i = Len(vals) \/ Len(e[k].out) >= k
    BY <1>1, EncodeEnds
  <2>3. \A k \in Nat : Extends(e[k].out, data)
    BY <1>1, <1>2, EncodeEnds
  <2> QED
    BY <1>4, <2>1, <2>2, <2>3
<1>6. d[n] = Decoded(e[n].out, vals, e[n].i)
  BY <1>1, <1>2, <1>3, <1>5, InStep
<1>7. e[n].i = Len(vals)
  <2> SUFFICES ASSUME e[n].i # Len(vals) PROVE FALSE
    OBVIOUS
  <2>1. e[n] \in Encoding(vals) /\ e[n + 1] \in Encoding(vals)
    <3>1. e \in [Nat -> Encoding(vals)]
      BY <1>1, EncodeUnfolds
    <3>2. n \in Nat /\ n + 1 \in Nat
      BY <1>5
    <3> QED
      BY <3>1, <3>2
  <2>2. e[n].i < Len(vals) /\ Len(e[n].out) \in Nat /\ Len(e[n + 1].out) \in Nat
    BY <1>5, <2>1 DEF Encoding
  <2>3. Len(e[n + 1].out) > Len(e[n].out)
    BY <1>1, <1>5, <2>2, EncodeAdvances DEF Advances
  <2>4. Len(e[n].out) >= n /\ Len(e[n + 1].out) <= n
    BY <1>4, <1>5 DEF Extends
  <2> QED
    BY <1>5, <2>2, <2>3, <2>4
<1>8. SubSeq(vals, 1, Len(vals)) = vals
  BY SubSeqFull
<1>9. PICK st : st = d[n]
  OBVIOUS
<1>10. st.ok = TRUE /\ st.out = vals
  BY <1>6, <1>7, <1>8, <1>9 DEF Decoded
<1>11. Finish(st, Len(vals)) = [ok |-> TRUE, out |-> vals]
  BY <1>10 DEF Finish
<1>12. DecodeRLE(type, data, Len(vals)) = Finish(st, Len(vals))
  BY <1>3, <1>4, <1>9 DEF DecodeRLE
<1> QED
  BY <1>2, <1>5, <1>11, <1>12
=============================================================================
