-------------------------- MODULE SegmentRoundTrip -------------------------
(***************************************************************************)
(* What a segment file that WriteSegment wrote says, complete or torn.     *)
(*                                                                         *)
(* Where each write ends is fixed by the table alone.  A file is what its  *)
(* writes put there, up to its end; a reader that goes from one field to   *)
(* the next stops where the writes end, for as long as there are cells.    *)
(* Of a complete file it so reads the table; of a torn one, the end.       *)
(***************************************************************************)
EXTENDS SegmentProofs

-----------------------------------------------------------------------------
(* Where writes end.                                                       *)

\* at[k] cells are written when the first k of the writes w are.
Ends(at, w) ==
  /\ at \in [Nat -> Nat] /\ at[0] = 0
  /\ \A k \in 1 .. Len(w) : at[k] = at[k - 1] + Len(w[k])

\* f is what the writes w put on disk, or a beginning of it.
Begun(at, w, f) ==
  /\ Len(f) <= at[Len(w)]
  /\ \A k \in 1 .. Len(w) : \A x \in 1 .. Len(w[k]) :
       at[k - 1] + x <= Len(f) => f[at[k - 1] + x] = w[k][x]

\* Writes end somewhere.
LEMMA EndsExist ==
  ASSUME NEW w \in Seq(Cells)
  PROVE  \E at : Ends(at, w)
<1>1. PICK step : step = [p \in Nat \X Nat |->
                            p[1] + (IF p[2] + 1 <= Len(w) THEN Len(w[p[2] + 1]) ELSE 0)]
  OBVIOUS
<1>2. ASSUME NEW k \in 1 .. Len(w) PROVE Len(w[k]) \in Nat
  <2>1. w[k] \in Cells
    BY ElementOfSeq
  <2> QED
    BY <2>1 DEF Cells
<1>3. step \in [Nat \X Nat -> Nat]
  <2>1. ASSUME NEW m \in Nat, NEW n \in Nat PROVE step[<<m, n>>] \in Nat
    <3>1. step[<<m, n>>] = m + (IF n + 1 <= Len(w) THEN Len(w[n + 1]) ELSE 0)
      BY <1>1
    <3>2. n + 1 <= Len(w) => Len(w[n + 1]) \in Nat
      BY <1>2
    <3> QED
      BY <3>1, <3>2
  <2>2. DOMAIN step = Nat \X Nat /\ step = [p \in Nat \X Nat |-> step[p]]
    BY <1>1
  <2> QED
    BY <2>1, <2>2
<1>4. PICK f \in [Nat -> Nat] : Recursive(f, 0, step)
  BY <1>3, Recursion
<1>5. f[0] = 0 /\ \A n \in Nat : f[n + 1] = step[<<f[n], n>>]
  BY <1>4 DEF Recursive
<1>6. ASSUME NEW k \in 1 .. Len(w) PROVE f[k] = f[k - 1] + Len(w[k])
  <2>1. PICK n : n = k - 1
    OBVIOUS
  <2>2. n \in Nat /\ n + 1 = k /\ n + 1 <= Len(w) /\ f[n] \in Nat
    BY <2>1, <1>4
  <2>3. f[n + 1] = step[<<f[n], n>>]
    BY <1>5, <2>2
  <2>4. step[<<f[n], n>>] = f[n] + (IF n + 1 <= Len(w) THEN Len(w[n + 1]) ELSE 0)
    BY <1>1, <2>2
  <2>5. f[n + 1] = f[n] + Len(w[n + 1])
    BY <2>2, <2>3, <2>4
  <2> QED
    BY <2>1, <2>2, <2>5
<1>7. Ends(f, w)
  BY <1>5, <1>6 DEF Ends
<1> QED
  BY <1>7

\* A later write ends no earlier.
LEMMA EndsGrow ==
  ASSUME NEW w \in Seq(Cells), NEW at, Ends(at, w),
         NEW j \in Nat, NEW k \in 0 .. Len(w), j <= k
  PROVE  at[j] <= at[k]
<1> DEFINE S == { d \in Nat : j + d <= Len(w) => at[j] <= at[j + d] }
<1>1. at \in [Nat -> Nat] /\ Len(w) \in Nat
  BY DEF Ends
<1>2. 0 \in S
  BY <1>1
<1>3. ASSUME NEW d \in S PROVE d + 1 \in S
  <2> SUFFICES ASSUME j + (d + 1) <= Len(w) PROVE at[j] <= at[j + (d + 1)]
    OBVIOUS
  <2>1. PICK m : m = j + (d + 1)
    OBVIOUS
  <2>2. m \in 1 .. Len(w) /\ m - 1 = j + d /\ m - 1 \in Nat
    BY <1>1, <2>1
  <2>3. at[m] = at[m - 1] + Len(w[m])
    BY <2>2 DEF Ends
  <2>4. Len(w[m]) \in Nat
    <3>1. w[m] \in Cells
      BY <2>2, ElementOfSeq
    <3> QED
      BY <3>1 DEF Cells
  <2>5. at[j] <= at[m - 1]
    BY <2>2
  <2>6. at[j] \in Nat /\ at[m - 1] \in Nat
    BY <1>1, <2>2
  <2> QED
    BY <2>1, <2>3, <2>4, <2>5, <2>6
<1>4. S = Nat
  <2> HIDE DEF S
  <2>1. S \in SUBSET Nat
    BY DEF S
  <2> QED
    BY <1>2, <1>3, <2>1, SetInduction
<1>5. PICK d \in Nat : d = k - j
  BY <1>1
<1>6. j + d = k /\ d \in S
  <2>1. j + d = k
    BY <1>5
  <2> HIDE DEF S
  <2> QED
    BY <1>4, <2>1
<1> QED
  BY <1>6

\* Cells of the next write put behind what is there are where they belong.
LEMMA WriteGrows ==
  ASSUME NEW w \in Seq(Cells), NEW at, Ends(at, w), NEW f \in Seq(Nat), Begun(at, w, f),
         NEW k \in 1 .. Len(w), Len(f) = at[k - 1],
         NEW n \in 0 .. Len(w[k]), NEW p, Cut(w[k], 1, n, p), NEW g, Joined(f, p, g)
  PROVE  g \in Seq(Nat) /\ Len(g) = at[k - 1] + n /\ Begun(at, w, g)
<1>1. PICK c : c = w[k]
  OBVIOUS
<1>2. at \in [Nat -> Nat] /\ Len(w) \in Nat /\ c \in Seq(Nat) /\ Len(c) \in Nat
  <2>1. w[k] \in Cells
    BY ElementOfSeq
  <2>2. c \in Seq(Nat) /\ Len(c) \in Nat
    BY <1>1, <2>1 DEF Cells
  <2>3. at \in [Nat -> Nat]
    BY DEF Ends
  <2>4. Len(w) \in Nat
    BY LenProperties
  <2> QED
    BY <2>2, <2>3, <2>4
<1>3. /\ p \in Seq(Nat) /\ Len(p) = n
      /\ \A x \in 1 .. n : p[x] = c[x]
  <2>1. n \in Nat /\ n <= Len(c) /\ 1 \in Nat \ {0} /\ 1 <= n + 1
    BY <1>1, <1>2
  <2>2. /\ p \in Seq(Nat) /\ Len(p) = (n - 1) + 1
        /\ \A x \in 1 .. ((n - 1) + 1) : p[x] = c[(1 + x) - 1]
    <3>1. PICK m \in Nat \ {0} : m = 1
      OBVIOUS
    <3>2. Cut(c, m, n, p) /\ c \in Seq(Nat) /\ n \in Nat /\ n <= Len(c) /\ m <= n + 1
      BY <1>1, <1>2, <2>1, <3>1
    <3>3. /\ p \in Seq(Nat) /\ Len(p) = (n - m) + 1
          /\ \A x \in 1 .. ((n - m) + 1) : p[x] = c[(m + x) - 1]
      BY <3>2, CellsCut
    <3> QED
      BY <3>1, <3>3
  <2>3. Len(p) = n
    BY <2>1, <2>2
  <2>4. ASSUME NEW x \in 1 .. n PROVE p[x] = c[x]
    <3>1. x \in 1 .. ((n - 1) + 1) /\ (1 + x) - 1 = x
      BY <2>1
    <3> QED
      BY <2>2, <3>1
  <2> QED
    BY <2>2, <2>3, <2>4
<1>4. /\ g \in Seq(Nat) /\ Len(g) = Len(f) + Len(p) /\ Extends(f, g)
      /\ \A x \in 1 .. Len(p) : g[Len(f) + x] = p[x]
  BY <1>3, CellsJoin
<1>5. Len(g) = at[k - 1] + n
  BY <1>3, <1>4
<1>6. at[k] = at[k - 1] + Len(c)
  BY <1>1 DEF Ends
<1>7. k - 1 \in Nat /\ at[k - 1] \in Nat /\ at[k] \in Nat /\ n \in Nat
  BY <1>2
<1>8. Len(g) <= at[Len(w)]
  <2>1. at[k] <= at[Len(w)]
    <3>1. PICK m : m = Len(w)
      OBVIOUS
    <3>2. k \in Nat /\ m \in 0 .. Len(w) /\ k <= m
      BY <1>2, <3>1
    <3>3. at[k] <= at[m]
      BY <3>2, EndsGrow
    <3> QED
      BY <3>1, <3>3
  <2>2. PICK a, b, m : a = at[k - 1] /\ b = at[k] /\ m = at[Len(w)]
    OBVIOUS
  <2>3. a \in Nat /\ b \in Nat /\ m \in Nat /\ b <= m /\ b = a + Len(c) /\ Len(g) = a + n
    BY <1>2, <1>5, <1>6, <1>7, <2>1, <2>2
  <2>4. n <= Len(c)
    BY <1>1, <1>2
  <2>5. Len(g) <= m
    BY <1>2, <1>7, <2>3, <2>4
  <2> QED
    BY <2>2, <2>5
<1>9. ASSUME NEW j \in 1 .. Len(w), NEW x \in 1 .. Len(w[j]), at[j - 1] + x <= Len(g)
      PROVE  g[at[j - 1] + x] = w[j][x]
  <2>1. /\ j - 1 \in Nat /\ at[j - 1] \in Nat /\ x \in Nat /\ x >= 1
        /\ Len(w[j]) \in Nat /\ x <= Len(w[j]) /\ at[j] = at[j - 1] + Len(w[j]) /\ at[j] \in Nat
    <3>1. w[j] \in Cells
      BY ElementOfSeq
    <3>2. Len(w[j]) \in Nat
      BY <3>1 DEF Cells
    <3> QED
      BY <1>2, <3>2 DEF Ends
  <2>2. PICK y : y = at[j - 1] + x
    OBVIOUS
  <2>3. y \in Nat /\ y >= 1 /\ y <= Len(g) /\ y <= at[j] /\ y > at[j - 1]
    <3>1. PICK a, b, l : a = at[j - 1] /\ b = at[j] /\ l = Len(w[j])
      OBVIOUS
    <3>2. /\ a \in Nat /\ b \in Nat /\ l \in Nat /\ x \in Nat /\ x >= 1 /\ x <= l
          /\ b = a + l /\ y = a + x
      BY <2>1, <2>2, <3>1
    <3>3. y \in Nat /\ y >= 1 /\ y <= b /\ y > a
      BY <3>2
    <3>4. y <= Len(g)
      BY <1>9, <2>2
    <3> QED
      BY <3>1, <3>3, <3>4
  <2>4. CASE y <= Len(f)
    <3>1. f[y] = w[j][x]
      BY <2>2, <2>4 DEF Begun
    <3>2. y \in 1 .. Len(f)
      BY <2>3, <2>4
    <3> QED
      BY <1>4, <2>2, <3>1, <3>2 DEF Extends
  <2>5. CASE y > at[k - 1]
    <3>1. ~(j < k)
      <4> SUFFICES ASSUME j < k PROVE FALSE
        OBVIOUS
      <4>1. at[j] <= at[k - 1]
        <5>1. j \in Nat /\ k - 1 \in 0 .. Len(w) /\ j <= k - 1
          BY <1>2
        <5> QED
          BY <5>1, EndsGrow
      <4> QED
        BY <1>7, <2>1, <2>3, <2>5, <4>1
    <3>2. ~(k < j)
      <4> SUFFICES ASSUME k < j PROVE FALSE
        OBVIOUS
      <4>1. at[k] <= at[j - 1]
        <5>1. k \in Nat /\ j - 1 \in 0 .. Len(w) /\ k <= j - 1
          BY <1>2
        <5> QED
          BY <5>1, EndsGrow
      <4>2. PICK a, b, e : a = at[k - 1] /\ b = at[k] /\ e = at[j - 1]
        OBVIOUS
      <4>3. a \in Nat /\ b \in Nat /\ e \in Nat /\ b <= e /\ b = a + Len(c) /\ y > e
        BY <1>6, <1>7, <2>1, <2>3, <4>1, <4>2
      <4>4. y <= a + n /\ n <= Len(c)
        BY <1>1, <1>2, <1>5, <2>3, <4>2
      <4> QED
        BY <1>2, <1>7, <2>3, <4>3, <4>4
    <3>3. j = k
      BY <1>2, <3>1, <3>2
    <3>4. x \in 1 .. n
      BY <1>5, <1>7, <2>1, <2>2, <2>3, <3>3
    <3>5. p[x] = w[k][x]
      BY <1>1, <1>3, <3>4
    <3>6. x \in 1 .. Len(p)
      BY <1>3, <3>4
    <3>7. g[Len(f) + x] = p[x]
      BY <1>4, <3>6
    <3> QED
      BY <3>3, <3>5, <3>7
  <2> QED
    BY <1>7, <2>3, <2>4, <2>5
<1> QED
  BY <1>4, <1>5, <1>8, <1>9 DEF Begun
-----------------------------------------------------------------------------
(* What the file says of the table.                                        *)

\* The file is what WriteSegment writes of t, or a beginning of it.
Laid(t, at) ==
  /\ WellFormed(t) /\ file \in Seq(Nat)
  /\ Ends(at, WriteChunks(t)) /\ Begun(at, WriteChunks(t), file)

\* c is the k-th write, which goes from o to e.
IsWrite(t, at, k, o, e, c) ==
  /\ k \in 1 .. Len(WriteChunks(t)) /\ c = WriteChunks(t)[k]
  /\ o = at[k - 1] /\ e = at[k]

\* The cells of a write.
LEMMA WriteLaid ==
  ASSUME NEW t, NEW at, Laid(t, at), NEW k, NEW o, NEW e, NEW c, IsWrite(t, at, k, o, e, c)
  PROVE  /\ o \in Nat /\ e \in Nat /\ e = o + Len(c) /\ Len(file) \in Nat
         /\ c \in Seq(Nat) /\ Len(c) \in Nat
         /\ \A x \in 1 .. Len(c) : o + x <= Len(file) => file[o + x] = c[x]
<1>1. PICK w : w = WriteChunks(t)
  OBVIOUS
<1>2. /\ w \in Seq(Cells) /\ Ends(at, w) /\ Begun(at, w, file)
      /\ k \in 1 .. Len(w) /\ c = w[k] /\ o = at[k - 1] /\ e = at[k]
  BY <1>1, Writes DEF Laid, IsWrite
<1>3. c \in Seq(Nat) /\ Len(c) \in Nat
  <2>1. c \in Cells
    BY <1>2, ElementOfSeq
  <2> QED
    BY <2>1 DEF Cells
<1>4. o \in Nat /\ e \in Nat /\ e = o + Len(c)
  <2>1. Len(w) \in Nat
    BY <1>2, LenProperties
  <2>2. at \in [Nat -> Nat] /\ k \in Nat /\ k - 1 \in Nat
    <3>1. at \in [Nat -> Nat]
      BY <1>2 DEF Ends
    <3>2. k \in Nat /\ k - 1 \in Nat
      BY <1>2, <2>1
    <3> QED
      BY <3>1, <3>2
  <2>3. o \in Nat /\ e \in Nat
    BY <1>2, <2>2
  <2>4. at[k] = at[k - 1] + Len(w[k])
    BY <1>2 DEF Ends
  <2> QED
    BY <1>2, <2>3, <2>4
<1>5. \A x \in 1 .. Len(c) : o + x <= Len(file) => file[o + x] = c[x]
  BY <1>2 DEF Begun
<1>6. Len(file) \in Nat
  BY DEF Laid
<1> QED
  BY <1>3, <1>4, <1>5, <1>6

\* A write of one cell.
IsCell(t, at, k, o, e, c) == IsWrite(t, at, k, o, e, c) /\ Len(c) = 1

LEMMA CellLaid ==
  ASSUME NEW t, NEW at, Laid(t, at), NEW k, NEW o, NEW e, NEW c, IsCell(t, at, k, o, e, c)
  PROVE  /\ o \in Nat /\ e = o + 1
         /\ e <= Len(file) => file[e] = c[1]
<1>1. IsWrite(t, at, k, o, e, c)
  BY DEF IsCell
<1>2. /\ o \in Nat /\ e \in Nat /\ e = o + Len(c)
      /\ \A x \in 1 .. Len(c) : o + x <= Len(file) => file[o + x] = c[x]
  BY <1>1, WriteLaid
<1>3. Len(c) = 1
  BY DEF IsCell
<1>4. o + 1 <= Len(file) => file[o + 1] = c[1]
  BY <1>2, <1>3
<1> QED
  BY <1>2, <1>3, <1>4

\* The cells of the prelude.
LEMMA PreludeLaid ==
  ASSUME NEW t, NEW at, Laid(t, at)
  PROVE  /\ Len(file) >= 4 => /\ file[1] = segmentMagic /\ file[2] = 2
                              /\ file[3] = Len(t.Columns) /\ file[4] = RowCount(t)
         /\ Len(file) >= 5 => file[5] = 1
         /\ Len(file) >= 6 => file[6] = Flags(t)
         /\ t.PK = <<>> => at[Before(t)] = 6
         /\ t.PK # <<>> =>
              /\ at[Before(t)] = 7 + Len(t.PK)
              /\ Len(file) >= 7 => file[7] = Len(t.PK)
              /\ \A x \in 1 .. Len(t.PK) : 7 + x <= Len(file) => file[7 + x] = t.PK[x]
<1>1. PICK w : w = WriteChunks(t)
  OBVIOUS
<1>2. /\ WellFormed(t) /\ Len(t.Columns) \in Nat /\ Before(t) \in {3, 5}
      /\ Len(w) = Before(t) + 5 * Len(t.Columns) + Behind(t)
      /\ w[1] = <<segmentMagic, 2, Len(t.Columns), RowCount(t)>>
      /\ w[2] = <<1>> /\ w[3] = <<Flags(t)>>
      /\ t.PK # <<>> => w[4] = <<Len(t.PK)>> /\ w[5] = t.PK
  BY <1>1, Writes DEF Laid
<1>3. Len(file) \in Nat
  BY DEF Laid
<1>4. Behind(t) \in {0, 3}
  BY DEF Behind
<1>5. Len(w) \in Nat /\ Len(w) >= Before(t) /\ Before(t) \in Nat /\ Before(t) >= 3
  BY <1>2, <1>4
<1>6. at[0] = 0
  BY DEF Laid, Ends
<1>7. /\ at[1] = 4
      /\ Len(file) >= 4 => /\ file[1] = segmentMagic /\ file[2] = 2
                           /\ file[3] = Len(t.Columns) /\ file[4] = RowCount(t)
  <2>1. PICK k, c, o, e : k = 1 /\ c = w[1] /\ o = 0 /\ e = at[1]
    OBVIOUS
  <2>2. k \in 1 .. Len(w) /\ o = at[k - 1] /\ e = at[k] /\ c = w[k]
    BY <1>5, <1>6, <2>1
  <2>3. /\ e = o + Len(c)
        /\ \A x \in 1 .. Len(c) : o + x <= Len(file) => file[o + x] = c[x]
    <3>1. IsWrite(t, at, k, o, e, c)
      BY <1>1, <2>2 DEF IsWrite
    <3> QED
      BY <2>2, <3>1, WriteLaid
  <2>4. Len(c) = 4
    BY <1>2, <2>1
  <2>5. \A x \in 1 .. 4 : x <= Len(file) => file[x] = c[x]
    BY <2>1, <2>3, <2>4
  <2>6. /\ c[1] = segmentMagic /\ c[2] = 2
        /\ c[3] = Len(t.Columns) /\ c[4] = RowCount(t)
    BY <1>2, <2>1
  <2>7. at[1] = 4
    BY <2>1, <2>3, <2>4
  <2>8. Len(file) >= 4 =>
          file[1] = c[1] /\ file[2] = c[2] /\ file[3] = c[3] /\ file[4] = c[4]
    BY <1>3, <2>5
  <2> QED
    BY <2>6, <2>7, <2>8
<1>8. at[2] = 5 /\ (Len(file) >= 5 => file[5] = 1)
  <2>1. PICK k, o, e, d : k = 2 /\ o = at[1] /\ e = at[2] /\ d = w[2]
    OBVIOUS
  <2>2. k \in 1 .. Len(w) /\ o = at[k - 1] /\ e = at[k] /\ d = w[k]
            /\ Len(d) = 1 /\ d[1] = 1
    BY <1>2, <1>5, <2>1
  <2>3. e = o + 1 /\ (e <= Len(file) => file[e] = 1)
    <3>1. IsCell(t, at, k, o, e, d)
      BY <1>1, <2>2 DEF IsWrite, IsCell
    <3> QED
      BY <2>2, <3>1, CellLaid
  <2> QED
    BY <1>3, <1>7, <2>1, <2>3
<1>9. at[3] = 6 /\ (Len(file) >= 6 => file[6] = Flags(t))
  <2>1. PICK k, o, e, d : k = 3 /\ o = at[2] /\ e = at[3] /\ d = w[3]
    OBVIOUS
  <2>2. k \in 1 .. Len(w) /\ o = at[k - 1] /\ e = at[k] /\ d = w[k]
            /\ Len(d) = 1 /\ d[1] = Flags(t)
    BY <1>2, <1>5, <2>1
  <2>3. e = o + 1 /\ (e <= Len(file) => file[e] = Flags(t))
    <3>1. IsCell(t, at, k, o, e, d)
      BY <1>1, <2>2 DEF IsWrite, IsCell
    <3> QED
      BY <2>2, <3>1, CellLaid
  <2> QED
    BY <1>3, <1>8, <2>1, <2>3
<1>10. ASSUME t.PK # <<>>
       PROVE  /\ at[Before(t)] = 7 + Len(t.PK)
              /\ Len(file) >= 7 => file[7] = Len(t.PK)
              /\ \A x \in 1 .. Len(t.PK) : 7 + x <= Len(file) => file[7 + x] = t.PK[x]
  <2>1. Before(t) = 5 /\ Len(w) >= 5
    BY <1>5, <1>10 DEF Before
  <2>2. at[4] = 7 /\ (Len(file) >= 7 => file[7] = Len(t.PK))
    <3>1. PICK k, o, e, d : k = 4 /\ o = at[3] /\ e = at[4] /\ d = w[4]
      OBVIOUS
    <3>2. k \in 1 .. Len(w) /\ o = at[k - 1] /\ e = at[k] /\ d = w[k]
            /\ Len(d) = 1 /\ d[1] = Len(t.PK)
      <4>1. d = <<Len(t.PK)>>
        BY <1>2, <1>10, <3>1
      <4> QED
        BY <1>5, <2>1, <3>1, <4>1
    <3>3. e = o + 1 /\ (e <= Len(file) => file[e] = Len(t.PK))
      <4>1. IsCell(t, at, k, o, e, d)
        BY <1>1, <3>2 DEF IsWrite, IsCell
      <4> QED
        BY <3>2, <4>1, CellLaid
    <3> QED
      BY <1>3, <1>9, <3>1, <3>3
  <2>3. PICK k, c, o, e : k = 5 /\ c = t.PK /\ o = at[4] /\ e = at[5]
    OBVIOUS
  <2>4. k \in 1 .. Len(w) /\ o = at[k - 1] /\ e = at[k] /\ c = w[k]
    BY <1>2, <1>5, <1>10, <2>1, <2>3
  <2>5. /\ e = o + Len(c)
        /\ \A x \in 1 .. Len(c) : o + x <= Len(file) => file[o + x] = c[x]
    <3>1. IsWrite(t, at, k, o, e, c)
      BY <1>1, <2>4 DEF IsWrite
    <3> QED
      BY <2>4, <3>1, WriteLaid
  <2> QED
    BY <2>1, <2>2, <2>3, <2>5
<1>11. t.PK = <<>> => at[Before(t)] = 6
  BY <1>9 DEF Before
<1> QED
  BY <1>7, <1>8, <1>9, <1>10, <1>11

\* Where the columns of a file begin: the i-th behind the first i - 1.
ColumnOff(t, at, i) == at[Before(t) + 5 * (i - 1)]

\* What is encoded of the i-th column.
Payload(t, i) == EncodeRLE(t.Columns[i].type, t.cols[i])

\* The i-th column begins at o; it has this name of n cells and this
\* payload of l cells.
IsColumn(t, at, i, o, name, n, p, l) ==
  /\ i \in 1 .. Len(t.Columns) /\ o = ColumnOff(t, at, i)
  /\ name = t.Columns[i].name /\ n = Len(name)
  /\ p = Payload(t, i) /\ l = Len(p)

\* The cells of a column.
LEMMA ColumnLaid ==
  ASSUME NEW t, NEW at, Laid(t, at), NEW i, NEW o, NEW name, NEW n, NEW p, NEW l,
         IsColumn(t, at, i, o, name, n, p, l)
  PROVE  /\ o \in Nat /\ n \in Nat /\ l \in Nat /\ name \in Seq(Nat) /\ p \in Seq(Nat)
         /\ ColumnOff(t, at, i + 1) = o + n + l + 4
         /\ o + 1 <= Len(file) => file[o + 1] = n
         /\ \A x \in 1 .. n : o + 1 + x <= Len(file) => file[o + 1 + x] = name[x]
         /\ o + n + 3 <= Len(file) =>
              file[o + n + 2] = WireType[t.Columns[i].type] /\ file[o + n + 3] = EncodingRLE
         /\ o + n + 4 <= Len(file) => file[o + n + 4] = l
         /\ \A x \in 1 .. l : o + n + 4 + x <= Len(file) => file[o + n + 4 + x] = p[x]
<1>1. PICK w : w = WriteChunks(t)
  OBVIOUS
<1>2. i \in 1 .. Len(t.Columns)
  BY DEF IsColumn
<1>3. /\ WellFormed(t) /\ w \in Seq(Cells) /\ Before(t) \in {3, 5} /\ Len(t.Columns) \in Nat
      /\ Len(w) = Before(t) + 5 * Len(t.Columns) + Behind(t)
  BY <1>1, Writes DEF Laid
<1>4. \A k \in 1 .. 5 :
        w[Before(t) + 5 * (i - 1) + k] = ColumnChunks(t.Columns[i], t.cols[i])[k]
  BY <1>1, <1>3, <1>2, Writes
<1>5. PICK q : q = ColumnChunks(t.Columns[i], t.cols[i])
  OBVIOUS
<1>6. /\ q[1] = <<n>> /\ q[2] = name
      /\ q[3] = <<WireType[t.Columns[i].type], EncodingRLE>> /\ q[4] = <<l>> /\ q[5] = p
  <2>1. PICK c : c = t.Columns[i]
    OBVIOUS
  <2>2. p = EncodeRLE(c.type, t.cols[i]) /\ l = Len(p) /\ name = c.name /\ n = Len(name)
    BY <2>1 DEF IsColumn, Payload
  <2>3. q = << <<n>>, name, <<WireType[c.type], EncodingRLE>>, <<l>>, p >>
    BY <1>5, <2>1, <2>2 DEF ColumnChunks
  <2> QED
    BY <2>1, <2>3
<1>7. PICK b : b = Before(t) + 5 * (i - 1)
  OBVIOUS
<1>8. b \in Nat /\ b + 5 <= Len(w) /\ Len(w) \in Nat
  <2>1. Behind(t) \in Nat
    BY DEF Behind
  <2>2. PICK c, f : c = Len(t.Columns) /\ f = Before(t)
    OBVIOUS
  <2>3. i \in 1 .. c /\ c \in Nat /\ f \in {3, 5} /\ b = f + 5 * (i - 1)
    BY <1>3, <1>7, <1>2, <2>2
  <2>4. b \in Nat /\ b + 5 <= f + 5 * c /\ f + 5 * c \in Nat
    BY <2>3
  <2>5. Len(w) = f + 5 * c + Behind(t)
    BY <1>3, <2>2
  <2> QED
    BY <2>1, <2>4, <2>5
<1>9. \A k \in 1 .. 5 : w[b + k] = q[k]
  BY <1>5, <1>7, <1>4
<1>10. w[b + 1] = <<n>> /\ w[b + 2] = name /\ w[b + 4] = <<l>> /\ w[b + 5] = p
  BY <1>6, <1>9
<1>11. w[b + 3] = <<WireType[t.Columns[i].type], EncodingRLE>>
  BY <1>6, <1>9
<1>12. o = at[b]
  BY <1>7 DEF ColumnOff, IsColumn
<1>13. Len(file) \in Nat
  BY DEF Laid
<1>14. n = Len(name) /\ l = Len(p)
  BY DEF IsColumn
<1>15. o \in Nat /\ at[b + 1] = o + 1 /\ (o + 1 <= Len(file) => file[o + 1] = n)
  <2>1. PICK k, e, d : k = b + 1 /\ e = at[b + 1] /\ d = w[b + 1]
    OBVIOUS
  <2>2. k \in 1 .. Len(w) /\ o = at[k - 1] /\ e = at[k] /\ d = w[k] /\ Len(d) = 1 /\ d[1] = n
    BY <1>8, <1>10, <1>12, <2>1
  <2>3. o \in Nat /\ e = o + 1 /\ (e <= Len(file) => file[e] = n)
    <3>1. IsCell(t, at, k, o, e, d)
      BY <1>1, <2>2 DEF IsWrite, IsCell
    <3> QED
      BY <2>2, <3>1, CellLaid
  <2> QED
    BY <2>1, <2>3
<1>16. /\ name \in Seq(Nat) /\ n \in Nat /\ at[b + 2] = o + n + 1
       /\ \A x \in 1 .. n : o + 1 + x <= Len(file) => file[o + 1 + x] = name[x]
  <2>1. PICK k, s, e : k = b + 2 /\ s = at[b + 1] /\ e = at[b + 2]
    OBVIOUS
  <2>2. k \in 1 .. Len(w) /\ s = at[k - 1] /\ e = at[k] /\ name = w[k]
    BY <1>8, <1>10, <2>1
  <2>3. /\ e = s + Len(name) /\ name \in Seq(Nat) /\ Len(name) \in Nat
        /\ \A x \in 1 .. Len(name) : s + x <= Len(file) => file[s + x] = name[x]
    <3>1. IsWrite(t, at, k, s, e, name)
      BY <1>1, <2>2 DEF IsWrite
    <3> QED
      BY <2>2, <3>1, WriteLaid
  <2>4. s = o + 1
    BY <1>15, <2>1
  <2>5. at[b + 2] = o + n + 1
    BY <1>15, <1>14, <2>1, <2>3, <2>4
  <2>6. \A x \in 1 .. n : o + 1 + x <= Len(file) => file[o + 1 + x] = name[x]
    BY <1>14, <2>3, <2>4
  <2> QED
    BY <1>14, <2>3, <2>5, <2>6
<1>17. /\ at[b + 3] = o + n + 3
       /\ o + n + 3 <= Len(file) =>
            file[o + n + 2] = WireType[t.Columns[i].type] /\ file[o + n + 3] = EncodingRLE
  <2>1. PICK k, s, e, d : k = b + 3 /\ s = at[b + 2] /\ e = at[b + 3] /\ d = w[b + 3]
    OBVIOUS
  <2>2. k \in 1 .. Len(w) /\ s = at[k - 1] /\ e = at[k] /\ d = w[k]
    BY <1>8, <2>1
  <2>3. /\ e = s + Len(d)
        /\ \A x \in 1 .. Len(d) : s + x <= Len(file) => file[s + x] = d[x]
    <3>1. IsWrite(t, at, k, s, e, d)
      BY <1>1, <2>2 DEF IsWrite
    <3> QED
      BY <2>2, <3>1, WriteLaid
  <2>4. Len(d) = 2 /\ d[1] = WireType[t.Columns[i].type] /\ d[2] = EncodingRLE
    BY <1>11, <2>1
  <2>5. s = o + n + 1
    BY <1>16, <2>1
  <2>6. at[b + 3] = o + n + 3
    BY <1>15, <1>16, <2>1, <2>3, <2>4, <2>5
  <2>7. /\ s + 1 <= Len(file) => file[s + 1] = d[1]
        /\ s + 2 <= Len(file) => file[s + 2] = d[2]
    BY <2>3, <2>4
  <2>8. s + 1 = o + n + 2 /\ s + 2 = o + n + 3
    BY <1>15, <1>16, <2>5
  <2>9. o + n + 3 <= Len(file) => file[o + n + 2] = d[1] /\ file[o + n + 3] = d[2]
    BY <1>13, <1>15, <1>16, <2>7, <2>8
  <2> QED
    BY <2>4, <2>6, <2>9
<1>18. at[b + 4] = o + n + 4 /\ (o + n + 4 <= Len(file) => file[o + n + 4] = l)
  <2>1. PICK k, s, e, d : k = b + 4 /\ s = at[b + 3] /\ e = at[b + 4] /\ d = w[b + 4]
    OBVIOUS
  <2>2. k \in 1 .. Len(w) /\ s = at[k - 1] /\ e = at[k] /\ d = w[k] /\ Len(d) = 1 /\ d[1] = l
    BY <1>8, <1>10, <2>1
  <2>3. s \in Nat /\ e = s + 1 /\ (e <= Len(file) => file[e] = l)
    <3>1. IsCell(t, at, k, s, e, d)
      BY <1>1, <2>2 DEF IsWrite, IsCell
    <3> QED
      BY <2>2, <3>1, CellLaid
  <2>4. e = o + n + 4
    BY <1>15, <1>16, <1>17, <2>1, <2>3
  <2> QED
    BY <2>1, <2>3, <2>4
<1>19. /\ p \in Seq(Nat) /\ l \in Nat /\ at[b + 5] = o + n + l + 4
       /\ \A x \in 1 .. l : o + n + 4 + x <= Len(file) => file[o + n + 4 + x] = p[x]
  <2>1. PICK k, s, e : k = b + 5 /\ s = at[b + 4] /\ e = at[b + 5]
    OBVIOUS
  <2>2. k \in 1 .. Len(w) /\ s = at[k - 1] /\ e = at[k] /\ p = w[k]
    BY <1>8, <1>10, <2>1
  <2>3. /\ e = s + Len(p) /\ p \in Seq(Nat) /\ Len(p) \in Nat
        /\ \A x \in 1 .. Len(p) : s + x <= Len(file) => file[s + x] = p[x]
    <3>1. IsWrite(t, at, k, s, e, p)
      BY <1>1, <2>2 DEF IsWrite
    <3> QED
      BY <2>2, <3>1, WriteLaid
  <2>4. s = o + n + 4
    BY <1>18, <2>1
  <2>5. at[b + 5] = o + n + l + 4
    BY <1>15, <1>16, <1>14, <2>1, <2>3, <2>4
  <2>6. \A x \in 1 .. l : o + n + 4 + x <= Len(file) => file[o + n + 4 + x] = p[x]
    BY <1>14, <2>3, <2>4
  <2> QED
    BY <1>14, <2>3, <2>5, <2>6
<1>20. ColumnOff(t, at, i + 1) = at[b + 5]
  <2>1. PICK f : f = Before(t)
    OBVIOUS
  <2>2. f \in {3, 5} /\ b = f + 5 * (i - 1) /\ i \in Nat
    BY <1>3, <1>7, <1>2, <2>1
  <2>3. f + 5 * ((i + 1) - 1) = b + 5
    BY <2>2
  <2> QED
    BY <2>1, <2>3 DEF ColumnOff
<1> QED
  BY <1>15, <1>16, <1>17, <1>18, <1>19, <1>20

-----------------------------------------------------------------------------
(* What readers find.                                                      *)

\* The flags byte tells whether there are a key name and a filter.
LEMMA FlagsTell ==
  ASSUME NEW t
  PROVE  /\ hasPKName(Flags(t)) <=> t.PK # <<>>
         /\ hasBloom(Flags(t)) <=> t.bloom # NoFilter
<1>1. CASE t.PK = <<>> /\ t.bloom = NoFilter
  <2>1. Flags(t) = 0
    BY <1>1 DEF Flags
  <2> QED
    BY <1>1, <2>1 DEF hasPKName, hasBloom
<1>2. CASE t.PK # <<>> /\ t.bloom = NoFilter
  <2>1. Flags(t) = 1
    BY <1>2 DEF Flags
  <2> QED
    BY <1>2, <2>1 DEF hasPKName, hasBloom
<1>3. CASE t.PK = <<>> /\ t.bloom # NoFilter
  <2>1. Flags(t) = 2
    BY <1>3 DEF Flags
  <2> QED
    BY <1>3, <2>1 DEF hasPKName, hasBloom
<1>4. CASE t.PK # <<>> /\ t.bloom # NoFilter
  <2>1. Flags(t) = 3
    BY <1>4 DEF Flags
  <2> QED
    BY <1>4, <2>1 DEF hasPKName, hasBloom
<1> QED
  BY <1>1, <1>2, <1>3, <1>4

\* A part of the file whose cells are known.
LEMMA CellsRead ==
  ASSUME file \in Seq(Nat), NEW o \in Nat, NEW c \in Seq(Nat), o + Len(c) <= Len(file),
         \A x \in 1 .. Len(c) : file[o + x] = c[x]
  PROVE  SubSeq(file, o + 1, o + Len(c)) = c
<1>1. PICK m \in Nat \ {0} : m = o + 1
  OBVIOUS
<1>2. PICK n \in Nat : n = o + Len(c)
  OBVIOUS
<1>3. PICK u : Cut(file, m, n, u)
  BY DEF Cut
<1>4. Len(c) \in Nat /\ n <= Len(file) /\ m <= n + 1
  BY <1>1, <1>2
<1>5. /\ u \in Seq(Nat) /\ Len(u) = (n - m) + 1
      /\ \A x \in 1 .. ((n - m) + 1) : u[x] = file[(m + x) - 1]
  BY <1>3, <1>4, CellsCut
<1>6. Len(u) = Len(c)
  BY <1>1, <1>2, <1>4, <1>5
<1>7. ASSUME NEW x \in 1 .. Len(u) PROVE u[x] = c[x]
  <2>1. x \in 1 .. ((n - m) + 1) /\ (m + x) - 1 = o + x /\ x \in 1 .. Len(c)
    BY <1>1, <1>4, <1>5, <1>6
  <2>2. u[x] = file[o + x]
    BY <1>5, <2>1
  <2> QED
    BY <2>1, <2>2
<1>8. u = c
  BY <1>5, <1>6, <1>7, SeqEqual
<1> QED
  BY <1>1, <1>2, <1>3, <1>8 DEF Cut

\* What the prelude says, where it is there.
PreludeSays(t, at) ==
  /\ PreludeFits /\ PreludePK = t.PK /\ Begin = at[Before(t)] /\ at[Before(t)] <= Len(file)
  /\ file[2] = 2 /\ file[3] = Len(t.Columns) /\ file[4] = RowCount(t)
  /\ Keyed <=> t.PK # <<>>
  /\ hasBloom(file[6]) <=> t.bloom # NoFilter

\* The prelude is there when it fits, and when the file is long enough.
LEMMA PreludeHeld ==
  ASSUME NEW t, NEW at, Laid(t, at), PreludeFits \/ at[Before(t)] <= Len(file)
  PROVE  PreludeSays(t, at)
<1>1. /\ Len(file) \in Nat /\ segmentMagic \in Nat /\ Len(t.PK) \in Nat /\ t.PK \in Seq(Nat)
      /\ file \in Seq(Nat)
  <2>1. t.PK \in Seq(Nat)
    BY Formed DEF Laid
  <2>2. file \in Seq(Nat)
    BY DEF Laid
  <2> QED
    BY <2>1, <2>2, CellAssumption
<1>2. Len(file) >= 4
  <2>1. CASE PreludeFits
    BY <1>1, <2>1 DEF PreludeFits, HeaderFits, Have
  <2>2. CASE at[Before(t)] <= Len(file)
    BY <1>1, <2>2, PreludeLaid
  <2> QED
    BY <2>1, <2>2
<1>3. /\ file[1] = segmentMagic /\ file[2] = 2
      /\ file[3] = Len(t.Columns) /\ file[4] = RowCount(t)
  BY <1>2, PreludeLaid
<1>4. Len(file) >= 5
  <2>1. CASE PreludeFits
    BY <1>1, <1>3, <2>1 DEF PreludeFits, FlagsFit, Have
  <2>2. CASE at[Before(t)] <= Len(file)
    BY <1>1, <2>2, PreludeLaid
  <2> QED
    BY <2>1, <2>2
<1>5. file[5] = 1
  BY <1>4, PreludeLaid
<1>6. Len(file) >= 6
  <2>1. CASE PreludeFits
    BY <1>1, <1>3, <1>5, <2>1 DEF PreludeFits, FlagsFit, Have
  <2>2. CASE at[Before(t)] <= Len(file)
    BY <1>1, <2>2, PreludeLaid
  <2> QED
    BY <2>1, <2>2
<1>7. file[6] = Flags(t)
  BY <1>6, PreludeLaid
<1>8. (Keyed <=> t.PK # <<>>) /\ (hasBloom(file[6]) <=> t.bloom # NoFilter)
  BY <1>7, FlagsTell DEF Keyed
<1>9. FlagsEnd = 6 /\ HeaderFits /\ FlagsFit
  BY <1>1, <1>3, <1>5, <1>6 DEF FlagsEnd, HeaderFits, FlagsFit, Have
<1>10. CASE t.PK = <<>>
  <2>1. PreludeFits /\ PreludePK = <<>> /\ Begin = 6
    BY <1>3, <1>8, <1>9, <1>10 DEF PreludeFits, PreludePK, Begin
  <2>2. at[Before(t)] = 6
    BY <1>10, PreludeLaid
  <2> QED
    BY <1>3, <1>6, <1>8, <1>10, <2>1, <2>2 DEF PreludeSays
<1>11. CASE t.PK # <<>>
  <2>1. /\ at[Before(t)] = 7 + Len(t.PK)
        /\ Len(file) >= 7 => file[7] = Len(t.PK)
        /\ \A x \in 1 .. Len(t.PK) : 7 + x <= Len(file) => file[7 + x] = t.PK[x]
    BY <1>11, PreludeLaid
  <2>2. Len(file) >= 7
    <3>1. CASE PreludeFits
      BY <1>1, <1>3, <1>8, <1>9, <1>11, <3>1 DEF PreludeFits, NamePresent, Have
    <3>2. CASE at[Before(t)] <= Len(file)
      BY <1>1, <2>1, <3>2
    <3> QED
      BY <3>1, <3>2
  <2>3. file[7] = Len(t.PK)
    BY <2>1, <2>2
  <2>4. Len(file) >= 7 + Len(t.PK)
    <3>1. CASE PreludeFits
      <4>1. Have(7, file[7])
        BY <1>3, <1>8, <1>9, <1>11, <3>1 DEF PreludeFits, NamePresent
      <4> QED
        BY <1>1, <2>3, <4>1 DEF Have
    <3>2. CASE at[Before(t)] <= Len(file)
      BY <1>1, <2>1, <3>2
    <3> QED
      BY <3>1, <3>2
  <2>5. NamePresent(6) /\ NameEnd(6) = 7 + Len(t.PK)
    BY <1>1, <2>2, <2>3, <2>4 DEF NamePresent, NameEnd, Have
  <2>6. NameAt(6) = t.PK
    <3>1. PICK c, o : c = t.PK /\ o = 7
      OBVIOUS
    <3>2. ASSUME NEW x \in 1 .. Len(c) PROVE file[o + x] = c[x]
      BY <1>1, <2>1, <2>4, <3>1
    <3>3. SubSeq(file, o + 1, o + Len(c)) = c
      BY <1>1, <2>4, <3>1, <3>2, CellsRead
    <3> QED
      BY <2>5, <3>1, <3>3 DEF NameAt
  <2>7. PreludeFits /\ PreludePK = t.PK /\ Begin = 7 + Len(t.PK)
    BY <1>3, <1>8, <1>9, <1>11, <2>5, <2>6 DEF PreludeFits, PreludePK, Begin
  <2> QED
    BY <1>3, <1>8, <1>11, <2>1, <2>4, <2>7 DEF PreludeSays
<1> QED
  BY <1>10, <1>11

\* A type's tag is a known one, and stands for the type.
LEMMA WireTypesTell ==
  ASSUME NEW type \in ColumnType
  PROVE  /\ WireType[type] \in KnownWireTypes /\ TypeOf(WireType[type]) = type
<1>1. /\ DOMAIN WireType = {"int64", "float64", "string"}
      /\ WireType["int64"] = 0 /\ WireType["float64"] = 1 /\ WireType["string"] = 2
  BY DEF WireType
<1>2. type \in DOMAIN WireType
  BY <1>1 DEF ColumnType
<1>3. \A u \in DOMAIN WireType : WireType[u] = WireType[type] => u = type
  BY <1>1, <1>2
<1> HIDE DEF WireType
<1>4. TypeOf(WireType[type]) = type
  BY <1>2, <1>3 DEF TypeOf
<1>5. WireType[type] \in KnownWireTypes
  BY <1>2 DEF KnownWireTypes
<1> QED
  BY <1>4, <1>5

\* Where the payload of a column is and how it is encoded.
BlockAt(o) == [encoding |-> EncodingTag(o), off |-> PayloadOff(o), len |-> PayloadLen(o)]

\* What the cells of the i-th column say, where they are there.
ColumnSays(t, at, i, o) ==
  /\ ColumnFits(o) /\ ~BadEncoding(o) /\ ColumnAt(o) = t.Columns[i]
  /\ ColumnEnd(o) = ColumnOff(t, at, i + 1) /\ ColumnEnd(o) <= Len(file)
  /\ EncodingTag(o) = EncodingRLE /\ PayloadLen(o) = Len(Payload(t, i))
  /\ SubSeq(file, PayloadOff(o) + 1, PayloadOff(o) + PayloadLen(o)) = Payload(t, i)

\* A column is there when it fits, and when the file is long enough.
LEMMA ColumnHeld ==
  ASSUME NEW t, NEW at, Laid(t, at), NEW i \in 1 .. Len(t.Columns),
         NEW o, o = ColumnOff(t, at, i),
         ColumnFits(o) \/ ColumnOff(t, at, i + 1) <= Len(file)
  PROVE  ColumnSays(t, at, i, o)
<1>1. PICK c : c = t.Columns[i]
  OBVIOUS
<1>2. PICK name, p, n, l : name = c.name /\ p = Payload(t, i) /\ n = Len(name) /\ l = Len(p)
  OBVIOUS
<1>3. PICK q : q = o
  OBVIOUS
<1>4. IsColumn(t, at, i, q, name, n, p, l)
  BY <1>3, <1>1, <1>2 DEF IsColumn
<1>5. PICK e : e = ColumnOff(t, at, i + 1)
  OBVIOUS
<1>6. PICK v : v = WireType[c.type]
  OBVIOUS
<1>7. /\ q \in Nat /\ n \in Nat /\ l \in Nat /\ name \in Seq(Nat) /\ p \in Seq(Nat)
      /\ e = q + n + l + 4
  <2>1. /\ q \in Nat /\ n \in Nat /\ l \in Nat /\ name \in Seq(Nat) /\ p \in Seq(Nat)
        /\ ColumnOff(t, at, i + 1) = q + n + l + 4
    BY ONLY Laid(t, at), <1>4, ColumnLaid
  <2> QED
    BY <1>5, <2>1
<1>8. /\ q + 1 <= Len(file) => file[q + 1] = n
      /\ \A x \in 1 .. n : q + 1 + x <= Len(file) => file[q + 1 + x] = name[x]
  BY ONLY Laid(t, at), <1>4, ColumnLaid
<1>9. q + n + 3 <= Len(file) => file[q + n + 2] = v /\ file[q + n + 3] = EncodingRLE
  <2>1. q + n + 3 <= Len(file) =>
          file[q + n + 2] = WireType[t.Columns[i].type] /\ file[q + n + 3] = EncodingRLE
    BY ONLY Laid(t, at), <1>4, ColumnLaid
  <2> QED
    BY <1>1, <1>6, <2>1
<1>10. /\ q + n + 4 <= Len(file) => file[q + n + 4] = l
      /\ \A x \in 1 .. l : q + n + 4 + x <= Len(file) => file[q + n + 4 + x] = p[x]
  BY ONLY Laid(t, at), <1>4, ColumnLaid
<1>11. ColumnFits(q) \/ e <= Len(file)
  BY <1>3, <1>5
<1>12. file \in Seq(Nat) /\ Len(file) \in Nat
  BY DEF Laid
<1>13. q + 1 <= Len(file)
  <2>1. CASE ColumnFits(q)
    BY <1>7, <1>12, <2>1 DEF ColumnFits, TagsPresent, NamePresent, Have
  <2>2. CASE e <= Len(file)
    BY <1>7, <1>12, <2>2
  <2> QED
    BY <1>11, <2>1, <2>2
<1>14. file[q + 1] = n
  BY <1>8, <1>13
<1>15. NameEnd(q) = q + n + 1
  BY <1>7, <1>14 DEF NameEnd
<1>16. q + n + 3 <= Len(file)
  <2>1. CASE ColumnFits(q)
    BY <1>7, <1>12, <1>15, <2>1 DEF ColumnFits, TagsPresent, Have
  <2>2. CASE e <= Len(file)
    BY <1>7, <1>12, <2>2
  <2> QED
    BY <1>11, <2>1, <2>2
<1>17. WireTag(q) = v /\ EncodingTag(q) = EncodingRLE
  <2>1. NameEnd(q) + 1 = q + n + 2 /\ NameEnd(q) + 2 = q + n + 3
    BY <1>7, <1>15
  <2> QED
    BY <1>9, <1>16, <2>1 DEF WireTag, EncodingTag
<1>18. q + n + 4 <= Len(file)
  <2>1. CASE ColumnFits(q)
    BY <1>7, <1>12, <1>15, <2>1 DEF ColumnFits, PayloadPresent, Have
  <2>2. CASE e <= Len(file)
    BY <1>7, <1>12, <2>2
  <2> QED
    BY <1>11, <2>1, <2>2
<1>19. PayloadOff(q) = q + n + 4 /\ PayloadLen(q) = l
  <2>1. NameEnd(q) + 3 = q + n + 4
    BY <1>7, <1>15
  <2> QED
    BY <1>10, <1>18, <2>1 DEF PayloadOff, PayloadLen
<1>20. e <= Len(file)
  <2>1. CASE ColumnFits(q)
    BY <1>7, <1>12, <1>19, <2>1 DEF ColumnFits, PayloadPresent, Have
  <2>2. CASE e <= Len(file)
    BY <2>2
  <2> QED
    BY <1>11, <2>1, <2>2
<1>21. c.type \in ColumnType /\ c = [name |-> c.name, type |-> c.type]
  <2>1. PICK S : S = [name : Seq(Nat), type : ColumnType]
    OBVIOUS
  <2>2. t.Columns \in Seq(S)
    BY <2>1, Formed DEF Laid
  <2>3. c \in S
    BY <1>1, <2>2, ElementOfSeq
  <2> QED
    BY <2>1, <2>3
<1>22. v \in KnownWireTypes /\ TypeOf(v) = c.type
  BY <1>6, <1>21, WireTypesTell
<1>23. PICK k \in Nat : k = Len(file)
  BY <1>12
<1>24. q \in Nat /\ n \in Nat /\ l \in Nat /\ e = q + n + l + 4
  BY <1>7
<1>25. NamePresent(q) /\ NameAt(q) = name
  <2>1. NamePresent(q)
    <3>1. 1 <= k - q /\ n <= k - (q + 1)
      BY <1>23, <1>24, <1>16
    <3> QED
      BY <1>23, <1>14, <3>1 DEF NamePresent, Have
  <2>2. PICK b \in Nat : b = q + 1
    BY <1>7
  <2>3. ASSUME NEW x \in 1 .. Len(name) PROVE file[b + x] = name[x]
    <3>1. x \in 1 .. n /\ q + 1 + x <= Len(file)
      BY <1>2, <1>23, <1>24, <1>16
    <3> QED
      BY <1>8, <2>2, <3>1
  <2>4. b + Len(name) <= Len(file)
    <3>1. b + n <= k
      BY <1>16, <1>23, <1>24, <2>2
    <3> QED
      BY <1>2, <1>23, <3>1
  <2>5. SubSeq(file, b + 1, b + Len(name)) = name
    BY <1>7, <1>12, <2>3, <2>4, CellsRead
  <2>6. n = Len(name)
    BY <1>2
  <2>7. b + 1 = q + 2 /\ b + n = q + n + 1
    BY <1>24, <2>2
  <2> QED
    BY <1>15, <2>1, <2>5, <2>6, <2>7 DEF NameAt
<1>26. SubSeq(file, PayloadOff(q) + 1, PayloadOff(q) + PayloadLen(q)) = p
  <2>1. PICK b \in Nat : b = q + n + 4
    BY <1>7
  <2>2. ASSUME NEW x \in 1 .. Len(p) PROVE file[b + x] = p[x]
    <3>1. x \in 1 .. l
      BY <1>2
    <3>2. q + n + 4 + x <= k
      BY <1>23, <1>24, <1>20, <3>1
    <3> QED
      BY <1>10, <1>23, <2>1, <3>1, <3>2
  <2>3. b + Len(p) <= Len(file)
    BY <1>2, <1>23, <1>24, <1>20, <2>1
  <2>4. SubSeq(file, b + 1, b + Len(p)) = p
    BY <1>7, <1>12, <2>2, <2>3, CellsRead
  <2> QED
    BY <1>2, <1>19, <2>1, <2>4
<1>27. TagsPresent(q) /\ ~BadType(q)
  <2>1. 2 <= k - (q + n + 1)
    BY <1>23, <1>24, <1>16
  <2> QED
    BY <1>23, <1>15, <1>17, <1>22, <1>25, <2>1 DEF TagsPresent, BadType, Have
<1>28. PayloadPresent(q)
  <2>1. 1 <= k - (q + n + 1 + 2) /\ l <= k - (q + n + 4)
    BY <1>23, <1>24, <1>18, <1>20
  <2> QED
    BY <1>23, <1>15, <1>19, <2>1 DEF PayloadPresent, Have
<1>29. ColumnFits(q)
  BY <1>27, <1>28 DEF ColumnFits
<1>30. ~BadEncoding(q)
  BY <1>17 DEF BadEncoding
<1>31. ColumnAt(q) = c
  <2>1. ColumnAt(q) = [name |-> c.name, type |-> c.type]
    BY <1>2, <1>17, <1>22, <1>25 DEF ColumnAt
  <2> QED
    BY <1>21, <2>1
<1>32. ColumnEnd(q) = e
  BY <1>7, <1>19 DEF ColumnEnd
<1> QED
  BY <1>3, <1>1, <1>2, <1>5, <1>17, <1>19, <1>20, <1>26, <1>29, <1>30, <1>31, <1>32 DEF ColumnSays

\* A walk stops where the columns begin and end.
LEMMA WalkHeld ==
  ASSUME NEW t, NEW at, Laid(t, at), PreludeSays(t, at),
         NEW s, Walk(s), Len(s) <= Len(t.Columns) + 1
  PROVE  /\ \A i \in 1 .. Len(s) : s[i] = ColumnOff(t, at, i)
         /\ \A i \in 1 .. (Len(s) - 1) : ColumnSays(t, at, i, s[i])
<1> DEFINE S == { d \in Nat : d + 1 <= Len(s) => s[d + 1] = ColumnOff(t, at, d + 1) }
<1>1. Len(s) \in Nat /\ s[1] = Begin /\ Len(t.Columns) \in Nat
  <2>1. Len(t.Columns) \in Nat
    BY Formed DEF Laid
  <2> QED
    BY <2>1 DEF Walk
<1>2. 0 \in S
  <2>1. ColumnOff(t, at, 1) = at[Before(t)]
    BY DEF ColumnOff, Before
  <2>2. s[1] = at[Before(t)]
    BY <1>1 DEF PreludeSays
  <2> QED
    BY <2>1, <2>2
<1>3. ASSUME NEW i \in 1 .. (Len(s) - 1), s[i] = ColumnOff(t, at, i)
      PROVE  s[i + 1] = ColumnOff(t, at, i + 1) /\ ColumnSays(t, at, i, s[i])
  <2>1. i \in 1 .. Len(t.Columns)
    BY <1>1
  <2>2. ColumnFits(s[i]) /\ s[i + 1] = ColumnEnd(s[i])
    BY DEF Walk
  <2>3. ColumnSays(t, at, i, s[i])
    BY <1>3, <2>1, <2>2, ColumnHeld
  <2> QED
    BY <2>2, <2>3 DEF ColumnSays
<1>4. ASSUME NEW d \in S PROVE d + 1 \in S
  <2> SUFFICES ASSUME (d + 1) + 1 <= Len(s)
               PROVE  s[(d + 1) + 1] = ColumnOff(t, at, (d + 1) + 1)
    OBVIOUS
  <2>1. PICK i : i = d + 1
    OBVIOUS
  <2>2. i \in 1 .. (Len(s) - 1) /\ s[i] = ColumnOff(t, at, i)
    BY <1>1, <2>1
  <2> QED
    BY <1>3, <2>1, <2>2
<1>5. S = Nat
  <2> HIDE DEF S
  <2>1. S \in SUBSET Nat
    BY DEF S
  <2> QED
    BY <1>2, <1>4, <2>1, SetInduction
<1>6. ASSUME NEW i \in 1 .. Len(s) PROVE s[i] = ColumnOff(t, at, i)
  <2>1. PICK d \in Nat : d + 1 = i
    <3>1. i - 1 \in Nat /\ (i - 1) + 1 = i
      BY <1>1
    <3> QED
      BY <3>1
  <2>2. d \in S
    <3> HIDE DEF S
    <3> QED
      BY <1>5
  <2> QED
    BY <2>1, <2>2
<1>7. ASSUME NEW i \in 1 .. (Len(s) - 1) PROVE ColumnSays(t, at, i, s[i])
  <2>1. i \in 1 .. Len(s)
    BY <1>1
  <2> QED
    BY <1>3, <1>6, <2>1
<1> QED
  BY <1>6, <1>7

\* Where the writes of t end.
EndOff(t, at) == at[Len(WriteChunks(t))]

\* Without a filter they end with the columns.
LEMMA EndsWithColumns ==
  ASSUME NEW t, NEW at, Laid(t, at), t.bloom = NoFilter
  PROVE  EndOff(t, at) = ColumnOff(t, at, Len(t.Columns) + 1)
<1>1. PICK n, b : n = Len(t.Columns) /\ b = Before(t)
  OBVIOUS
<1>2. n \in Nat /\ b \in {3, 5} /\ Len(WriteChunks(t)) = b + 5 * n + Behind(t)
  BY <1>1, Writes DEF Laid
<1>3. Behind(t) = 0
  BY DEF Behind
<1>4. Len(WriteChunks(t)) = b + 5 * ((n + 1) - 1)
  BY <1>2, <1>3
<1> QED
  BY <1>1, <1>4 DEF EndOff, ColumnOff

\* d is the filter of t as it is written, and bits are its bits.
Marshals(t, d, bits) ==
  /\ WellFormed(t) /\ t.bloom # NoFilter
  /\ d = MarshalBinary(t.bloom) /\ bits = t.bloom.bits

\* A filter's cells.
LEMMA FilterCells ==
  ASSUME NEW t, NEW d, NEW bits, Marshals(t, d, bits)
  PROVE  /\ d \in Seq(Nat) /\ bits \in Seq(Nat) /\ Len(d) = 4 + Len(bits)
         /\ d[1] = t.bloom.m /\ d[2] = t.bloom.k /\ d[3] = t.bloom.nAdded /\ d[4] = Len(bits)
         /\ \A x \in 1 .. Len(bits) : d[4 + x] = bits[x]
<1>1. WellFormed(t) /\ t.bloom # NoFilter
  BY DEF Marshals
<1>2. PICK m, k, n : m = t.bloom.m /\ k = t.bloom.k /\ n = t.bloom.nAdded
  OBVIOUS
<1>3. m \in Nat \ {0} /\ k \in 1 .. 30 /\ n \in Nat /\ bits \in Cells
  <2>1. t.bloom.bits \in Cells
    BY <1>1, Formed
  <2>2. bits \in Cells
    BY <2>1 DEF Marshals
  <2> QED
    BY <1>2, <1>1, <2>2, Formed
<1>4. bits \in Seq(Nat) /\ Len(bits) \in Nat
  BY <1>3 DEF Cells
<1>5. PICK s : s = <<m, k, n, Len(bits)>>
  OBVIOUS
<1>6. s \in Seq(Nat) /\ Len(s) = 4
  <2>1. m \in Nat /\ k \in Nat /\ n \in Nat
    BY <1>3
  <2> QED
    BY <1>4, <1>5, <2>1
<1>7. Joined(s, bits, d)
  BY <1>2, <1>5 DEF MarshalBinary, Joined, Marshals
<1>8. /\ d \in Seq(Nat) /\ Len(d) = Len(s) + Len(bits) /\ Extends(s, d)
      /\ \A x \in 1 .. Len(bits) : d[Len(s) + x] = bits[x]
  <2>1. s \in Seq(Nat) /\ bits \in Seq(Nat)
    BY <1>4, <1>6
  <2>2. \A u : Joined(s, bits, u) =>
          /\ u \in Seq(Nat) /\ Len(u) = Len(s) + Len(bits) /\ Extends(s, u)
          /\ \A x \in 1 .. Len(bits) : u[Len(s) + x] = bits[x]
    BY <2>1, CellsJoin
  <2> QED
    BY <1>7, <2>2
<1>9. d[1] = s[1] /\ d[2] = s[2] /\ d[3] = s[3] /\ d[4] = s[4]
  BY <1>6, <1>8 DEF Extends
<1>10. s[1] = m /\ s[2] = k /\ s[3] = n /\ s[4] = Len(bits)
  BY <1>5
<1>11. Len(d) = 4 + Len(bits) /\ \A x \in 1 .. Len(bits) : d[4 + x] = bits[x]
  BY <1>6, <1>8
<1> QED
  BY <1>2, <1>4, <1>8, <1>9, <1>10, <1>11

\* A filter that was marshalled is valid, and comes back.
LEMMA FilterBack ==
  ASSUME NEW t, WellFormed(t), t.bloom # NoFilter,
         NEW d, d = MarshalBinary(t.bloom)
  PROVE  ValidFilter(d) /\ UnmarshalBinary(d) = t.bloom
<1>1. PICK bits, e : bits = t.bloom.bits /\ e = d
  OBVIOUS
<1>2. Marshals(t, e, bits)
  BY <1>1 DEF Marshals
<1>3. PICK m, k, n : m = t.bloom.m /\ k = t.bloom.k /\ n = t.bloom.nAdded
  OBVIOUS
<1>4. /\ e \in Seq(Nat) /\ bits \in Seq(Nat) /\ Len(e) = 4 + Len(bits)
      /\ e[1] = m /\ e[2] = k /\ e[3] = n /\ e[4] = Len(bits)
      /\ \A x \in 1 .. Len(bits) : e[4 + x] = bits[x]
  <2>1. /\ e \in Seq(Nat) /\ bits \in Seq(Nat) /\ Len(e) = 4 + Len(bits)
        /\ e[4] = Len(bits) /\ \A x \in 1 .. Len(bits) : e[4 + x] = bits[x]
    BY <1>2, FilterCells
  <2>2. e[1] = t.bloom.m /\ e[2] = t.bloom.k /\ e[3] = t.bloom.nAdded
    BY <1>2, FilterCells
  <2> QED
    BY <1>3, <2>1, <2>2
<1>5. m \in Nat \ {0} /\ k \in 1 .. 30 /\ Len(bits) = BitsLen(m)
  BY <1>1, <1>3, Formed
<1>6. t.bloom = [m |-> m, k |-> k, nAdded |-> n, bits |-> bits]
  BY <1>1, <1>3, Formed
<1>7. ValidFilter(e)
  <2>1. Len(bits) \in Nat
    BY <1>4
  <2>2. Len(e) >= 4 /\ e[4] = Len(e) - 4
    BY <1>4, <2>1
  <2> QED
    BY <1>4, <1>5, <2>2 DEF ValidFilter, BitsLen, ExpectedBitsLen
<1>8. SubSeq(e, 5, Len(e)) = bits
  <2>1. PICK i \in Nat \ {0} : i = 5
    OBVIOUS
  <2>2. PICK j \in Nat : j = Len(e)
    BY <1>4
  <2>3. PICK u : Cut(e, i, j, u)
    BY DEF Cut
  <2>4. Len(bits) \in Nat /\ j = 4 + Len(bits)
    BY <1>4, <2>2
  <2>5. e \in Seq(Nat) /\ j <= Len(e) /\ i <= j + 1
    BY <1>4, <2>1, <2>2, <2>4
  <2>6. /\ u \in Seq(Nat) /\ Len(u) = (j - i) + 1
        /\ \A x \in 1 .. ((j - i) + 1) : u[x] = e[(i + x) - 1]
    BY <2>3, <2>5, CellsCut
  <2>7. Len(u) = Len(bits)
    BY <2>1, <2>4, <2>6
  <2>8. ASSUME NEW x \in 1 .. Len(u) PROVE u[x] = bits[x]
    <3>1. x \in 1 .. ((j - i) + 1) /\ (i + x) - 1 = 4 + x /\ x \in 1 .. Len(bits)
      BY <2>1, <2>4, <2>6, <2>7
    <3>2. u[x] = e[4 + x]
      BY <2>6, <3>1
    <3> QED
      BY <1>4, <3>1, <3>2
  <2>9. u = bits
    BY <1>4, <2>6, <2>7, <2>8, SeqEqual
  <2> QED
    BY <2>1, <2>2, <2>3, <2>9 DEF Cut
<1>9. UnmarshalBinary(e) = [m |-> m, k |-> k, nAdded |-> n, bits |-> bits]
  BY <1>4, <1>8 DEF UnmarshalBinary
<1> QED
  BY <1>1, <1>6, <1>7, <1>9

\* The trailer of t begins at o; d is what it says of the filter.
IsTrailer(t, at, o, d, bits) ==
  Marshals(t, d, bits) /\ o = ColumnOff(t, at, Len(t.Columns) + 1)

\* The cells of the trailer.
LEMMA TrailerLaid ==
  ASSUME NEW t, NEW at, Laid(t, at), NEW o, NEW d, NEW bits, IsTrailer(t, at, o, d, bits)
  PROVE  /\ o \in Nat /\ EndOff(t, at) = o + 6 + Len(bits)
         /\ o + 1 <= Len(file) => file[o + 1] = bloomTrailerMagic
         /\ o + 2 <= Len(file) => file[o + 2] = 1
         /\ \A x \in 1 .. Len(d) : o + 2 + x <= Len(file) => file[o + 2 + x] = d[x]
<1>1. PICK w : w = WriteChunks(t)
  OBVIOUS
<1>2. PICK n, f : n = Len(t.Columns) /\ f = Before(t)
  OBVIOUS
<1>3. t.bloom # NoFilter /\ d = MarshalBinary(t.bloom) /\ WellFormed(t)
  BY DEF IsTrailer, Marshals
<1>4. PICK b : b = f + 5 * n
  OBVIOUS
<1>5. /\ n \in Nat /\ f \in {3, 5} /\ Len(w) = b + Behind(t)
      /\ w[b + 1] = <<bloomTrailerMagic>> /\ w[b + 2] = <<1>> /\ w[b + 3] = d
  BY <1>1, <1>2, <1>3, <1>4, Writes
<1>6. b \in Nat /\ Len(w) = b + 3 /\ o = at[b]
  <2>1. Behind(t) = 3
    BY <1>3 DEF Behind
  <2>2. b \in Nat /\ f + 5 * ((n + 1) - 1) = b
    BY <1>4, <1>5
  <2>3. o = at[b]
    BY <1>2, <2>2 DEF IsTrailer, ColumnOff
  <2> QED
    BY <1>5, <2>1, <2>2, <2>3
<1>7. Len(bits) \in Nat /\ Len(d) = 4 + Len(bits)
  <2>1. bits \in Seq(Nat) /\ Len(d) = 4 + Len(bits)
    BY FilterCells DEF IsTrailer
  <2> QED
    BY <2>1
<1>8. o \in Nat /\ at[b + 1] = o + 1 /\ (o + 1 <= Len(file) => file[o + 1] = bloomTrailerMagic)
  <2>1. PICK k, e, c : k = b + 1 /\ e = at[b + 1] /\ c = w[b + 1]
    OBVIOUS
  <2>2. /\ k \in 1 .. Len(w) /\ o = at[k - 1] /\ e = at[k] /\ c = w[k]
        /\ Len(c) = 1 /\ c[1] = bloomTrailerMagic
    BY <1>5, <1>6, <2>1
  <2>3. o \in Nat /\ e = o + 1 /\ (e <= Len(file) => file[e] = bloomTrailerMagic)
    <3>1. IsCell(t, at, k, o, e, c)
      BY <1>1, <2>2 DEF IsWrite, IsCell
    <3> QED
      BY <2>2, <3>1, CellLaid
  <2> QED
    BY <2>1, <2>3
<1>9. at[b + 2] = o + 2 /\ (o + 2 <= Len(file) => file[o + 2] = 1)
  <2>1. PICK k, s, e, c : k = b + 2 /\ s = at[b + 1] /\ e = at[b + 2] /\ c = w[b + 2]
    OBVIOUS
  <2>2. k \in 1 .. Len(w) /\ s = at[k - 1] /\ e = at[k] /\ c = w[k] /\ Len(c) = 1 /\ c[1] = 1
    BY <1>5, <1>6, <2>1
  <2>3. s \in Nat /\ e = s + 1 /\ (e <= Len(file) => file[e] = 1)
    <3>1. IsCell(t, at, k, s, e, c)
      BY <1>1, <2>2 DEF IsWrite, IsCell
    <3> QED
      BY <2>2, <3>1, CellLaid
  <2>4. e = o + 2
    BY <1>8, <2>1, <2>3
  <2> QED
    BY <2>1, <2>3, <2>4
<1>10. /\ at[b + 3] = o + 2 + Len(d)
       /\ \A x \in 1 .. Len(d) : o + 2 + x <= Len(file) => file[o + 2 + x] = d[x]
  <2>1. PICK k, s, e : k = b + 3 /\ s = at[b + 2] /\ e = at[b + 3]
    OBVIOUS
  <2>2. k \in 1 .. Len(w) /\ s = at[k - 1] /\ e = at[k] /\ d = w[k]
    BY <1>5, <1>6, <2>1
  <2>3. /\ e = s + Len(d)
        /\ \A x \in 1 .. Len(d) : s + x <= Len(file) => file[s + x] = d[x]
    <3>1. IsWrite(t, at, k, s, e, d)
      BY <1>1, <2>2 DEF IsWrite
    <3> QED
      BY <2>2, <3>1, WriteLaid
  <2>4. s = o + 2
    BY <1>9, <2>1
  <2> QED
    BY <2>1, <2>3, <2>4
<1>11. EndOff(t, at) = o + 6 + Len(bits)
  <2>1. EndOff(t, at) = at[b + 3]
    BY <1>1, <1>6 DEF EndOff
  <2>2. o + 2 + (4 + Len(bits)) = o + 6 + Len(bits)
    BY <1>7, <1>8
  <2> QED
    BY <1>7, <1>10, <2>1, <2>2
<1> QED
  BY <1>8, <1>9, <1>10, <1>11

\* A complete file ends with the trailer, and its filter is the table's.
LEMMA TrailerHeld ==
  ASSUME NEW t, NEW at, Laid(t, at), NEW o, NEW d, NEW bits, IsTrailer(t, at, o, d, bits),
         Len(file) = EndOff(t, at)
  PROVE  /\ Have(o, 2) /\ file[o + 1] = bloomTrailerMagic /\ file[o + 2] = 1
         /\ ValidFilter(SubSeq(file, o + 3, Len(file)))
         /\ UnmarshalBinary(SubSeq(file, o + 3, Len(file))) = t.bloom
<1>1. WellFormed(t) /\ t.bloom # NoFilter /\ d = MarshalBinary(t.bloom) /\ file \in Seq(Nat)
  BY DEF IsTrailer, Marshals, Laid
<1>2. d \in Seq(Nat) /\ bits \in Seq(Nat) /\ Len(d) = 4 + Len(bits)
  BY FilterCells DEF IsTrailer
<1>3. /\ o \in Nat /\ EndOff(t, at) = o + 6 + Len(bits)
      /\ o + 1 <= Len(file) => file[o + 1] = bloomTrailerMagic
      /\ o + 2 <= Len(file) => file[o + 2] = 1
      /\ \A x \in 1 .. Len(d) : o + 2 + x <= Len(file) => file[o + 2 + x] = d[x]
  BY TrailerLaid
<1>4. PICK n \in Nat : n = Len(bits)
  BY <1>2
<1>5. PICK l \in Nat : l = Len(file)
  BY <1>1
<1>6. l = o + 6 + n /\ o \in Nat
  BY <1>3, <1>4, <1>5
<1>7. Have(o, 2) /\ o + 1 <= l /\ o + 2 <= l
  BY <1>5, <1>6 DEF Have
<1>8. file[o + 1] = bloomTrailerMagic /\ file[o + 2] = 1
  BY <1>3, <1>5, <1>7
<1>9. SubSeq(file, o + 3, Len(file)) = d
  <2>1. PICK b \in Nat : b = o + 2
    BY <1>3
  <2>2. b + Len(d) = l /\ b + 1 = o + 3
    BY <1>2, <1>4, <1>6, <2>1
  <2>3. ASSUME NEW x \in 1 .. Len(d) PROVE file[b + x] = d[x]
    <3>1. b + x <= l
      BY <1>2, <1>4, <1>5, <2>2
    <3> QED
      BY <1>3, <1>5, <2>1, <3>1
  <2>4. file \in Seq(Nat) /\ d \in Seq(Nat) /\ b + Len(d) <= Len(file)
    BY <1>1, <1>2, <1>5, <2>2
  <2>5. SubSeq(file, b + 1, b + Len(d)) = d
    BY <2>3, <2>4, CellsRead
  <2> QED
    BY <1>5, <2>2, <2>5
<1>10. ValidFilter(d) /\ UnmarshalBinary(d) = t.bloom
  BY <1>1, FilterBack
<1> QED
  BY <1>7, <1>8, <1>9, <1>10

\* A filter that is valid ends where the writes do.
LEMMA FilterTellsEnd ==
  ASSUME NEW t, NEW at, Laid(t, at), NEW o, NEW d, NEW bits, IsTrailer(t, at, o, d, bits),
         Have(o, 2), ValidFilter(SubSeq(file, o + 3, Len(file)))
  PROVE  Len(file) = EndOff(t, at)
<1>1. /\ d \in Seq(Nat) /\ bits \in Seq(Nat) /\ Len(d) = 4 + Len(bits) /\ d[4] = Len(bits)
  BY FilterCells DEF IsTrailer
<1>2. /\ o \in Nat /\ EndOff(t, at) = o + 6 + Len(bits)
      /\ \A x \in 1 .. Len(d) : o + 2 + x <= Len(file) => file[o + 2 + x] = d[x]
  BY TrailerLaid
<1>3. file \in Seq(Nat) /\ Len(file) \in Nat
  BY DEF Laid
<1>4. PICK l \in Nat : l = Len(file)
  BY <1>3
<1>5. PICK m \in Nat \ {0} : m = o + 3
  BY <1>2
<1>6. l >= o + 2
  BY <1>2, <1>4 DEF Have
<1>7. PICK u : Cut(file, m, l, u)
  BY DEF Cut
<1>8. /\ u \in Seq(Nat) /\ Len(u) = (l - m) + 1
      /\ \A x \in 1 .. ((l - m) + 1) : u[x] = file[(m + x) - 1]
  <2>1. l <= Len(file) /\ m <= l + 1
    BY <1>2, <1>4, <1>5, <1>6
  <2>2. PICK g : g = file
    OBVIOUS
  <2>3. g \in Seq(Nat) /\ l <= Len(g) /\ m <= l + 1 /\ Cut(g, m, l, u)
    BY <1>3, <1>7, <2>1, <2>2
  <2>4. /\ u \in Seq(Nat) /\ Len(u) = (l - m) + 1
        /\ \A x \in 1 .. ((l - m) + 1) : u[x] = g[(m + x) - 1]
    BY <2>3, CellsCut
  <2> QED
    BY <2>2, <2>4
<1>9. Len(u) >= 4 /\ u[4] = Len(u) - 4
  <2>1. u = SubSeq(file, o + 3, Len(file))
    BY <1>4, <1>5, <1>7 DEF Cut
  <2>2. ValidFilter(u)
    BY <2>1
  <2> QED
    BY <2>2 DEF ValidFilter
<1>10. Len(u) + o + 2 = l
  <2>1. PICK p : p = Len(u)
    OBVIOUS
  <2>2. p = (l - m) + 1
    BY <1>8, <2>1
  <2>3. o \in Nat
    BY <1>2
  <2>4. p + o + 2 = l
    BY <1>5, <1>6, <2>2, <2>3
  <2> QED
    BY <2>1, <2>4
<1>11. u[4] = file[o + 6]
  <2>1. 4 \in 1 .. ((l - m) + 1)
    BY <1>8, <1>9
  <2>2. u[4] = file[(m + 4) - 1]
    BY <1>8, <2>1
  <2>3. (m + 4) - 1 = o + 6
    BY <1>2, <1>5
  <2> QED
    BY <2>2, <2>3
<1>12. file[o + 6] = d[4]
  <2>1. PICK x : x = 4
    OBVIOUS
  <2>2. x \in 1 .. Len(d) /\ o + 2 + x = o + 6
    BY <1>1, <1>2, <2>1
  <2>3. o + 2 + x <= Len(file)
    BY <1>2, <1>4, <1>8, <1>9, <1>10, <2>2
  <2>4. file[o + 2 + x] = d[x]
    BY <1>2, <2>2, <2>3
  <2> QED
    BY <2>1, <2>2, <2>4
<1>13. PICK k \in Nat : k = Len(bits)
  BY <1>1
<1>14. k = Len(u) - 4
  BY <1>1, <1>9, <1>11, <1>12, <1>13
<1>15. l = o + 6 + k
  BY <1>2, <1>8, <1>10, <1>14
<1> QED
  BY <1>2, <1>4, <1>13, <1>15

-----------------------------------------------------------------------------
(* What is on disk.                                                        *)

\* Every write from the k-th on is empty.
Spent(w, k) == \A j \in k .. Len(w) : w[j] = <<>>

\* The first k writes end where all do when the others are empty, and only then.
LEMMA SpentEnds ==
  ASSUME NEW w \in Seq(Cells), NEW at, Ends(at, w), NEW k \in 0 .. Len(w)
  PROVE  at[k] = at[Len(w)] <=> Spent(w, k + 1)
<1>1. at \in [Nat -> Nat] /\ Len(w) \in Nat
  BY DEF Ends
<1>2. ASSUME NEW j \in 1 .. Len(w)
      PROVE  /\ w[j] \in Seq(Nat) /\ Len(w[j]) \in Nat
             /\ at[j] = at[j - 1] + Len(w[j]) /\ at[j] \in Nat /\ at[j - 1] \in Nat
  <2>1. w[j] \in Cells
    BY ElementOfSeq
  <2>2. at[j] = at[j - 1] + Len(w[j])
    BY DEF Ends
  <2>3. j \in Nat /\ j - 1 \in Nat
    BY <1>1
  <2>4. w[j] \in Seq(Nat) /\ Len(w[j]) \in Nat
    BY <2>1 DEF Cells
  <2>5. at[j] \in Nat /\ at[j - 1] \in Nat
    BY <1>1, <2>3
  <2> QED
    BY <2>2, <2>4, <2>5
<1>3. ASSUME at[k] = at[Len(w)], NEW j \in (k + 1) .. Len(w)
      PROVE  w[j] = <<>>
  <2>1. j \in 1 .. Len(w) /\ k <= j - 1 /\ j - 1 \in 0 .. Len(w) /\ j \in Nat /\ k \in Nat
    BY <1>1
  <2>2. PICK m : m = Len(w)
    OBVIOUS
  <2>3. m \in 0 .. Len(w) /\ j <= m
    BY <1>1, <2>2
  <2>4. at[k] <= at[j - 1]
    BY <2>1, EndsGrow
  <2>5. at[j] <= at[m]
    BY <2>1, <2>3, EndsGrow
  <2>6. at[k] \in Nat /\ at[m] = at[k]
    BY <1>1, <1>3, <2>1, <2>2
  <2>7. Len(w[j]) = 0
    BY <1>2, <2>1, <2>4, <2>5, <2>6
  <2> QED
    BY <1>2, <2>1, <2>7
<1>4. ASSUME Spent(w, k + 1)
      PROVE  at[k] = at[Len(w)]
  <2> DEFINE S == { d \in Nat : k + d <= Len(w) => at[k + d] = at[k] }
  <2>1. 0 \in S
    BY <1>1
  <2>2. ASSUME NEW d \in S PROVE d + 1 \in S
    <3> SUFFICES ASSUME k + (d + 1) <= Len(w) PROVE at[k + (d + 1)] = at[k]
      OBVIOUS
    <3>1. PICK j : j = k + (d + 1)
      OBVIOUS
    <3>2. /\ j \in 1 .. Len(w) /\ j \in (k + 1) .. Len(w) /\ j - 1 = k + d
          /\ k + d <= Len(w)
      BY <1>1, <3>1
    <3>3. w[j] = <<>>
      BY <1>4, <3>2 DEF Spent
    <3>4. Len(w[j]) = 0
      BY <3>3
    <3>5. at[j] = at[k + d]
      BY <1>2, <3>2, <3>4
    <3> QED
      BY <3>1, <3>2, <3>5
  <2>3. S = Nat
    <3> HIDE DEF S
    <3>1. S \in SUBSET Nat
      BY DEF S
    <3> QED
      BY <2>1, <2>2, <3>1, SetInduction
  <2>4. PICK d \in Nat : k + d = Len(w)
    <3>1. Len(w) - k \in Nat /\ k + (Len(w) - k) = Len(w)
      BY <1>1
    <3> QED
      BY <3>1
  <2>5. d \in S
    <3> HIDE DEF S
    <3> QED
      BY <2>3
  <2>6. k + d <= Len(w)
    BY <1>1, <2>4
  <2>7. at[k + d] = at[k]
    BY <2>5, <2>6
  <2> QED
    BY <2>4, <2>7
<1> QED
  BY <1>3, <1>4 DEF Spent

\* A file that WriteSegment writes is at every moment a beginning of what the
\* writes put there, and all of it when what is left to write is empty.
OnDisk ==
  writer # "foreign" =>
    /\ source \in Tables
    /\ \E at : /\ Laid(source, at)
               /\ writer = "writing" => Len(file) = at[written]
               /\ writer # "writing" =>
                    /\ Len(file) <= EndOff(source, at)
                    /\ Len(file) = EndOff(source, at) <=> Complete

\* A complete file ends where the writes do.
LEMMA CompleteEnds ==
  ASSUME OnDisk, Complete
  PROVE  \E at : Laid(source, at) /\ Len(file) = EndOff(source, at)
BY DEF OnDisk, Complete

LEMMA OnDiskInit == Init => OnDisk
<1> SUFFICES ASSUME Init, writer # "foreign" PROVE OnDisk
  BY DEF OnDisk
<1>1. source \in Tables /\ writer = "writing" /\ file = <<>> /\ written = 0
  BY DEF Init
<1>2. WellFormed(source)
  BY <1>1, CellAssumption
<1>3. PICK w : w = WriteChunks(source)
  OBVIOUS
<1>4. w \in Seq(Cells)
  BY <1>2, <1>3, Writes
<1>5. PICK at : Ends(at, w)
  BY <1>4, EndsExist
<1>6. at \in [Nat -> Nat] /\ at[0] = 0 /\ Len(w) \in Nat
  <2>1. at \in [Nat -> Nat] /\ at[0] = 0
    BY <1>5 DEF Ends
  <2>2. Len(w) \in Nat
    BY <1>4, LenProperties
  <2> QED
    BY <2>1, <2>2
<1>7. file \in Seq(Nat) /\ Len(file) = 0
  BY <1>1
<1>8. Begun(at, w, file)
  <2>1. Len(file) <= at[Len(w)]
    <3>1. at[Len(w)] \in Nat
      BY <1>6
    <3> QED
      BY <1>7, <3>1
  <2>2. ASSUME NEW k \in 1 .. Len(w), NEW x \in 1 .. Len(w[k])
        PROVE  ~(at[k - 1] + x <= Len(file))
    <3>1. w[k] \in Cells
      BY <1>4, ElementOfSeq
    <3>2. x \in Nat /\ x >= 1
      BY <3>1 DEF Cells
    <3>3. at[k - 1] \in Nat
      <4>1. k - 1 \in Nat
        BY <1>6
      <4> QED
        BY <1>6, <4>1
    <3> QED
      BY <1>7, <3>2, <3>3
  <2> QED
    BY <2>1, <2>2 DEF Begun
<1>9. Laid(source, at)
  BY <1>2, <1>3, <1>5, <1>7, <1>8 DEF Laid
<1> QED
  BY <1>1, <1>6, <1>7, <1>9 DEF OnDisk

\* A write, or the part of one that gets through, goes where it belongs.
LEMMA OnDiskGrows ==
  ASSUME SegInv, OnDisk, writer = "writing", UNCHANGED source,
         NEW n \in 0 .. Len(NextChunk), file' = file \o SubSeq(NextChunk, 1, n),
         NEW at, Laid(source, at), Len(file) = at[written]
  PROVE  /\ Laid(source, at)' /\ Len(file') = at[written] + n
         /\ at[written] \in Nat /\ at[written + 1] = at[written] + Len(NextChunk)
         /\ at[written + 1] <= EndOff(source, at) /\ EndOff(source, at) \in Nat
<1>1. PICK w : w = WriteChunks(source)
  OBVIOUS
<1>2. /\ WellFormed(source) /\ file \in Seq(Nat) /\ Ends(at, w) /\ Begun(at, w, file)
      /\ written \in 0 .. (Len(w) - 1)
  BY <1>1 DEF Laid, SegInv, Stored
<1>3. w \in Seq(Cells) /\ Len(w) \in Nat
  <2>1. w \in Seq(Cells)
    BY <1>1, <1>2, Writes
  <2> QED
    BY <2>1, LenProperties
<1>4. PICK k : k = written + 1
  OBVIOUS
<1>5. k \in 1 .. Len(w) /\ k - 1 = written /\ NextChunk = w[k]
  <2>1. NextChunk = w[k]
    BY <1>1, <1>4 DEF NextChunk
  <2> QED
    BY <1>2, <1>3, <1>4, <2>1
<1>6. PICK p, g : p = SubSeq(NextChunk, 1, n) /\ g = file'
  OBVIOUS
<1>7. /\ Cut(w[k], 1, n, p) /\ Joined(file, p, g) /\ n \in 0 .. Len(w[k])
      /\ Len(file) = at[k - 1]
  BY <1>5, <1>6 DEF Cut, Joined
<1>8. g \in Seq(Nat) /\ Len(g) = at[k - 1] + n /\ Begun(at, w, g)
  BY <1>2, <1>3, <1>5, <1>7, WriteGrows
<1>9. Laid(source, at)'
  BY <1>1, <1>2, <1>6, <1>8 DEF Laid
<1>10. at \in [Nat -> Nat] /\ at[k] = at[k - 1] + Len(w[k])
  BY <1>2, <1>5 DEF Ends
<1>11. at[k] <= EndOff(source, at) /\ EndOff(source, at) \in Nat
  <2>1. PICK m : m = Len(w)
    OBVIOUS
  <2>2. k \in Nat /\ m \in 0 .. Len(w) /\ k <= m /\ m \in Nat
    BY <1>3, <1>5, <2>1
  <2>3. at[k] <= at[m]
    BY <1>2, <1>3, <2>2, EndsGrow
  <2>4. EndOff(source, at) = at[m]
    BY <1>1, <2>1 DEF EndOff
  <2> QED
    BY <1>10, <2>2, <2>3, <2>4
<1>12. at[written] \in Nat
  BY <1>2, <1>3, <1>10
<1> QED
  BY <1>4, <1>5, <1>6, <1>8, <1>9, <1>10, <1>11, <1>12

\* Once the writer is through, the file is only read.
LEMMA OnlyReads ==
  ASSUME [Next]_vars, ~(WriteChunk \/ WriteFails)
  PROVE  UNCHANGED writerVars
<1>1. Scan => UNCHANGED writerVars
  BY DEF Scan, ScanHeader, ScanFlags, ScanPKName, ScanColumnMeta, ScanDone, Fail, Panic, Proceed
<1>2. ReadHeader \/ ReadFlags \/ ReadPKName => UNCHANGED writerVars
  BY DEF ReadHeader, ReadFlags, ReadPKName, Fail, Proceed
<1>3. ReadColumnMeta \/ ReadTrailer \/ NoTrailer => UNCHANGED writerVars
  BY DEF ReadColumnMeta, ReadTrailer, NoTrailer, Fail, Open, Proceed
<1>4. StartReader \/ ReadAColumn \/ Inspect => UNCHANGED writerVars
  BY DEF StartReader, ReadAColumn, ReadColumn, Inspect
<1>5. UNCHANGED vars => UNCHANGED writerVars
  BY DEF vars, writerVars
<1> QED
  BY <1>1, <1>2, <1>3, <1>4, <1>5 DEF Next, Scan

LEMMA OnDiskStep == SegInv /\ OnDisk /\ [Next]_vars => OnDisk'
<1> SUFFICES ASSUME SegInv, OnDisk, [Next]_vars PROVE OnDisk'
  OBVIOUS
<1>1. CASE WriteChunk \/ WriteFails
  <2>1. writer = "writing" /\ UNCHANGED source /\ source \in Tables
    BY <1>1 DEF WriteChunk, WriteFails, SegInv, Stored
  <2>2. PICK at : Laid(source, at) /\ Len(file) = at[written]
    BY <2>1 DEF OnDisk
  <2>3. /\ NextChunk \in Seq(Nat) /\ Len(NextChunk) \in Nat /\ written \in Nat
    <3>1. PICK w : w = WriteChunks(source)
      OBVIOUS
    <3>2. w \in Seq(Cells)
      BY <2>1, <3>1, CellAssumption, Writes
    <3>3. Len(w) \in Nat
      BY <3>2, LenProperties
    <3>4. written \in 0 .. (Len(w) - 1)
      BY <2>1, <3>1 DEF SegInv, Stored
    <3>5. written + 1 \in 1 .. Len(w)
      BY <3>3, <3>4
    <3>6. NextChunk \in Cells
      BY <3>1, <3>2, <3>5, ElementOfSeq DEF NextChunk
    <3> QED
      BY <3>4, <3>6 DEF Cells
  <2>4. CASE WriteChunk
    <3>1. /\ file' = file \o NextChunk /\ written' = written + 1
          /\ writer' = IF written' = Len(WriteChunks(source)) THEN "done" ELSE "writing"
      BY <2>4 DEF WriteChunk
    <3>2. PICK n : n = Len(NextChunk)
      OBVIOUS
    <3>3. n \in 0 .. Len(NextChunk) /\ file' = file \o SubSeq(NextChunk, 1, n)
      BY <2>3, <3>1, <3>2, SubSeqFull
    <3>4. Laid(source, at)' /\ Len(file') = at[written'] /\ Len(file') \in Nat
      <4>1. /\ Laid(source, at)' /\ Len(file') = at[written] + n /\ at[written] \in Nat
            /\ at[written + 1] = at[written] + Len(NextChunk)
        BY <2>1, <2>2, <3>3, OnDiskGrows
      <4> QED
        BY <2>3, <3>1, <3>2, <4>1
    <3>5. written' = Len(WriteChunks(source)) => at[written'] = EndOff(source, at)
      BY DEF EndOff
    <3>6. EndOff(source, at)' = EndOff(source, at) /\ WriteChunks(source)' = WriteChunks(source)
      BY <2>1 DEF EndOff
    <3>7. CASE writer' = "done"
      <4>1. written' = Len(WriteChunks(source)')
        BY <3>1, <3>6, <3>7
      <4>2. Complete'
        BY <2>3, <3>1, <3>7, <4>1 DEF Complete
      <4>3. Len(file') = EndOff(source, at)'
        BY <3>4, <3>5, <3>6, <4>1
      <4> QED
        BY <2>1, <3>4, <3>7, <4>2, <4>3 DEF OnDisk
    <3>8. CASE writer' = "writing"
      BY <2>1, <3>4, <3>8 DEF OnDisk
    <3> QED
      BY <3>1, <3>7, <3>8
  <2>5. CASE WriteFails
    <3>1. writer' = "failed" /\ UNCHANGED written
      BY <2>5 DEF WriteFails
    <3>2. PICK n \in {0} \cup 1 .. (Len(NextChunk) - 1) : file' = file \o SubSeq(NextChunk, 1, n)
      BY <2>5 DEF WriteFails
    <3>3. n \in 0 .. Len(NextChunk) /\ n \in Nat /\ (n = 0 \/ n < Len(NextChunk))
      BY <2>3
    <3>4. /\ Laid(source, at)' /\ Len(file') = at[written] + n /\ at[written] \in Nat
          /\ at[written + 1] = at[written] + Len(NextChunk)
          /\ at[written + 1] <= EndOff(source, at) /\ EndOff(source, at) \in Nat
      BY <2>1, <2>2, <3>2, <3>3, OnDiskGrows
    <3>5. EndOff(source, at)' = EndOff(source, at) /\ WriteChunks(source)' = WriteChunks(source)
      BY <2>1 DEF EndOff
    <3>6. Complete' <=> Spent(WriteChunks(source), written + 1)
      BY <3>1, <3>5 DEF Complete, Spent
    <3>7. at[written] = EndOff(source, at) <=> Spent(WriteChunks(source), written + 1)
      <4>1. PICK w : w = WriteChunks(source)
        OBVIOUS
      <4>2. w \in Seq(Cells) /\ Ends(at, w)
        BY <2>1, <2>2, <4>1, CellAssumption, Writes DEF Laid
      <4>3. PICK k : k = written
        OBVIOUS
      <4>4. k \in 0 .. Len(w)
        <5>1. Len(w) \in Nat /\ written \in 0 .. (Len(w) - 1)
          BY <2>1, <4>1, <4>2, LenProperties DEF SegInv, Stored
        <5> QED
          BY <4>3, <5>1
      <4>5. at[k] = at[Len(w)] <=> Spent(w, k + 1)
        BY <4>2, <4>4, SpentEnds
      <4> QED
        BY <4>1, <4>3, <4>5 DEF EndOff
    <3>8. Len(file') <= EndOff(source, at)
      BY <2>3, <3>3, <3>4
    <3>9. Len(file') = EndOff(source, at) <=> Complete'
      <4>1. CASE n = 0
        BY <3>4, <3>6, <3>7, <4>1
      <4>2. CASE n # 0
        <5>1. Len(file') < EndOff(source, at) /\ at[written] < EndOff(source, at)
          BY <2>3, <3>3, <3>4, <4>2
        <5> QED
          BY <3>4, <3>6, <3>7, <5>1
      <4> QED
        BY <4>1, <4>2
    <3> QED
      BY <2>1, <3>1, <3>4, <3>5, <3>8, <3>9 DEF OnDisk
  <2> QED
    BY <1>1, <2>4, <2>5
<1>2. CASE UNCHANGED writerVars
  <2>1. UNCHANGED <<source, written, writer, file>>
    BY <1>2 DEF writerVars
  <2>2. ASSUME NEW at
        PROVE  (Laid(source, at)' <=> Laid(source, at)) /\ EndOff(source, at)' = EndOff(source, at)
    BY <2>1 DEF Laid, EndOff
  <2>3. Complete' <=> Complete
    BY <2>1 DEF Complete
  <2> QED
    BY <2>1, <2>2, <2>3 DEF OnDisk
<1> QED
  BY <1>1, <1>2, OnlyReads

-----------------------------------------------------------------------------
(* What has been read.                                                     *)

BlocksHere == { BlockAt(o) : o \in Nat }

\* The blocks of the columns that the walk s goes over.
Along(s, blocks) ==
  /\ blocks \in Seq(BlocksHere) /\ Len(s) = Len(blocks) + 1
  /\ \A i \in 1 .. Len(blocks) : blocks[i] = BlockAt(s[i])

\* The filter of an opened file: the trailer's, if there is one.
FilterRead ==
  IF file[2] = 2 /\ hasBloom(file[6])
  THEN Have(off, 2) /\ ValidFilter(TrailerBody) /\ seg.bloom = UnmarshalBinary(TrailerBody)
  ELSE seg.bloom = NoFilter

\* What OpenSegment has read in each phase, beyond what both readers read.
Told ==
  reader = "open" =>
    /\ phase \in {"header", "flags", "pkName"} => seg.blocks = <<>>
    /\ phase \in {"header", "flags", "pkName", "columns"} => seg.bloom = NoFilter
    /\ phase \in {"flags", "pkName", "columns", "opened"} => seg.version = file[2]
    /\ phase \in {"pkName", "columns", "opened"} /\ file[2] = 2 => seg.flags = file[6]
    /\ phase \in {"columns", "opened"} =>
         \E s : Reads(s, seg.Columns) /\ off = s[Len(s)] /\ Along(s, seg.blocks)
    /\ phase = "opened" => FilterRead

\* OpenSegment never goes astray.
LEMMA OpenOnCourse ==
  ASSUME SegInv, reader = "open"
  PROVE  Progress
BY OnCourse DEF Astray

\* What is read stays while the file does.
LEMMA AlongStays ==
  ASSUME UNCHANGED file, NEW s, NEW b, Along(s, b)
  PROVE  Along(s, b)'
<1>1. \A o : BlockAt(o)' = BlockAt(o)
  BY DEF BlockAt, EncodingTag, PayloadOff, PayloadLen, NameEnd
<1>2. BlocksHere' = BlocksHere
  BY <1>1 DEF BlocksHere
<1> QED
  BY <1>1, <1>2 DEF Along

\* The blocks go on with the walk.
LEMMA AlongGoesOn ==
  ASSUME NEW s \in Seq(Nat), NEW b, Along(s, b), NEW e \in Nat, NEW w, w = Append(s, e),
         NEW c, c = Append(b, BlockAt(s[Len(s)]))
  PROVE  Along(w, c)
<1>1. b \in Seq(BlocksHere) /\ Len(s) = Len(b) + 1 /\ Len(b) \in Nat
  BY DEF Along
<1>2. BlockAt(s[Len(s)]) \in BlocksHere
  <2>1. s[Len(s)] \in Nat
    BY <1>1
  <2> QED
    BY <2>1 DEF BlocksHere
<1>3. PICK x : x = BlockAt(s[Len(s)])
  OBVIOUS
<1>4. /\ c \in Seq(BlocksHere) /\ Len(c) = Len(b) + 1 /\ c[Len(b) + 1] = x
      /\ \A i \in 1 .. Len(b) : c[i] = b[i]
  BY <1>1, <1>2, <1>3
<1>5. Len(w) = Len(s) + 1 /\ \A i \in 1 .. Len(s) : w[i] = s[i]
  BY <1>1
<1>6. ASSUME NEW i \in 1 .. Len(c)
      PROVE  c[i] = BlockAt(w[i])
  <2>1. CASE i = Len(s)
    BY <1>1, <1>3, <1>4, <1>5, <2>1
  <2>2. CASE i # Len(s)
    <3>1. i \in 1 .. Len(b) /\ i \in 1 .. Len(s)
      BY <1>1, <1>4, <2>2
    <3>2. b[i] = BlockAt(s[i])
      BY <3>1 DEF Along
    <3> QED
      BY <1>4, <1>5, <3>1, <3>2
  <2> QED
    BY <2>1, <2>2
<1> QED
  BY <1>1, <1>4, <1>5, <1>6 DEF Along

\* Where the columns begin none has been read.
LEMMA ToldBegins ==
  ASSUME PreludeFits, file \in Seq(Nat), NEW s, Proceed("columns", Begin, s),
         s.Columns = <<>>, s.blocks = <<>>, s.bloom = NoFilter, s.version = file[2],
         file[2] = 2 => s.flags = file[6]
  PROVE  Told'
<1>1. UNCHANGED file /\ phase' = "columns" /\ off' = Begin /\ seg' = s
  BY DEF Proceed, writerVars
<1>2. Begin \in Nat
  <2>1. Begin \in 0 .. Len(file)
    BY BeginsInside
  <2> QED
    BY <2>1
<1>3. PICK w : w = <<Begin>>
  OBVIOUS
<1>4. Reads(w, s.Columns)
  BY <1>2, <1>3, WalkStarts
<1>5. Along(w, s.blocks)
  BY <1>3 DEF Along
<1>6. off' = w[Len(w)]
  BY <1>1, <1>3
<1>7. Reads(w, seg.Columns)' /\ Along(w, seg.blocks)'
  <2>1. Reads(w, s.Columns)'
    BY <1>1, <1>4, FileStays
  <2>2. Along(w, s.blocks)'
    BY <1>1, <1>5, AlongStays
  <2> QED
    BY <1>1, <2>1, <2>2
<1>8. \E v : Reads(v, seg.Columns)' /\ off' = v[Len(v)] /\ Along(v, seg.blocks)'
  BY <1>6, <1>7
<1> QED
  BY <1>1, <1>8 DEF Told

\* The next column, with its block.
LEMMA ToldColumn ==
  ASSUME SegInv, Told, reader = "open", phase = "columns", ColumnFits(off), NEW t,
         t.Columns = Append(seg.Columns, ColumnAt(off)),
         t.blocks = Append(seg.blocks, BlockAt(off)),
         t.bloom = seg.bloom, t.version = seg.version, t.flags = seg.flags,
         Proceed("columns", ColumnEnd(off), t)
  PROVE  Told'
<1>1. UNCHANGED file /\ phase' = "columns" /\ off' = ColumnEnd(off) /\ seg' = t
  BY DEF Proceed, writerVars
<1>2. PICK s : Reads(s, seg.Columns) /\ off = s[Len(s)] /\ Along(s, seg.blocks)
  BY DEF Told
<1>3. s \in Seq(Nat) /\ s # <<>> /\ file \in Seq(Nat) /\ off \in 0 .. Len(file)
  BY <1>2 DEF Reads, Walk, SegInv, Stored
<1>4. PICK e : e = ColumnEnd(off)
  OBVIOUS
<1>5. e \in Nat
  <2>1. off \in Nat
    BY <1>3
  <2>2. ColumnEnd(off) \in 0 .. Len(file)
    BY <1>3, <2>1, EndsInside
  <2> QED
    BY <1>4, <2>2
<1>6. PICK w : w = Append(s, e)
  OBVIOUS
<1>7. Reads(w, t.Columns)
  <2>1. Reads(Append(s, ColumnEnd(off)), Append(seg.Columns, ColumnAt(off)))
    BY <1>2, <1>4, <1>5, WalkGoesOn
  <2> QED
    BY <1>4, <1>6, <2>1
<1>8. Along(w, t.blocks)
  <2>1. t.blocks = Append(seg.blocks, BlockAt(s[Len(s)]))
    BY <1>2
  <2> QED
    BY <1>2, <1>3, <1>5, <1>6, <2>1, AlongGoesOn
<1>9. off' = w[Len(w)]
  BY <1>1, <1>3, <1>4, <1>5, <1>6
<1>10. Reads(w, seg.Columns)' /\ Along(w, seg.blocks)'
  <2>1. Reads(w, t.Columns)'
    BY <1>1, <1>7, FileStays
  <2>2. Along(w, t.blocks)'
    BY <1>1, <1>8, AlongStays
  <2> QED
    BY <1>1, <2>1, <2>2
<1>11. \E v : Reads(v, seg.Columns)' /\ off' = v[Len(v)] /\ Along(v, seg.blocks)'
  BY <1>9, <1>10
<1> QED
  BY <1>1, <1>11 DEF Told

\* A segment that is returned is what has been read.
LEMMA ToldOpens ==
  ASSUME SegInv, Told, reader = "open", phase = "columns", NEW s, Open(s),
         s.Columns = seg.Columns, s.blocks = seg.blocks, s.version = seg.version,
         s.flags = seg.flags,
         IF file[2] = 2 /\ hasBloom(file[6])
         THEN Have(off, 2) /\ ValidFilter(TrailerBody) /\ s.bloom = UnmarshalBinary(TrailerBody)
         ELSE s.bloom = NoFilter
  PROVE  Told'
<1>1. UNCHANGED <<file, off>> /\ seg' = s /\ phase' = "opened"
  BY DEF Open, writerVars
<1>2. PICK w : Reads(w, seg.Columns) /\ off = w[Len(w)] /\ Along(w, seg.blocks)
  BY DEF Told
<1>3. Reads(w, seg.Columns)' /\ Along(w, seg.blocks)'
  <2>1. Reads(w, s.Columns)' /\ Along(w, s.blocks)'
    BY <1>1, <1>2, FileStays, AlongStays
  <2> QED
    BY <1>1, <2>1
<1>4. \E v : Reads(v, seg.Columns)' /\ off' = v[Len(v)] /\ Along(v, seg.blocks)'
  BY <1>1, <1>2, <1>3
<1>5. FilterRead'
  BY <1>1 DEF FilterRead, Have, TrailerBody
<1>6. seg'.version = file'[2] /\ (file'[2] = 2 => seg'.flags = file'[6])
  BY <1>1 DEF Told
<1> QED
  BY <1>1, <1>4, <1>5, <1>6 DEF Told

LEMMA ToldStep == SegInv /\ Told /\ [Next]_vars => Told'
<1> SUFFICES ASSUME SegInv, Told, [Next]_vars PROVE Told'
  OBVIOUS
<1>1. file \in Seq(Nat) /\ off \in 0 .. Len(file)
  BY DEF SegInv, Stored
<1>2. CASE WriteChunk \/ WriteFails
  <2>1. phase' = "idle"
    BY <1>2 DEF WriteChunk, WriteFails, readerVars, SegInv, Stored
  <2> QED
    BY <2>1 DEF Told
<1>3. CASE StartReader
  BY <1>3 DEF StartReader, Told
<1>4. ASSUME NEW err, Fail(err) PROVE Told'
  BY <1>4 DEF Fail, Told
<1>12. CASE Scan
  BY <1>12, ScanStays DEF Stays, Told
<1>5. CASE ReadHeader
  <2>1. phase = "header" /\ Reading /\ Shaped(seg) /\ seg.blocks = <<>> /\ seg.bloom = NoFilter
        /\ seg.Columns = <<>>
    BY <1>5, OpenOnCourse DEF ReadHeader, Reading, Told, Progress
  <2>2. ASSUME HeaderFits,
               Proceed(IF file[2] = 2 THEN "flags" ELSE "columns", 4,
                       [seg EXCEPT !.version = file[2], !.count = file[3], !.rows = file[4]])
        PROVE  Told'
    <3>1. PICK s : s = [seg EXCEPT !.version = file[2], !.count = file[3], !.rows = file[4]]
      OBVIOUS
    <3>2. /\ s.version = file[2] /\ s.blocks = <<>> /\ s.bloom = NoFilter /\ s.Columns = <<>>
      BY <2>1, <3>1 DEF Shaped
    <3>3. CASE file[2] = 2
      <4>1. UNCHANGED file /\ seg' = s /\ phase' = "flags"
        BY <2>2, <3>1, <3>3 DEF Proceed, writerVars
      <4> QED
        BY <3>2, <4>1 DEF Told
    <3>4. CASE file[2] # 2
      <4>1. PreludeFits /\ Begin = 4
        BY <2>2, <3>4 DEF PreludeFits, Begin
      <4>2. Proceed("columns", Begin, s)
        BY <2>2, <3>1, <3>4, <4>1
      <4> QED
        BY <1>1, <3>2, <3>4, <4>1, <4>2, ToldBegins
    <3> QED
      BY <3>3, <3>4
  <2> QED
    BY <1>4, <1>5, <2>1, <2>2 DEF ReadHeader, HeaderFits
<1>6. CASE ReadFlags
  <2>1. /\ phase = "flags" /\ Reading /\ Shaped(seg) /\ seg.blocks = <<>>
        /\ seg.bloom = NoFilter /\ seg.Columns = <<>> /\ seg.version = file[2]
        /\ off = 4 /\ HeaderFits /\ file[2] = 2
    BY <1>6, OpenOnCourse DEF ReadFlags, Reading, Told, Progress
  <2>2. ASSUME FlagsFit,
               Proceed(IF Keyed THEN "pkName" ELSE "columns", FlagsEnd, [seg EXCEPT !.flags = file[6]])
        PROVE  Told'
    <3>1. PICK s : s = [seg EXCEPT !.flags = file[6]]
      OBVIOUS
    <3>2. /\ s.version = file[2] /\ s.blocks = <<>> /\ s.bloom = NoFilter /\ s.Columns = <<>>
          /\ s.flags = file[6]
      BY <2>1, <3>1 DEF Shaped
    <3>3. CASE Keyed
      <4>1. UNCHANGED file /\ seg' = s /\ phase' = "pkName"
        BY <2>2, <3>1, <3>3 DEF Proceed, writerVars
      <4> QED
        BY <3>2, <4>1 DEF Told
    <3>4. CASE ~Keyed
      <4>1. PreludeFits /\ Begin = FlagsEnd
        BY <2>1, <2>2, <3>4 DEF PreludeFits, Begin
      <4>2. Proceed("columns", Begin, s)
        BY <2>2, <3>1, <3>4, <4>1
      <4> QED
        BY <1>1, <3>2, <4>1, <4>2, ToldBegins
    <3> QED
      BY <3>3, <3>4
  <2>3. off + 1 = 5 /\ off + 2 = 6
    BY <2>1
  <2> QED
    BY <1>4, <1>6, <2>1, <2>2, <2>3 DEF ReadFlags, FlagsFit, FlagsEnd, Keyed
<1>7. CASE ReadPKName
  <2>1. /\ phase = "pkName" /\ Reading /\ Shaped(seg) /\ seg.blocks = <<>>
        /\ seg.bloom = NoFilter /\ seg.Columns = <<>> /\ seg.version = file[2]
        /\ off = FlagsEnd /\ HeaderFits /\ FlagsFit /\ Keyed /\ file[2] = 2 /\ seg.flags = file[6]
    BY <1>7, OpenOnCourse DEF ReadPKName, Reading, Told, Progress
  <2>2. ASSUME NamePresent(off),
               Proceed("columns", NameEnd(off), [seg EXCEPT !.PK = NameAt(off)])
        PROVE  Told'
    <3>1. PICK s : s = [seg EXCEPT !.PK = NameAt(off)]
      OBVIOUS
    <3>2. /\ s.version = file[2] /\ s.blocks = <<>> /\ s.bloom = NoFilter /\ s.Columns = <<>>
          /\ s.flags = file[6]
      BY <2>1, <3>1 DEF Shaped
    <3>3. PreludeFits /\ Begin = NameEnd(off)
      BY <2>1, <2>2 DEF PreludeFits, Begin
    <3>4. Proceed("columns", Begin, s)
      BY <2>2, <3>1, <3>3
    <3> QED
      BY <1>1, <3>2, <3>3, <3>4, ToldBegins
  <2> QED
    BY <1>4, <1>7, <2>1, <2>2 DEF ReadPKName
<1>8. CASE ReadColumnMeta
  <2>1. phase = "columns" /\ reader = "open" /\ Shaped(seg)
    BY <1>8, OpenOnCourse DEF ReadColumnMeta, Reading, Progress
  <2>2. ASSUME ColumnFits(off), NEW c, c = ColumnAt(off), NEW b, b = BlockAt(off), NEW t,
               t = [seg EXCEPT !.Columns = Append(@, c), !.blocks = Append(@, b)],
               Proceed("columns", ColumnEnd(off), t)
        PROVE  Told'
    <3>1. /\ t.Columns = Append(seg.Columns, ColumnAt(off))
          /\ t.blocks = Append(seg.blocks, BlockAt(off))
          /\ t.bloom = seg.bloom /\ t.version = seg.version /\ t.flags = seg.flags
      BY <2>1, <2>2 DEF Shaped
    <3> QED
      BY <2>1, <2>2, <3>1, ToldColumn
  <2>3. ASSUME NEW err \in {"ErrTruncated", "unknown type", "unknown encoding"}, Fail(err)
        PROVE  Told'
    BY <1>4, <2>1, <2>3
  <2> QED
    BY <1>8, <2>2, <2>3 DEF ReadColumnMeta, ColumnFits, ColumnAt, ColumnEnd, BlockAt
<1>9. CASE ReadTrailer
  <2>1. /\ phase = "columns" /\ reader = "open" /\ Shaped(seg)
        /\ file[2] = 2 /\ hasBloom(file[6])
    BY <1>9, OpenOnCourse DEF ReadTrailer, ColumnsDone, WantsTrailer, Reading, Told, Progress
  <2>2. ASSUME Have(off, 2), ValidFilter(TrailerBody),
               Open([seg EXCEPT !.bloom = UnmarshalBinary(TrailerBody)])
        PROVE  Told'
    <3>1. PICK s : s = [seg EXCEPT !.bloom = UnmarshalBinary(TrailerBody)]
      OBVIOUS
    <3>2. /\ s.Columns = seg.Columns /\ s.blocks = seg.blocks /\ s.version = seg.version
          /\ s.flags = seg.flags /\ s.bloom = UnmarshalBinary(TrailerBody)
      BY <2>1, <3>1 DEF Shaped
    <3> QED
      BY <2>1, <2>2, <3>1, <3>2, ToldOpens
  <2> QED
    BY <1>4, <1>9, <2>1, <2>2 DEF ReadTrailer
<1>10. CASE NoTrailer
  <2>1. /\ phase = "columns" /\ reader = "open" /\ Open(seg) /\ seg.bloom = NoFilter
        /\ ~(file[2] = 2 /\ hasBloom(file[6]))
    BY <1>10 DEF NoTrailer, ColumnsDone, WantsTrailer, Told
  <2> QED
    BY <2>1, ToldOpens
<1>11. CASE UNCHANGED <<file, reader, phase, off, seg>>
  <2>1. reader = "open" /\ phase \in {"columns", "opened"} =>
          \E v : Reads(v, seg.Columns)' /\ off' = v[Len(v)] /\ Along(v, seg.blocks)'
    <3> SUFFICES ASSUME reader = "open", phase \in {"columns", "opened"}
                 PROVE  \E v : Reads(v, seg.Columns)' /\ off' = v[Len(v)] /\ Along(v, seg.blocks)'
      OBVIOUS
    <3>1. PICK v : Reads(v, seg.Columns) /\ off = v[Len(v)] /\ Along(v, seg.blocks)
      BY DEF Told
    <3>2. UNCHANGED file /\ seg' = seg
      BY <1>11
    <3>3. PICK c, b : c = seg.Columns /\ b = seg.blocks
      OBVIOUS
    <3>4. Reads(v, c)' /\ Along(v, b)'
      BY <3>1, <3>2, <3>3, FileStays, AlongStays
    <3> QED
      BY <1>11, <3>1, <3>2, <3>3, <3>4
  <2>2. FilterRead' <=> FilterRead
    BY <1>11 DEF FilterRead, Have, TrailerBody
  <2> QED
    BY <1>11, <2>1, <2>2 DEF Told
<1> QED
  BY <1>2, <1>3, <1>5, <1>6, <1>7, <1>8, <1>9, <1>10, <1>11, <1>12
  DEF Next, Scan, vars, writerVars, ReadAColumn, ReadColumn, Inspect

-----------------------------------------------------------------------------
(* What an opened file says of the table.                                  *)

\* Of what WriteSegment wrote, an opened file says the columns and where
\* their payloads are; the reader has stopped where the columns end.
Opens(t, at, s) ==
  /\ PreludeSays(t, at) /\ seg.PK = t.PK /\ seg.rows = RowCount(t)
  /\ seg.Columns = t.Columns /\ off = ColumnOff(t, at, Len(t.Columns) + 1)
  /\ \A i \in 1 .. Len(t.Columns) : seg.blocks[i] = BlockAt(s[i]) /\ ColumnSays(t, at, i, s[i])

LEMMA Opened ==
  ASSUME SegInv, Told, phase = "opened", NEW t, NEW at, Laid(t, at)
  PROVE  \E s : Opens(t, at, s)
<1>1. /\ PreludeFits /\ seg.PK = PreludePK /\ seg.rows = file[4] /\ seg.count = file[3]
      /\ Len(seg.Columns) = seg.count /\ reader = "open"
  <2>1. reader = "open"
    BY DEF SegInv, Stored
  <2> QED
    BY <2>1, OpenOnCourse DEF Progress
<1>2. PreludeSays(t, at)
  BY <1>1, PreludeHeld
<1>3. Len(seg.Columns) = Len(t.Columns) /\ seg.PK = t.PK /\ seg.rows = RowCount(t)
  BY <1>1, <1>2 DEF PreludeSays
<1>4. PICK s : Reads(s, seg.Columns) /\ off = s[Len(s)] /\ Along(s, seg.blocks)
  BY <1>1 DEF Told
<1>5. PICK n : n = Len(t.Columns)
  OBVIOUS
<1>6. /\ n \in Nat /\ t.Columns \in Seq([name : Seq(Nat), type : ColumnType])
  BY <1>5, Formed DEF Laid
<1>7. /\ Walk(s) /\ Len(s) = n + 1 /\ Len(seg.blocks) = n /\ seg.Columns \in Seq(ColumnsHere)
      /\ \A i \in 1 .. n : seg.Columns[i] = ColumnAt(s[i]) /\ seg.blocks[i] = BlockAt(s[i])
  <2>1. /\ Walk(s) /\ Len(s) = n + 1 /\ seg.Columns \in Seq(ColumnsHere)
        /\ \A i \in 1 .. n : seg.Columns[i] = ColumnAt(s[i])
    BY <1>3, <1>4, <1>5 DEF Reads
  <2>2. /\ seg.blocks \in Seq(BlocksHere) /\ Len(s) = Len(seg.blocks) + 1
        /\ \A i \in 1 .. Len(seg.blocks) : seg.blocks[i] = BlockAt(s[i])
    BY <1>4 DEF Along
  <2>3. Len(seg.blocks) \in Nat
    BY <2>2, LenProperties
  <2>4. Len(seg.blocks) = n
    BY <1>6, <2>1, <2>2, <2>3
  <2> QED
    BY <2>1, <2>2, <2>4
<1>8. /\ \A i \in 1 .. n + 1 : s[i] = ColumnOff(t, at, i)
      /\ \A i \in 1 .. n : ColumnSays(t, at, i, s[i])
  <2>1. Len(s) <= Len(t.Columns) + 1
    BY <1>5, <1>6, <1>7
  <2>2. /\ \A i \in 1 .. Len(s) : s[i] = ColumnOff(t, at, i)
        /\ \A i \in 1 .. (Len(s) - 1) : ColumnSays(t, at, i, s[i])
    BY <1>2, <1>7, <2>1, WalkHeld
  <2>3. Len(s) - 1 = n
    BY <1>6, <1>7
  <2> QED
    BY <1>7, <2>2, <2>3
<1>9. off = ColumnOff(t, at, n + 1)
  <2>1. n + 1 \in 1 .. n + 1
    BY <1>6
  <2> QED
    BY <1>4, <1>7, <1>8, <2>1
<1>10. seg.Columns = t.Columns
  <2>1. ASSUME NEW i \in 1 .. n
        PROVE  seg.Columns[i] = t.Columns[i]
    BY <1>7, <1>8 DEF ColumnSays
  <2>2. Len(seg.Columns) = n
    BY <1>3, <1>5
  <2> QED
    <3>1. PICK c, T : c = t.Columns /\ T = [name : Seq(Nat), type : ColumnType]
      OBVIOUS
    <3>2. PICK d : d = seg.Columns
      OBVIOUS
    <3>3. c \in Seq(T) /\ d \in Seq(ColumnsHere) /\ Len(c) = Len(d)
      BY <1>5, <1>6, <1>7, <2>2, <3>1, <3>2
    <3>4. \A i \in 1 .. Len(d) : d[i] = c[i]
      BY <2>1, <2>2, <3>1, <3>2
    <3>5. c = d
      BY <3>3, <3>4, SeqEqual
    <3> QED
      BY <3>1, <3>2, <3>5
<1>11. \A i \in 1 .. Len(t.Columns) :
         seg.blocks[i] = BlockAt(s[i]) /\ ColumnSays(t, at, i, s[i])
  <2>1. ASSUME NEW i \in 1 .. n
        PROVE  seg.blocks[i] = BlockAt(s[i]) /\ ColumnSays(t, at, i, s[i])
    BY <1>7, <1>8
  <2> QED
    BY <1>5, <2>1
<1>12. off = ColumnOff(t, at, Len(t.Columns) + 1)
  BY <1>5, <1>9
<1>13. Opens(t, at, s)
  BY <1>2, <1>3, <1>10, <1>11, <1>12 DEF Opens
<1> QED
  BY <1>13

\* A torn file is not opened: it ends before its columns do or, with a
\* filter, where the filter's own lengths say that there is more of it.
LEMMA TornEnds == SegInv /\ OnDisk /\ Told => TornRefused
<1> SUFFICES ASSUME SegInv, OnDisk, Told, writer = "failed", phase = "opened", ~Complete
             PROVE  FALSE
  BY DEF TornRefused
<1>1. PICK at : Laid(source, at) /\ Len(file) <= EndOff(source, at) /\ Len(file) # EndOff(source, at)
  BY DEF OnDisk
<1>2. PICK s : Opens(source, at, s)
  BY <1>1, Opened
<1>3. PICK o : o = ColumnOff(source, at, Len(source.Columns) + 1)
  OBVIOUS
<1>4. off = o /\ off \in 0 .. Len(file) /\ Len(file) \in Nat
  <2>1. file \in Seq(Nat) /\ off \in 0 .. Len(file)
    BY DEF SegInv, Stored
  <2> QED
    BY <1>2, <1>3, <2>1 DEF Opens
<1>5. CASE source.bloom = NoFilter
  <2>1. EndOff(source, at) = o
    BY <1>1, <1>3, <1>5, EndsWithColumns
  <2>2. Len(file) <= o /\ Len(file) # o /\ o <= Len(file)
    BY <1>1, <1>4, <2>1
  <2> QED
    BY <1>4, <2>2
<1>6. CASE source.bloom # NoFilter
  <2>1. file[2] = 2 /\ hasBloom(file[6])
    BY <1>2, <1>6 DEF Opens, PreludeSays
  <2>2. Have(off, 2) /\ ValidFilter(SubSeq(file, off + 3, Len(file)))
    <3>1. reader = "open"
      BY DEF SegInv, Stored
    <3> QED
      BY <2>1, <3>1 DEF Told, FilterRead, TrailerBody
  <2>3. PICK d, bits : d = MarshalBinary(source.bloom) /\ bits = source.bloom.bits
    OBVIOUS
  <2>4. IsTrailer(source, at, o, d, bits)
    BY <1>1, <1>3, <1>6, <2>3 DEF IsTrailer, Marshals, Laid
  <2>5. Len(file) = EndOff(source, at)
    BY <1>1, <1>4, <2>2, <2>4, FilterTellsEnd
  <2> QED
    BY <1>1, <1>4, <2>5
<1> QED
  BY <1>5, <1>6

\* The prelude and every column end before the writes do.
LEMMA PartsEnd ==
  ASSUME NEW t, NEW at, Laid(t, at)
  PROVE  /\ at[Before(t)] <= EndOff(t, at)
         /\ \A i \in 1 .. Len(t.Columns) + 1 : ColumnOff(t, at, i) <= EndOff(t, at)
<1>1. PICK w : w = WriteChunks(t)
  OBVIOUS
<1>2. PICK n : n = Len(t.Columns)
  OBVIOUS
<1>3. PICK b : b = Before(t)
  OBVIOUS
<1>4. /\ w \in Seq(Cells) /\ Ends(at, w) /\ n \in Nat /\ b \in {3, 5}
      /\ Len(w) = b + 5 * n + Behind(t)
  BY <1>1, <1>2, <1>3, Writes DEF Laid
<1>5. Behind(t) \in {0, 3}
  BY DEF Behind
<1>6. PICK m : m = Len(w)
  OBVIOUS
<1>7. m \in 0 .. Len(w) /\ m \in Nat /\ b + 5 * n <= m
  BY <1>4, <1>5, <1>6
<1>8. ASSUME NEW j \in Nat, j <= m
      PROVE  at[j] <= at[m]
  BY <1>4, <1>7, <1>8, EndsGrow
<1>9. at[b] <= at[m]
  <2>1. b \in Nat /\ b <= m
    BY <1>4, <1>7
  <2> QED
    BY <1>8, <2>1
<1>10. ASSUME NEW i \in 1 .. n + 1
       PROVE  at[b + 5 * (i - 1)] <= at[m]
  <2>1. PICK j : j = b + 5 * (i - 1)
    OBVIOUS
  <2>2. j \in Nat /\ j <= m
    BY <1>4, <1>7, <2>1
  <2> QED
    BY <1>8, <2>1, <2>2
<1> QED
  BY <1>1, <1>2, <1>3, <1>6, <1>9, <1>10 DEF EndOff, ColumnOff

\* Of a complete file the prelude and the columns are there.
LEMMA AllThere ==
  ASSUME NEW t, NEW at, Laid(t, at), Len(file) = EndOff(t, at)
  PROVE  /\ PreludeSays(t, at)
         /\ \A i \in 1 .. Len(t.Columns) : ColumnSays(t, at, i, ColumnOff(t, at, i))
<1>1. at[Before(t)] <= Len(file)
  BY PartsEnd
<1>2. PreludeSays(t, at)
  BY <1>1, PreludeHeld
<1>3. ASSUME NEW i \in 1 .. Len(t.Columns)
      PROVE  ColumnSays(t, at, i, ColumnOff(t, at, i))
  <2>1. Len(t.Columns) \in Nat
    BY Formed DEF Laid
  <2>2. i + 1 \in 1 .. Len(t.Columns) + 1
    BY <2>1
  <2>3. ColumnOff(t, at, i + 1) <= Len(file)
    BY <2>2, PartsEnd
  <2>4. PICK o : o = ColumnOff(t, at, i)
    OBVIOUS
  <2>5. ColumnSays(t, at, i, o)
    BY <2>3, <2>4, ColumnHeld
  <2> QED
    BY <2>4, <2>5
<1> QED
  BY <1>2, <1>3

-----------------------------------------------------------------------------
(* A complete file is accepted.                                            *)

\* Of a complete file no field is missed.
LEMMA CompleteReads ==
  ASSUME SegInv, OnDisk, Complete
  PROVE  ~Misread
<1>1. PICK at : Laid(source, at) /\ Len(file) = EndOff(source, at)
  BY CompleteEnds
<1>2. /\ PreludeSays(source, at)
      /\ \A i \in 1 .. Len(source.Columns) : ColumnSays(source, at, i, ColumnOff(source, at, i))
  BY <1>1, AllThere
<1>3. PICK n : n = Len(source.Columns)
  OBVIOUS
<1>4. PreludeFits /\ file[3] = n /\ n \in Nat
  BY <1>1, <1>2, <1>3, Formed DEF PreludeSays, Laid
<1>5. ASSUME NEW s, Walk(s), Len(s) <= file[3]
      PROVE  ColumnFits(s[Len(s)])
  <2>1. PICK k : k = Len(s)
    OBVIOUS
  <2>2. k \in 1 .. Len(s) /\ k \in 1 .. n /\ Len(s) <= Len(source.Columns) + 1
    <3>1. s \in Seq(Nat) /\ s # <<>>
      BY <1>5 DEF Walk
    <3> QED
      BY <1>3, <1>4, <1>5, <2>1, <3>1
  <2>3. \A i \in 1 .. Len(s) : s[i] = ColumnOff(source, at, i)
    BY <1>1, <1>2, <1>5, <2>2, WalkHeld
  <2>4. ColumnSays(source, at, k, s[k])
    BY <1>2, <1>3, <2>2, <2>3
  <2> QED
    BY <2>1, <2>4 DEF ColumnSays
<1> QED
  BY <1>4, <1>5 DEF Misread

\* OpenSegment of a complete file never ends with an error.
Accepted == Complete /\ reader = "open" /\ phase = "ended" => seg.err = "ok"

\* Whatever a field of a complete file is read for, it is there.
LEMMA NothingRefused ==
  ASSUME SegInv, OnDisk, Told, Complete, NEW err, Fail(err),
         ReadHeader \/ ReadFlags \/ ReadPKName \/ ReadColumnMeta \/ ReadTrailer
  PROVE  FALSE
<1>1. PICK at : Laid(source, at) /\ Len(file) = EndOff(source, at)
  BY CompleteEnds
<1>2. /\ PreludeSays(source, at)
      /\ \A i \in 1 .. Len(source.Columns) : ColumnSays(source, at, i, ColumnOff(source, at, i))
  BY <1>1, AllThere
<1>3. phase' = "ended" /\ reader = "open"
  BY DEF Fail, ReadHeader, ReadFlags, ReadPKName, ReadColumnMeta, ReadTrailer, ColumnsDone
<1>4. PreludeFits /\ file[2] = 2
  BY <1>2 DEF PreludeSays
<1>5. Progress
  BY <1>3, OpenOnCourse
<1>6. phase' # "flags" /\ phase' # "pkName" /\ phase' # "columns" /\ phase' # "opened"
  BY <1>3
<1>7. CASE ReadHeader
  <2>1. HeaderFits
    BY <1>4 DEF PreludeFits
  <2> QED
    BY <1>4, <1>6, <1>7, <2>1 DEF ReadHeader, HeaderFits, Proceed
<1>8. CASE ReadFlags
  <2>1. FlagsFit /\ off = 4
    BY <1>4, <1>5, <1>8 DEF PreludeFits, ReadFlags, Progress
  <2>2. off + 1 = 5
    BY <2>1
  <2> QED
    BY <1>6, <1>8, <2>1, <2>2 DEF ReadFlags, FlagsFit, Proceed
<1>9. CASE ReadPKName
  <2>1. Keyed /\ off = FlagsEnd
    BY <1>5, <1>9 DEF ReadPKName, Progress
  <2> QED
    BY <1>4, <1>6, <1>9, <2>1 DEF ReadPKName, PreludeFits, Proceed
<1>10. CASE ReadColumnMeta
  <2>1. phase = "columns" /\ Len(seg.Columns) < seg.count /\ seg.count = file[3]
    BY <1>5, <1>10 DEF ReadColumnMeta, Progress
  <2>2. PICK s : Reads(s, seg.Columns) /\ off = s[Len(s)]
    BY <1>3, <2>1 DEF Told
  <2>3. PICK k : k = Len(s)
    OBVIOUS
  <2>4. PICK n : n = Len(source.Columns)
    OBVIOUS
  <2>5. n \in Nat /\ file[3] = n
    BY <1>1, <1>2, <2>4, Formed DEF Laid, PreludeSays
  <2>6. Walk(s) /\ k \in Nat /\ k >= 1 /\ k <= n
    <3>1. Walk(s) /\ k = Len(seg.Columns) + 1 /\ seg.Columns \in Seq(ColumnsHere)
      BY <2>2, <2>3 DEF Reads
    <3>2. Len(seg.Columns) \in Nat
      BY <3>1, LenProperties
    <3> QED
      BY <2>1, <2>5, <3>1, <3>2
  <2>7. s[k] = ColumnOff(source, at, k)
    <3>1. Len(s) <= Len(source.Columns) + 1
      BY <2>3, <2>4, <2>5, <2>6
    <3>2. \A i \in 1 .. Len(s) : s[i] = ColumnOff(source, at, i)
      BY <1>1, <1>2, <2>6, <3>1, WalkHeld
    <3>3. k \in 1 .. Len(s)
      BY <2>3, <2>6
    <3> QED
      BY <3>2, <3>3
  <2>8. ColumnSays(source, at, k, off)
    <3>1. k \in 1 .. Len(source.Columns)
      BY <2>4, <2>5, <2>6
    <3> QED
      BY <1>2, <2>2, <2>3, <2>7, <3>1
  <2>9. ColumnFits(off) /\ ~BadEncoding(off)
    BY <2>8 DEF ColumnSays
  <2> QED
    BY <1>6, <1>10, <2>9 DEF ReadColumnMeta, ColumnFits, Proceed
<1>11. CASE ReadTrailer
  <2>1. /\ phase = "columns" /\ Len(seg.Columns) = file[3] /\ reader = "open"
        /\ hasBloom(file[6])
    BY <1>4, <1>5, <1>11 DEF ReadTrailer, ColumnsDone, WantsTrailer, Told, Progress
  <2>2. source.bloom # NoFilter
    BY <1>2, <2>1 DEF PreludeSays
  <2>3. PICK o : o = ColumnOff(source, at, Len(source.Columns) + 1)
    OBVIOUS
  <2>4. off = o
    <3>1. PICK s : Reads(s, seg.Columns) /\ off = s[Len(s)]
      BY <2>1 DEF Told
    <3>2. PICK n : n = Len(source.Columns)
      OBVIOUS
    <3>3. n \in Nat /\ Len(seg.Columns) = n
      BY <1>1, <1>2, <2>1, <3>2, Formed DEF Laid, PreludeSays
    <3>4. Walk(s) /\ Len(s) = n + 1
      BY <3>1, <3>3 DEF Reads
    <3>5. Len(s) <= Len(source.Columns) + 1 /\ n + 1 \in 1 .. Len(s)
      BY <3>2, <3>3, <3>4
    <3>6. \A i \in 1 .. Len(s) : s[i] = ColumnOff(source, at, i)
      BY <1>1, <1>2, <3>4, <3>5, WalkHeld
    <3>7. s[n + 1] = ColumnOff(source, at, n + 1)
      BY <3>5, <3>6
    <3> QED
      BY <2>3, <3>1, <3>2, <3>4, <3>7
  <2>5. PICK d, bits : d = MarshalBinary(source.bloom) /\ bits = source.bloom.bits
    OBVIOUS
  <2>6. IsTrailer(source, at, o, d, bits)
    BY <1>1, <2>2, <2>3, <2>5 DEF IsTrailer, Marshals, Laid
  <2>7. /\ Have(o, 2) /\ file[o + 1] = bloomTrailerMagic /\ file[o + 2] = 1
        /\ ValidFilter(SubSeq(file, o + 3, Len(file)))
    BY <1>1, <2>6, TrailerHeld
  <2>8. /\ Have(off, 2) /\ file[off + 1] = bloomTrailerMagic /\ file[off + 2] = 1
        /\ ValidFilter(TrailerBody)
    BY <2>4, <2>7 DEF TrailerBody
  <2>9. Open([seg EXCEPT !.bloom = UnmarshalBinary(TrailerBody)])
    BY <1>11, <2>8 DEF ReadTrailer
  <2> QED
    BY <1>3, <2>9 DEF Open
<1> QED
  BY <1>7, <1>8, <1>9, <1>10, <1>11

LEMMA AcceptedStep == SegInv /\ OnDisk /\ Told /\ Accepted /\ [Next]_vars => Accepted'
<1> SUFFICES ASSUME SegInv, OnDisk, Told, Accepted, [Next]_vars,
                    Complete', reader' = "open", phase' = "ended"
             PROVE  seg'.err = "ok"
  BY DEF Accepted
<1>1. CASE WriteChunk \/ WriteFails
  <2>1. phase' = "idle"
    BY <1>1 DEF WriteChunk, WriteFails, readerVars, SegInv, Stored
  <2> QED
    BY <2>1
<1>2. Complete \/ WriteChunk \/ WriteFails
  BY OnlyReads DEF Complete, writerVars
<1>3. CASE StartReader
  BY <1>3 DEF StartReader
<1>4. ASSUME Complete, NEW err, Fail(err),
             ReadHeader \/ ReadFlags \/ ReadPKName \/ ReadColumnMeta \/ ReadTrailer
      PROVE  seg'.err = "ok"
  BY <1>4, NothingRefused
<1>5. CASE Complete /\ (ReadHeader \/ ReadFlags \/ ReadPKName)
  BY <1>4, <1>5 DEF ReadHeader, ReadFlags, ReadPKName, Proceed
<1>6. CASE Complete /\ (ReadColumnMeta \/ ReadTrailer)
  BY <1>4, <1>6 DEF ReadColumnMeta, ReadTrailer, Proceed, Open
<1>7. CASE NoTrailer
  BY <1>7 DEF NoTrailer, Open
<1>8. CASE Scan
  BY <1>8, ScanStays DEF Stays
<1>9. CASE Complete /\ UNCHANGED <<reader, phase, seg>>
  BY <1>9 DEF Accepted
<1> QED
  BY <1>1, <1>2, <1>3, <1>5, <1>6, <1>7, <1>8, <1>9
  DEF Next, Scan, vars, ReadAColumn, ReadColumn, Inspect

-----------------------------------------------------------------------------
(* What is decoded, and what inspect reports.                              *)

\* The columns of a complete file have names of their own: the block and the
\* type that are kept under a name are its column's.
LEMMA NamedOnce ==
  ASSUME NEW t, WellFormed(t), seg.Columns = t.Columns, NEW i \in 1 .. Len(t.Columns),
         NEW name, name = t.Columns[i].name
  PROVE  BlockOf(name) = seg.blocks[i] /\ TypeOfColumn(name) = t.Columns[i].type
<1>1. /\ DOMAIN seg.Columns = 1 .. Len(t.Columns) /\ Len(t.Columns) \in Nat
      /\ \A j \in DOMAIN seg.Columns : seg.Columns[j].name = name => j = i
  <2>1. DOMAIN t.Columns = 1 .. Len(t.Columns) /\ Len(t.Columns) \in Nat
    BY Formed
  <2> QED
    BY <2>1 DEF WellFormed
<1>2. i \in DOMAIN seg.Columns /\ seg.Columns[i].name = name /\ i \in Nat
  BY <1>1
<1>3. \A j \in DOMAIN seg.Columns :
        (/\ seg.Columns[j].name = name
         /\ \A k \in DOMAIN seg.Columns : seg.Columns[k].name = name => k <= j) <=> j = i
  BY <1>1, <1>2
<1>4. \A j \in DOMAIN seg.Columns :
        (/\ seg.Columns[j].name = name
         /\ \A k \in DOMAIN seg.Columns : seg.Columns[k].name = name => j <= k) <=> j = i
  BY <1>1, <1>2
<1>5. (CHOOSE j \in DOMAIN seg.Columns :
         /\ seg.Columns[j].name = name
         /\ \A k \in DOMAIN seg.Columns : seg.Columns[k].name = name => k <= j) = i
  BY <1>2, <1>3
<1>6. (CHOOSE j \in DOMAIN seg.Columns :
         /\ seg.Columns[j].name = name
         /\ \A k \in DOMAIN seg.Columns : seg.Columns[k].name = name => j <= k) = i
  BY <1>2, <1>4
<1> QED
  BY <1>5, <1>6 DEF BlockOf, TypeOfColumn

\* A column of a complete file decodes to its values.
LEMMA ColumnDecodes ==
  ASSUME NEW t, NEW at, Laid(t, at), NEW s, Opens(t, at, s),
         NEW i \in 1 .. Len(t.Columns), NEW name, name = t.Columns[i].name
  PROVE  Decode(name) = [ok |-> TRUE, out |-> t.cols[i]]
<1>1. WellFormed(t) /\ seg.Columns = t.Columns /\ seg.rows = RowCount(t)
  BY DEF Laid, Opens
<1>2. BlockOf(name) = seg.blocks[i] /\ TypeOfColumn(name) = t.Columns[i].type
  BY <1>1, NamedOnce
<1>3. PICK b : b = BlockOf(name)
  OBVIOUS
<1>4. PICK o : o = s[i]
  OBVIOUS
<1>5. b = BlockAt(o) /\ ColumnSays(t, at, i, o)
  BY <1>2, <1>3, <1>4 DEF Opens
<1>6. /\ b.encoding = EncodingRLE
      /\ SubSeq(file, b.off + 1, b.off + b.len) = Payload(t, i)
  BY <1>5 DEF BlockAt, ColumnSays
<1>7. PICK type, vals : type = t.Columns[i].type /\ vals = t.cols[i]
  OBVIOUS
<1>8. type \in ColumnType /\ vals \in Seq(Values(type)) /\ Len(vals) = seg.rows
  <2>1. t.Columns[i].type \in ColumnType /\ Len(t.cols[i]) = RowCount(t)
    BY <1>1, Formed
  <2>2. t.cols[i] \in Seq(Values(t.Columns[i].type))
    BY <1>1, Formed
  <2> QED
    BY <1>1, <1>7, <2>1, <2>2
<1>9. DecodeRLE(type, EncodeRLE(type, vals), Len(vals)) = [ok |-> TRUE, out |-> vals]
  BY <1>8, DecodesItsEncoding
<1>10. Decode(name) = DecodeRLE(type, EncodeRLE(type, vals), Len(vals))
  BY <1>2, <1>3, <1>6, <1>7, <1>8 DEF Decode, Payload
<1> QED
  BY <1>7, <1>9, <1>10

\* Every decoded column of a complete file is one of the table's.
Kept ==
  /\ writer = "writing" => decoded = <<>> /\ report = NoReport
  /\ \E S : decoded \in Seq(S)
  /\ Complete =>
       \A k \in DOMAIN decoded : \E i \in 1 .. Len(source.Columns) :
         decoded[k] = [name |-> source.Columns[i].name, ok |-> TRUE, out |-> source.cols[i]]

\* Reading the layout neither decodes nor reports.
LEMMA ReadingKeeps ==
  ASSUME [Next]_vars, ~(WriteChunk \/ WriteFails), ~ReadAColumn, ~Inspect
  PROVE  UNCHANGED <<writerVars, decoded, report>>
<1>1. Scan => UNCHANGED <<decoded, report>>
  BY DEF Scan, ScanHeader, ScanFlags, ScanPKName, ScanColumnMeta, ScanDone, Fail, Panic, Proceed
<1>2. ReadHeader \/ ReadFlags \/ ReadPKName => UNCHANGED <<decoded, report>>
  BY DEF ReadHeader, ReadFlags, ReadPKName, Fail, Proceed
<1>3. ReadColumnMeta \/ ReadTrailer \/ NoTrailer => UNCHANGED <<decoded, report>>
  BY DEF ReadColumnMeta, ReadTrailer, NoTrailer, Fail, Open, Proceed
<1>4. StartReader \/ UNCHANGED vars => UNCHANGED <<decoded, report>>
  BY DEF StartReader, vars
<1>5. UNCHANGED <<decoded, report>>
  BY <1>1, <1>2, <1>3, <1>4 DEF Next, Scan
<1> QED
  BY <1>5, OnlyReads

LEMMA KeptStep == SegInv /\ OnDisk /\ Told /\ Kept /\ [Next]_vars => Kept'
<1> SUFFICES ASSUME SegInv, OnDisk, Told, Kept, [Next]_vars PROVE Kept'
  OBVIOUS
<1>1. CASE WriteChunk \/ WriteFails
  <2>1. writer = "writing" /\ UNCHANGED <<decoded, report>>
    BY <1>1 DEF WriteChunk, WriteFails, readerVars
  <2>2. decoded' = <<>> /\ report' = NoReport
    BY <2>1 DEF Kept
  <2>3. DOMAIN decoded' = {} /\ decoded' \in Seq({})
    BY <2>2
  <2> QED
    BY <2>2, <2>3 DEF Kept
<1>2. CASE ReadAColumn
  <2>1. PICK i \in DOMAIN seg.Columns : ReadColumn(seg.Columns[i].name)
    BY <1>2 DEF ReadAColumn
  <2>2. PICK name : name = seg.Columns[i].name
    OBVIOUS
  <2>3. PICK e : e = [name |-> name, ok |-> Decode(name).ok, out |-> Decode(name).out]
    OBVIOUS
  <2>4. /\ phase = "opened" /\ UNCHANGED <<writer, source, report>>
        /\ decoded' = Append(decoded, e)
    BY <2>1, <2>2, <2>3 DEF ReadColumn, writerVars
  <2>5. PICK S : decoded \in Seq(S)
    BY DEF Kept
  <2>6. PICK T : T = S \cup {e}
    OBVIOUS
  <2>7. decoded \in Seq(T) /\ e \in T
    BY <2>5, <2>6
  <2>8. /\ decoded' \in Seq(T) /\ Len(decoded) \in Nat
        /\ DOMAIN decoded = 1 .. Len(decoded) /\ DOMAIN decoded' = 1 .. (Len(decoded) + 1)
        /\ \A k \in 1 .. Len(decoded) : decoded'[k] = decoded[k]
        /\ decoded'[Len(decoded) + 1] = e
    BY <2>4, <2>7
  <2>9. writer # "writing"
    BY <2>4 DEF SegInv, Stored
  <2>10. ASSUME Complete
         PROVE  \E j \in 1 .. Len(source.Columns) :
                  e = [name |-> source.Columns[j].name, ok |-> TRUE, out |-> source.cols[j]]
    <3>1. PICK at : Laid(source, at)
      BY <2>10, CompleteEnds
    <3>2. PICK s : Opens(source, at, s)
      BY <2>4, <3>1, Opened
    <3>3. seg.Columns = source.Columns /\ WellFormed(source)
      BY <3>1, <3>2 DEF Opens, Laid
    <3>4. i \in 1 .. Len(source.Columns) /\ name = source.Columns[i].name
      BY <2>2, <3>3, Formed
    <3>5. Decode(name) = [ok |-> TRUE, out |-> source.cols[i]]
      BY <3>1, <3>2, <3>4, ColumnDecodes
    <3>6. Decode(name).ok = TRUE /\ Decode(name).out = source.cols[i]
      BY <3>5
    <3>7. e = [name |-> source.Columns[i].name, ok |-> TRUE, out |-> source.cols[i]]
      BY <2>3, <3>4, <3>6
    <3> QED
      BY <3>4, <3>7
  <2>11. ASSUME Complete, NEW k \in DOMAIN decoded'
         PROVE  \E j \in 1 .. Len(source.Columns) :
                  decoded'[k] = [name |-> source.Columns[j].name, ok |-> TRUE,
                                 out |-> source.cols[j]]
    <3>1. CASE k \in 1 .. Len(decoded)
      BY <2>8, <2>11, <3>1 DEF Kept
    <3>2. CASE k = Len(decoded) + 1
      BY <2>8, <2>10, <2>11, <3>2
    <3> QED
      BY <2>8, <2>11, <3>1, <3>2
  <2> QED
    <3>1. Complete' <=> Complete
      BY <2>1 DEF ReadColumn, writerVars, Complete
    <3>2. UNCHANGED source
      BY <2>4
    <3> QED
      BY <2>4, <2>8, <2>9, <2>11, <3>1, <3>2 DEF Kept
<1>3. CASE UNCHANGED <<writerVars, decoded>> /\ (writer = "writing" => UNCHANGED report)
  <2>1. Complete' <=> Complete
    BY <1>3 DEF Complete, writerVars
  <2>2. UNCHANGED <<writer, source, decoded>>
    BY <1>3 DEF writerVars
  <2> QED
    BY <1>3, <2>1, <2>2 DEF Kept
<1>4. CASE Inspect
  <2>1. writer # "writing"
    BY <1>4 DEF Inspect, SegInv, Stored
  <2> QED
    BY <1>3, <1>4, <2>1 DEF Inspect
<1>5. CASE UNCHANGED <<writerVars, decoded, report>>
  BY <1>3, <1>5
<1> QED
  BY <1>1, <1>2, <1>4, <1>5, ReadingKeeps

\* The filter of an opened file is the table's.
LEMMA FilterTold ==
  ASSUME SegInv, Told, phase = "opened", NEW t, NEW at, Laid(t, at), NEW s, Opens(t, at, s),
         Len(file) = EndOff(t, at)
  PROVE  seg.bloom = t.bloom
<1>1. file[2] = 2 /\ (hasBloom(file[6]) <=> t.bloom # NoFilter)
  BY DEF Opens, PreludeSays
<1>2. FilterRead
  BY DEF Told, SegInv, Stored
<1>3. CASE t.bloom = NoFilter
  BY <1>1, <1>2, <1>3 DEF FilterRead
<1>4. CASE t.bloom # NoFilter
  <2>1. PICK o : o = off
    OBVIOUS
  <2>2. PICK d, bits : d = MarshalBinary(t.bloom) /\ bits = t.bloom.bits
    OBVIOUS
  <2>3. IsTrailer(t, at, o, d, bits)
    BY <1>4, <2>1, <2>2 DEF IsTrailer, Marshals, Laid, Opens
  <2>4. UnmarshalBinary(SubSeq(file, o + 3, Len(file))) = t.bloom
    BY <2>3, TrailerHeld
  <2>5. seg.bloom = UnmarshalBinary(TrailerBody)
    BY <1>1, <1>2, <1>4 DEF FilterRead
  <2> QED
    BY <2>1, <2>4, <2>5 DEF TrailerBody
<1> QED
  BY <1>3, <1>4

\* An opened file, and what has been decoded of it, is what was written.
LEMMA ComesBack == SegInv /\ OnDisk /\ Told /\ Kept => RoundTrip
<1> SUFFICES ASSUME SegInv, OnDisk, Told, Kept, Complete, phase = "opened"
             PROVE  /\ seg.PK = source.PK
                    /\ seg.Columns = source.Columns
                    /\ seg.rows = RowCount(source)
                    /\ seg.bloom = source.bloom
                    /\ \A i \in DOMAIN decoded : \A c \in DOMAIN source.Columns :
                         source.Columns[c].name = decoded[i].name =>
                           decoded[i].out = source.cols[c]
  BY DEF RoundTrip
<1>1. PICK at : Laid(source, at) /\ Len(file) = EndOff(source, at)
  BY CompleteEnds
<1>2. PICK s : Opens(source, at, s)
  BY <1>1, Opened
<1>3. seg.bloom = source.bloom
  BY <1>1, <1>2, FilterTold
<1>4. ASSUME NEW i \in DOMAIN decoded, NEW c \in DOMAIN source.Columns,
             source.Columns[c].name = decoded[i].name
      PROVE  decoded[i].out = source.cols[c]
  <2>1. PICK j \in 1 .. Len(source.Columns) :
          decoded[i] = [name |-> source.Columns[j].name, ok |-> TRUE, out |-> source.cols[j]]
    BY DEF Kept
  <2>2. decoded[i].name = source.Columns[j].name /\ decoded[i].out = source.cols[j]
    BY <2>1
  <2>3. WellFormed(source)
    BY <1>1 DEF Laid
  <2>4. j \in DOMAIN source.Columns
    BY <2>1, <2>3, Formed
  <2>5. c = j
    BY <1>4, <2>2, <2>3, <2>4 DEF WellFormed
  <2> QED
    BY <2>2, <2>5
<1> QED
  BY <1>2, <1>3, <1>4 DEF Opens

\* What inspect prints of a complete file.
LEMMA InspectTells ==
  ASSUME SegInv, OnDisk, Told, Inspect
  PROVE  InspectTellsTruth'
<1>1. phase = "opened" /\ UNCHANGED <<source, writer>> /\ (Complete' <=> Complete)
  BY DEF Inspect, writerVars, Complete
<1> SUFFICES ASSUME Complete
             PROVE  /\ report'.rows = RowCount(source)
                    /\ report'.bloom = IF source.bloom = NoFilter THEN NoFilter
                                       ELSE <<source.bloom.m, source.bloom.k, source.bloom.nAdded>>
                    /\ \A i \in DOMAIN source.Columns :
                         /\ i \in report'.keys <=>
                              source.PK # <<>> /\ source.PK = source.Columns[i].name
                         /\ report'.columns[i] =
                              [name |-> source.Columns[i].name, type |-> source.Columns[i].type,
                               encoding |-> EncodingRLE,
                               len |-> Len(EncodeRLE(source.Columns[i].type, source.cols[i]))]
  BY <1>1 DEF InspectTellsTruth, RowCount
<1>2. PICK at : Laid(source, at) /\ Len(file) = EndOff(source, at)
  BY CompleteEnds
<1>3. PICK s : Opens(source, at, s)
  BY <1>1, <1>2, Opened
<1>4. /\ seg.bloom = source.bloom /\ seg.Columns = source.Columns /\ seg.PK = source.PK
      /\ seg.rows = RowCount(source)
  BY <1>1, <1>2, <1>3, FilterTold DEF Opens
<1>5. seg.version = 2
  BY <1>1, <1>3 DEF Told, Opens, PreludeSays, SegInv, Stored
<1>6. /\ report'.rows = seg.rows /\ report'.columns = ColumnInfo
      /\ report'.keys = { i \in DOMAIN seg.Columns : seg.PK # <<>> /\ seg.Columns[i].name = seg.PK }
      /\ report'.bloom = IF seg.version = 1 \/ seg.bloom = NoFilter THEN NoFilter
                         ELSE <<seg.bloom.m, seg.bloom.k, seg.bloom.nAdded>>
  BY DEF Inspect
<1>7. ASSUME NEW i \in DOMAIN source.Columns
      PROVE  report'.columns[i] =
               [name |-> source.Columns[i].name, type |-> source.Columns[i].type,
                encoding |-> EncodingRLE,
                len |-> Len(EncodeRLE(source.Columns[i].type, source.cols[i]))]
  <2>1. WellFormed(source)
    BY <1>2 DEF Laid
  <2>2. i \in 1 .. Len(source.Columns)
    BY <2>1, Formed
  <2>3. PICK name : name = source.Columns[i].name
    OBVIOUS
  <2>4. BlockOf(name) = seg.blocks[i]
    BY <1>4, <2>1, <2>2, <2>3, NamedOnce
  <2>5. PICK b : b = BlockOf(name)
    OBVIOUS
  <2>6. b = BlockAt(s[i]) /\ ColumnSays(source, at, i, s[i])
    BY <1>3, <2>2, <2>4, <2>5 DEF Opens
  <2>7. b.encoding = EncodingRLE /\ b.len = Len(Payload(source, i))
    BY <2>6 DEF BlockAt, ColumnSays
  <2>8. ColumnInfo[i] = [name |-> seg.Columns[i].name, type |-> seg.Columns[i].type,
                         encoding |-> BlockOf(seg.Columns[i].name).encoding,
                         len |-> BlockOf(seg.Columns[i].name).len]
    BY <1>4 DEF ColumnInfo
  <2> QED
    BY <1>4, <1>6, <2>3, <2>5, <2>7, <2>8 DEF Payload
<1> QED
  BY <1>4, <1>5, <1>6, <1>7

LEMMA TruthStep ==
  SegInv /\ OnDisk /\ Told /\ Kept /\ InspectTellsTruth /\ [Next]_vars => InspectTellsTruth'
<1> SUFFICES ASSUME SegInv, OnDisk, Told, Kept, InspectTellsTruth, [Next]_vars
             PROVE  InspectTellsTruth'
  OBVIOUS
<1>1. CASE WriteChunk \/ WriteFails
  BY <1>1 DEF WriteChunk, WriteFails, readerVars, Kept, InspectTellsTruth
<1>2. CASE Inspect
  BY <1>2, InspectTells
<1>3. CASE UNCHANGED <<writerVars, report>>
  <2>1. (Complete' <=> Complete) /\ UNCHANGED <<source, report>>
    BY <1>3 DEF writerVars, Complete
  <2> QED
    BY <2>1 DEF InspectTellsTruth, RowCount
<1>4. ReadAColumn => UNCHANGED <<writerVars, report>>
  BY DEF ReadAColumn, ReadColumn
<1> QED
  BY <1>1, <1>2, <1>3, <1>4, ReadingKeeps

-----------------------------------------------------------------------------
(* The theorems.                                                           *)

DiskInv == SegInv /\ OnDisk /\ Told /\ Accepted /\ Kept /\ InspectTellsTruth

LEMMA DiskInit == Init => DiskInv
<1> SUFFICES ASSUME Init PROVE DiskInv
  OBVIOUS
<1>1. phase = "idle" /\ decoded = <<>> /\ report = NoReport /\ writer \notin {"done", "failed"}
  BY DEF Init
<1>2. decoded \in Seq({})
  BY <1>1
<1> QED
  BY <1>1, <1>2, SegInit, OnDiskInit
  DEF DiskInv, Told, Accepted, Kept, InspectTellsTruth, Complete

LEMMA DiskStep == DiskInv /\ [Next]_vars => DiskInv'
BY SegStep, OnDiskStep, ToldStep, AcceptedStep, KeptStep, TruthStep DEF DiskInv

\* A segment file whose writing failed is never opened while a cell of it is
\* missing, whatever the cell (storage/segment.go WriteSegment, OpenSegment), though the format has
\* neither a checksum nor an end mark.
THEOREM TornNeverOpens == Spec => []TornRefused
<1>1. DiskInv => TornRefused
  BY TornEnds DEF DiskInv
<1> QED
  BY <1>1, DiskInit, DiskStep, PTL DEF Spec

\* Both readers accept every file that WriteSegment wrote completely, neither
\* panics, and each of its columns decodes (storage/segment.go).
THEOREM CompleteOpens == Spec => []CompleteAccepted
<1>1. DiskInv => CompleteAccepted
  <2> SUFFICES ASSUME DiskInv, Complete
               PROVE  /\ phase # "panicked"
                      /\ phase = "ended" => seg.err = "ok"
                      /\ \A i \in DOMAIN decoded : decoded[i].ok
    BY DEF CompleteAccepted
  <2>1. phase # "panicked" /\ (phase = "ended" => seg.err = "ok")
    <3>1. CASE reader = "open"
      BY <3>1 DEF DiskInv, Accepted, SegInv, Stored
    <3>2. CASE reader = "header"
      <4>1. Progress
        BY CompleteReads, OnCourse DEF DiskInv, Astray
      <4> QED
        BY <3>2, <4>1 DEF Progress
    <3>3. CASE reader = "none"
      BY <3>3 DEF DiskInv, SegInv, Stored
    <3> QED
      BY <3>1, <3>2, <3>3 DEF DiskInv, SegInv, Stored
  <2>2. ASSUME NEW i \in DOMAIN decoded
        PROVE  decoded[i].ok
    <3>1. PICK j \in 1 .. Len(source.Columns) :
            decoded[i] = [name |-> source.Columns[j].name, ok |-> TRUE, out |-> source.cols[j]]
      BY DEF DiskInv, Kept
    <3>2. decoded[i].ok = TRUE
      BY <3>1
    <3> QED
      BY <3>2
  <2> QED
    BY <2>1, <2>2
<1> QED
  BY <1>1, DiskInit, DiskStep, PTL DEF Spec

\* What OpenSegment and ReadColumn return of a complete file is the table
\* that WriteSegment was given (storage/segment.go, storage/rle.go,
\* storage/encoding.go, bloom/bloom.go): key, columns, row count, filter and
\* every value, for every table.
THEOREM ComesBackAsWritten == Spec => []RoundTrip
<1>1. DiskInv => RoundTrip
  BY ComesBack DEF DiskInv
<1> QED
  BY <1>1, DiskInit, DiskStep, PTL DEF Spec

\* What `uniqcol inspect` prints of a complete file is true of the table it
\* was written from (cmd/uniqcol/inspect.go).
THEOREM InspectIsRight == Spec => []InspectTellsTruth
<1>1. DiskInv => InspectTellsTruth
  BY DEF DiskInv
<1> QED
  BY <1>1, DiskInit, DiskStep, PTL DEF Spec
=============================================================================
