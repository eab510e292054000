--------------------------- MODULE CopyStreamProofs ---------------------------
(***************************************************************************)
(* A copy arrives, file by file and in full, whatever the sizes of the     *)
(* files and of the buffers and however the stream is cut up on the way.   *)
(*                                                                         *)
(* What is to be sent is one sequence of units, and each of the three      *)
(* programs is at a position in it. The invariant says which position,     *)
(* from the program's own variables, and that the units in a connection    *)
(* lead from the position of its reader to that of its writer. A step of   *)
(* the writer makes such a way longer, a step of the reader shorter; that  *)
(* the reader takes as much as the writer meant is what has to be shown.   *)
(* A file that grew puts bytes where a message belongs: from there on the  *)
(* way leads to Lost, which the server's reader can never be at.           *)
(***************************************************************************)
EXTENDS CopyStream, Streams, SequenceTheorems

\* The sizes of the first n files, for as many files as there are.
LEMMA SizesAddUp ==
  ASSUME files \in Seq(FileType)
  PROVE  /\ SizeOfFirst \in [0..Len(files) -> Nat]
         /\ SizeOfFirst[0] = 0
         /\ \A n \in 1..Len(files) : SizeOfFirst[n] =
              SizeOfFirst[n - 1] + (IF files[n].kind = "reg" THEN files[n].size ELSE 0)
<1> DEFINE L == Len(files)
           Size(n) == IF files[n].kind = "reg" THEN files[n].size ELSE 0
           Sums(f, m) == f[0] = 0 /\ \A n \in 1..m : f[n] = f[n - 1] + Size(n)
           Summed(m) == m <= L => \E f \in [0..m -> Nat] : Sums(f, m)
           S == {m \in Nat : Summed(m)}
<1>1. L \in Nat /\ \A n \in 1..L : Size(n) \in Nat
  <2>1. \A n \in 1..L : files[n] \in FileType
    OBVIOUS
  <2> QED
    BY <2>1 DEF FileType
<1>2. Summed(0)
  <2>1. [n \in 0..0 |-> 0] \in [0..0 -> Nat] /\ Sums([n \in 0..0 |-> 0], 0)
    OBVIOUS
  <2> QED
    BY <2>1
<1>3. ASSUME NEW m \in Nat, Summed(m)
      PROVE  Summed(m + 1)
  <2> SUFFICES ASSUME m + 1 <= L
               PROVE  \E f \in [0..m + 1 -> Nat] : Sums(f, m + 1)
    OBVIOUS
  <2>0. m <= L
    BY <1>1
  <2>1. PICK f \in [0..m -> Nat] : Sums(f, m)
    <3> HIDE DEF Sums, L
    <3> QED
      BY <2>0, <1>3
  <2> DEFINE g == [n \in 0..m + 1 |-> IF n <= m THEN f[n] ELSE f[m] + Size(m + 1)]
  <2>2. g \in [0..m + 1 -> Nat]
    BY <1>1
  <2>3. Sums(g, m + 1)
    BY <1>1, <2>1, <2>2
  <2> QED
    BY <2>2, <2>3
<1>4. Summed(L)
  <2>1. 0 \in S /\ \A n \in Nat : n \in S => n + 1 \in S
    <3> HIDE DEF Summed
    <3> QED
      BY <1>2, <1>3
  <2> HIDE DEF S
  <2>2. L \in S
    BY <1>1, <2>1, SetInduction
  <2> QED
    BY <2>2 DEF S
<1>5. PICK f \in [0..L -> Nat] : Sums(f, L)
  BY <1>1, <1>4
<1>6. f = [n \in 0..L |-> IF n = 0 THEN 0 ELSE f[n - 1] + Size(n)]
  BY <1>1, <1>5
<1>7. SizeOfFirst = [n \in 0..L |-> IF n = 0 THEN 0 ELSE SizeOfFirst[n - 1] + Size(n)]
  BY <1>6 DEF SizeOfFirst
<1> DEFINE U == {m \in Nat : m <= L => SizeOfFirst[m] \in Nat}
<1>8. 0 \in U
  BY <1>1, <1>7
<1>9. ASSUME NEW m \in Nat, m \in U
      PROVE  m + 1 \in U
  BY <1>1, <1>7, <1>9
<1> HIDE DEF U
<1>10. \A m \in Nat : m \in U
  BY <1>8, <1>9, SetInduction
<1>11. \A m \in 0..L : SizeOfFirst[m] \in Nat
  BY <1>1, <1>10 DEF U
<1>12. SizeOfFirst \in [0..L -> Nat]
  BY <1>7, <1>11
<1>13. SizeOfFirst[0] = 0
  BY <1>1, <1>7
<1>14. ASSUME NEW n \in 1..L
       PROVE  SizeOfFirst[n] = SizeOfFirst[n - 1] + Size(n)
  <2>1. n \in 0..L /\ n # 0
    BY <1>1
  <2> HIDE DEF L, Size
  <2> QED
    BY <1>7, <2>1
<1> QED
  BY <1>12, <1>13, <1>14

-----------------------------------------------------------------------------
\* Positions in what is to be sent, of the copy c: the kind of the unit there, of which file,
\* and for a byte how many of the file are before it.
Pos(at, i, k) == [at |-> at, file |-> i, progress |-> k]
Readable == {"count", "total", "meta", "path", "byte", "link"}
Positions == [at : Readable \cup {"end", "lost"}, file : Nat, progress : Nat]

\* Where nothing can be said of what follows.
Lost == Pos("lost", 0, 0)

\* Behind file i.
Behind(c, i) == Pos(IF i < Len(c.files) THEN "meta" ELSE "end", i + 1, 0)

\* The unit at a position, and the position after it.
UnitAt(c, p) ==
  CASE p.at = "count" -> Number(Len(c.files))
    [] p.at = "total" -> Number(c.total)
    [] p.at = "meta"  -> Meta(c.files[p.file])
    [] OTHER          -> Unit(p.at)

Following(c, p) ==
  CASE p.at = "count" -> Pos("total", 1, 0)
    [] p.at = "total" -> Behind(c, 0)
    [] p.at = "meta"  -> Pos("path", p.file, p.progress)
    [] p.at = "path"  -> IF Body(c.files[p.file]) = "next" THEN Behind(c, p.file)
                         ELSE Pos(Body(c.files[p.file]), p.file, p.progress)
    [] p.at = "byte"  -> IF p.progress + 1 < c.files[p.file].size
                         THEN Pos("byte", p.file, p.progress + 1) ELSE Behind(c, p.file)
    [] OTHER          -> Behind(c, p.file)

\* A unit leads from one position to another. A byte too many is where a stream
\* is lost.
Leads(c, p, u, q) ==
  \/ p.at \in Readable /\ u = UnitAt(c, p) /\ q = Following(c, p)
  \/ p.at \in {"meta", "end"} /\ u = Unit("byte") /\ q = Lost
  \/ p = Lost /\ q = Lost

\* The units of s lead from p to q, by way of the positions w.
By(c, s, p, q, w) ==
  /\ w \in [1..Len(s) + 1 -> Positions] /\ w[1] = p /\ w[Len(s) + 1] = q
  /\ \A j \in 1..Len(s) : Leads(c, w[j], s[j], w[j + 1])

Goes(c, s, p, q) == \E w \in [1..Len(s) + 1 -> Positions] : By(c, s, p, q, w)

\* No units lead nowhere else.
LEMMA GoesNowhere ==
  ASSUME NEW c, NEW p \in Positions
  PROVE  Goes(c, <<>>, p, p)
<1> DEFINE w == [j \in 1..1 |-> p]
<1>1. Len(<<>>) = 0
  OBVIOUS
<1>2. w \in [1..Len(<<>>) + 1 -> Positions] /\ By(c, <<>>, p, p, w)
  BY <1>1 DEF By
<1> QED
  BY <1>2 DEF Goes

\* A way starts and ends at positions.
LEMMA GoesEnds ==
  ASSUME NEW c, NEW s, NEW p, NEW q, Len(s) \in Nat, Goes(c, s, p, q)
  PROVE  p \in Positions /\ q \in Positions /\ (Len(s) = 0 => p = q)
<1>1. PICK w \in [1..Len(s) + 1 -> Positions] : By(c, s, p, q, w)
  BY DEF Goes
<1> QED
  BY <1>1 DEF By

\* One stream after another.
LEMMA GoesOn ==
  ASSUME NEW c, NEW s \in Seq(Units), NEW t \in Seq(Units), NEW p, NEW q, NEW r,
         Goes(c, s, p, q), Goes(c, t, q, r)
  PROVE  Goes(c, s \o t, p, r)
<1>1. PICK v \in [1..Len(s) + 1 -> Positions] : By(c, s, p, q, v)
  BY DEF Goes
<1>2. PICK w \in [1..Len(t) + 1 -> Positions] : By(c, t, q, r, w)
  BY DEF Goes
<1> DEFINE x == [j \in 1..Len(s) + Len(t) + 1 |-> IF j <= Len(s) THEN v[j] ELSE w[j - Len(s)]]
<1>3. Len(s) \in Nat /\ Len(t) \in Nat /\ Len(s \o t) = Len(s) + Len(t)
  BY ConcatProperties
<1>4. \A j \in 1..Len(s) + Len(t) : (s \o t)[j] = IF j <= Len(s) THEN s[j] ELSE t[j - Len(s)]
  BY ConcatProperties
<1>5. v[Len(s) + 1] = w[1] /\ v[1] = p /\ w[Len(t) + 1] = r
  BY <1>1, <1>2 DEF By
<1>6. x \in [1..Len(s \o t) + 1 -> Positions]
  BY <1>3
<1>7. x[1] = p /\ x[Len(s \o t) + 1] = r
  BY <1>3, <1>5
<1>8. ASSUME NEW j \in 1..Len(s \o t)
      PROVE  Leads(c, x[j], (s \o t)[j], x[j + 1])
  <2>1. CASE j <= Len(s)
    <3>1. Leads(c, v[j], s[j], v[j + 1])
      BY <1>1, <1>3, <2>1 DEF By
    <3>2. x[j] = v[j] /\ x[j + 1] = v[j + 1]
      BY <1>3, <1>5, <2>1
    <3> QED
      BY <1>3, <1>4, <2>1, <3>1, <3>2
  <2>2. CASE j > Len(s)
    <3> DEFINE i == j - Len(s)
    <3>0. i \in 1..Len(t) /\ i + 1 = (j + 1) - Len(s)
      BY <1>3, <2>2
    <3>1. Leads(c, w[i], t[i], w[i + 1])
      BY <1>2, <3>0 DEF By
    <3>2. x[j] = w[i] /\ x[j + 1] = w[i + 1]
      BY <1>3, <2>2, <3>0
    <3> QED
      BY <1>3, <1>4, <2>2, <3>1, <3>2
  <2> QED
    BY <1>3, <2>1, <2>2
<1> QED
  BY <1>6, <1>7, <1>8 DEF Goes, By

\* A stream is cut in two.
LEMMA GoesThrough ==
  ASSUME NEW c, NEW s \in Seq(Units), NEW p, NEW r, NEW n \in 0..Len(s),
         NEW w \in [1..Len(s) + 1 -> Positions], By(c, s, p, r, w)
  PROVE  /\ Goes(c, SubSeq(s, 1, n), p, w[n + 1])
         /\ Goes(c, SubSeq(s, n + 1, Len(s)), w[n + 1], r)
         /\ SubSeq(s, 1, n) \in Seq(Units) /\ SubSeq(s, n + 1, Len(s)) \in Seq(Units)
         /\ Len(SubSeq(s, 1, n)) = n
<1> DEFINE a == SubSeq(s, 1, n)
           b == SubSeq(s, n + 1, Len(s))
           v == [j \in 1..n + 1 |-> w[j]]
           x == [j \in 1..Len(s) - n + 1 |-> w[n + j]]
<1>2. Len(s) \in Nat /\ \A j \in 1..Len(s) : s[j] \in Units
  BY ElementOfSeq
<1>3. a \in Seq(Units) /\ Len(a) = n /\ \A j \in 1..n : a[j] = s[j]
  BY <1>2, SubSeqProperties
<1>4. b \in Seq(Units) /\ Len(b) = Len(s) - n
  BY <1>2, SubSeqProperties
<1>5. \A j \in 1..Len(s) - n : b[j] = s[n + j]
  <2>1. \A j \in 1..Len(s) - (n + 1) + 1 : b[j] = s[(n + 1) + j - 1]
    BY <1>2, SubSeqProperties
  <2> QED
    BY <1>2, <2>1
<1>6. By(c, a, p, w[n + 1], v)
  <2>1. v \in [1..Len(a) + 1 -> Positions] /\ v[1] = p /\ v[Len(a) + 1] = w[n + 1]
    <3>1. w[1] = p /\ v[1] = w[1] /\ v[n + 1] = w[n + 1] /\ \A j \in 1..n + 1 : w[j] \in Positions
      BY <1>2 DEF By
    <3> QED
      BY <1>2, <1>3, <3>1
  <2>2. ASSUME NEW j \in 1..Len(a)
        PROVE  Leads(c, v[j], a[j], v[j + 1])
    <3>1. j \in 1..Len(s) /\ v[j] = w[j] /\ v[j + 1] = w[j + 1] /\ a[j] = s[j]
      BY <1>2, <1>3
    <3> QED
      BY <3>1 DEF By
  <2> QED
    BY <2>1, <2>2 DEF By
<1>7. By(c, b, w[n + 1], r, x)
  <2>1. x \in [1..Len(b) + 1 -> Positions] /\ x[1] = w[n + 1] /\ x[Len(b) + 1] = r
    BY <1>2, <1>4 DEF By
  <2>2. ASSUME NEW j \in 1..Len(b)
        PROVE  Leads(c, x[j], b[j], x[j + 1])
    <3>1. j \in 1..Len(s) - n /\ n + j \in 1..Len(s)
      BY <1>2, <1>4
    <3>2. x[j] = w[n + j] /\ x[j + 1] = w[n + j + 1] /\ b[j] = s[n + j]
      BY <1>2, <1>5, <3>1
    <3> QED
      BY <3>1, <3>2 DEF By
  <2> QED
    BY <2>1, <2>2 DEF By
<1> QED
  BY <1>3, <1>4, <1>6, <1>7 DEF Goes, By

\* One unit, and two.
LEMMA OneGoes ==
  ASSUME NEW c, NEW p \in Positions, NEW u, NEW q \in Positions, Leads(c, p, u, q)
  PROVE  Goes(c, <<u>>, p, q)
<1> DEFINE w == [j \in 1..2 |-> IF j = 1 THEN p ELSE q]
<1>1. Len(<<u>>) = 1 /\ <<u>>[1] = u
  OBVIOUS
<1>2. w \in [1..Len(<<u>>) + 1 -> Positions] /\ By(c, <<u>>, p, q, w)
  BY <1>1 DEF By
<1> QED
  BY <1>2 DEF Goes

\* A way of two units.
LEMMA TwoGo ==
  ASSUME NEW c, NEW p \in Positions, NEW u \in Units, NEW q \in Positions, NEW v \in Units,
         NEW r \in Positions, Leads(c, p, u, q), Leads(c, q, v, r)
  PROVE  Goes(c, <<u, v>>, p, r)
<1>1. Goes(c, <<u>>, p, q) /\ Goes(c, <<v>>, q, r)
  BY OneGoes
<1>2. <<u>> \in Seq(Units) /\ <<v>> \in Seq(Units) /\ <<u, v>> \in Seq(Units)
  OBVIOUS
<1>3. <<u>> \o <<v>> \in Seq(Units) /\ Len(<<u>> \o <<v>>) = 2 /\ Len(<<u, v>>) = 2
  BY <1>2, ConcatProperties
<1>4. (<<u>> \o <<v>>)[1] = u /\ (<<u>> \o <<v>>)[2] = v
  <2>1. Len(<<u>>) = 1 /\ Len(<<v>>) = 1
    OBVIOUS
  <2> QED
    BY <1>2, <2>1, ConcatProperties
<1>5. <<u>> \o <<v>> = <<u, v>>
  <2>1. \A i \in 1..Len(<<u>> \o <<v>>) : (<<u>> \o <<v>>)[i] = <<u, v>>[i]
    BY <1>3, <1>4
  <2> QED
    BY <1>2, <1>3, <2>1, SeqEqual
<1> QED
  BY <1>1, <1>2, <1>5, GoesOn

\* Behind a unit too many everything is lost.
LEMMA LostStays ==
  ASSUME NEW c, NEW s \in Seq(Units), NEW w \in [1..Len(s) + 1 -> Positions], NEW p, NEW r,
         By(c, s, p, r, w), NEW n \in 1..Len(s) + 1, w[n] = Lost
  PROVE  r = Lost
<1> DEFINE S == {m \in Nat : n + m <= Len(s) + 1 => w[n + m] = Lost}
<1>0. Len(s) \in Nat
  BY LenProperties
<1>1. Len(s) \in Nat /\ n \in Nat
  BY <1>0
<1>2. 0 \in S
  BY <1>1
<1>3. ASSUME NEW m \in Nat, m \in S
      PROVE  m + 1 \in S
  <2> SUFFICES ASSUME n + (m + 1) <= Len(s) + 1
               PROVE  w[n + (m + 1)] = Lost
    OBVIOUS
  <2>1. n + m \in 1..Len(s) /\ w[n + m] = Lost /\ n + (m + 1) = n + m + 1
    BY <1>1, <1>3
  <2>2. Leads(c, Lost, s[n + m], w[n + m + 1])
    BY <2>1 DEF By
  <2> QED
    BY <2>1, <2>2 DEF Leads, Lost, Pos, Readable
<1> HIDE DEF S
<1>4. Len(s) + 1 - n \in S
  BY <1>1, <1>2, <1>3, SetInduction
<1>5. w[n + (Len(s) + 1 - n)] = Lost
  BY <1>1, <1>4 DEF S
<1> QED
  BY <1>1, <1>5 DEF By

-----------------------------------------------------------------------------
\* The bytes of file i, of which m are before a position, and too many.
Along(c, i, m) ==
  IF m < c.files[i].size THEN Pos("byte", i, m)
  ELSE IF m = c.files[i].size THEN Behind(c, i) ELSE Lost

\* What a file is made of.
LEMMA SizeIsNumber ==
  ASSUME NEW c, c.files \in Seq(FileType), NEW i \in 1..Len(c.files)
  PROVE  /\ c.files[i] \in FileType /\ c.files[i].size \in Nat /\ c.files[i].content \in Nat
         /\ c.files[i].kind \in {"reg", "dir", "link"} /\ i \in Nat /\ Len(c.files) \in Nat
<1>1. Len(c.files) \in Nat /\ c.files[i] \in FileType
  BY LenProperties, ElementOfSeq
<1> QED
  BY <1>1 DEF FileType

\* A byte leads to the next position of a file, if that much of it was announced.
LEMMA AlongIsPosition ==
  ASSUME NEW c, c.files \in Seq(FileType), NEW i \in 1..Len(c.files), NEW m \in Nat
  PROVE  /\ Along(c, i, m) \in Positions
         /\ m <= c.files[i].size => Leads(c, Along(c, i, m), Unit("byte"), Along(c, i, m + 1))
<1>2. c.files[i].size \in Nat /\ i \in Nat /\ Len(c.files) \in Nat
  BY SizeIsNumber
<1>3. Behind(c, i) \in Positions /\ Behind(c, i).at \in {"meta", "end"} /\ Pos("byte", i, m) \in Positions
  BY <1>2 DEF Behind, Pos, Positions, Readable
<1>4. Lost \in Positions
  BY DEF Lost, Pos, Positions
<1>5. ASSUME m < c.files[i].size
      PROVE  Leads(c, Along(c, i, m), Unit("byte"), Along(c, i, m + 1))
  <2>1. Along(c, i, m) = Pos("byte", i, m)
    BY <1>5 DEF Along
  <2>2. UnitAt(c, Pos("byte", i, m)) = Unit("byte")
    BY DEF UnitAt, Pos
  <2>3. Following(c, Pos("byte", i, m)) = Along(c, i, m + 1)
    BY <1>2, <1>5 DEF Following, Along, Pos
  <2> QED
    BY <2>1, <2>2, <2>3 DEF Leads, Readable, Pos
<1>6. ASSUME m = c.files[i].size
      PROVE  Leads(c, Along(c, i, m), Unit("byte"), Along(c, i, m + 1))
  BY <1>2, <1>3, <1>6 DEF Along, Leads
<1> QED
  BY <1>2, <1>3, <1>4, <1>5, <1>6 DEF Along

\* Bytes lead along the file, and behind its end nowhere.
LEMMA BytesGo ==
  ASSUME NEW c, c.files \in Seq(FileType), NEW i \in 1..Len(c.files), NEW k \in Nat, NEW n \in Nat,
         k < c.files[i].size
  PROVE  Bytes(n) \in Seq(Units) /\ Goes(c, Bytes(n), Pos("byte", i, k), Along(c, i, k + n))
<1> DEFINE w == [j \in 1..n + 1 |-> Along(c, i, k + j - 1)]
<1>1. Unit("byte") \in Units
  BY DEF Unit, Units
<1>2. Bytes(n) \in Seq(Units) /\ Len(Bytes(n)) = n /\ \A j \in 1..n : Bytes(n)[j] = Unit("byte")
  BY <1>1 DEF Bytes
<1>3. w \in [1..n + 1 -> Positions]
  BY AlongIsPosition
<1>4. w[1] = Pos("byte", i, k) /\ w[n + 1] = Along(c, i, k + n)
  BY DEF Along
<1>5. ASSUME NEW j \in 1..n
      PROVE  Leads(c, w[j], Unit("byte"), w[j + 1])
  <2>0. j \in 1..n + 1 /\ j + 1 \in 1..n + 1 /\ k + (j + 1) - 1 = (k + j - 1) + 1
    OBVIOUS
  <2>1. k + j - 1 \in Nat /\ w[j] = Along(c, i, k + j - 1) /\ w[j + 1] = Along(c, i, (k + j - 1) + 1)
    BY <2>0
  <2>2. CASE k + j - 1 <= c.files[i].size
    BY <2>1, <2>2, AlongIsPosition
  <2>3. CASE k + j - 1 > c.files[i].size
    <3>1. Along(c, i, k + j - 1) = Lost /\ Along(c, i, (k + j - 1) + 1) = Lost
      <4>1. c.files[i].size \in Nat
        BY SizeIsNumber
      <4> QED
        BY <2>1, <2>3, <4>1 DEF Along
    <3> QED
      BY <2>1, <3>1 DEF Leads
  <2>4. c.files[i].size \in Nat
    BY SizeIsNumber
  <2> QED
    BY <2>1, <2>2, <2>3, <2>4
<1> QED
  BY <1>2, <1>3, <1>4, <1>5 DEF Goes, By

\* Whoever takes no more than what is left of a file is along it.
LEMMA BytesTaken ==
  ASSUME NEW c, c.files \in Seq(FileType), NEW i \in 1..Len(c.files), NEW k \in Nat, k < c.files[i].size,
         NEW s \in Seq(Units), NEW r, NEW w \in [1..Len(s) + 1 -> Positions],
         By(c, s, Pos("byte", i, k), r, w), NEW n \in 0..Len(s), k + n <= c.files[i].size
  PROVE  w[n + 1] = Along(c, i, k + n)
<1> DEFINE S == {m \in Nat : m <= n => w[m + 1] = Along(c, i, k + m)}
<1>1. c.files[i].size \in Nat /\ Len(s) \in Nat /\ n \in Nat
  <2>1. Len(s) \in Nat
    BY LenProperties
  <2> QED
    BY <2>1, SizeIsNumber
<1>2. 0 \in S
  BY DEF By, Along
<1>3. ASSUME NEW m \in Nat, m \in S
      PROVE  m + 1 \in S
  <2> SUFFICES ASSUME m + 1 <= n
               PROVE  w[(m + 1) + 1] = Along(c, i, k + (m + 1))
    OBVIOUS
  <2>1. m + 1 \in 1..Len(s) /\ k + m < c.files[i].size /\ w[m + 1] = Pos("byte", i, k + m)
    BY <1>1, <1>3 DEF Along
  <2>2. Leads(c, Pos("byte", i, k + m), s[m + 1], w[(m + 1) + 1])
    BY <2>1 DEF By
  <2>3. w[(m + 1) + 1] = Following(c, Pos("byte", i, k + m))
    BY <2>2 DEF Leads, Pos, Lost
  <2>4. Following(c, Pos("byte", i, k + m)) = Along(c, i, (k + m) + 1)
    <3>1. Following(c, Pos("byte", i, k + m)) =
            IF (k + m) + 1 < c.files[i].size THEN Pos("byte", i, (k + m) + 1) ELSE Behind(c, i)
      BY DEF Following, Pos
    <3> DEFINE a == c.files[i].size
               b == (k + m) + 1
    <3>2. a \in Nat /\ b \in Nat /\ b <= a
      BY <1>1, <2>1
    <3>3. Along(c, i, b) = IF b < a THEN Pos("byte", i, b) ELSE IF b = a THEN Behind(c, i) ELSE Lost
      BY DEF Along
    <3> HIDE DEF a, b
    <3>4. b < a \/ b = a
      BY <3>2
    <3> QED
      BY <3>1, <3>3, <3>4 DEF a, b
  <2> QED
    BY <1>1, <2>3, <2>4
<1> HIDE DEF S
<1>4. n \in S
  BY <1>1, <1>2, <1>3, SetInduction
<1> QED
  BY <1>4 DEF S

-----------------------------------------------------------------------------
\* What a reader finds: two units, one, and bytes of the file it is in.
LEMMA TwoTaken ==
  ASSUME NEW c, NEW s \in Seq(Units), Len(s) >= 2, NEW p, NEW r, Goes(c, s, p, r)
  PROVE  \E q, m \in Positions :
           /\ Leads(c, p, s[1], m) /\ Leads(c, m, s[2], q)
           /\ Goes(c, SubSeq(s, 1, 2), p, q) /\ Goes(c, SubSeq(s, 3, Len(s)), q, r)
           /\ SubSeq(s, 1, 2) \in Seq(Units) /\ SubSeq(s, 3, Len(s)) \in Seq(Units)
<1>1. PICK w \in [1..Len(s) + 1 -> Positions] : By(c, s, p, r, w)
  BY DEF Goes
<1>2. Len(s) \in Nat /\ 2 \in 0..Len(s) /\ 1 \in 1..Len(s) /\ 2 \in 1..Len(s)
  BY LenProperties
<1>3. w[2] \in Positions /\ w[3] \in Positions /\ 2 + 1 = 3 /\ 1 + 1 = 2
  BY <1>2
<1>4. Leads(c, p, s[1], w[2]) /\ Leads(c, w[2], s[2], w[3])
  BY <1>1, <1>2, <1>3 DEF By
<1>5. /\ Goes(c, SubSeq(s, 1, 2), p, w[2 + 1]) /\ Goes(c, SubSeq(s, 2 + 1, Len(s)), w[2 + 1], r)
      /\ SubSeq(s, 1, 2) \in Seq(Units) /\ SubSeq(s, 2 + 1, Len(s)) \in Seq(Units)
  BY <1>1, <1>2, GoesThrough
<1> QED
  BY <1>3, <1>4, <1>5

\* A way with a unit in it goes over that unit and on.
LEMMA OneTaken ==
  ASSUME NEW c, NEW s \in Seq(Units), s # <<>>, NEW p, NEW r, Goes(c, s, p, r)
  PROVE  /\ \E q \in Positions : /\ Leads(c, p, s[1], q)
                                 /\ Goes(c, <<s[1]>>, p, q) /\ Goes(c, Tail(s), q, r)
         /\ <<s[1]>> \in Seq(Units) /\ Tail(s) \in Seq(Units)
<1>1. PICK w \in [1..Len(s) + 1 -> Positions] : By(c, s, p, r, w)
  BY DEF Goes
<1>2. Len(s) \in Nat /\ 1 \in 0..Len(s) /\ 1 \in 1..Len(s)
  BY EmptySeq
<1>3. w[1] = p /\ w[1] \in Positions /\ w[2] \in Positions /\ 1 + 1 = 2
  BY <1>1, <1>2 DEF By
<1>4. Leads(c, p, s[1], w[2])
  BY <1>1, <1>2, <1>3 DEF By
<1>5. Goes(c, SubSeq(s, 1 + 1, Len(s)), w[1 + 1], r) /\ SubSeq(s, 1 + 1, Len(s)) \in Seq(Units)
  BY <1>1, <1>2, GoesThrough
<1>6. Tail(s) = SubSeq(s, 2, Len(s))
  BY TailIsSubSeq
<1>7. s[1] \in Units
  BY <1>2, ElementOfSeq
<1>8. Goes(c, <<s[1]>>, p, w[2])
  BY <1>3, <1>4, OneGoes
<1>9. <<s[1]>> \in Seq(Units)
  BY <1>7
<1> QED
  BY <1>3, <1>4, <1>5, <1>6, <1>8, <1>9

\* As many bytes as a file still has lead along it.
LEMMA SomeTaken ==
  ASSUME NEW c, c.files \in Seq(FileType), NEW i \in 1..Len(c.files), NEW k \in Nat,
         k < c.files[i].size, NEW s \in Seq(Units), NEW n \in 0..Len(s),
         k + n <= c.files[i].size, NEW r, Goes(c, s, Pos("byte", i, k), r)
  PROVE  /\ Goes(c, SubSeq(s, 1, n), Pos("byte", i, k), Along(c, i, k + n))
         /\ Goes(c, SubSeq(s, n + 1, Len(s)), Along(c, i, k + n), r)
         /\ SubSeq(s, 1, n) \in Seq(Units) /\ SubSeq(s, n + 1, Len(s)) \in Seq(Units)
<1>1. PICK w \in [1..Len(s) + 1 -> Positions] : By(c, s, Pos("byte", i, k), r, w)
  BY DEF Goes
<1>2. w[n + 1] = Along(c, i, k + n)
  BY <1>1, BytesTaken
<1> QED
  BY <1>1, <1>2, GoesThrough

\* What is lost stays lost, and what is not was not.
LEMMA LostGoesOn ==
  ASSUME NEW c, NEW t \in Seq(Units)
  PROVE  Goes(c, t, Lost, Lost)
<1> DEFINE w == [j \in 1..Len(t) + 1 |-> Lost]
<1>1. Lost \in Positions /\ Len(t) \in Nat
  BY LenProperties DEF Lost, Pos, Positions
<1>2. w \in [1..Len(t) + 1 -> Positions] /\ By(c, t, Lost, Lost, w)
  BY <1>1 DEF By, Leads
<1> QED
  BY <1>2 DEF Goes

\* Who is on a way that is not lost finds the unit of the position it is at.
LEMMA FoundWhereNotLost ==
  ASSUME NEW c, NEW s \in Seq(Units), s # <<>>, NEW p, NEW r, Goes(c, s, p, r), r # Lost
  PROVE  p.at \in Readable /\ s[1] = UnitAt(c, p)
<1>1. PICK w \in [1..Len(s) + 1 -> Positions] : By(c, s, p, r, w)
  BY DEF Goes
<1>2. Len(s) \in Nat /\ 1 \in 1..Len(s) /\ 2 \in 1..Len(s) + 1 /\ 1 + 1 = 2
  BY EmptySeq
<1>3. w[2] # Lost
  BY <1>1, <1>2, LostStays
<1>4. p = w[1] /\ p # Lost
  <2>1. p = w[1]
    BY <1>1 DEF By
  <2>2. 1 \in 1..Len(s) + 1
    BY <1>2
  <2> QED
    BY <1>1, <2>1, <2>2, LostStays
<1>5. Leads(c, p, s[1], w[2])
  BY <1>1, <1>2, <1>4 DEF By
<1> QED
  BY <1>3, <1>4, <1>5 DEF Leads

\* The units at the positions a reader can be at.
LEMMA HeaderUnits ==
  ASSUME NEW c, NEW u, NEW m, NEW v, NEW q,
         Leads(c, Pos("count", 1, 0), u, m), Leads(c, m, v, q)
  PROVE  u = Number(Len(c.files)) /\ v = Number(c.total) /\ q = Behind(c, 0)
<1>1. u = Number(Len(c.files)) /\ m = Pos("total", 1, 0)
  BY DEF Leads, UnitAt, Following, Pos, Lost
<1> QED
  BY <1>1 DEF Leads, UnitAt, Following, Pos, Lost

PastPath(c, i) == IF Body(c.files[i]) = "next" THEN Behind(c, i) ELSE Pos(Body(c.files[i]), i, 0)

\* Behind metadata that were sent lie a path and what the file has.
LEMMA MetaUnits ==
  ASSUME NEW c, NEW i, NEW u, NEW m, NEW v, NEW q, u.unit = "meta",
         Leads(c, Pos("meta", i, 0), u, m), Leads(c, m, v, q)
  PROVE  u = Meta(c.files[i]) /\ q = PastPath(c, i)
<1>1. u = Meta(c.files[i]) /\ m = Pos("path", i, 0)
  <2>1. Unit("byte").unit = "byte"
    BY DEF Unit
  <2> QED
    BY <2>1 DEF Leads, UnitAt, Following, Pos, Lost
<1> QED
  BY <1>1 DEF Leads, UnitAt, Following, Pos, Lost, PastPath

\* Behind a link lies the next file.
LEMMA LinkUnit ==
  ASSUME NEW c, NEW i, NEW u, NEW q, Leads(c, Pos("link", i, 0), u, q)
  PROVE  q = Behind(c, i)
  BY DEF Leads, UnitAt, Following, Pos, Lost

-----------------------------------------------------------------------------
\* The inductive invariant. Where each program is in what is to be sent:
Copy == [files |-> files, total |-> TotalSize]

SndPos == Pos(IF snd.at = "done" THEN "end" ELSE snd.at, snd.file, snd.progress)
SrvPos == Pos(srv.at, info.completed + 1, IF srv.at = "byte" THEN srv.progress ELSE 0)
RcvPos == Pos(rcv.at, Len(rcv.done) + 1, rcv.progress)

Inside == {"meta", "byte", "link"}
Broken == {"failed", "crashed"}

\* The sender is in a file that there is, and where that file has such a unit.
SndOK ==
  /\ snd.at = "count" => SndPos = Pos("count", 1, 0)
  /\ snd.at \in Inside => snd.file \in 1..Len(files)
  /\ snd.at \in {"byte", "link"} => snd.at = Body(files[snd.file])
  /\ snd.at = "byte" => snd.progress < files[snd.file].size
  /\ snd.at \in {"meta", "link", "done"} => snd.progress = 0
  /\ snd.at = "done" => snd.file = Len(files) + 1

\* So is the proxy, whose figures say how much is behind it.
SrvOK ==
  /\ srv.at = "count" => info = [all |-> 0, completed |-> 0, total |-> 0, progress |-> 0,
                                 cur_size |-> 0, cur_progress |-> 0]
  /\ srv.at \in Inside \cup {"end"} =>
       /\ info.all = Len(files) /\ info.total = TotalSize
       /\ info.progress = SizeOfFirst[info.completed] + (IF srv.at = "byte" THEN srv.progress ELSE 0)
  /\ srv.at \in Inside => info.completed < Len(files)
  /\ srv.at \in {"byte", "link"} =>
       /\ srv.meta = Meta(files[info.completed + 1]) /\ srv.at = Body(srv.meta)
       /\ info.cur_size = srv.meta.size
  /\ srv.at = "byte" => srv.progress < srv.meta.size
  /\ srv.at = "end" => info.completed = Len(files)

\* And the receiver, whose files are those that were sent.
RcvOK ==
  /\ rcv.at = "count" => rcv.done = <<>>
  /\ rcv.at \in Inside \cup {"end"} => rcv.all = Len(files)
  /\ rcv.at \in Inside => Len(rcv.done) < Len(files)
  /\ rcv.at \in {"byte", "link"} =>
       rcv.meta = Meta(files[Len(rcv.done) + 1]) /\ rcv.at = Body(rcv.meta)
  /\ rcv.at = "byte" => rcv.progress < rcv.meta.size
  /\ rcv.at \in {"count", "meta", "link", "end"} => rcv.progress = 0
  /\ rcv.at = "end" => Len(rcv.done) = Len(files)
  /\ Len(rcv.done) <= Len(files)
  /\ \A i \in 1..Len(rcv.done) : rcv.done[i] = Meta(files[i])

\* What is in a connection leads from its reader to its writer, but for a
\* writer that has gone; the source is lost behind a file that has grown.
Reaches(q) == IF q = Lost THEN ~Unchanged ELSE snd.at = "failed" \/ q = SndPos
UpOK == srv.at \notin Broken => \E q \in Positions : Goes(Copy, up, SrvPos, q) /\ Reaches(q)
DownOK ==
  rcv.at # "failed" => \E q \in Positions : /\ Goes(Copy, down, RcvPos, q)
                                            /\ q # Lost /\ (srv.at \in Broken \/ q = SrvPos)

CopyInv ==
  /\ TypeOK /\ SndOK /\ SrvOK /\ RcvOK /\ UpOK /\ DownOK
  /\ ProgressSound /\ CompletedMeansProxied

\* What is copied.
LEMMA CopyIsOfFiles == Copy.files = files /\ Copy.total = TotalSize
  BY DEF Copy

\* What depends on the files alone stays while they do.
LEMMA SameFiles ==
  ASSUME UNCHANGED files
  PROVE  /\ SizeOfFirst' = SizeOfFirst /\ TotalSize' = TotalSize /\ Copy' = Copy
         /\ Unchanged' = Unchanged
<1>1. SizeOfFirst' = SizeOfFirst
  BY DEF SizeOfFirst
<1>2. TotalSize' = TotalSize
  BY <1>1 DEF TotalSize
<1>3. Copy' = Copy
  BY <1>2 DEF Copy
<1>4. Unchanged' = Unchanged
  BY DEF Unchanged
<1> QED
  BY <1>1, <1>2, <1>3, <1>4

\* The sizes of the first files are numbers, none above the total.
LEMMA SizesTyped ==
  ASSUME files \in Seq(FileType)
  PROVE  /\ TotalSize \in Nat /\ SizeOfFirst[0] = 0
         /\ \A n \in 0..Len(files) : SizeOfFirst[n] \in Nat /\ SizeOfFirst[n] <= TotalSize
         /\ \A n \in 1..Len(files) : SizeOfFirst[n] =
              SizeOfFirst[n - 1] + (IF files[n].kind = "reg" THEN files[n].size ELSE 0)
<1> DEFINE L == Len(files)
           S == {m \in Nat : m <= L => SizeOfFirst[L - m] <= TotalSize}
<1>1. L \in Nat /\ \A n \in 0..L : SizeOfFirst[n] \in Nat
  BY SizesAddUp, LenProperties
<1>2. TotalSize \in Nat /\ TotalSize = SizeOfFirst[L]
  BY <1>1 DEF TotalSize
<1>3. 0 \in S
  BY <1>1, <1>2
<1>4. ASSUME NEW m \in Nat, m \in S
      PROVE  m + 1 \in S
  <2> SUFFICES ASSUME m + 1 <= L
               PROVE  SizeOfFirst[L - (m + 1)] <= TotalSize
    OBVIOUS
  <2>1. L - m \in 1..L /\ (L - m) - 1 = L - (m + 1) /\ SizeOfFirst[L - m] <= TotalSize
    BY <1>1, <1>4
  <2>2. files[L - m].size \in Nat
    BY <1>1, <2>1, SizeIsNumber, CopyIsOfFiles
  <2>3. SizeOfFirst[L - m] = SizeOfFirst[(L - m) - 1] +
          (IF files[L - m].kind = "reg" THEN files[L - m].size ELSE 0)
    BY <2>1, SizesAddUp
  <2>4. SizeOfFirst[L - (m + 1)] \in Nat /\ SizeOfFirst[L - m] \in Nat
    BY <1>1, <2>1
  <2> QED
    BY <1>2, <2>1, <2>2, <2>3, <2>4
<1> HIDE DEF S
<1>5. \A m \in Nat : m \in S
  BY <1>3, <1>4, SetInduction
<1>6. ASSUME NEW n \in 0..L
      PROVE  SizeOfFirst[n] <= TotalSize
  <2>1. L - n \in Nat /\ L - n \in S /\ L - n <= L /\ L - (L - n) = n
    BY <1>1, <1>5
  <2> QED
    BY <2>1 DEF S
<1> QED
  BY <1>1, <1>2, <1>6, SizesAddUp

\* A copy starts right.
LEMMA StartsRight == Init => CopyInv
<1> SUFFICES ASSUME Init PROVE CopyInv
  OBVIOUS
<1> USE DEF Init
<1>1. files \in Seq(FileType) /\ clock \in {"same", "below_ms", "ms"}
  BY CopyAssumption
<1>2. TypeOK
  BY <1>1 DEF TypeOK, Ats, Metas, NoMeta
<1>3. SndOK /\ SrvOK /\ RcvOK
  BY DEF SndOK, SrvOK, RcvOK, SndPos, Pos, Inside
<1>4. Pos("count", 1, 0) \in Positions /\ Pos("count", 1, 0) # Lost
  BY DEF Pos, Positions, Readable, Lost
<1>5. SndPos = Pos("count", 1, 0) /\ SrvPos = Pos("count", 1, 0) /\ RcvPos = Pos("count", 1, 0)
  BY DEF SndPos, SrvPos, RcvPos, Pos
<1>6. Goes(Copy, <<>>, Pos("count", 1, 0), Pos("count", 1, 0))
  BY <1>4, GoesNowhere
<1>7. UpOK /\ DownOK
  BY <1>4, <1>5, <1>6 DEF UpOK, DownOK, Reaches
<1>8. ProgressSound /\ CompletedMeansProxied
  BY DEF ProgressSound, CompletedMeansProxied
<1> QED
  BY <1>2, <1>3, <1>7, <1>8 DEF CopyInv

-----------------------------------------------------------------------------
\* The sender. Whatever it adds to what it has sent leads on from where it is.
LEMMA SenderAdds ==
  ASSUME CopyInv, UNCHANGED <<files, srv, info, clock, down, rcv, view>>,
         NEW t \in Seq(Units), up' = up \o t, NEW q \in Positions, Goes(Copy, t, SndPos, q),
         snd.at # "failed", IF q = Lost THEN ~Unchanged ELSE q = SndPos',
         snd' \in [at : {"count", "meta", "byte", "link", "done", "failed"}, file : Nat, progress : Nat],
         SndOK'
  PROVE  CopyInv'
<1>1. /\ SizeOfFirst' = SizeOfFirst /\ TotalSize' = TotalSize /\ Copy' = Copy
      /\ Unchanged' = Unchanged
  BY SameFiles
<1>2. TypeOK'
  <2>1. up' \in Seq(Units)
    BY ConcatProperties DEF CopyInv, TypeOK
  <2> QED
    BY <2>1 DEF CopyInv, TypeOK
<1>3. SrvOK' /\ RcvOK' /\ DownOK' /\ ProgressSound' /\ CompletedMeansProxied'
  BY <1>1 DEF CopyInv, SrvOK, RcvOK, DownOK, ProgressSound, CompletedMeansProxied, SrvPos, RcvPos
<1>4. UpOK'
  <2> SUFFICES ASSUME srv.at \notin Broken
               PROVE  \E r \in Positions : Goes(Copy, up', SrvPos, r) /\ Reaches(r)'
    BY <1>1 DEF UpOK, SrvPos
  <2>1. PICK r \in Positions : Goes(Copy, up, SrvPos, r) /\ Reaches(r)
    BY DEF CopyInv, UpOK
  <2>2. up \in Seq(Units)
    BY DEF CopyInv, TypeOK
  <2>3. CASE r = Lost
    <3>1. Goes(Copy, up', SrvPos, Lost)
      BY <2>1, <2>2, <2>3, LostGoesOn, GoesOn
    <3> QED
      BY <1>1, <2>1, <2>3, <3>1 DEF Reaches
  <2>4. CASE r # Lost
    <3>1. r = SndPos
      BY <2>1, <2>4 DEF Reaches
    <3>2. Goes(Copy, up', SrvPos, q)
      BY <2>1, <2>2, <3>1, GoesOn
    <3> QED
      BY <1>1, <3>2 DEF Reaches
  <2> QED
    BY <2>3, <2>4
<1> QED
  BY <1>2, <1>3, <1>4 DEF CopyInv

\* What is behind a file is the next one, or the end.
LEMMA BehindIsPosition ==
  ASSUME files \in Seq(FileType), NEW i \in 0..Len(files)
  PROVE  /\ Behind(Copy, i) = Pos(IF i < Len(files) THEN "meta" ELSE "end", i + 1, 0)
         /\ Behind(Copy, i) \in Positions /\ Behind(Copy, i) # Lost
  BY LenProperties, CopyIsOfFiles DEF Behind, Pos, Positions, Readable, Lost

\* On to the next file.
LEMMA SendNextRight ==
  ASSUME files \in Seq(FileType), NEW i \in 0..Len(files), UNCHANGED files, snd' = SendNext(i)
  PROVE  /\ SndPos' = Behind(Copy, i) /\ SndOK'
         /\ snd' \in [at : {"count", "meta", "byte", "link", "done", "failed"}, file : Nat, progress : Nat]
<1>1. Len(files) \in Nat
  BY LenProperties
<1>2. SndPos' = Behind(Copy, i)
  BY <1>1, BehindIsPosition DEF SndPos, SendNext, Pos
<1>3. SndOK'
  BY <1>1 DEF SndOK, SendNext, Inside
<1> QED
  BY <1>1, <1>2, <1>3 DEF SendNext

\* The sender announces how much there is.
LEMMA SendHeaderKeeps == ASSUME CopyInv, SendHeader PROVE CopyInv'
<1> DEFINE t == <<Number(Len(files)), Number(TotalSize)>>
<1>1. files \in Seq(FileType) /\ Len(files) \in Nat /\ TotalSize \in Nat
  BY SizesTyped, LenProperties DEF CopyInv, TypeOK
<1>2. Number(Len(files)) \in Units /\ Number(TotalSize) \in Units
  BY <1>1 DEF Number, Units
<1>3. SndPos = Pos("count", 1, 0) /\ Pos("count", 1, 0) \in Positions /\ Pos("total", 1, 0) \in Positions
  BY DEF SendHeader, Sending, CopyInv, SndOK, Pos, Positions, Readable
<1>4. /\ Leads(Copy, Pos("count", 1, 0), Number(Len(files)), Pos("total", 1, 0))
      /\ Leads(Copy, Pos("total", 1, 0), Number(TotalSize), Behind(Copy, 0))
  BY CopyIsOfFiles DEF Leads, UnitAt, Following, Pos, Readable
<1>5. 0 \in 0..Len(files) /\ Behind(Copy, 0) \in Positions /\ Behind(Copy, 0) # Lost
  BY <1>1, BehindIsPosition
<1>6. Goes(Copy, t, SndPos, Behind(Copy, 0))
  BY <1>2, <1>3, <1>4, <1>5, TwoGo
<1>7. /\ SndPos' = Behind(Copy, 0) /\ SndOK'
      /\ snd' \in [at : {"count", "meta", "byte", "link", "done", "failed"}, file : Nat, progress : Nat]
  BY <1>1, <1>5, SendNextRight DEF SendHeader
<1>8. t \in Seq(Units)
  BY <1>2
<1> QED
  BY <1>5, <1>6, <1>7, <1>8, SenderAdds DEF SendHeader, Sending

\* Metadata and a path lead past the path.
LEMMA PathLeads ==
  ASSUME NEW c, c.files \in Seq(FileType), NEW i \in 1..Len(c.files)
  PROVE  /\ Pos("meta", i, 0) \in Positions /\ Pos("path", i, 0) \in Positions
         /\ Meta(c.files[i]) \in Units /\ Unit("path") \in Units
         /\ Leads(c, Pos("meta", i, 0), Meta(c.files[i]), Pos("path", i, 0))
         /\ Leads(c, Pos("path", i, 0), Unit("path"), PastPath(c, i))
<1>1. i \in Nat /\ c.files[i].kind \in {"reg", "dir", "link"} /\ c.files[i].size \in Nat
  BY SizeIsNumber
<1> QED
  BY <1>1 DEF Leads, UnitAt, Following, Pos, Readable, Positions, PastPath, Meta, Unit, Units, Metas

\* The sender sends the metadata and the path of a file.
LEMMA SendMetaKeeps == ASSUME CopyInv, SendMeta PROVE CopyInv'
<1> DEFINE i == snd.file
           f == files[i]
           t == <<Meta(f), Unit("path")>>
<1>1. /\ files \in Seq(FileType) /\ i \in 1..Len(files) /\ i \in 0..Len(files)
      /\ Len(files) \in Nat /\ UNCHANGED files
  BY LenProperties DEF CopyInv, TypeOK, SndOK, SendMeta, Sending, Inside
<1>2. i \in Nat /\ f.kind \in {"reg", "dir", "link"} /\ f.size \in Nat
  BY <1>1, SizeIsNumber, CopyIsOfFiles
<1>3. SndPos = Pos("meta", i, 0)
  BY DEF SendMeta, Sending, CopyInv, SndOK, SndPos
<1>4. Meta(f) \in Units /\ Unit("path") \in Units /\ t \in Seq(Units)
  BY <1>1, PathLeads, CopyIsOfFiles
<1>5. /\ PastPath(Copy, i) \in Positions /\ PastPath(Copy, i) # Lost /\ PastPath(Copy, i) = SndPos'
      /\ snd' \in [at : {"count", "meta", "byte", "link", "done", "failed"}, file : Nat, progress : Nat]
      /\ SndOK'
  <2>1. CASE Body(f) = "next"
    <3>1. snd' = SendNext(i) /\ PastPath(Copy, i) = Behind(Copy, i)
      BY <2>1, CopyIsOfFiles DEF SendMeta, PastPath
    <3> QED
      BY <1>1, <3>1, SendNextRight, BehindIsPosition
  <2>2. CASE Body(f) # "next"
    <3>1. Body(f) \in {"byte", "link"} /\ (Body(f) = "byte" => f.size > 0)
      BY <2>2 DEF Body
    <3>2. snd' = [snd EXCEPT !.at = Body(f)] /\ PastPath(Copy, i) = Pos(Body(f), i, 0)
      BY <2>2, CopyIsOfFiles DEF SendMeta, PastPath
    <3>3. snd \in [at : {"count", "meta", "byte", "link", "done", "failed"}, file : Nat, progress : Nat]
          /\ snd.progress = 0
      BY DEF CopyInv, TypeOK, SndOK, SendMeta, Sending
    <3>4. snd'.at = Body(f) /\ snd'.file = i /\ snd'.progress = 0
      BY <3>2, <3>3
    <3>5. SndOK'
      BY <1>1, <1>2, <3>1, <3>4 DEF SndOK
    <3> QED
      BY <1>2, <3>1, <3>2, <3>3, <3>4, <3>5 DEF SndPos, Pos, Positions, Readable, Lost
  <2> QED
    BY <2>1, <2>2
<1>6. Goes(Copy, t, SndPos, PastPath(Copy, i))
  BY <1>1, <1>3, <1>5, PathLeads, TwoGo, CopyIsOfFiles
<1> QED
  BY <1>4, <1>5, <1>6, SenderAdds DEF SendMeta, Sending

\* The sender sends what it reads of a file.
LEMMA SendBytesKeeps == ASSUME CopyInv, SendBytes PROVE CopyInv'
<1> DEFINE i == snd.file
           f == files[i]
           k == snd.progress
           n == SmallerOf(Buf, IF f.content > k THEN f.content - k ELSE 0)
           q == Along(Copy, i, k + n)
<1>1. /\ files \in Seq(FileType) /\ i \in 1..Len(files) /\ i \in 0..Len(files) /\ UNCHANGED files
      /\ Body(f) = "byte" /\ k < f.size /\ snd.at = "byte"
  BY LenProperties DEF CopyInv, TypeOK, SndOK, SendBytes, Sending, Inside
<1>2. i \in Nat /\ f.size \in Nat /\ f.content \in Nat /\ f.kind = "reg"
  BY <1>1, SizeIsNumber, CopyIsOfFiles DEF Body
<1>3. /\ snd \in [at : {"count", "meta", "byte", "link", "done", "failed"}, file : Nat, progress : Nat]
      /\ k \in Nat
  BY DEF CopyInv, TypeOK
<1>4. n \in Nat /\ (k + n > f.size => f.content # f.size)
  BY <1>1, <1>2, <1>3, CopyAssumption DEF SmallerOf
<1>5. SndPos = Pos("byte", i, k)
  BY <1>1 DEF SndPos
<1>6. Bytes(n) \in Seq(Units) /\ Goes(Copy, Bytes(n), SndPos, q)
  BY <1>1, <1>3, <1>4, <1>5, BytesGo, CopyIsOfFiles
<1>7. q \in Positions
  BY <1>1, <1>3, <1>4, AlongIsPosition, CopyIsOfFiles
<1>8. snd' = IF k + n < f.size THEN [snd EXCEPT !.progress = @ + n] ELSE SendNext(i)
  BY DEF SendBytes
<1>9. /\ snd' \in [at : {"count", "meta", "byte", "link", "done", "failed"}, file : Nat, progress : Nat]
      /\ SndOK' /\ IF q = Lost THEN ~Unchanged ELSE q = SndPos'
  <2>1. CASE k + n < f.size
    <3>1. snd' = [snd EXCEPT !.progress = k + n] /\ q = Pos("byte", i, k + n)
      BY <1>8, <2>1, CopyIsOfFiles DEF Along
    <3>2. snd'.at = "byte" /\ snd'.file = i /\ snd'.progress = k + n
      BY <1>1, <1>3, <3>1
    <3>3. SndOK' /\ q # Lost /\ q = SndPos'
      BY <1>1, <2>1, <3>1, <3>2 DEF SndOK, SndPos, Pos, Lost
    <3> QED
      BY <1>3, <1>4, <3>1, <3>3
  <2>2. CASE k + n = f.size
    <3>1. snd' = SendNext(i) /\ q = Behind(Copy, i)
      BY <1>2, <1>8, <2>2, CopyIsOfFiles DEF Along
    <3> QED
      BY <1>1, <3>1, SendNextRight, BehindIsPosition
  <2>3. CASE k + n > f.size
    <3>1. snd' = SendNext(i) /\ q = Lost
      BY <1>2, <1>3, <1>4, <1>8, <2>3, CopyIsOfFiles DEF Along
    <3>2. ~Unchanged
      BY <1>1, <1>2, <1>4, <2>3, LenProperties DEF Unchanged
    <3> QED
      BY <1>1, <3>1, <3>2, SendNextRight
  <2> QED
    BY <1>2, <1>3, <1>4, <2>1, <2>2, <2>3
<1>10. up' = up \o Bytes(n) /\ UNCHANGED <<files, srv, info, clock, down, rcv, view>>
  BY DEF SendBytes
<1> QED
  BY <1>1, <1>6, <1>7, <1>9, <1>10, SenderAdds

\* The sender sends where a link leads.
LEMMA SendLinkKeeps == ASSUME CopyInv, SendLink PROVE CopyInv'
<1> DEFINE i == snd.file
<1>1. /\ files \in Seq(FileType) /\ i \in 0..Len(files) /\ i \in Nat /\ UNCHANGED files /\ snd.at = "link"
      /\ up \in Seq(Units)
  BY LenProperties DEF CopyInv, TypeOK, SndOK, SendLink, Sending, Inside
<1>2. SndPos = Pos("link", i, 0) /\ SndPos \in Positions
  BY <1>1 DEF CopyInv, SndOK, SndPos, Pos, Positions, Readable
<1>3. Unit("link") \in Units /\ <<Unit("link")>> \in Seq(Units)
  BY DEF Unit, Units
<1>4. Leads(Copy, SndPos, Unit("link"), Behind(Copy, i))
  BY <1>2 DEF Leads, UnitAt, Following, Pos, Readable
<1>5. Behind(Copy, i) \in Positions /\ Behind(Copy, i) # Lost
  BY <1>1, BehindIsPosition
<1>6. Goes(Copy, <<Unit("link")>>, SndPos, Behind(Copy, i))
  BY <1>2, <1>4, <1>5, OneGoes
<1>7. up' = up \o <<Unit("link")>>
  BY <1>1, <1>3, AppendIsConcat DEF SendLink
<1>8. /\ SndPos' = Behind(Copy, i) /\ SndOK'
      /\ snd' \in [at : {"count", "meta", "byte", "link", "done", "failed"}, file : Nat, progress : Nat]
  BY <1>1, SendNextRight DEF SendLink
<1> QED
  BY <1>1, <1>3, <1>5, <1>6, <1>7, <1>8, SenderAdds DEF SendLink

\* The sender fails.
LEMMA SenderFailsKeeps == ASSUME CopyInv, SenderFails PROVE CopyInv'
<1>1. /\ SizeOfFirst' = SizeOfFirst /\ TotalSize' = TotalSize /\ Copy' = Copy
      /\ Unchanged' = Unchanged
  BY SameFiles DEF SenderFails
<1>2. TypeOK'
  BY DEF CopyInv, TypeOK, SenderFails
<1>3. SrvOK' /\ RcvOK' /\ DownOK' /\ ProgressSound' /\ CompletedMeansProxied'
  BY <1>1 DEF SenderFails, CopyInv, SrvOK, RcvOK, DownOK, ProgressSound, CompletedMeansProxied, SrvPos, RcvPos
<1>4. snd'.at = "failed"
  BY DEF SenderFails, CopyInv, TypeOK
<1>5. SndOK'
  BY <1>4 DEF SndOK, Inside
<1>6. UpOK'
  BY <1>1, <1>4 DEF SenderFails, CopyInv, UpOK, Reaches, SrvPos
<1> QED
  BY <1>2, <1>3, <1>5, <1>6 DEF CopyInv

-----------------------------------------------------------------------------
\* The server. What it takes from one connection it adds to the other.
LEMMA ProxyPasses ==
  ASSUME CopyInv, UNCHANGED <<files, snd, clock, rcv>>, srv.at \notin Broken,
         NEW t \in Seq(Units), NEW q \in Positions, NEW r \in Positions, q # Lost,
         Goes(Copy, t, SrvPos, q), Goes(Copy, up', q, r), Reaches(r),
         down' = down \o t, srv'.at = "crashed" \/ SrvPos' = q
  PROVE  down' \in Seq(Units) /\ UpOK' /\ DownOK' /\ SndOK' /\ RcvOK'
<1>1. /\ SizeOfFirst' = SizeOfFirst /\ TotalSize' = TotalSize /\ Copy' = Copy
      /\ Unchanged' = Unchanged
  BY SameFiles
<1>2. down \in Seq(Units) /\ down' \in Seq(Units)
  BY ConcatProperties DEF CopyInv, TypeOK
<1>3. SndOK' /\ RcvOK'
  BY DEF CopyInv, SndOK, RcvOK, SndPos
<1>4. UpOK'
  BY <1>1 DEF UpOK, Reaches, SndPos, Broken
<1>5. DownOK'
  <2> SUFFICES ASSUME rcv.at # "failed"
               PROVE  Goes(Copy, down', RcvPos, q)
    BY <1>1 DEF DownOK, RcvPos, Broken
  <2>1. Goes(Copy, down, RcvPos, SrvPos)
    BY DEF CopyInv, DownOK
  <2> QED
    BY <1>2, <2>1, GoesOn
<1> QED
  BY <1>2, <1>3, <1>4, <1>5

\* The figures of the watcher.
Infos == [all : Nat, completed : Nat, total : Nat, progress : Nat,
          cur_size : Nat, cur_progress : Nat]

SrvTypes ==
  /\ srv \in [at : Ats, meta : Metas, progress : Nat]
  /\ info \in Infos
  /\ view \in {"progress", "completed", "failed"}

\* What CopyInv says of the server alone.
ServerRight == SrvTypes /\ SrvOK /\ ProgressSound /\ CompletedMeansProxied

\* When a file has been proxied its size has been counted, once.
LEMMA FileProxiedRight ==
  ASSUME CopyInv, UNCHANGED files, srv.at \in Inside, NEW i, FileProxied(i),
         i \in Infos,
         i.completed = info.completed, i.all = info.all, i.total = info.total,
         i.progress = SizeOfFirst[info.completed + 1], i.cur_progress <= i.cur_size
  PROVE  ServerRight' /\ SrvPos' = Behind(Copy, info.completed + 1)
<1> DEFINE L == Len(files)
           k == info.completed + 1
<1>1. files \in Seq(FileType) /\ L \in Nat
  BY LenProperties DEF CopyInv, TypeOK
<1>2. /\ info.completed \in Nat /\ k \in 1..L /\ i.all = L /\ i.total = TotalSize
      /\ srv \in [at : Ats, meta : Metas, progress : Nat]
      /\ view \in {"progress", "completed", "failed"}
  <2>1. /\ info.completed \in Nat /\ srv \in [at : Ats, meta : Metas, progress : Nat]
        /\ view \in {"progress", "completed", "failed"}
    BY DEF CopyInv, TypeOK
  <2>2. info.completed < L /\ info.all = L /\ info.total = TotalSize
    BY DEF CopyInv, SrvOK
  <2> QED
    BY <1>1, <2>1, <2>2
<1>3. info' = [i EXCEPT !.completed = k]
  BY DEF FileProxied
<1>4. /\ info' \in Infos
      /\ info'.completed = k /\ info'.all = L /\ info'.total = TotalSize
      /\ info'.progress = SizeOfFirst[k] /\ info'.cur_progress <= info'.cur_size
  BY <1>2, <1>3 DEF Infos
<1>5. srv' = [srv EXCEPT !.at = IF k < L THEN "meta" ELSE "end"]
  BY <1>2, <1>4 DEF FileProxied, ReadNext
<1>6. srv'.at = (IF k < L THEN "meta" ELSE "end") /\ srv' \in [at : Ats, meta : Metas, progress : Nat]
  BY <1>2, <1>5 DEF Ats
<1>7. view' \in {"progress", "completed", "failed"} /\ (view' = "completed" => k = L)
  BY <1>2, <1>4 DEF FileProxied, ProgressSend, Shown, CopyInv, CompletedMeansProxied, Inside
<1>8. SizeOfFirst' = SizeOfFirst /\ TotalSize' = TotalSize
  BY SameFiles
<1>9. SizeOfFirst[k] \in Nat /\ SizeOfFirst[k] <= TotalSize /\ SizeOfFirst[L] = TotalSize
  BY <1>1, <1>2, SizesTyped DEF TotalSize
<1>10. SrvTypes'
  BY <1>4, <1>6, <1>7 DEF SrvTypes
<1>11. SrvOK'
  BY <1>1, <1>2, <1>4, <1>6, <1>8, <1>9 DEF SrvOK, Inside
<1>12. ProgressSound'
  BY <1>1, <1>2, <1>4, <1>6, <1>9 DEF ProgressSound
<1>13. CompletedMeansProxied'
  BY <1>1, <1>2, <1>6, <1>7 DEF CompletedMeansProxied
<1>14. SrvPos' = Behind(Copy, k)
  BY <1>1, <1>2, <1>4, <1>6, BehindIsPosition DEF SrvPos
<1> QED
  BY <1>10, <1>11, <1>12, <1>13, <1>14 DEF ServerRight

\* A step of the server that keeps its own part right and passes on what it takes.
LEMMA ServerKeeps ==
  ASSUME CopyInv, UNCHANGED <<files, snd, clock, rcv>>, up' \in Seq(Units), down' \in Seq(Units),
         UpOK', DownOK', SndOK', RcvOK', ServerRight'
  PROVE  CopyInv'
<1>1. TypeOK'
  BY DEF CopyInv, TypeOK, ServerRight, SrvTypes, Infos
<1> QED
  BY <1>1 DEF CopyInv, ServerRight

\* Where the server stands in what comes.
LEMMA ServerReads ==
  ASSUME CopyInv, srv.at \notin Broken
  PROVE  /\ \E r \in Positions : Goes(Copy, up, SrvPos, r) /\ Reaches(r)
         /\ files \in Seq(FileType) /\ Copy.files = files /\ Len(files) \in Nat /\ up \in Seq(Units)
         /\ info.completed \in Nat
         /\ srv.at \in Inside => info.completed + 1 \in 1..Len(files)
  BY CopyIsOfFiles, LenProperties DEF CopyInv, TypeOK, UpOK, SrvOK, Inside

\* The proxy passes on how much there is.
LEMMA ProxyHeaderKeeps == ASSUME CopyInv, ProxyHeader PROVE CopyInv'
<1> DEFINE t == SubSeq(up, 1, 2)
           L == Len(files)
<1>1. srv.at = "count" /\ Len(up) >= 2 /\ UNCHANGED <<files, snd, clock, rcv>>
  BY DEF ProxyHeader, Proxying
<1>2. /\ files \in Seq(FileType) /\ Copy.files = files /\ Copy.total = TotalSize /\ L \in Nat
      /\ up \in Seq(Units)
  BY <1>1, ServerReads, CopyIsOfFiles DEF Broken
<1>3. PICK r \in Positions : Goes(Copy, up, SrvPos, r) /\ Reaches(r)
  BY <1>1, ServerReads DEF Broken
<1>4. SrvPos = Pos("count", 1, 0)
  BY <1>1 DEF CopyInv, SrvOK, SrvPos
<1>5. PICK q \in Positions, m \in Positions :
        /\ Leads(Copy, SrvPos, up[1], m) /\ Leads(Copy, m, up[2], q)
        /\ Goes(Copy, t, SrvPos, q) /\ Goes(Copy, SubSeq(up, 3, Len(up)), q, r)
        /\ t \in Seq(Units) /\ SubSeq(up, 3, Len(up)) \in Seq(Units)
  BY <1>1, <1>2, <1>3, TwoTaken
<1>6. up[1].value = L /\ up[2].value = TotalSize /\ q = Behind(Copy, 0)
  BY <1>2, <1>4, <1>5, HeaderUnits DEF Number
<1>7. q # Lost /\ q = Pos(IF 0 < L THEN "meta" ELSE "end", 1, 0)
  BY <1>2, <1>6, BehindIsPosition
<1>8. /\ info' = [all |-> L, completed |-> 0, total |-> TotalSize, progress |-> 0,
                  cur_size |-> 0, cur_progress |-> 0]
      /\ srv' = [srv EXCEPT !.at = IF 0 < L THEN "meta" ELSE "end"]
      /\ view' = IF 0 = L THEN "completed" ELSE "progress"
  <2>1. info = [all |-> 0, completed |-> 0, total |-> 0, progress |-> 0,
                cur_size |-> 0, cur_progress |-> 0]
    BY <1>1 DEF CopyInv, SrvOK
  <2>2. info' = [info EXCEPT !.all = L, !.total = TotalSize]
    BY <1>6 DEF ProxyHeader
  <2>3. info' = [all |-> L, completed |-> 0, total |-> TotalSize, progress |-> 0,
                 cur_size |-> 0, cur_progress |-> 0]
    BY <2>1, <2>2
  <2>4. srv' = [srv EXCEPT !.at = IF 0 < L THEN "meta" ELSE "end"]
    BY <1>6 DEF ProxyHeader, ReadNext
  <2>5. view' = IF 0 = L THEN "completed" ELSE "progress"
    <3>1. view' = IF info'.completed = info'.all THEN "completed" ELSE "progress"
      BY DEF ProxyHeader, ProgressSend, Shown
    <3> QED
      BY <2>3, <3>1
  <2> QED
    BY <2>3, <2>4, <2>5
<1>9. srv \in [at : Ats, meta : Metas, progress : Nat]
  BY DEF CopyInv, TypeOK
<1>10. srv'.at = (IF 0 < L THEN "meta" ELSE "end") /\ srv' \in [at : Ats, meta : Metas, progress : Nat]
  BY <1>8, <1>9 DEF Ats
<1>11. SrvPos' = q
  BY <1>7, <1>8, <1>10 DEF SrvPos
<1>12. /\ SizeOfFirst[0] = 0 /\ TotalSize \in Nat /\ SizeOfFirst[L] = TotalSize
       /\ SizeOfFirst' = SizeOfFirst /\ TotalSize' = TotalSize
  BY <1>1, <1>2, SizesTyped, SameFiles DEF TotalSize
<1>13. ServerRight'
  <2>1. SrvTypes'
    BY <1>2, <1>8, <1>10, <1>12 DEF SrvTypes, Infos
  <2>2. SrvOK'
    BY <1>1, <1>2, <1>8, <1>10, <1>12 DEF SrvOK, Inside
  <2>3. ProgressSound' /\ CompletedMeansProxied'
    BY <1>1, <1>2, <1>8, <1>10, <1>12 DEF ProgressSound, CompletedMeansProxied
  <2> QED
    BY <2>1, <2>2, <2>3 DEF ServerRight
<1>14. up' = SubSeq(up, 3, Len(up)) /\ down' = down \o t
  BY DEF ProxyHeader, WriteDown
<1>15. down' \in Seq(Units) /\ UpOK' /\ DownOK' /\ SndOK' /\ RcvOK'
  BY <1>1, <1>3, <1>5, <1>7, <1>11, <1>14, ProxyPasses DEF Broken
<1> QED
  BY <1>1, <1>5, <1>13, <1>14, <1>15, ServerKeeps

\* In the middle of a file nothing is complete.
LEMMA InFileRight ==
  ASSUME CopyInv, UNCHANGED files, srv.at \in Inside, NEW at \in {"byte", "link"},
         NEW m \in Metas, NEW n \in Nat, srv' = [at |-> at, meta |-> m, progress |-> n],
         m = Meta(files[info.completed + 1]), at = Body(m), IF at = "byte" THEN n < m.size ELSE n = 0,
         info' \in Infos,
         info'.completed = info.completed, info'.all = info.all, info'.total = info.total,
         info'.progress = SizeOfFirst[info.completed] + n, info'.cur_size = m.size,
         info'.cur_progress <= m.size, ProgressSend(FALSE, info')
  PROVE  ServerRight' /\ SrvPos' = Pos(at, info.completed + 1, n)
<1> DEFINE L == Len(files)
           k == info.completed
<1>1. files \in Seq(FileType) /\ L \in Nat /\ k \in Nat /\ view \in {"progress", "completed", "failed"}
  BY LenProperties DEF CopyInv, TypeOK
<1>2. k < L /\ info'.all = L /\ info'.total = TotalSize /\ view # "completed"
  BY DEF CopyInv, SrvOK, CompletedMeansProxied, Inside
<1>3. srv'.at = at /\ srv'.meta = m /\ srv'.progress = n
  OBVIOUS
<1>0. (at = "byte" => n < m.size) /\ (at # "byte" => at = "link" /\ n = 0)
  OBVIOUS
<1>4. SizeOfFirst' = SizeOfFirst /\ TotalSize' = TotalSize
  BY SameFiles
<1>5. view' \in {"progress", "failed"}
  BY <1>1, <1>2 DEF ProgressSend, Shown
<1>6. SrvTypes'
  BY <1>5 DEF SrvTypes, Ats
<1>7. SrvOK'
  BY <1>0, <1>1, <1>2, <1>3, <1>4 DEF SrvOK, Inside
<1>8. SizeOfFirst[k] + n <= TotalSize
  <2>1. k + 1 \in 1..L /\ (k + 1) - 1 = k /\ k + 1 \in 0..L /\ k \in 0..L
    BY <1>1, <1>2
  <2>2. SizeOfFirst[k + 1] = SizeOfFirst[k] + (IF m.kind = "reg" THEN m.size ELSE 0)
    BY <1>1, <2>1, SizesTyped DEF Meta
  <2>3. /\ SizeOfFirst[k + 1] <= TotalSize /\ SizeOfFirst[k + 1] \in Nat /\ TotalSize \in Nat
        /\ SizeOfFirst[k] \in Nat /\ SizeOfFirst[k] <= TotalSize /\ m.size \in Nat
    BY <1>1, <2>1, SizesTyped DEF Metas
  <2>4. at = "byte" => m.kind = "reg"
    BY DEF Body
  <2> QED
    BY <1>0, <2>2, <2>3, <2>4
<1>9. ProgressSound'
  BY <1>1, <1>2, <1>3, <1>8 DEF ProgressSound
<1>10. CompletedMeansProxied'
  BY <1>5 DEF CompletedMeansProxied
<1>11. SrvPos' = Pos(at, k + 1, n)
  BY <1>0, <1>3 DEF SrvPos
<1> QED
  BY <1>6, <1>7, <1>9, <1>10, <1>11 DEF ServerRight

\* Metadata have the file's kind and size.
LEMMA MetaIsTyped ==
  ASSUME files \in Seq(FileType), NEW i \in 1..Len(files)
  PROVE  /\ Meta(files[i]) \in Metas /\ Meta(files[i]).kind = files[i].kind
         /\ Meta(files[i]).size = files[i].size /\ Body(Meta(files[i])) = Body(files[i])
<1>1. files[i].kind \in {"reg", "dir", "link"} /\ files[i].size \in Nat
  BY SizeIsNumber, CopyIsOfFiles
<1> QED
  BY <1>1 DEF Meta, Metas, Body

\* The figures of the watcher, where more of the current file is behind.
LEMMA CurrentProgress ==
  ASSUME NEW i \in Infos, NEW p \in Nat, NEW t \in Nat
  PROVE  /\ LET j == [i EXCEPT !.cur_progress = p] IN
            /\ j \in Infos /\ j.completed = i.completed /\ j.all = i.all /\ j.total = i.total
            /\ j.progress = i.progress /\ j.cur_size = i.cur_size /\ j.cur_progress = p
         /\ LET j == [i EXCEPT !.cur_progress = p, !.progress = t] IN
            /\ j \in Infos /\ j.completed = i.completed /\ j.all = i.all /\ j.total = i.total
            /\ j.progress = t /\ j.cur_size = i.cur_size /\ j.cur_progress = p
  BY DEF Infos

\* The proxy passes on the metadata and the path of a file.
LEMMA ProxyMetaKeeps == ASSUME CopyInv, ProxyMeta PROVE CopyInv'
<1> DEFINE t == SubSeq(up, 1, 2)
           k == info.completed
           m == Meta(files[k + 1])
           i == [info EXCEPT !.cur_size = m.size, !.cur_progress = 0]
           j == [i EXCEPT !.cur_progress = IF m.kind = "dir" THEN m.size ELSE 0]
<1>1. srv.at = "meta" /\ Len(up) >= 2 /\ UNCHANGED <<files, snd, clock, rcv>> /\ up[1].unit = "meta"
  BY DEF ProxyMeta, Proxying
<1>2. /\ files \in Seq(FileType) /\ Copy.files = files /\ up \in Seq(Units)
      /\ k \in Nat /\ k + 1 \in 1..Len(files)
  BY <1>1, ServerReads DEF Broken, Inside
<1>3. PICK r \in Positions : Goes(Copy, up, SrvPos, r) /\ Reaches(r)
  BY <1>1, ServerReads DEF Broken
<1>4. SrvPos = Pos("meta", k + 1, 0)
  BY <1>1 DEF SrvPos
<1>5. PICK q \in Positions, p \in Positions :
        /\ Leads(Copy, SrvPos, up[1], p) /\ Leads(Copy, p, up[2], q)
        /\ Goes(Copy, t, SrvPos, q) /\ Goes(Copy, SubSeq(up, 3, Len(up)), q, r)
        /\ t \in Seq(Units) /\ SubSeq(up, 3, Len(up)) \in Seq(Units)
  BY <1>1, <1>2, <1>3, TwoTaken
<1>6. up[1] = m /\ q = PastPath(Copy, k + 1)
  BY <1>1, <1>2, <1>4, <1>5, MetaUnits
<1>7. m \in Metas /\ m.kind = files[k + 1].kind /\ m.size = files[k + 1].size /\ Body(m) = Body(files[k + 1])
  BY <1>2, MetaIsTyped
<1>8. m.size \in Nat /\ m.kind \in {"reg", "dir", "link"}
  BY <1>7 DEF Metas
<1>9. /\ info \in Infos
      /\ info.progress = SizeOfFirst[k] /\ SizeOfFirst[k] \in Nat
      /\ SizeOfFirst[k + 1] = SizeOfFirst[k] + (IF m.kind = "reg" THEN m.size ELSE 0)
  <2>1. info.progress = SizeOfFirst[k] + 0
    BY <1>1 DEF CopyInv, SrvOK, Inside
  <2>2. k \in 0..Len(files) /\ (k + 1) - 1 = k
    BY <1>2
  <2> QED
    <3>1. info \in Infos
      BY DEF CopyInv, TypeOK, Infos
    <3>2. info.progress \in Nat
      BY <3>1 DEF Infos
    <3>3. SizeOfFirst[k] \in Nat
      BY <1>2, <2>2, SizesTyped
    <3>4. info.progress = SizeOfFirst[k]
      BY <2>1, <3>3
    <3>5. SizeOfFirst[k + 1] = SizeOfFirst[(k + 1) - 1] +
            (IF files[k + 1].kind = "reg" THEN files[k + 1].size ELSE 0)
      BY <1>2, SizesTyped
    <3> QED
      BY <1>7, <2>2, <3>1, <3>3, <3>4, <3>5
<1>10. ServerRight' /\ SrvPos' = q /\ q # Lost
  <2>1. CASE Body(m) = "next"
    <3>1. FileProxied(j)
      BY <1>6, <2>1 DEF ProxyMeta
    <3>2. /\ j \in Infos
          /\ j.completed = k /\ j.all = info.all /\ j.total = info.total
          /\ j.progress = SizeOfFirst[k] /\ j.cur_progress <= j.cur_size
      <4> DEFINE n == IF m.kind = "dir" THEN m.size ELSE 0
      <4>1. n \in Nat /\ n <= m.size
        BY <1>8
      <4>2. /\ i \in Infos /\ i.completed = k /\ i.all = info.all /\ i.total = info.total
            /\ i.progress = info.progress /\ i.cur_size = m.size
        <5> HIDE DEF m
        <5> QED
          BY <1>8, <1>9 DEF Infos
      <4> HIDE DEF i, n
      <4>3. /\ j \in Infos /\ j.completed = i.completed /\ j.all = i.all /\ j.total = i.total
            /\ j.progress = i.progress /\ j.cur_size = i.cur_size /\ j.cur_progress = n
        BY <4>1, <4>2, CurrentProgress DEF n
      <4> QED
        BY <1>9, <4>1, <4>2, <4>3
    <3>3. SizeOfFirst[k + 1] = SizeOfFirst[k]
      BY <1>8, <1>9, <2>1 DEF Body
    <3>4. q = Behind(Copy, k + 1) /\ q # Lost
      BY <1>2, <1>6, <1>7, <2>1, BehindIsPosition DEF PastPath
    <3> HIDE DEF j
    <3> QED
      BY <1>1, <1>9, <3>1, <3>2, <3>3, <3>4, FileProxiedRight DEF Inside, Infos
  <2>2. CASE Body(m) # "next"
    <3>1. /\ info' = i /\ srv' = [at |-> Body(m), meta |-> m, progress |-> 0]
          /\ ProgressSend(FALSE, info')
      BY <1>6, <2>2 DEF ProxyMeta
    <3>2. Body(m) \in {"byte", "link"} /\ (0 < m.size \/ Body(m) = "link")
      BY <1>8, <2>2 DEF Body
    <3>3. /\ i \in Infos
          /\ i.completed = k /\ i.all = info.all /\ i.total = info.total
          /\ i.progress = SizeOfFirst[k] + 0 /\ i.cur_progress <= m.size /\ i.cur_size = m.size
      <4> HIDE DEF m
      <4>1. /\ i \in Infos /\ i.completed = info.completed /\ i.all = info.all
            /\ i.total = info.total
            /\ i.progress = info.progress /\ i.cur_size = m.size /\ i.cur_progress = 0
        BY <1>8, <1>9 DEF Infos
      <4> HIDE DEF i
      <4> QED
        BY <1>8, <1>9, <4>1
    <3>4. q = Pos(Body(m), k + 1, 0) /\ q # Lost
      BY <1>2, <1>6, <1>7, <2>2, <3>2 DEF PastPath, Pos, Lost
    <3> HIDE DEF i, m
    <3> QED
      BY <1>1, <1>7, <3>1, <3>2, <3>3, <3>4, InFileRight DEF Inside, Infos, m
  <2> QED
    BY <2>1, <2>2
<1>11. up' = SubSeq(up, 3, Len(up)) /\ down' = down \o t
  BY DEF ProxyMeta, WriteDown
<1>12. down' \in Seq(Units) /\ UpOK' /\ DownOK' /\ SndOK' /\ RcvOK'
  BY <1>1, <1>3, <1>5, <1>10, <1>11, ProxyPasses DEF Broken
<1> QED
  BY <1>1, <1>5, <1>10, <1>11, <1>12, ServerKeeps

\* The proxy passes on and counts bytes.
LEMMA ProxyBytesKeeps == ASSUME CopyInv, ProxyBytes PROVE CopyInv'
<1> DEFINE k == info.completed
           m == srv.meta
           g == srv.progress
<1>1. srv.at = "byte" /\ UNCHANGED <<files, snd, clock, rcv>>
  BY DEF ProxyBytes, Proxying
<1>2. /\ files \in Seq(FileType) /\ Copy.files = files /\ up \in Seq(Units) /\ Len(up) \in Nat
      /\ k \in Nat /\ k + 1 \in 1..Len(files) /\ Len(files) \in Nat
  BY <1>1, ServerReads, LenProperties DEF Broken, Inside
<1>3. PICK r \in Positions : Goes(Copy, up, SrvPos, r) /\ Reaches(r)
  BY <1>1, ServerReads DEF Broken
<1>4. SrvPos = Pos("byte", k + 1, g)
  BY <1>1 DEF SrvPos
<1>5. /\ m = Meta(files[k + 1]) /\ m \in Metas /\ Body(m) = "byte" /\ m.kind = "reg"
      /\ m.size = files[k + 1].size /\ m.size \in Nat /\ g \in Nat /\ g < m.size
      /\ info.cur_size = m.size
  <2>1. /\ m = Meta(files[k + 1]) /\ Body(m) = "byte" /\ g < m.size /\ info.cur_size = m.size
    BY <1>1 DEF CopyInv, SrvOK
  <2>2. m \in Metas /\ g \in Nat
    BY DEF CopyInv, TypeOK
  <2>3. m.size = files[k + 1].size /\ m.size \in Nat
    BY <1>2, <2>1, <2>2, MetaIsTyped, SizeIsNumber
  <2> QED
    BY <2>1, <2>2, <2>3 DEF Body
<1>6. PICK n \in 1..SmallerOf(Buf, m.size - g) :
        /\ n <= Len(up)
        /\ WriteDown(SubSeq(up, 1, n)) /\ up' = SubSeq(up, n + 1, Len(up))
        /\ LET i == [info EXCEPT !.cur_progress = g + n, !.progress = @ + n] IN
           IF clock = "below_ms"
           THEN srv' = [srv EXCEPT !.at = "crashed"] /\ info' = i /\ UNCHANGED view
           ELSE IF g + n < m.size
           THEN info' = i /\ srv' = [srv EXCEPT !.progress = @ + n] /\ ProgressSend(FALSE, info')
           ELSE FileProxied(i)
  BY DEF ProxyBytes
<1> DEFINE t == SubSeq(up, 1, n)
           q == Along(Copy, k + 1, g + n)
           i == [info EXCEPT !.cur_progress = g + n, !.progress = @ + n]
<1>7. n \in 0..Len(up) /\ n \in Nat /\ g + n \in Nat /\ g + n <= m.size
  <2>1. m.size - g \in Nat /\ Buf \in Nat
    BY <1>5, CopyAssumption
  <2>2. SmallerOf(Buf, m.size - g) \in Nat /\ SmallerOf(Buf, m.size - g) <= m.size - g
    BY <2>1 DEF SmallerOf
  <2>3. n \in Nat /\ n <= m.size - g /\ n <= Len(up)
    BY <1>6, <2>1, <2>2
  <2> QED
    BY <1>2, <1>5, <2>3
<1>8. /\ Goes(Copy, t, SrvPos, q) /\ Goes(Copy, up', q, r)
      /\ t \in Seq(Units) /\ up' \in Seq(Units) /\ down' = down \o t
  BY <1>2, <1>3, <1>4, <1>5, <1>6, <1>7, SomeTaken DEF WriteDown
<1>9. /\ q \in Positions /\ q # Lost
      /\ q = IF g + n < m.size THEN Pos("byte", k + 1, g + n) ELSE Behind(Copy, k + 1)
  <2>1. q \in Positions
    BY <1>2, <1>7, AlongIsPosition
  <2>2. q = IF g + n < m.size THEN Pos("byte", k + 1, g + n) ELSE Behind(Copy, k + 1)
    BY <1>2, <1>5, <1>7 DEF Along
  <2>3. Behind(Copy, k + 1) # Lost
    BY <1>2, BehindIsPosition
  <2> QED
    BY <2>1, <2>2, <2>3 DEF Pos, Lost
<1>10. /\ info \in Infos /\ info.progress = SizeOfFirst[k] + g /\ SizeOfFirst[k] \in Nat
       /\ SizeOfFirst[k + 1] = SizeOfFirst[k] + m.size
       /\ SizeOfFirst[k + 1] <= TotalSize /\ TotalSize \in Nat
       /\ info.all = Len(files) /\ info.total = TotalSize
  <2>1. /\ info \in Infos /\ info.progress = SizeOfFirst[k] + g
        /\ info.all = Len(files) /\ info.total = TotalSize
    BY <1>1 DEF CopyInv, TypeOK, SrvOK, Infos, Inside
  <2>2. k \in 0..Len(files) /\ k + 1 \in 0..Len(files) /\ (k + 1) - 1 = k
    BY <1>2
  <2>3. files[k + 1].kind = "reg"
    BY <1>2, <1>5, MetaIsTyped
  <2> QED
    BY <1>2, <1>5, <2>1, <2>2, <2>3, SizesTyped
<1>11. /\ i \in Infos /\ i.completed = k /\ i.all = info.all /\ i.total = info.total
       /\ i.progress = SizeOfFirst[k] + (g + n) /\ i.cur_size = m.size /\ i.cur_progress = g + n
  <2>1. info.progress + n \in Nat /\ info.progress + n = SizeOfFirst[k] + (g + n)
    BY <1>5, <1>7, <1>10
  <2>2. i = [info EXCEPT !.cur_progress = g + n, !.progress = info.progress + n]
    BY <1>10 DEF Infos
  <2> DEFINE u == g + n
             v == info.progress + n
  <2>3. u \in Nat /\ v \in Nat /\ i = [info EXCEPT !.cur_progress = u, !.progress = v]
    BY <1>7, <2>1, <2>2
  <2> HIDE DEF u, v, i
  <2>4. /\ i \in Infos /\ i.completed = info.completed /\ i.all = info.all
        /\ i.total = info.total /\ i.progress = v /\ i.cur_size = info.cur_size
        /\ i.cur_progress = u
    BY <1>10, <2>3 DEF Infos
  <2> QED
    BY <1>5, <2>1, <2>4 DEF u, v
<1> HIDE DEF i, t, q, m, k, g
<1>12. ServerRight' /\ (srv'.at = "crashed" \/ SrvPos' = q)
  <2>1. CASE clock = "below_ms"
    <3>1. srv' = [srv EXCEPT !.at = "crashed"] /\ info' = i /\ UNCHANGED view
      BY <1>6, <2>1 DEF i, m, g
    <3>2. srv' \in [at : Ats, meta : Metas, progress : Nat] /\ srv'.at = "crashed"
      BY <3>1 DEF CopyInv, TypeOK, Ats
    <3>3. SrvTypes'
      BY <1>11, <3>1, <3>2 DEF SrvTypes, CopyInv, TypeOK, Infos
    <3>4. SrvOK'
      BY <3>2 DEF SrvOK, Inside
    <3>5. SizeOfFirst' = SizeOfFirst /\ TotalSize' = TotalSize
      BY <1>1, SameFiles
    <3>6. ProgressSound'
      <4>1. SizeOfFirst[k] + (g + n) <= TotalSize
        BY <1>5, <1>7, <1>10
      <4>2. k <= Len(files)
        BY <1>2
      <4> QED
        BY <1>7, <1>10, <1>11, <3>1, <3>2, <4>1, <4>2 DEF ProgressSound
    <3>7. CompletedMeansProxied'
      BY <1>1, <3>1 DEF CopyInv, CompletedMeansProxied
    <3> QED
      BY <3>2, <3>3, <3>4, <3>6, <3>7 DEF ServerRight
  <2>2. CASE clock # "below_ms" /\ g + n < m.size
    <3>1. info' = i /\ srv' = [srv EXCEPT !.progress = @ + n] /\ ProgressSend(FALSE, info')
      BY <1>6, <2>2 DEF i, m, g
    <3>2. srv' = [at |-> "byte", meta |-> m, progress |-> g + n]
      BY <1>1, <3>1 DEF CopyInv, TypeOK, m, g
    <3>3. q = Pos("byte", k + 1, g + n)
      BY <1>9, <2>2
    <3>4. ServerRight' /\ SrvPos' = Pos("byte", k + 1, g + n)
      <4>1. info'.progress = SizeOfFirst[info.completed] + (g + n)
        BY <1>11, <3>1 DEF k
      <4>2. info'.cur_progress <= m.size
        BY <1>7, <1>11, <3>1
      <4>3. m = Meta(files[info.completed + 1]) /\ info'.completed = info.completed
        BY <1>5, <1>11, <3>1 DEF k
      <4>4. /\ info' \in Infos /\ info'.all = info.all /\ info'.total = info.total
            /\ info'.cur_size = m.size
        BY <1>11, <3>1
      <4>5. srv.at \in Inside /\ UNCHANGED files /\ m \in Metas /\ "byte" = Body(m)
        BY <1>1, <1>5 DEF Inside
      <4>6. g + n \in Nat /\ g + n < m.size /\ ProgressSend(FALSE, info')
        BY <1>7, <2>2, <3>1
      <4> DEFINE d == g + n
      <4> HIDE DEF d
      <4>7. ServerRight' /\ SrvPos' = Pos("byte", info.completed + 1, d)
        <5>1. d \in Nat /\ d < m.size /\ srv' = [at |-> "byte", meta |-> m, progress |-> d]
              /\ info'.progress = SizeOfFirst[info.completed] + d
          BY <3>2, <4>1, <4>6 DEF d
        <5> QED
          BY <4>2, <4>3, <4>4, <4>5, <4>6, <5>1, InFileRight
      <4> QED
        BY <4>7 DEF k, d
    <3> QED
      BY <3>3, <3>4
  <2>3. CASE clock # "below_ms" /\ ~ (g + n < m.size)
    <3>1. FileProxied(i)
      BY <1>6, <2>3 DEF i, m, g
    <3>2. g + n = m.size /\ q = Behind(Copy, k + 1)
      BY <1>5, <1>7, <1>9, <2>3
    <3>3. i.progress = SizeOfFirst[info.completed + 1] /\ i.cur_progress <= i.cur_size
      BY <1>5, <1>10, <1>11, <3>2 DEF k
    <3> QED
      BY <1>1, <1>11, <3>1, <3>2, <3>3, FileProxiedRight DEF Inside, Infos, k
  <2> QED
    BY <2>1, <2>2, <2>3
<1>13. down' \in Seq(Units) /\ UpOK' /\ DownOK' /\ SndOK' /\ RcvOK'
  BY <1>1, <1>3, <1>8, <1>9, <1>12, ProxyPasses DEF Broken
<1> QED
  BY <1>1, <1>8, <1>12, <1>13, ServerKeeps

\* The proxy passes on where a link leads.
LEMMA ProxyLinkKeeps == ASSUME CopyInv, ProxyLink PROVE CopyInv'
<1> DEFINE k == info.completed
           m == srv.meta
           i == [info EXCEPT !.cur_progress = m.size]
<1>1. srv.at = "link" /\ up # <<>> /\ UNCHANGED <<files, snd, clock, rcv>>
  BY DEF ProxyLink, Proxying
<1>2. /\ files \in Seq(FileType) /\ Copy.files = files /\ up \in Seq(Units)
      /\ k \in Nat /\ k + 1 \in 1..Len(files) /\ Len(files) \in Nat
  BY <1>1, ServerReads DEF Broken, Inside
<1>3. PICK r \in Positions : Goes(Copy, up, SrvPos, r) /\ Reaches(r)
  BY <1>1, ServerReads DEF Broken
<1>4. SrvPos = Pos("link", k + 1, 0)
  BY <1>1 DEF SrvPos
<1>5. PICK q \in Positions :
        Leads(Copy, SrvPos, up[1], q) /\ Goes(Copy, <<up[1]>>, SrvPos, q) /\ Goes(Copy, Tail(up), q, r)
  BY <1>1, <1>2, <1>3, OneTaken
<1>6. <<up[1]>> \in Seq(Units) /\ Tail(up) \in Seq(Units)
  BY <1>1, <1>2, <1>3, OneTaken
<1>7. q = Behind(Copy, k + 1) /\ q # Lost
  BY <1>2, <1>4, <1>5, LinkUnit, BehindIsPosition
<1>8. /\ m = Meta(files[k + 1]) /\ Body(m) = "link" /\ info.cur_size = m.size
      /\ info \in Infos /\ info.progress = SizeOfFirst[k] + 0 /\ m \in Metas
  BY <1>1 DEF CopyInv, TypeOK, SrvOK, Infos, Inside
<1>9. m.size \in Nat /\ files[k + 1].kind = "link"
  BY <1>2, <1>8, MetaIsTyped DEF Body, Metas
<1>10. SizeOfFirst[k + 1] = SizeOfFirst[k] /\ info.progress = SizeOfFirst[k]
  <2>1. k \in 0..Len(files) /\ (k + 1) - 1 = k
    BY <1>2
  <2> QED
    BY <1>2, <1>8, <1>9, <2>1, SizesTyped
<1>11. /\ i \in Infos /\ i.completed = k /\ i.all = info.all /\ i.total = info.total
       /\ i.progress = info.progress /\ i.cur_size = info.cur_size /\ i.cur_progress = m.size
  BY <1>8, <1>9, CurrentProgress
<1>12. FileProxied(i)
  BY DEF ProxyLink
<1> HIDE DEF i, m
<1>13. ServerRight' /\ SrvPos' = q
  <2>1. i.progress = SizeOfFirst[info.completed + 1] /\ i.cur_progress <= i.cur_size
    BY <1>8, <1>9, <1>10, <1>11
  <2> QED
    BY <1>1, <1>7, <1>11, <1>12, <2>1, FileProxiedRight DEF Inside, Infos
<1>14. up' = Tail(up) /\ down' = down \o <<up[1]>>
  BY DEF ProxyLink, WriteDown
<1>15. down' \in Seq(Units) /\ UpOK' /\ DownOK' /\ SndOK' /\ RcvOK'
  BY <1>1, <1>3, <1>5, <1>6, <1>7, <1>13, <1>14, ProxyPasses DEF Broken
<1> QED
  BY <1>1, <1>6, <1>13, <1>14, <1>15, ServerKeeps

\* The proxy fails.
LEMMA ProxyFailsKeeps == ASSUME CopyInv, ProxyFails PROVE CopyInv'
<1>1. /\ SizeOfFirst' = SizeOfFirst /\ TotalSize' = TotalSize /\ Copy' = Copy
      /\ Unchanged' = Unchanged
  BY SameFiles DEF ProxyFails
<1>2. srv'.at = "failed" /\ srv' \in [at : Ats, meta : Metas, progress : Nat]
  BY DEF ProxyFails, CopyInv, TypeOK, Ats
<1>3. TypeOK'
  BY <1>2 DEF CopyInv, TypeOK, ProxyFails
<1>4. SndOK' /\ RcvOK'
  BY <1>1 DEF ProxyFails, CopyInv, SndOK, RcvOK, SndPos
<1>5. SrvOK' /\ UpOK'
  BY <1>2 DEF SrvOK, UpOK, Broken, Inside
<1>6. DownOK'
  BY <1>1, <1>2 DEF ProxyFails, CopyInv, DownOK, RcvPos, Broken
<1>7. ProgressSound' /\ CompletedMeansProxied'
  BY <1>1, <1>2 DEF ProxyFails, CopyInv, ProgressSound, CompletedMeansProxied
<1> QED
  BY <1>3, <1>4, <1>5, <1>6, <1>7 DEF CopyInv

\* The clock goes on.
LEMMA TickKeeps == ASSUME CopyInv, Tick PROVE CopyInv'
<1>1. /\ SizeOfFirst' = SizeOfFirst /\ TotalSize' = TotalSize /\ Copy' = Copy
      /\ Unchanged' = Unchanged
  BY SameFiles DEF Tick
<1>2. TypeOK'
  BY DEF CopyInv, TypeOK, Tick
<1>3. SndOK' /\ SrvOK' /\ RcvOK'
  BY <1>1 DEF Tick, CopyInv, SndOK, SrvOK, RcvOK, SndPos
<1>4. UpOK' /\ DownOK'
  BY <1>1 DEF Tick, CopyInv, UpOK, DownOK, Reaches, SndPos, SrvPos, RcvPos
<1>5. ProgressSound' /\ CompletedMeansProxied'
  BY DEF Tick, CopyInv, ProgressSound, CompletedMeansProxied
<1> QED
  BY <1>2, <1>3, <1>4, <1>5 DEF CopyInv

-----------------------------------------------------------------------------
\* The receiver.
Receivers == [at : Ats, all : Nat, meta : Metas, progress : Nat, done : Seq(Metas)]

\* A step of the receiver that leaves it where what it has not read begins.
LEMMA ReceiverKeeps ==
  ASSUME CopyInv, UNCHANGED <<files, snd, up, srv, info, clock, view>>,
         NEW q \in Positions, NEW r \in Positions, Goes(Copy, down', q, r),
         r # Lost, srv.at \in Broken \/ r = SrvPos,
         down' \in Seq(Units), RcvPos' = q, rcv' \in Receivers, RcvOK'
  PROVE  CopyInv'
<1>1. /\ SizeOfFirst' = SizeOfFirst /\ TotalSize' = TotalSize /\ Copy' = Copy
      /\ Unchanged' = Unchanged
  BY SameFiles
<1>2. TypeOK'
  BY DEF CopyInv, TypeOK, Receivers
<1>3. SndOK' /\ SrvOK'
  BY <1>1 DEF CopyInv, SndOK, SrvOK, SndPos
<1>4. UpOK'
  BY <1>1 DEF CopyInv, UpOK, Reaches, SndPos, SrvPos
<1>5. DownOK'
  BY <1>1 DEF DownOK, SrvPos
<1>6. ProgressSound' /\ CompletedMeansProxied'
  BY DEF CopyInv, ProgressSound, CompletedMeansProxied
<1> QED
  BY <1>2, <1>3, <1>4, <1>5, <1>6 DEF CopyInv

\* Where the receiver stands in what comes.
LEMMA ReceiverReads ==
  ASSUME CopyInv, rcv.at # "failed"
  PROVE  /\ \E r \in Positions : /\ Goes(Copy, down, RcvPos, r)
                                 /\ r # Lost /\ (srv.at \in Broken \/ r = SrvPos)
         /\ files \in Seq(FileType) /\ Copy.files = files /\ Len(files) \in Nat /\ down \in Seq(Units)
         /\ rcv \in Receivers /\ rcv.done \in Seq(Metas) /\ Len(rcv.done) \in Nat
         /\ rcv.at \in Inside => Len(rcv.done) + 1 \in 1..Len(files)
<1>1. rcv \in Receivers /\ rcv.done \in Seq(Metas) /\ files \in Seq(FileType) /\ down \in Seq(Units)
  BY DEF CopyInv, TypeOK, Receivers
<1>2. Len(rcv.done) \in Nat /\ Len(files) \in Nat
  BY <1>1, LenProperties
<1>3. rcv.at \in Inside => Len(rcv.done) < Len(files)
  BY DEF CopyInv, RcvOK
<1> QED
  BY <1>1, <1>2, <1>3, CopyIsOfFiles DEF CopyInv, DownOK

\* When the receiver has got a file it has got it in full.
LEMMA FileReceivedRight ==
  ASSUME CopyInv, UNCHANGED files, rcv.at \in Inside, NEW m, m = Meta(files[Len(rcv.done) + 1]),
         NEW n \in Nat, m.kind = "reg" => n = m.size, FileReceived(m, n)
  PROVE  RcvOK' /\ rcv' \in Receivers /\ RcvPos' = Behind(Copy, Len(rcv.done) + 1)
<1> DEFINE L == Len(files)
           k == Len(rcv.done) + 1
           d == Append(rcv.done, m)
           at == IF k < L THEN "meta" ELSE "end"
<1>1. /\ files \in Seq(FileType) /\ L \in Nat /\ rcv \in Receivers /\ rcv.done \in Seq(Metas)
      /\ Len(rcv.done) \in Nat /\ k \in 1..L
  BY ReceiverReads DEF Inside
<1>2. m \in Metas
  BY <1>1, MetaIsTyped
<1>3. (IF m.kind = "reg" THEN [m EXCEPT !.size = n] ELSE m) = m
  BY <1>2 DEF Metas
<1>4. /\ d \in Seq(Metas) /\ Len(d) = k /\ d[k] = m
      /\ \A i \in 1..Len(rcv.done) : d[i] = rcv.done[i]
  BY <1>1, <1>2, AppendProperties
<1>5. rcv.all = L /\ \A i \in 1..Len(rcv.done) : rcv.done[i] = Meta(files[i])
  BY DEF CopyInv, RcvOK
<1>6. rcv' = [rcv EXCEPT !.at = at, !.progress = 0, !.done = d]
  <2> DEFINE e == Append(rcv.done, IF m.kind = "reg" THEN [m EXCEPT !.size = n] ELSE m)
  <2>1. rcv' = [rcv EXCEPT !.at = IF Len(e) < rcv.all THEN "meta" ELSE "end",
                           !.progress = 0, !.done = e]
    BY DEF FileReceived
  <2>2. e = d
    BY <1>3
  <2> HIDE DEF d, e
  <2> QED
    BY <1>4, <1>5, <2>1, <2>2
<1> HIDE DEF d, at
<1>7. /\ rcv'.at = at /\ rcv'.progress = 0 /\ rcv'.done = d /\ rcv'.all = rcv.all
      /\ rcv' \in [at : Ats \cup {at}, all : Nat, meta : Metas, progress : Nat, done : Seq(Metas)]
  BY <1>1, <1>4, <1>6 DEF Receivers
<1>8. (at = "meta" /\ k < L) \/ (at = "end" /\ k = L)
  BY <1>1 DEF at
<1>9. rcv' \in Receivers
  BY <1>7, <1>8 DEF Receivers, Ats
<1>10. \A i \in 1..k : d[i] = Meta(files[i])
  BY <1>1, <1>4, <1>5
<1>11. Len(rcv'.done) = k /\ rcv'.all = L
  BY <1>4, <1>5, <1>7
<1>12. RcvOK'
  BY <1>1, <1>7, <1>8, <1>10, <1>11 DEF RcvOK, Inside
<1>13. RcvPos' = Behind(Copy, k)
  BY <1>1, <1>7, <1>8, <1>11, BehindIsPosition DEF RcvPos
<1> QED
  BY <1>9, <1>12, <1>13

\* The receiver learns how much there is.
LEMMA ReceiveHeaderKeeps == ASSUME CopyInv, ReceiveHeader PROVE CopyInv'
<1> DEFINE L == Len(files)
           at == IF L > 0 THEN "meta" ELSE "end"
<1>1. rcv.at = "count" /\ Len(down) >= 2 /\ UNCHANGED <<files, snd, up, srv, info, clock, view>>
  BY DEF ReceiveHeader, Receiving
<1>2. /\ files \in Seq(FileType) /\ Copy.files = files /\ L \in Nat /\ down \in Seq(Units)
      /\ rcv \in Receivers
  BY <1>1, ReceiverReads
<1>3. PICK r \in Positions : /\ Goes(Copy, down, RcvPos, r)
                             /\ r # Lost /\ (srv.at \in Broken \/ r = SrvPos)
  BY <1>1, ReceiverReads
<1>4. rcv.done = <<>> /\ rcv.progress = 0 /\ Len(rcv.done) = 0 /\ RcvPos = Pos("count", 1, 0)
  BY <1>1 DEF CopyInv, RcvOK, RcvPos
<1>5. PICK q \in Positions, m \in Positions :
        /\ Leads(Copy, RcvPos, down[1], m) /\ Leads(Copy, m, down[2], q)
        /\ Goes(Copy, SubSeq(down, 3, Len(down)), q, r)
        /\ SubSeq(down, 3, Len(down)) \in Seq(Units)
  BY <1>1, <1>2, <1>3, TwoTaken
<1>6. down[1].value = L /\ q = Behind(Copy, 0)
  BY <1>2, <1>4, <1>5, HeaderUnits DEF Number
<1>7. rcv' = [rcv EXCEPT !.all = L, !.at = at] /\ down' = SubSeq(down, 3, Len(down))
  BY <1>6 DEF ReceiveHeader
<1>8. /\ rcv'.at = at /\ rcv'.all = L /\ rcv'.done = <<>> /\ rcv'.progress = 0
      /\ rcv' \in Receivers
  BY <1>2, <1>4, <1>7 DEF Receivers, Ats
<1>9. Len(rcv'.done) = 0
  BY <1>4, <1>8
<1>10. RcvOK'
  BY <1>1, <1>2, <1>8, <1>9 DEF RcvOK, Inside
<1>11. RcvPos' = q
  BY <1>2, <1>6, <1>8, <1>9, BehindIsPosition DEF RcvPos
<1> QED
  BY <1>1, <1>3, <1>5, <1>7, <1>8, <1>10, <1>11, ReceiverKeeps

\* The receiver takes the metadata and the path of a file.
LEMMA ReceiveMetaKeeps == ASSUME CopyInv, ReceiveMeta PROVE CopyInv'
<1> DEFINE k == Len(rcv.done)
           m == Meta(files[k + 1])
<1>1. /\ rcv.at = "meta" /\ Len(down) >= 2 /\ UNCHANGED <<files, snd, up, srv, info, clock, view>>
      /\ down[1].unit = "meta"
  BY DEF ReceiveMeta, Receiving
<1>2. /\ files \in Seq(FileType) /\ Copy.files = files /\ down \in Seq(Units)
      /\ rcv \in Receivers /\ k \in Nat /\ k + 1 \in 1..Len(files) /\ Len(files) \in Nat
  BY <1>1, ReceiverReads DEF Inside
<1>3. PICK r \in Positions : /\ Goes(Copy, down, RcvPos, r)
                             /\ r # Lost /\ (srv.at \in Broken \/ r = SrvPos)
  BY <1>1, ReceiverReads
<1>4. rcv.progress = 0 /\ RcvPos = Pos("meta", k + 1, 0)
  BY <1>1 DEF CopyInv, RcvOK, RcvPos
<1>5. PICK q \in Positions, p \in Positions :
        /\ Leads(Copy, RcvPos, down[1], p) /\ Leads(Copy, p, down[2], q)
        /\ Goes(Copy, SubSeq(down, 3, Len(down)), q, r)
        /\ SubSeq(down, 3, Len(down)) \in Seq(Units)
  BY <1>1, <1>2, <1>3, TwoTaken
<1>6. down[1] = m /\ q = PastPath(Copy, k + 1)
  BY <1>1, <1>2, <1>4, <1>5, MetaUnits
<1>7. m \in Metas /\ Body(m) = Body(files[k + 1])
  BY <1>2, MetaIsTyped
<1>8. m.size \in Nat /\ m.kind \in {"reg", "dir", "link"}
  BY <1>7 DEF Metas
<1>9. RcvOK' /\ rcv' \in Receivers /\ RcvPos' = q
  <2>1. CASE Body(m) = "next"
    <3>1. FileReceived(m, 0) /\ q = Behind(Copy, k + 1)
      BY <1>2, <1>6, <1>7, <2>1 DEF ReceiveMeta, PastPath
    <3>2. m.kind = "reg" => 0 = m.size
      BY <1>8, <2>1 DEF Body
    <3> HIDE DEF m
    <3> QED
      BY <1>1, <3>1, <3>2, FileReceivedRight DEF Inside, m
  <2>2. CASE Body(m) # "next"
    <3>1. rcv' = [rcv EXCEPT !.at = Body(m), !.meta = m, !.progress = 0]
      BY <1>6, <2>2 DEF ReceiveMeta
    <3>2. Body(m) \in {"byte", "link"} /\ (0 < m.size \/ Body(m) = "link")
      BY <1>8, <2>2 DEF Body
    <3>3. q = Pos(Body(m), k + 1, 0)
      BY <1>2, <1>6, <1>7, <2>2 DEF PastPath
    <3> HIDE DEF m
    <3>4. /\ rcv'.at = Body(m) /\ rcv'.meta = m /\ rcv'.progress = 0 /\ rcv'.done = rcv.done
          /\ rcv'.all = rcv.all /\ rcv' \in Receivers
      BY <1>2, <1>7, <3>1, <3>2 DEF Receivers, Ats
    <3>5. rcv.all = Len(files) /\ \A i \in 1..k : rcv.done[i] = Meta(files[i])
      BY <1>1 DEF CopyInv, RcvOK, Inside
    <3>6. RcvOK'
      BY <1>1, <1>2, <3>2, <3>4, <3>5 DEF RcvOK, Inside, m
    <3>7. RcvPos' = q
      BY <3>3, <3>4 DEF RcvPos
    <3> QED
      BY <3>4, <3>6, <3>7
  <2> QED
    BY <2>1, <2>2
<1>10. down' = SubSeq(down, 3, Len(down))
  BY DEF ReceiveMeta
<1> QED
  BY <1>1, <1>3, <1>5, <1>9, <1>10, ReceiverKeeps

\* The receiver takes bytes.
LEMMA ReceiveBytesKeeps == ASSUME CopyInv, ReceiveBytes PROVE CopyInv'
<1> DEFINE k == Len(rcv.done)
           m == rcv.meta
           g == rcv.progress
           n == Wanted
           q == Along(Copy, k + 1, g + n)
<1>1. /\ rcv.at = "byte" /\ Len(down) >= n /\ UNCHANGED <<files, snd, up, srv, info, clock, view>>
      /\ down' = SubSeq(down, n + 1, Len(down))
      /\ IF g + n < m.size THEN rcv' = [rcv EXCEPT !.progress = g + n] ELSE FileReceived(m, g + n)
  BY DEF ReceiveBytes, Receiving
<1>2. /\ files \in Seq(FileType) /\ Copy.files = files /\ down \in Seq(Units) /\ Len(down) \in Nat
      /\ rcv \in Receivers /\ k \in Nat /\ k + 1 \in 1..Len(files) /\ Len(files) \in Nat
  BY <1>1, ReceiverReads, LenProperties DEF Inside
<1>3. PICK r \in Positions : /\ Goes(Copy, down, RcvPos, r)
                             /\ r # Lost /\ (srv.at \in Broken \/ r = SrvPos)
  BY <1>1, ReceiverReads
<1>4. RcvPos = Pos("byte", k + 1, g)
  BY <1>1 DEF RcvPos
<1>5. /\ m = Meta(files[k + 1]) /\ Body(m) = "byte" /\ m.size = files[k + 1].size
      /\ m.size \in Nat /\ g \in Nat /\ g < m.size
  <2>1. m = Meta(files[k + 1]) /\ Body(m) = "byte" /\ g < m.size
    BY <1>1 DEF CopyInv, RcvOK
  <2>2. g \in Nat
    BY <1>2 DEF Receivers
  <2>3. m.size = files[k + 1].size /\ m.size \in Nat
    BY <1>2, <2>1, MetaIsTyped, SizeIsNumber
  <2> QED
    BY <2>1, <2>2, <2>3
<1>6. n \in 0..Len(down) /\ n \in Nat /\ g + n \in Nat /\ g + n <= m.size
  <2>1. n = SmallerOf(Buf, m.size - g)
    BY <1>1 DEF Wanted
  <2>2. m.size - g \in Nat /\ Buf \in Nat
    BY <1>5, CopyAssumption
  <2>3. n \in Nat /\ n <= m.size - g
    BY <2>1, <2>2 DEF SmallerOf
  <2> QED
    BY <1>1, <1>2, <1>5, <2>3
<1> HIDE DEF n
<1>7. Goes(Copy, down', q, r) /\ down' \in Seq(Units)
  BY <1>1, <1>2, <1>3, <1>4, <1>5, <1>6, SomeTaken
<1>8. /\ q \in Positions
      /\ q = IF g + n < m.size THEN Pos("byte", k + 1, g + n) ELSE Behind(Copy, k + 1)
  <2>1. q \in Positions
    BY <1>2, <1>6, AlongIsPosition
  <2> QED
    BY <1>2, <1>5, <1>6, <2>1 DEF Along
<1>9. RcvOK' /\ rcv' \in Receivers /\ RcvPos' = q
  <2>1. CASE g + n < m.size
    <3>1. /\ rcv'.at = "byte" /\ rcv'.meta = m /\ rcv'.progress = g + n /\ rcv'.done = rcv.done
          /\ rcv'.all = rcv.all /\ rcv' \in Receivers
      BY <1>1, <1>2, <1>6, <2>1 DEF Receivers
    <3>2. rcv.all = Len(files) /\ \A i \in 1..k : rcv.done[i] = Meta(files[i])
      BY <1>1 DEF CopyInv, RcvOK, Inside
    <3>3. RcvOK'
      BY <1>1, <1>2, <1>5, <2>1, <3>1, <3>2 DEF RcvOK, Inside
    <3>4. RcvPos' = q
      BY <1>8, <2>1, <3>1 DEF RcvPos
    <3> QED
      BY <3>1, <3>3, <3>4
  <2>2. CASE ~ (g + n < m.size)
    <3>1. FileReceived(m, g + n) /\ g + n = m.size /\ q = Behind(Copy, k + 1)
      BY <1>1, <1>5, <1>6, <1>8, <2>2
    <3> QED
      BY <1>1, <1>5, <1>6, <3>1, FileReceivedRight DEF Inside
  <2> QED
    BY <2>1, <2>2
<1> QED
  BY <1>1, <1>3, <1>7, <1>8, <1>9, ReceiverKeeps

\* The receiver takes where a link leads.
LEMMA ReceiveLinkKeeps == ASSUME CopyInv, ReceiveLink PROVE CopyInv'
<1> DEFINE k == Len(rcv.done)
           m == rcv.meta
<1>1. /\ rcv.at = "link" /\ down # <<>> /\ UNCHANGED <<files, snd, up, srv, info, clock, view>>
      /\ down' = Tail(down) /\ FileReceived(m, 0)
  BY DEF ReceiveLink, Receiving
<1>2. /\ files \in Seq(FileType) /\ Copy.files = files /\ down \in Seq(Units)
      /\ k \in Nat /\ k + 1 \in 1..Len(files)
  BY <1>1, ReceiverReads DEF Inside
<1>3. PICK r \in Positions : /\ Goes(Copy, down, RcvPos, r)
                             /\ r # Lost /\ (srv.at \in Broken \/ r = SrvPos)
  BY <1>1, ReceiverReads
<1>4. /\ RcvPos = Pos("link", k + 1, 0) /\ m = Meta(files[k + 1]) /\ Body(m) = "link"
  BY <1>1 DEF CopyInv, RcvOK, RcvPos
<1>5. PICK q \in Positions : Leads(Copy, RcvPos, down[1], q) /\ Goes(Copy, Tail(down), q, r)
  BY <1>1, <1>2, <1>3, OneTaken
<1>6. Tail(down) \in Seq(Units)
  BY <1>1, <1>2, <1>3, OneTaken
<1>7. q = Behind(Copy, k + 1)
  BY <1>4, <1>5, LinkUnit
<1>8. m.kind # "reg"
  BY <1>4 DEF Body
<1>9. RcvOK' /\ rcv' \in Receivers /\ RcvPos' = q
  BY <1>1, <1>4, <1>7, <1>8, FileReceivedRight DEF Inside
<1> QED
  BY <1>1, <1>3, <1>5, <1>6, <1>9, ReceiverKeeps

\* The receiver fails.
LEMMA ReceiverFailsKeeps == ASSUME CopyInv, ReceiverFails PROVE CopyInv'
<1>1. /\ SizeOfFirst' = SizeOfFirst /\ TotalSize' = TotalSize /\ Copy' = Copy
      /\ Unchanged' = Unchanged
  BY SameFiles DEF ReceiverFails
<1>2. rcv \in Receivers /\ rcv' = [rcv EXCEPT !.at = "failed"]
  BY DEF ReceiverFails, CopyInv, TypeOK, Receivers
<1>3. rcv' \in Receivers /\ rcv'.at = "failed" /\ rcv'.done = rcv.done
  BY <1>2 DEF Receivers, Ats
<1>4. TypeOK'
  BY <1>3 DEF CopyInv, TypeOK, ReceiverFails, Receivers
<1>5. SndOK' /\ SrvOK' /\ UpOK'
  BY <1>1 DEF ReceiverFails, CopyInv, SndOK, SrvOK, UpOK, Reaches, SndPos, SrvPos
<1>6. RcvOK' /\ DownOK'
  BY <1>3 DEF ReceiverFails, CopyInv, RcvOK, DownOK, Inside
<1>7. ProgressSound' /\ CompletedMeansProxied'
  BY DEF ReceiverFails, CopyInv, ProgressSound, CompletedMeansProxied
<1> QED
  BY <1>4, <1>5, <1>6, <1>7 DEF CopyInv

-----------------------------------------------------------------------------
\* The invariant is inductive.
LEMMA CopyInvKept == CopyInv /\ [Next]_vars => CopyInv'
<1> SUFFICES ASSUME CopyInv, [Next]_vars PROVE CopyInv'
  OBVIOUS
<1>1. CASE Sender \/ SenderFails
  BY <1>1, SendHeaderKeeps, SendMetaKeeps, SendBytesKeeps, SendLinkKeeps, SenderFailsKeeps DEF Sender
<1>2. CASE Proxy
  BY <1>2, ProxyHeaderKeeps, ProxyMetaKeeps, ProxyBytesKeeps, ProxyLinkKeeps, ProxyFailsKeeps DEF Proxy
<1>3. CASE Tick
  BY <1>3, TickKeeps
<1>4. CASE Receiver \/ ReceiverFails
  BY <1>4, ReceiveHeaderKeeps, ReceiveMetaKeeps, ReceiveBytesKeeps, ReceiveLinkKeeps,
     ReceiverFailsKeeps DEF Receiver
<1>5. CASE UNCHANGED vars
  <2>1. /\ SizeOfFirst' = SizeOfFirst /\ TotalSize' = TotalSize /\ Copy' = Copy
        /\ Unchanged' = Unchanged
    BY <1>5, SameFiles DEF vars
  <2>2. TypeOK'
    BY <1>5 DEF CopyInv, TypeOK, vars
  <2>3. SndOK' /\ SrvOK' /\ RcvOK'
    BY <1>5, <2>1 DEF vars, CopyInv, SndOK, SrvOK, RcvOK, SndPos
  <2>4. UpOK' /\ DownOK'
    BY <1>5, <2>1 DEF vars, CopyInv, UpOK, DownOK, Reaches, SndPos, SrvPos, RcvPos
  <2>5. ProgressSound' /\ CompletedMeansProxied'
    BY <1>5 DEF vars, CopyInv, ProgressSound, CompletedMeansProxied
  <2> QED
    BY <2>2, <2>3, <2>4, <2>5 DEF CopyInv
<1> QED
  BY <1>1, <1>2, <1>3, <1>4, <1>5 DEF Next

\* Every state of a copy is right: each program is at a position of what is to
\* be sent, and each connection holds what is between two of them.
THEOREM CopyKept == Spec => []CopyInv
<1>1. Init => CopyInv
  BY StartsRight
<1>2. CopyInv /\ [Next]_vars => CopyInv'
  BY CopyInvKept
<1> QED
  BY <1>1, <1>2, PTL DEF Spec

\* Type correctness of CopySender, process_copy, CopyReceiver and the streams
\* between them, for all files and sizes of the buffers.
THEOREM CopyTyped == Spec => []TypeOK
<1>1. CopyInv => TypeOK
  BY DEF CopyInv
<1> QED
  BY <1>1, CopyKept, PTL

\* The watcher's figures are right and complete when the copy is
\* (Server::process_copy, WatcherInfo).
THEOREM ProgressIsSound == Spec => []ProgressSound
<1>1. CopyInv => ProgressSound
  BY DEF CopyInv
<1> QED
  BY <1>1, CopyKept, PTL

\* The dialog shows completion only when every file was proxied
\* (ClientUi::update_watcher_info).
THEOREM CompletionIsEarned == Spec => []CompletedMeansProxied
<1>1. CopyInv => CompletedMeansProxied
  BY DEF CopyInv
<1> QED
  BY <1>1, CopyKept, PTL

\* What CopyReceiver has written are the first files that CopySender had to
\* send, each in full, and all of them when it is through.
LEMMA WrittenAreSent == CopyInv => FilesArrive
<1> SUFFICES ASSUME CopyInv PROVE FilesArrive
  OBVIOUS
<1> DEFINE sent == [i \in DOMAIN files |-> Meta(files[i])]
<1>1. /\ files \in Seq(FileType) /\ Len(files) \in Nat /\ DOMAIN files = 1..Len(files)
      /\ rcv.done \in Seq(Metas) /\ Len(rcv.done) \in Nat /\ DOMAIN rcv.done = 1..Len(rcv.done)
  BY LenProperties DEF CopyInv, TypeOK
<1>2. sent \in Seq(Metas) /\ Len(sent) = Len(files) /\ \A i \in 1..Len(files) : sent[i] = Meta(files[i])
  <2>1. \A i \in 1..Len(files) : Meta(files[i]) \in Metas
    BY <1>1, MetaIsTyped
  <2> QED
    BY <1>1, <2>1
<1>3. /\ Len(rcv.done) <= Len(files)
      /\ \A i \in 1..Len(rcv.done) : rcv.done[i] = Meta(files[i])
      /\ rcv.at = "end" => Len(rcv.done) = Len(files)
  BY DEF CopyInv, RcvOK
<1> HIDE DEF sent
<1>4. rcv.at = "end" => rcv.done = sent
  BY <1>1, <1>2, <1>3, SeqEqual
<1>5. IsPrefix(rcv.done, sent)
  BY <1>1, <1>2, <1>3 DEF IsPrefix
<1> QED
  BY <1>4, <1>5 DEF FilesArrive, sent

\* The receiver completes the files that were to be sent, in their order and in
\* full, and is through only with all of them (client.cpp, CopySender and
\* CopyReceiver with process_copy between them), also when a file changes while
\* it is sent: what is sent instead never lets the receiver complete it.
THEOREM FilesDoArrive == Spec => []FilesArrive
<1> QED
  BY WrittenAreSent, CopyKept, PTL

\* Nobody takes contents for messages, if no file changed while it was copied:
\* a stream that is not lost has at its head what its reader is to read.
LEMMA HeadsAreRight == CopyInv => FramingKept
<1> SUFFICES ASSUME CopyInv, Unchanged
             PROVE  Framed(srv.at, up) /\ Framed(rcv.at, down)
  BY DEF FramingKept
<1>1. ASSUME NEW at, NEW p, p.at = at, at \in {"count", "meta", "byte", "link"},
             NEW s \in Seq(Units), s # <<>>, NEW r \in Positions, Goes(Copy, s, p, r), r # Lost
      PROVE  s[1].unit = IF at = "count" THEN "number" ELSE at
  <2>1. s[1] = UnitAt(Copy, p)
    BY <1>1, FoundWhereNotLost
  <2> QED
    BY <1>1, <2>1 DEF UnitAt, Number, Meta, Unit
<1>2. up \in Seq(Units) /\ down \in Seq(Units) /\ srv.at \in Ats /\ rcv.at \in Ats
  BY DEF CopyInv, TypeOK
<1>3. SrvPos.at = srv.at /\ RcvPos.at = rcv.at
  BY DEF SrvPos, RcvPos, Pos
<1>4. srv.at \in {"count", "meta", "byte", "link"} =>
        \E r \in Positions : Goes(Copy, up, SrvPos, r) /\ r # Lost
  BY DEF CopyInv, UpOK, Reaches, Broken
<1>5. rcv.at \in {"count", "meta", "byte", "link"} =>
        \E r \in Positions : Goes(Copy, down, RcvPos, r) /\ r # Lost
  BY DEF CopyInv, DownOK
<1>6. Framed(srv.at, up)
  BY <1>1, <1>2, <1>3, <1>4 DEF Framed, Ats
<1>7. Framed(rcv.at, down)
  BY <1>1, <1>2, <1>3, <1>5 DEF Framed, Ats
<1> QED
  BY <1>6, <1>7

\* If no file changes, process_copy and CopyReceiver never take contents for a
\* message, however the bytes are cut up on the way and whoever fails.
THEOREM FramingIsKept == Spec => []FramingKept
<1> QED
  BY HeadsAreRight, CopyKept, PTL
==============================================================================
