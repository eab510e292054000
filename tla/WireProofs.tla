------------------------------ MODULE WireProofs ------------------------------
(***************************************************************************)
(* What is sent is what is received, for values of any size.               *)
(*                                                                         *)
(* A stream t may hold less than a message or more. If it is Alike the     *)
(* message, so that the two agree as far as both go, then recv gives what  *)
(* Read says: nothing while a number is missing, and afterwards the value  *)
(* and what follows the message, whatever that is. Messages made of parts  *)
(* are taken apart with TwoParts. The items of a vector are read by the    *)
(* recursive function in RecvVector; that it keeps up with what was sent   *)
(* is an induction over the number of items (StepsAddUp of Streams).       *)
(***************************************************************************)
EXTENDS Wire, Streams, SequenceTheorems

\* As far as both go they agree; the stream after n numbers; what a receive of a
\* value v gives that was sent as the sequence sent.
Alike(t, s) == \A i \in 1..Len(t) : i <= Len(s) => t[i] = s[i]
Rest(t, n) == SubSeq(t, n + 1, Len(t))
Read(v, sent, t) == IF Len(t) < Len(sent) THEN Short ELSE Got(v, Rest(t, Len(sent)))

\* What is left of a stream after n numbers, and after m more.
LEMMA RestProps ==
  ASSUME NEW t \in Strings, NEW n \in 0..Len(t)
  PROVE  /\ Rest(t, n) \in Strings /\ Len(Rest(t, n)) = Len(t) - n
         /\ \A i \in 1..Len(t) - n : Rest(t, n)[i] = t[n + i]
         /\ \A m \in 0..Len(t) - n : Rest(Rest(t, n), m) = Rest(t, n + m)
<1>1. /\ Rest(t, n) \in Strings /\ Len(Rest(t, n)) = Len(t) - n
      /\ \A i \in 1..Len(t) - n : Rest(t, n)[i] = t[n + i]
  <2>1. /\ Len(t) \in Nat /\ n + 1 \in Int /\ n \in Nat
        /\ \A i \in (n + 1)..Len(t) : t[i] \in Nat
    BY DEF Strings
  <2>2. /\ SubSeq(t, n + 1, Len(t)) \in Seq(Nat)
        /\ Len(SubSeq(t, n + 1, Len(t))) = IF n + 1 <= Len(t) THEN Len(t) - (n + 1) + 1 ELSE 0
        /\ \A i \in 1..Len(t) - (n + 1) + 1 : SubSeq(t, n + 1, Len(t))[i] = t[n + 1 + i - 1]
    BY <2>1, SubSeqProperties
  <2> QED
    BY <2>1, <2>2 DEF Strings, Rest
<1>2. ASSUME NEW m \in 0..Len(t) - n
      PROVE  Rest(Rest(t, n), m) = Rest(t, n + m)
  <2>1. n + m \in 0..Len(t) /\ Len(t) \in Nat
    BY DEF Strings
  <2>2. /\ Rest(t, n + m) \in Strings /\ Len(Rest(t, n + m)) = Len(t) - (n + m)
        /\ \A i \in 1..Len(t) - (n + m) : Rest(t, n + m)[i] = t[(n + m) + i]
    BY <2>1 DEF Strings, Rest
  <2>3. /\ Rest(Rest(t, n), m) \in Strings /\ Len(Rest(Rest(t, n), m)) = (Len(t) - n) - m
        /\ \A i \in 1..(Len(t) - n) - m : Rest(Rest(t, n), m)[i] = Rest(t, n)[m + i]
    BY <1>1, <2>1 DEF Strings, Rest
  <2>4. \A i \in 1..Len(t) - (n + m) : Rest(Rest(t, n), m)[i] = Rest(t, n + m)[i]
    <3>1. ASSUME NEW i \in 1..Len(t) - (n + m) PROVE Rest(Rest(t, n), m)[i] = Rest(t, n + m)[i]
      <4>1. i \in 1..(Len(t) - n) - m /\ m + i \in 1..Len(t) - n /\ n + (m + i) = (n + m) + i
        BY <2>1
      <4> QED
        BY <4>1, <2>2, <2>3, <1>1
    <3> QED
      BY <3>1
  <2>5. Len(Rest(Rest(t, n), m)) = Len(Rest(t, n + m))
    BY <2>1, <2>2, <2>3
  <2> QED
    BY <2>2, <2>3, <2>4, <2>5, SeqEqual DEF Strings
<1> QED
  BY <1>1, <1>2

\* A stream like two pieces is like the first, and like the second after that.
LEMMA AlikeParts ==
  ASSUME NEW a \in Strings, NEW b \in Strings, NEW t \in Strings, Alike(t, a \o b)
  PROVE  /\ Alike(t, a) /\ Len(a \o b) = Len(a) + Len(b)
         /\ Len(t) >= Len(a) => Alike(Rest(t, Len(a)), b)
<1>1. /\ Len(a \o b) = Len(a) + Len(b) /\ Len(a) \in Nat /\ Len(b) \in Nat /\ Len(t) \in Nat
      /\ \A i \in 1..Len(a) : (a \o b)[i] = a[i]
      /\ \A i \in 1..Len(b) : (a \o b)[Len(a) + i] = b[i]
  BY DEF Strings
<1>2. Alike(t, a)
  BY <1>1 DEF Alike
<1>3. ASSUME Len(t) >= Len(a)
      PROVE  Alike(Rest(t, Len(a)), b)
  <2>1. /\ Len(Rest(t, Len(a))) = Len(t) - Len(a)
        /\ \A i \in 1..Len(t) - Len(a) : Rest(t, Len(a))[i] = t[Len(a) + i]
    BY <1>1, <1>3, RestProps
  <2> QED
    BY <1>1, <1>3, <2>1 DEF Alike
<1> QED
  BY <1>1, <1>2, <1>3


\* A read has no result while the stream is shorter than what was sent, and else one.
LEMMA ReadCases ==
  ASSUME NEW v, NEW a \in Strings, NEW t \in Strings
  PROVE  /\ Len(t) < Len(a) => Read(v, a, t) = {}
         /\ Len(t) >= Len(a) => Read(v, a, t) = {<<v, Rest(t, Len(a))>>}
<1>1. Len(t) \in Nat /\ Len(a) \in Nat
  BY DEF Strings
<1> QED
  BY <1>1 DEF Read, Got, Short

\* To read two pieces as one is to read the second after the first.
LEMMA TwoParts ==
  ASSUME NEW a \in Strings, NEW b \in Strings, NEW t \in Strings, NEW w
  PROVE  Read(w, a \o b, t) = IF Len(t) < Len(a) THEN {} ELSE Read(w, b, Rest(t, Len(a)))
<1>1. Len(t) \in Nat /\ Len(a) \in Nat /\ Len(b) \in Nat /\ Len(a \o b) = Len(a) + Len(b)
      /\ a \o b \in Strings
  BY DEF Strings
<1>2. CASE Len(t) < Len(a)
  <2>1. Len(t) < Len(a \o b)
    BY <1>1, <1>2
  <2> QED
    BY <1>1, <1>2, <2>1, ReadCases
<1>3. CASE Len(t) >= Len(a)
  <2>1. /\ Rest(t, Len(a)) \in Strings /\ Len(Rest(t, Len(a))) = Len(t) - Len(a)
        /\ Len(t) >= Len(a) + Len(b) => Rest(Rest(t, Len(a)), Len(b)) = Rest(t, Len(a \o b))
    BY <1>1, <1>3, RestProps
  <2>2. CASE Len(t) < Len(a \o b)
    <3>1. Len(Rest(t, Len(a))) < Len(b) /\ ~ (Len(t) < Len(a))
      BY <1>1, <1>3, <2>1, <2>2
    <3>2. Read(w, b, Rest(t, Len(a))) = {}
      BY <2>1, <3>1, ReadCases
    <3>3. Read(w, a \o b, t) = {}
      BY <1>1, <2>2, ReadCases
    <3> QED
      BY <3>1, <3>2, <3>3
  <2>3. CASE Len(t) >= Len(a \o b)
    <3>1. Len(Rest(t, Len(a))) >= Len(b) /\ ~ (Len(t) < Len(a)) /\ Len(t) >= Len(a) + Len(b)
      BY <1>1, <1>3, <2>1, <2>3
    <3>2. Read(w, b, Rest(t, Len(a))) = {<<w, Rest(Rest(t, Len(a)), Len(b))>>}
      BY <2>1, <3>1, ReadCases
    <3>3. Read(w, a \o b, t) = {<<w, Rest(t, Len(a \o b))>>}
      BY <1>1, <2>3, ReadCases
    <3> QED
      BY <2>1, <3>1, <3>2, <3>3
  <2> QED
    BY <1>1, <2>2, <2>3
<1> QED
  BY <1>1, <1>2, <1>3

\* Streams join to streams, and what is sent of a number or a string is one.
LEMMA Joins ==
  /\ \A a, b \in Strings : a \o b \in Strings /\ Len(a \o b) = Len(a) + Len(b)
  /\ \A a \in Strings : Len(a) \in Nat
  /\ \A v \in Nat : SendPod(v) \in Strings /\ Len(SendPod(v)) = 1
  /\ \A v \in Strings : SendString(v) \in Strings /\ SendString(v) = SendPod(Len(v)) \o v
<1>1. \A a, b \in Strings : a \o b \in Strings /\ Len(a \o b) = Len(a) + Len(b)
  BY DEF Strings
<1>2. \A a \in Strings : Len(a) \in Nat
  BY DEF Strings
<1>3. \A v \in Nat : SendPod(v) \in Strings /\ Len(SendPod(v)) = 1
  BY DEF Strings, SendPod
<1>4. ASSUME NEW v \in Strings
      PROVE  SendString(v) \in Strings /\ SendString(v) = SendPod(Len(v)) \o v
  <2>1. SendString(v) = SendPod(Len(v)) \o v
    BY DEF SendString, SendPod
  <2> QED
    BY <1>1, <1>2, <1>3, <2>1
<1> QED
  BY <1>1, <1>2, <1>3, <1>4

\* Joining is associative.
LEMMA JoinsAssociate == \A a, b, c \in Strings : (a \o b) \o c = a \o (b \o c)
  BY ConcatAssociative DEF Strings

\* A value of a trivial type is read as it was sent.
LEMMA PodRead ==
  ASSUME NEW v \in Nat, NEW t \in Strings, Alike(t, SendPod(v))
  PROVE  RecvPod(t) = Read(v, SendPod(v), t)
<1>1. SendPod(v) \in Strings /\ Len(SendPod(v)) = 1 /\ SendPod(v)[1] = v
  BY DEF SendPod, Strings
<1>2. CASE t = <<>>
  BY <1>1, <1>2 DEF RecvPod, Read
<1>3. CASE t # <<>>
  <2>1. Len(t) \in Nat /\ Len(t) >= 1
    BY <1>3, EmptySeq DEF Strings
  <2>2. Head(t) = v
    BY <1>1, <2>1 DEF Alike, Strings
  <2>3. Tail(t) = Rest(t, 1)
    BY <1>3, TailIsSubSeq DEF Rest, Strings
  <2>4. RecvPod(t) = {<<v, Rest(t, 1)>>}
    BY <1>3, <2>2, <2>3 DEF RecvPod, Got
  <2> QED
    BY <1>1, <2>1, <2>4, ReadCases
<1> QED
  BY <1>1, <1>2, <1>3

\* A std::string is received as it was sent, by any recv that is given at least the
\* string and whatever follows, and not before all of it is there (serde.hpp, send
\* and recv of std::string): the text of an answer cannot take in what comes next.
THEOREM StringRead ==
  ASSUME NEW v \in Strings, NEW t \in Strings, Alike(t, SendString(v))
  PROVE  RecvString(t) = Read(v, SendString(v), t)
<1> DEFINE F(size, r) == IF Len(r) < size THEN Short
                         ELSE Got(SubSeq(r, 1, size), SubSeq(r, size + 1, Len(r)))
           n == Len(v)
           head == SendPod(n)
           r == Rest(t, 1)
<1>1. RecvString(t) = UNION {F(p[1], p[2]) : p \in RecvPod(t)}
  BY DEF RecvString, Then
<1>2. /\ SendString(v) = head \o v /\ head \in Strings /\ Len(head) = 1
      /\ n \in Nat /\ Len(t) \in Nat
  BY DEF SendString, SendPod, Strings
<1> HIDE DEF F, head, r, n
<1>3. Alike(t, head) /\ (Len(t) >= Len(head) => Alike(Rest(t, Len(head)), v))
  BY <1>2, AlikeParts
<1>4. RecvPod(t) = Read(n, head, t)
  BY <1>2, <1>3, PodRead DEF head
<1>5. Len(t) < Len(head) => RecvString(t) = {}
  BY <1>1, <1>2, <1>4, ReadCases
<1>6. ASSUME Len(t) >= Len(head)
      PROVE  RecvString(t) = Read(v, v, Rest(t, Len(head)))
  <2>1. RecvPod(t) = {<<n, r>>}
    BY <1>2, <1>4, <1>6, ReadCases DEF r
  <2>2. RecvString(t) = F(n, r)
    BY <1>1, <2>1
  <2>3. r \in Strings /\ Len(r) \in Nat
    BY <1>2, <1>6, RestProps DEF r, Strings
  <2>4. CASE Len(r) < n
    BY <1>2, <2>2, <2>4 DEF Read, F, n, r
  <2>5. CASE Len(r) >= n
    <3>1. SubSeq(r, 1, n) = v
      <4>1. \A i \in 1..n : r[i] = v[i]
        BY <1>2, <1>3, <1>6, <2>3, <2>5 DEF Alike, n, r
      <4>2. /\ SubSeq(r, 1, n) \in Seq(Nat) /\ Len(SubSeq(r, 1, n)) = n
            /\ \A i \in 1..n : SubSeq(r, 1, n)[i] = r[i]
        BY <1>2, <2>3, <2>5 DEF Strings
      <4>3. v \in Seq(Nat) /\ Len(v) = n
        BY DEF n, Strings
      <4> QED
        BY <4>1, <4>2, <4>3, SeqEqual
    <3>2. ~ (Len(r) < n)
      BY <1>2, <2>3, <2>5
    <3>3. RecvString(t) = Got(v, Rest(r, n))
      BY <2>2, <3>1, <3>2 DEF F, Rest
    <3> QED
      BY <1>2, <3>2, <3>3 DEF Read, n, r
  <2> QED
    BY <1>2, <2>3, <2>4, <2>5
<1> QED
  <2>1. Read(v, head \o v, t) = IF Len(t) < Len(head) THEN {} ELSE Read(v, v, Rest(t, Len(head)))
    BY <1>2, TwoParts, ZenonT(30)
  <2>2. Len(t) < Len(head) \/ Len(t) >= Len(head)
    BY <1>2
  <2>3. RecvString(t) = Read(v, head \o v, t)
    BY <1>2, <1>5, <1>6, <2>1, <2>2
  <2> QED
    BY <1>2, <2>3

-----------------------------------------------------------------------------
\* The first n pieces of a stream that is made of them.
Upto(parts, n) == FlattenSeq(SubSeq(parts, 1, n))

\* FlattenSeq joins pieces one by one: it is f, the joins of the first pieces, at the end.
LEMMA FlattenIs ==
  ASSUME NEW q \in Seq(Strings), NEW f \in [0..Len(q) -> Strings],
         f[0] = <<>>, \A k \in 1..Len(q) : f[k] = f[k - 1] \o q[k]
  PROVE  FlattenSeq(q) = f[Len(q)]
<1> DEFINE n == Len(q)
           Flattens(h) == h = [i \in 1..Len(q) |-> IF i = 1 THEN q[i] ELSE h[i - 1] \o q[i]]
           H == CHOOSE h : Flattens(h)
           g == [i \in 1..Len(q) |-> f[i]]
<1>1. n \in Nat /\ \A k \in 1..n : q[k] \in Strings
  OBVIOUS
<1>2. CASE n = 0
  BY <1>2 DEF FlattenSeq
<1>3. CASE n # 0
  <2>1. FlattenSeq(q) = H[n]
    BY <1>3 DEF FlattenSeq
  <2>2. f[1] = q[1]
    <3> HIDE DEF Flattens, H, g
    <3>0. 1 \in 1..Len(q) /\ 1 - 1 = 0
      BY <1>1, <1>3
    <3>1. 1 \in 1..n /\ f[1] = f[0] \o q[1] /\ 1 - 1 = 0
      BY <3>0
    <3> QED
      BY <3>1, <1>1, ConcatEmptySeq DEF Strings
  <2>3. \A i \in 1..n : g[i] = IF i = 1 THEN q[i] ELSE g[i - 1] \o q[i]
    <3>1. ASSUME NEW i \in 1..n, i # 1 PROVE g[i] = g[i - 1] \o q[i]
      <4>1. i - 1 \in 1..n
        BY <1>1, <3>1
      <4> QED
        BY <3>1, <4>1
    <3> QED
      BY <2>2, <3>1
  <2>4. Flattens(g)
    BY <2>3
  <2>5. Flattens(H)
    <3> HIDE DEF Flattens, g
    <3> QED
      BY <2>4
  <2> HIDE DEF H
  <2> DEFINE S == {m \in Nat : m + 1 \in 1..n => H[m + 1] = f[m + 1]}
  <2>6. 0 \in S
    BY <2>2, <2>5
  <2>7. ASSUME NEW m \in Nat, m \in S
        PROVE  m + 1 \in S
    <3> SUFFICES ASSUME (m + 1) + 1 \in 1..n
                 PROVE  H[(m + 1) + 1] = f[(m + 1) + 1]
      OBVIOUS
    <3>1. m + 1 \in 1..n /\ (m + 1) + 1 # 1 /\ ((m + 1) + 1) - 1 = m + 1
      BY <1>1
    <3>2. H[(m + 1) + 1] = H[m + 1] \o q[(m + 1) + 1]
      BY <2>5, <3>1
    <3> QED
      BY <2>7, <3>1, <3>2
  <2>8. n - 1 \in S
    <3> HIDE DEF S, Flattens, g, n
    <3>1. n - 1 \in Nat
      BY <1>1, <1>3
    <3> QED
      BY <2>6, <2>7, <3>1, SetInduction
  <2> QED
    BY <1>1, <1>3, <2>1, <2>8
<1> QED
  BY <1>2, <1>3

\* The first n pieces joined: what they start with, go on with and come to.
LEMMA UptoProps ==
  ASSUME NEW parts \in Seq(Strings)
  PROVE  /\ \A n \in 0..Len(parts) : Upto(parts, n) \in Strings
         /\ Upto(parts, 0) = <<>>
         /\ \A n \in 1..Len(parts) : Upto(parts, n) = Upto(parts, n - 1) \o parts[n]
         /\ Upto(parts, Len(parts)) = FlattenSeq(parts)
<1> DEFINE L == Len(parts)
           F == [k \in 1..L |-> [a \in Strings |-> a \o parts[k]]]
<1>1. L \in Nat /\ \A k \in 1..L : parts[k] \in Strings
  OBVIOUS
<1>2. F \in [1..L -> [Strings -> Strings]] /\ <<>> \in Strings
  <2>1. \A a, b \in Strings : a \o b \in Strings
    BY DEF Strings
  <2> QED
    BY <2>1, <1>1 DEF Strings
<1>3. \A k \in 1..L : \A a \in Strings : F[k][a] = a \o parts[k]
  OBVIOUS
<1>13. \E f : Climbs(f, Strings, <<>>, L, F)
  <2> HIDE DEF L, F
  <2> QED
    BY <1>1, <1>2, StepsAddUp
<1>14. PICK f : Climbs(f, Strings, <<>>, L, F)
  BY <1>13
<1>12. f \in [0..L -> Strings] /\ f[0] = <<>> /\ \A k \in 1..L : f[k] = F[k][f[k - 1]]
  <2> HIDE DEF L, F
  <2> QED
    BY <1>14 DEF Climbs
<1>4. ASSUME NEW k \in 1..L PROVE f[k] = f[k - 1] \o parts[k]
  <2>1. k - 1 \in 0..L
    BY <1>1
  <2> QED
    BY <1>3, <1>12, <2>1
<1>5. ASSUME NEW n \in 0..L PROVE Upto(parts, n) = f[n]
  <2> DEFINE q == SubSeq(parts, 1, n)
             g == [k \in 0..n |-> f[k]]
  <2>1. /\ q \in Seq(Strings) /\ Len(q) = n /\ n \in Nat
        /\ \A k \in 1..n : q[k] = parts[k] /\ k \in 1..L
    BY <1>1, SubSeqProperties
  <2>2. g \in [0..n -> Strings] /\ g[0] = <<>> /\ g[n] = f[n]
    BY <1>1, <1>12
  <2>3. ASSUME NEW k \in 1..n PROVE g[k] = g[k - 1] \o q[k]
    <3>1. k \in 0..n /\ k - 1 \in 0..n /\ k \in 1..L /\ q[k] = parts[k]
      BY <2>1
    <3> QED
      BY <3>1, <1>4
  <2> HIDE DEF q, g
  <2>4. FlattenSeq(q) = g[Len(q)]
    BY <2>1, <2>2, <2>3, FlattenIs
  <2> QED
    BY <2>1, <2>2, <2>4 DEF Upto, q
<1>6. \A n \in 1..L : n \in 0..L /\ n - 1 \in 0..L
  BY <1>1
<1>7. SubSeq(parts, 1, L) = parts
  BY SubSeqFull
<1> HIDE DEF L
<1>8. Upto(parts, L) = FlattenSeq(parts)
  BY <1>7 DEF Upto
<1>9. \A n \in 0..L : Upto(parts, n) \in Strings
  BY <1>12, <1>5
<1>10. Upto(parts, 0) = <<>>
  BY <1>1, <1>12, <1>5
<1>11. \A n \in 1..L : Upto(parts, n) = Upto(parts, n - 1) \o parts[n]
  BY <1>4, <1>5, <1>6
<1> QED
  BY <1>8, <1>9, <1>10, <1>11 DEF L

\* A stream like all pieces is like the first n of them.
LEMMA UptoAlike ==
  ASSUME NEW parts \in Seq(Strings), NEW r \in Strings, Alike(r, FlattenSeq(parts))
  PROVE  \A n \in 0..Len(parts) : Alike(r, Upto(parts, n))
<1> DEFINE L == Len(parts)
           S == {m \in Nat : m <= L => Alike(r, Upto(parts, L - m))}
<1>1. L \in Nat
  OBVIOUS
<1> HIDE DEF L
<1>2. 0 \in S
  <2>1. L - 0 = L
    BY <1>1
  <2> QED
    BY <1>1, <2>1, UptoProps DEF L
<1>3. ASSUME NEW m \in Nat, m \in S
      PROVE  m + 1 \in S
  <2> SUFFICES ASSUME m + 1 <= L
               PROVE  Alike(r, Upto(parts, L - (m + 1)))
    BY <1>3
  <2>1. L - m \in 1..L /\ L - (m + 1) \in 0..L /\ (L - m) - 1 = L - (m + 1) /\ m <= L
    BY <1>1
  <2>2. Alike(r, Upto(parts, L - m))
    BY <1>3, <2>1
  <2>3. Upto(parts, L - m) = Upto(parts, L - (m + 1)) \o parts[L - m]
    BY <2>1, UptoProps DEF L
  <2>4. Upto(parts, L - (m + 1)) \in Strings
    BY <2>1, UptoProps DEF L
  <2>5. parts[L - m] \in Strings
    BY <2>1, ElementOfSeq DEF L
  <2> HIDE DEF S
  <2> QED
    BY <2>2, <2>3, <2>4, <2>5, AlikeParts
<1>4. \A m \in Nat : m \in S
  <2> HIDE DEF S
  <2> QED
    BY <1>2, <1>3, SetInduction
<1>5. ASSUME NEW n \in 0..L PROVE Alike(r, Upto(parts, n))
  <2>1. L - n \in Nat /\ L - n <= L /\ L - (L - n) = n
    BY <1>1
  <2>2. L - n \in S
    BY <2>1, <1>4
  <2> QED
    BY <2>1, <2>2
<1> QED
  BY <1>5 DEF L

\* One more item is read.
Parts(v, parts, r) ==
  /\ \E X : v \in Seq(X)
  /\ parts \in Seq(Strings) /\ Len(parts) = Len(v)
  /\ r \in Strings /\ Alike(r, FlattenSeq(parts))

\* After the n-th item of a vector the loop of recv is where a read of n items is.
LEMMA ItemsRead ==
  ASSUME NEW v, NEW parts, NEW r, Parts(v, parts, r), NEW n \in 1..Len(v)
  PROVE  LET before == Read(SubSeq(v, 1, n - 1), Upto(parts, n - 1), r)
             after  == Read(SubSeq(v, 1, n), Upto(parts, n), r)
         IN \/ before = {} /\ after = {}
            \/ \E s \in Strings : /\ Alike(s, parts[n])
                                  /\ before = {<<SubSeq(v, 1, n - 1), s>>}
                                  /\ after = Read(Append(SubSeq(v, 1, n - 1), v[n]), parts[n], s)
<1> DEFINE b == Upto(parts, n - 1)
           a == Upto(parts, n)
           p == parts[n]
           u == SubSeq(v, 1, n - 1)
           w == SubSeq(v, 1, n)
<1>0. PICK X : v \in Seq(X)
  BY DEF Parts
<1>9. /\ parts \in Seq(Strings) /\ Len(parts) = Len(v)
      /\ r \in Strings /\ Alike(r, FlattenSeq(parts))
  BY DEF Parts
<1>1. n \in 1..Len(parts) /\ n - 1 \in 0..Len(parts) /\ n \in 0..Len(parts) /\ Len(parts) \in Nat
  BY <1>9
<1>2. b \in Strings /\ a = b \o p /\ p \in Strings
  <2>1. p \in Strings
    BY <1>1, <1>9, ElementOfSeq
  <2>2. b \in Strings /\ a = b \o p
    BY <1>1, <1>9, UptoProps
  <2> QED
    BY <2>1, <2>2
<1>3. Alike(r, a)
  BY <1>1, <1>9, UptoAlike
<1>4. w = Append(u, v[n])
  <2>1. v \in Seq(X) /\ n \in 1..Len(v) /\ Len(v) \in Nat /\ 1 \in 1..Len(v) /\ n \in 1..Len(v)
    BY <1>0
  <2>2. w = u \o <<v[n]>>
    BY <2>1, SubSeqRecursiveSecond
  <2>3. u \in Seq(X) /\ v[n] \in X
    BY <2>1, SubSeqProperties
  <2>4. Append(u, v[n]) = u \o <<v[n]>>
    <3> HIDE DEF u
    <3> QED
      BY <2>3, AppendIsConcat
  <2> QED
    BY <2>2, <2>4
<1> HIDE DEF a, b, p, u, w
<1>5. Read(w, b \o p, r) = IF Len(r) < Len(b) THEN {} ELSE Read(w, p, Rest(r, Len(b)))
  BY <1>2, <1>9, TwoParts
<1>6. Len(r) \in Nat /\ Len(b) \in Nat
  BY <1>2, <1>9 DEF Strings
<1>7. CASE Len(r) < Len(b)
  <2>1. Read(u, b, r) = {} /\ Read(w, a, r) = {}
    BY <1>2, <1>5, <1>7, <1>9, ReadCases
  <2> QED
    BY <2>1 DEF a, b, u, w
<1>8. CASE Len(r) >= Len(b)
  <2>1. Rest(r, Len(b)) \in Strings /\ Alike(Rest(r, Len(b)), p)
    BY <1>2, <1>3, <1>6, <1>8, <1>9, RestProps, AlikeParts
  <2>2. Read(u, b, r) = {<<u, Rest(r, Len(b))>>}
    BY <1>2, <1>8, <1>9, ReadCases
  <2>3. Read(w, a, r) = Read(w, p, Rest(r, Len(b)))
    BY <1>2, <1>5, <1>6, <1>8
  <2>4. Read(w, a, r) = Read(Append(u, v[n]), p, Rest(r, Len(b)))
    BY <2>3, <1>4
  <2> QED
    BY <2>1, <2>2, <2>4 DEF a, b, p, u, w
<1> QED
  BY <1>6, <1>7, <1>8


\* One more string of a vector is read as the loop of recv reads it.
LEMMA StringsItem ==
  ASSUME NEW u, NEW x \in Strings, NEW s \in Strings, Alike(s, SendString(x))
  PROVE  UNION {UNION {Got(Append(p[1], q[1]), q[2]) : q \in RecvString(p[2])} : p \in {<<u, s>>}}
           = Read(Append(u, x), SendString(x), s)
<1> DEFINE One(p) == UNION {Got(Append(p[1], q[1]), q[2]) : q \in RecvString(p[2])}
           sent == SendString(x)
<1>1. UNION {One(p) : p \in {<<u, s>>}} = One(<<u, s>>)
  <2> HIDE DEF One
  <2> QED
    OBVIOUS
<1>2. One(<<u, s>>) = UNION {Got(Append(u, q[1]), q[2]) : q \in RecvString(s)}
  OBVIOUS
<1>3. RecvString(s) = Read(x, sent, s) /\ sent \in Strings
  BY StringRead, Joins
<1> HIDE DEF sent, One
<1>4. CASE Len(s) < Len(sent)
  <2>1. RecvString(s) = {} /\ Read(Append(u, x), sent, s) = {}
    BY <1>3, <1>4, ReadCases
  <2> QED
    BY <1>1, <1>2, <2>1 DEF One, sent
<1>5. CASE Len(s) >= Len(sent)
  <2>1. /\ RecvString(s) = {<<x, Rest(s, Len(sent))>>}
        /\ Read(Append(u, x), sent, s) = {<<Append(u, x), Rest(s, Len(sent))>>}
    BY <1>3, <1>5, ReadCases
  <2>2. One(<<u, s>>) = {<<Append(u, x), Rest(s, Len(sent))>>}
    BY <1>2, <2>1 DEF Got
  <2> QED
    BY <1>1, <2>1, <2>2 DEF One, sent
<1>6. Len(s) \in Nat /\ Len(sent) \in Nat
  BY <1>3, Joins
<1> QED
  BY <1>4, <1>5, <1>6

\* The same of a std::vector of strings, read item by item into the vector (serde.hpp,
\* send and recv of std::vector), for vectors and strings of any length.
THEOREM StringsRead ==
  ASSUME NEW v \in Seq(Strings), NEW t \in Strings, Alike(t, SendVector(SendString, v))
  PROVE  /\ SendVector(SendString, v) \in Strings
         /\ RecvVector(RecvString, t) = Read(v, SendVector(SendString, v), t)
<1> DEFINE n == Len(v)
           parts == [i \in DOMAIN v |-> SendString(v[i])]
           head == SendPod(n)
           body == FlattenSeq(parts)
           Add(y) == UNION {UNION {Got(Append(p[1], q[1]), q[2]) : q \in RecvString(p[2])} : p \in y}
           Adds(h, size, r) == h = [m \in 0..size |-> IF m = 0 THEN Got(<<>>, r) ELSE Add(h[m - 1])]
           F(size, r) == (CHOOSE h : Adds(h, size, r))[size]
           r == Rest(t, 1)
           w == [m \in 0..n |-> Read(SubSeq(v, 1, m), Upto(parts, m), r)]
           H == CHOOSE h : Adds(h, n, r)
<1>1. SendVector(SendString, v) = head \o body
  BY DEF SendVector, SendPod
<1>2. RecvVector(RecvString, t) = UNION {F(p[1], p[2]) : p \in RecvPod(t)}
  BY DEF RecvVector, Then
<1>3. /\ n \in Nat /\ Len(t) \in Nat /\ head \in Strings /\ Len(head) = 1
      /\ parts \in Seq(Strings) /\ Len(parts) = n
      /\ \A i \in 1..n : parts[i] = SendString(v[i]) /\ v[i] \in Strings
  <2>1. DOMAIN v = 1..n /\ n \in Nat /\ \A i \in 1..n : v[i] \in Strings
    OBVIOUS
  <2>2. \A i \in 1..n : SendString(v[i]) \in Strings
    BY <2>1, Joins
  <2>3. parts \in Seq(Strings) /\ Len(parts) = n
    BY <2>1, <2>2
  <2> QED
    BY <2>1, <2>3, Joins
<1>4. Upto(parts, 0) = <<>> /\ Upto(parts, n) = body /\ body \in Strings
  <2> HIDE DEF parts, n
  <2>1. n \in 0..Len(parts)
    BY <1>3
  <2> QED
    BY <1>3, <2>1, UptoProps
<1> HIDE DEF parts, head, body, n, r, w, Adds, Add, F, H
<1>5. /\ Alike(t, head)
      /\ (Len(t) >= Len(head) => Alike(Rest(t, Len(head)), body))
      /\ head \o body \in Strings
  <2>1. Alike(t, head \o body)
    BY <1>1
  <2>2. head \in Strings /\ body \in Strings
    BY <1>3, <1>4
  <2> QED
    BY <2>1, <2>2, AlikeParts, Joins
<1>6. RecvPod(t) = Read(n, head, t)
  BY <1>3, <1>5, PodRead DEF head
<1>7. ASSUME Len(t) < 1 PROVE RecvVector(RecvString, t) = {}
  <2>1. RecvPod(t) = {}
    BY <1>3, <1>6, <1>7, ReadCases
  <2> QED
    BY <1>2, <2>1
<1>8. ASSUME Len(t) >= 1
      PROVE  RecvVector(RecvString, t) = Read(v, body, r)
  <2>1. r \in Strings /\ Alike(r, body)
    BY <1>3, <1>5, <1>8, RestProps DEF r
  <2>2. RecvVector(RecvString, t) = F(n, r)
    <3>1. RecvPod(t) = {<<n, r>>}
      BY <1>3, <1>6, <1>8, ReadCases DEF r
    <3> QED
      BY <1>2, <3>1
  <2>3. \A m \in 0..n : w[m] = Read(SubSeq(v, 1, m), Upto(parts, m), r)
    BY DEF w
  <2>4. w[0] = Got(<<>>, r)
    <3>1. SubSeq(v, 1, 0) = <<>> /\ <<>> \in Strings /\ Len(<<>>) = 0 /\ Len(r) \in Nat /\ Rest(r, 0) = r
      BY <2>1, SubSeqFull DEF Strings, Rest
    <3>2. Read(<<>>, <<>>, r) = {<<<<>>, r>>}
      BY <2>1, <3>1, ReadCases
    <3>3. 0 \in 0..n
      BY <1>3
    <3>4. w[0] = Read(<<>>, <<>>, r)
      BY <1>4, <2>3, <3>1, <3>3
    <3> QED
      BY <3>2, <3>4 DEF Got
  <2>5. ASSUME NEW m \in 1..n
        PROVE  w[m] = Add(w[m - 1])
    <3> DEFINE u == SubSeq(v, 1, m - 1)
    <3>1. \/ w[m - 1] = {} /\ w[m] = {}
          \/ \E s \in Strings : /\ Alike(s, parts[m]) /\ w[m - 1] = {<<u, s>>}
                                /\ w[m] = Read(Append(u, v[m]), parts[m], s)
      <4>1. Parts(v, parts, r) /\ m \in 1..Len(v)
        BY <1>3, <2>1 DEF n, body, Parts
      <4>2. m \in 0..n /\ m - 1 \in 0..n
        BY <1>3
      <4> DEFINE before == Read(u, Upto(parts, m - 1), r)
                 after == Read(SubSeq(v, 1, m), Upto(parts, m), r)
      <4>3. w[m - 1] = before /\ w[m] = after
        BY <2>3, <4>2
      <4>4. \/ before = {} /\ after = {}
            \/ \E s \in Strings : /\ Alike(s, parts[m]) /\ before = {<<u, s>>}
                                  /\ after = Read(Append(u, v[m]), parts[m], s)
        BY <4>1, ItemsRead
      <4> HIDE DEF before, after, u
      <4> QED
        BY <4>3, <4>4
    <3>2. CASE w[m - 1] = {} /\ w[m] = {}
      BY <3>2 DEF Add
    <3>3. ASSUME NEW s \in Strings, Alike(s, parts[m]), w[m - 1] = {<<u, s>>},
                 w[m] = Read(Append(u, v[m]), parts[m], s)
          PROVE  w[m] = Add(w[m - 1])
      <4>1. v[m] \in Strings /\ parts[m] = SendString(v[m])
        BY <1>3, ElementOfSeq
      <4> HIDE DEF u
      <4>2. Add({<<u, s>>}) = Read(Append(u, v[m]), SendString(v[m]), s)
        BY <3>3, <4>1, StringsItem DEF Add
      <4> QED
        BY <3>3, <4>1, <4>2
    <3> HIDE DEF u
    <3> QED
      BY <3>1, <3>2, <3>3
  <2>6. Adds(w, n, r)
    <3>1. \A m \in 0..n : w[m] = IF m = 0 THEN Got(<<>>, r) ELSE Add(w[m - 1])
      <4>1. \A m \in 0..n : m # 0 => m \in 1..n
        BY <1>3
      <4> QED
        BY <4>1, <2>4, <2>5
    <3> QED
      BY <3>1 DEF w, Adds
  <2>7. Adds(H, n, r)
    BY <2>6 DEF H
  <2>8. H[0] = w[0] /\ \A m \in 1..n : H[m] = Add(H[m - 1])
    <3>1. 0 \in 0..n /\ \A m \in 1..n : m \in 0..n /\ m # 0
      BY <1>3
    <3> QED
      BY <2>4, <2>7, <3>1 DEF Adds
  <2>9. H[n] = w[n]
    <3>1. \A m \in 1..n : H[m - 1] = w[m - 1] => H[m] = w[m]
      BY <2>5, <2>8
    <3>2. n \in Nat /\ H[0] = w[0]
      BY <1>3, <2>8
    <3> QED
      BY <3>1, <3>2, GoOnAlike
  <2>10. SubSeq(v, 1, n) = v /\ n \in 0..n
    BY <1>3, SubSeqFull DEF n
  <2> QED
    BY <1>4, <2>2, <2>3, <2>9, <2>10 DEF H, F
<1>9. Read(v, head \o body, t) = IF Len(t) < Len(head) THEN {} ELSE Read(v, body, Rest(t, Len(head)))
  <2>1. head \in Strings /\ body \in Strings
    BY <1>3, <1>4
  <2> QED
    BY <2>1, TwoParts
<1>10. RecvVector(RecvString, t) = Read(v, head \o body, t)
  BY <1>3, <1>7, <1>8, <1>9 DEF r
<1> QED
  BY <1>1, <1>5, <1>10

-----------------------------------------------------------------------------
\* What the client and the server send.
Dentries == [basename : Strings, metainfo : Nat]

\* A Dentry is read as it was sent.
LEMMA DentryRead ==
  ASSUME NEW d \in Dentries, NEW t \in Strings, Alike(t, SendDentry(d))
  PROVE  SendDentry(d) \in Strings /\ RecvDentry(t) = Read(d, SendDentry(d), t)
<1> DEFINE name == d.basename
           meta == d.metainfo
           a == SendString(name)
           b == SendPod(meta)
           x == name
           G(y, r) == Then(RecvPod(r), LAMBDA m, rest : Got([basename |-> y, metainfo |-> m], rest))
<1>1. RecvDentry(t) = UNION {G(p[1], p[2]) : p \in RecvString(t)}
  BY DEF RecvDentry, Then
<1>2. SendDentry(d) = a \o b /\ a \in Strings /\ b \in Strings /\ Len(a) \in Nat /\ Len(t) \in Nat
  <2>1. name \in Strings /\ meta \in Nat
    BY DEF Dentries
  <2> QED
    BY <2>1, Joins DEF SendDentry
<1>3. ASSUME NEW r \in Strings, Alike(r, b)
      PROVE  G(x, r) = Read(d, b, r)
  <2> DEFINE z == meta
             K(q) == Got([basename |-> x, metainfo |-> q[1]], q[2])
  <2>1. G(x, r) = UNION {K(q) : q \in RecvPod(r)}
    BY DEF Then
  <2>2. RecvPod(r) = Read(z, b, r)
    <3>1. meta \in Nat
      BY DEF Dentries
    <3> QED
      BY <1>3, <3>1, PodRead
  <2>3. b \in Strings /\ Len(b) \in Nat /\ Len(r) \in Nat
    BY <1>2, Joins
  <2>4. K(<<z, Rest(r, Len(b))>>) = {<<d, Rest(r, Len(b))>>}
    <3>1. d = [basename |-> name, metainfo |-> meta]
      BY DEF Dentries
    <3> QED
      BY <3>1 DEF Got
  <2> HIDE DEF K, z, G, b, x
  <2>5. CASE Len(r) < Len(b)
    <3>1. RecvPod(r) = {} /\ Read(d, b, r) = {}
      BY <2>2, <2>3, <2>5, ReadCases
    <3> QED
      BY <2>1, <3>1
  <2>6. CASE Len(r) >= Len(b)
    <3>1. RecvPod(r) = {<<z, Rest(r, Len(b))>>} /\ Read(d, b, r) = {<<d, Rest(r, Len(b))>>}
      BY <2>2, <2>3, <2>6, ReadCases
    <3> QED
      BY <2>1, <2>4, <3>1
  <2> QED
    BY <2>3, <2>5, <2>6
<1>4. Alike(t, a) => RecvString(t) = Read(x, a, t)
  <2>1. name \in Strings
    BY DEF Dentries
  <2> QED
    BY <2>1, StringRead
<1> HIDE DEF a, b, x, G
<1>5. Alike(t, a) /\ (Len(t) >= Len(a) => Alike(Rest(t, Len(a)), b)) /\ a \o b \in Strings
  BY <1>2, AlikeParts, Joins
<1>6. RecvDentry(t) = IF Len(t) < Len(a) THEN {} ELSE G(x, Rest(t, Len(a)))
  <2>1. CASE Len(t) < Len(a)
    <3>1. RecvString(t) = {}
      BY <1>2, <1>4, <1>5, <2>1, ReadCases
    <3> QED
      BY <1>1, <2>1, <3>1
  <2>2. CASE Len(t) >= Len(a)
    <3>1. RecvString(t) = {<<x, Rest(t, Len(a))>>}
      BY <1>2, <1>4, <1>5, <2>2, ReadCases
    <3> QED
      BY <1>1, <1>2, <2>2, <3>1
  <2> QED
    BY <1>2, <2>1, <2>2
<1>7. Read(d, a \o b, t) = IF Len(t) < Len(a) THEN {} ELSE Read(d, b, Rest(t, Len(a)))
  BY <1>2, TwoParts
<1>8. Len(t) >= Len(a) => Rest(t, Len(a)) \in Strings
  BY <1>2, RestProps
<1>9. RecvDentry(t) = Read(d, a \o b, t)
  <2>1. CASE Len(t) < Len(a)
    BY <1>6, <1>7, <2>1
  <2>2. CASE Len(t) >= Len(a)
    <3>1. G(x, Rest(t, Len(a))) = Read(d, b, Rest(t, Len(a)))
      BY <1>3, <1>5, <1>8, <2>2
    <3> QED
      BY <1>2, <1>6, <1>7, <2>2, <3>1
  <2> QED
    BY <1>2, <2>1, <2>2
<1> QED
  BY <1>2, <1>5, <1>9

\* What is sent of a Dentry is a stream.
LEMMA DentryTyped == \A d \in Dentries : SendDentry(d) \in Strings
  BY Joins DEF Dentries, SendDentry

\* One more Dentry of a vector is read as the loop of recv reads it.
LEMMA DentsItem ==
  ASSUME NEW u, NEW x \in Dentries, NEW s \in Strings, Alike(s, SendDentry(x))
  PROVE  UNION {UNION {Got(Append(p[1], q[1]), q[2]) : q \in RecvDentry(p[2])} : p \in {<<u, s>>}}
           = Read(Append(u, x), SendDentry(x), s)
<1> DEFINE One(p) == UNION {Got(Append(p[1], q[1]), q[2]) : q \in RecvDentry(p[2])}
           sent == SendDentry(x)
<1>1. UNION {One(p) : p \in {<<u, s>>}} = One(<<u, s>>)
  <2> HIDE DEF One
  <2> QED
    OBVIOUS
<1>2. One(<<u, s>>) = UNION {Got(Append(u, q[1]), q[2]) : q \in RecvDentry(s)}
  OBVIOUS
<1>3. RecvDentry(s) = Read(x, sent, s) /\ sent \in Strings
  BY DentryRead, DentryTyped
<1> HIDE DEF sent, One
<1>4. CASE Len(s) < Len(sent)
  <2>1. RecvDentry(s) = {} /\ Read(Append(u, x), sent, s) = {}
    BY <1>3, <1>4, ReadCases
  <2> QED
    BY <1>1, <1>2, <2>1 DEF One, sent
<1>5. CASE Len(s) >= Len(sent)
  <2>1. /\ RecvDentry(s) = {<<x, Rest(s, Len(sent))>>}
        /\ Read(Append(u, x), sent, s) = {<<Append(u, x), Rest(s, Len(sent))>>}
    BY <1>3, <1>5, ReadCases
  <2>2. One(<<u, s>>) = {<<Append(u, x), Rest(s, Len(sent))>>}
    BY <1>2, <2>1 DEF Got
  <2> QED
    BY <1>1, <2>1, <2>2 DEF One, sent
<1>6. Len(s) \in Nat /\ Len(sent) \in Nat
  BY <1>3, Joins
<1> QED
  BY <1>4, <1>5, <1>6

\* A vector of Dentries is read as it was sent.
LEMMA DentsRead ==
  ASSUME NEW v \in Seq(Dentries), NEW t \in Strings, Alike(t, SendVector(SendDentry, v))
  PROVE  /\ SendVector(SendDentry, v) \in Strings
         /\ RecvVector(RecvDentry, t) = Read(v, SendVector(SendDentry, v), t)
<1> DEFINE n == Len(v)
           parts == [i \in DOMAIN v |-> SendDentry(v[i])]
           head == SendPod(n)
           body == FlattenSeq(parts)
           Add(y) == UNION {UNION {Got(Append(p[1], q[1]), q[2]) : q \in RecvDentry(p[2])} : p \in y}
           Adds(h, size, r) == h = [m \in 0..size |-> IF m = 0 THEN Got(<<>>, r) ELSE Add(h[m - 1])]
           F(size, r) == (CHOOSE h : Adds(h, size, r))[size]
           r == Rest(t, 1)
           w == [m \in 0..n |-> Read(SubSeq(v, 1, m), Upto(parts, m), r)]
           H == CHOOSE h : Adds(h, n, r)
<1>1. SendVector(SendDentry, v) = head \o body
  BY DEF SendVector, SendPod
<1>2. RecvVector(RecvDentry, t) = UNION {F(p[1], p[2]) : p \in RecvPod(t)}
  BY DEF RecvVector, Then
<1>3. /\ n \in Nat /\ Len(t) \in Nat /\ head \in Strings /\ Len(head) = 1
      /\ parts \in Seq(Strings) /\ Len(parts) = n
      /\ \A i \in 1..n : parts[i] = SendDentry(v[i]) /\ v[i] \in Dentries
  <2>1. DOMAIN v = 1..n /\ n \in Nat /\ \A i \in 1..n : v[i] \in Dentries
    OBVIOUS
  <2>2. \A i \in 1..n : SendDentry(v[i]) \in Strings
    BY <2>1, DentryTyped
  <2>3. parts \in Seq(Strings) /\ Len(parts) = n
    BY <2>1, <2>2
  <2> QED
    BY <2>1, <2>3, Joins
<1>4. Upto(parts, 0) = <<>> /\ Upto(parts, n) = body /\ body \in Strings
  <2> HIDE DEF parts, n
  <2>1. n \in 0..Len(parts)
    BY <1>3
  <2> QED
    BY <1>3, <2>1, UptoProps
<1> HIDE DEF parts, head, body, n, r, w, Adds, Add, F, H
<1>5. /\ Alike(t, head)
      /\ (Len(t) >= Len(head) => Alike(Rest(t, Len(head)), body))
      /\ head \o body \in Strings
  <2>1. Alike(t, head \o body)
    BY <1>1
  <2>2. head \in Strings /\ body \in Strings
    BY <1>3, <1>4
  <2> QED
    BY <2>1, <2>2, AlikeParts, Joins
<1>6. RecvPod(t) = Read(n, head, t)
  BY <1>3, <1>5, PodRead DEF head
<1>7. ASSUME Len(t) < 1 PROVE RecvVector(RecvDentry, t) = {}
  <2>1. RecvPod(t) = {}
    BY <1>3, <1>6, <1>7, ReadCases
  <2> QED
    BY <1>2, <2>1
<1>8. ASSUME Len(t) >= 1
      PROVE  RecvVector(RecvDentry, t) = Read(v, body, r)
  <2>1. r \in Strings /\ Alike(r, body)
    BY <1>3, <1>5, <1>8, RestProps DEF r
  <2>2. RecvVector(RecvDentry, t) = F(n, r)
    <3>1. RecvPod(t) = {<<n, r>>}
      BY <1>3, <1>6, <1>8, ReadCases DEF r
    <3> QED
      BY <1>2, <3>1
  <2>3. \A m \in 0..n : w[m] = Read(SubSeq(v, 1, m), Upto(parts, m), r)
    BY DEF w
  <2>4. w[0] = Got(<<>>, r)
    <3>1. SubSeq(v, 1, 0) = <<>> /\ <<>> \in Strings /\ Len(<<>>) = 0 /\ Len(r) \in Nat /\ Rest(r, 0) = r
      BY <2>1, SubSeqFull DEF Strings, Rest
    <3>2. Read(<<>>, <<>>, r) = {<<<<>>, r>>}
      BY <2>1, <3>1, ReadCases
    <3>3. 0 \in 0..n
      BY <1>3
    <3>4. w[0] = Read(<<>>, <<>>, r)
      BY <1>4, <2>3, <3>1, <3>3
    <3> QED
      BY <3>2, <3>4 DEF Got
  <2>5. ASSUME NEW m \in 1..n
        PROVE  w[m] = Add(w[m - 1])
    <3> DEFINE u == SubSeq(v, 1, m - 1)
    <3>1. \/ w[m - 1] = {} /\ w[m] = {}
          \/ \E s \in Strings : /\ Alike(s, parts[m]) /\ w[m - 1] = {<<u, s>>}
                                /\ w[m] = Read(Append(u, v[m]), parts[m], s)
      <4>1. Parts(v, parts, r) /\ m \in 1..Len(v)
        BY <1>3, <2>1 DEF n, body, Parts
      <4>2. m \in 0..n /\ m - 1 \in 0..n
        BY <1>3
      <4> DEFINE before == Read(u, Upto(parts, m - 1), r)
                 after == Read(SubSeq(v, 1, m), Upto(parts, m), r)
      <4>3. w[m - 1] = before /\ w[m] = after
        BY <2>3, <4>2
      <4>4. \/ before = {} /\ after = {}
            \/ \E s \in Strings : /\ Alike(s, parts[m]) /\ before = {<<u, s>>}
                                  /\ after = Read(Append(u, v[m]), parts[m], s)
        BY <4>1, ItemsRead
      <4> HIDE DEF before, after, u
      <4> QED
        BY <4>3, <4>4
    <3>2. CASE w[m - 1] = {} /\ w[m] = {}
      BY <3>2 DEF Add
    <3>3. ASSUME NEW s \in Strings, Alike(s, parts[m]), w[m - 1] = {<<u, s>>},
                 w[m] = Read(Append(u, v[m]), parts[m], s)
          PROVE  w[m] = Add(w[m - 1])
      <4>1. v[m] \in Dentries /\ parts[m] = SendDentry(v[m])
        BY <1>3, ElementOfSeq
      <4> HIDE DEF u
      <4>2. Add({<<u, s>>}) = Read(Append(u, v[m]), SendDentry(v[m]), s)
        BY <3>3, <4>1, DentsItem DEF Add
      <4> QED
        BY <3>3, <4>1, <4>2
    <3> HIDE DEF u
    <3> QED
      BY <3>1, <3>2, <3>3
  <2>6. Adds(w, n, r)
    <3>1. \A m \in 0..n : w[m] = IF m = 0 THEN Got(<<>>, r) ELSE Add(w[m - 1])
      <4>1. \A m \in 0..n : m # 0 => m \in 1..n
        BY <1>3
      <4> QED
        BY <4>1, <2>4, <2>5
    <3> QED
      BY <3>1 DEF w, Adds
  <2>7. Adds(H, n, r)
    BY <2>6 DEF H
  <2>8. H[0] = w[0] /\ \A m \in 1..n : H[m] = Add(H[m - 1])
    <3>1. 0 \in 0..n /\ \A m \in 1..n : m \in 0..n /\ m # 0
      BY <1>3
    <3> QED
      BY <2>4, <2>7, <3>1 DEF Adds
  <2>9. H[n] = w[n]
    <3>1. \A m \in 1..n : H[m - 1] = w[m - 1] => H[m] = w[m]
      BY <2>5, <2>8
    <3>2. n \in Nat /\ H[0] = w[0]
      BY <1>3, <2>8
    <3> QED
      BY <3>1, <3>2, GoOnAlike
  <2>10. SubSeq(v, 1, n) = v /\ n \in 0..n
    BY <1>3, SubSeqFull DEF n
  <2> QED
    BY <1>4, <2>2, <2>3, <2>9, <2>10 DEF H, F
<1>9. Read(v, head \o body, t) = IF Len(t) < Len(head) THEN {} ELSE Read(v, body, Rest(t, Len(head)))
  <2>1. head \in Strings /\ body \in Strings
    BY <1>3, <1>4
  <2> QED
    BY <2>1, TwoParts
<1>10. RecvVector(RecvDentry, t) = Read(v, head \o body, t)
  BY <1>3, <1>7, <1>8, <1>9 DEF r
<1> QED
  BY <1>1, <1>5, <1>10

\* An optional vector of Dentries.
Optionals == {<<>>} \cup {<<v>> : v \in Seq(Dentries)}
SendDents(o) == SendOptional(LAMBDA v : SendVector(SendDentry, v), o)
RecvDents(s) == RecvOptional(LAMBDA t : RecvVector(RecvDentry, t), s)

\* An optional that is empty is read as it was sent.
LEMMA NoDentsRead ==
  ASSUME NEW t \in Strings, Alike(t, SendDents(<<>>))
  PROVE  SendDents(<<>>) \in Strings /\ RecvDents(t) = Read(<<>>, SendDents(<<>>), t)
<1> DEFINE a == SendPod(0)
           G(y, r) == IF y = 0 THEN Got(<<>>, r)
                      ELSE Then(RecvVector(RecvDentry, r), LAMBDA x, rest : Got(<<x>>, rest))
<1>1. SendDents(<<>>) = a /\ a \in Strings /\ Len(a) \in Nat /\ Len(t) \in Nat
  BY Joins DEF SendDents, SendOptional, SendPod
<1>2. RecvDents(t) = UNION {G(p[1], p[2]) : p \in RecvPod(t)}
  BY DEF RecvDents, RecvOptional, Then
<1>3. RecvPod(t) = Read(0, a, t)
  BY <1>1, PodRead
<1>4. \A r : G(0, r) = {<<<<>>, r>>}
  BY DEF Got
<1> HIDE DEF a, G
<1>5. CASE Len(t) < Len(a)
  <2>1. RecvPod(t) = {} /\ Read(<<>>, a, t) = {}
    BY <1>1, <1>3, <1>5, ReadCases
  <2> QED
    BY <1>1, <1>2, <2>1
<1>6. CASE Len(t) >= Len(a)
  <2>1. RecvPod(t) = {<<0, Rest(t, Len(a))>>} /\ Read(<<>>, a, t) = {<<<<>>, Rest(t, Len(a))>>}
    BY <1>1, <1>3, <1>6, ReadCases
  <2>2. RecvDents(t) = G(0, Rest(t, Len(a)))
    BY <1>2, <2>1
  <2> QED
    BY <1>1, <1>4, <2>1, <2>2
<1> QED
  BY <1>1, <1>5, <1>6

\* What is sent of a vector of Dentries is a stream.
LEMMA VectorTyped == \A v \in Seq(Dentries) : SendVector(SendDentry, v) \in Strings
<1>1. ASSUME NEW v \in Seq(Dentries) PROVE SendVector(SendDentry, v) \in Strings
  <2>1. <<>> \in Strings /\ Alike(<<>>, SendVector(SendDentry, v))
    BY DEF Strings, Alike
  <2> QED
    BY <2>1, DentsRead
<1> QED
  BY <1>1

\* So is an optional that has a vector of Dentries.
LEMMA SomeDentsRead ==
  ASSUME NEW v \in Seq(Dentries), NEW t \in Strings, Alike(t, SendDents(<<v>>))
  PROVE  SendDents(<<v>>) \in Strings /\ RecvDents(t) = Read(<<v>>, SendDents(<<v>>), t)
<1> DEFINE one == 1
           a == SendPod(1)
           b == SendVector(SendDentry, v)
           x == one
           G(y, r) == IF y = 0 THEN Got(<<>>, r)
                      ELSE Then(RecvVector(RecvDentry, r), LAMBDA z, rest : Got(<<z>>, rest))
<1>1. RecvDents(t) = UNION {G(p[1], p[2]) : p \in RecvPod(t)}
  BY DEF RecvDents, RecvOptional, Then
<1>2. SendDents(<<v>>) = a \o b /\ a \in Strings /\ b \in Strings /\ Len(a) \in Nat /\ Len(t) \in Nat
  <2>1. SendVector(SendDentry, v) \in Strings
    BY VectorTyped
  <2> QED
    BY <2>1, Joins DEF SendDents, SendOptional, SendPod
<1>3. ASSUME NEW r \in Strings, Alike(r, b)
      PROVE  G(x, r) = Read(<<v>>, b, r)
  <2> DEFINE z == v
             K(q) == Got(<<q[1]>>, q[2])
  <2>1. G(x, r) = UNION {K(q) : q \in RecvVector(RecvDentry, r)}
    BY DEF Then
  <2>2. RecvVector(RecvDentry, r) = Read(z, b, r)
    BY <1>3, DentsRead
  <2>3. b \in Strings /\ Len(b) \in Nat /\ Len(r) \in Nat
    BY <1>2, Joins
  <2>4. K(<<z, Rest(r, Len(b))>>) = {<<<<v>>, Rest(r, Len(b))>>}
    BY DEF Got
  <2> HIDE DEF K, z, G, b, x
  <2>5. CASE Len(r) < Len(b)
    <3>1. RecvVector(RecvDentry, r) = {} /\ Read(<<v>>, b, r) = {}
      BY <2>2, <2>3, <2>5, ReadCases
    <3> QED
      BY <2>1, <3>1
  <2>6. CASE Len(r) >= Len(b)
    <3>1. /\ RecvVector(RecvDentry, r) = {<<z, Rest(r, Len(b))>>}
          /\ Read(<<v>>, b, r) = {<<<<v>>, Rest(r, Len(b))>>}
      BY <2>2, <2>3, <2>6, ReadCases
    <3> QED
      BY <2>1, <2>4, <3>1
  <2> QED
    BY <2>3, <2>5, <2>6
<1>4. Alike(t, a) => RecvPod(t) = Read(x, a, t)
  BY PodRead
<1> HIDE DEF a, b, x, G
<1>5. Alike(t, a) /\ (Len(t) >= Len(a) => Alike(Rest(t, Len(a)), b)) /\ a \o b \in Strings
  BY <1>2, AlikeParts, Joins
<1>6. RecvDents(t) = IF Len(t) < Len(a) THEN {} ELSE G(x, Rest(t, Len(a)))
  <2>1. CASE Len(t) < Len(a)
    <3>1. RecvPod(t) = {}
      BY <1>2, <1>4, <1>5, <2>1, ReadCases
    <3> QED
      BY <1>1, <2>1, <3>1
  <2>2. CASE Len(t) >= Len(a)
    <3>1. RecvPod(t) = {<<x, Rest(t, Len(a))>>}
      BY <1>2, <1>4, <1>5, <2>2, ReadCases
    <3> QED
      BY <1>1, <1>2, <2>2, <3>1
  <2> QED
    BY <1>2, <2>1, <2>2
<1>7. Read(<<v>>, a \o b, t) = IF Len(t) < Len(a) THEN {} ELSE Read(<<v>>, b, Rest(t, Len(a)))
  BY <1>2, TwoParts
<1>8. Len(t) >= Len(a) => Rest(t, Len(a)) \in Strings
  BY <1>2, RestProps
<1>9. RecvDents(t) = Read(<<v>>, a \o b, t)
  <2>1. CASE Len(t) < Len(a)
    BY <1>6, <1>7, <2>1
  <2>2. CASE Len(t) >= Len(a)
    <3>1. G(x, Rest(t, Len(a))) = Read(<<v>>, b, Rest(t, Len(a)))
      BY <1>3, <1>5, <1>8, <2>2
    <3> QED
      BY <1>2, <1>6, <1>7, <2>2, <3>1
  <2> QED
    BY <1>2, <2>1, <2>2
<1> QED
  BY <1>2, <1>5, <1>9

\* An optional vector of Dentries is read as it was sent.
LEMMA OptionalRead ==
  ASSUME NEW o \in Optionals, NEW t \in Strings, Alike(t, SendDents(o))
  PROVE  SendDents(o) \in Strings /\ RecvDents(t) = Read(o, SendDents(o), t)
<1>1. CASE o = <<>>
  BY <1>1, NoDentsRead
<1>2. CASE \E v \in Seq(Dentries) : o = <<v>>
  BY <1>2, SomeDentsRead
<1> QED
  BY <1>1, <1>2 DEF Optionals

\* A listing (PathDentsPayload, a directory with the Dentries in it or none) is
\* received as the host sent it, and leaves what follows for the next message.
THEOREM PathDentsRead ==
  ASSUME NEW dir \in Strings, NEW o \in Optionals, NEW t \in Strings, Alike(t, SendPathDents(<<dir, o>>))
  PROVE  /\ SendPathDents(<<dir, o>>) \in Strings
         /\ RecvPathDents(t) = Read(<<dir, o>>, SendPathDents(<<dir, o>>), t)
<1> DEFINE first == dir
           a == SendString(dir)
           b == SendDents(o)
           x == first
           G(y, r) == Then(RecvDents(r), LAMBDA z, rest : Got(<<y, z>>, rest))
<1>1. RecvPathDents(t) = UNION {G(p[1], p[2]) : p \in RecvString(t)}
  BY DEF RecvPathDents, RecvPair, RecvDents, Then
<1>2. /\ SendPathDents(<<dir, o>>) = a \o b
      /\ a \in Strings
      /\ b \in Strings
      /\ Len(a) \in Nat
      /\ Len(t) \in Nat
  <2>1. SendDents(o) \in Strings
    <3>1. <<>> \in Strings /\ Alike(<<>>, SendDents(o))
      BY DEF Strings, Alike
    <3> QED
      BY <3>1, OptionalRead
  <2>2. SendPathDents(<<dir, o>>) = SendString(dir) \o SendDents(o)
    BY DEF SendPathDents, SendPair, SendDents
  <2> QED
    BY <2>1, <2>2, Joins
<1>3. ASSUME NEW r \in Strings, Alike(r, b)
      PROVE  G(x, r) = Read(<<dir, o>>, b, r)
  <2> DEFINE z == o
             K(q) == Got(<<x, q[1]>>, q[2])
  <2>1. G(x, r) = UNION {K(q) : q \in RecvDents(r)}
    BY DEF Then
  <2>2. RecvDents(r) = Read(z, b, r)
    BY <1>3, OptionalRead
  <2>3. b \in Strings /\ Len(b) \in Nat /\ Len(r) \in Nat
    BY <1>2, Joins
  <2>4. K(<<z, Rest(r, Len(b))>>) = {<<<<dir, o>>, Rest(r, Len(b))>>}
    BY DEF Got
  <2> HIDE DEF K, z, G, b, x
  <2>5. CASE Len(r) < Len(b)
    <3>1. RecvDents(r) = {} /\ Read(<<dir, o>>, b, r) = {}
      BY <2>2, <2>3, <2>5, ReadCases
    <3> QED
      BY <2>1, <3>1
  <2>6. CASE Len(r) >= Len(b)
    <3>1. /\ RecvDents(r) = {<<z, Rest(r, Len(b))>>}
          /\ Read(<<dir, o>>, b, r) = {<<<<dir, o>>, Rest(r, Len(b))>>}
      BY <2>2, <2>3, <2>6, ReadCases
    <3> QED
      BY <2>1, <2>4, <3>1
  <2> QED
    BY <2>3, <2>5, <2>6
<1>4. Alike(t, a) => RecvString(t) = Read(x, a, t)
  BY StringRead
<1> HIDE DEF a, b, x, G
<1>5. Alike(t, a) /\ (Len(t) >= Len(a) => Alike(Rest(t, Len(a)), b)) /\ a \o b \in Strings
  BY <1>2, AlikeParts, Joins
<1>6. RecvPathDents(t) = IF Len(t) < Len(a) THEN {} ELSE G(x, Rest(t, Len(a)))
  <2>1. CASE Len(t) < Len(a)
    <3>1. RecvString(t) = {}
      BY <1>2, <1>4, <1>5, <2>1, ReadCases
    <3> QED
      BY <1>1, <2>1, <3>1
  <2>2. CASE Len(t) >= Len(a)
    <3>1. RecvString(t) = {<<x, Rest(t, Len(a))>>}
      BY <1>2, <1>4, <1>5, <2>2, ReadCases
    <3> QED
      BY <1>1, <1>2, <2>2, <3>1
  <2> QED
    BY <1>2, <2>1, <2>2
<1>7. Read(<<dir, o>>, a \o b, t) = IF Len(t) < Len(a) THEN {} ELSE Read(<<dir, o>>, b, Rest(t, Len(a)))
  BY <1>2, TwoParts
<1>8. Len(t) >= Len(a) => Rest(t, Len(a)) \in Strings
  BY <1>2, RestProps
<1>9. RecvPathDents(t) = Read(<<dir, o>>, a \o b, t)
  <2>1. CASE Len(t) < Len(a)
    BY <1>6, <1>7, <2>1
  <2>2. CASE Len(t) >= Len(a)
    <3>1. G(x, Rest(t, Len(a))) = Read(<<dir, o>>, b, Rest(t, Len(a)))
      BY <1>3, <1>5, <1>8, <2>2
    <3> QED
      BY <1>2, <1>6, <1>7, <2>2, <3>1
  <2> QED
    BY <1>2, <2>1, <2>2
<1> QED
  BY <1>2, <1>5, <1>9

\* What is sent of a vector of strings is a stream.
LEMMA StringsTyped == \A v \in Seq(Strings) : SendVector(SendString, v) \in Strings
<1>1. ASSUME NEW v \in Seq(Strings) PROVE SendVector(SendString, v) \in Strings
  <2>1. <<>> \in Strings /\ Alike(<<>>, SendVector(SendString, v))
    BY DEF Strings, Alike
  <2> QED
    BY <2>1, StringsRead
<1> QED
  BY <1>1

\* What is read of RemoteDentries after the id.
SendNames(dir, names) == SendString(dir) \o SendVector(SendString, names)
RecvNames(id, s) ==
  Then(RecvString(s), LAMBDA dir, t : Then(RecvVector(RecvString, t), LAMBDA names, rest :
    Got([id |-> id, basedir |-> dir, dentries |-> names], rest)))

\* What RemoteDentries have after the id is read as it was sent.
LEMMA NamesRead ==
  ASSUME NEW id, NEW dir \in Strings, NEW names \in Seq(Strings), NEW t \in Strings,
         Alike(t, SendNames(dir, names))
  PROVE  /\ SendNames(dir, names) \in Strings
         /\ RecvNames(id, t) =
              Read([id |-> id, basedir |-> dir, dentries |-> names], SendNames(dir, names), t)
<1> DEFINE first == dir
           a == SendString(dir)
           b == SendVector(SendString, names)
           x == first
           G(y, r) == Then(RecvVector(RecvString, r), LAMBDA z, rest :
                        Got([id |-> id, basedir |-> y, dentries |-> z], rest))
<1>1. RecvNames(id, t) = UNION {G(p[1], p[2]) : p \in RecvString(t)}
  BY DEF RecvNames, Then
<1>2. SendNames(dir, names) = a \o b /\ a \in Strings /\ b \in Strings /\ Len(a) \in Nat /\ Len(t) \in Nat
  BY StringsTyped, Joins DEF SendNames
<1>3. ASSUME NEW r \in Strings, Alike(r, b)
      PROVE  G(x, r) = Read([id |-> id, basedir |-> dir, dentries |-> names], b, r)
  <2> DEFINE z == names
             K(q) == Got([id |-> id, basedir |-> x, dentries |-> q[1]], q[2])
  <2>1. G(x, r) = UNION {K(q) : q \in RecvVector(RecvString, r)}
    BY DEF Then
  <2>2. RecvVector(RecvString, r) = Read(z, b, r)
    BY <1>3, StringsRead
  <2>3. b \in Strings /\ Len(b) \in Nat /\ Len(r) \in Nat
    BY <1>2, Joins
  <2>4. K(<<z, Rest(r, Len(b))>>) =
          {<<[id |-> id, basedir |-> dir, dentries |-> names], Rest(r, Len(b))>>}
    BY DEF Got
  <2> HIDE DEF K, z, G, b, x
  <2>5. CASE Len(r) < Len(b)
    <3>1. /\ RecvVector(RecvString, r) = {}
          /\ Read([id |-> id, basedir |-> dir, dentries |-> names], b, r) = {}
      BY <2>2, <2>3, <2>5, ReadCases
    <3> QED
      BY <2>1, <3>1
  <2>6. CASE Len(r) >= Len(b)
    <3>1. /\ RecvVector(RecvString, r) = {<<z, Rest(r, Len(b))>>}
          /\ Read([id |-> id, basedir |-> dir, dentries |-> names], b, r) =
               {<<[id |-> id, basedir |-> dir, dentries |-> names], Rest(r, Len(b))>>}
      BY <2>2, <2>3, <2>6, ReadCases
    <3> QED
      BY <2>1, <2>4, <3>1
  <2> QED
    BY <2>3, <2>5, <2>6
<1>4. Alike(t, a) => RecvString(t) = Read(x, a, t)
  BY StringRead
<1> HIDE DEF a, b, x, G
<1>5. Alike(t, a) /\ (Len(t) >= Len(a) => Alike(Rest(t, Len(a)), b)) /\ a \o b \in Strings
  BY <1>2, AlikeParts, Joins
<1>6. RecvNames(id, t) = IF Len(t) < Len(a) THEN {} ELSE G(x, Rest(t, Len(a)))
  <2>1. CASE Len(t) < Len(a)
    <3>1. RecvString(t) = {}
      BY <1>2, <1>4, <1>5, <2>1, ReadCases
    <3> QED
      BY <1>1, <2>1, <3>1
  <2>2. CASE Len(t) >= Len(a)
    <3>1. RecvString(t) = {<<x, Rest(t, Len(a))>>}
      BY <1>2, <1>4, <1>5, <2>2, ReadCases
    <3> QED
      BY <1>1, <1>2, <2>2, <3>1
  <2> QED
    BY <1>2, <2>1, <2>2
<1>7. Read([id |-> id, basedir |-> dir, dentries |-> names], a \o b, t) =
        IF Len(t) < Len(a)
        THEN {}
        ELSE Read([id |-> id, basedir |-> dir, dentries |-> names], b, Rest(t, Len(a)))
  BY <1>2, TwoParts
<1>8. Len(t) >= Len(a) => Rest(t, Len(a)) \in Strings
  BY <1>2, RestProps
<1>9. RecvNames(id, t) = Read([id |-> id, basedir |-> dir, dentries |-> names], a \o b, t)
  <2>1. CASE Len(t) < Len(a)
    BY <1>6, <1>7, <2>1
  <2>2. CASE Len(t) >= Len(a)
    <3>1. G(x, Rest(t, Len(a))) =
            Read([id |-> id, basedir |-> dir, dentries |-> names], b, Rest(t, Len(a)))
      BY <1>3, <1>5, <1>8, <2>2
    <3> QED
      BY <1>2, <1>6, <1>7, <2>2, <3>1
  <2> QED
    BY <1>2, <2>1, <2>2
<1> QED
  BY <1>2, <1>5, <1>9

\* RemoteDentries.
E(id, dir, names) == [id |-> id, basedir |-> dir, dentries |-> names]

\* A deletion or copy (RemoteDentries, a client, a directory and names in it) is
\* received as it was asked for.
THEOREM RemoteDentriesRead ==
  ASSUME NEW id \in Nat, NEW dir \in Strings, NEW names \in Seq(Strings), NEW t \in Strings,
         Alike(t, SendRemoteDentries(E(id, dir, names)))
  PROVE  /\ SendRemoteDentries(E(id, dir, names)) \in Strings
         /\ RecvRemoteDentries(t) =
              Read(E(id, dir, names), SendRemoteDentries(E(id, dir, names)), t)
<1> DEFINE first == id
           a == SendPod(id)
           b == SendNames(dir, names)
           x == first
           G(y, r) == RecvNames(y, r)
<1>1. RecvRemoteDentries(t) = UNION {G(p[1], p[2]) : p \in RecvPod(t)}
  BY DEF RecvRemoteDentries, RecvNames, Then
<1>2. /\ SendRemoteDentries(E(id, dir, names)) = a \o b
      /\ a \in Strings
      /\ b \in Strings
      /\ Len(a) \in Nat
      /\ Len(t) \in Nat
  <2>1. SendNames(dir, names) \in Strings
    BY StringsTyped, Joins DEF SendNames
  <2>2. SendRemoteDentries(E(id, dir, names)) =
          (SendPod(id) \o SendString(dir)) \o SendVector(SendString, names)
    BY DEF SendRemoteDentries, E
  <2>3. /\ SendPod(id) \in Strings
        /\ SendString(dir) \in Strings
        /\ SendVector(SendString, names) \in Strings
    BY StringsTyped, Joins
  <2>4. (SendPod(id) \o SendString(dir)) \o SendVector(SendString, names) =
          SendPod(id) \o SendNames(dir, names)
    BY <2>3, JoinsAssociate DEF SendNames
  <2> QED
    BY <2>1, <2>2, <2>4, Joins
<1>3. ASSUME NEW r \in Strings, Alike(r, b)
      PROVE  G(x, r) = Read(E(id, dir, names), b, r)
  BY <1>3, NamesRead DEF E
<1>4. Alike(t, a) => RecvPod(t) = Read(x, a, t)
  BY PodRead
<1> HIDE DEF a, b, x, G
<1>5. Alike(t, a) /\ (Len(t) >= Len(a) => Alike(Rest(t, Len(a)), b)) /\ a \o b \in Strings
  BY <1>2, AlikeParts, Joins
<1>6. RecvRemoteDentries(t) = IF Len(t) < Len(a) THEN {} ELSE G(x, Rest(t, Len(a)))
  <2>1. CASE Len(t) < Len(a)
    <3>1. RecvPod(t) = {}
      BY <1>2, <1>4, <1>5, <2>1, ReadCases
    <3> QED
      BY <1>1, <2>1, <3>1
  <2>2. CASE Len(t) >= Len(a)
    <3>1. RecvPod(t) = {<<x, Rest(t, Len(a))>>}
      BY <1>2, <1>4, <1>5, <2>2, ReadCases
    <3> QED
      BY <1>1, <1>2, <2>2, <3>1
  <2> QED
    BY <1>2, <2>1, <2>2
<1>7. Read(E(id, dir, names), a \o b, t) =
        IF Len(t) < Len(a)
        THEN {}
        ELSE Read(E(id, dir, names), b, Rest(t, Len(a)))
  BY <1>2, TwoParts
<1>8. Len(t) >= Len(a) => Rest(t, Len(a)) \in Strings
  BY <1>2, RestProps
<1>9. RecvRemoteDentries(t) = Read(E(id, dir, names), a \o b, t)
  <2>1. CASE Len(t) < Len(a)
    BY <1>6, <1>7, <2>1
  <2>2. CASE Len(t) >= Len(a)
    <3>1. G(x, Rest(t, Len(a))) = Read(E(id, dir, names), b, Rest(t, Len(a)))
      BY <1>3, <1>5, <1>8, <2>2
    <3> QED
      BY <1>2, <1>6, <1>7, <2>2, <3>1
  <2> QED
    BY <1>2, <2>1, <2>2
<1> QED
  BY <1>2, <1>5, <1>9

\* An item of ClientsListPayload.
Listed == Nat \X Strings
SendClient(p) == SendPair(SendPod, SendString, p)
RecvClient(s) == RecvPair(RecvPod, RecvString, s)

\* An id and a name are read as they were sent.
LEMMA IdAndNameRead ==
  ASSUME NEW id \in Nat, NEW name \in Strings, NEW t \in Strings, Alike(t, SendClient(<<id, name>>))
  PROVE  /\ SendClient(<<id, name>>) \in Strings
         /\ RecvClient(t) = Read(<<id, name>>, SendClient(<<id, name>>), t)
<1> DEFINE first == id
           a == SendPod(id)
           b == SendString(name)
           x == first
           G(y, r) == Then(RecvString(r), LAMBDA z, rest : Got(<<y, z>>, rest))
<1>1. RecvClient(t) = UNION {G(p[1], p[2]) : p \in RecvPod(t)}
  BY DEF RecvClient, RecvPair, Then
<1>2. /\ SendClient(<<id, name>>) = a \o b
      /\ a \in Strings
      /\ b \in Strings
      /\ Len(a) \in Nat
      /\ Len(t) \in Nat
  BY Joins DEF SendClient, SendPair
<1>3. ASSUME NEW r \in Strings, Alike(r, b)
      PROVE  G(x, r) = Read(<<id, name>>, b, r)
  <2> DEFINE z == name
             K(q) == Got(<<x, q[1]>>, q[2])
  <2>1. G(x, r) = UNION {K(q) : q \in RecvString(r)}
    BY DEF Then
  <2>2. RecvString(r) = Read(z, b, r)
    BY <1>3, StringRead
  <2>3. b \in Strings /\ Len(b) \in Nat /\ Len(r) \in Nat
    BY <1>2, Joins
  <2>4. K(<<z, Rest(r, Len(b))>>) = {<<<<id, name>>, Rest(r, Len(b))>>}
    BY DEF Got
  <2> HIDE DEF K, z, G, b, x
  <2>5. CASE Len(r) < Len(b)
    <3>1. RecvString(r) = {} /\ Read(<<id, name>>, b, r) = {}
      BY <2>2, <2>3, <2>5, ReadCases
    <3> QED
      BY <2>1, <3>1
  <2>6. CASE Len(r) >= Len(b)
    <3>1. /\ RecvString(r) = {<<z, Rest(r, Len(b))>>}
          /\ Read(<<id, name>>, b, r) = {<<<<id, name>>, Rest(r, Len(b))>>}
      BY <2>2, <2>3, <2>6, ReadCases
    <3> QED
      BY <2>1, <2>4, <3>1
  <2> QED
    BY <2>3, <2>5, <2>6
<1>4. Alike(t, a) => RecvPod(t) = Read(x, a, t)
  BY PodRead
<1> HIDE DEF a, b, x, G
<1>5. Alike(t, a) /\ (Len(t) >= Len(a) => Alike(Rest(t, Len(a)), b)) /\ a \o b \in Strings
  BY <1>2, AlikeParts, Joins
<1>6. RecvClient(t) = IF Len(t) < Len(a) THEN {} ELSE G(x, Rest(t, Len(a)))
  <2>1. CASE Len(t) < Len(a)
    <3>1. RecvPod(t) = {}
      BY <1>2, <1>4, <1>5, <2>1, ReadCases
    <3> QED
      BY <1>1, <2>1, <3>1
  <2>2. CASE Len(t) >= Len(a)
    <3>1. RecvPod(t) = {<<x, Rest(t, Len(a))>>}
      BY <1>2, <1>4, <1>5, <2>2, ReadCases
    <3> QED
      BY <1>1, <1>2, <2>2, <3>1
  <2> QED
    BY <1>2, <2>1, <2>2
<1>7. Read(<<id, name>>, a \o b, t) =
        IF Len(t) < Len(a)
        THEN {}
        ELSE Read(<<id, name>>, b, Rest(t, Len(a)))
  BY <1>2, TwoParts
<1>8. Len(t) >= Len(a) => Rest(t, Len(a)) \in Strings
  BY <1>2, RestProps
<1>9. RecvClient(t) = Read(<<id, name>>, a \o b, t)
  <2>1. CASE Len(t) < Len(a)
    BY <1>6, <1>7, <2>1
  <2>2. CASE Len(t) >= Len(a)
    <3>1. G(x, Rest(t, Len(a))) = Read(<<id, name>>, b, Rest(t, Len(a)))
      BY <1>3, <1>5, <1>8, <2>2
    <3> QED
      BY <1>2, <1>6, <1>7, <2>2, <3>1
  <2> QED
    BY <1>2, <2>1, <2>2
<1> QED
  BY <1>2, <1>5, <1>9

\* So is the item of ClientsListPayload they are.
LEMMA ClientRead ==
  ASSUME NEW p \in Listed, NEW t \in Strings, Alike(t, SendClient(p))
  PROVE  RecvClient(t) = Read(p, SendClient(p), t)
<1>1. PICK id \in Nat, name \in Strings : p = <<id, name>>
  BY DEF Listed
<1> QED
  BY <1>1, IdAndNameRead

\* What is sent of such an item is a stream.
LEMMA ClientTyped == \A p \in Listed : SendClient(p) \in Strings
  BY Joins DEF SendClient, SendPair, Listed

\* One more item of ClientsListPayload is read as the loop of recv reads it.
LEMMA ClientsItem ==
  ASSUME NEW u, NEW x \in Listed, NEW s \in Strings, Alike(s, SendClient(x))
  PROVE  UNION {UNION {Got(Append(p[1], q[1]), q[2]) : q \in RecvClient(p[2])} : p \in {<<u, s>>}}
           = Read(Append(u, x), SendClient(x), s)
<1> DEFINE One(p) == UNION {Got(Append(p[1], q[1]), q[2]) : q \in RecvClient(p[2])}
           sent == SendClient(x)
<1>1. UNION {One(p) : p \in {<<u, s>>}} = One(<<u, s>>)
  <2> HIDE DEF One
  <2> QED
    OBVIOUS
<1>2. One(<<u, s>>) = UNION {Got(Append(u, q[1]), q[2]) : q \in RecvClient(s)}
  OBVIOUS
<1>3. RecvClient(s) = Read(x, sent, s) /\ sent \in Strings
  BY ClientRead, ClientTyped
<1> HIDE DEF sent, One
<1>4. CASE Len(s) < Len(sent)
  <2>1. RecvClient(s) = {} /\ Read(Append(u, x), sent, s) = {}
    BY <1>3, <1>4, ReadCases
  <2> QED
    BY <1>1, <1>2, <2>1 DEF One, sent
<1>5. CASE Len(s) >= Len(sent)
  <2>1. /\ RecvClient(s) = {<<x, Rest(s, Len(sent))>>}
        /\ Read(Append(u, x), sent, s) = {<<Append(u, x), Rest(s, Len(sent))>>}
    BY <1>3, <1>5, ReadCases
  <2>2. One(<<u, s>>) = {<<Append(u, x), Rest(s, Len(sent))>>}
    BY <1>2, <2>1 DEF Got
  <2> QED
    BY <1>1, <2>1, <2>2 DEF One, sent
<1>6. Len(s) \in Nat /\ Len(sent) \in Nat
  BY <1>3, Joins
<1> QED
  BY <1>4, <1>5, <1>6

\* A list of clients (ClientsListPayload) is received as the server sent it.
THEOREM ClientsRead ==
  ASSUME NEW v \in Seq(Listed), NEW t \in Strings, Alike(t, SendClientsList(v))
  PROVE  /\ SendClientsList(v) \in Strings
         /\ RecvClientsList(t) = Read(v, SendClientsList(v), t)
<1> DEFINE n == Len(v)
           parts == [i \in DOMAIN v |-> SendClient(v[i])]
           head == SendPod(n)
           body == FlattenSeq(parts)
           Add(y) == UNION {UNION {Got(Append(p[1], q[1]), q[2]) : q \in RecvClient(p[2])} : p \in y}
           Adds(h, size, r) == h = [m \in 0..size |-> IF m = 0 THEN Got(<<>>, r) ELSE Add(h[m - 1])]
           F(size, r) == (CHOOSE h : Adds(h, size, r))[size]
           r == Rest(t, 1)
           w == [m \in 0..n |-> Read(SubSeq(v, 1, m), Upto(parts, m), r)]
           H == CHOOSE h : Adds(h, n, r)
<1>1. SendClientsList(v) = head \o body
  BY DEF SendVector, SendPod, SendClientsList, SendClient
<1>2. RecvClientsList(t) = UNION {F(p[1], p[2]) : p \in RecvPod(t)}
  BY DEF RecvVector, Then, RecvClientsList, RecvClient
<1>3. /\ n \in Nat /\ Len(t) \in Nat /\ head \in Strings /\ Len(head) = 1
      /\ parts \in Seq(Strings) /\ Len(parts) = n
      /\ \A i \in 1..n : parts[i] = SendClient(v[i]) /\ v[i] \in Listed
  <2>1. DOMAIN v = 1..n /\ n \in Nat /\ \A i \in 1..n : v[i] \in Listed
    OBVIOUS
  <2>2. \A i \in 1..n : SendClient(v[i]) \in Strings
    BY <2>1, ClientTyped
  <2>3. parts \in Seq(Strings) /\ Len(parts) = n
    BY <2>1, <2>2
  <2> QED
    BY <2>1, <2>3, Joins
<1>4. Upto(parts, 0) = <<>> /\ Upto(parts, n) = body /\ body \in Strings
  <2> HIDE DEF parts, n
  <2>1. n \in 0..Len(parts)
    BY <1>3
  <2> QED
    BY <1>3, <2>1, UptoProps
<1> HIDE DEF parts, head, body, n, r, w, Adds, Add, F, H
<1>5. /\ Alike(t, head)
      /\ (Len(t) >= Len(head) => Alike(Rest(t, Len(head)), body))
      /\ head \o body \in Strings
  <2>1. Alike(t, head \o body)
    BY <1>1
  <2>2. head \in Strings /\ body \in Strings
    BY <1>3, <1>4
  <2> QED
    BY <2>1, <2>2, AlikeParts, Joins
<1>6. RecvPod(t) = Read(n, head, t)
  BY <1>3, <1>5, PodRead DEF head
<1>7. ASSUME Len(t) < 1 PROVE RecvClientsList(t) = {}
  <2>1. RecvPod(t) = {}
    BY <1>3, <1>6, <1>7, ReadCases
  <2> QED
    BY <1>2, <2>1
<1>8. ASSUME Len(t) >= 1
      PROVE  RecvClientsList(t) = Read(v, body, r)
  <2>1. r \in Strings /\ Alike(r, body)
    BY <1>3, <1>5, <1>8, RestProps DEF r
  <2>2. RecvClientsList(t) = F(n, r)
    <3>1. RecvPod(t) = {<<n, r>>}
      BY <1>3, <1>6, <1>8, ReadCases DEF r
    <3> QED
      BY <1>2, <3>1
  <2>3. \A m \in 0..n : w[m] = Read(SubSeq(v, 1, m), Upto(parts, m), r)
    BY DEF w
  <2>4. w[0] = Got(<<>>, r)
    <3>1. SubSeq(v, 1, 0) = <<>> /\ <<>> \in Strings /\ Len(<<>>) = 0 /\ Len(r) \in Nat /\ Rest(r, 0) = r
      BY <2>1, SubSeqFull DEF Strings, Rest
    <3>2. Read(<<>>, <<>>, r) = {<<<<>>, r>>}
      BY <2>1, <3>1, ReadCases
    <3>3. 0 \in 0..n
      BY <1>3
    <3>4. w[0] = Read(<<>>, <<>>, r)
      BY <1>4, <2>3, <3>1, <3>3
    <3> QED
      BY <3>2, <3>4 DEF Got
  <2>5. ASSUME NEW m \in 1..n
        PROVE  w[m] = Add(w[m - 1])
    <3> DEFINE u == SubSeq(v, 1, m - 1)
    <3>1. \/ w[m - 1] = {} /\ w[m] = {}
          \/ \E s \in Strings : /\ Alike(s, parts[m]) /\ w[m - 1] = {<<u, s>>}
                                /\ w[m] = Read(Append(u, v[m]), parts[m], s)
      <4>1. Parts(v, parts, r) /\ m \in 1..Len(v)
        BY <1>3, <2>1 DEF n, body, Parts
      <4>2. m \in 0..n /\ m - 1 \in 0..n
        BY <1>3
      <4> DEFINE before == Read(u, Upto(parts, m - 1), r)
                 after == Read(SubSeq(v, 1, m), Upto(parts, m), r)
      <4>3. w[m - 1] = before /\ w[m] = after
        BY <2>3, <4>2
      <4>4. \/ before = {} /\ after = {}
            \/ \E s \in Strings : /\ Alike(s, parts[m]) /\ before = {<<u, s>>}
                                  /\ after = Read(Append(u, v[m]), parts[m], s)
        BY <4>1, ItemsRead
      <4> HIDE DEF before, after, u
      <4> QED
        BY <4>3, <4>4
    <3>2. CASE w[m - 1] = {} /\ w[m] = {}
      BY <3>2 DEF Add
    <3>3. ASSUME NEW s \in Strings, Alike(s, parts[m]), w[m - 1] = {<<u, s>>},
                 w[m] = Read(Append(u, v[m]), parts[m], s)
          PROVE  w[m] = Add(w[m - 1])
      <4>1. v[m] \in Listed /\ parts[m] = SendClient(v[m])
        BY <1>3, ElementOfSeq
      <4> HIDE DEF u
      <4>2. Add({<<u, s>>}) = Read(Append(u, v[m]), SendClient(v[m]), s)
        BY <3>3, <4>1, ClientsItem DEF Add
      <4> QED
        BY <3>3, <4>1, <4>2
    <3> HIDE DEF u
    <3> QED
      BY <3>1, <3>2, <3>3
  <2>6. Adds(w, n, r)
    <3>1. \A m \in 0..n : w[m] = IF m = 0 THEN Got(<<>>, r) ELSE Add(w[m - 1])
      <4>1. \A m \in 0..n : m # 0 => m \in 1..n
        BY <1>3
      <4> QED
        BY <4>1, <2>4, <2>5
    <3> QED
      BY <3>1 DEF w, Adds
  <2>7. Adds(H, n, r)
    BY <2>6 DEF H
  <2>8. H[0] = w[0] /\ \A m \in 1..n : H[m] = Add(H[m - 1])
    <3>1. 0 \in 0..n /\ \A m \in 1..n : m \in 0..n /\ m # 0
      BY <1>3
    <3> QED
      BY <2>4, <2>7, <3>1 DEF Adds
  <2>9. H[n] = w[n]
    <3>1. \A m \in 1..n : H[m - 1] = w[m - 1] => H[m] = w[m]
      BY <2>5, <2>8
    <3>2. n \in Nat /\ H[0] = w[0]
      BY <1>3, <2>8
    <3> QED
      BY <3>1, <3>2, GoOnAlike
  <2>10. SubSeq(v, 1, n) = v /\ n \in 0..n
    BY <1>3, SubSeqFull DEF n
  <2> QED
    BY <1>4, <2>2, <2>3, <2>9, <2>10 DEF H, F
<1>9. Read(v, head \o body, t) = IF Len(t) < Len(head) THEN {} ELSE Read(v, body, Rest(t, Len(head)))
  <2>1. head \in Strings /\ body \in Strings
    BY <1>3, <1>4
  <2> QED
    BY <2>1, TwoParts
<1>10. RecvClientsList(t) = Read(v, head \o body, t)
  BY <1>3, <1>7, <1>8, <1>9 DEF r
<1> QED
  BY <1>1, <1>5, <1>10

\* What is read of WatcherInfo after the first six numbers.
SendRest(file, speed) == SendString(file) \o SendPod(speed)
RecvRest(six, s) ==
  Then(RecvString(s), LAMBDA file, r : Then(RecvPod(r), LAMBDA speed, rest :
    Got([figures |-> Append(six, speed), cur_file |-> file], rest)))

\* What WatcherInfo has after the first six numbers is read as it was sent.
LEMMA RestRead ==
  ASSUME NEW six, NEW file \in Strings, NEW speed \in Nat, NEW t \in Strings,
         Alike(t, SendRest(file, speed))
  PROVE  /\ SendRest(file, speed) \in Strings
         /\ RecvRest(six, t) =
              Read([figures |-> Append(six, speed), cur_file |-> file], SendRest(file, speed), t)
<1> DEFINE first == file
           a == SendString(file)
           b == SendPod(speed)
           x == first
           G(y, r) == Then(RecvPod(r), LAMBDA z, rest :
                        Got([figures |-> Append(six, z), cur_file |-> y], rest))
<1>1. RecvRest(six, t) = UNION {G(p[1], p[2]) : p \in RecvString(t)}
  BY DEF RecvRest, Then
<1>2. SendRest(file, speed) = a \o b /\ a \in Strings /\ b \in Strings /\ Len(a) \in Nat /\ Len(t) \in Nat
  BY Joins DEF SendRest
<1>3. ASSUME NEW r \in Strings, Alike(r, b)
      PROVE  G(x, r) = Read([figures |-> Append(six, speed), cur_file |-> file], b, r)
  <2> DEFINE z == speed
             K(q) == Got([figures |-> Append(six, q[1]), cur_file |-> x], q[2])
  <2>1. G(x, r) = UNION {K(q) : q \in RecvPod(r)}
    BY DEF Then
  <2>2. RecvPod(r) = Read(z, b, r)
    BY <1>3, PodRead
  <2>3. b \in Strings /\ Len(b) \in Nat /\ Len(r) \in Nat
    BY <1>2, Joins
  <2>4. K(<<z, Rest(r, Len(b))>>) =
          {<<[figures |-> Append(six, speed), cur_file |-> file], Rest(r, Len(b))>>}
    BY DEF Got
  <2> HIDE DEF K, z, G, b, x
  <2>5. CASE Len(r) < Len(b)
    <3>1. RecvPod(r) = {} /\ Read([figures |-> Append(six, speed), cur_file |-> file], b, r) = {}
      BY <2>2, <2>3, <2>5, ReadCases
    <3> QED
      BY <2>1, <3>1
  <2>6. CASE Len(r) >= Len(b)
    <3>1. /\ RecvPod(r) = {<<z, Rest(r, Len(b))>>}
          /\ Read([figures |-> Append(six, speed), cur_file |-> file], b, r) =
               {<<[figures |-> Append(six, speed), cur_file |-> file], Rest(r, Len(b))>>}
      BY <2>2, <2>3, <2>6, ReadCases
    <3> QED
      BY <2>1, <2>4, <3>1
  <2> QED
    BY <2>3, <2>5, <2>6
<1>4. Alike(t, a) => RecvString(t) = Read(x, a, t)
  BY StringRead
<1> HIDE DEF a, b, x, G
<1>5. Alike(t, a) /\ (Len(t) >= Len(a) => Alike(Rest(t, Len(a)), b)) /\ a \o b \in Strings
  BY <1>2, AlikeParts, Joins
<1>6. RecvRest(six, t) = IF Len(t) < Len(a) THEN {} ELSE G(x, Rest(t, Len(a)))
  <2>1. CASE Len(t) < Len(a)
    <3>1. RecvString(t) = {}
      BY <1>2, <1>4, <1>5, <2>1, ReadCases
    <3> QED
      BY <1>1, <2>1, <3>1
  <2>2. CASE Len(t) >= Len(a)
    <3>1. RecvString(t) = {<<x, Rest(t, Len(a))>>}
      BY <1>2, <1>4, <1>5, <2>2, ReadCases
    <3> QED
      BY <1>1, <1>2, <2>2, <3>1
  <2> QED
    BY <1>2, <2>1, <2>2
<1>7. Read([figures |-> Append(six, speed), cur_file |-> file], a \o b, t) =
        IF Len(t) < Len(a)
        THEN {}
        ELSE Read([figures |-> Append(six, speed), cur_file |-> file], b, Rest(t, Len(a)))
  BY <1>2, TwoParts
<1>8. Len(t) >= Len(a) => Rest(t, Len(a)) \in Strings
  BY <1>2, RestProps
<1>9. RecvRest(six, t) = Read([figures |-> Append(six, speed), cur_file |-> file], a \o b, t)
  <2>1. CASE Len(t) < Len(a)
    BY <1>6, <1>7, <2>1
  <2>2. CASE Len(t) >= Len(a)
    <3>1. G(x, Rest(t, Len(a))) =
            Read([figures |-> Append(six, speed), cur_file |-> file], b, Rest(t, Len(a)))
      BY <1>3, <1>5, <1>8, <2>2
    <3> QED
      BY <1>2, <1>6, <1>7, <2>2, <3>1
  <2> QED
    BY <1>2, <2>1, <2>2
<1> QED
  BY <1>2, <1>5, <1>9

\* The figures of a copy (WatcherInfo) are received by the watcher as the server
\* sent them, each number in its place.
THEOREM WatcherInfoRead ==
  ASSUME NEW f \in Seq(Nat), Len(f) = 7, NEW file \in Strings, NEW t \in Strings,
         Alike(t, SendWatcherInfo([figures |-> f, cur_file |-> file]))
  PROVE  RecvWatcherInfo(t) = Read([figures |-> f, cur_file |-> file],
                                   SendWatcherInfo([figures |-> f, cur_file |-> file]), t)
<1> DEFINE i == [figures |-> f, cur_file |-> file]
           six == SubSeq(f, 1, 6)
           speed == f[7]
           b == SendRest(file, speed)
<1>1. speed \in Nat /\ \A k \in 1..6 : f[k] \in Nat
  <2>1. \A k \in 1..7 : f[k] \in Nat
    BY ElementOfSeq
  <2> QED
    BY <2>1
<1>2. six \in Strings /\ Len(six) = 6 /\ Append(six, speed) = f
  <2>1. six \in Seq(Nat) /\ Len(six) = 6
    BY <1>1, SubSeqProperties
  <2>2. SubSeq(f, 1, 7) = SubSeq(f, 1, 6) \o <<f[7]>>
    BY SubSeqRecursiveSecond
  <2>3. SubSeq(f, 1, 7) = f
    BY SubSeqFull
  <2>4. Append(six, speed) = six \o <<speed>>
    <3> HIDE DEF six, speed
    <3> QED
      BY <1>1, <2>1, AppendIsConcat
  <2> QED
    BY <2>1, <2>2, <2>3, <2>4 DEF Strings
<1>3. SendWatcherInfo(i) = six \o b /\ b \in Strings
  <2>1. SendWatcherInfo(i) = (six \o SendString(file)) \o SendPod(speed)
    BY DEF SendWatcherInfo
  <2>2. SendString(file) \in Strings /\ SendPod(speed) \in Strings
    BY <1>1, Joins
  <2>3. (six \o SendString(file)) \o SendPod(speed) = six \o (SendString(file) \o SendPod(speed))
    <3> HIDE DEF six, speed
    <3> QED
      BY <1>2, <2>2, JoinsAssociate
  <2> QED
    BY <2>1, <2>2, <2>3, Joins DEF SendRest
<1>4. RecvWatcherInfo(t) = IF Len(t) < 6 THEN Short ELSE RecvRest(SubSeq(t, 1, 6), Rest(t, 6))
  BY DEF RecvWatcherInfo, RecvRest, Rest
<1> HIDE DEF i, six, speed, b
<1>5. Alike(t, six) /\ (Len(t) >= 6 => Alike(Rest(t, 6), b)) /\ Len(t) \in Nat
  <2>1. Alike(t, six \o b)
    BY <1>3 DEF i
  <2> QED
    BY <1>2, <1>3, <2>1, AlikeParts, Joins
<1>6. Read(i, six \o b, t) = IF Len(t) < 6 THEN {} ELSE Read(i, b, Rest(t, 6))
  <2>1. Read(i, six \o b, t) = IF Len(t) < Len(six) THEN {} ELSE Read(i, b, Rest(t, Len(six)))
    <3>1. six \in Strings /\ b \in Strings
      BY <1>2, <1>3
    <3> QED
      BY <3>1, TwoParts
  <2> QED
    BY <1>2, <2>1
<1>7. CASE Len(t) < 6
  BY <1>3, <1>4, <1>6, <1>7 DEF Short, i
<1>8. CASE Len(t) >= 6
  <2>1. SubSeq(t, 1, 6) = six
    <3>0. \A k \in 1..6 : k \in 1..Len(t) /\ k <= Len(six)
      BY <1>2, <1>5, <1>8
    <3>1. \A k \in 1..6 : t[k] \in Nat /\ t[k] = six[k]
      BY <1>5, <3>0, ElementOfSeq DEF Alike, Strings
    <3>2. /\ SubSeq(t, 1, 6) \in Seq(Nat) /\ Len(SubSeq(t, 1, 6)) = 6
          /\ \A k \in 1..6 : SubSeq(t, 1, 6)[k] = t[k]
      BY <3>1, SubSeqProperties
    <3>3. six \in Seq(Nat) /\ Len(six) = 6
      BY <1>2 DEF Strings
    <3>4. \A k \in 1..6 : SubSeq(t, 1, 6)[k] = six[k]
      BY <3>1, <3>2
    <3> QED
      BY <3>2, <3>3, <3>4, SeqEqual, SMTT(30)
  <2>2. Rest(t, 6) \in Strings
    BY <1>5, <1>8, RestProps
  <2>3. RecvRest(six, Rest(t, 6)) =
          Read([figures |-> Append(six, speed), cur_file |-> file], b, Rest(t, 6))
    BY <1>1, <1>5, <1>8, <2>2, RestRead, ZenonT(30) DEF b
  <2>4. i = [figures |-> Append(six, speed), cur_file |-> file]
    BY <1>2 DEF i
  <2>5. ~ (Len(t) < 6)
    BY <1>5, <1>8
  <2>6. RecvWatcherInfo(t) = RecvRest(six, Rest(t, 6))
    BY <1>4, <2>1, <2>5
  <2>7. RecvWatcherInfo(t) = Read(i, b, Rest(t, 6))
    BY <2>3, <2>4, <2>6
  <2>8. RecvWatcherInfo(t) = Read(i, six \o b, t)
    BY <1>6, <2>5, <2>7
  <2> QED
    BY <1>3, <2>8 DEF i
<1> QED
  BY <1>5, <1>7, <1>8
=============================================================================
