------------------------ MODULE BrowserSessionProofs ------------------------
(***************************************************************************)
(* A pane at work gets the answers to its requests, for connections and    *)
(* buffers of any size and any files.                                      *)
(*                                                                         *)
(* Two streams run through a session: the answers, from the host over the  *)
(* server to the pane, and the requests the other way. Each is the join of *)
(* all the messages sent in it. The invariant says where the parts of the  *)
(* stream are: with the reader, in the connections, in the proxy's buffer, *)
(* with the writer. A step moves some numbers from one part to the next,   *)
(* and what is read at the end is, by WireProofs, the next message and no  *)
(* number more. For that every end has to be in its place (Places, Ends)   *)
(* and nothing may fail while both ends are there (Calm).                  *)
(***************************************************************************)
EXTENDS BrowserSession, WireProofs, FiniteSetTheorems

-----------------------------------------------------------------------------
\* Pieces of a stream.

\* t goes on where s ends.
Begins(s, t) == \E z \in Strings : s \o z = t

\* A stream is its first n numbers and the rest.
LEMMA SplitAt ==
  ASSUME NEW b \in Strings, NEW n \in 0..Len(b)
  PROVE  /\ SubSeq(b, 1, n) \in Strings /\ Len(SubSeq(b, 1, n)) = n
         /\ Rest(b, n) \in Strings /\ Len(Rest(b, n)) = Len(b) - n
         /\ SubSeq(b, 1, n) \o Rest(b, n) = b
<1>1. Len(b) \in Nat /\ n \in Nat /\ b \in Seq(Nat)
  BY DEF Strings
<1>2. /\ SubSeq(b, 1, n) \in Seq(Nat) /\ Len(SubSeq(b, 1, n)) = n
      /\ \A i \in 1..n : SubSeq(b, 1, n)[i] = b[i]
  <2>1. \A i \in 1..n : b[i] \in Nat
    BY <1>1
  <2>2. /\ SubSeq(b, 1, n) \in Seq(Nat)
        /\ Len(SubSeq(b, 1, n)) = IF 1 <= n THEN n - 1 + 1 ELSE 0
        /\ \A i \in 1..n - 1 + 1 : SubSeq(b, 1, n)[i] = b[1 + i - 1]
    BY <1>1, <2>1, SubSeqProperties
  <2>3. n - 1 + 1 = n /\ (IF 1 <= n THEN n - 1 + 1 ELSE 0) = n
    BY <1>1
  <2>4. \A i \in 1..n : 1 + i - 1 = i
    OBVIOUS
  <2> QED
    BY <2>2, <2>3, <2>4
<1>3. /\ Rest(b, n) \in Strings /\ Len(Rest(b, n)) = Len(b) - n
      /\ \A i \in 1..Len(b) - n : Rest(b, n)[i] = b[n + i]
  BY RestProps
<1> DEFINE u == SubSeq(b, 1, n)
           w == Rest(b, n)
<1>4. u \in Seq(Nat) /\ w \in Seq(Nat) /\ Len(u) = n /\ Len(w) = Len(b) - n
  BY <1>2, <1>3 DEF Strings
<1>8. (\A i \in 1..n : u[i] = b[i]) /\ \A i \in 1..Len(b) - n : w[i] = b[n + i]
  BY <1>2, <1>3
<1> HIDE DEF u, w
<1>9. /\ Len(u \o w) = n + (Len(b) - n)
      /\ \A i \in 1..n : (u \o w)[i] = u[i]
      /\ \A i \in 1..Len(b) - n : (u \o w)[n + i] = w[i]
  <2>1. /\ Len(u \o w) = Len(u) + Len(w)
        /\ \A i \in 1..Len(u) + Len(w) : (u \o w)[i] = IF i <= Len(u) THEN u[i] ELSE w[i - Len(u)]
    BY <1>4, ConcatProperties
  <2>2. ASSUME NEW i \in 1..n PROVE (u \o w)[i] = u[i]
    <3>1. i \in 1..Len(u) + Len(w) /\ i <= Len(u)
      BY <1>1, <1>4
    <3> QED
      BY <2>1, <3>1
  <2>3. ASSUME NEW i \in 1..Len(b) - n PROVE (u \o w)[n + i] = w[i]
    <3>1. n + i \in 1..Len(u) + Len(w) /\ ~ (n + i <= Len(u)) /\ n + i - Len(u) = i
      BY <1>1, <1>4
    <3>2. (u \o w)[n + i] = w[n + i - Len(u)]
      BY <2>1, <3>1
    <3> QED
      BY <3>1, <3>2
  <2> QED
    BY <1>4, <2>1, <2>2, <2>3
<1>5. ASSUME NEW i \in 1..Len(b) PROVE (u \o w)[i] = b[i]
  <2>1. CASE i <= n
    <3>1. i \in 1..n
      BY <1>1, <2>1
    <3> QED
      BY <1>8, <1>9, <3>1
  <2>2. CASE i > n
    <3>1. n + (i - n) = i /\ i - n \in 1..Len(b) - n
      BY <1>1, <2>2
    <3>2. (u \o w)[n + (i - n)] = w[i - n] /\ w[i - n] = b[n + (i - n)]
      BY <1>8, <1>9, <3>1
    <3> QED
      BY <3>1, <3>2
  <2>3. i <= n \/ i > n
    BY <1>1
  <2> QED
    BY <2>1, <2>2, <2>3
<1>6. u \o w \in Seq(Nat) /\ Len(u \o w) = Len(b)
  BY <1>1, <1>4, <1>9
<1>7. u \o w = b
  BY <1>1, <1>5, <1>6, SeqEqual
<1> QED
  BY <1>2, <1>3, <1>7 DEF Strings, u, w

\* The first n numbers of one piece go to the end of the piece before it.
LEMMA HeadMoves ==
  ASSUME NEW a \in Strings, NEW b \in Strings, NEW n \in 0..Len(b)
  PROVE  /\ a \o SubSeq(b, 1, n) \in Strings /\ Rest(b, n) \in Strings
         /\ (a \o SubSeq(b, 1, n)) \o Rest(b, n) = a \o b
<1> DEFINE u == SubSeq(b, 1, n)
           w == Rest(b, n)
<1>1. u \in Strings /\ w \in Strings /\ u \o w = b
  BY SplitAt
<1> HIDE DEF u, w
<1>2. a \o u \in Strings
  BY <1>1, Joins
<1>3. (a \o u) \o w = a \o (u \o w)
  BY <1>1, JoinsAssociate
<1> QED
  BY <1>1, <1>2, <1>3 DEF u, w

\* What begins a stream is begun by what it begins with.
LEMMA BeginsShorter ==
  ASSUME NEW a \in Strings, NEW b \in Strings, NEW t, Begins(a \o b, t)
  PROVE  Begins(a, t)
<1>1. PICK z \in Strings : (a \o b) \o z = t
  BY DEF Begins
<1>2. b \o z \in Strings /\ a \o (b \o z) = t
  <2>1. (a \o b) \o z = a \o (b \o z)
    BY JoinsAssociate
  <2> QED
    BY <1>1, <2>1, Joins
<1> QED
  BY <1>2 DEF Begins

\* A stream that goes on begins as it did.
LEMMA BeginsLonger ==
  ASSUME NEW s \in Strings, NEW t \in Strings, NEW p \in Strings, Begins(s, t)
  PROVE  Begins(s, t \o p)
<1>1. PICK z \in Strings : s \o z = t
  BY DEF Begins
<1>2. z \o p \in Strings /\ s \o (z \o p) = t \o p
  <2>1. (s \o z) \o p = s \o (z \o p)
    BY JoinsAssociate
  <2> QED
    BY <1>1, <2>1, Joins
<1> QED
  BY <1>2 DEF Begins

\* The beginning of a stream is like it.
LEMMA BeginsIsAlike ==
  ASSUME NEW s \in Strings, NEW t, Begins(s, t)
  PROVE  Alike(s, t)
<1>1. PICK z \in Strings : s \o z = t
  BY DEF Begins
<1> QED
  BY <1>1 DEF Alike, Strings

\* What follows the first k parts is like the next, and ends no later than it does.
LEMMA NextPart ==
  ASSUME NEW parts \in Seq(Strings), NEW k \in 0..Len(parts), NEW g \in Strings, g # <<>>,
         Begins(Upto(parts, k) \o g, FlattenSeq(parts))
  PROVE  /\ k + 1 \in 1..Len(parts) /\ parts[k + 1] \in Strings /\ Alike(g, parts[k + 1])
         /\ Len(g) >= Len(parts[k + 1]) =>
              Upto(parts, k + 1) \o Rest(g, Len(parts[k + 1])) = Upto(parts, k) \o g
<1> DEFINE u == Upto(parts, k)
<1>0. Len(parts) \in Nat /\ k \in Nat
  OBVIOUS
<1>1. u \in Strings /\ u \o g \in Strings /\ FlattenSeq(parts) = Upto(parts, Len(parts))
  BY UptoProps, Joins
<1>2. Alike(u \o g, FlattenSeq(parts))
  BY <1>1, BeginsIsAlike
<1>3. k # Len(parts)
  <2> SUFFICES ASSUME k = Len(parts) PROVE FALSE
    OBVIOUS
  <2>1. PICK z \in Strings : (u \o g) \o z = u
    BY <1>1 DEF Begins
  <2>2. Len(u) + Len(g) + Len(z) = Len(u) /\ Len(g) \in Nat /\ Len(z) \in Nat /\ Len(u) \in Nat
    BY <1>1, <2>1, Joins
  <2>3. Len(g) = 0
    BY <2>2
  <2> QED
    BY <2>3, EmptySeq DEF Strings
<1>4. k + 1 \in 1..Len(parts) /\ k + 1 \in 0..Len(parts) /\ (k + 1) - 1 = k
  BY <1>0, <1>3
<1>5. parts[k + 1] \in Strings /\ Upto(parts, k + 1) = u \o parts[k + 1]
  BY <1>4, UptoProps, ElementOfSeq
<1>6. Alike(u \o g, u \o parts[k + 1])
  BY <1>1, <1>2, <1>4, <1>5, UptoAlike
<1> DEFINE p == parts[k + 1]
<1> HIDE DEF u, p
<1>7. Alike(u \o g, u \o p) /\ p \in Strings /\ Len(u \o g) >= Len(u) /\ Len(u) \in 0..Len(u \o g)
  BY <1>1, <1>5, <1>6, Joins DEF p
<1>8. Alike(Rest(u \o g, Len(u)), p)
  BY <1>1, <1>7, AlikeParts
<1>9. Rest(u \o g, Len(u)) = g
  <2>1. /\ Rest(u \o g, Len(u)) \in Seq(Nat) /\ Len(Rest(u \o g, Len(u))) = Len(u \o g) - Len(u)
        /\ \A i \in 1..Len(u \o g) - Len(u) : Rest(u \o g, Len(u))[i] = (u \o g)[Len(u) + i]
    BY <1>1, <1>7, RestProps DEF Strings
  <2>2. Len(u \o g) = Len(u) + Len(g) /\ Len(u) \in Nat /\ Len(g) \in Nat
    BY <1>1, Joins
  <2>3. \A i \in 1..Len(g) : (u \o g)[Len(u) + i] = g[i]
    BY <1>1 DEF Strings
  <2>4. Len(u \o g) - Len(u) = Len(g)
    BY <2>2
  <2>5. \A i \in 1..Len(g) : Rest(u \o g, Len(u))[i] = g[i]
    BY <2>1, <2>3, <2>4
  <2> QED
    BY <2>1, <2>4, <2>5, SeqEqual DEF Strings
<1>10. ASSUME Len(g) >= Len(p)
       PROVE  (u \o p) \o Rest(g, Len(p)) = u \o g
  <2>1. Len(p) \in 0..Len(g)
    BY <1>7, <1>10, Joins
  <2>2. SubSeq(g, 1, Len(p)) = p
    <3>1. /\ SubSeq(g, 1, Len(p)) \in Seq(Nat) /\ Len(SubSeq(g, 1, Len(p))) = Len(p)
          /\ \A i \in 1..Len(p) : SubSeq(g, 1, Len(p))[i] = g[i]
      BY <2>1, SplitAt, <1>7 DEF Strings
    <3>2. \A i \in 1..Len(p) : g[i] = p[i]
      BY <1>8, <1>9, <2>1 DEF Alike
    <3> QED
      BY <1>7, <3>1, <3>2, SeqEqual DEF Strings
  <2>3. (u \o SubSeq(g, 1, Len(p))) \o Rest(g, Len(p)) = u \o g
    BY <1>1, <2>1, HeadMoves
  <2> QED
    BY <2>2, <2>3
<1> QED
  BY <1>4, <1>5, <1>8, <1>9, <1>10 DEF u, p

\* Another part is joined at the end, and changes none of those before.
LEMMA OneMorePart ==
  ASSUME NEW parts \in Seq(Strings), NEW p \in Strings
  PROVE  /\ Append(parts, p) \in Seq(Strings) /\ FlattenSeq(parts) \in Strings
         /\ FlattenSeq(Append(parts, p)) = FlattenSeq(parts) \o p
         /\ \A n \in 0..Len(parts) : Upto(Append(parts, p), n) = Upto(parts, n)
<1> DEFINE q == Append(parts, p)
           L == Len(parts)
<1>1. q \in Seq(Strings) /\ L \in Nat /\ Len(q) = L + 1 /\ q[L + 1] = p /\ \A i \in 1..L : q[i] = parts[i]
  OBVIOUS
<1>2. ASSUME NEW n \in 0..L
      PROVE  Upto(q, n) = Upto(parts, n)
  <2>1. \A i \in 1..n : q[i] \in Strings /\ parts[i] \in Strings /\ q[i] = parts[i]
    BY <1>1
  <2>2. SubSeq(q, 1, n) = SubSeq(parts, 1, n)
    <3>1. n \in Int /\ 1 \in Int /\ n - 1 + 1 = n /\ (\A i \in 1..n : 1 + i - 1 = i)
          /\ (IF 1 <= n THEN n - 1 + 1 ELSE 0) = n
      BY <1>1
    <3>2. /\ SubSeq(q, 1, n) \in Seq(Strings) /\ Len(SubSeq(q, 1, n)) = n
          /\ \A i \in 1..n : SubSeq(q, 1, n)[i] = q[i]
      <4> HIDE DEF q
      <4>1. /\ SubSeq(q, 1, n) \in Seq(Strings)
            /\ Len(SubSeq(q, 1, n)) = IF 1 <= n THEN n - 1 + 1 ELSE 0
            /\ \A i \in 1..n - 1 + 1 : SubSeq(q, 1, n)[i] = q[1 + i - 1]
        BY <1>1, <2>1, <3>1, SubSeqProperties
      <4> QED
        BY <3>1, <4>1
    <3>3. /\ SubSeq(parts, 1, n) \in Seq(Strings) /\ Len(SubSeq(parts, 1, n)) = n
          /\ \A i \in 1..n : SubSeq(parts, 1, n)[i] = parts[i]
      <4>1. /\ SubSeq(parts, 1, n) \in Seq(Strings)
            /\ Len(SubSeq(parts, 1, n)) = IF 1 <= n THEN n - 1 + 1 ELSE 0
            /\ \A i \in 1..n - 1 + 1 : SubSeq(parts, 1, n)[i] = parts[1 + i - 1]
        BY <1>1, <2>1, <3>1, SubSeqProperties
      <4> QED
        BY <3>1, <4>1
    <3> HIDE DEF q
    <3>4. \A i \in 1..n : SubSeq(q, 1, n)[i] = SubSeq(parts, 1, n)[i]
      BY <2>1, <3>2, <3>3
    <3> QED
      BY <3>2, <3>3, <3>4, SeqEqual
  <2> QED
    BY <2>2 DEF Upto
<1> HIDE DEF q
<1>3. FlattenSeq(q) = FlattenSeq(parts) \o p
  <2>1. L + 1 \in 1..Len(q) /\ (L + 1) - 1 = L /\ L \in 0..L
    BY <1>1
  <2>2. Upto(q, L + 1) = Upto(q, (L + 1) - 1) \o q[L + 1] /\ Upto(q, Len(q)) = FlattenSeq(q)
    BY <1>1, <2>1, UptoProps
  <2>3. Upto(q, L) = FlattenSeq(parts)
    BY <1>2, <2>1, UptoProps
  <2> QED
    BY <1>1, <2>1, <2>2, <2>3
<1>4. FlattenSeq(parts) \in Strings
  <2>1. L \in 0..L
    BY <1>1
  <2> QED
    BY <2>1, UptoProps
<1> QED
  BY <1>1, <1>2, <1>3, <1>4 DEF q

-----------------------------------------------------------------------------
\* Requests and answers as they travel.

\* A pair of strings is read as it was sent.
LEMMA TextPairRead ==
  ASSUME NEW dir \in Strings, NEW name \in Strings, NEW t \in Strings,
         Alike(t, SendPair(SendString, SendString, <<dir, name>>))
  PROVE  /\ SendPair(SendString, SendString, <<dir, name>>) \in Strings
         /\ RecvPair(RecvString, RecvString, t) =
              Read(<<dir, name>>, SendPair(SendString, SendString, <<dir, name>>), t)
<1> DEFINE first == dir
           a == SendString(dir)
           b == SendString(name)
           x == first
           G(y, r) == Then(RecvString(r), LAMBDA z, rest : Got(<<y, z>>, rest))
<1>1. RecvPair(RecvString, RecvString, t) = UNION {G(p[1], p[2]) : p \in RecvString(t)}
  BY DEF RecvPair, Then
<1>2. /\ SendPair(SendString, SendString, <<dir, name>>) = a \o b
      /\ a \in Strings
      /\ b \in Strings
      /\ Len(a) \in Nat
      /\ Len(t) \in Nat
  BY Joins DEF SendPair
<1>3. ASSUME NEW r \in Strings, Alike(r, b)
      PROVE  G(x, r) = Read(<<dir, name>>, b, r)
  <2> DEFINE z == name
             K(q) == Got(<<x, q[1]>>, q[2])
  <2>1. G(x, r) = UNION {K(q) : q \in RecvString(r)}
    BY DEF Then
  <2>2. RecvString(r) = Read(z, b, r)
    BY <1>3, StringRead
  <2>3. b \in Strings /\ Len(b) \in Nat /\ Len(r) \in Nat
    BY <1>2, Joins
  <2>4. K(<<z, Rest(r, Len(b))>>) = {<<<<dir, name>>, Rest(r, Len(b))>>}
    BY DEF Got
  <2> HIDE DEF K, z, G, b, x
  <2>5. CASE Len(r) < Len(b)
    <3>1. RecvString(r) = {} /\ Read(<<dir, name>>, b, r) = {}
      BY <2>2, <2>3, <2>5, ReadCases
    <3> QED
      BY <2>1, <3>1
  <2>6. CASE Len(r) >= Len(b)
    <3>1. /\ RecvString(r) = {<<z, Rest(r, Len(b))>>}
          /\ Read(<<dir, name>>, b, r) = {<<<<dir, name>>, Rest(r, Len(b))>>}
      BY <2>2, <2>3, <2>6, ReadCases
    <3> QED
      BY <2>1, <2>4, <3>1
  <2> QED
    BY <2>3, <2>5, <2>6
<1>4. Alike(t, a) => RecvString(t) = Read(x, a, t)
  BY StringRead
<1> HIDE DEF a, b, x, G
<1>5. Alike(t, a) /\ (Len(t) >= Len(a) => Alike(Rest(t, Len(a)), b)) /\ a \o b \in Strings
  BY <1>2, AlikeParts, Joins
<1>6. RecvPair(RecvString, RecvString, t) = IF Len(t) < Len(a) THEN {} ELSE G(x, Rest(t, Len(a)))
  <2>1. CASE Len(t) < Len(a)
    <3>1. RecvString(t) = {}
      BY <1>2, <1>4, <1>5, <2>1, ReadCases
    <3> QED
      BY <1>1, <2>1, <3>1
  <2>2. CASE Len(t) >= Len(a)
    <3>1. RecvString(t) = {<<x, Rest(t, Len(a))>>}
      BY <1>2, <1>4, <1>5, <2>2, ReadCases
    <3> QED
      BY <1>1, <1>2, <2>2, <3>1
  <2> QED
    BY <1>2, <2>1, <2>2
<1>7. Read(<<dir, name>>, a \o b, t) =
        IF Len(t) < Len(a)
        THEN {}
        ELSE Read(<<dir, name>>, b, Rest(t, Len(a)))
  BY <1>2, TwoParts
<1>8. Len(t) >= Len(a) => Rest(t, Len(a)) \in Strings
  BY <1>2, RestProps
<1>9. RecvPair(RecvString, RecvString, t) = Read(<<dir, name>>, a \o b, t)
  <2>1. CASE Len(t) < Len(a)
    BY <1>6, <1>7, <2>1
  <2>2. CASE Len(t) >= Len(a)
    <3>1. G(x, Rest(t, Len(a))) = Read(<<dir, name>>, b, Rest(t, Len(a)))
      BY <1>3, <1>5, <1>8, <2>2
    <3> QED
      BY <1>2, <1>6, <1>7, <2>2, <3>1
  <2> QED
    BY <1>2, <2>1, <2>2
<1> QED
  BY <1>2, <1>5, <1>9

\* A request for a listing is read as it was sent.
LEMMA GetDentsRead ==
  ASSUME NEW dir \in Strings, NEW t \in Strings, Alike(t, SendRequest(Request("GetDents", dir, <<>>)))
  PROVE  /\ SendRequest(Request("GetDents", dir, <<>>)) \in Strings
         /\ RecvRequest(t) =
              Read(Request("GetDents", dir, <<>>), SendRequest(Request("GetDents", dir, <<>>)), t)
<1> DEFINE first == 0
           a == SendPod(0)
           b == SendString(dir)
           x == first
           G(y, r) == CASE y = 0 -> Then(RecvString(r), LAMBDA e, rest :
                                           Got(Request("GetDents", e, <<>>), rest))
                        [] y = 1 -> Then(RecvRemoteDentries(r), LAMBDA e, rest :
                                           Got(Request("Delete", e.basedir, e.dentries), rest))
                        [] y = 2 -> Then(RecvPair(RecvString, RecvString, r), LAMBDA e, rest :
                                           Got(Request("Mkdir", e[1], <<e[2]>>), rest))
<1>1. RecvRequest(t) = UNION {G(p[1], p[2]) : p \in RecvPod(t)}
  BY DEF RecvRequest, Then
<1>2. /\ SendRequest(Request("GetDents", dir, <<>>)) = a \o b
      /\ a \in Strings
      /\ b \in Strings
      /\ Len(a) \in Nat
      /\ Len(t) \in Nat
  BY Joins DEF SendRequest, Request
<1>3. ASSUME NEW r \in Strings, Alike(r, b)
      PROVE  G(x, r) = Read(Request("GetDents", dir, <<>>), b, r)
  <2> DEFINE z == dir
             K(q) == Got(Request("GetDents", q[1], <<>>), q[2])
  <2>1. G(x, r) = UNION {K(q) : q \in RecvString(r)}
    BY DEF Then
  <2>2. RecvString(r) = Read(z, b, r)
    BY <1>3, StringRead
  <2>3. b \in Strings /\ Len(b) \in Nat /\ Len(r) \in Nat
    BY <1>2, Joins
  <2>4. K(<<z, Rest(r, Len(b))>>) = {<<Request("GetDents", dir, <<>>), Rest(r, Len(b))>>}
    BY DEF Got
  <2> HIDE DEF K, z, G, b, x
  <2>5. CASE Len(r) < Len(b)
    <3>1. RecvString(r) = {} /\ Read(Request("GetDents", dir, <<>>), b, r) = {}
      BY <2>2, <2>3, <2>5, ReadCases
    <3> QED
      BY <2>1, <3>1
  <2>6. CASE Len(r) >= Len(b)
    <3>1. /\ RecvString(r) = {<<z, Rest(r, Len(b))>>}
          /\ Read(Request("GetDents", dir, <<>>), b, r) =
               {<<Request("GetDents", dir, <<>>), Rest(r, Len(b))>>}
      BY <2>2, <2>3, <2>6, ReadCases
    <3> QED
      BY <2>1, <2>4, <3>1
  <2> QED
    BY <2>3, <2>5, <2>6
<1>4. Alike(t, a) => RecvPod(t) = Read(x, a, t)
  BY PodRead
<1> HIDE DEF a, b, x, G
<1>5. Alike(t, a) /\ (Len(t) >= Len(a) => Alike(Rest(t, Len(a)), b)) /\ a \o b \in Strings
  BY <1>2, AlikeParts, Joins
<1>6. RecvRequest(t) = IF Len(t) < Len(a) THEN {} ELSE G(x, Rest(t, Len(a)))
  <2>1. CASE Len(t) < Len(a)
    <3>1. RecvPod(t) = {}
      BY <1>2, <1>4, <1>5, <2>1, ReadCases
    <3> QED
      BY <1>1, <2>1, <3>1
  <2>2. CASE Len(t) >= Len(a)
    <3>1. RecvPod(t) = {<<x, Rest(t, Len(a))>>}
      BY <1>2, <1>4, <1>5, <2>2, ReadCases
    <3> QED
      BY <1>1, <1>2, <2>2, <3>1
  <2> QED
    BY <1>2, <2>1, <2>2
<1>7. Read(Request("GetDents", dir, <<>>), a \o b, t) =
        IF Len(t) < Len(a)
        THEN {}
        ELSE Read(Request("GetDents", dir, <<>>), b, Rest(t, Len(a)))
  BY <1>2, TwoParts
<1>8. Len(t) >= Len(a) => Rest(t, Len(a)) \in Strings
  BY <1>2, RestProps
<1>9. RecvRequest(t) = Read(Request("GetDents", dir, <<>>), a \o b, t)
  <2>1. CASE Len(t) < Len(a)
    BY <1>6, <1>7, <2>1
  <2>2. CASE Len(t) >= Len(a)
    <3>1. G(x, Rest(t, Len(a))) = Read(Request("GetDents", dir, <<>>), b, Rest(t, Len(a)))
      BY <1>3, <1>5, <1>8, <2>2
    <3> QED
      BY <1>2, <1>6, <1>7, <2>2, <3>1
  <2> QED
    BY <1>2, <2>1, <2>2
<1> QED
  BY <1>2, <1>5, <1>9

\* A request to delete is read as it was sent.
LEMMA DeleteRead ==
  ASSUME NEW dir \in Strings, NEW names \in Seq(Strings), NEW t \in Strings,
         Alike(t, SendRequest(Request("Delete", dir, names)))
  PROVE  /\ SendRequest(Request("Delete", dir, names)) \in Strings
         /\ RecvRequest(t) =
              Read(Request("Delete", dir, names), SendRequest(Request("Delete", dir, names)), t)
<1> DEFINE first == 1
           a == SendPod(1)
           b == SendRemoteDentries(E(0, dir, names))
           x == first
           G(y, r) == CASE y = 0 -> Then(RecvString(r), LAMBDA e, rest :
                                           Got(Request("GetDents", e, <<>>), rest))
                        [] y = 1 -> Then(RecvRemoteDentries(r), LAMBDA e, rest :
                                           Got(Request("Delete", e.basedir, e.dentries), rest))
                        [] y = 2 -> Then(RecvPair(RecvString, RecvString, r), LAMBDA e, rest :
                                           Got(Request("Mkdir", e[1], <<e[2]>>), rest))
<1>1. RecvRequest(t) = UNION {G(p[1], p[2]) : p \in RecvPod(t)}
  BY DEF RecvRequest, Then
<1>2. /\ SendRequest(Request("Delete", dir, names)) = a \o b
      /\ a \in Strings
      /\ b \in Strings
      /\ Len(a) \in Nat
      /\ Len(t) \in Nat
  <2>1. SendRemoteDentries(E(0, dir, names)) \in Strings
    <3>1. <<>> \in Strings /\ Alike(<<>>, SendRemoteDentries(E(0, dir, names)))
      BY DEF Strings, Alike
    <3> QED
      BY <3>1, RemoteDentriesRead
  <2>2. SendRequest(Request("Delete", dir, names)) = SendPod(1) \o SendRemoteDentries(E(0, dir, names))
    BY DEF SendRequest, Request, SendRemoteDentries, E
  <2> QED
    BY <2>1, <2>2, Joins
<1>3. ASSUME NEW r \in Strings, Alike(r, b)
      PROVE  G(x, r) = Read(Request("Delete", dir, names), b, r)
  <2> DEFINE z == E(0, dir, names)
             K(q) == Got(Request("Delete", q[1].basedir, q[1].dentries), q[2])
  <2>1. G(x, r) = UNION {K(q) : q \in RecvRemoteDentries(r)}
    BY DEF Then
  <2>2. RecvRemoteDentries(r) = Read(z, b, r)
    BY <1>3, RemoteDentriesRead
  <2>3. b \in Strings /\ Len(b) \in Nat /\ Len(r) \in Nat
    BY <1>2, Joins
  <2>4. K(<<z, Rest(r, Len(b))>>) = {<<Request("Delete", dir, names), Rest(r, Len(b))>>}
    BY DEF Got, E
  <2> HIDE DEF K, z, G, b, x
  <2>5. CASE Len(r) < Len(b)
    <3>1. RecvRemoteDentries(r) = {} /\ Read(Request("Delete", dir, names), b, r) = {}
      BY <2>2, <2>3, <2>5, ReadCases
    <3> QED
      BY <2>1, <3>1
  <2>6. CASE Len(r) >= Len(b)
    <3>1. /\ RecvRemoteDentries(r) = {<<z, Rest(r, Len(b))>>}
          /\ Read(Request("Delete", dir, names), b, r) =
               {<<Request("Delete", dir, names), Rest(r, Len(b))>>}
      BY <2>2, <2>3, <2>6, ReadCases
    <3> QED
      BY <2>1, <2>4, <3>1
  <2> QED
    BY <2>3, <2>5, <2>6
<1>4. Alike(t, a) => RecvPod(t) = Read(x, a, t)
  BY PodRead
<1> HIDE DEF a, b, x, G
<1>5. Alike(t, a) /\ (Len(t) >= Len(a) => Alike(Rest(t, Len(a)), b)) /\ a \o b \in Strings
  BY <1>2, AlikeParts, Joins
<1>6. RecvRequest(t) = IF Len(t) < Len(a) THEN {} ELSE G(x, Rest(t, Len(a)))
  <2>1. CASE Len(t) < Len(a)
    <3>1. RecvPod(t) = {}
      BY <1>2, <1>4, <1>5, <2>1, ReadCases
    <3> QED
      BY <1>1, <2>1, <3>1
  <2>2. CASE Len(t) >= Len(a)
    <3>1. RecvPod(t) = {<<x, Rest(t, Len(a))>>}
      BY <1>2, <1>4, <1>5, <2>2, ReadCases
    <3> QED
      BY <1>1, <1>2, <2>2, <3>1
  <2> QED
    BY <1>2, <2>1, <2>2
<1>7. Read(Request("Delete", dir, names), a \o b, t) =
        IF Len(t) < Len(a)
        THEN {}
        ELSE Read(Request("Delete", dir, names), b, Rest(t, Len(a)))
  BY <1>2, TwoParts
<1>8. Len(t) >= Len(a) => Rest(t, Len(a)) \in Strings
  BY <1>2, RestProps
<1>9. RecvRequest(t) = Read(Request("Delete", dir, names), a \o b, t)
  <2>1. CASE Len(t) < Len(a)
    BY <1>6, <1>7, <2>1
  <2>2. CASE Len(t) >= Len(a)
    <3>1. G(x, Rest(t, Len(a))) = Read(Request("Delete", dir, names), b, Rest(t, Len(a)))
      BY <1>3, <1>5, <1>8, <2>2
    <3> QED
      BY <1>2, <1>6, <1>7, <2>2, <3>1
  <2> QED
    BY <1>2, <2>1, <2>2
<1> QED
  BY <1>2, <1>5, <1>9

\* A request to create a directory is read as it was sent.
LEMMA MkdirRead ==
  ASSUME NEW dir \in Strings, NEW name \in Strings, NEW t \in Strings,
         Alike(t, SendRequest(Request("Mkdir", dir, <<name>>)))
  PROVE  /\ SendRequest(Request("Mkdir", dir, <<name>>)) \in Strings
         /\ RecvRequest(t) =
              Read(Request("Mkdir", dir, <<name>>),
                   SendRequest(Request("Mkdir", dir, <<name>>)), t)
<1> DEFINE first == 2
           a == SendPod(2)
           b == SendPair(SendString, SendString, <<dir, name>>)
           x == first
           G(y, r) == CASE y = 0 -> Then(RecvString(r), LAMBDA e, rest :
                                           Got(Request("GetDents", e, <<>>), rest))
                        [] y = 1 -> Then(RecvRemoteDentries(r), LAMBDA e, rest :
                                           Got(Request("Delete", e.basedir, e.dentries), rest))
                        [] y = 2 -> Then(RecvPair(RecvString, RecvString, r), LAMBDA e, rest :
                                           Got(Request("Mkdir", e[1], <<e[2]>>), rest))
<1>1. RecvRequest(t) = UNION {G(p[1], p[2]) : p \in RecvPod(t)}
  BY DEF RecvRequest, Then
<1>2. /\ SendRequest(Request("Mkdir", dir, <<name>>)) = a \o b
      /\ a \in Strings
      /\ b \in Strings
      /\ Len(a) \in Nat
      /\ Len(t) \in Nat
  <2>1. SendPair(SendString, SendString, <<dir, name>>) \in Strings
    BY Joins DEF SendPair
  <2>2. SendRequest(Request("Mkdir", dir, <<name>>)) =
          SendPod(2) \o SendPair(SendString, SendString, <<dir, name>>)
    BY DEF SendRequest, Request
  <2> QED
    BY <2>1, <2>2, Joins
<1>3. ASSUME NEW r \in Strings, Alike(r, b)
      PROVE  G(x, r) = Read(Request("Mkdir", dir, <<name>>), b, r)
  <2> DEFINE z == <<dir, name>>
             K(q) == Got(Request("Mkdir", q[1][1], <<q[1][2]>>), q[2])
  <2>1. G(x, r) = UNION {K(q) : q \in RecvPair(RecvString, RecvString, r)}
    BY DEF Then
  <2>2. RecvPair(RecvString, RecvString, r) = Read(z, b, r)
    BY <1>3, TextPairRead
  <2>3. b \in Strings /\ Len(b) \in Nat /\ Len(r) \in Nat
    BY <1>2, Joins
  <2>4. K(<<z, Rest(r, Len(b))>>) = {<<Request("Mkdir", dir, <<name>>), Rest(r, Len(b))>>}
    BY DEF Got
  <2> HIDE DEF K, z, G, b, x
  <2>5. CASE Len(r) < Len(b)
    <3>1. RecvPair(RecvString, RecvString, r) = {} /\ Read(Request("Mkdir", dir, <<name>>), b, r) = {}
      BY <2>2, <2>3, <2>5, ReadCases
    <3> QED
      BY <2>1, <3>1
  <2>6. CASE Len(r) >= Len(b)
    <3>1. /\ RecvPair(RecvString, RecvString, r) = {<<z, Rest(r, Len(b))>>}
          /\ Read(Request("Mkdir", dir, <<name>>), b, r) =
               {<<Request("Mkdir", dir, <<name>>), Rest(r, Len(b))>>}
      BY <2>2, <2>3, <2>6, ReadCases
    <3> QED
      BY <2>1, <2>4, <3>1
  <2> QED
    BY <2>3, <2>5, <2>6
<1>4. Alike(t, a) => RecvPod(t) = Read(x, a, t)
  BY PodRead
<1> HIDE DEF a, b, x, G
<1>5. Alike(t, a) /\ (Len(t) >= Len(a) => Alike(Rest(t, Len(a)), b)) /\ a \o b \in Strings
  BY <1>2, AlikeParts, Joins
<1>6. RecvRequest(t) = IF Len(t) < Len(a) THEN {} ELSE G(x, Rest(t, Len(a)))
  <2>1. CASE Len(t) < Len(a)
    <3>1. RecvPod(t) = {}
      BY <1>2, <1>4, <1>5, <2>1, ReadCases
    <3> QED
      BY <1>1, <2>1, <3>1
  <2>2. CASE Len(t) >= Len(a)
    <3>1. RecvPod(t) = {<<x, Rest(t, Len(a))>>}
      BY <1>2, <1>4, <1>5, <2>2, ReadCases
    <3> QED
      BY <1>1, <1>2, <2>2, <3>1
  <2> QED
    BY <1>2, <2>1, <2>2
<1>7. Read(Request("Mkdir", dir, <<name>>), a \o b, t) =
        IF Len(t) < Len(a)
        THEN {}
        ELSE Read(Request("Mkdir", dir, <<name>>), b, Rest(t, Len(a)))
  BY <1>2, TwoParts
<1>8. Len(t) >= Len(a) => Rest(t, Len(a)) \in Strings
  BY <1>2, RestProps
<1>9. RecvRequest(t) = Read(Request("Mkdir", dir, <<name>>), a \o b, t)
  <2>1. CASE Len(t) < Len(a)
    BY <1>6, <1>7, <2>1
  <2>2. CASE Len(t) >= Len(a)
    <3>1. G(x, Rest(t, Len(a))) = Read(Request("Mkdir", dir, <<name>>), b, Rest(t, Len(a)))
      BY <1>3, <1>5, <1>8, <2>2
    <3> QED
      BY <1>2, <1>6, <1>7, <2>2, <3>1
  <2> QED
    BY <1>2, <2>1, <2>2
<1> QED
  BY <1>2, <1>5, <1>9

\* The host reads the request the pane sent (client.cpp, incoming_msg of the host),
\* whatever else has arrived, and has none while a number of it is missing.
THEOREM RequestRead ==
  ASSUME NEW q, IsRequest(q), NEW t \in Strings, Alike(t, SendRequest(q))
  PROVE  SendRequest(q) \in Strings /\ RecvRequest(t) = Read(q, SendRequest(q), t)
<1>1. q.basedir \in Strings /\ q.dentries \in Seq(Strings) /\ q = Request(q.type, q.basedir, q.dentries)
  BY DEF IsRequest, Requests, Request
<1>2. CASE q.type = "GetDents"
  <2>1. q = Request("GetDents", q.basedir, <<>>)
    BY <1>1, <1>2 DEF IsRequest
  <2> QED
    BY <1>1, <2>1, GetDentsRead
<1>3. CASE q.type = "Delete"
  BY <1>1, <1>3, DeleteRead
<1>4. CASE q.type = "Mkdir"
  <2>1. q.dentries[1] \in Strings /\ q.dentries = <<q.dentries[1]>>
    BY <1>1, <1>4 DEF IsRequest
  <2>2. q = Request("Mkdir", q.basedir, <<q.dentries[1]>>)
    BY <1>1, <1>4, <2>1
  <2> QED
    BY <1>1, <2>1, <2>2, MkdirRead
<1> QED
  BY <1>2, <1>3, <1>4 DEF IsRequest, Requests

\* A listing is read as it was sent.
LEMMA ListingRead ==
  ASSUME NEW dir \in Strings, NEW o \in Optionals, NEW t \in Strings,
         Alike(t, SendAnswer(Listing(dir, o)))
  PROVE  /\ SendAnswer(Listing(dir, o)) \in Strings
         /\ RecvAnswer(t) = Read(Listing(dir, o), SendAnswer(Listing(dir, o)), t)
<1> DEFINE first == 0
           a == SendPod(0)
           b == SendPathDents(<<dir, o>>)
           x == first
           G(y, r) == CASE y = 0 -> Then(RecvPathDents(r), LAMBDA e, rest :
                                           Got(Listing(e[1], e[2]), rest))
                        [] y = 1 -> Then(RecvString(r), LAMBDA e, rest :
                                           Got(Text("DeleteResponse", e), rest))
                        [] y = 2 -> Then(RecvString(r), LAMBDA e, rest :
                                           Got(Text("MkdirResponse", e), rest))
<1>1. RecvAnswer(t) = UNION {G(p[1], p[2]) : p \in RecvPod(t)}
  BY DEF RecvAnswer, Then
<1>2. /\ SendAnswer(Listing(dir, o)) = a \o b
      /\ a \in Strings
      /\ b \in Strings
      /\ Len(a) \in Nat
      /\ Len(t) \in Nat
  <2>1. SendPathDents(<<dir, o>>) \in Strings
    <3>1. <<>> \in Strings /\ Alike(<<>>, SendPathDents(<<dir, o>>))
      BY DEF Strings, Alike
    <3> QED
      BY <3>1, PathDentsRead
  <2>2. SendAnswer(Listing(dir, o)) = SendPod(0) \o SendPathDents(<<dir, o>>)
    BY DEF SendAnswer, Listing
  <2> QED
    BY <2>1, <2>2, Joins
<1>3. ASSUME NEW r \in Strings, Alike(r, b)
      PROVE  G(x, r) = Read(Listing(dir, o), b, r)
  <2> DEFINE z == <<dir, o>>
             K(q) == Got(Listing(q[1][1], q[1][2]), q[2])
  <2>1. G(x, r) = UNION {K(q) : q \in RecvPathDents(r)}
    BY DEF Then
  <2>2. RecvPathDents(r) = Read(z, b, r)
    BY <1>3, PathDentsRead
  <2>3. b \in Strings /\ Len(b) \in Nat /\ Len(r) \in Nat
    BY <1>2, Joins
  <2>4. K(<<z, Rest(r, Len(b))>>) = {<<Listing(dir, o), Rest(r, Len(b))>>}
    BY DEF Got
  <2> HIDE DEF K, z, G, b, x
  <2>5. CASE Len(r) < Len(b)
    <3>1. RecvPathDents(r) = {} /\ Read(Listing(dir, o), b, r) = {}
      BY <2>2, <2>3, <2>5, ReadCases
    <3> QED
      BY <2>1, <3>1
  <2>6. CASE Len(r) >= Len(b)
    <3>1. /\ RecvPathDents(r) = {<<z, Rest(r, Len(b))>>}
          /\ Read(Listing(dir, o), b, r) = {<<Listing(dir, o), Rest(r, Len(b))>>}
      BY <2>2, <2>3, <2>6, ReadCases
    <3> QED
      BY <2>1, <2>4, <3>1
  <2> QED
    BY <2>3, <2>5, <2>6
<1>4. Alike(t, a) => RecvPod(t) = Read(x, a, t)
  BY PodRead
<1> HIDE DEF a, b, x, G
<1>5. Alike(t, a) /\ (Len(t) >= Len(a) => Alike(Rest(t, Len(a)), b)) /\ a \o b \in Strings
  BY <1>2, AlikeParts, Joins
<1>6. RecvAnswer(t) = IF Len(t) < Len(a) THEN {} ELSE G(x, Rest(t, Len(a)))
  <2>1. CASE Len(t) < Len(a)
    <3>1. RecvPod(t) = {}
      BY <1>2, <1>4, <1>5, <2>1, ReadCases
    <3> QED
      BY <1>1, <2>1, <3>1
  <2>2. CASE Len(t) >= Len(a)
    <3>1. RecvPod(t) = {<<x, Rest(t, Len(a))>>}
      BY <1>2, <1>4, <1>5, <2>2, ReadCases
    <3> QED
      BY <1>1, <1>2, <2>2, <3>1
  <2> QED
    BY <1>2, <2>1, <2>2
<1>7. Read(Listing(dir, o), a \o b, t) =
        IF Len(t) < Len(a)
        THEN {}
        ELSE Read(Listing(dir, o), b, Rest(t, Len(a)))
  BY <1>2, TwoParts
<1>8. Len(t) >= Len(a) => Rest(t, Len(a)) \in Strings
  BY <1>2, RestProps
<1>9. RecvAnswer(t) = Read(Listing(dir, o), a \o b, t)
  <2>1. CASE Len(t) < Len(a)
    BY <1>6, <1>7, <2>1
  <2>2. CASE Len(t) >= Len(a)
    <3>1. G(x, Rest(t, Len(a))) = Read(Listing(dir, o), b, Rest(t, Len(a)))
      BY <1>3, <1>5, <1>8, <2>2
    <3> QED
      BY <1>2, <1>6, <1>7, <2>2, <3>1
  <2> QED
    BY <1>2, <2>1, <2>2
<1> QED
  BY <1>2, <1>5, <1>9

\* The answer to a deletion is read as it was sent.
LEMMA DeleteResponseRead ==
  ASSUME NEW text \in Strings, NEW t \in Strings, Alike(t, SendAnswer(Text("DeleteResponse", text)))
  PROVE  /\ SendAnswer(Text("DeleteResponse", text)) \in Strings
         /\ RecvAnswer(t) =
              Read(Text("DeleteResponse", text), SendAnswer(Text("DeleteResponse", text)), t)
<1> DEFINE first == 1
           a == SendPod(1)
           b == SendString(text)
           x == first
           G(y, r) == CASE y = 0 -> Then(RecvPathDents(r), LAMBDA e, rest :
                                           Got(Listing(e[1], e[2]), rest))
                        [] y = 1 -> Then(RecvString(r), LAMBDA e, rest :
                                           Got(Text("DeleteResponse", e), rest))
                        [] y = 2 -> Then(RecvString(r), LAMBDA e, rest :
                                           Got(Text("MkdirResponse", e), rest))
<1>1. RecvAnswer(t) = UNION {G(p[1], p[2]) : p \in RecvPod(t)}
  BY DEF RecvAnswer, Then
<1>2. /\ SendAnswer(Text("DeleteResponse", text)) = a \o b
      /\ a \in Strings
      /\ b \in Strings
      /\ Len(a) \in Nat
      /\ Len(t) \in Nat
  BY Joins DEF SendAnswer, Text
<1>3. ASSUME NEW r \in Strings, Alike(r, b)
      PROVE  G(x, r) = Read(Text("DeleteResponse", text), b, r)
  <2> DEFINE z == text
             K(q) == Got(Text("DeleteResponse", q[1]), q[2])
  <2>1. G(x, r) = UNION {K(q) : q \in RecvString(r)}
    BY DEF Then
  <2>2. RecvString(r) = Read(z, b, r)
    BY <1>3, StringRead
  <2>3. b \in Strings /\ Len(b) \in Nat /\ Len(r) \in Nat
    BY <1>2, Joins
  <2>4. K(<<z, Rest(r, Len(b))>>) = {<<Text("DeleteResponse", text), Rest(r, Len(b))>>}
    BY DEF Got
  <2> HIDE DEF K, z, G, b, x
  <2>5. CASE Len(r) < Len(b)
    <3>1. RecvString(r) = {} /\ Read(Text("DeleteResponse", text), b, r) = {}
      BY <2>2, <2>3, <2>5, ReadCases
    <3> QED
      BY <2>1, <3>1
  <2>6. CASE Len(r) >= Len(b)
    <3>1. /\ RecvString(r) = {<<z, Rest(r, Len(b))>>}
          /\ Read(Text("DeleteResponse", text), b, r) =
               {<<Text("DeleteResponse", text), Rest(r, Len(b))>>}
      BY <2>2, <2>3, <2>6, ReadCases
    <3> QED
      BY <2>1, <2>4, <3>1
  <2> QED
    BY <2>3, <2>5, <2>6
<1>4. Alike(t, a) => RecvPod(t) = Read(x, a, t)
  BY PodRead
<1> HIDE DEF a, b, x, G
<1>5. Alike(t, a) /\ (Len(t) >= Len(a) => Alike(Rest(t, Len(a)), b)) /\ a \o b \in Strings
  BY <1>2, AlikeParts, Joins
<1>6. RecvAnswer(t) = IF Len(t) < Len(a) THEN {} ELSE G(x, Rest(t, Len(a)))
  <2>1. CASE Len(t) < Len(a)
    <3>1. RecvPod(t) = {}
      BY <1>2, <1>4, <1>5, <2>1, ReadCases
    <3> QED
      BY <1>1, <2>1, <3>1
  <2>2. CASE Len(t) >= Len(a)
    <3>1. RecvPod(t) = {<<x, Rest(t, Len(a))>>}
      BY <1>2, <1>4, <1>5, <2>2, ReadCases
    <3> QED
      BY <1>1, <1>2, <2>2, <3>1
  <2> QED
    BY <1>2, <2>1, <2>2
<1>7. Read(Text("DeleteResponse", text), a \o b, t) =
        IF Len(t) < Len(a)
        THEN {}
        ELSE Read(Text("DeleteResponse", text), b, Rest(t, Len(a)))
  BY <1>2, TwoParts
<1>8. Len(t) >= Len(a) => Rest(t, Len(a)) \in Strings
  BY <1>2, RestProps
<1>9. RecvAnswer(t) = Read(Text("DeleteResponse", text), a \o b, t)
  <2>1. CASE Len(t) < Len(a)
    BY <1>6, <1>7, <2>1
  <2>2. CASE Len(t) >= Len(a)
    <3>1. G(x, Rest(t, Len(a))) = Read(Text("DeleteResponse", text), b, Rest(t, Len(a)))
      BY <1>3, <1>5, <1>8, <2>2
    <3> QED
      BY <1>2, <1>6, <1>7, <2>2, <3>1
  <2> QED
    BY <1>2, <2>1, <2>2
<1> QED
  BY <1>2, <1>5, <1>9

\* The answer to the creation of a directory is read as it was sent.
LEMMA MkdirResponseRead ==
  ASSUME NEW text \in Strings, NEW t \in Strings, Alike(t, SendAnswer(Text("MkdirResponse", text)))
  PROVE  /\ SendAnswer(Text("MkdirResponse", text)) \in Strings
         /\ RecvAnswer(t) =
              Read(Text("MkdirResponse", text), SendAnswer(Text("MkdirResponse", text)), t)
<1> DEFINE first == 2
           a == SendPod(2)
           b == SendString(text)
           x == first
           G(y, r) == CASE y = 0 -> Then(RecvPathDents(r), LAMBDA e, rest :
                                           Got(Listing(e[1], e[2]), rest))
                        [] y = 1 -> Then(RecvString(r), LAMBDA e, rest :
                                           Got(Text("DeleteResponse", e), rest))
                        [] y = 2 -> Then(RecvString(r), LAMBDA e, rest :
                                           Got(Text("MkdirResponse", e), rest))
<1>1. RecvAnswer(t) = UNION {G(p[1], p[2]) : p \in RecvPod(t)}
  BY DEF RecvAnswer, Then
<1>2. /\ SendAnswer(Text("MkdirResponse", text)) = a \o b
      /\ a \in Strings
      /\ b \in Strings
      /\ Len(a) \in Nat
      /\ Len(t) \in Nat
  BY Joins DEF SendAnswer, Text
<1>3. ASSUME NEW r \in Strings, Alike(r, b)
      PROVE  G(x, r) = Read(Text("MkdirResponse", text), b, r)
  <2> DEFINE z == text
             K(q) == Got(Text("MkdirResponse", q[1]), q[2])
  <2>1. G(x, r) = UNION {K(q) : q \in RecvString(r)}
    BY DEF Then
  <2>2. RecvString(r) = Read(z, b, r)
    BY <1>3, StringRead
  <2>3. b \in Strings /\ Len(b) \in Nat /\ Len(r) \in Nat
    BY <1>2, Joins
  <2>4. K(<<z, Rest(r, Len(b))>>) = {<<Text("MkdirResponse", text), Rest(r, Len(b))>>}
    BY DEF Got
  <2> HIDE DEF K, z, G, b, x
  <2>5. CASE Len(r) < Len(b)
    <3>1. RecvString(r) = {} /\ Read(Text("MkdirResponse", text), b, r) = {}
      BY <2>2, <2>3, <2>5, ReadCases
    <3> QED
      BY <2>1, <3>1
  <2>6. CASE Len(r) >= Len(b)
    <3>1. /\ RecvString(r) = {<<z, Rest(r, Len(b))>>}
          /\ Read(Text("MkdirResponse", text), b, r) =
               {<<Text("MkdirResponse", text), Rest(r, Len(b))>>}
      BY <2>2, <2>3, <2>6, ReadCases
    <3> QED
      BY <2>1, <2>4, <3>1
  <2> QED
    BY <2>3, <2>5, <2>6
<1>4. Alike(t, a) => RecvPod(t) = Read(x, a, t)
  BY PodRead
<1> HIDE DEF a, b, x, G
<1>5. Alike(t, a) /\ (Len(t) >= Len(a) => Alike(Rest(t, Len(a)), b)) /\ a \o b \in Strings
  BY <1>2, AlikeParts, Joins
<1>6. RecvAnswer(t) = IF Len(t) < Len(a) THEN {} ELSE G(x, Rest(t, Len(a)))
  <2>1. CASE Len(t) < Len(a)
    <3>1. RecvPod(t) = {}
      BY <1>2, <1>4, <1>5, <2>1, ReadCases
    <3> QED
      BY <1>1, <2>1, <3>1
  <2>2. CASE Len(t) >= Len(a)
    <3>1. RecvPod(t) = {<<x, Rest(t, Len(a))>>}
      BY <1>2, <1>4, <1>5, <2>2, ReadCases
    <3> QED
      BY <1>1, <1>2, <2>2, <3>1
  <2> QED
    BY <1>2, <2>1, <2>2
<1>7. Read(Text("MkdirResponse", text), a \o b, t) =
        IF Len(t) < Len(a)
        THEN {}
        ELSE Read(Text("MkdirResponse", text), b, Rest(t, Len(a)))
  BY <1>2, TwoParts
<1>8. Len(t) >= Len(a) => Rest(t, Len(a)) \in Strings
  BY <1>2, RestProps
<1>9. RecvAnswer(t) = Read(Text("MkdirResponse", text), a \o b, t)
  <2>1. CASE Len(t) < Len(a)
    BY <1>6, <1>7, <2>1
  <2>2. CASE Len(t) >= Len(a)
    <3>1. G(x, Rest(t, Len(a))) = Read(Text("MkdirResponse", text), b, Rest(t, Len(a)))
      BY <1>3, <1>5, <1>8, <2>2
    <3> QED
      BY <1>2, <1>6, <1>7, <2>2, <3>1
  <2> QED
    BY <1>2, <2>1, <2>2
<1> QED
  BY <1>2, <1>5, <1>9

\* What the host can answer.
AnswerType == [type : {"PathDents", "DeleteResponse", "MkdirResponse"}, dir : Strings,
               dents : Optionals, text : Strings]
IsAnswer(a) == /\ a \in AnswerType
               /\ a.type = "PathDents" => a.text = <<>>
               /\ a.type # "PathDents" => a.dir = <<>> /\ a.dents = <<>>

\* The pane reads the answer the host sent (client.cpp, incoming_msg of the reader),
\* whatever else has arrived, and has none while a number of it is missing.
THEOREM AnswerRead ==
  ASSUME NEW a, IsAnswer(a), NEW t \in Strings, Alike(t, SendAnswer(a))
  PROVE  SendAnswer(a) \in Strings /\ RecvAnswer(t) = Read(a, SendAnswer(a), t)
<1>1. a.dir \in Strings /\ a.dents \in Optionals /\ a.text \in Strings
  BY DEF IsAnswer, AnswerType
<1>2. CASE a.type = "PathDents"
  <2>1. a = Listing(a.dir, a.dents)
    BY <1>2 DEF IsAnswer, AnswerType, Listing
  <2> QED
    BY <1>1, <2>1, ListingRead
<1>3. CASE a.type = "DeleteResponse"
  <2>1. a = Text("DeleteResponse", a.text)
    BY <1>3 DEF IsAnswer, AnswerType, Text
  <2> QED
    BY <1>1, <2>1, DeleteResponseRead
<1>4. CASE a.type = "MkdirResponse"
  <2>1. a = Text("MkdirResponse", a.text)
    BY <1>4 DEF IsAnswer, AnswerType, Text
  <2> QED
    BY <1>1, <2>1, MkdirResponseRead
<1> QED
  BY <1>2, <1>3, <1>4 DEF IsAnswer, AnswerType

-----------------------------------------------------------------------------
\* The host's files.

\* A finite set has a sequence of its members.
LEMMA SetToSeqTyped ==
  ASSUME NEW S, IsFiniteSet(S)
  PROVE  SetToSeq(S) \in Seq(S)
<1>1. Cardinality(S) \in Nat /\ ExistsBijection(1..Cardinality(S), S)
  BY FS_CardinalityType
<1>2. \E f \in [1..Cardinality(S) -> S] : IsInjective(f)
  BY <1>1 DEF ExistsBijection, Bijection, Injection
<1>3. SetToSeq(S) \in [1..Cardinality(S) -> S]
  BY <1>2 DEF SetToSeq
<1> QED
  BY <1>1, <1>3

\* A number before a stream makes a stream.
LEMMA NumberJoins ==
  ASSUME NEW n \in Nat, NEW s \in Strings
  PROVE  <<n>> \o s \in Strings
<1>1. <<n>> \in Strings
  BY DEF Strings
<1> QED
  BY <1>1, Joins

\* A listing can be sent, and changes no file.
LEMMA GetDentsTyped ==
  ASSUME NEW r, IsRequest(r), NEW t, IsTree(t)
  PROVE  IsAnswer(GetDents(r, t)[1]) /\ GetDents(r, t)[2] = t
<1> DEFINE dir == Place(r)
           Entry(n) == [basename |-> n, metainfo |-> IF dir \o n \in DOMAIN t THEN 1 ELSE 0]
           S == {Entry(n) : n \in t[dir]}
           o == IF dir \in DOMAIN t THEN <<SetToSeq(S)>> ELSE <<>>
<1>1. GetDents(r, t) = <<Listing(r.basedir, o), t>>
  BY DEF GetDents
<1>2. o \in Optionals
  <2>1. CASE dir \in DOMAIN t
    <3>1. t[dir] \in SUBSET Strings /\ IsFiniteSet(t[dir])
      BY <2>1 DEF IsTree
    <3>2. IsFiniteSet(S)
      <4> DEFINE f == [n \in t[dir] |-> Entry(n)]
      <4>1. f \in Surjection(t[dir], S)
        <5> HIDE DEF Entry, dir
        <5> QED
          BY DEF Surjection
      <4> HIDE DEF f, S, dir
      <4> QED
        BY <3>1, <4>1, FS_Surjection
    <3>3. S \in SUBSET Dentries
      BY <3>1 DEF Dentries
    <3> HIDE DEF S, dir
    <3>4. SetToSeq(S) \in Seq(Dentries)
      <4>1. SetToSeq(S) \in Seq(S)
        BY <3>2, SetToSeqTyped
      <4> QED
        BY <3>3, <4>1
    <3> QED
      BY <2>1, <3>4 DEF Optionals
  <2>2. CASE dir \notin DOMAIN t
    BY <2>2 DEF Optionals
  <2> QED
    BY <2>1, <2>2
<1>3. r.basedir \in Strings /\ <<>> \in Strings
  BY DEF IsRequest, Requests, Strings
<1> HIDE DEF o
<1>4. IsAnswer(Listing(r.basedir, o))
  BY <1>2, <1>3 DEF IsAnswer, AnswerType, Listing
<1> QED
  BY <1>1, <1>4

\* remove_all counts what it removes, and leaves files.
LEMMA RemoveAllTyped ==
  ASSUME NEW dir \in Strings, NEW name \in Strings, NEW t, IsTree(t), Wide \in Nat \ {0}
  PROVE  RemoveAll(dir, name, t)[1] \in Nat /\ IsTree(RemoveAll(dir, name, t)[2])
<1> DEFINE gone == {p \in DOMAIN t : IsPrefix(dir \o name, p)}
           left == [p \in DOMAIN t \ gone |-> IF p = dir THEN t[p] \ {name} ELSE t[p]]
           parts == {{p} \X t[p] : p \in gone}
<1>1. RemoveAll(dir, name, t) = IF dir \notin DOMAIN t \/ name \notin t[dir] THEN <<0, t>>
                                ELSE IF name \in Locked THEN <<Wide - 1, t>>
                                ELSE <<1 + Cardinality(UNION parts), left>>
  BY DEF RemoveAll
<1>2. gone \in SUBSET DOMAIN t /\ IsFiniteSet(gone)
  <2>1. IsFiniteSet(DOMAIN t)
    BY DEF IsTree
  <2> QED
    BY <2>1, FS_Subset
<1> HIDE DEF gone
<1>3. IsFiniteSet(UNION parts)
  <2>1. IsFiniteSet(parts)
    <3> DEFINE f == [p \in gone |-> {p} \X t[p]]
    <3>1. f \in Surjection(gone, parts)
      BY DEF Surjection
    <3> HIDE DEF f, parts
    <3> QED
      BY <1>2, <3>1, FS_Surjection
  <2>2. ASSUME NEW T \in parts PROVE IsFiniteSet(T)
    <3>1. PICK p \in gone : T = {p} \X t[p]
      OBVIOUS
    <3>2. IsFiniteSet({p}) /\ IsFiniteSet(t[p])
      BY <1>2, FS_Singleton DEF IsTree
    <3> QED
      BY <3>1, <3>2, FS_Product
  <2> HIDE DEF parts
  <2> QED
    BY <2>1, <2>2, FS_UNION
<1>4. 1 + Cardinality(UNION parts) \in Nat
  <2> HIDE DEF parts
  <2>1. Cardinality(UNION parts) \in Nat
    BY <1>3, FS_CardinalityType
  <2> QED
    BY <2>1
<1>5. IsTree(left)
  <2>1. DOMAIN left = DOMAIN t \ gone
    OBVIOUS
  <2>2. IsFiniteSet(DOMAIN left) /\ DOMAIN left \subseteq Strings
    <3>1. IsFiniteSet(DOMAIN t) /\ DOMAIN t \subseteq Strings
      BY DEF IsTree
    <3> HIDE DEF left
    <3> QED
      BY <2>1, <3>1, FS_Difference
  <2>3. ASSUME NEW p \in DOMAIN left
        PROVE  left[p] \in SUBSET Strings /\ IsFiniteSet(left[p])
    <3>1. t[p] \in SUBSET Strings /\ IsFiniteSet(t[p]) /\ left[p] \in SUBSET t[p]
      BY <2>3 DEF IsTree
    <3> HIDE DEF left
    <3> QED
      BY <3>1, FS_Subset
  <2>4. left \in [DOMAIN left -> SUBSET Strings]
    BY <2>1, <2>3
  <2> HIDE DEF left
  <2> QED
    BY <2>2, <2>3, <2>4 DEF IsTree
<1> HIDE DEF left, parts
<1>6. Wide - 1 \in Nat
  OBVIOUS
<1> QED
  BY <1>1, <1>4, <1>5, <1>6

\* A deletion has an answer that can be sent, and leaves files.
LEMMA DeleteTyped ==
  ASSUME NEW r, IsRequest(r), NEW t, IsTree(t), Wide \in Nat \ {0}, Home \in Strings
  PROVE  IsAnswer(Delete(r, t)[1]) /\ IsTree(Delete(r, t)[2])
<1> DEFINE names == r.dentries
           L == Len(names)
           dir == Place(r)
           b == [left |-> t, removed |-> 0, errors |-> <<>>]
           One(a, name) == RemoveAll(dir, name, a.left)
           Step(a, name) ==
             [left |-> One(a, name)[2], removed |-> (a.removed + One(a, name)[1]) % Wide,
              errors |-> a.errors \o (IF One(a, name)[1] = Wide - 1 THEN name ELSE <<>>)]
           Runs(h) == h = [n \in 0..L |-> IF n = 0 THEN b ELSE Step(h[n - 1], names[n])]
           H == CHOOSE h : Runs(h)
           Trees == {u \in UNION {[A -> SUBSET Strings] : A \in SUBSET Strings} : IsTree(u)}
           D == [left : Trees, removed : Nat, errors : Strings]
           F == [n \in 1..L |-> [a \in D |-> Step(a, names[n])]]
<1>1. Delete(r, t) = <<Text("DeleteResponse", <<H[L].removed>> \o H[L].errors), H[L].left>>
  BY DEF Delete
<1>2. dir \in Strings /\ names \in Seq(Strings) /\ L \in Nat /\ \A n \in 1..L : names[n] \in Strings
  BY DEF Place, IsRequest, Requests
<1>3. \A u : IsTree(u) => u \in Trees
  <2>1. ASSUME NEW u, IsTree(u) PROVE u \in UNION {[A -> SUBSET Strings] : A \in SUBSET Strings}
    <3>1. DOMAIN u \in SUBSET Strings /\ u \in [DOMAIN u -> SUBSET Strings]
      BY <2>1 DEF IsTree
    <3> QED
      BY <3>1
  <2> QED
    BY <2>1
<1>4. \A u \in Trees : IsTree(u)
  OBVIOUS
<1> HIDE DEF Trees, names, L, dir
<1>5. b \in D
  BY <1>3 DEF Strings
<1>6. ASSUME NEW a \in D, NEW name \in Strings
      PROVE  Step(a, name) \in D
  <2>1. IsTree(a.left) /\ a.removed \in Nat /\ a.errors \in Strings
    BY <1>4
  <2>2. One(a, name)[1] \in Nat /\ IsTree(One(a, name)[2])
    BY <1>2, <2>1, RemoveAllTyped
  <2> DEFINE n1 == One(a, name)[1]
             e1 == IF n1 = Wide - 1 THEN name ELSE <<>>
  <2>3. (a.removed + n1) % Wide \in Nat
    <3> HIDE DEF One
    <3> QED
      BY <2>1, <2>2
  <2>4. e1 \in Strings
    BY DEF Strings
  <2> HIDE DEF e1, n1
  <2>5. a.errors \o e1 \in Strings
    BY <2>1, <2>4, Joins
  <2>6. Step(a, name) = [left |-> One(a, name)[2], removed |-> (a.removed + n1) % Wide,
                         errors |-> a.errors \o e1]
    BY DEF n1, e1
  <2> HIDE DEF One, Step
  <2> QED
    BY <1>3, <2>2, <2>3, <2>5, <2>6
<1> HIDE DEF Step, D, b
<1>7. F \in [1..L -> [D -> D]]
  BY <1>2, <1>6
<1>8. PICK f : Climbs(f, D, b, L, F)
  <2> HIDE DEF F
  <2> QED
    BY <1>2, <1>5, <1>7, StepsAddUp
<1>9. f \in [0..L -> D] /\ f[0] = b /\ \A k \in 1..L : f[k] = Step(f[k - 1], names[k])
  <2>1. f \in [0..L -> D] /\ f[0] = b /\ \A k \in 1..L : f[k] = F[k][f[k - 1]]
    BY <1>8 DEF Climbs
  <2>2. ASSUME NEW k \in 1..L PROVE f[k] = Step(f[k - 1], names[k])
    <3>1. k - 1 \in 0..L
      BY <1>2
    <3>2. f[k - 1] \in D
      BY <2>1, <3>1
    <3> QED
      BY <2>1, <3>2
  <2> QED
    BY <2>1, <2>2
<1> HIDE DEF F
<1>10. Runs(f)
  <2>1. \A k \in 0..L : k # 0 => k \in 1..L
    BY <1>2
  <2>2. \A k \in 0..L : f[k] = IF k = 0 THEN b ELSE Step(f[k - 1], names[k])
    BY <1>9, <2>1
  <2> QED
    BY <1>9, <2>2
<1>11. Runs(H)
  <2> HIDE DEF Runs
  <2> QED
    BY <1>10 DEF H
<1>12. H[0] = f[0] /\ \A k \in 1..L : H[k] = Step(H[k - 1], names[k])
  <2>1. 0 \in 0..L /\ \A k \in 1..L : k \in 0..L /\ k # 0
    BY <1>2
  <2> HIDE DEF H
  <2>2. \A k \in 0..L : H[k] = IF k = 0 THEN b ELSE Step(H[k - 1], names[k])
    BY <1>11
  <2> QED
    BY <1>9, <2>1, <2>2
<1> HIDE DEF H
<1>13. H[L] = f[L]
  <2>1. \A k \in 1..L : H[k - 1] = f[k - 1] => H[k] = f[k]
    BY <1>9, <1>12
  <2> QED
    BY <1>2, <1>12, <2>1, GoOnAlike
<1>14. H[L] \in D
  BY <1>2, <1>9, <1>13
<1>15. H[L].removed \in Nat /\ H[L].errors \in Strings /\ IsTree(H[L].left)
  BY <1>4, <1>14 DEF D
<1>16. <<H[L].removed>> \o H[L].errors \in Strings /\ <<>> \in Strings
  BY <1>15, NumberJoins DEF Strings
<1>17. IsAnswer(Text("DeleteResponse", <<H[L].removed>> \o H[L].errors))
  BY <1>16 DEF IsAnswer, AnswerType, Text, Optionals
<1> QED
  BY <1>1, <1>15, <1>17

\* So has the creation of a directory.
LEMMA MkdirTyped ==
  ASSUME NEW r, IsRequest(r), r.type = "Mkdir", NEW t, IsTree(t), Home \in Strings
  PROVE  IsAnswer(Mkdir(r, t)[1]) /\ IsTree(Mkdir(r, t)[2])
<1> DEFINE dir == Place(r)
           name == r.dentries[1]
           Answer(n) == Text("MkdirResponse", <<n>> \o name)
           path == dir \o name
           new == [p \in DOMAIN t \cup {path} |->
                     IF p = path THEN {} ELSE IF p = dir THEN t[p] \cup {name} ELSE t[p]]
<1>1. Mkdir(r, t) = CASE path \in DOMAIN t -> <<Answer(1), t>>
                      [] path \notin DOMAIN t /\ (dir \notin DOMAIN t \/ name \in t[dir]) ->
                           <<Answer(2), t>>
                      [] OTHER -> <<Answer(0), new>>
  BY DEF Mkdir
<1>2. dir \in Strings /\ name \in Strings
  BY DEF Place, IsRequest, Requests
<1>3. \A n \in Nat : IsAnswer(Answer(n))
  <2>1. ASSUME NEW n \in Nat PROVE IsAnswer(Answer(n))
    <3>1. <<n>> \o name \in Strings /\ <<>> \in Strings
      BY <1>2, NumberJoins DEF Strings
    <3> HIDE DEF name
    <3> QED
      BY <3>1 DEF IsAnswer, AnswerType, Text, Optionals
  <2> QED
    BY <2>1
<1> HIDE DEF dir, name
<1>4. path \in Strings
  BY <1>2, Joins
<1> HIDE DEF path
<1>5. ASSUME path \notin DOMAIN t, dir \in DOMAIN t
      PROVE  IsTree(new)
  <2>1. DOMAIN t \subseteq Strings /\ IsFiniteSet(DOMAIN t)
    BY DEF IsTree
  <2>3. DOMAIN new = DOMAIN t \cup {path}
    OBVIOUS
  <2>4. IsFiniteSet(DOMAIN new) /\ DOMAIN new \subseteq Strings
    BY <1>4, <2>1, <2>3, FS_AddElement
  <2>5. ASSUME NEW p \in DOMAIN new
        PROVE  new[p] \in SUBSET Strings /\ IsFiniteSet(new[p])
    <3>1. CASE p = path
      BY <3>1, FS_EmptySet
    <3>2. CASE p # path /\ p = dir
      <4>1. new[p] = t[dir] \cup {name} /\ t[dir] \in SUBSET Strings /\ IsFiniteSet(t[dir])
        BY <2>3, <3>2 DEF IsTree
      <4>2. IsFiniteSet(t[dir] \cup {name})
        BY <4>1, FS_AddElement
      <4> QED
        BY <1>2, <4>1, <4>2
    <3>3. CASE p # path /\ p # dir
      BY <2>3, <3>3 DEF IsTree
    <3> QED
      BY <3>1, <3>2, <3>3
  <2>6. new \in [DOMAIN new -> SUBSET Strings]
    BY <2>3, <2>5
  <2> HIDE DEF new
  <2> QED
    BY <2>4, <2>5, <2>6 DEF IsTree
<1> HIDE DEF new, Answer
<1>6. CASE path \in DOMAIN t
  BY <1>1, <1>3, <1>6
<1>7. CASE path \notin DOMAIN t /\ (dir \notin DOMAIN t \/ name \in t[dir])
  BY <1>1, <1>3, <1>7
<1>8. CASE path \notin DOMAIN t /\ ~ (dir \notin DOMAIN t \/ name \in t[dir])
  BY <1>1, <1>3, <1>5, <1>8
<1> QED
  BY <1>6, <1>7, <1>8

\* Whatever is asked, the host has an answer that can be sent, and files are left.
LEMMA PerformTyped ==
  ASSUME NEW r, IsRequest(r), NEW t, IsTree(t), Wide \in Nat \ {0}, Home \in Strings
  PROVE  IsAnswer(Perform(r, t)[1]) /\ IsTree(Perform(r, t)[2])
<1>1. CASE r.type = "GetDents"
  BY <1>1, GetDentsTyped DEF Perform
<1>2. CASE r.type = "Delete"
  BY <1>2, DeleteTyped DEF Perform
<1>3. CASE r.type = "Mkdir"
  BY <1>3, MkdirTyped DEF Perform
<1> QED
  BY <1>1, <1>2, <1>3 DEF IsRequest, Requests

-----------------------------------------------------------------------------
\* The inductive invariant.

\* What is asked and answered, and the types of the variables.
Asks == {q \in Requests : IsRequest(q)}
Answers == {a \in AnswerType : IsAnswer(a)}

ConnType == [to : [Sides -> Strings], open : [Sides -> BOOLEAN], reset : {"no", "coming", "here"}]
ReaderType == [in : {"reading", "over", "left"}, out : {"waiting", "sending", "thrown", "over"},
               got : Strings, rest : Strings, told : BOOLEAN]
ProxyType == [state : {"on", "thrown"}, buf : Strings]
HostType == [in : {"reading", "offering", "thrown", "over", "dead"},
             out : {"waiting", "sending", "thrown", "over"},
             got : Strings, item : Seq(Asks), rest : Strings]

Typed ==
  /\ conn \in [Clients -> ConnType] /\ rd \in ReaderType
  /\ px \in [Clients -> ProxyType] /\ hd \in HostType
  /\ IsTree(tree)
  /\ asked \in Seq(Asks) /\ served \in Seq(Answers) /\ shown \in Seq(Answers)

\* Nothing holds more than it can.
Fits ==
  /\ \A c \in Clients, s \in Sides : Len(conn[c].to[s]) <= Pipe
  /\ \A d \in Clients : Len(px[d].buf) <= Buf
  /\ Len(asked) \in 1..MaxRequests

\* The pane and the host read, and the coroutines hold what they are at.
Looking == rd.in = "reading"
Going == hd.in \notin {"over", "dead"}
Places ==
  /\ Looking <=> rd.out # "over"
  /\ ~Looking => rd.got = <<>>
  /\ rd.out = "sending" <=> rd.rest # <<>>
  /\ Going <=> hd.out # "over"
  /\ hd.in = "offering" => Len(hd.item) = 1
  /\ hd.in # "offering" => hd.item = <<>>
  /\ hd.out = "sending" <=> hd.rest # <<>>
  /\ \A d \in Clients : px[d].state = "thrown" => px[d].buf = <<>>
  /\ RecvRequest(hd.got) = Short

\* A socket is open as long as the coroutine that owns it is there.
Ends ==
  /\ conn["reader"].open["client"] = Looking
  /\ conn["host"].open["client"] = Going
  /\ \A c \in Clients : conn[c].open["server"] = ~ProxyOver

\* While the user looks and the host's process lives, nothing fails.
Calm ==
  Looking /\ hd.in # "dead" =>
    /\ \A c \in Clients : px[c].state = "on" /\ conn[c].reset = "no"
    /\ rd.out \in {"waiting", "sending"}
    /\ hd.in \in {"reading", "offering"} /\ hd.out \in {"waiting", "sending"}
\* Who is told of a loss has lost the host, or left with an answer still out.
ToldRight ==
  rd.told => ~Looking /\ (hd.in = "dead" \/ (rd.in = "left" /\ Len(shown) < Len(asked)))

\* What has been written of all the answers is, in this order: what the pane has
\* been given, what its reader holds of the next, what the connection holds, the
\* proxy's buffer, and the host's connection. What the host has still to write
\* completes it.
Replies(q) == [i \in DOMAIN q |-> SendAnswer(q[i])]
AnswersNear == (Upto(Replies(served), Len(shown)) \o rd.got) \o conn["reader"].to["client"]
AnswersFar == (AnswersNear \o px["reader"].buf) \o conn["host"].to["server"]
AnswersFlow ==
  /\ Looking => Begins(AnswersNear, FlattenSeq(Replies(served)))
  /\ Looking /\ px["reader"].state = "on" =>
       /\ Begins(AnswersFar, FlattenSeq(Replies(served)))
       /\ hd.out \in {"waiting", "sending"} => AnswersFar \o hd.rest = FlattenSeq(Replies(served))

\* The requests, on their way to the host.
Calls(q) == [i \in DOMAIN q |-> SendRequest(q[i])]
Taking == hd.in \in {"reading", "offering"}
RequestsNear ==
  (Upto(Calls(asked), Len(served) + Len(hd.item)) \o hd.got) \o conn["host"].to["client"]
RequestsFar == (RequestsNear \o px["host"].buf) \o conn["reader"].to["server"]
RequestsFlow ==
  /\ Taking => Begins(RequestsNear, FlattenSeq(Calls(asked)))
  /\ Taking /\ px["host"].state = "on" =>
       /\ Begins(RequestsFar, FlattenSeq(Calls(asked)))
       /\ rd.out \in {"waiting", "sending"} => RequestsFar \o rd.rest = FlattenSeq(Calls(asked))

\* Requests are offered and answers shown in their order.
InOrder ==
  /\ Len(served) + Len(hd.item) <= Len(asked)
  /\ hd.item # <<>> => hd.item[1] = asked[Len(served) + 1]
  /\ Len(shown) <= Len(served)
  /\ \A i \in 1..Len(shown) : shown[i] = served[i]

SessionInv == /\ Typed /\ Fits /\ Places /\ Ends /\ Calm /\ ToldRight
              /\ AnswersFlow /\ RequestsFlow /\ InOrder

-----------------------------------------------------------------------------
\* What the steps do to a connection.

\* What BrowserAssumption says of the constants.
LEMMA Consts == /\ Pipe \in Nat \ {0} /\ Buf \in Nat \ {0} /\ MaxRequests \in Nat \ {0}
                /\ Wide \in Nat \ {0} /\ Home \in Strings /\ IsTree(Start) /\ Menu \subseteq Asks
  BY BrowserAssumption DEF IsTree, Asks, IsRequest

\* The lesser of two numbers.
LEMMA MinOfTwo ==
  ASSUME NEW a \in Int, NEW b \in Int
  PROVE  Min({a, b}) \in {a, b} /\ Min({a, b}) <= a /\ Min({a, b}) <= b
<1>1. \E x \in {a, b} : \A y \in {a, b} : x <= y
  <2>1. a <= b \/ b <= a
    OBVIOUS
  <2> QED
    BY <2>1
<1>2. Min({a, b}) \in {a, b} /\ \A y \in {a, b} : Min({a, b}) <= y
  BY <1>1 DEF Min
<1> QED
  BY <1>2

\* What a side of a connection can write fits into it.
LEMMA RoomIs ==
  ASSUME NEW c \in Clients, NEW side \in Sides, NEW data \in Strings,
         Room(c, side, data) > 0, Len(conn[c].to[Other(side)]) \in 0..Pipe
  PROVE  /\ Room(c, side, data) \in 1..Len(data)
         /\ Len(conn[c].to[Other(side)]) + Room(c, side, data) <= Pipe
<1> DEFINE l == Len(conn[c].to[Other(side)])
<1>1. Room(c, side, data) = Min({Len(data), Pipe - l})
  BY DEF Room, Arrived
<1>2. l \in Nat /\ Pipe \in Nat /\ Len(data) \in Nat /\ Pipe - l \in Int
  <2>1. Len(data) \in Nat
    BY Joins
  <2>2. Pipe \in Nat
    BY Consts
  <2> QED
    BY <2>1, <2>2
<1> DEFINE a == Len(data)
           b == Pipe - l
<1>3. a \in Int /\ b \in Int /\ Room(c, side, data) = Min({a, b})
  BY <1>1, <1>2
<1> HIDE DEF a, b, l
<1>4. Room(c, side, data) \in {a, b} /\ Room(c, side, data) <= a /\ Room(c, side, data) <= b
  BY <1>3, MinOfTwo
<1> QED
  BY <1>2, <1>4 DEF l, a, b

\* Both sides of a connection, and both directions of the proxy.
LEMMA OtherSides == /\ Other("client") = "server" /\ Other("server") = "client"
                    /\ Sides = {"client", "server"} /\ Clients = {"reader", "host"}
                    /\ \A s \in Sides : Other(s) \in Sides /\ Other(s) # s
                    /\ Source("host") = "reader" /\ Source("reader") = "host"
  BY DEF Other, Sides, Clients, Source

\* Taking n numbers leaves the rest of them, and the other direction as it was.
LEMMA TakenIs ==
  ASSUME NEW k \in ConnType, NEW s \in Sides, NEW n \in 0..Len(k.to[s])
  PROVE  /\ Taken(k, s, n) \in ConnType
         /\ Taken(k, s, n).open = k.open /\ Taken(k, s, n).reset = k.reset
         /\ Taken(k, s, n).to[s] = Rest(k.to[s], n)
         /\ Taken(k, s, n).to[Other(s)] = k.to[Other(s)]
         /\ Len(Taken(k, s, n).to[s]) <= Len(k.to[s])
<1>1. k.to \in [Sides -> Strings] /\ k.to[s] \in Strings
  BY DEF ConnType
<1>2. Rest(k.to[s], n) \in Strings /\ Len(Rest(k.to[s], n)) = Len(k.to[s]) - n
  BY <1>1, SplitAt
<1>3. Taken(k, s, n) = [k EXCEPT !.to = [@ EXCEPT ![s] = Rest(k.to[s], n)]]
  BY DEF Taken, Rest, ConnType
<1>4. Other(s) \in Sides /\ Other(s) # s
  BY OtherSides
<1>5. Len(Rest(k.to[s], n)) <= Len(k.to[s])
  <2>1. Len(k.to[s]) \in Nat
    BY <1>1, Joins
  <2> QED
    BY <1>2, <2>1
<1> QED
  BY <1>1, <1>2, <1>3, <1>4, <1>5 DEF ConnType

\* k and m are a connection before and after a side of it writes the first n of data.
IsPut(m, k, s, o, data, n) ==
  /\ m \in ConnType /\ m.open = k.open /\ m.to[s] = k.to[s]
  /\ k.open[o] => /\ m.to[o] = k.to[o] \o SubSeq(data, 1, n) /\ m.reset = k.reset
                  /\ Len(m.to[o]) = Len(k.to[o]) + n
  /\ ~ k.open[o] => m.to = k.to /\ m.reset = "coming"

\* Writing to a connection is as IsPut says.
LEMMA PutIs ==
  ASSUME NEW k \in ConnType, NEW s \in Sides, NEW data \in Strings, NEW n \in 0..Len(data)
  PROVE  IsPut(Put(k, s, data, n), k, s, Other(s), data, n)
<1> DEFINE o == Other(s)
           p == SubSeq(data, 1, n)
<1>1. o \in Sides /\ o # s
  BY OtherSides
<1>2. k.to \in [Sides -> Strings] /\ k.to[s] \in Strings /\ k.to[o] \in Strings
  BY <1>1 DEF ConnType
<1>3. p \in Strings /\ Len(p) = n
  BY SplitAt
<1>4. Put(k, s, data, n) = IF k.open[o] THEN [k EXCEPT !.to = [@ EXCEPT ![o] = k.to[o] \o p]]
                           ELSE [k EXCEPT !.reset = "coming"]
  BY DEF Put, ConnType
<1> HIDE DEF o, p
<1>5. k.to[o] \o p \in Strings /\ Len(k.to[o] \o p) = Len(k.to[o]) + n
  BY <1>2, <1>3, Joins
<1>6. CASE k.open[o]
  <2>1. Put(k, s, data, n) = [k EXCEPT !.to = [@ EXCEPT ![o] = k.to[o] \o p]]
    BY <1>4, <1>6
  <2> DEFINE q == k.to[o] \o p
             to == [k.to EXCEPT ![o] = q]
  <2>2. to \in [Sides -> Strings] /\ to[s] = k.to[s] /\ to[o] = q
    <3> HIDE DEF q
    <3> QED
      BY <1>1, <1>2, <1>5 DEF q
  <2>3. Put(k, s, data, n) = [k EXCEPT !.to = to]
    BY <2>1
  <2> HIDE DEF to
  <2>4. Put(k, s, data, n) \in ConnType /\ Put(k, s, data, n).to = to
        /\ Put(k, s, data, n).open = k.open /\ Put(k, s, data, n).reset = k.reset
    BY <2>2, <2>3 DEF ConnType
  <2> QED
    BY <1>5, <1>6, <2>2, <2>4 DEF o, p, IsPut
<1>7. CASE ~ k.open[o]
  <2>1. Put(k, s, data, n) = [k EXCEPT !.reset = "coming"]
    BY <1>4, <1>7
  <2> QED
    BY <1>1, <1>2, <1>7, <2>1 DEF ConnType, o, p, IsPut
<1> QED
  BY <1>6, <1>7

\* Closing a side drops what has arrived there, and nothing on its way to the other.
LEMMA ClosedIs ==
  ASSUME NEW k \in ConnType, NEW s \in Sides
  PROVE  /\ Closed(k, s) \in ConnType
         /\ Closed(k, s).open[s] = FALSE /\ Closed(k, s).open[Other(s)] = k.open[Other(s)]
         /\ Closed(k, s).to[s] = <<>> /\ Closed(k, s).to[Other(s)] = k.to[Other(s)]
<1>1. Other(s) \in Sides /\ Other(s) # s /\ <<>> \in Strings
  BY OtherSides DEF Strings
<1> DEFINE open == [k.open EXCEPT ![s] = FALSE]
           to == [k.to EXCEPT ![s] = <<>>]
           reset == IF k.to[s] # <<>> /\ k.reset = "no" THEN "coming" ELSE k.reset
<1>2. Closed(k, s) = [k EXCEPT !.open = open, !.to = to, !.reset = reset]
  BY DEF Closed, ConnType
<1>3. /\ open \in [Sides -> BOOLEAN] /\ open[s] = FALSE /\ open[Other(s)] = k.open[Other(s)]
      /\ to \in [Sides -> Strings] /\ to[s] = <<>> /\ to[Other(s)] = k.to[Other(s)]
      /\ reset \in {"no", "coming", "here"}
  BY <1>1 DEF ConnType
<1> HIDE DEF open, to, reset
<1>4. /\ Closed(k, s) \in ConnType
      /\ Closed(k, s).open = open /\ Closed(k, s).to = to /\ Closed(k, s).reset = reset
  BY <1>2, <1>3 DEF ConnType
<1> QED
  BY <1>3, <1>4

-----------------------------------------------------------------------------
\* What the two readers of a stream take from it.

HostNeeds(got, near) == Needed(RecvRequest, got, near)
ReaderNeeds(got, near) == Needed(RecvAnswer, got, near)

\* What is sent of a request is a stream with something in it.
LEMMA RequestSent ==
  ASSUME NEW q \in Asks
  PROVE  SendRequest(q) \in Strings /\ SendRequest(q) # <<>>
<1>1. IsRequest(q) /\ <<>> \in Strings /\ Len(<<>>) = 0 /\ Alike(<<>>, SendRequest(q))
  BY DEF Asks, Strings, Alike
<1>2. SendRequest(q) \in Strings /\ RecvRequest(<<>>) = Read(q, SendRequest(q), <<>>)
  BY <1>1, RequestRead
<1>3. RecvRequest(<<>>) = {}
  BY DEF RecvRequest, RecvPod, Then, Short
<1>4. Read(q, <<>>, <<>>) # {}
  <2>1. Read(q, <<>>, <<>>) = {<<q, Rest(<<>>, 0)>>}
    BY <1>1, ReadCases
  <2> QED
    BY <2>1
<1> QED
  BY <1>2, <1>3, <1>4

\* What is sent of an answer is a stream with something in it.
LEMMA AnswerSent ==
  ASSUME NEW a \in Answers
  PROVE  SendAnswer(a) \in Strings /\ SendAnswer(a) # <<>>
<1>1. IsAnswer(a) /\ <<>> \in Strings /\ Len(<<>>) = 0 /\ Alike(<<>>, SendAnswer(a))
  BY DEF Answers, Strings, Alike
<1>2. SendAnswer(a) \in Strings /\ RecvAnswer(<<>>) = Read(a, SendAnswer(a), <<>>)
  BY <1>1, AnswerRead
<1>3. RecvAnswer(<<>>) = {}
  BY DEF RecvAnswer, RecvPod, Then, Short
<1>4. Read(a, <<>>, <<>>) # {}
  <2>1. Read(a, <<>>, <<>>) = {<<a, Rest(<<>>, 0)>>}
    BY <1>1, ReadCases
  <2> QED
    BY <2>1
<1> QED
  BY <1>2, <1>3, <1>4

\* What is sent of the requests is a sequence of streams, one more for one more.
LEMMA CallsTyped ==
  ASSUME NEW q \in Seq(Asks)
  PROVE  /\ Calls(q) \in Seq(Strings) /\ Len(Calls(q)) = Len(q)
         /\ \A i \in 1..Len(q) : Calls(q)[i] = SendRequest(q[i])
         /\ \A r \in Asks : Calls(Append(q, r)) = Append(Calls(q), SendRequest(r))
<1>1. DOMAIN q = 1..Len(q) /\ Len(q) \in Nat /\ \A i \in 1..Len(q) : q[i] \in Asks
  OBVIOUS
<1>2. \A i \in 1..Len(q) : SendRequest(q[i]) \in Strings
  BY <1>1, RequestSent
<1>3. /\ Calls(q) \in Seq(Strings) /\ Len(Calls(q)) = Len(q)
      /\ \A i \in 1..Len(q) : Calls(q)[i] = SendRequest(q[i])
  BY <1>1, <1>2 DEF Calls
<1>4. ASSUME NEW r \in Asks PROVE Calls(Append(q, r)) = Append(Calls(q), SendRequest(r))
  <2> DEFINE u == Calls(Append(q, r))
             w == Append(Calls(q), SendRequest(r))
             L == Len(q)
  <2>1. /\ Append(q, r) \in Seq(Asks) /\ Len(Append(q, r)) = L + 1 /\ DOMAIN Append(q, r) = 1..L + 1
        /\ Append(q, r)[L + 1] = r /\ \A i \in 1..L : Append(q, r)[i] = q[i]
    OBVIOUS
  <2>2. \A i \in 1..L + 1 : SendRequest(Append(q, r)[i]) \in Strings
    BY <2>1, RequestSent, ElementOfSeq
  <2>3. u \in Seq(Strings) /\ Len(u) = L + 1 /\ \A i \in 1..L + 1 : u[i] = SendRequest(Append(q, r)[i])
    BY <1>1, <2>1, <2>2 DEF Calls
  <2>4. SendRequest(r) \in Strings
    BY RequestSent
  <2>5. /\ w \in Seq(Strings)
        /\ Len(w) = L + 1
        /\ w[L + 1] = SendRequest(r)
        /\ \A i \in 1..L : w[i] = Calls(q)[i]
    BY <1>3, <2>4
  <2>6. \A i \in 1..L + 1 : i \in 1..L \/ i = L + 1
    BY <1>1
  <2> HIDE DEF u, w, L
  <2>7. \A i \in 1..L + 1 : u[i] = w[i]
    BY <1>3, <2>1, <2>3, <2>5, <2>6 DEF L
  <2>8. u = w
    BY <2>3, <2>5, <2>7, SeqEqual
  <2> QED
    BY <2>8 DEF u, w
<1> QED
  BY <1>3, <1>4

\* What is sent of the answers is a sequence of streams, one more for one more.
LEMMA RepliesTyped ==
  ASSUME NEW q \in Seq(Answers)
  PROVE  /\ Replies(q) \in Seq(Strings) /\ Len(Replies(q)) = Len(q)
         /\ \A i \in 1..Len(q) : Replies(q)[i] = SendAnswer(q[i])
         /\ \A r \in Answers : Replies(Append(q, r)) = Append(Replies(q), SendAnswer(r))
<1>1. DOMAIN q = 1..Len(q) /\ Len(q) \in Nat /\ \A i \in 1..Len(q) : q[i] \in Answers
  OBVIOUS
<1>2. \A i \in 1..Len(q) : SendAnswer(q[i]) \in Strings
  BY <1>1, AnswerSent
<1>3. /\ Replies(q) \in Seq(Strings) /\ Len(Replies(q)) = Len(q)
      /\ \A i \in 1..Len(q) : Replies(q)[i] = SendAnswer(q[i])
  BY <1>1, <1>2 DEF Replies
<1>4. ASSUME NEW r \in Answers PROVE Replies(Append(q, r)) = Append(Replies(q), SendAnswer(r))
  <2> DEFINE u == Replies(Append(q, r))
             w == Append(Replies(q), SendAnswer(r))
             L == Len(q)
  <2>1. /\ Append(q, r) \in Seq(Answers) /\ Len(Append(q, r)) = L + 1 /\ DOMAIN Append(q, r) = 1..L + 1
        /\ Append(q, r)[L + 1] = r /\ \A i \in 1..L : Append(q, r)[i] = q[i]
    OBVIOUS
  <2>2. \A i \in 1..L + 1 : SendAnswer(Append(q, r)[i]) \in Strings
    BY <2>1, AnswerSent, ElementOfSeq
  <2>3. u \in Seq(Strings) /\ Len(u) = L + 1 /\ \A i \in 1..L + 1 : u[i] = SendAnswer(Append(q, r)[i])
    BY <1>1, <2>1, <2>2 DEF Replies
  <2>4. SendAnswer(r) \in Strings
    BY AnswerSent
  <2>5. /\ w \in Seq(Strings)
        /\ Len(w) = L + 1
        /\ w[L + 1] = SendAnswer(r)
        /\ \A i \in 1..L : w[i] = Replies(q)[i]
    BY <1>3, <2>4
  <2>6. \A i \in 1..L + 1 : i \in 1..L \/ i = L + 1
    BY <1>1
  <2> HIDE DEF u, w, L
  <2>7. \A i \in 1..L + 1 : u[i] = w[i]
    BY <1>3, <2>1, <2>3, <2>5, <2>6 DEF L
  <2>8. u = w
    BY <2>3, <2>5, <2>7, SeqEqual
  <2> QED
    BY <2>8 DEF u, w
<1> QED
  BY <1>3, <1>4

\* The least of some numbers is one of them.
LEMMA LeastIs ==
  ASSUME NEW T \in SUBSET Nat, T # {}
  PROVE  Min(T) \in T /\ \A k \in T : Min(T) <= k
<1>1. \E m \in T : \A k \in T : m <= k
  BY LeastNumber
<1> QED
  BY <1>1 DEF Min

\* incoming_msg of the host takes a part of the next request, or all of it and
\* nothing of the one after.
TakesRequest(q, k, got, near, n) ==
  /\ n \in 1..Len(near)
  /\ RecvRequest(got \o SubSeq(near, 1, n)) # Short =>
       /\ k + 1 \in 1..Len(q)
       /\ RecvRequest(got \o SubSeq(near, 1, n)) = {<<q[k + 1], <<>>>>}
       /\ Upto(Calls(q), k + 1) = Upto(Calls(q), k) \o (got \o SubSeq(near, 1, n))

\* async_read of the host takes what TakesRequest says.
LEMMA RequestTaken ==
  ASSUME NEW q \in Seq(Asks), NEW k \in 0..Len(q), NEW got \in Strings, NEW near \in Strings,
         near # <<>>, RecvRequest(got) = Short,
         Begins((Upto(Calls(q), k) \o got) \o near, FlattenSeq(Calls(q))),
         NEW n, n = HostNeeds(got, near)
  PROVE  TakesRequest(q, k, got, near, n)
<1> DEFINE parts == Calls(q)
           u == Upto(parts, k)
           g(m) == got \o SubSeq(near, 1, m)
           whole == {m \in 1..Len(near) : RecvRequest(g(m)) # Short}
           p == parts[k + 1]
<1>1. parts \in Seq(Strings) /\ Len(parts) = Len(q) /\ \A i \in 1..Len(q) : parts[i] = SendRequest(q[i])
  BY CallsTyped
<1>2. Len(near) \in Nat /\ Len(near) \in 1..Len(near) /\ k \in 0..Len(parts) /\ Len(got) \in Nat
  <2>1. Len(near) \in Nat /\ Len(near) # 0 /\ Len(got) \in Nat
    BY EmptySeq DEF Strings
  <2> QED
    BY <1>1, <2>1
<1>3. n = IF whole = {} THEN Len(near) ELSE Min(whole)
  BY DEF HostNeeds, Needed
<1>4. n \in 1..Len(near)
  <2>1. whole \in SUBSET Nat
    OBVIOUS
  <2>2. whole # {} => Min(whole) \in 1..Len(near)
    BY <2>1, LeastIs
  <2> HIDE DEF whole
  <2> QED
    BY <1>2, <1>3, <2>2
<1>5. u \in Strings
  BY <1>1, <1>2, UptoProps
<1>6. ASSUME NEW m \in 0..Len(near)
      PROVE  g(m) \in Strings /\ Len(g(m)) = Len(got) + m /\ Begins(u \o g(m), FlattenSeq(parts))
  <2> DEFINE h == SubSeq(near, 1, m)
             z == Rest(near, m)
  <2>1. h \in Strings /\ Len(h) = m /\ z \in Strings
    BY SplitAt
  <2>8. h \o z = near
    BY SplitAt
  <2> HIDE DEF h, z, u, parts
  <2>2. got \o h \in Strings /\ Len(got \o h) = Len(got) + m /\ u \o got \in Strings
    BY <1>5, <2>1, Joins
  <2>3. (u \o got) \o (h \o z) = ((u \o got) \o h) \o z
    BY <2>1, <2>2, JoinsAssociate, SMTT(30)
  <2>4. (u \o got) \o h = u \o (got \o h)
    BY <1>5, <2>1, JoinsAssociate
  <2>5. Begins((u \o (got \o h)) \o z, FlattenSeq(parts))
    BY <2>3, <2>4, <2>8 DEF u, parts
  <2>6. u \o (got \o h) \in Strings
    BY <1>5, <2>2, Joins
  <2>7. Begins(u \o (got \o h), FlattenSeq(parts))
    BY <2>1, <2>5, <2>6, BeginsShorter
  <2> QED
    BY <2>2, <2>7 DEF h
<1> HIDE DEF g, u, parts, p
<1>7. ASSUME NEW m \in 0..Len(near), g(m) # <<>>
      PROVE  /\ k + 1 \in 1..Len(q) /\ p \in Strings /\ p = SendRequest(q[k + 1])
             /\ RecvRequest(g(m)) = Read(q[k + 1], p, g(m))
             /\ Len(g(m)) >= Len(p) => Upto(parts, k + 1) \o Rest(g(m), Len(p)) = u \o g(m)
  <2>1. g(m) \in Strings /\ Begins(Upto(parts, k) \o g(m), FlattenSeq(parts))
    BY <1>6 DEF u
  <2>2. /\ k + 1 \in 1..Len(parts) /\ p \in Strings /\ Alike(g(m), p)
        /\ Len(g(m)) >= Len(p) => Upto(parts, k + 1) \o Rest(g(m), Len(p)) = Upto(parts, k) \o g(m)
    BY <1>1, <1>2, <1>7, <2>1, NextPart DEF p
  <2>3. k + 1 \in 1..Len(q) /\ p = SendRequest(q[k + 1]) /\ q[k + 1] \in Asks
    BY <1>1, <2>2, ElementOfSeq DEF p
  <2>4. RecvRequest(g(m)) = Read(q[k + 1], p, g(m))
    BY <2>1, <2>2, <2>3, RequestRead DEF Asks
  <2> QED
    BY <2>2, <2>3, <2>4 DEF u
<1>8. ASSUME NEW m \in 1..Len(near) PROVE m \in 0..Len(near) /\ g(m) # <<>>
  <2>1. m \in 0..Len(near) /\ Len(got) + m # 0
    BY <1>2
  <2>2. Len(g(m)) = Len(got) + m
    BY <1>6, <2>1
  <2> QED
    BY <2>1, <2>2, EmptySeq
<1>9. n \in 0..Len(near) /\ g(n) # <<>>
  BY <1>4, <1>8
<1>10. p \in Strings /\ Len(p) \in Nat /\ k + 1 \in 1..Len(q)
  BY <1>7, <1>9, Joins
<1>11. ASSUME NEW m \in 1..Len(near)
       PROVE  RecvRequest(g(m)) # Short <=> Len(got) + m >= Len(p)
  <2>1. g(m) \in Strings /\ Len(g(m)) = Len(got) + m /\ RecvRequest(g(m)) = Read(q[k + 1], p, g(m))
    BY <1>6, <1>7, <1>8
  <2>2. Len(g(m)) < Len(p) \/ Len(g(m)) >= Len(p)
    BY <1>2, <1>10, <2>1
  <2>3. Len(g(m)) < Len(p) => RecvRequest(g(m)) = {}
    BY <1>10, <2>1, ReadCases
  <2>4. Len(g(m)) >= Len(p) => RecvRequest(g(m)) # {}
    <3>1. Len(g(m)) >= Len(p) => RecvRequest(g(m)) = {<<q[k + 1], Rest(g(m), Len(p))>>}
      BY <1>10, <2>1, ReadCases
    <3> QED
      BY <3>1
  <2> QED
    BY <1>2, <1>10, <2>1, <2>2, <2>3, <2>4 DEF Short
<1>12. Len(got) < Len(p)
  <2>1. g(0) = got
    <3>1. SubSeq(near, 1, 0) = <<>> /\ got \o <<>> = got
      BY DEF Strings
    <3> QED
      BY <3>1 DEF g
  <2>2. CASE got = <<>>
    <3>1. p # <<>>
      BY <1>7, <1>9, ElementOfSeq, RequestSent
    <3>2. Len(p) # 0
      BY <1>10, <3>1, EmptySeq DEF Strings
    <3> QED
      BY <1>10, <2>2, <3>2
  <2>3. CASE got # <<>>
    <3>1. 0 \in 0..Len(near)
      BY <1>2
    <3>2. RecvRequest(got) = Read(q[k + 1], p, got)
      BY <1>7, <2>1, <2>3, <3>1
    <3>3. Len(got) >= Len(p) => RecvRequest(got) = {<<q[k + 1], Rest(got, Len(p))>>}
      BY <1>10, <3>2, ReadCases
    <3>4. ~ (Len(got) >= Len(p))
      BY <3>3 DEF Short
    <3> QED
      BY <1>2, <1>10, <3>4
  <2> QED
    BY <2>2, <2>3
<1>13. ASSUME RecvRequest(g(n)) # Short
       PROVE  Len(got) + n = Len(p)
  <2>1. whole \in SUBSET Nat /\ n \in whole
    BY <1>4, <1>13
  <2>2. n = Min(whole) /\ \A m \in whole : n <= m
    <3> HIDE DEF whole
    <3> QED
      BY <1>3, <2>1, LeastIs
  <2>3. Len(got) + n >= Len(p)
    BY <1>4, <1>11, <1>13
  <2> SUFFICES ASSUME Len(got) + n > Len(p) PROVE FALSE
    BY <1>2, <1>4, <1>10, <2>3
  <2>4. n - 1 \in 1..Len(near) /\ Len(got) + (n - 1) >= Len(p)
    BY <1>2, <1>4, <1>10, <1>12
  <2>5. n - 1 \in whole
    BY <1>11, <2>4
  <2>6. n <= n - 1
    <3> HIDE DEF whole
    <3> QED
      BY <2>2, <2>5
  <2> QED
    BY <1>4, <2>6
<1>14. ASSUME RecvRequest(g(n)) # Short
       PROVE  RecvRequest(g(n)) = {<<q[k + 1], <<>>>>} /\ Upto(parts, k + 1) = u \o g(n)
  <2>1. g(n) \in Strings /\ Len(g(n)) = Len(p) /\ RecvRequest(g(n)) = Read(q[k + 1], p, g(n))
    BY <1>6, <1>7, <1>9, <1>13, <1>14
  <2>2. Len(g(n)) >= Len(p) /\ Len(p) \in 0..Len(g(n))
    BY <1>10, <2>1
  <2>3. Rest(g(n), Len(p)) = <<>>
    <3>1. Rest(g(n), Len(p)) \in Strings /\ Len(Rest(g(n), Len(p))) = Len(g(n)) - Len(p)
      BY <2>1, <2>2, SplitAt
    <3>2. Len(Rest(g(n), Len(p))) = 0
      BY <1>10, <2>1, <3>1
    <3> QED
      BY <3>1, <3>2, EmptySeq DEF Strings
  <2>4. RecvRequest(g(n)) = {<<q[k + 1], Rest(g(n), Len(p))>>}
    BY <1>10, <2>1, <2>2, ReadCases
  <2>5. Upto(parts, k + 1) \o Rest(g(n), Len(p)) = u \o g(n)
    BY <1>7, <1>9, <2>2
  <2>6. Upto(parts, k + 1) \in Strings
    <3>1. k + 1 \in 0..Len(parts)
      BY <1>1, <1>10
    <3> QED
      BY <1>1, <3>1, UptoProps
  <2>7. Upto(parts, k + 1) \o <<>> = Upto(parts, k + 1)
    BY <2>6, ConcatEmptySeq DEF Strings
  <2> QED
    BY <2>3, <2>4, <2>5, <2>7
<1> QED
  BY <1>4, <1>10, <1>14 DEF g, u, parts, TakesRequest

\* incoming_msg of the reader gives the pane the next answer, if it has it all.
TakesAnswer(q, k, got, near, n) ==
  /\ n \in 1..Len(near)
  /\ RecvAnswer(got \o SubSeq(near, 1, n)) # Short =>
       /\ k + 1 \in 1..Len(q)
       /\ \E z \in Strings :
            /\ RecvAnswer(got \o SubSeq(near, 1, n)) = {<<q[k + 1], z>>}
            /\ Upto(Replies(q), k + 1) \o z = Upto(Replies(q), k) \o (got \o SubSeq(near, 1, n))

\* async_read of the reader takes what TakesAnswer says.
LEMMA AnswerTaken ==
  ASSUME NEW q \in Seq(Answers), NEW k \in 0..Len(q), NEW got \in Strings, NEW near \in Strings,
         near # <<>>, Begins((Upto(Replies(q), k) \o got) \o near, FlattenSeq(Replies(q))),
         NEW n, n = ReaderNeeds(got, near)
  PROVE  TakesAnswer(q, k, got, near, n)
<1> DEFINE parts == Replies(q)
           u == Upto(parts, k)
           h == SubSeq(near, 1, n)
           z == Rest(near, n)
           g == got \o h
           whole == {m \in 1..Len(near) : RecvAnswer(got \o SubSeq(near, 1, m)) # Short}
           p == parts[k + 1]
<1>1. parts \in Seq(Strings) /\ Len(parts) = Len(q) /\ \A i \in 1..Len(q) : parts[i] = SendAnswer(q[i])
  BY RepliesTyped
<1>2. Len(near) \in Nat /\ Len(near) \in 1..Len(near) /\ k \in 0..Len(parts) /\ Len(got) \in Nat
  <2>1. Len(near) \in Nat /\ Len(near) # 0 /\ Len(got) \in Nat
    BY EmptySeq DEF Strings
  <2> QED
    BY <1>1, <2>1
<1>3. n \in 1..Len(near) /\ n \in 0..Len(near)
  <2>1. n = IF whole = {} THEN Len(near) ELSE Min(whole)
    BY DEF ReaderNeeds, Needed
  <2>2. whole \in SUBSET Nat
    OBVIOUS
  <2>3. whole # {} => Min(whole) \in 1..Len(near)
    BY <2>2, LeastIs
  <2> HIDE DEF whole
  <2>4. n \in 1..Len(near)
    BY <1>2, <2>1, <2>3
  <2> QED
    BY <2>4
<1> HIDE DEF whole
<1>4. u \in Strings
  BY <1>1, <1>2, UptoProps
<1>5. h \in Strings /\ Len(h) = n /\ z \in Strings
  BY <1>3, SplitAt
<1>13. h \o z = near
  BY <1>3, SplitAt
<1> HIDE DEF h, z, u, parts
<1>6. g \in Strings /\ Len(g) = Len(got) + n
  BY <1>5, Joins
<1>7. Begins(u \o g, FlattenSeq(parts))
  <2>1. u \o got \in Strings /\ u \o g \in Strings
    BY <1>4, <1>6, Joins
  <2>2. (u \o got) \o (h \o z) = ((u \o got) \o h) \o z
    BY <1>5, <2>1, JoinsAssociate, SMTT(30)
  <2>3. (u \o got) \o h = u \o g
    BY <1>4, <1>5, JoinsAssociate
  <2>4. Begins((u \o g) \o z, FlattenSeq(parts))
    BY <1>13, <2>2, <2>3 DEF u, parts
  <2> HIDE DEF g
  <2> QED
    BY <1>5, <2>1, <2>4, BeginsShorter
<1>8. g # <<>>
  <2>1. Len(g) # 0
    BY <1>2, <1>3, <1>6
  <2> HIDE DEF g
  <2> QED
    BY <2>1, EmptySeq
<1> HIDE DEF g, p
<1>9. /\ k + 1 \in 1..Len(parts) /\ p \in Strings /\ Alike(g, p)
      /\ Len(g) >= Len(p) => Upto(parts, k + 1) \o Rest(g, Len(p)) = Upto(parts, k) \o g
  BY <1>1, <1>2, <1>6, <1>7, <1>8, NextPart DEF p, u
<1>10. k + 1 \in 1..Len(q) /\ p = SendAnswer(q[k + 1]) /\ q[k + 1] \in Answers
  BY <1>1, <1>9, ElementOfSeq DEF p
<1>11. RecvAnswer(g) = Read(q[k + 1], p, g)
  BY <1>6, <1>9, <1>10, AnswerRead DEF Answers
<1>12. ASSUME RecvAnswer(g) # Short
       PROVE  \E y \in Strings : RecvAnswer(g) = {<<q[k + 1], y>>} /\ Upto(parts, k + 1) \o y = u \o g
  <2>1. Len(p) \in Nat /\ Len(g) \in Nat
    BY <1>6, <1>9, Joins
  <2>2. Len(g) >= Len(p)
    <3>1. Len(g) < Len(p) => RecvAnswer(g) = Short
      BY <1>6, <1>9, <1>11, ReadCases DEF Short
    <3> QED
      BY <1>12, <2>1, <3>1
  <2>3. RecvAnswer(g) = {<<q[k + 1], Rest(g, Len(p))>>}
    BY <1>6, <1>9, <1>11, <2>2, ReadCases
  <2>4. Rest(g, Len(p)) \in Strings
    <3>1. Len(p) \in 0..Len(g)
      BY <2>1, <2>2
    <3> QED
      BY <1>6, <3>1, SplitAt
  <2> QED
    BY <1>9, <2>2, <2>3, <2>4 DEF u
<1> QED
  BY <1>3, <1>10, <1>12 DEF g, h, u, parts, TakesAnswer

-----------------------------------------------------------------------------
\* How the numbers go on, and when a stream is left as it was.

\* What the proxy reads into its empty buffer stays where it is in the stream.
LEMMA ReadsMove ==
  ASSUME NEW a \in Strings, NEW far \in Strings, NEW n \in 0..Len(far)
  PROVE  (a \o SubSeq(far, 1, n)) \o Rest(far, n) = (a \o <<>>) \o far
<1>1. a \o <<>> = a
  BY ConcatEmptySeq DEF Strings
<1>2. (a \o SubSeq(far, 1, n)) \o Rest(far, n) = a \o far
  BY HeadMoves
<1> QED
  BY <1>1, <1>2

\* What leaves a buffer for a connection arrives in its place.
PassesOn(a, near, buf, far, n, t) ==
  /\ ((a \o (near \o SubSeq(buf, 1, n))) \o Rest(buf, n)) \o far = ((a \o near) \o buf) \o far
  /\ Begins(((a \o near) \o buf) \o far, t) => Begins(a \o (near \o SubSeq(buf, 1, n)), t)

\* So does what it writes.
LEMMA WritesMove ==
  ASSUME NEW a \in Strings, NEW near \in Strings, NEW buf \in Strings, NEW far \in Strings,
         NEW n \in 0..Len(buf), NEW t
  PROVE  PassesOn(a, near, buf, far, n, t)
<1> DEFINE h == SubSeq(buf, 1, n)
           z == Rest(buf, n)
<1>1. h \in Strings /\ z \in Strings
  BY SplitAt
<1>2. a \o near \in Strings /\ near \o h \in Strings /\ a \o (near \o h) \in Strings
  <2> HIDE DEF h
  <2> QED
    BY <1>1, Joins
<1>3. ((a \o near) \o h) \o z = (a \o near) \o buf
  BY <1>2, HeadMoves
<1> HIDE DEF h, z
<1>4. (a \o near) \o h = a \o (near \o h)
  BY <1>1, JoinsAssociate, SMTT(30)
<1>5. (a \o (near \o h)) \o z = (a \o near) \o buf
  BY <1>3, <1>4
<1>6. ASSUME Begins(((a \o near) \o buf) \o far, t)
      PROVE  Begins(a \o (near \o h), t)
  <2>1. (a \o near) \o buf \in Strings
    BY <1>2, Joins
  <2>2. Begins((a \o near) \o buf, t)
    BY <1>6, <2>1, BeginsShorter
  <2>3. Begins((a \o (near \o h)) \o z, t)
    BY <1>5, <2>2
  <2> QED
    BY <1>1, <1>2, <2>3, BeginsShorter
<1> QED
  BY <1>5, <1>6 DEF h, z, PassesOn

\* t is what has been taken, a, what the connection holds, far, and what is still to
\* be written, rest. It is so after the first n of the rest have been written.
GoesOut(a, far, rest, n, t) ==
  /\ Begins(a \o (far \o SubSeq(rest, 1, n)), t)
  /\ (a \o (far \o SubSeq(rest, 1, n))) \o Rest(rest, n) = t

\* So does what an end of the session sends.
LEMMA SendsMove ==
  ASSUME NEW a \in Strings, NEW far \in Strings, NEW rest \in Strings, NEW n \in 0..Len(rest)
  PROVE  GoesOut(a, far, rest, n, (a \o far) \o rest)
<1> DEFINE h == SubSeq(rest, 1, n)
           z == Rest(rest, n)
           t == (a \o far) \o rest
<1>1. h \in Strings /\ z \in Strings /\ a \o far \in Strings
  BY SplitAt, Joins
<1>2. ((a \o far) \o h) \o z = t
  BY <1>1, HeadMoves
<1> HIDE DEF h, z, t
<1>3. (a \o far) \o h = a \o (far \o h)
  BY <1>1, JoinsAssociate, SMTT(30)
<1>4. (a \o (far \o h)) \o z = t
  BY <1>2, <1>3
<1> QED
  BY <1>1, <1>4 DEF Begins, GoesOut, h, z, t

\* The types of what the invariant is about.
LEMMA TypedParts ==
  ASSUME Typed, InOrder
  PROVE  /\ conn["reader"] \in ConnType /\ conn["host"] \in ConnType
         /\ \A c \in Clients, s \in Sides : conn[c].to[s] \in Strings /\ conn[c].open[s] \in BOOLEAN
         /\ rd.got \in Strings /\ rd.rest \in Strings /\ hd.got \in Strings /\ hd.rest \in Strings
         /\ \A d \in Clients : px[d].buf \in Strings
         /\ Len(shown) \in 0..Len(served) /\ Len(served) + Len(hd.item) \in 0..Len(asked)
         /\ Len(served) \in Nat /\ Len(asked) \in Nat /\ Len(shown) \in Nat /\ Len(hd.item) \in Nat
<1>1. /\ conn \in [Clients -> ConnType]
      /\ px \in [Clients -> ProxyType]
      /\ rd \in ReaderType
      /\ hd \in HostType
  BY DEF Typed
<1>2. conn["reader"] \in ConnType /\ conn["host"] \in ConnType
  BY <1>1 DEF Clients
<1>3. \A c \in Clients, s \in Sides : conn[c].to[s] \in Strings /\ conn[c].open[s] \in BOOLEAN
  BY <1>1 DEF ConnType
<1>4. rd.got \in Strings /\ rd.rest \in Strings /\ hd.got \in Strings /\ hd.rest \in Strings
  BY <1>1 DEF ReaderType, HostType
<1>5. \A d \in Clients : px[d].buf \in Strings
  BY <1>1 DEF ProxyType
<1>6. /\ Len(served) \in Nat /\ Len(asked) \in Nat /\ Len(shown) \in Nat /\ Len(hd.item) \in Nat
      /\ Len(shown) <= Len(served) /\ Len(served) + Len(hd.item) <= Len(asked)
  BY <1>1 DEF Typed, InOrder, HostType
<1> QED
  BY <1>2, <1>3, <1>4, <1>5, <1>6

\* The parts of the streams are streams.
AnswersUpto == Upto(Replies(served), Len(shown)) \o rd.got
RequestsUpto == Upto(Calls(asked), Len(served) + Len(hd.item)) \o hd.got

\* The parts of the two streams are streams.
LEMMA StreamsTyped ==
  ASSUME Typed, InOrder
  PROVE  /\ AnswersUpto \in Strings /\ AnswersNear \in Strings /\ AnswersFar \in Strings
         /\ AnswersNear \o px["reader"].buf \in Strings
         /\ RequestsUpto \in Strings /\ RequestsNear \in Strings /\ RequestsFar \in Strings
         /\ RequestsNear \o px["host"].buf \in Strings
<1>1. /\ Replies(served) \in Seq(Strings) /\ Len(Replies(served)) = Len(served)
      /\ Calls(asked) \in Seq(Strings) /\ Len(Calls(asked)) = Len(asked)
  BY RepliesTyped, CallsTyped DEF Typed
<1>2. /\ Len(shown) \in 0..Len(Replies(served))
      /\ Len(served) + Len(hd.item) \in 0..Len(Calls(asked))
  BY <1>1, TypedParts
<1>3. /\ Upto(Replies(served), Len(shown)) \in Strings
      /\ Upto(Calls(asked), Len(served) + Len(hd.item)) \in Strings
  BY <1>1, <1>2, UptoProps
<1>4. /\ rd.got \in Strings /\ hd.got \in Strings
      /\ conn["reader"].to["client"] \in Strings /\ conn["reader"].to["server"] \in Strings
      /\ conn["host"].to["client"] \in Strings /\ conn["host"].to["server"] \in Strings
      /\ px["reader"].buf \in Strings /\ px["host"].buf \in Strings
  BY TypedParts, OtherSides
<1>5. AnswersUpto \in Strings /\ RequestsUpto \in Strings
  BY <1>3, <1>4, Joins DEF AnswersUpto, RequestsUpto
<1>6. AnswersNear \in Strings /\ RequestsNear \in Strings
  BY <1>4, <1>5, Joins DEF AnswersNear, RequestsNear, AnswersUpto, RequestsUpto
<1>7. AnswersNear \o px["reader"].buf \in Strings /\ RequestsNear \o px["host"].buf \in Strings
  BY <1>4, <1>6, Joins
<1> QED
  BY <1>4, <1>5, <1>6, <1>7, Joins DEF AnswersFar, RequestsFar

\* A step that touches no part of the answers' way, or ends it, leaves it right.
LEMMA AnswersStay ==
  ASSUME AnswersFlow,
         Looking' => /\ Looking /\ rd'.got = rd.got /\ shown' = shown /\ served' = served
                     /\ conn'["reader"].to["client"] = conn["reader"].to["client"],
         px'["reader"].state = "on" => /\ px'["reader"] = px["reader"]
                                       /\ conn'["host"].to["server"] = conn["host"].to["server"],
         hd'.out \in {"waiting", "sending"} => hd.out \in {"waiting", "sending"} /\ hd'.rest = hd.rest
  PROVE  AnswersFlow'
<1>1. CASE ~ Looking'
  BY <1>1 DEF AnswersFlow
<1>2. CASE Looking'
  <2>1. AnswersNear' = AnswersNear
    BY <1>2 DEF AnswersNear
  <2>2. px'["reader"].state = "on" => AnswersFar' = AnswersFar
    BY <1>2, <2>1 DEF AnswersFar
  <2> QED
    BY <1>2, <2>1, <2>2 DEF AnswersFlow
<1> QED
  BY <1>1, <1>2

\* The same of the requests' way.
LEMMA RequestsStay ==
  ASSUME RequestsFlow,
         Taking' => /\ Taking /\ hd'.got = hd.got /\ asked' = asked
                    /\ Len(served') + Len(hd'.item) = Len(served) + Len(hd.item)
                    /\ conn'["host"].to["client"] = conn["host"].to["client"],
         px'["host"].state = "on" => /\ px'["host"] = px["host"]
                                     /\ conn'["reader"].to["server"] = conn["reader"].to["server"],
         rd'.out \in {"waiting", "sending"} => rd.out \in {"waiting", "sending"} /\ rd'.rest = rd.rest
  PROVE  RequestsFlow'
<1>1. CASE ~ Taking'
  BY <1>1 DEF RequestsFlow
<1>2. CASE Taking'
  <2>1. RequestsNear' = RequestsNear
    BY <1>2 DEF RequestsNear
  <2>2. px'["host"].state = "on" => RequestsFar' = RequestsFar
    BY <1>2, <2>1 DEF RequestsFar
  <2> QED
    BY <1>2, <2>1, <2>2 DEF RequestsFlow
<1> QED
  BY <1>1, <1>2

\* A side of a connection writes.
LEMMA Puts ==
  ASSUME NEW c \in Clients, NEW s \in Sides, NEW o, o = Other(s), NEW data \in Strings,
         NEW n \in 0..Len(data), conn \in [Clients -> ConnType],
         conn' = [conn EXCEPT ![c] = Put(@, s, data, n)]
  PROVE  /\ conn' \in [Clients -> ConnType] /\ \A d \in Clients : d # c => conn'[d] = conn[d]
         /\ IsPut(conn'[c], conn[c], s, o, data, n)
<1> DEFINE k == conn[c]
           m == Put(k, s, data, n)
<1>1. k \in ConnType /\ conn' = [conn EXCEPT ![c] = m]
  OBVIOUS
<1> HIDE DEF k
<1>2. IsPut(m, k, s, o, data, n)
  <2>1. k \in ConnType
    BY <1>1
  <2>2. IsPut(Put(k, s, data, n), k, s, Other(s), data, n)
    BY <2>1, PutIs
  <2> QED
    BY <2>2
<1> HIDE DEF m
<1>3. conn' \in [Clients -> ConnType] /\ conn'[c] = m /\ \A d \in Clients : d # c => conn'[d] = conn[d]
  BY <1>1, <1>2 DEF IsPut
<1> QED
  BY <1>2, <1>3 DEF k

\* k and m are a connection before and after a side takes n numbers, or closes it.
IsTaken(m, k, s, o, n) ==
  /\ m \in ConnType /\ m.open = k.open /\ m.reset = k.reset
  /\ m.to[s] = Rest(k.to[s], n) /\ m.to[o] = k.to[o] /\ Len(m.to[s]) <= Len(k.to[s])
IsClosed(m, k, s, o) ==
  /\ m \in ConnType /\ m.open[s] = FALSE /\ m.open[o] = k.open[o]
  /\ m.to[s] = <<>> /\ m.to[o] = k.to[o]

\* A side of a connection takes.
LEMMA Takes ==
  ASSUME NEW c \in Clients, NEW s \in Sides, NEW o, o = Other(s), NEW n \in 0..Len(conn[c].to[s]),
         conn \in [Clients -> ConnType], conn' = [conn EXCEPT ![c] = Taken(@, s, n)]
  PROVE  /\ conn' \in [Clients -> ConnType] /\ \A d \in Clients : d # c => conn'[d] = conn[d]
         /\ IsTaken(conn'[c], conn[c], s, o, n)
<1> DEFINE k == conn[c]
           m == Taken(k, s, n)
<1>1. k \in ConnType /\ conn' = [conn EXCEPT ![c] = m]
  OBVIOUS
<1>2. IsTaken(m, k, s, o, n)
  BY <1>1, TakenIs DEF IsTaken
<1> HIDE DEF k, m
<1>3. conn' \in [Clients -> ConnType] /\ conn'[c] = m /\ \A d \in Clients : d # c => conn'[d] = conn[d]
  BY <1>1, <1>2 DEF IsTaken
<1> QED
  BY <1>2, <1>3 DEF k

\* A side of a connection is closed.
LEMMA Closes ==
  ASSUME NEW c \in Clients, NEW s \in Sides, NEW o, o = Other(s),
         conn \in [Clients -> ConnType], conn' = [conn EXCEPT ![c] = Closed(@, s)]
  PROVE  /\ conn' \in [Clients -> ConnType] /\ \A d \in Clients : d # c => conn'[d] = conn[d]
         /\ IsClosed(conn'[c], conn[c], s, o)
<1> DEFINE k == conn[c]
           m == Closed(k, s)
<1>1. k \in ConnType /\ conn' = [conn EXCEPT ![c] = m]
  OBVIOUS
<1>2. IsClosed(m, k, s, o)
  BY <1>1, ClosedIs DEF IsClosed
<1> HIDE DEF k, m
<1>3. conn' \in [Clients -> ConnType] /\ conn'[c] = m /\ \A d \in Clients : d # c => conn'[d] = conn[d]
  BY <1>1, <1>2 DEF IsClosed
<1> QED
  BY <1>2, <1>3 DEF k

\* What is written fits into what is left of the pipe.
LEMMA RoomFits ==
  ASSUME Fits, Typed, InOrder, NEW c \in Clients, NEW s \in Sides, NEW o, o = Other(s),
         NEW data \in Strings,
         NEW n, n = Room(c, s, data), n > 0
  PROVE  n \in 1..Len(data) /\ n \in 0..Len(data) /\ Len(conn[c].to[o]) + n <= Pipe
<1>1. o \in Sides
  BY OtherSides
<1>2. conn[c].to[o] \in Strings /\ Len(conn[c].to[o]) <= Pipe
  BY <1>1, TypedParts DEF Fits
<1>3. Len(conn[c].to[o]) \in Nat /\ Pipe \in Nat /\ Len(data) \in Nat
  BY <1>2, Joins, Consts
<1>4. Len(conn[c].to[o]) \in 0..Pipe
  BY <1>2, <1>3
<1>5. n \in 1..Len(data) /\ Len(conn[c].to[o]) + n <= Pipe
  BY <1>4, RoomIs
<1> QED
  BY <1>3, <1>5

\* Nothing is left to write when all of it has been written.
LEMMA RestIsEmpty ==
  ASSUME NEW rest \in Strings, NEW n \in 1..Len(rest)
  PROVE  /\ Rest(rest, n) \in Strings /\ Rest(rest, n) = SubSeq(rest, n + 1, Len(rest))
         /\ Rest(rest, n) = <<>> <=> n = Len(rest)
<1>1. Len(rest) \in Nat /\ n \in 0..Len(rest)
  BY Joins
<1> DEFINE left == Rest(rest, n)
<1>2. left \in Strings /\ Len(left) = Len(rest) - n /\ left = SubSeq(rest, n + 1, Len(rest))
  BY <1>1, SplitAt DEF Rest
<1>3. left = <<>> <=> Len(left) = 0
  <2> HIDE DEF left
  <2> QED
    BY <1>2, EmptySeq DEF Strings
<1>4. Len(left) = 0 <=> n = Len(rest)
  <2> HIDE DEF left
  <2> QED
    BY <1>1, <1>2
<1> QED
  BY <1>2, <1>3, <1>4

-----------------------------------------------------------------------------
\* Every step keeps the invariant.

\* The pane's first request is one.
LEMMA FirstAsked == First \in Asks
<1>1. <<>> \in Strings /\ <<>> \in Seq(Strings)
  BY DEF Strings
<1>2. First \in Requests /\ First.type = "GetDents" /\ First.dentries = <<>>
  BY <1>1 DEF First, Request, Requests
<1> QED
  BY <1>2 DEF Asks, IsRequest

\* A session begins with the listing of the host's directory on its way.
LEMMA InitHolds == Init => SessionInv
<1> SUFFICES ASSUME Init PROVE SessionInv
  OBVIOUS
<1> USE DEF Init
<1>1. SendRequest(First) \in Strings /\ SendRequest(First) # <<>> /\ <<>> \in Strings
  BY FirstAsked, RequestSent DEF Strings
<1>2. Connected \in ConnType
  BY <1>1 DEF Connected, ConnType, Sides
<1>3. Typed
  BY <1>1, <1>2, FirstAsked, Consts DEF Typed, ReaderType, ProxyType, HostType
<1>4. Fits
  BY Consts DEF Fits, Connected
<1>5. Places
  BY <1>1 DEF Places, Looking, Going, RecvRequest, RecvPod, Then, Short
<1>6. Ends
  BY DEF Ends, Looking, Going, ProxyOver, Connected, Clients, Sides
<1>7. Calm /\ ToldRight
  BY DEF Calm, ToldRight, Connected
<1>8. InOrder
  BY DEF InOrder
<1>9. /\ Replies(<<>>) \in Seq(Strings) /\ Len(Replies(<<>>)) = 0
      /\ Calls(<<First>>) \in Seq(Strings) /\ Len(Calls(<<First>>)) = 1
      /\ Calls(<<First>>)[1] = SendRequest(First)
  <2>1. /\ <<>> \in Seq(Answers) /\ Len(<<>>) = 0
        /\ <<First>> \in Seq(Asks) /\ Len(<<First>>) = 1 /\ <<First>>[1] = First
    BY FirstAsked
  <2>2. Replies(<<>>) \in Seq(Strings) /\ Len(Replies(<<>>)) = 0
    BY <2>1, RepliesTyped
  <2>3. /\ Calls(<<First>>) \in Seq(Strings) /\ Len(Calls(<<First>>)) = Len(<<First>>)
        /\ \A i \in 1..Len(<<First>>) : Calls(<<First>>)[i] = SendRequest(<<First>>[i])
    BY <2>1, CallsTyped
  <2>4. 1 \in 1..Len(<<First>>)
    BY <2>1
  <2>5. Calls(<<First>>)[1] = SendRequest(<<First>>[1])
    BY <2>3, <2>4
  <2> QED
    BY <2>1, <2>2, <2>3, <2>5
<1>10. /\ Upto(Replies(<<>>), 0) = <<>> /\ FlattenSeq(Replies(<<>>)) = <<>>
       /\ Upto(Calls(<<First>>), 0) = <<>> /\ FlattenSeq(Calls(<<First>>)) = SendRequest(First)
  <2>1. Upto(Replies(<<>>), 0) = <<>> /\ FlattenSeq(Replies(<<>>)) = <<>>
    BY <1>9, UptoProps
  <2>2. Upto(Calls(<<First>>), 0) = <<>>
    BY <1>9, UptoProps
  <2> DEFINE parts == Calls(<<First>>)
  <2>6. parts \in Seq(Strings) /\ 1 \in 1..Len(parts) /\ 1 - 1 = 0 /\ Len(parts) = 1
    BY <1>9
  <2> HIDE DEF parts
  <2>7. Upto(parts, 1) = Upto(parts, 1 - 1) \o parts[1]
    BY <2>6, UptoProps
  <2>3. Upto(Calls(<<First>>), 1) = Upto(Calls(<<First>>), 0) \o Calls(<<First>>)[1]
    BY <2>6, <2>7 DEF parts
  <2>4. Upto(Calls(<<First>>), 1) = FlattenSeq(Calls(<<First>>))
    BY <1>9, UptoProps
  <2>5. <<>> \o SendRequest(First) = SendRequest(First)
    BY <1>1, ConcatEmptySeq DEF Strings
  <2> QED
    BY <1>9, <2>1, <2>2, <2>3, <2>4, <2>5
<1>11. <<>> \o <<>> = <<>> /\ \A s \in Strings : <<>> \o s = s
  BY ConcatEmptySeq DEF Strings
<1>12. AnswersFlow
  <2>1. AnswersNear = <<>> /\ AnswersFar = <<>>
    BY <1>10, <1>11 DEF AnswersNear, AnswersFar, Connected, Clients, Sides
  <2> QED
    BY <1>1, <1>10, <1>11, <2>1 DEF AnswersFlow, Begins
<1>13. RequestsFlow
  <2>1. RequestsNear = <<>> /\ RequestsFar = <<>>
    BY <1>10, <1>11 DEF RequestsNear, RequestsFar, Connected, Clients, Sides
  <2> QED
    BY <1>1, <1>10, <1>11, <2>1 DEF RequestsFlow, Begins
<1> QED
  BY <1>3, <1>4, <1>5, <1>6, <1>7, <1>8, <1>12, <1>13 DEF SessionInv

\* The pane's outcoming_msg writes a part of a request.
LEMMA ReaderSendsKeeps == SessionInv /\ ReaderSends => SessionInv'
<1> SUFFICES ASSUME SessionInv, ReaderSends PROVE SessionInv'
  OBVIOUS
<1>0. Typed /\ Fits /\ Places /\ Ends /\ Calm /\ ToldRight /\ AnswersFlow /\ RequestsFlow /\ InOrder
  BY DEF SessionInv
<1>1. /\ rd.in = "reading" /\ rd.out = "sending"
      /\ px' = px /\ hd' = hd /\ tree' = tree /\ asked' = asked /\ served' = served /\ shown' = shown
  BY DEF ReaderSends
<1>2. /\ conn \in [Clients -> ConnType] /\ rd \in ReaderType /\ conn["reader"] \in ConnType
      /\ rd.rest \in Strings /\ rd.got \in Strings /\ Len(rd.rest) \in Nat
      /\ "reader" \in Clients /\ "client" \in Sides /\ Other("client") = "server"
  BY <1>0, TypedParts, OtherSides, Joins DEF Typed
<1>3. CASE WriteFails("reader") /\ rd' = [rd EXCEPT !.out = "thrown", !.rest = <<>>] /\ conn' = conn
  <2>1. rd'.in = rd.in /\ rd'.out = "thrown" /\ rd'.got = rd.got /\ rd'.rest = <<>> /\ rd'.told = rd.told
        /\ rd' \in ReaderType
    <3>1. <<>> \in Strings
      BY DEF Strings
    <3> QED
      BY <1>2, <1>3, <3>1 DEF ReaderType
  <2>2. Typed' /\ Fits' /\ InOrder'
    BY <1>0, <1>1, <1>3, <2>1 DEF Typed, Fits, InOrder
  <2>3. Places' /\ Ends' /\ ToldRight'
    BY <1>0, <1>1, <1>3, <2>1 DEF Places, Ends, ToldRight, Looking, Going, ProxyOver
  <2>4. Calm'
    <3>1. conn["reader"].reset = "here"
      BY <1>3 DEF WriteFails
    <3>2. hd.in = "dead"
      BY <1>0, <1>1, <3>1 DEF Calm, Looking, Clients
    <3> QED
      BY <1>1, <3>2 DEF Calm
  <2>5. AnswersFlow'
    BY <1>0, <1>1, <1>3, <2>1, AnswersStay DEF Looking
  <2>6. RequestsFlow'
    BY <1>0, <1>1, <1>3, <2>1, RequestsStay DEF Taking
  <2> QED
    BY <2>2, <2>3, <2>4, <2>5, <2>6 DEF SessionInv
<1>4. ASSUME NEW n, n = Room("reader", "client", rd.rest), n > 0,
             conn' = [conn EXCEPT !["reader"] = Put(@, "client", rd.rest, n)],
             rd' = [rd EXCEPT !.rest = SubSeq(@, n + 1, Len(@)),
                              !.out = IF n = Len(rd.rest) THEN "waiting" ELSE @]
      PROVE  SessionInv'
  <2> DEFINE k == conn["reader"]
             left == Rest(rd.rest, n)
  <2>1. n \in 1..Len(rd.rest) /\ n \in 0..Len(rd.rest) /\ Len(k.to["server"]) + n <= Pipe
    BY <1>0, <1>2, <1>4, RoomFits
  <2>2. /\ left \in Strings
        /\ left = SubSeq(rd.rest, n + 1, Len(rd.rest))
        /\ (left = <<>> <=> n = Len(rd.rest))
    BY <1>2, <2>1, RestIsEmpty
  <2> HIDE DEF left
  <2>4. /\ rd'.in = rd.in /\ rd'.got = rd.got /\ rd'.rest = left /\ rd'.told = rd.told
        /\ rd'.out = (IF n = Len(rd.rest) THEN "waiting" ELSE "sending") /\ rd' \in ReaderType
    BY <1>1, <1>2, <1>4, <2>2 DEF ReaderType
  <2>5. /\ conn' \in [Clients -> ConnType] /\ conn'["host"] = conn["host"]
        /\ conn'["reader"].open = k.open /\ conn'["reader"].to["client"] = k.to["client"]
        /\ k.open["server"] => /\ conn'["reader"].to["server"] = k.to["server"] \o SubSeq(rd.rest, 1, n)
                               /\ conn'["reader"].reset = k.reset
                               /\ Len(conn'["reader"].to["server"]) = Len(k.to["server"]) + n
        /\ ~ k.open["server"] => conn'["reader"].to = k.to
    <3> DEFINE c == "reader"
               s == "client"
               o == "server"
               data == rd.rest
    <3>1. /\ c \in Clients /\ "host" \in Clients /\ "host" # c /\ s \in Sides /\ o = Other(s)
          /\ data \in Strings /\ n \in 0..Len(data) /\ conn \in [Clients -> ConnType]
          /\ conn' = [conn EXCEPT ![c] = Put(@, s, data, n)]
      BY <1>2, <1>4, <2>1, OtherSides
    <3> HIDE DEF c, s, o, data
    <3>2. /\ conn' \in [Clients -> ConnType] /\ \A d \in Clients : d # c => conn'[d] = conn[d]
          /\ IsPut(conn'[c], conn[c], s, o, data, n)
      BY <3>1, Puts
    <3> QED
      BY <3>1, <3>2 DEF c, s, o, data, IsPut
  <2>6. Typed' /\ InOrder'
    BY <1>0, <1>1, <2>4, <2>5 DEF Typed, InOrder
  <2>7. Fits'
    <3>1. \A s \in Sides : Len(conn'["reader"].to[s]) <= Pipe
      BY <1>0, <1>2, <2>1, <2>5, OtherSides DEF Fits
    <3> QED
      BY <1>0, <1>1, <2>5, <3>1, OtherSides DEF Fits
  <2>8. Places'
    BY <1>0, <1>1, <2>2, <2>4 DEF Places, Looking, Going
  <2>9. Ends' /\ ToldRight'
    BY <1>0, <1>1, <2>4, <2>5, OtherSides DEF Ends, ToldRight, Looking, Going, ProxyOver
  <2>10. Calm'
    <3>1. k.open["server"] = ~ProxyOver
      BY <1>0, <1>2 DEF Ends
    <3>2. hd.in # "dead" => conn'["reader"].reset = "no" /\ conn'["host"].reset = "no"
      BY <1>0, <1>1, <2>5, <3>1 DEF Calm, Looking, ProxyOver, Clients
    <3> QED
      BY <1>0, <1>1, <2>4, <3>2, OtherSides DEF Calm, Looking
  <2>11. AnswersFlow'
    BY <1>0, <1>1, <2>4, <2>5, AnswersStay DEF Looking
  <2>12. RequestsFlow'
    <3>1. Taking' = Taking /\ px'["host"] = px["host"] /\ RequestsNear' = RequestsNear
      BY <1>1, <2>5 DEF Taking, RequestsNear
    <3>2. ASSUME Taking, px["host"].state = "on"
          PROVE  /\ Begins(RequestsFar', FlattenSeq(Calls(asked)))
                 /\ RequestsFar' \o rd'.rest = FlattenSeq(Calls(asked))
      <4> DEFINE a == RequestsNear \o px["host"].buf
                 far == k.to["server"]
                 t == FlattenSeq(Calls(asked))
      <4>1. k.open["server"]
        BY <1>0, <1>2, <3>2, OtherSides DEF Ends, ProxyOver
      <4>2. RequestsFar' = a \o (far \o SubSeq(rd.rest, 1, n))
        BY <2>5, <3>1, <4>1 DEF RequestsFar
      <4>3. a \in Strings /\ far \in Strings
        BY <1>0, StreamsTyped, TypedParts, OtherSides
      <4>4. (a \o far) \o rd.rest = t
        BY <1>0, <1>1, <3>2 DEF RequestsFlow, RequestsFar
      <4>6. rd.rest \in Strings /\ n \in 0..Len(rd.rest)
        BY <1>2, <2>1
      <4> HIDE DEF a, far, t
      <4>5. /\ Begins(a \o (far \o SubSeq(rd.rest, 1, n)), t)
            /\ (a \o (far \o SubSeq(rd.rest, 1, n))) \o left = t
        <5> DEFINE rest == rd.rest
        <5>1. rest \in Strings /\ n \in 0..Len(rest) /\ (a \o far) \o rest = t /\ left = Rest(rest, n)
          BY <4>4, <4>6 DEF left
        <5> HIDE DEF rest
        <5>2. GoesOut(a, far, rest, n, (a \o far) \o rest)
          BY <4>3, <5>1, SendsMove
        <5>3. GoesOut(a, far, rest, n, t)
          BY <5>1, <5>2
        <5> QED
          BY <5>1, <5>3 DEF rest, GoesOut
      <4> QED
        BY <2>4, <4>2, <4>5 DEF t
    <3> QED
      BY <1>0, <1>1, <3>1, <3>2 DEF RequestsFlow
  <2> QED
    BY <2>6, <2>7, <2>8, <2>9, <2>10, <2>11, <2>12 DEF SessionInv
<1> QED
  BY <1>3, <1>4 DEF ReaderSends
\* What is taken from a connection is held, and nothing is lost by it.
HoldsMore(u, got, near, n) ==
  /\ got \o SubSeq(near, 1, n) \in Strings
  /\ (u \o (got \o SubSeq(near, 1, n))) \o Rest(near, n) = (u \o got) \o near

\* What is taken from a connection is held as HoldsMore says.
LEMMA TakesMove ==
  ASSUME NEW u \in Strings, NEW got \in Strings, NEW near \in Strings, NEW n \in 0..Len(near)
  PROVE  HoldsMore(u, got, near, n)
<1> DEFINE h == SubSeq(near, 1, n)
           z == Rest(near, n)
<1>1. h \in Strings /\ z \in Strings /\ u \o got \in Strings /\ got \o h \in Strings
  <2>1. h \in Strings /\ z \in Strings
    BY SplitAt
  <2> HIDE DEF h, z
  <2> QED
    BY <2>1, Joins
<1>2. ((u \o got) \o h) \o z = (u \o got) \o near
  BY <1>1, HeadMoves
<1> HIDE DEF h, z
<1>3. (u \o got) \o h = u \o (got \o h)
  BY <1>1, JoinsAssociate, SMTT(30)
<1>4. (u \o (got \o h)) \o z = (u \o got) \o near
  BY <1>2, <1>3
<1> QED
  BY <1>1, <1>4 DEF h, z, HoldsMore

\* The answers go on when no number of them is lost.
LEMMA AnswersOn ==
  ASSUME AnswersFlow,
         Looking' => Looking /\ served' = served /\ AnswersNear' = AnswersNear,
         Looking' /\ px'["reader"].state = "on" =>
           px["reader"].state = "on" /\ AnswersFar' = AnswersFar,
         hd'.out \in {"waiting", "sending"} => hd.out \in {"waiting", "sending"} /\ hd'.rest = hd.rest
  PROVE  AnswersFlow'
BY DEF AnswersFlow

\* So do the requests.
LEMMA RequestsOn ==
  ASSUME RequestsFlow,
         Taking' => Taking /\ asked' = asked /\ RequestsNear' = RequestsNear,
         Taking' /\ px'["host"].state = "on" =>
           px["host"].state = "on" /\ RequestsFar' = RequestsFar,
         rd'.out \in {"waiting", "sending"} => rd.out \in {"waiting", "sending"} /\ rd'.rest = rd.rest
  PROVE  RequestsFlow'
BY DEF RequestsFlow

\* A reset comes only back from a peer that has gone.
LEMMA ResetKeeps == ASSUME SessionInv, NEW c \in Clients, ResetArrives(c) PROVE SessionInv'
<1>0. Typed /\ Fits /\ Places /\ Ends /\ Calm /\ ToldRight /\ AnswersFlow /\ RequestsFlow /\ InOrder
  BY DEF SessionInv
<1>1. /\ conn[c].reset = "coming" /\ conn' = [conn EXCEPT ![c].reset = "here"]
      /\ rd' = rd /\ px' = px /\ hd' = hd /\ tree' = tree
      /\ asked' = asked /\ served' = served /\ shown' = shown
  BY DEF ResetArrives
<1>2. conn \in [Clients -> ConnType]
  BY <1>0 DEF Typed
<1>3. /\ conn' \in [Clients -> ConnType]
      /\ \A d \in Clients : conn'[d].to = conn[d].to /\ conn'[d].open = conn[d].open
  BY <1>1, <1>2 DEF ConnType
<1>4. Typed' /\ Fits' /\ InOrder' /\ Places' /\ ToldRight'
  BY <1>0, <1>1, <1>3 DEF Typed, Fits, InOrder, Places, ToldRight, Looking, Going
<1>5. Ends'
  BY <1>0, <1>1, <1>3, OtherSides DEF Ends, Looking, Going, ProxyOver
<1>6. Calm'
  <2>1. ~ (Looking /\ hd.in # "dead")
    BY <1>0, <1>1 DEF Calm
  <2> QED
    BY <1>1, <2>1 DEF Calm, Looking
<1>7. AnswersFlow'
  BY <1>0, <1>1, <1>3, OtherSides, AnswersStay DEF Looking
<1>8. RequestsFlow'
  BY <1>0, <1>1, <1>3, OtherSides, RequestsStay DEF Taking
<1> QED
  BY <1>4, <1>5, <1>6, <1>7, <1>8 DEF SessionInv

\* The pane's session ends: what is on its way no longer matters to it.
LEMMA ReaderOverKeeps ==
  ASSUME SessionInv, NEW end \in {"over", "left"}, NEW told \in BOOLEAN, Looking, ReaderOver(end, told),
         told => hd.in = "dead" \/ (end = "left" /\ Len(shown) < Len(asked))
  PROVE  SessionInv'
<1>0. Typed /\ Fits /\ Places /\ Ends /\ Calm /\ ToldRight /\ AnswersFlow /\ RequestsFlow /\ InOrder
  BY DEF SessionInv
<1>1. /\ rd' = [in |-> end, out |-> "over", got |-> <<>>, rest |-> <<>>, told |-> told]
      /\ conn' = [conn EXCEPT !["reader"] = Closed(@, "client")]
      /\ px' = px /\ hd' = hd /\ tree' = tree /\ asked' = asked /\ served' = served /\ shown' = shown
  BY DEF ReaderOver
<1>2. /\ rd'.in = end /\ rd'.in # "reading" /\ rd'.out = "over" /\ rd'.got = <<>> /\ rd'.rest = <<>>
      /\ rd'.told = told /\ rd' \in ReaderType
  <2>1. <<>> \in Strings
    BY DEF Strings
  <2> QED
    BY <1>1, <2>1 DEF ReaderType
<1>3. /\ conn' \in [Clients -> ConnType] /\ conn'["host"] = conn["host"]
      /\ conn'["reader"].open["client"] = FALSE
      /\ conn'["reader"].open["server"] = conn["reader"].open["server"]
      /\ conn'["reader"].to["client"] = <<>>
      /\ conn'["reader"].to["server"] = conn["reader"].to["server"]
  <2> DEFINE c == "reader"
             s == "client"
             o == "server"
  <2>1. /\ c \in Clients /\ "host" \in Clients /\ "host" # c /\ s \in Sides /\ o = Other(s)
        /\ conn \in [Clients -> ConnType] /\ conn' = [conn EXCEPT ![c] = Closed(@, s)]
    BY <1>0, <1>1, OtherSides DEF Typed
  <2> HIDE DEF c, s, o
  <2>2. /\ conn' \in [Clients -> ConnType] /\ \A d \in Clients : d # c => conn'[d] = conn[d]
        /\ IsClosed(conn'[c], conn[c], s, o)
    BY <2>1, Closes
  <2> QED
    BY <2>1, <2>2 DEF c, s, o, IsClosed
<1>4. Typed' /\ InOrder'
  BY <1>0, <1>1, <1>2, <1>3 DEF Typed, InOrder
<1>5. Fits'
  <2>1. \A s \in Sides : Len(conn'["reader"].to[s]) <= Pipe
    <3>1. Len(<<>>) = 0 /\ Pipe \in Nat
      BY Consts
    <3> QED
      BY <1>0, <1>3, <3>1, OtherSides DEF Fits
  <2> QED
    BY <1>0, <1>1, <1>3, <2>1, OtherSides DEF Fits
<1>6. Places' /\ ToldRight'
  BY <1>0, <1>1, <1>2 DEF Places, ToldRight, Looking, Going
<1>7. Ends'
  BY <1>0, <1>1, <1>2, <1>3, OtherSides DEF Ends, Looking, Going, ProxyOver
<1>8. Calm' /\ AnswersFlow'
  BY <1>2 DEF Calm, AnswersFlow, Looking
<1>9. RequestsFlow'
  BY <1>0, <1>1, <1>2, <1>3, RequestsStay DEF Taking
<1> QED
  BY <1>4, <1>5, <1>6, <1>7, <1>8, <1>9 DEF SessionInv

\* One of the pane's coroutines throws.
LEMMA ReaderFailsKeeps == SessionInv /\ ReaderFails => SessionInv'
<1> SUFFICES ASSUME SessionInv, ReaderFails PROVE SessionInv'
  OBVIOUS
<1>1. Calm /\ Ends /\ Looking
  BY DEF SessionInv, ReaderFails, Looking
<1>2. conn["reader"].reset = "here" \/ ~conn["reader"].open["server"]
  BY OtherSides DEF ReaderFails, ReadFails
<1>3. hd.in = "dead"
  BY <1>1, <1>2, OtherSides DEF Calm, Ends, ProxyOver
<1>4. ReaderOver("over", TRUE)
  BY DEF ReaderFails
<1> QED
  BY <1>1, <1>3, <1>4, ReaderOverKeeps

\* What the reader holds is of an answer that has not been shown.
LEMMA HeldIsUnseen ==
  ASSUME SessionInv, Looking, rd.got # <<>>
  PROVE  Len(shown) < Len(asked)
<1>0. Typed /\ AnswersFlow /\ InOrder
  BY DEF SessionInv
<1> DEFINE parts == Replies(served)
           k == Len(shown)
           g == rd.got
           near == conn["reader"].to["client"]
<1>1. /\ parts \in Seq(Strings) /\ Len(parts) = Len(served) /\ k \in 0..Len(parts)
      /\ g \in Strings /\ g # <<>> /\ near \in Strings /\ Upto(parts, k) \o g \in Strings
  <2>1. parts \in Seq(Strings) /\ Len(parts) = Len(served)
    BY <1>0, RepliesTyped DEF Typed
  <2> QED
    BY <1>0, <2>1, TypedParts, StreamsTyped, OtherSides DEF AnswersUpto
<1>2. Begins((Upto(parts, k) \o g) \o near, FlattenSeq(parts))
  BY <1>0 DEF AnswersFlow, AnswersNear
<1> HIDE DEF parts, g, near
<1>3. Begins(Upto(parts, k) \o g, FlattenSeq(parts))
  BY <1>1, <1>2, BeginsShorter
<1>4. k + 1 \in 1..Len(parts)
  <2> HIDE DEF k
  <2> QED
    BY <1>1, <1>3, NextPart
<1> QED
  BY <1>0, <1>1, <1>4, TypedParts

\* The user leaves the pane.
LEMMA LeaveKeeps == SessionInv /\ Leave => SessionInv'
<1> SUFFICES ASSUME SessionInv, Leave PROVE SessionInv'
  OBVIOUS
<1> DEFINE told == rd.got # <<>>
<1>1. Looking /\ ReaderOver("left", told) /\ told \in BOOLEAN
  BY DEF Leave, Looking
<1>2. told => Len(shown) < Len(asked)
  BY <1>1, HeldIsUnseen
<1> HIDE DEF told
<1> QED
  BY <1>1, <1>2, ReaderOverKeeps

\* The pane's incoming_msg takes a part of an answer, or the end of it, and shows it.
LEMMA ReaderTakesKeeps == SessionInv /\ ReaderTakes => SessionInv'
<1> SUFFICES ASSUME SessionInv, ReaderTakes PROVE SessionInv'
  OBVIOUS
<1> DEFINE near == conn["reader"].to["client"]
           u == Upto(Replies(served), Len(shown))
           n == ReaderNeeds(rd.got, near)
           g == rd.got \o SubSeq(near, 1, n)
<1>0. Typed /\ Fits /\ Places /\ Ends /\ Calm /\ ToldRight /\ AnswersFlow /\ RequestsFlow /\ InOrder
  BY DEF SessionInv
<1>1. /\ rd.in = "reading" /\ near # <<>>
      /\ px' = px /\ hd' = hd /\ tree' = tree /\ asked' = asked /\ served' = served
  BY DEF ReaderTakes, Arrived
<1>2. /\ conn' = [conn EXCEPT !["reader"] = Taken(@, "client", n)]
      /\ \/ RecvAnswer(g) = Short /\ rd' = [rd EXCEPT !.got = g] /\ shown' = shown
         \/ \E answer \in RecvAnswer(g) :
              rd' = [rd EXCEPT !.got = answer[2]] /\ shown' = Append(shown, answer[1])
  BY DEF ReaderTakes, Arrived, ReaderNeeds, Needed
<1>3. /\ conn \in [Clients -> ConnType] /\ rd \in ReaderType /\ near \in Strings /\ rd.got \in Strings
      /\ served \in Seq(Answers) /\ shown \in Seq(Answers) /\ Len(shown) \in 0..Len(served)
      /\ u \in Strings
  <2>1. /\ Replies(served) \in Seq(Strings) /\ Len(Replies(served)) = Len(served)
    BY <1>0, RepliesTyped DEF Typed
  <2>2. Len(shown) \in 0..Len(served)
    BY <1>0, TypedParts
  <2>3. u \in Strings
    BY <2>1, <2>2, UptoProps
  <2> QED
    BY <1>0, <2>2, <2>3, TypedParts, OtherSides DEF Typed
<1>4. Begins((u \o rd.got) \o near, FlattenSeq(Replies(served)))
  BY <1>0, <1>1 DEF AnswersFlow, AnswersNear, Looking
<1> HIDE DEF n, near
<1>5. TakesAnswer(served, Len(shown), rd.got, near, n)
  <2> DEFINE k == Len(shown)
             got == rd.got
  <2>1. /\ k \in 0..Len(served) /\ got \in Strings /\ near # <<>> /\ n = ReaderNeeds(got, near)
        /\ Begins((Upto(Replies(served), k) \o got) \o near, FlattenSeq(Replies(served)))
    BY <1>1, <1>3, <1>4 DEF n
  <2> HIDE DEF k, got
  <2>2. TakesAnswer(served, k, got, near, n)
    BY <1>3, <2>1, AnswerTaken
  <2> QED
    BY <2>2 DEF k, got
<1>6. /\ n \in 0..Len(near) /\ g \in Strings
      /\ (u \o g) \o Rest(near, n) = (u \o rd.got) \o near
  <2> DEFINE got == rd.got
  <2>1. n \in 0..Len(near) /\ got \in Strings
    BY <1>3, <1>5 DEF TakesAnswer
  <2> HIDE DEF u, got
  <2>2. HoldsMore(u, got, near, n)
    BY <1>3, <2>1, TakesMove
  <2> QED
    BY <2>1, <2>2 DEF got, HoldsMore
<1>16. RecvAnswer(g) # Short =>
         /\ Len(shown) + 1 \in 1..Len(served)
         /\ \E z \in Strings : /\ RecvAnswer(g) = {<<served[Len(shown) + 1], z>>}
                               /\ Upto(Replies(served), Len(shown) + 1) \o z = u \o g
  BY <1>5 DEF TakesAnswer
<1> HIDE DEF g
<1>7. /\ /\ rd' \in ReaderType
      /\ rd'.in = rd.in
      /\ rd'.out = rd.out
      /\ rd'.rest = rd.rest
      /\ rd'.told = rd.told
      /\ shown' \in Seq(Answers) /\ Len(shown') <= Len(served)
      /\ \A i \in 1..Len(shown') : shown'[i] = served[i]
      /\ Upto(Replies(served), Len(shown')) \o rd'.got = u \o g
  <2>1. CASE RecvAnswer(g) = Short /\ rd' = [rd EXCEPT !.got = g] /\ shown' = shown
    <3>1. /\ rd' \in ReaderType /\ rd'.in = rd.in /\ rd'.out = rd.out /\ rd'.rest = rd.rest
          /\ rd'.told = rd.told /\ rd'.got = g
      BY <1>3, <1>6, <2>1 DEF ReaderType
    <3> QED
      BY <1>0, <1>3, <2>1, <3>1 DEF InOrder
  <2>2. ASSUME NEW answer \in RecvAnswer(g), rd' = [rd EXCEPT !.got = answer[2]],
               shown' = Append(shown, answer[1])
        PROVE  /\ rd' \in ReaderType /\ rd'.in = rd.in /\ rd'.out = rd.out /\ rd'.rest = rd.rest
               /\ rd'.told = rd.told /\ shown' \in Seq(Answers) /\ Len(shown') <= Len(served)
               /\ \A i \in 1..Len(shown') : shown'[i] = served[i]
               /\ Upto(Replies(served), Len(shown')) \o rd'.got = u \o g
    <3>1. RecvAnswer(g) # Short
      BY <2>2 DEF Short
    <3>2. PICK z \in Strings : /\ RecvAnswer(g) = {<<served[Len(shown) + 1], z>>}
                               /\ Upto(Replies(served), Len(shown) + 1) \o z = u \o g
      BY <1>16, <3>1
    <3>3. answer = <<served[Len(shown) + 1], z>>
      BY <2>2, <3>2
    <3>4. rd' = [rd EXCEPT !.got = z] /\ shown' = Append(shown, served[Len(shown) + 1])
      BY <2>2, <3>3
    <3>5. /\ rd' \in ReaderType /\ rd'.in = rd.in /\ rd'.out = rd.out /\ rd'.rest = rd.rest
          /\ rd'.told = rd.told /\ rd'.got = z
      BY <1>3, <3>4 DEF ReaderType
    <3>6. Len(shown) + 1 \in 1..Len(served) /\ served[Len(shown) + 1] \in Answers
      BY <1>3, <1>16, <3>1, ElementOfSeq
    <3>7. /\ shown' \in Seq(Answers) /\ Len(shown') = Len(shown) + 1
          /\ shown'[Len(shown) + 1] = served[Len(shown) + 1]
          /\ \A i \in 1..Len(shown) : shown'[i] = shown[i]
      BY <1>3, <3>4, <3>6
    <3>8. \A i \in 1..Len(shown') : i \in 1..Len(shown) \/ i = Len(shown) + 1
      BY <1>3, <3>7
    <3>9. \A i \in 1..Len(shown') : shown'[i] = served[i]
      BY <1>0, <3>7, <3>8 DEF InOrder
    <3>10. Len(shown') <= Len(served)
      BY <1>3, <3>6, <3>7
    <3> QED
      BY <3>2, <3>5, <3>7, <3>9, <3>10
  <2> QED
    BY <1>2, <2>1, <2>2
<1>8. /\ conn' \in [Clients -> ConnType] /\ conn'["host"] = conn["host"]
      /\ conn'["reader"].open = conn["reader"].open /\ conn'["reader"].reset = conn["reader"].reset
      /\ conn'["reader"].to["client"] = Rest(near, n)
      /\ conn'["reader"].to["server"] = conn["reader"].to["server"]
      /\ Len(conn'["reader"].to["client"]) <= Len(near)
  <2> DEFINE c == "reader"
             s == "client"
             o == "server"
  <2>1. /\ c \in Clients /\ "host" \in Clients /\ "host" # c /\ s \in Sides /\ o = Other(s)
        /\ conn \in [Clients -> ConnType] /\ n \in 0..Len(conn[c].to[s])
        /\ conn' = [conn EXCEPT ![c] = Taken(@, s, n)]
    BY <1>2, <1>3, <1>6, OtherSides DEF near
  <2> HIDE DEF c, s, o
  <2>2. /\ conn' \in [Clients -> ConnType] /\ \A d \in Clients : d # c => conn'[d] = conn[d]
        /\ IsTaken(conn'[c], conn[c], s, o, n)
    BY <2>1, Takes
  <2> QED
    BY <2>1, <2>2 DEF c, s, o, near, IsTaken
<1>9. Typed' /\ InOrder'
  <2>1. Typed'
    BY <1>0, <1>1, <1>7, <1>8 DEF Typed
  <2>2. InOrder'
    BY <1>0, <1>1, <1>7 DEF InOrder
  <2> QED
    BY <2>1, <2>2
<1>10. Fits'
  <2>1. \A s \in Sides : Len(conn'["reader"].to[s]) <= Pipe
    <3>1. /\ Len(conn'["reader"].to["client"]) \in Nat
          /\ Len(near) \in Nat
          /\ Pipe \in Nat
          /\ Len(near) <= Pipe
      BY <1>0, <1>3, <1>8, Joins, Consts, OtherSides DEF Fits, near, ConnType
    <3>2. Len(conn'["reader"].to["client"]) <= Pipe
      BY <1>8, <3>1
    <3> QED
      BY <1>0, <1>8, <3>2, OtherSides DEF Fits
  <2> QED
    BY <1>0, <1>1, <1>8, <2>1, OtherSides DEF Fits
<1>11. Places' /\ ToldRight'
  BY <1>0, <1>1, <1>7 DEF Places, ToldRight, Looking, Going
<1>12. Ends' /\ Calm'
  BY <1>0, <1>1, <1>7, <1>8, OtherSides DEF Ends, Calm, Looking, Going, ProxyOver
<1>13. AnswersNear' = AnswersNear
  BY <1>1, <1>6, <1>7, <1>8 DEF AnswersNear, near
<1>14. AnswersFlow'
  <2>1. AnswersFar' = AnswersFar
    BY <1>1, <1>8, <1>13 DEF AnswersFar
  <2> QED
    BY <1>0, <1>1, <1>7, <1>13, <2>1, AnswersOn DEF Looking
<1>15. RequestsFlow'
  BY <1>0, <1>1, <1>7, <1>8, RequestsStay DEF Taking
<1> QED
  BY <1>9, <1>10, <1>11, <1>12, <1>14, <1>15 DEF SessionInv

\* Where a direction of the proxy comes from.
LEMMA SourceIs ==
  ASSUME NEW d \in Clients
  PROVE  /\ Source(d) \in Clients /\ Source(d) # d /\ Clients = {d, Source(d)}
         /\ "client" \in Sides /\ "server" \in Sides /\ Other("client") = "server"
         /\ Other("server") = "client" /\ Sides = {"client", "server"}
  BY OtherSides DEF Source

\* A direction of the proxy fills its buffer.
LEMMA ProxyReadsKeeps == ASSUME SessionInv, NEW d \in Clients, ProxyReads(d) PROVE SessionInv'
<1> DEFINE e == Source(d)
           far == conn[e].to["server"]
           n == Min({Buf, Len(far)})
<1>0. Typed /\ Fits /\ Places /\ Ends /\ Calm /\ ToldRight /\ AnswersFlow /\ RequestsFlow /\ InOrder
  BY DEF SessionInv
<1>1. /\ px[d].state = "on" /\ px[d].buf = <<>>
      /\ px' = [px EXCEPT ![d].buf = SubSeq(far, 1, n)]
      /\ conn' = [conn EXCEPT ![e] = Taken(@, "server", n)]
      /\ rd' = rd /\ hd' = hd /\ tree' = tree /\ asked' = asked /\ served' = served /\ shown' = shown
  BY DEF ProxyReads, Arrived
<1> HIDE DEF n
<1>2. /\ e \in Clients /\ e # d /\ Clients = {d, e}
      /\ conn \in [Clients -> ConnType] /\ px \in [Clients -> ProxyType] /\ far \in Strings
  BY <1>0, SourceIs, TypedParts DEF Typed
<1> HIDE DEF e, far
<1>3. n \in 0..Len(far) /\ n <= Buf
  <2> DEFINE a == Buf
             b == Len(far)
  <2>1. a \in Nat /\ b \in Nat /\ n = Min({a, b})
    BY <1>2, Joins, Consts DEF n
  <2> HIDE DEF a, b
  <2>2. n \in {a, b} /\ n <= a /\ n <= b
    BY <2>1, MinOfTwo
  <2> QED
    BY <2>1, <2>2 DEF a, b
<1>4. SubSeq(far, 1, n) \in Strings /\ Len(SubSeq(far, 1, n)) = n
  BY <1>2, <1>3, SplitAt
<1>5. /\ px' \in [Clients -> ProxyType] /\ \A c \in Clients : px'[c].state = px[c].state
      /\ px'[d].buf = SubSeq(far, 1, n) /\ px'[e] = px[e]
  BY <1>1, <1>2, <1>4 DEF ProxyType
<1>6. /\ conn' \in [Clients -> ConnType] /\ conn'[d] = conn[d]
      /\ conn'[e].open = conn[e].open /\ conn'[e].reset = conn[e].reset
      /\ conn'[e].to["server"] = Rest(far, n) /\ conn'[e].to["client"] = conn[e].to["client"]
      /\ Len(conn'[e].to["server"]) <= Len(far)
  <2> DEFINE s == "server"
             o == "client"
  <2>1. /\ s \in Sides /\ o = Other(s) /\ n \in 0..Len(conn[e].to[s])
        /\ conn' = [conn EXCEPT ![e] = Taken(@, s, n)]
    BY <1>1, <1>3, OtherSides DEF far
  <2> HIDE DEF s, o
  <2>2. /\ conn' \in [Clients -> ConnType] /\ \A c \in Clients : c # e => conn'[c] = conn[c]
        /\ IsTaken(conn'[e], conn[e], s, o, n)
    BY <1>2, <2>1, Takes
  <2> QED
    BY <1>2, <2>2 DEF s, o, IsTaken, far
<1>7. Typed' /\ InOrder' /\ Places' /\ ToldRight'
  <2>1. Typed' /\ InOrder' /\ ToldRight'
    BY <1>0, <1>1, <1>5, <1>6 DEF Typed, InOrder, ToldRight, Looking
  <2>2. \A c \in Clients : px'[c].state = "thrown" => px'[c].buf = <<>>
    BY <1>0, <1>1, <1>2, <1>5 DEF Places
  <2>3. Places'
    BY <1>0, <1>1, <2>2 DEF Places, Looking, Going
  <2> QED
    BY <2>1, <2>3
<1>8. Fits'
  <2>1. \A c \in Clients : Len(px'[c].buf) <= Buf
    BY <1>0, <1>2, <1>3, <1>4, <1>5 DEF Fits
  <2>2. \A c \in Clients, s \in Sides : Len(conn'[c].to[s]) <= Pipe
    <3>1. Len(far) <= Pipe /\ Len(far) \in Nat /\ Pipe \in Nat /\ Len(conn'[e].to["server"]) \in Nat
      BY <1>0, <1>2, <1>6, Joins, Consts, OtherSides DEF Fits, far, ConnType
    <3>2. Len(conn'[e].to["server"]) <= Pipe
      BY <1>6, <3>1
    <3>3. \A s \in Sides : Len(conn'[e].to[s]) <= Pipe
      BY <1>0, <1>2, <1>6, <3>2, OtherSides DEF Fits
    <3>4. \A s \in Sides : Len(conn'[d].to[s]) <= Pipe
      BY <1>0, <1>6 DEF Fits
    <3> QED
      BY <1>2, <3>3, <3>4
  <2> QED
    BY <1>0, <1>1, <2>1, <2>2 DEF Fits
<1>9. \A c \in Clients : conn'[c].open = conn[c].open /\ conn'[c].reset = conn[c].reset
  BY <1>2, <1>6
<1>10. Ends' /\ Calm'
  <2>1. ProxyOver' = ProxyOver
    BY <1>5 DEF ProxyOver
  <2> QED
    BY <1>0, <1>1, <1>5, <1>9, <2>1, OtherSides DEF Ends, Calm, Looking, Going
<1>11. CASE d = "reader"
  <2>1. e = "host"
    BY <1>11, OtherSides DEF e
  <2>2. AnswersNear' = AnswersNear
    BY <1>1, <1>6, <1>11 DEF AnswersNear
  <2>3. AnswersFar' = AnswersFar
    <3> DEFINE a == AnswersNear
    <3>1. AnswersFar = (a \o <<>>) \o far /\ AnswersFar' = (a \o SubSeq(far, 1, n)) \o Rest(far, n)
      BY <1>1, <1>5, <1>6, <1>11, <2>1, <2>2 DEF AnswersFar, far
    <3>2. a \in Strings
      BY <1>0, StreamsTyped
    <3> HIDE DEF a
    <3>3. (a \o SubSeq(far, 1, n)) \o Rest(far, n) = (a \o <<>>) \o far
      BY <1>2, <1>3, <3>2, ReadsMove
    <3> QED
      BY <3>1, <3>3
  <2>4. AnswersFlow'
    BY <1>0, <1>1, <1>5, <2>2, <2>3, AnswersOn, OtherSides DEF Looking
  <2>5. RequestsFlow'
    BY <1>0, <1>1, <1>5, <1>6, <1>11, <2>1, RequestsStay DEF Taking
  <2> QED
    BY <1>7, <1>8, <1>10, <2>4, <2>5 DEF SessionInv
<1>12. CASE d = "host"
  <2>1. e = "reader"
    BY <1>12, OtherSides DEF e
  <2>2. RequestsNear' = RequestsNear
    BY <1>1, <1>6, <1>12 DEF RequestsNear
  <2>3. RequestsFar' = RequestsFar
    <3> DEFINE a == RequestsNear
    <3>1. RequestsFar = (a \o <<>>) \o far /\ RequestsFar' = (a \o SubSeq(far, 1, n)) \o Rest(far, n)
      BY <1>1, <1>5, <1>6, <1>12, <2>1, <2>2 DEF RequestsFar, far
    <3>2. a \in Strings
      BY <1>0, StreamsTyped
    <3> HIDE DEF a
    <3>3. (a \o SubSeq(far, 1, n)) \o Rest(far, n) = (a \o <<>>) \o far
      BY <1>2, <1>3, <3>2, ReadsMove
    <3> QED
      BY <3>1, <3>3
  <2>4. RequestsFlow'
    BY <1>0, <1>1, <1>5, <2>2, <2>3, RequestsOn, OtherSides DEF Taking
  <2>5. AnswersFlow'
    BY <1>0, <1>1, <1>5, <1>6, <1>12, <2>1, AnswersStay DEF Looking
  <2> QED
    BY <1>7, <1>8, <1>10, <2>4, <2>5 DEF SessionInv
<1> QED
  BY <1>11, <1>12, OtherSides

\* A direction of the proxy writes a part of its buffer.
LEMMA ProxyWritesKeeps == ASSUME SessionInv, NEW d \in Clients, ProxyWrites(d) PROVE SessionInv'
<1> DEFINE e == Source(d)
           buf == px[d].buf
           near == conn[d].to["client"]
           n == Room(d, "server", buf)
           left == Rest(buf, n)
<1>0. Typed /\ Fits /\ Places /\ Ends /\ Calm /\ ToldRight /\ AnswersFlow /\ RequestsFlow /\ InOrder
  BY DEF SessionInv
<1>1. /\ px[d].state = "on" /\ n > 0
      /\ px' = [px EXCEPT ![d].buf = SubSeq(@, n + 1, Len(@))]
      /\ conn' = [conn EXCEPT ![d] = Put(@, "server", buf, n)]
      /\ rd' = rd /\ hd' = hd /\ tree' = tree /\ asked' = asked /\ served' = served /\ shown' = shown
  BY DEF ProxyWrites
<1>2. /\ e \in Clients /\ e # d /\ Clients = {d, e}
      /\ conn \in [Clients -> ConnType] /\ px \in [Clients -> ProxyType]
      /\ near \in Strings /\ buf \in Strings /\ "server" \in Sides /\ "client" = Other("server")
  BY <1>0, SourceIs, TypedParts DEF Typed
<1> HIDE DEF e, near, n
<1>3. n \in 1..Len(buf) /\ n \in 0..Len(buf) /\ Len(near) + n <= Pipe
  <2> DEFINE s == "server"
             o == "client"
             data == buf
  <2>1. s \in Sides /\ o = Other(s) /\ data \in Strings /\ n = Room(d, s, data) /\ n > 0
    BY <1>1, <1>2 DEF n
  <2> HIDE DEF s, o, data
  <2>2. n \in 1..Len(data) /\ n \in 0..Len(data) /\ Len(conn[d].to[o]) + n <= Pipe
    BY <1>0, <2>1, RoomFits
  <2> QED
    BY <2>2 DEF s, o, data, near
<1> HIDE DEF left
<1>4. left \in Strings /\ left = SubSeq(buf, n + 1, Len(buf)) /\ Len(left) <= Len(buf)
  <2> HIDE DEF buf
  <2>1. Rest(buf, n) \in Strings /\ Rest(buf, n) = SubSeq(buf, n + 1, Len(buf))
    BY <1>2, <1>3, RestIsEmpty
  <2>2. Len(Rest(buf, n)) = Len(buf) - n /\ Len(buf) \in Nat
    BY <1>2, <1>3, SplitAt, Joins
  <2> QED
    BY <1>3, <2>1, <2>2 DEF left
<1>5. /\ px' \in [Clients -> ProxyType] /\ \A c \in Clients : px'[c].state = px[c].state
      /\ px'[d].buf = left /\ px'[e] = px[e]
  <2>1. px' = [px EXCEPT ![d].buf = left]
    BY <1>1, <1>4
  <2> QED
    BY <1>2, <1>4, <2>1 DEF ProxyType
<1>6. /\ conn' \in [Clients -> ConnType] /\ conn'[e] = conn[e]
      /\ conn'[d].open = conn[d].open /\ conn'[d].to["server"] = conn[d].to["server"]
      /\ conn[d].open["client"] => /\ conn'[d].to["client"] = near \o SubSeq(buf, 1, n)
                                   /\ conn'[d].reset = conn[d].reset
                                   /\ Len(conn'[d].to["client"]) = Len(near) + n
      /\ ~ conn[d].open["client"] => conn'[d].to = conn[d].to
  <2> DEFINE s == "server"
             o == "client"
             data == buf
  <2>1. /\ s \in Sides /\ o = Other(s) /\ data \in Strings /\ n \in 0..Len(data)
        /\ conn' = [conn EXCEPT ![d] = Put(@, s, data, n)]
    BY <1>1, <1>2, <1>3
  <2> HIDE DEF s, o, data
  <2>2. /\ conn' \in [Clients -> ConnType] /\ \A c \in Clients : c # d => conn'[c] = conn[c]
        /\ IsPut(conn'[d], conn[d], s, o, data, n)
    BY <1>2, <2>1, Puts
  <2> QED
    BY <1>2, <2>2 DEF s, o, data, IsPut, near
<1> HIDE DEF buf
<1>7. Typed' /\ InOrder' /\ Places' /\ ToldRight'
  <2>1. Typed' /\ InOrder' /\ ToldRight'
    BY <1>0, <1>1, <1>5, <1>6 DEF Typed, InOrder, ToldRight, Looking
  <2>2. \A c \in Clients : px'[c].state = "thrown" => px'[c].buf = <<>>
    BY <1>0, <1>1, <1>2, <1>5 DEF Places
  <2>3. Places'
    BY <1>0, <1>1, <2>2 DEF Places, Looking, Going
  <2> QED
    BY <2>1, <2>3
<1>8. Fits'
  <2>1. \A c \in Clients : Len(px'[c].buf) <= Buf
    <3>1. Len(buf) <= Buf /\ Len(buf) \in Nat /\ Len(left) \in Nat /\ Buf \in Nat
      BY <1>0, <1>2, <1>4, Joins, Consts DEF Fits, buf
    <3>3. Len(left) <= Len(buf)
      BY <1>4
    <3>2. Len(left) <= Buf
      BY <3>1, <3>3
    <3> QED
      BY <1>0, <1>2, <1>5, <3>2 DEF Fits
  <2>2. \A c \in Clients, s \in Sides : Len(conn'[c].to[s]) <= Pipe
    <3>1. Len(conn'[d].to["client"]) <= Pipe /\ Len(conn'[d].to["server"]) <= Pipe
      BY <1>0, <1>3, <1>6, OtherSides DEF Fits, near
    <3>2. \A s \in Sides : Len(conn'[e].to[s]) <= Pipe
      BY <1>0, <1>2, <1>6 DEF Fits
    <3> QED
      BY <1>2, <3>1, <3>2, OtherSides
  <2> QED
    BY <1>0, <1>1, <2>1, <2>2 DEF Fits
<1>9. Ends'
  <2>1. ProxyOver' = ProxyOver /\ \A c \in Clients : conn'[c].open = conn[c].open
    BY <1>2, <1>5, <1>6 DEF ProxyOver
  <2> QED
    BY <1>0, <1>1, <2>1, OtherSides DEF Ends, Looking, Going
<1>10. Calm'
  <2>1. Looking /\ hd.in # "dead" => conn[d].open["client"]
    BY <1>0, OtherSides DEF Calm, Ends, Looking, Going
  <2>2. Looking /\ hd.in # "dead" => \A c \in Clients : conn'[c].reset = conn[c].reset
    BY <1>2, <1>6, <2>1
  <2> QED
    BY <1>0, <1>1, <1>5, <2>2 DEF Calm, Looking
<1>11. CASE d = "reader"
  <2>1. e = "host"
    BY <1>11, OtherSides DEF e
  <2> DEFINE a == AnswersUpto
             far == conn["host"].to["server"]
             t == FlattenSeq(Replies(served))
  <2>2. a \in Strings /\ far \in Strings
    BY <1>0, StreamsTyped, TypedParts, OtherSides
  <2>3. AnswersNear = a \o near /\ AnswersFar = ((a \o near) \o buf) \o far
    BY <1>11 DEF AnswersNear, AnswersFar, AnswersUpto, near, buf
  <2>4. Looking => /\ AnswersNear' = a \o (near \o SubSeq(buf, 1, n))
                   /\ AnswersFar' = ((a \o (near \o SubSeq(buf, 1, n))) \o left) \o far
    <3>1. Looking => conn[d].open["client"]
      BY <1>0, <1>11 DEF Ends
    <3> QED
      BY <1>1, <1>5, <1>6, <1>11, <2>1, <3>1 DEF AnswersNear, AnswersFar, AnswersUpto
  <2>5. Looking =>
          /\ Begins(((a \o near) \o buf) \o far, t)
          /\ hd.out \in {"waiting", "sending"} => (((a \o near) \o buf) \o far) \o hd.rest = t
    BY <1>0, <1>1, <1>11, <2>3 DEF AnswersFlow
  <2>6. px'["reader"].state = "on" /\ hd' = hd /\ t' = t /\ Looking' = Looking
    BY <1>1, <1>5, <1>11 DEF Looking
  <2> HIDE DEF a, far, t
  <2>7. PassesOn(a, near, buf, far, n, t)
    BY <1>2, <1>3, <2>2, WritesMove
  <2>8. Looking => Begins(AnswersNear', t) /\ AnswersFar' = ((a \o near) \o buf) \o far
    BY <2>4, <2>5, <2>7 DEF PassesOn, left
  <2>9. AnswersFlow'
    BY <2>5, <2>6, <2>8 DEF AnswersFlow, t
  <2>10. RequestsFlow'
    BY <1>0, <1>1, <1>5, <1>6, <1>11, <2>1, RequestsStay DEF Taking
  <2> QED
    BY <1>7, <1>8, <1>9, <1>10, <2>9, <2>10 DEF SessionInv
<1>12. CASE d = "host"
  <2>1. e = "reader"
    BY <1>12, OtherSides DEF e
  <2> DEFINE a == RequestsUpto
             far == conn["reader"].to["server"]
             t == FlattenSeq(Calls(asked))
  <2>2. a \in Strings /\ far \in Strings
    BY <1>0, StreamsTyped, TypedParts, OtherSides
  <2>3. RequestsNear = a \o near /\ RequestsFar = ((a \o near) \o buf) \o far
    BY <1>12 DEF RequestsNear, RequestsFar, RequestsUpto, near, buf
  <2>4. Taking => /\ RequestsNear' = a \o (near \o SubSeq(buf, 1, n))
                  /\ RequestsFar' = ((a \o (near \o SubSeq(buf, 1, n))) \o left) \o far
    <3>1. Taking => conn[d].open["client"]
      BY <1>0, <1>12 DEF Ends, Taking, Going
    <3> QED
      BY <1>1, <1>5, <1>6, <1>12, <2>1, <3>1 DEF RequestsNear, RequestsFar, RequestsUpto
  <2>5. Taking =>
          /\ Begins(((a \o near) \o buf) \o far, t)
          /\ rd.out \in {"waiting", "sending"} => (((a \o near) \o buf) \o far) \o rd.rest = t
    BY <1>0, <1>1, <1>12, <2>3 DEF RequestsFlow
  <2>6. px'["host"].state = "on" /\ rd' = rd /\ t' = t /\ Taking' = Taking
    BY <1>1, <1>5, <1>12 DEF Taking
  <2> HIDE DEF a, far, t
  <2>7. PassesOn(a, near, buf, far, n, t)
    BY <1>2, <1>3, <2>2, WritesMove
  <2>8. Taking => Begins(RequestsNear', t) /\ RequestsFar' = ((a \o near) \o buf) \o far
    BY <2>4, <2>5, <2>7 DEF PassesOn, left
  <2>9. RequestsFlow'
    BY <2>5, <2>6, <2>8 DEF RequestsFlow, t
  <2>10. AnswersFlow'
    BY <1>0, <1>1, <1>5, <1>6, <1>12, <2>1, AnswersStay DEF Looking
  <2> QED
    BY <1>7, <1>8, <1>9, <1>10, <2>9, <2>10 DEF SessionInv
<1> QED
  BY <1>11, <1>12, OtherSides

\* A direction of the proxy throws, and with the second the sockets are closed.
LEMMA ProxyFailsKeeps == ASSUME SessionInv, NEW d \in Clients, ProxyFails(d) PROVE SessionInv'
<1> DEFINE e == Source(d)
<1>0. Typed /\ Fits /\ Places /\ Ends /\ Calm /\ ToldRight /\ AnswersFlow /\ RequestsFlow /\ InOrder
  BY DEF SessionInv
<1>1. /\ px[d].state = "on"
      /\ IF px[d].buf = <<>> THEN ReadFails(e, "server") ELSE WriteFails(d)
      /\ px' = [px EXCEPT ![d] = [state |-> "thrown", buf |-> <<>>]]
      /\ conn' = IF px[e].state = "on" THEN conn ELSE [c \in Clients |-> Closed(conn[c], "server")]
      /\ rd' = rd /\ hd' = hd /\ tree' = tree /\ asked' = asked /\ served' = served /\ shown' = shown
  BY DEF ProxyFails, ProxyThrows
<1>2. /\ e \in Clients /\ e # d /\ Clients = {d, e}
      /\ conn \in [Clients -> ConnType] /\ px \in [Clients -> ProxyType] /\ <<>> \in Strings
  BY <1>0, SourceIs DEF Typed, Strings
<1>3. ~ (Looking /\ hd.in # "dead")
  <2>1. ReadFails(e, "server") => conn[e].reset = "here" \/ ~conn[e].open["client"]
    BY OtherSides DEF ReadFails
  <2>2. WriteFails(d) => conn[d].reset = "here"
    BY DEF WriteFails
  <2>3. \E c \in Clients : conn[c].reset = "here" \/ ~conn[c].open["client"]
    BY <1>1, <1>2, <2>1, <2>2
  <2> QED
    BY <1>0, <2>3, OtherSides DEF Calm, Ends, Looking, Going
<1> HIDE DEF e
<1>4. /\ px' \in [Clients -> ProxyType] /\ px'[d].state = "thrown" /\ px'[d].buf = <<>>
      /\ px'[e] = px[e]
  BY <1>1, <1>2 DEF ProxyType
<1>5. \A c \in Clients : px[e].state # "on" => IsClosed(conn'[c], conn[c], "server", "client")
  <2> SUFFICES ASSUME NEW c \in Clients, px[e].state # "on"
               PROVE  IsClosed(conn'[c], conn[c], "server", "client")
    OBVIOUS
  <2> DEFINE k == conn[c]
             s == "server"
             o == "client"
  <2>1. conn'[c] = Closed(k, s) /\ k \in ConnType /\ s \in Sides /\ o = Other(s)
    BY <1>1, <1>2, OtherSides
  <2> HIDE DEF k, s, o
  <2>2. IsClosed(Closed(k, s), k, s, o)
    BY <2>1, ClosedIs DEF IsClosed
  <2> QED
    BY <2>1, <2>2 DEF k, s, o
<1>6. /\ conn' \in [Clients -> ConnType]
      /\ \A c \in Clients : conn'[c].to["client"] = conn[c].to["client"]
      /\ \A c \in Clients : conn'[c].open["client"] = conn[c].open["client"]
      /\ \A c \in Clients : \/ conn'[c].to["server"] = conn[c].to["server"]
                            \/ conn'[c].to["server"] = <<>>
  <2>1. CASE px[e].state = "on"
    BY <1>1, <1>2, <2>1
  <2>2. CASE px[e].state # "on"
    <3>1. \A c \in Clients : Closed(conn[c], "server") \in ConnType
      BY <1>2, ClosedIs, OtherSides
    <3>2. conn' \in [Clients -> ConnType]
      BY <1>1, <2>2, <3>1
    <3> QED
      BY <1>5, <2>2, <3>2 DEF IsClosed
  <2> QED
    BY <2>1, <2>2
<1>7. Typed' /\ InOrder' /\ ToldRight'
  BY <1>0, <1>1, <1>4, <1>6 DEF Typed, InOrder, ToldRight, Looking
<1>8. Places'
  <2>1. \A c \in Clients : px'[c].state = "thrown" => px'[c].buf = <<>>
    BY <1>0, <1>2, <1>4 DEF Places
  <2> QED
    BY <1>0, <1>1, <2>1 DEF Places, Looking, Going
<1>9. Fits'
  <2>1. Len(<<>>) = 0 /\ 0 <= Pipe /\ 0 <= Buf
    BY Consts
  <2>2. \A c \in Clients : Len(px'[c].buf) <= Buf
    BY <1>0, <1>2, <1>4, <2>1 DEF Fits
  <2>3. \A c \in Clients, s \in Sides : Len(conn'[c].to[s]) <= Pipe
    BY <1>0, <1>6, <2>1, OtherSides DEF Fits
  <2> QED
    BY <1>0, <1>1, <2>2, <2>3 DEF Fits
<1>10. Ends'
  <2>1. ProxyOver' <=> px[e].state # "on"
    BY <1>2, <1>4 DEF ProxyOver, ProxyType
  <2>2. ~ ProxyOver
    BY <1>1 DEF ProxyOver
  <2>3. \A c \in Clients : conn'[c].open["server"] = ~ProxyOver'
    <3>1. CASE px[e].state = "on"
      BY <1>0, <1>1, <2>1, <2>2, <3>1 DEF Ends
    <3>2. CASE px[e].state # "on"
      BY <1>5, <2>1, <3>2 DEF IsClosed
    <3> QED
      BY <3>1, <3>2
  <2> QED
    BY <1>0, <1>1, <1>6, <2>3, OtherSides DEF Ends, Looking, Going
<1>11. Calm'
  BY <1>1, <1>3 DEF Calm, Looking
<1>12. AnswersFlow'
  <2>1. px'["reader"].state = "on" => d = "host" /\ e = "reader" /\ conn' = conn
    BY <1>1, <1>2, <1>4, OtherSides DEF e
  <2> QED
    BY <1>0, <1>1, <1>4, <1>6, <2>1, AnswersStay, OtherSides DEF Looking
<1>13. RequestsFlow'
  <2>1. px'["host"].state = "on" => d = "reader" /\ e = "host" /\ conn' = conn
    BY <1>1, <1>2, <1>4, OtherSides DEF e
  <2> QED
    BY <1>0, <1>1, <1>4, <1>6, <2>1, RequestsStay, OtherSides DEF Taking
<1> QED
  BY <1>7, <1>8, <1>9, <1>10, <1>11, <1>12, <1>13 DEF SessionInv

\* The user asks for something.
LEMMA AskKeeps == ASSUME SessionInv, NEW r \in Menu, Ask(r) PROVE SessionInv'
<1>0. Typed /\ Fits /\ Places /\ Ends /\ Calm /\ ToldRight /\ AnswersFlow /\ RequestsFlow /\ InOrder
  BY DEF SessionInv
<1>1. /\ rd.in = "reading" /\ rd.out = "waiting" /\ Len(asked) < MaxRequests
      /\ rd' = [rd EXCEPT !.out = "sending", !.rest = SendRequest(r)]
      /\ asked' = Append(asked, r)
      /\ conn' = conn /\ px' = px /\ hd' = hd /\ tree' = tree /\ served' = served /\ shown' = shown
  BY DEF Ask
<1>2. /\ r \in Asks /\ SendRequest(r) \in Strings /\ SendRequest(r) # <<>>
      /\ rd \in ReaderType /\ asked \in Seq(Asks) /\ rd.rest = <<>>
  BY <1>0, <1>1, Consts, RequestSent DEF Typed, Places
<1>3. /\ rd' \in ReaderType /\ rd'.in = rd.in /\ rd'.out = "sending" /\ rd'.got = rd.got
      /\ rd'.rest = SendRequest(r) /\ rd'.told = rd.told
  BY <1>1, <1>2 DEF ReaderType
<1>4. /\ asked' \in Seq(Asks) /\ Len(asked') = Len(asked) + 1
      /\ \A i \in 1..Len(asked) : asked'[i] = asked[i]
  BY <1>1, <1>2
<1>5. Typed' /\ Fits'
  <2>1. Typed'
    BY <1>0, <1>1, <1>3, <1>4 DEF Typed
  <2>2. Len(asked') \in 1..MaxRequests
    BY <1>0, <1>1, <1>4, Consts DEF Fits
  <2>3. Fits'
    BY <1>0, <1>1, <2>2 DEF Fits
  <2> QED
    BY <2>1, <2>3
<1>6. Places' /\ Ends' /\ Calm' /\ ToldRight'
  <2>1. Places'
    BY <1>0, <1>1, <1>2, <1>3 DEF Places, Looking, Going
  <2>2. Ends'
    BY <1>0, <1>1, <1>3 DEF Ends, Looking, Going, ProxyOver
  <2>3. Calm' /\ ToldRight'
    BY <1>0, <1>1, <1>3 DEF Calm, ToldRight, Looking
  <2> QED
    BY <2>1, <2>2, <2>3
<1>7. InOrder'
  <2>1. /\ Len(served) \in Nat /\ Len(hd.item) \in Nat /\ Len(asked) \in Nat
        /\ Len(served) + Len(hd.item) <= Len(asked)
    BY <1>0, TypedParts DEF InOrder
  <2>2. Len(served) + Len(hd.item) <= Len(asked')
    BY <1>4, <2>1
  <2>3. hd.item # <<>> => Len(hd.item) = 1
    BY <1>0 DEF Places
  <2>4. hd.item # <<>> => Len(served) + 1 \in 1..Len(asked)
    BY <2>1, <2>3
  <2>5. hd.item # <<>> => hd.item[1] = asked'[Len(served) + 1]
    BY <1>0, <1>4, <2>4 DEF InOrder
  <2> QED
    BY <1>0, <1>1, <2>2, <2>5 DEF InOrder
<1>8. AnswersFlow'
  BY <1>0, <1>1, <1>3, AnswersStay DEF Looking
<1>9. RequestsFlow'
  <2> DEFINE k == Len(served) + Len(hd.item)
             parts == Calls(asked)
             p == SendRequest(r)
             more == Calls(asked')
             t == FlattenSeq(parts)
  <2>1. parts \in Seq(Strings) /\ Len(parts) = Len(asked) /\ more = Append(parts, p)
    BY <1>1, <1>2, CallsTyped
  <2>2. k \in 0..Len(parts)
    BY <1>0, <2>1, TypedParts
  <2>3. /\ RequestsNear \in Strings /\ RequestsFar \in Strings /\ p \in Strings
    BY <1>0, <1>2, StreamsTyped
  <2> HIDE DEF parts, p, k, more
  <2>4. t \in Strings /\ FlattenSeq(more) = t \o p /\ Upto(more, k) = Upto(parts, k)
    BY <2>1, <2>2, <2>3, OneMorePart
  <2>5. RequestsNear' = RequestsNear /\ RequestsFar' = RequestsFar
    <3>1. RequestsNear' = RequestsNear
      BY <1>1, <2>4 DEF RequestsNear, parts, more, k
    <3> QED
      BY <1>1, <3>1 DEF RequestsFar
  <2>6. FlattenSeq(Calls(asked')) = t \o p /\ FlattenSeq(Calls(asked)) = t
    BY <2>4 DEF more, parts
  <2> HIDE DEF t
  <2>7. Taking => Begins(RequestsNear, t \o p)
    <3>1. Taking => Begins(RequestsNear, t)
      BY <1>0, <2>6 DEF RequestsFlow
    <3> QED
      BY <2>3, <2>4, <3>1, BeginsLonger
  <2>8. Taking /\ px["host"].state = "on" => Begins(RequestsFar, t \o p) /\ RequestsFar \o p = t \o p
    <3>1. Taking /\ px["host"].state = "on" => Begins(RequestsFar, t) /\ RequestsFar \o <<>> = t
      BY <1>0, <1>1, <1>2, <2>6 DEF RequestsFlow
    <3>2. RequestsFar \o <<>> = RequestsFar
      BY <2>3, ConcatEmptySeq DEF Strings
    <3>3. Taking /\ px["host"].state = "on" => Begins(RequestsFar, t \o p)
      BY <2>3, <2>4, <3>1, BeginsLonger
    <3> QED
      BY <3>1, <3>2, <3>3
  <2>9. Taking' = Taking /\ px' = px /\ rd'.rest = p
    BY <1>1, <1>3 DEF Taking, p
  <2> QED
    BY <2>5, <2>6, <2>7, <2>8, <2>9 DEF RequestsFlow
<1> QED
  BY <1>5, <1>6, <1>7, <1>8, <1>9 DEF SessionInv

\* The host's incoming_msg takes a part of a request, or the end of it, and offers it.
LEMMA HostTakesKeeps == SessionInv /\ HostTakes => SessionInv'
<1> SUFFICES ASSUME SessionInv, HostTakes PROVE SessionInv'
  OBVIOUS
<1> DEFINE near == conn["host"].to["client"]
           k == Len(served)
           u == Upto(Calls(asked), k)
           n == HostNeeds(hd.got, near)
           g == hd.got \o SubSeq(near, 1, n)
<1>0. Typed /\ Fits /\ Places /\ Ends /\ Calm /\ ToldRight /\ AnswersFlow /\ RequestsFlow /\ InOrder
  BY DEF SessionInv
<1>1. /\ hd.in = "reading" /\ near # <<>>
      /\ rd' = rd /\ px' = px /\ tree' = tree /\ asked' = asked /\ served' = served /\ shown' = shown
  BY DEF HostTakes, Arrived
<1>2. /\ conn' = [conn EXCEPT !["host"] = Taken(@, "client", n)]
      /\ \/ RecvRequest(g) = Short /\ hd' = [hd EXCEPT !.got = g]
         \/ \E request \in RecvRequest(g) :
              hd' = [hd EXCEPT !.got = <<>>, !.in = "offering", !.item = <<request[1]>>]
  BY DEF HostTakes, Arrived, HostNeeds, Needed
<1>3. /\ conn \in [Clients -> ConnType] /\ hd \in HostType /\ near \in Strings /\ hd.got \in Strings
      /\ asked \in Seq(Asks) /\ k \in 0..Len(asked) /\ k \in Nat /\ hd.item = <<>> /\ Len(hd.item) = 0
      /\ u \in Strings /\ RecvRequest(hd.got) = Short
  <2>1. Calls(asked) \in Seq(Strings) /\ Len(Calls(asked)) = Len(asked)
    BY <1>0, CallsTyped DEF Typed
  <2>2. hd.item = <<>> /\ Len(hd.item) = 0 /\ RecvRequest(hd.got) = Short
    BY <1>0, <1>1 DEF Places
  <2>3. k \in 0..Len(asked) /\ k \in Nat
    <3>1. Len(served) + Len(hd.item) \in 0..Len(asked) /\ Len(served) \in Nat
      BY <1>0, TypedParts
    <3> QED
      BY <2>2, <3>1
  <2>4. u \in Strings
    BY <2>1, <2>3, UptoProps
  <2> QED
    BY <1>0, <2>2, <2>3, <2>4, TypedParts, OtherSides DEF Typed
<1>4. /\ Begins((u \o hd.got) \o near, FlattenSeq(Calls(asked)))
      /\ RequestsNear = (u \o hd.got) \o near
  <2>1. Len(served) + Len(hd.item) = k
    BY <1>3
  <2>2. RequestsNear = (u \o hd.got) \o near
    BY <2>1 DEF RequestsNear
  <2> QED
    BY <1>0, <1>1, <2>2 DEF RequestsFlow, Taking
<1> HIDE DEF n, near, k
<1>5. TakesRequest(asked, k, hd.got, near, n)
  <2> DEFINE got == hd.got
  <2>1. /\ k \in 0..Len(asked) /\ got \in Strings /\ near # <<>> /\ n = HostNeeds(got, near)
        /\ RecvRequest(got) = Short
        /\ Begins((Upto(Calls(asked), k) \o got) \o near, FlattenSeq(Calls(asked)))
    BY <1>1, <1>3, <1>4 DEF n
  <2> HIDE DEF got
  <2>2. TakesRequest(asked, k, got, near, n)
    BY <1>3, <2>1, RequestTaken
  <2> QED
    BY <2>2 DEF got
<1>6. /\ n \in 0..Len(near) /\ g \in Strings
      /\ (u \o g) \o Rest(near, n) = (u \o hd.got) \o near
  <2> DEFINE got == hd.got
  <2>1. n \in 0..Len(near) /\ got \in Strings
    BY <1>3, <1>5 DEF TakesRequest
  <2> HIDE DEF u, got
  <2>2. HoldsMore(u, got, near, n)
    BY <1>3, <2>1, TakesMove
  <2> QED
    BY <2>1, <2>2 DEF got, HoldsMore
<1>7. RecvRequest(g) # Short =>
        /\ k + 1 \in 1..Len(asked) /\ RecvRequest(g) = {<<asked[k + 1], <<>>>>}
        /\ Upto(Calls(asked), k + 1) = u \o g
  BY <1>5 DEF TakesRequest
<1> HIDE DEF g
<1>8. /\ hd' \in HostType /\ hd'.out = hd.out /\ hd'.rest = hd.rest
      /\ RecvRequest(hd'.got) = Short /\ hd'.in \in {"reading", "offering"}
      /\ hd'.in = "offering" => Len(hd'.item) = 1
      /\ hd'.in # "offering" => hd'.item = <<>>
      /\ k + Len(hd'.item) <= Len(asked)
      /\ hd'.item # <<>> => hd'.item[1] = asked[k + 1]
      /\ Upto(Calls(asked), k + Len(hd'.item)) \o hd'.got = u \o g
  <2>1. CASE RecvRequest(g) = Short /\ hd' = [hd EXCEPT !.got = g]
    <3>1. /\ hd' \in HostType /\ hd'.out = hd.out /\ hd'.rest = hd.rest /\ hd'.in = hd.in
          /\ hd'.item = hd.item /\ hd'.got = g
      BY <1>3, <1>6, <2>1 DEF HostType
    <3>2. Len(hd'.item) = 0 /\ k + 0 = k /\ k <= Len(asked)
      BY <1>3, <3>1
    <3> QED
      BY <1>1, <1>3, <2>1, <3>1, <3>2
  <2>2. ASSUME NEW request \in RecvRequest(g),
               hd' = [hd EXCEPT !.got = <<>>, !.in = "offering", !.item = <<request[1]>>]
        PROVE  /\ hd' \in HostType /\ hd'.out = hd.out /\ hd'.rest = hd.rest
               /\ RecvRequest(hd'.got) = Short /\ hd'.in \in {"reading", "offering"}
               /\ hd'.in = "offering" => Len(hd'.item) = 1
               /\ hd'.in # "offering" => hd'.item = <<>>
               /\ k + Len(hd'.item) <= Len(asked)
               /\ hd'.item # <<>> => hd'.item[1] = asked[k + 1]
               /\ Upto(Calls(asked), k + Len(hd'.item)) \o hd'.got = u \o g
    <3>1. /\ k + 1 \in 1..Len(asked) /\ RecvRequest(g) = {<<asked[k + 1], <<>>>>}
          /\ Upto(Calls(asked), k + 1) = u \o g
      BY <1>7, <2>2 DEF Short
    <3>2. request = <<asked[k + 1], <<>>>>
      BY <2>2, <3>1
    <3> DEFINE ask == asked[k + 1]
               item == <<ask>>
    <3>3. ask \in Asks
      BY <1>3, <3>1, ElementOfSeq
    <3>4. hd' = [hd EXCEPT !.got = <<>>, !.in = "offering", !.item = item]
      BY <2>2, <3>2
    <3> HIDE DEF ask
    <3>5. item \in Seq(Asks) /\ Len(item) = 1 /\ item[1] = ask /\ <<>> \in Strings
      BY <3>3 DEF Strings
    <3> HIDE DEF item
    <3>6. /\ hd' \in HostType /\ hd'.out = hd.out /\ hd'.rest = hd.rest /\ hd'.in = "offering"
          /\ hd'.item = item /\ hd'.got = <<>>
      BY <1>3, <3>4, <3>5 DEF HostType
    <3>7. RecvRequest(<<>>) = Short
      BY DEF RecvRequest, RecvPod, Then, Short
    <3>8. (u \o g) \o <<>> = u \o g
      <4>1. u \o g \in Strings
        <5> HIDE DEF u
        <5> QED
          BY <1>3, <1>6, Joins
      <4> HIDE DEF u
      <4> QED
        BY <4>1, ConcatEmptySeq DEF Strings
    <3>9. Upto(Calls(asked), k + Len(hd'.item)) \o hd'.got = u \o g
      BY <3>1, <3>5, <3>6, <3>8
    <3>11. k \in Nat /\ Len(asked) \in Nat /\ k + 1 <= Len(asked) /\ Len(hd'.item) = 1
      <4>1. Len(hd'.item) = 1
        BY <3>5, <3>6
      <4>2. Len(asked) \in Nat
        BY <1>3
      <4> QED
        BY <1>3, <3>1, <4>1, <4>2
    <3>10. k + Len(hd'.item) <= Len(asked)
      BY <3>11
    <3> QED
      BY <3>5, <3>6, <3>7, <3>9, <3>10 DEF ask
  <2> QED
    BY <1>2, <2>1, <2>2
<1>9. /\ conn' \in [Clients -> ConnType] /\ conn'["reader"] = conn["reader"]
      /\ conn'["host"].open = conn["host"].open /\ conn'["host"].reset = conn["host"].reset
      /\ conn'["host"].to["client"] = Rest(near, n)
      /\ conn'["host"].to["server"] = conn["host"].to["server"]
      /\ Len(conn'["host"].to["client"]) <= Len(near)
  <2> DEFINE c == "host"
             s == "client"
             o == "server"
  <2>1. /\ c \in Clients /\ "reader" \in Clients /\ "reader" # c /\ s \in Sides /\ o = Other(s)
        /\ conn \in [Clients -> ConnType] /\ n \in 0..Len(conn[c].to[s])
        /\ conn' = [conn EXCEPT ![c] = Taken(@, s, n)]
    BY <1>2, <1>3, <1>6, OtherSides DEF near
  <2> HIDE DEF c, s, o
  <2>2. /\ conn' \in [Clients -> ConnType] /\ \A d \in Clients : d # c => conn'[d] = conn[d]
        /\ IsTaken(conn'[c], conn[c], s, o, n)
    BY <2>1, Takes
  <2> QED
    BY <2>1, <2>2 DEF c, s, o, near, IsTaken
<1>10. Typed' /\ InOrder'
  <2>1. Typed'
    BY <1>0, <1>1, <1>8, <1>9 DEF Typed
  <2>2. InOrder'
    BY <1>0, <1>1, <1>8 DEF InOrder, k
  <2> QED
    BY <2>1, <2>2
<1>11. Fits'
  <2>1. Len(conn'["host"].to["client"]) \in Nat /\ Len(near) \in Nat /\ Pipe \in Nat /\ Len(near) <= Pipe
    BY <1>0, <1>3, <1>9, Joins, Consts, OtherSides DEF Fits, near, ConnType
  <2>2. Len(conn'["host"].to["client"]) <= Pipe
    BY <1>9, <2>1
  <2>3. \A s \in Sides : Len(conn'["host"].to[s]) <= Pipe
    BY <1>0, <1>9, <2>2, OtherSides DEF Fits
  <2> QED
    BY <1>0, <1>1, <1>9, <2>3, OtherSides DEF Fits
<1>12. Places' /\ ToldRight'
  BY <1>0, <1>1, <1>8 DEF Places, ToldRight, Looking, Going
<1>13. Ends'
  BY <1>0, <1>1, <1>8, <1>9, OtherSides DEF Ends, Looking, Going, ProxyOver
<1>14. Calm'
  BY <1>0, <1>1, <1>8, <1>9, OtherSides DEF Calm, Looking
<1>15. RequestsNear' = RequestsNear
  BY <1>1, <1>4, <1>6, <1>8, <1>9 DEF RequestsNear, k
<1>16. RequestsFlow'
  <2>1. RequestsFar' = RequestsFar
    BY <1>1, <1>9, <1>15 DEF RequestsFar
  <2> QED
    BY <1>0, <1>1, <1>8, <1>15, <2>1, RequestsOn DEF Taking
<1>17. AnswersFlow'
  BY <1>0, <1>1, <1>8, <1>9, AnswersStay DEF Looking
<1> QED
  BY <1>10, <1>11, <1>12, <1>13, <1>14, <1>16, <1>17 DEF SessionInv

\* The host serves the request that is offered: another answer is on its way.
LEMMA HandOverKeeps == SessionInv /\ HandOver => SessionInv'
<1> SUFFICES ASSUME SessionInv, HandOver PROVE SessionInv'
  OBVIOUS
<1> DEFINE ask == hd.item[1]
           result == Perform(ask, tree)
           a == result[1]
<1>0. Typed /\ Fits /\ Places /\ Ends /\ Calm /\ ToldRight /\ AnswersFlow /\ RequestsFlow /\ InOrder
  BY DEF SessionInv
<1>1. /\ hd.in = "offering" /\ hd.out = "waiting"
      /\ served' = Append(served, a) /\ tree' = result[2]
      /\ hd' = [hd EXCEPT !.in = "reading", !.item = <<>>, !.out = "sending", !.rest = SendAnswer(a)]
      /\ conn' = conn /\ rd' = rd /\ px' = px /\ asked' = asked /\ shown' = shown
  BY DEF HandOver
<1>2. hd \in HostType /\ hd.item \in Seq(Asks) /\ Len(hd.item) = 1 /\ ask \in Asks /\ hd.rest = <<>>
  <2>1. hd \in HostType /\ hd.item \in Seq(Asks)
    BY <1>0 DEF Typed, HostType
  <2>2. Len(hd.item) = 1 /\ hd.rest = <<>>
    BY <1>0, <1>1 DEF Places
  <2> QED
    BY <2>1, <2>2, ElementOfSeq
<1> HIDE DEF ask, result, a
<1>3. IsAnswer(result[1]) /\ IsTree(result[2])
  <2>1. IsRequest(ask) /\ IsTree(tree) /\ Wide \in Nat \ {0} /\ Home \in Strings
    BY <1>0, <1>2, Consts DEF Asks, Typed
  <2> QED
    BY <2>1, PerformTyped DEF result
<1>4. a \in Answers /\ SendAnswer(a) \in Strings /\ SendAnswer(a) # <<>>
  <2>1. a \in Answers
    BY <1>3 DEF a, Answers, IsAnswer
  <2> QED
    BY <2>1, AnswerSent
<1>5. /\ hd' \in HostType /\ hd'.in = "reading" /\ hd'.out = "sending" /\ hd'.got = hd.got
      /\ hd'.item = <<>> /\ hd'.rest = SendAnswer(a)
  <2> DEFINE rest == SendAnswer(a)
  <2>1. <<>> \in Seq(Asks) /\ rest \in Strings
    BY <1>4
  <2>2. hd' = [hd EXCEPT !.in = "reading", !.item = <<>>, !.out = "sending", !.rest = rest]
    BY <1>1
  <2> HIDE DEF rest
  <2>3. /\ hd' \in HostType /\ hd'.in = "reading" /\ hd'.out = "sending" /\ hd'.got = hd.got
        /\ hd'.item = <<>> /\ hd'.rest = rest
    BY <1>2, <2>1, <2>2 DEF HostType
  <2> QED
    BY <2>3 DEF rest
<1>6. /\ served \in Seq(Answers) /\ served' \in Seq(Answers) /\ Len(served') = Len(served) + 1
      /\ \A i \in 1..Len(served) : served'[i] = served[i]
  <2>1. served \in Seq(Answers)
    BY <1>0 DEF Typed
  <2> QED
    BY <1>1, <1>4, <2>1
<1>7. Typed' /\ Fits'
  BY <1>0, <1>1, <1>3, <1>5, <1>6 DEF Typed, Fits
<1>8. Places' /\ Ends' /\ Calm' /\ ToldRight'
  <2>1. Places'
    BY <1>0, <1>1, <1>4, <1>5 DEF Places, Looking, Going
  <2>2. Ends'
    BY <1>0, <1>1, <1>5 DEF Ends, Looking, Going, ProxyOver
  <2>3. Calm' /\ ToldRight'
    BY <1>0, <1>1, <1>5 DEF Calm, ToldRight, Looking
  <2> QED
    BY <2>1, <2>2, <2>3
<1>9. /\ Len(served) \in Nat /\ Len(shown) \in Nat /\ Len(hd'.item) = 0
      /\ Len(served') + Len(hd'.item) = Len(served) + Len(hd.item)
      /\ Len(served') + Len(hd'.item) <= Len(asked) /\ Len(shown) <= Len(served)
  <2>1. /\ Len(served) \in Nat /\ Len(shown) \in Nat /\ Len(served) + Len(hd.item) <= Len(asked)
        /\ Len(shown) <= Len(served)
    BY <1>0, TypedParts DEF InOrder
  <2>2. Len(hd'.item) = 0
    BY <1>5
  <2>3. Len(served') + Len(hd'.item) = Len(served) + Len(hd.item)
    BY <1>2, <1>6, <2>1, <2>2
  <2> QED
    BY <2>1, <2>2, <2>3
<1>10. InOrder'
  <2>1. \A i \in 1..Len(shown) : shown[i] = served'[i]
    BY <1>0, <1>6, <1>9 DEF InOrder
  <2>2. Len(shown) <= Len(served')
    BY <1>6, <1>9
  <2> QED
    BY <1>1, <1>5, <1>9, <2>1, <2>2 DEF InOrder
<1>11. RequestsFlow'
  BY <1>0, <1>1, <1>5, <1>9, RequestsStay DEF Taking
<1>12. AnswersFlow'
  <2> DEFINE k == Len(shown)
             parts == Replies(served)
             p == SendAnswer(a)
             more == Replies(served')
             t == FlattenSeq(parts)
  <2>1. parts \in Seq(Strings) /\ Len(parts) = Len(served) /\ more = Append(parts, p)
    BY <1>1, <1>4, <1>6, RepliesTyped
  <2>2. k \in 0..Len(parts)
    BY <1>0, <2>1, TypedParts
  <2>3. AnswersNear \in Strings /\ AnswersFar \in Strings /\ p \in Strings
    BY <1>0, <1>4, StreamsTyped
  <2> HIDE DEF parts, p, k, more
  <2>4. t \in Strings /\ FlattenSeq(more) = t \o p /\ Upto(more, k) = Upto(parts, k)
    BY <2>1, <2>2, <2>3, OneMorePart
  <2>5. AnswersNear' = AnswersNear /\ AnswersFar' = AnswersFar
    <3>1. AnswersNear' = AnswersNear
      BY <1>1, <2>4 DEF AnswersNear, parts, more, k
    <3> QED
      BY <1>1, <3>1 DEF AnswersFar
  <2>6. FlattenSeq(Replies(served')) = t \o p /\ FlattenSeq(Replies(served)) = t
    BY <2>4 DEF more, parts
  <2> HIDE DEF t
  <2>7. Looking => Begins(AnswersNear, t \o p)
    <3>1. Looking => Begins(AnswersNear, t)
      BY <1>0, <2>6 DEF AnswersFlow
    <3> QED
      BY <2>3, <2>4, <3>1, BeginsLonger
  <2>8. Looking /\ px["reader"].state = "on" => Begins(AnswersFar, t \o p) /\ AnswersFar \o p = t \o p
    <3>1. Looking /\ px["reader"].state = "on" => Begins(AnswersFar, t) /\ AnswersFar \o <<>> = t
      BY <1>0, <1>1, <1>2, <2>6 DEF AnswersFlow
    <3>2. AnswersFar \o <<>> = AnswersFar
      BY <2>3, ConcatEmptySeq DEF Strings
    <3>3. Looking /\ px["reader"].state = "on" => Begins(AnswersFar, t \o p)
      BY <2>3, <2>4, <3>1, BeginsLonger
    <3> QED
      BY <3>1, <3>2, <3>3
  <2>9. Looking' = Looking /\ px' = px /\ hd'.rest = p
    BY <1>1, <1>5 DEF Looking, p
  <2> QED
    BY <2>5, <2>6, <2>7, <2>8, <2>9 DEF AnswersFlow
<1> QED
  BY <1>7, <1>8, <1>10, <1>11, <1>12 DEF SessionInv

\* The host's session ends: nothing is read or sent there any more.
LEMMA HostOverKeeps ==
  ASSUME SessionInv, NEW end \in {"over", "dead"}, Going, HostOver(end),
         end = "dead" \/ ~ (Looking /\ hd.in # "dead")
  PROVE  SessionInv'
<1>0. Typed /\ Fits /\ Places /\ Ends /\ Calm /\ ToldRight /\ AnswersFlow /\ RequestsFlow /\ InOrder
  BY DEF SessionInv
<1>1. /\ hd' = [in |-> end, out |-> "over", got |-> <<>>, item |-> <<>>, rest |-> <<>>]
      /\ conn' = [conn EXCEPT !["host"] = Closed(@, "client")]
      /\ rd' = rd /\ px' = px /\ tree' = tree /\ asked' = asked /\ served' = served /\ shown' = shown
  BY DEF HostOver
<1>2. /\ hd'.in = end /\ hd'.out = "over" /\ hd'.got = <<>> /\ hd'.rest = <<>> /\ hd'.item = <<>>
      /\ hd' \in HostType /\ ~ Going' /\ ~ Taking'
  <2>1. <<>> \in Strings /\ <<>> \in Seq(Asks)
    BY DEF Strings
  <2> QED
    BY <1>1, <2>1 DEF HostType, Going, Taking
<1>3. /\ conn' \in [Clients -> ConnType] /\ conn'["reader"] = conn["reader"]
      /\ conn'["host"].open["client"] = FALSE
      /\ conn'["host"].open["server"] = conn["host"].open["server"]
      /\ conn'["host"].to["client"] = <<>>
      /\ conn'["host"].to["server"] = conn["host"].to["server"]
  <2> DEFINE c == "host"
             s == "client"
             o == "server"
  <2>1. /\ c \in Clients /\ "reader" \in Clients /\ "reader" # c /\ s \in Sides /\ o = Other(s)
        /\ conn \in [Clients -> ConnType] /\ conn' = [conn EXCEPT ![c] = Closed(@, s)]
    BY <1>0, <1>1, OtherSides DEF Typed
  <2> HIDE DEF c, s, o
  <2>2. /\ conn' \in [Clients -> ConnType] /\ \A d \in Clients : d # c => conn'[d] = conn[d]
        /\ IsClosed(conn'[c], conn[c], s, o)
    BY <2>1, Closes
  <2> QED
    BY <2>1, <2>2 DEF c, s, o, IsClosed
<1>4. Typed'
  BY <1>0, <1>1, <1>2, <1>3 DEF Typed
<1>5. Fits'
  <2>1. \A s \in Sides : Len(conn'["host"].to[s]) <= Pipe
    <3>1. Len(<<>>) = 0 /\ Pipe \in Nat
      BY Consts
    <3> QED
      BY <1>0, <1>3, <3>1, OtherSides DEF Fits
  <2> QED
    BY <1>0, <1>1, <1>3, <2>1, OtherSides DEF Fits
<1>6. InOrder'
  <2>1. /\ Len(served) \in Nat /\ Len(hd.item) \in Nat /\ Len(asked) \in Nat
        /\ Len(served) + Len(hd.item) <= Len(asked) /\ Len(hd'.item) = 0
    BY <1>0, <1>2, TypedParts DEF InOrder
  <2>2. Len(served) + Len(hd'.item) <= Len(asked)
    BY <2>1
  <2> QED
    BY <1>0, <1>1, <1>2, <2>2 DEF InOrder
<1>7. Places'
  <2>1. RecvRequest(<<>>) = Short
    BY DEF RecvRequest, RecvPod, Then, Short
  <2> QED
    BY <1>0, <1>1, <1>2, <2>1 DEF Places, Looking, Going
<1>8. Ends'
  BY <1>0, <1>1, <1>2, <1>3, OtherSides DEF Ends, Looking, Going, ProxyOver
<1>9. Calm'
  <2>1. Looking' = Looking /\ hd.in # "dead"
    BY <1>1 DEF Looking, Going
  <2>2. ~ (Looking' /\ hd'.in # "dead")
    BY <1>2, <2>1
  <2> QED
    BY <2>2 DEF Calm
<1>13. ToldRight'
  <2>1. rd.told => hd'.in = "dead" \/ (rd.in = "left" /\ Len(shown) < Len(asked))
    BY <1>0, <1>2 DEF ToldRight, Going
  <2> QED
    BY <1>0, <1>1, <2>1 DEF ToldRight, Looking
<1>10. AnswersFlow'
  BY <1>0, <1>1, <1>2, <1>3, AnswersStay DEF Looking
<1>11. RequestsFlow'
  BY <1>2 DEF RequestsFlow
<1> QED
  BY <1>4, <1>5, <1>6, <1>7, <1>8, <1>9, <1>10, <1>11, <1>13 DEF SessionInv

\* One of the host's coroutines throws, the other goes on.
LEMMA HostThrowsKeeps ==
  ASSUME SessionInv, NEW which \in {"in", "out"}, HostThrows(which),
         ~ (Looking /\ hd.in # "dead"),
         which = "in" => hd.in = "reading", which = "out" => hd.out = "sending"
  PROVE  SessionInv'
<1>0. Typed /\ Fits /\ Places /\ Ends /\ Calm /\ ToldRight /\ AnswersFlow /\ RequestsFlow /\ InOrder
  BY DEF SessionInv
<1>1. Going
  BY <1>0 DEF Places, Going
<1>2. CASE hd.in = "thrown" \/ hd.out = "thrown"
  BY <1>1, <1>2, HostOverKeeps DEF HostThrows
<1>3. CASE ~ (hd.in = "thrown" \/ hd.out = "thrown")
  <2>1. /\ hd' = [hd EXCEPT ![which] = "thrown", !.got = IF which = "in" THEN <<>> ELSE @,
                            !.rest = IF which = "out" THEN <<>> ELSE @]
        /\ conn' = conn /\ rd' = rd /\ px' = px /\ tree' = tree
        /\ asked' = asked /\ served' = served /\ shown' = shown
    BY <1>3 DEF HostThrows
  <2>2. hd \in HostType /\ <<>> \in Strings
    BY <1>0 DEF Typed, Strings
  <2>3. /\ /\ hd' \in HostType
        /\ hd'.item = hd.item
        /\ hd'.in # "over"
        /\ hd'.in # "dead"
        /\ hd'.out # "over"
        /\ hd'.out \in {"waiting", "sending"} => hd.out \in {"waiting", "sending"} /\ hd'.rest = hd.rest
        /\ hd'.in \in {"reading", "offering"} => hd'.in = hd.in /\ hd'.got = hd.got
        /\ hd'.in = "offering" <=> hd.in = "offering"
        /\ hd'.out = "sending" <=> hd'.rest # <<>>
        /\ hd'.got = <<>> \/ hd'.got = hd.got
    <3>1. CASE which = "in"
      <4>1. hd' = [hd EXCEPT !.in = "thrown", !.got = <<>>]
        BY <2>1, <2>2, <3>1 DEF HostType
      <4>2. /\ hd' \in HostType /\ hd'.in = "thrown" /\ hd'.got = <<>> /\ hd'.item = hd.item
            /\ hd'.out = hd.out /\ hd'.rest = hd.rest
        BY <2>2, <4>1 DEF HostType
      <4> QED
        BY <1>0, <1>1, <3>1, <4>2 DEF Places, Going
    <3>2. CASE which = "out"
      <4>1. hd' = [hd EXCEPT !.out = "thrown", !.rest = <<>>]
        BY <2>1, <2>2, <3>2 DEF HostType
      <4>2. /\ hd' \in HostType /\ hd'.out = "thrown" /\ hd'.rest = <<>> /\ hd'.item = hd.item
            /\ hd'.in = hd.in /\ hd'.got = hd.got
        BY <2>2, <4>1 DEF HostType
      <4> QED
        BY <1>0, <1>1, <3>2, <4>2 DEF Places, Going
    <3> QED
      BY <3>1, <3>2
  <2>4. Typed' /\ Fits' /\ InOrder'
    BY <1>0, <2>1, <2>3 DEF Typed, Fits, InOrder
  <2>5. Places'
    <3>1. RecvRequest(<<>>) = Short
      BY DEF RecvRequest, RecvPod, Then, Short
    <3>2. RecvRequest(hd'.got) = Short
      BY <1>0, <2>3, <3>1 DEF Places
    <3> QED
      BY <1>0, <2>1, <2>3, <3>2 DEF Places, Looking, Going
  <2>6. Ends'
    BY <1>0, <1>1, <2>1, <2>3 DEF Ends, Looking, Going, ProxyOver
  <2>7. Calm' /\ ToldRight'
    <3>1. hd.in # "dead"
      BY <1>1 DEF Going
    <3> QED
      BY <1>0, <2>1, <2>3, <3>1 DEF Calm, ToldRight, Looking
  <2>8. AnswersFlow'
    BY <1>0, <2>1, <2>3, AnswersStay DEF Looking
  <2>9. RequestsFlow'
    BY <1>0, <2>1, <2>3, RequestsStay DEF Taking
  <2> QED
    BY <2>4, <2>5, <2>6, <2>7, <2>8, <2>9 DEF SessionInv
<1> QED
  BY <1>2, <1>3

\* The host's outcoming_msg writes a part of an answer.
LEMMA HostSendsKeeps == SessionInv /\ HostSends => SessionInv'
<1> SUFFICES ASSUME SessionInv, HostSends PROVE SessionInv'
  OBVIOUS
<1>0. Typed /\ Fits /\ Places /\ Ends /\ Calm /\ ToldRight /\ AnswersFlow /\ RequestsFlow /\ InOrder
  BY DEF SessionInv
<1>1. hd.out = "sending" /\ Going
  BY <1>0 DEF HostSends, Places, Going
<1>2. CASE WriteFails("host") /\ HostThrows("out")
  <2>1. ~ (Looking /\ hd.in # "dead")
    BY <1>0, <1>2, OtherSides DEF WriteFails, Calm
  <2> QED
    BY <1>1, <1>2, <2>1, HostThrowsKeeps
<1>3. ASSUME NEW n, n = Room("host", "client", hd.rest), n > 0,
             conn' = [conn EXCEPT !["host"] = Put(@, "client", hd.rest, n)],
             hd' = [hd EXCEPT !.rest = SubSeq(@, n + 1, Len(@)),
                              !.out = IF n = Len(hd.rest) THEN "waiting" ELSE @],
             UNCHANGED <<rd, px, tree, asked, served, shown>>
      PROVE  SessionInv'
  <2> DEFINE k == conn["host"]
             rest == hd.rest
             left == Rest(hd.rest, n)
  <2>1. /\ rd' = rd /\ px' = px /\ tree' = tree
        /\ asked' = asked /\ served' = served /\ shown' = shown
        /\ conn \in [Clients -> ConnType] /\ hd \in HostType /\ rest \in Strings
    BY <1>0, <1>3, TypedParts DEF Typed
  <2>2. n \in 1..Len(rest) /\ n \in 0..Len(rest) /\ Len(k.to["server"]) + n <= Pipe
    <3> DEFINE c == "host"
               s == "client"
               o == "server"
    <3>1. c \in Clients /\ s \in Sides /\ o = Other(s) /\ n = Room(c, s, rest) /\ n > 0
      BY <1>3, OtherSides
    <3> HIDE DEF c, s, o, rest
    <3>2. n \in 1..Len(rest) /\ n \in 0..Len(rest) /\ Len(conn[c].to[o]) + n <= Pipe
      BY <1>0, <2>1, <3>1, RoomFits
    <3> QED
      BY <3>2 DEF c, o
  <2>3. left \in Strings /\ left = SubSeq(rest, n + 1, Len(rest)) /\ (left = <<>> <=> n = Len(rest))
    BY <2>1, <2>2, RestIsEmpty
  <2> HIDE DEF left
  <2>4. /\ hd' \in HostType /\ hd'.in = hd.in /\ hd'.got = hd.got /\ hd'.item = hd.item
        /\ hd'.rest = left /\ hd'.out = (IF n = Len(rest) THEN "waiting" ELSE "sending")
    BY <1>1, <1>3, <2>1, <2>3 DEF HostType
  <2>5. /\ conn' \in [Clients -> ConnType] /\ conn'["reader"] = conn["reader"]
        /\ conn'["host"].open = k.open /\ conn'["host"].to["client"] = k.to["client"]
        /\ k.open["server"] => /\ conn'["host"].to["server"] = k.to["server"] \o SubSeq(rest, 1, n)
                               /\ conn'["host"].reset = k.reset
                               /\ Len(conn'["host"].to["server"]) = Len(k.to["server"]) + n
        /\ ~ k.open["server"] => conn'["host"].to = k.to
    <3> DEFINE c == "host"
               s == "client"
               o == "server"
    <3>1. /\ c \in Clients /\ "reader" \in Clients /\ "reader" # c /\ s \in Sides /\ o = Other(s)
          /\ conn' = [conn EXCEPT ![c] = Put(@, s, rest, n)]
      BY <1>3, OtherSides
    <3> HIDE DEF c, s, o, rest
    <3>2. /\ conn' \in [Clients -> ConnType] /\ \A d \in Clients : d # c => conn'[d] = conn[d]
          /\ IsPut(conn'[c], conn[c], s, o, rest, n)
      BY <2>1, <2>2, <3>1, Puts
    <3> QED
      BY <3>1, <3>2 DEF c, s, o, IsPut
  <2> HIDE DEF rest
  <2>6. Typed' /\ InOrder'
    BY <1>0, <2>1, <2>4, <2>5 DEF Typed, InOrder
  <2>7. Fits'
    <3>1. \A s \in Sides : Len(conn'["host"].to[s]) <= Pipe
      BY <1>0, <2>2, <2>5, OtherSides DEF Fits
    <3> QED
      BY <1>0, <2>1, <2>5, <3>1, OtherSides DEF Fits
  <2>8. Places'
    BY <1>0, <1>1, <2>1, <2>3, <2>4 DEF Places, Looking, Going
  <2>9. Ends' /\ ToldRight'
    BY <1>0, <1>1, <2>1, <2>4, <2>5, OtherSides DEF Ends, ToldRight, Looking, Going, ProxyOver
  <2>10. Calm'
    <3>1. k.open["server"] = ~ProxyOver
      BY <1>0, OtherSides DEF Ends
    <3>2. Looking /\ hd.in # "dead" => conn'["reader"].reset = "no" /\ conn'["host"].reset = "no"
      BY <1>0, <2>5, <3>1 DEF Calm, ProxyOver, Clients
    <3> QED
      BY <1>0, <2>1, <2>4, <3>2, OtherSides DEF Calm, Looking
  <2>11. RequestsFlow'
    BY <1>0, <2>1, <2>4, <2>5, RequestsStay DEF Taking
  <2>12. AnswersFlow'
    <3>1. Looking' = Looking /\ px' = px /\ AnswersNear' = AnswersNear
      BY <2>1, <2>5 DEF Looking, AnswersNear
    <3>2. ASSUME Looking, px["reader"].state = "on"
          PROVE  /\ Begins(AnswersFar', FlattenSeq(Replies(served)))
                 /\ AnswersFar' \o hd'.rest = FlattenSeq(Replies(served))
      <4> DEFINE a == AnswersNear \o px["reader"].buf
                 far == k.to["server"]
                 t == FlattenSeq(Replies(served))
      <4>1. k.open["server"]
        BY <1>0, <3>2, OtherSides DEF Ends, ProxyOver
      <4>2. AnswersFar' = a \o (far \o SubSeq(rest, 1, n))
        BY <2>5, <3>1, <4>1 DEF AnswersFar
      <4>3. a \in Strings /\ far \in Strings
        BY <1>0, StreamsTyped, TypedParts, OtherSides
      <4>4. (a \o far) \o rest = t
        BY <1>0, <1>1, <3>2 DEF AnswersFlow, AnswersFar, rest
      <4> HIDE DEF a, far, t
      <4>5. GoesOut(a, far, rest, n, (a \o far) \o rest)
        BY <2>1, <2>2, <4>3, SendsMove
      <4>6. GoesOut(a, far, rest, n, t)
        BY <4>4, <4>5
      <4>7. left = Rest(rest, n)
        BY DEF left, rest
      <4>8. Begins(AnswersFar', t) /\ AnswersFar' \o hd'.rest = t
        BY <2>4, <4>2, <4>6, <4>7 DEF GoesOut
      <4> QED
        BY <4>8 DEF t
    <3> QED
      BY <1>0, <2>1, <3>1, <3>2 DEF AnswersFlow
  <2> QED
    BY <2>6, <2>7, <2>8, <2>9, <2>10, <2>11, <2>12 DEF SessionInv
<1> QED
  BY <1>2, <1>3 DEF HostSends

\* The host's coroutines fail when the connection has.
LEMMA HostFailsKeeps == SessionInv /\ HostFails => SessionInv'
<1> SUFFICES ASSUME SessionInv, HostFails PROVE SessionInv'
  OBVIOUS
<1>1. Calm /\ Ends /\ hd.in = "reading" /\ Going
  BY DEF SessionInv, HostFails, Going
<1>2. conn["host"].reset = "here" \/ ~conn["host"].open["server"]
  BY OtherSides DEF HostFails, ReadFails
<1>3. ~ (Looking /\ hd.in # "dead")
  BY <1>1, <1>2, OtherSides DEF Calm, Ends, ProxyOver
<1>4. HostOver("over") \/ HostThrows("in")
  BY DEF HostFails
<1> QED
  BY <1>1, <1>3, <1>4, HostOverKeeps, HostThrowsKeeps

\* The host's process dies.
LEMMA HostDiesKeeps == SessionInv /\ HostDies => SessionInv'
<1> SUFFICES ASSUME SessionInv, HostDies PROVE SessionInv'
  OBVIOUS
<1>1. Going /\ HostOver("dead")
  BY DEF HostDies, Going
<1> QED
  BY <1>1, HostOverKeeps

\* Every step keeps the invariant.
LEMMA NextKeeps == SessionInv /\ [Next]_vars => SessionInv'
<1> SUFFICES ASSUME SessionInv, [Next]_vars PROVE SessionInv'
  OBVIOUS
<1>1. CASE ReaderSends \/ ReaderTakes \/ ReaderFails \/ Leave
  BY <1>1, ReaderSendsKeeps, ReaderTakesKeeps, ReaderFailsKeeps, LeaveKeeps
<1>2. ASSUME NEW d \in Clients, Proxy(d) PROVE SessionInv'
  BY <1>2, ProxyReadsKeeps, ProxyWritesKeeps, ProxyFailsKeeps DEF Proxy
<1>3. ASSUME NEW d \in Clients, ResetArrives(d) PROVE SessionInv'
  BY <1>3, ResetKeeps
<1>4. CASE HostTakes \/ HandOver \/ HostSends \/ HostFails \/ HostDies
  BY <1>4, HostTakesKeeps, HandOverKeeps, HostSendsKeeps, HostFailsKeeps, HostDiesKeeps
<1>5. ASSUME NEW r \in Menu, Ask(r) PROVE SessionInv'
  BY <1>5, AskKeeps
<1>6. CASE UNCHANGED vars
  <2>1. /\ conn' = conn /\ rd' = rd /\ px' = px /\ hd' = hd /\ tree' = tree
        /\ asked' = asked /\ served' = served /\ shown' = shown
    BY <1>6 DEF vars
  <2>2. Typed' /\ Fits' /\ Places' /\ InOrder'
    BY <2>1 DEF SessionInv, Typed, Fits, Places, InOrder, Looking, Going
  <2>3. Ends' /\ Calm' /\ ToldRight'
    BY <2>1 DEF SessionInv, Ends, Calm, ToldRight, Looking, Going, ProxyOver
  <2>4. AnswersFlow' /\ RequestsFlow'
    BY <2>1, AnswersStay, RequestsStay DEF SessionInv, Looking, Taking
  <2> QED
    BY <2>2, <2>3, <2>4 DEF SessionInv
<1> QED
  BY <1>1, <1>2, <1>3, <1>4, <1>5, <1>6 DEF Next

\* Through any session the numbers of all requests and of all answers follow each
\* other without a gap, whatever the sizes of the connections and of the buffer of
\* simple_proxy and however the two streams are cut up: from what the readers have
\* taken, over the server, to what is still to be written. Nobody fails before one
\* of the ends has gone.
THEOREM SessionHolds == Spec => []SessionInv
<1> QED
  BY InitHolds, NextKeeps, PTL DEF Spec

\* The variables have their types, no connection holds more than it can, no buffer of
\* simple_proxy more than its size, and what a coroutine holds fits where it is.
THEOREM SessionTyped == Spec => []TypeOK
<1>1. SessionInv => TypeOK
  <2> SUFFICES ASSUME SessionInv PROVE TypeOK
    OBVIOUS
  <2>0. Typed /\ Fits /\ Places
    BY DEF SessionInv
  <2>1. \A c \in Clients :
          /\ conn[c].reset \in {"no", "coming", "here"} /\ conn[c].open \in [Sides -> BOOLEAN]
          /\ \A s \in Sides : Len(conn[c].to[s]) <= Pipe
    BY <2>0 DEF Typed, Fits, ConnType
  <2>2. /\ rd.in \in {"reading", "over", "left"} /\ rd.out \in {"waiting", "sending", "thrown", "over"}
        /\ (rd.out = "sending") = (rd.rest # <<>>)
    BY <2>0 DEF Typed, Places, ReaderType
  <2>3. \A d \in Clients : px[d].state \in {"on", "thrown"} /\ Len(px[d].buf) <= Buf
    BY <2>0 DEF Typed, Fits, ProxyType
  <2>4. /\ hd.in \in {"reading", "offering", "thrown", "over", "dead"}
        /\ hd.out \in {"waiting", "sending", "thrown", "over"}
        /\ (hd.out = "sending") = (hd.rest # <<>>)
    BY <2>0 DEF Typed, Places, HostType
  <2>5. (hd.in = "offering") = (hd.item # <<>>)
    <3>1. hd.in = "offering" => hd.item # <<>>
      <4>1. Len(<<>>) = 0
        OBVIOUS
      <4>2. hd.in = "offering" => Len(hd.item) = 1
        BY <2>0 DEF Places
      <4> QED
        BY <4>1, <4>2
    <3> QED
      BY <2>0, <3>1 DEF Places
  <2> QED
    BY <2>0, <2>1, <2>2, <2>3, <2>4, <2>5 DEF TypeOK, Fits
<1> QED
  BY <1>1, SessionHolds, PTL

\* The pane reports a lost connection (client.cpp, run_browser_reader_coro) only when the
\* host's process has died or when the user left with an answer still out: no cut of
\* the streams makes a message that would throw in a recv.
THEOREM LossIsReal == Spec => []ToldOfLoss
<1>1. SessionInv => ToldOfLoss
  BY DEF SessionInv, ToldRight, ToldOfLoss
<1> QED
  BY <1>1, SessionHolds, PTL

-----------------------------------------------------------------------------
\* The implementation of RemoteFiles.

\* The files stay among T, and only what is on the menu is asked for.
OnMenu(T) == tree \in T /\ \A i \in 1..Len(asked) : asked[i] \in Menu \cup {First}

\* What RemoteFiles speaks of.
FilesVars == <<asked, served, shown, tree>>

\* HandOver serves the request that is next, with an outcome that was promised.
LEMMA HandOverServes ==
  ASSUME NEW T, AsSaid(T), SessionInv, OnMenu(T), HandOver
  PROVE  Files!Serve /\ OnMenu(T)'
<1> DEFINE ask == asked[Len(served) + 1]
<1>1. /\ Typed /\ hd.item # <<>> /\ hd.item[1] = ask /\ Len(served) + 1 \in 1..Len(asked)
  <2>1. Typed /\ InOrder /\ Places /\ hd.in = "offering"
    BY DEF SessionInv, HandOver
  <2>2. Len(hd.item) = 1 /\ hd.item # <<>>
    <3>1. Len(hd.item) = 1 /\ Len(<<>>) = 0
      BY <2>1 DEF Places
    <3> QED
      BY <3>1
  <2>3. Len(served) \in Nat /\ Len(asked) \in Nat /\ Len(served) + Len(hd.item) <= Len(asked)
    BY <2>1, TypedParts DEF InOrder
  <2> QED
    BY <2>1, <2>2, <2>3 DEF InOrder
<1>2. ask \in Menu \cup {First} /\ tree \in T
  BY <1>1 DEF OnMenu
<1>3. /\ served' = Append(served, Perform(ask, tree)[1]) /\ tree' = Perform(ask, tree)[2]
      /\ asked' = asked /\ shown' = shown
  BY <1>1 DEF HandOver
<1>4. Perform(ask, tree) \in Outcomes(ask, tree) /\ Perform(ask, tree)[2] \in T
  BY <1>2 DEF AsSaid
<1>5. Len(served) < Len(asked)
  BY <1>1 DEF Typed
<1>6. Files!Serve
  BY <1>3, <1>4, <1>5 DEF Files!Serve
<1> QED
  BY <1>3, <1>4, <1>6 DEF OnMenu

\* Ask asks for something on the menu.
LEMMA AskAsks ==
  ASSUME NEW T, SessionInv, OnMenu(T), NEW r \in Menu, Ask(r)
  PROVE  Files!Ask /\ OnMenu(T)'
<1>1. /\ asked' = Append(asked, r) /\ tree' = tree /\ served' = served /\ shown' = shown
  BY DEF Ask
<1>2. Files!Ask
  BY <1>1 DEF Files!Ask
<1>3. /\ Len(asked') = Len(asked) + 1 /\ asked'[Len(asked) + 1] = r /\ Len(asked) \in Nat
      /\ \A i \in 1..Len(asked) : asked'[i] = asked[i]
  <2>1. asked \in Seq(Asks) /\ r \in Asks
    BY Consts DEF SessionInv, Typed
  <2> QED
    BY <1>1, <2>1
<1>4. \A i \in 1..Len(asked') : i \in 1..Len(asked) \/ i = Len(asked) + 1
  BY <1>3
<1>5. \A i \in 1..Len(asked') : asked'[i] \in Menu \cup {First}
  BY <1>3, <1>4 DEF OnMenu
<1> QED
  BY <1>1, <1>2, <1>5 DEF OnMenu

\* ReaderTakes shows the answer that is next, or none.
LEMMA ReaderTakesShows ==
  ASSUME SessionInv, SessionInv', ReaderTakes
  PROVE  /\ Files!Show \/ shown' = shown
         /\ asked' = asked /\ served' = served /\ tree' = tree
<1>1. /\ asked' = asked /\ served' = served /\ tree' = tree
      /\ shown' = shown \/ \E x : shown' = Append(shown, x)
  BY DEF ReaderTakes
<1>2. ASSUME NEW x, shown' = Append(shown, x) PROVE Files!Show
  <2>1. /\ shown \in Seq(Answers) /\ shown' \in Seq(Answers) /\ Len(shown') <= Len(served)
        /\ \A i \in 1..Len(shown') : shown'[i] = served[i]
    BY <1>1 DEF SessionInv, Typed, InOrder
  <2>2. Len(shown') = Len(shown) + 1 /\ shown'[Len(shown) + 1] = x
    BY <1>2, <2>1
  <2>3. Len(shown) \in Nat /\ Len(served) \in Nat
    BY DEF SessionInv, Typed
  <2>4. x = served[Len(shown) + 1] /\ Len(shown) < Len(served)
    BY <2>1, <2>2, <2>3
  <2> QED
    BY <1>1, <1>2, <2>4 DEF Files!Show
<1> QED
  BY <1>1, <1>2

\* Every step is one of RemoteFiles, or changes nothing that it speaks of.
LEMMA StepServes ==
  ASSUME NEW T, AsSaid(T), SessionInv, SessionInv', OnMenu(T), [Next]_vars
  PROVE  [Files!Ask \/ Files!Serve \/ Files!Show]_FilesVars /\ OnMenu(T)'
<1>1. CASE UNCHANGED FilesVars
  BY <1>1 DEF FilesVars, OnMenu
<1>2. ASSUME NEW r \in Menu, Ask(r)
      PROVE  [Files!Ask \/ Files!Serve \/ Files!Show]_FilesVars /\ OnMenu(T)'
  BY <1>2, AskAsks
<1>3. CASE HandOver
  BY <1>3, HandOverServes
<1>4. CASE ReaderTakes
  <2>1. /\ Files!Show \/ shown' = shown
        /\ asked' = asked /\ served' = served /\ tree' = tree
    BY <1>4, ReaderTakesShows
  <2>2. OnMenu(T)'
    BY <2>1 DEF OnMenu
  <2> QED
    BY <2>1, <2>2 DEF FilesVars
<1>5. CASE ReaderSends \/ ReaderFails \/ Leave
  BY <1>1, <1>5 DEF FilesVars, ReaderSends, ReaderFails, Leave, ReaderOver
<1>6. ASSUME NEW d \in Clients, Proxy(d) \/ ResetArrives(d) PROVE UNCHANGED FilesVars
  BY <1>6 DEF FilesVars, Proxy, ProxyReads, ProxyWrites, ProxyFails, ResetArrives
<1>7. CASE HostTakes \/ HostSends \/ HostFails \/ HostDies
  BY <1>1, <1>7 DEF FilesVars, HostTakes, HostSends, HostFails, HostDies, HostOver, HostThrows
<1>8. CASE UNCHANGED vars
  BY <1>1, <1>8 DEF FilesVars, vars
<1> QED
  BY <1>1, <1>2, <1>3, <1>4, <1>5, <1>6, <1>7, <1>8 DEF Next

\* A session implements RemoteFiles: requests are served once each, in their order, on
\* the files the earlier ones left, and the answers shown are the first of those
\* given, whole (client.cpp, run_browser_host_coro and run_browser_reader_coro, the
\* server's simple_proxy between them). The hypothesis is about the host alone: on
\* all files T that can come about, what it does for a request is one of the
\* outcomes RemoteFiles allows for it. TLC evaluates it for the run's instance.
THEOREM SessionServes ==
  ASSUME NEW T, AsSaid(T)
  PROVE  Spec => Served
<1>1. Init => Files!Init /\ OnMenu(T)
  <2> SUFFICES ASSUME Init PROVE Files!Init /\ OnMenu(T)
    OBVIOUS
  <2>1. asked = <<First>> /\ served = <<>> /\ shown = <<>> /\ tree = Start
    BY DEF Init
  <2>2. Len(asked) = 1 /\ asked[1] = First
    BY <2>1
  <2> QED
    BY <2>1, <2>2 DEF Files!Init, OnMenu, AsSaid
<1>2. SessionInv /\ SessionInv' /\ OnMenu(T) /\ [Next]_vars
        => [Files!Ask \/ Files!Serve \/ Files!Show]_FilesVars /\ OnMenu(T)'
  BY StepServes
<1>3. FilesVars = Files!promise
  BY DEF FilesVars, Files!promise
<1>4. SessionInv /\ SessionInv' /\ OnMenu(T) /\ [Next]_vars
        => [Files!Ask \/ Files!Serve \/ Files!Show]_(Files!promise) /\ OnMenu(T)'
  BY <1>2 DEF FilesVars, Files!promise
<1> QED
  BY <1>1, <1>4, SessionHolds, PTL DEF Spec, Served, Files!Spec

\* Where the user only lists and creates directories the hypothesis is a fact: the
\* outcome of these two requests is what the host does, and its files stay files.
THEOREM ServedWithoutDelete ==
  ASSUME \A r \in Menu : r.type # "Delete"
  PROVE  Spec => Served
<1> DEFINE T == {t \in UNION {[A -> SUBSET Strings] : A \in SUBSET Strings} : IsTree(t)}
<1>1. ASSUME NEW t, IsTree(t) PROVE t \in T
  BY <1>1 DEF IsTree
<1>2. \A t \in T : IsTree(t)
  OBVIOUS
<1> HIDE DEF T
<1>3. ASSUME NEW r \in Menu \cup {First}, NEW t \in T
      PROVE  Perform(r, t) \in Outcomes(r, t) /\ Perform(r, t)[2] \in T
  <2>1. r \in Asks /\ r.type # "Delete"
    <3>1. First.type = "GetDents"
      BY DEF First, Request
    <3> QED
      BY <3>1, Consts, FirstAsked
  <2>2. Outcomes(r, t) = {Perform(r, t)}
    BY <2>1 DEF Outcomes
  <2>3. IsTree(Perform(r, t)[2])
    <3>1. IsRequest(r) /\ IsTree(t) /\ Wide \in Nat \ {0} /\ Home \in Strings
      BY <1>2, <2>1, Consts DEF Asks
    <3> QED
      BY <3>1, PerformTyped
  <2> QED
    BY <1>1, <2>2, <2>3
<1>4. AsSaid(T)
  BY <1>1, <1>3, Consts DEF AsSaid
<1> QED
  BY <1>4, SessionServes
=============================================================================
