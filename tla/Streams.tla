------------------------------- MODULE Streams -------------------------------
(***************************************************************************)
(* Facts about numbers and sequences that the proofs about streams share.  *)
(* The library states induction for an operator; here it is for a set,     *)
(* from the library's theorem that a set with a well-founded order has     *)
(* minimal elements.                                                       *)
(***************************************************************************)
EXTENDS Integers, Sequences, WellFoundedInduction, TLAPS

\* The order of the numbers, as a set of pairs.
Below == {p \in Nat \X Nat : p[1] < p[2]}

\* It goes down for ever nowhere.
LEMMA BelowIsWellFounded == IsWellFoundedOn(Below, Nat)
<1>1. Below = OpToRel(<, Nat)
  BY DEF Below, OpToRel
<1> QED
  BY <1>1, NatLessThanWellFounded, Zenon

\* A set of numbers that is not empty has a least one.
LEMMA LeastNumber ==
  ASSUME NEW T \in SUBSET Nat, T # {}
  PROVE  \E m \in T : \A k \in T : m <= k
<1>1. PICK m \in T : \A k \in T : ~ (<<k, m>> \in Below)
  BY BelowIsWellFounded, WFMin, Zenon
<1>2. ASSUME NEW k \in T
      PROVE  m <= k
  <2>1. m \in Nat /\ k \in Nat
    OBVIOUS
  <2>2. ~ (k < m)
    BY <1>1, <2>1 DEF Below
  <2> QED
    BY <2>1, <2>2
<1> QED
  BY <1>2

\* A set that has 0, and n + 1 for every n it has, has every number.
LEMMA SetInduction ==
  ASSUME NEW S, 0 \in S, \A n \in Nat : n \in S => n + 1 \in S
  PROVE  \A n \in Nat : n \in S
<1> DEFINE T == {n \in Nat : n \notin S}
<1> SUFFICES ASSUME T # {} PROVE FALSE
  OBVIOUS
<1>1. PICK m \in T : \A k \in T : m <= k
  BY LeastNumber
<1>2. m # 0 /\ m \in Nat /\ m - 1 \in Nat /\ m - 1 \notin T
  BY <1>1
<1>3. m - 1 \in S
  BY <1>2
<1>4. (m - 1) + 1 \in S
  BY <1>3, <1>2
<1> QED
  BY <1>4, <1>2, <1>1

\* A step from each value to the next, taken any number of times.
Climbs(f, D, b, L, F) == /\ f \in [0..L -> D] /\ f[0] = b
                         /\ \A k \in 1..L : f[k] = F[k][f[k - 1]]

\* There is a function that takes them.
LEMMA StepsAddUp ==
  ASSUME NEW D, NEW b \in D, NEW L \in Nat, NEW F \in [1..L -> [D -> D]]
  PROVE  \E f : Climbs(f, D, b, L, F)
<1> DEFINE Goes(f, m) == f[0] = b /\ \A k \in 1..m : f[k] = F[k][f[k - 1]]
           S == {m \in Nat : m <= L => \E f \in [0..m -> D] : Goes(f, m)}
<1>1. 0 \in S
  <2>1. [n \in 0..0 |-> b] \in [0..0 -> D] /\ Goes([n \in 0..0 |-> b], 0)
    OBVIOUS
  <2> QED
    BY <2>1
<1>2. ASSUME NEW m \in Nat, m \in S
      PROVE  m + 1 \in S
  <2> SUFFICES ASSUME m + 1 <= L
               PROVE  \E f \in [0..m + 1 -> D] : Goes(f, m + 1)
    BY <1>2
  <2>0. m <= L /\ m + 1 \in 1..L
    OBVIOUS
  <2>1. PICK f \in [0..m -> D] : Goes(f, m)
    BY <1>2, <2>0
  <2> DEFINE g == [n \in 0..m + 1 |-> IF n <= m THEN f[n] ELSE F[m + 1][f[m]]]
  <2>2. g \in [0..m + 1 -> D]
    BY <2>0
  <2>3. Goes(g, m + 1)
    <3>1. g[0] = b
      BY <2>1
    <3>2. ASSUME NEW k \in 1..m + 1
          PROVE  g[k] = F[k][g[k - 1]]
      <4>1. k \in 0..m + 1 /\ k - 1 \in 0..m + 1 /\ k - 1 <= m /\ (k <= m \/ k = m + 1)
        OBVIOUS
      <4>2. g[k - 1] = f[k - 1]
        BY <4>1
      <4>3. CASE k <= m
        <5>1. k \in 1..m /\ g[k] = f[k]
          BY <4>1, <4>3
        <5> QED
          BY <5>1, <4>2, <2>1
      <4>4. CASE k = m + 1
        BY <4>1, <4>2, <4>4
      <4> QED
        BY <4>1, <4>3, <4>4
    <3> QED
      BY <3>1, <3>2
  <2>4. \E h \in [0..m + 1 -> D] : Goes(h, m + 1)
    <3> HIDE DEF Goes, g
    <3> QED
      BY <2>2, <2>3
  <2> QED
    BY <2>4
<1>3. L \in S
  <2> HIDE DEF S
  <2> QED
    BY <1>1, <1>2, SetInduction
<1> QED
  BY <1>3 DEF Climbs

\* Two functions that start alike and go on alike.
LEMMA GoOnAlike ==
  ASSUME NEW n \in Nat, NEW f, NEW g, f[0] = g[0],
         \A m \in 1..n : f[m - 1] = g[m - 1] => f[m] = g[m]
  PROVE  f[n] = g[n]
<1> DEFINE S == {m \in Nat : m <= n => f[m] = g[m]}
<1>1. 0 \in S
  OBVIOUS
<1>2. ASSUME NEW m \in Nat, m \in S
      PROVE  m + 1 \in S
  <2> SUFFICES ASSUME m + 1 <= n PROVE f[m + 1] = g[m + 1]
    OBVIOUS
  <2>1. m + 1 \in 1..n /\ (m + 1) - 1 = m /\ m <= n
    OBVIOUS
  <2>2. f[m] = g[m]
    BY <1>2, <2>1
  <2> QED
    BY <2>1, <2>2
<1>3. \A m \in Nat : m \in S
  <2> HIDE DEF S
  <2> QED
    BY <1>1, <1>2, SetInduction
<1> QED
  BY <1>3
=============================================================================
