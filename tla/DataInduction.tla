--------------------------- MODULE DataInduction ---------------------------
(***************************************************************************)
(* Induction over the data of the models.  The induction theorems of the    *)
(* library take a predicate; here a property is a set, which the provers    *)
(* can instantiate: the set of the numbers, sequences or folds that have    *)
(* it.                                                                      *)
(***************************************************************************)
EXTENDS Integers, SequencesExt, SequenceTheorems, WellFoundedInduction, TLAPS

\* A set of numbers that holds 0 and with each number the next one holds all.
LEMMA SetInduction ==
  ASSUME NEW S, 0 \in S, \A n \in Nat : n \in S => n + 1 \in S
  PROVE  \A n \in Nat : n \in S
<1> DEFINE R == {p \in Nat \X Nat : p[1] < p[2]}
           T == {n \in Nat : n \notin S}
<1>1. IsWellFoundedOn(R, Nat)
  BY NatLessThanWellFounded DEF OpToRel
<1>2. SUFFICES ASSUME T # {} PROVE FALSE
  OBVIOUS
<1>3. PICK m \in T : \A k \in T : ~(<<k, m>> \in R)
  <2>1. T \subseteq Nat
    OBVIOUS
  <2> HIDE DEF R, T
  <2> QED
    BY <1>1, <1>2, <2>1, WFMin
<1>4. m \in Nat /\ m # 0
  OBVIOUS
<1>5. m - 1 \in Nat /\ m - 1 < m /\ (m - 1) + 1 = m
  BY <1>4
<1>6. m - 1 \notin T
  BY <1>3, <1>5
<1>7. m - 1 \in S
  BY <1>5, <1>6
<1> QED
  BY <1>3, <1>5, <1>7

\* A non-empty set of positions has a last one.
LEMMA LastExists ==
  ASSUME NEW n \in Nat, NEW T \in SUBSET (1 .. n), T # {}
  PROVE  \E i \in T : \A j \in T : j <= i
<1> DEFINE S == {k \in Nat : \A U \in SUBSET (1 .. k) : U # {} => \E i \in U : \A j \in U : j <= i}
<1>1. 0 \in S
  <2>1. 1 .. 0 = {}
    OBVIOUS
  <2> QED
    BY <2>1
<1>2. ASSUME NEW k \in Nat, k \in S PROVE k + 1 \in S
  <2> SUFFICES ASSUME NEW U \in SUBSET (1 .. k + 1), U # {}
               PROVE  \E i \in U : \A j \in U : j <= i
    OBVIOUS
  <2>1. CASE k + 1 \in U
    BY <2>1
  <2>2. CASE k + 1 \notin U
    <3>1. U \in SUBSET (1 .. k)
      BY <2>2
    <3> QED
      BY <1>2, <3>1
  <2> QED
    BY <2>1, <2>2
<1> HIDE DEF S
<1>3. n \in S
  BY <1>1, <1>2, SetInduction
<1> QED
  BY <1>3 DEF S

\* A non-empty set of numbers has a first one.
LEMMA FirstExists ==
  ASSUME NEW T \in SUBSET Nat, T # {}
  PROVE  \E i \in T : \A j \in T : i <= j
<1> DEFINE R == {p \in Nat \X Nat : p[1] < p[2]}
<1>1. IsWellFoundedOn(R, Nat)
  BY NatLessThanWellFounded DEF OpToRel
<1>2. PICK m \in T : \A k \in T : ~(<<k, m>> \in R)
  <2> HIDE DEF R
  <2> QED
    BY <1>1, WFMin
<1>3. ASSUME NEW j \in T PROVE m <= j
  <2>1. <<j, m>> \notin R /\ j \in Nat /\ m \in Nat
    BY <1>2
  <2> QED
    BY <2>1
<1> QED
  BY <1>3

(***************************************************************************)
(* Lists.                                                                   *)
(***************************************************************************)
\* The indexes of a list.
LEMMA Indexes ==
  ASSUME NEW S, NEW s \in Seq(S)
  PROVE  /\ Len(s) \in Nat /\ DOMAIN s = 1 .. Len(s)
         /\ \A i \in DOMAIN s : s[i] \in S
OBVIOUS

\* A list with the same indexes is a list.
LEMMA SameIndexes ==
  ASSUME NEW S, NEW s \in Seq(S), NEW r, r = [i \in DOMAIN s |-> r[i]],
         \A i \in DOMAIN s : r[i] \in S
  PROVE  r \in Seq(S) /\ DOMAIN r = DOMAIN s
<1>1. Len(s) \in Nat /\ DOMAIN s = 1 .. Len(s)
  BY Indexes
<1>2. r \in [1 .. Len(s) -> S] /\ DOMAIN r = DOMAIN s
  BY <1>1
<1> QED
  BY <1>1, <1>2, SeqDef

\* Removing one element moves the ones after it up and keeps the others.
LEMMA RemoveAtFacts ==
  ASSUME NEW S, NEW s \in Seq(S), NEW k \in DOMAIN s,
         NEW r, r = RemoveAt(s, k)
  PROVE  /\ r \in Seq(S) /\ Len(r) = Len(s) - 1 /\ DOMAIN r = 1 .. Len(s) - 1
         /\ \A i \in DOMAIN r : r[i] = IF i < k THEN s[i] ELSE s[i + 1]
<1> DEFINE p == SubSeq(s, 1, k - 1)
           q == SubSeq(s, k + 1, Len(s))
           n == Len(s)
<1>1. n \in Nat /\ k \in 1 .. n /\ r = p \o q
  BY DEF RemoveAt
<1>2. p \in Seq(S) /\ Len(p) = k - 1 /\ \A i \in 1 .. k - 1 : p[i] = s[i]
  BY <1>1
<1>3. q \in Seq(S) /\ Len(q) = n - k /\ \A i \in 1 .. n - k : q[i] = s[k + i]
  <2>1. \A i \in k + 1 .. n : s[i] \in S
    BY <1>1
  <2>2. /\ q \in Seq(S) /\ Len(q) = (IF k + 1 <= n THEN n - (k + 1) + 1 ELSE 0)
        /\ \A i \in 1 .. n - (k + 1) + 1 : q[i] = s[(k + 1) + i - 1]
    <3>1. k + 1 \in Int /\ n \in Int
      BY <1>1
    <3> HIDE DEF n
    <3> QED
      BY <2>1, <3>1, SubSeqProperties DEF n
  <2> HIDE DEF q, n
  <2>3. Len(q) = n - k
    BY <1>1, <2>2
  <2>4. ASSUME NEW i \in 1 .. n - k PROVE q[i] = s[k + i]
    <3>1. i \in 1 .. n - (k + 1) + 1 /\ (k + 1) + i - 1 = k + i
      BY <1>1
    <3>2. q[i] = s[(k + 1) + i - 1]
      BY <2>2, <3>1
    <3> QED
      BY <3>1, <3>2
  <2> QED
    BY <2>2, <2>3, <2>4
<1> HIDE DEF p, q, n
<1>4. r \in Seq(S) /\ Len(r) = n - 1 /\ DOMAIN r = 1 .. n - 1
  <2>1. r \in Seq(S) /\ Len(r) = Len(p) + Len(q)
    BY <1>1, <1>2, <1>3, ConcatProperties
  <2>2. Len(p) + Len(q) = n - 1
    BY <1>1, <1>2, <1>3
  <2> QED
    BY <2>1, <2>2, Indexes
<1>5. ASSUME NEW i \in 1 .. n - 1 PROVE r[i] = IF i < k THEN s[i] ELSE s[i + 1]
  <2>1. r[i] = IF i <= Len(p) THEN p[i] ELSE q[i - Len(p)]
    BY <1>1, <1>2, <1>3
  <2>2. CASE i < k
    BY <1>1, <1>2, <2>1, <2>2
  <2>3. CASE ~(i < k)
    <3> DEFINE j == i - (k - 1)
    <3>1. j \in 1 .. n - k /\ k + j = i + 1 /\ ~(i <= k - 1)
      BY <1>1, <2>3
    <3>2. r[i] = q[j]
      BY <1>2, <2>1, <3>1
    <3> HIDE DEF j
    <3>3. q[j] = s[k + j]
      BY <1>3, <3>1
    <3> QED
      BY <2>3, <3>1, <3>2, <3>3
  <2> QED
    BY <2>2, <2>3
<1> QED
  BY <1>4, <1>5 DEF n

\* Removing an element keeps the other ones.
LEMMA RemoveFirstFacts ==
  ASSUME NEW S, NEW s \in Seq(S), NEW e, NEW r, r = RemoveFirst(s, e)
  PROVE  r \in Seq(S) /\ Range(s) \ {e} \subseteq Range(r) /\ Range(r) \subseteq Range(s)
<1> DEFINE n == Len(s)
           I == {i \in 1 .. n : s[i] = e}
           k == Min(I)
<1>1. n \in Nat /\ DOMAIN s = 1 .. n
  BY Indexes
<1>2. CASE I = {}
  BY <1>2 DEF RemoveFirst
<1>3. CASE I # {}
  <2>1. r = RemoveAt(s, k)
    BY <1>3 DEF RemoveFirst, SelectInSeq
  <2>2. k \in I
    <3>1. I \in SUBSET Nat
      BY <1>1
    <3> HIDE DEF I
    <3>2. PICK i \in I : \A j \in I : i <= j
      BY <1>3, <3>1, FirstExists
    <3> QED
      BY <3>2 DEF Min
  <2>3. k \in DOMAIN s /\ s[k] = e
    BY <1>1, <2>2
  <2> HIDE DEF I, k
  <2>4. /\ r \in Seq(S) /\ DOMAIN r = 1 .. n - 1
        /\ \A i \in DOMAIN r : r[i] = IF i < k THEN s[i] ELSE s[i + 1]
    BY <2>1, <2>3, RemoveAtFacts
  <2> HIDE DEF n
  <2>5. ASSUME NEW i \in 1 .. n, s[i] # e PROVE \E j \in DOMAIN r : r[j] = s[i]
    <3>1. CASE i < k
      <4>1. i \in DOMAIN r
        BY <1>1, <2>3, <2>4, <3>1
      <4> QED
        BY <2>4, <3>1, <4>1
    <3>2. CASE k < i
      <4>1. i - 1 \in DOMAIN r /\ ~(i - 1 < k) /\ (i - 1) + 1 = i
        BY <1>1, <2>3, <2>4, <3>2
      <4> QED
        BY <2>4, <4>1
    <3> QED
      BY <1>1, <2>3, <2>5, <3>1, <3>2
  <2>6. ASSUME NEW j \in DOMAIN r PROVE \E i \in 1 .. n : r[j] = s[i]
    <3>1. j \in 1 .. n /\ j + 1 \in 1 .. n
      BY <1>1, <2>4
    <3> QED
      BY <2>4, <3>1
  <2>7. Range(s) \ {e} \subseteq Range(r)
    BY <1>1, <2>5 DEF Range
  <2>8. Range(r) \subseteq Range(s)
    BY <1>1, <2>6 DEF Range
  <2> QED
    BY <2>4, <2>7, <2>8
<1> QED
  BY <1>2, <1>3

(***************************************************************************)
(* Folds.  FoldLeft works its way down from the set of all positions; on     *)
(* the sets 1 .. k this is one step after the other.                        *)
(***************************************************************************)
\* The last of the first k positions.
LEMMA LastOfFirst ==
  ASSUME NEW k \in Nat \ {0}
  PROVE  Max(1 .. k) = k /\ (1 .. k) \ {k} = 1 .. (k - 1) /\ 1 .. k # {}
<1>1. k \in 1 .. k /\ \A x \in 1 .. k : (\A y \in 1 .. k : x >= y) => x = k
  OBVIOUS
<1>2. Max(1 .. k) = k
  BY <1>1 DEF Max
<1> QED
  BY <1>1, <1>2

\* What Max returns for a set of positions.
LEMMA LastPosition ==
  ASSUME NEW n \in Nat, NEW T \in SUBSET (1 .. n), T # {}
  PROVE  Max(T) \in T /\ Max(T) \in 1 .. n /\ \A j \in T : j <= Max(T)
<1>1. PICK i \in T : \A j \in T : j <= i
  BY LastExists
<1>2. i \in T /\ \A y \in T : i >= y
  BY <1>1
<1>3. Max(T) \in T /\ \A j \in T : Max(T) >= j
  BY <1>2 DEF Max
<1> QED
  BY <1>3
=============================================================================
