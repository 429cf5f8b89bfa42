------------------------------ MODULE Folding ------------------------------
(***************************************************************************)
(* What FoldLeft computes, for any step Op: the results of the steps, one   *)
(* after the other, and what follows if the steps stay within a set.  A     *)
(* module of its own so that it can be instantiated with an operator.       *)
(***************************************************************************)
EXTENDS DataInduction

CONSTANT Op(_, _)

Fold(base, s) == FoldLeft(Op, base, s)

\* The states a fold runs through, from the first to its result.
Steps(base, s) ==
  \E r : /\ r[0] = base /\ r[Len(s)] = Fold(base, s)
         /\ \A k \in 1 .. Len(s) : r[k] = Op(r[k - 1], s[k])

\* h says what the steps make of the elements at each set of positions up to k.
Good(k, base, s, h) ==
  \A t \in SUBSET (1 .. k) : h[t] = IF t = {} THEN base ELSE Op(h[t \ {Max(t)}], s[Max(t)])

\* There is a function that the fold computes.
LEMMA FoldExists ==
  ASSUME NEW n \in Nat, NEW base, NEW s
  PROVE  \E h : h = [t \in SUBSET (1 .. n) |-> h[t]] /\ Good(n, base, s, h)
<1> DEFINE Has(k) == \E h : h = [t \in SUBSET (1 .. k) |-> h[t]] /\ Good(k, base, s, h)
           K == {k \in Nat : Has(k)}
<1>1. Has(0)
  <2> DEFINE h == [t \in SUBSET (1 .. 0) |-> base]
  <2>1. 1 .. 0 = {}
    OBVIOUS
  <2>2. Good(0, base, s, h) /\ h = [t \in SUBSET (1 .. 0) |-> h[t]]
    BY <2>1 DEF Good
  <2> HIDE DEF h
  <2> QED
    BY <2>2
<1>2. ASSUME NEW k \in Nat, Has(k) PROVE Has(k + 1)
  <2>1. PICK h : Good(k, base, s, h)
    BY <1>2
  <2> DEFINE f == [t \in SUBSET (1 .. k + 1) |->
                     IF k + 1 \in t THEN Op(h[t \ {k + 1}], s[k + 1]) ELSE h[t]]
  <2>2. f = [t \in SUBSET (1 .. k + 1) |-> f[t]]
    OBVIOUS
  <2>3. ASSUME NEW t \in SUBSET (1 .. k + 1)
        PROVE  f[t] = IF t = {} THEN base ELSE Op(f[t \ {Max(t)}], s[Max(t)])
    <3>1. CASE k + 1 \in t
      <4>1. Max(t) = k + 1
        <5>1. Max(t) \in 1 .. k + 1 /\ \A j \in t : j <= Max(t)
          BY <3>1, LastPosition
        <5> QED
          BY <3>1, <5>1
      <4>2. t \ {k + 1} \in SUBSET (1 .. k + 1) /\ k + 1 \notin t \ {k + 1}
        OBVIOUS
      <4>3. f[t] = Op(h[t \ {k + 1}], s[k + 1]) /\ f[t \ {k + 1}] = h[t \ {k + 1}]
        BY <3>1, <4>2
      <4> HIDE DEF f
      <4> QED
        BY <3>1, <4>1, <4>3
    <3>2. CASE k + 1 \notin t
      <4>1. t \in SUBSET (1 .. k) /\ f[t] = h[t]
        BY <3>2
      <4>2. t \ {Max(t)} \in SUBSET (1 .. k + 1) /\ k + 1 \notin t \ {Max(t)}
        BY <3>2
      <4>3. f[t \ {Max(t)}] = h[t \ {Max(t)}]
        BY <4>2
      <4> HIDE DEF f
      <4>4. h[t] = IF t = {} THEN base ELSE Op(h[t \ {Max(t)}], s[Max(t)])
        BY <2>1, <4>1 DEF Good
      <4> QED
        BY <4>1, <4>3, <4>4
    <3> QED
      BY <3>1, <3>2
  <2> HIDE DEF f
  <2>4. Good(k + 1, base, s, f)
    BY <2>3 DEF Good
  <2> QED
    BY <2>2, <2>4
<1> HIDE DEF Has
<1>3. 0 \in K
  BY <1>1
<1>4. ASSUME NEW k \in Nat, k \in K PROVE k + 1 \in K
  BY <1>2, <1>4
<1> HIDE DEF K
<1>5. n \in K
  BY <1>3, <1>4, SetInduction
<1>6. Has(n)
  BY <1>5 DEF K
<1> QED
  BY <1>6 DEF Has

\* The results of a fold over a list.
LEMMA FoldSteps ==
  ASSUME NEW P, NEW base, NEW s \in Seq(P)
  PROVE  Steps(base, s)
<1> DEFINE n == Len(s)
           F(h) == [t \in SUBSET DOMAIN s |->
                      IF t = {} THEN base ELSE Op(h[t \ {Max(t)}], s[Max(t)])]
           c == CHOOSE h : h = F(h)
<1>1. n \in Nat /\ DOMAIN s = 1 .. n
  OBVIOUS
<1>2. Fold(base, s) = c[1 .. n]
  BY <1>1 DEF Fold, FoldLeft, MapThenFoldSet
<1>3. c = F(c)
  <2>1. PICK h : h = [t \in SUBSET (1 .. n) |-> h[t]] /\ Good(n, base, s, h)
    <3> HIDE DEF n
    <3> QED
      BY <1>1, FoldExists
  <2>2. h = F(h)
    BY <1>1, <2>1 DEF Good
  <2> QED
    BY <2>2
<1> HIDE DEF c
<1>4. ASSUME NEW t \in SUBSET (1 .. n)
      PROVE  c[t] = IF t = {} THEN base ELSE Op(c[t \ {Max(t)}], s[Max(t)])
  BY <1>1, <1>3
<1> DEFINE r == [k \in 0 .. n |-> c[1 .. k]]
<1>5. r[0] = base
  <2>1. 1 .. 0 = {} /\ 1 .. 0 \in SUBSET (1 .. n)
    OBVIOUS
  <2>2. c[1 .. 0] = base
    BY <1>4, <2>1
  <2> QED
    BY <1>1, <2>2
<1>6. ASSUME NEW k \in 1 .. n PROVE r[k] = Op(r[k - 1], s[k])
  <2>1. Max(1 .. k) = k /\ (1 .. k) \ {k} = 1 .. (k - 1) /\ 1 .. k # {}
    <3>1. k \in Nat \ {0}
      BY <1>1
    <3> QED
      BY <3>1, LastOfFirst
  <2>2. 1 .. k \in SUBSET (1 .. n)
    BY <1>1
  <2>3. c[1 .. k] = Op(c[1 .. (k - 1)], s[k])
    BY <1>4, <2>1, <2>2
  <2>4. r[k] = c[1 .. k] /\ r[k - 1] = c[1 .. (k - 1)]
    BY <1>1
  <2> QED
    BY <2>3, <2>4
<1>7. r[n] = c[1 .. n]
  BY <1>1
<1> HIDE DEF r
<1> QED
  BY <1>2, <1>5, <1>6, <1>7 DEF Steps

\* A set of states that the steps do not leave.
Closed(S, P) == \A x \in S : \A y \in P : Op(x, y) \in S

\* The states a fold runs through, all of them in S.
Runs(S, P, base, s) ==
  \E r \in [0 .. Len(s) -> S] :
    /\ r[0] = base /\ r[Len(s)] = Fold(base, s)
    /\ \A k \in 1 .. Len(s) : r[k] = Op(r[k - 1], s[k])

\* A fold whose steps stay in a set runs through states of that set.
LEMMA FoldRuns ==
  ASSUME NEW S, NEW P, Closed(S, P), NEW base \in S, NEW s \in Seq(P)
  PROVE  Runs(S, P, base, s)
<1>1. Steps(base, s)
  BY FoldSteps
<1>2. PICK q : /\ q[0] = base /\ q[Len(s)] = Fold(base, s)
               /\ \A k \in 1 .. Len(s) : q[k] = Op(q[k - 1], s[k])
  BY <1>1 DEF Steps
<1>3. Len(s) \in Nat /\ \A k \in 1 .. Len(s) : s[k] \in P
  OBVIOUS
<1> DEFINE K == {k \in Nat : k <= Len(s) => q[k] \in S}
           r == [k \in 0 .. Len(s) |-> q[k]]
<1>4. 0 \in K
  BY <1>2
<1>5. ASSUME NEW k \in Nat, k \in K PROVE k + 1 \in K
  <2> SUFFICES ASSUME k + 1 <= Len(s) PROVE q[k + 1] \in S
    OBVIOUS
  <2>1. k + 1 \in 1 .. Len(s) /\ (k + 1) - 1 = k /\ q[k] \in S
    BY <1>3, <1>5
  <2>2. q[k + 1] = Op(q[k], s[k + 1]) /\ s[k + 1] \in P
    BY <1>2, <1>3, <2>1
  <2> QED
    BY <2>1, <2>2 DEF Closed
<1> HIDE DEF K
<1>6. \A k \in Nat : k \in K
  BY <1>4, <1>5, SetInduction
<1>7. r \in [0 .. Len(s) -> S]
  BY <1>6 DEF K
<1>8. ASSUME NEW k \in 1 .. Len(s) PROVE r[k] = Op(r[k - 1], s[k])
  BY <1>2, <1>3
<1>9. r[0] = base /\ r[Len(s)] = Fold(base, s)
  BY <1>2, <1>3
<1> HIDE DEF r
<1> QED
  BY <1>7, <1>8, <1>9 DEF Runs

\* A fold stays where its steps stay.
LEMMA FoldStays ==
  ASSUME NEW S, NEW P, Closed(S, P), NEW base \in S, NEW s \in Seq(P)
  PROVE  Fold(base, s) \in S
<1>1. Runs(S, P, base, s)
  BY FoldRuns
<1>2. PICK r \in [0 .. Len(s) -> S] : r[Len(s)] = Fold(base, s)
  BY <1>1 DEF Runs
<1>3. Len(s) \in 0 .. Len(s)
  OBVIOUS
<1> QED
  BY <1>2, <1>3

\* Every step brings about what it is there for and undoes nothing: D[y] holds
\* the states in which the work of the step for y is done.
Lasting(S, P, D) ==
  \A x \in S : \A y \in P :
    /\ Op(x, y) \in D[y]
    /\ \A z \in P : x \in D[z] => Op(x, y) \in D[z]

\* In the end the work is done for every element of the list.
LEMMA FoldVisits ==
  ASSUME NEW S, NEW P, Closed(S, P), NEW base \in S, NEW s \in Seq(P), NEW D, Lasting(S, P, D)
  PROVE  \A i \in 1 .. Len(s) : Fold(base, s) \in D[s[i]]
<1>1. Len(s) \in Nat /\ \A i \in 1 .. Len(s) : s[i] \in P
  OBVIOUS
<1>2. Runs(S, P, base, s)
  BY FoldRuns
<1>3. PICK r \in [0 .. Len(s) -> S] :
        /\ r[Len(s)] = Fold(base, s)
        /\ \A k \in 1 .. Len(s) : r[k] = Op(r[k - 1], s[k])
  BY <1>2 DEF Runs
<1> DEFINE K == {k \in Nat : k <= Len(s) => \A i \in 1 .. k : r[k] \in D[s[i]]}
<1>4. 0 \in K
  OBVIOUS
<1>5. ASSUME NEW k \in Nat, k \in K PROVE k + 1 \in K
  <2> SUFFICES ASSUME k + 1 <= Len(s), NEW i \in 1 .. k + 1 PROVE r[k + 1] \in D[s[i]]
    OBVIOUS
  <2> DEFINE x == r[k]
             y == s[k + 1]
             z == s[i]
  <2>1. k + 1 \in 1 .. Len(s) /\ k \in 0 .. Len(s) /\ (k + 1) - 1 = k /\ i \in 1 .. Len(s)
    BY <1>1
  <2>2. r[k + 1] = Op(x, y) /\ x \in S /\ y \in P /\ z \in P
    BY <1>1, <1>3, <2>1
  <2>3. i = k + 1 \/ x \in D[z]
    BY <1>1, <1>5
  <2>4. i = k + 1 => z = y
    OBVIOUS
  <2> HIDE DEF x, y, z
  <2>5. Op(x, y) \in D[y] /\ (x \in D[z] => Op(x, y) \in D[z])
    BY <2>2 DEF Lasting
  <2>6. r[k + 1] \in D[z]
    BY <2>2, <2>3, <2>4, <2>5
  <2> QED
    BY <2>6 DEF z
<1> HIDE DEF K
<1>6. Len(s) \in K
  BY <1>1, <1>4, <1>5, SetInduction
<1> QED
  BY <1>1, <1>3, <1>6 DEF K
=============================================================================
