---------------------------- MODULE ReportsProofs ----------------------------
(***************************************************************************)
(* Proofs about Reports for every fleet, catalog and gate: the renderers,  *)
(* and the readers of what they write, come to the same of every row.      *)
(***************************************************************************)
EXTENDS Reports, FiniteSetTheorems, TLAPS

AnyRow == UNION {Rows(i) : i \in ToSet(Catalog)}
ClusterReport == [target : DOMAIN DialectOf, failed : BOOLEAN, rows : Seq(AnyRow)]

TypeOK ==
  /\ pc \in {"connect", "evaluate", "write", "written", "failed"}
  /\ targets \in Fleets /\ multi \in BOOLEAN /\ opts \in Options
  /\ clusters \in Seq(ClusterReport)

\* The clusters visited are the first of the targets; one that did not answer is
\* an entry of a fleet only, and the report is written after the last.
VisitInv ==
  /\ pc # "failed" => next = Len(clusters) + 1 /\ Len(clusters) <= Len(targets)
  /\ pc = "evaluate" => clusters # <<>> /\ ~Current.failed
  /\ pc = "written" => Len(clusters) = Len(targets)
  /\ \A k \in DOMAIN clusters : k \in DOMAIN targets /\ clusters[k].target = targets[k]
  /\ ~multi => Len(targets) = 1 /\ \A k \in DOMAIN clusters : ~clusters[k].failed

\* The rows of a cluster are those of the rules so far, in their order; of all rules
\* once the scan has gone on.
Underway(k) == k = Len(clusters) /\ pc \in {"evaluate", "failed"}

RowsInv ==
  \A k \in DOMAIN clusters :
    LET rows == clusters[k].rows
    IN  /\ clusters[k].failed => rows = <<>>
        /\ Len(rows) <= Len(Catalog)
        /\ \A n \in 1 .. Len(rows) : rows[n] \in Rows(Catalog[n])
        /\ ~clusters[k].failed /\ ~Underway(k) => Len(rows) = Len(Catalog)

IInv == TypeOK /\ VisitInv /\ RowsInv
----------------------------------------------------------------------------
(* Sequences, and their sums.                                              *)

\* A set that has 0, and with a number below n the next one, has n.
LEMMA CountsUpTo ==
  ASSUME NEW n \in Nat, NEW S, 0 \in S, \A m \in 0 .. n - 1 : m \in S => m + 1 \in S
  PROVE  n \in S
<1> SUFFICES ASSUME n \notin S
             PROVE  FALSE
  OBVIOUS
<1> DEFINE T == (0 .. n) \ S
           R == {ss \in Nat \X Nat : ss[1] < ss[2]}
<1>1. IsWellFoundedOn(R, Nat)
  BY NatLessThanWellFounded, Zenon DEF OpToRel
<1>2. T \subseteq Nat /\ n \in T
  OBVIOUS
<1> HIDE DEF R, T
<1>3. PICK x \in T : \A y \in T : ~(<<y, x>> \in R)
  BY <1>1, <1>2, WFMin
<1>4. \A y \in T : ~(y < x)
  BY <1>2, <1>3 DEF R
<1>5. x \in 0 .. n /\ x \notin S
  BY DEF T
<1>6. x # 0 /\ x - 1 \in 0 .. n - 1 /\ x - 1 < x /\ (x - 1) + 1 = x
  BY <1>5
<1>7. x - 1 \in S
  BY <1>4, <1>5, <1>6 DEF T
<1> QED
  BY <1>5, <1>6, <1>7

\* Partial sums exist, and the last of them is the sum.
PartialSum(n, s, f) == f[0] = 0 /\ \A m \in 1 .. n : f[m] = f[m - 1] + s[m]

LEMMA PartialSums ==
  ASSUME NEW n \in Nat, NEW s \in [1 .. n -> Nat]
  PROVE  \E f \in [0 .. n -> Nat] : PartialSum(n, s, f) /\ Sum(s) = f[n]
<1> DEFINE Sums(m, f) == f = [k \in 0 .. m |-> IF k = 0 THEN 0 ELSE f[k - 1] + s[k]]
           Summed(m) == \E f \in [0 .. m -> Nat] : Sums(m, f)
<1>1. Summed(0)
  <2> DEFINE f == [k \in 0 .. 0 |-> 0]
  <2>1. f \in [0 .. 0 -> Nat] /\ Sums(0, f)
    OBVIOUS
  <2> QED
    BY <2>1
<1>2. ASSUME NEW m \in 0 .. n - 1, Summed(m) PROVE Summed(m + 1)
  <2>1. PICK f \in [0 .. m -> Nat] : Sums(m, f)
    BY <1>2
  <2>2. m + 1 \in 1 .. n /\ s[m + 1] \in Nat /\ f[m] \in Nat /\ f[m] + s[m + 1] \in Nat
    OBVIOUS
  <2> DEFINE g == [k \in 0 .. m + 1 |-> IF k = m + 1 THEN f[m] + s[m + 1] ELSE f[k]]
  <2>3. g \in [0 .. m + 1 -> Nat]
    BY <2>2
  <2>4. ASSUME NEW k \in 0 .. m + 1
        PROVE  g[k] = IF k = 0 THEN 0 ELSE g[k - 1] + s[k]
    <3>1. CASE k = m + 1
      BY <3>1
    <3>2. CASE k # m + 1
      <4>1. k \in 0 .. m /\ f[k] = IF k = 0 THEN 0 ELSE f[k - 1] + s[k]
        BY <2>1, <3>2
      <4> QED
        BY <3>2, <4>1
    <3> QED
      BY <3>1, <3>2
  <2>5. Sums(m + 1, g)
    BY <2>4
  <2> QED
    BY <2>3, <2>5
<1>3. Summed(n)
  <2> HIDE DEF Summed
  <2> DEFINE S == {m \in 0 .. n : Summed(m)}
  <2>1. 0 \in S /\ \A m \in 0 .. n - 1 : m \in S => m + 1 \in S
    BY <1>1, <1>2
  <2> HIDE DEF S
  <2>2. n \in S
    BY <2>1, CountsUpTo
  <2> QED
    BY <2>2 DEF S
<1> DEFINE c == CHOOSE f : Sums(n, f)
<1>4. Sums(n, c)
  BY <1>3
<1>5. Len(s) = n
  OBVIOUS
<1>6. Sum(s) = c[n]
  BY <1>5 DEF Sum
<1> HIDE DEF c
<1>7. \A m \in 0 .. n : c[m] = IF m = 0 THEN 0 ELSE c[m - 1] + s[m]
  BY <1>4
<1>8. PartialSum(n, s, c)
  BY <1>7 DEF PartialSum
<1>9. \A m \in 0 .. n : c[m] \in Nat
  <2> SUFFICES ASSUME NEW m \in 0 .. n
               PROVE  c[m] \in Nat
    OBVIOUS
  <2> DEFINE S == {k \in 0 .. m : c[k] \in Nat}
  <2>1. 0 \in S
    BY <1>7
  <2>2. ASSUME NEW k \in 0 .. m - 1, k \in S PROVE k + 1 \in S
    <3>1. k + 1 \in 1 .. n /\ s[k + 1] \in Nat /\ c[k] \in Nat /\ k + 1 \in 0 .. m
      BY <2>2
    <3> QED
      BY <1>7, <3>1
  <2> HIDE DEF S
  <2>3. m \in S
    BY <2>1, <2>2, CountsUpTo
  <2> QED
    BY <2>3 DEF S
<1>10. c \in [0 .. n -> Nat]
  BY <1>4, <1>9
<1> QED
  BY <1>6, <1>8, <1>10

LEMMA SumPositive ==
  ASSUME NEW n \in Nat, NEW s \in [1 .. n -> Nat]
  PROVE  Sum(s) \in Nat /\ (Sum(s) > 0 <=> \E k \in 1 .. n : s[k] > 0)
<1>1. PICK f \in [0 .. n -> Nat] : PartialSum(n, s, f) /\ Sum(s) = f[n]
  BY PartialSums
<1> DEFINE S == {m \in 0 .. n : f[m] > 0 <=> \E k \in 1 .. m : s[k] > 0}
<1>2. 0 \in S
  BY <1>1 DEF PartialSum
<1>3. ASSUME NEW m \in 0 .. n - 1, m \in S PROVE m + 1 \in S
  <2>1. m + 1 \in 1 .. n /\ s[m + 1] \in Nat /\ f[m] \in Nat
    OBVIOUS
  <2>2. f[m + 1] = f[m] + s[m + 1]
    BY <1>1, <2>1 DEF PartialSum
  <2>3. f[m] > 0 <=> \E k \in 1 .. m : s[k] > 0
    BY <1>3
  <2>4. (\E k \in 1 .. m + 1 : s[k] > 0) <=> (\E k \in 1 .. m : s[k] > 0) \/ s[m + 1] > 0
    OBVIOUS
  <2>5. f[m + 1] > 0 <=> \E k \in 1 .. m + 1 : s[k] > 0
    BY <2>1, <2>2, <2>3, <2>4
  <2> QED
    BY <2>1, <2>5
<1> HIDE DEF S
<1>4. n \in S
  BY <1>2, <1>3, CountsUpTo
<1> QED
  BY <1>1, <1>4 DEF S

\* Sums add up place by place.
LEMMA SumOfSums ==
  ASSUME NEW n \in Nat, NEW s \in [1 .. n -> Nat], NEW t \in [1 .. n -> Nat],
         NEW u \in [1 .. n -> Nat], \A k \in 1 .. n : u[k] = s[k] + t[k]
  PROVE  Sum(u) = Sum(s) + Sum(t)
<1>1. PICK f \in [0 .. n -> Nat] : PartialSum(n, s, f) /\ Sum(s) = f[n]
  BY PartialSums
<1>2. PICK g \in [0 .. n -> Nat] : PartialSum(n, t, g) /\ Sum(t) = g[n]
  BY PartialSums
<1>3. PICK h \in [0 .. n -> Nat] : PartialSum(n, u, h) /\ Sum(u) = h[n]
  BY PartialSums
<1> DEFINE S == {m \in 0 .. n : h[m] = f[m] + g[m]}
<1>4. 0 \in S
  BY <1>1, <1>2, <1>3 DEF PartialSum
<1>5. ASSUME NEW m \in 0 .. n - 1, m \in S PROVE m + 1 \in S
  <2>1. /\ m + 1 \in 1 .. n /\ s[m + 1] \in Nat /\ t[m + 1] \in Nat
        /\ f[m] \in Nat /\ g[m] \in Nat
    OBVIOUS
  <2>2. f[m + 1] = f[m] + s[m + 1]
    BY <1>1, <2>1 DEF PartialSum
  <2>3. g[m + 1] = g[m] + t[m + 1]
    BY <1>2, <2>1 DEF PartialSum
  <2>4. h[m + 1] = (f[m] + g[m]) + (s[m + 1] + t[m + 1])
    BY <1>3, <1>5, <2>1 DEF PartialSum
  <2>5. h[m + 1] = (f[m] + s[m + 1]) + (g[m] + t[m + 1])
    <3> DEFINE a == f[m]  b == g[m]  c == s[m + 1]  d == t[m + 1]
    <3>1. a \in Nat /\ b \in Nat /\ c \in Nat /\ d \in Nat
      BY <2>1
    <3>2. h[m + 1] = (a + b) + (c + d)
      BY <2>4
    <3> HIDE DEF a, b, c, d
    <3>3. h[m + 1] = (a + c) + (b + d)
      BY <3>1, <3>2
    <3> QED
      BY <3>3 DEF a, b, c, d
  <2>6. h[m + 1] = f[m + 1] + g[m + 1]
    BY <2>2, <2>3, <2>5, Zenon
  <2> QED
    BY <2>1, <2>6
<1> HIDE DEF S
<1>6. n \in S
  BY <1>4, <1>5, CountsUpTo
<1> QED
  BY <1>1, <1>2, <1>3, <1>6 DEF S

\* A sum of ones counts them.
LEMMA SumOfOnes ==
  ASSUME NEW n \in Nat, NEW s \in [1 .. n -> Nat], NEW K \in SUBSET (1 .. n),
         \A k \in 1 .. n : s[k] = IF k \in K THEN 1 ELSE 0
  PROVE  IsFiniteSet(K) /\ Sum(s) = Cardinality(K)
<1>1. PICK f \in [0 .. n -> Nat] : PartialSum(n, s, f) /\ Sum(s) = f[n]
  BY PartialSums
<1> DEFINE First(m) == {k \in K : k <= m}
           S == {m \in 0 .. n : IsFiniteSet(First(m)) /\ f[m] = Cardinality(First(m))}
<1>0. \A k \in K : k \in Nat /\ 1 <= k /\ k <= n
  OBVIOUS
<1>2. 0 \in S
  <2>1. \A k \in K : ~(k <= 0)
    BY <1>0
  <2>2. First(0) = {}
    BY <2>1, Zenon
  <2> HIDE DEF First
  <2>3. IsFiniteSet(First(0)) /\ f[0] = Cardinality(First(0))
    BY <1>1, <2>2, FS_EmptySet DEF PartialSum
  <2> QED
    BY <2>3
<1>3. ASSUME NEW m \in 0 .. n - 1, m \in S PROVE m + 1 \in S
  <2>1. m + 1 \in 1 .. n /\ f[m] \in Nat
    OBVIOUS
  <2>2. f[m + 1] = f[m] + (IF m + 1 \in K THEN 1 ELSE 0)
    BY <1>1, <2>1 DEF PartialSum
  <2>3. IsFiniteSet(First(m)) /\ f[m] = Cardinality(First(m)) /\ m + 1 \notin First(m)
    BY <1>3
  <2>4. First(m + 1) = First(m) \cup (IF m + 1 \in K THEN {m + 1} ELSE {})
    <3>1. \A k \in K : k <= m + 1 <=> k <= m \/ k = m + 1
      BY <1>0
    <3> QED
      BY <3>1, Zenon
  <2> HIDE DEF First
  <2>5. IsFiniteSet(First(m + 1)) /\ f[m + 1] = Cardinality(First(m + 1))
    <3>1. CASE m + 1 \in K
      <4>1. IsFiniteSet(First(m) \cup {m + 1}) /\ Cardinality(First(m) \cup {m + 1}) = Cardinality(First(m)) + 1
        BY <2>3, FS_AddElement
      <4> QED
        BY <2>2, <2>3, <2>4, <3>1, <4>1
    <3>2. CASE m + 1 \notin K
      <4>1. f[m + 1] = f[m]
        BY <2>1, <2>2, <3>2
      <4>2. First(m + 1) = First(m)
        BY <2>4, <3>2, Zenon
      <4> QED
        BY <2>3, <4>1, <4>2, Zenon
    <3> QED
      BY <3>1, <3>2
  <2> QED
    BY <2>1, <2>5
<1>4. First(n) = K
  BY <1>0
<1> HIDE DEF S, First
<1>5. n \in S
  BY <1>2, <1>3, CountsUpTo
<1> QED
  BY <1>1, <1>4, <1>5 DEF S
----------------------------------------------------------------------------
(* What is kept of a sequence.                                             *)

Increasing(p, c) == \A i, j \in 1 .. c : i < j => p[i] < p[j]

\* The positions in K can be gone through in their order.
LEMMA InOrder ==
  ASSUME NEW n \in Nat, NEW K \in SUBSET (1 .. n)
  PROVE  /\ IsFiniteSet(K) /\ Cardinality(K) \in Nat
         /\ \E p \in [1 .. Cardinality(K) -> K] : Increasing(p, Cardinality(K))
<1> DEFINE First(m) == {k \in K : k <= m}
           Enumerated(S) == /\ IsFiniteSet(S)
                            /\ \E p \in [1 .. Cardinality(S) -> S] : Increasing(p, Cardinality(S))
           Done == {m \in 0 .. n : Enumerated(First(m))}
<1>0. \A k \in K : k \in Nat /\ 1 <= k /\ k <= n
  OBVIOUS
<1>1. 0 \in Done
  <2>1. \A k \in K : ~(k <= 0)
    BY <1>0
  <2>2. First(0) = {}
    BY <2>1, Zenon
  <2>3. <<>> \in [1 .. 0 -> {}] /\ Increasing(<<>>, 0)
    BY DEF Increasing
  <2>4. Enumerated({})
    BY <2>3, FS_EmptySet
  <2> HIDE DEF First, Enumerated
  <2> QED
    BY <2>2, <2>4
<1>2. ASSUME NEW m \in 0 .. n - 1, m \in Done PROVE m + 1 \in Done
  <2> DEFINE S == First(m)
             c == Cardinality(S)
  <2>1. Enumerated(S)
    BY <1>2
  <2>2. PICK p \in [1 .. c -> S] : Increasing(p, c)
    BY <2>1
  <2>3. IsFiniteSet(S) /\ c \in Nat
    BY <2>1, FS_CardinalityType
  <2>4. First(m + 1) = S \cup (IF m + 1 \in K THEN {m + 1} ELSE {})
    <3>1. \A k \in K : k <= m + 1 <=> k <= m \/ k = m + 1
      BY <1>0
    <3> QED
      BY <3>1, Zenon
  <2>5. CASE m + 1 \in K
    <3>1. \A k \in S : k \in Nat /\ k < m + 1
      BY <1>0
    <3>2. m + 1 \notin S
      BY <3>1
    <3> HIDE DEF S
    <3> DEFINE U == S \cup {m + 1}
               q == [i \in 1 .. c + 1 |-> IF i = c + 1 THEN m + 1 ELSE p[i]]
    <3>3. IsFiniteSet(U) /\ Cardinality(U) = c + 1
      BY <2>3, <3>2, FS_AddElement
    <3> HIDE DEF c
    <3>4. q \in [1 .. c + 1 -> U]
      BY <2>3
    <3>5. Increasing(q, c + 1)
      <4> SUFFICES ASSUME NEW i \in 1 .. c + 1, NEW j \in 1 .. c + 1, i < j
                   PROVE  q[i] < q[j]
        BY DEF Increasing
      <4>1. i \in 1 .. c /\ p[i] \in S /\ q[i] = p[i]
        BY <2>3
      <4>2. CASE j = c + 1
        BY <2>3, <3>1, <4>1, <4>2
      <4>3. CASE j # c + 1
        <5>1. j \in 1 .. c /\ q[j] = p[j]
          BY <2>3, <4>3
        <5> QED
          BY <2>2, <4>1, <5>1 DEF Increasing
      <4> QED
        BY <4>2, <4>3
    <3> HIDE DEF q, U
    <3>6. Enumerated(U)
      BY <3>3, <3>4, <3>5
    <3>7. First(m + 1) = U
      BY <2>4, <2>5 DEF U
    <3> HIDE DEF First, Enumerated
    <3> QED
      BY <3>6, <3>7
  <2>6. CASE m + 1 \notin K
    <3>1. First(m + 1) = S
      BY <2>4, <2>6, Zenon
    <3> HIDE DEF First, S, Enumerated
    <3> QED
      BY <2>1, <3>1
  <2> QED
    BY <2>5, <2>6
<1>3. First(n) = K
  BY <1>0
<1> HIDE DEF Done, First, Enumerated
<1>4. n \in Done
  BY <1>1, <1>2, CountsUpTo
<1>5. Enumerated(K)
  BY <1>3, <1>4 DEF Done
<1> QED
  BY <1>5, FS_CardinalityType DEF Enumerated

\* What is kept is what stands at the positions to keep, all of it.
Keeps(s, K, at) ==
  /\ \A k \in K : \E i \in 1 .. Cardinality(K) : at[i] = k
  /\ Kept(s, K) = [i \in 1 .. Cardinality(K) |-> s[at[i]]]

LEMMA KeptPositions ==
  ASSUME NEW n \in Nat, NEW K \in SUBSET (1 .. n), NEW s
  PROVE  /\ IsFiniteSet(K) /\ Cardinality(K) \in Nat
         /\ \E at \in [1 .. Cardinality(K) -> K] : Keeps(s, K, at)
<1> DEFINE c == Cardinality(K)
           at == CHOOSE p \in [1 .. c -> K] : \A i, j \in 1 .. c : i < j => p[i] < p[j]
<1>1. IsFiniteSet(K) /\ c \in Nat
  BY InOrder
<1>2. \E p \in [1 .. c -> K] : \A i, j \in 1 .. c : i < j => p[i] < p[j]
  BY InOrder DEF Increasing
<1>3. at \in [1 .. c -> K] /\ \A i, j \in 1 .. c : i < j => at[i] < at[j]
  BY <1>2
<1>4. Kept(s, K) = [i \in 1 .. c |-> s[at[i]]]
  BY DEF Kept
<1> HIDE DEF at
<1>5. \A i, j \in 1 .. c : at[i] = at[j] => i = j
  <2> SUFFICES ASSUME NEW i \in 1 .. c, NEW j \in 1 .. c, i < j
               PROVE  at[i] # at[j]
    BY <1>1
  <2>1. at[i] \in K /\ at[j] \in K /\ at[i] < at[j]
    BY <1>3
  <2>2. \A k \in K : k \in Nat
    OBVIOUS
  <2>3. at[i] \in Nat
    BY <2>1, <2>2
  <2> QED
    BY <2>1, <2>3
<1>6. at \in Injection(1 .. c, K)
  BY <1>3, <1>5 DEF Injection, IsInjective
<1>7. IsFiniteSet(1 .. c) /\ Cardinality(1 .. c) = c
  BY <1>1, FS_Interval
<1>8. at \in Surjection(1 .. c, K)
  BY <1>1, <1>6, <1>7, FS_Injection
<1>9. \A k \in K : \E i \in 1 .. c : at[i] = k
  BY <1>8 DEF Surjection
<1>10. Keeps(s, K, at)
  BY <1>4, <1>9 DEF Keeps
<1> QED
  BY <1>1, <1>3, <1>10

LEMMA KeptFacts ==
  ASSUME NEW s, Len(s) \in Nat, DOMAIN s = 1 .. Len(s), NEW K \in SUBSET (DOMAIN s)
  PROVE  LET kept == Kept(s, K)
         IN  /\ Len(kept) \in Nat /\ DOMAIN kept = 1 .. Len(kept)
             /\ \A i \in DOMAIN kept : \E k \in K : kept[i] = s[k]
             /\ \A k \in K : \E i \in DOMAIN kept : kept[i] = s[k]
<1> DEFINE kept == Kept(s, K)
           c == Cardinality(K)
<1>1. Len(s) \in Nat /\ K \in SUBSET (1 .. Len(s))
  OBVIOUS
<1>2. IsFiniteSet(K) /\ c \in Nat /\ \E at \in [1 .. c -> K] : Keeps(s, K, at)
  BY <1>1, KeptPositions, Zenon
<1>3. PICK at \in [1 .. c -> K] : Keeps(s, K, at)
  BY <1>2
<1>4. kept = [i \in 1 .. c |-> s[at[i]]] /\ \A k \in K : \E i \in 1 .. c : at[i] = k
  BY <1>3 DEF Keeps
<1> HIDE DEF kept, c
<1>5. Len(kept) = c /\ DOMAIN kept = 1 .. c
  BY <1>2, <1>4
<1>6. \A i \in 1 .. c : at[i] \in K /\ kept[i] = s[at[i]]
  BY <1>3, <1>4
<1>7. \A i \in DOMAIN kept : \E k \in K : kept[i] = s[k]
  BY <1>5, <1>6
<1>8. \A k \in K : \E i \in DOMAIN kept : kept[i] = s[k]
  BY <1>4, <1>5, <1>6
<1> QED
  BY <1>2, <1>5, <1>7, <1>8 DEF kept
----------------------------------------------------------------------------
(* The invariant.                                                          *)

LEMMA FleetFacts ==
  ASSUME targets \in Fleets
  PROVE  /\ Len(targets) \in Nat \ {0} /\ DOMAIN targets = 1 .. Len(targets)
         /\ \A k \in DOMAIN targets : targets[k] \in DOMAIN DialectOf
         /\ \A k, m \in DOMAIN targets : targets[k] = targets[m] => k = m
  BY FleetsAssumption DEF IsInjective

LEMMA CatalogFacts ==
  /\ Len(Catalog) \in Nat /\ DOMAIN Catalog = 1 .. Len(Catalog)
  /\ \A k \in 1 .. Len(Catalog) : Catalog[k] \in ToSet(Catalog)
  /\ \A k, m \in 1 .. Len(Catalog) : Catalog[k] = Catalog[m] => k = m
  BY CatalogAssumption DEF ToSet, IsInjective

LEMMA ClusterFacts ==
  ASSUME TypeOK
  PROVE  /\ Len(clusters) \in Nat /\ DOMAIN clusters = 1 .. Len(clusters)
         /\ \A k \in DOMAIN clusters :
              /\ clusters[k] \in ClusterReport
              /\ clusters[k].failed \in BOOLEAN /\ clusters[k].rows \in Seq(AnyRow)
              /\ Len(clusters[k].rows) \in Nat
              /\ DOMAIN clusters[k].rows = 1 .. Len(clusters[k].rows)
<1>1. Len(clusters) \in Nat /\ DOMAIN clusters = 1 .. Len(clusters)
  BY DEF TypeOK
<1>2. \A k \in DOMAIN clusters : clusters[k] \in ClusterReport
  BY <1>1 DEF TypeOK
<1>3. \A k \in DOMAIN clusters : clusters[k].failed \in BOOLEAN /\ clusters[k].rows \in Seq(AnyRow)
  BY <1>2 DEF ClusterReport
<1>4. \A k \in DOMAIN clusters :
        /\ Len(clusters[k].rows) \in Nat
        /\ DOMAIN clusters[k].rows = 1 .. Len(clusters[k].rows)
  BY <1>3
<1> QED
  BY <1>1, <1>2, <1>3, <1>4

LEMMA InitInv == Init => IInv
<1> SUFFICES ASSUME Init
             PROVE  IInv
  OBVIOUS
<1>1. TypeOK
  BY DEF Init, TypeOK, Full, Options
<1>2. VisitInv
  BY FleetFacts DEF Init, VisitInv
<1>3. RowsInv
  BY DEF Init, RowsInv
<1> QED
  BY <1>1, <1>2, <1>3 DEF IInv

\* A cluster is visited: the report has one more, without rows yet.
LEMMA VisitedInv ==
  ASSUME IInv, pc = "connect", next <= Len(targets), NEW f \in BOOLEAN, Visited(f),
         next' = next + 1, UNCHANGED <<targets, multi, opts>>,
         pc' = (IF f THEN "connect" ELSE "evaluate"), f => multi
  PROVE  IInv'
<1> DEFINE c == [target |-> targets[next], failed |-> f, rows |-> <<>>]
           n == Len(clusters)
<1>1. n \in Nat /\ DOMAIN clusters = 1 .. n /\ next = n + 1 /\ next \in DOMAIN targets
  BY FleetFacts, ClusterFacts DEF IInv, TypeOK, VisitInv
<1>2. targets[next] \in DOMAIN DialectOf
  BY <1>1, FleetFacts DEF IInv, TypeOK
<1>3. c \in ClusterReport
  BY <1>2 DEF ClusterReport
<1>4. TypeOK'
  BY <1>3 DEF IInv, TypeOK, Visited
<1> HIDE DEF c
<1>5. /\ Len(clusters') = n + 1 /\ DOMAIN clusters' = 1 .. n + 1 /\ clusters'[n + 1] = c
      /\ \A k \in 1 .. n : clusters'[k] = clusters[k]
  BY <1>1, <1>3 DEF IInv, TypeOK, Visited, c
<1>6. VisitInv'
  <2>1. next' = Len(clusters') + 1 /\ Len(clusters') <= Len(targets')
    BY <1>1, <1>5, FleetFacts DEF IInv, TypeOK
  <2>2. pc' = "evaluate" => clusters' # <<>> /\ ~Current'.failed
    BY <1>1, <1>5 DEF Current, c
  <2>3. \A k \in DOMAIN clusters' : k \in DOMAIN targets' /\ clusters'[k].target = targets'[k]
    BY <1>1, <1>5 DEF IInv, VisitInv, c
  <2>4. ~multi' => Len(targets') = 1 /\ \A k \in DOMAIN clusters' : ~clusters'[k].failed
    BY <1>1, <1>5 DEF IInv, VisitInv, c
  <2> QED
    BY <2>1, <2>2, <2>3, <2>4 DEF VisitInv
<1>7. RowsInv'
  <2> SUFFICES ASSUME NEW k \in 1 .. n + 1
               PROVE  LET rows == clusters'[k].rows
                      IN  /\ clusters'[k].failed => rows = <<>>
                          /\ Len(rows) <= Len(Catalog)
                          /\ \A m \in 1 .. Len(rows) : rows[m] \in Rows(Catalog[m])
                          /\ ~clusters'[k].failed /\ ~Underway(k)' => Len(rows) = Len(Catalog)
    BY <1>5 DEF RowsInv
  <2>1. CASE k = n + 1
    <3>1. clusters'[k].rows = <<>> /\ clusters'[k].failed = f
      BY <1>5, <2>1 DEF c
    <3>2. ~f => Underway(k)'
      BY <1>1, <1>5, <2>1 DEF Underway
    <3> QED
      BY <3>1, <3>2, CatalogFacts
  <2>2. CASE k # n + 1
    <3>1. k \in 1 .. n /\ clusters'[k] = clusters[k] /\ ~Underway(k)
      BY <1>1, <1>5, <2>2 DEF Underway
    <3> QED
      BY <1>1, <3>1 DEF IInv, RowsInv
  <2> QED
    BY <2>1, <2>2
<1> QED
  BY <1>4, <1>6, <1>7 DEF IInv

LEMMA ConnectInv == IInv /\ Connect => IInv'
<1> SUFFICES ASSUME IInv, Connect
             PROVE  IInv'
  OBVIOUS
<1>1. CASE Visited(FALSE) /\ pc' = "evaluate"
  BY <1>1, VisitedInv DEF Connect
<1>2. CASE multi /\ Visited(TRUE) /\ UNCHANGED pc
  BY <1>2, VisitedInv DEF Connect
<1>3. CASE ~multi /\ pc' = "failed" /\ UNCHANGED clusters
  <2> USE <1>3 DEF Connect
  <2>1. TypeOK'
    BY DEF IInv, TypeOK
  <2>2. VisitInv'
    BY DEF IInv, VisitInv
  <2>3. RowsInv'
    BY DEF IInv, RowsInv, Underway
  <2> QED
    BY <2>1, <2>2, <2>3 DEF IInv
<1> QED
  BY <1>1, <1>2, <1>3 DEF Connect

LEMMA EvaluateInv == IInv /\ Evaluate => IInv'
<1> SUFFICES ASSUME IInv, Evaluate
             PROVE  IInv'
  OBVIOUS
<1> DEFINE n == Len(clusters)
           m == Len(Current.rows)
<1>1. /\ n \in Nat \ {0} /\ DOMAIN clusters = 1 .. n /\ Current = clusters[n]
      /\ Current.rows \in Seq(AnyRow) /\ m \in Nat /\ m < Len(Catalog) /\ ~Current.failed
  BY ClusterFacts DEF IInv, TypeOK, VisitInv, Evaluate, Current
<1>2. PICK r \in Rows(Catalog[m + 1]) :
        clusters' = [clusters EXCEPT ![n].rows = Append(@, r)]
  BY DEF Evaluate
<1>3. m + 1 \in 1 .. Len(Catalog) /\ Catalog[m + 1] \in ToSet(Catalog)
  BY <1>1, CatalogFacts
<1>4. r \in AnyRow
  BY <1>2, <1>3 DEF AnyRow
<1> DEFINE rs == Append(clusters[n].rows, r)
           c == [clusters[n] EXCEPT !.rows = rs]
<1>5. /\ rs \in Seq(AnyRow) /\ Len(rs) = m + 1 /\ rs[m + 1] = r
      /\ \A k \in 1 .. m : rs[k] = clusters[n].rows[k]
  BY <1>1, <1>4
<1> HIDE DEF rs
<1>6. c \in ClusterReport
  <2>1. clusters[n] \in ClusterReport
    BY <1>1, ClusterFacts DEF IInv
  <2> QED
    BY <1>5, <2>1 DEF ClusterReport
<1>7. clusters' = [clusters EXCEPT ![n] = c]
  BY <1>1, <1>2 DEF rs
<1>8. c.rows = rs /\ c.failed = clusters[n].failed /\ c.target = clusters[n].target
  BY <1>1, ClusterFacts DEF IInv, ClusterReport
<1> HIDE DEF c
<1>9. clusters' \in Seq(ClusterReport) /\ Len(clusters') = n
  BY <1>1, <1>6, <1>7 DEF IInv, TypeOK
<1> HIDE DEF n
<1>10. DOMAIN clusters' = 1 .. n /\ clusters'[n] = c
  BY <1>1, <1>7
<1>11. \A k \in 1 .. n : k # n => clusters'[k] = clusters[k]
  BY <1>1, <1>7
<1>12. \A k \in 1 .. n : clusters'[k].target = clusters[k].target /\ clusters'[k].failed = clusters[k].failed
  BY <1>8, <1>10, <1>11
<1>13. TypeOK'
  BY <1>9 DEF IInv, TypeOK, Evaluate
<1>14. n = Len(clusters) /\ n = Len(clusters')
  BY <1>9 DEF n
<1>15. VisitInv'
  <2>1. Current'.failed = Current.failed
    BY <1>1, <1>12, <1>14 DEF Current
  <2> QED
    BY <1>1, <1>10, <1>12, <1>14, <2>1 DEF IInv, VisitInv, Evaluate
<1>16. RowsInv'
  <2> SUFFICES ASSUME NEW k \in 1 .. n
               PROVE  LET rows == clusters'[k].rows
                      IN  /\ clusters'[k].failed => rows = <<>>
                          /\ Len(rows) <= Len(Catalog)
                          /\ \A j \in 1 .. Len(rows) : rows[j] \in Rows(Catalog[j])
                          /\ ~clusters'[k].failed /\ ~Underway(k)' => Len(rows) = Len(Catalog)
    BY <1>10 DEF RowsInv
  <2>1. CASE k = n
    <3>1. clusters'[k].rows = rs /\ ~clusters'[k].failed /\ Underway(k)'
      BY <1>1, <1>8, <1>10, <1>12, <1>14, <2>1 DEF Underway, Evaluate
    <3>2. Len(rs) <= Len(Catalog)
      BY <1>1, <1>5, CatalogFacts
    <3>3. \A j \in 1 .. m : clusters[n].rows[j] \in Rows(Catalog[j])
      BY <1>1 DEF IInv, RowsInv
    <3>4. \A j \in 1 .. Len(rs) : rs[j] \in Rows(Catalog[j])
      BY <1>1, <1>2, <1>5, <3>3
    <3> QED
      BY <3>1, <3>2, <3>4
  <2>2. CASE k # n
    <3>1. clusters'[k] = clusters[k] /\ ~Underway(k)
      BY <1>11, <1>14, <2>2 DEF Underway
    <3> QED
      BY <1>1, <3>1 DEF IInv, RowsInv
  <2> QED
    BY <2>1, <2>2
<1> QED
  BY <1>13, <1>15, <1>16 DEF IInv

LEMMA ClusterDoneInv == IInv /\ ClusterDone => IInv'
<1> SUFFICES ASSUME IInv, ClusterDone
             PROVE  IInv'
  OBVIOUS
<1> USE DEF ClusterDone
<1>1. TypeOK'
  BY DEF IInv, TypeOK
<1>2. VisitInv'
  BY DEF IInv, VisitInv
<1>3. RowsInv'
  BY DEF IInv, RowsInv, Underway, Current
<1> QED
  BY <1>1, <1>2, <1>3 DEF IInv

LEMMA CanceledInv == IInv /\ Canceled => IInv'
<1> SUFFICES ASSUME IInv, Canceled
             PROVE  IInv'
  OBVIOUS
<1> USE DEF Canceled
<1>1. TypeOK' /\ VisitInv'
  BY DEF IInv, TypeOK, VisitInv
<1>2. RowsInv'
  BY DEF IInv, RowsInv, Underway
<1> QED
  BY <1>1, <1>2 DEF IInv

LEMMA WriteInv == IInv /\ Write => IInv'
<1> SUFFICES ASSUME IInv, Write
             PROVE  IInv'
  OBVIOUS
<1> USE DEF Write
<1>1. TypeOK'
  BY DEF IInv, TypeOK
<1>2. VisitInv'
  <2>1. Len(clusters) \in Nat /\ Len(targets) \in Nat
    BY FleetFacts, ClusterFacts DEF IInv, TypeOK
  <2>2. Len(clusters) = Len(targets)
    BY <2>1 DEF IInv, VisitInv
  <2> QED
    BY <2>2 DEF IInv, VisitInv
<1>3. RowsInv'
  BY DEF IInv, RowsInv, Underway
<1> QED
  BY <1>1, <1>2, <1>3 DEF IInv

LEMMA Invariance == Spec => []IInv
<1>1. IInv /\ [Next]_vars => IInv'
  <2> SUFFICES ASSUME IInv, [Next]_vars
               PROVE  IInv'
    OBVIOUS
  <2>1. CASE UNCHANGED vars
    <3> USE <2>1 DEF vars
    <3>1. TypeOK' /\ VisitInv'
      BY DEF IInv, TypeOK, VisitInv, Current
    <3>2. RowsInv'
      BY DEF IInv, RowsInv, Underway
    <3> QED
      BY <3>1, <3>2 DEF IInv
  <2> QED
    BY <2>1, ConnectInv, EvaluateInv, ClusterDoneInv, CanceledInv, WriteInv DEF Next, Stopped
<1> QED
  BY <1>1, InitInv, PTL DEF Spec
----------------------------------------------------------------------------
(* A report that is written.                                               *)

\* What a cluster's report holds by then.
Scanned(c) ==
  /\ c.failed \in BOOLEAN /\ (c.failed => c.rows = <<>>)
  /\ Len(c.rows) \in Nat /\ DOMAIN c.rows = 1 .. Len(c.rows) /\ Len(c.rows) <= Len(Catalog)
  /\ ~c.failed => Len(c.rows) = Len(Catalog)
  /\ \A n \in DOMAIN c.rows : c.rows[n] \in Rows(Catalog[n])

LEMMA WrittenFacts ==
  ASSUME IInv, Written
  PROVE  /\ Len(clusters) = Len(targets) /\ Len(clusters) \in Nat \ {0}
         /\ DOMAIN clusters = 1 .. Len(clusters)
         /\ \A k \in DOMAIN clusters : Scanned(clusters[k]) /\ clusters[k].target = targets[k]
         /\ \A k, m \in DOMAIN clusters : clusters[k].target = clusters[m].target => k = m
         /\ ~multi => Len(targets) = 1 /\ \A k \in DOMAIN clusters : ~clusters[k].failed
<1>1. /\ Len(clusters) = Len(targets) /\ Len(clusters) \in Nat \ {0}
      /\ DOMAIN clusters = 1 .. Len(clusters) /\ DOMAIN targets = 1 .. Len(targets)
  BY FleetFacts, ClusterFacts DEF IInv, TypeOK, VisitInv, Written
<1>2. \A k \in DOMAIN clusters : clusters[k].target = targets[k]
  BY DEF IInv, VisitInv
<1>3. \A k, m \in DOMAIN clusters : clusters[k].target = clusters[m].target => k = m
  BY <1>1, <1>2, FleetFacts DEF IInv, TypeOK
<1>4. ASSUME NEW k \in DOMAIN clusters
      PROVE  Scanned(clusters[k])
  <2>1. /\ clusters[k].failed \in BOOLEAN /\ Len(clusters[k].rows) \in Nat
        /\ DOMAIN clusters[k].rows = 1 .. Len(clusters[k].rows)
    BY ClusterFacts DEF IInv
  <2>2. ~Underway(k)
    BY DEF Underway, Written
  <2>3. /\ clusters[k].failed => clusters[k].rows = <<>>
        /\ Len(clusters[k].rows) <= Len(Catalog)
        /\ \A n \in 1 .. Len(clusters[k].rows) : clusters[k].rows[n] \in Rows(Catalog[n])
        /\ ~clusters[k].failed => Len(clusters[k].rows) = Len(Catalog)
    BY <2>2 DEF IInv, RowsInv
  <2> QED
    BY <2>1, <2>3 DEF Scanned
<1>5. ~multi => Len(targets) = 1 /\ \A k \in DOMAIN clusters : ~clusters[k].failed
  BY DEF IInv, VisitInv
<1> QED
  BY <1>1, <1>2, <1>3, <1>4, <1>5

LEMMA RowFacts ==
  ASSUME NEW c, Scanned(c), NEW n \in DOMAIN c.rows
  PROVE  LET r == c.rows[n]
         IN  /\ n \in 1 .. Len(Catalog) /\ r.rule = Catalog[n]
             /\ r.status \in {"pass", "skipped", "error", "fail"} /\ r.severity \in Severities
             /\ r.base \in BOOLEAN /\ r.sup \in {"none", "active", "expired"}
             /\ r.status # "fail" => r.sup = "none" /\ ~r.base
<1> DEFINE r == c.rows[n]
<1>1. n \in 1 .. Len(Catalog) /\ r \in Rows(Catalog[n])
  BY CatalogFacts DEF Scanned
<1>2. SeverityOf[Catalog[n]] \in Severities
  BY <1>1, CatalogFacts, CatalogAssumption
<1> HIDE DEF r
<1>3. /\ r.rule = Catalog[n] /\ r.status \in {"pass", "skipped", "error", "fail"}
      /\ r.severity = SeverityOf[Catalog[n]]
      /\ r.base \in BOOLEAN /\ r.sup \in {"none", "active", "expired"}
      /\ r.status # "fail" => r.sup = "none" /\ ~r.base
  BY <1>1 DEF Rows
<1> QED
  BY <1>1, <1>2, <1>3 DEF r

\* A rule has one row.
LEMMA OneRowPerRule ==
  ASSUME NEW c, Scanned(c), NEW m \in DOMAIN c.rows, NEW n \in DOMAIN c.rows,
         c.rows[m].rule = c.rows[n].rule
  PROVE  m = n
  BY RowFacts, CatalogFacts

LEMMA ColumnFacts ==
  ASSUME NEW c, Scanned(c), NEW n \in DOMAIN c.rows
  PROVE  LET r == c.rows[n]
         IN  /\ Column(r) \in Columns
             /\ Column(r) = "errored" <=> r.status = "error"
             /\ \A v \in Severities : Column(r) = Live[v] <=> InFindings(r) /\ r.severity = v
<1> DEFINE r == c.rows[n]
<1>1. /\ r.status \in {"pass", "skipped", "error", "fail"} /\ r.severity \in 1 .. 4
      /\ r.base \in BOOLEAN
  BY RowFacts DEF Severities
<1> HIDE DEF r
<1>2. /\ Live[1] = "info" /\ Live[2] = "warn" /\ Live[3] = "error" /\ Live[4] = "critical"
  BY DEF Live
<1>3. r.severity \in {1, 2, 3, 4} /\ Severities = {1, 2, 3, 4}
  BY <1>1 DEF Severities
<1>4. Column(r) \in Columns
  BY <1>1, <1>2, <1>3 DEF Column, Columns
<1>5. Column(r) = "errored" <=> r.status = "error"
  BY <1>1, <1>2, <1>3 DEF Column
<1>6. \A v \in {1, 2, 3, 4} : Column(r) = Live[v] <=> InFindings(r) /\ r.severity = v
  BY <1>1, <1>2, <1>3 DEF Column, InFindings, Status
<1> QED
  BY <1>3, <1>4, <1>5, <1>6 DEF r

\* A count is above zero just when a row adds to it.
LEMMA CountFacts ==
  ASSUME NEW c, Scanned(c), NEW col \in Columns
  PROVE  /\ Classify(c.rows)[col] \in Nat
         /\ Classify(c.rows)[col] > 0 <=> \E n \in DOMAIN c.rows : Column(c.rows[n]) = col
<1> DEFINE K == {n \in DOMAIN c.rows : Column(c.rows[n]) = col}
<1>1. K \in SUBSET (1 .. Len(c.rows)) /\ Len(c.rows) \in Nat
  BY DEF Scanned
<1>2. Classify(c.rows)[col] = Cardinality(K)
  BY DEF Classify
<1>3. (\E n \in DOMAIN c.rows : Column(c.rows[n]) = col) <=> K # {}
  OBVIOUS
<1> HIDE DEF K
<1>4. IsFiniteSet(K) /\ Cardinality(K) \in Nat
  BY <1>1, InOrder
<1>5. Cardinality(K) > 0 <=> K # {}
  BY <1>4, FS_EmptySet
<1> QED
  BY <1>2, <1>3, <1>4, <1>5
----------------------------------------------------------------------------
(* Nothing is missing from a report.                                       *)

\* What SummaryIsWhole adds up.
All(s) == (s["passed"] + s["skipped"] + s["errored"]) + (s["waived"] + s["baselined"]) + LiveOf(s)

\* Every row is in one column.
LEMMA ColumnsPartition ==
  ASSUME NEW c, Scanned(c)
  PROVE  All(Classify(c.rows)) = Len(c.rows)
<1> DEFINE n == Len(c.rows)
           At(m, col) == {k \in 1 .. m : Column(c.rows[k]) = col}
           N(m, col) == Cardinality(At(m, col))
           Clear(m) == N(m, "passed") + N(m, "skipped") + N(m, "errored")
           Excused(m) == N(m, "waived") + N(m, "baselined")
           Found(m) == N(m, "info") + N(m, "warn") + N(m, "error") + N(m, "critical")
           Whole(m) == Clear(m) + Excused(m) + Found(m) = m
           S == {m \in 0 .. n : Whole(m)}
<1>1. n \in Nat /\ DOMAIN c.rows = 1 .. n
  BY DEF Scanned
<1>2. ASSUME NEW m \in 0 .. n, NEW col
      PROVE  IsFiniteSet(At(m, col)) /\ N(m, col) \in Nat
  <2>1. At(m, col) \in SUBSET (1 .. m) /\ m \in Nat
    BY <1>1
  <2> HIDE DEF At
  <2> QED
    BY <2>1, InOrder
<1>3. 0 \in S
  <2>1. \A col : At(0, col) = {}
    OBVIOUS
  <2> HIDE DEF At
  <2>2. \A col : N(0, col) = 0
    BY <2>1, FS_EmptySet
  <2> HIDE DEF N
  <2> QED
    BY <1>1, <2>2
<1>4. ASSUME NEW m \in 0 .. n - 1, m \in S PROVE m + 1 \in S
  <2> DEFINE col == Column(c.rows[m + 1])
  <2>1. m \in 0 .. n /\ m + 1 \in 0 .. n /\ m + 1 \in DOMAIN c.rows
    BY <1>1
  <2>2. col \in Columns
    BY <2>1, ColumnFacts
  <2> HIDE DEF col
  <2>3. \A x : At(m + 1, x) = At(m, x) \cup (IF x = col THEN {m + 1} ELSE {})
    <3>1. \A k : k \in 1 .. m + 1 <=> k \in 1 .. m \/ k = m + 1
      BY <2>1
    <3> QED
      BY <3>1 DEF col
  <2>4. \A x : m + 1 \notin At(m, x)
    BY <2>1
  <2> HIDE DEF At
  <2>5. \A x : N(m + 1, x) = N(m, x) + (IF x = col THEN 1 ELSE 0)
    <3> SUFFICES ASSUME NEW x
                 PROVE  N(m + 1, x) = N(m, x) + (IF x = col THEN 1 ELSE 0)
      OBVIOUS
    <3>1. IsFiniteSet(At(m, x)) /\ N(m, x) \in Nat /\ m + 1 \notin At(m, x)
      BY <1>2, <2>1, <2>4
    <3>2. CASE x = col
      <4>1. Cardinality(At(m, x) \cup {m + 1}) = Cardinality(At(m, x)) + 1
        BY <3>1, FS_AddElement
      <4>2. At(m + 1, x) = At(m, x) \cup {m + 1}
        BY <2>3, <3>2
      <4> QED
        BY <3>2, <4>1, <4>2
    <3>3. CASE x # col
      <4>1. At(m + 1, x) = At(m, x)
        BY <2>3, <3>3
      <4> QED
        BY <3>1, <3>3, <4>1
    <3> QED
      BY <3>2, <3>3
  <2>6. \A x : N(m, x) \in Nat
    BY <1>2, <2>1
  <2> HIDE DEF N
  <2>7. Whole(m)
    BY <1>4
  <2> DEFINE D(x) == IF x = col THEN 1 ELSE 0
             clear == D("passed") + D("skipped") + D("errored")
             excused == D("waived") + D("baselined")
             found == D("info") + D("warn") + D("error") + D("critical")
  <2>8. clear + excused + found = 1
    BY <2>2 DEF Columns
  <2>9. \A x : D(x) \in Nat /\ N(m, x) \in Nat /\ N(m + 1, x) = N(m, x) + D(x)
    BY <2>5, <2>6
  <2> HIDE DEF D
  <2>10. Clear(m + 1) = Clear(m) + clear /\ Clear(m) \in Nat /\ clear \in Nat
    <3>1. N(m + 1, "passed") + N(m + 1, "skipped")
            = (N(m, "passed") + N(m, "skipped")) + (D("passed") + D("skipped"))
      BY <2>9
    <3>2. N(m + 1, "errored") = N(m, "errored") + D("errored")
      BY <2>9
    <3>3. /\ N(m, "passed") \in Nat /\ N(m, "skipped") \in Nat /\ N(m, "errored") \in Nat
          /\ D("passed") \in Nat /\ D("skipped") \in Nat /\ D("errored") \in Nat
      BY <2>9
    <3>4. Clear(m) \in Nat /\ clear \in Nat
      BY <3>3
    <3>5. Clear(m + 1) = Clear(m) + clear
      BY <3>1, <3>2, <3>3
    <3> QED
      BY <3>4, <3>5
  <2>11. Excused(m + 1) = Excused(m) + excused /\ Excused(m) \in Nat /\ excused \in Nat
    BY <2>9
  <2>12. Found(m + 1) = Found(m) + found /\ Found(m) \in Nat /\ found \in Nat
    <3>1. N(m + 1, "info") + N(m + 1, "warn")
            = (N(m, "info") + N(m, "warn")) + (D("info") + D("warn"))
      BY <2>9
    <3>2. N(m + 1, "info") + N(m + 1, "warn") + N(m + 1, "error")
            = (N(m, "info") + N(m, "warn") + N(m, "error")) + (D("info") + D("warn") + D("error"))
      BY <2>9, <3>1
    <3>3. N(m + 1, "critical") = N(m, "critical") + D("critical")
      BY <2>9
    <3>4. /\ N(m, "info") \in Nat /\ N(m, "warn") \in Nat
          /\ N(m, "error") \in Nat /\ N(m, "critical") \in Nat
          /\ D("info") \in Nat /\ D("warn") \in Nat /\ D("error") \in Nat /\ D("critical") \in Nat
      BY <2>9
    <3>5. Found(m) \in Nat /\ found \in Nat
      <4>1. N(m, "info") + N(m, "warn") + N(m, "error") \in Nat
        BY <3>4
      <4>2. D("info") + D("warn") + D("error") \in Nat
        BY <3>4
      <4>3. Found(m) \in Nat
        BY <3>4, <4>1
      <4>4. found \in Nat
        BY <3>4, <4>2
      <4> QED
        BY <4>3, <4>4
    <3>6. Found(m + 1) = Found(m) + found
      BY <3>2, <3>3, <3>4
    <3> QED
      BY <3>5, <3>6
  <2>13. m \in Nat
    BY <1>1, <2>1
  <2> HIDE DEF Clear, Excused, Found, clear, excused, found
  <2>14. Whole(m + 1)
    BY <2>7, <2>8, <2>10, <2>11, <2>12, <2>13
  <2> QED
    BY <2>1, <2>14
<1>5. Whole(n)
  <2> HIDE DEF S
  <2>1. n \in S
    BY <1>1, <1>3, <1>4, CountsUpTo
  <2> QED
    BY <2>1 DEF S
<1>6. \A col \in Columns : Classify(c.rows)[col] = N(n, col)
  BY <1>1 DEF Classify
<1> HIDE DEF N
<1> QED
  BY <1>5, <1>6 DEF All, LiveOf, Columns

\* A SARIF run is successful just when its cluster was reached and no rule errored.
LEMMA SuccessfulMeans ==
  ASSUME NEW c, Scanned(c), NEW o
  PROVE  SarifRun(c, o).successful = (~c.failed /\ Classify(c.rows)["errored"] = 0)
<1>1. SarifRun(c, o).successful = (~c.failed /\ \A r \in ToSet(c.rows) : ~Status(r, "error"))
  BY DEF SarifRun
<1>2. (\A r \in ToSet(c.rows) : ~Status(r, "error"))
        <=> \A n \in DOMAIN c.rows : c.rows[n].status # "error"
  BY DEF ToSet, Status
<1>3. (\A n \in DOMAIN c.rows : c.rows[n].status # "error")
        <=> \A n \in DOMAIN c.rows : Column(c.rows[n]) # "errored"
  BY ColumnFacts
<1>4. /\ Classify(c.rows)["errored"] \in Nat
      /\ Classify(c.rows)["errored"] > 0 <=> \E n \in DOMAIN c.rows : Column(c.rows[n]) = "errored"
  BY CountFacts DEF Columns
<1> QED
  BY <1>1, <1>2, <1>3, <1>4

LEMMA PartialScans == ASSUME IInv PROVE PartialScanIsMarked
<1> SUFFICES ASSUME Written, NEW k \in DOMAIN clusters
             PROVE  SarifRun(clusters[k], opts).successful =
                      (~clusters[k].failed /\ BuildDocument(clusters[k], opts).summary["errored"] = 0)
  BY DEF PartialScanIsMarked
<1>1. Scanned(clusters[k])
  BY WrittenFacts
<1>2. BuildDocument(clusters[k], opts).summary = Classify(clusters[k].rows)
  BY DEF BuildDocument
<1> QED
  BY <1>1, <1>2, SuccessfulMeans

\* A count of the fleet is that of the clusters that were reached.
FleetCounts(col) ==
  [k \in DOMAIN clusters |-> IF clusters[k].failed THEN 0 ELSE Classify(clusters[k].rows)[col]]

LEMMA FleetFactsOf ==
  ASSUME IInv, Written, NEW col \in Columns
  PROVE  /\ FleetSummary(clusters).counts[col] = Sum(FleetCounts(col))
         /\ FleetCounts(col) \in [1 .. Len(clusters) -> Nat]
         /\ \A k \in 1 .. Len(clusters) : FleetCounts(col)[k] = Classify(clusters[k].rows)[col]
<1>1. /\ FleetSummary(clusters).counts[col] = Sum(FleetCounts(col))
  BY DEF FleetSummary, FleetCounts
<1>2. ASSUME NEW k \in 1 .. Len(clusters)
      PROVE  /\ FleetCounts(col)[k] \in Nat
             /\ FleetCounts(col)[k] = Classify(clusters[k].rows)[col]
  <2>1. k \in DOMAIN clusters /\ Scanned(clusters[k])
    BY WrittenFacts
  <2>2. /\ Classify(clusters[k].rows)[col] \in Nat
        /\ Classify(clusters[k].rows)[col] > 0 <=>
             \E n \in DOMAIN clusters[k].rows : Column(clusters[k].rows[n]) = col
    BY <2>1, CountFacts
  <2>3. clusters[k].failed => Classify(clusters[k].rows)[col] = 0
    <3> SUFFICES ASSUME clusters[k].failed
                 PROVE  DOMAIN clusters[k].rows = {}
      BY <2>2
    <3> QED
      BY <2>1 DEF Scanned
  <2> QED
    BY <2>1, <2>2, <2>3 DEF FleetCounts, Scanned
<1>3. DOMAIN FleetCounts(col) = 1 .. Len(clusters) /\ FleetCounts(col) = [k \in 1 .. Len(clusters) |-> FleetCounts(col)[k]]
  BY WrittenFacts DEF FleetCounts
<1> QED
  BY <1>1, <1>2, <1>3

\* Three sums, or two, place by place.
LEMMA SumOfThree ==
  ASSUME NEW n \in Nat, NEW s \in [1 .. n -> Nat], NEW t \in [1 .. n -> Nat],
         NEW r \in [1 .. n -> Nat], NEW u \in [1 .. n -> Nat],
         \A k \in 1 .. n : u[k] = s[k] + t[k] + r[k]
  PROVE  Sum(u) = Sum(s) + Sum(t) + Sum(r)
<1> DEFINE st == [k \in 1 .. n |-> s[k] + t[k]]
<1>1. \A k \in 1 .. n : s[k] \in Nat /\ t[k] \in Nat
  OBVIOUS
<1>2. st \in [1 .. n -> Nat] /\ \A k \in 1 .. n : st[k] = s[k] + t[k]
  BY <1>1
<1> HIDE DEF st
<1>3. Sum(st) = Sum(s) + Sum(t)
  BY <1>2, SumOfSums
<1>4. \A k \in 1 .. n : u[k] = st[k] + r[k]
  BY <1>2
<1>5. Sum(u) = Sum(st) + Sum(r)
  BY <1>2, <1>4, SumOfSums
<1> QED
  BY <1>3, <1>5

LEMMA SummaryWhole == ASSUME IInv PROVE SummaryIsWhole
<1> SUFFICES ASSUME Written
             PROVE  /\ \A c \in Reached : All(BuildDocument(c, opts).summary) = Len(Catalog)
                    /\ All(FleetSummary(clusters).counts)
                         = Sum([k \in DOMAIN clusters |-> Len(clusters[k].rows)])
  BY DEF SummaryIsWhole, All
<1>1. ASSUME NEW c \in Reached
      PROVE  All(BuildDocument(c, opts).summary) = Len(Catalog)
  <2>1. Scanned(c) /\ ~c.failed
    BY WrittenFacts DEF Reached, ToSet
  <2>2. BuildDocument(c, opts).summary = Classify(c.rows)
    BY DEF BuildDocument
  <2> QED
    BY <2>1, <2>2, ColumnsPartition DEF Scanned
<1>2. All(FleetSummary(clusters).counts) = Sum([k \in DOMAIN clusters |-> Len(clusters[k].rows)])
  <2> DEFINE n == Len(clusters)
             F(col) == FleetCounts(col)
             clear == [k \in 1 .. n |-> F("passed")[k] + F("skipped")[k] + F("errored")[k]]
             excused == [k \in 1 .. n |-> F("waived")[k] + F("baselined")[k]]
             some == [k \in 1 .. n |-> F("info")[k] + F("warn")[k] + F("error")[k]]
             found == [k \in 1 .. n |-> some[k] + F("critical")[k]]
             lens == [k \in DOMAIN clusters |-> Len(clusters[k].rows)]
  <2>1. n \in Nat /\ DOMAIN clusters = 1 .. n
    BY WrittenFacts
  <2>2. \A col \in Columns : F(col) \in [1 .. n -> Nat] /\ FleetSummary(clusters).counts[col] = Sum(F(col))
    BY FleetFactsOf
  <2>3. \A col \in Columns : \A k \in 1 .. n : F(col)[k] = Classify(clusters[k].rows)[col]
    BY FleetFactsOf
  <2> HIDE DEF F, n
  <2>4. \A col \in Columns : \A k \in 1 .. n : F(col)[k] \in Nat
    BY <2>2
  <2>5. clear \in [1 .. n -> Nat] /\ excused \in [1 .. n -> Nat]
    BY <2>4 DEF Columns
  <2>6. some \in [1 .. n -> Nat]
    BY <2>4 DEF Columns
  <2>7. \A k \in 1 .. n : some[k] \in Nat /\ F("critical")[k] \in Nat
    BY <2>4, <2>6 DEF Columns
  <2> HIDE DEF some
  <2>8. found \in [1 .. n -> Nat]
    BY <2>7
  <2>9. /\ \A k \in 1 .. n : clear[k] = F("passed")[k] + F("skipped")[k] + F("errored")[k]
        /\ \A k \in 1 .. n : excused[k] = F("waived")[k] + F("baselined")[k]
        /\ \A k \in 1 .. n : some[k] = F("info")[k] + F("warn")[k] + F("error")[k]
        /\ \A k \in 1 .. n : found[k] = some[k] + F("critical")[k]
    BY DEF some
  <2> HIDE DEF clear, excused, found
  <2>10. Sum(clear) = Sum(F("passed")) + Sum(F("skipped")) + Sum(F("errored"))
    <3>1. /\ F("passed") \in [1 .. n -> Nat] /\ F("skipped") \in [1 .. n -> Nat]
          /\ F("errored") \in [1 .. n -> Nat]
      BY <2>2 DEF Columns
    <3>2. \A k \in 1 .. n : clear[k] = F("passed")[k] + F("skipped")[k] + F("errored")[k]
      BY <2>9
    <3>3. clear \in [1 .. n -> Nat]
      BY <2>5
    <3> QED
      BY <2>1, <3>1, <3>2, <3>3, SumOfThree, ZenonT(30)
  <2>11. Sum(excused) = Sum(F("waived")) + Sum(F("baselined"))
    <3>1. F("waived") \in [1 .. n -> Nat] /\ F("baselined") \in [1 .. n -> Nat]
      BY <2>2 DEF Columns
    <3> QED
      BY <2>1, <2>5, <2>9, <3>1, SumOfSums
  <2>12. Sum(some) = Sum(F("info")) + Sum(F("warn")) + Sum(F("error"))
    <3>1. /\ F("info") \in [1 .. n -> Nat] /\ F("warn") \in [1 .. n -> Nat]
          /\ F("error") \in [1 .. n -> Nat]
      BY <2>2 DEF Columns
    <3> QED
      BY <2>1, <2>6, <2>9, <3>1, SumOfThree
  <2>13. Sum(found) = Sum(some) + Sum(F("critical"))
    <3>1. F("critical") \in [1 .. n -> Nat]
      BY <2>2 DEF Columns
    <3> QED
      BY <2>1, <2>6, <2>8, <2>9, <3>1, SumOfSums
  <2>14. \A k \in 1 .. n : lens[k] = clear[k] + excused[k] + found[k]
    <3> SUFFICES ASSUME NEW k \in 1 .. n
                 PROVE  lens[k] = clear[k] + excused[k] + found[k]
      OBVIOUS
    <3>1. All(Classify(clusters[k].rows)) = Len(clusters[k].rows)
      BY <2>1, WrittenFacts, ColumnsPartition
    <3>2. \A col \in Columns : F(col)[k] = Classify(clusters[k].rows)[col]
      BY <2>3
    <3> QED
      BY <2>1, <2>9, <3>1, <3>2 DEF All, LiveOf, Columns
  <2>15. lens \in [1 .. n -> Nat]
    BY <2>1, WrittenFacts DEF Scanned
  <2> HIDE DEF lens
  <2>16. Sum(lens) = Sum(clear) + Sum(excused) + Sum(found)
    BY <2>1, <2>5, <2>8, <2>14, <2>15, SumOfThree, ZenonT(30)
  <2>17. All(FleetSummary(clusters).counts) = Sum(clear) + Sum(excused) + Sum(found)
    BY <2>2, <2>10, <2>11, <2>12, <2>13, Zenon DEF All, LiveOf, Columns
  <2> QED
    BY <2>16, <2>17 DEF lens
<1> QED
  BY <1>1, <1>2

\* A run without descriptors and without success is that of a cluster not reached.
LEMMA UnscannedMeans ==
  ASSUME NEW c, Scanned(c), NEW o
  PROVE  c.failed <=> SarifRun(c, o).rules = <<>> /\ ~SarifRun(c, o).successful
<1>1. SarifRun(c, o).rules = (IF c.failed THEN <<>> ELSE SarifRules(c.rows))
  BY DEF SarifRun
<1>2. SarifRun(c, o).successful = (~c.failed /\ \A r \in ToSet(c.rows) : ~Status(r, "error"))
  BY DEF SarifRun
<1>3. CASE c.failed
  BY <1>1, <1>2, <1>3
<1>4. CASE ~c.failed
  <2>1. ASSUME SarifRules(c.rows) = <<>>
        PROVE  ToSet(c.rows) = {}
    <3>1. DOMAIN SarifRules(c.rows) = DOMAIN c.rows
      BY DEF SarifRules
    <3>2. DOMAIN c.rows = {}
      BY <2>1, <3>1
    <3> QED
      BY <3>2 DEF ToSet
  <2> QED
    BY <1>1, <1>2, <1>4, <2>1
<1> QED
  BY <1>3, <1>4

LEMMA Unreachable == ASSUME IInv PROVE UnreachableIsVisible
<1> SUFFICES ASSUME Written
             PROVE  LET fleet == FleetSummary(clusters)
                        runs == SarifRuns(clusters, opts)
                        blocks == MultiTable(clusters, opts)
                        unscanned == {k \in DOMAIN runs : runs[k].rules = <<>> /\ ~runs[k].successful}
                    IN  /\ fleet.total = Len(targets) /\ Len(runs) = Len(targets) /\ Len(blocks) = Len(targets)
                        /\ \A k \in DOMAIN blocks : blocks[k].connectFailed = (k \in unscanned)
                        /\ fleet.unreachable = Cardinality(unscanned)
                        /\ fleet.scanned = Len(targets) - fleet.unreachable
                        /\ JUnitTotals(clusters, opts).errors = fleet.counts["errored"] + fleet.unreachable
  BY DEF UnreachableIsVisible
<1> DEFINE n == Len(clusters)
           runs == SarifRuns(clusters, opts)
           blocks == MultiTable(clusters, opts)
           unscanned == {k \in DOMAIN runs : runs[k].rules = <<>> /\ ~runs[k].successful}
           failed == {k \in DOMAIN clusters : clusters[k].failed}
<1>1. n \in Nat /\ n = Len(targets) /\ DOMAIN clusters = 1 .. n
  BY WrittenFacts
<1>2. \A k \in 1 .. n : Scanned(clusters[k])
  BY WrittenFacts
<1>3. DOMAIN runs = 1 .. n /\ Len(runs) = n /\ \A k \in 1 .. n : runs[k] = SarifRun(clusters[k], opts)
  BY <1>1 DEF SarifRuns
<1>4. DOMAIN blocks = 1 .. n /\ Len(blocks) = n
      /\ \A k \in 1 .. n : blocks[k].connectFailed = clusters[k].failed
  BY <1>1 DEF MultiTable
<1>5. /\ FleetSummary(clusters).total = n
      /\ FleetSummary(clusters).unreachable = Cardinality(failed)
      /\ FleetSummary(clusters).scanned = Cardinality((1 .. n) \ failed)
  BY <1>1 DEF FleetSummary
<1>6. unscanned = failed
  <2> HIDE DEF runs
  <2>1. \A k \in 1 .. n : clusters[k].failed <=> runs[k].rules = <<>> /\ ~runs[k].successful
    BY <1>2, <1>3, UnscannedMeans
  <2> QED
    BY <1>1, <1>3, <2>1
<1>7. \A k \in 1 .. n : clusters[k].failed \in BOOLEAN
  BY <1>2 DEF Scanned
<1>8. failed \in SUBSET (1 .. n)
  BY <1>1
<1>9. IsFiniteSet(failed) /\ Cardinality(failed) \in Nat
  BY <1>1, <1>8, InOrder
<1>10. Cardinality((1 .. n) \ failed) = n - Cardinality(failed)
  <2> HIDE DEF n, failed
  <2>1. IsFiniteSet(1 .. n) /\ Cardinality(1 .. n) = n
    <3>1. n \in Nat
      BY <1>1
    <3>2. \A m \in Nat : IsFiniteSet(1 .. m) /\ Cardinality(1 .. m) = m
      BY FS_Interval
    <3> QED
      BY <3>1, <3>2
  <2>2. (1 .. n) \cap failed = failed
    BY <1>8
  <2> DEFINE T == 1 .. n
  <2> HIDE DEF T
  <2>3. Cardinality(T \ failed) = Cardinality(T) - Cardinality(T \cap failed)
    BY <2>1, FS_Difference DEF T
  <2> QED
    BY <2>1, <2>2, <2>3 DEF T
<1>11. JUnitTotals(clusters, opts).errors = FleetSummary(clusters).counts["errored"] + Cardinality(failed)
  <2> DEFINE s == FleetCounts("errored")
             t == [k \in 1 .. n |-> IF k \in failed THEN 1 ELSE 0]
             u == [k \in DOMAIN clusters |-> JUnitSuite(clusters[k], opts).errors]
  <2>1. /\ FleetSummary(clusters).counts["errored"] = Sum(s) /\ s \in [1 .. n -> Nat]
        /\ \A k \in 1 .. n : s[k] = IF clusters[k].failed THEN 0 ELSE Classify(clusters[k].rows)["errored"]
    BY <1>1, FleetFactsOf DEF Columns, FleetCounts
  <2>2. t \in [1 .. n -> Nat] /\ \A k \in 1 .. n : t[k] = IF k \in failed THEN 1 ELSE 0
    OBVIOUS
  <2>3. \A k \in 1 .. n : u[k] = IF clusters[k].failed THEN 1 ELSE Classify(clusters[k].rows)["errored"]
    BY <1>1 DEF JUnitSuite
  <2>4. DOMAIN u = 1 .. n /\ u = [k \in 1 .. n |-> u[k]]
    BY <1>1
  <2>5. JUnitTotals(clusters, opts).errors = Sum(u)
    BY DEF JUnitTotals
  <2>6. \A k \in 1 .. n : k \in failed <=> clusters[k].failed
    BY <1>1
  <2> HIDE DEF s, t, u, failed, n
  <2>7. \A k \in 1 .. n : s[k] \in Nat
    BY <2>1
  <2>8. \A k \in 1 .. n : u[k] = s[k] + t[k]
    BY <1>7, <2>1, <2>2, <2>3, <2>6, <2>7
  <2>9. u \in [1 .. n -> Nat]
    BY <2>2, <2>4, <2>7, <2>8
  <2>10. Sum(u) = Sum(s) + Sum(t)
    <3>1. s \in [1 .. n -> Nat]
      BY <2>1
    <3>2. t \in [1 .. n -> Nat]
      BY <2>2
    <3>3. n \in Nat
      BY <1>1
    <3> QED
      BY <2>8, <2>9, <3>1, <3>2, <3>3, SumOfSums, ZenonT(30)
  <2>11. Sum(t) = Cardinality(failed)
    BY <1>1, <1>8, <2>2, SumOfOnes
  <2> QED
    BY <2>1, <2>5, <2>10, <2>11
<1>12. \A k \in DOMAIN blocks : blocks[k].connectFailed = (k \in unscanned)
  <2>1. \A k \in 1 .. n : k \in failed <=> clusters[k].failed
    BY <1>1
  <2> HIDE DEF blocks, unscanned, failed
  <2> QED
    BY <1>4, <1>6, <1>7, <2>1
<1> HIDE DEF runs, blocks, unscanned, failed
<1> QED
  BY <1>1, <1>3, <1>4, <1>5, <1>6, <1>10, <1>11, <1>12 DEF runs, blocks, unscanned, n

\* Every cluster and every row is accounted for, and no format takes a scan that
\* missed some for a clean one, however many clusters, rules and failures there are
\* (buildFleetDocument, MultiTable, MultiSARIF, MultiJUnit).
THEOREM ReportsAreComplete == Spec => []ReportIsComplete
<1>1. IInv => ReportIsComplete
  BY SummaryWhole, Unreachable, PartialScans DEF ReportIsComplete
<1> QED
  BY <1>1, Invariance, PTL
----------------------------------------------------------------------------
(* The decision of the gate.                                               *)

\* The severities that may trip the gate are those of the findings.
LEMMA FailingMeans ==
  ASSUME NEW c, Scanned(c), NEW v
  PROVE  /\ v \in FailingSeverities(c.rows)
              <=> \E n \in DOMAIN c.rows : InFindings(c.rows[n]) /\ c.rows[n].severity = v
         /\ v \in FailingSeverities(c.rows) => v \in Severities
<1> DEFINE found == {x \in ToSet(c.rows) : Status(x, "fail") /\ ~IsActiveWaiver(x) /\ ~IsBaselined(x)}
<1>1. \A x : x \in found <=> \E n \in DOMAIN c.rows : x = c.rows[n] /\ InFindings(x)
  BY DEF ToSet, InFindings
<1>2. FailingSeverities(c.rows) = {r.severity : r \in found}
  BY DEF FailingSeverities
<1> HIDE DEF found
<1>3. v \in FailingSeverities(c.rows)
        <=> \E n \in DOMAIN c.rows : InFindings(c.rows[n]) /\ c.rows[n].severity = v
  BY <1>1, <1>2
<1>4. \A n \in DOMAIN c.rows : c.rows[n].severity \in Severities
  BY RowFacts
<1> QED
  BY <1>3, <1>4

\* The summary counts a severity just when the gate sees it.
LEMMA LiveCounts ==
  ASSUME NEW c, Scanned(c), NEW v \in Severities
  PROVE  /\ Live[v] \in Columns /\ Classify(c.rows)[Live[v]] \in Nat
         /\ Classify(c.rows)[Live[v]] > 0 <=> v \in FailingSeverities(c.rows)
<1>1. Live[v] \in Columns
  <2>1. v \in {1, 2, 3, 4}
    BY DEF Severities
  <2>2. Live[1] = "info" /\ Live[2] = "warn" /\ Live[3] = "error" /\ Live[4] = "critical"
    BY DEF Live
  <2> QED
    BY <2>1, <2>2 DEF Columns
<1>2. /\ Classify(c.rows)[Live[v]] \in Nat
      /\ Classify(c.rows)[Live[v]] > 0 <=> \E n \in DOMAIN c.rows : Column(c.rows[n]) = Live[v]
  BY <1>1, CountFacts
<1>3. \A n \in DOMAIN c.rows :
        Column(c.rows[n]) = Live[v] <=> InFindings(c.rows[n]) /\ c.rows[n].severity = v
  BY ColumnFacts
<1>4. v \in FailingSeverities(c.rows)
        <=> \E n \in DOMAIN c.rows : InFindings(c.rows[n]) /\ c.rows[n].severity = v
  BY FailingMeans
<1> QED
  BY <1>1, <1>2, <1>3, <1>4

LEMMA FleetLive ==
  ASSUME IInv, Written, NEW v \in Severities
  PROVE  FleetSummary(clusters).counts[Live[v]] > 0
           <=> \E k \in DOMAIN clusters : v \in FailingSeverities(clusters[k].rows)
<1> DEFINE n == Len(clusters)
           s == FleetCounts(Live[v])
<1>1. n \in Nat \ {0} /\ DOMAIN clusters = 1 .. n /\ \A k \in 1 .. n : Scanned(clusters[k])
  BY WrittenFacts
<1>2. Live[v] \in Columns
  BY <1>1, LiveCounts
<1>3. FleetSummary(clusters).counts[Live[v]] = Sum(s) /\ s \in [1 .. n -> Nat]
  BY <1>2, FleetFactsOf
<1>4. \A k \in 1 .. n : s[k] = Classify(clusters[k].rows)[Live[v]]
  BY <1>2, FleetFactsOf
<1>5. \A k \in 1 .. n : Classify(clusters[k].rows)[Live[v]] > 0 <=> v \in FailingSeverities(clusters[k].rows)
  BY <1>1, LiveCounts
<1> HIDE DEF n, s
<1>6. Sum(s) > 0 <=> \E k \in 1 .. n : s[k] > 0
  BY <1>1, <1>3, SumPositive
<1> QED
  BY <1>1, <1>3, <1>4, <1>5, <1>6

\* The totals of JSON show what trips the gate.
LEMMA TotalsTell ==
  ASSUME IInv, Written
  PROVE  (\E c \in ToSet(clusters) : \E v \in FailingSeverities(c.rows) : v >= FailOn)
           <=> \E v \in FailOn .. 4 : FleetSummary(clusters).counts[Live[v]] > 0
<1>1. \A k \in DOMAIN clusters : \A v \in FailingSeverities(clusters[k].rows) : v \in Severities
  BY WrittenFacts, FailingMeans
<1>2. \A v \in Severities : FleetSummary(clusters).counts[Live[v]] > 0
        <=> \E k \in DOMAIN clusters : v \in FailingSeverities(clusters[k].rows)
  BY FleetLive
<1>3. \A v : v \in FailOn .. 4 <=> v \in Severities /\ v >= FailOn
  BY FailOnAssumption DEF Severities
<1>4. (\E c \in ToSet(clusters) : \E v \in FailingSeverities(c.rows) : v >= FailOn)
        <=> \E k \in DOMAIN clusters : \E v \in FailingSeverities(clusters[k].rows) : v >= FailOn
  BY DEF ToSet
<1> QED
  BY <1>1, <1>2, <1>3, <1>4

\* JUnit counts a failure just when the totals have a finding.
LEMMA JUnitTells ==
  ASSUME IInv, Written
  PROVE  /\ JUnitTotals(clusters, opts).failures \in Nat
         /\ (\E v \in Severities : FleetSummary(clusters).counts[Live[v]] > 0)
              <=> JUnitTotals(clusters, opts).failures > 0
<1> DEFINE n == Len(clusters)
           u == [k \in DOMAIN clusters |-> JUnitSuite(clusters[k], opts).failures]
           L(k, v) == Classify(clusters[k].rows)[Live[v]]
<1>1. n \in Nat \ {0} /\ DOMAIN clusters = 1 .. n /\ \A k \in 1 .. n : Scanned(clusters[k])
  BY WrittenFacts
<1>2. \A k \in 1 .. n : \A v \in Severities :
        L(k, v) \in Nat /\ (L(k, v) > 0 <=> v \in FailingSeverities(clusters[k].rows))
  BY <1>1, LiveCounts
<1>3. \A k \in 1 .. n : \A v : clusters[k].failed => v \notin FailingSeverities(clusters[k].rows)
  <2> SUFFICES ASSUME NEW k \in 1 .. n, NEW v, clusters[k].failed
               PROVE  v \notin FailingSeverities(clusters[k].rows)
    OBVIOUS
  <2>1. DOMAIN clusters[k].rows = {}
    BY <1>1 DEF Scanned
  <2> QED
    BY <1>1, <2>1, FailingMeans
<1>4. \A k \in 1 .. n : u[k] = IF clusters[k].failed THEN 0 ELSE LiveOf(Classify(clusters[k].rows))
  BY <1>1 DEF JUnitSuite
<1>5. DOMAIN u = 1 .. n /\ u = [k \in 1 .. n |-> u[k]]
  BY <1>1
<1>6. JUnitTotals(clusters, opts).failures = Sum(u)
  BY DEF JUnitTotals
<1>7. \A k \in 1 .. n : LiveOf(Classify(clusters[k].rows)) = L(k, 1) + L(k, 2) + L(k, 3) + L(k, 4)
  BY DEF LiveOf, Live
<1> HIDE DEF u, n, L
<1>8. ASSUME NEW k \in 1 .. n
      PROVE  /\ u[k] \in Nat
             /\ u[k] > 0 <=> \E v \in Severities : v \in FailingSeverities(clusters[k].rows)
  <2>1. Severities = {1, 2, 3, 4}
    BY DEF Severities
  <2>2. L(k, 1) \in Nat /\ L(k, 2) \in Nat /\ L(k, 3) \in Nat /\ L(k, 4) \in Nat
    BY <1>2, <2>1
  <2> DEFINE sum == L(k, 1) + L(k, 2) + L(k, 3) + L(k, 4)
  <2>3. sum \in Nat /\ (sum > 0 <=> L(k, 1) > 0 \/ L(k, 2) > 0 \/ L(k, 3) > 0 \/ L(k, 4) > 0)
    BY <2>2
  <2>4. sum > 0 <=> \E v \in Severities : v \in FailingSeverities(clusters[k].rows)
    BY <1>2, <2>1, <2>3
  <2> HIDE DEF sum
  <2>5. u[k] = IF clusters[k].failed THEN 0 ELSE sum
    BY <1>4, <1>7 DEF sum
  <2>6. clusters[k].failed \in BOOLEAN
    BY <1>1 DEF Scanned
  <2> QED
    BY <1>3, <2>3, <2>4, <2>5, <2>6
<1>9. u \in [1 .. n -> Nat]
  BY <1>5, <1>8
<1>10. Sum(u) \in Nat /\ (Sum(u) > 0 <=> \E k \in 1 .. n : u[k] > 0)
  BY <1>1, <1>9, SumPositive
<1>11. \A v \in Severities : FleetSummary(clusters).counts[Live[v]] > 0
         <=> \E k \in DOMAIN clusters : v \in FailingSeverities(clusters[k].rows)
  BY FleetLive
<1> QED
  BY <1>1, <1>6, <1>8, <1>10, <1>11

\* What --quiet leaves of the rows: each a row, and every failed or errored one.
ShowsOf(c, o, shown) ==
  /\ Len(shown) \in Nat /\ DOMAIN shown = 1 .. Len(shown)
  /\ \A k \in DOMAIN shown : \E n \in DOMAIN c.rows :
       shown[k] = c.rows[n] /\ (o.quiet => c.rows[n].status \notin {"pass", "skipped"})
  /\ \A n \in DOMAIN c.rows : (o.quiet => c.rows[n].status \notin {"pass", "skipped"}) =>
       \E k \in DOMAIN shown : shown[k] = c.rows[n]

LEMMA ShownFacts ==
  ASSUME NEW c, Scanned(c), NEW o
  PROVE  ShowsOf(c, o, Shown(c.rows, o))
<1> DEFINE rows == c.rows
           shown == Shown(rows, o)
           K == {k \in DOMAIN rows : o.quiet => rows[k].status \notin {"pass", "skipped"}}
<1>1. Len(rows) \in Nat /\ DOMAIN rows = 1 .. Len(rows) /\ K \in SUBSET (DOMAIN rows)
  BY DEF Scanned
<1>2. shown = Kept(rows, K)
  BY DEF Shown
<1>3. \A n : n \in K <=> n \in DOMAIN rows /\ (o.quiet => rows[n].status \notin {"pass", "skipped"})
  OBVIOUS
<1> HIDE DEF K, rows, shown
<1>4. /\ Len(shown) \in Nat /\ DOMAIN shown = 1 .. Len(shown)
      /\ \A i \in DOMAIN shown : \E k \in K : shown[i] = rows[k]
      /\ \A k \in K : \E i \in DOMAIN shown : shown[i] = rows[k]
  BY <1>1, <1>2, KeptFacts
<1> QED
  BY <1>3, <1>4 DEF ShowsOf, rows, shown

LEMMA ShownOne ==
  ASSUME NEW c, Scanned(c), NEW o, NEW k \in DOMAIN Shown(c.rows, o)
  PROVE  \E n \in DOMAIN c.rows :
           Shown(c.rows, o)[k] = c.rows[n] /\ (o.quiet => c.rows[n].status \notin {"pass", "skipped"})
<1> DEFINE shown == Shown(c.rows, o)
<1>1. ShowsOf(c, o, shown)
  BY ShownFacts
<1> HIDE DEF shown
<1>2. k \in DOMAIN shown
  BY DEF shown
<1> QED
  BY <1>1, <1>2 DEF ShowsOf, shown

LEMMA ShownAll ==
  ASSUME NEW c, Scanned(c), NEW o, NEW n \in DOMAIN c.rows,
         o.quiet => c.rows[n].status \notin {"pass", "skipped"}
  PROVE  \E k \in DOMAIN Shown(c.rows, o) : Shown(c.rows, o)[k] = c.rows[n]
<1> DEFINE shown == Shown(c.rows, o)
<1>1. ShowsOf(c, o, shown)
  BY ShownFacts
<1> HIDE DEF shown
<1> QED
  BY <1>1 DEF ShowsOf, shown

\* Without --summary-only SARIF has a result for each of them.
LEMMA SarifShows ==
  ASSUME NEW c, Scanned(c), NEW o, ~o.summaryOnly
  PROVE  LET results == SarifRun(c, o).results
             shown == Shown(c.rows, o)
         IN  DOMAIN results = DOMAIN shown /\ \A k \in DOMAIN shown : results[k] = SarifResultOf(c, shown, k)
<1> DEFINE shown == Shown(c.rows, o)
           some == IF o.summaryOnly \/ c.failed THEN <<>> ELSE shown
<1>1. SarifRun(c, o).results = [k \in DOMAIN some |-> SarifResultOf(c, some, k)]
  BY DEF SarifRun
<1>2. CASE c.failed
  <2>1. DOMAIN c.rows = {}
    BY <1>2 DEF Scanned
  <2>2. \A k \in DOMAIN shown : \E n \in DOMAIN c.rows : shown[k] = c.rows[n]
    BY ShownOne
  <2> HIDE DEF shown
  <2>3. DOMAIN shown = {}
    BY <2>1, <2>2
  <2>4. some = <<>>
    BY <1>2
  <2> HIDE DEF some
  <2>5. DOMAIN some = {}
    BY <2>4
  <2> QED
    BY <1>1, <2>3, <2>5 DEF shown
<1>3. CASE ~c.failed
  <2> HIDE DEF shown
  <2>1. some = shown
    BY <1>3
  <2> HIDE DEF some
  <2> QED
    BY <1>1, <2>1 DEF shown
<1>4. c.failed \in BOOLEAN
  BY DEF Scanned
<1> QED
  BY <1>2, <1>3, <1>4

\* A SARIF result that fails without suppression is a finding of its level.
LEMMA SarifTells ==
  ASSUME NEW c, Scanned(c), NEW o, ~o.summaryOnly
  PROVE  LET results == SarifRun(c, o).results
         IN  /\ \A res \in ToSet(results) : res.kind = "fail" /\ res.suppression = "none" =>
                  \E v \in FailingSeverities(c.rows) : res.level = SarifLevel(v)
             /\ \A v \in FailingSeverities(c.rows) : \E res \in ToSet(results) :
                  res.kind = "fail" /\ res.suppression = "none" /\ res.level = SarifLevel(v)
<1> DEFINE results == SarifRun(c, o).results
           shown == Shown(c.rows, o)
<1>1. DOMAIN results = DOMAIN shown /\ \A k \in DOMAIN shown : results[k] = SarifResultOf(c, shown, k)
  BY SarifShows
<1>2. ASSUME NEW k \in DOMAIN shown, NEW n \in DOMAIN c.rows, shown[k] = c.rows[n]
      PROVE  /\ results[k].kind = "fail" /\ results[k].suppression = "none" <=> InFindings(c.rows[n])
             /\ InFindings(c.rows[n]) => results[k].level = SarifLevel(c.rows[n].severity)
  <2> DEFINE r == c.rows[n]
  <2>1. r.status \in {"pass", "skipped", "error", "fail"} /\ r.base \in BOOLEAN
    BY RowFacts
  <2>0. results[k] = SarifResultOf(c, shown, k) /\ shown[k] = r
    BY <1>1, <1>2
  <2> HIDE DEF r, shown, results
  <2>2. /\ results[k].kind = SarifKind(r.status)
        /\ results[k].level = (IF r.status = "fail" THEN SarifLevel(r.severity) ELSE 0)
        /\ results[k].suppression = (IF r.status # "fail" THEN "none"
                                    ELSE IF IsActiveWaiver(r) THEN "accepted"
                                    ELSE IF IsBaselined(r) THEN "underReview" ELSE "none")
    BY <2>0 DEF SarifResultOf
  <2>3. results[k].kind = "fail" <=> r.status = "fail"
    BY <2>1, <2>2 DEF SarifKind
  <2>4. r.status = "fail" =>
          (results[k].suppression = "none" <=> ~IsActiveWaiver(r) /\ ~IsBaselined(r))
    BY <2>2
  <2>5. InFindings(r) <=> r.status = "fail" /\ ~IsActiveWaiver(r) /\ ~IsBaselined(r)
    BY DEF InFindings, Status
  <2> QED
    BY <2>2, <2>3, <2>4, <2>5 DEF r
<1>3. \A v : v \in FailingSeverities(c.rows)
         <=> \E n \in DOMAIN c.rows : InFindings(c.rows[n]) /\ c.rows[n].severity = v
  BY FailingMeans
<1> HIDE DEF results
<1>4. ASSUME NEW k \in DOMAIN results, results[k].kind = "fail", results[k].suppression = "none"
      PROVE  \E v \in FailingSeverities(c.rows) : results[k].level = SarifLevel(v)
  <2>1. PICK n \in DOMAIN c.rows : shown[k] = c.rows[n]
    BY <1>1, ShownOne
  <2>2. InFindings(c.rows[n]) /\ results[k].level = SarifLevel(c.rows[n].severity)
    BY <1>1, <1>2, <1>4, <2>1
  <2> QED
    BY <1>3, <2>2
<1>5. ASSUME NEW v \in FailingSeverities(c.rows)
      PROVE  \E k \in DOMAIN results :
               results[k].kind = "fail" /\ results[k].suppression = "none" /\ results[k].level = SarifLevel(v)
  <2>1. PICK n \in DOMAIN c.rows : InFindings(c.rows[n]) /\ c.rows[n].severity = v
    BY <1>3
  <2>2. c.rows[n].status \notin {"pass", "skipped"}
    BY <2>1 DEF InFindings, Status
  <2>3. PICK k \in DOMAIN shown : shown[k] = c.rows[n]
    BY <2>2, ShownAll
  <2> QED
    BY <1>1, <1>2, <2>1, <2>3
<1> QED
  BY <1>4, <1>5 DEF ToSet, results

\* With --summary-only it has none.
LEMMA SarifIsEmpty ==
  ASSUME NEW c, NEW o, o.summaryOnly
  PROVE  ToSet(SarifRun(c, o).results) = {}
<1> DEFINE some == IF o.summaryOnly \/ c.failed THEN <<>> ELSE Shown(c.rows, o)
<1>1. SarifRun(c, o).results = [k \in DOMAIN some |-> SarifResultOf(c, some, k)]
  BY DEF SarifRun
<1>2. some = <<>>
  OBVIOUS
<1> HIDE DEF some
<1>3. DOMAIN some = {}
  BY <1>2
<1> QED
  BY <1>1, <1>3 DEF ToSet

\* Whoever reads the JSON totals, the SARIF results or JUnit's count of failures decides as
\* the exit code does, for every fleet, catalog and threshold (MaxFailingSeverityFleet,
\* classify, sarifResultOf, buildJUnit); SARIF without --summary-only, which empties it.
THEOREM FormatsAgree == Spec => []FormatsAgreeWithGate
<1>1. IInv => FormatsAgreeWithGate
  <2> SUFFICES ASSUME IInv, Written
               PROVE  LET fleet == FleetSummary(clusters)
                          tripped == \E c \in ToSet(clusters) : \E v \in FailingSeverities(c.rows) : v >= FailOn
                          sarif == SarifRuns(clusters, opts)
                      IN  /\ tripped = (\E v \in FailOn .. 4 : fleet.counts[Live[v]] > 0)
                          /\ tripped /\ ~opts.summaryOnly => \E u \in ToSet(sarif) : \E res \in ToSet(u.results) :
                               res.kind = "fail" /\ res.suppression = "none" /\ res.level >= SarifLevel(FailOn)
                          /\ ~tripped => \A u \in ToSet(sarif) : \A res \in ToSet(u.results) :
                               res.kind = "fail" /\ res.suppression = "none" =>
                                 res.level < FailOn \/ (FailOn = 4 /\ res.level = 3)
                          /\ (\E v \in Severities : fleet.counts[Live[v]] > 0)
                               <=> JUnitTotals(clusters, opts).failures > 0
    BY DEF FormatsAgreeWithGate
  <2> DEFINE o == opts
             sarif == SarifRuns(clusters, o)
             tripped == \E c \in ToSet(clusters) : \E v \in FailingSeverities(c.rows) : v >= FailOn
  <2>1. \A k \in DOMAIN clusters : o.summaryOnly => ToSet(SarifRun(clusters[k], o).results) = {}
    BY SarifIsEmpty
  <2> HIDE DEF o
  <2>2. \A k \in DOMAIN clusters : Scanned(clusters[k])
    BY WrittenFacts
  <2>3. \A k \in DOMAIN clusters : \A v \in FailingSeverities(clusters[k].rows) : v \in Severities
    BY <2>2, FailingMeans
  <2>4. DOMAIN sarif = DOMAIN clusters /\ \A k \in DOMAIN clusters : sarif[k] = SarifRun(clusters[k], o)
    BY DEF SarifRuns
  <2>5. tripped <=> \E k \in DOMAIN clusters : \E v \in FailingSeverities(clusters[k].rows) : v >= FailOn
    BY DEF ToSet
  <2>6. \A v \in Severities : /\ v >= FailOn => SarifLevel(v) >= SarifLevel(FailOn)
                              /\ ~(v >= FailOn) => SarifLevel(v) < FailOn
    BY FailOnAssumption DEF Severities, SarifLevel
  <2> HIDE DEF sarif
  <2>7. ASSUME tripped, ~o.summaryOnly
        PROVE  \E u \in ToSet(sarif) : \E res \in ToSet(u.results) :
                 res.kind = "fail" /\ res.suppression = "none" /\ res.level >= SarifLevel(FailOn)
    <3>0. PICK k \in DOMAIN clusters : \E v \in FailingSeverities(clusters[k].rows) : v >= FailOn
      BY <2>5, <2>7
    <3>1. PICK v \in FailingSeverities(clusters[k].rows) : v >= FailOn
      BY <3>0
    <3>2. \E res \in ToSet(SarifRun(clusters[k], o).results) :
            res.kind = "fail" /\ res.suppression = "none" /\ res.level = SarifLevel(v)
      BY <2>2, <2>7, SarifTells
    <3>3. SarifLevel(v) >= SarifLevel(FailOn)
      BY <2>3, <2>6, <3>1
    <3>4. sarif[k] \in ToSet(sarif) /\ sarif[k] = SarifRun(clusters[k], o)
      BY <2>4 DEF ToSet
    <3> QED
      BY <3>2, <3>3, <3>4
  <2>8. ASSUME ~tripped, NEW u \in ToSet(sarif), NEW res \in ToSet(u.results),
               res.kind = "fail", res.suppression = "none"
        PROVE  res.level < FailOn
    <3>1. PICK k \in DOMAIN clusters : u = SarifRun(clusters[k], o)
      BY <2>4 DEF ToSet
    <3>2. PICK v \in FailingSeverities(clusters[k].rows) : res.level = SarifLevel(v)
      <4>1. ~o.summaryOnly
        BY <2>1, <2>8, <3>1
      <4> QED
        BY <2>2, <2>8, <3>1, <4>1, SarifTells
    <3>3. v \in Severities /\ ~(v >= FailOn)
      BY <2>3, <2>5, <2>8, <3>1
    <3> QED
      BY <2>6, <3>2, <3>3
  <2>9. tripped = (\E v \in FailOn .. 4 : FleetSummary(clusters).counts[Live[v]] > 0)
    BY TotalsTell
  <2>10. (\E v \in Severities : FleetSummary(clusters).counts[Live[v]] > 0)
           <=> JUnitTotals(clusters, opts).failures > 0
    BY JUnitTells
  <2> HIDE DEF tripped
  <2> QED
    BY <2>7, <2>8, <2>9, <2>10 DEF tripped, sarif, o
<1> QED
  BY <1>1, Invariance, PTL
----------------------------------------------------------------------------
(* One row in every format.                                                *)

\* A row stands in a section of the table just when its place is one to keep.
LEMMA SectionHas ==
  ASSUME NEW c, Scanned(c), NEW K \in SUBSET (DOMAIN c.rows), NEW n \in DOMAIN c.rows
  PROVE  (\E x \in ToSet(Kept(c.rows, K)) : x.rule = c.rows[n].rule) <=> n \in K
<1> DEFINE rows == c.rows
           kept == Kept(rows, K)
<1>1. Len(rows) \in Nat /\ DOMAIN rows = 1 .. Len(rows) /\ K \in SUBSET (DOMAIN rows)
  BY DEF Scanned
<1>2. \A m, k \in DOMAIN rows : rows[m].rule = rows[k].rule => m = k
  BY OneRowPerRule
<1> HIDE DEF rows
<1>3. /\ \A i \in DOMAIN kept : \E k \in K : kept[i] = rows[k]
      /\ \A k \in K : \E i \in DOMAIN kept : kept[i] = rows[k]
  BY <1>1, KeptFacts
<1> HIDE DEF kept
<1>4. n \in DOMAIN rows
  BY DEF rows
<1>5. (\E i \in DOMAIN kept : kept[i].rule = rows[n].rule) <=> n \in K
  BY <1>1, <1>2, <1>3, <1>4
<1> QED
  BY <1>5 DEF kept, rows, ToSet

\* Where the table shows a row.
In(section, r) == \E x \in ToSet(section) : x.rule = r.rule

LEMMA TableShows ==
  ASSUME NEW c, Scanned(c), NEW o, ~o.summaryOnly, NEW n \in DOMAIN c.rows
  PROVE  LET t == Table(c.rows, o)
             r == c.rows[n]
         IN  /\ In(t.findings, r) <=> InFindings(r)
             /\ In(t.waived, r) <=> InWaived(r)
             /\ In(t.baselined, r) <=> InBaselined(r)
             /\ In(t.errors, r) <=> InErrors(r)
<1> DEFINE rows == c.rows
           D == DOMAIN rows
           found == {k \in D : InFindings(rows[k])}
           waived == {k \in D : InWaived(rows[k])}
           baselined == {k \in D : InBaselined(rows[k])}
           errors == {k \in D : InErrors(rows[k])}
           t == Table(rows, o)
<1>1. /\ t.findings = Kept(rows, found) /\ t.waived = Kept(rows, waived)
      /\ t.baselined = Kept(rows, baselined) /\ t.errors = Kept(rows, errors)
  BY DEF Table
<1>2. found \in SUBSET D /\ waived \in SUBSET D /\ baselined \in SUBSET D /\ errors \in SUBSET D
  OBVIOUS
<1>3. /\ n \in found <=> InFindings(rows[n])
      /\ n \in waived <=> InWaived(rows[n])
      /\ n \in baselined <=> InBaselined(rows[n])
      /\ n \in errors <=> InErrors(rows[n])
  OBVIOUS
<1> HIDE DEF found, waived, baselined, errors, t
<1>4. In(Kept(rows, found), rows[n]) <=> n \in found
  BY <1>2, SectionHas DEF In
<1>5. In(Kept(rows, waived), rows[n]) <=> n \in waived
  BY <1>2, SectionHas DEF In
<1>6. In(Kept(rows, baselined), rows[n]) <=> n \in baselined
  BY <1>2, SectionHas DEF In
<1>7. In(Kept(rows, errors), rows[n]) <=> n \in errors
  BY <1>2, SectionHas DEF In
<1> QED
  BY <1>1, <1>3, <1>4, <1>5, <1>6, <1>7 DEF t

\* What the other formats make of the row they show at k.
LEMMA FormatsShow ==
  ASSUME NEW c, Scanned(c), ~c.failed, NEW o, ~o.summaryOnly, NEW k \in DOMAIN Shown(c.rows, o)
  PROVE  LET r == Shown(c.rows, o)[k]
         IN  /\ SarifRun(c, o).results[k] = SarifResultOf(c, Shown(c.rows, o), k)
             /\ SarifRun(c, o).rules = SarifRules(c.rows)
             /\ BuildDocument(c, o).results[k] = ToResult(r, DialectOf[c.target])
             /\ JUnitSuite(c, o).cases[k] = JUnitCase(r)
<1> DEFINE shown == Shown(c.rows, o)
           some == IF o.summaryOnly THEN <<>> ELSE shown
<1>1. SarifRun(c, o).results[k] = SarifResultOf(c, shown, k)
  BY SarifShows
<1>2. SarifRun(c, o).rules = SarifRules(c.rows)
  BY DEF SarifRun
<1>3. k \in DOMAIN shown
  OBVIOUS
<1>4. BuildDocument(c, o).results = [m \in DOMAIN some |-> ToResult(some[m], DialectOf[c.target])]
  BY DEF BuildDocument
<1>5. JUnitSuite(c, o).cases = [m \in DOMAIN some |-> JUnitCase(some[m])]
  BY DEF JUnitSuite
<1> HIDE DEF shown
<1>6. some = shown
  OBVIOUS
<1> HIDE DEF some
<1>7. BuildDocument(c, o).results[k] = ToResult(shown[k], DialectOf[c.target])
  BY <1>3, <1>4, <1>6
<1>8. JUnitSuite(c, o).cases[k] = JUnitCase(shown[k])
  BY <1>3, <1>5, <1>6
<1> QED
  BY <1>1, <1>2, <1>7, <1>8 DEF shown

\* A result's index is that of a descriptor of its rule.
LEMMA IndexPoints ==
  ASSUME NEW c, Scanned(c), NEW o, NEW k \in DOMAIN Shown(c.rows, o)
  PROVE  SarifRules(c.rows)[SarifResultOf(c, Shown(c.rows, o), k).index] = Shown(c.rows, o)[k].rule
<1> DEFINE shown == Shown(c.rows, o)
           rules == SarifRules(c.rows)
<1>1. PICK n \in DOMAIN c.rows : shown[k] = c.rows[n]
  BY ShownOne
<1>2. n \in DOMAIN rules /\ rules[n] = c.rows[n].rule
  BY DEF SarifRules
<1> HIDE DEF shown, rules
<1>3. SarifResultOf(c, shown, k).index = CHOOSE m \in DOMAIN rules : rules[m] = shown[k].rule
  BY DEF SarifResultOf, rules
<1>4. \E m \in DOMAIN rules : rules[m] = shown[k].rule
  BY <1>1, <1>2
<1>5. rules[SarifResultOf(c, shown, k).index] = shown[k].rule
  BY <1>3, <1>4
<1> QED
  BY <1>5 DEF shown, rules

\* A row shown is waived in all formats or in none, baselined or an error in the table and
\* SARIF or in neither, and "fail" in HTML and a <failure> in JUnit just if the table has
\* it as a finding or as baselined, however many rules there are (Table, sarifResultOf,
\* displayStatus, junitTestCases).
THEOREM VerdictsAgree == Spec => []OneVerdictPerRow
<1>1. IInv => OneVerdictPerRow
  <2> SUFFICES ASSUME IInv, Written, ~opts.summaryOnly,
                      NEW c \in Reached, NEW k \in DOMAIN Shown(c.rows, opts)
               PROVE  LET r == Shown(c.rows, opts)[k]
                          t == Table(c.rows, opts)
                          s == SarifRun(c, opts).results[k]
                          h == DisplayStatus(BuildDocument(c, opts).results[k])
                          j == JUnitSuite(c, opts).cases[k]
                      IN  /\ s.rule = r.rule /\ BuildDocument(c, opts).results[k].rule = r.rule
                          /\ SarifRun(c, opts).rules[s.index] = r.rule
                          /\ In(t.waived, r) <=> s.suppression = "accepted"
                          /\ In(t.waived, r) <=> h = "waived"
                          /\ In(t.waived, r) <=> j = "skipped" /\ r.status = "fail"
                          /\ In(t.baselined, r) <=> s.suppression = "underReview"
                          /\ In(t.findings, r) <=> s.kind = "fail" /\ s.suppression = "none"
                          /\ In(t.findings, r) \/ In(t.baselined, r) <=> h = "fail"
                          /\ In(t.findings, r) \/ In(t.baselined, r) <=> j = "failure"
                          /\ In(t.errors, r) <=> s.kind = "review"
                          /\ In(t.findings, r) /\ r.sup = "expired" => h = "fail" /\ j = "failure"
    BY DEF OneVerdictPerRow, In
  <2> DEFINE r == Shown(c.rows, opts)[k]
             t == Table(c.rows, opts)
             s == SarifRun(c, opts).results[k]
             res == BuildDocument(c, opts).results[k]
             h == DisplayStatus(res)
             j == JUnitSuite(c, opts).cases[k]
  <2>1. Scanned(c) /\ ~c.failed
    BY WrittenFacts DEF Reached, ToSet
  <2>2. PICK n \in DOMAIN c.rows : r = c.rows[n]
    BY <2>1, ShownOne
  <2>3. /\ In(t.findings, r) <=> InFindings(r)
        /\ In(t.waived, r) <=> InWaived(r)
        /\ In(t.baselined, r) <=> InBaselined(r)
        /\ In(t.errors, r) <=> InErrors(r)
    BY <2>1, <2>2, TableShows
  <2>4. /\ r.status \in {"pass", "skipped", "error", "fail"} /\ r.base \in BOOLEAN
        /\ r.sup \in {"none", "active", "expired"} /\ (r.status # "fail" => r.sup = "none")
    BY <2>1, <2>2, RowFacts
  <2>5. s = SarifResultOf(c, Shown(c.rows, opts), k)
    BY <2>1, FormatsShow
  <2>6. /\ s.rule = r.rule /\ s.kind = SarifKind(r.status)
        /\ s.suppression = (IF r.status # "fail" THEN "none"
                            ELSE IF IsActiveWaiver(r) THEN "accepted"
                            ELSE IF IsBaselined(r) THEN "underReview" ELSE "none")
    BY <2>5 DEF SarifResultOf
  <2>7. SarifRun(c, opts).rules[s.index] = r.rule
    BY <2>1, <2>5, FormatsShow, IndexPoints
  <2>8. res = ToResult(r, DialectOf[c.target]) /\ j = JUnitCase(r)
    BY <2>1, FormatsShow
  <2> HIDE DEF r, t, s, res, j
  <2>9. res.rule = r.rule /\ res.status = r.status /\ res.suppression = r.sup
    BY <2>8 DEF ToResult
  <2>10. h = (IF r.status = "fail" /\ r.sup = "active" THEN "waived" ELSE r.status)
    BY <2>9 DEF DisplayStatus
  <2> HIDE DEF h
  <2> USE DEF InFindings, InWaived, InBaselined, InErrors, Status, IsActiveWaiver, IsBaselined
  <2>11. /\ In(t.waived, r) <=> s.suppression = "accepted"
         /\ In(t.waived, r) <=> h = "waived"
         /\ In(t.baselined, r) <=> s.suppression = "underReview"
    BY <2>3, <2>4, <2>6, <2>10
  <2>12. In(t.waived, r) <=> j = "skipped" /\ r.status = "fail"
    BY <2>3, <2>4, <2>8 DEF JUnitCase
  <2>13. /\ In(t.findings, r) <=> s.kind = "fail" /\ s.suppression = "none"
         /\ In(t.errors, r) <=> s.kind = "review"
    BY <2>3, <2>4, <2>6 DEF SarifKind
  <2>14. In(t.findings, r) /\ r.sup = "expired" => h = "fail" /\ j = "failure"
    BY <2>3, <2>4, <2>8, <2>10 DEF JUnitCase
  <2>15. InFindings(r) \/ InBaselined(r) <=> r.status = "fail" /\ r.sup # "active"
    BY <2>4
  <2>16. In(t.findings, r) \/ In(t.baselined, r) <=> h = "fail"
    BY <2>3, <2>4, <2>10, <2>15
  <2>17. In(t.findings, r) \/ In(t.baselined, r) <=> j = "failure"
    BY <2>3, <2>4, <2>8, <2>15 DEF JUnitCase
  <2> QED
    BY <2>6, <2>7, <2>9, <2>11, <2>12, <2>13, <2>14, <2>16, <2>17 DEF r, t, s, res, h, j
<1> QED
  BY <1>1, Invariance, PTL
----------------------------------------------------------------------------
(* A report read back.                                                     *)

\* The fingerprints of a cluster's failing rows.
Fingerprints(c) ==
  {<<r.rule, DialectOf[c.target]>> : r \in {x \in ToSet(c.rows) : x.status = "fail"}}

LEMMA FingerprintFacts ==
  ASSUME NEW c, NEW f
  PROVE  f \in Fingerprints(c) <=> \E n \in DOMAIN c.rows :
           c.rows[n].status = "fail" /\ f = <<c.rows[n].rule, DialectOf[c.target]>>
<1> DEFINE fails == {x \in ToSet(c.rows) : x.status = "fail"}
<1>1. \A x : x \in fails <=> \E n \in DOMAIN c.rows : x = c.rows[n] /\ x.status = "fail"
  BY DEF ToSet
<1>2. Fingerprints(c) = {<<r.rule, DialectOf[c.target]>> : r \in fails}
  BY DEF Fingerprints
<1> HIDE DEF fails
<1>3. f \in Fingerprints(c) <=> \E r \in fails : f = <<r.rule, DialectOf[c.target]>>
  BY <1>2
<1> QED
  BY <1>1, <1>3

\* What the readers take of a result.
Entry(res, d) == IF res.fingerprint # {} THEN res.fingerprint ELSE {<<res.rule, d>>}

\* The results of a SARIF run that fail are the failing rows, quiet or not.
LEMMA SarifEntries ==
  ASSUME NEW c, Scanned(c), NEW o, ~o.summaryOnly
  PROVE  LET u == SarifRun(c, o)
         IN  UNION {Entry(res, u.dialect) : res \in {x \in ToSet(u.results) : x.kind = "fail"}}
               = Fingerprints(c)
<1> DEFINE u == SarifRun(c, o)
           results == u.results
           shown == Shown(c.rows, o)
           fails == {x \in ToSet(results) : x.kind = "fail"}
<1>1. DOMAIN results = DOMAIN shown /\ \A k \in DOMAIN shown : results[k] = SarifResultOf(c, shown, k)
  BY SarifShows
<1>2. \A x : x \in fails <=> \E k \in DOMAIN results : x = results[k] /\ x.kind = "fail"
  BY DEF ToSet
<1>3. ASSUME NEW k \in DOMAIN shown, NEW n \in DOMAIN c.rows, shown[k] = c.rows[n]
      PROVE  /\ results[k].kind = "fail" <=> c.rows[n].status = "fail"
             /\ c.rows[n].status = "fail" =>
                  Entry(results[k], u.dialect) = {<<c.rows[n].rule, DialectOf[c.target]>>}
  <2> DEFINE r == c.rows[n]
             f == <<r.rule, DialectOf[c.target]>>
             d == u.dialect
  <2>1. r.status \in {"pass", "skipped", "error", "fail"}
    BY RowFacts
  <2>2. results[k] = SarifResultOf(c, shown, k) /\ shown[k] = r
    BY <1>1, <1>3
  <2> HIDE DEF r, shown, results, u, d
  <2>3. /\ results[k].kind = SarifKind(r.status)
        /\ results[k].fingerprint = (IF r.status = "fail" THEN {f} ELSE {})
    BY <2>2 DEF SarifResultOf
  <2>4. results[k].kind = "fail" <=> r.status = "fail"
    BY <2>1, <2>3 DEF SarifKind
  <2>5. r.status = "fail" => Entry(results[k], d) = {f}
    BY <2>3 DEF Entry
  <2> QED
    BY <2>4, <2>5 DEF r, d
<1> HIDE DEF fails, results, shown
<1>4. ASSUME NEW f, NEW x \in fails, f \in Entry(x, u.dialect)
      PROVE  f \in Fingerprints(c)
  <2>1. PICK k \in DOMAIN results : x = results[k] /\ x.kind = "fail"
    BY <1>2, <1>4
  <2>2. PICK n \in DOMAIN c.rows : shown[k] = c.rows[n]
    BY <1>1, <2>1, ShownOne DEF shown
  <2>3. c.rows[n].status = "fail" /\ f = <<c.rows[n].rule, DialectOf[c.target]>>
    BY <1>1, <1>3, <1>4, <2>1, <2>2
  <2> QED
    BY <2>3, FingerprintFacts
<1>5. ASSUME NEW f \in Fingerprints(c)
      PROVE  \E x \in fails : f \in Entry(x, u.dialect)
  <2>1. PICK n \in DOMAIN c.rows : c.rows[n].status = "fail" /\ f = <<c.rows[n].rule, DialectOf[c.target]>>
    BY FingerprintFacts
  <2>2. PICK k \in DOMAIN shown : shown[k] = c.rows[n]
    BY <2>1, ShownAll DEF shown
  <2>3. results[k].kind = "fail" /\ f \in Entry(results[k], u.dialect)
    BY <1>3, <2>1, <2>2
  <2>4. results[k] \in fails
    BY <1>1, <1>2, <2>3
  <2> QED
    BY <2>3, <2>4
<1> HIDE DEF u
<1>6. UNION {Entry(res, u.dialect) : res \in fails} = Fingerprints(c)
  BY <1>4, <1>5
<1> QED
  BY <1>6 DEF fails, results, u

\* Those of a JSON document too.
LEMMA JsonEntries ==
  ASSUME NEW c, Scanned(c), NEW o, ~o.summaryOnly
  PROVE  LET d == BuildDocument(c, o)
         IN  UNION {Entry(res, d.dialect) : res \in {x \in ToSet(d.results) : x.status = "fail"}}
               = Fingerprints(c)
<1> DEFINE d == BuildDocument(c, o)
           results == d.results
           shown == Shown(c.rows, o)
           some == IF o.summaryOnly THEN <<>> ELSE shown
           fails == {x \in ToSet(results) : x.status = "fail"}
<1>1. DOMAIN results = DOMAIN shown /\ \A k \in DOMAIN shown : results[k] = ToResult(shown[k], DialectOf[c.target])
  <2>1. results = [m \in DOMAIN some |-> ToResult(some[m], DialectOf[c.target])]
    BY DEF BuildDocument
  <2> HIDE DEF shown
  <2>2. some = shown
    OBVIOUS
  <2> HIDE DEF some, results
  <2> QED
    BY <2>1, <2>2
<1>2. \A x : x \in fails <=> \E k \in DOMAIN results : x = results[k] /\ x.status = "fail"
  BY DEF ToSet
<1>3. ASSUME NEW k \in DOMAIN shown, NEW n \in DOMAIN c.rows, shown[k] = c.rows[n]
      PROVE  /\ results[k].status = c.rows[n].status
             /\ c.rows[n].status = "fail" =>
                  Entry(results[k], d.dialect) = {<<c.rows[n].rule, DialectOf[c.target]>>}
  <2> DEFINE r == c.rows[n]
             f == <<r.rule, DialectOf[c.target]>>
             dialect == d.dialect
  <2>1. results[k] = ToResult(r, DialectOf[c.target])
    BY <1>1, <1>3
  <2> HIDE DEF r, shown, results, d, dialect
  <2>2. /\ results[k].status = r.status
        /\ results[k].fingerprint = (IF r.status = "fail" THEN {f} ELSE {})
    BY <2>1 DEF ToResult
  <2>3. r.status = "fail" => Entry(results[k], dialect) = {f}
    BY <2>2 DEF Entry
  <2> QED
    BY <2>2, <2>3 DEF r, dialect
<1> HIDE DEF fails, results, shown
<1>4. ASSUME NEW f, NEW x \in fails, f \in Entry(x, d.dialect)
      PROVE  f \in Fingerprints(c)
  <2>1. PICK k \in DOMAIN results : x = results[k] /\ x.status = "fail"
    BY <1>2, <1>4
  <2>2. PICK n \in DOMAIN c.rows : shown[k] = c.rows[n]
    BY <1>1, <2>1, ShownOne DEF shown
  <2>3. c.rows[n].status = "fail" /\ f = <<c.rows[n].rule, DialectOf[c.target]>>
    BY <1>1, <1>3, <1>4, <2>1, <2>2
  <2> QED
    BY <2>3, FingerprintFacts
<1>5. ASSUME NEW f \in Fingerprints(c)
      PROVE  \E x \in fails : f \in Entry(x, d.dialect)
  <2>1. PICK n \in DOMAIN c.rows : c.rows[n].status = "fail" /\ f = <<c.rows[n].rule, DialectOf[c.target]>>
    BY FingerprintFacts
  <2>2. PICK k \in DOMAIN shown : shown[k] = c.rows[n]
    BY <2>1, ShownAll DEF shown
  <2>3. results[k].status = "fail" /\ f \in Entry(results[k], d.dialect)
    BY <1>3, <2>1, <2>2
  <2>4. results[k] \in fails
    BY <1>1, <1>2, <2>2, <2>3
  <2> QED
    BY <2>3, <2>4
<1> HIDE DEF d
<1>6. UNION {Entry(res, d.dialect) : res \in fails} = Fingerprints(c)
  BY <1>4, <1>5
<1> QED
  BY <1>6 DEF fails, results, d

\* What is read of a document, of an entry of the fleet, and of a run.
OfDocument(d) == UNION {Entry(res, d.dialect) : res \in {x \in ToSet(d.results) : x.status = "fail"}}
OfEntry(e) == UNION {OfDocument(d) : d \in ToSet(e.documents)}
OfRun(u) == UNION {Entry(res, u.dialect) : res \in {x \in ToSet(u.results) : x.kind = "fail"}}

Failing == UNION {Fingerprints(c) : c \in Reached}

LEMMA FailingFacts ==
  ASSUME NEW f
  PROVE  f \in Failing <=> \E k \in DOMAIN clusters : ~clusters[k].failed /\ f \in Fingerprints(clusters[k])
<1>1. \A c : c \in Reached <=> \E k \in DOMAIN clusters : c = clusters[k] /\ ~c.failed
  BY DEF Reached, ToSet
<1>2. f \in Failing <=> \E c \in Reached : f \in Fingerprints(c)
  BY DEF Failing
<1> QED
  BY <1>1, <1>2

LEMMA JsonRead ==
  ASSUME IInv, Written, ~opts.summaryOnly
  PROVE  FromJSON(JSONReport(clusters, opts)) = Failing
<1> DEFINE entries == JSONReport(clusters, opts).entries
<1>1. DOMAIN entries = DOMAIN clusters
      /\ \A k \in DOMAIN clusters : entries[k].documents =
           IF clusters[k].failed THEN <<>> ELSE <<BuildDocument(clusters[k], opts)>>
  BY DEF JSONReport
<1>2. FromJSON(JSONReport(clusters, opts)) = UNION {OfEntry(e) : e \in ToSet(entries)}
  BY DEF FromJSON, OfEntry, OfDocument, Entry
<1> HIDE DEF entries
<1>3. ASSUME NEW k \in DOMAIN clusters, NEW f
      PROVE  f \in OfEntry(entries[k]) <=> ~clusters[k].failed /\ f \in Fingerprints(clusters[k])
  <2> DEFINE d == BuildDocument(clusters[k], opts)
             ds == entries[k].documents
  <2>1. Scanned(clusters[k]) /\ clusters[k].failed \in BOOLEAN
    BY WrittenFacts DEF Scanned
  <2>2. OfDocument(d) = Fingerprints(clusters[k])
    BY <2>1, JsonEntries DEF OfDocument
  <2>3. ds = IF clusters[k].failed THEN <<>> ELSE <<d>>
    BY <1>1
  <2>4. f \in OfEntry(entries[k]) <=> \E x \in ToSet(ds) : f \in OfDocument(x)
    BY DEF OfEntry
  <2> HIDE DEF d, ds
  <2>5. CASE clusters[k].failed
    <3>1. ToSet(ds) = {}
      BY <2>3, <2>5 DEF ToSet
    <3> QED
      BY <2>4, <2>5, <3>1
  <2>6. CASE ~clusters[k].failed
    <3>1. ToSet(ds) = {d}
      BY <2>3, <2>6 DEF ToSet
    <3> QED
      BY <2>2, <2>4, <2>6, <3>1
  <2> QED
    BY <2>1, <2>5, <2>6
<1>4. \A f : f \in UNION {OfEntry(e) : e \in ToSet(entries)}
         <=> \E k \in DOMAIN clusters : f \in OfEntry(entries[k])
  BY <1>1 DEF ToSet
<1>5. \A f : f \in UNION {OfEntry(e) : e \in ToSet(entries)} <=> f \in Failing
  BY <1>3, <1>4, FailingFacts
<1> QED
  BY <1>2, <1>5

LEMMA SarifRead ==
  ASSUME IInv, Written, ~opts.summaryOnly
  PROVE  FromSARIF(SarifReport(clusters, opts)) = Failing
<1> DEFINE runs == SarifReport(clusters, opts).runs
<1>1. DOMAIN runs = DOMAIN clusters /\ \A k \in DOMAIN clusters : runs[k] = SarifRun(clusters[k], opts)
  BY DEF SarifReport, SarifRuns
<1>2. FromSARIF(SarifReport(clusters, opts)) = UNION {OfRun(u) : u \in ToSet(runs)}
  BY DEF FromSARIF, OfRun, Entry
<1> HIDE DEF runs
<1>3. ASSUME NEW k \in DOMAIN clusters
      PROVE  /\ OfRun(runs[k]) = Fingerprints(clusters[k])
             /\ clusters[k].failed => Fingerprints(clusters[k]) = {}
  <2>1. Scanned(clusters[k])
    BY WrittenFacts
  <2>2. OfRun(SarifRun(clusters[k], opts)) = Fingerprints(clusters[k])
    BY <2>1, SarifEntries DEF OfRun
  <2>3. ASSUME clusters[k].failed
        PROVE  Fingerprints(clusters[k]) = {}
    <3>1. DOMAIN clusters[k].rows = {}
      BY <2>1, <2>3 DEF Scanned
    <3>2. \A f : f \notin Fingerprints(clusters[k])
      BY <3>1, FingerprintFacts
    <3> QED
      BY <3>2
  <2> QED
    BY <1>1, <2>2, <2>3
<1>4. \A f : f \in UNION {OfRun(u) : u \in ToSet(runs)} <=> \E k \in DOMAIN clusters : f \in OfRun(runs[k])
  BY <1>1 DEF ToSet
<1>5. \A f : f \in UNION {OfRun(u) : u \in ToSet(runs)} <=> f \in Failing
  BY <1>3, <1>4, FailingFacts
<1> QED
  BY <1>2, <1>5

\* A report read back as a baseline has the fingerprints of the rows that failed, in
\* either format, under any name, for every fleet and catalog; another format is
\* refused (LoadFile, detectFormat, parseJSON, parseSARIF).
THEOREM BaselinesRoundTrip == Spec => []BaselineRoundTrip
<1>1. IInv => BaselineRoundTrip
  <2> SUFFICES ASSUME IInv, Written, ~opts.summaryOnly, NEW format \in Formats, NEW ext \in {".json", ".sarif", ".txt"}
               PROVE  LoadBaseline(Render(format, clusters, opts), ext) =
                        IF format \in {"json", "sarif"} THEN [refused |-> FALSE, entries |-> Failing]
                        ELSE [refused |-> TRUE, entries |-> {}]
    BY DEF BaselineRoundTrip, Failing, Fingerprints
  <2> DEFINE report == Render(format, clusters, opts)
  <2>1. CASE format = "json"
    <3>1. report = JSONReport(clusters, opts)
      BY <2>1 DEF Render
    <3>2. report.keys = {"schema_version", "tool"} \cup (IF multi THEN {"clusters"} ELSE {"cluster"})
      BY <3>1 DEF JSONReport
    <3> HIDE DEF report
    <3>3. DetectFormat(report, ext) = "json"
      BY <3>2 DEF DetectFormat
    <3>4. FromJSON(report) = Failing
      BY <3>1, JsonRead
    <3> QED
      BY <2>1, <3>3, <3>4 DEF LoadBaseline, report
  <2>2. CASE format = "sarif"
    <3>1. report = SarifReport(clusters, opts)
      BY <2>2 DEF Render
    <3>2. report.keys = {"$schema", "version", "runs"}
      BY <3>1 DEF SarifReport
    <3> HIDE DEF report
    <3>3. DetectFormat(report, ext) = "sarif"
      BY <3>2 DEF DetectFormat
    <3>4. FromSARIF(report) = Failing
      BY <3>1, SarifRead
    <3> QED
      BY <2>2, <3>3, <3>4 DEF LoadBaseline, report
  <2>3. CASE format \notin {"json", "sarif"}
    <3>1. report.keys = {}
      BY <2>3 DEF Render
    <3> HIDE DEF report
    <3>2. DetectFormat(report, ext) = "refused"
      BY <3>1 DEF DetectFormat
    <3> QED
      BY <2>3, <3>2 DEF LoadBaseline, report
  <2> QED
    BY <2>1, <2>2, <2>3
<1> QED
  BY <1>1, Invariance, PTL
----------------------------------------------------------------------------
(* explain-finding.                                                        *)

\* The rows of a cluster in the JSON of the scan.
RowsOf(c) == {ToResult(r, DialectOf[c.target]) : r \in ToSet(Shown(c.rows, opts))}
Has(c, i) == \E row \in RowsOf(c) : row.rule = i

\* One row of a rule, and what is explained of it.
LEMMA OneResult ==
  ASSUME NEW c, Scanned(c), NEW x \in RowsOf(c), NEW y \in RowsOf(c), x.rule = y.rule
  PROVE  x = y
<1>1. ASSUME NEW z \in RowsOf(c)
      PROVE  \E n \in DOMAIN c.rows : z = ToResult(c.rows[n], DialectOf[c.target]) /\ z.rule = c.rows[n].rule
  <2> DEFINE shown == Shown(c.rows, opts)
             all == ToSet(shown)
  <2>1. \A r \in all : \E k \in DOMAIN shown : r = shown[k]
    BY DEF ToSet
  <2>2. RowsOf(c) = {ToResult(r, DialectOf[c.target]) : r \in all}
    BY DEF RowsOf
  <2> HIDE DEF all
  <2>3. PICK k \in DOMAIN shown : z = ToResult(shown[k], DialectOf[c.target])
    BY <2>1, <2>2
  <2>4. PICK n \in DOMAIN c.rows : shown[k] = c.rows[n]
    BY <2>3, ShownOne
  <2> HIDE DEF shown
  <2>5. z.rule = c.rows[n].rule
    BY <2>3, <2>4 DEF ToResult
  <2> QED
    BY <2>3, <2>4, <2>5
<1>2. PICK m \in DOMAIN c.rows : x = ToResult(c.rows[m], DialectOf[c.target]) /\ x.rule = c.rows[m].rule
  BY <1>1
<1>3. PICK n \in DOMAIN c.rows : y = ToResult(c.rows[n], DialectOf[c.target]) /\ y.rule = c.rows[n].rule
  BY <1>1
<1>4. m = n
  BY <1>2, <1>3, OneRowPerRule
<1> QED
  BY <1>2, <1>3, <1>4

Entries == JSONReport(clusters, opts).entries
Explained(e, i) == {<<e.label, row>> : row \in FindResultRow(e.documents[1], i)}

LEMMA EntryFacts ==
  ASSUME IInv, Written, ~opts.summaryOnly, NEW k \in DOMAIN clusters, NEW i
  PROVE  LET e == Entries[k]
             c == clusters[k]
         IN  /\ e.label = c.target
             /\ e.documents # <<>> <=> ~c.failed
             /\ ~c.failed => FindResultRow(e.documents[1], i) = {row \in RowsOf(c) : row.rule = i}
<1> DEFINE e == Entries[k]
           c == clusters[k]
           d == BuildDocument(c, opts)
           shown == Shown(c.rows, opts)
           some == IF opts.summaryOnly THEN <<>> ELSE shown
<1>1. c.failed \in BOOLEAN
  BY WrittenFacts DEF Scanned
<1>2. e.label = c.target /\ e.documents = IF c.failed THEN <<>> ELSE <<d>>
  BY DEF Entries, JSONReport
<1>3. d.results = [m \in DOMAIN some |-> ToResult(some[m], DialectOf[c.target])]
  BY DEF BuildDocument
<1> HIDE DEF shown, d, e, c
<1>4. some = shown
  OBVIOUS
<1> HIDE DEF some
<1>5. ToSet(d.results) = RowsOf(c)
  <2>1. \A x : x \in ToSet(d.results) <=> \E m \in DOMAIN shown : x = ToResult(shown[m], DialectOf[c.target])
    BY <1>3, <1>4 DEF ToSet
  <2>2. \A x : x \in RowsOf(c) <=> \E m \in DOMAIN shown : x = ToResult(shown[m], DialectOf[c.target])
    BY DEF RowsOf, ToSet, shown
  <2> QED
    BY <2>1, <2>2
<1>6. FindResultRow(d, i) = {row \in RowsOf(c) : row.rule = i}
  BY <1>5 DEF FindResultRow
<1>7. e.documents # <<>> <=> ~c.failed
  BY <1>1, <1>2
<1>8. ~c.failed => e.documents[1] = d
  BY <1>2
<1> QED
  BY <1>2, <1>6, <1>7, <1>8 DEF e, c

\* The clusters that carry the rule.
LEMMA CarryingFacts ==
  ASSUME IInv, Written, ~opts.summaryOnly, NEW i, NEW T
  PROVE  LET found == Carrying(JSONReport(clusters, opts), i, T)
         IN  /\ IsFiniteSet(found)
             /\ \A e : e \in found <=> \E k \in DOMAIN clusters :
                  /\ e = Entries[k] /\ clusters[k].target \in T
                  /\ ~clusters[k].failed /\ Has(clusters[k], i)
<1> DEFINE found == Carrying(JSONReport(clusters, opts), i, T)
           n == Len(clusters)
           carries(e) == e.label \in T /\ e.documents # <<>> /\ FindResultRow(e.documents[1], i) # {}
<1>1. n \in Nat /\ DOMAIN clusters = 1 .. n
  BY WrittenFacts
<1>2. found = {e \in ToSet(Entries) : carries(e)}
  BY DEF Carrying, Entries
<1>3. DOMAIN Entries = DOMAIN clusters /\ Entries = [k \in DOMAIN Entries |-> Entries[k]]
  BY DEF Entries, JSONReport
<1>4. ToSet(Entries) = {Entries[k] : k \in 1 .. n}
  BY <1>1, <1>3 DEF ToSet
<1>5. ASSUME NEW k \in DOMAIN clusters
      PROVE  carries(Entries[k])
               <=> clusters[k].target \in T /\ ~clusters[k].failed /\ Has(clusters[k], i)
  <2>1. /\ Entries[k].label = clusters[k].target
        /\ Entries[k].documents # <<>> <=> ~clusters[k].failed
        /\ ~clusters[k].failed =>
             FindResultRow(Entries[k].documents[1], i) = {row \in RowsOf(clusters[k]) : row.rule = i}
    BY EntryFacts
  <2>2. Has(clusters[k], i) <=> {row \in RowsOf(clusters[k]) : row.rule = i} # {}
    BY DEF Has
  <2> QED
    BY <2>1, <2>2
<1> HIDE DEF found, n, carries
<1>6. IsFiniteSet(ToSet(Entries))
  <2>1. IsFiniteSet(1 .. n)
    <3>1. n \in Nat
      BY <1>1
    <3>2. \A m \in Nat : IsFiniteSet(1 .. m)
      BY FS_Interval
    <3> QED
      BY <3>1, <3>2
  <2> DEFINE S == 1 .. n
             T0 == ToSet(Entries)
             f == [k \in 1 .. n |-> Entries[k]]
  <2>2. f \in Surjection(S, T0)
    BY <1>4 DEF Surjection
  <2> HIDE DEF f, S, T0
  <2>3. IsFiniteSet(T0)
    BY <2>1, <2>2, FS_Surjection DEF S
  <2> QED
    BY <2>3 DEF T0
<1>7. found \in SUBSET ToSet(Entries)
  BY <1>2
<1>8. IsFiniteSet(found)
  BY <1>6, <1>7, FS_Subset
<1>9. \A e : e \in found <=> \E k \in DOMAIN clusters : e = Entries[k] /\ carries(e)
  BY <1>1, <1>2, <1>4
<1>10. \A e : e \in found <=> \E k \in DOMAIN clusters :
         /\ e = Entries[k] /\ clusters[k].target \in T
         /\ ~clusters[k].failed /\ Has(clusters[k], i)
  BY <1>5, <1>9
<1> QED
  BY <1>8, <1>10 DEF found

\* What explain-finding makes of one cluster's entry.
LEMMA ExplainedOne ==
  ASSUME IInv, Written, ~opts.summaryOnly, NEW i, NEW k \in DOMAIN clusters, ~clusters[k].failed
  PROVE  /\ \A x \in Explained(Entries[k], i) : x[1] = clusters[k].target /\ x[2] \in RowsOf(clusters[k])
         /\ Has(clusters[k], i) => \E x : Explained(Entries[k], i) = {x}
<1> DEFINE c == clusters[k]
           rows == FindResultRow(Entries[k].documents[1], i)
<1>1. Scanned(c)
  BY WrittenFacts
<1>2. Entries[k].label = c.target /\ rows = {row \in RowsOf(c) : row.rule = i}
  BY EntryFacts
<1> HIDE DEF c, rows
<1>3. \A x : x \in Explained(Entries[k], i) <=> \E row \in rows : x = <<c.target, row>>
  BY <1>2 DEF Explained, rows
<1>4. ASSUME Has(c, i)
      PROVE  \E x : Explained(Entries[k], i) = {x}
  <2>1. PICK row \in rows : TRUE
    BY <1>2, <1>4 DEF Has
  <2>2. \A y \in rows : y = row
    BY <1>1, <1>2, <2>1, OneResult
  <2>3. \A x : x \in Explained(Entries[k], i) <=> x = <<c.target, row>>
    BY <1>3, <2>1, <2>2
  <2>4. Explained(Entries[k], i) = {<<c.target, row>>}
    BY <2>3
  <2> QED
    BY <2>4
<1>5. \A row \in rows : row \in RowsOf(c)
  BY <1>2
<1>6. \A x \in Explained(Entries[k], i) : x[1] = c.target /\ x[2] \in RowsOf(c)
  BY <1>3, <1>5
<1> QED
  BY <1>4, <1>6 DEF c

\* What it takes of the report: the clusters found with the rule, of the one named, or
\* of all unless a fleet has two.
LEMMA ExplainMeans ==
  ASSUME NEW i
  PROVE  LET report == JSONReport(clusters, opts)
             found == Carrying(report, i, ToSet(targets))
         IN  /\ \A t : ExplainFinding(report, i, {t}) =
                  UNION {Explained(e, i) : e \in IF multi THEN Carrying(report, i, {t}) ELSE {}}
             /\ ExplainFinding(report, i, {}) =
                  UNION {Explained(e, i) : e \in IF multi /\ Cardinality(found) # 1 THEN {} ELSE found}
<1> DEFINE report == JSONReport(clusters, opts)
           found == Carrying(report, i, ToSet(targets))
           Pick(t) == CASE "schema_version" \notin report.keys -> {}
                        [] "clusters" \in report.keys -> ResolveFleetClusterForRule(report, i, t)
                        [] OTHER -> IF t = {} THEN found ELSE {}
<1>1. \A t : ExplainFinding(report, i, t) = UNION {Explained(e, i) : e \in Pick(t)}
  BY DEF ExplainFinding, Explained
<1>2. report.keys = {"schema_version", "tool"} \cup (IF multi THEN {"clusters"} ELSE {"cluster"})
  BY DEF JSONReport
<1> HIDE DEF report
<1>3. "schema_version" \in report.keys /\ ("clusters" \in report.keys <=> multi)
  BY <1>2
<1>4. \A t : Pick({t}) = IF multi THEN Carrying(report, i, {t}) ELSE {}
  BY <1>3 DEF ResolveFleetClusterForRule
<1>5. Pick({}) = IF multi /\ Cardinality(found) # 1 THEN {} ELSE found
  BY <1>3 DEF ResolveFleetClusterForRule
<1> HIDE DEF Pick, found
<1>6. \A t : ExplainFinding(report, i, {t}) =
        UNION {Explained(e, i) : e \in IF multi THEN Carrying(report, i, {t}) ELSE {}}
  BY <1>1, <1>4
<1>7. ExplainFinding(report, i, {}) =
        UNION {Explained(e, i) : e \in IF multi /\ Cardinality(found) # 1 THEN {} ELSE found}
  BY <1>1, <1>5
<1> QED
  BY <1>6, <1>7 DEF report, found

LEMMA Explains ==
  ASSUME IInv, Written, ~opts.summaryOnly, NEW m \in DOMAIN clusters, ~clusters[m].failed, NEW i
  PROVE  LET report == JSONReport(clusters, opts)
             c == clusters[m]
             named == ExplainFinding(report, i, {c.target})
             picked == ExplainFinding(report, i, {})
         IN  /\ Has(c, i) /\ multi => Cardinality(named) = 1
             /\ Has(c, i) /\ (\A d \in Reached \ {c} : ~Has(d, i)) => Cardinality(picked) = 1
             /\ \A x \in named \cup picked : x[1] = c.target => x[2] \in RowsOf(c)
             /\ \A x \in picked : Has(c, i) => x[1] = c.target
<1> DEFINE c == clusters[m]
           here == Entries[m]
           mine == Carrying(JSONReport(clusters, opts), i, {c.target})
           found == Carrying(JSONReport(clusters, opts), i, ToSet(targets))
           asked == IF multi THEN mine ELSE {}
           chosen == IF multi /\ Cardinality(found) # 1 THEN {} ELSE found
           named == ExplainFinding(JSONReport(clusters, opts), i, {c.target})
           picked == ExplainFinding(JSONReport(clusters, opts), i, {})
<1>1. named = UNION {Explained(e, i) : e \in asked} /\ picked = UNION {Explained(e, i) : e \in chosen}
  BY ExplainMeans
<1>2. \A k \in DOMAIN clusters : clusters[k].target \in ToSet(targets)
  <2>1. \A k \in DOMAIN clusters : k \in DOMAIN targets /\ clusters[k].target = targets[k]
    BY DEF IInv, VisitInv
  <2> QED
    BY <2>1 DEF ToSet
<1>3. \A k \in DOMAIN clusters : clusters[k].target = c.target => k = m
  BY WrittenFacts
<1>4. \A e : e \in mine <=> \E k \in DOMAIN clusters :
        /\ e = Entries[k] /\ clusters[k].target \in {c.target}
        /\ ~clusters[k].failed /\ Has(clusters[k], i)
  BY CarryingFacts
<1>5. IsFiniteSet(found) /\ \A e : e \in found <=> \E k \in DOMAIN clusters :
        /\ e = Entries[k] /\ clusters[k].target \in ToSet(targets)
        /\ ~clusters[k].failed /\ Has(clusters[k], i)
  BY CarryingFacts
<1> HIDE DEF named, picked, mine, found
<1>6. \A e \in mine : e = here /\ Has(c, i)
  BY <1>3, <1>4
<1>7. \A e \in found : \E k \in DOMAIN clusters : e = Entries[k] /\ ~clusters[k].failed /\ Has(clusters[k], i)
  BY <1>5
<1>8. Has(c, i) => here \in mine /\ here \in found
  BY <1>2, <1>4, <1>5
<1>9. /\ \A x \in Explained(here, i) : x[1] = c.target /\ x[2] \in RowsOf(c)
      /\ Has(c, i) => \E x : Explained(here, i) = {x}
  BY ExplainedOne
<1>10. ASSUME Has(c, i), NEW S, S = {here}
       PROVE  Cardinality(UNION {Explained(e, i) : e \in S}) = 1
  <2>1. PICK x : Explained(here, i) = {x}
    BY <1>9, <1>10
  <2> HIDE DEF here
  <2>2. UNION {Explained(e, i) : e \in S} = {x}
    BY <1>10, <2>1
  <2> QED
    BY <2>2, FS_Singleton
<1>11. ASSUME Has(c, i), multi PROVE Cardinality(named) = 1
  <2>1. asked = {here}
    BY <1>6, <1>8, <1>11
  <2> QED
    BY <1>1, <1>10, <1>11, <2>1
<1>12. ASSUME Has(c, i), \A d \in Reached \ {c} : ~Has(d, i) PROVE Cardinality(picked) = 1
  <2>1. \A e \in found : e = here
    <3> SUFFICES ASSUME NEW e \in found
                 PROVE  e = here
      OBVIOUS
    <3>1. PICK k \in DOMAIN clusters : e = Entries[k] /\ ~clusters[k].failed /\ Has(clusters[k], i)
      BY <1>7
    <3>2. clusters[k] \in Reached
      BY <3>1 DEF Reached, ToSet
    <3>3. clusters[k] = c
      BY <1>12, <3>1, <3>2
    <3>4. k = m
      BY <1>3, <3>3
    <3> QED
      BY <3>1, <3>4
  <2>2. found = {here}
    BY <1>8, <1>12, <2>1
  <2>3. Cardinality(found) = 1
    BY <2>2, FS_Singleton
  <2>4. chosen = {here}
    BY <2>2, <2>3
  <2> QED
    BY <1>1, <1>10, <1>12, <2>4
<1>13. ASSUME NEW x \in named \cup picked, x[1] = c.target PROVE x[2] \in RowsOf(c)
  <2>1. CASE x \in named
    <3>1. PICK e \in asked : x \in Explained(e, i)
      BY <1>1, <2>1
    <3>2. e = here
      BY <1>6, <3>1
    <3> QED
      BY <1>9, <3>1, <3>2
  <2>2. CASE x \in picked
    <3>1. PICK e \in chosen : x \in Explained(e, i)
      BY <1>1, <2>2
    <3>2. e \in found
      BY <3>1
    <3>3. PICK k \in DOMAIN clusters : e = Entries[k] /\ ~clusters[k].failed /\ Has(clusters[k], i)
      BY <1>7, <3>2
    <3>4. x[1] = clusters[k].target
      BY <3>1, <3>3, ExplainedOne
    <3>5. k = m
      BY <1>3, <1>13, <3>4
    <3> QED
      BY <1>9, <3>1, <3>3, <3>5
  <2> QED
    BY <1>13, <2>1, <2>2
<1>14. ASSUME NEW x \in picked, Has(c, i) PROVE x[1] = c.target
  <2>1. PICK e \in chosen : x \in Explained(e, i)
    BY <1>1, <1>14
  <2>2. e \in found
    BY <2>1
  <2>3. CASE multi
    <3>1. Cardinality(found) = 1
      BY <2>1, <2>3
    <3>2. PICK y : found = {y}
      BY <1>5, <3>1, FS_Singleton
    <3>3. e = here
      BY <1>8, <1>14, <2>2, <3>2
    <3> QED
      BY <1>9, <2>1, <3>3
  <2>4. CASE ~multi
    <3>1. DOMAIN clusters = 1 .. 1
      BY <2>4, WrittenFacts
    <3>2. PICK k \in DOMAIN clusters : e = Entries[k]
      BY <1>7, <2>2
    <3>3. k = m
      BY <3>1, <3>2
    <3> QED
      BY <1>9, <2>1, <3>2, <3>3
  <2> QED
    BY <2>3, <2>4
<1> QED
  BY <1>11, <1>12, <1>13, <1>14 DEF named, picked

\* explain-finding explains the row of the cluster it was asked about, and never one
\* of two, for every fleet and catalog (runExplainFinding, resolveFleetClusterForRule,
\* findResultRow).
THEOREM ExplainsTheRow == Spec => []ExplainFindsTheRow
<1>1. IInv => ExplainFindsTheRow
  <2> SUFFICES ASSUME IInv, Written, ~opts.summaryOnly, NEW c \in Reached, NEW i \in ToSet(Catalog)
               PROVE  LET report == JSONReport(clusters, opts)
                          failing == \E row \in RowsOf(c) : row.rule = i /\ row.status = "fail"
                          only == \A d \in Reached \ {c} : ~Has(d, i)
                          named == ExplainFinding(report, i, {c.target})
                          picked == ExplainFinding(report, i, {})
                      IN  /\ failing /\ multi => Cardinality(named) = 1
                          /\ failing /\ only => Cardinality(picked) = 1
                          /\ \A x \in named \cup picked : x[1] = c.target => x[2] \in RowsOf(c)
                          /\ \A x \in picked : failing => x[1] = c.target
    BY Zenon DEF ExplainFindsTheRow, RowsOf, Has
  <2> DEFINE named == ExplainFinding(JSONReport(clusters, opts), i, {c.target})
             picked == ExplainFinding(JSONReport(clusters, opts), i, {})
             failing == \E row \in RowsOf(c) : row.rule = i /\ row.status = "fail"
  <2>1. PICK m \in DOMAIN clusters : c = clusters[m] /\ ~clusters[m].failed
    BY DEF Reached, ToSet
  <2>2. failing => Has(c, i)
    BY DEF Has
  <2>3. /\ Has(c, i) /\ multi => Cardinality(named) = 1
        /\ Has(c, i) /\ (\A d \in Reached \ {c} : ~Has(d, i)) => Cardinality(picked) = 1
        /\ \A x \in named \cup picked : x[1] = c.target => x[2] \in RowsOf(c)
        /\ \A x \in picked : Has(c, i) => x[1] = c.target
    BY <2>1, Explains
  <2> HIDE DEF named, picked, failing
  <2> QED
    BY <2>2, <2>3 DEF named, picked, failing
<1> QED
  BY <1>1, Invariance, PTL
=============================================================================
