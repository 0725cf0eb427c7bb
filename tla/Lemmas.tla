------------------------------- MODULE Lemmas -------------------------------
(***************************************************************************)
(* What several proofs need of numbers and of the library's folds.         *)
(*                                                                         *)
(* The induction theorems of the library take an operator and cannot be    *)
(* instantiated; SetInduction says the same of a set of numbers, and its   *)
(* proof is that a set that is not empty has a least element.  FoldLeft is *)
(* a function on all sets of positions, chosen by its recursion.  That one *)
(* exists is FoldTable, by induction on the positions; the values the fold *)
(* passes through are a FoldRun; FoldEnds says that what satisfies the     *)
(* recursion ends where the run does.  The congruences at the end are      *)
(* those of a counter that wraps.                                          *)
(***************************************************************************)
EXTENDS Integers, SequencesExt, SequenceTheorems, WellFoundedInduction, TLAPS

\* A set of natural numbers that is not empty has a least one.
LEMMA LeastNatural ==
  ASSUME NEW T \in SUBSET Nat, T # {}
  PROVE  \E n \in T : \A m \in T : n <= m
<1> DEFINE R == {p \in Nat \X Nat : p[1] < p[2]}
<1>1. IsWellFoundedOn(R, Nat)
  <2>1. OpToRel(<, Nat) = R
    BY Zenon DEF OpToRel
  <2> QED BY <2>1, NatLessThanWellFounded, Zenon
<1>2. PICK n \in T : \A y \in T : ~(<<y, n>> \in R)
  BY <1>1, WFMin, Zenon
<1>3. ASSUME NEW m \in T  PROVE n <= m
  <2>1. ~(<<m, n>> \in R)
    BY <1>2
  <2>2. m \in Nat /\ n \in Nat
    OBVIOUS
  <2> QED BY <2>1, <2>2
<1> QED BY <1>3

\* Induction: what holds at zero and is handed on holds of every number.
LEMMA SetInduction ==
  ASSUME NEW P \in SUBSET Nat, 0 \in P, \A n \in P : n + 1 \in P
  PROVE  P = Nat
<1> SUFFICES ASSUME P # Nat PROVE FALSE
  OBVIOUS
<1>1. PICK n \in Nat \ P : \A m \in Nat \ P : n <= m
  <2> DEFINE T == Nat \ P
  <2>1. T \in SUBSET Nat /\ T # {}
    OBVIOUS
  <2> HIDE DEF T
  <2>2. \E n \in T : \A m \in T : n <= m
    BY <2>1, LeastNatural
  <2> QED BY <2>2 DEF T
<1>2. n # 0 /\ n - 1 \in Nat
  OBVIOUS
<1>3. n - 1 \in P
  BY <1>1, <1>2
<1> QED BY <1>2, <1>3

\* A number is its quotient times the divisor and its remainder.
LEMMA DivModParts ==
  ASSUME NEW n \in Nat, NEW d \in Nat \ {0}
  PROVE  /\ n \div d \in Nat /\ n % d \in 0..d-1
         /\ n = (n \div d) * d + (n % d)
  OBVIOUS

\* A number has one quotient and one remainder.
LEMMA OneQuotient ==
  ASSUME NEW d \in Nat \ {0}, NEW p \in Nat, NEW q \in Nat, NEW r \in 0..d-1, NEW s \in 0..d-1,
         p * d + r = q * d + s
  PROVE  p = q /\ r = s
<1>1. ASSUME NEW a \in Nat, NEW b \in Nat, NEW x \in 0..d-1, NEW y \in 0..d-1,
             a * d + x = b * d + y, a < b
      PROVE  FALSE
  <2>1. a + 1 <= b
    BY <1>1
  <2>2. (a + 1) * d <= b * d
    BY <2>1
  <2>3. (a + 1) * d = a * d + d /\ a * d \in Nat /\ b * d \in Nat
    OBVIOUS
  <2> QED BY <1>1, <2>2, <2>3
<1>2. p = q
  BY <1>1
<1>3. p * d \in Nat
  OBVIOUS
<1> QED BY <1>2, <1>3

LEMMA Quotient ==
  ASSUME NEW d \in Nat \ {0}, NEW q \in Nat, NEW r \in 0..d-1, NEW n, n = q * d + r
  PROVE  n \div d = q /\ n % d = r
<1>1. n \in Nat
  <2>1. q * d \in Nat
    OBVIOUS
  <2> QED BY <2>1
<1>2. n \div d \in Nat /\ n % d \in 0..d-1 /\ n = (n \div d) * d + (n % d)
  BY <1>1, DivModParts
<1> DEFINE p == n \div d
           s == n % d
<1>3. p \in Nat /\ s \in 0..d-1 /\ p * d + s = q * d + r
  BY <1>2
<1> HIDE DEF p, s
<1>4. p = q /\ s = r
  BY <1>3, OneQuotient
<1> QED BY <1>4 DEF p, s

\* A set of positions has a last one.
LEMMA LastOne ==
  ASSUME NEW n \in Nat, NEW s \in SUBSET (1..n), s # {}
  PROVE  Max(s) \in s /\ \A y \in s : Max(s) >= y
<1> DEFINE T == {n - y : y \in s}
<1>1. T \in SUBSET Nat /\ T # {}
  <2>1. \A y \in s : n - y \in Nat
    OBVIOUS
  <2>2. PICK y \in s : TRUE
    OBVIOUS
  <2> QED BY <2>1, <2>2
<1>2. PICK d \in T : \A m \in T : d <= m
  <2> HIDE DEF T
  <2> QED BY <1>1, LeastNatural
<1>3. PICK x \in s : d = n - x
  OBVIOUS
<1>4. ASSUME NEW y \in s  PROVE x >= y
  <2>1. n - y \in T
    OBVIOUS
  <2>2. n - x <= n - y
    BY <1>2, <1>3, <2>1
  <2> QED BY <2>2
<1> QED BY <1>4 DEF Max

LEMMA LastOfFirst ==
  ASSUME NEW k \in Nat, k # 0
  PROVE  Max(1..k) = k /\ (1..k) \ {k} = 1..k-1 /\ 1..k # {}
<1>1. 1..k # {} /\ k \in 1..k
  OBVIOUS
<1>2. Max(1..k) \in 1..k /\ \A y \in 1..k : Max(1..k) >= y
  BY <1>1, LastOne
<1> QED BY <1>1, <1>2

\* The functions a fold may run: one for each position.
Folding(n, S, g, b) ==
  n \in Nat /\ b \in S /\ \A i \in 1..n, x \in S : g[i][x] \in S

\* What a fold is of every set of positions.
Table(n, g, b, h) ==
  \A s \in SUBSET (1..n) : h[s] = IF s = {} THEN b ELSE g[Max(s)][h[s \ {Max(s)}]]

LEMMA FoldTable ==
  ASSUME NEW n, NEW S, NEW g, NEW b, Folding(n, S, g, b)
  PROVE  \E h \in [SUBSET (1..n) -> S] : Table(n, g, b, h)
<1> DEFINE Found(k) == \E h \in [SUBSET (1..k) -> S] : Table(k, g, b, h)
           P == {k \in Nat : k <= n => Found(k)}
<1>1. 0 \in P
  <2>1. SUBSET (1..0) = {{}}
    OBVIOUS
  <2>2. [s \in SUBSET (1..0) |-> b] \in [SUBSET (1..0) -> S]
    BY DEF Folding
  <2>3. Table(0, g, b, [s \in SUBSET (1..0) |-> b])
    BY <2>1 DEF Table
  <2> QED BY <2>2, <2>3
<1>2. ASSUME NEW k \in P  PROVE k + 1 \in P
  <2> SUFFICES ASSUME k + 1 <= n  PROVE Found(k + 1)
    <3> HIDE DEF Found
    <3> QED OBVIOUS
  <2>0. n \in Nat /\ k \in Nat /\ k + 1 \in 1..n /\ Found(k)
    <3> HIDE DEF Found
    <3>1. n \in Nat /\ k \in Nat
      BY DEF Folding
    <3>2. k <= n
      BY <3>1
    <3> QED BY <3>1, <3>2
  <2>1. PICK h \in [SUBSET (1..k) -> S] : Table(k, g, b, h)
    BY <2>0
  <2> DEFINE H == [s \in SUBSET (1..k+1) |->
                     IF k + 1 \in s THEN g[k+1][h[s \ {k + 1}]] ELSE h[s]]
  <2>2. \A s \in SUBSET (1..k+1) : k + 1 \notin s => s \in SUBSET (1..k)
    BY <2>0
  <2>3. \A s \in SUBSET (1..k+1) : s \ {k + 1} \in SUBSET (1..k)
    BY <2>0
  <2>4. H \in [SUBSET (1..k+1) -> S]
    BY <2>0, <2>1, <2>2, <2>3 DEF Folding
  <2>5. ASSUME NEW s \in SUBSET (1..k+1)
        PROVE  H[s] = IF s = {} THEN b ELSE g[Max(s)][H[s \ {Max(s)}]]
    <3>1. CASE k + 1 \in s
      <4>1. k + 1 \in Nat /\ s # {}
        BY <2>0, <3>1
      <4>2. Max(s) = k + 1
        <5>1. Max(s) \in s /\ Max(s) >= k + 1
          BY <3>1, <4>1, LastOne
        <5>2. Max(s) \in 1..k+1
          BY <5>1
        <5> HIDE DEF H
        <5> QED BY <2>0, <5>1, <5>2
      <4>3. k + 1 \notin s \ {k + 1} /\ s \ {k + 1} \in SUBSET (1..k+1)
        OBVIOUS
      <4>4. H[s] = g[k+1][h[s \ {k + 1}]] /\ H[s \ {k + 1}] = h[s \ {k + 1}]
        BY <3>1, <4>3
      <4> HIDE DEF H
      <4> QED BY <3>1, <4>2, <4>4
    <3>2. CASE k + 1 \notin s
      <4>1. s \in SUBSET (1..k)
        BY <2>2, <3>2
      <4>2. h[s] = IF s = {} THEN b ELSE g[Max(s)][h[s \ {Max(s)}]]
        BY <2>1, <4>1 DEF Table
      <4>3. H[s] = h[s]
        BY <3>2
      <4>4. H[s \ {Max(s)}] = h[s \ {Max(s)}]
        BY <3>2
      <4> HIDE DEF H
      <4> QED BY <4>2, <4>3, <4>4
    <3> QED BY <3>1, <3>2
  <2>6. Table(k + 1, g, b, H)
    <3> HIDE DEF H
    <3> QED BY <2>5 DEF Table
  <2> HIDE DEF H
  <2> QED BY <2>4, <2>6
<1>3. P = Nat
  <2> HIDE DEF P
  <2>1. P \in SUBSET Nat
    BY DEF P
  <2> QED BY <1>1, <1>2, <2>1, SetInduction
<1>4. n \in P /\ n \in Nat
  <2> HIDE DEF P
  <2> QED BY <1>3 DEF Folding
<1>5. Found(n)
  <2> HIDE DEF Found
  <2> QED BY <1>4
<1> QED BY <1>5

\* The values a fold passes through.
FoldRun(n, S, g, b, run) ==
  run \in [0..n -> S] /\ run[0] = b /\ \A k \in 1..n : run[k] = g[k][run[k-1]]

LEMMA FoldRuns ==
  ASSUME NEW n, NEW S, NEW g, NEW b, Folding(n, S, g, b)
  PROVE  \E run : FoldRun(n, S, g, b, run)
<1>0. n \in Nat
  BY DEF Folding
<1>1. PICK h \in [SUBSET (1..n) -> S] : Table(n, g, b, h)
  BY FoldTable
<1> DEFINE run == [k \in 0..n |-> h[1..k]]
<1>2. run \in [0..n -> S]
  <2>1. \A k \in 0..n : 1..k \in SUBSET (1..n)
    BY <1>0
  <2> QED BY <2>1
<1>3. run[0] = b
  <2>1. 1..0 = {} /\ 0 \in 0..n
    BY <1>0
  <2> QED BY <1>1, <2>1 DEF Table
<1>4. ASSUME NEW k \in 1..n  PROVE run[k] = g[k][run[k-1]]
  <2>1. k \in Nat /\ k # 0 /\ k \in 0..n /\ k - 1 \in 0..n /\ 1..k \in SUBSET (1..n)
    BY <1>0
  <2>2. Max(1..k) = k /\ (1..k) \ {k} = 1..k-1 /\ 1..k # {}
    BY <2>1, LastOfFirst
  <2>3. h[1..k] = g[k][h[1..k-1]]
    BY <1>1, <2>1, <2>2 DEF Table
  <2> QED BY <2>1, <2>3
<1> HIDE DEF run
<1>5. FoldRun(n, S, g, b, run)
  BY <1>2, <1>3, <1>4 DEF FoldRun
<1> QED BY <1>5

\* A table of the fold ends where its run does.
LEMMA FoldEnds ==
  ASSUME NEW n \in Nat, NEW S, NEW g, NEW b, NEW run, FoldRun(n, S, g, b, run), NEW h,
         h[{}] = b, \A k \in 1..n : h[1..k-1] \in S => h[1..k] = g[k][h[1..k-1]]
  PROVE  h[1..n] = run[n]
<1> DEFINE P == {k \in Nat : k <= n => h[1..k] = run[k]}
<1>1. 0 \in P
  <2>1. 1..0 = {}
    OBVIOUS
  <2> QED BY <2>1 DEF FoldRun
<1>2. ASSUME NEW k \in P  PROVE k + 1 \in P
  <2> SUFFICES ASSUME k + 1 <= n  PROVE h[1..k+1] = run[k+1]
    OBVIOUS
  <2> DEFINE i == k + 1
  <2>1. i \in 1..n /\ i - 1 = k /\ k \in 0..n /\ k \in Nat
    OBVIOUS
  <2>2. h[1..k] = run[k] /\ run[k] \in S
    BY <2>1 DEF FoldRun
  <2> HIDE DEF i
  <2>3. h[1..i] = g[i][h[1..k]]
    BY <2>1, <2>2
  <2>4. run[i] = g[i][run[k]]
    BY <2>1 DEF FoldRun
  <2>5. h[1..i] = run[i]
    BY <2>2, <2>3, <2>4
  <2> QED BY <2>5 DEF i
<1>3. P = Nat
  <2> HIDE DEF P
  <2>1. P \in SUBSET Nat
    BY DEF P
  <2> QED BY <1>1, <1>2, <2>1, SetInduction
<1>4. n \in P
  <2> HIDE DEF P
  <2> QED BY <1>3
<1> QED BY <1>4

\* A sequence flattened step by step: what satisfies the recursion is the result.
Joins(seqs, h) ==
  /\ Len(seqs) \in Nat \ {0}
  /\ h[1] = seqs[1] /\ \A i \in 2..Len(seqs) : h[i] = h[i-1] \o seqs[i]

LEMMA Flattened ==
  ASSUME NEW seqs, NEW h, Joins(seqs, h)
  PROVE  FlattenSeq(seqs) = h[Len(seqs)]
<1> DEFINE n == Len(seqs)
<1>a. n \in Nat \ {0} /\ h[1] = seqs[1] /\ \A i \in 2..n : h[i] = h[i-1] \o seqs[i]
  BY DEF Joins
<1> DEFINE Eq(g) == g = [i \in 1..n |-> IF i = 1 THEN seqs[i] ELSE g[i-1] \o seqs[i]]
           G == [i \in 1..n |-> h[i]]
           g == CHOOSE x : Eq(x)
<1>1. Eq(G)
  <2>1. ASSUME NEW i \in 1..n  PROVE G[i] = IF i = 1 THEN seqs[i] ELSE G[i-1] \o seqs[i]
    <3>1. CASE i = 1
      BY <1>a, <3>1
    <3>2. CASE i # 1
      <4>1. i \in 2..n /\ i - 1 \in 1..n
        BY <1>a, <3>2
      <4>2. G[i-1] = h[i-1] /\ h[i] = h[i-1] \o seqs[i]
        BY <1>a, <4>1
      <4> QED BY <3>2, <4>2
    <3> QED BY <3>1, <3>2
  <2> DEFINE H == [i \in 1..n |-> IF i = 1 THEN seqs[i] ELSE G[i-1] \o seqs[i]]
  <2>2. \A i \in 1..n : G[i] = H[i]
    BY <2>1
  <2>3. G = [i \in 1..n |-> G[i]] /\ H = [i \in 1..n |-> H[i]]
    OBVIOUS
  <2> QED BY <2>2, <2>3
<1>2. Eq(g)
  <2> HIDE DEF Eq, G
  <2> QED BY <1>1
<1>3. FlattenSeq(seqs) = g[n]
  <2>1. Len(seqs) # 0
    BY <1>a
  <2> QED BY <2>1, Zenon DEF FlattenSeq
<1> HIDE DEF g, n
<1>4. g[1] = h[1]
  BY <1>a, <1>2
<1>5. ASSUME NEW i \in 2..n, g[i-1] = h[i-1]  PROVE g[i] = h[i]
  <2>1. i \in 1..n /\ i # 1
    BY <1>a
  <2>2. g[i] = g[i-1] \o seqs[i]
    BY <1>a, <1>2, <2>1
  <2> QED BY <1>a, <1>5, <2>2
<1> DEFINE P == {k \in Nat : k + 1 <= n => g[k+1] = h[k+1]}
<1>6. 0 \in P
  BY <1>4
<1>7. ASSUME NEW k \in P  PROVE k + 1 \in P
  <2> DEFINE i == k + 2
  <2> SUFFICES ASSUME i <= n PROVE g[i] = h[i]
    BY (k + 1) + 1 = k + 2
  <2>1. i \in 2..n /\ i - 1 = k + 1 /\ k + 1 <= n
    BY <1>a
  <2>2. g[i-1] = h[i-1]
    BY <2>1
  <2> HIDE DEF i
  <2> QED BY <1>5, <2>1, <2>2
<1>8. P = Nat
  <2> HIDE DEF P
  <2>1. P \in SUBSET Nat
    BY DEF P
  <2> QED BY <1>6, <1>7, <2>1, SetInduction
<1>9. n - 1 \in P
  <2> HIDE DEF P
  <2> QED BY <1>a, <1>8
<1>10. (n - 1) + 1 = n
  BY <1>a
<1> QED BY <1>3, <1>9, <1>10, <1>a DEF n
\* What flattening passes through.
LEMMA FlatTable ==
  ASSUME NEW S, NEW seqs \in Seq(Seq(S)), seqs # << >>
  PROVE  \E h : Joins(seqs, h) /\ \A i \in 1..Len(seqs) : h[i] \in Seq(S)
<1> DEFINE n == Len(seqs)
           Table1(k, h) == /\ h[1] = seqs[1] /\ \A i \in 2..k : h[i] = h[i-1] \o seqs[i]
                           /\ \A i \in 1..k : h[i] \in Seq(S)
           P == {k \in Nat : k + 1 <= n => \E h : Table1(k + 1, h)}
<1>0. n \in Nat \ {0} /\ \A i \in 1..n : seqs[i] \in Seq(S)
  BY EmptySeq
<1>1. 0 \in P
  <2> DEFINE h == [i \in {1} |-> seqs[1]]
  <2>1. Table1(1, h)
    BY <1>0
  <2> HIDE DEF Table1
  <2> QED BY <2>1
<1>2. ASSUME NEW k \in P  PROVE k + 1 \in P
  <2> DEFINE m == k + 1
  <2> SUFFICES ASSUME m + 1 <= n  PROVE \E h : Table1(m + 1, h)
    <3> HIDE DEF Table1
    <3> QED OBVIOUS
  <2>1. m \in Nat \ {0} /\ m <= n /\ m + 1 \in 1..n
    BY <1>0
  <2>2. PICK h : Table1(m, h)
    <3> HIDE DEF Table1
    <3> QED BY <2>1
  <2> HIDE DEF m
  <2> DEFINE g == [i \in 1..m+1 |-> IF i <= m THEN h[i] ELSE h[m] \o seqs[m+1]]
  <2>3. \A i \in 1..m : g[i] = h[i]
    BY <2>1
  <2>4. g[m+1] = h[m] \o seqs[m+1] /\ h[m] \in Seq(S) /\ seqs[m+1] \in Seq(S)
    <3>1. m + 1 \in 1..m+1 /\ ~(m + 1 <= m) /\ m \in 1..m
      BY <2>1
    <3>2. g[m+1] = h[m] \o seqs[m+1]
      BY <3>1
    <3> HIDE DEF g, n
    <3> QED BY <1>0, <2>1, <2>2, <3>1, <3>2
  <2> HIDE DEF g
  <2>5. g[m+1] \in Seq(S)
    <3> DEFINE a == h[m]  b == seqs[m+1]
    <3>1. a \in Seq(S) /\ b \in Seq(S)
      BY <2>4
    <3> HIDE DEF a, b
    <3>2. a \o b \in Seq(S)
      BY <3>1, ConcatProperties
    <3> QED BY <2>4, <3>2 DEF a, b
  <2>6. g[1] = seqs[1]
    BY <2>1, <2>2, <2>3
  <2>7. ASSUME NEW i \in 2..m+1  PROVE g[i] = g[i-1] \o seqs[i]
    <3>1. CASE i = m + 1
      <4>1. i - 1 = m /\ m \in 1..m
        BY <2>1, <3>1
      <4> QED BY <2>3, <2>4, <3>1, <4>1
    <3>2. CASE i # m + 1
      <4>1. i \in 2..m /\ i \in 1..m /\ i - 1 \in 1..m
        BY <2>1, <3>2
      <4> QED BY <2>2, <2>3, <4>1
    <3> QED BY <3>1, <3>2
  <2>8. ASSUME NEW i \in 1..m+1  PROVE g[i] \in Seq(S)
    <3>1. i = m + 1 \/ i \in 1..m
      BY <2>1
    <3> QED BY <2>2, <2>3, <2>5, <3>1
  <2>9. Table1(m + 1, g)
    BY <2>6, <2>7, <2>8
  <2> HIDE DEF Table1
  <2> QED BY <2>9
<1>3. P = Nat
  <2> HIDE DEF P
  <2>1. P \in SUBSET Nat
    BY DEF P
  <2> QED BY <1>1, <1>2, <2>1, SetInduction
<1>4. n - 1 \in Nat /\ (n - 1) + 1 = n
  BY <1>0
<1>5. \E h : Table1(n, h)
  <2> HIDE DEF Table1, n
  <2>1. n - 1 \in P
    <3> HIDE DEF P
    <3> QED BY <1>3, <1>4
  <2> QED BY <1>4, <2>1
<1> QED BY <1>0, <1>5 DEF Joins

LEMMA FlatTyped ==
  ASSUME NEW S, NEW seqs \in Seq(Seq(S))
  PROVE  FlattenSeq(seqs) \in Seq(S)
<1>1. CASE seqs = << >>
  <2>1. FlattenSeq(seqs) = << >>
    BY <1>1 DEF FlattenSeq
  <2> QED BY <2>1, EmptySeq
<1>2. CASE seqs # << >>
  <2>1. PICK h : Joins(seqs, h) /\ \A i \in 1..Len(seqs) : h[i] \in Seq(S)
    BY <1>2, FlatTable
  <2>2. FlattenSeq(seqs) = h[Len(seqs)]
    BY <2>1, Flattened
  <2>3. Len(seqs) \in 1..Len(seqs)
    BY <2>1 DEF Joins
  <2> QED BY <2>1, <2>2, <2>3
<1> QED BY <1>1, <1>2

LEMMA FlatOne ==
  ASSUME NEW s  PROVE FlattenSeq(<< s >>) = s
<1> DEFINE seqs == << s >>  h == [i \in {1} |-> s]
<1>1. Joins(seqs, h)
  BY DEF Joins
<1>2. Len(seqs) = 1 /\ h[1] = s
  OBVIOUS
<1> HIDE DEF seqs, h
<1>3. FlattenSeq(seqs) = h[1]
  BY <1>1, <1>2, Flattened
<1> QED BY <1>2, <1>3 DEF seqs

\* A sequence more at the end.
LEMMA FlatAppend ==
  ASSUME NEW S, NEW seqs \in Seq(Seq(S)), NEW s \in Seq(S)
  PROVE  FlattenSeq(Append(seqs, s)) = FlattenSeq(seqs) \o s
<1>1. CASE seqs = << >>
  <2>1. FlattenSeq(seqs) = << >>
    BY <1>1 DEF FlattenSeq
  <2>2. Append(seqs, s) = << s >>
    BY <1>1
  <2>3. << >> \o s = s
    BY ConcatEmptySeq
  <2> QED BY <2>1, <2>2, <2>3, FlatOne
<1>2. CASE seqs # << >>
  <2> DEFINE n == Len(seqs)  more == Append(seqs, s)
  <2>1. PICK h : Joins(seqs, h) /\ \A i \in 1..n : h[i] \in Seq(S)
    BY <1>2, FlatTable
  <2>2. FlattenSeq(seqs) = h[n]
    BY <2>1, Flattened
  <2>3. n \in Nat \ {0} /\ Len(more) = n + 1 /\ more[n+1] = s /\ \A i \in 1..n : more[i] = seqs[i]
    BY <2>1, AppendProperties DEF Joins
  <2> DEFINE g == [i \in 1..n+1 |-> IF i <= n THEN h[i] ELSE h[n] \o s]
  <2>4. g[n+1] = h[n] \o s /\ \A i \in 1..n : g[i] = h[i]
    BY <2>3
  <2> HIDE DEF g, n, more
  <2>5. h[1] = seqs[1] /\ \A i \in 2..n : h[i] = h[i-1] \o seqs[i]
    BY <2>1 DEF Joins, n
  <2>6. g[1] = more[1]
    BY <2>3, <2>4, <2>5
  <2>7. ASSUME NEW i \in 2..n+1  PROVE g[i] = g[i-1] \o more[i]
    <3>1. CASE i = n + 1
      <4>1. i - 1 = n /\ n \in 1..n
        BY <2>3, <3>1
      <4> QED BY <2>3, <2>4, <3>1, <4>1
    <3>2. CASE i # n + 1
      <4>1. i \in 2..n /\ i \in 1..n /\ i - 1 \in 1..n
        BY <2>3, <3>2
      <4> QED BY <2>3, <2>4, <2>5, <4>1
    <3> QED BY <3>1, <3>2
  <2>8. Joins(more, g)
    <3>1. Len(more) \in Nat \ {0} /\ 2..Len(more) = 2..n+1
      BY <2>3
    <3> QED BY <2>6, <2>7, <3>1 DEF Joins
  <2>9. FlattenSeq(more) = g[n+1]
    BY <2>3, <2>8, Flattened
  <2> QED BY <2>2, <2>4, <2>9 DEF more
<1> QED BY <1>1, <1>2

\* z is a, b and c in a row: y is the first two, x the last two.
InARow(S, a, b, c, x, y, z) ==
  a \in Seq(S) /\ b \in Seq(S) /\ c \in Seq(S) /\ x = b \o c /\ y = a \o b /\ z = a \o x

LEMMA Associative ==
  ASSUME NEW S, NEW a, NEW b, NEW c, NEW x, NEW y, NEW z, InARow(S, a, b, c, x, y, z)
  PROVE  z = y \o c
<1>1. a \in Seq(S) /\ b \in Seq(S) /\ c \in Seq(S) /\ x = b \o c /\ y = a \o b /\ z = a \o x
  BY DEF InARow
<1>2. (a \o b) \o c = a \o (b \o c)
  BY <1>1, ConcatAssociative
<1> QED BY <1>1, <1>2

\* The first sequence taken away.
LEMMA FlatHead ==
  ASSUME NEW S, NEW seqs \in Seq(Seq(S)), seqs # << >>
  PROVE  FlattenSeq(seqs) = Head(seqs) \o FlattenSeq(Tail(seqs))
<1> DEFINE n == Len(seqs)  rest == Tail(seqs)
<1>1. /\ n \in Nat \ {0} /\ rest \in Seq(Seq(S)) /\ Len(rest) = n - 1
      /\ \A i \in 1..n-1 : rest[i] = seqs[i+1]
      /\ Head(seqs) = seqs[1] /\ \A i \in 1..n : seqs[i] \in Seq(S)
  BY HeadTailProperties, EmptySeq
<1>2. CASE rest = << >>
  <2>1. FlattenSeq(rest) = << >>
    BY <1>2 DEF FlattenSeq
  <2>2. n = 1
    <3>1. Len(rest) = 0
      BY <1>2, EmptySeq
    <3> HIDE DEF n, rest
    <3> QED BY <1>1, <3>1
  <2>3. seqs = << seqs[1] >>
    BY <1>1, <2>2
  <2>4. seqs[1] \o << >> = seqs[1]
    BY <1>1, ConcatEmptySeq
  <2>5. FlattenSeq(seqs) = seqs[1]
    BY <2>3, FlatOne
  <2> QED BY <1>1, <2>1, <2>4, <2>5
<1>3. CASE rest # << >>
  <2>1. PICK h : Joins(rest, h) /\ \A i \in 1..Len(rest) : h[i] \in Seq(S)
    BY <1>1, <1>3, FlatTable
  <2>2. FlattenSeq(rest) = h[n-1]
    BY <1>1, <2>1, Flattened
  <2>3. n - 1 \in Nat \ {0}
    BY <1>1, <2>1 DEF Joins
  <2>4. h[1] = rest[1] /\ \A i \in 2..n-1 : h[i] = h[i-1] \o rest[i]
    BY <1>1, <2>1 DEF Joins
  <2> DEFINE g == [i \in 1..n |-> IF i = 1 THEN seqs[1] ELSE seqs[1] \o h[i-1]]
  <2>5. g[1] = seqs[1] /\ \A i \in 2..n : g[i] = seqs[1] \o h[i-1]
    <3>1. 1 \in 1..n /\ \A i \in 2..n : i \in 1..n /\ i # 1
      BY <1>1
    <3> HIDE DEF n
    <3> QED BY <3>1
  <2> HIDE DEF g, n, rest
  <2>6. ASSUME NEW i \in 2..n  PROVE g[i] = g[i-1] \o seqs[i]
    <3>1. g[i] = seqs[1] \o h[i-1]
      BY <2>5
    <3>2. CASE i = 2
      <4>1. rest[1] = seqs[2]
        BY <1>1, <2>3
      <4>2. g[2] = seqs[1] \o h[1] /\ g[i-1] = seqs[1]
        <5>1. i \in 2..n /\ i - 1 = 1
          BY <2>6, <3>2
        <5>2. g[i] = seqs[1] \o h[i-1] /\ g[1] = seqs[1]
          BY <2>5, <5>1
        <5> QED BY <3>2, <5>1, <5>2
      <4> QED BY <2>4, <3>2, <4>1, <4>2
    <3>3. CASE i # 2
      <4>1. i - 1 \in 2..n /\ i - 1 \in 2..n-1 /\ i - 2 \in 1..n-1 /\ (i - 1) - 1 = i - 2
            /\ i - 1 \in 1..n-1 /\ (i - 1) + 1 = i
        BY <1>1, <3>3
      <4>2. h[i-1] = h[i-2] \o rest[i-1] /\ rest[i-1] = seqs[i]
        BY <1>1, <2>4, <4>1
      <4>3. g[i-1] = seqs[1] \o h[i-2]
        BY <2>5, <4>1
      <4>4. h[i-2] \in Seq(S) /\ seqs[i] \in Seq(S) /\ seqs[1] \in Seq(S)
        BY <1>1, <2>1, <4>1
      <4>5. h[i-1] = h[i-2] \o seqs[i]
        BY <4>2
      <4>6. ASSUME NEW a, a = seqs[1], NEW b, b = h[i-2], NEW c, c = seqs[i],
                   NEW x, x = h[i-1], NEW y, y = g[i-1], NEW z, z = g[i]
            PROVE  z = y \o c
        <5>1. InARow(S, a, b, c, x, y, z)
          BY <3>1, <4>3, <4>4, <4>5, <4>6 DEF InARow
        <5> HIDE DEF g
        <5> QED BY ONLY <5>1, Associative
      <4> QED BY <4>6
    <3> QED BY <3>2, <3>3
  <2>7. Joins(seqs, g)
    BY <1>1, <2>5, <2>6 DEF Joins, n
  <2>8. FlattenSeq(seqs) = g[n]
    BY <2>7, Flattened DEF n
  <2>9. g[n] = seqs[1] \o h[n-1]
    <3>1. n \in 2..n
      BY <1>1, <2>3
    <3> QED BY <2>5, <3>1
  <2> QED BY <1>1, <2>2, <2>8, <2>9 DEF rest
<1> QED BY <1>2, <1>3

\* The same added to both sides.
LEMMA SumMoved ==
  ASSUME NEW a \in Int, NEW b \in Int, NEW c \in Int, NEW d \in Int, NEW e \in Int,
         b + d = c + e
  PROVE  (a + c) + e = (a + b) + d
  OBVIOUS

-----------------------------------------------------------------------------
(* Congruences. *)

\* A multiple of d.
Multiple(n, d) == \E k \in Int : n = k * d

\* No remainder is left of a multiple, and of nothing else.
LEMMA MultipleMod ==
  ASSUME NEW n \in Int, NEW d \in Nat \ {0}
  PROVE  n % d = 0 <=> Multiple(n, d)
<1>1. n \div d \in Int /\ n % d \in 0..d-1 /\ n = (n \div d) * d + (n % d)
  OBVIOUS
<1>2. ASSUME n % d = 0  PROVE Multiple(n, d)
  BY <1>1, <1>2 DEF Multiple
<1>3. ASSUME NEW k \in Int, n = k * d  PROVE n % d = 0
  BY <1>3
<1> QED BY <1>2, <1>3 DEF Multiple

\* Equal remainders: the difference is a multiple.
LEMMA Congruent ==
  ASSUME NEW u \in Int, NEW v \in Int, NEW d \in Nat \ {0}
  PROVE  u % d = v % d <=> Multiple(u - v, d)
<1>1. PICK p \in Int, r \in 0..d-1 : u = p * d + r /\ r = u % d
  <2>1. u \div d \in Int /\ u % d \in 0..d-1 /\ u = (u \div d) * d + (u % d)
    OBVIOUS
  <2> QED BY <2>1
<1>2. PICK q \in Int, s \in 0..d-1 : v = q * d + s /\ s = v % d
  <2>1. v \div d \in Int /\ v % d \in 0..d-1 /\ v = (v \div d) * d + (v % d)
    OBVIOUS
  <2> QED BY <2>1
<1>3. p * d \in Int /\ q * d \in Int /\ (p - q) * d = p * d - q * d /\ (p - q) * d \in Int
  BY ONLY p \in Int, q \in Int, d \in Nat
<1>4. ASSUME r = s  PROVE Multiple(u - v, d)
  <2>1. u - v = (p - q) * d
    <3>1. PICK x \in Int, y \in Int, w \in Int : x = p * d /\ y = q * d /\ w = (p - q) * d
      BY <1>3
    <3>2. u = x + r /\ v = y + r /\ w = x - y
      BY <1>1, <1>2, <1>3, <1>4, <3>1
    <3>3. u - v = w
      BY ONLY <3>2, x \in Int, y \in Int, w \in Int, r \in Int, r \in 0..d-1
    <3> QED BY <3>1, <3>3
  <2>2. p - q \in Int
    OBVIOUS
  <2> QED BY <2>1, <2>2 DEF Multiple
<1>5. ASSUME NEW k \in Int, u - v = k * d  PROVE r = s
  <2>1. PICK j \in Int : j = k - (p - q)
    OBVIOUS
  <2>2. j * d = k * d - (p - q) * d /\ k * d \in Int /\ j * d \in Int
    BY <2>1
  <2>3. j * d = r - s
    <3>1. PICK x \in Int, y \in Int, w \in Int, z \in Int :
            x = p * d /\ y = q * d /\ w = (p - q) * d /\ z = k * d
      BY <1>3, <2>2
    <3>2. u = x + r /\ v = y + s /\ w = x - y /\ u - v = z /\ j * d = z - w
      BY <1>1, <1>2, <1>3, <1>5, <2>2, <3>1
    <3>3. r \in Int /\ s \in Int
      OBVIOUS
    <3> QED BY ONLY <3>2, <3>3, x \in Int, y \in Int, w \in Int, z \in Int
  <2>4. j = 0
    <3>1. -d < j * d /\ j * d < d
      BY <2>3
    <3>2. ASSUME j >= 1  PROVE FALSE
      <4>1. j * d >= d
        BY <3>2
      <4> QED BY <3>1, <4>1, <2>2
    <3>3. ASSUME j <= -1  PROVE FALSE
      <4>1. j * d <= -d
        BY <3>3
      <4> QED BY <3>1, <4>1, <2>2
    <3> QED BY <3>2, <3>3
  <2>5. j * d = 0
    BY <2>4
  <2> QED BY ONLY <2>3, <2>5, r \in 0..d-1, s \in 0..d-1, d \in Nat \ {0}
<1> QED BY <1>1, <1>2, <1>4, <1>5 DEF Multiple

\* What is less than d is its own remainder.
LEMMA SmallMod ==
  ASSUME NEW d \in Nat \ {0}, NEW r \in 0..d-1  PROVE r % d = r
  OBVIOUS

\* Multiples add up.
LEMMA MultipleSum ==
  ASSUME NEW a \in Int, NEW b \in Int, NEW x \in Int, NEW d \in Int, Multiple(a, d), Multiple(b, d)
  PROVE  Multiple(a + x * b, d)
<1>1. PICK j \in Int, k \in Int : a = j * d /\ b = k * d
  BY DEF Multiple
<1>2. j * d + x * (k * d) = (j + x * k) * d /\ j + x * k \in Int
  OBVIOUS
<1> QED BY <1>1, <1>2 DEF Multiple

\* The greatest common divisor of two numbers is a sum of multiples of them.
Combines(s, a, m) == \E x \in Int, y \in Int : s = x * a + y * m
Common(d, a, m) == Multiple(a, d) /\ Multiple(m, d)

\* Such sums may be subtracted.
LEMMA CombinesLess ==
  ASSUME NEW a \in Int, NEW m \in Int, NEW d \in Int, NEW b \in Int, NEW q \in Int,
         Combines(d, a, m), Combines(b, a, m)
  PROVE  Combines(b - q * d, a, m)
<1>1. PICK x \in Int, y \in Int : d = x * a + y * m
  BY DEF Combines
<1>2. PICK u \in Int, v \in Int : b = u * a + v * m
  BY DEF Combines
<1>3. b - q * d = (u - q * x) * a + (v - q * y) * m
  <2>1. PICK xa \in Int, ym \in Int, ua \in Int, vm \in Int :
          xa = x * a /\ ym = y * m /\ ua = u * a /\ vm = v * m
    OBVIOUS
  <2>2. (u - q * x) * a = ua - q * xa /\ (v - q * y) * m = vm - q * ym
    BY <2>1
  <2>3. q * d = q * xa + q * ym
    BY <1>1, <2>1
  <2>4. q * xa \in Int /\ q * ym \in Int
    OBVIOUS
  <2> QED BY <1>2, <2>1, <2>2, <2>3, <2>4
<1>4. u - q * x \in Int /\ v - q * y \in Int
  OBVIOUS
<1> QED BY <1>3, <1>4 DEF Combines

\* The least such sum divides both numbers, and no common divisor is greater.
LEMMA Bezout ==
  ASSUME NEW a \in Nat, NEW m \in Nat \ {0}
  PROVE  \E d \in 1..m : /\ Common(d, a, m) /\ Combines(d, a, m)
                         /\ \A e \in Nat \ {0} : Common(e, a, m) => e <= d
<1> DEFINE T == {s \in Nat \ {0} : Combines(s, a, m)}
<1>1. Combines(m, a, m) /\ Combines(a, a, m)
  <2>1. m = 0 * a + 1 * m /\ a = 1 * a + 0 * m
    OBVIOUS
  <2> QED BY <2>1 DEF Combines
<1>2. PICK d \in T : \A s \in T : d <= s
  <2>1. m \in T /\ T \in SUBSET Nat
    BY <1>1
  <2> HIDE DEF T
  <2> QED BY <2>1, LeastNatural
<1>3. d \in Nat \ {0} /\ Combines(d, a, m) /\ d <= m
  BY <1>1, <1>2
<1>4. ASSUME NEW b \in Nat, Combines(b, a, m)  PROVE Multiple(b, d)
  <2>1. PICK q \in Nat, r \in 0..d-1 : b = q * d + r
    BY <1>3, DivModParts
  <2>2. Combines(b - q * d, a, m)
    BY <1>3, <1>4, CombinesLess
  <2>3. b - q * d = r
    <3>1. PICK z \in Nat : z = q * d
      BY <1>3
    <3>2. b = z + r
      BY <2>1, <3>1
    <3> QED BY <3>1, <3>2
  <2>4. r = 0
    <3>1. CASE r # 0
      <4>1. r \in T
        BY <2>2, <2>3, <3>1
      <4>2. d <= r
        BY <1>2, <4>1
      <4> QED BY <1>3, <4>2
    <3> QED BY <3>1
  <2>5. b = q * d
    BY <1>3, <2>1, <2>4
  <2> QED BY <2>5 DEF Multiple
<1>5. Common(d, a, m)
  BY <1>1, <1>4 DEF Common
<1>6. ASSUME NEW e \in Nat \ {0}, Common(e, a, m)  PROVE e <= d
  <2>1. PICK x \in Int, y \in Int : d = x * a + y * m
    BY <1>3 DEF Combines
  <2>2. PICK j \in Int, k \in Int : a = j * e /\ m = k * e
    BY <1>6 DEF Common, Multiple
  <2>3. PICK z \in Int : z = x * j + y * k
    OBVIOUS
  <2>4. d = z * e
    <3>1. x * (j * e) + y * (k * e) = (x * j + y * k) * e
      OBVIOUS
    <3> QED BY <2>1, <2>2, <2>3, <3>1
  <2>5. z >= 1
    <3>1. ASSUME z <= 0  PROVE FALSE
      <4>1. z * e <= 0
        BY <3>1
      <4> QED BY <1>3, <2>4, <4>1
    <3> QED BY <3>1
  <2>6. z * e >= e
    BY <2>5
  <2> QED BY <2>4, <2>6
<1>7. d \in 1..m
  BY <1>3
<1> QED BY <1>3, <1>5, <1>6, <1>7

\* Without their common divisor the first has an inverse modulo the second.
Inverts(z, p, c) == z \in 0..c-1 /\ (z * p) % c = 1 % c

\* The inverse comes from the sum that makes the common divisor.
LEMMA InverseExists ==
  ASSUME NEW p \in Nat, NEW c \in Nat \ {0}, NEW d \in Nat \ {0}, Combines(d, p * d, c * d)
  PROVE  \E z : Inverts(z, p, c)
<1>1. PICK x \in Int, y \in Int : d = x * (p * d) + y * (c * d)
  BY DEF Combines
<1>2. PICK u \in Int : u = x * p + y * c
  OBVIOUS
<1>3. d = u * d
  <2>1. x * (p * d) + y * (c * d) = (x * p + y * c) * d
    OBVIOUS
  <2> QED BY <1>1, <1>2, <2>1
<1>4. u = 1
  <2>1. ASSUME u >= 2  PROVE FALSE
    <3>1. u * d >= 2 * d
      BY <2>1
    <3> QED BY <1>3, <3>1
  <2>2. ASSUME u <= 0  PROVE FALSE
    <3>1. u * d <= 0
      BY <2>2
    <3> QED BY <1>3, <3>1
  <2> QED BY <2>1, <2>2
<1>5. PICK q \in Int, z \in 0..c-1 : x = q * c + z
  <2>1. x \div c \in Int /\ x % c \in 0..c-1 /\ x = (x \div c) * c + (x % c)
    OBVIOUS
  <2> QED BY <2>1
<1>6. z * p - 1 = (0 - (q * p + y)) * c
  <2>1. x * p = (q * p) * c + z * p
    BY <1>5
  <2>2. x * p + y * c = 1
    BY <1>2, <1>4
  <2>3. (0 - (q * p + y)) * c = 0 - ((q * p) * c + y * c)
    OBVIOUS
  <2>4. x * p \in Int /\ y * c \in Int /\ (q * p) * c \in Int /\ z * p \in Int
    OBVIOUS
  <2> QED BY ONLY <2>1, <2>2, <2>3, <2>4
<1>7. Multiple(z * p - 1, c)
  <2>1. 0 - (q * p + y) \in Int
    OBVIOUS
  <2> QED BY <1>6, <2>1 DEF Multiple
<1>8. z * p \in Int /\ (z * p) % c = 1 % c
  <2>1. z * p \in Int
    OBVIOUS
  <2>2. PICK t \in Int, o \in Int : t = z * p /\ o = 1
    BY <2>1
  <2>3. Multiple(t - o, c)
    BY <1>7, <2>2
  <2>4. t % c = o % c
    <3>1. t % c = o % c <=> Multiple(t - o, c)
      BY Congruent
    <3> QED BY <2>3, <3>1
  <2> QED BY <2>1, <2>2, <2>4
<1> QED BY <1>8 DEF Inverts

\* The solutions of a congruence.
IsRest(s, k, p, e) == s = k * p - e
IsProduct(t, e, z) == t = e * z

\* k times p leaves e where k leaves e times the inverse of p.
LEMMA Solutions ==
  ASSUME NEW p \in Nat, NEW c \in Nat \ {0}, NEW z \in Nat, Inverts(z, p, c), NEW e \in Nat, NEW k \in Nat,
         NEW s \in Int, IsRest(s, k, p, e), NEW t \in Nat, IsProduct(t, e, z)
  PROVE  Multiple(s, c) <=> k % c = t % c
<1> SUFFICES Multiple(k * p - e, c) <=> k % c = (e * z) % c
  BY DEF IsRest, IsProduct
<1>1. z \in Nat /\ k * p \in Int /\ e * z \in Nat /\ z * p \in Nat
  BY DEF Inverts
<1>2. PICK v \in Int : z * p - 1 = v * c
  <2>1. Multiple(z * p - 1, c)
    <3>1. PICK f \in Int, o \in Int : f = z * p /\ o = 1
      BY <1>1
    <3>2. f % c = o % c
      BY <3>1 DEF Inverts
    <3>3. Multiple(f - o, c)
      BY <3>2, Congruent
    <3> QED BY <3>1, <3>3
  <2> QED BY <2>1 DEF Multiple
<1>3. k % c = (e * z) % c <=> Multiple(k - e * z, c)
  <2>1. PICK f \in Int, o \in Int : f = e * z /\ o = k
    BY <1>1
  <2>2. o % c = f % c <=> Multiple(o - f, c)
    BY Congruent
  <2> QED BY <2>1, <2>2
<1>4. ASSUME NEW w \in Int, k * p - e = w * c  PROVE Multiple(k - e * z, c)
  <2>1. k - e * z = (w * z - k * v) * c
    <3>1. z * (k * p) = z * e + z * (w * c)
      <4>1. k * p = e + w * c
        BY <1>1, <1>4
      <4>2. z * (e + w * c) = z * e + z * (w * c)
        BY <1>1
      <4> QED BY <4>1, <4>2
    <3>2. k * (z * p) = k + k * (v * c)
      <4>1. z * p = 1 + v * c
        BY <1>1, <1>2
      <4>2. k * (1 + v * c) = k + k * (v * c)
        OBVIOUS
      <4> QED BY <4>1, <4>2
    <3>3. z * (k * p) = k * (z * p) /\ z * e = e * z /\ (w * z - k * v) * c = z * (w * c) - k * (v * c)
      BY <1>1
    <3>4. z * (k * p) \in Int /\ z * (w * c) \in Int /\ k * (v * c) \in Int
      BY <1>1
    <3> QED BY ONLY <3>1, <3>2, <3>3, <3>4, <1>1, k \in Nat
  <2>2. w * z - k * v \in Int
    BY <1>1
  <2> QED BY <2>1, <2>2 DEF Multiple
<1>5. ASSUME NEW w \in Int, k - e * z = w * c  PROVE Multiple(k * p - e, c)
  <2>1. k * p - e = (e * v + w * p) * c
    <3>1. k * p = (e * z) * p + (w * c) * p
      <4>1. k = e * z + w * c
        BY <1>1, <1>5
      <4>2. (e * z + w * c) * p = (e * z) * p + (w * c) * p
        BY <1>1
      <4> QED BY <4>1, <4>2
    <3>2. e * (z * p) = e + e * (v * c)
      <4>1. z * p = 1 + v * c
        BY <1>1, <1>2
      <4>2. e * (1 + v * c) = e + e * (v * c)
        OBVIOUS
      <4> QED BY <4>1, <4>2
    <3>3. (e * z) * p = e * (z * p) /\ (e * v + w * p) * c = e * (v * c) + (w * c) * p
      BY <1>1
    <3>4. e * (v * c) \in Int /\ (w * c) * p \in Int /\ e * (z * p) \in Int
      BY <1>1
    <3> QED BY ONLY <3>1, <3>2, <3>3, <3>4, <1>1, e \in Nat
  <2>2. e * v + w * p \in Int
    OBVIOUS
  <2> QED BY <2>1, <2>2 DEF Multiple
<1> QED BY <1>3, <1>4, <1>5 DEF Multiple
=============================================================================
