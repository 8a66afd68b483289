----------------------------- MODULE FoldLemmas -----------------------------
(***************************************************************************)
(* Induction over numbers, what a sum over a finite set is, and division   *)
(* with remainder: the facts the proofs about folds and dates need.        *)
(* MapThenSumSet takes the elements in an order of its own; its sums do    *)
(* not depend on it.                                                       *)
(***************************************************************************)
EXTENDS Integers, FiniteSets, FiniteSetsExt, FiniteSetTheorems, WellFoundedInduction, TLAPS

\* Induction, over a set of numbers.
LEMMA Induction ==
    ASSUME NEW P \in SUBSET Nat, 0 \in P, \A k \in P : k + 1 \in P
    PROVE  P = Nat
<1> DEFINE Less == OpToRel(<, Nat)
           Rest == Nat \ P
<1>1. \A m, i \in Nat : m < i => <<m, i>> \in Less
  BY DEF OpToRel
<1>2. IsWellFoundedOn(Less, Nat)
  BY NatLessThanWellFounded
<1> HIDE DEF Less
<1> SUFFICES ASSUME Rest # {} PROVE FALSE
  OBVIOUS
<1>3. PICK k \in Rest : \A m \in Rest : ~(<<m, k>> \in Less)
  BY <1>2, WFMin
<1>4. k # 0 /\ k - 1 \in Nat
  BY <1>3
<1>5. <<k - 1, k>> \in Less
  BY <1>1, <1>4
<1>6. k - 1 \in P
  BY <1>3, <1>4, <1>5
<1>7. (k - 1) + 1 = k
  BY <1>4
<1> QED BY <1>3, <1>6, <1>7

Some(s) == CHOOSE x \in s : TRUE

\* What MapThenSumSet computes: sums[s] for every part s of S.
SumsOf(sums, f, S) ==
    sums = [s \in SUBSET S |-> IF s = {} THEN 0 ELSE f[Some(s)] + sums[s \ {Some(s)}]]

\* The parts of S of at most k elements.
Parts(S, k) == {s \in SUBSET S : Cardinality(s) <= k}

\* A part of k + 1 elements is its first and a part of k.
LEMMA PartsOfOneMore ==
    ASSUME NEW S, IsFiniteSet(S), NEW k \in Nat, NEW s \in Parts(S, k + 1), s # {}
    PROVE  Some(s) \in s /\ Some(s) \in S /\ s \ {Some(s)} \in Parts(S, k)
<1>1. Some(s) \in s /\ s \in SUBSET S /\ Cardinality(s) <= k + 1
  BY DEF Some, Parts
<1>2. IsFiniteSet(s) /\ Cardinality(s) \in Nat
  BY <1>1, FS_Subset, FS_CardinalityType
<1>3. Cardinality(s \ {Some(s)}) = Cardinality(s) - 1
  BY <1>1, <1>2, FS_RemoveElement
<1> QED BY <1>1, <1>2, <1>3 DEF Parts

\* There are such sums ...
LEMMA SumsExist ==
    ASSUME NEW S, IsFiniteSet(S), NEW f
    PROVE  \E sums : SumsOf(sums, f, S)
<1> DEFINE Upto(sums, k) ==
             sums = [s \in Parts(S, k) |-> IF s = {} THEN 0 ELSE f[Some(s)] + sums[s \ {Some(s)}]]
           P == {k \in Nat : \E sums : Upto(sums, k)}
<1>1. 0 \in P
  <2>1. \A s \in Parts(S, 0) : s = {}
    <3> SUFFICES ASSUME NEW s \in Parts(S, 0) PROVE s = {}
      OBVIOUS
    <3>1. IsFiniteSet(s) /\ Cardinality(s) \in Nat /\ Cardinality(s) <= 0
      BY FS_Subset, FS_CardinalityType DEF Parts
    <3> QED BY <3>1, FS_EmptySet
  <2>2. Upto([s \in Parts(S, 0) |-> 0], 0)
    BY <2>1
  <2> QED BY <2>2
<1>2. ASSUME NEW k \in P PROVE k + 1 \in P
  <2>1. PICK sums : Upto(sums, k)
    OBVIOUS
  <2> DEFINE more == [s \in Parts(S, k + 1) |-> IF s = {} THEN 0 ELSE f[Some(s)] + sums[s \ {Some(s)}]]
  <2>2. Parts(S, k) \subseteq Parts(S, k + 1)
    <3> SUFFICES ASSUME NEW s \in Parts(S, k) PROVE s \in Parts(S, k + 1)
      OBVIOUS
    <3>1. Cardinality(s) \in Nat /\ Cardinality(s) <= k
      BY FS_Subset, FS_CardinalityType DEF Parts
    <3> QED BY <3>1 DEF Parts
  <2>3. \A s \in Parts(S, k) : more[s] = sums[s]
    BY <2>1, <2>2
  <2>4. \A s \in Parts(S, k + 1) : s # {} => more[s \ {Some(s)}] = sums[s \ {Some(s)}]
    BY <2>3, PartsOfOneMore
  <2>5. Upto(more, k + 1)
    BY <2>4
  <2> HIDE DEF more
  <2> QED BY <2>5
<1>3. P = Nat
  <2> HIDE DEF P
  <2>1. P \in SUBSET Nat
    BY DEF P
  <2> QED BY <1>1, <1>2, <2>1, Induction
<1>4. Cardinality(S) \in P
  BY <1>3, FS_CardinalityType
<1>5. Parts(S, Cardinality(S)) = SUBSET S
  BY FS_Subset DEF Parts
<1> QED BY <1>4, <1>5 DEF SumsOf

\* ... and any element can be the first.
LEMMA SumsOfAny ==
    ASSUME NEW S, IsFiniteSet(S), NEW f, \A x \in S : f[x] \in Int,
           NEW sums, SumsOf(sums, f, S)
    PROVE  /\ sums[{}] = 0
           /\ \A s \in SUBSET S : sums[s] \in Int
           /\ \A s \in SUBSET S : \A a \in s : sums[s] = f[a] + sums[s \ {a}]
<1> DEFINE Fine(s) == sums[s] \in Int /\ \A a \in s : sums[s] = f[a] + sums[s \ {a}]
           P == {k \in Nat : \A s \in Parts(S, k) : Fine(s)}
<1>1. sums[{}] = 0
  BY DEF SumsOf
<1>2. 0 \in P
  <2> SUFFICES ASSUME NEW s \in Parts(S, 0) PROVE Fine(s)
    OBVIOUS
  <2>1. IsFiniteSet(s) /\ Cardinality(s) \in Nat /\ Cardinality(s) <= 0
    BY FS_Subset, FS_CardinalityType DEF Parts
  <2>2. s = {}
    BY <2>1, FS_EmptySet
  <2> QED BY <1>1, <2>2
<1>3. ASSUME NEW k \in P PROVE k + 1 \in P
  <2> SUFFICES ASSUME NEW s \in Parts(S, k + 1) PROVE Fine(s)
    OBVIOUS
  <2>1. CASE s = {}
    BY <1>1, <2>1
  <2>2. CASE s # {}
    <3> DEFINE x == Some(s)
               rest == s \ {x}
    <3>1. x \in s /\ x \in S /\ rest \in Parts(S, k) /\ s \in SUBSET S
      BY <2>2, PartsOfOneMore DEF Parts
    <3>2. sums[s] = f[x] + sums[rest]
      BY <2>2, <3>1 DEF SumsOf
    <3>3. sums[rest] \in Int /\ \A a \in rest : sums[rest] = f[a] + sums[rest \ {a}]
      BY <3>1
    <3> HIDE DEF x
    <3>4. ASSUME NEW a \in s PROVE sums[s] = f[a] + sums[s \ {a}]
      <4>1. CASE a = x
        BY <3>2, <4>1
      <4>2. CASE a # x
        <5>1. a \in rest /\ sums[rest] = f[a] + sums[rest \ {a}]
          BY <3>3, <4>2
        <5>2. s \ {a} \in Parts(S, k)
          <6>1. IsFiniteSet(s) /\ Cardinality(s) \in Nat /\ Cardinality(s) <= k + 1
            BY FS_Subset, FS_CardinalityType DEF Parts
          <6>2. Cardinality(s \ {a}) = Cardinality(s) - 1
            BY <6>1, FS_RemoveElement
          <6> QED BY <3>1, <6>1, <6>2 DEF Parts
        <5>3. x \in s \ {a} /\ (s \ {a}) \ {x} = rest \ {a}
          BY <3>1, <4>2
        <5>4. sums[s \ {a}] \in Int /\ sums[s \ {a}] = f[x] + sums[rest \ {a}]
          BY <5>2, <5>3
        <5>5. f[a] \in Int /\ f[x] \in Int /\ sums[rest \ {a}] \in Int
          <6>1. rest \ {a} \in Parts(S, k)
            <7>1. IsFiniteSet(rest) /\ Cardinality(rest) \in Nat /\ Cardinality(rest) <= k
              BY <3>1, FS_Subset, FS_CardinalityType DEF Parts
            <7>2. Cardinality(rest \ {a}) \in Nat /\ Cardinality(rest \ {a}) <= Cardinality(rest)
              BY <7>1, FS_Subset, FS_CardinalityType
            <7> QED BY <3>1, <7>1, <7>2 DEF Parts
          <6> QED BY <3>1, <6>1
        <5> QED BY <3>2, <5>1, <5>4, <5>5
      <4> QED BY <4>1, <4>2
    <3>5. sums[s] \in Int
      BY <3>1, <3>2, <3>3
    <3> QED BY <3>4, <3>5
  <2> QED BY <2>1, <2>2
<1>4. P = Nat
  <2> HIDE DEF P
  <2>1. P \in SUBSET Nat
    BY DEF P
  <2> QED BY <1>2, <1>3, <2>1, Induction
<1>5. \A s \in SUBSET S : s \in Parts(S, Cardinality(S)) /\ Cardinality(S) \in Nat
  BY FS_Subset, FS_CardinalityType DEF Parts
<1>6. \A s \in SUBSET S : Fine(s)
  BY <1>4, <1>5
<1> QED BY <1>1, <1>6

\* Numbers are added up one after the other.
LEMMA SumOfOneMore ==
    ASSUME NEW n \in Nat, NEW f, \A i \in 1..n : f[i] \in Int,
           NEW sums, SumsOf(sums, f, 1..n),
           NEW k \in Nat, k + 1 <= n
    PROVE  /\ sums[1..k] \in Int /\ f[k + 1] \in Int
           /\ sums[1..(k + 1)] = sums[1..k] + f[k + 1]
<1> DEFINE S == 1..n
           s == 1..(k + 1)
<1>1. IsFiniteSet(S) /\ (\A i \in S : f[i] \in Int) /\ SumsOf(sums, f, S)
  BY FS_Interval
<1>2. /\ 1..k \in SUBSET S /\ s \in SUBSET S
      /\ k + 1 \in s /\ k + 1 \in S /\ s \ {k + 1} = 1..k
  OBVIOUS
<1> HIDE DEF S, s
<1>3. /\ \A t \in SUBSET S : sums[t] \in Int
      /\ \A t \in SUBSET S : \A a \in t : sums[t] = f[a] + sums[t \ {a}]
  BY <1>1, SumsOfAny
<1>4. sums[s] = f[k + 1] + sums[s \ {k + 1}] /\ f[k + 1] \in Int
  BY <1>1, <1>2, <1>3
<1>5. sums[1..k] \in Int
  BY <1>2, <1>3
<1>6. sums[s] = f[k + 1] + sums[1..k] /\ s = 1..(k + 1)
  BY <1>2, <1>4 DEF s
<1>7. sums[s] = sums[1..k] + f[k + 1]
  BY <1>4, <1>5, <1>6
<1> QED BY <1>4, <1>5, <1>6, <1>7

\* A sum of naturals is at most the sum of more of them.
LEMMA SumsGrow ==
    ASSUME NEW n \in Nat, NEW f, \A i \in 1..n : f[i] \in Nat,
           NEW sums, SumsOf(sums, f, 1..n)
    PROVE  \A k \in 0..n : /\ sums[1..k] \in Nat
                           /\ \A j \in 0..k : sums[1..j] <= sums[1..k]
<1> DEFINE Fine(k) == k <= n => /\ sums[1..k] \in Nat
                                /\ \A j \in 0..k : sums[1..j] \in Nat /\ sums[1..j] <= sums[1..k]
           P == {k \in Nat : Fine(k)}
<1>1. 0 \in P
  <2>1. 1..0 = {} /\ 0..0 = {0}
    OBVIOUS
  <2>2. {} \in SUBSET (1..n)
    OBVIOUS
  <2>3. sums[{}] = 0
    BY <2>2 DEF SumsOf
  <2> QED BY <2>1, <2>3
<1>2. ASSUME NEW k \in P PROVE k + 1 \in P
  <2> SUFFICES ASSUME k + 1 <= n
               PROVE  /\ sums[1..(k + 1)] \in Nat
                      /\ \A j \in 0..(k + 1) : sums[1..j] \in Nat /\ sums[1..j] <= sums[1..(k + 1)]
    OBVIOUS
  <2>1. k \in Nat /\ Fine(k)
    OBVIOUS
  <2>2. sums[1..(k + 1)] = sums[1..k] + f[k + 1] /\ f[k + 1] \in Nat
    BY <2>1, SumOfOneMore
  <2>3. sums[1..k] \in Nat /\ \A j \in 0..k : sums[1..j] \in Nat /\ sums[1..j] <= sums[1..k]
    BY <2>1
  <2>4. \A j \in 0..(k + 1) : j = k + 1 \/ j \in 0..k
    BY <2>1
  <2> QED BY <2>2, <2>3, <2>4
<1>3. P = Nat
  <2> HIDE DEF P
  <2>1. P \in SUBSET Nat
    BY DEF P
  <2> QED BY <1>1, <1>2, <2>1, Induction
<1> QED BY <1>3

\* Two sums of the same numbers agree on what they both add up.
LEMMA SumsAgree ==
    ASSUME NEW S, IsFiniteSet(S), NEW T \in SUBSET S, NEW f,
           NEW sums, SumsOf(sums, f, S), NEW more, SumsOf(more, f, T)
    PROVE  \A s \in SUBSET T : sums[s] = more[s]
<1> DEFINE P == {k \in Nat : \A s \in Parts(T, k) : sums[s] = more[s]}
<1>1. IsFiniteSet(T)
  BY FS_Subset
<1>2. \A s \in SUBSET T : s \in SUBSET S
  OBVIOUS
<1>3. 0 \in P
  <2> SUFFICES ASSUME NEW s \in Parts(T, 0) PROVE sums[s] = more[s]
    OBVIOUS
  <2>1. s \in SUBSET T /\ IsFiniteSet(s) /\ Cardinality(s) \in Nat /\ Cardinality(s) <= 0
    BY <1>1, FS_Subset, FS_CardinalityType DEF Parts
  <2>2. s = {}
    BY <2>1, FS_EmptySet
  <2> QED BY <1>2, <2>1, <2>2 DEF SumsOf
<1>4. ASSUME NEW k \in P PROVE k + 1 \in P
  <2> SUFFICES ASSUME NEW s \in Parts(T, k + 1) PROVE sums[s] = more[s]
    OBVIOUS
  <2>1. s \in SUBSET T /\ s \in SUBSET S
    BY DEF Parts
  <2>2. CASE s = {}
    BY <2>1, <2>2 DEF SumsOf
  <2>3. CASE s # {}
    <3>1. s \ {Some(s)} \in Parts(T, k)
      BY <1>1, <2>3, PartsOfOneMore
    <3>2. sums[s] = f[Some(s)] + sums[s \ {Some(s)}] /\ more[s] = f[Some(s)] + more[s \ {Some(s)}]
      BY <2>1, <2>3 DEF SumsOf
    <3> QED BY <3>1, <3>2
  <2> QED BY <2>2, <2>3
<1>5. P = Nat
  <2>1. P \in SUBSET Nat
    OBVIOUS
  <2> HIDE DEF P
  <2> QED BY <1>3, <1>4, <2>1, Induction
<1>6. \A s \in SUBSET T : s \in Parts(T, Cardinality(T)) /\ Cardinality(T) \in Nat
  BY <1>1, FS_Subset, FS_CardinalityType DEF Parts
<1> QED BY <1>5, <1>6

-----------------------------------------------------------------------------
(* Arithmetic *)

\* Division with remainder.
LEMMA DivMod ==
    ASSUME NEW a \in Int, NEW n \in Nat \ {0}
    PROVE  /\ a \div n \in Int /\ (a % n) \in 0..(n - 1)
           /\ a = n * (a \div n) + (a % n)
OBVIOUS

\* The quotient and the remainder are the only ones.
LEMMA DivModUnique ==
    ASSUME NEW n \in Nat \ {0}, NEW q \in Int, NEW p \in Int, NEW r \in 0..(n - 1), NEW s \in 0..(n - 1),
           n * q + r = n * p + s
    PROVE  q = p /\ r = s
<1>1. ASSUME NEW x \in Int, NEW y \in Int, NEW u \in 0..(n - 1), NEW v \in 0..(n - 1),
             n * x + u = n * y + v, x < y
      PROVE  FALSE
  <2>1. n * y >= n * (x + 1)
    BY <1>1
  <2>2. n * (x + 1) = n * x + n
    BY <1>1
  <2>3. n * x \in Int /\ n * y \in Int
    BY <1>1
  <2> QED BY <1>1, <2>1, <2>2, <2>3
<1>2. ~(q < p) /\ ~(p < q)
  BY <1>1
<1>3. q = p
  BY <1>2
<1>4. n * q \in Int
  OBVIOUS
<1> QED BY <1>3, <1>4

\* A multiple leaves no remainder, and the other way round.
LEMMA Multiple ==
    ASSUME NEW a \in Int, NEW n \in Nat \ {0}
    PROVE  a % n = 0 <=> \E k \in Int : a = n * k
<1>1. ASSUME a % n = 0 PROVE \E k \in Int : a = n * k
  <2> DEFINE q == a \div n
  <2>1. q \in Int /\ a = n * q + 0
    BY <1>1, DivMod
  <2> HIDE DEF q
  <2>2. n * q \in Int
    BY <2>1
  <2>3. a = n * q
    BY <2>1, <2>2
  <2> QED BY <2>1, <2>3
<1>2. ASSUME NEW k \in Int, a = n * k PROVE a % n = 0
  <2> DEFINE q == a \div n
             r == a % n
  <2>1. q \in Int /\ r \in 0..(n - 1) /\ a = n * q + r
    BY DivMod
  <2> HIDE DEF q, r
  <2>2. 0 \in 0..(n - 1)
    OBVIOUS
  <2>3. n * k = n * q + r
    BY <1>2, <2>1
  <2>4. n * k \in Int
    OBVIOUS
  <2>5. n * k + 0 = n * q + r
    BY <2>3, <2>4
  <2>6. 0 = r
    BY <2>1, <2>2, <2>5, DivModUnique
  <2> QED BY <2>6 DEF r
<1> QED BY <1>1, <1>2

\* Two multiples are a multiple apart.
LEMMA MultiplesApart ==
    ASSUME NEW a \in Int, NEW b \in Int, NEW n \in Nat \ {0}, a % n = 0
    PROVE  b % n = 0 <=> (b - a) % n = 0
<1>1. PICK k \in Int : a = n * k
  BY Multiple
<1>2. ASSUME NEW j \in Int, b = n * j PROVE b - a = n * (j - k)
  BY <1>1, <1>2
<1>3. ASSUME NEW j \in Int, b - a = n * j PROVE b = n * (j + k)
  <2>1. n * (j + k) = n * j + n * k
    OBVIOUS
  <2>2. n * j \in Int /\ n * k \in Int
    OBVIOUS
  <2> QED BY <1>1, <1>3, <2>1, <2>2
<1>4. b - a \in Int
  OBVIOUS
<1>5. ASSUME b % n = 0 PROVE (b - a) % n = 0
  <2>1. PICK j \in Int : b = n * j
    BY <1>5, Multiple
  <2>2. j - k \in Int /\ b - a = n * (j - k)
    BY <1>2, <2>1
  <2> QED BY <1>4, <2>2, Multiple
<1>6. ASSUME (b - a) % n = 0 PROVE b % n = 0
  <2>1. PICK j \in Int : b - a = n * j
    BY <1>4, <1>6, Multiple
  <2>2. j + k \in Int /\ b = n * (j + k)
    BY <1>3, <2>1
  <2> QED BY <2>2, Multiple
<1> QED BY <1>5, <1>6

\* A product is divided by its factor.
LEMMA DivCancel ==
    ASSUME NEW n \in Nat \ {0}, NEW k \in Int
    PROVE  (n * k) \div n = k
<1> DEFINE q == (n * k) \div n
           r == (n * k) % n
<1>1. n * k \in Int /\ 0 \in 0..(n - 1)
  OBVIOUS
<1>2. q \in Int /\ r \in 0..(n - 1) /\ n * k = n * q + r
  BY <1>1, DivMod
<1> HIDE DEF q, r
<1>3. n * k + 0 = n * q + r
  BY <1>1, <1>2
<1>4. k = q
  BY <1>1, <1>2, <1>3, DivModUnique
<1> QED BY <1>4 DEF q

\* Later numbers have no smaller quotients.
LEMMA DivGrows ==
    ASSUME NEW n \in Nat \ {0}, NEW a \in Nat, NEW b \in Nat, a <= b
    PROVE  /\ a \div n \in Nat /\ b \div n \in Nat
           /\ a \div n <= b \div n /\ b \div n <= b
<1> DEFINE p == a \div n
           q == b \div n
           r == a % n
           s == b % n
<1>1. p \in Int /\ r \in 0..(n - 1) /\ a = n * p + r
  BY DivMod
<1>2. q \in Int /\ s \in 0..(n - 1) /\ b = n * q + s
  BY DivMod
<1> HIDE DEF p, q, r, s
<1>3. ASSUME NEW c \in Nat, NEW x \in Int, NEW y \in 0..(n - 1), c = n * x + y
      PROVE  x \in Nat /\ x <= c
  <2>1. n * x \in Int
    BY <1>3
  <2>2. CASE x < 0
    <3>1. n * x <= n * (-1) /\ n * (-1) = -n
      BY <1>3, <2>2
    <3> QED BY <1>3, <2>1, <3>1
  <2>3. CASE x >= 0
    <3>1. n * x >= 1 * x /\ 1 * x = x
      BY <1>3, <2>3
    <3> QED BY <1>3, <2>1, <2>3, <3>1
  <2> QED BY <2>2, <2>3
<1>4. p \in Nat /\ q \in Nat /\ q <= b
  BY <1>1, <1>2, <1>3
<1>5. ASSUME q + 1 <= p PROVE FALSE
  <2>1. n * (q + 1) <= n * p
    BY <1>4, <1>5
  <2>2. n * (q + 1) = n * q + n
    BY <1>4
  <2>3. n * q \in Int /\ n * p \in Int
    BY <1>4
  <2> QED BY <1>1, <1>2, <2>1, <2>2, <2>3
<1>6. p <= q
  BY <1>4, <1>5
<1> QED BY <1>4, <1>6 DEF p, q

\* A set of dates has a first one.
LEMMA MinIs ==
    ASSUME NEW S \in SUBSET Nat, S # {}
    PROVE  Min(S) \in S /\ \A y \in S : Min(S) <= y
<1> DEFINE P == {n \in Nat : \A y \in S : n <= y}
<1>1. \E x \in S : \A y \in S : x <= y
  <2> SUFFICES ASSUME \A x \in S : \E y \in S : y < x PROVE FALSE
    OBVIOUS
  <2>1. 0 \in P
    OBVIOUS
  <2>2. ASSUME NEW k \in P PROVE k + 1 \in P
    <3>1. k \notin S
      BY <2>2
    <3> QED BY <2>2, <3>1
  <2>3. P = Nat
    <3>1. P \in SUBSET Nat
      OBVIOUS
    <3> HIDE DEF P
    <3> QED BY <2>1, <2>2, <3>1, Induction
  <2>4. PICK x : x \in S
    OBVIOUS
  <2>5. x + 1 \in P
    BY <2>3, <2>4
  <2> QED BY <2>4, <2>5
<1> QED BY <1>1 DEF Min
=============================================================================
