---------------------------- MODULE DataInduction ----------------------------
(***************************************************************************)
(* Induction over data for the proofs about recursive functions: the       *)
(* library's induction theorems take an operator as a parameter; these     *)
(* take sets and functions instead.  The greatest and the least of a set   *)
(* of numbers, that CHOOSE picks, and sums over finite sets, that          *)
(* MapThenSumSet takes one chosen element at a time.                       *)
(***************************************************************************)
EXTENDS Naturals, FiniteSetsExt, FiniteSetTheorems, WellFoundedInduction, TLAPS

\* A set of naturals with 0 and every successor is all of them.
LEMMA NatSetInduction ==
  ASSUME NEW S \in SUBSET Nat, 0 \in S, \A n \in S : n + 1 \in S
  PROVE  S = Nat
  <1> SUFFICES ASSUME S # Nat PROVE FALSE
    OBVIOUS
  <1> DEFINE T == Nat \ S
             R == OpToRel(<, Nat)
  <1>1. T \subseteq Nat /\ T # {}
    OBVIOUS
  <1>2. IsWellFoundedOn(R, Nat)
    BY NatLessThanWellFounded
  <1> HIDE DEF R
  <1>3. PICK x \in T : \A y \in T : <<y, x>> \notin R
    BY <1>1, <1>2, WFMin
  <1>4. x \in Nat /\ x # 0 /\ x - 1 \in Nat
    OBVIOUS
  <1>5. <<x - 1, x>> \in R
    BY <1>4 DEF R, OpToRel
  <1>6. x - 1 \in S
    BY <1>3, <1>4, <1>5
  <1> QED
    BY <1>3, <1>4, <1>6

\* The same up to a bound, as loops over a sequence need it.
LEMMA PrefixInduction ==
  ASSUME NEW L \in Nat, NEW S, 0 \in S, \A n \in 1..L : n - 1 \in S => n \in S
  PROVE  0..L \subseteq S
  <1> DEFINE T == {n \in Nat : n <= L => n \in S}
  <1>1. 0 \in T
    OBVIOUS
  <1>2. ASSUME NEW n \in T PROVE n + 1 \in T
    <2>1. CASE n + 1 <= L
      <3>1. n \in Nat /\ n \in S /\ n + 1 \in 1..L /\ (n + 1) - 1 = n
        BY <1>2, <2>1
      <3> QED
        BY <3>1
    <2>2. CASE ~(n + 1 <= L)
      BY <2>2
    <2> QED
      BY <2>1, <2>2
  <1> HIDE DEF T
  <1>3. T \in SUBSET Nat
    BY DEF T
  <1>4. T = Nat
    BY <1>1, <1>2, <1>3, NatSetInduction
  <1> QED
    BY <1>4 DEF T

\* g begins with start, and up to m each value follows from the one before.
Unfolds(g, m, start, next) ==
  g[0] = start /\ \A n \in 1..m : g[n] = next[n][g[n - 1]]

\* A function defined along a prefix of the naturals, each value from the one before,
\* exists.
LEMMA PrefixRecursion ==
  ASSUME NEW L \in Nat, NEW Q, NEW start \in Q, NEW next \in [1..L -> [Q -> Q]]
  PROVE  \E g \in [0..L -> Q] : Unfolds(g, L, start, next)
  <1> DEFINE S == {m \in 0..L : \E g \in [0..L -> Q] : Unfolds(g, m, start, next)}
  <1>1. 0 \in S
    <2> DEFINE g == [n \in 0..L |-> start]
    <2>1. g \in [0..L -> Q] /\ Unfolds(g, 0, start, next) /\ 0 \in 0..L
      BY DEF Unfolds
    <2> HIDE DEF g
    <2> QED
      BY <2>1
  <1>2. ASSUME NEW m \in 1..L, m - 1 \in S PROVE m \in S
    <2>1. PICK g \in [0..L -> Q] : Unfolds(g, m - 1, start, next)
      BY <1>2
    <2> DEFINE h == [g EXCEPT ![m] = next[m][g[m - 1]]]
    <2>2. m - 1 \in 0..L /\ m \in 0..L /\ m # 0 /\ m # m - 1
      OBVIOUS
    <2>3. next[m][g[m - 1]] \in Q
      BY <2>2
    <2>4. h \in [0..L -> Q] /\ h[0] = start /\ h[m] = next[m][h[m - 1]]
      BY <2>1, <2>2, <2>3 DEF Unfolds
    <2>5. ASSUME NEW n \in 1..m - 1 PROVE h[n] = next[n][h[n - 1]]
      <3>1. n \in 0..L /\ n - 1 \in 0..L /\ n # m /\ n - 1 # m
        OBVIOUS
      <3> QED
        BY <2>1, <3>1 DEF Unfolds
    <2> HIDE DEF h
    <2>6. \A n \in 1..m : h[n] = next[n][h[n - 1]]
      <3>1. \A n \in 1..m : n = m \/ n \in 1..m - 1
        OBVIOUS
      <3> QED
        BY <2>4, <2>5, <3>1
    <2>7. h \in [0..L -> Q] /\ Unfolds(h, m, start, next) /\ m \in 0..L
      BY <2>2, <2>4, <2>6 DEF Unfolds
    <2> QED
      BY <2>7
  <1>3. L \in S
    <2> HIDE DEF S
    <2>1. 0..L \subseteq S
      BY <1>1, <1>2, PrefixInduction
    <2> QED
      BY <2>1
  <1> QED
    BY <1>3
-----------------------------------------------------------------------------
(* The greatest and the least element of a set of numbers.                  *)

LEMMA MaxFact ==
  ASSUME NEW S, NEW x \in S, x \in Nat, \A y \in S : y \in Nat /\ y <= x
  PROVE  Max(S) = x
  <1>1. x \in S /\ \A y \in S : x >= y
    OBVIOUS
  <1>2. Max(S) \in S /\ \A y \in S : Max(S) >= y
    BY <1>1 DEF Max
  <1>3. Max(S) \in Nat /\ Max(S) <= x /\ Max(S) >= x
    BY <1>2
  <1> QED
    BY <1>3

LEMMA MaxOfTwo ==
  ASSUME NEW a \in Nat, NEW b \in Nat
  PROVE  Max({a, b}) \in Nat /\ Max({a, b}) >= a /\ Max({a, b}) >= b
  <1>1. CASE a <= b
    <2>1. \A y \in {a, b} : y \in Nat /\ y <= b
      BY <1>1
    <2>2. Max({a, b}) = b
      BY <2>1, MaxFact
    <2> QED
      BY <1>1, <2>2
  <1>2. CASE b <= a
    <2>1. \A y \in {a, b} : y \in Nat /\ y <= a
      BY <1>2
    <2>2. Max({a, b}) = a
      BY <2>1, MaxFact
    <2> QED
      BY <1>2, <2>2
  <1> QED
    BY <1>1, <1>2

\* A set of numbers that is not empty has a least one.
LEMMA MinFact ==
  ASSUME NEW S \in SUBSET Nat, S # {}
  PROVE  Min(S) \in S /\ \A y \in S : Min(S) <= y
  <1>1. \E x \in S : \A y \in S : x <= y
    <2> DEFINE R == OpToRel(<, Nat)
    <2>1. IsWellFoundedOn(R, Nat)
      BY NatLessThanWellFounded
    <2> HIDE DEF R
    <2>2. PICK x \in S : \A y \in S : <<y, x>> \notin R
      BY <2>1, WFMin
    <2>3. \A y \in S : ~(y < x)
      <3> SUFFICES ASSUME NEW y \in S, y < x PROVE FALSE
        OBVIOUS
      <3>1. <<y, x>> \in R
        BY DEF R, OpToRel
      <3> QED
        BY <2>2, <3>1
    <2>4. \A y \in S : x <= y
      BY <2>3
    <2> QED
      BY <2>4
  <1> QED
    BY <1>1 DEF Min
-----------------------------------------------------------------------------
(* Sums over finite sets.                                                   *)

\* What MapThenSumSet takes from the sum of f over s, and adds up with the rest.
Taken(s) == CHOOSE x \in s : TRUE

\* g sums f over the subsets of S, as MapThenSumSet defines it.
Sums(g, S, f) ==
  g = [s \in SUBSET S |-> IF s = {} THEN 0 ELSE f[Taken(s)] + g[s \ {Taken(s)}]]

LEMMA TakenFact ==
  ASSUME NEW s, s # {}
  PROVE  Taken(s) \in s
  BY DEF Taken

\* One element less.
LEMMA RestFact ==
  ASSUME NEW s, IsFiniteSet(s), NEW x \in s
  PROVE  /\ IsFiniteSet(s \ {x}) /\ Cardinality(s) \in Nat \ {0}
         /\ Cardinality(s \ {x}) = Cardinality(s) - 1
  <1>1. Cardinality(s) \in Nat /\ Cardinality(s) # 0
    BY FS_CardinalityType, FS_EmptySet
  <1>2. IsFiniteSet(s \ {x}) /\ Cardinality(s \ {x}) = Cardinality(s) - 1
    BY FS_RemoveElement
  <1> QED
    BY <1>1, <1>2

\* Induction over the subsets of a finite set.
LEMMA SubsetInduction ==
  ASSUME NEW S, IsFiniteSet(S), NEW P \in SUBSET (SUBSET S),
         \A s \in SUBSET S : (\A x \in s : s \ {x} \in P) => s \in P
  PROVE  P = SUBSET S
  <1> DEFINE N == {n \in Nat : \A s \in SUBSET S : Cardinality(s) = n => s \in P}
  <1>1. 0 \in N
    <2>1. ASSUME NEW s \in SUBSET S, Cardinality(s) = 0 PROVE s \in P
      <3>1. IsFiniteSet(s)
        BY FS_Subset
      <3>2. s = {}
        BY <2>1, <3>1, FS_EmptySet
      <3> QED
        BY <3>2
    <2> QED
      BY <2>1
  <1>2. ASSUME NEW n \in N PROVE n + 1 \in N
    <2>1. ASSUME NEW s \in SUBSET S, Cardinality(s) = n + 1 PROVE s \in P
      <3>1. IsFiniteSet(s)
        BY FS_Subset
      <3>2. ASSUME NEW x \in s PROVE s \ {x} \in P
        <4>1. Cardinality(s \ {x}) = n /\ s \ {x} \in SUBSET S
          BY <2>1, <3>1, RestFact
        <4> QED
          BY <4>1
      <3> QED
        BY <3>2
    <2> QED
      BY <2>1
  <1>3. N = Nat
    <2> HIDE DEF N
    <2>1. N \in SUBSET Nat
      BY DEF N
    <2> QED
      BY <1>1, <1>2, <2>1, NatSetInduction
  <1>4. ASSUME NEW s \in SUBSET S PROVE s \in P
    <2>1. Cardinality(s) \in N
      BY <1>3, FS_Subset, FS_CardinalityType
    <2> QED
      BY <2>1
  <1> QED
    BY <1>4

\* The sum exists.
LEMMA SumExists ==
  ASSUME NEW S, IsFiniteSet(S), NEW f \in [S -> Nat]
  PROVE  \E g \in [SUBSET S -> Nat] : Sums(g, S, f)
  <1> DEFINE Good(g, n) ==
        \A s \in SUBSET S : Cardinality(s) <= n =>
          g[s] = IF s = {} THEN 0 ELSE f[Taken(s)] + g[s \ {Taken(s)}]
      N == {n \in Nat : \E g \in [SUBSET S -> Nat] : Good(g, n)}
  <1>0. \A s \in SUBSET S : IsFiniteSet(s) /\ Cardinality(s) \in Nat
    BY FS_Subset, FS_CardinalityType
  <1>1. 0 \in N
    <2> DEFINE g == [s \in SUBSET S |-> 0]
    <2>1. g \in [SUBSET S -> Nat]
      OBVIOUS
    <2>2. ASSUME NEW s \in SUBSET S, Cardinality(s) <= 0 PROVE s = {} /\ g[s] = 0
      <3>1. Cardinality(s) = 0
        BY <1>0, <2>2
      <3> QED
        BY <3>1, <1>0, FS_EmptySet
    <2>3. Good(g, 0)
      BY <2>2
    <2> HIDE DEF Good, g
    <2> QED
      BY <2>1, <2>3
  <1>2. ASSUME NEW n \in N PROVE n + 1 \in N
    <2>1. PICK g \in [SUBSET S -> Nat] : Good(g, n)
      OBVIOUS
    <2> DEFINE h == [s \in SUBSET S |->
                       IF Cardinality(s) = n + 1 THEN f[Taken(s)] + g[s \ {Taken(s)}] ELSE g[s]]
    <2>2. \A s \in SUBSET S : s # {} =>
            /\ Taken(s) \in S /\ f[Taken(s)] \in Nat
            /\ s \ {Taken(s)} \in SUBSET S /\ g[s \ {Taken(s)}] \in Nat
            /\ Cardinality(s \ {Taken(s)}) = Cardinality(s) - 1
      BY <1>0, TakenFact, RestFact
    <2>3. \A s \in SUBSET S : Cardinality(s) = n + 1 => s # {}
      <3>1. n \in Nat /\ n + 1 # 0
        OBVIOUS
      <3>2. ASSUME NEW s \in SUBSET S, Cardinality(s) = n + 1, s = {} PROVE FALSE
        BY <3>1, <3>2, FS_EmptySet
      <3> QED
        BY <3>2
    <2>4. h \in [SUBSET S -> Nat]
      BY <2>2, <2>3
    <2>5. ASSUME NEW s \in SUBSET S, Cardinality(s) <= n + 1
          PROVE  h[s] = IF s = {} THEN 0 ELSE f[Taken(s)] + h[s \ {Taken(s)}]
      <3>1. s # {} => /\ s \ {Taken(s)} \in SUBSET S
                      /\ Cardinality(s \ {Taken(s)}) # n + 1
                      /\ h[s \ {Taken(s)}] = g[s \ {Taken(s)}]
        BY <2>2, <2>5, <1>0
      <3>2. CASE Cardinality(s) = n + 1
        BY <3>1, <3>2, <2>3
      <3>3. CASE Cardinality(s) # n + 1
        <4>1. Cardinality(s) <= n /\ h[s] = g[s]
          BY <3>3, <2>5, <1>0
        <4>2. g[s] = IF s = {} THEN 0 ELSE f[Taken(s)] + g[s \ {Taken(s)}]
          BY <4>1, <2>1
        <4> QED
          BY <4>1, <4>2, <3>1
      <3> QED
        BY <3>2, <3>3
    <2>6. Good(h, n + 1)
      BY <2>5
    <2> HIDE DEF Good, h
    <2> QED
      BY <2>4, <2>6
  <1>3. N = Nat
    <2> HIDE DEF N
    <2>1. N \in SUBSET Nat
      BY DEF N
    <2> QED
      BY <1>1, <1>2, <2>1, NatSetInduction
  <1>4. PICK g \in [SUBSET S -> Nat] : Good(g, Cardinality(S))
    <2>1. Cardinality(S) \in N
      BY <1>3, FS_CardinalityType
    <2> QED
      BY <2>1
  <1>5. \A s \in SUBSET S : Cardinality(s) <= Cardinality(S)
    BY FS_Subset
  <1>6. \A s \in SUBSET S :
          g[s] = IF s = {} THEN 0 ELSE f[Taken(s)] + g[s \ {Taken(s)}]
    BY <1>4, <1>5
  <1> QED
    BY <1>6 DEF Sums

\* It is a number.
LEMMA SumType ==
  ASSUME NEW S, IsFiniteSet(S), NEW f \in [S -> Nat], NEW g, Sums(g, S, f)
  PROVE  g \in [SUBSET S -> Nat]
  <1> DEFINE P == {s \in SUBSET S : g[s] \in Nat}
  <1>1. \A s \in SUBSET S : g[s] = IF s = {} THEN 0 ELSE f[Taken(s)] + g[s \ {Taken(s)}]
    BY DEF Sums
  <1>2. ASSUME NEW s \in SUBSET S, \A x \in s : s \ {x} \in P PROVE s \in P
    <2>1. CASE s = {}
      BY <2>1, <1>1
    <2>2. CASE s # {}
      <3>1. Taken(s) \in s
        BY <2>2, TakenFact
      <3>2. g[s \ {Taken(s)}] \in Nat /\ f[Taken(s)] \in Nat
        BY <3>1, <1>2
      <3>3. g[s] = f[Taken(s)] + g[s \ {Taken(s)}]
        BY <2>2, <1>1
      <3>4. g[s] \in Nat
        BY <3>2, <3>3
      <3> QED
        BY <3>4
    <2> QED
      BY <2>1, <2>2
  <1>3. P = SUBSET S
    <2> HIDE DEF P
    <2>1. P \in SUBSET (SUBSET S)
      BY DEF P
    <2> QED
      BY <1>2, <2>1, SubsetInduction
  <1>4. \A s \in SUBSET S : g[s] \in Nat
    BY <1>3
  <1> QED
    BY <1>4 DEF Sums

\* Any element may be taken first.
LEMMA SumSplits ==
  ASSUME NEW S, IsFiniteSet(S), NEW f \in [S -> Nat], NEW g, Sums(g, S, f)
  PROVE  \A s \in SUBSET S : \A e \in s : g[s] = f[e] + g[s \ {e}]
  <1> DEFINE P == {s \in SUBSET S : \A e \in s : g[s] = f[e] + g[s \ {e}]}
  <1>1. \A s \in SUBSET S : g[s] = IF s = {} THEN 0 ELSE f[Taken(s)] + g[s \ {Taken(s)}]
    BY DEF Sums
  <1>2. \A s \in SUBSET S : g[s] \in Nat
    <2>1. g \in [SUBSET S -> Nat]
      BY SumType
    <2> QED
      BY <2>1
  <1>3. ASSUME NEW s \in SUBSET S, \A x \in s : s \ {x} \in P PROVE s \in P
    <2>1. ASSUME NEW e \in s PROVE g[s] = f[e] + g[s \ {e}]
      <3>1. PICK x : x = Taken(s)
        OBVIOUS
      <3>2. x \in s /\ g[s] = f[x] + g[s \ {x}]
        BY <2>1, <3>1, <1>1, TakenFact
      <3>3. CASE x = e
        BY <3>2, <3>3
      <3>4. CASE x # e
        <4>1. PICK a, b, c : a = s \ {x} /\ b = s \ {e} /\ c = (s \ {x}) \ {e}
          OBVIOUS
        <4>2. b \ {x} = c /\ a \ {e} = c /\ e \in a /\ x \in b
          BY <4>1, <3>2, <3>4, <2>1
        <4>3. a \in P /\ b \in P /\ a \in SUBSET S /\ b \in SUBSET S /\ c \in SUBSET S
          BY <4>1, <3>2, <1>3, <2>1
        <4>4. g[a] = f[e] + g[c] /\ g[b] = f[x] + g[c]
          BY <4>2, <4>3
        <4>5. g[s] = f[x] + g[a]
          BY <4>1, <3>2
        <4>6. f[e] \in Nat /\ f[x] \in Nat /\ g[a] \in Nat /\ g[b] \in Nat /\ g[c] \in Nat
          BY <4>3, <3>2, <2>1, <1>2
        <4>7. g[s] = f[e] + g[b]
          BY ONLY <4>4, <4>5, <4>6
        <4> QED
          BY <4>7, <4>1
      <3> QED
        BY <3>3, <3>4
    <2> QED
      BY <2>1
  <1>4. P = SUBSET S
    <2> HIDE DEF P
    <2>1. P \in SUBSET (SUBSET S)
      BY DEF P
    <2> QED
      BY <1>3, <2>1, SubsetInduction
  <1> QED
    BY <1>4

\* The sum over a set is the same as part of a greater one.
LEMMA SumsAgree ==
  ASSUME NEW S, IsFiniteSet(S), NEW f \in [S -> Nat], NEW g, Sums(g, S, f),
         NEW T \in SUBSET S, NEW k \in [T -> Nat], \A x \in T : k[x] = f[x],
         NEW h, Sums(h, T, k)
  PROVE  \A s \in SUBSET T : h[s] = g[s]
  <1> DEFINE P == {s \in SUBSET T : h[s] = g[s]}
  <1>1. \A s \in SUBSET S : g[s] = IF s = {} THEN 0 ELSE f[Taken(s)] + g[s \ {Taken(s)}]
    BY DEF Sums
  <1>2. \A s \in SUBSET T : h[s] = IF s = {} THEN 0 ELSE k[Taken(s)] + h[s \ {Taken(s)}]
    BY DEF Sums
  <1>3. ASSUME NEW s \in SUBSET T, \A x \in s : s \ {x} \in P PROVE s \in P
    <2>1. CASE s = {}
      BY <2>1, <1>1, <1>2
    <2>2. CASE s # {}
      <3>1. Taken(s) \in s
        BY <2>2, TakenFact
      <3>2. h[s \ {Taken(s)}] = g[s \ {Taken(s)}] /\ k[Taken(s)] = f[Taken(s)]
        BY <3>1, <1>3
      <3>3. s \in SUBSET S
        OBVIOUS
      <3> QED
        BY <2>2, <3>2, <3>3, <1>1, <1>2
    <2> QED
      BY <2>1, <2>2
  <1>4. P = SUBSET T
    <2> HIDE DEF P
    <2>1. P \in SUBSET (SUBSET T)
      BY DEF P
    <2>2. IsFiniteSet(T)
      BY FS_Subset
    <2> QED
      BY <1>3, <2>1, <2>2, SubsetInduction
  <1> QED
    BY <1>4

\* A sum of numbers below a limit.
LEMMA SumBound ==
  ASSUME NEW S, IsFiniteSet(S), NEW f \in [S -> Nat], NEW g, Sums(g, S, f),
         NEW limit \in Nat, \A x \in S : f[x] <= limit
  PROVE  \A s \in SUBSET S : g[s] <= Cardinality(s) * limit
  <1> DEFINE P == {s \in SUBSET S : g[s] <= Cardinality(s) * limit}
  <1>1. \A s \in SUBSET S : g[s] = IF s = {} THEN 0 ELSE f[Taken(s)] + g[s \ {Taken(s)}]
    BY DEF Sums
  <1>2. \A s \in SUBSET S : g[s] \in Nat
    <2>1. g \in [SUBSET S -> Nat]
      BY SumType
    <2> QED
      BY <2>1
  <1>3. ASSUME NEW s \in SUBSET S, \A x \in s : s \ {x} \in P PROVE s \in P
    <2>1. CASE s = {}
      <3>1. g[s] = 0
        BY <2>1, <1>1
      <3>2. Cardinality(s) = 0
        BY <2>1, FS_EmptySet
      <3>3. 0 * limit = 0
        OBVIOUS
      <3> QED
        BY <3>1, <3>2, <3>3
    <2>2. CASE s # {}
      <3>1. PICK x : x = Taken(s)
        OBVIOUS
      <3>2. x \in s /\ g[s] = f[x] + g[s \ {x}] /\ s \ {x} \in SUBSET S
        BY <2>2, <3>1, <1>1, TakenFact
      <3>3. IsFiniteSet(s)
        BY FS_Subset
      <3>4. PICK n \in Nat : n + 1 = Cardinality(s) /\ n = Cardinality(s \ {x})
        BY <3>2, <3>3, RestFact
      <3>5. g[s \ {x}] <= n * limit /\ f[x] <= limit
        BY <3>2, <3>4, <1>3
      <3>6. n * limit \in Nat /\ (n + 1) * limit = n * limit + limit
        OBVIOUS
      <3>7. f[x] \in Nat /\ g[s \ {x}] \in Nat
        BY <3>2, <1>2
      <3>8. g[s] <= (n + 1) * limit
        BY ONLY <3>2, <3>5, <3>6, <3>7, limit \in Nat
      <3> QED
        BY <3>4, <3>8
    <2> QED
      BY <2>1, <2>2
  <1>4. P = SUBSET S
    <2> HIDE DEF P
    <2>1. P \in SUBSET (SUBSET S)
      BY DEF P
    <2> QED
      BY <1>3, <2>1, SubsetInduction
  <1> QED
    BY <1>4

\* Used for bounds on sums.
LEMMA ProductGrows ==
  ASSUME NEW a \in Nat, NEW b \in Nat, NEW n \in Nat, a <= b
  PROVE  a * n <= b * n
  <1> DEFINE S == {m \in Nat : a * m <= b * m}
  <1>1. 0 \in S
    OBVIOUS
  <1>2. ASSUME NEW m \in S PROVE m + 1 \in S
    <2>1. /\ a * (m + 1) = a * m + a /\ b * (m + 1) = b * m + b
          /\ a * m \in Nat /\ b * m \in Nat /\ a * m <= b * m
      OBVIOUS
    <2> QED
      BY <2>1
  <1>3. S = Nat
    <2> HIDE DEF S
    <2>1. S \in SUBSET Nat
      BY DEF S
    <2> QED
      BY <1>1, <1>2, <2>1, NatSetInduction
  <1> QED
    BY <1>3

=============================================================================
