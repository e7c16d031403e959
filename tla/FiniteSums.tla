------------------------------ MODULE FiniteSums ------------------------------
(***************************************************************************)
(* Facts about numbers and finite sets for the proofs: induction, stated   *)
(* for sets, and what SumFunction of the module Functions adds up to.      *)
(***************************************************************************)
EXTENDS FiniteSetTheorems, WellFoundedInduction, TLAPS

-----------------------------------------------------------------------------
(* Induction over numbers, for sets *)

\* A set of numbers that is not empty has a least element: the sets 0 .. n - 1
\* are finite and ordered by inclusion, which is well-founded.
LEMMA LeastNumber ==
  ASSUME NEW T \in SUBSET Nat, T # {}
  PROVE  \E n \in T : \A m \in T : n <= m
<1> DEFINE Below(n) == 0 .. n - 1
           B == {Below(n) : n \in T}
<1>1. B \subseteq FiniteSubsetsOf(Nat)
  <2>1. SUFFICES ASSUME NEW n \in T PROVE Below(n) \in FiniteSubsetsOf(Nat)
    OBVIOUS
  <2>2. 0 \in Int /\ n - 1 \in Int
    OBVIOUS
  <2>3. IsFiniteSet(0 .. n - 1)
    BY <2>2, FS_Interval
  <2>4. 0 .. n - 1 \in SUBSET Nat
    OBVIOUS
  <2>5. QED
    BY <2>3, <2>4 DEF FiniteSubsetsOf
<1>2. B # {}
  OBVIOUS
<1>3. \E x \in B : \A y \in B : <<y, x>> \notin StrictSubsetOrdering(Nat)
  <2> HIDE DEF B
  <2> QED
    BY <1>1, <1>2, FS_StrictSubsetOrderingWellFounded, WFMin
<1>4. PICK n \in T : \A y \in B : <<y, Below(n)>> \notin StrictSubsetOrdering(Nat)
  BY <1>3
<1>5. ASSUME NEW m \in T PROVE n <= m
  <2>1. SUFFICES ASSUME m < n PROVE FALSE
    OBVIOUS
  <2>2. Below(m) \subseteq Below(n) /\ m \in Below(n) /\ m \notin Below(m)
    BY <2>1
  <2>3. <<Below(m), Below(n)>> \in StrictSubsetOrdering(Nat)
    BY <2>2 DEF StrictSubsetOrdering
  <2>4. QED
    BY <1>4, <2>3
<1>6. QED
  BY <1>5

\* The numbers up to n all belong to a set that has 0 and, with a number below
\* n, the next one.
LEMMA Induction ==
  ASSUME NEW n \in Nat, NEW S, 0 \in S,
         \A i \in 0 .. n - 1 : i \in S => i + 1 \in S
  PROVE  0 .. n \subseteq S
<1> DEFINE T == (0 .. n) \ S
<1>1. SUFFICES ASSUME T # {} PROVE FALSE
  OBVIOUS
<1>2. T \in SUBSET Nat
  OBVIOUS
<1>3. PICK m \in T : \A k \in T : m <= k
  <2> HIDE DEF T
  <2> QED
    BY <1>1, <1>2, LeastNumber
<1>4. m \in 0 .. n /\ m \notin S /\ m # 0
  BY <1>3
<1>5. m - 1 \in 0 .. n - 1 /\ m - 1 \notin T
  BY <1>3, <1>4
<1>6. m - 1 \in S
  BY <1>5
<1>7. (m - 1) + 1 \in S
  BY <1>5, <1>6
<1>8. QED
  BY <1>4, <1>7

-----------------------------------------------------------------------------
(* Sums over finite sets *)

\* A property of the empty set that a set has if it has it without any of its
\* elements is one of every finite set.
LEMMA SubsetInduction ==
  ASSUME NEW S, IsFiniteSet(S), NEW T,
         \A s \in SUBSET S : (\A x \in s : s \ {x} \in T) => s \in T
  PROVE  S \in T
<1> DEFINE B == {s \in SUBSET S : s \notin T}
<1>1. SUFFICES ASSUME B # {} PROVE FALSE
  OBVIOUS
<1>2. B \subseteq FiniteSubsetsOf(S)
  <2>1. \A s \in SUBSET S : IsFiniteSet(s)
    BY FS_Subset
  <2>2. QED
    BY <2>1 DEF FiniteSubsetsOf
<1>3. PICK s \in B : \A t \in B : <<t, s>> \notin StrictSubsetOrdering(S)
  <2> HIDE DEF B
  <2> QED
    BY <1>1, <1>2, FS_StrictSubsetOrderingWellFounded, WFMin
<1>4. ASSUME NEW x \in s PROVE s \ {x} \in T
  <2>1. <<s \ {x}, s>> \in StrictSubsetOrdering(S)
    BY DEF StrictSubsetOrdering
  <2>2. QED
    BY <1>3, <2>1
<1>5. QED
  BY <1>4

\* The function by which SumFunction adds up.
IsSum(h, f, S) ==
  h = [s \in SUBSET S |-> IF s = {} THEN 0
                          ELSE LET x == CHOOSE x \in s : TRUE
                               IN  f[x] + h[s \ {x}]]

LEMMA SumUnfold ==
  ASSUME NEW f
  PROVE  SumFunction(f) = (CHOOSE h : IsSum(h, f, DOMAIN f))[DOMAIN f]
BY DEF SumFunction, SumFunctionOnSet, FoldFunctionOnSet, MapThenFoldSet, IsSum

LEMMA SumExists ==
  ASSUME NEW S, IsFiniteSet(S), NEW f
  PROVE  \E h : IsSum(h, f, S)
<1> DEFINE N == Cardinality(S)
           Small(n) == {s \in SUBSET S : Cardinality(s) <= n}
           Rule(h, s) == IF s = {} THEN 0
                         ELSE LET x == CHOOSE x \in s : TRUE IN f[x] + h[s \ {x}]
           Has(n) == \E h : h = [s \in Small(n) |-> Rule(h, s)]
           T == {n \in 0 .. N : Has(n)}
<1>1. /\ N \in Nat
      /\ \A s \in SUBSET S : /\ IsFiniteSet(s) /\ Cardinality(s) \in Nat
                             /\ Cardinality(s) <= N
                             /\ Cardinality(s) = 0 <=> s = {}
                             /\ \A x \in s : Cardinality(s \ {x}) = Cardinality(s) - 1
  BY FS_Subset, FS_CardinalityType, FS_EmptySet, FS_RemoveElement
<1>2. 0 \in T
  <2> DEFINE h == [s \in Small(0) |-> 0]
  <2>1. \A s \in Small(0) : Rule(h, s) = 0
    BY <1>1
  <2>2. h = [s \in Small(0) |-> Rule(h, s)]
    BY <2>1
  <2> HIDE DEF h, Rule
  <2>3. Has(0)
    BY <2>2
  <2>4. 0 \in 0 .. N
    BY <1>1
  <2> HIDE DEF Has, N
  <2>5. QED
    BY <2>3, <2>4
<1>3. ASSUME NEW n \in 0 .. N - 1, n \in T PROVE n + 1 \in T
  <2>1. n \in Nat /\ n + 1 \in 0 .. N
    BY <1>1
  <2>2. PICK h : h = [s \in Small(n) |-> Rule(h, s)]
    BY <1>3
  <2> DEFINE g == [s \in Small(n + 1) |-> Rule(h, s)]
  <2>3. \A s \in Small(n) : s \in Small(n + 1) /\ g[s] = h[s]
    <3>1. \A s \in Small(n) : s \in Small(n + 1)
      BY <1>1, <2>1
    <3>2. \A s \in Small(n) : h[s] = Rule(h, s)
      <4> HIDE DEF Rule, Small
      <4> QED
        BY <2>2
    <3>3. \A s \in Small(n + 1) : g[s] = Rule(h, s)
      <4> HIDE DEF Rule, Small
      <4> QED
        OBVIOUS
    <3> HIDE DEF Rule, Small, g
    <3>4. QED
      BY <3>1, <3>2, <3>3
  <2>4. ASSUME NEW s \in Small(n + 1) PROVE Rule(h, s) = Rule(g, s)
    <3>1. CASE s = {}
      BY <3>1
    <3>2. CASE s # {}
      <4> DEFINE x == CHOOSE x \in s : TRUE
      <4>1. x \in s
        BY <3>2
      <4>2. s \ {x} \in Small(n)
        <5> HIDE DEF x
        <5>1. s \in SUBSET S /\ s \ {x} \in SUBSET S /\ Cardinality(s) <= n + 1
          OBVIOUS
        <5>2. Cardinality(s \ {x}) = Cardinality(s) - 1 /\ Cardinality(s) \in Nat
          BY <1>1, <4>1, <5>1
        <5>3. Cardinality(s \ {x}) <= n
          BY <2>1, <5>1, <5>2
        <5>4. QED
          BY <5>1, <5>3
      <4>3. g[s \ {x}] = h[s \ {x}]
        <5> HIDE DEF Small, Rule, g, x
        <5> QED
          BY <2>3, <4>2
      <4>4. Rule(h, s) = f[x] + h[s \ {x}] /\ Rule(g, s) = f[x] + g[s \ {x}]
        <5> HIDE DEF g
        <5> QED
          BY <3>2
      <4> HIDE DEF x, g, Rule
      <4>5. QED
        BY <4>3, <4>4
    <3>3. QED
      BY <3>1, <3>2
  <2>5. g = [s \in Small(n + 1) |-> Rule(g, s)]
    <3>1. g = [s \in Small(n + 1) |-> Rule(h, s)]
      OBVIOUS
    <3> HIDE DEF g, Rule, Small
    <3>2. QED
      BY <2>4, <3>1
  <2> HIDE DEF g, Rule, Small
  <2>6. Has(n + 1)
    BY <2>5
  <2>7. QED
    BY <2>1, <2>6
<1>4. N \in T
  <2> HIDE DEF N, T
  <2>1. 0 .. N \subseteq T
    BY <1>1, <1>2, <1>3, Induction
  <2>2. QED
    BY <1>1, <2>1
<1>5. Small(N) = SUBSET S
  BY <1>1
<1>6. QED
  BY <1>4, <1>5 DEF IsSum

\* What that function is of the empty set and of any other.
Adds(h, f, S) ==
  /\ h[{}] = 0
  /\ \A s \in SUBSET S : s # {} =>
       \E x \in s : h[s] = f[x] + h[s \ {x}] /\ x = CHOOSE y \in s : TRUE

LEMMA SumRule ==
  ASSUME NEW S, IsFiniteSet(S), NEW f, DOMAIN f = S
  PROVE  \E h : SumFunction(f) = h[S] /\ Adds(h, f, S)
<1> DEFINE h == CHOOSE h : IsSum(h, f, S)
<1>1. IsSum(h, f, S)
  BY SumExists
<1>2. SumFunction(f) = h[S]
  BY SumUnfold
<1> HIDE DEF h
<1>3. \A s \in SUBSET S :
        h[s] = IF s = {} THEN 0 ELSE LET x == CHOOSE x \in s : TRUE
                                     IN  f[x] + h[s \ {x}]
  BY <1>1 DEF IsSum
<1>4. h[{}] = 0
  BY <1>3
<1>5. ASSUME NEW s \in SUBSET S, s # {}
      PROVE  \E x \in s : h[s] = f[x] + h[s \ {x}] /\ x = CHOOSE y \in s : TRUE
  <2> DEFINE x == CHOOSE x \in s : TRUE
  <2>1. x \in s
    BY <1>5
  <2>2. h[s] = f[x] + h[s \ {x}]
    BY <1>3, <1>5
  <2>3. QED
    BY <2>1, <2>2
<1>6. QED
  BY <1>2, <1>4, <1>5 DEF Adds

\* A sum of natural numbers is one, and at least as large as each of them.
LEMMA SumType ==
  ASSUME NEW S, IsFiniteSet(S), NEW f \in [S -> Nat]
  PROVE  /\ SumFunction(f) \in Nat
         /\ \A x \in S : f[x] <= SumFunction(f)
<1>1. PICK h : SumFunction(f) = h[S] /\ Adds(h, f, S)
  <2>1. DOMAIN f = S
    OBVIOUS
  <2>2. QED
    BY <2>1, SumRule
<1> DEFINE T == {s \in SUBSET S : h[s] \in Nat /\ \A x \in s : f[x] <= h[s]}
<1>2. ASSUME NEW s \in SUBSET S, \A x \in s : s \ {x} \in T
      PROVE  s \in T
  <2>1. CASE s = {}
    BY <1>1, <2>1 DEF Adds
  <2>2. CASE s # {}
    <3>1. PICK x \in s : h[s] = f[x] + h[s \ {x}]
      BY <1>1, <2>2 DEF Adds
    <3>2. /\ f[x] \in Nat /\ h[s \ {x}] \in Nat
          /\ \A y \in s \ {x} : f[y] \in Nat /\ f[y] <= h[s \ {x}]
      BY <1>2
    <3>3. h[s] \in Nat /\ \A y \in s : f[y] <= h[s]
      BY <3>1, <3>2
    <3>4. QED
      BY <3>3
  <2>3. QED
    BY <2>1, <2>2
<1>3. S \in T
  <2> HIDE DEF T
  <2> QED
    BY <1>2, SubsetInduction
<1>4. QED
  BY <1>1, <1>3

\* A change at one place changes the sum by as much.
LEMMA SumChange ==
  ASSUME NEW S, IsFiniteSet(S), NEW f \in [S -> Int], NEW g \in [S -> Int],
         NEW w \in S, \A x \in S \ {w} : g[x] = f[x]
  PROVE  SumFunction(g) = SumFunction(f) + g[w] - f[w] /\ SumFunction(f) \in Int
<1>1. PICK h : SumFunction(f) = h[S] /\ Adds(h, f, S)
  <2>1. DOMAIN f = S
    OBVIOUS
  <2>2. QED
    BY <2>1, SumRule
<1>2. PICK k : SumFunction(g) = k[S] /\ Adds(k, g, S)
  <2>1. DOMAIN g = S
    OBVIOUS
  <2>2. QED
    BY <2>1, SumRule
<1> DEFINE d == g[w] - f[w]
           T == {s \in SUBSET S : /\ h[s] \in Int
                                  /\ w \in s => k[s] = h[s] + d
                                  /\ w \notin s => k[s] = h[s]}
<1>3. d \in Int
  OBVIOUS
<1>4. ASSUME NEW s \in SUBSET S, \A x \in s : s \ {x} \in T
      PROVE  s \in T
  <2>1. CASE s = {}
    BY <1>1, <1>2, <2>1 DEF Adds
  <2>2. CASE s # {}
    <3>1. PICK x \in s : h[s] = f[x] + h[s \ {x}] /\ k[s] = g[x] + k[s \ {x}]
      BY <1>1, <1>2, <2>2 DEF Adds
    <3>2. f[x] \in Int /\ g[x] \in Int /\ h[s \ {x}] \in Int
      BY <1>4
    <3>3. CASE x = w
      <4>1. k[s \ {x}] = h[s \ {x}]
        BY <1>4, <3>3
      <4>2. k[s] = h[s] + d
        BY <3>1, <3>2, <3>3, <4>1
      <4>3. QED
        BY <3>1, <3>2, <3>3, <4>2
    <3>4. CASE x # w
      <4>1. g[x] = f[x]
        BY <3>4
      <4>2. k[s \ {x}] = IF w \in s THEN h[s \ {x}] + d ELSE h[s \ {x}]
        BY <1>4, <3>4
      <4> HIDE DEF d
      <4>3. h[s] \in Int /\ k[s] = IF w \in s THEN h[s] + d ELSE h[s]
        BY <1>3, <3>1, <3>2, <4>1, <4>2
      <4>4. QED
        BY <4>3
    <3>5. QED
      BY <3>3, <3>4
  <2>3. QED
    BY <2>1, <2>2
<1>5. S \in T
  <2> HIDE DEF T
  <2> QED
    BY <1>4, SubsetInduction
<1>6. k[S] = h[S] + d /\ h[S] \in Int
  BY <1>5
<1>7. QED
  BY <1>1, <1>2, <1>6

\* A sum whose terms are c at most, and nothing outside T.
LEMMA SumUpTo ==
  ASSUME NEW S, IsFiniteSet(S), NEW f \in [S -> Nat], NEW c \in Nat,
         NEW T \in SUBSET S, \A x \in S : f[x] <= IF x \in T THEN c ELSE 0
  PROVE  SumFunction(f) <= c * Cardinality(T)
<1>1. PICK h : SumFunction(f) = h[S] /\ Adds(h, f, S)
  <2>1. DOMAIN f = S
    OBVIOUS
  <2>2. QED
    BY <2>1, SumRule
<1> DEFINE n(s) == Cardinality(s \cap T)
           Q == {s \in SUBSET S : h[s] \in Nat /\ h[s] <= c * n(s)}
<1>2. \A s \in SUBSET S : n(s) \in Nat /\ IsFiniteSet(s \cap T)
  <2>1. \A s \in SUBSET S : IsFiniteSet(s \cap T)
    BY FS_Subset
  <2>2. QED
    BY <2>1, FS_CardinalityType
<1>3. ASSUME NEW s \in SUBSET S, \A x \in s : s \ {x} \in Q
      PROVE  s \in Q
  <2>1. CASE s = {}
    <3>1. h[s] = 0
      BY <1>1, <2>1 DEF Adds
    <3>2. c * n(s) \in Nat
      <4> DEFINE m == n(s)
      <4>1. m \in Nat
        BY <1>2
      <4> HIDE DEF m
      <4>2. c * m \in Nat
        BY <4>1
      <4>3. QED
        BY <4>2 DEF m
    <3>3. QED
      BY <3>1, <3>2
  <2>2. CASE s # {}
    <3>1. PICK x \in s : h[s] = f[x] + h[s \ {x}]
      BY <1>1, <2>2 DEF Adds
    <3>2. /\ f[x] \in Nat /\ h[s \ {x}] \in Nat
          /\ h[s \ {x}] <= c * n(s \ {x})
      BY <1>3
    <3>3. CASE x \in T
      <4>1. n(s \ {x}) = n(s) - 1
        <5>1. (s \ {x}) \cap T = (s \cap T) \ {x} /\ x \in s \cap T
          BY <3>3
        <5>2. IsFiniteSet(s \cap T)
          BY <1>2
        <5>3. Cardinality((s \cap T) \ {x}) = Cardinality(s \cap T) - 1
          BY <5>1, <5>2, FS_RemoveElement
        <5>4. QED
          BY <5>1, <5>3, Zenon
      <4>2. f[x] <= c
        BY <3>3
      <4> DEFINE m == n(s)
                 l == n(s \ {x})
      <4>3. m \in Nat /\ l = m - 1 /\ l \in Nat
        BY <1>2, <4>1
      <4> HIDE DEF m, l, n
      <4>4. c * m = c * l + c
        BY <4>3
      <4>5. c * m \in Nat /\ c * l \in Nat
        BY <4>3
      <4>6. h[s] \in Nat /\ h[s] <= c * m
        BY <3>1, <3>2, <4>2, <4>4, <4>5 DEF l
      <4>7. QED
        BY <4>6 DEF m
    <3>4. CASE x \notin T
      <4>1. n(s \ {x}) = n(s)
        <5>1. (s \ {x}) \cap T = s \cap T
          BY <3>4
        <5>2. QED
          BY <5>1
      <4>2. f[x] = 0
        BY <3>2, <3>4
      <4> HIDE DEF n
      <4>3. h[s] = h[s \ {x}]
        BY <3>1, <3>2, <4>2
      <4>4. QED
        BY <3>2, <4>1, <4>3
    <3>5. QED
      BY <3>3, <3>4
  <2>3. QED
    BY <2>1, <2>2
<1>4. S \in Q
  <2> HIDE DEF Q
  <2> QED
    BY <1>3, SubsetInduction
<1>5. S \cap T = T
  OBVIOUS
<1>6. QED
  BY <1>1, <1>4, <1>5

===============================================================================
