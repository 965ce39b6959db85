---------------------------- MODULE FiniteNumbers ----------------------------
(***************************************************************************)
(* Facts about finite sets of numbers that the proofs about playlists and  *)
(* about row locks rest on.                                                *)
(***************************************************************************)
EXTENDS Integers, FiniteSets, FiniteSetTheorems, TLAPS

\* A finite set of numbers has a largest one.
LEMMA Largest ==
  ASSUME NEW S, IsFiniteSet(S), S # {}, S \subseteq Nat
  PROVE  \E m \in S : \A n \in S : n <= m
  <1> DEFINE Above(m) == {n \in S : n > m}
             T == {Above(m) : m \in S}
             R == StrictSubsetOrdering(S)
  <1>1. T \subseteq FiniteSubsetsOf(S) /\ T # {}
    <2>1. FiniteSubsetsOf(S) = SUBSET S
      BY FS_FiniteSubsetsOfFinite
    <2>2. \A m \in S : Above(m) \in SUBSET S
      OBVIOUS
    <2>3. \A A \in T : A \in SUBSET S
      BY <2>2
    <2>4. T # {}
      OBVIOUS
    <2> HIDE DEF T
    <2> QED BY <2>1, <2>3, <2>4
  <1>2. IsWellFoundedOn(R, FiniteSubsetsOf(S))
    BY FS_StrictSubsetOrderingWellFounded
  <1>3. \E A \in T : \A B \in T : ~(<<B, A>> \in R)
    <2> HIDE DEF T, R
    <2> QED BY <1>1, <1>2, WFMin
  <1>4. PICK m \in S : \A B \in T : ~(<<B, Above(m)>> \in R)
    BY <1>3
  <1>5. ASSUME NEW n \in S, n > m PROVE FALSE
    <2>1. \A k \in S : k \in Nat /\ (k > n => k > m)
      BY <1>5
    <2>2. Above(n) \subseteq Above(m)
      BY <2>1
    <2>3. n \in Above(m) /\ n \notin Above(n)
      BY <1>5, <2>1
    <2>4. <<Above(n), Above(m)>> \in R
      BY <2>2, <2>3 DEF StrictSubsetOrdering
    <2>5. Above(n) \in T
      OBVIOUS
    <2> QED BY <1>4, <2>4, <2>5
  <1>6. \A n \in S : n <= m
    BY <1>5
  <1> QED BY <1>6

LEMMA ImageIsFinite ==
  ASSUME NEW S, IsFiniteSet(S), NEW f
  PROVE  IsFiniteSet({f[x] : x \in S})
  <1> DEFINE g == [x \in S |-> f[x]]
  <1>1. g \in Surjection(S, {f[x] : x \in S})
    BY DEF Surjection
  <1> QED BY <1>1, FS_Surjection

\* Distinct numbers below the number of elements are all of them.
LEMMA PackedIsFull ==
  ASSUME NEW S, IsFiniteSet(S), NEW f \in [S -> 0 .. Cardinality(S) - 1],
         \A t, u \in S : f[t] = f[u] => t = u
  PROVE  {f[t] : t \in S} = 0 .. Cardinality(S) - 1
  <1> DEFINE n == Cardinality(S)
  <1>1. n \in Nat
    BY FS_CardinalityType
  <1>2. IsFiniteSet(0 .. n - 1) /\ Cardinality(0 .. n - 1) = n
    BY <1>1, FS_Interval
  <1>3. f \in Injection(S, 0 .. n - 1)
    BY DEF Injection, IsInjective
  <1>4. f \in Surjection(S, 0 .. n - 1)
    BY <1>2, <1>3, FS_Injection
  <1> QED BY <1>4 DEF Surjection

\* Over a finite set no function rises from every element to another.
LEMMA NoEndlessRise ==
  ASSUME NEW X, IsFiniteSet(X), X # {}, NEW f, \A x \in X : f[x] \in Nat,
         \A x \in X : \E y \in X : f[x] < f[y]
  PROVE  FALSE
  <1> DEFINE A == {f[x] : x \in X}
  <1>1. IsFiniteSet(A) /\ A # {} /\ A \subseteq Nat
    BY ImageIsFinite
  <1>2. PICK m \in A : \A n \in A : n <= m
    <2> HIDE DEF A
    <2> QED BY <1>1, Largest
  <1>3. PICK x \in X : m = f[x]
    OBVIOUS
  <1>4. PICK y \in X : f[x] < f[y]
    OBVIOUS
  <1>5. f[y] \in A
    OBVIOUS
  <1>6. f[y] <= f[x] /\ f[x] \in Nat /\ f[y] \in Nat
    BY <1>2, <1>3, <1>5
  <1> QED BY <1>4, <1>6

=============================================================================
