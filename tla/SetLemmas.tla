----------------------------- MODULE SetLemmas -----------------------------
(***************************************************************************)
(* What the proofs of several components need to know of finite sets: the  *)
(* least and the greatest member that the models pick with Min and Max,    *)
(* induction, and sums over a set as the models compute them.              *)
(***************************************************************************)
EXTENDS Integers, FiniteSetsExt, FiniteSetTheorems, WellFoundedInduction, TLAPS

(* A non-empty set of naturals has a least member, as the natural numbers   *)
(* are well-founded.                                                       *)
LEMMA NatMin ==
  ASSUME NEW S \in SUBSET Nat, S # {}
  PROVE  \E x \in S : \A y \in S : x <= y
<1> DEFINE R == OpToRel(<, Nat)
<1>1. IsWellFoundedOn(R, Nat)
  BY NatLessThanWellFounded
<1>2. \A a, b \in S : b < a => <<b, a>> \in R
  BY DEF OpToRel
<1> HIDE DEF R
<1>3. PICK x \in S : \A y \in S : ~(<<y, x>> \in R)
  BY <1>1, WFMin
<1>4. \A y \in S : ~(y < x)
  BY <1>2, <1>3, Zenon
<1> QED
  BY <1>4

(* A non-empty set of naturals with a bound has a greatest one, which Max   *)
(* picks: the one at the least distance from the bound.                    *)
LEMMA BoundedMax ==
  ASSUME NEW n \in Nat, NEW S \in SUBSET (0..n), S # {}
  PROVE  /\ Max(S) \in S
         /\ \A y \in S : y <= Max(S)
<1> DEFINE T == {k \in 0..n : n - k \in S}
<1>1. T \in SUBSET Nat
  OBVIOUS
<1>2. \A s \in S : n - s \in T
  OBVIOUS
<1>3. T # {}
  BY <1>2
<1>4. PICK t \in T : \A u \in T : t <= u
  <2> HIDE DEF T
  <2> QED
    BY <1>1, <1>3, NatMin
<1>5. \A y \in S : n - t >= y
  <2> TAKE y \in S
  <2>1. t <= n - y
    BY <1>2, <1>4
  <2> QED
    BY <2>1
<1>6. n - t \in S
  OBVIOUS
<1> QED
  BY <1>5, <1>6 DEF Max

(* Min picks the least one.                                                *)
LEMMA LeastMember ==
  ASSUME NEW S \in SUBSET Nat, S # {}
  PROVE  /\ Min(S) \in S
         /\ \A y \in S : Min(S) <= y
BY NatMin DEF Min

-----------------------------------------------------------------------------
(* Induction, with the set of the instances that hold in the place of a    *)
(* predicate: the least instance that does not hold would be a successor.  *)
LEMMA SetInduction ==
  ASSUME NEW G \in SUBSET Nat, 0 \in G, \A n \in G : n + 1 \in G
  PROVE  G = Nat
<1> SUFFICES ASSUME Nat \ G # {}
             PROVE  FALSE
  OBVIOUS
<1>1. PICK m \in Nat \ G : \A y \in Nat \ G : m <= y
  BY NatMin
<1>2. m # 0 /\ m - 1 \in Nat
  BY <1>1
<1>3. m - 1 \in G
  BY <1>1, <1>2
<1> QED
  BY <1>1, <1>3

(* A finite set is reached from the empty one, one element at a time.      *)
LEMMA SubsetInduction ==
  ASSUME NEW S, IsFiniteSet(S), NEW G,
         {} \in G,
         \A s \in SUBSET S : s # {} /\ (\A x \in s : s \ {x} \in G) => s \in G
  PROVE  \A s \in SUBSET S : s \in G
<1> DEFINE H == {n \in Nat : \A s \in SUBSET S : Cardinality(s) = n => s \in G}
<1>1. \A s \in SUBSET S : IsFiniteSet(s) /\ Cardinality(s) \in Nat
  BY FS_Subset, FS_CardinalityType
<1>2. 0 \in H
  BY <1>1, FS_EmptySet
<1>3. ASSUME NEW n \in H PROVE n + 1 \in H
  <2>1. n \in Nat
    OBVIOUS
  <2>2. ASSUME NEW s \in SUBSET S, Cardinality(s) = n + 1
        PROVE  s \in G
    <3>1. s # {}
      BY <2>1, <2>2, FS_EmptySet
    <3>2. ASSUME NEW x \in s PROVE s \ {x} \in G
      <4>1. Cardinality(s \ {x}) = n
        BY <1>1, <2>1, <2>2, FS_RemoveElement
      <4> QED
        BY <4>1
    <3> QED
      BY <3>1, <3>2
  <2> QED
    BY <2>1, <2>2
<1>4. H = Nat
  <2> HIDE DEF H
  <2>1. H \in SUBSET Nat
    BY DEF H
  <2> QED
    BY <1>2, <1>3, <2>1, SetInduction
<1> QED
  BY <1>1, <1>4

-----------------------------------------------------------------------------
(* The sum of the weights w[x] of the elements x of S. It takes away one   *)
(* element after the other, each the one that CHOOSE names, by a function  *)
(* that is defined by recursion over the subsets of S.                     *)
SumOver(w, S) == MapThenSumSet(LAMBDA x : w[x], S)

FirstOf(s) == CHOOSE x \in s : TRUE
SumStep(w, g, s) == IF s = {} THEN 0 ELSE w[FirstOf(s)] + g[s \ {FirstOf(s)}]
IsSum(w, g, S) == g = [s \in SUBSET S |-> SumStep(w, g, s)]

LEMMA FirstMember ==
  ASSUME NEW s, s # {}
  PROVE  FirstOf(s) \in s
BY DEF FirstOf

(* Such a function exists, and its values are integers: it is built up for  *)
(* subsets of at most 0, 1, 2, ... elements.                               *)
LEMMA SumExists ==
  ASSUME NEW S, IsFiniteSet(S), NEW w, \A x \in S : w[x] \in Int
  PROVE  \E g \in [SUBSET S -> Int] : IsSum(w, g, S)
<1> DEFINE Upto(n) == {s \in SUBSET S : Cardinality(s) <= n}
           Good(n, g) == \A s \in Upto(n) : g[s] = SumStep(w, g, s)
           G == {n \in Nat : \E g \in [Upto(n) -> Int] : Good(n, g)}
<1>1. \A s \in SUBSET S : IsFiniteSet(s) /\ Cardinality(s) \in Nat
  BY FS_Subset, FS_CardinalityType
<1>2. 0 \in G
  <2> DEFINE g == [s \in Upto(0) |-> 0]
  <2>1. \A s \in Upto(0) : s = {}
    BY <1>1, FS_EmptySet
  <2>2. g \in [Upto(0) -> Int] /\ Good(0, g)
    BY <2>1 DEF SumStep
  <2> QED
    BY <2>2
<1>3. ASSUME NEW n \in G PROVE n + 1 \in G
  <2>1. n \in Nat
    OBVIOUS
  <2>2. PICK g \in [Upto(n) -> Int] : Good(n, g)
    OBVIOUS
  <2> DEFINE h == [s \in Upto(n + 1) |-> SumStep(w, g, s)]
  <2>3. ASSUME NEW s \in Upto(n + 1), s # {}
        PROVE  FirstOf(s) \in S /\ s \ {FirstOf(s)} \in Upto(n)
    <3>1. FirstOf(s) \in s
      BY <2>3, FirstMember
    <3>2. Cardinality(s \ {FirstOf(s)}) = Cardinality(s) - 1
      BY <1>1, <3>1, FS_RemoveElement
    <3> QED
      BY <1>1, <2>1, <3>1, <3>2
  <2>4. h \in [Upto(n + 1) -> Int]
    <3>1. ASSUME NEW s \in Upto(n + 1) PROVE SumStep(w, g, s) \in Int
      <4>1. CASE s = {}
        BY <4>1 DEF SumStep
      <4>2. CASE s # {}
        <5>1. w[FirstOf(s)] \in Int /\ g[s \ {FirstOf(s)}] \in Int
          BY <2>2, <2>3, <4>2
        <5> QED
          BY <4>2, <5>1 DEF SumStep
      <4> QED
        BY <4>1, <4>2
    <3> QED
      BY <3>1
  <2>5. \A s \in Upto(n) : s \in Upto(n + 1) /\ h[s] = g[s]
    BY <1>1, <2>1, <2>2
  <2>6. ASSUME NEW s \in Upto(n + 1) PROVE h[s] = SumStep(w, h, s)
    <3>1. CASE s = {}
      BY <3>1 DEF SumStep
    <3>2. CASE s # {}
      <4>1. h[s \ {FirstOf(s)}] = g[s \ {FirstOf(s)}]
        BY <2>3, <2>5, <3>2
      <4> QED
        BY <3>2, <4>1 DEF SumStep
    <3> QED
      BY <3>1, <3>2
  <2> HIDE DEF h
  <2>7. Good(n + 1, h)
    BY <2>6
  <2> HIDE DEF Good, Upto
  <2> QED
    BY <2>1, <2>4, <2>7
<1>4. G = Nat
  <2> HIDE DEF G
  <2>1. G \in SUBSET Nat
    BY DEF G
  <2> QED
    BY <1>2, <1>3, <2>1, SetInduction
<1>5. PICK g \in [Upto(Cardinality(S)) -> Int] : Good(Cardinality(S), g)
  BY <1>1, <1>4
<1>6. Upto(Cardinality(S)) = SUBSET S
  BY <1>1, FS_Subset
<1>7. g \in [SUBSET S -> Int] /\ \A s \in SUBSET S : g[s] = SumStep(w, g, s)
  BY <1>5, <1>6
<1> HIDE DEF Upto, Good, G
<1>8. g = [s \in SUBSET S |-> SumStep(w, g, s)]
  BY <1>7
<1> QED
  BY <1>7, <1>8 DEF IsSum

(* There is one only.                                                      *)
LEMMA SumUnique ==
  ASSUME NEW S, IsFiniteSet(S), NEW T \in SUBSET S,
         NEW w, NEW g, NEW h, IsSum(w, g, S), IsSum(w, h, T)
  PROVE  \A s \in SUBSET T : g[s] = h[s]
<1> DEFINE G == {s \in SUBSET T : g[s] = h[s]}
<1>1. /\ \A s \in SUBSET S : g[s] = SumStep(w, g, s)
      /\ \A s \in SUBSET T : h[s] = SumStep(w, h, s)
  BY DEF IsSum
<1>2. {} \in G
  BY <1>1 DEF SumStep
<1>3. ASSUME NEW s \in SUBSET T, s # {}, \A x \in s : s \ {x} \in G
      PROVE  s \in G
  <2>1. s \ {FirstOf(s)} \in G
    BY <1>3, FirstMember
  <2> QED
    BY <1>1, <1>3, <2>1 DEF SumStep
<1>4. IsFiniteSet(T)
  BY FS_Subset
<1>5. \A s \in SUBSET T : s \in G
  <2> HIDE DEF G
  <2> QED
    BY <1>2, <1>3, <1>4, SubsetInduction
<1> QED
  BY <1>5

(* The sum is that function at S: the module's definition, unfolded.       *)
LEMMA SumChosen ==
  ASSUME NEW w, NEW S
  PROVE  SumOver(w, S) = (CHOOSE g : IsSum(w, g, S))[S]
BY DEF SumOver, IsSum, SumStep, FirstOf, MapThenSumSet, MapThenFoldSet

(* Its values are the sums over all subsets of S.                          *)
LEMMA SumValue ==
  ASSUME NEW S, IsFiniteSet(S), NEW w, \A x \in S : w[x] \in Int,
         NEW g, IsSum(w, g, S), NEW T \in SUBSET S
  PROVE  SumOver(w, T) = g[T]
<1> DEFINE h == CHOOSE f : IsSum(w, f, T)
<1>1. \E f : IsSum(w, f, T)
  <2>1. IsFiniteSet(T) /\ \A x \in T : w[x] \in Int
    BY FS_Subset
  <2> QED
    BY <2>1, SumExists
<1>2. IsSum(w, h, T)
  BY <1>1
<1>3. SumOver(w, T) = h[T]
  BY SumChosen
<1> HIDE DEF h
<1>4. g[T] = h[T]
  BY <1>2, SumUnique
<1> QED
  BY <1>3, <1>4

LEMMA SumEmpty ==
  ASSUME NEW w
  PROVE  SumOver(w, {}) = 0
<1>1. PICK g \in [SUBSET {} -> Int] : IsSum(w, g, {})
  BY SumExists, FS_EmptySet
<1>2. SumOver(w, {}) = g[{}]
  BY <1>1, SumValue, FS_EmptySet
<1>3. g[{}] = SumStep(w, g, {})
  BY <1>1 DEF IsSum
<1> QED
  BY <1>2, <1>3 DEF SumStep

LEMMA SumInt ==
  ASSUME NEW S, IsFiniteSet(S), NEW w, \A x \in S : w[x] \in Int
  PROVE  SumOver(w, S) \in Int
<1>1. PICK g \in [SUBSET S -> Int] : IsSum(w, g, S)
  BY SumExists
<1>2. SumOver(w, S) = g[S]
  BY <1>1, SumValue
<1> QED
  BY <1>2

(* Any element may be taken away first, not only the one CHOOSE names.     *)
LEMMA SumRemove ==
  ASSUME NEW S, IsFiniteSet(S), NEW w, \A x \in S : w[x] \in Int, NEW e \in S
  PROVE  SumOver(w, S) = w[e] + SumOver(w, S \ {e})
<1>1. PICK g \in [SUBSET S -> Int] : IsSum(w, g, S)
  BY SumExists
<1>2. \A s \in SUBSET S : s # {} =>
        FirstOf(s) \in s /\ g[s] = w[FirstOf(s)] + g[s \ {FirstOf(s)}]
  BY <1>1, FirstMember DEF IsSum, SumStep
<1> DEFINE G == {s \in SUBSET S : \A x \in s : g[s] = w[x] + g[s \ {x}]}
<1>3. {} \in G
  OBVIOUS
<1>4. ASSUME NEW s \in SUBSET S, s # {}, \A x \in s : s \ {x} \in G
      PROVE  s \in G
  <2> DEFINE y == FirstOf(s)
  <2>1. y \in s /\ g[s] = w[y] + g[s \ {y}]
    BY <1>2, <1>4
  <2> HIDE DEF y
  <2>2. ASSUME NEW x \in s, x # y PROVE g[s] = w[x] + g[s \ {x}]
    <3> DEFINE r == s \ {x, y}
    <3>1. g[s \ {y}] = w[x] + g[r]
      <4>1. s \ {y} \in G /\ x \in s \ {y} /\ (s \ {y}) \ {x} = r
        BY <1>4, <2>1, <2>2
      <4> QED
        BY <4>1
    <3>2. g[s \ {x}] = w[y] + g[r]
      <4>1. s \ {x} \in G /\ y \in s \ {x} /\ (s \ {x}) \ {y} = r
        BY <1>4, <2>1, <2>2
      <4> QED
        BY <4>1
    <3>3. w[x] \in Int /\ w[y] \in Int /\ g[r] \in Int
      BY <1>1, <2>1
    <3> QED
      BY <2>1, <3>1, <3>2, <3>3
  <2> QED
    BY <2>1, <2>2
<1>5. \A s \in SUBSET S : s \in G
  <2> HIDE DEF G
  <2> QED
    BY <1>3, <1>4, SubsetInduction
<1>6. SumOver(w, S) = g[S] /\ SumOver(w, S \ {e}) = g[S \ {e}]
  BY <1>1, SumValue
<1> QED
  BY <1>5, <1>6

LEMMA SumAdd ==
  ASSUME NEW S, IsFiniteSet(S), NEW e, e \notin S,
         NEW w, \A x \in S \cup {e} : w[x] \in Int
  PROVE  SumOver(w, S \cup {e}) = w[e] + SumOver(w, S)
<1>1. IsFiniteSet(S \cup {e}) /\ (S \cup {e}) \ {e} = S
  BY FS_AddElement
<1> QED
  BY <1>1, SumRemove

(* Weights that agree on S have the same sum over it.                      *)
LEMMA SumSame ==
  ASSUME NEW S, IsFiniteSet(S), NEW w, NEW v,
         \A x \in S : w[x] \in Int /\ w[x] = v[x]
  PROVE  SumOver(w, S) = SumOver(v, S)
<1>1. PICK g \in [SUBSET S -> Int] : IsSum(w, g, S)
  BY SumExists
<1>2. PICK h \in [SUBSET S -> Int] : IsSum(v, h, S)
  <2>1. \A x \in S : v[x] \in Int
    OBVIOUS
  <2> QED
    BY <2>1, SumExists
<1>3. \A s \in SUBSET S : s # {} =>
        /\ FirstOf(s) \in s
        /\ g[s] = w[FirstOf(s)] + g[s \ {FirstOf(s)}]
        /\ h[s] = v[FirstOf(s)] + h[s \ {FirstOf(s)}]
  BY <1>1, <1>2, FirstMember DEF IsSum, SumStep
<1>4. g[{}] = 0 /\ h[{}] = 0
  BY <1>1, <1>2 DEF IsSum, SumStep
<1> DEFINE G == {s \in SUBSET S : g[s] = h[s]}
<1>5. ASSUME NEW s \in SUBSET S, s # {}, \A x \in s : s \ {x} \in G
      PROVE  s \in G
  BY <1>3, <1>5
<1>6. \A s \in SUBSET S : s \in G
  <2>1. {} \in G
    BY <1>4
  <2> HIDE DEF G
  <2> QED
    BY <1>5, <2>1, SubsetInduction
<1>7. SumOver(w, S) = g[S]
  BY <1>1, SumValue
<1>8. SumOver(v, S) = h[S]
  <2>1. \A x \in S : v[x] \in Int
    OBVIOUS
  <2> QED
    BY <1>2, <2>1, SumValue
<1> QED
  BY <1>6, <1>7, <1>8

(* With weights that are naturals, a larger set has the larger sum.        *)
LEMMA SumMonotone ==
  ASSUME NEW S, IsFiniteSet(S), NEW w, \A x \in S : w[x] \in Nat,
         NEW T \in SUBSET S
  PROVE  /\ SumOver(w, T) \in Nat
         /\ SumOver(w, T) <= SumOver(w, S)
<1> DEFINE f(s) == SumOver(w, s)
           G == {s \in SUBSET S : f(s) \in Nat /\ \A t \in SUBSET s : f(t) <= f(s)}
<1>1. {} \in G
  BY SumEmpty
<1>2. ASSUME NEW s \in SUBSET S, s # {}, \A x \in s : s \ {x} \in G
      PROVE  s \in G
  <2>1. ASSUME NEW x \in s
        PROVE  /\ f(s) \in Nat /\ f(s \ {x}) \in Nat /\ f(s \ {x}) <= f(s)
               /\ \A t \in SUBSET (s \ {x}) : f(t) <= f(s \ {x})
    <3>1. f(s) = w[x] + f(s \ {x})
      <4>1. IsFiniteSet(s) /\ \A y \in s : w[y] \in Int
        BY FS_Subset
      <4> QED
        BY <4>1, SumRemove
    <3>2. s \ {x} \in G /\ w[x] \in Nat
      BY <1>2
    <3> HIDE DEF f
    <3> QED
      BY <3>1, <3>2
  <2> HIDE DEF f
  <2>2. ASSUME NEW t \in SUBSET s, t # s PROVE f(t) <= f(s)
    <3>1. PICK x \in s : x \notin t
      BY <2>2
    <3>2. t \in SUBSET (s \ {x}) /\ s \ {x} \in G
      BY <1>2, <3>1
    <3>3. f(t) <= f(s \ {x}) /\ f(s \ {x}) <= f(s) /\ f(s) \in Nat /\ f(s \ {x}) \in Nat
      BY <2>1, <3>2
    <3>4. f(t) \in Int
      <4>1. IsFiniteSet(t) /\ \A y \in t : w[y] \in Int
        BY FS_Subset
      <4> QED
        BY <4>1, SumInt DEF f
    <3> QED
      BY <3>3, <3>4
  <2>3. f(s) \in Nat
    BY <1>2, <2>1
  <2> QED
    BY <2>2, <2>3
<1>3. \A s \in SUBSET S : s \in G
  <2> HIDE DEF G
  <2> QED
    BY <1>1, <1>2, SubsetInduction
<1> QED
  BY <1>3

=============================================================================
