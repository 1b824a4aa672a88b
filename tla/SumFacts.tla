------------------------------ MODULE SumFacts ------------------------------
(* Sums over finite sets, for the proofs about amounts of money.             *)
(* MapThenSumSet is a recursive function; the library's induction theorems   *)
(* have an operator as a parameter, so induction is done here on sets of     *)
(* naturals, from the fact that each nonempty one has a least element.       *)
EXTENDS Integers, FiniteSetsExt, FiniteSetTheorems, TLAPS

Pick(S) == CHOOSE x \in S : TRUE

(* g gives the sum of f over every subset of S.                              *)
IsSums(f, S, g) ==
  g = [T \in SUBSET S |-> IF T = {} THEN 0 ELSE f[Pick(T)] + g[T \ {Pick(T)}]]

Sums(f, S) == CHOOSE g : IsSums(f, S, g)

Sum(f, S) == Sums(f, S)[S]

(* Sum is the community modules' sum of the values of a function.            *)
LEMMA SumIsMapThenSum ==
  ASSUME NEW f, NEW S
  PROVE  MapThenSumSet(LAMBDA x : f[x], S) = Sum(f, S)
BY DEF Sum, MapThenSumSet, MapThenFoldSet, Sums, IsSums, Pick

-----------------------------------------------------------------------------
(* Induction over the naturals, for a set instead of a predicate.            *)

LEMMA NatInduct ==
  ASSUME NEW A, 0 \in A, \A n \in Nat : n \in A => n + 1 \in A
  PROVE  Nat \subseteq A
<1> DEFINE Bad == {n \in Nat : n \notin A}
           Less == OpToRel(<, Nat)
<1>1. SUFFICES ASSUME Bad # {} PROVE FALSE
  BY <1>1
<1>2. Bad \subseteq Nat
  OBVIOUS
<1>3. PICK n \in Bad : \A m \in Bad : <<m, n>> \notin Less
  <2> HIDE DEF Bad, Less
  <2>1. IsWellFoundedOn(Less, Nat)
    BY NatLessThanWellFounded DEF Less
  <2> QED BY <1>1, <1>2, <2>1, WFMin
<1>4. n - 1 \in Nat
  OBVIOUS
<1>5. n - 1 \in A
  <2>1. <<n - 1, n>> \in Less
    BY <1>4 DEF OpToRel
  <2> QED BY <1>3, <1>4, <2>1
<1> QED BY <1>4, <1>5

(* Taking its chosen element out of a finite set leaves one element less.    *)
LEMMA PickOne ==
  ASSUME NEW S, IsFiniteSet(S), S # {}
  PROVE  /\ Pick(S) \in S
         /\ IsFiniteSet(S \ {Pick(S)})
         /\ Cardinality(S \ {Pick(S)}) = Cardinality(S) - 1
<1>1. Pick(S) \in S
  BY DEF Pick
<1> HIDE DEF Pick
<1> QED BY <1>1, FS_RemoveElement

LEMMA FiniteSubsets ==
  ASSUME NEW S, IsFiniteSet(S), NEW T \in SUBSET S
  PROVE  /\ IsFiniteSet(T)
         /\ Cardinality(T) \in Nat
         /\ Cardinality(T) <= Cardinality(S)
         /\ Cardinality(T) = 0 <=> T = {}
BY FS_Subset, FS_CardinalityType, FS_EmptySet

-----------------------------------------------------------------------------
(* The recursion that defines a sum has a solution, and only one.            *)

LEMMA SumsExist ==
  ASSUME NEW f, NEW S, IsFiniteSet(S)
  PROVE  IsSums(f, S, Sums(f, S))
<1> DEFINE Small(n) == {T \in SUBSET S : Cardinality(T) <= n}
           Rule(g, T) == IF T = {} THEN 0 ELSE f[Pick(T)] + g[T \ {Pick(T)}]
           Solves(g, n) == g = [T \in Small(n) |-> Rule(g, T)]
           A == {n \in Nat : \E g : Solves(g, n)}
<1>1. \A T \in SUBSET S : /\ Cardinality(T) \in Nat
                          /\ Cardinality(T) <= Cardinality(S)
                          /\ Cardinality(T) = 0 <=> T = {}
  BY FiniteSubsets
<1>2. 0 \in A
  <2>1. \A T \in Small(0) : T = {}
    BY <1>1
  <2>2. Solves([T \in Small(0) |-> 0], 0)
    BY <2>1
  <2> HIDE DEF Solves
  <2> QED BY <2>2
<1>3. ASSUME NEW n \in Nat, n \in A
      PROVE  n + 1 \in A
  <2>1. PICK g : Solves(g, n)
    BY <1>3
  <2> DEFINE h == [T \in Small(n + 1) |-> Rule(g, T)]
  <2>2. ASSUME NEW T \in Small(n)
        PROVE  h[T] = g[T]
    <3>1. T \in Small(n + 1)
      BY <1>1
    <3>2. g[T] = Rule(g, T)
      BY <2>1
    <3> QED BY <3>1, <3>2
  <2>3. ASSUME NEW T \in Small(n + 1), T # {}
        PROVE  T \ {Pick(T)} \in Small(n)
    <3>1. IsFiniteSet(T) /\ Cardinality(T \ {Pick(T)}) = Cardinality(T) - 1
      BY <2>3, FiniteSubsets, PickOne
    <3> QED BY <1>1, <3>1
  <2>4. Solves(h, n + 1)
    <3> HIDE DEF Small
    <3> QED BY <2>2, <2>3
  <2> HIDE DEF Solves, h
  <2> QED BY <2>4
<1>4. Cardinality(S) \in A
  <2> HIDE DEF A
  <2> QED BY <1>1, <1>2, <1>3, NatInduct
<1>5. PICK g : Solves(g, Cardinality(S))
  BY <1>4
<1>6. Small(Cardinality(S)) = SUBSET S
  BY <1>1
<1>7. IsSums(f, S, g)
  BY <1>5, <1>6 DEF IsSums
<1> QED BY <1>7 DEF Sums

LEMMA SumsRule ==
  ASSUME NEW f, NEW S, IsFiniteSet(S), NEW T \in SUBSET S
  PROVE  Sums(f, S)[T] = IF T = {} THEN 0
                          ELSE f[Pick(T)] + Sums(f, S)[T \ {Pick(T)}]
<1>1. IsSums(f, S, Sums(f, S))
  BY SumsExist
<1> HIDE DEF Sums
<1> QED BY <1>1 DEF IsSums

(* Functions that agree on a set have the same sum over it, whatever larger  *)
(* sets the recursion began from.                                            *)
LEMMA SumsAgree ==
  ASSUME NEW f, NEW g, NEW R, NEW S, IsFiniteSet(R), IsFiniteSet(S),
         \A x \in R \cap S : f[x] = g[x]
  PROVE  \A T \in SUBSET (R \cap S) : Sums(f, R)[T] = Sums(g, S)[T]
<1> DEFINE A == {n \in Nat : \A T \in SUBSET (R \cap S) :
                   Cardinality(T) = n => Sums(f, R)[T] = Sums(g, S)[T]}
<1>1. \A T \in SUBSET (R \cap S) : T \in SUBSET R /\ T \in SUBSET S
  OBVIOUS
<1>2. 0 \in A
  <2>1. ASSUME NEW T \in SUBSET (R \cap S), Cardinality(T) = 0
        PROVE  Sums(f, R)[T] = Sums(g, S)[T]
    <3>1. T = {}
      BY <1>1, <2>1, FiniteSubsets
    <3> QED BY <3>1, SumsRule
  <2> QED BY <2>1
<1>3. ASSUME NEW n \in Nat, n \in A
      PROVE  n + 1 \in A
  <2>1. ASSUME NEW T \in SUBSET (R \cap S), Cardinality(T) = n + 1
        PROVE  Sums(f, R)[T] = Sums(g, S)[T]
    <3> DEFINE U == T \ {Pick(T)}
    <3>1. IsFiniteSet(T) /\ T # {}
      BY <1>1, <2>1, FiniteSubsets
    <3>2. Pick(T) \in T /\ Cardinality(U) = n
      <4>1. Pick(T) \in T /\ Cardinality(U) = Cardinality(T) - 1
        BY <3>1, PickOne
      <4> QED BY <2>1, <4>1
    <3>3. Sums(f, R)[U] = Sums(g, S)[U]
      BY <1>3, <3>2
    <3>4. /\ Sums(f, R)[T] = f[Pick(T)] + Sums(f, R)[U]
          /\ Sums(g, S)[T] = g[Pick(T)] + Sums(g, S)[U]
      BY <1>1, <3>1, SumsRule
    <3> QED BY <3>2, <3>3, <3>4
  <2> QED BY <2>1
<1>4. Nat \subseteq A
  <2> HIDE DEF A
  <2> QED BY <1>2, <1>3, NatInduct
<1> QED BY <1>1, <1>4, FiniteSubsets

-----------------------------------------------------------------------------
(* What the proofs about money use.                                          *)

(* The sum over no elements.                                                 *)
LEMMA SumEmpty ==
  ASSUME NEW f
  PROVE  Sum(f, {}) = 0
BY SumsRule, FS_EmptySet DEF Sum

LEMMA SumAgrees ==
  ASSUME NEW f, NEW g, NEW S, IsFiniteSet(S), \A x \in S : f[x] = g[x]
  PROVE  Sum(f, S) = Sum(g, S)
BY SumsAgree DEF Sum

(* The sum in the order the recursion goes.                                  *)
LEMMA SumPick ==
  ASSUME NEW f, NEW S, IsFiniteSet(S), S # {}
  PROVE  Sum(f, S) = f[Pick(S)] + Sum(f, S \ {Pick(S)})
<1> DEFINE U == S \ {Pick(S)}
<1>1. IsFiniteSet(U)
  BY PickOne
<1>2. Sums(f, S)[S] = f[Pick(S)] + Sums(f, S)[U]
  BY SumsRule
<1>3. Sums(f, S)[U] = Sums(f, U)[U]
  <2>1. U \in SUBSET (S \cap U)
    OBVIOUS
  <2> QED BY <1>1, <2>1, SumsAgree
<1> QED BY <1>2, <1>3 DEF Sum

LEMMA SumNat ==
  ASSUME NEW f, NEW S, IsFiniteSet(S), \A x \in S : f[x] \in Nat
  PROVE  Sum(f, S) \in Nat
<1> DEFINE A == {n \in Nat : \A T \in SUBSET S : Cardinality(T) = n => Sum(f, T) \in Nat}
<1>1. 0 \in A
  BY FiniteSubsets, SumEmpty
<1>2. ASSUME NEW n \in Nat, n \in A
      PROVE  n + 1 \in A
  <2>1. ASSUME NEW T \in SUBSET S, Cardinality(T) = n + 1
        PROVE  Sum(f, T) \in Nat
    <3>1. IsFiniteSet(T) /\ T # {}
      BY <2>1, FiniteSubsets
    <3>2. Pick(T) \in T /\ Cardinality(T \ {Pick(T)}) = Cardinality(T) - 1
      BY <3>1, PickOne
    <3>3. Sum(f, T \ {Pick(T)}) \in Nat
      BY <1>2, <2>1, <3>2
    <3> QED BY <3>1, <3>2, <3>3, SumPick
  <2> QED BY <2>1
<1>3. Nat \subseteq A
  <2> HIDE DEF A
  <2> QED BY <1>1, <1>2, NatInduct
<1> QED BY <1>3, FiniteSubsets

(* Any element may be taken out first.                                       *)
LEMMA SumRemove ==
  ASSUME NEW f, NEW S, IsFiniteSet(S), \A x \in S : f[x] \in Nat, NEW y \in S
  PROVE  Sum(f, S) = f[y] + Sum(f, S \ {y})
<1> DEFINE A == {n \in Nat : \A T \in SUBSET S : Cardinality(T) = n =>
                   \A x \in T : Sum(f, T) = f[x] + Sum(f, T \ {x})}
<1>1. 0 \in A
  BY FiniteSubsets
<1>2. ASSUME NEW n \in Nat, n \in A
      PROVE  n + 1 \in A
  <2>1. ASSUME NEW T \in SUBSET S, Cardinality(T) = n + 1, NEW x \in T
        PROVE  Sum(f, T) = f[x] + Sum(f, T \ {x})
    <3> DEFINE c == Pick(T)
               U == (T \ {c}) \ {x}
    <3>1. IsFiniteSet(T) /\ c \in T
      BY PickOne, FiniteSubsets
    <3>2. Sum(f, T) = f[c] + Sum(f, T \ {c})
      BY <3>1, SumPick
    <3>3. CASE c = x
      BY <3>2, <3>3
    <3>4. CASE c # x
      <4>1. /\ T \ {c} \in SUBSET S /\ Cardinality(T \ {c}) = n
            /\ T \ {x} \in SUBSET S /\ Cardinality(T \ {x}) = n
        <5>1. /\ Cardinality(T \ {c}) = Cardinality(T) - 1
              /\ Cardinality(T \ {x}) = Cardinality(T) - 1
          BY <3>1, FS_RemoveElement
        <5> QED BY <2>1, <5>1
      <4>2. /\ x \in T \ {c} /\ U = (T \ {c}) \ {x}
            /\ c \in T \ {x} /\ U = (T \ {x}) \ {c}
        BY <3>1, <3>4
      <4> HIDE DEF c, U
      <4>3. Sum(f, T \ {c}) = f[x] + Sum(f, U)
        BY <1>2, <4>1, <4>2
      <4>4. Sum(f, T \ {x}) = f[c] + Sum(f, U)
        BY <1>2, <4>1, <4>2
      <4>5. f[c] \in Nat /\ f[x] \in Nat /\ Sum(f, U) \in Nat
        <5>1. U \in SUBSET S /\ IsFiniteSet(U)
          BY <4>2, FiniteSubsets
        <5> QED BY <3>1, <5>1, SumNat
      <4> QED BY <3>2, <4>3, <4>4, <4>5
    <3> QED BY <3>3, <3>4
  <2> QED BY <2>1
<1>3. Nat \subseteq A
  <2> HIDE DEF A
  <2> QED BY <1>1, <1>2, NatInduct
<1> QED BY <1>3, FiniteSubsets

LEMMA SumAdd ==
  ASSUME NEW f, NEW S, IsFiniteSet(S), \A x \in S : f[x] \in Nat,
         NEW y, y \notin S, f[y] \in Nat
  PROVE  Sum(f, S \cup {y}) = f[y] + Sum(f, S)
<1>1. IsFiniteSet(S \cup {y})
  BY FS_AddElement
<1>2. (S \cup {y}) \ {y} = S
  OBVIOUS
<1> QED BY <1>1, <1>2, SumRemove

(* A sum of naturals grows with its set.                                     *)
LEMMA SumSubset ==
  ASSUME NEW f, NEW S, IsFiniteSet(S), \A x \in S : f[x] \in Nat, NEW R \in SUBSET S
  PROVE  Sum(f, R) <= Sum(f, S)
<1> DEFINE A == {n \in Nat : \A T \in SUBSET S :
                   R \subseteq T /\ Cardinality(T) = n => Sum(f, R) <= Sum(f, T)}
<1>1. \A T \in SUBSET S : IsFiniteSet(T) /\ Sum(f, T) \in Nat
  BY FiniteSubsets, SumNat
<1>2. 0 \in A
  <2>1. ASSUME NEW T \in SUBSET S, R \subseteq T, Cardinality(T) = 0
        PROVE  Sum(f, R) <= Sum(f, T)
    <3>1. R = T
      BY <2>1, FiniteSubsets
    <3> QED BY <1>1, <3>1
  <2> QED BY <2>1
<1>3. ASSUME NEW n \in Nat, n \in A
      PROVE  n + 1 \in A
  <2>1. ASSUME NEW T \in SUBSET S, R \subseteq T, Cardinality(T) = n + 1
        PROVE  Sum(f, R) <= Sum(f, T)
    <3>1. CASE R = T
      BY <1>1, <3>1
    <3>2. ASSUME NEW x \in T \ R
          PROVE  Sum(f, R) <= Sum(f, T)
      <4>1. Sum(f, T) = f[x] + Sum(f, T \ {x})
        BY <1>1, SumRemove
      <4>2. Cardinality(T \ {x}) = n
        <5>1. Cardinality(T \ {x}) = Cardinality(T) - 1
          BY <1>1, FS_RemoveElement
        <5> QED BY <2>1, <5>1
      <4>3. Sum(f, R) <= Sum(f, T \ {x})
        BY <1>3, <2>1, <4>2
      <4>4. f[x] \in Nat /\ Sum(f, T \ {x}) \in Nat /\ Sum(f, R) \in Nat
        BY <1>1
      <4> QED BY <4>1, <4>3, <4>4
    <3> QED BY <2>1, <3>1, <3>2
  <2> QED BY <2>1
<1>4. Nat \subseteq A
  <2> HIDE DEF A
  <2> QED BY <1>2, <1>3, NatInduct
<1> QED BY <1>4, FiniteSubsets
=============================================================================
