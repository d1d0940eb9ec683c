-------------------------------- MODULE Sums --------------------------------
(***************************************************************************)
(* What the models need to know of SumFunctionOnSet, the sum of the values *)
(* of a function over a finite set of its arguments.  The operator is a    *)
(* recursive function over the subsets: it takes some element off and adds *)
(* the rest.  That it is well defined, and that the order does not matter, *)
(* follows from the least set among those that would be an exception.      *)
(***************************************************************************)
EXTENDS Integers, FiniteSets, FiniteSetsExt, FiniteSetTheorems, TLAPS

Some(S) == CHOOSE x \in S : TRUE

\* g is the recursive function by which f is summed over the subsets of S.
Adds(f, g, S) ==
    g = [T \in SUBSET S |-> IF T = {} THEN 0 ELSE f[Some(T)] + g[T \ {Some(T)}]]

-----------------------------------------------------------------------------
(* Well-definedness.                                                       *)

\* Of any subsets of a finite set one is least: no other is part of it.
LEMMA LeastSubset ==
    ASSUME NEW S, IsFiniteSet(S), NEW B \in SUBSET (SUBSET S), B # {}
    PROVE  \E T \in B : \A U \in SUBSET T : U # T => U \notin B
<1>1. IsWellFoundedOn(StrictSubsetOrdering(S), SUBSET S)
  BY FS_StrictSubsetOrderingWellFounded, FS_FiniteSubsetsOfFinite
<1>2. PICK T \in B : \A U \in B : <<U, T>> \notin StrictSubsetOrdering(S)
  BY <1>1, WFMin
<1>3. ASSUME NEW U \in SUBSET T, U # T PROVE U \notin B
  BY <1>2, <1>3 DEF StrictSubsetOrdering
<1> QED
  BY <1>3

LEMMA SumIsAdded ==
    \A f, S : SumFunctionOnSet(f, S) = (CHOOSE g : Adds(f, g, S))[S]
  BY DEF SumFunctionOnSet, FoldFunctionOnSet, MapThenFoldSet, Adds, Some

LEMMA SomeIsElement == \A S : S # {} => Some(S) \in S
  BY DEF Some

\* The functions for two sets agree wherever both are defined.
LEMMA AddsAgree ==
    ASSUME NEW S, NEW R, IsFiniteSet(S), NEW f, NEW g, NEW h, Adds(f, g, S), Adds(f, h, R),
           NEW T \in SUBSET S, T \in SUBSET R
    PROVE  g[T] = h[T]
<1> DEFINE B == {U \in SUBSET (S \cap R) : g[U] # h[U]}
<1> SUFFICES ASSUME B # {} PROVE FALSE
  OBVIOUS
<1>1. PICK U \in B : \A V \in SUBSET U : V # U => V \notin B
  <2>1. IsFiniteSet(S \cap R) /\ B \in SUBSET (SUBSET (S \cap R))
    BY FS_Subset
  <2> HIDE DEF B
  <2> QED
    BY <2>1, LeastSubset
<1>2. g[U] = IF U = {} THEN 0 ELSE f[Some(U)] + g[U \ {Some(U)}]
  BY DEF Adds
<1>3. h[U] = IF U = {} THEN 0 ELSE f[Some(U)] + h[U \ {Some(U)}]
  BY DEF Adds
<1>4. U # {}
  BY <1>2, <1>3
<1>5. g[U \ {Some(U)}] = h[U \ {Some(U)}]
  BY <1>1, <1>4, SomeIsElement
<1> QED
  BY <1>2, <1>3, <1>4, <1>5

\* There is such a function for every finite set.
LEMMA AddsExists ==
    ASSUME NEW S, IsFiniteSet(S), NEW f
    PROVE  \E g : Adds(f, g, S)
<1> DEFINE B == {T \in SUBSET S : ~ \E g : Adds(f, g, T)}
<1> SUFFICES ASSUME B # {} PROVE FALSE
  OBVIOUS
<1>1. PICK T \in B : \A U \in SUBSET T : U # T => U \notin B
  <2>1. B \in SUBSET (SUBSET S)
    OBVIOUS
  <2> HIDE DEF B
  <2> QED
    BY <2>1, LeastSubset
<1> DEFINE G(U) == CHOOSE g : Adds(f, g, U)
           value(U) == IF U = {} THEN 0 ELSE f[Some(U)] + G(U \ {Some(U)})[U \ {Some(U)}]
           g == [U \in SUBSET T |-> value(U)]
<1>2. ASSUME NEW U \in SUBSET T, U # T PROVE Adds(f, G(U), U)
  <2>1. \E h : Adds(f, h, U)
    BY <1>1, <1>2
  <2> QED
    BY <2>1
<1>3. ASSUME NEW U \in SUBSET T, U # T PROVE G(U)[U] = value(U)
  <2>1. G(U)[U] = IF U = {} THEN 0 ELSE f[Some(U)] + G(U)[U \ {Some(U)}]
    <3>1. Adds(f, G(U), U)
      BY <1>2, <1>3
    <3> HIDE DEF G
    <3> QED
      BY <3>1 DEF Adds
  <2>2. ASSUME U # {} PROVE G(U)[U \ {Some(U)}] = G(U \ {Some(U)})[U \ {Some(U)}]
    <3> DEFINE V == U \ {Some(U)}
    <3>1. V \in SUBSET U /\ V \in SUBSET T /\ V # T
      BY <2>2, <1>3, SomeIsElement
    <3>2. Adds(f, G(U), U) /\ Adds(f, G(V), V)
      BY <3>1, <1>2, <1>3
    <3>3. IsFiniteSet(U)
      BY FS_Subset
    <3> HIDE DEF G
    <3> QED
      BY <3>1, <3>2, <3>3, AddsAgree
  <2> HIDE DEF G
  <2> QED
    BY <2>1, <2>2
<1>4. ASSUME NEW U \in SUBSET T, U # {}
      PROVE  G(U \ {Some(U)})[U \ {Some(U)}] = g[U \ {Some(U)}]
  <2>1. U \ {Some(U)} \in SUBSET T /\ U \ {Some(U)} # T
    BY <1>4, SomeIsElement
  <2> HIDE DEF G
  <2> QED
    BY <2>1, <1>3
<1>5. g = [U \in SUBSET T |-> IF U = {} THEN 0 ELSE f[Some(U)] + g[U \ {Some(U)}]]
  <2> HIDE DEF G
  <2> QED
    BY <1>4
<1>6. Adds(f, g, T)
  <2> HIDE DEF g
  <2> QED
    BY <1>5 DEF Adds
<1> QED
  BY <1>6

\* The equation by which the sum is defined.
LEMMA SumDefined ==
    ASSUME NEW S, IsFiniteSet(S), NEW f
    PROVE  SumFunctionOnSet(f, S) =
               IF S = {} THEN 0
               ELSE f[Some(S)] + SumFunctionOnSet(f, S \ {Some(S)})
<1> DEFINE G(T) == CHOOSE g : Adds(f, g, T)
<1>1. ASSUME NEW T \in SUBSET S PROVE Adds(f, G(T), T)
  BY AddsExists, FS_Subset
<1>2. G(S)[S] = IF S = {} THEN 0 ELSE f[Some(S)] + G(S)[S \ {Some(S)}]
  <2>1. Adds(f, G(S), S)
    BY <1>1
  <2> HIDE DEF G
  <2> QED
    BY <2>1 DEF Adds
<1>3. G(S)[S \ {Some(S)}] = G(S \ {Some(S)})[S \ {Some(S)}]
  <2>1. Adds(f, G(S), S) /\ Adds(f, G(S \ {Some(S)}), S \ {Some(S)})
    BY <1>1
  <2> HIDE DEF G
  <2> QED
    BY <2>1, AddsAgree
<1> QED
  BY <1>2, <1>3, SumIsAdded
-----------------------------------------------------------------------------
(* Values.  A property of finite sets holds of all of them if no set is    *)
(* least among the exceptions: LeastSubset stands for induction.           *)

LEMMA SumOfEmpty == \A f : SumFunctionOnSet(f, {}) = 0
<1> SUFFICES ASSUME NEW f PROVE SumFunctionOnSet(f, {}) = 0
  OBVIOUS
<1> QED
  BY SumDefined, FS_EmptySet

\* Equal values have equal sums.
LEMMA SumAgrees ==
    ASSUME NEW S, IsFiniteSet(S), NEW f, NEW g, \A x \in S : f[x] = g[x]
    PROVE  SumFunctionOnSet(f, S) = SumFunctionOnSet(g, S)
<1> DEFINE B == {T \in SUBSET S : SumFunctionOnSet(f, T) # SumFunctionOnSet(g, T)}
<1> SUFFICES ASSUME B # {} PROVE FALSE
  OBVIOUS
<1>1. PICK T \in B : \A U \in SUBSET T : U # T => U \notin B
  <2>1. B \in SUBSET (SUBSET S)
    OBVIOUS
  <2> HIDE DEF B
  <2> QED
    BY <2>1, LeastSubset
<1>2. T # {}
  BY SumOfEmpty
<1> DEFINE R == T \ {Some(T)}
<1>3. SumFunctionOnSet(f, R) = SumFunctionOnSet(g, R)
  BY <1>1, <1>2, SomeIsElement
<1>4. /\ SumFunctionOnSet(f, T) = f[Some(T)] + SumFunctionOnSet(f, R)
      /\ SumFunctionOnSet(g, T) = g[Some(T)] + SumFunctionOnSet(g, R)
  <2>1. IsFiniteSet(T)
    BY FS_Subset
  <2> QED
    BY <2>1, <1>2, SumDefined
<1> QED
  BY <1>2, <1>3, <1>4, SomeIsElement

LEMMA SumOfZeros ==
    ASSUME NEW S, IsFiniteSet(S), NEW f, \A x \in S : f[x] = 0
    PROVE  SumFunctionOnSet(f, S) = 0
<1> DEFINE B == {T \in SUBSET S : SumFunctionOnSet(f, T) # 0}
<1> SUFFICES ASSUME B # {} PROVE FALSE
  OBVIOUS
<1>1. PICK T \in B : \A U \in SUBSET T : U # T => U \notin B
  <2>1. B \in SUBSET (SUBSET S)
    OBVIOUS
  <2> HIDE DEF B
  <2> QED
    BY <2>1, LeastSubset
<1>2. T # {}
  BY SumOfEmpty
<1> DEFINE R == T \ {Some(T)}
<1>3. SumFunctionOnSet(f, R) = 0
  BY <1>1, <1>2, SomeIsElement
<1>4. SumFunctionOnSet(f, T) = f[Some(T)] + SumFunctionOnSet(f, R)
  <2>1. IsFiniteSet(T)
    BY FS_Subset
  <2> QED
    BY <2>1, <1>2, SumDefined
<1> QED
  BY <1>2, <1>3, <1>4, SomeIsElement

\* Integers have an integer sum.
LEMMA SumIsInt ==
    ASSUME NEW S, IsFiniteSet(S), NEW f, \A x \in S : f[x] \in Int
    PROVE  SumFunctionOnSet(f, S) \in Int
<1> DEFINE B == {T \in SUBSET S : SumFunctionOnSet(f, T) \notin Int}
<1> SUFFICES ASSUME B # {} PROVE FALSE
  OBVIOUS
<1>1. PICK T \in B : \A U \in SUBSET T : U # T => U \notin B
  <2>1. B \in SUBSET (SUBSET S)
    OBVIOUS
  <2> HIDE DEF B
  <2> QED
    BY <2>1, LeastSubset
<1>2. T # {}
  BY SumOfEmpty
<1>3. SumFunctionOnSet(f, T \ {Some(T)}) \in Int
  BY <1>1, <1>2, SomeIsElement
<1>4. SumFunctionOnSet(f, T) = f[Some(T)] + SumFunctionOnSet(f, T \ {Some(T)})
  <2>1. IsFiniteSet(T)
    BY FS_Subset
  <2> QED
    BY <2>1, <1>2, SumDefined
<1>5. f[Some(T)] \in Int
  BY <1>2, SomeIsElement
<1> QED
  BY <1>3, <1>4, <1>5

\* Any element can be taken off first, not only the one the definition takes.
LEMMA SumWithout ==
    ASSUME NEW S, IsFiniteSet(S), NEW f, \A x \in S : f[x] \in Int, NEW y \in S
    PROVE  SumFunctionOnSet(f, S) = f[y] + SumFunctionOnSet(f, S \ {y})
<1> DEFINE Sum(T) == SumFunctionOnSet(f, T)
           B == {T \in SUBSET S : \E z \in T : Sum(T) # f[z] + Sum(T \ {z})}
<1> SUFFICES ASSUME B # {} PROVE FALSE
  OBVIOUS
<1>1. PICK T \in B : \A U \in SUBSET T : U # T => U \notin B
  <2>1. B \in SUBSET (SUBSET S)
    OBVIOUS
  <2> HIDE DEF B
  <2> QED
    BY <2>1, LeastSubset
<1>2. PICK z \in T : Sum(T) # f[z] + Sum(T \ {z})
  OBVIOUS
<1> DEFINE x == Some(T)
<1>3. x \in T /\ T \in SUBSET S
  BY SomeIsElement
<1>4. Sum(T) = f[x] + Sum(T \ {x})
  <2>1. IsFiniteSet(T)
    BY FS_Subset
  <2> QED
    BY <2>1, <1>3, SumDefined
<1>5. x # z
  BY <1>2, <1>4
<1>6. Sum(T \ {x}) = f[z] + Sum((T \ {x}) \ {z})
  BY <1>1, <1>3, <1>5
<1>7. Sum(T \ {z}) = f[x] + Sum((T \ {z}) \ {x})
  BY <1>1, <1>3, <1>5
<1>8. Sum((T \ {x}) \ {z}) = Sum((T \ {z}) \ {x})
  <2>1. (T \ {x}) \ {z} = (T \ {z}) \ {x}
    OBVIOUS
  <2> QED
    BY <2>1, Zenon
<1>9. Sum((T \ {z}) \ {x}) \in Int
  BY <1>3, FS_Subset, SumIsInt
<1>10. f[x] \in Int /\ f[z] \in Int
  BY <1>3
<1> HIDE DEF Sum, B, x
<1> QED
  BY <1>2, <1>4, <1>6, <1>7, <1>8, <1>9, <1>10

\* One element more, and one value changed.
LEMMA SumWith ==
    ASSUME NEW S, IsFiniteSet(S), NEW f, \A x \in S : f[x] \in Int,
           NEW y, y \notin S, f[y] \in Int
    PROVE  SumFunctionOnSet(f, S \cup {y}) = SumFunctionOnSet(f, S) + f[y]
<1>1. IsFiniteSet(S \cup {y})
  BY FS_AddElement
<1>2. SumFunctionOnSet(f, S \cup {y}) = f[y] + SumFunctionOnSet(f, (S \cup {y}) \ {y})
  BY <1>1, SumWithout
<1>3. SumFunctionOnSet(f, (S \cup {y}) \ {y}) = SumFunctionOnSet(f, S)
  <2>1. (S \cup {y}) \ {y} = S
    OBVIOUS
  <2> QED
    BY <2>1, Zenon
<1>4. SumFunctionOnSet(f, S) \in Int
  BY SumIsInt
<1> QED
  BY <1>2, <1>3, <1>4

LEMMA SumChangedAt ==
    ASSUME NEW S, IsFiniteSet(S), NEW f, NEW g, NEW y \in S,
           \A x \in S : f[x] \in Int /\ g[x] \in Int,
           \A x \in S \ {y} : f[x] = g[x]
    PROVE  SumFunctionOnSet(g, S) = SumFunctionOnSet(f, S) - f[y] + g[y]
<1>1. IsFiniteSet(S \ {y})
  BY FS_RemoveElement
<1>2. /\ SumFunctionOnSet(f, S) = f[y] + SumFunctionOnSet(f, S \ {y})
      /\ SumFunctionOnSet(g, S) = g[y] + SumFunctionOnSet(g, S \ {y})
  BY SumWithout
<1>3. SumFunctionOnSet(f, S \ {y}) = SumFunctionOnSet(g, S \ {y})
  BY <1>1, SumAgrees
<1>4. SumFunctionOnSet(f, S \ {y}) \in Int
  BY <1>1, SumIsInt
<1> QED
  BY <1>2, <1>3, <1>4

\* Raising the values of P by one each raises the sum by the elements of P.
LEMMA SumRaised ==
    ASSUME NEW S, IsFiniteSet(S), NEW P \in SUBSET S, NEW f, NEW g,
           \A x \in S : f[x] \in Int,
           \A x \in P : g[x] = f[x] + 1, \A x \in S \ P : g[x] = f[x]
    PROVE  SumFunctionOnSet(g, S) = SumFunctionOnSet(f, S) + Cardinality(P)
<1> DEFINE Raised(T) == SumFunctionOnSet(g, T) = SumFunctionOnSet(f, T) + Cardinality(P \cap T)
           B == {T \in SUBSET S : ~Raised(T)}
<1>1. ASSUME B # {} PROVE FALSE
  <2>1. PICK T \in B : \A U \in SUBSET T : U # T => U \notin B
    <3>1. B \in SUBSET (SUBSET S)
      OBVIOUS
    <3> HIDE DEF B
    <3> QED
      BY <1>1, <3>1, LeastSubset
  <2>2. IsFiniteSet(T) /\ IsFiniteSet(P \cap T)
    BY FS_Subset
  <2>3. PICK x \in T : TRUE
    <3>1. Raised({})
      <4>1. P \cap {} = {}
        OBVIOUS
      <4> QED
        BY <4>1, SumOfEmpty, FS_EmptySet
    <3>2. ~Raised(T)
      OBVIOUS
    <3> HIDE DEF Raised
    <3> QED
      BY <3>1, <3>2
  <2> DEFINE R == T \ {x}
  <2>4. SumFunctionOnSet(g, R) = SumFunctionOnSet(f, R) + Cardinality(P \cap R)
    BY <2>1
  <2>5. /\ SumFunctionOnSet(g, T) = g[x] + SumFunctionOnSet(g, R)
        /\ SumFunctionOnSet(f, T) = f[x] + SumFunctionOnSet(f, R)
    BY <2>2, SumWithout
  <2>6. Cardinality(P \cap R) =
            IF x \in P THEN Cardinality(P \cap T) - 1 ELSE Cardinality(P \cap T)
    <3>1. P \cap R = (P \cap T) \ {x}
      OBVIOUS
    <3> QED
      BY <2>2, <3>1, FS_RemoveElement
  <2>7. SumFunctionOnSet(f, R) \in Int /\ Cardinality(P \cap T) \in Nat
    BY <2>2, FS_RemoveElement, FS_CardinalityType, SumIsInt
  <2> HIDE DEF R
  <2>8. SumFunctionOnSet(g, T) = SumFunctionOnSet(f, T) + Cardinality(P \cap T)
    BY <2>4, <2>5, <2>6, <2>7
  <2> QED
    BY <2>8
<1>2. P \cap S = P
  OBVIOUS
<1> QED
  BY <1>1, <1>2

\* Values of at most k each have a sum of at most k for each element.
LEMMA SumBounded ==
    ASSUME NEW S, IsFiniteSet(S), NEW k \in Int, NEW f, \A x \in S : f[x] \in Int /\ f[x] <= k
    PROVE  SumFunctionOnSet(f, S) <= k * Cardinality(S)
<1> DEFINE B == {T \in SUBSET S : ~ SumFunctionOnSet(f, T) <= k * Cardinality(T)}
<1> SUFFICES ASSUME B # {} PROVE FALSE
  OBVIOUS
<1>1. PICK T \in B : \A U \in SUBSET T : U # T => U \notin B
  <2>1. B \in SUBSET (SUBSET S)
    OBVIOUS
  <2> HIDE DEF B
  <2> QED
    BY <2>1, LeastSubset
<1>2. PICK y \in T : TRUE
  <2>1. SumFunctionOnSet(f, {}) <= k * Cardinality({})
    BY SumOfEmpty, FS_EmptySet
  <2> QED
    BY <2>1
<1> DEFINE R == T \ {y}
<1>3. SumFunctionOnSet(f, R) <= k * Cardinality(R)
  BY <1>1
<1>4. SumFunctionOnSet(f, T) = f[y] + SumFunctionOnSet(f, R)
  BY FS_Subset, SumWithout
<1>5. /\ Cardinality(R) = Cardinality(T) - 1 /\ Cardinality(T) \in Int
      /\ SumFunctionOnSet(f, R) \in Int
  <2>1. IsFiniteSet(T) /\ IsFiniteSet(R)
    BY FS_Subset
  <2>2. Cardinality(R) = Cardinality(T) - 1 /\ Cardinality(T) \in Int
    BY <2>1, FS_RemoveElement, FS_CardinalityType
  <2>3. SumFunctionOnSet(f, R) \in Int
    BY <2>1, SumIsInt
  <2> QED
    BY <2>2, <2>3
<1>6. k * Cardinality(R) = k * Cardinality(T) - k /\ k * Cardinality(T) \in Int
  <2>1. \A m, n \in Int : m * (n - 1) = m * n - m /\ m * n \in Int
    OBVIOUS
  <2> HIDE DEF R
  <2> QED
    BY <1>5, <2>1
<1>7. ~ SumFunctionOnSet(f, T) <= k * Cardinality(T)
  OBVIOUS
<1>8. f[y] \in Int /\ f[y] <= k
  OBVIOUS
<1> HIDE DEF R, B
<1> QED
  BY <1>3, <1>4, <1>5, <1>6, <1>7, <1>8
=============================================================================
