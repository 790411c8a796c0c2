----------------------------- MODULE SumTheorems -----------------------------
(***************************************************************************)
(* What the components' proofs need of SumFunctionOnSet: the sum over a    *)
(* finite set of what a function assigns to its elements.  The operator    *)
(* folds the set in an order of its own (CHOOSE), by a function on its     *)
(* subsets that is defined recursively.  That this function exists, and    *)
(* that the order does not matter, is shown by induction over the subsets  *)
(* of a finite set, whose strict inclusion is well founded.                *)
(***************************************************************************)
EXTENDS Integers, Functions, FiniteSetTheorems, WellFoundedInduction, TLAPS

(* A set of subsets that contains T whenever it contains T without any one *)
(* of its elements contains every subset of a finite set.                  *)
LEMMA SubsetInduction ==
  ASSUME NEW S, IsFiniteSet(S), NEW Good,
         \A T \in SUBSET S : (\A x \in T : T \ {x} \in Good) => T \in Good
  PROVE  SUBSET S \subseteq Good
  <1> DEFINE Bad == (SUBSET S) \ Good
  <1>1. Bad \subseteq FiniteSubsetsOf(S)
    BY FS_Subset DEF FiniteSubsetsOf
  <1>2. SUFFICES ASSUME Bad # {} PROVE FALSE
    OBVIOUS
  <1>3. PICK T \in Bad : \A U \in Bad : ~(<<U, T>> \in StrictSubsetOrdering(S))
    <2> HIDE DEF Bad
    <2>1. IsWellFoundedOn(StrictSubsetOrdering(S), FiniteSubsetsOf(S))
      BY FS_StrictSubsetOrderingWellFounded
    <2>2. QED
      BY <1>1, <1>2, <2>1, WFMin, Zenon
  <1>4. \A x \in T : T \ {x} \in Good
    <2> SUFFICES ASSUME NEW x \in T, T \ {x} \notin Good PROVE FALSE
      OBVIOUS
    <2>1. T \ {x} \in Bad
      OBVIOUS
    <2>2. <<T \ {x}, T>> \in StrictSubsetOrdering(S)
      BY DEF StrictSubsetOrdering
    <2>3. QED
      BY <1>3, <2>1, <2>2
  <1>5. QED
    BY <1>4

(* The same for the natural numbers.                                       *)
LEMMA NaturalsCovered ==
  ASSUME NEW Good, 0 \in Good, \A n \in Nat : n \in Good => n + 1 \in Good
  PROVE  Nat \subseteq Good
  <1> DEFINE Bad == Nat \ Good
  <1>1. SUFFICES ASSUME Bad # {} PROVE FALSE
    OBVIOUS
  <1>2. PICK n \in Bad : \A m \in Bad : ~(<<m, n>> \in OpToRel(<, Nat))
    <2>1. Bad \subseteq Nat
      OBVIOUS
    <2> HIDE DEF Bad
    <2>2. QED
      BY <1>1, <2>1, NatLessThanWellFounded, WFMin, Zenon
  <1>3. n # 0 /\ n \in Nat
    OBVIOUS
  <1>4. n - 1 \in Bad
    BY <1>3
  <1>5. <<n - 1, n>> \in OpToRel(<, Nat)
    BY <1>3 DEF OpToRel
  <1>6. QED
    BY <1>2, <1>4, <1>5

(* Numbers have a least one.                                               *)
LEMMA LeastNumber ==
  ASSUME NEW S \in SUBSET Nat, S # {}
  PROVE  \E n \in S : \A m \in S : n <= m
  <1>1. PICK n \in S : \A m \in S : ~(<<m, n>> \in OpToRel(<, Nat))
    BY NatLessThanWellFounded, WFMin, Zenon
  <1>2. ASSUME NEW m \in S PROVE n <= m
    <2>1. <<m, n>> \in Nat \X Nat
      OBVIOUS
    <2>2. ~(m < n)
      BY <1>1, <2>1 DEF OpToRel
    <2>3. QED
      BY <2>2
  <1>3. QED
    BY <1>2

-----------------------------------------------------------------------------
(* The element that the fold takes first, and the equation that defines    *)
(* the fold at a set s.                                                    *)
First(s) == CHOOSE x \in s : TRUE
Folds(g, f, s) == g[s] = IF s = {} THEN 0 ELSE f[First(s)] + g[s \ {First(s)}]

(* There is a function that folds every subset of a finite set.            *)
LEMMA FoldExists ==
  ASSUME NEW S, IsFiniteSet(S), NEW f, \A x \in S : f[x] \in Int
  PROVE  \E g \in [SUBSET S -> Int] : \A s \in SUBSET S : Folds(g, f, s)
  <1> DEFINE FoldsUpTo(g, n) == \A s \in SUBSET S : Cardinality(s) <= n => Folds(g, f, s)
             Good == {n \in Nat : \E g \in [SUBSET S -> Int] : FoldsUpTo(g, n)}
  <1>1. \A s \in SUBSET S : IsFiniteSet(s) /\ Cardinality(s) \in Nat
    BY FS_Subset, FS_CardinalityType
  <1>2. \A s \in SUBSET S : Cardinality(s) = 0 <=> s = {}
    BY <1>1, FS_EmptySet
  <1>3. \A s \in SUBSET S : s # {} => First(s) \in s
    BY DEF First
  <1>4. \A s \in SUBSET S : s # {} => Cardinality(s \ {First(s)}) = Cardinality(s) - 1
    BY <1>1, <1>3, FS_RemoveElement
  <1>5. 0 \in Good
    <2>1. [s \in SUBSET S |-> 0] \in [SUBSET S -> Int]
      OBVIOUS
    <2>2. FoldsUpTo([s \in SUBSET S |-> 0], 0)
      BY <1>1, <1>2 DEF Folds
    <2>3. QED
      BY <2>1, <2>2
  <1>6. ASSUME NEW n \in Nat, n \in Good PROVE n + 1 \in Good
    <2>1. PICK g \in [SUBSET S -> Int] : FoldsUpTo(g, n)
      BY <1>6
    <2> DEFINE h == [s \in SUBSET S |-> IF Cardinality(s) <= n THEN g[s]
                                        ELSE f[First(s)] + g[s \ {First(s)}]]
    <2>2. ASSUME NEW s \in SUBSET S, ~(Cardinality(s) <= n) PROVE s # {} /\ First(s) \in S
      BY <1>1, <1>2, <1>3, <2>2
    <2>3. h \in [SUBSET S -> Int]
      BY <2>2
    <2>4. ASSUME NEW s \in SUBSET S, Cardinality(s) <= n + 1 PROVE Folds(h, f, s)
      <3>1. CASE s = {}
        <4>1. Cardinality(s) <= n /\ Folds(g, f, s)
          BY <1>2, <2>1, <3>1
        <4>2. QED
          BY <3>1, <4>1 DEF Folds
      <3>2. CASE s # {}
        <4> DEFINE t == s \ {First(s)}
        <4>1. t \in SUBSET S /\ Cardinality(t) <= n
          BY <1>1, <1>4, <2>4, <3>2
        <4>2. h[t] = g[t]
          BY <4>1
        <4>3. h[s] = f[First(s)] + g[t]
          BY <2>1, <3>2 DEF Folds
        <4> HIDE DEF h
        <4>4. QED
          BY <3>2, <4>2, <4>3 DEF Folds
      <3>3. QED
        BY <3>1, <3>2
    <2> HIDE DEF h
    <2>5. FoldsUpTo(h, n + 1)
      BY <2>4
    <2>6. QED
      BY <2>3, <2>5
  <1> HIDE DEF Good
  <1>7. Cardinality(S) \in Good
    BY <1>5, <1>6, <1>1, NaturalsCovered
  <1> USE DEF Good
  <1>8. PICK g \in [SUBSET S -> Int] : FoldsUpTo(g, Cardinality(S))
    BY <1>7
  <1>9. QED
    BY <1>1, <1>8, FS_Subset
(* Its values are integers.                                                *)
LEMMA FoldsAreInt ==
  ASSUME NEW S, IsFiniteSet(S), NEW f, \A x \in S : f[x] \in Int,
         NEW g, \A s \in SUBSET S : Folds(g, f, s)
  PROVE  \A s \in SUBSET S : g[s] \in Int
  <1> DEFINE Good == {s \in SUBSET S : g[s] \in Int}
  <1>1. ASSUME NEW s \in SUBSET S, \A x \in s : s \ {x} \in Good PROVE s \in Good
    <2>1. Folds(g, f, s)
      OBVIOUS
    <2>2. CASE s = {}
      BY <2>1, <2>2 DEF Folds
    <2>3. CASE s # {}
      <3>1. First(s) \in s
        BY <2>3 DEF First
      <3>2. f[First(s)] \in Int /\ g[s \ {First(s)}] \in Int
        BY <1>1, <3>1
      <3>3. QED
        BY <2>1, <2>3, <3>2 DEF Folds
    <2>4. QED
      BY <2>2, <2>3
  <1>2. SUBSET S \subseteq Good
    <2> HIDE DEF Good
    <2>1. QED
      BY <1>1, SubsetInduction
  <1>3. QED
    BY <1>2

(* So the recursive definition in MapThenFoldSet defines a function.       *)
Folding(f, S) ==
  CHOOSE g : g = [s \in SUBSET S |-> IF s = {} THEN 0 ELSE f[First(s)] + g[s \ {First(s)}]]

LEMMA SumIsFolding ==
  ASSUME NEW S, IsFiniteSet(S), NEW f, \A x \in S : f[x] \in Int
  PROVE  /\ SumFunctionOnSet(f, S) = Folding(f, S)[S]
         /\ \A s \in SUBSET S : Folds(Folding(f, S), f, s) /\ Folding(f, S)[s] \in Int
  <1> DEFINE Defines(g) ==
        g = [s \in SUBSET S |-> IF s = {} THEN 0 ELSE f[First(s)] + g[s \ {First(s)}]]
  <1>1. SumFunctionOnSet(f, S) = Folding(f, S)[S]
    BY DEF SumFunctionOnSet, FoldFunctionOnSet, MapThenFoldSet, Folding, First
  <1>2. PICK g \in [SUBSET S -> Int] : \A s \in SUBSET S : Folds(g, f, s)
    BY FoldExists
  <1>3. Defines(g)
    BY <1>2 DEF Folds
  <1>4. Defines(Folding(f, S))
    BY <1>3 DEF Folding
  <1>5. \A s \in SUBSET S : Folds(Folding(f, S), f, s)
    BY <1>4 DEF Folds
  <1>6. QED
    BY <1>1, <1>5, FoldsAreInt

(* The sum over a subset can be read off the fold of the whole set.        *)
LEMMA SumOfSubset ==
  ASSUME NEW S, IsFiniteSet(S), NEW f, \A x \in S : f[x] \in Int, NEW T \in SUBSET S
  PROVE  SumFunctionOnSet(f, T) = Folding(f, S)[T]
  <1> DEFINE g == Folding(f, S)  h == Folding(f, T)  Good == {s \in SUBSET T : g[s] = h[s]}
  <1>1. IsFiniteSet(T)
    BY FS_Subset
  <1>2. \A s \in SUBSET T : Folds(g, f, s) /\ Folds(h, f, s)
    BY <1>1, SumIsFolding
  <1>3. ASSUME NEW s \in SUBSET T, \A x \in s : s \ {x} \in Good PROVE s \in Good
    <2> HIDE DEF g, h
    <2>1. CASE s = {}
      BY <1>2, <2>1 DEF Folds
    <2>2. CASE s # {}
      <3>1. First(s) \in s
        BY <2>2 DEF First
      <3>2. g[s \ {First(s)}] = h[s \ {First(s)}]
        BY <1>3, <3>1
      <3>3. QED
        BY <1>2, <2>2, <3>2 DEF Folds
    <2>3. QED
      BY <2>1, <2>2
  <1>4. T \in Good
    <2> HIDE DEF Good
    <2>1. QED
      BY <1>1, <1>3, SubsetInduction
  <1>5. SumFunctionOnSet(f, T) = h[T]
    BY <1>1, SumIsFolding
  <1>6. QED
    BY <1>4, <1>5

-----------------------------------------------------------------------------
(* The facts to cite.  The empty sum is zero.                              *)
LEMMA SumOfEmpty == ASSUME NEW f PROVE SumFunctionOnSet(f, {}) = 0
  <1>1. IsFiniteSet({})
    BY FS_EmptySet
  <1>2. SumFunctionOnSet(f, {}) = Folding(f, {})[{}] /\ Folds(Folding(f, {}), f, {})
    BY <1>1, SumIsFolding
  <1>3. QED
    BY <1>2 DEF Folds

(* A sum of integers is an integer.                                        *)
LEMMA SumIsInt ==
  ASSUME NEW S, IsFiniteSet(S), NEW f, \A x \in S : f[x] \in Int
  PROVE  SumFunctionOnSet(f, S) \in Int
  BY SumIsFolding

(* Any element may be taken out first.                                     *)
LEMMA SumWithout ==
  ASSUME NEW S, IsFiniteSet(S), NEW f, \A x \in S : f[x] \in Int, NEW x \in S
  PROVE  SumFunctionOnSet(f, S) = f[x] + SumFunctionOnSet(f, S \ {x})
  <1> DEFINE g == Folding(f, S)
             Good == {T \in SUBSET S : \A y \in T : g[T] = f[y] + g[T \ {y}]}
  <1>1. \A T \in SUBSET S : Folds(g, f, T) /\ g[T] \in Int
    BY SumIsFolding
  <1>2. ASSUME NEW T \in SUBSET S, \A y \in T : T \ {y} \in Good PROVE T \in Good
    <2> SUFFICES ASSUME NEW y \in T PROVE g[T] = f[y] + g[T \ {y}]
      OBVIOUS
    <2> DEFINE z == First(T)  U == (T \ {y}) \ {z}
    <2>1. z \in T
      BY DEF First
    <2>2. g[T] = f[z] + g[T \ {z}]
      BY <1>1 DEF Folds
    <2>3. CASE z = y
      BY <2>2, <2>3
    <2>4. CASE z # y
      <3>1. T \ {z} \in Good /\ T \ {y} \in Good
        BY <1>2, <2>1
      <3> HIDE DEF g, z
      <3>2. g[T \ {z}] = f[y] + g[(T \ {z}) \ {y}]
        BY <2>4, <3>1
      <3>3. g[T \ {y}] = f[z] + g[U]
        BY <2>1, <2>4, <3>1
      <3>4. (T \ {z}) \ {y} = U
        OBVIOUS
      <3>5. g[T \ {z}] = f[y] + g[U]
        BY <3>2, <3>4
      <3>6. f[y] \in Int /\ f[z] \in Int /\ g[U] \in Int
        BY <1>1, <2>1
      <3> HIDE DEF U
      <3>7. QED
        BY <2>2, <3>3, <3>5, <3>6
    <2>5. QED
      BY <2>3, <2>4
  <1>3. S \in Good
    <2> HIDE DEF Good
    <2>1. QED
      BY <1>2, SubsetInduction
  <1>4. SumFunctionOnSet(f, S) = g[S] /\ SumFunctionOnSet(f, S \ {x}) = g[S \ {x}]
    BY SumOfSubset
  <1>5. QED
    BY <1>3, <1>4

(* A new element adds its value.                                           *)
LEMMA SumWith ==
  ASSUME NEW S, IsFiniteSet(S), NEW x, x \notin S, NEW f, \A y \in S \cup {x} : f[y] \in Int
  PROVE  SumFunctionOnSet(f, S \cup {x}) = f[x] + SumFunctionOnSet(f, S)
  <1>1. IsFiniteSet(S \cup {x})
    BY FS_AddElement
  <1>2. (S \cup {x}) \ {x} = S
    OBVIOUS
  <1>3. QED
    BY <1>1, <1>2, SumWithout

(* The sum depends on the values at the set's elements only.               *)
LEMMA SumOfSame ==
  ASSUME NEW S, IsFiniteSet(S), NEW f, NEW g,
         \A x \in S : f[x] \in Int /\ f[x] = g[x]
  PROVE  SumFunctionOnSet(f, S) = SumFunctionOnSet(g, S)
  <1> DEFINE Good == {T \in SUBSET S : SumFunctionOnSet(f, T) = SumFunctionOnSet(g, T)}
  <1>1. \A T \in SUBSET S : IsFiniteSet(T)
    BY FS_Subset
  <1>2. ASSUME NEW T \in SUBSET S, \A x \in T : T \ {x} \in Good PROVE T \in Good
    <2>1. CASE T = {}
      BY <2>1, SumOfEmpty
    <2>2. ASSUME NEW x \in T PROVE SumFunctionOnSet(f, T) = SumFunctionOnSet(g, T)
      <3>1. SumFunctionOnSet(f, T) = f[x] + SumFunctionOnSet(f, T \ {x})
        BY <1>1, SumWithout
      <3>2. SumFunctionOnSet(g, T) = g[x] + SumFunctionOnSet(g, T \ {x})
        BY <1>1, SumWithout
      <3>3. QED
        BY <1>2, <3>1, <3>2
    <2>3. QED
      BY <2>1, <2>2
  <1>3. S \in Good
    <2> HIDE DEF Good
    <2>1. QED
      BY <1>2, SubsetInduction
  <1>4. QED
    BY <1>3

(* A sum over more elements, none of them negative, is no smaller.         *)
LEMMA SumOfMore ==
  ASSUME NEW S, IsFiniteSet(S), NEW f, \A x \in S : f[x] \in Nat, NEW T \in SUBSET S
  PROVE  SumFunctionOnSet(f, T) <= SumFunctionOnSet(f, S)
  <1> DEFINE Good == {U \in SUBSET S : T \subseteq U => SumFunctionOnSet(f, T) <= SumFunctionOnSet(f, U)}
  <1>1. \A U \in SUBSET S : IsFiniteSet(U) /\ SumFunctionOnSet(f, U) \in Int
    BY FS_Subset, SumIsInt
  <1>2. ASSUME NEW U \in SUBSET S, \A x \in U : U \ {x} \in Good PROVE U \in Good
    <2> SUFFICES ASSUME T \subseteq U PROVE SumFunctionOnSet(f, T) <= SumFunctionOnSet(f, U)
      OBVIOUS
    <2>1. CASE T = U
      BY <1>1, <2>1
    <2>2. CASE T # U
      <3>1. PICK x \in U : x \notin T
        BY <2>2
      <3>2. SumFunctionOnSet(f, U) = f[x] + SumFunctionOnSet(f, U \ {x})
        BY <1>1, SumWithout
      <3>3. SumFunctionOnSet(f, T) <= SumFunctionOnSet(f, U \ {x})
        BY <1>2, <3>1
      <3>4. QED
        BY <1>1, <3>2, <3>3
    <2>3. QED
      BY <2>1, <2>2
  <1>3. S \in Good
    <2> HIDE DEF Good
    <2>1. QED
      BY <1>2, SubsetInduction
  <1>4. QED
    BY <1>3

(* A sum of larger values is no smaller.                                   *)
LEMMA SumOfLarger ==
  ASSUME NEW S, IsFiniteSet(S), NEW f, NEW g,
         \A x \in S : f[x] \in Int /\ g[x] \in Int /\ f[x] <= g[x]
  PROVE  SumFunctionOnSet(f, S) <= SumFunctionOnSet(g, S)
  <1> DEFINE Good == {T \in SUBSET S : SumFunctionOnSet(f, T) <= SumFunctionOnSet(g, T)}
  <1>1. \A T \in SUBSET S : /\ IsFiniteSet(T)
                            /\ SumFunctionOnSet(f, T) \in Int /\ SumFunctionOnSet(g, T) \in Int
    BY FS_Subset, SumIsInt
  <1>2. ASSUME NEW T \in SUBSET S, \A x \in T : T \ {x} \in Good PROVE T \in Good
    <2>1. CASE T = {}
      BY <2>1, SumOfEmpty
    <2>2. ASSUME NEW x \in T PROVE SumFunctionOnSet(f, T) <= SumFunctionOnSet(g, T)
      <3>1. SumFunctionOnSet(f, T) = f[x] + SumFunctionOnSet(f, T \ {x})
        BY <1>1, SumWithout
      <3>2. SumFunctionOnSet(g, T) = g[x] + SumFunctionOnSet(g, T \ {x})
        BY <1>1, SumWithout
      <3>3. T \ {x} \in SUBSET S
        OBVIOUS
      <3>4. QED
        BY <1>1, <1>2, <3>1, <3>2, <3>3
    <2>3. QED
      BY <2>1, <2>2
  <1>3. S \in Good
    <2> HIDE DEF Good
    <2>1. QED
      BY <1>2, SubsetInduction
  <1>4. QED
    BY <1>3

(* A sum of zeros is zero.                                                 *)
LEMMA SumOfZeros ==
  ASSUME NEW S, IsFiniteSet(S), NEW f, \A x \in S : f[x] = 0
  PROVE  SumFunctionOnSet(f, S) = 0
  <1> DEFINE Good == {T \in SUBSET S : SumFunctionOnSet(f, T) = 0}
  <1>1. ASSUME NEW T \in SUBSET S, \A x \in T : T \ {x} \in Good PROVE T \in Good
    <2>1. CASE T = {}
      BY <2>1, SumOfEmpty
    <2>2. ASSUME NEW x \in T PROVE SumFunctionOnSet(f, T) = 0
      <3>1. IsFiniteSet(T)
        BY FS_Subset
      <3>2. SumFunctionOnSet(f, T) = f[x] + SumFunctionOnSet(f, T \ {x})
        BY <3>1, SumWithout
      <3>3. QED
        BY <1>1, <3>2
    <2>3. QED
      BY <2>1, <2>2
  <1>2. S \in Good
    <2> HIDE DEF Good
    <2>1. QED
      BY <1>1, SubsetInduction
  <1>3. QED
    BY <1>2
=============================================================================
