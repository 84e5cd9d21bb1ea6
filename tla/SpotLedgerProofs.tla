-------------------------- MODULE SpotLedgerProofs --------------------------
(***************************************************************************)
(* Proofs about SpotLedger, for every set of policies, cycles, actions and *)
(* amounts.                                                                *)
(***************************************************************************)
EXTENDS SpotLedger, FiniteSetTheorems, WellFoundedInduction, TLAPS

-----------------------------------------------------------------------------
(***************************************************************************)
(* Sums.  What the models add up (capital held in a scope, receipts of an  *)
(* intent, inventory of a cycle: the SUM columns of store.py) are sums over*)
(* finite sets.  The facts about them are proved by induction over the     *)
(* subsets of a set.  The summand is a function and the set of good subsets*)
(* is a set, so that no fact has an operator for a parameter and the       *)
(* provers can instantiate every one of them where it is cited.            *)
(***************************************************************************)

\* The sum of a function's values over a set, as the models write it.
SumOf(f, S) == MapThenSumSet(LAMBDA x : f[x], S)

-----------------------------------------------------------------------------
(* Induction. *)

\* What holds of a subset whenever it holds of the smaller ones holds of all.
LEMMA SubsetInduction ==
    ASSUME NEW S, IsFiniteSet(S), NEW Good,
           \A T \in SUBSET S : (\A U \in SUBSET T : U # T => U \in Good) => T \in Good
    PROVE \A T \in SUBSET S : T \in Good
<1> DEFINE Bad == (SUBSET S) \ Good
<1> SUFFICES ASSUME Bad # {}
             PROVE FALSE
  OBVIOUS
<1>1. Bad \subseteq FiniteSubsetsOf(S)
  BY FS_FiniteSubsetsOfFinite
<1>2. IsWellFoundedOn(StrictSubsetOrdering(S), FiniteSubsetsOf(S))
  BY FS_StrictSubsetOrderingWellFounded
<1>3. PICK T \in Bad : \A U \in Bad : ~(<<U, T>> \in StrictSubsetOrdering(S))
  <2> HIDE DEF Bad
  <2> QED BY <1>1, <1>2, WFMin
<1>4. \A U \in SUBSET T : U # T => U \in Good
  BY <1>3 DEF StrictSubsetOrdering
<1>5. T \in SUBSET S /\ T \notin Good
  BY <1>3
<1>6. T \in Good
  BY <1>4, <1>5
<1> QED
  BY <1>5, <1>6

-----------------------------------------------------------------------------
(* The equation of a sum has one solution. *)

\* The element a sum takes next.
Pick(s) == CHOOSE x \in s : TRUE

\* g solves, on the subsets of T, the equation by which a sum is defined.
Solves(f, T, g) ==
    g = [s \in SUBSET T |-> IF s = {} THEN 0 ELSE f[Pick(s)] + g[s \ {Pick(s)}]]

Solution(f, T) == CHOOSE g : Solves(f, T, g)

\* A sum is the value of the function its definition chooses.
LEMMA SumIsSolution ==
    ASSUME NEW f, NEW S
    PROVE SumOf(f, S) = Solution(f, S)[S]
BY DEF SumOf, Solution, Solves, Pick, MapThenSumSet, MapThenFoldSet

\* Two solutions agree where both are defined.
LEMMA SolutionsAgree ==
    ASSUME NEW f, NEW T, NEW V, NEW g, NEW h, Solves(f, T, g), Solves(f, V, h), IsFiniteSet(T)
    PROVE \A s \in SUBSET T : s \subseteq V => g[s] = h[s]
<1> DEFINE Good == {s \in SUBSET T : s \subseteq V => g[s] = h[s]}
<1>1. ASSUME NEW s \in SUBSET T, \A U \in SUBSET s : U # s => U \in Good
      PROVE s \in Good
  <2> SUFFICES ASSUME s \subseteq V
               PROVE g[s] = h[s]
    OBVIOUS
  <2>1. CASE s = {}
    BY <2>1 DEF Solves
  <2>2. CASE s # {}
    <3>1. Pick(s) \in s
      BY <2>2 DEF Pick
    <3>2. g[s] = f[Pick(s)] + g[s \ {Pick(s)}]
      BY <2>2 DEF Solves
    <3>3. h[s] = f[Pick(s)] + h[s \ {Pick(s)}]
      BY <2>2 DEF Solves
    <3>4. s \ {Pick(s)} \in Good
      BY <1>1, <3>1
    <3> QED
      BY <3>2, <3>3, <3>4
  <2> QED
    BY <2>1, <2>2
<1>2. \A s \in SUBSET T : s \in Good
  <2> HIDE DEF Good
  <2> QED BY <1>1, SubsetInduction
<1> QED
  BY <1>2

\* Every subset of a finite set has a solution, made of those of the smaller ones.
LEMMA SolutionExists ==
    ASSUME NEW f, NEW S, IsFiniteSet(S)
    PROVE \A T \in SUBSET S : \E g : Solves(f, T, g)
<1> DEFINE Good == {T \in SUBSET S : \E g : Solves(f, T, g)}
<1>1. ASSUME NEW T \in SUBSET S, \A U \in SUBSET T : U # T => U \in Good
      PROVE T \in Good
  <2> DEFINE v(s) == Solution(f, s)[s]
             g == [s \in SUBSET T |-> IF s = {} THEN 0 ELSE f[Pick(s)] + v(s \ {Pick(s)})]
  <2>1. \A s \in SUBSET T : s # {} => Pick(s) \in s /\ s \ {Pick(s)} \in SUBSET T /\ s \ {Pick(s)} # T
    BY DEF Pick
  <2>2. ASSUME NEW s \in SUBSET T, s # T
        PROVE g[s] = v(s)
    <3>1. Solves(f, s, Solution(f, s))
      BY <1>1, <2>2 DEF Solution
    <3>2. CASE s = {}
      BY <3>1, <3>2 DEF Solves
    <3>3. CASE s # {}
      <4> DEFINE u == s \ {Pick(s)}
      <4>1. u \in SUBSET s /\ u # T /\ u \in SUBSET T
        BY <2>1, <3>3
      <4>2. Solves(f, u, Solution(f, u))
        BY <1>1, <4>1 DEF Solution
      <4>3. IsFiniteSet(u)
        BY <4>1, FS_Subset
      <4>4. Solution(f, s)[u] = v(u)
        BY <3>1, <4>1, <4>2, <4>3, SolutionsAgree
      <4>5. v(s) = f[Pick(s)] + Solution(f, s)[u]
        BY <3>1, <3>3 DEF Solves
      <4> QED
        BY <3>3, <4>4, <4>5
    <3> QED
      BY <3>2, <3>3
  <2>3. Solves(f, T, g)
    <3>1. \A s \in SUBSET T : s # {} => g[s \ {Pick(s)}] = v(s \ {Pick(s)})
      BY <2>1, <2>2
    <3>2. g = [s \in SUBSET T |-> IF s = {} THEN 0 ELSE f[Pick(s)] + g[s \ {Pick(s)}]]
      BY <3>1
    <3> QED
      BY <3>2 DEF Solves
  <2> QED
    BY <2>3
<1>2. \A T \in SUBSET S : T \in Good
  <2> HIDE DEF Good
  <2> QED BY <1>1, SubsetInduction
<1> QED
  BY <1>2

-----------------------------------------------------------------------------
(* What a sum is. *)

\* Nothing sums to zero.
LEMMA SumEmpty ==
    ASSUME NEW f
    PROVE SumOf(f, {}) = 0
<1>1. \E g : Solves(f, {}, g)
  BY FS_EmptySet, SolutionExists
<1>2. Solves(f, {}, Solution(f, {}))
  BY <1>1 DEF Solution
<1> QED
  BY <1>2, SumIsSolution DEF Solves

\* The equation itself.
LEMMA SumStep ==
    ASSUME NEW f, NEW S, IsFiniteSet(S), S # {}
    PROVE SumOf(f, S) = f[Pick(S)] + SumOf(f, S \ {Pick(S)})
<1> DEFINE T == S \ {Pick(S)}
<1>1. Solves(f, S, Solution(f, S)) /\ Solves(f, T, Solution(f, T))
  BY SolutionExists DEF Solution
<1>2. Solution(f, S)[S] = f[Pick(S)] + Solution(f, S)[T]
  BY <1>1 DEF Solves
<1>3. Solution(f, S)[T] = Solution(f, T)[T]
  BY <1>1, SolutionsAgree
<1> QED
  BY <1>2, <1>3, SumIsSolution

\* Integers sum to an integer.
LEMMA SumInt ==
    ASSUME NEW f, NEW S, IsFiniteSet(S), \A x \in S : f[x] \in Int
    PROVE \A T \in SUBSET S : SumOf(f, T) \in Int
<1> DEFINE Good == {T \in SUBSET S : SumOf(f, T) \in Int}
<1>1. ASSUME NEW T \in SUBSET S, \A U \in SUBSET T : U # T => U \in Good
      PROVE T \in Good
  <2>1. CASE T = {}
    BY <2>1, SumEmpty
  <2>2. CASE T # {}
    <3>1. Pick(T) \in T
      BY <2>2 DEF Pick
    <3>2. SumOf(f, T \ {Pick(T)}) \in Int
      BY <1>1, <3>1
    <3>3. SumOf(f, T) = f[Pick(T)] + SumOf(f, T \ {Pick(T)})
      BY <2>2, FS_Subset, SumStep
    <3> QED
      BY <3>1, <3>2, <3>3
  <2> QED
    BY <2>1, <2>2
<1>2. \A T \in SUBSET S : T \in Good
  <2> HIDE DEF Good
  <2> QED BY <1>1, SubsetInduction
<1> QED
  BY <1>2

\* Any element may be taken first.
LEMMA SumRemove ==
    ASSUME NEW f, NEW S, IsFiniteSet(S), \A x \in S : f[x] \in Int
    PROVE \A T \in SUBSET S : \A x \in T : SumOf(f, T) = f[x] + SumOf(f, T \ {x})
<1> DEFINE Good == {T \in SUBSET S : \A x \in T : SumOf(f, T) = f[x] + SumOf(f, T \ {x})}
<1>1. ASSUME NEW T \in SUBSET S, \A U \in SUBSET T : U # T => U \in Good
      PROVE T \in Good
  <2> SUFFICES ASSUME NEW x \in T
               PROVE SumOf(f, T) = f[x] + SumOf(f, T \ {x})
    OBVIOUS
  <2> DEFINE y == Pick(T)
  <2>1. y \in T
    BY DEF Pick
  <2>2. SumOf(f, T) = f[y] + SumOf(f, T \ {y})
    BY FS_Subset, SumStep
  <2>3. CASE x = y
    BY <2>2, <2>3
  <2>4. CASE x # y
    <3>1. T \ {y} \in Good /\ T \ {x} \in Good
      BY <1>1, <2>1
    <3>2. SumOf(f, T \ {y}) = f[x] + SumOf(f, (T \ {y}) \ {x})
      BY <2>4, <3>1
    <3>3. SumOf(f, T \ {x}) = f[y] + SumOf(f, (T \ {x}) \ {y})
      BY <2>1, <2>4, <3>1
    <3>4. (T \ {y}) \ {x} = (T \ {x}) \ {y}
      OBVIOUS
    <3>5. SumOf(f, (T \ {x}) \ {y}) \in Int /\ f[x] \in Int /\ f[y] \in Int
      BY <2>1, SumInt
    <3>6. SumOf(f, T \ {y}) = f[x] + SumOf(f, (T \ {x}) \ {y})
      BY <3>2, <3>4
    <3> HIDE DEF y, Good
    <3> QED
      BY <2>2, <3>3, <3>5, <3>6
  <2> QED
    BY <2>3, <2>4
<1>2. \A T \in SUBSET S : T \in Good
  <2> HIDE DEF Good
  <2> QED BY <1>1, SubsetInduction
<1> QED
  BY <1>2

\* A new element adds its value.
LEMMA SumAdd ==
    ASSUME NEW f, NEW S, IsFiniteSet(S), NEW x, x \notin S, \A y \in S \cup {x} : f[y] \in Int
    PROVE SumOf(f, S \cup {x}) = f[x] + SumOf(f, S)
<1>1. IsFiniteSet(S \cup {x})
  BY FS_AddElement
<1>2. (S \cup {x}) \ {x} = S
  OBVIOUS
<1> QED
  BY <1>1, <1>2, SumRemove

\* A sum depends on nothing but the values in it.
LEMMA SumSame ==
    ASSUME NEW f, NEW g, NEW S, IsFiniteSet(S), \A x \in S : f[x] = g[x]
    PROVE \A T \in SUBSET S : SumOf(f, T) = SumOf(g, T)
<1> DEFINE Good == {T \in SUBSET S : SumOf(f, T) = SumOf(g, T)}
<1>1. ASSUME NEW T \in SUBSET S, \A U \in SUBSET T : U # T => U \in Good
      PROVE T \in Good
  <2>1. CASE T = {}
    BY <2>1, SumEmpty
  <2>2. CASE T # {}
    <3>1. Pick(T) \in T
      BY <2>2 DEF Pick
    <3>2. T \ {Pick(T)} \in Good
      BY <1>1, <3>1
    <3>3. /\ SumOf(f, T) = f[Pick(T)] + SumOf(f, T \ {Pick(T)})
          /\ SumOf(g, T) = g[Pick(T)] + SumOf(g, T \ {Pick(T)})
      BY <2>2, FS_Subset, SumStep
    <3> QED
      BY <3>1, <3>2, <3>3
  <2> QED
    BY <2>1, <2>2
<1>2. \A T \in SUBSET S : T \in Good
  <2> HIDE DEF Good
  <2> QED BY <1>1, SubsetInduction
<1> QED
  BY <1>2

\* Natural numbers sum to one.
LEMMA SumNat ==
    ASSUME NEW f, NEW S, IsFiniteSet(S), \A x \in S : f[x] \in Nat
    PROVE SumOf(f, S) \in Nat
<1> DEFINE Good == {T \in SUBSET S : SumOf(f, T) \in Nat}
<1>1. ASSUME NEW T \in SUBSET S, \A U \in SUBSET T : U # T => U \in Good
      PROVE T \in Good
  <2>1. CASE T = {}
    BY <2>1, SumEmpty
  <2>2. CASE T # {}
    <3>1. Pick(T) \in T
      BY <2>2 DEF Pick
    <3>2. SumOf(f, T \ {Pick(T)}) \in Nat
      BY <1>1, <3>1
    <3>3. SumOf(f, T) = f[Pick(T)] + SumOf(f, T \ {Pick(T)})
      BY <2>2, FS_Subset, SumStep
    <3> QED
      BY <3>1, <3>2, <3>3
  <2> QED
    BY <2>1, <2>2
<1>2. \A T \in SUBSET S : T \in Good
  <2> HIDE DEF Good
  <2> QED BY <1>1, SubsetInduction
<1> QED
  BY <1>2

\* Changing one value changes the sum by as much.
LEMMA SumChange ==
    ASSUME NEW f, NEW g, NEW S, IsFiniteSet(S), NEW x \in S,
           \A y \in S : f[y] \in Int /\ g[y] \in Int,
           \A y \in S \ {x} : f[y] = g[y]
    PROVE SumOf(g, S) = SumOf(f, S) - f[x] + g[x]
<1>1. SumOf(f, S) = f[x] + SumOf(f, S \ {x}) /\ SumOf(g, S) = g[x] + SumOf(g, S \ {x})
  BY SumRemove
<1>2. SumOf(f, S \ {x}) = SumOf(g, S \ {x})
  <2>1. IsFiniteSet(S \ {x})
    BY FS_RemoveElement
  <2>2. \A T \in SUBSET (S \ {x}) : SumOf(f, T) = SumOf(g, T)
    BY <2>1, SumSame
  <2> QED
    BY <2>2
<1>3. SumOf(f, S \ {x}) \in Int
  BY SumInt
<1> QED
  BY <1>1, <1>2, <1>3

\* The sum over two disjoint sets.
LEMMA SumUnion ==
    ASSUME NEW f, NEW S, NEW R, IsFiniteSet(S), IsFiniteSet(R), S \cap R = {},
           \A x \in S \cup R : f[x] \in Int
    PROVE SumOf(f, S \cup R) = SumOf(f, S) + SumOf(f, R)
<1> DEFINE Good == {T \in SUBSET S : SumOf(f, T \cup R) = SumOf(f, T) + SumOf(f, R)}
<1>0. IsFiniteSet(S \cup R)
  BY FS_Union
<1>1. ASSUME NEW T \in SUBSET S, \A U \in SUBSET T : U # T => U \in Good
      PROVE T \in Good
  <2>1. SumOf(f, R) \in Int
    BY SumInt
  <2>2. CASE T = {}
    <3>1. T \cup R = R
      BY <2>2
    <3> QED
      BY <2>1, <2>2, <3>1, SumEmpty
  <2>3. CASE T # {}
    <3>1. PICK x \in T : TRUE
      BY <2>3
    <3>2. SumOf(f, (T \ {x}) \cup R) = SumOf(f, T \ {x}) + SumOf(f, R)
      BY <1>1, <3>1
    <3>3. SumOf(f, T) = f[x] + SumOf(f, T \ {x})
      BY <3>1, SumRemove
    <3>4. (T \cup R) \ {x} = (T \ {x}) \cup R
      BY <3>1
    <3>5. SumOf(f, T \cup R) = f[x] + SumOf(f, (T \ {x}) \cup R)
      BY <1>0, <3>1, <3>4, SumRemove
    <3>6. f[x] \in Int /\ SumOf(f, T \ {x}) \in Int
      BY <3>1, SumInt
    <3> HIDE DEF Good
    <3>7. SumOf(f, T \cup R) = SumOf(f, T) + SumOf(f, R)
      BY <2>1, <3>2, <3>3, <3>5, <3>6
    <3> QED
      BY <3>7 DEF Good
  <2> QED
    BY <2>2, <2>3
<1>2. \A T \in SUBSET S : T \in Good
  <2> HIDE DEF Good
  <2> QED BY <1>1, SubsetInduction
<1> QED
  BY <1>2


\* A sum of sums.
LEMMA SumPlus ==
    ASSUME NEW f, NEW g, NEW h, NEW S, IsFiniteSet(S),
           \A x \in S : f[x] \in Int /\ g[x] \in Int /\ h[x] = f[x] + g[x]
    PROVE SumOf(h, S) = SumOf(f, S) + SumOf(g, S)
<1> DEFINE Good == {T \in SUBSET S : SumOf(h, T) = SumOf(f, T) + SumOf(g, T)}
<1>1. ASSUME NEW T \in SUBSET S, \A U \in SUBSET T : U # T => U \in Good
      PROVE T \in Good
  <2>1. CASE T = {}
    BY <2>1, SumEmpty
  <2>2. CASE T # {}
    <3> DEFINE x == Pick(T)
               R == T \ {x}
    <3>1. x \in T /\ x \in S
      BY <2>2 DEF Pick
    <3>2. SumOf(h, R) = SumOf(f, R) + SumOf(g, R)
      BY <1>1, <3>1
    <3>3. /\ SumOf(f, T) = f[x] + SumOf(f, R)
          /\ SumOf(g, T) = g[x] + SumOf(g, R)
          /\ SumOf(h, T) = h[x] + SumOf(h, R)
      BY <2>2, FS_Subset, SumStep
    <3>4. SumOf(f, R) \in Int /\ SumOf(g, R) \in Int
      BY SumInt
    <3> HIDE DEF x, R
    <3> QED
      BY <3>1, <3>2, <3>3, <3>4
  <2> QED
    BY <2>1, <2>2
<1>2. \A T \in SUBSET S : T \in Good
  <2> HIDE DEF Good
  <2> QED BY <1>1, SubsetInduction
<1> QED
  BY <1>2

\* Summing by kind and then over the kinds is summing once.
LEMMA SumFibres ==
    ASSUME NEW f, NEW k, NEW R, NEW C, IsFiniteSet(R), IsFiniteSet(C), \A x \in R : f[x] \in Int
    PROVE SumOf([c \in C |-> SumOf(f, {x \in R : k[x] = c})], C) = SumOf(f, {x \in R : k[x] \in C})
<1> DEFINE fibre(c) == {x \in R : k[x] = c}
           over(T) == {x \in R : k[x] \in T}
           h == [c \in C |-> SumOf(f, fibre(c))]
           Good == {T \in SUBSET C : SumOf(h, T) = SumOf(f, over(T))}
<1>1. \A T : IsFiniteSet(over(T)) /\ \A x \in over(T) : f[x] \in Int
  BY FS_Subset
<1>2. \A c \in C : h[c] = SumOf(f, fibre(c)) /\ h[c] \in Int
  BY SumInt
<1>3. ASSUME NEW T \in SUBSET C, \A U \in SUBSET T : U # T => U \in Good
      PROVE T \in Good
  <2>1. CASE T = {}
    <3>1. over(T) = {}
      BY <2>1
    <3> QED
      BY <2>1, <3>1, SumEmpty
  <2>2. CASE T # {}
    <3>1. PICK c \in T : TRUE
      BY <2>2
    <3> DEFINE U == T \ {c}
    <3>2. SumOf(h, U) = SumOf(f, over(U))
      BY <1>3, <3>1
    <3>3. SumOf(h, T) = h[c] + SumOf(h, U)
      <4>1. IsFiniteSet(T) /\ \A d \in T : h[d] \in Int
        BY <1>2, FS_Subset
      <4> HIDE DEF h
      <4> QED
        BY <3>1, <4>1, SumRemove
    <3>4. fibre(c) \cap over(U) = {} /\ fibre(c) \cup over(U) = over(T)
      BY <3>1
    <3>5. IsFiniteSet(fibre(c)) /\ IsFiniteSet(over(U)) /\ \A x \in fibre(c) \cup over(U) : f[x] \in Int
      BY <1>1, FS_Subset
    <3>6. SumOf(f, over(T)) = SumOf(f, fibre(c)) + SumOf(f, over(U))
      <4> HIDE DEF fibre, over, U
      <4>1. SumOf(f, fibre(c) \cup over(U)) = SumOf(f, fibre(c)) + SumOf(f, over(U))
        BY <3>4, <3>5, SumUnion
      <4> QED
        BY <3>4, <4>1
    <3>7. SumOf(h, T) = SumOf(f, over(T))
      BY <1>2, <3>1, <3>2, <3>3, <3>6
    <3> QED
      BY <3>7
  <2> QED
    BY <2>1, <2>2
<1>4. \A T \in SUBSET C : T \in Good
  <2> HIDE DEF Good
  <2> QED BY <1>3, SubsetInduction
<1> QED
  BY <1>4

\* Values that do not grow have a sum that does not grow.
LEMMA SumMonotone ==
    ASSUME NEW f, NEW g, NEW S, IsFiniteSet(S),
           \A x \in S : f[x] \in Int /\ g[x] \in Int /\ f[x] <= g[x]
    PROVE SumOf(f, S) <= SumOf(g, S)
<1> DEFINE Good == {T \in SUBSET S : SumOf(f, T) <= SumOf(g, T)}
<1>1. ASSUME NEW T \in SUBSET S, \A U \in SUBSET T : U # T => U \in Good
      PROVE T \in Good
  <2>1. CASE T = {}
    BY <2>1, SumEmpty
  <2>2. CASE T # {}
    <3> DEFINE x == Pick(T)
               R == T \ {x}
    <3>1. x \in T /\ x \in S
      BY <2>2 DEF Pick
    <3>2. SumOf(f, R) <= SumOf(g, R)
      BY <1>1, <3>1
    <3>3. SumOf(f, T) = f[x] + SumOf(f, R) /\ SumOf(g, T) = g[x] + SumOf(g, R)
      BY <2>2, FS_Subset, SumStep
    <3>4. SumOf(f, R) \in Int /\ SumOf(g, R) \in Int
      BY SumInt
    <3> HIDE DEF x, R
    <3> QED
      BY <3>1, <3>2, <3>3, <3>4
  <2> QED
    BY <2>1, <2>2
<1>2. \A T \in SUBSET S : T \in Good
  <2> HIDE DEF Good
  <2> QED BY <1>1, SubsetInduction
<1> QED
  BY <1>2

\* Zeros sum to zero.
LEMMA SumZero ==
    ASSUME NEW f, NEW S, IsFiniteSet(S), \A x \in S : f[x] = 0
    PROVE SumOf(f, S) = 0
<1> DEFINE Good == {T \in SUBSET S : SumOf(f, T) = 0}
<1>1. ASSUME NEW T \in SUBSET S, \A U \in SUBSET T : U # T => U \in Good
      PROVE T \in Good
  <2>1. CASE T = {}
    BY <2>1, SumEmpty
  <2>2. CASE T # {}
    <3>1. Pick(T) \in T
      BY <2>2 DEF Pick
    <3>2. SumOf(f, T \ {Pick(T)}) = 0
      BY <1>1, <3>1
    <3>3. SumOf(f, T) = f[Pick(T)] + SumOf(f, T \ {Pick(T)})
      BY <2>2, SumStep, FS_Subset
    <3> QED
      BY <3>1, <3>2, <3>3
  <2> QED
    BY <2>1, <2>2
<1>2. \A T \in SUBSET S : T \in Good
  <2> HIDE DEF Good
  <2> QED BY <1>1, SubsetInduction
<1> QED
  BY <1>2

\* Part of a sum of natural numbers is no more than the whole.
LEMMA SumPart ==
    ASSUME NEW f, NEW S, IsFiniteSet(S), \A x \in S : f[x] \in Nat
    PROVE \A T \in SUBSET S : SumOf(f, T) <= SumOf(f, S)
<1> SUFFICES ASSUME NEW T \in SUBSET S
             PROVE SumOf(f, T) <= SumOf(f, S)
  OBVIOUS
<1> DEFINE R == S \ T
<1>1. IsFiniteSet(T) /\ IsFiniteSet(R) /\ T \cap R = {} /\ T \cup R = S
  BY FS_Subset
<1>2. SumOf(f, T) \in Nat /\ SumOf(f, R) \in Nat
  <2>1. (\A x \in T : f[x] \in Nat) /\ (\A x \in R : f[x] \in Nat)
    OBVIOUS
  <2> HIDE DEF R
  <2> QED BY <1>1, <2>1, SumNat
<1>3. SumOf(f, T \cup R) = SumOf(f, T) + SumOf(f, R)
  <2> HIDE DEF R
  <2> QED BY <1>1, SumUnion
<1>4. SumOf(f, S) = SumOf(f, T) + SumOf(f, R)
  <2> HIDE DEF R
  <2> QED BY <1>1, <1>3
<1> HIDE DEF R
<1> QED
  BY <1>2, <1>4

\* A common factor may be taken out of a sum.
LEMMA SumScale ==
    ASSUME NEW f, NEW g, NEW S, IsFiniteSet(S), NEW k \in Int,
           \A x \in S : f[x] \in Int /\ g[x] = k * f[x]
    PROVE SumOf(g, S) = k * SumOf(f, S)
<1> DEFINE Good == {T \in SUBSET S : SumOf(g, T) = k * SumOf(f, T)}
<1>1. ASSUME NEW T \in SUBSET S, \A U \in SUBSET T : U # T => U \in Good
      PROVE T \in Good
  <2>1. CASE T = {}
    BY <2>1, SumEmpty
  <2>2. CASE T # {}
    <3> DEFINE y == Pick(T)
    <3>1. y \in T
      BY <2>2 DEF Pick
    <3>2. SumOf(g, T \ {y}) = k * SumOf(f, T \ {y})
      BY <1>1, <3>1
    <3>3. /\ SumOf(f, T) = f[y] + SumOf(f, T \ {y})
          /\ SumOf(g, T) = g[y] + SumOf(g, T \ {y})
      BY <2>2, SumStep, FS_Subset
    <3>4. f[y] \in Int /\ g[y] = k * f[y] /\ SumOf(f, T \ {y}) \in Int
      BY <3>1, SumInt
    <3> HIDE DEF y
    <3>5. k * (f[y] + SumOf(f, T \ {y})) = k * f[y] + k * SumOf(f, T \ {y})
      BY <3>4
    <3>6. SumOf(g, T) = k * SumOf(f, T)
      BY <3>2, <3>3, <3>4, <3>5
    <3> QED
      BY <3>6
  <2> QED
    BY <2>1, <2>2
<1>2. \A T \in SUBSET S : T \in Good
  <2> HIDE DEF Good
  <2> QED BY <1>1, SubsetInduction
<1> QED
  BY <1>2

-----------------------------------------------------------------------------
(* Facts about the operators. *)

\* The lifecycle table leads from states to sets of states.
LEMMA TransitionsType ==
    ASSUME NEW s \in IntentState
    PROVE TRANSITIONS[s] \subseteq IntentState
BY DEF TRANSITIONS, IntentState, Abandoned

\* Nothing leaves a terminal state by an ordinary transition.
LEMMA TerminalHasNoExit ==
    ASSUME NEW s \in TERMINAL_STATES
    PROVE TRANSITIONS[s] = {}
BY DEF TRANSITIONS, IntentState, TERMINAL_STATES

\* A size that may be committed is a natural number.
LEMMA InputSizeType ==
    ASSUME TypeOK, NEW a \in Actions, InputSize(a) > 0
    PROVE InputSize(a) \in Nat
<1>1. ActionInfo[a] \in ActionRecord
  BY ActionAssumption
<1>2. seen[ActionInfo[a].cycle] \in Nat
  BY <1>1 DEF TypeOK, ActionRecord
<1>3. /\ ActionInfo[a].size \in Nat
      /\ ActionInfo[a].num \in Nat
      /\ ActionInfo[a].den \in Nat \ {0}
  BY <1>1 DEF ActionRecord
<1>4. seen[ActionInfo[a].cycle] * ActionInfo[a].num \in Int
  BY <1>2, <1>3
<1>5. (seen[ActionInfo[a].cycle] * ActionInfo[a].num) \div ActionInfo[a].den \in Int
  BY <1>3, <1>4
<1> QED
  BY <1>3, <1>5 DEF InputSize

\* What a transition relies on of the types: the columns it writes.
IntentsTyped ==
    /\ state \in [Actions -> IntentState \cup {"NONE"}]
    /\ resv \in [Actions -> ReservationStatus \cup {"NONE"}]

LEMMA TypedIntents == TypeOK => IntentsTyped
BY DEF TypeOK, IntentsTyped

\* Settling a reservation leaves every reservation with a status.
LEMMA SettleType ==
    ASSUME IntentsTyped, NEW a \in Actions, NEW status \in ReservationStatus,
           SettleReservation(a, status)
    PROVE resv' \in [Actions -> ReservationStatus \cup {"NONE"}]
BY DEF IntentsTyped, SettleReservation

\* So does whatever budget consequence a new state has.
LEMMA EffectType ==
    ASSUME IntentsTyped, NEW a \in Actions, NEW to \in IntentState, ReservationEffect(a, to)
    PROVE resv' \in [Actions -> ReservationStatus \cup {"NONE"}]
<1>1. CASE to = "RESERVED" /\ Reserve(a)
  BY <1>1 DEF IntentsTyped, Reserve, ReservationStatus
<1>2. CASE to = "FILLED" /\ SettleReservation(a, "COMMITTED")
  BY <1>2, SettleType DEF ReservationStatus
<1>3. CASE to \in RELEASING_STATES /\ SettleReservation(a, "RELEASED")
  BY <1>3, SettleType DEF ReservationStatus
<1>4. CASE to = "SAFE_HALT" /\ SettleReservation(a, "QUARANTINED")
  BY <1>4, SettleType DEF ReservationStatus
<1>5. CASE UNCHANGED resv
  BY <1>5 DEF IntentsTyped
<1> QED
  BY <1>1, <1>2, <1>3, <1>4, <1>5 DEF ReservationEffect

-----------------------------------------------------------------------------
(* Type correctness. *)

LEMMA InitTypeOK == LedgerInit => TypeOK
BY CycleAssumption DEF LedgerInit, TypeOK, NoCarry, NoBounds

\* A transition, alone or in a recovery, keeps the tables it writes well typed.
LEMMA MoveIntentType ==
    ASSUME IntentsTyped, NEW a \in Actions, NEW to \in IntentState, MoveIntent(a, to)
    PROVE /\ state' \in [Actions -> IntentState \cup {"NONE"}]
          /\ resv' \in [Actions -> ReservationStatus \cup {"NONE"}]
<1>1. state' = [state EXCEPT ![a] = to]
  BY DEF MoveIntent
<1>2. resv' \in [Actions -> ReservationStatus \cup {"NONE"}]
  BY EffectType DEF MoveIntent
<1> QED
  BY <1>1, <1>2 DEF IntentsTyped

LEMMA CreateIntentType ==
    ASSUME TypeOK, NEW a \in Actions, CreateIntent(a)
    PROVE TypeOK'
<1>1. InputSize(a) \in Nat
  BY InputSizeType DEF CreateIntent
<1>2. ActionInfo[a].floor \in Nat
  BY ActionAssumption DEF ActionRecord
<1>3. InputSize(a) * ActionInfo[a].floor \in Nat
  BY <1>1, <1>2
<1>4. bounds' \in [Actions -> [maxInput: Nat, minOutput: Nat]]
  BY <1>1, <1>3 DEF TypeOK, CreateIntent
<1>5. state' \in [Actions -> IntentState \cup {"NONE"}]
  BY DEF TypeOK, CreateIntent, IntentState
<1> QED
  BY <1>4, <1>5 DEF TypeOK, CreateIntent

LEMMA ContinueInventoryType ==
    ASSUME TypeOK, NEW c \in Cycles, NEW d \in Cycles, ContinueInventoryIntoSuccessorCycle(c, d)
    PROVE TypeOK'
<1>1. Inventory(c) \in Nat
  BY DEF ContinueInventoryIntoSuccessorCycle, ContinueGuard
<1>2. carry' = [carry EXCEPT ![d] = [from |-> c, amount |-> Inventory(c)]]
  BY DEF ContinueInventoryIntoSuccessorCycle
<1>3. carry' \in [Cycles -> [from: Cycles \cup {"none"}, amount: Nat]]
  BY <1>1, <1>2 DEF TypeOK
<1>4. cycle' \in [Cycles -> CycleStatus \cup {"NONE"}]
  BY DEF TypeOK, ContinueInventoryIntoSuccessorCycle, CycleStatus
<1> QED
  BY <1>3, <1>4 DEF TypeOK, ContinueInventoryIntoSuccessorCycle

LEMMA InsertReceiptType ==
    ASSUME TypeOK, NEW row \in ReceiptRow, InsertReceipt(row)
    PROVE /\ receipts' \subseteq ReceiptRow
          /\ state' \in [Actions -> IntentState \cup {"NONE"}]
          /\ resv' \in [Actions -> ReservationStatus \cup {"NONE"}]
<1>1. row.action \in Actions
  BY DEF ReceiptRow
<1>2. receipts' \subseteq ReceiptRow
  BY DEF TypeOK, InsertReceipt
<1>3. ReceiptStateEffect(row.action, row)
  BY DEF InsertReceipt
<1>4. CASE UNCHANGED <<state, resv>>
  BY <1>2, <1>4 DEF TypeOK
<1>5. CASE /\ SettleReservation(row.action, "QUARANTINED")
           /\ state' = [state EXCEPT ![row.action] = "SAFE_HALT"]
  <2>1. resv' \in [Actions -> ReservationStatus \cup {"NONE"}]
    BY <1>1, <1>5, TypedIntents, SettleType DEF ReservationStatus
  <2>2. state' \in [Actions -> IntentState \cup {"NONE"}]
    BY <1>1, <1>5 DEF TypeOK, IntentState
  <2> QED
    BY <1>2, <2>1, <2>2
<1> QED
  BY <1>3, <1>4, <1>5 DEF ReceiptStateEffect

\* Every step keeps every table well typed.
LEMMA StepTypeOK ==
    ASSUME TypeOK, [LedgerNext]_ledgerVars
    PROVE TypeOK'
<1>1. CASE \E p \in Policies : AdmitPolicy(p)
  BY <1>1 DEF AdmitPolicy, TypeOK
<1>2. CASE \E c \in Cycles : OpenCycle(c)
  BY <1>2 DEF OpenCycle, TypeOK, CycleStatus
<1>3. CASE \E c \in Cycles : ReadInventory(c)
  BY <1>3 DEF ReadInventory, TypeOK
<1>4. CASE \E c \in Cycles, status \in CycleStatus : CloseCycle(c, status)
  BY <1>4 DEF CloseCycle, TypeOK
<1>5. CASE \E c, d \in Cycles : ContinueInventoryIntoSuccessorCycle(c, d)
  BY <1>5, ContinueInventoryType
<1>6. CASE \E a \in Actions : CreateIntent(a)
  BY <1>6, CreateIntentType
<1>7. CASE \E a \in Actions, to \in IntentState : Transition(a, to)
  <2>1. PICK a \in Actions, to \in IntentState : Transition(a, to)
    BY <1>7
  <2>2. /\ state' \in [Actions -> IntentState \cup {"NONE"}]
        /\ resv' \in [Actions -> ReservationStatus \cup {"NONE"}]
    BY <2>1, TypedIntents, MoveIntentType DEF Transition
  <2> QED
    BY <2>1, <2>2 DEF Transition, TypeOK
<1>8. CASE \E row \in ReceiptRow : AppendFillReceipt(row)
  <2>1. PICK row \in ReceiptRow : AppendFillReceipt(row)
    BY <1>8
  <2>2. /\ receipts' \subseteq ReceiptRow
        /\ state' \in [Actions -> IntentState \cup {"NONE"}]
        /\ resv' \in [Actions -> ReservationStatus \cup {"NONE"}]
    BY <2>1, InsertReceiptType DEF AppendFillReceipt
  <2> QED
    BY <2>1, <2>2 DEF AppendFillReceipt, TypeOK
<1>9. CASE UNCHANGED ledgerVars
  BY <1>9 DEF ledgerVars, TypeOK
<1> QED
  BY <1>1, <1>2, <1>3, <1>4, <1>5, <1>6, <1>7, <1>8, <1>9 DEF LedgerNext

\* The tables of the ledger are well typed in every reachable state.
THEOREM TypeCorrect == LedgerSpec => []TypeOK
<1>1. LedgerInit => TypeOK
  BY InitTypeOK
<1>2. TypeOK /\ [LedgerNext]_ledgerVars => TypeOK'
  BY StepTypeOK
<1> QED
  BY <1>1, <1>2, PTL DEF LedgerSpec

-----------------------------------------------------------------------------
(* Capital follows the lifecycle.  The invariant is inductive with TypeOK:  *)
(* an intent that does not exist yet has no reservation.                    *)

\* What the lifecycle table says of an edge, as far as capital is concerned.
LEMMA LifecycleEdges ==
    ASSUME NEW s \in IntentState, NEW to \in TRANSITIONS[s]
    PROVE /\ s \notin TERMINAL_STATES
          /\ to = "RESERVED" => s \notin BUDGET_HOLDING_STATES
          /\ to = "FILLED" => s \in BUDGET_HOLDING_STATES
          /\ to \notin {"RESERVED", "FILLED", "SAFE_HALT"} \cup RELEASING_STATES =>
               (to \in BUDGET_HOLDING_STATES <=> s \in BUDGET_HOLDING_STATES)
BY DEF IntentState, TRANSITIONS, Abandoned, TERMINAL_STATES, BUDGET_HOLDING_STATES,
       EXTERNALLY_AMBIGUOUS_STATES, RELEASING_STATES

\* Only an ended intent has a reservation that is not active; an intent that is
\* neither holding nor ended has none.
LEMMA ReservationOfState ==
    ASSUME IntentsTyped, CapitalFollowsLifecycle, NEW a \in Actions,
           state[a] \notin TERMINAL_STATES
    PROVE /\ resv[a] \in {"NONE", "ACTIVE"}
          /\ resv[a] = "ACTIVE" <=> Exposure(a) # 0 /\ state[a] \in BUDGET_HOLDING_STATES
BY DEF IntentsTyped, CapitalFollowsLifecycle, TERMINAL_STATES, RELEASING_STATES, ReservationStatus

LEMMA MoveIntentCapital ==
    ASSUME IntentsTyped, CapitalFollowsLifecycle, NEW a \in Actions, NEW to \in IntentState,
           MoveIntent(a, to), UNCHANGED bounds
    PROVE CapitalFollowsLifecycle'
<1>1. /\ state[a] \in IntentState
      /\ to \in TRANSITIONS[state[a]]
  BY DEF MoveIntent, TransitionAllowed, IntentsTyped
<1>2. state' = [state EXCEPT ![a] = to]
  BY DEF MoveIntent
<1>3. ReservationEffect(a, to)
  BY DEF MoveIntent
<1>4. \A b \in Actions : Exposure(b)' = Exposure(b)
  BY DEF Exposure
<1>5. state[a] \notin TERMINAL_STATES
  BY <1>1, LifecycleEdges
<1>6. /\ resv[a] \in {"NONE", "ACTIVE"}
      /\ resv[a] = "ACTIVE" <=> Exposure(a) # 0 /\ state[a] \in BUDGET_HOLDING_STATES
  BY <1>5, ReservationOfState
<1>7. \A b \in Actions \ {a} : resv'[b] = resv[b] /\ state'[b] = state[b]
  BY <1>2, <1>3 DEF ReservationEffect, Reserve, SettleReservation, IntentsTyped
<1>8. /\ state'[a] = to
      /\ resv \in [Actions -> ReservationStatus \cup {"NONE"}]
  BY <1>2 DEF IntentsTyped
<1>9. IF Exposure(a) = 0
      THEN resv'[a] = "NONE"
      ELSE /\ resv'[a] = "ACTIVE" <=> to \in BUDGET_HOLDING_STATES
           /\ resv'[a] = "COMMITTED" <=> to = "FILLED"
           /\ resv'[a] = "QUARANTINED" => to = "SAFE_HALT"
           /\ resv'[a] = "RELEASED" => to \in RELEASING_STATES
  <2>1. CASE to = "RESERVED" /\ Reserve(a)
    BY <2>1, <1>6, <1>8, <1>1, LifecycleEdges
       DEF Reserve, BUDGET_HOLDING_STATES, RELEASING_STATES
  <2>2. CASE to = "FILLED" /\ SettleReservation(a, "COMMITTED")
    BY <2>2, <1>6, <1>8, <1>1, LifecycleEdges
       DEF SettleReservation, BUDGET_HOLDING_STATES, EXTERNALLY_AMBIGUOUS_STATES
  <2>3. CASE to \in RELEASING_STATES /\ SettleReservation(a, "RELEASED")
    BY <2>3, <1>6, <1>8
       DEF SettleReservation, RELEASING_STATES, BUDGET_HOLDING_STATES,
           EXTERNALLY_AMBIGUOUS_STATES
  <2>4. CASE to = "SAFE_HALT" /\ SettleReservation(a, "QUARANTINED")
    BY <2>4, <1>6, <1>8
       DEF SettleReservation, BUDGET_HOLDING_STATES, EXTERNALLY_AMBIGUOUS_STATES
  <2>5. CASE /\ to \notin {"RESERVED", "FILLED", "SAFE_HALT"} \cup RELEASING_STATES
             /\ UNCHANGED resv
    BY <2>5, <1>6, <1>8, <1>1, LifecycleEdges
  <2> QED
    BY <1>3, <2>1, <2>2, <2>3, <2>4, <2>5 DEF ReservationEffect
<1> QED
  BY <1>4, <1>7, <1>8, <1>9 DEF CapitalFollowsLifecycle

\* A receipt moves capital only when it halts the intent.
LEMMA InsertReceiptCapital ==
    ASSUME TypeOK, CapitalFollowsLifecycle, NEW row \in ReceiptRow, InsertReceipt(row),
           UNCHANGED bounds
    PROVE CapitalFollowsLifecycle'
<1> DEFINE a == row.action
<1>1. a \in Actions
  BY DEF ReceiptRow
<1>2. \A b \in Actions : Exposure(b)' = Exposure(b)
  BY DEF Exposure
<1>3. CASE UNCHANGED <<state, resv>>
  BY <1>2, <1>3 DEF CapitalFollowsLifecycle
<1>4. CASE /\ state[a] # "SAFE_HALT"
           /\ SettleReservation(a, "QUARANTINED")
           /\ state' = [state EXCEPT ![a] = "SAFE_HALT"]
  <2>1. state[a] \in BUDGET_HOLDING_STATES /\ state[a] \notin TERMINAL_STATES
    BY <1>4 DEF InsertReceipt, RECEIPT_STATES, BUDGET_HOLDING_STATES,
                EXTERNALLY_AMBIGUOUS_STATES, TERMINAL_STATES
  <2>2. /\ resv[a] \in {"NONE", "ACTIVE"}
        /\ resv[a] = "ACTIVE" <=> Exposure(a) # 0
    BY <1>1, <2>1, TypedIntents, ReservationOfState
  <2>3. /\ state'[a] = "SAFE_HALT"
        /\ resv'[a] = IF Exposure(a) # 0 THEN "QUARANTINED" ELSE "NONE"
        /\ \A b \in Actions \ {a} : resv'[b] = resv[b] /\ state'[b] = state[b]
    BY <1>1, <1>4, <2>2 DEF SettleReservation, TypeOK
  <2> QED
    BY <1>2, <2>3 DEF CapitalFollowsLifecycle, BUDGET_HOLDING_STATES,
                      EXTERNALLY_AMBIGUOUS_STATES
<1> QED
  BY <1>3, <1>4 DEF InsertReceipt, ReceiptStateEffect

\* A new intent starts with no reservation, whatever its bounds.
LEMMA CreateIntentCapital ==
    ASSUME TypeOK, CapitalFollowsLifecycle, NEW a \in Actions, CreateIntent(a)
    PROVE CapitalFollowsLifecycle'
<1>1. /\ state[a] = "NONE"
      /\ state' = [state EXCEPT ![a] = "ARMED"]
      /\ UNCHANGED resv
      /\ \A b \in Actions \ {a} : bounds'[b] = bounds[b]
  BY DEF CreateIntent, TypeOK
<1>2. resv[a] = "NONE"
  BY <1>1, TypedIntents, ReservationOfState DEF TERMINAL_STATES, BUDGET_HOLDING_STATES,
                                  EXTERNALLY_AMBIGUOUS_STATES
<1>3. state'[a] = "ARMED" /\ \A b \in Actions \ {a} : state'[b] = state[b]
  BY <1>1 DEF TypeOK
<1>4. \A b \in Actions \ {a} : Exposure(b)' = Exposure(b)
  BY <1>1 DEF Exposure
<1> QED
  BY <1>1, <1>2, <1>3, <1>4 DEF CapitalFollowsLifecycle, BUDGET_HOLDING_STATES,
                                EXTERNALLY_AMBIGUOUS_STATES

LEMMA StepCapital ==
    ASSUME TypeOK, CapitalFollowsLifecycle, [LedgerNext]_ledgerVars
    PROVE CapitalFollowsLifecycle'
<1>1. CASE UNCHANGED <<state, bounds, resv>>
  BY <1>1 DEF CapitalFollowsLifecycle, Exposure
<1>2. CASE \E a \in Actions : CreateIntent(a)
  BY <1>2, CreateIntentCapital
<1>3. CASE \E a \in Actions, to \in IntentState : Transition(a, to)
  BY <1>3, TypedIntents, MoveIntentCapital DEF Transition
<1>4. CASE \E row \in ReceiptRow : AppendFillReceipt(row)
  BY <1>4, InsertReceiptCapital DEF AppendFillReceipt
<1> QED
  BY <1>1, <1>2, <1>3, <1>4
     DEF LedgerNext, ledgerVars, AdmitPolicy, OpenCycle, ReadInventory, CloseCycle,
         ContinueInventoryIntoSuccessorCycle

\* transition() and the receipt path keep every reservation at what the state of
\* its intent calls for, in every reachable state of every ledger.
THEOREM CapitalCorrect == LedgerSpec => []CapitalFollowsLifecycle
<1>1. LedgerInit => CapitalFollowsLifecycle
  BY DEF LedgerInit, CapitalFollowsLifecycle, NoBounds, Exposure, BUDGET_HOLDING_STATES,
         EXTERNALLY_AMBIGUOUS_STATES
<1>2. TypeOK /\ CapitalFollowsLifecycle /\ [LedgerNext]_ledgerVars => CapitalFollowsLifecycle'
  BY StepCapital
<1> QED
  BY <1>1, <1>2, TypeCorrect, PTL DEF LedgerSpec

-----------------------------------------------------------------------------
(* A fill outside the bounds halts its intent for good.  On its own the     *)
(* property is not inductive: creating an intent gives it new bounds, so it *)
(* must be known that no receipt precedes its intent.                       *)

ReceiptsHaveIntents == \A r \in receipts : state[r.action] # "NONE"

BoundedFills == OutOfBoundsFillIsHalted /\ ReceiptsHaveIntents

LEMMA MoveIntentBoundedFills ==
    ASSUME TypeOK, BoundedFills, NEW a \in Actions, NEW to \in IntentState,
           MoveIntent(a, to), UNCHANGED <<bounds, receipts>>
    PROVE BoundedFills'
<1>1. /\ state[a] \in IntentState
      /\ to \in TRANSITIONS[state[a]]
  BY DEF MoveIntent, TransitionAllowed, TypeOK
<1>2. state[a] \notin TERMINAL_STATES
  BY <1>1, LifecycleEdges
<1>3. /\ state'[a] = to
      /\ \A b \in Actions \ {a} : state'[b] = state[b]
  BY DEF MoveIntent, TypeOK
<1>4. ReceiptsHaveIntents'
  BY <1>3 DEF BoundedFills, ReceiptsHaveIntents, TypeOK, ReceiptRow, IntentState
<1>5. \A b \in Actions : ReceiptsOf(b)' = ReceiptsOf(b)
  BY DEF ReceiptsOf
<1>6. ReceiptsOf(a) = {} \/ RowsWithinBounds(ReceiptsOf(a), bounds[a])
  BY <1>2 DEF BoundedFills, OutOfBoundsFillIsHalted, TERMINAL_STATES
<1>7. OutOfBoundsFillIsHalted'
  BY <1>3, <1>5, <1>6 DEF BoundedFills, OutOfBoundsFillIsHalted
<1> QED
  BY <1>4, <1>7 DEF BoundedFills

LEMMA InsertReceiptBoundedFills ==
    ASSUME TypeOK, BoundedFills, NEW row \in ReceiptRow, InsertReceipt(row), UNCHANGED bounds
    PROVE BoundedFills'
<1> DEFINE a == row.action
<1>1. a \in Actions
  BY DEF ReceiptRow
<1>2. /\ receipts' = receipts \cup {row}
      /\ state[a] # "NONE"
      /\ ReceiptStateEffect(a, row)
  BY DEF InsertReceipt, RECEIPT_STATES
<1>3. /\ ReceiptsOf(a)' = ReceiptsOf(a) \cup {row}
      /\ \A b \in Actions \ {a} : ReceiptsOf(b)' = ReceiptsOf(b)
  BY <1>2 DEF ReceiptsOf
<1>4. /\ state'[a] = state[a] \/ state'[a] = "SAFE_HALT"
      /\ \A b \in Actions \ {a} : state'[b] = state[b]
  BY <1>1, <1>2 DEF ReceiptStateEffect, TypeOK
<1>5. ReceiptsHaveIntents'
  BY <1>2, <1>4 DEF BoundedFills, ReceiptsHaveIntents, TypeOK, ReceiptRow
<1>6. state'[a] = "SAFE_HALT" \/ RowsWithinBounds(ReceiptsOf(a) \cup {row}, bounds[a])
  BY <1>1, <1>2 DEF ReceiptStateEffect, TypeOK
<1>7. \A b \in Actions \ {a} :
        ReceiptsOf(b)' # {} /\ ~RowsWithinBounds(ReceiptsOf(b)', bounds'[b]) => state'[b] = "SAFE_HALT"
  BY <1>3, <1>4 DEF BoundedFills, OutOfBoundsFillIsHalted
<1>8. ~RowsWithinBounds(ReceiptsOf(a)', bounds'[a]) => state'[a] = "SAFE_HALT"
  BY <1>3, <1>6
<1>9. OutOfBoundsFillIsHalted'
  BY <1>7, <1>8 DEF OutOfBoundsFillIsHalted
<1> QED
  BY <1>5, <1>9 DEF BoundedFills

LEMMA CreateIntentBoundedFills ==
    ASSUME TypeOK, BoundedFills, NEW a \in Actions, CreateIntent(a)
    PROVE BoundedFills'
<1>1. /\ state[a] = "NONE"
      /\ state'[a] = "ARMED"
      /\ UNCHANGED receipts
      /\ \A b \in Actions \ {a} : state'[b] = state[b] /\ bounds'[b] = bounds[b]
  BY DEF CreateIntent, TypeOK
<1>2. ReceiptsHaveIntents'
  BY <1>1 DEF BoundedFills, ReceiptsHaveIntents, TypeOK, ReceiptRow
<1>3. \A b \in Actions : ReceiptsOf(b)' = ReceiptsOf(b)
  BY <1>1 DEF ReceiptsOf
<1>4. ReceiptsOf(a) = {}
  BY <1>1 DEF BoundedFills, ReceiptsHaveIntents, ReceiptsOf
<1>5. OutOfBoundsFillIsHalted'
  BY <1>1, <1>3, <1>4 DEF BoundedFills, OutOfBoundsFillIsHalted
<1> QED
  BY <1>2, <1>5 DEF BoundedFills

LEMMA StepBoundedFills ==
    ASSUME TypeOK, BoundedFills, [LedgerNext]_ledgerVars
    PROVE BoundedFills'
<1>1. CASE UNCHANGED <<state, bounds, receipts>>
  BY <1>1 DEF BoundedFills, OutOfBoundsFillIsHalted, ReceiptsHaveIntents, ReceiptsOf
<1>2. CASE \E a \in Actions : CreateIntent(a)
  BY <1>2, CreateIntentBoundedFills
<1>3. CASE \E a \in Actions, to \in IntentState : Transition(a, to)
  BY <1>3, MoveIntentBoundedFills DEF Transition
<1>4. CASE \E row \in ReceiptRow : AppendFillReceipt(row)
  BY <1>4, InsertReceiptBoundedFills DEF AppendFillReceipt
<1> QED
  BY <1>1, <1>2, <1>3, <1>4
     DEF LedgerNext, ledgerVars, AdmitPolicy, OpenCycle, ReadInventory, CloseCycle,
         ContinueInventoryIntoSuccessorCycle

\* Whatever sequence of partial fills the receipts report, an intent whose
\* cumulative fill is outside its committed bounds is in SAFE_HALT.
THEOREM OutOfBoundsHaltedCorrect == LedgerSpec => []OutOfBoundsFillIsHalted
<1>1. LedgerInit => BoundedFills
  BY DEF LedgerInit, BoundedFills, OutOfBoundsFillIsHalted, ReceiptsHaveIntents, ReceiptsOf
<1>2. TypeOK /\ BoundedFills /\ [LedgerNext]_ledgerVars => BoundedFills'
  BY StepBoundedFills
<1>3. BoundedFills => OutOfBoundsFillIsHalted
  BY DEF BoundedFills
<1> QED
  BY <1>1, <1>2, <1>3, TypeCorrect, PTL DEF LedgerSpec

-----------------------------------------------------------------------------
(* Capital held in a scope, as a sum. *)

Held == [a \in Actions |-> HeldBy(a)]

\* What SUM(amount) over the reservations of a scope returns.
HeldIsSum == \A S \in SUBSET Actions : HeldIn(S) = SumOf(Held, S)

LEMMA HeldInIsSum == HeldIsSum
<1> SUFFICES ASSUME NEW S \in SUBSET Actions
             PROVE HeldIn(S) = SumOf(Held, S)
  BY DEF HeldIsSum
<1> DEFINE Own(g) ==
      g = [s \in SUBSET S |-> IF s = {} THEN 0 ELSE HeldBy(Pick(s)) + g[s \ {Pick(s)}]]
<1>1. \A g : Own(g) <=> Solves(Held, S, g)
  <2>1. \A s \in SUBSET S : s # {} => HeldBy(Pick(s)) = Held[Pick(s)]
    BY DEF Held, Pick
  <2> QED
    BY <2>1 DEF Solves
<1>2. (CHOOSE g : Own(g)) = (CHOOSE g : Solves(Held, S, g))
  <2> HIDE DEF Own
  <2> QED BY <1>1
<1>3. HeldIn(S) = (CHOOSE g : Own(g))[S]
  BY DEF HeldIn, MapThenSumSet, MapThenFoldSet, Pick
<1> QED
  BY <1>2, <1>3, SumIsSolution DEF Solution

LEMMA HeldInIsSumNext == HeldIsSum'
BY HeldInIsSum, PTL

\* Capital is counted in natural numbers.
LEMMA HeldType ==
    ASSUME TypeOK
    PROVE /\ \A a \in Actions : Exposure(a) \in Nat /\ HeldBy(a) \in Nat /\ Held[a] = HeldBy(a)
          /\ \A S \in SUBSET Actions : IsFiniteSet(S) /\ HeldIn(S) \in Nat
<1>1. \A a \in Actions : Exposure(a) \in Nat
  BY DEF TypeOK, Exposure
<1>2. \A a \in Actions : HeldBy(a) \in Nat /\ Held[a] = HeldBy(a)
  BY <1>1 DEF HeldBy, Held
<1>3. ASSUME NEW S \in SUBSET Actions PROVE IsFiniteSet(S) /\ HeldIn(S) \in Nat
  <2>1. IsFiniteSet(S)
    BY FiniteAssumption, FS_Subset
  <2>2. SumOf(Held, S) \in Nat
    BY <1>2, <2>1, SumNat
  <2> QED
    BY <2>1, <2>2, HeldInIsSum DEF HeldIsSum
<1> QED
  BY <1>1, <1>2, <1>3

\* The intent whose reservation the step takes: the caps were read in the same
\* transaction, and nothing else of any reservation changes.
Takes(a) ==
    /\ WithinCaps(a)
    /\ HeldBy(a) = 0
    /\ HeldBy(a)' = Exposure(a)
    /\ Exposure(a) > 0
    /\ \A b \in Actions \ {a} : HeldBy(b)' = HeldBy(b)

\* No step holds more capital for any intent, but the one that takes a reservation.
LEMMA StepHolds ==
    ASSUME TypeOK, CapitalFollowsLifecycle, [LedgerNext]_ledgerVars
    PROVE \/ \A a \in Actions : HeldBy(a)' <= HeldBy(a)
          \/ \E a \in Actions : Takes(a)
<1>1. \A a \in Actions : Exposure(a) \in Nat /\ HeldBy(a) \in Nat
  BY HeldType
<1>2. CASE UNCHANGED <<bounds, resv>>
  BY <1>1, <1>2 DEF HeldBy, Exposure
<1>3. CASE \E a \in Actions : CreateIntent(a)
  <2>1. PICK a \in Actions : CreateIntent(a)
    BY <1>3
  <2>2. resv[a] = "NONE"
    BY <2>1, TypedIntents, ReservationOfState
       DEF CreateIntent, TERMINAL_STATES, BUDGET_HOLDING_STATES, EXTERNALLY_AMBIGUOUS_STATES
  <2>3. UNCHANGED resv /\ \A b \in Actions \ {a} : bounds'[b] = bounds[b]
    BY <2>1 DEF CreateIntent, TypeOK
  <2>4. \A b \in Actions : HeldBy(b)' = HeldBy(b)
    BY <2>2, <2>3 DEF HeldBy, Exposure
  <2> QED
    BY <1>1, <2>4
<1>4. ASSUME NEW a \in Actions, NEW status \in ReservationStatus, UNCHANGED bounds,
             SettleReservation(a, status)
      PROVE \A b \in Actions : HeldBy(b)' <= HeldBy(b)
  <2>1. \A b \in Actions : resv'[b] = resv[b] \/ (resv[b] = "ACTIVE" /\ Exposure(b)' = Exposure(b))
    BY <1>4 DEF SettleReservation, TypeOK, Exposure
  <2> QED
    BY <1>1, <1>4, <2>1 DEF HeldBy, Exposure
<1>5. CASE \E a \in Actions, to \in IntentState : Transition(a, to)
  <2>1. PICK a \in Actions, to \in IntentState : Transition(a, to)
    BY <1>5
  <2>2. CASE Reserve(a)
    <3>1. CASE Exposure(a) = 0
      BY <1>2, <2>1, <2>2, <3>1 DEF Reserve, Transition
    <3>2. CASE Exposure(a) # 0
      <4>1. resv[a] = "NONE" /\ WithinCaps(a) /\ resv' = [resv EXCEPT ![a] = "ACTIVE"]
        BY <2>2, <3>2 DEF Reserve
      <4>2. \A b \in Actions : Exposure(b)' = Exposure(b)
        BY <2>1 DEF Transition, Exposure
      <4>3. Takes(a)
        BY <1>1, <3>2, <4>1, <4>2 DEF Takes, HeldBy, TypeOK
      <4> QED
        BY <4>3
    <3> QED
      BY <3>1, <3>2
  <2>3. CASE \E status \in ReservationStatus : SettleReservation(a, status)
    BY <1>4, <2>1, <2>3 DEF Transition
  <2>4. CASE UNCHANGED resv
    BY <1>2, <2>1, <2>4 DEF Transition
  <2> QED
    BY <2>1, <2>2, <2>3, <2>4 DEF Transition, MoveIntent, ReservationEffect, ReservationStatus
<1>6. CASE \E row \in ReceiptRow : AppendFillReceipt(row)
  <2>1. PICK row \in ReceiptRow : AppendFillReceipt(row)
    BY <1>6
  <2>2. row.action \in Actions
    BY DEF ReceiptRow
  <2>3. SettleReservation(row.action, "QUARANTINED") \/ UNCHANGED resv
    BY <2>1 DEF AppendFillReceipt, InsertReceipt, ReceiptStateEffect
  <2>4. UNCHANGED bounds
    BY <2>1 DEF AppendFillReceipt
  <2> QED
    BY <1>2, <1>4, <2>2, <2>3, <2>4 DEF ReservationStatus
<1> QED
  BY <1>2, <1>3, <1>5, <1>6
     DEF LedgerNext, ledgerVars, AdmitPolicy, OpenCycle, ReadInventory, CloseCycle,
         ContinueInventoryIntoSuccessorCycle

\* What that makes of the capital held in any scope.
LEMMA ScopeGrows ==
    ASSUME TypeOK, TypeOK', CapitalFollowsLifecycle, [LedgerNext]_ledgerVars,
           NEW S \in SUBSET Actions, HeldIn(S)' > HeldIn(S)
    PROVE \E a \in S : WithinCaps(a) /\ Exposure(a) > 0 /\ HeldIn(S)' = Exposure(a) + HeldIn(S)
<1> DEFINE before == Held
           after == Held'
<1>1. HeldIn(S) = SumOf(before, S) /\ HeldIn(S)' = SumOf(after, S)
  BY HeldInIsSum, HeldInIsSumNext DEF HeldIsSum
<1>2. /\ IsFiniteSet(S)
      /\ \A a \in S : before[a] \in Int /\ after[a] \in Int
      /\ \A a \in S : before[a] = HeldBy(a) /\ after[a] = HeldBy(a)'
  <2>1. \A a \in Actions : HeldBy(a)' \in Nat
    <3>1. \A a \in Actions : Exposure(a)' \in Nat
      BY DEF TypeOK, Exposure
    <3> QED
      BY <3>1 DEF HeldBy
  <2>2. \A a \in Actions : after[a] = HeldBy(a)'
    BY DEF Held
  <2> QED
    BY <2>1, <2>2, HeldType
<1>3. HeldIn(S) \in Nat
  BY HeldType
<1> HIDE DEF before, after
<1>4. CASE \A a \in Actions : HeldBy(a)' <= HeldBy(a)
  <2>1. SumOf(after, S) <= SumOf(before, S)
    BY <1>2, <1>4, SumMonotone
  <2>2. SumOf(after, S) \in Int /\ SumOf(before, S) \in Int
    BY <1>2, SumInt
  <2> QED
    BY <1>1, <2>1, <2>2
<1>5. CASE \E a \in Actions : Takes(a)
  <2>1. PICK a \in Actions : Takes(a)
    BY <1>5
  <2>2. CASE a \in S
    <3>1. SumOf(after, S) = SumOf(before, S) - before[a] + after[a]
      BY <1>2, <2>1, <2>2, SumChange DEF Takes
    <3>2. before[a] = 0 /\ after[a] = Exposure(a)
      BY <1>2, <2>1, <2>2 DEF Takes
    <3>3. HeldIn(S)' = Exposure(a) + HeldIn(S)
      BY <1>1, <1>2, <1>3, <2>2, <3>1, <3>2
    <3> QED
      BY <2>1, <2>2, <3>3 DEF Takes
  <2>3. CASE a \notin S
    <3>1. \A b \in S : after[b] = before[b]
      BY <1>2, <2>1, <2>3 DEF Takes
    <3>2. SumOf(after, S) = SumOf(before, S)
      BY <1>2, <3>1, SumSame
    <3> QED
      BY <1>1, <1>3, <3>2
  <2> QED
    BY <2>2, <2>3
<1> QED
  BY <1>4, <1>5, StepHolds

\* Every reservation is taken within the caps of every admitted policy, its own or
\* not, on the instrument, on the network and on the portfolio.
THEOREM CapsCorrect == LedgerSpec => CapsBindEveryReservation
<1> DEFINE Bound ==
      \A q \in admitted :
         /\ HeldOnInstrument(Instrument(q))' > HeldOnInstrument(Instrument(q)) =>
              HeldOnInstrument(Instrument(q))' <= PolicyInfo[q].perInstrument
         /\ HeldOnNetwork(Network(q))' > HeldOnNetwork(Network(q)) =>
              HeldOnNetwork(Network(q))' <= PolicyInfo[q].perNetwork
         /\ HeldGlobally' > HeldGlobally =>
              HeldGlobally' <= PolicyInfo[q].global - PolicyInfo[q].reservedCash
<1>1. ASSUME TypeOK, TypeOK', CapitalFollowsLifecycle, [LedgerNext]_ledgerVars
      PROVE Bound
  <2> SUFFICES ASSUME NEW q \in admitted
      PROVE /\ HeldOnInstrument(Instrument(q))' > HeldOnInstrument(Instrument(q)) =>
                 HeldOnInstrument(Instrument(q))' <= PolicyInfo[q].perInstrument
            /\ HeldOnNetwork(Network(q))' > HeldOnNetwork(Network(q)) =>
                 HeldOnNetwork(Network(q))' <= PolicyInfo[q].perNetwork
            /\ HeldGlobally' > HeldGlobally =>
                 HeldGlobally' <= PolicyInfo[q].global - PolicyInfo[q].reservedCash
    OBVIOUS
  <2>1. ASSUME HeldOnInstrument(Instrument(q))' > HeldOnInstrument(Instrument(q))
        PROVE HeldOnInstrument(Instrument(q))' <= PolicyInfo[q].perInstrument
    <3> DEFINE S == {a \in Actions : Instrument(PolicyOf(a)) = Instrument(q)}
    <3>1. PICK a \in S : WithinCaps(a) /\ HeldIn(S)' = Exposure(a) + HeldIn(S)
      <4>1. HeldIn(S)' > HeldIn(S)
        BY <2>1 DEF HeldOnInstrument
      <4> QED
        BY <1>1, <4>1, ScopeGrows
    <3>2. Exposure(a) + HeldOnInstrument(Instrument(PolicyOf(a))) <= PolicyInfo[q].perInstrument
      BY <3>1 DEF WithinCaps
    <3> QED
      BY <3>1, <3>2 DEF HeldOnInstrument
  <2>2. ASSUME HeldOnNetwork(Network(q))' > HeldOnNetwork(Network(q))
        PROVE HeldOnNetwork(Network(q))' <= PolicyInfo[q].perNetwork
    <3> DEFINE S == {a \in Actions : Network(PolicyOf(a)) = Network(q)}
    <3>1. PICK a \in S : WithinCaps(a) /\ HeldIn(S)' = Exposure(a) + HeldIn(S)
      <4>1. HeldIn(S)' > HeldIn(S)
        BY <2>2 DEF HeldOnNetwork
      <4> QED
        BY <1>1, <4>1, ScopeGrows
    <3>2. Exposure(a) + HeldOnNetwork(Network(PolicyOf(a))) <= PolicyInfo[q].perNetwork
      BY <3>1 DEF WithinCaps
    <3> QED
      BY <3>1, <3>2 DEF HeldOnNetwork
  <2>3. ASSUME HeldGlobally' > HeldGlobally
        PROVE HeldGlobally' <= PolicyInfo[q].global - PolicyInfo[q].reservedCash
    <3>1. PICK a \in Actions :
            WithinCaps(a) /\ Exposure(a) > 0 /\ HeldGlobally' = Exposure(a) + HeldGlobally
      BY <1>1, <2>3, ScopeGrows DEF HeldGlobally
    <3>2. Exposure(a) + HeldGlobally <= GlobalLimit(q)
      BY <3>1 DEF WithinCaps
    <3>3. Exposure(a) \in Nat /\ HeldGlobally \in Nat
      BY <1>1, <3>1, HeldType DEF HeldGlobally
    <3>4. PolicyInfo[q].global \in Nat /\ PolicyInfo[q].reservedCash \in Nat
      BY <1>1, PolicyAssumption DEF TypeOK, PolicyRecord
    <3> QED
      BY <3>1, <3>2, <3>3, <3>4 DEF GlobalLimit
  <2> QED
    BY <2>1, <2>2, <2>3
<1> QED
  BY <1>1, TypeCorrect, CapitalCorrect, PTL DEF LedgerSpec, CapsBindEveryReservation

-----------------------------------------------------------------------------
(* The ledger implements the account of capital.  What an intent has done with *)
(* its capital is told by its reservation alone once CapitalFollowsLifecycle   *)
(* holds; and an intent is asked for once, so it must be known that it has no  *)
(* size before it exists.                                                      *)

UnaskedHaveNoSize == \A a \in Actions : state[a] = "NONE" => Exposure(a) = 0

LEMMA StepUnasked ==
    ASSUME TypeOK, UnaskedHaveNoSize, [LedgerNext]_ledgerVars
    PROVE UnaskedHaveNoSize'
<1>1. CASE UNCHANGED <<state, bounds>>
  BY <1>1 DEF UnaskedHaveNoSize, Exposure
<1>2. CASE \E a \in Actions : CreateIntent(a)
  <2>1. PICK a \in Actions : CreateIntent(a)
    BY <1>2
  <2>2. /\ state'[a] = "ARMED"
        /\ \A b \in Actions \ {a} : state'[b] = state[b] /\ bounds'[b] = bounds[b]
    BY <2>1 DEF CreateIntent, TypeOK
  <2> QED
    BY <2>2 DEF UnaskedHaveNoSize, Exposure
<1>3. CASE \E a \in Actions, to \in IntentState : Transition(a, to)
  BY <1>3 DEF Transition, MoveIntent, UnaskedHaveNoSize, Exposure, TypeOK, IntentState
<1>4. CASE \E row \in ReceiptRow : AppendFillReceipt(row)
  BY <1>4 DEF AppendFillReceipt, InsertReceipt, ReceiptStateEffect, UnaskedHaveNoSize, Exposure, TypeOK
<1> QED
  BY <1>1, <1>2, <1>3, <1>4
     DEF LedgerNext, ledgerVars, AdmitPolicy, OpenCycle, ReadInventory, CloseCycle,
         ContinueInventoryIntoSuccessorCycle

\* What a reservation's status says its capital is.
HoldFor ==
    [NONE |-> "FREE", ACTIVE |-> "HELD", COMMITTED |-> "SPENT",
     QUARANTINED |-> "FROZEN", RELEASED |-> "RETURNED"]

LEMMA HoldOfReservation ==
    ASSUME TypeOK, CapitalFollowsLifecycle, NEW a \in Actions
    PROVE HoldOf(a) = HoldFor[resv[a]]
<1>1. resv[a] \in ReservationStatus \cup {"NONE"}
  BY DEF TypeOK
<1>2. IF Exposure(a) = 0
      THEN resv[a] = "NONE"
      ELSE /\ resv[a] = "ACTIVE" <=> state[a] \in BUDGET_HOLDING_STATES
           /\ resv[a] = "COMMITTED" <=> state[a] = "FILLED"
           /\ resv[a] = "QUARANTINED" => state[a] = "SAFE_HALT"
           /\ resv[a] = "RELEASED" => state[a] \in RELEASING_STATES
  BY DEF CapitalFollowsLifecycle
<1>3. /\ "FILLED" \notin BUDGET_HOLDING_STATES
      /\ "SAFE_HALT" \notin BUDGET_HOLDING_STATES
      /\ RELEASING_STATES \cap BUDGET_HOLDING_STATES = {}
      /\ "FILLED" \notin RELEASING_STATES /\ "SAFE_HALT" \notin RELEASING_STATES
  BY DEF BUDGET_HOLDING_STATES, EXTERNALLY_AMBIGUOUS_STATES, RELEASING_STATES
<1>4. CASE resv[a] = "NONE"
  <2>1. Exposure(a) = 0 \/ (state[a] \notin BUDGET_HOLDING_STATES /\ state[a] # "FILLED")
    BY <1>2, <1>4
  <2>2. HoldOf(a) = "FREE"
    <3>1. CASE Exposure(a) = 0
      BY <3>1 DEF HoldOf
    <3>2. CASE Exposure(a) # 0
      BY <1>4, <2>1, <3>2 DEF HoldOf
    <3> QED
      BY <3>1, <3>2
  <2> QED
    BY <1>4, <2>2 DEF HoldFor
<1>5. CASE resv[a] = "ACTIVE"
  <2>1. HoldOf(a) = "HELD"
    BY <1>2, <1>3, <1>5 DEF HoldOf
  <2> QED
    BY <1>5, <2>1 DEF HoldFor
<1>6. CASE resv[a] = "COMMITTED"
  <2>1. HoldOf(a) = "SPENT"
    BY <1>2, <1>3, <1>6 DEF HoldOf
  <2> QED
    BY <1>6, <2>1 DEF HoldFor
<1>7. CASE resv[a] = "QUARANTINED"
  <2>1. HoldOf(a) = "FROZEN"
    BY <1>2, <1>3, <1>7 DEF HoldOf
  <2> QED
    BY <1>7, <2>1 DEF HoldFor
<1>8. CASE resv[a] = "RELEASED"
  <2>1. HoldOf(a) = "RETURNED"
    BY <1>2, <1>3, <1>8 DEF HoldOf
  <2> QED
    BY <1>8, <2>1 DEF HoldFor
<1> QED
  BY <1>1, <1>4, <1>5, <1>6, <1>7, <1>8 DEF ReservationStatus

\* The same, as a fact of every state and so of the next one.
HoldsTold ==
    TypeOK /\ CapitalFollowsLifecycle => \A a \in Actions : HoldOf(a) = HoldFor[resv[a]]

LEMMA HoldsToldNow == HoldsTold
BY HoldOfReservation DEF HoldsTold

LEMMA HoldsToldNext == HoldsTold'
BY HoldsToldNow, PTL

\* The account counts what the ledger counts: every status but RELEASED.
LEMMA TakenIsHeld ==
    ASSUME TypeOK, CapitalFollowsLifecycle
    PROVE /\ \A a \in Actions : Account!Taken(a) = HeldBy(a)
          /\ \A p \in Policies : Account!TakenFrom(p) = HeldByPolicy(p)
<1>1. \A a \in Actions : Account!Taken(a) = HeldBy(a)
  <2> SUFFICES ASSUME NEW a \in Actions PROVE Account!Taken(a) = HeldBy(a)
    OBVIOUS
  <2>1. resv[a] \in ReservationStatus \cup {"NONE"}
    BY DEF TypeOK
  <2> QED
    BY <2>1, HoldOfReservation DEF Account!Taken, HeldBy, HoldFor, ReservationStatus
<1>2. ASSUME NEW p \in Policies PROVE Account!TakenFrom(p) = HeldByPolicy(p)
  <2> DEFINE S == {a \in Actions : PolicyOf(a) = p}
             Own(g) ==
               g = [s \in SUBSET S |->
                      IF s = {} THEN 0 ELSE Account!Taken(Pick(s)) + g[s \ {Pick(s)}]]
             Ours(g) ==
               g = [s \in SUBSET S |->
                      IF s = {} THEN 0 ELSE HeldBy(Pick(s)) + g[s \ {Pick(s)}]]
  <2>1. \A g : Own(g) <=> Ours(g)
    <3>1. \A s \in SUBSET S : s # {} => Account!Taken(Pick(s)) = HeldBy(Pick(s))
      <4>1. \A s \in SUBSET S : s # {} => Pick(s) \in Actions
        BY DEF Pick
      <4> QED
        BY <1>1, <4>1
    <3> QED
      BY <3>1
  <2>2. (CHOOSE g : Own(g)) = (CHOOSE g : Ours(g))
    <3> HIDE DEF Own, Ours
    <3> QED BY <2>1
  <2>3. Account!TakenFrom(p) = (CHOOSE g : Own(g))[S]
    BY DEF Account!TakenFrom, Account!MapThenSumSet, Account!MapThenFoldSet, Pick
  <2>4. HeldByPolicy(p) = (CHOOSE g : Ours(g))[S]
    BY DEF HeldByPolicy, HeldIn, MapThenSumSet, MapThenFoldSet, Pick
  <2> QED
    BY <2>2, <2>3, <2>4
<1> QED
  BY <1>1, <1>2

\* The sum's guard is the account's: Reserve leaves room in the policy's allocation.
LEMMA HoldWithinLimit ==
    ASSUME TypeOK, CapitalFollowsLifecycle, NEW a \in Actions, WithinCaps(a)
    PROVE Account!TakenFrom(PolicyOf(a)) + Exposure(a) <= Allocation(PolicyOf(a))
<1>1. PolicyOf(a) \in Policies
  BY ActionAssumption, CycleAssumption DEF PolicyOf, CycleOf, ActionRecord
<1>2. Account!TakenFrom(PolicyOf(a)) = HeldByPolicy(PolicyOf(a))
  BY <1>1, TakenIsHeld
<1>3. Exposure(a) \in Nat /\ HeldByPolicy(PolicyOf(a)) \in Nat
  BY HeldType DEF HeldByPolicy
<1>4. Exposure(a) + HeldByPolicy(PolicyOf(a)) <= PolicyInfo[PolicyOf(a)].allocation
  BY DEF WithinCaps
<1> QED
  BY <1>2, <1>3, <1>4 DEF Allocation

\* The account's view of a step that changes one reservation and no size.
LEMMA OneHoldMoves ==
    ASSUME TypeOK, TypeOK', CapitalFollowsLifecycle, CapitalFollowsLifecycle',
           NEW a \in Actions, UNCHANGED bounds,
           \A b \in Actions \ {a} : resv'[b] = resv[b],
           \/ resv'[a] = resv[a]
           \/ resv[a] = "NONE" /\ resv'[a] = "ACTIVE" /\ WithinCaps(a)
           \/ resv[a] = "ACTIVE" /\ resv'[a] \in {"COMMITTED", "QUARANTINED", "RELEASED"}
    PROVE [Account!AccountNext]_(Account!accountVars)
<1> DEFINE size == [b \in Actions |-> Exposure(b)]
           hold == [b \in Actions |-> HoldOf(b)]
<1>1. UNCHANGED size
  BY DEF Exposure
<1>2. \A b \in Actions : hold[b] = HoldFor[resv[b]] /\ hold'[b] = HoldFor[resv'[b]]
  <2>1. \A b \in Actions : HoldOf(b) = HoldFor[resv[b]]
    BY HoldOfReservation
  <2>2. \A b \in Actions : HoldOf(b)' = HoldFor[resv'[b]]
    BY HoldsToldNext DEF HoldsTold, HoldFor
  <2> QED
    BY <2>1, <2>2
<1>3. ASSUME NEW to, hold'[a] = to
      PROVE hold' = [hold EXCEPT ![a] = to]
  <2>1. \A b \in Actions \ {a} : hold'[b] = hold[b]
    BY <1>2
  <2>2. hold' = [b \in Actions |-> hold'[b]] /\ hold = [b \in Actions |-> hold[b]]
    OBVIOUS
  <2> HIDE DEF hold
  <2> QED
    BY <1>3, <2>1, <2>2
<1>4. CASE resv'[a] = resv[a]
  <2>1. \A b \in Actions : hold'[b] = hold[b]
    BY <1>2, <1>4
  <2>2. UNCHANGED hold
    BY <2>1
  <2> QED
    BY <1>1, <2>2 DEF Account!accountVars
<1>5. CASE resv[a] = "NONE" /\ resv'[a] = "ACTIVE" /\ WithinCaps(a)
  <2>1. hold[a] = "FREE" /\ hold'[a] = "HELD"
    BY <1>2, <1>5 DEF HoldFor
  <2>2. Account!TakenFrom(PolicyOf(a)) + size[a] <= Allocation(PolicyOf(a))
    BY <1>5, HoldWithinLimit
  <2>3. Account!Hold(a)
    BY <1>1, <1>3, <2>1, <2>2 DEF Account!Hold, Account!Become
  <2> QED
    BY <2>3 DEF Account!AccountNext
<1>6. CASE resv[a] = "ACTIVE" /\ resv'[a] \in {"COMMITTED", "QUARANTINED", "RELEASED"}
  <2>1. hold[a] = "HELD" /\ hold'[a] \in {"SPENT", "FROZEN", "RETURNED"}
    BY <1>2, <1>6 DEF HoldFor
  <2>2. Account!Spend(a) \/ Account!Freeze(a) \/ Account!GiveBack(a)
    BY <1>1, <1>3, <2>1
       DEF Account!Spend, Account!Freeze, Account!GiveBack, Account!Become
  <2> QED
    BY <2>2 DEF Account!AccountNext
<1> QED
  BY <1>4, <1>5, <1>6

\* create_intent gives the order its size, once; a sale has none.
LEMMA CreateIntentAsks ==
    ASSUME TypeOK, TypeOK', CapitalFollowsLifecycle, CapitalFollowsLifecycle',
           UnaskedHaveNoSize, NEW a \in Actions, CreateIntent(a)
    PROVE [Account!AccountNext]_(Account!accountVars)
<1> DEFINE size == [b \in Actions |-> Exposure(b)]
           hold == [b \in Actions |-> HoldOf(b)]
<1>1. /\ state[a] = "NONE"
      /\ UNCHANGED resv
      /\ \A b \in Actions \ {a} : bounds'[b] = bounds[b]
  BY DEF CreateIntent, TypeOK
<1>2. UNCHANGED hold
  <2>1. \A b \in Actions : HoldOf(b)' = HoldOf(b)
    <3>1. \A b \in Actions : HoldOf(b) = HoldFor[resv[b]]
      BY HoldOfReservation
    <3>2. \A b \in Actions : HoldOf(b)' = HoldFor[resv'[b]]
      BY HoldsToldNext DEF HoldsTold, HoldFor
    <3> QED
      BY <1>1, <3>1, <3>2
  <2> QED
    BY <2>1
<1>3. size[a] = 0
  BY <1>1 DEF UnaskedHaveNoSize
<1>4. size'[a] \in Nat
  <2>1. Exposure(a)' \in Nat
    BY DEF TypeOK, Exposure
  <2> QED
    BY <2>1
<1>5. size' = [size EXCEPT ![a] = size'[a]]
  <2>1. \A b \in Actions \ {a} : size'[b] = size[b]
    BY <1>1 DEF Exposure
  <2>2. size' = [b \in Actions |-> size'[b]] /\ size = [b \in Actions |-> size[b]]
    OBVIOUS
  <2> HIDE DEF size
  <2> QED
    BY <2>1, <2>2
<1>6. CASE size'[a] = 0
  <2>1. UNCHANGED size
    <3>1. \A b \in Actions : size'[b] = size[b]
      BY <1>1, <1>3, <1>6 DEF Exposure
    <3>2. size' = [b \in Actions |-> size'[b]] /\ size = [b \in Actions |-> size[b]]
      OBVIOUS
    <3> HIDE DEF size
    <3> QED
      BY <3>1, <3>2
  <2> QED
    BY <1>2, <2>1 DEF Account!accountVars
<1>7. CASE size'[a] # 0
  <2>1. Account!Ask(a)
    BY <1>2, <1>3, <1>4, <1>5, <1>7 DEF Account!Ask
  <2> QED
    BY <2>1 DEF Account!AccountNext
<1> QED
  BY <1>6, <1>7

\* What the account sees of a settled reservation.
LEMMA SettleMovesHold ==
    ASSUME TypeOK, NEW a \in Actions, NEW status \in {"COMMITTED", "QUARANTINED", "RELEASED"},
           SettleReservation(a, status)
    PROVE /\ \A b \in Actions \ {a} : resv'[b] = resv[b]
          /\ resv'[a] = resv[a] \/ (resv[a] = "ACTIVE" /\ resv'[a] = status)
BY DEF SettleReservation, TypeOK

LEMMA StepOfAccount ==
    ASSUME TypeOK, TypeOK', CapitalFollowsLifecycle, CapitalFollowsLifecycle',
           UnaskedHaveNoSize, [LedgerNext]_ledgerVars
    PROVE [Account!AccountNext]_(Account!accountVars)
<1>1. CASE UNCHANGED <<state, bounds, resv>>
  BY <1>1 DEF Account!accountVars, Exposure, HoldOf
<1>2. CASE \E a \in Actions : CreateIntent(a)
  BY <1>2, CreateIntentAsks
<1>3. CASE \E a \in Actions, to \in IntentState : Transition(a, to)
  <2>1. PICK a \in Actions, to \in IntentState : Transition(a, to)
    BY <1>3
  <2>2. UNCHANGED bounds
    BY <2>1 DEF Transition
  <2>3. CASE Reserve(a)
    BY <2>2, <2>3, OneHoldMoves DEF Reserve, TypeOK
  <2>4. CASE \E status \in {"COMMITTED", "QUARANTINED", "RELEASED"} : SettleReservation(a, status)
    BY <2>2, <2>4, OneHoldMoves, SettleMovesHold
  <2>5. CASE UNCHANGED resv
    BY <2>2, <2>5, OneHoldMoves
  <2> QED
    BY <2>1, <2>3, <2>4, <2>5 DEF Transition, MoveIntent, ReservationEffect
<1>4. CASE \E row \in ReceiptRow : AppendFillReceipt(row)
  <2>1. PICK row \in ReceiptRow : AppendFillReceipt(row)
    BY <1>4
  <2>2. row.action \in Actions /\ UNCHANGED bounds
    BY <2>1 DEF ReceiptRow, AppendFillReceipt
  <2>3. SettleReservation(row.action, "QUARANTINED") \/ UNCHANGED resv
    BY <2>1 DEF AppendFillReceipt, InsertReceipt, ReceiptStateEffect
  <2> QED
    BY <2>2, <2>3, OneHoldMoves, SettleMovesHold
<1> QED
  BY <1>1, <1>2, <1>3, <1>4
     DEF LedgerNext, ledgerVars, AdmitPolicy, OpenCycle, ReadInventory, CloseCycle,
         ContinueInventoryIntoSuccessorCycle

\* The ledger implements the account of capital: whatever its calls write and in
\* whatever order, an intent's capital is taken once and within its policy's
\* allocation, and leaves a holding state only as spent, frozen or given back.
THEOREM AccountImplemented == LedgerSpec => ImplementsAccount
<1>1. LedgerInit => Account!AccountInit /\ UnaskedHaveNoSize
  <2>1. ASSUME LedgerInit PROVE \A a \in Actions : Exposure(a) = 0
    BY <2>1 DEF LedgerInit, NoBounds, Exposure
  <2>2. ASSUME LedgerInit PROVE \A a \in Actions : HoldOf(a) = "FREE"
    BY <2>1, <2>2 DEF HoldOf
  <2> QED
    BY <2>1, <2>2 DEF Account!AccountInit, UnaskedHaveNoSize
<1>2. TypeOK /\ UnaskedHaveNoSize /\ [LedgerNext]_ledgerVars => UnaskedHaveNoSize'
  BY StepUnasked
<1>3. TypeOK /\ TypeOK' /\ CapitalFollowsLifecycle /\ CapitalFollowsLifecycle'
        /\ UnaskedHaveNoSize /\ [LedgerNext]_ledgerVars
      => [Account!AccountNext]_(Account!accountVars)
  BY StepOfAccount
<1> QED
  BY <1>1, <1>2, <1>3, TypeCorrect, CapitalCorrect, PTL
     DEF LedgerSpec, ImplementsAccount, Account!AccountSpec

-----------------------------------------------------------------------------
(* Base inventory is conserved.  The invariant BaseConserved needs is that   *)
(* the receipts are finitely many and that nothing is carried from nowhere:  *)
(* then every amount a cycle was carried is one some cycle carried out, and  *)
(* summed over the cycles the carries cancel.                                *)

OutColumn == [r \in ReceiptRow |-> r.output]
InColumn == [r \in ReceiptRow |-> r.input]
CarryColumn == [c \in Cycles |-> CarryAmount(c)]
InventoryColumn == [c \in Cycles |-> Inventory(c)]

\* What SUM(output_atomic) and SUM(input_atomic) over receipts return.
TotalsAreSums ==
    \A S \in SUBSET ReceiptRow :
        TotalOut(S) = SumOf(OutColumn, S) /\ TotalIn(S) = SumOf(InColumn, S)

LEMMA TotalsSum == TotalsAreSums
<1> SUFFICES ASSUME NEW S \in SUBSET ReceiptRow
             PROVE TotalOut(S) = SumOf(OutColumn, S) /\ TotalIn(S) = SumOf(InColumn, S)
  BY DEF TotalsAreSums
<1> DEFINE OwnOut(g) ==
      g = [s \in SUBSET S |-> IF s = {} THEN 0 ELSE OutputOf(Pick(s)) + g[s \ {Pick(s)}]]
           OwnIn(g) ==
      g = [s \in SUBSET S |-> IF s = {} THEN 0 ELSE InputOf(Pick(s)) + g[s \ {Pick(s)}]]
<1>1. \A s \in SUBSET S : s # {} => /\ OutputOf(Pick(s)) = OutColumn[Pick(s)]
                                    /\ InputOf(Pick(s)) = InColumn[Pick(s)]
  BY DEF OutColumn, InColumn, OutputOf, InputOf, Pick
<1>2. \A g : OwnOut(g) <=> Solves(OutColumn, S, g)
  BY <1>1 DEF Solves
<1>3. \A g : OwnIn(g) <=> Solves(InColumn, S, g)
  BY <1>1 DEF Solves
<1>4. (CHOOSE g : OwnOut(g)) = (CHOOSE g : Solves(OutColumn, S, g))
  <2> HIDE DEF OwnOut
  <2> QED BY <1>2
<1>5. (CHOOSE g : OwnIn(g)) = (CHOOSE g : Solves(InColumn, S, g))
  <2> HIDE DEF OwnIn
  <2> QED BY <1>3
<1>6. TotalOut(S) = (CHOOSE g : OwnOut(g))[S] /\ TotalIn(S) = (CHOOSE g : OwnIn(g))[S]
  BY DEF TotalOut, TotalIn, MapThenSumSet, MapThenFoldSet, Pick
<1> QED
  BY <1>4, <1>5, <1>6, SumIsSolution DEF Solution

\* What a cycle carried out, and what the cycles hold together, are sums.
CarriesAreSums ==
    /\ \A S \in SUBSET Cycles : MapThenSumSet(CarryAmount, S) = SumOf(CarryColumn, S)
    /\ MapThenSumSet(Inventory, Cycles) = SumOf(InventoryColumn, Cycles)

LEMMA CarriesSum == CarriesAreSums
<1>1. ASSUME NEW S \in SUBSET Cycles
      PROVE MapThenSumSet(CarryAmount, S) = SumOf(CarryColumn, S)
  <2> DEFINE Own(g) ==
        g = [s \in SUBSET S |-> IF s = {} THEN 0 ELSE CarryAmount(Pick(s)) + g[s \ {Pick(s)}]]
  <2>1. \A s \in SUBSET S : s # {} => CarryAmount(Pick(s)) = CarryColumn[Pick(s)]
    BY DEF CarryColumn, Pick
  <2>2. \A g : Own(g) <=> Solves(CarryColumn, S, g)
    BY <2>1 DEF Solves
  <2>3. (CHOOSE g : Own(g)) = (CHOOSE g : Solves(CarryColumn, S, g))
    <3> HIDE DEF Own
    <3> QED BY <2>2
  <2>4. MapThenSumSet(CarryAmount, S) = (CHOOSE g : Own(g))[S]
    BY DEF MapThenSumSet, MapThenFoldSet, Pick
  <2> QED
    BY <2>3, <2>4, SumIsSolution DEF Solution
<1>2. MapThenSumSet(Inventory, Cycles) = SumOf(InventoryColumn, Cycles)
  <2> DEFINE Own(g) ==
        g = [s \in SUBSET Cycles |-> IF s = {} THEN 0 ELSE Inventory(Pick(s)) + g[s \ {Pick(s)}]]
  <2>1. \A s \in SUBSET Cycles : s # {} => Inventory(Pick(s)) = InventoryColumn[Pick(s)]
    BY DEF InventoryColumn, Pick
  <2>2. \A g : Own(g) <=> Solves(InventoryColumn, Cycles, g)
    BY <2>1 DEF Solves
  <2>3. (CHOOSE g : Own(g)) = (CHOOSE g : Solves(InventoryColumn, Cycles, g))
    <3> HIDE DEF Own
    <3> QED BY <2>2
  <2>4. MapThenSumSet(Inventory, Cycles) = (CHOOSE g : Own(g))[Cycles]
    BY DEF MapThenSumSet, MapThenFoldSet, Pick
  <2> QED
    BY <2>3, <2>4, SumIsSolution DEF Solution
<1> QED
  BY <1>1, <1>2 DEF CarriesAreSums

\* Only a cycle opened by a continuation was carried anything.
NothingFromNowhere == \A c \in Cycles : carry[c].from = "none" => carry[c].amount = 0

\* Receipts are integers, and each sum of them over finitely many rows is one.
LEMMA TotalsType ==
    ASSUME TypeOK, IsFiniteSet(receipts)
    PROVE \A S \in SUBSET receipts : /\ IsFiniteSet(S)
                                     /\ TotalOut(S) = SumOf(OutColumn, S) /\ TotalOut(S) \in Int
                                     /\ TotalIn(S) = SumOf(InColumn, S) /\ TotalIn(S) \in Int
                                     /\ \A r \in S : OutColumn[r] \in Int /\ InColumn[r] \in Int
<1> SUFFICES ASSUME NEW S \in SUBSET receipts
             PROVE /\ IsFiniteSet(S)
                   /\ TotalOut(S) = SumOf(OutColumn, S) /\ TotalOut(S) \in Int
                   /\ TotalIn(S) = SumOf(InColumn, S) /\ TotalIn(S) \in Int
                   /\ \A r \in S : OutColumn[r] \in Int /\ InColumn[r] \in Int
  OBVIOUS
<1>1. IsFiniteSet(S)
  BY FS_Subset
<1>2. \A r \in S : OutColumn[r] \in Int /\ InColumn[r] \in Int
  <2> SUFFICES ASSUME NEW r \in S
               PROVE OutColumn[r] \in Int /\ InColumn[r] \in Int
    OBVIOUS
  <2>1. r \in ReceiptRow
    BY DEF TypeOK
  <2>2. r.output \in Nat /\ r.input \in Nat
    BY <2>1, AmountsAssumption DEF ReceiptRow
  <2> QED
    BY <2>1, <2>2 DEF OutColumn, InColumn
<1>3. SumOf(OutColumn, S) \in Int /\ SumOf(InColumn, S) \in Int
  BY <1>1, <1>2, SumInt
<1>4. TotalOut(S) = SumOf(OutColumn, S) /\ TotalIn(S) = SumOf(InColumn, S)
  BY TotalsSum DEF TotalsAreSums, TypeOK
<1> QED
  BY <1>1, <1>2, <1>3, <1>4

\* Filled trades, by side: what the cycles acquired and disposed of together is
\* what the filled intents did.
FilledRows(side) ==
    {r \in receipts : state[r.action] = "FILLED" /\ ActionInfo[r.action].side = side}

LEMMA TradesByCycle ==
    ASSUME TypeOK, IsFiniteSet(receipts)
    PROVE /\ SumOf([c \in Cycles |-> BaseAcquired(c)], Cycles) = TotalOut(FilledRows("BUY"))
          /\ SumOf([c \in Cycles |-> BaseDisposed(c)], Cycles) = TotalIn(FilledRows("SELL"))
<1> DEFINE k == [r \in ReceiptRow |-> CycleOf(r.action)]
           bought == FilledRows("BUY")
           sold == FilledRows("SELL")
<1>1. \A r \in receipts : k[r] = CycleOf(r.action) /\ k[r] \in Cycles /\ r.action \in Actions
  BY ActionAssumption DEF TypeOK, ReceiptRow, CycleOf, ActionRecord
<1>2. bought \in SUBSET receipts /\ sold \in SUBSET receipts
  BY DEF FilledRows
<1>3. \A c \in Cycles : /\ BaseAcquired(c) = TotalOut({r \in bought : k[r] = c})
                        /\ BaseDisposed(c) = TotalIn({r \in sold : k[r] = c})
  <2> SUFFICES ASSUME NEW c \in Cycles
               PROVE /\ BaseAcquired(c) = TotalOut({r \in bought : k[r] = c})
                     /\ BaseDisposed(c) = TotalIn({r \in sold : k[r] = c})
    OBVIOUS
  <2>1. {r \in receipts : r.action \in FilledIn(c, "BUY")} = {r \in bought : k[r] = c}
    BY <1>1 DEF FilledIn, FilledRows
  <2>2. {r \in receipts : r.action \in FilledIn(c, "SELL")} = {r \in sold : k[r] = c}
    BY <1>1 DEF FilledIn, FilledRows
  <2> QED
    BY <2>1, <2>2 DEF BaseAcquired, BaseDisposed
<1> HIDE DEF k, bought, sold
<1>4. \A c \in Cycles :
        /\ BaseAcquired(c) = SumOf(OutColumn, {r \in bought : k[r] = c})
        /\ BaseDisposed(c) = SumOf(InColumn, {r \in sold : k[r] = c})
  <2> SUFFICES ASSUME NEW c \in Cycles
               PROVE /\ BaseAcquired(c) = SumOf(OutColumn, {r \in bought : k[r] = c})
                     /\ BaseDisposed(c) = SumOf(InColumn, {r \in sold : k[r] = c})
    OBVIOUS
  <2>1. {r \in bought : k[r] = c} \in SUBSET receipts /\ {r \in sold : k[r] = c} \in SUBSET receipts
    BY <1>2
  <2> QED
    BY <1>3, <2>1, TotalsType
<1>5. /\ [c \in Cycles |-> BaseAcquired(c)] = [c \in Cycles |-> SumOf(OutColumn, {r \in bought : k[r] = c})]
      /\ [c \in Cycles |-> BaseDisposed(c)] = [c \in Cycles |-> SumOf(InColumn, {r \in sold : k[r] = c})]
  BY <1>4
<1>6. {r \in bought : k[r] \in Cycles} = bought /\ {r \in sold : k[r] \in Cycles} = sold
  BY <1>1, <1>2
<1>7. /\ IsFiniteSet(bought) /\ \A r \in bought : OutColumn[r] \in Int
      /\ IsFiniteSet(sold) /\ \A r \in sold : InColumn[r] \in Int
      /\ TotalOut(bought) = SumOf(OutColumn, bought) /\ TotalIn(sold) = SumOf(InColumn, sold)
  BY <1>2, TotalsType
<1>8. SumOf([c \in Cycles |-> SumOf(OutColumn, {r \in bought : k[r] = c})], Cycles)
        = SumOf(OutColumn, {r \in bought : k[r] \in Cycles})
  BY <1>7, FiniteAssumption, SumFibres
<1>9. SumOf([c \in Cycles |-> SumOf(InColumn, {r \in sold : k[r] = c})], Cycles)
        = SumOf(InColumn, {r \in sold : k[r] \in Cycles})
  BY <1>7, FiniteAssumption, SumFibres
<1> QED
  BY <1>5, <1>6, <1>7, <1>8, <1>9 DEF bought, sold

\* Summed over the cycles, what was carried out is what was carried in.
LEMMA CarriesCancel ==
    ASSUME TypeOK, NothingFromNowhere
    PROVE SumOf([c \in Cycles |-> CarriedOut(c)], Cycles) = SumOf(CarryColumn, Cycles)
<1> DEFINE k == [c \in Cycles |-> carry[c].from]
           some == {c \in Cycles : k[c] \in Cycles}
           none == Cycles \ some
<1>1. \A c \in Cycles : CarryColumn[c] \in Int /\ CarryColumn[c] = carry[c].amount
  BY DEF TypeOK, CarryColumn, CarryAmount
<1>2. \A c \in Cycles : CarriedOut(c) = SumOf(CarryColumn, {d \in Cycles : k[d] = c})
  BY CarriesSum DEF CarriesAreSums, CarriedOut, CarriedFrom
<1>3. SumOf([c \in Cycles |-> SumOf(CarryColumn, {d \in Cycles : k[d] = c})], Cycles)
        = SumOf(CarryColumn, some)
  <2> HIDE DEF k
  <2> QED BY <1>1, FiniteAssumption, SumFibres
<1>4. IsFiniteSet(some) /\ IsFiniteSet(none) /\ some \cap none = {} /\ some \cup none = Cycles
  BY FiniteAssumption, FS_Subset
<1>5. SumOf(CarryColumn, Cycles) = SumOf(CarryColumn, some) + SumOf(CarryColumn, none)
  <2> HIDE DEF some, none
  <2>1. \A c \in some \cup none : CarryColumn[c] \in Int
    BY <1>1, <1>4
  <2> QED
    BY <1>4, <2>1, SumUnion
<1>6. \A c \in none : CarryColumn[c] = 0
  BY <1>1 DEF TypeOK, NothingFromNowhere
<1>7. SumOf(CarryColumn, none) = 0
  <2> HIDE DEF some, none
  <2> QED BY <1>4, <1>6, SumZero
<1>8. SumOf(CarryColumn, some) \in Int
  <2>1. some \in SUBSET Cycles
    OBVIOUS
  <2> HIDE DEF some
  <2> QED BY <1>1, <2>1, FiniteAssumption, SumInt
<1>9. [c \in Cycles |-> CarriedOut(c)]
        = [c \in Cycles |-> SumOf(CarryColumn, {d \in Cycles : k[d] = c})]
  BY <1>2
<1>10. SumOf([c \in Cycles |-> CarriedOut(c)], Cycles) = SumOf(CarryColumn, some)
  <2> HIDE DEF k, some, none
  <2> QED BY <1>3, <1>9
<1>11. SumOf(CarryColumn, Cycles) = SumOf(CarryColumn, some)
  <2> HIDE DEF k, some, none
  <2> QED BY <1>5, <1>7, <1>8
<1> QED
  BY <1>10, <1>11

\* In a state whose receipts are finitely many and whose carries have a source,
\* nothing is created or lost between the cycles.
LEMMA CarriesConserve ==
    ASSUME TypeOK, IsFiniteSet(receipts), NothingFromNowhere
    PROVE BaseConserved
<1> DEFINE acq == [c \in Cycles |-> BaseAcquired(c)]
           disp == [c \in Cycles |-> BaseDisposed(c)]
           out == [c \in Cycles |-> CarriedOut(c)]
           held == [c \in Cycles |-> CarryAmount(c) + BaseAcquired(c)]
           gone == [c \in Cycles |-> BaseDisposed(c) + CarriedOut(c)]
<1>1. ASSUME NEW c \in Cycles
      PROVE /\ BaseAcquired(c) \in Int /\ BaseDisposed(c) \in Int
            /\ CarriedOut(c) \in Int /\ CarryAmount(c) \in Int
  <2>1. /\ {r \in receipts : r.action \in FilledIn(c, "BUY")} \in SUBSET receipts
        /\ {r \in receipts : r.action \in FilledIn(c, "SELL")} \in SUBSET receipts
    OBVIOUS
  <2>2. BaseAcquired(c) \in Int /\ BaseDisposed(c) \in Int
    BY <2>1, TotalsType DEF BaseAcquired, BaseDisposed
  <2>3. \A d \in Cycles : CarryColumn[d] \in Int /\ CarryAmount(d) \in Int
    BY DEF CarryColumn, CarryAmount, TypeOK
  <2>4. CarriedFrom(c) \in SUBSET Cycles
    BY DEF CarriedFrom
  <2>5. CarriedOut(c) = SumOf(CarryColumn, CarriedFrom(c))
    BY <2>4, CarriesSum DEF CarriesAreSums, CarriedOut
  <2>6. SumOf(CarryColumn, CarriedFrom(c)) \in Int
    BY <2>3, <2>4, FiniteAssumption, SumInt
  <2> QED
    BY <2>2, <2>3, <2>5, <2>6
<1>2. \A c \in Cycles :
        /\ acq[c] \in Int /\ disp[c] \in Int /\ out[c] \in Int /\ CarryColumn[c] \in Int
        /\ InventoryColumn[c] \in Int /\ held[c] \in Int /\ gone[c] \in Int
        /\ held[c] = CarryColumn[c] + acq[c]
        /\ gone[c] = disp[c] + out[c]
        /\ held[c] = InventoryColumn[c] + gone[c]
  BY <1>1 DEF CarryColumn, InventoryColumn, Inventory
<1>3. /\ SumOf(acq, Cycles) = TotalOut(FilledRows("BUY"))
      /\ SumOf(disp, Cycles) = TotalIn(FilledRows("SELL"))
  BY TradesByCycle
<1>4. SumOf(out, Cycles) = SumOf(CarryColumn, Cycles)
  BY CarriesCancel
<1> HIDE DEF acq, disp, out, held, gone
<1>5. SumOf(held, Cycles) = SumOf(CarryColumn, Cycles) + SumOf(acq, Cycles)
  BY <1>2, FiniteAssumption, SumPlus
<1>6. SumOf(gone, Cycles) = SumOf(disp, Cycles) + SumOf(out, Cycles)
  BY <1>2, FiniteAssumption, SumPlus
<1>7. SumOf(held, Cycles) = SumOf(InventoryColumn, Cycles) + SumOf(gone, Cycles)
  BY <1>2, FiniteAssumption, SumPlus
<1>8. /\ SumOf(InventoryColumn, Cycles) \in Int /\ SumOf(CarryColumn, Cycles) \in Int
      /\ SumOf(acq, Cycles) \in Int /\ SumOf(disp, Cycles) \in Int
  BY <1>2, FiniteAssumption, SumInt
<1>9. SumOf(InventoryColumn, Cycles) = SumOf(acq, Cycles) - SumOf(disp, Cycles)
  BY <1>4, <1>5, <1>6, <1>7, <1>8
<1>10. MapThenSumSet(Inventory, Cycles) = TotalOut(FilledRows("BUY")) - TotalIn(FilledRows("SELL"))
  BY <1>3, <1>9, CarriesSum DEF CarriesAreSums
<1> QED
  BY <1>10 DEF BaseConserved, FilledRows

\* One receipt at a time, the receipts stay finitely many.
LEMMA StepFinite ==
    ASSUME IsFiniteSet(receipts), [LedgerNext]_ledgerVars
    PROVE IsFiniteSet(receipts)'
<1>1. CASE UNCHANGED receipts
  BY <1>1
<1>2. CASE \E row \in ReceiptRow : AppendFillReceipt(row)
  BY <1>2, FS_AddElement DEF AppendFillReceipt, InsertReceipt
<1> QED
  BY <1>1, <1>2 DEF LedgerNext, ledgerVars, AdmitPolicy, OpenCycle, ReadInventory, CloseCycle,
                    ContinueInventoryIntoSuccessorCycle, CreateIntent, Transition

\* A continuation writes the source next to the amount.
LEMMA StepCarrySource ==
    ASSUME TypeOK, NothingFromNowhere, [LedgerNext]_ledgerVars
    PROVE NothingFromNowhere'
<1>1. CASE UNCHANGED carry
  BY <1>1 DEF NothingFromNowhere
<1>2. CASE \E c, d \in Cycles : ContinueInventoryIntoSuccessorCycle(c, d)
  BY <1>2, CycleAssumption DEF ContinueInventoryIntoSuccessorCycle, NothingFromNowhere, TypeOK
<1> QED
  BY <1>1, <1>2 DEF LedgerNext, ledgerVars, AdmitPolicy, OpenCycle, ReadInventory, CloseCycle,
                    AppendFillReceipt, CreateIntent, Transition

\* The receipts on record are finitely many in every reachable state, so the sums
\* over them (get_cycle_inventory) mean something.
THEOREM ReceiptsAreFinite == LedgerSpec => []IsFiniteSet(receipts)
<1>1. LedgerInit => IsFiniteSet(receipts)
  BY FS_EmptySet DEF LedgerInit
<1>2. IsFiniteSet(receipts) /\ [LedgerNext]_ledgerVars => IsFiniteSet(receipts)'
  BY StepFinite
<1> QED
  BY <1>1, <1>2, PTL DEF LedgerSpec

\* Moving base inventory between cycles creates and loses none of it, however the
\* cycles are chained (get_cycle_inventory, continue_inventory_into_successor_cycle).
THEOREM BaseConservedCorrect == LedgerSpec => []BaseConserved
<1>1. LedgerInit => NothingFromNowhere
  BY DEF LedgerInit, NothingFromNowhere, NoCarry
<1>2. TypeOK /\ NothingFromNowhere /\ [LedgerNext]_ledgerVars => NothingFromNowhere'
  BY StepCarrySource
<1>3. TypeOK /\ IsFiniteSet(receipts) /\ NothingFromNowhere => BaseConserved
  BY CarriesConserve
<1> QED
  BY <1>1, <1>2, <1>3, TypeCorrect, ReceiptsAreFinite, PTL DEF LedgerSpec

-----------------------------------------------------------------------------
(* A continuation moves everything.  The invariant it needs is that a cycle  *)
(* which was never opened is untouched: no intent of it exists, and nothing  *)
(* was carried to it or from it.                                             *)

Untouched(d) ==
    /\ carry[d] = NoCarry
    /\ CarriedFrom(d) = {}
    /\ \A a \in Actions : CycleOf(a) = d => state[a] = "NONE"

UnopenedUntouched == \A d \in Cycles : cycle[d] = "NONE" => Untouched(d)

\* A cycle that has a row keeps one.
LEMMA RowsStay ==
    ASSUME TypeOK, [LedgerNext]_ledgerVars, NEW d \in Cycles, cycle'[d] = "NONE"
    PROVE cycle[d] = "NONE"
<1>1. CASE UNCHANGED cycle
  BY <1>1
<1>2. CASE \E c \in Cycles : OpenCycle(c)
  BY <1>2 DEF OpenCycle, TypeOK
<1>3. CASE \E c \in Cycles, status \in CycleStatus : CloseCycle(c, status)
  BY <1>3 DEF CloseCycle, TypeOK
<1>4. CASE \E c, e \in Cycles : ContinueInventoryIntoSuccessorCycle(c, e)
  BY <1>4 DEF ContinueInventoryIntoSuccessorCycle, ContinueGuard, TypeOK
<1> QED
  BY <1>1, <1>2, <1>3, <1>4 DEF LedgerNext, ledgerVars, AdmitPolicy, ReadInventory,
                                AppendFillReceipt, CreateIntent, Transition

\* Only an intent that exists changes state, and only in an open cycle is one created.
LEMMA StepUntouched ==
    ASSUME TypeOK, UnopenedUntouched, [LedgerNext]_ledgerVars
    PROVE UnopenedUntouched'
<1> SUFFICES ASSUME NEW d \in Cycles, cycle'[d] = "NONE"
             PROVE Untouched(d)'
  BY DEF UnopenedUntouched
<1>1. cycle[d] = "NONE" /\ Untouched(d)
  BY RowsStay DEF UnopenedUntouched
<1>2. CASE UNCHANGED <<carry, state>>
  BY <1>1, <1>2 DEF Untouched, CarriedFrom
<1>3. CASE \E c, e \in Cycles : ContinueInventoryIntoSuccessorCycle(c, e)
  <2>1. PICK c \in Cycles, e \in Cycles : ContinueInventoryIntoSuccessorCycle(c, e)
    BY <1>3
  <2>2. c # d /\ e # d /\ UNCHANGED state /\ \A x \in Cycles \ {e} : carry'[x] = carry[x]
    BY <1>1, <2>1 DEF ContinueInventoryIntoSuccessorCycle, ContinueGuard, TypeOK
  <2>3. carry'[e].from = c
    BY <2>1 DEF ContinueInventoryIntoSuccessorCycle, TypeOK
  <2> QED
    BY <1>1, <2>2, <2>3 DEF Untouched, CarriedFrom
<1>4. CASE \E a \in Actions : CreateIntent(a)
  BY <1>1, <1>4 DEF CreateIntent, Untouched, CarriedFrom, TypeOK
<1>5. CASE \E a \in Actions, to \in IntentState : Transition(a, to)
  BY <1>1, <1>5 DEF Transition, MoveIntent, TransitionAllowed, Untouched, CarriedFrom, TypeOK
<1>6. CASE \E row \in ReceiptRow : AppendFillReceipt(row)
  <2>1. PICK row \in ReceiptRow : AppendFillReceipt(row)
    BY <1>6
  <2>2. row.action \in Actions /\ state[row.action] # "NONE" /\ UNCHANGED carry
    BY <2>1 DEF AppendFillReceipt, InsertReceipt, RECEIPT_STATES, ReceiptRow
  <2>3. \A a \in Actions \ {row.action} : state'[a] = state[a]
    BY <2>1 DEF AppendFillReceipt, InsertReceipt, ReceiptStateEffect, TypeOK
  <2> QED
    BY <1>1, <2>2, <2>3 DEF Untouched, CarriedFrom
<1> QED
  BY <1>2, <1>3, <1>4, <1>5, <1>6 DEF LedgerNext, ledgerVars, AdmitPolicy, OpenCycle,
                                      ReadInventory, CloseCycle

\* Nothing has been traded in a cycle no intent of which exists.
LEMMA UntouchedTradedNothing ==
    ASSUME NEW d, Untouched(d)
    PROVE BaseAcquired(d) = 0 /\ BaseDisposed(d) = 0
<1>1. FilledIn(d, "BUY") = {} /\ FilledIn(d, "SELL") = {}
  BY DEF Untouched, FilledIn
<1>2. /\ {r \in receipts : r.action \in FilledIn(d, "BUY")} = {}
      /\ {r \in receipts : r.action \in FilledIn(d, "SELL")} = {}
  BY <1>1
<1>3. TotalOut({}) = 0 /\ TotalIn({}) = 0
  BY TotalsSum, SumEmpty DEF TotalsAreSums
<1> QED
  BY <1>2, <1>3 DEF BaseAcquired, BaseDisposed

LEMMA CarriesSumNext == CarriesAreSums'
BY CarriesSum, PTL

LEMMA ContinueMovesAll ==
    ASSUME TypeOK, IsFiniteSet(receipts), UnopenedUntouched, NEW c \in Cycles, NEW d \in Cycles,
           ContinueInventoryIntoSuccessorCycle(c, d)
    PROVE /\ Inventory(d)' = Inventory(c)
          /\ Inventory(c)' = 0
          /\ \A e \in Cycles \ {d} : carry'[e] = carry[e]
<1>1. /\ c # d /\ cycle[d] = "NONE" /\ CarriedFrom(c) = {} /\ Inventory(c) \in Nat
      /\ UNCHANGED <<state, receipts>>
      /\ carry'[d] = [from |-> c, amount |-> Inventory(c)]
      /\ \A e \in Cycles \ {d} : carry'[e] = carry[e]
  BY DEF ContinueInventoryIntoSuccessorCycle, ContinueGuard, TypeOK
<1>2. Untouched(d)
  BY <1>1 DEF UnopenedUntouched
<1>3. CarriedFrom(d)' = {} /\ CarriedFrom(c)' = {d}
  BY <1>1, <1>2 DEF Untouched, CarriedFrom
<1>4. MapThenSumSet(CarryAmount, {})' = 0 /\ MapThenSumSet(CarryAmount, {}) = 0
  BY CarriesSum, CarriesSumNext, SumEmpty DEF CarriesAreSums
<1>5. MapThenSumSet(CarryAmount, {d})' = Inventory(c)
  <2>1. MapThenSumSet(CarryAmount, {d})' = SumOf(CarryColumn', {d})
    BY CarriesSumNext DEF CarriesAreSums
  <2>2. CarryColumn'[d] = Inventory(c) /\ Inventory(c) \in Int
    BY <1>1 DEF CarryColumn, CarryAmount
  <2>3. SumOf(CarryColumn', {} \cup {d}) = CarryColumn'[d] + SumOf(CarryColumn', {})
    BY <2>2, FS_EmptySet, SumAdd
  <2>4. {} \cup {d} = {d}
    OBVIOUS
  <2> QED
    BY <2>1, <2>2, <2>3, <2>4, SumEmpty
<1>6. /\ CarriedOut(d)' = 0
      /\ CarriedOut(c)' = Inventory(c)
      /\ CarriedOut(c) = 0
  BY <1>1, <1>3, <1>4, <1>5 DEF CarriedOut
<1>7. \A e \in Cycles : BaseAcquired(e)' = BaseAcquired(e) /\ BaseDisposed(e)' = BaseDisposed(e)
  BY <1>1 DEF BaseAcquired, BaseDisposed, FilledIn, TotalOut, TotalIn
<1>8. BaseAcquired(d) = 0 /\ BaseDisposed(d) = 0
  BY <1>2, UntouchedTradedNothing
<1>9. CarryAmount(d)' = Inventory(c) /\ CarryAmount(c)' = CarryAmount(c)
  BY <1>1 DEF CarryAmount
<1>10. Inventory(d)' = Inventory(c)
  BY <1>1, <1>6, <1>7, <1>8, <1>9 DEF Inventory
<1>11. Inventory(c)' = 0
  <2>1. CarryAmount(c) \in Int /\ BaseAcquired(c) \in Int /\ BaseDisposed(c) \in Int
    <3>1. /\ {r \in receipts : r.action \in FilledIn(c, "BUY")} \in SUBSET receipts
          /\ {r \in receipts : r.action \in FilledIn(c, "SELL")} \in SUBSET receipts
      OBVIOUS
    <3> QED
      BY <3>1, TotalsType DEF BaseAcquired, BaseDisposed, CarryAmount, TypeOK
  <2> QED
    BY <1>6, <1>7, <1>9, <2>1 DEF Inventory
<1> QED
  BY <1>1, <1>10, <1>11

\* The step of any other call carries nothing.
LEMMA StepMovesAll ==
    ASSUME TypeOK, IsFiniteSet(receipts), UnopenedUntouched, [LedgerNext]_ledgerVars,
           NEW c \in Cycles, NEW d \in Cycles, carry'[d] # carry[d], carry'[d].from = c
    PROVE Inventory(d)' = Inventory(c) /\ Inventory(c)' = 0
<1>1. PICK s \in Cycles, t \in Cycles : ContinueInventoryIntoSuccessorCycle(s, t)
  BY DEF LedgerNext, ledgerVars, AdmitPolicy, OpenCycle, ReadInventory, CloseCycle,
         AppendFillReceipt, CreateIntent, Transition
<1>2. t = d
  BY <1>1, ContinueMovesAll
<1>3. s = c
  BY <1>1, <1>2 DEF ContinueInventoryIntoSuccessorCycle, TypeOK
<1> QED
  BY <1>1, <1>2, <1>3, ContinueMovesAll

LEMMA InitUntouched == LedgerInit => UnopenedUntouched
BY CycleAssumption DEF LedgerInit, UnopenedUntouched, Untouched, CarriedFrom, NoCarry

\* What a continuation opens the successor with is all the source has, what the
\* source was itself carried included, and the source is left with none.
THEOREM CarryCorrect == LedgerSpec => CarryMovesEverything
<1>1. TypeOK /\ UnopenedUntouched /\ [LedgerNext]_ledgerVars => UnopenedUntouched'
  BY StepUntouched
<1>2. TypeOK /\ IsFiniteSet(receipts) /\ UnopenedUntouched /\ [LedgerNext]_ledgerVars =>
        [\A c, d \in Cycles :
           carry'[d] # carry[d] /\ carry'[d].from = c =>
               Inventory(d)' = Inventory(c) /\ Inventory(c)' = 0]_ledgerVars
  BY StepMovesAll
<1> QED
  BY <1>1, <1>2, InitUntouched, TypeCorrect, ReceiptsAreFinite, PTL
     DEF LedgerSpec, CarryMovesEverything

-----------------------------------------------------------------------------
(* No cycle sells more than it held.  The invariant bounds every sell by its *)
(* share of all the cycle ever acquired, which only grows; the reading it    *)
(* was sized from may be older than any of the other sells.                  *)

\* Ladders parse_policy admits of a policy that enters by buying.
BuyingLadders ==
    \E whole \in Nat \ {0} : \E share \in [Actions -> Nat] : SellsAreShares(whole, share)

\* All the base a cycle ever had: what it was carried and what it bought.
EverHeld(c) == CarryAmount(c) + BaseAcquired(c)

SellsWithinShares ==
    /\ \A c \in Cycles : seen[c] <= EverHeld(c)
    /\ \A a \in Actions :
         state[a] # "NONE" /\ ActionInfo[a].side = "SELL" =>
           bounds[a].maxInput * ActionInfo[a].den <= EverHeld(CycleOf(a)) * ActionInfo[a].num

LEMMA ActionType ==
    ASSUME NEW a \in Actions
    PROVE /\ CycleOf(a) \in Cycles /\ ActionInfo[a].cycle = CycleOf(a)
          /\ ActionInfo[a].num \in Nat /\ ActionInfo[a].den \in Nat \ {0}
          /\ ActionInfo[a].kind \in {"ENTRY", "EXIT"} /\ ActionInfo[a].side \in {"BUY", "SELL"}
BY ActionAssumption DEF ActionRecord, CycleOf

\* What a cycle traded and held, counted.
LEMMA InventoryType ==
    ASSUME TypeOK, IsFiniteSet(receipts), NEW c \in Cycles
    PROVE /\ CarryAmount(c) \in Nat /\ BaseAcquired(c) \in Nat /\ BaseDisposed(c) \in Nat
          /\ CarriedOut(c) \in Nat /\ EverHeld(c) \in Nat
          /\ Inventory(c) = EverHeld(c) - BaseDisposed(c) - CarriedOut(c)
<1>1. \A r \in receipts : OutColumn[r] \in Nat /\ InColumn[r] \in Nat
  <2> SUFFICES ASSUME NEW r \in receipts
               PROVE OutColumn[r] \in Nat /\ InColumn[r] \in Nat
    OBVIOUS
  <2>1. r \in ReceiptRow
    BY DEF TypeOK
  <2> QED
    BY <2>1, AmountsAssumption DEF ReceiptRow, OutColumn, InColumn
<1> DEFINE bought == {r \in receipts : r.action \in FilledIn(c, "BUY")}
           sold == {r \in receipts : r.action \in FilledIn(c, "SELL")}
<1>2. /\ IsFiniteSet(bought) /\ \A r \in bought : OutColumn[r] \in Nat
      /\ IsFiniteSet(sold) /\ \A r \in sold : InColumn[r] \in Nat
      /\ BaseAcquired(c) = SumOf(OutColumn, bought) /\ BaseDisposed(c) = SumOf(InColumn, sold)
  <2>1. bought \in SUBSET receipts /\ sold \in SUBSET receipts
    OBVIOUS
  <2> QED
    BY <1>1, <2>1, TotalsType DEF BaseAcquired, BaseDisposed
<1>3. BaseAcquired(c) \in Nat /\ BaseDisposed(c) \in Nat
  <2> HIDE DEF bought, sold
  <2> QED BY <1>2, SumNat
<1>4. CarriedFrom(c) \in SUBSET Cycles /\ IsFiniteSet(CarriedFrom(c))
  BY FiniteAssumption, FS_Subset DEF CarriedFrom
<1>5. \A d \in Cycles : CarryColumn[d] \in Nat /\ CarryAmount(d) \in Nat
  BY DEF CarryColumn, CarryAmount, TypeOK
<1>6. CarriedOut(c) = SumOf(CarryColumn, CarriedFrom(c))
  BY <1>4, CarriesSum DEF CarriesAreSums, CarriedOut
<1>7. CarriedOut(c) \in Nat
  BY <1>4, <1>5, <1>6, SumNat
<1> QED
  BY <1>3, <1>5, <1>7 DEF EverHeld, Inventory

\* A filled intent stays filled, and its receipts stay as they are.
LEMMA FilledStays ==
    ASSUME TypeOK, [LedgerNext]_ledgerVars, NEW a \in Actions, state[a] = "FILLED"
    PROVE state'[a] = "FILLED" /\ ReceiptsOf(a)' = ReceiptsOf(a)
<1>1. CASE UNCHANGED <<state, receipts>>
  BY <1>1 DEF ReceiptsOf
<1>2. CASE \E b \in Actions : CreateIntent(b)
  BY <1>2 DEF CreateIntent, ReceiptsOf, TypeOK
<1>3. CASE \E b \in Actions, to \in IntentState : Transition(b, to)
  BY <1>3 DEF Transition, MoveIntent, TransitionAllowed, ReceiptsOf, TypeOK, TRANSITIONS
<1>4. CASE \E row \in ReceiptRow : AppendFillReceipt(row)
  <2>1. PICK row \in ReceiptRow : AppendFillReceipt(row)
    BY <1>4
  <2>2. row.action # a /\ receipts' = receipts \cup {row}
    BY <2>1 DEF AppendFillReceipt, InsertReceipt, RECEIPT_STATES
  <2> QED
    BY <2>1, <2>2 DEF AppendFillReceipt, InsertReceipt, ReceiptStateEffect, ReceiptsOf, TypeOK
<1> QED
  BY <1>1, <1>2, <1>3, <1>4 DEF LedgerNext, ledgerVars, AdmitPolicy, OpenCycle, ReadInventory,
                                CloseCycle, ContinueInventoryIntoSuccessorCycle

\* What a cycle was carried is decided before it opens.
LEMMA CarryOnce ==
    ASSUME TypeOK, UnopenedUntouched, [LedgerNext]_ledgerVars, NEW c \in Cycles
    PROVE carry'[c] = carry[c] \/ carry[c] = NoCarry
<1>1. CASE UNCHANGED carry
  BY <1>1
<1>2. CASE \E d, e \in Cycles : ContinueInventoryIntoSuccessorCycle(d, e)
  BY <1>2 DEF ContinueInventoryIntoSuccessorCycle, ContinueGuard, UnopenedUntouched, Untouched, TypeOK
<1> QED
  BY <1>1, <1>2 DEF LedgerNext, ledgerVars, AdmitPolicy, OpenCycle, ReadInventory, CloseCycle,
                    AppendFillReceipt, CreateIntent, Transition

\* What a cycle ever held only grows.
LEMMA EverHeldGrows ==
    ASSUME TypeOK, TypeOK', IsFiniteSet(receipts), IsFiniteSet(receipts)', UnopenedUntouched,
           [LedgerNext]_ledgerVars, NEW c \in Cycles
    PROVE EverHeld(c) <= EverHeld(c)'
<1> DEFINE bought == {r \in receipts : r.action \in FilledIn(c, "BUY")}
<1>1. bought \subseteq bought'
  <2> SUFFICES ASSUME NEW r \in bought
               PROVE r \in bought'
    OBVIOUS
  <2>1. r \in receipts /\ r.action \in Actions /\ state[r.action] = "FILLED" /\ r \in ReceiptsOf(r.action)
    BY DEF FilledIn, ReceiptsOf
  <2>2. state'[r.action] = "FILLED" /\ r \in ReceiptsOf(r.action)'
    BY <2>1, FilledStays
  <2> QED
    BY <2>1, <2>2 DEF FilledIn, ReceiptsOf
<1>2. BaseAcquired(c) = TotalOut(bought) /\ BaseAcquired(c)' = TotalOut(bought')
  BY DEF BaseAcquired, TotalOut
<1>3. IsFiniteSet(bought') /\ \A r \in bought' : OutColumn[r] \in Nat
  <2>1. bought' \in SUBSET receipts'
    OBVIOUS
  <2>2. \A r \in bought' : r \in ReceiptRow
    BY <2>1 DEF TypeOK
  <2>3. IsFiniteSet(bought')
    BY <2>1, FS_Subset
  <2> QED
    BY <2>2, <2>3, AmountsAssumption DEF ReceiptRow, OutColumn
<1>4. TotalOut(bought) = SumOf(OutColumn, bought) /\ TotalOut(bought') = SumOf(OutColumn, bought')
  <2>1. bought \in SUBSET ReceiptRow /\ bought' \in SUBSET ReceiptRow
    BY DEF TypeOK
  <2> QED
    BY <2>1, TotalsSum DEF TotalsAreSums
<1>5. SumOf(OutColumn, bought) <= SumOf(OutColumn, bought')
  BY <1>1, <1>3, SumPart
<1>6. CarryAmount(c) <= CarryAmount(c)'
  BY CarryOnce DEF CarryAmount, NoCarry, TypeOK
<1>7. /\ CarryAmount(c) \in Nat /\ BaseAcquired(c) \in Nat
      /\ CarryAmount(c)' \in Nat
  BY InventoryType DEF TypeOK, CarryAmount
<1>8. BaseAcquired(c)' \in Nat
  BY <1>2, <1>3, <1>4, SumNat
<1> HIDE DEF bought
<1> QED
  BY <1>2, <1>4, <1>5, <1>6, <1>7, <1>8 DEF EverHeld

\* The same of the inventory after a step.
InventoriesTyped ==
    TypeOK /\ IsFiniteSet(receipts) =>
        \A c \in Cycles : CarryAmount(c) \in Nat /\ BaseAcquired(c) \in Nat /\ BaseDisposed(c) \in Nat

LEMMA InventoryTypeNow == InventoriesTyped
BY InventoryType DEF InventoriesTyped

LEMMA InventoryTypeNext == InventoriesTyped'
BY InventoryTypeNow, PTL

\* Only a new intent comes to be.
LEMMA Arises ==
    ASSUME TypeOK, [LedgerNext]_ledgerVars, NEW a \in Actions, state'[a] # "NONE", ~CreateIntent(a)
    PROVE state[a] # "NONE"
<1>1. CASE UNCHANGED state
  BY <1>1
<1>2. CASE \E b \in Actions : CreateIntent(b)
  BY <1>2 DEF CreateIntent, TypeOK
<1>3. CASE \E b \in Actions, to \in IntentState : Transition(b, to)
  BY <1>3 DEF Transition, MoveIntent, TransitionAllowed, TypeOK
<1>4. CASE \E row \in ReceiptRow : AppendFillReceipt(row)
  BY <1>4 DEF AppendFillReceipt, InsertReceipt, ReceiptStateEffect, RECEIPT_STATES, TypeOK
<1> QED
  BY <1>1, <1>2, <1>3, <1>4 DEF LedgerNext, ledgerVars, AdmitPolicy, OpenCycle, ReadInventory,
                                CloseCycle, ContinueInventoryIntoSuccessorCycle

\* An exit rung sized from a reading takes no more than its share of it.
LEMMA SizeWithinShare ==
    ASSUME TypeOK, NEW a \in Actions, ActionInfo[a].kind = "EXIT"
    PROVE /\ InputSize(a) \in Nat
          /\ InputSize(a) * ActionInfo[a].den <= seen[CycleOf(a)] * ActionInfo[a].num
<1> DEFINE n == seen[CycleOf(a)] * ActionInfo[a].num
           d == ActionInfo[a].den
<1>1. n \in Nat /\ d \in Nat \ {0}
  BY ActionType DEF TypeOK
<1>2. InputSize(a) = n \div d
  BY ActionType DEF InputSize
<1> HIDE DEF n, d
<1>3. n \div d \in Nat /\ (n \div d) * d <= n
  <2>1. n = d * (n \div d) + (n % d) /\ n % d \in 0..(d - 1) /\ n \div d \in Nat
    BY <1>1
  <2>2. d * (n \div d) = (n \div d) * d
    BY <1>1, <2>1
  <2> QED
    BY <1>1, <2>1, <2>2
<1> QED
  BY <1>2, <1>3 DEF n, d

\* More held is a larger share.
LEMMA ShareGrows ==
    ASSUME NEW x \in Nat, NEW y \in Nat, NEW n \in Nat, x <= y
    PROVE x * n <= y * n
<1>1. PICK k \in Nat : y = x + k
  <2>1. y - x \in Nat /\ y = x + (y - x)
    OBVIOUS
  <2> QED
    BY <2>1
<1>2. y * n = x * n + k * n
  BY <1>1
<1>3. k * n \in Nat /\ x * n \in Nat /\ y * n \in Nat
  BY <1>1
<1> QED
  BY <1>2, <1>3

LEMMA StepSells ==
    ASSUME BuyingLadders, TypeOK, TypeOK', IsFiniteSet(receipts), IsFiniteSet(receipts)',
           UnopenedUntouched, SellsWithinShares, [LedgerNext]_ledgerVars
    PROVE SellsWithinShares'
<1>1. \A c \in Cycles : /\ EverHeld(c) <= EverHeld(c)'
                        /\ EverHeld(c) \in Nat /\ BaseDisposed(c) \in Nat /\ CarriedOut(c) \in Nat
                        /\ Inventory(c) = EverHeld(c) - BaseDisposed(c) - CarriedOut(c)
  BY EverHeldGrows, InventoryType
<1>2. \A c \in Cycles : EverHeld(c)' \in Nat
  <2>1. \A c \in Cycles : CarryAmount(c)' \in Nat /\ BaseAcquired(c)' \in Nat
    BY InventoryTypeNext DEF InventoriesTyped
  <2> QED
    BY <2>1 DEF EverHeld
<1>3. ASSUME NEW c \in Cycles
      PROVE seen'[c] <= EverHeld(c)'
  <2>1. seen'[c] = seen[c] \/ seen'[c] = Inventory(c)
    BY DEF LedgerNext, ledgerVars, AdmitPolicy, OpenCycle, ReadInventory, CloseCycle, Transition,
           ContinueInventoryIntoSuccessorCycle, CreateIntent, AppendFillReceipt, TypeOK
  <2>2. seen[c] <= EverHeld(c) /\ Inventory(c) <= EverHeld(c) /\ seen[c] \in Nat /\ Inventory(c) \in Int
    BY <1>1 DEF SellsWithinShares, TypeOK
  <2>3. EverHeld(c) <= EverHeld(c)' /\ EverHeld(c) \in Nat /\ EverHeld(c)' \in Nat
    BY <1>1, <1>2
  <2> QED
    BY <2>1, <2>2, <2>3
<1>4. ASSUME NEW a \in Actions, state'[a] # "NONE", ActionInfo[a].side = "SELL"
      PROVE bounds'[a].maxInput * ActionInfo[a].den <= EverHeld(CycleOf(a))' * ActionInfo[a].num
  <2> DEFINE c == CycleOf(a)
             n == ActionInfo[a].num
  <2>1. c \in Cycles /\ n \in Nat /\ ActionInfo[a].den \in Nat
    BY ActionType
  <2>2. EverHeld(c) * n <= EverHeld(c)' * n
    BY <1>1, <1>2, <2>1, ShareGrows
  <2>3. CASE CreateIntent(a)
    <3>1. ActionInfo[a].kind = "EXIT"
      BY <1>4, <2>1 DEF BuyingLadders, SellsAreShares, SellsOf
    <3>2. bounds'[a].maxInput = InputSize(a)
      BY <2>3 DEF CreateIntent, TypeOK
    <3>3. InputSize(a) * ActionInfo[a].den <= seen[c] * n /\ InputSize(a) \in Nat
      BY <3>1, SizeWithinShare
    <3>4. seen[c] * n <= EverHeld(c) * n
      BY <1>1, <2>1, ShareGrows DEF SellsWithinShares, TypeOK
    <3>5. /\ InputSize(a) * ActionInfo[a].den \in Nat /\ seen[c] * n \in Nat
          /\ EverHeld(c) * n \in Nat /\ EverHeld(c)' * n \in Nat
      BY <1>1, <1>2, <2>1, <3>3 DEF TypeOK
    <3> HIDE DEF c, n
    <3>6. InputSize(a) * ActionInfo[a].den <= EverHeld(c)' * n
      BY <2>2, <3>3, <3>4, <3>5
    <3> QED
      BY <3>2, <3>6 DEF c, n
  <2>4. CASE ~CreateIntent(a)
    <3>1. state[a] # "NONE"
      BY <1>4, <2>4, Arises
    <3>2. bounds'[a] = bounds[a]
      BY <2>4 DEF LedgerNext, ledgerVars, AdmitPolicy, OpenCycle, ReadInventory, CloseCycle, Transition,
           ContinueInventoryIntoSuccessorCycle, CreateIntent, AppendFillReceipt, TypeOK
    <3>3. bounds[a].maxInput * ActionInfo[a].den <= EverHeld(c) * n
      BY <1>4, <3>1 DEF SellsWithinShares
    <3>4. /\ bounds[a].maxInput * ActionInfo[a].den \in Nat
          /\ EverHeld(c) * n \in Nat /\ EverHeld(c)' * n \in Nat
      <4>1. bounds[a].maxInput \in Nat
        BY DEF TypeOK
      <4> QED
        BY <1>1, <1>2, <2>1, <4>1
    <3> HIDE DEF c, n
    <3>5. bounds[a].maxInput * ActionInfo[a].den <= EverHeld(c)' * n
      BY <2>2, <3>3, <3>4
    <3> QED
      BY <3>2, <3>5 DEF c, n
  <2> QED
    BY <2>3, <2>4
<1> QED
  BY <1>3, <1>4 DEF SellsWithinShares

\* num/den is share/whole, so a den-th bound on a size is a bound by the share.
LEMMA CommonWhole ==
    ASSUME NEW m \in Nat, NEW h \in Nat, NEW n \in Nat, NEW s \in Nat,
           NEW d \in Nat \ {0}, NEW w \in Nat \ {0}, m * d <= h * n, s * d = w * n
    PROVE m * w <= h * s
<1>1. (m * d) * w <= (h * n) * w
  BY ShareGrows
<1>2. (m * d) * w = (m * w) * d /\ (h * n) * w = h * (w * n) /\ h * (s * d) = (h * s) * d
  OBVIOUS
<1>3. (m * w) * d <= (h * s) * d
  BY <1>1, <1>2
<1>4. ASSUME m * w > h * s
      PROVE FALSE
  <2>1. m * w \in Nat /\ h * s \in Nat /\ h * s + 1 \in Nat /\ h * s + 1 <= m * w
    BY <1>4
  <2>2. (h * s + 1) * d <= (m * w) * d
    BY <2>1, ShareGrows
  <2>3. (h * s + 1) * d = (h * s) * d + d
    BY <2>1
  <2>4. (h * s) * d \in Int /\ (m * w) * d \in Int
    BY <2>1
  <2> QED
    BY <1>3, <2>2, <2>3, <2>4
<1>5. m * w \in Int /\ h * s \in Int
  OBVIOUS
<1> QED
  BY <1>4, <1>5

\* What the sells of a cycle are as a sum of shares.
LEMMA SharesSum ==
    ASSUME NEW whole \in Nat \ {0}, NEW share \in [Actions -> Nat], SellsAreShares(whole, share),
           NEW c \in Cycles
    PROVE SumOf(share, SellsOf(c)) <= whole
BY DEF SellsAreShares, SumOf

\* A filled intent took no more input than its bounds allow.
LEMMA FilledWithinMaximum ==
    ASSUME TypeOK, OutOfBoundsFillIsHalted, NEW a \in Actions, state[a] = "FILLED"
    PROVE TotalIn(ReceiptsOf(a)) <= bounds[a].maxInput
<1>1. CASE ReceiptsOf(a) = {}
  <2>1. TotalIn({}) = 0
    BY TotalsSum, SumEmpty DEF TotalsAreSums
  <2> QED
    BY <1>1, <2>1 DEF TypeOK
<1>2. CASE ReceiptsOf(a) # {}
  BY <1>2 DEF OutOfBoundsFillIsHalted, RowsWithinBounds
<1> QED
  BY <1>1, <1>2

LEMMA SoldWithinHeld ==
    ASSUME BuyingLadders, TypeOK, IsFiniteSet(receipts), OutOfBoundsFillIsHalted,
           SellsWithinShares, NEW c \in Cycles
    PROVE BaseDisposed(c) <= EverHeld(c)
<1>1. PICK whole \in Nat \ {0}, share \in [Actions -> Nat] : SellsAreShares(whole, share)
  BY DEF BuyingLadders
<1> DEFINE F == FilledIn(c, "SELL")
           sold == {r \in receipts : r.action \in F}
           k == [r \in ReceiptRow |-> r.action]
           took == [a \in F |-> TotalIn(ReceiptsOf(a))]
           scaled == [a \in F |-> whole * took[a]]
           bound == [a \in F |-> EverHeld(c) * share[a]]
<1>2. F \in SUBSET SellsOf(c) /\ SellsOf(c) \in SUBSET Actions
  BY DEF FilledIn, SellsOf
<1>3. IsFiniteSet(F) /\ IsFiniteSet(SellsOf(c))
  BY <1>2, FiniteAssumption, FS_Subset
<1>4. EverHeld(c) \in Nat /\ BaseDisposed(c) \in Nat
  BY InventoryType
<1>5. ASSUME NEW a \in F
      PROVE /\ took[a] \in Nat /\ share[a] \in Nat
            /\ took[a] = SumOf(InColumn, {r \in sold : k[r] = a})
            /\ whole * took[a] <= EverHeld(c) * share[a]
  <2>1. a \in Actions /\ state[a] = "FILLED" /\ CycleOf(a) = c /\ ActionInfo[a].side = "SELL"
    BY DEF FilledIn
  <2>2. ReceiptsOf(a) = {r \in sold : k[r] = a} /\ ReceiptsOf(a) \in SUBSET receipts
    BY DEF ReceiptsOf, TypeOK
  <2>3. TotalIn(ReceiptsOf(a)) = SumOf(InColumn, ReceiptsOf(a)) /\ IsFiniteSet(ReceiptsOf(a))
    BY <2>2, TotalsType
  <2>4. \A r \in ReceiptsOf(a) : InColumn[r] \in Nat
    <3>1. \A r \in ReceiptsOf(a) : r \in ReceiptRow
      BY <2>2 DEF TypeOK
    <3> QED
      BY <3>1, AmountsAssumption DEF ReceiptRow, InColumn
  <2>5. took[a] \in Nat
    BY <2>3, <2>4, SumNat
  <2>6. took[a] <= bounds[a].maxInput /\ bounds[a].maxInput \in Nat
    BY <2>1, FilledWithinMaximum DEF TypeOK
  <2>7. bounds[a].maxInput * ActionInfo[a].den <= EverHeld(c) * ActionInfo[a].num
    BY <2>1 DEF SellsWithinShares
  <2>8. /\ share[a] * ActionInfo[a].den = whole * ActionInfo[a].num /\ share[a] \in Nat
        /\ ActionInfo[a].num \in Nat /\ ActionInfo[a].den \in Nat \ {0}
    BY <1>1, <1>2, <2>1, ActionType DEF SellsAreShares
  <2>9. bounds[a].maxInput * whole <= EverHeld(c) * share[a]
    BY <1>4, <2>6, <2>7, <2>8, CommonWhole
  <2>10. took[a] * whole <= bounds[a].maxInput * whole
    BY <2>5, <2>6, ShareGrows
  <2>11. took[a] * whole = whole * took[a] /\ took[a] * whole \in Nat
         /\ bounds[a].maxInput * whole \in Nat /\ EverHeld(c) * share[a] \in Nat
    BY <1>4, <2>5, <2>6, <2>8
  <2> HIDE DEF took
  <2>12. whole * took[a] <= EverHeld(c) * share[a]
    BY <2>9, <2>10, <2>11
  <2> QED
    BY <2>2, <2>3, <2>5, <2>8, <2>12 DEF took
<1>6. BaseDisposed(c) = SumOf(took, F)
  <2>1. sold \in SUBSET receipts
    OBVIOUS
  <2>2. /\ BaseDisposed(c) = SumOf(InColumn, sold) /\ IsFiniteSet(sold)
        /\ \A r \in sold : InColumn[r] \in Int
    BY <2>1, TotalsType DEF BaseDisposed
  <2>3. {r \in sold : k[r] \in F} = sold
    BY DEF TypeOK
  <2>4. took = [a \in F |-> SumOf(InColumn, {r \in sold : k[r] = a})]
    BY <1>5
  <2>5. SumOf([a \in F |-> SumOf(InColumn, {r \in sold : k[r] = a})], F)
          = SumOf(InColumn, {r \in sold : k[r] \in F})
    <3> HIDE DEF k, sold, F
    <3> QED BY <1>3, <2>2, SumFibres
  <2> HIDE DEF k, sold, F, took
  <2> QED
    BY <2>2, <2>3, <2>4, <2>5
<1> HIDE DEF F, sold, k, took
<1>7. \A a \in F : /\ took[a] \in Int /\ scaled[a] = whole * took[a] /\ scaled[a] \in Int
                   /\ share[a] \in Int /\ bound[a] = EverHeld(c) * share[a] /\ bound[a] \in Int
                   /\ scaled[a] <= bound[a]
  <2> SUFFICES ASSUME NEW a \in F
               PROVE /\ took[a] \in Int /\ scaled[a] = whole * took[a] /\ scaled[a] \in Int
                     /\ share[a] \in Int /\ bound[a] = EverHeld(c) * share[a]
                     /\ bound[a] \in Int /\ scaled[a] <= bound[a]
    OBVIOUS
  <2>1. scaled[a] = whole * took[a] /\ bound[a] = EverHeld(c) * share[a]
    OBVIOUS
  <2>2. took[a] \in Nat /\ share[a] \in Nat /\ whole * took[a] <= EverHeld(c) * share[a]
    BY <1>5
  <2> HIDE DEF scaled, bound
  <2>3. whole * took[a] \in Nat /\ EverHeld(c) * share[a] \in Nat
    BY <1>4, <2>2
  <2> QED
    BY <2>1, <2>2, <2>3
<1> HIDE DEF scaled, bound
<1>8. /\ SumOf(scaled, F) = whole * SumOf(took, F)
      /\ SumOf(bound, F) = EverHeld(c) * SumOf(share, F)
  BY <1>3, <1>4, <1>7, SumScale
<1>9. SumOf(scaled, F) <= SumOf(bound, F)
  BY <1>3, <1>7, SumMonotone
<1>10. SumOf(share, F) \in Nat /\ SumOf(share, F) <= whole
  <2>1. \A a \in SellsOf(c) : share[a] \in Nat
    BY <1>2
  <2>2. SumOf(share, F) <= SumOf(share, SellsOf(c)) /\ SumOf(share, SellsOf(c)) \in Nat
    BY <1>2, <1>3, <2>1, SumPart, SumNat
  <2>3. SumOf(share, F) \in Nat
    BY <1>3, <1>5, SumNat
  <2> QED
    BY <1>1, <2>2, <2>3, SharesSum
<1>11. SumOf(took, F) \in Nat
  BY <1>3, <1>5, SumNat
<1> DEFINE total == SumOf(took, F)
           part == SumOf(share, F)
<1>12. whole * total <= EverHeld(c) * part
  BY <1>8, <1>9
<1>13. total \in Nat /\ part \in Nat /\ part <= whole
  BY <1>10, <1>11
<1> HIDE DEF total, part
<1>14. part * EverHeld(c) <= whole * EverHeld(c)
  BY <1>4, <1>13, ShareGrows
<1>15. /\ total * whole <= EverHeld(c) * whole
       /\ 1 * whole = whole * 1
  BY <1>4, <1>12, <1>13, <1>14
<1>16. total * 1 <= EverHeld(c) * 1
  BY <1>4, <1>13, <1>15, CommonWhole
<1>17. total <= EverHeld(c)
  BY <1>4, <1>13, <1>16
<1> QED
  BY <1>6, <1>17 DEF total

\* Exit rungs sized from the same reading, or from readings of any age, never
\* together sell more than the cycle held; so only a cycle whose inventory was
\* carried away can end below zero (build_intent, get_cycle_inventory), for any
\* ladders parse_policy admits of a policy that enters by buying.
THEOREM OversoldCorrect == BuyingLadders /\ LedgerSpec => []OnlyCarriedCyclesOversold
<1> SUFFICES ASSUME BuyingLadders
             PROVE LedgerSpec => []OnlyCarriedCyclesOversold
  OBVIOUS
<1>1. LedgerInit => UnopenedUntouched
  BY CycleAssumption DEF LedgerInit, UnopenedUntouched, Untouched, CarriedFrom, NoCarry
<1>2. TypeOK /\ UnopenedUntouched /\ [LedgerNext]_ledgerVars => UnopenedUntouched'
  BY StepUntouched
<1>3. LedgerInit => SellsWithinShares
  <2> SUFFICES ASSUME LedgerInit
               PROVE SellsWithinShares
    OBVIOUS
  <2>1. TypeOK /\ IsFiniteSet(receipts)
    BY InitTypeOK, FS_EmptySet DEF LedgerInit
  <2>2. \A c \in Cycles : EverHeld(c) \in Nat /\ seen[c] = 0
    BY <2>1, InventoryType DEF LedgerInit
  <2> QED
    BY <2>2 DEF SellsWithinShares, LedgerInit
<1>4. /\ TypeOK /\ TypeOK' /\ IsFiniteSet(receipts) /\ IsFiniteSet(receipts)'
      /\ UnopenedUntouched /\ SellsWithinShares /\ [LedgerNext]_ledgerVars
      => SellsWithinShares'
  BY StepSells
<1>5. /\ TypeOK /\ IsFiniteSet(receipts) /\ OutOfBoundsFillIsHalted /\ SellsWithinShares
      => OnlyCarriedCyclesOversold
  <2> SUFFICES ASSUME TypeOK, IsFiniteSet(receipts), OutOfBoundsFillIsHalted, SellsWithinShares,
                      NEW c \in Cycles, Inventory(c) < 0, CarriedFrom(c) = {}
               PROVE FALSE
    BY DEF OnlyCarriedCyclesOversold
  <2>1. CarriedOut(c) = 0
    BY CarriesSum, SumEmpty DEF CarriesAreSums, CarriedOut
  <2>2. BaseDisposed(c) <= EverHeld(c)
    BY SoldWithinHeld
  <2> QED
    BY <2>1, <2>2, InventoryType
<1> QED
  BY <1>1, <1>2, <1>3, <1>4, <1>5, TypeCorrect, ReceiptsAreFinite, OutOfBoundsHaltedCorrect, PTL
     DEF LedgerSpec

=============================================================================
