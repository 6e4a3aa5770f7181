----------------------------- MODULE FiniteSums -----------------------------
(***************************************************************************)
(* Sums over finite sets, as the community modules define them by folding: *)
(* what a change of one summand does to SumFunction, and how sums compare. *)
(* The fold is the value of a recursive function that a CHOOSE names, so   *)
(* it is first shown to exist and to be unique; each lemma then follows    *)
(* from a smallest subset on which it would fail.                          *)
(***************************************************************************)
EXTENDS Integers, Functions, FiniteSets, FiniteSetTheorems, WellFoundedInduction, TLAPS

\* Among subsets of a finite set, one is minimal.
LEMMA Smallest ==
  ASSUME NEW S, IsFiniteSet(S), NEW B \in SUBSET SUBSET S, B # {}
  PROVE  \E T \in B : \A U \in B : U \subseteq T => U = T
<1>1. IsWellFoundedOn(StrictSubsetOrdering(S), SUBSET S)
  BY FS_StrictSubsetOrderingWellFounded, FS_FiniteSubsetsOfFinite
<1>2. PICK T \in B : \A U \in B : ~(<<U, T>> \in StrictSubsetOrdering(S))
  <2> HIDE DEF StrictSubsetOrdering, IsWellFoundedOn
  <2> QED BY <1>1, WFMin
<1> QED BY <1>2 DEF StrictSubsetOrdering

-----------------------------------------------------------------------------
(* The fold and its equation *)

Pick(s) == CHOOSE x \in s : TRUE
Solves(F, T, g) == g = [s \in SUBSET T |-> IF s = {} THEN 0 ELSE F[Pick(s)] + g[s \ {Pick(s)}]]

LEMMA SumIs ==
  ASSUME NEW F, NEW T
  PROVE  SumFunctionOnSet(F, T) = (CHOOSE g : Solves(F, T, g))[T]
  BY Zenon DEF SumFunctionOnSet, FoldFunctionOnSet, MapThenFoldSet, Solves, Pick

LEMMA PickIn ==
  ASSUME NEW s, s # {} PROVE Pick(s) \in s
  BY DEF Pick

LEMMA Unfold ==
  ASSUME NEW F, NEW T, NEW g, Solves(F, T, g), NEW s \in SUBSET T
  PROVE  g[s] = IF s = {} THEN 0 ELSE F[Pick(s)] + g[s \ {Pick(s)}]
  BY Zenon DEF Solves

\* Two solutions agree wherever both are defined.
LEMMA Unique ==
  ASSUME NEW F, NEW T, IsFiniteSet(T), NEW g, NEW h, Solves(F, T, g), NEW U \in SUBSET T, Solves(F, U, h)
  PROVE  \A s \in SUBSET U : g[s] = h[s]
<1> DEFINE Bad == {s \in SUBSET U : g[s] # h[s]}
<1> SUFFICES ASSUME Bad # {} PROVE FALSE
  OBVIOUS
<1>1. IsFiniteSet(U)
  BY FS_Subset
<1>2. PICK s \in Bad : \A t \in Bad : t \subseteq s => t = s
  <2>1. Bad \in SUBSET SUBSET U
    OBVIOUS
  <2> HIDE DEF Bad
  <2> QED BY <1>1, <2>1, Smallest
<1>3. s # {}
  BY <1>2, Unfold
<1>4. Pick(s) \in s
  BY <1>3, PickIn
<1>5. s \ {Pick(s)} \notin Bad
  BY <1>2, <1>4
<1>6. g[s \ {Pick(s)}] = h[s \ {Pick(s)}]
  BY <1>5
<1>7. g[s] = F[Pick(s)] + g[s \ {Pick(s)}] /\ h[s] = F[Pick(s)] + h[s \ {Pick(s)}]
  BY <1>3, Unfold
<1> QED BY <1>6, <1>7

\* There is a solution for every finite set.
LEMMA Exists ==
  ASSUME NEW F, NEW S, IsFiniteSet(S)
  PROVE  \A T \in SUBSET S : \E g : Solves(F, T, g)
<1> DEFINE Bad == {T \in SUBSET S : ~\E g : Solves(F, T, g)}
<1> SUFFICES ASSUME Bad # {} PROVE FALSE
  OBVIOUS
<1>2. PICK T \in Bad : \A U \in Bad : U \subseteq T => U = T
  <2>1. Bad \in SUBSET SUBSET S
    OBVIOUS
  <2> HIDE DEF Bad
  <2> QED BY <2>1, Smallest
<1> DEFINE part(U) == CHOOSE g : Solves(F, U, g)
<1>3. ASSUME NEW U \in SUBSET T, U # T PROVE Solves(F, U, part(U))
  BY <1>2, <1>3
<1> DEFINE below(s) == part(s)[s]
           all == [s \in SUBSET T |-> IF s # T THEN below(s)
                     ELSE IF T = {} THEN 0 ELSE F[Pick(T)] + below(T \ {Pick(T)})]
<1>4. ASSUME NEW s \in SUBSET T
      PROVE  all[s] = IF s = {} THEN 0 ELSE F[Pick(s)] + all[s \ {Pick(s)}]
  <2>1. CASE s = T
    <3>1. CASE T = {}
      BY <3>1, <2>1
    <3>2. CASE T # {}
      <4>1. Pick(T) \in T
        BY <3>2, PickIn
      <4>2. all[T \ {Pick(T)}] = below(T \ {Pick(T)})
        BY <4>1
      <4>3. all[T] = F[Pick(T)] + below(T \ {Pick(T)})
        BY <3>2
      <4> QED BY <4>2, <4>3, <2>1, <3>2
    <3> QED BY <3>1, <3>2
  <2>2. CASE s # T
    <3>1. Solves(F, s, part(s))
      BY <1>3, <2>2
    <3>2. all[s] = below(s)
      BY <2>2
    <3>3. below(s) = IF s = {} THEN 0 ELSE F[Pick(s)] + part(s)[s \ {Pick(s)}]
      BY <3>1, Unfold
    <3>4. CASE s = {}
      BY <3>2, <3>3, <3>4
    <3>5. CASE s # {}
      <4> DEFINE r == s \ {Pick(s)}
      <4>1. Pick(s) \in s /\ r \in SUBSET s /\ r # T /\ r \in SUBSET T
        BY <3>5, PickIn
      <4>2. Solves(F, r, part(r))
        BY <4>1, <1>3
      <4>3. IsFiniteSet(s)
        BY FS_Subset
      <4> HIDE DEF part
      <4>4. part(s)[r] = part(r)[r]
        BY <4>1, <4>2, <4>3, <3>1, Unique
      <4>5. all[r] = below(r)
        BY <4>1
      <4> QED BY <3>2, <3>3, <3>5, <4>4, <4>5
    <3> QED BY <3>4, <3>5
  <2> QED BY <2>1, <2>2
<1>5. Solves(F, T, all)
  <2> HIDE DEF part
  <2>1. all = [s \in SUBSET T |-> all[s]]
    OBVIOUS
  <2> HIDE DEF all
  <2>2. [s \in SUBSET T |-> all[s]] = [s \in SUBSET T |-> IF s = {} THEN 0 ELSE F[Pick(s)] + all[s \ {Pick(s)}]]
    BY <1>4
  <2> QED BY <2>1, <2>2 DEF Solves
<1> QED BY <1>2, <1>5

\* A sum is one summand and the sum of the others.
LEMMA SumUnfolds ==
  ASSUME NEW F, NEW S, IsFiniteSet(S)
  PROVE  SumFunctionOnSet(F, S) =
           IF S = {} THEN 0 ELSE F[Pick(S)] + SumFunctionOnSet(F, S \ {Pick(S)})
<1> DEFINE sum(T) == CHOOSE g : Solves(F, T, g)
<1>1. \A T \in SUBSET S : Solves(F, T, sum(T))
  BY Exists
<1>2. \A T \in SUBSET S : SumFunctionOnSet(F, T) = sum(T)[T]
  BY SumIs
<1> HIDE DEF sum
<1>3. sum(S)[S] = IF S = {} THEN 0 ELSE F[Pick(S)] + sum(S)[S \ {Pick(S)}]
  BY <1>1, Unfold
<1>4. sum(S)[S \ {Pick(S)}] = sum(S \ {Pick(S)})[S \ {Pick(S)}]
  BY <1>1, Unique
<1> QED BY <1>2, <1>3, <1>4

-----------------------------------------------------------------------------
(* Sums *)

LEMMA SumEmpty == \A F : SumFunctionOnSet(F, {}) = 0
<1> SUFFICES ASSUME NEW F PROVE SumFunctionOnSet(F, {}) = 0
  OBVIOUS
<1>1. IsFiniteSet({})
  BY FS_EmptySet
<1> DEFINE S == {}
<1> HIDE DEF S
<1>2. SumFunctionOnSet(F, S) = IF S = {} THEN 0 ELSE F[Pick(S)] + SumFunctionOnSet(F, S \ {Pick(S)})
  BY <1>1, SumUnfolds DEF S
<1> QED BY <1>2 DEF S

LEMMA SumTyped ==
  ASSUME NEW F, NEW S, IsFiniteSet(S), \A x \in S : F[x] \in Nat
  PROVE  SumFunctionOnSet(F, S) \in Nat
<1> DEFINE Bad == {T \in SUBSET S : SumFunctionOnSet(F, T) \notin Nat}
<1> SUFFICES ASSUME Bad # {} PROVE FALSE
  OBVIOUS
<1>1. PICK T \in Bad : \A U \in Bad : U \subseteq T => U = T
  <2>1. Bad \in SUBSET SUBSET S
    OBVIOUS
  <2> HIDE DEF Bad
  <2> QED BY <2>1, Smallest
<1>2. IsFiniteSet(T)
  BY FS_Subset
<1>3. T # {}
  <2> SUFFICES ASSUME T = {} PROVE FALSE
    OBVIOUS
  <2>1. SumFunctionOnSet(F, T) = 0
    BY SumEmpty
  <2> QED BY <1>1, <2>1
<1>4. Pick(T) \in T
  BY <1>3, PickIn
<1>5. T \ {Pick(T)} \notin Bad
  BY <1>1, <1>4
<1>6. SumFunctionOnSet(F, T \ {Pick(T)}) \in Nat
  BY <1>5
<1>7. SumFunctionOnSet(F, T) = F[Pick(T)] + SumFunctionOnSet(F, T \ {Pick(T)})
  BY <1>2, <1>3, SumUnfolds
<1>8. F[Pick(T)] \in Nat
  BY <1>4
<1> QED BY <1>1, <1>6, <1>7, <1>8

\* Functions that agree have the same sum.
LEMMA SumAgrees ==
  ASSUME NEW F, NEW G, NEW S, IsFiniteSet(S), \A x \in S : F[x] = G[x]
  PROVE  SumFunctionOnSet(F, S) = SumFunctionOnSet(G, S)
<1> DEFINE Bad == {T \in SUBSET S : SumFunctionOnSet(F, T) # SumFunctionOnSet(G, T)}
<1> SUFFICES ASSUME Bad # {} PROVE FALSE
  OBVIOUS
<1>1. PICK T \in Bad : \A U \in Bad : U \subseteq T => U = T
  <2>1. Bad \in SUBSET SUBSET S
    OBVIOUS
  <2> HIDE DEF Bad
  <2> QED BY <2>1, Smallest
<1>2. IsFiniteSet(T)
  BY FS_Subset
<1>3. T # {}
  <2> SUFFICES ASSUME T = {} PROVE FALSE
    OBVIOUS
  <2>1. SumFunctionOnSet(F, T) = 0 /\ SumFunctionOnSet(G, T) = 0
    BY SumEmpty
  <2> QED BY <1>1, <2>1
<1>4. Pick(T) \in T
  BY <1>3, PickIn
<1>5. T \ {Pick(T)} \notin Bad
  BY <1>1, <1>4
<1>6. SumFunctionOnSet(F, T \ {Pick(T)}) = SumFunctionOnSet(G, T \ {Pick(T)})
  BY <1>5
<1>7. /\ SumFunctionOnSet(F, T) = F[Pick(T)] + SumFunctionOnSet(F, T \ {Pick(T)})
      /\ SumFunctionOnSet(G, T) = G[Pick(T)] + SumFunctionOnSet(G, T \ {Pick(T)})
  BY <1>2, <1>3, SumUnfolds
<1>8. F[Pick(T)] = G[Pick(T)]
  BY <1>4
<1> QED BY <1>1, <1>6, <1>7, <1>8

\* Any element can be taken out first.
LEMMA SumSplits ==
  ASSUME NEW F, NEW S, IsFiniteSet(S), \A x \in S : F[x] \in Nat, NEW y \in S
  PROVE  SumFunctionOnSet(F, S) = F[y] + SumFunctionOnSet(F, S \ {y})
<1> DEFINE Wrong(T) == \E x \in T : SumFunctionOnSet(F, T) # F[x] + SumFunctionOnSet(F, T \ {x})
           Bad == {T \in SUBSET S : Wrong(T)}
<1> SUFFICES ASSUME Bad # {} PROVE FALSE
  OBVIOUS
<1>1. PICK T \in Bad : \A U \in Bad : U \subseteq T => U = T
  <2>1. Bad \in SUBSET SUBSET S
    OBVIOUS
  <2> HIDE DEF Bad
  <2> QED BY <2>1, Smallest
<1>2. PICK x \in T : SumFunctionOnSet(F, T) # F[x] + SumFunctionOnSet(F, T \ {x})
  BY <1>1
<1> DEFINE p == Pick(T)
<1>3. IsFiniteSet(T) /\ p \in T
  BY <1>2, FS_Subset, PickIn
<1>4. SumFunctionOnSet(F, T) = F[p] + SumFunctionOnSet(F, T \ {p})
  BY <1>2, <1>3, SumUnfolds
<1> HIDE DEF p
<1>5. x # p
  BY <1>2, <1>4
<1>6. T \ {p} \notin Bad /\ T \ {x} \notin Bad
  BY <1>1, <1>2, <1>3
<1>7. SumFunctionOnSet(F, T \ {p}) = F[x] + SumFunctionOnSet(F, (T \ {p}) \ {x})
  BY <1>2, <1>5, <1>6
<1>8. SumFunctionOnSet(F, T \ {x}) = F[p] + SumFunctionOnSet(F, (T \ {x}) \ {p})
  BY <1>3, <1>5, <1>6
<1>9. (T \ {p}) \ {x} = (T \ {x}) \ {p}
  OBVIOUS
<1>10. F[x] \in Nat /\ F[p] \in Nat /\ SumFunctionOnSet(F, (T \ {x}) \ {p}) \in Nat
  <2>1. IsFiniteSet((T \ {x}) \ {p})
    BY <1>3, FS_Subset
  <2>2. \A z \in (T \ {x}) \ {p} : F[z] \in Nat
    OBVIOUS
  <2> QED BY <1>2, <1>3, <2>1, <2>2, SumTyped
<1> QED BY <1>2, <1>4, <1>7, <1>8, <1>9, <1>10

\* A sum whose summands change at one place.
LEMMA SumChanges ==
  ASSUME NEW F, NEW G, NEW S, IsFiniteSet(S), NEW y \in S,
         \A x \in S : F[x] \in Nat /\ G[x] \in Nat,
         \A x \in S \ {y} : F[x] = G[x]
  PROVE  /\ SumFunctionOnSet(G, S) = (SumFunctionOnSet(F, S) - F[y]) + G[y]
         /\ SumFunctionOnSet(F, S) \in Nat /\ SumFunctionOnSet(G, S) \in Nat
         /\ F[y] <= SumFunctionOnSet(F, S)
<1> DEFINE R == S \ {y}
<1>1. IsFiniteSet(R) /\ \A x \in R : F[x] \in Nat /\ F[x] = G[x]
  BY FS_Subset
<1>2. /\ SumFunctionOnSet(F, S) = F[y] + SumFunctionOnSet(F, R)
      /\ SumFunctionOnSet(G, S) = G[y] + SumFunctionOnSet(G, R)
  BY SumSplits
<1> HIDE DEF R
<1>3. SumFunctionOnSet(F, R) = SumFunctionOnSet(G, R) /\ SumFunctionOnSet(F, R) \in Nat
  BY <1>1, SumAgrees, SumTyped
<1> QED BY <1>2, <1>3

\* Sums are ordered as their summands.
LEMMA SumOrdered ==
  ASSUME NEW F, NEW G, NEW S, IsFiniteSet(S),
         \A x \in S : F[x] \in Nat /\ G[x] \in Nat /\ F[x] <= G[x]
  PROVE  SumFunctionOnSet(F, S) <= SumFunctionOnSet(G, S)
<1> DEFINE Bad == {T \in SUBSET S : ~(SumFunctionOnSet(F, T) <= SumFunctionOnSet(G, T))}
<1> SUFFICES ASSUME Bad # {} PROVE FALSE
  OBVIOUS
<1>1. PICK T \in Bad : \A U \in Bad : U \subseteq T => U = T
  <2>1. Bad \in SUBSET SUBSET S
    OBVIOUS
  <2> HIDE DEF Bad
  <2> QED BY <2>1, Smallest
<1>2. IsFiniteSet(T)
  BY FS_Subset
<1>3. T # {}
  <2> SUFFICES ASSUME T = {} PROVE FALSE
    OBVIOUS
  <2>1. SumFunctionOnSet(F, T) = 0 /\ SumFunctionOnSet(G, T) = 0
    BY SumEmpty
  <2> QED BY <1>1, <2>1
<1> DEFINE p == Pick(T)
           R == T \ {p}
<1>4. p \in T
  BY <1>3, PickIn
<1>5. R \notin Bad /\ IsFiniteSet(R) /\ \A x \in R : F[x] \in Nat /\ G[x] \in Nat
  BY <1>1, <1>2, <1>4, FS_Subset
<1>6. SumFunctionOnSet(F, R) <= SumFunctionOnSet(G, R)
  BY <1>5
<1>7. /\ SumFunctionOnSet(F, T) = F[p] + SumFunctionOnSet(F, R)
      /\ SumFunctionOnSet(G, T) = G[p] + SumFunctionOnSet(G, R)
  BY <1>2, <1>3, SumUnfolds
<1> HIDE DEF R
<1>8. SumFunctionOnSet(F, R) \in Nat /\ SumFunctionOnSet(G, R) \in Nat
  BY <1>5, SumTyped
<1>9. F[p] \in Nat /\ G[p] \in Nat /\ F[p] <= G[p]
  BY <1>4
<1> QED BY <1>1, <1>6, <1>7, <1>8, <1>9

\* A sum of one number.
LEMMA SumIsProduct ==
  ASSUME NEW F, NEW S, IsFiniteSet(S), NEW k \in Nat, \A x \in S : F[x] = k
  PROVE  SumFunctionOnSet(F, S) = k * Cardinality(S)
<1> DEFINE Bad == {T \in SUBSET S : SumFunctionOnSet(F, T) # k * Cardinality(T)}
<1> SUFFICES ASSUME Bad # {} PROVE FALSE
  OBVIOUS
<1>1. PICK T \in Bad : \A U \in Bad : U \subseteq T => U = T
  <2>1. Bad \in SUBSET SUBSET S
    OBVIOUS
  <2> HIDE DEF Bad
  <2> QED BY <2>1, Smallest
<1>2. IsFiniteSet(T)
  BY FS_Subset
<1>3. T # {}
  <2>1. SumFunctionOnSet(F, {}) = 0 /\ k * Cardinality({}) = 0
    BY SumEmpty, FS_EmptySet
  <2> QED BY <1>1, <2>1
<1> DEFINE p == Pick(T)
           R == T \ {p}
<1>4. p \in T
  BY <1>3, PickIn
<1>5. R \notin Bad /\ R \in SUBSET S
  BY <1>1, <1>4
<1>6. SumFunctionOnSet(F, R) = k * Cardinality(R)
  BY <1>5
<1>7. SumFunctionOnSet(F, T) = k + SumFunctionOnSet(F, R)
  BY <1>2, <1>3, <1>4, SumUnfolds
<1>8. Cardinality(R) = Cardinality(T) - 1 /\ Cardinality(R) \in Nat /\ Cardinality(T) \in Nat
  BY <1>2, <1>4, FS_RemoveElement, FS_CardinalityType
<1> HIDE DEF R
<1>9. \A n \in Nat : k * (n + 1) = k + k * n
  OBVIOUS
<1>10. k * Cardinality(T) = k + k * Cardinality(R)
  BY <1>8, <1>9
<1> QED BY <1>1, <1>6, <1>7, <1>10

\* The same for the sum of a whole function.
LEMMA TotalTyped ==
  ASSUME NEW S, IsFiniteSet(S), NEW F \in [S -> Nat]
  PROVE  SumFunction(F) \in Nat
<1>1. SumFunctionOnSet(F, S) \in Nat
  BY SumTyped
<1> QED BY <1>1 DEF SumFunction

LEMMA TotalChanges ==
  ASSUME NEW S, IsFiniteSet(S), NEW F \in [S -> Nat], NEW G \in [S -> Nat], NEW y \in S,
         \A x \in S \ {y} : F[x] = G[x]
  PROVE  /\ SumFunction(G) = (SumFunction(F) - F[y]) + G[y]
         /\ SumFunction(F) \in Nat /\ SumFunction(G) \in Nat /\ F[y] <= SumFunction(F)
<1>1. /\ SumFunctionOnSet(G, S) = (SumFunctionOnSet(F, S) - F[y]) + G[y]
      /\ SumFunctionOnSet(F, S) \in Nat /\ SumFunctionOnSet(G, S) \in Nat
      /\ F[y] <= SumFunctionOnSet(F, S)
  BY SumChanges
<1>2. DOMAIN F = S /\ DOMAIN G = S
  OBVIOUS
<1> QED BY <1>1, <1>2 DEF SumFunction

LEMMA TotalOrdered ==
  ASSUME NEW S, IsFiniteSet(S), NEW F \in [S -> Nat], NEW G \in [S -> Nat],
         \A x \in S : F[x] <= G[x]
  PROVE  SumFunction(F) <= SumFunction(G)
<1>1. SumFunctionOnSet(F, S) <= SumFunctionOnSet(G, S)
  BY SumOrdered
<1>2. DOMAIN F = S /\ DOMAIN G = S
  OBVIOUS
<1> QED BY <1>1, <1>2 DEF SumFunction

\* A sum of nothing.
LEMMA TotalZero ==
  ASSUME NEW S, IsFiniteSet(S), NEW F, F = [x \in S |-> 0]
  PROVE  SumFunction(F) = 0
<1>1. SumFunctionOnSet(F, S) = 0 * Cardinality(S)
  BY SumIsProduct
<1>2. Cardinality(S) \in Nat
  BY FS_CardinalityType
<1>3. SumFunctionOnSet(F, S) = 0
  BY <1>1, <1>2
<1> QED BY <1>3 DEF SumFunction
=============================================================================
