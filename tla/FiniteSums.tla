----------------------------- MODULE FiniteSums -----------------------------
(***************************************************************************)
(* Facts about the sum of a function over a finite set, for the proofs     *)
(* about the stores that keep count of their bytes.                        *)
(*                                                                         *)
(* A fold over a set is a function that some recursion determines.  That   *)
(* it has a solution at all, and only one, is shown with a picture: give   *)
(* every x a column of f[x] cells.  The sum is the number of cells, and    *)
(* what a proof needs of sums are facts about cardinalities.  Induction is *)
(* by a smallest counterexample.                                           *)
(*                                                                         *)
(* At the end, facts of the same kind that other proofs need: the largest  *)
(* and the smallest member of a set of numbers, and the sequence that is   *)
(* glued together from others.                                             *)
(***************************************************************************)
EXTENDS Integers, Sequences, FiniteSetsExt, FiniteSetTheorems, TLAPS

Counts(f, S) == \A x \in S : f[x] \in Nat

Cells(f, S) == {c \in S \X Nat : c[2] < f[c[1]]}

Weight(f, S) == Cardinality(Cells(f, S))

\* g is a fold of f with + over the subsets of S; c[s] is the element of s
\* that it takes first.
Folds(g, f, c, S) ==
    /\ \A s \in SUBSET S : s # {} => c[s] \in s
    /\ g = [s \in SUBSET S |-> IF s = {} THEN 0 ELSE f[c[s]] + g[s \ {c[s]}]]

-----------------------------------------------------------------------------
\* A set of natural numbers has a least element.
LEMMA LeastNatural ==
    ASSUME NEW N \in SUBSET Nat, N # {}
    PROVE  \E m \in N : \A n \in N : m <= n
<1> DEFINE R == OpToRel(<, Nat)
<1>1. IsWellFoundedOn(R, Nat)
  BY NatLessThanWellFounded
<1>2. \E m \in N : \A n \in N : ~(<<n, m>> \in R)
  <2> HIDE DEF R
  <2> QED
    BY <1>1, WFMin
<1>3. \A m, n \in Nat : n < m => <<n, m>> \in R
  BY DEF OpToRel
<1> HIDE DEF R
<1>4. PICK m \in N : \A n \in N : ~(<<n, m>> \in R)
  BY <1>2
<1>5. ASSUME NEW n \in N PROVE m <= n
  <2>1. ~(n < m)
    BY <1>3, <1>4
  <2> QED
    BY <2>1
<1> QED
  BY <1>5

\* Induction over the natural numbers, for the members of a set.
LEMMA NatSetInduction ==
    ASSUME NEW G, 0 \in G, \A n \in Nat : n \in G => n + 1 \in G
    PROVE  \A n \in Nat : n \in G
<1> DEFINE B == {n \in Nat : n \notin G}
<1>1. SUFFICES ASSUME B # {} PROVE FALSE
  OBVIOUS
<1>2. PICK m \in B : \A n \in B : m <= n
  BY <1>1, LeastNatural
<1>3. m \in Nat /\ m \notin G /\ m # 0
  BY <1>2
<1>4. m - 1 \in Nat /\ ~(m <= m - 1)
  BY <1>3
<1>5. m - 1 \in G
  BY <1>2, <1>4
<1>6. (m - 1) + 1 \in G /\ (m - 1) + 1 = m
  BY <1>3, <1>4, <1>5
<1> QED
  BY <1>3, <1>6

\* A set of subsets of a finite set has a minimal element.
LEMMA MinimalSubset ==
    ASSUME NEW S, IsFiniteSet(S), NEW B, B \subseteq SUBSET S, B # {}
    PROVE  \E s \in B : \A t \in B : t \subseteq s => t = s
<1> DEFINE R == StrictSubsetOrdering(S)
           U == SUBSET S
<1>1. IsWellFoundedOn(R, U)
  BY FS_StrictSubsetOrderingWellFounded, FS_FiniteSubsetsOfFinite
<1>2. B \subseteq U
  OBVIOUS
<1>3. \E s \in B : \A t \in B : ~(<<t, s>> \in R)
  <2> HIDE DEF R, U
  <2> QED
    BY <1>1, <1>2, WFMin
<1> QED
  BY <1>3 DEF StrictSubsetOrdering

\* A set of subsets of S that holds the empty set, and with a set less some
\* element the set itself, holds every subset of S.
LEMMA FiniteInduction ==
    ASSUME NEW S, IsFiniteSet(S), NEW G, {} \in G,
           \A s \in SUBSET S : s # {} => \E x \in s : s \ {x} \in G => s \in G
    PROVE  \A s \in SUBSET S : s \in G
<1> DEFINE B == {s \in SUBSET S : s \notin G}
<1>1. SUFFICES ASSUME B # {} PROVE FALSE
  OBVIOUS
<1>2. PICK s \in B : \A t \in B : t \subseteq s => t = s
  <2>1. B \subseteq SUBSET S
    OBVIOUS
  <2> HIDE DEF B
  <2> QED
    BY <1>1, <2>1, MinimalSubset
<1>3. PICK x \in s : s \ {x} \in G => s \in G
  BY <1>2
<1>4. s \ {x} \in B
  BY <1>2, <1>3
<1>5. s \ {x} = s
  BY <1>2, <1>4
<1> QED
  BY <1>3, <1>5

-----------------------------------------------------------------------------
\* The column of x has f[x] cells.
LEMMA Column ==
    ASSUME NEW f, NEW x, f[x] \in Nat
    PROVE  IsFiniteSet(Cells(f, {x})) /\ Weight(f, {x}) = f[x]
<1>1. Cells(f, {x}) = {x} \X (0 .. f[x] - 1)
  BY DEF Cells
<1>2. IsFiniteSet({x}) /\ Cardinality({x}) = 1
  BY FS_Singleton
<1>3. IsFiniteSet(0 .. f[x] - 1) /\ Cardinality(0 .. f[x] - 1) = f[x]
  <2>1. PICK n \in Int : n = f[x] - 1
    OBVIOUS
  <2>2. IsFiniteSet(0..n) /\ Cardinality(0..n) = IF 0 > n THEN 0 ELSE n - 0 + 1
    BY FS_Interval
  <2> QED
    BY <2>1, <2>2
<1>4. /\ IsFiniteSet({x} \X (0 .. f[x] - 1))
      /\ Cardinality({x} \X (0 .. f[x] - 1)) = 1 * f[x]
  BY <1>2, <1>3, FS_Product, ZenonT(60)
<1>5. 1 * f[x] = f[x]
  OBVIOUS
<1> QED
  BY <1>1, <1>4, <1>5, Zenon DEF Weight

LEMMA CellsUnion ==
    ASSUME NEW f, NEW S, NEW T
    PROVE  Cells(f, S \cup T) = Cells(f, S) \cup Cells(f, T)
BY DEF Cells

LEMMA CellsFinite ==
    ASSUME NEW f, NEW S, IsFiniteSet(S), Counts(f, S)
    PROVE  IsFiniteSet(Cells(f, S))
<1> DEFINE G == {s \in SUBSET S : IsFiniteSet(Cells(f, s))}
<1>1. {} \in G
  <2>1. Cells(f, {}) = {}
    BY DEF Cells
  <2> QED
    BY <2>1, FS_EmptySet
<1>2. ASSUME NEW s \in SUBSET S, NEW x \in s, s \ {x} \in G
      PROVE  s \in G
  <2>1. s = (s \ {x}) \cup {x}
    BY <1>2
  <2>2. Cells(f, s) = Cells(f, s \ {x}) \cup Cells(f, {x})
    BY <2>1, CellsUnion
  <2>3. IsFiniteSet(Cells(f, {x}))
    BY Column DEF Counts
  <2> QED
    BY <1>2, <2>2, <2>3, FS_Union, ZenonT(60)
<1>3. \A s \in SUBSET S : s \in G
  <2>1. \A s \in SUBSET S : s # {} => \E x \in s : s \ {x} \in G => s \in G
    BY <1>2
  <2> HIDE DEF G
  <2> QED
    BY <1>1, <2>1, FiniteInduction
<1> QED
  BY <1>3

\* The weight of two disjoint sets is the sum of their weights.
LEMMA WeightUnion ==
    ASSUME NEW f, NEW S, NEW T, IsFiniteSet(S), IsFiniteSet(T), S \cap T = {},
           Counts(f, S), Counts(f, T)
    PROVE  Weight(f, S \cup T) = Weight(f, S) + Weight(f, T)
<1>1. Cells(f, S) \cap Cells(f, T) = {}
  BY DEF Cells
<1>2. IsFiniteSet(Cells(f, S)) /\ IsFiniteSet(Cells(f, T))
  BY CellsFinite
<1>3. Cardinality(Cells(f, S)) \in Nat /\ Cardinality(Cells(f, T)) \in Nat
  BY <1>2, FS_CardinalityType
<1>4. Cardinality(Cells(f, S) \cup Cells(f, T)) =
        Cardinality(Cells(f, S)) + Cardinality(Cells(f, T))
            - Cardinality(Cells(f, S) \cap Cells(f, T))
  BY <1>2, FS_Union
<1>5. Cardinality(Cells(f, S) \cap Cells(f, T)) = 0
  BY <1>1, FS_EmptySet
<1>6. Cells(f, S \cup T) = Cells(f, S) \cup Cells(f, T)
  BY CellsUnion
<1>7. Cardinality(Cells(f, S) \cup Cells(f, T)) =
        Cardinality(Cells(f, S)) + Cardinality(Cells(f, T))
  BY <1>3, <1>4, <1>5
<1> QED
  BY <1>6, <1>7, Zenon DEF Weight

LEMMA WeightEmpty == \A f : Weight(f, {}) = 0
<1>1. \A f : Cells(f, {}) = {}
  BY DEF Cells
<1> QED
  BY <1>1, FS_EmptySet DEF Weight

LEMMA WeightType ==
    ASSUME NEW f, NEW S, IsFiniteSet(S), Counts(f, S)
    PROVE  Weight(f, S) \in Nat
BY CellsFinite, FS_CardinalityType DEF Weight

LEMMA WeightStep ==
    ASSUME NEW f, NEW S, IsFiniteSet(S), Counts(f, S), NEW x \in S
    PROVE  Weight(f, S) = f[x] + Weight(f, S \ {x})
<1>1. S = {x} \cup (S \ {x}) /\ {x} \cap (S \ {x}) = {}
  OBVIOUS
<1>2. IsFiniteSet({x}) /\ IsFiniteSet(S \ {x})
  BY FS_Singleton, FS_RemoveElement
<1>3. Counts(f, {x}) /\ Counts(f, S \ {x})
  BY DEF Counts
<1>4. Weight(f, {x}) = f[x]
  BY Column DEF Counts
<1>5. Weight(f, {x} \cup (S \ {x})) = Weight(f, {x}) + Weight(f, S \ {x})
  BY <1>1, <1>2, <1>3, WeightUnion
<1> QED
  BY <1>1, <1>4, <1>5

-----------------------------------------------------------------------------
\* The recursion of a fold has a solution, ...
LEMMA FoldExists ==
    ASSUME NEW f, NEW c, NEW S, IsFiniteSet(S), Counts(f, S),
           \A s \in SUBSET S : s # {} => c[s] \in s
    PROVE  \E g : Folds(g, f, c, S)
<1> DEFINE g == [s \in SUBSET S |-> Weight(f, s)]
<1>1. ASSUME NEW s \in SUBSET S
      PROVE  g[s] = IF s = {} THEN 0 ELSE f[c[s]] + g[s \ {c[s]}]
  <2>1. IsFiniteSet(s) /\ Counts(f, s)
    BY FS_Subset DEF Counts
  <2>2. CASE s = {}
    BY <2>2, WeightEmpty
  <2>3. CASE s # {}
    <3>1. c[s] \in s
      BY <2>3
    <3>2. Weight(f, s) = f[c[s]] + Weight(f, s \ {c[s]})
      BY <2>1, <3>1, WeightStep
    <3> QED
      BY <2>3, <3>2
  <2> QED
    BY <2>2, <2>3
<1>2. g = [s \in SUBSET S |-> IF s = {} THEN 0 ELSE f[c[s]] + g[s \ {c[s]}]]
  <2>1. g = [s \in SUBSET S |-> g[s]]
    OBVIOUS
  <2> HIDE DEF g
  <2> QED
    BY <1>1, <2>1
<1> HIDE DEF g
<1> QED
  BY <1>2 DEF Folds

\* ... and only one.
LEMMA FoldIsWeight ==
    ASSUME NEW f, NEW c, NEW g, NEW S, IsFiniteSet(S), Counts(f, S),
           Folds(g, f, c, S)
    PROVE  g[S] = Weight(f, S)
<1> DEFINE G == {s \in SUBSET S : g[s] = Weight(f, s)}
<1>0. ASSUME NEW s \in SUBSET S
      PROVE  g[s] = IF s = {} THEN 0 ELSE f[c[s]] + g[s \ {c[s]}]
  BY DEF Folds
<1>1. {} \in G
  BY <1>0, WeightEmpty
<1>2. ASSUME NEW s \in SUBSET S, s # {}, s \ {c[s]} \in G
      PROVE  s \in G
  <2>1. IsFiniteSet(s) /\ Counts(f, s) /\ c[s] \in s
    BY <1>2, FS_Subset DEF Counts, Folds
  <2>2. Weight(f, s) = f[c[s]] + Weight(f, s \ {c[s]})
    BY <2>1, WeightStep
  <2> QED
    BY <1>0, <1>2, <2>2
<1>3. \A s \in SUBSET S : s \in G
  <2>1. \A s \in SUBSET S : s # {} => \E x \in s : s \ {x} \in G => s \in G
    BY <1>2 DEF Folds
  <2> HIDE DEF G
  <2> QED
    BY <1>1, <2>1, FiniteInduction
<1> QED
  BY <1>3

\* So the sum of a function, as module Functions defines it, is a number of
\* cells.
LEMMA SumIsWeight ==
    ASSUME NEW f, NEW S, IsFiniteSet(S), Counts(f, S)
    PROVE  SumFunctionOnSet(f, S) = Weight(f, S)
<1> DEFINE c == [s \in SUBSET S |-> CHOOSE x \in s : TRUE]
           g == CHOOSE g : g = [s \in SUBSET S |->
                    IF s = {} THEN 0
                    ELSE f[CHOOSE x \in s : TRUE] + g[s \ {CHOOSE x \in s : TRUE}]]
<1>1. \A s \in SUBSET S : s # {} => c[s] \in s
  OBVIOUS
<1>2. \A h : Folds(h, f, c, S) <=>
                h = [s \in SUBSET S |->
                    IF s = {} THEN 0
                    ELSE f[CHOOSE x \in s : TRUE] + h[s \ {CHOOSE x \in s : TRUE}]]
  BY <1>1 DEF Folds
<1>3. \E h : Folds(h, f, c, S)
  <2> HIDE DEF c
  <2> QED
    BY <1>1, FoldExists
<1>4. Folds(g, f, c, S)
  BY <1>2, <1>3, ZenonT(60)
<1>5. g[S] = Weight(f, S)
  <2> HIDE DEF c, g
  <2> QED
    BY <1>4, FoldIsWeight
<1> QED
  BY <1>5 DEF SumFunctionOnSet, FoldFunctionOnSet, MapThenFoldSet

-----------------------------------------------------------------------------
(***************************************************************************)
(* What the proofs about the stores use.                                   *)
(***************************************************************************)
LEMMA SumType ==
    ASSUME NEW f, NEW S, IsFiniteSet(S), Counts(f, S)
    PROVE  SumFunctionOnSet(f, S) \in Nat
BY SumIsWeight, WeightType

LEMMA SumEmpty == \A f : SumFunctionOnSet(f, {}) = 0
<1> SUFFICES ASSUME NEW f PROVE SumFunctionOnSet(f, {}) = 0
  OBVIOUS
<1>1. IsFiniteSet({}) /\ Counts(f, {})
  BY FS_EmptySet DEF Counts
<1> QED
  BY <1>1, SumIsWeight, WeightEmpty

\* Disjoint sets.
LEMMA SumUnion ==
    ASSUME NEW f, NEW S, NEW T, IsFiniteSet(S), IsFiniteSet(T), S \cap T = {},
           Counts(f, S), Counts(f, T)
    PROVE  SumFunctionOnSet(f, S \cup T) = SumFunctionOnSet(f, S) + SumFunctionOnSet(f, T)
<1>1. IsFiniteSet(S \cup T) /\ Counts(f, S \cup T)
  BY FS_Union DEF Counts
<1> QED
  BY <1>1, SumIsWeight, WeightUnion

\* Two functions that agree on the set.
LEMMA SumSame ==
    ASSUME NEW f, NEW g, NEW S, IsFiniteSet(S), Counts(f, S),
           \A x \in S : f[x] = g[x]
    PROVE  SumFunctionOnSet(f, S) = SumFunctionOnSet(g, S)
<1>1. Counts(g, S) /\ Cells(f, S) = Cells(g, S)
  BY DEF Counts, Cells
<1> QED
  BY <1>1, SumIsWeight DEF Weight

\* What is left after some elements are taken out.
LEMMA SumWithout ==
    ASSUME NEW f, NEW S, IsFiniteSet(S), Counts(f, S), NEW T \in SUBSET S
    PROVE  /\ SumFunctionOnSet(f, S) = SumFunctionOnSet(f, T) + SumFunctionOnSet(f, S \ T)
           /\ SumFunctionOnSet(f, T) \in Nat
           /\ SumFunctionOnSet(f, S \ T) \in Nat
<1>1. /\ IsFiniteSet(T) /\ IsFiniteSet(S \ T)
      /\ Counts(f, T) /\ Counts(f, S \ T)
  BY FS_Subset DEF Counts
<1>2. S = T \cup (S \ T) /\ T \cap (S \ T) = {}
  OBVIOUS
<1>3. SumFunctionOnSet(f, T \cup (S \ T)) = SumFunctionOnSet(f, T) + SumFunctionOnSet(f, S \ T)
  BY <1>1, <1>2, SumUnion
<1> QED
  BY <1>1, <1>2, <1>3, SumType

\* One element more.
LEMMA SumAdd ==
    ASSUME NEW f, NEW S, IsFiniteSet(S), Counts(f, S), NEW x, x \notin S, f[x] \in Nat
    PROVE  SumFunctionOnSet(f, S \cup {x}) = SumFunctionOnSet(f, S) + f[x]
<1>1. IsFiniteSet({x}) /\ Counts(f, {x}) /\ S \cap {x} = {}
  BY FS_Singleton DEF Counts
<1>2. SumFunctionOnSet(f, {x}) = f[x]
  BY <1>1, SumIsWeight, Column
<1>3. SumFunctionOnSet(f, S \cup {x}) = SumFunctionOnSet(f, S) + SumFunctionOnSet(f, {x})
  BY <1>1, SumUnion
<1> QED
  BY <1>2, <1>3

\* Sums over an interval of numbers: one number more.
LEMMA SumNext ==
    ASSUME NEW f, NEW b \in Int, NEW n \in Int, b <= n + 1, Counts(f, b..n + 1)
    PROVE  /\ SumFunctionOnSet(f, b..n + 1) = SumFunctionOnSet(f, b..n) + f[n + 1]
           /\ SumFunctionOnSet(f, b..n) \in Nat
           /\ f[n + 1] \in Nat
<1> DEFINE S == b..n
           x == n + 1
<1>1. b..n + 1 = S \cup {x} /\ x \notin S
  OBVIOUS
<1>2. IsFiniteSet(S)
  BY FS_Interval
<1> HIDE DEF S, x
<1>3. Counts(f, S) /\ f[x] \in Nat
  BY <1>1 DEF Counts
<1>4. SumFunctionOnSet(f, S \cup {x}) = SumFunctionOnSet(f, S) + f[x]
  BY <1>1, <1>2, <1>3, SumAdd
<1>5. SumFunctionOnSet(f, S) \in Nat
  BY <1>2, <1>3, SumType
<1> QED
  BY <1>1, <1>3, <1>4, <1>5 DEF S, x

\* None.
LEMMA SumNone ==
    ASSUME NEW f, NEW a \in Nat
    PROVE  SumFunctionOnSet(f, a + 1..a) = 0
<1>1. a + 1..a = {}
  OBVIOUS
<1> QED
  BY <1>1, SumEmpty

\* The same numbers at another place.
LEMMA SumShift ==
    ASSUME NEW f, NEW g, NEW a \in Nat, NEW n \in Nat, Counts(g, 1..n),
           \A i \in 1..n : f[a + i] = g[i]
    PROVE  SumFunctionOnSet(f, a + 1..a + n) = SumFunctionOnSet(g, 1..n)
<1> DEFINE G == {m \in Nat : m <= n =>
                    SumFunctionOnSet(f, a + 1..a + m) = SumFunctionOnSet(g, 1..m)}
<1>1. 0 \in G
  <2>1. SumFunctionOnSet(f, a + 1..a) = 0
    BY SumNone
  <2>2. a + 0 = a /\ 1..0 = {}
    OBVIOUS
  <2> QED
    BY <2>1, <2>2, SumEmpty
<1>2. ASSUME NEW m \in Nat, m \in G PROVE m + 1 \in G
  <2>1. SUFFICES ASSUME m + 1 <= n
                 PROVE  SumFunctionOnSet(f, a + 1..a + (m + 1)) = SumFunctionOnSet(g, 1..m + 1)
    OBVIOUS
  <2>2. SumFunctionOnSet(f, a + 1..a + m) = SumFunctionOnSet(g, 1..m)
    BY <1>2, <2>1
  <2>3. Counts(g, 1..m + 1)
    BY <2>1 DEF Counts
  <2>4. SumFunctionOnSet(g, 1..m + 1) = SumFunctionOnSet(g, 1..m) + g[m + 1]
    BY <2>3, SumNext
  <2>5. Counts(f, a + 1..(a + m) + 1)
    <3>1. ASSUME NEW x \in a + 1..(a + m) + 1 PROVE f[x] \in Nat
      <4>1. PICK i \in Int : i = x - a
        OBVIOUS
      <4>2. i \in 1..n /\ x = a + i
        BY <2>1, <4>1
      <4> QED
        BY <4>2 DEF Counts
    <3> QED
      BY <3>1 DEF Counts
  <2>6. SumFunctionOnSet(f, a + 1..(a + m) + 1) =
             SumFunctionOnSet(f, a + 1..a + m) + f[(a + m) + 1]
    <3>1. a + m \in Int /\ a + 1 \in Int /\ a + 1 <= (a + m) + 1
      OBVIOUS
    <3> QED
      BY <2>5, <3>1, SumNext
  <2>7. f[(a + m) + 1] = g[m + 1]
    <3>1. m + 1 \in 1..n /\ (a + m) + 1 = a + (m + 1)
      BY <2>1
    <3> QED
      BY <3>1
  <2>8. a + (m + 1) = (a + m) + 1
    OBVIOUS
  <2> HIDE DEF G
  <2> QED
    BY <2>2, <2>4, <2>6, <2>7, <2>8
<1> HIDE DEF G
<1>3. n \in G
  BY <1>1, <1>2, NatSetInduction
<1> QED
  BY <1>3 DEF G

-----------------------------------------------------------------------------
(***************************************************************************)
(* The largest and smallest member of a set, and sequences glued together. *)
(***************************************************************************)
\* The largest member of a set, once it is known.
LEMMA MaxIs ==
    ASSUME NEW S, NEW x \in S, \A y \in S : y \in Int /\ y <= x
    PROVE  Max(S) = x
<1>1. Max(S) \in S /\ \A y \in S : Max(S) >= y
  <2>1. x \in S /\ \A y \in S : x >= y
    OBVIOUS
  <2> QED
    BY <2>1, Zenon DEF Max
<1> QED
  BY <1>1

\* A set of numbers that is not empty and has a bound has a largest member.
LEMMA MaxOf ==
    ASSUME NEW n \in Nat, NEW S, S \subseteq 0..n, S # {}
    PROVE  Max(S) \in S /\ \A y \in S : y <= Max(S)
<1> DEFINE T == {n - y : y \in S}
<1>1. T \in SUBSET Nat /\ T # {}
  <2>1. \A y \in S : n - y \in Nat
    OBVIOUS
  <2>2. PICK y \in S : n - y \in T
    OBVIOUS
  <2> QED
    BY <2>1, <2>2
<1>2. PICK m \in T : \A k \in T : m <= k
  BY <1>1, LeastNatural
<1>3. PICK x \in S : m = n - x
  BY <1>2
<1>4. ASSUME NEW y \in S PROVE y \in Int /\ y <= x
  <2>1. n - y \in T /\ m <= n - y
    BY <1>2
  <2>2. x \in Int /\ y \in Int
    OBVIOUS
  <2> HIDE DEF T
  <2> QED
    BY <1>3, <2>1, <2>2
<1>5. Max(S) = x
  BY <1>4, MaxIs
<1> QED
  BY <1>4, <1>5

\* The smallest member of a set, once it is known.
LEMMA MinIs ==
    ASSUME NEW S, NEW x \in S, \A y \in S : y \in Int /\ x <= y
    PROVE  Min(S) = x
<1>1. Min(S) \in S /\ \A y \in S : Min(S) <= y
  <2>1. x \in S /\ \A y \in S : x <= y
    OBVIOUS
  <2> QED
    BY <2>1, Zenon DEF Min
<1> QED
  BY <1>1

\* A set of natural numbers that is not empty has a smallest member.
LEMMA MinOf ==
    ASSUME NEW S, S \subseteq Nat, S # {}
    PROVE  Min(S) \in S /\ \A y \in S : Min(S) <= y
<1>1. PICK x \in S : \A y \in S : x <= y
  BY LeastNatural
<1>2. \A y \in S : y \in Int /\ x <= y
  BY <1>1
<1>3. Min(S) = x
  BY <1>2, MinIs
<1> QED
  BY <1>1, <1>3

\* g concatenates the sequences c[m+1], c[m+2], ... one after the other.
Glued(m, n, c, g) ==
    g = [i \in m..n |-> IF i = m THEN <<>> ELSE g[i - 1] \o c[i]]

\* There is such a function, however far it goes.
LEMMA GluedExists ==
    ASSUME NEW m \in Nat, NEW c
    PROVE  \A k \in Nat : \E g : Glued(m, m + k, c, g)
<1> DEFINE G == {k \in Nat : \E g : Glued(m, m + k, c, g)}
<1>1. 0 \in G
  <2> DEFINE g == [i \in m..m + 0 |-> <<>>]
  <2>1. \A i \in m..m + 0 : i = m
    OBVIOUS
  <2>2. g = [i \in m..m + 0 |-> IF i = m THEN <<>> ELSE g[i - 1] \o c[i]]
    BY <2>1
  <2>3. Glued(m, m + 0, c, g)
    BY <2>2 DEF Glued
  <2> QED
    BY <2>3
<1>2. ASSUME NEW k \in Nat, k \in G PROVE k + 1 \in G
  <2>1. PICK g : Glued(m, m + k, c, g)
    BY <1>2
  <2> DEFINE e == m + (k + 1)
             h == [i \in m..e |-> IF i = e THEN g[m + k] \o c[e] ELSE g[i]]
             Turn(f, i) == IF i = m THEN <<>> ELSE f[i - 1] \o c[i]
  <2>2. ASSUME NEW i \in m..e PROVE h[i] = Turn(h, i)
    <3>1. CASE i = e
      <4>1. h[i] = g[m + k] \o c[e]
        BY <3>1
      <4>2. i # m /\ i - 1 \in m..e /\ i - 1 # e /\ i - 1 = m + k
        BY <3>1
      <4>3. h[i - 1] = g[m + k]
        BY <4>2
      <4> HIDE DEF h
      <4> QED
        BY <3>1, <4>1, <4>2, <4>3
    <3>2. CASE i # e
      <4>1. i \in m..m + k /\ h[i] = g[i]
        BY <3>2
      <4>2. g[i] = Turn(g, i)
        BY <2>1, <4>1 DEF Glued
      <4>3. i # m => i - 1 \in m..e /\ i - 1 # e
        BY <4>1
      <4>4. i # m => h[i - 1] = g[i - 1]
        BY <4>3
      <4> HIDE DEF h
      <4> QED
        BY <4>1, <4>2, <4>4
    <3> QED
      BY <3>1, <3>2
  <2>3. h = [i \in m..e |-> h[i]]
    OBVIOUS
  <2> HIDE DEF h
  <2>4. [i \in m..e |-> h[i]] = [i \in m..e |-> Turn(h, i)]
    BY <2>2
  <2>5. Glued(m, e, c, h)
    BY <2>3, <2>4 DEF Glued
  <2> QED
    BY <2>5
<1> HIDE DEF G
<1>3. \A k \in Nat : k \in G
  BY <1>1, <1>2, NatSetInduction
<1> QED
  BY <1>3 DEF G

\* Two of them, the second of which goes at least as far, on the same data.
Longer(m, n, n2, c, c2, g, g2) ==
    /\ m \in Nat /\ n \in Nat /\ n2 \in Nat /\ m <= n /\ n <= n2
    /\ \A i \in m + 1..n : c2[i] = c[i]
    /\ Glued(m, n, c, g)
    /\ Glued(m, n2, c2, g2)

\* What it holds does not depend on how far it goes.
LEMMA GluedSame ==
    ASSUME NEW m, NEW n, NEW n2, NEW c, NEW c2, NEW g, NEW g2,
           Longer(m, n, n2, c, c2, g, g2)
    PROVE  g2[n] = g[n]
<1> USE DEF Longer
<1> DEFINE G == {k \in Nat : m + k <= n => g2[m + k] = g[m + k]}
<1>1. 0 \in G
  <2>1. m + 0 \in m..n /\ m + 0 \in m..n2 /\ m + 0 = m
    OBVIOUS
  <2>2. g[m + 0] = <<>> /\ g2[m + 0] = <<>>
    BY <2>1 DEF Glued
  <2> QED
    BY <2>2
<1>2. ASSUME NEW k \in Nat, k \in G PROVE k + 1 \in G
  <2>1. SUFFICES ASSUME m + (k + 1) <= n PROVE g2[m + (k + 1)] = g[m + (k + 1)]
    OBVIOUS
  <2> DEFINE e == m + (k + 1)
  <2>2. e \in m..n /\ e \in m..n2 /\ e # m /\ e - 1 = m + k /\ e \in m + 1..n
    BY <2>1
  <2>3. g2[m + k] = g[m + k]
    BY <1>2, <2>1
  <2> HIDE DEF e
  <2>4. g[e] = g[e - 1] \o c[e] /\ g2[e] = g2[e - 1] \o c2[e]
    BY <2>2 DEF Glued
  <2>5. g2[e] = g[e]
    BY <2>2, <2>3, <2>4
  <2> QED
    BY <2>5 DEF e
<1> HIDE DEF G
<1>3. \A k \in Nat : k \in G
  BY <1>1, <1>2, NatSetInduction
<1>4. n - m \in Nat /\ m + (n - m) = n /\ n <= n
  OBVIOUS
<1>5. n - m \in G
  BY <1>3, <1>4
<1> QED
  BY <1>4, <1>5 DEF G
=============================================================================
