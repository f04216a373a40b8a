------------------------------ MODULE FoldLemmas ------------------------------
(***************************************************************************)
(* Induction over natural numbers and finite sets, stated with sets where  *)
(* the library has operators, and what follows from it for the folds and   *)
(* sums that the models are written with: the fold is what its equation    *)
(* says, the order of the elements does not matter to a sum, a sum changes *)
(* with its terms, a fold over 1..n goes through states, the places of an  *)
(* ordered set are the numbers up to its size.                             *)
(***************************************************************************)
EXTENDS Integers, FiniteSets, Functions, FiniteSetTheorems, WellFoundedInduction, TLAPS

-----------------------------------------------------------------------------
(* Induction. *)

LEMMA LeastNatural ==
    ASSUME NEW T \in SUBSET Nat, T # {}
    PROVE  \E n \in T : \A m \in T : n <= m
<1> DEFINE R == {ss \in Nat \X Nat : ss[1] < ss[2]}
<1>1. IsWellFoundedOn(R, Nat)
  BY NatLessThanWellFounded DEF OpToRel
<1>2. PICK n \in T : \A m \in T : ~(<<m, n>> \in R)
  <2> HIDE DEF R
  <2> QED  BY <1>1, WFMin
<1>3. \A m \in T : m < n => <<m, n>> \in R
  OBVIOUS
<1>4. ASSUME NEW m \in T PROVE n <= m
  <2>1. ~(m < n)
    BY <1>2, <1>3
  <2> QED  BY <2>1
<1> QED  BY <1>4

LEMMA GreatestNatural ==
    ASSUME NEW n \in Nat, NEW T \in SUBSET (1..n), T # {}
    PROVE  \E m \in T : \A i \in T : m >= i
<1> DEFINE D == {n - i : i \in T}
<1>0. \A i \in T : i \in Nat /\ i <= n
  OBVIOUS
<1>1. D \in SUBSET Nat /\ D # {}
  <2>1. \A i \in T : n - i \in Nat
    BY <1>0
  <2>2. \A d \in D : \E i \in T : d = n - i
    OBVIOUS
  <2> QED  BY <2>1, <2>2
<1>2. PICK d \in D : \A e \in D : d <= e
  <2> HIDE DEF D
  <2> QED  BY <1>1, LeastNatural
<1>3. PICK x \in T : d = n - x
  BY <1>2
<1>4. \A y \in T : n - y \in D
  OBVIOUS
<1>5. \A y \in T : x >= y
  <2> SUFFICES ASSUME NEW y \in T PROVE x >= y
    OBVIOUS
  <2>1. d <= n - y
    BY <1>2, <1>4
  <2> QED  BY <1>3, <2>1
<1> QED  BY <1>5

\* Numbers have what zero has and each hands on to the next.
LEMMA NumberInduction ==
    ASSUME NEW Good, 0 \in Good, \A n \in Nat : n \in Good => n + 1 \in Good
    PROVE  \A n \in Nat : n \in Good
<1> DEFINE Bad == {n \in Nat : n \notin Good}
<1> SUFFICES ASSUME Bad # {} PROVE FALSE
  OBVIOUS
<1>1. PICK n \in Bad : \A m \in Bad : n <= m
  <2> Bad \in SUBSET Nat
    OBVIOUS
  <2> HIDE DEF Bad
  <2> QED  BY LeastNatural
<1>2. n # 0 /\ n - 1 \in Nat /\ n - 1 < n
  BY <1>1
<1>3. n - 1 \in Good
  BY <1>1, <1>2
<1> QED  BY <1>1, <1>2, <1>3

\* A collection of subsets of a finite set has one with none of them inside it.
LEMMA SmallestSubset ==
    ASSUME NEW S, IsFiniteSet(S), NEW B \in SUBSET SUBSET S, B # {}
    PROVE  \E U \in B : \A V \in B : V \subseteq U => V = U
<1>1. FiniteSubsetsOf(S) = SUBSET S
  BY FS_FiniteSubsetsOfFinite
<1>2. PICK U \in B : \A V \in B : ~(<<V, U>> \in StrictSubsetOrdering(S))
  BY <1>1, FS_StrictSubsetOrderingWellFounded, WFMin
<1> QED  BY <1>2 DEF StrictSubsetOrdering

\* So do the subsets of a finite set with what each hands on to one of an
\* element more.
LEMMA SetInduction ==
    ASSUME NEW S, IsFiniteSet(S), NEW Good, {} \in Good,
           \A U \in SUBSET S, x \in S : U \in Good /\ x \notin U => U \cup {x} \in Good
    PROVE  \A U \in SUBSET S : U \in Good
<1> DEFINE Bad == {U \in SUBSET S : U \notin Good}
<1> SUFFICES ASSUME Bad # {} PROVE FALSE
  OBVIOUS
<1>2. PICK U \in Bad : \A V \in Bad : V \subseteq U => V = U
  <2> Bad \in SUBSET SUBSET S
    OBVIOUS
  <2> HIDE DEF Bad
  <2> QED  BY SmallestSubset
<1>3. PICK x \in U : TRUE
  BY <1>2
<1>4. U \ {x} \notin Bad
  BY <1>2, <1>3
<1>5. U \ {x} \in Good /\ (U \ {x}) \cup {x} = U
  BY <1>2, <1>3, <1>4
<1> QED  BY <1>2, <1>5

-----------------------------------------------------------------------------
(* Folds. *)

\* g folds the subsets of S: from base, by step, c the order of the elements.
FoldOf(g, S, base, c, step) ==
    g = [s \in SUBSET S |-> IF s = {} THEN base ELSE step[c[s]][g[s \ {c[s]}]]]
Picks(c, S) == \A s \in SUBSET S : s # {} => c[s] \in s

LEMMA FoldExists ==
    ASSUME NEW S, IsFiniteSet(S), NEW c, Picks(c, S), NEW V, NEW base \in V,
           NEW step, \A x \in S, v \in V : step[x][v] \in V
    PROVE  \E g \in [SUBSET S -> V] : FoldOf(g, S, base, c, step)
<1> DEFINE Sub(k) == {s \in SUBSET S : Cardinality(s) <= k}
           Value(g, s) == IF s = {} THEN base ELSE step[c[s]][g[s \ {c[s]}]]
           Good == {k \in Nat : \E g \in [Sub(k) -> V] : \A s \in Sub(k) : g[s] = Value(g, s)}
<1>1. \A s \in SUBSET S : IsFiniteSet(s) /\ Cardinality(s) \in Nat
  BY FS_Subset, FS_CardinalityType
<1>2. \A s \in SUBSET S : (Cardinality(s) <= 0 <=> s = {})
  <2> SUFFICES ASSUME NEW s \in SUBSET S PROVE Cardinality(s) <= 0 <=> s = {}
    OBVIOUS
  <2>1. IsFiniteSet(s) /\ Cardinality(s) \in Nat
    BY <1>1
  <2>2. Cardinality(s) = 0 <=> s = {}
    BY <2>1, FS_EmptySet
  <2> QED  BY <2>1, <2>2
<1>3. \A s \in SUBSET S : s # {} =>
         /\ c[s] \in s /\ c[s] \in S /\ s \ {c[s]} \in SUBSET S
         /\ Cardinality(s \ {c[s]}) = Cardinality(s) - 1
  BY <1>1, FS_RemoveElement DEF Picks
<1>4. 0 \in Good
  <2>1. \A s \in Sub(0) : s = {}
    BY <1>2
  <2>2. [s \in Sub(0) |-> base] \in [Sub(0) -> V]
    OBVIOUS
  <2> QED  BY <2>1, <2>2
<1>5. ASSUME NEW k \in Nat, k \in Good
      PROVE  k + 1 \in Good
  <2>1. PICK g \in [Sub(k) -> V] : \A s \in Sub(k) : g[s] = Value(g, s)
    BY <1>5
  <2> DEFINE h == [s \in Sub(k + 1) |-> Value(g, s)]
  <2>2. \A s \in Sub(k + 1) : s # {} => s \ {c[s]} \in Sub(k)
    <3> SUFFICES ASSUME NEW s \in SUBSET S, Cardinality(s) <= k + 1, s # {}
                 PROVE  s \ {c[s]} \in Sub(k)
      OBVIOUS
    <3>1. Cardinality(s) \in Nat
      BY <1>1
    <3>2. s \ {c[s]} \in SUBSET S /\ Cardinality(s \ {c[s]}) = Cardinality(s) - 1
      BY <1>3
    <3>3. Cardinality(s \ {c[s]}) <= k
      BY <3>1, <3>2
    <3> QED  BY <3>2, <3>3
  <2>3. \A s \in Sub(k + 1) : Value(g, s) \in V
    BY <1>3, <2>1, <2>2
  <2>4. \A s \in Sub(k) : s \in Sub(k + 1) /\ h[s] = g[s]
    <3> SUFFICES ASSUME NEW s \in Sub(k) PROVE s \in Sub(k + 1) /\ h[s] = g[s]
      OBVIOUS
    <3>1. s \in Sub(k + 1)
      BY <1>1
    <3>2. g[s] = Value(g, s)
      BY <2>1
    <3> HIDE DEF Value, Sub
    <3> QED  BY <3>1, <3>2
  <2>5. \A s \in Sub(k + 1) : h[s] = Value(h, s)
    <3> SUFFICES ASSUME NEW s \in Sub(k + 1) PROVE Value(g, s) = Value(h, s)
      OBVIOUS
    <3>1. CASE s = {}
      BY <3>1
    <3>2. CASE s # {}
      BY <2>2, <2>4, <3>2
    <3> QED  BY <3>1, <3>2
  <2>6. h \in [Sub(k + 1) -> V]
    <3> HIDE DEF Value, Sub
    <3> QED  BY <2>3
  <2> HIDE DEF h, Value, Sub
  <2> QED  BY <2>5, <2>6
<1>6. Cardinality(S) \in Good
  <2> HIDE DEF Good
  <2> QED  BY <1>4, <1>5, NumberInduction, FS_CardinalityType
<1>7. Sub(Cardinality(S)) = SUBSET S
  BY FS_Subset
<1>8. PICK g \in [SUBSET S -> V] : \A s \in SUBSET S : g[s] = Value(g, s)
  <2> HIDE DEF Value
  <2> QED  BY <1>6, <1>7
<1>9. g = [s \in SUBSET S |-> Value(g, s)]
  BY <1>8
<1> QED  BY <1>9 DEF FoldOf

\* What the equation has to say of a subset does not depend on the set.
LEMMA FoldIsOne ==
    ASSUME NEW S, IsFiniteSet(S), NEW T \in SUBSET S, NEW c, NEW d, Picks(c, S),
           \A s \in SUBSET T : s # {} => c[s] = d[s], NEW base, NEW step,
           NEW g, FoldOf(g, S, base, c, step), NEW h, FoldOf(h, T, base, d, step)
    PROVE  g[T] = h[T]
<1> DEFINE Bad == {U \in SUBSET T : g[U] # h[U]}
<1>1. /\ \A s \in SUBSET S : g[s] = IF s = {} THEN base ELSE step[c[s]][g[s \ {c[s]}]]
      /\ \A s \in SUBSET T : h[s] = IF s = {} THEN base ELSE step[d[s]][h[s \ {d[s]}]]
  BY DEF FoldOf
<1> SUFFICES ASSUME Bad # {} PROVE FALSE
  OBVIOUS
<1>2. PICK U \in Bad : \A V \in Bad : V \subseteq U => V = U
  <2>1. Bad \in SUBSET SUBSET T /\ IsFiniteSet(T)
    BY FS_Subset
  <2> HIDE DEF Bad
  <2> QED  BY <2>1, SmallestSubset
<1>3. U # {}
  BY <1>1, <1>2
<1>4. c[U] \in U /\ c[U] = d[U]
  BY <1>2, <1>3 DEF Picks
<1>5. g[U \ {c[U]}] = h[U \ {c[U]}]
  BY <1>2, <1>4
<1>6. /\ g[U] = step[c[U]][g[U \ {c[U]}]]
      /\ h[U] = step[d[U]][h[U \ {d[U]}]]
  BY <1>1, <1>2, <1>3
<1> QED  BY <1>2, <1>4, <1>5, <1>6

-----------------------------------------------------------------------------
(* Sums of integers over the elements of a finite set. *)

FirstOf(T) == CHOOSE x \in T : TRUE
SumOf(g, f, S) ==
    g = [s \in SUBSET S |-> IF s = {} THEN 0 ELSE f[FirstOf(s)] + g[s \ {FirstOf(s)}]]

LEMMA SumOfExists ==
    ASSUME NEW S, IsFiniteSet(S), NEW f, \A x \in S : f[x] \in Int
    PROVE  \E g \in [SUBSET S -> Int] : SumOf(g, f, S)
<1> DEFINE c == [s \in SUBSET S |-> FirstOf(s)]
           step == [x \in S |-> [v \in Int |-> f[x] + v]]
<1>1. \A s \in SUBSET S : s # {} => FirstOf(s) \in s
  BY DEF FirstOf
<1>2. Picks(c, S)
  BY <1>1 DEF Picks
<1>3. \A x \in S, v \in Int : step[x][v] = f[x] + v
  OBVIOUS
<1>4. \A x \in S, v \in Int : step[x][v] \in Int
  BY <1>3
<1>5. PICK g \in [SUBSET S -> Int] : FoldOf(g, S, 0, c, step)
  <2> DEFINE V == Int
  <2>1. 0 \in V /\ \A x \in S, v \in V : step[x][v] \in V
    BY <1>4
  <2> HIDE DEF c, step, V
  <2>2. \E g \in [SUBSET S -> V] : FoldOf(g, S, 0, c, step)
    BY <1>2, <2>1, FoldExists
  <2> QED  BY <2>2 DEF V
<1>6. \A s \in SUBSET S : g[s] = IF s = {} THEN 0 ELSE f[FirstOf(s)] + g[s \ {FirstOf(s)}]
  <2> SUFFICES ASSUME NEW s \in SUBSET S, s # {}
               PROVE  g[s] = f[FirstOf(s)] + g[s \ {FirstOf(s)}]
    BY <1>5 DEF FoldOf
  <2>1. c[s] = FirstOf(s) /\ FirstOf(s) \in S /\ g[s \ {FirstOf(s)}] \in Int
    BY <1>1
  <2>2. g[s] = step[c[s]][g[s \ {c[s]}]]
    BY <1>5 DEF FoldOf
  <2> HIDE DEF c, step
  <2> QED  BY <1>3, <2>1, <2>2
<1>7. g = [s \in SUBSET S |-> IF s = {} THEN 0 ELSE f[FirstOf(s)] + g[s \ {FirstOf(s)}]]
  BY <1>6
<1> QED  BY <1>7 DEF SumOf

\* The sum over T is what any g that sums the subsets of a larger S says of T.
LEMMA SumIsFold ==
    ASSUME NEW S, IsFiniteSet(S), NEW f, \A x \in S : f[x] \in Int,
           NEW g, SumOf(g, f, S), NEW T \in SUBSET S
    PROVE  SumFunctionOnSet(f, T) = g[T]
<1> DEFINE h == CHOOSE h : SumOf(h, f, T)
           Bad == {U \in SUBSET T : g[U] # h[U]}
<1>1. SumFunctionOnSet(f, T) = h[T]
  BY DEF SumFunctionOnSet, FoldFunctionOnSet, MapThenFoldSet, SumOf, FirstOf
<1>2. IsFiniteSet(T) /\ \A x \in T : f[x] \in Int
  BY FS_Subset
<1>3. SumOf(h, f, T)
  BY <1>2, SumOfExists
<1> HIDE DEF h
<1>4. \A s \in SUBSET T : h[s] = IF s = {} THEN 0 ELSE f[FirstOf(s)] + h[s \ {FirstOf(s)}]
  BY <1>3 DEF SumOf
<1>5. \A s \in SUBSET S : g[s] = IF s = {} THEN 0 ELSE f[FirstOf(s)] + g[s \ {FirstOf(s)}]
  BY DEF SumOf
<1> SUFFICES ASSUME Bad # {} PROVE FALSE
  BY <1>1
<1>6. PICK U \in Bad : \A V \in Bad : V \subseteq U => V = U
  <2>1. Bad \in SUBSET SUBSET T
    OBVIOUS
  <2> HIDE DEF Bad
  <2> QED  BY <1>2, <2>1, SmallestSubset
<1>7. U # {}
  BY <1>4, <1>5, <1>6
<1>8. FirstOf(U) \in U
  BY <1>7 DEF FirstOf
<1>9. g[U \ {FirstOf(U)}] = h[U \ {FirstOf(U)}]
  BY <1>6, <1>8
<1> QED  BY <1>4, <1>5, <1>6, <1>7, <1>9

\* The equation of the sum, at the element that CHOOSE takes first.
LEMMA SumEquation ==
    ASSUME NEW S, IsFiniteSet(S), NEW f, \A x \in S : f[x] \in Int
    PROVE  \A T \in SUBSET S :
             /\ SumFunctionOnSet(f, T) \in Int
             /\ T = {} => SumFunctionOnSet(f, T) = 0
             /\ T # {} => SumFunctionOnSet(f, T) =
                            f[FirstOf(T)] + SumFunctionOnSet(f, T \ {FirstOf(T)})
<1>1. PICK g \in [SUBSET S -> Int] : SumOf(g, f, S)
  BY SumOfExists
<1>2. \A T \in SUBSET S : SumFunctionOnSet(f, T) = g[T]
  BY <1>1, SumIsFold
<1>3. \A T \in SUBSET S : g[T] = IF T = {} THEN 0 ELSE f[FirstOf(T)] + g[T \ {FirstOf(T)}]
  BY <1>1 DEF SumOf
<1> QED  BY <1>2, <1>3

\* A sum over integers is one; over nothing it is zero.
LEMMA SumType ==
    ASSUME NEW S, IsFiniteSet(S), NEW f, \A x \in S : f[x] \in Int
    PROVE  SumFunctionOnSet(f, S) \in Int
  BY SumEquation

LEMMA SumEmpty ==
    ASSUME NEW f
    PROVE  SumFunctionOnSet(f, {}) = 0
<1> DEFINE E == {}
<1>1. IsFiniteSet(E) /\ \A x \in E : f[x] \in Int
  BY FS_EmptySet
<1>2. E \in SUBSET E /\ E = {}
  OBVIOUS
<1> HIDE DEF E
<1>3. SumFunctionOnSet(f, E) = 0
  BY <1>1, <1>2, SumEquation
<1> QED  BY <1>3 DEF E

\* Any element may be taken first.
LEMMA SumPick ==
    ASSUME NEW S, IsFiniteSet(S), NEW f, \A x \in S : f[x] \in Int, NEW y \in S
    PROVE  SumFunctionOnSet(f, S) = f[y] + SumFunctionOnSet(f, S \ {y})
<1>0. \A T \in SUBSET S :
        /\ SumFunctionOnSet(f, T) \in Int
        /\ T = {} => SumFunctionOnSet(f, T) = 0
        /\ T # {} => SumFunctionOnSet(f, T) =
                       f[FirstOf(T)] + SumFunctionOnSet(f, T \ {FirstOf(T)})
  BY ONLY IsFiniteSet(S), \A x \in S : f[x] \in Int, SumEquation
<1> DEFINE sum(T) == SumFunctionOnSet(f, T)
           Bad == {T \in SUBSET S : \E x \in T : sum(T) # f[x] + sum(T \ {x})}
<1>1. \A T \in SUBSET S : /\ sum(T) \in Int
                          /\ T # {} => sum(T) = f[FirstOf(T)] + sum(T \ {FirstOf(T)})
  BY <1>0
<1> HIDE DEF sum
<1> SUFFICES ASSUME Bad # {} PROVE FALSE
  BY DEF sum
<1>2. PICK T \in Bad : \A V \in Bad : V \subseteq T => V = T
  <2>1. Bad \in SUBSET SUBSET S
    OBVIOUS
  <2> HIDE DEF Bad
  <2> QED  BY <2>1, SmallestSubset
<1>3. PICK x \in T : sum(T) # f[x] + sum(T \ {x})
  BY <1>2
<1> DEFINE z == FirstOf(T)
<1>4. z \in T
  BY <1>3 DEF FirstOf
<1> HIDE DEF z
<1>5. sum(T) = f[z] + sum(T \ {z})
  BY <1>1, <1>2, <1>3 DEF z
<1>6. x # z
  BY <1>3, <1>5
<1>7. T \ {z} \notin Bad /\ T \ {x} \notin Bad
  BY <1>2, <1>3, <1>4
<1>8. x \in T \ {z} /\ z \in T \ {x}
  BY <1>3, <1>4, <1>6
<1>9. /\ sum(T \ {z}) = f[x] + sum((T \ {z}) \ {x})
      /\ sum(T \ {x}) = f[z] + sum((T \ {x}) \ {z})
  BY <1>2, <1>7, <1>8
<1>10. (T \ {z}) \ {x} = (T \ {x}) \ {z}
  OBVIOUS
<1>11. f[x] \in Int /\ f[z] \in Int /\ sum((T \ {x}) \ {z}) \in Int
  BY <1>1, <1>2, <1>3, <1>4
<1>12. sum(T) = f[z] + (f[x] + sum((T \ {x}) \ {z}))
  BY <1>5, <1>9, <1>10
<1>13. sum(T) # f[x] + (f[z] + sum((T \ {x}) \ {z}))
  BY <1>3, <1>9
<1> QED  BY <1>11, <1>12, <1>13

LEMMA SumAdd ==
    ASSUME NEW S, IsFiniteSet(S), NEW f, \A x \in S : f[x] \in Int,
           NEW y, y \notin S, f[y] \in Int
    PROVE  SumFunctionOnSet(f, S \cup {y}) = f[y] + SumFunctionOnSet(f, S)
<1>1. IsFiniteSet(S \cup {y}) /\ \A x \in S \cup {y} : f[x] \in Int
  BY FS_AddElement
<1>2. (S \cup {y}) \ {y} = S /\ y \in S \cup {y}
  OBVIOUS
<1> QED  BY <1>1, <1>2, SumPick

\* Only the terms matter.
LEMMA SumSame ==
    ASSUME NEW S, IsFiniteSet(S), NEW f, NEW g,
           \A x \in S : f[x] \in Int /\ f[x] = g[x]
    PROVE  SumFunctionOnSet(f, S) = SumFunctionOnSet(g, S)
<1> DEFINE Good == {T \in SUBSET S : SumFunctionOnSet(f, T) = SumFunctionOnSet(g, T)}
<1>1. {} \in Good
  BY SumEmpty
<1>2. ASSUME NEW T \in SUBSET S, NEW y \in S, T \in Good, y \notin T
      PROVE  T \cup {y} \in Good
  <2>1. IsFiniteSet(T)
    BY FS_Subset
  <2>2. /\ SumFunctionOnSet(f, T \cup {y}) = f[y] + SumFunctionOnSet(f, T)
        /\ SumFunctionOnSet(g, T \cup {y}) = g[y] + SumFunctionOnSet(g, T)
    BY <1>2, <2>1, SumAdd
  <2>3. SumFunctionOnSet(f, T) = SumFunctionOnSet(g, T) /\ f[y] = g[y]
    BY <1>2
  <2> QED  BY <2>2, <2>3
<1>3. S \in SUBSET S
  OBVIOUS
<1>4. S \in Good
  <2> HIDE DEF Good
  <2> QED  BY <1>1, <1>2, <1>3, SetInduction
<1> QED  BY <1>4

\* One term changes.
LEMMA SumChange ==
    ASSUME NEW S, IsFiniteSet(S), NEW f, NEW g, NEW v \in S,
           \A x \in S : f[x] \in Int /\ g[x] \in Int,
           \A x \in S \ {v} : f[x] = g[x]
    PROVE  SumFunctionOnSet(g, S) = SumFunctionOnSet(f, S) - f[v] + g[v]
<1> DEFINE rest == S \ {v}
<1>1. IsFiniteSet(rest) /\ \A x \in rest : f[x] \in Int /\ f[x] = g[x]
  BY FS_Subset
<1>2. /\ SumFunctionOnSet(f, S) = f[v] + SumFunctionOnSet(f, rest)
      /\ SumFunctionOnSet(g, S) = g[v] + SumFunctionOnSet(g, rest)
  BY SumPick
<1> HIDE DEF rest
<1>3. /\ SumFunctionOnSet(f, rest) = SumFunctionOnSet(g, rest)
      /\ SumFunctionOnSet(f, rest) \in Int
  BY <1>1, SumSame, SumType
<1> QED  BY <1>2, <1>3

\* Smaller terms, smaller sum.
LEMMA SumAtMost ==
    ASSUME NEW S, IsFiniteSet(S), NEW f, NEW g,
           \A x \in S : f[x] \in Int /\ g[x] \in Int /\ f[x] <= g[x]
    PROVE  SumFunctionOnSet(f, S) <= SumFunctionOnSet(g, S)
<1> DEFINE Good == {T \in SUBSET S : SumFunctionOnSet(f, T) <= SumFunctionOnSet(g, T)}
<1>1. {} \in Good
  BY SumEmpty
<1>2. ASSUME NEW T \in SUBSET S, NEW y \in S, T \in Good, y \notin T
      PROVE  T \cup {y} \in Good
  <2>1. IsFiniteSet(T)
    BY FS_Subset
  <2>2. /\ SumFunctionOnSet(f, T \cup {y}) = f[y] + SumFunctionOnSet(f, T)
        /\ SumFunctionOnSet(g, T \cup {y}) = g[y] + SumFunctionOnSet(g, T)
        /\ SumFunctionOnSet(f, T) \in Int /\ SumFunctionOnSet(g, T) \in Int
    BY <1>2, <2>1, SumAdd, SumType
  <2>3. SumFunctionOnSet(f, T) <= SumFunctionOnSet(g, T) /\ f[y] <= g[y]
        /\ f[y] \in Int /\ g[y] \in Int
    BY <1>2
  <2>4. SumFunctionOnSet(f, T \cup {y}) <= SumFunctionOnSet(g, T \cup {y})
    BY <2>2, <2>3
  <2> QED  BY <2>4
<1>3. S \in SUBSET S
  OBVIOUS
<1>4. S \in Good
  <2> HIDE DEF Good
  <2> QED  BY <1>1, <1>2, <1>3, SetInduction
<1> QED  BY <1>4

\* A sum of terms that are all the same is a product.
LEMMA SumConstant ==
    ASSUME NEW S, IsFiniteSet(S), NEW f, NEW d \in Int, \A x \in S : f[x] = d
    PROVE  SumFunctionOnSet(f, S) = d * Cardinality(S)
<1> DEFINE Good == {T \in SUBSET S : SumFunctionOnSet(f, T) = d * Cardinality(T)}
<1>1. {} \in Good
  BY SumEmpty, FS_EmptySet
<1>2. ASSUME NEW T \in SUBSET S, NEW y \in S, T \in Good, y \notin T
      PROVE  T \cup {y} \in Good
  <2>1. IsFiniteSet(T)
    BY FS_Subset
  <2>2. SumFunctionOnSet(f, T \cup {y}) = f[y] + SumFunctionOnSet(f, T)
    BY <1>2, <2>1, SumAdd
  <2>3. Cardinality(T) \in Nat /\ Cardinality(T \cup {y}) = Cardinality(T) + 1
    BY <1>2, <2>1, FS_AddElement, FS_CardinalityType
  <2>4. SumFunctionOnSet(f, T) = d * Cardinality(T) /\ f[y] = d
    BY <1>2
  <2>5. d * (Cardinality(T) + 1) = d + d * Cardinality(T)
    BY <2>3
  <2>6. SumFunctionOnSet(f, T \cup {y}) = d * Cardinality(T \cup {y})
    BY <2>2, <2>3, <2>4, <2>5
  <2> QED  BY <2>6
<1>3. S \in SUBSET S
  OBVIOUS
<1>4. S \in Good
  <2> HIDE DEF Good
  <2> QED  BY <1>1, <1>2, <1>3, SetInduction
<1> QED  BY <1>4

\* A sum of sums, term by term.
LEMMA SumPlus ==
    ASSUME NEW S, IsFiniteSet(S), NEW f, NEW g, NEW h,
           \A x \in S : f[x] \in Int /\ g[x] \in Int /\ h[x] = f[x] + g[x]
    PROVE  SumFunctionOnSet(h, S) = SumFunctionOnSet(f, S) + SumFunctionOnSet(g, S)
<1> DEFINE Good == {T \in SUBSET S : SumFunctionOnSet(h, T) =
                      SumFunctionOnSet(f, T) + SumFunctionOnSet(g, T)}
<1>1. {} \in Good
  BY SumEmpty
<1>2. ASSUME NEW T \in SUBSET S, NEW y \in S, T \in Good, y \notin T
      PROVE  T \cup {y} \in Good
  <2>1. IsFiniteSet(T)
    BY FS_Subset
  <2>2. \A x \in S : h[x] \in Int
    OBVIOUS
  <2>3. /\ SumFunctionOnSet(f, T \cup {y}) = f[y] + SumFunctionOnSet(f, T)
        /\ SumFunctionOnSet(g, T \cup {y}) = g[y] + SumFunctionOnSet(g, T)
        /\ SumFunctionOnSet(h, T \cup {y}) = h[y] + SumFunctionOnSet(h, T)
        /\ SumFunctionOnSet(f, T) \in Int /\ SumFunctionOnSet(g, T) \in Int
    BY <1>2, <2>1, <2>2, SumAdd, SumType
  <2>4. /\ SumFunctionOnSet(h, T) = SumFunctionOnSet(f, T) + SumFunctionOnSet(g, T)
        /\ h[y] = f[y] + g[y] /\ f[y] \in Int /\ g[y] \in Int
    BY <1>2
  <2>5. SumFunctionOnSet(h, T \cup {y}) =
          SumFunctionOnSet(f, T \cup {y}) + SumFunctionOnSet(g, T \cup {y})
    BY <2>3, <2>4
  <2> QED  BY <2>5
<1>3. S \in SUBSET S
  OBVIOUS
<1>4. S \in Good
  <2> HIDE DEF Good
  <2> QED  BY <1>1, <1>2, <1>3, SetInduction
<1> QED  BY <1>4

\* A table may be added by rows or by columns.
LEMMA SumExchange ==
    ASSUME NEW S, IsFiniteSet(S), NEW K, IsFiniteSet(K), NEW f,
           \A x \in S, k \in K : f[x][k] \in Int
    PROVE  SumFunctionOnSet([k \in K |-> SumFunctionOnSet([x \in S |-> f[x][k]], S)], K)
             = SumFunctionOnSet([x \in S |-> SumFunctionOnSet(f[x], K)], S)
<1> DEFINE column(T) == [k \in K |-> SumFunctionOnSet([x \in S |-> f[x][k]], T)]
           row == [x \in S |-> SumFunctionOnSet(f[x], K)]
           Good == {T \in SUBSET S : SumFunctionOnSet(column(T), K) = SumFunctionOnSet(row, T)}
<1>1. \A T \in SUBSET S : IsFiniteSet(T)
  BY FS_Subset
<1>2. \A T \in SUBSET S, k \in K : column(T)[k] \in Int
  <2> SUFFICES ASSUME NEW T \in SUBSET S, NEW k \in K
               PROVE  SumFunctionOnSet([x \in S |-> f[x][k]], T) \in Int
    OBVIOUS
  <2> DEFINE g == [x \in S |-> f[x][k]]
  <2>1. IsFiniteSet(T) /\ \A x \in T : g[x] \in Int
    BY <1>1
  <2> HIDE DEF g
  <2>2. SumFunctionOnSet(g, T) \in Int
    BY <2>1, SumType
  <2> QED  BY <2>2 DEF g
<1>3. \A x \in S : row[x] \in Int
  BY SumType
<1>4. {} \in Good
  <2>1. \A k \in K : column({})[k] = 0
    BY SumEmpty
  <2> DEFINE e == column({})
  <2>2. \A k \in K : e[k] = 0
    BY <2>1
  <2>3. Cardinality(K) \in Nat
    BY FS_CardinalityType
  <2> HIDE DEF e
  <2>4. SumFunctionOnSet(e, K) = 0 * Cardinality(K)
    BY <2>2, SumConstant
  <2>5. SumFunctionOnSet(e, K) = 0
    BY <2>3, <2>4
  <2>6. SumFunctionOnSet(row, {}) = 0
    BY SumEmpty
  <2> QED  BY <2>5, <2>6 DEF e
<1>5. ASSUME NEW T \in SUBSET S, NEW y \in S, T \in Good, y \notin T
      PROVE  T \cup {y} \in Good
  <2> DEFINE a == column(T \cup {y})
             b == column(T)
  <2>1. ASSUME NEW k \in K PROVE a[k] = f[y][k] + b[k]
    <3> DEFINE g == [x \in S |-> f[x][k]]
    <3>1. IsFiniteSet(T) /\ (\A x \in T : g[x] \in Int) /\ g[y] \in Int /\ g[y] = f[y][k]
      BY <1>1
    <3> HIDE DEF g
    <3>2. SumFunctionOnSet(g, T \cup {y}) = g[y] + SumFunctionOnSet(g, T)
      BY <1>5, <3>1, SumAdd
    <3> QED  BY <3>1, <3>2 DEF g
  <2>2. \A k \in K : b[k] \in Int
    BY <1>2
  <2>3. row[y] = SumFunctionOnSet(f[y], K)
    OBVIOUS
  <2>4. SumFunctionOnSet(b, K) = SumFunctionOnSet(row, T)
    BY <1>5
  <2> HIDE DEF a, b, row
  <2>5. SumFunctionOnSet(a, K) = SumFunctionOnSet(f[y], K) + SumFunctionOnSet(b, K)
    <3>1. \A k \in K : f[y][k] \in Int /\ b[k] \in Int /\ a[k] = f[y][k] + b[k]
      BY <2>1, <2>2
    <3> DEFINE fy == f[y]
    <3> HIDE DEF fy
    <3>2. \A k \in K : fy[k] \in Int /\ b[k] \in Int /\ a[k] = fy[k] + b[k]
      BY <3>1 DEF fy
    <3>3. SumFunctionOnSet(a, K) = SumFunctionOnSet(fy, K) + SumFunctionOnSet(b, K)
      BY <3>2, SumPlus
    <3> QED  BY <3>3 DEF fy
  <2>6. SumFunctionOnSet(row, T \cup {y}) = row[y] + SumFunctionOnSet(row, T)
    BY <1>1, <1>3, <1>5, SumAdd
  <2>7. SumFunctionOnSet(a, K) = SumFunctionOnSet(row, T \cup {y})
    BY <2>3, <2>4, <2>5, <2>6
  <2>8. SumFunctionOnSet(column(T \cup {y}), K) = SumFunctionOnSet(row, T \cup {y})
    BY <2>7 DEF a
  <2> QED  BY <2>8 DEF row
<1>6. S \in SUBSET S
  OBVIOUS
<1>7. S \in Good
  <2> HIDE DEF Good
  <2> QED  BY <1>4, <1>5, <1>6, SetInduction
<1> QED  BY <1>7

\* A sum of natural numbers is at least each of them.
LEMMA SumOfNumbers ==
    ASSUME NEW S, IsFiniteSet(S), NEW f, \A x \in S : f[x] \in Int /\ f[x] >= 0
    PROVE  /\ SumFunctionOnSet(f, S) >= 0
           /\ \A x \in S : SumFunctionOnSet(f, S) >= f[x]
<1> DEFINE zero == [x \in S |-> 0]
           d == 0
<1>1. d \in Int /\ \A x \in S : zero[x] = d
  OBVIOUS
<1>2. \A x \in S : zero[x] \in Int /\ f[x] \in Int /\ zero[x] <= f[x]
  OBVIOUS
<1> HIDE DEF zero, d
<1>3. \A T \in SUBSET S : SumFunctionOnSet(f, T) \in Int /\ SumFunctionOnSet(f, T) >= 0
  <2> SUFFICES ASSUME NEW T \in SUBSET S
               PROVE  SumFunctionOnSet(f, T) \in Int /\ SumFunctionOnSet(f, T) >= 0
    OBVIOUS
  <2>1. IsFiniteSet(T)
    BY FS_Subset
  <2>2. SumFunctionOnSet(zero, T) = d * Cardinality(T)
    BY <1>1, <2>1, SumConstant
  <2>3. SumFunctionOnSet(zero, T) <= SumFunctionOnSet(f, T)
    BY <1>2, <2>1, SumAtMost
  <2>4. SumFunctionOnSet(f, T) \in Int
    BY <2>1, SumType
  <2>5. d * Cardinality(T) = 0
    BY <2>1, FS_CardinalityType DEF d
  <2> QED  BY <2>2, <2>3, <2>4, <2>5
<1>4. ASSUME NEW x \in S PROVE SumFunctionOnSet(f, S) >= f[x]
  <2>1. SumFunctionOnSet(f, S) = f[x] + SumFunctionOnSet(f, S \ {x})
    BY SumPick
  <2>2. SumFunctionOnSet(f, S \ {x}) \in Int /\ SumFunctionOnSet(f, S \ {x}) >= 0
    BY <1>3
  <2> QED  BY <2>1, <2>2
<1>5. S \in SUBSET S
  OBVIOUS
<1> QED  BY <1>3, <1>4, <1>5

\* Multiplication distributes, stated by itself for the provers.
LEMMA Distributes ==
    ASSUME NEW a \in Int, NEW x \in Int, NEW y \in Int
    PROVE  a * (x + y) = a * x + a * y /\ a * x \in Int /\ a * y \in Int
  OBVIOUS

\* Terms that are multiples of others, and a constant more.
LEMMA SumAffine ==
    ASSUME NEW S, IsFiniteSet(S), NEW f, NEW g, NEW a \in Int, NEW b \in Int,
           \A x \in S : f[x] \in Int /\ g[x] = a * f[x] + b
    PROVE  SumFunctionOnSet(g, S) = a * SumFunctionOnSet(f, S) + b * Cardinality(S)
<1> DEFINE Good == {T \in SUBSET S : SumFunctionOnSet(g, T) =
                      a * SumFunctionOnSet(f, T) + b * Cardinality(T)}
<1>1. {} \in Good
  BY SumEmpty, FS_EmptySet
<1>2. ASSUME NEW T \in SUBSET S, NEW y \in S, T \in Good, y \notin T
      PROVE  T \cup {y} \in Good
  <2>1. IsFiniteSet(T)
    BY FS_Subset
  <2>2. \A x \in S : g[x] \in Int
    <3> SUFFICES ASSUME NEW x \in S PROVE g[x] \in Int
      OBVIOUS
    <3>1. f[x] \in Int /\ a * f[x] \in Int
      OBVIOUS
    <3> QED  BY <3>1
  <2>3. /\ SumFunctionOnSet(f, T \cup {y}) = f[y] + SumFunctionOnSet(f, T)
        /\ SumFunctionOnSet(g, T \cup {y}) = g[y] + SumFunctionOnSet(g, T)
        /\ SumFunctionOnSet(f, T) \in Int
    BY <1>2, <2>1, <2>2, SumAdd, SumType
  <2>4. Cardinality(T) \in Nat /\ Cardinality(T \cup {y}) = Cardinality(T) + 1
    BY <1>2, <2>1, FS_AddElement, FS_CardinalityType
  <2>5. /\ SumFunctionOnSet(g, T) = a * SumFunctionOnSet(f, T) + b * Cardinality(T)
        /\ g[y] = a * f[y] + b /\ f[y] \in Int
    BY <1>2
  <2>6. /\ a * (f[y] + SumFunctionOnSet(f, T)) = a * f[y] + a * SumFunctionOnSet(f, T)
        /\ b * (Cardinality(T) + 1) = b * Cardinality(T) + b * 1
        /\ a * f[y] \in Int /\ a * SumFunctionOnSet(f, T) \in Int /\ b * Cardinality(T) \in Int
    <3>1. f[y] \in Int /\ SumFunctionOnSet(f, T) \in Int /\ Cardinality(T) \in Int /\ 1 \in Int
      BY <2>3, <2>4, <2>5
    <3> QED  BY ONLY <3>1, a \in Int, b \in Int, Distributes
  <2>7. SumFunctionOnSet(g, T \cup {y}) =
          a * SumFunctionOnSet(f, T \cup {y}) + b * Cardinality(T \cup {y})
    BY <2>3, <2>4, <2>5, <2>6
  <2> QED  BY <2>7
<1>3. S \in SUBSET S
  OBVIOUS
<1>4. S \in Good
  <2> HIDE DEF Good
  <2> QED  BY <1>1, <1>2, <1>3, SetInduction
<1> QED  BY <1>4

\* A bound on the terms is one on the sum.
LEMMA SumAtLeast ==
    ASSUME NEW S, IsFiniteSet(S), NEW f, NEW d \in Int, \A x \in S : f[x] \in Int /\ d <= f[x]
    PROVE  d * Cardinality(S) <= SumFunctionOnSet(f, S)
<1> DEFINE low == [x \in S |-> d]
<1>1. \A x \in S : low[x] = d /\ low[x] \in Int /\ f[x] \in Int /\ low[x] <= f[x]
  OBVIOUS
<1> HIDE DEF low
<1>2. SumFunctionOnSet(low, S) = d * Cardinality(S)
  BY <1>1, SumConstant
<1>3. SumFunctionOnSet(low, S) <= SumFunctionOnSet(f, S)
  BY <1>1, SumAtMost
<1> QED  BY <1>2, <1>3

\* What can be said of each term of one sum and each of another can be said of
\* their means.
LEMMA MeansApart ==
    ASSUME NEW S, IsFiniteSet(S), NEW T, IsFiniteSet(T), NEW x, NEW y,
           NEW c \in Int, NEW d \in Int,
           \A i \in S : x[i] \in Int, \A j \in T : y[j] \in Int,
           \A i \in S, j \in T : d <= c * (y[j] - x[i])
    PROVE  d * Cardinality(T) * Cardinality(S) <=
             c * (Cardinality(S) * SumFunctionOnSet(y, T) - Cardinality(T) * SumFunctionOnSet(x, S))
<1> DEFINE n == Cardinality(S)
           m == Cardinality(T)
           X == SumFunctionOnSet(x, S)
           Y == SumFunctionOnSet(y, T)
<1>1. n \in Nat /\ m \in Nat /\ X \in Int /\ Y \in Int
  BY FS_CardinalityType, SumType
<1>2. ASSUME NEW i \in S PROVE d * m <= (-(c * m)) * x[i] + c * Y
  <2> DEFINE b == -(c * x[i])
             h == [j \in T |-> c * y[j] + b]
  <2>1. x[i] \in Int /\ b \in Int
    OBVIOUS
  <2>2. \A j \in T : y[j] \in Int /\ h[j] = c * y[j] + b
    OBVIOUS
  <2>3. \A j \in T : h[j] \in Int /\ d <= h[j]
    <3> SUFFICES ASSUME NEW j \in T PROVE h[j] \in Int /\ d <= h[j]
      OBVIOUS
    <3>1. y[j] \in Int /\ c * y[j] \in Int /\ d <= c * (y[j] - x[i])
      OBVIOUS
    <3>2. c * (y[j] - x[i]) = c * y[j] + (-(c * x[i]))
      BY <2>1, <3>1
    <3> QED  BY <2>1, <2>2, <3>1, <3>2
  <2>4. b * m = (-(c * m)) * x[i]
    BY <1>1, <2>1
  <2> HIDE DEF b, h
  <2>5. SumFunctionOnSet(h, T) = c * SumFunctionOnSet(y, T) + b * Cardinality(T)
    BY ONLY <2>1, <2>2, IsFiniteSet(T), c \in Int, SumAffine
  <2>9. SumFunctionOnSet(h, T) = c * Y + b * m
    BY <2>5
  <2>6. d * m <= SumFunctionOnSet(h, T)
    BY <2>3, SumAtLeast
  <2>7. c * Y \in Int /\ b * m \in Int
    BY <1>1, <2>1
  <2> HIDE DEF m, Y
  <2>8. c * Y + b * m = b * m + c * Y
    BY <2>7
  <2> QED  BY <2>4, <2>6, <2>8, <2>9
<1> DEFINE a == -(c * m)
           b == c * Y
           e == d * m
           h == [i \in S |-> a * x[i] + b]
<1>3. a \in Int /\ b \in Int /\ e \in Int
  BY <1>1
<1>4. \A i \in S : x[i] \in Int /\ h[i] = a * x[i] + b
  OBVIOUS
<1>5. \A i \in S : h[i] \in Int /\ e <= h[i]
  <2> SUFFICES ASSUME NEW i \in S PROVE h[i] \in Int /\ e <= h[i]
    OBVIOUS
  <2> HIDE DEF a, b, e, h
  <2>1. a * x[i] \in Int /\ h[i] = a * x[i] + b
    BY <1>3, <1>4
  <2>2. e <= a * x[i] + b
    BY <1>2 DEF a, b, e
  <2> QED  BY <1>3, <2>1, <2>2
<1>6. a * X + b * n = c * (n * Y - m * X)
  BY <1>1
<1> HIDE DEF a, b, e, h
<1>7. SumFunctionOnSet(h, S) = a * SumFunctionOnSet(x, S) + b * Cardinality(S)
  BY ONLY <1>3, <1>4, IsFiniteSet(S), SumAffine
<1>8. e * n <= SumFunctionOnSet(h, S)
  BY <1>3, <1>5, SumAtLeast
<1> QED  BY <1>6, <1>7, <1>8 DEF e

-----------------------------------------------------------------------------
(* Sums over other sets. *)

\* The rest adds nothing.
LEMMA SumOnPart ==
    ASSUME NEW S, IsFiniteSet(S), NEW T \in SUBSET S, NEW f, \A x \in S : f[x] \in Int,
           \A x \in S \ T : f[x] = 0
    PROVE  SumFunctionOnSet(f, S) = SumFunctionOnSet(f, T)
<1> DEFINE rest == S \ T
           Good == {U \in SUBSET rest : SumFunctionOnSet(f, T \cup U) = SumFunctionOnSet(f, T)}
<1>1. {} \in Good
  <2>1. T \cup {} = T
    OBVIOUS
  <2> QED  BY <2>1
<1>2. IsFiniteSet(T) /\ IsFiniteSet(rest)
  BY FS_Subset
<1>3. SumFunctionOnSet(f, T) \in Int
  BY <1>2, SumType
<1>4. ASSUME NEW U \in SUBSET rest, NEW y \in rest, U \in Good, y \notin U
      PROVE  U \cup {y} \in Good
  <2> DEFINE V == T \cup U
  <2>1. V \in SUBSET S /\ y \notin V /\ f[y] = 0 /\ T \cup (U \cup {y}) = V \cup {y}
    BY <1>4
  <2>2. IsFiniteSet(V) /\ \A x \in V : f[x] \in Int
    BY <2>1, FS_Subset
  <2>3. SumFunctionOnSet(f, V) = SumFunctionOnSet(f, T)
    BY <1>4
  <2> HIDE DEF V
  <2>4. SumFunctionOnSet(f, V \cup {y}) = f[y] + SumFunctionOnSet(f, V)
    BY <2>1, <2>2, SumAdd
  <2> QED  BY <1>3, <2>1, <2>3, <2>4
<1>5. rest \in SUBSET rest /\ T \cup rest = S
  OBVIOUS
<1>6. rest \in Good
  <2> HIDE DEF Good, rest
  <2> QED  BY <1>1, <1>2, <1>4, <1>5, SetInduction
<1> QED  BY <1>5, <1>6

\* The terms under other names.
LEMMA SumRenamed ==
    ASSUME NEW S, IsFiniteSet(S), NEW h, \A x, y \in S : h[x] = h[y] => x = y,
           NEW f, NEW g, \A x \in S : f[x] \in Int /\ g[h[x]] = f[x]
    PROVE  SumFunctionOnSet(g, {h[x] : x \in S}) = SumFunctionOnSet(f, S)
<1> DEFINE image(T) == {h[x] : x \in T}
           Good == {T \in SUBSET S : /\ IsFiniteSet(image(T))
                                     /\ SumFunctionOnSet(g, image(T)) = SumFunctionOnSet(f, T)}
<1>1. {} \in Good
  <2>1. image({}) = {}
    OBVIOUS
  <2> QED  BY <2>1, SumEmpty, FS_EmptySet
<1>2. ASSUME NEW T \in SUBSET S, NEW y \in S, T \in Good, y \notin T
      PROVE  T \cup {y} \in Good
  <2> DEFINE U == image(T)
  <2>1. /\ image(T \cup {y}) = U \cup {h[y]} /\ h[y] \notin U
        /\ (\A z \in U : g[z] \in Int) /\ g[h[y]] = f[y] /\ f[y] \in Int
    <3>1. \A x \in T : h[x] # h[y]
      BY <1>2
    <3>2. \A x \in T : x \in S
      OBVIOUS
    <3> QED  BY <3>1, <3>2
  <2>2. IsFiniteSet(U) /\ SumFunctionOnSet(g, U) = SumFunctionOnSet(f, T)
    BY <1>2
  <2> HIDE DEF U, image
  <2>3. SumFunctionOnSet(g, U \cup {h[y]}) = g[h[y]] + SumFunctionOnSet(g, U)
    BY <2>1, <2>2, SumAdd
  <2>4. IsFiniteSet(T) /\ \A x \in T : f[x] \in Int
    BY FS_Subset
  <2>5. SumFunctionOnSet(f, T \cup {y}) = f[y] + SumFunctionOnSet(f, T)
    BY <1>2, <2>1, <2>4, SumAdd
  <2>6. IsFiniteSet(U \cup {h[y]})
    BY <2>2, FS_AddElement
  <2> QED  BY <2>1, <2>2, <2>3, <2>5, <2>6
<1>3. S \in SUBSET S
  OBVIOUS
<1>4. S \in Good
  <2> HIDE DEF Good
  <2> QED  BY <1>1, <1>2, <1>3, SetInduction
<1> QED  BY <1>4

\* The terms of f are those of g but for zeros.
LEMMA SumMapped ==
    ASSUME NEW S, IsFiniteSet(S), NEW T, IsFiniteSet(T), NEW h,
           \A x \in S : h[x] \in T, \A x, y \in S : h[x] = h[y] => x = y,
           NEW f, NEW g, \A x \in S : f[x] = g[h[x]], \A z \in T : g[z] \in Int,
           \A z \in T : g[z] # 0 => \E x \in S : h[x] = z
    PROVE  SumFunctionOnSet(f, S) = SumFunctionOnSet(g, T)
<1> DEFINE U == {h[x] : x \in S}
<1>1. U \in SUBSET T /\ \A z \in T \ U : g[z] = 0
  OBVIOUS
<1>2. \A x \in S : f[x] \in Int /\ g[h[x]] = f[x]
  OBVIOUS
<1>3. SumFunctionOnSet(g, U) = SumFunctionOnSet(f, S)
  BY <1>2, SumRenamed
<1> HIDE DEF U
<1>4. SumFunctionOnSet(g, T) = SumFunctionOnSet(g, U)
  BY <1>1, SumOnPart
<1> QED  BY <1>3, <1>4

-----------------------------------------------------------------------------
(* A fold over 1..n. *)

\* The greatest of some integers.
LEMMA FiniteGreatest ==
    ASSUME NEW T \in SUBSET Int, IsFiniteSet(T), T # {}
    PROVE  \E m \in T : \A x \in T : m >= x
<1> DEFINE Good == {U \in SUBSET T : U = {} \/ \E m \in U : \A x \in U : m >= x}
<1>1. {} \in Good
  OBVIOUS
<1>2. ASSUME NEW U \in SUBSET T, NEW x \in T, U \in Good, x \notin U
      PROVE  U \cup {x} \in Good
  <2>1. CASE U = {}
    BY <2>1
  <2>2. CASE U # {}
    <3>1. PICK m \in U : \A y \in U : m >= y
      BY <1>2, <2>2
    <3>2. CASE m >= x
      BY <3>1, <3>2
    <3>3. CASE ~(m >= x)
      <4>1. \A y \in U : x >= y
        BY <3>1, <3>3
      <4> QED  BY <4>1
    <3> QED  BY <3>2, <3>3
  <2> QED  BY <2>1, <2>2
<1>3. \A U \in SUBSET T : U \in Good
  <2> HIDE DEF Good
  <2> QED  BY <1>1, <1>2, SetInduction
<1> QED  BY <1>3

\* g folds the subsets of 1..n, the greatest number last, within V.
FoldsUp(g, n, V, base, top, step) ==
  /\ base \in V /\ \A k \in 1..n, v \in V : step[k][v] \in V
  /\ \A s \in SUBSET (1..n) : s # {} => top[s] \in s /\ \A i \in s : top[s] >= i
  /\ g[{}] = base
  /\ \A s \in SUBSET (1..n) :
       s # {} /\ g[s \ {top[s]}] \in V => g[s] = step[top[s]][g[s \ {top[s]}]]

\* Such a fold, as the values it goes through.
LEMMA FoldStates ==
    ASSUME NEW n \in Nat, NEW V, NEW base, NEW top, NEW step, NEW g, FoldsUp(g, n, V, base, top, step)
    PROVE  \E a \in [0..n -> V] :
             a[0] = base /\ (\A k \in 1..n : a[k] = step[k][a[k - 1]]) /\ a[n] = g[1..n]
<1> DEFINE a == [k \in 0..n |-> g[1..k]]
<1>0. /\ base \in V /\ \A k \in 1..n, v \in V : step[k][v] \in V
      /\ \A s \in SUBSET (1..n) : s # {} => top[s] \in s /\ \A i \in s : top[s] >= i
      /\ g[{}] = base
      /\ \A s \in SUBSET (1..n) :
           s # {} /\ g[s \ {top[s]}] \in V => g[s] = step[top[s]][g[s \ {top[s]}]]
  BY DEF FoldsUp
<1>1. a[0] = base
  <2>1. 1..0 = {} /\ 0 \in 0..n
    OBVIOUS
  <2> QED  BY <1>0, <2>1
<1>2. ASSUME NEW k \in 1..n, a[k - 1] \in V PROVE a[k] = step[k][a[k - 1]]
  <2>1. k \in Nat /\ 1 <= k /\ k <= n /\ k \in 1..k /\ k \in 0..n /\ k - 1 \in 0..n
    OBVIOUS
  <2>2. 1..k \in SUBSET (1..n) /\ 1..k # {}
    <3>1. \A i \in 1..k : i \in 1..n
      BY <2>1
    <3> QED  BY <2>1, <3>1
  <2>3. top[1..k] = k
    <3>1. top[1..k] \in 1..k /\ top[1..k] >= k
      BY <1>0, <2>1, <2>2
    <3> QED  BY <2>1, <3>1
  <2>4. (1..k) \ {k} = 1..(k - 1)
    BY <2>1
  <2>5. g[1..(k - 1)] \in V /\ a[k - 1] = g[1..(k - 1)] /\ a[k] = g[1..k]
    BY <1>2, <2>1
  <2> DEFINE s == 1..k
  <2>6. s \in SUBSET (1..n) /\ s # {} /\ top[s] = k /\ s \ {k} = 1..(k - 1)
    BY <2>2, <2>3, <2>4
  <2> HIDE DEF a, s
  <2>7. g[s \ {top[s]}] \in V
    BY <2>5, <2>6
  <2>8. g[s] = step[top[s]][g[s \ {top[s]}]]
    BY <1>0, <2>6, <2>7
  <2> QED  BY <2>5, <2>6, <2>8 DEF s
<1>3. a \in [0..n -> V]
  <2> DEFINE Good == {k \in Nat : k \in 0..n => a[k] \in V}
  <2>1. 0 \in Good
    BY <1>0, <1>1
  <2>2. ASSUME NEW k \in Nat, k \in Good PROVE k + 1 \in Good
    <3> SUFFICES ASSUME k + 1 \in 0..n PROVE a[k + 1] \in V
      OBVIOUS
    <3>1. k + 1 \in 1..n /\ (k + 1) - 1 = k /\ a[k] \in V
      BY <2>2
    <3> HIDE DEF a
    <3>2. a[k + 1] = step[k + 1][a[k]]
      BY <1>2, <3>1
    <3> QED  BY <1>0, <3>1, <3>2
  <2>3. \A k \in Nat : k \in Good
    <3> HIDE DEF Good
    <3> QED  BY <2>1, <2>2, NumberInduction
  <2>4. \A k \in 0..n : a[k] \in V
    <3>1. \A k \in 0..n : k \in Nat
      OBVIOUS
    <3> HIDE DEF a
    <3> QED  BY <2>3, <3>1
  <2> QED  BY <2>4
<1>4. \A k \in 1..n : a[k] = step[k][a[k - 1]]
  <2> SUFFICES ASSUME NEW k \in 1..n PROVE a[k] = step[k][a[k - 1]]
    OBVIOUS
  <2>1. k - 1 \in 0..n
    OBVIOUS
  <2>2. a[k - 1] \in V
    <3> HIDE DEF a
    <3> QED  BY <1>3, <2>1
  <2> HIDE DEF a
  <2> QED  BY <1>2, <2>2
<1>5. a[n] = g[1..n]
  OBVIOUS
<1> HIDE DEF a
<1> QED  BY <1>1, <1>3, <1>4, <1>5

-----------------------------------------------------------------------------
(* The places of the elements of an ordered set. *)

\* What a function takes a finite set to.
LEMMA ImageIsFinite ==
    ASSUME NEW D, IsFiniteSet(D), NEW f
    PROVE  IsFiniteSet({f[x] : x \in D})
<1> DEFINE T == {f[x] : x \in D}
           g == [x \in D |-> f[x]]
<1>1. g \in [D -> T] /\ \A y \in T : \E x \in D : g[x] = y
  OBVIOUS
<1>2. g \in Surjection(D, T)
  BY <1>1 DEF Surjection
<1> HIDE DEF g, T
<1>3. IsFiniteSet(T)
  BY <1>2, FS_Surjection
<1> QED  BY <1>3 DEF T

\* below is a linear order of T: what is not after an element.
Ordered(T, below) ==
  /\ \A x \in T : below[x] \in SUBSET T /\ x \in below[x]
  /\ \A x, y \in T : y \in below[x] \/ x \in below[y]
  /\ \A x, y \in T : y \in below[x] /\ x \in below[y] => x = y
  /\ \A x, y \in T : y \in below[x] => below[y] \subseteq below[x]

LEMMA PlaceType ==
    ASSUME NEW T, IsFiniteSet(T), NEW below, Ordered(T, below), NEW x \in T
    PROVE  Cardinality(below[x]) \in 1..Cardinality(T)
<1>1. below[x] \in SUBSET T /\ x \in below[x]
  BY DEF Ordered
<1>2. IsFiniteSet(below[x]) /\ Cardinality(below[x]) <= Cardinality(T)
  BY <1>1, FS_Subset
<1>3. Cardinality(below[x]) \in Nat /\ Cardinality(T) \in Nat /\ Cardinality(below[x]) # 0
  BY <1>1, <1>2, FS_CardinalityType, FS_EmptySet
<1> QED  BY <1>2, <1>3

LEMMA PlaceIsOrder ==
    ASSUME NEW T, IsFiniteSet(T), NEW below, Ordered(T, below), NEW x \in T, NEW y \in T
    PROVE  /\ y \in below[x] <=> Cardinality(below[y]) <= Cardinality(below[x])
           /\ Cardinality(below[y]) = Cardinality(below[x]) => y = x
<1>1. ASSUME NEW u \in T, NEW v \in T, u \in below[v]
      PROVE  /\ Cardinality(below[u]) <= Cardinality(below[v])
             /\ Cardinality(below[u]) = Cardinality(below[v]) => u = v
  <2>1. below[u] \in SUBSET below[v] /\ below[v] \in SUBSET T /\ v \in below[v]
    BY <1>1 DEF Ordered
  <2>2. IsFiniteSet(below[v])
    BY <2>1, FS_Subset
  <2>3. Cardinality(below[u]) <= Cardinality(below[v])
    BY <2>1, <2>2, FS_Subset
  <2>4. ASSUME Cardinality(below[u]) = Cardinality(below[v]) PROVE u = v
    <3>1. below[u] = below[v]
      BY <2>1, <2>2, <2>4, FS_Subset
    <3> QED  BY <1>1, <2>1, <3>1 DEF Ordered
  <2> QED  BY <2>3, <2>4
<1>2. Cardinality(below[x]) \in Nat /\ Cardinality(below[y]) \in Nat
  <2>1. Cardinality(below[x]) \in 1..Cardinality(T) /\ Cardinality(below[y]) \in 1..Cardinality(T)
    BY PlaceType
  <2> QED  BY <2>1
<1>3. y \in below[x] \/ x \in below[y]
  BY DEF Ordered
<1>4. CASE y \in below[x]
  BY <1>1, <1>4
<1>5. CASE y \notin below[x]
  <2>1. x \in below[y] /\ x # y
    BY <1>3, <1>5 DEF Ordered
  <2>2. Cardinality(below[x]) <= Cardinality(below[y]) /\ Cardinality(below[x]) # Cardinality(below[y])
    BY <1>1, <2>1
  <2> QED  BY <1>2, <1>5, <2>2
<1> QED  BY <1>4, <1>5

\* Every place is somebody's.
PlacesAreTaken(T, below) == 1..Cardinality(T) = {Cardinality(below[x]) : x \in T}

LEMMA PlaceIsTaken ==
    ASSUME NEW T, IsFiniteSet(T), NEW below, Ordered(T, below)
    PROVE  PlacesAreTaken(T, below)
<1> DEFINE n == Cardinality(T)
           K == 1..n
           f == [x \in T |-> Cardinality(below[x])]
<1>1. n \in Nat /\ IsFiniteSet(K) /\ Cardinality(K) = n
  <2>1. n \in Nat
    BY FS_CardinalityType
  <2> HIDE DEF n
  <2> QED  BY <2>1, FS_Interval
<1>2. f \in [T -> K] /\ \A x, y \in T : f[x] = f[y] => x = y
  BY PlaceType, PlaceIsOrder
<1> HIDE DEF f, K
<1>3. f \in Injection(T, K)
  BY <1>2 DEF Injection, IsInjective
<1>4. f \in Surjection(T, K)
  BY <1>1, <1>3, FS_Injection DEF n
<1>5. K = {f[x] : x \in T}
  <2>1. \A x \in T : f[x] \in K
    BY <1>2
  <2>2. \A k \in K : \E x \in T : f[x] = k
    BY <1>4 DEF Surjection
  <2> QED  BY <2>1, <2>2
<1> QED  BY <1>5 DEF f, K, n, PlacesAreTaken

\* How many are not before an element, it included.
LEMMA PlaceFromTheEnd ==
    ASSUME NEW T, IsFiniteSet(T), NEW below, Ordered(T, below), NEW x \in T,
           NEW high \in SUBSET T, \A y \in T : y \in high <=> x \in below[y]
    PROVE  Cardinality(high) = Cardinality(T) - Cardinality(below[x]) + 1
<1> DEFINE low == below[x]
<1>1. low \in SUBSET T /\ high \in SUBSET T /\ low \cup high = T /\ low \cap high = {x}
  BY DEF Ordered
<1> HIDE DEF low
<1>2. IsFiniteSet(low) /\ IsFiniteSet(high)
  BY <1>1, FS_Subset
<1>3. Cardinality(low \cup high) = Cardinality(low) + Cardinality(high) - Cardinality(low \cap high)
  BY <1>2, FS_Union
<1>4. Cardinality({x}) = 1
  BY FS_Singleton
<1>5. Cardinality(low) \in Nat /\ Cardinality(high) \in Nat /\ Cardinality(T) \in Nat
  BY <1>2, FS_CardinalityType
<1>6. Cardinality(T) = Cardinality(low) + Cardinality(high) - 1
  <2>1. Cardinality(low \cap high) = 1 /\ Cardinality(low \cup high) = Cardinality(T)
    BY <1>1, <1>4
  <2> QED  BY <1>3, <2>1
<1>7. Cardinality(high) = Cardinality(T) - Cardinality(low) + 1
  BY <1>5, <1>6
<1> QED  BY <1>7 DEF low

\* The numbers of a set, in their order.
LEMMA NumbersAreOrdered ==
    ASSUME NEW T \in SUBSET Nat
    PROVE  Ordered(T, [x \in T |-> {y \in T : y <= x}])
<1> DEFINE below == [x \in T |-> {y \in T : y <= x}]
<1>1. \A x, y \in T : y \in below[x] <=> y <= x
  OBVIOUS
<1>2. \A x \in T : below[x] \in SUBSET T
  OBVIOUS
<1>3. \A x \in T : x \in Nat
  OBVIOUS
<1> HIDE DEF below
<1>4. /\ \A x \in T : x \in below[x]
      /\ \A x, y \in T : y \in below[x] \/ x \in below[y]
      /\ \A x, y \in T : y \in below[x] /\ x \in below[y] => x = y
  BY <1>1, <1>3
<1>5. \A x, y \in T : y \in below[x] => below[y] \subseteq below[x]
  <2> SUFFICES ASSUME NEW x \in T, NEW y \in T, y \in below[x], NEW z \in below[y] PROVE z \in below[x]
    OBVIOUS
  <2>1. z \in T /\ z <= y /\ y <= x
    BY <1>1, <1>2
  <2> QED  BY <1>1, <1>3, <2>1
<1>6. Ordered(T, below)
  BY <1>2, <1>4, <1>5 DEF Ordered
<1> QED  BY <1>6 DEF below

\* How many of T are not greater than x: x's place in T.
Rank(T, x) == Cardinality({y \in T : y <= x})

\* The numbers of T not greater than each of them.
NotGreater(T) == [x \in T |-> {y \in T : y <= x}]

LEMMA RankIsPlace ==
    ASSUME NEW T \in SUBSET Nat
    PROVE  Ordered(T, NotGreater(T)) /\ \A x \in T : Rank(T, x) = Cardinality(NotGreater(T)[x])
<1>1. Ordered(T, NotGreater(T))
  BY NumbersAreOrdered DEF NotGreater
<1>2. \A x \in T : NotGreater(T)[x] = {y \in T : y <= x}
  BY DEF NotGreater
<1> QED  BY <1>1, <1>2 DEF Rank

LEMMA RankType ==
    ASSUME NEW T \in SUBSET Nat, IsFiniteSet(T), NEW x \in T
    PROVE  Rank(T, x) \in 1..Cardinality(T)
  BY RankIsPlace, PlaceType

LEMMA RankIsOfOne ==
    ASSUME NEW T \in SUBSET Nat, IsFiniteSet(T), NEW x \in T, NEW y \in T, Rank(T, x) = Rank(T, y)
    PROVE  x = y
<1> DEFINE below == NotGreater(T)
<1>1. Ordered(T, below) /\ Cardinality(below[x]) = Cardinality(below[y])
  BY RankIsPlace
<1> HIDE DEF below
<1> QED  BY <1>1, PlaceIsOrder

\* Every place is somebody's.
LEMMA RankIsTaken ==
    ASSUME NEW T \in SUBSET Nat, IsFiniteSet(T), NEW k \in 1..Cardinality(T)
    PROVE  \E x \in T : Rank(T, x) = k
<1> DEFINE below == NotGreater(T)
<1>1. Ordered(T, below) /\ \A x \in T : Rank(T, x) = Cardinality(below[x])
  BY RankIsPlace
<1> HIDE DEF below
<1>2. PlacesAreTaken(T, below)
  BY <1>1, PlaceIsTaken
<1> QED  BY <1>1, <1>2 DEF PlacesAreTaken
===============================================================================
