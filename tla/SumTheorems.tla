---------------------------- MODULE SumTheorems ----------------------------
(***************************************************************************)
(* What SumFunctionOnSet is over finite sets: the sum of one element less, *)
(* of two functions, of equal, smaller and changed ones. Each is shown for *)
(* the smallest subset that would break it, which exists because strict    *)
(* inclusion is well founded over the subsets of a finite set.             *)
(***************************************************************************)
EXTENDS Integers, FiniteSets, Functions, FiniteSetTheorems, WellFoundedInduction, TLAPS

\* Of any sets of elements of a finite set, one has no other below it.
LEMMA Smallest ==
  ASSUME NEW S, IsFiniteSet(S), NEW T \in SUBSET SUBSET S, T # {}
  PROVE  \E x \in T : \A y \in T : y \subseteq x => y = x
<1>1. T \subseteq FiniteSubsetsOf(S)
  BY FS_Subset DEF FiniteSubsetsOf
<1>2. PICK x \in T : \A y \in T : ~(<<y, x>> \in StrictSubsetOrdering(S))
  BY <1>1, FS_StrictSubsetOrderingWellFounded, WFMin, Zenon
<1>3. \A y \in T : y \subseteq x => y = x
  BY <1>2 DEF StrictSubsetOrdering
<1> QED
  BY <1>3

\* What passes from all smaller sets to a set holds of every finite set.
LEMMA SubsetInduction ==
  ASSUME NEW S, IsFiniteSet(S), NEW P,
         \A t \in SUBSET S : (\A u \in SUBSET t : u # t => u \in P) => t \in P
  PROVE  S \in P
<1> SUFFICES ASSUME S \notin P PROVE FALSE
  OBVIOUS
<1> DEFINE Bad == {t \in SUBSET S : t \notin P}
<1>1. PICK t \in Bad : \A u \in Bad : u \subseteq t => u = t
  <2> Bad \in SUBSET SUBSET S /\ Bad # {}
    OBVIOUS
  <2> HIDE DEF Bad
  <2> QED
    BY Smallest
<1> QED
  BY <1>1

Value(f, g, s) == IF s = {} THEN 0 ELSE f[CHOOSE x \in s : TRUE] + g[s \ {CHOOSE x \in s : TRUE}]

Rec(f, S, g) == g = [s \in SUBSET S |-> Value(f, g, s)]

LEMMA SumIs ==
  ASSUME NEW f, NEW S
  PROVE  SumFunctionOnSet(f, S) = (CHOOSE g : Rec(f, S, g))[S]
BY DEF SumFunctionOnSet, FoldFunctionOnSet, MapThenFoldSet, Rec, Value

\* Two solutions agree where both are defined.
LEMMA RecUnique ==
  ASSUME NEW f, NEW S, IsFiniteSet(S), NEW g, Rec(f, S, g), NEW T, NEW h, Rec(f, T, h), S \subseteq T
  PROVE  g[S] = h[S]
<1> DEFINE P == {t \in SUBSET S : g[t] = h[t]}
<1>1. ASSUME NEW t \in SUBSET S, \A u \in SUBSET t : u # t => u \in P PROVE t \in P
  <2>1. g[t] = Value(f, g, t) /\ h[t] = Value(f, h, t)
    BY DEF Rec
  <2>2. CASE t = {}
    BY <2>1, <2>2 DEF Value
  <2>3. CASE t # {}
    <3> DEFINE u == t \ {CHOOSE x \in t : TRUE}
    <3>1. u \in SUBSET t /\ u # t
      BY <2>3
    <3>2. g[u] = h[u]
      BY <3>1, <1>1
    <3> QED
      BY <3>2, <2>1, <2>3 DEF Value
  <2> QED
    BY <2>2, <2>3
<1> HIDE DEF P
<1>2. S \in P
  BY <1>1, SubsetInduction
<1> QED
  BY <1>2 DEF P

LEMMA RecExists ==
  ASSUME NEW f, NEW S, IsFiniteSet(S)
  PROVE  \E g : Rec(f, S, g)
<1> DEFINE P == {t \in SUBSET S : \E g : Rec(f, t, g)}
           sol(u) == CHOOSE g : Rec(f, u, g)
<1>1. ASSUME NEW t \in SUBSET S, \A u \in SUBSET t : u # t => u \in P PROVE t \in P
  <2> DEFINE G == [s \in SUBSET t |-> IF s = t THEN Value(f, [u \in SUBSET t |-> sol(u)[u]], t) ELSE sol(s)[s]]
  <2>1. ASSUME NEW s \in SUBSET t, s # t PROVE IsFiniteSet(s) /\ Rec(f, s, sol(s))
    BY <1>1, <2>1, FS_Subset
  <2>2. ASSUME NEW s \in SUBSET t PROVE G[s] = Value(f, G, s)
    <3> DEFINE u == s \ {CHOOSE x \in s : TRUE}
    <3>1. CASE s = t
      <4>1. G[s] = Value(f, [v \in SUBSET t |-> sol(v)[v]], t)
        BY <3>1
      <4>2. CASE s = {}
        BY <3>1, <4>1, <4>2 DEF Value
      <4>3. CASE s # {}
        <5>1. u \in SUBSET t /\ u # t
          BY <3>1, <4>3
        <5>2. [v \in SUBSET t |-> sol(v)[v]][u] = sol(u)[u] /\ G[u] = sol(u)[u]
          BY <5>1
        <5> HIDE DEF G, sol
        <5> QED
          BY <3>1, <4>1, <4>3, <5>2 DEF Value
      <4> QED
        BY <4>2, <4>3
    <3>2. CASE s # t
      <4>1. G[s] = sol(s)[s] /\ Rec(f, s, sol(s))
        BY <2>1, <3>2
      <4>2. sol(s)[s] = Value(f, sol(s), s)
        <5> HIDE DEF sol, G
        <5> QED
          BY <4>1 DEF Rec
      <4>3. CASE s = {}
        <5> HIDE DEF sol, G
        <5> QED
          BY <4>1, <4>2, <4>3 DEF Value
      <4>4. CASE s # {}
        <5>1. u \subseteq s /\ u \in SUBSET t /\ u # t
          BY <3>2, <4>4
        <5>2. G[u] = sol(u)[u] /\ IsFiniteSet(u) /\ Rec(f, u, sol(u))
          BY <2>1, <5>1
        <5> HIDE DEF sol, G, u
        <5>3. sol(u)[u] = sol(s)[u]
          BY <4>1, <5>1, <5>2, RecUnique
        <5> QED
          BY <4>1, <4>2, <4>4, <5>2, <5>3 DEF Value, u
      <4> QED
        BY <4>3, <4>4
    <3> QED
      BY <3>1, <3>2
  <2>3. Rec(f, t, G)
    <3> G = [s \in SUBSET t |-> G[s]]
      OBVIOUS
    <3> HIDE DEF G
    <3> QED
      BY <2>2 DEF Rec
  <2> HIDE DEF G, sol
  <2> QED
    BY <2>3
<1> HIDE DEF P
<1>2. S \in P
  BY <1>1, SubsetInduction
<1> QED
  BY <1>2 DEF P

\* The equation that defines a sum.
LEMMA SumDef ==
  ASSUME NEW f, NEW S, IsFiniteSet(S)
  PROVE  SumFunctionOnSet(f, S) =
           IF S = {} THEN 0
           ELSE LET x == CHOOSE x \in S : TRUE IN f[x] + SumFunctionOnSet(f, S \ {x})
<1> DEFINE g == CHOOSE g : Rec(f, S, g)
           x == CHOOSE x \in S : TRUE
           h == CHOOSE h : Rec(f, S \ {x}, h)
<1>1. IsFiniteSet(S \ {x}) /\ Rec(f, S, g)
  BY RecExists, FS_RemoveElement
<1>2. Rec(f, S \ {x}, h)
  BY <1>1, RecExists
<1>3. SumFunctionOnSet(f, S) = g[S] /\ SumFunctionOnSet(f, S \ {x}) = h[S \ {x}]
  BY SumIs
<1> HIDE DEF g, h
<1>4. g[S] = Value(f, g, S)
  BY <1>1 DEF Rec
<1>5. h[S \ {x}] = g[S \ {x}]
  <2> HIDE DEF x
  <2> QED
    BY <1>1, <1>2, RecUnique
<1> QED
  BY <1>3, <1>4, <1>5 DEF Value

LEMMA SumEmpty == \A f : SumFunctionOnSet(f, {}) = 0
BY SumDef, FS_EmptySet

\* A sum is of the kind of its summands.
LEMMA SumIn ==
  ASSUME NEW R, 0 \in R, \A a, b \in R : a + b \in R,
         NEW S, IsFiniteSet(S), NEW f, \A s \in S : f[s] \in R
  PROVE  SumFunctionOnSet(f, S) \in R
<1> DEFINE P == {t \in SUBSET S : SumFunctionOnSet(f, t) \in R}
<1>1. ASSUME NEW t \in SUBSET S, \A u \in SUBSET t : u # t => u \in P PROVE t \in P
  <2>1. IsFiniteSet(t)
    BY FS_Subset
  <2>2. CASE t = {}
    BY <2>2, SumEmpty
  <2>3. CASE t # {}
    <3> DEFINE x == CHOOSE x \in t : TRUE
    <3>1. x \in t /\ t \ {x} \in P
      BY <1>1, <2>3
    <3>2. SumFunctionOnSet(f, t) = f[x] + SumFunctionOnSet(f, t \ {x})
      BY <2>1, <2>3, SumDef
    <3> QED
      BY <3>1, <3>2
  <2> QED
    BY <2>2, <2>3
<1> HIDE DEF P
<1>2. S \in P
  BY <1>1, SubsetInduction
<1> QED
  BY <1>2 DEF P

LEMMA SumInt ==
  ASSUME NEW S, IsFiniteSet(S), NEW f, \A s \in S : f[s] \in Int
  PROVE  SumFunctionOnSet(f, S) \in Int
<1>1. 0 \in Int /\ \A a, b \in Int : a + b \in Int
  OBVIOUS
<1> QED
  BY <1>1, SumIn, Zenon

LEMMA SumNat ==
  ASSUME NEW S, IsFiniteSet(S), NEW f, \A s \in S : f[s] \in Nat
  PROVE  SumFunctionOnSet(f, S) \in Nat
<1>1. 0 \in Nat /\ \A a, b \in Nat : a + b \in Nat
  OBVIOUS
<1> QED
  BY <1>1, SumIn, Zenon

\* Any element may come first.
LEMMA SumRemove ==
  ASSUME NEW S, IsFiniteSet(S), NEW f, \A s \in S : f[s] \in Int, NEW x \in S
  PROVE  SumFunctionOnSet(f, S) = f[x] + SumFunctionOnSet(f, S \ {x})
<1> DEFINE First(t, y) == SumFunctionOnSet(f, t) = f[y] + SumFunctionOnSet(f, t \ {y})
           P == {t \in SUBSET S : \A y \in t : First(t, y)}
<1>1. ASSUME NEW t \in SUBSET S, \A u \in SUBSET t : u # t => u \in P, NEW y \in t PROVE First(t, y)
  <2> DEFINE c == CHOOSE c \in t : TRUE
  <2>1. c \in t /\ IsFiniteSet(t)
    BY FS_Subset
  <2>2. First(t, c)
    BY <2>1, SumDef
  <2>3. CASE y # c
    <3>1. t \ {c} \in P /\ t \ {y} \in P
      BY <1>1, <2>1
    <3> DEFINE rest == SumFunctionOnSet(f, (t \ {y}) \ {c})
    <3>2. (t \ {c}) \ {y} = (t \ {y}) \ {c}
      OBVIOUS
    <3>3. SumFunctionOnSet(f, t \ {c}) = f[y] + rest
      BY <2>1, <2>3, <3>1, <3>2
    <3>4. SumFunctionOnSet(f, t \ {y}) = f[c] + rest
      BY <2>1, <2>3, <3>1
    <3>5. rest \in Int /\ f[c] \in Int /\ f[y] \in Int
      <4>1. (t \ {y}) \ {c} \in SUBSET S /\ IsFiniteSet((t \ {y}) \ {c})
        BY FS_Subset
      <4> QED
        BY <2>1, <4>1, SumInt
    <3>6. SumFunctionOnSet(f, t) = f[c] + SumFunctionOnSet(f, t \ {c})
      BY <2>2
    <3> HIDE DEF P, c, rest
    <3> QED
      BY <3>3, <3>4, <3>5, <3>6
  <2> QED
    BY <2>2, <2>3
<1>2. \A t \in SUBSET S : (\A u \in SUBSET t : u # t => u \in P) => t \in P
  BY <1>1
<1> HIDE DEF P
<1>3. S \in P
  BY <1>2, SubsetInduction
<1> QED
  BY <1>3 DEF P

LEMMA SumPlus ==
  ASSUME NEW S, IsFiniteSet(S), NEW f, NEW g, NEW h,
         \A s \in S : f[s] \in Int /\ g[s] \in Int /\ h[s] = f[s] + g[s]
  PROVE  SumFunctionOnSet(h, S) = SumFunctionOnSet(f, S) + SumFunctionOnSet(g, S)
<1> DEFINE P == {t \in SUBSET S : SumFunctionOnSet(h, t) = SumFunctionOnSet(f, t) + SumFunctionOnSet(g, t)}
<1>1. ASSUME NEW t \in SUBSET S, \A u \in SUBSET t : u # t => u \in P PROVE t \in P
  <2>1. CASE t = {}
    BY <2>1, SumEmpty
  <2>2. CASE t # {}
    <3>1. PICK x \in t : TRUE
      BY <2>2
    <3>2. t \ {x} \in P /\ IsFiniteSet(t) /\ IsFiniteSet(t \ {x})
      BY <1>1, FS_Subset
    <3>3. /\ SumFunctionOnSet(f, t \ {x}) \in Int /\ SumFunctionOnSet(g, t \ {x}) \in Int
          /\ f[x] \in Int /\ g[x] \in Int /\ h[x] = f[x] + g[x]
      BY <3>2, SumInt
    <3>4. /\ SumFunctionOnSet(f, t) = f[x] + SumFunctionOnSet(f, t \ {x})
          /\ SumFunctionOnSet(g, t) = g[x] + SumFunctionOnSet(g, t \ {x})
      BY <3>2, SumRemove
    <3>5. SumFunctionOnSet(h, t) = h[x] + SumFunctionOnSet(h, t \ {x})
      <4>1. \A s \in t : h[s] \in Int
        OBVIOUS
      <4> QED
        BY <3>2, <4>1, SumRemove
    <3>6. SumFunctionOnSet(h, t \ {x}) = SumFunctionOnSet(f, t \ {x}) + SumFunctionOnSet(g, t \ {x})
      BY <3>2
    <3>7. SumFunctionOnSet(h, t) = SumFunctionOnSet(f, t) + SumFunctionOnSet(g, t)
      <4> HIDE DEF P
      <4> QED
        BY <3>3, <3>4, <3>5, <3>6
    <3> QED
      BY <3>7
  <2> QED
    BY <2>1, <2>2
<1> HIDE DEF P
<1>2. S \in P
  BY <1>1, SubsetInduction
<1> QED
  BY <1>2 DEF P

\* Sums of no larger summands are no larger.
LEMMA SumLeq ==
  ASSUME NEW S, IsFiniteSet(S), NEW f, NEW g,
         \A s \in S : f[s] \in Int /\ g[s] \in Int /\ f[s] <= g[s]
  PROVE  SumFunctionOnSet(f, S) <= SumFunctionOnSet(g, S)
<1> DEFINE d == [s \in S |-> g[s] - f[s]]
<1>1. SumFunctionOnSet(g, S) = SumFunctionOnSet(f, S) + SumFunctionOnSet(d, S)
  <2>1. \A s \in S : d[s] \in Int /\ g[s] = f[s] + d[s]
    OBVIOUS
  <2> HIDE DEF d
  <2> QED
    BY <2>1, SumPlus
<1>2. SumFunctionOnSet(d, S) \in Nat
  <2>1. \A s \in S : d[s] \in Nat
    OBVIOUS
  <2> HIDE DEF d
  <2> QED
    BY <2>1, SumNat
<1>3. SumFunctionOnSet(f, S) \in Int
  BY SumInt
<1> HIDE DEF d
<1> QED
  BY <1>1, <1>2, <1>3

LEMMA SumSame ==
  ASSUME NEW S, IsFiniteSet(S), NEW f, NEW g, \A s \in S : f[s] \in Int /\ f[s] = g[s]
  PROVE  SumFunctionOnSet(f, S) = SumFunctionOnSet(g, S)
<1>1. SumFunctionOnSet(f, S) <= SumFunctionOnSet(g, S) /\ SumFunctionOnSet(g, S) <= SumFunctionOnSet(f, S)
  BY SumLeq
<1>2. SumFunctionOnSet(f, S) \in Int /\ SumFunctionOnSet(g, S) \in Int
  BY SumInt
<1> QED
  BY <1>1, <1>2

\* One summand changes.
LEMMA SumChange ==
  ASSUME NEW S, IsFiniteSet(S), NEW f, NEW g, NEW x \in S,
         \A s \in S : f[s] \in Int /\ g[s] \in Int /\ (s # x => g[s] = f[s])
  PROVE  SumFunctionOnSet(g, S) = SumFunctionOnSet(f, S) + g[x] - f[x]
<1>1. /\ SumFunctionOnSet(f, S) = f[x] + SumFunctionOnSet(f, S \ {x})
      /\ SumFunctionOnSet(g, S) = g[x] + SumFunctionOnSet(g, S \ {x})
  BY SumRemove
<1>2. IsFiniteSet(S \ {x})
  BY FS_RemoveElement
<1>3. SumFunctionOnSet(g, S \ {x}) = SumFunctionOnSet(f, S \ {x}) /\ SumFunctionOnSet(f, S \ {x}) \in Int
  BY <1>2, SumSame, SumInt
<1> QED
  BY <1>1, <1>3

\* A sum over some elements is one over all, in which the others are zero.
LEMMA SumWithin ==
  ASSUME NEW S, IsFiniteSet(S), NEW T \in SUBSET S, NEW f, \A s \in T : f[s] \in Int
  PROVE  SumFunctionOnSet(f, T) = SumFunctionOnSet([s \in S |-> IF s \in T THEN f[s] ELSE 0], S)
<1> DEFINE h == [s \in S |-> IF s \in T THEN f[s] ELSE 0]
           P == {t \in SUBSET S : SumFunctionOnSet(f, t \cap T) = SumFunctionOnSet(h, t)}
<1>1. \A s \in S : h[s] \in Int
  OBVIOUS
<1>2. ASSUME NEW t \in SUBSET S, \A u \in SUBSET t : u # t => u \in P PROVE t \in P
  <2>1. CASE t = {}
    <3>1. t \cap T = {}
      BY <2>1
    <3> HIDE DEF h
    <3> QED
      BY <2>1, <3>1, SumEmpty
  <2>2. CASE t # {}
    <3>1. PICK x \in t : TRUE
      BY <2>2
    <3>2. t \ {x} \in P /\ IsFiniteSet(t) /\ IsFiniteSet(t \cap T)
      BY <1>2, FS_Subset
    <3>3. SumFunctionOnSet(h, t) = h[x] + SumFunctionOnSet(h, t \ {x}) /\ SumFunctionOnSet(h, t \ {x}) \in Int
      <4>1. IsFiniteSet(t \ {x})
        BY <3>2, FS_Subset
      <4> HIDE DEF h, P
      <4> QED
        BY <1>1, <3>1, <3>2, <4>1, SumRemove, SumInt
    <3>4. SumFunctionOnSet(f, (t \ {x}) \cap T) = SumFunctionOnSet(h, t \ {x})
      BY <3>2
    <3>5. CASE x \in T
      <4>1. SumFunctionOnSet(f, t \cap T) = f[x] + SumFunctionOnSet(f, (t \cap T) \ {x})
        BY <3>1, <3>2, <3>5, SumRemove
      <4>2. (t \cap T) \ {x} = (t \ {x}) \cap T /\ h[x] = f[x]
        BY <3>5
      <4> HIDE DEF h
      <4> QED
        BY <3>3, <3>4, <4>1, <4>2
    <3>6. CASE x \notin T
      <4>1. t \cap T = (t \ {x}) \cap T /\ h[x] = 0
        BY <3>1, <3>6
      <4>2. SumFunctionOnSet(h, t) = SumFunctionOnSet(h, t \ {x})
        <5> HIDE DEF h, P
        <5> QED
          BY <3>3, <4>1
      <4>3. SumFunctionOnSet(f, t \cap T) = SumFunctionOnSet(f, (t \ {x}) \cap T)
        BY <4>1, Zenon
      <4> QED
        BY <3>4, <4>2, <4>3
    <3> QED
      BY <3>5, <3>6
  <2> QED
    BY <2>1, <2>2
<1>3. S \cap T = T
  OBVIOUS
<1> HIDE DEF P
<1>4. S \in P
  BY <1>2, SubsetInduction
<1>5. SumFunctionOnSet(f, S \cap T) = SumFunctionOnSet(h, S)
  BY <1>4 DEF P
<1> QED
  BY <1>3, <1>5

\* Counting is adding ones.
LEMMA SumCard ==
  ASSUME NEW S, IsFiniteSet(S), NEW T \in SUBSET S
  PROVE  Cardinality(T) = SumFunctionOnSet([s \in S |-> IF s \in T THEN 1 ELSE 0], S)
<1> DEFINE f == [s \in S |-> 1]
           P == {t \in SUBSET S : Cardinality(t) = SumFunctionOnSet(f, t)}
<1>1. ASSUME NEW t \in SUBSET S, \A u \in SUBSET t : u # t => u \in P PROVE t \in P
  <2>1. CASE t = {}
    <3> HIDE DEF f
    <3> QED
      BY <2>1, SumEmpty, FS_EmptySet
  <2>2. CASE t # {}
    <3>1. PICK x \in t : TRUE
      BY <2>2
    <3>2. t \ {x} \in P /\ IsFiniteSet(t)
      BY <1>1, FS_Subset
    <3>3. Cardinality(t \ {x}) = Cardinality(t) - 1 /\ Cardinality(t) \in Nat
      BY <3>1, <3>2, FS_RemoveElement, FS_CardinalityType
    <3>4. \A s \in t : f[s] = 1
      OBVIOUS
    <3>5. SumFunctionOnSet(f, t) = f[x] + SumFunctionOnSet(f, t \ {x})
      <4> HIDE DEF f, P
      <4> QED
        BY <3>1, <3>2, <3>4, SumRemove
    <3>6. Cardinality(t \ {x}) = SumFunctionOnSet(f, t \ {x})
      BY <3>2
    <3> HIDE DEF f
    <3> QED
      BY <3>3, <3>4, <3>5, <3>6
  <2> QED
    BY <2>1, <2>2
<1> HIDE DEF P
<1>2. \A t \in SUBSET S : t \in P
  <2> SUFFICES ASSUME NEW t \in SUBSET S PROVE t \in P
    OBVIOUS
  <2>1. IsFiniteSet(t) /\ \A v \in SUBSET t : v \in SUBSET S
    BY FS_Subset
  <2> QED
    BY <1>1, <2>1, SubsetInduction
<1>3. Cardinality(T) = SumFunctionOnSet(f, T)
  BY <1>2 DEF P
<1>4. SumFunctionOnSet(f, T) = SumFunctionOnSet([s \in S |-> IF s \in T THEN f[s] ELSE 0], S)
  <2>1. \A s \in T : f[s] \in Int
    OBVIOUS
  <2> HIDE DEF f
  <2> QED
    BY <2>1, SumWithin
<1>5. [s \in S |-> IF s \in T THEN f[s] ELSE 0] = [s \in S |-> IF s \in T THEN 1 ELSE 0]
  OBVIOUS
<1> HIDE DEF f
<1> QED
  BY <1>3, <1>4, <1>5

\* A sum of zeros, and one of zeros but for one summand.
LEMMA SumZero ==
  ASSUME NEW S, IsFiniteSet(S), NEW f, \A s \in S : f[s] = 0
  PROVE  SumFunctionOnSet(f, S) = 0
<1>1. PICK v : v = SumFunctionOnSet(f, S)
  OBVIOUS
<1>2. v = v + v
  BY <1>1, SumPlus
<1>3. v \in Int
  BY <1>1, SumInt
<1>4. v = 0
  BY <1>2, <1>3
<1> QED
  BY <1>1, <1>4

LEMMA SumOne ==
  ASSUME NEW S, IsFiniteSet(S), NEW x \in S, NEW f, f[x] \in Int, \A s \in S : s # x => f[s] = 0
  PROVE  SumFunctionOnSet(f, S) = f[x]
<1>1. IsFiniteSet(S \ {x})
  BY FS_RemoveElement
<1>2. SumFunctionOnSet(f, S \ {x}) = 0
  BY <1>1, SumZero
<1>3. SumFunctionOnSet(f, S) = f[x] + SumFunctionOnSet(f, S \ {x})
  BY SumRemove
<1> QED
  BY <1>2, <1>3

\* What one sum grows by, when its summands grow by no more than those of another.
LEMMA SumCross ==
  ASSUME NEW S, IsFiniteSet(S), NEW f, NEW g, NEW d, NEW e,
         \A s \in S : /\ f[s] \in Int /\ g[s] \in Int /\ d[s] \in Int /\ e[s] \in Int
                      /\ f[s] + d[s] <= g[s] + e[s]
  PROVE  SumFunctionOnSet(f, S) + SumFunctionOnSet(d, S) <= SumFunctionOnSet(g, S) + SumFunctionOnSet(e, S)
<1> DEFINE a == [s \in S |-> f[s] + d[s]]
           b == [s \in S |-> g[s] + e[s]]
<1>1. \A s \in S : a[s] = f[s] + d[s] /\ b[s] = g[s] + e[s] /\ a[s] \in Int /\ b[s] \in Int /\ a[s] <= b[s]
  OBVIOUS
<1> HIDE DEF a, b
<1>2. SumFunctionOnSet(a, S) = SumFunctionOnSet(f, S) + SumFunctionOnSet(d, S)
  BY <1>1, SumPlus
<1>3. SumFunctionOnSet(b, S) = SumFunctionOnSet(g, S) + SumFunctionOnSet(e, S)
  BY <1>1, SumPlus
<1>4. SumFunctionOnSet(a, S) <= SumFunctionOnSet(b, S)
  BY <1>1, SumLeq
<1> QED
  BY <1>2, <1>3, <1>4

\* A sum over what a one-to-one function makes of a set.
LEMMA SumAlong ==
  ASSUME NEW S, IsFiniteSet(S), NEW h, \A s, t \in S : h[s] = h[t] => s = t,
         NEW f, NEW g, \A s \in S : f[s] \in Int /\ g[h[s]] = f[s]
  PROVE  SumFunctionOnSet(g, {h[s] : s \in S}) = SumFunctionOnSet(f, S)
<1> DEFINE Made(t) == {h[s] : s \in t}
           Moves(t) == IsFiniteSet(Made(t)) /\ SumFunctionOnSet(g, Made(t)) = SumFunctionOnSet(f, t)
           P == {t \in SUBSET S : Moves(t)}
<1>1. ASSUME NEW t \in SUBSET S, \A u \in SUBSET t : u # t => u \in P PROVE t \in P
  <2>1. CASE t = {}
    <3>1. Made(t) = {}
      BY <2>1
    <3> HIDE DEF Made
    <3>2. Moves(t)
      BY <2>1, <3>1, FS_EmptySet, SumEmpty
    <3> QED
      BY <3>2
  <2>2. CASE t # {}
    <3>1. PICK x \in t : TRUE
      BY <2>2
    <3> DEFINE u == t \ {x}
    <3>2. Moves(u) /\ x \notin u
      BY <1>1, <3>1
    <3>3. IsFiniteSet(t) /\ IsFiniteSet(u)
      BY FS_Subset
    <3>4. Made(u) = Made(t) \ {h[x]} /\ h[x] \in Made(t) /\ Made(t) = Made(u) \cup {h[x]} /\ h[x] \notin Made(u)
      BY <1>1, <3>1
    <3> HIDE DEF Made, u
    <3>5. IsFiniteSet(Made(t))
      <4> DEFINE v == Made(u)
      <4>1. IsFiniteSet(v) /\ Made(t) = v \cup {h[x]}
        BY <3>2, <3>4
      <4> HIDE DEF v
      <4> QED
        BY <4>1, FS_AddElement
    <3>6. SumFunctionOnSet(f, t) = f[x] + SumFunctionOnSet(f, u)
      BY <3>1, <3>3, SumRemove DEF u
    <3>7. SumFunctionOnSet(g, Made(t)) = g[h[x]] + SumFunctionOnSet(g, Made(u))
      <4>1. \A y \in Made(t) : g[y] \in Int
        BY DEF Made
      <4> QED
        BY <3>4, <3>5, <4>1, SumRemove
    <3>8. g[h[x]] = f[x]
      BY <3>1
    <3> QED
      BY <3>2, <3>5, <3>6, <3>7, <3>8
  <2> QED
    BY <2>1, <2>2
<1> HIDE DEF P
<1>2. S \in P
  BY <1>1, SubsetInduction
<1> QED
  BY <1>2 DEF P

=============================================================================
