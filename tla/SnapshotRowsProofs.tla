------------------------- MODULE SnapshotRowsProofs -------------------------
(***************************************************************************)
(* What the operators of SnapshotRows return, for every snapshot, and what *)
(* the trackers' sums over connections amount to.                          *)
(***************************************************************************)
EXTENDS SnapshotRows, FiniteSetTheorems, TLAPS

\* A nonempty set of naturals has a least element.
LEMMA LeastIndex ==
    ASSUME NEW T, T \subseteq Nat, T # {}
    PROVE  \E x \in T : \A y \in T : x <= y
<1> DEFINE R == {p \in Nat \X Nat : p[1] < p[2]}
<1>1. R = OpToRel(<, Nat)
  BY DEF OpToRel
<1>2. IsWellFoundedOn(R, Nat)
  <2> HIDE DEF R
  <2> QED BY <1>1, NatLessThanWellFounded
<1>3. PICK x \in T : \A y \in T : ~ (<<y, x>> \in R)
  <2> HIDE DEF R
  <2> QED BY <1>2, WFMin
<1>4. ASSUME NEW y \in T PROVE x <= y
  <2>1. <<y, x>> \in Nat \X Nat
    OBVIOUS
  <2>2. ~(y < x)
    BY <2>1, <1>3
  <2> QED BY <2>2
<1> QED BY <1>4

\* A finite set of naturals has a greatest element.
LEMMA GreatestIndex ==
    ASSUME NEW T, T \subseteq Nat, T # {}, IsFiniteSet(T)
    PROVE  \E x \in T : \A y \in T : x >= y
<1> DEFINE Above(x) == {y \in T : y > x}
           Counts == {n \in Nat : \E x \in T : Cardinality(Above(x)) = n}
<1>1. \A x \in T : IsFiniteSet(Above(x)) /\ Cardinality(Above(x)) \in Nat
  <2>1. ASSUME NEW x \in T PROVE IsFiniteSet(Above(x))
    <3>1. Above(x) \in SUBSET T
      OBVIOUS
    <3> HIDE DEF Above
    <3> QED BY <3>1, FS_Subset
  <2> HIDE DEF Above
  <2> QED BY <2>1, FS_CardinalityType
<1>2. Counts # {} /\ Counts \subseteq Nat
  <2> HIDE DEF Above
  <2> QED BY <1>1
<1>3. PICK n \in Counts : \A m \in Counts : n <= m
  <2> HIDE DEF Counts
  <2> QED BY <1>2, LeastIndex
<1>4. PICK x \in T : Cardinality(Above(x)) = n
  BY <1>3
<1>5. ASSUME NEW y \in T, y > x PROVE FALSE
  <2>0. x \in Nat /\ y \in Nat /\ \A z \in T : z \in Nat
    OBVIOUS
  <2>1. /\ \A z \in Above(y) : z \in Above(x)
        /\ y \in Above(x) /\ y \notin Above(y)
    <3>1. y \in Above(x) /\ y \notin Above(y)
      BY <1>5, <2>0
    <3>2. ASSUME NEW z \in Above(y) PROVE z \in Above(x)
      BY <1>5, <2>0
    <3> QED BY <3>1, <3>2
  <2> HIDE DEF Above
  <2>2. Cardinality(Above(y)) <= Cardinality(Above(x)) /\ Above(y) # Above(x)
    <3>1. Above(y) \in SUBSET Above(x)
      BY <2>1
    <3> QED BY <1>1, <2>1, <3>1, FS_Subset
  <2>3. Cardinality(Above(y)) # Cardinality(Above(x))
    <3>1. Above(y) \in SUBSET Above(x)
      BY <2>1
    <3> QED BY <1>1, <2>2, <3>1, FS_Subset
  <2>4. Cardinality(Above(y)) \in Counts
    BY <1>1
  <2> HIDE DEF Counts
  <2> QED BY <1>1, <1>3, <1>4, <2>2, <2>3, <2>4
<1> QED BY <1>5

\* FirstIndex finds a row of the key it is asked for, if there is one.
LEMMA FirstIndexFound ==
    ASSUME NEW S, NEW rows \in Seq(S), NEW k \in KeysOf(rows)
    PROVE  /\ FirstIndex(rows, k) \in DOMAIN rows
           /\ makeKey(rows[FirstIndex(rows, k)]) = k
<1> DEFINE T == {i \in DOMAIN rows : makeKey(rows[i]) = k}
<1>1. T \subseteq Nat /\ T # {}
  BY DEF KeysOf
<1>2. PICK i \in T : \A j \in T : i <= j
  BY <1>1, LeastIndex
<1>3. /\ i \in DOMAIN rows
      /\ makeKey(rows[i]) = k
      /\ \A j \in DOMAIN rows : makeKey(rows[j]) = k => i <= j
  BY <1>2
<1> HIDE DEF T
<1> QED BY <1>3 DEF FirstIndex

\* Indexing a snapshot by key keeps rows of the snapshot, under their own key.
LEMMA DedupeRows ==
    ASSUME NEW S, NEW rows \in Seq(S)
    PROVE  /\ DOMAIN Dedupe(rows) = KeysOf(rows)
           /\ Dedupe(rows) \in [KeysOf(rows) -> S]
           /\ \A k \in KeysOf(rows) : Dedupe(rows)[k].conn = k
<1>1. ASSUME NEW k \in KeysOf(rows)
      PROVE  rows[FirstIndex(rows, k)] \in S /\ rows[FirstIndex(rows, k)].conn = k
  BY FirstIndexFound DEF makeKey
<1> QED BY <1>1 DEF Dedupe

\* Fresh progress is a number of bytes, at most what the counter shows, and
\* nothing when the counter has not moved or has been cleared.
LEMMA DeltaBounds ==
    ASSUME NEW p \in Nat, NEW q \in Nat
    PROVE  /\ computeDelta(p, q) \in Nat
           /\ computeDelta(p, q) <= q
           /\ computeDelta(q, q) = 0
           /\ computeDelta(p, 0) = 0
           /\ computeDelta(0, q) = q
  BY DEF computeDelta

\* One more byte on the counter is at most one more byte of progress.
LEMMA DeltaStep ==
    ASSUME NEW p \in Nat, NEW q \in Nat
    PROVE  computeDelta(p, q + 1) <= computeDelta(p, q) + 1
  BY DEF computeDelta

\* A snapshot has finitely many keys.
LEMMA KeysFinite ==
    ASSUME NEW S, NEW rows \in Seq(S)
    PROVE  IsFiniteSet(KeysOf(rows))
<1>1. PICK n \in Nat : DOMAIN rows = 1..n
  <2>1. Len(rows) \in Nat /\ DOMAIN rows = 1..Len(rows)
    OBVIOUS
  <2> QED BY <2>1
<1>2. IsFiniteSet(DOMAIN rows)
  BY <1>1, FS_Interval
<1> DEFINE D == DOMAIN rows
           keys == [i \in D |-> makeKey(rows[i])]
<1>3. keys \in [D -> KeysOf(rows)] /\ \A k \in KeysOf(rows) : \E i \in D : keys[i] = k
  BY DEF KeysOf
<1> HIDE DEF keys, D
<1>4. keys \in Surjection(D, KeysOf(rows))
  BY <1>3 DEF Surjection
<1> QED BY <1>2, <1>4, FS_Surjection DEF D

-----------------------------------------------------------------------------
(* Sums of naturals over finite sets.  SumFunction takes one element after *)
(* the other away.  The number it arrives at is the number of elements of  *)
(* a set, Units, and so the theorems on cardinalities are theorems on      *)
(* sums; the induction is over a least counterexample.                     *)

\* The units f stands for: f[x] of them for every x.
Units(f, s) == {u \in s \X Nat : 1 <= u[2] /\ u[2] <= f[u[1]]}

\* A natural number of elements for one x.
LEMMA UnitsOfOne ==
    ASSUME NEW f, NEW x, f[x] \in Nat
    PROVE  IsFiniteSet(Units(f, {x})) /\ Cardinality(Units(f, {x})) = f[x]
<1>1. Units(f, {x}) = {x} \X (1..f[x])
  BY DEF Units
<1>2. IsFiniteSet({x}) /\ Cardinality({x}) = 1
  BY FS_Singleton
<1>3. IsFiniteSet(1..f[x]) /\ Cardinality(1..f[x]) = f[x]
  BY FS_Interval
<1>4. IsFiniteSet({x} \X (1..f[x])) /\ Cardinality({x} \X (1..f[x])) = 1 * f[x]
  BY <1>2, <1>3, FS_Product
<1>5. 1 * f[x] = f[x]
  OBVIOUS
<1> QED BY <1>1, <1>4, <1>5

\* The units of a finite set are finitely many.
LEMMA UnitsFinite ==
    ASSUME NEW s, IsFiniteSet(s), NEW f, \A x \in s : f[x] \in Nat
    PROVE  IsFiniteSet(Units(f, s))
<1> DEFINE Piles == {Units(f, {x}) : x \in s}
           pile == [x \in s |-> Units(f, {x})]
<1>1. pile \in Surjection(s, Piles)
  BY DEF Surjection
<1>2. IsFiniteSet(Piles)
  BY <1>1, FS_Surjection
<1>3. \A T \in Piles : IsFiniteSet(T)
  BY UnitsOfOne
<1>4. Units(f, s) = UNION Piles
  BY DEF Units
<1> HIDE DEF Piles
<1> QED BY <1>2, <1>3, <1>4, FS_UNION

\* Units of disjoint sets add up.
LEMMA UnitsSplit ==
    ASSUME NEW s, IsFiniteSet(s), NEW t, IsFiniteSet(t), s \cap t = {},
           NEW f, \A x \in s \cup t : f[x] \in Nat
    PROVE  Cardinality(Units(f, s \cup t)) = Cardinality(Units(f, s)) + Cardinality(Units(f, t))
<1>1. IsFiniteSet(Units(f, s)) /\ IsFiniteSet(Units(f, t))
  BY UnitsFinite
<1>2. Units(f, s \cup t) = Units(f, s) \cup Units(f, t)
  BY DEF Units
<1>3. Units(f, s) \cap Units(f, t) = {}
  BY DEF Units
<1>4. Cardinality(Units(f, s)) \in Nat /\ Cardinality(Units(f, t)) \in Nat
  BY <1>1, FS_CardinalityType
<1>5. Cardinality(Units(f, s) \cup Units(f, t)) =
        Cardinality(Units(f, s)) + Cardinality(Units(f, t)) - Cardinality(Units(f, s) \cap Units(f, t))
  BY <1>1, FS_Union
<1>6. Cardinality(Units(f, s) \cap Units(f, t)) = 0
  BY <1>3, FS_EmptySet
<1>7. Cardinality(Units(f, s \cup t)) = Cardinality(Units(f, s) \cup Units(f, t))
  BY <1>2, Zenon
<1> QED BY <1>4, <1>5, <1>6, <1>7

Without(s, x, t) == t = s \ {x}

\* Taking one element away.
LEMMA TakeOne ==
    ASSUME NEW S, IsFiniteSet(S), NEW f \in [S -> Nat], NEW s \in SUBSET S, NEW x \in s,
           NEW t, Without(s, x, t)
    PROVE  Cardinality(Units(f, s)) = f[x] + Cardinality(Units(f, t))
<1>0. t = s \ {x}
  BY DEF Without
<1>1. IsFiniteSet(s) /\ IsFiniteSet(t)
  BY <1>0, FS_Subset
<1>2. /\ IsFiniteSet(t) /\ IsFiniteSet({x}) /\ t \cap {x} = {}
      /\ \A y \in t \cup {x} : f[y] \in Nat
  BY <1>0, <1>1, FS_Singleton
<1>3. t \cup {x} = s
  BY <1>0
<1>4. Cardinality(Units(f, t \cup {x})) =
        Cardinality(Units(f, t)) + Cardinality(Units(f, {x}))
  BY ONLY <1>2, UnitsSplit
<1>5. Cardinality(Units(f, {x})) = f[x] /\ f[x] \in Nat
  BY UnitsOfOne
<1>6. IsFiniteSet(Units(f, t))
  BY <1>2, UnitsFinite
<1>7. Cardinality(Units(f, t)) \in Nat
  BY <1>6, FS_CardinalityType
<1>8. Cardinality(Units(f, s)) = Cardinality(Units(f, t)) + Cardinality(Units(f, {x}))
  BY <1>3, <1>4, Zenon
<1> QED BY <1>5, <1>7, <1>8

\* g takes one element after the other away and adds up.
AddsUp(g, f, S) ==
    g = [s \in SUBSET S |-> IF s = {} THEN 0
                            ELSE f[CHOOSE x \in s : TRUE] + g[s \ {CHOOSE x \in s : TRUE}]]

\* Any function that takes one element after the other away counts the units.
LEMMA Counting ==
    ASSUME NEW S, IsFiniteSet(S), NEW f \in [S -> Nat], NEW g, AddsUp(g, f, S)
    PROVE  \A s \in SUBSET S : g[s] = Cardinality(Units(f, s))
<1> SUFFICES ASSUME NEW s0 \in SUBSET S, g[s0] # Cardinality(Units(f, s0))
             PROVE  FALSE
  OBVIOUS
<1> DEFINE Wrong == {s \in SUBSET S : g[s] # Cardinality(Units(f, s))}
           Sizes == {n \in Nat : \E s \in Wrong : Cardinality(s) = n}
<1>1. \A s \in SUBSET S : IsFiniteSet(s) /\ Cardinality(s) \in Nat
  BY FS_Subset, FS_CardinalityType
<1>2. Cardinality(s0) \in Sizes /\ Sizes \subseteq Nat
  BY <1>1
<1>3. PICK n \in Sizes : \A m \in Sizes : n <= m
  <2> HIDE DEF Sizes
  <2> QED BY <1>2, LeastIndex
<1>4. PICK s \in SUBSET S : g[s] # Cardinality(Units(f, s)) /\ Cardinality(s) = n
  BY <1>3
<1>5. s # {}
  <2>1. Units(f, {}) = {} /\ g[{}] = 0
    BY DEF Units, AddsUp
  <2> QED BY <1>4, <2>1, FS_EmptySet
<1>6. PICK x, t : x \in s /\ x = (CHOOSE y \in s : TRUE) /\ t = s \ {x}
  BY <1>5
<1>7. g[s] = f[x] + g[t]
  BY <1>5, <1>6 DEF AddsUp
<1>8. t \in SUBSET S /\ Cardinality(t) = n - 1 /\ n \in Nat
  BY <1>1, <1>3, <1>4, <1>6, FS_RemoveElement
<1>9. g[t] = Cardinality(Units(f, t))
  <2>1. Cardinality(t) \in Nat
    BY <1>1, <1>8
  <2>2. t \in Wrong => n - 1 \in Sizes
    BY <1>8, <2>1
  <2>3. n - 1 \notin Sizes
    <3> HIDE DEF Sizes
    <3> QED BY <1>3, <1>8
  <2> QED BY <1>8, <2>2, <2>3
<1>10. Cardinality(Units(f, s)) = f[x] + Cardinality(Units(f, t))
  <2>1. Without(s, x, t)
    BY <1>6 DEF Without
  <2>2. x \in s
    BY <1>6
  <2> QED BY <2>1, <2>2, TakeOne
<1> QED BY <1>4, <1>7, <1>9, <1>10

\* The sum of naturals is the number of their units.
LEMMA SumCounts ==
    ASSUME NEW S, IsFiniteSet(S), NEW f \in [S -> Nat]
    PROVE  SumFunction(f) = Cardinality(Units(f, S)) /\ SumFunction(f) \in Nat
<1> DEFINE count == [s \in SUBSET S |-> Cardinality(Units(f, s))]
<1>1. SumFunction(f) = (CHOOSE g : AddsUp(g, f, S))[S]
  BY DEF SumFunction, SumFunctionOnSet, FoldFunctionOnSet, MapThenFoldSet, AddsUp
<1>2. ASSUME NEW s \in SUBSET S
      PROVE  count[s] = IF s = {} THEN 0 ELSE f[CHOOSE x \in s : TRUE]
                                               + count[s \ {CHOOSE x \in s : TRUE}]
  <2>1. CASE s = {}
    <3>1. Units(f, {}) = {}
      BY DEF Units
    <3> QED BY <2>1, <3>1, FS_EmptySet
  <2>2. CASE s # {}
    <3>1. PICK x, t : x \in s /\ x = (CHOOSE y \in s : TRUE) /\ t = s \ {x}
      BY <2>2
    <3>2. Cardinality(Units(f, s)) = f[x] + Cardinality(Units(f, t))
      <4>1. Without(s, x, t)
        BY <3>1 DEF Without
      <4>2. x \in s
        BY <3>1
      <4> QED BY <4>1, <4>2, TakeOne
    <3>3. t \in SUBSET S
      BY <3>1
    <3>4. count[s] = f[x] + count[t]
      BY <3>2, <3>3
    <3> HIDE DEF count
    <3> QED BY <2>2, <3>1, <3>4
  <2> QED BY <2>1, <2>2
<1>3. AddsUp(count, f, S)
  BY <1>2 DEF AddsUp
<1>4. PICK g : g = (CHOOSE h : AddsUp(h, f, S)) /\ AddsUp(g, f, S)
  <2> HIDE DEF count
  <2> QED BY <1>3
<1>5. g[S] = Cardinality(Units(f, S))
  BY <1>4, Counting
<1>6. IsFiniteSet(Units(f, S))
  BY UnitsFinite
<1> QED BY <1>1, <1>4, <1>5, <1>6, FS_CardinalityType

Disjoint(S, T, U) == S \cap T = {} /\ U = S \cup T

\* A sum over two disjoint sets.
LEMMA SumSplit ==
    ASSUME NEW S, IsFiniteSet(S), NEW T, IsFiniteSet(T), NEW U, Disjoint(S, T, U),
           NEW f \in [S -> Nat], NEW g \in [T -> Nat], NEW h \in [U -> Nat],
           \A x \in S : h[x] = f[x], \A x \in T : h[x] = g[x]
    PROVE  SumFunction(h) = SumFunction(f) + SumFunction(g)
<1>0. S \cap T = {} /\ U = S \cup T
  BY DEF Disjoint
<1>1. IsFiniteSet(U)
  <2>1. IsFiniteSet(S \cup T)
    BY FS_Union
  <2> QED BY <1>0, <2>1, Zenon
<1>2. /\ SumFunction(f) = Cardinality(Units(f, S)) /\ SumFunction(g) = Cardinality(Units(g, T))
      /\ SumFunction(h) = Cardinality(Units(h, U))
  BY <1>1, SumCounts
<1>3. \A x \in S \cup T : h[x] \in Nat
  BY <1>0
<1>4. Cardinality(Units(h, S \cup T)) = Cardinality(Units(h, S)) + Cardinality(Units(h, T))
  BY ONLY <1>0, <1>3, UnitsSplit, IsFiniteSet(S), IsFiniteSet(T)
<1>5. Units(h, S) = Units(f, S) /\ Units(h, T) = Units(g, T)
  BY <1>0 DEF Units
<1> QED BY <1>0, <1>2, <1>4, <1>5, Zenon

\* Sums grow with what is added up.
LEMMA SumMonotone ==
    ASSUME NEW S, IsFiniteSet(S), NEW f \in [S -> Nat], NEW g \in [S -> Nat],
           \A x \in S : f[x] <= g[x]
    PROVE  SumFunction(f) <= SumFunction(g)
<1>1. SumFunction(f) = Cardinality(Units(f, S)) /\ SumFunction(g) = Cardinality(Units(g, S))
  BY SumCounts
<1>2. Units(f, S) \subseteq Units(g, S)
  BY DEF Units
<1>3. IsFiniteSet(Units(g, S))
  BY UnitsFinite
<1>4. Cardinality(Units(f, S)) <= Cardinality(Units(g, S))
  BY <1>2, <1>3, FS_Subset
<1> QED BY <1>1, <1>4

\* Nothing adds up to nothing.
LEMMA SumNothing ==
    ASSUME NEW S, IsFiniteSet(S), NEW f \in [S -> Nat], \A x \in S : f[x] = 0
    PROVE  SumFunction(f) = 0
<1>1. SumFunction(f) = Cardinality(Units(f, S))
  BY SumCounts
<1>2. Units(f, S) = {}
  BY DEF Units
<1>3. Cardinality(Units(f, S)) = Cardinality({})
  BY <1>2, Zenon
<1> QED BY <1>1, <1>3, FS_EmptySet

\* The sum of sums.
LEMMA SumAdded ==
    ASSUME NEW S, IsFiniteSet(S), NEW f \in [S -> Nat], NEW g \in [S -> Nat], NEW h \in [S -> Nat],
           \A x \in S : h[x] = f[x] + g[x]
    PROVE  SumFunction(h) = SumFunction(f) + SumFunction(g)
<1> DEFINE Rest == {u \in S \X Nat : f[u[1]] < u[2] /\ u[2] <= h[u[1]]}
           up == [u \in Units(g, S) |-> <<u[1], u[2] + f[u[1]]>>]
           A == Units(f, S)
           B == Units(g, S)
           C == Units(h, S)
<1>1. SumFunction(f) = Cardinality(A) /\ SumFunction(g) = Cardinality(B)
      /\ SumFunction(h) = Cardinality(C)
  BY SumCounts
<1>2. IsFiniteSet(A) /\ IsFiniteSet(B)
  BY UnitsFinite
<1>3. \A u \in B : u[1] \in S /\ u[2] \in Nat /\ u = <<u[1], u[2]>> /\ u[2] >= 1 /\ u[2] <= g[u[1]]
  BY DEF Units
<1>4. up \in [B -> Rest]
  <2>1. ASSUME NEW u \in B PROVE <<u[1], u[2] + f[u[1]]>> \in Rest
    BY <1>3
  <2> QED BY <2>1
<1>5. \A u, v \in B : up[u] = up[v] => u = v
  <2>1. ASSUME NEW u \in B, NEW v \in B, up[u] = up[v] PROVE u = v
    <3>1. u[1] = v[1] /\ u[2] + f[u[1]] = v[2] + f[v[1]]
      BY <2>1
    <3>2. f[u[1]] \in Nat /\ u[2] \in Nat /\ v[2] \in Nat
      BY <1>3
    <3>3. u[2] = v[2]
      BY <3>1, <3>2
    <3> QED BY <1>3, <3>1, <3>3
  <2> QED BY <2>1
<1>6. \A w \in Rest : \E u \in B : up[u] = w
  <2>1. ASSUME NEW w \in Rest PROVE \E u \in B : up[u] = w
    <3>1. /\ w[1] \in S /\ w[2] \in Nat /\ w = <<w[1], w[2]>>
          /\ f[w[1]] \in Nat /\ g[w[1]] \in Nat /\ f[w[1]] < w[2] /\ w[2] <= f[w[1]] + g[w[1]]
      OBVIOUS
    <3>2. <<w[1], w[2] - f[w[1]]>> \in B
      BY <3>1 DEF Units
    <3>3. up[<<w[1], w[2] - f[w[1]]>>] = w
      BY <3>1, <3>2
    <3> QED BY <3>2, <3>3
  <2> QED BY <2>1
<1>7. up \in Bijection(B, Rest)
  BY <1>4, <1>5, <1>6 DEF Bijection, Injection, Surjection, IsInjective
<1>8. IsFiniteSet(Rest) /\ Cardinality(Rest) = Cardinality(B)
  <2>1. ExistsBijection(B, Rest)
    BY <1>7 DEF ExistsBijection
  <2> HIDE DEF B, Rest
  <2> QED BY <1>2, <2>1, FS_Bijection
<1>9. C = A \cup Rest
  BY DEF Units
<1>10. A \cap Rest = {}
  BY DEF Units
<1>11. Cardinality(A) \in Nat /\ Cardinality(B) \in Nat
  BY <1>2, FS_CardinalityType
<1> HIDE DEF A, B, C, Rest
<1>12. Cardinality(A \cup Rest) = Cardinality(A) + Cardinality(Rest) - Cardinality(A \cap Rest)
  BY <1>2, <1>8, FS_Union
<1>13. Cardinality(A \cap Rest) = 0
  BY <1>10, FS_EmptySet
<1>14. Cardinality(C) = Cardinality(A \cup Rest)
  BY <1>9, Zenon
<1> QED BY <1>1, <1>8, <1>11, <1>12, <1>13, <1>14

\* The sum of one number.
LEMMA SumSingle ==
    ASSUME NEW x, NEW f \in [{x} -> Nat]
    PROVE  SumFunction(f) = f[x]
<1>1. IsFiniteSet({x}) /\ f[x] \in Nat
  BY FS_Singleton
<1>2. SumFunction(f) = Cardinality(Units(f, {x}))
  BY <1>1, SumCounts
<1> QED BY <1>1, <1>2, UnitsOfOne

\* One number grows.
LEMMA SumBumped ==
    ASSUME NEW S, IsFiniteSet(S), NEW f \in [S -> Nat], NEW g \in [S -> Nat], NEW o \in S,
           NEW n \in Nat, g[o] = f[o] + n, \A x \in S : x # o => g[x] = f[x]
    PROVE  SumFunction(g) = SumFunction(f) + n
<1>1. PICK t \in SUBSET S : Without(S, o, t)
  BY DEF Without
<1>2. /\ Cardinality(Units(f, S)) = f[o] + Cardinality(Units(f, t))
      /\ Cardinality(Units(g, S)) = g[o] + Cardinality(Units(g, t))
  BY <1>1, TakeOne
<1>3. Units(f, t) = Units(g, t)
  BY <1>1 DEF Units, Without
<1>4. Cardinality(Units(f, t)) = Cardinality(Units(g, t))
  BY <1>3, Zenon
<1>5. Cardinality(Units(f, t)) \in Nat
  <2>1. IsFiniteSet(t)
    BY FS_Subset
  <2>2. IsFiniteSet(Units(f, t))
    BY <2>1, UnitsFinite
  <2> QED BY <2>2, FS_CardinalityType
<1>6. /\ SumFunction(f) = Cardinality(Units(f, S))
      /\ SumFunction(g) = Cardinality(Units(g, S))
  BY SumCounts
<1> QED BY <1>2, <1>4, <1>5, <1>6
=============================================================================
