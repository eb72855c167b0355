--------------------------- MODULE TimelineProofs ---------------------------
(***************************************************************************)
(* What is proved of the timeline, for every instance.  History: what a    *)
(* TimelineEventHistory keeps is within its policy and is the newest of    *)
(* what was added, only the oldest is ever dropped, and the lookups agree  *)
(* with each other.  Collection: in the polling loop an event never bears  *)
(* a stale name, and dropping what was seen before never loses a new       *)
(* total.                                                                  *)
(***************************************************************************)
EXTENDS TimelineEventHistory, TimelinePipeline, FiniteSetTheorems, TLAPS

-----------------------------------------------------------------------------
(* Elements in order.                                                      *)

\* R is a strict total order on S.
StrictOrder(R, S) ==
    /\ \A x \in S : <<x, x>> \notin R
    /\ \A x, y \in S : x # y => <<x, y>> \in R \/ <<y, x>> \in R
    /\ \A x, y, z \in S : <<x, y>> \in R /\ <<y, z>> \in R => <<x, z>> \in R

\* Fewer come before what comes before.
LEMMA BelowCounts ==
    ASSUME NEW S, IsFiniteSet(S), NEW R, StrictOrder(R, S)
    PROVE  /\ \A x \in S : Cardinality(Below(x, S, R)) \in 0..(Cardinality(S) - 1)
           /\ \A x, y \in S : <<x, y>> \in R =>
                 Cardinality(Below(x, S, R)) < Cardinality(Below(y, S, R))
<1>0. Cardinality(S) \in Nat
  BY FS_CardinalityType
<1>1. ASSUME NEW x \in S
      PROVE  /\ IsFiniteSet(Below(x, S, R)) /\ Cardinality(Below(x, S, R)) \in Nat
             /\ Cardinality(Below(x, S, R)) < Cardinality(S)
  <2>1. Below(x, S, R) \in SUBSET S /\ Below(x, S, R) # S
    BY DEF Below, StrictOrder
  <2>2. IsFiniteSet(Below(x, S, R)) /\ Cardinality(Below(x, S, R)) <= Cardinality(S)
        /\ Cardinality(S) # Cardinality(Below(x, S, R))
    BY <2>1, FS_Subset
  <2> QED BY <1>0, <2>2, FS_CardinalityType
<1>2. ASSUME NEW x \in S, NEW y \in S, <<x, y>> \in R
      PROVE  Cardinality(Below(x, S, R)) < Cardinality(Below(y, S, R))
  <2>1. Below(x, S, R) \in SUBSET Below(y, S, R) /\ Below(x, S, R) # Below(y, S, R)
    <3>1. \A z \in Below(x, S, R) : z \in Below(y, S, R)
      BY <1>2 DEF Below, StrictOrder
    <3>2. x \in Below(y, S, R) /\ x \notin Below(x, S, R)
      BY <1>2 DEF Below, StrictOrder
    <3> QED BY <3>1, <3>2
  <2>2. Cardinality(Below(x, S, R)) <= Cardinality(Below(y, S, R))
        /\ Cardinality(Below(y, S, R)) # Cardinality(Below(x, S, R))
    BY <1>1, <2>1, FS_Subset
  <2> QED BY <1>1, <2>2
<1> QED BY <1>0, <1>1, <1>2

\* InOrder lists every element once, and so that as many come before it in the
\* list as come before it in the order.
LEMMA InOrderLists ==
    ASSUME NEW S, IsFiniteSet(S), NEW R, StrictOrder(R, S)
    PROVE  /\ InOrder(S, R) \in [1..Cardinality(S) -> S]
           /\ \A k \in 1..Cardinality(S) : Cardinality(Below(InOrder(S, R)[k], S, R)) = k - 1
           /\ \A x \in S : /\ Cardinality(Below(x, S, R)) + 1 \in 1..Cardinality(S)
                           /\ InOrder(S, R)[Cardinality(Below(x, S, R)) + 1] = x
<1> DEFINE n == Cardinality(S)
           place == [x \in S |-> Cardinality(Below(x, S, R)) + 1]
<1>0. n \in Nat /\ IsFiniteSet(1..n) /\ Cardinality(1..n) = n
  BY FS_CardinalityType, FS_Interval
<1>1. \A x \in S : Cardinality(Below(x, S, R)) \in 0..(n - 1)
  BY BelowCounts
<1>2. place \in [S -> 1..n]
  BY <1>0, <1>1
<1>3. \A x, y \in S : place[x] = place[y] => x = y
  <2>1. \A x, y \in S : <<x, y>> \in R => place[x] < place[y]
    BY <1>0, <1>1, BelowCounts
  <2>2. ASSUME NEW x \in S, NEW y \in S, place[x] = place[y], x # y PROVE FALSE
    <3>1. place[x] \in Int /\ ~(place[x] < place[y]) /\ ~(place[y] < place[x])
      BY <1>2, <2>2
    <3>2. <<x, y>> \in R \/ <<y, x>> \in R
      BY <2>2 DEF StrictOrder
    <3> QED BY <2>1, <3>1, <3>2
  <2> QED BY <2>2
<1> HIDE DEF place
<1>4. place \in Surjection(S, 1..n)
  <2>1. place \in Injection(S, 1..n)
    BY <1>2, <1>3 DEF Injection, IsInjective
  <2> QED BY <1>0, <2>1, FS_Injection
<1>5. \A k \in 1..n : \E x \in S : place[x] = k
  BY <1>4 DEF Surjection
<1>6. ASSUME NEW k \in 1..n
      PROVE  InOrder(S, R)[k] \in S /\ Cardinality(Below(InOrder(S, R)[k], S, R)) = k - 1
  <2>1. PICK x \in S : Cardinality(Below(x, S, R)) = k - 1
    BY <1>0, <1>1, <1>5 DEF place
  <2>2. InOrder(S, R)[k] = CHOOSE y \in S : Cardinality(Below(y, S, R)) = k - 1
    BY DEF InOrder
  <2> QED BY <2>1, <2>2
<1>7. InOrder(S, R) \in [1..n -> S]
  BY <1>6 DEF InOrder
<1>8. ASSUME NEW x \in S
      PROVE  Cardinality(Below(x, S, R)) + 1 \in 1..n
             /\ InOrder(S, R)[Cardinality(Below(x, S, R)) + 1] = x
  <2>1. place[x] \in 1..n /\ place[x] = Cardinality(Below(x, S, R)) + 1
    BY <1>2 DEF place
  <2>2. InOrder(S, R)[place[x]] \in S
        /\ Cardinality(Below(InOrder(S, R)[place[x]], S, R)) = place[x] - 1
    BY <1>6, <2>1
  <2>3. place[InOrder(S, R)[place[x]]] = place[x]
    BY <1>0, <2>1, <2>2 DEF place
  <2> QED BY <1>3, <2>1, <2>2, <2>3
<1> QED BY <1>6, <1>7, <1>8

\* The list is in order.
LEMMA InOrderSorted ==
    ASSUME NEW S, IsFiniteSet(S), NEW R, StrictOrder(R, S),
           NEW a \in 1..Cardinality(S), NEW b \in 1..Cardinality(S)
    PROVE  /\ a < b => <<InOrder(S, R)[a], InOrder(S, R)[b]>> \in R
           /\ InOrder(S, R)[a] = InOrder(S, R)[b] => a = b
<1> DEFINE x == InOrder(S, R)[a]
           y == InOrder(S, R)[b]
<1>1. /\ x \in S /\ Cardinality(Below(x, S, R)) = a - 1
      /\ y \in S /\ Cardinality(Below(y, S, R)) = b - 1
  <2>1. /\ InOrder(S, R) \in [1..Cardinality(S) -> S]
        /\ \A k \in 1..Cardinality(S) : Cardinality(Below(InOrder(S, R)[k], S, R)) = k - 1
    BY InOrderLists
  <2> QED BY <2>1
<1> HIDE DEF x, y
<1>2. x = y => a = b
  BY <1>1
<1>3. <<y, x>> \in R => b - 1 < a - 1
  BY <1>1, BelowCounts
<1>4. a < b => <<x, y>> \in R
  <2>1. Cardinality(S) \in Nat
    BY FS_CardinalityType
  <2>2. a \in Int /\ b \in Int
    BY <2>1
  <2>3. ASSUME a < b PROVE x # y /\ ~(b - 1 < a - 1)
    BY <1>2, <2>2, <2>3
  <2>4. ASSUME x # y PROVE <<x, y>> \in R \/ <<y, x>> \in R
    BY <1>1, <2>4 DEF StrictOrder
  <2> QED BY <1>3, <2>3, <2>4
<1> QED BY <1>2, <1>4 DEF x, y

\* Every sorted list of all elements is this one.
LEMMA OneOrder ==
    ASSUME NEW S, IsFiniteSet(S), NEW R, StrictOrder(R, S), NEW n \in Nat,
           NEW t \in [1..n -> S], \A x \in S : \E k \in 1..n : t[k] = x,
           \A a, b \in 1..n : a < b => <<t[a], t[b]>> \in R
    PROVE  n = Cardinality(S) /\ t = InOrder(S, R)
<1>1. \A a, b \in 1..n : t[a] = t[b] => a = b
  <2> SUFFICES ASSUME NEW a \in 1..n, NEW b \in 1..n, t[a] = t[b], a # b PROVE FALSE
    OBVIOUS
  <2>1. a < b \/ b < a
    OBVIOUS
  <2>2. <<t[a], t[a]>> \in R /\ t[a] \in S
    BY <2>1
  <2> QED BY <2>2 DEF StrictOrder
<1>2. t \in Bijection(1..n, S)
  BY <1>1 DEF Bijection, Injection, Surjection, IsInjective
<1>3. IsFiniteSet(1..n) /\ Cardinality(1..n) = n
  BY FS_Interval
<1>4. n = Cardinality(S)
  BY <1>2, <1>3, FS_Bijection DEF ExistsBijection
<1>5. ASSUME NEW k \in 1..n PROVE t[k] = InOrder(S, R)[k]
  <2> DEFINE B == Below(t[k], S, R)
             u == [j \in 1..(k - 1) |-> t[j]]
  <2>0. \A j \in 1..(k - 1) : j \in 1..n /\ j < k
    OBVIOUS
  <2>1. u \in [1..(k - 1) -> B]
    BY <2>0 DEF Below
  <2>2. \A i, j \in 1..(k - 1) : u[i] = u[j] => i = j
    BY <1>1, <2>0
  <2>3. \A y \in B : \E j \in 1..(k - 1) : u[j] = y
    <3> SUFFICES ASSUME NEW y \in B PROVE \E j \in 1..(k - 1) : u[j] = y
      OBVIOUS
    <3>1. y \in S /\ <<y, t[k]>> \in R
      BY DEF Below
    <3>2. PICK j \in 1..n : t[j] = y
      BY <3>1
    <3>3. ~(k < j) /\ j # k
      <4>1. t[k] \in S
        OBVIOUS
      <4> QED BY <3>1, <3>2, <4>1 DEF StrictOrder
    <3>4. j \in 1..(k - 1)
      BY <3>3
    <3> QED BY <3>2, <3>4
  <2>4. u \in Bijection(1..(k - 1), B)
    <3> HIDE DEF u, B
    <3> QED BY <2>1, <2>2, <2>3 DEF Bijection, Injection, Surjection, IsInjective
  <2>5. IsFiniteSet(1..(k - 1)) /\ Cardinality(1..(k - 1)) = k - 1
    BY FS_Interval
  <2>6. Cardinality(B) = k - 1
    <3> HIDE DEF u, B
    <3> QED BY <2>4, <2>5, FS_Bijection DEF ExistsBijection
  <2>7. t[k] \in S
    OBVIOUS
  <2>8. InOrder(S, R)[Cardinality(Below(t[k], S, R)) + 1] = t[k]
    BY <2>7, InOrderLists
  <2> QED BY <2>6, <2>8
<1>6. InOrder(S, R) \in [1..n -> S]
  BY <1>4, InOrderLists
<1> QED BY <1>4, <1>5, <1>6

-----------------------------------------------------------------------------
(* Parts of a sequence.                                                    *)

\* The members of a sequence.
Members(s) == {s[i] : i \in DOMAIN s}

\* There are n numbers up to n.
LEMMA UpTo ==
    ASSUME NEW n \in Nat
    PROVE  IsFiniteSet(1..n) /\ Cardinality(1..n) = n
  BY FS_Interval

\* Indices are in order.
LEMMA AscendingOrders ==
    ASSUME NEW I, I \subseteq Nat
    PROVE  StrictOrder(Ascending(I), I)
<1>1. \A i, j \in I : <<i, j>> \in Ascending(I) <=> i < j
  BY DEF Ascending
<1>2. \A i \in I : i \in Nat
  OBVIOUS
<1> QED BY <1>1, <1>2 DEF StrictOrder

\* What is selected are the members at the indices given, in their order.
LEMMA SelectedParts ==
    ASSUME NEW S, NEW s \in Seq(S), NEW I, I \subseteq DOMAIN s
    PROVE  /\ Cardinality(I) \in Nat /\ Cardinality(I) <= Len(s)
           /\ Selected(s, I) \in Seq(S) /\ Len(Selected(s, I)) = Cardinality(I)
           /\ Members(Selected(s, I)) = {s[i] : i \in I}
           /\ \A a, b \in DOMAIN Selected(s, I) : a < b =>
                 \E i, j \in I : i < j /\ Selected(s, I)[a] = s[i] /\ Selected(s, I)[b] = s[j]
<1> DEFINE n == Cardinality(I)
           order == InOrder(I, Ascending(I))
           t == Selected(s, I)
<1>0. Len(s) \in Nat /\ DOMAIN s = 1..Len(s) /\ \A i \in DOMAIN s : s[i] \in S
  OBVIOUS
<1>1. IsFiniteSet(I) /\ n \in Nat /\ n <= Len(s)
  <2>1. IsFiniteSet(1..Len(s)) /\ Cardinality(1..Len(s)) = Len(s)
    BY <1>0, UpTo
  <2>2. I \in SUBSET (1..Len(s))
    BY <1>0
  <2> QED BY <2>1, <2>2, FS_Subset, FS_CardinalityType
<1>2. StrictOrder(Ascending(I), I)
  BY <1>0, AscendingOrders
<1>3. /\ order \in [1..n -> I]
      /\ \A i \in I : \E k \in 1..n : order[k] = i
      /\ \A a, b \in 1..n : a < b => <<order[a], order[b]>> \in Ascending(I)
  <2>1. order \in [1..n -> I]
    BY <1>1, <1>2, InOrderLists
  <2>2. \A i \in I : \E k \in 1..n : order[k] = i
    BY <1>1, <1>2, InOrderLists
  <2>3. \A a, b \in 1..n : a < b => <<order[a], order[b]>> \in Ascending(I)
    BY <1>1, <1>2, InOrderSorted
  <2> QED BY <2>1, <2>2, <2>3
<1>4. DOMAIN t = 1..n /\ t = [k \in 1..n |-> s[order[k]]] /\ \A k \in 1..n : t[k] = s[order[k]]
  BY <1>3 DEF Selected
<1> HIDE DEF t, order, n
<1>5. t \in Seq(S) /\ Len(t) = n
  <2>1. \A k \in 1..n : t[k] \in S
    BY <1>0, <1>3, <1>4
  <2> QED BY <1>1, <1>4, <2>1
<1>6. Members(t) = {s[i] : i \in I}
  BY <1>3, <1>4 DEF Members
<1>7. ASSUME NEW a \in DOMAIN t, NEW b \in DOMAIN t, a < b
      PROVE  \E i, j \in I : i < j /\ t[a] = s[i] /\ t[b] = s[j]
  <2>1. order[a] \in I /\ order[b] \in I /\ <<order[a], order[b]>> \in Ascending(I)
    BY <1>3, <1>4, <1>7
  <2>2. order[a] < order[b]
    BY <2>1 DEF Ascending
  <2> QED BY <1>4, <2>1, <2>2
<1> QED BY <1>1, <1>5, <1>6, <1>7 DEF t, n

\* The newest are the last ones.
LEMMA NewestParts ==
    ASSUME NEW S, NEW s \in Seq(S), NEW n \in Nat
    PROVE  /\ Newest(s, n) \in Seq(S)
           /\ Len(Newest(s, n)) = IF n >= Len(s) THEN Len(s) ELSE n
           /\ \A k \in DOMAIN Newest(s, n) :
                 /\ k + Len(s) - Len(Newest(s, n)) \in DOMAIN s
                 /\ Newest(s, n)[k] = s[k + Len(s) - Len(Newest(s, n))]
<1>1. CASE n >= Len(s)
  BY <1>1 DEF Newest
<1>2. CASE ~(n >= Len(s))
  <2>1. Newest(s, n) = SubSeq(s, Len(s) - n + 1, Len(s))
    BY <1>2 DEF Newest
  <2>2. PICK l \in Nat : l = Len(s) /\ DOMAIN s = 1..l /\ n < l
    BY <1>2
  <2>3. PICK t : t = Newest(s, n)
    OBVIOUS
  <2>4. t \in Seq(S) /\ Len(t) = n /\ DOMAIN t = 1..n
    BY <2>1, <2>2, <2>3
  <2>5. ASSUME NEW k \in 1..n PROVE k + l - n \in 1..l /\ t[k] = s[k + l - n]
    <3>1. k + l - n \in 1..l /\ l - n + 1 \in 1..l /\ (l - n + 1) + k - 1 = k + l - n
      BY <2>2
    <3>2. t = SubSeq(s, l - n + 1, l)
      BY <2>1, <2>2, <2>3
    <3>3. t[k] = s[(l - n + 1) + k - 1]
      BY <2>2, <3>2
    <3> QED BY <3>1, <3>3
  <2> QED BY <1>2, <2>2, <2>3, <2>4, <2>5
<1> QED BY <1>1, <1>2

-----------------------------------------------------------------------------
(* Chronological order.  The number of an event, which stands for when it  *)
(* was added, makes it total.                                              *)

IsEvent(e) ==
    e.timestamp \in Nat /\ e.pid \in Nat /\ TypeNumber[e.type] \in Nat /\ e.id \in Nat

Before(e, f) == earlierThan(e, f) \/ (~earlierThan(f, e) /\ e.id < f.id)

\* Events told apart by their numbers.
Numbered(E) == (\A e \in E : IsEvent(e)) /\ (\A e, f \in E : e.id = f.id => e = f)

Chronology(E) == {p \in E \X E : Before(p[1], p[2])}

\* The timeline of a set of events.
Chronicle(E) == InOrder(E, Chronology(E))

\* s lists every event once, and simultaneous ones as they were added.
Consistent(s) ==
    /\ s \in Seq(Members(s))
    /\ Numbered(Members(s))
    /\ \A i, j \in DOMAIN s : i < j =>
          /\ s[i].id # s[j].id
          /\ earlierThan(s[i], s[j]) \/ earlierThan(s[j], s[i]) \/ s[i].id < s[j].id

\* Before is a strict total order.
LEMMA BeforeOrders ==
    ASSUME NEW e, IsEvent(e), NEW f, IsEvent(f), NEW g, IsEvent(g)
    PROVE  /\ ~Before(e, e)
           /\ Before(e, f) => ~Before(f, e)
           /\ e.id # f.id => Before(e, f) \/ Before(f, e)
           /\ Before(e, f) /\ Before(f, g) => Before(e, g)
  BY DEF IsEvent, Before, earlierThan

\* So is the chronology.
LEMMA ChronologyOrders ==
    ASSUME NEW E, Numbered(E)
    PROVE  StrictOrder(Chronology(E), E)
<1>1. \A e, f \in E : <<e, f>> \in Chronology(E) <=> Before(e, f)
  BY DEF Chronology
<1>2. \A e \in E : IsEvent(e)
  BY DEF Numbered
<1>3. \A e, f \in E : e # f => e.id # f.id
  BY DEF Numbered
<1>4. /\ \A e \in E : ~Before(e, e)
      /\ \A e, f \in E : e # f => Before(e, f) \/ Before(f, e)
      /\ \A e, f, g \in E : Before(e, f) /\ Before(f, g) => Before(e, g)
  BY <1>2, <1>3, BeforeOrders
<1> QED BY <1>1, <1>4 DEF StrictOrder

\* A consistent sequence lists each of its members once.
LEMMA MembersCounted ==
    ASSUME NEW s, Consistent(s)
    PROVE  /\ Len(s) \in Nat /\ DOMAIN s = 1..Len(s)
           /\ IsFiniteSet(Members(s)) /\ Cardinality(Members(s)) = Len(s)
           /\ \A i, j \in DOMAIN s : s[i] = s[j] => i = j
<1>1. Len(s) \in Nat /\ DOMAIN s = 1..Len(s) /\ s \in [DOMAIN s -> Members(s)]
  <2>1. s \in Seq(Members(s))
    BY DEF Consistent
  <2> QED BY <2>1
<1>2. \A i, j \in DOMAIN s : s[i] = s[j] => i = j
  <2> SUFFICES ASSUME NEW i \in DOMAIN s, NEW j \in DOMAIN s, s[i] = s[j], i # j PROVE FALSE
    OBVIOUS
  <2>1. i < j \/ j < i
    BY <1>1
  <2>2. \A k, l \in DOMAIN s : k < l => s[k].id # s[l].id
    BY DEF Consistent
  <2> QED BY <2>1, <2>2
<1>3. s \in Bijection(DOMAIN s, Members(s))
  BY <1>1, <1>2 DEF Bijection, Injection, Surjection, IsInjective, Members
<1>4. IsFiniteSet(DOMAIN s) /\ Cardinality(DOMAIN s) = Len(s)
  BY <1>1, UpTo
<1>5. IsFiniteSet(Members(s)) /\ Cardinality(Members(s)) = Len(s)
  <2>1. ExistsBijection(DOMAIN s, Members(s))
    BY <1>3 DEF ExistsBijection
  <2> QED BY <1>4, <2>1, FS_Bijection
<1> QED BY <1>1, <1>2, <1>5

\* Whatever the order of a consistent sequence, sorting it gives the timeline
\* of its members.
LEMMA SortGivesChronicle ==
    ASSUME NEW s, Consistent(s)
    PROVE  StableSort(s) = Chronicle(Members(s))
<1> DEFINE D == DOMAIN s
           E == Members(s)
           n == Len(s)
           order == InOrder(D, SortOrder(s))
           t == StableSort(s)
<1>1. /\ n \in Nat /\ D = 1..n /\ IsFiniteSet(E) /\ Cardinality(E) = n
      /\ IsFiniteSet(D) /\ Cardinality(D) = n
  BY MembersCounted, UpTo
<1>2. Numbered(E) /\ \A i \in D : s[i] \in E /\ IsEvent(s[i])
  BY DEF Consistent, Numbered, Members
<1>3. \A i, j \in D : <<i, j>> \in SortOrder(s) <=> Before(s[i], s[j])
  <2> SUFFICES ASSUME NEW i \in D, NEW j \in D
               PROVE  <<i, j>> \in SortOrder(s) <=> Before(s[i], s[j])
    OBVIOUS
  <2>1. <<i, j>> \in SortOrder(s) <=>
            earlierThan(s[i], s[j]) \/ (~earlierThan(s[j], s[i]) /\ i < j)
    BY DEF SortOrder
  <2>2. /\ i < j => earlierThan(s[i], s[j]) \/ earlierThan(s[j], s[i]) \/ s[i].id < s[j].id
        /\ j < i => earlierThan(s[i], s[j]) \/ earlierThan(s[j], s[i]) \/ s[j].id < s[i].id
    BY DEF Consistent
  <2>3. i \in Nat /\ j \in Nat /\ s[i].id \in Nat /\ s[j].id \in Nat
    BY <1>1, <1>2 DEF IsEvent
  <2>4. i < j \/ j < i \/ i = j
    BY <2>3
  <2> QED BY <2>1, <2>2, <2>3, <2>4 DEF Before
<1>4. StrictOrder(SortOrder(s), D)
  <2>1. StrictOrder(Chronology(E), E)
    BY <1>2, ChronologyOrders
  <2>2. \A i, j \in D : i # j => s[i] # s[j]
    BY MembersCounted
  <2>3. \A i, j \in D : <<i, j>> \in SortOrder(s) <=> <<s[i], s[j]>> \in Chronology(E)
    BY <1>2, <1>3 DEF Chronology
  <2> HIDE DEF D, E
  <2> QED BY <1>2, <2>1, <2>2, <2>3 DEF StrictOrder
<1>5. /\ order \in [1..n -> D]
      /\ \A i \in D : \E k \in 1..n : order[k] = i
      /\ \A a, b \in 1..n : a < b => <<order[a], order[b]>> \in SortOrder(s)
  <2>0. Cardinality(D) = n /\ IsFiniteSet(D) /\ StrictOrder(SortOrder(s), D)
    BY <1>1, <1>4
  <2> HIDE DEF D, n
  <2>1. order \in [1..n -> D] /\ \A i \in D : \E k \in 1..n : order[k] = i
    BY <2>0, InOrderLists
  <2>2. \A a, b \in 1..n : a < b => <<order[a], order[b]>> \in SortOrder(s)
    BY <2>0, InOrderSorted
  <2> QED BY <2>1, <2>2
<1>6. t = [k \in 1..n |-> s[order[k]]] /\ \A k \in 1..n : t[k] = s[order[k]]
  BY <1>1, <1>5 DEF StableSort
<1> HIDE DEF order, t
<1>7. t \in [1..n -> E]
  BY <1>2, <1>5, <1>6
<1>8. \A e \in E : \E k \in 1..n : t[k] = e
  BY <1>5, <1>6 DEF Members
<1>9. \A a, b \in 1..n : a < b => <<t[a], t[b]>> \in Chronology(E)
  <2> SUFFICES ASSUME NEW a \in 1..n, NEW b \in 1..n, a < b
               PROVE  <<t[a], t[b]>> \in Chronology(E)
    OBVIOUS
  <2>1. order[a] \in D /\ order[b] \in D /\ Before(s[order[a]], s[order[b]])
    BY <1>3, <1>5
  <2>2. t[a] \in E /\ t[b] \in E /\ Before(t[a], t[b])
    BY <1>2, <1>6, <2>1
  <2> HIDE DEF E
  <2> QED BY <2>2 DEF Chronology
<1> HIDE DEF E, D, n
<1>10. t = InOrder(E, Chronology(E))
  BY <1>1, <1>2, <1>7, <1>8, <1>9, ChronologyOrders, OneOrder
<1> QED BY <1>10 DEF t, E, Chronicle

\* A timeline lists its events once each, in chronological order.
LEMMA ChronicleParts ==
    ASSUME NEW E, IsFiniteSet(E), Numbered(E)
    PROVE  /\ Cardinality(E) \in Nat
           /\ Chronicle(E) \in Seq(E) /\ Len(Chronicle(E)) = Cardinality(E)
           /\ Members(Chronicle(E)) = E
           /\ \A a, b \in DOMAIN Chronicle(E) :
                 a < b <=> Before(Chronicle(E)[a], Chronicle(E)[b])
<1> DEFINE n == Cardinality(E)
           t == Chronicle(E)
<1>1. StrictOrder(Chronology(E), E) /\ n \in Nat
  BY ChronologyOrders, FS_CardinalityType
<1>2. t \in [1..n -> E] /\ \A e \in E : \E k \in 1..n : t[k] = e
  BY <1>1, InOrderLists DEF Chronicle
<1>3. \A a, b \in 1..n : a < b => <<t[a], t[b]>> \in Chronology(E)
  BY <1>1, InOrderSorted DEF Chronicle
<1> HIDE DEF n, t
<1>4. t \in Seq(E) /\ Len(t) = n /\ DOMAIN t = 1..n
  BY <1>1, <1>2
<1>5. Members(t) = E
  BY <1>2, <1>4 DEF Members
<1>6. ASSUME NEW a \in 1..n, NEW b \in 1..n
      PROVE  a < b <=> Before(t[a], t[b])
  <2>1. a < b => Before(t[a], t[b])
    BY <1>3 DEF Chronology
  <2>2. b < a => Before(t[b], t[a])
    BY <1>3 DEF Chronology
  <2>3. IsEvent(t[a]) /\ IsEvent(t[b])
    BY <1>2 DEF Numbered
  <2>4. ~Before(t[a], t[a]) /\ (Before(t[a], t[b]) => ~Before(t[b], t[a]))
    BY <2>3, BeforeOrders
  <2>5. a < b \/ b < a \/ a = b
    BY <1>1
  <2>6. a < b => ~(b < a)
    BY <1>1
  <2> QED BY <2>1, <2>2, <2>4, <2>5, <2>6
<1> QED BY <1>1, <1>4, <1>5, <1>6 DEF n, t

\* A sequence in chronological order is consistent.
LEMMA SortedConsistent ==
    ASSUME NEW E, Numbered(E), NEW t \in Seq(E),
           \A a, b \in DOMAIN t : a < b => Before(t[a], t[b])
    PROVE  Consistent(t)
<1>1. Members(t) \subseteq E
  BY DEF Members
<1>2. t \in Seq(Members(t))
  <2>1. \A k \in 1..Len(t) : t[k] \in Members(t)
    BY DEF Members
  <2>2. Len(t) \in Nat /\ t = [k \in 1..Len(t) |-> t[k]]
    OBVIOUS
  <2> QED BY <2>1, <2>2
<1>3. Numbered(Members(t))
  BY <1>1 DEF Numbered
<1>4. ASSUME NEW a \in DOMAIN t, NEW b \in DOMAIN t, a < b
      PROVE  /\ t[a].id # t[b].id
             /\ earlierThan(t[a], t[b]) \/ earlierThan(t[b], t[a]) \/ t[a].id < t[b].id
  <2>1. t[a] \in E /\ t[b] \in E /\ Before(t[a], t[b])
    BY <1>4
  <2>2. t[a].id = t[b].id => t[a] = t[b]
    BY <2>1 DEF Numbered
  <2>3. IsEvent(t[a]) /\ ~Before(t[a], t[a])
    BY <2>1, BeforeOrders DEF Numbered
  <2>4. t[a].id # t[b].id
    BY <2>1, <2>2, <2>3
  <2> QED BY <2>1, <2>4 DEF Before
<1> QED BY <1>2, <1>3, <1>4 DEF Consistent

\* The timeline of events is the only sequence of them in chronological order.
LEMMA OneChronicle ==
    ASSUME NEW E, Numbered(E), IsFiniteSet(E), NEW t \in Seq(E), Members(t) = E,
           \A a, b \in DOMAIN t : a < b => Before(t[a], t[b])
    PROVE  t = Chronicle(E)
<1> DEFINE n == Len(t)
<1>1. n \in Nat /\ DOMAIN t = 1..n /\ t \in [1..n -> E]
  OBVIOUS
<1>2. \A e \in E : \E k \in 1..n : t[k] = e
  BY <1>1 DEF Members
<1>3. \A a, b \in 1..n : a < b => <<t[a], t[b]>> \in Chronology(E)
  BY <1>1 DEF Chronology
<1> HIDE DEF n
<1> QED BY <1>1, <1>2, <1>3, ChronologyOrders, OneOrder DEF Chronicle

\* A part of a consistent sequence is consistent, and in chronological order if
\* the whole one is.
LEMMA SelectedConsistent ==
    ASSUME NEW s, Consistent(s), NEW I, I \subseteq DOMAIN s
    PROVE  /\ Consistent(Selected(s, I))
           /\ (\A i, j \in DOMAIN s : i < j => Before(s[i], s[j])) =>
                 \A a, b \in DOMAIN Selected(s, I) :
                     a < b => Before(Selected(s, I)[a], Selected(s, I)[b])
<1> DEFINE t == Selected(s, I)
<1>1. s \in Seq(Members(s)) /\ Numbered(Members(s))
  BY DEF Consistent
<1>2. /\ t \in Seq(Members(s))
      /\ Members(t) = {s[i] : i \in I}
      /\ \A a, b \in DOMAIN t : a < b => \E i, j \in I : i < j /\ t[a] = s[i] /\ t[b] = s[j]
  BY <1>1, SelectedParts
<1> HIDE DEF t
<1>3. t \in Seq(Members(t))
  <2>1. \A k \in 1..Len(t) : t[k] \in Members(t)
    BY <1>2 DEF Members
  <2>2. Len(t) \in Nat /\ t = [k \in 1..Len(t) |-> t[k]]
    BY <1>2
  <2> QED BY <2>1, <2>2
<1>4. Numbered(Members(t))
  <2>1. Members(t) \subseteq Members(s)
    BY <1>2 DEF Members
  <2> QED BY <1>1, <2>1 DEF Numbered
<1>5. \A a, b \in DOMAIN t : a < b =>
          /\ t[a].id # t[b].id
          /\ earlierThan(t[a], t[b]) \/ earlierThan(t[b], t[a]) \/ t[a].id < t[b].id
  BY <1>2 DEF Consistent
<1>6. Consistent(t)
  BY <1>3, <1>4, <1>5 DEF Consistent
<1>7. ASSUME \A i, j \in DOMAIN s : i < j => Before(s[i], s[j]),
             NEW a \in DOMAIN t, NEW b \in DOMAIN t, a < b
      PROVE  Before(t[a], t[b])
  BY <1>2, <1>7
<1> QED BY <1>6, <1>7 DEF t

\* Events that are added are numbered on.
LEMMA ConcatConsistent ==
    ASSUME NEW s, Consistent(s), NEW m \in Nat, \A e \in Members(s) : e.id <= m,
           NEW b, b \in Seq(Members(b)),
           \A i \in DOMAIN b : IsEvent(b[i]) /\ b[i].id = m + i
    PROVE  /\ Consistent(s \o b)
           /\ Len(s \o b) = Len(s) + Len(b)
           /\ Members(s \o b) = Members(s) \cup Members(b)
           /\ \A e \in Members(s \o b) : e.id <= m + Len(b)
<1> DEFINE t == s \o b
           E == Members(s) \cup Members(b)
<1>1. /\ s \in Seq(Members(s)) /\ Numbered(Members(s)) /\ \A i \in DOMAIN s : s[i] \in Members(s)
      /\ \A i, j \in DOMAIN s : i < j =>
            /\ s[i].id # s[j].id
            /\ earlierThan(s[i], s[j]) \/ earlierThan(s[j], s[i]) \/ s[i].id < s[j].id
  BY DEF Consistent, Members
<1>2. \A i \in DOMAIN s : IsEvent(s[i]) /\ s[i].id \in Nat /\ s[i].id <= m
  BY <1>1 DEF Numbered, IsEvent
<1>3. /\ Len(s) \in Nat /\ DOMAIN s = 1..Len(s) /\ Len(b) \in Nat /\ DOMAIN b = 1..Len(b)
      /\ Len(t) = Len(s) + Len(b) /\ DOMAIN t = 1..(Len(s) + Len(b))
      /\ \A i \in DOMAIN t : t[i] = IF i <= Len(s) THEN s[i] ELSE b[i - Len(s)]
  BY <1>1
<1>4. t = [i \in 1..Len(t) |-> t[i]]
  <2>1. s \in Seq(E) /\ b \in Seq(E)
    BY <1>1
  <2>2. t \in Seq(E)
    <3> HIDE DEF E
    <3> QED BY <2>1
  <2> HIDE DEF t, E
  <2> QED BY <2>2
<1> HIDE DEF t
<1>5. ASSUME NEW i \in DOMAIN t
      PROVE  \/ i \in DOMAIN s /\ t[i] = s[i]
             \/ /\ i - Len(s) \in DOMAIN b /\ t[i] = b[i - Len(s)] /\ i > Len(s)
                /\ t[i].id = m + (i - Len(s)) /\ IsEvent(t[i])
  <2>1. CASE i <= Len(s)
    BY <1>3, <2>1
  <2>2. CASE ~(i <= Len(s))
    <3>1. i - Len(s) \in DOMAIN b /\ t[i] = b[i - Len(s)] /\ i > Len(s)
      BY <1>3, <2>2
    <3> QED BY <3>1
  <2> QED BY <2>1, <2>2
<1>6. ASSUME NEW i \in DOMAIN t, NEW j \in DOMAIN t, i < j
      PROVE  /\ t[i].id # t[j].id
             /\ earlierThan(t[i], t[j]) \/ earlierThan(t[j], t[i]) \/ t[i].id < t[j].id
  <2>0. i \in Nat /\ j \in Nat
    BY <1>3
  <2>1. CASE j <= Len(s)
    <3>1. i \in DOMAIN s /\ j \in DOMAIN s /\ t[i] = s[i] /\ t[j] = s[j]
      BY <1>3, <1>6, <2>1
    <3> QED BY <1>1, <1>6, <3>1
  <2>2. CASE ~(j <= Len(s))
    <3>1. t[j].id = m + (j - Len(s)) /\ j > Len(s)
      BY <1>3, <1>5, <2>2
    <3>2. \/ t[i].id \in Nat /\ t[i].id <= m
          \/ t[i].id = m + (i - Len(s))
      BY <1>2, <1>5
    <3> QED BY <1>3, <1>6, <2>0, <3>1, <3>2
  <2> QED BY <2>1, <2>2
<1>7. Members(t) = E
  <2>1. \A i \in DOMAIN t : t[i] \in E
    BY <1>5 DEF Members
  <2>2. \A i \in DOMAIN s : i \in DOMAIN t /\ t[i] = s[i]
    BY <1>3
  <2>3. \A i \in DOMAIN b : i + Len(s) \in DOMAIN t /\ t[i + Len(s)] = b[i]
    BY <1>3
  <2> QED BY <2>1, <2>2, <2>3 DEF Members
<1>8. \A i \in DOMAIN t : IsEvent(t[i]) /\ t[i].id <= m + Len(b)
  <2> SUFFICES ASSUME NEW i \in DOMAIN t PROVE IsEvent(t[i]) /\ t[i].id <= m + Len(b)
    OBVIOUS
  <2>1. CASE i \in DOMAIN s /\ t[i] = s[i]
    BY <1>2, <1>3, <2>1
  <2>2. CASE i - Len(s) \in DOMAIN b /\ t[i].id = m + (i - Len(s)) /\ IsEvent(t[i])
    BY <1>3, <2>2
  <2> QED BY <1>5, <2>1, <2>2
<1>9. Numbered(Members(t))
  <2>1. \A e \in Members(t) : IsEvent(e)
    BY <1>8 DEF Members
  <2>2. ASSUME NEW e \in Members(t), NEW f \in Members(t), e.id = f.id PROVE e = f
    <3>1. PICK i \in DOMAIN t, j \in DOMAIN t : e = t[i] /\ f = t[j]
      BY DEF Members
    <3>2. i < j \/ j < i \/ i = j
      BY <1>3
    <3> QED BY <1>6, <2>2, <3>1, <3>2
  <2> QED BY <2>1, <2>2 DEF Numbered
<1>10. t \in Seq(Members(t))
  <2>1. \A k \in 1..Len(t) : t[k] \in Members(t)
    BY <1>3 DEF Members
  <2>2. Len(t) \in Nat
    BY <1>3
  <2> QED BY <1>4, <2>1, <2>2
<1>11. Consistent(t)
  BY <1>6, <1>9, <1>10 DEF Consistent
<1>12. \A e \in Members(t) : e.id <= m + Len(b)
  BY <1>8 DEF Members
<1> QED BY <1>3, <1>7, <1>11, <1>12 DEF t

-----------------------------------------------------------------------------
(* History: enforcing the limits.                                          *)

Unexpired(es, age, now) == {e \in Members(es) : ~Expired(e, age, now)}

\* The last ones of a timeline, and what comes before them.
LEMMA LastOnes ==
    ASSUME NEW F, IsFiniteSet(F), Numbered(F), NEW limit \in Nat, limit < Cardinality(F),
           NEW c, c = Newest(Chronicle(F), limit)
    PROVE  /\ c \in Seq(F) /\ Len(c) = limit /\ Members(c) \subseteq F
           /\ \A a, b \in DOMAIN c : a < b => Before(c[a], c[b])
           /\ \A e \in F \ Members(c) : \A f \in Members(c) : Before(e, f)
<1> DEFINE C == Chronicle(F)
           n == Cardinality(F)
<1>1. /\ C \in Seq(F) /\ Len(C) = n /\ Members(C) = F /\ n \in Nat
      /\ \A a, b \in DOMAIN C : a < b <=> Before(C[a], C[b])
  BY ChronicleParts
<1>2. c = Newest(C, limit) /\ limit < n
  OBVIOUS
<1> HIDE DEF C, n
<1>3. /\ c \in Seq(F) /\ Len(c) = limit
      /\ \A k \in DOMAIN c : k + n - limit \in DOMAIN C /\ c[k] = C[k + n - limit]
  BY <1>1, <1>2, NewestParts
<1>4. DOMAIN C = 1..n /\ DOMAIN c = 1..limit
  BY <1>1, <1>3
<1>5. ASSUME NEW a \in DOMAIN c, NEW b \in DOMAIN c, a < b PROVE Before(c[a], c[b])
  <2>1. a + n - limit < b + n - limit
    BY <1>1, <1>4, <1>5
  <2> QED BY <1>1, <1>3, <2>1
<1>6. Members(c) \subseteq F
  BY <1>3 DEF Members
<1>7. ASSUME NEW e \in F \ Members(c), NEW f \in Members(c) PROVE Before(e, f)
  <2>1. PICK k \in DOMAIN C : C[k] = e
    BY <1>1 DEF Members
  <2>2. PICK j \in DOMAIN c : c[j] = f
    BY DEF Members
  <2>3. ~(k > n - limit)
    <3> SUFFICES ASSUME k > n - limit PROVE FALSE
      OBVIOUS
    <3>1. k - (n - limit) \in DOMAIN c /\ k - (n - limit) + n - limit = k
      BY <1>1, <1>2, <1>4
    <3>2. c[k - (n - limit)] = e
      BY <1>3, <2>1, <3>1
    <3> QED BY <3>1, <3>2 DEF Members
  <2>4. k < j + n - limit
    BY <1>1, <1>4, <2>3
  <2> QED BY <1>1, <1>3, <2>1, <2>2, <2>4
<1> QED BY <1>3, <1>5, <1>6, <1>7

\* What is left is not expired, no more than the limit allows, and what else
\* is not expired comes before all of it and found no room.
LEMMA CleanedParts ==
    ASSUME NEW es, Consistent(es), NEW limit \in Nat, NEW age, NEW now,
           NEW c, c = Cleaned(es, limit, age, now)
    PROVE  /\ Consistent(c)
           /\ Len(c) \in Nat /\ Len(c) <= limit
           /\ Members(c) \subseteq Unexpired(es, age, now)
           /\ \A e \in Unexpired(es, age, now) \ Members(c) :
                 Len(c) = limit /\ \A f \in Members(c) : Before(e, f)
<1> DEFINE F == Unexpired(es, age, now)
           fresh == Fresh(es, age, now)
           I == {i \in DOMAIN es : ~Expired(es[i], age, now)}
<1>1. Consistent(fresh) /\ Members(fresh) = F
  <2>1. Consistent(fresh)
    BY SelectedConsistent DEF Fresh
  <2>2. Members(fresh) = {es[i] : i \in I}
    BY SelectedParts DEF Fresh, Consistent
  <2> QED BY <2>1, <2>2 DEF Members, Unexpired
<1>2. /\ Len(fresh) \in Nat /\ IsFiniteSet(F) /\ Cardinality(F) = Len(fresh) /\ Numbered(F)
  BY <1>1, MembersCounted DEF Consistent
<1>3. c = IF Len(fresh) > limit THEN Newest(StableSort(fresh), limit) ELSE fresh
  BY DEF Cleaned
<1> HIDE DEF fresh, F
<1>4. CASE ~(Len(fresh) > limit)
  BY <1>1, <1>2, <1>3, <1>4 DEF F
<1>5. CASE Len(fresh) > limit
  <2>1. c = Newest(Chronicle(F), limit) /\ limit < Cardinality(F)
    BY <1>1, <1>2, <1>3, <1>5, SortGivesChronicle
  <2>2. /\ c \in Seq(F) /\ Len(c) = limit /\ Members(c) \subseteq F
        /\ \A a, b \in DOMAIN c : a < b => Before(c[a], c[b])
        /\ \A e \in F \ Members(c) : \A f \in Members(c) : Before(e, f)
    BY <1>2, <2>1, LastOnes
  <2>3. Consistent(c)
    BY <1>2, <2>2, SortedConsistent
  <2> QED BY <2>2, <2>3 DEF F
<1> QED BY <1>4, <1>5

-----------------------------------------------------------------------------
(* History: the inductive invariant.                                       *)

\* Of everything there is to compare with, the history holds what comes last;
\* what it does not hold found no room.
NewestKept ==
    /\ Members(events) \subseteq Members(reference)
    /\ \A e \in Members(reference) \ Members(events) :
          Len(events) = maxEvents /\ \A f \in Members(events) : Before(e, f)

HistoryInv ==
    /\ TypeOK
    /\ Consistent(events)
    /\ Consistent(reference)
    /\ \A e \in Members(reference) : e.id <= added
    /\ NewestKept

\* Events of a batch are numbered on from those added before.
LEMMA BatchParts ==
    ASSUME HistoryInv, NEW b \in Batches
    PROVE  /\ b \in Seq(Members(b)) /\ Len(b) \in Nat
           /\ Len(b) > 0
           /\ \A i \in DOMAIN b : IsEvent(b[i]) /\ b[i].id = added + i
<1>0. clock \in Nat /\ added \in Nat
  BY HistoryAssumption DEF HistoryInv, TypeOK
<1>1. PICK n \in 1..MaxBatch :
        /\ b \in [1..n -> UNION {Observed(added + i) : i \in 1..n}]
        /\ \A i \in 1..n : b[i].id = added + i
  BY DEF Batches
<1>2. n \in Nat /\ n > 0
  BY <1>1, HistoryAssumption
<1>3. ASSUME NEW i \in 1..n PROVE IsEvent(b[i])
  <2>1. PICK j \in 1..n : b[i] \in Observed(added + j)
    BY <1>1
  <2>2. PICK t \in 0..clock, s \in Sources :
          b[i] = [timestamp |-> t, pid |-> s.pid, name |-> s.name, type |-> s.type,
                  remote |-> s.remote, uploadedBytes |-> s.uploadedBytes,
                  downloadedBytes |-> s.downloadedBytes, description |-> s.description,
                  id |-> added + j]
    BY <2>1 DEF Observed
  <2>3. t \in Nat /\ added + j \in Nat /\ s.pid \in Nat /\ s.type \in DOMAIN TypeNumber
    BY <1>0, <1>2, HistoryAssumption
  <2>4. \A y \in DOMAIN TypeNumber : TypeNumber[y] \in Nat
    BY DEF TypeNumber
  <2>5. b[i].timestamp = t /\ b[i].pid = s.pid /\ b[i].type = s.type /\ b[i].id = added + j
    BY <2>2
  <2> QED BY <2>3, <2>4, <2>5 DEF IsEvent
<1>4. b \in Seq(Members(b)) /\ Len(b) = n /\ DOMAIN b = 1..n
  <2>1. DOMAIN b = 1..n /\ b = [i \in 1..n |-> b[i]]
    BY <1>1
  <2>2. \A i \in 1..n : b[i] \in Members(b)
    BY <2>1 DEF Members
  <2> QED BY <1>2, <2>1, <2>2
<1> QED BY <1>1, <1>2, <1>3, <1>4

\* What is held, and a batch of new events.
LEMMA BatchAppended ==
    ASSUME HistoryInv, NEW b \in Batches
    PROVE  Consistent(events \o b) /\ Members(events) \subseteq Members(events \o b)
<1>1. /\ b \in Seq(Members(b))
      /\ \A i \in DOMAIN b : IsEvent(b[i]) /\ b[i].id = added + i
  BY BatchParts
<1>2. added \in Nat /\ Consistent(events) /\ \A e \in Members(events) : e.id <= added
  BY HistoryAssumption DEF HistoryInv, TypeOK, NewestKept
<1>3. Consistent(events \o b) /\ Members(events \o b) = Members(events) \cup Members(b)
  BY <1>1, <1>2, ConcatConsistent
<1> QED BY <1>3

\* Enforcing the limits, on new events or under a new policy, keeps the
\* invariant.  An event dropped earlier still comes before all that is held: if
\* something came before it now, it would have been added to a full history, and
\* taken the place of an event that is later than both.
LEMMA RetainInv ==
    ASSUME HistoryInv, NEW b, b \in Seq(Members(b)),
           \A i \in DOMAIN b : IsEvent(b[i]) /\ b[i].id = added + i,
           NEW limit \in Nat \ {0}, NEW age \in Ages,
           Len(b) = 0 \/ limit = maxEvents,
           Retain(events \o b, b, limit, age),
           added' = added + Len(b), added + Len(b) <= MaxAdds
    PROVE  HistoryInv'
<1> DEFINE es == events \o b
           refs == reference \o b
           left == Cleaned(es, limit, age, clock)
<1>0. /\ added \in Nat /\ MaxAdds \in Nat /\ Len(b) \in Nat /\ clock \in Nat
      /\ maxEvents \in Nat \ {0}
  BY HistoryAssumption DEF HistoryInv, TypeOK
<1>1. /\ Consistent(events) /\ Consistent(reference) /\ NewestKept
      /\ \A e \in Members(reference) : e.id <= added
  BY DEF HistoryInv
<1>2. /\ Consistent(es)
      /\ Members(es) = Members(events) \cup Members(b)
      /\ \A e \in Members(es) : e.id <= added + Len(b)
  <2>1. \A e \in Members(events) : e.id <= added
    BY <1>1 DEF NewestKept
  <2>2. added \in Nat /\ Consistent(events)
    BY <1>0, <1>1
  <2> HIDE DEF es
  <2>3. es = events \o b
    BY DEF es
  <2> QED BY <2>1, <2>2, <2>3, ConcatConsistent
<1>3. /\ Consistent(refs)
      /\ Members(refs) = Members(reference) \cup Members(b)
      /\ \A e \in Members(refs) : e.id <= added + Len(b)
  <2>1. added \in Nat /\ Consistent(reference) /\ \A e \in Members(reference) : e.id <= added
    BY <1>0, <1>1
  <2> HIDE DEF refs
  <2>2. refs = reference \o b
    BY DEF refs
  <2> QED BY <2>1, <2>2, ConcatConsistent
<1>4. /\ events' = left /\ maxEvents' = limit /\ maxAge' = age /\ clock' = clock
      /\ reference' = IF AnyExpired(es, age) \/ limit > maxEvents THEN left ELSE refs
  BY DEF Retain
<1> DEFINE F == Unexpired(es, age, clock)
           C == Members(left)
           N == Members(events)
<1>5. /\ Consistent(left) /\ Len(left) \in Nat /\ Len(left) <= limit
      /\ C \subseteq F /\ F \subseteq Members(es)
      /\ \A e \in F \ C : Len(left) = limit /\ \A f \in C : Before(e, f)
  <2>1. /\ Consistent(left) /\ Len(left) \in Nat /\ Len(left) <= limit
        /\ C \subseteq F
        /\ \A e \in F \ C : Len(left) = limit /\ \A f \in C : Before(e, f)
    BY <1>2, CleanedParts
  <2>2. F \subseteq Members(es)
    BY DEF Unexpired
  <2> QED BY <2>1, <2>2
<1> HIDE DEF es, refs, left
<1>6. TypeOK'
  BY <1>0, <1>4, <1>5 DEF TypeOK
<1>7. CASE AnyExpired(es, age) \/ limit > maxEvents
  <2>1. reference' = left
    BY <1>4, <1>7
  <2>2. \A e \in C : e.id <= added'
    BY <1>2, <1>5
  <2>3. NewestKept'
    BY <1>4, <2>1 DEF NewestKept
  <2> QED BY <1>4, <1>5, <1>6, <2>1, <2>2, <2>3 DEF HistoryInv
<1>8. CASE ~AnyExpired(es, age) /\ ~(limit > maxEvents)
  <2>1. reference' = refs
    BY <1>4, <1>8
  <2>2. F = Members(es)
    BY <1>8 DEF AnyExpired, Unexpired, Members
  <2>3. /\ IsFiniteSet(N) /\ Cardinality(N) = Len(events) /\ Len(events) \in Nat
        /\ IsFiniteSet(C) /\ Cardinality(C) = Len(left)
    BY <1>1, <1>5, MembersCounted
  <2>4. ASSUME NEW e \in Members(refs) \ C
        PROVE  Len(left) = limit /\ \A f \in C : Before(e, f)
    <3>1. CASE e \in Members(es)
      BY <1>5, <2>2, <3>1
    <3>2. CASE e \notin Members(es)
      <4>1. e \in Members(reference) \ N
        BY <1>2, <1>3, <3>2
      <4>2. Len(events) = maxEvents /\ \A g \in N : Before(e, g)
        BY <1>1, <4>1 DEF NewestKept
      <4>3. Cardinality(N) >= limit
        BY <1>0, <1>8, <2>3, <4>2
      <4>4. Len(left) = limit
        <5> SUFFICES ASSUME Len(left) # limit PROVE FALSE
          OBVIOUS
        <5>1. F \subseteq C
          BY <1>5
        <5>2. N \in SUBSET C
          BY <1>2, <2>2, <5>1
        <5>3. Cardinality(N) <= Cardinality(C)
          BY <2>3, <5>2, FS_Subset
        <5> QED BY <1>5, <2>3, <4>3, <5>3
      <4>5. ASSUME NEW f \in C, f \notin N PROVE Before(e, f)
        <5>1. PICK g \in N : g \notin C
          <6> SUFFICES ASSUME N \subseteq C PROVE FALSE
            OBVIOUS
          <6>1. N \in SUBSET C /\ N # C
            BY <4>5
          <6>2. Cardinality(N) <= Cardinality(C) /\ Cardinality(C) # Cardinality(N)
            BY <2>3, <6>1, FS_Subset
          <6> QED BY <1>5, <2>3, <4>3, <6>2
        <5>2. Before(g, f)
          BY <1>2, <1>5, <2>2, <5>1
        <5>3. Before(e, g)
          BY <4>2
        <5>4. IsEvent(e) /\ IsEvent(f) /\ IsEvent(g)
          <6>1. e \in Members(refs) /\ f \in Members(left) /\ g \in Members(events)
            BY <4>1, <4>5, <5>1
          <6> QED BY <1>1, <1>3, <1>5, <6>1 DEF Consistent, Numbered
        <5> QED BY <5>2, <5>3, <5>4, BeforeOrders
      <4> QED BY <4>2, <4>4, <4>5
    <3> QED BY <3>1, <3>2
  <2>5. C \subseteq Members(refs)
    <3>1. N \subseteq Members(reference)
      BY <1>1 DEF NewestKept
    <3> QED BY <1>2, <1>3, <1>5, <3>1
  <2>6. NewestKept'
    BY <1>4, <2>1, <2>4, <2>5 DEF NewestKept
  <2> QED BY <1>3, <1>4, <1>5, <1>6, <2>1, <2>6 DEF HistoryInv
<1> QED BY <1>7, <1>8

\* The limit is at least 1.
LEMMA LimitPositive ==
    ASSUME NEW n \in Limits
    PROVE  LimitOf(n) \in Nat \ {0}
  BY HistoryAssumption DEF LimitOf

\* Adding nothing changes nothing.
LEMMA NothingAdded ==
    ASSUME HistoryInv
    PROVE  /\ events \o <<>> = events
           /\ <<>> \in Seq(Members(<<>>)) /\ Len(<<>>) = 0 /\ DOMAIN <<>> = {}
           /\ added = added + Len(<<>>) /\ added + Len(<<>>) <= MaxAdds
<1>1. events \in Seq(Members(events))
  BY DEF HistoryInv, Consistent
<1>2. added \in Nat /\ added <= MaxAdds /\ MaxAdds \in Nat
  BY HistoryAssumption DEF HistoryInv, TypeOK
<1>3. events \o <<>> = events
  <2> DEFINE E == Members(events)
  <2> HIDE DEF E
  <2>1. events \in Seq(E)
    BY <1>1 DEF E
  <2> QED BY <2>1
<1> QED BY <1>2, <1>3

\* The invariant holds initially and is preserved by every step.
LEMMA HistoryInvariance == HistorySpec => []HistoryInv
<1>1. HistoryInit => HistoryInv
  <2> SUFFICES ASSUME HistoryInit PROVE HistoryInv
    OBVIOUS
  <2>1. events = <<>> /\ reference = <<>> /\ Members(<<>>) = {} /\ Len(<<>>) = 0
    BY DEF HistoryInit, Members
  <2>2. TypeOK
    BY <2>1, LimitPositive, HistoryAssumption DEF HistoryInit, TypeOK
  <2>3. Consistent(<<>>)
    BY <2>1 DEF Consistent, Numbered
  <2> QED BY <2>1, <2>2, <2>3 DEF HistoryInv, NewestKept
<1>2. HistoryInv /\ [HistoryNext]_historyVars => HistoryInv'
  <2> SUFFICES ASSUME HistoryInv, [HistoryNext]_historyVars PROVE HistoryInv'
    OBVIOUS
  <2>0. maxEvents \in Nat \ {0} /\ maxAge \in Ages
    BY DEF HistoryInv, TypeOK
  <2>1. ASSUME NEW b \in Batches, Add(b) PROVE HistoryInv'
    BY <2>0, <2>1, BatchParts, RetainInv DEF Add
  <2>2. ASSUME NEW limit \in Nat \ {0}, NEW age \in Ages,
               Retain(events, <<>>, limit, age), UNCHANGED added
        PROVE  HistoryInv'
    <3> DEFINE b == <<>>
    <3>1. /\ Retain(events \o b, b, limit, age) /\ added' = added + Len(b)
          /\ b \in Seq(Members(b)) /\ Len(b) = 0 /\ DOMAIN b = {}
          /\ added + Len(b) <= MaxAdds
      BY <2>2, NothingAdded
    <3> HIDE DEF b
    <3> QED BY <3>1, RetainInv
  <2>3. ASSUME NEW n \in Limits, SetMaxEvents(n) PROVE HistoryInv'
    BY <2>0, <2>2, <2>3, LimitPositive DEF SetMaxEvents
  <2>4. ASSUME NEW a \in Ages, SetMaxAge(a) PROVE HistoryInv'
    BY <2>0, <2>2, <2>4 DEF SetMaxAge
  <2>5. CASE cleanup
    BY <2>0, <2>2, <2>5 DEF cleanup
  <2>6. CASE clear
    <3>1. /\ events' = <<>> /\ reference' = <<>> /\ Members(<<>>) = {} /\ Len(<<>>) = 0
          /\ UNCHANGED <<maxEvents, maxAge, clock, added>>
      BY <2>6 DEF clear, Members
    <3>2. TypeOK'
      BY <2>0, <3>1 DEF HistoryInv, TypeOK
    <3>3. Consistent(<<>>)
      BY <3>1 DEF Consistent, Numbered
    <3> QED BY <3>1, <3>2, <3>3 DEF HistoryInv, NewestKept
  <2>7. CASE Tick
    BY <2>7 DEF Tick, HistoryInv, TypeOK, NewestKept
  <2>8. CASE UNCHANGED historyVars
    BY <2>8 DEF historyVars, HistoryInv, TypeOK, NewestKept
  <2> QED BY <2>1, <2>3, <2>4, <2>5, <2>6, <2>7, <2>8 DEF HistoryNext
<1> QED BY <1>1, <1>2, PTL DEF HistorySpec

-----------------------------------------------------------------------------
(* History: the theorems.                                                  *)

\* The history never outgrows its limit, whatever it is given and however often
\* the limit is changed.
THEOREM HistoryBounded == HistorySpec => []TypeOK
<1>1. HistoryInv => TypeOK
  BY DEF HistoryInv
<1> QED BY <1>1, HistoryInvariance, PTL

\* What is dropped when limits are enforced.
LEMMA RetainDrops ==
    ASSUME NEW es, Consistent(es), NEW limit \in Nat, NEW age, NEW new,
           Retain(es, new, limit, age)
    PROVE  /\ \A e \in Members(es) :
                 \/ e \in Kept
                 \/ Expired(e, maxAge', clock)
                 \/ Len(events') = maxEvents' /\ \A f \in Kept : ~earlierThan(f, e)
           /\ \A e \in Kept : ~Expired(e, maxAge', clock)
<1> DEFINE left == Cleaned(es, limit, age, clock)
           F == Unexpired(es, age, clock)
<1>1. events' = left /\ maxEvents' = limit /\ maxAge' = age /\ Kept = Members(left)
  BY DEF Retain, Kept, Members
<1>2. /\ Consistent(left) /\ Members(left) \subseteq F
      /\ \A e \in F \ Members(left) : Len(left) = limit /\ \A f \in Members(left) : Before(e, f)
  BY CleanedParts
<1> HIDE DEF left
<1>3. ASSUME NEW e \in Members(es), e \notin Members(left), ~Expired(e, age, clock)
      PROVE  Len(left) = limit /\ \A f \in Members(left) : ~earlierThan(f, e)
  <2>1. e \in F \ Members(left)
    BY <1>3 DEF Unexpired
  <2>2. ASSUME NEW f \in Members(left) PROVE ~earlierThan(f, e)
    <3>1. IsEvent(e) /\ IsEvent(f) /\ Before(e, f)
      BY <1>2, <2>1 DEF Consistent, Numbered
    <3>2. Before(f, e) \/ ~earlierThan(f, e)
      BY DEF Before
    <3> QED BY <3>1, <3>2, BeforeOrders
  <2> QED BY <1>2, <2>1, <2>2
<1>4. \A e \in Members(left) : ~Expired(e, age, clock)
  BY <1>2 DEF Unexpired
<1> QED BY <1>1, <1>3, <1>4

\* Only what has expired or is the oldest of too many is dropped.
THEOREM OldestDropped == HistorySpec => DropsOnlyOldest
<1> DEFINE Dropping ==
        /\ \A i \in DOMAIN events :
              \/ events[i] \in Kept
              \/ Expired(events[i], maxAge', clock)
              \/ Len(events') = maxEvents' /\ \A e \in Kept : ~earlierThan(e, events[i])
        /\ clock' = clock => \A e \in Kept : ~Expired(e, maxAge', clock)
<1>1. HistoryInv /\ [HistoryNext]_historyVars => [~clear => Dropping]_historyVars
  <2> SUFFICES ASSUME HistoryInv, HistoryNext, ~clear PROVE Dropping
    OBVIOUS
  <2>0. /\ Consistent(events) /\ maxEvents \in Nat /\ clock \in Nat /\ added \in Nat
        /\ \A i \in DOMAIN events : events[i] \in Members(events)
    BY HistoryAssumption DEF HistoryInv, TypeOK, Members
  <2>1. ASSUME NEW b \in Batches, Add(b) PROVE Dropping
    <3>1. Consistent(events \o b) /\ Members(events) \subseteq Members(events \o b)
      BY BatchAppended
    <3>2. Retain(events \o b, b, maxEvents, maxAge)
      BY <2>1 DEF Add
    <3> QED BY <2>0, <3>1, <3>2, RetainDrops
  <2>2. ASSUME NEW n \in Limits, SetMaxEvents(n) PROVE Dropping
    <3>1. LimitOf(n) \in Nat /\ Retain(events, <<>>, LimitOf(n), maxAge)
      BY <2>2, LimitPositive DEF SetMaxEvents
    <3> QED BY <2>0, <3>1, RetainDrops
  <2>3. ASSUME NEW a \in Ages, SetMaxAge(a) PROVE Dropping
    <3>1. Retain(events, <<>>, maxEvents, a)
      BY <2>3 DEF SetMaxAge
    <3> QED BY <2>0, <3>1, RetainDrops
  <2>4. CASE cleanup
    <3>1. Retain(events, <<>>, maxEvents, maxAge)
      BY <2>4 DEF cleanup
    <3> QED BY <2>0, <3>1, RetainDrops
  <2>5. CASE Tick
    <3>1. events' = events /\ clock' # clock
      BY <2>0, <2>5 DEF Tick
    <3> QED BY <3>1 DEF Kept
  <2> QED BY <2>1, <2>2, <2>3, <2>4, <2>5 DEF HistoryNext
<1> QED BY <1>1, HistoryInvariance, PTL DEF HistorySpec, DropsOnlyOldest

\* The history is the end of the timeline of everything that was added.
THEOREM NewestRetained == HistorySpec => []KeepsNewest
<1>1. ASSUME HistoryInv PROVE KeepsNewest
  <2> DEFINE E == Members(events)
             R == Members(reference)
             t == Newest(Chronicle(R), maxEvents)
  <2>1. /\ IsFiniteSet(E) /\ Cardinality(E) = Len(events) /\ Len(events) \in Nat
        /\ IsFiniteSet(R) /\ Cardinality(R) = Len(reference) /\ Len(reference) \in Nat
        /\ Numbered(E) /\ Numbered(R) /\ maxEvents \in Nat /\ Len(events) <= maxEvents
    BY <1>1, MembersCounted DEF HistoryInv, Consistent, TypeOK
  <2>2. E \in SUBSET R /\ \A e \in R \ E : Len(events) = maxEvents /\ \A f \in E : Before(e, f)
    BY <1>1 DEF HistoryInv, NewestKept
  <2>3. getRecent(0) = Chronicle(E) /\ StableSort(reference) = Chronicle(R)
    BY <1>1, SortGivesChronicle DEF getRecent, HistoryInv
  <2> HIDE DEF E, R
  <2>4. CASE E = R
    <3>1. Len(Chronicle(R)) = Cardinality(R) /\ Cardinality(R) <= maxEvents
      BY <2>1, <2>4, ChronicleParts
    <3>2. t = Chronicle(R)
      BY <2>1, <3>1 DEF Newest
    <3> QED BY <2>3, <2>4, <3>2 DEF KeepsNewest
  <2>5. CASE E # R
    <3>1. Cardinality(E) = maxEvents /\ maxEvents < Cardinality(R)
      <4>1. Cardinality(E) <= Cardinality(R) /\ Cardinality(R) # Cardinality(E)
        BY <2>1, <2>2, <2>5, FS_Subset
      <4>2. Len(events) = maxEvents
        BY <2>2, <2>5
      <4> QED BY <2>1, <4>1, <4>2
    <3>2. /\ t \in Seq(R) /\ Len(t) = maxEvents /\ Members(t) \subseteq R
          /\ \A a, b \in DOMAIN t : a < b => Before(t[a], t[b])
          /\ \A e \in R \ Members(t) : \A f \in Members(t) : Before(e, f)
      BY <2>1, <3>1, LastOnes
    <3> HIDE DEF t
    <3>3. Consistent(t)
      BY <2>1, <3>2, SortedConsistent
    <3>4. IsFiniteSet(Members(t)) /\ Cardinality(Members(t)) = maxEvents /\ t \in Seq(Members(t))
      BY <3>2, <3>3, MembersCounted DEF Consistent
    <3>5. Members(t) = E
      <4> SUFFICES ASSUME Members(t) # E PROVE FALSE
        OBVIOUS
      <4>1. PICK f \in Members(t) : f \notin E
        <5> SUFFICES ASSUME Members(t) \in SUBSET E PROVE FALSE
          OBVIOUS
        <5> QED BY <2>1, <3>1, <3>4, FS_Subset
      <4>2. PICK g \in E : g \notin Members(t)
        <5> SUFFICES ASSUME E \in SUBSET Members(t) PROVE FALSE
          OBVIOUS
        <5> QED BY <2>1, <3>1, <3>4, FS_Subset
      <4>3. Before(f, g) /\ Before(g, f) /\ f \in R /\ g \in R
        BY <2>2, <3>2, <4>1, <4>2
      <4>4. IsEvent(f) /\ IsEvent(g)
        BY <2>1, <4>3 DEF Numbered
      <4> QED BY <4>3, <4>4, BeforeOrders
    <3>6. t = Chronicle(E)
      BY <2>1, <3>2, <3>4, <3>5, OneChronicle
    <3> QED BY <2>3, <3>6 DEF KeepsNewest, t
  <2> QED BY <2>4, <2>5
<1>2. HistoryInv => KeepsNewest
  BY <1>1
<1> QED BY <1>2, HistoryInvariance, PTL

\* Sorting a part of a sequence gives the timeline of that part.
LEMMA PartsSorted ==
    ASSUME NEW s, Consistent(s), NEW I, I \subseteq DOMAIN s,
           NEW P, P = {s[i] : i \in I}
    PROVE  StableSort(Selected(s, I)) = Chronicle(P)
<1>1. Consistent(Selected(s, I))
  BY SelectedConsistent
<1>2. Members(Selected(s, I)) = P
  BY SelectedParts DEF Consistent
<1> QED BY <1>1, <1>2, SortGivesChronicle

\* A part of a timeline needs no sorting.
LEMMA PartsOfTimeline ==
    ASSUME NEW s, Consistent(s), StableSort(s) = s, NEW I, I \subseteq DOMAIN s,
           NEW P, P = {s[i] : i \in I}
    PROVE  Selected(s, I) = Chronicle(P)
<1> DEFINE t == Selected(s, I)
<1>1. Consistent(t)
  BY SelectedConsistent
<1>2. Members(t) = P
  BY SelectedParts DEF Consistent
<1>3. (\A i, j \in DOMAIN s : i < j => Before(s[i], s[j])) =>
         \A a, b \in DOMAIN t : a < b => Before(t[a], t[b])
  BY SelectedConsistent
<1> HIDE DEF t
<1>4. PICK E : E = Members(s)
  OBVIOUS
<1>5. IsFiniteSet(E) /\ Numbered(E) /\ s = Chronicle(E)
  BY <1>4, MembersCounted, SortGivesChronicle DEF Consistent
<1>6. \A i, j \in DOMAIN s : i < j => Before(s[i], s[j])
  BY <1>5, ChronicleParts
<1>7. t \in Seq(P) /\ Numbered(P) /\ IsFiniteSet(P)
  BY <1>1, <1>2, MembersCounted DEF Consistent
<1>8. t = Chronicle(P)
  BY <1>2, <1>3, <1>6, <1>7, OneChronicle
<1> QED BY <1>8 DEF t

\* The whole timeline is sorted already.
LEMMA WholeTimeline ==
    ASSUME HistoryInv, NEW all, all = getRecent(0)
    PROVE  /\ Consistent(all) /\ Members(all) = Members(events)
           /\ StableSort(all) = all /\ all = StableSort(events)
<1> DEFINE E == Members(events)
<1>1. Consistent(events) /\ all = StableSort(events)
  BY DEF HistoryInv, getRecent
<1>2. all = Chronicle(E) /\ IsFiniteSet(E) /\ Numbered(E)
  BY <1>1, SortGivesChronicle, MembersCounted DEF Consistent
<1> HIDE DEF E
<1>3. /\ all \in Seq(E) /\ Members(all) = E
      /\ \A a, b \in DOMAIN all : a < b => Before(all[a], all[b])
  BY <1>2, ChronicleParts
<1>4. Consistent(all)
  BY <1>2, <1>3, SortedConsistent
<1>5. StableSort(all) = all
  BY <1>2, <1>3, <1>4, SortGivesChronicle
<1> QED BY <1>1, <1>2, <1>3, <1>4, <1>5 DEF E

\* Every way to look up a timeline gives the same one.
THEOREM LookupsConsistent == HistorySpec => []LookupsAgree
<1>1. ASSUME HistoryInv PROVE LookupsAgree
  <2>1. PICK all : all = getRecent(0)
    OBVIOUS
  <2>2. /\ Consistent(all) /\ Members(all) = Members(events)
        /\ StableSort(all) = all /\ all = StableSort(events)
        /\ Consistent(events)
    BY <1>1, <2>1, WholeTimeline DEF HistoryInv
  <2>3. ASSUME NEW p
        PROVE  /\ getByProcessId(p) = byProcessId(all, p)
               /\ getByProcessId(p) = getProcessTimeline(events, p)
    <3> DEFINE I == {i \in DOMAIN events : events[i].pid = p}
               J == {i \in DOMAIN all : all[i].pid = p}
               P == {e \in Members(events) : e.pid = p}
    <3>1. P = {events[i] : i \in I} /\ P = {all[i] : i \in J}
      BY <2>2 DEF Members
    <3>2. I \subseteq DOMAIN events /\ J \subseteq DOMAIN all
      OBVIOUS
    <3>3. getByProcessId(p) = StableSort(Selected(events, I))
          /\ byProcessId(all, p) = StableSort(Selected(all, J))
      BY DEF getByProcessId, byProcessId
    <3>4. getProcessTimeline(events, p) = IF p \in {events[i].pid : i \in DOMAIN events}
                                          THEN Selected(all, J) ELSE <<>>
      BY <2>2 DEF getProcessTimeline, processTimelines, globalTimeline
    <3> HIDE DEF I, J, P
    <3>5. StableSort(Selected(events, I)) = Chronicle(P)
      BY <2>2, <3>1, <3>2, PartsSorted
    <3>6. StableSort(Selected(all, J)) = Chronicle(P) /\ Selected(all, J) = Chronicle(P)
      <4>1. Consistent(all) /\ StableSort(all) = all
        BY <2>2
      <4> QED BY <3>1, <3>2, <4>1, PartsSorted, PartsOfTimeline
    <3>7. ASSUME p \notin {events[i].pid : i \in DOMAIN events} PROVE Chronicle(P) = <<>>
      <4>1. P = {}
        BY <3>7 DEF P, Members
      <4>2. Cardinality({}) = 0
        BY FS_EmptySet
      <4> QED BY <4>1, <4>2 DEF Chronicle, InOrder
    <3> QED BY <3>3, <3>4, <3>5, <3>6, <3>7
  <2>4. ASSUME NEW n PROVE getByProcessName(n) = byProcessName(all, n)
    <3> DEFINE I == {i \in DOMAIN events : events[i].name = n}
               J == {i \in DOMAIN all : all[i].name = n}
               P == {e \in Members(events) : e.name = n}
    <3>1. P = {events[i] : i \in I} /\ P = {all[i] : i \in J}
      BY <2>2 DEF Members
    <3>2. I \subseteq DOMAIN events /\ J \subseteq DOMAIN all
      OBVIOUS
    <3>3. getByProcessName(n) = StableSort(Selected(events, I))
          /\ byProcessName(all, n) = StableSort(Selected(all, J))
      BY DEF getByProcessName, byProcessName
    <3> HIDE DEF I, J, P
    <3>4. StableSort(Selected(events, I)) = Chronicle(P)
      BY <2>2, <3>1, <3>2, PartsSorted
    <3>5. StableSort(Selected(all, J)) = Chronicle(P)
      BY <2>2, <3>1, <3>2, PartsSorted
    <3> QED BY <3>3, <3>4, <3>5
  <2>5. ASSUME NEW t
        PROVE  Selected(all, {i \in DOMAIN all : all[i].type = t}) = byEventType(all, t)
    <3> DEFINE J == {i \in DOMAIN all : all[i].type = t}
    <3>1. byEventType(all, t) = StableSort(Selected(all, J)) /\ J \subseteq DOMAIN all
      BY DEF byEventType
    <3> HIDE DEF J
    <3>2. PICK P : P = {all[i] : i \in J}
      OBVIOUS
    <3>3. StableSort(Selected(all, J)) = Chronicle(P) /\ Selected(all, J) = Chronicle(P)
      <4>1. Consistent(all) /\ StableSort(all) = all
        BY <2>2
      <4> QED BY <3>1, <3>2, <4>1, PartsSorted, PartsOfTimeline
    <3> QED BY <3>1, <3>3 DEF J
  <2>6. ASSUME NEW n PROVE getRecent(n) = recent(all, n)
    BY <2>2 DEF getRecent, recent
  <2> QED BY <2>1, <2>3, <2>4, <2>5, <2>6 DEF LookupsAgree
<1>2. HistoryInv => LookupsAgree
  BY <1>1
<1> QED BY <1>2, HistoryInvariance, PTL

-----------------------------------------------------------------------------
(* Collection: lists.                                                      *)

\* A list is a sequence of its members.
LEMMA IsList ==
    ASSUME NEW s, NEW n \in Nat, DOMAIN s = 1..n, s = [i \in 1..n |-> s[i]]
    PROVE  s \in Seq(Members(s)) /\ Len(s) = n
<1>1. \A i \in 1..n : s[i] \in Members(s)
  BY DEF Members
<1> QED BY <1>1

\* The members of two lists, one after the other.
LEMMA ListsJoined ==
    ASSUME NEW s, s \in Seq(Members(s)), NEW t, t \in Seq(Members(t))
    PROVE  s \o t \in Seq(Members(s \o t)) /\ Members(s \o t) = Members(s) \cup Members(t)
<1> DEFINE S == Members(s)
           T == Members(t)
           E == S \cup T
           u == s \o t
<1>1. s \in Seq(S) /\ t \in Seq(T) /\ s \in Seq(E) /\ t \in Seq(E)
  OBVIOUS
<1> HIDE DEF S, T
<1>2. /\ Len(s) \in Nat /\ DOMAIN s = 1..Len(s) /\ Len(t) \in Nat /\ DOMAIN t = 1..Len(t)
      /\ u \in Seq(E) /\ DOMAIN u = 1..(Len(s) + Len(t))
      /\ \A i \in DOMAIN u : u[i] = IF i <= Len(s) THEN s[i] ELSE t[i - Len(s)]
  BY <1>1
<1>3. u = [i \in 1..(Len(s) + Len(t)) |-> u[i]]
  <2> HIDE DEF E, u
  <2> QED BY <1>2
<1> HIDE DEF u
<1>4. \A i \in DOMAIN s : i \in DOMAIN u /\ u[i] = s[i]
  BY <1>2
<1>5. \A i \in DOMAIN t : i + Len(s) \in DOMAIN u /\ u[i + Len(s)] = t[i]
  BY <1>2
<1>6. \A i \in DOMAIN u : (i \in DOMAIN s /\ u[i] = s[i])
                          \/ (i - Len(s) \in DOMAIN t /\ u[i] = t[i - Len(s)])
  BY <1>2
<1>7. Members(u) = S \cup T
  BY <1>4, <1>5, <1>6 DEF Members, S, T
<1>8. u \in Seq(Members(u))
  <2>1. PICK n \in Nat : n = Len(s) + Len(t)
    BY <1>2
  <2>2. DOMAIN u = 1..n /\ u = [i \in 1..n |-> u[i]]
    BY <1>2, <1>3, <2>1
  <2> QED BY <2>2, IsList
<1> QED BY <1>7, <1>8 DEF u, S, T

-----------------------------------------------------------------------------
(* Collection: what the collector is handed is added once.                 *)

\* The collector selects as the history does.
LEMMA SameSelection ==
    ASSUME NEW s, NEW I
    PROVE  Collector!Selected(s, I) = Selected(s, I)
  BY DEF Collector!Selected, Selected, Collector!InOrder, InOrder, Collector!Ascending,
         Ascending, Collector!Below, Below, Collector!Cardinality, Cardinality

Key(e) == Collector!Key(e)

\* The events on record are lists.
EventsListed ==
    \A p \in DOMAIN eventsByProcess : eventsByProcess[p] \in Seq(Members(eventsByProcess[p]))

\* Of the indices in a set, one is the least.
LEMMA FirstOne ==
    ASSUME NEW n \in Nat, NEW I, I \subseteq 1..n, I # {}
    PROVE  \E i \in I : \A j \in I : i <= j
<1>1. IsFiniteSet(1..n)
  BY UpTo
<1>2. IsFiniteSet(I) /\ I \subseteq Nat /\ \A i \in I : i \in Nat
  <2>1. I \in SUBSET (1..n)
    OBVIOUS
  <2>2. IsFiniteSet(I)
    BY <1>1, <2>1, FS_Subset
  <2> QED BY <2>2
<1>3. StrictOrder(Ascending(I), I)
  BY <1>2, AscendingOrders
<1> DEFINE order == InOrder(I, Ascending(I))
           m == Cardinality(I)
<1>4. m \in Nat /\ m > 0
  BY <1>2, FS_CardinalityType, FS_EmptySet
<1>5. /\ order \in [1..m -> I]
      /\ \A i \in I : \E k \in 1..m : order[k] = i
  BY <1>2, <1>3, InOrderLists
<1>6. \A k \in 1..m : 1 < k => <<order[1], order[k]>> \in Ascending(I)
  BY <1>2, <1>3, <1>4, InOrderSorted
<1> HIDE DEF order, m
<1>7. ASSUME NEW j \in I PROVE order[1] <= j
  <2>1. PICK k \in 1..m : order[k] = j
    BY <1>5
  <2>2. j \in Nat
    BY <1>2
  <2>3. CASE k = 1
    BY <2>1, <2>2, <2>3
  <2>4. CASE k # 1
    <3>1. 1 < k
      BY <1>4, <2>4
    <3>2. <<order[1], j>> \in Ascending(I)
      BY <1>6, <2>1, <3>1
    <3>3. order[1] \in I /\ order[1] < j
      BY <3>2 DEF Ascending
    <3>4. order[1] \in Nat
      BY <1>2, <3>3
    <3> QED BY <2>2, <3>3, <3>4
  <2> QED BY <2>3, <2>4
<1>8. order[1] \in I
  <2>1. 1 \in 1..m
    BY <1>4
  <2> QED BY <1>5, <2>1
<1> QED BY <1>7, <1>8

\* Every activity whose key is new is on record afterwards, under that key, and
\* nothing else is new.
LEMMA CollectEffect ==
    ASSUME EventsListed, NEW A, A \in Seq(Members(A)), Collector!collect(A)
    PROVE  /\ EventsListed'
           /\ Events' \subseteq Events \cup Members(A)
           /\ seenEventKeys' = seenEventKeys \cup {Key(a) : a \in Members(A)}
           /\ \A a \in Members(A) : Key(a) \notin seenEventKeys =>
                 \E e \in Members(A) : e \in Events' /\ Key(e) = Key(a)
<1> DEFINE taken == Collector!tryAdd(A)
           to(p) == {i \in taken : A[i].pid = p}
           part(p) == Selected(A, to(p))
           old(p) == Collector!getEventsForProcess(p)
           pids == {A[i].pid : i \in taken}
<1>0. Len(A) \in Nat /\ DOMAIN A = 1..Len(A) /\ taken \subseteq DOMAIN A
  BY DEF Collector!tryAdd
<1>1. /\ eventsByProcess' = [p \in DOMAIN eventsByProcess \cup pids |->
                               IF p \in pids THEN old(p) \o part(p) ELSE eventsByProcess[p]]
      /\ seenEventKeys' = seenEventKeys \cup {Key(A[i]) : i \in DOMAIN A}
  <2>1. /\ eventsByProcess' = Collector!Put(eventsByProcess,
                                 [p \in pids |-> old(p) \o Collector!Selected(A, to(p))])
        /\ seenEventKeys' = seenEventKeys \cup {Key(A[i]) : i \in DOMAIN A}
    BY DEF Collector!collect, Key
  <2> HIDE DEF taken, to, old, pids
  <2>2. \A p \in pids : Collector!Selected(A, to(p)) = part(p)
    BY SameSelection
  <2> HIDE DEF part
  <2> QED BY <2>1, <2>2 DEF Collector!Put
<1> HIDE DEF taken
<1>2. ASSUME NEW p
      PROVE  /\ part(p) \in Seq(Members(part(p))) /\ Members(part(p)) = {A[i] : i \in to(p)}
             /\ Members(part(p)) \subseteq Members(A)
  <2>1. to(p) \subseteq DOMAIN A
    BY <1>0
  <2> HIDE DEF to
  <2>2. part(p) \in Seq(Members(A)) /\ Members(part(p)) = {A[i] : i \in to(p)}
    BY <2>1, SelectedParts
  <2> HIDE DEF part
  <2>3. Len(part(p)) \in Nat /\ DOMAIN part(p) = 1..Len(part(p))
        /\ part(p) = [i \in 1..Len(part(p)) |-> part(p)[i]]
    BY <2>2
  <2>4. part(p) \in Seq(Members(part(p)))
    BY <2>3, IsList
  <2> QED BY <2>1, <2>2, <2>4 DEF Members
<1>3. ASSUME NEW p
      PROVE  /\ old(p) \in Seq(Members(old(p)))
             /\ p \in DOMAIN eventsByProcess => old(p) = eventsByProcess[p]
             /\ p \notin DOMAIN eventsByProcess => Members(old(p)) = {}
  BY DEF EventsListed, Collector!getEventsForProcess, Members
<1> HIDE DEF old, part, to, pids
<1>4. ASSUME NEW p
      PROVE  /\ old(p) \o part(p) \in Seq(Members(old(p) \o part(p)))
             /\ Members(old(p) \o part(p)) = Members(old(p)) \cup Members(part(p))
  BY <1>2, <1>3, ListsJoined
<1>5. /\ DOMAIN eventsByProcess' = DOMAIN eventsByProcess \cup pids
      /\ \A p \in pids : eventsByProcess'[p] = old(p) \o part(p)
      /\ \A p \in DOMAIN eventsByProcess' :
            p \notin pids => p \in DOMAIN eventsByProcess /\ eventsByProcess'[p] = eventsByProcess[p]
  BY <1>1
<1>6. EventsListed'
  <2> SUFFICES ASSUME NEW p, p \in DOMAIN eventsByProcess'
               PROVE  eventsByProcess'[p] \in Seq(Members(eventsByProcess'[p]))
    BY DEF EventsListed, Members
  <2>1. CASE p \in pids
    BY <1>4, <1>5, <2>1
  <2>2. CASE p \notin pids
    <3>1. p \in DOMAIN eventsByProcess /\ eventsByProcess'[p] = eventsByProcess[p]
      BY <1>5, <2>2
    <3> QED BY <3>1 DEF EventsListed
  <2> QED BY <2>1, <2>2
<1>7. \A e : e \in Events <=>
                \E p \in DOMAIN eventsByProcess : e \in Members(eventsByProcess[p])
  BY DEF Events, Members
<1>8. \A e : e \in Events' <=>
                \E p \in DOMAIN eventsByProcess' : e \in Members(eventsByProcess'[p])
  BY DEF Events, Members
<1>9. ASSUME NEW e \in Events', e \notin Members(A) PROVE e \in Events
  <2>1. PICK p : p \in DOMAIN eventsByProcess' /\ e \in Members(eventsByProcess'[p])
    BY <1>8
  <2>2. CASE p \in pids
    <3>1. e \in Members(old(p))
      BY <1>2, <1>4, <1>5, <1>9, <2>1, <2>2
    <3> QED BY <1>3, <1>7, <3>1
  <2>3. CASE p \notin pids
    <3>1. p \in DOMAIN eventsByProcess /\ eventsByProcess'[p] = eventsByProcess[p]
      BY <1>5, <2>1, <2>3
    <3> QED BY <1>7, <2>1, <3>1
  <2> QED BY <2>2, <2>3
<1>10. seenEventKeys' = seenEventKeys \cup {Key(a) : a \in Members(A)}
  BY <1>1 DEF Members
<1>11. ASSUME NEW a \in Members(A), Key(a) \notin seenEventKeys
       PROVE  \E e \in Members(A) : e \in Events' /\ Key(e) = Key(a)
  <2> DEFINE I == {i \in DOMAIN A : Key(A[i]) = Key(a)}
  <2>1. I \subseteq 1..Len(A) /\ I # {}
    BY <1>0 DEF Members
  <2>2. PICK i \in I : \A j \in I : i <= j
    BY <1>0, <2>1, FirstOne
  <2>3. i \in DOMAIN A /\ Key(A[i]) = Key(a) /\ A[i] \in Members(A)
    BY DEF Members
  <2>4. \A j \in 1..(i - 1) : j \in DOMAIN A /\ ~(i <= j)
    BY <1>0, <2>3
  <2>5. \A j \in 1..(i - 1) : Key(A[j]) # Key(A[i])
    BY <2>2, <2>3, <2>4
  <2>6. i \in taken
    BY <1>11, <2>3, <2>5 DEF taken, Collector!tryAdd, Key
  <2>7. A[i].pid \in pids /\ A[i] \in Members(part(A[i].pid))
    BY <1>2, <2>6 DEF to, pids
  <2>8. A[i].pid \in DOMAIN eventsByProcess' /\ A[i] \in Members(eventsByProcess'[A[i].pid])
    BY <1>4, <1>5, <2>7
  <2> QED BY <1>8, <2>3, <2>8
<1> QED BY <1>6, <1>9, <1>10, <1>11

-----------------------------------------------------------------------------
(* Collection: the inductive invariant.                                    *)

\* The names the collector may be given are those of processes seen since the
\* last process snapshot.
NamesCurrent ==
    /\ \A p \in Pids : running[p] \in namesSince[p]
    /\ \A p \in DOMAIN trackedProcesses : p \in Pids /\ trackedProcesses[p].name \in namesSince[p]

\* The rows of the transfer snapshots bear no names, so totals have none.
TotalsNameless ==
    /\ \A c \in DOMAIN activeUploads : activeUploads[c].processName = NoName
    /\ \A c \in DOMAIN activeDownloads : activeDownloads[c].processName = NoName

\* What is on record was seen.
KeysKnown == \A e \in Events : Key(e) \in seenEventKeys

\* A total of n, for the process and the remote endpoint of key k.
TotalOf(k, d, n) == [direction |-> d, pid |-> k[2], remote |-> k[4], total |-> n]

\* The collector knows the key of a total only if a tracker showed the total.
ShownOf(k, totals) ==
    /\ k[1] = "UPLOAD_ACTIVITY" => TotalOf(k, "sent", k[5]) \in totals
    /\ k[1] = "DOWNLOAD_ACTIVITY" => TotalOf(k, "received", k[6]) \in totals

KeysShown == \A k \in seenEventKeys : ShownOf(k, shown)

CollectionInv ==
    /\ NamesCurrent
    /\ TotalsNameless
    /\ DOMAIN activeConnections \subseteq Conns
    /\ EventsListed
    /\ KeysKnown
    /\ KeysShown

-----------------------------------------------------------------------------
(* Collection: what a poll hands to the collector.                         *)

\* There are finitely many connections and processes.
LEMMA HostFinite ==
    IsFiniteSet(Conns) /\ IsFiniteSet(Pids) /\ PidOf \in [Conns -> Pids]
  BY HostAssumption, TimelineAssumption

\* s lists each element of S once.
Lists(s, S) ==
    /\ s \in [1..Cardinality(S) -> S]
    /\ \A i, j \in 1..Cardinality(S) : i # j => s[i] # s[j]

\* The orders of SequencesExt.
LEMMA OrdersList ==
    ASSUME NEW S, NEW s
    PROVE  /\ s \in SetToSeqs(S) => Lists(s, S)
           /\ s \in Connections!SetToSeqs(S) => Lists(s, S)
  BY DEF SetToSeqs, Connections!SetToSeqs, Lists, Cardinality, Connections!Cardinality

\* Such a list has all elements.
LEMMA ListsAll ==
    ASSUME NEW S, IsFiniteSet(S), NEW s, Lists(s, S)
    PROVE  s \in Seq(Members(s)) /\ Members(s) = S /\ DOMAIN s = 1..Len(s) /\ Len(s) \in Nat
<1> DEFINE n == Cardinality(S)
<1>1. n \in Nat /\ IsFiniteSet(1..n) /\ Cardinality(1..n) = n
  BY FS_CardinalityType, UpTo
<1>2. s \in [1..n -> S] /\ \A i, j \in 1..n : i # j => s[i] # s[j]
  BY DEF Lists
<1>3. s \in Injection(1..n, S)
  BY <1>2 DEF Injection, IsInjective
<1>4. s \in Surjection(1..n, S)
  BY <1>1, <1>3, FS_Injection
<1>5. Members(s) = S
  BY <1>4 DEF Surjection, Members
<1>6. DOMAIN s = 1..n /\ s = [i \in 1..n |-> s[i]]
  BY <1>2
<1> HIDE DEF n
<1>7. s \in Seq(Members(s)) /\ Len(s) = n
  BY <1>1, <1>6, IsList
<1> QED BY <1>1, <1>5, <1>6, <1>7

Activity(type, pid, name, conn, remote, up, down) ==
    Collector!Activity(type, pid, name, conn, remote, up, down)

\* The fields of an activity.
LEMMA ActivityFields ==
    ASSUME NEW type, NEW pid, NEW name, NEW conn, NEW remote, NEW up, NEW down,
           NEW a, a = Activity(type, pid, name, conn, remote, up, down)
    PROVE  /\ a.type = type /\ a.pid = pid /\ a.name = name /\ a.remote = remote
           /\ a.uploadedBytes = up /\ a.downloadedBytes = down
           /\ Key(a)[1] = type /\ Key(a)[2] = pid /\ Key(a)[4] = remote
           /\ Key(a)[5] = up /\ Key(a)[6] = down
  BY DEF Activity, Key, Collector!Activity, Collector!Key

\* Names are current and no totals are among the activities.
NoTotals(A) ==
    \A a \in Members(A) :
        /\ a.name \in namesSince[a.pid] \cup {NoName}
        /\ Key(a)[1] # "UPLOAD_ACTIVITY" /\ Key(a)[1] # "DOWNLOAD_ACTIVITY"

\* Processes that were created bear the names they have now.
LEMMA ProcessesSeen ==
    ASSUME CollectionInv, NEW es, es \in Seq(Members(es)),
           \A e \in Members(es) :
              e.type = "CREATED" => e.pid \in Pids /\ e.info.name = running[e.pid],
           NEW A, A = Collector!ProcessActivities(es)
    PROVE  A \in Seq(Members(A)) /\ NoTotals(A)
<1> DEFINE I == {i \in DOMAIN es : es[i].type = "CREATED"}
           created == Selected(es, I)
<1>1. A = [i \in DOMAIN created |-> Activity("PROCESS_SEEN", created[i].pid, created[i].info.name,
                                             NoText, NoText, 0, 0)]
  <2>1. Collector!Selected(es, I) = created
    BY SameSelection
  <2> QED BY <2>1 DEF Collector!ProcessActivities, Activity
<1>2. /\ created \in Seq(Members(es))
      /\ Members(created) = {es[i] : i \in I}
  BY SelectedParts
<1>3. ASSUME NEW i \in DOMAIN created
      PROVE  created[i] \in Members(es) /\ created[i].type = "CREATED"
  <2>1. created[i] \in Members(created)
    BY DEF Members
  <2> HIDE DEF created
  <2> QED BY <1>2, <2>1 DEF Members
<1> HIDE DEF created
<1>4. Len(created) \in Nat /\ DOMAIN created = 1..Len(created)
  BY <1>2
<1>5. DOMAIN A = 1..Len(created) /\ A = [i \in 1..Len(created) |-> A[i]]
  BY <1>1, <1>4
<1>6. A \in Seq(Members(A))
  BY <1>4, <1>5, IsList
<1>7. ASSUME NEW a \in Members(A)
      PROVE  /\ a.name \in namesSince[a.pid] \cup {NoName}
             /\ Key(a)[1] # "UPLOAD_ACTIVITY" /\ Key(a)[1] # "DOWNLOAD_ACTIVITY"
  <2>1. PICK i \in DOMAIN A : a = A[i]
    BY DEF Members
  <2>2. a = Activity("PROCESS_SEEN", created[i].pid, created[i].info.name, NoText, NoText, 0, 0)
        /\ i \in DOMAIN created
    BY <1>1, <2>1
  <2>3. a.pid = created[i].pid /\ a.name = created[i].info.name /\ Key(a)[1] = "PROCESS_SEEN"
    BY <2>2, ActivityFields
  <2>4. created[i].info.name \in namesSince[created[i].pid]
    BY <1>3, <2>2 DEF CollectionInv, NamesCurrent
  <2> QED BY <2>3, <2>4
<1> QED BY <1>6, <1>7 DEF NoTotals

\* What the process monitor returns.
LEMMA SnapshotNames ==
    ASSUME NEW reached \in SUBSET Pids, NEW snap, snap = getActiveProcesses(reached)
    PROVE  /\ DOMAIN snap \in SUBSET Pids /\ IsFiniteSet(DOMAIN snap)
           /\ \A p \in DOMAIN snap : p \in Pids /\ snap[p].name = running[p]
<1>1. /\ DOMAIN snap \in SUBSET Pids
      /\ \A p \in DOMAIN snap : p \in Pids /\ snap[p].name = running[p]
  BY DEF getActiveProcesses
<1> QED BY <1>1, HostFinite, FS_Subset

\* The processes the monitor lists bear the names they have now.
LEMMA ActiveSeen ==
    ASSUME CollectionInv,
           NEW reached \in SUBSET Pids, NEW snap, snap = getActiveProcesses(reached),
           NEW pids \in SetToSeqs(DOMAIN snap),
           NEW A, A = Collector!ActiveActivities(pids, snap)
    PROVE  A \in Seq(Members(A)) /\ NoTotals(A)
<1>1. /\ IsFiniteSet(DOMAIN snap)
      /\ \A p \in DOMAIN snap : p \in Pids /\ snap[p].name = running[p]
  BY SnapshotNames
<1>3. Lists(pids, DOMAIN snap)
  BY OrdersList
<1>4. Members(pids) = DOMAIN snap /\ DOMAIN pids = 1..Len(pids) /\ Len(pids) \in Nat
  BY <1>1, <1>3, ListsAll
<1>5. A = [i \in 1..Len(pids) |-> Activity("PROCESS_SEEN", pids[i], snap[pids[i]].name,
                                           NoText, NoText, 0, 0)]
  BY <1>4 DEF Collector!ActiveActivities, Activity
<1>6. A \in Seq(Members(A))
  <2>1. DOMAIN A = 1..Len(pids) /\ A = [i \in 1..Len(pids) |-> A[i]]
    BY <1>5
  <2> QED BY <1>4, <2>1, IsList
<1>7. ASSUME NEW a \in Members(A)
      PROVE  /\ a.name \in namesSince[a.pid] \cup {NoName}
             /\ Key(a)[1] # "UPLOAD_ACTIVITY" /\ Key(a)[1] # "DOWNLOAD_ACTIVITY"
  <2>1. PICK i \in DOMAIN A : a = A[i]
    BY DEF Members
  <2>2. a = Activity("PROCESS_SEEN", pids[i], snap[pids[i]].name, NoText, NoText, 0, 0)
        /\ i \in DOMAIN pids
    BY <1>4, <1>5, <2>1
  <2>3. a.pid = pids[i] /\ a.name = snap[pids[i]].name /\ Key(a)[1] = "PROCESS_SEEN"
    BY <2>2 DEF Activity, Key, Collector!Activity, Collector!Key
  <2>4. pids[i] \in DOMAIN snap
    BY <1>4, <2>2 DEF Members
  <2>5. snap[pids[i]].name \in namesSince[pids[i]]
    BY <1>1, <2>4 DEF CollectionInv, NamesCurrent
  <2> QED BY <2>3, <2>5
<1> QED BY <1>6, <1>7 DEF NoTotals

\* The events of the connection tracker are a list.
LEMMA ChangesListed ==
    ASSUME CollectionInv, NEW rows, DOMAIN rows \subseteq Conns,
           NEW es \in Connections!Changes(rows)
    PROVE  es \in Seq(Members(es))
<1>1. ASSUME NEW type, NEW keys, keys \in SUBSET Conns,
             NEW l \in Connections!EventsFor(type, keys)
      PROVE  l \in Seq(Members(l))
  <2>1. IsFiniteSet(keys)
    BY <1>1, HostFinite, FS_Subset
  <2>2. PICK s \in Connections!SetToSeqs(keys) :
            l = [i \in DOMAIN s |-> Connections!Event(type, s[i])]
    BY DEF Connections!EventsFor
  <2>3. DOMAIN s = 1..Len(s) /\ Len(s) \in Nat
    BY <2>1, OrdersList, ListsAll
  <2>4. DOMAIN l = 1..Len(s) /\ l = [i \in 1..Len(s) |-> l[i]]
    BY <2>2, <2>3
  <2> QED BY <2>3, <2>4, IsList
<1>2. CASE connectionSeeded
  <2>1. PICK l1 \in Connections!EventsFor("CREATED", Connections!Created(rows)),
             l2 \in Connections!EventsFor("CLOSED", Connections!Closed(rows)) :
             es = l1 \o l2
    BY <1>2 DEF Connections!Changes
  <2>2. /\ Connections!Created(rows) \in SUBSET Conns
        /\ Connections!Closed(rows) \in SUBSET Conns
    BY DEF Connections!Created, Connections!Closed, CollectionInv
  <2>3. l1 \in Seq(Members(l1)) /\ l2 \in Seq(Members(l2))
    BY <1>1, <2>1, <2>2
  <2> QED BY <2>1, <2>3, ListsJoined
<1>3. CASE ~connectionSeeded
  BY <1>3 DEF Connections!Changes
<1> QED BY <1>2, <1>3

\* Connections that were opened or closed get the name tracked for their PID.
LEMMA ConnectionsSeen ==
    ASSUME CollectionInv, NEW rows, DOMAIN rows \subseteq Conns,
           NEW es \in Connections!Changes(rows),
           NEW A, A = Collector!ConnectionActivities(es, trackedProcesses)
    PROVE  A \in Seq(Members(A)) /\ NoTotals(A)
<1> DEFINE type(i) == IF es[i].type = "CREATED" THEN "CONNECTION_OPENED" ELSE "CONNECTION_CLOSED"
           name(i) == Collector!resolveProcessName(PidOf[es[i].conn], trackedProcesses)
<1>1. es \in Seq(Members(es))
  BY ChangesListed
<1>2. Len(es) \in Nat /\ DOMAIN es = 1..Len(es)
  BY <1>1
<1>3. A = [i \in 1..Len(es) |->
             Activity(type(i), PidOf[es[i].conn], name(i), es[i].conn, RemoteOf[es[i].conn], 0, 0)]
  BY <1>2 DEF Collector!ConnectionActivities, Activity
<1>4. A \in Seq(Members(A))
  <2>1. DOMAIN A = 1..Len(es) /\ A = [i \in 1..Len(es) |-> A[i]]
    BY <1>3
  <2> QED BY <1>2, <2>1, IsList
<1>5. ASSUME NEW a \in Members(A)
      PROVE  /\ a.name \in namesSince[a.pid] \cup {NoName}
             /\ Key(a)[1] # "UPLOAD_ACTIVITY" /\ Key(a)[1] # "DOWNLOAD_ACTIVITY"
  <2>1. PICK i \in DOMAIN A : a = A[i]
    BY DEF Members
  <2>2. a = Activity(type(i), PidOf[es[i].conn], name(i), es[i].conn, RemoteOf[es[i].conn], 0, 0)
    BY <1>3, <2>1
  <2>3. type(i) # "UPLOAD_ACTIVITY" /\ type(i) # "DOWNLOAD_ACTIVITY"
    OBVIOUS
  <2>4. name(i) \in namesSince[PidOf[es[i].conn]] \cup {NoName}
    BY DEF Collector!resolveProcessName, CollectionInv, NamesCurrent
  <2> HIDE DEF type, name
  <2>5. a.pid = PidOf[es[i].conn] /\ a.name = name(i) /\ Key(a)[1] = type(i)
    BY <2>2, ActivityFields
  <2> QED BY <2>3, <2>4, <2>5
<1> QED BY <1>4, <1>5 DEF NoTotals

\* Totals: all but 0, under the connection's PID and remote endpoint.
LEMMA UploadsSeen ==
    ASSUME NEW stats, IsFiniteSet(Collector!Counted(stats)),
           \A c \in DOMAIN stats : stats[c].processName = NoName,
           NEW s \in SetToSeqs(Collector!Counted(stats)),
           NEW A, A = Collector!UploadActivities(s, stats)
    PROVE  /\ A \in Seq(Members(A))
           /\ \A a \in Members(A) : \E c \in DOMAIN stats :
                 a = Activity("UPLOAD_ACTIVITY", PidOf[c], NoName, NoText, RemoteOf[c],
                              stats[c].uploadedBytes, 0)
           /\ \A c \in DOMAIN stats : stats[c].uploadedBytes # 0 =>
                 Activity("UPLOAD_ACTIVITY", PidOf[c], NoName, NoText, RemoteOf[c],
                          stats[c].uploadedBytes, 0) \in Members(A)
<1> DEFINE S == Collector!Counted(stats)
           F(c) == Activity("UPLOAD_ACTIVITY", PidOf[c], NoName, NoText, RemoteOf[c],
                            stats[c].uploadedBytes, 0)
<1>1. Members(s) = S /\ DOMAIN s = 1..Len(s) /\ Len(s) \in Nat
  BY OrdersList, ListsAll
<1>2. S \subseteq DOMAIN stats /\ \A c \in DOMAIN stats : stats[c].uploadedBytes # 0 => c \in S
  BY DEF Collector!Counted
<1> HIDE DEF S
<1>3. \A i \in DOMAIN s : s[i] \in S
  BY <1>1 DEF Members
<1>4. A = [i \in DOMAIN s |-> Activity("UPLOAD_ACTIVITY", PidOf[s[i]], stats[s[i]].processName,
                                       NoText, RemoteOf[s[i]], stats[s[i]].uploadedBytes, 0)]
  BY DEF Collector!UploadActivities, Activity
<1>5. A = [i \in 1..Len(s) |-> F(s[i])]
  BY <1>1, <1>2, <1>3, <1>4
<1> HIDE DEF F
<1>6. A \in Seq(Members(A))
  <2>1. DOMAIN A = 1..Len(s) /\ A = [i \in 1..Len(s) |-> A[i]]
    BY <1>5
  <2> QED BY <1>1, <2>1, IsList
<1>7. \A a \in Members(A) : \E c \in DOMAIN stats : a = F(c)
  BY <1>1, <1>2, <1>3, <1>5 DEF Members
<1>8. \A c \in DOMAIN stats : stats[c].uploadedBytes # 0 => F(c) \in Members(A)
  BY <1>1, <1>2, <1>5 DEF Members
<1> QED BY <1>6, <1>7, <1>8 DEF F

\* Downloads alike.
LEMMA DownloadsSeen ==
    ASSUME NEW stats, IsFiniteSet(Collector!Counted(stats)),
           \A c \in DOMAIN stats : stats[c].processName = NoName,
           NEW s \in SetToSeqs(Collector!Counted(stats)),
           NEW A, A = Collector!DownloadActivities(s, stats)
    PROVE  /\ A \in Seq(Members(A))
           /\ \A a \in Members(A) : \E c \in DOMAIN stats :
                 a = Activity("DOWNLOAD_ACTIVITY", PidOf[c], NoName, NoText, RemoteOf[c],
                              0, stats[c].uploadedBytes)
           /\ \A c \in DOMAIN stats : stats[c].uploadedBytes # 0 =>
                 Activity("DOWNLOAD_ACTIVITY", PidOf[c], NoName, NoText, RemoteOf[c],
                          0, stats[c].uploadedBytes) \in Members(A)
<1> DEFINE S == Collector!Counted(stats)
           F(c) == Activity("DOWNLOAD_ACTIVITY", PidOf[c], NoName, NoText, RemoteOf[c],
                            0, stats[c].uploadedBytes)
<1>1. Members(s) = S /\ DOMAIN s = 1..Len(s) /\ Len(s) \in Nat
  BY OrdersList, ListsAll
<1>2. S \subseteq DOMAIN stats /\ \A c \in DOMAIN stats : stats[c].uploadedBytes # 0 => c \in S
  BY DEF Collector!Counted
<1> HIDE DEF S
<1>3. \A i \in DOMAIN s : s[i] \in S
  BY <1>1 DEF Members
<1>4. A = [i \in DOMAIN s |-> Activity("DOWNLOAD_ACTIVITY", PidOf[s[i]], stats[s[i]].processName,
                                       NoText, RemoteOf[s[i]], 0, stats[s[i]].uploadedBytes)]
  BY DEF Collector!DownloadActivities, Activity
<1>5. A = [i \in 1..Len(s) |-> F(s[i])]
  BY <1>1, <1>2, <1>3, <1>4
<1> HIDE DEF F
<1>6. A \in Seq(Members(A))
  <2>1. DOMAIN A = 1..Len(s) /\ A = [i \in 1..Len(s) |-> A[i]]
    BY <1>5
  <2> QED BY <1>1, <2>1, IsList
<1>7. \A a \in Members(A) : \E c \in DOMAIN stats : a = F(c)
  BY <1>1, <1>2, <1>3, <1>5 DEF Members
<1>8. \A c \in DOMAIN stats : stats[c].uploadedBytes # 0 => F(c) \in Members(A)
  BY <1>1, <1>2, <1>5 DEF Members
<1> QED BY <1>6, <1>7, <1>8 DEF F

\* An update of the transfer trackers: the totals are of what was read, and
\* still have no names.
LEMMA TotalsPolled ==
    ASSUME CollectionInv, NEW read, NEW counters,
           PollTransfers(read, counters)
    PROVE  /\ DOMAIN activeUploads' = read /\ DOMAIN activeDownloads' = read
           /\ TotalsNameless'
<1>1. PICK rows : rows = TransferRows(read, counters)
  OBVIOUS
<1>2. DOMAIN rows = read /\ \A c \in read : rows[c].conn = c /\ rows[c].name = NoName
  BY <1>1 DEF TransferRows
<1>3. activeUploads' = [c \in DOMAIN rows |->
                          IF c \in DOMAIN activeUploads THEN Upload!KeepTracking(rows[c], 1)
                          ELSE Upload!StartTracking(rows[c], 1)]
  BY <1>1 DEF PollTransfers, Upload!NextActive
<1>4. activeDownloads' = [c \in DOMAIN rows |->
            IF c \in DOMAIN activeDownloads THEN Download!Received!KeepTracking(rows[c], 1)
            ELSE Download!Received!StartTracking(rows[c], 1)]
  BY <1>1 DEF PollTransfers, Download!Received!NextActive
<1>5. ASSUME NEW c \in read PROVE activeUploads'[c].processName = NoName
  <2>1. CASE c \in DOMAIN activeUploads
    <3>1. activeUploads'[c] = Upload!KeepTracking(rows[c], 1)
      BY <1>2, <1>3, <2>1
    <3>2. activeUploads'[c].processName = activeUploads[c].processName
      BY <1>2, <3>1 DEF Upload!KeepTracking, Upload!makeKey
    <3> QED BY <2>1, <3>2 DEF CollectionInv, TotalsNameless
  <2>2. CASE c \notin DOMAIN activeUploads
    <3>1. activeUploads'[c] = Upload!StartTracking(rows[c], 1)
      BY <1>2, <1>3, <2>2
    <3> QED BY <1>2, <3>1 DEF Upload!StartTracking
  <2> QED BY <2>1, <2>2
<1>6. ASSUME NEW c \in read PROVE activeDownloads'[c].processName = NoName
  <2>1. CASE c \in DOMAIN activeDownloads
    <3>1. activeDownloads'[c] = Download!Received!KeepTracking(rows[c], 1)
      BY <1>2, <1>4, <2>1
    <3>2. activeDownloads'[c].processName = activeDownloads[c].processName
      BY <1>2, <3>1 DEF Download!Received!KeepTracking, Download!Received!makeKey
    <3> QED BY <2>1, <3>2 DEF CollectionInv, TotalsNameless
  <2>2. CASE c \notin DOMAIN activeDownloads
    <3>1. activeDownloads'[c] = Download!Received!StartTracking(rows[c], 1)
      BY <1>2, <1>4, <2>2
    <3> QED BY <1>2, <3>1 DEF Download!Received!StartTracking
  <2> QED BY <2>1, <2>2
<1>7. DOMAIN activeUploads' = read /\ DOMAIN activeDownloads' = read
  BY <1>2, <1>3, <1>4
<1> QED BY <1>5, <1>6, <1>7 DEF TotalsNameless

\* The totals of connection c.
SentBy(c) == [direction |-> "sent", pid |-> PidOf[c], remote |-> RemoteOf[c],
              total |-> activeUploads[c].cumulative]
ReceivedBy(c) == [direction |-> "received", pid |-> PidOf[c], remote |-> RemoteOf[c],
                  total |-> activeDownloads[c].cumulative]

\* What a poll of the transfers hands to the collector: the totals the trackers
\* show, all of them but 0.
LEMMA TotalsSeen ==
    ASSUME CollectionInv, NEW read \in SUBSET Conns, NEW counters,
           PollTransfers(read, counters)
    PROVE  \E A :
              /\ A \in Seq(Members(A)) /\ Collector!collect(A)
              /\ \A a \in Members(A) : a.name = NoName /\ ShownOf(Key(a), ShownTotals')
              /\ \A t \in ShownTotals' : t.total # 0 =>
                    \E a \in Members(A) : /\ Records(a, t)
                                          /\ \A K : ShownOf(Key(a), K) => t \in K
<1> DEFINE upStats == [c \in read |-> Upload!toStats(activeUploads'[c], TRUE)]
           downStats == [c \in read |-> Download!toStats(activeDownloads'[c], TRUE)]
<1>2. PICK up \in SetToSeqs(Collector!Counted(upStats)),
           down \in SetToSeqs(Collector!Counted(downStats)) :
           Collector!collect(Collector!UploadActivities(up, upStats)
                             \o Collector!DownloadActivities(down, downStats))
  BY DEF PollTransfers
<1>3. /\ DOMAIN activeUploads' = read /\ DOMAIN activeDownloads' = read
      /\ \A c \in read : activeUploads'[c].processName = NoName
      /\ \A c \in read : activeDownloads'[c].processName = NoName
  BY TotalsPolled DEF TotalsNameless
<1>4. /\ DOMAIN upStats = read
      /\ \A c \in read : upStats[c].processName = NoName
                         /\ upStats[c].uploadedBytes = activeUploads'[c].cumulative
  BY <1>3 DEF Upload!toStats
<1>5. /\ DOMAIN downStats = read
      /\ \A c \in read : downStats[c].processName = NoName
                         /\ downStats[c].uploadedBytes = activeDownloads'[c].cumulative
  BY <1>3 DEF Download!toStats, Download!Received!toStats
<1> HIDE DEF upStats, downStats
<1>6. IsFiniteSet(read)
  BY HostFinite, FS_Subset
<1>7. IsFiniteSet(Collector!Counted(upStats)) /\ IsFiniteSet(Collector!Counted(downStats))
  <2>1. Collector!Counted(upStats) \in SUBSET read /\ Collector!Counted(downStats) \in SUBSET read
    BY <1>4, <1>5 DEF Collector!Counted
  <2> QED BY <1>6, <2>1, FS_Subset
<1> DEFINE U(c) == Activity("UPLOAD_ACTIVITY", PidOf[c], NoName, NoText, RemoteOf[c],
                            activeUploads'[c].cumulative, 0)
           D(c) == Activity("DOWNLOAD_ACTIVITY", PidOf[c], NoName, NoText, RemoteOf[c],
                            0, activeDownloads'[c].cumulative)
<1>8. PICK AU : AU = Collector!UploadActivities(up, upStats)
  OBVIOUS
<1>9. PICK AD : AD = Collector!DownloadActivities(down, downStats)
  OBVIOUS
<1>10. /\ AU \in Seq(Members(AU))
       /\ \A a \in Members(AU) : \E c \in read : a = U(c)
       /\ \A c \in read : activeUploads'[c].cumulative # 0 => U(c) \in Members(AU)
  BY <1>4, <1>7, <1>8, UploadsSeen
<1>11. /\ AD \in Seq(Members(AD))
       /\ \A a \in Members(AD) : \E c \in read : a = D(c)
       /\ \A c \in read : activeDownloads'[c].cumulative # 0 => D(c) \in Members(AD)
  BY <1>5, <1>7, <1>9, DownloadsSeen
<1> HIDE DEF U, D
<1>12. PICK A : /\ A = AU \o AD /\ A \in Seq(Members(A))
                /\ Members(A) = Members(AU) \cup Members(AD)
  BY <1>10, <1>11, ListsJoined
<1>13. Collector!collect(A)
  BY <1>2, <1>8, <1>9, <1>12
<1>14. ASSUME NEW c \in read
       PROVE  /\ SentBy(c)' \in ShownTotals' /\ ReceivedBy(c)' \in ShownTotals'
              /\ U(c).name = NoName /\ D(c).name = NoName
              /\ \A K : ShownOf(Key(U(c)), K) <=> SentBy(c)' \in K
              /\ \A K : ShownOf(Key(D(c)), K) <=> ReceivedBy(c)' \in K
              /\ Records(U(c), SentBy(c)') /\ Records(D(c), ReceivedBy(c)')
  <2>1. SentBy(c)' \in ShownTotals' /\ ReceivedBy(c)' \in ShownTotals'
    BY <1>3 DEF SentBy, ReceivedBy, ShownTotals
  <2>2. /\ U(c).name = NoName /\ Records(U(c), SentBy(c)')
        /\ \A K : ShownOf(Key(U(c)), K) <=> SentBy(c)' \in K
    BY DEF U, Activity, Collector!Activity, Key, Collector!Key, ShownOf, TotalOf, SentBy, Records
  <2>3. /\ D(c).name = NoName /\ Records(D(c), ReceivedBy(c)')
        /\ \A K : ShownOf(Key(D(c)), K) <=> ReceivedBy(c)' \in K
    BY DEF D, Activity, Collector!Activity, Key, Collector!Key, ShownOf, TotalOf, ReceivedBy,
           Records
  <2> QED BY <2>1, <2>2, <2>3
<1>15. ASSUME NEW a \in Members(A) PROVE a.name = NoName /\ ShownOf(Key(a), ShownTotals')
  <2>1. CASE a \in Members(AU)
    <3>1. PICK c \in read : a = U(c)
      BY <1>10, <2>1
    <3> QED BY <1>14, <3>1
  <2>2. CASE a \in Members(AD)
    <3>1. PICK c \in read : a = D(c)
      BY <1>11, <2>2
    <3> QED BY <1>14, <3>1
  <2> QED BY <1>12, <2>1, <2>2
<1>16. ASSUME NEW t \in ShownTotals', t.total # 0
       PROVE  \E a \in Members(A) : Records(a, t) /\ \A K : ShownOf(Key(a), K) => t \in K
  <2>1. PICK c \in read : t = SentBy(c)' \/ t = ReceivedBy(c)'
    BY <1>3 DEF ShownTotals, SentBy, ReceivedBy
  <2>2. CASE t = SentBy(c)'
    <3>1. activeUploads'[c].cumulative # 0
      BY <1>16, <2>2 DEF SentBy
    <3>2. U(c) \in Members(A)
      BY <1>10, <1>12, <3>1
    <3> QED BY <1>14, <2>2, <3>2
  <2>3. CASE t = ReceivedBy(c)'
    <3>1. activeDownloads'[c].cumulative # 0
      BY <1>16, <2>3 DEF ReceivedBy
    <3>2. D(c) \in Members(A)
      BY <1>11, <1>12, <3>1
    <3> QED BY <1>14, <2>3, <3>2
  <2> QED BY <2>1, <2>2, <2>3
<1>17. A \in Seq(Members(A))
  BY <1>12
<1> QED BY <1>13, <1>15, <1>16, <1>17, Zenon

-----------------------------------------------------------------------------
(* Collection: the invariant is kept by every step.                        *)

\* It holds at first.
LEMMA CollectionStarts ==
    ASSUME Init
    PROVE  CollectionInv
<1> USE DEF Init
<1>1. NamesCurrent
  <2>1. DOMAIN trackedProcesses = {}
    BY DEF Processes!Init, Processes!EmptyMap
  <2> QED BY <2>1 DEF NamesCurrent, HostInit
<1>2. DOMAIN activeUploads = {} /\ DOMAIN activeDownloads = {} /\ DOMAIN activeConnections = {}
  BY DEF EmptyMap, Connections!Init, Connections!EmptyMap
<1>3. DOMAIN eventsByProcess = {} /\ seenEventKeys = {}
  BY DEF Collector!Init, Collector!EmptyMap
<1>4. EventsListed /\ KeysKnown /\ KeysShown
  BY <1>3 DEF EventsListed, KeysKnown, KeysShown, Events
<1> QED BY <1>1, <1>2, <1>4 DEF CollectionInv, TotalsNameless

\* What is collected may be put on record if its totals are shown.
LEMMA CollectKeeps ==
    ASSUME CollectionInv, NEW A, A \in Seq(Members(A)), Collector!collect(A),
           shown \subseteq shown',
           \A a \in Members(A) : ShownOf(Key(a), shown')
    PROVE  EventsListed' /\ KeysKnown' /\ KeysShown'
<1>1. /\ EventsListed'
      /\ Events' \subseteq Events \cup Members(A)
      /\ seenEventKeys' = seenEventKeys \cup {Key(a) : a \in Members(A)}
  BY CollectEffect DEF CollectionInv
<1>2. \A e : Key(e)' = Key(e)
  BY DEF Key, Collector!Key
<1>3. KeysKnown'
  BY <1>1, <1>2 DEF CollectionInv, KeysKnown
<1>4. \A k : ShownOf(k, shown) => ShownOf(k, shown')
  BY DEF ShownOf
<1>5. \A k \in seenEventKeys' : ShownOf(k, shown')
  BY <1>1, <1>4 DEF CollectionInv, KeysShown
<1>6. KeysShown'
  BY <1>5 DEF KeysShown, ShownOf, TotalOf
<1> QED BY <1>1, <1>3, <1>6

\* Where nothing is collected, what is on record stays known.
LEMMA RecordKept ==
    ASSUME CollectionInv, UNCHANGED <<eventsByProcess, seenEventKeys, shown>>
    PROVE  EventsListed' /\ KeysKnown' /\ KeysShown'
<1>1. EventsListed' /\ KeysKnown'
  BY DEF CollectionInv, EventsListed, KeysKnown, Events, Members
<1>2. KeysShown'
  BY DEF CollectionInv, KeysShown, ShownOf, TotalOf
<1> QED BY <1>1, <1>2

\* Activities without totals may always be put on record.
LEMMA OthersKept ==
    ASSUME CollectionInv, NEW A, A \in Seq(Members(A)), NoTotals(A), Collector!collect(A),
           UNCHANGED shown
    PROVE  /\ EventsListed' /\ KeysKnown' /\ KeysShown'
           /\ \A e \in Events' \ Events : e.name \in namesSince[e.pid] \cup {NoName}
<1>1. \A a \in Members(A) : ShownOf(Key(a), shown')
  BY DEF NoTotals, ShownOf
<1>2. EventsListed' /\ KeysKnown' /\ KeysShown'
  BY <1>1, CollectKeeps
<1>3. Events' \subseteq Events \cup Members(A)
  BY CollectEffect DEF CollectionInv
<1> QED BY <1>2, <1>3 DEF NoTotals

\* Processes start and exit.
LEMMA HostMoves ==
    ASSUME CollectionInv, Environment
    PROVE  CollectionInv'
<1>1. /\ namesSince' = [p \in Pids |-> namesSince[p] \cup {running'[p]}]
      /\ UNCHANGED <<trackedProcesses, activeConnections, activeUploads, activeDownloads,
                     eventsByProcess, seenEventKeys, shown>>
  BY DEF Environment, processVars, connectionVars, uploadVars, downloadVars, collectorVars
<1>2. NamesCurrent'
  <2>1. \A p \in Pids : running'[p] \in namesSince'[p] /\ namesSince[p] \subseteq namesSince'[p]
    BY <1>1
  <2> QED BY <1>1, <2>1 DEF CollectionInv, NamesCurrent
<1>3. EventsListed' /\ KeysKnown' /\ KeysShown'
  BY <1>1, RecordKept
<1> QED BY <1>1, <1>2, <1>3 DEF CollectionInv, TotalsNameless

\* What an update of the process tracker hands to the collector: creations
\* bear the names of the snapshot.
LEMMA ProcessChanges ==
    ASSUME CollectionInv,
           NEW reached \in SUBSET Pids, NEW snap, snap = getActiveProcesses(reached),
           NEW es \in SetToSeqs(Processes!Changes(snap))
    PROVE  /\ es \in Seq(Members(es))
           /\ \A e \in Members(es) :
                 e.type = "CREATED" => e.pid \in Pids /\ e.info.name = running[e.pid]
<1>3. /\ DOMAIN snap \in SUBSET Pids
      /\ \A p \in DOMAIN snap : p \in Pids /\ snap[p].name = running[p]
  BY SnapshotNames
<1> DEFINE changes == Processes!Changes(snap)
           created == Processes!Created(snap)
           terminated == Processes!Terminated(snap)
<1>4. \A e \in created : e.pid \in DOMAIN snap /\ e.info = snap[e.pid]
  BY DEF Processes!Created, Processes!Event
<1>5. \A e \in terminated : e.type # "CREATED"
  BY DEF Processes!Terminated, Processes!Event
<1>6. IsFiniteSet(created)
  <2> DEFINE P == DOMAIN snap \ DOMAIN trackedProcesses
             F(p) == Processes!Event("CREATED", p, snap[p])
  <2>1. P \in SUBSET Pids
    BY <1>3
  <2>2. IsFiniteSet(P)
    BY <2>1, HostFinite, FS_Subset
  <2>3. created = {F(p) : p \in P}
    BY DEF Processes!Created
  <2> HIDE DEF P, F
  <2>4. PICK f : f = [p \in P |-> F(p)]
    OBVIOUS
  <2>5. f \in Surjection(P, {F(p) : p \in P})
    BY <2>4 DEF Surjection
  <2>6. IsFiniteSet({F(p) : p \in P})
    BY <2>2, <2>5, FS_Surjection
  <2> QED BY <2>3, <2>6
<1>7. IsFiniteSet(terminated)
  <2> DEFINE P == DOMAIN trackedProcesses \ DOMAIN snap
             F(p) == Processes!Event("TERMINATED", p,
                        [trackedProcesses[p] EXCEPT !.status = "TERMINATED"])
  <2>1. P \in SUBSET Pids
    BY DEF CollectionInv, NamesCurrent
  <2>2. IsFiniteSet(P)
    BY <2>1, HostFinite, FS_Subset
  <2>3. terminated = {F(p) : p \in P}
    BY DEF Processes!Terminated
  <2> HIDE DEF P, F
  <2>4. PICK f : f = [p \in P |-> F(p)]
    OBVIOUS
  <2>5. f \in Surjection(P, {F(p) : p \in P})
    BY <2>4 DEF Surjection
  <2>6. IsFiniteSet({F(p) : p \in P})
    BY <2>2, <2>5, FS_Surjection
  <2> QED BY <2>3, <2>6
<1>8. changes \subseteq created \cup terminated /\ IsFiniteSet(changes)
  <2>1. changes = created \cup terminated \/ changes = {}
    BY DEF Processes!Changes
  <2> HIDE DEF changes, created, terminated
  <2>2. IsFiniteSet(created \cup terminated) /\ IsFiniteSet({})
    BY <1>6, <1>7, FS_Union, FS_EmptySet
  <2> QED BY <2>1, <2>2
<1> HIDE DEF changes, created, terminated
<1>9. es \in Seq(Members(es)) /\ Members(es) = changes
  BY <1>8, OrdersList, ListsAll DEF changes
<1>10. ASSUME NEW e \in Members(es), e.type = "CREATED"
       PROVE  e.pid \in Pids /\ e.info.name = running[e.pid]
  <2>1. e \in created
    BY <1>5, <1>8, <1>9, <1>10
  <2> QED BY <1>3, <1>4, <2>1
<1> QED BY <1>9, <1>10

\* A poll reads the processes.
LEMMA ProcessesPolled ==
    ASSUME CollectionInv, NEW reached \in SUBSET Pids, PollProcesses(reached)
    PROVE  /\ CollectionInv'
           /\ \A e \in Events' \ Events : e.name \in namesSince[e.pid] \cup {NoName}
<1>1. PICK snap : snap = getActiveProcesses(reached)
  OBVIOUS
<1>2. PICK es \in SetToSeqs(Processes!Changes(snap)) :
          Collector!collect(Collector!ProcessActivities(es))
  BY <1>1 DEF PollProcesses
<1>3. /\ trackedProcesses' = snap
      /\ namesSince' = [p \in Pids |-> {running[p]}]
      /\ UNCHANGED <<running, activeConnections, activeUploads, activeDownloads, shown>>
  BY <1>1 DEF PollProcesses, Processes!update, hostVars, connectionVars, uploadVars,
              downloadVars
<1>4. PICK A : A = Collector!ProcessActivities(es)
  OBVIOUS
<1>5. A \in Seq(Members(A)) /\ NoTotals(A)
  BY <1>1, <1>4, ProcessChanges, ProcessesSeen
<1>6. /\ EventsListed' /\ KeysKnown' /\ KeysShown'
      /\ \A e \in Events' \ Events : e.name \in namesSince[e.pid] \cup {NoName}
  BY <1>2, <1>3, <1>4, <1>5, OthersKept
<1>7. NamesCurrent'
  <2>1. \A p \in DOMAIN snap : p \in Pids /\ snap[p].name = running[p]
    BY <1>1, SnapshotNames
  <2> QED BY <1>3, <2>1 DEF NamesCurrent
<1> QED BY <1>3, <1>6, <1>7 DEF CollectionInv, TotalsNameless

\* The processes of the monitor are handed to the collector.
LEMMA ProcessesSeeded ==
    ASSUME CollectionInv, NEW reached \in SUBSET Pids, SeedProcesses(reached)
    PROVE  /\ CollectionInv'
           /\ \A e \in Events' \ Events : e.name \in namesSince[e.pid] \cup {NoName}
<1>1. PICK snap : snap = getActiveProcesses(reached)
  OBVIOUS
<1>2. PICK pids \in SetToSeqs(DOMAIN snap) :
          Collector!collect(Collector!ActiveActivities(pids, snap))
  BY <1>1 DEF SeedProcesses
<1>3. UNCHANGED <<running, trackedProcesses, activeConnections, activeUploads, activeDownloads,
                  namesSince, shown>>
  BY DEF SeedProcesses, hostVars, processVars, connectionVars, uploadVars, downloadVars,
         shownVars
<1>4. PICK A : A = Collector!ActiveActivities(pids, snap)
  OBVIOUS
<1>5. A \in Seq(Members(A)) /\ NoTotals(A)
  BY <1>1, <1>4, ActiveSeen
<1>6. /\ EventsListed' /\ KeysKnown' /\ KeysShown'
      /\ \A e \in Events' \ Events : e.name \in namesSince[e.pid] \cup {NoName}
  BY <1>2, <1>3, <1>4, <1>5, OthersKept
<1> QED BY <1>3, <1>6 DEF CollectionInv, TotalsNameless, NamesCurrent

\* A poll reads the connections.
LEMMA ConnectionsPolled ==
    ASSUME CollectionInv, NEW read \in SUBSET Conns, PollConnections(read)
    PROVE  /\ CollectionInv'
           /\ \A e \in Events' \ Events : e.name \in namesSince[e.pid] \cup {NoName}
<1>1. PICK rows : rows = [c \in read |-> [conn |-> c]]
  OBVIOUS
<1>2. PICK es \in Connections!Changes(rows) :
          /\ Connections!Apply(rows, es)
          /\ Collector!collect(Collector!ConnectionActivities(es, trackedProcesses))
  BY <1>1 DEF PollConnections
<1>3. /\ activeConnections' = rows
      /\ UNCHANGED <<running, trackedProcesses, activeUploads, activeDownloads, namesSince,
                     shown>>
  BY <1>2 DEF PollConnections, Connections!Apply, hostVars, processVars, uploadVars,
              downloadVars, shownVars
<1>4. PICK A : A = Collector!ConnectionActivities(es, trackedProcesses)
  OBVIOUS
<1>5. DOMAIN rows \subseteq Conns
  BY <1>1
<1>6. A \in Seq(Members(A)) /\ NoTotals(A)
  BY <1>4, <1>5, ConnectionsSeen
<1>7. /\ EventsListed' /\ KeysKnown' /\ KeysShown'
      /\ \A e \in Events' \ Events : e.name \in namesSince[e.pid] \cup {NoName}
  BY <1>2, <1>3, <1>4, <1>6, OthersKept
<1> QED BY <1>3, <1>5, <1>7 DEF CollectionInv, TotalsNameless, NamesCurrent

\* A poll reads the counters.  A total that was not shown before cannot be known
\* to the collector, so it is put on record.
LEMMA TransfersPolled ==
    ASSUME CollectionInv, NEW read \in SUBSET Conns, NEW counters,
           PollTransfers(read, counters)
    PROVE  /\ CollectionInv'
           /\ \A e \in Events' \ Events : e.name \in namesSince[e.pid] \cup {NoName}
           /\ \A t \in shown' \ shown :
                 t.total # 0 => \E e \in Events' \ Events : Records(e, t)
<1>1. /\ shown' = shown \cup ShownTotals'
      /\ UNCHANGED <<running, trackedProcesses, activeConnections, namesSince>>
  BY DEF PollTransfers, hostVars, processVars, connectionVars
<1>2. PICK A :
          /\ A \in Seq(Members(A)) /\ Collector!collect(A)
          /\ \A a \in Members(A) : a.name = NoName /\ ShownOf(Key(a), ShownTotals')
          /\ \A t \in ShownTotals' : t.total # 0 =>
                \E a \in Members(A) : /\ Records(a, t)
                                      /\ \A K : ShownOf(Key(a), K) => t \in K
  BY TotalsSeen
<1>3. \A a \in Members(A) : ShownOf(Key(a), shown')
  BY <1>1, <1>2 DEF ShownOf
<1>4. EventsListed' /\ KeysKnown' /\ KeysShown'
  BY <1>1, <1>2, <1>3, CollectKeeps
<1>5. /\ Events' \subseteq Events \cup Members(A)
      /\ \A a \in Members(A) : Key(a) \notin seenEventKeys =>
            \E e \in Members(A) : e \in Events' /\ Key(e) = Key(a)
  BY <1>2, CollectEffect DEF CollectionInv
<1>6. CollectionInv'
  <2>1. TotalsNameless'
    BY TotalsPolled
  <2> QED BY <1>1, <1>4, <2>1 DEF CollectionInv, NamesCurrent
<1>7. ASSUME NEW t \in shown' \ shown, t.total # 0
      PROVE  \E e \in Events' \ Events : Records(e, t)
  <2>1. PICK a \in Members(A) : Records(a, t) /\ \A K : ShownOf(Key(a), K) => t \in K
    BY <1>1, <1>2, <1>7
  <2>2. Key(a) \notin seenEventKeys
    BY <1>7, <2>1 DEF CollectionInv, KeysShown
  <2>3. PICK e \in Members(A) : e \in Events' /\ Key(e) = Key(a)
    BY <1>5, <2>2
  <2>4. e \notin Events
    BY <2>2, <2>3 DEF CollectionInv, KeysKnown
  <2>5. Records(e, t)
    BY <2>1, <2>3 DEF Records, Key, Collector!Key
  <2> QED BY <2>3, <2>4, <2>5
<1> QED BY <1>2, <1>5, <1>6, <1>7

\* The collector forgets everything, or a tracker does.
LEMMA CollectionReset ==
    ASSUME CollectionInv, Reset
    PROVE  CollectionInv' /\ Events' \subseteq Events /\ shown' \subseteq shown
<1>1. CASE ResetCollector
  <2>1. DOMAIN eventsByProcess' = {} /\ seenEventKeys' = {} /\ shown' = {}
    BY <1>1 DEF ResetCollector, Collector!reset, Collector!EmptyMap
  <2>2. UNCHANGED <<running, trackedProcesses, activeConnections, activeUploads,
                    activeDownloads, namesSince>>
    BY <1>1 DEF ResetCollector, hostVars, processVars, connectionVars, uploadVars, downloadVars
  <2>3. Events' = {}
    BY <2>1 DEF Events
  <2>4. EventsListed' /\ KeysKnown' /\ KeysShown'
    BY <2>1, <2>3 DEF EventsListed, KeysKnown, KeysShown
  <2> QED BY <2>1, <2>2, <2>3, <2>4 DEF CollectionInv, TotalsNameless, NamesCurrent
<1>2. CASE ResetProcesses \/ ResetConnections \/ ResetUploads \/ ResetDownloads
  <2>1. UNCHANGED <<running, namesSince, eventsByProcess, seenEventKeys, shown>>
    BY <1>2 DEF ResetProcesses, ResetConnections, ResetUploads, ResetDownloads, hostVars,
                collectorVars, shownVars
  <2>2. \/ UNCHANGED trackedProcesses
        \/ DOMAIN trackedProcesses' = {}
    BY <1>2 DEF ResetProcesses, ResetConnections, ResetUploads, ResetDownloads, processVars,
                Processes!reset, Processes!EmptyMap
  <2>3. \/ UNCHANGED activeConnections
        \/ DOMAIN activeConnections' = {}
    BY <1>2 DEF ResetProcesses, ResetConnections, ResetUploads, ResetDownloads, connectionVars,
                Connections!reset, Connections!EmptyMap
  <2>4. \/ UNCHANGED activeUploads
        \/ DOMAIN activeUploads' = {}
    BY <1>2 DEF ResetProcesses, ResetConnections, ResetUploads, ResetDownloads, uploadVars,
                EmptyMap
  <2>5. \/ UNCHANGED activeDownloads
        \/ DOMAIN activeDownloads' = {}
    BY <1>2 DEF ResetProcesses, ResetConnections, ResetUploads, ResetDownloads, downloadVars,
                EmptyMap
  <2>6. NamesCurrent'
    BY <2>1, <2>2 DEF CollectionInv, NamesCurrent
  <2>7. TotalsNameless'
    BY <2>4, <2>5 DEF CollectionInv, TotalsNameless
  <2>8. EventsListed' /\ KeysKnown' /\ KeysShown' /\ Events' = Events
    BY <2>1, RecordKept DEF Events
  <2> QED BY <2>1, <2>3, <2>6, <2>7, <2>8 DEF CollectionInv
<1> QED BY <1>1, <1>2 DEF Reset

\* Nothing happens.
LEMMA CollectionStutters ==
    ASSUME CollectionInv, UNCHANGED vars
    PROVE  CollectionInv' /\ Events' = Events /\ shown' = shown
<1>1. UNCHANGED <<running, trackedProcesses, activeConnections, activeUploads, activeDownloads,
                  namesSince, shown, eventsByProcess, seenEventKeys>>
  BY DEF vars, hostVars, processVars, collectorVars, connectionVars, uploadVars, downloadVars,
         shownVars
<1>2. EventsListed' /\ KeysKnown' /\ KeysShown' /\ Events' = Events
  BY <1>1, RecordKept DEF Events
<1> QED BY <1>1, <1>2 DEF CollectionInv, TotalsNameless, NamesCurrent

\* A step keeps the invariant, adds events only with names their PIDs had since
\* the last process snapshot, and records every total that is shown first.
LEMMA CollectionStep ==
    ASSUME CollectionInv, [Next]_vars
    PROVE  /\ CollectionInv'
           /\ \A e \in Events' \ Events : e.name \in namesSince[e.pid] \cup {NoName}
           /\ \A t \in shown' \ shown :
                 t.total # 0 => \E e \in Events' \ Events : Records(e, t)
<1>1. CASE Environment
  <2>1. Events' = Events /\ shown' = shown
    BY <1>1 DEF Environment, collectorVars, Events
  <2> QED BY <1>1, <2>1, HostMoves
<1>2. ASSUME NEW reached \in SUBSET Pids, PollProcesses(reached) \/ SeedProcesses(reached)
      PROVE  /\ CollectionInv' /\ shown' = shown
             /\ \A e \in Events' \ Events : e.name \in namesSince[e.pid] \cup {NoName}
  <2>1. shown' = shown
    BY <1>2 DEF PollProcesses, SeedProcesses, shownVars
  <2> QED BY <1>2, <2>1, ProcessesPolled, ProcessesSeeded
<1>3. ASSUME NEW read \in Listings, PollConnections(read)
      PROVE  /\ CollectionInv' /\ shown' = shown
             /\ \A e \in Events' \ Events : e.name \in namesSince[e.pid] \cup {NoName}
  <2>1. shown' = shown
    BY <1>3 DEF PollConnections, shownVars
  <2>2. read \in SUBSET Conns
    BY DEF Listings
  <2> QED BY <1>3, <2>1, <2>2, ConnectionsPolled
<1>4. ASSUME NEW read \in Listings, NEW counters, PollTransfers(read, counters)
      PROVE  /\ CollectionInv'
             /\ \A e \in Events' \ Events : e.name \in namesSince[e.pid] \cup {NoName}
             /\ \A t \in shown' \ shown :
                   t.total # 0 => \E e \in Events' \ Events : Records(e, t)
  <2>1. read \in SUBSET Conns
    BY DEF Listings
  <2> QED BY <1>4, <2>1, TransfersPolled
<1>5. CASE Poll
  <2>1. \/ \E reached \in SUBSET Pids : PollProcesses(reached) \/ SeedProcesses(reached)
        \/ \E read \in Listings : PollConnections(read)
        \/ \E read \in Listings : \E counters : PollTransfers(read, counters)
    BY <1>5 DEF Poll
  <2> QED BY <1>2, <1>3, <1>4, <2>1
<1>6. CASE Reset
  BY <1>6, CollectionReset
<1>7. CASE UNCHANGED vars
  BY <1>7, CollectionStutters
<1> QED BY <1>1, <1>5, <1>6, <1>7 DEF Next

\* Every state satisfies the invariant.
LEMMA CollectionInvariance ==
    Spec => []CollectionInv
<1>1. Init => CollectionInv
  BY CollectionStarts
<1>2. CollectionInv /\ [Next]_vars => CollectionInv'
  BY CollectionStep
<1> QED BY <1>1, <1>2, PTL DEF Spec

-----------------------------------------------------------------------------
(* Collection: the theorems.                                               *)

\* An event never bears the name of an earlier process with its PID that was
\* gone at the last process snapshot, whatever that snapshot listed
\* (TimelineEventCollector::resolveProcessName over
\* ProcessTracker::getTrackedProcesses).
THEOREM EventsNamedTruly ==
    Spec => NamesNotStale
<1>1. CollectionInv /\ [Next]_vars =>
        [\A e \in Events' \ Events :
            e.name \in namesSince[e.pid] \cup {NoName}]_vars
  BY CollectionStep
<1>2. Spec => []CollectionInv
  BY CollectionInvariance
<1> QED BY <1>1, <1>2, PTL DEF Spec, NamesNotStale

\* Dropping observations that were seen before never loses a total that is new
\* for its process and remote endpoint, although connections to the endpoint
\* share their keys, tables are lost, counters are read wrong and trackers are
\* reset (TimelineEventCollector::collectUploadStats, collectDownloadStats,
\* tryAdd and makeTransferKey; UploadTracker::update).
THEOREM GrowthNotMissed ==
    Spec => GrowthRecorded
<1>1. CollectionInv /\ [Next]_vars =>
        [\A t \in shown' \ shown :
            t.total # 0 => \E e \in Events' \ Events : Records(e, t)]_vars
  BY CollectionStep
<1>2. Spec => []CollectionInv
  BY CollectionInvariance
<1> QED BY <1>1, <1>2, PTL DEF Spec, GrowthRecorded
=============================================================================
