-------------------------- MODULE MachineListsProofs --------------------------
(***************************************************************************)
(* Proofs about MachineLists: the types, that the two lists of a machine   *)
(* own the strings of its requests, each once, and that the parameters an  *)
(* endpoint reads are those of its own URL.                                *)
(***************************************************************************)
EXTENDS MachineLists, FiniteSetTheorems, FunctionTheorems, SequenceTheorems,
        WellFoundedInduction, TLAPS

\* Every non-empty set of numbers has a least one.
LEMMA LeastExists ==
  ASSUME NEW S \in SUBSET Nat, S # {}
  PROVE  \E m \in S : \A k \in S : m <= k
<1> DEFINE R == OpToRel(<, Nat)
<1>1. IsWellFoundedOn(R, Nat)
  BY NatLessThanWellFounded
<1>2. PICK m \in S : \A n \in S : <<n, m>> \notin R
  BY <1>1, WFMin
<1>3. \A n \in S : <<n, m>> \in R <=> n < m
  BY DEF OpToRel
<1>4. \A n \in S : ~(n < m)
  BY <1>2, <1>3
<1> QED
  BY <1>4

-----------------------------------------------------------------------------
(***************************************************************************)
(* The growable list.                                                      *)
(***************************************************************************)
Cells == Addresses \cup {NULL, Garbage}
ListTypes == [capacity : Nat, len : Nat, array : Seq(Cells)]

\* The array has as many cells as the list says, and room for its elements.
Fits(l) == l \in ListTypes /\ Len(l.array) = l.capacity /\ l.len <= l.capacity

\* A new list has one cell, which is free.
LEMMA NewFits == Fits(list_new) /\ list_new.len = 0 /\ list_new.capacity = 1
<1>1. <<NULL>> \in Seq(Cells) /\ Len(<<NULL>>) = 1
  BY DEF Cells
<1> QED
  BY <1>1 DEF Fits, ListTypes, list_new

\* The two ways in which a list changes: its array, or its elements.
Regrown(l, c, a) == [l EXCEPT !.capacity = c, !.array = a]
Refilled(l, n, a) == [l EXCEPT !.array = a, !.len = n]

\* A list with a new array is one.
LEMMA RegrownFields ==
  ASSUME NEW l \in ListTypes, NEW c \in Nat, NEW a \in Seq(Cells)
  PROVE  LET g == Regrown(l, c, a) IN
         g \in ListTypes /\ g.capacity = c /\ g.len = l.len /\ g.array = a
BY DEF ListTypes, Regrown

\* A list with other elements is one.
LEMMA RefilledFields ==
  ASSUME NEW l \in ListTypes, NEW n \in Nat, NEW a \in Seq(Cells)
  PROVE  LET p == Refilled(l, n, a) IN
         p \in ListTypes /\ p.capacity = l.capacity /\ p.len = n /\ p.array = a
BY DEF ListTypes, Refilled

\* list_grow doubles the array and keeps what is in it.
LEMMA GrowFacts ==
  ASSUME NEW l, Fits(l)
  PROVE  LET g == list_grow(l) IN
         /\ Fits(g) /\ g.capacity = 2 * l.capacity /\ g.len = l.len
         /\ \A i \in 1..l.len : g.array[i] = l.array[i]
<1> DEFINE new == [i \in 1..l.capacity |-> Garbage]
           wide == l.array \o new
<1>1. /\ l \in ListTypes /\ l.capacity \in Nat /\ l.len \in Nat /\ l.len <= l.capacity
      /\ l.array \in Seq(Cells) /\ Len(l.array) = l.capacity
  BY DEF Fits, ListTypes
<1>2. new \in Seq(Cells) /\ Len(new) = l.capacity
  BY <1>1 DEF Cells
<1> HIDE DEF new
<1>3. /\ wide \in Seq(Cells) /\ Len(wide) = 2 * l.capacity
      /\ \A i \in 1..l.capacity : wide[i] = l.array[i]
  BY <1>1, <1>2
<1>4. list_grow(l) = Regrown(l, 2 * l.capacity, wide)
  BY DEF list_grow, new, Regrown
<1> HIDE DEF wide
<1>5. 2 * l.capacity \in Nat /\ l.len <= 2 * l.capacity
  BY <1>1
<1>6. \A i \in 1..l.len : i \in 1..l.capacity
  BY <1>1
<1>7. l \in ListTypes /\ wide \in Seq(Cells)
  BY <1>1, <1>3
<1> DEFINE g == list_grow(l)
<1>8. g \in ListTypes /\ g.capacity = 2 * l.capacity /\ g.len = l.len /\ g.array = wide
  BY <1>4, <1>5, <1>7, RegrownFields
<1> HIDE DEF g
<1>9. Fits(g) /\ \A i \in 1..l.len : g.array[i] = l.array[i]
  BY <1>3, <1>5, <1>6, <1>8 DEF Fits
<1> QED
  BY <1>8, <1>9 DEF g

\* An element that is put behind the others disturbs none of them.
LEMMA PutFacts ==
  ASSUME NEW l, Fits(l), l.len < l.capacity, NEW e \in Cells
  PROVE  LET p == Put(l, e) IN
         /\ Fits(p) /\ p.capacity = l.capacity /\ p.len = l.len + 1
         /\ p.array[l.len + 1] = e
         /\ \A i \in 1..l.len : p.array[i] = l.array[i]
<1> DEFINE n == l.len + 1
           filled == [l.array EXCEPT ![n] = e]
<1>1. /\ l \in ListTypes /\ l.capacity \in Nat /\ l.len \in Nat
      /\ l.array \in Seq(Cells) /\ Len(l.array) = l.capacity /\ n \in 1..l.capacity
  BY DEF Fits, ListTypes
<1>2. /\ filled \in Seq(Cells) /\ Len(filled) = l.capacity /\ filled[n] = e
      /\ \A i \in 1..l.len : filled[i] = l.array[i]
  BY <1>1
<1>3. Put(l, e) = Refilled(l, n, filled)
  BY DEF Put, Refilled
<1> HIDE DEF filled
<1>4. n \in Nat /\ n <= l.capacity
  BY <1>1
<1>5. l \in ListTypes /\ filled \in Seq(Cells)
  BY <1>1, <1>2
<1> DEFINE p == Put(l, e)
<1>6. p \in ListTypes /\ p.capacity = l.capacity /\ p.len = n /\ p.array = filled
  BY <1>3, <1>4, <1>5, RefilledFields
<1> HIDE DEF p
<1>7. Fits(p) /\ p.array[n] = e /\ \A i \in 1..l.len : p.array[i] = l.array[i]
  BY <1>2, <1>4, <1>6 DEF Fits
<1> QED
  BY <1>6, <1>7 DEF p

\* list_append puts an element behind the others, and doubles a full array.
LEMMA AppendFacts ==
  ASSUME NEW l, Fits(l), l.capacity >= 1, NEW e \in Cells
  PROVE  LET a == list_append(l, e) IN
         /\ Fits(a) /\ a.len = l.len + 1 /\ a.array[l.len + 1] = e
         /\ \A i \in 1..l.len : a.array[i] = l.array[i]
         /\ \/ a.capacity = l.capacity
            \/ a.capacity = 2 * l.capacity /\ l.capacity = l.len
<1>1. l.capacity \in Nat /\ l.len \in Nat /\ l.len <= l.capacity
  BY DEF Fits, ListTypes
<1>2. CASE l.len = l.capacity
  <2> DEFINE g == list_grow(l)
  <2>1. /\ Fits(g) /\ g.capacity = 2 * l.capacity /\ g.len = l.len
        /\ \A i \in 1..l.len : g.array[i] = l.array[i]
    BY GrowFacts
  <2>2. list_append(l, e) = Put(g, e)
    BY <1>2 DEF list_append
  <2> HIDE DEF g
  <2>3. g.len < g.capacity
    BY <1>1, <1>2, <2>1
  <2> QED
    BY <1>1, <1>2, <2>1, <2>2, <2>3, PutFacts
<1>3. CASE l.len # l.capacity
  <2>1. list_append(l, e) = Put(l, e) /\ l.len < l.capacity
    BY <1>1, <1>3 DEF list_append
  <2> QED
    BY <2>1, PutFacts
<1> QED
  BY <1>2, <1>3

-----------------------------------------------------------------------------
(***************************************************************************)
(* Appending one element after another.  A recursive function is what      *)
(* CHOOSE finds, so there must be one: it is built entry by entry.         *)
(***************************************************************************)
AppendEntry(f, l, s, k) == IF k = 0 THEN l ELSE list_append(f[k - 1], s[k])
IsAppending(f, l, s, n) == f = [k \in 0..n |-> AppendEntry(f, l, s, k)]

\* One entry more.
LEMMA AppendingGrows ==
  ASSUME NEW l, NEW s, NEW n \in Nat, NEW f, IsAppending(f, l, s, n)
  PROVE  \E g : IsAppending(g, l, s, n + 1)
<1> DEFINE g == [k \in 0..(n + 1) |-> IF k <= n THEN f[k] ELSE list_append(f[n], s[n + 1])]
<1>1. \A k \in 0..n : f[k] = AppendEntry(f, l, s, k)
  BY DEF IsAppending
<1>2. \A k \in 0..(n + 1) : g[k] = AppendEntry(g, l, s, k)
  <2> SUFFICES ASSUME NEW k \in 0..(n + 1) PROVE g[k] = AppendEntry(g, l, s, k)
    OBVIOUS
  <2>1. CASE k = 0
    <3>1. g[k] = f[k] /\ k \in 0..n
      BY <2>1
    <3> QED
      BY <1>1, <2>1, <3>1 DEF AppendEntry
  <2>2. CASE k \in 1..n
    <3>1. g[k] = f[k] /\ g[k - 1] = f[k - 1] /\ k \in 0..n /\ k # 0
      BY <2>2
    <3> HIDE DEF g
    <3> QED
      BY <1>1, <3>1 DEF AppendEntry
  <2>3. CASE k = n + 1
    <3>1. g[k] = list_append(f[n], s[k]) /\ k - 1 = n /\ g[n] = f[n] /\ k # 0
      BY <2>3
    <3> HIDE DEF g
    <3> QED
      BY <3>1 DEF AppendEntry
  <2> QED
    BY <2>1, <2>2, <2>3
<1>3. g = [k \in 0..(n + 1) |-> g[k]]
  OBVIOUS
<1> HIDE DEF g
<1>4. IsAppending(g, l, s, n + 1)
  BY <1>2, <1>3 DEF IsAppending
<1> QED
  BY <1>4

\* However many elements there are, there is such a function.
LEMMA AppendingExists ==
  ASSUME NEW l, NEW s, NEW n \in Nat
  PROVE  \E f : IsAppending(f, l, s, n)
<1> DEFINE S == {k \in Nat : ~\E f : IsAppending(f, l, s, k)}
<1>1. S = {}
  <2> SUFFICES ASSUME S # {} PROVE FALSE
    OBVIOUS
  <2>1. S \in SUBSET Nat
    OBVIOUS
  <2>2. PICK k \in S : \A j \in S : k <= j
    <3> HIDE DEF S
    <3> QED
      BY <2>1, LeastExists
  <2>3. k \in Nat /\ ~\E f : IsAppending(f, l, s, k)
    BY <2>2
  <2>4. k # 0
    <3> DEFINE f == [i \in 0..0 |-> l]
    <3>1. f = [i \in 0..0 |-> AppendEntry(f, l, s, i)]
      BY DEF AppendEntry
    <3> HIDE DEF f
    <3>2. IsAppending(f, l, s, 0)
      BY <3>1 DEF IsAppending
    <3> QED
      BY <2>3, <3>2
  <2>5. k - 1 \in Nat /\ k - 1 \notin S /\ (k - 1) + 1 = k
    BY <2>2, <2>3, <2>4
  <2>6. PICK f : IsAppending(f, l, s, k - 1)
    BY <2>5
  <2> QED
    BY <2>3, <2>5, <2>6, AppendingGrows
<1> QED
  BY <1>1

\* AppendAll is the last entry of one.
LEMMA AppendAllIsEntry ==
  ASSUME NEW l, NEW s, Len(s) \in Nat
  PROVE  \E f : IsAppending(f, l, s, Len(s)) /\ AppendAll(l, s) = f[Len(s)]
<1> DEFINE f == CHOOSE g : IsAppending(g, l, s, Len(s))
<1>1. IsAppending(f, l, s, Len(s))
  BY AppendingExists, Zenon
<1>2. AppendAll(l, s) = f[Len(s)]
  BY Zenon DEF AppendAll, IsAppending, AppendEntry
<1> QED
  BY <1>1, <1>2

\* The list a, when the first k elements of s were appended to l.
Appended(a, l, s, k) ==
  /\ Fits(a) /\ a.capacity >= 1 /\ a.len = l.len + k
  /\ \A i \in 1..l.len : a.array[i] = l.array[i]
  /\ \A i \in 1..k : a.array[l.len + i] = s[i]

\* One element more.  An array that is full is doubled, so no array is ever
\* more than twice as large as the elements it is used for.
LEMMA AppendedGrows ==
  ASSUME NEW l, Fits(l), NEW s \in Seq(Cells), NEW bound \in Nat,
         NEW k \in 0..(Len(s) - 1), l.len + Len(s) <= bound,
         NEW a, Appended(a, l, s, k), a.capacity <= 2 * bound
  PROVE  LET b == list_append(a, s[k + 1]) IN
         Appended(b, l, s, k + 1) /\ b.capacity <= 2 * bound
<1> DEFINE b == list_append(a, s[k + 1])
<1>1. s[k + 1] \in Cells /\ Len(s) \in Nat /\ l.len \in Nat
  BY DEF Fits, ListTypes
<1>2. Fits(a) /\ a.capacity >= 1 /\ a.len = l.len + k /\ a.capacity \in Nat /\ a.len \in Nat
  BY DEF Appended, Fits, ListTypes
<1>3. /\ Fits(b) /\ b.len = a.len + 1 /\ b.array[a.len + 1] = s[k + 1]
      /\ \A i \in 1..a.len : b.array[i] = a.array[i]
      /\ b.capacity = a.capacity \/ (b.capacity = 2 * a.capacity /\ a.capacity = a.len)
  BY <1>1, <1>2, AppendFacts
<1> HIDE DEF b
<1>4. k \in Nat
  BY <1>1
<1>5. a.len = l.len + k /\ l.len \in Nat /\ k \in Nat /\ b.len = a.len + 1
  BY <1>4, <1>1, <1>2, <1>3
<1>6. /\ \A i \in 1..l.len : i \in 1..a.len
      /\ \A i \in 1..k : l.len + i \in 1..a.len
      /\ \A i \in 1..(k + 1) : i \in 1..k \/ (i = k + 1 /\ l.len + i = a.len + 1)
      /\ b.len = l.len + (k + 1)
  BY <1>5
<1>7. \A i \in 1..l.len : b.array[i] = l.array[i]
  BY <1>3, <1>6 DEF Appended
<1>8. \A i \in 1..(k + 1) : b.array[l.len + i] = s[i]
  BY <1>3, <1>6 DEF Appended
<1>9. b.capacity >= 1 /\ b.capacity <= 2 * bound
  BY <1>1, <1>2, <1>3
<1> QED
  BY <1>3, <1>6, <1>7, <1>8, <1>9 DEF Appended, b

\* add_params for each parameter: they follow what was in the list, in order.
LEMMA AppendAllFacts ==
  ASSUME NEW l, Fits(l), l.capacity >= 1, NEW s \in Seq(Cells), NEW bound \in Nat,
         l.len + Len(s) <= bound, l.capacity <= 2 * bound
  PROVE  LET a == AppendAll(l, s) IN
         Appended(a, l, s, Len(s)) /\ a.capacity <= 2 * bound
<1>1. Len(s) \in Nat /\ l.len \in Nat
  BY DEF Fits, ListTypes
<1>2. PICK f : IsAppending(f, l, s, Len(s)) /\ AppendAll(l, s) = f[Len(s)]
  BY <1>1, AppendAllIsEntry
<1>3. \A k \in 0..Len(s) : f[k] = AppendEntry(f, l, s, k)
  BY <1>2 DEF IsAppending
<1> DEFINE Right(k) == Appended(f[k], l, s, k) /\ f[k].capacity <= 2 * bound
           S == {k \in 0..Len(s) : ~Right(k)}
<1>4. S = {}
  <2> SUFFICES ASSUME S # {} PROVE FALSE
    OBVIOUS
  <2>1. S \in SUBSET Nat
    BY <1>1
  <2>2. PICK k \in S : \A j \in S : k <= j
    <3> HIDE DEF S
    <3> QED
      BY <2>1, LeastExists
  <2>3. k \in 0..Len(s) /\ ~Right(k)
    BY <2>2
  <2>4. k # 0
    <3>1. f[0] = l
      BY <1>1, <1>3 DEF AppendEntry
    <3>2. Right(0)
      BY <1>1, <3>1 DEF Appended
    <3> QED
      BY <2>3, <3>2
  <2> DEFINE j == k - 1
  <2>5. j \in 0..(Len(s) - 1) /\ j \in 0..Len(s) /\ j \notin S /\ j + 1 = k
    BY <1>1, <2>1, <2>2, <2>3, <2>4
  <2>6. Right(j)
    BY <2>5
  <2>7. f[k] = list_append(f[j], s[k])
    BY <1>3, <2>3, <2>4 DEF AppendEntry
  <2> HIDE DEF j
  <2>8. Right(j + 1)
    BY <2>5, <2>6, <2>7, AppendedGrows
  <2> QED
    BY <2>3, <2>5, <2>8
<1>5. Right(Len(s))
  BY <1>1, <1>4
<1> QED
  BY <1>2, <1>5

-----------------------------------------------------------------------------
(***************************************************************************)
(* Ascending: element k is the one with k elements up to it.               *)
(***************************************************************************)
UpTo(S, n) == {m \in S : m <= n}
Rank(S, n) == Cardinality(UpTo(S, n))

\* Each number of a set has a rank of its own.
LEMMA RankFacts ==
  ASSUME NEW S \in SUBSET Nat, IsFiniteSet(S)
  PROVE  /\ Cardinality(S) \in Nat
         /\ \A n \in S : Rank(S, n) \in 1..Cardinality(S)
         /\ \A n, p \in S : n < p => Rank(S, n) < Rank(S, p)
         /\ \A n, p \in S : Rank(S, n) = Rank(S, p) => n = p
<1>1. Cardinality(S) \in Nat
  BY FS_CardinalityType
<1>2. \A n \in S : /\ IsFiniteSet(UpTo(S, n)) /\ Rank(S, n) \in Nat
                   /\ Rank(S, n) <= Cardinality(S)
  <2> SUFFICES ASSUME NEW n \in S
               PROVE  /\ IsFiniteSet(UpTo(S, n)) /\ Rank(S, n) \in Nat
                      /\ Rank(S, n) <= Cardinality(S)
    OBVIOUS
  <2>1. UpTo(S, n) \in SUBSET S
    BY DEF UpTo
  <2> QED
    BY <2>1, FS_Subset, FS_CardinalityType DEF Rank
<1>3. \A n \in S : Rank(S, n) # 0
  <2> SUFFICES ASSUME NEW n \in S PROVE Rank(S, n) # 0
    OBVIOUS
  <2>1. n \in UpTo(S, n)
    BY DEF UpTo
  <2> QED
    BY <1>2, <2>1, FS_EmptySet DEF Rank
<1>4. \A n, p \in S : n < p => Rank(S, n) < Rank(S, p)
  <2> SUFFICES ASSUME NEW n \in S, NEW p \in S, n < p PROVE Rank(S, n) < Rank(S, p)
    OBVIOUS
  <2>0. \A m \in S : m \in Nat
    OBVIOUS
  <2>1. \A m \in UpTo(S, n) : m \in UpTo(S, p)
    <3>1. \A m \in S : m <= n => m <= p
      BY <2>0
    <3> QED
      BY <3>1 DEF UpTo
  <2>2. p \in UpTo(S, p) /\ p \notin UpTo(S, n)
    <3>1. p <= p /\ ~(p <= n)
      BY <2>0
    <3> QED
      BY <3>1 DEF UpTo
  <2>3. UpTo(S, n) \in SUBSET UpTo(S, p)
    BY <2>1
  <2>4. Rank(S, n) <= Rank(S, p) /\ Rank(S, n) # Rank(S, p)
    BY <1>2, <2>2, <2>3, FS_Subset DEF Rank
  <2>5. Rank(S, n) \in Nat /\ Rank(S, p) \in Nat
    BY <1>2
  <2> QED
    BY <2>4, <2>5
<1>5. \A n, p \in S : n = p \/ n < p \/ p < n
  OBVIOUS
<1>6. \A n \in S : Rank(S, n) \in 1..Cardinality(S)
  BY <1>1, <1>2, <1>3
<1>7. \A n, p \in S : Rank(S, n) = Rank(S, p) => n = p
  <2> SUFFICES ASSUME NEW n \in S, NEW p \in S, Rank(S, n) = Rank(S, p) PROVE n = p
    OBVIOUS
  <2>1. Rank(S, n) \in Nat /\ Rank(S, p) \in Nat
    BY <1>2
  <2>2. ~(Rank(S, n) < Rank(S, p)) /\ ~(Rank(S, p) < Rank(S, n))
    BY <2>1
  <2> QED
    BY <1>4, <1>5, <2>2
<1> QED
  BY <1>1, <1>4, <1>6, <1>7

\* Every rank is that of a number.
LEMMA RanksTaken ==
  ASSUME NEW S \in SUBSET Nat, IsFiniteSet(S), NEW k \in 1..Cardinality(S)
  PROVE  \E n \in S : Rank(S, n) = k
<1> DEFINE rank == [n \in S |-> Rank(S, n)]
<1>1. Cardinality(S) \in Nat
  BY FS_CardinalityType
<1>2. IsFiniteSet(1..Cardinality(S)) /\ Cardinality(1..Cardinality(S)) = Cardinality(S)
  BY <1>1, FS_Interval
<1>3. /\ rank \in [S -> 1..Cardinality(S)]
      /\ \A n, p \in S : rank[n] = rank[p] => n = p
  BY RankFacts
<1> HIDE DEF rank
<1>4. rank \in Injection(S, 1..Cardinality(S))
  BY <1>3, Fun_IsInj
<1>5. rank \in Surjection(S, 1..Cardinality(S))
  BY <1>2, <1>4, FS_Injection
<1>6. \E n \in S : rank[n] = k
  BY <1>5 DEF Surjection
<1> QED
  BY <1>6 DEF rank

\* Ascending lists each number of the set once, the least one first.
LEMMA AscendingFacts ==
  ASSUME NEW S \in SUBSET Nat, IsFiniteSet(S)
  PROVE  LET a == Ascending(S) IN
         /\ a \in [1..Cardinality(S) -> S]
         /\ \A j, k \in 1..Cardinality(S) : a[j] = a[k] => j = k
         /\ \A j, k \in 1..Cardinality(S) : j < k => a[j] < a[k]
         /\ \A n \in S : \E k \in 1..Cardinality(S) : a[k] = n
         /\ \A n \in S : (\A m \in S : n <= m) => Cardinality(S) >= 1 /\ a[1] = n
<1> DEFINE a == Ascending(S)
<1>1. a = [k \in 1..Cardinality(S) |-> CHOOSE n \in S : Rank(S, n) = k]
  BY DEF Ascending, Rank, UpTo
<1>2. \A k \in 1..Cardinality(S) : a[k] \in S /\ Rank(S, a[k]) = k
  <2> SUFFICES ASSUME NEW k \in 1..Cardinality(S) PROVE a[k] \in S /\ Rank(S, a[k]) = k
    OBVIOUS
  <2>1. a[k] = CHOOSE n \in S : Rank(S, n) = k
    BY <1>1
  <2> HIDE DEF a
  <2> QED
    BY <2>1, RanksTaken
<1>3. a \in [1..Cardinality(S) -> S]
  <2> HIDE DEF a
  <2> QED
    BY <1>1, <1>2
<1> HIDE DEF a
<1>4. \A j, k \in 1..Cardinality(S) : a[j] = a[k] => j = k
  BY <1>2
<1>8. \A j, k \in 1..Cardinality(S) : j < k => a[j] < a[k]
  <2> SUFFICES ASSUME NEW j \in 1..Cardinality(S), NEW k \in 1..Cardinality(S), j < k
               PROVE  a[j] < a[k]
    OBVIOUS
  <2> DEFINE n == a[j]
             p == a[k]
  <2>1. n \in S /\ p \in S /\ Rank(S, n) = j /\ Rank(S, p) = k
    BY <1>2
  <2> HIDE DEF n, p
  <2>2. n \in Nat /\ p \in Nat /\ j \in Nat /\ k \in Nat
    BY <2>1
  <2>3. n # p /\ ~(p < n)
    BY <2>1, <2>2, RankFacts
  <2> QED
    BY <2>2, <2>3 DEF n, p
<1>5. \A n \in S : a[Rank(S, n)] = n /\ Rank(S, n) \in 1..Cardinality(S)
  <2> SUFFICES ASSUME NEW n \in S
               PROVE  a[Rank(S, n)] = n /\ Rank(S, n) \in 1..Cardinality(S)
    OBVIOUS
  <2>1. Rank(S, n) \in 1..Cardinality(S)
    BY RankFacts
  <2> DEFINE r == Rank(S, n)
             p == a[r]
  <2>2. p \in S /\ Rank(S, p) = Rank(S, n)
    BY <1>2, <2>1
  <2> HIDE DEF p
  <2>3. p = n
    BY <2>2, RankFacts
  <2> QED
    BY <2>1, <2>3 DEF p
<1>6. ASSUME NEW n \in S, \A m \in S : n <= m PROVE Rank(S, n) = 1
  <2>0. \A m \in S : m \in Nat
    OBVIOUS
  <2>1. \A m \in S : m <= n <=> m = n
    BY <1>6, <2>0
  <2>2. UpTo(S, n) = {n}
    BY <2>1 DEF UpTo
  <2> QED
    BY <2>2, FS_Singleton DEF Rank
<1>7. \A n \in S : (\A m \in S : n <= m) => Cardinality(S) >= 1 /\ a[1] = n
  <2> SUFFICES ASSUME NEW n \in S, \A m \in S : n <= m PROVE Cardinality(S) >= 1 /\ a[1] = n
    OBVIOUS
  <2> QED
    BY <1>5, <1>6, RankFacts
<1> QED
  BY <1>3, <1>4, <1>5, <1>7, <1>8 DEF a

-----------------------------------------------------------------------------
(***************************************************************************)
(* The heap.                                                               *)
(***************************************************************************)
Texts == Seq(Token)

\* What the addresses are.
LEMMA AddressFacts ==
  /\ Addresses \in SUBSET Nat /\ IsFiniteSet(Addresses) /\ Cardinality(Addresses) = MaxRest + 4
  /\ Allocated \in SUBSET Addresses /\ IsFiniteSet(Addresses \ Allocated)
<1>1. Addresses \in SUBSET Nat /\ Allocated \in SUBSET Addresses
  BY RestAssumption DEF Addresses, Allocated
<1>2. IsFiniteSet(Addresses) /\ Cardinality(Addresses) = MaxRest + 4
  BY RestAssumption, FS_Interval DEF Addresses
<1>3. IsFiniteSet(Addresses \ Allocated)
  BY <1>2, FS_Subset
<1> QED
  BY <1>1, <1>2, <1>3

\* malloc gives as many different free addresses as it is asked for, if the heap
\* has them.
LEMMA MallocFacts ==
  ASSUME NEW n \in Nat, n <= Cardinality(Addresses \ Allocated)
  PROVE  LET at == Malloc(n) IN
         /\ at \in Seq(Addresses) /\ Len(at) = n
         /\ \A i \in 1..n : at[i] \in Addresses \ Allocated
         /\ \A i, j \in 1..n : at[i] = at[j] => i = j
<1> DEFINE S == Addresses \ Allocated
           a == Ascending(S)
           c == Cardinality(S)
<1>1. S \in SUBSET Nat /\ IsFiniteSet(S) /\ S \subseteq Addresses
  BY AddressFacts
<1>2. c \in Nat
  BY <1>1, FS_CardinalityType
<1>3. a \in [1..c -> S] /\ \A j, k \in 1..c : a[j] = a[k] => j = k
  BY <1>1, AscendingFacts
<1>4. Malloc(n) = SubSeq(a, 1, n)
  BY DEF Malloc
<1> HIDE DEF S, a, c
<1>5. n <= c /\ Addresses \ Allocated = S
  BY DEF S, c
<1>6. a \in Seq(S) /\ Len(a) = c
  BY <1>2, <1>3
<1>7. /\ SubSeq(a, 1, n) \in Seq(S) /\ Len(SubSeq(a, 1, n)) = n
      /\ \A i \in 1..n : SubSeq(a, 1, n)[i] = a[i] /\ i \in 1..c
  BY <1>2, <1>5, <1>6
<1> QED
  BY <1>1, <1>3, <1>4, <1>5, <1>7

\* strdup writes each text at its own address and leaves the others alone.
LEMMA StrdupFacts ==
  ASSUME NEW at \in Seq(Addresses), NEW texts,
         \A i, j \in 1..Len(at) : at[i] = at[j] => i = j
  PROVE  LET s == Strdup(at, texts) IN
         /\ s = [b \in Addresses |-> s[b]]
         /\ \A i \in 1..Len(at) : s[at[i]] = texts[i]
         /\ \A b \in Addresses : (\A i \in 1..Len(at) : at[i] # b) => s[b] = strings[b]
<1> DEFINE s == Strdup(at, texts)
           Cell(b) == IF \E k \in DOMAIN at : at[k] = b
                      THEN texts[CHOOSE k \in DOMAIN at : at[k] = b] ELSE strings[b]
<1>1. s = [b \in Addresses |-> Cell(b)] /\ DOMAIN at = 1..Len(at)
  BY DEF Strdup
<1>2. \A b \in Addresses : s[b] = Cell(b)
  BY <1>1
<1>3. ASSUME NEW i \in 1..Len(at) PROVE s[at[i]] = texts[i]
  <2>1. at[i] \in Addresses
    OBVIOUS
  <2>2. (CHOOSE k \in DOMAIN at : at[k] = at[i]) = i
    BY <1>1
  <2> QED
    BY <1>1, <1>2, <2>1, <2>2
<1>4. \A b \in Addresses : (\A i \in 1..Len(at) : at[i] # b) => s[b] = strings[b]
  BY <1>1, <1>2
<1>5. s = [b \in Addresses |-> s[b]]
  BY <1>1
<1> HIDE DEF s
<1> QED
  BY <1>3, <1>4, <1>5 DEF s


-----------------------------------------------------------------------------
(***************************************************************************)
(* Cutting the parameters out of the buffer.                               *)
(***************************************************************************)
FirstOf(I) == IF I # {} THEN Min(I) ELSE 0
PlacesOf(s, c) == {i \in 1..Len(s) : s[i] = c}

\* What comes first is the least of them.
LEMMA FirstOfFacts ==
  ASSUME NEW I \in SUBSET Nat, NEW k \in I, \A i \in I : k <= i
  PROVE  FirstOf(I) = k
<1> DEFINE Least(x) == \A y \in I : x <= y
<1>1. \A x \in I : Least(x) => x = k
  OBVIOUS
<1>2. Least(k)
  OBVIOUS
<1>3. Min(I) = CHOOSE x \in I : Least(x)
  BY DEF Min
<1> HIDE DEF Least
<1>4. Min(I) = k
  BY <1>1, <1>2, <1>3
<1> QED
  BY <1>4 DEF FirstOf

\* What comes first is 0 or one of them.
LEMMA FirstOfType ==
  ASSUME NEW I \in SUBSET Nat
  PROVE  FirstOf(I) \in I \cup {0}
<1>1. CASE I = {}
  BY <1>1 DEF FirstOf
<1>2. CASE I # {}
  <2>1. PICK k \in I : \A i \in I : k <= i
    BY <1>2, LeastExists
  <2> QED
    BY <2>1, FirstOfFacts
<1> QED
  BY <1>1, <1>2

\* The words of the buffer are different tokens.
LEMMA WordFacts ==
  /\ Amp \in Token /\ Equal \in Token /\ Blank \in Token /\ Word \in Token
  /\ Values[1] \in Token /\ Values[2] \in Token
  /\ Equal # Amp /\ Blank # Amp /\ Word # Amp /\ Equal # Blank
  /\ Values[1] \notin {Amp, Equal, Blank} /\ Values[2] \notin {Amp, Equal, Blank}
<1>1. Values[1] = "first" /\ Values[2] = "second"
  BY DEF Values
<1>2. /\ Equal # Amp /\ Blank # Amp /\ Word # Amp /\ Equal # Blank
      /\ Values[1] \notin {Amp, Equal, Blank} /\ Values[2] \notin {Amp, Equal, Blank}
  BY <1>1 DEF Amp, Equal, Blank, Word
<1>3. /\ Amp \in Token /\ Equal \in Token /\ Blank \in Token /\ Word \in Token
      /\ Values[1] \in Token /\ Values[2] \in Token
  BY DEF Token
<1> QED
  BY <1>2, <1>3

\* Eight tokens are a text.
LEMMA EightTokens ==
  ASSUME NEW a \in Token, NEW b \in Token, NEW c \in Token, NEW d \in Token,
         NEW e \in Token, NEW f \in Token, NEW g \in Token, NEW h \in Token
  PROVE  LET s == <<a, b, c, d, e, f, g, h>> IN
         /\ s \in Seq(Token) /\ Len(s) = 8
         /\ s[1] = a /\ s[2] = b /\ s[3] = c /\ s[4] = d
         /\ s[5] = e /\ s[6] = f /\ s[7] = g /\ s[8] = h
OBVIOUS

\* A text behind eight tokens.
LEMMA BehindEight ==
  ASSUME NEW u \in Seq(Token), Len(u) = 8, NEW r \in Seq(Token)
  PROVE  LET b == u \o r IN
         /\ b \in Seq(Token) /\ Len(b) = 8 + Len(r)
         /\ \A i \in 1..8 : b[i] = u[i]
         /\ \A i \in 9..Len(b) : b[i] = r[i - 8] /\ i - 8 \in 1..Len(r)
<1> DEFINE b == u \o r
<1>1. Len(r) \in Nat
  OBVIOUS
<1>2. /\ b \in Seq(Token) /\ Len(b) = Len(u) + Len(r)
      /\ \A i \in 1..(Len(u) + Len(r)) : b[i] = IF i <= Len(u) THEN u[i] ELSE r[i - Len(u)]
  BY ConcatProperties, Zenon
<1> HIDE DEF b
<1>5. \A i \in 1..(8 + Len(r)) : b[i] = IF i <= 8 THEN u[i] ELSE r[i - 8]
  BY <1>1, <1>2
<1>3. \A i \in 9..Len(b) : i - 8 \in 1..Len(r) /\ i \in 1..(8 + Len(r)) /\ ~(i <= 8)
  BY <1>1, <1>2
<1>4. \A i \in 1..8 : i \in 1..(8 + Len(r)) /\ i <= 8
  BY <1>1
<1> QED
  BY <1>2, <1>3, <1>4, <1>5 DEF b

\* The buffer of a query: eight tokens of the URL, then what was read behind
\* it, a word first.
LEMMA BufferFacts ==
  ASSUME NEW q \in Queries
  PROVE  LET b == BufferOf(q) IN
         /\ q.kind = "query" /\ q.keys \in Keys
         /\ Len(q.rest) \in 1..(MaxRest + 1) /\ DOMAIN q.rest = 1..Len(q.rest)
         /\ b \in Seq(Token) /\ Len(b) = 8 + Len(q.rest)
         /\ b[1] = q.keys[1] /\ b[2] = Equal /\ b[3] = Values[1] /\ b[4] = Amp
         /\ b[5] = q.keys[2] /\ b[6] = Equal /\ b[7] = Values[2] /\ b[8] = Blank
         /\ b[9] = Word
         /\ \A i \in 9..Len(b) : b[i] = q.rest[i - 8] /\ i - 8 \in 1..Len(q.rest)
<1> DEFINE Tokens == {Amp, Equal, Blank, Word}
<1>1. /\ q.kind = "query" /\ q.keys \in Keys
      /\ \E r \in BoundedSeq(Tokens, MaxRest) : q.rest = <<Word>> \o r
  BY DEF Queries
<1>2. PICK r \in BoundedSeq(Tokens, MaxRest) : q.rest = <<Word>> \o r
  BY <1>1
<1>3. PICK n \in 0..MaxRest : r \in [1..n -> Tokens]
  BY <1>2 DEF BoundedSeq, SeqOf
<1>4. Tokens \subseteq Token
  BY WordFacts
<1> HIDE DEF Tokens
<1>5. n \in Nat /\ n <= MaxRest
  BY <1>3, RestAssumption
<1>6. r \in Seq(Token) /\ Len(r) = n
  BY <1>3, <1>4, <1>5
<1> DEFINE rest == q.rest
           w == <<Word>>
<1>7. w \in Seq(Token) /\ Len(w) = 1 /\ w[1] = Word
  BY WordFacts
<1> HIDE DEF w
<1>8. rest = w \o r
  BY <1>2 DEF w
<1> HIDE DEF rest
<1>9. rest \in Seq(Token) /\ Len(rest) = n + 1 /\ rest[1] = Word
  <2>1. rest \in Seq(Token) /\ Len(rest) = Len(w) + Len(r)
    BY <1>6, <1>7, <1>8, ConcatProperties
  <2>2. \A i \in 1..(Len(w) + Len(r)) : rest[i] = IF i <= Len(w) THEN w[i] ELSE r[i - Len(w)]
    BY <1>6, <1>7, <1>8, ConcatProperties
  <2>3. 1 \in 1..(Len(w) + Len(r)) /\ 1 <= Len(w)
    BY <1>5, <1>6, <1>7
  <2>4. rest[1] = Word
    BY <1>7, <2>2, <2>3
  <2> QED
    BY <1>5, <1>6, <1>7, <2>1, <2>4
<1> DEFINE k1 == q.keys[1]
           k2 == q.keys[2]
           url == <<k1, Equal, Values[1], Amp, k2, Equal, Values[2], Blank>>
           b == BufferOf(q)
<1>10. k1 \in Token /\ k2 \in Token
  BY <1>1 DEF Token
<1>11. b = url \o rest
  BY DEF BufferOf, rest
<1> HIDE DEF k1, k2, b
<1>12. url \in Seq(Token) /\ Len(url) = 8
  BY <1>10, WordFacts, EightTokens
<1>13. /\ url[1] = k1 /\ url[2] = Equal /\ url[3] = Values[1] /\ url[4] = Amp
       /\ url[5] = k2 /\ url[6] = Equal /\ url[7] = Values[2] /\ url[8] = Blank
  OBVIOUS
<1> HIDE DEF url
<1>14. b \in Seq(Token) /\ Len(b) = 8 + Len(rest)
  BY <1>9, <1>11, <1>12, BehindEight
<1>15. /\ \A i \in 1..8 : b[i] = url[i]
       /\ \A i \in 9..Len(b) : b[i] = rest[i - 8] /\ i - 8 \in 1..Len(rest)
  BY <1>9, <1>11, <1>12, BehindEight
<1>16. 9 \in 9..Len(b) /\ Len(rest) \in 1..(MaxRest + 1) /\ DOMAIN rest = 1..Len(rest)
  BY <1>5, <1>9, <1>14, RestAssumption
<1>17. b[9] = Word
  BY <1>9, <1>15, <1>16
<1>18. /\ b[1] = k1 /\ b[2] = Equal /\ b[3] = Values[1] /\ b[4] = Amp
       /\ b[5] = k2 /\ b[6] = Equal /\ b[7] = Values[2] /\ b[8] = Blank
  BY <1>13, <1>15
<1> QED
  BY <1>1, <1>14, <1>15, <1>16, <1>17, <1>18 DEF b, rest, k1, k2

\* The cuts of a query: the first '&' is behind the first value, and there are
\* fewer than the heap has addresses.
LEMMA AmpFacts ==
  ASSUME NEW q \in Queries
  PROVE  LET amps == PlacesOf(BufferOf(q), Amp) IN
         /\ amps \in SUBSET Nat /\ IsFiniteSet(amps) /\ 4 \in amps
         /\ \A i \in amps : 4 <= i /\ i <= Len(BufferOf(q))
         /\ Cardinality(amps) \in 1..(MaxRest + 1)
         /\ Amp \notin ToSet(q.rest) => amps = {4}
<1> DEFINE b == BufferOf(q)
           rest == q.rest
           amps == PlacesOf(b, Amp)
<1>1. /\ Len(rest) \in 1..(MaxRest + 1) /\ DOMAIN rest = 1..Len(rest)
      /\ Len(b) = 8 + Len(rest) /\ b[4] = Amp
      /\ \A i \in {1, 2, 3, 5, 6, 7, 8, 9} : b[i] # Amp
      /\ \A i \in 9..Len(b) : b[i] = rest[i - 8] /\ i - 8 \in 1..Len(rest)
  <2>1. b[1] # Amp /\ b[5] # Amp
    <3>1. q.keys \in Keys /\ b[1] = q.keys[1] /\ b[5] = q.keys[2]
      BY BufferFacts
    <3>2. q.keys[1] # Amp /\ q.keys[2] # Amp
      BY <3>1, KeysAssumption
    <3> QED
      BY <3>1, <3>2
  <2> QED
    BY <2>1, BufferFacts, WordFacts
<1> HIDE DEF b, rest
<1>2. Len(rest) \in Nat /\ Len(b) \in Nat /\ Len(b) >= 9 /\ Len(b) <= MaxRest + 9
  BY <1>1, RestAssumption
<1>3. \A i \in amps : i \in Nat /\ 1 <= i /\ i <= Len(b) /\ b[i] = Amp
  BY <1>2 DEF PlacesOf
<1>4. \A i \in amps : i = 4 \/ i \in 10..(MaxRest + 9)
  <2> SUFFICES ASSUME NEW i \in amps PROVE i = 4 \/ i \in 10..(MaxRest + 9)
    OBVIOUS
  <2>1. i \notin {1, 2, 3, 5, 6, 7, 8, 9} /\ i \in Nat /\ 1 <= i /\ i <= Len(b)
    BY <1>1, <1>3
  <2> QED
    BY <1>2, <2>1, RestAssumption
<1>5. 4 \in amps
  BY <1>1, <1>2 DEF PlacesOf
<1> DEFINE far == 10..(MaxRest + 9)
           all == far \cup {4}
<1>6. IsFiniteSet(far) /\ Cardinality(far) = MaxRest
  <2>1. Cardinality(far) = IF 10 > MaxRest + 9 THEN 0 ELSE (MaxRest + 9) - 10 + 1
    BY RestAssumption, FS_Interval
  <2> QED
    BY <2>1, RestAssumption, FS_Interval
<1>7. 4 \notin far
  BY RestAssumption
<1>8. IsFiniteSet(all) /\ Cardinality(all) = MaxRest + 1
  BY <1>6, <1>7, FS_AddElement
<1>9. amps \subseteq all
  BY <1>4
<1> HIDE DEF amps, all, far
<1>10. IsFiniteSet(amps) /\ Cardinality(amps) <= MaxRest + 1
  BY <1>8, <1>9, FS_Subset
<1>11. Cardinality(amps) \in Nat /\ Cardinality(amps) # 0
  BY <1>5, <1>10, FS_CardinalityType, FS_EmptySet
<1>12. Cardinality(amps) \in 1..(MaxRest + 1)
  BY <1>10, <1>11, RestAssumption
<1>13. amps \in SUBSET Nat /\ \A i \in amps : 4 <= i /\ i <= Len(b)
  <2>1. \A i \in far : i \in Nat /\ 4 <= i
    BY RestAssumption DEF far
  <2> QED
    BY <1>3, <1>4, <2>1 DEF far
<1>14. ASSUME Amp \notin ToSet(rest) PROVE amps = {4}
  <2> SUFFICES ASSUME NEW i \in amps, i # 4 PROVE FALSE
    BY <1>5
  <2>1. i \in 9..Len(b) /\ b[i] = Amp
    <3>1. i \in 10..(MaxRest + 9) /\ i <= Len(b) /\ b[i] = Amp
      BY <1>3, <1>4
    <3> QED
      BY <1>2, <3>1, RestAssumption
  <2>2. rest[i - 8] = Amp /\ i - 8 \in DOMAIN rest
    BY <1>1, <2>1
  <2> QED
    BY <1>14, <2>2 DEF ToSet
<1> QED
  BY <1>5, <1>10, <1>12, <1>13, <1>14 DEF amps, b, rest

\* Three tokens of a text.
LEMMA ThreeTokens ==
  ASSUME NEW s \in Texts, NEW i \in Nat, i >= 1, i + 2 <= Len(s)
  PROVE  SubSeq(s, i, i + 2) = <<s[i], s[i + 1], s[i + 2]>>
<1> DEFINE t == SubSeq(s, i, i + 2)
           u == <<s[i], s[i + 1], s[i + 2]>>
<1>1. s \in Seq(Token) /\ Len(s) \in Nat
  BY DEF Texts
<1>2. \A k \in i..(i + 2) : s[k] \in Token
  BY <1>1
<1>3. /\ t \in Seq(Token) /\ Len(t) = 3
      /\ \A k \in 1..((i + 2) - i + 1) : t[k] = s[i + k - 1]
  BY <1>2, SubSeqProperties
<1>4. u \in Seq(Token) /\ Len(u) = 3 /\ u[1] = s[i] /\ u[2] = s[i + 1] /\ u[3] = s[i + 2]
  BY <1>2
<1>5. \A k \in 1..3 : t[k] = s[i + k - 1]
  BY <1>3
<1> HIDE DEF t, u
<1>6. t[1] = s[i] /\ t[2] = s[i + 1] /\ t[3] = s[i + 2]
  BY <1>5
<1>7. \A k \in 1..3 : t[k] = u[k]
  BY <1>4, <1>6
<1>8. t = u
  BY <1>3, <1>4, <1>7, SeqEqual
<1> QED
  BY <1>8 DEF t, u

\* A part of a text is a text.
LEMMA PartIsText ==
  ASSUME NEW s \in Texts, NEW m \in Nat, NEW n \in Nat, 1 <= m, n <= Len(s)
  PROVE  /\ SubSeq(s, m, n) \in Texts
         /\ Len(SubSeq(s, m, n)) = IF m <= n THEN n - m + 1 ELSE 0
         /\ \A i \in 1..(n - m + 1) : SubSeq(s, m, n)[i] = s[m + i - 1]
<1>1. \A i \in m..n : s[i] \in Token
  BY DEF Texts
<1>2. m \in Int /\ n \in Int
  OBVIOUS
<1> QED
  BY <1>1, <1>2, SubSeqProperties DEF Texts

\* The cuts in front of the pieces, and the last of them up to its blank.
Cuts(s) == <<0>> \o Ascending(PlacesOf(s, Amp))
Uncut(s) == SubSeq(s, Cuts(s)[Len(Cuts(s))] + 1, Len(s))
UpToBlank(s) ==
  LET blank == FirstOf(PlacesOf(s, Blank)) IN
  SubSeq(s, 1, IF blank = 0 THEN Len(s) ELSE blank - 1)

\* The cuts of a query.
LEMMA CutFacts ==
  ASSUME NEW q \in Queries
  PROVE  LET b == BufferOf(q)
             c == Cuts(b)
         IN  /\ c \in Seq(Nat) /\ Len(c) \in 2..(MaxRest + 2)
             /\ c[1] = 0 /\ c[2] = 4
             /\ \A k \in 1..Len(c) : c[k] <= Len(b)
             /\ \A k \in 1..(Len(c) - 1) : c[k] < c[k + 1]
             /\ Amp \notin ToSet(q.rest) => Len(c) = 2
<1> DEFINE b == BufferOf(q)
           amps == PlacesOf(b, Amp)
           a == Ascending(amps)
           n == Cardinality(amps)
           zero == <<0>>
           c == zero \o a
<1>1. /\ amps \in SUBSET Nat /\ IsFiniteSet(amps) /\ 4 \in amps
      /\ \A i \in amps : 4 <= i /\ i <= Len(b)
      /\ n \in 1..(MaxRest + 1)
      /\ Amp \notin ToSet(q.rest) => amps = {4}
  BY AmpFacts
<1>2. Cuts(b) = c
  BY DEF Cuts
<1>3. Len(b) \in Nat
  BY BufferFacts
<1> HIDE DEF b, amps
<1>4. /\ a \in [1..n -> amps] /\ a[1] = 4
      /\ \A j, k \in 1..n : j < k => a[j] < a[k]
  BY <1>1, AscendingFacts
<1>5. Amp \notin ToSet(q.rest) => n = 1
  BY <1>1, FS_Singleton
<1> HIDE DEF a, n
<1>6. n \in Nat /\ n >= 1 /\ n <= MaxRest + 1
  BY <1>1, RestAssumption
<1>7. a \in Seq(Nat) /\ Len(a) = n
  <2>1. a \in [1..n -> Nat]
    BY <1>1, <1>4
  <2> QED
    BY <2>1, <1>6
<1>8. \A k \in 1..n : 4 <= a[k] /\ a[k] <= Len(b) /\ a[k] \in Nat
  BY <1>1, <1>4
<1>9. zero \in Seq(Nat) /\ Len(zero) = 1 /\ zero[1] = 0
  OBVIOUS
<1> HIDE DEF zero
<1>10. /\ c \in Seq(Nat) /\ Len(c) = Len(zero) + Len(a)
       /\ \A k \in 1..(Len(zero) + Len(a)) :
            c[k] = IF k <= Len(zero) THEN zero[k] ELSE a[k - Len(zero)]
  BY <1>7, <1>9, ConcatProperties
<1> HIDE DEF c
<1>11. Len(c) = 1 + n /\ c[1] = 0 /\ \A k \in 2..(1 + n) : c[k] = a[k - 1] /\ k - 1 \in 1..n
  <2>1. Len(c) = 1 + n
    BY <1>6, <1>7, <1>9, <1>10
  <2>2. 1 \in 1..(Len(zero) + Len(a)) /\ 1 <= Len(zero)
    BY <1>6, <1>7, <1>9
  <2>3. c[1] = 0
    BY <1>9, <1>10, <2>2
  <2>4. \A k \in 2..(1 + n) : k \in 1..(Len(zero) + Len(a)) /\ ~(k <= Len(zero))
                              /\ k - 1 \in 1..n /\ k - Len(zero) = k - 1
    BY <1>6, <1>7, <1>9
  <2> QED
    BY <1>10, <2>1, <2>3, <2>4
<1>12. Len(c) \in 2..(MaxRest + 2) /\ 2 \in 2..(1 + n)
  BY <1>6, <1>11, RestAssumption
<1>13. c[2] = 4
  BY <1>4, <1>11, <1>12
<1>14. \A k \in 1..Len(c) : c[k] <= Len(b)
  <2> SUFFICES ASSUME NEW k \in 1..Len(c) PROVE c[k] <= Len(b)
    OBVIOUS
  <2>1. k = 1 \/ k \in 2..(1 + n)
    BY <1>6, <1>11
  <2> QED
    BY <1>3, <1>8, <1>11, <2>1
<1>15. \A k \in 1..(Len(c) - 1) : c[k] < c[k + 1]
  <2> SUFFICES ASSUME NEW k \in 1..(Len(c) - 1) PROVE c[k] < c[k + 1]
    OBVIOUS
  <2>1. k \in 1..n /\ k + 1 \in 2..(1 + n) /\ (k + 1) - 1 = k
    BY <1>6, <1>11
  <2>2. c[k + 1] = a[k] /\ 4 <= a[k] /\ a[k] \in Nat
    BY <1>8, <1>11, <2>1
  <2>3. CASE k = 1
    BY <1>11, <2>2, <2>3
  <2>4. CASE k # 1
    <3>1. k \in 2..(1 + n)
      BY <1>6, <2>1, <2>4
    <3>2. c[k] = a[k - 1] /\ k - 1 \in 1..n /\ k - 1 < k
      BY <1>11, <2>1, <3>1
    <3> QED
      BY <1>4, <2>1, <2>2, <3>2
  <2> QED
    BY <2>3, <2>4
<1>16. Amp \notin ToSet(q.rest) => Len(c) = 2
  BY <1>5, <1>11
<1> QED
  BY <1>2, <1>10, <1>11, <1>12, <1>13, <1>14, <1>15, <1>16 DEF b

\* What Pieces is, in these words.
LEMMA PiecesAre ==
  ASSUME NEW s \in Texts, NEW n \in Nat, Cuts(s) \in Seq(Nat), Len(Cuts(s)) = n
  PROVE  Pieces(s) = [k \in 1..n |->
           IF k < n THEN SubSeq(s, Cuts(s)[k] + 1, Cuts(s)[k + 1] - 1) ELSE UpToBlank(Uncut(s))]
<1>1. DOMAIN s = 1..Len(s) /\ DOMAIN Cuts(s) = 1..n
  BY DEF Texts
<1>2. Cuts(s) = <<0>> \o Ascending({i \in DOMAIN s : s[i] = Amp})
  BY <1>1 DEF Cuts, PlacesOf
<1> DEFINE c == <<0>> \o Ascending({i \in DOMAIN s : s[i] = Amp})
           last == SubSeq(s, c[Len(c)] + 1, Len(s))
           blank == FirstOf({i \in 1..Len(last) : last[i] = Blank})
<1>3. Pieces(s) = [k \in DOMAIN c |->
         IF k < Len(c) THEN SubSeq(s, c[k] + 1, c[k + 1] - 1)
         ELSE SubSeq(last, 1, IF blank = 0 THEN Len(last) ELSE blank - 1)]
  BY DEF Pieces, SelectInSeq, FirstOf
<1> HIDE DEF c
<1>4. c = Cuts(s)
  BY <1>2 DEF c
<1>5. last = Uncut(s) /\ UpToBlank(Uncut(s)) =
         SubSeq(last, 1, IF blank = 0 THEN Len(last) ELSE blank - 1)
  BY <1>4 DEF Uncut, UpToBlank, PlacesOf
<1> HIDE DEF last, blank
<1> QED
  BY <1>1, <1>3, <1>4, <1>5

\* A piece is a text, with a blank at its end or without.
LEMMA UpToBlankFacts ==
  ASSUME NEW s \in Texts
  PROVE  /\ UpToBlank(s) \in Texts
         /\ \A k \in 1..Len(s) : s[k] = Blank /\ (\A i \in 1..(k - 1) : s[i] # Blank)
                                   => UpToBlank(s) = SubSeq(s, 1, k - 1)
<1> DEFINE I == PlacesOf(s, Blank)
           blank == FirstOf(I)
<1>1. Len(s) \in Nat
  BY DEF Texts
<1>2. I \in SUBSET Nat /\ \A i \in I : 1 <= i /\ i <= Len(s) /\ s[i] = Blank
  BY <1>1 DEF PlacesOf
<1> HIDE DEF I
<1>3. blank \in I \cup {0}
  BY <1>2, FirstOfType
<1>4. UpToBlank(s) = SubSeq(s, 1, IF blank = 0 THEN Len(s) ELSE blank - 1)
  BY DEF UpToBlank, I
<1> HIDE DEF blank
<1> DEFINE n == IF blank = 0 THEN Len(s) ELSE blank - 1
<1>5. n \in Nat /\ n <= Len(s)
  BY <1>1, <1>2, <1>3
<1> HIDE DEF n
<1>6. UpToBlank(s) \in Texts
  BY <1>4, <1>5, PartIsText DEF n
<1>7. ASSUME NEW k \in 1..Len(s), s[k] = Blank, \A i \in 1..(k - 1) : s[i] # Blank
      PROVE  UpToBlank(s) = SubSeq(s, 1, k - 1)
  <2>1. k \in I /\ k # 0
    BY <1>1, <1>7 DEF I, PlacesOf
  <2>2. \A i \in I : k <= i
    <3> SUFFICES ASSUME NEW i \in I, ~(k <= i) PROVE FALSE
      OBVIOUS
    <3>1. i \in 1..(k - 1) /\ s[i] = Blank
      BY <1>1, <1>2
    <3> QED
      BY <1>7, <3>1
  <2>3. blank = k
    BY <1>2, <2>1, <2>2, FirstOfFacts DEF blank
  <2> QED
    BY <1>4, <2>1, <2>3
<1> QED
  BY <1>6, <1>7

\* The pieces of a query: at least its two parameters, and no more than the
\* heap has addresses.  The first one is the first parameter; the second one is
\* the second parameter, if no '&' was read behind the URL.
LEMMA PiecesFacts ==
  ASSUME NEW q \in Queries
  PROVE  LET p == Pieces(BufferOf(q)) IN
         /\ p \in Seq(Texts) /\ Len(p) \in 2..(MaxRest + 2)
         /\ p[1] = <<q.keys[1], Equal, Values[1]>>
         /\ Amp \notin ToSet(q.rest)
              => Len(p) = 2 /\ p[2] = <<q.keys[2], Equal, Values[2]>>
<1> DEFINE b == BufferOf(q)
           c == Cuts(b)
           n == Len(c)
           p == Pieces(b)
<1>1. /\ b \in Texts /\ Len(b) \in Nat /\ Len(b) >= 9
      /\ b[1] = q.keys[1] /\ b[2] = Equal /\ b[3] = Values[1]
      /\ b[5] = q.keys[2] /\ b[6] = Equal /\ b[7] = Values[2] /\ b[8] = Blank
  BY BufferFacts, RestAssumption DEF Texts
<1>2. /\ c \in Seq(Nat) /\ n \in 2..(MaxRest + 2)
      /\ c[1] = 0 /\ c[2] = 4
      /\ \A k \in 1..n : c[k] <= Len(b)
      /\ \A k \in 1..(n - 1) : c[k] < c[k + 1]
      /\ Amp \notin ToSet(q.rest) => n = 2
  BY CutFacts
<1>3. n \in Nat /\ n >= 2
  BY <1>2, RestAssumption
<1>4. p = [k \in 1..n |->
             IF k < n THEN SubSeq(b, c[k] + 1, c[k + 1] - 1) ELSE UpToBlank(Uncut(b))]
  BY <1>1, <1>2, <1>3, PiecesAre
<1>5. Uncut(b) = SubSeq(b, c[n] + 1, Len(b))
  BY DEF Uncut
<1> HIDE DEF b, c, n, p
<1>6. \A k \in 1..n : c[k] \in Nat
  BY <1>2, <1>3 DEF n
<1>7. Uncut(b) \in Texts
  <2>1. n \in 1..n
    BY <1>3
  <2>2. c[n] + 1 \in Nat /\ 1 <= c[n] + 1
    BY <1>6, <2>1
  <2> QED
    BY <1>1, <1>5, <2>2, PartIsText
<1>8. \A k \in 1..(n - 1) : SubSeq(b, c[k] + 1, c[k + 1] - 1) \in Texts
  <2> SUFFICES ASSUME NEW k \in 1..(n - 1)
               PROVE  SubSeq(b, c[k] + 1, c[k + 1] - 1) \in Texts
    OBVIOUS
  <2> DEFINE from == c[k] + 1
             to == c[k + 1] - 1
  <2>1. k \in 1..n /\ k + 1 \in 1..n
    BY <1>3
  <2>2. c[k] \in Nat /\ c[k + 1] \in Nat /\ c[k] < c[k + 1] /\ c[k + 1] <= Len(b)
    BY <1>2, <1>6, <2>1
  <2> DEFINE x == c[k]
             y == c[k + 1]
             z == Len(b)
  <2>5. x \in Nat /\ y \in Nat /\ z \in Nat /\ x < y /\ y <= z
    BY <1>1, <2>2
  <2> HIDE DEF x, y, z
  <2>6. x + 1 \in Nat /\ 1 <= x + 1 /\ y - 1 \in Nat /\ y - 1 <= z
    BY <2>5
  <2>3. from \in Nat /\ 1 <= from /\ to \in Nat /\ to <= Len(b)
    BY <2>6 DEF x, y, z
  <2> HIDE DEF from, to
  <2>4. SubSeq(b, from, to) \in Texts
    BY <1>1, <2>3, PartIsText
  <2> QED
    BY <2>4 DEF from, to
<1>9. UpToBlank(Uncut(b)) \in Texts
  BY <1>7, UpToBlankFacts
<1>10. p \in [1..n -> Texts]
  <2>1. \A k \in 1..n : k < n => k \in 1..(n - 1)
    BY <1>3
  <2> QED
    BY <1>4, <1>8, <1>9, <2>1
<1>11. p \in Seq(Texts) /\ Len(p) = n
  BY <1>3, <1>10
<1>12. p[1] = <<q.keys[1], Equal, Values[1]>>
  <2>1. 1 \in 1..n /\ 1 < n /\ c[1] + 1 = 1 /\ c[1 + 1] - 1 = 1 + 2
    BY <1>2, <1>3
  <2>2. p[1] = SubSeq(b, c[1] + 1, c[1 + 1] - 1)
    BY <1>4, <2>1
  <2>3. p[1] = SubSeq(b, 1, 1 + 2)
    BY <2>1, <2>2
  <2>4. SubSeq(b, 1, 1 + 2) = <<b[1], b[1 + 1], b[1 + 2]>>
    BY <1>1, ThreeTokens
  <2>5. b[1 + 1] = b[2] /\ b[1 + 2] = b[3]
    OBVIOUS
  <2> QED
    BY <1>1, <2>3, <2>4, <2>5
<1>13. ASSUME Amp \notin ToSet(q.rest)
       PROVE  n = 2 /\ p[2] = <<q.keys[2], Equal, Values[2]>>
  <2> DEFINE u == Uncut(b)
  <2>1. n = 2
    BY <1>2, <1>13
  <2>2. p[2] = UpToBlank(u)
    BY <1>4, <2>1
  <2>3. u = SubSeq(b, 5, Len(b))
    <3>1. c[n] + 1 = 5
      BY <1>2, <2>1
    <3> QED
      BY <1>5, <3>1
  <2>4. /\ Len(u) = IF 5 <= Len(b) THEN Len(b) - 5 + 1 ELSE 0
        /\ \A i \in 1..(Len(b) - 5 + 1) : u[i] = b[5 + i - 1]
    BY <1>1, <2>3, PartIsText
  <2> HIDE DEF u
  <2>5. Len(u) >= 5 /\ Len(u) \in Nat
    BY <1>1, <2>4
  <2>6. u[1] = b[5] /\ u[2] = b[6] /\ u[3] = b[7] /\ u[4] = b[8]
    <3>1. \A i \in 1..4 : u[i] = b[5 + i - 1]
      BY <1>1, <2>4
    <3>2. 5 + 1 - 1 = 5 /\ 5 + 2 - 1 = 6 /\ 5 + 3 - 1 = 7 /\ 5 + 4 - 1 = 8
      OBVIOUS
    <3> QED
      BY <3>1, <3>2
  <2>7. b[5] # Blank /\ b[6] # Blank /\ b[7] # Blank
    <3>1. q.keys[2] # Blank
      BY BufferFacts, KeysAssumption
    <3> QED
      BY <1>1, <3>1, WordFacts
  <2>8. 4 \in 1..Len(u) /\ u[4] = Blank /\ \A i \in 1..(4 - 1) : u[i] # Blank
    <3>1. \A i \in 1..(4 - 1) : i = 1 \/ i = 2 \/ i = 3
      OBVIOUS
    <3> QED
      BY <1>1, <2>5, <2>6, <2>7, <3>1
  <2>9. u \in Texts
    BY <1>7 DEF u
  <2>10. UpToBlank(u) = SubSeq(u, 1, 4 - 1)
    BY <2>8, <2>9, UpToBlankFacts
  <2>11. SubSeq(u, 1, 1 + 2) = <<u[1], u[1 + 1], u[1 + 2]>>
    BY <2>5, <2>9, ThreeTokens
  <2>12. 4 - 1 = 1 + 2 /\ u[1 + 1] = u[2] /\ u[1 + 2] = u[3]
    OBVIOUS
  <2> QED
    BY <1>1, <2>1, <2>2, <2>6, <2>10, <2>11, <2>12
<1>14. n \in 2..(MaxRest + 2)
  BY <1>2
<1> QED
  BY <1>11, <1>12, <1>13, <1>14 DEF p, b

-----------------------------------------------------------------------------
(***************************************************************************)
(* get_param.                                                              *)
(***************************************************************************)
Sign(text) == FirstOf(PlacesOf(text, Equal))
HasKey(text, name) == Sign(text) # 0 /\ SubSeq(text, 1, Sign(text) - 1) \in {<<>>, <<name>>}
ValueOf(text) == SubSeq(text, Sign(text) + 1, Len(text))
ParamTexts == [i \in 1..params.len |-> strings[params.array[i]]]

\* One token of a text.
LEMMA OneToken ==
  ASSUME NEW s \in Texts, NEW i \in 1..Len(s)
  PROVE  SubSeq(s, i, i) = <<s[i]>>
<1> DEFINE t == SubSeq(s, i, i)
           u == <<s[i]>>
<1>1. i \in Nat /\ 1 <= i /\ i <= Len(s) /\ s[i] \in Token
  BY DEF Texts
<1>2. t \in Seq(Token) /\ Len(t) = i - i + 1 /\ \A k \in 1..(i - i + 1) : t[k] = s[i + k - 1]
  BY <1>1, PartIsText DEF Texts
<1>3. u \in Seq(Token) /\ Len(u) = 1 /\ u[1] = s[i]
  BY <1>1
<1> HIDE DEF t, u
<1>4. i - i + 1 = 1 /\ i + 1 - 1 = i
  BY <1>1
<1>5. Len(t) = 1 /\ t[1] = s[i]
  BY <1>2, <1>4
<1>6. t = u
  <2>1. \A k \in 1..Len(t) : t[k] = u[k]
    BY <1>3, <1>5
  <2>2. Len(t) = Len(u)
    BY <1>3, <1>5
  <2> QED
    BY <1>2, <1>3, <2>1, <2>2, SeqEqual
<1> QED
  BY <1>6 DEF t, u

\* A parameter of a URL has its name in front of its '=' and its value behind.
LEMMA ParameterFacts ==
  ASSUME NEW k \in Token, k # Equal, NEW v \in Token
  PROVE  LET t == <<k, Equal, v>> IN
         /\ ValueOf(t) = <<v>>
         /\ HasKey(t, k)
         /\ \A name : name # k => ~HasKey(t, name)
<1> DEFINE t == <<k, Equal, v>>
           I == PlacesOf(t, Equal)
<1>1. t \in Texts /\ Len(t) = 3 /\ t[1] = k /\ t[2] = Equal /\ t[3] = v
  BY WordFacts DEF Texts
<1> HIDE DEF t
<1>2. I \in SUBSET Nat /\ 2 \in I /\ \A i \in I : 2 <= i
  <2>1. \A i \in I : i \in 1..3 /\ t[i] = Equal
    BY <1>1 DEF PlacesOf
  <2>2. 1 \notin I
    BY <1>1, <2>1
  <2>3. 2 \in I
    BY <1>1 DEF PlacesOf
  <2> HIDE DEF I
  <2>4. \A i \in I : i \in Nat /\ 2 <= i
    BY <2>1, <2>2
  <2> QED
    BY <2>3, <2>4
<1>3. Sign(t) = 2
  BY <1>2, FirstOfFacts DEF Sign
<1>4. SubSeq(t, 1, 1) = <<k>> /\ SubSeq(t, 3, 3) = <<v>>
  <2>1. 1 \in 1..Len(t) /\ 3 \in 1..Len(t)
    BY <1>1
  <2> QED
    BY <1>1, <2>1, OneToken
<1>5. ValueOf(t) = <<v>>
  <2>1. Sign(t) + 1 = 3 /\ Len(t) = 3
    BY <1>1, <1>3
  <2> QED
    BY <1>4, <2>1 DEF ValueOf
<1>6. \A name : HasKey(t, name) <=> <<k>> \in {<<>>, <<name>>}
  <2>1. Sign(t) - 1 = 1 /\ Sign(t) # 0
    BY <1>3
  <2> QED
    BY <1>4, <2>1 DEF HasKey
<1>7. \A name : <<k>> = <<name>> => k = name
  OBVIOUS
<1>8. <<k>> # <<>>
  OBVIOUS
<1> QED
  BY <1>5, <1>6, <1>7, <1>8 DEF t

\* What GetParam is, in these words.
LEMMA GetParamIs ==
  ASSUME NEW name, params.len \in Nat
  PROVE  GetParam(name) =
           LET found == FirstOf({i \in 1..params.len : HasKey(ParamTexts[i], name)})
           IN  IF found = 0 THEN Free ELSE ValueOf(ParamTexts[found])
<1> DEFINE t == [i \in 1..params.len |-> strings[params.array[i]]]
           Mark(text) == FirstOf({j \in 1..Len(text) : text[j] = Equal})
           I == {i \in 1..Len(t) : /\ Mark(t[i]) # 0
                                   /\ SubSeq(t[i], 1, Mark(t[i]) - 1) \in {<<>>, <<name>>}}
<1>1. Len(t) = params.len /\ t = ParamTexts
  BY DEF ParamTexts
<1>2. GetParam(name) = IF FirstOf(I) = 0 THEN Free
                       ELSE SubSeq(t[FirstOf(I)], Mark(t[FirstOf(I)]) + 1, Len(t[FirstOf(I)]))
  BY DEF GetParam, SelectInSeq, FirstOf
<1> HIDE DEF t
<1>3. \A text : Mark(text) = Sign(text)
  BY DEF Sign, PlacesOf
<1> HIDE DEF Mark
<1>4. I = {i \in 1..params.len : HasKey(ParamTexts[i], name)}
  BY <1>1, <1>3 DEF HasKey
<1> HIDE DEF I
<1> QED
  BY <1>1, <1>2, <1>3, <1>4 DEF ValueOf

\* The first text with the name is the one whose value is given.
LEMMA GetParamFacts ==
  ASSUME NEW name, params.len \in Nat,
         NEW k \in 1..params.len, HasKey(ParamTexts[k], name),
         \A i \in 1..(k - 1) : ~HasKey(ParamTexts[i], name)
  PROVE  GetParam(name) = ValueOf(ParamTexts[k])
<1> DEFINE I == {i \in 1..params.len : HasKey(ParamTexts[i], name)}
           found == FirstOf(I)
<1>1. I \in SUBSET Nat /\ k \in I
  OBVIOUS
<1>2. \A i \in I : k <= i
  <2> SUFFICES ASSUME NEW i \in I, ~(k <= i) PROVE FALSE
    OBVIOUS
  <2>1. i \in 1..(k - 1) /\ HasKey(ParamTexts[i], name)
    OBVIOUS
  <2> QED
    BY <2>1
<1>3. GetParam(name) = IF found = 0 THEN Free ELSE ValueOf(ParamTexts[found])
  BY GetParamIs
<1> HIDE DEF I
<1>4. found = k
  BY <1>1, <1>2, FirstOfFacts
<1> HIDE DEF found
<1>5. k # 0
  OBVIOUS
<1> QED
  BY <1>3, <1>4, <1>5

-----------------------------------------------------------------------------
(***************************************************************************)
(* The invariant.  A machine owns the strings of one list at a time: those *)
(* of its parameters, or the header of an upload.  Between two requests    *)
(* both lists and the heap are empty, so malloc can serve the next one.    *)
(***************************************************************************)
Sized(l) == Fits(l) /\ l.capacity <= 2 * Cardinality(Addresses)

\* The elements of l are the addresses in use in the heap h, each once.
Owned(l, h) ==
  LET used == {a \in Addresses : h[a] # Free} IN
  /\ \A i \in 1..l.len : l.array[i] \in used
  /\ \A i, j \in 1..l.len : l.array[i] = l.array[j] => i = j
  /\ \A a \in used : \E i \in 1..l.len : l.array[i] = a

\* The list l holds these texts, in this order.
Holds(l, h, texts) == l.len = Len(texts) /\ \A i \in 1..l.len : h[l.array[i]] = texts[i]

IInv ==
  /\ request \in Queries \cup {NoRequest, Stopped, Upload}
  /\ strings \in [Addresses -> Texts \cup {Free}]
  /\ Sized(params) /\ Sized(headers)
  /\ request # Stopped => params.capacity >= 1 /\ headers.capacity >= 1
  /\ request # Upload => headers.len = 0 /\ Owned(params, strings)
  /\ request = Upload => params.len = 0 /\ headers.len <= 1 /\ Owned(headers, strings)
  /\ request \in {NoRequest, Stopped} => params.len = 0
  /\ request \in Queries => Holds(params, strings, Pieces(BufferOf(request)))

\* No request is also another kind of request, and queries have their kind.
LEMMA RequestFacts ==
  /\ NoRequest # Stopped /\ NoRequest # Upload /\ Stopped # Upload
  /\ NoRequest \notin Queries /\ Stopped \notin Queries /\ Upload \notin Queries
  /\ \A r \in Queries \cup {NoRequest, Stopped, Upload} : r.kind = "query" <=> r \in Queries
<1>1. NoRequest.kind = "none" /\ Stopped.kind = "stopped" /\ Upload.kind = "upload"
  BY DEF NoRequest, Stopped, Upload
<1>2. \A q \in Queries : q.kind = "query"
  BY BufferFacts
<1> QED
  BY <1>1, <1>2

\* A text is never what a free address holds.
LEMMA TextIsNotFree == Free \notin Texts
<1> SUFFICES ASSUME <<NULL>> \in Seq(Token) PROVE FALSE
  BY DEF Free, Texts
<1> DEFINE s == <<NULL>>
<1>1. Len(s) = 1 /\ s[1] = NULL /\ s \in Seq(Token)
  OBVIOUS
<1> HIDE DEF s
<1>2. s[1] \in Token
  BY <1>1
<1> QED
  BY <1>1, <1>2, NullAssumption

\* The heap is large enough for every request.
LEMMA SizeFacts ==
  Cardinality(Addresses) = MaxRest + 4 /\ Cardinality(Addresses) \in Nat
BY AddressFacts, RestAssumption

\* An empty list owns the strings only of an empty heap, and such a heap has
\* room for any list.
LEMMA EmptyFacts ==
  ASSUME NEW l, l.len = 0
  PROVE  /\ Owned(l, strings) => Allocated = {}
         /\ \A h : (\A a \in Addresses : h[a] = Free) => Owned(l, h)
<1>1. 1..l.len = {}
  OBVIOUS
<1>2. Owned(l, strings) => \A a \in Allocated : \E i \in 1..l.len : l.array[i] = a
  BY DEF Owned, Allocated
<1>3. Owned(l, strings) => Allocated = {}
  BY <1>1, <1>2
<1>4. \A h : (\A a \in Addresses : h[a] = Free) => {a \in Addresses : h[a] # Free} = {}
  OBVIOUS
<1>5. ASSUME NEW h, \A a \in Addresses : h[a] = Free PROVE Owned(l, h)
  <2>1. {a \in Addresses : h[a] # Free} = {}
    BY <1>5
  <2> QED
    BY <1>1, <2>1 DEF Owned
<1> QED
  BY <1>3, <1>5

\* An empty list on an empty heap is filled with copies of some texts: it owns
\* them, and holds them in their order.
LEMMA Filling ==
  ASSUME NEW l, Sized(l), l.capacity >= 1, l.len = 0, Allocated = {},
         strings \in [Addresses -> Texts \cup {Free}],
         NEW texts \in Seq(Texts), Len(texts) <= Cardinality(Addresses)
  PROVE  LET at == Malloc(Len(texts))
             m == AppendAll(l, at)
             h == Strdup(at, texts)
         IN  /\ Sized(m) /\ m.capacity >= 1 /\ Owned(m, h) /\ Holds(m, h, texts)
             /\ h \in [Addresses -> Texts \cup {Free}]
<1> DEFINE n == Len(texts)
           bound == Cardinality(Addresses)
           at == Malloc(n)
           m == AppendAll(l, at)
           h == Strdup(at, texts)
<1>1. n \in Nat /\ bound \in Nat /\ n <= bound
  BY SizeFacts
<1>2. Addresses \ Allocated = Addresses
  OBVIOUS
<1>3. /\ at \in Seq(Addresses) /\ Len(at) = n
      /\ \A i \in 1..n : at[i] \in Addresses
      /\ \A i, j \in 1..n : at[i] = at[j] => i = j
  BY <1>1, <1>2, MallocFacts
<1> HIDE DEF at, n, bound
<1>4. at \in Seq(Cells)
  <2>1. Addresses \subseteq Cells
    BY DEF Cells
  <2> QED
    BY <1>3, <2>1, SeqMonotonic
<1>5. Fits(l) /\ l.capacity <= 2 * bound /\ l.len + Len(at) <= bound
  BY <1>1, <1>3 DEF Sized, bound
<1>6. Appended(m, l, at, n) /\ m.capacity <= 2 * bound
  BY <1>1, <1>3, <1>4, <1>5, AppendAllFacts
<1>7. /\ h = [b \in Addresses |-> h[b]]
      /\ \A i \in 1..n : h[at[i]] = texts[i]
      /\ \A b \in Addresses : (\A i \in 1..n : at[i] # b) => h[b] = strings[b]
  BY <1>3, StrdupFacts
<1> HIDE DEF m, h
<1>8. /\ Fits(m) /\ m.capacity >= 1 /\ m.len = n
      /\ \A i \in 1..n : m.array[i] = at[i]
  <2>1. l.len + n = n /\ \A i \in 1..n : l.len + i = i
    BY <1>1
  <2>2. /\ Fits(m) /\ m.capacity >= 1 /\ m.len = l.len + n
        /\ \A i \in 1..n : m.array[l.len + i] = at[i]
    BY <1>6 DEF Appended
  <2> QED
    BY <2>1, <2>2
<1>9. \A i \in 1..n : texts[i] \in Texts /\ texts[i] # Free
  BY TextIsNotFree DEF n
<1>10. \A b \in Addresses : strings[b] = Free
  BY DEF Allocated
<1>11. \A b \in Addresses : h[b] = Free \/ \E i \in 1..n : at[i] = b
  BY <1>7, <1>10
<1>16. \A i \in 1..n : h[at[i]] \in Texts /\ h[at[i]] # Free
  <2> SUFFICES ASSUME NEW i \in 1..n PROVE h[at[i]] \in Texts /\ h[at[i]] # Free
    OBVIOUS
  <2>1. h[at[i]] = texts[i]
    BY <1>7
  <2>2. texts[i] \in Texts /\ texts[i] # Free
    BY <1>9
  <2> QED
    BY <2>1, <2>2
<1>12. h \in [Addresses -> Texts \cup {Free}]
  <2>1. \A b \in Addresses : h[b] \in Texts \cup {Free}
    BY <1>11, <1>16
  <2> QED
    BY <1>7, <2>1
<1>13. Sized(m)
  BY <1>6, <1>8 DEF Sized, bound
<1>14. Holds(m, h, texts)
  BY <1>7, <1>8 DEF Holds, n
<1>15. Owned(m, h)
  <2> DEFINE used == {a \in Addresses : h[a] # Free}
  <2>1. \A i \in 1..n : at[i] \in used
    BY <1>3, <1>16
  <2>2. \A a \in used : \E i \in 1..n : at[i] = a
    BY <1>11
  <2> QED
    BY <1>3, <1>8, <2>1, <2>2 DEF Owned
<1> QED
  BY <1>8, <1>12, <1>13, <1>14, <1>15 DEF m, h, at, n

\* The elements of a list.
LEMMA ContentsFacts ==
  ASSUME NEW l, Fits(l)
  PROVE  /\ Contents(l) \in Seq(Cells) /\ Len(Contents(l)) = l.len /\ l.len \in Nat
         /\ \A i \in 1..l.len : Contents(l)[i] = l.array[i]
         /\ ToSet(Contents(l)) = {l.array[i] : i \in 1..l.len}
<1>1. /\ l.array \in Seq(Cells) /\ Len(l.array) = l.capacity /\ l.len \in Nat
      /\ l.capacity \in Nat /\ l.len <= l.capacity
  BY DEF Fits, ListTypes
<1> DEFINE c == Contents(l)
           n == l.len
           s == l.array
<1>2. \A i \in 1..n : s[i] \in Cells
  BY <1>1
<1>3. c = SubSeq(s, 1, n)
  BY DEF Contents
<1> HIDE DEF c, n, s
<1>4. n \in Nat
  BY <1>1 DEF n
<1>5. c \in Seq(Cells) /\ Len(c) = n /\ \A i \in 1..n : c[i] = s[i]
  <2>1. /\ SubSeq(s, 1, n) \in Seq(Cells)
        /\ Len(SubSeq(s, 1, n)) = IF 1 <= n THEN n - 1 + 1 ELSE 0
        /\ \A i \in 1..(n - 1 + 1) : SubSeq(s, 1, n)[i] = s[1 + i - 1]
    BY <1>2, <1>4, SubSeqProperties
  <2> QED
    BY <1>3, <1>4, <2>1
<1>6. DOMAIN c = 1..n
  BY <1>4, <1>5
<1>7. ToSet(c) = {s[i] : i \in 1..n}
  BY <1>5, <1>6 DEF ToSet
<1> QED
  BY <1>4, <1>5, <1>7 DEF c, n, s

\* What the two lists own between them is the heap.
LEMMA OwnedByBoth ==
  ASSUME IInv
  PROVE  /\ ToSet(Contents(params)) \cup ToSet(Contents(headers)) = Allocated
         /\ \/ headers.len = 0 /\ Owned(params, strings)
            \/ params.len = 0 /\ Owned(headers, strings)
<1>1. Fits(params) /\ Fits(headers)
  BY DEF IInv, Sized
<1>2. ASSUME NEW l, Fits(l), Owned(l, strings) PROVE ToSet(Contents(l)) = Allocated
  <2>1. ToSet(Contents(l)) = {l.array[i] : i \in 1..l.len}
    BY <1>2, ContentsFacts
  <2>2. /\ \A i \in 1..l.len : l.array[i] \in Allocated
        /\ \A a \in Allocated : \E i \in 1..l.len : l.array[i] = a
    BY <1>2 DEF Owned, Allocated
  <2> QED
    BY <2>1, <2>2
<1>3. ASSUME NEW l, Fits(l), l.len = 0 PROVE ToSet(Contents(l)) = {}
  <2>1. ToSet(Contents(l)) = {l.array[i] : i \in 1..l.len} /\ 1..l.len = {}
    BY <1>3, ContentsFacts
  <2> QED
    BY <2>1
<1>4. \/ headers.len = 0 /\ Owned(params, strings)
      \/ params.len = 0 /\ Owned(headers, strings)
  BY DEF IInv
<1> QED
  BY <1>1, <1>2, <1>3, <1>4

\* Releasing what both lists own empties the heap.
LEMMA ReleaseFacts ==
  ASSUME IInv
  PROVE  LET h == Release(ToSet(Contents(params)) \cup ToSet(Contents(headers))) IN
         /\ h \in [Addresses -> Texts \cup {Free}]
         /\ \A a \in Addresses : h[a] = Free
<1>1. Release(ToSet(Contents(params)) \cup ToSet(Contents(headers))) = Release(Allocated)
  BY OwnedByBoth
<1>2. Release(Allocated) = [a \in Addresses |-> IF a \in Allocated THEN Free ELSE strings[a]]
  BY DEF Release
<1>3. \A a \in Addresses : (IF a \in Allocated THEN Free ELSE strings[a]) = Free
  BY DEF Allocated
<1>4. Release(Allocated) = [a \in Addresses |-> Free]
  BY <1>2, <1>3
<1> QED
  BY <1>1, <1>4

\* A cleared list is empty and as large as before.
LEMMA ClearedFacts ==
  ASSUME NEW l, Sized(l)
  PROVE  LET c == Cleared(l) IN Sized(c) /\ c.capacity = l.capacity /\ c.len = 0
<1> DEFINE blank == [i \in 1..l.capacity |-> NULL]
           half == [i \in 1..l.capacity |-> IF i <= l.len THEN NULL ELSE l.array[i]]
           freed == Refilled(l, 0, half)
<1>1. /\ l \in ListTypes /\ l.capacity \in Nat /\ l.len \in Nat /\ l.len <= l.capacity
      /\ l.array \in Seq(Cells) /\ Len(l.array) = l.capacity
      /\ l.capacity <= 2 * Cardinality(Addresses)
  BY DEF Sized, Fits, ListTypes
<1>2. blank \in Seq(Cells) /\ Len(blank) = l.capacity
  BY <1>1 DEF Cells
<1>3. half \in Seq(Cells)
  BY <1>1 DEF Cells
<1> HIDE DEF blank, half
<1>4. freed \in ListTypes /\ freed.capacity = l.capacity
  <2>1. l \in ListTypes /\ 0 \in Nat /\ half \in Seq(Cells)
    BY <1>1, <1>3
  <2> QED
    BY <2>1, RefilledFields
<1>5. Cleared(l) = IF l.len > 0 THEN Refilled(freed, 0, blank) ELSE Refilled(l, 0, blank)
  BY DEF Cleared, list_free_contents, Refilled, blank, half
<1> HIDE DEF freed
<1> DEFINE c == Cleared(l)
<1>6. c \in ListTypes /\ c.capacity = l.capacity /\ c.len = 0 /\ c.array = blank
  BY <1>1, <1>2, <1>4, <1>5, RefilledFields
<1> HIDE DEF c
<1>7. Fits(c)
  BY <1>1, <1>2, <1>6 DEF Fits
<1> QED
  BY <1>1, <1>6, <1>7 DEF c, Sized

\* A freed list has no cells.
LEMMA FreedFacts ==
  ASSUME NEW l
  PROVE  LET f == list_free(l) IN Sized(f) /\ f.capacity = 0 /\ f.len = 0
<1>1. <<>> \in Seq(Cells) /\ Len(<<>>) = 0
  OBVIOUS
<1>2. Fits(list_free(l))
  BY <1>1 DEF list_free, Fits, ListTypes
<1>3. list_free(l).capacity = 0 /\ list_free(l).len = 0
  BY DEF list_free
<1> QED
  BY <1>2, <1>3, SizeFacts DEF Sized

\* The first states satisfy it.
LEMMA InitSafe == Init => IInv
<1> SUFFICES ASSUME Init PROVE IInv
  OBVIOUS
<1>1. params = list_new /\ headers = list_new /\ request = NoRequest
  BY DEF Init
<1>2. strings \in [Addresses -> Texts \cup {Free}] /\ \A a \in Addresses : strings[a] = Free
  BY DEF Init
<1>3. /\ Fits(params) /\ params.len = 0 /\ params.capacity = 1
      /\ Fits(headers) /\ headers.len = 0 /\ headers.capacity = 1
  BY <1>1, NewFits
<1>4. Sized(params) /\ Sized(headers)
  BY <1>3, SizeFacts, RestAssumption DEF Sized
<1>5. Owned(params, strings)
  BY <1>2, <1>3, EmptyFacts
<1> QED
  BY <1>1, <1>2, <1>3, <1>4, <1>5, RequestFacts DEF IInv

\* A machine without a request has an empty heap.
LEMMA IdleFacts ==
  ASSUME IInv, request = NoRequest \/ (request = Upload /\ headers.len = 0)
  PROVE  Allocated = {} /\ params.len = 0 /\ headers.len = 0
<1>1. \/ params.len = 0 /\ headers.len = 0 /\ Owned(params, strings)
      \/ params.len = 0 /\ headers.len = 0 /\ Owned(headers, strings)
  BY RequestFacts DEF IInv
<1> QED
  BY <1>1, EmptyFacts

\* A query: its pieces fill the empty list of parameters.
LEMMA QueryLineSafe ==
  ASSUME IInv, QueryLine
  PROVE  IInv'
<1> PICK q \in Queries :
      /\ request' = q
      /\ params' = AppendAll(params, Malloc(Len(Pieces(BufferOf(q)))))
      /\ strings' = Strdup(Malloc(Len(Pieces(BufferOf(q)))), Pieces(BufferOf(q)))
  BY DEF QueryLine
<1>1. request = NoRequest /\ headers' = headers
  BY DEF QueryLine
<1>2. Allocated = {} /\ params.len = 0 /\ headers.len = 0
  BY <1>1, IdleFacts
<1>3. /\ Sized(params) /\ Sized(headers) /\ params.capacity >= 1 /\ headers.capacity >= 1
      /\ strings \in [Addresses -> Texts \cup {Free}]
  BY <1>1, RequestFacts DEF IInv
<1> DEFINE texts == Pieces(BufferOf(q))
<1>4. texts \in Seq(Texts) /\ Len(texts) \in 2..(MaxRest + 2)
  BY PiecesFacts
<1> HIDE DEF texts
<1>5. Len(texts) <= Cardinality(Addresses)
  BY <1>4, SizeFacts, RestAssumption
<1>6. params' = AppendAll(params, Malloc(Len(texts))) /\ strings' = Strdup(Malloc(Len(texts)), texts)
  BY DEF texts
<1>7. /\ Sized(params') /\ params'.capacity >= 1 /\ Owned(params', strings')
      /\ Holds(params', strings', texts)
      /\ strings' \in [Addresses -> Texts \cup {Free}]
  BY <1>2, <1>3, <1>4, <1>5, <1>6, Filling
<1>8. Sized(headers') /\ headers'.capacity >= 1 /\ headers'.len = 0
  BY <1>1, <1>2, <1>3
<1>9. request' \in Queries /\ request' \notin {NoRequest, Stopped, Upload}
  BY RequestFacts
<1>10. Holds(params', strings', Pieces(BufferOf(request')))
  BY <1>7 DEF texts
<1>11. /\ Sized(params)' /\ Sized(headers)' /\ Owned(params, strings)'
       /\ Holds(params, strings, Pieces(BufferOf(request)))'
  BY <1>7, <1>8, <1>10 DEF Sized, Fits, Owned, Holds
<1> QED
  BY <1>7, <1>8, <1>9, <1>11 DEF IInv

\* An upload has no parameters.
LEMMA UploadLineSafe ==
  ASSUME IInv, UploadLine
  PROVE  IInv'
<1>1. request = NoRequest /\ request' = Upload /\ UNCHANGED <<params, headers, strings>>
  BY DEF UploadLine
<1>2. Allocated = {} /\ params.len = 0 /\ headers.len = 0
  BY <1>1, IdleFacts
<1>3. Owned(headers, strings)
  BY <1>2, EmptyFacts DEF Allocated
<1>4. /\ Sized(params) /\ Sized(headers) /\ params.capacity >= 1 /\ headers.capacity >= 1
      /\ strings \in [Addresses -> Texts \cup {Free}]
  BY <1>1, RequestFacts DEF IInv
<1>5. /\ Sized(params)' /\ Sized(headers)' /\ Owned(headers, strings)'
  BY <1>1, <1>3, <1>4 DEF Sized, Fits, Owned
<1>6. request' \notin Queries /\ request' \notin {NoRequest, Stopped}
  BY <1>1, RequestFacts
<1>7. headers.len <= 1
  BY <1>2
<1> QED
  BY <1>1, <1>2, <1>4, <1>5, <1>6, <1>7 DEF IInv

\* The header of an upload is the only string there is.
LEMMA AddHeaderSafe ==
  ASSUME IInv, AddHeader
  PROVE  IInv'
<1> DEFINE texts == << <<Word>> >>
<1>1. /\ request = Upload /\ headers.len = 0 /\ request' = request /\ params' = params
      /\ headers' = AppendAll(headers, Malloc(1)) /\ strings' = Strdup(Malloc(1), texts)
  BY DEF AddHeader
<1>2. Allocated = {} /\ params.len = 0 /\ headers.len = 0
  BY <1>1, IdleFacts
<1>3. /\ Sized(params) /\ Sized(headers) /\ params.capacity >= 1 /\ headers.capacity >= 1
      /\ strings \in [Addresses -> Texts \cup {Free}]
  BY <1>1, RequestFacts DEF IInv
<1>4. texts \in Seq(Texts) /\ Len(texts) = 1
  <2>1. <<Word>> \in Texts
    BY WordFacts DEF Texts
  <2> QED
    BY <2>1
<1> HIDE DEF texts
<1>5. Len(texts) <= Cardinality(Addresses)
  BY <1>4, SizeFacts, RestAssumption
<1>6. /\ Sized(headers') /\ headers'.capacity >= 1 /\ Owned(headers', strings')
      /\ Holds(headers', strings', texts)
      /\ strings' \in [Addresses -> Texts \cup {Free}]
  BY <1>1, <1>2, <1>3, <1>4, <1>5, Filling
<1>7. headers'.len <= 1
  BY <1>4, <1>6 DEF Holds
<1>8. Sized(params)' /\ Sized(headers)' /\ Owned(headers, strings)'
  BY <1>1, <1>3, <1>6 DEF Sized, Fits, Owned
<1>9. request' = Upload /\ request' \notin Queries /\ request' \notin {NoRequest, Stopped}
  BY <1>1, RequestFacts
<1> QED
  BY <1>1, <1>2, <1>3, <1>6, <1>7, <1>8, <1>9 DEF IInv

\* A reset clears both lists and releases what they own.
LEMMA ResetSafe ==
  ASSUME IInv, Reset
  PROVE  IInv'
<1> DEFINE h == Release(ToSet(Contents(params)) \cup ToSet(Contents(headers)))
           p == Cleared(params)
           r == Cleared(headers)
<1>1. /\ request \notin {NoRequest, Stopped} /\ request' = NoRequest
      /\ params' = p /\ headers' = r /\ strings' = h
  BY DEF Reset
<1>2. Sized(params) /\ Sized(headers) /\ params.capacity >= 1 /\ headers.capacity >= 1
  BY <1>1 DEF IInv
<1>3. /\ Sized(p) /\ p.capacity = params.capacity /\ p.len = 0
      /\ Sized(r) /\ r.capacity = headers.capacity /\ r.len = 0
  BY <1>2, ClearedFacts
<1>4. h \in [Addresses -> Texts \cup {Free}] /\ \A a \in Addresses : h[a] = Free
  BY ReleaseFacts
<1> HIDE DEF h, p, r
<1>5. Owned(p, h)
  BY <1>3, <1>4, EmptyFacts
<1>6. /\ Sized(params)' /\ Sized(headers)' /\ Owned(params, strings)'
  BY <1>1, <1>3, <1>5 DEF Sized, Fits, Owned
<1>7. params'.len = 0 /\ headers'.len = 0 /\ params'.capacity >= 1 /\ headers'.capacity >= 1
  BY <1>1, <1>2, <1>3
<1>8. strings' \in [Addresses -> Texts \cup {Free}]
  BY <1>1, <1>4
<1> QED
  BY <1>1, <1>6, <1>7, <1>8, RequestFacts DEF IInv

\* The end of the program frees both lists and what they own.
LEMMA ShutdownSafe ==
  ASSUME IInv, Shutdown
  PROVE  IInv'
<1> DEFINE h == Release(ToSet(Contents(params)) \cup ToSet(Contents(headers)))
           p == list_free(params)
           r == list_free(headers)
<1>1. /\ request' = Stopped
      /\ params' = p /\ headers' = r /\ strings' = h
  BY DEF Shutdown
<1>2. Sized(p) /\ p.len = 0 /\ Sized(r) /\ r.len = 0
  BY FreedFacts
<1>3. h \in [Addresses -> Texts \cup {Free}] /\ \A a \in Addresses : h[a] = Free
  BY ReleaseFacts
<1> HIDE DEF h, p, r
<1>4. Owned(p, h)
  BY <1>2, <1>3, EmptyFacts
<1>5. /\ Sized(params)' /\ Sized(headers)' /\ Owned(params, strings)'
  BY <1>1, <1>2, <1>4 DEF Sized, Fits, Owned
<1>6. params'.len = 0 /\ headers'.len = 0
  BY <1>1, <1>2
<1>7. strings' \in [Addresses -> Texts \cup {Free}]
  BY <1>1, <1>3
<1> QED
  BY <1>1, <1>5, <1>6, <1>7, RequestFacts DEF IInv

\* Every step keeps it.
LEMMA StepSafe == IInv /\ [Next]_vars => IInv'
<1> SUFFICES ASSUME IInv, [Next]_vars PROVE IInv'
  OBVIOUS
<1>1. CASE QueryLine
  BY <1>1, QueryLineSafe
<1>2. CASE UploadLine
  BY <1>2, UploadLineSafe
<1>3. CASE AddHeader
  BY <1>3, AddHeaderSafe
<1>4. CASE Reset
  BY <1>4, ResetSafe
<1>5. CASE Shutdown
  BY <1>5, ShutdownSafe
<1>6. CASE UNCHANGED vars
  BY <1>6 DEF vars, IInv, Sized, Fits, Owned, Holds
<1> QED
  BY <1>1, <1>2, <1>3, <1>4, <1>5, <1>6 DEF Next

-----------------------------------------------------------------------------
(***************************************************************************)
(* What follows from it.                                                   *)
(***************************************************************************)
\* The lists are lists, with arrays at most twice as large as the heap.
LEMMA SafeTypes == IInv => TypeOK
<1> SUFFICES ASSUME IInv PROVE TypeOK
  OBVIOUS
<1>1. ASSUME NEW l, Sized(l) PROVE IsList(l)
  <2> DEFINE bound == 2 * Cardinality(Addresses)
  <2>1. /\ l.capacity \in Nat /\ l.len \in Nat /\ l.len <= l.capacity
        /\ l.array \in Seq(Cells) /\ Len(l.array) = l.capacity /\ l.capacity <= bound
    BY <1>1 DEF Sized, Fits, ListTypes
  <2>2. bound \in Nat
    BY SizeFacts
  <2> HIDE DEF bound
  <2>3. l.capacity \in 0..bound /\ l.len \in 0..l.capacity
    BY <2>1, <2>2
  <2>4. l.array \in [1..l.capacity -> Cells]
    BY <2>1
  <2> QED
    BY <2>3, <2>4 DEF IsList, Cells, bound
<1>2. DOMAIN strings = Addresses
  BY DEF IInv
<1> QED
  BY <1>1, <1>2 DEF IInv, TypeOK

\* The heap is what the lists own, each string once.
LEMMA SafeStrings == IInv => StringsOwned
<1> SUFFICES ASSUME IInv PROVE StringsOwned
  OBVIOUS
<1> DEFINE p == Contents(params)
           r == Contents(headers)
<1>1. Fits(params) /\ Fits(headers)
  BY DEF IInv, Sized
<1>2. ASSUME NEW l, Fits(l), Owned(l, strings)
      PROVE  ToSet(Contents(l)) = Allocated /\ Cardinality(Allocated) = Len(Contents(l))
  <2> DEFINE n == l.len
             f == [i \in 1..n |-> l.array[i]]
  <2>1. /\ ToSet(Contents(l)) = {l.array[i] : i \in 1..n}
        /\ Len(Contents(l)) = n /\ n \in Nat
    BY <1>2, ContentsFacts
  <2>2. /\ \A i \in 1..n : l.array[i] \in Allocated
        /\ \A i, j \in 1..n : l.array[i] = l.array[j] => i = j
        /\ \A a \in Allocated : \E i \in 1..n : l.array[i] = a
    BY <1>2 DEF Owned, Allocated
  <2>3. /\ f \in [1..n -> Allocated]
        /\ \A i, j \in 1..n : f[i] = f[j] => i = j
        /\ \A a \in Allocated : \E i \in 1..n : f[i] = a
    BY <2>2
  <2>4. ToSet(Contents(l)) = Allocated
    BY <2>1, <2>2
  <2> HIDE DEF f, n
  <2>5. f \in Bijection(1..n, Allocated)
    BY <2>3, Fun_IsBij
  <2>6. IsFiniteSet(1..n) /\ Cardinality(1..n) = n
    BY <2>1, FS_Interval
  <2>7. Cardinality(Allocated) = Cardinality(1..n)
    <3> DEFINE I == 1..n
    <3>1. f \in Bijection(I, Allocated) /\ IsFiniteSet(I)
      BY <2>5, <2>6
    <3> HIDE DEF I
    <3>2. Cardinality(Allocated) = Cardinality(I)
      BY <3>1, FS_Bijection DEF ExistsBijection
    <3> QED
      BY <3>2 DEF I
  <2> QED
    BY <2>1, <2>4, <2>6, <2>7
<1>3. ASSUME NEW l, Fits(l), l.len = 0 PROVE Contents(l) = <<>>
  BY <1>3, ContentsFacts, EmptySeq
<1>4. p \in Seq(Cells) /\ r \in Seq(Cells)
  BY <1>1, ContentsFacts
<1>5. CASE headers.len = 0 /\ Owned(params, strings)
  <2>1. r = <<>>
    BY <1>1, <1>3, <1>5
  <2> HIDE DEF p, r
  <2>2. p \o r = p
    BY <1>4, <2>1, ConcatEmptySeq
  <2> QED
    BY <1>1, <1>2, <1>5, <2>2 DEF StringsOwned, p, r
<1>6. CASE params.len = 0 /\ Owned(headers, strings)
  <2>1. p = <<>>
    BY <1>1, <1>3, <1>6
  <2> HIDE DEF p, r
  <2>2. p \o r = r
    BY <1>4, <2>1, ConcatEmptySeq
  <2> QED
    BY <1>1, <1>2, <1>6, <2>2 DEF StringsOwned, p, r
<1> QED
  BY <1>5, <1>6, OwnedByBoth

\* What get_param finds is what the client sent.
LEMMA SafeParams == IInv => ParamsAreTheUrls
<1> SUFFICES ASSUME IInv, request.kind = "query"
             PROVE  /\ GetParam(request.keys[1]) = <<Values[1]>>
                    /\ Amp \notin ToSet(request.rest)
                         => GetParam(request.keys[2]) = <<Values[2]>>
  BY DEF ParamsAreTheUrls
<1> DEFINE k1 == request.keys[1]
           k2 == request.keys[2]
           texts == Pieces(BufferOf(request))
           n == params.len
<1>1. request \in Queries
  BY RequestFacts DEF IInv
<1>2. /\ k1 \in Token /\ k2 \in Token /\ k1 # Equal /\ k2 # Equal /\ k1 # k2
  <2>1. request.keys \in Keys
    BY <1>1, BufferFacts
  <2> QED
    BY <2>1, KeysAssumption DEF Token
<1>3. /\ texts \in Seq(Texts) /\ Len(texts) \in 2..(MaxRest + 2)
      /\ texts[1] = <<k1, Equal, Values[1]>>
      /\ Amp \notin ToSet(request.rest) => texts[2] = <<k2, Equal, Values[2]>>
  BY <1>1, PiecesFacts
<1>4. n = Len(texts) /\ \A i \in 1..n : strings[params.array[i]] = texts[i]
  BY <1>1 DEF IInv, Holds
<1> HIDE DEF k1, k2, texts
<1>5. n \in Nat /\ n >= 2
  BY <1>3, <1>4, RestAssumption
<1>6. \A i \in 1..n : ParamTexts[i] = texts[i]
  BY <1>4 DEF ParamTexts
<1> HIDE DEF n
<1>7. 1 \in 1..n /\ 2 \in 1..n
  BY <1>5
<1>8. ParamTexts[1] = <<k1, Equal, Values[1]>>
  BY <1>3, <1>6, <1>7
<1>9. HasKey(ParamTexts[1], k1) /\ ValueOf(ParamTexts[1]) = <<Values[1]>>
      /\ ~HasKey(ParamTexts[1], k2)
  BY <1>2, <1>8, ParameterFacts, WordFacts
<1>10. GetParam(k1) = <<Values[1]>>
  <2>1. \A i \in 1..(1 - 1) : ~HasKey(ParamTexts[i], k1)
    OBVIOUS
  <2>2. GetParam(k1) = ValueOf(ParamTexts[1])
    BY <1>5, <1>7, <1>9, <2>1, GetParamFacts DEF n
  <2> QED
    BY <1>9, <2>2
<1>11. ASSUME Amp \notin ToSet(request.rest) PROVE GetParam(k2) = <<Values[2]>>
  <2>1. ParamTexts[2] = <<k2, Equal, Values[2]>>
    BY <1>3, <1>6, <1>7, <1>11
  <2>2. HasKey(ParamTexts[2], k2) /\ ValueOf(ParamTexts[2]) = <<Values[2]>>
    BY <1>2, <2>1, ParameterFacts, WordFacts
  <2>3. \A i \in 1..(2 - 1) : ~HasKey(ParamTexts[i], k2)
    <3>1. \A i \in 1..(2 - 1) : i = 1
      OBVIOUS
    <3> QED
      BY <1>9, <3>1
  <2>4. GetParam(k2) = ValueOf(ParamTexts[2])
    BY <1>5, <1>7, <2>2, <2>3, GetParamFacts DEF n
  <2> QED
    BY <2>2, <2>4
<1> QED
  BY <1>10, <1>11 DEF k1, k2

-----------------------------------------------------------------------------
(***************************************************************************)
(* The theorems.                                                           *)
(***************************************************************************)
\* The invariant holds in every reachable state.
THEOREM Invariance == Spec => []IInv
<1>1. Init => IInv
  BY InitSafe
<1>2. IInv /\ [Next]_vars => IInv'
  BY StepSafe
<1> QED
  BY <1>1, <1>2, PTL DEF Spec

\* For every set of routes and every length of the buffer: no list ever holds
\* more elements than its array has cells, and no array grows beyond twice the
\* strings a request can need.
THEOREM TypesAlways == Spec => []TypeOK
<1>1. IInv => TypeOK
  BY SafeTypes
<1> QED
  BY <1>1, Invariance, PTL

\* The strings on the heap are at every time the elements of the machine's two
\* lists, each once: no request leaks a string, and no reset frees one twice.
THEOREM StringsAlwaysOwned == Spec => []StringsOwned
<1>1. IInv => StringsOwned
  BY SafeStrings
<1> QED
  BY <1>1, Invariance, PTL

\* Whatever requests came before and whatever was read behind the URL, get_param
\* gives the endpoint the first value of its own URL, and the second one unless
\* a '&' was read behind the URL.
THEOREM ParamsAlwaysTheUrls == Spec => []ParamsAreTheUrls
<1>1. IInv => ParamsAreTheUrls
  BY SafeParams
<1> QED
  BY <1>1, Invariance, PTL
=============================================================================
