------------------------- MODULE Pagination_proofs -------------------------
(***************************************************************************)
(* Proofs about Pagination.  Two invariants carry them.  StillInv says, as *)
(* long as the table has not changed, where in the sorted table every      *)
(* marker, request and count is.  OwnInv says, as long as the walker is    *)
(* alone and nothing has expired, that what it has seen and what it has    *)
(* read follow each other without a gap, however the table changes.  Both  *)
(* name the page size, the sorted table and the fields by variables, so    *)
(* that the provers see none of their definitions in a step.               *)
(***************************************************************************)
EXTENDS Pagination, Ranks, SequenceTheorems

\* No string is less than itself (decorators.py:10-38, how fields compare).
LEMMA LessIrreflexive == ASSUME NEW s \in Seq(Nat) PROVE ~Less(s, s)
<1>1. \A i \in 1..Len(s) : s[i] \in Nat
      OBVIOUS
<1> QED
    BY <1>1 DEF Less

\* Less is transitive: the shorter of the two common beginnings decides.
LEMMA LessTransitive ==
  ASSUME NEW s \in Seq(Nat), NEW t \in Seq(Nat), NEW u \in Seq(Nat), Less(s, t), Less(t, u)
  PROVE  Less(s, u)
<1>1. PICK i \in 1..Len(t) : /\ i <= Len(s) + 1 /\ \A j \in 1..(i - 1) : s[j] = t[j]
                             /\ i <= Len(s) => s[i] < t[i]
      BY DEF Less
<1>2. PICK k \in 1..Len(u) : /\ k <= Len(t) + 1 /\ \A j \in 1..(k - 1) : t[j] = u[j]
                             /\ k <= Len(t) => t[k] < u[k]
      BY DEF Less
<1>3. /\ Len(s) \in Nat /\ Len(t) \in Nat /\ Len(u) \in Nat
      /\ \A j \in 1..Len(s) : s[j] \in Nat
      /\ \A j \in 1..Len(t) : t[j] \in Nat
      /\ \A j \in 1..Len(u) : u[j] \in Nat
      OBVIOUS
<1>4. CASE i <= k
  <2>1. i \in 1..Len(u) /\ i <= Len(s) + 1
        BY <1>1, <1>2, <1>3, <1>4
  <2>2. \A j \in 1..(i - 1) : s[j] = u[j]
        BY <1>1, <1>2, <1>3, <1>4
  <2>3. i <= Len(s) => s[i] < u[i]
    <3> SUFFICES ASSUME i <= Len(s) PROVE s[i] < u[i]
        OBVIOUS
    <3>1. s[i] < t[i]
          BY <1>1
    <3>2. s[i] \in Nat /\ t[i] \in Nat /\ u[i] \in Nat
          BY <1>3, <2>1
    <3>3. i < k => t[i] = u[i]
          BY <1>1, <1>2, <1>3
    <3>4. i = k => t[i] < u[i]
          BY <1>1, <1>2, <1>3
    <3> QED
        BY <1>4, <3>1, <3>2, <3>3, <3>4
  <2> QED
      BY <2>1, <2>2, <2>3 DEF Less
<1>5. CASE k < i
  <2>1. k \in 1..Len(u) /\ k <= Len(s) /\ k <= Len(t)
        BY <1>1, <1>2, <1>3, <1>5
  <2>2. \A j \in 1..(k - 1) : s[j] = u[j]
        BY <1>1, <1>2, <1>3, <1>5
  <2>3. s[k] = t[k] /\ t[k] < u[k]
        BY <1>1, <1>2, <1>3, <1>5, <2>1
  <2>4. k <= Len(s) + 1 /\ s[k] < u[k]
        BY <1>3, <2>1, <2>3
  <2> QED
      BY <2>1, <2>2, <2>4 DEF Less
<1> QED
    BY <1>1, <1>2, <1>3, <1>4, <1>5

\* Of two different strings one is less: at the first place where they differ,
\* or where the shorter one ends.
LEMMA LessTotal ==
  ASSUME NEW s \in Seq(Nat), NEW t \in Seq(Nat), s # t PROVE Less(s, t) \/ Less(t, s)
<1>1. /\ Len(s) \in Nat /\ Len(t) \in Nat
      /\ \A j \in 1..Len(s) : s[j] \in Nat
      /\ \A j \in 1..Len(t) : t[j] \in Nat
      OBVIOUS
<1>2. PICK D : D = {i \in Nat : i \in 1..Len(s) /\ i \in 1..Len(t) /\ s[i] # t[i]}
      OBVIOUS
<1>3. CASE D # {}
  <2>1. D \in SUBSET Nat
        BY <1>2
  <2>2. PICK i \in D : \A j \in D : i <= j
        BY <1>3, <2>1, LeastNatural
  <2>3. i \in 1..Len(s) /\ i \in 1..Len(t) /\ s[i] # t[i]
        BY <1>2
  <2>4. \A j \in 1..(i - 1) : s[j] = t[j]
    <3> SUFFICES ASSUME NEW j \in 1..(i - 1), s[j] # t[j] PROVE FALSE
        OBVIOUS
    <3>1. j \in D
          BY <1>1, <1>2, <2>3
    <3> QED
        BY <2>2, <2>3, <3>1
  <2>5. s[i] < t[i] \/ t[i] < s[i]
        BY <1>1, <2>3
  <2>6. i <= Len(s) + 1 /\ i <= Len(t) + 1 /\ \A j \in 1..(i - 1) : t[j] = s[j]
        BY <1>1, <2>3, <2>4
  <2>7. CASE s[i] < t[i]
        BY <2>3, <2>4, <2>6, <2>7 DEF Less
  <2>8. CASE t[i] < s[i]
        BY <2>3, <2>6, <2>8 DEF Less
  <2> QED
      BY <2>5, <2>7, <2>8
<1>4. CASE D = {}
  <2>1. ASSUME NEW i \in 1..Len(s), i \in 1..Len(t) PROVE s[i] = t[i]
    <3>1. i \in Nat /\ i \notin D
          BY <1>1, <1>4
    <3> QED
        BY <1>2, <2>1, <3>1
  <2>2. CASE Len(s) = Len(t)
    <3>1. \A i \in 1..Len(s) : s[i] = t[i]
          BY <2>1, <2>2
    <3> QED
        BY <2>2, <3>1, SeqEqual
  <2>3. CASE Len(s) < Len(t)
    <3>1. PICK i : i = Len(s) + 1
          OBVIOUS
    <3>2. i \in 1..Len(t) /\ i <= Len(s) + 1 /\ ~(i <= Len(s))
          BY <1>1, <2>3, <3>1
    <3>3. \A j \in 1..(i - 1) : s[j] = t[j]
          BY <1>1, <2>1, <2>3, <3>1
    <3> QED
        BY <3>2, <3>3 DEF Less
  <2>4. CASE Len(t) < Len(s)
    <3>1. PICK i : i = Len(t) + 1
          OBVIOUS
    <3>2. i \in 1..Len(s) /\ i <= Len(t) + 1 /\ ~(i <= Len(t))
          BY <1>1, <2>4, <3>1
    <3>3. \A j \in 1..(i - 1) : s[j] = t[j]
          BY <1>1, <2>1, <2>4, <3>1
    <3> QED
        BY <3>2, <3>3 DEF Less
  <2> QED
      BY <1>1, <2>2, <2>3, <2>4
<1> QED
    BY <1>3, <1>4
-----------------------------------------------------------------------------
\* Instances are ordered by their fields.
FieldOrder == {m \in Rows \X Rows : After(FieldOf(m[1]), m[2])}

\* R is a strict order of S; of two elements neither may precede the other.
Strict(R, S) ==
  /\ \A x \in S : <<x, x>> \notin R
  /\ \A x, y, z \in S : <<x, y>> \in R /\ <<y, z>> \in R => <<x, z>> \in R

\* For each paginator, the computed field orders the states of instances strictly,
\* forwards or, for a single negated field, backwards (decorators.py:10-38).
LEMMA AfterOrders ==
  ASSUME setup \in Setups
  PROVE  /\ \A a, b \in Rows : <<a, b>> \in FieldOrder <=> After(FieldOf(a), b)
         /\ Strict(FieldOrder, Rows)
<1>1. \A a, b \in Rows : <<a, b>> \in FieldOrder <=> After(FieldOf(a), b)
      BY DEF FieldOrder
<1>2. \A a \in Rows : FieldOf(a) \in Seq(Nat)
      BY FieldAssumption DEF FieldOf
<1>3. \A a \in Rows : ~After(FieldOf(a), a)
      BY <1>2, LessIrreflexive DEF After, Behind
<1>4. ASSUME NEW a \in Rows, NEW b \in Rows, NEW c \in Rows,
             After(FieldOf(a), b), After(FieldOf(b), c)
      PROVE  After(FieldOf(a), c)
  <2>1. FieldOf(a) \in Seq(Nat) /\ FieldOf(b) \in Seq(Nat) /\ FieldOf(c) \in Seq(Nat)
        BY <1>2
  <2>2. Less(FieldOf(a), FieldOf(b)) /\ Less(FieldOf(b), FieldOf(c))
           => Less(FieldOf(a), FieldOf(c))
        BY <2>1, LessTransitive
  <2>3. Less(FieldOf(c), FieldOf(b)) /\ Less(FieldOf(b), FieldOf(a))
           => Less(FieldOf(c), FieldOf(a))
        BY <2>1, LessTransitive
  <2> QED
      BY <1>4, <2>2, <2>3 DEF After, Behind
<1> QED
    BY <1>1, <1>3, <1>4 DEF Strict

\* A part of a table is one.
LEMMA TableParts ==
  ASSUME NEW T \in Tables PROVE T \in SUBSET Rows /\ \A U \in SUBSET T : U \in Tables
BY DEF Tables

\* In a table, where an instance has one state, the order is total: the key is the
\* last part of the field, or digits that are nobody else's (decorators.py:36).
LEMMA TableOrders ==
  ASSUME setup \in Setups, NEW T \in Tables PROVE Orders(FieldOrder, T)
<1>1. T \in SUBSET Rows
      BY TableParts
<1>2. ASSUME NEW a \in T, NEW b \in T, a # b
      PROVE  <<a, b>> \in FieldOrder \/ <<b, a>> \in FieldOrder
  <2>1. a.pk # b.pk
        BY <1>2 DEF Tables
  <2>2. FieldOf(a) \in Seq(Nat) /\ FieldOf(b) \in Seq(Nat) /\ FieldOf(a) # FieldOf(b)
        BY <1>1, <2>1, FieldAssumption DEF FieldOf
  <2>3. Less(FieldOf(a), FieldOf(b)) \/ Less(FieldOf(b), FieldOf(a))
        BY <2>2, LessTotal
  <2>4. After(FieldOf(a), b) \/ After(FieldOf(b), a)
        BY <2>3 DEF After, Behind
  <2> QED
      BY <1>1, <2>4, AfterOrders
<1> QED
    BY <1>1, <1>2, AfterOrders DEF Orders, Strict

\* Ascending instances.
Ascending(s) == \A i, j \in 1..Len(s) : i < j => After(FieldOf(s[i]), s[j])

\* The same as three facts about After.
LEMMA AfterFacts ==
  ASSUME setup \in Setups, NEW a \in Rows, NEW b \in Rows
  PROVE  /\ ~After(FieldOf(a), a)
         /\ ~(After(FieldOf(a), b) /\ After(FieldOf(b), a))
         /\ \A c \in Rows : After(FieldOf(a), b) /\ After(FieldOf(b), c) => After(FieldOf(a), c)
BY AfterOrders DEF Strict

\* The number of instances before one, by which Sorted places it, is its rank.
LEMMA RanksBefore ==
  ASSUME setup \in Setups, NEW T \in Tables
  PROVE  /\ IsFiniteSet(T) /\ Cardinality(T) \in Nat /\ Orders(FieldOrder, T)
         /\ \A row \in Rows : Cardinality(Before(T, row)) = Rank(FieldOrder, T, row)
<1>0. T \in SUBSET Rows
      BY TableParts
<1>1. IsFiniteSet(T) /\ Cardinality(T) \in Nat
      BY <1>0, PageAssumption, FS_Subset, FS_CardinalityType
<1>2. Orders(FieldOrder, T)
      BY TableOrders
<1>3. ASSUME NEW row \in Rows PROVE Before(T, row) = {a \in T : <<a, row>> \in FieldOrder}
      BY <1>0, AfterOrders DEF Before
<1>4. \A row \in Rows : Cardinality(Before(T, row)) = Rank(FieldOrder, T, row)
      BY <1>3 DEF Rank
<1> QED
    BY <1>1, <1>2, <1>4

\* Sorted lists all the instances of a set in ascending order: no place of the
\* list is left to an arbitrary CHOOSE, and the i-th has i - 1 before it.
LEMMA SortedLists ==
  ASSUME setup \in Setups, NEW T \in Tables
  PROVE  /\ Cardinality(T) \in Nat /\ Sorted(T) \in [1..Cardinality(T) -> T]
         /\ \A i, j \in 1..Cardinality(T) : i < j => After(FieldOf(Sorted(T)[i]), Sorted(T)[j])
         /\ \A row \in T : \E i \in 1..Cardinality(T) : Sorted(T)[i] = row
<1>0. T \in SUBSET Rows
      BY TableParts
<1>1. PICK n, f : n = Cardinality(T) /\ f = Sorted(T)
      OBVIOUS
<1>2. f = [i \in 1..n |-> CHOOSE row \in T : Cardinality(Before(T, row)) = i - 1] /\ n \in Nat
      BY <1>1, RanksBefore DEF Sorted
<1>3. ASSUME NEW i \in 1..n
      PROVE  f[i] \in T /\ f[i] \in Rows /\ Rank(FieldOrder, T, f[i]) = i - 1
  <2>1. \E row \in T : Rank(FieldOrder, T, row) = i - 1
        BY <1>1, RanksBefore, Ranked
  <2>2. \E row \in T : Cardinality(Before(T, row)) = i - 1
        BY <1>0, <2>1, RanksBefore
  <2>3. f[i] = CHOOSE row \in T : Cardinality(Before(T, row)) = i - 1
        BY <1>2
  <2>4. f[i] \in T /\ Cardinality(Before(T, f[i])) = i - 1
        BY <2>2, <2>3
  <2> QED
      BY <1>0, <2>4, RanksBefore
<1>4. ASSUME NEW i \in 1..n, NEW j \in 1..n, i < j PROVE After(FieldOf(f[i]), f[j])
  <2>1. f[i] # f[j]
        BY <1>2, <1>3, <1>4
  <2>2. ASSUME <<f[j], f[i]>> \in FieldOrder PROVE FALSE
    <3>1. Rank(FieldOrder, T, f[j]) < Rank(FieldOrder, T, f[i])
          BY <1>3, <2>2, RankOrder, RanksBefore
    <3> QED
        BY <1>2, <1>3, <1>4, <3>1
  <2>3. <<f[i], f[j]>> \in FieldOrder
        BY <1>3, <2>1, <2>2, RanksBefore DEF Orders
  <2> QED
      BY <1>3, <2>3, AfterOrders
<1>5. ASSUME NEW row \in T PROVE \E i \in 1..n : f[i] = row
  <2>1. PICK r \in Int : r = Rank(FieldOrder, T, row) /\ r + 1 \in 1..n
    <3>1. Rank(FieldOrder, T, row) \in 0..(n - 1)
          BY <1>1, RanksBefore, RankBelow
    <3> QED
        BY <1>2, <3>1
  <2>2. f[r + 1] \in T /\ Rank(FieldOrder, T, f[r + 1]) = r
        BY <1>3, <2>1
  <2>3. ASSUME <<f[r + 1], row>> \in FieldOrder \/ <<row, f[r + 1]>> \in FieldOrder PROVE FALSE
    <3>1. \/ Rank(FieldOrder, T, f[r + 1]) < Rank(FieldOrder, T, row)
          \/ Rank(FieldOrder, T, row) < Rank(FieldOrder, T, f[r + 1])
          BY <2>2, <2>3, RankOrder, RanksBefore
    <3> QED
        BY <2>1, <2>2, <3>1
  <2>4. f[r + 1] = row
        BY <2>2, <2>3, RanksBefore DEF Orders
  <2> QED
      BY <2>1, <2>4
<1>6. f \in [1..n -> T]
      BY <1>2, <1>3
<1> QED
    BY <1>1, <1>2, <1>4, <1>5, <1>6

\* An ascending list of all of T is the sorted one, so that a query's results
\* are determined by the instances it finds.
LEMMA SortedIs ==
  ASSUME setup \in Setups, NEW T \in SUBSET Rows, NEW n \in Nat, NEW g \in [1..n -> T],
         \A i, j \in 1..n : i < j => After(FieldOf(g[i]), g[j]),
         \A row \in T : \E i \in 1..n : g[i] = row
  PROVE  Cardinality(T) = n /\ Sorted(T) = g
<1>1. \A i \in 1..n : g[i] \in T /\ g[i] \in Rows
      OBVIOUS
<1>2. \A i, j \in 1..n : After(FieldOf(g[i]), g[j]) <=> i < j
  <2> SUFFICES ASSUME NEW i \in 1..n, NEW j \in 1..n, After(FieldOf(g[i]), g[j]) PROVE i < j
      OBVIOUS
  <2>1. ~(j < i) /\ i # j
        BY <1>1, AfterFacts
  <2> QED
      BY <2>1
<1>3. ASSUME NEW k \in 0..n
      PROVE  Cardinality({g[i] : i \in 1..k}) = k
  <2>1. PICK f, S : f = [i \in 1..k |-> g[i]] /\ S = {g[i] : i \in 1..k}
        OBVIOUS
  <2>2. \A i, j \in 1..k : g[i] = g[j] => i = j
    <3> SUFFICES ASSUME NEW i \in 1..k, NEW j \in 1..k, g[i] = g[j], i # j PROVE FALSE
        OBVIOUS
    <3>1. i \in 1..n /\ j \in 1..n /\ (i < j \/ j < i)
          OBVIOUS
    <3>2. ~After(FieldOf(g[i]), g[i])
          BY <1>1, <3>1, AfterFacts
    <3> QED
        BY <1>2, <3>1, <3>2
  <2>3. f \in Bijection(1..k, S)
        BY <2>1, <2>2 DEF Bijection, Injection, Surjection, IsInjective
  <2>4. ExistsBijection(1..k, S)
        BY <2>3 DEF ExistsBijection
  <2>5. IsFiniteSet(1..k) /\ Cardinality(1..k) = k
        BY FS_Interval
  <2> QED
      BY <2>1, <2>4, <2>5, FS_Bijection
<1>4. Cardinality(T) = n
  <2>1. T = {g[i] : i \in 1..n}
        OBVIOUS
  <2>2. n \in 0..n
        OBVIOUS
  <2>3. Cardinality({g[i] : i \in 1..n}) = n
        BY <1>3, <2>2
  <2> QED
      BY <2>1, <2>3
<1>5. ASSUME NEW i \in 1..n PROVE Cardinality(Before(T, g[i])) = i - 1
  <2>1. Before(T, g[i]) = {g[j] : j \in 1..(i - 1)}
    <3>1. \A row \in T : After(FieldOf(row), g[i]) <=> \E j \in 1..(i - 1) : row = g[j]
          BY <1>2
    <3> QED
        BY <1>1, <3>1 DEF Before
  <2>2. i - 1 \in 0..n
        OBVIOUS
  <2> QED
      BY <1>3, <2>1, <2>2
<1>6. ASSUME NEW i \in 1..n
      PROVE  g[i] = CHOOSE row \in T : Cardinality(Before(T, row)) = i - 1
  <2>1. ASSUME NEW row \in T, Cardinality(Before(T, row)) = i - 1 PROVE row = g[i]
    <3>1. PICK j \in 1..n : g[j] = row
          OBVIOUS
    <3>2. j - 1 = i - 1
          BY <1>5, <2>1, <3>1
    <3> QED
        BY <3>1, <3>2
  <2> QED
      BY <1>1, <1>5, <2>1
<1>7. Sorted(T) = [i \in 1..n |-> g[i]]
      BY <1>4, <1>6 DEF Sorted
<1> QED
    BY <1>4, <1>7

\* The instances after the m-th one, sorted, are the tail of the sorted list: what
\* a query from a marker finds (paginator.py:177-191).
LEMMA SortedTail ==
  ASSUME setup \in Setups, NEW T \in Tables, NEW m \in 1..Cardinality(T),
         NEW U, U = {row \in T : After(FieldOf(Sorted(T)[m]), row)}
  PROVE  /\ U \in Tables /\ Cardinality(U) = Cardinality(T) - m
         /\ \A i \in 1..Cardinality(U) : Sorted(U)[i] = Sorted(T)[m + i]
<1>0. T \in SUBSET Rows
      BY TableParts
<1>1. PICK n, f : n = Cardinality(T) /\ f = Sorted(T)
      OBVIOUS
<1>2. /\ n \in Nat /\ f \in [1..n -> T] /\ m \in 1..n
      /\ \A i, j \in 1..n : i < j => After(FieldOf(f[i]), f[j])
      /\ \A row \in T : \E i \in 1..n : f[i] = row
      BY <1>1, SortedLists
<1>3. PICK g : g = [i \in 1..(n - m) |-> f[m + i]]
      OBVIOUS
<1>4. \A i \in 1..(n - m) : m + i \in 1..n /\ g[i] = f[m + i]
      BY <1>2, <1>3
<1>5. \A i \in 1..n : f[i] \in Rows /\ (f[i] \in U <=> m < i)
  <2> SUFFICES ASSUME NEW i \in 1..n PROVE f[i] \in U <=> m < i
      BY <1>0, <1>2
  <2>1. f[i] \in U <=> After(FieldOf(f[m]), f[i])
        BY <1>1, <1>2
  <2>2. i = m \/ i < m \/ m < i
        BY <1>2
  <2>3. f[i] \in Rows /\ f[m] \in Rows
        BY <1>0, <1>2
  <2> QED
      BY <1>2, <2>1, <2>2, <2>3, AfterFacts
<1>6. g \in [1..(n - m) -> U] /\ n - m \in Nat
  <2>1. \A i \in 1..(n - m) : g[i] \in U
        BY <1>2, <1>4, <1>5
  <2>2. n - m \in Nat
        BY <1>2
  <2> QED
      BY <1>3, <2>1, <2>2
<1>7. \A i, j \in 1..(n - m) : i < j => After(FieldOf(g[i]), g[j])
      BY <1>2, <1>4
<1>8. ASSUME NEW row \in U PROVE \E i \in 1..(n - m) : g[i] = row
  <2>1. PICK j \in 1..n : f[j] = row
        BY <1>2
  <2>2. j - m \in 1..(n - m) /\ m + (j - m) = j
        BY <1>2, <1>5, <2>1
  <2> QED
      BY <1>4, <2>1, <2>2
<1>9. U \in Tables /\ U \in SUBSET Rows
      BY <1>0, TableParts
<1>10. Cardinality(U) = n - m /\ Sorted(U) = g
      BY <1>6, <1>7, <1>8, <1>9, SortedIs
<1> QED
    BY <1>1, <1>4, <1>9, <1>10
-----------------------------------------------------------------------------
\* n pages of instances.
OfPages(n) == n * PerPage

\* Arithmetic of whole pages; the offset of a later page is at least that of an
\* earlier one and one page.
LEMMA Offsets ==
  ASSUME setup \in Setups, NEW n \in Nat, NEW k \in Nat
  PROVE  /\ PerPage \in Nat /\ PerPage > 0 /\ OfPages(n) \in Nat /\ OfPages(k) \in Nat
         /\ OfPages(0) = 0 /\ OfPages(1) = PerPage
         /\ OfPages(n + 1) = OfPages(n) + PerPage
         /\ OfPages(n + k) = OfPages(n) + OfPages(k)
         /\ n <= k => OfPages(n) <= OfPages(k)
         /\ n < k => OfPages(n) + PerPage <= OfPages(k)
<1>1. PICK p \in Nat : p = PerPage /\ p > 0
      BY PageAssumption DEF PerPage
<1>2. n * p \in Nat /\ k * p \in Nat /\ 0 * p = 0 /\ 1 * p = p
      OBVIOUS
<1>3. (n + 1) * p = n * p + p /\ (n + k) * p = n * p + k * p
      OBVIOUS
<1>4. n <= k => n * p <= k * p
      OBVIOUS
<1>5. n < k => n * p + p <= k * p
  <2> SUFFICES ASSUME n < k PROVE n * p + p <= k * p
      OBVIOUS
  <2>1. n + 1 <= k /\ n + 1 \in Nat /\ (n + 1) * p = n * p + p
        OBVIOUS
  <2>2. (n + 1) * p <= k * p
        BY <2>1
  <2> QED
      BY <2>1, <2>2
<1> QED
    BY <1>1, <1>2, <1>3, <1>4, <1>5 DEF OfPages

\* Python's s[from:to]: the length and the elements of it.
LEMMA Slices ==
  ASSUME NEW S, NEW s \in Seq(S), NEW from \in Nat, NEW to \in Nat
  PROVE  LET e == Smaller(to, Len(s)) IN
         /\ e \in Nat /\ e <= to /\ e <= Len(s) /\ (e = to \/ e = Len(s))
         /\ Slice(s, from, to) \in Seq(S)
         /\ Len(Slice(s, from, to)) = IF from < e THEN e - from ELSE 0
         /\ \A i \in 1..Len(Slice(s, from, to)) :
              from + i \in 1..Len(s) /\ Slice(s, from, to)[i] = s[from + i]
<1>1. PICK e \in Nat : e = Smaller(to, Len(s)) /\ e <= to /\ e <= Len(s) /\ (e = to \/ e = Len(s))
      BY DEF Smaller
<1>2. PICK z : z = SubSeq(s, from + 1, e)
      OBVIOUS
<1>3. \A i \in (from + 1)..e : i \in 1..Len(s)
      BY <1>1
<1>4. /\ z \in Seq(S)
      /\ Len(z) = IF from + 1 <= e THEN e - (from + 1) + 1 ELSE 0
      /\ \A i \in 1..(e - (from + 1) + 1) : z[i] = s[(from + 1) + i - 1]
      BY <1>2, <1>3, SubSeqProperties
<1>5. Slice(s, from, to) = z
      BY <1>1, <1>2 DEF Slice
<1>6. ASSUME NEW i \in 1..Len(z) PROVE from + i \in 1..Len(s) /\ z[i] = s[from + i]
  <2>1. i \in 1..(e - (from + 1) + 1) /\ (from + 1) + i - 1 = from + i
        BY <1>1, <1>4
  <2> QED
      BY <1>1, <1>4, <2>1
<1> QED
    BY <1>1, <1>4, <1>5, <1>6

Strings == Seq(Nat)
ReadingPCs == {"ahead", "count", "update", "own"}
RequestType ==
  [pc : {"idle", "query"} \cup ReadingPCs, number : Nat \ {0}, marker : Strings, pages : Nat,
   results : Seq(Rows), next : Seq(Rows), counter : Nat]
TypeOK ==
  /\ setup \in Setups /\ table \in Tables
  /\ markers \in [1..MaxPage + Readahead + 1 -> Strings] /\ known \in Nat
  /\ req \in [Readers -> RequestType]
  /\ walk \in [page : Nat, seen : Seq(Rows), throughout : SUBSET Rows, over : BOOLEAN]
  /\ changes \in Nat /\ expired \in Nat
  /\ shared \in BOOLEAN /\ overtaken \in BOOLEAN /\ beyond \in BOOLEAN

\* A computed field is a string that is not empty: the empty one can stand for no marker.
LEMMA FieldType ==
  ASSUME setup \in Setups, NEW row \in Rows PROVE FieldOf(row) \in Strings /\ FieldOf(row) # <<>>
BY FieldAssumption DEF FieldOf, Strings

\* What _store_marker stores is the field of an instance of the page, and no empty
\* string (paginator.py:49-59).
LEMMA LastOnPage ==
  ASSUME setup \in Setups, NEW rows \in Seq(Rows), rows # <<>>
  PROVE  /\ Smaller(PerPage, Len(rows)) \in 1..Len(rows)
         /\ LastOn(rows) = FieldOf(rows[Smaller(PerPage, Len(rows))])
         /\ LastOn(rows) \in Strings /\ LastOn(rows) # <<>>
<1>1. PerPage \in Nat /\ PerPage > 0
      BY PageAssumption DEF PerPage
<1>2. Len(rows) \in Nat /\ Len(rows) > 0
      BY EmptySeq
<1>3. Smaller(PerPage, Len(rows)) \in 1..Len(rows)
      BY <1>1, <1>2 DEF Smaller
<1>4. rows[Smaller(PerPage, Len(rows))] \in Rows
      BY <1>3, ElementOfSeq
<1> QED
    BY <1>3, <1>4, FieldType DEF LastOn

\* _get_marker returns a stored marker and the number of pages between it and the
\* page asked for, or none and all the pages before that (paginator.py:62-85).
LEMMA Nearest ==
  ASSUME TypeOK, NEW number \in 1..MaxPage
  PROVE  LET near == NearestMarker(number) IN
         /\ near.pages \in 0..(number - 1) /\ near.marker \in Strings
         /\ near.marker = <<>> => near.pages = number - 1
         /\ near.marker # <<>> => near.pages < number - 1
                                  /\ near.marker = markers[number - 1 - near.pages]
         /\ number > 1 /\ markers[number - 1] # <<>> => near.pages = 0 /\ near.marker # <<>>
<1>1. PICK stored : stored = {n \in 1..(number - 1) : markers[n] # <<>>}
      OBVIOUS
<1>2. number \in Nat /\ MaxPage \in Nat /\ \A n \in 1..(number - 1) : markers[n] \in Strings
      BY PageAssumption DEF TypeOK
<1>3. CASE stored = {}
  <2>1. NearestMarker(number) = [marker |-> <<>>, pages |-> number - 1]
        BY <1>1, <1>3 DEF NearestMarker
  <2>2. number > 1 => markers[number - 1] = <<>>
        BY <1>1, <1>2, <1>3
  <2>3. <<>> \in Strings
        BY DEF Strings
  <2> QED
      BY <1>2, <2>1, <2>2, <2>3
<1>4. CASE stored # {}
  <2>1. \E n \in stored : \A m \in stored : m <= n
    <3>1. PICK D : D = {d \in Nat : number - d \in stored}
          OBVIOUS
    <3>2. D \in SUBSET Nat /\ D # {}
      <4>1. PICK n \in stored : n \in 1..(number - 1)
            BY <1>1, <1>4
      <4>2. number - n \in Nat /\ number - (number - n) = n
            BY <1>2, <4>1
      <4> QED
          BY <3>1, <4>1, <4>2
    <3>3. PICK d \in D : \A c \in D : d <= c
          BY <3>2, LeastNatural
    <3>4. d \in Nat /\ number - d \in stored
          BY <3>1
    <3>5. ASSUME NEW m \in stored PROVE m <= number - d
      <4>1. m \in 1..(number - 1)
            BY <1>1
      <4>2. number - m \in Nat /\ number - (number - m) = m
            BY <1>2, <4>1
      <4>3. number - m \in D
            BY <3>1, <4>2
      <4> QED
          BY <1>2, <3>3, <3>4, <4>1, <4>3
    <3> QED
        BY <3>4, <3>5
  <2>2. PICK last : last = CHOOSE n \in stored : \A m \in stored : m <= n
        OBVIOUS
  <2>3. last \in stored /\ \A m \in stored : m <= last
        BY <2>1, <2>2
  <2>4. NearestMarker(number) = [marker |-> markers[last], pages |-> number - 1 - last]
        BY <1>1, <1>4, <2>2 DEF NearestMarker
  <2>5. last \in 1..(number - 1) /\ markers[last] # <<>> /\ markers[last] \in Strings
        BY <1>1, <1>2, <2>3
  <2>6. number > 1 /\ markers[number - 1] # <<>> => last = number - 1
        BY <1>1, <1>2, <2>3, <2>5
  <2>7. number - 1 - (number - 1 - last) = last
        BY <1>2, <2>5
  <2> QED
      BY <1>2, <2>4, <2>5, <2>6, <2>7
<1> QED
    BY <1>3, <1>4
-----------------------------------------------------------------------------
\* Everything has its type; pages asked for are within the bound.
Asked == \A r \in Readers : req[r].pc # "idle" => req[r].number <= MaxPage

\* The bounds and the results of the query in page() (paginator.py:177-191).
LEMMA QueryRows ==
  ASSUME TypeOK, NEW q \in RequestType,
         NEW rows, rows = (IF q.marker = <<>> THEN table ELSE {row \in table : After(q.marker, row)}),
         NEW bottom, bottom = q.pages * PerPage, NEW top, top = bottom + PerPage,
         NEW results, results = Slice(Sorted(rows), bottom, top + PerPage * Readahead)
  PROVE  /\ bottom = OfPages(q.pages) /\ bottom \in Nat /\ top \in Nat
         /\ top + PerPage * Readahead = bottom + OfPages(Readahead + 1)
         /\ OfPages(Readahead + 1) = PerPage + OfPages(Readahead)
         /\ OfPages(Readahead) \in Nat
         /\ rows \in Tables /\ Sorted(rows) \in Seq(Rows) /\ Len(Sorted(rows)) = Cardinality(rows)
         /\ results \in Seq(Rows) /\ Rest(results, top) \in Seq(Rows)
<1>1. q.pages \in Nat /\ setup \in Setups /\ table \in Tables /\ Readahead \in Nat
      BY PageAssumption DEF TypeOK, RequestType
<1>2. PICK p \in Nat : p = PerPage
      BY PageAssumption, <1>1 DEF PerPage
<1>3. bottom = OfPages(q.pages) /\ OfPages(Readahead + 1) = OfPages(Readahead) + PerPage
      /\ OfPages(Readahead) \in Nat /\ OfPages(q.pages) \in Nat
      BY <1>1, Offsets DEF OfPages
<1>4. PerPage * Readahead = OfPages(Readahead)
      BY <1>1, <1>2 DEF OfPages
<1>5. rows \in Tables /\ rows \in SUBSET Rows
      BY <1>1, TableParts
<1>6. Sorted(rows) \in Seq(Rows) /\ Len(Sorted(rows)) = Cardinality(rows)
  <2>1. PICK n, f : n = Cardinality(rows) /\ f = Sorted(rows)
        OBVIOUS
  <2>2. n \in Nat /\ f \in [1..n -> rows]
        BY <1>1, <1>5, <2>1, SortedLists
  <2>3. f \in Seq(rows) /\ Len(f) = n
        BY <2>2
  <2>4. f \in Seq(Rows)
        BY <1>5, <2>2, <2>3
  <2> QED
      BY <2>1, <2>3, <2>4
<1>7. top + PerPage * Readahead \in Nat /\ bottom \in Nat /\ top \in Nat
      BY <1>2, <1>3, <1>4
<1>8. results \in Seq(Rows)
      BY <1>6, <1>7, Slices
<1>9. Rest(results, top) \in Seq(Rows)
  <2>1. Len(results) \in Nat
        BY <1>8
  <2> QED
      BY <1>7, <1>8, <2>1, Slices DEF Rest
<1> QED
    BY <1>2, <1>3, <1>4, <1>5, <1>6, <1>7, <1>8, <1>9

\* Everything has its type at first.
LEMMA InitType == Init => TypeOK /\ Asked
<1> SUFFICES ASSUME Init PROVE TypeOK /\ Asked
    OBVIOUS
<1>1. <<>> \in Strings /\ <<>> \in Seq(Rows)
      BY DEF Strings
<1>2. Idle \in RequestType /\ Idle.pc = "idle"
      BY <1>1 DEF Idle, RequestType
<1>3. req \in [Readers -> RequestType] /\ \A r \in Readers : req[r].pc = "idle"
      BY <1>2 DEF Init
<1>4. markers \in [1..MaxPage + Readahead + 1 -> Strings]
      BY <1>1 DEF Init
<1>5. walk \in [page : Nat, seen : Seq(Rows), throughout : SUBSET Rows, over : BOOLEAN]
      BY <1>1, PageAssumption, TableParts DEF Init
<1>6. table \in Tables
      BY PageAssumption DEF Init
<1> QED
    BY <1>3, <1>4, <1>5, <1>6 DEF Init, TypeOK, Asked

\* It keeps it when a page is asked for,
LEMMA AskType ==
  ASSUME TypeOK, Asked, NEW r \in Readers, NEW number \in 1..MaxPage, Ask(r, number)
  PROVE  TypeOK' /\ Asked'
<1>1. PICK near : near = NearestMarker(number)
      OBVIOUS
<1>2. near.pages \in Nat /\ near.marker \in Strings /\ number \in Nat /\ number # 0
      /\ number <= MaxPage
      BY <1>1, Nearest, PageAssumption
<1>3. PICK q : q = [Idle EXCEPT !.pc = "query", !.number = number,
                      !.marker = near.marker, !.pages = near.pages]
      OBVIOUS
<1>4. q \in RequestType /\ q.number = number
  <2>1. <<>> \in Seq(Rows)
        OBVIOUS
  <2> QED
      BY <1>2, <1>3, <2>1 DEF RequestType, Idle
<1>5. req' = [req EXCEPT ![r] = q]
      BY <1>1, <1>3 DEF Ask
<1>6. req' \in [Readers -> RequestType]
      BY <1>4, <1>5 DEF TypeOK
<1>7. Asked'
      BY <1>2, <1>4, <1>5 DEF TypeOK, Asked
<1> QED
    BY <1>6, <1>7 DEF Ask, TypeOK

\* in the steps of page(); its markers stay within those the cache is modelled with,
\* since the lookahead reaches Readahead + 1 pages further (paginator.py:191-206),
LEMMA StepType ==
  ASSUME TypeOK, Asked, NEW r \in Readers, Step(r) PROVE TypeOK' /\ Asked'
<1> DEFINE q == req[r]
<1>1. q \in RequestType /\ req \in [Readers -> RequestType]
      BY DEF TypeOK
<1>2. ASSUME NEW z \in RequestType, req' = [req EXCEPT ![r] = z],
             z.pc # "idle" => q.pc # "idle" /\ z.number = q.number
      PROVE  req' \in [Readers -> RequestType] /\ Asked'
      BY <1>1, <1>2 DEF Asked
<1>3. Idle \in RequestType /\ Idle.pc = "idle"
      BY DEF Idle, RequestType, Strings
<1>4. CASE Query(r)
  <2>1. PICK rows, bottom, top, results :
             /\ rows = (IF q.marker = <<>> THEN table ELSE {row \in table : After(q.marker, row)})
             /\ bottom = q.pages * PerPage /\ top = bottom + PerPage
             /\ results = Slice(Sorted(rows), bottom, top + PerPage * Readahead)
        OBVIOUS
  <2>2. results \in Seq(Rows) /\ Rest(results, top) \in Seq(Rows)
        BY <1>1, <2>1, QueryRows
  <2>3. PICK z : z = [q EXCEPT !.pc = "ahead", !.results = results,
                        !.next = Rest(results, top), !.counter = q.number + 1]
        OBVIOUS
  <2>4. z \in RequestType /\ z.number = q.number
    <3>1. q.number + 1 \in Nat /\ "ahead" \in {"idle", "query"} \cup ReadingPCs
          BY <1>1 DEF RequestType, ReadingPCs
    <3> QED
        BY <1>1, <2>2, <2>3, <3>1 DEF RequestType
  <2>5. req' = [req EXCEPT ![r] = z] /\ q.pc = "query"
        BY <1>4, <2>1, <2>3 DEF Query
  <2>6. overtaken' \in BOOLEAN /\ beyond' \in BOOLEAN
        BY <1>4 DEF Query, TypeOK
  <2>7. req' \in [Readers -> RequestType] /\ Asked'
        BY <1>2, <2>4, <2>5
  <2> QED
      BY <1>4, <2>6, <2>7 DEF Query, TypeOK
<1>5. CASE StoreAhead(r)
  <2>1. q.next \in Seq(Rows) /\ q.next # <<>>
        BY <1>1, <1>5 DEF StoreAhead, RequestType
  <2>2. LastOn(q.next) \in Strings
        BY <2>1, LastOnPage DEF TypeOK
  <2>3. Rest(q.next, PerPage) \in Seq(Rows)
    <3>1. Len(q.next) \in Nat /\ PerPage \in Nat
          BY <2>1, PageAssumption DEF TypeOK, PerPage
    <3> QED
        BY <2>1, <3>1, Slices DEF Rest
  <2>4. PICK z : z = [q EXCEPT !.counter = q.counter + 1, !.next = Rest(q.next, PerPage)]
        OBVIOUS
  <2>5. z \in RequestType /\ z.number = q.number
    <3>1. q.counter + 1 \in Nat
          BY <1>1 DEF RequestType
    <3> QED
        BY <1>1, <2>3, <2>4, <3>1 DEF RequestType
  <2>6. req' = [req EXCEPT ![r] = z] /\ q.pc = "ahead"
        BY <1>1, <1>5, <2>4 DEF StoreAhead, RequestType
  <2>7. markers' \in [1..MaxPage + Readahead + 1 -> Strings]
        BY <1>5, <2>2 DEF StoreAhead, TypeOK
  <2>8. req' \in [Readers -> RequestType] /\ Asked'
        BY <1>2, <2>5, <2>6
  <2> QED
      BY <1>5, <2>7, <2>8 DEF StoreAhead, TypeOK
<1>6. CASE EndAhead(r)
  <2>1. PICK z : z = [q EXCEPT !.pc = "count"]
        OBVIOUS
  <2>2. z \in RequestType /\ z.number = q.number
        BY <1>1, <2>1 DEF RequestType, ReadingPCs
  <2>3. q.pc = "ahead" /\ (req' = [req EXCEPT ![r] = Idle] \/ req' = [req EXCEPT ![r] = z])
        BY <1>1, <1>6, <2>1 DEF EndAhead, RequestType
  <2>4. req' \in [Readers -> RequestType] /\ Asked'
        BY <1>2, <1>3, <2>2, <2>3
  <2>5. walk' \in [page : Nat, seen : Seq(Rows), throughout : SUBSET Rows, over : BOOLEAN]
        BY <1>6 DEF EndAhead, TypeOK
  <2> QED
      BY <1>6, <2>4, <2>5 DEF EndAhead, TypeOK
<1>7. CASE ReadCount(r)
  <2>1. PICK z : z = [q EXCEPT !.pc = IF known > KnownCount(q) THEN "own" ELSE "update"]
        OBVIOUS
  <2>2. z \in RequestType /\ z.number = q.number
        BY <1>1, <2>1 DEF RequestType, ReadingPCs
  <2>3. q.pc = "count" /\ req' = [req EXCEPT ![r] = z]
        BY <1>1, <1>7, <2>1 DEF ReadCount, RequestType
  <2>4. req' \in [Readers -> RequestType] /\ Asked'
        BY <1>2, <2>2, <2>3
  <2> QED
      BY <1>7, <2>4 DEF ReadCount, TypeOK
<1>8. CASE WriteCount(r)
  <2>1. PICK z : z = [q EXCEPT !.pc = "own"]
        OBVIOUS
  <2>2. z \in RequestType /\ z.number = q.number
        BY <1>1, <2>1 DEF RequestType, ReadingPCs
  <2>3. q.pc = "update" /\ req' = [req EXCEPT ![r] = z]
        BY <1>1, <1>8, <2>1 DEF WriteCount, RequestType
  <2>4. req' \in [Readers -> RequestType] /\ Asked'
        BY <1>2, <2>2, <2>3
  <2>5. KnownCount(q) \in Nat
    <3>1. q.number - 1 \in Nat /\ Len(q.results) \in Nat
          BY <1>1 DEF RequestType
    <3>2. OfPages(q.number - 1) \in Nat
          BY <3>1, Offsets DEF TypeOK
    <3> QED
        BY <3>1, <3>2 DEF KnownCount, OfPages
  <2> QED
      BY <1>8, <2>4, <2>5 DEF WriteCount, TypeOK
<1>9. CASE Return(r)
  <2>1. PICK page : page = Slice(q.results, 0, PerPage)
        OBVIOUS
  <2>2. q.results \in Seq(Rows) /\ PerPage \in Nat /\ q.number \in Nat /\ q.pc = "own"
        BY <1>1, <1>9, PageAssumption DEF Return, RequestType, TypeOK, PerPage
  <2>3. page \in Seq(Rows)
        BY <2>1, <2>2, Slices
  <2>4. req' = [req EXCEPT ![r] = Idle]
        BY <1>9 DEF Return
  <2>5. req' \in [Readers -> RequestType] /\ Asked'
        BY <1>2, <1>3, <2>4
  <2>6. markers' \in [1..MaxPage + Readahead + 1 -> Strings]
    <3>1. page # <<>> => LastOn(page) \in Strings
          BY <2>3, LastOnPage DEF TypeOK
    <3>2. markers' = IF page = <<>> THEN markers ELSE [markers EXCEPT ![q.number] = LastOn(page)]
          BY <1>9, <2>1 DEF Return
    <3> QED
        BY <3>1, <3>2 DEF TypeOK
  <2>7. walk' \in [page : Nat, seen : Seq(Rows), throughout : SUBSET Rows, over : BOOLEAN]
    <3>1. walk' = IF r # Walker THEN walk
                  ELSE [walk EXCEPT !.page = q.number, !.seen = @ \o page,
                                    !.over = Len(page) < PerPage]
          BY <1>9, <2>1 DEF Return
    <3>2. walk.seen \in Seq(Rows)
          BY DEF TypeOK
    <3>3. walk.seen \o page \in Seq(Rows)
          BY <2>3, <3>2
    <3>4. (Len(page) < PerPage) \in BOOLEAN
          /\ walk \in [page : Nat, seen : Seq(Rows), throughout : SUBSET Rows, over : BOOLEAN]
          BY DEF TypeOK
    <3>5. PICK b \in BOOLEAN : b = (Len(page) < PerPage)
          BY <3>4
    <3>6. PICK s \in Seq(Rows) : s = walk.seen \o page
          BY <3>3
    <3>7. [walk EXCEPT !.page = q.number, !.seen = s, !.over = b]
             \in [page : Nat, seen : Seq(Rows), throughout : SUBSET Rows, over : BOOLEAN]
          BY <2>2, <3>4, <3>6
    <3>8. walk' = walk \/ walk' = [walk EXCEPT !.page = q.number, !.seen = s, !.over = b]
          BY <3>1, <3>5, <3>6
    <3> QED
        BY <3>4, <3>7, <3>8
  <2> QED
      BY <1>9, <2>5, <2>6, <2>7 DEF Return, TypeOK
<1> QED
    BY <1>4, <1>5, <1>6, <1>7, <1>8, <1>9 DEF Step

\* What is saved replaces the state the instance had, so that a table remains one.
LEMMA ChangeBecomes ==
  ASSUME table \in Tables, NEW row \in Rows, Save(row) \/ Delete(row)
  PROVE  \E rows \in Tables : Becomes(rows)
<1>1. CASE Save(row)
  <2>1. PICK old, rows : old = {a \in table : a.pk = row.pk} /\ rows = (table \ old) \cup {row}
        OBVIOUS
  <2>2. rows \in Tables
        BY <2>1 DEF Tables
  <2> QED
      BY <1>1, <2>1, <2>2 DEF Save
<1>2. CASE Delete(row)
  <2>1. table \ {row} \in Tables
        BY TableParts
  <2> QED
      BY <1>2, <2>1 DEF Delete
<1> QED
    BY <1>1, <1>2

\* and in every step.
LEMMA NextType == TypeOK /\ Asked /\ [Next]_vars => TypeOK' /\ Asked'
<1> SUFFICES ASSUME TypeOK, Asked, [Next]_vars PROVE TypeOK' /\ Asked'
    OBVIOUS
<1>1. CASE WalkOn
  <2>1. walk.page + 1 \in 1..MaxPage /\ Walker \in Readers
        BY <1>1, PageAssumption DEF WalkOn, TypeOK, Readers
  <2> QED
      BY <1>1, <2>1, AskType DEF WalkOn
<1>2. CASE \E r \in Others, n \in 1..MaxPage : Ask(r, n)
      BY <1>2, AskType DEF Readers
<1>3. CASE \E r \in Readers : Step(r)
      BY <1>3, StepType
<1>4. ASSUME NEW row \in Rows, Save(row) \/ Delete(row) PROVE TypeOK' /\ Asked'
  <2>1. PICK rows \in Tables : Becomes(rows)
        BY <1>4, ChangeBecomes DEF TypeOK
  <2>2. walk' \in [page : Nat, seen : Seq(Rows), throughout : SUBSET Rows, over : BOOLEAN]
        BY <2>1 DEF Becomes, TypeOK
  <2> QED
      BY <2>1, <2>2 DEF Becomes, TypeOK, Asked
<1>5. ASSUME NEW n \in DOMAIN markers, Expire(n) PROVE TypeOK' /\ Asked'
  <2>1. <<>> \in Strings
        BY DEF Strings
  <2>2. markers' \in [1..MaxPage + Readahead + 1 -> Strings]
        BY <1>5, <2>1 DEF Expire, TypeOK
  <2> QED
      BY <1>5, <2>2 DEF Expire, TypeOK, Asked
<1>6. CASE UNCHANGED vars
      BY <1>6 DEF vars, TypeOK, Asked, RequestType, ReadingPCs, Strings
<1> QED
    BY <1>1, <1>2, <1>3, <1>4, <1>5, <1>6 DEF Next
-----------------------------------------------------------------------------
\* Where the n-th page ends, in a table of N instances with p on a page.
Cap(p, N, n) == Smaller(n * p, N)
\* The m-th instance ends the n-th page; it may be a later one if o holds.
Ends(p, N, o, m, n) == m \in 0..N /\ Cap(p, N, n) <= m /\ (o \/ m = Cap(p, N, n))
\* s is the part of L from after a up to b.
Part(L, s, a, b) == a <= b /\ Len(s) = b - a /\ \A i \in 1..Len(s) : s[i] = L[a + i]
\* From after a up to b are whole pages, at least one, or b is the end.
WholePages(p, N, a, b) == b = N \/ \E k \in Nat : k > 0 /\ b = a + k * p

\* s is the part of L from after a up to b, which begins after the n-th page and
\* is of whole pages.
FromPage(p, N, o, L, n, s, a, b) ==
  /\ p \in Nat /\ p > 0 /\ N \in Nat /\ n \in Nat /\ o \in BOOLEAN
  /\ s \in Seq(Rows) /\ a \in 0..N /\ b \in 0..N
  /\ Part(L, s, a, b) /\ Ends(p, N, o, a, n) /\ WholePages(p, N, a, b)

\* Arithmetic of where pages end: a page more ends a page further on, or at the end.
LEMMA CapFacts ==
  ASSUME NEW p \in Nat, p > 0, NEW N \in Nat, NEW n \in Nat, NEW k \in Nat
  PROVE  /\ Cap(p, N, n) \in 0..N /\ Cap(p, N, 0) = 0 /\ n * p \in Nat /\ k * p \in Nat
         /\ Cap(p, N, n + 1) = Smaller(Cap(p, N, n) + p, N)
         /\ Cap(p, N, n + k) = Smaller(Cap(p, N, n) + k * p, N)
         /\ Cap(p, N, n) < N => Cap(p, N, n) = n * p
<1>1. PICK x \in Nat, y \in Nat : x = n * p /\ y = k * p
      OBVIOUS
<1>2. (n + 1) * p = x + p /\ (n + k) * p = x + y /\ 0 * p = 0
  <2>1. (n + 1) * p = n * p + p /\ (n + k) * p = n * p + k * p /\ 0 * p = 0
        OBVIOUS
  <2> QED
      BY <1>1, <2>1
<1> QED
    BY <1>1, <1>2 DEF Cap, Smaller

\* The last instance of a page that is not empty ends that page: what its marker
\* is made of (paginator.py:49-59).
LEMMA PageEnd ==
  ASSUME NEW p, NEW N, NEW o, NEW L, NEW n, NEW s, NEW a, NEW b,
         FromPage(p, N, o, L, n, s, a, b), s # <<>>, NEW l, l = Smaller(p, Len(s))
  PROVE  /\ l \in 1..Len(s) /\ a + l \in 1..N /\ a + l = Smaller(a + p, N)
         /\ Ends(p, N, o, a + l, n + 1) /\ s[l] = L[a + l]
         /\ o \/ ((n + 1) - 1) * p < N
<1>1. /\ p \in Nat /\ p > 0 /\ N \in Nat /\ n \in Nat /\ o \in BOOLEAN
      /\ s \in Seq(Rows) /\ a \in 0..N /\ b \in 0..N
      /\ Part(L, s, a, b) /\ Ends(p, N, o, a, n) /\ WholePages(p, N, a, b)
      BY DEF FromPage
<1>2. Len(s) \in Nat /\ Len(s) > 0 /\ Len(s) = b - a
      BY <1>1, EmptySeq DEF Part
<1>3. b = N \/ b >= a + p
  <2>1. ASSUME NEW k \in Nat, k > 0, b = a + k * p PROVE b >= a + p
    <3>1. PICK d \in Nat : k = d + 1
          BY <2>1
    <3>2. (d + 1) * p = d * p + p /\ d * p \in Nat
          BY <1>1
    <3>3. PICK x \in Nat : x = d * p
          BY <3>2
    <3> QED
        BY <1>1, <2>1, <3>1, <3>2, <3>3
  <2> QED
      BY <1>1, <2>1 DEF WholePages
<1>4. l \in 1..Len(s) /\ a + l = Smaller(a + p, N)
      BY <1>1, <1>2, <1>3 DEF Smaller
<1>5. a + l \in 1..N /\ s[l] = L[a + l]
      BY <1>1, <1>2, <1>4 DEF Part
<1>6. PICK c \in 0..N, x \in Nat : c = Cap(p, N, n) /\ x = n * p
      BY <1>1, CapFacts
<1>7. Cap(p, N, n + 1) = Smaller(c + p, N) /\ (c < N => c = x)
      BY <1>1, <1>6, CapFacts
<1>8. c <= a /\ (o \/ a = c) /\ a < N
      BY <1>1, <1>2, <1>6 DEF Ends
<1>9. Ends(p, N, o, a + l, n + 1)
  <2>1. Smaller(c + p, N) <= a + l /\ (o \/ a + l = Smaller(c + p, N))
        BY <1>1, <1>4, <1>8 DEF Smaller
  <2> QED
      BY <1>5, <1>7, <2>1 DEF Ends
<1>10. (n + 1) - 1 = n
      BY <1>1
<1> QED
    BY <1>1, <1>4, <1>5, <1>6, <1>7, <1>8, <1>9, <1>10

\* The smaller of two numbers.
LEMMA SmallerType ==
  ASSUME NEW a \in Nat, NEW b \in Nat
  PROVE  Smaller(a, b) \in Nat /\ Smaller(a, b) <= a /\ Smaller(a, b) <= b
         /\ (Smaller(a, b) = a \/ Smaller(a, b) = b)
BY DEF Smaller

\* s is the part of L from after a, of y elements or up to the end.
PartFrom(L, s, a, y, N) == \E b \in 0..N : Part(L, s, a, b) /\ (b = N \/ b = a + y)

\* A slice of a tail of L is a part of L, as long as it asks for or up to the end.
LEMMA SliceOfTail ==
  ASSUME NEW N \in Nat, NEW m \in 0..N, NEW L, NEW S, NEW s \in Seq(S), Part(L, s, m, N),
         NEW x \in Nat, NEW y \in Nat, y > 0, NEW t \in Nat, t = x + y, NEW z, z = Slice(s, x, t)
  PROVE  PartFrom(L, z, Smaller(m + x, N), y, N)
<1>1. PICK l \in Nat : l = Len(s) /\ l = N - m
      BY DEF Part
<1>2. PICK e \in Nat : e = Smaller(t, l) /\ e <= l /\ e <= t /\ (e = t \/ e = l)
      BY SmallerType
<1>3. /\ Len(z) = IF x < e THEN e - x ELSE 0
      /\ \A i \in 1..Len(z) : x + i \in 1..Len(s) /\ z[i] = s[x + i]
  <2>1. Len(z) = IF x < Smaller(t, Len(s)) THEN Smaller(t, Len(s)) - x ELSE 0
        BY Slices
  <2>2. \A i \in 1..Len(z) : x + i \in 1..Len(s) /\ z[i] = s[x + i]
        BY Slices
  <2> QED
      BY <1>1, <1>2, <2>1, <2>2
<1>4. CASE x < e
  <2>1. Smaller(m + x, N) = m + x /\ m + e \in 0..N
        BY <1>1, <1>2, <1>4 DEF Smaller
  <2>2. \A i \in 1..Len(z) : z[i] = L[(m + x) + i]
    <3> SUFFICES ASSUME NEW i \in 1..Len(z) PROVE z[i] = L[(m + x) + i]
        OBVIOUS
    <3>1. x + i \in 1..Len(s) /\ z[i] = s[x + i]
          BY <1>3
    <3>2. i \in Int
          OBVIOUS
    <3>3. (m + x) + i = m + (x + i)
          BY <3>2
    <3> QED
        BY <3>1, <3>3 DEF Part
  <2>3. Len(z) = (m + e) - (m + x) /\ m + x <= m + e
        BY <1>2, <1>3, <1>4
  <2>4. Part(L, z, m + x, m + e)
        BY <2>2, <2>3 DEF Part
  <2>5. m + e = N \/ m + e = (m + x) + y
        BY <1>1, <1>2
  <2> QED
      BY <2>1, <2>4, <2>5 DEF PartFrom
<1>5. CASE ~(x < e)
  <2>1. Len(z) = 0 /\ Smaller(m + x, N) = N
        BY <1>1, <1>2, <1>3, <1>5 DEF Smaller
  <2>2. Part(L, z, N, N)
        BY <2>1 DEF Part
  <2>3. N \in 0..N
        OBVIOUS
  <2> QED
      BY <2>1, <2>2, <2>3 DEF PartFrom
<1> QED
    BY <1>4, <1>5

\* Skipping k pages from the end of the n-th one leads to the end of the (n+k)-th
\* (paginator.py:62-85).
LEMMA Skip ==
  ASSUME NEW p \in Nat, p > 0, NEW N \in Nat, NEW n \in Nat, NEW o \in BOOLEAN,
         NEW m \in 0..N, Ends(p, N, o, m, n), NEW k \in Nat, NEW x, x = k * p
  PROVE  x \in Nat /\ Smaller(m + x, N) \in 0..N /\ Ends(p, N, o, Smaller(m + x, N), n + k)
<1>1. x \in Nat /\ Cap(p, N, n) \in 0..N /\ Cap(p, N, n + k) = Smaller(Cap(p, N, n) + x, N)
      BY CapFacts
<1>2. PICK c \in 0..N, w \in Nat : c = Cap(p, N, n) /\ w = x
      BY <1>1
<1>3. c <= m /\ (o \/ m = c)
      BY <1>2 DEF Ends
<1>4. Smaller(m + w, N) \in 0..N /\ Smaller(c + w, N) <= Smaller(m + w, N)
      /\ (o \/ Smaller(m + w, N) = Smaller(c + w, N))
      BY <1>3 DEF Smaller
<1> QED
    BY <1>1, <1>2, <1>4 DEF Ends

\* What is left of a part is a part.
LEMMA RestOfPart ==
  ASSUME NEW S, NEW s \in Seq(S), NEW L, NEW a \in Nat, NEW b \in Nat, Part(L, s, a, b),
         NEW from \in Nat, NEW z, z = Rest(s, from), z # <<>>
  PROVE  a + from < b /\ Part(L, z, a + from, b)
<1>1. Len(s) \in Nat /\ Len(s) = b - a
      BY DEF Part
<1>2. Smaller(Len(s), Len(s)) = Len(s)
      BY DEF Smaller
<1>3. /\ z \in Seq(S) /\ Len(z) = IF from < Len(s) THEN Len(s) - from ELSE 0
      /\ \A i \in 1..Len(z) : from + i \in 1..Len(s) /\ z[i] = s[from + i]
      BY <1>1, <1>2, Slices DEF Rest
<1>4. Len(z) > 0 /\ Len(z) \in Nat
      BY <1>3, EmptySeq
<1>5. a + from < b /\ Len(z) = b - (a + from)
      BY <1>1, <1>3, <1>4
<1>6. \A i \in 1..Len(z) : z[i] = L[(a + from) + i]
  <2> SUFFICES ASSUME NEW i \in 1..Len(z) PROVE z[i] = L[(a + from) + i]
      OBVIOUS
  <2>1. from + i \in 1..Len(s) /\ z[i] = s[from + i] /\ (a + from) + i = a + (from + i)
        BY <1>3
  <2> QED
      BY <2>1 DEF Part
<1> QED
    BY <1>5, <1>6 DEF Part

\* The lookahead starts a page after what has been read: k pages too far on if k
\* pages were skipped, since results[top:] counts them again (paginator.py:191-206).
LEMMA PagesAhead ==
  ASSUME NEW p, NEW N, NEW o, NEW L, NEW n, NEW s, NEW a, NEW b,
         FromPage(p, N, o, L, n, s, a, b),
         NEW k \in Nat, k = 0 \/ o, NEW x, x = k * p, NEW z, z = Rest(s, x + p), z # <<>>
  PROVE  \E d : FromPage(p, N, o, L, n + 1, z, d, b)
<1>1. /\ p \in Nat /\ p > 0 /\ N \in Nat /\ n \in Nat /\ o \in BOOLEAN
      /\ s \in Seq(Rows) /\ a \in 0..N /\ b \in 0..N
      /\ Part(L, s, a, b) /\ Ends(p, N, o, a, n) /\ WholePages(p, N, a, b)
      BY DEF FromPage
<1>2. x \in Nat /\ (k = 0 => x = 0)
  <2>1. 0 * p = 0 /\ k * p \in Nat
        BY <1>1
  <2> QED
      BY <2>1
<1>3. PICK f \in Nat : f = x + p
      BY <1>1, <1>2
<1>4. a + f < b /\ Part(L, z, a + f, b)
  <2>1. z = Rest(s, f) /\ a \in Nat /\ b \in Nat
        BY <1>1, <1>3
  <2>2. a + f < b /\ Part(L, z, a + f, b)
        BY <1>1, <2>1, RestOfPart
  <2> QED
      BY <2>2
<1>5. PICK d \in 0..N : d = a + f
      BY <1>1, <1>4
<1>6. Ends(p, N, o, d, n + 1)
  <2>1. Cap(p, N, n) \in 0..N /\ Cap(p, N, n + 1) = Smaller(Cap(p, N, n) + p, N)
        BY <1>1, CapFacts
  <2>2. PICK c \in 0..N : c = Cap(p, N, n) /\ Cap(p, N, n + 1) = Smaller(c + p, N)
        BY <2>1
  <2>3. c <= a /\ (o \/ a = c)
        BY <1>1, <2>2 DEF Ends
  <2>4. Smaller(c + p, N) <= d /\ (o \/ d = Smaller(c + p, N))
        BY <1>1, <1>2, <1>3, <1>4, <1>5, <2>3 DEF Smaller
  <2> QED
      BY <2>2, <2>4 DEF Ends
<1>7. WholePages(p, N, d, b)
  <2> SUFFICES ASSUME NEW h \in Nat, b = a + h * p PROVE \E i \in Nat : i > 0 /\ b = d + i * p
      BY <1>1 DEF WholePages
  <2>1. PICK y \in Nat : y = h * p
        BY <1>1
  <2>2. k + 1 < h
    <3> SUFFICES ASSUME h <= k + 1 PROVE FALSE
        OBVIOUS
    <3>1. h * p <= (k + 1) * p
          BY <1>1
    <3>2. (k + 1) * p = k * p + p
          BY <1>1
    <3>3. y <= f
          BY <1>1, <1>3, <2>1, <3>1, <3>2
    <3> QED
        BY <1>1, <1>4, <2>1, <3>3
  <2>3. PICK i \in Nat : i > 0 /\ h = i + (k + 1)
    <3>1. h - (k + 1) \in Nat /\ h - (k + 1) > 0 /\ h = (h - (k + 1)) + (k + 1)
          BY <2>2
    <3> QED
        BY <3>1
  <2>4. (i + (k + 1)) * p = i * p + (k * p + p) /\ i * p \in Nat
        BY <1>1
  <2>5. PICK w \in Nat : w = i * p
        BY <2>4
  <2>6. y = w + f
        BY <1>1, <1>3, <2>1, <2>3, <2>4, <2>5
  <2>7. b = d + w
        BY <1>1, <1>5, <2>1, <2>6
  <2> QED
      BY <2>3, <2>5, <2>7
<1>8. z \in Seq(Rows) /\ n + 1 \in Nat
  <2>1. z = Slice(s, f, Len(s)) /\ Len(s) \in Nat
        BY <1>1, <1>3 DEF Rest
  <2> QED
      BY <1>1, <2>1, Slices
<1> QED
    BY <1>1, <1>4, <1>5, <1>6, <1>7, <1>8 DEF FromPage
-----------------------------------------------------------------------------
\* While the table has not changed, with p instances on a page and N in the
\* table, which are L in order and have the fields F:
\* a marker belongs to an instance that ends its page,
MarkersStill(p, N, L, F) ==
  \A n \in DOMAIN markers : markers[n] # <<>> =>
    \E m \in 1..N : /\ markers[n] = F[L[m]] /\ Ends(p, N, overtaken, m, n)
                    /\ overtaken \/ (n - 1) * p < N

\* so does the one a request starts from; what it has read begins there, and
\* what is left of it, at the page that its counter is on,
QueryStill(p, N, L, F, q, o) ==
  q.pc = "query" =>
    IF q.marker = <<>> THEN q.pages = q.number - 1
    ELSE /\ q.pages < q.number - 1
         /\ \E m \in 1..N : q.marker = F[L[m]] /\ Ends(p, N, o, m, q.number - 1 - q.pages)
ReadStill(p, N, L, q, o) ==
  q.pc \in ReadingPCs =>
    \E a, b \in 0..N : /\ Part(L, q.results, a, b) /\ Ends(p, N, o, a, q.number - 1)
                       /\ WholePages(p, N, a, b)
AheadStill(p, N, L, q, o) ==
  q.pc = "ahead" /\ q.next # <<>> =>
    /\ q.counter > 0
    /\ \E a, b \in 0..N : /\ Part(L, q.next, a, b) /\ Ends(p, N, o, a, q.counter - 1)
                         /\ WholePages(p, N, a, b)
PastEnd(q) == q.pc \in ReadingPCs /\ q.results = <<>> /\ q.number > 1
RequestsStill(p, N, L, F) ==
  \A r \in Readers : /\ QueryStill(p, N, L, F, req[r], overtaken)
                     /\ ReadStill(p, N, L, req[r], overtaken)
                     /\ AheadStill(p, N, L, req[r], overtaken)
                     /\ PastEnd(req[r]) => beyond

\* and the walker has seen the instances up to the end of its page.
WalkStill(p, N, L) ==
  ~overtaken => /\ Part(L, walk.seen, 0, Cap(p, N, walk.page))
                /\ walk.throughout = table
                /\ walk.over => Cap(p, N, walk.page) = N
CountStill(N) == beyond \/ known <= N

StillFor(p, N, L, F) ==
  /\ MarkersStill(p, N, L, F) /\ RequestsStill(p, N, L, F)
  /\ WalkStill(p, N, L) /\ CountStill(N)
Names(p, N, L, F) ==
  p = PerPage /\ N = Cardinality(table) /\ L = Sorted(table) /\ F = Fields[setup]
StillInv == \A p, N, L, F : Names(p, N, L, F) /\ changes = 0 => StillFor(p, N, L, F)

\* The walker asks for the page after the one it is on.
WalkerAsks ==
  req[Walker].pc # "idle" => req[Walker].number = walk.page + 1 /\ ~walk.over

\* What stands for the page size, the table and its fields has the right type.
LEMMA Named ==
  ASSUME TypeOK, NEW p, NEW N, NEW L, NEW F, Names(p, N, L, F)
  PROVE  /\ p \in Nat /\ p > 0 /\ N \in Nat /\ L \in [1..N -> Rows]
         /\ \A row \in Rows : FieldOf(row) = F[row]
         /\ \A i \in 1..N : L[i] \in Rows /\ F[L[i]] = FieldOf(L[i]) /\ F[L[i]] # <<>>
<1>1. setup \in Setups /\ table \in Tables /\ table \in SUBSET Rows
      BY TableParts DEF TypeOK
<1>2. N \in Nat /\ L \in [1..N -> table]
      BY <1>1, SortedLists DEF Names
<1>3. p \in Nat /\ p > 0
      BY <1>1, PageAssumption DEF Names, PerPage
<1>4. \A row \in Rows : FieldOf(row) = F[row] /\ F[row] # <<>>
      BY <1>1, FieldType DEF Names, FieldOf
<1> QED
    BY <1>1, <1>2, <1>3, <1>4

\* An observer that becomes true only weakens where a page may end.
LEMMA EndsOn ==
  ASSUME NEW p, NEW N, NEW o \in BOOLEAN, NEW u \in BOOLEAN, o => u, NEW m, NEW n, Ends(p, N, o, m, n)
  PROVE  Ends(p, N, u, m, n)
BY DEF Ends

\* One request changes; it is enough to look at what it becomes.
LEMMA RequestsOn ==
  ASSUME TypeOK, TypeOK', NEW p, NEW N, NEW L, NEW F, RequestsStill(p, N, L, F),
         NEW r \in Readers, NEW z \in RequestType, req' = [req EXCEPT ![r] = z],
         overtaken => overtaken', beyond => beyond',
         QueryStill(p, N, L, F, z, overtaken'), ReadStill(p, N, L, z, overtaken'),
         AheadStill(p, N, L, z, overtaken'), PastEnd(z) => beyond'
  PROVE  RequestsStill(p, N, L, F)'
<1> SUFFICES ASSUME NEW x \in Readers
             PROVE  /\ QueryStill(p, N, L, F, req'[x], overtaken')
                    /\ ReadStill(p, N, L, req'[x], overtaken')
                    /\ AheadStill(p, N, L, req'[x], overtaken')
                    /\ PastEnd(req'[x]) => beyond'
    BY DEF RequestsStill
<1>1. CASE x = r
      BY <1>1 DEF TypeOK
<1>2. CASE x # r
  <2>1. req'[x] = req[x] /\ overtaken \in BOOLEAN /\ overtaken' \in BOOLEAN
        BY <1>2 DEF TypeOK
  <2>2. PICK q : q = req[x]
        OBVIOUS
  <2>3. /\ QueryStill(p, N, L, F, q, overtaken) /\ ReadStill(p, N, L, q, overtaken)
        /\ AheadStill(p, N, L, q, overtaken)
        /\ PastEnd(q) => beyond
        BY <2>2 DEF RequestsStill
  <2>4. QueryStill(p, N, L, F, q, overtaken')
        BY <2>1, <2>3, EndsOn DEF QueryStill
  <2>5. ReadStill(p, N, L, q, overtaken')
        BY <2>1, <2>3, EndsOn DEF ReadStill
  <2>6. AheadStill(p, N, L, q, overtaken')
    <3> SUFFICES ASSUME q.pc = "ahead", q.next # <<>> PROVE AheadStill(p, N, L, q, overtaken')
        BY DEF AheadStill
    <3>1. PICK a, b \in 0..N :
             /\ Part(L, q.next, a, b) /\ Ends(p, N, overtaken, a, q.counter - 1)
             /\ WholePages(p, N, a, b)
          BY <2>3 DEF AheadStill
    <3>2. Ends(p, N, overtaken', a, q.counter - 1) /\ q.counter > 0
          BY <2>1, <2>3, <3>1, EndsOn DEF AheadStill
    <3> QED
        BY <3>1, <3>2 DEF AheadStill
  <2>7. req'[x] = q
        BY <2>1, <2>2
  <2>8. PastEnd(q) => beyond'
        BY <2>3, Zenon
  <2> QED
      BY <2>4, <2>5, <2>6, <2>7, <2>8
<1> QED
    BY <1>1, <1>2

\* page(number) up to the query: the marker found ends the page it is stored for.
LEMMA AskStill ==
  ASSUME TypeOK, TypeOK', NEW p, NEW N, NEW L, NEW F, Names(p, N, L, F), StillFor(p, N, L, F),
         NEW r \in Readers, NEW number \in 1..MaxPage, Ask(r, number)
  PROVE  StillFor(p, N, L, F)'
<1>1. PICK near : near = NearestMarker(number)
      OBVIOUS
<1>2. /\ near.pages \in 0..(number - 1) /\ near.marker \in Strings
      /\ near.marker = <<>> => near.pages = number - 1
      /\ near.marker # <<>> => near.pages < number - 1
                               /\ near.marker = markers[number - 1 - near.pages]
      BY <1>1, Nearest
<1>3. PICK z : z = [Idle EXCEPT !.pc = "query", !.number = number,
                      !.marker = near.marker, !.pages = near.pages]
      OBVIOUS
<1>4. z.pc = "query" /\ z.number = number /\ z.marker = near.marker /\ z.pages = near.pages
      BY <1>3 DEF Idle
<1>5. req' = [req EXCEPT ![r] = z] /\ z \in RequestType
  <2>1. req' = [req EXCEPT ![r] = z]
        BY <1>1, <1>3 DEF Ask
  <2>2. req'[r] = z /\ req'[r] \in RequestType
        BY <2>1 DEF TypeOK
  <2> QED
      BY <2>1, <2>2
<1>6. QueryStill(p, N, L, F, z, overtaken')
  <2>1. CASE near.marker # <<>>
    <3>1. PICK n : n = number - 1 - near.pages
          OBVIOUS
    <3>2. number \in Int /\ MaxPage \in Int /\ Readahead \in Nat /\ number <= MaxPage
          BY PageAssumption
    <3>3. n \in 1..(MaxPage + Readahead + 1)
          BY <1>2, <2>1, <3>1, <3>2
    <3>4. n \in DOMAIN markers /\ markers[n] # <<>>
          BY <1>2, <2>1, <3>1, <3>3 DEF TypeOK
    <3>5. \E m \in 1..N : markers[n] = F[L[m]] /\ Ends(p, N, overtaken, m, n)
          BY <3>4 DEF StillFor, MarkersStill
    <3>6. overtaken' = overtaken
          BY DEF Ask
    <3> QED
        BY <1>2, <1>4, <2>1, <3>1, <3>5, <3>6 DEF QueryStill
  <2> QED
      BY <1>2, <1>4, <2>1 DEF QueryStill
<1>7. ReadStill(p, N, L, z, overtaken') /\ AheadStill(p, N, L, z, overtaken') /\ ~PastEnd(z)
      BY <1>4 DEF ReadStill, AheadStill, PastEnd, ReadingPCs
<1>8. RequestsStill(p, N, L, F)'
      BY <1>5, <1>6, <1>7, RequestsOn DEF Ask, StillFor
<1> QED
    BY <1>8 DEF Ask, StillFor, MarkersStill, WalkStill, CountStill

\* The query returns the instances that follow the page before, whole pages of them.
LEMMA QueryStep ==
  ASSUME TypeOK, TypeOK', Asked, NEW p, NEW N, NEW L, NEW F, Names(p, N, L, F),
         StillFor(p, N, L, F), NEW r \in Readers, Query(r)
  PROVE  StillFor(p, N, L, F)'
<1>1. PICK q \in RequestType : q = req[r] /\ q.pc = "query"
      BY DEF TypeOK, Query
<1>2. PICK rows, bottom, top, results :
         /\ rows = (IF q.marker = <<>> THEN table ELSE {row \in table : After(q.marker, row)})
         /\ bottom = q.pages * PerPage /\ top = bottom + PerPage
         /\ results = Slice(Sorted(rows), bottom, top + PerPage * Readahead)
      OBVIOUS
<1>3. /\ bottom = OfPages(q.pages) /\ bottom \in Nat /\ top \in Nat
      /\ top + PerPage * Readahead = bottom + OfPages(Readahead + 1)
      /\ rows \in Tables /\ Sorted(rows) \in Seq(Rows) /\ Len(Sorted(rows)) = Cardinality(rows)
      /\ results \in Seq(Rows) /\ Rest(results, top) \in Seq(Rows)
      BY <1>1, <1>2, QueryRows
<1>4. /\ p \in Nat /\ p > 0 /\ N \in Nat /\ L \in [1..N -> Rows] /\ p = PerPage
      /\ \A i \in 1..N : L[i] \in Rows /\ F[L[i]] = FieldOf(L[i])
      BY Named DEF Names
<1>5. PICK x \in Nat, y \in Nat : x = q.pages * p /\ y = (Readahead + 1) * p /\ y > 0
  <2>1. q.pages \in Nat /\ Readahead \in Nat
        BY PageAssumption DEF RequestType
  <2>2. (Readahead + 1) * p = Readahead * p + p /\ Readahead * p \in Nat /\ q.pages * p \in Nat
        BY <1>4, <2>1
  <2> QED
      BY <1>4, <2>2
<1>6. bottom = x /\ top = x + p /\ results = Slice(Sorted(rows), x, x + y) /\ x + y \in Nat
  <2>1. OfPages(Readahead + 1) = y /\ bottom = x
        BY <1>2, <1>4, <1>5 DEF OfPages
  <2> QED
      BY <1>2, <1>3, <1>4, <1>5, <2>1
<1>7. q.pages \in Nat /\ q.number \in Nat /\ q.number - 1 \in Nat
      BY DEF RequestType
\* Where the instances it reads begin.
<1>8. PICK m \in 0..N, n \in Nat :
         /\ Ends(p, N, overtaken, m, n) /\ n + q.pages = q.number - 1
         /\ Part(L, Sorted(rows), m, N)
  <2>1. CASE q.marker = <<>>
    <3>1. rows = table /\ Sorted(rows) = L /\ Cardinality(rows) = N
          BY <1>2, <2>1 DEF Names
    <3>2. Part(L, Sorted(rows), 0, N)
          BY <1>3, <1>4, <3>1 DEF Part
    <3>3. Ends(p, N, overtaken, 0, 0)
      <4>1. Cap(p, N, 0) = 0
            BY <1>4, CapFacts
      <4> QED
          BY <1>4, <4>1 DEF Ends
    <3>4. q.pages = q.number - 1
          BY <1>1, <2>1 DEF StillFor, RequestsStill, QueryStill
    <3> QED
        BY <1>4, <1>7, <3>2, <3>3, <3>4
  <2>2. CASE q.marker # <<>>
    <3>1. PICK m \in 1..N : /\ q.marker = F[L[m]]
                            /\ Ends(p, N, overtaken, m, q.number - 1 - q.pages)
          BY <1>1, <2>2 DEF StillFor, RequestsStill, QueryStill
    <3>2. q.pages < q.number - 1
          BY <1>1, <2>2 DEF StillFor, RequestsStill, QueryStill
    <3>3. PICK n \in Nat : n = q.number - 1 - q.pages /\ n + q.pages = q.number - 1
          BY <1>7, <3>2
    <3>4. rows = {row \in table : After(FieldOf(Sorted(table)[m]), row)}
          BY <1>2, <1>4, <2>2, <3>1 DEF Names
    <3>5. /\ Cardinality(rows) = N - m
          /\ \A i \in 1..Cardinality(rows) : Sorted(rows)[i] = L[m + i]
      <4>1. setup \in Setups /\ table \in Tables /\ N = Cardinality(table) /\ L = Sorted(table)
            BY DEF Names, TypeOK
      <4>2. PICK U : U = rows /\ U = {row \in table : After(FieldOf(Sorted(table)[m]), row)}
            BY <3>4
      <4>3. /\ Cardinality(U) = Cardinality(table) - m
            /\ \A i \in 1..Cardinality(U) : Sorted(U)[i] = Sorted(table)[m + i]
            BY <4>1, <4>2, SortedTail
      <4> QED
          BY <4>1, <4>2, <4>3
    <3>6. Part(L, Sorted(rows), m, N)
          BY <1>3, <1>4, <3>5 DEF Part
    <3> QED
        BY <3>1, <3>3, <3>6
  <2> QED
      BY <2>1, <2>2
<1>9. PICK a \in 0..N : a = Smaller(m + x, N) /\ Ends(p, N, overtaken, a, q.number - 1)
  <2>1. overtaken \in BOOLEAN
        BY DEF TypeOK
  <2>2. PICK k \in Nat : k = q.pages /\ x = k * p /\ n + k = q.number - 1
        BY <1>5, <1>7, <1>8
  <2>3. Smaller(m + x, N) \in 0..N /\ Ends(p, N, overtaken, Smaller(m + x, N), n + k)
    <3>1. p \in Nat /\ p > 0 /\ N \in Nat
          BY <1>4
    <3>2. Ends(p, N, overtaken, m, n) /\ x = k * p
          BY <1>8, <2>2
    <3> QED
        BY <2>1, <3>1, <3>2, Skip
  <2> QED
      BY <2>2, <2>3
<1>10. PICK b \in 0..N : Part(L, results, a, b) /\ WholePages(p, N, a, b)
  <2>1. PICK t \in Nat, s \in Seq(Rows) : t = x + y /\ s = Sorted(rows)
        BY <1>3, <1>6
  <2>2. results = Slice(s, x, t) /\ Part(L, s, m, N) /\ y > 0
        BY <1>5, <1>6, <1>8, <2>1
  <2>3. PartFrom(L, results, Smaller(m + x, N), y, N)
    <3>1. N \in Nat /\ t = x + y
          BY <1>4, <2>1
    <3> QED
        BY <2>2, <3>1, SliceOfTail
  <2>4. PICK b \in 0..N : Part(L, results, a, b) /\ (b = N \/ b = a + y)
        BY <1>9, <2>3 DEF PartFrom
  <2>5. PICK k \in Nat : k > 0 /\ y = k * p
    <3>1. Readahead + 1 \in Nat /\ Readahead + 1 > 0
          BY PageAssumption
    <3> QED
        BY <1>5, <3>1
  <2> QED
      BY <2>4, <2>5 DEF WholePages
<1>11. /\ overtaken' = (overtaken \/ (q.pages > 0 /\ Len(results) > top))
       /\ beyond' = (beyond \/ (results = <<>> /\ q.number > 1))
      BY <1>1, <1>2 DEF Query
<1>12. PICK z : z = [q EXCEPT !.pc = "ahead", !.results = results,
                       !.next = Rest(results, top), !.counter = q.number + 1]
      OBVIOUS
<1>13. /\ z.pc = "ahead" /\ z.number = q.number /\ z.results = results
       /\ z.next = Rest(results, top) /\ z.counter = q.number + 1
      BY <1>12 DEF RequestType
<1>14. req' = [req EXCEPT ![r] = z] /\ z \in RequestType
  <2>1. req' = [req EXCEPT ![r] = z]
        BY <1>1, <1>2, <1>12 DEF Query
  <2>2. req'[r] = z /\ req'[r] \in RequestType
        BY <2>1 DEF TypeOK
  <2> QED
      BY <2>1, <2>2
<1>15. overtaken \in BOOLEAN /\ overtaken' \in BOOLEAN /\ (overtaken => overtaken') /\ (beyond => beyond')
      BY <1>11 DEF TypeOK
<1>16. ReadStill(p, N, L, z, overtaken')
  <2>1. Ends(p, N, overtaken', a, q.number - 1)
        BY <1>9, <1>15, EndsOn
  <2> QED
      BY <1>9, <1>10, <1>13, <2>1 DEF ReadStill
<1>17. AheadStill(p, N, L, z, overtaken')
  <2> SUFFICES ASSUME z.next # <<>> PROVE AheadStill(p, N, L, z, overtaken')
      BY DEF AheadStill
  <2>1. q.pages = 0 \/ overtaken'
    <3>1. Len(results) > top
      <4>1. Part(L, results, a, b) /\ a \in Nat /\ b \in Nat
            BY <1>9, <1>10
      <4>2. a + top < b
            BY <1>3, <1>13, <4>1, RestOfPart
      <4> QED
          BY <1>3, <4>1, <4>2 DEF Part
    <3>2. q.pages > 0 => overtaken'
          BY <1>11, <3>1
    <3> QED
        BY <1>7, <3>2
  <2>2. Ends(p, N, overtaken', a, q.number - 1)
        BY <1>9, <1>15, EndsOn
  <2>3. PICK n1 \in Nat, u \in BOOLEAN, k \in Nat, s \in Seq(Rows), w \in {z.next} :
           n1 = q.number - 1 /\ u = overtaken' /\ k = q.pages /\ s = results
        BY <1>3, <1>7, <1>15
  <2>4. (k = 0 \/ u) /\ Ends(p, N, u, a, n1) /\ Part(L, s, a, b) /\ WholePages(p, N, a, b)
        BY <1>10, <2>1, <2>2, <2>3
  <2>5. x = k * p /\ w = Rest(s, x + p) /\ w # <<>>
        BY <1>5, <1>6, <1>13, <2>3
  <2>6. \E d : FromPage(p, N, u, L, n1 + 1, w, d, b)
    <3>1. FromPage(p, N, u, L, n1, s, a, b)
          BY <1>4, <2>4 DEF FromPage
    <3> QED
        BY <2>4, <2>5, <3>1, PagesAhead
  <2>7. z.counter - 1 = n1 + 1 /\ z.counter > 0
        BY <1>7, <1>13, <2>3
  <2> QED
      BY <2>3, <2>6, <2>7 DEF AheadStill, FromPage
<1>18. QueryStill(p, N, L, F, z, overtaken') /\ (PastEnd(z) => beyond')
      BY <1>11, <1>13 DEF QueryStill, PastEnd
<1>19. RequestsStill(p, N, L, F)'
      BY <1>14, <1>15, <1>16, <1>17, <1>18, RequestsOn DEF StillFor
<1>20. MarkersStill(p, N, L, F)'
  <2> SUFFICES ASSUME NEW n1 \in DOMAIN markers', markers'[n1] # <<>>
               PROVE  \E m1 \in 1..N : /\ markers'[n1] = F[L[m1]] /\ Ends(p, N, overtaken', m1, n1)
                                       /\ overtaken' \/ (n1 - 1) * p < N
      BY DEF MarkersStill
  <2>1. markers' = markers
        BY DEF Query
  <2>2. PICK m1 \in 1..N : /\ markers[n1] = F[L[m1]] /\ Ends(p, N, overtaken, m1, n1)
                           /\ overtaken \/ (n1 - 1) * p < N
        BY <2>1 DEF StillFor, MarkersStill
  <2>3. Ends(p, N, overtaken', m1, n1)
        BY <1>15, <2>2, EndsOn
  <2> QED
      BY <1>15, <2>1, <2>2, <2>3
<1> QED
    BY <1>15, <1>19, <1>20 DEF Query, StillFor, WalkStill, CountStill
-----------------------------------------------------------------------------
\* The page that a part begins with ends where the (n+1)-th page does, and if it is
\* not full it ends at the end.
LEMMA PageOf ==
  ASSUME NEW p, NEW N, NEW o, NEW L, NEW n, NEW s, NEW a, NEW b,
         FromPage(p, N, o, L, n, s, a, b), NEW page, page = Slice(s, 0, p)
  PROVE  \E e \in 0..N :
            /\ Part(L, page, a, e) /\ Ends(p, N, o, e, n + 1) /\ (Len(page) < p => e = N)
            /\ page # <<>> => /\ e \in 1..N /\ (o \/ ((n + 1) - 1) * p < N)
                              /\ Smaller(p, Len(page)) \in 1..Len(page)
                              /\ page[Smaller(p, Len(page))] = L[e]
<1>1. /\ p \in Nat /\ p > 0 /\ N \in Nat /\ n \in Nat /\ o \in BOOLEAN
      /\ s \in Seq(Rows) /\ a \in 0..N /\ b \in 0..N
      /\ Part(L, s, a, b) /\ Ends(p, N, o, a, n) /\ WholePages(p, N, a, b)
      BY DEF FromPage
<1>2. Len(s) \in Nat /\ Len(s) = b - a
      BY <1>1 DEF Part
<1>3. PICK l \in Nat : l = Smaller(p, Len(s)) /\ l <= p /\ l <= Len(s) /\ (l = p \/ l = Len(s))
      BY <1>1, <1>2, SmallerType
<1>4. /\ page \in Seq(Rows) /\ Len(page) = IF 0 < l THEN l - 0 ELSE 0
      /\ \A i \in 1..Len(page) : 0 + i \in 1..Len(s) /\ page[i] = s[0 + i]
  <2>1. /\ page \in Seq(Rows)
        /\ Len(page) = IF 0 < Smaller(p, Len(s)) THEN Smaller(p, Len(s)) - 0 ELSE 0
        BY <1>1, Slices
  <2>2. \A i \in 1..Len(page) : 0 + i \in 1..Len(s) /\ page[i] = s[0 + i]
        BY <1>1, Slices
  <2> QED
      BY <1>1, <1>3, <2>1, <2>2
<1>5. Len(page) = l /\ \A i \in 1..l : i \in 1..Len(s) /\ page[i] = s[i]
      BY <1>1, <1>3, <1>4
<1>6. Part(L, page, a, a + l)
  <2>1. a + l = a + l /\ a <= a + l /\ Len(page) = (a + l) - a
        BY <1>1, <1>5
  <2> QED
      BY <1>1, <1>5, <2>1 DEF Part
<1>7. CASE s # <<>>
  <2>1. /\ l \in 1..Len(s) /\ a + l \in 1..N /\ a + l = Smaller(a + p, N)
        /\ Ends(p, N, o, a + l, n + 1) /\ s[l] = L[a + l]
        /\ o \/ ((n + 1) - 1) * p < N
    <3>1. l = Smaller(p, Len(s))
          BY <1>3
    <3> QED
        BY <1>7, <3>1, PageEnd
  <2>2. Len(page) < p => a + l = N
        BY <1>1, <1>5, <2>1 DEF Smaller
  <2>3. Smaller(p, Len(page)) = l /\ l \in 1..Len(page) /\ page[l] = L[a + l]
        BY <1>1, <1>3, <1>5, <2>1 DEF Smaller
  <2>4. PICK e \in 0..N : e = a + l
        BY <2>1
  <2> QED
      BY <1>1, <1>6, <2>1, <2>2, <2>3, <2>4
<1>8. CASE s = <<>>
  <2>1. Len(s) = 0 /\ l = 0 /\ a = b /\ page = <<>>
        BY <1>1, <1>2, <1>3, <1>5, <1>4, <1>8, EmptySeq
  <2>2. a = N
    <3>1. ASSUME NEW k \in Nat, k > 0, b = a + k * p PROVE FALSE
      <4>1. PICK d \in Nat : k = d + 1
            BY <1>1, <3>1
      <4>2. (d + 1) * p = d * p + p /\ d * p \in Nat
            BY <1>1
      <4>3. PICK w \in Nat : w = d * p
            BY <4>2
      <4> QED
          BY <1>1, <2>1, <3>1, <4>1, <4>2, <4>3
    <3> QED
        BY <1>1, <2>1, <3>1 DEF WholePages
  <2>3. Ends(p, N, o, N, n + 1)
    <3>1. Cap(p, N, n) \in 0..N /\ Cap(p, N, n + 1) = Smaller(Cap(p, N, n) + p, N)
          BY <1>1, CapFacts
    <3>2. PICK c \in 0..N : c = Cap(p, N, n) /\ Cap(p, N, n + 1) = Smaller(c + p, N)
          BY <1>1, <3>1
    <3>3. c <= N /\ (o \/ N = c)
          BY <1>1, <2>2, <3>2 DEF Ends
    <3>4. Smaller(c + p, N) <= N /\ (o \/ N = Smaller(c + p, N))
          BY <1>1, <3>3 DEF Smaller
    <3> QED
        BY <1>1, <3>2, <3>4 DEF Ends
  <2>4. Part(L, page, a, N) /\ N \in 0..N
        BY <1>1, <1>6, <2>1, <2>2
  <2> QED
      BY <1>1, <2>1, <2>3, <2>4
<1> QED
    BY <1>7, <1>8

\* Two parts, one after the other, are a part.
LEMMA Joined ==
  ASSUME NEW S, NEW s \in Seq(S), NEW t \in Seq(S), NEW L, NEW a \in Nat, NEW b \in Nat,
         Part(L, s, 0, a), Part(L, t, a, b)
  PROVE  Part(L, s \o t, 0, b)
<1>1. Len(s) = a /\ Len(t) = b - a /\ a <= b
      BY DEF Part
<1>2. Len(s \o t) = b
      BY <1>1
<1>3. PICK w : w = s \o t /\ Len(w) = b
      BY <1>2
<1>4. \A i \in 1..b : w[i] = L[0 + i]
  <2>1. \A i \in 1..b : (s \o t)[i] = L[0 + i] => w[i] = L[0 + i]
        BY <1>3
  <2> SUFFICES ASSUME NEW i \in 1..b PROVE (s \o t)[i] = L[0 + i]
      BY <2>1
  <2>2. CASE i <= a
    <3>1. i \in 1..Len(s) /\ (s \o t)[i] = s[i]
          BY <1>1, <2>2
    <3> QED
        BY <3>1 DEF Part
  <2>3. CASE i > a
    <3>1. i - a \in 1..Len(t) /\ (s \o t)[i] = t[i - a] /\ a + (i - a) = i
          BY <1>1, <2>3
    <3> QED
        BY <3>1 DEF Part
  <2>4. i <= a \/ i > a
        OBVIOUS
  <2> QED
      BY <2>2, <2>3, <2>4, Zenon
<1>5. 0 <= b /\ Len(w) = b - 0
      BY <1>3
<1>6. Part(L, w, 0, b)
      BY <1>4, <1>5, <1>3 DEF Part
<1> QED
    BY <1>6, <1>3

\* A marker of an instance that ends its page may be stored.
LEMMA MarkerStored ==
  ASSUME TypeOK, NEW p, NEW N, NEW L, NEW F, MarkersStill(p, N, L, F), overtaken' = overtaken,
         NEW n, NEW m \in 1..N, Ends(p, N, overtaken, m, n), overtaken \/ (n - 1) * p < N,
         markers' = [markers EXCEPT ![n] = F[L[m]]]
  PROVE  MarkersStill(p, N, L, F)'
<1> SUFFICES ASSUME NEW n1 \in DOMAIN markers', markers'[n1] # <<>>
             PROVE  \E m1 \in 1..N : /\ markers'[n1] = F[L[m1]] /\ Ends(p, N, overtaken', m1, n1)
                                     /\ overtaken' \/ (n1 - 1) * p < N
    BY DEF MarkersStill
<1>1. n1 \in DOMAIN markers
      OBVIOUS
<1>2. CASE n1 = n
      BY <1>1, <1>2
<1>3. CASE n1 # n
  <2>1. markers'[n1] = markers[n1]
        BY <1>1, <1>3
  <2> QED
      BY <1>1, <2>1 DEF MarkersStill
<1> QED
    BY <1>2, <1>3

\* What StillFor says of a single request.
LEMMA RequestHas ==
  ASSUME TypeOK, NEW p, NEW N, NEW L, NEW F, StillFor(p, N, L, F),
         NEW r \in Readers, NEW q, q = req[r]
  PROVE  /\ QueryStill(p, N, L, F, q, overtaken) /\ ReadStill(p, N, L, q, overtaken)
         /\ AheadStill(p, N, L, q, overtaken)
         /\ PastEnd(q) => beyond
         /\ q \in RequestType
BY DEF StillFor, RequestsStill, TypeOK

\* _store_marker for a page further on: the marker ends the page that the counter is
\* on, and what is left begins there (paginator.py:191-206).
LEMMA StoreAheadStill ==
  ASSUME TypeOK, TypeOK', NEW p, NEW N, NEW L, NEW F, Names(p, N, L, F),
         StillFor(p, N, L, F), NEW r \in Readers, StoreAhead(r)
  PROVE  StillFor(p, N, L, F)'
<1>1. PICK q : q = req[r]
      OBVIOUS
<1>2. /\ q \in RequestType /\ ReadStill(p, N, L, q, overtaken) /\ AheadStill(p, N, L, q, overtaken)
      /\ PastEnd(q) => beyond
      BY <1>1, RequestHas
<1>3. q.pc = "ahead" /\ q.next # <<>> /\ q.next \in Seq(Rows) /\ q.counter \in Nat
      BY <1>1, <1>2 DEF StoreAhead, RequestType
<1>4. /\ p \in Nat /\ p > 0 /\ N \in Nat /\ p = PerPage
      /\ \A i \in 1..N : L[i] \in Rows /\ F[L[i]] = FieldOf(L[i])
      BY Named DEF Names
<1>5. q.counter > 0
      BY <1>2, <1>3 DEF AheadStill
<1>6. PICK a, b \in 0..N :
         /\ Part(L, q.next, a, b) /\ Ends(p, N, overtaken, a, q.counter - 1)
         /\ WholePages(p, N, a, b)
      BY <1>2, <1>3 DEF AheadStill
<1>7. PICK n \in Nat, o \in BOOLEAN, s \in Seq(Rows) :
         n + 1 = q.counter /\ n = q.counter - 1 /\ o = overtaken /\ s = q.next
  <2>1. q.counter - 1 \in Nat /\ (q.counter - 1) + 1 = q.counter /\ overtaken \in BOOLEAN
        BY <1>3, <1>5 DEF TypeOK
  <2> QED
      BY <1>3, <2>1
<1>8. s # <<>> /\ FromPage(p, N, o, L, n, s, a, b)
      BY <1>3, <1>4, <1>6, <1>7 DEF FromPage
<1>9. PICK l : l = Smaller(p, Len(s))
      OBVIOUS
<1>10. /\ l \in 1..Len(s) /\ a + l \in 1..N /\ Ends(p, N, o, a + l, n + 1) /\ s[l] = L[a + l]
       /\ o \/ ((n + 1) - 1) * p < N
       BY <1>8, <1>9, PageEnd
<1>11. LastOn(q.next) = F[L[a + l]]
       BY <1>4, <1>7, <1>9, <1>10 DEF LastOn
<1>12. MarkersStill(p, N, L, F)'
  <2>1. markers' = [markers EXCEPT ![q.counter] = F[L[a + l]]] /\ overtaken' = overtaken
        BY <1>1, <1>11 DEF StoreAhead
  <2>2. PICK m \in 1..N : m = a + l
        BY <1>10
  <2>3. Ends(p, N, overtaken, m, q.counter) /\ (overtaken \/ (q.counter - 1) * p < N)
        BY <1>7, <1>10, <2>2
  <2> QED
      BY <2>1, <2>2, <2>3, MarkerStored DEF StillFor
<1>13. PICK z : z = [q EXCEPT !.counter = q.counter + 1, !.next = Rest(q.next, PerPage)]
       OBVIOUS
<1>14. /\ z.pc = q.pc /\ z.number = q.number /\ z.results = q.results
       /\ z.counter = q.counter + 1 /\ z.next = Rest(q.next, PerPage)
       BY <1>2, <1>13 DEF RequestType
<1>15. req' = [req EXCEPT ![r] = z] /\ z \in RequestType
  <2>1. req' = [req EXCEPT ![r] = z]
        BY <1>1, <1>2, <1>13 DEF StoreAhead, RequestType
  <2>2. req'[r] = z /\ req'[r] \in RequestType
        BY <2>1 DEF TypeOK
  <2> QED
      BY <2>1, <2>2
<1>16. AheadStill(p, N, L, z, overtaken)
  <2> SUFFICES ASSUME z.next # <<>> PROVE AheadStill(p, N, L, z, overtaken)
      BY DEF AheadStill
  <2>1. PICK w : w = z.next /\ w # <<>>
        OBVIOUS
  <2>2. PICK x, k \in Nat : x = 0 /\ k = 0 /\ x = k * p
    <3>1. 0 = 0 * p
          BY <1>4
    <3> QED
        BY <3>1
  <2>3. w = Rest(s, x + p) /\ (k = 0 \/ o)
    <3>1. x + p = p
          BY <1>4, <2>2
    <3> QED
        BY <1>4, <1>7, <1>14, <2>1, <2>2, <3>1
  <2>4. \E d : FromPage(p, N, o, L, n + 1, w, d, b)
        BY <1>8, <2>1, <2>3, <2>2, PagesAhead
  <2>5. z.counter - 1 = n + 1 /\ z.counter > 0
        BY <1>3, <1>7, <1>14
  <2> QED
      BY <1>6, <1>7, <2>1, <2>4, <2>5 DEF AheadStill, FromPage
<1>17. ReadStill(p, N, L, z, overtaken) /\ QueryStill(p, N, L, F, z, overtaken)
      BY <1>2, <1>3, <1>14 DEF ReadStill, QueryStill
<1>18. PastEnd(z) => beyond
      BY <1>2, <1>14 DEF PastEnd
<1>19. overtaken' = overtaken /\ beyond' = beyond
      BY DEF StoreAhead
<1>20. RequestsStill(p, N, L, F)'
  <2>1. RequestsStill(p, N, L, F)
        BY DEF StillFor
  <2> QED
      BY <1>15, <1>16, <1>17, <1>18, <1>19, <2>1, RequestsOn
<1> QED
    BY <1>12, <1>20 DEF StoreAhead, StillFor, WalkStill, CountStill

\* What a request has read begins after the page before the one asked for.
LEMMA ReadHas ==
  ASSUME TypeOK, NEW p, NEW N, NEW L, NEW F, Names(p, N, L, F), StillFor(p, N, L, F),
         NEW r \in Readers, NEW q, q = req[r], q.pc \in ReadingPCs
  PROVE  \E n \in Nat, a, b \in 0..N :
            n = q.number - 1 /\ n + 1 = q.number /\ FromPage(p, N, overtaken, L, n, q.results, a, b)
<1>1. q \in RequestType /\ ReadStill(p, N, L, q, overtaken)
      BY RequestHas
<1>2. PICK a, b \in 0..N : /\ Part(L, q.results, a, b) /\ Ends(p, N, overtaken, a, q.number - 1)
                           /\ WholePages(p, N, a, b)
      BY <1>1 DEF ReadStill
<1>3. PICK n \in Nat : n = q.number - 1 /\ n + 1 = q.number
  <2>1. q.number - 1 \in Nat /\ (q.number - 1) + 1 = q.number
        BY <1>1 DEF RequestType
  <2> QED
      BY <2>1
<1>4. p \in Nat /\ p > 0 /\ N \in Nat
      BY Named
<1>5. overtaken \in BOOLEAN /\ q.results \in Seq(Rows)
      BY <1>1 DEF TypeOK, RequestType
<1> QED
    BY <1>2, <1>3, <1>4, <1>5 DEF FromPage

\* If nothing was read, the page begins at the end.
LEMMA NothingRead ==
  ASSUME NEW p, NEW N, NEW o, NEW L, NEW n, NEW s, NEW a, NEW b,
         FromPage(p, N, o, L, n, s, a, b), s = <<>>
  PROVE  a = N
<1>1. /\ p \in Nat /\ p > 0 /\ N \in Nat /\ a \in 0..N /\ b \in 0..N
      /\ Part(L, s, a, b) /\ WholePages(p, N, a, b)
      BY DEF FromPage
<1>2. a = b
      BY <1>1 DEF Part
<1>3. ASSUME NEW k \in Nat, k > 0, b = a + k * p PROVE FALSE
  <2>1. PICK d \in Nat : k = d + 1
        BY <1>3
  <2>2. (d + 1) * p = d * p + p /\ d * p \in Nat
        BY <1>1
  <2>3. PICK w \in Nat : w = d * p
        BY <2>2
  <2> QED
      BY <1>1, <1>2, <1>3, <2>1, <2>2, <2>3
<1> QED
    BY <1>1, <1>2, <1>3 DEF WholePages

\* The end of the lookahead: a walk that ends with an empty page has seen everything
\* (paginator.py:208-211).
LEMMA EndAheadStill ==
  ASSUME TypeOK, TypeOK', WalkerAsks, NEW p, NEW N, NEW L, NEW F, Names(p, N, L, F),
         StillFor(p, N, L, F), NEW r \in Readers, EndAhead(r)
  PROVE  StillFor(p, N, L, F)'
<1>1. PICK q : q = req[r]
      OBVIOUS
<1>2. /\ q \in RequestType /\ ReadStill(p, N, L, q, overtaken) /\ q.pc = "ahead"
      /\ PastEnd(q) => beyond
      BY <1>1, RequestHas DEF EndAhead
<1>3. overtaken' = overtaken /\ beyond' = beyond /\ markers' = markers /\ RequestsStill(p, N, L, F)
      BY DEF EndAhead, StillFor
<1>4. PICK z \in RequestType :
         /\ req' = [req EXCEPT ![r] = z]
         /\ \/ z.pc = "idle" /\ q.results = <<>> /\ walk' = [walk EXCEPT !.over = @ \/ r = Walker]
            \/ /\ z.pc = "count" /\ z.number = q.number /\ z.results = q.results
               /\ walk' = walk
  <2>1. CASE /\ q.results = <<>> /\ req' = [req EXCEPT ![r] = Idle]
             /\ walk' = [walk EXCEPT !.over = @ \/ r = Walker]
    <3>1. Idle \in RequestType /\ Idle.pc = "idle"
          BY DEF Idle, RequestType, Strings
    <3> QED
        BY <2>1, <3>1
  <2>2. CASE req' = [req EXCEPT ![r].pc = "count"] /\ walk' = walk
    <3>1. PICK z : z = [q EXCEPT !.pc = "count"]
          OBVIOUS
    <3>2. z \in RequestType /\ z.pc = "count" /\ z.number = q.number /\ z.results = q.results
          BY <1>2, <3>1 DEF RequestType, ReadingPCs
    <3>3. req' = [req EXCEPT ![r] = z]
          BY <1>1, <1>2, <2>2, <3>1 DEF RequestType
    <3> QED
        BY <2>2, <3>2, <3>3
  <2> QED
      BY <1>1, <2>1, <2>2 DEF EndAhead
<1>5. /\ QueryStill(p, N, L, F, z, overtaken) /\ ReadStill(p, N, L, z, overtaken)
      /\ AheadStill(p, N, L, z, overtaken)
      /\ PastEnd(z) => beyond
      BY <1>2, <1>4 DEF QueryStill, ReadStill, AheadStill, PastEnd, ReadingPCs
<1>6. RequestsStill(p, N, L, F)'
      BY <1>3, <1>4, <1>5, RequestsOn
<1>7. WalkStill(p, N, L)'
  <2>1. WalkStill(p, N, L) /\ table' = table
        BY DEF StillFor, EndAhead
  <2>2. CASE walk' = walk
        BY <1>3, <2>1, <2>2 DEF WalkStill
  <2>3. CASE walk' = [walk EXCEPT !.over = @ \/ r = Walker] /\ q.results = <<>>
    <3>1. /\ walk'.seen = walk.seen /\ walk'.page = walk.page /\ walk'.throughout = walk.throughout
          /\ walk'.over = (walk.over \/ r = Walker)
          BY <2>3 DEF TypeOK
    <3>2. CASE walk'.over = walk.over
          BY <1>3, <2>1, <3>1, <3>2 DEF WalkStill
    <3>3. CASE r = Walker /\ ~overtaken
      <4>1. PICK n \in Nat, a, b \in 0..N :
               /\ n = q.number - 1 /\ n + 1 = q.number
               /\ FromPage(p, N, overtaken, L, n, q.results, a, b)
            BY <1>1, <1>2, ReadHas DEF ReadingPCs
      <4>2. a = N
            BY <2>3, <4>1, NothingRead
      <4>3. a = Cap(p, N, n)
            BY <3>3, <4>1 DEF FromPage, Ends
      <4>4. n = walk.page
            BY <1>1, <1>2, <3>3, <4>1 DEF WalkerAsks, TypeOK
      <4> QED
          BY <1>3, <2>1, <3>1, <4>2, <4>3, <4>4 DEF WalkStill
    <3>4. CASE overtaken
          BY <1>3, <3>4 DEF WalkStill
    <3>5. walk'.over = walk.over \/ r = Walker
          BY <3>1 DEF TypeOK
    <3> QED
        BY <3>2, <3>3, <3>4, <3>5, Zenon
  <2> QED
      BY <1>4, <2>2, <2>3
<1> QED
    BY <1>3, <1>6, <1>7 DEF EndAhead, StillFor, MarkersStill, CountStill

\* A request that only moves on to a later place keeps what it has.
LEMMA MovedStill ==
  ASSUME TypeOK, TypeOK', NEW p, NEW N, NEW L, NEW F, StillFor(p, N, L, F),
         NEW r \in Readers, req[r].pc \in ReadingPCs, NEW pc \in ReadingPCs \ {"ahead"},
         req' = [req EXCEPT ![r].pc = pc], UNCHANGED <<overtaken, beyond>>
  PROVE  RequestsStill(p, N, L, F)'
<1>1. PICK q : q = req[r]
      OBVIOUS
<1>2. /\ q \in RequestType /\ ReadStill(p, N, L, q, overtaken) /\ q.pc \in ReadingPCs
      /\ PastEnd(q) => beyond
      BY <1>1, RequestHas
<1>3. PICK z : z = [q EXCEPT !.pc = pc]
      OBVIOUS
<1>4. z \in RequestType /\ z.pc = pc /\ z.number = q.number /\ z.results = q.results
      BY <1>2, <1>3 DEF RequestType, ReadingPCs
<1>5. req' = [req EXCEPT ![r] = z]
      BY <1>1, <1>2, <1>3 DEF RequestType
<1>6. QueryStill(p, N, L, F, z, overtaken) /\ AheadStill(p, N, L, z, overtaken)
      BY <1>4 DEF QueryStill, AheadStill, ReadingPCs
<1>7. ReadStill(p, N, L, z, overtaken)
      BY <1>2, <1>4 DEF ReadStill
<1>8. PastEnd(z) => beyond
      BY <1>2, <1>4 DEF PastEnd
<1>9. RequestsStill(p, N, L, F) /\ overtaken' = overtaken /\ beyond' = beyond
      BY DEF StillFor
<1>10. /\ QueryStill(p, N, L, F, z, overtaken') /\ ReadStill(p, N, L, z, overtaken')
       /\ AheadStill(p, N, L, z, overtaken')
       BY <1>6, <1>7, <1>9
<1>11. PastEnd(z) => beyond'
       BY <1>8, <1>9
<1>12. (overtaken => overtaken') /\ (beyond => beyond')
       BY <1>9
<1>13. z \in RequestType /\ RequestsStill(p, N, L, F)
       BY <1>4, <1>9
<1> QED
    BY <1>5, <1>10, <1>11, <1>12, <1>13, RequestsOn, Zenon

\* _update_known_count: what has been read ends at most at the end of the table, so
\* the count is not above it, unless the page began after it (paginator.py:31-38).
LEMMA CountsStill ==
  ASSUME TypeOK, TypeOK', NEW p, NEW N, NEW L, NEW F, Names(p, N, L, F),
         StillFor(p, N, L, F), NEW r \in Readers, ReadCount(r) \/ WriteCount(r)
  PROVE  StillFor(p, N, L, F)'
<1>1. RequestsStill(p, N, L, F)'
  <2>1. PICK pc \in ReadingPCs \ {"ahead"} : req' = [req EXCEPT ![r].pc = pc]
        BY DEF ReadCount, WriteCount, ReadingPCs
  <2>2. req[r].pc \in ReadingPCs /\ UNCHANGED <<overtaken, beyond>>
        BY DEF ReadCount, WriteCount, ReadingPCs
  <2> QED
      BY <2>1, <2>2, MovedStill
<1>2. CountStill(N)'
  <2>1. CASE ReadCount(r)
        BY <2>1 DEF ReadCount, StillFor, CountStill
  <2>2. CASE WriteCount(r)
    <3> SUFFICES ASSUME ~beyond PROVE known' <= N
        BY <2>2 DEF WriteCount, CountStill
    <3>1. PICK q : q = req[r] /\ q.pc = "update" /\ known' = KnownCount(q)
          BY <2>2 DEF WriteCount
    <3>2. PICK n \in Nat, a, b \in 0..N :
             /\ n = q.number - 1 /\ n + 1 = q.number
             /\ FromPage(p, N, overtaken, L, n, q.results, a, b)
          BY <3>1, ReadHas DEF ReadingPCs
    <3>3. p = PerPage /\ p \in Nat /\ p > 0 /\ N \in Nat
          BY Named DEF Names
    <3>4. Len(q.results) \in Nat /\ Len(q.results) = b - a /\ a <= b /\ Cap(p, N, n) <= a
          BY <3>2 DEF FromPage, Part, Ends
    <3>5. PICK x \in Nat : x = n * p /\ Cap(p, N, n) = Smaller(x, N) /\ (n = 0 => x = 0)
      <4>1. n * p \in Nat /\ 0 * p = 0
            BY <3>3
      <4> QED
          BY <4>1 DEF Cap
    <3>6. KnownCount(q) = x + Len(q.results)
          BY <3>2, <3>3, <3>5 DEF KnownCount
    <3>7. q.results # <<>> \/ n = 0
      <4>1. ~PastEnd(q) /\ q \in RequestType
            BY <3>1, RequestHas
      <4> QED
          BY <3>1, <3>2, <4>1 DEF PastEnd, ReadingPCs, RequestType
    <3>8. q.results # <<>> => Len(q.results) > 0
          BY <3>2, EmptySeq DEF FromPage
    <3>9. x + Len(q.results) <= N
          BY <3>3, <3>4, <3>5, <3>7, <3>8 DEF Smaller
    <3> QED
        BY <3>1, <3>6, <3>9
  <2> QED
      BY <2>1, <2>2
<1> QED
    BY <1>1, <1>2 DEF ReadCount, WriteCount, StillFor, MarkersStill, WalkStill

\* The page's own marker is stored and the page returned (paginator.py:213-228).
LEMMA ReturnStill ==
  ASSUME TypeOK, TypeOK', WalkerAsks, NEW p, NEW N, NEW L, NEW F, Names(p, N, L, F),
         StillFor(p, N, L, F), NEW r \in Readers, Return(r)
  PROVE  StillFor(p, N, L, F)'
<1>1. PICK q : q = req[r] /\ q.pc = "own"
      BY DEF Return
<1>2. PICK page : page = Slice(q.results, 0, p) /\ p = PerPage
      BY DEF Names
<1>3. PICK n \in Nat, a, b \in 0..N :
         /\ n = q.number - 1 /\ n + 1 = q.number
         /\ FromPage(p, N, overtaken, L, n, q.results, a, b)
      BY <1>1, ReadHas DEF ReadingPCs
<1>4. PICK e \in 0..N :
         /\ Part(L, page, a, e) /\ Ends(p, N, overtaken, e, n + 1) /\ (Len(page) < p => e = N)
         /\ page # <<>> => /\ e \in 1..N /\ (overtaken \/ ((n + 1) - 1) * p < N)
                           /\ Smaller(p, Len(page)) \in 1..Len(page)
                           /\ page[Smaller(p, Len(page))] = L[e]
      BY <1>2, <1>3, PageOf
<1>5. /\ markers' = IF page = <<>> THEN markers ELSE [markers EXCEPT ![q.number] = LastOn(page)]
      /\ req' = [req EXCEPT ![r] = Idle]
      /\ walk' = IF r # Walker THEN walk
                 ELSE [walk EXCEPT !.page = q.number, !.seen = @ \o page,
                                   !.over = Len(page) < p]
      /\ UNCHANGED <<table, known, overtaken, beyond>>
      BY <1>1, <1>2 DEF Return
<1>6. MarkersStill(p, N, L, F)'
  <2>1. CASE page = <<>>
        BY <1>5, <2>1 DEF StillFor, MarkersStill
  <2>2. CASE page # <<>>
    <3>1. e \in 1..N /\ LastOn(page) = F[L[e]]
          BY <1>2, <1>4, <2>2, Named DEF LastOn
    <3>2. /\ Ends(p, N, overtaken, e, q.number) /\ (overtaken \/ (q.number - 1) * p < N)
          /\ markers' = [markers EXCEPT ![q.number] = F[L[e]]]
          /\ MarkersStill(p, N, L, F) /\ overtaken' = overtaken
          BY <1>3, <1>4, <1>5, <2>2, <3>1 DEF StillFor
    <3> QED
        BY <3>1, <3>2, MarkerStored
  <2> QED
      BY <2>1, <2>2
<1>7. RequestsStill(p, N, L, F)'
  <2>1. Idle \in RequestType /\ Idle.pc = "idle"
        BY DEF Idle, RequestType, Strings
  <2>2. PICK z : z = Idle
        OBVIOUS
  <2>3. /\ QueryStill(p, N, L, F, z, overtaken') /\ ReadStill(p, N, L, z, overtaken')
        /\ AheadStill(p, N, L, z, overtaken') /\ ~PastEnd(z)
        BY <2>1, <2>2 DEF QueryStill, ReadStill, AheadStill, PastEnd, ReadingPCs
  <2>4. RequestsStill(p, N, L, F) /\ overtaken' = overtaken /\ beyond' = beyond
        BY <1>5 DEF StillFor
  <2>5. z \in RequestType /\ req' = [req EXCEPT ![r] = z]
        BY <1>5, <2>1, <2>2
  <2> QED
      BY <2>3, <2>4, <2>5, RequestsOn
<1>8. WalkStill(p, N, L)'
  <2>1. WalkStill(p, N, L)
        BY DEF StillFor
  <2>2. CASE r # Walker
        BY <1>5, <2>1, <2>2 DEF WalkStill
  <2>3. CASE r = Walker
    <3> SUFFICES ASSUME ~overtaken PROVE WalkStill(p, N, L)'
        BY <1>5 DEF WalkStill
    <3>1. /\ walk'.page = n + 1 /\ walk'.seen = walk.seen \o page
          /\ walk'.over = (Len(page) < p) /\ walk'.throughout = walk.throughout
          BY <1>3, <1>5, <2>3 DEF TypeOK
    <3>2. n = walk.page
          BY <1>1, <1>3, <2>3 DEF WalkerAsks, TypeOK
    <3>3. /\ Part(L, walk.seen, 0, Cap(p, N, n)) /\ walk.throughout = table
          /\ Cap(p, N, n) = a /\ Cap(p, N, n + 1) = e
          BY <1>3, <1>4, <2>1, <3>2 DEF WalkStill, FromPage, Ends
    <3>4. /\ walk.seen \in Seq(Rows) /\ page \in Seq(Rows) /\ a \in Nat /\ e \in Nat
      <4>1. q.results \in Seq(Rows) /\ p \in Nat /\ N \in Nat
            BY <1>3 DEF FromPage
      <4>2. page \in Seq(Rows)
            BY <1>2, <4>1, Slices
      <4> QED
          BY <4>1, <4>2 DEF TypeOK
    <3>5. Part(L, walk.seen \o page, 0, e)
          BY <1>4, <3>3, <3>4, Joined
    <3> QED
        BY <1>4, <1>5, <3>1, <3>3, <3>5 DEF WalkStill
  <2> QED
      BY <2>2, <2>3
<1> QED
    BY <1>5, <1>6, <1>7, <1>8 DEF StillFor, CountStill
-----------------------------------------------------------------------------
\* StillInv and WalkerAsks hold at first.
LEMMA InitStill == Init => StillInv /\ WalkerAsks
<1> SUFFICES ASSUME Init PROVE StillInv /\ WalkerAsks
    OBVIOUS
<1>1. TypeOK
      BY InitType
<1>2. ASSUME NEW p, NEW N, NEW L, NEW F, Names(p, N, L, F) PROVE StillFor(p, N, L, F)
  <2>1. p \in Nat /\ p > 0 /\ N \in Nat
        BY <1>1, <1>2, Named
  <2>2. Cap(p, N, 0) = 0
        BY <2>1, CapFacts
  <2>3. MarkersStill(p, N, L, F)
        BY DEF Init, MarkersStill
  <2>4. \A r \in Readers : req[r] = Idle
        BY DEF Init
  <2>5. Idle.pc = "idle"
        BY DEF Idle
  <2>6. RequestsStill(p, N, L, F)
        BY <2>4, <2>5 DEF RequestsStill, QueryStill, ReadStill, AheadStill, PastEnd, ReadingPCs
  <2>7. WalkStill(p, N, L)
    <3>1. walk.seen = <<>> /\ walk.page = 0 /\ walk.throughout = table /\ walk.over = FALSE
          BY DEF Init
    <3>2. Part(L, walk.seen, 0, 0)
          BY <3>1 DEF Part
    <3> QED
        BY <2>2, <3>1, <3>2 DEF WalkStill
  <2>8. CountStill(N)
        BY <2>1 DEF Init, CountStill
  <2> QED
      BY <2>3, <2>6, <2>7, <2>8 DEF StillFor
<1>3. WalkerAsks
      BY DEF Init, Idle, WalkerAsks, Readers
<1> QED
    BY <1>2, <1>3 DEF StillInv

\* Every step keeps StillInv; a change of the table makes it say nothing.
LEMMA StillStep ==
  ASSUME TypeOK, TypeOK', Asked, WalkerAsks, StillInv, [Next]_vars PROVE StillInv'
<1> SUFFICES ASSUME NEW p, NEW N, NEW L, NEW F, Names(p, N, L, F)', changes' = 0
             PROVE  StillFor(p, N, L, F)'
    BY DEF StillInv
<1>1. CASE \E row \in Rows : Save(row) \/ Delete(row)
      BY <1>1 DEF Save, Delete, Becomes, TypeOK
<1>2. CASE ~\E row \in Rows : Save(row) \/ Delete(row)
  <2>1. setup' = setup /\ table' = table /\ changes' = changes
        BY <1>2 DEF Next, vars, WalkOn, Ask, Step, Query, StoreAhead, EndAhead, ReadCount,
                    WriteCount, Return, Expire
  <2>2. Names(p, N, L, F)
        BY <2>1 DEF Names, PerPage, Sorted, Before, After, FieldOf
  <2>3. StillFor(p, N, L, F)
        BY <2>1, <2>2 DEF StillInv
  <2>4. CASE WalkOn
    <3>1. walk.page + 1 \in 1..MaxPage /\ Walker \in Readers
          BY <2>4, PageAssumption DEF WalkOn, TypeOK, Readers
    <3> QED
        BY <2>2, <2>3, <2>4, <3>1, AskStill DEF WalkOn
  <2>5. CASE \E r \in Others, n \in 1..MaxPage : Ask(r, n)
        BY <2>2, <2>3, <2>5, AskStill DEF Readers
  <2>6. ASSUME NEW r \in Readers, Step(r) PROVE StillFor(p, N, L, F)'
    <3>1. CASE Query(r)
          BY <2>2, <2>3, <3>1, QueryStep
    <3>2. CASE StoreAhead(r)
          BY <2>2, <2>3, <3>2, StoreAheadStill
    <3>3. CASE EndAhead(r)
          BY <2>2, <2>3, <3>3, EndAheadStill
    <3>4. CASE ReadCount(r) \/ WriteCount(r)
          BY <2>2, <2>3, <3>4, CountsStill
    <3>5. CASE Return(r)
          BY <2>2, <2>3, <3>5, ReturnStill
    <3> QED
        BY <2>6, <3>1, <3>2, <3>3, <3>4, <3>5 DEF Step
  <2>7. ASSUME NEW n \in DOMAIN markers, Expire(n) PROVE StillFor(p, N, L, F)'
    <3>1. MarkersStill(p, N, L, F)'
      <4>1. MarkersStill(p, N, L, F) /\ overtaken' = overtaken
            BY <2>3, <2>7 DEF StillFor, Expire
      <4>2. \A i \in DOMAIN markers' :
               i \in DOMAIN markers /\ (markers'[i] # <<>> => markers'[i] = markers[i])
            BY <2>7 DEF Expire
      <4> QED
          BY <4>1, <4>2 DEF MarkersStill
    <3> QED
        BY <2>3, <2>7, <3>1 DEF Expire, StillFor, RequestsStill, WalkStill, CountStill
  <2>8. CASE UNCHANGED vars
        BY <2>3, <2>8 DEF vars, StillFor, MarkersStill, RequestsStill, WalkStill, CountStill
  <2> QED
      BY <1>2, <2>4, <2>5, <2>6, <2>7, <2>8 DEF Next
<1> QED
    BY <1>1, <1>2

\* Every step keeps WalkerAsks.
LEMMA WalkerAsksStep ==
  ASSUME TypeOK, WalkerAsks, [Next]_vars PROVE WalkerAsks'
<1>1. Walker \in Readers /\ req \in [Readers -> RequestType] /\ walk.page \in Nat
      BY DEF Readers, TypeOK
<1>2. CASE WalkOn
      BY <1>1, <1>2 DEF WalkOn, Ask, WalkerAsks, Idle
<1>3. ASSUME NEW r \in Others, NEW n \in 1..MaxPage, Ask(r, n) PROVE WalkerAsks'
  <2>1. r # Walker
        BY PageAssumption DEF Walker
  <2> QED
      BY <1>1, <1>3, <2>1 DEF Ask, WalkerAsks
<1>4. ASSUME NEW r \in Readers, Step(r) PROVE WalkerAsks'
  <2>1. CASE r # Walker
    <3>1. req'[Walker] = req[Walker]
          BY <1>1, <1>4, <2>1 DEF Step, Query, StoreAhead, EndAhead, ReadCount, WriteCount, Return
    <3>2. walk' = walk \/ walk' = [walk EXCEPT !.over = @ \/ r = Walker]
          BY <1>4, <2>1 DEF Step, Query, StoreAhead, EndAhead, ReadCount, WriteCount, Return
    <3>3. walk'.page = walk.page /\ (walk'.over => walk.over)
          BY <2>1, <3>2 DEF TypeOK
    <3> QED
        BY <3>1, <3>3 DEF WalkerAsks
  <2>2. CASE r = Walker
    <3>1. req[Walker] \in RequestType
          BY <1>1
    <3>2. Idle.pc = "idle"
          BY DEF Idle
    <3>3. CASE req'[Walker].pc = "idle"
          BY <3>3 DEF WalkerAsks
    <3>4. CASE req'[Walker].pc # "idle"
      <4>1. ~Return(Walker)
            BY <1>1, <3>2, <3>4 DEF Return
      <4>2. /\ walk' = walk /\ req[Walker].pc # "idle"
            /\ req'[Walker].number = req[Walker].number
        <5>1. CASE Query(Walker)
              BY <1>1, <3>1, <5>1 DEF Query, RequestType
        <5>2. CASE StoreAhead(Walker)
              BY <1>1, <3>1, <5>2 DEF StoreAhead, RequestType
        <5>3. CASE EndAhead(Walker)
              BY <1>1, <3>1, <3>2, <3>4, <5>3 DEF EndAhead, RequestType
        <5>4. CASE ReadCount(Walker)
              BY <1>1, <3>1, <5>4 DEF ReadCount, RequestType
        <5>5. CASE WriteCount(Walker)
              BY <1>1, <3>1, <5>5 DEF WriteCount, RequestType
        <5> QED
            BY <1>4, <2>2, <4>1, <5>1, <5>2, <5>3, <5>4, <5>5 DEF Step
      <4> QED
          BY <4>2 DEF WalkerAsks
    <3> QED
        BY <3>3, <3>4
  <2> QED
      BY <2>1, <2>2
<1>5. ASSUME NEW row \in Rows, Save(row) \/ Delete(row) PROVE WalkerAsks'
  <2>1. walk'.page = walk.page /\ walk'.over = walk.over /\ req' = req
        BY <1>5 DEF Save, Delete, Becomes, TypeOK
  <2> QED
      BY <2>1 DEF WalkerAsks
<1>6. CASE \E n \in DOMAIN markers : Expire(n)
      BY <1>6 DEF Expire, WalkerAsks
<1>7. CASE UNCHANGED vars
      BY <1>7 DEF vars, WalkerAsks
<1> QED
    BY <1>2, <1>3, <1>4, <1>5, <1>6, <1>7 DEF Next

\* StillInv is what MarkersEndTheirPage needs: the m-th instance that a marker
\* names is the last of its page.
LEMMA StillMarkers == ASSUME TypeOK, StillInv PROVE MarkersEndTheirPage
<1> SUFFICES ASSUME changes = 0, ~overtaken, NEW n \in DOMAIN markers, markers[n] # <<>>
             PROVE  /\ (n - 1) * PerPage < Cardinality(table)
                    /\ markers[n] = LastOn(Rest(Sorted(table), (n - 1) * PerPage))
    BY DEF MarkersEndTheirPage
<1>1. PICK p, N, L, F : Names(p, N, L, F)
      BY DEF Names
<1>2. /\ p \in Nat /\ p > 0 /\ N \in Nat /\ L \in [1..N -> Rows]
      /\ \A i \in 1..N : L[i] \in Rows /\ F[L[i]] = FieldOf(L[i])
      BY <1>1, Named
<1>3. n \in Nat /\ n > 0
      BY PageAssumption DEF TypeOK
<1>4. PICK m \in 1..N : markers[n] = F[L[m]] /\ m = Cap(p, N, n) /\ (n - 1) * p < N
      BY <1>1 DEF StillInv, StillFor, MarkersStill, Ends
<1>5. PICK x \in Nat : x = (n - 1) * p /\ n * p = x + p
  <2>1. PICK d \in Nat : n = d + 1 /\ d = n - 1
    <3>1. n - 1 \in Nat /\ n = (n - 1) + 1
          BY <1>3
    <3> QED
        BY <3>1
  <2>2. (d + 1) * p = d * p + p /\ d * p \in Nat
        BY <1>2
  <2> QED
      BY <2>1, <2>2
<1>6. m = Smaller(x + p, N) /\ x < N
      BY <1>4, <1>5 DEF Cap
<1>7. PICK s \in Seq(Rows) : s = L /\ Len(s) = N
      BY <1>2
<1>8. PICK rest : rest = Slice(s, x, Len(s))
      OBVIOUS
<1>9. Len(rest) = N - x /\ \A i \in 1..Len(rest) : rest[i] = s[x + i]
  <2>1. Smaller(N, N) = N
        BY DEF Smaller
  <2>2. Len(rest) = IF x < Smaller(N, Len(s)) THEN Smaller(N, Len(s)) - x ELSE 0
        BY <1>2, <1>7, <1>8, Slices
  <2>3. \A i \in 1..Len(rest) : rest[i] = s[x + i]
        BY <1>2, <1>7, <1>8, Slices
  <2> QED
      BY <1>6, <1>7, <2>1, <2>2, <2>3
<1>10. PICK l : l = Smaller(p, Len(rest)) /\ l \in 1..Len(rest) /\ x + l = m
       BY <1>2, <1>6, <1>9 DEF Smaller
<1>11. LastOn(rest) = FieldOf(L[m])
       BY <1>1, <1>7, <1>9, <1>10 DEF LastOn, Names
<1>12. rest = Rest(Sorted(table), (n - 1) * PerPage)
       BY <1>1, <1>5, <1>7, <1>8 DEF Rest, Names
<1> QED
    BY <1>1, <1>2, <1>4, <1>11, <1>12 DEF Names

\* StillInv is what CountWithinTable needs.
LEMMA StillCount == ASSUME TypeOK, StillInv PROVE CountWithinTable
<1>1. PICK p, N, L, F : Names(p, N, L, F)
      BY DEF Names
<1> QED
    BY <1>1 DEF StillInv, StillFor, CountStill, CountWithinTable, Names
-----------------------------------------------------------------------------
\* As long as the walker is alone and no marker has expired, with p instances on
\* a page, ordered by R, and the fields F: what it has seen is in order, and the
\* marker of its page is the last of it,
AscendingIn(R, s) == \A i, j \in DOMAIN s : i < j => <<s[i], s[j]>> \in R
AfterAll(R, row, s) == \A i \in DOMAIN s : <<s[i], row>> \in R
In(row, s) == \E i \in DOMAIN s : s[i] = row
LastOf(s) == s[Len(s)]
OneState(T, s) == \A row \in T : \A i \in DOMAIN s : s[i].pk = row.pk => s[i] = row
SeenInOrder(R, F) ==
  /\ AscendingIn(R, walk.seen) /\ walk.throughout \subseteq table
  /\ OneState(walk.throughout, walk.seen)
  /\ walk.page = 0 => walk.seen = <<>>
  /\ walk.page > 0 /\ ~walk.over =>
       /\ walk.page <= MaxPage /\ walk.seen # <<>>
       /\ markers[walk.page] = F[LastOf(walk.seen)]

\* an instance that has been there throughout has been seen or comes after all
\* that was,
NoneMissed(R) ==
  \A row \in walk.throughout :
    In(row, walk.seen) \/ (~walk.over /\ AfterAll(R, row, walk.seen))

\* and what has been read follows it without a gap; of an instance that has been
\* there throughout it is that state.
Follows(p, R, s, seen, T) ==
  /\ AscendingIn(R, s) /\ OneState(T, s)
  /\ \A i \in DOMAIN s : AfterAll(R, s[i], seen)
  /\ \A row \in T : In(row, seen) \/ In(row, s) \/ (p <= Len(s) /\ AfterAll(R, row, s))
BeginsAfter(q, F) ==
  q.pages = 0 /\ q.marker = IF walk.seen = <<>> THEN <<>> ELSE F[LastOf(walk.seen)]
WalkerReads(p, R, F, q) ==
  /\ q.pc = "query" => BeginsAfter(q, F)
  /\ q.pc \in ReadingPCs => Follows(p, R, q.results, walk.seen, walk.throughout)
  /\ q.pc = "ahead" => q.counter > q.number

Alone == \A r \in Others : req[r].pc = "idle"
OwnFor(p, R, F) ==
  Alone /\ SeenInOrder(R, F) /\ NoneMissed(R) /\ WalkerReads(p, R, F, req[Walker])
OwnNames(p, R, F) == p = PerPage /\ R = FieldOrder /\ F = Fields[setup]
OwnInv ==
  \A p, R, F : OwnNames(p, R, F) /\ expired = 0 /\ ~shared => OwnFor(p, R, F)

\* What stands for the page size, the order and the fields has the right type.
LEMMA OwnNamed ==
  ASSUME TypeOK, NEW p, NEW R, NEW F, OwnNames(p, R, F)
  PROVE  /\ p \in Nat /\ p > 0 /\ Strict(R, Rows)
         /\ \A a \in Rows : FieldOf(a) = F[a] /\ F[a] \in Strings /\ F[a] # <<>>
         /\ \A a, b \in Rows : <<a, b>> \in R <=> After(F[a], b)
<1>1. setup \in Setups
      BY DEF TypeOK
<1>2. p \in Nat /\ p > 0
      BY <1>1, PageAssumption DEF OwnNames, PerPage
<1>3. \A a \in Rows : FieldOf(a) = F[a] /\ F[a] \in Strings /\ F[a] # <<>>
      BY <1>1, FieldType DEF OwnNames, FieldOf
<1>4. Strict(R, Rows) /\ \A a, b \in Rows : <<a, b>> \in R <=> After(FieldOf(a), b)
      BY <1>1, AfterOrders DEF OwnNames
<1> QED
    BY <1>2, <1>3, <1>4

\* An instance after the last of an ascending list is after all of it.
LEMMA AfterLast ==
  ASSUME NEW R, Strict(R, Rows), NEW s \in Seq(Rows), AscendingIn(R, s), s # <<>>,
         NEW row \in Rows, <<LastOf(s), row>> \in R
  PROVE  AfterAll(R, row, s)
<1>1. Len(s) \in Nat /\ Len(s) > 0 /\ DOMAIN s = 1..Len(s) /\ \A i \in 1..Len(s) : s[i] \in Rows
      BY EmptySeq
<1>2. Len(s) \in DOMAIN s /\ s[Len(s)] \in Rows
      BY <1>1
<1>3. ASSUME NEW i \in DOMAIN s PROVE <<s[i], row>> \in R
  <2>1. CASE i = Len(s)
        BY <2>1 DEF LastOf
  <2>2. CASE i # Len(s)
    <3>1. i < Len(s) /\ s[i] \in Rows
          BY <1>1, <2>2
    <3>2. <<s[i], s[Len(s)]>> \in R
          BY <1>2, <3>1 DEF AscendingIn
    <3> QED
        BY <1>2, <3>1, <3>2 DEF LastOf, Strict
  <2> QED
      BY <2>1, <2>2
<1> QED
    BY <1>3 DEF AfterAll

\* A beginning of a list, and two lists joined.
Begins(z, t, s) ==
  /\ z \in Seq(Rows) /\ Len(z) \in Nat /\ DOMAIN z = 1..Len(z)
  /\ Len(z) <= t /\ Len(z) <= Len(s) /\ (Len(z) = t \/ Len(z) = Len(s))
  /\ \A i \in 1..Len(z) : i \in 1..Len(s) /\ z[i] = s[i]
Joins(z, s, t) ==
  /\ z \in Seq(Rows) /\ DOMAIN z = 1..Len(z) /\ Len(z) = Len(s) + Len(t)
  /\ \A i \in 1..Len(s) : i \in 1..Len(z) /\ z[i] = s[i]
  /\ \A i \in 1..Len(t) : Len(s) + i \in 1..Len(z) /\ z[Len(s) + i] = t[i]
  /\ \A i \in 1..Len(z) : \/ i \in 1..Len(s)
                         \/ \E m \in 1..Len(t) : i = Len(s) + m

\* s[:t] begins like s and is not longer than t.
LEMMA SliceBegins == ASSUME NEW s \in Seq(Rows), NEW t \in Nat PROVE Begins(Slice(s, 0, t), t, s)
<1>1. PICK z : z = Slice(s, 0, t)
      OBVIOUS
<1>2. PICK h \in Nat : h = Len(s)
      OBVIOUS
<1>3. PICK l : l = Smaller(t, h)
      OBVIOUS
<1>4. l \in Nat /\ l <= t /\ l <= h /\ (l = t \/ l = h)
      BY <1>3, SmallerType
<1>5. z \in Seq(Rows) /\ Len(z) = IF 0 < Smaller(t, Len(s)) THEN Smaller(t, Len(s)) - 0 ELSE 0
      BY <1>1, Slices
<1>6. \A i \in 1..Len(z) : 0 + i \in 1..Len(s) /\ z[i] = s[0 + i]
      BY <1>1, Slices
<1>7. Len(z) = l
      BY <1>2, <1>3, <1>4, <1>5
<1>8. \A i \in 1..Len(z) : i \in 1..Len(s) /\ z[i] = s[i]
      BY <1>6, <1>7, <1>4
<1>9. DOMAIN z = 1..Len(z)
      BY <1>5
<1>10. Begins(z, t, s)
       BY <1>2, <1>4, <1>5, <1>7, <1>8, <1>9 DEF Begins
<1> QED
    BY <1>1, <1>10

\* Concatenation, said of lengths and elements.
LEMMA ConcatJoins == ASSUME NEW s \in Seq(Rows), NEW t \in Seq(Rows) PROVE Joins(s \o t, s, t)
<1>1. PICK z : z = s \o t
      OBVIOUS
<1>2. PICK k, l \in Nat : k = Len(s) /\ l = Len(t)
      OBVIOUS
<1>3. z \in Seq(Rows) /\ Len(z) = Len(s) + Len(t)
      BY <1>1
<1>4. DOMAIN z = 1..Len(z)
      BY <1>3
<1>5. \A i \in 1..Len(s) : z[i] = s[i]
      BY <1>1
<1>6. ASSUME NEW i \in 1..Len(t) PROVE z[Len(s) + i] = t[i]
  <2>1. PICK m : m = Len(s) + i
        OBVIOUS
  <2>2. m \in 1..(Len(s) + Len(t)) /\ m > Len(s) /\ m - Len(s) = i
        BY <1>2, <2>1
  <2>3. z[m] = t[m - Len(s)]
        BY <1>1, <1>2, <2>2
  <2> QED
      BY <2>1, <2>2, <2>3
<1>7. \A i \in 1..Len(s) : i \in 1..Len(z)
      BY <1>2, <1>3
<1>8. \A i \in 1..Len(t) : Len(s) + i \in 1..Len(z)
      BY <1>2, <1>3
<1>9. ASSUME NEW i \in 1..Len(z), i \notin 1..Len(s) PROVE \E m \in 1..Len(t) : i = Len(s) + m
  <2>1. i - Len(s) \in 1..Len(t) /\ i = Len(s) + (i - Len(s))
        BY <1>2, <1>3, <1>9
  <2> QED
      BY <2>1
<1>10. Joins(z, s, t)
       BY <1>3, <1>4, <1>5, <1>6, <1>7, <1>8, <1>9 DEF Joins
<1> QED
    BY <1>1, <1>10

\* The instances the query is about.
RowsAfter(marker) == IF marker = <<>> THEN table ELSE {row \in table : After(marker, row)}
MarkerOf(F, seen) == IF seen = <<>> THEN <<>> ELSE F[LastOf(seen)]

\* What the walker's query returns follows what it has seen, without a gap: the
\* marker it starts from is the field of the last instance seen (paginator.py:177-191).
LEMMA QueryFollows ==
  ASSUME TypeOK, NEW p, NEW R, NEW F, OwnNames(p, R, F),
         NEW seen \in Seq(Rows), AscendingIn(R, seen),
         NEW marker, marker = MarkerOf(F, seen),
         NEW T \in SUBSET table, \A row \in T : In(row, seen) \/ AfterAll(R, row, seen),
         NEW rows, rows = RowsAfter(marker),
         NEW t \in Nat, t >= p, NEW s, Begins(s, t, Sorted(rows))
  PROVE  Follows(p, R, s, seen, T)
<1>1. /\ setup \in Setups /\ table \in Tables /\ rows \in Tables
      /\ table \in SUBSET Rows /\ rows \in SUBSET Rows /\ rows \subseteq table
  <2>1. setup \in Setups /\ table \in Tables /\ rows \in SUBSET table
        BY DEF TypeOK, RowsAfter
  <2> QED
      BY <2>1, TableParts
<1>2. /\ p \in Nat /\ p > 0 /\ Strict(R, Rows)
      /\ \A a \in Rows : FieldOf(a) = F[a] /\ F[a] # <<>>
      /\ \A a, b \in Rows : <<a, b>> \in R <=> After(F[a], b)
      BY OwnNamed
<1>3. PICK n, L : n = Cardinality(rows) /\ L = Sorted(rows)
      OBVIOUS
<1>4. /\ n \in Nat /\ L \in [1..n -> rows]
      /\ \A i, j \in 1..n : i < j => After(FieldOf(L[i]), L[j])
      /\ \A row \in rows : \E i \in 1..n : L[i] = row
  <2>1. rows \in Tables /\ setup \in Setups
        BY <1>1
  <2>2. /\ Cardinality(rows) \in Nat /\ Sorted(rows) \in [1..Cardinality(rows) -> rows]
        /\ \A i, j \in 1..Cardinality(rows) : i < j => After(FieldOf(Sorted(rows)[i]), Sorted(rows)[j])
        /\ \A row \in rows : \E i \in 1..Cardinality(rows) : Sorted(rows)[i] = row
        BY <2>1, SortedLists
  <2> QED
      BY <1>3, <2>2
<1>5. L \in Seq(Rows) /\ Len(L) = n
      BY <1>1, <1>4
<1>6. PICK l \in Nat : l = Len(s) /\ l <= t /\ l <= n /\ (l = t \/ l = n)
      BY <1>3, <1>5 DEF Begins
<1>7. /\ s \in Seq(Rows) /\ DOMAIN s = 1..l
      /\ \A i \in 1..l : i \in 1..n /\ s[i] = L[i]
      BY <1>3, <1>5, <1>6 DEF Begins
<1>8. \A i, j \in 1..n : i < j => <<L[i], L[j]>> \in R
  <2> SUFFICES ASSUME NEW i \in 1..n, NEW j \in 1..n, i < j PROVE <<L[i], L[j]>> \in R
      OBVIOUS
  <2>1. L[i] \in Rows /\ L[j] \in Rows /\ After(FieldOf(L[i]), L[j])
        BY <1>1, <1>4
  <2> QED
      BY <1>2, <2>1
<1>9. AscendingIn(R, s)
  <2> SUFFICES ASSUME NEW i \in 1..l, NEW j \in 1..l, i < j PROVE <<s[i], s[j]>> \in R
      BY <1>7 DEF AscendingIn
  <2>1. i \in 1..n /\ j \in 1..n /\ s[i] = L[i] /\ s[j] = L[j]
        BY <1>7
  <2> QED
      BY <1>8, <2>1
<1>10. seen # <<>> => LastOf(seen) \in Rows
  <2> SUFFICES ASSUME seen # <<>> PROVE LastOf(seen) \in Rows
      OBVIOUS
  <2>1. Len(seen) \in 1..Len(seen)
        BY EmptySeq
  <2> QED
      BY <2>1, ElementOfSeq DEF LastOf
<1>11. \A row \in table : row \in rows <=> AfterAll(R, row, seen)
  <2> SUFFICES ASSUME NEW row \in table PROVE row \in rows <=> AfterAll(R, row, seen)
      OBVIOUS
  <2>1. CASE seen = <<>>
        BY <2>1 DEF AfterAll, RowsAfter, MarkerOf
  <2>2. CASE seen # <<>>
    <3>1. marker # <<>> /\ (row \in rows <=> <<LastOf(seen), row>> \in R)
          BY <1>1, <1>2, <1>10, <2>2 DEF RowsAfter, MarkerOf
    <3>2. <<LastOf(seen), row>> \in R => AfterAll(R, row, seen)
          BY <1>1, <1>2, <2>2, AfterLast
    <3>3. AfterAll(R, row, seen) => <<LastOf(seen), row>> \in R
      <4>1. Len(seen) \in DOMAIN seen
            BY <2>2, EmptySeq
      <4> QED
          BY <4>1 DEF AfterAll, LastOf
    <3> QED
        BY <3>1, <3>2, <3>3
  <2> QED
      BY <2>1, <2>2
<1>12. \A i \in DOMAIN s : AfterAll(R, s[i], seen)
  <2> SUFFICES ASSUME NEW i \in 1..l PROVE AfterAll(R, s[i], seen)
      BY <1>7
  <2>1. i \in 1..n /\ s[i] = L[i] /\ L[i] \in rows
        BY <1>4, <1>7
  <2> QED
      BY <1>1, <1>11, <2>1
<1>13. ASSUME NEW row \in T, ~In(row, seen), ~In(row, s) PROVE p <= Len(s) /\ AfterAll(R, row, s)
  <2>1. row \in rows
        BY <1>11, <1>13
  <2>2. PICK i \in 1..n : L[i] = row
        BY <1>4, <2>1
  <2>3. i \notin 1..l
        BY <1>7, <1>13, <2>2 DEF In
  <2>4. l = t /\ p <= Len(s) /\ l < i
        BY <1>2, <1>4, <1>6, <2>3
  <2>5. AfterAll(R, row, s)
    <3> SUFFICES ASSUME NEW j \in 1..l PROVE <<s[j], row>> \in R
        BY <1>7 DEF AfterAll
    <3>1. j \in 1..n /\ s[j] = L[j] /\ j < i
          BY <1>4, <1>7, <2>4
    <3> QED
        BY <1>8, <2>2, <3>1
  <2> QED
      BY <2>4, <2>5
<1>14. OneState(T, s)
  <2> SUFFICES ASSUME NEW row \in T, NEW i \in 1..l, s[i].pk = row.pk PROVE s[i] = row
      BY <1>7 DEF OneState
  <2>1. row \in table /\ s[i] \in table
        BY <1>1, <1>4, <1>7
  <2> QED
      BY <1>1, <2>1 DEF Tables
<1> QED
    BY <1>9, <1>12, <1>13, <1>14 DEF Follows

\* The page that it begins with is added to what was seen: all of it is ascending,
\* and an instance not on it comes after all of it, if the page is full.
LEMMA PageFollows ==
  ASSUME NEW p \in Nat, p > 0, NEW R, Strict(R, Rows),
         NEW seen \in Seq(Rows), AscendingIn(R, seen), NEW s \in Seq(Rows),
         NEW T \in SUBSET Rows, OneState(T, seen), Follows(p, R, s, seen, T),
         NEW page, Begins(page, p, s), NEW all, Joins(all, seen, page)
  PROVE  /\ AscendingIn(R, all) /\ OneState(T, all)
         /\ \A row \in T : In(row, all) \/ (p <= Len(page) /\ AfterAll(R, row, all))
         /\ page # <<>> => /\ all # <<>> /\ Smaller(p, Len(page)) \in 1..Len(page)
                           /\ LastOf(all) = page[Smaller(p, Len(page))]
<1>0. page \in Seq(Rows)
      BY DEF Begins
<1>1. PICK k \in Nat : k = Len(seen) /\ DOMAIN seen = 1..k /\ \A i \in 1..k : seen[i] \in Rows
      OBVIOUS
<1>2. PICK h \in Nat : h = Len(s) /\ DOMAIN s = 1..h /\ \A i \in 1..h : s[i] \in Rows
      OBVIOUS
<1>3. PICK l \in Nat : l = Len(page) /\ l <= p /\ l <= h /\ (l = p \/ l = h)
      BY <1>2 DEF Begins
<1>4. DOMAIN page = 1..l /\ \A i \in 1..l : i \in 1..h /\ page[i] = s[i]
      BY <1>2, <1>3 DEF Begins
<1>5. /\ DOMAIN all = 1..(k + l) /\ Len(all) = k + l
      /\ \A i \in 1..k : i \in 1..(k + l) /\ all[i] = seen[i]
      /\ \A i \in 1..l : k + i \in 1..(k + l) /\ all[k + i] = page[i]
      /\ \A i \in 1..(k + l) : i \in 1..k \/ \E m \in 1..l : i = k + m
      BY <1>1, <1>3 DEF Joins
<1>6. /\ \A i, j \in 1..k : i < j => <<seen[i], seen[j]>> \in R
      /\ \A i, j \in 1..h : i < j => <<s[i], s[j]>> \in R
      /\ \A i \in 1..h, j \in 1..k : <<seen[j], s[i]>> \in R
      BY <1>1, <1>2 DEF Follows, AscendingIn, AfterAll
<1>7. AscendingIn(R, all)
  <2> SUFFICES ASSUME NEW i \in 1..(k + l), NEW j \in 1..(k + l), i < j PROVE <<all[i], all[j]>> \in R
      BY <1>5 DEF AscendingIn
  <2>1. CASE i \in 1..k /\ j \in 1..k
    <3>1. all[i] = seen[i] /\ all[j] = seen[j]
          BY <1>5, <2>1
    <3> QED
        BY <1>6, <2>1, <3>1
  <2>2. ASSUME NEW m \in 1..l, j = k + m, i \in 1..k PROVE <<all[i], all[j]>> \in R
    <3>1. all[i] = seen[i] /\ all[j] = s[m] /\ m \in 1..h
          BY <1>4, <1>5, <2>2
    <3> QED
        BY <1>6, <2>2, <3>1
  <2>3. ASSUME NEW m \in 1..l, NEW n \in 1..l, i = k + m, j = k + n PROVE <<all[i], all[j]>> \in R
    <3>1. all[i] = s[m] /\ all[j] = s[n] /\ m \in 1..h /\ n \in 1..h
          BY <1>4, <1>5, <2>3
    <3>2. m < n
          BY <2>3
    <3> QED
        BY <1>6, <3>1, <3>2
  <2>4. ASSUME NEW m \in 1..l, i = k + m, j \in 1..k PROVE FALSE
        BY <2>4
  <2>5. i \in 1..k \/ \E m \in 1..l : i = k + m
        BY <1>5
  <2>6. j \in 1..k \/ \E m \in 1..l : j = k + m
        BY <1>5
  <2> QED
      BY <2>1, <2>2, <2>3, <2>4, <2>5, <2>6
<1>8. ASSUME NEW row \in T, ~In(row, all) PROVE p <= Len(page) /\ AfterAll(R, row, all)
  <2>1. ~In(row, seen)
        BY <1>1, <1>5, <1>8 DEF In
  <2>2. \A i \in 1..l : s[i] # row
        BY <1>4, <1>5, <1>8 DEF In
  <2>3. l = p /\ (\A i \in 1..l : <<s[i], row>> \in R)
    <3>1. CASE In(row, s)
      <4>1. PICK i \in 1..h : s[i] = row
            BY <1>2, <3>1 DEF In
      <4>2. i \notin 1..l
            BY <2>2, <4>1
      <4>3. i > l /\ l = p
            BY <1>3, <4>1, <4>2
      <4>4. ASSUME NEW m \in 1..l PROVE <<s[m], row>> \in R
        <5>1. m \in 1..h /\ m < i
              BY <1>4, <4>3
        <5> QED
            BY <1>6, <4>1, <5>1
      <4> QED
          BY <4>3, <4>4
    <3>2. CASE ~In(row, s)
      <4>1. p <= h /\ \A i \in 1..h : <<s[i], row>> \in R
            BY <1>2, <2>1, <3>2 DEF Follows, AfterAll
      <4>2. l = p
            BY <1>3, <4>1
      <4> QED
          BY <1>4, <4>1, <4>2
    <3> QED
        BY <3>1, <3>2
  <2>4. ASSUME NEW i \in 1..k PROVE <<seen[i], row>> \in R
    <3>1. 1 \in 1..l /\ 1 \in 1..h
          BY <1>3, <2>3
    <3>2. s[1] \in Rows /\ <<s[1], row>> \in R /\ row \in Rows
          BY <1>2, <2>3, <3>1
    <3>3. seen[i] \in Rows /\ <<seen[i], s[1]>> \in R
          BY <1>1, <1>6, <3>1
    <3> QED
        BY <3>2, <3>3 DEF Strict
  <2>5. ASSUME NEW i \in 1..(k + l) PROVE <<all[i], row>> \in R
    <3>1. CASE i \in 1..k
          BY <1>5, <2>4, <3>1
    <3>2. ASSUME NEW m \in 1..l, i = k + m PROVE <<all[i], row>> \in R
      <4>1. all[i] = s[m]
            BY <1>4, <1>5, <3>2
      <4> QED
          BY <2>3, <4>1
    <3> QED
        BY <1>5, <3>1, <3>2
  <2> QED
      BY <1>3, <1>5, <2>3, <2>5 DEF AfterAll
<1>9. ASSUME page # <<>>
      PROVE  /\ all # <<>> /\ Smaller(p, Len(page)) \in 1..Len(page)
             /\ LastOf(all) = page[Smaller(p, Len(page))]
  <2>2. l > 0
        BY <1>0, <1>3, <1>9, EmptySeq
  <2>3. Smaller(p, Len(page)) = l
        BY <1>3 DEF Smaller
  <2>4. l \in 1..l /\ k + l > 0
        BY <2>2
  <2>5. LastOf(all) = page[l]
        BY <1>5, <2>4 DEF LastOf
  <2>6. all # <<>>
        BY <1>5, <2>4
  <2> QED
      BY <1>3, <2>3, <2>4, <2>5, <2>6
<1>10. OneState(T, all)
  <2> SUFFICES ASSUME NEW row \in T, NEW i \in 1..(k + l), all[i].pk = row.pk PROVE all[i] = row
      BY <1>5 DEF OneState
  <2>1. CASE i \in 1..k
    <3>1. all[i] = seen[i] /\ i \in DOMAIN seen
          BY <1>1, <1>5, <2>1
    <3> QED
        BY <3>1 DEF OneState
  <2>2. ASSUME NEW m \in 1..l, i = k + m PROVE all[i] = row
    <3>1. all[i] = s[m] /\ m \in DOMAIN s
          BY <1>2, <1>4, <1>5, <2>2
    <3>2. OneState(T, s)
          BY DEF Follows
    <3> QED
        BY <3>1, <3>2 DEF OneState
  <2> QED
      BY <1>5, <2>1, <2>2
<1> QED
    BY <1>7, <1>8, <1>9, <1>10
-----------------------------------------------------------------------------
\* OwnInv holds at first.
LEMMA InitOwn == Init => OwnInv
<1> SUFFICES ASSUME Init, NEW p, NEW R, NEW F, OwnNames(p, R, F) PROVE OwnFor(p, R, F)
    BY DEF OwnInv
<1>1. /\ walk.seen = <<>> /\ walk.page = 0 /\ walk.over = FALSE /\ walk.throughout = table
      /\ Walker \in Readers /\ Others \subseteq Readers
      BY DEF Init, Readers
<1>2. \A r \in Readers : req[r].pc = "idle"
      BY DEF Init, Idle
<1>3. SeenInOrder(R, F)
      BY <1>1 DEF SeenInOrder, AscendingIn, OneState
<1>4. NoneMissed(R)
      BY <1>1 DEF NoneMissed, AfterAll
<1>5. WalkerReads(p, R, F, req[Walker])
      BY <1>1, <1>2 DEF WalkerReads, ReadingPCs
<1> QED
    BY <1>1, <1>2, <1>3, <1>4, <1>5 DEF OwnFor, Alone

\* The walker goes on to the next page: it finds the marker of the one before.
LEMMA WalkOnOwn ==
  ASSUME TypeOK, TypeOK', NEW p, NEW R, NEW F, OwnNames(p, R, F), OwnFor(p, R, F), WalkOn
  PROVE  OwnFor(p, R, F)'
<1>1. PICK number \in 1..MaxPage : number = walk.page + 1
  <2>1. walk.page + 1 \in 1..MaxPage
        BY PageAssumption DEF WalkOn, TypeOK
  <2> QED
      BY <2>1
<1>2. PICK near : near = NearestMarker(number)
      OBVIOUS
<1>3. /\ near.pages \in 0..(number - 1) /\ near.marker \in Strings
      /\ near.marker = <<>> => near.pages = number - 1
      /\ near.marker # <<>> => near.pages < number - 1
                               /\ near.marker = markers[number - 1 - near.pages]
      /\ number > 1 /\ markers[number - 1] # <<>> => near.pages = 0 /\ near.marker # <<>>
      BY <1>2, Nearest
<1>4. near.pages = 0 /\ near.marker = IF walk.seen = <<>> THEN <<>> ELSE F[LastOf(walk.seen)]
  <2>1. walk.page \in Nat /\ MaxPage \in Nat /\ walk.seen \in Seq(Rows) /\ ~walk.over
        BY PageAssumption DEF TypeOK, WalkOn
  <2>2. CASE walk.page = 0
    <3>1. walk.seen = <<>> /\ number = 1
          BY <1>1, <2>2 DEF OwnFor, SeenInOrder
    <3>2. near.pages = 0
          BY <1>3, <3>1
    <3>3. near.marker = <<>>
          BY <1>3, <3>1, <3>2
    <3> QED
        BY <3>1, <3>2, <3>3
  <2>3. CASE walk.page > 0
    <3>1. /\ walk.seen # <<>> /\ markers[walk.page] = F[LastOf(walk.seen)]
          BY <2>1, <2>3 DEF OwnFor, SeenInOrder
    <3>2. LastOf(walk.seen) \in Rows
      <4>1. Len(walk.seen) \in 1..Len(walk.seen)
            BY <2>1, <3>1, EmptySeq
      <4> QED
          BY <2>1, <4>1, ElementOfSeq DEF LastOf
    <3>3. F[LastOf(walk.seen)] # <<>>
          BY <3>2, OwnNamed
    <3>4. number - 1 = walk.page /\ number > 1
          BY <1>1, <2>1, <2>3
    <3>5. near.pages = 0 /\ near.marker # <<>>
          BY <1>3, <3>1, <3>3, <3>4
    <3>6. number - 1 - near.pages = walk.page
          BY <2>1, <3>4, <3>5
    <3> QED
        BY <1>3, <3>1, <3>5, <3>6
  <2> QED
      BY <2>1, <2>2, <2>3
<1>5. PICK z : z = [Idle EXCEPT !.pc = "query", !.number = number,
                      !.marker = near.marker, !.pages = near.pages]
      OBVIOUS
<1>6. z.pc = "query" /\ z.pages = near.pages /\ z.marker = near.marker
      BY <1>5 DEF Idle
<1>7. req' = [req EXCEPT ![Walker] = z] /\ UNCHANGED <<walk, table, markers>>
      BY <1>1, <1>2, <1>5 DEF WalkOn, Ask
<1>8. /\ req'[Walker] = z
      /\ \A r \in Others : req'[r] = req[r]
      BY <1>7, PageAssumption DEF TypeOK, Readers, Walker
<1>9. WalkerReads(p, R, F, req[Walker])'
      BY <1>4, <1>6, <1>7, <1>8 DEF WalkerReads, BeginsAfter, ReadingPCs
<1>10. SeenInOrder(R, F)' /\ NoneMissed(R)'
       BY <1>7 DEF OwnFor, SeenInOrder, NoneMissed
<1> QED
    BY <1>8, <1>9, <1>10 DEF OwnFor, Alone

\* Its query, while others may have changed the table since its last page.
LEMMA QueryOwn ==
  ASSUME TypeOK, TypeOK', WalkerAsks, NEW p, NEW R, NEW F, OwnNames(p, R, F), OwnFor(p, R, F),
         Query(Walker)
  PROVE  WalkerReads(p, R, F, req[Walker])'
<1>1. PICK q \in RequestType : q = req[Walker] /\ q.pc = "query"
      BY DEF TypeOK, Query, Readers
<1>2. PICK rows, bottom, top, results :
         /\ rows = (IF q.marker = <<>> THEN table ELSE {row \in table : After(q.marker, row)})
         /\ bottom = q.pages * PerPage /\ top = bottom + PerPage
         /\ results = Slice(Sorted(rows), bottom, top + PerPage * Readahead)
      OBVIOUS
<1>3. /\ bottom \in Nat /\ top + PerPage * Readahead = bottom + OfPages(Readahead + 1)
      /\ OfPages(Readahead + 1) = PerPage + OfPages(Readahead) /\ OfPages(Readahead) \in Nat
      /\ Sorted(rows) \in Seq(Rows) /\ results \in Seq(Rows)
      BY <1>1, <1>2, QueryRows
<1>4. q.pages = 0 /\ q.marker = MarkerOf(F, walk.seen)
      BY <1>1 DEF OwnFor, WalkerReads, BeginsAfter, MarkerOf
<1>5. p = PerPage /\ p \in Nat
      BY OwnNamed DEF OwnNames
<1>6. bottom = 0
      BY <1>2, <1>4, <1>5
<1>7. PICK t \in Nat : t = top + PerPage * Readahead /\ t >= p
  <2>1. top + PerPage * Readahead = p + OfPages(Readahead)
        BY <1>3, <1>5, <1>6
  <2> QED
      BY <1>3, <1>5, <2>1
<1>8. Begins(results, t, Sorted(rows))
  <2>1. Begins(Slice(Sorted(rows), 0, t), t, Sorted(rows))
        BY <1>3, SliceBegins
  <2> QED
      BY <1>2, <1>6, <1>7, <2>1
<1>9. rows = RowsAfter(q.marker)
      BY <1>2 DEF RowsAfter
<1>10. Follows(p, R, results, walk.seen, walk.throughout)
  <2>1. /\ walk.seen \in Seq(Rows) /\ AscendingIn(R, walk.seen)
        /\ walk.throughout \in SUBSET table
        /\ \A row \in walk.throughout : In(row, walk.seen) \/ AfterAll(R, row, walk.seen)
        BY DEF TypeOK, OwnFor, SeenInOrder, NoneMissed
  <2>2. PICK seen, T, marker : seen = walk.seen /\ T = walk.throughout /\ marker = q.marker
        OBVIOUS
  <2> QED
      BY <1>4, <1>7, <1>8, <1>9, <2>1, <2>2, QueryFollows
<1>11. PICK z : z = [q EXCEPT !.pc = "ahead", !.results = results,
                       !.next = Rest(results, top), !.counter = q.number + 1]
       OBVIOUS
<1>12. z.pc = "ahead" /\ z.number = q.number /\ z.results = results /\ z.counter = q.number + 1
       BY <1>11 DEF RequestType
<1>13. req'[Walker] = z /\ walk' = walk
       BY <1>1, <1>2, <1>11 DEF Query, TypeOK, Readers
<1>14. z.counter > z.number
       BY <1>12 DEF RequestType
<1> QED
    BY <1>10, <1>12, <1>13, <1>14 DEF WalkerReads, ReadingPCs

\* A step of the walker in page(): its lookahead stores later markers only, so that
\* of the page it has returned stays the last instance seen (paginator.py:191-228).
LEMMA StepOwn ==
  ASSUME TypeOK, TypeOK', Asked, WalkerAsks, NEW p, NEW R, NEW F, OwnNames(p, R, F),
         OwnFor(p, R, F), Step(Walker)
  PROVE  SeenInOrder(R, F)' /\ NoneMissed(R)' /\ WalkerReads(p, R, F, req[Walker])'
<1>1. PICK q \in RequestType : q = req[Walker] /\ req \in [Readers -> RequestType] /\ Walker \in Readers
      BY DEF TypeOK, Readers
<1>2. SeenInOrder(R, F) /\ NoneMissed(R) /\ WalkerReads(p, R, F, q)
      BY <1>1 DEF OwnFor
<1>3. Idle.pc = "idle"
      BY DEF Idle
<1>4. CASE Query(Walker)
  <2>1. UNCHANGED <<walk, table, markers>>
        BY <1>4 DEF Query
  <2> QED
      BY <1>2, <1>4, <2>1, QueryOwn DEF SeenInOrder, NoneMissed
<1>5. CASE StoreAhead(Walker)
  <2>1. /\ q.pc = "ahead" /\ q.counter > q.number /\ walk' = walk /\ table' = table
        /\ q.number = walk.page + 1 /\ q.number \in Nat /\ q.counter \in Nat
        /\ Follows(p, R, q.results, walk.seen, walk.throughout)
        BY <1>1, <1>2, <1>5 DEF StoreAhead, WalkerReads, WalkerAsks, RequestType, ReadingPCs
  <2>2. /\ req'[Walker].pc = q.pc /\ req'[Walker].number = q.number
        /\ req'[Walker].results = q.results /\ req'[Walker].counter = q.counter + 1
        BY <1>1, <1>5 DEF StoreAhead, RequestType
  <2>3. WalkerReads(p, R, F, req[Walker])'
        BY <2>1, <2>2 DEF WalkerReads
  <2>4. walk.page # q.counter
        BY <2>1 DEF TypeOK
  <2>5. markers'[walk.page] = markers[walk.page] \/ walk.page \notin DOMAIN markers
        BY <1>1, <1>5, <2>4 DEF StoreAhead, TypeOK
  <2>6. walk.page > 0 /\ walk.page <= MaxPage => walk.page \in DOMAIN markers
        BY PageAssumption DEF TypeOK
  <2>7. SeenInOrder(R, F)'
        BY <1>2, <2>1, <2>5, <2>6 DEF SeenInOrder
  <2>8. NoneMissed(R)'
        BY <1>2, <2>1 DEF NoneMissed
  <2> QED
      BY <2>3, <2>7, <2>8
<1>6. CASE EndAhead(Walker)
  <2>1. q.pc = "ahead" /\ Follows(p, R, q.results, walk.seen, walk.throughout)
        /\ UNCHANGED <<table, markers>>
        BY <1>1, <1>2, <1>6 DEF EndAhead, WalkerReads, ReadingPCs
  <2>2. CASE /\ q.results = <<>> /\ req' = [req EXCEPT ![Walker] = Idle]
             /\ walk' = [walk EXCEPT !.over = @ \/ Walker = Walker]
    <3>1. req'[Walker].pc = "idle"
          BY <1>1, <1>3, <2>2
    <3>2. /\ walk'.seen = walk.seen /\ walk'.page = walk.page
          /\ walk'.throughout = walk.throughout /\ walk'.over = TRUE
          BY <2>2 DEF TypeOK
    <3>3. \A row \in walk.throughout : In(row, walk.seen)
      <4>1. p \in Nat /\ p > 0
            BY OwnNamed
      <4>2. Len(q.results) = 0 /\ DOMAIN q.results = {}
            BY <2>2
      <4> QED
          BY <2>1, <4>1, <4>2 DEF Follows, In
    <3>4. NoneMissed(R)'
          BY <3>2, <3>3 DEF NoneMissed
    <3>5. SeenInOrder(R, F)'
          BY <1>2, <2>1, <3>2 DEF SeenInOrder
    <3> QED
        BY <3>1, <3>4, <3>5 DEF WalkerReads, ReadingPCs
  <2>3. CASE req' = [req EXCEPT ![Walker].pc = "count"] /\ walk' = walk
    <3>1. req'[Walker].pc = "count" /\ req'[Walker].results = q.results
          BY <1>1, <2>3 DEF RequestType
    <3> QED
        BY <1>2, <2>1, <2>3, <3>1 DEF WalkerReads, SeenInOrder, NoneMissed
  <2> QED
      BY <1>1, <1>6, <2>2, <2>3 DEF EndAhead
<1>7. CASE ReadCount(Walker) \/ WriteCount(Walker)
  <2>1. Follows(p, R, q.results, walk.seen, walk.throughout) /\ UNCHANGED <<walk, table, markers>>
        BY <1>1, <1>2, <1>7 DEF ReadCount, WriteCount, WalkerReads, ReadingPCs
  <2>2. req'[Walker].pc \in {"own", "update"} /\ req'[Walker].results = q.results
        BY <1>1, <1>7 DEF ReadCount, WriteCount, RequestType
  <2> QED
      BY <1>2, <2>1, <2>2 DEF WalkerReads, SeenInOrder, NoneMissed
<1>8. CASE Return(Walker)
  <2>1. /\ p = PerPage /\ p \in Nat /\ p > 0 /\ Strict(R, Rows)
        /\ \A a \in Rows : FieldOf(a) = F[a]
        BY OwnNamed DEF OwnNames
  <2>2. PICK page, all, seen, T :
           /\ page = Slice(q.results, 0, p) /\ all = walk.seen \o page
           /\ seen = walk.seen /\ T = walk.throughout
        OBVIOUS
  <2>3. /\ q.pc = "own" /\ q.results \in Seq(Rows) /\ seen \in Seq(Rows) /\ T \in SUBSET Rows
        /\ Follows(p, R, q.results, seen, T) /\ AscendingIn(R, seen) /\ OneState(T, seen)
        /\ q.number \in 1..MaxPage
    <3>1. q.pc = "own" /\ q.pc \in ReadingPCs /\ q.pc # "idle"
          BY <1>1, <1>8 DEF Return, ReadingPCs
    <3>2. Follows(p, R, q.results, seen, T) /\ AscendingIn(R, seen) /\ OneState(T, seen)
          BY <1>2, <2>2, <3>1 DEF WalkerReads, SeenInOrder
    <3>3. q.results \in Seq(Rows) /\ q.number \in Nat \ {0}
          BY DEF RequestType
    <3>4. q.number \in 1..MaxPage
          BY <1>1, <3>1, <3>3, PageAssumption DEF Asked
    <3>5. seen \in Seq(Rows) /\ T \in SUBSET Rows
          BY <2>2 DEF TypeOK
    <3> QED
        BY <3>1, <3>2, <3>3, <3>4, <3>5
  <2>4. Begins(page, p, q.results)
        BY <2>1, <2>2, <2>3, SliceBegins
  <2>5. Joins(all, seen, page)
    <3>1. page \in Seq(Rows)
          BY <2>4 DEF Begins
    <3> QED
        BY <2>2, <2>3, <3>1, ConcatJoins
  <2>6. /\ AscendingIn(R, all) /\ OneState(T, all)
        /\ \A row \in T : In(row, all) \/ (p <= Len(page) /\ AfterAll(R, row, all))
        /\ page # <<>> => /\ all # <<>> /\ Smaller(p, Len(page)) \in 1..Len(page)
                          /\ LastOf(all) = page[Smaller(p, Len(page))]
    <3>1. PICK s : s = q.results
          OBVIOUS
    <3> QED
        BY <2>1, <2>3, <2>4, <2>5, <3>1, PageFollows
  <2>7. /\ req'[Walker].pc = "idle" /\ table' = table
        /\ walk'.page = q.number /\ walk'.seen = all /\ walk'.throughout = T
        /\ walk'.over = (Len(page) < p)
        /\ markers' = IF page = <<>> THEN markers ELSE [markers EXCEPT ![q.number] = LastOn(page)]
        BY <1>1, <1>3, <1>8, <2>1, <2>2 DEF Return, TypeOK
  <2>8. Len(page) \in Nat /\ page \in Seq(Rows)
        BY <2>4 DEF Begins
  <2>9. NoneMissed(R)'
    <3>1. p <= Len(page) => ~walk'.over
      <4>1. p <= Len(page) => ~(Len(page) < p)
            BY <2>1, <2>8
      <4>2. walk'.over = (Len(page) < p)
            BY <2>7
      <4> QED
          BY <4>1, <4>2, Zenon
    <3> QED
        BY <2>6, <2>7, <3>1 DEF NoneMissed
  <2>10. page # <<>> => markers'[q.number] = F[LastOf(all)]
    <3> SUFFICES ASSUME page # <<>> PROVE markers'[q.number] = F[LastOf(all)]
        OBVIOUS
    <3>1. q.number \in DOMAIN markers
          BY <2>3, PageAssumption DEF TypeOK
    <3>2. page[Smaller(p, Len(page))] \in Rows
          BY <2>6, <2>8, ElementOfSeq
    <3>3. LastOn(page) = F[LastOf(all)]
          BY <2>1, <2>6, <3>2 DEF LastOn
    <3> QED
        BY <2>7, <3>1, <3>3
  <2>11. walk'.over \/ page # <<>>
        BY <2>1, <2>7, <2>8
  <2>12. SeenInOrder(R, F)'
    <3>1. walk'.page # 0 /\ walk'.page <= MaxPage
          BY <2>3, <2>7, PageAssumption
    <3>2. walk'.throughout \subseteq table'
          BY <1>2, <2>2, <2>7 DEF SeenInOrder
    <3> QED
        BY <2>6, <2>7, <2>10, <2>11, <3>1, <3>2 DEF SeenInOrder
  <2> QED
      BY <2>7, <2>9, <2>12 DEF WalkerReads, ReadingPCs
<1> QED
    BY <1>4, <1>5, <1>6, <1>7, <1>8 DEF Step

\* Every step keeps OwnInv: a change of the table takes from the instances that have
\* been there throughout, another reader or an expiry ends the claim.
LEMMA OwnStep ==
  ASSUME TypeOK, TypeOK', Asked, WalkerAsks, OwnInv, [Next]_vars PROVE OwnInv'
<1> SUFFICES ASSUME NEW p, NEW R, NEW F, OwnNames(p, R, F)', expired' = 0, ~shared'
             PROVE  OwnFor(p, R, F)'
    BY DEF OwnInv
<1>1. setup' = setup
      BY DEF Next, vars, WalkOn, Ask, Step, Query, StoreAhead, EndAhead, ReadCount,
             WriteCount, Return, Expire, Save, Delete, Becomes
<1>2. OwnNames(p, R, F)
      BY <1>1 DEF OwnNames, PerPage, FieldOrder, After, FieldOf
<1>3. CASE \E n \in DOMAIN markers : Expire(n)
      BY <1>3 DEF Expire, TypeOK
<1>4. ASSUME NEW r \in Others, NEW n \in 1..MaxPage, Ask(r, n) PROVE FALSE
  <2>1. r # Walker
        BY PageAssumption DEF Walker
  <2> QED
      BY <1>4, <2>1 DEF Ask
<1>5. CASE ~\E n \in DOMAIN markers : Expire(n)
  <2>1. expired' = expired /\ ~shared
        BY <1>5 DEF TypeOK, Next, vars, WalkOn, Ask, Step, Query, StoreAhead, EndAhead, ReadCount,
                    WriteCount, Return, Save, Delete, Becomes
  <2>2. OwnFor(p, R, F)
        BY <1>2, <2>1 DEF OwnInv
  <2>3. CASE WalkOn
        BY <1>2, <2>2, <2>3, WalkOnOwn
  <2>4. ASSUME NEW r \in Readers, Step(r) PROVE OwnFor(p, R, F)'
    <3>1. r = Walker
      <4>1. r \in Others => req[r].pc = "idle"
            BY <2>2 DEF OwnFor, Alone
      <4>2. req[r].pc # "idle"
            BY <2>4 DEF Step, Query, StoreAhead, EndAhead, ReadCount, WriteCount, Return
      <4> QED
          BY <4>1, <4>2 DEF Readers
    <3>2. SeenInOrder(R, F)' /\ NoneMissed(R)' /\ WalkerReads(p, R, F, req[Walker])'
          BY <1>2, <2>2, <2>4, <3>1, StepOwn
    <3>3. Alone'
      <4>1. \A x \in Others : x # Walker /\ x \in Readers
            BY PageAssumption DEF Readers, Walker
      <4>2. \A x \in Others : req'[x] = req[x]
            BY <2>4, <3>1, <4>1 DEF Step, Query, StoreAhead, EndAhead, ReadCount, WriteCount, Return, TypeOK
      <4> QED
          BY <2>2, <4>2 DEF OwnFor, Alone
    <3> QED
        BY <3>2, <3>3 DEF OwnFor
  <2>5. ASSUME NEW row \in Rows, Save(row) \/ Delete(row) PROVE OwnFor(p, R, F)'
    <3>0. PICK rows \in Tables : Becomes(rows)
          BY <2>5, ChangeBecomes DEF TypeOK
    <3>1. /\ walk'.seen = walk.seen /\ walk'.page = walk.page /\ walk'.over = walk.over
          /\ walk'.throughout = walk.throughout \cap rows /\ table' = rows
          /\ UNCHANGED <<markers, req>>
          BY <3>0 DEF Becomes, TypeOK
    <3>2. /\ walk'.throughout \subseteq table' /\ walk'.throughout \subseteq walk.throughout
          /\ \A s : OneState(walk.throughout, s) => OneState(walk'.throughout, s)
          BY <3>1 DEF OneState
    <3>3. SeenInOrder(R, F)'
          BY <2>2, <3>1, <3>2 DEF OwnFor, SeenInOrder
    <3>4. NoneMissed(R)'
          BY <2>2, <3>1, <3>2 DEF OwnFor, NoneMissed
    <3>5. PICK q : q = req[Walker] /\ q = req'[Walker] /\ WalkerReads(p, R, F, q)
          BY <2>2, <3>1 DEF OwnFor
    <3>6. q.pc \in ReadingPCs => Follows(p, R, q.results, walk'.seen, walk'.throughout)
          BY <3>1, <3>2, <3>5 DEF WalkerReads, Follows
    <3>7. WalkerReads(p, R, F, req[Walker])'
          BY <3>1, <3>5, <3>6 DEF WalkerReads, BeginsAfter
    <3> QED
        BY <2>2, <3>1, <3>3, <3>4, <3>7 DEF OwnFor, Alone
  <2>6. CASE UNCHANGED vars
        BY <2>2, <2>6 DEF vars, OwnFor, Alone, SeenInOrder, NoneMissed, WalkerReads, BeginsAfter
  <2> QED
      BY <1>4, <1>5, <2>3, <2>4, <2>5, <2>6 DEF Next
<1> QED
    BY <1>3, <1>5

\* Instances in the order of the fields, none missed, is what WalkSeesEverything
\* claims, since the fields are in the requested order.
SeesAll ==
  /\ \A i, j \in DOMAIN walk.seen : i < j =>
       LET a == walk.seen[i]
           b == walk.seen[j]
       IN /\ ~Precedes(b, a)
          /\ a.pk = b.pk => /\ FieldOf(a) # FieldOf(b)
                            /\ a \notin walk.throughout /\ b \notin walk.throughout
  /\ \A row \in walk.throughout :
       \/ \E i \in DOMAIN walk.seen : walk.seen[i] = row
       \/ ~walk.over /\ \A i \in DOMAIN walk.seen : ~Precedes(row, walk.seen[i])
LEMMA InOrderSeen ==
  ASSUME TypeOK, NEW R, NEW F, NEW p, OwnNames(p, R, F),
         AscendingIn(R, walk.seen), OneState(walk.throughout, walk.seen), NoneMissed(R)
  PROVE  SeesAll
<1>1. setup \in Setups /\ walk.seen \in Seq(Rows) /\ walk.throughout \in SUBSET Rows
      BY DEF TypeOK
<1>2. \A i \in DOMAIN walk.seen : walk.seen[i] \in Rows
      BY <1>1
<1>3. Strict(R, Rows)
      BY OwnNamed
<1>4. ASSUME NEW a \in Rows, NEW b \in Rows, Precedes(a, b) PROVE <<a, b>> \in R
  <2>1. Behind(setup.ordering, Fields[setup][a], Fields[setup][b])
        BY <1>1, <1>4, FieldsKeepOrder DEF Precedes
  <2>2. After(FieldOf(a), b)
        BY <2>1 DEF After, FieldOf
  <2> QED
      BY <1>1, <2>2, AfterOrders DEF OwnNames
<1>5. ASSUME NEW a \in Rows, NEW b \in Rows, <<a, b>> \in R
      PROVE  a # b /\ FieldOf(a) # FieldOf(b) /\ ~Precedes(b, a)
  <2>1. a # b /\ ~Precedes(b, a)
        BY <1>3, <1>4, <1>5 DEF Strict
  <2>2. After(FieldOf(a), b) /\ ~After(FieldOf(b), b)
        BY <1>1, <1>5, AfterFacts, AfterOrders DEF OwnNames
  <2> QED
      BY <2>1, <2>2
<1>6. ASSUME NEW i \in DOMAIN walk.seen, NEW j \in DOMAIN walk.seen, i < j
      PROVE  LET a == walk.seen[i]
                 b == walk.seen[j]
             IN /\ ~Precedes(b, a)
                /\ a.pk = b.pk => /\ FieldOf(a) # FieldOf(b)
                                  /\ a \notin walk.throughout /\ b \notin walk.throughout
  <2>1. PICK a \in Rows, b \in Rows : a = walk.seen[i] /\ b = walk.seen[j]
        BY <1>2
  <2>2. <<a, b>> \in R
        BY <1>6, <2>1 DEF AscendingIn
  <2>3. a # b /\ FieldOf(a) # FieldOf(b) /\ ~Precedes(b, a)
        BY <1>5, <2>2
  <2>4. a.pk = b.pk => a \notin walk.throughout /\ b \notin walk.throughout
        BY <2>1, <2>3 DEF OneState
  <2> QED
      BY <2>1, <2>3, <2>4
<1>7. ASSUME NEW row \in walk.throughout
      PROVE  \/ \E i \in DOMAIN walk.seen : walk.seen[i] = row
             \/ ~walk.over /\ \A i \in DOMAIN walk.seen : ~Precedes(row, walk.seen[i])
      BY <1>1, <1>2, <1>5 DEF NoneMissed, In, AfterAll
<1> QED
    BY <1>6, <1>7 DEF SeesAll

\* So the walk is complete with the walker's own markers,
LEMMA OwnSees ==
  ASSUME TypeOK, OwnInv, expired = 0, ~shared PROVE WalkSeesEverything
<1>1. PICK p, R, F : OwnNames(p, R, F)
      BY DEF OwnNames
<1>2. AscendingIn(R, walk.seen) /\ OneState(walk.throughout, walk.seen) /\ NoneMissed(R)
      BY <1>1 DEF OwnInv, OwnFor, SeenInOrder
<1>3. SeesAll
      BY <1>1, <1>2, InOrderSeen
<1> QED
    BY <1>3 DEF WalkSeesEverything, SeesAll

\* and as long as the table does not change.
LEMMA StillSees ==
  ASSUME TypeOK, StillInv, changes = 0 PROVE WalkSeesEverything
<1> SUFFICES ASSUME ~overtaken PROVE WalkSeesEverything
    BY DEF WalkSeesEverything
<1>1. PICK p, N, L, F : Names(p, N, L, F)
      BY DEF Names
<1>2. PICK R : OwnNames(p, R, F)
      BY <1>1 DEF OwnNames, Names
<1>3. PICK c : c = Cap(p, N, walk.page)
      OBVIOUS
<1>4. Part(L, walk.seen, 0, c) /\ walk.throughout = table /\ (walk.over => c = N)
      BY <1>1, <1>3 DEF StillInv, StillFor, WalkStill
<1>5. p \in Nat /\ p > 0 /\ N \in Nat /\ L \in [1..N -> Rows]
      BY <1>1, Named
<1>6. c \in 0..N
      BY <1>3, <1>5, CapFacts DEF TypeOK
<1>7. /\ L \in [1..N -> table] /\ table \in Tables
      /\ \A i, j \in 1..N : i < j => After(FieldOf(L[i]), L[j])
      /\ \A row \in table : \E i \in 1..N : L[i] = row
      BY <1>1, SortedLists DEF Names, TypeOK
<1>8. \A i, j \in 1..N : i < j => <<L[i], L[j]>> \in R
      BY <1>2, <1>5, <1>7, AfterOrders DEF OwnNames, TypeOK
<1>9. walk.seen \in Seq(Rows) /\ Len(walk.seen) = c
      BY <1>4, <1>6 DEF TypeOK, Part
<1>10. DOMAIN walk.seen = 1..c
       BY <1>9
<1>11. \A i \in 1..c : i \in 1..N /\ walk.seen[i] = L[i]
  <2> SUFFICES ASSUME NEW i \in 1..c PROVE i \in 1..N /\ walk.seen[i] = L[i]
      OBVIOUS
  <2>1. i \in 1..Len(walk.seen) /\ 0 + i = i /\ i \in 1..N
        BY <1>5, <1>6, <1>9
  <2>2. walk.seen[i] = L[0 + i]
        BY <1>4, <2>1 DEF Part
  <2> QED
      BY <2>1, <2>2
<1>12. AscendingIn(R, walk.seen)
  <2> SUFFICES ASSUME NEW i \in 1..c, NEW j \in 1..c, i < j
               PROVE  <<walk.seen[i], walk.seen[j]>> \in R
      BY <1>10 DEF AscendingIn
  <2> QED
      BY <1>8, <1>11
<1>13. NoneMissed(R)
  <2> SUFFICES ASSUME NEW row \in table, ~In(row, walk.seen)
               PROVE  ~walk.over /\ AfterAll(R, row, walk.seen)
      BY <1>4 DEF NoneMissed
  <2>1. PICK i \in 1..N : L[i] = row
        BY <1>7
  <2>2. i \notin 1..c
        BY <1>10, <1>11, <2>1 DEF In
  <2>3. c < i
        BY <1>6, <2>2
  <2>4. ~walk.over
        BY <1>4, <1>6, <2>3
  <2>5. AfterAll(R, row, walk.seen)
    <3> SUFFICES ASSUME NEW j \in 1..c PROVE <<walk.seen[j], row>> \in R
        BY <1>10 DEF AfterAll
    <3>1. j \in 1..N /\ j < i /\ walk.seen[j] = L[j]
          BY <1>6, <1>11, <2>3
    <3> QED
        BY <1>8, <2>1, <3>1
  <2> QED
      BY <2>4, <2>5
<1>14. OneState(walk.throughout, walk.seen)
  <2> SUFFICES ASSUME NEW row \in table, NEW i \in 1..c, walk.seen[i].pk = row.pk
               PROVE  walk.seen[i] = row
      BY <1>4, <1>10 DEF OneState
  <2>1. walk.seen[i] \in table
        BY <1>7, <1>11
  <2> QED
      BY <1>7, <2>1 DEF Tables
<1>15. SeesAll
       BY <1>2, <1>12, <1>13, <1>14, InOrderSeen
<1> QED
    BY <1>15 DEF WalkSeesEverything, SeesAll
-----------------------------------------------------------------------------
\* The inductive invariant.
IInv == TypeOK /\ Asked /\ WalkerAsks /\ StillInv /\ OwnInv

\* The inductive invariant: types, the bound on the pages asked for, where every
\* marker, request and count is in a table that has not changed, and what a walker
\* has seen that relies on its own markers (paginator.py:31-228).
THEOREM IInvHolds == Spec => []IInv
<1>1. Init => IInv
      BY InitType, InitStill, InitOwn DEF IInv
<1>2. IInv /\ [Next]_vars => IInv'
  <2> SUFFICES ASSUME IInv, [Next]_vars PROVE IInv'
      OBVIOUS
  <2>1. TypeOK /\ Asked /\ WalkerAsks /\ StillInv /\ OwnInv
        BY DEF IInv
  <2>2. TypeOK' /\ Asked'
        BY <2>1, NextType
  <2>3. WalkerAsks'
        BY <2>1, WalkerAsksStep
  <2>4. StillInv'
        BY <2>1, <2>2, StillStep
  <2>5. OwnInv'
        BY <2>1, <2>2, OwnStep
  <2> QED
      BY <2>2, <2>3, <2>4, <2>5 DEF IInv
<1> QED
    BY <1>1, <1>2, PTL DEF Spec

\* While the table has not changed, the marker of a page is the field of its last
\* instance, whoever stored it, unless a lookahead has started from a skipped page
\* (paginator.py:49-59, 191-206).
THEOREM MarkersTrue == Spec => []MarkersEndTheirPage
<1>1. IInv => MarkersEndTheirPage
      BY StillMarkers DEF IInv
<1> QED
    BY <1>1, IInvHolds, PTL

\* While the table has not changed and nobody has read beyond its end, the count
\* behind num_pages does not exceed it, however readers interleave (paginator.py:31-38, 211).
THEOREM CountBounded == Spec => []CountWithinTable
<1>1. IInv => CountWithinTable
      BY StillCount DEF IInv
<1> QED
    BY <1>1, IInvHolds, PTL

\* A walk through the pages shows the instances in the requested order and misses
\* none that was there all the time as it was, although others are saved, moved and
\* deleted; it shows an instance again only in another place (paginator.py:168-228,
\* decorators.py:10-38).
THEOREM WalkComplete == Spec => []WalkSeesEverything
<1>1. IInv => WalkSeesEverything
  <2> SUFFICES ASSUME IInv PROVE WalkSeesEverything
      OBVIOUS
  <2>1. CASE changes = 0
        BY <2>1, StillSees DEF IInv
  <2>2. CASE expired = 0 /\ ~shared
        BY <2>2, OwnSees DEF IInv
  <2>3. CASE changes # 0 /\ ~(expired = 0 /\ ~shared)
    <3>1. changes > 0 /\ (expired > 0 \/ shared)
          BY <2>3 DEF IInv, TypeOK
    <3> QED
        BY <3>1 DEF WalkSeesEverything
  <2> QED
      BY <2>1, <2>2, <2>3
<1> QED
    BY <1>1, IInvHolds, PTL
=============================================================================
