-------------------------------- MODULE Ranks --------------------------------
(***************************************************************************)
(* Least natural numbers, and ranks in finite ordered sets, for proofs     *)
(* that would otherwise need an induction.                                 *)
(***************************************************************************)
EXTENDS Integers, FiniteSets, FiniteSetTheorems, WellFoundedInduction, TLAPS

\* A set of natural numbers has a least element.
LEMMA LeastNatural ==
  ASSUME NEW S \in SUBSET Nat, S # {} PROVE \E n \in S : \A m \in S : n <= m
<1>1. PICK R : R = OpToRel(<, Nat)
      OBVIOUS
<1>2. \A m, n \in Nat : <<m, n>> \in R <=> m < n
      BY <1>1 DEF OpToRel
<1>3. IsWellFoundedOn(R, Nat)
      BY <1>1, NatLessThanWellFounded
<1>4. PICK n \in S : \A m \in S : <<m, n>> \notin R
      BY <1>3, WFMin
<1>5. \A m \in S : m \in Nat /\ n \in Nat /\ ~(m < n)
      BY <1>2, <1>4
<1> QED
    BY <1>4, <1>5
-----------------------------------------------------------------------------
\* R orders S strictly and totally; the rank of x is the number of elements before it.
Orders(R, S) ==
  /\ \A x \in S : <<x, x>> \notin R
  /\ \A x, y \in S : x = y \/ <<x, y>> \in R \/ <<y, x>> \in R
  /\ \A x, y, z \in S : <<x, y>> \in R /\ <<y, z>> \in R => <<x, z>> \in R
Rank(R, S, x) == Cardinality({y \in S : <<y, x>> \in R})

LEMMA RankType ==
  ASSUME NEW S, IsFiniteSet(S), NEW R, NEW x PROVE Rank(R, S, x) \in 0..Cardinality(S)
<1>1. {y \in S : <<y, x>> \in R} \in SUBSET S
      OBVIOUS
<1>2. PICK T : T = {y \in S : <<y, x>> \in R}
      OBVIOUS
<1>3. IsFiniteSet(T) /\ Cardinality(T) <= Cardinality(S)
      BY <1>1, <1>2, FS_Subset
<1>4. Cardinality(T) \in Nat /\ Cardinality(S) \in Nat
      BY <1>3, FS_CardinalityType
<1> QED
    BY <1>2, <1>3, <1>4 DEF Rank

LEMMA RankOrder ==
  ASSUME NEW S, IsFiniteSet(S), NEW R, Orders(R, S), NEW x \in S, NEW y \in S, <<x, y>> \in R
  PROVE  Rank(R, S, x) < Rank(R, S, y)
<1>1. PICK T, U : T = {z \in S : <<z, x>> \in R} /\ U = {z \in S : <<z, y>> \in R}
      OBVIOUS
<1>2. T \subseteq U /\ x \in U \ T
      BY <1>1 DEF Orders
<1>3. IsFiniteSet(U)
      BY <1>1, FS_Subset
<1>4. IsFiniteSet(T) /\ Cardinality(T) <= Cardinality(U) /\ Cardinality(T) # Cardinality(U)
      BY <1>2, <1>3, FS_Subset
<1>5. Cardinality(T) \in Nat /\ Cardinality(U) \in Nat
      BY <1>3, <1>4, FS_CardinalityType
<1> QED
    BY <1>1, <1>4, <1>5 DEF Rank

\* An element does not precede itself.
LEMMA RankBelow ==
  ASSUME NEW S, IsFiniteSet(S), NEW R, Orders(R, S), NEW x \in S
  PROVE  Cardinality(S) \in Nat /\ Rank(R, S, x) \in 0..(Cardinality(S) - 1)
<1>1. PICK n : n = Cardinality(S) /\ n \in Nat
      BY FS_CardinalityType
<1>2. PICK T : T = {y \in S : <<y, x>> \in R}
      OBVIOUS
<1>3. T \in SUBSET S /\ x \notin T
      BY <1>2 DEF Orders
<1>4. Cardinality(T) # n
      BY <1>1, <1>3, FS_Subset
<1>5. Rank(R, S, x) = Cardinality(T)
      BY <1>2 DEF Rank
<1> QED
    BY <1>1, <1>4, <1>5, RankType

\* Every rank from 0 on belongs to one element.
LEMMA RankOnto ==
  ASSUME NEW S, IsFiniteSet(S), NEW R, Orders(R, S)
  PROVE  \A i \in 0..(Cardinality(S) - 1) : \E x \in S : Rank(R, S, x) = i
<1>1. PICK n : n = Cardinality(S) /\ n \in Nat
      BY FS_CardinalityType
<1>2. PICK f : f = [x \in S |-> Rank(R, S, x)]
      OBVIOUS
<1>3. \A x \in S : Rank(R, S, x) \in 0..(n - 1)
      BY <1>1, RankBelow
<1>4. f \in Injection(S, 0..(n - 1))
  <2>1. \A x, y \in S : Rank(R, S, x) = Rank(R, S, y) => x = y
    <3> SUFFICES ASSUME NEW x \in S, NEW y \in S, x # y PROVE Rank(R, S, x) # Rank(R, S, y)
        OBVIOUS
    <3>1. Rank(R, S, x) < Rank(R, S, y) \/ Rank(R, S, y) < Rank(R, S, x)
          BY RankOrder DEF Orders
    <3>2. Rank(R, S, x) \in 0..n /\ Rank(R, S, y) \in 0..n
          BY <1>1, RankType
    <3> QED
        BY <1>1, <3>1, <3>2
  <2> QED
      BY <1>2, <1>3, <2>1 DEF Injection, IsInjective
<1>5. IsFiniteSet(0..(n - 1)) /\ Cardinality(0..(n - 1)) = n
  <2>1. 0 \in Int /\ n - 1 \in Int
        BY <1>1
  <2> QED
      BY <1>1, <2>1, FS_Interval
<1>6. f \in Surjection(S, 0..(n - 1))
      BY <1>1, <1>4, <1>5, FS_Injection
<1> QED
    BY <1>1, <1>2, <1>6 DEF Surjection

\* The list of the elements in their order.
LEMMA Ranked ==
  ASSUME NEW S, IsFiniteSet(S), NEW R, Orders(R, S), NEW i \in 1..Cardinality(S)
  PROVE  \E x \in S : Rank(R, S, x) = i - 1
<1>1. Cardinality(S) \in Nat
      BY FS_CardinalityType
<1>2. i - 1 \in 0..(Cardinality(S) - 1)
      BY <1>1
<1> QED
    BY <1>2, RankOnto
=============================================================================
