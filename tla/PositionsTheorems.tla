-------------------------- MODULE PositionsTheorems --------------------------
(***************************************************************************)
(* What AtPositions leaves of a sequence, and the least of a set of        *)
(* numbers, for the proofs about queues.                                   *)
(***************************************************************************)
EXTENDS Positions, FiniteSetTheorems, SequenceTheorems, TLAPS

LEMMA LeastNumber ==
  ASSUME NEW S, S \subseteq Nat, S # {}
  PROVE  \E k \in S : \A j \in S : k <= j
<1>1. PICK k \in S : \A j \in S : <<j, k>> \notin OpToRel(<, Nat)
  BY WFMin, NatLessThanWellFounded
<1>2. ASSUME NEW j \in S PROVE k <= j
  <2>1. ~(j < k)
    BY <1>1, <1>2 DEF OpToRel
  <2> QED
    BY <2>1
<1> QED
  BY <1>2

LEMMA Elements ==
  ASSUME NEW T, NEW s \in Seq(T)
  PROVE  /\ Len(s) \in Nat /\ DOMAIN s = 1..Len(s) /\ \A i \in DOMAIN s : s[i] \in T
         /\ s # << >> => /\ 1 \in DOMAIN s /\ s[1] = Head(s)
                        /\ Head(s) \in T /\ Tail(s) \in Seq(T)
OBVIOUS

\* The elements at some positions: each position is taken once.
Picks(r, s, I, e) ==
  /\ e \in [DOMAIN r -> I] /\ \A k \in DOMAIN r : r[k] = s[e[k]]
  /\ \A k, l \in DOMAIN r : e[k] = e[l] => k = l
  /\ \A i \in I : \E k \in DOMAIN r : e[k] = i

\* s may be any function of numbers.
LEMMA PositionsCounted ==
  ASSUME NEW T, NEW s, NEW I, I \subseteq Nat, IsFiniteSet(I), \A i \in I : s[i] \in T
  PROVE  /\ AtPositions(s, I) \in Seq(T)
         /\ \E e : Picks(AtPositions(s, I), s, I, e)
<1> DEFINE UpTo(i) == {j \in I : j <= i}
           rank == [i \in I |-> Cardinality(UpTo(i))]
           n == Cardinality(I)
           e == [k \in 1..n |-> CHOOSE i \in I : Cardinality({j \in I : j <= i}) = k]
<1>1. I \subseteq Nat /\ IsFiniteSet(I) /\ n \in Nat
  BY FS_CardinalityType
<1>2. ASSUME NEW i \in I PROVE rank[i] \in 1..n /\ IsFiniteSet(UpTo(i))
  <2>1. UpTo(i) \in SUBSET I /\ i \in UpTo(i)
    BY <1>1
  <2>2. IsFiniteSet(UpTo(i)) /\ Cardinality(UpTo(i)) \in Nat /\ Cardinality(UpTo(i)) <= n
        /\ Cardinality(UpTo(i)) # 0
    BY <1>1, <2>1, FS_Subset, FS_CardinalityType, FS_EmptySet
  <2> HIDE DEF UpTo, n
  <2> QED
    BY <1>1, <2>2
<1>3. ASSUME NEW i \in I, NEW j \in I, i < j PROVE rank[i] # rank[j]
  <2>0. i \in Nat /\ j \in Nat /\ \A k \in I : k \in Nat
    BY <1>1
  <2>1. UpTo(i) \in SUBSET UpTo(j) /\ j \in UpTo(j) /\ j \notin UpTo(i)
    <3>1. \A k \in I : k <= i => k <= j
      BY <1>3, <2>0
    <3>2. ~(j <= i) /\ j <= j
      BY <1>3, <2>0
    <3> QED
      BY <3>1, <3>2
  <2>2. IsFiniteSet(UpTo(j))
    BY <1>2
  <2>3. Cardinality(UpTo(i)) # Cardinality(UpTo(j))
    BY <2>1, <2>2, FS_Subset
  <2> QED
    BY <2>3
<1>4. rank \in Injection(I, 1..n)
  <2>1. rank \in [I -> 1..n]
    BY <1>2
  <2>2. \A i, j \in I : rank[i] = rank[j] => i = j
    <3> HIDE DEF rank, n
    <3> TAKE i, j \in I
    <3>1. i \in Nat /\ j \in Nat
      BY <1>1
    <3>2. i < j \/ j < i => rank[i] # rank[j]
      BY <1>3
    <3> QED
      BY <3>1, <3>2
  <2> HIDE DEF rank
  <2> QED
    BY <2>1, <2>2 DEF Injection, IsInjective
<1>5. rank \in Surjection(I, 1..n)
  <2>1. Cardinality(1..n) = n /\ IsFiniteSet(1..n)
    BY <1>1, FS_Interval
  <2> HIDE DEF rank
  <2> QED
    BY <1>4, <2>1, FS_Injection
<1>6. \A k \in 1..n : \E i \in I : rank[i] = k
  <2> HIDE DEF rank
  <2> QED
    BY <1>5 DEF Surjection
<1>7. \A i, j \in I : rank[i] = rank[j] => i = j
  <2> HIDE DEF rank
  <2> QED
    BY <1>4 DEF Injection, IsInjective
<1>8. ASSUME NEW k \in 1..n PROVE e[k] \in I /\ rank[e[k]] = k
  <2>1. \E i \in I : Cardinality({j \in I : j <= i}) = k
    BY <1>6
  <2>2. e[k] \in I /\ Cardinality({j \in I : j <= e[k]}) = k
    BY <2>1
  <2> QED
    BY <2>2
<1>9. AtPositions(s, I) = [k \in 1..n |-> s[e[k]]]
  BY DEF AtPositions
<1>10. e \in [1..n -> I]
  <2>1. \A k \in 1..n : e[k] \in I
    BY <1>8
  <2> QED
    BY <2>1
<1> HIDE DEF e, rank
<1>11. \A k, l \in 1..n : e[k] = e[l] => k = l
  BY <1>8
<1>12. ASSUME NEW i \in I PROVE \E k \in 1..n : e[k] = i
  <2>1. rank[i] \in 1..n
    BY <1>2
  <2>2. e[rank[i]] = i
    BY <1>7, <1>8, <2>1
  <2> QED
    BY <2>1, <2>2
<1> HIDE DEF n
<1>13. \A k \in 1..n : s[e[k]] \in T
  <2>1. \A k \in 1..n : e[k] \in I
    BY <1>10
  <2> QED
    BY <2>1
<1>14. DOMAIN AtPositions(s, I) = 1..n /\ AtPositions(s, I) \in Seq(T)
       /\ \A k \in 1..n : AtPositions(s, I)[k] = s[e[k]]
  BY <1>1, <1>9, <1>13
<1> PICK r : r = AtPositions(s, I)
  OBVIOUS
<1>15. DOMAIN r = 1..n /\ \A k \in 1..n : r[k] = s[e[k]]
  BY <1>14
<1>16. Picks(r, s, I, e)
  BY <1>10, <1>11, <1>12, <1>15 DEF Picks
<1> QED
  BY <1>14, <1>16

LEMMA PositionsTaken ==
  ASSUME NEW T, NEW s \in Seq(T), NEW I, I \subseteq DOMAIN s
  PROVE  /\ AtPositions(s, I) \in Seq(T)
         /\ \E e : Picks(AtPositions(s, I), s, I, e)
<1>1. DOMAIN s = 1..Len(s) /\ Len(s) \in Nat /\ \A i \in DOMAIN s : s[i] \in T
  OBVIOUS
<1>2. IsFiniteSet(1..Len(s)) /\ I \in SUBSET (1..Len(s))
  BY <1>1, FS_Interval
<1>3. I \subseteq Nat /\ IsFiniteSet(I) /\ \A i \in I : s[i] \in T
  BY <1>1, <1>2, FS_Subset
<1> QED
  BY <1>3, PositionsCounted

\* A queue that keeps some entries: the values kept, none twice if none was
\* there twice, and not longer than the positions kept.
NoneTwice(s) == \A i, j \in DOMAIN s : s[i] = s[j] => i = j
KeptOf(r, s, I) ==
  /\ Len(r) = Cardinality(I)
  /\ \A k \in DOMAIN r : \E i \in I : r[k] = s[i]
  /\ \A i \in I : \E k \in DOMAIN r : r[k] = s[i]
  /\ NoneTwice(s) => NoneTwice(r)

LEMMA KeptValues ==
  ASSUME NEW T, NEW s \in Seq(T), NEW I, I \subseteq DOMAIN s
  PROVE  AtPositions(s, I) \in Seq(T) /\ KeptOf(AtPositions(s, I), s, I)
<1> PICK r : r = AtPositions(s, I)
  OBVIOUS
<1>1. PICK e : Picks(r, s, I, e)
  BY PositionsTaken
<1>2. r \in Seq(T)
  BY PositionsTaken
<1>3. DOMAIN r = 1..Cardinality(I)
  BY DEF AtPositions
<1>4. Cardinality(I) \in Nat
  <2>1. Len(s) \in Nat /\ DOMAIN s = 1..Len(s)
    OBVIOUS
  <2>2. IsFiniteSet(DOMAIN s)
    BY <2>1, FS_Interval
  <2> QED
    BY <2>2, FS_Subset, FS_CardinalityType
<1>5. Len(r) = Cardinality(I)
  <2>1. Len(r) \in Nat /\ DOMAIN r = 1..Len(r)
    BY <1>2
  <2> QED
    BY <1>3, <1>4, <2>1
<1>6. \A k \in DOMAIN r : e[k] \in I /\ r[k] = s[e[k]]
  BY <1>1 DEF Picks
<1>7. \A i \in I : \E k \in DOMAIN r : r[k] = s[i]
  BY <1>1, <1>6 DEF Picks
<1>8. ASSUME NoneTwice(s),
             NEW k \in DOMAIN r, NEW l \in DOMAIN r, r[k] = r[l]
      PROVE  k = l
  <2>1. e[k] \in DOMAIN s /\ e[l] \in DOMAIN s /\ s[e[k]] = s[e[l]]
    BY <1>6, <1>8
  <2>2. e[k] = e[l]
    BY <1>8, <2>1 DEF NoneTwice
  <2> QED
    BY <1>1, <2>2 DEF Picks
<1> QED
  BY <1>2, <1>5, <1>6, <1>7, <1>8 DEF KeptOf, NoneTwice
=============================================================================
