--------------------------- MODULE Selection_proofs ---------------------------
(***************************************************************************)
(* What a filtering comprehension returns: exactly the elements kept, each *)
(* at its rank, in their old order; and what a recursion over 0 .. N is.   *)
(***************************************************************************)
EXTENDS Selection, FiniteSetTheorems, WellFoundedInduction, TLAPS

\* Positions of a sequence are finitely many, and so are those kept.
LEMMA KeptFinite ==
    ASSUME NEW n \in Nat, NEW kept \in SUBSET (1 .. n)
    PROVE  /\ IsFiniteSet(kept) /\ Cardinality(kept) \in 0 .. n
           /\ \A i : IsFiniteSet({j \in kept : j <= i})
  <1>1. IsFiniteSet(1 .. n) /\ Cardinality(1 .. n) = n
    BY FS_Interval
  <1>2. IsFiniteSet(kept) /\ Cardinality(kept) <= n /\ Cardinality(kept) \in Nat
    BY <1>1, FS_Subset, FS_CardinalityType
  <1>3. ASSUME NEW i PROVE IsFiniteSet({j \in kept : j <= i})
    BY <1>2, FS_Subset
  <1>4. QED
    BY <1>2, <1>3

\* A rank lies between one and the number of kept positions.
LEMMA RankRange ==
    ASSUME NEW n \in Nat, NEW kept \in SUBSET (1 .. n), NEW i \in kept
    PROVE  Rank(kept, i) \in 1 .. Cardinality(kept)
  <1> DEFINE below == {j \in kept : j <= i}
  <1>1. IsFiniteSet(kept) /\ below \in SUBSET kept /\ i \in below
    BY KeptFinite
  <1>2. /\ IsFiniteSet(below) /\ Cardinality(below) <= Cardinality(kept)
        /\ Cardinality(below) \in Nat /\ Cardinality(kept) \in Nat
    BY <1>1, FS_Subset, FS_CardinalityType
  <1>3. Cardinality(below) # 0
    BY <1>1, <1>2, FS_EmptySet
  <1> HIDE DEF below
  <1>4. Cardinality(below) \in 1 .. Cardinality(kept)
    BY <1>2, <1>3
  <1>5. QED
    BY <1>4 DEF Rank, below

\* A later position has a larger rank.
LEMMA RankGrows ==
    ASSUME NEW n \in Nat, NEW kept \in SUBSET (1 .. n),
           NEW i \in kept, NEW j \in kept, i < j
    PROVE  Rank(kept, i) < Rank(kept, j)
  <1> DEFINE low  == {m \in kept : m <= i}
             high == {m \in kept : m <= j}
  <1>1. i \in Nat /\ j \in Nat /\ \A m \in kept : m \in Nat
    OBVIOUS
  <1>2. low \in SUBSET high /\ j \in high /\ j \notin low
    <2>1. \A m \in kept : m <= i => m <= j
      BY <1>1
    <2>2. j <= j /\ ~(j <= i)
      BY <1>1
    <2>3. QED
      BY <2>1, <2>2
  <1>3. IsFiniteSet(high) /\ IsFiniteSet(low)
    BY KeptFinite
  <1> HIDE DEF low, high
  <1>4. /\ Cardinality(low) <= Cardinality(high) /\ Cardinality(low) # Cardinality(high)
        /\ Cardinality(low) \in Nat /\ Cardinality(high) \in Nat
    BY <1>2, <1>3, FS_Subset, FS_CardinalityType
  <1>5. Cardinality(low) < Cardinality(high)
    BY <1>4
  <1>6. QED
    BY <1>5 DEF Rank, low, high

\* Different positions have different ranks.
LEMMA RankInjective ==
    ASSUME NEW n \in Nat, NEW kept \in SUBSET (1 .. n),
           NEW i \in kept, NEW j \in kept, Rank(kept, i) = Rank(kept, j)
    PROVE  i = j
  <1>1. Rank(kept, i) \in Nat /\ Rank(kept, j) \in Nat
    <2>1. Cardinality(kept) \in Nat
      BY KeptFinite
    <2>2. Rank(kept, i) \in 1 .. Cardinality(kept)
      BY RankRange
    <2>3. Rank(kept, j) \in 1 .. Cardinality(kept)
      BY RankRange
    <2>4. QED
      BY <2>1, <2>2, <2>3
  <1>2. ASSUME i < j PROVE FALSE
    <2>1. Rank(kept, i) < Rank(kept, j)
      BY <1>2, RankGrows
    <2>2. QED
      BY <1>1, <2>1
  <1>3. ASSUME j < i PROVE FALSE
    <2>1. Rank(kept, j) < Rank(kept, i)
      BY <1>3, RankGrows
    <2>2. QED
      BY <1>1, <2>1
  <1>4. i \in Nat /\ j \in Nat
    OBVIOUS
  <1>5. QED
    BY <1>2, <1>3, <1>4

\* Every rank is the rank of a kept position: the ranks leave no gap.
LEMMA RankReached ==
    ASSUME NEW n \in Nat, NEW kept \in SUBSET (1 .. n),
           NEW k \in 1 .. Cardinality(kept)
    PROVE  /\ AtRank(kept, k) \in kept
           /\ Rank(kept, AtRank(kept, k)) = k
  <1> DEFINE places == 1 .. Cardinality(kept)
             rank   == [i \in kept |-> Rank(kept, i)]
  <1>1. IsFiniteSet(kept) /\ Cardinality(kept) \in Nat
    BY KeptFinite
  <1>2. IsFiniteSet(places) /\ Cardinality(places) = Cardinality(kept)
    BY <1>1, FS_Interval
  <1>3. rank \in [kept -> places]
    BY RankRange
  <1>4. \A i, j \in kept : rank[i] = rank[j] => i = j
    BY RankInjective
  <1> HIDE DEF rank, places
  <1>5. rank \in Injection(kept, places)
    BY <1>3, <1>4 DEF Injection, IsInjective
  <1>6. rank \in Surjection(kept, places)
    BY <1>2, <1>5, FS_Injection
  <1>7. \E i \in kept : rank[i] = k
    BY <1>6 DEF Surjection, places
  <1>8. \E i \in kept : Rank(kept, i) = k
    BY <1>7 DEF rank
  <1>9. QED
    BY <1>8 DEF AtRank

\* The position that has the rank of i is i.
LEMMA AtItsRank ==
    ASSUME NEW n \in Nat, NEW kept \in SUBSET (1 .. n), NEW i \in kept
    PROVE  AtRank(kept, Rank(kept, i)) = i
  <1>1. Rank(kept, i) \in 1 .. Cardinality(kept)
    BY RankRange
  <1>2. /\ AtRank(kept, Rank(kept, i)) \in kept
        /\ Rank(kept, AtRank(kept, Rank(kept, i))) = Rank(kept, i)
    BY <1>1, RankReached
  <1>3. QED
    BY <1>2, RankInjective

\* A non-empty set of positions has a first one.  A statement about all positions
\* is proved from it by looking at the first position where it would fail.
LEMMA FirstPosition ==
    ASSUME NEW S \in SUBSET Nat, S # {}
    PROVE  \E m \in S : \A n \in S : m <= n
  <1>1. PICK m \in S : \A n \in S : ~(<<n, m>> \in OpToRel(<, Nat))
    BY NatLessThanWellFounded, WFMin
  <1>2. \A n \in S : ~(n < m)
    BY <1>1 DEF OpToRel
  <1>3. \A n \in S : n \in Nat /\ m \in Nat
    OBVIOUS
  <1>4. QED
    BY <1>2, <1>3

\* A comprehension returns a sequence of as many elements as were kept.
LEMMA PickedIsSeq ==
    ASSUME NEW T, NEW s \in Seq(T), NEW kept \in SUBSET (DOMAIN s)
    PROVE  /\ Picked(s, kept) \in Seq(T)
           /\ Len(Picked(s, kept)) = Cardinality(kept)
           /\ Cardinality(kept) \in 0 .. Len(s)
           /\ DOMAIN Picked(s, kept) = 1 .. Cardinality(kept)
  <1>1. Len(s) \in Nat /\ DOMAIN s = 1 .. Len(s) /\ kept \in SUBSET (1 .. Len(s))
    OBVIOUS
  <1>2. Cardinality(kept) \in 0 .. Len(s)
    BY <1>1, KeptFinite
  <1>3. ASSUME NEW k \in 1 .. Cardinality(kept) PROVE s[AtRank(kept, k)] \in T
    <2>1. AtRank(kept, k) \in kept
      BY <1>1, RankReached
    <2>2. QED
      BY <2>1
  <1> DEFINE size == Cardinality(kept)
             picked == [k \in 1 .. size |-> s[AtRank(kept, k)]]
  <1>4. size \in Nat /\ picked \in [1 .. size -> T]
    BY <1>2, <1>3
  <1> HIDE DEF size
  <1>5. picked \in Seq(T) /\ Len(picked) = size /\ DOMAIN picked = 1 .. size
    BY <1>4
  <1>6. QED
    BY <1>2, <1>5 DEF Picked, size

\* Each element kept is found at its rank, and each element found was kept.
LEMMA PickedElements ==
    ASSUME NEW T, NEW s \in Seq(T), NEW kept \in SUBSET (DOMAIN s)
    PROVE  /\ \A i \in kept : /\ Rank(kept, i) \in DOMAIN Picked(s, kept)
                              /\ Picked(s, kept)[Rank(kept, i)] = s[i]
           /\ \A k \in DOMAIN Picked(s, kept) :
                 \E i \in kept : Rank(kept, i) = k /\ Picked(s, kept)[k] = s[i]
  <1>1. Len(s) \in Nat /\ kept \in SUBSET (1 .. Len(s))
    OBVIOUS
  <1>2. DOMAIN Picked(s, kept) = 1 .. Cardinality(kept)
    BY DEF Picked
  <1>3. ASSUME NEW i \in kept
        PROVE  Rank(kept, i) \in 1 .. Cardinality(kept)
               /\ Picked(s, kept)[Rank(kept, i)] = s[i]
    <2>1. Rank(kept, i) \in 1 .. Cardinality(kept) /\ AtRank(kept, Rank(kept, i)) = i
      BY <1>1, RankRange, AtItsRank
    <2>2. QED
      BY <2>1 DEF Picked
  <1>4. ASSUME NEW k \in 1 .. Cardinality(kept)
        PROVE  \E i \in kept : Rank(kept, i) = k /\ Picked(s, kept)[k] = s[i]
    <2>1. AtRank(kept, k) \in kept /\ Rank(kept, AtRank(kept, k)) = k
      BY <1>1, RankReached
    <2>2. Picked(s, kept)[k] = s[AtRank(kept, k)]
      BY DEF Picked
    <2>3. QED
      BY <2>1, <2>2
  <1>5. QED
    BY <1>2, <1>3, <1>4

-----------------------------------------------------------------------------
(* Recursion over 0 .. N.                                                  *)

Recursive(N, S, z, step) ==
    \E f \in [0 .. N -> S] :
        f[0] = z /\ \A k \in 1 .. N : f[k] = step[k][f[k - 1]]

\* A function that is defined at 0, and at k from its value at k - 1, exists.
LEMMA RecursionEnds ==
    ASSUME NEW N \in Nat, NEW S, NEW z \in S, NEW step \in [1 .. N -> [S -> S]]
    PROVE  Recursive(N, S, z, step)
  <1> DEFINE Fits(f, n) == /\ f \in [0 .. n -> S] /\ f[0] = z
                           /\ \A k \in 1 .. n : f[k] = step[k][f[k - 1]]
             Open == {n \in 0 .. N : ~\E f : Fits(f, n)}
  <1> SUFFICES ASSUME Open # {} PROVE FALSE
    <2>1. N \in 0 .. N
      OBVIOUS
    <2>2. Open = {} => \E f : Fits(f, N)
      <3> HIDE DEF Fits
      <3>1. QED
        BY <2>1
    <2>3. (\E f : Fits(f, N)) => Recursive(N, S, z, step)
      BY DEF Recursive
    <2>4. QED
      BY <2>2, <2>3
  <1>1. PICK n \in Open : \A m \in Open : n <= m
    <2>1. Open \in SUBSET Nat
      OBVIOUS
    <2> HIDE DEF Open
    <2>2. QED
      BY <2>1, FirstPosition
  <1>2. n \in 0 .. N /\ n \in Nat
    OBVIOUS
  <1>3. CASE n = 0
    <2>1. Fits([k \in 0 .. 0 |-> z], 0)
      OBVIOUS
    <2>2. QED
      BY <1>3, <2>1
  <1>4. CASE n # 0
    <2>1. n - 1 \in 0 .. N /\ ~(n <= n - 1)
      BY <1>2, <1>4
    <2>2. PICK f : Fits(f, n - 1)
      <3> HIDE DEF Fits
      <3>1. n - 1 \notin Open
        BY <1>1, <2>1
      <3>2. QED
        BY <2>1, <3>1
    <2> DEFINE v == step[n][f[n - 1]]
               longer == [k \in 0 .. n |-> IF k = n THEN v ELSE f[k]]
    <2>3. v \in S
      <3>1. f[n - 1] \in S /\ n \in 1 .. N
        BY <1>2, <1>4, <2>2
      <3>2. QED
        BY <3>1
    <2>4. longer \in [0 .. n -> S]
      BY <1>2, <1>4, <2>2, <2>3
    <2>5. longer[0] = z
      BY <1>2, <1>4, <2>2
    <2>6. ASSUME NEW k \in 1 .. n PROVE longer[k] = step[k][longer[k - 1]]
      <3>1. longer[k - 1] = f[k - 1]
        BY <1>2, <1>4
      <3>2. CASE k = n
        BY <3>1, <3>2
      <3>3. CASE k # n
        <4>1. k \in 1 .. n - 1 /\ longer[k] = f[k]
          BY <1>2, <1>4, <3>3
        <4>2. QED
          BY <2>2, <3>1, <4>1
      <3>4. QED
        BY <3>2, <3>3
    <2>7. Fits(longer, n)
      BY <2>4, <2>5, <2>6
    <2>8. QED
      BY <2>7
  <1>5. QED
    BY <1>3, <1>4

\* What holds at 0, and at n if it holds at n - 1, holds up to N.
LEMMA Climb ==
    ASSUME NEW N \in Nat, NEW S, 0 \in S, \A n \in 1 .. N : n - 1 \in S => n \in S
    PROVE  \A n \in 0 .. N : n \in S
  <1> DEFINE Missing == {n \in 0 .. N : n \notin S}
  <1> SUFFICES ASSUME Missing # {} PROVE FALSE
    OBVIOUS
  <1>1. PICK n \in Missing : \A m \in Missing : n <= m
    <2>1. Missing \in SUBSET Nat
      OBVIOUS
    <2> HIDE DEF Missing
    <2>2. QED
      BY <2>1, FirstPosition
  <1>2. n \in 1 .. N /\ n \notin S /\ n - 1 \in 0 .. N /\ ~(n <= n - 1)
    OBVIOUS
  <1>3. n - 1 \notin Missing
    BY <1>1, <1>2
  <1>4. QED
    BY <1>2, <1>3

=============================================================================
