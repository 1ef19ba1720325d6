--------------------------- MODULE OrderingProofs ---------------------------
(***************************************************************************)
(* What InOrder returns, for any finite set of numbers.  The ranks of n    *)
(* numbers are different, and below n: so they are all the numbers below   *)
(* n, and no induction is needed.                                          *)
(***************************************************************************)
EXTENDS Ordering, FiniteSetTheorems, SequenceTheorems, TLAPS

LEMMA RankGrows ==
  ASSUME NEW K \in SUBSET Int, IsFiniteSet(K), NEW k \in K, NEW m \in K, k < m
  PROVE  Rank(K, k) < Rank(K, m)
<1>1. {j \in K : j < k} \subseteq {j \in K : j < m}
  <2> SUFFICES ASSUME NEW j \in K, j < k PROVE j < m
    OBVIOUS
  <2>1. j \in Int /\ k \in Int /\ m \in Int
    OBVIOUS
  <2>2. QED
    BY <2>1
<1>2. k \in {j \in K : j < m} /\ k \notin {j \in K : j < k}
  OBVIOUS
<1>3. IsFiniteSet({j \in K : j < m})
  BY FS_Subset
<1>4. /\ Cardinality({j \in K : j < k}) <= Cardinality({j \in K : j < m})
      /\ Cardinality({j \in K : j < k}) # Cardinality({j \in K : j < m})
      /\ Cardinality({j \in K : j < k}) \in Nat
      /\ Cardinality({j \in K : j < m}) \in Nat
  BY <1>1, <1>2, <1>3, FS_Subset, FS_CardinalityType
<1>5. QED
  BY <1>4 DEF Rank

LEMMA RankBelow ==
  ASSUME NEW K \in SUBSET Int, IsFiniteSet(K), NEW k \in K
  PROVE  Rank(K, k) \in 0 .. Cardinality(K) - 1
<1>1. {j \in K : j < k} \subseteq K \ {k}
  OBVIOUS
<1>2. IsFiniteSet(K \ {k}) /\ Cardinality(K \ {k}) = Cardinality(K) - 1
  BY FS_RemoveElement
<1>3. /\ Cardinality({j \in K : j < k}) <= Cardinality(K) - 1
      /\ Cardinality({j \in K : j < k}) \in Nat
  BY <1>1, <1>2, FS_Subset, FS_CardinalityType
<1>4. Cardinality(K) \in Nat
  BY FS_CardinalityType
<1>5. QED
  BY <1>3, <1>4 DEF Rank

LEMMA RankUnique ==
  ASSUME NEW K \in SUBSET Int, IsFiniteSet(K), NEW k \in K, NEW m \in K, Rank(K, k) = Rank(K, m)
  PROVE  k = m
<1>1. Rank(K, k) \in Int
  BY RankBelow
<1>2. CASE k < m
  BY <1>1, <1>2, RankGrows
<1>3. CASE m < k
  BY <1>1, <1>3, RankGrows
<1>4. QED
  BY <1>2, <1>3

LEMMA RankTaken ==
  ASSUME NEW K \in SUBSET Int, IsFiniteSet(K), NEW i \in 0 .. Cardinality(K) - 1
  PROVE  \E k \in K : Rank(K, k) = i
<1> DEFINE r == [k \in K |-> Rank(K, k)]
           R == 0 .. Cardinality(K) - 1
<1>1. r \in Injection(K, R)
  BY RankBelow, RankUnique DEF Injection, IsInjective
<1>2. Cardinality(K) \in Nat
  BY FS_CardinalityType
<1>3. IsFiniteSet(R) /\ Cardinality(R) = Cardinality(K)
  BY <1>2, FS_Interval
<1>4. r \in Surjection(K, R)
  BY <1>1, <1>3, FS_Injection
<1>5. QED
  BY <1>4 DEF Surjection

LEMMA InOrderAt ==
  ASSUME NEW K \in SUBSET Int, IsFiniteSet(K), NEW i \in 1 .. Cardinality(K)
  PROVE  /\ InOrder(K)[i] \in K
         /\ Rank(K, InOrder(K)[i]) = i - 1
         /\ \A k \in K : Rank(K, k) = i - 1 => k = InOrder(K)[i]
<1>1. Cardinality(K) \in Nat
  BY FS_CardinalityType
<1>2. i - 1 \in 0 .. Cardinality(K) - 1
  BY <1>1
<1>3. \E k \in K : Rank(K, k) = i - 1
  BY <1>2, RankTaken
<1>4. InOrder(K)[i] \in K /\ Rank(K, InOrder(K)[i]) = i - 1
  BY <1>3 DEF InOrder
<1>5. ASSUME NEW k \in K, Rank(K, k) = i - 1 PROVE k = InOrder(K)[i]
  <2>1. Rank(K, k) = Rank(K, InOrder(K)[i])
    BY <1>4, <1>5
  <2>2. QED
    BY <1>4, <2>1, RankUnique
<1>6. QED
  BY <1>4, <1>5

LEMMA InOrderIs ==
  ASSUME NEW K \in SUBSET Int, IsFiniteSet(K)
  PROVE  /\ InOrder(K) \in Seq(K) /\ DOMAIN InOrder(K) = 1 .. Cardinality(K)
         /\ Len(InOrder(K)) = Cardinality(K)
         /\ Cardinality(K) \in Nat
         /\ \A k \in K : \E i \in DOMAIN InOrder(K) : InOrder(K)[i] = k
         /\ \A i, j \in DOMAIN InOrder(K) : i < j => InOrder(K)[i] < InOrder(K)[j]
<1>1. Cardinality(K) \in Nat /\ DOMAIN InOrder(K) = 1 .. Cardinality(K)
  BY FS_CardinalityType DEF InOrder
<1>2. InOrder(K) \in Seq(K) /\ Len(InOrder(K)) = Cardinality(K)
  BY <1>1, InOrderAt DEF InOrder
<1>3. ASSUME NEW k \in K PROVE \E i \in DOMAIN InOrder(K) : InOrder(K)[i] = k
  <2>1. Rank(K, k) + 1 \in 1 .. Cardinality(K) /\ Rank(K, k) = (Rank(K, k) + 1) - 1
    BY <1>1, RankBelow
  <2>2. InOrder(K)[Rank(K, k) + 1] = k
    BY <2>1, InOrderAt
  <2>3. QED
    BY <1>1, <2>1, <2>2
<1>4. ASSUME NEW i \in DOMAIN InOrder(K), NEW j \in DOMAIN InOrder(K), i < j
      PROVE  InOrder(K)[i] < InOrder(K)[j]
  <2>1. /\ InOrder(K)[i] \in K /\ Rank(K, InOrder(K)[i]) = i - 1
        /\ InOrder(K)[j] \in K /\ Rank(K, InOrder(K)[j]) = j - 1
    BY <1>1, InOrderAt
  <2>2. CASE InOrder(K)[j] < InOrder(K)[i]
    <3>1. Rank(K, InOrder(K)[j]) < Rank(K, InOrder(K)[i])
      BY <2>1, <2>2, RankGrows
    <3>2. QED
      BY <1>1, <1>4, <2>1, <3>1
  <2>3. CASE InOrder(K)[j] = InOrder(K)[i]
    BY <1>1, <1>4, <2>1, <2>3
  <2>4. InOrder(K)[i] \in Int /\ InOrder(K)[j] \in Int
    BY <2>1
  <2>5. QED
    BY <2>2, <2>3, <2>4
<1>5. QED
  BY <1>1, <1>2, <1>3, <1>4

(* A number greater than all others comes last.                            *)
LEMMA InOrderAppend ==
  ASSUME NEW K \in SUBSET Int, IsFiniteSet(K), NEW n \in Int, \A k \in K : k < n
  PROVE  InOrder(K \cup {n}) = Append(InOrder(K), n)
<1> DEFINE L == K \cup {n}
           c == Cardinality(K)
<1>1. n \notin K /\ L \in SUBSET Int
  OBVIOUS
<1>2. IsFiniteSet(L) /\ Cardinality(L) = c + 1 /\ c \in Nat
  BY <1>1, FS_AddElement, FS_CardinalityType
<1>3. \A k \in K : Rank(L, k) = Rank(K, k)
  <2> SUFFICES ASSUME NEW k \in K PROVE Rank(L, k) = Rank(K, k)
    OBVIOUS
  <2>1. {j \in L : j < k} = {j \in K : j < k}
    OBVIOUS
  <2>2. QED
    BY <2>1 DEF Rank
<1>4. Rank(L, n) = c
  <2>1. {j \in L : j < n} = K
    <3>1. ~(n < n)
      OBVIOUS
    <3>2. ASSUME NEW j PROVE j \in {x \in L : x < n} <=> j \in K
      BY <1>1, <3>1
    <3>3. QED
      BY <3>2, Zenon
  <2>2. QED
    BY <2>1 DEF Rank
<1>5. ASSUME NEW i \in 1 .. c PROVE InOrder(L)[i] = InOrder(K)[i]
  <2>1. InOrder(K)[i] \in K /\ Rank(K, InOrder(K)[i]) = i - 1
    BY InOrderAt
  <2>2. i \in 1 .. Cardinality(L)
    BY <1>2
  <2>3. InOrder(K)[i] \in L /\ Rank(L, InOrder(K)[i]) = i - 1
    BY <1>3, <2>1
  <2>4. \A k \in L : Rank(L, k) = i - 1 => k = InOrder(L)[i]
    BY <1>1, <1>2, <2>2, InOrderAt
  <2>5. QED
    BY <2>3, <2>4
<1>6. InOrder(L)[c + 1] = n
  <2>1. c + 1 \in 1 .. Cardinality(L) /\ Rank(L, n) = (c + 1) - 1
    BY <1>2, <1>4
  <2>2. QED
    BY <1>1, <1>2, <2>1, InOrderAt
<1>7. /\ InOrder(K) \in Seq(K) /\ Len(InOrder(K)) = c
      /\ InOrder(L) \in Seq(L) /\ Len(InOrder(L)) = c + 1
  BY <1>1, <1>2, InOrderIs
<1> HIDE DEF c
<1>8. QED
  <2>1. InOrder(K) \in Seq(Int) /\ InOrder(L) \in Seq(Int)
    BY <1>1, <1>7, SeqMonotonic
  <2>2. /\ Append(InOrder(K), n) \in Seq(Int) /\ Len(Append(InOrder(K), n)) = c + 1
        /\ \A i \in 1 .. c : Append(InOrder(K), n)[i] = InOrder(K)[i]
        /\ Append(InOrder(K), n)[c + 1] = n
    BY <1>7, <2>1, AppendProperties
  <2>3. ASSUME NEW i \in 1 .. c + 1 PROVE InOrder(L)[i] = Append(InOrder(K), n)[i]
    <3>1. CASE i = c + 1
      BY <1>6, <2>2, <3>1
    <3>2. CASE i \in 1 .. c
      BY <1>5, <2>2, <3>2
    <3>3. i = c + 1 \/ i \in 1 .. c
      BY <1>2
    <3>4. QED
      BY <3>1, <3>2, <3>3, Zenon
  <2>4. QED
    BY <1>7, <2>1, <2>2, <2>3, SeqEqual

LEMMA GreatestElement ==
  ASSUME NEW K \in SUBSET Int, IsFiniteSet(K), K # {}
  PROVE  \E m \in K : \A k \in K : k <= m
<1>1. Cardinality(K) \in Nat /\ Cardinality(K) # 0
  BY FS_CardinalityType, FS_EmptySet
<1>2. PICK m \in K : Rank(K, m) = Cardinality(K) - 1
  BY <1>1, RankTaken
<1>3. ASSUME NEW k \in K PROVE k <= m
  <2>1. CASE m < k
    <3>1. Rank(K, m) < Rank(K, k) /\ Rank(K, k) \in 0 .. Cardinality(K) - 1
      BY <2>1, RankGrows, RankBelow
    <3>2. QED
      BY <1>1, <1>2, <3>1
  <2>2. QED
    BY <2>1
<1>4. QED
  BY <1>3

LEMMA LeastElement ==
  ASSUME NEW K \in SUBSET Int, IsFiniteSet(K), K # {}
  PROVE  \E m \in K : \A k \in K : m <= k
<1>1. Cardinality(K) \in Nat /\ Cardinality(K) # 0
  BY FS_CardinalityType, FS_EmptySet
<1>2. PICK m \in K : Rank(K, m) = 0
  BY <1>1, RankTaken
<1>3. ASSUME NEW k \in K PROVE m <= k
  <2>1. CASE k < m
    <3>1. Rank(K, k) < Rank(K, m) /\ Rank(K, k) \in 0 .. Cardinality(K) - 1
      BY <2>1, RankGrows, RankBelow
    <3>2. QED
      BY <1>1, <1>2, <3>1
  <2>2. QED
    BY <2>1
<1>4. QED
  BY <1>3
=============================================================================
