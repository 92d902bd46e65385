-------------------------- MODULE Selection_proofs --------------------------
(***************************************************************************)
(* What a selection from a sequence holds: the elements at the places that *)
(* were asked for, all of them, each once, in their order.                 *)
(***************************************************************************)
EXTENDS Selection, FiniteSetTheorems, SequenceTheorems, WellFoundedInduction,
        TLAPS

\* A non-empty set of natural numbers has a least element.
LEMMA Least ==
    ASSUME NEW T \in SUBSET Nat, T # {}
    PROVE  \E n \in T : \A m \in T : n <= m
<1> DEFINE R == OpToRel(<, Nat)
<1>1. R = {ss \in Nat \X Nat : ss[1] < ss[2]}
    BY DEF OpToRel
<1>2. IsWellFoundedOn(R, Nat)
    BY NatLessThanWellFounded
<1> HIDE DEF R
<1>3. PICK n \in T : \A m \in T : ~(<<m, n>> \in R)
    BY <1>2, WFMin
<1>4. ASSUME NEW m \in T PROVE n <= m
    <2>1. n \in Nat /\ m \in Nat
        OBVIOUS
    <2>2. ~(m < n)
        BY <1>1, <1>3, <2>1
    <2> QED
        BY <2>1, <2>2
<1> QED
    BY <1>4

\* For any k up to their number, one of the places is the k-th.
LEMMA HasRank ==
    ASSUME NEW n \in Nat, NEW places \in SUBSET (1..n),
           NEW k \in 1..Cardinality(places)
    PROVE  \E i \in places : Cardinality({j \in places : j <= i}) = k
<1> DEFINE Upto(i) == {j \in places : j <= i}
<1>0. \A j \in places : j \in Nat /\ 1 <= j /\ j <= n
    OBVIOUS
<1>1. /\ IsFiniteSet(places) /\ Cardinality(places) \in Nat
      /\ \A i : IsFiniteSet(Upto(i)) /\ Cardinality(Upto(i)) \in Nat
    <2>1. IsFiniteSet(1..n)
        BY FS_Interval
    <2>2. IsFiniteSet(places)
        BY <2>1, FS_Subset
    <2> SUFFICES ASSUME NEW i
                 PROVE  IsFiniteSet(Upto(i)) /\ Cardinality(Upto(i)) \in Nat
        BY <2>2, FS_CardinalityType
    <2>3. Upto(i) \subseteq places
        OBVIOUS
    <2> HIDE DEF Upto
    <2>4. IsFiniteSet(Upto(i))
        BY <2>2, <2>3, FS_Subset
    <2> QED
        BY <2>4, FS_CardinalityType
<1> DEFINE Enough == {i \in 0..n : k <= Cardinality(Upto(i))}
<1>2. Enough \in SUBSET Nat /\ Enough # {}
    <2>1. Upto(n) = places
        BY <1>0
    <2>2. n \in 0..n /\ k <= Cardinality(Upto(n))
        BY <1>1, <2>1
    <2> HIDE DEF Upto
    <2>3. n \in Enough
        BY <2>2
    <2>4. Enough \subseteq 0..n /\ 0..n \subseteq Nat
        OBVIOUS
    <2> QED
        BY <2>3, <2>4
<1> HIDE DEF Enough
<1>3. PICK i \in Enough : \A m \in Enough : i <= m
    BY <1>2, Least
<1>4. i \in 0..n /\ k <= Cardinality(Upto(i))
    BY DEF Enough
<1>5. i # 0
    <2>1. Upto(0) = {}
        <3>1. \A j \in places : ~(j <= 0)
            BY <1>0
        <3> QED
            BY <3>1
    <2>2. Cardinality({}) = 0
        BY FS_EmptySet
    <2> QED
        BY <1>4, <2>1, <2>2
<1>6. i - 1 \in 0..n /\ ~(i <= i - 1)
    BY <1>4, <1>5
<1>7. ~(k <= Cardinality(Upto(i - 1)))
    <2>1. i - 1 \notin Enough
        BY <1>3, <1>6
    <2> QED
        BY <1>6, <2>1 DEF Enough
<1>8. i \in places
    <2> SUFFICES ASSUME i \notin places PROVE FALSE
        OBVIOUS
    <2>1. \A j \in places : j <= i <=> j <= i - 1
        BY <1>0, <1>4
    <2>2. Upto(i) = Upto(i - 1)
        BY <2>1
    <2> QED
        BY <1>4, <1>7, <2>2
<1>9. Upto(i) = Upto(i - 1) \union {i} /\ i \notin Upto(i - 1)
    <2>1. \A j \in places : j <= i <=> j <= i - 1 \/ j = i
        BY <1>0, <1>4
    <2>2. ~(i <= i - 1)
        BY <1>4
    <2> QED
        BY <1>8, <2>1, <2>2
<1> HIDE DEF Upto
<1>10. Cardinality(Upto(i)) = Cardinality(Upto(i - 1)) + 1
    BY <1>1, <1>9, FS_AddElement
<1>11. Cardinality(Upto(i)) = k
    <2>1. PICK a \in Nat : a = Cardinality(Upto(i))
        BY <1>1
    <2>2. PICK b \in Nat : b = Cardinality(Upto(i - 1))
        BY <1>1
    <2>3. k \in Nat /\ k <= a /\ ~(k <= b) /\ a = b + 1
        BY <1>1, <1>4, <1>7, <1>10, <2>1, <2>2
    <2>4. a = k
        BY <2>3
    <2> QED
        BY <2>1, <2>4
<1> QED
    BY <1>8, <1>11 DEF Upto

\* What is picked from a sequence of S's is one.
LEMMA PickedTyped ==
    ASSUME NEW S, NEW s \in Seq(S), NEW places \in SUBSET (DOMAIN s)
    PROVE  PickedFrom(s, places) \in Seq(S)
<1>1. Len(s) \in Nat /\ DOMAIN s = 1..Len(s) /\ \A i \in 1..Len(s) : s[i] \in S
    BY LenProperties, ElementOfSeq
<1>2. Cardinality(places) \in Nat
    <2>1. IsFiniteSet(1..Len(s))
        BY <1>1, FS_Interval
    <2> QED
        BY <1>1, <2>1, FS_Subset, FS_CardinalityType
<1> DEFINE Pick(k) ==
        CHOOSE i \in places : Cardinality({j \in places : j <= i}) = k
<1>3. \A k \in 1..Cardinality(places) : Pick(k) \in places
    BY <1>1, HasRank
<1> HIDE DEF Pick
<1>4. [k \in 1..Cardinality(places) |-> s[Pick(k)]] \in Seq(S)
    <2>1. \A k \in 1..Cardinality(places) : s[Pick(k)] \in S
        BY <1>1, <1>3
    <2> QED
        BY <1>2, <2>1, SeqDef
<1> QED
    BY <1>4 DEF Pick, PickedFrom

\* The places below one are fewer than those below a later one.
LEMMA RankGrows ==
    ASSUME NEW n \in Nat, NEW places \in SUBSET (1..n),
           NEW a \in places, NEW b \in places, a < b
    PROVE  Cardinality({j \in places : j <= a}) <
           Cardinality({j \in places : j <= b})
<1> DEFINE Below == {j \in places : j <= a}
           Upto  == {j \in places : j <= b}
<1>1. IsFiniteSet(Below) /\ IsFiniteSet(Upto)
    <2>1. IsFiniteSet(1..n)
        BY FS_Interval
    <2> QED
        BY <2>1, FS_Subset
<1>2. Below \union {b} \subseteq Upto /\ b \notin Below
    <2>1. a \in Nat /\ b \in Nat /\ \A j \in places : j \in Nat
        OBVIOUS
    <2>2. b <= b /\ ~(b <= a)
        BY <2>1
    <2>3. \A j \in places : j <= a => j <= b
        BY <2>1
    <2> QED
        BY <2>2, <2>3
<1> HIDE DEF Below, Upto
<1>3. PICK p \in Nat : p = Cardinality(Below)
    BY <1>1, FS_CardinalityType
<1>4. PICK q \in Nat : q = Cardinality(Upto)
    BY <1>1, FS_CardinalityType
<1>5. Cardinality(Below \union {b}) = p + 1 /\ IsFiniteSet(Below \union {b})
    BY <1>1, <1>2, <1>3, FS_AddElement
<1>6. p + 1 <= q
    BY <1>1, <1>2, <1>4, <1>5, FS_Subset
<1>7. p < q
    BY <1>6
<1> QED
    BY <1>3, <1>4, <1>7 DEF Below, Upto

\* Where the elements of a selection come from: f maps the places of the
\* selection to those asked for, in their order and leaving none out.
LEMMA PickedPlaces ==
    ASSUME NEW S, NEW s \in Seq(S), NEW places \in SUBSET (DOMAIN s)
    PROVE  \E f \in [DOMAIN PickedFrom(s, places) -> places] :
              /\ \A k \in DOMAIN PickedFrom(s, places) :
                    PickedFrom(s, places)[k] = s[f[k]]
              /\ \A k, l \in DOMAIN PickedFrom(s, places) :
                    k < l => f[k] < f[l]
              /\ \A i \in places :
                    \E k \in DOMAIN PickedFrom(s, places) : f[k] = i
<1>1. PICK n \in Nat : DOMAIN s = 1..n
    BY LenProperties
<1>2. PICK m \in Nat : m = Cardinality(places)
    <2>1. IsFiniteSet(1..n)
        BY FS_Interval
    <2> QED
        BY <1>1, <2>1, FS_Subset, FS_CardinalityType
<1> DEFINE Rank(i) == Cardinality({j \in places : j <= i})
           Place(k) == CHOOSE i \in places : Rank(i) = k
           f == [k \in 1..m |-> Place(k)]
           r == PickedFrom(s, places)
<1>3. \A k \in 1..m : Place(k) \in places /\ Rank(Place(k)) = k
    <2> SUFFICES ASSUME NEW k \in 1..m
                 PROVE  \E i \in places : Rank(i) = k
        OBVIOUS
    <2>1. k \in 1..Cardinality(places) /\ places \in SUBSET (1..n)
        BY <1>1, <1>2
    <2> QED
        BY <2>1, HasRank
<1>4. \A a, b \in places : a < b => Rank(a) < Rank(b)
    BY <1>1, RankGrows
<1>5. \A i \in places : Rank(i) \in 1..m
    <2> SUFFICES ASSUME NEW i \in places PROVE Rank(i) \in 1..m
        OBVIOUS
    <2> DEFINE Upto == {j \in places : j <= i}
    <2>1. IsFiniteSet(1..n)
        BY FS_Interval
    <2>2. IsFiniteSet(places)
        BY <1>1, <2>1, FS_Subset
    <2>3. Upto \subseteq places /\ i \in Upto
        BY <1>1
    <2> HIDE DEF Upto
    <2>4. IsFiniteSet(Upto) /\ Cardinality(Upto) <= Cardinality(places)
        BY <2>2, <2>3, FS_Subset
    <2>5. PICK q \in Nat : q = Cardinality(Upto)
        BY <2>4, FS_CardinalityType
    <2>6. q # 0
        BY <2>3, <2>4, <2>5, FS_EmptySet
    <2>7. q \in 1..m
        BY <1>2, <2>4, <2>5, <2>6
    <2> QED
        BY <2>5, <2>7 DEF Upto
<1>6. DOMAIN r = 1..m /\ \A k \in 1..m : r[k] = s[Place(k)]
    BY <1>2 DEF PickedFrom
<1> HIDE DEF Rank, Place, r
<1>7. f \in [1..m -> places] /\ \A k \in 1..m : f[k] = Place(k)
    BY <1>3
<1>8. \A i \in places : i \in Nat
    BY <1>1
<1>9. ASSUME NEW k \in 1..m, NEW l \in 1..m, k < l
      PROVE  f[k] < f[l]
    <2>1. f[k] \in places /\ f[l] \in places
        BY <1>7
    <2>2. Rank(f[k]) = k /\ Rank(f[l]) = l
        BY <1>3, <1>7
    <2>3. ~(f[l] < f[k])
        BY <1>4, <1>9, <2>1, <2>2
    <2>4. f[l] # f[k]
        BY <1>9, <2>2
    <2> QED
        BY <1>8, <2>1, <2>3, <2>4
<1>10. ASSUME NEW i \in places
       PROVE  \E k \in 1..m : f[k] = i
    <2>1. PICK k \in 1..m : k = Rank(i)
        BY <1>5
    <2>2. f[k] \in places /\ Rank(f[k]) = k
        BY <1>3, <1>7
    <2>3. ~(f[k] < i) /\ ~(i < f[k])
        BY <1>4, <2>1, <2>2
    <2>4. f[k] = i
        BY <1>8, <2>2, <2>3
    <2> QED
        BY <2>4
<1> HIDE DEF f
<1>11. f \in [DOMAIN r -> places] /\ \A k \in DOMAIN r : r[k] = s[f[k]]
    BY <1>6, <1>7
<1>12. \A k, l \in DOMAIN r : k < l => f[k] < f[l]
    BY <1>6, <1>9
<1>13. \A i \in places : \E k \in DOMAIN r : f[k] = i
    BY <1>6, <1>10
<1> QED
    BY <1>11, <1>12, <1>13 DEF r

\* A selection holds what is at the places and nothing else.
LEMMA PickedItems ==
    ASSUME NEW S, NEW s \in Seq(S), NEW places \in SUBSET (DOMAIN s)
    PROVE  /\ \A k \in DOMAIN PickedFrom(s, places) :
                 \E i \in places : PickedFrom(s, places)[k] = s[i]
           /\ \A i \in places :
                 \E k \in DOMAIN PickedFrom(s, places) :
                     PickedFrom(s, places)[k] = s[i]
<1>1. PICK f \in [DOMAIN PickedFrom(s, places) -> places] :
          /\ \A k \in DOMAIN PickedFrom(s, places) :
                PickedFrom(s, places)[k] = s[f[k]]
          /\ \A i \in places :
                \E k \in DOMAIN PickedFrom(s, places) : f[k] = i
    BY PickedPlaces
<1> QED
    BY <1>1

\* What is said of a sequence once, a selection says at most once.
LEMMA PickedOnce ==
    ASSUME NEW S, NEW s \in Seq(S), NEW places \in SUBSET (DOMAIN s),
           NEW key \in [S -> Nat],
           \A i, j \in DOMAIN s : key[s[i]] = key[s[j]] => i = j
    PROVE  LET r == PickedFrom(s, places)
           IN  \A k, l \in DOMAIN r : key[r[k]] = key[r[l]] => k = l
<1> DEFINE r == PickedFrom(s, places)
<1>1. PICK f \in [DOMAIN r -> places] :
          /\ \A k \in DOMAIN r : r[k] = s[f[k]]
          /\ \A k, l \in DOMAIN r : k < l => f[k] < f[l]
    BY PickedPlaces
<1>2. DOMAIN r \subseteq Nat /\ places \subseteq Nat
    <2>1. r \in Seq(S)
        BY PickedTyped
    <2> HIDE DEF r
    <2> QED
        BY <2>1, LenProperties
<1> HIDE DEF r
<1>3. ASSUME NEW k \in DOMAIN r, NEW l \in DOMAIN r, key[r[k]] = key[r[l]]
      PROVE  k = l
    <2>1. f[k] = f[l]
        BY <1>1, <1>3
    <2>2. ~(k < l) /\ ~(l < k)
        <3>1. f[k] \in Nat /\ ~(f[k] < f[k])
            BY <1>1, <1>2
        <3> QED
            BY <1>1, <2>1, <3>1
    <2> QED
        BY <1>2, <2>2
<1> QED
    BY <1>3 DEF r
=============================================================================
