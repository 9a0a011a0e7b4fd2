---------------------------- MODULE OrderProofs ----------------------------
(***************************************************************************)
(* InOrder lists the positions of a set once each, in increasing order.    *)
(***************************************************************************)
EXTENDS Order, Sequences, FunctionTheorems, FiniteSetTheorems, TLAPS

UpTo(S, k) == {l \in S : l <= k}
Rank(S, k) == Cardinality(UpTo(S, k))

LEMMA RankIsInjective ==
    ASSUME NEW n \in Nat, NEW S \in SUBSET (1 .. n)
    PROVE  /\ IsFiniteSet(S) /\ Cardinality(S) \in Nat
           /\ \A k \in S : Rank(S, k) \in 1 .. Cardinality(S)
           /\ \A j, k \in S : j < k => Rank(S, j) < Rank(S, k)
<1>1. IsFiniteSet(S)
  <2>1. IsFiniteSet(1 .. n)
    BY FS_Interval
  <2>. QED
    BY <2>1, FS_Subset
<1>2. Cardinality(S) \in Nat
  BY <1>1, FS_CardinalityType
<1>3. ASSUME NEW k \in S
      PROVE  /\ IsFiniteSet(UpTo(S, k)) /\ Rank(S, k) \in 1 .. Cardinality(S)
             /\ k \in UpTo(S, k)
  <2>1. UpTo(S, k) \subseteq S /\ k \in UpTo(S, k)
    BY DEF UpTo
  <2>2. IsFiniteSet(UpTo(S, k)) /\ Rank(S, k) <= Cardinality(S)
    BY <1>1, <2>1, FS_Subset DEF Rank
  <2>3. Rank(S, k) \in Nat /\ Rank(S, k) # 0
    BY <2>1, <2>2, FS_CardinalityType, FS_EmptySet DEF Rank
  <2>. QED
    BY <1>2, <2>1, <2>2, <2>3
<1>4. ASSUME NEW j \in S, NEW k \in S, j < k PROVE Rank(S, j) < Rank(S, k)
  <2>1. \A l \in S : l \in Int
    OBVIOUS
  <2>2. \A l \in S : l <= j => l <= k
    BY <1>4, <2>1
  <2>3. ~(k <= j)
    BY <1>4, <2>1
  <2>4. UpTo(S, j) \subseteq UpTo(S, k) /\ k \notin UpTo(S, j)
    BY <2>2, <2>3 DEF UpTo
  <2>5. Rank(S, j) <= Rank(S, k) /\ Rank(S, j) # Rank(S, k)
    BY <1>3, <2>4, FS_Subset DEF Rank
  <2>6. Rank(S, j) \in Nat /\ Rank(S, k) \in Nat
    BY <1>2, <1>3
  <2>. QED
    BY <2>5, <2>6
<1>. QED
  BY <1>1, <1>2, <1>3, <1>4

(* The a-th position in order is the one of rank a. *)
LEMMA RankInOrder ==
    ASSUME NEW n \in Nat, NEW S \in SUBSET (1 .. n)
    PROVE  /\ \A j \in 1 .. Cardinality(S) : InOrder(S)[j] \in S /\ Rank(S, InOrder(S)[j]) = j
           /\ \A k \in S : InOrder(S)[Rank(S, k)] = k
<1>. DEFINE c == Cardinality(S)
            f == [k \in S |-> Rank(S, k)]
<1>1. /\ IsFiniteSet(S) /\ c \in Nat
      /\ \A k \in S : Rank(S, k) \in 1 .. c
      /\ \A j, k \in S : j < k => Rank(S, j) < Rank(S, k)
  BY RankIsInjective
<1>2. \A k \in S : k \in Int
  OBVIOUS
<1>3. \A j, k \in S : Rank(S, j) = Rank(S, k) => j = k
  <2>1. SUFFICES ASSUME NEW j \in S, NEW k \in S, j # k PROVE Rank(S, j) # Rank(S, k)
    OBVIOUS
  <2>2. j < k \/ k < j
    BY <1>2, <2>1
  <2>3. Rank(S, j) < Rank(S, k) \/ Rank(S, k) < Rank(S, j)
    BY <1>1, <2>2
  <2>4. Rank(S, j) \in Int /\ Rank(S, k) \in Int
    BY <1>1
  <2>. QED
    BY <2>3, <2>4
<1>4. f \in Injection(S, 1 .. c)
  BY <1>1, <1>3 DEF Injection, IsInjective
<1>5. IsFiniteSet(1 .. c) /\ Cardinality(1 .. c) = c
  BY <1>1, FS_Interval
<1>6. f \in Surjection(S, 1 .. c)
  <2>. HIDE DEF f
  <2>. QED
    BY <1>4, <1>5, FS_Injection
<1>7. \A j \in 1 .. c : \E k \in S : Rank(S, k) = j
  BY <1>6 DEF Surjection
<1>8. \A j \in 1 .. c : InOrder(S)[j] \in S /\ Rank(S, InOrder(S)[j]) = j
  BY <1>7 DEF InOrder, Rank, UpTo
<1>9. \A k \in S : InOrder(S)[Rank(S, k)] = k
  BY <1>1, <1>3, <1>8
<1>. QED
  BY <1>8, <1>9

(* Each position of S exactly once, and in increasing order. *)
THEOREM InOrderLists ==
    ASSUME NEW n \in Nat, NEW S \in SUBSET (1 .. n)
    PROVE  /\ Cardinality(S) \in Nat
           /\ DOMAIN InOrder(S) = 1 .. Cardinality(S)
           /\ \A j \in 1 .. Cardinality(S) : InOrder(S)[j] \in S
           /\ \A k \in S : \E j \in 1 .. Cardinality(S) : InOrder(S)[j] = k
           /\ \A i, j \in 1 .. Cardinality(S) : i < j => InOrder(S)[i] < InOrder(S)[j]
<1>. DEFINE c == Cardinality(S)
<1>1. /\ IsFiniteSet(S) /\ c \in Nat
      /\ \A k \in S : Rank(S, k) \in 1 .. c
      /\ \A j, k \in S : j < k => Rank(S, j) < Rank(S, k)
  BY RankIsInjective
<1>2. \A k \in S : k \in Int
  OBVIOUS
<1>3. /\ \A j \in 1 .. c : InOrder(S)[j] \in S /\ Rank(S, InOrder(S)[j]) = j
      /\ \A k \in S : InOrder(S)[Rank(S, k)] = k
  BY RankInOrder
<1>4. ASSUME NEW i \in 1 .. c, NEW j \in 1 .. c, i < j PROVE InOrder(S)[i] < InOrder(S)[j]
  <2>1. InOrder(S)[i] \in S /\ InOrder(S)[j] \in S
    BY <1>3
  <2>2. ~(InOrder(S)[j] < InOrder(S)[i])
    <3>1. ~(j < i)
      BY <1>1, <1>4
    <3>. QED
      BY <1>1, <1>3, <2>1, <3>1
  <2>3. InOrder(S)[i] # InOrder(S)[j]
    <3>1. i # j
      BY <1>1, <1>4
    <3>. QED
      BY <1>3, <3>1
  <2>4. \A x, y \in Int : ~(y < x) /\ x # y => x < y
    OBVIOUS
  <2>. QED
    BY <1>2, <2>1, <2>2, <2>3, <2>4, Zenon
<1>5. DOMAIN InOrder(S) = 1 .. c
  BY DEF InOrder
<1>. QED
  BY <1>1, <1>3, <1>4, <1>5

(* Positions whose values count up from lo to hi are listed in that order. *)
LEMMA InOrderCounts ==
    ASSUME NEW n \in Nat, NEW S \in SUBSET (1 .. n), NEW lo \in Int, NEW hi \in Int, lo <= hi,
           NEW f \in [S -> lo .. hi], \A k, l \in S : k < l => f[k] < f[l],
           \A t \in lo .. hi : \E k \in S : f[k] = t
    PROVE  /\ Cardinality(S) = hi - lo + 1
           /\ \A j \in 1 .. Cardinality(S) : f[InOrder(S)[j]] = lo + j - 1
<1>1. \A k \in S : k \in Int /\ f[k] \in Int /\ lo <= f[k]
  OBVIOUS
<1>2. IsFiniteSet(S) /\ \A k \in S : IsFiniteSet(UpTo(S, k))
  BY RankIsInjective, FS_Subset DEF UpTo
<1>3. \A k, l \in S : f[k] = f[l] => k = l
  BY <1>1
<1>4. \A k, l \in S : f[l] <= f[k] => l <= k
  BY <1>1
<1>5. \A k, l \in S : l <= k => f[l] <= f[k]
  BY <1>1
<1>6. ASSUME NEW k \in S PROVE Rank(S, k) = f[k] - lo + 1
  <2>. DEFINE g == [l \in UpTo(S, k) |-> f[l]]
  <2>1. g \in Bijection(UpTo(S, k), lo .. f[k])
    <3>1. g \in [UpTo(S, k) -> lo .. f[k]]
      <4>1. \A l \in UpTo(S, k) : l \in S /\ l <= k
        BY DEF UpTo
      <4>2. \A l \in UpTo(S, k) : f[l] \in lo .. f[k]
        <5>1. SUFFICES ASSUME NEW l \in UpTo(S, k) PROVE f[l] \in lo .. f[k]
          OBVIOUS
        <5>2. l \in S /\ f[l] <= f[k] /\ f[l] \in Int /\ f[k] \in Int /\ lo <= f[l]
          BY <1>1, <1>5, <4>1
        <5>. QED
          BY <5>2
      <4>. QED
        BY <4>2
    <3>2. \A x, y \in UpTo(S, k) : g[x] = g[y] => x = y
      BY <1>3 DEF UpTo
    <3>3. \A t \in lo .. f[k] : \E x \in UpTo(S, k) : g[x] = t
      BY <1>1, <1>4 DEF UpTo
    <3>. QED
      BY <3>1, <3>2, <3>3 DEF Bijection, Injection, Surjection, IsInjective
  <2>2. Cardinality(lo .. f[k]) = Rank(S, k)
    BY <1>2, <2>1, FS_Bijection DEF ExistsBijection, Rank
  <2>3. f[k] \in Int /\ lo <= f[k]
    OBVIOUS
  <2>. QED
    BY <2>2, <2>3, FS_Interval
<1>7. Cardinality(S) = hi - lo + 1
  <2>1. f \in Bijection(S, lo .. hi)
    BY <1>3 DEF Bijection, Injection, Surjection, IsInjective
  <2>2. Cardinality(lo .. hi) = Cardinality(S)
    BY <1>2, <2>1, FS_Bijection DEF ExistsBijection
  <2>. QED
    BY <2>2, FS_Interval
<1>8. ASSUME NEW j \in 1 .. Cardinality(S) PROVE f[InOrder(S)[j]] = lo + j - 1
  <2>1. InOrder(S)[j] \in S /\ Rank(S, InOrder(S)[j]) = j
    BY RankInOrder
  <2>2. j = f[InOrder(S)[j]] - lo + 1
    BY <1>6, <2>1
  <2>3. f[InOrder(S)[j]] \in Int
    BY <1>1, <2>1
  <2>. QED
    BY <2>2, <2>3
<1>. QED
  BY <1>7, <1>8
-----------------------------------------------------------------------------
Smaller(S, Less, x) == {y \in S : <<y, x>> \in Less}

(* ListedBy lists each element of a set exactly once when Less orders it:  *)
(* the loops over the vectors PEs and connections of an array meet every   *)
(* unit and every connection.  The number of smaller elements is a rank,   *)
(* and ranks are counted down from the size of the set.                    *)
THEOREM ListedByLists ==
    ASSUME NEW S, IsFiniteSet(S), NEW Less,
           \A x \in S : <<x, x>> \notin Less,
           \A x, y \in S : x # y => <<x, y>> \in Less \/ <<y, x>> \in Less,
           \A x, y, z \in S : <<x, y>> \in Less /\ <<y, z>> \in Less => <<x, z>> \in Less
    PROVE  /\ Cardinality(S) \in Nat
           /\ ListedBy(S, Less) \in Seq(S) /\ Len(ListedBy(S, Less)) = Cardinality(S)
           /\ \A x \in S : \E j \in 1 .. Cardinality(S) : ListedBy(S, Less)[j] = x
           /\ \A i, j \in 1 .. Cardinality(S) :
                 ListedBy(S, Less)[i] = ListedBy(S, Less)[j] => i = j
<1>. DEFINE c == Cardinality(S)
            R(x) == Cardinality(Smaller(S, Less, x))
            f == [x \in S |-> R(x) + 1]
<1>1. c \in Nat
  BY FS_CardinalityType
<1>2. ASSUME NEW x \in S PROVE IsFiniteSet(Smaller(S, Less, x)) /\ R(x) \in Nat /\ R(x) < c
  <2>1. Smaller(S, Less, x) \subseteq S /\ x \notin Smaller(S, Less, x)
    BY DEF Smaller
  <2>2. IsFiniteSet(Smaller(S, Less, x)) /\ R(x) <= c /\ R(x) # c
    BY <2>1, FS_Subset
  <2>3. R(x) \in Nat
    BY <2>2, FS_CardinalityType
  <2>. QED
    BY <1>1, <2>2, <2>3
<1>3. ASSUME NEW x \in S, NEW y \in S, <<x, y>> \in Less PROVE R(x) < R(y)
  <2>1. Smaller(S, Less, x) \subseteq Smaller(S, Less, y)
    BY <1>3 DEF Smaller
  <2>2. x \in Smaller(S, Less, y) /\ x \notin Smaller(S, Less, x)
    BY <1>3 DEF Smaller
  <2>3. R(x) <= R(y) /\ R(x) # R(y)
    BY <1>2, <2>1, <2>2, FS_Subset
  <2>4. R(x) \in Nat /\ R(y) \in Nat
    BY <1>2
  <2>. QED
    BY <2>3, <2>4
<1>4. \A x, y \in S : R(x) = R(y) => x = y
  <2>1. SUFFICES ASSUME NEW x \in S, NEW y \in S, x # y PROVE R(x) # R(y)
    OBVIOUS
  <2>2. R(x) \in Nat /\ R(y) \in Nat
    BY <1>2
  <2>3. R(x) < R(y) \/ R(y) < R(x)
    BY <1>3, <2>1
  <2>. QED
    BY <2>2, <2>3
<1>5. f \in Injection(S, 1 .. c)
  <2>1. \A x \in S : R(x) + 1 \in 1 .. c
    BY <1>1, <1>2
  <2>2. \A x, y \in S : R(x) + 1 = R(y) + 1 => R(x) = R(y)
    BY <1>2
  <2>. HIDE DEF R
  <2>3. f \in [S -> 1 .. c]
    BY <2>1
  <2>. QED
    BY <1>4, <2>2, <2>3 DEF Injection, IsInjective
<1>6. f \in Surjection(S, 1 .. c)
  <2>1. IsFiniteSet(1 .. c) /\ Cardinality(1 .. c) = c
    BY <1>1, FS_Interval
  <2>. HIDE DEF f
  <2>. QED
    BY <1>5, <2>1, FS_Injection
<1>7. \A j \in 1 .. c : \E x \in S : R(x) = j - 1
  <2>1. SUFFICES ASSUME NEW j \in 1 .. c PROVE \E x \in S : R(x) = j - 1
    OBVIOUS
  <2>2. PICK x \in S : f[x] = j
    BY <1>6 DEF Surjection
  <2>3. R(x) + 1 = j /\ R(x) \in Nat
    BY <1>2, <2>2
  <2>. QED
    BY <1>1, <2>3
<1>8. \A j \in 1 .. c : ListedBy(S, Less)[j] \in S /\ R(ListedBy(S, Less)[j]) = j - 1
  BY <1>7 DEF ListedBy, Smaller
<1>9. ListedBy(S, Less) \in Seq(S) /\ Len(ListedBy(S, Less)) = c
  <2>. DEFINE first(j) == CHOOSE x \in S : Cardinality({y \in S : <<y, x>> \in Less}) = j - 1
  <2>1. ListedBy(S, Less) = [j \in 1 .. c |-> first(j)]
    BY DEF ListedBy
  <2>. HIDE DEF first
  <2>2. ListedBy(S, Less) \in [1 .. c -> S]
    BY <1>8, <2>1
  <2>. HIDE DEF c
  <2>. QED
    BY <1>1, <2>2
<1>10. ASSUME NEW x \in S PROVE \E j \in 1 .. c : ListedBy(S, Less)[j] = x
  <2>1. PICK j \in 1 .. c : j = R(x) + 1 /\ j - 1 = R(x)
    BY <1>1, <1>2
  <2>2. ListedBy(S, Less)[j] \in S /\ R(ListedBy(S, Less)[j]) = R(x)
    BY <1>8, <2>1
  <2>. QED
    BY <1>4, <2>2
<1>11. \A i, j \in 1 .. c : ListedBy(S, Less)[i] = ListedBy(S, Less)[j] => i = j
  <2>1. \A i, j \in 1 .. c : i - 1 = j - 1 => i = j
    BY <1>1
  <2>. QED
    BY <1>8, <2>1
<1>. QED
  BY <1>1, <1>9, <1>10, <1>11
=============================================================================
