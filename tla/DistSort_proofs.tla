--------------------------- MODULE DistSort_proofs ---------------------------
(***************************************************************************)
(* Theorems about DistSort, for any number of ranks, any blocks, empty     *)
(* ones among them, and any elements.                                      *)
(***************************************************************************)
EXTENDS DistSort, WellFoundedInduction, TLAPS

------------------------------------------------------------------------------
(* Induction, with a set instead of a predicate                            *)

\* A nonempty set of natural numbers has a least element.
LEMMA LeastNatural ==
  ASSUME NEW T \in SUBSET Nat, T # {}
  PROVE  \E x \in T : \A y \in T : x <= y
<1>1. IsWellFoundedOn(OpToRel(<, Nat), Nat)
  BY NatLessThanWellFounded
<1>2. PICK x \in T : \A y \in T : ~ (<<y, x>> \in OpToRel(<, Nat))
  BY <1>1, WFMin
<1>3. \A y \in T : ~ (y < x)
  BY <1>2 DEF OpToRel
<1>4. QED
  BY <1>3

\* A set with 0 that is closed under successor holds every natural number.
LEMMA SetInductionNat ==
  ASSUME NEW T, 0 \in T, \A n \in Nat : n \in T => n + 1 \in T
  PROVE  \A n \in Nat : n \in T
<1>1. SUFFICES ASSUME Nat \ T # {} PROVE FALSE
  OBVIOUS
<1>2. PICK x \in Nat \ T : \A y \in Nat \ T : x <= y
  BY <1>1, LeastNatural
<1>3. x # 0 /\ x - 1 \in Nat
  BY <1>2
<1>4. x - 1 \in T
  BY <1>2, <1>3
<1>5. QED
  BY <1>2, <1>3, <1>4

------------------------------------------------------------------------------
(* Sets of ranks.                                                          *)

\* Min() and Max() of a nonempty set of ranks are in it and bound it.
LEMMA MinMax ==
  ASSUME NEW S \in SUBSET Nat, S # {}, NEW n \in Nat, \A x \in S : x <= n
  PROVE  /\ Min(S) \in S /\ \A x \in S : Min(S) <= x
         /\ Max(S) \in S /\ \A x \in S : x <= Max(S)
<1>1. \E x \in S : \A y \in S : x <= y
  BY LeastNatural
<1>2. \E x \in S : \A y \in S : x >= y
  <2> DEFINE T == {n - x : x \in S}
  <2>0. \A x \in S : n - x \in Nat
    OBVIOUS
  <2>1. T \in SUBSET Nat /\ T # {}
    BY <2>0
  <2>2. PICK t \in T : \A u \in T : t <= u
    <3> HIDE DEF T
    <3>1. QED
      BY <2>1, LeastNatural
  <2>3. PICK x \in S : t = n - x
    BY <2>2
  <2>4. \A y \in S : n - x <= n - y
    BY <2>2, <2>3
  <2>5. \A y \in S : x >= y
    BY <2>4
  <2>6. QED
    BY <2>5
<1>3. QED
  BY <1>1, <1>2 DEF Min, Max

Lengths == n_all \in [Ranks -> Nat]

\* The first and the last of the ranks from lo to hi that have elements.
LEMMA NonEmptyRanks ==
  ASSUME Lengths, NEW lo \in Nat, NEW hi \in Int, NonEmpty(lo, hi) # {}
  PROVE  /\ Min(NonEmpty(lo, hi)) \in lo..hi /\ n_all[Min(NonEmpty(lo, hi))] # 0
         /\ Max(NonEmpty(lo, hi)) \in lo..hi /\ n_all[Max(NonEmpty(lo, hi))] # 0
         /\ \A r \in lo..hi : n_all[r] # 0 => Min(NonEmpty(lo, hi)) <= r
<1> DEFINE S == NonEmpty(lo, hi)
<1>1. hi \in Nat /\ S \in SUBSET Nat /\ \A x \in S : x <= hi
  BY DEF NonEmpty
<1>2. Min(S) \in S /\ Max(S) \in S /\ \A x \in S : Min(S) <= x
  BY <1>1, MinMax
<1>3. QED
  BY <1>2 DEF NonEmpty

------------------------------------------------------------------------------
(* Slots and their order.                                                  *)

Spots == [rank : Int, index : Int]

LEMMA SlotsAre ==
  ASSUME Lengths
  PROVE  /\ \A r \in Ranks, i \in Int : i >= 0 /\ i < n_all[r] => Slot(r, i) \in Slots
         /\ \A p \in Slots : /\ p \in Spots /\ p.rank \in Ranks
                             /\ p.index >= 0 /\ p.index < n_all[p.rank]
<1>1. ASSUME NEW r \in Ranks, NEW i \in Int, i >= 0, i < n_all[r]
      PROVE  Slot(r, i) \in Slots
  <2>1. i \in 0..(n_all[r] - 1)
    BY <1>1 DEF Lengths
  <2>2. QED
    BY <2>1 DEF Slots
<1>2. ASSUME NEW p \in Slots
      PROVE  /\ p \in Spots /\ p.rank \in Ranks
             /\ p.index >= 0 /\ p.index < n_all[p.rank]
  <2>0. PICK r \in Ranks : \E i \in 0..(n_all[r] - 1) : p = Slot(r, i)
    BY DEF Slots
  <2>1. PICK i \in 0..(n_all[r] - 1) : p = Slot(r, i)
    BY <2>0
  <2>2. n_all[r] \in Nat /\ r \in Int
    BY DEF Lengths, Ranks
  <2>3. i \in Int /\ i >= 0 /\ i < n_all[r]
    BY <2>1, <2>2
  <2>4. QED
    BY <2>1, <2>2, <2>3 DEF Slot, Spots
<1>3. QED
  BY <1>1, <1>2

LEMMA SpotEquality ==
  ASSUME NEW p \in Spots, NEW q \in Spots, p.rank = q.rank, p.index = q.index
  PROVE  p = q
BY DEF Spots

\* The slots are in a linear order.
LEMMA LinearOrder ==
  ASSUME NEW p \in Spots, NEW q \in Spots, NEW s \in Spots
  PROVE  /\ ~ Precedes(p, p)
         /\ Precedes(p, q) \/ p = q \/ Precedes(q, p)
         /\ Precedes(p, q) /\ Precedes(q, s) => Precedes(p, s)
         /\ InOrder(p, q) /\ InOrder(q, s) => InOrder(p, s)
         /\ Precedes(p, q) /\ InOrder(q, s) => Precedes(p, s)
         /\ InOrder(p, q) /\ Precedes(q, s) => Precedes(p, s)
         /\ InOrder(p, q) /\ p # q => Precedes(p, q)
<1>1. /\ p.rank \in Int /\ q.rank \in Int /\ s.rank \in Int
      /\ p.index \in Int /\ q.index \in Int /\ s.index \in Int
  BY DEF Spots
<1>2. ~ Precedes(p, p) /\ (Precedes(p, q) /\ Precedes(q, s) => Precedes(p, s))
  BY <1>1 DEF Precedes
<1>3. Precedes(p, q) \/ p = q \/ Precedes(q, p)
  BY <1>1, SpotEquality DEF Precedes
<1>4. QED
  BY <1>2, <1>3 DEF InOrder

\* The slot after p is the least slot beyond p, past any empty ranks.
LEMMA FollowingSlot ==
  ASSUME Lengths, NEW p \in Slots, NEW right \in Slots, Precedes(p, right)
  PROVE  /\ Following(p, right) \in Slots
         /\ Precedes(p, Following(p, right))
         /\ \A q \in Slots : Precedes(p, q) /\ InOrder(q, right) => InOrder(Following(p, right), q)
<1>1. /\ p \in Spots /\ p.rank \in Ranks /\ p.index >= 0 /\ p.index < n_all[p.rank]
      /\ right \in Spots /\ right.rank \in Ranks /\ right.index >= 0
      /\ right.index < n_all[right.rank]
  BY SlotsAre
<1>2. /\ p.rank \in Nat /\ p.rank <= P - 1 /\ right.rank \in Nat /\ right.rank <= P - 1
      /\ p.index \in Nat /\ right.index \in Nat /\ P \in Int
      /\ n_all[p.rank] \in Nat /\ n_all[right.rank] \in Nat
  BY <1>1, SizeAssumption DEF Ranks, Spots, Lengths
<1>3. CASE p.index + 1 <= n_all[p.rank] - 1
  <2>1. Following(p, right) = Slot(p.rank, p.index + 1)
    BY <1>3 DEF Following
  <2>2. Slot(p.rank, p.index + 1) \in Slots
    BY <1>1, <1>2, <1>3, SlotsAre
  <2>3. Precedes(p, Slot(p.rank, p.index + 1))
    BY <1>2 DEF Precedes, Slot
  <2>4. ASSUME NEW q \in Slots, Precedes(p, q) PROVE InOrder(Slot(p.rank, p.index + 1), q)
    <3>1. q \in Spots /\ q.rank \in Int /\ q.index \in Int
      BY SlotsAre DEF Spots
    <3>2. Slot(p.rank, p.index + 1) \in Spots
      BY <1>2 DEF Slot, Spots
    <3>3. \/ p.rank < q.rank
          \/ p.rank = q.rank /\ p.index + 1 < q.index
          \/ p.rank = q.rank /\ p.index + 1 = q.index
      BY <1>2, <2>4, <3>1 DEF Precedes
    <3>4. QED
      BY <3>1, <3>2, <3>3, SpotEquality DEF InOrder, Precedes, Slot
  <2>5. QED
    BY <2>1, <2>2, <2>3, <2>4
<1>4. CASE ~ (p.index + 1 <= n_all[p.rank] - 1)
  <2>1. p.rank < right.rank
    BY <1>1, <1>2, <1>4 DEF Precedes
  <2> DEFINE later == NonEmpty(p.rank + 1, right.rank)
  <2>2. right.rank \in later
    BY <1>1, <1>2, <2>1 DEF NonEmpty
  <2>3. PICK m : m = Min(later)
    OBVIOUS
  <2>4. /\ m \in (p.rank + 1)..right.rank /\ n_all[m] # 0
        /\ \A r \in (p.rank + 1)..right.rank : n_all[r] # 0 => m <= r
    BY <1>2, <2>2, <2>3, NonEmptyRanks
  <2>5. Following(p, right) = Slot(m, 0)
    BY <1>4, <2>2, <2>3 DEF Following
  <2>6. m \in Ranks /\ m > p.rank /\ m \in Int /\ n_all[m] \in Nat /\ n_all[m] > 0
    BY <1>2, <2>4 DEF Ranks, Lengths
  <2>7. Slot(m, 0) \in Slots
    BY <2>6, SlotsAre
  <2>8. Precedes(p, Slot(m, 0))
    BY <2>6 DEF Precedes, Slot
  <2>9. ASSUME NEW q \in Slots, Precedes(p, q), InOrder(q, right) PROVE InOrder(Slot(m, 0), q)
    <3>1. /\ q \in Spots /\ q.rank \in Ranks /\ q.index >= 0 /\ q.index < n_all[q.rank]
          /\ q.rank \in Int /\ q.index \in Int /\ n_all[q.rank] \in Nat
      BY SlotsAre DEF Spots, Lengths
    <3>2. p.rank < q.rank /\ q.rank <= right.rank
      BY <1>2, <1>4, <2>9, <3>1 DEF Precedes, InOrder
    <3>3. m <= q.rank
      BY <1>2, <2>4, <3>1, <3>2
    <3>4. m < q.rank \/ (m = q.rank /\ 0 < q.index) \/ (m = q.rank /\ 0 = q.index)
      BY <2>6, <3>1, <3>3
    <3>5. Slot(m, 0) \in Spots
      BY <2>6 DEF Slot, Spots
    <3>6. QED
      BY <3>1, <3>4, <3>5, SpotEquality DEF InOrder, Precedes, Slot
  <2>10. QED
    BY <2>5, <2>7, <2>8, <2>9
<1>5. QED
  BY <1>3, <1>4

\* What a call of api_isort() may be asked to sort.
Stretches == {part \in [left : Slots, right : Slots] : Precedes(part.left, part.right)}

\* The pivot is an element of the stretch's ranks, though some may be empty.
LEMMA PivotSlot ==
  ASSUME Lengths, NEW left \in Slots, NEW right \in Slots, Precedes(left, right)
  PROVE  /\ Pivot(left, right) \in Slots
         /\ InOrder(left, Pivot(left, right)) /\ InOrder(Pivot(left, right), right)
<1> DEFINE some == NonEmpty(left.rank, right.rank)
           middle == left.rank + (right.rank - left.rank) \div 2
<1>1. /\ left.rank \in Ranks /\ left.index >= 0 /\ left.index < n_all[left.rank]
      /\ right.rank \in Ranks /\ right.index >= 0 /\ right.index < n_all[right.rank]
      /\ left \in Spots /\ right \in Spots
  BY SlotsAre
<1>2. /\ left.rank \in Nat /\ left.rank <= P - 1 /\ right.rank \in Nat /\ right.rank <= P - 1
      /\ left.index \in Nat /\ right.index \in Nat /\ P \in Int
      /\ n_all[left.rank] \in Nat /\ n_all[right.rank] \in Nat
  BY <1>1, SizeAssumption DEF Ranks, Spots, Lengths
<1>3. left.rank <= right.rank
  BY <1>2 DEF Precedes
<1>4. middle \in left.rank..right.rank
  BY <1>2, <1>3
<1>5. PICK rank : rank = IF n_all[middle] # 0 THEN middle ELSE Min(some)
  OBVIOUS
<1>6. rank \in left.rank..right.rank /\ n_all[rank] # 0
  <2>1. CASE n_all[middle] # 0
    BY <1>4, <1>5, <2>1
  <2>2. CASE n_all[middle] = 0
    <3>1. left.rank \in some
      BY <1>1, <1>2, <1>3 DEF NonEmpty
    <3>2. Min(some) \in left.rank..right.rank /\ n_all[Min(some)] # 0
      BY <1>2, <3>1, NonEmptyRanks
    <3>3. QED
      BY <1>5, <2>2, <3>2
  <2>3. QED
    BY <2>1, <2>2
<1>7. PICK index : index =
        CASE left.rank = right.rank -> left.index + (right.index - left.index) \div 2
          [] left.rank # right.rank /\ rank = left.rank ->
               left.index + (n_all[rank] - 1 - left.index) \div 2
          [] left.rank # right.rank /\ rank # left.rank /\ rank = right.rank ->
               right.index \div 2
          [] OTHER -> (n_all[rank] - 1) \div 2
  OBVIOUS
<1>8. Pivot(left, right) = Slot(rank, index)
  BY <1>5, <1>7 DEF Pivot
<1>9. rank \in Ranks /\ n_all[rank] \in Nat
  BY <1>2, <1>6 DEF Ranks, Lengths
<1>10. /\ index \in Int /\ index >= 0 /\ index < n_all[rank]
       /\ rank = left.rank => left.index <= index
       /\ rank = right.rank => index <= right.index
  <2>1. CASE left.rank = right.rank
    <3>1. rank = left.rank /\ left.index < right.index
      BY <1>2, <1>6, <2>1 DEF Precedes
    <3>2. index = left.index + (right.index - left.index) \div 2
      BY <1>7, <2>1
    <3>3. QED
      BY <1>1, <1>2, <2>1, <3>1, <3>2
  <2>2. CASE left.rank # right.rank /\ rank = left.rank
    <3>1. index = left.index + (n_all[rank] - 1 - left.index) \div 2
      BY <1>7, <2>2
    <3>2. QED
      BY <1>1, <1>2, <2>2, <3>1
  <2>3. CASE left.rank # right.rank /\ rank # left.rank /\ rank = right.rank
    <3>1. index = right.index \div 2
      BY <1>7, <2>3
    <3>2. QED
      BY <1>1, <1>2, <2>3, <3>1
  <2>4. CASE left.rank # right.rank /\ rank # left.rank /\ rank # right.rank
    <3>1. index = (n_all[rank] - 1) \div 2
      BY <1>7, <2>4
    <3>2. QED
      BY <1>6, <1>9, <2>4, <3>1
  <2>5. QED
    BY <2>1, <2>2, <2>3, <2>4
<1>11. Slot(rank, index) \in Slots
  BY <1>9, <1>10, SlotsAre
<1>12. InOrder(left, Slot(rank, index)) /\ InOrder(Slot(rank, index), right)
  <2>1. Slot(rank, index) \in Spots
    BY <1>11, SlotsAre
  <2>2. rank \in Int /\ left.rank <= rank /\ rank <= right.rank
    BY <1>2, <1>6
  <2>3. InOrder(left, Slot(rank, index))
    <3>1. CASE left.rank = rank /\ left.index = index
      BY <1>1, <2>1, <3>1, SpotEquality DEF InOrder, Slot
    <3>2. CASE ~ (left.rank = rank /\ left.index = index)
      BY <1>2, <1>10, <2>2, <3>2 DEF InOrder, Precedes, Slot
    <3>3. QED
      BY <3>1, <3>2
  <2>4. InOrder(Slot(rank, index), right)
    <3>1. CASE right.rank = rank /\ right.index = index
      BY <1>1, <2>1, <3>1, SpotEquality DEF InOrder, Slot
    <3>2. CASE ~ (right.rank = rank /\ right.index = index)
      BY <1>2, <1>10, <2>2, <3>2 DEF InOrder, Precedes, Slot
    <3>3. QED
      BY <3>1, <3>2
  <2>5. QED
    BY <2>3, <2>4
<1>13. QED
  BY <1>8, <1>11, <1>12

LEMMA RecursionType ==
  ASSUME NEW left \in Slots, NEW right \in Slots
  PROVE  Recursion(left, right) \in Seq(Stretches)
<1>1. CASE Precedes(left, right)
  <2>1. Stretch(left, right) \in Stretches
    BY <1>1 DEF Stretch, Stretches
  <2>2. QED
    BY <1>1, <2>1 DEF Recursion
<1>2. CASE ~ Precedes(left, right)
  BY <1>2 DEF Recursion
<1>3. QED
  BY <1>1, <1>2

\* The recursive calls keep to slots, at the ends of a block and past empty ranks.
LEMMA PartsType ==
  ASSUME Lengths, NEW left \in Slots, NEW right \in Slots, NEW ret \in Slots
  PROVE  Parts(left, right, ret) \in Seq(Stretches)
<1>1. /\ ret \in Spots /\ ret.rank \in Ranks /\ ret.index >= 0 /\ ret.index < n_all[ret.rank]
      /\ left \in Spots /\ left.rank \in Ranks /\ right \in Spots /\ right.rank \in Ranks
  BY SlotsAre
<1>2. /\ ret.rank \in Nat /\ ret.index \in Nat /\ n_all[ret.rank] \in Nat
      /\ left.rank \in Nat /\ right.rank \in Nat /\ right.rank <= P - 1 /\ ret.rank <= P - 1
      /\ P \in Int
  BY <1>1, SizeAssumption DEF Ranks, Spots, Lengths
<1>3. LeftPart(left, ret) \in Seq(Stretches)
  <2>1. CASE ret.index # 0
    <3>1. Slot(ret.rank, ret.index - 1) \in Slots
      BY <1>1, <1>2, <2>1, SlotsAre
    <3>2. QED
      BY <2>1, <3>1, RecursionType DEF LeftPart
  <2>2. CASE ret.index = 0 /\ NonEmpty(left.rank, ret.rank - 1) # {}
    <3>1. PICK m : m = Max(NonEmpty(left.rank, ret.rank - 1))
      OBVIOUS
    <3>2. m \in left.rank..(ret.rank - 1) /\ n_all[m] # 0
      BY <1>2, <2>2, <3>1, NonEmptyRanks
    <3>3. m \in Ranks /\ n_all[m] \in Nat
      BY <1>2, <3>2 DEF Ranks, Lengths
    <3>4. n_all[m] - 1 \in Int /\ n_all[m] - 1 >= 0 /\ n_all[m] - 1 < n_all[m]
      BY <3>2, <3>3
    <3>5. LastSlot(m) \in Slots
      BY <3>3, <3>4, SlotsAre DEF LastSlot
    <3>6. LeftPart(left, ret) = Recursion(left, LastSlot(m))
      BY <2>2, <3>1 DEF LeftPart
    <3>7. QED
      BY <3>5, <3>6, RecursionType
  <2>3. CASE ret.index = 0 /\ NonEmpty(left.rank, ret.rank - 1) = {}
    BY <2>3 DEF LeftPart
  <2>4. QED
    BY <2>1, <2>2, <2>3
<1>4. RightPart(right, ret) \in Seq(Stretches)
  <2>1. CASE ret.index # n_all[ret.rank] - 1
    <3>1. Slot(ret.rank, ret.index + 1) \in Slots
      <4>1. ret.index + 1 \in Int /\ ret.index + 1 >= 0 /\ ret.index + 1 < n_all[ret.rank]
        BY <1>1, <1>2, <2>1
      <4>2. QED
        BY <1>1, <4>1, SlotsAre
    <3>2. QED
      BY <2>1, <3>1, RecursionType DEF RightPart
  <2>2. CASE ret.index = n_all[ret.rank] - 1 /\ NonEmpty(ret.rank + 1, right.rank) # {}
    <3>1. PICK m : m = Min(NonEmpty(ret.rank + 1, right.rank))
      OBVIOUS
    <3>2. m \in (ret.rank + 1)..right.rank /\ n_all[m] # 0
      BY <1>2, <2>2, <3>1, NonEmptyRanks
    <3>3. m \in Ranks /\ n_all[m] \in Nat
      BY <1>2, <3>2 DEF Ranks, Lengths
    <3>4. Slot(m, 0) \in Slots
      BY <3>2, <3>3, SlotsAre
    <3>5. RightPart(right, ret) = Recursion(Slot(m, 0), right)
      BY <2>2, <3>1 DEF RightPart
    <3>6. QED
      BY <3>4, <3>5, RecursionType
  <2>3. CASE ret.index = n_all[ret.rank] - 1 /\ NonEmpty(ret.rank + 1, right.rank) = {}
    BY <2>3 DEF RightPart
  <2>4. QED
    BY <2>1, <2>2, <2>3
<1>5. QED
  BY <1>3, <1>4 DEF Parts

------------------------------------------------------------------------------
(* The blocks that are sorted.                                             *)

\* What is left of a vector without its missing values is a vector.
LEMMA NotMissingType ==
  ASSUME NEW x \in Seq(Values)
  PROVE  NotMissing(x) \in Seq(Int)
<1> DEFINE next(f, k) == IF k = 0 THEN <<>> ELSE IF x[k] = NA THEN f[k - 1] ELSE Append(f[k - 1], x[k])
           Kept(n) == \E f : f = [k \in 0..n |-> next(f, k)]
           T == {n \in Nat : n <= Len(x) => Kept(n)}
<1>1. Len(x) \in Nat /\ \A k \in 1..Len(x) : x[k] \in Values
  OBVIOUS
<1>2. 0 \in T
  <2>1. [k \in 0..0 |-> <<>>] = [k \in 0..0 |-> next([j \in 0..0 |-> <<>>], k)]
    OBVIOUS
  <2>2. QED
    BY <2>1
<1>3. ASSUME NEW n \in Nat, n \in T PROVE n + 1 \in T
  <2>1. SUFFICES ASSUME n + 1 <= Len(x) PROVE Kept(n + 1)
    <3> HIDE DEF Kept
    <3>1. QED
      OBVIOUS
  <2>2. n <= Len(x)
    BY <1>1, <2>1
  <2>3. PICK f : f = [k \in 0..n |-> next(f, k)]
    BY <1>3, <2>2
  <2> DEFINE g == [k \in 0..(n + 1) |-> IF k <= n THEN f[k] ELSE next(f, k)]
  <2>4. ASSUME NEW k \in 0..(n + 1) PROVE g[k] = next(g, k)
    <3>1. CASE k = 0
      <4>1. g[k] = f[0] /\ f[0] = <<>>
        BY <2>3, <3>1
      <4>2. QED
        BY <3>1, <4>1
    <3>2. CASE k # 0
      <4>1. k - 1 \in 0..n /\ k - 1 <= n /\ k - 1 \in 0..(n + 1)
        BY <3>2
      <4>2. g[k - 1] = f[k - 1]
        BY <4>1
      <4>3. g[k] = next(f, k)
        <5>1. CASE k <= n
          <6>1. k \in 0..n
            BY <5>1
          <6>2. f[k] = next(f, k)
            BY <2>3, <6>1
          <6>3. QED
            BY <5>1, <6>2
        <5>2. CASE ~ (k <= n)
          BY <5>2
        <5>3. QED
          BY <5>1, <5>2
      <4>4. QED
        BY <3>2, <4>2, <4>3
    <3>3. QED
      BY <3>1, <3>2
  <2>5. g = [k \in 0..(n + 1) |-> next(g, k)]
    <3>1. g = [k \in 0..(n + 1) |-> g[k]]
      OBVIOUS
    <3> HIDE DEF g, next
    <3>2. QED
      BY <2>4, <3>1
  <2>6. QED
    BY <2>5
<1>4. Len(x) \in T
  <2> HIDE DEF T
  <2>1. QED
    BY <1>1, <1>2, <1>3, SetInductionNat
<1>5. PICK kept : /\ kept = [k \in 0..Len(x) |-> next(kept, k)]
                  /\ NotMissing(x) = kept[Len(x)]
  <2>1. \E f : f = [k \in 0..Len(x) |-> next(f, k)]
    BY <1>1, <1>4
  <2>2. QED
    BY <2>1 DEF NotMissing
<1> DEFINE U == {n \in Nat : n <= Len(x) => kept[n] \in Seq(Int)}
<1>6. 0 \in U
  <2>1. 0 \in 0..Len(x)
    BY <1>1
  <2>2. kept[0] = <<>>
    BY <1>5, <2>1
  <2>3. << >> \in Seq(Int)
    OBVIOUS
  <2>4. kept[0] \in Seq(Int)
    BY <2>2, <2>3
  <2>5. QED
    BY <2>4
<1>7. ASSUME NEW n \in Nat, n \in U PROVE n + 1 \in U
  <2>1. SUFFICES ASSUME n + 1 <= Len(x) PROVE kept[n + 1] \in Seq(Int)
    OBVIOUS
  <2>2. n + 1 \in 1..Len(x) /\ n + 1 \in 0..Len(x) /\ n + 1 # 0 /\ (n + 1) - 1 = n
    BY <1>1, <2>1
  <2>3. kept[n] \in Seq(Int) /\ (x[n + 1] = NA \/ x[n + 1] \in Int)
    BY <1>1, <1>7, <2>1, <2>2 DEF Values
  <2>4. kept[n + 1] = IF x[n + 1] = NA THEN kept[n] ELSE Append(kept[n], x[n + 1])
    BY <1>5, <2>2
  <2>5. QED
    BY <2>3, <2>4
<1>8. Len(x) \in U
  <2> HIDE DEF U
  <2>1. QED
    BY <1>1, <1>6, <1>7, SetInductionNat
<1>9. QED
  BY <1>1, <1>5, <1>8

LEMMA BlockType ==
  ASSUME NEW in \in Inputs, NEW r \in Ranks
  PROVE  Block(in, r) \in Seq(Values)
<1>1. in.x[r] \in Seq(Values)
  BY InputsAssumption
<1>2. NotMissing(in.x[r]) \in Seq(Values)
  BY <1>1, NotMissingType DEF Values
<1>3. QED
  BY <1>1, <1>2 DEF Block

------------------------------------------------------------------------------
(* The control of a rank.                                                  *)

Thens == {"scan", "next", "sort"}
Locals ==
  [pc : Places, todo : Seq(Stretches), left : Spots, right : Spots, i : Spots, ret : Spots,
   pivot : Values, from : Spots, to : Spots, then : Thens]

\* A rank in the loop of the partition, or in an exchange in it or after it.
Moving(l) == l.pc = "scan" \/ (l.pc \in {"swap", "await"} /\ l.then \in {"next", "sort"})

Within(l) ==
  /\ {l.left, l.right, l.from, l.to} \subseteq Slots
  /\ Precedes(l.left, l.right)

Ordered(l) ==
  /\ {l.i, l.ret} \subseteq Slots
  /\ InOrder(l.left, l.ret) /\ InOrder(l.ret, l.i) /\ InOrder(l.i, l.right)

\* LocalOK, with the types of all local variables.
LocalInv(l) ==
  /\ l \in Locals
  /\ l.pc = "sort" => l.todo # <<>>
  /\ l.pc \in {"scan", "swap", "await"} => Within(l)
  /\ Moving(l) => Ordered(l)
  /\ l.pc = "scan" \/ (l.pc \in {"swap", "await"} /\ l.then = "next") => l.i # l.right

LEMMA LocalInvSuffices ==
  ASSUME NEW l, LocalInv(l)
  PROVE  LocalOK(l)
<1>1. l \in Locals
  BY DEF LocalInv
<1>2. ASSUME NEW k \in 1..Len(l.todo) PROVE StretchOK(l.todo[k])
  <2>1. l.todo \in Seq(Stretches)
    BY <1>1 DEF Locals
  <2>2. l.todo[k] \in Stretches
    BY <2>1
  <2>3. QED
    BY <2>2 DEF Stretches, StretchOK
<1>3. l.pc \in Places /\ l.pivot \in Values
  BY <1>1 DEF Locals
<1>4. StretchOK(Stretch(l.left, l.right)) <=>
        l.left \in Slots /\ l.right \in Slots /\ Precedes(l.left, l.right)
  BY DEF StretchOK, Stretch
<1>5. QED
  BY <1>2, <1>3, <1>4 DEF LocalInv, LocalOK, Moving, Within, Ordered

\* Where a rank is outside of the partition.
LEMMA LocalStart ==
  ASSUME NEW pc \in {"enter", "sort", "done", "stopped", "undefined"},
         NEW todo \in Seq(Stretches), pc = "sort" => todo # <<>>
  PROVE  LocalInv(Local(pc, todo))
<1>1. Nowhere \in Spots /\ NA \in Values
  BY DEF Nowhere, Slot, Spots, Values
<1>2. PICK l : l = Local(pc, todo)
  OBVIOUS
<1>3. l \in Locals /\ l.pc = pc /\ l.todo = todo
  BY <1>1, <1>2 DEF Local, Locals, Places, Thens
<1>4. QED
  BY <1>2, <1>3 DEF LocalInv, Moving

LEMMA SortStep ==
  ASSUME NEW todo \in Seq(Stretches)
  PROVE  LocalInv(Sort(todo))
BY LocalStart DEF Sort

\* The exchange of the slots from and to of the stretch.
LEMMA ExchangeStep ==
  ASSUME NEW l \in Locals, NEW from \in Slots, NEW to \in Slots, NEW then \in Thens, Lengths,
         {l.left, l.right} \subseteq Slots, Precedes(l.left, l.right),
         then \in {"next", "sort"} => Ordered(l),
         then = "next" => l.i # l.right
  PROVE  LocalInv(Exchange(l, from, to, then))
<1>1. PICK m : m = Exchange(l, from, to, then)
  OBVIOUS
<1>2. from \in Spots /\ to \in Spots
  BY SlotsAre
<1>3. m \in Locals
  BY <1>1, <1>2 DEF Exchange, Locals, Places
<1>4. /\ m.pc = "swap" /\ m.from = from /\ m.to = to /\ m.then = then
      /\ m.left = l.left /\ m.right = l.right /\ m.i = l.i /\ m.ret = l.ret
  BY <1>1 DEF Exchange, Locals
<1>5. Within(m) /\ (Moving(m) => Ordered(m))
  BY <1>4 DEF Within, Moving, Ordered
<1>6. QED
  BY <1>1, <1>3, <1>4, <1>5 DEF LocalInv

LEMMA ScanStep ==
  ASSUME Lengths, NEW l \in Locals, Within(l), Ordered(l)
  PROVE  LocalInv(Scan(l))
<1>1. CASE l.i = l.right
  <2>1. LocalInv(Exchange(l, l.ret, l.right, "sort"))
    BY ExchangeStep DEF Within, Ordered, Thens
  <2>2. QED
    BY <1>1, <2>1 DEF Scan
<1>2. CASE l.i # l.right
  <2>1. PICK m : m = [l EXCEPT !.pc = "scan"]
    OBVIOUS
  <2>2. m \in Locals /\ m.pc = "scan"
    BY <2>1 DEF Locals, Places
  <2>3. /\ m.left = l.left /\ m.right = l.right /\ m.i = l.i /\ m.ret = l.ret
        /\ m.from = l.from /\ m.to = l.to
    BY <2>1 DEF Locals
  <2>4. Within(m) /\ Ordered(m)
    BY <2>3 DEF Within, Ordered
  <2>5. LocalInv(m)
    BY <1>2, <2>2, <2>3, <2>4 DEF LocalInv
  <2>6. QED
    BY <1>2, <2>1, <2>5 DEF Scan
<1>3. QED
  BY <1>1, <1>2

\* The element i moves on: it does not pass the end of the stretch.
LEMMA NextElement ==
  ASSUME Lengths, NEW l \in Locals, Within(l), Ordered(l), l.i # l.right
  PROVE  LET f == Following(l.i, l.right)
             g == Following(l.ret, l.right) IN
         /\ f \in Slots /\ InOrder(l.ret, f) /\ InOrder(f, l.right)
         /\ g \in Slots /\ InOrder(l.left, g) /\ InOrder(g, f)
<1>1. PICK f, g : f = Following(l.i, l.right) /\ g = Following(l.ret, l.right)
  OBVIOUS
<1>2. /\ l.left \in Slots /\ l.right \in Slots /\ l.i \in Slots /\ l.ret \in Slots
      /\ InOrder(l.left, l.ret) /\ InOrder(l.ret, l.i) /\ InOrder(l.i, l.right)
  BY DEF Within, Ordered
<1>3. /\ l.left \in Spots /\ l.right \in Spots /\ l.i \in Spots /\ l.ret \in Spots
  BY <1>2, SlotsAre
<1>4. Precedes(l.i, l.right)
  BY <1>2, <1>3 DEF InOrder
<1>5. Precedes(l.ret, l.right)
  BY <1>2, <1>3, <1>4, LinearOrder
<1>6. /\ f \in Slots /\ Precedes(l.i, f)
      /\ \A q \in Slots : Precedes(l.i, q) /\ InOrder(q, l.right) => InOrder(f, q)
  BY <1>1, <1>2, <1>4, FollowingSlot
<1>7. /\ g \in Slots /\ Precedes(l.ret, g)
      /\ \A q \in Slots : Precedes(l.ret, q) /\ InOrder(q, l.right) => InOrder(g, q)
  BY <1>1, <1>2, <1>5, FollowingSlot
<1>8. f \in Spots /\ g \in Spots
  BY <1>6, <1>7, SlotsAre
<1>9. InOrder(f, l.right)
  BY <1>2, <1>4, <1>6 DEF InOrder
<1>10. Precedes(l.ret, f)
  BY <1>2, <1>3, <1>6, <1>8, LinearOrder
<1>11. InOrder(g, f)
  BY <1>6, <1>7, <1>9, <1>10
<1>12. InOrder(l.left, g)
  BY <1>2, <1>3, <1>7, <1>8, LinearOrder DEF InOrder
<1>13. QED
  BY <1>1, <1>6, <1>7, <1>9, <1>10, <1>11, <1>12 DEF InOrder

\* What follows an exchange.
LEMMA ContinueStep ==
  ASSUME Lengths, NEW l, LocalInv(l), l.pc \in {"swap", "await"}
  PROVE  LocalInv(Continue(l))
<1>1. l \in Locals /\ Within(l) /\ l.then \in Thens
  BY DEF LocalInv, Locals
<1>2. CASE l.then = "scan"
  <2>1. PICK m : m = [l EXCEPT !.i = l.left, !.ret = l.left]
    OBVIOUS
  <2>2. m \in Locals
    BY <1>1, <2>1 DEF Locals
  <2>3. /\ m.left = l.left /\ m.right = l.right /\ m.i = l.left /\ m.ret = l.left
        /\ m.from = l.from /\ m.to = l.to
    BY <1>1, <2>1 DEF Locals
  <2>4. Within(m) /\ Ordered(m)
    BY <1>1, <2>3 DEF Within, Ordered, InOrder
  <2>5. Continue(l) = Scan(m)
    BY <1>2, <2>1 DEF Continue
  <2>6. QED
    BY <2>2, <2>4, <2>5, ScanStep
<1>3. CASE l.then = "next"
  <2>1. Ordered(l) /\ l.i # l.right
    BY <1>3 DEF LocalInv, Moving
  <2>2. PICK f, g : f = Following(l.i, l.right) /\ g = Following(l.ret, l.right)
    OBVIOUS
  <2>3. /\ f \in Slots /\ InOrder(f, l.right)
        /\ g \in Slots /\ InOrder(l.left, g) /\ InOrder(g, f)
    BY <1>1, <2>1, <2>2, NextElement
  <2>4. PICK m : m = [l EXCEPT !.i = f, !.ret = g]
    OBVIOUS
  <2>5. f \in Spots /\ g \in Spots
    BY <2>3, SlotsAre
  <2>6. m \in Locals
    BY <1>1, <2>4, <2>5 DEF Locals
  <2>7. /\ m.left = l.left /\ m.right = l.right /\ m.i = f /\ m.ret = g
        /\ m.from = l.from /\ m.to = l.to
    BY <1>1, <2>4 DEF Locals
  <2>8. Within(m) /\ Ordered(m)
    BY <1>1, <2>3, <2>7 DEF Within, Ordered
  <2>9. Continue(l) = Scan(m)
    BY <1>3, <2>2, <2>4 DEF Continue
  <2>10. QED
    BY <2>6, <2>8, <2>9, ScanStep
<1>4. CASE l.then = "sort"
  <2>1. Ordered(l)
    BY <1>4 DEF LocalInv, Moving
  <2>2. l.left \in Slots /\ l.right \in Slots /\ l.ret \in Slots
    BY <1>1, <2>1 DEF Within, Ordered
  <2>3. Parts(l.left, l.right, l.ret) \in Seq(Stretches)
    BY <2>2, PartsType
  <2>4. l.todo \in Seq(Stretches)
    BY <1>1 DEF Locals
  <2>5. Parts(l.left, l.right, l.ret) \o l.todo \in Seq(Stretches)
    BY <2>3, <2>4
  <2>6. Continue(l) = Sort(Parts(l.left, l.right, l.ret) \o l.todo)
    BY <1>4 DEF Continue
  <2>7. QED
    BY <2>5, <2>6, SortStep
<1>5. QED
  BY <1>1, <1>2, <1>3, <1>4 DEF Thens

LEMMA PartitionStep ==
  ASSUME Lengths, NEW l, LocalInv(l), l.pc = "sort", NEW value \in Values
  PROVE  /\ LocalInv(Partition(l, value))
         /\ Pivot(Head(l.todo).left, Head(l.todo).right) \in Slots
<1>1. l \in Locals /\ l.todo \in Seq(Stretches) /\ l.todo # <<>>
  BY DEF LocalInv, Locals
<1>2. PICK part : part = Head(l.todo)
  OBVIOUS
<1>3. part \in Stretches /\ Tail(l.todo) \in Seq(Stretches)
  BY <1>1, <1>2
<1>4. part.left \in Slots /\ part.right \in Slots /\ Precedes(part.left, part.right)
  BY <1>3 DEF Stretches
<1>5. Pivot(part.left, part.right) \in Slots
  BY <1>4, PivotSlot
<1>6. PICK m : m = [l EXCEPT !.todo = Tail(l.todo), !.left = part.left, !.right = part.right,
                             !.pivot = value]
  OBVIOUS
<1>7. part.left \in Spots /\ part.right \in Spots
  BY <1>4, SlotsAre
<1>8. m \in Locals
  BY <1>1, <1>3, <1>6, <1>7 DEF Locals
<1>9. m.left = part.left /\ m.right = part.right
  BY <1>1, <1>6 DEF Locals
<1>10. LocalInv(Exchange(m, Pivot(part.left, part.right), part.right, "scan"))
  BY <1>4, <1>5, <1>8, <1>9, ExchangeStep DEF Thens
<1>11. Partition(l, value) = Exchange(m, Pivot(part.left, part.right), part.right, "scan")
  BY <1>2, <1>6 DEF Partition
<1>12. QED
  BY <1>2, <1>5, <1>10, <1>11

LEMMA ComparedStep ==
  ASSUME Lengths, NEW l, LocalInv(l), l.pc = "scan", NEW check
  PROVE  LocalInv(Compared(l, check))
<1>1. l \in Locals /\ Within(l) /\ Ordered(l) /\ l.i # l.right
  BY DEF LocalInv, Moving
<1>2. CASE check = -1
  <2>1. l.i \in Slots /\ l.ret \in Slots
    BY <1>1 DEF Ordered
  <2>2. LocalInv(Exchange(l, l.i, l.ret, "next"))
    BY <1>1, <2>1, ExchangeStep DEF Within, Thens
  <2>3. QED
    BY <1>2, <2>2 DEF Compared
<1>3. CASE check # -1
  <2>1. PICK f : f = Following(l.i, l.right)
    OBVIOUS
  <2>2. f \in Slots /\ InOrder(l.ret, f) /\ InOrder(f, l.right)
    BY <1>1, <2>1, NextElement
  <2>3. PICK m : m = [l EXCEPT !.i = f]
    OBVIOUS
  <2>4. f \in Spots
    BY <2>2, SlotsAre
  <2>5. m \in Locals
    BY <1>1, <2>3, <2>4 DEF Locals
  <2>6. /\ m.left = l.left /\ m.right = l.right /\ m.i = f /\ m.ret = l.ret
        /\ m.from = l.from /\ m.to = l.to
    BY <1>1, <2>3 DEF Locals
  <2>7. Within(m) /\ Ordered(m)
    BY <1>1, <2>2, <2>6 DEF Within, Ordered
  <2>8. Compared(l, check) = Scan(m)
    BY <1>3, <2>1, <2>3 DEF Compared
  <2>9. QED
    BY <2>5, <2>7, <2>8, ScanStep
<1>4. QED
  BY <1>2, <1>3

LEMMA AwaitStep ==
  ASSUME NEW l, LocalInv(l), l.pc = "swap"
  PROVE  LocalInv([l EXCEPT !.pc = "await"])
<1>1. PICK m : m = [l EXCEPT !.pc = "await"]
  OBVIOUS
<1>2. l \in Locals /\ Within(l)
  BY DEF LocalInv
<1>3. m \in Locals /\ m.pc = "await"
  BY <1>1, <1>2 DEF Locals, Places
<1>4. /\ m.left = l.left /\ m.right = l.right /\ m.i = l.i /\ m.ret = l.ret
      /\ m.from = l.from /\ m.to = l.to /\ m.then = l.then
  BY <1>1, <1>2 DEF Locals
<1>5. Within(m) /\ (Moving(m) <=> Moving(l)) /\ (Ordered(m) <=> Ordered(l))
  BY <1>2, <1>3, <1>4 DEF Within, Moving, Ordered
<1>6. QED
  BY <1>1, <1>3, <1>4, <1>5 DEF LocalInv

------------------------------------------------------------------------------
(* The ranks.                                                              *)

Broadcasts == [root : Ranks, value : Values]
Elements == [value : Values, from : Slots, to : Slots]

SortInv ==
  /\ Lengths
  /\ array \in [Slots -> Values]
  /\ at \in [Ranks -> Locals]
  /\ \A r \in Ranks : LocalInv(at[r])
  /\ bcast \in [Ranks -> Seq(Broadcasts)]
  /\ channel \in [Ranks -> [Ranks -> Seq(Elements)]]

\* The slots stay as they are while n_all does.
LEMMA SameSlots ==
  ASSUME n_all' = n_all
  PROVE  /\ Lengths' <=> Lengths
         /\ Slots' = Slots /\ Stretches' = Stretches /\ Locals' = Locals
         /\ Elements' = Elements
<1>1. Slots' = Slots
  BY DEF Slots
<1>2. QED
  BY <1>1 DEF Lengths, Stretches, Locals, Elements

\* A step of rank r that leaves it in the local state m.
LEMMA OneMoves ==
  ASSUME SortInv, n_all' = n_all, NEW r \in Ranks, NEW m, LocalInv(m), at' = Set(at, r, m),
         array' \in [Slots -> Values], bcast' \in [Ranks -> Seq(Broadcasts)],
         channel' \in [Ranks -> [Ranks -> Seq(Elements)]]
  PROVE  SortInv'
<1>1. /\ Lengths' /\ Slots' = Slots /\ Stretches' = Stretches /\ Locals' = Locals
      /\ Elements' = Elements
  BY SameSlots DEF SortInv
<1>2. m \in Locals /\ at \in [Ranks -> Locals]
  BY DEF SortInv, LocalInv
<1>3. at' \in [Ranks -> Locals]
  BY <1>2 DEF Set
<1>4. ASSUME NEW q \in Ranks PROVE LocalInv(at'[q])
  BY <1>2 DEF Set, SortInv
<1>5. ASSUME NEW q \in Ranks PROVE LocalInv(at[q])'
  <2>1. PICK l : l = at'[q]
    OBVIOUS
  <2>2. LocalInv(l)
    BY <1>4, <2>1
  <2>3. QED
    BY <1>1, <2>1, <2>2 DEF LocalInv, Within, Ordered, Moving
<1>6. QED
  BY <1>1, <1>3, <1>5 DEF SortInv, Broadcasts

\* A broadcast by its root r, and at another rank.
LEMMA TellType ==
  ASSUME SortInv, NEW r \in Ranks, NEW v \in Values, Tell(r, v)
  PROVE  bcast' \in [Ranks -> Seq(Broadcasts)]
<1>1. [root |-> r, value |-> v] \in Broadcasts
  BY DEF Broadcasts
<1>2. PICK b : b = [root |-> r, value |-> v]
  OBVIOUS
<1>3. \A q \in Ranks : bcast[q] \in Seq(Broadcasts)
  BY DEF SortInv
<1>4. \A q \in Ranks : Append(bcast[q], b) \in Seq(Broadcasts)
  BY <1>1, <1>2, <1>3
<1>5. bcast' = [q \in Ranks |-> IF q = r THEN <<>> ELSE Append(bcast[q], b)]
  BY <1>2 DEF Tell
<1>6. << >> \in Seq(Broadcasts)
  OBVIOUS
<1>7. QED
  BY <1>4, <1>5, <1>6

LEMMA HearType ==
  ASSUME SortInv, NEW r \in Ranks, bcast[r] # <<>>, Hear(r)
  PROVE  bcast' \in [Ranks -> Seq(Broadcasts)] /\ Head(bcast[r]).value \in Values
<1>1. bcast[r] \in Seq(Broadcasts) /\ bcast \in [Ranks -> Seq(Broadcasts)]
  BY DEF SortInv
<1>2. Head(bcast[r]) \in Broadcasts /\ Tail(bcast[r]) \in Seq(Broadcasts)
  BY <1>1
<1>3. QED
  BY <1>1, <1>2 DEF Hear, Set, Broadcasts

\* A comparison is a number, whatever is compared.
LEMMA CompareType ==
  ASSUME NEW a \in Values, NEW b \in Values
  PROVE  Compare(a, b) \in Values
<1>1. Increasing(a, b) \in Int
  BY DEF Increasing, Values
<1>2. QED
  BY <1>1 DEF Compare, Values

LEMMA TellPivotStep ==
  ASSUME SortInv, NEW r \in Ranks, TellPivot(r)
  PROVE  SortInv'
<1>1. LocalInv(at[r]) /\ at[r].pc = "sort" /\ Lengths
  BY DEF SortInv, TellPivot
<1>2. NextPivot(r) \in Slots
  BY <1>1, PartitionStep, NAAssumption DEF NextPivot, Values
<1>3. array[NextPivot(r)] \in Values
  BY <1>2 DEF SortInv
<1>4. LocalInv(Partition(at[r], array[NextPivot(r)]))
  BY <1>1, <1>3, PartitionStep
<1>5. bcast' \in [Ranks -> Seq(Broadcasts)]
  BY <1>3, TellType DEF TellPivot
<1>6. QED
  BY <1>4, <1>5, OneMoves DEF TellPivot, SortInv

LEMMA HearPivotStep ==
  ASSUME SortInv, NEW r \in Ranks, HearPivot(r)
  PROVE  SortInv'
<1>1. LocalInv(at[r]) /\ at[r].pc = "sort" /\ Lengths
  BY DEF SortInv, HearPivot
<1>2. bcast' \in [Ranks -> Seq(Broadcasts)] /\ Head(bcast[r]).value \in Values
  BY HearType DEF HearPivot, Hears
<1>3. LocalInv(Partition(at[r], Head(bcast[r]).value))
  BY <1>1, <1>2, PartitionStep
<1>4. QED
  BY <1>2, <1>3, OneMoves DEF HearPivot, SortInv

LEMMA TellCheckStep ==
  ASSUME SortInv, NEW r \in Ranks, TellCheck(r)
  PROVE  SortInv'
<1>1. LocalInv(at[r]) /\ at[r].pc = "scan" /\ Lengths
  BY DEF SortInv, TellCheck
<1>2. at[r].i \in Slots /\ at[r].pivot \in Values
  BY <1>1 DEF LocalInv, Moving, Ordered, Locals
<1>3. PICK check : check = Compare(array[at[r].i], at[r].pivot)
  OBVIOUS
<1>4. check \in Values
  BY <1>2, <1>3, CompareType DEF SortInv
<1>5. LocalInv(Compared(at[r], check))
  BY <1>1, ComparedStep
<1>6. bcast' \in [Ranks -> Seq(Broadcasts)]
  BY <1>3, <1>4, TellType DEF TellCheck
<1>7. at' = Set(at, r, Compared(at[r], check)) /\ UNCHANGED <<n_all, array, channel>>
  BY <1>3 DEF TellCheck
<1>8. QED
  BY <1>5, <1>6, <1>7, OneMoves DEF SortInv

LEMMA HearCheckStep ==
  ASSUME SortInv, NEW r \in Ranks, HearCheck(r)
  PROVE  SortInv'
<1>1. LocalInv(at[r]) /\ at[r].pc = "scan" /\ Lengths
  BY DEF SortInv, HearCheck
<1>2. bcast' \in [Ranks -> Seq(Broadcasts)]
  BY HearType DEF HearCheck, Hears
<1>3. LocalInv(Compared(at[r], Head(bcast[r]).value))
  BY <1>1, ComparedStep
<1>4. QED
  BY <1>2, <1>3, OneMoves DEF HearCheck, SortInv

\* The two slots of an exchange.
LEMMA ExchangedSlots ==
  ASSUME SortInv, NEW r \in Ranks, at[r].pc \in {"swap", "await"}
  PROVE  /\ at[r].from \in Slots /\ at[r].to \in Slots
         /\ at[r].from.rank \in Ranks /\ at[r].to.rank \in Ranks
         /\ LocalInv(Continue(at[r]))
<1>1. LocalInv(at[r]) /\ Lengths
  BY DEF SortInv
<1>2. at[r].from \in Slots /\ at[r].to \in Slots
  BY <1>1 DEF LocalInv, Within
<1>3. QED
  BY <1>1, <1>2, SlotsAre, ContinueStep

LEMMA SwapAtHomeStep ==
  ASSUME SortInv, NEW r \in Ranks, SwapAtHome(r)
  PROVE  SortInv'
<1>1. /\ at[r].from \in Slots /\ at[r].to \in Slots /\ LocalInv(Continue(at[r]))
      /\ at' = Set(at, r, Continue(at[r])) /\ UNCHANGED <<n_all, bcast, channel>>
  BY ExchangedSlots DEF SwapAtHome
<1>2. array' \in [Slots -> Values]
  BY <1>1 DEF SwapAtHome, SortInv
<1>3. QED
  BY <1>1, <1>2, OneMoves DEF SortInv

LEMMA GiveStep ==
  ASSUME SortInv, NEW r \in Ranks, Give(r)
  PROVE  SortInv'
<1>1. /\ at[r].from \in Slots /\ at[r].to \in Slots /\ at[r].to.rank \in Ranks
      /\ LocalInv([at[r] EXCEPT !.pc = "await"])
  BY ExchangedSlots, AwaitStep DEF Give, SortInv
<1>2. PICK d, e : d = at[r].to.rank /\ e = Element(array[at[r].from], at[r])
  OBVIOUS
<1>3. /\ channel' = [channel EXCEPT ![r][d] = Append(@, e)]
      /\ at' = Set(at, r, [at[r] EXCEPT !.pc = "await"]) /\ UNCHANGED <<n_all, array, bcast>>
  BY <1>2 DEF Give
<1>4. e \in Elements
  BY <1>1, <1>2 DEF Element, Elements, SortInv
<1>5. channel \in [Ranks -> [Ranks -> Seq(Elements)]] /\ d \in Ranks
  BY <1>1, <1>2 DEF SortInv
<1>6. Append(channel[r][d], e) \in Seq(Elements)
  BY <1>4, <1>5
<1>7. channel' \in [Ranks -> [Ranks -> Seq(Elements)]]
  BY <1>3, <1>5, <1>6
<1>8. QED
  BY <1>1, <1>3, <1>7, OneMoves DEF SortInv

LEMMA AnswerStep ==
  ASSUME SortInv, NEW r \in Ranks, Answer(r)
  PROVE  SortInv'
<1>1. /\ at[r].from \in Slots /\ at[r].to \in Slots /\ at[r].from.rank \in Ranks
      /\ LocalInv(Continue(at[r]))
  BY ExchangedSlots DEF Answer
<1>2. PICK s, e : s = at[r].from.rank /\ e = Element(array[at[r].to], at[r])
  OBVIOUS
<1>3. /\ s # r /\ channel[s][r] # <<>>
      /\ channel' = [channel EXCEPT ![s][r] = Tail(@), ![r][s] = Append(@, e)]
      /\ array' = [array EXCEPT ![at[r].to] = Head(channel[s][r]).value]
      /\ at' = Set(at, r, Continue(at[r])) /\ UNCHANGED <<n_all, bcast>>
  BY <1>2 DEF Answer
<1>4. e \in Elements
  BY <1>1, <1>2 DEF Element, Elements, SortInv
<1>5. /\ channel \in [Ranks -> [Ranks -> Seq(Elements)]] /\ s \in Ranks
      /\ channel[s][r] \in Seq(Elements)
  BY <1>1, <1>2 DEF SortInv
<1>6. /\ Append(channel[r][s], e) \in Seq(Elements)
      /\ Head(channel[s][r]) \in Elements /\ Tail(channel[s][r]) \in Seq(Elements)
  BY <1>3, <1>4, <1>5
<1>7. channel' \in [Ranks -> [Ranks -> Seq(Elements)]]
  BY <1>3, <1>5, <1>6
<1>8. array' \in [Slots -> Values]
  BY <1>1, <1>3, <1>6 DEF SortInv, Elements
<1>9. QED
  BY <1>1, <1>3, <1>7, <1>8, OneMoves DEF SortInv

LEMMA TakeStep ==
  ASSUME SortInv, NEW r \in Ranks, Take(r)
  PROVE  SortInv'
<1>1. /\ at[r].from \in Slots /\ at[r].to.rank \in Ranks /\ LocalInv(Continue(at[r]))
  BY ExchangedSlots DEF Take
<1>2. PICK s : s = at[r].to.rank
  OBVIOUS
<1>3. /\ channel[s][r] # <<>>
      /\ channel' = [channel EXCEPT ![s][r] = Tail(@)]
      /\ array' = [array EXCEPT ![at[r].from] = Head(channel[s][r]).value]
      /\ at' = Set(at, r, Continue(at[r])) /\ UNCHANGED <<n_all, bcast>>
  BY <1>2 DEF Take
<1>4. /\ channel \in [Ranks -> [Ranks -> Seq(Elements)]] /\ s \in Ranks
      /\ channel[s][r] \in Seq(Elements)
  BY <1>1, <1>2 DEF SortInv
<1>5. Head(channel[s][r]) \in Elements /\ Tail(channel[s][r]) \in Seq(Elements)
  BY <1>3, <1>4
<1>6. channel' \in [Ranks -> [Ranks -> Seq(Elements)]]
  BY <1>3, <1>4, <1>5
<1>7. array' \in [Slots -> Values]
  BY <1>1, <1>3, <1>5 DEF SortInv, Elements
<1>8. QED
  BY <1>1, <1>3, <1>6, <1>7, OneMoves DEF SortInv

\* The ranks begin together, with the stretch from the first to the last element.
LEMMA EnterStep ==
  ASSUME SortInv, Enter
  PROVE  SortInv'
<1> DEFINE all == NonEmpty(0, P - 1)
           start == IF all = {} THEN Local(IF P = 1 THEN "done" ELSE "undefined", <<>>)
                    ELSE Sort(Recursion(Slot(Min(all), 0), LastSlot(Max(all))))
<1>1. Lengths /\ UNCHANGED <<n_all, array, bcast, channel>>
  BY DEF SortInv, Enter
<1>2. LocalInv(start)
  <2>1. CASE all = {}
    <3>1. << >> \in Seq(Stretches)
      OBVIOUS
    <3>2. QED
      BY <2>1, <3>1, LocalStart
  <2>2. CASE all # {}
    <3>1. PICK lo, hi : lo = Min(all) /\ hi = Max(all)
      OBVIOUS
    <3>2. lo \in Ranks /\ n_all[lo] # 0 /\ hi \in Ranks /\ n_all[hi] # 0
      BY <1>1, <2>2, <3>1, NonEmptyRanks, SizeAssumption DEF Ranks
    <3>3. n_all[lo] \in Nat /\ n_all[hi] \in Nat
      BY <1>1, <3>2 DEF Lengths
    <3>4. n_all[hi] - 1 \in Int /\ n_all[hi] - 1 >= 0 /\ n_all[hi] - 1 < n_all[hi]
      BY <3>2, <3>3
    <3>5. Slot(lo, 0) \in Slots /\ LastSlot(hi) \in Slots
      BY <1>1, <3>2, <3>3, <3>4, SlotsAre DEF LastSlot
    <3>6. Recursion(Slot(lo, 0), LastSlot(hi)) \in Seq(Stretches)
      BY <3>5, RecursionType
    <3>7. QED
      BY <2>2, <3>1, <3>6, SortStep
  <2>3. QED
    BY <2>1, <2>2
<1>3. LocalInv(Local("stopped", <<>>))
  <2>1. << >> \in Seq(Stretches)
    OBVIOUS
  <2>2. QED
    BY <2>1, LocalStart
<1>4. PICK stopped, begun : stopped = Local("stopped", <<>>) /\ begun = start
  OBVIOUS
<1>5. at' = [r \in Ranks |-> IF Stops(r) THEN stopped
                            ELSE IF \E q \in Ranks : Stops(q) THEN at[r] ELSE begun]
  BY <1>4 DEF Enter
<1>6. ASSUME NEW r \in Ranks PROVE at'[r] \in {stopped, begun, at[r]} /\ LocalInv(at'[r])
  <2>1. at'[r] \in {stopped, begun, at[r]}
    BY <1>5
  <2>2. LocalInv(stopped) /\ LocalInv(begun) /\ LocalInv(at[r])
    BY <1>2, <1>3, <1>4 DEF SortInv
  <2>3. QED
    BY <2>1, <2>2
<1>7. at' \in [Ranks -> Locals]
  BY <1>5, <1>6 DEF LocalInv
<1>8. /\ Lengths' /\ Slots' = Slots /\ Stretches' = Stretches /\ Locals' = Locals
      /\ Elements' = Elements
  BY <1>1, SameSlots
<1>9. ASSUME NEW r \in Ranks PROVE LocalInv(at[r])'
  <2>1. PICK l : l = at'[r]
    OBVIOUS
  <2>2. LocalInv(l)
    BY <1>6, <2>1
  <2>3. QED
    BY <1>8, <2>1, <2>2 DEF LocalInv, Within, Ordered, Moving
<1>10. QED
  BY <1>1, <1>7, <1>8, <1>9 DEF SortInv, Broadcasts

LEMMA SortInit == Init => SortInv
<1>1. SUFFICES ASSUME Init PROVE SortInv
  OBVIOUS
<1>2. input \in Inputs /\ n_all = [r \in Ranks |-> Len(Block(input, r))]
  BY <1>1 DEF Init
<1>3. ASSUME NEW r \in Ranks
      PROVE  /\ Block(input, r) \in Seq(Values) /\ n_all[r] = Len(Block(input, r))
             /\ Len(Block(input, r)) \in Nat
  <2>1. Block(input, r) \in Seq(Values)
    BY <1>2, BlockType
  <2>2. QED
    BY <1>2, <2>1
<1>4. Lengths
  BY <1>2, <1>3 DEF Lengths
<1>5. ASSUME NEW p \in Slots PROVE Block(input, p.rank)[p.index + 1] \in Values
  <2>1. /\ p.rank \in Ranks /\ p.index \in Int /\ p.index >= 0 /\ p.index < n_all[p.rank]
    BY <1>4, SlotsAre DEF Spots
  <2>2. PICK b : b = Block(input, p.rank)
    OBVIOUS
  <2>3. b \in Seq(Values) /\ p.index + 1 \in 1..Len(b)
    BY <1>3, <2>1, <2>2
  <2>4. QED
    BY <2>2, <2>3
<1>6. array \in [Slots -> Values]
  BY <1>1, <1>5 DEF Init
<1>7. LocalInv(Local("enter", <<>>))
  <2>1. << >> \in Seq(Stretches)
    OBVIOUS
  <2>2. QED
    BY <2>1, LocalStart
<1>8. PICK l : l = Local("enter", <<>>)
  OBVIOUS
<1>9. at = [r \in Ranks |-> l] /\ LocalInv(l) /\ l \in Locals
  BY <1>1, <1>7, <1>8 DEF Init, LocalInv
<1>10. /\ bcast \in [Ranks -> Seq(Broadcasts)]
       /\ channel \in [Ranks -> [Ranks -> Seq(Elements)]]
  BY <1>1 DEF Init
<1>11. QED
  BY <1>4, <1>6, <1>9, <1>10 DEF SortInv

LEMMA SortInvStep ==
  ASSUME SortInv, [Next]_vars
  PROVE  SortInv'
<1>1. CASE UNCHANGED vars
  <2>1. UNCHANGED <<n_all, array, at, bcast, channel>>
    BY <1>1 DEF vars
  <2>2. /\ Lengths' <=> Lengths
        /\ Slots' = Slots /\ Stretches' = Stretches /\ Locals' = Locals /\ Elements' = Elements
    BY <2>1, SameSlots
  <2>3. ASSUME NEW r \in Ranks PROVE LocalInv(at[r])'
    BY <2>1, <2>2 DEF SortInv, LocalInv, Within, Ordered, Moving
  <2>4. QED
    BY <2>1, <2>2, <2>3 DEF SortInv, Broadcasts
<1>2. QED
  BY <1>1, EnterStep, TellPivotStep, HearPivotStep, TellCheckStep, HearCheckStep, SwapAtHomeStep,
     GiveStep, AnswerStep, TakeStep DEF Next, Step, Terminating

\* Whatever the number of ranks, their blocks and the elements: no rank ever
\* names a slot that does not exist, in a comparison, an exchange or a recursive
\* call, the boundary of a partition never overtakes the element looked at, and
\* neither leaves the stretch, past empty ranks or not.
THEOREM IndicesStayInside == Spec => []TypeOK
<1>1. SortInv => TypeOK
  BY LocalInvSuffices DEF SortInv, Lengths, TypeOK
<1>2. QED
  BY <1>1, SortInit, SortInvStep, PTL DEF Spec

------------------------------------------------------------------------------
(* The ranks keep in step.  A rank is as far behind the foremost as there  *)
(* are broadcasts it has not joined.  There is one history for all: where  *)
(* a rank settles depends only on how far behind it is.                    *)

LEMMA ScanTurns ==
  ASSUME NEW l \in Locals
  PROVE  /\ Scan(l).pc \in {"scan", "swap"}
         /\ Scan(l).pc = "swap" => Scan(l).then = "sort"
<1>1. CASE l.i = l.right
  <2>1. PICK m : m = Exchange(l, l.ret, l.right, "sort")
    OBVIOUS
  <2>2. m.pc = "swap" /\ m.then = "sort"
    BY <2>1 DEF Exchange, Locals
  <2>3. QED
    BY <1>1, <2>1, <2>2 DEF Scan
<1>2. CASE l.i # l.right
  <2>1. PICK m : m = [l EXCEPT !.pc = "scan"]
    OBVIOUS
  <2>2. m.pc = "scan"
    BY <2>1 DEF Locals
  <2>3. QED
    BY <1>2, <2>1, <2>2 DEF Scan
<1>3. QED
  BY <1>1, <1>2

LEMMA SortTurns ==
  ASSUME NEW todo
  PROVE  Sort(todo).pc \in {"done", "sort"}
BY DEF Sort, Local

\* After an exchange a rank goes on, is done, or makes the last exchange of the
\* partition, after which it goes on or is done.
LEMMA ContinueTurns ==
  ASSUME Lengths, NEW l, LocalInv(l), l.pc \in {"swap", "await"}
  PROVE  /\ LocalInv(Continue(l))
         /\ Continue(l).pc \in {"scan", "swap", "sort", "done"}
         /\ Continue(l).pc = "swap" => Continue(l).then = "sort"
         /\ l.then = "sort" => Continue(l).pc \in {"sort", "done"}
<1>1. LocalInv(Continue(l)) /\ l \in Locals /\ l.then \in Thens /\ Within(l)
  BY ContinueStep DEF LocalInv, Locals
<1>2. CASE l.then = "scan"
  <2>1. PICK m : m = [l EXCEPT !.i = l.left, !.ret = l.left]
    OBVIOUS
  <2>2. m \in Locals
    BY <1>1, <2>1 DEF Locals
  <2>3. Continue(l) = Scan(m)
    BY <1>2, <2>1 DEF Continue
  <2>4. QED
    BY <1>1, <1>2, <2>2, <2>3, ScanTurns
<1>3. CASE l.then = "next"
  <2>1. PICK f, g : f = Following(l.i, l.right) /\ g = Following(l.ret, l.right)
    OBVIOUS
  <2>2. Ordered(l) /\ l.i # l.right
    BY <1>3 DEF LocalInv, Moving
  <2>3. f \in Spots /\ g \in Spots
    BY <1>1, <2>1, <2>2, NextElement, SlotsAre
  <2>4. PICK m : m = [l EXCEPT !.i = f, !.ret = g]
    OBVIOUS
  <2>5. m \in Locals
    BY <1>1, <2>3, <2>4 DEF Locals
  <2>6. Continue(l) = Scan(m)
    BY <1>3, <2>1, <2>4 DEF Continue
  <2>7. QED
    BY <1>1, <1>3, <2>5, <2>6, ScanTurns
<1>4. CASE l.then = "sort"
  <2>1. Continue(l) = Sort(Parts(l.left, l.right, l.ret) \o l.todo)
    BY <1>4 DEF Continue
  <2>2. Continue(l).pc \in {"done", "sort"}
    BY <2>1, SortTurns
  <2>3. QED
    BY <1>1, <2>2
<1>5. QED
  BY <1>1, <1>2, <1>3, <1>4 DEF Thens

\* Outside of an exchange a rank has settled; an exchange does not change where
\* it will settle, and neither does the wait for an answer.
LEMMA SettledHere ==
  ASSUME NEW l, l.pc \notin {"swap", "await"}
  PROVE  Settled(l) = l
BY DEF Settled

LEMMA SettledContinue ==
  ASSUME Lengths, NEW l, LocalInv(l), l.pc \in {"swap", "await"}
  PROVE  Settled(Continue(l)) = Settled(l)
<1>1. PICK m : m = Continue(l)
  OBVIOUS
<1>2. LocalInv(m) /\ m.pc \in {"scan", "swap", "sort", "done"} /\ (m.pc = "swap" => m.then = "sort")
  BY <1>1, ContinueTurns
<1>3. CASE m.pc # "swap"
  <2>1. Settled(l) = m
    BY <1>1, <1>3 DEF Settled
  <2>2. Settled(m) = m
    BY <1>2, <1>3, SettledHere
  <2>3. QED
    BY <1>1, <2>1, <2>2
<1>4. CASE m.pc = "swap"
  <2>1. PICK n : n = Continue(m)
    OBVIOUS
  <2>2. n.pc \in {"sort", "done"}
    BY <1>2, <1>4, <2>1, ContinueTurns
  <2>3. Settled(l) = n
    BY <1>1, <1>4, <2>1 DEF Settled
  <2>4. Settled(m) = n
    BY <1>4, <2>1, <2>2 DEF Settled
  <2>5. QED
    BY <1>1, <2>3, <2>4
<1>5. QED
  BY <1>3, <1>4

\* The wait for the answer changes nothing of what follows.
LEMMA ContinueAwait ==
  ASSUME NEW l \in Locals
  PROVE  Continue([l EXCEPT !.pc = "await"]) = Continue(l)
<1>1. PICK m : m = [l EXCEPT !.pc = "await"]
  OBVIOUS
<1>2. /\ m \in Locals /\ m.then = l.then /\ m.todo = l.todo
      /\ m.left = l.left /\ m.right = l.right /\ m.i = l.i /\ m.ret = l.ret
  BY <1>1 DEF Locals, Places
<1>3. ASSUME NEW a, NEW b
      PROVE  Scan([m EXCEPT !.i = a, !.ret = b]) = Scan([l EXCEPT !.i = a, !.ret = b])
  <2>1. PICK x, y : x = [m EXCEPT !.i = a, !.ret = b] /\ y = [l EXCEPT !.i = a, !.ret = b]
    OBVIOUS
  <2>2. x.i = a /\ y.i = a /\ x.ret = b /\ y.ret = b /\ x.right = l.right /\ y.right = l.right
    BY <1>2, <2>1 DEF Locals
  <2>3. [x EXCEPT !.pc = "scan"] = [y EXCEPT !.pc = "scan"]
    BY <1>1, <2>1
  <2>4. Exchange(x, b, l.right, "sort") = Exchange(y, b, l.right, "sort")
    BY <1>1, <2>1 DEF Exchange
  <2>5. Scan(x) = Scan(y)
    BY <2>2, <2>3, <2>4 DEF Scan
  <2>6. QED
    BY <2>1, <2>5
<1>4. Continue(m) = Continue(l)
  <2>1. CASE l.then = "scan"
    <3>1. PICK a : a = l.left
      OBVIOUS
    <3>2. Continue(l) = Scan([l EXCEPT !.i = a, !.ret = a])
      BY <2>1, <3>1 DEF Continue
    <3>3. Continue(m) = Scan([m EXCEPT !.i = a, !.ret = a])
      BY <1>2, <2>1, <3>1 DEF Continue
    <3>4. QED
      BY <1>3, <3>2, <3>3
  <2>2. CASE l.then = "next"
    <3>1. PICK a, b : a = Following(l.i, l.right) /\ b = Following(l.ret, l.right)
      OBVIOUS
    <3>2. Continue(l) = Scan([l EXCEPT !.i = a, !.ret = b])
      BY <2>2, <3>1 DEF Continue
    <3>3. Continue(m) = Scan([m EXCEPT !.i = a, !.ret = b])
      BY <1>2, <2>2, <3>1 DEF Continue
    <3>4. QED
      BY <1>3, <3>2, <3>3
  <2>3. CASE l.then = "sort"
    BY <1>2, <2>3 DEF Continue
  <2>4. QED
    BY <2>1, <2>2, <2>3 DEF Locals, Thens
<1>5. QED
  BY <1>1, <1>4

LEMMA SettledAwait ==
  ASSUME NEW l \in Locals, l.pc = "swap"
  PROVE  Settled([l EXCEPT !.pc = "await"]) = Settled(l)
<1>1. PICK m : m = [l EXCEPT !.pc = "await"]
  OBVIOUS
<1>2. m.pc = "await"
  BY <1>1 DEF Locals
<1>3. Continue(m) = Continue(l)
  BY <1>1, ContinueAwait
<1>4. QED
  BY <1>1, <1>2, <1>3 DEF Settled

------------------------------------------------------------------------------

\* What a rank settles to after the broadcast b.
Joined(l, value) == IF l.pc = "sort" THEN Partition(l, value) ELSE Compared(l, value)
After(l, b) == Settled(Joined(l, b.value))

\* H[k] is where a rank settles that has k broadcasts left to join, B[k] is the
\* next of them.
Follows(r, H, B) ==
  LET k == Len(bcast[r]) IN
  /\ Settled(at[r]) = H[k]
  /\ \A j \in 1..k : bcast[r][j] = B[k + 1 - j] /\ H[j - 1] = After(H[j], B[j])

History(H, B) == \A r \in Ranks : at[r].pc # "stopped" => Follows(r, H, B)

\* No rank begins before all have entered, and none if one is stopped.
Waiting(r) == at[r].pc \in {"enter", "stopped"}
Begun ==
  \/ \A r \in Ranks : Waiting(r) /\ bcast[r] = <<>>
  \/ \A r \in Ranks : ~ Waiting(r)

LEMMA JoinedTurns ==
  ASSUME NEW l \in Locals, l.pc \in {"sort", "scan"}, NEW value \in Values,
         LocalInv(l), Lengths
  PROVE  Joined(l, value).pc \in {"scan", "swap"} /\ LocalInv(Joined(l, value))
<1>1. CASE l.pc = "sort"
  <2>1. PICK part : part = Head(l.todo)
    OBVIOUS
  <2>2. PICK m : m = [l EXCEPT !.todo = Tail(l.todo), !.left = part.left, !.right = part.right,
                               !.pivot = value]
    OBVIOUS
  <2>3. Partition(l, value) = Exchange(m, Pivot(part.left, part.right), part.right, "scan")
    BY <2>1, <2>2 DEF Partition
  <2>4. PICK e : e = Exchange(m, Pivot(part.left, part.right), part.right, "scan")
    OBVIOUS
  <2>5. DOMAIN m = DOMAIN l /\ "pc" \in DOMAIN l
    BY <2>2 DEF Locals
  <2>6. e.pc = "swap"
    BY <2>4, <2>5 DEF Exchange
  <2>7. QED
    BY <1>1, <2>3, <2>4, <2>6, PartitionStep DEF Joined
<1>2. CASE l.pc = "scan"
  <2>1. LocalInv(Compared(l, value))
    BY <1>2, ComparedStep
  <2>2. CASE value = -1
    <3>1. PICK e : e = Exchange(l, l.i, l.ret, "next")
      OBVIOUS
    <3>2. e.pc = "swap"
      BY <3>1 DEF Exchange, Locals
    <3>3. QED
      BY <1>2, <2>1, <2>2, <3>1, <3>2 DEF Joined, Compared
  <2>3. CASE value # -1
    <3>1. PICK f : f = Following(l.i, l.right)
      OBVIOUS
    <3>2. f \in Spots
      BY <1>2, <3>1, NextElement, SlotsAre DEF LocalInv, Moving
    <3>3. PICK m : m = [l EXCEPT !.i = f]
      OBVIOUS
    <3>4. m \in Locals
      BY <3>2, <3>3 DEF Locals
    <3>5. Compared(l, value) = Scan(m)
      BY <2>3, <3>1, <3>3 DEF Compared
    <3>6. QED
      BY <1>2, <2>1, <3>4, <3>5, ScanTurns DEF Joined
  <2>4. QED
    BY <2>2, <2>3
<1>3. QED
  BY <1>1, <1>2

\* All this depends on the state through the lengths of the blocks only.
LEMMA SameFollowing ==
  ASSUME n_all' = n_all, NEW CONSTANT p, NEW CONSTANT q
  PROVE  /\ Following(p, q)' = Following(p, q)
         /\ Pivot(p, q)' = Pivot(p, q)
<1>1. \A lo, hi : NonEmpty(lo, hi)' = NonEmpty(lo, hi)
  BY DEF NonEmpty
<1>2. QED
  BY <1>1 DEF Following, Pivot, NonEmpty

LEMMA SameParts ==
  ASSUME n_all' = n_all, NEW CONSTANT left, NEW CONSTANT right, NEW CONSTANT ret
  PROVE  Parts(left, right, ret)' = Parts(left, right, ret)
<1>1. LeftPart(left, ret)' = LeftPart(left, ret)
  BY DEF LeftPart, NonEmpty, LastSlot
<1>2. RightPart(right, ret)' = RightPart(right, ret)
  BY DEF RightPart, NonEmpty, LastSlot
<1>3. QED
  BY <1>1, <1>2 DEF Parts

LEMMA SameContinue ==
  ASSUME n_all' = n_all, NEW CONSTANT l
  PROVE  Continue(l)' = Continue(l)
<1>1. Following(l.i, l.right)' = Following(l.i, l.right)
  BY SameFollowing
<1>2. Following(l.ret, l.right)' = Following(l.ret, l.right)
  BY SameFollowing
<1>3. Parts(l.left, l.right, l.ret)' = Parts(l.left, l.right, l.ret)
  BY SameParts
<1>4. QED
  BY <1>1, <1>2, <1>3 DEF Continue

LEMMA SameSettled ==
  ASSUME n_all' = n_all, NEW CONSTANT l
  PROVE  Settled(l)' = Settled(l)
<1>1. PICK m : m = Continue(l)
  OBVIOUS
<1>2. Continue(l)' = m /\ Continue(m)' = Continue(m)
  BY <1>1, SameContinue
<1>3. QED
  BY <1>1, <1>2, SameContinue DEF Settled

LEMMA SameAfter ==
  ASSUME n_all' = n_all, NEW CONSTANT l, NEW CONSTANT b
  PROVE  After(l, b)' = After(l, b)
<1>1. /\ Pivot(Head(l.todo).left, Head(l.todo).right)' = Pivot(Head(l.todo).left, Head(l.todo).right)
      /\ Following(l.i, l.right)' = Following(l.i, l.right)
  BY SameFollowing
<1>2. PICK m : m = Joined(l, b.value)
  OBVIOUS
<1>3. Joined(l, b.value)' = m
  BY <1>1, <1>2 DEF Joined, Partition, Compared
<1>4. Settled(m)' = Settled(m)
  BY SameSettled
<1>5. QED
  BY <1>2, <1>3, <1>4 DEF After

\* What makes the history of one rank into that of the next state.
LEMMA FollowsNext ==
  ASSUME n_all' = n_all, NEW CONSTANT r \in Ranks, NEW CONSTANT H, NEW CONSTANT B,
         NEW CONSTANT m, at'[r] = m, NEW CONSTANT b, bcast'[r] = b,
         Settled(m) = H[Len(b)],
         \A j \in 1..Len(b) : b[j] = B[Len(b) + 1 - j] /\ H[j - 1] = After(H[j], B[j])
  PROVE  Follows(r, H, B)'
<1>1. Settled(m)' = Settled(m)
  BY SameSettled
<1>2. \A h, c : After(h, c)' = After(h, c)
  BY SameAfter
<1>3. Settled(at[r])' = H[Len(b)]
  BY <1>1
<1>4. \A j \in 1..Len(b) : H[j - 1] = After(H[j], B[j])'
  BY <1>2
<1>5. QED
  BY <1>3, <1>4 DEF Follows

\* Between broadcasts: rank r moves to m, which settles where r would have.
LEMMA QuietStep ==
  ASSUME SortInv, n_all' = n_all, bcast' = bcast, NEW CONSTANT r \in Ranks, NEW CONSTANT m,
         at' = Set(at, r, m), Settled(m) = Settled(at[r]), at[r].pc # "stopped",
         NEW CONSTANT H, NEW CONSTANT B, History(H, B)
  PROVE  History(H, B)'
<1>1. SUFFICES ASSUME NEW CONSTANT q \in Ranks, at'[q].pc # "stopped" PROVE Follows(q, H, B)'
  BY DEF History
<1>2. at \in [Ranks -> Locals]
  BY DEF SortInv
<1>3. at[q].pc # "stopped" /\ Settled(at'[q]) = Settled(at[q])
  BY <1>1, <1>2 DEF Set
<1>4. Follows(q, H, B)
  BY <1>3 DEF History
<1>5. PICK n, b : n = at'[q] /\ b = bcast[q] /\ b = bcast'[q]
  OBVIOUS
<1>6. Settled(n) = H[Len(b)]
  BY <1>3, <1>4, <1>5 DEF Follows
<1>7. \A j \in 1..Len(b) : b[j] = B[Len(b) + 1 - j] /\ H[j - 1] = After(H[j], B[j])
  BY <1>4, <1>5 DEF Follows
<1>8. QED
  BY <1>5, <1>6, <1>7, FollowsNext

\* Rank r is the root of a broadcast: for all the others it is one more to join.
LEMMA ToldStep ==
  ASSUME SortInv, n_all' = n_all, NEW CONSTANT r \in Ranks, NEW CONSTANT v, Tell(r, v),
         at[r].pc \in {"sort", "scan"}, at' = Set(at, r, Joined(at[r], v)),
         NEW CONSTANT H, NEW CONSTANT B, History(H, B)
  PROVE  \E G, C : History(G, C)'
<1>1. PICK b : b = [root |-> r, value |-> v]
  OBVIOUS
<1>2. b.value = v /\ at \in [Ranks -> Locals] /\ \A q \in Ranks : bcast[q] \in Seq(Broadcasts)
  BY <1>1 DEF SortInv
<1>3. /\ bcast[r] = <<>> /\ bcast'[r] = <<>>
      /\ \A q \in Ranks \ {r} : bcast'[q] = Append(bcast[q], b)
  BY <1>1 DEF Tell
<1>4. PICK m : m = Joined(at[r], v)
  OBVIOUS
<1>5. at'[r] = m /\ \A q \in Ranks \ {r} : at'[q] = at[q]
  BY <1>2, <1>4 DEF Set
<1>6. PICK G : G = [k \in Nat |-> IF k = 0 THEN Settled(m) ELSE H[k - 1]]
  OBVIOUS
<1>7. PICK C : C = [k \in Nat |-> IF k = 1 THEN b ELSE B[k - 1]]
  OBVIOUS
<1>8. H[0] = at[r]
  <2>1. Follows(r, H, B)
    BY DEF History
  <2>2. Settled(at[r]) = H[0]
    BY <1>3, <2>1 DEF Follows
  <2>3. QED
    BY <2>2, SettledHere
<1>9. G[0] = After(G[1], C[1])
  <2>1. G[0] = Settled(m) /\ G[1] = H[0] /\ C[1] = b
    BY <1>6, <1>7
  <2>2. QED
    BY <1>2, <1>4, <1>8, <2>1 DEF After
<1>10. ASSUME NEW CONSTANT q \in Ranks, at'[q].pc # "stopped" PROVE Follows(q, G, C)'
  <2>1. CASE q = r
    <3>1. Len(<<>>) = 0 /\ Settled(m) = G[0]
      BY <1>6
    <3>2. PICK e : e = bcast'[r]
      OBVIOUS
    <3>3. e = <<>> /\ Settled(m) = G[Len(e)]
      BY <1>3, <3>1, <3>2
    <3>4. \A j \in 1..Len(e) : e[j] = C[Len(e) + 1 - j] /\ G[j - 1] = After(G[j], C[j])
      BY <3>1, <3>3
    <3>5. QED
      BY <1>5, <2>1, <3>2, <3>3, <3>4, FollowsNext
  <2>2. CASE q # r
    <3>1. Follows(q, H, B) /\ at'[q] = at[q]
      BY <1>5, <1>10, <2>2 DEF History
    <3>2. PICK n, e, f : n = at[q] /\ e = bcast[q] /\ f = bcast'[q]
      OBVIOUS
    <3>3. e \in Seq(Broadcasts) /\ f = Append(e, b)
      BY <1>2, <1>3, <2>2, <3>2
    <3>4. PICK k \in Nat : k = Len(e)
      BY <3>3
    <3>5. Len(f) = k + 1 /\ f[k + 1] = b /\ \A j \in 1..k : f[j] = e[j]
      BY <3>3, <3>4
    <3>6. /\ Settled(n) = H[k]
          /\ \A j \in 1..k : e[j] = B[k + 1 - j] /\ H[j - 1] = After(H[j], B[j])
      BY <3>1, <3>2, <3>4 DEF Follows
    <3>7. Settled(n) = G[k + 1]
      BY <1>6, <3>4, <3>6
    <3>8. ASSUME NEW j \in 1..(k + 1)
          PROVE  f[j] = C[(k + 1) + 1 - j] /\ G[j - 1] = After(G[j], C[j])
      <4>1. f[j] = C[(k + 1) + 1 - j]
        <5>1. CASE j = k + 1
          <6>1. (k + 1) + 1 - j = 1
            BY <5>1
          <6>2. QED
            BY <1>7, <3>5, <5>1, <6>1
        <5>2. CASE j # k + 1
          <6>1. j \in 1..k /\ (k + 1) + 1 - j \in Nat /\ (k + 1) + 1 - j # 1
                /\ ((k + 1) + 1 - j) - 1 = k + 1 - j
            BY <5>2
          <6>2. C[(k + 1) + 1 - j] = B[k + 1 - j]
            BY <1>7, <6>1
          <6>3. QED
            BY <3>5, <3>6, <6>1, <6>2
        <5>3. QED
          BY <5>1, <5>2
      <4>2. G[j - 1] = After(G[j], C[j])
        <5>1. CASE j = 1
          BY <1>9, <5>1
        <5>2. CASE j # 1
          <6>1. j \in Nat /\ j - 1 \in Nat /\ j # 0 /\ j - 1 # 0 /\ j - 1 \in 1..k
            BY <5>2
          <6>2. G[j] = H[j - 1] /\ C[j] = B[j - 1] /\ G[j - 1] = H[(j - 1) - 1]
            BY <1>6, <1>7, <5>2, <6>1
          <6>3. QED
            BY <3>6, <6>1, <6>2
        <5>3. QED
          BY <5>1, <5>2
      <4>3. QED
        BY <4>1, <4>2
    <3>9. \A j \in 1..Len(f) : f[j] = C[Len(f) + 1 - j] /\ G[j - 1] = After(G[j], C[j])
      BY <3>5, <3>8
    <3>10. Settled(n) = G[Len(f)] /\ at'[q] = n
      BY <3>1, <3>2, <3>5, <3>7
    <3>11. QED
      BY <3>2, <3>9, <3>10, FollowsNext
  <2>3. QED
    BY <2>1, <2>2
<1>11. QED
  BY <1>10 DEF History

\* Rank r joins the oldest broadcast that it has not joined.
LEMMA HeardStep ==
  ASSUME SortInv, n_all' = n_all, NEW CONSTANT r \in Ranks, bcast[r] # <<>>, Hear(r),
         at[r].pc \in {"sort", "scan"}, at' = Set(at, r, Joined(at[r], Head(bcast[r]).value)),
         NEW CONSTANT H, NEW CONSTANT B, History(H, B)
  PROVE  History(H, B)'
<1>1. SUFFICES ASSUME NEW CONSTANT q \in Ranks, at'[q].pc # "stopped" PROVE Follows(q, H, B)'
  BY DEF History
<1>2. at \in [Ranks -> Locals] /\ bcast \in [Ranks -> Seq(Broadcasts)]
  BY DEF SortInv
<1>3. PICK l, e, f : l = at[r] /\ e = bcast[r] /\ f = Tail(e)
  OBVIOUS
<1>4. PICK m : m = Joined(l, Head(e).value)
  OBVIOUS
<1>5. /\ at'[r] = m /\ bcast'[r] = f
      /\ \A s \in Ranks \ {r} : at'[s] = at[s] /\ bcast'[s] = bcast[s]
  <2>1. at' = [at EXCEPT ![r] = m] /\ bcast' = [bcast EXCEPT ![r] = f]
    BY <1>3, <1>4 DEF Set, Hear
  <2>2. QED
    BY <1>2, <2>1
<1>6. CASE q = r
  <2>1. e \in Seq(Broadcasts) /\ e # <<>>
    BY <1>2, <1>3
  <2>2. PICK k \in Nat : k = Len(f)
    <3>1. Len(Tail(e)) \in Nat
      BY <2>1
    <3>2. f = Tail(e)
      BY <1>3
    <3>3. QED
      BY <3>1, <3>2
  <2>3. Len(e) = k + 1 /\ Head(e) = e[1] /\ \A j \in 1..k : f[j] = e[j + 1]
    BY <1>3, <2>1, <2>2
  <2>4. Follows(r, H, B)
    BY DEF History
  <2>5. /\ Settled(l) = H[k + 1]
        /\ \A j \in 1..(k + 1) : e[j] = B[(k + 1) + 1 - j] /\ H[j - 1] = After(H[j], B[j])
    BY <1>3, <2>3, <2>4 DEF Follows
  <2>6. l = H[k + 1]
    BY <1>3, <2>5, SettledHere
  <2>7. Head(e) = B[k + 1] /\ H[k] = After(H[k + 1], B[k + 1])
    <3>1. 1 \in 1..(k + 1) /\ k + 1 \in 1..(k + 1) /\ (k + 1) + 1 - 1 = k + 1 /\ (k + 1) - 1 = k
      OBVIOUS
    <3>2. e[1] = B[(k + 1) + 1 - 1] /\ H[(k + 1) - 1] = After(H[k + 1], B[k + 1])
      BY <2>5, <3>1
    <3>3. QED
      BY <2>3, <3>1, <3>2
  <2>8. Settled(m) = H[k]
    BY <1>4, <2>6, <2>7 DEF After
  <2>9. ASSUME NEW j \in 1..k PROVE f[j] = B[k + 1 - j] /\ H[j - 1] = After(H[j], B[j])
    <3>1. j \in 1..(k + 1) /\ j + 1 \in 1..(k + 1) /\ (k + 1) + 1 - (j + 1) = k + 1 - j
      OBVIOUS
    <3>2. e[j + 1] = B[(k + 1) + 1 - (j + 1)] /\ H[j - 1] = After(H[j], B[j])
      BY <2>5, <3>1
    <3>3. QED
      BY <2>3, <3>1, <3>2
  <2>10. /\ Settled(m) = H[Len(f)]
         /\ \A j \in 1..Len(f) : f[j] = B[Len(f) + 1 - j] /\ H[j - 1] = After(H[j], B[j])
    BY <2>2, <2>8, <2>9
  <2>11. QED
    BY <1>5, <1>6, <2>10, FollowsNext
<1>7. CASE q # r
  <2>1. at'[q] = at[q] /\ bcast'[q] = bcast[q] /\ Follows(q, H, B)
    BY <1>1, <1>5, <1>7 DEF History
  <2>2. PICK n, b : n = at[q] /\ b = bcast[q]
    OBVIOUS
  <2>3. Settled(n) = H[Len(b)]
    BY <2>1, <2>2 DEF Follows
  <2>4. \A j \in 1..Len(b) : b[j] = B[Len(b) + 1 - j] /\ H[j - 1] = After(H[j], B[j])
    BY <2>1, <2>2 DEF Follows
  <2>5. QED
    BY <2>1, <2>2, <2>3, <2>4, FollowsNext
<1>8. QED
  BY <1>6, <1>7

AgreeInv == SortInv /\ Begun /\ \E H, B : History(H, B)

\* A rank that has begun goes on: nobody waits at the entry.
LEMMA BegunStep ==
  ASSUME SortInv, Begun, NEW r \in Ranks, ~ Waiting(r), NEW m, m.pc \notin {"enter", "stopped"},
         at' = Set(at, r, m)
  PROVE  Begun'
<1>1. at \in [Ranks -> Locals] /\ \A q \in Ranks : ~ Waiting(q)
  BY DEF SortInv, Begun
<1>2. at'[r] = m /\ \A q \in Ranks \ {r} : at'[q] = at[q]
  BY <1>1 DEF Set
<1>3. \A q \in Ranks : ~ Waiting(q)'
  BY <1>1, <1>2 DEF Waiting
<1>4. QED
  BY <1>3 DEF Begun

\* A turn of rank r at a broadcast.
LEMMA AgreeBroadcast ==
  ASSUME AgreeInv, NEW CONSTANT r \in Ranks,
         TellPivot(r) \/ HearPivot(r) \/ TellCheck(r) \/ HearCheck(r)
  PROVE  Begun' /\ (\E H, B : History(H, B))'
<1>1. /\ SortInv /\ Begun /\ n_all' = n_all /\ Lengths /\ LocalInv(at[r])
      /\ at[r] \in Locals /\ at[r].pc \in {"sort", "scan"} /\ ~ Waiting(r)
  BY DEF AgreeInv, SortInv, TellPivot, HearPivot, TellCheck, HearCheck, Waiting
<1>2. PICK H, B : History(H, B)
  BY DEF AgreeInv
<1>3. PICK p, c : p = array[NextPivot(r)] /\ c = Compare(array[at[r].i], at[r].pivot)
  OBVIOUS
<1>4. ASSUME NEW CONSTANT v, Tell(r, v), at' = Set(at, r, Joined(at[r], v)), v \in Values
      PROVE  Begun' /\ (\E G, C : History(G, C))'
  <2>1. Joined(at[r], v).pc \in {"scan", "swap"}
    BY <1>1, <1>4, JoinedTurns
  <2>2. Begun'
    BY <1>1, <1>4, <2>1, BegunStep
  <2>3. \E G, C : History(G, C)'
    BY <1>1, <1>2, <1>4, ToldStep
  <2>4. QED
    BY <2>2, <2>3
<1>5. ASSUME bcast[r] # <<>>, Hear(r), at' = Set(at, r, Joined(at[r], Head(bcast[r]).value))
      PROVE  Begun' /\ (\E G, C : History(G, C))'
  <2>1. Head(bcast[r]).value \in Values
    BY <1>1, <1>5, HearType
  <2>2. Joined(at[r], Head(bcast[r]).value).pc \in {"scan", "swap"}
    BY <1>1, <2>1, JoinedTurns
  <2>3. Begun'
    BY <1>1, <1>5, <2>2, BegunStep
  <2>4. History(H, B)'
    BY <1>1, <1>2, <1>5, HeardStep
  <2>5. QED
    BY <2>3, <2>4
<1>6. TellPivot(r) \/ TellCheck(r) => \E v \in Values : Tell(r, v) /\ at' = Set(at, r, Joined(at[r], v))
  <2>1. CASE TellPivot(r)
    <3>1. NextPivot(r) \in Slots
      BY <1>1, <2>1, PartitionStep, NAAssumption DEF TellPivot, NextPivot, Values
    <3>2. p \in Values
      BY <1>1, <1>3, <3>1 DEF SortInv
    <3>3. Tell(r, p) /\ at' = Set(at, r, Joined(at[r], p))
      BY <1>3, <2>1 DEF TellPivot, Joined
    <3>4. QED
      BY <3>2, <3>3
  <2>2. CASE TellCheck(r)
    <3>1. at[r].i \in Slots /\ at[r].pivot \in Values
      BY <1>1, <2>2 DEF TellCheck, LocalInv, Moving, Ordered, Locals
    <3>2. c \in Values
      BY <1>1, <1>3, <3>1, CompareType DEF SortInv
    <3>3. Tell(r, c) /\ at' = Set(at, r, Compared(at[r], c)) /\ at[r].pc = "scan"
      BY <1>3, <2>2 DEF TellCheck
    <3>4. QED
      BY <3>2, <3>3 DEF Joined
  <2>3. QED
    BY <2>1, <2>2
<1>7. CASE TellPivot(r) \/ TellCheck(r)
  BY <1>4, <1>6, <1>7
<1>8. CASE HearPivot(r) \/ HearCheck(r)
  <2>1. bcast[r] # <<>> /\ Hear(r) /\ at' = Set(at, r, Joined(at[r], Head(bcast[r]).value))
    BY <1>8 DEF HearPivot, HearCheck, Hears, Joined
  <2>2. QED
    BY <1>5, <2>1
<1>9. QED
  BY <1>7, <1>8

\* A turn of rank r in an exchange.
LEMMA AgreeExchange ==
  ASSUME AgreeInv, NEW CONSTANT r \in Ranks,
         SwapAtHome(r) \/ Give(r) \/ Answer(r) \/ Take(r)
  PROVE  Begun' /\ (\E H, B : History(H, B))'
<1>1. /\ SortInv /\ Begun /\ n_all' = n_all /\ bcast' = bcast /\ Lengths /\ LocalInv(at[r])
      /\ at[r] \in Locals /\ at[r].pc \in {"swap", "await"} /\ ~ Waiting(r)
  BY DEF AgreeInv, SortInv, SwapAtHome, Give, Answer, Take, Waiting
<1>2. PICK H, B : History(H, B)
  BY DEF AgreeInv
<1>3. \E m : /\ at' = Set(at, r, m) /\ Settled(m) = Settled(at[r])
             /\ m.pc \notin {"enter", "stopped"}
  <2>1. CASE SwapAtHome(r) \/ Answer(r) \/ Take(r)
    <3>1. at' = Set(at, r, Continue(at[r]))
      BY <2>1 DEF SwapAtHome, Answer, Take
    <3>2. QED
      BY <1>1, <3>1, ContinueTurns, SettledContinue
  <2>2. CASE Give(r)
    <3>1. PICK m : m = [at[r] EXCEPT !.pc = "await"]
      OBVIOUS
    <3>2. at' = Set(at, r, m) /\ at[r].pc = "swap"
      BY <2>2, <3>1 DEF Give
    <3>3. m.pc = "await"
      BY <1>1, <3>1 DEF Locals
    <3>4. Settled(m) = Settled(at[r])
      BY <1>1, <3>1, <3>2, SettledAwait
    <3>5. QED
      BY <3>2, <3>3, <3>4
  <2>3. QED
    BY <2>1, <2>2
<1>4. PICK m : at' = Set(at, r, m) /\ Settled(m) = Settled(at[r]) /\ m.pc \notin {"enter", "stopped"}
  BY <1>3
<1>5. Begun'
  BY <1>1, <1>4, BegunStep
<1>6. History(H, B)'
  BY <1>1, <1>2, <1>4, QuietStep DEF Waiting
<1>7. QED
  BY <1>5, <1>6

\* With nothing left to join, ranks that settle alike have a history.
LEMMA Alike ==
  ASSUME NEW l, \A r \in Ranks : bcast[r] = <<>>,
         \A r \in Ranks : at[r].pc # "stopped" => Settled(at[r]) = l
  PROVE  \E H, B : History(H, B)
<1>1. PICK H : H = [k \in {0} |-> l]
  OBVIOUS
<1>2. H[0] = l
  BY <1>1
<1>3. ASSUME NEW r \in Ranks, at[r].pc # "stopped" PROVE Follows(r, H, H)
  <2>1. Len(bcast[r]) = 0 /\ Settled(at[r]) = H[0]
    BY <1>2, <1>3
  <2>2. QED
    BY <2>1 DEF Follows
<1>4. QED
  BY <1>3 DEF History

LEMMA AgreeInit == Init => Begun /\ \E H, B : History(H, B)
<1>1. SUFFICES ASSUME Init PROVE Begun /\ \E H, B : History(H, B)
  OBVIOUS
<1>2. PICK l : l = Local("enter", <<>>)
  OBVIOUS
<1>3. l.pc = "enter"
  BY <1>2 DEF Local
<1>4. \A r \in Ranks : at[r] = l /\ bcast[r] = <<>>
  BY <1>1, <1>2 DEF Init
<1>5. Begun
  BY <1>3, <1>4 DEF Begun, Waiting
<1>6. QED
  BY <1>3, <1>4, <1>5, Alike, SettledHere

LEMMA AgreeEnter ==
  ASSUME AgreeInv, Enter
  PROVE  Begun' /\ (\E H, B : History(H, B))'
<1> DEFINE all == NonEmpty(0, P - 1)
           start == IF all = {} THEN Local(IF P = 1 THEN "done" ELSE "undefined", <<>>)
                    ELSE Sort(Recursion(Slot(Min(all), 0), LastSlot(Max(all))))
<1>1. /\ n_all' = n_all /\ bcast' = bcast /\ input' = input
      /\ \A r \in Ranks : at[r].pc = "enter" /\ bcast[r] = <<>>
  <2>1. \E r \in Ranks : TRUE
    BY SizeAssumption DEF Ranks
  <2>2. QED
    BY <2>1 DEF Enter, AgreeInv, Begun, Waiting
<1>2. start.pc \in {"done", "undefined", "sort"}
  BY SortTurns DEF Local
<1>3. PICK stopped, begun : stopped = Local("stopped", <<>>) /\ begun = start
  OBVIOUS
<1>4. stopped.pc = "stopped" /\ begun.pc \in {"done", "undefined", "sort"}
  BY <1>2, <1>3 DEF Local
<1>5. at' = [r \in Ranks |-> IF Stops(r) THEN stopped
                            ELSE IF \E q \in Ranks : Stops(q) THEN at[r] ELSE begun]
  BY <1>3 DEF Enter
<1>6. PICK H, B : History(H, B)
  BY DEF AgreeInv
<1>7. CASE \E q \in Ranks : Stops(q)
  <2>1. \A r \in Ranks : at'[r] = stopped \/ at'[r] = at[r]
    BY <1>5, <1>7
  <2>2. Begun'
    BY <1>1, <1>4, <2>1 DEF Begun, Waiting
  <2>3. ASSUME NEW CONSTANT r \in Ranks, at'[r].pc # "stopped" PROVE Follows(r, H, B)'
    <3>1. at'[r] = at[r] /\ at[r].pc # "stopped"
      BY <1>1, <1>4, <2>1, <2>3
    <3>2. Follows(r, H, B)
      BY <1>6, <3>1 DEF History
    <3>3. PICK l, b : l = at'[r] /\ l = at[r] /\ b = bcast[r] /\ b = bcast'[r]
      BY <1>1, <3>1
    <3>4. Settled(l) = H[Len(b)]
      BY <3>2, <3>3 DEF Follows
    <3>5. \A j \in 1..Len(b) : b[j] = B[Len(b) + 1 - j] /\ H[j - 1] = After(H[j], B[j])
      BY <3>2, <3>3 DEF Follows
    <3>6. QED
      BY <1>1, <3>3, <3>4, <3>5, FollowsNext
  <2>4. History(H, B)'
    BY <2>3 DEF History
  <2>5. QED
    BY <2>2, <2>4
<1>8. CASE ~ \E q \in Ranks : Stops(q)
  <2>1. \A r \in Ranks : at'[r] = begun /\ bcast'[r] = <<>>
    BY <1>1, <1>5, <1>8
  <2>2. Begun'
    BY <1>4, <2>1 DEF Begun, Waiting
  <2>3. PICK G : G = [k \in {0} |-> begun]
    OBVIOUS
  <2>4. ASSUME NEW CONSTANT r \in Ranks PROVE Follows(r, G, G)'
    <3>1. Settled(begun) = begun
      BY <1>4, SettledHere
    <3>2. PICK e : e = bcast'[r]
      OBVIOUS
    <3>3. e = <<>> /\ Len(<<>>) = 0
      BY <2>1, <3>2
    <3>4. Settled(begun) = G[Len(e)]
      BY <2>3, <3>1, <3>3
    <3>5. \A j \in 1..Len(e) : e[j] = G[Len(e) + 1 - j] /\ G[j - 1] = After(G[j], G[j])
      BY <3>3
    <3>6. QED
      BY <1>1, <2>1, <3>2, <3>4, <3>5, FollowsNext
  <2>5. History(G, G)'
    BY <2>4 DEF History
  <2>6. QED
    BY <2>2, <2>5
<1>9. QED
  BY <1>7, <1>8

LEMMA AgreeStep ==
  ASSUME AgreeInv, [Next]_vars
  PROVE  AgreeInv'
<1>1. SortInv'
  BY SortInvStep DEF AgreeInv
<1>2. CASE UNCHANGED vars
  <2>1. UNCHANGED <<n_all, at, bcast>>
    BY <1>2 DEF vars
  <2>2. Begun'
    BY <2>1 DEF AgreeInv, Begun, Waiting
  <2>3. PICK H, B : History(H, B)
    BY DEF AgreeInv
  <2>4. ASSUME NEW CONSTANT r \in Ranks, at'[r].pc # "stopped" PROVE Follows(r, H, B)'
    <3>1. PICK l, b : l = at'[r] /\ l = at[r] /\ b = bcast[r] /\ b = bcast'[r]
      BY <2>1
    <3>2. Follows(r, H, B)
      BY <2>1, <2>3, <2>4 DEF History
    <3>3. Settled(l) = H[Len(b)]
      BY <3>1, <3>2 DEF Follows
    <3>4. \A j \in 1..Len(b) : b[j] = B[Len(b) + 1 - j] /\ H[j - 1] = After(H[j], B[j])
      BY <3>1, <3>2 DEF Follows
    <3>5. QED
      BY <2>1, <3>1, <3>3, <3>4, FollowsNext
  <2>5. History(H, B)'
    BY <2>4 DEF History
  <2>6. QED
    BY <1>1, <2>2, <2>5 DEF AgreeInv
<1>3. CASE Enter
  BY <1>1, <1>3, AgreeEnter DEF AgreeInv
<1>4. ASSUME NEW CONSTANT r \in Ranks, Step(r) PROVE AgreeInv'
  BY <1>1, <1>4, AgreeBroadcast, AgreeExchange DEF AgreeInv, Step
<1>5. CASE Terminating
  BY <1>2, <1>5 DEF Terminating
<1>6. QED
  BY <1>2, <1>3, <1>4, <1>5 DEF Next

\* Whatever the number of ranks, their blocks and the elements, and however far
\* a rank runs ahead: two ranks that have joined the same broadcasts are on the
\* way to the same next one, with the same indices and the same calls left to do.
THEOREM RanksKeepStep == Spec => []InStep
<1>1. AgreeInv => InStep
  <2>1. SUFFICES ASSUME AgreeInv,
                        NEW q \in Ranks, at[q].pc # "stopped",
                        NEW r \in Ranks, at[r].pc # "stopped",
                        Len(bcast[q]) = Len(bcast[r])
                 PROVE  Settled(at[q]) = Settled(at[r])
    BY DEF InStep
  <2>2. PICK H, B : History(H, B)
    BY <2>1 DEF AgreeInv
  <2>3. Follows(q, H, B) /\ Follows(r, H, B)
    BY <2>1, <2>2 DEF History
  <2>4. QED
    BY <2>1, <2>3 DEF Follows
<1>2. Init => AgreeInv
  BY SortInit, AgreeInit DEF AgreeInv
<1>3. AgreeInv /\ [Next]_vars => AgreeInv'
  BY AgreeStep
<1>4. QED
  BY <1>1, <1>2, <1>3, PTL DEF Spec

------------------------------------------------------------------------------
(* The one sort that all ranks make.  A moment of it is where a rank is,   *)
(* what is in the slots, and how many broadcasts there were before.  Every *)
(* rank goes through the same moments, each at its own pace.               *)

Running == {"sort", "scan", "swap", "done"}
Asks(l) == l.pc \in {"sort", "scan"}

\* The slot whose rank is the root of the next broadcast, and what it tells.
Asked(l) == IF l.pc = "sort" THEN Pivot(Head(l.todo).left, Head(l.todo).right) ELSE l.i
Told(l, v) == IF l.pc = "sort" THEN v[Asked(l)] ELSE Compare(v[Asked(l)], l.pivot)

Turn(l, v) ==
  IF Asks(l) THEN Joined(l, Told(l, v)) ELSE IF l.pc = "swap" THEN Continue(l) ELSE l
Swapped(l, v) ==
  IF l.pc = "swap" THEN [v EXCEPT ![l.from] = v[l.to], ![l.to] = v[l.from]] ELSE v

Moment(m) == LocalInv(m.l) /\ m.l.pc \in Running /\ m.v \in [Slots -> Values] /\ m.c \in Nat
NextMoment(m) ==
  [l |-> Turn(m.l, m.v), v |-> Swapped(m.l, m.v), c |-> IF Asks(m.l) THEN m.c + 1 ELSE m.c]

Story(h) == Moment(h[0]) /\ \A j \in Nat : h[j + 1] = NextMoment(h[j])

\* The slot that a broadcast is about.
LEMMA AskedSlot ==
  ASSUME Lengths, NEW l, LocalInv(l), Asks(l)
  PROVE  Asked(l) \in Slots /\ Asked(l).rank \in Ranks
<1>1. CASE l.pc = "sort"
  <2>1. Pivot(Head(l.todo).left, Head(l.todo).right) \in Slots
    BY <1>1, PartitionStep, NAAssumption DEF Values
  <2>2. QED
    BY <1>1, <2>1, SlotsAre DEF Asked
<1>2. CASE l.pc = "scan"
  <2>1. l.i \in Slots
    BY <1>2 DEF LocalInv, Moving, Ordered
  <2>2. QED
    BY <1>2, <2>1, SlotsAre DEF Asked
<1>3. QED
  BY <1>1, <1>2 DEF Asks

LEMMA ToldType ==
  ASSUME Lengths, NEW l, LocalInv(l), Asks(l), NEW v \in [Slots -> Values]
  PROVE  Told(l, v) \in Values
<1>1. v[Asked(l)] \in Values
  BY AskedSlot
<1>2. l.pivot \in Values
  BY DEF LocalInv, Locals
<1>3. Compare(v[Asked(l)], l.pivot) \in Values
  BY <1>1, <1>2, CompareType
<1>4. QED
  BY <1>1, <1>3 DEF Told

\* What an exchange leaves in each slot.
LEMMA SwappedAt ==
  ASSUME Lengths, NEW l, LocalInv(l), l.pc = "swap", NEW v \in [Slots -> Values]
  PROVE  /\ l.from \in Slots /\ l.to \in Slots
         /\ Swapped(l, v) \in [Slots -> Values]
         /\ \A p \in Slots : Swapped(l, v)[p] =
              IF p = l.from THEN v[l.to] ELSE IF p = l.to THEN v[l.from] ELSE v[p]
<1>1. l.from \in Slots /\ l.to \in Slots
  BY DEF LocalInv, Within
<1>2. Swapped(l, v) = [v EXCEPT ![l.from] = v[l.to], ![l.to] = v[l.from]]
  BY DEF Swapped
<1>3. Swapped(l, v) \in [Slots -> Values]
  BY <1>1, <1>2
<1>4. ASSUME NEW p \in Slots
      PROVE  Swapped(l, v)[p] =
               IF p = l.from THEN v[l.to] ELSE IF p = l.to THEN v[l.from] ELSE v[p]
  BY <1>1, <1>2
<1>5. QED
  BY <1>1, <1>3, <1>4

LEMMA TurnType ==
  ASSUME Lengths, NEW m, Moment(m)
  PROVE  /\ Moment(NextMoment(m))
         /\ Asks(m.l) => Turn(m.l, m.v).pc \in {"scan", "swap"}
<1>1. LocalInv(m.l) /\ m.l.pc \in Running /\ m.v \in [Slots -> Values] /\ m.c \in Nat
      /\ m.l \in Locals
  BY DEF Moment, LocalInv
<1>2. PICK n : n = NextMoment(m)
  OBVIOUS
<1>3. /\ n.l = Turn(m.l, m.v) /\ n.v = Swapped(m.l, m.v)
      /\ n.c = IF Asks(m.l) THEN m.c + 1 ELSE m.c
  BY <1>2 DEF NextMoment
<1>4. CASE Asks(m.l)
  <2>1. Told(m.l, m.v) \in Values
    BY <1>1, <1>4, ToldType
  <2>2. /\ Joined(m.l, Told(m.l, m.v)).pc \in {"scan", "swap"}
        /\ LocalInv(Joined(m.l, Told(m.l, m.v)))
    BY <1>1, <1>4, <2>1, JoinedTurns DEF Asks
  <2>3. n.l = Joined(m.l, Told(m.l, m.v)) /\ n.v = m.v /\ n.c = m.c + 1
    BY <1>3, <1>4 DEF Turn, Swapped, Asks
  <2>4. QED
    BY <1>1, <1>2, <1>3, <2>2, <2>3 DEF Moment, Running
<1>5. CASE m.l.pc = "swap"
  <2>1. LocalInv(Continue(m.l)) /\ Continue(m.l).pc \in {"scan", "swap", "sort", "done"}
    BY <1>1, <1>5, ContinueTurns
  <2>2. n.l = Continue(m.l) /\ n.c = m.c /\ ~ Asks(m.l)
    BY <1>3, <1>5 DEF Turn, Asks
  <2>3. n.v \in [Slots -> Values]
    BY <1>1, <1>3, <1>5, SwappedAt
  <2>4. QED
    BY <1>1, <1>2, <2>1, <2>2, <2>3 DEF Moment, Running
<1>6. CASE m.l.pc = "done"
  <2>1. n.l = m.l /\ n.v = m.v /\ n.c = m.c /\ ~ Asks(m.l)
    BY <1>3, <1>6 DEF Turn, Swapped, Asks
  <2>2. QED
    BY <1>1, <1>2, <2>1 DEF Moment
<1>7. QED
  BY <1>1, <1>4, <1>5, <1>6 DEF Running, Asks

LEMMA StoryType ==
  ASSUME Lengths, NEW h, Story(h)
  PROVE  \A j \in Nat : Moment(h[j]) /\ h[j + 1] = NextMoment(h[j])
<1> DEFINE T == {j \in Nat : Moment(h[j])}
<1>1. 0 \in T
  BY DEF Story
<1>2. ASSUME NEW j \in Nat, j \in T PROVE j + 1 \in T
  <2>1. h[j + 1] = NextMoment(h[j])
    BY DEF Story
  <2>2. QED
    BY <1>2, <2>1, TurnType
<1>3. \A j \in Nat : j \in T
  <2> HIDE DEF T
  <2>1. QED
    BY <1>1, <1>2, SetInductionNat
<1>4. QED
  BY <1>3 DEF Story

\* Wherever it begins, the sort has a story.
LEMMA StoryExists ==
  ASSUME NEW m, Moment(m)
  PROVE  \E h : h[0] = m /\ Story(h)
<1> DEFINE Upto(f, n) == f[0] = m /\ \A j \in 0..(n - 1) : f[j + 1] = NextMoment(f[j])
           T == {n \in Nat : \E f : Upto(f, n)}
           U(f, g, n) == {k \in Nat : k <= n => f[k] = g[k]}
<1>1. 0 \in T
  <2>1. Upto([j \in {0} |-> m], 0)
    OBVIOUS
  <2>2. QED
    BY <2>1
<1>2. ASSUME NEW n \in Nat, n \in T PROVE n + 1 \in T
  <2>1. PICK f : Upto(f, n)
    BY <1>2
  <2>2. PICK g : g = [j \in 0..(n + 1) |-> IF j <= n THEN f[j] ELSE NextMoment(f[n])]
    OBVIOUS
  <2>3. g[0] = m
    BY <2>1, <2>2
  <2>4. ASSUME NEW j \in 0..n PROVE g[j + 1] = NextMoment(g[j])
    <3>1. g[j] = f[j] /\ j + 1 \in 0..(n + 1)
      BY <2>2
    <3>2. CASE j < n
      <4>1. g[j + 1] = f[j + 1] /\ j \in 0..(n - 1)
        BY <2>2, <3>1, <3>2
      <4>2. QED
        BY <2>1, <3>1, <4>1
    <3>3. CASE j = n
      <4>1. g[j + 1] = NextMoment(f[n])
        BY <2>2, <3>1, <3>3
      <4>2. QED
        BY <3>1, <3>3, <4>1
    <3>4. QED
      BY <3>2, <3>3
  <2>5. Upto(g, n + 1)
    BY <2>3, <2>4
  <2>6. QED
    BY <2>5
<1>3. \A n \in Nat : \E f : Upto(f, n)
  <2>1. \A n \in Nat : n \in T
    <3> HIDE DEF T
    <3>1. QED
      BY <1>1, <1>2, SetInductionNat
  <2>2. QED
    BY <2>1
<1>4. ASSUME NEW f, NEW g, NEW n \in Nat, Upto(f, n), Upto(g, n)
      PROVE  \A k \in Nat : k <= n => f[k] = g[k]
  <2>1. 0 \in U(f, g, n)
    BY <1>4
  <2>2. ASSUME NEW k \in Nat, k \in U(f, g, n) PROVE k + 1 \in U(f, g, n)
    <3>1. SUFFICES ASSUME k + 1 <= n PROVE f[k + 1] = g[k + 1]
      OBVIOUS
    <3>2. k \in 0..(n - 1) /\ f[k] = g[k]
      BY <2>2, <3>1
    <3>3. f[k + 1] = NextMoment(f[k]) /\ g[k + 1] = NextMoment(g[k])
      BY <1>4, <3>2
    <3>4. QED
      BY <3>2, <3>3
  <2>3. \A k \in Nat : k \in U(f, g, n)
    <3> HIDE DEF U
    <3>1. QED
      BY <2>1, <2>2, SetInductionNat
  <2>4. QED
    BY <2>3
<1>5. PICK F : F = [n \in Nat |-> CHOOSE f : Upto(f, n)]
  OBVIOUS
<1>6. ASSUME NEW n \in Nat PROVE Upto(F[n], n)
  BY <1>3, <1>5
<1>7. PICK h : h = [n \in Nat |-> F[n][n]]
  OBVIOUS
<1>8. h[0] = m
  BY <1>6, <1>7
<1>9. ASSUME NEW j \in Nat PROVE h[j + 1] = NextMoment(h[j])
  <2>1. Upto(F[j], j) /\ Upto(F[j + 1], j + 1)
    BY <1>6
  <2>2. Upto(F[j + 1], j)
    BY <2>1
  <2>3. F[j + 1][j] = F[j][j]
    BY <1>4, <2>1, <2>2
  <2>4. F[j + 1][j + 1] = NextMoment(F[j + 1][j])
    BY <2>1
  <2>5. QED
    BY <1>7, <2>3, <2>4
<1>10. QED
  BY <1>8, <1>9 DEF Story

\* The broadcasts are counted, and each is another one.
LEMMA CountsRise ==
  ASSUME Lengths, NEW h, Story(h), NEW a \in Nat, NEW b \in Nat, a <= b
  PROVE  h[a].c <= h[b].c /\ (Asks(h[a].l) /\ a < b => h[a].c + 1 <= h[b].c)
<1> DEFINE low == IF Asks(h[a].l) THEN h[a].c + 1 ELSE h[a].c
           T == {n \in Nat : h[a + (n + 1)].c >= low}
<1>1. \A j \in Nat : /\ h[j].c \in Nat
                     /\ h[j + 1].c = IF Asks(h[j].l) THEN h[j].c + 1 ELSE h[j].c
  <2>1. SUFFICES ASSUME NEW j \in Nat
                 PROVE  /\ h[j].c \in Nat
                        /\ h[j + 1].c = IF Asks(h[j].l) THEN h[j].c + 1 ELSE h[j].c
    OBVIOUS
  <2>2. Moment(h[j]) /\ h[j + 1] = NextMoment(h[j])
    BY StoryType
  <2>3. QED
    BY <2>2 DEF Moment, NextMoment
<1>2. 0 \in T
  <2>1. a + (0 + 1) = a + 1
    OBVIOUS
  <2>2. QED
    BY <1>1, <2>1
<1>3. ASSUME NEW n \in Nat, n \in T PROVE n + 1 \in T
  <2>1. a + (n + 1) \in Nat /\ a + ((n + 1) + 1) = (a + (n + 1)) + 1
    OBVIOUS
  <2>2. /\ h[a + (n + 1)].c \in Nat /\ low \in Nat
        /\ h[(a + (n + 1)) + 1].c = IF Asks(h[a + (n + 1)].l) THEN h[a + (n + 1)].c + 1
                                    ELSE h[a + (n + 1)].c
    BY <1>1, <2>1
  <2>3. h[a + (n + 1)].c >= low
    BY <1>3
  <2> HIDE DEF low
  <2>4. h[(a + (n + 1)) + 1].c >= low
    BY <2>2, <2>3
  <2>5. h[a + ((n + 1) + 1)].c >= low
    BY <2>1, <2>4
  <2>6. QED
    BY <2>5
<1>4. \A n \in Nat : n \in T
  <2> HIDE DEF T
  <2>1. QED
    BY <1>2, <1>3, SetInductionNat
<1>5. CASE a = b
  BY <1>1, <1>5
<1>6. CASE a < b
  <2>1. PICK n \in Nat : n = b - a - 1
    BY <1>6
  <2>2. a + (n + 1) = b
    BY <2>1
  <2>3. h[b].c >= low
    BY <1>4, <2>2
  <2>4. h[a].c \in Nat /\ h[b].c \in Nat
    BY <1>1
  <2>5. QED
    BY <2>3, <2>4
<1>7. QED
  BY <1>5, <1>6

\* The end is the end.
LEMMA DoneStays ==
  ASSUME Lengths, NEW h, Story(h), NEW a \in Nat, h[a].l.pc = "done"
  PROVE  \A b \in Nat : a <= b => h[b].l = h[a].l /\ h[b].v = h[a].v /\ h[b].c = h[a].c
<1> DEFINE T == {n \in Nat : h[a + n].l = h[a].l /\ h[a + n].v = h[a].v /\ h[a + n].c = h[a].c}
<1>1. 0 \in T
  OBVIOUS
<1>2. ASSUME NEW n \in Nat, n \in T PROVE n + 1 \in T
  <2>1. a + n \in Nat /\ a + (n + 1) = (a + n) + 1 /\ h[a + n].l.pc = "done"
    BY <1>2
  <2>2. h[(a + n) + 1] = NextMoment(h[a + n])
    BY <2>1 DEF Story
  <2>3. /\ h[(a + n) + 1].l = h[a + n].l /\ h[(a + n) + 1].v = h[a + n].v
        /\ h[(a + n) + 1].c = h[a + n].c
    BY <2>1, <2>2 DEF NextMoment, Turn, Swapped, Asks
  <2>4. QED
    BY <1>2, <2>1, <2>3
<1>3. \A n \in Nat : n \in T
  <2> HIDE DEF T
  <2>1. QED
    BY <1>1, <1>2, SetInductionNat
<1>4. ASSUME NEW b \in Nat, a <= b PROVE h[b].l = h[a].l /\ h[b].v = h[a].v /\ h[b].c = h[a].c
  <2>1. b - a \in Nat /\ a + (b - a) = b
    BY <1>4
  <2>2. QED
    BY <1>3, <2>1
<1>5. QED
  BY <1>4

\* The story depends on the lengths of the blocks and on the arguments only.
LEMMA SameStory ==
  ASSUME n_all' = n_all, input' = input, NEW CONSTANT h
  PROVE  /\ Story(h)' <=> Story(h)
         /\ \A j : NextMoment(h[j])' = NextMoment(h[j])
         /\ \A j : Told(h[j].l, h[j].v)' = Told(h[j].l, h[j].v) /\ Asked(h[j].l)' = Asked(h[j].l)
         /\ \A j : Moment(h[j])' <=> Moment(h[j])
<1>1. ASSUME NEW CONSTANT m
      PROVE  /\ Asked(m.l)' = Asked(m.l) /\ Told(m.l, m.v)' = Told(m.l, m.v)
             /\ NextMoment(m)' = NextMoment(m)
             /\ Moment(m)' <=> Moment(m)
  <2>1. /\ Pivot(Head(m.l.todo).left, Head(m.l.todo).right)'
             = Pivot(Head(m.l.todo).left, Head(m.l.todo).right)
        /\ Following(m.l.i, m.l.right)' = Following(m.l.i, m.l.right)
    BY SameFollowing
  <2>2. \A a, b : Compare(a, b)' = Compare(a, b)
    BY DEF Compare, Increasing, nalast
  <2>3. Asked(m.l)' = Asked(m.l)
    BY <2>1 DEF Asked
  <2>4. Told(m.l, m.v)' = Told(m.l, m.v)
    BY <2>2, <2>3 DEF Told
  <2>5. PICK t : t = Told(m.l, m.v)
    OBVIOUS
  <2>6. Joined(m.l, t)' = Joined(m.l, t)
    BY <2>1 DEF Joined, Partition, Compared
  <2>7. Continue(m.l)' = Continue(m.l)
    BY SameContinue
  <2>8. Turn(m.l, m.v)' = Turn(m.l, m.v)
    BY <2>4, <2>5, <2>6, <2>7 DEF Turn
  <2>9. Swapped(m.l, m.v)' = Swapped(m.l, m.v)
    BY DEF Swapped
  <2>10. NextMoment(m)' = NextMoment(m)
    BY <2>8, <2>9 DEF NextMoment
  <2>11. Slots' = Slots /\ Locals' = Locals
    BY SameSlots
  <2>12. LocalInv(m.l)' <=> LocalInv(m.l)
    BY <2>11 DEF LocalInv, Within, Ordered, Moving
  <2>13. QED
    BY <2>3, <2>4, <2>10, <2>11, <2>12 DEF Moment
<1>2. /\ \A j : NextMoment(h[j])' = NextMoment(h[j])
      /\ \A j : Told(h[j].l, h[j].v)' = Told(h[j].l, h[j].v) /\ Asked(h[j].l)' = Asked(h[j].l)
      /\ \A j : Moment(h[j])' <=> Moment(h[j])
  BY <1>1
<1>3. QED
  BY <1>2 DEF Story

------------------------------------------------------------------------------
(* Where the ranks are in the story.                                       *)

\* The exchange in which s sends first and d answers.
Meets(l, s, d) == l.pc = "swap" /\ l.from.rank = s /\ l.to.rank = d /\ s # d
Awaits(r) == at[r].pc = "await"

\* Rank r is at pos[r], with its block as it is then; in an exchange it may
\* have sent its element already.
Placed(h, pos) ==
  /\ \A r \in Ranks :
       LET l == h[pos[r]].l IN
       at[r] = l \/ (Meets(l, r, l.to.rank) /\ at[r] = [l EXCEPT !.pc = "await"])
  /\ \A p \in Slots : array[p] = h[pos[p.rank]].v[p]

\* There were so many broadcasts; their roots are past them, and the others have
\* still to join those that they are not past.
Heard(h, pos, told) ==
  /\ \A r \in Ranks : Len(bcast[r]) = told - h[pos[r]].c
  /\ \A j \in Nat : Asks(h[j].l) /\ h[j].c < told =>
       /\ pos[Asked(h[j].l).rank] > j
       /\ \A r \in Ranks : pos[r] <= j =>
            bcast[r][h[j].c - h[pos[r]].c + 1]
              = [root |-> Asked(h[j].l).rank, value |-> Told(h[j].l, h[j].v)]

\* Neither rank is past an exchange without the other's element.
Met(h, pos) ==
  \A j \in Nat, s, d \in Ranks : Meets(h[j].l, s, d) =>
    /\ pos[s] > j => pos[d] > j
    /\ pos[d] > j => pos[s] > j \/ (pos[s] = j /\ Awaits(s))

\* What is in the channel from s to d: the answer that d awaits, and then the
\* element whose answer s awaits.
Answers(s, d, h, pos) ==
  IF Awaits(d) /\ at[d].to.rank = s /\ pos[s] > pos[d]
  THEN <<Element(h[pos[d]].v[at[d].to], at[d])>> ELSE <<>>
Gives(s, d, h, pos) ==
  IF Awaits(s) /\ at[s].to.rank = d /\ pos[d] <= pos[s]
  THEN <<Element(h[pos[s]].v[at[s].from], at[s])>> ELSE <<>>
Carried(h, pos) ==
  \A s, d \in Ranks : channel[s][d] = Answers(s, d, h, pos) \o Gives(s, d, h, pos)

Tracks(h, pos, told) ==
  /\ Story(h) /\ pos \in [Ranks -> Nat] /\ told \in Nat
  /\ Placed(h, pos) /\ Heard(h, pos, told) /\ Met(h, pos) /\ Carried(h, pos)

LEMMA Here ==
  ASSUME SortInv, NEW h, NEW pos, NEW told, Tracks(h, pos, told), NEW r \in Ranks
  PROVE  /\ pos[r] \in Nat /\ Moment(h[pos[r]]) /\ h[pos[r] + 1] = NextMoment(h[pos[r]])
         /\ Moment(h[pos[r] + 1])
<1>1. pos[r] \in Nat /\ pos[r] + 1 \in Nat /\ Lengths /\ Story(h)
  BY DEF Tracks, SortInv
<1>2. QED
  BY <1>1, StoryType

\* Where a rank is, out of an exchange or in it.
LEMMA AtMoment ==
  ASSUME SortInv, NEW h, NEW pos, NEW told, Tracks(h, pos, told), NEW r \in Ranks, ~ Awaits(r)
  PROVE  at[r] = h[pos[r]].l
<1>1. PICK l : l = h[pos[r]].l
  OBVIOUS
<1>2. l \in Locals
  BY <1>1, Here DEF Moment, LocalInv
<1>3. at[r] = l \/ at[r] = [l EXCEPT !.pc = "await"]
  BY <1>1 DEF Tracks, Placed
<1>4. PICK m : m = [l EXCEPT !.pc = "await"]
  OBVIOUS
<1>5. m.pc = "await"
  BY <1>2, <1>4 DEF Locals
<1>6. at[r] # m
  BY <1>5 DEF Awaits
<1>7. QED
  BY <1>1, <1>3, <1>4, <1>6

LEMMA AtExchange ==
  ASSUME SortInv, NEW h, NEW pos, NEW told, Tracks(h, pos, told), NEW r \in Ranks, Awaits(r)
  PROVE  /\ Meets(h[pos[r]].l, r, at[r].to.rank) /\ at[r].to.rank \in Ranks
         /\ at[r].from = h[pos[r]].l.from /\ at[r].to = h[pos[r]].l.to
         /\ at[r] = [h[pos[r]].l EXCEPT !.pc = "await"]
<1>1. PICK l : l = h[pos[r]].l
  OBVIOUS
<1>2. l \in Locals /\ l.pc \in Running /\ LocalInv(l) /\ Lengths
  BY <1>1, Here DEF Moment, LocalInv, SortInv
<1>3. at[r] # l
  BY <1>2 DEF Awaits, Running
<1>4. Meets(l, r, l.to.rank) /\ at[r] = [l EXCEPT !.pc = "await"]
  BY <1>1, <1>3 DEF Tracks, Placed
<1>5. PICK m : m = [l EXCEPT !.pc = "await"]
  OBVIOUS
<1>6. m.from = l.from /\ m.to = l.to
  BY <1>2, <1>5 DEF Locals
<1>7. l.to \in Slots
  BY <1>2, <1>4 DEF LocalInv, Within, Meets
<1>8. l.to.rank \in Ranks
  BY <1>2, <1>7, SlotsAre
<1>9. at[r].from = l.from /\ at[r].to = l.to
  BY <1>4, <1>5, <1>6
<1>10. QED
  BY <1>1, <1>4, <1>8, <1>9

\* Rank r goes on to its next moment.
GoesOn(r, h, pos) == at' = Set(at, r, h[pos[r] + 1].l)
OneOn(r, pos) == Set(pos, r, pos[r] + 1)

LEMMA OneOnType ==
  ASSUME NEW pos \in [Ranks -> Nat], NEW r \in Ranks
  PROVE  /\ OneOn(r, pos) \in [Ranks -> Nat]
         /\ \A q \in Ranks : OneOn(r, pos)[q] = IF q = r THEN pos[r] + 1 ELSE pos[q]
BY DEF OneOn, Set

LEMMA PlacedStep ==
  ASSUME SortInv, n_all' = n_all, NEW CONSTANT r \in Ranks, NEW CONSTANT h, NEW CONSTANT pos,
         NEW CONSTANT told, Tracks(h, pos, told), GoesOn(r, h, pos),
         \A p \in Slots : array'[p] = IF p.rank = r THEN h[pos[r] + 1].v[p] ELSE array[p]
  PROVE  Placed(h, OneOn(r, pos))'
<1>1. pos \in [Ranks -> Nat] /\ Placed(h, pos) /\ at \in [Ranks -> Locals]
  BY DEF Tracks, SortInv
<1>2. PICK next : next = OneOn(r, pos)
  OBVIOUS
<1>3. \A q \in Ranks : next[q] = IF q = r THEN pos[r] + 1 ELSE pos[q]
  BY <1>1, <1>2, OneOnType
<1>4. at'[r] = h[pos[r] + 1].l /\ \A q \in Ranks \ {r} : at'[q] = at[q]
  BY <1>1 DEF GoesOn, Set
<1>5. ASSUME NEW q \in Ranks
      PROVE  at'[q] = h[next[q]].l \/ (/\ Meets(h[next[q]].l, q, h[next[q]].l.to.rank)
                                       /\ at'[q] = [h[next[q]].l EXCEPT !.pc = "await"])
  <2>1. CASE q = r
    BY <1>3, <1>4, <2>1
  <2>2. CASE q # r
    BY <1>1, <1>3, <1>4, <2>2 DEF Placed
  <2>3. QED
    BY <2>1, <2>2
<1>6. Slots' = Slots
  BY SameSlots
<1>7. ASSUME NEW p \in Slots PROVE array'[p] = h[next[p.rank]].v[p]
  <2>1. p.rank \in Ranks /\ array[p] = h[pos[p.rank]].v[p]
    BY <1>1, SlotsAre DEF Placed, SortInv
  <2>2. QED
    BY <1>3, <2>1
<1>8. Placed(h, next)'
  BY <1>5, <1>6, <1>7 DEF Placed, Meets
<1>9. QED
  BY <1>2, <1>8

LEMMA MetStep ==
  ASSUME SortInv, NEW CONSTANT r \in Ranks, NEW CONSTANT h, NEW CONSTANT pos,
         NEW CONSTANT told, Tracks(h, pos, told), GoesOn(r, h, pos),
         \A s, d \in Ranks : Meets(h[pos[r]].l, s, d) =>
           /\ s = r => pos[d] > pos[r]
           /\ d = r => pos[s] = pos[r] /\ Awaits(s)
  PROVE  Met(h, OneOn(r, pos))'
<1>1. pos \in [Ranks -> Nat] /\ Met(h, pos) /\ at \in [Ranks -> Locals]
  BY DEF Tracks, SortInv
<1>2. PICK next : next = OneOn(r, pos)
  OBVIOUS
<1>3. \A q \in Ranks : next[q] = IF q = r THEN pos[r] + 1 ELSE pos[q]
  BY <1>1, <1>2, OneOnType
<1>4. \A q \in Ranks \ {r} : at'[q] = at[q]
  BY <1>1 DEF GoesOn, Set
<1>5. ASSUME NEW j \in Nat, NEW s \in Ranks, NEW d \in Ranks, Meets(h[j].l, s, d)
      PROVE  /\ next[s] > j => next[d] > j
             /\ next[d] > j => next[s] > j \/ (next[s] = j /\ at'[s].pc = "await")
  <2>1. /\ pos[s] > j => pos[d] > j
        /\ pos[d] > j => pos[s] > j \/ (pos[s] = j /\ at[s].pc = "await")
    BY <1>1, <1>5 DEF Met, Awaits
  <2>2. s # d /\ pos[s] \in Nat /\ pos[d] \in Nat /\ pos[r] \in Nat
    BY <1>1, <1>5 DEF Meets
  <2>3. CASE s = r
    <3>1. next[s] = pos[r] + 1 /\ next[d] = pos[d]
      BY <1>3, <2>2, <2>3
    <3>2. CASE j = pos[r]
      BY <1>5, <2>2, <2>3, <3>1, <3>2
    <3>3. CASE j # pos[r]
      BY <2>1, <2>2, <2>3, <3>1, <3>3
    <3>4. QED
      BY <3>2, <3>3
  <2>4. CASE s # r /\ d = r
    <3>1. next[s] = pos[s] /\ next[d] = pos[r] + 1 /\ at'[s] = at[s]
      BY <1>3, <1>4, <2>4
    <3>2. CASE j = pos[r]
      BY <1>5, <2>2, <2>4, <3>1, <3>2 DEF Awaits
    <3>3. CASE j # pos[r]
      BY <2>1, <2>2, <2>4, <3>1, <3>3
    <3>4. QED
      BY <3>2, <3>3
  <2>5. CASE s # r /\ d # r
    BY <1>3, <1>4, <2>1, <2>5
  <2>6. QED
    BY <2>3, <2>4, <2>5
<1>6. Met(h, next)'
  BY <1>5 DEF Met, Meets, Awaits
<1>7. QED
  BY <1>2, <1>6

\* What is to be in the channels after that.
LEMMA LoadStep ==
  ASSUME SortInv, NEW CONSTANT r \in Ranks, NEW CONSTANT h, NEW CONSTANT pos,
         NEW CONSTANT told, Tracks(h, pos, told), GoesOn(r, h, pos),
         NEW CONSTANT s \in Ranks, NEW CONSTANT d \in Ranks
  PROVE  /\ Answers(s, d, h, OneOn(r, pos))' =
              IF d = r THEN <<>>
              ELSE IF s = r /\ Awaits(d) /\ at[d].to.rank = r /\ pos[d] = pos[r]
              THEN <<Element(h[pos[d]].v[at[d].to], at[d])>> ELSE Answers(s, d, h, pos)
         /\ Gives(s, d, h, OneOn(r, pos))' =
              IF s = r \/ (d = r /\ Awaits(s) /\ at[s].to.rank = r /\ pos[s] = pos[r])
              THEN <<>> ELSE Gives(s, d, h, pos)
<1>1. pos \in [Ranks -> Nat] /\ at \in [Ranks -> Locals]
  BY DEF Tracks, SortInv
<1>2. PICK next : next = OneOn(r, pos)
  OBVIOUS
<1>3. \A q \in Ranks : next[q] = IF q = r THEN pos[r] + 1 ELSE pos[q]
  BY <1>1, <1>2, OneOnType
<1>4. at'[r] = h[pos[r] + 1].l /\ \A q \in Ranks \ {r} : at'[q] = at[q]
  BY <1>1 DEF GoesOn, Set
<1>5. Moment(h[pos[r] + 1])
  BY Here
<1>6. at'[r].pc # "await"
  BY <1>4, <1>5 DEF Moment, Running
<1>7. ASSUME NEW q \in Ranks, Awaits(q) PROVE at[q].to.rank # q
  <2>1. Meets(h[pos[q]].l, q, at[q].to.rank)
    BY <1>7, AtExchange
  <2>2. QED
    BY <2>1 DEF Meets
<1>8. /\ pos[s] \in Nat /\ pos[d] \in Nat /\ pos[r] \in Nat
      /\ next[s] \in Nat /\ next[d] \in Nat
  BY <1>1, <1>3
<1>9. Answers(s, d, h, next)' =
        IF at'[d].pc = "await" /\ at'[d].to.rank = s /\ next[s] > next[d]
        THEN <<Element(h[next[d]].v[at'[d].to], at'[d])>> ELSE <<>>
  BY DEF Answers, Awaits, Element
<1>10. Gives(s, d, h, next)' =
         IF at'[s].pc = "await" /\ at'[s].to.rank = d /\ next[d] <= next[s]
         THEN <<Element(h[next[s]].v[at'[s].from], at'[s])>> ELSE <<>>
  BY DEF Gives, Awaits, Element
<1>11. Answers(s, d, h, next)' =
              IF d = r THEN <<>>
              ELSE IF s = r /\ Awaits(d) /\ at[d].to.rank = r /\ pos[d] = pos[r]
              THEN <<Element(h[pos[d]].v[at[d].to], at[d])>> ELSE Answers(s, d, h, pos)
  <2>1. CASE d = r
    BY <1>6, <1>9, <2>1
  <2>2. CASE d # r
    <3>1. at'[d] = at[d] /\ next[d] = pos[d]
      BY <1>3, <1>4, <2>2
    <3>2. CASE s = r
      <4>1. next[s] = pos[r] + 1
        BY <1>3, <3>2
      <4>2. next[s] > next[d] <=> pos[s] > pos[d] \/ pos[d] = pos[r]
        BY <1>8, <3>1, <3>2, <4>1
      <4>3. QED
        BY <1>9, <2>2, <3>1, <3>2, <4>2 DEF Answers, Awaits
    <3>3. CASE s # r
      <4>1. next[s] = pos[s]
        BY <1>3, <3>3
      <4>2. QED
        BY <1>9, <2>2, <3>1, <3>3, <4>1 DEF Answers, Awaits
    <3>4. QED
      BY <3>2, <3>3
  <2>3. QED
    BY <2>1, <2>2
<1>12. Gives(s, d, h, next)' =
              IF s = r \/ (d = r /\ Awaits(s) /\ at[s].to.rank = r /\ pos[s] = pos[r])
              THEN <<>> ELSE Gives(s, d, h, pos)
  <2>1. CASE s = r
    BY <1>6, <1>10, <2>1
  <2>2. CASE s # r
    <3>1. at'[s] = at[s] /\ next[s] = pos[s]
      BY <1>3, <1>4, <2>2
    <3>2. CASE d = r
      <4>1. next[d] = pos[r] + 1
        BY <1>3, <3>2
      <4>2. next[d] <= next[s] <=> pos[d] <= pos[s] /\ pos[s] # pos[r]
        BY <1>8, <3>1, <3>2, <4>1
      <4>3. QED
        BY <1>10, <2>2, <3>1, <3>2, <4>2 DEF Gives, Awaits
    <3>3. CASE d # r
      <4>1. next[d] = pos[d]
        BY <1>3, <3>3
      <4>2. QED
        BY <1>10, <2>2, <3>1, <3>3, <4>1 DEF Gives, Awaits
    <3>4. QED
      BY <3>2, <3>3
  <2>3. QED
    BY <2>1, <2>2
<1>13. QED
  BY <1>2, <1>11, <1>12

\* A turn that concerns no other rank's element changes no channel.
LEMMA AlonePart ==
  ASSUME SortInv, NEW CONSTANT r \in Ranks, NEW CONSTANT h, NEW CONSTANT pos,
         NEW CONSTANT told, Tracks(h, pos, told), GoesOn(r, h, pos), channel' = channel,
         ~ Awaits(r), \A s, d \in Ranks : Meets(h[pos[r]].l, s, d) => r \notin {s, d}
  PROVE  Met(h, OneOn(r, pos))' /\ Carried(h, OneOn(r, pos))'
<1>1. Met(h, OneOn(r, pos))'
  BY MetStep
<1>2. ASSUME NEW s \in Ranks, NEW d \in Ranks, Awaits(d), at[d].to.rank = r, pos[d] = pos[r]
      PROVE  FALSE
  <2>1. Meets(h[pos[d]].l, d, at[d].to.rank)
    BY <1>2, AtExchange
  <2>2. QED
    BY <1>2, <2>1
<1>3. ASSUME NEW CONSTANT s \in Ranks, NEW CONSTANT d \in Ranks
      PROVE  channel'[s][d] = Answers(s, d, h, OneOn(r, pos))' \o Gives(s, d, h, OneOn(r, pos))'
  <2>1. channel[s][d] = Answers(s, d, h, pos) \o Gives(s, d, h, pos)
    BY DEF Tracks, Carried
  <2>2. /\ d = r => Answers(s, d, h, pos) = <<>>
        /\ s = r => Gives(s, d, h, pos) = <<>>
    BY DEF Answers, Gives
  <2>3. Answers(s, d, h, OneOn(r, pos))' = Answers(s, d, h, pos)
    BY <1>2, <2>2, LoadStep
  <2>4. Gives(s, d, h, OneOn(r, pos))' = Gives(s, d, h, pos)
    BY <1>2, <2>2, LoadStep
  <2>5. QED
    BY <2>1, <2>3, <2>4
<1>4. Carried(h, OneOn(r, pos))'
  BY <1>3 DEF Carried
<1>5. QED
  BY <1>1, <1>4

\* Without a broadcast there is nothing to hear.
LEMMA SilentStep ==
  ASSUME SortInv, n_all' = n_all, input' = input, NEW CONSTANT r \in Ranks, NEW CONSTANT h, NEW CONSTANT pos,
         NEW CONSTANT told, Tracks(h, pos, told), bcast' = bcast, ~ Asks(h[pos[r]].l)
  PROVE  Heard(h, OneOn(r, pos), told)'
<1>1. pos \in [Ranks -> Nat] /\ Heard(h, pos, told) /\ Lengths /\ Story(h)
  BY DEF Tracks, SortInv
<1>2. PICK next : next = OneOn(r, pos)
  OBVIOUS
<1>3. \A q \in Ranks : next[q] = IF q = r THEN pos[r] + 1 ELSE pos[q]
  BY <1>1, <1>2, OneOnType
<1>4. h[pos[r] + 1].c = h[pos[r]].c
  <2>1. h[pos[r] + 1] = NextMoment(h[pos[r]])
    BY <1>1, StoryType
  <2>2. QED
    BY <2>1 DEF NextMoment
<1>5. \A q \in Ranks : h[next[q]].c = h[pos[q]].c
  BY <1>3, <1>4
<1>6. \A q \in Ranks : Len(bcast'[q]) = told - h[next[q]].c
  BY <1>1, <1>5 DEF Heard
<1>7. ASSUME NEW j \in Nat, Asks(h[j].l), h[j].c < told
      PROVE  /\ next[Asked(h[j].l).rank] > j
             /\ \A q \in Ranks : next[q] <= j =>
                  bcast'[q][h[j].c - h[next[q]].c + 1]
                    = [root |-> Asked(h[j].l).rank, value |-> Told(h[j].l, h[j].v)]
  <2>1. /\ pos[Asked(h[j].l).rank] > j
        /\ \A q \in Ranks : pos[q] <= j =>
             bcast[q][h[j].c - h[pos[q]].c + 1]
               = [root |-> Asked(h[j].l).rank, value |-> Told(h[j].l, h[j].v)]
    BY <1>1, <1>7 DEF Heard
  <2>2. Asked(h[j].l).rank \in Ranks
    BY <1>1, <1>7, StoryType, AskedSlot DEF Moment
  <2>3. \A q \in Ranks : next[q] >= pos[q] /\ pos[q] \in Nat /\ next[q] \in Nat
    BY <1>1, <1>3
  <2>4. next[Asked(h[j].l).rank] > j
    BY <2>1, <2>2, <2>3
  <2>5. ASSUME NEW q \in Ranks, next[q] <= j
        PROVE  bcast'[q][h[j].c - h[next[q]].c + 1]
                 = [root |-> Asked(h[j].l).rank, value |-> Told(h[j].l, h[j].v)]
    <3>1. pos[q] <= j
      BY <2>3, <2>5
    <3>2. QED
      BY <1>5, <2>1, <3>1
  <2>6. QED
    BY <2>4, <2>5
<1>8. \A j : Told(h[j].l, h[j].v)' = Told(h[j].l, h[j].v) /\ Asked(h[j].l)' = Asked(h[j].l)
  BY SameStory
<1>9. Heard(h, next, told)'
  BY <1>6, <1>7, <1>8 DEF Heard, Asks
<1>10. QED
  BY <1>2, <1>9

LEMMA HearStep ==
  ASSUME SortInv, n_all' = n_all, input' = input, NEW CONSTANT r \in Ranks, NEW CONSTANT h, NEW CONSTANT pos,
         NEW CONSTANT told, Tracks(h, pos, told), bcast[r] # <<>>, Hear(r), Asks(h[pos[r]].l)
  PROVE  /\ Head(bcast[r]).value = Told(h[pos[r]].l, h[pos[r]].v)
         /\ Heard(h, OneOn(r, pos), told)'
<1>1. /\ pos \in [Ranks -> Nat] /\ Heard(h, pos, told) /\ Lengths /\ Story(h)
      /\ bcast \in [Ranks -> Seq(Broadcasts)]
  BY DEF Tracks, SortInv
<1>2. PICK next : next = OneOn(r, pos)
  OBVIOUS
<1>3. \A q \in Ranks : next[q] = IF q = r THEN pos[r] + 1 ELSE pos[q]
  BY <1>1, <1>2, OneOnType
<1>4. PICK j \in Nat : j = pos[r]
  BY <1>1
<1>5. h[j + 1].c = h[j].c + 1 /\ h[j].c \in Nat
  <2>1. h[j + 1] = NextMoment(h[j]) /\ Moment(h[j])
    BY <1>1, StoryType
  <2>2. QED
    BY <1>4, <2>1 DEF NextMoment, Moment
<1>6. PICK e : e = bcast[r]
  OBVIOUS
<1>7. e \in Seq(Broadcasts) /\ e # <<>> /\ Len(e) = told - h[j].c /\ told \in Nat
  BY <1>1, <1>4, <1>6 DEF Heard, Tracks
<1>8. h[j].c < told /\ h[j].c - h[j].c + 1 = 1
  BY <1>5, <1>7
<1>9. e[1] = [root |-> Asked(h[j].l).rank, value |-> Told(h[j].l, h[j].v)]
  <2>1. bcast[r][h[j].c - h[pos[r]].c + 1]
          = [root |-> Asked(h[j].l).rank, value |-> Told(h[j].l, h[j].v)]
    BY <1>1, <1>4, <1>8 DEF Heard
  <2>2. QED
    BY <1>4, <1>6, <1>8, <2>1
<1>10. Head(bcast[r]).value = Told(h[pos[r]].l, h[pos[r]].v)
  BY <1>4, <1>6, <1>7, <1>9
<1>11. PICK f : f = Tail(e)
  OBVIOUS
<1>12. bcast'[r] = f /\ \A q \in Ranks \ {r} : bcast'[q] = bcast[q]
  BY <1>1, <1>6, <1>11 DEF Hear, Set
<1>13. Len(f) = Len(e) - 1 /\ \A k \in 1..Len(f) : f[k] = e[k + 1]
  BY <1>7, <1>11
<1>14. ASSUME NEW q \in Ranks PROVE Len(bcast'[q]) = told - h[next[q]].c
  <2>1. CASE q = r
    <3>1. next[q] = j + 1
      BY <1>3, <1>4, <2>1
    <3>2. Len(f) = told - h[j + 1].c
      BY <1>5, <1>7, <1>13
    <3>3. QED
      BY <1>12, <2>1, <3>1, <3>2
  <2>2. CASE q # r
    BY <1>1, <1>3, <1>12, <2>2 DEF Heard
  <2>3. QED
    BY <2>1, <2>2
<1>15. ASSUME NEW k \in Nat, Asks(h[k].l), h[k].c < told
       PROVE  /\ next[Asked(h[k].l).rank] > k
              /\ \A q \in Ranks : next[q] <= k =>
                   bcast'[q][h[k].c - h[next[q]].c + 1]
                     = [root |-> Asked(h[k].l).rank, value |-> Told(h[k].l, h[k].v)]
  <2>1. /\ pos[Asked(h[k].l).rank] > k
        /\ \A q \in Ranks : pos[q] <= k =>
             bcast[q][h[k].c - h[pos[q]].c + 1]
               = [root |-> Asked(h[k].l).rank, value |-> Told(h[k].l, h[k].v)]
    BY <1>1, <1>15 DEF Heard
  <2>2. Asked(h[k].l).rank \in Ranks
    BY <1>1, <1>15, StoryType, AskedSlot DEF Moment
  <2>3. \A q \in Ranks : next[q] >= pos[q] /\ pos[q] \in Nat /\ next[q] \in Nat
    BY <1>1, <1>3
  <2>4. next[Asked(h[k].l).rank] > k
    BY <2>1, <2>2, <2>3
  <2>5. ASSUME NEW q \in Ranks, next[q] <= k
        PROVE  bcast'[q][h[k].c - h[next[q]].c + 1]
                 = [root |-> Asked(h[k].l).rank, value |-> Told(h[k].l, h[k].v)]
    <3>1. pos[q] <= k
      BY <2>3, <2>5
    <3>2. bcast[q][h[k].c - h[pos[q]].c + 1]
            = [root |-> Asked(h[k].l).rank, value |-> Told(h[k].l, h[k].v)]
      BY <2>1, <3>1
    <3>3. CASE q # r
      BY <1>3, <1>12, <3>2, <3>3
    <3>4. CASE q = r
      <4>1. next[q] = j + 1 /\ pos[q] = j /\ j + 1 <= k
        BY <1>3, <1>4, <2>5, <3>4
      <4>2. h[j + 1].c <= h[k].c /\ h[k].c \in Nat
        <5>1. h[k].c \in Nat
          BY <1>1, StoryType DEF Moment
        <5>2. h[j + 1].c <= h[k].c
          BY <1>1, <4>1, CountsRise
        <5>3. QED
          BY <5>1, <5>2
      <4>3. PICK i \in Nat : i = h[k].c - h[j + 1].c + 1
        BY <1>5, <4>2
      <4>4. i \in 1..Len(f) /\ i + 1 = h[k].c - h[j].c + 1
        <5>1. Len(f) = told - h[j].c - 1
          BY <1>7, <1>13
        <5>2. i = h[k].c - h[j].c
          BY <1>5, <4>2, <4>3
        <5>3. i >= 1
          BY <1>5, <4>2, <4>3
        <5>4. i <= Len(f)
          <6>1. h[k].c \in Nat /\ h[j].c \in Nat /\ told \in Nat /\ h[k].c < told
            BY <1>5, <1>7, <1>15, <4>2
          <6>2. h[k].c - h[j].c <= told - h[j].c - 1
            BY <6>1
          <6>3. QED
            BY <5>1, <5>2, <6>2
        <5>5. QED
          BY <5>1, <5>2, <5>3, <5>4, <1>5, <1>7, <4>2
      <4>5. f[i] = e[h[k].c - h[j].c + 1]
        BY <1>13, <4>4
      <4>6. QED
        BY <1>6, <1>12, <3>2, <3>4, <4>1, <4>3, <4>5
    <3>5. QED
      BY <3>3, <3>4
  <2>6. QED
    BY <2>4, <2>5
<1>16. \A k : Told(h[k].l, h[k].v)' = Told(h[k].l, h[k].v) /\ Asked(h[k].l)' = Asked(h[k].l)
  BY SameStory
<1>17. Heard(h, next, told)'
  BY <1>14, <1>15, <1>16 DEF Heard, Asks
<1>18. QED
  BY <1>2, <1>10, <1>17

LEMMA TellStep ==
  ASSUME SortInv, n_all' = n_all, input' = input, NEW CONSTANT r \in Ranks, NEW CONSTANT h, NEW CONSTANT pos,
         NEW CONSTANT told, Tracks(h, pos, told), NEW CONSTANT v, Tell(r, v), Asks(h[pos[r]].l),
         r = Asked(h[pos[r]].l).rank, v = Told(h[pos[r]].l, h[pos[r]].v)
  PROVE  Heard(h, OneOn(r, pos), told + 1)'
<1>1. /\ pos \in [Ranks -> Nat] /\ Heard(h, pos, told) /\ Lengths /\ Story(h) /\ told \in Nat
      /\ bcast \in [Ranks -> Seq(Broadcasts)]
  BY DEF Tracks, SortInv
<1>2. PICK next : next = OneOn(r, pos)
  OBVIOUS
<1>3. \A q \in Ranks : next[q] = IF q = r THEN pos[r] + 1 ELSE pos[q]
  BY <1>1, <1>2, OneOnType
<1>4. PICK j \in Nat : j = pos[r]
  BY <1>1
<1>5. h[j + 1].c = h[j].c + 1 /\ h[j].c \in Nat
  <2>1. h[j + 1] = NextMoment(h[j]) /\ Moment(h[j])
    BY <1>1, StoryType
  <2>2. QED
    BY <1>4, <2>1 DEF NextMoment, Moment
<1>6. bcast[r] = <<>> /\ Len(<<>>) = 0
  BY DEF Tell
<1>7. told = h[j].c
  BY <1>1, <1>4, <1>5, <1>6 DEF Heard
<1>8. PICK b, t : b = [root |-> r, value |-> v] /\ t = told + 1
  OBVIOUS
<1>9. bcast'[r] = <<>> /\ \A q \in Ranks \ {r} : bcast'[q] = Append(bcast[q], b)
  BY <1>8 DEF Tell
<1>10. \A q \in Ranks : h[pos[q]].c \in Nat
  BY <1>1, StoryType DEF Moment
<1>11. ASSUME NEW q \in Ranks PROVE Len(bcast'[q]) = t - h[next[q]].c
  <2>1. CASE q = r
    <3>1. next[q] = j + 1
      BY <1>3, <1>4, <2>1
    <3>2. QED
      BY <1>5, <1>6, <1>7, <1>8, <1>9, <2>1, <3>1
  <2>2. CASE q # r
    <3>1. Len(bcast[q]) = told - h[pos[q]].c /\ bcast[q] \in Seq(Broadcasts)
      BY <1>1 DEF Heard
    <3>2. bcast'[q] = Append(bcast[q], b)
      BY <1>9, <2>2
    <3>3. Len(bcast'[q]) = Len(bcast[q]) + 1
      BY <3>1, <3>2
    <3>4. next[q] = pos[q] /\ h[pos[q]].c \in Nat
      BY <1>3, <1>10, <2>2
    <3>5. PICK c, n : c = h[pos[q]].c /\ n = Len(bcast[q])
      OBVIOUS
    <3>6. c \in Nat /\ told \in Nat /\ n = told - c /\ Len(bcast'[q]) = n + 1
      BY <1>1, <3>1, <3>3, <3>4, <3>5
    <3>7. n + 1 = t - c
      BY <1>8, <3>6
    <3>8. QED
      BY <3>4, <3>5, <3>6, <3>7
  <2>3. QED
    BY <2>1, <2>2
<1>12. ASSUME NEW k \in Nat, Asks(h[k].l), h[k].c < told + 1
       PROVE  /\ next[Asked(h[k].l).rank] > k
              /\ \A q \in Ranks : next[q] <= k =>
                   bcast'[q][h[k].c - h[next[q]].c + 1]
                     = [root |-> Asked(h[k].l).rank, value |-> Told(h[k].l, h[k].v)]
  <2>1. h[k].c \in Nat
    BY <1>1, StoryType DEF Moment
  <2>2. CASE h[k].c < told
    <3>1. /\ pos[Asked(h[k].l).rank] > k
          /\ \A q \in Ranks : pos[q] <= k =>
               bcast[q][h[k].c - h[pos[q]].c + 1]
                 = [root |-> Asked(h[k].l).rank, value |-> Told(h[k].l, h[k].v)]
      BY <1>1, <1>12, <2>2 DEF Heard
    <3>2. Asked(h[k].l).rank \in Ranks
      BY <1>1, <1>12, StoryType, AskedSlot DEF Moment
    <3>3. \A q \in Ranks : next[q] >= pos[q] /\ pos[q] \in Nat /\ next[q] \in Nat
      <4>1. \A q \in Ranks : pos[q] \in Nat
        BY <1>1
      <4>2. QED
        BY <1>3, <4>1
    <3>4. next[Asked(h[k].l).rank] > k
      BY <3>1, <3>2, <3>3
    <3>5. ASSUME NEW q \in Ranks, next[q] <= k
          PROVE  bcast'[q][h[k].c - h[next[q]].c + 1]
                   = [root |-> Asked(h[k].l).rank, value |-> Told(h[k].l, h[k].v)]
      <4>1. pos[q] <= k
        BY <3>3, <3>5
      <4>2. CASE q = r
        <5>1. next[q] = j + 1
          BY <1>3, <1>4, <4>2
        <5>2. h[j + 1].c <= h[k].c
          <6>1. Lengths /\ Story(h) /\ j + 1 \in Nat /\ j + 1 <= k
            BY <1>1, <3>5, <5>1
          <6>2. QED
            BY <6>1, CountsRise
        <5>3. PICK c : c = h[k].c
          OBVIOUS
        <5>4. c \in Nat /\ told \in Nat /\ told + 1 <= c /\ c < told
          BY <1>1, <1>5, <1>7, <2>1, <2>2, <5>2, <5>3
        <5>5. QED
          BY <5>4
      <4>3. CASE q # r
        <5>1. PICK i : i = h[k].c - h[pos[q]].c + 1
          OBVIOUS
        <5>2. h[pos[q]].c <= h[k].c
          BY <1>1, <4>1, CountsRise
        <5>3. Len(bcast[q]) = told - h[pos[q]].c /\ bcast[q] \in Seq(Broadcasts)
          BY <1>1 DEF Heard
        <5>4. i \in 1..Len(bcast[q])
          BY <1>1, <1>10, <2>1, <2>2, <5>1, <5>2, <5>3
        <5>5. bcast'[q][i] = bcast[q][i]
          BY <1>9, <4>3, <5>3, <5>4
        <5>6. next[q] = pos[q]
          BY <1>3, <4>3
        <5>7. QED
          BY <3>1, <4>1, <5>1, <5>5, <5>6
      <4>4. QED
        BY <4>2, <4>3
    <3>6. QED
      BY <3>4, <3>5
  <2>3. CASE h[k].c = told
    <3>1. k = j
      <4>1. ~ (k < j)
        <5>1. k < j => h[k].c + 1 <= h[j].c
          BY <1>1, <1>12, CountsRise
        <5>2. QED
          BY <1>5, <1>7, <2>1, <2>3, <5>1
      <4>2. ~ (j < k)
        <5>1. j < k => h[j].c + 1 <= h[k].c
          BY <1>1, <1>4, CountsRise
        <5>2. QED
          BY <1>5, <1>7, <2>1, <2>3, <5>1
      <4>3. QED
        BY <4>1, <4>2
    <3>2. next[Asked(h[k].l).rank] > k
      <4>1. next[r] = j + 1
        BY <1>3, <1>4
      <4>2. QED
        BY <1>4, <3>1, <4>1
    <3>3. ASSUME NEW q \in Ranks, next[q] <= k
          PROVE  bcast'[q][h[k].c - h[next[q]].c + 1]
                   = [root |-> Asked(h[k].l).rank, value |-> Told(h[k].l, h[k].v)]
      <4>1. q # r
        BY <1>3, <1>4, <3>1, <3>3
      <4>2. next[q] = pos[q]
        BY <1>3, <4>1
      <4>3. Len(bcast[q]) = told - h[pos[q]].c /\ bcast[q] \in Seq(Broadcasts)
        BY <1>1 DEF Heard
      <4>4. bcast'[q][Len(bcast[q]) + 1] = b
        BY <1>9, <4>1, <4>3
      <4>5. QED
        BY <1>4, <1>8, <2>3, <3>1, <4>2, <4>3, <4>4
    <3>4. QED
      BY <3>2, <3>3
  <2>4. QED
    BY <1>1, <1>12, <2>1, <2>2, <2>3
<1>13. \A k : Told(h[k].l, h[k].v)' = Told(h[k].l, h[k].v) /\ Asked(h[k].l)' = Asked(h[k].l)
  BY SameStory
<1>14. \A k \in Nat : Asks(h[k].l) /\ h[k].c < t =>
         /\ next[Asked(h[k].l).rank] > k
         /\ \A q \in Ranks : next[q] <= k =>
              bcast'[q][h[k].c - h[next[q]].c + 1]
                = [root |-> Asked(h[k].l).rank, value |-> Told(h[k].l, h[k].v)]
  BY <1>8, <1>12
<1>15. Heard(h, next, t)'
  BY <1>11, <1>13, <1>14 DEF Heard, Asks
<1>16. QED
  BY <1>2, <1>8, <1>15

\* At a broadcast nothing is moved.
LEMMA AskedPart ==
  ASSUME SortInv, n_all' = n_all, NEW CONSTANT r \in Ranks, NEW CONSTANT h, NEW CONSTANT pos,
         NEW CONSTANT told, Tracks(h, pos, told), UNCHANGED <<array, channel>>,
         Asks(h[pos[r]].l), at' = Set(at, r, Joined(at[r], Told(h[pos[r]].l, h[pos[r]].v)))
  PROVE  Placed(h, OneOn(r, pos))' /\ Met(h, OneOn(r, pos))' /\ Carried(h, OneOn(r, pos))'
<1>1. PICK m : m = h[pos[r]]
  OBVIOUS
<1>2. Moment(m) /\ h[pos[r] + 1] = NextMoment(m)
  BY <1>1, Here
<1>3. m.l.pc # "swap"
  BY <1>1 DEF Asks
<1>4. ~ Awaits(r) /\ at[r] = m.l
  <2>1. ASSUME Awaits(r) PROVE FALSE
    <3>1. Meets(h[pos[r]].l, r, at[r].to.rank)
      BY <2>1, AtExchange
    <3>2. QED
      BY <1>1, <1>3, <3>1 DEF Meets
  <2>2. QED
    BY <1>1, <2>1, AtMoment
<1>5. h[pos[r] + 1].l = Joined(m.l, Told(m.l, m.v)) /\ h[pos[r] + 1].v = m.v
  BY <1>1, <1>2, <1>3 DEF NextMoment, Turn, Swapped
<1>6. GoesOn(r, h, pos)
  BY <1>1, <1>4, <1>5 DEF GoesOn
<1>7. \A p \in Slots : array[p] = h[pos[p.rank]].v[p]
  BY DEF Tracks, Placed
<1>8. \A p \in Slots : array'[p] = IF p.rank = r THEN h[pos[r] + 1].v[p] ELSE array[p]
  BY <1>1, <1>5, <1>7
<1>9. Placed(h, OneOn(r, pos))'
  BY <1>6, <1>8, PlacedStep
<1>10. Met(h, OneOn(r, pos))' /\ Carried(h, OneOn(r, pos))'
  BY <1>1, <1>3, <1>4, <1>6, AlonePart DEF Meets
<1>11. QED
  BY <1>9, <1>10

LEMMA TracksNext ==
  ASSUME SortInv, n_all' = n_all, input' = input, NEW CONSTANT h, NEW CONSTANT pos,
         NEW CONSTANT told, Story(h), pos \in [Ranks -> Nat], told \in Nat,
         Placed(h, pos)', Heard(h, pos, told)', Met(h, pos)', Carried(h, pos)'
  PROVE  Tracks(h, pos, told)'
<1>1. Story(h)'
  BY SameStory
<1>2. QED
  BY <1>1 DEF Tracks

LEMMA TellTracks ==
  ASSUME SortInv, NEW CONSTANT r \in Ranks, NEW CONSTANT h, NEW CONSTANT pos,
         NEW CONSTANT told, Tracks(h, pos, told), TellPivot(r) \/ TellCheck(r)
  PROVE  Tracks(h, OneOn(r, pos), told + 1)' /\ Asks(h[pos[r]].l)
<1>1. PICK m : m = h[pos[r]]
  OBVIOUS
<1>2. UNCHANGED <<input, n_all, array, channel>> /\ ~ Awaits(r) /\ at[r].pc \in {"sort", "scan"}
  BY DEF TellPivot, TellCheck, Awaits
<1>3. at[r] = m.l /\ Asks(m.l) /\ Moment(m)
  BY <1>1, <1>2, AtMoment, Here DEF Asks
<1>4. /\ pos \in [Ranks -> Nat] /\ Story(h) /\ told \in Nat
      /\ \A p \in Slots : array[p] = h[pos[p.rank]].v[p]
  BY DEF Tracks, Placed
<1>5. Asked(m.l) \in Slots
  BY <1>3, AskedSlot DEF SortInv, Moment
<1>6. PICK v : v = Told(m.l, m.v)
  OBVIOUS
<1>7. r = Asked(m.l).rank
  BY <1>3 DEF TellPivot, TellCheck, NextPivot, Asked
<1>8. array[Asked(m.l)] = m.v[Asked(m.l)]
  BY <1>1, <1>4, <1>5, <1>7
<1>9. Tell(r, v) /\ at' = Set(at, r, Joined(at[r], v))
  <2>1. CASE TellPivot(r)
    <3>1. m.l.pc = "sort" /\ NextPivot(r) = Asked(m.l)
      BY <1>3, <2>1 DEF TellPivot, NextPivot, Asked
    <3>2. v = array[NextPivot(r)]
      BY <1>6, <1>8, <3>1 DEF Told
    <3>3. Joined(at[r], v) = Partition(at[r], v)
      BY <1>3, <3>1 DEF Joined
    <3>4. QED
      BY <2>1, <3>2, <3>3 DEF TellPivot
  <2>2. CASE TellCheck(r)
    <3>1. m.l.pc = "scan" /\ Asked(m.l) = at[r].i /\ at[r].pivot = m.l.pivot
      BY <1>3, <2>2 DEF TellCheck, Asked
    <3>2. v = Compare(array[at[r].i], at[r].pivot)
      BY <1>6, <1>8, <3>1 DEF Told
    <3>3. Joined(at[r], v) = Compared(at[r], v)
      BY <1>3, <3>1 DEF Joined
    <3>4. QED
      BY <2>2, <3>2, <3>3 DEF TellCheck
  <2>3. QED
    BY <2>1, <2>2
<1>10. Heard(h, OneOn(r, pos), told + 1)'
  BY <1>1, <1>2, <1>3, <1>6, <1>7, <1>9, TellStep
<1>11. Placed(h, OneOn(r, pos))' /\ Met(h, OneOn(r, pos))' /\ Carried(h, OneOn(r, pos))'
  BY <1>1, <1>2, <1>3, <1>6, <1>9, AskedPart
<1>12. OneOn(r, pos) \in [Ranks -> Nat] /\ told + 1 \in Nat
  BY <1>4, OneOnType
<1>13. PICK t, next : t = told + 1 /\ next = OneOn(r, pos)
  OBVIOUS
<1>14. Tracks(h, next, t)'
  <2>1. Placed(h, next)' /\ Met(h, next)' /\ Carried(h, next)' /\ Heard(h, next, t)'
    BY <1>10, <1>11, <1>13
  <2>2. QED
    BY <1>2, <1>4, <1>12, <1>13, <2>1, TracksNext
<1>15. QED
  BY <1>1, <1>3, <1>13, <1>14

LEMMA HearTracks ==
  ASSUME SortInv, NEW CONSTANT r \in Ranks, NEW CONSTANT h, NEW CONSTANT pos,
         NEW CONSTANT told, Tracks(h, pos, told), HearPivot(r) \/ HearCheck(r)
  PROVE  Tracks(h, OneOn(r, pos), told)' /\ Asks(h[pos[r]].l)
<1>1. PICK m : m = h[pos[r]]
  OBVIOUS
<1>2. /\ UNCHANGED <<input, n_all, array, channel>> /\ ~ Awaits(r) /\ at[r].pc \in {"sort", "scan"}
      /\ bcast[r] # <<>> /\ Hear(r) /\ at' = Set(at, r, Joined(at[r], Head(bcast[r]).value))
  BY DEF HearPivot, HearCheck, Awaits, Hears, Joined
<1>3. at[r] = m.l /\ Asks(m.l)
  BY <1>1, <1>2, AtMoment, Here DEF Asks
<1>4. pos \in [Ranks -> Nat] /\ Story(h) /\ told \in Nat
  BY DEF Tracks
<1>5. Head(bcast[r]).value = Told(m.l, m.v) /\ Heard(h, OneOn(r, pos), told)'
  BY <1>1, <1>2, <1>3, HearStep
<1>6. Placed(h, OneOn(r, pos))' /\ Met(h, OneOn(r, pos))' /\ Carried(h, OneOn(r, pos))'
  BY <1>1, <1>2, <1>3, <1>5, AskedPart
<1>7. PICK next : next = OneOn(r, pos)
  OBVIOUS
<1>8. next \in [Ranks -> Nat]
  BY <1>4, <1>7, OneOnType
<1>9. Tracks(h, next, told)'
  <2>1. Placed(h, next)' /\ Met(h, next)' /\ Carried(h, next)' /\ Heard(h, next, told)'
    BY <1>5, <1>6, <1>7
  <2>2. QED
    BY <1>2, <1>4, <1>8, <2>1, TracksNext
<1>10. QED
  BY <1>1, <1>3, <1>7, <1>9

\* Both elements of the exchange are at the rank, or neither.
LEMMA HomeTracks ==
  ASSUME SortInv, NEW CONSTANT r \in Ranks, NEW CONSTANT h, NEW CONSTANT pos,
         NEW CONSTANT told, Tracks(h, pos, told), SwapAtHome(r)
  PROVE  Tracks(h, OneOn(r, pos), told)'
<1>1. PICK m : m = h[pos[r]]
  OBVIOUS
<1>2. UNCHANGED <<input, n_all, bcast, channel>> /\ ~ Awaits(r) /\ at[r].pc = "swap"
  BY DEF SwapAtHome, Awaits
<1>3. at[r] = m.l /\ Moment(m) /\ h[pos[r] + 1] = NextMoment(m)
  BY <1>1, <1>2, AtMoment, Here
<1>4. pos \in [Ranks -> Nat] /\ Story(h) /\ told \in Nat /\ ~ Asks(m.l) /\ m.l.pc = "swap"
  BY <1>2, <1>3 DEF Tracks, Asks
<1>5. h[pos[r] + 1].l = Continue(m.l) /\ h[pos[r] + 1].v = Swapped(m.l, m.v)
  BY <1>3, <1>4 DEF NextMoment, Turn
<1>6. GoesOn(r, h, pos)
  BY <1>3, <1>5 DEF GoesOn, SwapAtHome
<1>7. m.l.from.rank = m.l.to.rank \/ r \notin {m.l.from.rank, m.l.to.rank}
  BY <1>3 DEF SwapAtHome
<1>8. \A s, d \in Ranks : Meets(m.l, s, d) => r \notin {s, d}
  BY <1>7 DEF Meets
<1>9. Met(h, OneOn(r, pos))' /\ Carried(h, OneOn(r, pos))'
  BY <1>1, <1>2, <1>6, <1>8, AlonePart
<1>10. Heard(h, OneOn(r, pos), told)'
  BY <1>1, <1>2, <1>4, SilentStep
<1>11. /\ m.l.from \in Slots /\ m.l.to \in Slots
       /\ \A p \in Slots : Swapped(m.l, m.v)[p] =
            IF p = m.l.from THEN m.v[m.l.to] ELSE IF p = m.l.to THEN m.v[m.l.from] ELSE m.v[p]
  <2>1. Lengths /\ LocalInv(m.l) /\ m.v \in [Slots -> Values]
    BY <1>3 DEF SortInv, Moment
  <2>2. QED
    BY <1>4, <2>1, SwappedAt
<1>12. \A p \in Slots : p.rank = r => array[p] = m.v[p]
  BY <1>1 DEF Tracks, Placed
<1>13. \A p \in Slots : array'[p] = IF p.rank = r THEN h[pos[r] + 1].v[p] ELSE array[p]
  <2>1. CASE r = m.l.from.rank
    <3>1. r = m.l.to.rank
      BY <1>7, <2>1
    <3>2. array' = [array EXCEPT ![m.l.from] = array[m.l.to], ![m.l.to] = array[m.l.from]]
      BY <1>3, <2>1 DEF SwapAtHome
    <3>3. \A p \in Slots : array'[p] = IF p = m.l.from THEN array[m.l.to]
                                       ELSE IF p = m.l.to THEN array[m.l.from] ELSE array[p]
      BY <1>11, <3>2 DEF SortInv
    <3>4. ASSUME NEW p \in Slots
          PROVE  array'[p] = IF p.rank = r THEN Swapped(m.l, m.v)[p] ELSE array[p]
      <4>1. array[m.l.from] = m.v[m.l.from] /\ array[m.l.to] = m.v[m.l.to]
        BY <1>11, <1>12, <2>1, <3>1
      <4>2. p.rank = r => array[p] = m.v[p]
        BY <1>12
      <4>3. QED
        BY <1>11, <2>1, <3>1, <3>3, <4>1, <4>2
    <3>5. QED
      BY <1>5, <3>4
  <2>2. CASE r # m.l.from.rank
    <3>1. r # m.l.to.rank /\ array' = array
      BY <1>3, <1>7, <2>2 DEF SwapAtHome
    <3>2. QED
      BY <1>5, <1>11, <1>12, <2>2, <3>1
  <2>3. QED
    BY <2>1, <2>2
<1>14. Placed(h, OneOn(r, pos))'
  BY <1>2, <1>6, <1>13, PlacedStep
<1>15. PICK next : next = OneOn(r, pos)
  OBVIOUS
<1>16. next \in [Ranks -> Nat]
  BY <1>4, <1>15, OneOnType
<1>17. Tracks(h, next, told)'
  <2>1. Placed(h, next)' /\ Met(h, next)' /\ Carried(h, next)' /\ Heard(h, next, told)'
    BY <1>9, <1>10, <1>14, <1>15
  <2>2. QED
    BY <1>2, <1>4, <1>16, <2>1, TracksNext
<1>18. QED
  BY <1>15, <1>17

\* What a rank finds that does not wait for an answer: what another one gave.
LEMMA Offered ==
  ASSUME SortInv, NEW h, NEW pos, NEW told, Tracks(h, pos, told), NEW s \in Ranks, NEW d \in Ranks,
         ~ Awaits(d), channel[s][d] # <<>>
  PROVE  /\ Awaits(s) /\ at[s].to.rank = d /\ pos[d] <= pos[s]
         /\ channel[s][d] = <<Element(h[pos[s]].v[at[s].from], at[s])>>
<1>1. channel[s][d] = Answers(s, d, h, pos) \o Gives(s, d, h, pos)
  BY DEF Tracks, Carried
<1>2. Answers(s, d, h, pos) = <<>>
  BY DEF Answers
<1>3. Gives(s, d, h, pos) # <<>>
  BY <1>1, <1>2
<1>4. /\ Awaits(s) /\ at[s].to.rank = d /\ pos[d] <= pos[s]
      /\ Gives(s, d, h, pos) = <<Element(h[pos[s]].v[at[s].from], at[s])>>
  BY <1>3 DEF Gives
<1>5. PICK e : e = Element(h[pos[s]].v[at[s].from], at[s])
  OBVIOUS
<1>6. << >> \o <<e>> = <<e>>
  OBVIOUS
<1>7. QED
  BY <1>1, <1>2, <1>4, <1>5, <1>6

\* In an exchange it is what was given for this exchange.
LEMMA OfferedHere ==
  ASSUME SortInv, NEW h, NEW pos, NEW told, Tracks(h, pos, told), NEW s \in Ranks, NEW d \in Ranks,
         Meets(h[pos[d]].l, s, d), ~ Awaits(d), channel[s][d] # <<>>
  PROVE  pos[s] = pos[d]
<1>1. /\ Awaits(s) /\ at[s].to.rank = d /\ pos[d] <= pos[s]
  BY Offered
<1>2. pos[s] \in Nat /\ pos[d] \in Nat
  BY Here
<1>3. pos[s] > pos[d] => pos[d] > pos[d]
  BY <1>2 DEF Tracks, Met
<1>4. QED
  BY <1>1, <1>2, <1>3

\* A rank that waits has no other element of its partner before the answer.
LEMMA Answered ==
  ASSUME SortInv, NEW h, NEW pos, NEW told, Tracks(h, pos, told), NEW s \in Ranks,
         Awaits(s), NEW d \in Ranks, d = at[s].to.rank
  PROVE  channel[d][s] # <<>> => pos[d] > pos[s]
<1>1. channel[d][s] = Answers(d, s, h, pos) \o Gives(d, s, h, pos)
  BY DEF Tracks, Carried
<1>2. Meets(h[pos[s]].l, s, d)
  BY AtExchange
<1>3. pos[s] \in Nat /\ pos[d] \in Nat
  BY Here
<1>4. ASSUME ~ (pos[d] > pos[s]) PROVE channel[d][s] = <<>>
  <2>1. Answers(d, s, h, pos) = <<>>
    BY <1>4 DEF Answers
  <2>2. ASSUME Gives(d, s, h, pos) # <<>> PROVE FALSE
    <3>1. Awaits(d) /\ at[d].to.rank = s /\ pos[s] <= pos[d]
      BY <2>2 DEF Gives
    <3>2. pos[s] = pos[d]
      BY <1>3, <1>4, <3>1
    <3>3. Meets(h[pos[d]].l, d, s)
      <4>1. Meets(h[pos[d]].l, d, at[d].to.rank)
        BY <3>1, AtExchange
      <4>2. QED
        BY <3>1, <4>1
    <3>4. QED
      BY <1>2, <3>2, <3>3 DEF Meets
  <2>3. << >> \o <<>> = <<>>
    OBVIOUS
  <2>4. QED
    BY <1>1, <2>1, <2>2, <2>3
<1>5. QED
  BY <1>4

\* Rank r gives its element and waits.
LEMMA GiveTracks ==
  ASSUME SortInv, NEW CONSTANT r \in Ranks, NEW CONSTANT h, NEW CONSTANT pos,
         NEW CONSTANT told, Tracks(h, pos, told), Give(r)
  PROVE  Tracks(h, pos, told)'
<1>1. PICK l : l = h[pos[r]].l
  OBVIOUS
<1>2. UNCHANGED <<input, n_all, array, bcast>> /\ ~ Awaits(r) /\ at[r].pc = "swap"
  BY DEF Give, Awaits
<1>3. at[r] = l /\ l \in Locals /\ LocalInv(l)
  BY <1>1, <1>2, AtMoment, Here DEF Moment, LocalInv
<1>4. PICK d, e, m : d = l.to.rank /\ e = Element(array[l.from], l) /\ m = [l EXCEPT !.pc = "await"]
  OBVIOUS
<1>5. /\ l.from.rank = r /\ d # r /\ at' = Set(at, r, m)
      /\ channel' = [channel EXCEPT ![r][d] = Append(@, e)]
  BY <1>3, <1>4 DEF Give
<1>6. m.pc = "await" /\ m.from = l.from /\ m.to = l.to
  BY <1>3, <1>4 DEF Locals
<1>7. Meets(l, r, d) /\ l.from \in Slots /\ d \in Ranks
  BY <1>2, <1>3, <1>4, <1>5, ExchangedSlots DEF Meets
<1>8. /\ pos \in [Ranks -> Nat] /\ Story(h) /\ told \in Nat /\ Placed(h, pos) /\ Heard(h, pos, told)
      /\ Met(h, pos) /\ Carried(h, pos)
  BY DEF Tracks
<1>9. at'[r] = m /\ \A q \in Ranks \ {r} : at'[q] = at[q]
  BY <1>5 DEF Set, SortInv
<1>10. pos[d] <= pos[r]
  <2>1. pos[d] > pos[r] => pos[r] > pos[r]
    BY <1>1, <1>2, <1>7, <1>8 DEF Met
  <2>2. QED
    BY <1>7, <1>8, <2>1
<1>11. Placed(h, pos)'
  <2>1. Slots' = Slots
    BY <1>2, SameSlots
  <2>2. ASSUME NEW q \in Ranks
        PROVE  at'[q] = h[pos[q]].l \/ (/\ Meets(h[pos[q]].l, q, h[pos[q]].l.to.rank)
                                        /\ at'[q] = [h[pos[q]].l EXCEPT !.pc = "await"])
    <3>1. CASE q = r
      BY <1>1, <1>4, <1>7, <1>9, <3>1
    <3>2. CASE q # r
      BY <1>8, <1>9, <3>2 DEF Placed
    <3>3. QED
      BY <3>1, <3>2
  <2>3. QED
    BY <1>2, <1>8, <2>1, <2>2 DEF Placed, Meets
<1>12. Heard(h, pos, told)'
  <2>1. \A k : Told(h[k].l, h[k].v)' = Told(h[k].l, h[k].v) /\ Asked(h[k].l)' = Asked(h[k].l)
    BY <1>2, SameStory
  <2>2. QED
    BY <1>2, <1>8, <2>1 DEF Heard, Asks
<1>13. Met(h, pos)'
  <2>1. \A q \in Ranks : Awaits(q) => at'[q].pc = "await"
    BY <1>2, <1>9 DEF Awaits
  <2>2. QED
    BY <1>8, <2>1 DEF Met, Meets, Awaits
<1>14. ASSUME NEW CONSTANT a \in Ranks, NEW CONSTANT b \in Ranks
       PROVE  channel'[a][b] = Answers(a, b, h, pos)' \o Gives(a, b, h, pos)'
  <2>1. channel[a][b] = Answers(a, b, h, pos) \o Gives(a, b, h, pos)
    BY <1>8 DEF Carried
  <2>2. Answers(a, b, h, pos)' =
          IF at'[b].pc = "await" /\ at'[b].to.rank = a /\ pos[a] > pos[b]
          THEN <<Element(h[pos[b]].v[at'[b].to], at'[b])>> ELSE <<>>
    BY DEF Answers, Awaits, Element
  <2>3. Gives(a, b, h, pos)' =
          IF at'[a].pc = "await" /\ at'[a].to.rank = b /\ pos[b] <= pos[a]
          THEN <<Element(h[pos[a]].v[at'[a].from], at'[a])>> ELSE <<>>
    BY DEF Gives, Awaits, Element
  <2>4. Answers(a, b, h, pos)' = Answers(a, b, h, pos)
    <3>1. CASE b = r
      <4>1. Answers(a, b, h, pos) = <<>>
        BY <1>2, <3>1 DEF Answers
      <4>2. ~ (d = a /\ pos[a] > pos[r])
        BY <1>7, <1>8, <1>10
      <4>3. QED
        BY <1>4, <1>6, <1>9, <2>2, <3>1, <4>1, <4>2
    <3>2. CASE b # r
      BY <1>9, <2>2, <3>2 DEF Answers, Awaits
    <3>3. QED
      BY <3>1, <3>2
  <2>5. CASE a = r /\ b = d
    <3>1. Gives(a, b, h, pos) = <<>>
      BY <1>2, <2>5 DEF Gives
    <3>2. array[l.from] = h[pos[r]].v[l.from]
      BY <1>5, <1>7, <1>8 DEF Placed
    <3>3. Element(h[pos[r]].v[m.from], m) = e
      BY <1>4, <1>6, <3>2 DEF Element
    <3>4. Gives(a, b, h, pos)' = <<e>>
      BY <1>4, <1>6, <1>9, <1>10, <2>3, <2>5, <3>3
    <3>5. channel[a][b] \in Seq(Elements) /\ channel'[a][b] = Append(channel[a][b], e)
      BY <1>5, <1>7, <2>5 DEF SortInv
    <3>6. PICK x : x = Answers(a, b, h, pos)
      OBVIOUS
    <3>7. x = <<>> \/ \E y : x = <<y>>
      BY <3>6 DEF Answers
    <3>8. Append(x \o <<>>, e) = x \o <<e>>
      BY <3>7
    <3>9. QED
      BY <2>1, <2>4, <3>1, <3>4, <3>5, <3>6, <3>8
  <2>6. CASE ~ (a = r /\ b = d)
    <3>1. channel'[a][b] = channel[a][b]
      BY <1>5, <1>7, <2>6 DEF SortInv
    <3>2. Gives(a, b, h, pos)' = Gives(a, b, h, pos)
      <4>1. CASE a = r
        BY <1>2, <1>4, <1>6, <1>9, <2>3, <2>6, <4>1 DEF Gives
      <4>2. CASE a # r
        BY <1>9, <2>3, <4>2 DEF Gives, Awaits
      <4>3. QED
        BY <4>1, <4>2
    <3>3. QED
      BY <2>1, <2>4, <3>1, <3>2
  <2>7. QED
    BY <2>5, <2>6
<1>15. Carried(h, pos)'
  BY <1>14 DEF Carried
<1>16. QED
  BY <1>2, <1>8, <1>11, <1>12, <1>13, <1>15, TracksNext

LEMMA AtSlots ==
  ASSUME SortInv, NEW h, NEW pos, NEW told, Tracks(h, pos, told), NEW r \in Ranks, Awaits(r)
  PROVE  at[r].from = h[pos[r]].l.from /\ at[r].to = h[pos[r]].l.to
<1>1. PICK l : l = h[pos[r]].l
  OBVIOUS
<1>2. l \in Locals /\ l.pc \in Running
  BY <1>1, Here DEF Moment, LocalInv
<1>3. PICK m : m = [l EXCEPT !.pc = "await"]
  OBVIOUS
<1>4. m.from = l.from /\ m.to = l.to
  BY <1>2, <1>3 DEF Locals
<1>5. at[r] = m
  BY <1>1, <1>2, <1>3 DEF Tracks, Placed, Awaits, Running
<1>6. QED
  BY <1>1, <1>4, <1>5

\* Rank r answers the element that was given for this exchange, and stores it.
LEMMA AnswerTracks ==
  ASSUME SortInv, NEW CONSTANT r \in Ranks, NEW CONSTANT h, NEW CONSTANT pos,
         NEW CONSTANT told, Tracks(h, pos, told), Answer(r)
  PROVE  /\ Tracks(h, OneOn(r, pos), told)'
         /\ Meets(h[pos[r]].l, h[pos[r]].l.from.rank, r)
         /\ at[r] = h[pos[r]].l
         /\ pos[h[pos[r]].l.from.rank] = pos[r] /\ Awaits(h[pos[r]].l.from.rank)
<1>1. PICK l : l = h[pos[r]].l
  OBVIOUS
<1>2. UNCHANGED <<input, n_all, bcast>> /\ ~ Awaits(r) /\ at[r].pc = "swap"
  BY DEF Answer, Awaits
<1>3. at[r] = l /\ LocalInv(l) /\ h[pos[r] + 1] = NextMoment(h[pos[r]]) /\ Moment(h[pos[r]])
  BY <1>1, <1>2, AtMoment, Here DEF Moment
<1>4. PICK s, e, v, j : s = l.from.rank /\ e = Element(array[l.to], l) /\ v = h[pos[r]].v /\ j = pos[r]
  OBVIOUS
<1>5. /\ l.to.rank = r /\ s # r /\ channel[s][r] # <<>>
      /\ channel' = [channel EXCEPT ![s][r] = Tail(@), ![r][s] = Append(@, e)]
      /\ array' = [array EXCEPT ![l.to] = Head(channel[s][r]).value]
      /\ at' = Set(at, r, Continue(l))
  BY <1>3, <1>4 DEF Answer
<1>6. Meets(l, s, r) /\ l.from \in Slots /\ l.to \in Slots /\ s \in Ranks /\ l.pc = "swap"
  BY <1>2, <1>3, <1>4, <1>5, ExchangedSlots DEF Meets
<1>7. /\ pos \in [Ranks -> Nat] /\ Story(h) /\ told \in Nat /\ Placed(h, pos) /\ Heard(h, pos, told)
      /\ Met(h, pos) /\ Carried(h, pos)
  BY DEF Tracks
<1>8. pos[s] = j
  <2>1. Meets(h[pos[r]].l, s, r)
    BY <1>1, <1>6
  <2>2. QED
    BY <1>2, <1>4, <1>5, <1>6, <2>1, OfferedHere
<1>9. Awaits(s) /\ at[s].to.rank = r /\ channel[s][r] = <<Element(h[pos[s]].v[at[s].from], at[s])>>
  BY <1>2, <1>5, <1>6, Offered
<1>10. at[s].from = l.from /\ at[s].to = l.to
  <2>1. at[s].from = h[pos[s]].l.from /\ at[s].to = h[pos[s]].l.to
    <3>1. s \in Ranks /\ Awaits(s)
      BY <1>6, <1>9
    <3>2. QED
      BY <3>1, AtSlots
  <2>2. QED
    BY <1>1, <1>4, <1>8, <2>1
<1>11. Head(channel[s][r]).value = v[l.from] /\ Tail(channel[s][r]) = <<>>
  <2>1. PICK x : x = Element(h[pos[s]].v[at[s].from], at[s])
    OBVIOUS
  <2>2. x.value = v[l.from]
    BY <1>4, <1>8, <1>10, <2>1 DEF Element
  <2>3. Head(<<x>>) = x /\ Tail(<<x>>) = <<>>
    OBVIOUS
  <2>4. QED
    BY <1>9, <2>1, <2>2, <2>3
<1>12. h[pos[r] + 1].l = Continue(l) /\ h[pos[r] + 1].v = Swapped(l, v)
  BY <1>1, <1>3, <1>4, <1>6 DEF NextMoment, Turn, Asks
<1>13. GoesOn(r, h, pos)
  BY <1>5, <1>12 DEF GoesOn
<1>14. \A p \in Slots : Swapped(l, v)[p] =
         IF p = l.from THEN v[l.to] ELSE IF p = l.to THEN v[l.from] ELSE v[p]
  <2>1. Lengths /\ v \in [Slots -> Values]
    BY <1>3, <1>4 DEF SortInv, Moment
  <2>2. QED
    BY <1>3, <1>6, <2>1, SwappedAt
<1>15. \A p \in Slots : p.rank = r => array[p] = v[p]
  BY <1>4, <1>7 DEF Placed
<1>16. \A p \in Slots : array'[p] = IF p.rank = r THEN h[pos[r] + 1].v[p] ELSE array[p]
  <2>1. SUFFICES ASSUME NEW p \in Slots
                 PROVE  array'[p] = IF p.rank = r THEN Swapped(l, v)[p] ELSE array[p]
    BY <1>12
  <2>2. array'[p] = IF p = l.to THEN v[l.from] ELSE array[p]
    BY <1>5, <1>6, <1>11 DEF SortInv
  <2>3. QED
    BY <1>4, <1>5, <1>14, <1>15, <2>2
<1>17. Placed(h, OneOn(r, pos))'
  BY <1>2, <1>13, <1>16, PlacedStep
<1>18. Heard(h, OneOn(r, pos), told)'
  <2>1. ~ Asks(h[pos[r]].l)
    BY <1>1, <1>6 DEF Asks
  <2>2. QED
    BY <1>2, <2>1, SilentStep
<1>19. Met(h, OneOn(r, pos))'
  <2>1. ASSUME NEW a \in Ranks, NEW b \in Ranks, Meets(h[pos[r]].l, a, b)
        PROVE  /\ a = r => pos[b] > pos[r]
               /\ b = r => pos[a] = pos[r] /\ Awaits(a)
    <3>1. a = s /\ b = r
      BY <1>1, <1>6, <2>1 DEF Meets
    <3>2. QED
      BY <1>4, <1>5, <1>8, <1>9, <3>1
  <2>2. QED
    BY <1>13, <2>1, MetStep
<1>20. ASSUME NEW CONSTANT a \in Ranks, NEW CONSTANT b \in Ranks
       PROVE  channel'[a][b] = Answers(a, b, h, OneOn(r, pos))' \o Gives(a, b, h, OneOn(r, pos))'
  <2>1. channel[a][b] = Answers(a, b, h, pos) \o Gives(a, b, h, pos)
    BY <1>7 DEF Carried
  <2>2. /\ b = r => Answers(a, b, h, pos) = <<>>
        /\ a = r => Gives(a, b, h, pos) = <<>>
    BY <1>2 DEF Answers, Gives
  <2>3. ASSUME NEW q \in Ranks, Awaits(q), at[q].to.rank = r, pos[q] = pos[r] PROVE q = s
    <3>1. Meets(h[pos[q]].l, q, at[q].to.rank)
      BY <2>3, AtExchange
    <3>2. Meets(l, q, r)
      BY <1>1, <2>3, <3>1
    <3>3. QED
      BY <1>4, <3>2 DEF Meets
  <2>4. CASE a = r /\ b = s
    <3>1. Answers(a, b, h, OneOn(r, pos))' = <<Element(h[pos[b]].v[at[b].to], at[b])>>
      <4>1. a = r /\ b # r /\ Awaits(b) /\ at[b].to.rank = r /\ pos[b] = pos[r]
        BY <1>4, <1>5, <1>8, <1>9, <2>4
      <4>2. QED
        BY <1>13, <4>1, LoadStep
    <3>2. Gives(a, b, h, OneOn(r, pos))' = <<>>
      BY <1>13, <2>4, LoadStep
    <3>3. Element(h[pos[b]].v[at[b].to], at[b]) = e
      <4>1. array[l.to] = v[l.to]
        BY <1>5, <1>6, <1>15
      <4>2. QED
        BY <1>4, <1>8, <1>10, <2>4, <4>1 DEF Element
    <3>4. Answers(a, b, h, pos) = <<>> /\ Gives(a, b, h, pos) = <<>>
      <4>1. pos[s] = pos[r] /\ pos[r] \in Nat
        BY <1>4, <1>7, <1>8
      <4>2. QED
        BY <2>2, <2>4, <4>1 DEF Answers
    <3>5. channel'[a][b] = Append(channel[a][b], e)
      BY <1>5, <1>6, <2>4 DEF SortInv
    <3>6. << >> \o <<>> = <<>> /\ Append(<<>>, e) = <<e>> /\ <<e>> \o <<>> = <<e>>
      OBVIOUS
    <3>7. QED
      BY <2>1, <3>1, <3>2, <3>3, <3>4, <3>5, <3>6
  <2>5. CASE a = s /\ b = r
    <3>1. Answers(a, b, h, OneOn(r, pos))' = <<>>
      BY <1>13, <2>5, LoadStep
    <3>2. Gives(a, b, h, OneOn(r, pos))' = <<>>
      <4>1. b = r /\ Awaits(a) /\ at[a].to.rank = r /\ pos[a] = pos[r]
        BY <1>4, <1>8, <1>9, <2>5
      <4>2. QED
        BY <1>13, <4>1, LoadStep
    <3>3. channel'[a][b] = <<>>
      BY <1>5, <1>6, <1>11, <2>5 DEF SortInv
    <3>4. << >> \o <<>> = <<>>
      OBVIOUS
    <3>5. QED
      BY <3>1, <3>2, <3>3, <3>4
  <2>6. CASE ~ (a = r /\ b = s) /\ ~ (a = s /\ b = r)
    <3>1. channel'[a][b] = channel[a][b]
      BY <1>5, <1>6, <2>6 DEF SortInv
    <3>2. Answers(a, b, h, OneOn(r, pos))' = Answers(a, b, h, pos)
      BY <1>13, <2>2, <2>3, <2>6, LoadStep
    <3>3. Gives(a, b, h, OneOn(r, pos))' = Gives(a, b, h, pos)
      BY <1>13, <2>2, <2>3, <2>6, LoadStep
    <3>4. QED
      BY <2>1, <3>1, <3>2, <3>3
  <2>7. QED
    BY <2>4, <2>5, <2>6
<1>21. Carried(h, OneOn(r, pos))'
  BY <1>20 DEF Carried
<1>22. PICK next : next = OneOn(r, pos)
  OBVIOUS
<1>23. next \in [Ranks -> Nat]
  BY <1>7, <1>22, OneOnType
<1>24. Tracks(h, next, told)'
  <2>1. Placed(h, next)' /\ Met(h, next)' /\ Carried(h, next)' /\ Heard(h, next, told)'
    BY <1>17, <1>18, <1>19, <1>21, <1>22
  <2>2. QED
    BY <1>2, <1>7, <1>23, <2>1, TracksNext
<1>25. QED
  BY <1>1, <1>3, <1>4, <1>6, <1>8, <1>9, <1>22, <1>24

\* Rank r takes the answer.
LEMMA TakeTracks ==
  ASSUME SortInv, NEW CONSTANT r \in Ranks, NEW CONSTANT h, NEW CONSTANT pos,
         NEW CONSTANT told, Tracks(h, pos, told), Take(r)
  PROVE  /\ Tracks(h, OneOn(r, pos), told)'
         /\ Awaits(r) /\ pos[at[r].to.rank] > pos[r]
<1>1. PICK l : l = h[pos[r]].l
  OBVIOUS
<1>2. UNCHANGED <<input, n_all, bcast>> /\ Awaits(r)
  BY DEF Take, Awaits
<1>3. /\ LocalInv(l) /\ l \in Locals /\ h[pos[r] + 1] = NextMoment(h[pos[r]])
      /\ Moment(h[pos[r]])
  BY <1>1, Here DEF Moment, LocalInv
<1>4. PICK d, v, j : d = at[r].to.rank /\ v = h[pos[r]].v /\ j = pos[r]
  OBVIOUS
<1>5. /\ Meets(l, r, d) /\ d \in Ranks /\ at[r].from = l.from /\ at[r].to = l.to
      /\ at[r] = [l EXCEPT !.pc = "await"]
  BY <1>1, <1>2, <1>4, AtExchange
<1>6. /\ channel[d][r] # <<>>
      /\ channel' = [channel EXCEPT ![d][r] = Tail(@)]
      /\ array' = [array EXCEPT ![l.from] = Head(channel[d][r]).value]
      /\ at' = Set(at, r, Continue(at[r]))
  BY <1>4, <1>5 DEF Take
<1>7. Continue(at[r]) = Continue(l)
  BY <1>3, <1>5, ContinueAwait
<1>8. /\ pos \in [Ranks -> Nat] /\ Story(h) /\ told \in Nat /\ Placed(h, pos) /\ Heard(h, pos, told)
      /\ Met(h, pos) /\ Carried(h, pos)
  BY DEF Tracks
<1>9. /\ l.pc = "swap" /\ l.from.rank = r /\ l.to.rank = d /\ r # d
      /\ l.from \in Slots /\ l.to \in Slots
  BY <1>3, <1>5 DEF Meets, LocalInv, Within
<1>10. pos[d] > pos[r]
  BY <1>2, <1>4, <1>5, <1>6, Answered
<1>11. channel[d][r] = <<Element(h[pos[r]].v[at[r].to], at[r])>> \o Gives(d, r, h, pos)
  <2>1. channel[d][r] = Answers(d, r, h, pos) \o Gives(d, r, h, pos)
    BY <1>5, <1>8 DEF Carried
  <2>2. Answers(d, r, h, pos) = <<Element(h[pos[r]].v[at[r].to], at[r])>>
    BY <1>2, <1>4, <1>10 DEF Answers
  <2>3. QED
    BY <2>1, <2>2
<1>12. Head(channel[d][r]).value = v[l.to] /\ Tail(channel[d][r]) = Gives(d, r, h, pos)
  <2>1. PICK x, g : x = Element(h[pos[r]].v[at[r].to], at[r]) /\ g = Gives(d, r, h, pos)
    OBVIOUS
  <2>2. x.value = v[l.to]
    BY <1>4, <1>5, <2>1 DEF Element
  <2>3. g = <<>> \/ \E y : g = <<y>>
    BY <2>1 DEF Gives
  <2>4. Head(<<x>> \o g) = x /\ Tail(<<x>> \o g) = g
    <3>1. CASE g = <<>>
      <4>1. <<x>> \o <<>> = <<x>> /\ Head(<<x>>) = x /\ Tail(<<x>>) = <<>>
        OBVIOUS
      <4>2. QED
        BY <3>1, <4>1
    <3>2. CASE \E y : g = <<y>>
      <4>1. PICK y : g = <<y>>
        BY <3>2
      <4>2. <<x>> \o <<y>> = <<x, y>>
        <5>1. <<x>> \in Seq({x, y}) /\ <<y>> \in Seq({x, y})
          OBVIOUS
        <5>2. PICK s : s = <<x>> \o <<y>>
          OBVIOUS
        <5>3. Len(s) = 2 /\ s[1] = x /\ s[2] = y /\ s \in Seq({x, y})
          BY <5>1, <5>2
        <5>4. s = <<x, y>>
          BY <5>3
        <5>5. QED
          BY <5>2, <5>4
      <4>3. Head(<<x, y>>) = x
        OBVIOUS
      <4>4. Tail(<<x, y>>) = <<y>>
        OBVIOUS
      <4>5. QED
        BY <4>1, <4>2, <4>3, <4>4
    <3>3. QED
      BY <2>3, <3>1, <3>2
  <2>5. QED
    BY <1>11, <2>1, <2>2, <2>4
<1>13. h[pos[r] + 1].l = Continue(l) /\ h[pos[r] + 1].v = Swapped(l, v)
  BY <1>1, <1>3, <1>4, <1>9 DEF NextMoment, Turn, Asks
<1>14. GoesOn(r, h, pos)
  BY <1>6, <1>7, <1>13 DEF GoesOn
<1>15. \A p \in Slots : Swapped(l, v)[p] =
         IF p = l.from THEN v[l.to] ELSE IF p = l.to THEN v[l.from] ELSE v[p]
  <2>1. Lengths /\ v \in [Slots -> Values]
    BY <1>3, <1>4 DEF SortInv, Moment
  <2>2. QED
    BY <1>3, <1>9, <2>1, SwappedAt
<1>16. \A p \in Slots : p.rank = r => array[p] = v[p]
  BY <1>4, <1>8 DEF Placed
<1>17. \A p \in Slots : array'[p] = IF p.rank = r THEN h[pos[r] + 1].v[p] ELSE array[p]
  <2>1. SUFFICES ASSUME NEW p \in Slots
                 PROVE  array'[p] = IF p.rank = r THEN Swapped(l, v)[p] ELSE array[p]
    BY <1>13
  <2>2. array'[p] = IF p = l.from THEN v[l.to] ELSE array[p]
    BY <1>6, <1>9, <1>12 DEF SortInv
  <2>3. QED
    BY <1>9, <1>15, <1>16, <2>2
<1>18. Placed(h, OneOn(r, pos))'
  BY <1>2, <1>14, <1>17, PlacedStep
<1>19. Heard(h, OneOn(r, pos), told)'
  <2>1. ~ Asks(h[pos[r]].l)
    BY <1>1, <1>9 DEF Asks
  <2>2. QED
    BY <1>2, <2>1, SilentStep
<1>20. Met(h, OneOn(r, pos))'
  <2>1. ASSUME NEW a \in Ranks, NEW b \in Ranks, Meets(h[pos[r]].l, a, b)
        PROVE  /\ a = r => pos[b] > pos[r]
               /\ b = r => pos[a] = pos[r] /\ Awaits(a)
    <3>1. a = r /\ b = d
      BY <1>1, <1>9, <2>1 DEF Meets
    <3>2. QED
      BY <1>9, <1>10, <3>1
  <2>2. QED
    BY <1>14, <2>1, MetStep
<1>21. ASSUME NEW CONSTANT a \in Ranks, NEW CONSTANT b \in Ranks
       PROVE  channel'[a][b] = Answers(a, b, h, OneOn(r, pos))' \o Gives(a, b, h, OneOn(r, pos))'
  <2>1. channel[a][b] = Answers(a, b, h, pos) \o Gives(a, b, h, pos)
    BY <1>8 DEF Carried
  <2>2. a = r => Gives(a, b, h, pos) = <<>>
    BY <1>4, <1>8, <1>10 DEF Gives
  <2>3. b = r /\ a # d => Answers(a, b, h, pos) = <<>>
    BY <1>4 DEF Answers
  <2>4. ASSUME NEW q \in Ranks, Awaits(q), at[q].to.rank = r, pos[q] = pos[r] PROVE FALSE
    <3>1. Meets(h[pos[q]].l, q, at[q].to.rank)
      BY <2>4, AtExchange
    <3>2. Meets(l, q, r)
      BY <1>1, <2>4, <3>1
    <3>3. QED
      BY <1>9, <3>2 DEF Meets
  <2>5. Gives(a, b, h, OneOn(r, pos))' = Gives(a, b, h, pos)
    BY <1>14, <2>2, <2>4, LoadStep
  <2>6. CASE a = d /\ b = r
    <3>1. Answers(a, b, h, OneOn(r, pos))' = <<>>
      BY <1>14, <2>6, LoadStep
    <3>2. channel'[a][b] = Gives(a, b, h, pos)
      BY <1>5, <1>6, <1>12, <2>6 DEF SortInv
    <3>3. PICK g : g = Gives(a, b, h, pos)
      OBVIOUS
    <3>4. g = <<>> \/ \E y : g = <<y>>
      BY <3>3 DEF Gives
    <3>5. << >> \o g = g
      BY <3>4
    <3>6. QED
      BY <2>5, <3>1, <3>2, <3>3, <3>5
  <2>7. CASE ~ (a = d /\ b = r)
    <3>1. channel'[a][b] = channel[a][b]
      BY <1>5, <1>6, <2>7 DEF SortInv
    <3>2. Answers(a, b, h, OneOn(r, pos))' = Answers(a, b, h, pos)
      BY <1>14, <2>3, <2>4, <2>7, LoadStep
    <3>3. QED
      BY <2>1, <2>5, <3>1, <3>2
  <2>8. QED
    BY <2>6, <2>7
<1>22. Carried(h, OneOn(r, pos))'
  BY <1>21 DEF Carried
<1>23. PICK next : next = OneOn(r, pos)
  OBVIOUS
<1>24. next \in [Ranks -> Nat]
  BY <1>8, <1>23, OneOnType
<1>25. Tracks(h, next, told)'
  <2>1. Placed(h, next)' /\ Met(h, next)' /\ Carried(h, next)' /\ Heard(h, next, told)'
    BY <1>18, <1>19, <1>20, <1>22, <1>23
  <2>2. QED
    BY <1>2, <1>8, <1>24, <2>1, TracksNext
<1>26. QED
  BY <1>2, <1>4, <1>10, <1>23, <1>25

------------------------------------------------------------------------------
(* The order of the elements, and of the slots.                            *)

AtMost(a, b) == Compare(a, b) # 1

LEMMA AtMostOrder ==
  ASSUME NEW a \in Values, NEW b \in Values, NEW c \in Values
  PROVE  /\ AtMost(a, a)
         /\ AtMost(a, b) \/ AtMost(b, a)
         /\ AtMost(a, b) /\ AtMost(b, c) => AtMost(a, c)
         /\ Compare(a, b) = -1 <=> ~ AtMost(b, a)
<1>1. \A x \in Values : (x = NA /\ x \notin Int) \/ (x # NA /\ x \in Int)
  BY NAAssumption DEF Values
<1>2. nalast \in BOOLEAN
  BY DEF nalast
<1>3. ASSUME NEW x \in Values, NEW y \in Values
      PROVE  /\ Increasing(x, y) \in {-1, 0, 1}
             /\ Increasing(x, y) = 1 <=> Increasing(y, x) = -1
             /\ x = NA /\ y = NA => Increasing(x, y) = 0
             /\ x = NA /\ y # NA => Increasing(x, y) = IF nalast THEN 1 ELSE -1
             /\ x # NA /\ y = NA => Increasing(x, y) = IF nalast THEN -1 ELSE 1
             /\ x # NA /\ y # NA => /\ Increasing(x, y) = 1 <=> x > y
                                    /\ Increasing(x, y) = -1 <=> x < y
  <2>1. CASE x = NA
    BY <1>1, <1>2, <2>1 DEF Increasing
  <2>2. CASE x # NA /\ y = NA
    BY <1>1, <1>2, <2>2 DEF Increasing
  <2>3. CASE x # NA /\ y # NA
    BY <1>1, <2>3 DEF Increasing
  <2>4. QED
    BY <2>1, <2>2, <2>3
<1>4. CASE input.decreasing
  <2>1. \A x, y : Compare(x, y) = - Increasing(x, y)
    BY <1>4 DEF Compare
  <2>2. \A x, y \in Values : AtMost(x, y) <=> Increasing(x, y) # -1
    <3>1. SUFFICES ASSUME NEW x \in Values, NEW y \in Values
                   PROVE  AtMost(x, y) <=> Increasing(x, y) # -1
      OBVIOUS
    <3>2. Increasing(x, y) \in {-1, 0, 1}
      BY <1>3
    <3>3. QED
      BY <2>1, <3>2 DEF AtMost
  <2>3. AtMost(a, a) /\ (AtMost(a, b) \/ AtMost(b, a))
    BY <1>3, <2>2
  <2>4. AtMost(a, b) /\ AtMost(b, c) => AtMost(a, c)
    BY <1>1, <1>2, <1>3, <2>2
  <2>5. Compare(a, b) = -1 <=> ~ AtMost(b, a)
    <3>1. Increasing(a, b) \in {-1, 0, 1} /\ (Increasing(a, b) = 1 <=> Increasing(b, a) = -1)
      BY <1>3
    <3>2. QED
      BY <2>1, <2>2, <3>1
  <2>6. QED
    BY <2>3, <2>4, <2>5
<1>5. CASE ~ input.decreasing
  <2>1. \A x, y : Compare(x, y) = Increasing(x, y)
    BY <1>5 DEF Compare
  <2>2. \A x, y \in Values : AtMost(x, y) <=> Increasing(x, y) # 1
    BY <2>1 DEF AtMost
  <2>3. AtMost(a, a) /\ (AtMost(a, b) \/ AtMost(b, a))
    BY <1>3, <2>2
  <2>4. AtMost(a, b) /\ AtMost(b, c) => AtMost(a, c)
    BY <1>1, <1>2, <1>3, <2>2
  <2>5. Compare(a, b) = -1 <=> ~ AtMost(b, a)
    BY <1>3, <2>1, <2>2
  <2>6. QED
    BY <2>3, <2>4, <2>5
<1>6. QED
  BY <1>4, <1>5

\* The part before the slot ret: nothing, if it has fewer than two slots, or
\* else all slots from left to the one before ret.
LEMMA LeftPartIs ==
  ASSUME Lengths, NEW left \in Slots, NEW ret \in Slots, InOrder(left, ret)
  PROVE  \/ /\ LeftPart(left, ret) = <<>>
            /\ \A p, q \in Slots : ~ (InOrder(left, p) /\ Precedes(p, q) /\ Precedes(q, ret))
         \/ \E b \in Slots :
              /\ LeftPart(left, ret) = <<Stretch(left, b)>>
              /\ Precedes(left, b) /\ Precedes(b, ret)
              /\ \A q \in Slots : InOrder(left, q) /\ Precedes(q, ret) => InOrder(q, b)
<1>1. /\ left \in Spots /\ left.rank \in Ranks /\ left.index >= 0 /\ left.index < n_all[left.rank]
      /\ ret \in Spots /\ ret.rank \in Ranks /\ ret.index >= 0 /\ ret.index < n_all[ret.rank]
  BY SlotsAre
<1>2. /\ left.rank \in Nat /\ left.rank <= P - 1 /\ ret.rank \in Nat /\ ret.rank <= P - 1
      /\ left.index \in Nat /\ ret.index \in Nat /\ P \in Int
      /\ n_all[left.rank] \in Nat /\ n_all[ret.rank] \in Nat /\ left.rank <= ret.rank
  BY <1>1, SizeAssumption DEF Ranks, Spots, Lengths, InOrder, Precedes
<1>3. \A q \in Slots : /\ q \in Spots /\ q.rank \in Int /\ q.index \in Int /\ q.index >= 0
                       /\ q.index < n_all[q.rank] /\ q.rank \in Ranks /\ n_all[q.rank] \in Nat
  BY SlotsAre DEF Spots, Lengths
<1>4. ASSUME NEW b \in Slots, LeftPart(left, ret) = Recursion(left, b), Precedes(b, ret),
             \A q \in Slots : InOrder(left, q) /\ Precedes(q, ret) => InOrder(q, b)
      PROVE  \/ /\ LeftPart(left, ret) = <<>>
                /\ \A p, q \in Slots : ~ (InOrder(left, p) /\ Precedes(p, q) /\ Precedes(q, ret))
             \/ \E c \in Slots :
                  /\ LeftPart(left, ret) = <<Stretch(left, c)>>
                  /\ Precedes(left, c) /\ Precedes(c, ret)
                  /\ \A q \in Slots : InOrder(left, q) /\ Precedes(q, ret) => InOrder(q, c)
  <2>1. CASE Precedes(left, b)
    <3>1. LeftPart(left, ret) = <<Stretch(left, b)>>
      BY <1>4, <2>1 DEF Recursion
    <3>2. QED
      BY <1>4, <2>1, <3>1
  <2>2. CASE ~ Precedes(left, b)
    <3>1. LeftPart(left, ret) = <<>>
      BY <1>4, <2>2 DEF Recursion
    <3>2. ASSUME NEW p \in Slots, NEW q \in Slots, InOrder(left, p), Precedes(p, q), Precedes(q, ret)
          PROVE  FALSE
      <4>1. InOrder(left, q) /\ Precedes(left, q)
        BY <1>1, <1>3, <3>2, LinearOrder DEF InOrder
      <4>2. InOrder(q, b)
        BY <1>4, <3>2, <4>1
      <4>3. Precedes(left, b)
        BY <1>1, <1>3, <4>1, <4>2, LinearOrder
      <4>4. QED
        BY <2>2, <4>3
    <3>3. QED
      BY <3>1, <3>2
  <2>3. QED
    BY <2>1, <2>2
<1>5. CASE ret.index # 0
  <2>1. PICK b : b = Slot(ret.rank, ret.index - 1)
    OBVIOUS
  <2>2. b \in Slots /\ b.rank = ret.rank /\ b.index = ret.index - 1
    <3>1. ret.index - 1 \in Int /\ ret.index - 1 >= 0 /\ ret.index - 1 < n_all[ret.rank]
      BY <1>1, <1>2, <1>5
    <3>2. QED
      BY <1>1, <2>1, <3>1, SlotsAre DEF Slot
  <2>3. Precedes(b, ret)
    BY <1>2, <2>2 DEF Precedes
  <2>4. ASSUME NEW q \in Slots, Precedes(q, ret) PROVE InOrder(q, b)
    <3>1. /\ q \in Spots /\ q.rank \in Int /\ q.index \in Int /\ b \in Spots
      BY <1>3, <2>2
    <3>2. CASE q.rank = b.rank /\ q.index = b.index
      BY <3>1, <3>2, SpotEquality DEF InOrder
    <3>3. CASE ~ (q.rank = b.rank /\ q.index = b.index)
      BY <1>2, <2>2, <2>4, <3>1, <3>3 DEF InOrder, Precedes
    <3>4. QED
      BY <3>2, <3>3
  <2>5. LeftPart(left, ret) = Recursion(left, b)
    BY <1>5, <2>1 DEF LeftPart
  <2>6. QED
    BY <1>4, <2>2, <2>3, <2>4, <2>5
<1>6. CASE ret.index = 0 /\ NonEmpty(left.rank, ret.rank - 1) # {}
  <2>1. PICK m : m = Max(NonEmpty(left.rank, ret.rank - 1))
    OBVIOUS
  <2>2. m \in left.rank..(ret.rank - 1) /\ n_all[m] # 0
    BY <1>2, <1>6, <2>1, NonEmptyRanks
  <2>3. \A r \in left.rank..(ret.rank - 1) : n_all[r] # 0 => r <= m
    <3>1. NonEmpty(left.rank, ret.rank - 1) \in SUBSET Nat
      BY <1>2 DEF NonEmpty
    <3>2. \A x \in NonEmpty(left.rank, ret.rank - 1) : x <= P
      BY <1>2 DEF NonEmpty
    <3>3. P \in Nat
      BY SizeAssumption
    <3>4. \A x \in NonEmpty(left.rank, ret.rank - 1) : x <= m
      BY <1>6, <2>1, <3>1, <3>2, <3>3, MinMax
    <3>5. QED
      BY <3>4 DEF NonEmpty
  <2>4. m \in Ranks /\ m \in Int /\ n_all[m] \in Nat /\ n_all[m] > 0 /\ m < ret.rank
    <3>1. m \in Int /\ m < ret.rank /\ m \in Ranks
      BY <1>2, <2>2 DEF Ranks
    <3>2. n_all[m] \in Nat
      BY <3>1 DEF Lengths
    <3>3. QED
      BY <2>2, <3>1, <3>2
  <2>5. PICK b : b = LastSlot(m)
    OBVIOUS
  <2>6. b \in Slots /\ b.rank = m /\ b.index = n_all[m] - 1
    BY <2>4, <2>5, SlotsAre DEF LastSlot, Slot
  <2>7. Precedes(b, ret)
    BY <1>2, <2>4, <2>6 DEF Precedes
  <2>8. ASSUME NEW q \in Slots, InOrder(left, q), Precedes(q, ret) PROVE InOrder(q, b)
    <3>1. /\ q \in Spots /\ q.rank \in Int /\ q.index \in Int /\ b \in Spots /\ q.index >= 0
          /\ q.index < n_all[q.rank] /\ n_all[q.rank] \in Nat
      BY <1>3, <2>6
    <3>2. left.rank <= q.rank /\ q.rank < ret.rank
      BY <1>2, <1>6, <2>8, <3>1 DEF InOrder, Precedes
    <3>3. q.rank <= m
      BY <1>2, <2>3, <3>1, <3>2
    <3>4. CASE q.rank = b.rank /\ q.index = b.index
      BY <3>1, <3>4, SpotEquality DEF InOrder
    <3>5. CASE ~ (q.rank = b.rank /\ q.index = b.index)
      BY <2>4, <2>6, <3>1, <3>3, <3>5 DEF InOrder, Precedes
    <3>6. QED
      BY <3>4, <3>5
  <2>9. LeftPart(left, ret) = Recursion(left, b)
    BY <1>6, <2>1, <2>5 DEF LeftPart
  <2>10. QED
    BY <1>4, <2>6, <2>7, <2>8, <2>9
<1>7. CASE ret.index = 0 /\ NonEmpty(left.rank, ret.rank - 1) = {}
  <2>1. LeftPart(left, ret) = <<>>
    BY <1>7 DEF LeftPart
  <2>2. ASSUME NEW p \in Slots, NEW q \in Slots, InOrder(left, p), Precedes(p, q), Precedes(q, ret)
        PROVE  FALSE
    <3>1. InOrder(left, q)
      BY <1>1, <1>3, <2>2, LinearOrder DEF InOrder
    <3>2. /\ q.rank \in Int /\ q.index \in Int /\ q.index >= 0
          /\ q.index < n_all[q.rank] /\ n_all[q.rank] \in Nat
      BY <1>3
    <3>3. left.rank <= q.rank /\ q.rank < ret.rank
      BY <1>2, <1>7, <2>2, <3>1, <3>2 DEF InOrder, Precedes
    <3>4. q.rank \in NonEmpty(left.rank, ret.rank - 1)
      BY <1>2, <3>2, <3>3 DEF NonEmpty
    <3>5. QED
      BY <1>7, <3>4
  <2>3. QED
    BY <2>1, <2>2
<1>8. QED
  BY <1>5, <1>6, <1>7

\* The part after the slot ret.
LEMMA RightPartIs ==
  ASSUME Lengths, NEW right \in Slots, NEW ret \in Slots, InOrder(ret, right)
  PROVE  \/ /\ RightPart(right, ret) = <<>>
            /\ \A p, q \in Slots : ~ (Precedes(ret, p) /\ Precedes(p, q) /\ InOrder(q, right))
         \/ \E a \in Slots :
              /\ RightPart(right, ret) = <<Stretch(a, right)>>
              /\ Precedes(ret, a) /\ Precedes(a, right)
              /\ \A q \in Slots : Precedes(ret, q) /\ InOrder(q, right) => InOrder(a, q)
<1>1. /\ right \in Spots /\ right.rank \in Ranks /\ right.index >= 0
      /\ right.index < n_all[right.rank]
      /\ ret \in Spots /\ ret.rank \in Ranks /\ ret.index >= 0 /\ ret.index < n_all[ret.rank]
  BY SlotsAre
<1>2. /\ right.rank \in Nat /\ right.rank <= P - 1 /\ ret.rank \in Nat /\ ret.rank <= P - 1
      /\ right.index \in Nat /\ ret.index \in Nat /\ P \in Int
      /\ n_all[right.rank] \in Nat /\ n_all[ret.rank] \in Nat /\ ret.rank <= right.rank
  BY <1>1, SizeAssumption DEF Ranks, Spots, Lengths, InOrder, Precedes
<1>3. \A q \in Slots : /\ q \in Spots /\ q.rank \in Int /\ q.index \in Int /\ q.index >= 0
                       /\ q.index < n_all[q.rank] /\ q.rank \in Ranks /\ n_all[q.rank] \in Nat
  BY SlotsAre DEF Spots, Lengths
<1>4. ASSUME NEW a \in Slots, RightPart(right, ret) = Recursion(a, right), Precedes(ret, a),
             \A q \in Slots : Precedes(ret, q) /\ InOrder(q, right) => InOrder(a, q)
      PROVE  \/ /\ RightPart(right, ret) = <<>>
                /\ \A p, q \in Slots : ~ (Precedes(ret, p) /\ Precedes(p, q) /\ InOrder(q, right))
             \/ \E c \in Slots :
                  /\ RightPart(right, ret) = <<Stretch(c, right)>>
                  /\ Precedes(ret, c) /\ Precedes(c, right)
                  /\ \A q \in Slots : Precedes(ret, q) /\ InOrder(q, right) => InOrder(c, q)
  <2>1. CASE Precedes(a, right)
    <3>1. RightPart(right, ret) = <<Stretch(a, right)>>
      BY <1>4, <2>1 DEF Recursion
    <3>2. QED
      BY <1>4, <2>1, <3>1
  <2>2. CASE ~ Precedes(a, right)
    <3>1. RightPart(right, ret) = <<>>
      BY <1>4, <2>2 DEF Recursion
    <3>2. ASSUME NEW p \in Slots, NEW q \in Slots, Precedes(ret, p), Precedes(p, q), InOrder(q, right)
          PROVE  FALSE
      <4>1. InOrder(p, right) /\ Precedes(p, right)
        BY <1>1, <1>3, <3>2, LinearOrder DEF InOrder
      <4>2. InOrder(a, p)
        BY <1>4, <3>2, <4>1
      <4>3. Precedes(a, right)
        BY <1>1, <1>3, <4>1, <4>2, LinearOrder
      <4>4. QED
        BY <2>2, <4>3
    <3>3. QED
      BY <3>1, <3>2
  <2>3. QED
    BY <2>1, <2>2
<1>5. CASE ret.index # n_all[ret.rank] - 1
  <2>1. PICK a : a = Slot(ret.rank, ret.index + 1)
    OBVIOUS
  <2>2. a \in Slots /\ a.rank = ret.rank /\ a.index = ret.index + 1
    <3>1. ret.index + 1 \in Int /\ ret.index + 1 >= 0 /\ ret.index + 1 < n_all[ret.rank]
      BY <1>1, <1>2, <1>5
    <3>2. QED
      BY <1>1, <2>1, <3>1, SlotsAre DEF Slot
  <2>3. Precedes(ret, a)
    BY <1>2, <2>2 DEF Precedes
  <2>4. ASSUME NEW q \in Slots, Precedes(ret, q) PROVE InOrder(a, q)
    <3>1. /\ q \in Spots /\ q.rank \in Int /\ q.index \in Int /\ a \in Spots
      BY <1>3, <2>2
    <3>2. CASE q.rank = a.rank /\ q.index = a.index
      BY <3>1, <3>2, SpotEquality DEF InOrder
    <3>3. CASE ~ (q.rank = a.rank /\ q.index = a.index)
      BY <1>2, <2>2, <2>4, <3>1, <3>3 DEF InOrder, Precedes
    <3>4. QED
      BY <3>2, <3>3
  <2>5. RightPart(right, ret) = Recursion(a, right)
    BY <1>5, <2>1 DEF RightPart
  <2>6. QED
    BY <1>4, <2>2, <2>3, <2>4, <2>5
<1>6. CASE ret.index = n_all[ret.rank] - 1 /\ NonEmpty(ret.rank + 1, right.rank) # {}
  <2>1. PICK m : m = Min(NonEmpty(ret.rank + 1, right.rank))
    OBVIOUS
  <2>2. /\ m \in (ret.rank + 1)..right.rank /\ n_all[m] # 0
        /\ \A r \in (ret.rank + 1)..right.rank : n_all[r] # 0 => m <= r
    BY <1>2, <1>6, <2>1, NonEmptyRanks
  <2>3. m \in Ranks /\ m \in Int /\ n_all[m] \in Nat /\ n_all[m] > 0 /\ m > ret.rank
    BY <1>2, <2>2 DEF Ranks, Lengths
  <2>4. PICK a : a = Slot(m, 0)
    OBVIOUS
  <2>5. a \in Slots /\ a.rank = m /\ a.index = 0
    BY <2>3, <2>4, SlotsAre DEF Slot
  <2>6. Precedes(ret, a)
    BY <1>2, <2>3, <2>5 DEF Precedes
  <2>7. ASSUME NEW q \in Slots, Precedes(ret, q), InOrder(q, right) PROVE InOrder(a, q)
    <3>1. /\ q \in Spots /\ q.rank \in Int /\ q.index \in Int /\ a \in Spots /\ q.index >= 0
          /\ q.index < n_all[q.rank] /\ n_all[q.rank] \in Nat
      BY <1>3, <2>5
    <3>2. q.rank <= right.rank /\ ret.rank < q.rank
      BY <1>2, <1>6, <2>7, <3>1 DEF InOrder, Precedes
    <3>3. m <= q.rank
      BY <1>2, <2>2, <3>1, <3>2
    <3>4. CASE q.rank = a.rank /\ q.index = a.index
      BY <3>1, <3>4, SpotEquality DEF InOrder
    <3>5. CASE ~ (q.rank = a.rank /\ q.index = a.index)
      BY <2>3, <2>5, <3>1, <3>3, <3>5 DEF InOrder, Precedes
    <3>6. QED
      BY <3>4, <3>5
  <2>8. RightPart(right, ret) = Recursion(a, right)
    BY <1>6, <2>1, <2>4 DEF RightPart
  <2>9. QED
    BY <1>4, <2>5, <2>6, <2>7, <2>8
<1>7. CASE ret.index = n_all[ret.rank] - 1 /\ NonEmpty(ret.rank + 1, right.rank) = {}
  <2>1. RightPart(right, ret) = <<>>
    BY <1>7 DEF RightPart
  <2>2. ASSUME NEW p \in Slots, NEW q \in Slots, Precedes(ret, p), Precedes(p, q), InOrder(q, right)
        PROVE  FALSE
    <3>1. InOrder(p, right)
      BY <1>1, <1>3, <2>2, LinearOrder DEF InOrder
    <3>2. /\ p.rank \in Int /\ p.index \in Int /\ p.index >= 0
          /\ p.index < n_all[p.rank] /\ n_all[p.rank] \in Nat
      BY <1>3
    <3>3. ret.rank < p.rank /\ p.rank <= right.rank
      BY <1>2, <1>7, <2>2, <3>1, <3>2 DEF InOrder, Precedes
    <3>4. p.rank \in NonEmpty(ret.rank + 1, right.rank)
      BY <1>2, <3>2, <3>3 DEF NonEmpty
    <3>5. QED
      BY <1>7, <3>4
  <2>3. QED
    BY <2>1, <2>2
<1>8. QED
  BY <1>5, <1>6, <1>7

------------------------------------------------------------------------------
(* The quicksort of the story: the invariant that its moments have.        *)

Inside(p, part) == InOrder(part.left, p) /\ InOrder(p, part.right)

\* The stretches that are not sorted yet.
Open(l) ==
  {l.todo[k] : k \in 1..Len(l.todo)}
    \cup (IF l.pc \in {"scan", "swap"} THEN {Stretch(l.left, l.right)} ELSE {})

\* They lie one after another.
Ascending(l) ==
  /\ \A j, k \in 1..Len(l.todo) : j < k => Precedes(l.todo[j].right, l.todo[k].left)
  /\ l.pc \in {"scan", "swap"} => \A k \in 1..Len(l.todo) : Precedes(l.right, l.todo[k].left)

\* Two elements that are in no open stretch together are in order.
Covers(open, v) ==
  \A p, q \in Slots : Precedes(p, q) =>
    AtMost(v[p], v[q]) \/ \E part \in open : Inside(p, part) /\ Inside(q, part)

\* The boundary divides what the loop has compared with the pivot.
Divided(l, v) ==
  /\ v[l.right] = l.pivot
  /\ \A p \in Slots :
       /\ InOrder(l.left, p) /\ Precedes(p, l.ret) => ~ AtMost(l.pivot, v[p])
       /\ InOrder(l.ret, p) /\ Precedes(p, l.i) => AtMost(l.pivot, v[p])

\* What is exchanged: the pivot goes to the right end, an element before the
\* pivot to the boundary, the pivot to the boundary.
Purpose(l, v) ==
  /\ l.then = "scan" => /\ InOrder(l.left, l.from) /\ InOrder(l.from, l.right)
                        /\ l.to = l.right /\ v[l.from] = l.pivot
  /\ l.then = "next" => l.from = l.i /\ l.to = l.ret /\ ~ AtMost(l.pivot, v[l.i])
  /\ l.then = "sort" => l.from = l.ret /\ l.to = l.right /\ l.i = l.right

SeqInv(m) ==
  /\ Ascending(m.l) /\ Covers(Open(m.l), m.v)
  /\ Moving(m.l) => Divided(m.l, m.v)
  /\ m.l.pc = "swap" => Purpose(m.l, m.v)
  /\ m.l.pc = "done" => m.l.todo = <<>>

LEMMA OpenStretches ==
  ASSUME Lengths, NEW m, Moment(m), Ascending(m.l)
  PROVE  /\ Open(m.l) \subseteq Stretches
         /\ \A A, B \in Open(m.l) : A = B \/ Precedes(A.right, B.left) \/ Precedes(B.right, A.left)
<1>1. PICK l : l = m.l
  OBVIOUS
<1>2. LocalInv(l) /\ l \in Locals /\ l.todo \in Seq(Stretches) /\ Len(l.todo) \in Nat
  BY <1>1 DEF Moment, LocalInv, Locals
<1>3. \A k \in 1..Len(l.todo) : l.todo[k] \in Stretches
  BY <1>2
<1>4. l.pc \in {"scan", "swap"} => /\ Stretch(l.left, l.right) \in Stretches
                                  /\ Stretch(l.left, l.right).right = l.right
  BY <1>2 DEF LocalInv, Within, Stretch, Stretches
<1>5. \A j, k \in 1..Len(l.todo) :
        \/ l.todo[j] = l.todo[k] \/ Precedes(l.todo[j].right, l.todo[k].left)
        \/ Precedes(l.todo[k].right, l.todo[j].left)
  <2>1. SUFFICES ASSUME NEW j \in 1..Len(l.todo), NEW k \in 1..Len(l.todo)
                 PROVE  \/ l.todo[j] = l.todo[k] \/ Precedes(l.todo[j].right, l.todo[k].left)
                        \/ Precedes(l.todo[k].right, l.todo[j].left)
    OBVIOUS
  <2>2. j = k \/ j < k \/ k < j
    BY <1>2
  <2>3. QED
    BY <1>1, <2>2 DEF Ascending
<1>6. l.pc \in {"scan", "swap"} =>
        \A k \in 1..Len(l.todo) : Precedes(Stretch(l.left, l.right).right, l.todo[k].left)
  BY <1>1, <1>4 DEF Ascending
<1>7. Open(l) \subseteq Stretches
  BY <1>3, <1>4 DEF Open
<1>8. ASSUME NEW A \in Open(l), NEW B \in Open(l)
      PROVE  A = B \/ Precedes(A.right, B.left) \/ Precedes(B.right, A.left)
  <2>1. (\E k \in 1..Len(l.todo) : A = l.todo[k]) \/
        (l.pc \in {"scan", "swap"} /\ A = Stretch(l.left, l.right))
    BY DEF Open
  <2>2. (\E k \in 1..Len(l.todo) : B = l.todo[k]) \/
        (l.pc \in {"scan", "swap"} /\ B = Stretch(l.left, l.right))
    BY DEF Open
  <2>3. QED
    BY <1>5, <1>6, <2>1, <2>2
<1>9. QED
  BY <1>1, <1>7, <1>8

\* No slot is in two open stretches.
LEMMA OnlyIn ==
  ASSUME Lengths, NEW open \in SUBSET Stretches,
         \A A, B \in open : A = B \/ Precedes(A.right, B.left) \/ Precedes(B.right, A.left),
         NEW A \in open, NEW B \in open, NEW p \in Slots, Inside(p, A), Inside(p, B)
  PROVE  A = B
<1>1. /\ A.left \in Spots /\ A.right \in Spots /\ B.left \in Spots /\ B.right \in Spots
      /\ p \in Spots
  <2>1. A.left \in Slots /\ A.right \in Slots /\ B.left \in Slots /\ B.right \in Slots
    BY DEF Stretches
  <2>2. QED
    BY <2>1, SlotsAre
<1>2. ASSUME Precedes(A.right, B.left) PROVE FALSE
  <2>1. Precedes(p, B.left)
    BY <1>1, <1>2, LinearOrder DEF Inside
  <2>2. Precedes(p, p)
    BY <1>1, <2>1, LinearOrder DEF Inside
  <2>3. QED
    BY <1>1, <2>2, LinearOrder
<1>3. ASSUME Precedes(B.right, A.left) PROVE FALSE
  <2>1. Precedes(p, A.left)
    BY <1>1, <1>3, LinearOrder DEF Inside
  <2>2. Precedes(p, p)
    BY <1>1, <2>1, LinearOrder DEF Inside
  <2>3. QED
    BY <1>1, <2>2, LinearOrder
<1>4. QED
  BY <1>2, <1>3

\* An exchange within an open stretch puts nothing out of order.
LEMMA CoversExchange ==
  ASSUME Lengths, NEW open \in SUBSET Stretches,
         \A A, B \in open : A = B \/ Precedes(A.right, B.left) \/ Precedes(B.right, A.left),
         NEW v, Covers(open, v), NEW part \in open, NEW a \in Slots, NEW b \in Slots,
         Inside(a, part), Inside(b, part), NEW w,
         \A p \in Slots : w[p] = IF p = a THEN v[b] ELSE IF p = b THEN v[a] ELSE v[p]
  PROVE  Covers(open, w)
<1> DEFINE f(p) == IF p = a THEN b ELSE IF p = b THEN a ELSE p
<1>1. \A p \in Slots : /\ f(p) \in Slots /\ w[p] = v[f(p)]
                       /\ Inside(p, part) => Inside(f(p), part)
                       /\ ~ Inside(p, part) => f(p) = p
  OBVIOUS
<1>2. \A p, q \in Slots : Precedes(p, q) /\ Inside(p, part) /\ ~ Inside(q, part) =>
        Precedes(part.right, q)
  <2>1. SUFFICES ASSUME NEW p \in Slots, NEW q \in Slots, Precedes(p, q), Inside(p, part),
                        ~ Inside(q, part)
                 PROVE  Precedes(part.right, q)
    OBVIOUS
  <2>2. part.left \in Spots /\ part.right \in Spots /\ p \in Spots /\ q \in Spots
    BY SlotsAre DEF Stretches
  <2>3. InOrder(part.left, q)
    BY <2>1, <2>2, LinearOrder DEF Inside, InOrder
  <2>4. ~ InOrder(q, part.right)
    BY <2>1, <2>3 DEF Inside
  <2>5. QED
    BY <2>2, <2>4, LinearOrder DEF InOrder
<1>3. \A p, q \in Slots : Precedes(p, q) /\ ~ Inside(p, part) /\ Inside(q, part) =>
        Precedes(p, part.left)
  <2>1. SUFFICES ASSUME NEW p \in Slots, NEW q \in Slots, Precedes(p, q), ~ Inside(p, part),
                        Inside(q, part)
                 PROVE  Precedes(p, part.left)
    OBVIOUS
  <2>2. part.left \in Spots /\ part.right \in Spots /\ p \in Spots /\ q \in Spots
    BY SlotsAre DEF Stretches
  <2>3. InOrder(p, part.right)
    BY <2>1, <2>2, LinearOrder DEF Inside, InOrder
  <2>4. ~ InOrder(part.left, p)
    BY <2>1, <2>3 DEF Inside
  <2>5. QED
    BY <2>2, <2>4, LinearOrder DEF InOrder
<1>4. ASSUME NEW p \in Slots, NEW q \in Slots, Precedes(p, q),
             ~ (\E A \in open : Inside(p, A) /\ Inside(q, A))
      PROVE  AtMost(w[p], w[q])
  <2>1. f(p) \in Slots /\ f(q) \in Slots /\ w[p] = v[f(p)] /\ w[q] = v[f(q)]
    BY <1>1
  <2>2. part.left \in Spots /\ part.right \in Spots /\ p \in Spots /\ q \in Spots
        /\ f(p) \in Spots /\ f(q) \in Spots
    BY <2>1, SlotsAre DEF Stretches
  <2> HIDE DEF f
  <2>3. ~ (Inside(p, part) /\ Inside(q, part))
    BY <1>4
  <2>4. CASE Inside(p, part)
    <3>1. ~ Inside(q, part) /\ f(q) = q /\ Inside(f(p), part)
      BY <1>1, <2>3, <2>4
    <3>2. Precedes(part.right, q)
      BY <1>2, <1>4, <2>4, <3>1
    <3>3. Precedes(f(p), q)
      BY <2>2, <3>1, <3>2, LinearOrder DEF Inside
    <3>4. ASSUME NEW A \in open, Inside(f(p), A), Inside(q, A) PROVE FALSE
      <4>1. A = part
        BY <2>1, <3>1, <3>4, OnlyIn
      <4>2. QED
        BY <3>1, <3>4, <4>1
    <3>5. QED
      BY <2>1, <3>1, <3>3, <3>4 DEF Covers
  <2>5. CASE ~ Inside(p, part) /\ Inside(q, part)
    <3>1. f(p) = p /\ Inside(f(q), part)
      BY <1>1, <2>5
    <3>2. Precedes(p, part.left)
      BY <1>3, <1>4, <2>5
    <3>3. Precedes(p, f(q))
      BY <2>2, <3>1, <3>2, LinearOrder DEF Inside
    <3>4. ASSUME NEW A \in open, Inside(p, A), Inside(f(q), A) PROVE FALSE
      <4>1. A = part
        BY <2>1, <3>1, <3>4, OnlyIn
      <4>2. QED
        BY <2>5, <3>4, <4>1
    <3>5. QED
      BY <2>1, <3>1, <3>3, <3>4 DEF Covers
  <2>6. CASE ~ Inside(p, part) /\ ~ Inside(q, part)
    <3>1. f(p) = p /\ f(q) = q
      BY <1>1, <2>6
    <3>2. QED
      BY <1>4, <2>1, <3>1 DEF Covers
  <2>7. QED
    BY <2>4, <2>5, <2>6
<1>5. QED
  BY <1>4 DEF Covers

\* Where the local variables are after a step.
LEMMA ScanFields ==
  ASSUME NEW l \in Locals
  PROVE  /\ Scan(l).todo = l.todo /\ Scan(l).left = l.left /\ Scan(l).right = l.right
         /\ Scan(l).i = l.i /\ Scan(l).ret = l.ret /\ Scan(l).pivot = l.pivot
         /\ l.i # l.right => Scan(l).pc = "scan"
         /\ l.i = l.right => /\ Scan(l).pc = "swap" /\ Scan(l).then = "sort"
                             /\ Scan(l).from = l.ret /\ Scan(l).to = l.right
BY DEF Scan, Exchange, Locals

LEMMA PartitionFields ==
  ASSUME NEW l \in Locals, NEW value, NEW n, n = Partition(l, value)
  PROVE  /\ n.pc = "swap" /\ n.then = "scan" /\ n.todo = Tail(l.todo) /\ n.pivot = value
         /\ n.left = Head(l.todo).left /\ n.right = Head(l.todo).right
         /\ n.from = Pivot(Head(l.todo).left, Head(l.todo).right) /\ n.to = Head(l.todo).right
BY DEF Partition, Exchange, Locals

\* The loop goes on, or ends with the exchange of the boundary and the pivot.
LEMMA LoopGoesOn ==
  ASSUME NEW l \in Locals, NEW v, Divided(l, v),
         \A k \in 1..Len(l.todo) : Precedes(l.right, l.todo[k].left),
         \A j, k \in 1..Len(l.todo) : j < k => Precedes(l.todo[j].right, l.todo[k].left),
         NEW n, n = Scan(l), Covers({l.todo[k] : k \in 1..Len(l.todo)} \cup {Stretch(l.left, l.right)}, v),
         NEW c
  PROVE  SeqInv([l |-> n, v |-> v, c |-> c])
<1>1. /\ n.todo = l.todo /\ n.left = l.left /\ n.right = l.right
      /\ n.i = l.i /\ n.ret = l.ret /\ n.pivot = l.pivot
      /\ l.i # l.right => n.pc = "scan"
      /\ l.i = l.right => n.pc = "swap" /\ n.then = "sort" /\ n.from = l.ret /\ n.to = l.right
  BY ScanFields
<1>2. n.pc \in {"scan", "swap"}
  BY <1>1
<1>3. Ascending(n) /\ Divided(n, v)
  BY <1>1 DEF Ascending, Divided
<1>4. Open(n) = {l.todo[k] : k \in 1..Len(l.todo)} \cup {Stretch(l.left, l.right)}
  BY <1>1, <1>2 DEF Open
<1>5. n.pc = "swap" => Purpose(n, v)
  BY <1>1 DEF Purpose
<1>6. QED
  BY <1>2, <1>3, <1>4, <1>5 DEF SeqInv

\* The first exchange of a partition takes the pivot to the right end.
LEMMA SeqSort ==
  ASSUME Lengths, NEW m, Moment(m), SeqInv(m), m.l.pc = "sort"
  PROVE  SeqInv(NextMoment(m))
<1>1. PICK l, v, n : l = m.l /\ v = m.v /\ n = Partition(l, Told(l, v))
  OBVIOUS
<1>2. /\ LocalInv(l) /\ l \in Locals /\ l.todo \in Seq(Stretches) /\ l.todo # <<>> /\ l.pc = "sort"
      /\ Len(l.todo) \in Nat
  BY <1>1 DEF Moment, LocalInv, Locals
<1>3. PICK part : part = Head(l.todo)
  OBVIOUS
<1>4. /\ part \in Stretches /\ part = l.todo[1]
      /\ Tail(l.todo) \in Seq(Stretches) /\ Len(Tail(l.todo)) = Len(l.todo) - 1
      /\ Len(l.todo) >= 1 /\ \A k \in 1..Len(Tail(l.todo)) : Tail(l.todo)[k] = l.todo[k + 1]
  BY <1>2, <1>3
<1>5. /\ part.left \in Slots /\ part.right \in Slots /\ Precedes(part.left, part.right)
  BY <1>4 DEF Stretches
<1>6. PICK pivot : pivot = Pivot(part.left, part.right)
  OBVIOUS
<1>7. pivot \in Slots /\ InOrder(part.left, pivot) /\ InOrder(pivot, part.right)
  BY <1>5, <1>6, PivotSlot
<1>8. /\ n.pc = "swap" /\ n.then = "scan" /\ n.todo = Tail(l.todo) /\ n.pivot = Told(l, v)
      /\ n.left = part.left /\ n.right = part.right
      /\ n.from = pivot /\ n.to = part.right
  BY <1>1, <1>2, <1>3, <1>6, PartitionFields
<1>9. Told(l, v) = v[pivot]
  BY <1>2, <1>3, <1>6 DEF Told, Asked
<1>10. NextMoment(m).l = n /\ NextMoment(m).v = v
  BY <1>1, <1>2 DEF NextMoment, Turn, Asks, Joined, Swapped
<1>11. Ascending(l) /\ Covers(Open(l), v)
  BY <1>1 DEF SeqInv
<1>12. Ascending(n)
  <2>1. ASSUME NEW j \in 1..Len(n.todo), NEW k \in 1..Len(n.todo), j < k
        PROVE  Precedes(n.todo[j].right, n.todo[k].left)
    <3>1. n.todo[j] = l.todo[j + 1] /\ n.todo[k] = l.todo[k + 1]
      BY <1>4, <1>8
    <3>2. j + 1 \in 1..Len(l.todo) /\ k + 1 \in 1..Len(l.todo) /\ j + 1 < k + 1
      BY <1>2, <1>4, <1>8, <2>1
    <3>3. QED
      BY <1>11, <3>1, <3>2 DEF Ascending
  <2>2. ASSUME NEW k \in 1..Len(n.todo) PROVE Precedes(n.right, n.todo[k].left)
    <3>1. n.todo[k] = l.todo[k + 1] /\ n.right = l.todo[1].right
      BY <1>4, <1>8
    <3>2. 1 \in 1..Len(l.todo) /\ k + 1 \in 1..Len(l.todo) /\ 1 < k + 1
      BY <1>2, <1>4, <1>8
    <3>3. QED
      BY <1>11, <3>1, <3>2 DEF Ascending
  <2>3. QED
    BY <2>1, <2>2 DEF Ascending
<1>13. Open(l) \subseteq Open(n)
  <2>1. Stretch(n.left, n.right) = part
    BY <1>4, <1>8 DEF Stretch, Stretches
  <2>2. ASSUME NEW k \in 1..Len(l.todo) PROVE l.todo[k] \in Open(n)
    <3>1. CASE k = 1
      BY <1>4, <1>8, <2>1, <3>1 DEF Open
    <3>2. CASE k # 1
      <4>1. k - 1 \in 1..Len(n.todo) /\ n.todo[k - 1] = l.todo[k]
        BY <1>2, <1>4, <1>8, <3>2
      <4>2. QED
        BY <4>1 DEF Open
    <3>3. QED
      BY <3>1, <3>2
  <2>3. QED
    BY <1>2, <2>2 DEF Open
<1>14. Covers(Open(n), v)
  BY <1>11, <1>13 DEF Covers
<1>15. Purpose(n, v)
  BY <1>7, <1>8, <1>9 DEF Purpose
<1>16. ~ Moving(n)
  BY <1>8 DEF Moving
<1>17. QED
  BY <1>8, <1>10, <1>12, <1>14, <1>15, <1>16 DEF SeqInv

\* A comparison takes the loop to the next element, or to an exchange.
LEMMA SeqScan ==
  ASSUME Lengths, NEW m, Moment(m), SeqInv(m), m.l.pc = "scan"
  PROVE  SeqInv(NextMoment(m))
<1>1. PICK l, v, check : l = m.l /\ v = m.v /\ check = Compare(v[l.i], l.pivot)
  OBVIOUS
<1>2. /\ LocalInv(l) /\ l \in Locals /\ l.pc = "scan" /\ v \in [Slots -> Values]
      /\ Within(l) /\ Ordered(l) /\ l.i # l.right /\ l.pivot \in Values
  BY <1>1 DEF Moment, LocalInv, Moving, Locals
<1>3. NextMoment(m).l = Compared(l, check) /\ NextMoment(m).v = v
  BY <1>1, <1>2 DEF NextMoment, Turn, Asks, Joined, Swapped, Told, Asked
<1>4. Ascending(l) /\ Covers(Open(l), v) /\ Divided(l, v)
  BY <1>1, <1>2 DEF SeqInv, Moving
<1>5. /\ l.i \in Slots /\ l.ret \in Slots /\ l.left \in Slots /\ l.right \in Slots
      /\ InOrder(l.left, l.ret) /\ InOrder(l.ret, l.i) /\ Precedes(l.i, l.right)
  <2>1. /\ l.i \in Slots /\ l.right \in Slots /\ InOrder(l.i, l.right)
    BY <1>2 DEF Within, Ordered
  <2>2. l.i \in Spots /\ l.right \in Spots
    BY <2>1, SlotsAre
  <2>3. QED
    BY <1>2, <2>1, <2>2, LinearOrder DEF Within, Ordered
<1>6. v[l.i] \in Values
  BY <1>2, <1>5
<1>7. check = -1 <=> ~ AtMost(l.pivot, v[l.i])
  BY <1>1, <1>2, <1>6, AtMostOrder
<1>8. CASE check = -1
  <2>1. PICK n : n = Exchange(l, l.i, l.ret, "next")
    OBVIOUS
  <2>2. /\ n.pc = "swap" /\ n.then = "next" /\ n.from = l.i /\ n.to = l.ret /\ n.todo = l.todo
        /\ n.left = l.left /\ n.right = l.right /\ n.i = l.i /\ n.ret = l.ret /\ n.pivot = l.pivot
    BY <1>2, <2>1 DEF Exchange, Locals
  <2>3. NextMoment(m).l = n
    BY <1>3, <1>8, <2>1 DEF Compared
  <2>4. Ascending(n) /\ Divided(n, v)
    BY <1>2, <1>4, <2>2 DEF Ascending, Divided
  <2>5. Open(n) = Open(l)
    BY <1>2, <2>2 DEF Open
  <2>6. Purpose(n, v)
    BY <1>7, <1>8, <2>2 DEF Purpose
  <2>7. QED
    BY <1>3, <1>4, <2>2, <2>3, <2>4, <2>5, <2>6 DEF SeqInv
<1>9. CASE check # -1
  <2>1. PICK next : next = Following(l.i, l.right)
    OBVIOUS
  <2>2. /\ next \in Slots /\ Precedes(l.i, next)
        /\ \A q \in Slots : Precedes(l.i, q) /\ InOrder(q, l.right) => InOrder(next, q)
    BY <1>5, <2>1, FollowingSlot
  <2>3. PICK x : x = [l EXCEPT !.i = next]
    OBVIOUS
  <2>4. /\ x \in Locals /\ x.todo = l.todo /\ x.left = l.left /\ x.right = l.right
        /\ x.ret = l.ret /\ x.pivot = l.pivot /\ x.i = next
    <3>1. next \in Spots
      BY <2>2, SlotsAre
    <3>2. QED
      BY <1>2, <2>3, <3>1 DEF Locals
  <2>5. NextMoment(m).l = Scan(x)
    BY <1>3, <1>9, <2>1, <2>3 DEF Compared
  <2>6. Divided(x, v)
    <3>1. ASSUME NEW p \in Slots, Precedes(p, next) PROVE InOrder(p, l.i)
      <4>1. p \in Spots /\ next \in Spots /\ l.i \in Spots /\ l.right \in Spots
        BY <1>5, <2>2, SlotsAre
      <4>2. SUFFICES ASSUME Precedes(l.i, p) PROVE FALSE
        BY <4>1, LinearOrder DEF InOrder
      <4>3. InOrder(next, l.right)
        BY <1>5, <2>2 DEF InOrder
      <4>4. InOrder(p, l.right)
        BY <3>1, <4>1, <4>3, LinearOrder DEF InOrder
      <4>5. InOrder(next, p)
        BY <2>2, <4>2, <4>4
      <4>6. QED
        BY <3>1, <4>1, <4>5, LinearOrder
    <3>2. \A p \in Slots : InOrder(l.ret, p) /\ Precedes(p, next) => AtMost(l.pivot, v[p])
      BY <1>4, <1>7, <1>9, <3>1 DEF Divided, InOrder
    <3>3. QED
      BY <1>4, <2>4, <3>2 DEF Divided
  <2>7. Open(l) = {x.todo[k] : k \in 1..Len(x.todo)} \cup {Stretch(x.left, x.right)}
    BY <1>2, <2>4 DEF Open
  <2>8. /\ \A k \in 1..Len(x.todo) : Precedes(x.right, x.todo[k].left)
        /\ \A j, k \in 1..Len(x.todo) : j < k => Precedes(x.todo[j].right, x.todo[k].left)
    BY <1>2, <1>4, <2>4 DEF Ascending
  <2>9. PICK c : c = NextMoment(m).c
    OBVIOUS
  <2>10. SeqInv([l |-> Scan(x), v |-> v, c |-> c])
    BY <1>4, <2>4, <2>6, <2>7, <2>8, LoopGoesOn
  <2>11. QED
    BY <1>3, <2>5, <2>10 DEF SeqInv
<1>10. QED
  BY <1>8, <1>9

\* What an exchange leaves, if it is within the stretch.
LEMMA SwapWithin ==
  ASSUME Lengths, NEW m, Moment(m), SeqInv(m), m.l.pc = "swap",
         NEW part, part = Stretch(m.l.left, m.l.right)
  PROVE  /\ Inside(m.l.from, part) /\ Inside(m.l.to, part)
         /\ Covers(Open(m.l), Swapped(m.l, m.v))
<1>1. PICK l, v : l = m.l /\ v = m.v
  OBVIOUS
<1>2. /\ LocalInv(l) /\ l \in Locals /\ l.pc = "swap" /\ v \in [Slots -> Values] /\ Within(l)
      /\ Purpose(l, v) /\ Ascending(l) /\ Covers(Open(l), v)
  BY <1>1 DEF Moment, LocalInv, SeqInv
<1>3. /\ l.from \in Slots /\ l.to \in Slots /\ l.left \in Slots /\ l.right \in Slots
      /\ Precedes(l.left, l.right) /\ l.then \in Thens
  BY <1>2 DEF Within, Locals
<1>4. part \in Open(l) /\ part.left = l.left /\ part.right = l.right
  BY <1>1, <1>2 DEF Open, Stretch
<1>5. InOrder(l.left, l.from) /\ InOrder(l.from, l.right) /\ InOrder(l.left, l.to)
      /\ InOrder(l.to, l.right)
  <2>1. CASE l.then = "scan"
    BY <1>2, <1>3, <2>1 DEF Purpose, InOrder
  <2>2. CASE l.then \in {"next", "sort"}
    <3>1. /\ l.i \in Slots /\ l.ret \in Slots
          /\ InOrder(l.left, l.ret) /\ InOrder(l.ret, l.i) /\ InOrder(l.i, l.right)
      BY <1>2, <2>2 DEF LocalInv, Moving, Ordered
    <3>2. /\ l.i \in Spots /\ l.ret \in Spots /\ l.left \in Spots /\ l.right \in Spots
      BY <1>3, <3>1, SlotsAre
    <3>3. InOrder(l.left, l.i) /\ InOrder(l.ret, l.right) /\ InOrder(l.left, l.right)
          /\ InOrder(l.right, l.right)
      BY <1>3, <3>1, <3>2, LinearOrder DEF InOrder
    <3>4. (l.from = l.i /\ l.to = l.ret) \/ (l.from = l.ret /\ l.to = l.right)
      BY <1>2, <2>2 DEF Purpose
    <3>5. QED
      BY <3>1, <3>3, <3>4
  <2>3. QED
    BY <1>3, <2>1, <2>2 DEF Thens
<1>6. Inside(l.from, part) /\ Inside(l.to, part)
  BY <1>4, <1>5 DEF Inside
<1>7. \A p \in Slots : Swapped(l, v)[p] =
        IF p = l.from THEN v[l.to] ELSE IF p = l.to THEN v[l.from] ELSE v[p]
  BY <1>2, SwappedAt
<1>8. /\ Open(l) \in SUBSET Stretches
      /\ \A A, B \in Open(l) : A = B \/ Precedes(A.right, B.left) \/ Precedes(B.right, A.left)
  BY <1>1, <1>2, OpenStretches
<1>9. PICK w : w = Swapped(l, v)
  OBVIOUS
<1>10. \A p \in Slots : w[p] = IF p = l.from THEN v[l.to] ELSE IF p = l.to THEN v[l.from] ELSE v[p]
  BY <1>7, <1>9
<1>11. Covers(Open(l), w)
  BY <1>2, <1>3, <1>4, <1>6, <1>8, <1>10, CoversExchange
<1>12. QED
  BY <1>1, <1>6, <1>9, <1>11

\* The pivot is at the right end: the loop begins.
LEMMA SeqSwapScan ==
  ASSUME Lengths, NEW m, Moment(m), SeqInv(m), m.l.pc = "swap", m.l.then = "scan"
  PROVE  SeqInv(NextMoment(m))
<1>1. PICK l, v, w, x : /\ l = m.l /\ v = m.v /\ w = Swapped(l, v)
                        /\ x = [l EXCEPT !.i = l.left, !.ret = l.left]
  OBVIOUS
<1>2. /\ LocalInv(l) /\ l \in Locals /\ l.pc = "swap" /\ l.then = "scan"
      /\ v \in [Slots -> Values] /\ Within(l)
      /\ Purpose(l, v) /\ Ascending(l)
  BY <1>1 DEF Moment, LocalInv, SeqInv
<1>3. /\ x \in Locals /\ x.todo = l.todo /\ x.left = l.left /\ x.right = l.right
      /\ x.ret = l.left /\ x.pivot = l.pivot /\ x.i = l.left
  BY <1>1, <1>2 DEF Locals
<1>4. NextMoment(m).l = Scan(x) /\ NextMoment(m).v = w
  BY <1>1, <1>2 DEF NextMoment, Turn, Asks, Continue
<1>5. Covers(Open(l), w)
  BY <1>1, <1>2, SwapWithin
<1>6. Open(l) = {x.todo[k] : k \in 1..Len(x.todo)} \cup {Stretch(x.left, x.right)}
  BY <1>2, <1>3 DEF Open
<1>7. /\ l.from \in Slots /\ l.to \in Slots /\ l.left \in Slots /\ l.right \in Slots
      /\ l.to = l.right /\ v[l.from] = l.pivot
  BY <1>2 DEF Within, Purpose
<1>8. w[l.right] = l.pivot
  <2>1. w[l.to] = IF l.to = l.from THEN v[l.to] ELSE IF l.to = l.to THEN v[l.from] ELSE v[l.to]
    BY <1>1, <1>2, <1>7, SwappedAt
  <2>2. QED
    BY <1>7, <2>1
<1>9. Divided(x, w)
  <2>1. ASSUME NEW p \in Slots, InOrder(l.left, p), Precedes(p, l.left) PROVE FALSE
    <3>1. p \in Spots /\ l.left \in Spots
      BY <1>7, SlotsAre
    <3>2. QED
      BY <2>1, <3>1, LinearOrder
  <2>2. QED
    BY <1>3, <1>8, <2>1 DEF Divided
<1>10. /\ \A k \in 1..Len(x.todo) : Precedes(x.right, x.todo[k].left)
       /\ \A j, k \in 1..Len(x.todo) : j < k => Precedes(x.todo[j].right, x.todo[k].left)
  BY <1>2, <1>3 DEF Ascending
<1>11. PICK c : c = NextMoment(m).c
  OBVIOUS
<1>12. SeqInv([l |-> Scan(x), v |-> w, c |-> c])
  BY <1>3, <1>5, <1>6, <1>9, <1>10, LoopGoesOn
<1>13. QED
  BY <1>4, <1>12 DEF SeqInv

\* An element before the pivot has come to the boundary, which moves on.
LEMMA SeqSwapNext ==
  ASSUME Lengths, NEW m, Moment(m), SeqInv(m), m.l.pc = "swap", m.l.then = "next"
  PROVE  SeqInv(NextMoment(m))
<1>1. PICK l, v, w, i, ret, x :
        /\ l = m.l /\ v = m.v /\ w = Swapped(l, v)
        /\ i = Following(l.i, l.right) /\ ret = Following(l.ret, l.right)
        /\ x = [l EXCEPT !.i = i, !.ret = ret]
  OBVIOUS
<1>2. /\ LocalInv(l) /\ l \in Locals /\ l.pc = "swap" /\ l.then = "next"
      /\ v \in [Slots -> Values] /\ Within(l) /\ Ordered(l) /\ l.i # l.right
      /\ Purpose(l, v) /\ Ascending(l) /\ Divided(l, v)
  BY <1>1 DEF Moment, LocalInv, SeqInv, Moving
<1>3. /\ l.i \in Slots /\ l.ret \in Slots /\ l.left \in Slots /\ l.right \in Slots
      /\ InOrder(l.left, l.ret) /\ InOrder(l.ret, l.i) /\ InOrder(l.i, l.right)
      /\ l.from = l.i /\ l.to = l.ret /\ ~ AtMost(l.pivot, v[l.i])
  BY <1>2 DEF Within, Ordered, Purpose
<1>4. /\ l.i \in Spots /\ l.ret \in Spots /\ l.left \in Spots /\ l.right \in Spots
      /\ \A p \in Slots : p \in Spots
  BY <1>3, SlotsAre
<1>5. Precedes(l.i, l.right) /\ Precedes(l.ret, l.right)
  BY <1>2, <1>3, <1>4, LinearOrder DEF InOrder
<1>6. /\ i \in Slots /\ Precedes(l.i, i)
      /\ \A q \in Slots : Precedes(l.i, q) /\ InOrder(q, l.right) => InOrder(i, q)
  BY <1>1, <1>3, <1>5, FollowingSlot
<1>7. /\ ret \in Slots /\ Precedes(l.ret, ret)
      /\ \A q \in Slots : Precedes(l.ret, q) /\ InOrder(q, l.right) => InOrder(ret, q)
  BY <1>1, <1>3, <1>5, FollowingSlot
<1>8. i \in Spots /\ ret \in Spots /\ InOrder(i, l.right) /\ InOrder(ret, l.right)
  BY <1>3, <1>4, <1>5, <1>6, <1>7 DEF InOrder
<1>9. /\ x \in Locals /\ x.todo = l.todo /\ x.left = l.left /\ x.right = l.right
      /\ x.ret = ret /\ x.pivot = l.pivot /\ x.i = i
  BY <1>1, <1>2, <1>8 DEF Locals
<1>10. NextMoment(m).l = Scan(x) /\ NextMoment(m).v = w
  BY <1>1, <1>2 DEF NextMoment, Turn, Asks, Continue
<1>11. Covers(Open(l), w)
  BY <1>1, <1>2, SwapWithin
<1>12. Open(l) = {x.todo[k] : k \in 1..Len(x.todo)} \cup {Stretch(x.left, x.right)}
  BY <1>2, <1>9 DEF Open
<1>13. \A p \in Slots : w[p] = IF p = l.i THEN v[l.ret] ELSE IF p = l.ret THEN v[l.i] ELSE v[p]
  BY <1>1, <1>2, <1>3, SwappedAt
<1>14. \A p \in Slots : Precedes(p, i) => InOrder(p, l.i)
  <2>1. SUFFICES ASSUME NEW p \in Slots, Precedes(p, i), Precedes(l.i, p) PROVE FALSE
    BY <1>4, LinearOrder DEF InOrder
  <2>2. InOrder(p, l.right)
    BY <1>4, <1>8, <2>1, LinearOrder DEF InOrder
  <2>3. InOrder(i, p)
    BY <1>6, <2>1, <2>2
  <2>4. QED
    BY <1>4, <1>8, <2>1, <2>3, LinearOrder
<1>15. \A p \in Slots : Precedes(p, ret) => InOrder(p, l.ret)
  <2>1. SUFFICES ASSUME NEW p \in Slots, Precedes(p, ret), Precedes(l.ret, p) PROVE FALSE
    BY <1>4, LinearOrder DEF InOrder
  <2>2. InOrder(p, l.right)
    BY <1>4, <1>8, <2>1, LinearOrder DEF InOrder
  <2>3. InOrder(ret, p)
    BY <1>7, <2>1, <2>2
  <2>4. QED
    BY <1>4, <1>8, <2>1, <2>3, LinearOrder
<1>16. Divided(x, w)
  <2>1. w[l.right] = l.pivot
    <3>1. l.right # l.i /\ l.right # l.ret
      BY <1>4, <1>5, LinearOrder
    <3>2. QED
      BY <1>2, <1>3, <1>13, <3>1 DEF Divided
  <2>2. ASSUME NEW p \in Slots, InOrder(l.left, p), Precedes(p, ret)
        PROVE  ~ AtMost(l.pivot, w[p])
    <3>1. CASE p = l.ret
      <4>1. w[p] = v[l.i]
        BY <1>3, <1>13, <3>1
      <4>2. QED
        BY <1>3, <4>1
    <3>2. CASE p # l.ret
      <4>1. Precedes(p, l.ret)
        BY <1>15, <2>2, <3>2 DEF InOrder
      <4>2. p # l.i
        BY <1>3, <1>4, <4>1, LinearOrder
      <4>3. w[p] = v[p]
        BY <1>13, <3>2, <4>2
      <4>4. QED
        BY <1>2, <2>2, <4>1, <4>3 DEF Divided
    <3>3. QED
      BY <3>1, <3>2
  <2>3. ASSUME NEW p \in Slots, InOrder(ret, p), Precedes(p, i)
        PROVE  AtMost(l.pivot, w[p])
    <3>1. Precedes(l.ret, p) /\ p # l.ret /\ InOrder(p, l.i)
      BY <1>4, <1>7, <1>8, <1>14, <2>3, LinearOrder
    <3>2. CASE p = l.i
      <4>1. w[p] = v[l.ret]
        BY <1>13, <3>2
      <4>2. Precedes(l.ret, l.i) /\ InOrder(l.ret, l.ret)
        BY <3>1, <3>2 DEF InOrder
      <4>3. QED
        BY <1>2, <1>3, <4>1, <4>2 DEF Divided
    <3>3. CASE p # l.i
      <4>1. w[p] = v[p] /\ Precedes(p, l.i) /\ InOrder(l.ret, p)
        BY <1>13, <3>1, <3>3 DEF InOrder
      <4>2. QED
        BY <1>2, <4>1 DEF Divided
    <3>4. QED
      BY <3>2, <3>3
  <2>4. QED
    BY <1>9, <2>1, <2>2, <2>3 DEF Divided
<1>17. /\ \A k \in 1..Len(x.todo) : Precedes(x.right, x.todo[k].left)
       /\ \A j, k \in 1..Len(x.todo) : j < k => Precedes(x.todo[j].right, x.todo[k].left)
  BY <1>2, <1>9 DEF Ascending
<1>18. PICK c : c = NextMoment(m).c
  OBVIOUS
<1>19. SeqInv([l |-> Scan(x), v |-> w, c |-> c])
  BY <1>9, <1>11, <1>12, <1>16, <1>17, LoopGoesOn
<1>20. QED
  BY <1>10, <1>19 DEF SeqInv

\* The parts lie within the stretch, one after another, and two slots on the
\* same side of ret are in one of them.
LEMMA PartsAre ==
  ASSUME Lengths, NEW left \in Slots, NEW right \in Slots, NEW ret \in Slots,
         InOrder(left, ret), InOrder(ret, right), NEW s, s = Parts(left, right, ret)
  PROVE  /\ s \in Seq(Stretches)
         /\ \A j, k \in 1..Len(s) : j < k => Precedes(s[j].right, s[k].left)
         /\ \A k \in 1..Len(s) : InOrder(s[k].right, right)
         /\ \A p, q \in Slots :
              /\ InOrder(left, p) /\ Precedes(p, q) /\ InOrder(q, right)
              /\ Precedes(q, ret) \/ Precedes(ret, p)
              => \E k \in 1..Len(s) : Inside(p, s[k]) /\ Inside(q, s[k])
<1>1. PICK a, b : a = LeftPart(left, ret) /\ b = RightPart(right, ret)
  OBVIOUS
<1>2. s = a \o b /\ s \in Seq(Stretches)
  BY <1>1, PartsType DEF Parts
<1>3. left \in Spots /\ right \in Spots /\ ret \in Spots /\ \A p \in Slots : p \in Spots
  BY SlotsAre
<1>4. \/ /\ a = <<>>
         /\ \A p, q \in Slots : ~ (InOrder(left, p) /\ Precedes(p, q) /\ Precedes(q, ret))
      \/ \E A \in Stretches :
           /\ a = <<A>> /\ A.left = left /\ Precedes(A.right, ret)
           /\ \A q \in Slots : InOrder(left, q) /\ Precedes(q, ret) => InOrder(q, A.right)
  <2>1. CASE /\ a = <<>>
             /\ \A p, q \in Slots : ~ (InOrder(left, p) /\ Precedes(p, q) /\ Precedes(q, ret))
    BY <2>1
  <2>2. CASE \E c \in Slots :
              /\ a = <<Stretch(left, c)>>
              /\ Precedes(left, c) /\ Precedes(c, ret)
              /\ \A q \in Slots : InOrder(left, q) /\ Precedes(q, ret) => InOrder(q, c)
    <3>1. PICK c \in Slots :
              /\ a = <<Stretch(left, c)>>
              /\ Precedes(left, c) /\ Precedes(c, ret)
              /\ \A q \in Slots : InOrder(left, q) /\ Precedes(q, ret) => InOrder(q, c)
      BY <2>2
    <3>2. /\ Stretch(left, c) \in Stretches /\ Stretch(left, c).left = left
          /\ Stretch(left, c).right = c
      BY <3>1 DEF Stretch, Stretches
    <3>3. QED
      BY <3>1, <3>2
  <2>3. QED
    BY <1>1, <2>1, <2>2, LeftPartIs
<1>5. \/ /\ b = <<>>
         /\ \A p, q \in Slots : ~ (Precedes(ret, p) /\ Precedes(p, q) /\ InOrder(q, right))
      \/ \E B \in Stretches :
           /\ b = <<B>> /\ B.right = right /\ Precedes(ret, B.left)
           /\ \A q \in Slots : Precedes(ret, q) /\ InOrder(q, right) => InOrder(B.left, q)
  <2>1. CASE /\ b = <<>>
             /\ \A p, q \in Slots : ~ (Precedes(ret, p) /\ Precedes(p, q) /\ InOrder(q, right))
    BY <2>1
  <2>2. CASE \E c \in Slots :
              /\ b = <<Stretch(c, right)>>
              /\ Precedes(ret, c) /\ Precedes(c, right)
              /\ \A q \in Slots : Precedes(ret, q) /\ InOrder(q, right) => InOrder(c, q)
    <3>1. PICK c \in Slots :
              /\ b = <<Stretch(c, right)>>
              /\ Precedes(ret, c) /\ Precedes(c, right)
              /\ \A q \in Slots : Precedes(ret, q) /\ InOrder(q, right) => InOrder(c, q)
      BY <2>2
    <3>2. /\ Stretch(c, right) \in Stretches /\ Stretch(c, right).left = c
          /\ Stretch(c, right).right = right
      BY <3>1 DEF Stretch, Stretches
    <3>3. QED
      BY <3>1, <3>2
  <2>3. QED
    BY <1>1, <2>1, <2>2, RightPartIs
<1>6. a \in Seq(Stretches) /\ b \in Seq(Stretches) /\ Len(a) \in {0, 1} /\ Len(b) \in {0, 1}
  <2>1. ASSUME NEW x, x = <<>> \/ \E A \in Stretches : x = <<A>>
        PROVE  x \in Seq(Stretches) /\ Len(x) \in {0, 1}
    <3>1. CASE x = <<>>
      BY <3>1
    <3>2. CASE \E A \in Stretches : x = <<A>>
      BY <3>2
    <3>3. QED
      BY <2>1, <3>1, <3>2
  <2>2. a = <<>> \/ \E A \in Stretches : a = <<A>>
    BY <1>4
  <2>3. b = <<>> \/ \E A \in Stretches : b = <<A>>
    BY <1>5
  <2>4. QED
    BY <2>1, <2>2, <2>3
<1>7. /\ Len(s) = Len(a) + Len(b)
      /\ \A k \in 1..Len(a) : s[k] = a[k]
      /\ \A k \in 1..Len(b) : s[Len(a) + k] = b[k]
  BY <1>2, <1>6
<1>8. \A k \in 1..Len(a) : /\ k = 1 /\ a[k] \in Stretches /\ a[k].left = left /\ Precedes(a[k].right, ret)
                           /\ \A q \in Slots : InOrder(left, q) /\ Precedes(q, ret) => InOrder(q, a[k].right)
  <2>1. SUFFICES ASSUME NEW k \in 1..Len(a)
                 PROVE  /\ k = 1 /\ a[k] \in Stretches /\ a[k].left = left /\ Precedes(a[k].right, ret)
                        /\ \A q \in Slots : InOrder(left, q) /\ Precedes(q, ret) => InOrder(q, a[k].right)
    OBVIOUS
  <2>2. PICK A \in Stretches :
           /\ a = <<A>> /\ A.left = left /\ Precedes(A.right, ret)
           /\ \A q \in Slots : InOrder(left, q) /\ Precedes(q, ret) => InOrder(q, A.right)
    BY <1>4, <2>1
  <2>3. k = 1 /\ a[k] = A
    BY <2>1, <2>2
  <2>4. QED
    BY <2>2, <2>3
<1>9. \A k \in 1..Len(b) : /\ k = 1 /\ b[k] \in Stretches /\ b[k].right = right /\ Precedes(ret, b[k].left)
                           /\ \A q \in Slots : Precedes(ret, q) /\ InOrder(q, right) => InOrder(b[k].left, q)
  <2>1. SUFFICES ASSUME NEW k \in 1..Len(b)
                 PROVE  /\ k = 1 /\ b[k] \in Stretches /\ b[k].right = right /\ Precedes(ret, b[k].left)
                        /\ \A q \in Slots : Precedes(ret, q) /\ InOrder(q, right) => InOrder(b[k].left, q)
    OBVIOUS
  <2>2. PICK B \in Stretches :
           /\ b = <<B>> /\ B.right = right /\ Precedes(ret, B.left)
           /\ \A q \in Slots : Precedes(ret, q) /\ InOrder(q, right) => InOrder(B.left, q)
    BY <1>5, <2>1
  <2>3. k = 1 /\ b[k] = B
    BY <2>1, <2>2
  <2>4. QED
    BY <2>2, <2>3
<1>10. \A A \in Stretches : A.left \in Spots /\ A.right \in Spots
  BY <1>3 DEF Stretches
<1>11. \A k \in 1..Len(s) : (k = 1 /\ Len(a) = 1) \/ (k = Len(a) + 1 /\ Len(b) = 1)
  BY <1>6, <1>7
<1>12. ASSUME NEW j \in 1..Len(s), NEW k \in 1..Len(s), j < k
       PROVE  Precedes(s[j].right, s[k].left)
  <2>1. j = 1 /\ Len(a) = 1 /\ Len(b) = 1 /\ k = Len(a) + 1
    BY <1>6, <1>7, <1>11, <1>12
  <2>2. s[j] = a[1] /\ s[k] = b[1] /\ 1 \in 1..Len(a) /\ 1 \in 1..Len(b)
    BY <1>7, <2>1
  <2>3. /\ Precedes(a[1].right, ret) /\ Precedes(ret, b[1].left)
        /\ a[1].right \in Spots /\ b[1].left \in Spots
    BY <1>8, <1>9, <1>10, <2>2
  <2>4. QED
    BY <1>3, <2>2, <2>3, LinearOrder
<1>13. ASSUME NEW k \in 1..Len(s)
       PROVE  InOrder(s[k].right, right)
  <2>1. CASE k = 1 /\ Len(a) = 1
    <3>1. s[k] = a[1] /\ 1 \in 1..Len(a)
      BY <1>7, <2>1
    <3>2. Precedes(a[1].right, ret) /\ a[1].right \in Spots
      BY <1>8, <1>10, <3>1
    <3>3. Precedes(a[1].right, right)
      BY <1>3, <3>2, LinearOrder
    <3>4. QED
      BY <3>1, <3>3 DEF InOrder
  <2>2. CASE k = Len(a) + 1 /\ Len(b) = 1
    <3>1. s[k] = b[1] /\ 1 \in 1..Len(b)
      BY <1>7, <2>2
    <3>2. QED
      BY <1>9, <3>1 DEF InOrder
  <2>3. QED
    BY <1>11, <2>1, <2>2
<1>14. ASSUME NEW p \in Slots, NEW q \in Slots, InOrder(left, p), Precedes(p, q), InOrder(q, right),
              Precedes(q, ret)
       PROVE  \E k \in 1..Len(s) : Inside(p, s[k]) /\ Inside(q, s[k])
  <2>1. Len(a) = 1 /\ 1 \in 1..Len(s) /\ s[1] = a[1] /\ 1 \in 1..Len(a)
    BY <1>4, <1>6, <1>7, <1>14
  <2>2. /\ a[1] \in Stretches /\ a[1].left = left
        /\ \A x \in Slots : InOrder(left, x) /\ Precedes(x, ret) => InOrder(x, a[1].right)
    BY <1>8, <2>1
  <2>3. InOrder(left, q) /\ Precedes(p, ret)
    BY <1>3, <1>14, LinearOrder DEF InOrder
  <2>4. Inside(p, a[1]) /\ Inside(q, a[1])
    BY <1>14, <2>2, <2>3 DEF Inside
  <2>5. QED
    BY <2>1, <2>4
<1>15. ASSUME NEW p \in Slots, NEW q \in Slots, InOrder(left, p), Precedes(p, q), InOrder(q, right),
              Precedes(ret, p)
       PROVE  \E k \in 1..Len(s) : Inside(p, s[k]) /\ Inside(q, s[k])
  <2>1. Len(b) = 1 /\ Len(a) + 1 \in 1..Len(s) /\ s[Len(a) + 1] = b[1] /\ 1 \in 1..Len(b)
    BY <1>5, <1>6, <1>7, <1>15
  <2>2. /\ b[1] \in Stretches /\ b[1].right = right
        /\ \A x \in Slots : Precedes(ret, x) /\ InOrder(x, right) => InOrder(b[1].left, x)
    BY <1>9, <2>1
  <2>3. InOrder(p, right) /\ Precedes(ret, q)
    BY <1>3, <1>15, LinearOrder DEF InOrder
  <2>4. Inside(p, b[1]) /\ Inside(q, b[1])
    BY <1>15, <2>2, <2>3 DEF Inside
  <2>5. QED
    BY <2>1, <2>4
<1>16. QED
  BY <1>2, <1>12, <1>13, <1>14, <1>15

\* The pivot has come to the boundary: its stretch splits into the two parts.
LEMMA SeqSwapSort ==
  ASSUME Lengths, NEW m, Moment(m), SeqInv(m), m.l.pc = "swap", m.l.then = "sort"
  PROVE  SeqInv(NextMoment(m))
<1>1. PICK l, v, w, s, t, part :
        /\ l = m.l /\ v = m.v /\ w = Swapped(l, v) /\ s = Parts(l.left, l.right, l.ret)
        /\ t = s \o l.todo /\ part = Stretch(l.left, l.right)
  OBVIOUS
<1>2. /\ LocalInv(l) /\ l \in Locals /\ l.pc = "swap" /\ l.then = "sort"
      /\ v \in [Slots -> Values] /\ Within(l) /\ Ordered(l) /\ l.todo \in Seq(Stretches)
      /\ Purpose(l, v) /\ Ascending(l) /\ Divided(l, v) /\ l.pivot \in Values
  BY <1>1 DEF Moment, LocalInv, SeqInv, Moving, Locals
<1>3. /\ l.ret \in Slots /\ l.left \in Slots /\ l.right \in Slots
      /\ InOrder(l.left, l.ret) /\ InOrder(l.ret, l.right)
      /\ l.from = l.ret /\ l.to = l.right /\ l.i = l.right
  BY <1>2 DEF Within, Ordered, Purpose
<1>4. /\ l.ret \in Spots /\ l.left \in Spots /\ l.right \in Spots
      /\ \A p \in Slots : p \in Spots
  BY <1>3, SlotsAre
<1>5. /\ s \in Seq(Stretches)
      /\ \A j, k \in 1..Len(s) : j < k => Precedes(s[j].right, s[k].left)
      /\ \A k \in 1..Len(s) : InOrder(s[k].right, l.right)
      /\ \A p, q \in Slots :
              /\ InOrder(l.left, p) /\ Precedes(p, q) /\ InOrder(q, l.right)
              /\ Precedes(q, l.ret) \/ Precedes(l.ret, p)
              => \E k \in 1..Len(s) : Inside(p, s[k]) /\ Inside(q, s[k])
  BY <1>1, <1>3, PartsAre
<1>6. /\ t \in Seq(Stretches) /\ Len(t) = Len(s) + Len(l.todo)
      /\ Len(s) \in Nat /\ Len(l.todo) \in Nat
      /\ \A k \in 1..Len(s) : t[k] = s[k]
      /\ \A k \in 1..Len(l.todo) : t[Len(s) + k] = l.todo[k]
  <2>1. PICK todo : todo = l.todo
    OBVIOUS
  <2>2. todo \in Seq(Stretches) /\ s \in Seq(Stretches) /\ t = s \o todo
    BY <1>1, <1>2, <1>5, <2>1
  <2>3. /\ t \in Seq(Stretches) /\ Len(t) = Len(s) + Len(todo)
        /\ Len(s) \in Nat /\ Len(todo) \in Nat
    BY <2>2
  <2>4. \A k \in 1..Len(s) : t[k] = s[k]
    BY <2>2, <2>3
  <2>5. \A k \in 1..Len(todo) : t[Len(s) + k] = todo[k]
    BY <2>2, <2>3
  <2>6. QED
    BY <2>1, <2>3, <2>4, <2>5
<1>7. NextMoment(m).l = Sort(t) /\ NextMoment(m).v = w
  BY <1>1, <1>2 DEF NextMoment, Turn, Asks, Continue
<1>8. PICK n : n = Sort(t)
  OBVIOUS
<1>9. n.todo = t /\ n.pc = IF t = <<>> THEN "done" ELSE "sort"
  BY <1>8 DEF Sort, Local
<1>10. Ascending(n)
  <2>1. SUFFICES ASSUME NEW j \in 1..Len(t), NEW k \in 1..Len(t), j < k
                 PROVE  Precedes(t[j].right, t[k].left)
    BY <1>9 DEF Ascending
  <2>2. CASE k <= Len(s)
    <3>1. j \in 1..Len(s) /\ k \in 1..Len(s) /\ t[j] = s[j] /\ t[k] = s[k]
      BY <1>6, <2>1, <2>2
    <3>2. QED
      BY <1>5, <2>1, <3>1
  <2>3. CASE j <= Len(s) /\ k > Len(s)
    <3>1. j \in 1..Len(s) /\ t[j] = s[j]
      BY <1>6, <2>1, <2>3
    <3>2. k - Len(s) \in 1..Len(l.todo) /\ t[k] = l.todo[k - Len(s)]
      <4>1. k - Len(s) \in 1..Len(l.todo) /\ Len(s) + (k - Len(s)) = k
        BY <1>6, <2>1, <2>3
      <4>2. QED
        BY <1>6, <4>1
    <3>3. InOrder(s[j].right, l.right) /\ Precedes(l.right, l.todo[k - Len(s)].left)
      BY <1>2, <1>5, <3>1, <3>2 DEF Ascending
    <3>4. s[j].right \in Spots /\ l.todo[k - Len(s)].left \in Spots
      <4>1. s[j] \in Stretches /\ l.todo[k - Len(s)] \in Stretches
        BY <1>2, <1>5, <3>1, <3>2
      <4>2. QED
        BY <1>4, <4>1 DEF Stretches
    <3>5. QED
      BY <1>4, <3>1, <3>2, <3>3, <3>4, LinearOrder
  <2>4. CASE j > Len(s)
    <3>1. /\ j - Len(s) \in 1..Len(l.todo) /\ k - Len(s) \in 1..Len(l.todo)
          /\ Len(s) + (j - Len(s)) = j /\ Len(s) + (k - Len(s)) = k /\ j - Len(s) < k - Len(s)
      BY <1>6, <2>1, <2>4
    <3>2. t[j] = l.todo[j - Len(s)] /\ t[k] = l.todo[k - Len(s)]
      BY <1>6, <3>1
    <3>3. QED
      BY <1>2, <3>1, <3>2 DEF Ascending
  <2>5. QED
    BY <1>6, <2>1, <2>2, <2>3, <2>4
<1>11. Covers(Open(l), w)
  BY <1>1, <1>2, SwapWithin
<1>12. w \in [Slots -> Values]
       /\ \A p \in Slots : w[p] = IF p = l.ret THEN v[l.right] ELSE IF p = l.right THEN v[l.ret] ELSE v[p]
  BY <1>1, <1>2, <1>3, SwappedAt
<1>13. w[l.ret] = l.pivot
  BY <1>2, <1>3, <1>12 DEF Divided
<1>14. ASSUME NEW p \in Slots, InOrder(l.left, p), Precedes(p, l.ret)
       PROVE  AtMost(w[p], l.pivot)
  <2>1. p # l.ret /\ p # l.right
    BY <1>3, <1>4, <1>14, LinearOrder
  <2>2. w[p] = v[p] /\ ~ AtMost(l.pivot, v[p])
    BY <1>2, <1>12, <1>14, <2>1 DEF Divided
  <2>3. w[p] \in Values
    BY <1>12
  <2>4. QED
    BY <1>2, <2>2, <2>3, AtMostOrder
<1>15. ASSUME NEW p \in Slots, Precedes(l.ret, p), InOrder(p, l.right)
       PROVE  AtMost(l.pivot, w[p])
  <2>1. p # l.ret
    BY <1>4, <1>15, LinearOrder
  <2>2. CASE p = l.right
    <3>1. w[p] = v[l.ret] /\ Precedes(l.ret, l.right) /\ InOrder(l.ret, l.ret)
      BY <1>12, <1>15, <2>1, <2>2 DEF InOrder
    <3>2. QED
      BY <1>2, <1>3, <3>1 DEF Divided
  <2>3. CASE p # l.right
    <3>1. w[p] = v[p] /\ InOrder(l.ret, p) /\ Precedes(p, l.right)
      BY <1>12, <1>15, <2>1, <2>3 DEF InOrder
    <3>2. QED
      BY <1>2, <1>3, <3>1 DEF Divided
  <2>4. QED
    BY <2>2, <2>3
<1>16. ASSUME NEW p \in Slots, NEW q \in Slots, InOrder(l.left, p), Precedes(p, q),
              InOrder(q, l.right)
       PROVE  AtMost(w[p], w[q]) \/ \E k \in 1..Len(s) : Inside(p, s[k]) /\ Inside(q, s[k])
  <2>1. Precedes(p, l.ret) \/ p = l.ret \/ Precedes(l.ret, p)
    BY <1>4, LinearOrder
  <2>2. Precedes(q, l.ret) \/ q = l.ret \/ Precedes(l.ret, q)
    BY <1>4, LinearOrder
  <2>3. CASE Precedes(q, l.ret) \/ Precedes(l.ret, p)
    BY <1>5, <1>16, <2>3
  <2>4. CASE ~ (Precedes(q, l.ret) \/ Precedes(l.ret, p))
    <3>1. AtMost(w[p], l.pivot)
      <4>1. CASE p = l.ret
        BY <1>2, <1>13, <4>1, AtMostOrder
      <4>2. CASE Precedes(p, l.ret)
        BY <1>14, <1>16, <4>2
      <4>3. QED
        BY <2>1, <2>4, <4>1, <4>2
    <3>2. AtMost(l.pivot, w[q])
      <4>1. CASE q = l.ret
        BY <1>2, <1>13, <4>1, AtMostOrder
      <4>2. CASE Precedes(l.ret, q)
        BY <1>15, <1>16, <4>2
      <4>3. QED
        BY <2>2, <2>4, <4>1, <4>2
    <3>3. w[p] \in Values /\ w[q] \in Values
      BY <1>12
    <3>4. QED
      BY <1>2, <3>1, <3>2, <3>3, AtMostOrder
  <2>5. QED
    BY <2>3, <2>4
<1>17. Covers(Open(n), w)
  <2>1. SUFFICES ASSUME NEW p \in Slots, NEW q \in Slots, Precedes(p, q), ~ AtMost(w[p], w[q])
                 PROVE  \E A \in Open(n) : Inside(p, A) /\ Inside(q, A)
    BY DEF Covers
  <2>2. PICK A \in Open(l) : Inside(p, A) /\ Inside(q, A)
    BY <1>11, <2>1 DEF Covers
  <2>3. Open(n) = {t[k] : k \in 1..Len(t)}
    BY <1>9 DEF Open
  <2>4. CASE A = part
    <3>1. InOrder(l.left, p) /\ InOrder(q, l.right)
      BY <1>1, <2>2, <2>4 DEF Inside, Stretch
    <3>2. PICK k \in 1..Len(s) : Inside(p, s[k]) /\ Inside(q, s[k])
      BY <1>16, <2>1, <3>1
    <3>3. k \in 1..Len(t) /\ t[k] = s[k]
      BY <1>6
    <3>4. QED
      BY <2>3, <3>2, <3>3
  <2>5. CASE A # part
    <3>1. PICK k \in 1..Len(l.todo) : A = l.todo[k]
      BY <1>1, <2>2, <2>5 DEF Open
    <3>2. Len(s) + k \in 1..Len(t) /\ t[Len(s) + k] = A
      BY <1>6, <3>1
    <3>3. QED
      BY <2>2, <2>3, <3>2
  <2>6. QED
    BY <2>4, <2>5
<1>18. QED
  BY <1>7, <1>8, <1>9, <1>10, <1>17 DEF SeqInv, Moving

LEMMA SeqStep ==
  ASSUME Lengths, NEW m, Moment(m), SeqInv(m)
  PROVE  SeqInv(NextMoment(m))
<1>1. m.l.pc \in Running /\ m.l.then \in Thens
  BY DEF Moment, LocalInv, Locals
<1>2. CASE m.l.pc = "done"
  <2>1. NextMoment(m).l = m.l /\ NextMoment(m).v = m.v
    BY <1>2 DEF NextMoment, Turn, Swapped, Asks
  <2>2. QED
    BY <2>1 DEF SeqInv
<1>3. CASE m.l.pc = "swap"
  BY <1>1, <1>3, SeqSwapScan, SeqSwapNext, SeqSwapSort DEF Thens
<1>4. QED
  BY <1>1, <1>2, <1>3, SeqSort, SeqScan DEF Running

\* Every moment of the story has the invariant of the quicksort.
LEMMA SeqHolds ==
  ASSUME Lengths, NEW h, Story(h), SeqInv(h[0])
  PROVE  \A j \in Nat : SeqInv(h[j])
<1> DEFINE T == {j \in Nat : SeqInv(h[j])}
<1>1. 0 \in T
  OBVIOUS
<1>2. ASSUME NEW j \in Nat, j \in T PROVE j + 1 \in T
  <2>1. Moment(h[j]) /\ h[j + 1] = NextMoment(h[j])
    BY StoryType
  <2>2. SeqInv(h[j])
    BY <1>2
  <2>3. SeqInv(NextMoment(h[j]))
    BY <2>1, <2>2, SeqStep
  <2>4. QED
    BY <2>1, <2>3
<1>3. \A j \in Nat : j \in T
  <2> HIDE DEF T
  <2>1. QED
    BY <1>1, <1>2, SetInductionNat
<1>4. QED
  BY <1>3

------------------------------------------------------------------------------
(* All of it together: what holds of every state.                          *)

\* The arguments for which the documented order is the order of the code: a
\* decreasing sort is not asked for while a missing value stays in the vector.
Comparable ==
  \A in \in Inputs : in.decreasing => in.nalast = "NA" \/ \A r \in Ranks : in.x[r] \in Seq(Int)
Kept(v) == Comparable /\ input.decreasing => \A p \in Slots : v[p] \in Int

\* Nobody has begun, and nothing is under way.
Idle ==
  /\ \A r \in Ranks : at[r].pc \in {"enter", "stopped", "undefined"} /\ at[r].todo = <<>>
  /\ bcast = [r \in Ranks |-> <<>>]
  /\ channel = [s \in Ranks |-> [d \in Ranks |-> <<>>]]
  /\ Kept(array)

Underway == \E h, pos, told : Tracks(h, pos, told) /\ SeqInv(h[0]) /\ Kept(h[0].v)

StoryInv == SortInv /\ (Idle \/ Underway)

\* What the story is about does not change.
LEMMA SameSeq ==
  ASSUME n_all' = n_all, input' = input, NEW CONSTANT m
  PROVE  (SeqInv(m)' <=> SeqInv(m)) /\ (Kept(m.v)' <=> Kept(m.v))
<1>1. Slots' = Slots
  BY SameSlots
<1>2. \A a, b : AtMost(a, b)' <=> AtMost(a, b)
  BY DEF AtMost, Compare, Increasing, nalast
<1>3. Kept(m.v)' <=> Kept(m.v)
  BY <1>1 DEF Kept, Comparable
<1>4. Covers(Open(m.l), m.v)' <=> Covers(Open(m.l), m.v)
  BY <1>1, <1>2 DEF Covers, Open, Inside
<1>5. Divided(m.l, m.v)' <=> Divided(m.l, m.v)
  BY <1>1, <1>2 DEF Divided
<1>6. Purpose(m.l, m.v)' <=> Purpose(m.l, m.v)
  BY <1>1, <1>2 DEF Purpose
<1>7. SeqInv(m)' <=> SeqInv(m)
  BY <1>4, <1>5, <1>6 DEF SeqInv, Ascending, Moving
<1>8. QED
  BY <1>3, <1>7

\* The sort begins with the whole vector.
LEMMA StartMoment ==
  ASSUME SortInv, NEW start,
         start = IF NonEmpty(0, P - 1) = {} THEN Local("done", <<>>)
                 ELSE Sort(Recursion(Slot(Min(NonEmpty(0, P - 1)), 0),
                                     LastSlot(Max(NonEmpty(0, P - 1)))))
  PROVE  LET m == [l |-> start, v |-> array, c |-> 0] IN Moment(m) /\ SeqInv(m)
<1>1. PICK m, all : m = [l |-> start, v |-> array, c |-> 0] /\ all = NonEmpty(0, P - 1)
  OBVIOUS
<1>2. Lengths /\ array \in [Slots -> Values] /\ P \in Nat \ {0}
  BY SizeAssumption DEF SortInv
<1>3. CASE all = {}
  <2>1. start = Local("done", <<>>)
    BY <1>1, <1>3
  <2>2. << >> \in Seq(Stretches)
    OBVIOUS
  <2>3. LocalInv(start) /\ start.pc = "done" /\ start.todo = <<>>
    <3>1. PICK todo : todo = <<>>
      OBVIOUS
    <3>2. todo \in Seq(Stretches) /\ start = Local("done", todo)
      BY <2>1, <2>2, <3>1
    <3>3. LocalInv(start)
      BY <3>2, LocalStart
    <3>4. QED
      BY <3>1, <3>2, <3>3 DEF Local
  <2>4. Moment(m)
    BY <1>1, <1>2, <2>3 DEF Moment, Running
  <2>5. ASSUME NEW p \in Slots PROVE FALSE
    <3>1. p.rank \in Ranks /\ p.index >= 0 /\ p.index < n_all[p.rank] /\ p.index \in Int
      BY <1>2, SlotsAre DEF Spots
    <3>2. n_all[p.rank] # 0
      BY <1>2, <3>1 DEF Lengths
    <3>3. p.rank \in all
      BY <1>1, <3>1, <3>2 DEF NonEmpty, Ranks
    <3>4. QED
      BY <1>3, <3>3
  <2>6. Ascending(start) /\ Covers(Open(start), array)
    BY <2>3, <2>5 DEF Ascending, Covers
  <2>7. SeqInv(m)
    BY <1>1, <2>3, <2>6 DEF SeqInv, Moving
  <2>8. QED
    BY <1>1, <2>4, <2>7
<1>4. CASE all # {}
  <2>1. PICK lo, hi, first, last, todo :
          /\ lo = Min(all) /\ hi = Max(all) /\ first = Slot(lo, 0) /\ last = LastSlot(hi)
          /\ todo = Recursion(first, last)
    OBVIOUS
  <2>2. /\ lo \in 0..(P - 1) /\ n_all[lo] # 0 /\ hi \in 0..(P - 1) /\ n_all[hi] # 0
        /\ \A r \in 0..(P - 1) : n_all[r] # 0 => lo <= r
    BY <1>1, <1>2, <1>4, <2>1, NonEmptyRanks
  <2>3. \A r \in 0..(P - 1) : n_all[r] # 0 => r <= hi
    <3>1. all \in SUBSET Nat /\ \A x \in all : x <= P
      BY <1>1, <1>2 DEF NonEmpty
    <3>2. \A x \in all : x <= hi
      BY <1>2, <1>4, <2>1, <3>1, MinMax
    <3>3. QED
      BY <1>1, <3>2 DEF NonEmpty
  <2>4. /\ lo \in Ranks /\ hi \in Ranks /\ n_all[lo] \in Nat /\ n_all[hi] \in Nat
        /\ lo \in Int /\ hi \in Int
    BY <2>2, <1>2 DEF Ranks, Lengths
  <2>5. first \in Slots /\ last \in Slots
    <3>1. n_all[hi] - 1 \in Int /\ n_all[hi] - 1 >= 0 /\ n_all[hi] - 1 < n_all[hi]
      BY <2>2, <2>4
    <3>2. QED
      BY <1>2, <2>1, <2>2, <2>4, <3>1, SlotsAre DEF LastSlot
  <2>6. /\ first.rank = lo /\ first.index = 0 /\ last.rank = hi /\ last.index = n_all[hi] - 1
        /\ first \in Spots /\ last \in Spots
    BY <1>2, <2>1, <2>5, SlotsAre DEF Slot, LastSlot
  <2>7. ASSUME NEW p \in Slots PROVE InOrder(first, p) /\ InOrder(p, last) /\ p \in Spots
    <3>1. p.rank \in Ranks /\ p.index >= 0 /\ p.index < n_all[p.rank] /\ p.index \in Int /\ p \in Spots
      BY <1>2, SlotsAre DEF Spots
    <3>2. n_all[p.rank] \in Nat /\ n_all[p.rank] # 0 /\ p.rank \in Int
      BY <1>2, <3>1 DEF Lengths, Ranks
    <3>3. lo <= p.rank /\ p.rank <= hi
      BY <2>2, <2>3, <3>1, <3>2 DEF Ranks
    <3>4. InOrder(first, p)
      <4>1. CASE first.rank = p.rank /\ first.index = p.index
        BY <2>6, <3>1, <4>1, SpotEquality DEF InOrder
      <4>2. CASE ~ (first.rank = p.rank /\ first.index = p.index)
        BY <2>4, <2>6, <3>1, <3>2, <3>3, <4>2 DEF InOrder, Precedes
      <4>3. QED
        BY <4>1, <4>2
    <3>5. InOrder(p, last)
      <4>1. CASE last.rank = p.rank /\ last.index = p.index
        BY <2>6, <3>1, <4>1, SpotEquality DEF InOrder
      <4>2. CASE ~ (last.rank = p.rank /\ last.index = p.index)
        BY <2>4, <2>6, <3>1, <3>2, <3>3, <4>2 DEF InOrder, Precedes
      <4>3. QED
        BY <4>1, <4>2
    <3>6. QED
      BY <3>1, <3>4, <3>5
  <2>8. start = Sort(todo) /\ todo \in Seq(Stretches)
    BY <1>1, <1>4, <2>1, <2>5, RecursionType
  <2>9. /\ start.todo = todo /\ start.pc = IF todo = <<>> THEN "done" ELSE "sort"
        /\ LocalInv(start)
    BY <2>8, SortStep DEF Sort, Local
  <2>10. Moment(m)
    BY <1>1, <1>2, <2>9 DEF Moment, Running
  <2>11. CASE Precedes(first, last)
    <3>1. todo = <<Stretch(first, last)>>
      BY <2>1, <2>11 DEF Recursion
    <3>2. Len(todo) = 1 /\ todo[1] = Stretch(first, last)
      BY <3>1
    <3>3. Ascending(start)
      BY <2>9, <3>2 DEF Ascending
    <3>4. Stretch(first, last) \in Open(start)
      BY <2>9, <3>2 DEF Open
    <3>5. \A p \in Slots : Inside(p, Stretch(first, last))
      BY <2>7 DEF Inside, Stretch
    <3>6. Covers(Open(start), array)
      BY <3>4, <3>5 DEF Covers
    <3>7. SeqInv(m)
      BY <1>1, <2>9, <3>3, <3>6 DEF SeqInv, Moving
    <3>8. QED
      BY <1>1, <2>10, <3>7
  <2>12. CASE ~ Precedes(first, last)
    <3>1. todo = <<>>
      BY <2>1, <2>12 DEF Recursion
    <3>2. Ascending(start)
      BY <2>9, <3>1 DEF Ascending
    <3>3. ASSUME NEW p \in Slots, NEW q \in Slots, Precedes(p, q) PROVE FALSE
      <4>1. /\ InOrder(first, p) /\ InOrder(q, last) /\ p \in Spots /\ q \in Spots
        BY <2>7
      <4>2. Precedes(first, q)
        BY <2>6, <3>3, <4>1, LinearOrder
      <4>3. Precedes(first, last)
        BY <2>6, <4>1, <4>2, LinearOrder
      <4>4. QED
        BY <2>12, <4>3
    <3>4. Covers(Open(start), array)
      BY <3>3 DEF Covers
    <3>5. SeqInv(m)
      BY <1>1, <2>9, <3>1, <3>2, <3>4 DEF SeqInv, Moving
    <3>6. QED
      BY <1>1, <2>10, <3>5
  <2>13. QED
    BY <2>11, <2>12
<1>5. QED
  BY <1>3, <1>4

\* All begin together.
LEMMA StoryEnter ==
  ASSUME SortInv, Idle, Enter
  PROVE  (Idle \/ Underway)'
<1>1. PICK all, start, begun, stopped :
        /\ all = NonEmpty(0, P - 1) /\ stopped = Local("stopped", <<>>)
        /\ start = IF all = {} THEN Local("done", <<>>)
                   ELSE Sort(Recursion(Slot(Min(all), 0), LastSlot(Max(all))))
        /\ begun = IF all = {} THEN Local(IF P = 1 THEN "done" ELSE "undefined", <<>>)
                   ELSE Sort(Recursion(Slot(Min(all), 0), LastSlot(Max(all))))
  OBVIOUS
<1>2. /\ UNCHANGED <<input, n_all, array, bcast, channel>>
      /\ at' = [r \in Ranks |-> IF Stops(r) THEN stopped
                                ELSE IF \E q \in Ranks : Stops(q) THEN at[r] ELSE begun]
      /\ \A r \in Ranks : at[r].pc = "enter"
  BY <1>1 DEF Enter
<1>3. stopped.pc = "stopped" /\ stopped.todo = <<>>
  BY <1>1 DEF Local
<1>4. Kept(array)' <=> Kept(array)
  <2>1. Slots' = Slots
    BY <1>2, SameSlots
  <2>2. QED
    BY <1>2, <2>1 DEF Kept, Comparable
<1>5. CASE (\E q \in Ranks : Stops(q)) \/ begun.pc = "undefined"
  <2>1. begun.pc = "undefined" => begun.todo = <<>>
    <3>1. ASSUME begun.pc = "undefined" PROVE all = {}
      <4>1. \A todo : Sort(todo).pc # "undefined"
        BY SortTurns
      <4>2. QED
        BY <1>1, <3>1, <4>1
    <3>2. QED
      BY <1>1, <3>1 DEF Local
  <2>2. ASSUME NEW r \in Ranks
        PROVE  at'[r].pc \in {"enter", "stopped", "undefined"} /\ at'[r].todo = <<>>
    <3>1. \/ at'[r] = stopped \/ at'[r] = at[r]
          \/ at'[r] = begun /\ begun.pc = "undefined"
      BY <1>2, <1>5
    <3>2. QED
      BY <1>3, <2>1, <3>1 DEF Idle
  <2>3. QED
    BY <1>2, <1>4, <2>2 DEF Idle
<1>6. CASE ~ (\E q \in Ranks : Stops(q)) /\ begun.pc # "undefined"
  <2>1. begun = start
    BY <1>1, <1>6 DEF Local
  <2>2. \A r \in Ranks : at'[r] = start
    BY <1>2, <1>6, <2>1
  <2>3. PICK m : m = [l |-> start, v |-> array, c |-> 0]
    OBVIOUS
  <2>4. Moment(m) /\ SeqInv(m)
    BY <1>1, <2>3, StartMoment
  <2>5. PICK h : h[0] = m /\ Story(h)
    BY <2>4, StoryExists
  <2>6. PICK pos : pos = [r \in Ranks |-> 0]
    OBVIOUS
  <2>7. PICK told : told = 0
    OBVIOUS
  <2>8. /\ h[0].l = start /\ h[0].v = array /\ h[0].c = 0 /\ pos \in [Ranks -> Nat]
        /\ \A r \in Ranks : pos[r] = 0
    BY <2>3, <2>5, <2>6
  <2>9. start.pc \in Running
    BY <2>3, <2>4 DEF Moment
  <2>10. Slots' = Slots /\ \A p \in Slots : p.rank \in Ranks
    BY <1>2, SameSlots, SlotsAre DEF SortInv
  <2>11. Placed(h, pos)'
    BY <1>2, <2>2, <2>8, <2>10 DEF Placed
  <2>12. \A j \in Nat : h[j].c \in Nat
    BY <2>5, StoryType DEF Moment, SortInv
  <2>13. Heard(h, pos, told)'
    <3>1. \A r \in Ranks : bcast'[r] = <<>>
      BY <1>2 DEF Idle
    <3>2. \A r \in Ranks : Len(bcast'[r]) = told - h[pos[r]].c
      BY <2>7, <2>8, <3>1
    <3>3. \A j \in Nat : ~ (h[j].c < told)
      BY <2>7, <2>12
    <3>4. QED
      BY <3>2, <3>3 DEF Heard
  <2>14. Met(h, pos)'
    <3>1. \A j \in Nat, r \in Ranks : ~ (pos[r] > j)
      BY <2>8
    <3>2. QED
      BY <3>1 DEF Met
  <2>15. ASSUME NEW CONSTANT a \in Ranks, NEW CONSTANT b \in Ranks
         PROVE  channel'[a][b] = Answers(a, b, h, pos)' \o Gives(a, b, h, pos)'
    <3>1. at'[a].pc # "await" /\ at'[b].pc # "await"
      BY <2>2, <2>9 DEF Running
    <3>2. Answers(a, b, h, pos)' = <<>> /\ Gives(a, b, h, pos)' = <<>>
      BY <3>1 DEF Answers, Gives, Awaits
    <3>3. channel'[a][b] = <<>>
      BY <1>2 DEF Idle
    <3>4. << >> \o <<>> = <<>>
      OBVIOUS
    <3>5. QED
      BY <3>2, <3>3, <3>4
  <2>16. Carried(h, pos)'
    BY <2>15 DEF Carried
  <2>17. Tracks(h, pos, told)'
    <3>1. told \in Nat
      BY <2>7
    <3>2. QED
      BY <1>2, <2>5, <2>8, <2>11, <2>13, <2>14, <2>16, <3>1, TracksNext
  <2>18. SeqInv(h[0])' /\ Kept(h[0].v)'
    <3>1. SeqInv(h[0]) /\ Kept(h[0].v)
      BY <2>4, <2>5, <2>8 DEF Idle
    <3>2. QED
      BY <1>2, <3>1, SameSeq
  <2>19. QED
    BY <2>17, <2>18 DEF Underway
<1>7. QED
  BY <1>5, <1>6

\* Nobody enters after that.
LEMMA Entered ==
  ASSUME SortInv, NEW h, NEW pos, NEW told, Tracks(h, pos, told), NEW r \in Ranks
  PROVE  at[r].pc \in {"sort", "scan", "swap", "done", "await"}
<1>1. CASE Awaits(r)
  BY <1>1 DEF Awaits
<1>2. CASE ~ Awaits(r)
  BY <1>2, AtMoment, Here DEF Moment, Running
<1>3. QED
  BY <1>1, <1>2

LEMMA StoryInit == Init => Idle
<1>1. SUFFICES ASSUME Init PROVE Idle
  OBVIOUS
<1>2. \A r \in Ranks : at[r].pc = "enter" /\ at[r].todo = <<>>
  BY <1>1 DEF Init, Local
<1>3. ASSUME Comparable, input.decreasing, NEW p \in Slots PROVE array[p] \in Int
  <2>1. n_all = [r \in Ranks |-> Len(Block(input, r))] /\ input \in Inputs
        /\ array[p] = Block(input, p.rank)[p.index + 1]
    BY <1>1 DEF Init
  <2>2. \A r \in Ranks : Block(input, r) \in Seq(Values)
    BY <2>1, BlockType
  <2>3. Lengths
    BY <2>1, <2>2 DEF Lengths
  <2>4. p.rank \in Ranks /\ p.index >= 0 /\ p.index < n_all[p.rank] /\ p.index \in Int
    BY <2>3, SlotsAre DEF Spots
  <2>5. PICK block : block = Block(input, p.rank)
    OBVIOUS
  <2>6. block \in Seq(Int)
    <3>1. CASE input.nalast = "NA"
      <4>1. input.x[p.rank] \in Seq(Values)
        BY <2>1, <2>4, InputsAssumption
      <4>2. block = NotMissing(input.x[p.rank])
        BY <2>5, <3>1 DEF Block
      <4>3. QED
        BY <4>1, <4>2, NotMissingType
    <3>2. CASE input.nalast # "NA"
      <4>1. input.x[p.rank] \in Seq(Int)
        BY <1>3, <2>1, <2>4, <3>2 DEF Comparable
      <4>2. block = input.x[p.rank]
        BY <2>5, <3>2 DEF Block
      <4>3. QED
        BY <4>1, <4>2
    <3>3. QED
      BY <3>1, <3>2
  <2>7. n_all[p.rank] = Len(block) /\ array[p] = block[p.index + 1]
    BY <2>1, <2>4, <2>5
  <2>8. p.index + 1 \in 1..Len(block)
    BY <2>4, <2>6, <2>7
  <2>9. QED
    BY <2>6, <2>7, <2>8
<1>4. QED
  BY <1>1, <1>2, <1>3 DEF Init, Idle, Kept

\* A rank takes a step in a sort that is under way.
LEMMA StepTracks ==
  ASSUME SortInv, NEW CONSTANT h, NEW CONSTANT pos, NEW CONSTANT told, Tracks(h, pos, told),
         NEW CONSTANT r \in Ranks, Step(r)
  PROVE  /\ \E next, n : Tracks(h, next, n)'
         /\ input' = input /\ n_all' = n_all
<1>1. CASE TellPivot(r) \/ TellCheck(r)
  <2>1. Tracks(h, OneOn(r, pos), told + 1)'
    BY <1>1, TellTracks
  <2>2. QED
    BY <1>1, <2>1 DEF TellPivot, TellCheck
<1>2. CASE HearPivot(r) \/ HearCheck(r)
  <2>1. Tracks(h, OneOn(r, pos), told)'
    BY <1>2, HearTracks
  <2>2. QED
    BY <1>2, <2>1 DEF HearPivot, HearCheck
<1>3. CASE SwapAtHome(r)
  <2>1. Tracks(h, OneOn(r, pos), told)'
    BY <1>3, HomeTracks
  <2>2. QED
    BY <1>3, <2>1 DEF SwapAtHome
<1>4. CASE Give(r)
  <2>1. Tracks(h, pos, told)'
    BY <1>4, GiveTracks
  <2>2. QED
    BY <1>4, <2>1 DEF Give
<1>5. CASE Answer(r)
  <2>1. Tracks(h, OneOn(r, pos), told)'
    BY <1>5, AnswerTracks
  <2>2. QED
    BY <1>5, <2>1 DEF Answer
<1>6. CASE Take(r)
  <2>1. Tracks(h, OneOn(r, pos), told)'
    BY <1>6, TakeTracks
  <2>2. QED
    BY <1>6, <2>1 DEF Take
<1>7. QED
  BY <1>1, <1>2, <1>3, <1>4, <1>5, <1>6 DEF Step

LEMMA StutterTracks ==
  ASSUME SortInv, UNCHANGED vars, NEW CONSTANT h, NEW CONSTANT pos, NEW CONSTANT told,
         Tracks(h, pos, told)
  PROVE  Tracks(h, pos, told)'
<1>1. UNCHANGED <<input, n_all, array, at, bcast, channel>>
  BY DEF vars
<1>2. /\ pos \in [Ranks -> Nat] /\ Story(h) /\ told \in Nat /\ Placed(h, pos) /\ Heard(h, pos, told)
      /\ Met(h, pos) /\ Carried(h, pos)
  BY DEF Tracks
<1>3. Slots' = Slots
  BY <1>1, SameSlots
<1>4. Placed(h, pos)'
  BY <1>1, <1>2, <1>3 DEF Placed, Meets
<1>5. \A k : Told(h[k].l, h[k].v)' = Told(h[k].l, h[k].v) /\ Asked(h[k].l)' = Asked(h[k].l)
  BY <1>1, SameStory
<1>6. Heard(h, pos, told)'
  BY <1>1, <1>2, <1>5 DEF Heard, Asks
<1>7. Met(h, pos)'
  BY <1>1, <1>2 DEF Met, Meets, Awaits
<1>8. Carried(h, pos)'
  BY <1>1, <1>2 DEF Carried, Answers, Gives, Awaits, Element
<1>9. QED
  BY <1>1, <1>2, <1>4, <1>6, <1>7, <1>8, TracksNext

LEMMA StoryStep ==
  ASSUME StoryInv, [Next]_vars
  PROVE  StoryInv'
<1>1. SortInv /\ SortInv'
  BY SortInvStep DEF StoryInv
<1>2. CASE UNCHANGED vars
  <2>1. CASE Idle
    <3>1. UNCHANGED <<input, n_all, array, at, bcast, channel>>
      BY <1>2 DEF vars
    <3>2. Slots' = Slots
      BY <3>1, SameSlots
    <3>3. Idle'
      BY <2>1, <3>1, <3>2 DEF Idle, Kept, Comparable
    <3>4. QED
      BY <1>1, <3>3 DEF StoryInv
  <2>2. CASE Underway
    <3>1. PICK h, pos, told : Tracks(h, pos, told) /\ SeqInv(h[0]) /\ Kept(h[0].v)
      BY <2>2 DEF Underway
    <3>2. Tracks(h, pos, told)'
      BY <1>1, <1>2, <3>1, StutterTracks
    <3>3. SeqInv(h[0])' /\ Kept(h[0].v)'
      BY <1>2, <3>1, SameSeq DEF vars
    <3>4. Underway'
      BY <3>2, <3>3 DEF Underway
    <3>5. QED
      BY <1>1, <3>4 DEF StoryInv
  <2>3. QED
    BY <2>1, <2>2 DEF StoryInv
<1>3. CASE Enter
  <2>1. Idle
    <3>1. ASSUME Underway PROVE FALSE
      <4>1. PICK h, pos, told : Tracks(h, pos, told)
        BY <3>1 DEF Underway
      <4>2. PICK r \in Ranks : TRUE
        BY SizeAssumption DEF Ranks
      <4>3. at[r].pc # "enter"
        BY <1>1, <4>1, Entered
      <4>4. QED
        BY <1>3, <4>3 DEF Enter
    <3>2. QED
      BY <3>1 DEF StoryInv
  <2>2. QED
    BY <1>1, <1>3, <2>1, StoryEnter DEF StoryInv
<1>4. ASSUME NEW CONSTANT r \in Ranks, Step(r) PROVE StoryInv'
  <2>1. at[r].pc \notin {"enter", "stopped", "undefined"}
    BY <1>4 DEF Step, TellPivot, HearPivot, TellCheck, HearCheck, SwapAtHome, Give, Answer, Take
  <2>2. PICK h, pos, told : Tracks(h, pos, told) /\ SeqInv(h[0]) /\ Kept(h[0].v)
    BY <2>1 DEF StoryInv, Idle, Underway
  <2>3. PICK next, n : Tracks(h, next, n)' /\ input' = input /\ n_all' = n_all
    BY <1>1, <1>4, <2>2, StepTracks
  <2>4. SeqInv(h[0])' /\ Kept(h[0].v)'
    BY <2>2, <2>3, SameSeq
  <2>5. Underway'
    BY <2>3, <2>4 DEF Underway
  <2>6. QED
    BY <1>1, <2>5 DEF StoryInv
<1>5. CASE Terminating
  BY <1>2, <1>5 DEF Terminating
<1>6. QED
  BY <1>2, <1>3, <1>4, <1>5 DEF Next

LEMMA StoryHolds == Spec => []StoryInv
<1>1. Init => StoryInv
  BY SortInit, StoryInit DEF StoryInv
<1>2. StoryInv /\ [Next]_vars => StoryInv'
  BY StoryStep
<1>3. QED
  BY <1>1, <1>2, PTL DEF Spec

\* What is received in an exchange was sent for this exchange.
LEMMA MatchHere ==
  ASSUME SortInv, NEW h, NEW pos, NEW told, Tracks(h, pos, told), NEW s \in Ranks, NEW d \in Ranks,
         channel[s][d] # <<>>, NEW m, m = Head(channel[s][d]), NEW l, l = at[d]
  PROVE  /\ l.pc # "done"
         /\ l.pc = "swap" /\ l.to.rank = d /\ l.from.rank = s => m.from = l.from /\ m.to = l.to
         /\ l.pc = "await" /\ l.from.rank = d /\ l.to.rank = s => m.from = l.from /\ m.to = l.to
<1>1. CASE l.pc = "await"
  <2>1. Awaits(d)
    BY <1>1 DEF Awaits
  <2>2. ASSUME l.to.rank = s PROVE m.from = l.from /\ m.to = l.to
    <3>1. s = at[d].to.rank
      BY <2>2
    <3>2. pos[s] > pos[d]
      BY <2>1, <3>1, Answered
    <3>3. PICK x, g : x = Element(h[pos[d]].v[at[d].to], at[d]) /\ g = Gives(s, d, h, pos)
      OBVIOUS
    <3>4. channel[s][d] = Answers(s, d, h, pos) \o g
      BY <3>3 DEF Tracks, Carried
    <3>5. Answers(s, d, h, pos) = <<x>>
      BY <2>1, <3>1, <3>2, <3>3 DEF Answers
    <3>6. g = <<>> \/ \E y : g = <<y>>
      BY <3>3 DEF Gives
    <3>7. Head(<<x>> \o g) = x
      <4>1. CASE g = <<>>
        <5>1. <<x>> \o <<>> = <<x>> /\ Head(<<x>>) = x
          OBVIOUS
        <5>2. QED
          BY <4>1, <5>1
      <4>2. CASE \E y : g = <<y>>
        <5>1. PICK y : g = <<y>>
          BY <4>2
        <5>2. Head(<<x>> \o <<y>>) = x
          OBVIOUS
        <5>3. QED
          BY <5>1, <5>2
      <4>3. QED
        BY <3>6, <4>1, <4>2
    <3>8. m = x
      BY <3>4, <3>5, <3>7
    <3>9. QED
      BY <3>3, <3>8 DEF Element
  <2>3. QED
    BY <1>1, <2>2
<1>2. CASE l.pc # "await"
  <2>1. ~ Awaits(d) /\ l = h[pos[d]].l
    <3>1. ~ Awaits(d)
      BY <1>2 DEF Awaits
    <3>2. QED
      BY <3>1, AtMoment
  <2>2. PICK x : x = Element(h[pos[s]].v[at[s].from], at[s])
    OBVIOUS
  <2>3. Awaits(s) /\ at[s].to.rank = d /\ pos[d] <= pos[s] /\ channel[s][d] = <<x>>
    BY <2>1, <2>2, Offered
  <2>4. Head(<<x>>) = x
    OBVIOUS
  <2>5. m = x /\ m.from = at[s].from /\ m.to = at[s].to
    BY <2>2, <2>3, <2>4 DEF Element
  <2>6. at[s].from = h[pos[s]].l.from /\ at[s].to = h[pos[s]].l.to
    BY <2>3, AtSlots
  <2>7. ASSUME l.pc = "done" PROVE FALSE
    <3>1. Meets(h[pos[s]].l, s, at[s].to.rank)
      BY <2>3, AtExchange
    <3>2. h[pos[s]].l.pc = "swap"
      BY <3>1 DEF Meets
    <3>3. pos[s] \in Nat /\ pos[d] \in Nat /\ Story(h) /\ Lengths
      BY Here DEF Tracks, SortInv
    <3>4. h[pos[s]].l = h[pos[d]].l
      <4>1. h[pos[d]].l.pc = "done"
        BY <2>1, <2>7
      <4>2. QED
        BY <2>3, <3>3, <4>1, DoneStays
    <3>5. QED
      BY <2>1, <2>7, <3>2, <3>4
  <2>8. ASSUME l.pc = "swap", l.to.rank = d, l.from.rank = s
        PROVE  m.from = l.from /\ m.to = l.to
    <3>1. s # d
      <4>1. Meets(h[pos[s]].l, s, at[s].to.rank)
        BY <2>3, AtExchange
      <4>2. QED
        BY <2>3, <4>1 DEF Meets
    <3>2. Meets(h[pos[d]].l, s, d)
      BY <2>1, <2>8, <3>1 DEF Meets
    <3>3. pos[s] = pos[d]
      BY <2>1, <3>2, OfferedHere
    <3>4. QED
      BY <2>1, <2>5, <2>6, <3>3
  <2>9. QED
    BY <1>2, <2>7, <2>8
<1>3. QED
  BY <1>1, <1>2

\* However far apart the ranks are: an element is never received for another
\* exchange than the one that it was sent for, and none is left over.
THEOREM ExchangesAreMatched == Spec => []ExchangesMatch
<1>1. StoryInv => ExchangesMatch
  <2>1. SUFFICES ASSUME StoryInv, NEW s \in Ranks, NEW d \in Ranks, channel[s][d] # <<>>,
                        NEW m, m = Head(channel[s][d]), NEW l, l = at[d]
                 PROVE  /\ l.pc # "done"
                        /\ \/ l.pc = "swap" /\ l.to.rank = d /\ l.from.rank = s
                           \/ l.pc = "await" /\ l.from.rank = d /\ l.to.rank = s
                           => <<m.from, m.to>> = <<l.from, l.to>>
    BY DEF ExchangesMatch
  <2>2. CASE Idle
    BY <2>1, <2>2 DEF Idle
  <2>3. CASE Underway
    <3>1. PICK h, pos, told : Tracks(h, pos, told)
      BY <2>3 DEF Underway
    <3>2. SortInv
      BY <2>1 DEF StoryInv
    <3>3. QED
      BY <2>1, <3>1, <3>2, MatchHere
  <2>4. QED
    BY <2>1, <2>2, <2>3 DEF StoryInv
<1>2. QED
  BY <1>1, StoryHolds, PTL

\* Two moments with the same local variables and the same broadcasts before them
\* are the end.
LEMMA SameMoment ==
  ASSUME Lengths, NEW h, Story(h), NEW a \in Nat, NEW b \in Nat, a < b,
         h[a].l = h[b].l, h[a].c = h[b].c
  PROVE  h[a].l.pc = "done" /\ h[a].v = h[b].v
<1>1. \A j \in Nat : Moment(h[j]) /\ h[j + 1] = NextMoment(h[j])
  BY StoryType
<1>2. \A j \in Nat : h[j].c \in Nat /\ h[j].l.pc \in Running
  BY <1>1 DEF Moment
<1>3. ASSUME NEW j \in Nat, a <= j, j < b PROVE ~ Asks(h[j].l)
  <2>1. h[a].c <= h[j].c
    BY <1>3, CountsRise
  <2>2. Asks(h[j].l) => h[j].c + 1 <= h[b].c
    BY <1>3, CountsRise
  <2>3. QED
    BY <1>2, <2>1, <2>2
<1>4. ASSUME NEW j \in Nat, h[j].l.pc = "done", j <= b PROVE h[b].l.pc = "done"
  BY <1>4, DoneStays
<1>5. ASSUME NEW j \in Nat, h[j].l.pc = "swap"
      PROVE  /\ h[j + 1].l.pc \in {"scan", "swap", "sort", "done"}
             /\ h[j + 1].l.pc = "swap" => h[j + 1].l.then = "sort"
             /\ h[j].l.then = "sort" => h[j + 1].l.pc \in {"sort", "done"}
  <2>1. LocalInv(h[j].l) /\ h[j + 1].l = Continue(h[j].l)
    <3>1. PICK m : m = h[j]
      OBVIOUS
    <3>2. Moment(m) /\ h[j + 1] = NextMoment(m)
      BY <1>1, <3>1
    <3>3. LocalInv(m.l) /\ NextMoment(m).l = Continue(m.l)
      BY <1>5, <3>1, <3>2 DEF Moment, NextMoment, Turn, Asks
    <3>4. QED
      BY <3>1, <3>2, <3>3
  <2>2. QED
    BY <1>5, <2>1, ContinueTurns
<1>6. ASSUME h[a].l.pc = "swap" PROVE FALSE
  <2>1. h[b].l.pc = "swap" /\ h[b].l.then = h[a].l.then
    BY <1>6
  <2>2. a + 1 <= b /\ a + 1 \in Nat /\ (a + 1) + 1 \in Nat
    OBVIOUS
  <2>3. h[a + 1].l.pc # "done"
    BY <1>4, <2>1, <2>2
  <2>4. a + 1 # b
    BY <1>5, <1>6, <2>1
  <2>5. a + 1 < b
    BY <2>2, <2>4
  <2>6. ~ Asks(h[a + 1].l)
    BY <1>3, <2>2, <2>5
  <2>7. h[a + 1].l.pc = "swap" /\ h[a + 1].l.then = "sort"
    BY <1>5, <1>6, <2>3, <2>6 DEF Asks
  <2>8. h[(a + 1) + 1].l.pc \in {"sort", "done"}
    BY <1>5, <2>2, <2>7
  <2>9. (a + 1) + 1 # b
    BY <2>1, <2>8
  <2>10. (a + 1) + 1 < b
    BY <2>5, <2>9
  <2>11. ~ Asks(h[(a + 1) + 1].l)
    BY <1>3, <2>2, <2>10
  <2>12. h[(a + 1) + 1].l.pc = "done"
    BY <2>8, <2>11 DEF Asks
  <2>13. QED
    BY <1>4, <2>1, <2>2, <2>10, <2>12
<1>7. ~ Asks(h[a].l)
  BY <1>3
<1>8. h[a].l.pc = "done"
  BY <1>2, <1>6, <1>7 DEF Running, Asks
<1>9. QED
  BY <1>8, DoneStays

\* When all ranks are at the same place and have joined every broadcast, the
\* slots hold what they hold at that moment of the story.
LEMMA AllHere ==
  ASSUME SortInv, NEW h, NEW pos, NEW told, Tracks(h, pos, told), NEW r \in Ranks,
         NEW l, \A q \in Ranks : at[q] = l /\ bcast[q] = <<>>
  PROVE  l = h[pos[r]].l /\ \A p \in Slots : array[p] = h[pos[r]].v[p]
<1>1. /\ pos \in [Ranks -> Nat] /\ Story(h) /\ told \in Nat /\ Placed(h, pos) /\ Heard(h, pos, told)
      /\ Lengths
  BY DEF Tracks, SortInv
<1>2. ASSUME NEW q \in Ranks, Awaits(q) PROVE FALSE
  <2>1. PICK d : d = at[q].to.rank
    OBVIOUS
  <2>2. Meets(h[pos[q]].l, q, d) /\ d \in Ranks
    BY <1>2, <2>1, AtExchange
  <2>3. at[q].from = h[pos[q]].l.from
    BY <1>2, AtSlots
  <2>4. at[d] = at[q]
    BY <2>2
  <2>5. Awaits(d)
    BY <1>2, <2>4 DEF Awaits
  <2>6. at[d].from = h[pos[d]].l.from
    BY <2>2, <2>5, AtSlots
  <2>7. Meets(h[pos[d]].l, d, at[d].to.rank)
    BY <2>2, <2>5, AtExchange
  <2>8. at[d].from.rank = d /\ at[q].from.rank = q /\ q # d
    BY <2>2, <2>3, <2>6, <2>7 DEF Meets
  <2>9. QED
    BY <2>4, <2>8
<1>3. ASSUME NEW q \in Ranks PROVE h[pos[q]].l = l /\ h[pos[q]].c = told
  <2>1. at[q] = h[pos[q]].l
    BY <1>2, AtMoment
  <2>2. Len(bcast[q]) = told - h[pos[q]].c /\ bcast[q] = <<>>
    BY <1>1 DEF Heard
  <2>3. h[pos[q]].c \in Nat
    BY Here DEF Moment
  <2>4. Len(<<>>) = 0
    OBVIOUS
  <2>5. QED
    BY <1>1, <2>1, <2>2, <2>3, <2>4
<1>4. ASSUME NEW q \in Ranks PROVE h[pos[q]].v = h[pos[r]].v
  <2>1. pos[q] \in Nat /\ pos[r] \in Nat
    BY <1>1
  <2>2. h[pos[q]].l = h[pos[r]].l /\ h[pos[q]].c = h[pos[r]].c
    BY <1>3
  <2>3. pos[q] = pos[r] \/ pos[q] < pos[r] \/ pos[r] < pos[q]
    BY <2>1
  <2>4. QED
    BY <1>1, <2>1, <2>2, <2>3, SameMoment
<1>5. ASSUME NEW p \in Slots PROVE array[p] = h[pos[r]].v[p]
  <2>1. p.rank \in Ranks /\ array[p] = h[pos[p.rank]].v[p]
    BY <1>1, SlotsAre DEF Placed
  <2>2. QED
    BY <1>4, <2>1
<1>6. QED
  BY <1>3, <1>5

\* What lies outside of an open stretch is on its right side.
LEMMA OpenApart ==
  ASSUME Lengths, NEW m, Moment(m), SeqInv(m), NEW part \in Open(m.l),
         NEW p \in Slots, NEW q \in Slots
  PROVE  /\ Precedes(p, part.left) /\ InOrder(part.left, q) => AtMost(m.v[p], m.v[q])
         /\ InOrder(p, part.right) /\ Precedes(part.right, q) => AtMost(m.v[p], m.v[q])
<1>1. /\ Open(m.l) \in SUBSET Stretches
      /\ \A A, B \in Open(m.l) : A = B \/ Precedes(A.right, B.left) \/ Precedes(B.right, A.left)
      /\ Covers(Open(m.l), m.v)
  BY OpenStretches DEF SeqInv
<1>2. /\ part.left \in Spots /\ part.right \in Spots /\ p \in Spots /\ q \in Spots
      /\ Precedes(part.left, part.right)
  BY <1>1, SlotsAre DEF Stretches
<1>3. ASSUME Precedes(p, part.left), InOrder(part.left, q) PROVE AtMost(m.v[p], m.v[q])
  <2>1. Precedes(p, q)
    BY <1>2, <1>3, LinearOrder
  <2>2. ASSUME NEW B \in Open(m.l), Inside(p, B), Inside(q, B) PROVE FALSE
    <3>1. B.left \in Spots /\ B.right \in Spots
      BY <1>1, SlotsAre DEF Stretches
    <3>2. CASE part = B
      BY <1>2, <1>3, <2>2, <3>1, <3>2, LinearOrder DEF Inside, InOrder
    <3>3. CASE Precedes(part.right, B.left)
      <4>1. Precedes(part.right, p)
        BY <1>2, <2>2, <3>1, <3>3, LinearOrder DEF Inside
      <4>2. Precedes(part.left, p)
        BY <1>2, <4>1, LinearOrder
      <4>3. Precedes(p, p)
        BY <1>2, <1>3, <4>2, LinearOrder
      <4>4. QED
        BY <1>2, <4>3, LinearOrder
    <3>4. CASE Precedes(B.right, part.left)
      <4>1. Precedes(q, part.left)
        BY <1>2, <2>2, <3>1, <3>4, LinearOrder DEF Inside
      <4>2. Precedes(q, q)
        BY <1>2, <1>3, <4>1, LinearOrder
      <4>3. QED
        BY <1>2, <4>2, LinearOrder
    <3>5. QED
      BY <1>1, <3>2, <3>3, <3>4
  <2>3. QED
    BY <1>1, <2>1, <2>2 DEF Covers
<1>4. ASSUME InOrder(p, part.right), Precedes(part.right, q) PROVE AtMost(m.v[p], m.v[q])
  <2>1. Precedes(p, q)
    BY <1>2, <1>4, LinearOrder
  <2>2. ASSUME NEW B \in Open(m.l), Inside(p, B), Inside(q, B) PROVE FALSE
    <3>1. B.left \in Spots /\ B.right \in Spots
      BY <1>1, SlotsAre DEF Stretches
    <3>2. CASE part = B
      BY <1>2, <1>4, <2>2, <3>1, <3>2, LinearOrder DEF Inside, InOrder
    <3>3. CASE Precedes(part.right, B.left)
      <4>1. Precedes(part.right, p)
        BY <1>2, <2>2, <3>1, <3>3, LinearOrder DEF Inside
      <4>2. Precedes(p, p)
        BY <1>2, <1>4, <4>1, LinearOrder
      <4>3. QED
        BY <1>2, <4>2, LinearOrder
    <3>4. CASE Precedes(B.right, part.left)
      <4>1. Precedes(q, part.left)
        BY <1>2, <2>2, <3>1, <3>4, LinearOrder DEF Inside
      <4>2. Precedes(q, part.right)
        BY <1>2, <4>1, LinearOrder
      <4>3. Precedes(q, q)
        BY <1>2, <1>4, <4>2, LinearOrder
      <4>4. QED
        BY <1>2, <4>3, LinearOrder
    <3>5. QED
      BY <1>1, <3>2, <3>3, <3>4
  <2>3. QED
    BY <1>1, <2>1, <2>2 DEF Covers
<1>5. QED
  BY <1>3, <1>4

\* The quicksort's invariant holds of the blocks of all ranks together, for any
\* number of ranks, empty ones among them, and whatever is to be sorted.
THEOREM PartitionIsKept == Spec => []PartitionHolds
<1>1. StoryInv => PartitionHolds
  <2>1. SUFFICES ASSUME StoryInv, NEW r \in Ranks, NEW l, l = at[r],
                        \A q \in Ranks : at[q] = l /\ bcast[q] = <<>>
                 PROVE  /\ \A k \in 1..Len(l.todo) : \A p, q \in Slots :
                             /\ Precedes(p, l.todo[k].left) /\ InOrder(l.todo[k].left, q) =>
                                  Compare(array[p], array[q]) # 1
                             /\ InOrder(p, l.todo[k].right) /\ Precedes(l.todo[k].right, q) =>
                                  Compare(array[p], array[q]) # 1
                        /\ l.pc = "scan" =>
                             /\ \A p, q \in Slots :
                                  /\ /\ Precedes(p, Stretch(l.left, l.right).left)
                                     /\ InOrder(Stretch(l.left, l.right).left, q)
                                     => Compare(array[p], array[q]) # 1
                                  /\ /\ InOrder(p, Stretch(l.left, l.right).right)
                                     /\ Precedes(Stretch(l.left, l.right).right, q)
                                     => Compare(array[p], array[q]) # 1
                             /\ array[l.right] = l.pivot
                             /\ \A p \in Slots :
                                  /\ InOrder(l.left, p) /\ Precedes(p, l.ret) =>
                                       Compare(array[p], l.pivot) = -1
                                  /\ InOrder(l.ret, p) /\ Precedes(p, l.i) =>
                                       Compare(array[p], l.pivot) # -1
    BY DEF PartitionHolds
  <2>2. CASE Idle
    <3>1. l.todo = <<>> /\ l.pc # "scan"
      BY <2>1, <2>2 DEF Idle
    <3>2. Len(<<>>) = 0
      OBVIOUS
    <3>3. QED
      BY <3>1, <3>2
  <2>3. CASE Underway
    <3>1. SortInv /\ Lengths
      BY <2>1 DEF StoryInv, SortInv
    <3>2. PICK h, pos, told : Tracks(h, pos, told) /\ SeqInv(h[0])
      BY <2>3 DEF Underway
    <3>3. PICK m : m = h[pos[r]]
      OBVIOUS
    <3>4. l = m.l /\ \A p \in Slots : array[p] = m.v[p]
      <4>1. l = h[pos[r]].l /\ \A p \in Slots : array[p] = h[pos[r]].v[p]
        <5>1. /\ r \in Ranks /\ SortInv /\ Tracks(h, pos, told)
              /\ \A q \in Ranks : at[q] = l /\ bcast[q] = <<>>
          BY <2>1, <3>1, <3>2
        <5>2. QED
          BY <5>1, AllHere
      <4>2. QED
        BY <3>3, <4>1
    <3>5. Moment(m)
      BY <3>1, <3>2, <3>3, Here
    <3>6. SeqInv(m)
      <4>1. pos[r] \in Nat /\ Story(h)
        BY <3>2 DEF Tracks
      <4>2. QED
        BY <3>1, <3>2, <3>3, <4>1, SeqHolds
    <3>7. ASSUME NEW part \in Open(l), NEW p \in Slots, NEW q \in Slots
          PROVE  /\ Precedes(p, part.left) /\ InOrder(part.left, q) =>
                      Compare(array[p], array[q]) # 1
                 /\ InOrder(p, part.right) /\ Precedes(part.right, q) =>
                      Compare(array[p], array[q]) # 1
      BY <3>1, <3>4, <3>5, <3>6, <3>7, OpenApart DEF AtMost
    <3>8. \A k \in 1..Len(l.todo) : l.todo[k] \in Open(l)
      BY DEF Open
    <3>9. l.pc = "scan" => Stretch(l.left, l.right) \in Open(l)
      BY DEF Open
    <3>10. ASSUME l.pc = "scan"
           PROVE  /\ array[l.right] = l.pivot
                  /\ \A p \in Slots :
                       /\ InOrder(l.left, p) /\ Precedes(p, l.ret) => Compare(array[p], l.pivot) = -1
                       /\ InOrder(l.ret, p) /\ Precedes(p, l.i) => Compare(array[p], l.pivot) # -1
      <4>1. Divided(l, m.v)
        BY <3>4, <3>6, <3>10 DEF SeqInv, Moving
      <4>2. l.right \in Slots /\ l.pivot \in Values /\ m.v \in [Slots -> Values]
        BY <3>4, <3>5, <3>10 DEF Moment, LocalInv, Within, Locals
      <4>3. \A p \in Slots : /\ array[p] = m.v[p]
                             /\ Compare(m.v[p], l.pivot) = -1 <=> ~ AtMost(l.pivot, m.v[p])
        BY <3>4, <4>2, AtMostOrder
      <4>4. QED
        BY <4>1, <4>2, <4>3 DEF Divided
    <3>11. QED
      BY <3>7, <3>8, <3>9, <3>10
  <2>4. QED
    BY <2>1, <2>2, <2>3 DEF StoryInv
<1>2. QED
  BY <1>1, StoryHolds, PTL

------------------------------------------------------------------------------
(* The ranks that are behind a rank: which elements they may still exchange. *)

\* The ranks of these slots are past moment k.
TodoPast(l, k, pos) ==
  \A j \in 1..Len(l.todo), p \in Slots : Inside(p, l.todo[j]) => pos[p.rank] > k
LoopPast(l, k, pos) ==
  \A p \in Slots : InOrder(l.i, p) /\ Precedes(p, l.right) => pos[p.rank] > k

\* On one side of each of r's slots there is no rank that is not past it.
OneSide(l, k, pos, r) ==
  \A a, x, b \in Slots :
    InOrder(l.left, a) /\ Precedes(a, x) /\ Precedes(x, b) /\ InOrder(b, l.right) /\ x.rank = r =>
      pos[a.rank] > k \/ pos[b.rank] > k

\* Whatever is asked about before the end is past, when the end is reached: so
\* are the slots that are to be asked about.
Ahead(l, k, pos, r) ==
  /\ TodoPast(l, k, pos)
  /\ l.pc = "scan" => LoopPast(l, k, pos)
  /\ l.pc = "swap" /\ l.then = "next" =>
       \A p \in Slots : Precedes(l.i, p) /\ Precedes(p, l.right) => pos[p.rank] > k
  /\ l.pc = "swap" /\ l.then = "scan" =>
       \A p \in Slots : InOrder(l.left, p) /\ Precedes(p, l.right) => pos[p.rank] > k
  /\ Moving(l) => OneSide(l, k, pos, r)

\* A rank has heard all that was told before it came where it is.
LEMMA AskedPast ==
  ASSUME SortInv, NEW h, NEW pos, NEW told, Tracks(h, pos, told), NEW r \in Ranks,
         NEW k \in Nat, k < pos[r], Asks(h[k].l)
  PROVE  pos[Asked(h[k].l).rank] > k
<1>1. /\ pos \in [Ranks -> Nat] /\ Story(h) /\ told \in Nat /\ Heard(h, pos, told)
      /\ Lengths /\ bcast \in [Ranks -> Seq(Broadcasts)]
  BY DEF Tracks, SortInv
<1>2. Len(bcast[r]) = told - h[pos[r]].c /\ Len(bcast[r]) \in Nat
  BY <1>1 DEF Heard
<1>3. h[k].c + 1 <= h[pos[r]].c
  BY <1>1, CountsRise
<1>4. h[k].c \in Nat /\ h[pos[r]].c \in Nat
  BY <1>1, StoryType DEF Moment
<1>5. h[k].c < told
  <2>1. PICK a, b, n : a = h[k].c /\ b = h[pos[r]].c /\ n = Len(bcast[r])
    OBVIOUS
  <2>2. a \in Nat /\ b \in Nat /\ n \in Nat /\ told \in Nat /\ n = told - b /\ a + 1 <= b
    BY <1>1, <1>2, <1>3, <1>4, <2>1
  <2>3. a < told
    BY <2>2
  <2>4. QED
    BY <2>1, <2>3
<1>6. QED
  BY <1>1, <1>5 DEF Heard

LEMMA AheadScan ==
  ASSUME Lengths, NEW x \in Locals, NEW k \in Nat, NEW pos \in [Ranks -> Nat], NEW r \in Ranks,
         x.i \in Slots, x.right \in Slots, Ahead(Scan(x), k + 1, pos, r)
  PROVE  TodoPast(x, k, pos) /\ LoopPast(x, k, pos) /\ OneSide(x, k, pos, r)
<1>1. PICK n : n = Scan(x)
  OBVIOUS
<1>2. /\ n.todo = x.todo /\ n.left = x.left /\ n.right = x.right /\ n.i = x.i
      /\ x.i # x.right => n.pc = "scan"
      /\ x.i = x.right => n.pc = "swap" /\ n.then = "sort"
  BY <1>1, ScanFields
<1>3. \A p \in Slots : p.rank \in Ranks /\ pos[p.rank] \in Nat
  BY SlotsAre
<1>4. \A p \in Slots : pos[p.rank] > k + 1 => pos[p.rank] > k
  BY <1>3
<1>5. TodoPast(x, k, pos)
  BY <1>1, <1>2, <1>4 DEF Ahead, TodoPast
<1>6. LoopPast(x, k, pos)
  <2>1. CASE x.i # x.right
    BY <1>1, <1>2, <1>4, <2>1 DEF Ahead, LoopPast
  <2>2. CASE x.i = x.right
    <3>1. ASSUME NEW p \in Slots, InOrder(x.i, p), Precedes(p, x.right) PROVE FALSE
      <4>1. p \in Spots /\ x.right \in Spots
        BY SlotsAre
      <4>2. QED
        BY <2>2, <3>1, <4>1, LinearOrder
    <3>2. QED
      BY <3>1 DEF LoopPast
  <2>3. QED
    BY <2>1, <2>2
<1>7. OneSide(x, k, pos, r)
  <2>1. Moving(n)
    BY <1>2 DEF Moving
  <2>2. QED
    BY <1>1, <1>2, <1>4, <2>1 DEF Ahead, OneSide
<1>8. QED
  BY <1>5, <1>6, <1>7

LEMMA AheadSort ==
  ASSUME SortInv, NEW h, NEW pos, NEW told, Tracks(h, pos, told), NEW r \in Ranks,
         NEW k \in Nat, k < pos[r], SeqInv(h[k]), h[k].l.pc = "sort",
         Ahead(h[k + 1].l, k + 1, pos, r)
  PROVE  Ahead(h[k].l, k, pos, r)
<1>1. PICK l, v, n, part, pivot :
        /\ l = h[k].l /\ v = h[k].v /\ n = h[k + 1].l /\ part = Head(l.todo)
        /\ pivot = Pivot(part.left, part.right)
  OBVIOUS
<1>2. /\ pos \in [Ranks -> Nat] /\ Story(h) /\ Met(h, pos) /\ Lengths
      /\ Moment(h[k]) /\ h[k + 1] = NextMoment(h[k])
  BY StoryType DEF Tracks, SortInv
<1>3. /\ LocalInv(l) /\ l \in Locals /\ l.todo \in Seq(Stretches) /\ l.todo # <<>> /\ l.pc = "sort"
      /\ Len(l.todo) \in Nat
  BY <1>1, <1>2 DEF Moment, LocalInv, Locals
<1>4. /\ part \in Stretches /\ part = l.todo[1]
      /\ Tail(l.todo) \in Seq(Stretches) /\ Len(Tail(l.todo)) = Len(l.todo) - 1
      /\ Len(l.todo) >= 1 /\ \A j \in 1..Len(Tail(l.todo)) : Tail(l.todo)[j] = l.todo[j + 1]
  BY <1>1, <1>3
<1>5. /\ part.left \in Slots /\ part.right \in Slots /\ Precedes(part.left, part.right)
  BY <1>4 DEF Stretches
<1>6. pivot \in Slots /\ InOrder(part.left, pivot) /\ InOrder(pivot, part.right)
  BY <1>1, <1>2, <1>5, PivotSlot
<1>7. n = Partition(l, Told(l, v))
  BY <1>1, <1>2, <1>3 DEF NextMoment, Turn, Asks, Joined
<1>8. /\ n.pc = "swap" /\ n.then = "scan" /\ n.todo = Tail(l.todo)
      /\ n.left = part.left /\ n.right = part.right /\ n.from = pivot /\ n.to = part.right
  BY <1>1, <1>3, <1>7, PartitionFields
<1>9. \A p \in Slots : p \in Spots /\ p.rank \in Ranks /\ pos[p.rank] \in Nat
  BY <1>2, SlotsAre
<1>10. Ahead(n, k + 1, pos, r)
  BY <1>1
<1>11. \A p \in Slots : InOrder(part.left, p) /\ Precedes(p, part.right) => pos[p.rank] > k + 1
  BY <1>8, <1>10 DEF Ahead
<1>12. pos[part.right.rank] > k
  <2>1. CASE pivot = part.right
    <3>1. Asks(h[k].l) /\ Asked(h[k].l) = pivot
      BY <1>1, <1>3 DEF Asks, Asked
    <3>2. pos[Asked(h[k].l).rank] > k
      BY <3>1, AskedPast
    <3>3. QED
      BY <2>1, <3>1, <3>2
  <2>2. CASE pivot # part.right
    <3>1. pos[pivot.rank] > k + 1
      BY <1>6, <1>11, <2>2 DEF InOrder
    <3>2. CASE pivot.rank = part.right.rank
      BY <1>5, <1>9, <3>1, <3>2
    <3>3. CASE pivot.rank # part.right.rank
      <4>1. Meets(h[k + 1].l, pivot.rank, part.right.rank)
        BY <1>1, <1>8, <3>3 DEF Meets
      <4>2. pos[part.right.rank] > k + 1
        BY <1>2, <1>5, <1>6, <1>9, <3>1, <4>1 DEF Met
      <4>3. QED
        BY <1>5, <1>9, <4>2
    <3>4. QED
      BY <3>2, <3>3
  <2>3. QED
    BY <2>1, <2>2
<1>13. TodoPast(l, k, pos)
  <2>1. SUFFICES ASSUME NEW j \in 1..Len(l.todo), NEW p \in Slots, Inside(p, l.todo[j])
                 PROVE  pos[p.rank] > k
    BY DEF TodoPast
  <2>2. CASE j = 1
    <3>1. InOrder(part.left, p) /\ InOrder(p, part.right)
      BY <1>4, <2>1, <2>2 DEF Inside
    <3>2. CASE p = part.right
      BY <1>12, <3>2
    <3>3. CASE p # part.right
      <4>1. pos[p.rank] > k + 1
        BY <1>11, <3>1, <3>3 DEF InOrder
      <4>2. QED
        BY <1>9, <4>1
    <3>4. QED
      BY <3>2, <3>3
  <2>3. CASE j # 1
    <3>1. j - 1 \in 1..Len(n.todo) /\ n.todo[j - 1] = l.todo[j]
      BY <1>3, <1>4, <1>8, <2>3
    <3>2. pos[p.rank] > k + 1
      BY <1>10, <2>1, <3>1 DEF Ahead, TodoPast
    <3>3. QED
      BY <1>9, <3>2
  <2>4. QED
    BY <2>2, <2>3
<1>14. QED
  BY <1>1, <1>3, <1>13 DEF Ahead, Moving

\* What Continue() makes of an exchange.
LEMMA ContinueScan ==
  ASSUME NEW l \in Locals, l.then = "scan", NEW x, x = [l EXCEPT !.i = l.left, !.ret = l.left]
  PROVE  /\ Continue(l) = Scan(x) /\ x \in Locals /\ x.todo = l.todo
         /\ x.left = l.left /\ x.right = l.right /\ x.i = l.left /\ x.ret = l.left
BY DEF Continue, Locals

LEMMA AheadSwapScan ==
  ASSUME Lengths, NEW k \in Nat, NEW pos \in [Ranks -> Nat], NEW r \in Ranks,
         NEW m, Moment(m), m.l.pc = "swap", m.l.then = "scan",
         Ahead(NextMoment(m).l, k + 1, pos, r)
  PROVE  Ahead(m.l, k, pos, r)
<1>1. PICK l, x : l = m.l /\ x = [l EXCEPT !.i = l.left, !.ret = l.left]
  OBVIOUS
<1>2. /\ LocalInv(l) /\ l \in Locals /\ l.pc = "swap" /\ l.then = "scan" /\ Within(l)
  BY <1>1 DEF Moment, LocalInv
<1>3. /\ Continue(l) = Scan(x) /\ x \in Locals /\ x.todo = l.todo
      /\ x.left = l.left /\ x.right = l.right /\ x.i = l.left
  BY <1>1, <1>2, ContinueScan
<1>4. NextMoment(m).l = Scan(x)
  BY <1>1, <1>2, <1>3 DEF NextMoment, Turn, Asks
<1>5. x.i \in Slots /\ x.right \in Slots /\ Ahead(Scan(x), k + 1, pos, r)
  BY <1>2, <1>3, <1>4 DEF Within
<1>6. TodoPast(x, k, pos) /\ LoopPast(x, k, pos)
  BY <1>3, <1>5, AheadScan
<1>7. QED
  BY <1>1, <1>2, <1>3, <1>6 DEF Ahead, TodoPast, LoopPast, Moving

\* The loop goes on after i: what is known of the slots after i is known.
LEMMA AheadNext ==
  ASSUME Lengths, NEW k \in Nat, NEW pos \in [Ranks -> Nat], NEW r \in Ranks,
         NEW l \in Locals, l.i \in Slots, l.right \in Slots, Precedes(l.i, l.right),
         NEW x \in Locals, x.i = Following(l.i, l.right), x.todo = l.todo,
         x.left = l.left, x.right = l.right, Ahead(Scan(x), k + 1, pos, r)
  PROVE  /\ TodoPast(l, k, pos) /\ OneSide(l, k, pos, r)
         /\ \A p \in Slots : Precedes(l.i, p) /\ Precedes(p, l.right) => pos[p.rank] > k
<1>1. /\ x.i \in Slots
      /\ \A q \in Slots : Precedes(l.i, q) /\ InOrder(q, l.right) => InOrder(x.i, q)
  BY FollowingSlot
<1>2. x.right \in Slots
  OBVIOUS
<1>3. TodoPast(x, k, pos) /\ LoopPast(x, k, pos) /\ OneSide(x, k, pos, r)
  BY <1>1, <1>2, AheadScan
<1>4. TodoPast(l, k, pos) /\ OneSide(l, k, pos, r)
  BY <1>3 DEF TodoPast, OneSide
<1>5. \A p \in Slots : Precedes(l.i, p) /\ Precedes(p, l.right) => pos[p.rank] > k
  BY <1>1, <1>3 DEF LoopPast, InOrder
<1>6. QED
  BY <1>4, <1>5

LEMMA AheadSwapNext ==
  ASSUME Lengths, NEW k \in Nat, NEW pos \in [Ranks -> Nat], NEW r \in Ranks,
         NEW m, Moment(m), m.l.pc = "swap", m.l.then = "next",
         Ahead(NextMoment(m).l, k + 1, pos, r)
  PROVE  Ahead(m.l, k, pos, r)
<1>1. PICK l, i, ret, x :
        /\ l = m.l /\ i = Following(l.i, l.right) /\ ret = Following(l.ret, l.right)
        /\ x = [l EXCEPT !.i = i, !.ret = ret]
  OBVIOUS
<1>2. /\ LocalInv(l) /\ l \in Locals /\ l.pc = "swap" /\ l.then = "next"
      /\ Within(l) /\ Ordered(l) /\ l.i # l.right
  BY <1>1 DEF Moment, LocalInv, Moving
<1>3. /\ l.i \in Slots /\ l.ret \in Slots /\ l.right \in Slots
      /\ InOrder(l.ret, l.i) /\ InOrder(l.i, l.right)
  BY <1>2 DEF Within, Ordered
<1>4. l.i \in Spots /\ l.ret \in Spots /\ l.right \in Spots
  BY <1>3, SlotsAre
<1>5. Precedes(l.i, l.right) /\ Precedes(l.ret, l.right)
  BY <1>2, <1>3, <1>4, LinearOrder DEF InOrder
<1>6. i \in Slots /\ ret \in Slots
  BY <1>1, <1>3, <1>5, FollowingSlot
<1>7. i \in Spots /\ ret \in Spots
  BY <1>6, SlotsAre
<1>8. /\ x \in Locals /\ x.todo = l.todo /\ x.left = l.left /\ x.right = l.right /\ x.i = i
  BY <1>1, <1>2, <1>7 DEF Locals
<1>9. NextMoment(m).l = Scan(x)
  <2>1. NextMoment(m).l = Continue(l)
    BY <1>1, <1>2 DEF NextMoment, Turn, Asks
  <2>2. Continue(l) = Scan(x)
    BY <1>1, <1>2 DEF Continue
  <2>3. QED
    BY <2>1, <2>2
<1>10. /\ TodoPast(l, k, pos) /\ OneSide(l, k, pos, r)
       /\ \A p \in Slots : Precedes(l.i, p) /\ Precedes(p, l.right) => pos[p.rank] > k
  <2>1. /\ l \in Locals /\ l.i \in Slots /\ l.right \in Slots /\ Precedes(l.i, l.right)
        /\ x \in Locals /\ x.i = Following(l.i, l.right) /\ x.todo = l.todo
        /\ x.left = l.left /\ x.right = l.right /\ Ahead(Scan(x), k + 1, pos, r)
    BY <1>1, <1>2, <1>3, <1>5, <1>8, <1>9
  <2>2. QED
    BY <2>1, AheadNext
<1>11. QED
  BY <1>1, <1>2, <1>10 DEF Ahead

LEMMA AheadCheck ==
  ASSUME Lengths, NEW k \in Nat, NEW pos \in [Ranks -> Nat], NEW r \in Ranks,
         NEW m, Moment(m), m.l.pc = "scan", pos[m.l.i.rank] > k,
         Ahead(NextMoment(m).l, k + 1, pos, r)
  PROVE  Ahead(m.l, k, pos, r)
<1>1. PICK l, check : l = m.l /\ check = Told(l, m.v)
  OBVIOUS
<1>2. /\ LocalInv(l) /\ l \in Locals /\ l.pc = "scan" /\ Within(l) /\ Ordered(l) /\ l.i # l.right
  BY <1>1 DEF Moment, LocalInv, Moving
<1>3. NextMoment(m).l = Compared(l, check)
  BY <1>1, <1>2 DEF NextMoment, Turn, Asks, Joined
<1>4. /\ l.i \in Slots /\ l.right \in Slots /\ InOrder(l.i, l.right)
  BY <1>2 DEF Within, Ordered
<1>5. Precedes(l.i, l.right)
  <2>1. l.i \in Spots /\ l.right \in Spots
    BY <1>4, SlotsAre
  <2>2. QED
    BY <1>2, <1>4, <2>1, LinearOrder
<1>6. /\ TodoPast(l, k, pos) /\ OneSide(l, k, pos, r)
      /\ \A p \in Slots : Precedes(l.i, p) /\ Precedes(p, l.right) => pos[p.rank] > k
  <2>1. CASE check = -1
    <3>1. PICK n : n = Exchange(l, l.i, l.ret, "next")
      OBVIOUS
    <3>2. /\ n.pc = "swap" /\ n.then = "next" /\ n.todo = l.todo
          /\ n.left = l.left /\ n.right = l.right /\ n.i = l.i
      BY <1>2, <3>1 DEF Exchange, Locals
    <3>3. Ahead(n, k + 1, pos, r)
      BY <1>3, <2>1, <3>1 DEF Compared
    <3>4. \A p \in Slots : pos[p.rank] > k + 1 => pos[p.rank] > k
      <4>1. \A p \in Slots : pos[p.rank] \in Nat
        BY SlotsAre
      <4>2. QED
        BY <4>1
    <3>5. Moving(n)
      BY <3>2 DEF Moving
    <3>6. TodoPast(l, k, pos)
      BY <3>2, <3>3, <3>4 DEF Ahead, TodoPast
    <3>7. OneSide(l, k, pos, r)
      BY <3>2, <3>3, <3>4, <3>5 DEF Ahead, OneSide
    <3>8. \A p \in Slots : Precedes(l.i, p) /\ Precedes(p, l.right) => pos[p.rank] > k
      BY <3>2, <3>3, <3>4 DEF Ahead
    <3>9. QED
      BY <3>6, <3>7, <3>8
  <2>2. CASE check # -1
    <3>1. PICK i, x : i = Following(l.i, l.right) /\ x = [l EXCEPT !.i = i]
      OBVIOUS
    <3>2. i \in Slots /\ i \in Spots
      BY <1>4, <1>5, <3>1, FollowingSlot, SlotsAre
    <3>3. /\ x \in Locals /\ x.todo = l.todo /\ x.left = l.left /\ x.right = l.right /\ x.i = i
      BY <1>2, <3>1, <3>2 DEF Locals
    <3>4. Ahead(Scan(x), k + 1, pos, r)
      BY <1>3, <2>2, <3>1 DEF Compared
    <3>5. QED
      BY <1>2, <1>4, <1>5, <3>1, <3>3, <3>4, AheadNext
  <2>3. QED
    BY <2>1, <2>2
<1>7. LoopPast(l, k, pos)
  BY <1>1, <1>6 DEF LoopPast, InOrder
<1>8. QED
  BY <1>1, <1>2, <1>6, <1>7 DEF Ahead

\* The exchange between ret and right is over: what is known of the two parts is
\* known of the stretch.
LEMMA AheadSwapSort ==
  ASSUME SortInv, NEW h, NEW pos, NEW told, Tracks(h, pos, told), NEW r \in Ranks,
         NEW k \in Nat, k < pos[r], SeqInv(h[k]), h[k].l.pc = "swap", h[k].l.then = "sort",
         Ahead(h[k + 1].l, k + 1, pos, r)
  PROVE  Ahead(h[k].l, k, pos, r)
<1>1. PICK l, s, t : l = h[k].l /\ s = Parts(l.left, l.right, l.ret) /\ t = s \o l.todo
  OBVIOUS
<1>2. /\ pos \in [Ranks -> Nat] /\ Story(h) /\ Met(h, pos) /\ Lengths
      /\ Moment(h[k]) /\ h[k + 1] = NextMoment(h[k])
  BY StoryType DEF Tracks, SortInv
<1>3. /\ LocalInv(l) /\ l \in Locals /\ l.todo \in Seq(Stretches) /\ l.pc = "swap" /\ l.then = "sort"
      /\ Within(l) /\ Ordered(l) /\ Purpose(l, h[k].v)
  BY <1>1, <1>2 DEF Moment, LocalInv, Locals, Moving, SeqInv
<1>4. /\ l.ret \in Slots /\ l.left \in Slots /\ l.right \in Slots
      /\ InOrder(l.left, l.ret) /\ InOrder(l.ret, l.right)
      /\ l.from = l.ret /\ l.to = l.right
  BY <1>3 DEF Within, Ordered, Purpose
<1>5. /\ l.ret \in Spots /\ l.left \in Spots /\ l.right \in Spots
      /\ \A p \in Slots : p \in Spots /\ p.rank \in Ranks /\ pos[p.rank] \in Nat
  BY <1>2, <1>4, SlotsAre
<1>6. /\ s \in Seq(Stretches)
      /\ \A p, q \in Slots :
              /\ InOrder(l.left, p) /\ Precedes(p, q) /\ InOrder(q, l.right)
              /\ Precedes(q, l.ret) \/ Precedes(l.ret, p)
              => \E j \in 1..Len(s) : Inside(p, s[j]) /\ Inside(q, s[j])
  <2>1. PICK left, right, ret : left = l.left /\ right = l.right /\ ret = l.ret
    OBVIOUS
  <2>2. /\ Lengths /\ left \in Slots /\ right \in Slots /\ ret \in Slots
        /\ InOrder(left, ret) /\ InOrder(ret, right) /\ s = Parts(left, right, ret)
    BY <1>1, <1>2, <1>4, <2>1
  <2>3. /\ s \in Seq(Stretches)
        /\ \A p, q \in Slots :
              /\ InOrder(left, p) /\ Precedes(p, q) /\ InOrder(q, right)
              /\ Precedes(q, ret) \/ Precedes(ret, p)
              => \E j \in 1..Len(s) : Inside(p, s[j]) /\ Inside(q, s[j])
    BY <2>2, PartsAre
  <2>4. QED
    BY <2>1, <2>3
<1>7. /\ t \in Seq(Stretches) /\ Len(t) = Len(s) + Len(l.todo)
      /\ Len(s) \in Nat /\ Len(l.todo) \in Nat
      /\ \A j \in 1..Len(s) : t[j] = s[j]
      /\ \A j \in 1..Len(l.todo) : t[Len(s) + j] = l.todo[j]
  <2>1. PICK todo : todo = l.todo
    OBVIOUS
  <2>2. todo \in Seq(Stretches) /\ s \in Seq(Stretches) /\ t = s \o todo
    BY <1>1, <1>3, <1>6, <2>1
  <2>3. /\ t \in Seq(Stretches) /\ Len(t) = Len(s) + Len(todo)
        /\ Len(s) \in Nat /\ Len(todo) \in Nat
    BY <2>2
  <2>4. \A j \in 1..Len(s) : t[j] = s[j]
    BY <2>2, <2>3
  <2>5. \A j \in 1..Len(todo) : t[Len(s) + j] = todo[j]
    BY <2>2, <2>3
  <2>6. QED
    BY <2>1, <2>3, <2>4, <2>5
<1>8. h[k + 1].l = Sort(t)
  <2>1. h[k + 1].l = Continue(l)
    <3>1. h[k + 1] = NextMoment(h[k])
      BY <1>2
    <3>2. h[k + 1].l = Turn(l, h[k].v)
      BY <1>1, <3>1 DEF NextMoment
    <3>3. QED
      BY <1>3, <3>2 DEF Turn, Asks
  <2>2. Continue(l) = Sort(t)
    BY <1>1, <1>3 DEF Continue
  <2>3. QED
    BY <2>1, <2>2
<1>9. Sort(t).todo = t
  BY DEF Sort, Local
<1>10. \A j \in 1..Len(t), p \in Slots : Inside(p, t[j]) => pos[p.rank] > k
  <2>1. \A j \in 1..Len(t), p \in Slots : Inside(p, t[j]) => pos[p.rank] > k + 1
    BY <1>8, <1>9 DEF Ahead, TodoPast
  <2>2. QED
    BY <1>5, <2>1
<1>11. TodoPast(l, k, pos)
  <2>1. SUFFICES ASSUME NEW j \in 1..Len(l.todo), NEW p \in Slots, Inside(p, l.todo[j])
                 PROVE  pos[p.rank] > k
    BY DEF TodoPast
  <2>2. Len(s) + j \in 1..Len(t) /\ t[Len(s) + j] = l.todo[j]
    BY <1>7
  <2>3. QED
    BY <1>10, <2>1, <2>2
<1>12. \A j \in 1..Len(s), p \in Slots : Inside(p, s[j]) => pos[p.rank] > k
  <2>1. \A j \in 1..Len(s) : j \in 1..Len(t) /\ t[j] = s[j]
    BY <1>7
  <2>2. QED
    BY <1>10, <2>1
<1>13. OneSide(l, k, pos, r)
  <2>1. SUFFICES ASSUME NEW a \in Slots, NEW x \in Slots, NEW b \in Slots,
                        InOrder(l.left, a), Precedes(a, x), Precedes(x, b), InOrder(b, l.right),
                        x.rank = r
                 PROVE  pos[a.rank] > k \/ pos[b.rank] > k
    BY DEF OneSide
  <2>2. /\ a \in Spots /\ x \in Spots /\ b \in Spots
        /\ InOrder(l.left, x) /\ InOrder(x, l.right) /\ Precedes(x, l.right)
    BY <1>5, <2>1, LinearOrder DEF InOrder
  <2>3. CASE Precedes(x, l.ret)
    BY <1>6, <1>12, <2>1, <2>2, <2>3
  <2>4. CASE Precedes(l.ret, x)
    BY <1>6, <1>12, <2>1, <2>2, <2>4
  <2>5. CASE x = l.ret /\ b # l.right
    <3>1. Precedes(b, l.right)
      BY <2>1, <2>5 DEF InOrder
    <3>2. Precedes(l.ret, b) /\ InOrder(l.left, b) /\ InOrder(l.right, l.right)
      BY <1>5, <2>1, <2>2, <2>5, LinearOrder DEF InOrder
    <3>3. QED
      BY <1>4, <1>6, <1>12, <3>1, <3>2
  <2>6. CASE x = l.ret /\ b = l.right
    <3>1. CASE b.rank = r
      BY <1>5, <2>6, <3>1
    <3>2. CASE b.rank # r
      <4>1. Meets(h[k].l, r, b.rank)
        BY <1>1, <1>3, <1>4, <2>1, <2>6, <3>2 DEF Meets
      <4>2. pos[b.rank] > k
        BY <1>2, <1>5, <4>1 DEF Met
      <4>3. QED
        BY <4>2
    <3>3. QED
      BY <3>1, <3>2
  <2>7. QED
    BY <1>5, <2>2, <2>3, <2>4, <2>5, <2>6, LinearOrder
<1>14. QED
  BY <1>1, <1>3, <1>11, <1>13 DEF Ahead

LEMMA AheadStep ==
  ASSUME SortInv, NEW h, NEW pos, NEW told, Tracks(h, pos, told), NEW r \in Ranks,
         NEW k \in Nat, k < pos[r], SeqInv(h[k]), Ahead(h[k + 1].l, k + 1, pos, r)
  PROVE  Ahead(h[k].l, k, pos, r)
<1>1. PICK m : m = h[k]
  OBVIOUS
<1>2. /\ Lengths /\ pos \in [Ranks -> Nat] /\ Moment(m) /\ h[k + 1] = NextMoment(m)
  BY <1>1, StoryType DEF Tracks, SortInv
<1>3. /\ m.l.pc \in Running /\ m.l.then \in Thens /\ Ahead(NextMoment(m).l, k + 1, pos, r)
  BY <1>2 DEF Moment, LocalInv, Locals
<1>4. CASE m.l.pc = "sort"
  BY <1>1, <1>4, AheadSort
<1>5. CASE m.l.pc = "scan"
  <2>1. Asks(h[k].l) /\ Asked(h[k].l) = m.l.i
    BY <1>1, <1>5 DEF Asks, Asked
  <2>2. pos[m.l.i.rank] > k
    BY <2>1, AskedPast
  <2>3. Ahead(m.l, k, pos, r)
    BY <1>2, <1>3, <1>5, <2>2, AheadCheck
  <2>4. QED
    BY <1>1, <2>3
<1>6. CASE m.l.pc = "swap" /\ m.l.then = "scan"
  <2>1. Ahead(m.l, k, pos, r)
    BY <1>2, <1>3, <1>6, AheadSwapScan
  <2>2. QED
    BY <1>1, <2>1
<1>7. CASE m.l.pc = "swap" /\ m.l.then = "next"
  <2>1. Ahead(m.l, k, pos, r)
    BY <1>2, <1>3, <1>7, AheadSwapNext
  <2>2. QED
    BY <1>1, <2>1
<1>8. CASE m.l.pc = "swap" /\ m.l.then = "sort"
  BY <1>1, <1>8, AheadSwapSort
<1>9. CASE m.l.pc = "done"
  <2>1. m.l.todo = <<>>
    BY <1>1, <1>9 DEF SeqInv
  <2>2. TodoPast(m.l, k, pos)
    <3>1. Len(m.l.todo) = 0
      BY <2>1
    <3>2. QED
      BY <3>1 DEF TodoPast
  <2>3. QED
    BY <1>1, <1>9, <2>2 DEF Ahead, Moving
<1>10. QED
  BY <1>3, <1>4, <1>5, <1>6, <1>7, <1>8, <1>9 DEF Running, Thens

\* When a rank has come to the end, it knows of every moment before it.
LEMMA AheadHolds ==
  ASSUME SortInv, NEW h, NEW pos, NEW told, Tracks(h, pos, told), SeqInv(h[0]),
         NEW r \in Ranks, h[pos[r]].l.pc = "done"
  PROVE  \A k \in Nat : k <= pos[r] => Ahead(h[k].l, k, pos, r)
<1>1. PICK n : n = pos[r]
  OBVIOUS
<1>2. n \in Nat /\ Story(h) /\ Lengths
  BY <1>1 DEF Tracks, SortInv
<1>3. \A k \in Nat : SeqInv(h[k])
  BY <1>2, SeqHolds
<1> DEFINE T == {x \in Nat : x <= n => Ahead(h[n - x].l, n - x, pos, r)}
<1>4. 0 \in T
  <2>1. PICK l : l = h[n].l
    OBVIOUS
  <2>2. l.pc = "done" /\ l.todo = <<>>
    BY <1>1, <1>2, <1>3, <2>1 DEF SeqInv
  <2>3. Len(l.todo) = 0
    BY <2>2
  <2>4. Ahead(l, n, pos, r)
    BY <2>2, <2>3 DEF Ahead, TodoPast, Moving
  <2>5. n - 0 = n
    BY <1>2
  <2>6. QED
    BY <2>1, <2>4, <2>5
<1>5. ASSUME NEW x \in Nat, x \in T PROVE x + 1 \in T
  <2>1. SUFFICES ASSUME x + 1 <= n PROVE Ahead(h[n - (x + 1)].l, n - (x + 1), pos, r)
    OBVIOUS
  <2>2. PICK k : k = n - (x + 1)
    OBVIOUS
  <2>3. k \in Nat /\ k + 1 = n - x /\ k < n /\ x <= n
    BY <1>2, <2>1, <2>2
  <2>4. Ahead(h[k + 1].l, k + 1, pos, r)
    BY <1>5, <2>3
  <2>5. SeqInv(h[k]) /\ k < pos[r]
    BY <1>1, <1>3, <2>3
  <2>6. Ahead(h[k].l, k, pos, r)
    BY <2>3, <2>4, <2>5, AheadStep
  <2>7. QED
    BY <2>2, <2>6
<1>6. \A x \in Nat : x \in T
  <2> HIDE DEF T
  <2>1. QED
    BY <1>4, <1>5, SetInductionNat
<1>7. ASSUME NEW k \in Nat, k <= n PROVE Ahead(h[k].l, k, pos, r)
  <2>1. n - k \in Nat /\ n - k <= n /\ n - (n - k) = k
    BY <1>2, <1>7
  <2>2. Ahead(h[n - (n - k)].l, n - (n - k), pos, r)
    BY <1>6, <2>1
  <2>3. QED
    BY <2>1, <2>2
<1>8. QED
  BY <1>1, <1>7

------------------------------------------------------------------------------
(* What is in the slots for the ranks together.                            *)

\* The ranks that are behind exchange nothing across a slot of a rank that is
\* at the end.
LEMMA NotAcross ==
  ASSUME SortInv, NEW h, NEW pos, NEW told, Tracks(h, pos, told), SeqInv(h[0]),
         NEW r \in Ranks, h[pos[r]].l.pc = "done", NEW j \in Nat, j < pos[r],
         NEW l, l = h[j].l, l.pc = "swap", pos[l.from.rank] <= j, pos[l.to.rank] <= j,
         NEW x \in Slots, x.rank = r
  PROVE  Precedes(l.from, x) <=> Precedes(l.to, x)
<1>1. pos[r] \in Nat /\ pos \in [Ranks -> Nat] /\ Story(h) /\ Lengths
  BY DEF Tracks, SortInv
<1>2. Ahead(l, j, pos, r)
  BY <1>1, AheadHolds
<1>3. SeqInv(h[j]) /\ Moment(h[j])
  BY <1>1, SeqHolds, StoryType
<1>4. /\ LocalInv(l) /\ l \in Locals /\ Within(l) /\ Purpose(l, h[j].v) /\ l.then \in Thens
  BY <1>3 DEF Moment, LocalInv, Locals, SeqInv
<1>5. l.from \in Slots /\ l.to \in Slots /\ l.left \in Slots /\ l.right \in Slots
  BY <1>4 DEF Within
<1>6. \A p \in Slots : p \in Spots /\ p.rank \in Ranks /\ pos[p.rank] \in Nat
  BY <1>1, SlotsAre
<1>7. /\ x \in Spots /\ l.from \in Spots /\ l.to \in Spots /\ l.left \in Spots /\ l.right \in Spots
      /\ ~ (pos[l.from.rank] > j) /\ ~ (pos[l.to.rank] > j) /\ x # l.from /\ x # l.to
  BY <1>1, <1>5, <1>6
<1>8. CASE l.then = "scan"
  <2>1. InOrder(l.left, l.from) /\ InOrder(l.from, l.right) /\ l.to = l.right
    BY <1>4, <1>8 DEF Purpose
  <2>2. ~ Precedes(l.from, l.right)
    BY <1>2, <1>5, <1>7, <1>8, <2>1 DEF Ahead
  <2>3. QED
    BY <2>1, <2>2 DEF InOrder
<1>9. CASE l.then \in {"next", "sort"}
  <2>1. PICK a, b : (IF l.then = "next" THEN a = l.to /\ b = l.from ELSE a = l.from /\ b = l.to)
    OBVIOUS
  <2>2. Moving(l) /\ Ordered(l)
    BY <1>4, <1>9 DEF Moving, LocalInv
  <2>3. /\ InOrder(l.left, a) /\ InOrder(a, b) /\ InOrder(b, l.right)
        /\ a \in Slots /\ b \in Slots /\ a \in Spots /\ b \in Spots
        /\ ~ (pos[a.rank] > j) /\ ~ (pos[b.rank] > j) /\ x # a /\ x # b
    <3>1. CASE l.then = "next"
      BY <1>4, <1>5, <1>7, <2>1, <2>2, <3>1 DEF Ordered, Purpose
    <3>2. CASE l.then = "sort"
      <4>1. InOrder(l.left, l.ret) /\ InOrder(l.ret, l.right) /\ l.from = l.ret /\ l.to = l.right
        BY <1>4, <2>2, <3>2 DEF Ordered, Purpose
      <4>2. a = l.ret /\ b = l.right /\ InOrder(l.right, l.right)
        BY <2>1, <3>2, <4>1 DEF InOrder
      <4>3. QED
        BY <1>5, <1>7, <4>1, <4>2
    <3>3. QED
      BY <1>9, <3>1, <3>2
  <2>4. ~ (Precedes(a, x) /\ Precedes(x, b))
    BY <1>2, <2>2, <2>3 DEF Ahead, OneSide
  <2>5. Precedes(a, x) <=> Precedes(b, x)
    BY <1>7, <2>3, <2>4, LinearOrder
  <2>6. QED
    BY <1>9, <2>1, <2>5
<1>10. QED
  BY <1>4, <1>8, <1>9 DEF Thens

\* An exchange has taken place for a rank when its element is in the other slot,
\* or on the way to it.
Ended(r, pos) ==
  IF Awaits(r) /\ pos[at[r].to.rank] > pos[r] THEN pos[r] + 1 ELSE pos[r]

LEMMA EndedType ==
  ASSUME SortInv, NEW h, NEW pos, NEW told, Tracks(h, pos, told), NEW r \in Ranks
  PROVE  Ended(r, pos) \in Nat /\ pos[r] <= Ended(r, pos) /\ Ended(r, pos) <= pos[r] + 1
         /\ (h[pos[r]].l.pc = "done" => Ended(r, pos) = pos[r])
<1>1. pos[r] \in Nat
  BY DEF Tracks
<1>2. ASSUME Awaits(r) PROVE h[pos[r]].l.pc # "done"
  BY <1>2, AtExchange DEF Meets
<1>3. QED
  BY <1>1, <1>2 DEF Ended

\* An exchange has taken place for both ranks, or for neither.
LEMMA BothEnded ==
  ASSUME SortInv, NEW h, NEW pos, NEW told, Tracks(h, pos, told), NEW j \in Nat,
         h[j].l.pc = "swap", NEW s, s = h[j].l.from.rank, NEW d, d = h[j].l.to.rank
  PROVE  /\ s \in Ranks /\ d \in Ranks
         /\ Ended(s, pos) <= j <=> pos[s] <= j /\ pos[d] <= j
         /\ Ended(d, pos) <= j <=> pos[s] <= j /\ pos[d] <= j
<1>1. h[j].l.from \in Slots /\ h[j].l.to \in Slots /\ Lengths /\ Met(h, pos)
  <2>1. Lengths /\ Story(h)
    BY DEF Tracks, SortInv
  <2>2. Moment(h[j])
    BY <2>1, StoryType
  <2>3. QED
    BY <2>1, <2>2 DEF Moment, LocalInv, Within, Tracks
<1>2. s \in Ranks /\ d \in Ranks
  BY <1>1, SlotsAre
<1>3. /\ pos[s] \in Nat /\ Ended(s, pos) \in Nat /\ pos[s] <= Ended(s, pos)
      /\ Ended(s, pos) <= pos[s] + 1
  BY <1>2, EndedType DEF Tracks
<1>4. /\ pos[d] \in Nat /\ Ended(d, pos) \in Nat /\ pos[d] <= Ended(d, pos)
      /\ Ended(d, pos) <= pos[d] + 1
  BY <1>2, EndedType DEF Tracks
<1>5. ASSUME NEW q \in Ranks, q \in {s, d}, pos[q] <= j, ~ (Ended(q, pos) <= j)
      PROVE  s # d /\ q = s /\ pos[d] > j
  <2>1. pos[q] \in Nat /\ Ended(q, pos) \in Nat /\ Ended(q, pos) <= pos[q] + 1
    BY <1>3, <1>4, <1>5
  <2>2. pos[q] = j /\ Ended(q, pos) # pos[q]
    BY <1>5, <2>1
  <2>3. Awaits(q) /\ pos[at[q].to.rank] > pos[q]
    BY <2>2 DEF Ended
  <2>4. Meets(h[pos[q]].l, q, at[q].to.rank)
    BY <2>3, AtExchange
  <2>5. q = s /\ at[q].to.rank = d /\ s # d
    BY <2>2, <2>4 DEF Meets
  <2>6. QED
    BY <2>2, <2>3, <2>5
<1>6. CASE s = d
  <2>1. pos[s] <= j => Ended(s, pos) <= j
    BY <1>2, <1>5, <1>6
  <2>2. QED
    BY <1>2, <1>3, <1>6, <2>1
<1>7. CASE s # d
  <2>1. Meets(h[j].l, s, d)
    BY <1>7 DEF Meets
  <2>2. /\ pos[s] > j => pos[d] > j
        /\ pos[d] > j => pos[s] > j \/ (pos[s] = j /\ Awaits(s))
    BY <1>1, <1>2, <2>1 DEF Met
  <2>3. ASSUME pos[d] > j, pos[s] = j, Awaits(s) PROVE Ended(s, pos) > j
    <3>1. Meets(h[pos[s]].l, s, at[s].to.rank)
      BY <1>2, <2>3, AtExchange
    <3>2. at[s].to.rank = d
      BY <2>3, <3>1 DEF Meets
    <3>3. QED
      BY <1>3, <2>3, <3>2 DEF Ended
  <2>4. pos[s] <= j /\ pos[d] <= j => Ended(s, pos) <= j /\ Ended(d, pos) <= j
    <3>1. SUFFICES ASSUME pos[s] <= j, pos[d] <= j PROVE Ended(s, pos) <= j /\ Ended(d, pos) <= j
      OBVIOUS
    <3>2. ~ (pos[d] > j)
      BY <1>4, <3>1
    <3>3. QED
      BY <1>2, <1>5, <3>1, <3>2
  <2>5. pos[d] > j => Ended(s, pos) > j
    BY <1>3, <2>2, <2>3
  <2>6. QED
    BY <1>2, <1>3, <1>4, <2>2, <2>4, <2>5
<1>8. QED
  BY <1>6, <1>7

\* What is in the slots when every rank has come to moment j: the ranks that are
\* behind have gone on to it, the others are where they are.
Later(a, b) == IF a <= b THEN b ELSE a
World(h, pos, j) == [p \in Slots |-> h[Later(Ended(p.rank, pos), j)].v[p]]

\* The element in slot x is where it belongs.
AtHome(w, x) ==
  \A q \in Slots : /\ Precedes(x, q) => AtMost(w[x], w[q])
                   /\ Precedes(q, x) => AtMost(w[q], w[x])

LEMMA WorldStep ==
  ASSUME SortInv, NEW h, NEW pos, NEW told, Tracks(h, pos, told), NEW j \in Nat,
         NEW l, l = h[j].l
  PROVE  \/ /\ l.pc = "swap" /\ l.from \in Slots /\ l.to \in Slots
            /\ pos[l.from.rank] <= j /\ pos[l.to.rank] <= j
            /\ \A p \in Slots : World(h, pos, j)[p] =
                 World(h, pos, j + 1)[IF p = l.from THEN l.to ELSE IF p = l.to THEN l.from ELSE p]
         \/ \A p \in Slots : World(h, pos, j)[p] = World(h, pos, j + 1)[p]
<1>1. PICK v, w : v = h[j].v /\ w = h[j + 1].v
  OBVIOUS
<1>2. Story(h) /\ Lengths /\ Moment(h[j]) /\ h[j + 1] = NextMoment(h[j])
  BY StoryType DEF Tracks, SortInv
<1>3. w = Swapped(l, v) /\ LocalInv(l) /\ v \in [Slots -> Values]
  BY <1>1, <1>2 DEF NextMoment, Moment
<1>4. \A p \in Slots : p.rank \in Ranks
  BY <1>2, SlotsAre
<1>5. \A p \in Slots : Ended(p.rank, pos) \in Nat
  BY <1>4, EndedType
<1>6. ASSUME NEW p \in Slots, ~ (Ended(p.rank, pos) <= j)
      PROVE  World(h, pos, j)[p] = World(h, pos, j + 1)[p]
  <2>1. PICK e : e = Ended(p.rank, pos)
    OBVIOUS
  <2>2. e \in Nat /\ ~ (e <= j)
    BY <1>5, <1>6, <2>1
  <2>3. Later(e, j) = e /\ Later(e, j + 1) = e
    BY <2>2 DEF Later
  <2>4. QED
    BY <2>1, <2>3 DEF World
<1>7. ASSUME NEW p \in Slots, Ended(p.rank, pos) <= j
      PROVE  World(h, pos, j)[p] = v[p] /\ World(h, pos, j + 1)[p] = w[p]
  <2>1. PICK e : e = Ended(p.rank, pos)
    OBVIOUS
  <2>2. e \in Nat /\ e <= j
    BY <1>5, <1>7, <2>1
  <2>3. Later(e, j) = j /\ Later(e, j + 1) = j + 1
    BY <2>2 DEF Later
  <2>4. QED
    BY <1>1, <2>1, <2>3 DEF World
<1>8. CASE l.pc # "swap"
  <2>1. w = v
    BY <1>3, <1>8 DEF Swapped
  <2>2. QED
    BY <1>6, <1>7, <2>1
<1>9. CASE l.pc = "swap"
  <2>1. /\ l.from \in Slots /\ l.to \in Slots
        /\ \A p \in Slots : w[p] =
             IF p = l.from THEN v[l.to] ELSE IF p = l.to THEN v[l.from] ELSE v[p]
    BY <1>2, <1>3, <1>9, SwappedAt
  <2>2. PICK s, d : s = l.from.rank /\ d = l.to.rank
    OBVIOUS
  <2>3. h[j].l.pc = "swap" /\ s = h[j].l.from.rank /\ d = h[j].l.to.rank
    BY <1>9, <2>2
  <2>4. /\ Ended(s, pos) <= j <=> pos[s] <= j /\ pos[d] <= j
        /\ Ended(d, pos) <= j <=> pos[s] <= j /\ pos[d] <= j
    BY <2>3, BothEnded
  <2>5. CASE pos[s] <= j /\ pos[d] <= j
    <3>1. Ended(l.from.rank, pos) <= j /\ Ended(l.to.rank, pos) <= j
      BY <2>2, <2>4, <2>5
    <3>2. ASSUME NEW p \in Slots
          PROVE  World(h, pos, j)[p] =
                   World(h, pos, j + 1)[IF p = l.from THEN l.to ELSE IF p = l.to THEN l.from ELSE p]
      <4>1. CASE p = l.from
        <5>1. World(h, pos, j)[p] = v[l.from] /\ World(h, pos, j + 1)[l.to] = w[l.to]
          BY <1>7, <2>1, <3>1, <4>1
        <5>2. w[l.to] = v[l.from]
          BY <2>1
        <5>3. QED
          BY <4>1, <5>1, <5>2
      <4>2. CASE p = l.to /\ p # l.from
        <5>1. World(h, pos, j)[p] = v[l.to] /\ World(h, pos, j + 1)[l.from] = w[l.from]
          BY <1>7, <2>1, <3>1, <4>2
        <5>2. w[l.from] = v[l.to]
          BY <2>1
        <5>3. QED
          BY <4>2, <5>1, <5>2
      <4>3. CASE p # l.to /\ p # l.from
        <5>1. w[p] = v[p]
          BY <2>1, <4>3
        <5>2. World(h, pos, j)[p] = World(h, pos, j + 1)[p]
          BY <1>6, <1>7, <5>1
        <5>3. QED
          BY <4>3, <5>2
      <4>4. QED
        BY <4>1, <4>2, <4>3
    <3>3. QED
      BY <1>9, <2>1, <2>2, <2>5, <3>2
  <2>6. CASE ~ (pos[s] <= j /\ pos[d] <= j)
    <3>1. ASSUME NEW p \in Slots, Ended(p.rank, pos) <= j PROVE w[p] = v[p]
      <4>1. p # l.from /\ p # l.to
        BY <2>2, <2>4, <2>6, <3>1
      <4>2. QED
        BY <2>1, <4>1
    <3>2. QED
      BY <1>6, <1>7, <3>1
  <2>7. QED
    BY <2>5, <2>6
<1>10. QED
  BY <1>8, <1>9

LEMMA HomeStep ==
  ASSUME SortInv, NEW h, NEW pos, NEW told, Tracks(h, pos, told), SeqInv(h[0]),
         NEW r \in Ranks, h[pos[r]].l.pc = "done", NEW j \in Nat, j < pos[r],
         NEW x \in Slots, x.rank = r, AtHome(World(h, pos, j + 1), x)
  PROVE  AtHome(World(h, pos, j), x)
<1>1. PICK l, a, b : l = h[j].l /\ a = World(h, pos, j) /\ b = World(h, pos, j + 1)
  OBVIOUS
<1>2. pos \in [Ranks -> Nat] /\ Lengths
  BY DEF Tracks, SortInv
<1>3. CASE \A p \in Slots : a[p] = b[p]
  BY <1>1, <1>3 DEF AtHome
<1>4. CASE /\ l.pc = "swap" /\ l.from \in Slots /\ l.to \in Slots
           /\ pos[l.from.rank] <= j /\ pos[l.to.rank] <= j
           /\ \A p \in Slots : a[p] =
                b[IF p = l.from THEN l.to ELSE IF p = l.to THEN l.from ELSE p]
  <2>1. Precedes(l.from, x) <=> Precedes(l.to, x)
    BY <1>1, <1>4, NotAcross
  <2>2. x # l.from /\ x # l.to
    BY <1>2, <1>4
  <2>3. l.from \in Spots /\ l.to \in Spots /\ x \in Spots
    BY <1>2, <1>4, SlotsAre
  <2>4. Precedes(x, l.from) <=> Precedes(x, l.to)
    BY <2>1, <2>2, <2>3, LinearOrder
  <2>5. a[x] = b[x]
    BY <1>4, <2>2
  <2>6. AtHome(b, x)
    BY <1>1
  <2>7. ASSUME NEW q \in Slots
        PROVE  /\ Precedes(x, q) => AtMost(a[x], a[q])
               /\ Precedes(q, x) => AtMost(a[q], a[x])
    <3>1. PICK f \in Slots : f = IF q = l.from THEN l.to ELSE IF q = l.to THEN l.from ELSE q
      BY <1>4
    <3>2. a[q] = b[f] /\ (Precedes(x, q) <=> Precedes(x, f)) /\ (Precedes(q, x) <=> Precedes(f, x))
      BY <1>4, <2>1, <2>4, <3>1
    <3>3. QED
      BY <2>5, <2>6, <3>2 DEF AtHome
  <2>8. QED
    BY <1>1, <2>7 DEF AtHome
<1>5. QED
  BY <1>1, <1>3, <1>4, WorldStep

\* At the end all is sorted, and what is left to do leaves r's block alone.
LEMMA HomeAtEnd ==
  ASSUME SortInv, NEW h, NEW pos, NEW told, Tracks(h, pos, told), SeqInv(h[0]),
         NEW r \in Ranks, h[pos[r]].l.pc = "done", NEW x \in Slots, x.rank = r
  PROVE  AtHome(World(h, pos, 0), x)
<1>1. PICK n, l, v, w : n = pos[r] /\ l = h[n].l /\ v = h[n].v /\ w = World(h, pos, n)
  OBVIOUS
<1>2. n \in Nat /\ Story(h) /\ Lengths
  BY <1>1 DEF Tracks, SortInv
<1>3. SeqInv(h[n]) /\ l.pc = "done"
  BY <1>1, <1>2, SeqHolds
<1>4. l.todo = <<>> /\ Covers(Open(l), v)
  BY <1>1, <1>3 DEF SeqInv
<1>5. Open(l) = {}
  <2>1. Len(l.todo) = 0
    BY <1>4
  <2>2. 1..Len(l.todo) = {}
    BY <2>1
  <2>3. QED
    BY <1>3, <2>2 DEF Open
<1>6. ASSUME NEW q \in Slots PROVE w[q] = v[q]
  <2>1. PICK e : e = Ended(q.rank, pos)
    OBVIOUS
  <2>2. e \in Nat
    BY <1>2, <2>1, SlotsAre, EndedType
  <2>3. Later(e, n) \in Nat /\ n <= Later(e, n)
    BY <1>2, <2>2 DEF Later
  <2>4. h[Later(e, n)].v = v
    BY <1>1, <1>2, <1>3, <2>3, DoneStays
  <2>5. QED
    BY <1>1, <2>1, <2>4 DEF World
<1>7. AtHome(w, x)
  BY <1>4, <1>5, <1>6 DEF AtHome, Covers
<1> DEFINE T == {k \in Nat : k <= n => AtHome(World(h, pos, n - k), x)}
<1>8. 0 \in T
  <2>1. n - 0 = n
    BY <1>2
  <2>2. QED
    BY <1>1, <1>7, <2>1
<1>9. ASSUME NEW k \in Nat, k \in T PROVE k + 1 \in T
  <2>1. SUFFICES ASSUME k + 1 <= n PROVE AtHome(World(h, pos, n - (k + 1)), x)
    OBVIOUS
  <2>2. PICK j : j = n - (k + 1)
    OBVIOUS
  <2>3. j \in Nat /\ j + 1 = n - k /\ j < n /\ k <= n
    BY <1>2, <2>1, <2>2
  <2>4. AtHome(World(h, pos, j + 1), x)
    BY <1>9, <2>3
  <2>5. j < pos[r]
    BY <1>1, <2>3
  <2>6. AtHome(World(h, pos, j), x)
    BY <2>3, <2>4, <2>5, HomeStep
  <2>7. QED
    BY <2>2, <2>6
<1>10. \A k \in Nat : k \in T
  <2> HIDE DEF T
  <2>1. QED
    BY <1>8, <1>9, SetInductionNat
<1>11. n <= n /\ n - n = 0
  BY <1>2
<1>12. QED
  BY <1>2, <1>10, <1>11

LEMMA PresentAt ==
  ASSUME SortInv, NEW h, NEW pos, NEW told, Tracks(h, pos, told), NEW p \in Slots
  PROVE  Present(p) = h[Ended(p.rank, pos)].v[p]
<1>1. PICK r, l, v : r = p.rank /\ l = h[pos[r]].l /\ v = h[pos[r]].v
  OBVIOUS
<1>2. /\ Lengths /\ r \in Ranks /\ pos[r] \in Nat /\ Moment(h[pos[r]])
      /\ h[pos[r] + 1] = NextMoment(h[pos[r]])
  <2>1. Lengths
    BY DEF SortInv
  <2>2. r \in Ranks
    BY <1>1, <2>1, SlotsAre
  <2>3. QED
    BY <2>1, <2>2, Here
<1>3. array[p] = v[p]
  BY <1>1 DEF Tracks, Placed
<1>4. CASE ~ Awaits(r)
  <2>1. Present(p) = array[p] /\ Ended(r, pos) = pos[r]
    BY <1>1, <1>4 DEF Present, Awaits, Ended
  <2>2. QED
    BY <1>1, <1>3, <2>1
<1>5. CASE Awaits(r)
  <2>1. PICK s : s = at[r].to.rank
    OBVIOUS
  <2>2. /\ Meets(l, r, s) /\ s \in Ranks /\ at[r].from = l.from /\ at[r].to = l.to
    <3>1. r \in Ranks /\ Awaits(r)
      BY <1>2, <1>5
    <3>2. Meets(h[pos[r]].l, r, at[r].to.rank) /\ at[r].to.rank \in Ranks
      BY <3>1, AtExchange
    <3>3. at[r].from = h[pos[r]].l.from /\ at[r].to = h[pos[r]].l.to
      BY <3>1, AtSlots
    <3>4. QED
      BY <1>1, <2>1, <3>2, <3>3
  <2>3. CASE pos[s] > pos[r]
    <3>1. PICK x, g : x = Element(h[pos[r]].v[at[r].to], at[r]) /\ g = Gives(s, r, h, pos)
      OBVIOUS
    <3>2. channel[s][r] = <<x>> \o g
      <4>1. channel[s][r] = Answers(s, r, h, pos) \o g
        BY <1>2, <2>2, <3>1 DEF Tracks, Carried
      <4>2. Answers(s, r, h, pos) = <<x>>
        BY <1>5, <2>1, <2>3, <3>1 DEF Answers
      <4>3. QED
        BY <4>1, <4>2
    <3>3. g = <<>> \/ \E y : g = <<y>>
      BY <3>1 DEF Gives
    <3>4. <<x>> \o g # <<>> /\ Head(<<x>> \o g) = x
      <4>1. CASE g = <<>>
        <5>1. <<x>> \o <<>> = <<x>> /\ Head(<<x>>) = x /\ <<x>> # <<>>
          OBVIOUS
        <5>2. QED
          BY <4>1, <5>1
      <4>2. CASE \E y : g = <<y>>
        <5>1. PICK y : g = <<y>>
          BY <4>2
        <5>2. Head(<<x>> \o <<y>>) = x /\ <<x>> \o <<y>> # <<>>
          OBVIOUS
        <5>3. QED
          BY <5>1, <5>2
      <4>3. QED
        BY <3>3, <4>1, <4>2
    <3>5. x.value = v[l.to]
      BY <1>1, <2>2, <3>1 DEF Element
    <3>6. Present(p) = IF l.from = p THEN v[l.to] ELSE array[p]
      BY <1>1, <1>5, <2>1, <2>2, <3>2, <3>4, <3>5 DEF Present, Awaits
    <3>7. Ended(r, pos) = pos[r] + 1 /\ h[pos[r] + 1].v = Swapped(l, v)
      BY <1>1, <1>2, <1>5, <2>1, <2>3 DEF Ended, NextMoment
    <3>8. Swapped(l, v)[p] = IF p = l.from THEN v[l.to] ELSE IF p = l.to THEN v[l.from] ELSE v[p]
      <4>1. LocalInv(l) /\ l.pc = "swap" /\ v \in [Slots -> Values]
        BY <1>1, <1>2, <2>2 DEF Moment, Meets
      <4>2. QED
        BY <1>2, <4>1, SwappedAt
    <3>9. p # l.to
      BY <1>1, <2>2 DEF Meets
    <3>10. QED
      BY <1>1, <1>3, <3>6, <3>7, <3>8, <3>9
  <2>4. CASE ~ (pos[s] > pos[r])
    <3>1. channel[s][r] = <<>>
      BY <1>2, <1>5, <2>1, <2>2, <2>4, Answered
    <3>2. Present(p) = array[p] /\ Ended(r, pos) = pos[r]
      BY <1>1, <2>1, <2>4, <3>1 DEF Present, Ended
    <3>3. QED
      BY <1>1, <1>3, <3>2
  <2>5. QED
    BY <2>3, <2>4
<1>6. QED
  BY <1>4, <1>5

\* An exchange makes no value up.
LEMMA KeptHolds ==
  ASSUME Lengths, NEW h, Story(h), Kept(h[0].v)
  PROVE  \A j \in Nat : Kept(h[j].v)
<1> DEFINE T == {j \in Nat : Kept(h[j].v)}
<1>1. 0 \in T
  OBVIOUS
<1>2. ASSUME NEW j \in Nat, j \in T PROVE j + 1 \in T
  <2>1. PICK l, v, w : l = h[j].l /\ v = h[j].v /\ w = h[j + 1].v
    OBVIOUS
  <2>2. Moment(h[j]) /\ h[j + 1] = NextMoment(h[j]) /\ Kept(v)
    BY <1>2, <2>1, StoryType
  <2>3. w = Swapped(l, v) /\ LocalInv(l) /\ v \in [Slots -> Values]
    BY <2>1, <2>2 DEF NextMoment, Moment
  <2>4. CASE l.pc = "swap"
    <3>1. /\ l.from \in Slots /\ l.to \in Slots
          /\ \A p \in Slots : w[p] =
               IF p = l.from THEN v[l.to] ELSE IF p = l.to THEN v[l.from] ELSE v[p]
      BY <2>3, <2>4, SwappedAt
    <3>2. Kept(w)
      BY <2>2, <3>1 DEF Kept
    <3>3. QED
      BY <2>1, <3>2
  <2>5. CASE l.pc # "swap"
    BY <2>1, <2>2, <2>3, <2>5 DEF Swapped
  <2>6. QED
    BY <2>4, <2>5
<1>3. \A j \in Nat : j \in T
  <2> HIDE DEF T
  <2>1. QED
    BY <1>1, <1>2, SetInductionNat
<1>4. QED
  BY <1>3

\* What the comparison of the code means in the terms of the manual.
LEMMA AtMostDocumented ==
  ASSUME NEW a \in Values, NEW b \in Values, AtMost(a, b),
         input.decreasing \in BOOLEAN, input.decreasing => a \in Int /\ b \in Int
  PROVE  ~ Documented!Before(b, a)
<1>1. NA \notin Int /\ (a = NA \/ a \in Int) /\ (b = NA \/ b \in Int)
  BY NAAssumption DEF Values
<1>2. CASE input.decreasing
  <2>1. a \in Int /\ b \in Int /\ a # NA /\ b # NA
    BY <1>1, <1>2
  <2>2. Compare(a, b) = -Increasing(a, b)
    BY <1>2 DEF Compare
  <2>3. a < b => Compare(a, b) = 1
    <3>1. SUFFICES ASSUME a < b PROVE Compare(a, b) = 1
      OBVIOUS
    <3>2. Increasing(a, b) = -1
      BY <2>1, <3>1 DEF Increasing
    <3>3. PICK n \in Int : n = Increasing(a, b) /\ n + 1 = 0
      BY <3>2
    <3>4. -n = 1
      BY <3>3
    <3>5. QED
      BY <2>2, <3>3, <3>4
  <2>4. ~ (b > a)
    BY <2>1, <2>3 DEF AtMost
  <2>5. QED
    BY <1>2, <2>1, <2>4 DEF Documented!Before
<1>3. CASE ~ input.decreasing
  <2>1. Compare(a, b) = Increasing(a, b)
    BY <1>3 DEF Compare
  <2>2. Increasing(a, b) # 1
    BY <2>1 DEF AtMost
  <2>3. /\ ~ (a # NA /\ b = NA /\ ~ nalast) /\ ~ (a = NA /\ b # NA /\ nalast)
        /\ ~ (a # NA /\ b # NA /\ b < a)
    BY <1>1, <2>2 DEF Increasing
  <2>4. QED
    BY <1>3, <2>3 DEF nalast, Documented!Before
<1>4. QED
  BY <1>2, <1>3

\* The blocks of the ranks that have returned are in place.
InPlaceNow ==
  \A r \in Ranks : at[r].pc = "done" =>
    \A p \in Slots : p.rank = r => Documented!InPlace(p)

LEMMA PresentHome ==
  ASSUME SortInv, NEW h, NEW pos, NEW told, Tracks(h, pos, told), SeqInv(h[0]), Kept(h[0].v),
         NEW r \in Ranks, at[r].pc = "done", NEW p \in Slots, p.rank = r, NEW q \in Slots
  PROVE  /\ Present(p) \in Values /\ Present(q) \in Values
         /\ Comparable /\ input.decreasing => Present(p) \in Int /\ Present(q) \in Int
         /\ Precedes(p, q) => AtMost(Present(p), Present(q))
         /\ Precedes(q, p) => AtMost(Present(q), Present(p))
<1>1. pos \in [Ranks -> Nat] /\ Story(h) /\ Lengths
  BY DEF Tracks, SortInv
<1>2. ~ Awaits(r)
  BY DEF Awaits
<1>3. h[pos[r]].l.pc = "done"
  BY <1>2, AtMoment
<1>4. ASSUME NEW x \in Slots
      PROVE  /\ Present(x) = World(h, pos, 0)[x] /\ Present(x) \in Values
             /\ (Comparable /\ input.decreasing => Present(x) \in Int)
  <2>1. PICK e : e = Ended(x.rank, pos)
    OBVIOUS
  <2>2. e \in Nat
    BY <1>1, <2>1, SlotsAre, EndedType
  <2>3. Present(x) = h[e].v[x]
    BY <2>1, PresentAt
  <2>4. Later(e, 0) = e
    BY <2>2 DEF Later
  <2>5. Moment(h[e]) /\ Kept(h[e].v)
    BY <1>1, <2>2, StoryType, KeptHolds
  <2>6. QED
    BY <2>1, <2>3, <2>4, <2>5 DEF World, Moment, Kept
<1>5. AtHome(World(h, pos, 0), p)
  BY <1>3, HomeAtEnd
<1>6. QED
  BY <1>4, <1>5 DEF AtHome

LEMMA HomeIsInPlace ==
  ASSUME StoryInv, Comparable, input \in Inputs
  PROVE  InPlaceNow
<1>1. SUFFICES ASSUME NEW r \in Ranks, at[r].pc = "done", NEW p \in Slots, p.rank = r
               PROVE  Documented!InPlace(p)
  BY DEF InPlaceNow
<1>2. SortInv /\ ~ Idle
  BY <1>1 DEF StoryInv, Idle
<1>3. PICK h, pos, told : Tracks(h, pos, told) /\ SeqInv(h[0]) /\ Kept(h[0].v)
  BY <1>2 DEF StoryInv, Underway
<1>4. input.decreasing \in BOOLEAN
  BY InputsAssumption
<1>5. PICK values : values = [x \in Slots |-> Present(x)]
  OBVIOUS
<1>6. ASSUME NEW q \in Slots
      PROVE  /\ Precedes(p, q) => ~ Documented!Before(values[q], values[p])
             /\ Precedes(q, p) => ~ Documented!Before(values[p], values[q])
  <2>1. /\ Present(p) \in Values /\ Present(q) \in Values
        /\ Comparable /\ input.decreasing => Present(p) \in Int /\ Present(q) \in Int
        /\ Precedes(p, q) => AtMost(Present(p), Present(q))
        /\ Precedes(q, p) => AtMost(Present(q), Present(p))
    BY <1>1, <1>2, <1>3, PresentHome
  <2>2. values[p] = Present(p) /\ values[q] = Present(q)
    BY <1>5
  <2>3. Precedes(p, q) => ~ Documented!Before(Present(q), Present(p))
    BY <1>4, <2>1, AtMostDocumented
  <2>4. Precedes(q, p) => ~ Documented!Before(Present(p), Present(q))
    BY <1>4, <2>1, AtMostDocumented
  <2>5. QED
    BY <2>2, <2>3, <2>4
<1>7. Documented!Slots = Slots
  BY DEF Documented!Slots
<1>8. \A q : Documented!Precedes(p, q) <=> Precedes(p, q)
  BY DEF Documented!Precedes, Precedes
<1>9. \A q : Documented!Precedes(q, p) <=> Precedes(q, p)
  BY DEF Documented!Precedes, Precedes
<1>10. QED
  BY <1>5, <1>6, <1>7, <1>8, <1>9 DEF Documented!InPlace

------------------------------------------------------------------------------
(* The steps in the terms of the manual.                                   *)

\* No step but an exchange changes what is in the slots.
Unmoved == \A p \in Slots : Present(p)' = Present(p)

\* The elements of two slots have been exchanged.
Moved(from, to) ==
  /\ from \in Slots /\ to \in Slots
  /\ at[from.rank].pc # "done" /\ at[to.rank].pc # "done"
  /\ Present(from)' = Present(to) /\ Present(to)' = Present(from)
  /\ \A p \in Slots : p # from /\ p # to => Present(p)' = Present(p)

Rearranged == Unmoved \/ \E from, to \in Slots : Moved(from, to)

\* A rank that waits for nothing sees what it has itself.
LEMMA AlonePresent ==
  ASSUME SortInv, n_all' = n_all, channel' = channel, NEW CONSTANT r \in Ranks, NEW x,
         at[r].pc # "await", at' = Set(at, r, x), x.pc # "await", NEW CONSTANT p \in Slots
  PROVE  /\ p.rank = r => Present(p) = array[p] /\ Present(p)' = array'[p]
         /\ p.rank # r /\ array'[p] = array[p] => Present(p)' = Present(p)
<1>1. at'[r].pc # "await" /\ \A q \in Ranks : q # r => at'[q] = at[q]
  BY DEF Set, SortInv
<1>2. p.rank \in Ranks
  BY SlotsAre DEF SortInv
<1>3. CASE p.rank = r
  BY <1>1, <1>3 DEF Present
<1>4. CASE p.rank # r
  BY <1>1, <1>2, <1>4 DEF Present
<1>5. QED
  BY <1>3, <1>4

LEMMA BroadcastPresent ==
  ASSUME SortInv, NEW CONSTANT r \in Ranks,
         TellPivot(r) \/ HearPivot(r) \/ TellCheck(r) \/ HearCheck(r)
  PROVE  Unmoved
<1>1. /\ UNCHANGED <<input, n_all, array, channel>> /\ Lengths /\ at[r] \in Locals
      /\ LocalInv(at[r]) /\ at[r].pc \in {"sort", "scan"}
  BY DEF SortInv, TellPivot, HearPivot, TellCheck, HearCheck
<1>2. \E value \in Values : at' = Set(at, r, Joined(at[r], value))
  <2>1. CASE TellPivot(r)
    <3>1. NextPivot(r) \in Slots
      BY <1>1, <2>1, PartitionStep, NAAssumption DEF NextPivot, Values, TellPivot
    <3>2. array[NextPivot(r)] \in Values
      BY <3>1 DEF SortInv
    <3>3. QED
      BY <2>1, <3>2 DEF TellPivot, Joined
  <2>2. CASE TellCheck(r)
    <3>1. at[r].i \in Slots /\ at[r].pivot \in Values
      BY <1>1, <2>2 DEF TellCheck, LocalInv, Moving, Ordered, Locals
    <3>2. array[at[r].i] \in Values
      BY <3>1 DEF SortInv
    <3>3. Compare(array[at[r].i], at[r].pivot) \in Values
      BY <3>1, <3>2, CompareType
    <3>4. QED
      BY <2>2, <3>3 DEF TellCheck, Joined
  <2>3. CASE HearPivot(r) \/ HearCheck(r)
    <3>1. bcast[r] \in Seq(Broadcasts) /\ bcast[r] # <<>>
      BY <2>3 DEF SortInv, HearPivot, HearCheck, Hears
    <3>2. Head(bcast[r]) \in Broadcasts
      BY <3>1
    <3>3. Head(bcast[r]).value \in Values
      BY <3>2 DEF Broadcasts
    <3>4. QED
      BY <2>3, <3>3 DEF HearPivot, HearCheck, Joined
  <2>4. QED
    BY <2>1, <2>2, <2>3
<1>3. PICK x : at' = Set(at, r, x) /\ x.pc # "await"
  <2>1. PICK value \in Values : at' = Set(at, r, Joined(at[r], value))
    BY <1>2
  <2>2. Joined(at[r], value).pc \in {"scan", "swap"}
    BY <1>1, JoinedTurns
  <2>3. QED
    BY <2>1, <2>2
<1>4. at[r].pc # "await" /\ n_all' = n_all /\ channel' = channel /\ array' = array
  BY <1>1
<1>5. ASSUME NEW CONSTANT p \in Slots PROVE Present(p)' = Present(p)
  BY <1>3, <1>4, AlonePresent
<1>6. QED
  BY <1>5 DEF Unmoved

LEMMA HomePresent ==
  ASSUME SortInv, NEW CONSTANT r \in Ranks, SwapAtHome(r)
  PROVE  Rearranged
<1>1. PICK l, x : l = at[r] /\ x = Continue(l)
  OBVIOUS
<1>2. /\ UNCHANGED <<input, n_all, channel>> /\ Lengths /\ l.pc = "swap" /\ at' = Set(at, r, x)
      /\ LocalInv(l) /\ l.from \in Slots /\ l.to \in Slots
      /\ l.from.rank = l.to.rank \/ r \notin {l.from.rank, l.to.rank}
      /\ array' = IF r = l.from.rank
                  THEN [array EXCEPT ![l.from] = array[l.to], ![l.to] = array[l.from]] ELSE array
  BY <1>1, ExchangedSlots DEF SwapAtHome, SortInv
<1>3. x.pc # "await"
  BY <1>1, <1>2, ContinueTurns
<1>4. ASSUME NEW CONSTANT p \in Slots
      PROVE  /\ p.rank = r => Present(p) = array[p] /\ Present(p)' = array'[p]
             /\ p.rank # r /\ array'[p] = array[p] => Present(p)' = Present(p)
  <2>1. at[r].pc # "await" /\ n_all' = n_all /\ channel' = channel
    BY <1>1, <1>2
  <2>2. QED
    BY <1>2, <1>3, <2>1, AlonePresent
<1>5. CASE r # l.from.rank
  <2>1. ASSUME NEW CONSTANT p \in Slots PROVE Present(p)' = Present(p)
    BY <1>2, <1>4, <1>5
  <2>2. QED
    BY <2>1 DEF Unmoved, Rearranged
<1>6. CASE r = l.from.rank
  <2>1. l.to.rank = r
    BY <1>2, <1>6
  <2>2. \A p \in Slots : array'[p] =
          IF p = l.from THEN array[l.to] ELSE IF p = l.to THEN array[l.from] ELSE array[p]
    BY <1>2, <1>6 DEF SortInv
  <2>3. PICK from, to : from = l.from /\ to = l.to
    OBVIOUS
  <2>4. Present(from)' = Present(to) /\ Present(to)' = Present(from)
    <3>1. array'[from] = array[to] /\ array'[to] = array[from]
      BY <1>2, <2>2, <2>3
    <3>2. from \in Slots /\ to \in Slots /\ from.rank = r /\ to.rank = r
      BY <1>2, <1>6, <2>1, <2>3
    <3>3. Present(from) = array[from] /\ Present(from)' = array'[from]
      BY <1>4, <3>2
    <3>4. Present(to) = array[to] /\ Present(to)' = array'[to]
      BY <1>4, <3>2
    <3>5. QED
      BY <3>1, <3>3, <3>4
  <2>5. ASSUME NEW CONSTANT p \in Slots, p # from, p # to PROVE Present(p)' = Present(p)
    <3>1. array'[p] = array[p]
      BY <2>2, <2>3, <2>5
    <3>2. QED
      BY <1>4, <3>1
  <2>6. Moved(from, to)
    BY <1>1, <1>2, <1>6, <2>1, <2>3, <2>4, <2>5 DEF Moved
  <2>7. QED
    BY <1>2, <2>3, <2>6 DEF Rearranged
<1>7. QED
  BY <1>5, <1>6

\* What the story says of the slots.
PresentKnown ==
  \A h, pos, told : Tracks(h, pos, told) =>
    \A p \in Slots : Present(p) = h[Ended(p.rank, pos)].v[p]

LEMMA PresentIsKnown == ASSUME SortInv PROVE PresentKnown
BY PresentAt DEF PresentKnown

\* Nothing has been exchanged if nobody has come further.
LEMMA SameEnded ==
  ASSUME SortInv, n_all' = n_all, PresentKnown, PresentKnown',
         NEW CONSTANT h, NEW CONSTANT pos, NEW CONSTANT told, Tracks(h, pos, told),
         NEW CONSTANT next, NEW CONSTANT n, Tracks(h, next, n)',
         \A q \in Ranks : Ended(q, next)' = Ended(q, pos)
  PROVE  Unmoved
<1>1. Slots' = Slots /\ \A p \in Slots : p.rank \in Ranks
  BY SameSlots, SlotsAre DEF SortInv
<1>2. \A p \in Slots : Present(p)' = h[Ended(p.rank, next)'].v[p]
  BY <1>1 DEF PresentKnown
<1>3. \A p \in Slots : Present(p) = h[Ended(p.rank, pos)].v[p]
  BY DEF PresentKnown
<1>4. QED
  BY <1>1, <1>2, <1>3 DEF Unmoved

LEMMA GivePresent ==
  ASSUME SortInv, PresentKnown, PresentKnown', NEW CONSTANT r \in Ranks, Give(r),
         NEW CONSTANT h, NEW CONSTANT pos, NEW CONSTANT told, Tracks(h, pos, told)
  PROVE  Unmoved
<1>1. PICK l, d, x : l = at[r] /\ d = l.to.rank /\ x = [l EXCEPT !.pc = "await"]
  OBVIOUS
<1>2. /\ UNCHANGED <<input, n_all>> /\ l.pc = "swap" /\ l.from.rank = r /\ d # r /\ ~ Awaits(r)
      /\ at' = Set(at, r, x) /\ l \in Locals
  BY <1>1 DEF Give, Awaits, SortInv
<1>3. l = h[pos[r]].l /\ pos[r] \in Nat /\ d \in Ranks /\ pos[d] \in Nat
  BY <1>1, <1>2, AtMoment, ExchangedSlots DEF Tracks
<1>4. Tracks(h, pos, told)'
  BY GiveTracks
<1>5. at'[r] = x /\ x.to = l.to /\ \A q \in Ranks : q # r => at'[q] = at[q]
  BY <1>1, <1>2 DEF Set, SortInv, Locals
<1>6. ~ (pos[d] > pos[r])
  <2>1. Meets(h[pos[r]].l, r, d)
    BY <1>1, <1>2, <1>3 DEF Meets
  <2>2. pos[d] > pos[r] => pos[r] > pos[r] \/ Awaits(r)
    BY <1>3, <2>1 DEF Tracks, Met
  <2>3. QED
    BY <1>2, <1>3, <2>2
<1>7. Ended(r, pos) = pos[r] /\ Ended(r, pos)' = pos[r]
  BY <1>1, <1>2, <1>5, <1>6 DEF Ended
<1>8. \A q \in Ranks : q # r => Ended(q, pos)' = Ended(q, pos)
  BY <1>5 DEF Ended, Awaits
<1>9. \A q \in Ranks : Ended(q, pos)' = Ended(q, pos)
  BY <1>7, <1>8
<1>10. QED
  BY <1>2, <1>4, <1>9, SameEnded

\* Another rank than r, which goes on, is where it was; r is where it is.
LEMMA EndedOneOn ==
  ASSUME SortInv, NEW CONSTANT r \in Ranks, NEW CONSTANT h, NEW CONSTANT pos,
         NEW CONSTANT told, Tracks(h, pos, told), NEW x, at' = Set(at, r, x), x.pc # "await"
  PROVE  /\ Ended(r, OneOn(r, pos))' = pos[r] + 1
         /\ \A q \in Ranks : q # r =>
              Ended(q, OneOn(r, pos))' = IF Meets(h[pos[r]].l, q, r) /\ pos[q] = pos[r] /\ Awaits(q)
                                         THEN pos[r] + 1 ELSE Ended(q, pos)
<1>1. pos \in [Ranks -> Nat]
  BY DEF Tracks
<1>2. at'[r] = x /\ \A q \in Ranks : q # r => at'[q] = at[q]
  BY DEF Set, SortInv
<1>3. PICK next : next = OneOn(r, pos)
  OBVIOUS
<1>4. \A q \in Ranks : next[q] = IF q = r THEN pos[r] + 1 ELSE pos[q]
  BY <1>1, <1>3, OneOnType
<1>5. Ended(r, next)' = pos[r] + 1
  BY <1>2, <1>4 DEF Ended, Awaits
<1>6. ASSUME NEW q \in Ranks, q # r
      PROVE  Ended(q, next)' = IF Meets(h[pos[r]].l, q, r) /\ pos[q] = pos[r] /\ Awaits(q)
                               THEN pos[r] + 1 ELSE Ended(q, pos)
  <2>1. at'[q] = at[q] /\ next[q] = pos[q] /\ pos[q] \in Nat /\ pos[r] \in Nat
    BY <1>1, <1>2, <1>4, <1>6
  <2>2. CASE ~ Awaits(q)
    BY <2>1, <2>2 DEF Ended, Awaits
  <2>3. CASE Awaits(q)
    <3>1. PICK d : d = at[q].to.rank
      OBVIOUS
    <3>2. Meets(h[pos[q]].l, q, d) /\ d \in Ranks
      BY <2>3, <3>1, AtExchange
    <3>3. /\ Ended(q, next)' = IF next[d] > pos[q] THEN pos[q] + 1 ELSE pos[q]
          /\ Ended(q, pos) = IF pos[d] > pos[q] THEN pos[q] + 1 ELSE pos[q]
      BY <2>1, <2>3, <3>1 DEF Ended, Awaits
    <3>4. CASE d # r
      <4>1. next[d] = pos[d]
        BY <1>4, <3>2, <3>4
      <4>2. ~ (Meets(h[pos[r]].l, q, r) /\ pos[q] = pos[r])
        BY <3>2, <3>4 DEF Meets
      <4>3. QED
        BY <3>3, <4>1, <4>2
    <3>5. CASE d = r /\ pos[q] = pos[r]
      <4>1. Meets(h[pos[r]].l, q, r) /\ next[d] > pos[q]
        BY <1>4, <2>1, <3>2, <3>5
      <4>2. QED
        BY <2>3, <3>3, <3>5, <4>1
    <3>6. CASE d = r /\ pos[q] # pos[r]
      <4>1. next[d] > pos[q] <=> pos[d] > pos[q]
        BY <1>4, <2>1, <3>6
      <4>2. QED
        BY <3>3, <3>6, <4>1
    <3>7. QED
      BY <3>4, <3>5, <3>6
  <2>4. QED
    BY <2>2, <2>3
<1>7. QED
  BY <1>3, <1>5, <1>6

LEMMA TakePresent ==
  ASSUME SortInv, PresentKnown, PresentKnown', NEW CONSTANT r \in Ranks, Take(r),
         NEW CONSTANT h, NEW CONSTANT pos, NEW CONSTANT told, Tracks(h, pos, told)
  PROVE  Unmoved
<1>1. PICK l, x : l = at[r] /\ x = Continue(l)
  OBVIOUS
<1>2. /\ UNCHANGED <<input, n_all>> /\ l.pc = "await" /\ Awaits(r) /\ LocalInv(l) /\ Lengths
      /\ at' = Set(at, r, x)
  BY <1>1 DEF Take, Awaits, SortInv
<1>3. x.pc # "await"
  BY <1>1, <1>2, ContinueTurns
<1>4. Tracks(h, OneOn(r, pos), told)' /\ pos[at[r].to.rank] > pos[r]
  BY TakeTracks
<1>5. Ended(r, pos) = pos[r] + 1
  BY <1>2, <1>4 DEF Ended
<1>6. ASSUME NEW q \in Ranks PROVE ~ Meets(h[pos[r]].l, q, r)
  <2>1. Meets(h[pos[r]].l, r, at[r].to.rank)
    BY <1>2, AtExchange
  <2>2. QED
    BY <2>1 DEF Meets
<1>7. \A q \in Ranks : Ended(q, OneOn(r, pos))' = Ended(q, pos)
  <2>1. /\ Ended(r, OneOn(r, pos))' = pos[r] + 1
        /\ \A q \in Ranks : q # r =>
              Ended(q, OneOn(r, pos))' = IF Meets(h[pos[r]].l, q, r) /\ pos[q] = pos[r] /\ Awaits(q)
                                         THEN pos[r] + 1 ELSE Ended(q, pos)
    BY <1>2, <1>3, EndedOneOn
  <2>2. QED
    BY <1>5, <1>6, <2>1
<1>8. PICK next : next = OneOn(r, pos)
  OBVIOUS
<1>9. Tracks(h, next, told)' /\ \A q \in Ranks : Ended(q, next)' = Ended(q, pos)
  BY <1>4, <1>7, <1>8
<1>10. QED
  BY <1>2, <1>9, SameEnded

LEMMA AnswerPresent ==
  ASSUME SortInv, PresentKnown, PresentKnown', NEW CONSTANT r \in Ranks, Answer(r),
         NEW CONSTANT h, NEW CONSTANT pos, NEW CONSTANT told, Tracks(h, pos, told)
  PROVE  Rearranged
<1>1. PICK l, s, x, v, w :
        l = at[r] /\ s = l.from.rank /\ x = Continue(l) /\ v = h[pos[r]].v /\ w = h[pos[r] + 1].v
  OBVIOUS
<1>2. /\ UNCHANGED <<input, n_all>> /\ l.pc = "swap" /\ LocalInv(l) /\ Lengths
      /\ at' = Set(at, r, x) /\ l.to.rank = r /\ s # r /\ l.from \in Slots /\ l.to \in Slots
      /\ s \in Ranks /\ ~ Awaits(r)
  BY <1>1, ExchangedSlots DEF Answer, SortInv, Awaits
<1>3. x.pc # "await"
  BY <1>1, <1>2, ContinueTurns
<1>4. /\ Tracks(h, OneOn(r, pos), told)'
      /\ Meets(h[pos[r]].l, h[pos[r]].l.from.rank, r)
      /\ at[r] = h[pos[r]].l
      /\ pos[h[pos[r]].l.from.rank] = pos[r] /\ Awaits(h[pos[r]].l.from.rank)
  BY AnswerTracks
<1>5. l = h[pos[r]].l /\ Meets(h[pos[r]].l, s, r) /\ pos[s] = pos[r] /\ Awaits(s)
      /\ at[s].to.rank = r
  <2>1. l = h[pos[r]].l /\ Meets(h[pos[r]].l, s, r) /\ pos[s] = pos[r] /\ Awaits(s)
    BY <1>1, <1>4
  <2>2. Meets(h[pos[s]].l, s, at[s].to.rank)
    BY <1>2, <2>1, AtExchange
  <2>3. QED
    BY <2>1, <2>2 DEF Meets
<1>6. pos[r] \in Nat /\ Ended(r, pos) = pos[r] /\ Ended(s, pos) = pos[r]
  <2>1. pos[r] \in Nat
    BY Here
  <2>2. QED
    BY <1>2, <1>5, <2>1 DEF Ended
<1>7. PICK next : next = OneOn(r, pos)
  OBVIOUS
<1>8. /\ Ended(r, next)' = pos[r] + 1 /\ Ended(s, next)' = pos[r] + 1
      /\ \A q \in Ranks : q # r /\ q # s => Ended(q, next)' = Ended(q, pos)
  <2>1. /\ Ended(r, next)' = pos[r] + 1
        /\ \A q \in Ranks : q # r =>
              Ended(q, next)' = IF Meets(h[pos[r]].l, q, r) /\ pos[q] = pos[r] /\ Awaits(q)
                                THEN pos[r] + 1 ELSE Ended(q, pos)
    BY <1>2, <1>3, <1>7, EndedOneOn
  <2>2. \A q \in Ranks : Meets(h[pos[r]].l, q, r) => q = s
    BY <1>5 DEF Meets
  <2>3. QED
    BY <1>2, <1>5, <2>1, <2>2
<1>9. Slots' = Slots /\ \A p \in Slots : p.rank \in Ranks
  BY <1>2, SameSlots, SlotsAre
<1>10. \A p \in Slots : Present(p)' = h[Ended(p.rank, next)'].v[p]
  <2>1. Tracks(h, next, told)'
    BY <1>4, <1>7
  <2>2. QED
    BY <1>9, <2>1 DEF PresentKnown
<1>11. \A p \in Slots : Present(p) = h[Ended(p.rank, pos)].v[p]
  BY DEF PresentKnown
<1>12. \A p \in Slots : w[p] =
         IF p = l.from THEN v[l.to] ELSE IF p = l.to THEN v[l.from] ELSE v[p]
  <2>1. Moment(h[pos[r]]) /\ h[pos[r] + 1] = NextMoment(h[pos[r]])
    BY Here
  <2>2. w = Swapped(l, v) /\ v \in [Slots -> Values]
    <3>1. h[pos[r] + 1].v = Swapped(h[pos[r]].l, h[pos[r]].v)
      BY <2>1 DEF NextMoment
    <3>2. h[pos[r]].v \in [Slots -> Values]
      BY <2>1 DEF Moment
    <3>3. QED
      BY <1>1, <1>5, <3>1, <3>2
  <2>3. QED
    BY <1>2, <2>2, SwappedAt
<1>13. PICK from, to : from = l.from /\ to = l.to
  OBVIOUS
<1>14. /\ from \in Slots /\ to \in Slots /\ from.rank = s /\ to.rank = r /\ from # to
  BY <1>1, <1>2, <1>13
<1>15. Present(from)' = v[to] /\ Present(to)' = v[from] /\ Present(from) = v[from] /\ Present(to) = v[to]
  <2>1. Present(from)' = w[from] /\ Present(to)' = w[to]
    BY <1>1, <1>8, <1>10, <1>14
  <2>2. Present(from) = v[from] /\ Present(to) = v[to]
    BY <1>1, <1>6, <1>11, <1>14
  <2>3. w[from] = v[to] /\ w[to] = v[from]
    BY <1>12, <1>13, <1>14
  <2>4. QED
    BY <2>1, <2>2, <2>3
<1>16. ASSUME NEW CONSTANT p \in Slots, p # from, p # to PROVE Present(p)' = Present(p)
  <2>1. w[p] = v[p]
    BY <1>12, <1>13, <1>16
  <2>2. Present(p)' = h[Ended(p.rank, next)'].v[p] /\ Present(p) = h[Ended(p.rank, pos)].v[p]
        /\ p.rank \in Ranks
    BY <1>9, <1>10, <1>11
  <2>3. CASE p.rank \in {r, s}
    <3>1. Present(p)' = w[p] /\ Present(p) = v[p]
      BY <1>1, <1>6, <1>8, <2>2, <2>3
    <3>2. QED
      BY <2>1, <3>1
  <2>4. CASE p.rank \notin {r, s}
    BY <1>8, <2>2, <2>4
  <2>5. QED
    BY <2>3, <2>4
<1>17. at[from.rank].pc # "done" /\ at[to.rank].pc # "done"
  BY <1>1, <1>2, <1>5, <1>14 DEF Awaits
<1>18. Moved(from, to)
  BY <1>14, <1>15, <1>16, <1>17 DEF Moved
<1>19. QED
  BY <1>14, <1>18 DEF Rearranged

LEMMA StepPresent ==
  ASSUME SortInv, PresentKnown, PresentKnown', NEW CONSTANT r \in Ranks, Step(r),
         NEW CONSTANT h, NEW CONSTANT pos, NEW CONSTANT told, Tracks(h, pos, told)
  PROVE  Rearranged
<1>1. CASE TellPivot(r) \/ HearPivot(r) \/ TellCheck(r) \/ HearCheck(r)
  BY <1>1, BroadcastPresent DEF Rearranged
<1>2. CASE SwapAtHome(r)
  BY <1>2, HomePresent
<1>3. CASE Give(r)
  BY <1>3, GivePresent DEF Rearranged
<1>4. CASE Answer(r)
  BY <1>4, AnswerPresent
<1>5. CASE Take(r)
  BY <1>5, TakePresent DEF Rearranged
<1>6. QED
  BY <1>1, <1>2, <1>3, <1>4, <1>5 DEF Step

\* Who enters finds its block as it is.
LEMMA EnterPresent ==
  ASSUME SortInv, Enter
  PROVE  Unmoved
<1>1. PICK all, start, begun, stopped :
        /\ all = NonEmpty(0, P - 1) /\ stopped = Local("stopped", <<>>)
        /\ start = Recursion(Slot(Min(all), 0), LastSlot(Max(all)))
        /\ begun = IF all = {} THEN Local(IF P = 1 THEN "done" ELSE "undefined", <<>>)
                   ELSE Sort(start)
  OBVIOUS
<1>2. /\ UNCHANGED <<input, n_all, array, bcast, channel>> /\ Lengths
      /\ at' = [r \in Ranks |-> IF Stops(r) THEN stopped
                                ELSE IF \E q \in Ranks : Stops(q) THEN at[r] ELSE begun]
      /\ \A r \in Ranks : at[r].pc = "enter"
  BY <1>1 DEF Enter, SortInv
<1>3. stopped.pc # "await" /\ begun.pc # "await"
  <2>1. stopped.pc = "stopped"
    BY <1>1 DEF Local
  <2>2. begun.pc \in {"done", "undefined", "sort"}
    BY <1>1 DEF Local, Sort
  <2>3. QED
    BY <2>1, <2>2
<1>4. \A r \in Ranks : at[r].pc # "await" /\ at'[r].pc # "await"
  BY <1>2, <1>3
<1>5. ASSUME NEW CONSTANT p \in Slots PROVE Present(p)' = Present(p)
  <2>1. p.rank \in Ranks
    BY <1>2, SlotsAre
  <2>2. Present(p) = array[p] /\ Present(p)' = array'[p]
    BY <1>4, <2>1 DEF Present
  <2>3. QED
    BY <1>2, <2>2
<1>6. QED
  BY <1>5 DEF Unmoved

LEMMA RearrangedIsDocumented ==
  ASSUME SortInv, n_all' = n_all, Rearranged
  PROVE  \/ UNCHANGED [p \in Slots |-> Present(p)]
         \/ \E p, q \in Documented!Slots : Documented!Exchange(p, q)
<1>0. PICK values, after, returned :
        /\ values = [p \in Slots |-> Present(p)] /\ after = [p \in Slots |-> Present(p)]'
        /\ returned = {r \in Ranks : at[r].pc = "done"}
  OBVIOUS
<1>1. Slots' = Slots /\ Lengths
  BY SameSlots DEF SortInv
<1>2. after = [p \in Slots |-> Present(p)']
  BY <1>0, <1>1
<1>3. CASE Unmoved
  BY <1>0, <1>2, <1>3 DEF Unmoved
<1>4. ASSUME NEW p \in Slots, NEW q \in Slots, Moved(p, q)
      PROVE  /\ {p.rank, q.rank} \cap returned = {}
             /\ after = [values EXCEPT ![p] = values[q], ![q] = values[p]]
  <2>1. {p.rank, q.rank} \cap returned = {}
    BY <1>0, <1>4 DEF Moved
  <2>2. PICK new : new = [values EXCEPT ![p] = values[q], ![q] = values[p]]
    OBVIOUS
  <2>3. DOMAIN new = Slots /\ new = [x \in Slots |-> new[x]]
    BY <1>0, <2>2
  <2>4. ASSUME NEW x \in Slots PROVE new[x] = Present(x)'
    <3>1. CASE x = q
      <4>1. new[x] = values[p]
        BY <1>0, <2>2, <3>1
      <4>2. QED
        BY <1>0, <1>4, <3>1, <4>1 DEF Moved
    <3>2. CASE x = p /\ x # q
      <4>1. new[x] = values[q]
        BY <1>0, <2>2, <3>2
      <4>2. QED
        BY <1>0, <1>4, <3>2, <4>1 DEF Moved
    <3>3. CASE x # p /\ x # q
      <4>1. new[x] = values[x]
        BY <1>0, <2>2, <3>3
      <4>2. QED
        BY <1>0, <1>4, <3>3, <4>1 DEF Moved
    <3>4. QED
      BY <3>1, <3>2, <3>3
  <2>5. new = after
    BY <1>2, <2>3, <2>4
  <2>6. QED
    BY <2>1, <2>2, <2>5
<1>5. Documented!Slots = Slots
  BY DEF Documented!Slots
<1>6. ASSUME NEW p \in Slots, NEW q \in Slots, Moved(p, q) PROVE Documented!Exchange(p, q)
  <2>1. /\ {p.rank, q.rank} \cap returned = {}
        /\ after = [values EXCEPT ![p] = values[q], ![q] = values[p]]
    BY <1>4, <1>6
  <2>2. QED
    BY <1>0, <2>1 DEF Documented!Exchange
<1>7. QED
  BY <1>0, <1>3, <1>5, <1>6 DEF Rearranged

\* Who is done stays so, and everything else is as it was.
LEMMA DoneRemain ==
  ASSUME SortInv, Enter \/ \E r \in Ranks : Step(r)
  PROVE  /\ input' = input /\ n_all' = n_all
         /\ \A q \in Ranks : at[q].pc = "done" => at'[q].pc = "done"
<1>1. CASE Enter
  BY <1>1 DEF Enter
<1>2. ASSUME NEW r \in Ranks, Step(r)
      PROVE  /\ input' = input /\ n_all' = n_all
             /\ \A q \in Ranks : at[q].pc = "done" => at'[q].pc = "done"
  <2>1. input' = input /\ n_all' = n_all /\ at[r].pc # "done" /\ \E x : at' = Set(at, r, x)
    BY <1>2 DEF Step, TellPivot, HearPivot, TellCheck, HearCheck, SwapAtHome, Give, Answer, Take
  <2>2. \A q \in Ranks : q # r => at'[q] = at[q]
    BY <2>1 DEF Set, SortInv
  <2>3. QED
    BY <2>1, <2>2
<1>3. QED
  BY <1>1, <1>2

LEMMA DocumentedStep ==
  ASSUME SortInv, Rearranged, input' = input, n_all' = n_all,
         \A q \in Ranks : at[q].pc = "done" => at'[q].pc = "done", InPlaceNow'
  PROVE  Documented!Next
<1>1. PICK returned, now :
        /\ returned = {r \in Ranks : at[r].pc = "done"}
        /\ now = {r \in Ranks : at'[r].pc = "done"}
  OBVIOUS
<1>2. Slots' = Slots
  BY SameSlots
<1>3. UNCHANGED [p \in Slots |-> Present(p)] \/ \E p, q \in Documented!Slots : Documented!Exchange(p, q)
  BY RearrangedIsDocumented
<1>4. PICK S : S = now \ returned
  OBVIOUS
<1>5. S \in SUBSET (Ranks \ returned) /\ now = returned \cup S
  BY <1>1, <1>4
<1>6. \A p \in Slots : p.rank \in S => Documented!InPlace(p)'
  BY <1>1, <1>2, <1>4 DEF InPlaceNow
<1>7. Documented!Return(S)
  BY <1>1, <1>2, <1>5, <1>6 DEF Documented!Return, Documented!Slots
<1>8. [decreasing |-> input.decreasing, nalast |-> input.nalast # "FALSE"]'
        = [decreasing |-> input.decreasing, nalast |-> input.nalast # "FALSE"]
  OBVIOUS
<1>9. QED
  BY <1>1, <1>3, <1>5, <1>7, <1>8 DEF Documented!Next

\* What the proof of the refinement knows of each state.
SortedInv == StoryInv /\ input \in Inputs /\ PresentKnown /\ InPlaceNow

LEMMA SortedHolds == ASSUME Comparable PROVE Spec => []SortedInv
<1>1. Init => input \in Inputs
  BY DEF Init
<1>2. input \in Inputs /\ [Next]_vars => (input \in Inputs)'
  BY DEF Next, vars, Enter, Step, TellPivot, HearPivot, TellCheck, HearCheck, SwapAtHome, Give,
         Answer, Take, Terminating
<1>3. Spec => [](input \in Inputs)
  BY <1>1, <1>2, PTL DEF Spec
<1>4. StoryInv /\ input \in Inputs => SortedInv
  BY PresentIsKnown, HomeIsInPlace DEF SortedInv, StoryInv
<1>5. QED
  BY <1>3, <1>4, StoryHolds, PTL

LEMMA SortedStep ==
  ASSUME SortedInv, SortedInv', [Next]_vars
  PROVE  [Documented!Next]_<<[decreasing |-> input.decreasing, nalast |-> input.nalast # "FALSE"],
                             [p \in Slots |-> Present(p)], {r \in Ranks : at[r].pc = "done"}>>
<1>1. SortInv /\ PresentKnown /\ PresentKnown' /\ InPlaceNow'
  BY DEF SortedInv, StoryInv
<1>2. CASE Enter
  <2>1. Rearranged
    BY <1>1, <1>2, EnterPresent DEF Rearranged
  <2>2. QED
    BY <1>1, <1>2, <2>1, DoneRemain, DocumentedStep
<1>3. ASSUME NEW CONSTANT r \in Ranks, Step(r) PROVE Documented!Next
  <2>1. at[r].pc \notin {"enter", "stopped", "undefined"}
    BY <1>3 DEF Step, TellPivot, HearPivot, TellCheck, HearCheck, SwapAtHome, Give, Answer, Take
  <2>2. PICK h, pos, told : Tracks(h, pos, told)
    BY <2>1 DEF SortedInv, StoryInv, Idle, Underway
  <2>3. Rearranged
    BY <1>1, <1>3, <2>2, StepPresent
  <2>4. QED
    BY <1>1, <1>3, <2>3, DoneRemain, DocumentedStep
<1>4. CASE UNCHANGED vars
  <2>1. UNCHANGED <<input, n_all, array, at, bcast, channel>>
    BY <1>4 DEF vars
  <2>2. QED
    BY <2>1 DEF Present, Slots
<1>5. QED
  BY <1>2, <1>3, <1>4 DEF Next, Terminating

\* comm.sort() keeps what its manual promises: the elements only change places,
\* two at a time, and when a rank returns, its block is its part of the sorted
\* whole and stays as it is, while other ranks still exchange elements and answers
\* are on the way. A decreasing order is not promised with missing values.
THEOREM SortsAsDocumented == ASSUME Comparable PROVE Spec => ImplementsSorting
<1>1. Spec => []SortedInv
  BY SortedHolds
<1>2. Init => Documented!Init
  BY DEF Init, Documented!Init, Local
<1>3. SortedInv /\ SortedInv' /\ [Next]_vars =>
        [Documented!Next]_<<[decreasing |-> input.decreasing, nalast |-> input.nalast # "FALSE"],
                            [p \in Slots |-> Present(p)], {r \in Ranks : at[r].pc = "done"}>>
  BY SortedStep
<1>4. QED
  BY <1>1, <1>2, <1>3, PTL DEF Spec, ImplementsSorting, Documented!Spec
=============================================================================
