-------------------------- MODULE RngStreams_proofs --------------------------
(***************************************************************************)
(* Theorems about comm.chunk() and the random number streams, for any      *)
(* number of ranks, items, seeds and operations.                           *)
(***************************************************************************)
EXTENDS RngStreams, WellFoundedInduction, FiniteSetTheorems, TLAPS

------------------------------------------------------------------------------
(* Induction, with a set instead of a predicate                            *)

\* A nonempty set of natural numbers has a least element.
LEMMA LeastNatural ==
  ASSUME NEW T \in SUBSET Nat, T # {}
  PROVE  \E x \in T : \A y \in T : x <= y
<1>1. IsWellFoundedOn(OpToRel(<, Nat), Nat)
  BY NatLessThanWellFounded
<1>2. PICK x \in T : \A y \in T : ~ (<<y, x>> \in OpToRel(<, Nat))
  BY <1>1, WFMin
<1>3. \A y \in T : ~ (y < x)
  BY <1>2 DEF OpToRel
<1>4. QED
  BY <1>3

\* A set with 0 that is closed under successor holds every natural number.
LEMMA SetInductionNat ==
  ASSUME NEW T, 0 \in T, \A n \in Nat : n \in T => n + 1 \in T
  PROVE  \A n \in Nat : n \in T
<1>1. SUFFICES ASSUME Nat \ T # {} PROVE FALSE
  OBVIOUS
<1>2. PICK x \in Nat \ T : \A y \in Nat \ T : x <= y
  BY <1>1, LeastNatural
<1>3. x # 0 /\ x - 1 \in Nat
  BY <1>2
<1>4. x - 1 \in T
  BY <1>2, <1>3
<1>5. QED
  BY <1>2, <1>3, <1>4

------------------------------------------------------------------------------
(* Consecutive stretches, and how a number is divided                      *)

\* Bounds that do not fall divide 1..bound[last] into stretches: job k lies
\* between two neighbours.
LEMMA StretchOf ==
  ASSUME NEW p \in Nat, NEW bound \in [Nat -> Nat], bound[0] = 0
  PROVE  \A k \in Nat : 1 <= k /\ k <= bound[p] =>
           \E r \in 0..(p - 1) : bound[r] < k /\ k <= bound[r + 1]
<1> SUFFICES ASSUME NEW k \in Nat, 1 <= k, k <= bound[p]
             PROVE  \E r \in 0..(p - 1) : bound[r] < k /\ k <= bound[r + 1]
  OBVIOUS
<1> DEFINE Below == {r \in Nat : r <= p => bound[r] < k}
<1>1. 0 \in Below
  OBVIOUS
<1>2. ~ (p \in Below)
  <2>1. bound[p] \in Nat
    OBVIOUS
  <2>2. QED
    BY <2>1
<1>3. ~ \A r \in Nat : r \in Below => r + 1 \in Below
  <2> HIDE DEF Below
  <2> QED
    BY <1>1, <1>2, SetInductionNat
<1>4. PICK r \in Nat : r \in Below /\ ~ (r + 1 \in Below)
  BY <1>3
<1>5. r + 1 \in Nat /\ r + 1 <= p /\ ~ (bound[r + 1] < k)
  BY <1>4
<1>6. bound[r] \in Nat /\ bound[r + 1] \in Nat /\ bound[r] < k
  BY <1>4, <1>5
<1>7. QED
  BY <1>5, <1>6

\* Bounds that do not fall from one rank to the next do not fall at all.
LEMMA BoundsRise ==
  ASSUME NEW p \in Nat, NEW bound \in [Nat -> Nat],
         \A r \in Nat : r < p => bound[r] <= bound[r + 1]
  PROVE  \A r, s \in Nat : r <= s /\ s <= p => bound[r] <= bound[s]
<1> SUFFICES ASSUME NEW r \in Nat, NEW s \in Nat, r <= s, s <= p
             PROVE  bound[r] <= bound[s]
  OBVIOUS
<1> DEFINE Above == {t \in Nat : r <= t /\ t <= p => bound[r] <= bound[t]}
<1>1. 0 \in Above
  <2>1. CASE r = 0
    BY <2>1
  <2>2. CASE r # 0
    BY <2>2
  <2>3. QED
    BY <2>1, <2>2
<1>2. ASSUME NEW t \in Nat, t \in Above PROVE t + 1 \in Above
  <2>1. SUFFICES ASSUME r <= t + 1, t + 1 <= p PROVE bound[r] <= bound[t + 1]
    OBVIOUS
  <2>2. CASE r = t + 1
    <3>1. bound[r] \in Nat
      OBVIOUS
    <3>2. QED
      BY <2>2, <3>1
  <2>3. CASE r <= t
    <3>1. bound[r] <= bound[t] /\ bound[t] <= bound[t + 1]
      BY <1>2, <2>1, <2>3
    <3>2. bound[r] \in Nat /\ bound[t] \in Nat /\ bound[t + 1] \in Nat
      OBVIOUS
    <3>3. QED
      BY <3>1, <3>2
  <2>4. QED
    BY <2>1, <2>2, <2>3
<1>3. \A t \in Nat : t \in Above
  <2> HIDE DEF Above
  <2> QED
    BY <1>1, <1>2, SetInductionNat
<1>4. QED
  BY <1>3

\* The quotient and the remainder of the block methods
LEMMA Division ==
  ASSUME NEW n \in Nat, NEW p \in Nat \ {0}
  PROVE  /\ n \div p \in Nat /\ n % p \in Nat /\ n % p < p
         /\ n = p * (n \div p) + (n % p)
OBVIOUS

\* Products, of which the solver is told as much as the proofs need
LEMMA Distribute ==
  ASSUME NEW a \in Nat, NEW b \in Nat
  PROVE  /\ a * b \in Nat /\ (a + 1) * b = a * b + b /\ a * (b + 1) = a * b + a
OBVIOUS

LEMMA Subtract ==
  ASSUME NEW a \in Nat, NEW b \in Nat, NEW c \in Nat
  PROVE  (a - c) * b = a * b - c * b
OBVIOUS

\* How many of the ranks below r have one thing more than n \div p: it is the
\* "first" ranks that have one more, or the last ones.
Extra(n, first, p, r) ==
  IF first THEN (IF r < n % p THEN r ELSE n % p)
           ELSE (IF r < p - (n % p) THEN 0 ELSE r - (p - (n % p)))

\* The last of the things 1..n that the ranks below r have.
Bound(n, first, p, r) == r * (n \div p) + Extra(n, first, p, r)

\* From a rank to the next there is one of them more, or none.
LEMMA ExtraSteps ==
  ASSUME NEW n \in Nat, NEW p \in Nat \ {0}, NEW first \in BOOLEAN, NEW r \in Nat
  PROVE  /\ Extra(n, first, p, r) \in Nat
         /\ Extra(n, first, p, 0) = 0
         /\ Extra(n, first, p, p) = n % p
         /\ Extra(n, first, p, r + 1) \in
              {Extra(n, first, p, r), Extra(n, first, p, r) + 1}
<1>1. n % p \in Nat /\ n % p < p
  BY Division
<1> DEFINE m == n % p
           E(k) == IF first THEN (IF k < m THEN k ELSE m)
                            ELSE (IF k < p - m THEN 0 ELSE k - (p - m))
<1>2. /\ Extra(n, first, p, r) = E(r) /\ Extra(n, first, p, 0) = E(0)
      /\ Extra(n, first, p, p) = E(p) /\ Extra(n, first, p, r + 1) = E(r + 1)
  BY DEF Extra
<1>3. m \in Nat /\ m < p
  BY <1>1
<1>4. n % p = m
  OBVIOUS
<1> HIDE DEF m
<1>5. E(r) \in Nat /\ E(0) = 0 /\ E(p) = m /\ E(r + 1) \in {E(r), E(r) + 1}
  BY <1>3
<1>6. QED
  BY <1>2, <1>4, <1>5

\* The bounds rise from 0 to n.
LEMMA BoundSteps ==
  ASSUME NEW n \in Nat, NEW p \in Nat \ {0}, NEW first \in BOOLEAN, NEW r \in Nat
  PROVE  /\ Bound(n, first, p, r) \in Nat
         /\ Bound(n, first, p, 0) = 0
         /\ Bound(n, first, p, p) = n
         /\ Bound(n, first, p, r) <= Bound(n, first, p, r + 1)
<1> DEFINE q == n \div p
           m == n % p
<1>1. q \in Nat /\ m \in Nat /\ n = p * q + m
  BY Division
<1>2. r * q \in Nat /\ (r + 1) * q = r * q + q /\ 0 * q = 0
  BY <1>1, Distribute
<1>3. /\ Bound(n, first, p, r) = r * q + Extra(n, first, p, r)
      /\ Bound(n, first, p, r + 1) = (r + 1) * q + Extra(n, first, p, r + 1)
      /\ Bound(n, first, p, 0) = 0 * q + Extra(n, first, p, 0)
      /\ Bound(n, first, p, p) = p * q + Extra(n, first, p, p)
  BY DEF Bound
<1>4. /\ Extra(n, first, p, r) \in Nat
      /\ Extra(n, first, p, 0) = 0
      /\ Extra(n, first, p, p) = m
      /\ Extra(n, first, p, r + 1) \in {Extra(n, first, p, r), Extra(n, first, p, r) + 1}
  BY ExtraSteps
<1> HIDE DEF q, m
<1>5. QED
  BY <1>1, <1>2, <1>3, <1>4

------------------------------------------------------------------------------
(* Sums                                                                    *)

\* cumsum() is the one vector that starts at nothing and grows by the items.
LEMMA CumulatedIs ==
  ASSUME NEW p \in Nat, NEW items, NEW sums, sums[0] = 0,
         \A k \in 1..p : sums[k] = sums[k - 1] + items[k],
         NEW n \in 0..p
  PROVE  Cumulated(items, n) = sums[n]
<1> DEFINE next(f, i) == IF i = 0 THEN 0 ELSE f[i - 1] + items[i]
           g == [i \in 0..n |-> sums[i]]
<1>1. g = [i \in 0..n |-> next(g, i)]
  <2>1. ASSUME NEW i \in 0..n PROVE g[i] = next(g, i)
    <3>1. CASE i = 0
      BY <3>1
    <3>2. CASE i # 0
      <4>1. i \in 1..p /\ i - 1 \in 0..n
        BY <3>2
      <4>2. QED
        BY <3>2, <4>1
    <3>3. QED
      BY <3>1, <3>2
  <2>2. g = [i \in 0..n |-> g[i]]
    OBVIOUS
  <2> HIDE DEF g, next
  <2>3. QED
    BY <2>1, <2>2
<1>2. PICK f : f = [i \in 0..n |-> next(f, i)] /\ Cumulated(items, n) = f[n]
  <2>1. \E f : f = [i \in 0..n |-> next(f, i)]
    BY <1>1
  <2>2. QED
    BY <2>1 DEF Cumulated
<1> DEFINE T == {i \in Nat : i <= n => f[i] = sums[i]}
<1>3. 0 \in T
  BY <1>2
<1>4. ASSUME NEW i \in Nat, i \in T PROVE i + 1 \in T
  <2>1. SUFFICES ASSUME i + 1 <= n PROVE f[i + 1] = sums[i + 1]
    OBVIOUS
  <2>2. i + 1 \in 0..n /\ i + 1 \in 1..p /\ i + 1 # 0 /\ (i + 1) - 1 = i /\ i <= n
    BY <2>1
  <2>3. f[i + 1] = f[i] + items[i + 1]
    BY <1>2, <2>2
  <2>4. f[i] = sums[i]
    BY <1>4, <2>2
  <2>5. sums[i + 1] = sums[i] + items[i + 1]
    BY <2>2
  <2>6. QED
    BY <2>3, <2>4, <2>5
<1>5. \A i \in Nat : i \in T
  <2> HIDE DEF T
  <2>1. QED
    BY <1>3, <1>4, SetInductionNat
<1>6. QED
  <2>1. n \in T /\ n <= n
    BY <1>5
  <2>2. f[n] = sums[n]
    BY <2>1
  <2>3. QED
    BY <1>2, <2>2

------------------------------------------------------------------------------
(* The sizes of the chunks                                                 *)

Sides == {"right", "left"}

\* "balance" and "cycle": chunk k has what lies between two bounds.
LEMMA BalancedIs ==
  ASSUME NEW N \in Nat, NEW p \in Nat \ {0}, NEW side \in Sides, NEW k \in 1..p
  PROVE  /\ BalancedItems(N, side, p)[k] =
              IF Extra(N, side = "right", p, k) = Extra(N, side = "right", p, k - 1)
              THEN N \div p ELSE N \div p + 1
         /\ Extra(N, side = "right", p, k) # Extra(N, side = "right", p, k - 1) <=>
              IF side = "right" THEN k <= N % p ELSE k > p - (N % p)
         /\ Bound(N, side = "right", p, k) =
              Bound(N, side = "right", p, k - 1) + BalancedItems(N, side, p)[k]
<1> DEFINE b == N \div p
           m == N % p
           e(r) == Extra(N, side = "right", p, r)
<1>1. /\ b \in Nat /\ m \in Nat /\ m < p /\ N = p * b + m
      /\ p * b \in Nat /\ b * p = p * b
  BY Division
<1>2. N - b * p = m
  <2> HIDE DEF b, m
  <2>1. QED
    BY <1>1
<1>3. BalancedItems(N, side, p)[k] =
        IF (side = "right" /\ k <= m) \/ (side = "left" /\ k > p - m) THEN b + 1 ELSE b
  BY <1>2 DEF BalancedItems
<1>4. /\ e(k) = IF side = "right" THEN (IF k < m THEN k ELSE m)
                ELSE (IF k < p - m THEN 0 ELSE k - (p - m))
      /\ e(k - 1) = IF side = "right" THEN (IF k - 1 < m THEN k - 1 ELSE m)
                    ELSE (IF k - 1 < p - m THEN 0 ELSE k - 1 - (p - m))
  BY DEF Extra
<1>5. /\ Bound(N, side = "right", p, k) = k * b + e(k)
      /\ Bound(N, side = "right", p, k - 1) = (k - 1) * b + e(k - 1)
  BY DEF Bound
<1>6. k \in Nat /\ k - 1 \in Nat /\ k * b = (k - 1) * b + b /\ (k - 1) * b \in Nat
  <2>1. k - 1 \in Nat /\ (k - 1) + 1 = k
    OBVIOUS
  <2>2. QED
    BY <1>1, <2>1, Distribute
<1>7. side = "right" \/ side = "left"
  BY DEF Sides
<1> HIDE DEF b, m, e
<1>8. /\ e(k) # e(k - 1) <=> IF side = "right" THEN k <= m ELSE k > p - m
      /\ e(k) \in {e(k - 1), e(k - 1) + 1} /\ e(k) \in Nat /\ e(k - 1) \in Nat
  BY <1>1, <1>4, <1>6
<1>9. BalancedItems(N, side, p)[k] = IF e(k) = e(k - 1) THEN b ELSE b + 1
  BY <1>3, <1>7, <1>8
<1>10. Bound(N, side = "right", p, k) =
         Bound(N, side = "right", p, k - 1) + BalancedItems(N, side, p)[k]
  BY <1>1, <1>5, <1>6, <1>8, <1>9
<1>11. QED
  BY <1>8, <1>9, <1>10 DEF b, m, e

\* What is left of a surplus s when i chunks of size q have given what they can.
Rest(s, q, i) == IF s > i * q THEN s - i * q ELSE 0

LEMMA RestSteps ==
  ASSUME NEW s \in Nat, NEW q \in Nat, NEW i \in Nat
  PROVE  /\ Rest(s, q, i) \in Nat
         /\ Rest(s, q, 0) = s
         /\ Rest(s, q, i + 1) = IF Rest(s, q, i) >= q THEN Rest(s, q, i) - q ELSE 0
<1>1. i * q \in Nat /\ (i + 1) * q = i * q + q /\ 0 * q = 0
  BY Distribute
<1>2. QED
  BY <1>1 DEF Rest

LEMMA RestFalls ==
  ASSUME NEW s \in Nat, NEW q \in Nat, NEW i \in Nat, NEW j \in Nat, i <= j
  PROVE  Rest(s, q, j) <= Rest(s, q, i)
<1>1. j - i \in Nat /\ (j - i) * q \in Nat /\ i * q \in Nat
  BY Distribute
<1>2. j * q = i * q + (j - i) * q
  OBVIOUS
<1>3. QED
  BY <1>1, <1>2 DEF Rest

\* The turn of the loop that comes to chunk k.
Turn(side, p, k) == IF side = "right" THEN p + 1 - k ELSE k

\* What chunks of the larger size have too much.
Surplus(N, p) == p * (N \div p + 1) - N

LEMMA SurplusIs ==
  ASSUME NEW N \in Nat, NEW p \in Nat \ {0}
  PROVE  /\ N \div p + 1 \in Nat /\ Surplus(N, p) \in Nat
         /\ p * (N \div p + 1) = N + Surplus(N, p)
         /\ Rest(Surplus(N, p), N \div p + 1, p) = 0
<1> DEFINE b == N \div p
           m == N % p
<1>1. b \in Nat /\ m \in Nat /\ m < p /\ N = p * b + m
  BY Division
<1>2. p * b \in Nat /\ p * (b + 1) = p * b + p
  BY <1>1, Distribute
<1>3. Surplus(N, p) = p * (b + 1) - N
  BY DEF Surplus
<1>4. Rest(Surplus(N, p), b + 1, p) =
        IF Surplus(N, p) > p * (b + 1) THEN Surplus(N, p) - p * (b + 1) ELSE 0
  BY DEF Rest
<1> HIDE DEF b, m
<1>5. b + 1 \in Nat /\ Surplus(N, p) = p - m /\ p * (b + 1) = N + (p - m) /\ p - m \in Nat
  BY <1>1, <1>2, <1>3
<1>6. Rest(Surplus(N, p), b + 1, p) = 0
  BY <1>4, <1>5
<1>7. QED
  BY <1>5, <1>6 DEF b

\* What is left of the surplus after i turns, and what chunk k is left with.
Left(N, p, i) == Rest(Surplus(N, p), N \div p + 1, i)
Keeps(N, side, p, k) ==
  N \div p + 1 - (Left(N, p, Turn(side, p, k) - 1) - Left(N, p, Turn(side, p, k)))

\* What i turns of the loop have made of the chunks and of the surplus.
Turned(N, side, p, i) ==
  [items |-> [k \in 1..p |->
                IF Turn(side, p, k) <= i THEN Keeps(N, side, p, k) ELSE N \div p + 1],
   rem |-> Left(N, p, i)]

LEMMA TurnStep ==
  ASSUME NEW N \in Nat, NEW p \in Nat \ {0}, NEW side \in Sides, NEW i \in Nat, i + 1 <= p
  PROVE  Take(Turned(N, side, p, i), IF side = "right" THEN p + 1 - (i + 1) ELSE i + 1, N \div p)
           = Turned(N, side, p, i + 1)
<1> DEFINE b == N \div p
           R(j) == Left(N, p, j)
           c == IF side = "right" THEN p + 1 - (i + 1) ELSE i + 1
           t(k) == Turn(side, p, k)
           had == [k \in 1..p |-> IF t(k) <= i THEN Keeps(N, side, p, k) ELSE b + 1]
           gets == [k \in 1..p |-> IF t(k) <= i + 1 THEN Keeps(N, side, p, k) ELSE b + 1]
<1>1. b \in Nat
  BY Division
<1>2. R(i) \in Nat /\ R(i + 1) = IF R(i) >= b + 1 THEN R(i) - (b + 1) ELSE 0
  <2>1. b + 1 \in Nat /\ Surplus(N, p) \in Nat
    BY SurplusIs
  <2>2. QED
    BY <2>1, RestSteps DEF Left
<1>3. /\ Turned(N, side, p, i) = [items |-> had, rem |-> R(i)]
      /\ Turned(N, side, p, i + 1) = [items |-> gets, rem |-> R(i + 1)]
  BY DEF Turned
<1>4. c \in 1..p /\ t(c) = i + 1 /\ \A k \in 1..p : t(k) \in Nat /\ (k # c => t(k) # i + 1)
  BY DEF Turn, Sides
<1>10. Keeps(N, side, p, c) = b + 1 - (R(i) - R(i + 1))
  BY <1>4 DEF Keeps
<1> HIDE DEF t, R, b, c
<1>5. had[c] = b + 1
  <2>1. ~ (t(c) <= i)
    BY <1>4
  <2>2. QED
    BY <1>4, <2>1
<1>6. gets = [had EXCEPT ![c] = b + 1 - (R(i) - R(i + 1))]
  <2>1. ASSUME NEW k \in 1..p, k # c PROVE gets[k] = had[k]
    <3>1. t(k) <= i + 1 <=> t(k) <= i
      BY <1>4, <2>1
    <3>2. QED
      BY <3>1
  <2>2. gets[c] = b + 1 - (R(i) - R(i + 1))
    <3>1. t(c) <= i + 1
      BY <1>4
    <3>2. QED
      BY <1>4, <1>10, <3>1
  <2>3. gets = [k \in 1..p |-> gets[k]] /\ DOMAIN had = 1..p
    OBVIOUS
  <2> HIDE DEF had, gets
  <2>4. QED
    BY <2>1, <2>2, <2>3
<1> HIDE DEF had, gets
<1>7. Take([items |-> had, rem |-> R(i)], c, b) = [items |-> gets, rem |-> R(i + 1)]
  <2>0. /\ [items |-> had, rem |-> R(i)].rem = R(i)
        /\ [items |-> had, rem |-> R(i)].items = had
    OBVIOUS
  <2>1. CASE R(i) = 0
    <3>1. R(i + 1) = 0
      BY <1>1, <1>2, <2>1
    <3>2. b + 1 - (R(i) - R(i + 1)) = had[c]
      BY <1>1, <1>5, <2>1, <3>1
    <3>3. gets = had
      BY <1>6, <3>2 DEF had
    <3>4. Take([items |-> had, rem |-> R(i)], c, b) = [items |-> had, rem |-> R(i)]
      BY <1>1, <2>0, <2>1 DEF Take
    <3>5. QED
      BY <2>1, <3>1, <3>3, <3>4
  <2>2. CASE R(i) # 0 /\ R(i) > b
    <3>1. R(i + 1) = R(i) - b - 1 /\ b + 1 - (R(i) - R(i + 1)) = 0
      BY <1>1, <1>2, <2>2
    <3>2. Take([items |-> had, rem |-> R(i)], c, b) =
            [items |-> [had EXCEPT ![c] = 0], rem |-> R(i) - b - 1]
      BY <2>0, <2>2 DEF Take
    <3>3. QED
      BY <1>6, <3>1, <3>2
  <2>3. CASE R(i) # 0 /\ ~ (R(i) > b)
    <3>1. R(i + 1) = 0 /\ b + 1 - (R(i) - R(i + 1)) = had[c] - R(i)
      BY <1>1, <1>2, <1>5, <2>3
    <3>2. Take([items |-> had, rem |-> R(i)], c, b) =
            [items |-> [had EXCEPT ![c] = had[c] - R(i)], rem |-> 0]
      BY <2>0, <2>3 DEF Take
    <3>3. QED
      BY <1>6, <3>1, <3>2
  <2>4. QED
    BY <2>1, <2>2, <2>3
<1>8. QED
  BY <1>3, <1>7 DEF b, c

\* "equal": every chunk is one of the larger size, less what its turn takes.
LEMMA EqualIs ==
  ASSUME NEW N \in Nat, NEW p \in Nat \ {0}, NEW side \in Sides, N # (N \div p) * p
  PROVE  EqualItems(N, side, p) = Turned(N, side, p, p).items
<1> DEFINE b == N \div p
           chunk(i) == IF side = "right" THEN p + 1 - i ELSE i
           start == [items |-> [k \in 1..p |-> b + 1], rem |-> p * (b + 1) - N]
           next(f, i) == IF i = 0 THEN start ELSE Take(f[i - 1], chunk(i), b)
           g == [i \in 0..p |-> Turned(N, side, p, i)]
<1>1. start = Turned(N, side, p, 0)
  <2>1. Surplus(N, p) = p * (b + 1) - N
    BY DEF Surplus
  <2>2. Left(N, p, 0) = Surplus(N, p)
    BY SurplusIs, RestSteps DEF Left
  <2>3. ASSUME NEW k \in 1..p PROVE ~ (Turn(side, p, k) <= 0)
    BY DEF Turn
  <2>4. QED
    BY <2>1, <2>2, <2>3 DEF Turned
<1>2. ASSUME NEW i \in Nat, i + 1 <= p
      PROVE  Take(Turned(N, side, p, i), chunk(i + 1), b) = Turned(N, side, p, i + 1)
  BY <1>2, TurnStep
<1> HIDE DEF b, chunk, start
<1>3. g = [i \in 0..p |-> next(g, i)]
  <2>1. ASSUME NEW i \in 0..p PROVE g[i] = next(g, i)
    <3>1. CASE i = 0
      BY <1>1, <3>1
    <3>2. CASE i # 0
      <4>1. i - 1 \in Nat /\ (i - 1) + 1 = i /\ i - 1 \in 0..p /\ (i - 1) + 1 <= p
        BY <3>2
      <4>2. Take(Turned(N, side, p, i - 1), chunk(i), b) = Turned(N, side, p, i)
        BY <1>2, <4>1
      <4>3. QED
        BY <3>2, <4>1, <4>2
    <3>3. QED
      BY <3>1, <3>2
  <2>2. g = [i \in 0..p |-> g[i]]
    OBVIOUS
  <2> HIDE DEF g, next
  <2>3. QED
    BY <2>1, <2>2
<1>4. PICK f : f = [i \in 0..p |-> next(f, i)] /\ EqualItems(N, side, p) = f[p].items
  <2>1. \E f : f = [i \in 0..p |-> next(f, i)]
    BY <1>3
  <2>2. QED
    BY <2>1 DEF EqualItems, b, chunk, start
<1> DEFINE T == {i \in Nat : i <= p => f[i] = Turned(N, side, p, i)}
<1>5. 0 \in T
  BY <1>1, <1>4
<1>6. ASSUME NEW i \in Nat, i \in T PROVE i + 1 \in T
  <2>1. SUFFICES ASSUME i + 1 <= p PROVE f[i + 1] = Turned(N, side, p, i + 1)
    OBVIOUS
  <2>2. i + 1 \in 0..p /\ i + 1 # 0 /\ (i + 1) - 1 = i /\ i <= p
    BY <2>1
  <2>3. f[i + 1] = Take(f[i], chunk(i + 1), b)
    BY <1>4, <2>2
  <2>4. f[i] = Turned(N, side, p, i)
    BY <1>6, <2>2
  <2>5. QED
    BY <1>2, <2>1, <2>3, <2>4
<1>7. \A i \in Nat : i \in T
  <2> HIDE DEF T
  <2>1. QED
    BY <1>5, <1>6, SetInductionNat
<1>8. p \in T /\ p <= p
  BY <1>7
<1>9. f[p] = Turned(N, side, p, p)
  BY <1>8
<1>10. QED
  BY <1>4, <1>9

\* A turn takes the whole larger size while as much is left, then what is left.
LEMMA KeepsIs ==
  ASSUME NEW N \in Nat, NEW p \in Nat \ {0}, NEW side \in Sides, NEW k \in 1..p
  PROVE  /\ Turn(side, p, k) \in 1..p
         /\ Left(N, p, Turn(side, p, k)) \in Nat /\ Left(N, p, Turn(side, p, k) - 1) \in Nat
         /\ Keeps(N, side, p, k) =
              N \div p + 1 - (Left(N, p, Turn(side, p, k) - 1) - Left(N, p, Turn(side, p, k)))
         /\ Left(N, p, Turn(side, p, k)) =
              IF Left(N, p, Turn(side, p, k) - 1) >= N \div p + 1
              THEN Left(N, p, Turn(side, p, k) - 1) - (N \div p + 1) ELSE 0
         /\ Keeps(N, side, p, k) \in 0..(N \div p + 1)
<1> DEFINE t == Turn(side, p, k)
           b == N \div p
<1>1. t \in 1..p /\ t - 1 \in Nat /\ (t - 1) + 1 = t
  BY DEF Turn
<1>2. b \in Nat /\ b + 1 \in Nat /\ Surplus(N, p) \in Nat
  BY SurplusIs, Division
<1>3. Keeps(N, side, p, k) = b + 1 - (Left(N, p, t - 1) - Left(N, p, t))
  BY DEF Keeps
<1>4. \A i \in Nat : Left(N, p, i) = Rest(Surplus(N, p), b + 1, i)
  BY DEF Left
<1> HIDE DEF t, b
<1>5. /\ Left(N, p, t - 1) \in Nat
      /\ Left(N, p, t) = IF Left(N, p, t - 1) >= b + 1 THEN Left(N, p, t - 1) - (b + 1) ELSE 0
  <2>1. PICK i \in Nat : t - 1 = i /\ t = i + 1
    BY <1>1
  <2>2. /\ Rest(Surplus(N, p), b + 1, i) \in Nat
        /\ Rest(Surplus(N, p), b + 1, i + 1) =
             IF Rest(Surplus(N, p), b + 1, i) >= b + 1
             THEN Rest(Surplus(N, p), b + 1, i) - (b + 1) ELSE 0
    BY <1>2, RestSteps, Zenon
  <2>3. Left(N, p, i) = Rest(Surplus(N, p), b + 1, i)
        /\ Left(N, p, i + 1) = Rest(Surplus(N, p), b + 1, i + 1)
    BY <1>4
  <2>4. QED
    BY <2>1, <2>2, <2>3
<1>6. Left(N, p, t) \in Nat /\ b + 1 - (Left(N, p, t - 1) - Left(N, p, t)) \in 0..(b + 1)
  BY <1>2, <1>5
<1>7. QED
  BY <1>1, <1>3, <1>5, <1>6 DEF t, b

\* The chunks in a row, end at rising bounds from 0 to N.
Ends(ends, items, N, p) ==
  /\ ends \in [0..p -> Nat] /\ ends[0] = 0 /\ ends[p] = N
  /\ \A k \in 1..p : items[k] \in Nat /\ ends[k] = ends[k - 1] + items[k]

LEMMA EqualEnds ==
  ASSUME NEW N \in Nat, NEW p \in Nat \ {0}, NEW side \in Sides
  PROVE  \E ends : Ends(ends, EqualItems(N, side, p), N, p)
<1> DEFINE b == N \div p
           s == Surplus(N, p)
<1>1. b \in Nat /\ s \in Nat /\ p * (b + 1) = N + s /\ Left(N, p, p) = 0 /\ Left(N, p, 0) = s
  BY Division, SurplusIs, RestSteps DEF Left
<1>2. \A k \in Nat : k * b \in Nat /\ (k + 1) * b = k * b + b /\ k * (b + 1) = k * b + k
  BY <1>1, Distribute
<1>3. b * p = p * b /\ 0 * b = 0 /\ p * b \in Nat
  BY <1>1
<1>4. CASE N = b * p
  <2> DEFINE ends == [k \in 0..p |-> k * b]
  <2>1. EqualItems(N, side, p) = [k \in 1..p |-> b]
    BY <1>4 DEF EqualItems
  <2> HIDE DEF b
  <2>2. ends \in [0..p -> Nat] /\ ends[0] = 0 /\ ends[p] = N
    BY <1>2, <1>3, <1>4
  <2>3. ASSUME NEW k \in 1..p PROVE ends[k] = ends[k - 1] + b
    <3>1. k - 1 \in Nat /\ (k - 1) + 1 = k /\ k - 1 \in 0..p /\ k \in 0..p
      OBVIOUS
    <3>2. k * b = (k - 1) * b + b
      BY <1>2, <3>1
    <3>3. QED
      BY <3>1, <3>2
  <2> HIDE DEF ends
  <2>4. \A k \in 1..p : /\ EqualItems(N, side, p)[k] \in Nat
                         /\ ends[k] = ends[k - 1] + EqualItems(N, side, p)[k]
    BY <1>1, <2>1, <2>3
  <2> HIDE DEF ends
  <2>5. QED
    BY <2>2, <2>4 DEF Ends
<1>5. CASE N # b * p
  <2> DEFINE L(i) == Left(N, p, i)
             end(k) == IF side = "right" THEN k * b + k - L(p - k) ELSE k * b + k - s + L(k)
             ends == [k \in 0..p |-> end(k)]
  <2>1. \A k \in 1..p : EqualItems(N, side, p)[k] = Keeps(N, side, p, k)
    <3>1. TAKE k \in 1..p
    <3>2. EqualItems(N, side, p) = Turned(N, side, p, p).items
      BY <1>5, EqualIs
    <3>3. Turned(N, side, p, p).items =
            [j \in 1..p |-> IF Turn(side, p, j) <= p THEN Keeps(N, side, p, j) ELSE N \div p + 1]
      BY DEF Turned
    <3>4. Turn(side, p, k) <= p
      BY DEF Turn
    <3>5. QED
      BY <3>2, <3>3, <3>4
  <2>2. ASSUME NEW k \in 0..p
        PROVE  L(k) \in Nat /\ k * b + k - L(p - k) \in Nat /\ k * b + k - s + L(k) \in Nat
    <3>1. k \in Nat /\ p - k \in Nat /\ k * b \in Nat /\ (p - k) * b \in Nat
      BY <1>1, Distribute
    <3>2. k * (b + 1) = k * b + k /\ (p - k) * (b + 1) = (p - k) * b + (p - k)
      BY <1>1, <3>1, Distribute
    <3>3. (p - k) * b = p * b - k * b
      BY <1>1, <3>1, Subtract
    <3>4. p * (b + 1) = p * b + p
      BY <1>2
    <3>5. /\ L(k) = IF s > k * (b + 1) THEN s - k * (b + 1) ELSE 0
          /\ L(p - k) = IF s > (p - k) * (b + 1) THEN s - (p - k) * (b + 1) ELSE 0
      BY DEF Left, Rest
    <3> HIDE DEF L, b, s
    <3>6. QED
      BY <1>1, <1>3, <3>1, <3>2, <3>3, <3>4, <3>5
  <2>3. ends \in [0..p -> Nat]
    BY <2>2
  <2>4. ends[0] = 0 /\ ends[p] = N
    <3>1. p - p = 0 /\ p - 0 = p
      OBVIOUS
    <3>2. p * (b + 1) = p * b + p
      BY <1>2
    <3>3. end(0) = (IF side = "right" THEN 0 * b + 0 - L(p) ELSE 0 * b + 0 - s + L(0))
      BY <3>1
    <3>4. end(p) = (IF side = "right" THEN p * b + p - L(0) ELSE p * b + p - s + L(p))
      BY <3>1
    <3>5. L(0) = s /\ L(p) = 0 /\ 0 * b = 0 /\ p * b \in Nat /\ p * b + p - s = N
      BY <1>1, <1>3, <3>2
    <3> HIDE DEF b, s, L, end
    <3>6. N - 0 = N /\ N + 0 = N /\ 0 + 0 - s = 0 - s /\ s \in Nat
      BY <1>1
    <3>7. end(0) = 0 /\ end(p) = N
      BY <1>1, <3>3, <3>4, <3>5, <3>6
    <3>8. ends[0] = end(0) /\ ends[p] = end(p)
      OBVIOUS
    <3>9. QED
      BY <3>7, <3>8
  <2>5. ASSUME NEW k \in 1..p
        PROVE  /\ EqualItems(N, side, p)[k] \in Nat
               /\ ends[k] = ends[k - 1] + EqualItems(N, side, p)[k]
    <3>1. k - 1 \in Nat /\ (k - 1) + 1 = k /\ k - 1 \in 0..p /\ k \in 0..p
      OBVIOUS
    <3>2. k * b = (k - 1) * b + b /\ (k - 1) * b \in Nat
      BY <1>2, <3>1
    <3>3. /\ Keeps(N, side, p, k) = b + 1 - (L(Turn(side, p, k) - 1) - L(Turn(side, p, k)))
          /\ Keeps(N, side, p, k) \in 0..(b + 1)
      <4>1. /\ Turn(side, p, k) \in 1..p
            /\ Left(N, p, Turn(side, p, k)) \in Nat /\ Left(N, p, Turn(side, p, k) - 1) \in Nat
            /\ Keeps(N, side, p, k) =
                 N \div p + 1 - (Left(N, p, Turn(side, p, k) - 1) - Left(N, p, Turn(side, p, k)))
            /\ Left(N, p, Turn(side, p, k)) =
                 IF Left(N, p, Turn(side, p, k) - 1) >= N \div p + 1
                 THEN Left(N, p, Turn(side, p, k) - 1) - (N \div p + 1) ELSE 0
            /\ Keeps(N, side, p, k) \in 0..(N \div p + 1)
        BY KeepsIs
      <4>2. QED
        BY <4>1, Zenon
    <3>4. /\ L(k) \in Nat /\ L(k - 1) \in Nat /\ L(p - k) \in Nat /\ L(p - (k - 1)) \in Nat
      <4>1. p - k \in 0..p /\ p - (k - 1) \in 0..p
        OBVIOUS
      <4>2. QED
        BY <2>2, <3>1, <4>1
    <3>5. Turn(side, p, k) = IF side = "right" THEN p - (k - 1) ELSE k
      BY DEF Turn
    <3>6. p - (k - 1) - 1 = p - k
      OBVIOUS
    <3> HIDE DEF L, b, s
    <3>7. end(k) = end(k - 1) + Keeps(N, side, p, k)
      <4>1. CASE side = "right"
        <5>1. Keeps(N, side, p, k) = b + 1 - (L(p - k) - L(p - (k - 1)))
          BY <3>3, <3>5, <3>6, <4>1
        <5>2. QED
          BY <1>1, <3>1, <3>2, <3>4, <4>1, <5>1
      <4>2. CASE side # "right"
        <5>1. Keeps(N, side, p, k) = b + 1 - (L(k - 1) - L(k))
          BY <3>3, <3>5, <4>2
        <5>2. QED
          BY <1>1, <3>1, <3>2, <3>4, <4>2, <5>1
      <4>3. QED
        BY <4>1, <4>2
    <3>8. ends[k] = end(k) /\ ends[k - 1] = end(k - 1)
      BY <3>1
    <3> HIDE DEF end, ends
    <3>9. Keeps(N, side, p, k) \in Nat
      BY <1>1, <3>3
    <3>10. QED
      BY <2>1, <3>7, <3>8, <3>9
  <2> HIDE DEF ends
  <2>6. QED
    BY <2>3, <2>4, <2>5 DEF Ends
<1>6. QED
  BY <1>4, <1>5

\* As above, without the case that gives the size.
LEMMA BalancedBound ==
  ASSUME NEW N \in Nat, NEW p \in Nat \ {0}, NEW side \in Sides, NEW k \in 1..p
  PROVE  /\ BalancedItems(N, side, p)[k] \in {N \div p, N \div p + 1}
         /\ Bound(N, side = "right", p, k) =
              Bound(N, side = "right", p, k - 1) + BalancedItems(N, side, p)[k]
<1>1. /\ BalancedItems(N, side, p)[k] =
            IF Extra(N, side = "right", p, k) = Extra(N, side = "right", p, k - 1)
            THEN N \div p ELSE N \div p + 1
      /\ Extra(N, side = "right", p, k) # Extra(N, side = "right", p, k - 1) <=>
           IF side = "right" THEN k <= N % p ELSE k > p - (N % p)
      /\ Bound(N, side = "right", p, k) =
           Bound(N, side = "right", p, k - 1) + BalancedItems(N, side, p)[k]
  BY BalancedIs
<1>2. QED
  BY <1>1

LEMMA DivisionsAre ==
  ASSUME NEW div \in Divisions
  PROVE  /\ div[2] \in Sides
         /\ div[1] \in {"balance", "cycle", "equal"}
         /\ div[1] = "cycle" => div[2] = "right"
BY DEF Divisions, Sides

LEMMA ChunkEnds ==
  ASSUME NEW N \in Nat, NEW p \in Nat \ {0}, NEW div \in Divisions
  PROVE  \E ends : Ends(ends, ChunkItems(N, div, p), N, p)
<1>1. CASE div[1] = "equal"
  <2>1. ChunkItems(N, div, p) = EqualItems(N, div[2], p)
    BY <1>1 DEF ChunkItems
  <2>2. div[2] \in Sides
    BY DivisionsAre
  <2>3. \E ends : Ends(ends, EqualItems(N, div[2], p), N, p)
    BY <2>2, EqualEnds
  <2>4. QED
    BY <2>1, <2>3
<1>2. CASE div[1] # "equal"
  <2> DEFINE first == div[2] = "right"
             items == BalancedItems(N, div[2], p)
             ends == [k \in 0..p |-> Bound(N, first, p, k)]
  <2>1. ChunkItems(N, div, p) = items
    BY <1>2 DEF ChunkItems
  <2>2. first \in BOOLEAN
    OBVIOUS
  <2>3. div[2] \in Sides
    BY DivisionsAre
  <2>4. ASSUME NEW k \in 1..p
        PROVE  /\ items[k] \in {N \div p, N \div p + 1}
               /\ Bound(N, first, p, k) = Bound(N, first, p, k - 1) + items[k]
    <3>1. PICK side \in Sides : side = div[2]
      BY <2>3
    <3>2. /\ BalancedItems(N, side, p)[k] \in {N \div p, N \div p + 1}
          /\ Bound(N, side = "right", p, k) =
               Bound(N, side = "right", p, k - 1) + BalancedItems(N, side, p)[k]
      BY BalancedBound
    <3>3. QED
      BY <3>1, <3>2, Zenon
  <2>5. N \div p \in Nat /\ N \div p + 1 \in Nat
    BY Division
  <2> HIDE DEF items, first
  <2>6. \A k \in 0..p : Bound(N, first, p, k) \in Nat
    BY <2>2, BoundSteps
  <2>7. Bound(N, first, p, 0) = 0 /\ Bound(N, first, p, p) = N
    BY <2>2, BoundSteps
  <2>8. ends \in [0..p -> Nat] /\ ends[0] = 0 /\ ends[p] = N
    BY <2>6, <2>7
  <2>9. ASSUME NEW k \in 1..p PROVE items[k] \in Nat /\ ends[k] = ends[k - 1] + items[k]
    <3>1. k \in 0..p /\ k - 1 \in 0..p
      OBVIOUS
    <3>2. QED
      BY <2>4, <2>5, <3>1
  <2> HIDE DEF ends
  <2>10. Ends(ends, items, N, p)
    BY <2>8, <2>9 DEF Ends
  <2>11. QED
    BY <2>1, <2>10
<1>3. QED
  BY <1>1, <1>2

\* The bounds are what cumsum() makes of the items, and they do not fall.
LEMMA EndsAreSums ==
  ASSUME NEW N \in Nat, NEW p \in Nat, NEW items, NEW ends, Ends(ends, items, N, p)
  PROVE  /\ \A k \in 0..p : ends[k] \in 0..N /\ Cumulated(items, k) = ends[k]
         /\ \A j, k \in 0..p : j <= k => ends[j] <= ends[k]
<1>1. \A k \in 0..p : Cumulated(items, k) = ends[k]
  <2>1. ends[0] = 0 /\ \A k \in 1..p : ends[k] = ends[k - 1] + items[k]
    BY DEF Ends
  <2>2. QED
    BY <2>1, CumulatedIs
<1> DEFINE bound == [k \in Nat |-> IF k <= p THEN ends[k] ELSE N]
<1>2. \A k \in 0..p : ends[k] \in Nat
  BY DEF Ends
<1>3. bound \in [Nat -> Nat]
  BY <1>2
<1>4. ASSUME NEW r \in Nat, r < p PROVE bound[r] <= bound[r + 1]
  <2>1. r + 1 \in 1..p /\ (r + 1) - 1 = r /\ r \in 0..p /\ r + 1 \in 0..p
    BY <1>4
  <2>2. items[r + 1] \in Nat /\ ends[r + 1] = ends[r] + items[r + 1]
    BY <2>1 DEF Ends
  <2>3. bound[r] = ends[r] /\ bound[r + 1] = ends[r + 1]
    BY <2>1
  <2>4. QED
    BY <1>2, <2>1, <2>2, <2>3
<1>5. \A k \in 0..p : bound[k] = ends[k]
  OBVIOUS
<1> HIDE DEF bound
<1>6. \A j, k \in Nat : j <= k /\ k <= p => bound[j] <= bound[k]
  BY <1>3, <1>4, BoundsRise
<1>7. \A j, k \in 0..p : j <= k => ends[j] <= ends[k]
  BY <1>5, <1>6
<1>8. ends[p] = N
  BY DEF Ends
<1>9. \A k \in 0..p : ends[k] \in 0..N
  <2>1. TAKE k \in 0..p
  <2>2. p \in 0..p /\ k <= p
    OBVIOUS
  <2>3. ends[k] <= ends[p]
    BY <1>7, <2>2
  <2>4. QED
    BY <1>2, <1>8, <2>3
<1>10. QED
  BY <1>1, <1>7, <1>9

------------------------------------------------------------------------------
(* The vectors of items                                                    *)

\* "balance" and "equal": a rank has the items after those of the ranks below it.
LEMMA ConsecutiveVectors ==
  ASSUME NEW N \in Nat, NEW p \in Nat \ {0}, NEW div \in Divisions, div[1] # "cycle",
         NEW ends, Ends(ends, ChunkItems(N, div, p), N, p), NEW r \in 0..(p - 1)
  PROVE  /\ ends[r] \in Nat /\ ends[r + 1] \in Nat /\ ends[r] <= ends[r + 1]
         /\ ChunkItems(N, div, p)[r + 1] = ends[r + 1] - ends[r]
         /\ ChunkVector(N, div, p, r) = [i \in 1..(ends[r + 1] - ends[r]) |-> ends[r] + i]
         /\ ToSet(ChunkVector(N, div, p, r)) = (ends[r] + 1)..ends[r + 1]
         /\ ChunkSeq(N, div, p, r) = <<ends[r] + 1, ends[r + 1], 1>>
<1> DEFINE items == ChunkItems(N, div, p)
<1>1. r \in 0..p /\ r + 1 \in 0..p /\ r + 1 \in 1..p /\ (r + 1) - 1 = r
  OBVIOUS
<1>2. /\ ends[r] \in Nat /\ ends[r + 1] \in Nat /\ items[r + 1] \in Nat
      /\ ends[r + 1] = ends[r] + items[r + 1]
  BY <1>1 DEF Ends
<1>3. Cumulated(items, r) = ends[r] /\ Cumulated(items, r + 1) = ends[r + 1]
  BY <1>1, EndsAreSums
<1>4. ChunkVector(N, div, p, r) = [i \in 1..items[r + 1] |-> Cumulated(items, r) + i]
  BY DEF ChunkVector
<1>5. ChunkSeq(N, div, p, r) = <<Cumulated(items, r) + 1, Cumulated(items, r + 1), 1>>
  BY DEF ChunkSeq
<1> HIDE DEF items
<1>6. items[r + 1] = ends[r + 1] - ends[r] /\ ends[r] <= ends[r + 1]
  BY <1>2
<1>7. ChunkVector(N, div, p, r) = [i \in 1..(ends[r + 1] - ends[r]) |-> ends[r] + i]
  BY <1>3, <1>4, <1>6
<1>8. ToSet(ChunkVector(N, div, p, r)) = (ends[r] + 1)..ends[r + 1]
  <2> DEFINE v == [i \in 1..(ends[r + 1] - ends[r]) |-> ends[r] + i]
  <2>1. ToSet(v) = {v[i] : i \in 1..(ends[r + 1] - ends[r])}
    BY DEF ToSet
  <2>2. ASSUME NEW i \in 1..(ends[r + 1] - ends[r]) PROVE v[i] \in (ends[r] + 1)..ends[r + 1]
    BY <1>2
  <2>3. ASSUME NEW x \in (ends[r] + 1)..ends[r + 1]
        PROVE  x - ends[r] \in 1..(ends[r + 1] - ends[r]) /\ v[x - ends[r]] = x
    BY <1>2
  <2> HIDE DEF v
  <2>4. ToSet(v) = (ends[r] + 1)..ends[r + 1]
    BY <2>1, <2>2, <2>3
  <2>5. QED
    BY <1>7, <2>4 DEF v
<1>9. QED
  BY <1>2, <1>3, <1>5, <1>6, <1>7, <1>8 DEF items

Cycle == <<"cycle", "right">>

LEMMA ModuloOfMultiple ==
  ASSUME NEW a \in Nat, NEW p \in Nat \ {0}
  PROVE  a % p = 0 <=> \E j \in Nat : a = j * p
<1>1. ASSUME a % p = 0 PROVE \E j \in Nat : a = j * p
  <2>1. a \div p \in Nat /\ a = p * (a \div p) + (a % p)
    BY Division
  <2>2. PICK j \in Nat : j = a \div p
    BY <2>1
  <2>3. a = j * p
    BY <1>1, <2>1, <2>2
  <2>4. QED
    BY <2>3
<1>2. ASSUME NEW j \in Nat, a = j * p PROVE a % p = 0
  <2>1. PICK d \in Nat, m \in Nat : d = a \div p /\ m = a % p /\ m < p /\ a = p * d + m
    BY Division
  <2>2. m = p * (j - d)
    BY <1>2, <2>1
  <2>3. CASE j - d >= 1
    <3>1. p * (j - d) >= p
      BY <2>3
    <3>2. QED
      BY <2>1, <2>2, <3>1
  <2>4. CASE j - d <= 0
    <3>1. p * (j - d) <= 0
      BY <2>4
    <3>2. QED
      BY <2>1, <2>2, <3>1
  <2>5. QED
    BY <2>3, <2>4
<1>3. QED
  BY <1>1, <1>2

\* "cycle": rank r has as many items as there are numbers r + 1, r + 1 + p, ...
\* up to N.
LEMMA CycleItems ==
  ASSUME NEW N \in Nat, NEW p \in Nat \ {0}, NEW r \in 0..(p - 1)
  PROVE  /\ ChunkItems(N, Cycle, p)[r + 1] \in Nat
         /\ \A j \in Nat : j < ChunkItems(N, Cycle, p)[r + 1] <=> r + 1 + j * p <= N
<1> DEFINE b == N \div p
           m == N % p
           n == ChunkItems(N, Cycle, p)[r + 1]
<1>1. b \in Nat /\ m \in Nat /\ m < p /\ N = p * b + m /\ p * b \in Nat /\ b * p = p * b
  BY Division
<1>2. n = IF r + 1 <= m THEN b + 1 ELSE b
  <2>1. ChunkItems(N, Cycle, p) = BalancedItems(N, "right", p)
    BY DEF ChunkItems, Cycle
  <2>2. r + 1 \in 1..p /\ "right" \in Sides
    BY DEF Sides
  <2> DEFINE e(k) == Extra(N, "right" = "right", p, k)
  <2>3. PICK k \in 1..p : k = r + 1
    BY <2>2
  <2>4. /\ BalancedItems(N, "right", p)[k] = IF e(k) = e(k - 1) THEN b ELSE b + 1
        /\ e(k) # e(k - 1) <=> k <= m
    BY <2>2, <2>3, BalancedIs DEF b, m
  <2> HIDE DEF e
  <2>5. QED
    BY <2>1, <2>3, <2>4 DEF n
<1> HIDE DEF b, m, n
<1>3. n \in Nat
  BY <1>1, <1>2
<1>4. ASSUME NEW j \in Nat PROVE j < n <=> r + 1 + j * p <= N
  <2>1. j * p \in Nat
    OBVIOUS
  <2>2. CASE j < b
    <3>1. PICK d \in Nat : b = j + 1 + d
      <4>1. b - j - 1 \in Nat /\ b = j + 1 + (b - j - 1)
        BY <1>1, <2>2
      <4>2. QED
        BY <4>1
    <3>2. b * p = j * p + p + d * p /\ d * p \in Nat
      BY <3>1
    <3>3. QED
      BY <1>1, <1>2, <2>1, <2>2, <3>2
  <2>3. CASE j = b
    <3>1. j * p = p * b
      BY <1>1, <2>3
    <3>2. QED
      BY <1>1, <1>2, <2>1, <2>3, <3>1
  <2>4. CASE j > b
    <3>1. PICK d \in Nat : j = b + 1 + d
      <4>1. j - b - 1 \in Nat /\ j = b + 1 + (j - b - 1)
        BY <1>1, <2>4
      <4>2. QED
        BY <4>1
    <3>2. j * p = b * p + p + d * p /\ d * p \in Nat
      BY <1>1, <3>1
    <3>3. QED
      BY <1>1, <1>2, <2>1, <2>4, <3>2
  <2>5. QED
    BY <1>1, <2>2, <2>3, <2>4
<1>5. QED
  BY <1>3, <1>4 DEF n

\* The first item of rank r is r + 1: cumsum(items > 0) counts the ranks.
LEMMA CycleVectors ==
  ASSUME NEW N \in Nat, NEW p \in Nat \ {0}, NEW r \in 0..(p - 1)
  PROVE  ChunkVector(N, Cycle, p, r) =
           [i \in 1..ChunkItems(N, Cycle, p)[r + 1] |-> r + 1 + (i - 1) * p]
<1> DEFINE items == ChunkItems(N, Cycle, p)
           some == [k \in 1..p |-> IF items[k] > 0 THEN 1 ELSE 0]
           first == Cumulated(some, r + 1)
<1>1. ChunkVector(N, Cycle, p, r) = [i \in 1..items[r + 1] |-> first + (i - 1) * p]
  BY DEF ChunkVector, Cycle
<1>2. \A k \in 1..p : items[k] \in Nat /\ (items[k] > 0 <=> k <= N)
  <2>1. TAKE k \in 1..p
  <2>2. k - 1 \in 0..(p - 1) /\ (k - 1) + 1 = k /\ 0 * p = 0
    OBVIOUS
  <2> HIDE DEF items
  <2>3. items[k] \in Nat /\ (0 < items[k] <=> k <= N)
    <3>1. /\ ChunkItems(N, Cycle, p)[(k - 1) + 1] \in Nat
          /\ 0 < ChunkItems(N, Cycle, p)[(k - 1) + 1] <=> (k - 1) + 1 + 0 * p <= N
      BY <2>2, CycleItems
    <3>2. QED
      BY <2>2, <3>1 DEF items
  <2>4. QED
    BY <2>3
<1> HIDE DEF items
<1>3. CASE r + 1 <= N
  <2> DEFINE sums == [k \in 0..p |-> IF k <= N THEN k ELSE N]
  <2>1. sums[0] = 0
    OBVIOUS
  <2>2. ASSUME NEW k \in 1..p PROVE sums[k] = sums[k - 1] + some[k]
    <3>1. k \in 0..p /\ k - 1 \in 0..p
      OBVIOUS
    <3>2. some[k] = IF k <= N THEN 1 ELSE 0
      BY <1>2
    <3>3. QED
      BY <3>1, <3>2
  <2>3. r + 1 \in 0..p /\ sums[r + 1] = r + 1
    BY <1>3
  <2> HIDE DEF sums, some
  <2>4. Cumulated(some, r + 1) = sums[r + 1]
    BY <2>1, <2>2, <2>3, CumulatedIs
  <2>5. first = r + 1
    BY <2>3, <2>4
  <2> HIDE DEF first
  <2>6. QED
    BY <1>1, <2>5 DEF items
<1>4. CASE ~ (r + 1 <= N)
  <2>1. items[r + 1] = 0
    <3>1. r + 1 \in 1..p
      OBVIOUS
    <3>2. QED
      BY <1>2, <1>4, <3>1
  <2> HIDE DEF first
  <2>2. QED
    BY <1>1, <2>1 DEF items
<1>5. QED
  BY <1>3, <1>4

LEMMA CycleSet ==
  ASSUME NEW N \in Nat, NEW p \in Nat \ {0}, NEW r \in 0..(p - 1)
  PROVE  ToSet(ChunkVector(N, Cycle, p, r)) = {x \in (r + 1)..N : (x - (r + 1)) % p = 0}
<1> DEFINE n == ChunkItems(N, Cycle, p)[r + 1]
           v == [i \in 1..n |-> r + 1 + (i - 1) * p]
           S == {x \in (r + 1)..N : (x - (r + 1)) % p = 0}
<1>1. n \in Nat /\ \A j \in Nat : j < n <=> r + 1 + j * p <= N
  BY CycleItems
<1>2. ChunkVector(N, Cycle, p, r) = v
  BY CycleVectors
<1>3. ToSet(v) = {v[i] : i \in 1..n}
  BY DEF ToSet
<1> HIDE DEF n
<1>4. ASSUME NEW i \in 1..n PROVE v[i] \in S
  <2>1. i - 1 \in Nat /\ i - 1 < n
    BY <1>1
  <2>2. (i - 1) * p \in Nat /\ r + 1 + (i - 1) * p <= N
    BY <1>1, <2>1
  <2>3. v[i] = r + 1 + (i - 1) * p /\ v[i] \in (r + 1)..N /\ v[i] - (r + 1) = (i - 1) * p
    BY <1>1, <2>2
  <2>4. (v[i] - (r + 1)) % p = 0
    BY <2>1, <2>2, <2>3, ModuloOfMultiple
  <2>5. QED
    BY <2>3, <2>4
<1>5. ASSUME NEW x \in S PROVE \E i \in 1..n : v[i] = x
  <2>1. x \in (r + 1)..N /\ x - (r + 1) \in Nat /\ (x - (r + 1)) % p = 0
    OBVIOUS
  <2>2. PICK j \in Nat : x - (r + 1) = j * p
    BY <2>1, ModuloOfMultiple
  <2>3. j < n
    BY <1>1, <2>1, <2>2
  <2>4. j + 1 \in 1..n /\ (j + 1) - 1 = j
    BY <1>1, <2>3
  <2>5. v[j + 1] = x
    BY <2>1, <2>2, <2>4
  <2>6. QED
    BY <2>4, <2>5
<1> HIDE DEF v, S
<1>6. ToSet(v) = S
  BY <1>3, <1>4, <1>5
<1>7. QED
  BY <1>2, <1>6 DEF S

\* Every item is in the chunk of one rank.
LEMMA ItemsCovered ==
  ASSUME NEW N \in Nat, NEW p \in Nat \ {0}, NEW div \in Divisions
  PROVE  /\ \A x \in 1..N : \E r \in 0..(p - 1) : x \in ToSet(ChunkVector(N, div, p, r))
         /\ \A r \in 0..(p - 1) : ToSet(ChunkVector(N, div, p, r)) \subseteq 1..N
         /\ \A r, s \in 0..(p - 1) : r # s =>
              ToSet(ChunkVector(N, div, p, r)) \cap ToSet(ChunkVector(N, div, p, s)) = {}
<1> DEFINE v(r) == ToSet(ChunkVector(N, div, p, r))
<1>1. CASE div[1] = "cycle"
  <2>1. div = Cycle
    BY <1>1 DEF Divisions, Cycle
  <2>2. \A r \in 0..(p - 1) : v(r) = {x \in (r + 1)..N : (x - (r + 1)) % p = 0}
    BY <2>1, CycleSet
  <2> HIDE DEF v
  <2>3. ASSUME NEW x \in 1..N PROVE \E r \in 0..(p - 1) : x \in v(r)
    <3>1. x - 1 \in Nat
      OBVIOUS
    <3>2. PICK d \in Nat, r \in Nat : r < p /\ x - 1 = p * d + r
      BY <3>1, Division
    <3>3. p * d \in Nat /\ d * p = p * d /\ x - (r + 1) = d * p /\ r \in 0..(p - 1)
      BY <3>2
    <3>4. x - (r + 1) \in Nat /\ (x - (r + 1)) % p = 0
      BY <3>3, ModuloOfMultiple
    <3>5. x \in (r + 1)..N
      BY <3>3, <3>4
    <3>6. QED
      BY <2>2, <3>3, <3>4, <3>5
  <2>4. ASSUME NEW r \in 0..(p - 1) PROVE v(r) \subseteq 1..N
    BY <2>2
  <2>5. ASSUME NEW r \in 0..(p - 1), NEW s \in 0..(p - 1), NEW x, x \in v(r), x \in v(s)
        PROVE  r = s
    <3>1. /\ x \in (r + 1)..N /\ x - (r + 1) \in Nat /\ (x - (r + 1)) % p = 0
          /\ x - (s + 1) \in Nat /\ (x - (s + 1)) % p = 0
      BY <2>2, <2>5
    <3>2. PICK j \in Nat : x - (r + 1) = j * p
      BY <3>1, ModuloOfMultiple
    <3>3. PICK k \in Nat : x - (s + 1) = k * p
      BY <3>1, ModuloOfMultiple
    <3>4. CASE j = k
      BY <3>1, <3>2, <3>3, <3>4
    <3>5. CASE j < k
      <4>1. k - j - 1 \in Nat /\ k * p = j * p + p + (k - j - 1) * p /\ (k - j - 1) * p \in Nat
        BY <3>5
      <4>2. QED
        BY <3>1, <3>2, <3>3, <4>1
    <3>6. CASE k < j
      <4>1. j - k - 1 \in Nat /\ j * p = k * p + p + (j - k - 1) * p /\ (j - k - 1) * p \in Nat
        BY <3>6
      <4>2. QED
        BY <3>1, <3>2, <3>3, <4>1
    <3>7. QED
      BY <3>4, <3>5, <3>6
  <2>6. QED
    BY <2>3, <2>4, <2>5 DEF v
<1>2. CASE div[1] # "cycle"
  <2>1. PICK ends : Ends(ends, ChunkItems(N, div, p), N, p)
    BY ChunkEnds
  <2>2. /\ \A k \in 0..p : ends[k] \in 0..N
        /\ \A j, k \in 0..p : j <= k => ends[j] <= ends[k]
    BY <2>1, EndsAreSums
  <2>3. \A r \in 0..(p - 1) : v(r) = (ends[r] + 1)..ends[r + 1]
    BY <1>2, <2>1, ConsecutiveVectors
  <2> HIDE DEF v
  <2>4. ASSUME NEW x \in 1..N PROVE \E r \in 0..(p - 1) : x \in v(r)
    <3> DEFINE bound == [k \in Nat |-> IF k <= p THEN ends[k] ELSE N]
    <3>1. bound \in [Nat -> Nat] /\ bound[0] = 0 /\ bound[p] = N
      BY <2>1, <2>2 DEF Ends
    <3>2. \A k \in 0..p : bound[k] = ends[k]
      OBVIOUS
    <3> HIDE DEF bound
    <3>3. \A k \in Nat : 1 <= k /\ k <= bound[p] =>
            \E r \in 0..(p - 1) : bound[r] < k /\ k <= bound[r + 1]
      BY <3>1, StretchOf
    <3>4. x \in Nat /\ 1 <= x /\ x <= bound[p]
      BY <3>1
    <3>5. PICK r \in 0..(p - 1) : bound[r] < x /\ x <= bound[r + 1]
      BY <3>3, <3>4
    <3>6. r \in 0..p /\ r + 1 \in 0..p
      OBVIOUS
    <3>7. ends[r] < x /\ x <= ends[r + 1] /\ ends[r] \in Nat /\ ends[r + 1] \in Nat
      BY <2>2, <3>2, <3>5, <3>6
    <3>8. x \in (ends[r] + 1)..ends[r + 1]
      BY <3>7
    <3>9. QED
      BY <2>3, <3>8
  <2>5. ASSUME NEW r \in 0..(p - 1) PROVE v(r) \subseteq 1..N
    <3>1. r \in 0..p /\ r + 1 \in 0..p
      OBVIOUS
    <3>2. ends[r] \in 0..N /\ ends[r + 1] \in 0..N
      BY <2>2, <3>1
    <3>3. QED
      BY <2>3, <3>2
  <2>6. ASSUME NEW r \in 0..(p - 1), NEW s \in 0..(p - 1), r < s PROVE v(r) \cap v(s) = {}
    <3>1. r \in 0..p /\ r + 1 \in 0..p /\ s \in 0..p /\ s + 1 \in 0..p /\ r + 1 <= s
      BY <2>6
    <3>2. /\ ends[r + 1] <= ends[s] /\ ends[r + 1] \in Nat /\ ends[s] \in Nat
          /\ ends[r] \in Nat /\ ends[s + 1] \in Nat
      BY <2>2, <3>1
    <3>3. \A x \in v(r) : x <= ends[r + 1] /\ x \in Nat
      BY <2>3, <3>2
    <3>4. \A x \in v(s) : ends[s] < x
      BY <2>3, <3>2
    <3> HIDE DEF v
    <3>5. QED
      BY <3>2, <3>3, <3>4
  <2>7. ASSUME NEW r \in 0..(p - 1), NEW s \in 0..(p - 1), r # s PROVE v(r) \cap v(s) = {}
    <3>1. r < s \/ s < r
      BY <2>7
    <3>2. QED
      BY <2>6, <3>1
  <2>8. QED
    BY <2>4, <2>5, <2>7 DEF v
<1>3. QED
  BY <1>1, <1>2

\* The forms "number", "vector" and "seq" of a chunk describe the same items.
LEMMA FormsAgree ==
  ASSUME NEW N \in Nat, NEW p \in Nat \ {0}, NEW div \in Divisions, NEW r \in 0..(p - 1)
  PROVE  LET v == ChunkVector(N, div, p, r)
             q == ChunkSeq(N, div, p, r) IN
         /\ Len(v) = ChunkItems(N, div, p)[r + 1]
         /\ v # <<>> => ToSet(v) = {i \in q[1]..q[2] : (i - q[1]) % q[3] = 0}
<1> DEFINE v == ChunkVector(N, div, p, r)
           q == ChunkSeq(N, div, p, r)
           n == ChunkItems(N, div, p)[r + 1]
<1>1. CASE div[1] = "cycle"
  <2>1. div = Cycle
    BY <1>1 DEF Divisions, Cycle
  <2>2. v = [i \in 1..n |-> r + 1 + (i - 1) * p]
    BY <2>1, CycleVectors
  <2>3. n \in Nat /\ \A j \in Nat : j < n <=> r + 1 + j * p <= N
    BY <2>1, CycleItems
  <2>4. ToSet(v) = {x \in (r + 1)..N : (x - (r + 1)) % p = 0}
    BY <2>1, CycleSet
  <2>5. q = IF r < N THEN LET last == r + 1 + ((N - r - 1) \div p) * p IN
                          <<r + 1, IF last > N THEN last ELSE N, p>>
            ELSE <<>>
    BY <1>1 DEF ChunkSeq
  <2> HIDE DEF v, q, n
  <2>6. Len(v) = n
    BY <2>2, <2>3
  <2>7. ASSUME v # <<>> PROVE q[1] = r + 1 /\ q[2] = N /\ q[3] = p
    <3>1. 0 < n
      BY <2>2, <2>3, <2>7
    <3>2. r < N
      <4>1. r + 1 + 0 * p <= N
        BY <2>3, <3>1
      <4>2. QED
        BY <4>1
    <3>3. PICK d \in Nat, m \in Nat : d = (N - r - 1) \div p /\ m < p /\ N - r - 1 = p * d + m
      <4>1. N - r - 1 \in Nat
        BY <3>2
      <4>2. QED
        BY <4>1, Division
    <3>4. d * p \in Nat /\ d * p = p * d
      OBVIOUS
    <3>5. q = LET last == r + 1 + d * p IN <<r + 1, IF last > N THEN last ELSE N, p>>
      BY <2>5, <3>2, <3>3
    <3>6. ~ (r + 1 + d * p > N)
      BY <3>2, <3>3, <3>4
    <3>7. q = <<r + 1, N, p>>
      BY <3>5, <3>6
    <3>8. QED
      BY <3>7
  <2>8. QED
    BY <2>4, <2>6, <2>7 DEF v, q, n
<1>2. CASE div[1] # "cycle"
  <2>1. PICK ends : Ends(ends, ChunkItems(N, div, p), N, p)
    BY ChunkEnds
  <2>2. /\ ends[r] \in Nat /\ ends[r + 1] \in Nat /\ ends[r] <= ends[r + 1]
        /\ n = ends[r + 1] - ends[r]
        /\ v = [i \in 1..(ends[r + 1] - ends[r]) |-> ends[r] + i]
        /\ ToSet(v) = (ends[r] + 1)..ends[r + 1]
        /\ q = <<ends[r] + 1, ends[r + 1], 1>>
    BY <1>2, <2>1, ConsecutiveVectors
  <2> HIDE DEF v, q, n
  <2>3. Len(v) = n
    BY <2>2
  <2>4. \A i \in Int : i % 1 = 0
    OBVIOUS
  <2>5. q[1] = ends[r] + 1 /\ q[2] = ends[r + 1] /\ q[3] = 1
    BY <2>2
  <2>6. (ends[r] + 1)..ends[r + 1]
          = {i \in (ends[r] + 1)..ends[r + 1] : (i - (ends[r] + 1)) % 1 = 0}
    BY <2>2, <2>4
  <2>7. QED
    BY <2>2, <2>3, <2>5, <2>6 DEF v, q, n
<1>3. QED
  BY <1>1, <1>2

------------------------------------------------------------------------------
(* The sizes that the manual promises                                      *)

\* The largest chunk: N \div p, rounded up.
LEMMA MostIs ==
  ASSUME NEW N \in Nat, NEW p \in Nat \ {0}
  PROVE  (N + p - 1) \div p = IF N % p = 0 THEN N \div p ELSE N \div p + 1
<1>1. PICK b \in Nat, m \in Nat : b = N \div p /\ m = N % p /\ m < p /\ N = p * b + m
  BY Division
<1>2. N + p - 1 \in Nat
  OBVIOUS
<1>3. PICK d \in Nat, e \in Nat : d = (N + p - 1) \div p /\ e < p /\ N + p - 1 = p * d + e
  BY <1>2, Division
<1>4. p * b \in Nat /\ p * d \in Nat
  OBVIOUS
<1>5. ~ (d < b)
  <2>1. SUFFICES ASSUME d < b PROVE FALSE
    OBVIOUS
  <2>2. b - d - 1 \in Nat /\ p * b = p * d + p + p * (b - d - 1) /\ p * (b - d - 1) \in Nat
    BY <2>1
  <2>3. QED
    BY <1>1, <1>3, <1>4, <2>2
<1>6. ~ (d > b + 1)
  <2>1. SUFFICES ASSUME d > b + 1 PROVE FALSE
    OBVIOUS
  <2>2. d - b - 2 \in Nat /\ p * d = p * b + p + p + p * (d - b - 2) /\ p * (d - b - 2) \in Nat
    BY <2>1
  <2>3. QED
    BY <1>1, <1>3, <1>4, <2>2
<1>7. d = b \/ d = b + 1
  BY <1>5, <1>6
<1>8. CASE d = b
  BY <1>1, <1>3, <1>4, <1>8
<1>9. CASE d = b + 1
  <2>1. p * d = p * b + p
    BY <1>9
  <2>2. m # 0
    BY <1>1, <1>3, <1>4, <2>1
  <2>3. QED
    BY <1>1, <1>3, <1>9, <2>2
<1>10. QED
  BY <1>7, <1>8, <1>9

\* The chunks do not grow away from the side that the smaller ones are on.
SidesOf(items, side, p) ==
  \A i, k \in 1..p : i < k =>
    IF side = "right" THEN items[k] <= items[i] ELSE items[i] <= items[k]

LEMMA BalancedSizes ==
  ASSUME NEW N \in Nat, NEW p \in Nat \ {0}, NEW side \in Sides
  PROVE  /\ SidesOf(BalancedItems(N, side, p), side, p)
         /\ LET most == (N + p - 1) \div p IN
            \A i \in 1..p : BalancedItems(N, side, p)[i] \in {most, most - 1}
<1> DEFINE items == BalancedItems(N, side, p)
           first == side = "right"
           most == (N + p - 1) \div p
<1>1. PICK b \in Nat, m \in Nat : b = N \div p /\ m = N % p /\ m < p /\ N = p * b + m
  BY Division
<1>2. most = IF m = 0 THEN b ELSE b + 1
  BY <1>1, MostIs
<1>3. \A k \in 1..p :
        items[k] = IF (IF side = "right" THEN k <= m ELSE k > p - m) THEN b + 1 ELSE b
  <2>1. TAKE k \in 1..p
  <2> DEFINE e(j) == Extra(N, side = "right", p, j)
  <2>2. /\ items[k] = IF e(k) = e(k - 1) THEN b ELSE b + 1
        /\ e(k) # e(k - 1) <=> IF side = "right" THEN k <= m ELSE k > p - m
    BY <1>1, BalancedIs
  <2> HIDE DEF e, items
  <2>3. QED
    BY <2>2
<1> HIDE DEF items, most
<1>4. SidesOf(items, side, p)
  BY <1>1, <1>3 DEF SidesOf
<1>5. \A i \in 1..p : items[i] \in {most, most - 1}
  BY <1>1, <1>2, <1>3
<1>6. QED
  BY <1>4, <1>5 DEF items, most

\* All chunks of "equal" have the largest size, but for one, and for empty ones.
LEMMA EqualSizes ==
  ASSUME NEW N \in Nat, NEW p \in Nat \ {0}, NEW side \in Sides
  PROVE  /\ SidesOf(EqualItems(N, side, p), side, p)
         /\ LET most == (N + p - 1) \div p IN
            /\ \A i \in 1..p : EqualItems(N, side, p)[i] <= most
            /\ \A i, k \in 1..p : /\ EqualItems(N, side, p)[i] \in 1..(most - 1)
                                  /\ EqualItems(N, side, p)[k] \in 1..(most - 1)
                                  => i = k
<1> DEFINE items == EqualItems(N, side, p)
           most == (N + p - 1) \div p
<1>1. PICK b \in Nat, m \in Nat : b = N \div p /\ m = N % p /\ m < p /\ N = p * b + m
  BY Division
<1>2. most = IF m = 0 THEN b ELSE b + 1
  BY <1>1, MostIs
<1>3. b * p = p * b /\ p * b \in Nat
  OBVIOUS
<1>4. CASE m = 0
  <2>1. N = (N \div p) * p
    BY <1>1, <1>3, <1>4
  <2>2. items = [k \in 1..p |-> b]
    BY <1>1, <2>1 DEF EqualItems
  <2> HIDE DEF items, most
  <2>3. \A k \in 1..p : items[k] = b
    BY <2>2
  <2>4. most = b
    BY <1>2, <1>4
  <2>5. SidesOf(items, side, p)
    BY <2>3 DEF SidesOf
  <2>6. (\A i \in 1..p : items[i] <= most) /\ \A i \in 1..p : items[i] \notin 1..(most - 1)
    BY <2>3, <2>4
  <2>7. QED
    BY <2>5, <2>6 DEF items, most
<1>5. CASE m # 0
  <2> DEFINE t(k) == Turn(side, p, k)
             L(i) == Left(N, p, i)
  <2>1. N # (N \div p) * p
    BY <1>1, <1>3, <1>5
  <2>2. most = b + 1
    BY <1>2, <1>5
  <2>3. \A k \in 1..p : items[k] = Keeps(N, side, p, k)
    <3>1. TAKE k \in 1..p
    <3>2. items = Turned(N, side, p, p).items
      BY <2>1, EqualIs
    <3>3. Turned(N, side, p, p).items =
            [j \in 1..p |-> IF Turn(side, p, j) <= p THEN Keeps(N, side, p, j) ELSE N \div p + 1]
      BY DEF Turned
    <3>4. Turn(side, p, k) <= p
      BY DEF Turn
    <3>5. QED
      BY <3>2, <3>3, <3>4
  <2>4. \A k \in 1..p :
          /\ t(k) \in 1..p /\ L(t(k) - 1) \in Nat /\ L(t(k)) \in Nat
          /\ items[k] = b + 1 - (L(t(k) - 1) - L(t(k)))
          /\ L(t(k)) = IF L(t(k) - 1) >= b + 1 THEN L(t(k) - 1) - (b + 1) ELSE 0
    <3>1. TAKE k \in 1..p
    <3>2. t(k) \in 1..p /\ L(t(k) - 1) \in Nat /\ L(t(k)) \in Nat
      BY KeepsIs
    <3>3. Keeps(N, side, p, k) = N \div p + 1 - (L(t(k) - 1) - L(t(k)))
      BY DEF Keeps
    <3>4. L(t(k)) = IF L(t(k) - 1) >= N \div p + 1 THEN L(t(k) - 1) - (N \div p + 1) ELSE 0
      BY KeepsIs
    <3>5. items[k] = Keeps(N, side, p, k)
      BY <2>3
    <3>6. N \div p = b
      BY <1>1
    <3> HIDE DEF items, t, L
    <3>7. QED
      BY <3>2, <3>3, <3>4, <3>5, <3>6
  <2>5. \A i, j \in Nat : i <= j => L(j) <= L(i)
    <3>1. N \div p + 1 \in Nat /\ Surplus(N, p) \in Nat
      BY SurplusIs
    <3>2. QED
      BY <3>1, RestFalls DEF Left
  <2>6. \A i, k \in 1..p : i < k => IF side = "right" THEN t(k) <= t(i) - 1 ELSE t(i) <= t(k) - 1
    BY DEF Turn
  <2> HIDE DEF items, most, t, L
  \* A later turn finds less, so it takes less.
  <2>7. ASSUME NEW i \in 1..p, NEW k \in 1..p, t(i) <= t(k) - 1
        PROVE  /\ items[i] <= items[k]
               /\ ~ (items[i] \in 1..(most - 1) /\ items[k] \in 1..(most - 1))
    <3>1. t(i) - 1 \in Nat /\ t(i) \in Nat /\ t(k) - 1 \in Nat /\ t(i) - 1 <= t(k) - 1
      BY <2>4, <2>7
    <3>2. L(t(k) - 1) <= L(t(i) - 1) /\ L(t(k) - 1) <= L(t(i))
      BY <2>5, <2>7, <3>1
    <3>3. /\ L(t(i) - 1) \in Nat /\ L(t(i)) \in Nat /\ L(t(k) - 1) \in Nat /\ L(t(k)) \in Nat
          /\ items[i] = b + 1 - (L(t(i) - 1) - L(t(i)))
          /\ items[k] = b + 1 - (L(t(k) - 1) - L(t(k)))
          /\ L(t(i)) = IF L(t(i) - 1) >= b + 1 THEN L(t(i) - 1) - (b + 1) ELSE 0
          /\ L(t(k)) = IF L(t(k) - 1) >= b + 1 THEN L(t(k) - 1) - (b + 1) ELSE 0
      BY <2>4
    <3>4. QED
      BY <2>2, <3>2, <3>3
  <2>8. SidesOf(items, side, p)
    BY <2>6, <2>7 DEF SidesOf
  <2>9. \A i \in 1..p : items[i] <= most
    BY <2>2, <2>4
  <2>10. ASSUME NEW i \in 1..p, NEW k \in 1..p,
                items[i] \in 1..(most - 1), items[k] \in 1..(most - 1), i # k
         PROVE  FALSE
    <3>1. i < k \/ k < i
      BY <2>10
    <3>2. t(i) <= t(k) - 1 \/ t(k) <= t(i) - 1
      BY <2>6, <3>1
    <3>3. QED
      BY <2>7, <2>10, <3>2
  <2>11. QED
    BY <2>8, <2>9, <2>10 DEF items, most
<1>6. QED
  BY <1>4, <1>5

------------------------------------------------------------------------------
(* The invariant of the streams                                            *)

SameStream(x, y) == x.base = y.base /\ x.stream = y.stream

\* n times nextRNGStream(), at once
Jump(x, n) == [x EXCEPT !.stream = @ + n]

\* The state of rank r since its last comm.set.seed(): where each of its streams
\* was left is where the rank is, where the stream was paused, or its beginning.
RankOK(r) ==
  /\ \A n \in DOMAIN streams[r] :
       /\ n \in Nat /\ n > 0
       /\ streams[r][n] \in Positions
       /\ setup.seed # NULL => streams[r][n] = Jump(Seed(setup.seed), n - 1)
  /\ name[r] \in DOMAIN streams[r] \ DOMAIN paused[r]
  /\ DOMAIN paused[r] \subseteq DOMAIN streams[r]
  /\ left[r] = [n \in DOMAIN streams[r] |-> left[r][n]]
  /\ \A n \in DOMAIN streams[r] :
       /\ left[r][n] \in Positions /\ SameStream(left[r][n], streams[r][n])
       /\ left[r][n] = CASE n = name[r] -> random[r]
                         [] n \in DOMAIN paused[r] -> paused[r][n]
                         [] OTHER -> streams[r][n]
  /\ saved[r] # NULL =>
       /\ saved[r].name \in DOMAIN streams[r] /\ saved[r].seed \in Positions
       /\ SameStream(saved[r].seed, streams[r][saved[r].name])

\* Of two ranks with streams of one seed, the higher rank has later streams,
\* unless the same stream was asked for.
RanksApart(r, s) ==
  \A n \in DOMAIN streams[r], m \in DOMAIN streams[s] :
    streams[r][n].base = streams[s][m].base =>
      /\ streams[r][n].stream <= streams[s][m].stream
      /\ setup.how.kind # "same" => streams[r][n].stream < streams[s][m].stream

\* Before the first comm.set.seed() the generators of the ranks are unrelated.
Fresh ==
  /\ setup = NULL
  /\ \A r \in Ranks : random[r].base = r

Prepared ==
  /\ setup \in [how : Setups, seed : Seeds \cup {NULL}]
  /\ \A r \in Ranks : alive[r] => RankOK(r)
  /\ \A r, s \in Ranks : r < s /\ alive[r] /\ alive[s] => RanksApart(r, s)

OneForEachRank ==
  /\ random \in [Ranks -> Positions] /\ alive \in [Ranks -> BOOLEAN]
  /\ name = [r \in Ranks |-> name[r]]
  /\ streams = [r \in Ranks |-> streams[r]]
  /\ paused = [r \in Ranks |-> paused[r]]
  /\ saved = [r \in Ranks |-> saved[r]]
  /\ left = [r \in Ranks |-> left[r]]

RngInv == size \in 1..MaxSize /\ OneForEachRank /\ (Fresh \/ Prepared)

------------------------------------------------------------------------------
(* Jumps and the streams of a rank                                         *)

LEMMA JumpIs ==
  ASSUME NEW x \in Positions, NEW n \in Nat
  PROVE  /\ Jump(x, n) \in Positions
         /\ Jump(x, n).base = x.base /\ Jump(x, n).stream = x.stream + n
         /\ Jump(x, 0) = x
BY DEF Positions, Jump

LEMMA JumpsAdd ==
  ASSUME NEW x \in Positions, NEW a \in Nat, NEW b \in Nat
  PROVE  Jump(Jump(x, a), b) = Jump(x, a + b)
<1>1. ASSUME NEW y \in Positions, NEW n \in Nat
      PROVE  Jump(y, n) = [base |-> y.base, stream |-> y.stream + n, pos |-> y.pos]
  BY DEF Positions, Jump
<1>2. Jump(x, a) \in Positions /\ Jump(x, a) = [base |-> x.base, stream |-> x.stream + a, pos |-> x.pos]
  BY <1>1, JumpIs
<1>3. /\ Jump(Jump(x, a), b) = [base |-> x.base, stream |-> (x.stream + a) + b, pos |-> x.pos]
      /\ Jump(x, a + b) = [base |-> x.base, stream |-> x.stream + (a + b), pos |-> x.pos]
  BY <1>1, <1>2
<1>4. (x.stream + a) + b = x.stream + (a + b)
  BY DEF Positions
<1> QED
  BY <1>3, <1>4

LEMMA OneJump ==
  ASSUME NEW x \in Positions
  PROVE  nextRNGStream(x) = Jump(x, 1)
BY DEF Positions, Jump, nextRNGStream

\* A loop from "from" with nextRNGStream() in it is i jumps on after i turns.
LEMMA LoopJumps ==
  ASSUME NEW from \in Positions, NEW n \in Nat, NEW f, f[0] = from,
         \A i \in Nat : i + 1 <= n => f[i + 1] = nextRNGStream(f[i])
  PROVE  \A i \in 0..n : f[i] = Jump(from, i)
<1> DEFINE T == {i \in Nat : i <= n => f[i] = Jump(from, i)}
<1>1. 0 \in T
  BY JumpIs
<1>2. ASSUME NEW i \in Nat, i \in T PROVE i + 1 \in T
  <2>1. SUFFICES ASSUME i + 1 <= n PROVE f[i + 1] = Jump(from, i + 1)
    OBVIOUS
  <2>2. f[i] = Jump(from, i) /\ f[i] \in Positions
    BY <1>2, <2>1, JumpIs
  <2>3. f[i + 1] = Jump(f[i], 1)
    BY <2>1, <2>2, OneJump
  <2>4. Jump(Jump(from, i), 1) = Jump(from, i + 1)
    BY JumpsAdd
  <2> QED
    BY <2>2, <2>3, <2>4
<1>3. \A i \in Nat : i \in T
  <2> HIDE DEF T
  <2> QED
    BY <1>1, <1>2, SetInductionNat
<1> QED
  BY <1>3

\* The loop that skips, and the loop over the streams that are asked for.
LEMMA SkipIs ==
  ASSUME NEW x \in Positions, NEW n \in Nat
  PROVE  Skip(x, n) = Jump(x, n)
<1> DEFINE next(f, i) == IF i = 0 THEN x ELSE nextRNGStream(f[i - 1])
           g == [i \in 0..n |-> Jump(x, i)]
<1>1. g = [i \in 0..n |-> next(g, i)]
  <2>1. ASSUME NEW i \in 0..n PROVE g[i] = next(g, i)
    <3>1. CASE i = 0
      BY <3>1, JumpIs
    <3>2. CASE i # 0
      <4>1. i - 1 \in 0..n /\ i - 1 \in Nat /\ (i - 1) + 1 = i
        BY <3>2
      <4>2. g[i - 1] = Jump(x, i - 1) /\ Jump(x, i - 1) \in Positions
        BY <4>1, JumpIs
      <4>3. nextRNGStream(g[i - 1]) = Jump(Jump(x, i - 1), 1)
        BY <4>2, OneJump
      <4>4. Jump(Jump(x, i - 1), 1) = Jump(x, i)
        BY <4>1, JumpsAdd
      <4> QED
        BY <3>2, <4>3, <4>4
    <3> QED
      BY <3>1, <3>2
  <2>2. g = [i \in 0..n |-> g[i]]
    OBVIOUS
  <2> HIDE DEF g, next
  <2> QED
    BY <2>1, <2>2
<1>2. PICK f : f = [i \in 0..n |-> next(f, i)] /\ Skip(x, n) = f[n]
  <2>1. \E f : f = [i \in 0..n |-> next(f, i)]
    BY <1>1
  <2> QED
    BY <2>1 DEF Skip
<1>3. f[0] = x
  BY <1>2
<1>4. ASSUME NEW i \in Nat, i + 1 <= n PROVE f[i + 1] = nextRNGStream(f[i])
  <2>1. i + 1 \in 0..n /\ i + 1 # 0 /\ (i + 1) - 1 = i
    BY <1>4
  <2> QED
    BY <1>2, <2>1
<1>5. \A i \in 0..n : f[i] = Jump(x, i)
  <2> HIDE DEF next, g
  <2> QED
    BY <1>3, <1>4, LoopJumps
<1> QED
  BY <1>2, <1>5

LEMMA SeedsAre ==
  ASSUME NEW x \in Positions, NEW count \in Nat
  PROVE  \A k \in 1..count : SeedsFrom(x, count)[k] = Jump(x, k - 1)
<1> DEFINE next(f, k) == IF k = 1 THEN x ELSE nextRNGStream(f[k - 1])
           g == [k \in 1..count |-> Jump(x, k - 1)]
<1>1. g = [k \in 1..count |-> next(g, k)]
  <2>1. ASSUME NEW k \in 1..count PROVE g[k] = next(g, k)
    <3>1. CASE k = 1
      <4>1. g[k] = Jump(x, 0)
        BY <3>1
      <4> QED
        BY <3>1, <4>1, JumpIs
    <3>2. CASE k # 1
      <4>1. k - 1 \in 1..count /\ k - 2 \in Nat /\ (k - 1) - 1 = k - 2 /\ (k - 2) + 1 = k - 1
        BY <3>2
      <4>2. g[k - 1] = Jump(x, k - 2) /\ Jump(x, k - 2) \in Positions
        BY <4>1, JumpIs
      <4>3. nextRNGStream(g[k - 1]) = Jump(Jump(x, k - 2), 1)
        BY <4>2, OneJump
      <4>4. Jump(Jump(x, k - 2), 1) = Jump(x, k - 1)
        BY <4>1, JumpsAdd
      <4> QED
        BY <3>2, <4>3, <4>4
    <3> QED
      BY <3>1, <3>2
  <2>2. g = [k \in 1..count |-> g[k]]
    OBVIOUS
  <2> HIDE DEF g, next
  <2> QED
    BY <2>1, <2>2
<1>2. PICK f : f = [k \in 1..count |-> next(f, k)] /\ SeedsFrom(x, count) = f
  <2>1. \E f : f = [k \in 1..count |-> next(f, k)]
    BY <1>1
  <2> QED
    BY <2>1 DEF SeedsFrom
<1> DEFINE T == {i \in Nat : i + 1 <= count => f[i + 1] = Jump(x, i)}
<1>3. 0 \in T
  <2>1. SUFFICES ASSUME 1 <= count PROVE f[1] = Jump(x, 0)
    OBVIOUS
  <2>2. 1 \in 1..count
    BY <2>1
  <2>3. f[1] = x
    BY <1>2, <2>2
  <2> QED
    BY <2>3, JumpIs
<1>4. ASSUME NEW i \in Nat, i \in T PROVE i + 1 \in T
  <2>1. SUFFICES ASSUME i + 2 <= count PROVE f[i + 2] = Jump(x, i + 1)
    OBVIOUS
  <2>2. f[i + 1] = Jump(x, i) /\ Jump(x, i) \in Positions
    BY <1>4, <2>1, JumpIs
  <2>3. i + 2 \in 1..count /\ i + 2 # 1 /\ (i + 2) - 1 = i + 1
    BY <2>1
  <2>4. f[i + 2] = nextRNGStream(f[i + 1])
    BY <1>2, <2>3
  <2>5. nextRNGStream(f[i + 1]) = Jump(Jump(x, i), 1)
    BY <2>2, OneJump
  <2>6. Jump(Jump(x, i), 1) = Jump(x, i + 1)
    BY JumpsAdd
  <2> QED
    BY <2>4, <2>5, <2>6
<1>5. \A i \in Nat : i \in T
  <2> HIDE DEF T
  <2> QED
    BY <1>3, <1>4, SetInductionNat
<1>6. ASSUME NEW k \in 1..count PROVE f[k] = Jump(x, k - 1)
  <2>1. k - 1 \in Nat /\ (k - 1) + 1 = k /\ (k - 1) + 1 <= count
    BY <1>6
  <2>2. k - 1 \in T
    BY <1>5, <2>1
  <2>3. f[(k - 1) + 1] = Jump(x, k - 1)
    BY <2>1, <2>2
  <2> QED
    BY <2>1, <2>3
<1> QED
  BY <1>2, <1>6

LEMMA SeedIs ==
  ASSUME NEW s \in Seeds
  PROVE  Seed(s) \in Positions /\ Seed(s).base = s
BY DEF Positions, Seed

\* The streams that rank r is given.
Names(s, r) ==
  CASE s.kind = "same" -> {1}
    [] s.kind = "rank" -> {r + 1}
    [] s.kind = "vector" -> ToSet(Wanted(s, r))

LEMMA SetupsAre ==
  ASSUME NEW s \in Setups
  PROVE  /\ s.kind \in {"same", "rank", "vector"}
         /\ s.kind = "vector" => s.N \in Nat /\ s.div \in Divisions
<1>1. CASE s = [kind |-> "same"]
  BY <1>1
<1>2. CASE s = [kind |-> "rank"]
  BY <1>2
<1>3. CASE s \in [kind : {"vector"}, N : 0..MaxItems, div : Divisions]
  <2>1. s.kind = "vector" /\ s.N \in 0..MaxItems /\ s.div \in Divisions
    BY <1>3
  <2>2. MaxItems \in Nat
    BY BoundsAssumption
  <2> QED
    BY <2>1, <2>2
<1> QED
  BY <1>1, <1>2, <1>3 DEF Setups

\* A chunk is a vector of items, from 1 on.
IsVector(v, n) == v = [i \in 1..n |-> v[i]]

LEMMA VectorIs ==
  ASSUME NEW N \in Nat, NEW p \in Nat \ {0}, NEW div \in Divisions, NEW r \in 0..(p - 1)
  PROVE  \E n \in Nat : IsVector(ChunkVector(N, div, p, r), n)
<1> DEFINE v == ChunkVector(N, div, p, r)
<1>1. CASE div[1] = "cycle"
  <2>1. div = Cycle
    BY <1>1 DEF Divisions, Cycle
  <2>2. v = [i \in 1..ChunkItems(N, Cycle, p)[r + 1] |-> r + 1 + (i - 1) * p]
    BY <2>1, CycleVectors
  <2>3. ChunkItems(N, Cycle, p)[r + 1] \in Nat
    BY CycleItems
  <2> QED
    BY <2>2, <2>3 DEF IsVector
<1>2. CASE div[1] # "cycle"
  <2>1. PICK ends : Ends(ends, ChunkItems(N, div, p), N, p)
    BY ChunkEnds
  <2>2. /\ ends[r] \in Nat /\ ends[r + 1] \in Nat /\ ends[r] <= ends[r + 1]
        /\ v = [i \in 1..(ends[r + 1] - ends[r]) |-> ends[r] + i]
    BY <1>2, <2>1, ConsecutiveVectors
  <2> QED
    BY <2>2 DEF IsVector
<1> QED
  BY <1>1, <1>2

LEMMA WantedIs ==
  ASSUME NEW s \in Setups, s.kind = "vector", size \in Nat \ {0}, NEW r \in Ranks
  PROVE  /\ ToSet(Wanted(s, r)) \subseteq 1..s.N
         /\ Sequential(Wanted(s, r)) => Wanted(s, r)[1] \in ToSet(Wanted(s, r))
<1>1. s.N \in Nat /\ s.div \in Divisions
  BY SetupsAre
<1>2. r \in 0..(size - 1)
  BY DEF Ranks
<1>3. ToSet(ChunkVector(s.N, s.div, size, r)) \subseteq 1..s.N
  BY <1>1, <1>2, ItemsCovered
<1>4. \E n \in Nat : IsVector(ChunkVector(s.N, s.div, size, r), n)
  BY <1>1, <1>2, VectorIs
<1>5. Wanted(s, r) # <<>> => 1 \in DOMAIN Wanted(s, r)
  <2>1. PICK n \in Nat : Wanted(s, r) = [i \in 1..n |-> Wanted(s, r)[i]]
    BY <1>4 DEF Wanted, IsVector
  <2>2. n = 0 => Wanted(s, r) = <<>>
    BY <2>1
  <2> QED
    BY <2>1, <2>2
<1> QED
  BY <1>3, <1>5 DEF Wanted, Sequential, ToSet

\* Sequential items are in a row from the first on.
LEMMA InARow ==
  ASSUME NEW v, NEW n \in Nat, IsVector(v, n), ToSet(v) \subseteq Nat, Sequential(v)
  PROVE  /\ n > 0 /\ Len(v) = n /\ DOMAIN v = 1..n
         /\ v[n] - v[1] = n - 1
         /\ \A k \in 1..n : v[k] \in Nat /\ v[k] = v[1] + k - 1
<1>1. Len(v) = n /\ DOMAIN v = 1..n
  BY DEF IsVector
<1>2. n > 0
  <2>1. n = 0 => v = <<>>
    BY DEF IsVector
  <2> QED
    BY <2>1 DEF Sequential
<1>3. \A k \in 1..n : v[k] \in Nat
  BY <1>1 DEF ToSet
<1>4. PICK m \in Int : m = v[n] - v[1] + 1
  BY <1>2, <1>3
<1>5. v = [k \in 1..m |-> v[1] + k - 1]
  BY <1>1, <1>4 DEF Sequential
<1>6. 1..n = 1..m
  BY <1>1, <1>5
<1>7. m = n
  <2>1. n \in 1..m
    BY <1>2, <1>6
  <2>2. m \in 1..n
    BY <1>6, <2>1
  <2> QED
    BY <2>1, <2>2
<1>8. ASSUME NEW k \in 1..n PROVE v[k] = v[1] + k - 1
  BY <1>5, <1>7, <1>8
<1> QED
  BY <1>1, <1>2, <1>3, <1>4, <1>7, <1>8

LEMMA OnlyOne ==
  ASSUME NEW a \in Nat, NEW c \in Nat, a * (c + 1) = a, c # 0
  PROVE  a = 0
<1>1. a * (c + 1) = a * c + a /\ a * c \in Nat
  BY Distribute
<1>2. a * c = 0
  BY <1>1
<1>3. c - 1 \in Nat /\ c - 1 + 1 = c
  OBVIOUS
<1>4. a * c = a * (c - 1) + a /\ a * (c - 1) \in Nat
  BY <1>3, Distribute
<1> QED
  BY <1>2, <1>4

\* With one item each, or all items in a row, a higher rank has later items.
LEMMA ItemsRise ==
  ASSUME NEW N \in Nat, NEW p \in Nat \ {0}, NEW div \in Divisions,
         NEW r \in 0..(p - 1), NEW q \in 0..(p - 1), r < q,
         Sequential(ChunkVector(N, div, p, r)), Sequential(ChunkVector(N, div, p, q)),
         NEW n \in ToSet(ChunkVector(N, div, p, r)), NEW m \in ToSet(ChunkVector(N, div, p, q))
  PROVE  n < m
<1>1. CASE div[1] = "cycle"
  <2>1. div = Cycle
    BY <1>1 DEF Divisions, Cycle
  <2>2. ASSUME NEW k \in 0..(p - 1), Sequential(ChunkVector(N, Cycle, p, k)),
               NEW x \in ToSet(ChunkVector(N, Cycle, p, k))
        PROVE  x = k + 1
    <3> DEFINE L == ChunkItems(N, Cycle, p)[k + 1]
               v == [i \in 1..L |-> k + 1 + (i - 1) * p]
    <3>1. L \in Nat /\ ChunkVector(N, Cycle, p, k) = v
      BY CycleItems, CycleVectors
    <3>2. L > 0 /\ Len(v) = L /\ v[L] - v[1] = L - 1
      <4>1. IsVector(v, L)
        BY DEF IsVector
      <4>2. Cycle \in Divisions /\ ToSet(v) \subseteq Nat
        <5>1. Cycle \in Divisions
          BY DEF Divisions, Cycle
        <5>2. ToSet(v) \subseteq 1..N
          BY <3>1, <5>1, ItemsCovered
        <5> QED
          BY <5>1, <5>2
      <4> HIDE DEF v, L
      <4> QED
        BY <2>2, <3>1, <4>1, <4>2, InARow
    <3>3. Len(v) = L
      BY <3>2
    <3>4. L > 0
      BY <3>2
    <3>5. v[1] = k + 1 + 0 * p /\ v[L] = k + 1 + (L - 1) * p
      BY <3>1, <3>4
    <3>6. (L - 1) * p = L - 1
      BY <3>1, <3>2, <3>3, <3>4, <3>5
    <3>7. p # 1
      OBVIOUS
    <3>8. L = 1
      <4>1. L - 1 \in Nat /\ p - 1 \in Nat /\ p - 1 # 0 /\ p - 1 + 1 = p
        BY <3>1, <3>4, <3>7
      <4>2. L - 1 = 0
        BY <3>6, <4>1, OnlyOne
      <4> QED
        BY <3>1, <4>2
    <3>9. x = v[1]
      BY <3>1, <3>8 DEF ToSet
    <3> QED
      BY <3>5, <3>9
  <2> QED
    BY <2>1, <2>2
<1>2. CASE div[1] # "cycle"
  <2>1. PICK ends : Ends(ends, ChunkItems(N, div, p), N, p)
    BY ChunkEnds
  <2>2. \A j, k \in 0..p : j <= k => ends[j] <= ends[k]
    BY <2>1, EndsAreSums
  <2>3. \A k \in 0..(p - 1) : /\ ends[k] \in Nat /\ ends[k + 1] \in Nat
                              /\ ToSet(ChunkVector(N, div, p, k)) = (ends[k] + 1)..ends[k + 1]
    BY <1>2, <2>1, ConsecutiveVectors
  <2>4. r + 1 \in 0..p /\ q \in 0..p /\ r + 1 <= q
    OBVIOUS
  <2>5. ends[r + 1] <= ends[q]
    BY <2>2, <2>4
  <2>6. n \in (ends[r] + 1)..ends[r + 1] /\ m \in (ends[q] + 1)..ends[q + 1]
    BY <2>3
  <2>7. ends[r] \in Nat /\ ends[r + 1] \in Nat /\ ends[q] \in Nat /\ ends[q + 1] \in Nat
    BY <2>3
  <2> QED
    BY <2>5, <2>6, <2>7
<1> QED
  BY <1>1, <1>2

\* Stream n of a rank that is served begins n - 1 jumps from the main generator.
LEMMA StreamsAre ==
  ASSUME NEW s \in Setups, size \in Nat \ {0}, NEW r \in Ranks, NEW x \in Positions,
         Served(s, r)
  PROVE  /\ DOMAIN StreamsFor(s, x, r) = Names(s, r)
         /\ Names(s, r) \subseteq Nat \ {0}
         /\ FirstName(s, r) \in Names(s, r)
         /\ \A n \in Names(s, r) : StreamsFor(s, x, r)[n] = Jump(x, n - 1)
<1>0. r \in Nat
  BY DEF Ranks
<1>1. CASE s.kind = "same"
  <2>1. StreamsFor(s, x, r) = [k \in {1} |-> x]
    BY <1>1 DEF StreamsFor, Single
  <2>2. Names(s, r) = {1} /\ FirstName(s, r) = 1
    BY <1>1 DEF Names, FirstName
  <2>3. Jump(x, 1 - 1) = x
    BY JumpIs
  <2> QED
    BY <2>1, <2>2, <2>3
<1>2. CASE s.kind = "rank"
  <2>1. StreamsFor(s, x, r) = [k \in {r + 1} |-> Jump(x, r)]
    <3>1. StreamsFor(s, x, r) = [k \in {r + 1} |-> Skip(x, r)]
      BY <1>2 DEF StreamsFor, Single
    <3> QED
      BY <1>0, <3>1, SkipIs
  <2>2. Names(s, r) = {r + 1} /\ FirstName(s, r) = r + 1
    BY <1>2 DEF Names, FirstName
  <2>3. r + 1 - 1 = r /\ {r + 1} \subseteq Nat \ {0}
    BY <1>0
  <2>4. StreamsFor(s, x, r)[r + 1] = Jump(x, r)
    BY <2>1
  <2>5. ASSUME NEW n \in {r + 1} PROVE StreamsFor(s, x, r)[n] = Jump(x, n - 1)
    <3>1. n = r + 1
      OBVIOUS
    <3>2. n - 1 = r
      BY <1>0, <3>1
    <3>3. Jump(x, n - 1) = Jump(x, r)
      BY <3>2, Zenon
    <3> QED
      BY <2>4, <3>1, <3>3
  <2> QED
    BY <2>1, <2>2, <2>3, <2>5
<1>3. CASE s.kind = "vector"
  <2> DEFINE my == Wanted(s, r)
             seeds == SeedsFrom(Skip(x, my[1] - 1), Len(my))
  <2>1. StreamsFor(s, x, r) = Named(my, seeds)
    BY <1>3 DEF StreamsFor
  <2>2. Names(s, r) = ToSet(Wanted(s, r)) /\ FirstName(s, r) = Wanted(s, r)[1]
    BY <1>3 DEF Names, FirstName
  <2>3. Sequential(Wanted(s, r))
    BY <1>3 DEF Served
  <2>4. ToSet(Wanted(s, r)) \subseteq 1..s.N /\ Wanted(s, r)[1] \in ToSet(Wanted(s, r))
    BY <1>3, <2>3, WantedIs
  <2>5. s.N \in Nat
    BY <1>3, SetupsAre
  <2>6. ToSet(Wanted(s, r)) \subseteq Nat \ {0}
    BY <2>4, <2>5
  <2>7. PICK count \in Nat : IsVector(my, count)
    <3>1. r \in 0..(size - 1) /\ s.N \in Nat /\ s.div \in Divisions
      BY <1>3, SetupsAre DEF Ranks
    <3> QED
      BY <3>1, VectorIs DEF Wanted
  <2> HIDE DEF my
  <2>8. /\ count > 0 /\ Len(my) = count /\ DOMAIN my = 1..count
        /\ \A k \in 1..count : my[k] \in Nat /\ my[k] = my[1] + k - 1
    BY <2>3, <2>6, <2>7, InARow DEF my
  <2>9. my[1] - 1 \in Nat
    <3>1. my[1] \in Nat \ {0}
      BY <2>4, <2>6 DEF my
    <3> QED
      BY <3>1
  <2>10. \A k \in 1..count : seeds[k] = Jump(x, my[k] - 1)
    <3>1. PICK a \in Nat : a = my[1] - 1
      BY <2>9
    <3>2. Skip(x, a) = Jump(x, a) /\ Jump(x, a) \in Positions
      BY SkipIs, JumpIs
    <3>3. seeds = SeedsFrom(Jump(x, a), count)
      BY <2>8, <3>1, <3>2
    <3>4. ASSUME NEW k \in 1..count PROVE seeds[k] = Jump(x, my[k] - 1)
      <4>1. seeds[k] = Jump(Jump(x, a), k - 1)
        BY <3>2, <3>3, SeedsAre
      <4>2. k - 1 \in Nat /\ a + (k - 1) = my[k] - 1
        <5>1. my[1] \in Nat
          BY <2>8
        <5> QED
          BY <2>8, <3>1, <5>1
      <4>3. Jump(Jump(x, a), k - 1) = Jump(x, a + (k - 1))
        BY <4>2, JumpsAdd
      <4> QED
        BY <4>1, <4>2, <4>3
    <3> QED
      BY <3>4
  <2>11. ASSUME NEW n \in ToSet(my)
         PROVE  Named(my, seeds)[n] = Jump(x, n - 1)
    <3> DEFINE k == CHOOSE k \in DOMAIN my : my[k] = n
    <3>1. k \in DOMAIN my /\ my[k] = n
      BY <2>11 DEF ToSet
    <3>2. Named(my, seeds)[n] = seeds[k]
      BY <2>11 DEF Named
    <3> HIDE DEF k, seeds
    <3> QED
      BY <2>8, <2>10, <3>1, <3>2
  <2>12. DOMAIN Named(my, seeds) = ToSet(my)
    BY DEF Named
  <2> HIDE DEF seeds
  <2> QED
    BY <2>1, <2>2, <2>4, <2>6, <2>11, <2>12 DEF my
<1> QED
  BY <1>1, <1>2, <1>3, SetupsAre

\* Of two ranks that are served, the higher one has later streams, unless the
\* same stream was asked for.
LEMMA NamesRise ==
  ASSUME NEW s \in Setups, size \in Nat \ {0}, NEW r \in Ranks, NEW q \in Ranks, r < q,
         Served(s, r), Served(s, q), NEW n \in Names(s, r), NEW m \in Names(s, q)
  PROVE  n <= m /\ (s.kind # "same" => n < m)
<1>0. r \in 0..(size - 1) /\ q \in 0..(size - 1) /\ r \in Nat /\ q \in Nat
  BY DEF Ranks
<1>1. CASE s.kind = "same"
  BY <1>1 DEF Names
<1>2. CASE s.kind = "rank"
  <2>1. n = r + 1 /\ m = q + 1
    BY <1>2 DEF Names
  <2> QED
    BY <1>0, <2>1
<1>3. CASE s.kind = "vector"
  <2>1. s.N \in Nat /\ s.div \in Divisions
    BY <1>3, SetupsAre
  <2>2. /\ Sequential(ChunkVector(s.N, s.div, size, r))
        /\ Sequential(ChunkVector(s.N, s.div, size, q))
    BY <1>3 DEF Served, Wanted
  <2>3. /\ n \in ToSet(ChunkVector(s.N, s.div, size, r))
        /\ m \in ToSet(ChunkVector(s.N, s.div, size, q))
    BY <1>3 DEF Names, Wanted
  <2>4. n < m
    BY <1>0, <2>1, <2>2, <2>3, ItemsRise
  <2>5. n \in Nat \ {0} /\ m \in Nat \ {0}
    <3>1. ToSet(Wanted(s, r)) \subseteq 1..s.N /\ ToSet(Wanted(s, q)) \subseteq 1..s.N
      BY <1>3, WantedIs
    <3> QED
      BY <2>1, <2>3, <3>1 DEF Wanted
  <2> QED
    BY <2>4, <2>5
<1> QED
  BY <1>1, <1>2, <1>3, SetupsAre

------------------------------------------------------------------------------
(* The steps of one rank                                                   *)

\* A step of rank r that leaves all streams where they begin keeps the
\* invariant, if rank r keeps its part.
LEMMA OneRankActs ==
  ASSUME RngInv, setup # NULL, NEW r \in Ranks,
         NEW x \in Positions, NEW m, NEW p, NEW v, NEW l, NEW a \in BOOLEAN,
         random' = [random EXCEPT ![r] = x], name' = [name EXCEPT ![r] = m],
         paused' = [paused EXCEPT ![r] = p], saved' = [saved EXCEPT ![r] = v],
         left' = [left EXCEPT ![r] = l], alive' = [alive EXCEPT ![r] = a],
         alive[r], a => RankOK(r)', UNCHANGED <<size, setup, streams>>
  PROVE  RngInv'
<1>1. Ranks' = Ranks /\ Setups' = Setups
  BY DEF Ranks, Setups
<1>2. OneForEachRank /\ Prepared /\ size \in 1..MaxSize
  BY DEF RngInv, Fresh
<1>3. OneForEachRank'
  BY <1>1, <1>2 DEF OneForEachRank
<1>4. /\ random'[r] = x /\ name'[r] = m /\ paused'[r] = p /\ saved'[r] = v
      /\ left'[r] = l /\ alive'[r] = a
  BY <1>2 DEF OneForEachRank
<1>5. ASSUME NEW q \in Ranks, q # r
      PROVE  /\ random'[q] = random[q] /\ name'[q] = name[q] /\ paused'[q] = paused[q]
             /\ saved'[q] = saved[q] /\ left'[q] = left[q] /\ alive'[q] = alive[q]
  BY <1>2, <1>5 DEF OneForEachRank
<1>6. \A q \in Ranks : alive'[q] => alive[q]
  BY <1>4, <1>5
<1>7. ASSUME NEW q \in Ranks, alive'[q] PROVE RankOK(q)'
  <2>1. CASE q = r
    BY <1>4, <1>7, <2>1
  <2>2. CASE q # r
    <3>1. RankOK(q)
      BY <1>2, <1>6, <1>7 DEF Prepared
    <3>2. RankOK(q)' <=> RankOK(q)
      BY <1>5, <2>2 DEF RankOK
    <3> QED
      BY <3>1, <3>2
  <2> QED
    BY <2>1, <2>2
<1>8. ASSUME NEW q \in Ranks, NEW s \in Ranks, q < s, alive'[q], alive'[s]
      PROVE  RanksApart(q, s)'
  <2>1. RanksApart(q, s)
    BY <1>2, <1>6, <1>8 DEF Prepared
  <2> QED
    BY <2>1 DEF RanksApart
<1>9. Prepared'
  <2>1. setup' \in [how : Setups', seed : Seeds \cup {NULL}]
    BY <1>1, <1>2 DEF Prepared
  <2> QED
    BY <1>1, <1>7, <1>8, <2>1 DEF Prepared
<1> QED
  BY <1>2, <1>3, <1>9 DEF RngInv

\* Of a rank that can act, what the invariant says.
LEMMA ReadyRank ==
  ASSUME RngInv, setup # NULL, NEW r \in Ranks, alive[r]
  PROVE  /\ RankOK(r) /\ OneForEachRank
         /\ random[r] \in Positions
         /\ random[r] = left[r][name[r]]
         /\ SameStream(random[r], streams[r][name[r]])
         /\ name[r] \in DOMAIN streams[r]
<1>1. RankOK(r) /\ OneForEachRank
  BY DEF RngInv, Fresh, Prepared
<1>2. name[r] \in DOMAIN streams[r]
  BY <1>1 DEF RankOK
<1>3. left[r][name[r]] = random[r] /\ SameStream(left[r][name[r]], streams[r][name[r]])
  BY <1>1, <1>2 DEF RankOK
<1>4. random[r] \in Positions
  BY <1>1 DEF OneForEachRank
<1> QED
  BY <1>1, <1>2, <1>3, <1>4

LEMMA DrawKeeps ==
  ASSUME RngInv, NEW r \in Ranks, Draw(r)
  PROVE  RngInv'
<1> DEFINE x == [random[r] EXCEPT !.pos = @ + 1]
           n == name[r]
           l == [left[r] EXCEPT ![n] = x]
<1>0. setup # NULL /\ alive[r] /\ UNCHANGED <<size, setup, name, streams, paused, saved, alive>>
  BY DEF Draw
<1>1. /\ RankOK(r) /\ OneForEachRank /\ random[r] \in Positions
      /\ SameStream(random[r], streams[r][n]) /\ n \in DOMAIN streams[r]
  BY <1>0, ReadyRank
<1>2. x \in Positions /\ SameStream(x, streams[r][n])
  BY <1>1 DEF Positions, SameStream
<1>3. random' = [random EXCEPT ![r] = x]
  BY DEF Draw
<1>4. random'[r] = x
  BY <1>1, <1>3 DEF OneForEachRank
<1>5. left' = [left EXCEPT ![r] = l]
  BY <1>4 DEF Draw
<1>6. left'[r] = l
  BY <1>1, <1>5 DEF OneForEachRank
<1>7. RankOK(r)'
  <2>1. l = [k \in DOMAIN streams[r] |-> l[k]]
    BY <1>1 DEF RankOK
  <2>2. l[n] = x /\ \A k \in DOMAIN streams[r] : k # n => l[k] = left[r][k]
    BY <1>1 DEF RankOK
  <2>3. ASSUME NEW k \in DOMAIN streams[r]
        PROVE  /\ l[k] \in Positions /\ SameStream(l[k], streams[r][k])
               /\ l[k] = CASE k = n -> x
                           [] k \in DOMAIN paused[r] -> paused[r][k]
                           [] OTHER -> streams[r][k]
    BY <1>1, <1>2, <2>2 DEF RankOK
  <2> HIDE DEF x, n, l
  <2>4. name'[r] = n /\ streams'[r] = streams[r] /\ paused'[r] = paused[r] /\ saved'[r] = saved[r]
    BY <1>0 DEF n
  <2>5. \A k \in DOMAIN streams[r] :
          /\ left'[r][k] \in Positions /\ SameStream(left'[r][k], streams[r][k])
          /\ left'[r][k] = CASE k = n -> random'[r]
                            [] k \in DOMAIN paused[r] -> paused[r][k]
                            [] OTHER -> streams[r][k]
    BY <1>4, <1>6, <2>3
  <2> QED
    BY <1>0, <1>1, <1>6, <2>1, <2>4, <2>5 DEF RankOK, n
<1>8. /\ name' = [name EXCEPT ![r] = name[r]] /\ paused' = [paused EXCEPT ![r] = paused[r]]
      /\ saved' = [saved EXCEPT ![r] = saved[r]] /\ alive' = [alive EXCEPT ![r] = TRUE]
  BY <1>0, <1>1 DEF OneForEachRank
<1> HIDE DEF x, n, l
<1> QED
  BY <1>0, <1>2, <1>3, <1>5, <1>7, <1>8, OneRankActs

\* A rank that goes to stream n, and is then where the history says it left that
\* stream, keeps its part.
LEMMA GoToKeeps ==
  ASSUME RngInv, setup # NULL, NEW r \in Ranks, alive[r], NEW n \in DOMAIN streams[r],
         NEW start, start # NULL => start \in Positions /\ SameStream(start, streams[r][n]),
         GoTo(r, n, start), left' = [left EXCEPT ![r][n] = random'[r]],
         UNCHANGED <<size, setup, streams, alive>>
  PROVE  RngInv'
<1> DEFINE kept == IF n = name[r] THEN paused[r] ELSE With(paused[r], name[r], random[r])
           here == CASE start # NULL -> start
                     [] start = NULL /\ n \in DOMAIN kept -> kept[n]
                     [] OTHER -> streams[r][n]
           p == Without(kept, n)
           v == [name |-> n, seed |-> here]
           l == [left[r] EXCEPT ![n] = here]
<1>1. /\ RankOK(r) /\ OneForEachRank /\ random[r] \in Positions
      /\ name[r] \in DOMAIN streams[r]
  BY ReadyRank
<1>2. /\ random' = [random EXCEPT ![r] = here] /\ paused' = [paused EXCEPT ![r] = p]
      /\ name' = [name EXCEPT ![r] = n] /\ saved' = [saved EXCEPT ![r] = v]
  BY DEF GoTo
<1>3. random'[r] = here /\ paused'[r] = p /\ name'[r] = n /\ saved'[r] = v
  BY <1>1, <1>2 DEF OneForEachRank
<1>4. left' = [left EXCEPT ![r] = l] /\ left'[r] = l
  BY <1>1, <1>3 DEF OneForEachRank
<1>5. \A k \in DOMAIN streams[r] :
        /\ left[r][k] \in Positions /\ SameStream(left[r][k], streams[r][k])
        /\ left[r][k] = CASE k = name[r] -> random[r]
                          [] k \in DOMAIN paused[r] -> paused[r][k]
                          [] OTHER -> streams[r][k]
  BY <1>1 DEF RankOK
<1>6. /\ name[r] \notin DOMAIN paused[r] /\ DOMAIN paused[r] \subseteq DOMAIN streams[r]
      /\ left[r] = [k \in DOMAIN streams[r] |-> left[r][k]]
      /\ \A k \in DOMAIN streams[r] : streams[r][k] \in Positions
  BY <1>1 DEF RankOK
<1>7. DOMAIN kept = IF n = name[r] THEN DOMAIN paused[r] ELSE DOMAIN paused[r] \cup {name[r]}
  BY DEF With
<1>8. \A k \in DOMAIN kept : kept[k] = IF k = name[r] THEN random[r] ELSE paused[r][k]
  BY <1>6 DEF With
<1>9. here \in Positions /\ SameStream(here, streams[r][n])
  <2>1. CASE start # NULL
    BY <2>1
  <2>2. CASE start = NULL /\ n \in DOMAIN kept
    <3>1. n # name[r] /\ n \in DOMAIN paused[r]
      BY <1>6, <1>7, <2>2
    <3>2. here = kept[n] /\ kept[n] = paused[r][n]
      BY <1>8, <2>2, <3>1
    <3>3. left[r][n] = paused[r][n]
      BY <1>5, <3>1
    <3> QED
      BY <1>5, <3>2, <3>3
  <2>3. CASE start = NULL /\ n \notin DOMAIN kept
    BY <1>6, <2>3 DEF SameStream
  <2> QED
    BY <2>1, <2>2, <2>3
<1>10. DOMAIN p = DOMAIN kept \ {n} /\ \A k \in DOMAIN p : p[k] = kept[k]
  BY DEF Without
<1> HIDE DEF kept, here, p, v, l
<1>11. n \notin DOMAIN p /\ DOMAIN p \subseteq DOMAIN streams[r]
  BY <1>1, <1>6, <1>7, <1>10
<1>12. l = [k \in DOMAIN streams[r] |-> l[k]] /\ l[n] = here
       /\ \A k \in DOMAIN streams[r] : k # n => l[k] = left[r][k]
  BY <1>6 DEF l
<1>13. ASSUME NEW k \in DOMAIN streams[r]
       PROVE  /\ l[k] \in Positions /\ SameStream(l[k], streams[r][k])
              /\ l[k] = CASE k = n -> here
                          [] k \in DOMAIN p -> p[k]
                          [] OTHER -> streams[r][k]
  <2>1. CASE k = n
    BY <1>9, <1>11, <1>12, <2>1
  <2>2. CASE k # n /\ k = name[r]
    <3>1. k \in DOMAIN p /\ p[k] = random[r]
      BY <1>7, <1>8, <1>10, <2>2
    <3>2. left[r][k] = random[r]
      BY <1>5, <1>6, <2>2
    <3> QED
      BY <1>5, <1>12, <2>2, <3>1, <3>2
  <2>3. CASE k # n /\ k # name[r] /\ k \in DOMAIN paused[r]
    <3>1. k \in DOMAIN p /\ p[k] = paused[r][k]
      BY <1>7, <1>8, <1>10, <2>3
    <3>2. left[r][k] = paused[r][k]
      BY <1>5, <2>3
    <3> QED
      BY <1>5, <1>12, <2>3, <3>1, <3>2
  <2>4. CASE k # n /\ k # name[r] /\ k \notin DOMAIN paused[r]
    <3>1. k \notin DOMAIN p
      BY <1>7, <1>10, <2>4
    <3>2. left[r][k] = streams[r][k]
      BY <1>5, <2>4
    <3> QED
      BY <1>5, <1>12, <2>4, <3>1, <3>2
  <2> QED
    BY <2>1, <2>2, <2>3, <2>4
<1>14. /\ v.name = n /\ v.seed = here
  BY DEF v
<1>15. RankOK(r)'
  <2>1. \A k \in DOMAIN streams[r] :
          /\ left'[r][k] \in Positions /\ SameStream(left'[r][k], streams[r][k])
          /\ left'[r][k] = CASE k = n -> random'[r]
                             [] k \in DOMAIN p -> p[k]
                             [] OTHER -> streams[r][k]
    BY <1>3, <1>4, <1>13
  <2>2. /\ saved'[r].name \in DOMAIN streams[r] /\ saved'[r].seed \in Positions
        /\ SameStream(saved'[r].seed, streams[r][saved'[r].name])
    BY <1>3, <1>9, <1>14
  <2>3. \A k \in DOMAIN streams[r] :
          /\ k \in Nat /\ k > 0
          /\ streams[r][k] \in Positions
          /\ setup.seed # NULL => streams[r][k] = Jump(Seed(setup.seed), k - 1)
    BY <1>1 DEF RankOK
  <2> QED
    BY <1>3, <1>4, <1>11, <1>12, <2>1, <2>2, <2>3 DEF RankOK
<1>16. alive' = [alive EXCEPT ![r] = TRUE]
  BY <1>1 DEF OneForEachRank
<1> QED
  BY <1>2, <1>4, <1>9, <1>15, <1>16, OneRankActs

LEMMA SwitchKeeps ==
  ASSUME RngInv, NEW r \in Ranks, NEW n, Switch(r, n)
  PROVE  RngInv'
<1>1. /\ setup # NULL /\ alive[r] /\ n \in DOMAIN streams[r] /\ GoTo(r, n, NULL)
      /\ UNCHANGED <<size, setup, streams, alive>>
      /\ left' = IF n = name[r] THEN [left EXCEPT ![r][n] = streams[r][n]] ELSE left
  BY DEF Switch
<1>2. /\ RankOK(r) /\ OneForEachRank
  BY <1>1, ReadyRank
<1>3. /\ name[r] \notin DOMAIN paused[r] /\ DOMAIN left[r] = DOMAIN streams[r]
      /\ left[r][n] = CASE n = name[r] -> random[r]
                        [] n \in DOMAIN paused[r] -> paused[r][n]
                        [] OTHER -> streams[r][n]
  BY <1>1, <1>2 DEF RankOK
<1> DEFINE kept == IF n = name[r] THEN paused[r] ELSE With(paused[r], name[r], random[r])
<1>4. random' = [random EXCEPT ![r] = IF n \in DOMAIN kept THEN kept[n] ELSE streams[r][n]]
  BY <1>1 DEF GoTo
<1>5. random'[r] = IF n \in DOMAIN kept THEN kept[n] ELSE streams[r][n]
  BY <1>2, <1>4 DEF OneForEachRank
<1>6. left' = [left EXCEPT ![r][n] = random'[r]]
  <2>1. CASE n = name[r]
    <3>1. random'[r] = streams[r][n]
      BY <1>3, <1>5, <2>1
    <3> QED
      BY <1>1, <2>1, <3>1
  <2>2. CASE n # name[r]
    <3>1. DOMAIN kept = DOMAIN paused[r] \cup {name[r]} /\ (n \in DOMAIN paused[r] => kept[n] = paused[r][n])
      BY <2>2 DEF With
    <3>2. random'[r] = left[r][n]
      BY <1>3, <1>5, <2>2, <3>1
    <3>3. left[r] = [left[r] EXCEPT ![n] = left[r][n]] /\ left = [left EXCEPT ![r] = left[r]]
      <4>1. left = [left EXCEPT ![r] = left[r]]
        BY <1>2 DEF OneForEachRank
      <4>2. left[r] = [left[r] EXCEPT ![n] = left[r][n]]
        BY <1>2 DEF RankOK
      <4> QED
        BY <4>1, <4>2
    <3> QED
      BY <1>1, <2>2, <3>2, <3>3
  <2> QED
    BY <2>1, <2>2
<1> QED
  BY <1>1, <1>6, GoToKeeps

LEMMA SwitchFailsKeeps ==
  ASSUME RngInv, NEW r \in Ranks, NEW n, SwitchFails(r, n)
  PROVE  RngInv'
<1>1. /\ setup # NULL /\ alive[r] /\ alive' = [alive EXCEPT ![r] = FALSE]
      /\ UNCHANGED <<size, setup, random, name, streams, paused, saved, left>>
  BY DEF SwitchFails
<1>2. OneForEachRank /\ random[r] \in Positions
  BY <1>1, ReadyRank
<1>3. /\ random' = [random EXCEPT ![r] = random[r]] /\ name' = [name EXCEPT ![r] = name[r]]
      /\ paused' = [paused EXCEPT ![r] = paused[r]] /\ saved' = [saved EXCEPT ![r] = saved[r]]
      /\ left' = [left EXCEPT ![r] = left[r]]
  BY <1>1, <1>2 DEF OneForEachRank
<1>4. FALSE => RankOK(r)'
  OBVIOUS
<1>5. setup # NULL /\ alive[r] /\ FALSE \in BOOLEAN /\ UNCHANGED <<size, setup, streams>>
  BY <1>1
<1>6. alive' = [alive EXCEPT ![r] = FALSE]
  BY <1>1
<1> QED
  BY <1>2, <1>3, <1>4, <1>5, <1>6, OneRankActs

LEMMA ResetKeeps ==
  ASSUME RngInv, NEW r \in Ranks, Reset(r)
  PROVE  RngInv'
<1> DEFINE n == name[r]
           begin == streams[r][n]
<1>1. /\ setup # NULL /\ alive[r] /\ GoTo(r, n, begin)
      /\ left' = [left EXCEPT ![r][n] = begin] /\ UNCHANGED <<size, setup, streams, alive>>
  BY DEF Reset
<1>2. /\ RankOK(r) /\ OneForEachRank /\ n \in DOMAIN streams[r]
  BY <1>1, ReadyRank
<1>3. begin \in Positions /\ SameStream(begin, streams[r][n])
  BY <1>2 DEF RankOK, SameStream
<1>4. n \notin DOMAIN paused[r]
  BY <1>2 DEF RankOK
<1>5. random' = [random EXCEPT ![r] = begin]
  BY <1>1, <1>4 DEF GoTo
<1>6. random'[r] = begin
  BY <1>2, <1>5 DEF OneForEachRank
<1>7. left' = [left EXCEPT ![r][n] = random'[r]]
  BY <1>1, <1>6
<1> HIDE DEF n, begin
<1> QED
  BY <1>1, <1>2, <1>3, <1>7, GoToKeeps

LEMMA SaveStateKeeps ==
  ASSUME RngInv, NEW r \in Ranks, SaveState(r)
  PROVE  RngInv'
<1> DEFINE v == [name |-> name[r], seed |-> random[r]]
<1>1. /\ setup # NULL /\ alive[r] /\ saved' = [saved EXCEPT ![r] = v]
      /\ UNCHANGED <<size, setup, random, name, streams, paused, left, alive>>
  BY DEF SaveState
<1>2. /\ RankOK(r) /\ OneForEachRank /\ random[r] \in Positions
      /\ SameStream(random[r], streams[r][name[r]]) /\ name[r] \in DOMAIN streams[r]
  BY <1>1, ReadyRank
<1>3. /\ random' = [random EXCEPT ![r] = random[r]] /\ name' = [name EXCEPT ![r] = name[r]]
      /\ paused' = [paused EXCEPT ![r] = paused[r]] /\ alive' = [alive EXCEPT ![r] = TRUE]
      /\ left' = [left EXCEPT ![r] = left[r]]
  BY <1>1, <1>2 DEF OneForEachRank
<1>4. saved'[r] = v
  BY <1>1, <1>2 DEF OneForEachRank
<1>5. v.name = name[r] /\ v.seed = random[r]
  OBVIOUS
<1> HIDE DEF v
<1>6. RankOK(r)'
  BY <1>1, <1>2, <1>4, <1>5 DEF RankOK
<1>7. setup # NULL /\ alive[r] /\ TRUE \in BOOLEAN /\ UNCHANGED <<size, setup, streams>>
  BY <1>1
<1>8. saved' = [saved EXCEPT ![r] = v]
  BY <1>1
<1> QED
  BY <1>2, <1>3, <1>6, <1>7, <1>8, OneRankActs

LEMMA RestoreKeeps ==
  ASSUME RngInv, NEW r \in Ranks, Restore(r)
  PROVE  RngInv'
<1> DEFINE n == saved[r].name
           begin == saved[r].seed
<1>1. /\ setup # NULL /\ alive[r] /\ saved[r] # NULL /\ GoTo(r, n, begin)
      /\ left' = [left EXCEPT ![r][n] = begin] /\ UNCHANGED <<size, setup, streams, alive>>
  BY DEF Restore
<1>2. /\ RankOK(r) /\ OneForEachRank
  BY <1>1, ReadyRank
<1>3. begin \in Positions /\ SameStream(begin, streams[r][n]) /\ n \in DOMAIN streams[r]
  BY <1>1, <1>2 DEF RankOK
<1>4. begin # NULL => random'[r] = begin
  BY <1>1, <1>2 DEF GoTo, OneForEachRank
<1>5. begin # NULL
  BY <1>3, BoundsAssumption
<1>6. left' = [left EXCEPT ![r][n] = random'[r]]
  BY <1>1, <1>4, <1>5
<1> HIDE DEF n, begin
<1> QED
  BY <1>1, <1>2, <1>3, <1>6, GoToKeeps

------------------------------------------------------------------------------
(* The steps of all ranks                                                  *)

LEMMA NothingPaused == DOMAIN <<>> = {}
OBVIOUS

LEMMA NewStreams ==
  ASSUME RngInv, NEW s \in Setups, NEW seed \in Seeds \cup {NULL}, SetSeed(s, seed)
  PROVE  RngInv'
<1> DEFINE main(r) == IF seed = NULL THEN random[r] ELSE Seed(seed)
           served(r) == Served(s, r)
<1>1. /\ \A r \in Ranks : alive[r]
      /\ setup' = [how |-> s, seed |-> seed]
      /\ alive' = [r \in Ranks |-> served(r)]
      /\ streams' = [r \in Ranks |-> IF alive'[r] THEN StreamsFor(s, main(r), r) ELSE streams[r]]
      /\ name' = [r \in Ranks |-> IF alive'[r] THEN FirstName(s, r) ELSE name[r]]
      /\ paused' = [r \in Ranks |-> IF alive'[r] THEN <<>> ELSE paused[r]]
      /\ random' = [r \in Ranks |-> IF alive'[r] THEN streams'[r][name'[r]] ELSE main(r)]
      /\ left' = streams'
      /\ saved' = [r \in Ranks |-> NULL]
      /\ size' = size
  BY DEF SetSeed
<1>2. size \in Nat \ {0} /\ OneForEachRank /\ size \in 1..MaxSize
  BY BoundsAssumption DEF RngInv
<1>3. Ranks' = Ranks /\ Setups' = Setups
  BY <1>1 DEF Ranks, Setups
<1>4. \A r \in Ranks : main(r) \in Positions
  BY <1>2, SeedIs DEF OneForEachRank
\* A rank is never ahead of a higher one in the streams of one seed.
<1>5. ASSUME NEW r \in Ranks, NEW q \in Ranks, r < q, main(r).base = main(q).base
      PROVE  main(r).stream <= main(q).stream
  <2>0. r \in Nat /\ q \in Nat
    BY DEF Ranks
  <2>1. CASE seed # NULL
    <3>1. main(r).stream \in Nat /\ main(r) = main(q)
      BY <1>4, <2>1 DEF Positions
    <3> QED
      BY <3>1
  <2>2. CASE seed = NULL /\ Fresh
    BY <1>5, <2>0, <2>2 DEF Fresh
  <2>3. CASE seed = NULL /\ Prepared
    <3>1. RankOK(r) /\ RankOK(q) /\ RanksApart(r, q)
      BY <1>1, <1>5, <2>3 DEF Prepared
    <3>2. ASSUME NEW k \in Ranks, RankOK(k)
          PROVE  name[k] \in DOMAIN streams[k] /\ SameStream(random[k], streams[k][name[k]])
      <4>1. name[k] \in DOMAIN streams[k]
        BY <3>2 DEF RankOK
      <4>2. left[k][name[k]] = random[k] /\ SameStream(left[k][name[k]], streams[k][name[k]])
        BY <3>2, <4>1 DEF RankOK
      <4> QED
        BY <4>1, <4>2
    <3> DEFINE a == streams[r][name[r]]
               b == streams[q][name[q]]
    <3>3. a.base = random[r].base /\ a.stream = random[r].stream
          /\ b.base = random[q].base /\ b.stream = random[q].stream
      BY <3>1, <3>2 DEF SameStream
    <3>4. a.base = b.base => a.stream <= b.stream
      BY <3>1, <3>2 DEF RanksApart
    <3> QED
      BY <1>5, <2>3, <3>3, <3>4
  <2> QED
    BY <2>1, <2>2, <2>3 DEF RngInv
<1> HIDE DEF main
<1>6. ASSUME NEW r \in Ranks, served(r)
      PROVE  /\ streams'[r] = StreamsFor(s, main(r), r) /\ name'[r] = FirstName(s, r)
             /\ paused'[r] = <<>> /\ random'[r] = streams'[r][name'[r]]
             /\ left'[r] = streams'[r] /\ saved'[r] = NULL
             /\ DOMAIN streams'[r] = Names(s, r) /\ Names(s, r) \subseteq Nat \ {0}
             /\ name'[r] \in Names(s, r)
             /\ \A n \in Names(s, r) : streams'[r][n] = Jump(main(r), n - 1)
             /\ streams'[r] = [n \in Names(s, r) |-> streams'[r][n]]
  <2>1. alive'[r]
    BY <1>1, <1>6
  <2>2. /\ streams'[r] = StreamsFor(s, main(r), r) /\ name'[r] = FirstName(s, r)
        /\ paused'[r] = <<>> /\ random'[r] = streams'[r][name'[r]]
        /\ left'[r] = streams'[r] /\ saved'[r] = NULL
    BY <1>1, <2>1
  <2>3. /\ DOMAIN StreamsFor(s, main(r), r) = Names(s, r)
        /\ Names(s, r) \subseteq Nat \ {0}
        /\ FirstName(s, r) \in Names(s, r)
        /\ \A n \in Names(s, r) : StreamsFor(s, main(r), r)[n] = Jump(main(r), n - 1)
    BY <1>2, <1>4, <1>6, StreamsAre
  <2>4. StreamsFor(s, main(r), r) = [n \in Names(s, r) |-> StreamsFor(s, main(r), r)[n]]
    <3> DEFINE f == StreamsFor(s, main(r), r)
               my == Wanted(s, r)
    <3>1. CASE s.kind = "same"
      <4>1. f = [k \in {1} |-> main(r)] /\ Names(s, r) = {1}
        BY <3>1 DEF StreamsFor, Names, Single
      <4> QED
        BY <4>1
    <3>2. CASE s.kind = "rank"
      <4>1. f = [k \in {r + 1} |-> Skip(main(r), r)] /\ Names(s, r) = {r + 1}
        BY <3>2 DEF StreamsFor, Names, Single
      <4> QED
        BY <4>1
    <3>3. CASE s.kind = "vector"
      <4>1. PICK seeds : f = Named(my, seeds) /\ Names(s, r) = ToSet(my)
        BY <3>3 DEF StreamsFor, Names
      <4>2. Named(my, seeds) = [n \in ToSet(my) |-> Named(my, seeds)[n]]
        BY DEF Named
      <4> QED
        BY <4>1, <4>2
    <3> QED
      BY <3>1, <3>2, <3>3, SetupsAre
  <2> QED
    BY <2>2, <2>3, <2>4
<1>7. ASSUME NEW r \in Ranks, served(r), NEW n \in Names(s, r)
      PROVE  /\ n \in Nat /\ n > 0
             /\ streams'[r][n] \in Positions
             /\ streams'[r][n].base = main(r).base
             /\ streams'[r][n].stream = main(r).stream + (n - 1)
             /\ seed # NULL => streams'[r][n] = Jump(Seed(seed), n - 1)
  <2>0. n \in Nat \ {0}
    BY <1>6, <1>7
  <2>1. n \in Nat /\ n > 0 /\ n - 1 \in Nat
    BY <2>0
  <2>2. streams'[r][n] = Jump(main(r), n - 1)
    BY <1>6, <1>7
  <2>3. seed # NULL => main(r) = Seed(seed)
    BY DEF main
  <2>4. /\ Jump(main(r), n - 1) \in Positions
        /\ Jump(main(r), n - 1).base = main(r).base
        /\ Jump(main(r), n - 1).stream = main(r).stream + (n - 1)
    BY <1>4, <2>1, JumpIs
  <2> QED
    BY <2>1, <2>2, <2>3, <2>4
<1>8. ASSUME NEW r \in Ranks, served(r) PROVE RankOK(r)'
  <2>1. /\ setup'.seed = seed
    BY <1>1
  <2>2. DOMAIN paused'[r] = {}
    BY <1>6, <1>8, NothingPaused
  <2>3. \A n \in Names(s, r) : SameStream(streams'[r][n], streams'[r][n])
    BY DEF SameStream
  <2>4. \A n \in DOMAIN streams'[r] :
          /\ n \in Nat /\ n > 0
          /\ streams'[r][n] \in Positions
          /\ setup'.seed # NULL => streams'[r][n] = Jump(Seed(setup'.seed), n - 1)
    <3>1. DOMAIN streams'[r] = Names(s, r)
      BY <1>6, <1>8
    <3>2. ASSUME NEW n \in Names(s, r)
          PROVE  /\ n \in Nat /\ n > 0 /\ streams'[r][n] \in Positions
                 /\ seed # NULL => streams'[r][n] = Jump(Seed(seed), n - 1)
      BY <1>7, <1>8
    <3> QED
      BY <2>1, <3>1, <3>2
  <2>5. \A n \in DOMAIN streams'[r] :
          /\ left'[r][n] \in Positions /\ SameStream(left'[r][n], streams'[r][n])
          /\ left'[r][n] = CASE n = name'[r] -> random'[r]
                             [] n \in DOMAIN paused'[r] -> paused'[r][n]
                             [] OTHER -> streams'[r][n]
    <3>1. /\ left'[r] = streams'[r] /\ random'[r] = streams'[r][name'[r]]
          /\ DOMAIN streams'[r] = Names(s, r)
      BY <1>6, <1>8
    <3>2. \A n \in DOMAIN streams'[r] : streams'[r][n] \in Positions
      BY <2>4
    <3> QED
      BY <2>2, <2>3, <3>1, <3>2
  <2> QED
    BY <1>6, <1>8, <2>2, <2>4, <2>5 DEF RankOK
<1>9. ASSUME NEW r \in Ranks, NEW q \in Ranks, r < q, served(r), served(q)
      PROVE  RanksApart(r, q)'
  <2>1. SUFFICES ASSUME NEW n \in Names(s, r), NEW m \in Names(s, q),
                        streams'[r][n].base = streams'[q][m].base
                 PROVE  /\ streams'[r][n].stream <= streams'[q][m].stream
                        /\ s.kind # "same" => streams'[r][n].stream < streams'[q][m].stream
    <3>1. DOMAIN streams'[r] = Names(s, r) /\ DOMAIN streams'[q] = Names(s, q)
      BY <1>6, <1>9
    <3>2. setup'.how = s
      BY <1>1
    <3> QED
      BY <2>1, <3>1, <3>2 DEF RanksApart
  <2>2. n <= m /\ (s.kind # "same" => n < m)
    BY <1>2, <1>9, NamesRise
  <2>3. /\ n \in Nat /\ m \in Nat
        /\ streams'[r][n].base = main(r).base /\ streams'[q][m].base = main(q).base
        /\ streams'[r][n].stream = main(r).stream + (n - 1)
        /\ streams'[q][m].stream = main(q).stream + (m - 1)
    BY <1>7, <1>9
  <2>4. main(r).stream <= main(q).stream
    BY <1>5, <1>9, <2>1, <2>3
  <2>5. main(r).stream \in Nat /\ main(q).stream \in Nat
    BY <1>4 DEF Positions
  <2> QED
    BY <2>2, <2>3, <2>4, <2>5
<1>10. \A r \in Ranks : served(r) \in BOOLEAN /\ alive'[r] = served(r)
  BY <1>1 DEF Served
<1>11. Prepared'
  <2>1. setup' \in [how : Setups', seed : Seeds \cup {NULL}]
    BY <1>1, <1>3
  <2> QED
    BY <1>3, <1>8, <1>9, <1>10, <2>1 DEF Prepared
<1>12. OneForEachRank'
  <2>1. ASSUME NEW r \in Ranks PROVE random'[r] \in Positions
    <3>1. CASE served(r)
      <4>1. random'[r] = streams'[r][name'[r]] /\ name'[r] \in Names(s, r)
        BY <1>6, <3>1
      <4>2. streams'[r][name'[r]] \in Positions
        BY <1>7, <3>1, <4>1
      <4> QED
        BY <4>1, <4>2
    <3>2. CASE ~ served(r)
      <4>1. random'[r] = main(r)
        BY <1>1, <3>2
      <4> QED
        BY <1>4, <4>1
    <3> QED
      BY <3>1, <3>2
  <2>2. random' \in [Ranks -> Positions]
    BY <1>1, <2>1
  <2>3. alive' \in [Ranks -> BOOLEAN]
    BY <1>1, <1>10
  <2>4. /\ name' = [r \in Ranks |-> name'[r]] /\ streams' = [r \in Ranks |-> streams'[r]]
        /\ paused' = [r \in Ranks |-> paused'[r]] /\ saved' = [r \in Ranks |-> saved'[r]]
        /\ left' = [r \in Ranks |-> left'[r]]
    BY <1>1
  <2> QED
    BY <1>3, <2>2, <2>3, <2>4 DEF OneForEachRank
<1> QED
  BY <1>1, <1>2, <1>11, <1>12 DEF RngInv

LEMMA Begins ==
  ASSUME Init
  PROVE  RngInv
<1>1. size \in 1..MaxSize /\ size \in Nat
  BY BoundsAssumption DEF Init
<1>2. Ranks \subseteq Nat
  BY <1>1 DEF Ranks
<1>3. OneForEachRank
  BY <1>2 DEF Init, OneForEachRank, Positions
<1>4. Fresh
  BY DEF Init, Fresh
<1> QED
  BY <1>1, <1>3, <1>4 DEF RngInv

------------------------------------------------------------------------------
(* Theorems                                                                *)

LEMMA StutterKeeps ==
  ASSUME RngInv, UNCHANGED vars
  PROVE  RngInv'
<1>1. Ranks' = Ranks /\ Setups' = Setups
  BY DEF vars, Ranks, Setups
<1>2. OneForEachRank' <=> OneForEachRank
  BY <1>1 DEF vars, OneForEachRank
<1>3. Fresh' <=> Fresh
  BY <1>1 DEF vars, Fresh
<1>4. \A r \in Ranks : RankOK(r)' <=> RankOK(r)
  BY DEF vars, RankOK
<1>5. \A r, s \in Ranks : RanksApart(r, s)' <=> RanksApart(r, s)
  BY DEF vars, RanksApart
<1>6. Prepared' <=> Prepared
  BY <1>1, <1>4, <1>5 DEF vars, Prepared
<1> QED
  BY <1>2, <1>3, <1>6 DEF vars, RngInv

\* In every state, each rank is in one of its own streams, where the history
\* left it, every stream has been left between where it begins and the next one,
\* and the ranks are ordered: the argument behind the three theorems below.
THEOREM InvariantOfStreams == Spec => []RngInv
<1>1. Init => RngInv
  BY Begins
<1>2. RngInv /\ [Next]_vars => RngInv'
  <2> SUFFICES ASSUME RngInv, [Next]_vars PROVE RngInv'
    OBVIOUS
  <2>1. ASSUME NEW s \in Setups, NEW seed \in Seeds \cup {NULL}, SetSeed(s, seed)
        PROVE  RngInv'
    BY <2>1, NewStreams
  <2>2. ASSUME NEW r \in Ranks, Draw(r) \/ Reset(r) \/ SaveState(r) \/ Restore(r)
        PROVE  RngInv'
    BY <2>2, DrawKeeps, ResetKeeps, SaveStateKeeps, RestoreKeeps
  <2>3. ASSUME NEW r \in Ranks, NEW n \in 1..MaxItems, Switch(r, n) \/ SwitchFails(r, n)
        PROVE  RngInv'
    BY <2>3, SwitchKeeps, SwitchFailsKeeps
  <2>4. CASE Terminating \/ UNCHANGED vars
    BY <2>4, StutterKeeps DEF Terminating
  <2> QED
    BY <2>1, <2>2, <2>3, <2>4 DEF Next
<1> QED
  BY <1>1, <1>2, PTL DEF Spec

\* With a seed, a rank has under the name n the n-th stream of that seed, and it
\* draws from the stream it has set, for any number of ranks, any division and any
\* operations (R/comm_seed.r:3-7): the loops of comm.set.seed() arrive there, and
\* no switch, reset or restored state leads to another stream.
THEOREM SeedDecides == Spec => []StreamOfItem
<1>1. RngInv => StreamOfItem
  <2> SUFFICES ASSUME RngInv, NEW r \in Ranks, Ready(r), setup.seed # NULL
               PROVE  /\ \A n \in DOMAIN streams[r] :
                           streams[r][n] = [base |-> setup.seed, stream |-> n, pos |-> 0]
                      /\ random[r].base = setup.seed /\ random[r].stream = name[r]
    BY DEF StreamOfItem
  <2>1. RankOK(r)
    BY ReadyRank DEF Ready
  <2>2. ASSUME NEW n \in DOMAIN streams[r]
        PROVE  streams[r][n] = [base |-> setup.seed, stream |-> n, pos |-> 0]
    <3>1. n \in Nat /\ streams[r][n] = Jump(Seed(setup.seed), n - 1)
      BY <2>1, <2>2 DEF RankOK
    <3>2. 1 + (n - 1) = n
      BY <3>1
    <3>3. Jump(Seed(setup.seed), n - 1) = [base |-> setup.seed, stream |-> 1 + (n - 1), pos |-> 0]
      BY DEF Jump, Seed
    <3> QED
      BY <3>1, <3>2, <3>3
  <2>3. PICK n : n = name[r]
    OBVIOUS
  <2>4. n \in DOMAIN streams[r] /\ left[r][n] = random[r] /\ SameStream(left[r][n], streams[r][n])
    BY <2>1, <2>3 DEF RankOK
  <2>5. random[r].base = setup.seed /\ random[r].stream = n
    <3>1. PICK x : x = streams[r][n]
      OBVIOUS
    <3>2. x = [base |-> setup.seed, stream |-> n, pos |-> 0]
      BY <2>2, <2>4, <3>1
    <3>3. x.base = setup.seed /\ x.stream = n
      BY <3>2
    <3> QED
      BY <2>4, <3>1, <3>3 DEF SameStream
  <2> QED
    BY <2>2, <2>3, <2>5
<1> QED
  BY <1>1, InvariantOfStreams, PTL

\* Ranks that asked for different streams never share one, however often
\* comm.set.seed() is called without a seed (R/comm_seed.r:56-57).
THEOREM RanksNeverShare == Spec => []DisjointStreams
<1>1. RngInv => DisjointStreams
  <2> SUFFICES ASSUME RngInv, setup # NULL, setup.how.kind # "same",
                      NEW r \in Ranks, NEW s \in Ranks, r # s, alive[r], alive[s],
                      NEW n \in DOMAIN streams[r], NEW m \in DOMAIN streams[s],
                      streams[r][n].base = streams[s][m].base
               PROVE  streams[r][n].stream # streams[s][m].stream
    BY DEF DisjointStreams
  <2>1. Prepared /\ r \in Int /\ s \in Int
    BY DEF RngInv, Fresh, Ranks
  <2>2. RankOK(r) /\ RankOK(s)
    BY ReadyRank
  <2>3. streams[r][n].stream \in Nat /\ streams[s][m].stream \in Nat
    BY <2>2 DEF RankOK, Positions
  <2>4. CASE r < s
    <3>1. RanksApart(r, s)
      BY <2>1, <2>4 DEF Prepared
    <3> QED
      BY <2>3, <3>1 DEF RanksApart
  <2>5. CASE s < r
    <3>1. RanksApart(s, r)
      BY <2>1, <2>5 DEF Prepared
    <3> QED
      BY <2>3, <3>1 DEF RanksApart
  <2> QED
    BY <2>1, <2>4, <2>5
<1> QED
  BY <1>1, InvariantOfStreams, PTL

\* A rank is where it left the stream it is in, after any number of switches,
\* resets and restored states (R/comm_seed.r:62-63).
THEOREM StreamsContinue == Spec => []ContinuesWhereLeft
<1>1. RngInv => ContinuesWhereLeft
  BY ReadyRank DEF ContinuesWhereLeft, Ready
<1> QED
  BY <1>1, InvariantOfStreams, PTL

LEMMA SidesOfChunks ==
  ASSUME NEW N \in Nat, NEW p \in Nat \ {0}, NEW div \in Divisions
  PROVE  SidesOf(ChunkItems(N, div, p), div[2], p)
<1>1. div[2] \in Sides
  BY DivisionsAre
<1> QED
  BY <1>1, BalancedSizes, EqualSizes DEF ChunkItems

\* The items 1..N are divided among the ranks as the manual says, in the same
\* way whichever form of the chunk is asked for (man/cc_comm.chunk.Rd:27-36).
THEOREM ChunksDivide == Spec => []ItemsDivided
<1>1. RngInv => ItemsDivided
  <2> SUFFICES ASSUME RngInv, Chunked PROVE ItemsDivided
    BY DEF ItemsDivided
  <2> DEFINE N == setup.how.N
             div == setup.how.div
             items == ChunkItems(N, div, size)
             most == (N + size - 1) \div size
             v(r) == ChunkVector(N, div, size, r)
             q(r) == ChunkSeq(N, div, size, r)
  <2>1. N \in Nat /\ div \in Divisions /\ size \in Nat \ {0} /\ Ranks = 0..(size - 1)
    <3>1. setup.how \in Setups /\ setup.how.kind = "vector" /\ size \in 1..MaxSize
      BY DEF RngInv, Fresh, Prepared, Chunked
    <3> QED
      BY <3>1, SetupsAre, BoundsAssumption DEF Ranks
  <2>2. UNION {ToSet(v(r)) : r \in Ranks} = 1..N
    <3>1. /\ \A x \in 1..N : \E r \in Ranks : x \in ToSet(v(r))
          /\ \A r \in Ranks : ToSet(v(r)) \subseteq 1..N
      BY <2>1, ItemsCovered
    <3> HIDE DEF v, N
    <3> QED
      BY <3>1
  <2>3. \A r, s \in Ranks : r # s => ToSet(v(r)) \cap ToSet(v(s)) = {}
    BY <2>1, ItemsCovered
  <2>4. \A r \in Ranks :
          /\ Len(v(r)) = items[r + 1]
          /\ v(r) # <<>> => ToSet(v(r)) = {i \in q(r)[1]..q(r)[2] : (i - q(r)[1]) % q(r)[3] = 0}
    BY <2>1, FormsAgree
  <2>5. \A i, k \in 1..size : i < k =>
          IF div[2] = "right" THEN items[k] <= items[i] ELSE items[i] <= items[k]
    <3>1. SidesOf(items, div[2], size)
      BY <2>1, SidesOfChunks
    <3> QED
      BY <3>1 DEF SidesOf
  <2>6. div[2] \in Sides
    BY <2>1, DivisionsAre
  <2>7. div[1] # "equal" => \A i \in 1..size : items[i] \in {most, most - 1}
    <3>1. div[1] # "equal" => items = BalancedItems(N, div[2], size)
      BY DEF ChunkItems
    <3>2. \A i \in 1..size : BalancedItems(N, div[2], size)[i] \in {most, most - 1}
      BY <2>1, <2>6, BalancedSizes
    <3> HIDE DEF items, most, N, div
    <3> QED
      BY <3>1, <3>2
  <2>8. div[1] = "equal" =>
          /\ \A i \in 1..size : items[i] <= most
          /\ Cardinality({i \in 1..size : items[i] \in 1..(most - 1)}) <= 1
    <3> SUFFICES ASSUME div[1] = "equal"
                 PROVE  /\ \A i \in 1..size : items[i] <= most
                        /\ Cardinality({i \in 1..size : items[i] \in 1..(most - 1)}) <= 1
      OBVIOUS
    <3>1. items = EqualItems(N, div[2], size)
      BY DEF ChunkItems
    <3>2. /\ \A i \in 1..size : EqualItems(N, div[2], size)[i] <= most
          /\ \A i, k \in 1..size : /\ EqualItems(N, div[2], size)[i] \in 1..(most - 1)
                                   /\ EqualItems(N, div[2], size)[k] \in 1..(most - 1)
                                   => i = k
      BY <2>1, <2>6, EqualSizes
    <3> DEFINE S == {i \in 1..size : items[i] \in 1..(most - 1)}
    <3>3. \A i, k \in S : i = k
      BY <3>1, <3>2
    <3>4. S = {} \/ \E i : S = {i}
      BY <3>3
    <3>5. Cardinality(S) \in {0, 1}
      <4> HIDE DEF S
      <4>1. CASE S = {}
        BY <4>1, FS_EmptySet
      <4>2. ASSUME NEW i, S = {i} PROVE Cardinality(S) = 1
        BY <4>2, FS_Singleton
      <4> QED
        BY <3>4, <4>1, <4>2
    <3>6. Cardinality(S) <= 1
      BY <3>5
    <3> QED
      BY <3>1, <3>2, <3>6
  <2> HIDE DEF items, most, v, q
  <2>9. /\ UNION {ToSet(v(r)) : r \in Ranks} = 1..N
        /\ \A r, s \in Ranks : r # s => ToSet(v(r)) \cap ToSet(v(s)) = {}
        /\ \A r \in Ranks :
             /\ Len(v(r)) = items[r + 1]
             /\ v(r) # <<>> => ToSet(v(r)) = {i \in q(r)[1]..q(r)[2] : (i - q(r)[1]) % q(r)[3] = 0}
        /\ \A i, k \in 1..size : i < k =>
             IF div[2] = "right" THEN items[k] <= items[i] ELSE items[i] <= items[k]
        /\ div[1] # "equal" => \A i \in 1..size : items[i] \in {most, most - 1}
        /\ div[1] = "equal" => /\ \A i \in 1..size : items[i] <= most
                               /\ Cardinality({i \in 1..size : items[i] \in 1..(most - 1)}) <= 1
    BY <2>2, <2>3, <2>4, <2>5, <2>7, <2>8
  <2> QED
    BY <2>9, Zenon DEF ItemsDivided, items, most, v, q
<1> QED
  BY <1>1, InvariantOfStreams, PTL
=============================================================================
