-------------------------- MODULE ReadTable_proofs ---------------------------
(***************************************************************************)
(* For any number of ranks and any files and tables: ReadTable keeps       *)
(* OneReader, RowsInOrder, SharesOfGetJid and UnloadRestores.              *)
(*                                                                         *)
(* The shares of get.jid() are consecutive stretches, and together the     *)
(* jobs 1..n, each once (BlockShares).  A table on the ranks is a vector   *)
(* that is cut into blocks, and balancing moves it from one cut to         *)
(* another: what a rank sends, and in which order it receives, follows     *)
(* from where the two cuts are.                                            *)
(***************************************************************************)
EXTENDS ReadTable, WellFoundedInduction, TLAPS

------------------------------------------------------------------------------
(* Induction, with a set instead of a predicate                            *)

\* A nonempty set of natural numbers has a least element.
LEMMA LeastNatural ==
  ASSUME NEW T \in SUBSET Nat, T # {}
  PROVE  \E x \in T : \A y \in T : x <= y
<1>1. IsWellFoundedOn(OpToRel(<, Nat), Nat)
  BY NatLessThanWellFounded
<1>2. PICK x \in T : \A y \in T : ~ (<<y, x>> \in OpToRel(<, Nat))
  BY <1>1, WFMin
<1>3. \A y \in T : ~ (y < x)
  BY <1>2 DEF OpToRel
<1>4. QED
  BY <1>3

\* A set with 0 that is closed under successor holds every natural number.
LEMMA SetInductionNat ==
  ASSUME NEW T, 0 \in T, \A n \in Nat : n \in T => n + 1 \in T
  PROVE  \A n \in Nat : n \in T
<1>1. SUFFICES ASSUME Nat \ T # {} PROVE FALSE
  OBVIOUS
<1>2. PICK x \in Nat \ T : \A y \in Nat \ T : x <= y
  BY <1>1, LeastNatural
<1>3. x # 0 /\ x - 1 \in Nat
  BY <1>2
<1>4. x - 1 \in T
  BY <1>2, <1>3
<1>5. QED
  BY <1>2, <1>3, <1>4

------------------------------------------------------------------------------
(* Consecutive stretches, and how a number is divided                      *)

\* Bounds that do not fall divide 1..bound[last] into stretches: job k lies
\* between two neighbours.
LEMMA StretchOf ==
  ASSUME NEW p \in Nat, NEW bound \in [Nat -> Nat], bound[0] = 0
  PROVE  \A k \in Nat : 1 <= k /\ k <= bound[p] =>
           \E r \in 0..(p - 1) : bound[r] < k /\ k <= bound[r + 1]
<1> SUFFICES ASSUME NEW k \in Nat, 1 <= k, k <= bound[p]
             PROVE  \E r \in 0..(p - 1) : bound[r] < k /\ k <= bound[r + 1]
  OBVIOUS
<1> DEFINE Below == {r \in Nat : r <= p => bound[r] < k}
<1>1. 0 \in Below
  OBVIOUS
<1>2. ~ (p \in Below)
  <2>1. bound[p] \in Nat
    OBVIOUS
  <2>2. QED
    BY <2>1
<1>3. ~ \A r \in Nat : r \in Below => r + 1 \in Below
  <2> HIDE DEF Below
  <2> QED
    BY <1>1, <1>2, SetInductionNat
<1>4. PICK r \in Nat : r \in Below /\ ~ (r + 1 \in Below)
  BY <1>3
<1>5. r + 1 \in Nat /\ r + 1 <= p /\ ~ (bound[r + 1] < k)
  BY <1>4
<1>6. bound[r] \in Nat /\ bound[r + 1] \in Nat /\ bound[r] < k
  BY <1>4, <1>5
<1>7. QED
  BY <1>5, <1>6

\* Bounds that do not fall from one rank to the next do not fall at all.
LEMMA BoundsRise ==
  ASSUME NEW p \in Nat, NEW bound \in [Nat -> Nat],
         \A r \in Nat : r < p => bound[r] <= bound[r + 1]
  PROVE  \A r, s \in Nat : r <= s /\ s <= p => bound[r] <= bound[s]
<1> SUFFICES ASSUME NEW r \in Nat, NEW s \in Nat, r <= s, s <= p
             PROVE  bound[r] <= bound[s]
  OBVIOUS
<1> DEFINE Above == {t \in Nat : r <= t /\ t <= p => bound[r] <= bound[t]}
<1>1. 0 \in Above
  <2>1. CASE r = 0
    BY <2>1
  <2>2. CASE r # 0
    BY <2>2
  <2>3. QED
    BY <2>1, <2>2
<1>2. ASSUME NEW t \in Nat, t \in Above PROVE t + 1 \in Above
  <2>1. SUFFICES ASSUME r <= t + 1, t + 1 <= p PROVE bound[r] <= bound[t + 1]
    OBVIOUS
  <2>2. CASE r = t + 1
    <3>1. bound[r] \in Nat
      OBVIOUS
    <3>2. QED
      BY <2>2, <3>1
  <2>3. CASE r <= t
    <3>1. bound[r] <= bound[t] /\ bound[t] <= bound[t + 1]
      BY <1>2, <2>1, <2>3
    <3>2. bound[r] \in Nat /\ bound[t] \in Nat /\ bound[t + 1] \in Nat
      OBVIOUS
    <3>3. QED
      BY <3>1, <3>2
  <2>4. QED
    BY <2>1, <2>2, <2>3
<1>3. \A t \in Nat : t \in Above
  <2> HIDE DEF Above
  <2> QED
    BY <1>1, <1>2, SetInductionNat
<1>4. QED
  BY <1>3

\* The quotient and the remainder of the block methods
LEMMA Division ==
  ASSUME NEW n \in Nat, NEW p \in Nat \ {0}
  PROVE  /\ n \div p \in Nat /\ n % p \in Nat /\ n % p < p
         /\ n = p * (n \div p) + (n % p)
OBVIOUS

\* Products, of which the solver is told as much as the proofs need
LEMMA Distribute ==
  ASSUME NEW a \in Nat, NEW b \in Nat
  PROVE  /\ a * b \in Nat /\ (a + 1) * b = a * b + b /\ a * (b + 1) = a * b + a
OBVIOUS

LEMMA Subtract ==
  ASSUME NEW a \in Nat, NEW b \in Nat, NEW c \in Nat
  PROVE  (a - c) * b = a * b - c * b
OBVIOUS

\* How many of the ranks below r have one thing more than n \div p: it is the
\* "first" ranks that have one more, or the last ones.
Extra(n, first, p, r) ==
  IF first THEN (IF r < n % p THEN r ELSE n % p)
           ELSE (IF r < p - (n % p) THEN 0 ELSE r - (p - (n % p)))

\* The last of the things 1..n that the ranks below r have.
Bound(n, first, p, r) == r * (n \div p) + Extra(n, first, p, r)

\* From a rank to the next there is one of them more, or none.
LEMMA ExtraSteps ==
  ASSUME NEW n \in Nat, NEW p \in Nat \ {0}, NEW first \in BOOLEAN, NEW r \in Nat
  PROVE  /\ Extra(n, first, p, r) \in Nat
         /\ Extra(n, first, p, 0) = 0
         /\ Extra(n, first, p, p) = n % p
         /\ Extra(n, first, p, r + 1) \in
              {Extra(n, first, p, r), Extra(n, first, p, r) + 1}
<1>1. n % p \in Nat /\ n % p < p
  BY Division
<1> DEFINE m == n % p
           E(k) == IF first THEN (IF k < m THEN k ELSE m)
                            ELSE (IF k < p - m THEN 0 ELSE k - (p - m))
<1>2. /\ Extra(n, first, p, r) = E(r) /\ Extra(n, first, p, 0) = E(0)
      /\ Extra(n, first, p, p) = E(p) /\ Extra(n, first, p, r + 1) = E(r + 1)
  BY DEF Extra
<1>3. m \in Nat /\ m < p
  BY <1>1
<1>4. n % p = m
  OBVIOUS
<1> HIDE DEF m
<1>5. E(r) \in Nat /\ E(0) = 0 /\ E(p) = m /\ E(r + 1) \in {E(r), E(r) + 1}
  BY <1>3
<1>6. QED
  BY <1>2, <1>4, <1>5

\* The bounds rise from 0 to n.
LEMMA BoundSteps ==
  ASSUME NEW n \in Nat, NEW p \in Nat \ {0}, NEW first \in BOOLEAN, NEW r \in Nat
  PROVE  /\ Bound(n, first, p, r) \in Nat
         /\ Bound(n, first, p, 0) = 0
         /\ Bound(n, first, p, p) = n
         /\ Bound(n, first, p, r) <= Bound(n, first, p, r + 1)
<1> DEFINE q == n \div p
           m == n % p
<1>1. q \in Nat /\ m \in Nat /\ n = p * q + m
  BY Division
<1>2. r * q \in Nat /\ (r + 1) * q = r * q + q /\ 0 * q = 0
  BY <1>1, Distribute
<1>3. /\ Bound(n, first, p, r) = r * q + Extra(n, first, p, r)
      /\ Bound(n, first, p, r + 1) = (r + 1) * q + Extra(n, first, p, r + 1)
      /\ Bound(n, first, p, 0) = 0 * q + Extra(n, first, p, 0)
      /\ Bound(n, first, p, p) = p * q + Extra(n, first, p, p)
  BY DEF Bound
<1>4. /\ Extra(n, first, p, r) \in Nat
      /\ Extra(n, first, p, 0) = 0
      /\ Extra(n, first, p, p) = m
      /\ Extra(n, first, p, r + 1) \in {Extra(n, first, p, r), Extra(n, first, p, r) + 1}
  BY ExtraSteps
<1> HIDE DEF q, m
<1>5. QED
  BY <1>1, <1>2, <1>3, <1>4

Places ==
  {"start", "turn", "reading", "barrier", "balance", "send", "recv", "unload", "names", "done",
   "stopped"}

\* Only the rank whose turn it is has the file open.
ReaderInv ==
  /\ pc \in [Ranks -> Places]
  /\ \A r \in Ranks : pc[r] = "reading" => turn = r

\* A rank goes to a place where it does not read.
LEMMA GoesElsewhere ==
  ASSUME ReaderInv, NEW r \in Ranks, NEW place \in Places \ {"reading"},
         pc' = [pc EXCEPT ![r] = place], turn' = turn
  PROVE  ReaderInv'
BY DEF ReaderInv

\* The ranks stay where they are.
LEMMA StaysThere == ASSUME ReaderInv, pc' = pc, turn' = turn PROVE ReaderInv'
BY DEF ReaderInv

\* All ranks go together, to places where they do not read.
LEMMA AllGo ==
  ASSUME NEW place \in Places \ {"reading"}, pc' = [r \in Ranks |-> place]
  PROVE  ReaderInv'
BY DEF ReaderInv

LEMMA RootIsARank == 0 \in Ranks
BY SizeAssumption DEF Ranks

LEMMA SplitKeeps == ASSUME ReaderInv, Split PROVE ReaderInv'
<1>1. PICK place \in {"stopped", "names"} : pc' = [pc EXCEPT ![0] = place]
  BY DEF Split
<1>2. QED
  BY <1>1, RootIsARank, GoesElsewhere DEF Split, Places

LEMMA PredictKeeps == ASSUME ReaderInv, Predict PROVE ReaderInv'
BY RootIsARank, GoesElsewhere DEF Predict, Places

LEMMA SayNamesKeeps == ASSUME ReaderInv, SayNames PROVE ReaderInv'
BY RootIsARank, GoesElsewhere DEF SayNames, Places

\* Nobody reads when the turn passes on.
LEMMA NextTurnKeeps == ASSUME ReaderInv, NextTurn PROVE ReaderInv'
BY AllGo DEF NextTurn, Places

LEMMA ReadingKeeps == ASSUME ReaderInv, NEW r \in Ranks, Reading(r) PROVE ReaderInv'
<1>1. CASE OpenFile(r)
  BY <1>1 DEF OpenFile, ReaderInv, rtvars, Places
<1>2. CASE CloseFile(r)
  <2>1. PICK place \in {"stopped", "barrier"} : pc' = [pc EXCEPT ![r] = place]
    BY <1>2 DEF CloseFile
  <2>2. QED
    BY <1>2, <2>1, GoesElsewhere DEF CloseFile, Places
<1>3. CASE TakeChunk(r)
  BY <1>3, GoesElsewhere DEF TakeChunk, Places
<1>4. CASE TakePrediction(r)
  BY <1>4, GoesElsewhere DEF TakePrediction, rtvars, Places
<1>5. CASE LetRead(r)
  BY <1>5, GoesElsewhere DEF LetRead, rtvars, Places
<1>6. CASE TakeNames(r)
  BY <1>6, GoesElsewhere DEF TakeNames, Places
<1>7. QED
  BY <1>1, <1>2, <1>3, <1>4, <1>5, <1>6 DEF Reading

LEMMA EnterBalanceKeeps ==
  ASSUME ReaderInv, EnterLoad \/ EnterUnload
  PROVE  ReaderInv'
<1>1. PICK place \in {"stopped", "send"} : pc' = [r \in Ranks |-> place]
  BY DEF EnterLoad, EnterUnload
<1>2. QED
  BY <1>1, AllGo DEF Places

LEMMA BalancingKeeps ==
  ASSUME ReaderInv, NEW r \in Ranks, Balancing(r) \/ FinishBalance(r, After), UNCHANGED rtvars
  PROVE  ReaderInv'
<1>1. turn' = turn
  BY DEF rtvars
<1>2. \/ pc' = pc
      \/ \E place \in Places \ {"reading"} : pc' = [pc EXCEPT ![r] = place]
  <2>1. CASE SendPiece(r)
    BY <2>1 DEF SendPiece
  <2>2. CASE StartReceiving(r)
    BY <2>2 DEF StartReceiving, Places
  <2>3. CASE RecvPiece(r)
    <3>1. Bind(r, Head(net[Head(todo[r])][r]))
      BY <2>3 DEF RecvPiece
    <3>2. QED
      BY <3>1 DEF Bind, Places
  <2>4. CASE OwnPiece(r)
    <3>1. Bind(r, Piece(r, r))
      BY <2>4 DEF OwnPiece
    <3>2. QED
      BY <3>1 DEF Bind, Places
  <2>5. CASE FinishBalance(r, After)
    <3>1. pc' = [pc EXCEPT ![r] = After]
      BY <2>5 DEF FinishBalance
    <3>2. After \in Places \ {"reading"}
      BY DEF After, Places
    <3>3. QED
      BY <3>1, <3>2
  <2>6. QED
    BY <2>1, <2>2, <2>3, <2>4, <2>5 DEF Balancing
<1>3. QED
  BY <1>1, <1>2, StaysThere, GoesElsewhere

LEMMA ReaderInvariant == Spec => []ReaderInv
<1>1. Init => ReaderInv
  BY DEF Init, ReaderInv, Places
<1>2. ReaderInv /\ [Next]_vars => ReaderInv'
  <2>1. SUFFICES ASSUME ReaderInv, Next \/ UNCHANGED vars PROVE ReaderInv'
    OBVIOUS
  <2>2. CASE UNCHANGED vars
    BY <2>1, <2>2, StaysThere DEF vars, lbvars, rtvars
  <2>3. CASE Next
    BY <2>1, <2>2, <2>3, SplitKeeps, PredictKeeps, SayNamesKeeps, NextTurnKeeps, ReadingKeeps,
       EnterBalanceKeeps, BalancingKeeps DEF Next, Terminating
  <2>4. QED
    BY <2>1, <2>2, <2>3
<1>3. QED
  BY <1>1, <1>2, PTL DEF Spec

\* The ranks open a large file one after the other, however many ranks there
\* are and whatever the file (the loop with its barrier, R/comm_read.r:131-149).
THEOREM OnlyOneReads == Spec => []OneReader
<1>1. ReaderInv => OneReader
  BY DEF ReaderInv, OneReader
<1>2. QED
  BY <1>1, ReaderInvariant, PTL

------------------------------------------------------------------------------
(* The block methods of get.jid()                                          *)

\* divide.job.vector(): the share of rank r is the stretch between its bounds.
LEMMA ShareIsAStretch ==
  ASSUME NEW n \in Nat, NEW p \in Nat \ {0}, p < n, NEW way \in {"block", "block0"},
         NEW r \in 0..(p - 1)
  PROVE  JidVector(n, way, p, r) =
           Stretch(Bound(n, way = "block0", p, r) + 1,
                   Bound(n, way = "block0", p, r + 1) - Bound(n, way = "block0", p, r))
<1> DEFINE q == n \div p
           m == n % p
<1>1. q \in Nat /\ m \in Nat /\ m < p
  BY Division
<1>2. /\ r * q \in Nat /\ (r + 1) * q = r * q + q /\ r * (q + 1) = r * q + r
      /\ m * q \in Nat /\ m * (q + 1) = m * q + m
      /\ m <= r => (r - m) * q = r * q - m * q
  <2>1. ASSUME m <= r PROVE (r - m) * q = r * q - m * q
    BY <1>1, <2>1
  <2>2. QED
    BY <1>1, <2>1, Distribute
<1>3. /\ Bound(n, way = "block0", p, r) = r * q + Extra(n, way = "block0", p, r)
      /\ Bound(n, way = "block0", p, r + 1) = (r + 1) * q + Extra(n, way = "block0", p, r + 1)
  BY DEF Bound
<1>4. CASE way = "block"
  <2>1. JidVector(n, way, p, r) = BlockVector(n, p, r)
    BY <1>4 DEF JidVector
  <2>2. BlockVector(n, p, r) =
          IF r < p - m THEN Stretch(1 + r * q, q) ELSE Stretch(1 + r * (q + 1) - (p - m), q + 1)
    BY DEF BlockVector
  <2>3. CASE r < p - m
    <3>0. /\ Extra(n, way = "block0", p, r) = IF r < p - m THEN 0 ELSE r - (p - m)
          /\ Extra(n, way = "block0", p, r + 1) = IF r + 1 < p - m THEN 0 ELSE r + 1 - (p - m)
      BY <1>4 DEF Extra
    <3> HIDE DEF q, m
    <3>1. Extra(n, way = "block0", p, r) = 0 /\ Extra(n, way = "block0", p, r + 1) = 0
      BY <1>1, <2>3, <3>0
    <3>2. /\ Bound(n, way = "block0", p, r) + 1 = 1 + r * q
          /\ Bound(n, way = "block0", p, r + 1) - Bound(n, way = "block0", p, r) = q
      BY <1>1, <1>2, <1>3, <3>1
    <3>3. QED
      BY <2>1, <2>2, <2>3, <3>2
  <2>4. CASE ~ (r < p - m)
    <3>0. /\ Extra(n, way = "block0", p, r) = IF r < p - m THEN 0 ELSE r - (p - m)
          /\ Extra(n, way = "block0", p, r + 1) = IF r + 1 < p - m THEN 0 ELSE r + 1 - (p - m)
      BY <1>4 DEF Extra
    <3> HIDE DEF q, m
    <3>1. /\ Extra(n, way = "block0", p, r) = r - (p - m)
          /\ Extra(n, way = "block0", p, r + 1) = r + 1 - (p - m)
      BY <1>1, <2>4, <3>0
    <3>2. /\ Bound(n, way = "block0", p, r) + 1 = 1 + r * (q + 1) - (p - m)
          /\ Bound(n, way = "block0", p, r + 1) - Bound(n, way = "block0", p, r) = q + 1
      BY <1>1, <1>2, <1>3, <3>1
    <3>3. QED
      BY <2>1, <2>2, <2>4, <3>2
  <2>5. QED
    BY <2>3, <2>4
<1>5. CASE way = "block0"
  <2>1. JidVector(n, way, p, r) = Block0Vector(n, p, r)
    BY <1>5 DEF JidVector
  <2>2. Block0Vector(n, p, r) =
          IF r < m THEN Stretch(1 + r * (q + 1), q + 1)
                   ELSE Stretch(1 + m * (q + 1) + (r - m) * q, q)
    BY DEF Block0Vector
  <2>3. CASE r < m
    <3>1. Extra(n, way = "block0", p, r) = r /\ Extra(n, way = "block0", p, r + 1) = r + 1
      BY <1>1, <1>5, <2>3 DEF Extra
    <3> HIDE DEF q, m
    <3>2. /\ Bound(n, way = "block0", p, r) + 1 = 1 + r * (q + 1)
          /\ Bound(n, way = "block0", p, r + 1) - Bound(n, way = "block0", p, r) = q + 1
      BY <1>1, <1>2, <1>3, <3>1
    <3>3. QED
      BY <2>1, <2>2, <2>3, <3>2
  <2>4. CASE ~ (r < m)
    <3>1. Extra(n, way = "block0", p, r) = m /\ Extra(n, way = "block0", p, r + 1) = m
      BY <1>1, <1>5, <2>4 DEF Extra
    <3> HIDE DEF q, m
    <3>2. /\ Bound(n, way = "block0", p, r) + 1 = 1 + m * (q + 1) + (r - m) * q
          /\ Bound(n, way = "block0", p, r + 1) - Bound(n, way = "block0", p, r) = q
      BY <1>1, <1>2, <1>3, <2>4, <3>1
    <3>3. QED
      BY <2>1, <2>2, <2>4, <3>2
  <2>5. QED
    BY <2>3, <2>4
<1>6. QED
  BY <1>4, <1>5

------------------------------------------------------------------------------
\* The ranks that have a job: all of them, or with n <= p jobs the first n.
Served(n, p) == {r \in 0..(p - 1) : n > p \/ r < n}

\* get.jid() with method "block" or "block0" gives out every job 1..n, and lists
\* them in their order along the ranks: so no job has two ranks, and the blocks
\* bound in rank order are the jobs (R/api_tool.r:1-39; comm.read.table(),
\* comm.balance.info() and the apply functions put their results together so).
THEOREM BlockShares ==
  ASSUME NEW n \in Nat, NEW p \in Nat \ {0}, NEW way \in {"block", "block0"}
  PROVE  LET jid(r) == JidVector(n, way, p, r) IN
         /\ \A k \in 1..n : \E r \in Served(n, p) : \E i \in 1..Len(jid(r)) : jid(r)[i] = k
         /\ \A r \in Served(n, p) : \A i \in 1..Len(jid(r)) : jid(r)[i] \in 1..n
         /\ \A r, s \in Served(n, p) : \A i \in 1..Len(jid(r)), j \in 1..Len(jid(s)) :
              r < s \/ (r = s /\ i < j) => jid(r)[i] < jid(s)[j]
<1>1. CASE n <= p
  <2>1. \A r \in Served(n, p) : JidVector(n, way, p, r) = <<r + 1>>
    <3>1. TAKE r \in Served(n, p)
    <3>2. r < n /\ ~ (r >= n) /\ ~ (n > p)
      BY <1>1 DEF Served
    <3>3. QED
      BY <1>1, <3>2, Zenon DEF JidVector
  <2>2. \A k \in 1..n : k - 1 \in Served(n, p)
    BY <1>1 DEF Served
  <2>3. \A k \in 1..n : JidVector(n, way, p, k - 1) = <<k>>
    BY <2>1, <2>2
  <2>4. \A k \in 1..n : \E r \in Served(n, p) : \E i \in 1..Len(JidVector(n, way, p, r)) :
          JidVector(n, way, p, r)[i] = k
    <3>1. TAKE k \in 1..n
    <3>2. JidVector(n, way, p, k - 1) = <<k>> /\ k - 1 \in Served(n, p)
      BY <2>2, <2>3
    <3>3. 1 \in 1..Len(JidVector(n, way, p, k - 1)) /\ JidVector(n, way, p, k - 1)[1] = k
      BY <3>2
    <3>4. QED
      BY <3>2, <3>3
  <2>5. \A r \in Served(n, p) : r \in 0..(n - 1)
    BY <1>1 DEF Served
  <2> DEFINE jid(r) == JidVector(n, way, p, r)
  <2>6. \A r \in Served(n, p) : Len(jid(r)) = 1 /\ jid(r)[1] = r + 1
    BY <2>1
  <2> HIDE DEF jid
  <2>7. \A r \in Served(n, p) : \A i \in 1..Len(jid(r)) : jid(r)[i] = r + 1 /\ i = 1
    <3> TAKE r \in Served(n, p)
    <3> TAKE i \in 1..Len(jid(r))
    <3>1. i \in 1..1
      BY <2>6
    <3>2. i = 1
      BY <3>1
    <3>3. QED
      BY <2>6, <3>2
  <2>8. \A r \in Served(n, p) : \A i \in 1..Len(jid(r)) : jid(r)[i] \in 1..n
    BY <2>5, <2>7
  <2>9. \A r, s \in Served(n, p) : \A i \in 1..Len(jid(r)), j \in 1..Len(jid(s)) :
          r < s \/ (r = s /\ i < j) => jid(r)[i] < jid(s)[j]
    BY <2>5, <2>7
  <2>10. QED
    BY <2>4, <2>8, <2>9 DEF jid
<1>2. CASE n > p
  <2> DEFINE b == [r \in Nat |-> Bound(n, way = "block0", p, r)]
             jid(r) == JidVector(n, way, p, r)
  <2>1. /\ p \in Nat /\ b \in [Nat -> Nat] /\ b[0] = 0 /\ b[p] = n
        /\ \A r \in Nat : r < p => b[r] <= b[r + 1]
    <3>1. \A r \in Nat :
            /\ Bound(n, way = "block0", p, r) \in Nat
            /\ Bound(n, way = "block0", p, r) <= Bound(n, way = "block0", p, r + 1)
      BY BoundSteps
    <3>2. Bound(n, way = "block0", p, 0) = 0 /\ Bound(n, way = "block0", p, p) = n
      BY BoundSteps
    <3>3. QED
      BY <3>1, <3>2
  <2> HIDE DEF b
  <2>10. \A r, s \in Nat : r <= s /\ s <= p => b[r] <= b[s]
    BY <2>1, BoundsRise
  <2>11. \A k \in Nat : 1 <= k /\ k <= b[p] => \E r \in 0..(p - 1) : b[r] < k /\ k <= b[r + 1]
    BY <2>1, StretchOf
  <2> USE DEF b
  <2>2. Served(n, p) = 0..(p - 1)
    BY <1>2 DEF Served
  <2>3. \A r \in 0..(p - 1) : jid(r) = Stretch(b[r] + 1, b[r + 1] - b[r])
    <3>1. TAKE r \in 0..(p - 1)
    <3>2. r \in Nat /\ r + 1 \in Nat
      OBVIOUS
    <3>3. b[r] = Bound(n, way = "block0", p, r) /\ b[r + 1] = Bound(n, way = "block0", p, r + 1)
      BY <3>2
    <3>4. QED
      BY <1>2, <3>3, ShareIsAStretch
  <2> HIDE DEF b, jid
  <2>4. \A r \in 0..(p - 1) :
          /\ r \in Nat /\ r + 1 \in Nat /\ b[r] \in Nat /\ b[r + 1] \in Nat
          /\ b[r] <= b[r + 1] /\ b[r + 1] <= n
    <3>1. TAKE r \in 0..(p - 1)
    <3>2. r \in Nat /\ r + 1 \in Nat /\ r + 1 <= p
      OBVIOUS
    <3>3. b[r + 1] <= b[p]
      BY <2>1, <2>10, <3>2
    <3>4. QED
      BY <2>1, <3>2, <3>3
  <2>5. \A r \in 0..(p - 1) :
          /\ Len(jid(r)) = b[r + 1] - b[r]
          /\ \A i \in 1..Len(jid(r)) : jid(r)[i] = b[r] + i
    <3>1. TAKE r \in 0..(p - 1)
    <3>2. PICK c, d \in Nat : c = b[r] /\ d = b[r + 1] - b[r]
      <4>1. b[r] \in Nat /\ b[r + 1] - b[r] \in Nat
        BY <2>4
      <4>2. QED
        BY <4>1
    <3>3. jid(r) = [i \in 1..d |-> c + 1 + i - 1]
      BY <2>3, <3>2 DEF Stretch
    <3>4. Len(jid(r)) = d /\ \A i \in 1..d : jid(r)[i] = c + i
      BY <3>3
    <3>5. QED
      BY <3>2, <3>4
  <2>6. \A k \in 1..n : \E r \in 0..(p - 1) : \E i \in 1..Len(jid(r)) : jid(r)[i] = k
    <3>1. TAKE k \in 1..n
    <3>2. PICK r \in 0..(p - 1) : b[r] < k /\ k <= b[r + 1]
      BY <2>1, <2>11
    <3>3. /\ k - b[r] \in 1..Len(jid(r))
          /\ b[r] + (k - b[r]) = k
      <4>1. b[r] \in Nat /\ b[r + 1] \in Nat /\ Len(jid(r)) = b[r + 1] - b[r]
        BY <2>4, <2>5
      <4>2. QED
        BY <3>2, <4>1
    <3>4. QED
      BY <2>5, <3>3
  <2>7. \A r \in 0..(p - 1) : \A i \in 1..Len(jid(r)) : jid(r)[i] \in 1..n
    <3> TAKE r \in 0..(p - 1)
    <3> TAKE i \in 1..Len(jid(r))
    <3>2. jid(r)[i] = b[r] + i /\ i \in 1..(b[r + 1] - b[r])
      BY <2>5
    <3>3. b[r] \in Nat /\ b[r + 1] \in Nat /\ b[r + 1] <= n
      BY <2>4
    <3>4. QED
      BY <3>2, <3>3
  <2>8. \A r, s \in 0..(p - 1) : \A i \in 1..Len(jid(r)), j \in 1..Len(jid(s)) :
          r < s \/ (r = s /\ i < j) => jid(r)[i] < jid(s)[j]
    <3>1. SUFFICES ASSUME NEW r \in 0..(p - 1), NEW s \in 0..(p - 1),
                          NEW i \in 1..Len(jid(r)), NEW j \in 1..Len(jid(s)),
                          r < s \/ (r = s /\ i < j)
                   PROVE  jid(r)[i] < jid(s)[j]
      OBVIOUS
    <3>2. jid(r)[i] = b[r] + i /\ jid(s)[j] = b[s] + j
      BY <2>5
    <3>3. CASE r = s /\ i < j
      BY <2>4, <2>5, <3>2, <3>3
    <3>4. CASE r < s
      <4>1. b[r + 1] <= b[s]
        BY <2>1, <2>10, <3>4
      <4>2. i \in 1..(b[r + 1] - b[r]) /\ j \in Nat /\ 1 <= j
        <5>1. Len(jid(r)) = b[r + 1] - b[r] /\ Len(jid(s)) = b[s + 1] - b[s]
          BY <2>5
        <5>2. b[s + 1] \in Nat /\ b[s] \in Nat
          BY <2>4
        <5>3. QED
          BY <5>1, <5>2
      <4>3. b[r] \in Nat /\ b[r + 1] \in Nat /\ b[s] \in Nat
        BY <2>4
      <4>4. b[r] + i < b[s] + j
        <5>1. i <= b[r + 1] - b[r] /\ i \in Int
          BY <4>2
        <5>2. b[r] + i <= b[s]
          BY <4>1, <4>3, <5>1
        <5>3. QED
          BY <4>2, <4>3, <5>1, <5>2
      <4>5. QED
        BY <3>2, <4>4
    <3>5. QED
      BY <3>1, <3>3, <3>4
  <2>9. QED
    BY <2>2, <2>6, <2>7, <2>8 DEF jid
<1>3. QED
  BY <1>1, <1>2

------------------------------------------------------------------------------
(* Parts of a vector                                                       *)

\* a[lo + 1], ..., a[hi]
Part(a, lo, hi) == [i \in 1..(hi - lo) |-> a[lo + i]]

IsPart(s, a, lo, hi) ==
  s \in Seq(Nat) /\ Len(s) = hi - lo /\ \A i \in 1..(hi - lo) : s[i] = a[lo + i]

\* What a part of a vector is
LEMMA PartIs ==
  ASSUME NEW a \in Seq(Nat), NEW lo \in Nat, NEW hi \in Nat, lo <= hi, hi <= Len(a)
  PROVE  IsPart(Part(a, lo, hi), a, lo, hi)
<1>1. \A i \in 1..(hi - lo) : a[lo + i] \in Nat
  <2>1. ASSUME NEW i \in 1..(hi - lo) PROVE a[lo + i] \in Nat
    <3>1. lo + i \in 1..Len(a)
      OBVIOUS
    <3>2. QED
      BY <3>1
  <2>2. QED
    BY <2>1
<1>2. PICK n \in Nat : n = hi - lo
  OBVIOUS
<1>3. Part(a, lo, hi) = [i \in 1..n |-> a[lo + i]]
  BY <1>2 DEF Part
<1>4. QED
  BY <1>1, <1>2, <1>3 DEF IsPart

\* A part without places is empty.
LEMMA PartIsEmpty ==
  ASSUME NEW a \in Seq(Nat), NEW lo \in Nat
  PROVE  Part(a, lo, lo) = <<>>
BY DEF Part

\* When a sequence is another one with one element more
LEMMA AppendIs ==
  ASSUME NEW s \in Seq(Nat), NEW t \in Seq(Nat), NEW x \in Nat, NEW n \in Nat,
         Len(s) = n, Len(t) = n + 1, t[n + 1] = x, \A i \in 1..n : t[i] = s[i]
  PROVE  Append(s, x) = t
<1>1. Append(s, x) \in Seq(Nat) /\ Len(Append(s, x)) = n + 1
  OBVIOUS
<1>2. \A i \in 1..(n + 1) : Append(s, x)[i] = t[i]
  OBVIOUS
<1>3. QED
  BY <1>1, <1>2

\* What two sequences give one after the other
LEMMA JoinLength ==
  ASSUME NEW s \in Seq(Nat), NEW t \in Seq(Nat)
  PROVE  /\ s \o t \in Seq(Nat) /\ Len(s \o t) = Len(s) + Len(t)
         /\ \A i \in 1..Len(s) : (s \o t)[i] = s[i]
         /\ \A i \in 1..Len(t) : (s \o t)[Len(s) + i] = t[i]
<1>1. s \o t \in Seq(Nat)
  OBVIOUS
<1>2. Len(s \o t) = Len(s) + Len(t)
  OBVIOUS
<1>3. \A i \in 1..Len(s) : (s \o t)[i] = s[i]
  OBVIOUS
<1>4. ASSUME NEW i \in 1..Len(t) PROVE (s \o t)[Len(s) + i] = t[i]
  <2>1. Len(s) + i > Len(s) /\ (Len(s) + i) - Len(s) = i /\ Len(s) + i \in 1..(Len(s) + Len(t))
    OBVIOUS
  <2>2. QED
    BY <2>1
<1>5. QED
  BY <1>1, <1>2, <1>3, <1>4

\* Sequences with the same elements are the same.
LEMMA SameSequence ==
  ASSUME NEW s \in Seq(Nat), NEW t \in Seq(Nat), Len(s) = Len(t),
         \A i \in 1..Len(s) : s[i] = t[i]
  PROVE  s = t
OBVIOUS

\* When a sequence is two others one after the other
LEMMA JoinIs ==
  ASSUME NEW s \in Seq(Nat), NEW t \in Seq(Nat), NEW u \in Seq(Nat),
         Len(u) = Len(s) + Len(t),
         \A i \in 1..Len(s) : u[i] = s[i], \A i \in 1..Len(t) : u[Len(s) + i] = t[i]
  PROVE  s \o t = u
<1>1. PICK w \in Seq(Nat) : w = s \o t
  BY JoinLength
<1>2. /\ Len(w) = Len(s) + Len(t) /\ \A i \in 1..Len(s) : w[i] = s[i]
      /\ \A i \in 1..Len(t) : w[Len(s) + i] = t[i]
  BY <1>1, JoinLength
<1>3. PICK n \in Nat, m \in Nat : n = Len(s) /\ m = Len(t)
  OBVIOUS
<1>4. ASSUME NEW i \in 1..(n + m) PROVE w[i] = u[i]
  <2>1. CASE i <= n
    <3>1. i \in 1..Len(s)
      BY <1>3, <2>1
    <3>2. QED
      BY <1>2, <3>1
  <2>2. CASE ~ (i <= n)
    <3>1. PICK j \in 1..m : i = n + j
      <4>1. i - n \in 1..m /\ i = n + (i - n)
        BY <2>2
      <4>2. QED
        BY <4>1
    <3>2. j \in 1..Len(t) /\ i = Len(s) + j
      BY <1>3, <3>1
    <3>3. QED
      BY <1>2, <3>2
  <2>3. QED
    BY <2>1, <2>2
<1>5. Len(w) = n + m /\ Len(u) = n + m
  BY <1>2, <1>3
<1>6. w = u
  BY <1>4, <1>5, SameSequence
<1>7. QED
  BY <1>1, <1>6

\* A part and the element after it are a part.
LEMMA PartGrows ==
  ASSUME NEW a \in Seq(Nat), NEW lo \in Nat, NEW k \in Nat, lo <= k, k + 1 <= Len(a)
  PROVE  Append(Part(a, lo, k), a[k + 1]) = Part(a, lo, k + 1)
<1>0. /\ k + 1 \in Nat /\ lo <= k + 1 /\ k <= Len(a) /\ k + 1 \in 1..Len(a)
      /\ Len(a) \in Nat
  OBVIOUS
<1>1. IsPart(Part(a, lo, k), a, lo, k)
  BY <1>0, PartIs
<1>2. IsPart(Part(a, lo, k + 1), a, lo, k + 1)
  BY <1>0, PartIs
<1>3. PICK s \in Seq(Nat), t \in Seq(Nat), n \in Nat, x \in Nat :
        s = Part(a, lo, k) /\ t = Part(a, lo, k + 1) /\ n = k - lo /\ x = a[k + 1]
  <2>1. Part(a, lo, k) \in Seq(Nat) /\ Part(a, lo, k + 1) \in Seq(Nat)
    BY <1>1, <1>2 DEF IsPart
  <2>2. k - lo \in Nat /\ a[k + 1] \in Nat
    BY <1>0
  <2>3. QED
    BY <2>1, <2>2
<1>4. Len(s) = n /\ \A i \in 1..n : s[i] = a[lo + i]
  BY <1>1, <1>3 DEF IsPart
<1>5. Len(t) = n + 1 /\ \A i \in 1..(n + 1) : t[i] = a[lo + i]
  BY <1>2, <1>3 DEF IsPart
<1>6. lo + (n + 1) = k + 1 /\ n + 1 \in 1..(n + 1)
  BY <1>3
<1>7. t[n + 1] = x /\ \A i \in 1..n : t[i] = s[i]
  <2>1. t[n + 1] = x
    BY <1>3, <1>5, <1>6
  <2>2. ASSUME NEW i \in 1..n PROVE t[i] = s[i]
    <3>1. i \in 1..(n + 1)
      OBVIOUS
    <3>2. QED
      BY <1>4, <1>5, <3>1
  <2>3. QED
    BY <2>1, <2>2
<1>8. Append(s, x) = t
  BY <1>4, <1>5, <1>7, AppendIs
<1>9. QED
  BY <1>3, <1>8

\* Two parts with a common end are a part.
LEMMA PartsJoin ==
  ASSUME NEW a \in Seq(Nat), NEW lo \in Nat, NEW mid \in Nat, NEW hi \in Nat,
         lo <= mid, mid <= hi, hi <= Len(a)
  PROVE  Part(a, lo, mid) \o Part(a, mid, hi) = Part(a, lo, hi)
<1>0. Len(a) \in Nat /\ mid <= Len(a) /\ lo <= hi
  OBVIOUS
<1>1. IsPart(Part(a, lo, mid), a, lo, mid)
  BY <1>0, PartIs
<1>2. IsPart(Part(a, mid, hi), a, mid, hi)
  BY <1>0, PartIs
<1>3. IsPart(Part(a, lo, hi), a, lo, hi)
  BY <1>0, PartIs
<1>4. PICK s \in Seq(Nat), t \in Seq(Nat), u \in Seq(Nat), n \in Nat, m \in Nat :
        /\ s = Part(a, lo, mid) /\ t = Part(a, mid, hi) /\ u = Part(a, lo, hi)
        /\ n = mid - lo /\ m = hi - mid
  BY <1>1, <1>2, <1>3 DEF IsPart
<1>5. Len(s) = n /\ \A i \in 1..n : s[i] = a[lo + i]
  BY <1>1, <1>4 DEF IsPart
<1>6. Len(t) = m /\ \A i \in 1..m : t[i] = a[mid + i]
  BY <1>2, <1>4 DEF IsPart
<1>7. Len(u) = n + m /\ \A i \in 1..(n + m) : u[i] = a[lo + i]
  <2>1. hi - lo = n + m
    BY <1>4
  <2>2. QED
    BY <1>3, <1>4, <2>1 DEF IsPart
<1>8. \A i \in 1..n : u[i] = s[i]
  <2>1. ASSUME NEW i \in 1..n PROVE u[i] = s[i]
    <3>1. i \in 1..(n + m)
      OBVIOUS
    <3>2. QED
      BY <1>5, <1>7, <3>1
  <2>2. QED
    BY <2>1
<1>9. \A i \in 1..m : u[n + i] = t[i]
  <2>1. ASSUME NEW i \in 1..m PROVE u[n + i] = t[i]
    <3>1. n + i \in 1..(n + m) /\ lo + (n + i) = mid + i
      BY <1>4
    <3>2. QED
      BY <1>6, <1>7, <3>1
  <2>2. QED
    BY <2>1
<1>10. /\ Len(u) = Len(s) + Len(t)
       /\ \A i \in 1..Len(s) : u[i] = s[i]
       /\ \A i \in 1..Len(t) : u[Len(s) + i] = t[i]
  BY <1>5, <1>6, <1>7, <1>8, <1>9
<1>11. s \o t = u
  BY <1>10, JoinIs
<1>12. QED
  BY <1>4, <1>11

\* a[b == v], where v is at the places lo + 1, ..., hi of b
LEMMA WhereStretch ==
  ASSUME NEW a \in Seq(Nat), NEW b \in Seq(Nat), Len(b) = Len(a), NEW v, NEW lo \in Nat, NEW hi \in Nat,
         lo <= hi, hi <= Len(a), \A k \in 1..Len(a) : b[k] = v <=> (lo < k /\ k <= hi)
  PROVE  Where(a, b, v) = Part(a, lo, hi)
<1> DEFINE next(f, k) ==
             IF k = 0 THEN <<>> ELSE IF b[k] = v THEN Append(f[k - 1], a[k]) ELSE f[k - 1]
           mid(k) == IF k <= lo THEN lo ELSE IF k <= hi THEN k ELSE hi
           n == Len(a)
           g == [k \in 0..n |-> Part(a, lo, mid(k))]
<1>1. Part(a, lo, mid(0)) = <<>>
  BY PartIsEmpty
<1>2. ASSUME NEW k \in Nat, k + 1 <= n
      PROVE  Part(a, lo, mid(k + 1)) =
               IF b[k + 1] = v THEN Append(Part(a, lo, mid(k)), a[k + 1]) ELSE Part(a, lo, mid(k))
  <2>1. k + 1 \in 1..n
    BY <1>2
  <2>2. CASE b[k + 1] = v
    <3>1. lo < k + 1 /\ k + 1 <= hi
      BY <2>1, <2>2
    <3>2. mid(k + 1) = k + 1 /\ mid(k) = k /\ lo <= k
      BY <3>1
    <3>3. Append(Part(a, lo, k), a[k + 1]) = Part(a, lo, k + 1)
      BY <1>2, <3>2, PartGrows
    <3>4. QED
      BY <2>2, <3>2, <3>3
  <2>3. CASE b[k + 1] # v
    <3>1. ~ (lo < k + 1 /\ k + 1 <= hi)
      BY <2>1, <2>3
    <3>2. mid(k + 1) = mid(k)
      BY <3>1
    <3>3. QED
      BY <2>3, <3>2
  <2>4. QED
    BY <2>2, <2>3
<1>3. mid(n) = hi
  OBVIOUS
<1> HIDE DEF mid
<1>4. g = [k \in 0..n |-> next(g, k)]
  <2>1. ASSUME NEW k \in 0..n PROVE g[k] = next(g, k)
    <3>1. CASE k = 0
      BY <1>1, <3>1
    <3>2. CASE k # 0
      <4>1. k - 1 \in Nat /\ (k - 1) + 1 = k /\ k - 1 \in 0..n /\ (k - 1) + 1 <= n
        BY <3>2
      <4>2. Part(a, lo, mid(k)) =
              IF b[k] = v THEN Append(Part(a, lo, mid(k - 1)), a[k]) ELSE Part(a, lo, mid(k - 1))
        BY <1>2, <4>1
      <4>3. QED
        BY <3>2, <4>1, <4>2
    <3>3. QED
      BY <3>1, <3>2
  <2>2. g = [k \in 0..n |-> g[k]]
    OBVIOUS
  <2> HIDE DEF g, next
  <2>3. QED
    BY <2>1, <2>2
<1>5. PICK f : f = [k \in 0..n |-> next(f, k)] /\ Where(a, b, v) = f[n]
  <2>1. \E f : f = [k \in 0..n |-> next(f, k)]
    BY <1>4
  <2>2. QED
    BY <2>1 DEF Where
<1> DEFINE G == {k \in Nat : k <= n => f[k] = Part(a, lo, mid(k))}
<1>6. 0 \in G
  BY <1>1, <1>5
<1>7. ASSUME NEW k \in Nat, k \in G PROVE k + 1 \in G
  <2>1. SUFFICES ASSUME k + 1 <= n PROVE f[k + 1] = Part(a, lo, mid(k + 1))
    OBVIOUS
  <2>2. k + 1 \in 0..n /\ k + 1 # 0 /\ (k + 1) - 1 = k /\ k <= n
    BY <2>1
  <2>3. f[k + 1] = IF b[k + 1] = v THEN Append(f[k], a[k + 1]) ELSE f[k]
    BY <1>5, <2>2
  <2>4. f[k] = Part(a, lo, mid(k))
    BY <1>7, <2>2
  <2>5. QED
    BY <1>2, <2>1, <2>3, <2>4
<1>8. \A k \in Nat : k \in G
  <2> HIDE DEF G
  <2> QED
    BY <1>6, <1>7, SetInductionNat
<1>9. n \in Nat /\ f[n] = Part(a, lo, mid(n))
  <2>1. n \in Nat
    OBVIOUS
  <2>2. QED
    BY <1>8, <2>1
<1>10. QED
  BY <1>3, <1>5, <1>9

\* The list s names the owners of the places x + 1, ..., z, each once, in rising order.
RisesStrictly(s) == \A i, j \in 1..Len(s) : i < j => s[i] < s[j]
SameValues(s, own, lo, hi) ==
  /\ \A i \in 1..Len(s) : \E j \in lo..hi : s[i] = own[j]
  /\ \A j \in lo..hi : \E i \in 1..Len(s) : s[i] = own[j]
Lists(s, own, x, z) ==
  s \in Seq(Nat) /\ RisesStrictly(s) /\ SameValues(s, own, x + 1, z)

\* What a sequence with one element more is
LEMMA AppendProps ==
  ASSUME NEW s \in Seq(Nat), NEW x \in Nat
  PROVE  /\ Append(s, x) \in Seq(Nat) /\ Len(Append(s, x)) = Len(s) + 1
         /\ Append(s, x)[Len(s) + 1] = x
         /\ \A i \in 1..Len(s) : Append(s, x)[i] = s[i]
OBVIOUS

\* A rising list of the owners of the first k places lists them.
LEMMA ListsFromStart ==
  ASSUME NEW own, NEW k, NEW s \in Seq(Nat), RisesStrictly(s), SameValues(s, own, 1, k)
  PROVE  Lists(s, own, 0, k)
BY DEF Lists

\* The empty list names the owners of no place.
LEMMA ListsNothing == ASSUME NEW own PROVE Lists(<<>>, own, 0, 0)
BY DEF Lists, RisesStrictly, SameValues

\* The next owner is in the list already, or follows all of it.
LEMMA ListsMore ==
  ASSUME NEW own \in Seq(Nat), NEW k \in Nat, k + 1 <= Len(own), NEW s, Lists(s, own, 0, k),
         \A i \in 1..k : own[i] <= own[k + 1]
  PROVE  Lists(IF \E j \in 1..k : own[j] = own[k + 1] THEN s ELSE Append(s, own[k + 1]),
               own, 0, k + 1)
<1>1. s \in Seq(Nat) /\ Len(s) \in Nat /\ RisesStrictly(s)
  BY DEF Lists
<1>2. /\ \A i \in 1..Len(s) : \E j \in 1..k : s[i] = own[j]
      /\ \A j \in 1..k : \E i \in 1..Len(s) : s[i] = own[j]
  BY DEF Lists, SameValues
<1>3. k + 1 \in 1..Len(own) /\ \A j \in 1..k : j \in 1..Len(own) /\ j \in 1..(k + 1)
  OBVIOUS
<1>4. PICK x \in Nat : x = own[k + 1]
  BY <1>3
<1>5. CASE \E j \in 1..k : own[j] = own[k + 1]
  <2>1. \A i \in 1..Len(s) : \E j \in 1..(k + 1) : s[i] = own[j]
    BY <1>2, <1>3
  <2>2. ASSUME NEW j \in 1..(k + 1) PROVE \E i \in 1..Len(s) : s[i] = own[j]
    <3>1. CASE j = k + 1
      BY <1>2, <1>5, <3>1
    <3>2. CASE j # k + 1
      <4>1. j \in 1..k
        BY <3>2
      <4>2. QED
        BY <1>2, <4>1
    <3>3. QED
      BY <3>1, <3>2
  <2>3. SameValues(s, own, 1, k + 1)
    BY <2>1, <2>2 DEF SameValues
  <2>5. Lists(s, own, 0, k + 1)
    BY <1>1, <2>3, ListsFromStart
  <2>4. QED
    BY <1>5, <2>5
<1>6. CASE ~ \E j \in 1..k : own[j] = own[k + 1]
  <2>1. PICK t \in Seq(Nat) : t = Append(s, x)
    BY <1>1, AppendProps
  <2>2. Len(t) = Len(s) + 1 /\ t[Len(s) + 1] = x /\ \A i \in 1..Len(s) : t[i] = s[i]
    BY <1>1, <2>1, AppendProps
  <2>3. PICK n \in Nat : n = Len(s)
    BY <1>1
  <2>4. \A i \in 1..n : s[i] \in Nat /\ s[i] < x
    <3>1. ASSUME NEW i \in 1..n PROVE s[i] \in Nat /\ s[i] < x
      <4>1. i \in 1..Len(s)
        BY <2>3
      <4>2. PICK j \in 1..k : s[i] = own[j]
        BY <1>2, <4>1
      <4>3. own[j] <= x /\ own[j] # x /\ own[j] \in Nat
        BY <1>3, <1>4, <1>6
      <4>4. QED
        BY <4>2, <4>3
    <3>2. QED
      BY <3>1
  <2>5. RisesStrictly(t)
    <3>1. ASSUME NEW i \in 1..(n + 1), NEW j \in 1..(n + 1), i < j PROVE t[i] < t[j]
      <4>1. i \in 1..n /\ t[i] = s[i]
        <5>1. i \in 1..n
          BY <3>1
        <5>2. QED
          BY <2>2, <2>3, <5>1
      <4>2. CASE j = n + 1
        BY <2>2, <2>3, <2>4, <4>1, <4>2
      <4>3. CASE j # n + 1
        <5>1. j \in 1..n /\ t[j] = s[j]
          <6>1. j \in 1..n
            BY <4>3
          <6>2. QED
            BY <2>2, <2>3, <6>1
        <5>2. QED
          BY <1>1, <2>3, <3>1, <4>1, <5>1 DEF RisesStrictly
      <4>4. QED
        BY <4>2, <4>3
    <3>2. QED
      BY <2>2, <2>3, <3>1 DEF RisesStrictly
  <2>6. ASSUME NEW i \in 1..Len(t) PROVE \E j \in 1..(k + 1) : t[i] = own[j]
    <3>1. CASE i = Len(s) + 1
      BY <1>4, <2>2, <3>1
    <3>2. CASE i # Len(s) + 1
      <4>1. i \in 1..Len(s)
        BY <1>1, <2>2, <3>2
      <4>2. PICK j \in 1..k : s[i] = own[j]
        BY <1>2, <4>1
      <4>3. j \in 1..(k + 1)
        OBVIOUS
      <4>4. t[i] = s[i]
        BY <2>2, <4>1
      <4>5. QED
        BY <4>2, <4>3, <4>4
    <3>3. QED
      BY <3>1, <3>2
  <2>7. ASSUME NEW j \in 1..(k + 1) PROVE \E i \in 1..Len(t) : t[i] = own[j]
    <3>1. CASE j = k + 1
      <4>1. Len(s) + 1 \in 1..Len(t)
        BY <1>1, <2>2
      <4>2. QED
        BY <1>4, <2>2, <3>1, <4>1
    <3>2. CASE j # k + 1
      <4>1. j \in 1..k
        BY <3>2
      <4>2. PICK i \in 1..Len(s) : s[i] = own[j]
        BY <1>2, <4>1
      <4>3. i \in 1..Len(t) /\ t[i] = own[j]
        BY <1>1, <2>2, <4>2
      <4>4. QED
        BY <4>3
    <3>3. QED
      BY <3>1, <3>2
  <2>10. SameValues(t, own, 1, k + 1)
    BY <2>6, <2>7 DEF SameValues
  <2>8. Lists(t, own, 0, k + 1)
    BY <2>1, <2>5, <2>10, ListsFromStart
  <2>9. QED
    BY <1>4, <1>6, <2>1, <2>8
<1>7. QED
  BY <1>5, <1>6

\* unique() of a vector that does not fall
LEMMA UniqueLists ==
  ASSUME NEW w \in Seq(Nat), \A i, j \in 1..Len(w) : i <= j => w[i] <= w[j]
  PROVE  Lists(Unique(w), w, 0, Len(w))
<1> DEFINE next(f, k) ==
             IF k = 0 THEN <<>>
             ELSE IF \E j \in 1..(k - 1) : w[j] = w[k] THEN f[k - 1] ELSE Append(f[k - 1], w[k])
           n == Len(w)
           Made == {m \in Nat : \E f : f = [k \in 0..m |-> next(f, k)]}
<1>0. n \in Nat
  OBVIOUS
<1>1. 0 \in Made
  <2>1. [k \in 0..0 |-> <<>>] = [k \in 0..0 |-> next([j \in 0..0 |-> <<>>], k)]
    OBVIOUS
  <2>2. QED
    BY <2>1
<1>2. ASSUME NEW m \in Nat, m \in Made PROVE m + 1 \in Made
  <2>1. PICK f : f = [k \in 0..m |-> next(f, k)]
    BY <1>2
  <2> DEFINE g == [k \in 0..(m + 1) |-> IF k <= m THEN f[k] ELSE next(f, m + 1)]
  <2>2. \A k \in 0..(m + 1) : g[k] = next(g, k)
    <3>1. ASSUME NEW k \in 0..(m + 1) PROVE g[k] = next(g, k)
      <4>1. CASE k = 0
        BY <2>1, <4>1
      <4>2. CASE k # 0
        <5>1. k - 1 \in 0..m /\ k - 1 \in 0..(m + 1) /\ k - 1 <= m
          BY <4>2
        <5>2. g[k - 1] = f[k - 1]
          BY <5>1
        <5>3. g[k] = next(f, k)
          <6>1. CASE k <= m
            <7>1. k \in 0..m /\ g[k] = f[k]
              BY <6>1
            <7> HIDE DEF next, g
            <7>2. f[k] = next(f, k)
              BY <2>1, <7>1
            <7>3. QED
              BY <7>1, <7>2
          <6>2. CASE ~ (k <= m)
            <7>1. k = m + 1
              BY <6>2
            <7>2. QED
              BY <7>1
          <6>3. QED
            BY <6>1, <6>2
        <5> HIDE DEF g
        <5>4. QED
          BY <4>2, <5>2, <5>3
      <4>3. QED
        BY <4>1, <4>2
    <3>2. QED
      BY <3>1
  <2>3. g = [k \in 0..(m + 1) |-> g[k]]
    OBVIOUS
  <2> HIDE DEF g, next
  <2>4. g = [k \in 0..(m + 1) |-> next(g, k)]
    BY <2>2, <2>3
  <2>5. QED
    BY <2>4
<1>3. n \in Made
  <2>1. \A m \in Nat : m \in Made
    <3> HIDE DEF Made
    <3> QED
      BY <1>1, <1>2, SetInductionNat
  <2>2. QED
    BY <1>0, <2>1
<1>4. PICK f : f = [k \in 0..n |-> next(f, k)] /\ Unique(w) = f[n]
  <2>1. \E f : f = [k \in 0..n |-> next(f, k)]
    BY <1>3
  <2>2. QED
    BY <2>1 DEF Unique
<1> DEFINE G == {k \in Nat : k <= n => Lists(f[k], w, 0, k)}
<1>6. 0 \in G
  BY <1>4, ListsNothing
<1>7. ASSUME NEW k \in Nat, k \in G PROVE k + 1 \in G
  <2>1. SUFFICES ASSUME k + 1 <= n PROVE Lists(f[k + 1], w, 0, k + 1)
    OBVIOUS
  <2>2. k + 1 \in 0..n /\ k + 1 # 0 /\ (k + 1) - 1 = k /\ k <= n
    BY <2>1
  <2>3. f[k + 1] = IF \E j \in 1..k : w[j] = w[k + 1] THEN f[k] ELSE Append(f[k], w[k + 1])
    BY <1>4, <2>2
  <2>4. Lists(f[k], w, 0, k)
    BY <1>7, <2>2
  <2>5. \A i \in 1..k : w[i] <= w[k + 1]
    BY <2>1
  <2>6. QED
    BY <2>1, <2>3, <2>4, <2>5, ListsMore
<1>8. \A k \in Nat : k \in G
  <2> HIDE DEF G
  <2> QED
    BY <1>6, <1>7, SetInductionNat
<1>9. n \in G
  BY <1>0, <1>8
<1>10. Lists(f[n], w, 0, n)
  BY <1>0, <1>9
<1>11. QED
  BY <1>4, <1>10

------------------------------------------------------------------------------
(* Cuts: a vector is cut at b[0] = 0, b[1], b[2], ...                      *)

Cut(b) == b \in [Nat -> Nat] /\ b[0] = 0 /\ \A k \in Nat : b[k] <= b[k + 1]
CutFits(b, c, p) == Cut(b) /\ \A k \in 1..p : b[k] = b[k - 1] + c[k]

\* A cut does not fall.
LEMMA CutRises ==
  ASSUME NEW b, Cut(b), NEW r \in Nat, NEW s \in Nat, r <= s
  PROVE  b[r] \in Nat /\ b[s] \in Nat /\ b[r] <= b[s]
<1>1. b \in [Nat -> Nat] /\ \A k \in Nat : k < s => b[k] <= b[k + 1]
  BY DEF Cut
<1>2. \A q, t \in Nat : q <= t /\ t <= s => b[q] <= b[t]
  BY <1>1, BoundsRise
<1>3. QED
  BY <1>1, <1>2

\* There is a cut with pieces of given sizes.
LEMMA CutExists ==
  ASSUME NEW p \in Nat, NEW c, \A k \in 1..p : c[k] \in Nat
  PROVE  \E b : CutFits(b, c, p)
<1> DEFINE Good == {m \in Nat : m <= p => \E b : CutFits(b, c, m) /\ \A k \in Nat : k >= m => b[k] = b[m]}
<1>1. 0 \in Good
  <2>1. CutFits([k \in Nat |-> 0], c, 0)
    BY DEF CutFits, Cut
  <2>2. QED
    BY <2>1
<1>2. ASSUME NEW m \in Nat, m \in Good PROVE m + 1 \in Good
  <2>1. SUFFICES ASSUME m + 1 <= p
                 PROVE  \E b : CutFits(b, c, m + 1) /\ \A k \in Nat : k >= m + 1 => b[k] = b[m + 1]
    OBVIOUS
  <2>2. PICK b : CutFits(b, c, m) /\ \A k \in Nat : k >= m => b[k] = b[m]
    BY <1>2, <2>1
  <2>3. /\ b \in [Nat -> Nat] /\ b[0] = 0 /\ \A k \in Nat : b[k] <= b[k + 1]
        /\ \A k \in 1..m : b[k] = b[k - 1] + c[k]
    BY <2>2 DEF CutFits, Cut
  <2>4. c[m + 1] \in Nat /\ b[m] \in Nat
    BY <2>1, <2>3
  <2>5. PICK x \in Nat : x = b[m] + c[m + 1]
    BY <2>4
  <2> DEFINE d == [k \in Nat |-> IF k <= m THEN b[k] ELSE x]
  <2>6. d \in [Nat -> Nat] /\ d[0] = 0
    BY <2>3
  <2>7. ASSUME NEW k \in Nat PROVE d[k] <= d[k + 1]
    <3>1. CASE k + 1 <= m
      BY <2>3, <3>1
    <3>2. CASE k = m
      BY <2>4, <2>5, <3>2
    <3>3. CASE k > m
      BY <3>3
    <3>4. QED
      BY <3>1, <3>2, <3>3
  <2>8. ASSUME NEW k \in 1..(m + 1) PROVE d[k] = d[k - 1] + c[k]
    <3>1. CASE k = m + 1
      BY <2>5, <3>1
    <3>2. CASE k # m + 1
      <4>1. k \in 1..m /\ k - 1 \in Nat /\ k - 1 <= m /\ k <= m
        BY <3>2
      <4>2. QED
        BY <2>3, <4>1
    <3>3. QED
      BY <3>1, <3>2
  <2>9. \A k \in Nat : k >= m + 1 => d[k] = d[m + 1]
    OBVIOUS
  <2> HIDE DEF d
  <2>10. CutFits(d, c, m + 1)
    BY <2>6, <2>7, <2>8 DEF CutFits, Cut
  <2>11. QED
    BY <2>9, <2>10
<1>3. \A m \in Nat : m \in Good
  <2> HIDE DEF Good
  <2> QED
    BY <1>1, <1>2, SetInductionNat
<1>4. QED
  BY <1>3

\* The sum of the sizes is the end of the last piece.
LEMMA TotalIs ==
  ASSUME NEW s \in Seq(Nat), NEW b, CutFits(b, s, Len(s))
  PROVE  Total(s) = b[Len(s)]
<1> DEFINE n == Len(s)
           next(f, k) == IF k = 0 THEN 0 ELSE f[k - 1] + s[k]
           g == [k \in 0..n |-> b[k]]
<1>0. n \in Nat
  OBVIOUS
<1>1. b[0] = 0 /\ \A k \in 1..n : b[k] = b[k - 1] + s[k]
  BY DEF CutFits, Cut
<1>2. g = [k \in 0..n |-> next(g, k)]
  <2>1. ASSUME NEW k \in 0..n PROVE g[k] = next(g, k)
    <3>1. CASE k = 0
      BY <1>1, <3>1
    <3>2. CASE k # 0
      <4>1. k \in 1..n /\ k - 1 \in 0..n
        BY <3>2
      <4>2. QED
        BY <1>1, <3>2, <4>1
    <3>3. QED
      BY <3>1, <3>2
  <2>2. g = [k \in 0..n |-> g[k]]
    OBVIOUS
  <2> HIDE DEF g, next
  <2>3. QED
    BY <2>1, <2>2
<1>3. PICK f : f = [k \in 0..n |-> next(f, k)] /\ Total(s) = f[n]
  <2>1. \E f : f = [k \in 0..n |-> next(f, k)]
    BY <1>2
  <2>2. QED
    BY <2>1 DEF Total
<1> DEFINE G == {k \in Nat : k <= n => f[k] = b[k]}
<1>4. 0 \in G
  BY <1>1, <1>3
<1>5. ASSUME NEW k \in Nat, k \in G PROVE k + 1 \in G
  <2>1. SUFFICES ASSUME k + 1 <= n PROVE f[k + 1] = b[k + 1]
    OBVIOUS
  <2>2. k + 1 \in 0..n /\ k + 1 \in 1..n /\ k + 1 # 0 /\ (k + 1) - 1 = k /\ k <= n
    BY <2>1
  <2>3. f[k + 1] = f[k] + s[k + 1]
    BY <1>3, <2>2
  <2>4. f[k] = b[k]
    BY <1>5, <2>2
  <2>5. QED
    BY <1>1, <2>2, <2>3, <2>4
<1>6. \A k \in Nat : k \in G
  <2> HIDE DEF G
  <2> QED
    BY <1>4, <1>5, SetInductionNat
<1>7. n \in G
  BY <1>0, <1>6
<1>8. QED
  BY <1>0, <1>3, <1>7

\* The blocks of a cut vector, bound together again
LEMMA FlattenIs ==
  ASSUME NEW p \in Nat \ {0}, NEW a \in Seq(Nat), NEW b, Cut(b), b[p] <= Len(a),
         NEW blocks, blocks = [k \in 1..p |-> Part(a, b[k - 1], b[k])]
  PROVE  FlattenSeq(blocks) = Part(a, 0, b[p])
<1> DEFINE next(f, i) == IF i = 1 THEN blocks[i] ELSE f[i - 1] \o blocks[i]
           g == [i \in 1..p |-> Part(a, 0, b[i])]
<1>0. Len(blocks) = p /\ Len(blocks) # 0 /\ b[0] = 0
  BY DEF Cut
<1>1. ASSUME NEW k \in Nat, k + 1 <= p
      PROVE  Part(a, 0, b[k]) \o blocks[k + 1] = Part(a, 0, b[k + 1])
  <2>1. k + 1 \in 1..p /\ (k + 1) - 1 = k
    BY <1>1
  <2>2. blocks[k + 1] = Part(a, b[k], b[k + 1])
    BY <2>1
  <2>3. b[k] \in Nat /\ b[k + 1] \in Nat /\ b[k] <= b[k + 1] /\ b[p] \in Nat /\ b[k + 1] <= b[p]
    <3>1. k <= k + 1 /\ k + 1 \in Nat /\ k + 1 <= p /\ p \in Nat
      BY <1>1
    <3>2. QED
      BY <3>1, CutRises
  <2>4. b[k + 1] <= Len(a) /\ 0 <= b[k] /\ 0 \in Nat
    BY <2>3
  <2>5. PICK mid \in Nat, hi \in Nat : mid = b[k] /\ hi = b[k + 1]
    BY <2>3
  <2>6. 0 <= mid /\ mid <= hi /\ hi <= Len(a)
    BY <2>3, <2>4, <2>5
  <2>7. Part(a, 0, mid) \o Part(a, mid, hi) = Part(a, 0, hi)
    BY <2>4, <2>6, PartsJoin
  <2>8. QED
    BY <2>2, <2>5, <2>7
<1>2. blocks[1] = Part(a, 0, b[1])
  BY <1>0
<1> HIDE DEF next
<1>3. g = [i \in 1..p |-> next(g, i)]
  <2>1. ASSUME NEW i \in 1..p PROVE g[i] = next(g, i)
    <3>1. CASE i = 1
      BY <1>2, <3>1 DEF next
    <3>2. CASE i # 1
      <4>1. i - 1 \in Nat /\ i - 1 \in 1..p /\ (i - 1) + 1 = i /\ (i - 1) + 1 <= p
        BY <3>2
      <4>2. Part(a, 0, b[i - 1]) \o blocks[i] = Part(a, 0, b[i])
        BY <1>1, <4>1
      <4>3. QED
        BY <3>2, <4>1, <4>2 DEF next
    <3>3. QED
      BY <3>1, <3>2
  <2>2. g = [i \in 1..p |-> g[i]]
    OBVIOUS
  <2> HIDE DEF g
  <2>3. QED
    BY <2>1, <2>2
<1>4. PICK f : f = [i \in 1..p |-> next(f, i)] /\ FlattenSeq(blocks) = f[p]
  <2>1. \E f : f = [i \in 1..p |-> next(f, i)]
    BY <1>3
  <2>2. QED
    BY <1>0, <2>1 DEF FlattenSeq, next
<1> DEFINE G == {k \in Nat : k + 1 <= p => f[k + 1] = Part(a, 0, b[k + 1])}
<1>5. 0 \in G
  BY <1>2, <1>4 DEF next
<1>6. ASSUME NEW k \in Nat, k \in G PROVE k + 1 \in G
  <2>1. SUFFICES ASSUME (k + 1) + 1 <= p PROVE f[(k + 1) + 1] = Part(a, 0, b[(k + 1) + 1])
    OBVIOUS
  <2>2. (k + 1) + 1 \in 1..p /\ (k + 1) + 1 # 1 /\ ((k + 1) + 1) - 1 = k + 1 /\ k + 1 <= p
        /\ k + 1 \in Nat
    BY <2>1
  <2>3. f[(k + 1) + 1] = f[k + 1] \o blocks[(k + 1) + 1]
    BY <1>4, <2>2 DEF next
  <2>4. f[k + 1] = Part(a, 0, b[k + 1])
    BY <1>6, <2>2
  <2>5. QED
    BY <1>1, <2>1, <2>2, <2>3, <2>4
<1>7. \A k \in Nat : k \in G
  <2> HIDE DEF G
  <2> QED
    BY <1>5, <1>6, SetInductionNat
<1>8. p - 1 \in Nat /\ (p - 1) + 1 = p
  OBVIOUS
<1>9. p - 1 \in G
  BY <1>7, <1>8
<1>10. QED
  BY <1>4, <1>8, <1>9

------------------------------------------------------------------------------
(* Owners: rank r has the places b[r] + 1, ..., b[r + 1] of a cut vector.  *)

Owns(b, r, j) == b[r] < j /\ j <= b[r + 1]
IsOwners(w, b) ==
  w \in Seq(Nat) /\ Len(w) = b[P] /\ \A j \in 1..b[P] : w[j] \in Ranks /\ Owns(b, w[j], j)

\* The ranks, and how many there are
LEMMA RanksAre == P \in Nat /\ P # 0 /\ \A r \in Ranks : r \in Nat /\ r + 1 \in Nat /\ r + 1 <= P
BY SizeAssumption DEF Ranks

\* Owners rise with the places.
LEMMA OneOwner ==
  ASSUME NEW b, Cut(b), NEW r \in Nat, NEW s \in Nat, NEW j \in Nat, NEW k \in Nat,
         Owns(b, r, j), Owns(b, s, k), j <= k
  PROVE  r <= s
<1>1. SUFFICES ASSUME s < r PROVE FALSE
  OBVIOUS
<1>2. s + 1 \in Nat /\ s + 1 <= r
  BY <1>1
<1>3. b[s + 1] \in Nat /\ b[r] \in Nat /\ b[s + 1] <= b[r]
  BY <1>2, CutRises
<1>4. QED
  BY <1>3 DEF Owns

\* Each place has an owner.
LEMMA EachOwned ==
  ASSUME NEW b, Cut(b), NEW j \in 1..b[P]
  PROVE  \E r \in Ranks : Owns(b, r, j)
<1>1. b \in [Nat -> Nat] /\ b[0] = 0
  BY DEF Cut
<1>2. \A k \in Nat : 1 <= k /\ k <= b[P] => \E r \in 0..(P - 1) : b[r] < k /\ k <= b[r + 1]
  BY <1>1, RanksAre, StretchOf
<1>3. j \in Nat /\ 1 <= j /\ j <= b[P]
  BY <1>1, RanksAre
<1>4. QED
  BY <1>2, <1>3 DEF Owns, Ranks

\* What the vector of the owners says of each place
LEMMA OwnersRise ==
  ASSUME NEW b, Cut(b), NEW w, IsOwners(w, b)
  PROVE  /\ \A j, k \in 1..b[P] : j <= k => w[j] <= w[k]
         /\ \A j \in 1..b[P], r \in Ranks : w[j] = r <=> Owns(b, r, j)
<1>0. b[P] \in Nat
  BY RanksAre DEF Cut
<1>1. \A j \in 1..b[P] : j \in Nat /\ w[j] \in Ranks /\ w[j] \in Nat /\ Owns(b, w[j], j)
  BY <1>0, RanksAre DEF IsOwners
<1>2. \A j, k \in 1..b[P] : j <= k => w[j] <= w[k]
  BY <1>1, OneOwner
<1>3. ASSUME NEW j \in 1..b[P], NEW r \in Ranks, Owns(b, r, j) PROVE w[j] = r
  <2>1. r \in Nat /\ j <= j
    BY <1>1, RanksAre
  <2>2. w[j] <= r /\ r <= w[j]
    BY <1>1, <1>3, <2>1, OneOwner
  <2>3. QED
    BY <1>1, <2>1, <2>2
<1>4. QED
  BY <1>1, <1>2, <1>3

\* rep(0:(P - 1), times): the owners of the places, by the sizes of the blocks
LEMMA RepRanksIs ==
  ASSUME NEW b, NEW counts, CutFits(b, counts, P), \A k \in 1..P : counts[k] \in Nat
  PROVE  IsOwners(RepRanks(counts), b)
<1> DEFINE n == b[P]
           w == [j \in 1..n |-> CHOOSE r \in Ranks : Owns(b, r, j)]
           blocks == [k \in 1..P |-> [i \in 1..counts[k] |-> k - 1]]
<1>0. Cut(b) /\ n \in Nat /\ P \in Nat \ {0} /\ \A k \in 1..P : b[k] = b[k - 1] + counts[k]
  BY RanksAre DEF CutFits, Cut
<1>1. ASSUME NEW j \in 1..n PROVE w[j] \in Ranks /\ w[j] \in Nat /\ Owns(b, w[j], j)
  <2>1. \E r \in Ranks : Owns(b, r, j)
    BY <1>0, EachOwned
  <2>2. w[j] = CHOOSE r \in Ranks : Owns(b, r, j)
    OBVIOUS
  <2>3. QED
    BY <2>1, <2>2, RanksAre
<1>2. w \in Seq(Nat) /\ Len(w) = n
  <2>1. PICK m \in Nat : m = n
    BY <1>0
  <2>2. w = [j \in 1..m |-> w[j]] /\ \A j \in 1..m : w[j] \in Nat
    BY <1>1, <2>1
  <2> HIDE DEF w, n
  <2>3. w \in [1..m -> Nat]
    BY <2>2
  <2>4. QED
    BY <2>1, <2>3
<1> HIDE DEF w
<1>3. IsOwners(w, b)
  BY <1>1, <1>2 DEF IsOwners
<1>4. ASSUME NEW k \in 1..P PROVE blocks[k] = Part(w, b[k - 1], b[k])
  <2>1. k - 1 \in Nat /\ k \in Nat /\ k - 1 <= k /\ k <= P /\ (k - 1) + 1 = k /\ k - 1 \in Ranks
    BY <1>0 DEF Ranks
  <2>2. /\ b[k - 1] \in Nat /\ b[k] \in Nat /\ b[k - 1] <= b[k] /\ b[k] <= n
        /\ b[k] - b[k - 1] = counts[k] /\ counts[k] \in Nat
    <3>1. b[k - 1] \in Nat /\ b[k] \in Nat /\ b[k - 1] <= b[k]
      BY <1>0, <2>1, CutRises
    <3>2. b[k] <= n
      BY <1>0, <2>1, CutRises
    <3>3. QED
      BY <1>0, <3>1, <3>2
  <2>3. ASSUME NEW i \in 1..counts[k] PROVE w[b[k - 1] + i] = k - 1
    <3>1. b[k - 1] + i \in 1..n /\ b[k - 1] < b[k - 1] + i /\ b[k - 1] + i <= b[k]
      <4>1. PICK x \in Nat, y \in Nat, m \in Nat, c \in Nat :
              x = b[k - 1] /\ y = b[k] /\ m = n /\ c = counts[k]
        BY <1>0, <2>2
      <4>2. x <= y /\ y <= m /\ y - x = c /\ i \in 1..c
        BY <2>2, <4>1
      <4>3. x + i \in 1..m /\ x < x + i /\ x + i <= y
        BY <4>2
      <4>4. QED
        BY <4>1, <4>3
    <3>2. Owns(b, k - 1, b[k - 1] + i)
      BY <2>1, <3>1 DEF Owns
    <3>3. QED
      BY <1>0, <1>3, <2>1, <3>1, <3>2, OwnersRise
  <2>4. blocks[k] = [i \in 1..counts[k] |-> k - 1]
    OBVIOUS
  <2>5. Part(w, b[k - 1], b[k]) = [i \in 1..counts[k] |-> w[b[k - 1] + i]]
    BY <2>2 DEF Part
  <2> HIDE DEF blocks
  <2>6. QED
    BY <2>3, <2>4, <2>5
<1>5. blocks = [k \in 1..P |-> Part(w, b[k - 1], b[k])]
  <2>1. blocks = [k \in 1..P |-> blocks[k]]
    OBVIOUS
  <2> HIDE DEF blocks
  <2>2. QED
    BY <1>4, <2>1
<1>6. RepRanks(counts) = FlattenSeq(blocks)
  BY DEF RepRanks
<1> HIDE DEF blocks
<1>7. FlattenSeq(blocks) = Part(w, 0, n)
  <2>1. b[P] <= Len(w)
    BY <1>0, <1>2
  <2>2. QED
    BY <1>0, <1>2, <1>5, <2>1, FlattenIs
<1>8. Part(w, 0, n) = w
  <2>1. IsPart(Part(w, 0, n), w, 0, n)
    BY <1>0, <1>2, PartIs
  <2>2. PICK t \in Seq(Nat) : t = Part(w, 0, n)
    BY <2>1 DEF IsPart
  <2>3. Len(t) = n /\ \A i \in 1..n : t[i] = w[i]
    <3>1. n - 0 = n /\ \A i \in 1..n : 0 + i = i
      BY <1>0
    <3>2. QED
      BY <2>1, <2>2, <3>1 DEF IsPart
  <2>4. t = w
    BY <1>2, <2>3, SameSequence
  <2>5. QED
    BY <2>2, <2>4
<1>9. QED
  BY <1>3, <1>6, <1>7, <1>8

\* The owners of a stretch, each once
LEMMA UniqueStretch ==
  ASSUME NEW b, Cut(b), NEW w, IsOwners(w, b), NEW lo \in Nat, NEW hi \in Nat, lo <= hi, hi <= b[P]
  PROVE  Lists(Unique(Part(w, lo, hi)), w, lo, hi)
<1>0. b[P] \in Nat /\ w \in Seq(Nat) /\ Len(w) = b[P] /\ hi <= Len(w)
  BY RanksAre DEF Cut, IsOwners
<1>1. IsPart(Part(w, lo, hi), w, lo, hi)
  BY <1>0, PartIs
<1>2. PICK t \in Seq(Nat), n \in Nat : t = Part(w, lo, hi) /\ n = hi - lo
  BY <1>1 DEF IsPart
<1>3. Len(t) = n /\ \A i \in 1..n : t[i] = w[lo + i]
  BY <1>1, <1>2 DEF IsPart
<1>4. \A i, j \in 1..Len(t) : i <= j => t[i] <= t[j]
  <2>1. ASSUME NEW i \in 1..n, NEW j \in 1..n, i <= j PROVE t[i] <= t[j]
    <3>1. lo + i \in 1..b[P] /\ lo + j \in 1..b[P] /\ lo + i <= lo + j
      BY <1>0, <1>2, <2>1
    <3>2. w[lo + i] <= w[lo + j]
      BY <3>1, OwnersRise
    <3>3. QED
      BY <1>3, <3>2
  <2>2. QED
    BY <1>3, <2>1
<1>5. Lists(Unique(t), t, 0, n)
  BY <1>3, <1>4, UniqueLists
<1>6. PICK s : s = Unique(t)
  OBVIOUS
<1>7. /\ s \in Seq(Nat) /\ RisesStrictly(s) /\ 0 + 1 = 1
      /\ \A i \in 1..Len(s) : \E j \in 1..n : s[i] = t[j]
      /\ \A j \in 1..n : \E i \in 1..Len(s) : s[i] = t[j]
  <2>1. s \in Seq(Nat) /\ RisesStrictly(s) /\ SameValues(s, t, 0 + 1, n)
    BY <1>5, <1>6, Zenon DEF Lists
  <2>2. 0 + 1 = 1
    OBVIOUS
  <2>3. SameValues(s, t, 1, n)
    BY <2>1, <2>2, Zenon
  <2>4. /\ \A i \in 1..Len(s) : \E j \in 1..n : s[i] = t[j]
        /\ \A j \in 1..n : \E i \in 1..Len(s) : s[i] = t[j]
    BY <2>3, Zenon DEF SameValues
  <2>5. QED
    BY <2>1, <2>2, <2>4
<1>8. ASSUME NEW i \in 1..Len(s) PROVE \E j \in (lo + 1)..hi : s[i] = w[j]
  <2>1. PICK j \in 1..n : s[i] = t[j]
    BY <1>7
  <2>2. lo + j \in (lo + 1)..hi /\ s[i] = w[lo + j]
    BY <1>2, <1>3, <2>1
  <2>3. QED
    BY <2>2
<1>9. ASSUME NEW j \in (lo + 1)..hi PROVE \E i \in 1..Len(s) : s[i] = w[j]
  <2>1. j - lo \in 1..n /\ lo + (j - lo) = j
    BY <1>2
  <2>2. t[j - lo] = w[j]
    BY <1>3, <2>1
  <2>3. QED
    BY <1>7, <2>1, <2>2
<1>10. SameValues(s, w, lo + 1, hi)
  BY <1>8, <1>9 DEF SameValues
<1>11. QED
  BY <1>2, <1>6, <1>7, <1>10 DEF Lists

\* A rank is on the list if it has one of the places.
LEMMA OnTheList ==
  ASSUME NEW b, Cut(b), NEW w, IsOwners(w, b), NEW x \in Nat, NEW z \in Nat, z <= b[P],
         NEW s, Lists(s, w, x, z), NEW r \in Ranks
  PROVE  (\E i \in 1..Len(s) : s[i] = r) <=> (\E j \in (x + 1)..z : Owns(b, r, j))
<1>0. b[P] \in Nat /\ \A j \in (x + 1)..z : j \in 1..b[P]
  BY RanksAre DEF Cut
<1>1. \A j \in (x + 1)..z : w[j] = r <=> Owns(b, r, j)
  BY <1>0, OwnersRise
<1>2. /\ \A i \in 1..Len(s) : \E j \in (x + 1)..z : s[i] = w[j]
      /\ \A j \in (x + 1)..z : \E i \in 1..Len(s) : s[i] = w[j]
  BY DEF Lists, SameValues
<1>3. QED
  BY <1>1, <1>2

ListsSays(s, w, x, z) ==
  /\ s \in Seq(Nat) /\ Len(s) \in Nat /\ RisesStrictly(s)
  /\ \A i \in 1..Len(s) : \E j \in (x + 1)..z : s[i] = w[j]
  /\ \A j \in (x + 1)..z : \E i \in 1..Len(s) : s[i] = w[j]

\* What a list of owners says
LEMMA ListsSay == ASSUME NEW s, NEW w, NEW x, NEW z, Lists(s, w, x, z) PROVE ListsSays(s, w, x, z)
<1>1. s \in Seq(Nat) /\ RisesStrictly(s) /\ SameValues(s, w, x + 1, z)
  BY Zenon DEF Lists
<1>2. /\ \A i \in 1..Len(s) : \E j \in (x + 1)..z : s[i] = w[j]
      /\ \A j \in (x + 1)..z : \E i \in 1..Len(s) : s[i] = w[j]
  BY <1>1, Zenon DEF SameValues
<1>3. Len(s) \in Nat
  BY <1>1
<1>4. QED
  BY <1>1, <1>2, <1>3, Zenon DEF ListsSays

\* The first element of a sequence and the others
LEMMA HeadAndTail ==
  ASSUME NEW s \in Seq(Nat), s # <<>>
  PROVE  /\ Head(s) \in Nat /\ Tail(s) \in Seq(Nat) /\ Len(Tail(s)) \in Nat
         /\ Len(s) = Len(Tail(s)) + 1 /\ s[1] = Head(s)
         /\ \A i \in 1..Len(Tail(s)) : Tail(s)[i] = s[i + 1]
OBVIOUS

\* The list is empty where there are no places left.
LEMMA ListOfNone ==
  ASSUME NEW b, Cut(b), NEW w, IsOwners(w, b), NEW x \in Nat, NEW z \in Nat, z <= b[P],
         NEW s, Lists(s, w, x, z)
  PROVE  s = <<>> <=> ~ (x < z)
<1>1. /\ s \in Seq(Nat) /\ Len(s) \in Nat
      /\ \A i \in 1..Len(s) : \E j \in (x + 1)..z : s[i] = w[j]
      /\ \A j \in (x + 1)..z : \E i \in 1..Len(s) : s[i] = w[j]
  <2>1. ListsSays(s, w, x, z)
    BY ListsSay
  <2>2. QED
    BY <2>1 DEF ListsSays
<1>2. CASE x < z
  <2>1. x + 1 \in (x + 1)..z
    BY <1>2
  <2>2. PICK i \in 1..Len(s) : s[i] = w[x + 1]
    BY <1>1, <2>1
  <2>3. QED
    BY <1>1, <1>2, <2>2
<1>3. CASE ~ (x < z)
  <2>1. ~ \E j \in (x + 1)..z : TRUE
    BY <1>3
  <2>2. ~ \E i \in 1..Len(s) : TRUE
    BY <1>1, <2>1
  <2>3. Len(s) = 0
    <3>1. ~ (1 \in 1..Len(s))
      BY <2>2
    <3>2. QED
      BY <1>1, <3>1
  <2>4. QED
    BY <1>1, <1>3, <2>3
<1>4. QED
  BY <1>2, <1>3

\* The first on the list has the next place, and goes with all the places it has.
Lower(i, j) == IF i <= j THEN i ELSE j
Higher(i, j) == IF i <= j THEN j ELSE i

\* The first on the list owns the next place, and the rest of the list
\* goes on where its block ends.
LEMMA FirstOnTheList ==
  ASSUME NEW b, Cut(b), NEW w, IsOwners(w, b), NEW x \in Nat, NEW z \in Nat, z <= b[P],
         NEW s, Lists(s, w, x, z), s # <<>>
  PROVE  /\ x < z /\ Head(s) \in Ranks /\ Owns(b, Head(s), x + 1)
         /\ x < Lower(b[Head(s) + 1], z) /\ Lower(b[Head(s) + 1], z) <= z
         /\ Lower(b[Head(s) + 1], z) \in Nat
         /\ Lists(Tail(s), w, Lower(b[Head(s) + 1], z), z)
<1>1. /\ s \in Seq(Nat) /\ Len(s) \in Nat /\ RisesStrictly(s)
      /\ \A i \in 1..Len(s) : \E j \in (x + 1)..z : s[i] = w[j]
      /\ \A j \in (x + 1)..z : \E i \in 1..Len(s) : s[i] = w[j]
  <2>1. ListsSays(s, w, x, z)
    BY ListsSay
  <2>2. QED
    BY <2>1 DEF ListsSays
<1>2. x < z
  BY ListOfNone
<1>3. PICK h \in Nat, t \in Seq(Nat), n \in Nat :
        /\ h = Head(s) /\ t = Tail(s) /\ n = Len(t) /\ Len(s) = n + 1 /\ s[1] = h
        /\ \A i \in 1..n : t[i] = s[i + 1]
  <2>1. /\ Head(s) \in Nat /\ Tail(s) \in Seq(Nat) /\ Len(Tail(s)) \in Nat
        /\ Len(s) = Len(Tail(s)) + 1 /\ s[1] = Head(s)
        /\ \A i \in 1..Len(Tail(s)) : Tail(s)[i] = s[i + 1]
    BY <1>1, HeadAndTail
  <2>2. PICK n : n = Len(Tail(s))
    OBVIOUS
  <2>3. QED
    BY <2>1, <2>2
<1>4. b[P] \in Nat /\ \A j \in (x + 1)..z : j \in 1..b[P] /\ w[j] \in Nat
  <2>1. b[P] \in Nat
    BY RanksAre DEF Cut
  <2>2. QED
    BY <2>1, RanksAre DEF IsOwners
<1>5. x + 1 \in (x + 1)..z
  BY <1>2
<1>6. h = w[x + 1]
  <2>1. PICK i \in 1..Len(s) : s[i] = w[x + 1]
    BY <1>1, <1>5
  <2>2. PICK j \in (x + 1)..z : h = w[j]
    <3>1. 1 \in 1..Len(s)
      BY <1>3
    <3>2. PICK j \in (x + 1)..z : s[1] = w[j]
      BY <1>1, <3>1
    <3>3. QED
      BY <1>3, <3>2
  <2>3. w[x + 1] <= w[j]
    BY <1>4, <1>5, OwnersRise
  <2>4. CASE i = 1
    BY <1>3, <2>1, <2>4
  <2>5. CASE i # 1
    <3>1. 1 \in 1..Len(s) /\ 1 < i
      BY <1>3, <2>5
    <3>2. s[1] < s[i]
      BY <1>1, <3>1 DEF RisesStrictly
    <3>3. h < w[x + 1]
      BY <1>3, <2>1, <3>2
    <3>4. QED
      BY <1>4, <1>5, <2>2, <2>3, <3>3
  <2>6. QED
    BY <2>4, <2>5
<1>7. h \in Ranks /\ Owns(b, h, x + 1)
  BY <1>4, <1>5, <1>6 DEF IsOwners
<1>8. b[h] \in Nat /\ b[h + 1] \in Nat
  <2>1. h \in Nat /\ h + 1 \in Nat
    BY <1>3
  <2>2. b \in [Nat -> Nat]
    BY DEF Cut
  <2>3. QED
    BY <2>1, <2>2
<1>9. PICK y \in Nat : y = Lower(b[h + 1], z)
  BY <1>8 DEF Lower
<1>10. x < y /\ y <= z /\ y <= b[h + 1]
  BY <1>2, <1>7, <1>8, <1>9 DEF Lower, Owns
<1>11. \A j \in (x + 1)..z : w[j] = h <=> j <= y
  <2>1. ASSUME NEW j \in (x + 1)..z PROVE w[j] = h <=> j <= y
    <3>1. w[j] = h <=> Owns(b, h, j)
      BY <1>4, <1>7, OwnersRise
    <3>2. b[h] < j /\ j \in Nat
      BY <1>7, <1>8 DEF Owns
    <3>3. j <= b[h + 1] <=> j <= y
      BY <1>8, <1>9, <3>2 DEF Lower
    <3>4. QED
      BY <3>1, <3>2, <3>3 DEF Owns
  <2>2. QED
    BY <2>1
<1>12. RisesStrictly(t)
  <2>1. ASSUME NEW i \in 1..n, NEW j \in 1..n, i < j PROVE t[i] < t[j]
    <3>1. i + 1 \in 1..Len(s) /\ j + 1 \in 1..Len(s) /\ i + 1 < j + 1
      BY <1>3, <2>1
    <3>2. s[i + 1] < s[j + 1]
      BY <1>1, <3>1 DEF RisesStrictly
    <3>3. QED
      BY <1>3, <3>2
  <2>2. QED
    BY <1>3, <2>1 DEF RisesStrictly
<1>13. ASSUME NEW i \in 1..n PROVE \E j \in (y + 1)..z : t[i] = w[j]
  <2>1. i + 1 \in 1..Len(s) /\ 1 \in 1..Len(s) /\ 1 < i + 1 /\ t[i] = s[i + 1]
    BY <1>3
  <2>2. PICK j \in (x + 1)..z : s[i + 1] = w[j]
    BY <1>1, <2>1
  <2>3. s[1] < s[i + 1]
    BY <1>1, <2>1 DEF RisesStrictly
  <2>4. w[j] # h
    BY <1>3, <1>4, <2>2, <2>3
  <2>5. ~ (j <= y)
    BY <1>11, <2>4
  <2>6. j \in (y + 1)..z
    BY <2>5
  <2>7. QED
    BY <2>1, <2>2, <2>6
<1>14. ASSUME NEW j \in (y + 1)..z PROVE \E i \in 1..n : t[i] = w[j]
  <2>1. j \in (x + 1)..z /\ ~ (j <= y)
    BY <1>10
  <2>2. w[j] # h
    BY <1>11, <2>1
  <2>3. PICK i \in 1..Len(s) : s[i] = w[j]
    BY <1>1, <2>1
  <2>4. i # 1
    BY <1>3, <2>2, <2>3
  <2>5. i - 1 \in 1..n /\ (i - 1) + 1 = i
    BY <1>3, <2>4
  <2>6. t[i - 1] = w[j]
    BY <1>3, <2>3, <2>5
  <2>7. QED
    BY <2>5, <2>6
<1>15. SameValues(t, w, y + 1, z)
  BY <1>3, <1>13, <1>14 DEF SameValues
<1>16. Lists(t, w, y, z)
  BY <1>12, <1>15 DEF Lists
<1>17. QED
  BY <1>2, <1>3, <1>7, <1>9, <1>10, <1>16

\* A part of a part is a part.
LEMMA PartOfPart ==
  ASSUME NEW a \in Seq(Nat), NEW u \in Nat, NEW v \in Nat, u <= v, v <= Len(a),
         NEW x \in Nat, NEW y \in Nat, x <= y, y <= v - u
  PROVE  Part(Part(a, u, v), x, y) = Part(a, u + x, u + y)
<1>1. IsPart(Part(a, u, v), a, u, v)
  BY PartIs
<1>2. PICK n \in Nat : n = y - x
  OBVIOUS
<1>3. (u + y) - (u + x) = n
  BY <1>2
<1>4. Part(Part(a, u, v), x, y) = [i \in 1..n |-> Part(a, u, v)[x + i]]
  BY <1>2 DEF Part
<1>5. Part(a, u + x, u + y) = [i \in 1..n |-> a[(u + x) + i]]
  BY <1>3 DEF Part
<1>6. ASSUME NEW i \in 1..n PROVE Part(a, u, v)[x + i] = a[(u + x) + i]
  <2>1. x + i \in 1..(v - u) /\ u + (x + i) = (u + x) + i
    BY <1>2
  <2>2. QED
    BY <1>1, <2>1 DEF IsPart
<1>7. QED
  BY <1>4, <1>5, <1>6

\* A vector is a part of itself.
LEMMA PartIsAll == ASSUME NEW a \in Seq(Nat) PROVE Part(a, 0, Len(a)) = a
<1>1. PICK n \in Nat : n = Len(a)
  OBVIOUS
<1>2. IsPart(Part(a, 0, n), a, 0, n)
  BY <1>1, PartIs
<1>3. n - 0 = n /\ \A i \in 1..n : 0 + i = i
  OBVIOUS
<1>4. PICK t \in Seq(Nat) : t = Part(a, 0, n)
  BY <1>2 DEF IsPart
<1>5. Len(t) = n /\ \A i \in 1..n : t[i] = a[i]
  BY <1>2, <1>3, <1>4 DEF IsPart
<1>6. t = a
  BY <1>1, <1>5, SameSequence
<1>7. QED
  BY <1>1, <1>4, <1>6

\* The owners in one cut of the places that rank r has in another
LEMMA OwnersOfBlock ==
  ASSUME NEW b, Cut(b), NEW e, Cut(e), b[P] = e[P],
         NEW org, IsOwners(org, b), NEW belong, IsOwners(belong, e), NEW r \in Ranks
  PROVE  Where(belong, org, r) = Part(belong, b[r], b[r + 1])
<1>1. /\ b[P] \in Nat /\ org \in Seq(Nat) /\ belong \in Seq(Nat)
      /\ Len(org) = Len(belong) /\ Len(belong) = b[P]
  BY RanksAre DEF Cut, IsOwners
<1>2. b[r] \in Nat /\ b[r + 1] \in Nat /\ b[r] <= b[r + 1] /\ b[r + 1] <= b[P]
  <2>1. r \in Nat /\ r + 1 \in Nat /\ r <= r + 1 /\ r + 1 <= P /\ P \in Nat
    BY RanksAre
  <2>2. QED
    BY <2>1, CutRises
<1>3. \A k \in 1..Len(belong) : org[k] = r <=> (b[r] < k /\ k <= b[r + 1])
  BY <1>1, OwnersRise DEF Owns
<1>4. PICK lo \in Nat, hi \in Nat : lo = b[r] /\ hi = b[r + 1]
  BY <1>2
<1>5. \A k \in 1..Len(belong) : org[k] = r <=> (lo < k /\ k <= hi)
  BY <1>3, <1>4
<1>6. lo <= hi /\ hi <= Len(belong)
  BY <1>1, <1>2, <1>4
<1>7. Where(belong, org, r) = Part(belong, lo, hi)
  BY <1>1, <1>5, <1>6, WhereStretch
<1>8. QED
  BY <1>4, <1>7

\* The places that are r's in the cut b and d's in the cut e
From(b, e, r, d) == Higher(b[r], e[d])
To(b, e, r, d)   == Lower(b[r + 1], e[d + 1])
Shared(b, e, r, d) == From(b, e, r, d) < To(b, e, r, d)

\* Where the blocks of two cuts, and what they share, begin and end
LEMMA SharedPlaces ==
  ASSUME NEW b, Cut(b), NEW e, Cut(e), b[P] = e[P], NEW r \in Ranks, NEW d \in Ranks
  PROVE  /\ b[r] \in Nat /\ b[r + 1] \in Nat /\ e[d] \in Nat /\ e[d + 1] \in Nat
         /\ b[r] <= b[r + 1] /\ b[r + 1] <= b[P] /\ e[d] <= e[d + 1] /\ e[d + 1] <= e[P]
         /\ From(b, e, r, d) \in Nat /\ To(b, e, r, d) \in Nat
         /\ b[P] \in Nat
<1>1. /\ r \in Nat /\ r + 1 \in Nat /\ r <= r + 1 /\ r + 1 <= P /\ P \in Nat
      /\ d \in Nat /\ d + 1 \in Nat /\ d <= d + 1 /\ d + 1 <= P
  BY RanksAre
<1>2. b[r] \in Nat /\ b[r + 1] \in Nat /\ b[r] <= b[r + 1] /\ b[r + 1] <= b[P] /\ b[P] \in Nat
  BY <1>1, CutRises
<1>3. e[d] \in Nat /\ e[d + 1] \in Nat /\ e[d] <= e[d + 1] /\ e[d + 1] <= e[P]
  BY <1>1, CutRises
<1>4. QED
  BY <1>2, <1>3 DEF From, To, Lower, Higher

\* X.gbd[belong == d, ] in the block of r is what the two blocks share.
LEMMA PieceIs ==
  ASSUME NEW b, Cut(b), NEW e, Cut(e), b[P] = e[P], NEW a \in Seq(Nat), Len(a) = b[P],
         NEW belong, IsOwners(belong, e), NEW r \in Ranks, NEW d \in Ranks, Shared(b, e, r, d)
  PROVE  Where(Part(a, b[r], b[r + 1]), Part(belong, b[r], b[r + 1]), d)
           = Part(a, From(b, e, r, d), To(b, e, r, d))
<1>1. /\ b[r] \in Nat /\ b[r + 1] \in Nat /\ e[d] \in Nat /\ e[d + 1] \in Nat
      /\ b[r] <= b[r + 1] /\ b[r + 1] <= b[P] /\ e[d] <= e[d + 1] /\ e[d + 1] <= e[P]
      /\ b[P] \in Nat
  BY SharedPlaces
<1>2. PICK u \in Nat, v \in Nat, x \in Nat, y \in Nat, n \in Nat :
        u = b[r] /\ v = b[r + 1] /\ x = e[d] /\ y = e[d + 1] /\ n = b[P]
  BY <1>1
<1>3. u <= v /\ v <= n /\ x <= y /\ y <= n /\ Higher(u, x) < Lower(v, y)
  BY <1>1, <1>2 DEF Shared, From, To
<1>4. PICK lo \in Nat, hi \in Nat : u + lo = Higher(u, x) /\ u + hi = Lower(v, y)
  <2>1. Higher(u, x) - u \in Nat /\ Lower(v, y) - u \in Nat
    BY <1>3 DEF Lower, Higher
  <2>2. u + (Higher(u, x) - u) = Higher(u, x) /\ u + (Lower(v, y) - u) = Lower(v, y)
    BY <1>3 DEF Lower, Higher
  <2>3. QED
    BY <2>1, <2>2
<1>5. lo <= hi /\ hi <= v - u
  BY <1>3, <1>4 DEF Lower, Higher
<1>6. belong \in Seq(Nat) /\ Len(belong) = n /\ Len(a) = n
  BY <1>2 DEF IsOwners
<1>7. IsPart(Part(a, u, v), a, u, v) /\ IsPart(Part(belong, u, v), belong, u, v)
  BY <1>3, <1>6, PartIs
<1>8. PICK s \in Seq(Nat), w \in Seq(Nat), m \in Nat :
        s = Part(a, u, v) /\ w = Part(belong, u, v) /\ m = v - u
  BY <1>3, <1>7 DEF IsPart
<1>9. Len(s) = m /\ Len(w) = m /\ \A k \in 1..m : w[k] = belong[u + k]
  BY <1>7, <1>8 DEF IsPart
<1>10. ASSUME NEW k \in 1..m PROVE w[k] = d <=> (lo < k /\ k <= hi)
  <2>0. m = v - u /\ v <= n /\ k \in Nat /\ 1 <= k /\ k <= m
    BY <1>3, <1>8
  <2>1. u + k \in 1..b[P] /\ u < u + k /\ u + k <= v
    <3>1. u + k \in Nat /\ 1 <= u + k /\ u + k <= n /\ u < u + k /\ u + k <= v
      BY <2>0
    <3>2. QED
      BY <1>2, <3>1
  <2>2. belong[u + k] = d <=> Owns(e, d, u + k)
    BY <2>1, OwnersRise
  <2>3. Owns(e, d, u + k) <=> (x < u + k /\ u + k <= y)
    BY <1>2 DEF Owns
  <2>4. (x < u + k /\ u + k <= y) <=> (lo < k /\ k <= hi)
    BY <1>3, <1>4, <2>1 DEF Lower, Higher
  <2>5. QED
    BY <1>9, <2>2, <2>3, <2>4
<1>11. Where(s, w, d) = Part(s, lo, hi)
  <2>1. hi <= Len(s) /\ Len(w) = Len(s)
    BY <1>5, <1>8, <1>9
  <2>2. \A k \in 1..Len(s) : w[k] = d <=> (lo < k /\ k <= hi)
    BY <1>9, <1>10
  <2>3. QED
    BY <1>5, <2>1, <2>2, WhereStretch
<1>12. Part(s, lo, hi) = Part(a, u + lo, u + hi)
  <2>1. v <= Len(a) /\ u <= v
    BY <1>3, <1>6
  <2>2. Part(Part(a, u, v), lo, hi) = Part(a, u + lo, u + hi)
    BY <1>5, <2>1, PartOfPart
  <2>3. QED
    BY <1>8, <2>2
<1>13. QED
  BY <1>2, <1>4, <1>8, <1>11, <1>12 DEF From, To

------------------------------------------------------------------------------
(* The sizes of the balanced blocks                                        *)

\* Products of naturals rise with a factor.
LEMMA ProductsRise ==
  ASSUME NEW i \in Nat, NEW j \in Nat, NEW c \in Nat, i <= j
  PROVE  i * c <= j * c /\ i * c \in Nat /\ j * c \in Nat
<1>1. PICK d \in Nat : d = j - i
  OBVIOUS
<1>2. d * c = j * c - i * c
  BY <1>1, Subtract
<1>3. d * c \in Nat /\ i * c \in Nat /\ j * c \in Nat
  BY Distribute
<1>4. QED
  BY <1>2, <1>3

\* "block" and "block0" give the sizes of the shares of get.jid().
LEMMA BlockSizes ==
  ASSUME method \in {"block", "block0"}, NEW N \in Nat
  PROVE  \A k \in 1..P : /\ NewCounts(N)[k] \in Nat
                         /\ Bound(N, method = "block0", P, k)
                              = Bound(N, method = "block0", P, k - 1) + NewCounts(N)[k]
<1> DEFINE n == N \div P
           m == N % P
<1>1. P \in Nat \ {0} /\ n \in Nat /\ m \in Nat /\ m < P
  BY RanksAre, Division
<1>2. TAKE k \in 1..P
<1>3. /\ NewCounts(N)[k] = n \/ NewCounts(N)[k] = n + 1
      /\ Extra(N, method = "block0", P, k) \in Int /\ Extra(N, method = "block0", P, k - 1) \in Int
      /\ NewCounts(N)[k] = n + (Extra(N, method = "block0", P, k) - Extra(N, method = "block0", P, k - 1))
  <2>1. CASE method = "block"
    <3>1. NewCounts(N) = [i \in 1..P |-> IF i <= P - m THEN n ELSE n + 1]
      BY <2>1 DEF NewCounts
    <3>2. /\ Extra(N, method = "block0", P, k) = IF k < P - m THEN 0 ELSE k - (P - m)
          /\ Extra(N, method = "block0", P, k - 1) = IF k - 1 < P - m THEN 0 ELSE (k - 1) - (P - m)
      BY <2>1 DEF Extra
    <3> HIDE DEF n, m
    <3>3. QED
      BY <1>1, <3>1, <3>2
  <2>2. CASE method = "block0"
    <3>1. NewCounts(N) = [i \in 1..P |-> IF i <= m THEN n + 1 ELSE n]
      BY <2>2 DEF NewCounts
    <3>2. /\ Extra(N, method = "block0", P, k) = IF k < m THEN k ELSE m
          /\ Extra(N, method = "block0", P, k - 1) = IF k - 1 < m THEN k - 1 ELSE m
      BY <2>2 DEF Extra
    <3> HIDE DEF n, m
    <3>3. QED
      BY <1>1, <3>1, <3>2
  <2>3. QED
    BY <2>1, <2>2
<1>4. k * n \in Nat /\ (k - 1) * n \in Nat /\ k * n = (k - 1) * n + n
  <2>1. k - 1 \in Nat /\ (k - 1) + 1 = k
    OBVIOUS
  <2>2. QED
    BY <1>1, <2>1, Distribute
<1>5. /\ Bound(N, method = "block0", P, k) = k * n + Extra(N, method = "block0", P, k)
      /\ Bound(N, method = "block0", P, k - 1) = (k - 1) * n + Extra(N, method = "block0", P, k - 1)
  BY DEF Bound
<1> HIDE DEF n, m
<1>6. QED
  BY <1>1, <1>3, <1>4, <1>5

CyclicSize(N) == (N + P - 1) \div P

\* "block.cyclic" cuts at multiples of the size of its first block.
LEMMA CyclicSizes ==
  ASSUME method = "block.cyclic", NEW N \in Nat \ {0}
  PROVE  /\ CyclicSize(N) \in Nat \ {0} /\ N <= P * CyclicSize(N)
         /\ \A k \in 1..P : /\ NewCounts(N)[k] \in Nat
                            /\ Lower(k * CyclicSize(N), N)
                                 = Lower((k - 1) * CyclicSize(N), N) + NewCounts(N)[k]
<1> DEFINE c == CyclicSize(N)
<1>1. P \in Nat \ {0} /\ N + P - 1 \in Nat
  BY RanksAre
<1>2. /\ c \in Nat /\ (N + P - 1) % P \in Nat /\ (N + P - 1) % P < P
      /\ N + P - 1 = P * c + ((N + P - 1) % P)
  BY <1>1, Division DEF CyclicSize
<1>3. P * c \in Nat
  BY <1>1, <1>2, Distribute
<1>4. N <= P * c
  BY <1>1, <1>2, <1>3
<1>5. c # 0
  <2>1. SUFFICES ASSUME c = 0 PROVE FALSE
    OBVIOUS
  <2>2. P * 0 = 0
    BY <1>1
  <2>3. QED
    BY <1>4, <2>1, <2>2
<1> DEFINE q == N \div c
           m == N % c
<1>6. q \in Nat /\ m \in Nat /\ m < c /\ N = c * q + m
  BY <1>2, <1>5, Division
<1>7. NewCounts(N) = [k \in 1..P |-> IF k <= q THEN c ELSE IF k = q + 1 THEN m ELSE 0]
  BY DEF NewCounts, CyclicSize
<1> HIDE DEF c, q, m
<1>8. q * c \in Nat /\ q * c = c * q /\ (q + 1) * c = q * c + c
  BY <1>2, <1>6, Distribute
<1>9. ASSUME NEW k \in 1..P
      PROVE  NewCounts(N)[k] \in Nat /\ Lower(k * c, N) = Lower((k - 1) * c, N) + NewCounts(N)[k]
  <2>1. k - 1 \in Nat /\ k \in Nat /\ (k - 1) + 1 = k
    OBVIOUS
  <2>2. k * c \in Nat /\ (k - 1) * c \in Nat /\ k * c = (k - 1) * c + c
    BY <1>2, <2>1, Distribute
  <2>3. NewCounts(N)[k] = IF k <= q THEN c ELSE IF k = q + 1 THEN m ELSE 0
    BY <1>7
  <2>4. CASE k <= q
    <3>1. k * c <= q * c
      BY <1>2, <1>6, <2>1, <2>4, ProductsRise
    <3>2. QED
      BY <1>2, <1>6, <1>8, <2>2, <2>3, <2>4, <3>1 DEF Lower
  <2>5. CASE k = q + 1
    <3>1. (k - 1) * c = q * c
      BY <1>6, <2>5
    <3>2. QED
      BY <1>2, <1>6, <1>8, <2>2, <2>3, <2>5, <3>1 DEF Lower
  <2>6. CASE k > q + 1
    <3>1. q + 1 \in Nat /\ q + 1 <= k - 1
      BY <1>6, <2>6
    <3>2. (q + 1) * c <= (k - 1) * c
      BY <1>2, <2>1, <3>1, ProductsRise
    <3>3. QED
      BY <1>2, <1>6, <1>8, <2>2, <2>3, <2>6, <3>2 DEF Lower
  <2>7. QED
    BY <1>6, <2>4, <2>5, <2>6
<1>10. QED
  BY <1>2, <1>4, <1>5, <1>9 DEF c

\* The balanced blocks are those of a cut.
EvenCut(e, N) ==
  /\ CutFits(e, NewCounts(N), P) /\ e[P] = N
  /\ \A k \in 1..P : NewCounts(N)[k] \in Nat
  /\ method \in {"block", "block0"} => \A r \in Nat : e[r] = Bound(N, method = "block0", P, r)

\* The sizes of a method are those of a cut of the table.
LEMMA EvenCutExists ==
  ASSUME method \in Methods, NEW N \in Nat, method = "block.cyclic" => N # 0
  PROVE  \E e : EvenCut(e, N)
<1>0. P \in Nat \ {0}
  BY RanksAre
<1>1. CASE method \in {"block", "block0"}
  <2> DEFINE e == [r \in Nat |-> Bound(N, method = "block0", P, r)]
  <2>1. \A r \in Nat : /\ Bound(N, method = "block0", P, r) \in Nat
                       /\ Bound(N, method = "block0", P, r) <= Bound(N, method = "block0", P, r + 1)
    BY <1>0, BoundSteps
  <2>2. Bound(N, method = "block0", P, 0) = 0 /\ Bound(N, method = "block0", P, P) = N
    BY <1>0, BoundSteps
  <2>3. Cut(e) /\ e[P] = N
    BY <1>0, <2>1, <2>2 DEF Cut
  <2>4. \A k \in 1..P : NewCounts(N)[k] \in Nat /\ e[k] = e[k - 1] + NewCounts(N)[k]
    <3>1. TAKE k \in 1..P
    <3>2. k \in Nat /\ k - 1 \in Nat
      OBVIOUS
    <3>3. /\ NewCounts(N)[k] \in Nat
          /\ Bound(N, method = "block0", P, k) = Bound(N, method = "block0", P, k - 1) + NewCounts(N)[k]
      BY <1>1, BlockSizes
    <3>4. QED
      BY <3>2, <3>3
  <2>5. \A r \in Nat : e[r] = Bound(N, method = "block0", P, r)
    OBVIOUS
  <2> HIDE DEF e
  <2>6. QED
    BY <2>3, <2>4, <2>5 DEF EvenCut, CutFits
<1>2. CASE method = "block.cyclic"
  <2> DEFINE c == CyclicSize(N)
             e == [r \in Nat |-> Lower(r * c, N)]
  <2>1. /\ c \in Nat \ {0} /\ N <= P * c
        /\ \A k \in 1..P : NewCounts(N)[k] \in Nat
                           /\ Lower(k * c, N) = Lower((k - 1) * c, N) + NewCounts(N)[k]
    BY <1>2, CyclicSizes
  <2> HIDE DEF c
  <2>2. ASSUME NEW r \in Nat
        PROVE  Lower(r * c, N) \in Nat /\ Lower(r * c, N) <= Lower((r + 1) * c, N)
    <3>1. r * c \in Nat /\ (r + 1) * c = r * c + c
      BY <2>1, Distribute
    <3>2. QED
      BY <2>1, <3>1 DEF Lower
  <2>3. 0 * c = 0 /\ P * c \in Nat
    BY <1>0, <2>1, Distribute
  <2>4. Lower(0 * c, N) = 0 /\ Lower(P * c, N) = N
    BY <2>1, <2>3 DEF Lower
  <2>5. Cut(e) /\ e[P] = N
    BY <1>0, <2>2, <2>4 DEF Cut
  <2>6. \A k \in 1..P : NewCounts(N)[k] \in Nat /\ e[k] = e[k - 1] + NewCounts(N)[k]
    <3>1. TAKE k \in 1..P
    <3>2. k \in Nat /\ k - 1 \in Nat
      OBVIOUS
    <3>3. e[k] = Lower(k * c, N) /\ e[k - 1] = Lower((k - 1) * c, N)
      BY <3>2
    <3> HIDE DEF e
    <3>4. QED
      BY <2>1, <3>3
  <2> HIDE DEF e
  <2>7. QED
    BY <1>2, <2>5, <2>6 DEF EvenCut, CutFits
<1>3. QED
  BY <1>1, <1>2 DEF Methods

------------------------------------------------------------------------------
(* The invariant of the table                                              *)

\* A function of the ranks
OverRanks(f) == f = [r \in Ranks |-> f[r]]

\* The blocks of the ranks are those of a, cut at b.
Divides(b, a) == Cut(b) /\ b[P] = Len(a)
Lies(blocks, a, b) == \A r \in Ranks : blocks[r] = Part(a, b[r], b[r + 1])

\* The cut at the shares of get.jid(n, method = "block")
BlockCut(n) == [r \in Nat |-> Bound(n, FALSE, P, r)]

NothingSent == \A s, d \in Ranks : s # d => net[s][d] = <<>>

\* A small file is scattered.
Small(T) ==
  /\ Scattered /\ pred = NULL /\ turn = 0
  /\ \A r \in Ranks : pc[r] \in {"start", "names", "done", "stopped"}
  /\ chunks # NULL => Len(T) >= P /\ \A r \in Ranks :
       chunks[r + 1] = Part(T, BlockCut(Len(T))[r], BlockCut(Len(T))[r + 1])
  /\ \A r \in Ranks : pc[r] \in {"names", "done"} =>
       Len(T) >= P /\ ret[r] = Part(T, BlockCut(Len(T))[r], BlockCut(Len(T))[r + 1])

\* A large file is read: so far, by the ranks below turn, and maybe by the one
\* whose turn it is.
HasRead(r) == r < turn \/ (r = turn /\ pc[r] = "barrier")
StretchIsRead(r) ==
  /\ pred = PredictedLines /\ MyJid(r) # NULL /\ Readable(MySkip(r))
  /\ X[r] = RowsRead(MySkip(r), MyRows(r))

Large ==
  /\ job.from = "file" /\ ~ Scattered /\ call = "load" /\ NothingSent
  /\ chunks = NULL /\ turn \in Ranks /\ pred \in {NULL, PredictedLines}
  /\ \A r \in Ranks :
       /\ pc[r] \in {"start", "turn", "reading", "barrier", "stopped"}
       /\ pc[r] \in {"turn", "reading", "barrier"} => pred = PredictedLines
       /\ pc[r] = "reading" => turn = r
       /\ HasRead(r) => StretchIsRead(r)

\* The file of the table, if it has one, was large.
OfLargeFile == job.from = "file" => ~ Scattered /\ turn = P /\ call = "load"

\* The table lies on the ranks.
Ready(T, b) ==
  /\ OfLargeFile /\ call = "load" /\ NothingSent
  /\ \A r \in Ranks : pc[r] = "balance"
  /\ Divides(b, T) /\ Lies(X, T, b)
  /\ job.from = "ranks" => Lies(job.rows, T, b)

\* The pieces of a call are under way.
Listed(r, list) == \E i \in 1..Len(list) : list[i] = r
Sent(s, d) == pc[s] = "send" => ~ Listed(d, todo[s])
Got(s, d)  == pc[d] # "send" /\ (pc[d] = "recv" => ~ Listed(s, todo[d]))

\* A call moves the table from the blocks of the cut b to those of the cut e.
Cuts(T, b, e) ==
  /\ Divides(b, T) /\ Divides(e, T)
  /\ IsOwners(info.org, b) /\ IsOwners(info.belong, e)
  /\ \A r \in Ranks : info.old[r + 1] = b[r + 1] - b[r] /\ info.new[r + 1] = e[r + 1] - e[r]
  /\ Lies(X, T, b)

\* The call is comm.load.balance() or, with the cuts exchanged, comm.unload.balance().
Calls(T, b, e) ==
  /\ OfLargeFile /\ call \in {"load", "unload"}
  /\ call = "load" => EvenCut(e, Len(T))
  /\ job.from = "ranks" => Lies(job.rows, T, IF call = "load" THEN b ELSE e)
  /\ \A r \in Ranks : pc[r] \in {"send", "recv", After, "stopped"} \cup
                                  (IF job.from = "file" THEN {"done"} ELSE {})

\* Rank r has still to send its rows from y + 1 on.
Sends(r, b, y) == b[r] <= y /\ y <= b[r + 1] /\ Lists(todo[r], info.belong, y, b[r + 1])

\* Rank r has bound its rows up to x, up to the end of a block of the sender.
Receives(r, T, b, e, x) ==
  /\ e[r] <= x /\ x <= e[r + 1] /\ (x \in {e[r], e[r + 1]} \/ \E k \in Nat : x = b[k])
  /\ Lists(todo[r], info.org, x, e[r + 1])
  /\ e[r] < e[r + 1] => ret[r] = Part(T, e[r], x)

Progress(r, T, b, e) ==
  /\ pc[r] = "send" => \E y \in Nat : Sends(r, b, y)
  /\ pc[r] = "recv" => \E x \in Nat : Receives(r, T, b, e, x)
  /\ pc[r] \in {"unload", "names", "done"} => ret[r] = Part(T, e[r], e[r + 1])

UnderWay(s, d, T, b, e) ==
  /\ net[s][d] = IF Shared(b, e, s, d) /\ Sent(s, d) /\ ~ Got(s, d)
                 THEN <<Part(T, From(b, e, s, d), To(b, e, s, d))>> ELSE <<>>
  /\ Shared(b, e, s, d) /\ Got(s, d) => Sent(s, d)

Moving(T, b, e) ==
  /\ Cuts(T, b, e) /\ Calls(T, b, e)
  /\ \A r \in Ranks : Progress(r, T, b, e)
  /\ \A s, d \in Ranks : s # d /\ pc[d] # "stopped" => UnderWay(s, d, T, b, e)

\* There is nothing to divide.
Dead == \A r \in Ranks : pc[r] = "stopped"

Types ==
  /\ job \in Jobs /\ method \in Methods /\ turn \in Nat
  /\ OverRanks(pc) /\ OverRanks(X) /\ OverRanks(ret) /\ OverRanks(todo) /\ OverRanks(net)
  /\ OverRanks(names) /\ \A s \in Ranks : OverRanks(net[s])

TableInv ==
  /\ Types
  /\ \E T \in Seq(Nat) :
       /\ T = SourceRows
       /\ \/ Small(T) \/ Large \/ Dead
          \/ \E b : Ready(T, b)
          \/ \E b, e : Moving(T, b, e)

\* The names that a rank returns with: none for a table of one column.
NamesLeft == IF shape = "column" THEN NoNames ELSE NamesRead(0)

\* The names of the header are those that rank 0 read.
NamesInv ==
  job.from = "file" =>
    /\ said \in {NULL, NamesLeft}
    /\ pc[0] # "done" /\ (turn > 0 \/ pc[0] \in {"barrier", "names"}) => names[0] = NamesRead(0)
    /\ \A r \in Ranks : pc[r] = "done" => names[r] = NamesLeft

\* With a job for each rank the shares are the stretches between bounds.
LEMMA BlockIsAStretch ==
  ASSUME NEW n \in Nat, P <= n, NEW way \in {"block", "block0"}, NEW r \in Ranks
  PROVE  /\ Bound(n, way = "block0", P, r) \in Nat /\ Bound(n, way = "block0", P, r + 1) \in Nat
         /\ Bound(n, way = "block0", P, r) < Bound(n, way = "block0", P, r + 1)
         /\ JidVector(n, way, P, r) =
              Stretch(Bound(n, way = "block0", P, r) + 1,
                      Bound(n, way = "block0", P, r + 1) - Bound(n, way = "block0", P, r))
<1> DEFINE f == way = "block0"
<1>0. P \in Nat \ {0} /\ r \in 0..(P - 1) /\ r \in Nat /\ r + 1 \in Nat
  BY SizeAssumption, RanksAre DEF Ranks
<1>1. Bound(n, f, P, r) \in Nat /\ Bound(n, f, P, r + 1) \in Nat
  BY <1>0, BoundSteps
<1>2. Bound(n, f, P, r) < Bound(n, f, P, r + 1)
  <2>1. n \div P \in Nat /\ n % P \in Nat /\ n % P < P /\ n = P * (n \div P) + (n % P)
    BY <1>0, Division
  <2>2. n \div P # 0
    <3>1. SUFFICES ASSUME n \div P = 0 PROVE FALSE
      OBVIOUS
    <3>2. P * 0 = 0
      BY <1>0
    <3>3. QED
      BY <1>0, <2>1, <3>1, <3>2
  <2>3. /\ r * (n \div P) \in Nat /\ (r + 1) * (n \div P) = r * (n \div P) + (n \div P)
    BY <1>0, <2>1, Distribute
  <2>4. /\ Extra(n, f, P, r) \in Nat
        /\ Extra(n, f, P, r + 1) \in {Extra(n, f, P, r), Extra(n, f, P, r) + 1}
    BY <1>0, ExtraSteps
  <2>5. /\ Bound(n, f, P, r) = r * (n \div P) + Extra(n, f, P, r)
        /\ Bound(n, f, P, r + 1) = (r + 1) * (n \div P) + Extra(n, f, P, r + 1)
    BY DEF Bound
  <2>6. PICK q \in Nat, u \in Nat : q = n \div P /\ u = r * (n \div P)
    BY <2>1, <2>3
  <2>7. QED
    BY <2>2, <2>3, <2>4, <2>5, <2>6
<1>3. CASE P < n
  BY <1>0, <1>1, <1>2, <1>3, ShareIsAStretch
<1>4. CASE P = n
  <2>1. n \div P = 1 /\ n % P = 0
    BY <1>0, <1>4
  <2>2. Extra(n, f, P, r) = 0 /\ Extra(n, f, P, r + 1) = IF f THEN 0 ELSE IF r + 1 < P THEN 0 ELSE r + 1 - P
    BY <1>0, <2>1 DEF Extra
  <2>3. Bound(n, f, P, r) = r * 1 + 0 /\ Bound(n, f, P, r + 1) = (r + 1) * 1 + 0
    BY <1>0, <2>1, <2>2 DEF Bound
  <2>4. Bound(n, f, P, r) = r /\ Bound(n, f, P, r + 1) = r + 1
    BY <1>0, <2>3
  <2>5. JidVector(n, way, P, r) = <<r + 1>>
    <3>1. r < n /\ n <= P /\ ~ (r >= n) /\ ~ (n > P)
      BY <1>0, <1>4
    <3>2. QED
      BY <3>1, Zenon DEF JidVector
  <2>6. Stretch(r + 1, r + 1 - r) = <<r + 1>>
    <3>1. r + 1 - r = 1 /\ r + 1 + 1 - 1 = r + 1
      BY <1>0
    <3>2. Stretch(r + 1, 1) = [k \in 1..1 |-> r + 1 + k - 1]
      BY DEF Stretch
    <3>3. \A k \in 1..1 : r + 1 + k - 1 = r + 1
      BY <1>0
    <3>4. [k \in 1..1 |-> r + 1 + k - 1] = <<r + 1>>
      BY <3>3
    <3>5. QED
      BY <3>1, <3>2, <3>4
  <2>7. QED
    BY <1>1, <1>2, <2>4, <2>5, <2>6
<1>5. QED
  BY <1>0, <1>3, <1>4

\* A stretch is the numbers after its start.
LEMMA StretchIs ==
  ASSUME NEW first \in Nat, NEW count \in Nat
  PROVE  /\ Stretch(first, count) \in Seq(Nat) /\ Len(Stretch(first, count)) = count
         /\ \A k \in 1..count : Stretch(first, count)[k] = first + k - 1
<1>1. \A k \in 1..count : first + k - 1 \in Nat
  OBVIOUS
<1>2. Stretch(first, count) = [k \in 1..count |-> first + k - 1]
  BY DEF Stretch
<1>3. QED
  BY <1>1, <1>2

\* A rank has no share when there is no job left for it.
LEMMA SharesAreVectors ==
  ASSUME NEW n \in Nat, NEW r \in Ranks
  PROVE  JidVector(n, "block", P, r) = NULL <=> ~ (r < n)
<1>0. P \in Nat \ {0} /\ r \in 0..(P - 1) /\ r \in Nat
  BY SizeAssumption, RanksAre DEF Ranks
<1>1. CASE P <= n
  <2>1. PICK u \in Nat, v \in Nat : u < v /\ JidVector(n, "block", P, r) = Stretch(u + 1, v - u)
    BY <1>1, BlockIsAStretch
  <2>2. JidVector(n, "block", P, r) \in Seq(Nat)
    BY <2>1, StretchIs
  <2>3. r < n
    BY <1>0, <1>1
  <2>4. QED
    BY <2>2, <2>3, NullAssumption
<1>2. CASE n < P
  <2>1. CASE r < n
    <3>1. n <= P /\ ~ (r >= n) /\ ~ (n > P)
      BY <1>0, <1>2, <2>1
    <3>2. JidVector(n, "block", P, r) = <<r + 1>>
      BY <3>1, <2>1, Zenon DEF JidVector
    <3>3. <<r + 1>> \in Seq(Nat)
      BY <1>0
    <3>4. QED
      BY <2>1, <3>2, <3>3, NullAssumption
  <2>2. CASE ~ (r < n)
    <3>1. n <= P /\ r >= n /\ ~ (n > P)
      BY <1>0, <1>2, <2>2
    <3>2. JidVector(n, "block", P, r) = NULL
      BY <3>1, <2>2, Zenon DEF JidVector
    <3>3. QED
      BY <2>2, <3>2
  <2>3. QED
    BY <2>1, <2>2
<1>3. QED
  BY <1>0, <1>1, <1>2

\* The jobs of rank r, looked up in a vector of as many things
LEMMA LookedUp ==
  ASSUME NEW a \in Seq(Nat), P <= Len(a), NEW way \in {"block", "block0"}, NEW r \in Ranks
  PROVE  [i \in 1..Len(JidVector(Len(a), way, P, r)) |-> a[JidVector(Len(a), way, P, r)[i]]]
           = Part(a, Bound(Len(a), way = "block0", P, r), Bound(Len(a), way = "block0", P, r + 1))
<1>1. PICK u \in Nat, v \in Nat :
        /\ u = Bound(Len(a), way = "block0", P, r) /\ v = Bound(Len(a), way = "block0", P, r + 1)
        /\ u < v /\ JidVector(Len(a), way, P, r) = Stretch(u + 1, v - u)
  <2>1. Len(a) \in Nat
    OBVIOUS
  <2>2. QED
    BY <2>1, BlockIsAStretch
<1>2. PICK j \in Seq(Nat), c \in Nat : j = JidVector(Len(a), way, P, r) /\ c = v - u
        /\ Len(j) = c /\ \A k \in 1..c : j[k] = u + 1 + k - 1
  <2>1. PICK d \in Nat, w \in Nat : d = v - u /\ w = u + 1
    BY <1>1
  <2>2. /\ Stretch(w, d) \in Seq(Nat) /\ Len(Stretch(w, d)) = d
        /\ \A k \in 1..d : Stretch(w, d)[k] = w + k - 1
    BY StretchIs
  <2>3. PICK s : s = JidVector(Len(a), way, P, r)
    OBVIOUS
  <2>4. s \in Seq(Nat) /\ Len(s) = d /\ \A k \in 1..d : s[k] = u + 1 + k - 1
    BY <1>1, <2>1, <2>2, <2>3
  <2>5. QED
    BY <2>1, <2>3, <2>4
<1>3. \A k \in 1..c : j[k] = u + k
  BY <1>2
<1>4. [i \in 1..Len(j) |-> a[j[i]]] = [i \in 1..c |-> a[u + i]]
  BY <1>2, <1>3
<1>5. QED
  BY <1>1, <1>2, <1>4 DEF Part

\* The list of divide.job.all() after i of its steps, as long as there is a job for each
Filled(n, i) == [k \in 1..P |-> IF k <= i THEN JidVector(n, "block", P, k - 1) ELSE NULL]

\* One step of divide.job.all()
LEMMA FillsOneMore ==
  ASSUME NEW n \in Nat, NEW i \in 0..(P - 1), i < n
  PROVE  ListAssign(Filled(n, i), i + 1, JidVector(n, "block", P, i)) = Filled(n, i + 1)
<1>0. P \in Nat \ {0} /\ i \in Nat /\ i + 1 \in 1..P /\ i \in Ranks /\ (i + 1) - 1 = i
  BY SizeAssumption DEF Ranks
<1>1. JidVector(n, "block", P, i) # NULL
  BY <1>0, SharesAreVectors
<1>2. Len(Filled(n, i)) = P
  BY <1>0 DEF Filled
<1>3. ListAssign(Filled(n, i), i + 1, JidVector(n, "block", P, i)) =
        [k \in 1..P |-> IF k = i + 1 THEN JidVector(n, "block", P, i)
                        ELSE IF k <= P THEN Filled(n, i)[k] ELSE NULL]
  <2>1. (IF i + 1 > P THEN i + 1 ELSE P) = P
    BY <1>0
  <2>2. QED
    BY <1>1, <1>2, <2>1 DEF ListAssign, StoreElement
<1>4. ASSUME NEW k \in 1..P
      PROVE  (IF k = i + 1 THEN JidVector(n, "block", P, i)
              ELSE IF k <= P THEN Filled(n, i)[k] ELSE NULL)
               = IF k <= i + 1 THEN JidVector(n, "block", P, k - 1) ELSE NULL
  <2>1. Filled(n, i)[k] = IF k <= i THEN JidVector(n, "block", P, k - 1) ELSE NULL
    BY DEF Filled
  <2>2. k <= P /\ (k = i + 1 => k - 1 = i) /\ (k # i + 1 => (k <= i <=> k <= i + 1))
    BY <1>0
  <2>3. QED
    BY <1>0, <2>1, <2>2
<1>5. QED
  BY <1>3, <1>4 DEF Filled

\* list[[i]] <- NULL makes a list shorter.
LEMMA DeletingShortens ==
  ASSUME NEW l, NEW m \in Nat, Len(l) = m, NEW i
  PROVE  /\ i \in 1..m => Len(DeleteElement(l, i)) = m - 1 /\ m - 1 \in Nat
         /\ ~ (i \in 1..m) => DeleteElement(l, i) = l
<1>1. ASSUME i \in 1..m PROVE Len(DeleteElement(l, i)) = m - 1 /\ m - 1 \in Nat
  <2>1. PICK d \in Nat : d = m - 1
    BY <1>1
  <2>2. DeleteElement(l, i) = [k \in 1..d |-> IF k < i THEN l[k] ELSE l[k + 1]]
    BY <1>1, <2>1 DEF DeleteElement
  <2>3. QED
    BY <2>1, <2>2
<1>2. QED
  BY <1>1 DEF DeleteElement

\* With a job for each rank divide.job.all() gives all shares; with fewer
\* jobs its list is too short.
LEMMA AllJids ==
  ASSUME NEW n \in Nat
  PROVE  /\ P <= n => JidAll(n, "block", P) = Filled(n, P)
         /\ n < P => Len(JidAll(n, "block", P)) < P
<1> DEFINE next(f, i) == IF i = 0 THEN EmptyList(P)
                         ELSE ListAssign(f[i - 1], i, JidVector(n, "block", P, i - 1))
           Made == {m \in Nat : \E f : f = [i \in 0..m |-> next(f, i)]}
<1>0. P \in Nat \ {0}
  BY SizeAssumption
<1>1. 0 \in Made
  <2>1. [i \in 0..0 |-> EmptyList(P)] = [i \in 0..0 |-> next([j \in 0..0 |-> EmptyList(P)], i)]
    OBVIOUS
  <2>2. QED
    BY <2>1
<1>2. ASSUME NEW m \in Nat, m \in Made PROVE m + 1 \in Made
  <2>1. PICK f : f = [i \in 0..m |-> next(f, i)]
    BY <1>2
  <2> DEFINE g == [i \in 0..(m + 1) |-> IF i <= m THEN f[i] ELSE next(f, m + 1)]
  <2>2. \A i \in 0..(m + 1) : g[i] = next(g, i)
    <3>1. ASSUME NEW i \in 0..(m + 1) PROVE g[i] = next(g, i)
      <4>1. CASE i = 0
        <5>1. 0 \in 0..m /\ g[0] = f[0]
          OBVIOUS
        <5> HIDE DEF g
        <5>2. f[0] = next(f, 0)
          BY <2>1, <5>1
        <5>3. QED
          BY <4>1, <5>1, <5>2
      <4>2. CASE i # 0
        <5>1. i - 1 \in 0..m /\ i - 1 \in 0..(m + 1) /\ i - 1 <= m
          BY <4>2
        <5>2. g[i - 1] = f[i - 1]
          BY <5>1
        <5>3. g[i] = next(f, i)
          <6>1. CASE i <= m
            <7>1. i \in 0..m /\ g[i] = f[i]
              BY <6>1
            <7> HIDE DEF next, g
            <7>2. f[i] = next(f, i)
              BY <2>1, <7>1
            <7>3. QED
              BY <7>1, <7>2
          <6>2. CASE ~ (i <= m)
            <7>1. i = m + 1
              BY <6>2
            <7> HIDE DEF next
            <7>2. QED
              BY <6>2, <7>1
          <6>3. QED
            BY <6>1, <6>2
        <5> HIDE DEF g
        <5>4. QED
          BY <4>2, <5>2, <5>3
      <4>3. QED
        BY <4>1, <4>2
    <3>2. QED
      BY <3>1
  <2>3. g = [i \in 0..(m + 1) |-> g[i]]
    OBVIOUS
  <2> HIDE DEF g, next
  <2>4. g = [i \in 0..(m + 1) |-> next(g, i)]
    BY <2>2, <2>3
  <2>5. QED
    BY <2>4
<1>3. P \in Made
  <2>1. \A m \in Nat : m \in Made
    <3> HIDE DEF Made
    <3> QED
      BY <1>1, <1>2, SetInductionNat
  <2>2. QED
    BY <1>0, <2>1
<1>4. PICK f : f = [i \in 0..P |-> next(f, i)] /\ JidAll(n, "block", P) = f[P]
  <2>1. \E f : f = [i \in 0..P |-> next(f, i)]
    BY <1>3
  <2>2. QED
    BY <2>1 DEF JidAll
<1> DEFINE Good == {i \in Nat : i <= P =>
                      IF i <= n THEN f[i] = Filled(n, i) ELSE Len(f[i]) \in 0..(P - 1)}
<1>5. 0 \in Good
  <2>1. f[0] = EmptyList(P)
    BY <1>0, <1>4
  <2>2. Filled(n, 0) = [k \in 1..P |-> NULL]
    <3>1. \A k \in 1..P : ~ (k <= 0)
      BY <1>0
    <3>2. QED
      BY <3>1 DEF Filled
  <2>3. f[0] = Filled(n, 0) /\ 0 <= n /\ 0 \in Nat
    BY <2>1, <2>2 DEF EmptyList
  <2>4. QED
    BY <2>3
<1>6. ASSUME NEW i \in Nat, i \in Good PROVE i + 1 \in Good
  <2>1. SUFFICES ASSUME i + 1 <= P
                 PROVE  IF i + 1 <= n THEN f[i + 1] = Filled(n, i + 1) ELSE Len(f[i + 1]) \in 0..(P - 1)
    OBVIOUS
  <2>2. i + 1 \in 0..P /\ i + 1 # 0 /\ (i + 1) - 1 = i /\ i \in 0..(P - 1) /\ i <= P /\ i \in Ranks
        /\ i + 1 \in 1..P
    BY <1>0, <2>1 DEF Ranks
  <2>3. f[i + 1] = ListAssign(f[i], i + 1, JidVector(n, "block", P, i))
    BY <1>4, <2>2
  <2>4. IF i <= n THEN f[i] = Filled(n, i) ELSE Len(f[i]) \in 0..(P - 1)
    BY <1>6, <2>2
  <2>5. CASE i < n
    BY <2>2, <2>3, <2>4, <2>5, FillsOneMore
  <2>6. CASE ~ (i < n)
    <3>1. f[i + 1] = DeleteElement(f[i], i + 1)
      BY <2>2, <2>3, <2>6, SharesAreVectors DEF ListAssign
    <3>2. CASE i = n
      <4>1. Len(f[i]) = P
        BY <1>0, <2>4, <3>2 DEF Filled
      <4>2. Len(f[i + 1]) = P - 1
        BY <1>0, <2>2, <3>1, <4>1, DeletingShortens
      <4>3. QED
        BY <1>0, <3>2, <4>2
    <3>3. CASE i # n
      <4>1. PICK m \in 0..(P - 1) : m = Len(f[i])
        BY <2>4, <2>6, <3>3
      <4>2. m \in Nat
        BY <4>1
      <4>3. (Len(f[i + 1]) = m - 1 /\ m - 1 \in Nat) \/ Len(f[i + 1]) = m
        BY <3>1, <4>1, <4>2, DeletingShortens
      <4>4. Len(f[i + 1]) \in 0..(P - 1)
        BY <1>0, <4>1, <4>2, <4>3
      <4>5. QED
        BY <2>6, <4>4
    <3>4. QED
      BY <3>2, <3>3
  <2>7. QED
    BY <2>5, <2>6
<1>7. \A i \in Nat : i \in Good
  <2> HIDE DEF Good
  <2> QED
    BY <1>5, <1>6, SetInductionNat
<1>8. P \in Good
  BY <1>0, <1>7
<1>9. QED
  BY <1>0, <1>4, <1>8

\* The blocks of the ranks in a row are the table they come from.
LEMMA BlocksInARow ==
  ASSUME NEW T \in Seq(Nat), NEW b, Divides(b, T), NEW blocks, Lies(blocks, T, b)
  PROVE  AllRows(blocks) = T
<1>0. P \in Nat \ {0} /\ Cut(b) /\ b[P] = Len(T) /\ b[P] <= Len(T)
  <2>1. Len(T) \in Nat
    OBVIOUS
  <2>2. QED
    BY <2>1, SizeAssumption DEF Divides
<1> DEFINE rows == [k \in 1..P |-> blocks[k - 1]]
<1>1. rows = [k \in 1..P |-> Part(T, b[k - 1], b[k])]
  <2>1. ASSUME NEW k \in 1..P PROVE blocks[k - 1] = Part(T, b[k - 1], b[k])
    <3>1. k - 1 \in Ranks /\ (k - 1) + 1 = k
      BY <1>0 DEF Ranks
    <3>2. QED
      BY <3>1 DEF Lies
  <2>2. QED
    BY <2>1
<1>2. AllRows(blocks) = FlattenSeq(rows)
  BY DEF AllRows
<1> HIDE DEF rows
<1>3. FlattenSeq(rows) = Part(T, 0, b[P])
  BY <1>0, <1>1, FlattenIs
<1>4. QED
  BY <1>0, <1>2, <1>3, PartIsAll

\* A table that lies on the ranks is cut at their blocks.
LEMMA TableIsCut ==
  ASSUME NEW rows \in [Ranks -> Seq(Nat)]
  PROVE  /\ AllRows(rows) \in Seq(Nat)
         /\ \E b : Divides(b, AllRows(rows)) /\ Lies(rows, AllRows(rows), b)
<1> DEFINE c == [k \in 1..P |-> Len(rows[k - 1])]
<1>0. P \in Nat \ {0} /\ \A k \in 1..P : c[k] \in Nat /\ k - 1 \in Ranks /\ (k - 1) + 1 = k
  <2>1. ASSUME NEW k \in 1..P PROVE c[k] \in Nat /\ k - 1 \in Ranks /\ (k - 1) + 1 = k
    <3>1. k - 1 \in Ranks /\ (k - 1) + 1 = k
      BY SizeAssumption DEF Ranks
    <3>2. rows[k - 1] \in Seq(Nat)
      BY <3>1
    <3>3. QED
      BY <3>1, <3>2
  <2>2. QED
    BY <2>1, SizeAssumption
<1>1. PICK b : CutFits(b, c, P)
  BY <1>0, CutExists
<1>2. /\ Cut(b) /\ b \in [Nat -> Nat] /\ b[0] = 0 /\ b[P] \in Nat
      /\ \A r \in Ranks : /\ b[r] \in Nat /\ b[r + 1] \in Nat /\ b[r] <= b[r + 1] /\ b[r + 1] <= b[P]
                          /\ b[r + 1] - b[r] = Len(rows[r])
  <2>1. Cut(b) /\ b \in [Nat -> Nat] /\ b[0] = 0 /\ b[P] \in Nat
    BY <1>0, <1>1 DEF CutFits, Cut
  <2>2. ASSUME NEW r \in Ranks
        PROVE  /\ b[r] \in Nat /\ b[r + 1] \in Nat /\ b[r] <= b[r + 1] /\ b[r + 1] <= b[P]
               /\ b[r + 1] - b[r] = Len(rows[r])
    <3>1. r \in Nat /\ r + 1 \in Nat /\ r <= r + 1 /\ r + 1 <= P /\ r + 1 \in 1..P /\ (r + 1) - 1 = r
      BY RanksAre
    <3>2. b[r] \in Nat /\ b[r + 1] \in Nat /\ b[r] <= b[r + 1] /\ b[r + 1] <= b[P]
      BY <1>0, <2>1, <3>1, CutRises
    <3>3. b[r + 1] = b[r] + c[r + 1] /\ c[r + 1] = Len(rows[r]) /\ c[r + 1] \in Nat
      BY <1>0, <1>1, <3>1 DEF CutFits
    <3>4. b[r + 1] - b[r] = c[r + 1]
      BY <3>2, <3>3
    <3>5. QED
      BY <3>2, <3>3, <3>4
  <2>3. QED
    BY <2>1, <2>2
<1> DEFINE owner(j) == CHOOSE r \in Ranks : Owns(b, r, j)
           T == [j \in 1..b[P] |-> rows[owner(j)][j - b[owner(j)]]]
<1>3. ASSUME NEW r \in Ranks, NEW i \in 1..Len(rows[r])
      PROVE  b[r] + i \in 1..b[P] /\ owner(b[r] + i) = r /\ T[b[r] + i] = rows[r][i]
  <2>1. PICK lo \in Nat, hi \in Nat, n \in Nat : lo = b[r] /\ hi = b[r + 1] /\ n = b[P]
    BY <1>2
  <2>2. lo <= hi /\ hi <= n /\ Len(rows[r]) = hi - lo /\ i \in 1..(hi - lo)
    BY <1>2, <2>1
  <2>3. lo + i \in 1..n /\ lo < lo + i /\ lo + i <= hi /\ (lo + i) - lo = i /\ lo + i \in Nat
    BY <2>2
  <2>4. Owns(b, r, lo + i)
    BY <2>1, <2>3 DEF Owns
  <2>5. owner(lo + i) \in Ranks /\ Owns(b, owner(lo + i), lo + i)
    BY <2>4
  <2> HIDE DEF owner
  <2>6. owner(lo + i) = r
    <3>1. owner(lo + i) \in Nat /\ r \in Nat /\ lo + i <= lo + i
      BY <2>3, <2>5, RanksAre
    <3>2. owner(lo + i) <= r /\ r <= owner(lo + i)
      BY <1>2, <2>3, <2>4, <2>5, <3>1, OneOwner
    <3>3. QED
      BY <3>1, <3>2
  <2>7. T[lo + i] = rows[r][(lo + i) - lo]
    BY <2>1, <2>3, <2>6
  <2>8. QED
    BY <2>1, <2>3, <2>6, <2>7
<1>4. T \in Seq(Nat) /\ Len(T) = b[P]
  <2>1. ASSUME NEW j \in 1..b[P] PROVE T[j] \in Nat
    <3>1. \E r \in Ranks : Owns(b, r, j)
      BY <1>2, EachOwned
    <3>2. PICK r \in Ranks : r = owner(j) /\ Owns(b, r, j)
      BY <3>1
    <3> HIDE DEF owner
    <3>3. T[j] = rows[r][j - b[r]]
      BY <3>2
    <3>4. j - b[r] \in 1..Len(rows[r])
      <4>1. b[r] < j /\ j <= b[r + 1] /\ b[r] \in Nat /\ b[r + 1] \in Nat /\ b[r + 1] - b[r] = Len(rows[r])
        BY <1>2, <3>2 DEF Owns
      <4>2. j - b[r] \in 1..(b[r + 1] - b[r])
        BY <4>1
      <4>3. QED
        BY <4>1, <4>2
    <3>5. rows[r] \in Seq(Nat)
      OBVIOUS
    <3>6. QED
      BY <3>3, <3>4, <3>5
  <2>2. PICK n \in Nat : n = b[P]
    BY <1>2
  <2>3. T = [j \in 1..b[P] |-> T[j]]
    OBVIOUS
  <2> HIDE DEF T
  <2>4. T \in [1..n -> Nat]
    BY <2>1, <2>2, <2>3
  <2>5. QED
    BY <2>2, <2>4
<1> HIDE DEF T, owner
<1>5. Lies(rows, T, b)
  <2>1. ASSUME NEW r \in Ranks PROVE rows[r] = Part(T, b[r], b[r + 1])
    <3>1. IsPart(Part(T, b[r], b[r + 1]), T, b[r], b[r + 1])
      <4>1. PICK lo \in Nat, hi \in Nat : lo = b[r] /\ hi = b[r + 1]
        BY <1>2
      <4>2. lo <= hi /\ hi <= Len(T)
        BY <1>2, <1>4, <4>1
      <4>3. IsPart(Part(T, lo, hi), T, lo, hi)
        BY <1>4, <4>2, PartIs
      <4>4. QED
        BY <4>1, <4>3
    <3>2. PICK s \in Seq(Nat) : s = Part(T, b[r], b[r + 1])
      BY <3>1 DEF IsPart
    <3>3. Len(s) = Len(rows[r]) /\ \A i \in 1..Len(rows[r]) : s[i] = T[b[r] + i]
      BY <1>2, <3>1, <3>2 DEF IsPart
    <3>4. \A i \in 1..Len(rows[r]) : s[i] = rows[r][i]
      BY <1>3, <3>3
    <3>5. rows[r] \in Seq(Nat)
      OBVIOUS
    <3>6. s = rows[r]
      BY <3>3, <3>4, <3>5, SameSequence
    <3>7. QED
      BY <3>2, <3>6
  <2>2. QED
    BY <2>1 DEF Lies
<1>6. Divides(b, T)
  BY <1>2, <1>4 DEF Divides
<1>7. AllRows(rows) = T
  BY <1>4, <1>5, <1>6, BlocksInARow
<1>8. QED
  BY <1>4, <1>5, <1>6, <1>7

------------------------------------------------------------------------------
(* Reading                                                                 *)

\* What read.table() gives without nrows, from line skip + 1 on
LEMMA RestOfFile ==
  ASSUME job \in FileJobs, NEW skip \in Nat
  PROVE  /\ NumLines \in Nat /\ Head1 \in {0, 1}
         /\ RowsRead(skip, -1) \in Seq(Nat)
         /\ Len(RowsRead(skip, -1)) =
              IF NumLines < skip + Head1 + 1 THEN 0 ELSE NumLines - (skip + Head1)
         /\ \A i \in 1..Len(RowsRead(skip, -1)) : RowsRead(skip, -1)[i] = skip + Head1 + i
<1>1. NumLines \in Nat /\ Head1 \in {0, 1}
  BY DEF NumLines, Head1, FileJobs
<1>2. PICK L \in Nat, h \in {0, 1} : L = NumLines /\ h = Head1
  BY <1>1
<1>3. RowsRead(skip, -1) =
        IF L < skip + h + 1 THEN <<>> ELSE Stretch(skip + h + 1, L - (skip + h + 1) + 1)
  BY <1>2 DEF RowsRead
<1>4. CASE L < skip + h + 1
  <2>1. NumLines < skip + Head1 + 1
    BY <1>2, <1>4
  <2>2. PICK s \in Seq(Nat) : s = RowsRead(skip, -1) /\ s = <<>>
    <3>1. <<>> \in Seq(Nat) /\ RowsRead(skip, -1) = <<>>
      BY <1>3, <1>4
    <3>2. QED
      BY <3>1, Zenon
  <2>3. Len(s) = 0 /\ \A i \in 1..Len(s) : s[i] = skip + Head1 + i
    BY <2>2
  <2>4. QED
    BY <1>1, <2>1, <2>2, <2>3
<1>5. CASE ~ (L < skip + h + 1)
  <2>1. PICK w \in Nat, c \in Nat : w = skip + h + 1 /\ c = L - (skip + h + 1) + 1
    BY <1>5
  <2>2. /\ Stretch(w, c) \in Seq(Nat) /\ Len(Stretch(w, c)) = c
        /\ \A k \in 1..c : Stretch(w, c)[k] = w + k - 1
    BY StretchIs
  <2>3. PICK s \in Seq(Nat) : s = RowsRead(skip, -1) /\ s = Stretch(w, c)
    BY <1>3, <1>5, <2>1, <2>2
  <2>4. Len(s) = c /\ \A k \in 1..c : s[k] = skip + h + k
    BY <2>1, <2>2, <2>3
  <2>5. c = L - (skip + h)
    BY <2>1
  <2>6. QED
    BY <1>1, <1>2, <1>5, <2>3, <2>4, <2>5
<1>6. QED
  BY <1>4, <1>5

\* The table of a file: a row for each line after the header
LEMMA TableOfFile ==
  ASSUME job \in FileJobs
  PROVE  /\ SourceRows \in Seq(Nat) /\ NumLines \in Nat /\ Head1 \in {0, 1}
         /\ Len(SourceRows) = IF NumLines < Head1 + 1 THEN 0 ELSE NumLines - Head1
         /\ \A i \in 1..Len(SourceRows) : SourceRows[i] = Head1 + i
<1>1. job.from = "file"
  BY DEF FileJobs
<1>2. SourceRows = RowsRead(0, -1) /\ 0 \in Nat
  BY <1>1 DEF SourceRows
<1>3. Head1 \in {0, 1} /\ \A i \in Nat : 0 + Head1 + i = Head1 + i
  BY DEF Head1
<1>4. PICK s : s = RowsRead(0, -1)
  OBVIOUS
<1>5. /\ s \in Seq(Nat) /\ NumLines \in Nat
      /\ Len(s) = IF NumLines < 0 + Head1 + 1 THEN 0 ELSE NumLines - (0 + Head1)
      /\ \A i \in 1..Len(s) : s[i] = 0 + Head1 + i
  BY <1>2, <1>4, RestOfFile
<1>6. 0 + Head1 + 1 = Head1 + 1 /\ 0 + Head1 = Head1
  BY <1>3
<1>7. \A i \in 1..Len(s) : s[i] = Head1 + i
  BY <1>3, <1>5
<1>8. QED
  BY <1>2, <1>3, <1>4, <1>5, <1>6, <1>7

\* The size of a file of some lines is positive, and so is the prediction made from it.
LEMMA TotalOfLines ==
  ASSUME NEW s \in Seq(Nat)
  PROVE  /\ Total(s) \in Nat
         /\ Len(s) # 0 /\ s[1] # 0 => Total(s) # 0
<1>0. Len(s) \in Nat /\ \A k \in 1..Len(s) : s[k] \in Nat
  OBVIOUS
<1>1. PICK b : CutFits(b, s, Len(s))
  BY <1>0, CutExists
<1>2. Cut(b) /\ b \in [Nat -> Nat] /\ b[0] = 0 /\ \A k \in 1..Len(s) : b[k] = b[k - 1] + s[k]
  BY <1>1 DEF CutFits, Cut
<1>3. Total(s) = b[Len(s)] /\ b[Len(s)] \in Nat
  BY <1>0, <1>1, <1>2, TotalIs
<1>4. ASSUME Len(s) # 0, s[1] # 0 PROVE Total(s) # 0
  <2>1. 1 \in 1..Len(s) /\ 1 - 1 = 0 /\ 1 \in Nat /\ 1 <= Len(s)
    BY <1>0, <1>4
  <2>2. b[1] = b[0] + s[1] /\ s[1] \in Nat
    BY <1>0, <1>2, <2>1
  <2>3. b[1] # 0
    BY <1>2, <1>4, <2>2
  <2>4. b[1] \in Nat /\ b[1] <= b[Len(s)]
    BY <1>0, <1>2, <2>1, CutRises
  <2>5. QED
    BY <1>3, <2>3, <2>4
<1>5. QED
  BY <1>3, <1>4

\* The prediction is a number, since a large file has a line to test.
LEMMA PredictionIsANumber ==
  ASSUME job \in FileJobs, ~ (FileSize < MaxRead)
  PROVE  PredictedLines \in Nat
<1>1. /\ job.lines \in Seq(Nat \ {0}) /\ job.lines \in Seq(Nat)
      /\ NumLines = Len(job.lines) /\ NumLines \in Nat
  BY DEF FileJobs, NumLines
<1>2. Total(job.lines) \in Nat
  BY <1>1, TotalOfLines
<1>3. FileSize \in Nat
  BY <1>1, <1>2 DEF FileSize
<1>4. NumLines # 0
  <2>1. SUFFICES ASSUME NumLines = 0 PROVE FALSE
    OBVIOUS
  <2>2. Len(job.lines) = 0
    BY <1>1, <2>1
  <2>3. CutFits([k \in Nat |-> 0], job.lines, Len(job.lines))
    BY <2>2 DEF CutFits, Cut
  <2>4. Total(job.lines) = [k \in Nat |-> 0][Len(job.lines)]
    BY <1>1, <2>3, TotalIs
  <2>5. FileSize = 0
    BY <2>1, <2>2, <2>4 DEF FileSize
  <2>6. QED
    BY <2>5, LimitsAssumption
<1>5. PICK n \in Nat : n = (IF NumLines < TestLines THEN NumLines ELSE TestLines)
                       /\ n # 0 /\ n <= NumLines
  BY <1>1, <1>4, LimitsAssumption
<1>6. Tested = SubSeq(job.lines, 1, n)
  BY <1>5 DEF Tested
<1>7. PICK s \in Seq(Nat) : s = Tested /\ Len(s) = n /\ s[1] # 0
  <2>1. SubSeq(job.lines, 1, n) \in Seq(Nat) /\ Len(SubSeq(job.lines, 1, n)) = n
    BY <1>1, <1>5
  <2>2. SubSeq(job.lines, 1, n)[1] = job.lines[1] /\ job.lines[1] # 0
    BY <1>1, <1>5
  <2>3. QED
    BY <1>6, <2>1, <2>2
<1>8. PICK t \in Nat : t = Total(s) /\ t # 0
  BY <1>5, <1>7, TotalOfLines
<1>9. PICK f \in Nat : f = FileSize
  BY <1>3
<1>10. PredictedLines = (f * n + t - 1) \div t
  BY <1>7, <1>8, <1>9 DEF PredictedLines
<1>11. f * n + t - 1 \in Nat
  <2>1. f * n \in Nat
    BY Distribute
  <2>2. QED
    BY <1>8, <2>1
<1>12. QED
  BY <1>8, <1>10, <1>11, Division

\* The stretch of a rank, for a prediction of a row for each rank
LEMMA MyStretch ==
  ASSUME NEW n \in Nat, pred = n, P <= n, NEW r \in Ranks
  PROVE  /\ Bound(n, FALSE, P, r) \in Nat /\ Bound(n, FALSE, P, r + 1) \in Nat
         /\ Bound(n, FALSE, P, r) < Bound(n, FALSE, P, r + 1)
         /\ MySkip(r) = Bound(n, FALSE, P, r)
         /\ MyRows(r) = IF r = P - 1 THEN -1 ELSE Bound(n, FALSE, P, r + 1) - Bound(n, FALSE, P, r)
<1>1. /\ Bound(n, FALSE, P, r) \in Nat /\ Bound(n, FALSE, P, r + 1) \in Nat
      /\ Bound(n, FALSE, P, r) < Bound(n, FALSE, P, r + 1)
      /\ JidVector(n, "block", P, r) =
           Stretch(Bound(n, FALSE, P, r) + 1, Bound(n, FALSE, P, r + 1) - Bound(n, FALSE, P, r))
  <2>1. ("block" = "block0") = FALSE
    OBVIOUS
  <2>2. QED
    BY <2>1, BlockIsAStretch
<1>2. PICK u \in Nat, v \in Nat, w \in Nat, c \in Nat :
        /\ u = Bound(n, FALSE, P, r) /\ v = Bound(n, FALSE, P, r + 1)
        /\ w = u + 1 /\ c = v - u /\ u < v /\ c >= 1 /\ w - 1 = u
  <2>1. PICK u \in Nat, v \in Nat :
          u = Bound(n, FALSE, P, r) /\ v = Bound(n, FALSE, P, r + 1) /\ u < v
    BY <1>1
  <2>2. u + 1 \in Nat /\ v - u \in Nat /\ v - u >= 1 /\ (u + 1) - 1 = u
    <3>1. u < v
      BY <2>1
    <3>2. QED
      BY <3>1
  <2>3. QED
    BY <2>1, <2>2
<1>3. MyJid(r) = Stretch(w, c)
  BY <1>1, <1>2 DEF MyJid
<1>4. /\ Len(Stretch(w, c)) = c /\ \A k \in 1..c : Stretch(w, c)[k] = w + k - 1
  BY StretchIs
<1>5. 1 \in 1..c /\ w + 1 - 1 = w
  <2>1. c >= 1
    BY <1>2
  <2>2. QED
    BY <2>1
<1>6. MyJid(r)[1] = w /\ Len(MyJid(r)) = c
  BY <1>3, <1>4, <1>5
<1>7. MySkip(r) = u
  <2>1. MySkip(r) = w - 1
    BY <1>6 DEF MySkip
  <2>2. QED
    BY <1>2, <2>1
<1>8. MyRows(r) = IF r = P - 1 THEN -1 ELSE v - u
  BY <1>2, <1>6 DEF MyRows
<1>9. QED
  BY <1>1, <1>2, <1>7, <1>8

\* If the last rank has a line to read, then the predicted stretches cover the
\* file: the last one takes the rest, whatever the prediction was.
LEMMA StretchesCoverTheFile ==
  ASSUME job \in FileJobs, PredictedLines \in Nat, \A r \in Ranks : StretchIsRead(r)
  PROVE  \E b : Divides(b, SourceRows) /\ Lies(X, SourceRows, b)
<1>0. P \in Nat \ {0} /\ P - 1 \in Ranks /\ P - 1 \in Nat /\ (P - 1) + 1 = P
  BY SizeAssumption DEF Ranks
<1>1. PICK n \in Nat : n = pred
  BY <1>0 DEF StretchIsRead
<1>2. P <= n
  <2>1. JidVector(n, "block", P, P - 1) # NULL
    BY <1>0, <1>1 DEF StretchIsRead, MyJid
  <2>2. P - 1 < n
    BY <1>0, <2>1, SharesAreVectors
  <2>3. QED
    BY <1>0, <2>2
<1> DEFINE B(r) == Bound(n, FALSE, P, r)
<1>3. /\ B(0) = 0 /\ \A r \in Nat : B(r) \in Nat /\ B(r) <= B(r + 1)
  <2>1. \A r \in Nat : B(r) \in Nat /\ B(r) <= B(r + 1) /\ B(0) = 0
    BY <1>0, BoundSteps
  <2>2. QED
    BY <2>1
<1>4. ASSUME NEW r \in Ranks
      PROVE  /\ B(r) < B(r + 1) /\ B(r) < NumLines
             /\ X[r] = RowsRead(B(r), IF r = P - 1 THEN -1 ELSE B(r + 1) - B(r))
  <2>1. /\ B(r) < B(r + 1) /\ MySkip(r) = B(r)
        /\ MyRows(r) = IF r = P - 1 THEN -1 ELSE B(r + 1) - B(r)
    BY <1>1, <1>2, MyStretch
  <2> HIDE DEF B
  <2>2. MySkip(r) < NumLines /\ X[r] = RowsRead(MySkip(r), MyRows(r))
    BY DEF StretchIsRead, Readable
  <2>3. QED
    BY <2>1, <2>2
<1> HIDE DEF B
<1>5. PICK T \in Seq(Nat), L \in Nat, h \in {0, 1}, m \in Nat :
        /\ T = SourceRows /\ L = NumLines /\ h = Head1 /\ m = Len(T)
        /\ m = (IF L < h + 1 THEN 0 ELSE L - h) /\ \A i \in 1..m : T[i] = h + i
  <2>1. PICK s : s = SourceRows
    OBVIOUS
  <2>2. /\ s \in Seq(Nat) /\ NumLines \in Nat /\ Head1 \in {0, 1}
        /\ Len(s) = IF NumLines < Head1 + 1 THEN 0 ELSE NumLines - Head1
        /\ \A i \in 1..Len(s) : s[i] = Head1 + i
    BY <2>1, TableOfFile
  <2>3. Len(s) \in Nat
    BY <2>2
  <2>4. QED
    BY <2>1, <2>2, <2>3
<1>6. B(P - 1) < L /\ B(P - 1) \in Nat /\ L >= 1 /\ m = L - h /\ B(P - 1) <= m
  <2>1. B(P - 1) < L /\ B(P - 1) \in Nat
    BY <1>0, <1>3, <1>4, <1>5
  <2>2. QED
    BY <1>5, <2>1
<1> DEFINE b == [r \in Nat |-> IF r < P THEN B(r) ELSE m]
<1>7. ASSUME NEW r \in Nat, NEW s \in Nat, r <= s PROVE B(r) <= B(s)
  <2> DEFINE c == [k \in Nat |-> B(k)]
  <2>1. c \in [Nat -> Nat] /\ \A k \in Nat : c[k] <= c[k + 1]
    <3>1. c \in [Nat -> Nat]
      BY <1>3
    <3>2. ASSUME NEW k \in Nat PROVE c[k] <= c[k + 1]
      <4>1. k + 1 \in Nat /\ B(k) <= B(k + 1)
        BY <1>3
      <4>2. QED
        BY <4>1
    <3>3. QED
      BY <3>1, <3>2
  <2>2. \A k \in Nat : k < s => c[k] <= c[k + 1]
    BY <2>1
  <2>3. c[r] = B(r) /\ c[s] = B(s)
    OBVIOUS
  <2> HIDE DEF c
  <2>4. \A q, t \in Nat : q <= t /\ t <= s => c[q] <= c[t]
    BY <2>1, <2>2, BoundsRise
  <2>5. QED
    BY <1>7, <2>3, <2>4
<1>8. Divides(b, T)
  <2>1. b \in [Nat -> Nat]
    BY <1>3
  <2>2. b[0] = 0 /\ b[P] = m
    BY <1>0, <1>3
  <2>3. ASSUME NEW k \in Nat PROVE b[k] <= b[k + 1]
    <3>1. CASE k + 1 < P
      BY <1>0, <1>3, <3>1
    <3>2. CASE k + 1 = P
      <4>1. k = P - 1 /\ k < P /\ ~ (k + 1 < P)
        BY <1>0, <3>2
      <4>2. b[k] = B(P - 1) /\ b[k + 1] = m
        BY <4>1
      <4>3. QED
        BY <1>6, <4>2
    <3>3. CASE k + 1 > P
      <4>1. ~ (k < P) /\ ~ (k + 1 < P)
        BY <1>0, <3>3
      <4>2. QED
        BY <4>1
    <3>4. QED
      BY <1>0, <3>1, <3>2, <3>3
  <2> HIDE DEF b
  <2>4. QED
    BY <1>5, <2>1, <2>2, <2>3 DEF Divides, Cut
<1>9. ASSUME NEW r \in Ranks PROVE X[r] = Part(T, b[r], b[r + 1])
  <2>0. r \in Nat /\ r + 1 \in Nat /\ r < P /\ B(r) \in Nat /\ B(r + 1) \in Nat /\ B(r) < B(r + 1)
    <3>1. r \in Nat /\ r + 1 \in Nat /\ r < P
      BY <1>0 DEF Ranks
    <3>2. QED
      BY <1>3, <1>4, <3>1
  <2>1. CASE r # P - 1
    <3>1. r + 1 < P /\ r + 1 <= P - 1
      BY <1>0, <2>0, <2>1
    <3>2. B(r + 1) <= B(P - 1)
      BY <1>0, <1>7, <2>0, <3>1
    <3>3. PICK u \in Nat, v \in Nat, c \in Nat :
            u = B(r) /\ v = B(r + 1) /\ c = v - u /\ u < v /\ v < L /\ v <= m
      BY <1>6, <2>0, <3>2
    <3>4. X[r] = RowsRead(u, c)
      BY <1>4, <2>1, <3>3
    <3>5. RowsRead(u, c) = Stretch(u + h + 1, u + h + 1 + c - 1 - (u + h + 1) + 1)
      <4>1. c # -1 /\ ~ (u + h + 1 + c - 1 > L) /\ ~ (u + h + 1 + c - 1 < u + h + 1)
        <5>1. /\ L \in Nat /\ h \in {0, 1} /\ m = (IF L < h + 1 THEN 0 ELSE L - h)
              /\ u \in Nat /\ v \in Nat /\ c \in Nat /\ c = v - u /\ u < v /\ v <= m
          BY <1>5, <3>3
        <5>2. u + c = v /\ c > 0 /\ v + h <= L
          BY <5>1
        <5>3. QED
          BY <5>1, <5>2
      <4>2. QED
        BY <1>5, <4>1 DEF RowsRead
    <3>6. u + h + 1 + c - 1 - (u + h + 1) + 1 = c
      <4>1. h \in Nat
        BY <1>5
      <4>2. QED
        BY <4>1
    <3>7. X[r] = [k \in 1..c |-> u + h + 1 + k - 1]
      BY <3>4, <3>5, <3>6 DEF Stretch
    <3>8. b[r] = u /\ b[r + 1] = v
      BY <2>0, <3>1, <3>3
    <3>9. Part(T, b[r], b[r + 1]) = [k \in 1..c |-> T[u + k]]
      <4> HIDE DEF b
      <4>1. Part(T, u, v) = [k \in 1..(v - u) |-> T[u + k]]
        BY DEF Part
      <4>2. QED
        BY <3>3, <3>8, <4>1
    <3>10. ASSUME NEW k \in 1..c PROVE T[u + k] = u + h + 1 + k - 1
      <4>1. u + k \in 1..m
        BY <3>3
      <4>2. T[u + k] = h + (u + k)
        BY <1>5, <4>1
      <4>3. QED
        BY <3>3, <4>2
    <3>11. QED
      BY <3>7, <3>9, <3>10
  <2>2. CASE r = P - 1
    <3>1. PICK u \in Nat : u = B(r) /\ u <= m /\ u < L
      BY <1>6, <2>0, <2>2
    <3>2. X[r] = RowsRead(u, -1)
      BY <1>4, <2>2, <3>1
    <3>3. PICK s : s = X[r]
      OBVIOUS
    <3>4. /\ s \in Seq(Nat) /\ Len(s) = (IF L < u + h + 1 THEN 0 ELSE L - (u + h))
          /\ \A i \in 1..Len(s) : s[i] = u + h + i
      <4>1. s = RowsRead(u, -1)
        BY <3>2, <3>3
      <4>2. /\ s \in Seq(Nat)
            /\ Len(s) = (IF NumLines < u + Head1 + 1 THEN 0 ELSE NumLines - (u + Head1))
            /\ \A i \in 1..Len(s) : s[i] = u + Head1 + i
        BY <4>1, RestOfFile
      <4>3. QED
        BY <1>5, <4>2
    <3>5. Len(s) = m - u
      BY <1>5, <1>6, <3>1, <3>4
    <3>6. b[r] = u /\ b[r + 1] = m
      BY <1>0, <2>0, <2>2, <3>1
    <3> HIDE DEF b
    <3>7. IsPart(Part(T, u, m), T, u, m)
      <4>1. m <= Len(T)
        BY <1>5
      <4>2. QED
        BY <3>1, <4>1, PartIs
    <3>8. PICK t \in Seq(Nat) : t = Part(T, u, m)
      BY <3>7 DEF IsPart
    <3>9. Len(t) = m - u /\ \A i \in 1..(m - u) : t[i] = T[u + i]
      BY <3>7, <3>8 DEF IsPart
    <3>10. ASSUME NEW i \in 1..(m - u) PROVE t[i] = s[i]
      <4>1. u + i \in 1..m /\ h + (u + i) = u + h + i /\ i \in 1..Len(s)
        <5>1. u \in Nat /\ m \in Nat /\ h \in Nat /\ i \in 1..(m - u)
          BY <1>5, <3>1
        <5>2. u + i \in 1..m /\ h + (u + i) = u + h + i
          BY <5>1
        <5>3. QED
          BY <3>5, <5>2
      <4>2. T[u + i] = h + (u + i) /\ s[i] = u + h + i
        BY <1>5, <3>4, <4>1
      <4>3. QED
        BY <3>9, <4>1, <4>2
    <3>11. t = s
      BY <3>4, <3>5, <3>9, <3>10, SameSequence
    <3>12. QED
      BY <3>3, <3>6, <3>8, <3>11
  <2>3. QED
    BY <2>1, <2>2
<1>10. Lies(X, T, b)
  BY <1>9 DEF Lies
<1>11. QED
  BY <1>5, <1>8, <1>10

\* Rank 0 starts at the first line.
LEMMA RootReadsTheHeader ==
  ASSUME pred \in Nat, MyJid(0) # NULL
  PROVE  MySkip(0) = 0
<1>0. P \in Nat \ {0} /\ 0 \in Ranks
  BY SizeAssumption DEF Ranks
<1>1. PICK n \in Nat : n = pred
  OBVIOUS
<1>2. 0 < n
  BY <1>0, <1>1, SharesAreVectors DEF MyJid
<1>3. CASE P <= n
  <2>1. MySkip(0) = Bound(n, FALSE, P, 0)
    BY <1>0, <1>1, <1>3, MyStretch
  <2>2. 0 \in Nat /\ Bound(n, FALSE, P, 0) = 0
    BY <1>0, BoundSteps
  <2>3. QED
    BY <2>1, <2>2
<1>4. CASE ~ (P <= n)
  <2>1. n <= P /\ 0 < n /\ ~ (0 >= n) /\ ~ (n > P)
    BY <1>0, <1>2, <1>4
  <2>2. JidVector(n, "block", P, 0) = <<0 + 1>>
    BY <2>1, Zenon DEF JidVector
  <2>3. MyJid(0) = <<0 + 1>>
    BY <1>1, <2>2 DEF MyJid
  <2>4. QED
    BY <2>3 DEF MySkip
<1>5. QED
  BY <1>3, <1>4

------------------------------------------------------------------------------
(* The types                                                               *)

\* What the assignment to one place of a function changes
LEMMA OneChanged ==
  ASSUME NEW f, OverRanks(f), NEW r \in Ranks, NEW v, NEW g, g = [f EXCEPT ![r] = v]
  PROVE  OverRanks(g) /\ g[r] = v /\ \A q \in Ranks : q # r => g[q] = f[q]
BY DEF OverRanks

\* What the assignment to one channel changes
LEMMA OneChannelChanged ==
  ASSUME OverRanks(net), \A s \in Ranks : OverRanks(net[s]), NEW s \in Ranks, NEW d \in Ranks, NEW v,
         net' = [net EXCEPT ![s][d] = v]
  PROVE  /\ OverRanks(net') /\ \A q \in Ranks : OverRanks(net'[q])
         /\ net'[s][d] = v
         /\ \A p, q \in Ranks : p # s \/ q # d => net'[p][q] = net[p][q]
<1>1. net' = [net EXCEPT ![s] = [net[s] EXCEPT ![d] = v]]
  BY DEF OverRanks
<1>2. PICK line : line = [net[s] EXCEPT ![d] = v]
  OBVIOUS
<1>3. OverRanks(line) /\ line[d] = v /\ \A q \in Ranks : q # d => line[q] = net[s][q]
  <2>1. PICK f : f = net[s] /\ OverRanks(f)
    OBVIOUS
  <2>2. line = [f EXCEPT ![d] = v]
    BY <1>2, <2>1
  <2>3. QED
    BY <2>1, <2>2 DEF OverRanks
<1>4. OverRanks(net') /\ net'[s] = line /\ \A q \in Ranks : q # s => net'[q] = net[q]
  <2>1. PICK g : g = net' /\ g = [net EXCEPT ![s] = line]
    BY <1>1, <1>2
  <2>2. QED
    BY <2>1 DEF OverRanks
<1>5. QED
  BY <1>3, <1>4

\* Binding a block keeps the types.
LEMMA BindTypes ==
  ASSUME Types, NEW r \in Ranks, NEW block, Bind(r, block)
  PROVE  OverRanks(pc') /\ OverRanks(ret') /\ OverRanks(todo')
<1>1. CASE Flattened(Len(block))
  <2>1. pc' = [pc EXCEPT ![r] = "stopped"] /\ todo' = todo /\ ret' = ret
    BY <1>1 DEF Bind
  <2>2. QED
    BY <2>1, OneChanged DEF Types
<1>2. CASE ~ Flattened(Len(block))
  <2>1. /\ ret' = [ret EXCEPT ![r] = @ \o block] /\ todo' = [todo EXCEPT ![r] = Tail(@)]
        /\ pc' = pc
    BY <1>2 DEF Bind
  <2>2. QED
    BY <2>1, OneChanged DEF Types
<1>3. QED
  BY <1>1, <1>2

\* The steps of a balancing rank keep the types.
LEMMA BalanceTypes ==
  ASSUME Types, NEW r \in Ranks, Balancing(r) \/ FinishBalance(r, After), UNCHANGED rtvars
  PROVE  Types'
<1>0. job' = job /\ names' = names /\ turn' = turn
  BY DEF rtvars
<1>1. CASE SendPiece(r)
  <2>1. method' = method /\ pc' = pc /\ X' = X /\ ret' = ret /\ todo' = [todo EXCEPT ![r] = Tail(@)]
    BY <1>1 DEF SendPiece
  <2>2. OverRanks(todo')
    BY <2>1, OneChanged DEF Types
  <2>3. OverRanks(net') /\ \A s \in Ranks : OverRanks(net'[s])
    <3>1. CASE Head(todo[r]) = r
      <4>1. net' = net
        BY <1>1, <3>1 DEF SendPiece
      <4>2. QED
        BY <4>1 DEF Types
    <3>2. CASE Head(todo[r]) # r
      <4>1. PICK d : d = Head(todo[r])
        OBVIOUS
      <4>2. net' = [net EXCEPT ![r][d] = Append(@, Piece(r, d))]
        BY <1>1, <3>2, <4>1 DEF SendPiece
      <4>3. QED
        BY <4>2 DEF Types, OverRanks
    <3>3. QED
      BY <3>1, <3>2
  <2>4. QED
    BY <1>0, <2>1, <2>2, <2>3 DEF Types
<1>2. CASE StartReceiving(r)
  <2>1. method' = method /\ X' = X /\ net' = net
    BY <1>2 DEF StartReceiving
  <2>2. OverRanks(pc') /\ OverRanks(todo') /\ OverRanks(ret')
    BY <1>2, OneChanged DEF StartReceiving, Types
  <2>3. QED
    BY <1>0, <2>1, <2>2 DEF Types
<1>3. CASE RecvPiece(r)
  <2>1. method' = method /\ X' = X
    BY <1>3 DEF RecvPiece
  <2>2. PICK s : s = Head(todo[r])
    OBVIOUS
  <2>3. net' = [net EXCEPT ![s][r] = Tail(@)] /\ Bind(r, Head(net[s][r]))
    BY <1>3, <2>2 DEF RecvPiece
  <2>4. OverRanks(pc') /\ OverRanks(ret') /\ OverRanks(todo')
    BY <2>3, BindTypes
  <2>5. OverRanks(net') /\ \A q \in Ranks : OverRanks(net'[q])
    <3>1. OverRanks(net) /\ \A q \in Ranks : OverRanks(net[q])
      BY DEF Types
    <3>2. PICK line : line = [net[s] EXCEPT ![r] = Tail(net[s][r])]
      OBVIOUS
    <3>3. s \in Ranks => OverRanks(line)
      BY <3>1, <3>2 DEF OverRanks
    <3>4. net' = [net EXCEPT ![s] = line]
      BY <2>3, <3>2
    <3>5. QED
      BY <3>1, <3>3, <3>4 DEF OverRanks
  <2>6. QED
    BY <1>0, <2>1, <2>4, <2>5 DEF Types
<1>4. CASE OwnPiece(r)
  <2>1. method' = method /\ X' = X /\ net' = net
    BY <1>4 DEF OwnPiece
  <2>2. OverRanks(pc') /\ OverRanks(ret') /\ OverRanks(todo')
    <3>1. Bind(r, Piece(r, r))
      BY <1>4 DEF OwnPiece
    <3>2. QED
      BY <3>1, BindTypes
  <2>3. QED
    BY <1>0, <2>1, <2>2 DEF Types
<1>5. CASE FinishBalance(r, After)
  <2>1. method' = method /\ X' = X /\ net' = net /\ todo' = todo
    BY <1>5 DEF FinishBalance
  <2>2. OverRanks(pc') /\ OverRanks(ret')
    BY <1>5, OneChanged DEF FinishBalance, Types
  <2>3. QED
    BY <1>0, <2>1, <2>2 DEF Types
<1>6. QED
  BY <1>1, <1>2, <1>3, <1>4, <1>5 DEF Balancing

\* Entering a call keeps the types.
LEMMA EnterTypes ==
  ASSUME Types, EnterLoad \/ EnterUnload, UNCHANGED rtvars
  PROVE  Types'
<1>0. job' = job /\ names' = names /\ turn' = turn
  BY DEF rtvars
<1>1. CASE EnterLoad
  <2>1. method' = method /\ X' = X /\ ret' = ret /\ net' = net
    BY <1>1 DEF EnterLoad
  <2>2. OverRanks(pc') /\ OverRanks(todo')
    <3>1. CASE Undivided([k \in 1..P |-> Len(X[k - 1])])
      <4>1. pc' = [r \in Ranks |-> "stopped"] /\ todo' = todo
        BY <1>1, <3>1 DEF EnterLoad
      <4>2. QED
        BY <4>1 DEF Types, OverRanks
    <3>2. CASE ~ Undivided([k \in 1..P |-> Len(X[k - 1])])
      <4>1. /\ pc' = [r \in Ranks |-> "send"]
            /\ todo' = [r \in Ranks |-> Unique(Where(info'.belong, info'.org, r))]
        BY <1>1, <3>2 DEF EnterLoad
      <4>2. QED
        BY <4>1 DEF OverRanks
    <3>3. QED
      BY <3>1, <3>2
  <2>3. QED
    BY <1>0, <2>1, <2>2 DEF Types
<1>2. CASE EnterUnload
  <2>1. /\ method' = method /\ X' = ret /\ ret' = ret /\ net' = net
        /\ \/ pc' = [r \in Ranks |-> "stopped"] /\ todo' = todo
           \/ /\ pc' = [r \in Ranks |-> "send"]
              /\ todo' = [r \in Ranks |-> Unique(Where(info'.belong, info'.org, r))]
    BY <1>2 DEF EnterUnload
  <2>2. OverRanks(pc') /\ OverRanks(todo')
    BY <2>1 DEF Types, OverRanks
  <2>3. QED
    BY <1>0, <2>1, <2>2 DEF Types, OverRanks
<1>3. QED
  BY <1>1, <1>2

\* The steps of a reading rank keep the types.
LEMMA ReadingTypes ==
  ASSUME Types, NEW r \in Ranks, Reading(r)
  PROVE  Types'
<1>1. CASE TakeChunk(r)
  <2>1. /\ job' = job /\ method' = method /\ X' = X /\ todo' = todo /\ net' = net /\ turn' = turn
        /\ OverRanks(pc') /\ OverRanks(ret') /\ OverRanks(names')
    BY <1>1, OneChanged DEF TakeChunk, Types
  <2>2. QED
    BY <2>1 DEF Types
<1>2. CASE TakePrediction(r)
  BY <1>2, OneChanged DEF TakePrediction, Types, rtvars
<1>3. CASE OpenFile(r)
  BY <1>3, OneChanged DEF OpenFile, Types, rtvars
<1>4. CASE CloseFile(r)
  <2>1. job' = job /\ method' = method /\ ret' = ret /\ todo' = todo /\ net' = net /\ turn' = turn
    BY <1>4 DEF CloseFile
  <2>2. OverRanks(pc') /\ OverRanks(X') /\ OverRanks(names')
    <3>1. CASE MyJid(r) = NULL \/ ~ Readable(MySkip(r))
      BY <1>4, <3>1, OneChanged DEF CloseFile, Types
    <3>2. CASE ~ (MyJid(r) = NULL \/ ~ Readable(MySkip(r)))
      BY <1>4, <3>2, OneChanged DEF CloseFile, Types
    <3>3. QED
      BY <3>1, <3>2
  <2>3. QED
    BY <2>1, <2>2 DEF Types
<1>5. CASE LetRead(r)
  BY <1>5, OneChanged DEF LetRead, Types, rtvars
<1>6. CASE TakeNames(r)
  BY <1>6, OneChanged DEF TakeNames, Types
<1>7. QED
  BY <1>1, <1>2, <1>3, <1>4, <1>5, <1>6 DEF Reading

\* The steps of rank 0, and the barrier, keep the types.
LEMMA RootTypes ==
  ASSUME Types, Split \/ Predict \/ SayNames \/ NextTurn
  PROVE  Types'
<1>0. 0 \in Ranks
  BY RootIsARank
<1>1. CASE Split
  <2>1. job' = job /\ method' = method /\ X' = X /\ todo' = todo /\ net' = net /\ turn' = turn
    BY <1>1 DEF Split
  <2>2. \/ pc' = [pc EXCEPT ![0] = "stopped"] /\ ret' = ret /\ names' = names
        \/ /\ ret' = [ret EXCEPT ![0] = chunks'[1]] /\ names' = [names EXCEPT ![0] = NamesRead(0)]
           /\ pc' = [pc EXCEPT ![0] = "names"]
    BY <1>1 DEF Split
  <2>3. OverRanks(pc') /\ OverRanks(ret') /\ OverRanks(names')
    BY <1>0, <2>2, OneChanged DEF Types
  <2>4. QED
    BY <2>1, <2>3 DEF Types
<1>2. CASE Predict
  BY <1>0, <1>2, OneChanged DEF Predict, Types
<1>3. CASE SayNames
  BY <1>0, <1>3, OneChanged DEF SayNames, Types
<1>4. CASE NextTurn
  <2>1. OverRanks(pc')
    BY <1>4 DEF NextTurn, OverRanks
  <2>2. QED
    BY <1>4, <2>1 DEF NextTurn, Types
<1>5. QED
  BY <1>1, <1>2, <1>3, <1>4

\* Every step keeps the types.
LEMMA TypesKept == ASSUME Types, Next \/ UNCHANGED vars PROVE Types'
<1>1. CASE UNCHANGED vars
  BY <1>1 DEF vars, lbvars, rtvars, Types
<1>2. CASE Next
  BY <1>1, <1>2, BalanceTypes, EnterTypes, ReadingTypes, RootTypes DEF Next, Terminating
<1>3. QED
  BY <1>1, <1>2

\* What a job gives stays the same.
LEMMA JobStays ==
  ASSUME Types, Next \/ UNCHANGED vars
  PROVE  job' = job /\ method' = method /\ shape' = shape
<1>1. CASE UNCHANGED vars
  BY <1>1 DEF vars, lbvars, rtvars
<1>2. CASE Split \/ Predict \/ SayNames \/ NextTurn
  BY <1>2 DEF Split, Predict, SayNames, NextTurn
<1>3. ASSUME NEW r \in Ranks, Reading(r) PROVE job' = job /\ method' = method /\ shape' = shape
  BY <1>3 DEF Reading, TakeChunk, TakePrediction, OpenFile, CloseFile, LetRead, TakeNames, rtvars
<1>4. CASE (EnterLoad \/ EnterUnload) /\ UNCHANGED rtvars
  BY <1>4 DEF EnterLoad, EnterUnload, rtvars
<1>5. ASSUME NEW r \in Ranks, Balancing(r) \/ FinishBalance(r, After), UNCHANGED rtvars
      PROVE  job' = job /\ method' = method /\ shape' = shape
  BY <1>5 DEF Balancing, SendPiece, StartReceiving, RecvPiece, OwnPiece, FinishBalance, rtvars
<1>6. QED
  BY <1>1, <1>2, <1>3, <1>4, <1>5 DEF Next, Terminating

\* The table that the job gives stays the same.
LEMMA TableStays ==
  ASSUME job' = job
  PROVE  /\ SourceRows' = SourceRows /\ (Scattered <=> Scattered') /\ NumLines' = NumLines
         /\ Head1' = Head1 /\ PredictedLines' = PredictedLines
<1>1. NumLines' = NumLines /\ Head1' = Head1
  BY DEF NumLines, Head1
<1>2. FileSize' = FileSize /\ Tested' = Tested
  BY <1>1 DEF FileSize, Tested
<1>3. PredictedLines' = PredictedLines /\ (Scattered <=> Scattered')
  BY <1>2 DEF PredictedLines, Scattered
<1>4. RowsRead(0, -1)' = RowsRead(0, -1)
  BY <1>1 DEF RowsRead
<1>5. SourceRows' = SourceRows
  BY <1>4 DEF SourceRows
<1>6. QED
  BY <1>1, <1>3, <1>5

\* A job is a file or a table.
LEMMA KindsOfJobs ==
  ASSUME Types
  PROVE  /\ job.from = "file" => job \in FileJobs
         /\ job.from # "file" => job.from = "ranks" /\ job \in TableJobs
<1>1. job \in FileJobs \/ job \in TableJobs
  BY JobsAssumption DEF Types
<1>2. job \in FileJobs => job.from = "file"
  BY DEF FileJobs
<1>3. job \in TableJobs => job.from = "ranks"
  BY DEF TableJobs
<1>4. QED
  BY <1>1, <1>2, <1>3

\* The size of a file can be compared with the limit.
LEMMA FileSizeIsANumber ==
  ASSUME Types, job.from = "file"
  PROVE  FileSize \in Nat /\ MaxRead \in Nat
<1>1. job \in FileJobs
  BY KindsOfJobs
<1>2. job.lines \in Seq(Nat) /\ Len(job.lines) \in Nat
  BY <1>1 DEF FileJobs
<1>3. Total(job.lines) \in Nat
  BY <1>2, TotalOfLines
<1>4. QED
  BY <1>2, <1>3, LimitsAssumption DEF FileSize, NumLines

------------------------------------------------------------------------------
(* A small file                                                            *)

\* What can happen while a small file is scattered
LEMMA SmallMoves ==
  ASSUME Types, NEW T, Small(T), Next
  PROVE  Split \/ (\E r \in Ranks : TakeChunk(r)) \/ SayNames \/ (\E r \in Ranks : TakeNames(r))
         \/ UNCHANGED vars
<1>0. /\ 0 \in Ranks /\ pred = NULL
      /\ \A r \in Ranks : pc[r] \in {"start", "names", "done", "stopped"}
  BY RootIsARank DEF Small
<1>1. ~ Predict
  <2>1. job.from = "file" /\ FileSize < MaxRead
    BY DEF Small, Scattered
  <2>2. ~ (FileSize >= MaxRead)
    BY <2>1, FileSizeIsANumber
  <2>3. QED
    BY <2>2 DEF Predict
<1>2. ~ NextTurn
  BY <1>0 DEF NextTurn
<1>3. ASSUME NEW r \in Ranks, Reading(r) PROVE TakeChunk(r) \/ TakeNames(r)
  BY <1>0, <1>3 DEF Reading, TakePrediction, OpenFile, CloseFile, LetRead
<1>4. ~ EnterLoad /\ ~ EnterUnload
  BY <1>0 DEF EnterLoad, EnterUnload
<1>5. ASSUME NEW r \in Ranks PROVE ~ Balancing(r) /\ ~ FinishBalance(r, After)
  BY <1>0 DEF Balancing, SendPiece, StartReceiving, RecvPiece, OwnPiece, FinishBalance
<1>6. QED
  BY <1>1, <1>2, <1>3, <1>4, <1>5 DEF Next, Terminating

\* Where the blocks begin and end
LEMMA BlockCutIs ==
  ASSUME NEW n \in Nat
  PROVE  /\ Cut(BlockCut(n)) /\ BlockCut(n)[P] = n
         /\ \A r \in Ranks : /\ BlockCut(n)[r] = Bound(n, FALSE, P, r)
                             /\ BlockCut(n)[r + 1] = Bound(n, FALSE, P, r + 1)
<1>0. P \in Nat \ {0}
  BY SizeAssumption
<1>1. ASSUME NEW r \in Nat
      PROVE  /\ Bound(n, FALSE, P, r) \in Nat /\ Bound(n, FALSE, P, r) <= Bound(n, FALSE, P, r + 1)
             /\ Bound(n, FALSE, P, 0) = 0 /\ Bound(n, FALSE, P, P) = n
  BY <1>0, BoundSteps
<1> DEFINE B(r) == Bound(n, FALSE, P, r)
<1>2. \A r \in Nat : B(r) \in Nat /\ B(r) <= B(r + 1) /\ B(0) = 0 /\ B(P) = n
  BY <1>1
<1>3. BlockCut(n) = [r \in Nat |-> B(r)]
  BY DEF BlockCut
<1>4. \A r \in Ranks : r \in Nat /\ r + 1 \in Nat
  BY RanksAre
<1> HIDE DEF B
<1>5. Cut(BlockCut(n)) /\ BlockCut(n)[P] = n
  BY <1>0, <1>2, <1>3 DEF Cut
<1>6. \A r \in Ranks : BlockCut(n)[r] = B(r) /\ BlockCut(n)[r + 1] = B(r + 1)
  BY <1>3, <1>4
<1>7. QED
  BY <1>5, <1>6 DEF B

\* The pieces that rank 0 scatters are the blocks of the table.
LEMMA SplitGives ==
  ASSUME Types, NEW T \in Seq(Nat), T = SourceRows, Small(T), Split,
         ~ (~ Readable(0) \/ Len(JidAll(Len(RowsRead(0, -1)), "block", P)) < P)
  PROVE  /\ Len(T) >= P
         /\ \A r \in Ranks :
              chunks'[r + 1] = Part(T, BlockCut(Len(T))[r], BlockCut(Len(T))[r + 1])
<1>1. T = RowsRead(0, -1)
  BY DEF SourceRows, Small, Scattered
<1>2. PICK n \in Nat : n = Len(T)
  OBVIOUS
<1>3. PICK jids : jids = JidAll(n, "block", P)
  OBVIOUS
<1>4. ~ (Len(jids) < P)
  BY <1>1, <1>2, <1>3
<1>5. P <= n /\ jids = Filled(n, P)
  <2>1. ~ (n < P)
    BY <1>3, <1>4, AllJids
  <2>2. P <= n
    BY <2>1, SizeAssumption
  <2>3. QED
    BY <1>3, <2>2, AllJids
<1>6. chunks' = [k \in 1..P |->
                   IF jids[k] = NULL THEN <<>> ELSE [i \in 1..Len(jids[k]) |-> T[jids[k][i]]]]
  BY <1>1, <1>2, <1>3, <1>4 DEF Split
<1>7. ASSUME NEW r \in Ranks
      PROVE  chunks'[r + 1] = Part(T, BlockCut(Len(T))[r], BlockCut(Len(T))[r + 1])
  <2>1. r + 1 \in 1..P /\ (r + 1) - 1 = r /\ r < n /\ r + 1 <= P
    BY <1>5, SizeAssumption DEF Ranks
  <2>2. jids[r + 1] = JidVector(n, "block", P, r)
    BY <1>5, <2>1 DEF Filled
  <2>3. jids[r + 1] # NULL
    BY <2>1, <2>2, SharesAreVectors
  <2>4. chunks'[r + 1] = [i \in 1..Len(JidVector(n, "block", P, r)) |->
                            T[JidVector(n, "block", P, r)[i]]]
    BY <1>6, <2>1, <2>2, <2>3
  <2>5. ("block" = "block0") = FALSE /\ "block" \in {"block", "block0"}
    OBVIOUS
  <2>6. [i \in 1..Len(JidVector(n, "block", P, r)) |-> T[JidVector(n, "block", P, r)[i]]]
          = Part(T, Bound(n, FALSE, P, r), Bound(n, FALSE, P, r + 1))
    <3>1. P <= Len(T)
      BY <1>2, <1>5
    <3>2. [i \in 1..Len(JidVector(Len(T), "block", P, r)) |-> T[JidVector(Len(T), "block", P, r)[i]]]
            = Part(T, Bound(Len(T), "block" = "block0", P, r), Bound(Len(T), "block" = "block0", P, r + 1))
      BY <2>5, <3>1, LookedUp
    <3>3. QED
      BY <1>2, <2>5, <3>2
  <2>7. QED
    <3>1. /\ BlockCut(n)[r] = Bound(n, FALSE, P, r)
          /\ BlockCut(n)[r + 1] = Bound(n, FALSE, P, r + 1)
      BY BlockCutIs
    <3>2. QED
      BY <1>2, <2>4, <2>6, <3>1
<1>8. QED
  BY <1>2, <1>5, <1>7, SizeAssumption

\* A small file stays scattered, as it should be.
LEMMA SmallKept ==
  ASSUME Types, NEW T \in Seq(Nat), T = SourceRows, Small(T), Next \/ UNCHANGED vars
  PROVE  Small(T)'
<1> DEFINE part(r) == Part(T, BlockCut(Len(T))[r], BlockCut(Len(T))[r + 1])
<1>0. /\ 0 \in Ranks /\ Scattered /\ pred = NULL /\ turn = 0
      /\ \A r \in Ranks : pc[r] \in {"start", "names", "done", "stopped"}
      /\ chunks # NULL => Len(T) >= P /\ \A r \in Ranks : chunks[r + 1] = part(r)
      /\ \A r \in Ranks : pc[r] \in {"names", "done"} => Len(T) >= P /\ ret[r] = part(r)
  BY RootIsARank DEF Small
<1>1. Scattered'
  BY <1>0, JobStays, TableStays
<1> HIDE DEF part
<1>2. SUFFICES /\ pred' = NULL /\ turn' = 0
               /\ \A r \in Ranks : pc'[r] \in {"start", "names", "done", "stopped"}
               /\ chunks' # NULL => Len(T) >= P /\ \A r \in Ranks : chunks'[r + 1] = part(r)
               /\ \A r \in Ranks : pc'[r] \in {"names", "done"} => Len(T) >= P /\ ret'[r] = part(r)
  BY <1>1 DEF Small, part
<1>3. CASE UNCHANGED vars
  BY <1>0, <1>3 DEF vars, lbvars, rtvars
<1>4. CASE Split
  <2>1. pred' = pred /\ turn' = turn
    BY <1>4 DEF Split
  <2>2. CASE ~ Readable(0) \/ Len(JidAll(Len(RowsRead(0, -1)), "block", P)) < P
    <3>1. pc' = [pc EXCEPT ![0] = "stopped"] /\ chunks' = chunks /\ ret' = ret
      BY <1>4, <2>2 DEF Split
    <3>2. pc'[0] = "stopped" /\ \A q \in Ranks : q # 0 => pc'[q] = pc[q]
      BY <1>0, <3>1 DEF Types, OverRanks
    <3>3. QED
      BY <1>0, <2>1, <3>1, <3>2
  <2>3. CASE ~ (~ Readable(0) \/ Len(JidAll(Len(RowsRead(0, -1)), "block", P)) < P)
    <3>1. Len(T) >= P /\ \A r \in Ranks : chunks'[r + 1] = part(r)
      BY <1>4, <2>3, SplitGives DEF part
    <3>2. pc' = [pc EXCEPT ![0] = "names"] /\ ret' = [ret EXCEPT ![0] = chunks'[1]]
      BY <1>4, <2>3 DEF Split
    <3>3. pc'[0] = "names" /\ \A q \in Ranks : q # 0 => pc'[q] = pc[q]
      BY <1>0, <3>2 DEF Types, OverRanks
    <3>4. ret'[0] = chunks'[1] /\ \A q \in Ranks : q # 0 => ret'[q] = ret[q]
      BY <1>0, <3>2 DEF Types, OverRanks
    <3>5. ret'[0] = part(0)
      <4>1. chunks'[0 + 1] = part(0) /\ 0 + 1 = 1
        BY <1>0, <3>1
      <4>2. QED
        BY <3>4, <4>1
    <3>6. QED
      BY <1>0, <2>1, <3>1, <3>3, <3>4, <3>5
  <2>4. QED
    BY <2>2, <2>3
<1>5. ASSUME NEW r \in Ranks, TakeChunk(r)
      PROVE  /\ pred' = NULL /\ turn' = 0
             /\ \A q \in Ranks : pc'[q] \in {"start", "names", "done", "stopped"}
             /\ chunks' # NULL => Len(T) >= P /\ \A q \in Ranks : chunks'[q + 1] = part(q)
             /\ \A q \in Ranks : pc'[q] \in {"names", "done"} => Len(T) >= P /\ ret'[q] = part(q)
  <2>1. /\ pred' = pred /\ turn' = turn /\ chunks' = chunks /\ chunks # NULL
        /\ pc' = [pc EXCEPT ![r] = "names"] /\ ret' = [ret EXCEPT ![r] = chunks[r + 1]]
    BY <1>5 DEF TakeChunk
  <2>2. pc'[r] = "names" /\ \A q \in Ranks : q # r => pc'[q] = pc[q]
    BY <2>1 DEF Types, OverRanks
  <2>3. ret'[r] = chunks[r + 1] /\ \A q \in Ranks : q # r => ret'[q] = ret[q]
    BY <2>1 DEF Types, OverRanks
  <2>4. QED
    BY <1>0, <2>1, <2>2, <2>3
<1>6. ASSUME NEW r \in Ranks, pc[r] = "names",
             UNCHANGED <<pred, turn, chunks, ret>>, pc' = [pc EXCEPT ![r] = "done"]
      PROVE  /\ pred' = NULL /\ turn' = 0
             /\ \A q \in Ranks : pc'[q] \in {"start", "names", "done", "stopped"}
             /\ chunks' # NULL => Len(T) >= P /\ \A q \in Ranks : chunks'[q + 1] = part(q)
             /\ \A q \in Ranks : pc'[q] \in {"names", "done"} => Len(T) >= P /\ ret'[q] = part(q)
  <2>1. pc'[r] = "done" /\ \A q \in Ranks : q # r => pc'[q] = pc[q]
    BY <1>6 DEF Types, OverRanks
  <2>2. QED
    BY <1>0, <1>6, <2>1
<1>7. CASE SayNames
  BY <1>0, <1>6, <1>7 DEF SayNames
<1>8. ASSUME NEW r \in Ranks, TakeNames(r)
      PROVE  /\ pred' = NULL /\ turn' = 0
             /\ \A q \in Ranks : pc'[q] \in {"start", "names", "done", "stopped"}
             /\ chunks' # NULL => Len(T) >= P /\ \A q \in Ranks : chunks'[q + 1] = part(q)
             /\ \A q \in Ranks : pc'[q] \in {"names", "done"} => Len(T) >= P /\ ret'[q] = part(q)
  BY <1>6, <1>8 DEF TakeNames
<1>9. QED
  BY <1>3, <1>4, <1>5, <1>7, <1>8, SmallMoves

------------------------------------------------------------------------------
(* A large file                                                            *)

\* What can happen while a large file is read
LEMMA LargeMoves ==
  ASSUME Types, Large, Next
  PROVE  \/ Predict \/ NextTurn \/ UNCHANGED vars
         \/ \E r \in Ranks : TakePrediction(r) \/ OpenFile(r) \/ CloseFile(r) \/ LetRead(r)
<1>0. /\ 0 \in Ranks /\ chunks = NULL
      /\ \A r \in Ranks : pc[r] \in {"start", "turn", "reading", "barrier", "stopped"}
  BY RootIsARank DEF Large
<1>1. ~ Split
  BY DEF Large, Scattered, Split
<1>2. ~ SayNames
  BY <1>0 DEF SayNames
<1>3. ASSUME NEW r \in Ranks, Reading(r)
      PROVE  TakePrediction(r) \/ OpenFile(r) \/ CloseFile(r) \/ LetRead(r)
  BY <1>0, <1>3 DEF Reading, TakeChunk, TakeNames
<1>4. ~ EnterLoad /\ ~ EnterUnload
  BY <1>0 DEF EnterLoad, EnterUnload
<1>5. ASSUME NEW r \in Ranks PROVE ~ Balancing(r) /\ ~ FinishBalance(r, After)
  BY <1>0 DEF Balancing, SendPiece, StartReceiving, RecvPiece, OwnPiece, FinishBalance
<1>6. QED
  BY <1>1, <1>2, <1>3, <1>4, <1>5 DEF Next, Terminating

\* What a rank has read, it keeps.
LEMMA StretchStays ==
  ASSUME NEW r \in Ranks, StretchIsRead(r), job' = job, pred' = pred, X'[r] = X[r]
  PROVE  StretchIsRead(r)'
<1>1. MyJid(r)' = MyJid(r)
  BY DEF MyJid
<1>2. MySkip(r)' = MySkip(r) /\ MyRows(r)' = MyRows(r)
  BY <1>1 DEF MySkip, MyRows
<1>3. PredictedLines' = PredictedLines /\ NumLines' = NumLines /\ Head1' = Head1
  BY TableStays
<1>4. /\ Readable(MySkip(r))' = Readable(MySkip(r))
      /\ RowsRead(MySkip(r), MyRows(r))' = RowsRead(MySkip(r), MyRows(r))
  BY <1>2, <1>3 DEF Readable, RowsRead
<1>5. QED
  BY <1>1, <1>3, <1>4 DEF StretchIsRead

\* One rank moves while a large file is read.
LEMMA OneReads ==
  ASSUME Types, Large, job' = job, NEW r \in Ranks,
         NEW place \in {"turn", "reading", "barrier", "stopped"}, pc' = [pc EXCEPT ![r] = place],
         UNCHANGED <<call, net, chunks, turn>>, \A q \in Ranks : q # r => X'[q] = X[q],
         pred' = pred \/ pred' = PredictedLines, place # "stopped" => pred' = PredictedLines,
         place = "reading" => turn = r,
         HasRead(r)' => StretchIsRead(r)'
  PROVE  Large'
<1>0. /\ job.from = "file" /\ ~ Scattered /\ call = "load" /\ NothingSent
      /\ chunks = NULL /\ turn \in Ranks /\ pred \in {NULL, PredictedLines}
  BY DEF Large
<1>1. job'.from = "file" /\ ~ Scattered' /\ PredictedLines' = PredictedLines
  BY <1>0, TableStays
<1>2. NothingSent'
  BY <1>0 DEF NothingSent
<1>3. pred' \in {NULL, PredictedLines'}
  BY <1>0, <1>1
<1>4. pc'[r] = place /\ \A q \in Ranks : q # r => pc'[q] = pc[q]
  BY DEF Types, OverRanks
<1>5. ASSUME NEW q \in Ranks
      PROVE  /\ pc'[q] \in {"start", "turn", "reading", "barrier", "stopped"}
             /\ pc'[q] \in {"turn", "reading", "barrier"} => pred' = PredictedLines'
             /\ pc'[q] = "reading" => turn' = q
             /\ HasRead(q)' => StretchIsRead(q)'
  <2>1. CASE q = r
    BY <1>1, <1>4, <2>1
  <2>2. CASE q # r
    <3>1. /\ pc[q] \in {"start", "turn", "reading", "barrier", "stopped"}
          /\ pc[q] \in {"turn", "reading", "barrier"} => pred = PredictedLines
          /\ pc[q] = "reading" => turn = q
          /\ HasRead(q) => StretchIsRead(q)
      BY DEF Large
    <3>2. pc'[q] = pc[q] /\ X'[q] = X[q]
      BY <1>4, <2>2
    <3>3. HasRead(q)' => HasRead(q)
      BY <3>2 DEF HasRead
    <3>4. ASSUME HasRead(q) PROVE StretchIsRead(q)'
      <4>1. StretchIsRead(q) /\ pred = PredictedLines
        BY <3>1, <3>4 DEF StretchIsRead
      <4>2. pred' = pred
        BY <4>1
      <4>3. QED
        BY <3>2, <4>1, <4>2, StretchStays
    <3>5. QED
      BY <1>1, <3>1, <3>2, <3>3, <3>4
  <2>3. QED
    BY <2>1, <2>2
<1>6. QED
  BY <1>0, <1>1, <1>2, <1>3, <1>5 DEF Large

\* The prediction of rank 0 is the one all ranks read by.
LEMMA PredictKept == ASSUME Types, Large, job' = job, Predict PROVE Large'
<1>1. /\ 0 \in Ranks /\ pc[0] = "start" /\ pred' = PredictedLines /\ X' = X
      /\ pc' = [pc EXCEPT ![0] = "turn"] /\ UNCHANGED <<call, net, chunks, turn>>
  BY RootIsARank DEF Predict
<1>2. pc'[0] = "turn"
  BY <1>1 DEF Types, OverRanks
<1>3. HasRead(0)' => StretchIsRead(0)'
  <2>1. SUFFICES ASSUME HasRead(0)' PROVE StretchIsRead(0)'
    OBVIOUS
  <2>2. HasRead(0)
    BY <1>1, <1>2, <2>1 DEF HasRead
  <2>3. StretchIsRead(0) /\ pred = PredictedLines
    BY <1>1, <2>2 DEF Large, StretchIsRead
  <2>4. QED
    BY <1>1, <2>3, StretchStays
<1>4. QED
  BY <1>1, <1>3, OneReads

\* The steps of a reading rank keep what is known of a large file.
LEMMA ReadingKept ==
  ASSUME Types, Large, job' = job, NEW r \in Ranks,
         TakePrediction(r) \/ OpenFile(r) \/ CloseFile(r) \/ LetRead(r)
  PROVE  Large'
<1>1. /\ pred \in {NULL, PredictedLines}
      /\ pc[r] \in {"turn", "reading", "barrier"} => pred = PredictedLines
      /\ pc[r] = "reading" => turn = r
      /\ HasRead(r) => StretchIsRead(r)
      /\ turn \in Nat /\ r \in Nat
  BY RanksAre DEF Large, Types
<1>2. ASSUME NEW place \in {"turn", "reading", "barrier"}, pc' = [pc EXCEPT ![r] = place],
             UNCHANGED <<call, net, chunks, turn, pred, X>>, pred = PredictedLines,
             place = "reading" => turn = r, place = "barrier" => r # turn
      PROVE  Large'
  <2>1. pc'[r] = place
    BY <1>2 DEF Types, OverRanks
  <2>2. HasRead(r)' => HasRead(r)
    BY <1>2, <2>1 DEF HasRead
  <2>3. HasRead(r)' => StretchIsRead(r)'
    BY <1>1, <1>2, <2>2, StretchStays
  <2>4. QED
    BY <1>2, <2>3, OneReads
<1>3. CASE TakePrediction(r)
  BY <1>1, <1>2, <1>3 DEF TakePrediction, rtvars
<1>4. CASE OpenFile(r)
  BY <1>1, <1>2, <1>4 DEF OpenFile, rtvars
<1>5. CASE LetRead(r)
  BY <1>1, <1>2, <1>5 DEF LetRead, rtvars
<1>6. CASE CloseFile(r)
  <2>1. /\ pc[r] = "reading" /\ turn = r /\ pred = PredictedLines
        /\ UNCHANGED <<call, net, chunks, turn, pred>>
    BY <1>1, <1>6 DEF CloseFile
  <2>2. CASE MyJid(r) = NULL \/ ~ Readable(MySkip(r))
    <3>1. pc' = [pc EXCEPT ![r] = "stopped"] /\ X' = X
      BY <1>6, <2>2 DEF CloseFile
    <3>2. pc'[r] = "stopped"
      BY <3>1 DEF Types, OverRanks
    <3>3. ~ HasRead(r)'
      BY <1>1, <2>1, <3>2 DEF HasRead
    <3>4. QED
      BY <2>1, <3>1, <3>3, OneReads
  <2>3. CASE ~ (MyJid(r) = NULL \/ ~ Readable(MySkip(r)))
    <3>1. /\ pc' = [pc EXCEPT ![r] = "barrier"]
          /\ X' = [X EXCEPT ![r] = RowsRead(MySkip(r), MyRows(r))]
      BY <1>6, <2>3 DEF CloseFile
    <3>2. X'[r] = RowsRead(MySkip(r), MyRows(r)) /\ \A q \in Ranks : q # r => X'[q] = X[q]
      BY <3>1 DEF Types, OverRanks
    <3>3. StretchIsRead(r)'
      <4>1. MyJid(r)' = MyJid(r)
        BY <2>1 DEF MyJid
      <4>2. MySkip(r)' = MySkip(r) /\ MyRows(r)' = MyRows(r)
        BY <4>1 DEF MySkip, MyRows
      <4>3. PredictedLines' = PredictedLines /\ NumLines' = NumLines /\ Head1' = Head1
        BY TableStays
      <4>4. /\ Readable(MySkip(r))' = Readable(MySkip(r))
            /\ RowsRead(MySkip(r), MyRows(r))' = RowsRead(MySkip(r), MyRows(r))
        BY <4>2, <4>3 DEF Readable, RowsRead
      <4>5. QED
        BY <2>1, <2>3, <3>2, <4>1, <4>3, <4>4 DEF StretchIsRead
    <3>4. QED
      BY <2>1, <3>1, <3>2, <3>3, OneReads
  <2>4. QED
    BY <2>2, <2>3
<1>7. QED
  BY <1>3, <1>4, <1>5, <1>6

\* After the last turn the table lies on the ranks.
LEMMA TurnPassesOn ==
  ASSUME Types, Large, job' = job, NEW T \in Seq(Nat), T = SourceRows, NextTurn
  PROVE  Large' \/ \E b : Ready(T, b)'
<1>1. /\ \A r \in Ranks : pc[r] = "barrier" /\ r \in Nat /\ r < P
      /\ turn' = turn + 1
      /\ pc' = [r \in Ranks |-> IF turn + 1 = P THEN "balance" ELSE "turn"]
      /\ UNCHANGED <<call, net, chunks, pred, X>>
  BY RanksAre DEF NextTurn
<1>2. /\ job.from = "file" /\ ~ Scattered /\ call = "load" /\ NothingSent
      /\ chunks = NULL /\ turn \in Ranks /\ pred = PredictedLines
      /\ \A r \in Ranks : HasRead(r) => StretchIsRead(r)
  BY <1>1, RootIsARank DEF Large
<1>3. /\ job'.from = "file" /\ ~ Scattered' /\ PredictedLines' = PredictedLines /\ NothingSent'
      /\ P \in Nat \ {0} /\ turn \in Nat /\ turn < P
  BY <1>1, <1>2, TableStays, SizeAssumption, RanksAre DEF NothingSent
<1>4. CASE turn + 1 # P
  <2>1. \A r \in Ranks : pc'[r] = "turn"
    BY <1>1, <1>4
  <2>2. turn' \in Ranks
    BY <1>1, <1>3, <1>4 DEF Ranks
  <2>3. ASSUME NEW r \in Ranks, HasRead(r)' PROVE StretchIsRead(r)'
    <3>1. HasRead(r)
      BY <1>1, <1>3, <2>1, <2>3 DEF HasRead
    <3>2. QED
      BY <1>1, <1>2, <3>1, StretchStays
  <2>4. Large'
    BY <1>1, <1>2, <1>3, <2>1, <2>2, <2>3 DEF Large
  <2>5. QED
    BY <2>4
<1>5. CASE turn + 1 = P
  <2>1. ASSUME NEW r \in Ranks PROVE StretchIsRead(r)
    <3>1. HasRead(r)
      BY <1>1, <1>3, <1>5 DEF HasRead
    <3>2. QED
      BY <1>2, <3>1
  <2>2. job \in FileJobs /\ PredictedLines \in Nat
    <3>1. job \in FileJobs
      BY <1>2, KindsOfJobs
    <3>2. ~ (FileSize < MaxRead)
      BY <1>2 DEF Scattered
    <3>3. QED
      BY <3>1, <3>2, PredictionIsANumber
  <2>3. PICK b : Divides(b, T) /\ Lies(X, T, b)
    BY <2>1, <2>2, StretchesCoverTheFile
  <2>4. \A r \in Ranks : pc'[r] = "balance"
    BY <1>1, <1>5
  <2>5. OfLargeFile'
    BY <1>1, <1>2, <1>3, <1>5 DEF OfLargeFile
  <2>6. Lies(X, T, b)'
    BY <1>1, <2>3 DEF Lies
  <2>7. Ready(T, b)'
    BY <1>1, <1>2, <1>3, <2>3, <2>4, <2>5, <2>6 DEF Ready, Divides
  <2>8. QED
    BY <2>7
<1>6. QED
  BY <1>4, <1>5

\* A large file is read, until it lies on the ranks.
LEMMA LargeKept ==
  ASSUME Types, Large, NEW T \in Seq(Nat), T = SourceRows, Next \/ UNCHANGED vars
  PROVE  Large' \/ \E b : Ready(T, b)'
<1>1. job' = job
  BY JobStays
<1>2. CASE UNCHANGED vars
  <2>1. Large'
    <3>1. UNCHANGED <<call, net, chunks, turn, pred, X, pc, job>>
      BY <1>2 DEF vars, lbvars, rtvars
    <3>2. job'.from = "file" /\ ~ Scattered' /\ PredictedLines' = PredictedLines /\ NothingSent'
      BY <1>1, <3>1, TableStays DEF Large, NothingSent
    <3>3. ASSUME NEW r \in Ranks, HasRead(r)' PROVE StretchIsRead(r)'
      <4>1. HasRead(r)
        BY <3>1, <3>3 DEF HasRead
      <4>2. QED
        BY <3>1, <4>1, StretchStays DEF Large
    <3>4. QED
      BY <3>1, <3>2, <3>3 DEF Large
  <2>2. QED
    BY <2>1
<1>3. QED
  BY <1>1, <1>2, LargeMoves, PredictKept, ReadingKept, TurnPassesOn

------------------------------------------------------------------------------
(* A call begins                                                           *)

\* What two blocks share does not depend on which of them sends.
LEMMA SharedBothWays ==
  ASSUME NEW b, Cut(b), NEW e, Cut(e), b[P] = e[P], NEW s \in Ranks, NEW d \in Ranks
  PROVE  /\ From(b, e, s, d) = From(e, b, d, s) /\ To(b, e, s, d) = To(e, b, d, s)
         /\ Shared(b, e, s, d) <=> Shared(e, b, d, s)
<1>1. b[s] \in Nat /\ b[s + 1] \in Nat /\ e[d] \in Nat /\ e[d + 1] \in Nat
  BY SharedPlaces
<1>2. From(b, e, s, d) = From(e, b, d, s) /\ To(b, e, s, d) = To(e, b, d, s)
  BY <1>1 DEF From, To, Lower, Higher
<1>3. QED
  BY <1>2 DEF Shared

\* The list of the owners, in one cut, of the places s has in another
LEMMA SharedIsListed ==
  ASSUME NEW b, Cut(b), NEW e, Cut(e), b[P] = e[P], NEW w, IsOwners(w, e),
         NEW s \in Ranks, NEW d \in Ranks, NEW list, Lists(list, w, b[s], b[s + 1])
  PROVE  Listed(d, list) <=> Shared(b, e, s, d)
<1>1. /\ b[s] \in Nat /\ b[s + 1] \in Nat /\ e[d] \in Nat /\ e[d + 1] \in Nat
      /\ b[s] <= b[s + 1] /\ b[s + 1] <= e[P]
  BY SharedPlaces
<1>2. PICK u \in Nat, v \in Nat, x \in Nat, y \in Nat :
        u = b[s] /\ v = b[s + 1] /\ x = e[d] /\ y = e[d + 1]
  BY <1>1
<1>3. Listed(d, list) <=> \E j \in (u + 1)..v : Owns(e, d, j)
  <2>1. Lists(list, w, u, v) /\ v <= e[P]
    BY <1>1, <1>2
  <2>2. (\E i \in 1..Len(list) : list[i] = d) <=> (\E j \in (u + 1)..v : Owns(e, d, j))
    BY <2>1, OnTheList
  <2>3. QED
    BY <2>2 DEF Listed
<1>4. (\E j \in (u + 1)..v : Owns(e, d, j)) <=> (\E j \in (u + 1)..v : x < j /\ j <= y)
  BY <1>2 DEF Owns
<1>5. Shared(b, e, s, d) <=> Higher(u, x) < Lower(v, y)
  BY <1>2 DEF Shared, From, To
<1>6. (\E j \in (u + 1)..v : x < j /\ j <= y) <=> Higher(u, x) < Lower(v, y)
  <2>1. ASSUME Higher(u, x) < Lower(v, y) PROVE \E j \in (u + 1)..v : x < j /\ j <= y
    <3>1. Higher(u, x) + 1 \in (u + 1)..v /\ x < Higher(u, x) + 1 /\ Higher(u, x) + 1 <= y
      BY <2>1 DEF Higher, Lower
    <3>2. QED
      BY <3>1
  <2>2. ASSUME NEW j \in (u + 1)..v, x < j, j <= y PROVE Higher(u, x) < Lower(v, y)
    BY <2>2 DEF Higher, Lower
  <2>3. QED
    BY <2>1, <2>2
<1>7. QED
  BY <1>3, <1>4, <1>5, <1>6

\* When all ranks have entered a call, nothing is sent, and every piece
\* is still to send.
LEMMA CallBegins ==
  ASSUME NEW T \in Seq(Nat), NEW b, NEW e, Cuts(T, b, e)',
         \A r \in Ranks : pc'[r] = "send" /\ todo'[r] = Unique(Where(info'.belong, info'.org, r)),
         NothingSent'
  PROVE  /\ \A r \in Ranks : Progress(r, T, b, e)'
         /\ \A s, d \in Ranks : s # d /\ pc'[d] # "stopped" => UnderWay(s, d, T, b, e)'
<1>1. /\ Cut(b) /\ Cut(e) /\ b[P] = e[P] /\ IsOwners(info'.org, b) /\ IsOwners(info'.belong, e)
  BY DEF Cuts, Divides
<1>2. ASSUME NEW r \in Ranks
      PROVE  b[r] \in Nat /\ b[r + 1] \in Nat /\ b[r] <= b[r + 1] /\ b[r + 1] <= e[P]
  BY <1>1, SharedPlaces
<1>3. ASSUME NEW r \in Ranks PROVE Lists(todo'[r], info'.belong, b[r], b[r + 1])
  <2>1. Where(info'.belong, info'.org, r) = Part(info'.belong, b[r], b[r + 1])
    BY <1>1, OwnersOfBlock
  <2>2. PICK u \in Nat, v \in Nat : u = b[r] /\ v = b[r + 1] /\ u <= v /\ v <= e[P]
    BY <1>2
  <2>3. Lists(Unique(Part(info'.belong, u, v)), info'.belong, u, v)
    BY <1>1, <2>2, UniqueStretch
  <2>4. QED
    BY <2>1, <2>2, <2>3
<1>4. ASSUME NEW r \in Ranks PROVE Progress(r, T, b, e)'
  <2>1. Sends(r, b, b[r])'
    <3>1. b[r] <= b[r]
      BY <1>2
    <3>2. QED
      BY <1>2, <1>3, <3>1 DEF Sends
  <2>2. \E y \in Nat : Sends(r, b, y)'
    BY <1>2, <2>1
  <2>3. QED
    BY <2>2 DEF Progress
<1>5. ASSUME NEW s \in Ranks, NEW d \in Ranks, s # d PROVE UnderWay(s, d, T, b, e)'
  <2>1. net'[s][d] = <<>>
    BY <1>5 DEF NothingSent
  <2>2. ~ Got(s, d)'
    BY DEF Got
  <2>3. Listed(d, todo'[s]) <=> Shared(b, e, s, d)
    BY <1>1, <1>3, SharedIsListed
  <2>4. ~ (Shared(b, e, s, d) /\ Sent(s, d)')
    BY <2>3 DEF Sent
  <2>5. QED
    BY <2>1, <2>2, <2>4 DEF UnderWay
<1>6. QED
  BY <1>4, <1>5

\* The sizes of the blocks of a cut table
SizesOf(counts, b, T) ==
  /\ CutFits(b, counts, P) /\ \A k \in 1..P : counts[k] \in Nat
  /\ Total(counts) = Len(T)
  /\ \A r \in Ranks : counts[r + 1] = b[r + 1] - b[r]

\* The sizes of the blocks, as the ranks exchange them
LEMMA SizesFit ==
  ASSUME NEW T \in Seq(Nat), NEW b, Divides(b, T), Lies(X, T, b),
         NEW counts, counts = [k \in 1..P |-> Len(X[k - 1])]
  PROVE  SizesOf(counts, b, T)
<1>0. P \in Nat \ {0} /\ Cut(b) /\ b[P] = Len(T)
  BY SizeAssumption DEF Divides
<1>1. ASSUME NEW k \in 1..P
      PROVE  counts[k] \in Nat /\ b[k] = b[k - 1] + counts[k] /\ counts[k] = b[k] - b[k - 1]
  <2>1. k - 1 \in Ranks /\ (k - 1) + 1 = k /\ k - 1 \in Nat /\ k \in Nat /\ k - 1 <= k /\ k <= P
    BY <1>0 DEF Ranks
  <2>2. X[k - 1] = Part(T, b[k - 1], b[k])
    BY <2>1 DEF Lies
  <2>3. b[k - 1] \in Nat /\ b[k] \in Nat /\ b[k - 1] <= b[k] /\ b[k] <= b[P]
    BY <1>0, <2>1, CutRises
  <2>4. PICK u \in Nat, v \in Nat : u = b[k - 1] /\ v = b[k] /\ u <= v /\ v <= Len(T)
    BY <1>0, <2>3
  <2>5. Len(Part(T, u, v)) = v - u
    BY <2>4, PartIs DEF IsPart
  <2>6. counts[k] = v - u
    BY <2>2, <2>4, <2>5
  <2>7. QED
    BY <2>4, <2>6
<1>2. counts \in Seq(Nat) /\ Len(counts) = P
  BY <1>0, <1>1
<1>3. CutFits(b, counts, P)
  BY <1>0, <1>1 DEF CutFits
<1>4. Total(counts) = b[P]
  BY <1>2, <1>3, TotalIs
<1>5. \A r \in Ranks : counts[r + 1] = b[r + 1] - b[r]
  <2>1. ASSUME NEW r \in Ranks PROVE counts[r + 1] = b[r + 1] - b[r]
    <3>1. r + 1 \in 1..P /\ (r + 1) - 1 = r
      BY <1>0 DEF Ranks
    <3>2. QED
      BY <1>1, <3>1
  <2>2. QED
    BY <2>1
<1>6. QED
  BY <1>0, <1>1, <1>3, <1>4, <1>5 DEF SizesOf

\* comm.load.balance() moves the table to the balanced blocks, or has
\* nothing to divide.
LEMMA LoadBegins ==
  ASSUME Types, NEW T \in Seq(Nat), NEW b, Ready(T, b), EnterLoad, UNCHANGED rtvars
  PROVE  Dead' \/ \E e : Moving(T, b, e)'
<1> DEFINE counts == [k \in 1..P |-> Len(X[k - 1])]
<1>0. /\ OfLargeFile /\ call = "load" /\ NothingSent /\ Divides(b, T) /\ Lies(X, T, b)
      /\ job.from = "ranks" => Lies(job.rows, T, b)
  BY DEF Ready
<1>1. /\ CutFits(b, counts, P) /\ \A k \in 1..P : counts[k] \in Nat
      /\ Total(counts) = Len(T) /\ \A r \in Ranks : counts[r + 1] = b[r + 1] - b[r]
  <2>1. PICK sizes : sizes = [k \in 1..P |-> Len(X[k - 1])]
    OBVIOUS
  <2>2. /\ CutFits(b, sizes, P) /\ \A k \in 1..P : sizes[k] \in Nat
        /\ Total(sizes) = Len(T) /\ \A r \in Ranks : sizes[r + 1] = b[r + 1] - b[r]
    <3>1. SizesOf(sizes, b, T)
      BY <1>0, <2>1, SizesFit
    <3>2. QED
      BY <3>1 DEF SizesOf
  <2>3. QED
    BY <2>1, <2>2
<1>2. call' = "load" /\ method' = method /\ X' = X /\ ret' = ret /\ net' = net /\ job' = job /\ turn' = turn
  BY DEF EnterLoad, rtvars
<1>3. CASE Undivided(counts)
  <2>1. pc' = [r \in Ranks |-> "stopped"]
    BY <1>3 DEF EnterLoad
  <2>2. QED
    BY <2>1 DEF Dead
<1>4. CASE ~ Undivided(counts)
  <2>1. method = "block.cyclic" => Len(T) # 0
    BY <1>1, <1>4 DEF Undivided
  <2> HIDE DEF counts
  <2>2. PICK n \in Nat : n = Len(T)
    OBVIOUS
  <2>3. PICK e : EvenCut(e, n)
    BY <2>1, <2>2, EvenCutExists DEF Types
  <2>4. /\ info' = BalanceInfo(counts) /\ \A r \in Ranks : pc'[r] = "send"
        /\ \A r \in Ranks : todo'[r] = Unique(Where(info'.belong, info'.org, r))
    BY <1>4 DEF EnterLoad, counts
  <2>5. /\ info'.org = RepRanks(counts) /\ info'.belong = RepRanks(NewCounts(n))
        /\ info'.old = counts /\ info'.new = NewCounts(n)
    BY <1>1, <2>2, <2>4 DEF BalanceInfo
  <2>6. IsOwners(info'.org, b)
    BY <1>1, <2>5, RepRanksIs
  <2>7. CutFits(e, NewCounts(n), P) /\ e[P] = n /\ \A k \in 1..P : NewCounts(n)[k] \in Nat
    BY <2>3 DEF EvenCut
  <2>8. IsOwners(info'.belong, e)
    BY <2>5, <2>7, RepRanksIs
  <2>9. Divides(e, T)
    BY <2>2, <2>7 DEF Divides, CutFits
  <2>10. \A r \in Ranks : NewCounts(n)[r + 1] = e[r + 1] - e[r]
    <3>1. ASSUME NEW r \in Ranks PROVE NewCounts(n)[r + 1] = e[r + 1] - e[r]
      <4>1. r + 1 \in 1..P /\ (r + 1) - 1 = r /\ r \in Nat
        BY SizeAssumption DEF Ranks
      <4>2. e[r + 1] = e[r] + NewCounts(n)[r + 1] /\ NewCounts(n)[r + 1] \in Nat /\ e[r] \in Nat
        BY <2>7, <4>1 DEF CutFits, Cut
      <4>3. PICK u \in Nat, c \in Nat : u = e[r] /\ c = NewCounts(n)[r + 1]
        BY <4>2
      <4>4. (u + c) - u = c
        OBVIOUS
      <4>5. QED
        BY <4>2, <4>3, <4>4
    <3>2. QED
      BY <3>1
  <2>11. Cuts(T, b, e)'
    BY <1>0, <1>1, <1>2, <2>5, <2>6, <2>8, <2>9, <2>10 DEF Cuts, Divides, Lies
  <2>12. Calls(T, b, e)'
    <3>1. OfLargeFile'
      BY <1>0, <1>2, TableStays DEF OfLargeFile
    <3>2. EvenCut(e, Len(T))'
      <4>1. NewCounts(n)' = NewCounts(n)
        BY <1>2 DEF NewCounts
      <4>2. EvenCut(e, n)'
        BY <1>2, <2>3, <4>1 DEF EvenCut
      <4>3. QED
        BY <2>2, <4>2
    <3>4. job'.from = "ranks" => Lies(job.rows, T, b)'
      BY <1>0, <1>2 DEF Lies
    <3>5. QED
      BY <1>2, <2>4, <3>1, <3>2, <3>4 DEF Calls
  <2>13. NothingSent'
    BY <1>0, <1>2 DEF NothingSent
  <2>14. Moving(T, b, e)'
    BY <2>4, <2>11, <2>12, <2>13, CallBegins DEF Moving
  <2>15. QED
    BY <2>14
<1>5. QED
  BY <1>3, <1>4

\* The table lies on the ranks, until they enter comm.load.balance().
LEMMA ReadyKept ==
  ASSUME Types, NEW T \in Seq(Nat), NEW b, Ready(T, b), Next \/ UNCHANGED vars
  PROVE  Ready(T, b)' \/ Dead' \/ \E e : Moving(T, b, e)'
<1>1. 0 \in Ranks /\ \A r \in Ranks : pc[r] = "balance"
  BY RootIsARank DEF Ready
<1>2. CASE UNCHANGED vars
  <2>1. UNCHANGED <<job, turn, call, net, pc, X>>
    BY <1>2 DEF vars, lbvars, rtvars
  <2>2. OfLargeFile'
    BY <2>1, TableStays DEF OfLargeFile, Ready
  <2>3. Ready(T, b)'
    BY <2>1, <2>2 DEF Ready, NothingSent, Lies, Divides
  <2>4. QED
    BY <2>3
<1>3. ~ Split /\ ~ Predict /\ ~ SayNames /\ ~ NextTurn /\ ~ EnterUnload
  BY <1>1 DEF Split, Predict, SayNames, NextTurn, EnterUnload
<1>4. ASSUME NEW r \in Ranks PROVE ~ Reading(r) /\ ~ Balancing(r) /\ ~ FinishBalance(r, After)
  BY <1>1 DEF Reading, TakeChunk, TakePrediction, OpenFile, CloseFile, LetRead, TakeNames,
              Balancing, SendPiece, StartReceiving, RecvPiece, OwnPiece, FinishBalance
<1>5. CASE EnterLoad /\ UNCHANGED rtvars
  BY <1>5, LoadBegins
<1>6. QED
  BY <1>2, <1>3, <1>4, <1>5 DEF Next, Terminating

\* Ranks that stopped stay so.
LEMMA DeadKept == ASSUME Dead, Next \/ UNCHANGED vars PROVE Dead'
<1>1. 0 \in Ranks /\ \A r \in Ranks : pc[r] = "stopped"
  BY RootIsARank DEF Dead
<1>2. CASE UNCHANGED vars
  BY <1>1, <1>2 DEF vars, lbvars, Dead
<1>3. ~ Split /\ ~ Predict /\ ~ SayNames /\ ~ NextTurn /\ ~ EnterUnload /\ ~ EnterLoad
  BY <1>1 DEF Split, Predict, SayNames, NextTurn, EnterUnload, EnterLoad
<1>4. ASSUME NEW r \in Ranks PROVE ~ Reading(r) /\ ~ Balancing(r) /\ ~ FinishBalance(r, After)
  BY <1>1 DEF Reading, TakeChunk, TakePrediction, OpenFile, CloseFile, LetRead, TakeNames,
              Balancing, SendPiece, StartReceiving, RecvPiece, OwnPiece, FinishBalance
<1>5. QED
  BY <1>2, <1>3, <1>4 DEF Next, Terminating

------------------------------------------------------------------------------
(* A call under way                                                        *)

\* Who is on the rest of a list
LEMMA TailListed ==
  ASSUME NEW s \in Seq(Nat), s # <<>>, RisesStrictly(s), NEW q
  PROVE  Listed(Head(s), s) /\ (Listed(q, Tail(s)) <=> Listed(q, s) /\ q # Head(s))
<1>1. PICK h \in Nat, t \in Seq(Nat), n \in Nat :
        /\ h = Head(s) /\ t = Tail(s) /\ n = Len(t) /\ Len(s) = n + 1 /\ s[1] = h
        /\ \A i \in 1..n : t[i] = s[i + 1]
  BY HeadAndTail
<1>2. 1 \in 1..Len(s) /\ \A i \in 1..n : i + 1 \in 1..Len(s) /\ 1 < i + 1
  BY <1>1
<1>3. \A i \in 1..n : s[i + 1] # h
  <2>1. ASSUME NEW i \in 1..n PROVE s[i + 1] # h
    <3>1. s[1] < s[i + 1] /\ s[i + 1] \in Nat
      BY <1>2 DEF RisesStrictly
    <3>2. QED
      BY <1>1, <3>1
  <2>2. QED
    BY <2>1
<1>4. ASSUME Listed(q, t) PROVE Listed(q, s) /\ q # h
  BY <1>1, <1>2, <1>3, <1>4 DEF Listed
<1>5. ASSUME Listed(q, s), q # h PROVE Listed(q, t)
  <2>1. PICK i \in 1..Len(s) : s[i] = q
    BY <1>5 DEF Listed
  <2>2. i # 1
    BY <1>1, <1>5, <2>1
  <2>3. i - 1 \in 1..n /\ (i - 1) + 1 = i
    BY <1>1, <2>1, <2>2
  <2>4. t[i - 1] = q
    BY <1>1, <2>1, <2>3
  <2>5. QED
    BY <1>1, <2>3, <2>4 DEF Listed
<1>6. QED
  BY <1>1, <1>2, <1>4, <1>5 DEF Listed

\* Nobody is on the empty list.
LEMMA NobodyListed == ASSUME NEW q PROVE ~ Listed(q, <<>>)
BY DEF Listed

\* What a step of one rank has to show
LEMMA OneMoves ==
  ASSUME NEW T, NEW b, NEW e, Moving(T, b, e), NEW r \in Ranks,
         UNCHANGED <<job, turn, call, method, info, X>>,
         pc'[r] \in {"send", "recv", After, "stopped"} \cup (IF job.from = "file" THEN {"done"} ELSE {}),
         \A q \in Ranks : q # r => pc'[q] = pc[q] /\ todo'[q] = todo[q] /\ ret'[q] = ret[q],
         Progress(r, T, b, e)',
         \A q \in Ranks : q # r /\ pc[q] # "stopped" => UnderWay(r, q, T, b, e)',
         \A q \in Ranks : q # r /\ pc'[r] # "stopped" => UnderWay(q, r, T, b, e)',
         \A s, d \in Ranks : s # r /\ d # r => net'[s][d] = net[s][d]
  PROVE  Moving(T, b, e)'
<1>1. Cuts(T, b, e)'
  BY DEF Moving, Cuts, Lies, Divides
<1>2. After' = After
  BY DEF After
<1>3. OfLargeFile'
  BY TableStays DEF Moving, Calls, OfLargeFile
<1>4. EvenCut(e, Len(T))' <=> EvenCut(e, Len(T))
  <2>1. PICK n : n = Len(T)
    OBVIOUS
  <2>2. NewCounts(n)' = NewCounts(n)
    BY DEF NewCounts
  <2>3. EvenCut(e, n)' <=> EvenCut(e, n)
    BY <2>2 DEF EvenCut
  <2>4. QED
    BY <2>1, <2>3
<1>5. Calls(T, b, e)'
  <2>1. ASSUME NEW q \in Ranks
        PROVE  pc'[q] \in {"send", "recv", After', "stopped"} \cup
                            (IF job'.from = "file" THEN {"done"} ELSE {})
    BY <1>2 DEF Moving, Calls
  <2>2. /\ call' \in {"load", "unload"} /\ (call' = "load" => EvenCut(e, Len(T))')
    BY <1>4 DEF Moving, Calls
  <2>3. job'.from = "ranks" => Lies(job.rows, T, IF call = "load" THEN b ELSE e)'
    BY DEF Moving, Calls, Lies
  <2>4. QED
    BY <1>3, <2>1, <2>2, <2>3 DEF Calls
<1>6. ASSUME NEW q \in Ranks PROVE Progress(q, T, b, e)'
  <2>1. CASE q = r
    BY <2>1
  <2>2. CASE q # r
    <3>1. Progress(q, T, b, e)
      BY DEF Moving
    <3>2. pc'[q] = pc[q] /\ todo'[q] = todo[q] /\ ret'[q] = ret[q] /\ info' = info
      BY <2>2
    <3>3. \A y \in Nat : Sends(q, b, y)' <=> Sends(q, b, y)
      BY <3>2 DEF Sends
    <3>4. \A x \in Nat : Receives(q, T, b, e, x)' <=> Receives(q, T, b, e, x)
      BY <3>2 DEF Receives
    <3>5. QED
      BY <3>1, <3>2, <3>3, <3>4 DEF Progress
  <2>3. QED
    BY <2>1, <2>2
<1>7. ASSUME NEW s \in Ranks, NEW d \in Ranks, s # d, pc'[d] # "stopped" PROVE UnderWay(s, d, T, b, e)'
  <2>1. CASE s = r
    BY <1>7, <2>1
  <2>2. CASE d = r
    BY <1>7, <2>2
  <2>3. CASE s # r /\ d # r
    <3>1. UnderWay(s, d, T, b, e)
      BY <1>7, <2>3 DEF Moving
    <3>2. (Sent(s, d)' <=> Sent(s, d)) /\ (Got(s, d)' <=> Got(s, d)) /\ net'[s][d] = net[s][d]
      BY <2>3 DEF Sent, Got
    <3>3. QED
      BY <3>1, <3>2 DEF UnderWay
  <2>4. QED
    BY <2>1, <2>2, <2>3
<1>8. QED
  BY <1>1, <1>5, <1>6, <1>7 DEF Moving

CutFacts(T, b, e) ==
  /\ Cut(b) /\ Cut(e) /\ b[P] = e[P] /\ b[P] = Len(T) /\ b[P] \in Nat
  /\ IsOwners(info.org, b) /\ IsOwners(info.belong, e) /\ Lies(X, T, b)

\* The facts that the data lemmas need
LEMMA CutFactsHold ==
  ASSUME NEW T \in Seq(Nat), NEW b, NEW e, Moving(T, b, e)
  PROVE  CutFacts(T, b, e)
<1>1. Len(T) \in Nat
  OBVIOUS
<1>2. QED
  BY <1>1 DEF CutFacts, Moving, Cuts, Divides

\* What one rank has for another
LEMMA PieceForRank ==
  ASSUME NEW T \in Seq(Nat), NEW b, NEW e, CutFacts(T, b, e), NEW r \in Ranks, NEW d \in Ranks,
         Shared(b, e, r, d)
  PROVE  Piece(r, d) = Part(T, From(b, e, r, d), To(b, e, r, d))
<1>0. /\ Cut(b) /\ Cut(e) /\ b[P] = e[P] /\ b[P] = Len(T)
      /\ IsOwners(info.org, b) /\ IsOwners(info.belong, e)
  BY DEF CutFacts
<1>1. SendBelong(r) = Part(info.belong, b[r], b[r + 1])
  <2>1. Cut(b) /\ Cut(e) /\ b[P] = e[P] /\ IsOwners(info.org, b) /\ IsOwners(info.belong, e)
    BY <1>0
  <2>2. Where(info.belong, info.org, r) = Part(info.belong, b[r], b[r + 1])
    BY <2>1, OwnersOfBlock
  <2>3. QED
    BY <2>2 DEF SendBelong
<1>2. X[r] = Part(T, b[r], b[r + 1])
  BY DEF CutFacts, Lies
<1>3. Where(Part(T, b[r], b[r + 1]), Part(info.belong, b[r], b[r + 1]), d)
        = Part(T, From(b, e, r, d), To(b, e, r, d))
  BY <1>0, PieceIs
<1>4. QED
  BY <1>1, <1>2, <1>3 DEF Piece

\* A rank sends its next piece, or passes over itself.
LEMMA SendKept ==
  ASSUME Types, NEW T \in Seq(Nat), NEW b, NEW e, Moving(T, b, e), NEW r \in Ranks,
         SendPiece(r), UNCHANGED rtvars
  PROVE  Moving(T, b, e)'
<1>0. CutFacts(T, b, e)
  BY CutFactsHold
<1>1. /\ pc[r] = "send" /\ todo[r] # <<>> /\ todo' = [todo EXCEPT ![r] = Tail(@)]
      /\ UNCHANGED <<job, turn, call, method, info, X, pc, ret>>
  BY DEF SendPiece, rtvars
<1>2. PICK list : list = todo[r]
  OBVIOUS
<1>3. todo'[r] = Tail(list) /\ \A q \in Ranks : q # r => todo'[q] = todo[q]
  BY <1>1, <1>2 DEF Types, OverRanks
<1>4. PICK y \in Nat : Sends(r, b, y)
  BY <1>1 DEF Moving, Progress
<1>5. /\ b[r] \in Nat /\ b[r + 1] \in Nat /\ b[r] <= b[r + 1] /\ b[r + 1] <= e[P]
  BY <1>0, SharedPlaces DEF CutFacts
<1>6. PICK d \in Ranks, v \in Nat, z \in Nat :
        /\ d = Head(list) /\ z = b[r + 1] /\ v = Lower(e[d + 1], z)
        /\ Owns(e, d, y + 1) /\ y < v /\ v <= z /\ Lists(Tail(list), info.belong, v, z)
  <2>1. PICK z \in Nat : z = b[r + 1] /\ z <= e[P]
    BY <1>5
  <2>2. Lists(list, info.belong, y, z) /\ list # <<>>
    BY <1>1, <1>2, <1>4, <2>1 DEF Sends
  <2>3. /\ Head(list) \in Ranks /\ Owns(e, Head(list), y + 1)
        /\ y < Lower(e[Head(list) + 1], z) /\ Lower(e[Head(list) + 1], z) <= z
        /\ Lower(e[Head(list) + 1], z) \in Nat
        /\ Lists(Tail(list), info.belong, Lower(e[Head(list) + 1], z), z)
    BY <1>0, <2>1, <2>2, FirstOnTheList DEF CutFacts
  <2>4. PICK v \in Nat : v = Lower(e[Head(list) + 1], z)
    BY <2>3
  <2>5. QED
    BY <2>1, <2>3, <2>4
<1>7. Shared(b, e, r, d)
  <2>1. e[d] \in Nat /\ e[d + 1] \in Nat
    BY <1>0, <1>6, SharedPlaces DEF CutFacts
  <2>2. b[r] <= y /\ e[d] < y + 1 /\ y + 1 <= e[d + 1]
    BY <1>4, <1>6 DEF Sends, Owns
  <2>3. PICK u \in Nat, x \in Nat, w \in Nat : u = b[r] /\ x = e[d] /\ w = e[d + 1]
    BY <1>5, <2>1
  <2>4. Higher(u, x) <= y /\ y < Lower(z, w)
    BY <1>6, <2>2, <2>3 DEF Higher, Lower
  <2>5. Higher(u, x) \in Nat /\ Lower(z, w) \in Nat
    BY DEF Higher, Lower
  <2>6. Higher(u, x) < Lower(z, w)
    BY <2>4, <2>5
  <2>7. QED
    BY <1>6, <2>3, <2>6 DEF Shared, From, To
<1>8. Progress(r, T, b, e)'
  <2>1. Sends(r, b, v)'
    <3>1. b[r] <= v /\ v <= b[r + 1]
      BY <1>4, <1>5, <1>6 DEF Sends
    <3>2. QED
      BY <1>1, <1>3, <1>6, <3>1 DEF Sends
  <2>2. \E w \in Nat : Sends(r, b, w)'
    BY <2>1
  <2>3. QED
    BY <1>1, <2>2 DEF Progress
<1>9. /\ Listed(d, list)
      /\ \A q : Listed(q, Tail(list)) <=> Listed(q, list) /\ q # d
  <2>1. list \in Seq(Nat) /\ list # <<>> /\ RisesStrictly(list)
    BY <1>1, <1>2, <1>4 DEF Sends, Lists
  <2>2. QED
    BY <1>6, <2>1, TailListed
<1>10. /\ d # r => net'[r][d] = Append(net[r][d], Piece(r, d))
       /\ \A s, q \in Ranks : s # q /\ (s # r \/ q # d) => net'[s][q] = net[s][q]
  <2>1. CASE d = r
    <3>1. net' = net
      BY <1>2, <1>6, <2>1 DEF SendPiece
    <3>2. QED
      BY <2>1, <3>1
  <2>2. CASE d # r
    <3>1. net' = [net EXCEPT ![r][d] = Append(net[r][d], Piece(r, d))]
      BY <1>2, <1>6, <2>2 DEF SendPiece
    <3>2. OverRanks(net) /\ \A s \in Ranks : OverRanks(net[s])
      BY DEF Types
    <3>3. PICK val : val = Append(net[r][d], Piece(r, d))
      OBVIOUS
    <3>4. net' = [net EXCEPT ![r][d] = val]
      BY <3>1, <3>3
    <3>5. net'[r][d] = val
      <4>1. PICK line : line = [net[r] EXCEPT ![d] = val]
        OBVIOUS
      <4>2. net' = [net EXCEPT ![r] = line]
        BY <3>4, <4>1
      <4>3. net[r] = [q \in Ranks |-> net[r][q]]
        BY <3>2 DEF OverRanks
      <4>4. line[d] = val
        BY <1>6, <4>1, <4>3
      <4>5. net'[r] = line
        BY <3>2, <4>2 DEF OverRanks
      <4>6. QED
        BY <4>4, <4>5
    <3>6. \A s, q \in Ranks : s # r \/ q # d => net'[s][q] = net[s][q]
      BY <1>6, <3>2, <3>4, OneChannelChanged
    <3>7. QED
      BY <3>3, <3>5, <3>6
  <2>3. QED
    BY <2>1, <2>2
<1>11. ASSUME NEW q \in Ranks, q # r, pc[q] # "stopped" PROVE UnderWay(r, q, T, b, e)'
  <2>1. UnderWay(r, q, T, b, e)
    BY <1>11 DEF Moving
  <2>2. Got(r, q)' <=> Got(r, q)
    BY <1>1, <1>3, <1>11 DEF Got
  <2>3. CASE q = d
    <3>1. ~ Sent(r, d)
      BY <1>1, <1>2, <1>9 DEF Sent
    <3>2. net[r][d] = <<>> /\ ~ Got(r, d)
      BY <1>7, <2>1, <2>3, <3>1 DEF UnderWay
    <3>3. Sent(r, d)'
      BY <1>3, <1>9 DEF Sent
    <3>4. net'[r][d] = <<Part(T, From(b, e, r, d), To(b, e, r, d))>>
      <4>1. Piece(r, d) = Part(T, From(b, e, r, d), To(b, e, r, d))
        BY <1>0, <1>6, <1>7, PieceForRank
      <4>2. PICK piece : piece = Piece(r, d)
        OBVIOUS
      <4>3. Append(<<>>, piece) = <<piece>>
        OBVIOUS
      <4>4. QED
        BY <1>10, <1>11, <2>3, <3>2, <4>1, <4>2, <4>3
    <3>5. QED
      BY <1>7, <2>2, <2>3, <3>2, <3>3, <3>4 DEF UnderWay
  <2>4. CASE q # d
    <3>1. Sent(r, q)' <=> Sent(r, q)
      BY <1>1, <1>2, <1>3, <1>9, <2>4 DEF Sent
    <3>2. net'[r][q] = net[r][q]
      BY <1>10, <1>11, <2>4
    <3>3. QED
      BY <2>1, <2>2, <3>1, <3>2 DEF UnderWay
  <2>5. QED
    BY <2>3, <2>4
<1>12. ASSUME NEW q \in Ranks, q # r PROVE UnderWay(q, r, T, b, e)'
  <2>1. UnderWay(q, r, T, b, e)
    BY <1>1, <1>12 DEF Moving
  <2>2. ~ Got(q, r) /\ ~ Got(q, r)' /\ (Sent(q, r)' <=> Sent(q, r))
    BY <1>1, <1>3, <1>12 DEF Got, Sent
  <2>3. net'[q][r] = net[q][r]
    BY <1>10, <1>12
  <2>4. QED
    BY <2>1, <2>2, <2>3 DEF UnderWay
<1>13. \A s, q \in Ranks : s # r /\ q # r => net'[s][q] = net[s][q]
  <2>1. ASSUME NEW s \in Ranks, NEW q \in Ranks, s # r, q # r PROVE net'[s][q] = net[s][q]
    <3>1. CASE d = r
      <4>1. net' = net
        BY <1>2, <1>6, <3>1 DEF SendPiece
      <4>2. QED
        BY <4>1
    <3>2. CASE d # r
      <4>1. net' = [net EXCEPT ![r][d] = Append(net[r][d], Piece(r, d))]
        BY <1>2, <1>6, <3>2 DEF SendPiece
      <4>2. OverRanks(net) /\ \A p \in Ranks : OverRanks(net[p])
        BY DEF Types
      <4>3. \A p, t \in Ranks : p # r \/ t # d => net'[p][t] = net[p][t]
        BY <1>6, <4>1, <4>2, OneChannelChanged
      <4>4. QED
        BY <2>1, <4>3
    <3>3. QED
      BY <3>1, <3>2
  <2>2. QED
    BY <2>1
<1>14. /\ pc'[r] \in {"send", "recv", After, "stopped"} \cup (IF job.from = "file" THEN {"done"} ELSE {})
       /\ \A q \in Ranks : q # r => pc'[q] = pc[q] /\ todo'[q] = todo[q] /\ ret'[q] = ret[q]
  BY <1>1, <1>3
<1>15. QED
  BY <1>1, <1>8, <1>11, <1>12, <1>13, <1>14, OneMoves

\* A rank begins to receive.
LEMMA StartKept ==
  ASSUME Types, NEW T \in Seq(Nat), NEW b, NEW e, Moving(T, b, e), NEW r \in Ranks,
         StartReceiving(r), UNCHANGED rtvars
  PROVE  Moving(T, b, e)'
<1>0. CutFacts(T, b, e)
  BY CutFactsHold
<1>1. /\ pc[r] = "send" /\ todo[r] = <<>> /\ UNCHANGED <<job, turn, call, method, info, X, net>>
      /\ pc' = [pc EXCEPT ![r] = "recv"] /\ todo' = [todo EXCEPT ![r] = Unique(RecvOrg(r))]
      /\ ret' = [ret EXCEPT ![r] = IF RecvOrg(r) = <<>> THEN X[r] ELSE <<>>]
  BY DEF StartReceiving, rtvars
<1>2. /\ pc'[r] = "recv" /\ todo'[r] = Unique(RecvOrg(r))
      /\ ret'[r] = IF RecvOrg(r) = <<>> THEN X[r] ELSE <<>>
      /\ \A q \in Ranks : q # r => pc'[q] = pc[q] /\ todo'[q] = todo[q] /\ ret'[q] = ret[q]
  BY <1>1 DEF Types, OverRanks
<1>3. /\ e[r] \in Nat /\ e[r + 1] \in Nat /\ e[r] <= e[r + 1] /\ e[r + 1] <= b[P]
  BY <1>0, SharedPlaces DEF CutFacts
<1>4. RecvOrg(r) = Part(info.org, e[r], e[r + 1])
  <2>1. Cut(e) /\ Cut(b) /\ e[P] = b[P] /\ IsOwners(info.belong, e) /\ IsOwners(info.org, b)
    BY <1>0 DEF CutFacts
  <2>2. Where(info.org, info.belong, r) = Part(info.org, e[r], e[r + 1])
    BY <2>1, OwnersOfBlock
  <2>3. QED
    BY <2>2 DEF RecvOrg
<1>5. PICK u \in Nat, v \in Nat : u = e[r] /\ v = e[r + 1] /\ u <= v /\ v <= b[P]
  BY <1>3
<1>6. Lists(todo'[r], info.org, u, v)
  <2>1. Cut(b) /\ IsOwners(info.org, b)
    BY <1>0 DEF CutFacts
  <2>2. Lists(Unique(Part(info.org, u, v)), info.org, u, v)
    BY <1>5, <2>1, UniqueStretch
  <2>3. QED
    BY <1>2, <1>4, <1>5, <2>2
<1>7. u < v => ret'[r] = <<>>
  <2>1. SUFFICES ASSUME u < v PROVE RecvOrg(r) # <<>>
    BY <1>2
  <2>2. info.org \in Seq(Nat) /\ v <= Len(info.org)
    BY <1>0, <1>5 DEF CutFacts, IsOwners
  <2>3. Len(Part(info.org, u, v)) = v - u
    BY <1>5, <2>2, PartIs DEF IsPart
  <2>4. v - u # 0
    BY <2>1
  <2>5. QED
    BY <1>4, <1>5, <2>3, <2>4
<1>8. Progress(r, T, b, e)'
  <2>1. Part(T, u, u) = <<>>
    BY PartIsEmpty
  <2>2. Receives(r, T, b, e, u)'
    <3>1. e[r] <= u /\ u <= e[r + 1] /\ u \in {e[r], e[r + 1]}
      BY <1>5
    <3>2. Lists(todo'[r], info'.org, u, e[r + 1])
      BY <1>1, <1>5, <1>6
    <3>3. e[r] < e[r + 1] => ret'[r] = Part(T, e[r], u)
      BY <1>5, <1>7, <2>1
    <3>4. QED
      BY <3>1, <3>2, <3>3 DEF Receives
  <2>3. \E x \in Nat : Receives(r, T, b, e, x)'
    BY <2>2
  <2>4. QED
    BY <1>2, <2>3 DEF Progress
<1>9. ASSUME NEW q \in Ranks, q # r, pc[q] # "stopped" PROVE UnderWay(r, q, T, b, e)'
  <2>1. UnderWay(r, q, T, b, e)
    BY <1>9 DEF Moving
  <2>2. (Got(r, q)' <=> Got(r, q)) /\ Sent(r, q) /\ Sent(r, q)'
    BY <1>1, <1>2, <1>9, NobodyListed DEF Got, Sent
  <2>3. QED
    BY <1>1, <2>1, <2>2 DEF UnderWay
<1>10. ASSUME NEW q \in Ranks, q # r PROVE UnderWay(q, r, T, b, e)'
  <2>1. UnderWay(q, r, T, b, e)
    BY <1>1, <1>10 DEF Moving
  <2>2. Listed(q, todo'[r]) <=> Shared(b, e, q, r)
    <3>1. Cut(b) /\ Cut(e) /\ e[P] = b[P] /\ b[P] = e[P] /\ IsOwners(info.org, b)
      BY <1>0 DEF CutFacts
    <3>2. Lists(todo'[r], info.org, e[r], e[r + 1])
      BY <1>5, <1>6
    <3>3. Listed(q, todo'[r]) <=> Shared(e, b, r, q)
      BY <3>1, <3>2, SharedIsListed
    <3>4. Shared(b, e, q, r) <=> Shared(e, b, r, q)
      BY <3>1, SharedBothWays
    <3>5. QED
      BY <3>3, <3>4
  <2>3. ~ Got(q, r) /\ (Got(q, r)' <=> ~ Shared(b, e, q, r)) /\ (Sent(q, r)' <=> Sent(q, r))
    BY <1>1, <1>2, <1>10, <2>2 DEF Got, Sent
  <2>4. QED
    BY <1>1, <2>1, <2>3 DEF UnderWay
<1>11. pc'[r] \in {"send", "recv", After, "stopped"} \cup (IF job.from = "file" THEN {"done"} ELSE {})
  BY <1>2
<1>12. QED
  BY <1>1, <1>2, <1>8, <1>9, <1>10, <1>11, OneMoves

\* A rank has received all it waited for.
LEMMA FinishKept ==
  ASSUME Types, NEW T \in Seq(Nat), NEW b, NEW e, Moving(T, b, e), NEW r \in Ranks,
         FinishBalance(r, After), UNCHANGED rtvars
  PROVE  Moving(T, b, e)'
<1>0. CutFacts(T, b, e)
  BY CutFactsHold
<1>1. /\ pc[r] = "recv" /\ todo[r] = <<>> /\ UNCHANGED <<job, turn, call, method, info, X, net, todo>>
      /\ pc' = [pc EXCEPT ![r] = After]
      /\ ret' = [ret EXCEPT ![r] = IF info.new[r + 1] = 0 THEN <<>> ELSE @]
  BY DEF FinishBalance, rtvars
<1>2. /\ pc'[r] = After /\ ret'[r] = (IF info.new[r + 1] = 0 THEN <<>> ELSE ret[r])
      /\ \A q \in Ranks : q # r => pc'[q] = pc[q] /\ todo'[q] = todo[q] /\ ret'[q] = ret[q]
  BY <1>1 DEF Types, OverRanks
<1>3. /\ e[r] \in Nat /\ e[r + 1] \in Nat /\ e[r] <= e[r + 1] /\ e[r + 1] <= b[P]
  BY <1>0, SharedPlaces DEF CutFacts
<1>4. PICK u \in Nat, v \in Nat : u = e[r] /\ v = e[r + 1] /\ u <= v /\ v <= b[P]
  BY <1>3
<1>5. info.new[r + 1] = v - u
  BY <1>4 DEF Moving, Cuts
<1>6. ret'[r] = Part(T, u, v)
  <2>1. CASE u = v
    <3>1. v - u = 0
      BY <2>1
    <3>2. QED
      BY <1>2, <1>5, <2>1, <3>1, PartIsEmpty
  <2>2. CASE u # v
    <3>1. v - u # 0 /\ u < v
      BY <1>4, <2>2
    <3>2. PICK x \in Nat : Receives(r, T, b, e, x)
      BY <1>1 DEF Moving, Progress
    <3>3. x <= v /\ Lists(todo[r], info.org, x, v) /\ ret[r] = Part(T, u, x)
      BY <1>4, <3>1, <3>2 DEF Receives
    <3>4. ~ (x < v)
      BY <1>0, <1>1, <1>4, <3>3, ListOfNone DEF CutFacts
    <3>5. x = v
      BY <3>3, <3>4
    <3>6. QED
      BY <1>2, <1>5, <3>1, <3>3, <3>5
  <2>3. QED
    BY <2>1, <2>2
<1>7. After \in {"names", "unload", "done"}
  BY DEF After
<1>8. Progress(r, T, b, e)'
  BY <1>2, <1>4, <1>6, <1>7 DEF Progress
<1>9. ASSUME NEW q \in Ranks, q # r, pc[q] # "stopped" PROVE UnderWay(r, q, T, b, e)'
  <2>1. UnderWay(r, q, T, b, e)
    BY <1>9 DEF Moving
  <2>2. (Got(r, q)' <=> Got(r, q)) /\ Sent(r, q) /\ Sent(r, q)'
    BY <1>1, <1>2, <1>7, <1>9 DEF Got, Sent
  <2>3. QED
    BY <1>1, <2>1, <2>2 DEF UnderWay
<1>10. ASSUME NEW q \in Ranks, q # r PROVE UnderWay(q, r, T, b, e)'
  <2>1. UnderWay(q, r, T, b, e)
    BY <1>1, <1>10 DEF Moving
  <2>2. Got(q, r) /\ Got(q, r)' /\ (Sent(q, r)' <=> Sent(q, r))
    BY <1>1, <1>2, <1>7, <1>10, NobodyListed DEF Got, Sent
  <2>3. QED
    BY <1>1, <2>1, <2>2 DEF UnderWay
<1>11. QED
  BY <1>1, <1>2, <1>8, <1>9, <1>10, OneMoves

\* The next block that rank r binds: its rows from x + 1 to x1, from rank s.
NextBlock(r, b, e, x, s, x1) ==
  /\ s = Head(todo[r]) /\ Shared(b, e, s, r) /\ From(b, e, s, r) = x /\ To(b, e, s, r) = x1
  /\ x < x1 /\ x1 <= e[r + 1] /\ (x1 = e[r + 1] \/ x1 = b[s + 1])
  /\ Lists(Tail(todo[r]), info.org, x1, e[r + 1])

\* The next block is from the first rank on the list, and begins where the
\* rows bound so far end.
LEMMA NextBlockIs ==
  ASSUME NEW T \in Seq(Nat), NEW b, NEW e, CutFacts(T, b, e), NEW r \in Ranks,
         NEW x \in Nat, Receives(r, T, b, e, x), todo[r] # <<>>
  PROVE  \E s \in Ranks, x1 \in Nat : NextBlock(r, b, e, x, s, x1)
<1>1. Cut(b) /\ Cut(e) /\ b[P] = e[P] /\ e[P] = b[P] /\ IsOwners(info.org, b)
  BY DEF CutFacts
<1>2. e[r] \in Nat /\ e[r + 1] \in Nat /\ e[r + 1] <= b[P]
  BY <1>1, SharedPlaces
<1>3. PICK list : list = todo[r]
  OBVIOUS
<1>4. PICK z \in Nat, u \in Nat : z = e[r + 1] /\ u = e[r] /\ z <= b[P]
  BY <1>2
<1>5. Lists(list, info.org, x, z) /\ list # <<>>
  BY <1>3, <1>4 DEF Receives
<1>6. /\ x < z /\ Head(list) \in Ranks /\ Owns(b, Head(list), x + 1)
      /\ x < Lower(b[Head(list) + 1], z) /\ Lower(b[Head(list) + 1], z) <= z
      /\ Lower(b[Head(list) + 1], z) \in Nat
      /\ Lists(Tail(list), info.org, Lower(b[Head(list) + 1], z), z)
  BY <1>1, <1>4, <1>5, FirstOnTheList
<1>7. PICK s \in Ranks : s = Head(list)
  BY <1>6
<1>8. b[s] \in Nat /\ b[s + 1] \in Nat
  BY <1>1, SharedPlaces
<1>9. PICK p \in Nat, q \in Nat : p = b[s] /\ q = b[s + 1]
  BY <1>8
<1>10. p <= x /\ x < q
  BY <1>6, <1>7, <1>9 DEF Owns
<1>11. u <= x /\ (x = u \/ \E k \in Nat : x = b[k])
  <2>1. u <= x /\ (x \in {u, z} \/ \E k \in Nat : x = b[k])
    BY <1>4 DEF Receives
  <2>2. x # z
    BY <1>6
  <2>3. QED
    BY <2>1, <2>2
<1>12. x = u \/ x = p
  <2>1. SUFFICES ASSUME NEW k \in Nat, x = b[k] PROVE x = p
    BY <1>11
  <2>2. s \in Nat /\ s + 1 \in Nat
    BY RanksAre
  <2>3. ~ (s + 1 <= k)
    <3>1. SUFFICES ASSUME s + 1 <= k PROVE FALSE
      OBVIOUS
    <3>2. b[s + 1] <= b[k]
      BY <1>1, <2>2, <3>1, CutRises
    <3>3. QED
      BY <1>9, <1>10, <2>1, <3>2
  <2>4. k <= s
    BY <2>2, <2>3
  <2>5. b[k] <= b[s]
    BY <1>1, <2>2, <2>4, CutRises
  <2>6. QED
    BY <1>9, <1>10, <2>1, <2>5
<1>13. Higher(p, u) = x
  BY <1>10, <1>11, <1>12 DEF Higher
<1>14. From(b, e, s, r) = x
  BY <1>4, <1>9, <1>13 DEF From
<1>15. PICK x1 \in Nat : x1 = Lower(q, z)
  BY <1>6, <1>7, <1>9
<1>16. x < x1 /\ x1 <= z /\ Lists(Tail(list), info.org, x1, z)
  BY <1>6, <1>7, <1>9, <1>15
<1>17. x1 = z \/ x1 = q
  BY <1>15 DEF Lower
<1>18. To(b, e, s, r) = x1
  BY <1>4, <1>9, <1>15 DEF To
<1>19. Shared(b, e, s, r)
  BY <1>14, <1>16, <1>18 DEF Shared
<1>20. NextBlock(r, b, e, x, s, x1)
  BY <1>3, <1>4, <1>7, <1>9, <1>14, <1>16, <1>17, <1>18, <1>19 DEF NextBlock
<1>21. QED
  BY <1>20

\* A rank that binds the next block has bound its rows up to the end of it.
LEMMA BindsOneMore ==
  ASSUME NEW T \in Seq(Nat), NEW b, NEW e, CutFacts(T, b, e), NEW r \in Ranks,
         NEW x \in Nat, Receives(r, T, b, e, x), NEW s \in Ranks, NEW x1 \in Nat,
         NextBlock(r, b, e, x, s, x1), info' = info,
         todo'[r] = Tail(todo[r]), ret'[r] = ret[r] \o Part(T, x, x1)
  PROVE  Receives(r, T, b, e, x1)'
<1>1. Cut(b) /\ Cut(e) /\ b[P] = e[P] /\ e[P] = Len(T)
  BY DEF CutFacts
<1>2. e[r] \in Nat /\ e[r + 1] \in Nat /\ e[r + 1] <= e[P]
  BY <1>1, SharedPlaces
<1>3. PICK u \in Nat, z \in Nat : u = e[r] /\ z = e[r + 1] /\ z <= Len(T)
  BY <1>1, <1>2
<1>4. u <= x /\ x < x1 /\ x1 <= z
  BY <1>3 DEF Receives, NextBlock
<1>5. u <= x1 /\ u < z /\ x <= x1 /\ x1 <= Len(T)
  <2>1. Len(T) \in Nat
    OBVIOUS
  <2>2. QED
    BY <1>3, <1>4, <2>1
<1>6. x1 \in {u, z} \/ \E k \in Nat : x1 = b[k]
  <2>1. s + 1 \in Nat
    BY RanksAre
  <2>2. QED
    BY <1>3, <2>1 DEF NextBlock
<1>7. Lists(todo'[r], info'.org, x1, z)
  BY <1>3 DEF NextBlock
<1>8. ret[r] = Part(T, u, x)
  BY <1>3, <1>5 DEF Receives
<1>9. Part(T, u, x) \o Part(T, x, x1) = Part(T, u, x1)
  BY <1>4, <1>5, PartsJoin
<1>10. ret'[r] = Part(T, u, x1)
  BY <1>8, <1>9
<1>11. QED
  BY <1>3, <1>4, <1>5, <1>6, <1>7, <1>10 DEF Receives

\* What it means to bind a block
Bound1(r) == pc'[r] = "recv" /\ todo'[r] = Tail(todo[r])

\* Binding the block of the first rank on the list is progress.
LEMMA BindProgress ==
  ASSUME Types, NEW T \in Seq(Nat), NEW b, NEW e, Moving(T, b, e), NEW r \in Ranks,
         NEW s \in Ranks, s = Head(todo[r]),
         pc[r] = "recv", todo[r] # <<>>, info' = info,
         NEW block, Shared(b, e, s, r) => block = Part(T, From(b, e, s, r), To(b, e, s, r)), Bind(r, block)
  PROVE  /\ Shared(b, e, s, r)
         /\ pc'[r] = "stopped" \/ Bound1(r)
         /\ Progress(r, T, b, e)'
         /\ \A q \in Ranks : q # r => pc'[q] = pc[q] /\ todo'[q] = todo[q] /\ ret'[q] = ret[q]
         /\ RisesStrictly(todo[r]) /\ todo[r] \in Seq(Nat)
<1>0. CutFacts(T, b, e)
  BY CutFactsHold
<1>1. PICK x \in Nat : Receives(r, T, b, e, x)
  BY DEF Moving, Progress
<1>2. PICK x1 \in Nat : NextBlock(r, b, e, x, s, x1)
  <2>1. \E p \in Ranks, x1 \in Nat : NextBlock(r, b, e, x, p, x1)
    BY <1>0, <1>1, NextBlockIs
  <2>2. QED
    BY <2>1 DEF NextBlock
<1>3. Shared(b, e, s, r) /\ block = Part(T, x, x1)
  BY <1>2 DEF NextBlock
<1>4. RisesStrictly(todo[r]) /\ todo[r] \in Seq(Nat)
  BY <1>1 DEF Receives, Lists
<1>5. CASE Flattened(Len(block))
  <2>1. pc' = [pc EXCEPT ![r] = "stopped"] /\ todo' = todo /\ ret' = ret
    BY <1>5 DEF Bind
  <2>2. pc'[r] = "stopped" /\ \A q \in Ranks : q # r => pc'[q] = pc[q]
    BY <2>1 DEF Types, OverRanks
  <2>3. Progress(r, T, b, e)'
    BY <2>2 DEF Progress
  <2>4. QED
    BY <1>3, <1>4, <2>1, <2>2, <2>3
<1>6. CASE ~ Flattened(Len(block))
  <2>1. /\ pc' = pc /\ ret' = [ret EXCEPT ![r] = ret[r] \o block]
        /\ todo' = [todo EXCEPT ![r] = Tail(todo[r])]
    BY <1>6 DEF Bind
  <2>2. PICK list, rows : list = Tail(todo[r]) /\ rows = ret[r] \o block
    OBVIOUS
  <2>3. /\ ret'[r] = rows /\ todo'[r] = list
        /\ \A q \in Ranks : q # r => pc'[q] = pc[q] /\ todo'[q] = todo[q] /\ ret'[q] = ret[q]
    BY <2>1, <2>2 DEF Types, OverRanks
  <2>4. Receives(r, T, b, e, x1)'
    BY <1>0, <1>1, <1>2, <1>3, <2>2, <2>3, BindsOneMore
  <2>5. \E v \in Nat : Receives(r, T, b, e, v)'
    BY <2>4
  <2>6. Progress(r, T, b, e)'
    BY <2>1, <2>5 DEF Progress
  <2>7. Bound1(r)
    BY <2>1, <2>2, <2>3 DEF Bound1
  <2>8. QED
    BY <1>3, <1>4, <2>3, <2>6, <2>7
<1>7. QED
  BY <1>5, <1>6

\* The channels of a rank that binds the block of rank s
LEMMA ReceiverChannels ==
  ASSUME Types, NEW T \in Seq(Nat), NEW b, NEW e, Moving(T, b, e), NEW r \in Ranks,
         NEW s \in Ranks, s = Head(todo[r]),
         pc[r] = "recv", todo[r] # <<>>, UNCHANGED <<job, turn, call, method, info, X>>,
         NEW block, Shared(b, e, s, r) => block = Part(T, From(b, e, s, r), To(b, e, s, r)), Bind(r, block),
         s # r => /\ net[s][r] = <<block>> /\ Sent(s, r) /\ net'[s][r] = <<>>,
         \A p, q \in Ranks : p # s \/ q # r => net'[p][q] = net[p][q]
  PROVE  Moving(T, b, e)'
<1>1. /\ Shared(b, e, s, r)
      /\ pc'[r] = "stopped" \/ Bound1(r)
      /\ Progress(r, T, b, e)'
      /\ \A q \in Ranks : q # r => pc'[q] = pc[q] /\ todo'[q] = todo[q] /\ ret'[q] = ret[q]
      /\ RisesStrictly(todo[r]) /\ todo[r] \in Seq(Nat)
  BY BindProgress
<1>2. pc'[r] \in {"send", "recv", After, "stopped"} \cup (IF job.from = "file" THEN {"done"} ELSE {})
  BY <1>1 DEF Bound1
<1>3. ASSUME NEW q \in Ranks, q # r, pc[q] # "stopped" PROVE UnderWay(r, q, T, b, e)'
  <2>1. UnderWay(r, q, T, b, e)
    BY <1>3 DEF Moving
  <2>2. Sent(r, q) /\ Sent(r, q)'
    BY <1>1 DEF Sent, Bound1
  <2>3. Got(r, q)' <=> Got(r, q)
    BY <1>1, <1>3 DEF Got
  <2>4. net'[r][q] = net[r][q]
    BY <1>3
  <2>5. QED
    BY <2>1, <2>2, <2>3, <2>4 DEF UnderWay
<1>4. ASSUME NEW q \in Ranks, q # r, pc'[r] # "stopped" PROVE UnderWay(q, r, T, b, e)'
  <2>1. UnderWay(q, r, T, b, e)
    BY <1>4 DEF Moving
  <2>2. Sent(q, r)' <=> Sent(q, r)
    BY <1>1, <1>4 DEF Sent
  <2>3. PICK list : list = todo[r]
    OBVIOUS
  <2>4. pc'[r] = "recv" /\ todo'[r] = Tail(list)
    BY <1>1, <1>4, <2>3 DEF Bound1
  <2>5. Listed(q, Tail(list)) <=> Listed(q, list) /\ q # Head(list)
    BY <1>1, <2>3, TailListed
  <2>6. (Got(q, r) <=> ~ Listed(q, list)) /\ (Got(q, r)' <=> ~ Listed(q, Tail(list)))
    BY <2>3, <2>4 DEF Got
  <2>7. CASE q = s
    <3>1. Sent(q, r) /\ net'[q][r] = <<>> /\ Got(q, r)'
      BY <1>4, <2>3, <2>5, <2>6, <2>7
    <3>2. QED
      BY <2>2, <3>1 DEF UnderWay
  <2>8. CASE q # s
    <3>1. (Got(q, r)' <=> Got(q, r)) /\ net'[q][r] = net[q][r]
      BY <1>4, <2>3, <2>5, <2>6, <2>8
    <3>2. QED
      BY <2>1, <2>2, <3>1 DEF UnderWay
  <2>9. QED
    BY <2>7, <2>8
<1>5. \A p, q \in Ranks : p # r /\ q # r => net'[p][q] = net[p][q]
  OBVIOUS
<1>6. QED
  BY <1>1, <1>2, <1>3, <1>4, <1>5, OneMoves

\* A rank takes the block of another rank.
LEMMA RecvKept ==
  ASSUME Types, NEW T \in Seq(Nat), NEW b, NEW e, Moving(T, b, e), NEW r \in Ranks,
         RecvPiece(r), UNCHANGED rtvars
  PROVE  Moving(T, b, e)'
<1>0. CutFacts(T, b, e)
  BY CutFactsHold
<1>1. /\ pc[r] = "recv" /\ todo[r] # <<>> /\ Head(todo[r]) # r
      /\ UNCHANGED <<job, turn, call, method, info, X>>
  BY DEF RecvPiece, rtvars
<1>2. PICK s \in Ranks : s = Head(todo[r])
  <2>1. PICK x \in Nat : Receives(r, T, b, e, x)
    BY <1>1 DEF Moving, Progress
  <2>2. \E s \in Ranks, x1 \in Nat : NextBlock(r, b, e, x, s, x1)
    BY <1>0, <1>1, <2>1, NextBlockIs
  <2>3. QED
    BY <2>2 DEF NextBlock
<1>3. /\ s # r /\ net[s][r] # <<>> /\ net' = [net EXCEPT ![s][r] = Tail(net[s][r])]
      /\ Bind(r, Head(net[s][r]))
  BY <1>1, <1>2 DEF RecvPiece
<1>4. PICK block : block = Part(T, From(b, e, s, r), To(b, e, s, r))
  OBVIOUS
<1>5. net[s][r] = <<block>> /\ Sent(s, r)
  <2>1. UnderWay(s, r, T, b, e)
    BY <1>1, <1>3 DEF Moving
  <2>2. QED
    BY <1>3, <1>4, <2>1 DEF UnderWay
<1>6. Bind(r, block)
  <2>1. Head(<<block>>) = block
    OBVIOUS
  <2>2. QED
    BY <1>3, <1>5, <2>1
<1>7. PICK rest : rest = Tail(net[s][r])
  OBVIOUS
<1>8. rest = <<>>
  <2>1. Tail(<<block>>) = <<>>
    OBVIOUS
  <2>2. QED
    BY <1>5, <1>7, <2>1
<1>9. /\ net'[s][r] = <<>>
      /\ \A p, q \in Ranks : p # s \/ q # r => net'[p][q] = net[p][q]
  <2>1. OverRanks(net) /\ \A p \in Ranks : OverRanks(net[p])
    BY DEF Types
  <2>2. net' = [net EXCEPT ![s][r] = rest]
    BY <1>3, <1>7
  <2>3. \A p, q \in Ranks : p # s \/ q # r => net'[p][q] = net[p][q]
    BY <2>1, <2>2, OneChannelChanged
  <2>4. net'[s][r] = rest
    <3>1. PICK line : line = [net[s] EXCEPT ![r] = rest]
      OBVIOUS
    <3>2. net' = [net EXCEPT ![s] = line]
      BY <2>2, <3>1
    <3>3. net[s] = [q \in Ranks |-> net[s][q]]
      BY <2>1 DEF OverRanks
    <3>4. line[r] = rest
      BY <3>1, <3>3
    <3>5. net'[s] = line
      BY <2>1, <3>2 DEF OverRanks
    <3>6. QED
      BY <3>4, <3>5
  <2>5. QED
    BY <1>8, <2>3, <2>4
<1>10. QED
  BY <1>1, <1>2, <1>3, <1>4, <1>5, <1>6, <1>9, ReceiverChannels

\* A rank takes its own block.
LEMMA OwnKept ==
  ASSUME Types, NEW T \in Seq(Nat), NEW b, NEW e, Moving(T, b, e), NEW r \in Ranks,
         OwnPiece(r), UNCHANGED rtvars
  PROVE  Moving(T, b, e)'
<1>0. CutFacts(T, b, e)
  BY CutFactsHold
<1>1. /\ pc[r] = "recv" /\ todo[r] # <<>> /\ r = Head(todo[r]) /\ net' = net
      /\ Bind(r, Piece(r, r)) /\ UNCHANGED <<job, turn, call, method, info, X>>
  BY DEF OwnPiece, rtvars
<1>2. PICK block : block = Piece(r, r)
  OBVIOUS
<1>3. Shared(b, e, r, r) => block = Part(T, From(b, e, r, r), To(b, e, r, r))
  BY <1>0, <1>2, PieceForRank
<1>4. \A p, q \in Ranks : p # r \/ q # r => net'[p][q] = net[p][q]
  BY <1>1
<1>5. Bind(r, block)
  BY <1>1, <1>2
<1>6. QED
  BY <1>1, <1>3, <1>4, <1>5, ReceiverChannels

\* What can happen while a table is moved
LEMMA MovingMoves ==
  ASSUME Types, NEW T, NEW b, NEW e, Moving(T, b, e), Next
  PROVE  \/ SayNames \/ (\E r \in Ranks : TakeNames(r))
         \/ EnterUnload /\ UNCHANGED rtvars
         \/ \E r \in Ranks : Balancing(r) /\ UNCHANGED rtvars
         \/ \E r \in Ranks : FinishBalance(r, After) /\ UNCHANGED rtvars
         \/ UNCHANGED vars
<1>1. \A r \in Ranks : pc[r] \in {"send", "recv", "names", "unload", "stopped", "done"}
  <2>1. After \in {"names", "unload", "done"}
    BY DEF After
  <2>2. QED
    BY <2>1 DEF Moving, Calls
<1>2. 0 \in Ranks
  BY RanksAre, SizeAssumption DEF Ranks
<1>3. ~ Split /\ ~ Predict
  BY <1>1, <1>2 DEF Split, Predict
<1>4. ~ NextTurn /\ ~ EnterLoad
  BY <1>1, <1>2 DEF NextTurn, EnterLoad
<1>5. ASSUME NEW r \in Ranks, Reading(r) PROVE TakeNames(r)
  BY <1>1, <1>5 DEF Reading, TakeChunk, TakePrediction, OpenFile, CloseFile, LetRead
<1>6. QED
  BY <1>3, <1>4, <1>5 DEF Next, Terminating

\* A rank passes the broadcast of the names.
LEMMA PassNamesKept ==
  ASSUME Types, NEW T \in Seq(Nat), NEW b, NEW e, Moving(T, b, e), NEW r \in Ranks,
         pc[r] = "names", pc' = [pc EXCEPT ![r] = "done"],
         UNCHANGED <<job, turn, call, method, info, X, todo, ret, net>>
  PROVE  Moving(T, b, e)'
<1>1. /\ pc'[r] = "done"
      /\ \A q \in Ranks : q # r => pc'[q] = pc[q] /\ todo'[q] = todo[q] /\ ret'[q] = ret[q]
  BY DEF Types, OverRanks
<1>2. job.from = "file"
  <2>1. pc[r] \in {"send", "recv", After, "stopped"} \cup (IF job.from = "file" THEN {"done"} ELSE {})
    BY DEF Moving, Calls
  <2>2. QED
    BY <2>1 DEF After
<1>3. pc'[r] \in {"send", "recv", After, "stopped"} \cup (IF job.from = "file" THEN {"done"} ELSE {})
  BY <1>1, <1>2
<1>4. ret[r] = Part(T, e[r], e[r + 1])
  BY DEF Moving, Progress
<1>5. Progress(r, T, b, e)'
  BY <1>1, <1>4 DEF Progress
<1>6. ASSUME NEW q \in Ranks, q # r, pc[q] # "stopped" PROVE UnderWay(r, q, T, b, e)'
  <2>1. UnderWay(r, q, T, b, e)
    BY <1>6 DEF Moving
  <2>2. (Got(r, q)' <=> Got(r, q)) /\ Sent(r, q) /\ Sent(r, q)'
    BY <1>1, <1>6 DEF Got, Sent
  <2>3. QED
    BY <2>1, <2>2 DEF UnderWay
<1>7. ASSUME NEW q \in Ranks, q # r PROVE UnderWay(q, r, T, b, e)'
  <2>1. UnderWay(q, r, T, b, e)
    BY <1>7 DEF Moving
  <2>2. Got(q, r) /\ Got(q, r)' /\ (Sent(q, r)' <=> Sent(q, r))
    BY <1>1, <1>7 DEF Got, Sent
  <2>3. QED
    BY <2>1, <2>2 DEF UnderWay
<1>8. QED
  BY <1>1, <1>3, <1>5, <1>6, <1>7, OneMoves

\* comm.unload.balance() moves the table back.
LEMMA UnloadBegins ==
  ASSUME Types, NEW T \in Seq(Nat), NEW b, NEW e, Moving(T, b, e), EnterUnload, UNCHANGED rtvars,
         shape # "column"
  PROVE  Moving(T, e, b)'
<1>1. /\ \A r \in Ranks : pc[r] = "unload"
      /\ call' = "unload" /\ X' = ret /\ info' = Reversed(info)
      /\ pc' = [r \in Ranks |-> "send"]
      /\ todo' = [r \in Ranks |-> Unique(Where(info'.belong, info'.org, r))]
      /\ net' = net /\ job' = job
  BY DEF EnterUnload, rtvars
<1>2. 0 \in Ranks
  BY SizeAssumption DEF Ranks
<1>3. job.from # "file" /\ call = "load"
  <2>1. pc[0] \in {"send", "recv", After, "stopped"} \cup (IF job.from = "file" THEN {"done"} ELSE {})
    BY <1>2 DEF Moving, Calls
  <2>2. QED
    BY <1>1, <1>2, <2>1 DEF After
<1>4. Cuts(T, e, b)'
  <2>1. /\ info'.org = info.belong /\ info'.belong = info.org
        /\ info'.old = info.new /\ info'.new = info.old
    BY <1>1 DEF Reversed
  <2>2. Lies(X', T, e)
    BY <1>1 DEF Moving, Progress, Lies
  <2>3. QED
    BY <2>1, <2>2 DEF Moving, Cuts, Divides, Lies
<1>5. Calls(T, e, b)'
  <2>1. job'.from = "ranks" => Lies(job.rows, T, b)'
    BY <1>1, <1>3 DEF Moving, Calls, Lies
  <2>2. OfLargeFile'
    BY <1>1, <1>3 DEF OfLargeFile
  <2>3. QED
    BY <1>1, <2>1, <2>2 DEF Calls
<1>6. NothingSent'
  <2>1. ASSUME NEW s \in Ranks, NEW d \in Ranks, s # d PROVE net'[s][d] = <<>>
    <3>1. UnderWay(s, d, T, b, e)
      BY <1>1, <2>1 DEF Moving
    <3>2. Got(s, d)
      BY <1>1 DEF Got
    <3>3. QED
      BY <1>1, <3>1, <3>2 DEF UnderWay
  <2>2. QED
    BY <2>1 DEF NothingSent
<1>7. \A r \in Ranks : pc'[r] = "send" /\ todo'[r] = Unique(Where(info'.belong, info'.org, r))
  BY <1>1
<1>8. /\ \A r \in Ranks : Progress(r, T, e, b)'
      /\ \A s, d \in Ranks : s # d /\ pc'[d] # "stopped" => UnderWay(s, d, T, e, b)'
  BY <1>4, <1>6, <1>7, CallBegins
<1>9. QED
  BY <1>4, <1>5, <1>8 DEF Moving

\* A table is moved, and moved back, or the call fails on every rank.
LEMMA MovingKept ==
  ASSUME Types, NEW T \in Seq(Nat), NEW b, NEW e, Moving(T, b, e), Next \/ UNCHANGED vars
  PROVE  Moving(T, b, e)' \/ Moving(T, e, b)' \/ Dead'
<1>1. CASE SayNames
  <2>1. 0 \in Ranks
    BY SizeAssumption DEF Ranks
  <2>2. QED
    BY <1>1, <2>1, PassNamesKept DEF SayNames
<1>2. CASE \E r \in Ranks : TakeNames(r)
  <2>1. PICK r \in Ranks : TakeNames(r)
    BY <1>2
  <2>2. QED
    BY <2>1, PassNamesKept DEF TakeNames
<1>3. CASE EnterUnload /\ UNCHANGED rtvars
  <2>1. CASE shape = "column"
    BY <1>3, <2>1 DEF EnterUnload, Dead
  <2>2. CASE shape # "column"
    BY <1>3, <2>2, UnloadBegins
  <2>3. QED
    BY <2>1, <2>2
<1>4. CASE \E r \in Ranks : Balancing(r) /\ UNCHANGED rtvars
  <2>1. PICK r \in Ranks : Balancing(r) /\ UNCHANGED rtvars
    BY <1>4
  <2>2. CASE SendPiece(r)
    BY <2>1, <2>2, SendKept
  <2>3. CASE StartReceiving(r)
    BY <2>1, <2>3, StartKept
  <2>4. CASE RecvPiece(r)
    BY <2>1, <2>4, RecvKept
  <2>5. CASE OwnPiece(r)
    BY <2>1, <2>5, OwnKept
  <2>6. QED
    BY <2>1, <2>2, <2>3, <2>4, <2>5 DEF Balancing
<1>5. CASE \E r \in Ranks : FinishBalance(r, After) /\ UNCHANGED rtvars
  <2>1. PICK r \in Ranks : FinishBalance(r, After) /\ UNCHANGED rtvars
    BY <1>5
  <2>2. QED
    BY <2>1, FinishKept
<1>6. CASE UNCHANGED vars
  <2>1. 0 \in Ranks
    BY SizeAssumption DEF Ranks
  <2>2. UNCHANGED <<job, turn, call, method, info, X, pc, todo, ret, net>>
    BY <1>6 DEF vars, lbvars, rtvars
  <2>3. \A q \in Ranks : Progress(q, T, b, e)' <=> Progress(q, T, b, e)
    BY <2>2 DEF Progress, Sends, Receives
  <2>4. \A s, d \in Ranks : UnderWay(s, d, T, b, e)' <=> UnderWay(s, d, T, b, e)
    BY <2>2 DEF UnderWay, Sent, Got
  <2>5. pc'[0] \in {"send", "recv", After, "stopped"} \cup (IF job.from = "file" THEN {"done"} ELSE {})
    BY <2>1, <2>2 DEF Moving, Calls
  <2>6. Progress(0, T, b, e)'
    BY <2>1, <2>3 DEF Moving
  <2>7. \A q \in Ranks : q # 0 /\ pc[q] # "stopped" => UnderWay(0, q, T, b, e)'
    BY <2>1, <2>4 DEF Moving
  <2>8. \A q \in Ranks : q # 0 /\ pc'[0] # "stopped" => UnderWay(q, 0, T, b, e)'
    BY <2>1, <2>2, <2>4 DEF Moving
  <2>9. Moving(T, b, e)'
    BY <2>1, <2>2, <2>5, <2>6, <2>7, <2>8, OneMoves
  <2>10. QED
    BY <2>9
<1>7. QED
  BY <1>1, <1>2, <1>3, <1>4, <1>5, <1>6, MovingMoves

\* The table lies in the file, or on the ranks.
LEMMA InitTable == Init => Types /\ TableInv
<1>1. SUFFICES ASSUME Init PROVE Types /\ TableInv
  OBVIOUS
<1>2. job \in FileJobs \/ job \in TableJobs
  BY <1>1, JobsAssumption DEF Init
<1>3. Types
  <2>1. job.from # "file" => job \in TableJobs
    BY <1>2 DEF FileJobs
  <2>2. OverRanks(X)
    <3>1. CASE job.from = "file"
      BY <1>1, <3>1 DEF Init, OverRanks
    <3>2. CASE job.from # "file"
      BY <1>1, <2>1, <3>2 DEF Init, OverRanks, TableJobs
    <3>3. QED
      BY <3>1, <3>2
  <2>3. OverRanks(pc) /\ OverRanks(ret) /\ OverRanks(todo) /\ OverRanks(net) /\ OverRanks(names)
    BY <1>1 DEF Init, OverRanks
  <2>4. \A s \in Ranks : OverRanks(net[s])
    BY <1>1 DEF Init, OverRanks
  <2>5. job \in Jobs /\ method \in Methods /\ turn \in Nat
    BY <1>1 DEF Init
  <2>6. QED
    BY <2>2, <2>3, <2>4, <2>5 DEF Types
<1>4. NothingSent
  BY <1>1 DEF Init, NothingSent
<1>5. CASE job.from = "file"
  <2>1. job \in FileJobs
    BY <1>3, <1>5, KindsOfJobs
  <2>2. PICK T \in Seq(Nat) : T = SourceRows
    BY <2>1, TableOfFile
  <2>3. /\ pred = NULL /\ turn = 0 /\ chunks = NULL /\ call = "load"
        /\ \A r \in Ranks : pc[r] = "start"
    BY <1>1, <1>5 DEF Init
  <2>4. Scattered => Small(T)
    BY <2>3 DEF Small
  <2>5. ~ Scattered => Large
    <3>1. turn \in Ranks
      BY <2>3, SizeAssumption DEF Ranks
    <3>2. \A r \in Ranks : ~ HasRead(r)
      BY <2>3, RanksAre DEF HasRead
    <3>3. QED
      BY <1>4, <1>5, <2>3, <3>1, <3>2 DEF Large
  <2>6. QED
    BY <1>3, <2>2, <2>4, <2>5 DEF TableInv
<1>6. CASE job.from # "file"
  <2>1. job.from = "ranks" /\ job \in TableJobs
    BY <1>3, <1>6, KindsOfJobs
  <2>2. X = job.rows /\ job.rows \in [Ranks -> Seq(Nat)]
    BY <1>1, <1>6, <2>1 DEF Init, TableJobs
  <2>3. SourceRows = AllRows(job.rows)
    BY <1>6 DEF SourceRows
  <2>4. PICK T \in Seq(Nat) : T = SourceRows
    BY <2>2, <2>3, TableIsCut
  <2>5. PICK b : Divides(b, T) /\ Lies(job.rows, T, b)
    <3>1. PICK rows \in [Ranks -> Seq(Nat)] : rows = job.rows
      BY <2>2
    <3>2. \E b : Divides(b, AllRows(rows)) /\ Lies(rows, AllRows(rows), b)
      BY TableIsCut
    <3>3. QED
      BY <2>3, <2>4, <3>1, <3>2
  <2>6. Ready(T, b)
    BY <1>1, <1>4, <1>6, <2>2, <2>5 DEF Init, Ready, OfLargeFile
  <2>7. QED
    BY <1>3, <2>4, <2>6 DEF TableInv
<1>7. QED
  BY <1>5, <1>6, <1>3

\* Every step keeps the invariant of the table.
LEMMA TableKept == ASSUME TableInv, Next \/ UNCHANGED vars PROVE TableInv'
<1>1. Types
  BY DEF TableInv
<1>2. PICK T \in Seq(Nat) : /\ T = SourceRows
                            /\ \/ Small(T) \/ Large \/ Dead
                               \/ \E b : Ready(T, b)
                               \/ \E b, e : Moving(T, b, e)
  BY DEF TableInv
<1>3. Types'
  BY <1>1, TypesKept
<1>4. T = SourceRows'
  BY <1>1, <1>2, JobStays, TableStays
<1>5. \/ Small(T)' \/ Large' \/ Dead'
      \/ \E b : Ready(T, b)'
      \/ \E b, e : Moving(T, b, e)'
  <2>1. CASE Small(T)
    BY <1>1, <1>2, <2>1, SmallKept
  <2>2. CASE Large
    BY <1>1, <1>2, <2>2, LargeKept
  <2>3. CASE Dead
    BY <2>3, DeadKept
  <2>4. ASSUME NEW b, Ready(T, b) PROVE Ready(T, b)' \/ Dead' \/ \E e : Moving(T, b, e)'
    BY <1>1, <2>4, ReadyKept
  <2>5. ASSUME NEW b, NEW e, Moving(T, b, e) PROVE Moving(T, b, e)' \/ Moving(T, e, b)' \/ Dead'
    BY <1>1, <2>5, MovingKept
  <2>6. QED
    BY <1>2, <2>1, <2>2, <2>3, <2>4, <2>5
<1>6. QED
  BY <1>3, <1>4, <1>5 DEF TableInv

\* Wherever the ranks are, the table of the source is scattered, read, or on its
\* way between the blocks of two cuts, in pieces of which none is lost or doubled.
THEOREM TableIsOnItsWay == Spec => []TableInv
<1>1. Init => TableInv
  BY InitTable
<1>2. TableInv /\ [Next]_vars => TableInv'
  BY TableKept
<1>3. QED
  BY <1>1, <1>2, PTL DEF Spec

------------------------------------------------------------------------------
(* The names                                                               *)

\* Who reads or receives, does it at its time.
LEMMA PlacesTell ==
  ASSUME TableInv, job.from = "file", NEW r \in Ranks
  PROVE  /\ pc[r] = "reading" => pred = PredictedLines /\ pred \in Nat
         /\ pc[r] = "recv" => turn > 0
<1>1. PICK T \in Seq(Nat) : /\ T = SourceRows
                            /\ \/ Small(T) \/ Large \/ Dead
                               \/ \E b : Ready(T, b)
                               \/ \E b, e : Moving(T, b, e)
  BY DEF TableInv
<1>2. Types
  BY DEF TableInv
<1>3. pc[r] = "reading" => Large
  <2>1. Small(T) \/ Dead \/ (\E b : Ready(T, b)) => pc[r] # "reading"
    BY DEF Small, Dead, Ready
  <2>2. (\E b, e : Moving(T, b, e)) => pc[r] # "reading"
    BY DEF Moving, Calls, After
  <2>3. QED
    BY <1>1, <2>1, <2>2
<1>4. Large /\ pc[r] = "reading" => pred = PredictedLines /\ pred \in Nat
  <2>1. SUFFICES ASSUME Large, pc[r] = "reading" PROVE pred = PredictedLines /\ pred \in Nat
    OBVIOUS
  <2>2. ~ (FileSize < MaxRead) /\ pred = PredictedLines
    BY <2>1 DEF Large, Scattered
  <2>3. job \in FileJobs
    BY <1>2, KindsOfJobs
  <2>4. QED
    BY <2>2, <2>3, PredictionIsANumber
<1>5. pc[r] = "recv" => turn > 0
  <2>1. SUFFICES ASSUME pc[r] = "recv" PROVE turn > 0
    OBVIOUS
  <2>2. ~ Small(T) /\ ~ Large /\ ~ Dead /\ ~ \E b : Ready(T, b)
    BY <2>1 DEF Small, Large, Dead, Ready
  <2>3. OfLargeFile
    BY <1>1, <2>2 DEF Moving, Calls
  <2>4. QED
    BY <2>3, SizeAssumption DEF OfLargeFile
<1>6. QED
  BY <1>3, <1>4, <1>5

NamesAreRead ==
  /\ said \in {NULL, NamesLeft}
  /\ pc[0] # "done" /\ (turn > 0 \/ pc[0] \in {"barrier", "names"}) => names[0] = NamesRead(0)
  /\ \A r \in Ranks : pc[r] = "done" => names[r] = NamesLeft

\* Every step keeps the names those of the header.
LEMMA NamesKept ==
  ASSUME TableInv, job.from = "file", NamesAreRead, Next \/ UNCHANGED vars
  PROVE  NamesAreRead'
<1>0. Types /\ 0 \in Ranks /\ turn \in Nat
  BY RootIsARank DEF TableInv, Types
<1>1. job' = job /\ shape' = shape
  BY <1>0, JobStays
<1>2. NamesRead(0)' = NamesRead(0) /\ NamesLeft' = NamesLeft
  BY <1>1 DEF NamesRead, NamesLeft
<1>3. names[0] = NamesRead(0) => Colnames(0) = NamesLeft
  BY DEF Colnames, NamesLeft
<1>4. CASE Split
  <2>1. CASE pc' = [pc EXCEPT ![0] = "stopped"] /\ names' = names
    BY <1>0, <1>2, <1>4, <2>1 DEF Split, NamesAreRead, Types, OverRanks
  <2>2. CASE pc' = [pc EXCEPT ![0] = "names"] /\ names' = [names EXCEPT ![0] = NamesRead(0)]
    BY <1>0, <1>2, <1>4, <2>2 DEF Split, NamesAreRead, Types, OverRanks
  <2>3. QED
    BY <1>4, <2>1, <2>2 DEF Split
<1>5. CASE Predict
  BY <1>0, <1>2, <1>5 DEF Predict, NamesAreRead, Types, OverRanks
<1>6. CASE SayNames
  <2>1. names[0] = NamesRead(0) /\ said' = NamesLeft
    BY <1>3, <1>6 DEF SayNames, NamesAreRead
  <2>2. /\ pc' = [pc EXCEPT ![0] = "done"] /\ names' = [names EXCEPT ![0] = NamesLeft]
        /\ turn' = turn
    BY <1>6, <2>1 DEF SayNames
  <2>3. QED
    BY <1>0, <1>2, <2>1, <2>2 DEF NamesAreRead, Types, OverRanks
<1>7. CASE NextTurn
  BY <1>0, <1>2, <1>7 DEF NextTurn, NamesAreRead
<1>8. ASSUME NEW r \in Ranks, Reading(r) PROVE NamesAreRead'
  <2>1. CASE TakeChunk(r)
    BY <1>0, <1>2, <2>1 DEF TakeChunk, NamesAreRead, Types, OverRanks
  <2>2. CASE TakePrediction(r)
    BY <1>0, <1>2, <2>2 DEF TakePrediction, NamesAreRead, Types, OverRanks, rtvars
  <2>3. CASE OpenFile(r)
    BY <1>0, <1>2, <2>3 DEF OpenFile, NamesAreRead, Types, OverRanks, rtvars
  <2>4. CASE CloseFile(r)
    <3>1. pc[r] = "reading" /\ said' = said /\ turn' = turn
      BY <2>4 DEF CloseFile
    <3>2. CASE MyJid(r) = NULL \/ ~ Readable(MySkip(r))
      BY <1>0, <1>2, <2>4, <3>1, <3>2 DEF CloseFile, NamesAreRead, Types, OverRanks
    <3>3. CASE ~ (MyJid(r) = NULL \/ ~ Readable(MySkip(r)))
      <4>1. /\ names' = [names EXCEPT ![r] = NamesRead(MySkip(r))]
            /\ pc' = [pc EXCEPT ![r] = "barrier"]
        BY <2>4, <3>3 DEF CloseFile
      <4>2. r = 0 => MySkip(r) = 0
        BY <3>1, <3>3, PlacesTell, RootReadsTheHeader
      <4>3. PICK v : v = NamesRead(MySkip(r))
        OBVIOUS
      <4>4. r = 0 => v = NamesRead(0)
        BY <4>2, <4>3
      <4>5. names' = [names EXCEPT ![r] = v]
        BY <4>1, <4>3
      <4>6. QED
        BY <1>0, <1>2, <3>1, <4>1, <4>4, <4>5 DEF NamesAreRead, Types, OverRanks
    <3>4. QED
      BY <3>2, <3>3
  <2>5. CASE LetRead(r)
    <3>1. r = 0 => turn > 0
      BY <1>0, <2>5 DEF LetRead
    <3>2. QED
      BY <1>0, <1>2, <2>5, <3>1 DEF LetRead, NamesAreRead, Types, OverRanks, rtvars
  <2>6. CASE TakeNames(r)
    BY <1>0, <1>2, <2>6 DEF TakeNames, NamesAreRead, Types, OverRanks
  <2>7. QED
    BY <1>8, <2>1, <2>2, <2>3, <2>4, <2>5, <2>6 DEF Reading
<1>9. CASE (EnterLoad \/ EnterUnload) /\ UNCHANGED rtvars
  <2>1. \A r \in Ranks : pc'[r] \in {"stopped", "send"}
    BY <1>9 DEF EnterLoad, EnterUnload
  <2>2. UNCHANGED <<said, turn, names>>
    BY <1>9 DEF rtvars
  <2>3. pc[0] \in {"balance", "unload"}
    BY <1>0, <1>9 DEF EnterLoad, EnterUnload
  <2>4. QED
    BY <1>0, <1>2, <2>1, <2>2, <2>3 DEF NamesAreRead
<1>10. ASSUME NEW r \in Ranks, Balancing(r), UNCHANGED rtvars PROVE NamesAreRead'
  <2>1. UNCHANGED <<said, turn, names>>
    BY <1>10 DEF rtvars
  <2>2. pc' = pc \/ pc' = [pc EXCEPT ![r] = "recv"] \/ pc' = [pc EXCEPT ![r] = "stopped"]
    BY <1>10 DEF Balancing, SendPiece, StartReceiving, RecvPiece, OwnPiece, Bind
  <2>3. pc[r] # "done"
    BY <1>10 DEF Balancing, SendPiece, StartReceiving, RecvPiece, OwnPiece
  <2>4. QED
    BY <1>0, <1>2, <2>1, <2>2, <2>3 DEF NamesAreRead, Types, OverRanks
<1>11. ASSUME NEW r \in Ranks, FinishBalance(r, After), UNCHANGED rtvars PROVE NamesAreRead'
  <2>1. UNCHANGED <<said, turn, names>> /\ pc[r] = "recv" /\ pc' = [pc EXCEPT ![r] = "names"]
    BY <1>11 DEF rtvars, FinishBalance, After
  <2>2. turn > 0
    BY <2>1, PlacesTell
  <2>3. QED
    BY <1>0, <1>2, <2>1, <2>2 DEF NamesAreRead, Types, OverRanks
<1>12. CASE UNCHANGED vars
  BY <1>0, <1>2, <1>12 DEF vars, lbvars, rtvars, NamesAreRead
<1>13. QED
  BY <1>4, <1>5, <1>6, <1>7, <1>8, <1>9, <1>10, <1>11, <1>12 DEF Next, Terminating

\* Although each rank takes the first line of its stretch for the header, a rank
\* that returns has the names of the header of the file, or none if the table
\* has one column.
THEOREM NamesAreThoseOfTheHeader == Spec => []NamesInv
<1>1. Init => NamesInv
  BY RootIsARank DEF Init, NamesInv
<1>2. TableInv /\ NamesInv /\ [Next]_vars => NamesInv'
  <2>1. SUFFICES ASSUME TableInv, NamesInv, Next \/ UNCHANGED vars, job'.from = "file"
                 PROVE  NamesAreRead'
    BY DEF NamesInv, NamesAreRead
  <2>2. job' = job
    BY <2>1, JobStays DEF TableInv
  <2>3. job.from = "file" /\ NamesAreRead
    BY <2>1, <2>2 DEF NamesInv, NamesAreRead
  <2>4. QED
    BY <2>1, <2>3, NamesKept
<1>3. QED
  BY <1>1, <1>2, TableIsOnItsWay, PTL DEF Spec

------------------------------------------------------------------------------
(* The results                                                             *)

\* Where the rows lie on the ranks once the table is spread.
SpreadAt(T, b) ==
  /\ T \in Seq(Nat) /\ T = SourceRows /\ Divides(b, T) /\ Lies(ret, T, b)
  /\ Scattered => Len(T) >= P /\ b = BlockCut(Len(T))
  /\ ~ Scattered => EvenCut(b, Len(T))

\* A table that has been spread lies on the ranks in the blocks of a cut,
\* which is that of get.jid() or of the method.
LEMMA SpreadLies == ASSUME TableInv, Spread PROVE \E T, b : SpreadAt(T, b)
<1>0. 0 \in Ranks
  BY RootIsARank
<1>1. PICK T \in Seq(Nat) : /\ T = SourceRows
                            /\ \/ Small(T) \/ Large \/ Dead
                               \/ \E b : Ready(T, b)
                               \/ \E b, e : Moving(T, b, e)
  BY DEF TableInv
<1>2. (\A r \in Ranks : pc[r] = "done") \/ (\A r \in Ranks : pc[r] = "unload")
  BY DEF Spread, Finished
<1>3. ~ Large /\ ~ Dead /\ ~ \E b : Ready(T, b)
  BY <1>0, <1>2 DEF Large, Dead, Ready
<1>4. CASE Small(T)
  <2>1. \A r \in Ranks : pc[r] = "done"
    BY <1>0, <1>2, <1>4 DEF Small
  <2>2. Scattered /\ Len(T) >= P /\ Lies(ret, T, BlockCut(Len(T)))
    BY <1>0, <1>4, <2>1 DEF Small, Lies
  <2>3. Divides(BlockCut(Len(T)), T)
    <3>1. Len(T) \in Nat
      OBVIOUS
    <3>2. Cut(BlockCut(Len(T))) /\ BlockCut(Len(T))[P] = Len(T)
      BY <3>1, BlockCutIs
    <3>3. QED
      BY <3>2 DEF Divides
  <2>4. SpreadAt(T, BlockCut(Len(T)))
    BY <1>1, <2>2, <2>3 DEF SpreadAt
  <2>5. QED
    BY <2>4
<1>5. ASSUME NEW b, NEW e, Moving(T, b, e) PROVE SpreadAt(T, e)
  <2>1. Lies(ret, T, e)
    BY <1>2, <1>5 DEF Moving, Progress, Lies
  <2>2. Divides(e, T)
    BY <1>5 DEF Moving, Cuts
  <2>3. ~ Scattered /\ call = "load"
    <3>1. OfLargeFile
      BY <1>5 DEF Moving, Calls
    <3>2. CASE job.from = "file"
      BY <3>1, <3>2 DEF OfLargeFile
    <3>3. CASE job.from # "file"
      <4>1. pc[0] = "unload"
        BY <1>0, <3>3 DEF Spread
      <4>2. pc[0] \in {"send", "recv", After, "stopped"}
        BY <1>0, <1>5, <3>3 DEF Moving, Calls
      <4>3. call = "load"
        BY <3>3, <4>1, <4>2 DEF After
      <4>4. QED
        BY <3>3, <4>3 DEF Scattered
    <3>4. QED
      BY <3>2, <3>3
  <2>4. EvenCut(e, Len(T))
    BY <1>5, <2>3 DEF Moving, Calls
  <2>5. QED
    BY <1>1, <2>1, <2>2, <2>3, <2>4 DEF SpreadAt
<1>6. QED
  BY <1>1, <1>3, <1>4, <1>5

\* How long the balanced blocks are
LEMMA BlocksDiffer ==
  ASSUME method \in {"block", "block0"}, NEW N \in Nat, NEW k \in 1..P, NEW l \in 1..P, k < l
  PROVE  /\ NewCounts(N)[k] \in Nat /\ NewCounts(N)[l] \in Nat
         /\ method = "block" => NewCounts(N)[l] - NewCounts(N)[k] \in {0, 1}
         /\ method = "block0" => NewCounts(N)[k] - NewCounts(N)[l] \in {0, 1}
<1> DEFINE n == N \div P
           m == N % P
<1>1. P \in Nat \ {0} /\ n \in Nat /\ m \in Nat /\ m < P
  BY RanksAre, Division
<1>2. method = "block" => NewCounts(N) = [i \in 1..P |-> IF i <= P - m THEN n ELSE n + 1]
  BY DEF NewCounts
<1>3. method = "block0" => NewCounts(N) = [i \in 1..P |-> IF i <= m THEN n + 1 ELSE n]
  BY DEF NewCounts
<1> HIDE DEF n, m
<1>4. CASE method = "block"
  <2>1. NewCounts(N)[k] = (IF k <= P - m THEN n ELSE n + 1)
        /\ NewCounts(N)[l] = (IF l <= P - m THEN n ELSE n + 1)
    BY <1>2, <1>4
  <2>2. QED
    BY <1>1, <1>4, <2>1
<1>5. CASE method = "block0"
  <2>1. NewCounts(N)[k] = (IF k <= m THEN n + 1 ELSE n)
        /\ NewCounts(N)[l] = (IF l <= m THEN n + 1 ELSE n)
    BY <1>3, <1>5
  <2>2. QED
    BY <1>1, <1>5, <2>1
<1>6. QED
  BY <1>4, <1>5

\* The blocks of "block.cyclic" are equal, but for the last one with a row.
LEMMA CyclesFall ==
  ASSUME method = "block.cyclic", NEW N \in Nat \ {0}, NEW k \in 1..P, NEW l \in 1..P, k < l
  PROVE  /\ NewCounts(N)[k] \in Nat /\ NewCounts(N)[l] \in Nat
         /\ NewCounts(N)[l] <= NewCounts(N)[k]
         /\ NewCounts(N)[l] > 0 => /\ NewCounts(N)[k] > 0
                                   /\ \A i \in 1..P : NewCounts(N)[i] <= NewCounts(N)[k]
<1> DEFINE c == CyclicSize(N)
           q == N \div c
           m == N % c
<1>1. c \in Nat \ {0}
  BY CyclicSizes
<1>2. q \in Nat /\ m \in Nat /\ m < c
  BY <1>1, Division
<1>3. NewCounts(N) = [i \in 1..P |-> IF i <= q THEN c ELSE IF i = q + 1 THEN m ELSE 0]
  BY DEF NewCounts, CyclicSize
<1> HIDE DEF c, q, m
<1>4. \A i \in 1..P : /\ NewCounts(N)[i] = (IF i <= q THEN c ELSE IF i = q + 1 THEN m ELSE 0)
                      /\ NewCounts(N)[i] \in Nat /\ NewCounts(N)[i] <= c
  BY <1>1, <1>2, <1>3
<1>5. CASE k <= q
  <2>1. NewCounts(N)[k] = c /\ c > 0
    BY <1>1, <1>4, <1>5
  <2>2. QED
    BY <1>4, <2>1
<1>6. CASE ~ (k <= q)
  <2>1. ~ (l <= q) /\ l # q + 1
    BY <1>2, <1>6
  <2>2. NewCounts(N)[l] = 0
    BY <1>4, <2>1
  <2>3. NewCounts(N)[k] \in Nat
    BY <1>4
  <2>4. QED
    BY <2>2, <2>3
<1>7. QED
  BY <1>5, <1>6

\* How long the block of a rank is
LEMMA BlockLengths ==
  ASSUME NEW T \in Seq(Nat), NEW b, Divides(b, T), Lies(ret, T, b), NEW r \in Ranks
  PROVE  /\ b[r] \in Nat /\ b[r + 1] \in Nat /\ ret[r] \in Seq(Nat)
         /\ Len(ret[r]) \in Nat /\ Len(ret[r]) = b[r + 1] - b[r]
<1>1. Cut(b) /\ b[P] = b[P] /\ b[P] = Len(T)
  BY DEF Divides
<1>2. b[r] \in Nat /\ b[r + 1] \in Nat /\ b[r] <= b[r + 1] /\ b[r + 1] <= b[P]
  BY <1>1, SharedPlaces
<1>3. PICK u \in Nat, v \in Nat : u = b[r] /\ v = b[r + 1] /\ u <= v /\ v <= Len(T)
  BY <1>1, <1>2
<1>4. IsPart(Part(T, u, v), T, u, v)
  BY <1>3, PartIs
<1>5. ret[r] = Part(T, u, v)
  BY <1>3 DEF Lies
<1>6. QED
  BY <1>3, <1>4, <1>5 DEF IsPart

\* The invariants say that the rows and the names are those of the source.
LEMMA InOrder == TableInv /\ NamesInv => RowsInOrder
<1>1. ASSUME TableInv, Spread PROVE AllRows(ret) = SourceRows
  <2>1. PICK T, b : SpreadAt(T, b)
    BY <1>1, SpreadLies
  <2>2. T \in Seq(Nat) /\ T = SourceRows /\ Divides(b, T) /\ Lies(ret, T, b)
    BY <2>1 DEF SpreadAt
  <2>3. AllRows(ret) = T
    BY <2>2, BlocksInARow
  <2>4. QED
    BY <2>2, <2>3
<1>2. ASSUME NamesInv, job.from = "file", Finished PROVE \A r \in Ranks : names[r] = NamesLeft
  BY <1>2 DEF NamesInv, Finished
<1>3. QED
  BY <1>1, <1>2 DEF RowsInOrder, NamesLeft

\* The table that comm.read.table() or comm.load.balance() leaves on the ranks is
\* the source in its order, with the names of its header, which a table of one
\* column has lost.
THEOREM RowsStayInOrder == Spec => []RowsInOrder
BY InOrder, TableIsOnItsWay, NamesAreThoseOfTheHeader, PTL

\* The sizes of the balanced blocks, as the method has them.
SizesDiffer ==
  \A r, s \in Ranks : r < s =>
    CASE method = "block"  -> Len(ret[s]) - Len(ret[r]) \in {0, 1}
      [] method = "block0" -> Len(ret[r]) - Len(ret[s]) \in {0, 1}
      [] method = "block.cyclic" ->
           Len(ret[s]) <= Len(ret[r]) /\ (Len(ret[s]) > 0 => ret[r] # <<>> /\
              \A t \in Ranks : Len(ret[t]) <= Len(ret[r]))

\* The blocks of the cut have the sizes that the method promises.
LEMMA SizesAreThoseOfTheMethod ==
  ASSUME method \in Methods, NEW T \in Seq(Nat), NEW e, Divides(e, T), Lies(ret, T, e), EvenCut(e, Len(T))
  PROVE  SizesDiffer
<1>1. PICK N \in Nat : N = Len(T)
  OBVIOUS
<1>2. PICK counts : counts = NewCounts(N)
  OBVIOUS
<1>3. ASSUME NEW r \in Ranks
      PROVE  /\ r + 1 \in 1..P /\ Len(ret[r]) = counts[r + 1] /\ counts[r + 1] \in Nat
             /\ ret[r] \in Seq(Nat)
  <2>1. r \in Nat /\ r + 1 \in 1..P
    BY RanksAre
  <2>2. e[r] \in Nat /\ e[r + 1] \in Nat /\ Len(ret[r]) = e[r + 1] - e[r] /\ ret[r] \in Seq(Nat)
    BY BlockLengths
  <2>3. \A k \in 1..P : e[k] = e[k - 1] + counts[k] /\ counts[k] \in Nat
    BY <1>1, <1>2 DEF EvenCut, CutFits
  <2>4. e[r + 1] = e[(r + 1) - 1] + counts[r + 1] /\ counts[r + 1] \in Nat
    BY <2>1, <2>3
  <2>5. (r + 1) - 1 = r
    BY <2>1
  <2>6. e[r + 1] = e[r] + counts[r + 1]
    BY <2>4, <2>5
  <2>7. PICK i \in Nat, j \in Nat, c \in Nat : i = e[r] /\ j = e[r + 1] /\ c = counts[r + 1]
    BY <2>2, <2>4
  <2>8. j - i = c
    BY <2>6, <2>7
  <2>9. QED
    BY <2>1, <2>2, <2>4, <2>7, <2>8
<1>4. SUFFICES ASSUME NEW r \in Ranks, NEW s \in Ranks, r < s
      PROVE  CASE method = "block"  -> Len(ret[s]) - Len(ret[r]) \in {0, 1}
               [] method = "block0" -> Len(ret[r]) - Len(ret[s]) \in {0, 1}
               [] method = "block.cyclic" ->
                    Len(ret[s]) <= Len(ret[r]) /\ (Len(ret[s]) > 0 => ret[r] # <<>> /\
                       \A t \in Ranks : Len(ret[t]) <= Len(ret[r]))
  BY DEF SizesDiffer
<1>5. PICK k \in 1..P, l \in 1..P : k = r + 1 /\ l = s + 1 /\ k < l
  BY <1>3, <1>4, RanksAre
<1>6. PICK x \in Nat, y \in Nat : /\ x = Len(ret[r]) /\ y = Len(ret[s])
                                  /\ x = counts[k] /\ y = counts[l]
  BY <1>3, <1>5
<1>7. x > 0 => ret[r] # <<>>
  <2>1. SUFFICES ASSUME ret[r] = <<>> PROVE x = 0
    OBVIOUS
  <2>2. Len(<<>>) = 0
    OBVIOUS
  <2>3. QED
    BY <1>6, <2>1, <2>2
<1>8. CASE method \in {"block", "block0"}
  <2>1. /\ method = "block" => y - x \in {0, 1}
        /\ method = "block0" => x - y \in {0, 1}
    BY <1>2, <1>5, <1>6, <1>8, BlocksDiffer
  <2>2. QED
    BY <1>6, <1>8, <2>1
<1>9. CASE method = "block.cyclic"
  <2>1. y <= x /\ (y > 0 => x > 0 /\ \A i \in 1..P : counts[i] <= x)
    <3>1. CASE N # 0
      BY <1>2, <1>5, <1>6, <1>9, <3>1, CyclesFall
    <3>2. CASE N = 0
      <4>1. Cut(e) /\ e[P] = e[P] /\ e[P] = 0
        BY <1>1, <3>2 DEF Divides
      <4>2. e[s] \in Nat /\ e[s + 1] \in Nat /\ e[s] <= e[s + 1] /\ e[s + 1] <= e[P]
        BY <4>1, SharedPlaces
      <4>3. y = e[s + 1] - e[s]
        BY <1>6, BlockLengths
      <4>4. PICK i \in Nat, j \in Nat : i = e[s] /\ j = e[s + 1] /\ i <= j /\ j <= 0
        BY <4>1, <4>2
      <4>5. y = 0
        BY <4>3, <4>4
      <4>6. QED
        BY <4>5
    <3>3. QED
      BY <3>1, <3>2
  <2>2. ASSUME y > 0, NEW t \in Ranks PROVE Len(ret[t]) <= x
    <3>1. t + 1 \in 1..P /\ Len(ret[t]) = counts[t + 1]
      BY <1>3
    <3>2. QED
      BY <2>1, <2>2, <3>1
  <2>3. Len(ret[s]) <= Len(ret[r]) /\ (Len(ret[s]) > 0 => ret[r] # <<>> /\
          \A t \in Ranks : Len(ret[t]) <= Len(ret[r]))
    BY <1>6, <1>7, <2>1, <2>2
  <2>4. method # "block" /\ method # "block0"
    BY <1>9
  <2>5. QED
    BY <1>9, <2>3, <2>4
<1>10. QED
  BY <1>8, <1>9 DEF Methods

\* The invariant says that the blocks are the shares.
LEMMA Shares == TableInv => SharesOfGetJid
<1>1. SUFFICES ASSUME TableInv, Spread
      PROVE  /\ Len(SourceRows) >= P /\ (Scattered \/ method # "block.cyclic") =>
                  \A r \in Ranks :
                    LET jid == JidVector(Len(SourceRows), IF Scattered THEN "block" ELSE method, P, r) IN
                    ret[r] = [i \in 1..Len(jid) |-> SourceRows[jid[i]]]
             /\ ~ Scattered => SizesDiffer
  BY DEF SharesOfGetJid, SizesDiffer
<1>2. PICK T, b : SpreadAt(T, b)
  BY <1>1, SpreadLies
<1>3. /\ T \in Seq(Nat) /\ T = SourceRows /\ Divides(b, T) /\ Lies(ret, T, b)
      /\ Scattered => b = BlockCut(Len(T))
      /\ ~ Scattered => EvenCut(b, Len(T))
  BY <1>2 DEF SpreadAt
<1>4. method \in Methods
  BY <1>1 DEF TableInv, Types
<1>5. ~ Scattered => SizesDiffer
  BY <1>3, <1>4, SizesAreThoseOfTheMethod
<1>6. ASSUME Len(T) >= P, Scattered \/ method # "block.cyclic", NEW r \in Ranks
      PROVE  LET jid == JidVector(Len(T), IF Scattered THEN "block" ELSE method, P, r) IN
             ret[r] = [i \in 1..Len(jid) |-> T[jid[i]]]
  <2>1. PICK way \in {"block", "block0"} : way = IF Scattered THEN "block" ELSE method
    BY <1>4, <1>6 DEF Methods
  <2>2. Len(T) \in Nat /\ P <= Len(T)
    BY <1>3, <1>6, RanksAre
  <2>3. /\ b[r] = Bound(Len(T), way = "block0", P, r)
        /\ b[r + 1] = Bound(Len(T), way = "block0", P, r + 1)
    <3>1. CASE Scattered
      <4>1. (way = "block0") = FALSE
        BY <2>1, <3>1
      <4>2. /\ BlockCut(Len(T))[r] = Bound(Len(T), FALSE, P, r)
            /\ BlockCut(Len(T))[r + 1] = Bound(Len(T), FALSE, P, r + 1)
        BY <2>2, BlockCutIs
      <4>3. QED
        BY <1>3, <3>1, <4>1, <4>2
    <3>2. CASE ~ Scattered
      <4>1. way = method
        BY <2>1, <3>2
      <4>2. \A q \in Nat : b[q] = Bound(Len(T), way = "block0", P, q)
        BY <1>3, <2>1, <3>2, <4>1 DEF EvenCut
      <4>3. r \in Nat /\ r + 1 \in Nat
        BY RanksAre
      <4>4. QED
        BY <4>2, <4>3
    <3>3. QED
      BY <3>1, <3>2
  <2>4. ret[r] = Part(T, b[r], b[r + 1])
    BY <1>3 DEF Lies
  <2>5. [i \in 1..Len(JidVector(Len(T), way, P, r)) |-> T[JidVector(Len(T), way, P, r)[i]]]
          = Part(T, Bound(Len(T), way = "block0", P, r), Bound(Len(T), way = "block0", P, r + 1))
    BY <1>3, <2>2, LookedUp
  <2>6. QED
    BY <2>1, <2>3, <2>4, <2>5
<1>7. QED
  BY <1>3, <1>5, <1>6

\* A balanced or scattered table has the blocks that man/ww_comm_balance.Rd
\* promises, and with a row for each rank those of get.jid().
THEOREM SharesAreThoseOfGetJid == Spec => []SharesOfGetJid
BY Shares, TableIsOnItsWay, PTL

\* The invariant says that the blocks are those of the job.
LEMMA Restored == TableInv => UnloadRestores
<1>1. SUFFICES ASSUME TableInv, job.from = "ranks", Finished PROVE ret = job.rows
  BY DEF UnloadRestores
<1>2. 0 \in Ranks /\ Types
  BY <1>1, RootIsARank DEF TableInv
<1>3. PICK T \in Seq(Nat) : \/ Small(T) \/ Large \/ Dead
                            \/ \E b : Ready(T, b)
                            \/ \E b, e : Moving(T, b, e)
  BY <1>1 DEF TableInv
<1>4. \A r \in Ranks : pc[r] = "done"
  BY <1>1 DEF Finished
<1>5. ~ Small(T) /\ ~ Large /\ ~ Dead /\ ~ \E b : Ready(T, b)
  BY <1>1, <1>2, <1>4 DEF Small, Scattered, Large, Dead, Ready
<1>6. PICK b, e : Moving(T, b, e)
  BY <1>3, <1>5
<1>7. call = "unload"
  <2>1. pc[0] \in {"send", "recv", After, "stopped"}
    BY <1>1, <1>2, <1>6 DEF Moving, Calls
  <2>2. QED
    BY <1>1, <1>2, <1>4, <1>6, <2>1 DEF After, Moving, Calls
<1>8. Lies(job.rows, T, e)
  BY <1>1, <1>6, <1>7 DEF Moving, Calls
<1>9. Lies(ret, T, e)
  BY <1>4, <1>6 DEF Moving, Progress, Lies
<1>10. \A r \in Ranks : ret[r] = job.rows[r]
  BY <1>8, <1>9 DEF Lies
<1>11. OverRanks(ret)
  BY <1>2 DEF Types
<1>12. job.rows \in [Ranks -> Seq(Nat)]
  BY <1>1, <1>2, KindsOfJobs DEF TableJobs
<1>13. QED
  BY <1>10, <1>11, <1>12 DEF OverRanks

\* comm.unload.balance() undoes comm.load.balance().
THEOREM UnloadingRestores == Spec => []UnloadRestores
BY Restored, TableIsOnItsWay, PTL
=============================================================================
