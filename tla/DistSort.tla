------------------------------ MODULE DistSort ------------------------------
(***************************************************************************)
(* comm.sort(): one quicksort over a vector that lies in blocks on all     *)
(* ranks.  R/comm_sort.r prepares the blocks; src/comm_sort_integer.c and  *)
(* src/comm_sort_double.c, which differ in the type of an element only,    *)
(* sort them.  Every rank runs the whole recursion and keeps its own copy  *)
(* of every index; the ranks agree because each comparison is made by the  *)
(* rank that holds the element and broadcast.  An exchange of two elements *)
(* concerns the ranks that hold them, the others pass it by.               *)
(*                                                                         *)
(* A step of a rank goes up to its next communication.                     *)
(***************************************************************************)
EXTENDS Integers, Sequences, FiniteSetsExt

CONSTANTS
  P,       \* comm.size(); the ranks are 0..P-1
  NA,      \* a missing value
  Inputs   \* the arguments, [kind, x, decreasing, nalast], kind and x by rank

ASSUME SizeAssumption == P \in Nat \ {0}

Ranks == 0..(P - 1)
Kinds == {"NULL", "integer", "double", "character"}
Values == Int \cup {NA}

ASSUME NAAssumption == NA \notin Int
ASSUME InputsAssumption ==
  \A in \in Inputs :
    /\ in.kind \in [Ranks -> Kinds] /\ in.x \in [Ranks -> Seq(Values)]
    /\ in.decreasing \in BOOLEAN /\ in.nalast \in {"TRUE", "FALSE", "NA"}
    /\ \A r \in Ranks : in.kind[r] = "NULL" => in.x[r] = <<>>

VARIABLES
  input,    \* the arguments of this call
  n_all,    \* n_all[r]: the length of r's block
  array,    \* array[p]: the element in slot p
  at,       \* at[r]: where rank r is, and its local variables
  bcast,    \* bcast[r]: the broadcasts that r has not joined yet, oldest first
  channel   \* channel[s][d]: the elements sent from s to d, oldest first

vars == <<input, n_all, array, at, bcast, channel>>

------------------------------------------------------------------------------
(* Slots, [rank, index].  Empty ranks have none.                           *)

Slot(r, i) == [rank |-> r, index |-> i]
Slots == UNION {{Slot(r, i) : i \in 0..(n_all[r] - 1)} : r \in Ranks}
Precedes(p, q) == p.rank < q.rank \/ (p.rank = q.rank /\ p.index < q.index)
LastSlot(r) == Slot(r, n_all[r] - 1)
NonEmpty(lo, hi) == {r \in lo..hi : n_all[r] # 0}

\* Slip: an empty rank is not skipped.
Following_IntoEmpty(p, right) ==
  IF p.index + 1 <= n_all[p.rank] - 1 THEN Slot(p.rank, p.index + 1)
  ELSE IF p.rank + 1 <= right.rank THEN Slot(p.rank + 1, 0) ELSE Slot(p.rank, 0)

\* The slot after p, not beyond the rank of right.
Following(p, right) ==
  LET later == NonEmpty(p.rank + 1, right.rank) IN
  IF p.index + 1 <= n_all[p.rank] - 1 THEN Slot(p.rank, p.index + 1)
  ELSE Slot(IF later = {} THEN p.rank ELSE Min(later), 0)

Pivot(left, right) ==
  LET middle == left.rank + (right.rank - left.rank) \div 2
      rank == IF n_all[middle] # 0 THEN middle ELSE Min(NonEmpty(left.rank, right.rank))
  IN Slot(rank,
       CASE left.rank = right.rank -> left.index + (right.index - left.index) \div 2
         [] left.rank # right.rank /\ rank = left.rank ->
              left.index + (n_all[rank] - 1 - left.index) \div 2
         [] left.rank # right.rank /\ rank # left.rank /\ rank = right.rank ->
              right.index \div 2
         [] OTHER -> (n_all[rank] - 1) \div 2)

\* A call of api_isort(), unless it has nothing to sort and returns at once.
Stretch(left, right) == [left |-> left, right |-> right]
Recursion(left, right) == IF Precedes(left, right) THEN <<Stretch(left, right)>> ELSE <<>>

\* The two recursive calls, for the stretches before and after the slot ret in
\* which the pivot has come to lie.
LeftPart(left, ret) ==
  LET earlier == NonEmpty(left.rank, ret.rank - 1) IN
  CASE ret.index # 0 -> Recursion(left, Slot(ret.rank, ret.index - 1))
    [] ret.index = 0 /\ earlier # {} -> Recursion(left, LastSlot(Max(earlier)))
    [] OTHER -> <<>>
RightPart(right, ret) ==
  LET later == NonEmpty(ret.rank + 1, right.rank) IN
  CASE ret.index # n_all[ret.rank] - 1 -> Recursion(Slot(ret.rank, ret.index + 1), right)
    [] ret.index = n_all[ret.rank] - 1 /\ later # {} -> Recursion(Slot(Min(later), 0), right)
    [] OTHER -> <<>>

\* Slip: the pivot's slot is sorted again.
Parts_WithPivot(left, right, ret) ==
  LeftPart(left, ret) \o Recursion(ret, right)

\* Slip: an empty rank before the pivot ends the left part.
Parts_StopsAtEmpty(left, right, ret) ==
  (IF ret.index = 0 /\ (ret.rank = 0 \/ n_all[ret.rank - 1] = 0)
   THEN <<>> ELSE LeftPart(left, ret)) \o RightPart(right, ret)

Parts(left, right, ret) == LeftPart(left, ret) \o RightPart(right, ret)

------------------------------------------------------------------------------
(* api_icmp_increasing() and api_icmp_decreasing()                         *)

nalast == input.nalast # "FALSE"   \* asLogical(NA) is not zero

Increasing(a, b) ==
  CASE a = NA /\ b = NA -> 0
    [] a = NA /\ b # NA -> IF nalast THEN 1 ELSE -1
    [] a # NA /\ b = NA -> IF nalast THEN -1 ELSE 1
    [] OTHER -> IF a < b THEN -1 ELSE IF a > b THEN 1 ELSE 0

\* The decreasing comparison is the increasing one with every sign turned.
Compare(a, b) == IF input.decreasing THEN -Increasing(a, b) ELSE Increasing(a, b)

------------------------------------------------------------------------------
(* R/comm_sort.r                                                           *)

\* x[! is.na(x)]
NotMissing(x) ==
  LET kept[k \in 0..Len(x)] ==
        IF k = 0 THEN <<>> ELSE IF x[k] = NA THEN kept[k - 1] ELSE Append(kept[k - 1], x[k])
  IN kept[Len(x)]

\* y: x, without the missing values for na.last = NA.
Block(in, r) == IF in.nalast = "NA" THEN NotMissing(in.x[r]) ELSE in.x[r]

\* spmd.allcheck.type(): all integer, all double, or integers made double.
Type(r) ==
  LET integer(q) == input.kind[q] \in {"NULL", "integer"}
      alike == (\A q \in Ranks : integer(q)) \/ (\A q \in Ranks : input.kind[q] = "double")
  IN IF integer(r) THEN IF alike THEN "integer" ELSE "double" ELSE input.kind[r]

\* UseMethod() picks the method for the type that x has got, but hands it the x
\* of the caller: api_R_rsort() refuses integers, and the default method calls
\* comm.stop().
Stops(r) == Type(r) = "character" \/ (Type(r) = "double" /\ input.kind[r] = "integer")

------------------------------------------------------------------------------
(* The control of a rank                                                   *)

Nowhere == Slot(0, 0)
Local(pc, todo) ==
  [pc |-> pc, todo |-> todo, left |-> Nowhere, right |-> Nowhere, i |-> Nowhere,
   ret |-> Nowhere, pivot |-> NA, from |-> Nowhere, to |-> Nowhere, then |-> "sort"]

\* The next call of api_isort() that has something to sort.
Sort(todo) == Local(IF todo = <<>> THEN "done" ELSE "sort", todo)

Exchange(l, from, to, then) ==
  [l EXCEPT !.pc = "swap", !.from = from, !.to = to, !.then = then]

\* The next turn of the loop over i, or the exchange after it.
Scan(l) ==
  IF l.i = l.right THEN Exchange(l, l.ret, l.right, "sort") ELSE [l EXCEPT !.pc = "scan"]

\* What follows an exchange.
Continue(l) ==
  CASE l.then = "scan" -> Scan([l EXCEPT !.i = l.left, !.ret = l.left])
    [] l.then = "next" ->
         Scan([l EXCEPT !.i = Following(l.i, l.right), !.ret = Following(l.ret, l.right)])
    [] l.then = "sort" -> Sort(Parts(l.left, l.right, l.ret) \o l.todo)

\* api_ipartition() with the pivot's value, up to its first exchange.
Partition(l, value) ==
  LET part == Head(l.todo) IN
  Exchange([l EXCEPT !.todo = Tail(l.todo), !.left = part.left, !.right = part.right,
                     !.pivot = value],
           Pivot(part.left, part.right), part.right, "scan")

\* Slip: an element equal to the pivot goes before it.
Compared_Loose(l, check) ==
  IF check # 1 THEN Exchange(l, l.i, l.ret, "next")
  ELSE Scan([l EXCEPT !.i = Following(l.i, l.right)])

\* What follows a comparison.
Compared(l, check) ==
  IF check = -1 THEN Exchange(l, l.i, l.ret, "next")
  ELSE Scan([l EXCEPT !.i = Following(l.i, l.right)])

Set(f, r, v) == [f EXCEPT ![r] = v]

------------------------------------------------------------------------------
Init ==
  /\ input \in Inputs
  /\ n_all = [r \in Ranks |-> Len(Block(input, r))]
  /\ array = [p \in Slots |-> Block(input, p.rank)[p.index + 1]]
  /\ at = [r \in Ranks |-> Local("enter", <<>>)]
  /\ bcast = [r \in Ranks |-> <<>>]
  /\ channel = [s \in Ranks |-> [d \in Ranks |-> <<>>]]

\* The allreduces of R/comm_sort.r and the allgather of the lengths: no rank
\* leaves them before all have entered.  If all blocks are empty on several
\* ranks, api_isort() reads and writes outside the arrays.
Enter ==
  LET all == NonEmpty(0, P - 1)
      start == IF all = {} THEN Local(IF P = 1 THEN "done" ELSE "undefined", <<>>)
               ELSE Sort(Recursion(Slot(Min(all), 0), LastSlot(Max(all))))
  IN /\ \A r \in Ranks : at[r].pc = "enter"
     /\ at' = [r \in Ranks |->
          IF Stops(r) THEN Local("stopped", <<>>)
          ELSE IF \E q \in Ranks : Stops(q) THEN at[r] ELSE start]
     /\ UNCHANGED <<input, n_all, array, bcast, channel>>

\* MPI_Bcast by rank r, which need not wait for the others.
Tell(r, v) ==
  /\ bcast[r] = <<>>
  /\ bcast' = [q \in Ranks |-> IF q = r THEN <<>> ELSE Append(bcast[q], [root |-> r, value |-> v])]

\* MPI_Bcast of the value of another rank.
Hears(r, root) == root # r /\ bcast[r] # <<>> /\ Head(bcast[r]).root = root
Hear(r) == bcast' = Set(bcast, r, Tail(bcast[r]))

NextPivot(r) == Pivot(Head(at[r].todo).left, Head(at[r].todo).right)

TellPivot(r) ==
  /\ at[r].pc = "sort"
  /\ NextPivot(r).rank = r
  /\ Tell(r, array[NextPivot(r)])
  /\ at' = Set(at, r, Partition(at[r], array[NextPivot(r)]))
  /\ UNCHANGED <<input, n_all, array, channel>>

HearPivot(r) ==
  /\ at[r].pc = "sort"
  /\ Hears(r, NextPivot(r).rank)
  /\ Hear(r)
  /\ at' = Set(at, r, Partition(at[r], Head(bcast[r]).value))
  /\ UNCHANGED <<input, n_all, array, channel>>

\* The rank that holds element i compares it with the pivot.
TellCheck(r) ==
  LET check == Compare(array[at[r].i], at[r].pivot) IN
  /\ at[r].pc = "scan"
  /\ at[r].i.rank = r
  /\ Tell(r, check)
  /\ at' = Set(at, r, Compared(at[r], check))
  /\ UNCHANGED <<input, n_all, array, channel>>

\* Slip: a rank whose elements stay where they are does not move the boundary.
HearCheck_OwnOnly(r) ==
  /\ at[r].pc = "scan"
  /\ Hears(r, at[r].i.rank)
  /\ Hear(r)
  /\ at' = Set(at, r, Compared(at[r], IF at[r].ret.rank = r THEN Head(bcast[r]).value ELSE 0))
  /\ UNCHANGED <<input, n_all, array, channel>>

HearCheck(r) ==
  /\ at[r].pc = "scan"
  /\ Hears(r, at[r].i.rank)
  /\ Hear(r)
  /\ at' = Set(at, r, Compared(at[r], Head(bcast[r]).value))
  /\ UNCHANGED <<input, n_all, array, channel>>

------------------------------------------------------------------------------
(* api_iswap()                                                             *)

\* Both elements are r's, or neither is.
SwapAtHome(r) ==
  LET l == at[r] IN
  /\ l.pc = "swap"
  /\ l.from.rank = l.to.rank \/ r \notin {l.from.rank, l.to.rank}
  /\ array' = IF r = l.from.rank
              THEN [array EXCEPT ![l.from] = array[l.to], ![l.to] = array[l.from]]
              ELSE array
  /\ at' = Set(at, r, Continue(l))
  /\ UNCHANGED <<input, n_all, bcast, channel>>

\* An element under way, and for which exchange it is sent (the code has only
\* the tag, which is the rank it goes to).
Element(v, l) == [value |-> v, from |-> l.from, to |-> l.to]

\* Slip: the answer is not waited for.
Give_NoWait(r) ==
  LET l == at[r]
      d == l.to.rank
  IN /\ l.pc = "swap"
     /\ l.from.rank = r /\ d # r
     /\ channel' = [channel EXCEPT ![r][d] = Append(@, Element(array[l.from], l))]
     /\ at' = Set(at, r, Continue(l))
     /\ UNCHANGED <<input, n_all, array, bcast>>

\* The rank that holds "from" sends its element first, and then waits.
Give(r) ==
  LET l == at[r]
      d == l.to.rank
  IN /\ l.pc = "swap"
     /\ l.from.rank = r /\ d # r
     /\ channel' = [channel EXCEPT ![r][d] = Append(@, Element(array[l.from], l))]
     /\ at' = Set(at, r, [l EXCEPT !.pc = "await"])
     /\ UNCHANGED <<input, n_all, array, bcast>>

\* The other rank receives into tmp_value, sends its own element and stores.
Answer(r) ==
  LET l == at[r]
      s == l.from.rank
  IN /\ l.pc = "swap"
     /\ l.to.rank = r /\ s # r
     /\ channel[s][r] # <<>>
     /\ channel' = [channel EXCEPT ![s][r] = Tail(@), ![r][s] = Append(@, Element(array[l.to], l))]
     /\ array' = [array EXCEPT ![l.to] = Head(channel[s][r]).value]
     /\ at' = Set(at, r, Continue(l))
     /\ UNCHANGED <<input, n_all, bcast>>

Take(r) ==
  LET l == at[r]
      s == l.to.rank
  IN /\ l.pc = "await"
     /\ channel[s][r] # <<>>
     /\ channel' = [channel EXCEPT ![s][r] = Tail(@)]
     /\ array' = [array EXCEPT ![l.from] = Head(channel[s][r]).value]
     /\ at' = Set(at, r, Continue(l))
     /\ UNCHANGED <<input, n_all, bcast>>

------------------------------------------------------------------------------
Step(r) ==
  \/ TellPivot(r) \/ HearPivot(r) \/ TellCheck(r) \/ HearCheck(r)
  \/ SwapAtHome(r) \/ Give(r) \/ Answer(r) \/ Take(r)

Finished == \A r \in Ranks : at[r].pc = "done"
Terminating ==
  /\ Finished \/ \E r \in Ranks : at[r].pc \in {"stopped", "undefined"}
  /\ UNCHANGED vars

Next == Enter \/ (\E r \in Ranks : Step(r)) \/ Terminating

\* A rank may be held in a send until the element is received, and in a
\* broadcast until every rank has joined it.
Released(r) ==
  /\ \A d \in Ranks : channel[r][d] = <<>>
  /\ \A q \in Ranks : Len(bcast[q]) <= Len(bcast[r])

Fairness == WF_vars(Enter) /\ \A r \in Ranks : WF_vars(Released(r) /\ Step(r))

Spec == Init /\ [][Next]_vars /\ Fairness

------------------------------------------------------------------------------
(* Properties                                                              *)

InOrder(p, q) == p = q \/ Precedes(p, q)
Places == {"enter", "sort", "scan", "swap", "await", "done", "stopped", "undefined"}

\* Every slot that the calls left to do name is a slot of some rank.
StretchOK(part) == part.left \in Slots /\ part.right \in Slots /\ Precedes(part.left, part.right)

\* No rank's indices leave the arrays: in the loop of the partition the boundary
\* ret never overtakes the element i, both stay between left and right, and a
\* recursive call has a stretch of existing slots, whichever ranks are empty.
LocalOK(l) ==
  /\ l.pc \in Places
  /\ \A k \in 1..Len(l.todo) : StretchOK(l.todo[k])
  /\ l.pc = "sort" => l.todo # <<>>
  /\ l.pc \in {"scan", "swap", "await"} =>
       /\ StretchOK(Stretch(l.left, l.right))
       /\ {l.from, l.to} \subseteq Slots
       /\ l.pivot \in Values
  /\ l.pc = "scan" \/ (l.pc \in {"swap", "await"} /\ l.then \in {"next", "sort"}) =>
       /\ {l.i, l.ret} \subseteq Slots
       /\ InOrder(l.left, l.ret) /\ InOrder(l.ret, l.i) /\ InOrder(l.i, l.right)
  /\ l.pc = "scan" => l.i # l.right
  /\ l.pc \in {"swap", "await"} /\ l.then = "next" => l.i # l.right

TypeOK ==
  /\ n_all \in [Ranks -> Nat]
  /\ array \in [Slots -> Values]
  /\ \A r \in Ranks : LocalOK(at[r])

\* Where the rank will be at its next broadcast, or at the end.
Settled(l) ==
  LET m == IF l.pc \in {"swap", "await"} THEN Continue(l) ELSE l
  IN IF m.pc = "swap" THEN Continue(m) ELSE m

\* The ranks never lose step: two ranks that have joined the same broadcasts are
\* on the way to the same next one, with the same indices and the same stack of
\* recursive calls, although each computes them for itself.
InStep ==
  \A q, r \in {r \in Ranks : at[r].pc # "stopped"} :
    Len(bcast[q]) = Len(bcast[r]) => Settled(at[q]) = Settled(at[r])

\* A tag only tells which rank an element goes to: the element that a rank
\* receives was nevertheless sent for the very exchange in which it receives it,
\* and nothing is left in a channel at the end.
ExchangesMatch ==
  \A s, d \in Ranks : channel[s][d] # <<>> =>
    LET m == Head(channel[s][d])
        l == at[d]
    IN /\ l.pc # "done"
       /\ \/ l.pc = "swap" /\ l.to.rank = d /\ l.from.rank = s
          \/ l.pc = "await" /\ l.from.rank = d /\ l.to.rank = s
          => <<m.from, m.to>> = <<l.from, l.to>>

\* What is in slot p for the ranks together: an exchange takes place when the
\* rank of "to" answers, and the answer is under way for a while.
Present(p) ==
  LET l == at[p.rank] IN
  IF l.pc = "await" /\ l.from = p /\ channel[l.to.rank][p.rank] # <<>>
  THEN Head(channel[l.to.rank][p.rank]).value ELSE array[p]

\* The invariant of the quicksort, over the blocks of all ranks: when the ranks
\* meet at a comparison, the elements from left to ret are before the pivot,
\* those from ret to i are not, and the pivot is at the right end; and whatever
\* lies outside of a stretch yet to be sorted is on its right side.
PartitionHolds ==
  \A r \in Ranks :
    LET l == at[r]
        apart(part) ==
          \A p, q \in Slots :
            /\ Precedes(p, part.left) /\ InOrder(part.left, q) => Compare(array[p], array[q]) # 1
            /\ InOrder(p, part.right) /\ Precedes(part.right, q) => Compare(array[p], array[q]) # 1
    IN (\A q \in Ranks : at[q] = l /\ bcast[q] = <<>>) =>
         /\ \A k \in 1..Len(l.todo) : apart(l.todo[k])
         /\ l.pc = "scan" =>
              /\ apart(Stretch(l.left, l.right))
              /\ array[l.right] = l.pivot
              /\ \A p \in Slots :
                   /\ InOrder(l.left, p) /\ Precedes(p, l.ret) => Compare(array[p], l.pivot) = -1
                   /\ InOrder(l.ret, p) /\ Precedes(p, l.i) => Compare(array[p], l.pivot) # -1

\* The promise of man/xx_comm_sort.Rd.
Documented ==
  INSTANCE Sorting WITH
    order <- [decreasing |-> input.decreasing, nalast |-> input.nalast # "FALSE"],
    values <- [p \in Slots |-> Present(p)],
    returned <- {r \in Ranks : at[r].pc = "done"}
ImplementsSorting == Documented!Spec

\* Unless a rank is stopped by its argument, or nobody has an element, every
\* rank returns, even if no send returns before it is received and no broadcast
\* before all have joined it.
EveryoneReturns ==
  \/ \E r \in Ranks : Stops(r)
  \/ NonEmpty(0, P - 1) = {}
  \/ <>Finished
=============================================================================
