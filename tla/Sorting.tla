------------------------------ MODULE Sorting -------------------------------
(***************************************************************************)
(* What comm.sort() promises (man/xx_comm_sort.Rd): the values in the      *)
(* slots of all ranks are only moved among the slots, none is lost or made *)
(* up, and when a rank returns, its block is its part of the global order  *)
(* and nothing of it changes any more.                                     *)
(***************************************************************************)
EXTENDS Integers

CONSTANTS
  Ranks,
  NA      \* a missing value

VARIABLES
  order,     \* what the caller asks for, [decreasing, na.last]
  values,    \* values[p]: what is in slot p, a record [rank, index]
  returned   \* the ranks whose call has returned

Slots == DOMAIN values

\* p comes before q when the blocks of the ranks are put one after another.
Precedes(p, q) == p.rank < q.rank \/ (p.rank = q.rank /\ p.index < q.index)

\* "If TRUE, missing values in the data are put last; if FALSE, they are put
\* first", whatever the direction is.
Before(a, b) ==
  \/ a = NA /\ b # NA /\ ~ order.nalast
  \/ a # NA /\ b = NA /\ order.nalast
  \/ a # NA /\ b # NA /\ (IF order.decreasing THEN a > b ELSE a < b)

InPlace(p) ==
  \A q \in Slots : /\ Precedes(p, q) => ~ Before(values[q], values[p])
                   /\ Precedes(q, p) => ~ Before(values[p], values[q])

Init == returned = {}

Exchange(p, q) ==
  /\ {p.rank, q.rank} \cap returned = {}
  /\ values' = [values EXCEPT ![p] = values[q], ![q] = values[p]]

Return(S) ==
  /\ returned' = returned \cup S
  /\ \A p \in Slots : p.rank \in S => InPlace(p)'

\* A rank may return with the exchange that puts the last element in place.
Next ==
  /\ UNCHANGED values \/ \E p, q \in Slots : Exchange(p, q)
  /\ \E S \in SUBSET (Ranks \ returned) : Return(S)
  /\ UNCHANGED order

Spec == Init /\ [][Next]_<<order, values, returned>>
=============================================================================
