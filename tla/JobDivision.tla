---------------------------- MODULE JobDivision -----------------------------
(***************************************************************************)
(* get.jid() of R/api_tool.r: which of the jobs 1..n a rank of a           *)
(* communicator of size P is given, as a vector (or R's NULL: no job), for *)
(* one rank and for all of them.                                           *)
(***************************************************************************)
EXTENDS Integers, RList, SequencesExt

\* 1:count + (first - 1)
Stretch(first, count) == [k \in 1..count |-> first + k - 1]

\* "block0": the ranks below m take one job more.
Block0Vector(n, P, r) ==
  LET m == n % P IN
  IF r < m THEN Stretch(1 + r * (n \div P + 1), n \div P + 1)
           ELSE Stretch(1 + m * (n \div P + 1) + (r - m) * (n \div P), n \div P)

\* Slip: the ranks with one job more are the low ones.
BlockVector_LowFirst(n, P, r) == Block0Vector(n, P, r)

\* "block": the ranks from P - m on take one job more.
BlockVector(n, P, r) ==
  LET m == n % P IN
  IF r < P - m THEN Stretch(1 + r * (n \div P), n \div P)
               ELSE Stretch(1 + r * (n \div P + 1) - (P - m), n \div P + 1)

\* divide.job.vector()
JidVector(n, method, P, r) ==
  CASE n <= P /\ r < n -> <<r + 1>>
    [] n <= P /\ r >= n -> NULL
    [] n > P /\ method = "block" -> BlockVector(n, P, r)
    [] n > P /\ method = "block0" -> Block0Vector(n, P, r)
    [] n > P /\ method = "cycle" ->
         SelectSeq(Stretch(1, n), LAMBDA k : (k - 1) % P = r)

\* divide.job.all(): the assignment of NULL for a rank without a job removes
\* a slot of the list instead of filling it.
JidAll(n, method, P) ==
  LET list[i \in 0..P] ==
        IF i = 0 THEN EmptyList(P)
        ELSE ListAssign(list[i - 1], i, JidVector(n, method, P, i - 1)) IN
  list[P]
=============================================================================
