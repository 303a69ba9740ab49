---------------------------- MODULE LoadBalance -----------------------------
(***************************************************************************)
(* comm.balance.info(), comm.load.balance() and comm.unload.balance() of   *)
(* R/comm_balance.r: a table lies in row blocks on the ranks; its rows are *)
(* exchanged so that the blocks have the sizes a method prescribes, and    *)
(* back.  A row is the number that identifies it.                          *)
(*                                                                         *)
(* Both functions start with collective checks (an allreduce), so no rank  *)
(* is in one call while another is still in the call before it: the ranks  *)
(* enter together.  Then they run on their own, with isend() and recv().   *)
(***************************************************************************)
EXTENDS Integers, SequencesExt, FiniteSets

CONSTANT P   \* comm.size(); the ranks are 0..P-1

ASSUME SizeAssumption == P \in Nat \ {0}

Ranks == 0..(P - 1)
Methods == {"block", "block0", "block.cyclic"}

\* What X.gbd is on every rank: a data frame of several columns, of one
\* column, or a matrix with column names.
Shapes == {"frame", "column", "matrix"}

VARIABLES
  shape,    \* what kind of table X.gbd is
  call,     \* "load" or "unload", which of the two functions the ranks are in
  method,   \* argument balance.method
  pc,       \* pc[r]: where rank r is
  X,        \* X[r]: the rows of r's argument X.gbd
  info,     \* bal.info, the same on every rank
  todo,     \* todo[r]: the rest of send.to or recv.from in r's loop
  ret,      \* ret[r]: r's variable "ret"
  net       \* net[s][d]: row blocks sent from s to d, oldest first

lbvars == <<shape, call, method, pc, X, info, todo, ret, net>>

------------------------------------------------------------------------------
(* R's vectors                                                             *)

\* rep(0:(P - 1), times)
RepRanks(times) == FlattenSeq([k \in 1..P |-> [i \in 1..times[k] |-> k - 1]])

Total(counts) ==
  LET sum[k \in 0..Len(counts)] == IF k = 0 THEN 0 ELSE sum[k - 1] + counts[k] IN
  sum[Len(counts)]

\* unique(): the values in the order of their first appearance
Unique(s) ==
  LET first[k \in 0..Len(s)] ==
        IF k = 0 THEN <<>>
        ELSE IF \E j \in 1..(k - 1) : s[j] = s[k] THEN first[k - 1] ELSE Append(first[k - 1], s[k]) IN
  first[Len(s)]

\* a[b == v]
Where(a, b, v) ==
  LET some[k \in 0..Len(b)] ==
        IF k = 0 THEN <<>> ELSE IF b[k] = v THEN Append(some[k - 1], a[k]) ELSE some[k - 1] IN
  some[Len(b)]

\* Does X.gbd[rows, ] of k rows drop its dimensions, so that
\* colnames(tmp) <- colnames(X.gbd) is an error?
Flattened(k) == shape = "column" \/ (shape = "matrix" /\ k = 1)

------------------------------------------------------------------------------
(* comm.balance.info()                                                     *)

\* new.N.allgbd for N rows in all
NewCounts(N) ==
  LET n == N \div P
      m == N % P
      c == (N + P - 1) \div P IN      \* ceiling(N / P)
  CASE method = "block"  -> [k \in 1..P |-> IF k <= P - m THEN n ELSE n + 1]
    [] method = "block0" -> [k \in 1..P |-> IF k <= m THEN n + 1 ELSE n]
    [] method = "block.cyclic" ->
         [k \in 1..P |-> IF k <= N \div c THEN c ELSE IF k = N \div c + 1 THEN N % c ELSE 0]

\* Without a single row "block.cyclic" divides zero by zero.
Undivided(counts) == method = "block.cyclic" /\ Total(counts) = 0

BalanceInfo(counts) ==
  [org    |-> RepRanks(counts),
   belong |-> RepRanks(NewCounts(Total(counts))),
   old    |-> counts,
   new    |-> NewCounts(Total(counts))]

\* Slip: the sizes of the blocks are not exchanged.
Reversed_KeepsSizes(i) ==
  [org |-> i.belong, belong |-> i.org, old |-> i.old, new |-> i.new]

\* rev.bal.info of comm.unload.balance()
Reversed(i) ==
  [org |-> i.belong, belong |-> i.org, old |-> i.new, new |-> i.old]

\* bal.info$send$belong and bal.info$recv$org of rank r
SendBelong(r) == Where(info.belong, info.org, r)
RecvOrg(r)    == Where(info.org, info.belong, r)

------------------------------------------------------------------------------
(* comm.load.balance()                                                     *)

\* The checks, and comm.balance.info() where the caller gave no bal.info.
EnterLoad ==
  LET counts == [k \in 1..P |-> Len(X[k - 1])] IN
  /\ \A r \in Ranks : pc[r] = "balance"
  /\ call' = "load"
  /\ IF Undivided(counts)
     THEN /\ pc' = [r \in Ranks |-> "stopped"]
          /\ UNCHANGED <<info, todo>>
     ELSE /\ info' = BalanceInfo(counts)
          /\ pc' = [r \in Ranks |-> "send"]
          /\ todo' = [r \in Ranks |-> Unique(Where(info'.belong, info'.org, r))]
  /\ UNCHANGED <<shape, method, X, ret, net>>

\* comm.unload.balance(): the blocks that came out go in again.  A table of one
\* column comes out only without a row, as the vector ret[0, ]: ncol() of it is
\* NULL, and the check on it fails on every rank.
EnterUnload ==
  /\ \A r \in Ranks : pc[r] = "unload"
  /\ call' = "unload"
  /\ X' = ret
  /\ info' = Reversed(info)
  /\ IF shape = "column"
     THEN /\ pc' = [r \in Ranks |-> "stopped"]
          /\ UNCHANGED todo
     ELSE /\ pc' = [r \in Ranks |-> "send"]
          /\ todo' = [r \in Ranks |-> Unique(Where(info'.belong, info'.org, r))]
  /\ UNCHANGED <<shape, method, ret, net>>

\* X.gbd[bal.info$send$belong == d, ]
Piece(r, d) == Where(X[r], SendBelong(r), d)

\* One turn of the loop over send.to: nothing is sent to the rank itself.
SendPiece(r) ==
  /\ pc[r] = "send"
  /\ todo[r] # <<>>
  /\ LET d == Head(todo[r]) IN
     net' = IF d = r THEN net ELSE [net EXCEPT ![r][d] = Append(@, Piece(r, d))]
  /\ todo' = [todo EXCEPT ![r] = Tail(@)]
  /\ UNCHANGED <<shape, call, method, pc, X, info, ret>>

\* recv.from is next; without any source, ret <- X.gbd.
StartReceiving(r) ==
  /\ pc[r] = "send"
  /\ todo[r] = <<>>
  /\ pc' = [pc EXCEPT ![r] = "recv"]
  /\ todo' = [todo EXCEPT ![r] = Unique(RecvOrg(r))]
  /\ ret' = [ret EXCEPT ![r] = IF RecvOrg(r) = <<>> THEN X[r] ELSE <<>>]
  /\ UNCHANGED <<shape, call, method, X, info, net>>

\* Bind block b to ret, if colnames(tmp) can be set.
Bind(r, b) ==
  IF Flattened(Len(b))
  THEN /\ pc' = [pc EXCEPT ![r] = "stopped"]
       /\ UNCHANGED <<todo, ret>>
  ELSE /\ ret' = [ret EXCEPT ![r] = @ \o b]
       /\ todo' = [todo EXCEPT ![r] = Tail(@)]
       /\ UNCHANGED pc

\* Slip: the blocks are taken in the order in which they arrive.
RecvPiece_AnySource(r) ==
  /\ pc[r] = "recv"
  /\ todo[r] # <<>>
  /\ \E s \in ToSet(todo[r]) \ {r} :
       /\ net[s][r] # <<>>
       /\ net' = [net EXCEPT ![s][r] = Tail(@)]
       /\ ret' = [ret EXCEPT ![r] = @ \o Head(net[s][r])]
       /\ todo' = [todo EXCEPT ![r] = Remove(@, s)]
  /\ UNCHANGED <<shape, call, method, pc, X, info>>

\* One turn of the loop over recv.from, for a block of another rank.
RecvPiece(r) ==
  /\ pc[r] = "recv"
  /\ todo[r] # <<>>
  /\ LET s == Head(todo[r]) IN
     /\ s # r
     /\ net[s][r] # <<>>
     /\ net' = [net EXCEPT ![s][r] = Tail(@)]
     /\ Bind(r, Head(net[s][r]))
  /\ UNCHANGED <<shape, call, method, X, info>>

\* One turn of that loop for the rank's own block.
OwnPiece(r) ==
  /\ pc[r] = "recv"
  /\ todo[r] # <<>>
  /\ Head(todo[r]) = r
  /\ Bind(r, Piece(r, r))
  /\ UNCHANGED <<shape, call, method, X, info, net>>

\* ret[0, ] for a rank that is to hold no row; spmd.wait(); return.
FinishBalance(r, next) ==
  /\ pc[r] = "recv"
  /\ todo[r] = <<>>
  /\ ret' = [ret EXCEPT ![r] = IF info.new[r + 1] = 0 THEN <<>> ELSE @]
  /\ pc' = [pc EXCEPT ![r] = next]
  /\ UNCHANGED <<shape, call, method, X, info, todo, net>>

\* The pieces rank r has sent have been received: MPI_Wait must return.
Delivered(r) == \A d \in Ranks : net[r][d] = <<>>
=============================================================================
