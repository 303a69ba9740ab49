---------------------------- MODULE LongVectors -----------------------------
(***************************************************************************)
(* The C functions behind the collectives: spmd_bcast_*, spmd_allreduce_*, *)
(* spmd_reduce_*, spmd_allgather_*, spmd_gather_*, spmd_scatter_* and the  *)
(* *v functions.  One call of such a function is a record; n is the length *)
(* that its loop counts down.  An MPI count is an int, so a vector longer  *)
(* than SPMD_SHORT_LEN_MAX goes in cuts, one MPI call each; the *v         *)
(* functions, which refuse such vectors, are assumed to get none.          *)
(***************************************************************************)
EXTENDS RObject

CONSTANT MaxLen   \* SPMD_SHORT_LEN_MAX

ASSUME MaxLenAssumption == MaxLen \in Nat \ {0}

NoRoot == -1
NoOp == "none"

CCall(mpi, type, root, op, send, n, counts) ==
  [mpi |-> mpi, type |-> type, root |-> root, op |-> op,
   send |-> send, n |-> n, counts |-> counts]

BcastCall(type, root, send) == CCall("Bcast", type, root, NoOp, send, Len(send), <<>>)
AllreduceCall(type, op, send) == CCall("Allreduce", type, NoRoot, op, send, Len(send), <<>>)
ReduceCall(type, op, root, send) == CCall("Reduce", type, root, op, send, Len(send), <<>>)
AllgatherCall(type, send) == CCall("Allgather", type, NoRoot, NoOp, send, Len(send), <<>>)
GatherCall(type, root, send) == CCall("Gather", type, root, NoOp, send, Len(send), <<>>)
ScatterCall(type, root, send, n) == CCall("Scatter", type, root, NoOp, send, n, <<>>)
AllgathervCall(type, send, counts) ==
  CCall("Allgatherv", type, NoRoot, NoOp, send, Len(send), counts)
GathervCall(type, root, send, counts) ==
  CCall("Gatherv", type, root, NoOp, send, Len(send), counts)
ScattervCall(type, root, send, counts, n) ==
  CCall("Scatterv", type, root, NoOp, send, n, counts)

Whole(c) == c.mpi \in {"Allgatherv", "Gatherv", "Scatterv"}

\* How many MPI calls c makes.  A bcast or reduction of nothing makes none; a
\* gather or scatter that fits makes one, of nothing if need be.
Cuts(c) ==
  CASE Whole(c) -> 1
    [] c.mpi \in {"Allgather", "Gather", "Scatter"} /\ c.n <= MaxLen -> 1
    [] OTHER -> c.n \div MaxLen + (IF c.n % MaxLen > 0 THEN 1 ELSE 0)

CutLen(c, j) == IF c.n - (j - 1) * MaxLen > MaxLen THEN MaxLen ELSE c.n - (j - 1) * MaxLen

\* C_send_data is one block of n elements per rank; the cut that starts at off
\* is copied out of each block into C_buff_data.
Taken(send, n, off, len) ==
  [p \in 1..(Size * len) |-> send[((p - 1) \div len) * n + off + ((p - 1) % len) + 1]]

\* The other way: C_buff_data has len elements of every rank, which go to
\* their places in the blocks of C_recv_data.
Copied_Packed(recv, buff, n, off, len) ==
  [p \in DOMAIN recv |->
    IF p \in (Size * off + 1)..(Size * (off + len)) THEN buff[p - Size * off] ELSE recv[p]]
Copied(recv, buff, n, off, len) ==
  [p \in DOMAIN recv |->
    LET i == (p - 1) \div n
        j == (p - 1) % n
    IN IF j \in off..(off + len - 1) THEN buff[i * len + (j - off) + 1] ELSE recv[p]]

\* The j-th MPI call that rank r makes for c.
Cut(c, j, r) ==
  LET off == (j - 1) * MaxLen
      len == CutLen(c, j)
  IN IF Whole(c) THEN c
     ELSE [c EXCEPT !.n = len,
                    !.send = CASE c.mpi # "Scatter" -> SubSeq(c.send, off + 1, off + len)
                               [] c.mpi = "Scatter" /\ r = c.root -> Taken(c.send, c.n, off, len)
                               [] OTHER -> <<>>]

\* What is in the receive buffer of rank r when the j-th MPI call has returned
\* reply; buf is what was there before.
Received(c, j, r, buf, reply) ==
  LET recv == IF j = 1 THEN [p \in 1..(Size * c.n) |-> 0] ELSE buf
  IN CASE Whole(c) -> reply
       [] c.mpi = "Allgather" \/ (c.mpi = "Gather" /\ r = c.root) ->
            Copied(recv, reply, c.n, (j - 1) * MaxLen, CutLen(c, j))
       [] OTHER -> buf \o reply
=============================================================================
