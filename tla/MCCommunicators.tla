-------------------------- MODULE MCCommunicators ---------------------------
EXTENDS Communicators

Hosts == {[r \in Ranks |-> h[r + 1]] : h \in {<<1, 1, 1>>, <<1, 1, 2>>, <<1, 2, 1>>, <<3, 2, 1>>, <<2, 2, 1>>, <<2, 1, 1>>}}

\* Calls
load == [op |-> "load"]
init == [op |-> "init"]
arrange == [op |-> "arrange"]
Finalize(b) == [op |-> "finalize", mpi_finalize |-> b]
Unload(b) == [op |-> "unload", mpi_finalize |-> b]
On(op, c) == [op |-> op, comm |-> c]
Dup(c, n) == [op |-> "dup", comm |-> c, newcomm |-> n]
SplitCall(color, key, n) ==
  [op |-> "split", comm |-> 0, newcomm |-> n,
   color |-> [r \in Ranks |-> color[r + 1]], key |-> [r \in Ranks |-> key[r + 1]]]

Splits(n) == {SplitCall(color, <<2, 1, 1>>, n) : color \in {<<0, 0, 1>>, <<0, -1, 0>>}}

\* Loading, finalizing and unloading in every order
Twice == {load, init, arrange, Dup(0, 1)} \cup {Finalize(b) : b \in BOOLEAN}
         \cup {Unload(b) : b \in BOOLEAN}
Lives ==
  {<<load, s, t, u>> : s \in Twice, t \in Twice, u \in {load, On("size", 1), On("is.null", 1)}}

\* Communicators made, used, overwritten and freed
Uses ==
  {<<load, s, u, v, Finalize(TRUE)>> :
     s \in Splits(1) \cup Splits(0),
     u \in {On("barrier", 1), On("rank", 1), Dup(1, 2), Dup(0, 1), On("free", 1)},
     v \in {On("disconnect", 1), On("free", 0), On("size", 0), Dup(0, 2)}}

TwoStage ==
  {<<load, [op |-> "by.node"], [op |-> o], Finalize(TRUE)>> : o \in {"allreduce2", "allgather2"}}

One == [r \in Ranks |-> 1]
MCPrograms ==
  {[calls |-> c, node |-> One] : c \in Lives \cup Uses} \cup {[calls |-> c, node |-> n] : c \in TwoStage, n \in Hosts}
=============================================================================
