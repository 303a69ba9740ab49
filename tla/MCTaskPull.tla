---------------------------- MODULE MCTaskPull ----------------------------
(* Job lists for model checking TaskPull: see the .cfg files.              *)
EXTENDS TaskPull

CONSTANT w1, w2

\* distinct ids, one with a gap, one with a repeated id
MCJobLists == {<<1, 2, 3>>, <<3, 1>>, <<2, 2>>}

\* also the arguments the manager refuses
MCAnyJobLists == {<<2, 1>>, <<>>, <<1, 0>>}
=============================================================================
