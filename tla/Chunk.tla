------------------------------- MODULE Chunk --------------------------------
(***************************************************************************)
(* comm.chunk() of R/comm_chunk.R: how N items are divided into p chunks,  *)
(* as numbers, as vectors of items and as the three parameters of seq().   *)
(***************************************************************************)
EXTENDS Integers, SequencesExt

\* The divisions that the argument checks admit.
Divisions == {<<"balance", "right">>, <<"balance", "left">>, <<"cycle", "right">>,
              <<"equal", "right">>, <<"equal", "left">>}

\* items of type "balance" and "cycle"
BalancedItems(N, side, p) ==
  LET base == N \div p
      rem  == N - base * p IN
  [k \in 1..p |->
     IF (side = "right" /\ k <= rem) \/ (side = "left" /\ k > p - rem)
     THEN base + 1 ELSE base]

\* Slip: a chunk that the leftover uses up gives one item too few.
Take_OneShort(acc, k, base) ==
  CASE acc.rem = 0 -> acc
    [] acc.rem > base -> [items |-> [acc.items EXCEPT ![k] = 0], rem |-> acc.rem - base]
    [] OTHER -> [items |-> [acc.items EXCEPT ![k] = @ - acc.rem], rem |-> 0]

\* One turn of the loop that takes the surplus "rem" back, at chunk k.
Take(acc, k, base) ==
  CASE acc.rem = 0 -> acc
    [] acc.rem > base -> [items |-> [acc.items EXCEPT ![k] = 0], rem |-> acc.rem - base - 1]
    [] OTHER -> [items |-> [acc.items EXCEPT ![k] = @ - acc.rem], rem |-> 0]

\* items of type "equal": chunks of base + 1, the surplus taken from one side.
\* loop[i] is what i turns of the loop have made of it.
EqualItems(N, side, p) ==
  LET base == N \div p
      chunk(i) == IF side = "right" THEN p + 1 - i ELSE i
      loop[i \in 0..p] ==
        IF i = 0 THEN [items |-> [k \in 1..p |-> base + 1], rem |-> p * (base + 1) - N]
        ELSE Take(loop[i - 1], chunk(i), base) IN
  IF N = base * p THEN [k \in 1..p |-> base] ELSE loop[p].items

\* form = "number", for all ranks
ChunkItems(N, div, p) ==
  IF div[1] = "equal" THEN EqualItems(N, div[2], p) ELSE BalancedItems(N, div[2], p)

\* cumsum(items)[k]
Cumulated(items, k) ==
  LET sum[i \in 0..k] == IF i = 0 THEN 0 ELSE sum[i - 1] + items[i] IN sum[k]

\* form = "vector", for one rank
ChunkVector(N, div, p, rank) ==
  LET items == ChunkItems(N, div, p) IN
  IF div[1] = "cycle"
  THEN LET first == Cumulated([k \in 1..p |-> IF items[k] > 0 THEN 1 ELSE 0], rank + 1) IN
       [i \in 1..items[rank + 1] |-> first + (i - 1) * p]
  ELSE [i \in 1..items[rank + 1] |-> Cumulated(items, rank) + i]

\* form = "seq", for one rank: from, to and by
ChunkSeq(N, div, p, rank) ==
  IF div[1] = "cycle"
  THEN IF rank < N
       THEN LET last == rank + 1 + ((N - rank - 1) \div p) * p IN
            <<rank + 1, IF last > N THEN last ELSE N, p>>
       ELSE <<>>
  ELSE LET items == ChunkItems(N, div, p) IN
       <<Cumulated(items, rank) + 1, Cumulated(items, rank + 1), 1>>
=============================================================================
