---------------------------- MODULE MCNonBlocking ---------------------------
EXTENDS NonBlocking

ISEND(to, q) == [op |-> "isend", to |-> to, req |-> q, segs |-> 1, check |-> FALSE]
RECV(from)   == [op |-> "recv", from |-> from, check |-> FALSE]
CISEND(to, q, segs) ==
  [op |-> "isend", to |-> to, req |-> q, segs |-> segs, check |-> TRUE]
CRECV(from)  == [op |-> "recv", from |-> from, check |-> TRUE]
WAIT(q)      == [op |-> "wait", req |-> q]
WAITALL(n)   == [op |-> "waitall", count |-> n]

N == Cardinality(Ranks)
Right(r) == (r + 1) % N
Left(r)  == (r + N - 1) % N

\* An exchange around a ring, twice: each rank waits for its request before
\* it sends again (man/dd_wait.Rd:48-57).
Ring(r) == <<ISEND(Right(r), 0), RECV(Left(r)), WAIT(0)>>
TwoRings == [r \in Ranks |-> Ring(r) \o Ring(r)]

\* Rank 0 has two objects in flight, each with a request of its own, and one
\* waitall() for both (inst/examples/test_spmd/isend_irecv_wait.r:40); with
\* the handshake it is rank 1 that must receive first.  waitall() keeps the
\* serialized copies; the wait() at the end, for a request that is no longer
\* active, drops them.
WaitForAll ==
  [r \in Ranks |->
     IF r = 0 THEN <<CISEND(1, 0, 1), ISEND(2, 1), WAITALL(2),
                     ISEND(2, 0), CISEND(1, 1, 1), WAITALL(2), WAIT(0)>>
     ELSE IF r = 1 THEN <<CRECV(0), CRECV(0)>> ELSE <<RECV(0), RECV(0)>>]

MCPrograms == {TwoRings, WaitForAll}

\* These programs do what NonBlocking asks for.
ASSUME ProgramsWait ==
  \A p \in MCPrograms :
    ShortObjects(p) /\ WaitedBeforeDropped(p) /\ WaitedAtTheEnd(p)

\* Four more programs that break a property; no run is spent on them.
\* Intact: comm.load.balance() with all the rows on rank 0, an isend for every
\* other rank with the default request, then one wait() (R/comm_balance.r:86-117).
MCBalance ==
  {[r \in Ranks |->
      IF r = 0 THEN <<ISEND(1, 0), ISEND(2, 0), WAIT(0)>> ELSE <<RECV(0), WAIT(0)>>]}

\* Intact: a request of its own and a wait() of its own for each object.
MCEach ==
  {[r \in Ranks |->
      IF r = 0 THEN <<ISEND(1, 0), ISEND(2, 1), WAIT(0), WAIT(1)>> ELSE <<RECV(0)>>]}

\* WaitMeansSent: an object of two segments.
MCLong ==
  {[r \in Ranks |->
      IF r = 0 THEN <<CISEND(1, 0, 2), WAIT(0)>> ELSE IF r = 1 THEN <<CRECV(0)>> ELSE <<>>]}

\* NoDeadlock: the ring with the handshake.
MCExchange ==
  {[r \in Ranks |-> <<CISEND(Right(r), 0, 1), CRECV(Left(r)), WAIT(0)>>]}
=============================================================================
