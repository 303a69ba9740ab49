----------------------------- MODULE Collectives ----------------------------
(***************************************************************************)
(* Ranks that make the same calls of bcast(), gather(), allgather(),       *)
(* scatter(), reduce() and allreduce(), each with its own argument.  A     *)
(* rank decides alone which MPI collective it enters next; MPI matches the *)
(* k-th call of one rank with the k-th call of every other.  A rank leaves *)
(* an MPI call as soon as it has what it needs, which may be long before   *)
(* the others have entered it.                                             *)
(***************************************************************************)
EXTENDS CollectiveCalls

CONSTANT Programs   \* sequences of calls, [fn, root, op, n, x]

VARIABLES
  prog,    \* the program that runs
  log,     \* log[r]: the MPI calls r has entered, oldest first
  state,   \* state[r]: "running", "inside" an MPI call, "stopped" by an R
           \* error or "failed" by an MPI error
  cut,     \* cut[r]: how many MPI calls its present C function has made
  buf,     \* buf[r]: what is in the receive buffer of that C function
  got,     \* got[r]: what the C functions of its present call returned
  out      \* out[r]: what its calls returned

vars == <<prog, log, state, cut, buf, got, out>>

Set(f, r, v) == [f EXCEPT ![r] = v]

------------------------------------------------------------------------------
(* MPI                                                                     *)

\* The ranks that must have entered the k-th call before r leaves it.
Needs(c, r) ==
  CASE c.mpi \in {"Bcast", "Scatter", "Scatterv"} -> {c.root}
    [] c.mpi \in {"Gather", "Gatherv", "Reduce"} -> IF r = c.root THEN Ranks ELSE {}
    [] c.mpi \in {"Allgather", "Allgatherv", "Allreduce"} -> Ranks

\* Rank q takes as much from rank r as r sends.
TakesAll(c, q, d, r) ==
  CASE c.mpi = "Allgatherv" \/ (c.mpi = "Gatherv" /\ q = c.root) -> c.counts[r + 1] = Len(d.send)
    [] c.mpi = "Scatterv" /\ r = c.root -> d.counts[q + 1] = c.n
    [] ~ Whole(c) -> c.n = d.n
    [] OTHER -> TRUE

\* The k-th calls c of q and d of r are one collective.
Match(c, q, d, r) ==
  /\ <<c.mpi, c.type, c.root, c.op>> = <<d.mpi, d.type, d.root, d.op>>
  /\ TakesAll(c, q, d, r)
  /\ TakesAll(d, r, c, q)

\* What the k-th call gives r.
Reply(r, k) ==
  LET c == log[r][k]
      from(q) == log[q][k]
      before(n) == Total(SubSeq(from(c.root).counts, 1, n))
  IN CASE c.mpi = "Bcast" -> from(c.root).send
       [] c.mpi = "Scatter" -> SubSeq(from(c.root).send, r * c.n + 1, (r + 1) * c.n)
       [] c.mpi = "Scatterv" -> SubSeq(from(c.root).send, before(r) + 1, before(r + 1))
       [] c.mpi \in {"Gather", "Gatherv", "Reduce"} /\ r # c.root -> <<>>
       [] c.mpi \in {"Allreduce", "Reduce"} /\ Needs(c, r) = Ranks ->
            [i \in 1..c.n |-> Combine(c.op, [q \in 1..Size |-> from(q - 1).send[i]])]
       [] OTHER -> FlattenSeq([q \in 1..Size |-> from(q - 1).send])

------------------------------------------------------------------------------
(* The steps of a rank                                                     *)

Call(r) == prog[Len(out[r]) + 1]
Active(r) == state[r] = "running" /\ Len(out[r]) < Len(prog)
Present(r) == Step(Call(r), r, got[r])
InC(r) == Active(r) /\ Present(r).mpi \notin {"return", "stop"}

Init ==
  /\ prog \in Programs
  /\ log = [r \in Ranks |-> <<>>]
  /\ state = [r \in Ranks |-> "running"]
  /\ cut = [r \in Ranks |-> 0]
  /\ buf = [r \in Ranks |-> <<>>]
  /\ got = [r \in Ranks |-> <<>>]
  /\ out = [r \in Ranks |-> <<>>]

Enter(r) ==
  /\ Active(r)
  /\ LET c == Present(r)
     IN /\ c.mpi \notin {"return", "stop"}
        /\ cut[r] < Cuts(c)
        /\ log' = Set(log, r, Append(log[r], Cut(c, cut[r] + 1, r)))
  /\ cut' = Set(cut, r, cut[r] + 1)
  /\ state' = Set(state, r, "inside")
  /\ UNCHANGED <<prog, buf, got, out>>

\* A call that the others' calls do not match is an MPI error.
Leave(r) ==
  LET k == Len(log[r])
      c == log[r][k]
      matched == \A q \in Needs(c, r) : Match(c, r, log[q][k], q)
  IN /\ state[r] = "inside"
     /\ \A q \in Needs(c, r) : Len(log[q]) >= k
     /\ state' = Set(state, r, IF matched THEN "running" ELSE "failed")
     /\ buf' = IF matched
               THEN Set(buf, r, Received(Present(r), cut[r], r, buf[r], Reply(r, k)))
               ELSE buf
     /\ UNCHANGED <<prog, log, cut, got, out>>

ReturnFromC(r) ==
  /\ InC(r)
  /\ cut[r] = Cuts(Present(r))
  /\ got' = Set(got, r, Append(got[r], buf[r]))
  /\ buf' = Set(buf, r, <<>>)
  /\ cut' = Set(cut, r, 0)
  /\ UNCHANGED <<prog, log, state, out>>

ReturnFromR(r) ==
  /\ Active(r)
  /\ Present(r).mpi = "return"
  /\ out' = Set(out, r, Append(out[r], Present(r).value))
  /\ got' = Set(got, r, <<>>)
  /\ UNCHANGED <<prog, log, state, cut, buf>>

StopInR(r) ==
  /\ Active(r)
  /\ Present(r).mpi = "stop"
  /\ state' = Set(state, r, "stopped")
  /\ UNCHANGED <<prog, log, cut, buf, got, out>>

OwnStep(r) == Enter(r) \/ ReturnFromC(r) \/ ReturnFromR(r) \/ StopInR(r)

AllReturned == \A r \in Ranks : Len(out[r]) = Len(prog)

\* An error ends an R script.
Terminating ==
  /\ AllReturned \/ \E r \in Ranks : state[r] \in {"stopped", "failed"}
  /\ UNCHANGED vars

Next == (\E r \in Ranks : OwnStep(r) \/ Leave(r)) \/ Terminating

\* An MPI collective may return early or wait until every rank has entered it.
Fairness ==
  \A r \in Ranks :
    /\ WF_vars(OwnStep(r))
    /\ WF_vars((\A q \in Ranks : Len(log[q]) >= Len(log[r])) /\ Leave(r))

Spec == Init /\ [][Next]_vars /\ Fairness

------------------------------------------------------------------------------
(* Properties                                                              *)

\* Whatever the ranks' arguments are, the k-th MPI calls of any two of them are
\* the same collective, with one root, type and operation, and with counts that
\* fit: the class checks at the start of every function make all ranks take
\* the same branch, although each sees only its own argument.
CallsAgree ==
  \A q, r \in Ranks :
    \A k \in 1..Len(log[q]) :
      k <= Len(log[r]) => Match(log[q][k], q, log[r][k], r)

\* The promise of man/aa_*-method.Rd: every rank gets the documented function of
\* all arguments, and no rank gets an answer before the ranks it is made of
\* have joined the call.
Joined(r) == Len(out[r]) + Flag(got[r] # <<>> \/ cut[r] > 0)
Service == INSTANCE CollectiveService
  WITH joined <- [r \in Ranks |-> Joined(r)],
       halted <- {r \in Ranks : state[r] = "stopped"}
ImplementsService == Service!Spec

\* Every rank returns from every call, or all stop ("x should be a list and
\* length COMM.SIZE", R/spmd_scatterv.r:20), even if no collective returns
\* before every rank has entered it.  The one exception is a scatter() of too
\* short a list, whose source stops before it tells the others.
ShortList(a) == a.fn = "scatter" /\ Len(a.x[a.root].data) < Size
EveryoneReturns ==
  \/ \E k \in 1..Len(prog) : ShortList(prog[k])
  \/ <>AllReturned
  \/ <>(\A r \in Ranks : state[r] = "stopped")
=============================================================================
