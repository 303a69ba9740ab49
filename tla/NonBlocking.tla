----------------------------- MODULE NonBlocking ----------------------------
(***************************************************************************)
(* isend(), recv() and the waits of R/spmd_isend.r, R/spmd_wait.r,         *)
(* src/spmd_send.c and src/spmd_wait.c.  Every rank runs a straight-line   *)
(* program of these calls.                                                 *)
(*                                                                         *)
(* isend.default() serializes the object into a new R vector, keeps a      *)
(* reference to it in the list SPMD.NB.BUFFER and gives its address to     *)
(* MPI_Isend.  MPI reads the vector at some later time; if the garbage     *)
(* collector has taken it by then, something else is sent.                 *)
(***************************************************************************)
EXTENDS Integers, Sequences, FiniteSets

CONSTANTS
  Ranks,      \* the ranks of the communicator
  Programs,   \* the programs: an operation sequence for every rank
  Requests    \* the entries of global_spmd_request in use, from 0

\* segs: the MPI_Isend calls of an isend(), 1 for up to SPMD_SHORT_LEN_MAX
\* bytes; check: the argument check.type.
Operations ==
  [op : {"isend"}, to : Ranks, req : Requests, segs : Nat \ {0}, check : BOOLEAN]
  \cup [op : {"recv"}, from : Ranks, check : BOOLEAN]
  \cup [op : {"wait"}, req : Requests]
  \cup [op : {"waitall"}, count : Nat]

ASSUME ProgramsAssumption == Programs \subseteq [Ranks -> Seq(Operations)]
ASSUME RequestsAssumption == Requests \subseteq Nat

\* A vector kept by isend(): the rank and the place of the call in its
\* program; and a transfer of one segment of it.
Buffers == [rank : Ranks, id : Nat]
Buffer(t) == [rank |-> t.rank, id |-> t.id]
None == [rank |-> "MPI_REQUEST_NULL"]

VARIABLES
  prog,     \* the program each rank runs
  pc,       \* pc[r]: the operation r is in
  at,       \* at[r]: how far r is in that operation
  nb,       \* nb[r]: SPMD.NB.BUFFER, the places of its vectors
  req,      \* req[r][q]: global_spmd_request[q] of rank r
  flight,   \* transfers MPI has not completed
  torn,     \* transfers that read a vector that was already collected
  freed,    \* vectors the garbage collector has taken
  chan,     \* chan[r][d]: messages from r to d not received yet
  got       \* got[r]: the transfers r has received

vars == <<prog, pc, at, nb, req, flight, torn, freed, chan, got>>

Op(r) == prog[r][pc[r]]
Running(r) == pc[r] <= Len(prog[r])
In(r, op) == Running(r) /\ Op(r).op = op

\* r returns from the operation it is in.
Finish(r) == pc' = [pc EXCEPT ![r] = @ + 1] /\ at' = [at EXCEPT ![r] = 0]

Post(r, d, m) == chan' = [chan EXCEPT ![r][d] = Append(@, m)]

------------------------------------------------------------------------------
(* isend()                                                                 *)

\* Slip: the serialized object is not kept.
Store_Unprotected(r) ==
  /\ In(r, "isend") /\ at[r] = 0
  /\ at' = [at EXCEPT ![r] = IF Op(r).check THEN 1 ELSE 2]
  /\ UNCHANGED <<prog, pc, nb, req, flight, torn, freed, chan, got>>

\* SPMD.NB.BUFFER[[length + 1]] <- serialize(x, NULL)
Store(r) ==
  /\ In(r, "isend") /\ at[r] = 0
  /\ nb' = [nb EXCEPT ![r] = Append(@, pc[r])]
  /\ at' = [at EXCEPT ![r] = IF Op(r).check THEN 1 ELSE 2]
  /\ UNCHANGED <<prog, pc, req, flight, torn, freed, chan, got>>

\* The header of the handshake goes by a blocking send.
Handshake(r) ==
  /\ In(r, "isend") /\ at[r] = 1
  /\ Post(r, Op(r).to, [kind |-> "header"])
  /\ at' = [at EXCEPT ![r] = 2]
  /\ UNCHANGED <<prog, pc, nb, req, flight, torn, freed, got>>

\* The C loop: one MPI_Isend per segment, all with the same request.
Isend(r) ==
  /\ In(r, "isend") /\ at[r] >= 2
  /\ LET t == [rank |-> r, id |-> pc[r], seg |-> at[r] - 1] IN
     /\ Post(r, Op(r).to, [kind |-> "data", transfer |-> t])
     /\ flight' = flight \cup {t}
     /\ req' = [req EXCEPT ![r][Op(r).req] = t]
     /\ IF t.seg = Op(r).segs
        THEN Finish(r)
        ELSE pc' = pc /\ at' = [at EXCEPT ![r] = @ + 1]
  /\ UNCHANGED <<prog, nb, torn, freed, got>>

------------------------------------------------------------------------------
(* recv(), with an exact source                                            *)

\* MPI reads the vectors of the transfers in ts.
Read(ts) ==
  /\ flight' = flight \ ts
  /\ torn' = torn \cup {t \in ts \cap flight : Buffer(t) \in freed}

RecvHeader(r) ==
  /\ In(r, "recv") /\ at[r] = 0 /\ Op(r).check
  /\ chan[Op(r).from][r] # <<>>
  /\ Head(chan[Op(r).from][r]).kind = "header"
  /\ chan' = [chan EXCEPT ![Op(r).from][r] = Tail(@)]
  /\ at' = [at EXCEPT ![r] = 1]
  /\ UNCHANGED <<prog, pc, nb, req, flight, torn, freed, got>>

\* One segment arrives, read from the sender's vector now unless MPI has
\* copied it before.
RecvData(r) ==
  /\ In(r, "recv") /\ at[r] >= (IF Op(r).check THEN 1 ELSE 0)
  /\ chan[Op(r).from][r] # <<>>
  /\ Head(chan[Op(r).from][r]).kind = "data"
  /\ LET t == Head(chan[Op(r).from][r]).transfer IN
     /\ Read({t})
     /\ got' = [got EXCEPT ![r] = Append(@, t)]
     /\ IF t.seg = prog[t.rank][t.id].segs
        THEN Finish(r)
        ELSE pc' = pc /\ at' = [at EXCEPT ![r] = @ + 1]
  /\ chan' = [chan EXCEPT ![Op(r).from][r] = Tail(@)]
  /\ UNCHANGED <<prog, nb, req, freed>>

------------------------------------------------------------------------------
(* wait() and waitall()                                                    *)

\* Slip: the list is cleared although the request is still active.
Wait_Early(r) ==
  /\ In(r, "wait")
  /\ req' = [req EXCEPT ![r][Op(r).req] = None]
  /\ nb' = [nb EXCEPT ![r] = <<>>]
  /\ Finish(r)
  /\ UNCHANGED <<prog, flight, torn, freed, chan, got>>

\* MPI_Wait for one request, and then the whole list is cleared.
Wait(r) ==
  /\ In(r, "wait")
  /\ req[r][Op(r).req] \notin flight
  /\ req' = [req EXCEPT ![r][Op(r).req] = None]
  /\ nb' = [nb EXCEPT ![r] = <<>>]
  /\ Finish(r)
  /\ UNCHANGED <<prog, flight, torn, freed, chan, got>>

\* MPI_Waitall for the first count requests; the list is left as it is.
WaitAll(r) ==
  /\ In(r, "waitall")
  /\ \A q \in Requests : q < Op(r).count => req[r][q] \notin flight
  /\ req' = [req EXCEPT ![r] = [q \in Requests |->
                                  IF q < Op(r).count THEN None ELSE @[q]]]
  /\ Finish(r)
  /\ UNCHANGED <<prog, nb, flight, torn, freed, chan, got>>

------------------------------------------------------------------------------
(* MPI and R behind the program's back                                     *)

\* MPI copies a segment before its receiver asks for it.
Copy(t) ==
  /\ t \in flight
  /\ Read({t})
  /\ UNCHANGED <<prog, pc, at, nb, req, freed, chan, got>>

\* R's garbage collector takes the vectors of past isends that are no longer
\* in the list.
Kept(r) == {nb[r][k] : k \in 1..Len(nb[r])}
Garbage(r) ==
  {[rank |-> r, id |-> i] :
     i \in {k \in 1..(pc[r] - 1) : prog[r][k].op = "isend" /\ k \notin Kept(r)}}

Collect(r) ==
  /\ ~ Garbage(r) \subseteq freed
  /\ freed' = freed \cup Garbage(r)
  /\ UNCHANGED <<prog, pc, at, nb, req, flight, torn, chan, got>>

------------------------------------------------------------------------------
(* The program                                                             *)

Init ==
  /\ prog \in Programs
  /\ pc = [r \in Ranks |-> 1]
  /\ at = [r \in Ranks |-> 0]
  /\ nb = [r \in Ranks |-> <<>>]
  /\ req = [r \in Ranks |-> [q \in Requests |-> None]]
  /\ flight = {}
  /\ torn = {}
  /\ freed = {}
  /\ chan = [r \in Ranks |-> [d \in Ranks |-> <<>>]]
  /\ got = [r \in Ranks |-> <<>>]

Step(r) ==
  \/ Store(r) \/ Handshake(r) \/ Isend(r)
  \/ RecvHeader(r) \/ RecvData(r)
  \/ Wait(r) \/ WaitAll(r)

Finished == \A r \in Ranks : ~ Running(r)
Terminating == Finished /\ UNCHANGED vars

Next ==
  \/ \E r \in Ranks : Step(r) \/ Collect(r)
  \/ \E t \in flight : Copy(t)
  \/ Terminating

\* Slip: the data, too, goes by a blocking send.
InHandshake_Data(r) == \E d \in Ranks : chan[r][d] # <<>>

\* The header's MPI_Send may wait until the header is received.
InHandshake(r) ==
  \E d \in Ranks : \E k \in 1..Len(chan[r][d]) : chan[r][d][k].kind = "header"

Spec ==
  /\ Init /\ [][Next]_vars
  /\ \A r \in Ranks : WF_vars(~ InHandshake(r) /\ Step(r))

------------------------------------------------------------------------------
(* What a program has to do                                                *)

\* A request has one entry of the table, and every wait() drops the whole list
\* of kept vectors.  So it is not enough to wait: a program must wait for an
\* isend() before its request is used again, and before any other wait().

\* Operation o waits for request q; o is an isend with request q.
Awaits(o, q) == \/ o.op = "wait" /\ o.req = q
                \/ o.op = "waitall" /\ q < o.count
Sends(o, q) == o.op = "isend" /\ o.req = q

\* No isend of r uses request q at a place between i and j.
Unused(p, r, q, i, j) == \A m \in (i + 1)..(j - 1) : ~ Sends(p[r][m], q)

\* The isend at i is waited for at k at the latest.
Awaited(p, r, i, k) ==
  \E j \in (i + 1)..k : /\ Awaits(p[r][j], p[r][i].req)
                        /\ Unused(p, r, p[r][i].req, i, j)

IsendsOf(p, r) == {i \in 1..Len(p[r]) : p[r][i].op = "isend"}

\* No object is longer than SPMD_SHORT_LEN_MAX.
ShortObjects(p) == \A r \in Ranks : \A i \in IsendsOf(p, r) : p[r][i].segs = 1

\* No wait() drops a vector that was not waited for.
WaitedBeforeDropped(p) ==
  \A r \in Ranks : \A k \in 1..Len(p[r]) : \A i \in IsendsOf(p, r) :
    p[r][k].op = "wait" /\ i < k => Awaited(p, r, i, k)

\* Every isend is waited for at some place.
WaitedAtTheEnd(p) ==
  \A r \in Ranks : \A i \in IsendsOf(p, r) : Awaited(p, r, i, Len(p[r]))

------------------------------------------------------------------------------
(* Properties                                                              *)

\* What a rank receives is what was serialized: MPI never reads a vector that
\* the garbage collector has taken (R/spmd_isend.r:8-11 and :21-25).
Intact == \A r \in Ranks : \A k \in 1..Len(got[r]) : got[r][k] \notin torn

\* A rank that has come to the end of its program, past its waits, has no
\* transfer in flight ("a blocking wait should be evoked to make sure buffer
\* is sent completely", R/spmd_isend.r:15-16).
WaitMeansSent == \A t \in flight : Running(t.rank)

\* Every rank comes to the end of its program: an exchange by isend() does not
\* deadlock ("Use non-blocking buffer to avoid dead lock and use non-block
\* send", R/spmd_isend.r:20).
NoDeadlock == <>Finished
=============================================================================
