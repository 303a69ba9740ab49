------------------------------ MODULE TaskPull ------------------------------
(***************************************************************************)
(* The manager / workers task pull of R/api_task_pull.r.  Every rank calls *)
(* task.pull(); the manager hands the job ids out one at a time, to        *)
(* whichever worker asks, and collects the results in an R list.           *)
(*                                                                         *)
(* Messages travel on the communicator's point-to-point FIFO channels, one *)
(* per worker and direction.  Every receive of this protocol probes with   *)
(* anytag and then reads exactly the message it probed, so it consumes the *)
(* oldest message of the channel it picked.                                *)
(*                                                                         *)
(* MPI_Send may return at once or only when the message is received.  No   *)
(* guard waits for the delivery (the send may have been buffered), and the *)
(* fairness below promises a rank's next step only once its messages have  *)
(* been received (the send may have been a rendezvous): safety is checked  *)
(* for the most permissive MPI, progress for the least.                    *)
(***************************************************************************)
EXTENDS RList, FiniteSets

CONSTANTS
  Workers,     \* the ranks other than rank.manager
  JobLists,    \* the arguments "jids" a caller may give
  Calls,       \* how many times the program calls task.pull() in a row
  Bcast,       \* argument "bcast"
  Barrier,     \* argument "barrier"
  Try,         \* argument "try"
  NullResults  \* whether FUN may return NULL

ASSUME WorkersAssumption == IsFiniteSet(Workers) /\ Workers # {}
ASSUME CallsAssumption == Calls \in Nat \ {0}
ASSUME JobListsAssumption == JobLists \subseteq Seq(Nat)
ASSUME FlagsAssumption == {Bcast, Barrier, Try, NullResults} \subseteq BOOLEAN

\* What FUN(jid, ...) returned to the worker, in which of the calls.
Results == [call : 1..Calls, jid : Nat, kind : {"value", "try-error"}]

ASSUME NullAssumption == NULL \notin Results

VARIABLES
  mpc,      \* where the manager is in task.pull()
  mcall,    \* which call of task.pull() the manager is in
  asked,    \* the manager's argument "jids" in this call
  jids,     \* the ids not handed out yet
  closed,   \* closed.workers
  ret,      \* the manager's list of results
  wpc,      \* where each worker is
  wcall,    \* which call of task.pull() each worker is in
  hold,     \* the worker's variable "jid"
  got,      \* what task.pull() returned to each worker
  toM,      \* toM[w]: messages from worker w to the manager, oldest first
  toW,      \* toW[w]: messages from the manager to worker w, oldest first
  bcasts    \* bcasts[w]: broadcasts of the manager that w has not joined yet

mvars == <<mpc, mcall, asked, jids, closed, ret>>
wvars == <<wpc, wcall, hold, got>>
vars  == <<mvars, wvars, toM, toW, bcasts>>

------------------------------------------------------------------------------
(* The messages, by their tags.                                            *)

Ready     == [tag |-> 1, jid |-> 0, ret |-> NULL]
Result(j, r) == [tag |-> 2, jid |-> j, ret |-> r]
Exiting   == [tag |-> 3, jid |-> 0, ret |-> NULL]
ToManager == [tag : 1..3, jid : Nat, ret : Results \cup {NULL}]

Job(j)    == [tag |-> 1, jid |-> j]
DoneJobs  == [tag |-> 2, jid |-> 0]
ToWorker  == [tag : 1..2, jid : Nat]

------------------------------------------------------------------------------
(* task.pull.manager()                                                     *)

\* all(jids > 0), and vector("list", max(jids)) must succeed.
Acceptable(ids) == ids # <<>> /\ \A i \in 1..Len(ids) : ids[i] > 0

\* max(jids)
MaxJid(ids) == CHOOSE m \in {ids[i] : i \in 1..Len(ids)} :
                 \A i \in 1..Len(ids) : ids[i] <= m

\* Slip: ret is not reset for a new call.
ManagerEnter_KeepsList(ids) ==
  /\ mpc = "enter"
  /\ Acceptable(ids)
  /\ mpc' = "loop"
  /\ asked' = ids /\ jids' = ids /\ closed' = 0
  /\ ret' = IF mcall = 1 THEN EmptyList(MaxJid(ids)) ELSE ret
  /\ UNCHANGED <<mcall, wvars, toM, toW, bcasts>>

ManagerEnter(ids) ==
  /\ mpc = "enter"
  /\ Acceptable(ids)
  /\ mpc' = "loop"
  /\ asked' = ids
  /\ jids' = ids
  /\ closed' = 0
  /\ ret' = EmptyList(MaxJid(ids))
  /\ UNCHANGED <<mcall, wvars, toM, toW, bcasts>>

\* comm.stop(), or the error of vector(): this rank leaves the program.
ManagerRefuse(ids) ==
  /\ mpc = "enter"
  /\ ~ Acceptable(ids)
  /\ mpc' = "stopped"
  /\ asked' = ids
  /\ UNCHANGED <<mcall, jids, closed, ret, wvars, toM, toW, bcasts>>

\* Slip: the loop stops one worker too early.
Looping_OneShort == mpc = "loop" /\ closed < Cardinality(Workers) - 1

Looping == mpc = "loop" /\ closed < Cardinality(Workers)

\* The receive from any source with any tag picked worker w's message.
Receive(w, tag) ==
  /\ Looping
  /\ toM[w] # <<>>
  /\ Head(toM[w]).tag = tag
  /\ toM' = [toM EXCEPT ![w] = Tail(@)]

\* Tag 1, jobs left: send the next job to that worker and drop it.
HandOut(w) ==
  /\ Receive(w, 1)
  /\ jids # <<>>
  /\ toW' = [toW EXCEPT ![w] = Append(@, Job(Head(jids)))]
  /\ jids' = Tail(jids)
  /\ UNCHANGED <<mpc, mcall, asked, closed, ret, wvars, bcasts>>

\* Slip: a worker is sent home although jobs are left.
SendHome_Early(w) ==
  /\ Receive(w, 1)
  /\ toW' = [toW EXCEPT ![w] = Append(@, DoneJobs)]
  /\ UNCHANGED <<mvars, wvars, bcasts>>

\* Slip: a worker counts as closed when it is sent home.
SendHome_Counts(w) ==
  /\ Receive(w, 1)
  /\ jids = <<>>
  /\ toW' = [toW EXCEPT ![w] = Append(@, DoneJobs)]
  /\ closed' = closed + 1
  /\ UNCHANGED <<mpc, mcall, asked, jids, ret, wvars, bcasts>>

\* Tag 1, no job left: tell the worker that the jobs are all done.
SendHome(w) ==
  /\ Receive(w, 1)
  /\ jids = <<>>
  /\ toW' = [toW EXCEPT ![w] = Append(@, DoneJobs)]
  /\ UNCHANGED <<mvars, wvars, bcasts>>

\* Slip: the whole message is stored instead of its element "ret".
Collect_Message(w) ==
  /\ Receive(w, 2)
  /\ ret' = ListAssign(ret, Head(toM[w]).jid, Head(toM[w]))
  /\ UNCHANGED <<mpc, mcall, asked, jids, closed, wvars, toW, bcasts>>

\* Tag 2: ret[[ret.worker$jid]] <- ret.worker$ret
Collect(w) ==
  /\ Receive(w, 2)
  /\ ret' = ListAssign(ret, Head(toM[w]).jid, Head(toM[w]).ret)
  /\ UNCHANGED <<mpc, mcall, asked, jids, closed, wvars, toW, bcasts>>

\* Tag 3: a worker has closed down.
CloseWorker(w) ==
  /\ Receive(w, 3)
  /\ closed' = closed + 1
  /\ UNCHANGED <<mpc, mcall, asked, jids, ret, wvars, toW, bcasts>>

\* The loop ends; task.pull() then broadcasts the list if asked to.
ManagerLeave ==
  /\ mpc = "loop"
  /\ ~ Looping
  /\ mpc' = "return"
  /\ bcasts' = IF Bcast THEN [w \in Workers |-> Append(bcasts[w], ret)]
                        ELSE bcasts
  /\ UNCHANGED <<mcall, asked, jids, closed, ret, wvars, toM, toW>>

------------------------------------------------------------------------------
(* task.pull.workers()                                                     *)

\* Top of the while loop: signal being ready to receive a new job.
AskForJob(w) ==
  /\ wpc[w] = "top"
  /\ toM' = [toM EXCEPT ![w] = Append(@, Ready)]
  /\ wpc' = [wpc EXCEPT ![w] = "wait"]
  /\ UNCHANGED <<mvars, wcall, hold, got, toW, bcasts>>

\* Slip: the worker does not leave its loop when the jobs are done.
ReceiveAnswer_IgnoresEnd(w) ==
  /\ wpc[w] = "wait"
  /\ toW[w] # <<>>
  /\ toW' = [toW EXCEPT ![w] = Tail(@)]
  /\ hold' = [hold EXCEPT ![w] = Head(toW[w]).jid]
  /\ wpc' = [wpc EXCEPT ![w] = IF Head(toW[w]).tag = 1 THEN "run" ELSE "top"]
  /\ UNCHANGED <<mvars, wcall, got, toM, bcasts>>

\* The answer is a job (tag 1) or the end of the jobs (tag 2, done <- 1L).
ReceiveAnswer(w) ==
  /\ wpc[w] = "wait"
  /\ toW[w] # <<>>
  /\ toW' = [toW EXCEPT ![w] = Tail(@)]
  /\ hold' = [hold EXCEPT ![w] = Head(toW[w]).jid]
  /\ wpc' = [wpc EXCEPT ![w] = IF Head(toW[w]).tag = 1 THEN "run" ELSE "exit"]
  /\ UNCHANGED <<mvars, wcall, got, toM, bcasts>>

\* What FUN may return for job j to worker w; an error under try() is a value.
Outcomes(w, j) ==
  {[call |-> wcall[w], jid |-> j, kind |-> k] :
     k \in {"value"} \cup (IF Try THEN {"try-error"} ELSE {})}
  \cup (IF NullResults THEN {NULL} ELSE {})

\* Run FUN(jid, ...) and send the result back to the manager.
RunJob(w) ==
  /\ wpc[w] = "run"
  /\ \E r \in Outcomes(w, hold[w]) :
       toM' = [toM EXCEPT ![w] = Append(@, Result(hold[w], r))]
  /\ wpc' = [wpc EXCEPT ![w] = "top"]
  /\ UNCHANGED <<mvars, wcall, hold, got, toW, bcasts>>

\* Without try(), an error of FUN ends the worker's R process.
CrashInJob(w) ==
  /\ wpc[w] = "run"
  /\ ~ Try
  /\ wpc' = [wpc EXCEPT ![w] = "crashed"]
  /\ UNCHANGED <<mvars, wcall, hold, got, toM, toW, bcasts>>

\* After the loop: tell the manager that this worker is exiting.
SayExiting(w) ==
  /\ wpc[w] = "exit"
  /\ toM' = [toM EXCEPT ![w] = Append(@, Exiting)]
  /\ wpc' = [wpc EXCEPT ![w] = "left"]
  /\ UNCHANGED <<mvars, wcall, hold, got, toW, bcasts>>

\* Slip: only the manager takes part in the broadcast.
WorkerResult_NoBcast(w) ==
  /\ wpc[w] = "left"
  /\ got' = [got EXCEPT ![w] = NULL]
  /\ wpc' = [wpc EXCEPT ![w] = "return"]
  /\ UNCHANGED <<mvars, wcall, hold, toM, toW, bcasts>>

\* The worker's side of task.pull()'s broadcast; its own value is NULL.
WorkerResult(w) ==
  /\ wpc[w] = "left"
  /\ IF Bcast
     THEN /\ bcasts[w] # <<>>
          /\ got' = [got EXCEPT ![w] = Head(bcasts[w])]
          /\ bcasts' = [bcasts EXCEPT ![w] = Tail(@)]
     ELSE /\ got' = [got EXCEPT ![w] = NULL]
          /\ UNCHANGED bcasts
  /\ wpc' = [wpc EXCEPT ![w] = "return"]
  /\ UNCHANGED <<mvars, wcall, hold, toM, toW>>

------------------------------------------------------------------------------
(* From one call of task.pull() to the next: a barrier of all ranks, or    *)
(* every rank on its own.                                                  *)

PassBarrier ==
  /\ Barrier
  /\ mpc = "return" /\ \A w \in Workers : wpc[w] = "return"
  /\ IF mcall < Calls
     THEN /\ mpc' = "enter" /\ mcall' = mcall + 1
          /\ wpc' = [w \in Workers |-> "top"]
          /\ wcall' = [w \in Workers |-> wcall[w] + 1]
     ELSE /\ mpc' = "done"
          /\ wpc' = [w \in Workers |-> "done"]
          /\ UNCHANGED <<mcall, wcall>>
  /\ UNCHANGED <<asked, jids, closed, ret, hold, got, toM, toW, bcasts>>

ManagerGoesOn ==
  /\ ~ Barrier
  /\ mpc = "return"
  /\ IF mcall < Calls
     THEN mpc' = "enter" /\ mcall' = mcall + 1
     ELSE mpc' = "done" /\ UNCHANGED mcall
  /\ UNCHANGED <<asked, jids, closed, ret, wvars, toM, toW, bcasts>>

WorkerGoesOn(w) ==
  /\ ~ Barrier
  /\ wpc[w] = "return"
  /\ IF wcall[w] < Calls
     THEN /\ wpc' = [wpc EXCEPT ![w] = "top"]
          /\ wcall' = [wcall EXCEPT ![w] = @ + 1]
     ELSE /\ wpc' = [wpc EXCEPT ![w] = "done"]
          /\ UNCHANGED wcall
  /\ UNCHANGED <<mvars, hold, got, toM, toW, bcasts>>

\* The program is over: every rank has returned from its last call.
Finished == mpc = "done" /\ \A w \in Workers : wpc[w] = "done"

Terminating == Finished /\ UNCHANGED vars

------------------------------------------------------------------------------
Init ==
  /\ mpc = "enter" /\ mcall = 1
  /\ asked = <<>> /\ jids = <<>> /\ closed = 0 /\ ret = <<>>
  /\ wpc = [w \in Workers |-> "top"]
  /\ wcall = [w \in Workers |-> 1]
  /\ hold = [w \in Workers |-> 0]
  /\ got = [w \in Workers |-> NULL]
  /\ toM = [w \in Workers |-> <<>>]
  /\ toW = [w \in Workers |-> <<>>]
  /\ bcasts = [w \in Workers |-> <<>>]

ManagerStep ==
  \/ \E ids \in JobLists : ManagerEnter(ids) \/ ManagerRefuse(ids)
  \/ \E w \in Workers : HandOut(w) \/ SendHome(w) \/ Collect(w) \/ CloseWorker(w)
  \/ ManagerLeave
  \/ ManagerGoesOn

WorkerStep(w) ==
  \/ AskForJob(w)
  \/ ReceiveAnswer(w)
  \/ RunJob(w)
  \/ CrashInJob(w)
  \/ SayExiting(w)
  \/ WorkerResult(w)
  \/ WorkerGoesOn(w)

Next ==
  \/ ManagerStep
  \/ \E w \in Workers : WorkerStep(w)
  \/ PassBarrier
  \/ Terminating

\* A rank is sure to go on only when its messages have been received.
Fairness ==
  /\ WF_vars((\A w \in Workers : toW[w] = <<>>) /\ ManagerStep)
  /\ \A w \in Workers : WF_vars(toM[w] = <<>> /\ WorkerStep(w))
  /\ WF_vars(PassBarrier)

Spec == Init /\ [][Next]_vars /\ Fairness

------------------------------------------------------------------------------
(* Correctness                                                             *)

\* Every variable holds a value of its kind; a count of closed workers never
\* exceeds the number of workers (task.pull.manager's while condition).
TypeOK ==
  /\ mpc \in {"enter", "stopped", "loop", "return", "done"}
  /\ mcall \in 1..Calls
  /\ asked \in Seq(Nat) /\ jids \in Seq(Nat)
  /\ closed \in 0..Cardinality(Workers)
  /\ ret \in Seq(Results \cup {NULL})
  /\ wpc \in [Workers -> {"top", "wait", "run", "crashed", "exit", "left", "return", "done"}]
  /\ wcall \in [Workers -> 1..Calls]
  /\ hold \in [Workers -> Nat]
  /\ got \in [Workers -> Seq(Results \cup {NULL}) \cup {NULL}]
  /\ toM \in [Workers -> Seq(ToManager)]
  /\ toW \in [Workers -> Seq(ToWorker)]
  /\ bcasts \in [Workers -> Seq(Seq(Results \cup {NULL}))]

\* When the manager's loop ends, every id asked for has a result of its own,
\* computed by FUN of this very call and stored at its own index.
CompleteResult ==
  mpc = "return" =>
    \A i \in 1..Len(asked) :
      /\ InBounds(ret, asked[i])
      /\ ret[asked[i]] # NULL
      /\ ret[asked[i]].jid = asked[i] /\ ret[asked[i]].call = mcall

\* When the manager's loop ends no message of the protocol is left over: the
\* next receive with anysource and anytag would otherwise take it.
ChannelsQuiet ==
  mpc = "return" => \A w \in Workers : toM[w] = <<>> /\ toW[w] = <<>>

\* With bcast = TRUE every rank returns the manager's list of that call.
BcastAgreement ==
  Bcast /\ mpc = "return" =>
    \A w \in Workers : wpc[w] = "return" /\ wcall[w] = mcall => got[w] = ret

\* A worker evaluates FUN of its own call only for a manager that is in the
\* loop of that call: consecutive calls do not share out each other's jobs.
CallsDoNotMix ==
  \A w \in Workers : wpc[w] = "run" => mpc = "loop" /\ wcall[w] = mcall

\* closed.workers counts workers that have left their loop in this call of
\* task.pull() ("A worker has closed down.").
ClosedMeansLeft ==
  mpc = "loop" =>
    closed <= Cardinality({w \in Workers :
                \/ wcall[w] > mcall
                \/ wcall[w] = mcall /\ wpc[w] \in {"left", "return", "done"}})

\* Every rank returns from every call: nobody waits for a message that is not
\* sent, even when each MPI_Send waits for its receiver.
Termination == <>Finished

\* The manager and its workers implement the pool of jobs.
Pool == INSTANCE JobPool WITH
  Kinds   <- {"value", "try-error"},
  phase   <- CASE mpc \in {"enter", "stopped"} -> "idle"
               [] mpc = "loop" -> "open"
               [] OTHER -> "returned",
  call    <- mcall,
  ids     <- asked,
  results <- ret

ImplementsJobPool == Pool!Spec
=============================================================================
