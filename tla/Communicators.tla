--------------------------- MODULE Communicators ----------------------------
(***************************************************************************)
(* The life of pbdMPI in the processes of one job: the package is loaded,  *)
(* initialized, finalized, unloaded and loaded again (R/zzz.r.in,          *)
(* src/spmd.c); the tables of MPI handles are allocated, freed and passed  *)
(* through .__MPI_APTS__ (src/pkg_tools.c); communicators are split,       *)
(* duplicated and freed under the numbers of the table                     *)
(* (src/spmd_communicator.c), and the two-stage collectives of             *)
(* R/api_split.r run over two of them.                                     *)
(*                                                                         *)
(* All ranks run the same calls.  A call is a sequence of operations of    *)
(* MPI; a rank enters one and leaves it as MPI allows.                     *)
(***************************************************************************)
EXTENDS Integers, Sequences, FiniteSetsExt, SequencesExt

CONSTANTS
  P,        \* the size of MPI_COMM_WORLD; the ranks are 0..P-1
  Handles,  \* the numbers of communicators, 0 and up
  Programs  \* what the job runs: [calls, node], node[r] the host of rank r

ASSUME SizeAssumption == P \in Nat \ {0}
ASSUME HandlesAssumption == Handles \subseteq Nat /\ {0, 3, 4} \subseteq Handles

Ranks == 0..(P - 1)

\* A communicator: the operation that made it and its members, in order.
World == [made |-> <<0, "init", 0>>, group |-> [k \in 1..P |-> k - 1]]
MPI_COMM_NULL == [made |-> <<0, "none", 0>>, group |-> <<>>]
Undefined == -1      \* a color: NA or negative, MPI_UNDEFINED
comm_within == 3     \* SPMD.CT()$comm.within, $comm.between
comm_between == 4

VARIABLES
  program,   \* the program that runs
  done,      \* done[r]: the calls r has returned from
  step,      \* step[r]: the operations of the next one that r has left
  at,        \* at[r]: "out" of MPI, "in" an operation, or how r ended
  proc,      \* proc[r]: the package in the process of r, see Fresh
  heap,      \* heap[r]: the tables of MPI handles that r has allocated
  entered,   \* entered[r]: the operations r has entered: [op, rank, comm, arg]
  x,         \* x[r]: the vector the two-stage collectives work on
  returned   \* returned[r]: what the calls of r returned

vars == <<program, done, step, at, proc, heap, entered, x, returned>>

\*   mpi        has MPI been initialized, finalized?
\*   lib        the library loaded, by the number of its load; 0: none
\*   loads      how often it has been loaded
\*   first      WHO_LOAD_FIRST
\*   table      global_spmd_comm: the number of a table, 0 for NULL
\*   struct     MPI_APTS.comm
\*   apts       .__MPI_APTS__: the library whose MPI_APTS it points to; 0: no such variable
\*   allocated  how many tables have been allocated
\*   live       those of them that have not been freed
Fresh ==
  [mpi |-> "no", lib |-> 0, loads |-> 0, first |-> "UNSET", table |-> 0, struct |-> 0,
   apts |-> 0, allocated |-> 0, live |-> {}]

Running(r) == done[r] < Len(program.calls) /\ at[r] \in {"out", "in"}
Call(r) == program.calls[done[r] + 1]
Calls(r, ops) == Running(r) /\ at[r] = "out" /\ step[r] = 0 /\ Call(r).op \in ops

Ended(r, how) == at' = [at EXCEPT ![r] = how]
Done(r) == done' = [done EXCEPT ![r] = @ + 1] /\ step' = [step EXCEPT ![r] = 0] /\ Ended(r, "out")
Return(r, v) == returned' = [returned EXCEPT ![r] = Append(@, [call |-> Call(r), value |-> v])]

------------------------------------------------------------------------------
(* Loading, initializing, finalizing, unloading                            *)

NewTable == [h \in Handles |-> IF h = 0 THEN World ELSE MPI_COMM_NULL]

\* arrange_MPI_APTS(): set_MPI_APTS_in_R() or get_MPI_APTS_from_R().
Arranged(p) ==
  IF p.apts = 0 THEN [p EXCEPT !.first = "PBDMPI", !.apts = p.lib, !.struct = p.table]
  ELSE [p EXCEPT !.table = p.struct]

\* .__MPI_APTS__ points into a library that is gone.
Dangling(p) == p.apts \notin {0, p.lib}

\* What spmd_initialize() does before its collective.
Allocated(p) ==
  IF p.table = 0
  THEN [p EXCEPT !.mpi = "running", !.table = p.allocated + 1, !.allocated = p.allocated + 1,
                 !.live = p.live \cup {p.allocated + 1}]
  ELSE [p EXCEPT !.mpi = "running"]
HeapWith(r, p) == heap' = [heap EXCEPT ![r] = IF p.table = 0 THEN Append(@, NewTable) ELSE @]

\* The end of spmd_initialize(): arrange_MPI_APTS().
Arrange(r, p) ==
  IF Dangling(p)
  THEN proc' = [proc EXCEPT ![r] = p] /\ Ended(r, "wild") /\ UNCHANGED <<done, step>>
  ELSE proc' = [proc EXCEPT ![r] = Arranged(p)] /\ Done(r)

\* The library's variables as library.dynam() finds them.
Loaded(p) ==
  [p EXCEPT !.lib = p.loads + 1, !.loads = p.loads + 1, !.first = "UNSET", !.table = 0,
            !.struct = 0]

Entered(r, kind, new, comm, arg) ==
  entered' = [entered EXCEPT ![r] =
    Append(@, [op |-> <<done[r] + 1, kind, new>>, rank |-> r, comm |-> comm, arg |-> arg])]

\* MPI refuses calls once it is finalized, and that includes the first ones of
\* spmd_initialize(); else a new library makes the communicator of the host,
\* with all ranks.
LoadStart(r, p) ==
  IF p.mpi = "finalized"
  THEN proc' = [proc EXCEPT ![r] = p] /\ Ended(r, "aborted") /\ UNCHANGED <<heap, entered>>
  ELSE /\ proc' = [proc EXCEPT ![r] = Allocated(p)]
       /\ HeapWith(r, p)
       /\ Entered(r, "split_type", 0, World, <<>>)
       /\ Ended(r, "in")

\* Slip: .onLoad() leaves the old .__MPI_APTS__.
Load_KeepsApts(r) ==
  /\ Calls(r, {"load"})
  /\ proc[r].lib = 0
  /\ LoadStart(r, Loaded(proc[r]))
  /\ UNCHANGED <<program, done, step, x, returned>>

\* .onLoad(), which removes .__MPI_APTS__ first.
Load(r) ==
  /\ Calls(r, {"load"})
  /\ proc[r].lib = 0
  /\ LoadStart(r, [Loaded(proc[r]) EXCEPT !.apts = 0])
  /\ UNCHANGED <<program, done, step, x, returned>>

\* init() in a library that .onLoad() has initialized.
Init_(r) ==
  /\ Calls(r, {"init"})
  /\ proc[r].lib # 0
  /\ IF proc[r].mpi = "finalized"
     THEN Ended(r, "aborted") /\ UNCHANGED <<done, step, proc, heap>>
     ELSE Arrange(r, Allocated(proc[r])) /\ HeapWith(r, proc[r])
  /\ UNCHANGED <<program, entered, x, returned>>

\* spmd_finalize(): R_Free() of the tables, by who allocated them.
Freed(p, finalize) ==
  IF finalize /\ p.mpi = "running" /\ p.first = "PBDMPI" /\ p.table # 0
  THEN [p EXCEPT !.live = p.live \ {p.table}, !.table = 0]
  ELSE p

\* library.dynam.unload()
Unloaded(p) == [p EXCEPT !.lib = 0, !.table = 0, !.struct = 0]

\* Before MPI_Finalize(): finalize(), or .onUnload(), which calls it.
FinalizeStart(r) ==
  /\ Calls(r, {"finalize", "unload"})
  /\ proc[r].lib # 0
  /\ LET p == Freed(proc[r], Call(r).mpi_finalize) IN
     IF Call(r).mpi_finalize /\ p.mpi = "running"
     THEN /\ proc' = [proc EXCEPT ![r] = p]
          /\ Entered(r, "finalize", 0, World, <<>>)
          /\ Ended(r, "in")
          /\ UNCHANGED <<done, step>>
     ELSE /\ proc' = [proc EXCEPT ![r] = IF Call(r).op = "unload" THEN Unloaded(p) ELSE p]
          /\ Done(r)
          /\ UNCHANGED entered
  /\ UNCHANGED <<program, heap, x, returned>>

\* MPI_Finalize() returns.
FinalizeEnd(r) ==
  /\ Running(r) /\ at[r] = "in" /\ Call(r).op \in {"finalize", "unload"}
  /\ LET p == [proc[r] EXCEPT !.mpi = "finalized"] IN
     proc' = [proc EXCEPT ![r] = IF Call(r).op = "unload" THEN Unloaded(p) ELSE p]
  /\ Done(r)
  /\ UNCHANGED <<program, heap, entered, x, returned>>

\* arrange.mpi.apts() removes the variable and makes it again.
ArrangeApts(r) ==
  /\ Calls(r, {"arrange"})
  /\ proc[r].lib # 0
  /\ proc' = [proc EXCEPT ![r] = Arranged([proc[r] EXCEPT !.apts = 0])]
  /\ Done(r)
  /\ UNCHANGED <<program, heap, entered, x, returned>>

------------------------------------------------------------------------------
(* Reading the table                                                       *)

HasTable(r) == proc[r].table # 0
Handle(r, h) == heap[r][proc[r].table][h]
Index(r, comm) == (CHOOSE k \in 1..Len(comm.group) : comm.group[k] = r) - 1

\* comm.is.null(), comm.size() and comm.rank() of a table that is there.
Asked(r, c, v) ==
  CASE c.op = "is.null" -> v = IF Handle(r, c.comm) = MPI_COMM_NULL THEN 1 ELSE 0
    [] c.op = "size" -> v = Len(Handle(r, c.comm).group)
    [] c.op = "rank" /\ Handle(r, c.comm) # MPI_COMM_NULL -> v = Index(r, Handle(r, c.comm))
    [] c.op = "rank" /\ Handle(r, c.comm) = MPI_COMM_NULL -> TRUE \* int rank, never assigned

\* comm.is.null() says -1 when there is no table; comm.size() takes that for a
\* communicator and reads the table, as comm.rank() does.
Ask(r) ==
  /\ Calls(r, {"is.null", "size", "rank"})
  /\ proc[r].lib # 0
  /\ CASE ~ HasTable(r) /\ Call(r).op = "is.null" -> Return(r, -1) /\ Done(r)
       [] ~ HasTable(r) /\ Call(r).op # "is.null" ->
            Ended(r, "crashed") /\ UNCHANGED <<done, step, returned>>
       [] HasTable(r) /\ proc[r].mpi = "finalized" ->
            Ended(r, "aborted") /\ UNCHANGED <<done, step, returned>>
       [] HasTable(r) /\ proc[r].mpi # "finalized" ->
            \E v \in -1..P : Asked(r, Call(r), v) /\ Return(r, v) /\ Done(r)
  /\ UNCHANGED <<program, proc, heap, entered, x>>

------------------------------------------------------------------------------
(* The operations of MPI that a call is made of                            *)

Op(kind, comm, new, arg) == [kind |-> kind, comm |-> comm, new |-> new, arg |-> arg]
Color(c) == IF c < 0 THEN Undefined ELSE c

\* Slip: the last rank of a host speaks for it.
FirstOfHost_Last(r) == \A q \in Ranks : program.node[q] = program.node[r] => q <= r

\* which(id.within == i.unique)[1]
FirstOfHost(r) == \A q \in Ranks : program.node[q] = program.node[r] => r <= q

\* api.comm.split.by.node()
ByNode(r) ==
  <<Op("allgather", 0, 0, <<program.node[r]>>),
    Op("split", 0, comm_within, <<program.node[r], r>>),
    Op("split", 0, comm_between, <<IF FirstOfHost(r) THEN 0 ELSE Undefined, r>>)>>

Between(kinds) == [k \in 1..Len(kinds) |-> Op(kinds[k], comm_between, 0, <<>>)]

\* Slip: ranks that have no communicator between hosts are done.
Stages_HeadsOnly(r, first, second) ==
  <<Op(first, comm_within, 0, <<>>)>>
  \o (IF Handle(r, comm_between) = MPI_COMM_NULL THEN <<>>
      ELSE Between(second) \o <<Op("bcast", comm_within, 0, <<>>)>>)

\* api.allreduce.integer(), api.allgather.integer(): the second stage is for
\* the ranks that have a communicator between hosts.
Stages(r, first, second) ==
  <<Op(first, comm_within, 0, <<>>)>>
  \o (IF Handle(r, comm_between) = MPI_COMM_NULL THEN <<>> ELSE Between(second))
  \o <<Op("bcast", comm_within, 0, <<>>)>>

\* The calls on the communicator table, and those of api_split.r in two stages.
TableCalls == {"barrier", "split", "dup", "free", "disconnect"}
StageCalls == {"by.node", "allreduce2", "allgather2"}

Ops(r) ==
  LET c == Call(r) IN
  CASE c.op = "split" -> <<Op("split", c.comm, c.newcomm, <<Color(c.color[r]), c.key[r]>>)>>
    [] c.op = "dup" -> <<Op("dup", c.comm, c.newcomm, <<>>)>>
    [] c.op \in {"free", "disconnect"} -> <<Op("free", c.comm, c.comm, <<>>)>>
    [] c.op = "by.node" -> ByNode(r)
    [] c.op = "allreduce2" -> Stages(r, "reduce", <<"allreduce">>)
    [] c.op = "allgather2" -> Stages(r, "gather", <<"allgather", "allgatherv">>)
    [] c.op = "barrier" -> <<Op("barrier", c.comm, 0, <<>>)>>

\* spmd_comm_dup() takes MPI_COMM_WORLD for number 0, whatever is in the table.
CommOf(r, op) == IF op.kind = "dup" /\ op.comm = 0 THEN World ELSE Handle(r, op.comm)

\* The argument of a two-stage collective is a vector of one integer.
Argument(r) == CASE Call(r).op = "allreduce2" -> <<4^r>> [] Call(r).op = "allgather2" -> <<r>>
                 [] OTHER -> <<>>
Vector(r) == IF step[r] = 0 THEN Argument(r) ELSE x[r]

Enter(r) ==
  /\ Running(r) /\ at[r] = "out" /\ Call(r).op \in TableCalls \cup StageCalls
  /\ proc[r].lib # 0
  /\ CASE ~ HasTable(r) -> Ended(r, "crashed") /\ UNCHANGED <<entered, x>>
       [] HasTable(r) /\ proc[r].mpi = "finalized" ->
            Ended(r, "aborted") /\ UNCHANGED <<entered, x>>
       [] HasTable(r) /\ proc[r].mpi # "finalized" ->
            LET op == Ops(r)[step[r] + 1]
                comm == CommOf(r, op)
            IN  IF comm = MPI_COMM_NULL \/ (op.kind = "free" /\ comm = World)
                THEN Ended(r, "stopped") /\ UNCHANGED <<entered, x>>
                ELSE /\ Entered(r, op.kind, op.new, comm,
                              IF op.kind = "split" THEN op.arg ELSE Vector(r))
                     /\ x' = [x EXCEPT ![r] = Vector(r)]
                     /\ Ended(r, "in")
  /\ UNCHANGED <<program, done, step, proc, heap, returned>>

\* The operation r is in, and what its members have entered of it.
Mine(r) == entered[r][Len(entered[r])]
Peers(r) ==
  {e \in UNION {ToSet(entered[q]) : q \in ToSet(Mine(r).comm.group)} :
     e.op = Mine(r).op /\ e.comm = Mine(r).comm}
Of(peers, q) == CHOOSE e \in peers : e.rank = q
Complete(r) == Cardinality(Peers(r)) = Len(Mine(r).comm.group)
Root(r) == Mine(r).comm.group[1]
RootThere(r) == \E e \in Peers(r) : e.rank = Root(r)

\* When MPI lets r out: a root may not wait for its broadcast, the others not
\* for a reduction, and freeing need not wait for anyone.
MayLeave(r, kind) ==
  CASE kind \in {"barrier", "split", "dup", "allgather", "allreduce", "allgatherv"} -> Complete(r)
    [] kind \in {"reduce", "gather"} -> r = Root(r) => Complete(r)
    [] kind = "bcast" -> RootThere(r)
    [] kind = "free" -> TRUE

\* The members of r's color, by key and then in the order of the communicator.
Split(r) ==
  LET me == Mine(r)
      peers == Peers(r)
      arg(q) == Of(peers, q).arg
      before(a, b) == \/ arg(a)[2] < arg(b)[2]
                      \/ arg(a)[2] = arg(b)[2] /\ Index(a, me.comm) < Index(b, me.comm)
  IN  IF me.arg[1] = Undefined THEN MPI_COMM_NULL
      ELSE [made |-> me.op,
            group |-> SetToSortSeq({q \in ToSet(me.comm.group) : arg(q)[1] = me.arg[1]}, before)]

NewComm(r, kind) ==
  CASE kind = "split" -> Split(r)
    [] kind = "dup" -> [made |-> Mine(r).op, group |-> Mine(r).comm.group]
    [] kind = "free" -> MPI_COMM_NULL

Sum(r) == <<MapThenSumSet(LAMBDA e : e.arg[1], Peers(r))>>
Gathered(r) ==
  LET group == Mine(r).comm.group
      peers == Peers(r)
  IN  FlattenSeq([k \in 1..Len(group) |-> Of(peers, group[k]).arg])
Zeros(n) == [k \in 1..n |-> 0]

\* What r has after the operation; not being the root of a reduction, the
\* zeros of its buffer.
Outcome(r, kind) ==
  CASE kind = "allreduce" -> Sum(r)
    [] kind = "reduce" -> IF r = Root(r) THEN Sum(r) ELSE Zeros(1)
    [] kind = "allgatherv" -> Gathered(r)
    [] kind = "gather" -> IF r = Root(r) THEN Gathered(r) ELSE Zeros(P)
    [] kind = "bcast" -> Of(Peers(r), Root(r)).arg
    [] OTHER -> x[r]

\* The second half of .onLoad().
LoadEnd(r) ==
  /\ Running(r) /\ at[r] = "in" /\ Call(r).op = "load"
  /\ Complete(r)
  /\ Arrange(r, proc[r])
  /\ UNCHANGED <<program, heap, entered, x, returned>>

Leave(r) ==
  /\ Running(r) /\ at[r] = "in" /\ Call(r).op \in TableCalls \cup StageCalls
  /\ LET kind == Mine(r).op[2]
         new == Mine(r).op[3]
     IN
     /\ MayLeave(r, kind)
     /\ heap' = IF kind \in {"split", "dup", "free"}
                THEN [heap EXCEPT ![r][proc[r].table][new] = NewComm(r, kind)]
                ELSE heap
     /\ x' = [x EXCEPT ![r] = Outcome(r, kind)]
     /\ IF step[r] + 1 < Len(Ops(r))
        THEN step' = [step EXCEPT ![r] = @ + 1] /\ Ended(r, "out") /\ UNCHANGED <<done, returned>>
        ELSE Done(r) /\ Return(r, Outcome(r, kind))
  /\ UNCHANGED <<program, proc, entered>>

------------------------------------------------------------------------------
(* The job                                                                 *)

\* R finds no function of a package that is not loaded, and does not load it twice.
NotThere(r) ==
  /\ Running(r) /\ at[r] = "out" /\ step[r] = 0
  /\ IF proc[r].lib = 0 THEN Call(r).op # "load" ELSE Call(r).op = "load"
  /\ IF proc[r].lib = 0
     THEN Ended(r, "stopped") /\ UNCHANGED <<done, step>>
     ELSE Done(r)
  /\ UNCHANGED <<program, proc, heap, entered, x, returned>>

Init ==
  /\ program \in Programs
  /\ done = [r \in Ranks |-> 0]
  /\ step = [r \in Ranks |-> 0]
  /\ at = [r \in Ranks |-> "out"]
  /\ proc = [r \in Ranks |-> Fresh]
  /\ heap = [r \in Ranks |-> <<>>]
  /\ entered = [r \in Ranks |-> <<>>]
  /\ x = [r \in Ranks |-> <<>>]
  /\ returned = [r \in Ranks |-> <<>>]

Step(r) ==
  \/ Load(r) \/ LoadEnd(r) \/ Init_(r)
  \/ FinalizeStart(r) \/ FinalizeEnd(r) \/ ArrangeApts(r)
  \/ Ask(r) \/ Enter(r) \/ Leave(r) \/ NotThere(r)

Next == \E r \in Ranks : Step(r)

\* MPI is only sure to let a rank out of an operation that everyone has entered.
SureStep == \E r \in Ranks : (at[r] = "in" => Complete(r)) /\ Step(r)
Fairness == WF_vars(SureStep)

Spec == Init /\ [][Next]_vars /\ Fairness

------------------------------------------------------------------------------
(* Properties                                                              *)

\* A pointer that is not NULL points to memory that has not been freed,
\* .__MPI_APTS__ is not read when it points into a library that was unloaded
\* (R/zzz.r.in:97-99, src/pkg_tools.c:20-28), and the tables are kept as long as
\* MPI runs: a rank that finds none has called finalize(mpi.finalize = TRUE).
PointersHold ==
  \A r \in Ranks :
    /\ at[r] # "wild"
    /\ proc[r].table # 0 => proc[r].table \in proc[r].live
    /\ at[r] = "crashed" => proc[r].mpi = "finalized"

\* However the ranks lie on hosts, the two-stage reduction gives every rank the
\* sum over all ranks, and the two-stage gathering the values of all ranks: host
\* by host in the order of the hosts' first ranks ("rank order may not be in
\* default", R/api_split.r:84), the ranks of a host in their order.
ByHost(a, b) ==
  LET first(r) == Min({q \in Ranks : program.node[q] = program.node[r]})
  IN  first(a) < first(b) \/ (first(a) = first(b) /\ a < b)
TwoStages ==
  \A r \in Ranks : \A k \in 1..Len(returned[r]) :
    /\ returned[r][k].call.op = "allreduce2"
         => returned[r][k].value = <<MapThenSumSet(LAMBDA q : 4^q, Ranks)>>
    /\ returned[r][k].call.op = "allgather2"
         => returned[r][k].value = SetToSortSeq(Ranks, ByHost)

\* Every rank runs to the end of its program, unless one of them was stopped by
\* an error.
EveryoneEnds ==
  <>(\/ \A r \in Ranks : done[r] = Len(program.calls)
     \/ \E r \in Ranks : at[r] \in {"stopped", "crashed", "aborted"})
=============================================================================
