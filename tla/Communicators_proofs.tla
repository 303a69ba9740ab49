------------------------ MODULE Communicators_proofs -------------------------
(***************************************************************************)
(* PointersHold of Communicators, for any number of ranks, any numbers of  *)
(* communicators and any programs: however often a job loads, initializes, *)
(* finalizes and unloads the package, and wherever its ranks are in the    *)
(* operations of MPI.                                                      *)
(***************************************************************************)
EXTENDS Communicators, TLAPS

Lives ==
  [mpi : {"no", "running", "finalized"}, lib : Nat, loads : Nat, first : {"UNSET", "PBDMPI"},
   table : Nat, struct : Nat, apts : Nat, allocated : Nat, live : SUBSET Nat]

LifeTypes ==
  /\ proc \in [Ranks -> Lives]
  /\ at \in [Ranks -> {"out", "in", "wild", "aborted", "stopped", "crashed"}]
  /\ done \in [Ranks -> Nat]

\* The package can be used: it has its table, which .__MPI_APTS__ leads to.
Usable(p) ==
  p.mpi = "running" /\ p.lib # 0 /\ p.table # 0 /\ p.apts = p.lib /\ p.struct = p.table

\* spmd_initialize() is in its collective: there is no .__MPI_APTS__ yet.
HalfLoaded(p) ==
  p.mpi = "running" /\ p.lib # 0 /\ p.table # 0 /\ p.apts = 0

\* What keeps the pointers of one rank: a package that is loaded while MPI runs
\* is usable, except in the middle of .onLoad() and of spmd_finalize().
LifeOf(r) ==
  /\ proc[r].table # 0 => proc[r].table \in proc[r].live
  /\ at[r] # "wild"
  /\ at[r] = "crashed" => proc[r].mpi = "finalized"
  /\ at[r] # "in" => proc[r].lib = 0 \/ proc[r].mpi = "finalized" \/ Usable(proc[r])
  /\ at[r] = "in" /\ Call(r).op = "load" => HalfLoaded(proc[r])
  /\ at[r] = "in" /\ Call(r).op \in TableCalls \cup StageCalls => Usable(proc[r])

LifeInv == LifeTypes /\ \A r \in Ranks : LifeOf(r)

------------------------------------------------------------------------------
(* The operations on one process.                                          *)

\* A new library starts with a table of its own.
LEMMA AllocatedIsHalfLoaded ==
  ASSUME NEW p \in Lives, p.lib # 0, p.apts = 0, p.table = 0
  PROVE  /\ Allocated(p) \in Lives
         /\ HalfLoaded(Allocated(p))
         /\ Allocated(p).table \in Allocated(p).live
<1> DEFINE n == p.allocated + 1
<1>1. n \in Nat /\ n # 0 /\ p.live \cup {n} \in SUBSET Nat
  BY DEF Lives
<1>2. Allocated(p) = [p EXCEPT !.mpi = "running", !.table = n, !.allocated = n,
                               !.live = p.live \cup {n}]
  BY DEF Allocated
<1> HIDE DEF n
<1>3. QED
  BY <1>1, <1>2 DEF Lives, HalfLoaded

\* The end of spmd_initialize() makes a package usable that is half loaded or
\* that was usable before, and it never follows a stale pointer.
LEMMA ArrangedIsUsable ==
  ASSUME NEW p \in Lives, HalfLoaded(p) \/ Usable(p), p.table \in p.live
  PROVE  /\ ~ Dangling(p)
         /\ Arranged(p) \in Lives
         /\ Usable(Arranged(p))
         /\ Arranged(p).table \in Arranged(p).live
BY DEF Lives, HalfLoaded, Usable, Dangling, Arranged

\* arrange.mpi.apts() does no harm at any time.
LEMMA ArrangeAptsKeeps ==
  ASSUME NEW p \in Lives, p.table # 0 => p.table \in p.live,
         p.mpi = "finalized" \/ Usable(p)
  PROVE  LET n == Arranged([p EXCEPT !.apts = 0]) IN
         /\ n \in Lives
         /\ n.table # 0 => n.table \in n.live
         /\ n.mpi = "finalized" \/ Usable(n)
BY DEF Lives, Usable, Arranged

\* Freeing takes the pointer with the memory.
LEMMA FreedKeeps ==
  ASSUME NEW p \in Lives, NEW b, p.table # 0 => p.table \in p.live
  PROVE  /\ Freed(p, b) \in Lives
         /\ Freed(p, b).table # 0 => Freed(p, b).table \in Freed(p, b).live
         /\ Freed(p, b).mpi = p.mpi
         /\ Freed(p, b).lib = p.lib
         /\ ~ (b /\ p.mpi = "running") => Freed(p, b) = p
BY DEF Lives, Freed

------------------------------------------------------------------------------
(* A step of rank r.                                                       *)

\* The other ranks keep what the invariant says of them.
LEMMA OthersKeep ==
  ASSUME LifeInv, NEW r \in Ranks, NEW q \in Ranks, q # r,
         proc'[q] = proc[q], at'[q] = at[q], done'[q] = done[q], program' = program
  PROVE  LifeOf(q)'
BY DEF LifeInv, LifeOf, Call

\* One rank moves: the types stay, and LifeOf holds of it if it holds of the
\* process and the place it has now.
LEMMA OneMoves ==
  ASSUME LifeInv, NEW r \in Ranks, NEW p \in Lives,
         NEW how \in {"out", "in", "wild", "aborted", "stopped", "crashed"},
         proc' = [proc EXCEPT ![r] = p], at' = [at EXCEPT ![r] = how],
         done' = done \/ done' = [done EXCEPT ![r] = @ + 1],
         program' = program,
         LifeOf(r)'
  PROVE  LifeInv'
<1>1. LifeTypes'
  BY DEF LifeInv, LifeTypes
<1>2. \A q \in Ranks : LifeOf(q)'
  <2>1. SUFFICES ASSUME NEW q \in Ranks, q # r PROVE LifeOf(q)'
    OBVIOUS
  <2>2. proc'[q] = proc[q] /\ at'[q] = at[q] /\ done'[q] = done[q]
    BY <2>1 DEF LifeInv, LifeTypes
  <2>3. QED
    BY <2>1, <2>2, OthersKeep
<1>3. QED
  BY <1>1, <1>2 DEF LifeInv

\* LifeOf(r) after a step to "out" with a process that is in order.
LEMMA OutInOrder ==
  ASSUME LifeInv, NEW r \in Ranks, NEW p \in Lives,
         NEW how \in {"out", "stopped", "aborted"},
         proc' = [proc EXCEPT ![r] = p], at' = [at EXCEPT ![r] = how],
         p.table # 0 => p.table \in p.live,
         p.lib = 0 \/ p.mpi = "finalized" \/ Usable(p)
  PROVE  LifeOf(r)'
<1>1. proc'[r] = p /\ at'[r] = how
  BY DEF LifeInv, LifeTypes
<1>2. QED
  BY <1>1 DEF LifeOf, Usable

LEMMA LoadKeeps ==
  ASSUME LifeInv, NEW r \in Ranks, Load(r)
  PROVE  LifeInv'
<1> DEFINE p == [Loaded(proc[r]) EXCEPT !.apts = 0]
<1>1. /\ proc[r] \in Lives /\ done' = done /\ program' = program
      /\ Call(r).op = "load" /\ Call(r)' = Call(r)
  BY DEF Load, Calls, LifeInv, LifeTypes, Call
<1>2. /\ p \in Lives /\ p.lib # 0 /\ p.apts = 0 /\ p.table = 0
      /\ p.mpi = proc[r].mpi
  <2> DEFINE n == proc[r].loads + 1
  <2>1. n \in Nat /\ n # 0
    BY <1>1 DEF Lives
  <2>2. p = [proc[r] EXCEPT !.lib = n, !.loads = n, !.first = "UNSET", !.table = 0,
                            !.struct = 0, !.apts = 0]
    BY <1>1 DEF Loaded, Lives
  <2> HIDE DEF p, n
  <2>3. QED
    BY <1>1, <2>1, <2>2 DEF Lives
<1>3. LoadStart(r, p)
  BY DEF Load
<1> HIDE DEF p
<1>4. CASE p.mpi = "finalized"
  <2>1. proc' = [proc EXCEPT ![r] = p] /\ at' = [at EXCEPT ![r] = "aborted"]
    BY <1>3, <1>4 DEF LoadStart, Ended
  <2>2. LifeOf(r)'
    BY <1>2, <1>4, <2>1, OutInOrder
  <2>3. QED
    BY <1>1, <1>2, <2>1, <2>2, OneMoves
<1>5. CASE p.mpi # "finalized"
  <2>1. proc' = [proc EXCEPT ![r] = Allocated(p)] /\ at' = [at EXCEPT ![r] = "in"]
    BY <1>3, <1>5 DEF LoadStart, Ended
  <2>2. Allocated(p) \in Lives /\ HalfLoaded(Allocated(p)) /\ Allocated(p).table \in Allocated(p).live
    BY <1>2, AllocatedIsHalfLoaded
  <2>3. proc'[r] = Allocated(p) /\ at'[r] = "in"
    BY <2>1 DEF LifeInv, LifeTypes
  <2>4. LifeOf(r)'
    BY <1>1, <2>2, <2>3 DEF LifeOf, TableCalls, StageCalls
  <2>5. QED
    BY <1>1, <2>1, <2>2, <2>4, OneMoves
<1>6. QED
  BY <1>4, <1>5

\* Both ends of spmd_initialize().
LEMMA ArrangeKeeps ==
  ASSUME LifeInv, NEW r \in Ranks, NEW p \in Lives, HalfLoaded(p) \/ Usable(p), p.table \in p.live,
         Arrange(r, p), program' = program
  PROVE  LifeInv'
<1>1. /\ ~ Dangling(p) /\ Arranged(p) \in Lives /\ Usable(Arranged(p))
      /\ Arranged(p).table \in Arranged(p).live
  BY ArrangedIsUsable
<1>2. /\ proc' = [proc EXCEPT ![r] = Arranged(p)] /\ at' = [at EXCEPT ![r] = "out"]
      /\ done' = [done EXCEPT ![r] = @ + 1]
  BY <1>1 DEF Arrange, Done, Ended
<1>3. LifeOf(r)'
  BY <1>1, <1>2, OutInOrder
<1>4. QED
  BY <1>1, <1>2, <1>3, OneMoves

LEMMA LoadEndKeeps ==
  ASSUME LifeInv, NEW r \in Ranks, LoadEnd(r)
  PROVE  LifeInv'
<1>1. /\ proc[r] \in Lives /\ HalfLoaded(proc[r]) /\ proc[r].table \in proc[r].live
      /\ Arrange(r, proc[r]) /\ program' = program
  BY DEF LoadEnd, LifeInv, LifeTypes, LifeOf, HalfLoaded
<1>2. QED
  BY <1>1, ArrangeKeeps

LEMMA InitKeeps ==
  ASSUME LifeInv, NEW r \in Ranks, Init_(r)
  PROVE  LifeInv'
<1>1. /\ proc[r] \in Lives /\ at[r] = "out" /\ proc[r].lib # 0 /\ program' = program
      /\ proc[r].table # 0 => proc[r].table \in proc[r].live
      /\ proc[r].mpi = "finalized" \/ Usable(proc[r])
  BY DEF Init_, Calls, LifeInv, LifeTypes, LifeOf
<1>2. CASE proc[r].mpi = "finalized"
  <2>1. /\ proc' = [proc EXCEPT ![r] = proc[r]] /\ at' = [at EXCEPT ![r] = "aborted"]
        /\ done' = done
    BY <1>2 DEF Init_, Ended, LifeInv, LifeTypes
  <2>2. LifeOf(r)'
    BY <1>1, <1>2, <2>1, OutInOrder
  <2>3. QED
    BY <1>1, <2>1, <2>2, OneMoves
<1>3. CASE proc[r].mpi # "finalized"
  <2>1. Usable(proc[r]) /\ proc[r].table \in proc[r].live
    BY <1>1, <1>3 DEF Usable
  <2>2. Allocated(proc[r]) = proc[r]
    BY <1>1, <2>1 DEF Allocated, Usable, Lives
  <2>3. Arrange(r, proc[r])
    BY <1>3, <2>2 DEF Init_
  <2>4. QED
    BY <1>1, <2>1, <2>3, ArrangeKeeps
<1>4. QED
  BY <1>2, <1>3

LEMMA FinalizeStartKeeps ==
  ASSUME LifeInv, NEW r \in Ranks, FinalizeStart(r)
  PROVE  LifeInv'
<1> DEFINE b == Call(r).mpi_finalize
           p == Freed(proc[r], b)
<1>1. /\ proc[r] \in Lives /\ at[r] = "out" /\ program' = program
      /\ Call(r).op \in {"finalize", "unload"} /\ proc[r].lib # 0
      /\ proc[r].table # 0 => proc[r].table \in proc[r].live
      /\ proc[r].mpi = "finalized" \/ Usable(proc[r])
  BY DEF FinalizeStart, Calls, LifeInv, LifeTypes, LifeOf
<1>2. /\ p \in Lives /\ p.mpi = proc[r].mpi /\ p.lib = proc[r].lib
      /\ p.table # 0 => p.table \in p.live
      /\ ~ (b /\ p.mpi = "running") => p = proc[r]
  BY <1>1, FreedKeeps
<1>3. IF b /\ p.mpi = "running"
      THEN /\ proc' = [proc EXCEPT ![r] = p] /\ at' = [at EXCEPT ![r] = "in"]
           /\ done' = done
      ELSE /\ proc' = [proc EXCEPT ![r] = IF Call(r).op = "unload" THEN Unloaded(p) ELSE p]
           /\ Done(r)
  BY DEF FinalizeStart, Ended
<1> HIDE DEF p, b
<1>4. CASE b /\ p.mpi = "running"
  <2>1. /\ proc' = [proc EXCEPT ![r] = p] /\ at' = [at EXCEPT ![r] = "in"]
        /\ done' = done
    BY <1>3, <1>4
  <2>2. proc'[r] = p /\ at'[r] = "in" /\ Call(r)' = Call(r)
    BY <1>1, <2>1 DEF LifeInv, LifeTypes, Call
  <2>3. LifeOf(r)'
    BY <1>1, <1>2, <2>2 DEF LifeOf, TableCalls, StageCalls
  <2>4. QED
    BY <1>1, <1>2, <2>1, <2>3, OneMoves
<1>5. CASE ~ (b /\ p.mpi = "running")
  <2> DEFINE n == IF Call(r).op = "unload" THEN Unloaded(p) ELSE p
  <2>1. /\ proc' = [proc EXCEPT ![r] = n] /\ at' = [at EXCEPT ![r] = "out"]
        /\ done' = [done EXCEPT ![r] = @ + 1]
    BY <1>3, <1>5 DEF Done, Ended
  <2>2. /\ n \in Lives
        /\ n.table # 0 => n.table \in n.live
        /\ n.lib = 0 \/ n.mpi = "finalized" \/ Usable(n)
    BY <1>1, <1>2, <1>5 DEF Unloaded, Lives
  <2> HIDE DEF n
  <2>3. LifeOf(r)'
    BY <2>1, <2>2, OutInOrder
  <2>4. QED
    BY <1>1, <2>1, <2>2, <2>3, OneMoves
<1>6. QED
  BY <1>4, <1>5

LEMMA FinalizeEndKeeps ==
  ASSUME LifeInv, NEW r \in Ranks, FinalizeEnd(r)
  PROVE  LifeInv'
<1> DEFINE p == [proc[r] EXCEPT !.mpi = "finalized"]
           n == IF Call(r).op = "unload" THEN Unloaded(p) ELSE p
<1>1. /\ proc[r] \in Lives /\ program' = program
      /\ proc[r].table # 0 => proc[r].table \in proc[r].live
  BY DEF FinalizeEnd, LifeInv, LifeTypes, LifeOf
<1>2. /\ proc' = [proc EXCEPT ![r] = n] /\ at' = [at EXCEPT ![r] = "out"]
      /\ done' = [done EXCEPT ![r] = @ + 1]
  BY DEF FinalizeEnd, Done, Ended
<1>3. /\ n \in Lives
      /\ n.table # 0 => n.table \in n.live
      /\ n.mpi = "finalized"
  BY <1>1 DEF Unloaded, Lives
<1> HIDE DEF n
<1>4. LifeOf(r)'
  BY <1>2, <1>3, OutInOrder
<1>5. QED
  BY <1>1, <1>2, <1>3, <1>4, OneMoves

LEMMA ArrangeAptsInOrder ==
  ASSUME LifeInv, NEW r \in Ranks, ArrangeApts(r)
  PROVE  LifeInv'
<1> DEFINE n == Arranged([proc[r] EXCEPT !.apts = 0])
<1>1. /\ proc[r] \in Lives /\ program' = program
      /\ proc[r].table # 0 => proc[r].table \in proc[r].live
      /\ proc[r].mpi = "finalized" \/ Usable(proc[r])
  BY DEF ArrangeApts, Calls, LifeInv, LifeTypes, LifeOf
<1>2. /\ proc' = [proc EXCEPT ![r] = n] /\ at' = [at EXCEPT ![r] = "out"]
      /\ done' = [done EXCEPT ![r] = @ + 1]
  BY DEF ArrangeApts, Done, Ended
<1>3. /\ n \in Lives
      /\ n.table # 0 => n.table \in n.live
      /\ n.mpi = "finalized" \/ Usable(n)
  BY <1>1, ArrangeAptsKeeps
<1> HIDE DEF n
<1>4. LifeOf(r)'
  BY <1>2, <1>3, OutInOrder
<1>5. QED
  BY <1>1, <1>2, <1>3, <1>4, OneMoves

------------------------------------------------------------------------------
(* Steps that leave the process alone.                                     *)

\* A rank that finds no table has finalized MPI.
LEMMA AskKeeps ==
  ASSUME LifeInv, NEW r \in Ranks, Ask(r)
  PROVE  LifeInv'
<1>1. /\ proc[r] \in Lives /\ at[r] = "out" /\ proc[r].lib # 0 /\ program' = program
      /\ proc[r].table # 0 => proc[r].table \in proc[r].live
      /\ proc[r].mpi = "finalized" \/ Usable(proc[r])
      /\ proc' = [proc EXCEPT ![r] = proc[r]]
  BY DEF Ask, Calls, LifeInv, LifeTypes, LifeOf
<1>2. PICK how \in {"out", "aborted", "crashed"} :
        /\ at' = [at EXCEPT ![r] = how]
        /\ done' = done \/ done' = [done EXCEPT ![r] = @ + 1]
        /\ how = "crashed" => ~ HasTable(r)
  BY DEF Ask, Done, Ended
<1>3. proc'[r] = proc[r] /\ at'[r] = how
  BY <1>1, <1>2 DEF LifeInv, LifeTypes
<1>4. LifeOf(r)'
  BY <1>1, <1>2, <1>3 DEF LifeOf, Usable, HasTable
<1>5. QED
  BY <1>1, <1>2, <1>4, OneMoves

LEMMA EnterKeeps ==
  ASSUME LifeInv, NEW r \in Ranks, Enter(r)
  PROVE  LifeInv'
<1>1. /\ proc[r] \in Lives /\ at[r] = "out" /\ proc[r].lib # 0 /\ program' = program
      /\ proc[r].table # 0 => proc[r].table \in proc[r].live
      /\ proc[r].mpi = "finalized" \/ Usable(proc[r])
      /\ proc' = [proc EXCEPT ![r] = proc[r]] /\ done' = done
      /\ Call(r)' = Call(r) /\ Call(r).op \in TableCalls \cup StageCalls
  BY DEF Enter, Running, LifeInv, LifeTypes, LifeOf, Call
<1>2. PICK how \in {"in", "aborted", "crashed", "stopped"} :
        /\ at' = [at EXCEPT ![r] = how]
        /\ how = "crashed" => ~ HasTable(r)
        /\ how = "in" => proc[r].mpi # "finalized"
  BY DEF Enter, Ended
<1>3. proc'[r] = proc[r] /\ at'[r] = how
  BY <1>1, <1>2 DEF LifeInv, LifeTypes
<1>4. LifeOf(r)'
  BY <1>1, <1>2, <1>3 DEF LifeOf, Usable, HasTable, TableCalls, StageCalls
<1>5. QED
  BY <1>1, <1>2, <1>4, OneMoves

LEMMA LeaveKeeps ==
  ASSUME LifeInv, NEW r \in Ranks, Leave(r)
  PROVE  LifeInv'
<1>1. /\ proc[r] \in Lives /\ program' = program /\ Usable(proc[r])
      /\ proc[r].table # 0 => proc[r].table \in proc[r].live
      /\ proc' = [proc EXCEPT ![r] = proc[r]]
  BY DEF Leave, LifeInv, LifeTypes, LifeOf
<1>2. /\ at' = [at EXCEPT ![r] = "out"]
      /\ done' = done \/ done' = [done EXCEPT ![r] = @ + 1]
  BY DEF Leave, Done, Ended
<1>3. LifeOf(r)'
  BY <1>1, <1>2, OutInOrder
<1>4. QED
  BY <1>1, <1>2, <1>3, OneMoves

LEMMA NotThereKeeps ==
  ASSUME LifeInv, NEW r \in Ranks, NotThere(r)
  PROVE  LifeInv'
<1>1. /\ proc[r] \in Lives /\ program' = program
      /\ proc[r].table # 0 => proc[r].table \in proc[r].live
      /\ proc[r].lib = 0 \/ proc[r].mpi = "finalized" \/ Usable(proc[r])
      /\ proc' = [proc EXCEPT ![r] = proc[r]]
  BY DEF NotThere, LifeInv, LifeTypes, LifeOf
<1>2. PICK how \in {"out", "stopped"} :
        /\ at' = [at EXCEPT ![r] = how]
        /\ done' = done \/ done' = [done EXCEPT ![r] = @ + 1]
  BY DEF NotThere, Done, Ended
<1>3. LifeOf(r)'
  BY <1>1, <1>2, OutInOrder
<1>4. QED
  BY <1>1, <1>2, <1>3, OneMoves

------------------------------------------------------------------------------
\* The invariant holds of every run of every job.
LEMMA LifeInvariant == Spec => []LifeInv
<1>1. Init => LifeInv
  BY DEF Init, LifeInv, LifeTypes, LifeOf, Lives, Fresh
<1>2. ASSUME LifeInv, Next PROVE LifeInv'
  <2>1. PICK r \in Ranks : Step(r)
    BY <1>2 DEF Next
  <2>2. QED
    BY <1>2, <2>1, LoadKeeps, LoadEndKeeps, InitKeeps, FinalizeStartKeeps, FinalizeEndKeeps,
       ArrangeAptsInOrder, AskKeeps, EnterKeeps, LeaveKeeps, NotThereKeeps DEF Step
<1>3. ASSUME LifeInv, UNCHANGED vars PROVE LifeInv'
  BY <1>3 DEF vars, LifeInv, LifeTypes, LifeOf, Call
<1>4. QED
  BY <1>1, <1>2, <1>3, PTL DEF Spec

\* In every job, for any number of ranks: a pointer that is not NULL points to
\* memory that has not been freed, .__MPI_APTS__ of an unloaded library is never
\* followed, and the tables go only with MPI (src/spmd.c, src/pkg_tools.c,
\* R/zzz.r.in).
THEOREM PointersAlwaysHold == Spec => []PointersHold
<1>1. LifeInv => PointersHold
  BY DEF LifeInv, LifeOf, PointersHold
<1>2. QED
  BY <1>1, LifeInvariant, PTL
=============================================================================
