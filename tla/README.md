# pbdMPI in TLA+

A verification development for the R package **pbdMPI**: TLA+ models of the
parts of the package in which ranks interact, TLC configurations that check
them on small instances, and proofs checked by TLAPS. Every definition is
translated from the R and C code; `PROJECT.json` (`map`) names the lines that
each one stands for. Paths below are relative to `src/`.

1. [The system](#1-the-system) – inventory of components
2. [The modules](#2-the-modules) – what models what
3. [The runs](#3-the-runs) – what is checked, within which bounds
4. [Fairness](#4-fairness)
5. [The proofs](#5-the-proofs)
6. [Where code and documentation disagree](#6-where-code-and-documentation-disagree)
7. [What is not modelled](#7-what-is-not-modelled)
8. [Plan](#8-plan)

## 1. The system

A pbdMPI program is one R script that every MPI rank runs (SPMD). There is no
server and no shared memory: a rank is a sequential R process with its own
package environment `.pbd_env`, and ranks meet only through MPI, either
point to point (`R/spmd_send.r`, `R/spmd_recv.r`, ...) or in collectives that
all ranks of a communicator must enter in the same order. What is hard here is
what comes from that: the order in which messages of different ranks arrive, a
send that may or may not wait for its receive, wildcards, a rank that takes a
different branch or stops with an error while others wait for it, division of
work with remainders and empty shares, and buffers whose lifetime R and MPI see
differently. Nothing is persisted and no message is lost or duplicated, so
crash recovery and retries do not occur.

| component | state it keeps | operations | interacts by | hard behaviour | correct when |
|---|---|---|---|---|---|
| task pull `R/api_task_pull.r` | manager: job list, count of closed workers, result list; worker: job in hand | `task.pull()` on every rank, several calls in a row | tagged messages, a broadcast, a barrier | any worker answers at any time; errors and `NULL` results of `FUN`; calls run into each other without the barrier | every job done once, the returned list complete, nothing left in the channels, every rank returns |
| blocking point to point `R/spmd_send.r`, `R/spmd_recv.r`, `src/spmd_send.c`, `src/spmd_recv.c` | the caller's buffer, the status table | `send`, `recv`, `probe` | MPI channels | two-part messages with wildcards, segments of long vectors, wrong buffers | objects arrive once, whole and in order; sender and receiver cut alike |
| non-blocking `R/spmd_isend.r`, `R/spmd_wait.r`, `src/spmd_wait.c` | `SPMD.NB.BUFFER`, the request table | `isend`, `irecv`, `wait`, `waitall`, ... | MPI transfers that read R's memory later | garbage collection, shared requests, the list cleared too early or never | what arrives is what was sent; after the waits nothing is in flight |
| send-receive `R/spmd_sendrecv.r`, `R/spmd_sendrecv_replace.r` | – | `sendrecv`, `sendrecv.replace` | a ring of exchanges with the default tag | lengths travel against the data; messages of the program with the same tag | a call returns the neighbour's object, or fails on its length |
| job division `R/api_tool.r` | – (pure) | `get.jid` | called by readers and apply functions | remainders, fewer jobs than ranks | shares disjoint, in order, complete |
| load balance `R/comm_balance.r` | a plan `bal.info` | `comm.balance.info`, `comm.load.balance`, `comm.unload.balance` | collective checks, `isend`/`recv` by rank order | blocks arrive in any order; empty ranks | no row lost or moved, promised sizes, unload undoes load |
| table reading `R/comm_read.r` | – | `comm.read.table` | broadcast, scatter, barriers, load balance | the stretches the ranks read are predicted | the table is the file, on all ranks together |
| chunks `R/comm_chunk.R` | – (pure) | `comm.chunk` | sets up streams | remainders on a chosen side | items divided, sizes as documented |
| random streams `R/comm_seed.r` | `.pbd_env$RNG`: streams, current name, paused states; R's `.Random.seed` | `comm.set.seed`, `comm.set.stream` | one broadcast | three records of one state | an item has its stream on every layout; ranks never share one; streams go on where left |
| ordered printing `R/spmd_tool.r` and writing `R/comm_write.r` | a place in `rank.print`; the file | `comm.print`, `comm.cat`, `comm.write`, `comm.write.table` | a barrier, a token from rank to rank; a barrier per turn | the token has the default tag; calls one after another without barriers; repeated ranks | order of output, the whole file for every rank that returns, no rank left waiting |
| collectives `R/spmd_allgatherv.r` ... `R/spmd_bcast.r`, `R/spmd_*_obj.r`, `src/spmd_*.c` | – | `allgather`, `gather`, `scatter`, `bcast`, `reduce`, `allreduce` | MPI collectives chosen by the class of the argument | each rank chooses by its own argument; segments of long vectors; ranks that leave a call early | all ranks make the same sequence of MPI calls, and the answer is a function of all arguments |
| distributed sort `R/comm_sort.r`, `src/comm_sort_*.c` | an array over all ranks; on each rank its own copy of every index and of the recursion | `comm.sort` | allreduce and allgather, a broadcast per comparison, exchanges of single elements | empty ranks, equal elements, missing values, types that differ; tags that do not tell exchanges apart | ranks in step, indices inside their blocks, a sorted permutation, all ranks end |
| apply functions `R/api_lapply.r` ... | – | `pbdLapply`, `pbdSapply`, `pbdApply` | `get.jid`, scatter, gather | three modes, fewer elements than ranks | the result of the serial function |
| global statistics `R/comm_which.r`, `R/comm_base.r`, `R/comm_allcommon.r` ... | – | `comm.which.max`, `comm.allcommon`, ... | reductions | one step of several from the wrong root | the global value on every rank |
| errors `R/comm_errors.r`, `R/comm_stopifnot.r` | – | `comm.stop`, `comm.warning` | finalizes MPI | a stop that not all ranks make | all ranks stop |
| two-stage `R/api_split.r` | two communicators | `api.comm.split.by.node`, `api.allreduce`, `api.allgather` | collectives within and between hosts | only the first rank of a host takes part in the second stage | same answer on every rank, all ranks end |
| communicators `R/spmd_communicator.r`, `src/spmd_communicator.c` | a table of MPI handles | `comm.split`, `comm.dup`, `comm.free`, `comm.size`, `spawn`, ... | MPI | an entry overwritten, freed or used after finalizing; a new communicator exists only when all have split | handles valid, members as asked for |
| lifecycle `R/zzz.r.in`, `src/spmd.c`, `src/pkg_tools.c` | `global_spmd_comm` and its copies in `MPI_APTS` and `.__MPI_APTS__`, `WHO_LOAD_FIRST` | load, `init`, `arrange.mpi.apts`, `finalize`, unload | MPI; the global environment | a pointer in R's environment outlives the library; the table is freed once, and with MPI | no pointer outlives its memory |

The hazards of this code, each at its line, with the properties that would
catch it going wrong, are listed in `PROJECT.json` (`hazards`).

## 2. The modules

| module | kind | models |
|---|---|---|
| `RList` | operators, external | R's `l[[i]] <- v`, where `NULL` deletes |
| `TaskPull` | specification | `task.pull()`: manager, workers, broadcast, barrier, consecutive calls |
| `JobPool` | abstract specification | what `task.pull()` promises; `TaskPull` implements it |
| `PointToPoint` | specification | `send()` and `recv()` with headers, segments, buffers, wildcards, probes |
| `Mailbox` | abstract specification | whole objects delivered once, in order per sender and tag; `PointToPoint` implements it |
| `NonBlocking` | specification | `isend()`, `recv()`, `wait()`, `waitall()`, MPI's late reads and R's garbage collector |
| `Exchange` | specification | `sendrecv()`, `sendrecv.replace()`, `comm.print()`, `comm.cat()`, `comm.write()` in one program with `send()` and `recv()` |
| `JobDivision` | operators | `get.jid()` |
| `LoadBalance` | actions | `comm.balance.info()`, `comm.load.balance()`, `comm.unload.balance()` |
| `ReadTable` | specification, composes `LoadBalance` and `JobDivision` | `comm.read.table()` of small and large files, and programs that balance and restore a table |
| `Chunk` | operators | `comm.chunk()` |
| `RngStreams` | specification, uses `Chunk` | `comm.set.seed()`, `comm.set.stream()`, `comm.chunk(rng = TRUE)` |
| `RObject` | operators | R objects as the collectives tell them apart, MPI's reduction operators |
| `LongVectors` | operators | the C functions behind the collectives: one MPI call per segment, and the copying between the blocks of a long vector and the buffer of one segment |
| `CollectiveCalls` | operators | the R functions `bcast()`, `gather()`, `allgather()`, `scatter()`, `allreduce()`, `reduce()`: which C function a rank calls next |
| `CollectiveService` | abstract specification | every rank's answer is the documented function of all arguments; `Collectives` implements it |
| `Collectives` | specification, composes the three | ranks that run the same calls, and MPI's matching of their k-th collectives |
| `DistSort` | specification | `comm.sort()`: every rank's recursion, the broadcast comparisons, the exchanges of elements |
| `Sorting` | abstract specification | elements are only exchanged, and a block returned is its part of the global order; `DistSort` implements it |
| `Communicators` | specification | loading, initializing, finalizing and unloading, the table of communicators, split, dup and free, the two-stage collectives |
| `TaskPull_proofs`, `PointToPoint_proofs`, `NonBlocking_proofs`, `ReadTable_proofs`, `RngStreams_proofs`, `DistSort_proofs`, `Communicators_proofs`, `Exchange_proofs` | proofs | see section 5 |
| `MC*` | model checking | programs, files, job lists and bounds for the runs |

An operator whose comment begins with *Slip* is not part of a specification: it
is a definition changed the way a plausible bug would change it, and
`PROJECT.json` (`mutants`) says which property notices.

**Task pull.** The channels are FIFO sequences per worker and direction, since
every receive of the protocol probes with any tag and takes exactly what it
probed (`check.type = FALSE`). The manager's loop body is one action per tag
(`HandOut`, `SendHome`, `Collect`, `CloseWorker`), the worker's loop one action
per blocking call (`AskForJob`, `ReceiveAnswer`, `RunJob`), and `SayExiting`,
`WorkerResult`, `PassBarrier` the way out. Arguments `bcast`, `barrier` and
`try` are constants; a result is a record of its call, its job and its kind.
`ManagerRefuse` is the failing check of `jids` and `CrashInJob` an error without
`try`.

**Point to point.** A message is a header or a segment with its object, tag,
type and element count, not its contents; `data` records which objects the
buffer was filled from and how far, which is what "whole" needs. `RecvHeader`
has the six cases of `spmd.check.type.recv()`. MPI lets a receive take the
oldest matching message of any source it admits. The receiver's position `broken` is
where the real program would read rubbish or get a truncation error.

**Non-blocking.** The place of an `isend()` in a rank's straight-line program
names its serialized vector. `nb` is `SPMD.NB.BUFFER`; a vector of a past
`isend()` that is no longer in it may be collected at any time (`Collect`), and
MPI may read it at any time until its transfer is complete (`Copy`,
`RecvData`). A transfer that reads a collected vector is `torn`.

**Tables.** A file is the number of characters of each of its lines; a row is
the number of its line, so order and identity are visible and contents are
not. `Split`, `TakeChunk` are the small-file path; `Predict`, `OpenFile`,
`CloseFile`, `LetRead`, `NextTurn` the large one, one turn of the loop of
`R/comm_read.r:131-149` per rank between barriers. `LoadBalance` then runs on
the table read, or on a table that lies on the ranks at the start; a rank whose
step is an R error goes to `stopped`. Sends and receives there have an exact
source, so the channel discipline of `PointToPoint` is a queue per pair of
ranks. `SayNames` and `TakeNames` are the broadcast of the column names; a data
frame of one column is a vector by then (`tmp[alljid[[i]], ]` drops its
dimensions), `colnames()` of it is `NULL` (`NoNames`), and assigning `NULL` names
to a vector leaves it as it is, so the ranks finish with the name lost. A load
balance of such a table stops where it sets the names of a block that is a vector
(`Bind`), and without any row it returns a vector, which the check of
`comm.unload.balance()` refuses on every rank (`EnterUnload`).

**Streams.** A `.Random.seed` is a seed, the stream of that seed and the number of
draws made from it; `nextRNGStream()` goes to the next stream. The two loops of
`comm.set.seed()` are recursive functions: `Skip` to the first stream of a rank,
`SeedsFrom` along the others; `Named` gives the k-th seed the k-th name, and
`StreamsFor` puts them together. `left` is a history variable: where each stream
was left by the last operation that was meant to move it. A rank that cannot be
served (no item, or items that are not sequential) stops. Programs are assumed
to restore only states saved since the last `comm.set.seed()`.

**Collectives.** `Step(a, r, got)` is the code of an R function of one rank as
a decision: from its own argument and from what the C functions it called
before returned (`got`), the next C function or the return value. The nested
functions of the source (`default`, `array`, `object`, typed) are operators that
pass on the rest of `got`. In the machine, `Enter` is one MPI call of the loop
of a C function (`cut` counts them), `Leave` the end of that MPI call,
`ReturnFromC`, `ReturnFromR` and `StopInR` the returns. MPI matches the k-th
entry of every rank's `log`; a rank may leave as soon as the ranks it needs have
entered, so ranks can be several calls apart. Elements are numbers that name
rank and position, a serialized object is a sequence of its bytes that only as
a whole and in order makes the object again.

**Ring calls, printing and writing.** A message is its kind, its length and the
call that sent it. `sendrecv()` of an object is four steps (`SendLength`,
`TakeLength`, `SendObject`, `TakeObject`): the length goes to the preceding rank
and the object to the following one, as in `R/spmd_sendrecv.r:13-31`. A message
of another call that is taken for a length, an object or the token is modelled
by what the code would do with it, so nothing rules the confusion out.
`comm.print()` is `PrintStart`, `PrintBarrier`, a `recv()` of the token and
`PrintOut`; `comm.write()` one `WriteTurn` and `WriteBarrier` per round of its
loop. Programs of the ranks may differ in where they send and receive their own
messages; `InPhase` says when that is between the same calls on both sides.
The programs *match* (`Matched`): all ranks make the ring calls, the prints and
the writes, in one order, a message that is sent is received by the rank it is
sent to, which is another one, and the messages of one rank to another are
received in the order they were sent. Nothing is said of how messages lie
between the other calls.

**Distributed sort.** A slot is a rank and an index; `array` maps the slots of
all blocks to values. `at[r]` is the state of rank *r*'s own recursion: where it
is, its indices, and the stretches still to be sorted (`todo`, the stack of C).
`Compare` and `Pivot` steps are taken by the rank that holds the element and
append to the other ranks' `bcast` queues; an exchange between two ranks goes
through `channel`, one within a rank is a step of its own, and the other ranks pass it
by. `Following`, `LeftPart` and `RightPart` are the loops "Check 0 vector".

**Communicators.** `proc[r]` is the package in the process of rank *r*: the
static variables of the library, what `.__MPI_APTS__` points to, and which
tables have been allocated and freed. `.onLoad()` is `Load` and `LoadEnd` with
the collective of `spmd_initialize()` in between, `finalize()` and `.onUnload()` are
`FinalizeStart` and `FinalizeEnd` around `MPI_Finalize()`. A call on
communicators is a sequence of MPI operations (`Ops`); a rank `Enter`s one and
`Leave`s it when MPI lets it (`MayLeave`), so ranks can be several operations
apart. A rank that follows a stale pointer is `wild`, one that reads a table
that is not there `crashed`, one refused by MPI `aborted` or `stopped`.

## 3. The runs

| run | distinct states | shows |
|---|---|---|
| `task_pull` | 65,892 | Two consecutive calls with two workers, over a list of three distinct ids, a sparse list in falling order and a list with a repeated id: state is well typed (`TypeOK`), the list is complete and of this call (`CompleteResult`), channels are empty when the loop ends (`ChannelsQuiet`), the broadcast agrees (`BcastAgreement`), every rank returns (`Termination`), and the protocol implements the pool of jobs (`ImplementsJobPool`). |
| `task_pull_loose` | 9,752 | Only the broadcast between calls, `FUN` may return `NULL` or kill its worker, the manager may refuse its argument: no worker runs a job while its manager is in another call (`CallsDoNotMix`), and no worker is counted as closed that has not left its loop (`ClosedMeansLeft`). Ranks may hang here (that is what `try = FALSE` risks), so deadlock is not checked. |
| `send_recv` | 17,878 | Two senders and a receiver, vectors of no, one and several segments, at and beside the segment length; lazy, fitting and wrong buffers; receives in order, by tag, and with wildcards where the handshake is off. No receive meets a message that does not fit (`NeverBroken`), the pair implements a mailbox that delivers whole objects once (`ImplementsMailbox`), and all of them arrive (`EverythingArrives`). |
| `isend_wait` | 2,119 | A ring walked twice with a wait per round, and two objects in flight with `waitall()`: data is intact whenever R collects garbage and MPI reads (`Intact`), waits mean what they say (`WaitMeansSent`), nobody blocks (`NoDeadlock`). |
| `exchange` | 139,754 | Programs of two calls with a message of the program before, between, after or across them: ring calls return the neighbour's object (`Delivered`) or fail on its length only (`FailsOnlyOnLength`), ranks print in the order of `rank.print`, and of the calls where there are barriers (`InTurn`), a rank that returns from `comm.write()` finds the whole file (`WholeFile`), and every call returns (`EveryoneReturns`). |
| `read_table` | 12,376 | Three ranks, files of several lengths with and without header on both sides of the size limit, and tables of every shape already on the ranks with empty ranks among them, under each balance method. Rows are complete and in order, and the names are those of the header (`RowsInOrder`), blocks have the promised sizes and are the shares of `get.jid()` (`SharesOfGetJid`), unloading restores (`UnloadRestores`), one reader at a time (`OneReader`), and `HealthyReturns` states exactly on which inputs every rank returns. |
| `rng_streams` | 218,066 | Programs of up to five operations on one to three ranks with up to four items in every division: the seed a rank keeps under the name *i* is the beginning of the *i*-th stream of the given seed, and it draws from the stream it has named (`StreamOfItem`), no two items share a stream (`DisjointStreams`), a stream taken up again goes on where it was left, except by a switch to itself (`ContinuesWhereLeft`), and the division the streams are laid along is complete, in order and of the documented sizes (`ItemsDivided`). |
| `collectives` | 93,650 | Three ranks, each call with arguments of equal and of different class, type, length and dimensions, empty arrays and vectors of up to three segments, and programs of two and three calls: every two ranks' k-th MPI calls match (`CallsAgree`), every answer is the documented one and none comes before the ranks it is made of have joined (`ImplementsService`), and every rank returns or all stop (`EveryoneReturns`). |
| `collectives_reduce` | violation | section 6 |
| `dist_sort` | 333,632 | Three ranks, every distribution of up to four elements of two values, three of three values, missing values, five elements with an empty rank at every place, and types that differ: indices are those of elements (`TypeOK`), the ranks keep in step (`InStep`), an element is received for the exchange it was sent for (`ExchangesMatch`), the partition's loop invariant holds over all blocks (`PartitionHolds`), the sort implements `Sorting` (`ImplementsSorting`), and every rank returns (`EveryoneReturns`). |
| `dist_sort_decreasing` | violation | section 6 |
| `communicators` | 115,951 | Every order of two calls among load, init, arrange, finalize, unload and dup, followed by a third; communicators split, duplicated, used, overwritten and freed; the two-stage collectives for every way three ranks lie on hosts: no pointer outlives its memory (`PointersHold`), both stages together give every rank the sum and the values of all (`TwoStages`), and every rank ends unless one is stopped by an error (`EveryoneEnds`). |

Every property has a mutant of a mapped definition that breaks it
(`PROJECT.json`, `mutants`).

**Bounds.** Two workers and two calls are the least for a message of one call to
meet another call's loop, and three jobs on two workers the least for a worker
to come back for more while the other is busy. `MaxLen = 3` in `send_recv` gives
vectors below, at, and above one and two segments. Three ranks are the least for
which a left and a right neighbour differ, for a source to be confused with
another, for a block division with a remainder of one and of two, for an empty
rank between two others, and for a host with a head and another rank beside a second
host. Up to four items on up to three ranks reach an empty chunk, an emptied
"equal" chunk and a chunk of two streams; five operations reach set up, draw,
switch, draw and switch back. In `exchange` one length differs or is beyond
`SPMD_SHORT_LEN_MAX` (4), and one message of the program takes every place around the
calls. Four elements of two values have every pattern of equal, smaller and
larger elements around a pivot; the third value, the missing ones and the fifth element
come with fewer elements. In `collectives` one rank differs from the two others in
class, type or size, which is all that a check by a sum over ranks can notice;
other roots than 0 and consecutive calls with different roots are among the
programs. Loading, finalizing and loading again is the shortest life in which
`.__MPI_APTS__` can be stale. The channels need no bound: every program is finite.

## 4. Fairness

MPI guarantees progress: a rank whose next call can complete completes it. Each
module therefore has weak fairness on the ranks' steps. But `MPI_Send` may
return at once or only when the message has been received, and a program must
be right either way. Safety is checked for a send that never waits (no guard
on delivery), and progress for a send that always may: the fairness of a rank's
step is conditioned on its blocking sends having been received
(`WF_vars(toM[w] = <<>> /\ WorkerStep(w))` of `TaskPull`, `Sure` of `Exchange`,
`Released` of `DistSort`, and their likes). A collective, too, may return early
or wait for all ranks: leaving one is fair only when every rank has entered it
(`Collectives`, and `SureStep` of `Communicators`). So a liveness property that
holds does not rest on MPI's buffering. Barriers of `TaskPull` and `ReadTable`,
and the collective checks at the start of a load balance and of a sort, are one
joint step. No strong fairness is used, nothing is assumed of the garbage
collector or of when MPI copies, and `FUN` is assumed to return (or to kill its
worker, in the run that says so).

## 5. The proofs

Each theorem holds for every value of the constants, under the assumptions
declared in the modules (a finite, non-empty set of workers or ranks, at least
one call, sequences of naturals as job lists, `NULL` is no result and no
position in a stream and no list of jobs, a wildcard is no rank and no tag, a
missing value is no number, the limits in `.pbd_env$SPMD.IO` are positive, jobs
are well formed, the calls of the programs of `Exchange` match and
`SPMD_SHORT_LEN_MAX` is a natural number). None of them rests on a bound of the
runs.

**`TaskPull_proofs`**, for any workers, job lists and number of calls:

- `TypeCorrect`: `Spec => []TypeOK`. The induction needs `SameCall` beside
  `TypeOK`: with the barrier, all ranks are in the same call, so that
  `PassBarrier` keeps every `wcall` below `Calls`.
- `CompleteAtReturn`: `Barrier /\ ~ NullResults` implies `Spec =>
  []CompleteResult`. `CompleteResult` is not inductive: it says something only
  at the end of the loop. `IInv` says where everything is before that:
  - `ChannelsOK(w)`: what the two channels of worker *w* may hold at each place
    of its loop – at most two messages up (a result, then a request), one down;
  - `WorkOK(w)`: the job in hand, on its way or in a result is a job of this
    call;
  - `HomeOK(w)`: a worker is sent home, and leaves, only when no job is left;
  - `JobsOK`: while the loop runs, `closed` is the number of workers whose exit
    message was received, and every wanted job is accounted for: queued, sent,
    running, on its way back, or stored at its index.

  When `closed` reaches the number of workers, `Closed = Workers` (a finite set
  and a subset of the same size), so nobody holds a job and every wanted one is
  stored. There is one lemma per action.
- `SameListEverywhere`: with the barrier, every worker returns from a call the
  list its manager returns from it (`BcastAgreement`). The invariant `BcastsOK`
  says which list is on its way to a worker in which call, and needs `SameCall`.
- `StepsOfThePool`: with the barrier, without `NULL` results and for job lists
  the manager accepts, `Spec => Pool!Init /\ [][Pool!Next]_(Pool!vars)`: every
  step of the protocol is a step of `JobPool` or a stutter. Storing a result is
  `Store` because `IInv` knows the result to be that of a wanted job that is not
  stored yet; the return is `Return` because the list is complete. The extra
  invariant `LongEnough` keeps the list as long as the largest id.

The side conditions so far are the default `barrier = TRUE` and the absence of
`NULL` results. Without the second `CompleteResult` is false. The remaining
theorems hold for any job lists, refused ones among them, and a `FUN` that may
return `NULL` or end its worker:

- `CallsKeepApart`: `Bcast \/ Barrier` implies `Spec => []CallsDoNotMix`, and
- `CountedHaveLeft`: it implies `Spec => []ClosedMeansLeft`;
- `QuietAtReturn`: `Barrier` implies `Spec => []ChannelsQuiet`.

`CallsInv` says how far apart a worker and the manager can be: they are in one
call (`SameStage`); or the worker is a call ahead, has asked for a job at most,
and the manager has left its loop (`Ahead`); or the worker is a call behind,
with the list of that call yet to take (`Behind`). The channels are as
`ChannelsOK` says in every case. Hence an exit message that the loop counts is of
this call, and `closed` is the number of workers that were `Counted`. The
condition cannot be dropped: with neither barrier nor broadcast both properties
are false (section 6).

**`PointToPoint_proofs`**, for any number of senders, any objects however long,
and any set of programs that suit them (`Agreed`):

- `NeverMisread`: `Spec => []NeverBroken`: no data is taken for a header and no
  receive of the C loops is truncated.
- `MailboxOfWholeObjects`: `Spec => ImplementsMailbox`: every object is delivered
  once, whole, as it was sent, and the objects of one sender with one tag in
  order. Posting the last message of an object is `Post`, `Return` is `Deliver`,
  every other step a stutter.

`Agreed(p)` is what the interface asks of the two sides. They agree on
`check.type`; an object that takes several messages – with the handshake every
object does – is asked for by a call that only its sender can answer, be it by
its rank or by a tag that nobody else uses; without `check.type` the default
method is given a non-empty serialized object of one segment and the typed
methods a buffer of the object's type and length. `MCPointToPoint` assumes it of
the programs it runs, so TLC evaluates it; `MCAny`, the use of `anysource()` of
`man/dd_sourcetag.Rd`, breaks it and `NeverBroken`. `NeverBroken` is far from
inductive; `MailInv` says of each sender (`SenderOK`) which of its messages it
has posted, object by object, a header and segments at multiples of the segment
length; of each channel (`ChannelOK`) that it lists exactly the messages posted
and not yet taken, in their order; and of the receiver (`ReceiverOK`) that it is
between two objects (`Fresh`), or holds the first object that answers its call
up to some offset (`Holding`), or is done (`Stopped`). The step that matters is
`NextSegment`: the oldest message that a receive for the next segment admits is
the next segment of the object it holds. It rests on `OldestPart` (what a
channel offers first to a source and a tag is the oldest part not taken) and on
`Agreed`, which excludes any other sender. `Faithful` (what was returned is what
was sent) is the part the refinement needs.

**`NonBlocking_proofs`**, for any ranks, any table of requests and any programs of
objects that travel in one segment (`ShortObjects`):

- `WaitedIsIntact`: programs with `WaitedBeforeDropped` have `Spec => []Intact`.
- `WaitedIsSent`: programs with `WaitedAtTheEnd` have `Spec => []WaitMeansSent`.

The conditions say what the interface asks of a program: an `isend()` is waited
for before its request is used again and, because a `wait()` drops every kept
vector, before any other `wait()`. `MCNonBlocking` assumes them of the programs
it runs, so TLC evaluates them; `MCEach` and `MCBalance` break them, and
`Intact`. `RequestInv` says that the request of a transfer in flight (`Flying`)
leads to it until it is used again, and that no `wait()` or `waitall()` before
that has passed; `StoredInv` that the vector of a transfer in flight is in the
list and was not collected. The two meet in `WaitDropsNoneInFlight`: a `wait()`
whose rank still had a transfer in flight would be the one that waits for it.

**`ReadTable_proofs`**, for any number of ranks, any files and tables:

- `OnlyOneReads`: `Spec => []OneReader`. `ReaderInv`: a rank that has the file
  open is the one whose turn it is, and the turn passes on only when all ranks are
  at the barrier.
- `BlockShares`, for any number of jobs and ranks: with method "block" or
  "block0" every job 1..n is in the share of some rank of `get.jid()`, no rank is
  given anything else, and along the ranks the shares list the jobs in rising
  order, hence each once. `Bound(n, method, P, r)` is the last job of the ranks
  below *r*; `ShareIsAStretch` shows that the code's two formulas are the stretch
  between two neighbouring bounds, and the rest follows from bounds that do not
  fall. Method "cycle" filters the jobs (`SelectSeq`), which is induction on data.
- `TableIsOnItsWay`: `Spec => []TableInv`, and `NamesAreThoseOfTheHeader`, the
  same for the column names (those of the header, or none on any rank where the
  table has one column), from which follow
- `RowsStayInOrder`: `Spec => []RowsInOrder`,
- `SharesAreThoseOfGetJid`: `Spec => []SharesOfGetJid`, and
- `UnloadingRestores`: `Spec => []UnloadRestores`.

  The rows of all ranks are one vector *T*, the table of the job, and a *cut*
  (`Cut`) says where it is divided: rank *r* has `Part(T, b[r], b[r + 1])`. What
  the code computes with vectors of owners is then a matter of places.
  `rep(0:(P - 1), times)` names the owner of each place (`RepRanksIs`),
  `unique()` of a stretch of it lists the owners once and in rising order
  (`UniqueStretch`), `X.gbd[belong == d, ]` is the stretch that two blocks share
  (`PieceIs`). The sizes of all three methods are those of a cut
  (`EvenCutExists`), also where `block.cyclic` leaves ranks without rows; where
  rank 0 predicts a large file to have a line for each rank, the stretches the
  ranks read are a cut of the file, although the prediction is wrong
  (`StretchesCoverTheFile`: the last rank reads all the rest). `TableInv` has one
  case for each phase: a small file is scattered (`Small`), a large one read
  (`Large`), the table lies on the ranks (`Ready`), it is moved from the cut *b* to
  the cut *e* (`Moving`), or the ranks have stopped (`Dead`). In `Moving` a rank
  has bound the rows of its new block up to a place *x* that is where it began or
  the end of a block of the old cut, its list names the owners of what is after
  *x* (`Receives`), and a channel holds the common stretch of two blocks from its
  sending to its receipt (`UnderWay`). So the next block it binds begins at *x*
  (`NextBlockIs`), whoever sends first. `comm.unload.balance()` exchanges the two
  cuts, and the same invariant holds for the way back.

**`RngStreams_proofs`**, for any number of ranks, streams and items, and any
sequence of operations. The conditions are those of the model; `RngInv` is
inductive and implies the first three:

- `SeedDecides`: `Spec => []StreamOfItem`. The k-th round of the second loop,
  after the skip of the first one, has made as many jumps as the k-th item of
  the rank has items before it on all ranks. `SkipIs` and `SeedsAre` are
  inductions along the loops (`Jump(x, k)`, a closed form that only the proofs
  have, adds *k* to the stream of *x*); `InARow` says that the items of a rank
  that is served are consecutive, which is what makes the k-th seed that of the
  k-th name;
- `RanksNeverShare`: `Spec => []DisjointStreams`;
- `StreamsContinue`: `Spec => []ContinuesWhereLeft`;
- `ChunksDivide`: `Spec => []ItemsDivided`.

`RngInv` distinguishes ranks that have prepared nothing (`Fresh`) from ranks
with a list of streams (`Prepared`). Of the latter `RankOK` says that the rank
is in a stream of its own list, that its position and the position of every
other stream of it are where the history variable left them, and that every
stream was left between its beginning and the beginning of the next one;
`RanksApart` that of two ranks whose streams have a common origin, those of the
lower rank come before those of the higher one, which is what `DisjointStreams`
needs when streams are set up anew from wherever each rank has gone.
`ChunksDivide` is arithmetic: the sums of the balanced, equal and cycled chunk
sizes along the ranks, by the module's lemmas on division, with a
recursive function (`EqualItems` of `Chunk`) where the code has a loop.

**`DistSort_proofs`**, for any number of ranks and any vectors:

- `IndicesStayInside`: `Spec => []TypeOK`, that is: every index that a rank's
  recursion, partition or exchange holds is the index of an element of the block
  it is used on, and the limits of every recursive call are in order. `SortInv`
  adds to `TypeOK` that a rank in `scan` has not reached the right end, and that
  a received element is a value; `FollowingSlot`, `PivotSlot` and `PartsType`
  are the loops that skip empty ranks, and that `x[!is.na(x)]` (`NotMissing`)
  holds values is an induction on the prefix, with `SetInductionNat`.
- `RanksKeepStep`: `Spec => []InStep`. A rank that has fewer broadcasts to join
  is ahead of the others, by as many as there are between the two, so `InStep`
  alone is not inductive: a rank that is behind must arrive where the others
  were, when they had joined as much. `History(H, B)` says that there is one
  past for all: `H[k]` is where a rank settles that has *k* broadcasts left to
  join, `B[k]` the next of them, and `H[k - 1]` is what `H[k]` becomes with
  `B[k]`. A broadcast by its root shifts the past by one, joining one moves a
  rank along it, and an exchange leaves a rank settling where it was to settle
  before (`SettledContinue`).
- `ExchangesAreMatched`: `Spec => []ExchangesMatch`, and
- `PartitionIsKept`: `Spec => []PartitionHolds`. What the ranks do at different
  times is one sequential quicksort. A `Story` is a sequence of moments: the
  state of a rank's recursion, the values in the slots, and the broadcasts left.
  All ranks go through the same one, each at its own pace: `Placed` says at
  which moment each rank is, `Heard` which broadcasts it has still to take,
  `Met` that of two ranks neither is past an exchange without the other's
  element, and `Carried` that the channels hold exactly the elements of
  exchanges that one side has made. Along the story the invariant of the
  sequential program, `SeqInv`, is kept: the stretches left to sort rise and are
  disjoint (`Ascending`), they cover every pair that is out of order (`Covers`),
  the partition under way divides its stretch by the pivot (`Divided`), and what
  a broadcast is for fits what is done with it (`Purpose`). `StoryInv` joins the
  two and implies both properties.
- `SortsAsDocumented`: `Comparable` implies `Spec => ImplementsSorting`. The
  vector that the abstract specification sees has in each slot what the story
  has there at the moment of the slot's rank, where an exchange counts as made
  once the element is on its way to the slot (`Ended`). Each step of a rank
  leaves this vector as it is or is one `Exchange`. A rank may return when its
  block is its part of the global order: a rank at the end knows of every slot
  of its own that no exchange still to come moves it (`Ahead`, an induction back
  from the end of the story). `Comparable` excludes a decreasing sort of a
  vector in which missing values are left: that is the finding
  `dist_sort_decreasing`, where the comparison orders missing values the wrong
  way.

**`Communicators_proofs`**, for any number of ranks and any programs:

- `PointersAlwaysHold`: `Spec => []PointersHold`. The invariant `LifeInv` says of
  each rank that a package that is loaded while MPI runs is *usable* – it has a
  live table, and `.__MPI_APTS__` and `MPI_APTS` lead to it – except in the middle
  of `.onLoad()`, where it is *half loaded* (a table, and no `.__MPI_APTS__`), and
  that after `MPI_Finalize()` a table, if any, is live. There is a lemma on each
  function of the C code as an operation on one process, and one per action.
  That `.onLoad()` removes `.__MPI_APTS__` first is what makes the half-loaded
  package different from one that follows a stale pointer.

**`Exchange_proofs`**, for any number of ranks and any programs that match
(`Matched`), of any length:

- `TheFileIsWhole`: `Spec => []WholeFile`, in phase or not. `BarrierInv` says how
  many barriers a rank has entered: those of the calls behind it and those of its
  present call, and that no rank has left a barrier which another has yet to
  enter. So a rank whose turn it is in `comm.write()` knows where the others are,
  although none of them need be in the same call. `FileInv` names the block
  written last (`WroteLast`): the blocks of its call up to its rank end the file,
  and every block written so far comes before it, by call and then by rank.
- `CallsAreDelivered`: `Spec => []Delivered`, and
- `FailuresAreLengths`: `Spec => []FailsOnlyOnLength`, for programs in phase.
  `ChannelInv` orders the messages by *time*: the first and the second message of
  call *i* of a program are due at times *2i* and *2i + 1* (`Time`), on both sides.
  Of each channel it says that what it holds has been sent and not been taken
  (`Sound`), rises in the receiver's time (`Sorted`), and is all that there is
  (`Complete`), and that nothing is taken before it is sent (`Causal`). The step
  that matters is that the oldest message of a channel is the one the receiver
  waits for, since nothing that is due to it earlier is left. That the messages of
  two kinds of call rise in the receiver's time, too, is what `InPhase` is for.
  `RoomOf` then says that the buffer has the length of the object it should, and
  `ReturnedOf` that every call returned so far has its value.
- `RanksPrintInTurn`: `Spec => []InTurn`, for programs in phase. `OutInv`: a rank
  that has the token, or has printed, finds the lines of the ranks before it.
  Where every `comm.print()` waits at the barrier, `ScriptInv` says that the output
  is what one process would print up to some line, the last one that is out
  (`Reached`): a rank that prints has passed a barrier that every rank enters
  after its own lines of the calls before, and so the line that follows in the
  script is its own.

The first lemmas of a module are the facts on data that it needs. Induction is on
a set of naturals instead of a predicate (`SetInductionNat`), with what follows
from it: the least natural of a set, the maximum of a vector (for `max(jids)`),
stretches between rising bounds, what division with remainder gives for shares,
and for `Exchange` the recursive functions that count barriers and join the lines
of a program.

Only model-checked: every liveness property (so the liveness part of
`ImplementsJobPool`, and `HealthyReturns`, `EverythingArrives`,
`EveryoneReturns`, `EveryoneEnds`, ...), `CallsAgree` and `ImplementsService` of
`Collectives`, and `TwoStages` of `Communicators`. Liveness under fairness and
ENABLED are beyond the prover, as is induction on data in general: `TwoStages` is
about sums and sorted sequences over all ranks (`MapThenSumSet`, `SetToSortSeq`).
Where a proof needs what a recursive
function computes (`Total`, `Where`, `Unique`, `FlattenSeq` in
`ReadTable_proofs`), `SetInductionNat` proves it along the prefixes of its
argument. No module that is proved about declares a recursive operator.

## 6. Where code and documentation disagree

Two are runs that TLC must find violated, with an entry in `PROJECT.json`
(`findings`) that quotes the line.

| run | what the code does |
|---|---|
| `collectives_reduce` | `reduce()` of an object ignores `rank.dest`: it is overwritten by the communicator number (`R/spmd_reduce_obj.r:29`). |
| `dist_sort_decreasing` | The decreasing comparison turns the sign for missing values, too, so `na.last = TRUE` puts them first (`src/comm_sort_integer.c:16`, `src/comm_sort_double.c:17`). |

The models show more, of which the properties name the exception or the passing
runs leave the case out, as said:

- `ret[[jid]] <- NULL` deletes a slot (`R/api_task_pull.r:116`), so results of
  later jobs move. `TaskPull` with `NullResults` breaks `CompleteResult`.
- Header and data are received with the caller's wildcards (`R/spmd_recv.r:17`),
  so the documented use of `anysource()` can pair messages of two senders:
  `NeverBroken` of `PointToPoint` fails for wildcards with the handshake.
- A load balance posts several `isend()`s on request 0 and waits once; the
  buffers of the others are dropped in flight (`R/comm_balance.r:117`): `MCBalance` of
  `MCNonBlocking` breaks `Intact`.
- The predicted number of lines is too large for files of short lines, and the
  last rank reads past the end (`R/comm_read.r:115`). `Healthy` excludes such files.
- A small file of one column is scattered as plain vectors, since
  `tmp[alljid[[i]], ]` drops the dimensions (`R/comm_read.r:101-104`): the header's
  name is lost on every rank, and none gets the "distributed data.frame" of
  `man/ww_comm_read.Rd:81`. The run has such a file, and `RowsInOrder` says so.
- With `barrier = FALSE` and `bcast = FALSE`, a worker already in the next call
  asks the manager still in this one, is sent home, and is counted as closed a
  second time while another worker is still at work (`R/api_task_pull.r:119`).
  `TaskPull` with those constants violates `ClosedMeansLeft` and `CallsDoNotMix`.
- A switch to the current stream starts it again (`R/comm_seed.r:231`), although
  the comment at `:242` says "if same name & no reset, nothing done". `RngStreams`
  has the restart, and `ContinuesWhereLeft` names it as an exception.
- `MCEach`, `MCLong` and `MCExchange` of `MCNonBlocking` are programs that break
  `Intact`, `WaitMeansSent` and `NoDeadlock`: a `wait()` of its own for each
  object, an object of two segments, a ring with the handshake.
- `scatter()` of a list shorter than the communicator stops the source at
  `x[[i]]` (`R/spmd_scatterv.r:11`) before the others hear of it, and they wait;
  the run has this call, and `EveryoneReturns` names it as its exception.
- `sendrecv()` allocates its buffer by the length of the wrong neighbour's object
  (`R/spmd_sendrecv.r:13-18`), and the check of `sendrecv.replace()` compares an
  object with itself (`R/spmd_sendrecv_replace.r:20`), since the C function has
  written the received length over the one sent. `Fits` says which lengths go well.
- `comm.sort()` of integers on some ranks and doubles on others: the method is
  chosen for the converted vector but is given the caller's, and `api_R_rsort()`
  refuses integers (`R/comm_sort.r:22`). Without any element on several ranks,
  the recursion reads a pivot that does not exist (`src/comm_sort_integer.c:143`).
- `.onUnload()` says "Do not finalize MPI by default" (`R/zzz.r.in:110`), and its
  `spmd.finalize()` finalizes by default (`R/111_control.r:24`); `finalize()` says
  "Only free the memory" (`R/spmd_communicator.r:104`), and the memory is freed
  only where MPI is finalized. `Communicators` has what the code does.
- After `finalize()` a `comm.size()` or `comm.rank()` reads a table that is
  gone (`R/spmd_communicator.r:37`); `PointersHold` allows this end only then.
- `comm.split()` and `comm.dup()` overwrite the entry of the table without
  freeing the communicator in it, and `comm.dup(0, n)` duplicates
  `MPI_COMM_WORLD` whatever entry 0 is (`src/spmd_communicator.c`).
- The two-stage allgather returns the values in the order of the hosts
  (`R/api_split.r:84`), which `TwoStages` states.
- `man/yy_api_task_pull.Rd:49` promises a list of length `comm.size() - 1`; the
  code returns one of length `max(jids)`.
- `comm.which.max()` broadcasts the index of rank 0's maximum, whichever rank
  holds the global one (`R/comm_which.r:34`); not modelled.

## 7. What is not modelled

`PROJECT.json` (`components`) gives every part its reason. In short: alltoall,
info objects, datatypes, options and build information are wrappers or
constants; the apply functions and the pairwise distances are serial code
between a division and a collective that are modelled; the global statistics are
single reductions, but for two functions that choose a call by an earlier
answer; `comm.stop()` ends the process. Spawning, connecting and accepting build
communicators outside one `MPI_COMM_WORLD`, and a process that Rmpi initialized
first needs that package's code. The contents of buffers, and formatting, are
abstracted everywhere. Within the modelled parts: `irecv()`, `waitany()`,
`waitsome()` and the typed `isend` methods, the reduced form of `get.jid()`,
`comm.read.table()` with `nrows` or `skip` and with blank or comment lines, a
receive after a caught type error, and a `comm.set.seed()` without a seed after
a stale state was restored; of the collectives `float32`, the raw method of
`bcast()`, reductions into a buffer, the v-functions called directly (a count
beyond `SPMD_SHORT_LEN_MAX` is an error there) and `unlist = TRUE`. The arrays of
one `gather()` or `allgather()` have the same number of dimensions: with
different ones the counts of `MPI_Allgather` differ between ranks, which MPI
leaves undefined. No message is lost and no rank restarts: MPI ends the whole
job instead, so there is no fault model beyond a rank that stops.

## 8. Plan

1. *Models.* On `Collectives`, calls whose arguments depend on earlier answers
   (`comm.which.max()`, `comm.allcommon()`, the apply functions against the serial
   one); `irecv()` and `waitany()` in `NonBlocking`; spawned processes and
   intercommunicators in `Communicators`.
2. *Theorems.* `CallsAgree` of `Collectives`, then the safety part of
   `ImplementsService`.
