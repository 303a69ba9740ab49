----------------------------- MODULE ReadTable ------------------------------
(***************************************************************************)
(* comm.read.table(read.method = "gbd") of R/comm_read.r without nrows and *)
(* skip, and what a program does with a table that is spread over ranks: a *)
(* job is either a file that is read, divided and, if it is large,         *)
(* balanced, or a table that lies on the ranks already and is balanced and *)
(* restored.                                                               *)
(*                                                                         *)
(* A file is the number of characters of each of its lines, without the    *)
(* newline.  read.table() is external: line k gives the row k, or the      *)
(* column names where it is the header.                                    *)
(***************************************************************************)
EXTENDS LoadBalance, JobDivision

CONSTANTS
  Jobs,       \* the files and tables of the runs
  MaxRead,    \* .pbd_env$SPMD.IO$max.read.size
  TestLines   \* .pbd_env$SPMD.IO$max.test.lines

FileJobs  == [from : {"file"}, lines : Seq(Nat \ {0}), header : BOOLEAN, shape : {"frame", "column"}]
TableJobs == [from : {"ranks"}, rows : [Ranks -> Seq(Nat)], shape : Shapes]

ASSUME JobsAssumption == Jobs \subseteq FileJobs \cup TableJobs
ASSUME LimitsAssumption == MaxRead \in Nat \ {0} /\ TestLines \in Nat \ {0}
ASSUME NullAssumption == NULL \notin Seq(Nat)

VARIABLES
  job,      \* what the program works on
  pred,     \* tl.pred on every rank, or NULL before its broadcast
  turn,     \* i.rank, the rank whose turn it is to read
  chunks,   \* the list rank 0 scatters, or NULL before that
  names,    \* names[r]: the column names r took, as the number of the header line
  said      \* the column names that rank 0 broadcasts, or NULL before that

rtvars == <<job, pred, turn, chunks, names, said>>
vars == <<lbvars, rtvars>>

NumLines == Len(job.lines)
Head1 == IF job.header THEN 1 ELSE 0   \* the header takes one line
FileSize == Total(job.lines) + NumLines

\* read.table(file, header, nrows, skip): the lines after the first "skip"
\* ones, without the header, at most "nrows" of them (all if it is -1).
Readable(skip) == skip < NumLines
RowsRead(skip, nrows) ==
  LET first == skip + Head1 + 1
      last  == IF nrows = -1 \/ first + nrows - 1 > NumLines
               THEN NumLines ELSE first + nrows - 1 IN
  IF last < first THEN <<>> ELSE Stretch(first, last - first + 1)
NamesRead(skip) == IF job.header THEN skip + 1 ELSE 0

\* colnames() of a vector: NULL
NoNames == -1

------------------------------------------------------------------------------
(* A small file: rank 0 reads it and scatters it.                          *)

\* alljid[[i]] is an error for an i past the end of the list.
Split ==
  /\ pc[0] = "start" /\ FileSize < MaxRead
  /\ LET rows == RowsRead(0, -1)
         jids == JidAll(Len(rows), "block", P) IN
     IF ~ Readable(0) \/ Len(jids) < P
     THEN pc' = [pc EXCEPT ![0] = "stopped"] /\ UNCHANGED <<chunks, ret, names>>
     ELSE /\ chunks' = [k \in 1..P |->
               IF jids[k] = NULL THEN <<>> ELSE [i \in 1..Len(jids[k]) |-> rows[jids[k][i]]]]
          /\ ret' = [ret EXCEPT ![0] = chunks'[1]]
          /\ names' = [names EXCEPT ![0] = NamesRead(0)]
          /\ pc' = [pc EXCEPT ![0] = "names"]
  /\ UNCHANGED <<shape, call, method, X, info, todo, net, job, pred, turn, said>>

\* The other side of the scatter.
TakeChunk(r) ==
  /\ pc[r] = "start" /\ r # 0
  /\ chunks # NULL
  /\ ret' = [ret EXCEPT ![r] = chunks[r + 1]]
  /\ names' = [names EXCEPT ![r] = names[0]]
  /\ pc' = [pc EXCEPT ![r] = "names"]
  /\ UNCHANGED <<shape, call, method, X, info, todo, net, job, pred, turn, chunks, said>>

------------------------------------------------------------------------------
(* A large file: every rank reads a stretch of lines, one after the other. *)

\* The tested lines: readLines(n = max.test.lines)
Tested == SubSeq(job.lines, 1, IF NumLines < TestLines THEN NumLines ELSE TestLines)

\* tl.pred: the size counts the newlines, nchar() of the tested lines does not.
PredictedLines == (FileSize * Len(Tested) + Total(Tested) - 1) \div Total(Tested)

\* Rank 0 predicts and broadcasts.
Predict ==
  /\ pc[0] = "start" /\ FileSize >= MaxRead
  /\ pred' = PredictedLines
  /\ pc' = [pc EXCEPT ![0] = "turn"]
  /\ UNCHANGED <<shape, call, method, X, info, todo, ret, net, job, turn, chunks, names, said>>

TakePrediction(r) ==
  /\ pc[r] = "start" /\ r # 0
  /\ pred # NULL
  /\ pc' = [pc EXCEPT ![r] = "turn"]
  /\ UNCHANGED <<shape, call, method, X, info, todo, ret, net, rtvars>>

\* jid <- get.jid(tl.pred); nrows is all the rest for the last rank.
MyJid(r) == JidVector(pred, "block", P, r)

\* Slip: the rank skips the first line of its stretch.
MySkip_NoMinus(r) == MyJid(r)[1]

MySkip(r) == MyJid(r)[1] - 1
MyRows(r) == IF r = P - 1 THEN -1 ELSE Len(MyJid(r))

\* The body of the loop over i.rank, up to its barrier.
OpenFile(r) ==
  /\ pc[r] = "turn" /\ turn = r
  /\ pc' = [pc EXCEPT ![r] = "reading"]
  /\ UNCHANGED <<shape, call, method, X, info, todo, ret, net, rtvars>>

\* read.table() fails without a line to read, and for skip <- NULL - 1.
CloseFile(r) ==
  /\ pc[r] = "reading"
  /\ IF MyJid(r) = NULL \/ ~ Readable(MySkip(r))
     THEN pc' = [pc EXCEPT ![r] = "stopped"] /\ UNCHANGED <<X, names>>
     ELSE /\ X' = [X EXCEPT ![r] = RowsRead(MySkip(r), MyRows(r))]
          /\ names' = [names EXCEPT ![r] = NamesRead(MySkip(r))]
          /\ pc' = [pc EXCEPT ![r] = "barrier"]
  /\ UNCHANGED <<shape, call, method, info, todo, ret, net, job, pred, turn, chunks, said>>

\* Slip: a rank does not wait before it opens the file.
LetRead_NoWait(r) ==
  /\ pc[r] = "turn" /\ turn # r
  /\ pc' = [pc EXCEPT ![r] = IF turn + 1 = r THEN "reading" ELSE "barrier"]
  /\ UNCHANGED <<shape, call, method, X, info, todo, ret, net, rtvars>>

LetRead(r) ==
  /\ pc[r] = "turn" /\ turn # r
  /\ pc' = [pc EXCEPT ![r] = "barrier"]
  /\ UNCHANGED <<shape, call, method, X, info, todo, ret, net, rtvars>>

\* The barrier of the loop.
NextTurn ==
  /\ \A r \in Ranks : pc[r] = "barrier"
  /\ turn' = turn + 1
  /\ pc' = [r \in Ranks |-> IF turn + 1 = P THEN "balance" ELSE "turn"]
  /\ UNCHANGED <<shape, call, method, X, info, todo, ret, net, job, pred, chunks, names, said>>

------------------------------------------------------------------------------
(* colnames(ret) <- spmd.bcast.object(colnames(ret))                       *)

\* A data frame of one column has become a vector on the way: by tmp[jid, ] on
\* rank 0, or by ret[0, ] where there is no row to balance.
Colnames(r) == IF shape = "column" THEN NoNames ELSE names[r]

SayNames ==
  /\ pc[0] = "names"
  /\ said' = Colnames(0)
  /\ names' = [names EXCEPT ![0] = said']
  /\ pc' = [pc EXCEPT ![0] = "done"]
  /\ UNCHANGED <<shape, call, method, X, info, todo, ret, net, job, pred, turn, chunks>>

\* colnames(ret) <- NULL leaves a vector as it is.
TakeNames(r) ==
  /\ pc[r] = "names" /\ r # 0
  /\ said # NULL
  /\ names' = [names EXCEPT ![r] = said]
  /\ pc' = [pc EXCEPT ![r] = "done"]
  /\ UNCHANGED <<shape, call, method, X, info, todo, ret, net, job, pred, turn, chunks, said>>

------------------------------------------------------------------------------
Init ==
  /\ job \in Jobs
  /\ method \in Methods
  /\ shape = job.shape
  /\ pc = [r \in Ranks |-> IF job.from = "file" THEN "start" ELSE "balance"]
  /\ X = IF job.from = "file" THEN [r \in Ranks |-> <<>>] ELSE job.rows
  /\ call = "load"
  /\ info = [org |-> <<>>, belong |-> <<>>, old |-> <<>>, new |-> <<>>]
  /\ todo = [r \in Ranks |-> <<>>]
  /\ ret = [r \in Ranks |-> <<>>]
  /\ net = [s \in Ranks |-> [d \in Ranks |-> <<>>]]
  /\ pred = NULL /\ turn = 0 /\ chunks = NULL
  /\ names = [r \in Ranks |-> 0] /\ said = NULL

\* What a rank does after comm.load.balance() or comm.unload.balance().
After == IF job.from = "file" THEN "names"
         ELSE IF call = "load" THEN "unload" ELSE "done"

Reading(r) ==
  \/ TakeChunk(r) \/ TakePrediction(r)
  \/ OpenFile(r) \/ CloseFile(r) \/ LetRead(r)
  \/ TakeNames(r)

Balancing(r) ==
  \/ SendPiece(r)
  \/ StartReceiving(r)
  \/ RecvPiece(r)
  \/ OwnPiece(r)

Finished == \A r \in Ranks : pc[r] = "done"
Terminating == (Finished \/ \E r \in Ranks : pc[r] = "stopped") /\ UNCHANGED vars

Next ==
  \/ Split \/ Predict \/ SayNames \/ NextTurn
  \/ \E r \in Ranks : Reading(r)
  \/ (EnterLoad \/ EnterUnload) /\ UNCHANGED rtvars
  \/ \E r \in Ranks : Balancing(r) /\ UNCHANGED rtvars
  \/ \E r \in Ranks : FinishBalance(r, After) /\ UNCHANGED rtvars
  \/ Terminating

\* A rank returns from spmd.wait() once its blocks have been received.
Fairness ==
  /\ WF_vars(Split) /\ WF_vars(Predict) /\ WF_vars(SayNames) /\ WF_vars(NextTurn)
  /\ WF_vars((EnterLoad \/ EnterUnload) /\ UNCHANGED rtvars)
  /\ \A r \in Ranks :
       /\ WF_vars(Reading(r))
       /\ WF_vars(Balancing(r) /\ UNCHANGED rtvars)
       /\ WF_vars(Delivered(r) /\ FinishBalance(r, After) /\ UNCHANGED rtvars)

Spec == Init /\ [][Next]_vars /\ Fairness

------------------------------------------------------------------------------
(* Correctness                                                             *)

\* The rows of all ranks, one block after the other.
AllRows(blocks) == FlattenSeq([k \in 1..P |-> blocks[k - 1]])
SourceRows == IF job.from = "file" THEN RowsRead(0, -1) ELSE AllRows(job.rows)
Scattered == job.from = "file" /\ FileSize < MaxRead

\* The table has been spread: it was read, or comm.load.balance() returned.
Spread == \/ job.from = "file" /\ Finished
          \/ \A r \in Ranks : pc[r] = "unload"

\* Every row of the source is on exactly one rank, and the blocks of the ranks
\* in a row are the source in its order: whatever the stretches that the ranks
\* read, whoever sends first.  All ranks have the names of the header, although
\* each took the first line of its own stretch for it.  (A file of one column has
\* none, on every rank: there man/ww_comm_read.Rd:81, "A distributed data.frame is
\* returned", does not hold.)
RowsInOrder ==
  /\ Spread => AllRows(ret) = SourceRows
  /\ job.from = "file" /\ Finished =>
       \A r \in Ranks : names[r] = IF shape = "column" THEN NoNames ELSE NamesRead(0)

\* A table that is balanced or scattered lies on the ranks as man/ww_comm_balance.Rd:43-46
\* promises: uniform with the larger blocks on the higher ("block") or on the
\* lower ranks ("block0"), or equal but for the last ("block.cyclic").  With as
\* many rows as ranks these are the shares of get.jid(), with which the example
\* of that page compares them.
SharesOfGetJid ==
  Spread =>
    /\ Len(SourceRows) >= P /\ (Scattered \/ method # "block.cyclic") =>
         \A r \in Ranks :
           LET jid == JidVector(Len(SourceRows), IF Scattered THEN "block" ELSE method, P, r) IN
           ret[r] = [i \in 1..Len(jid) |-> SourceRows[jid[i]]]
    /\ ~ Scattered =>
         \A r, s \in Ranks : r < s =>
           CASE method = "block"  -> Len(ret[s]) - Len(ret[r]) \in {0, 1}
             [] method = "block0" -> Len(ret[r]) - Len(ret[s]) \in {0, 1}
             [] method = "block.cyclic" ->
                  Len(ret[s]) <= Len(ret[r]) /\ (Len(ret[s]) > 0 => ret[r] # <<>> /\
                     \A t \in Ranks : Len(ret[t]) <= Len(ret[r]))

\* comm.unload.balance() gives every rank the rows it had, in their order.
UnloadRestores == job.from = "ranks" /\ Finished => ret = job.rows

\* The ranks read a large file one at a time ("locally and sequentially from
\* rank 0, 1, 2, ...", man/ww_comm_read.Rd:61).
OneReader == \A r, s \in Ranks : pc[r] = "reading" /\ pc[s] = "reading" => r = s

\* Inputs on which no rank has to stop.
Healthy ==
  /\ shape = "frame" \/ Scattered
  /\ method = "block.cyclic" /\ ~ Scattered => SourceRows # <<>>
  /\ Scattered => Len(SourceRows) >= P
  /\ job.from = "file" /\ ~ Scattered =>
       PredictedLines >= P /\ JidVector(PredictedLines, "block", P, P - 1)[1] <= NumLines

\* On such inputs every rank returns, even where a rank leaves spmd.wait()
\* only when its blocks have been received.
HealthyReturns == Healthy => <>Finished

=============================================================================
