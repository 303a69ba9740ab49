------------------------------ MODULE Exchange ------------------------------
(***************************************************************************)
(* The calls that pair every rank with its neighbours, in one program with *)
(* send() and recv(), whose default tag they all share: sendrecv() and     *)
(* sendrecv.replace() (R/spmd_sendrecv.r, R/spmd_sendrecv_replace.r, and   *)
(* the C functions of the same names) pass an object round the ring;       *)
(* comm.print() and comm.cat() (R/spmd_tool.r) pass a token along the ranks *)
(* that print; comm.write() and comm.write.table() (R/comm_write.r) take   *)
(* turns between barriers.                                                 *)
(***************************************************************************)
EXTENDS Integers, Sequences, FiniteSets, SequencesExt

CONSTANTS
  P,         \* comm.size(); the ranks are 0..P-1
  Programs,  \* what the ranks run: for each rank the calls it makes, in order
  MaxLen     \* SPMD_SHORT_LEN_MAX

ASSUME SizeAssumption == P \in Nat \ {0}
ASSUME MaxLenAssumption == MaxLen \in Nat

Ranks == 0..(P - 1)

\* The default rank.dest and rank.source.
Following(r) == (r + 1) % P
Preceding(r) == (r - 1) % P

\* A call.  id is the same on all ranks that make it together.
\*   len      the length of the object (its serialization)
\*   buffer   the length of x.buffer, for a method of atomic vectors
\*   peer     rank.dest of send(), rank.source of recv()
\*   ranks    rank.print;  all: all.rank
Rings    == {"sendrecv", "sendrecv.vector", "replace", "replace.vector"}
Replaces == {"replace", "replace.vector"}
Vectors  == {"sendrecv.vector", "replace.vector"}
Calls ==
  [op : Rings, id : Nat, len : Nat, buffer : Nat]
  \cup [op : {"print"}, id : Nat, ranks : Seq(Ranks), all : BOOLEAN, barrier : BOOLEAN]
  \cup [op : {"write"}, id : Nat, append : BOOLEAN]
  \cup [op : {"send"}, id : Nat, peer : Ranks, len : Nat \ {0}]
  \cup [op : {"recv"}, id : Nat, peer : Ranks]

\* The calls of all ranks.
Together == Rings \cup {"print", "write"}

\* Call c of rank r and call d of rank q are the two sides of one call.
Sides(r, c, q, d) ==
  /\ c.id = d.id
  /\ \/ c.op \in Rings /\ d.op = c.op
     \/ c.op \in Together \ Rings /\ d = c
     \/ {c.op, d.op} = {"send", "recv"} /\ c.peer = q /\ d.peer = r

\* All ranks make the calls of all ranks, in one order; a message that is sent
\* is received, and the messages from one rank to another in the order they are
\* sent in: what is left in a channel would be taken for something else.
OneOrder(c, d) ==
  \/ c.op \in Together /\ d.op \in Together
  \/ c.op = "send" /\ d.op = "send"
Matched(p) ==
  \A r, q \in Ranks :
    /\ \A i, j \in DOMAIN p[r] : p[r][i].id = p[r][j].id => i = j
    /\ \A i \in DOMAIN p[r] :
         (p[r][i].op \in Together \/ p[r][i].peer = q)
           => \E j \in DOMAIN p[q] : Sides(r, p[r][i], q, p[q][j])
    /\ \A h, i \in DOMAIN p[r], j, k \in DOMAIN p[q] :
         (/\ h < i
          /\ OneOrder(p[r][h], p[r][i])
          /\ p[r][h].id = p[q][j].id
          /\ p[r][i].id = p[q][k].id) => j < k

ASSUME ProgramsAssumption ==
  Programs \subseteq [Ranks -> Seq(Calls)] /\ \A p \in Programs : Matched(p)

VARIABLES
  program,   \* the program that runs
  done,      \* done[r]: the calls r has returned from
  at,        \* at[r]: where r is in the next one, see Places
  room,      \* room[r]: the length of the buffer r receives into
  turn,      \* turn[r]: the barriers of comm.write() that r has left
  entered,   \* entered[r]: the barriers that r has entered
  channel,   \* channel[s][d]: the messages from s to d, oldest first
  returned,  \* returned[r]: what the calls of r returned
  out,       \* what was printed, as <<call, rank>>
  file       \* what is in the file, as <<call, rank>>

vars == <<program, done, at, room, turn, entered, channel, returned, out, file>>

Running(r) == done[r] < Len(program[r])
Call(r) == program[r][done[r] + 1]
In(r, ops, place) == Running(r) /\ at[r] = place /\ Call(r).op \in ops

Goto(r, place) == at' = [at EXCEPT ![r] = place]
Done(r) == done' = [done EXCEPT ![r] = @ + 1] /\ Goto(r, "call")
Return(r, value) ==
  returned' = [returned EXCEPT ![r] = Append(@, [id |-> Call(r).id, value |-> value])]

\* A message: what it is, its bytes, the call that sent it, and the number in it.
Message(r, kind, bytes, number) ==
  [kind |-> kind, bytes |-> bytes, from |-> <<r, Call(r).id>>, number |-> number]
Posted(s, d, m) == [channel EXCEPT ![s][d] = Append(@, m)]
Taken(s, d) == [channel EXCEPT ![s][d] = Tail(@)]
Arrived(s, d) == channel[s][d] # <<>>

IntegerBytes == 4
HeaderBytes == 16

------------------------------------------------------------------------------
(* sendrecv(), sendrecv.replace()                                          *)

\* spmd.sendrecv.integer() for the length: rank.dest = rank.source.
SendLength(r) ==
  /\ In(r, Rings \ Vectors, "call")
  /\ channel' = Posted(r, Preceding(r), Message(r, "length", IntegerBytes, Call(r).len))
  /\ Goto(r, "length")
  /\ UNCHANGED <<program, done, room, turn, entered, returned, out, file>>

\* Slip: sendrecv() sizes its buffer by its own object, too.
Room_Own(r, announced) == Call(r).len

\* The length received is that of the buffer; sendrecv.replace() receives over
\* x.raw instead.  total.org == total.new cannot fail there: as.integer(total.org)
\* is total.org itself, and MPI_Sendrecv_replace() wrote total.new over it.
Room(r, announced) == IF Call(r).op \in Replaces THEN Call(r).len ELSE announced

\* MPI gives an integer(1) the oldest message; one longer is an error, and so is
\* whatever a shorter one that is no length leads to.
TakeLength(r) ==
  LET s == Following(r) IN
  /\ In(r, Rings \ Vectors, "length")
  /\ Arrived(s, r)
  /\ channel' = Taken(s, r)
  /\ IF Head(channel[s][r]).kind = "length"
     THEN /\ room' = [room EXCEPT ![r] = Room(r, Head(channel[s][r]).number)]
          /\ Goto(r, "sized")
     ELSE room' = room /\ Goto(r, "failed")
  /\ UNCHANGED <<program, done, turn, entered, returned, out, file>>

\* A method of atomic vectors starts here, with the caller's buffer.
Buffer(r) ==
  CASE Call(r).op = "replace.vector"  -> Call(r).len
    [] Call(r).op = "sendrecv.vector" -> Call(r).buffer
    [] OTHER -> room[r]

\* The object; "long vectors not supported yet" comes before anything is sent.
SendObject(r) ==
  /\ In(r, Rings \ Vectors, "sized") \/ In(r, Vectors, "call")
  /\ room' = [room EXCEPT ![r] = Buffer(r)]
  /\ IF Call(r).len > MaxLen \/ Buffer(r) > MaxLen
     THEN channel' = channel /\ Goto(r, "failed")
     ELSE /\ channel' = Posted(r, Following(r), Message(r, "object", Call(r).len, 0))
          /\ Goto(r, "object")
  /\ UNCHANGED <<program, done, turn, entered, returned, out, file>>

\* The neighbour's object: one longer than the buffer is truncated, which is an
\* error of MPI; unserialize() does not mind bytes after a shorter one.
TakeObject(r) ==
  LET s == Preceding(r)
      m == Head(channel[s][r])
  IN
  /\ In(r, Rings, "object")
  /\ Arrived(s, r)
  /\ channel' = Taken(s, r)
  /\ IF m.bytes > room[r] \/ (m.kind # "object" /\ Call(r).op \notin Vectors)
     THEN returned' = returned /\ Goto(r, "failed")
     ELSE Return(r, m.from) /\ Goto(r, "sent")
  /\ UNCHANGED <<program, done, room, turn, entered, out, file>>

------------------------------------------------------------------------------
(* send(), recv()                                                          *)

SendHeader(r) ==
  /\ In(r, {"send"}, "call")
  /\ channel' = Posted(r, Call(r).peer, Message(r, "header", HeaderBytes, Call(r).len))
  /\ Goto(r, "announced")
  /\ UNCHANGED <<program, done, room, turn, entered, returned, out, file>>

SendData(r) ==
  /\ In(r, {"send"}, "announced")
  /\ channel' = Posted(r, Call(r).peer, Message(r, "data", Call(r).len, 0))
  /\ Goto(r, "sent")
  /\ UNCHANGED <<program, done, room, turn, entered, returned, out, file>>

RecvStart(r) ==
  /\ In(r, {"recv"}, "call")
  /\ Goto(r, "header")
  /\ UNCHANGED <<program, done, room, turn, entered, channel, returned, out, file>>

------------------------------------------------------------------------------
(* comm.print(), comm.cat()                                                *)

\* Slip: a rank named twice has two places.
Order_Twice(c) == IF c.all THEN [i \in 1..P |-> i - 1] ELSE c.ranks

\* unique()
Unique(s) ==
  LET first[k \in 0..Len(s)] ==
        IF k = 0 THEN <<>>
        ELSE IF Contains(first[k - 1], s[k]) THEN first[k - 1] ELSE Append(first[k - 1], s[k])
  IN  first[Len(s)]

\* all.rank, or unique(rank.print).
Order(c) == IF c.all THEN [i \in 1..P |-> i - 1] ELSE Unique(c.ranks)

Prints(r) == Contains(Order(Call(r)), r)
Position(r) ==
  CHOOSE i \in DOMAIN Order(Call(r)) :
    /\ Order(Call(r))[i] = r
    /\ \A j \in 1..(i - 1) : Order(Call(r))[j] # r
Final(r) == Position(r) = Len(Order(Call(r)))
Before(r) == Order(Call(r))[Position(r) - 1]
After(r) == Order(Call(r))[Position(r) + 1]

\* Slip: a rank that is not the first does not wait for the one before it.
Posture_NoWait(r) == IF Prints(r) THEN "turn" ELSE "sent"

\* match(COMM.RANK, rank.print)
Posture(r) ==
  IF ~ Prints(r) THEN "sent" ELSE IF Position(r) = 1 THEN "turn" ELSE "header"

PrintStart(r) ==
  /\ In(r, {"print"}, "call")
  /\ IF Call(r).barrier
     THEN entered' = [entered EXCEPT ![r] = @ + 1] /\ Goto(r, "barrier")
     ELSE entered' = entered /\ Goto(r, Posture(r))
  /\ UNCHANGED <<program, done, room, turn, channel, returned, out, file>>

Released(r) == \A q \in Ranks : entered[q] >= entered[r]

PrintBarrier(r) ==
  /\ In(r, {"print"}, "barrier")
  /\ Released(r)
  /\ Goto(r, Posture(r))
  /\ UNCHANGED <<program, done, room, turn, entered, channel, returned, out, file>>

\* recv(rank.source): any header will do, and the data that follows it is read.
Source(r) == IF Call(r).op = "print" THEN Before(r) ELSE Call(r).peer
Received(r, m) ==
  IF Call(r).op = "print" THEN returned' = returned /\ Goto(r, "turn")
  ELSE Return(r, m.from) /\ Goto(r, "sent")

\* Slip: only the header is read.
TakeHeader_Alone(r) ==
  LET s == Source(r)
      m == Head(channel[s][r])
  IN
  /\ In(r, {"print", "recv"}, "header")
  /\ Arrived(s, r)
  /\ channel' = Taken(s, r)
  /\ room' = [room EXCEPT ![r] = m.number]
  /\ IF m.kind # "header" THEN returned' = returned /\ Goto(r, "failed")
     ELSE Received(r, m)
  /\ UNCHANGED <<program, done, turn, entered, out, file>>

TakeHeader(r) ==
  LET s == Source(r)
      m == Head(channel[s][r])
  IN
  /\ In(r, {"print", "recv"}, "header")
  /\ Arrived(s, r)
  /\ channel' = Taken(s, r)
  /\ room' = [room EXCEPT ![r] = m.number]
  /\ CASE m.kind # "header" -> returned' = returned /\ Goto(r, "failed")
       [] m.kind = "header" /\ m.number # 0 -> returned' = returned /\ Goto(r, "data")
       [] m.kind = "header" /\ m.number = 0 -> Received(r, m)
  /\ UNCHANGED <<program, done, turn, entered, out, file>>

TakeData(r) ==
  LET s == Source(r)
      m == Head(channel[s][r])
  IN
  /\ In(r, {"print", "recv"}, "data")
  /\ Arrived(s, r)
  /\ channel' = Taken(s, r)
  /\ IF m.bytes > room[r] THEN returned' = returned /\ Goto(r, "failed")
     ELSE Received(r, m)
  /\ UNCHANGED <<program, done, room, turn, entered, out, file>>

\* print() or cat(), then send(integer(0)), whose header is all of it.
PrintOut(r) ==
  /\ In(r, {"print"}, "turn")
  /\ out' = Append(out, <<Call(r).id, r>>)
  /\ channel' = IF Final(r) THEN channel
                ELSE Posted(r, After(r), Message(r, "header", HeaderBytes, 0))
  /\ Goto(r, "sent")
  /\ UNCHANGED <<program, done, room, turn, entered, returned, file>>

------------------------------------------------------------------------------
(* comm.write(), comm.write.table()                                        *)

\* append <- TRUE on every rank but 0.
Written(r) ==
  IF r # 0 \/ Call(r).append THEN Append(file, <<Call(r).id, r>>)
  ELSE <<<<Call(r).id, r>>>>

\* One round of the loop: write if it is this rank's turn, then the barrier.
WriteTurn(r) ==
  /\ In(r, {"write"}, "call")
  /\ file' = IF turn[r] = r THEN Written(r) ELSE file
  /\ entered' = [entered EXCEPT ![r] = @ + 1]
  /\ Goto(r, "between")
  /\ UNCHANGED <<program, done, room, turn, channel, returned, out>>

\* Slip: the loop ends with the rank's own turn.
WriteBarrier_LeavesEarly(r) ==
  /\ In(r, {"write"}, "between")
  /\ Released(r)
  /\ IF turn[r] = r
     THEN turn' = [turn EXCEPT ![r] = 0] /\ Goto(r, "sent")
     ELSE turn' = [turn EXCEPT ![r] = @ + 1] /\ Goto(r, "call")
  /\ UNCHANGED <<program, done, room, entered, channel, returned, out, file>>

WriteBarrier(r) ==
  /\ In(r, {"write"}, "between")
  /\ Released(r)
  /\ IF turn[r] = P - 1
     THEN turn' = [turn EXCEPT ![r] = 0] /\ Goto(r, "sent")
     ELSE turn' = [turn EXCEPT ![r] = @ + 1] /\ Goto(r, "call")
  /\ UNCHANGED <<program, done, room, entered, channel, returned, out, file>>

------------------------------------------------------------------------------
(* The program                                                             *)

\* The call returns.
Leave(r) ==
  /\ Running(r) /\ at[r] = "sent"
  /\ Done(r)
  /\ UNCHANGED <<program, room, turn, entered, channel, returned, out, file>>

Init ==
  /\ program \in Programs
  /\ done = [r \in Ranks |-> 0]
  /\ at = [r \in Ranks |-> "call"]
  /\ room = [r \in Ranks |-> 0]
  /\ turn = [r \in Ranks |-> 0]
  /\ entered = [r \in Ranks |-> 0]
  /\ channel = [s \in Ranks |-> [d \in Ranks |-> <<>>]]
  /\ returned = [r \in Ranks |-> <<>>]
  /\ out = <<>>
  /\ file = <<>>

Step(r) ==
  \/ SendLength(r) \/ TakeLength(r) \/ SendObject(r) \/ TakeObject(r)
  \/ SendHeader(r) \/ SendData(r) \/ RecvStart(r)
  \/ PrintStart(r) \/ PrintBarrier(r) \/ TakeHeader(r) \/ TakeData(r) \/ PrintOut(r)
  \/ WriteTurn(r) \/ WriteBarrier(r)
  \/ Leave(r)

\* The program ends; a rank that failed may leave the others waiting.
Terminating ==
  /\ (\A r \in Ranks : ~ Running(r)) \/ (\E r \in Ranks : at[r] = "failed")
  /\ UNCHANGED vars

Next == (\E r \in Ranks : Step(r)) \/ Terminating

\* A rank that has to wait for a send to return is only sure to go on when its
\* messages have been received.
Sure(r) ==
  at[r] \in {"announced", "sized", "sent"} => \A d \in Ranks : channel[r][d] = <<>>

Fairness == \A r \in Ranks : WF_vars(Sure(r) /\ Step(r))

Spec == Init /\ [][Next]_vars /\ Fairness

------------------------------------------------------------------------------
(* Properties                                                              *)

\* A program is in phase when the two sides of send() and recv() have the same
\* calls of all ranks behind them.  send() and recv() share the tag of the other
\* calls by default, so a message out of phase can be taken for one of theirs.
Behind(r, i) == {program[r][j].id : j \in {k \in 1..(i - 1) : program[r][k].op \in Together}}
InPhase ==
  \A r, q \in Ranks : \A i \in DOMAIN program[r], j \in DOMAIN program[q] :
    program[r][i].id = program[q][j].id => Behind(r, i) = Behind(q, j)

\* The lengths allow call i of rank r: the buffer, which has the length of the
\* *following* rank's object (R/spmd_sendrecv.r:13-18), of the rank's own
\* (sendrecv.replace()) or that the caller gave it, takes the preceding rank's
\* object, and nothing is a long vector.  Ring calls are at the same place i of
\* programs without send() and recv(); in general, at the place with the same id.
Partner(r, q, i) == CHOOSE j \in DOMAIN program[q] : program[q][j].id = program[r][i].id
Capacity(r, i) ==
  LET c == program[r][i] IN
  CASE c.op \in Replaces -> c.len
    [] c.op = "sendrecv.vector" -> c.buffer
    [] c.op = "sendrecv" -> program[Following(r)][Partner(r, Following(r), i)].len
Fits(r, i) ==
  LET c == program[r][i] IN
  /\ c.len <= MaxLen /\ Capacity(r, i) <= MaxLen
  /\ program[Preceding(r)][Partner(r, Preceding(r), i)].len <= Capacity(r, i)

\* A call that returns a value returns what the rank it names passed to the
\* same call, whatever else travels between the two ranks.
Delivered ==
  InPhase =>
    \A r \in Ranks : \A k \in 1..Len(returned[r]) :
      LET i == CHOOSE i \in DOMAIN program[r] : program[r][i].id = returned[r][k].id
          c == program[r][i]
      IN  returned[r][k].value =
            <<IF c.op \in Rings THEN Preceding(r) ELSE c.peer, c.id>>

\* A rank fails only in a ring call whose lengths do not fit, or when a rank it
\* waits for did; never because it took one call's message for another's.
FailsOnlyOnLength ==
  InPhase =>
    \A r \in Ranks : at[r] = "failed" => Call(r).op \in Rings /\ ~ Fits(r, done[r] + 1)

\* What one process that made the calls in order would print.
Lines(c) ==
  IF c.op = "print" THEN [k \in 1..Len(Order(c)) |-> <<c.id, Order(c)[k]>>] ELSE <<>>
Script ==
  LET upto[i \in 0..Len(program[0])] ==
        IF i = 0 THEN <<>> ELSE upto[i - 1] \o Lines(program[0][i])
  IN  upto[Len(program[0])]

\* A rank prints after the ranks before it in rank.print, in every call; and with
\* barriers (SPMD.CT()$msg.barrier, the default) the calls do not mix.
InTurn ==
  InPhase =>
    /\ \A i \in 1..Len(out) :
         LET r == out[i][2]
             c == CHOOSE c \in ToSet(program[r]) : c.id = out[i][1]
             order == Order(c)
         IN  \A j \in 1..Len(order) :
               (\E k \in (j + 1)..Len(order) : order[k] = r)
                 => \E k \in 1..(i - 1) : out[k] = <<c.id, order[j]>>
    /\ (\A c \in ToSet(program[0]) : c.op = "print" => c.barrier) => IsPrefix(out, Script)

\* A rank that has returned from comm.write() finds every rank's block in the
\* file, in the order of the ranks, until a later call writes; without append
\* nothing else is in it.
WholeFile ==
  \A r \in Ranks : \A i \in 1..done[r] :
    LET c == program[r][i]
        blocks == [k \in 1..P |-> <<c.id, k - 1>>]
    IN  c.op = "write" =>
          \/ file # <<>> /\ file[Len(file)][1] # c.id
          \/ IF c.append THEN IsSuffix(blocks, file) ELSE file = blocks

\* Every rank returns from every call, if the lengths fit.
AllFit == \A r \in Ranks : \A i \in DOMAIN program[r] : program[r][i].op \in Rings => Fits(r, i)
EveryoneReturns == InPhase /\ AllFit ~> \A r \in Ranks : ~ Running(r)
=============================================================================
