---------------------------- MODULE PointToPoint ----------------------------
(***************************************************************************)
(* send() and recv() of R/spmd_send.r, R/spmd_recv.r, src/spmd_send.c and  *)
(* src/spmd_recv.c: several ranks send R objects to one receiving rank.    *)
(* With check.type = TRUE an object travels as a header (its type and   *)
(* length, as two doubles) followed by its data; a vector longer than      *)
(* SPMD_SHORT_LEN_MAX is cut into segments.  With check.type = FALSE the   *)
(* default method probes for the size of the next message.                 *)
(*                                                                         *)
(* A channel keeps the messages of one sender in order; a receive takes    *)
(* the oldest message with its tag.  A send does not wait for its receive, *)
(* but a sender is only sure to go on once its messages are received.      *)
(***************************************************************************)
EXTENDS Integers, Sequences, FiniteSets, SequencesExt

CONSTANTS
  Senders,    \* the sending ranks
  Programs,   \* what the ranks do: [objects, recvs], see ProgramsAssumption
  MaxLen,     \* SPMD_SHORT_LEN_MAX
  AnySource,  \* anysource()
  AnyTag      \* anytag()

\* .pbd_env$SPMD.DT$type, and the bytes of an element of each.
Types == {"integer", "double", "raw", "raw.object"}
Width == [t \in Types |-> CASE t = "integer" -> 4 [] t = "double" -> 8 [] OTHER -> 1]
HeaderBytes == 16

\* x.buffer: NULL or an object that is no vector, or an atomic vector.
NoBuffer == [type |-> "none", len |-> 0]
Buffers == {NoBuffer} \cup [type : {"integer", "double", "raw"}, len : Nat]

\* The method S4 dispatch (or the caller) picks: "default" has type = NA.
Methods == {"default", "integer", "double", "raw"}

ASSUME MaxLenAssumption == MaxLen \in Nat \ {0}
ASSUME WildcardsAssumption == AnySource \notin Senders /\ AnyTag \notin Nat

\* objects[s]: the objects s sends, in order; recvs: the recv() calls the
\* receiver may make.  check is the argument check.type of the call.
ASSUME ProgramsAssumption ==
  Programs \subseteq
    [objects : [Senders -> Seq([tag : Nat, type : Types, len : Nat, check : BOOLEAN])],
     recvs   : SUBSET [source : Senders \cup {AnySource}, tag : Nat \cup {AnyTag},
                       method : Methods, buffer : Buffers, check : BOOLEAN]]

VARIABLES
  prog,   \* the program that runs
  chan,   \* chan[s]: messages of s not received yet, oldest first
  next,   \* next[s]: which of its objects s sends now
  sent,   \* sent[s]: elements of that object sent, -1 before its header
  rpc,    \* where the receiver is in recv()
  call,   \* the arguments of that recv()
  head,   \* what the receiver knows it is receiving: [from, id, type]
  buf,    \* x.buffer
  want,   \* C_length_recv_data: elements the C loop still asks for
  data,   \* what is in the buffer: [origins, filled]
  got     \* the values recv() returned, oldest first

svars == <<next, sent>>
rvars == <<rpc, call, head, buf, want, data, got>>
vars  == <<prog, chan, svars, rvars>>

Objects == prog.objects
Recvs == prog.recvs

------------------------------------------------------------------------------
(* send()                                                                  *)

Message(s, kind, count) ==
  [kind |-> kind, id |-> next[s], tag |-> Objects[s][next[s]].tag,
   type |-> Objects[s][next[s]].type, count |-> count]

Bytes(m) == IF m.kind = "header" THEN HeaderBytes ELSE m.count * Width[m.type]

Sending(s) == next[s] <= Len(Objects[s])
Length(s) == Objects[s][next[s]].len

\* s has sent n elements: the C function returns once nothing is left.
SentUpTo(s, n) ==
  IF n = Length(s)
  THEN next' = [next EXCEPT ![s] = @ + 1] /\ sent' = [sent EXCEPT ![s] = -1]
  ELSE next' = next /\ sent' = [sent EXCEPT ![s] = n]

\* spmd.check.type.send(): type and length, before the data.
SendHeader(s) ==
  /\ Sending(s) /\ sent[s] = -1
  /\ chan' = IF Objects[s][next[s]].check
             THEN [chan EXCEPT ![s] = Append(@, Message(s, "header", Length(s)))]
             ELSE chan
  /\ SentUpTo(s, 0)
  /\ UNCHANGED <<prog, rvars>>

\* One MPI_Send of the C loop: a full segment, or the remainder.
SendSegment(s) ==
  /\ Sending(s) /\ sent[s] >= 0
  /\ LET left  == Length(s) - sent[s]
         count == IF left > MaxLen THEN MaxLen ELSE left
     IN  /\ chan' = [chan EXCEPT ![s] = Append(@, Message(s, "data", count))]
         /\ SentUpTo(s, sent[s] + count)
  /\ UNCHANGED <<prog, rvars>>

------------------------------------------------------------------------------
(* recv()                                                                  *)

\* The messages of s that a receive with the call's arguments may take, and
\* the one MPI gives it: the oldest.
Matching(s) == {i \in 1..Len(chan[s]) : call.tag \in {AnyTag, chan[s][i].tag}}
Oldest(s, i) ==
  /\ call.source \in {s, AnySource}
  /\ i \in Matching(s)
  /\ \A j \in Matching(s) : i <= j

Take(s, i) == chan' = [chan EXCEPT ![s] = RemoveAt(@, i)]

\* The program calls recv(): it makes no more calls than there are objects
\* to answer them.
Pending(c) ==
  \E s \in Senders :
    /\ c.source \in {s, AnySource}
    /\ \E i \in 1..Len(Objects[s]) :
         /\ c.tag \in {AnyTag, Objects[s][i].tag}
         /\ \A k \in 1..Len(got) : <<got[k].from, got[k].id>> # <<s, i>>

\* Before the first call.
NoCall == [source |-> AnySource, tag |-> AnyTag, method |-> "default",
           buffer |-> NoBuffer, check |-> TRUE]

\* Nothing is known of the object before the first message is.
Unknown(c) == [from |-> AnySource, id |-> 0, type |-> c.method]

Recv(c) ==
  /\ rpc = "idle"
  /\ Pending(c)
  /\ rpc' = IF c.check THEN "header"
            ELSE IF c.method = "default" THEN "probe" ELSE "data"
  /\ call' = c
  /\ buf' = c.buffer
  /\ want' = c.buffer.len
  /\ head' = Unknown(c)
  /\ data' = [origins |-> {}, filled |-> 0]
  /\ UNCHANGED <<prog, chan, svars, got>>

\* SPMD.DT$is.func[[type]](x.buffer) and SPMD.DT$alc.func[[type]](len).
VectorType(t) == IF t = "raw.object" THEN "raw" ELSE t
Allocate(t, n) == [type |-> VectorType(t), len |-> n]

\* The buffer after the handshake: kept if it fits, allocated if not.
Fit(b, t, n) ==
  IF b.type = VectorType(t) /\ b.len = n THEN b ELSE Allocate(t, n)

\* spmd.check.type.recv().  A message that is no header leaves rubbish in
\* ct.buffer; the model does not follow the program further.
RecvHeader(s, i) ==
  /\ rpc = "header"
  /\ Oldest(s, i)
  /\ Take(s, i)
  /\ LET m == chan[s][i] IN
     /\ head' = [from |-> s, id |-> m.id, type |-> m.type]
     /\ CASE m.kind # "header" ->
               /\ rpc' = "broken"
               /\ UNCHANGED <<buf, want>>
          [] m.kind = "header" /\ call.method \notin {"default", m.type} ->
               /\ rpc' = "stopped"
               /\ UNCHANGED <<buf, want>>
          [] OTHER ->
               /\ rpc' = "data"
               /\ buf' = Fit(buf, m.type, m.count)
               /\ want' = Fit(buf, m.type, m.count).len
  /\ UNCHANGED <<prog, svars, call, data, got>>

\* Slip: the receive after the probe keeps the caller's wildcards.
Probe_KeepsWildcards(s, i) ==
  /\ rpc = "probe"
  /\ Oldest(s, i)
  /\ LET m == chan[s][i] IN
     /\ head' = [from |-> s, id |-> m.id, type |-> "raw.object"]
     /\ buf' = Allocate("raw", Bytes(m))
     /\ want' = Bytes(m)
  /\ rpc' = "data"
  /\ UNCHANGED <<prog, chan, svars, call, data, got>>

\* check.type = FALSE, default method: probe, get.sourcetag, get.count; the
\* receive then names the source and the tag that were probed.
Probe(s, i) ==
  /\ rpc = "probe"
  /\ Oldest(s, i)
  /\ LET m == chan[s][i] IN
     /\ head' = [from |-> s, id |-> m.id, type |-> "raw.object"]
     /\ call' = [call EXCEPT !.source = s, !.tag = m.tag]
     /\ buf' = Allocate("raw", Bytes(m))
     /\ want' = Bytes(m)
  /\ rpc' = "data"
  /\ UNCHANGED <<prog, chan, svars, data, got>>

\* Slip: the receive asks for all that is missing in one MPI_Recv.
RecvSegment_Whole(s, i) ==
  /\ rpc = "data" /\ want > 0
  /\ Oldest(s, i)
  /\ Take(s, i)
  /\ want' = 0
  /\ data' = [origins |-> data.origins \cup {<<s, chan[s][i].id, chan[s][i].kind>>},
              filled  |-> data.filled + chan[s][i].count]
  /\ UNCHANGED <<prog, svars, rpc, call, head, buf, got>>

\* One MPI_Recv of the C loop.  A message longer than the segment asked for
\* is truncated, and spmd_errhandler() raises an R error.
RecvSegment(s, i) ==
  /\ rpc = "data" /\ want > 0
  /\ Oldest(s, i)
  /\ Take(s, i)
  /\ LET m     == chan[s][i]
         count == IF want > MaxLen THEN MaxLen ELSE want
     IN  IF Bytes(m) > count * Width[buf.type]
         THEN /\ rpc' = "broken"
              /\ UNCHANGED <<head, want, data>>
         ELSE /\ want' = want - count
              /\ data' = [origins |-> data.origins \cup {<<s, m.id, m.kind>>},
                          filled  |-> data.filled + m.count]
              /\ head' = IF head.id = 0 THEN [head EXCEPT !.from = s, !.id = m.id]
                                         ELSE head
              /\ rpc' = rpc
  /\ UNCHANGED <<prog, svars, call, buf, got>>

\* recv() returns; the default method unserializes a raw.object.
Return ==
  /\ rpc = "data" /\ want = 0
  /\ got' = Append(got,
       [from |-> head.from, id |-> head.id, type |-> head.type, len |-> buf.len,
        whole |-> /\ data.origins \subseteq {<<head.from, head.id, "data">>}
                  /\ data.filled = buf.len])
  /\ rpc' = "idle"
  /\ UNCHANGED <<prog, chan, svars, call, head, buf, want, data>>

------------------------------------------------------------------------------
(* The program                                                             *)

Init ==
  /\ prog \in Programs
  /\ chan = [s \in Senders |-> <<>>]
  /\ next = [s \in Senders |-> 1]
  /\ sent = [s \in Senders |-> -1]
  /\ rpc = "idle"
  /\ call = NoCall
  /\ head = Unknown(NoCall)
  /\ buf = NoBuffer
  /\ want = 0
  /\ data = [origins |-> {}, filled |-> 0]
  /\ got = <<>>

SenderStep(s) == SendHeader(s) \/ SendSegment(s)

ReceiverStep ==
  \/ \E c \in Recvs : Recv(c)
  \/ \E s \in Senders : \E i \in 1..Len(chan[s]) :
       RecvHeader(s, i) \/ Probe(s, i) \/ RecvSegment(s, i)
  \/ Return

\* Every object was sent and received, or the receiver left with an error.
AllReceived == rpc = "idle" /\ \A c \in Recvs : ~ Pending(c)
Terminating ==
  /\ \A s \in Senders : ~ Sending(s)
  /\ AllReceived \/ rpc \in {"stopped", "broken"}
  /\ UNCHANGED vars

Next == (\E s \in Senders : SenderStep(s)) \/ ReceiverStep \/ Terminating

\* A blocking send may wait for its receive, so a sender is only sure to take
\* a step when its messages have been received.
Fairness ==
  /\ \A s \in Senders : WF_vars(chan[s] = <<>> /\ SenderStep(s))
  /\ WF_vars(ReceiverStep)

Spec == Init /\ [][Next]_vars /\ Fairness

------------------------------------------------------------------------------
(* Properties                                                              *)

\* Object i of s is one that the call c may take.
Answers(p, c, s, i) ==
  /\ c.source \in {s, AnySource}
  /\ c.tag \in {AnyTag, p.objects[s][i].tag}

\* The program sends and receives in the same way: the two sides agree on
\* check.type; an object that takes several messages is asked for where only
\* its sender can answer; and without check.type recv() unserializes what fits
\* one segment, or is given a vector like the one that is sent.
Suits(p, c) ==
  \A s \in Senders : \A i \in 1..Len(p.objects[s]) :
    Answers(p, c, s, i) =>
      LET object == p.objects[s][i] IN
      /\ object.check = c.check
      /\ c.check \/ object.len > MaxLen =>
           \A t \in Senders : \A j \in 1..Len(p.objects[t]) : Answers(p, c, t, j) => t = s
      /\ ~ c.check =>
           /\ object.len > 0
           /\ c.method = "default" => object.type = "raw.object" /\ object.len <= MaxLen
           /\ c.method # "default" =>
                c.method = object.type /\ c.buffer = [type |-> object.type, len |-> object.len]
Agreed(p) == \A c \in p.recvs : Suits(p, c)

\* recv() never meets a message that does not fit: no data is read as a
\* header, and no receive of the C loops of src/spmd_recv.c is truncated.
NeverBroken == rpc # "broken"

\* Every recv() returns, unless the handshake refuses the type or the program
\* asks for a later message first (a send that waits for its receive then
\* blocks the sender).
TakesTheOldest == \A c \in Recvs : c.tag = AnyTag
EverythingArrives == TakesTheOldest ~> AllReceived \/ rpc = "stopped"

\* What recv() returned, as the abstract specification sees it: the object
\* of its sender, or a value nobody sent.
Value(g) ==
  [from |-> g.from, id |-> g.id,
   object |-> IF g.whole
              THEN [Objects[g.from][g.id] EXCEPT !.type = g.type, !.len = g.len]
              ELSE [tag |-> 0, type |-> "torn", len |-> g.len, check |-> FALSE]]

Box == INSTANCE Mailbox WITH objects <- Objects,
                             posted <- [s \in Senders |-> next[s] - 1],
                             got <- [k \in 1..Len(got) |-> Value(got[k])]

\* send() and recv() together are a mailbox of whole objects, in order.
ImplementsMailbox == Box!Spec
=============================================================================
