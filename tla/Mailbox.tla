------------------------------ MODULE Mailbox -------------------------------
(***************************************************************************)
(* What send() and recv() promise: every object is delivered once, whole,  *)
(* as it was sent, and two objects of one sender with one tag arrive in    *)
(* the order they were sent.  PointToPoint implements it with headers,     *)
(* segments and buffers.                                                   *)
(***************************************************************************)
EXTENDS Naturals, Sequences

CONSTANT Senders

VARIABLES
  objects,  \* objects[s]: what s sends, in order, as records with a field tag
  posted,   \* posted[s]: how many of them s has sent
  got       \* the objects recv() returned, oldest first

Parcel(s, i) == [from |-> s, id |-> i, object |-> objects[s][i]]

Delivered(s, i) == \E k \in 1..Len(got) : got[k] = Parcel(s, i)

Init ==
  /\ posted = [s \in Senders |-> 0]
  /\ got = <<>>

Post(s) ==
  /\ posted[s] < Len(objects[s])
  /\ posted' = [posted EXCEPT ![s] = @ + 1]
  /\ UNCHANGED <<objects, got>>

Deliver(s, i) ==
  /\ i \in 1..posted[s]
  /\ ~ Delivered(s, i)
  /\ \A j \in 1..(i - 1) : objects[s][j].tag = objects[s][i].tag => Delivered(s, j)
  /\ got' = Append(got, Parcel(s, i))
  /\ UNCHANGED <<objects, posted>>

Next ==
  \E s \in Senders : Post(s) \/ \E i \in 1..Len(objects[s]) : Deliver(s, i)

Spec == Init /\ [][Next]_<<objects, posted, got>>
=============================================================================
