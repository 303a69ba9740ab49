--------------------------- MODULE TaskPull_proofs ---------------------------
(***************************************************************************)
(* Theorems about TaskPull, for any set of workers, any job lists and any  *)
(* number of calls.                                                        *)
(***************************************************************************)
EXTENDS TaskPull, WellFoundedInduction, FiniteSetTheorems, SequenceTheorems, TLAPS

------------------------------------------------------------------------------
(* Induction, with a set instead of a predicate                            *)

\* A nonempty set of natural numbers has a least element.
LEMMA LeastNatural ==
  ASSUME NEW T \in SUBSET Nat, T # {}
  PROVE  \E x \in T : \A y \in T : x <= y
<1>1. IsWellFoundedOn(OpToRel(<, Nat), Nat)
  BY NatLessThanWellFounded
<1>2. PICK x \in T : \A y \in T : ~ (<<y, x>> \in OpToRel(<, Nat))
  BY <1>1, WFMin
<1>3. \A y \in T : ~ (y < x)
  BY <1>2 DEF OpToRel
<1>4. QED
  BY <1>3

\* A set with 0 that is closed under successor holds every natural number.
LEMMA SetInductionNat ==
  ASSUME NEW T, 0 \in T, \A n \in Nat : n \in T => n + 1 \in T
  PROVE  \A n \in Nat : n \in T
<1>1. SUFFICES ASSUME Nat \ T # {} PROVE FALSE
  OBVIOUS
<1>2. PICK x \in Nat \ T : \A y \in Nat \ T : x <= y
  BY <1>1, LeastNatural
<1>3. x # 0 /\ x - 1 \in Nat
  BY <1>2
<1>4. x - 1 \in T
  BY <1>2, <1>3
<1>5. QED
  BY <1>2, <1>3, <1>4

\* A nonempty vector of numbers has a largest element.
LEMMA VectorHasMaximum ==
  ASSUME NEW s \in Seq(Nat), s # <<>>
  PROVE  \E m \in {s[i] : i \in 1..Len(s)} : \A i \in 1..Len(s) : s[i] <= m
<1> DEFINE Good == {n \in Nat : n >= 1 /\ n <= Len(s) =>
                      \E k \in 1..n : \A i \in 1..n : s[i] <= s[k]}
<1>0. Len(s) \in Nat /\ Len(s) >= 1 /\ \A i \in 1..Len(s) : s[i] \in Nat
  OBVIOUS
<1>1. 0 \in Good
  OBVIOUS
<1>2. ASSUME NEW n \in Nat, n \in Good PROVE n + 1 \in Good
  <2>1. CASE n = 0
    BY <1>0, <2>1
  <2>2. CASE n >= 1 /\ n + 1 <= Len(s)
    <3>1. PICK k \in 1..n : \A i \in 1..n : s[i] <= s[k]
      BY <1>2, <2>2
    <3>2. CASE s[n + 1] <= s[k]
      <4>1. \A i \in 1..(n + 1) : s[i] <= s[k]
        BY <3>1, <3>2
      <4>2. QED
        BY <4>1
    <3>3. CASE s[k] < s[n + 1]
      <4>1. \A i \in 1..(n + 1) : s[i] <= s[n + 1]
        <5>1. SUFFICES ASSUME NEW i \in 1..(n + 1), i # n + 1 PROVE s[i] <= s[n + 1]
          BY <1>0, <2>2
        <5>2. i \in 1..n /\ s[i] \in Nat /\ s[k] \in Nat /\ s[n + 1] \in Nat
          BY <1>0, <2>2, <5>1
        <5>3. QED
          BY <3>1, <3>3, <5>2
      <4>2. QED
        BY <4>1
    <3>4. s[k] \in Nat /\ s[n + 1] \in Nat
      BY <1>0, <2>2, <3>1
    <3>5. s[n + 1] <= s[k] \/ s[k] < s[n + 1]
      BY <3>4
    <3>6. QED
      BY <3>2, <3>3, <3>5
  <2>3. QED
    BY <2>1, <2>2
<1>3. \A n \in Nat : n \in Good
  <2> HIDE DEF Good
  <2> QED
    BY <1>1, <1>2, SetInductionNat
<1>4. Len(s) \in Good
  BY <1>0, <1>3
<1>5. PICK k \in 1..Len(s) : \A i \in 1..Len(s) : s[i] <= s[k]
  BY <1>0, <1>4
<1>6. QED
  BY <1>5

Lists == Seq(Results \cup {NULL})

------------------------------------------------------------------------------
(* The list operators.                                                     *)

\* The list that vector("list", max(jids)) makes has a slot for every id.
LEMMA MaxJidIsLargest ==
  ASSUME NEW ids \in Seq(Nat), ids # <<>>
  PROVE  /\ MaxJid(ids) \in Nat
         /\ \A i \in 1..Len(ids) : ids[i] <= MaxJid(ids)
<1>1. \E m \in {ids[i] : i \in 1..Len(ids)} : \A i \in 1..Len(ids) : ids[i] <= m
  BY VectorHasMaximum
<1>2. {ids[i] : i \in 1..Len(ids)} \subseteq Nat
  OBVIOUS
<1>3. /\ MaxJid(ids) \in {ids[i] : i \in 1..Len(ids)}
      /\ \A i \in 1..Len(ids) : ids[i] <= MaxJid(ids)
  BY <1>1 DEF MaxJid
<1>4. QED
  BY <1>2, <1>3

\* vector("list", n) is a list of length n, all NULL.
LEMMA EmptyListType ==
  ASSUME NEW n \in Nat
  PROVE  /\ EmptyList(n) \in Lists
         /\ Len(EmptyList(n)) = n
         /\ \A k \in 1..n : EmptyList(n)[k] = NULL
BY DEF EmptyList, Lists

\* Storing at an index changes that element only and never shortens the list.
LEMMA StoreElementProperties ==
  ASSUME NEW l \in Lists, NEW i \in Nat, NEW v \in Results
  PROVE  /\ StoreElement(l, i, v) \in Lists
         /\ Len(StoreElement(l, i, v)) = IF i > Len(l) THEN i ELSE Len(l)
         /\ i # 0 => StoreElement(l, i, v)[i] = v
         /\ \A k \in 1..Len(l) : k # i => StoreElement(l, i, v)[k] = l[k]
<1> DEFINE n == IF i > Len(l) THEN i ELSE Len(l)
           f == [k \in 1..n |-> IF k = i THEN v ELSE IF k <= Len(l) THEN l[k] ELSE NULL]
<1>1. n \in Nat /\ Len(l) \in Nat /\ n >= i /\ n >= Len(l)
  BY DEF Lists
<1>0. n = IF i > Len(l) THEN i ELSE Len(l)
  OBVIOUS
<1> HIDE DEF n
<1>2. \A k \in 1..n : f[k] \in Results \cup {NULL}
  BY <1>1 DEF Lists
<1>3. f \in Lists /\ Len(f) = n
  BY <1>1, <1>2 DEF Lists
<1>4. /\ i # 0 => f[i] = v
      /\ \A k \in 1..Len(l) : k # i => f[k] = l[k]
  <2>1. i # 0 => i \in 1..n
    BY <1>1
  <2>2. \A k \in 1..Len(l) : k \in 1..n /\ k <= Len(l)
    BY <1>1
  <2>3. QED
    BY <2>1, <2>2
<1>5. StoreElement(l, i, v) = f
  BY DEF StoreElement, n
<1> HIDE DEF f
<1>6. QED
  BY <1>0, <1>1, <1>3, <1>4, <1>5

\* l[[i]] <- v yields a list.
LEMMA ListAssignType ==
  ASSUME NEW l \in Lists, NEW i \in Nat, NEW v \in Results \cup {NULL}
  PROVE  ListAssign(l, i, v) \in Lists
<1>1. CASE v = NULL
  <2>1. CASE i \in 1..Len(l)
    <3>1. Len(l) - 1 \in Nat
      BY <2>1 DEF Lists
    <3>2. \A k \in 1..(Len(l) - 1) :
             (IF k < i THEN l[k] ELSE l[k + 1]) \in Results \cup {NULL}
      BY <2>1, <3>1 DEF Lists
    <3>3. DeleteElement(l, i) \in Lists
      BY <2>1, <3>1, <3>2 DEF DeleteElement, Lists
    <3>4. QED
      BY <1>1, <3>3 DEF ListAssign
  <2>2. QED
    BY <1>1, <2>1 DEF ListAssign, DeleteElement
<1>2. CASE v # NULL
  <2>1. v \in Results
    BY <1>2
  <2>2. QED
    BY <1>2, <2>1, StoreElementProperties DEF ListAssign
<1>3. QED
  BY <1>1, <1>2

------------------------------------------------------------------------------
(* Type correctness.                                                       *)

\* With a barrier after every call, all ranks are in the same call.
SameCall == Barrier => \A w \in Workers : wcall[w] = mcall

LEMMA CardinalityOfWorkers == Cardinality(Workers) \in Nat
BY WorkersAssumption, FS_CardinalityType

\* What reading a channel of worker w, or writing to it, preserves.
LEMMA ReceiveType ==
  ASSUME TypeOK, NEW w \in Workers, NEW tag, Receive(w, tag)
  PROVE  /\ toM' \in [Workers -> Seq(ToManager)]
         /\ Head(toM[w]) \in ToManager
         /\ mpc = "loop" /\ closed < Cardinality(Workers)
<1>1. toM[w] \in Seq(ToManager) /\ toM[w] # <<>>
  BY DEF TypeOK, Receive
<1>2. Head(toM[w]) \in ToManager /\ Tail(toM[w]) \in Seq(ToManager)
  BY <1>1
<1>3. QED
  BY <1>2 DEF TypeOK, Receive, Looping

LEMMA SendToWorkerType ==
  ASSUME TypeOK, NEW w \in Workers, NEW m \in ToWorker
  PROVE  [toW EXCEPT ![w] = Append(@, m)] \in [Workers -> Seq(ToWorker)]
BY DEF TypeOK

LEMMA SendToManagerType ==
  ASSUME TypeOK, NEW w \in Workers, NEW m \in ToManager
  PROVE  [toM EXCEPT ![w] = Append(@, m)] \in [Workers -> Seq(ToManager)]
BY DEF TypeOK

\* TypeOK is inductive once the ranks are known to be in the same call.
LEMMA TypeStep ==
  ASSUME TypeOK, SameCall, [Next]_vars
  PROVE  TypeOK' /\ SameCall'
<1> USE CardinalityOfWorkers, CallsAssumption
<1>1. ASSUME NEW ids \in JobLists, ManagerEnter(ids) PROVE TypeOK' /\ SameCall'
  <2>1. ids \in Seq(Nat) /\ ids # <<>>
    BY <1>1, JobListsAssumption DEF ManagerEnter, Acceptable
  <2>2. EmptyList(MaxJid(ids)) \in Seq(Results \cup {NULL})
    BY <2>1, MaxJidIsLargest, EmptyListType DEF Lists
  <2>3. closed' \in 0..Cardinality(Workers)
    BY <1>1 DEF ManagerEnter
  <2>4. mpc' = "loop" /\ asked' \in Seq(Nat) /\ jids' \in Seq(Nat)
    BY <1>1, <2>1 DEF ManagerEnter
  <2>5. ret' \in Seq(Results \cup {NULL})
    BY <1>1, <2>2 DEF ManagerEnter
  <2>6. UNCHANGED <<mcall, wpc, wcall, hold, got, toM, toW, bcasts>>
    BY <1>1 DEF ManagerEnter, wvars
  <2>7. QED
    BY <2>3, <2>4, <2>5, <2>6 DEF TypeOK, SameCall
<1>2. ASSUME NEW ids \in JobLists, ManagerRefuse(ids) PROVE TypeOK' /\ SameCall'
  BY <1>2, JobListsAssumption DEF TypeOK, SameCall, ManagerRefuse, wvars
<1>3. ASSUME NEW w \in Workers, HandOut(w) PROVE TypeOK' /\ SameCall'
  <2>1. Head(jids) \in Nat /\ Tail(jids) \in Seq(Nat)
    <3>1. jids \in Seq(Nat) /\ jids # <<>>
      BY <1>3 DEF HandOut, TypeOK
    <3>2. QED
      BY <3>1
  <2>2. toW' \in [Workers -> Seq(ToWorker)]
    BY <1>3, <2>1, SendToWorkerType DEF HandOut, Job, ToWorker
  <2>3. QED
    BY <1>3, <2>1, <2>2, ReceiveType DEF TypeOK, SameCall, HandOut, wvars
<1>4. ASSUME NEW w \in Workers, SendHome(w) PROVE TypeOK' /\ SameCall'
  <2>1. toW' \in [Workers -> Seq(ToWorker)]
    BY <1>4, SendToWorkerType DEF SendHome, DoneJobs, ToWorker
  <2>2. QED
    BY <1>4, <2>1, ReceiveType DEF TypeOK, SameCall, SendHome, mvars, wvars
<1>5. ASSUME NEW w \in Workers, Collect(w) PROVE TypeOK' /\ SameCall'
  <2>1. Head(toM[w]) \in ToManager /\ toM' \in [Workers -> Seq(ToManager)]
    BY <1>5, ReceiveType DEF Collect
  <2>2. ret' \in Lists
    BY <1>5, <2>1, ListAssignType DEF Collect, TypeOK, Lists, ToManager
  <2>3. QED
    BY <1>5, <2>1, <2>2 DEF TypeOK, SameCall, Collect, wvars, Lists
<1>6. ASSUME NEW w \in Workers, CloseWorker(w) PROVE TypeOK' /\ SameCall'
  <2>1. toM' \in [Workers -> Seq(ToManager)] /\ closed < Cardinality(Workers)
    BY <1>6, ReceiveType DEF CloseWorker
  <2>2. closed' \in 0..Cardinality(Workers)
    BY <1>6, <2>1 DEF CloseWorker, TypeOK
  <2>3. QED
    BY <1>6, <2>1, <2>2 DEF TypeOK, SameCall, CloseWorker, wvars
<1>7. CASE ManagerLeave
  <2>1. bcasts' \in [Workers -> Seq(Seq(Results \cup {NULL}))]
    <3>1. \A w \in Workers : /\ bcasts[w] \in Seq(Seq(Results \cup {NULL}))
                             /\ ret \in Seq(Results \cup {NULL})
      BY DEF TypeOK
    <3>2. \A w \in Workers : Append(bcasts[w], ret) \in Seq(Seq(Results \cup {NULL}))
      BY <3>1
    <3>3. [w \in Workers |-> Append(bcasts[w], ret)]
             \in [Workers -> Seq(Seq(Results \cup {NULL}))]
      BY <3>2
    <3>4. QED
      BY <1>7, <3>3 DEF TypeOK, ManagerLeave
  <2>2. QED
    BY <1>7, <2>1 DEF TypeOK, SameCall, ManagerLeave, wvars
<1>8. CASE ManagerGoesOn
  <2>1. /\ mpc' \in {"enter", "done"} /\ mcall' \in 1..Calls
        /\ ~ Barrier
    BY <1>8 DEF TypeOK, ManagerGoesOn
  <2>2. UNCHANGED <<asked, jids, closed, ret, wpc, wcall, hold, got, toM, toW, bcasts>>
    BY <1>8 DEF ManagerGoesOn, wvars
  <2>3. QED
    BY <2>1, <2>2 DEF TypeOK, SameCall
<1>9. ASSUME NEW w \in Workers, AskForJob(w) PROVE TypeOK' /\ SameCall'
  <2> Ready \in ToManager
    BY DEF Ready, ToManager
  <2>1. toM' \in [Workers -> Seq(ToManager)]
    BY <1>9, SendToManagerType DEF AskForJob
  <2>2. QED
    BY <1>9, <2>1 DEF TypeOK, SameCall, AskForJob, mvars
<1>10. ASSUME NEW w \in Workers, ReceiveAnswer(w) PROVE TypeOK' /\ SameCall'
  <2>1. toW[w] \in Seq(ToWorker) /\ toW[w] # <<>>
    BY <1>10 DEF TypeOK, ReceiveAnswer
  <2>2. Head(toW[w]) \in ToWorker /\ Tail(toW[w]) \in Seq(ToWorker)
    BY <2>1
  <2>3. Head(toW[w]).jid \in Nat
    BY <2>2 DEF ToWorker
  <2>4. QED
    BY <1>10, <2>2, <2>3 DEF TypeOK, SameCall, ReceiveAnswer, mvars
<1>11. ASSUME NEW w \in Workers, RunJob(w) PROVE TypeOK' /\ SameCall'
  <2>1. PICK r \in Outcomes(w, hold[w]) :
          toM' = [toM EXCEPT ![w] = Append(@, Result(hold[w], r))]
    BY <1>11 DEF RunJob
  <2>2. hold[w] \in Nat /\ wcall[w] \in 1..Calls
    BY DEF TypeOK
  <2>3. r \in Results \cup {NULL}
    BY <2>1, <2>2 DEF Outcomes, Results
  <2>0. Result(hold[w], r) \in ToManager
    BY <2>2, <2>3 DEF Result, ToManager
  <2>4. toM' \in [Workers -> Seq(ToManager)]
    BY <2>0, <2>1, SendToManagerType
  <2>5. QED
    BY <1>11, <2>4 DEF TypeOK, SameCall, RunJob, mvars
<1>12. ASSUME NEW w \in Workers, CrashInJob(w) PROVE TypeOK' /\ SameCall'
  BY <1>12 DEF TypeOK, SameCall, CrashInJob, mvars
<1>13. ASSUME NEW w \in Workers, SayExiting(w) PROVE TypeOK' /\ SameCall'
  <2> Exiting \in ToManager
    BY DEF Exiting, ToManager
  <2>1. toM' \in [Workers -> Seq(ToManager)]
    BY <1>13, SendToManagerType DEF SayExiting
  <2>2. QED
    BY <1>13, <2>1 DEF TypeOK, SameCall, SayExiting, mvars
<1>14. ASSUME NEW w \in Workers, WorkerResult(w) PROVE TypeOK' /\ SameCall'
  <2>1. CASE Bcast
    <3>1. bcasts[w] \in Seq(Seq(Results \cup {NULL})) /\ bcasts[w] # <<>>
      BY <1>14, <2>1 DEF TypeOK, WorkerResult
    <3>2. /\ Head(bcasts[w]) \in Seq(Results \cup {NULL})
          /\ Tail(bcasts[w]) \in Seq(Seq(Results \cup {NULL}))
      BY <3>1
    <3>3. /\ got' = [got EXCEPT ![w] = Head(bcasts[w])]
          /\ bcasts' = [bcasts EXCEPT ![w] = Tail(@)]
          /\ wpc' = [wpc EXCEPT ![w] = "return"]
          /\ UNCHANGED <<mpc, mcall, asked, jids, closed, ret, wcall, hold, toM, toW>>
      BY <1>14, <2>1 DEF WorkerResult, mvars
    <3>4. /\ got' \in [Workers -> Seq(Results \cup {NULL}) \cup {NULL}]
          /\ bcasts' \in [Workers -> Seq(Seq(Results \cup {NULL}))]
      BY <3>2, <3>3 DEF TypeOK
    <3>5. QED
      BY <3>3, <3>4 DEF TypeOK, SameCall
  <2>2. CASE ~ Bcast
    BY <1>14, <2>2 DEF TypeOK, SameCall, WorkerResult, mvars
  <2>3. QED
    BY <2>1, <2>2
<1>15. ASSUME NEW w \in Workers, WorkerGoesOn(w) PROVE TypeOK' /\ SameCall'
  <2>1. ~ Barrier /\ wcall[w] \in 1..Calls
    BY <1>15 DEF TypeOK, WorkerGoesOn
  <2>2. wcall' \in [Workers -> 1..Calls]
    <3>1. CASE wcall[w] < Calls
      <4>1. wcall[w] + 1 \in 1..Calls
        BY <2>1, <3>1
      <4>2. wcall' = [wcall EXCEPT ![w] = @ + 1]
        BY <1>15, <3>1 DEF WorkerGoesOn
      <4>3. wcall \in [Workers -> 1..Calls]
        BY DEF TypeOK
      <4>4. QED
        BY <4>1, <4>2, <4>3
    <3>2. CASE ~ (wcall[w] < Calls)
      <4>1. wcall' = wcall
        BY <1>15, <3>2 DEF WorkerGoesOn
      <4>2. QED
        BY <4>1 DEF TypeOK
    <3>3. QED
      BY <3>1, <3>2
  <2>3. wpc' \in [Workers -> {"top", "wait", "run", "crashed", "exit", "left", "return", "done"}]
    BY <1>15 DEF TypeOK, WorkerGoesOn
  <2>4. UNCHANGED <<mpc, mcall, asked, jids, closed, ret, hold, got, toM, toW, bcasts>>
    BY <1>15 DEF WorkerGoesOn, mvars
  <2>5. QED
    BY <2>1, <2>2, <2>3, <2>4 DEF TypeOK, SameCall
<1>16. CASE PassBarrier
  <2>1. Barrier /\ UNCHANGED <<asked, jids, closed, ret, hold, got, toM, toW, bcasts>>
    BY <1>16 DEF PassBarrier
  <2>2. CASE mcall < Calls
    <3>1. mcall + 1 \in 1..Calls
      BY <2>2, CallsAssumption DEF TypeOK
    <3>2. \A w \in Workers : wcall[w] = mcall
      BY <2>1 DEF SameCall
    <3>3. /\ mpc' = "enter" /\ mcall' = mcall + 1
          /\ wpc' = [w \in Workers |-> "top"]
          /\ wcall' = [w \in Workers |-> wcall[w] + 1]
      BY <1>16, <2>2 DEF PassBarrier
    <3>4. wcall' \in [Workers -> 1..Calls] /\ \A w \in Workers : wcall'[w] = mcall'
      BY <3>1, <3>2, <3>3
    <3>5. QED
      BY <2>1, <3>1, <3>3, <3>4 DEF TypeOK, SameCall
  <2>3. CASE ~ (mcall < Calls)
    <3>1. /\ mpc' = "done" /\ wpc' = [w \in Workers |-> "done"]
          /\ UNCHANGED <<mcall, wcall>>
      BY <1>16, <2>3 DEF PassBarrier
    <3>2. QED
      BY <2>1, <3>1 DEF TypeOK, SameCall
  <2>4. QED
    BY <2>2, <2>3
<1>17. CASE UNCHANGED vars
  BY <1>17 DEF TypeOK, SameCall, vars, mvars, wvars
<1>18. QED
  BY <1>1, <1>2, <1>3, <1>4, <1>5, <1>6, <1>7, <1>8, <1>9, <1>10, <1>11, <1>12,
     <1>13, <1>14, <1>15, <1>16, <1>17
  DEF Next, ManagerStep, WorkerStep, Terminating

\* Every variable always holds a value of its kind; in particular the manager
\* never counts more closed workers than there are.
THEOREM TypeCorrect == Spec => []TypeOK
<1>1. Init => TypeOK /\ SameCall
  BY CardinalityOfWorkers, CallsAssumption DEF Init, TypeOK, SameCall
<1>2. TypeOK /\ SameCall /\ [Next]_vars => (TypeOK /\ SameCall)'
  BY TypeStep
<1>3. QED
  BY <1>1, <1>2, PTL DEF Spec

------------------------------------------------------------------------------
(* The inductive invariant.                                                *)

Wanted == {asked[i] : i \in 1..Len(asked)}

\* Worker w has sent its exit message of this call.
Left(w) == wpc[w] \in {"left", "return"}

\* What the two channels of w may hold, by the place w is at.
ChannelsOK(w) ==
  /\ wpc[w] = "top" =>
       toW[w] = <<>> /\ (toM[w] # <<>> => Len(toM[w]) = 1 /\ toM[w][1].tag = 2)
  /\ wpc[w] = "wait" =>
       \/ toW[w] = <<>> /\ Len(toM[w]) = 1 /\ toM[w][1].tag = 1
       \/ toW[w] = <<>> /\ Len(toM[w]) = 2 /\ toM[w][1].tag = 2 /\ toM[w][2].tag = 1
       \/ toM[w] = <<>> /\ Len(toW[w]) = 1
  /\ wpc[w] \in {"run", "crashed", "exit", "done"} => toM[w] = <<>> /\ toW[w] = <<>>
  /\ Left(w) =>
       toW[w] = <<>> /\ (toM[w] # <<>> => Len(toM[w]) = 1 /\ toM[w][1].tag = 3)

\* Whatever w works on is a job of this call, and so are its results.
WorkOK(w) ==
  /\ wpc[w] \in {"run", "crashed"} => mpc = "loop" /\ hold[w] \in Wanted
  /\ toW[w] # <<>> => mpc = "loop" /\ (toW[w][1].tag = 1 => toW[w][1].jid \in Wanted)
  /\ toM[w] # <<>> /\ toM[w][1].tag = 2 =>
       /\ mpc = "loop" /\ toM[w][1].jid \in Wanted
       /\ toM[w][1].ret \in Results
       /\ toM[w][1].ret.jid = toM[w][1].jid /\ toM[w][1].ret.call = mcall

\* A worker is sent home, and leaves, only when no job is left.
HomeOK(w) ==
  /\ wpc[w] \in {"exit", "left", "return"} => mpc \in {"loop", "return"} /\ jids = <<>>
  /\ toW[w] # <<>> /\ toW[w][1].tag = 2 => jids = <<>>
  /\ mpc \in {"return", "done"} => toM[w] = <<>> /\ wpc[w] \in {"left", "return", "done"}
  /\ wpc[w] = "done" => mpc = "done"

Closed == {w \in Workers : Left(w) /\ toM[w] = <<>>}

Stored(j) == /\ InBounds(ret, j) /\ ret[j] # NULL
             /\ ret[j].jid = j /\ ret[j].call = mcall

\* Job j is somewhere: waiting, on its way, at a worker, coming back or stored.
Accounted(j) ==
  \/ \E i \in 1..Len(jids) : jids[i] = j
  \/ \E w \in Workers : \/ toW[w] # <<>> /\ toW[w][1].tag = 1 /\ toW[w][1].jid = j
                        \/ wpc[w] \in {"run", "crashed"} /\ hold[w] = j
                        \/ toM[w] # <<>> /\ toM[w][1].tag = 2 /\ toM[w][1].jid = j
  \/ Stored(j)

JobsOK ==
  /\ mpc = "loop" => closed = Cardinality(Closed)
  /\ mpc = "loop" => \A i \in 1..Len(jids) : jids[i] \in Wanted
  /\ mpc \in {"loop", "return"} => \A j \in Wanted : j > 0
  /\ mpc = "loop" => \A j \in Wanted : Accounted(j)
  /\ mpc = "return" => \A j \in Wanted : Stored(j)

IInv == /\ \A w \in Workers : ChannelsOK(w) /\ WorkOK(w) /\ HomeOK(w)
        /\ JobsOK

\* Channels of at most two messages, as sequences.
LEMMA ShortSequences ==
  ASSUME NEW S, NEW s \in Seq(S), NEW m \in S
  PROVE  /\ s # <<>> => Len(s) >= 1 /\ Head(s) = s[1]
         /\ s = <<>> => Append(s, m) # <<>> /\ Len(Append(s, m)) = 1 /\ Append(s, m)[1] = m
         /\ Len(s) = 1 => /\ Append(s, m) # <<>> /\ Len(Append(s, m)) = 2
                         /\ Append(s, m)[1] = s[1] /\ Append(s, m)[2] = m
                         /\ Tail(s) = <<>>
         /\ Len(s) = 2 => Tail(s) # <<>> /\ Len(Tail(s)) = 1 /\ Tail(s)[1] = s[2]
<1>1. s # <<>> => Len(s) >= 1 /\ Head(s) = s[1]
  OBVIOUS
<1>2. s = <<>> => Append(s, m) # <<>> /\ Len(Append(s, m)) = 1 /\ Append(s, m)[1] = m
  OBVIOUS
<1>3. Len(s) = 1 => /\ Append(s, m) # <<>> /\ Len(Append(s, m)) = 2
                    /\ Append(s, m)[1] = s[1] /\ Append(s, m)[2] = m
  <2>1. /\ Append(s, m) # <<>> /\ Len(Append(s, m)) = Len(s) + 1
        /\ \A i \in 1..Len(s) : Append(s, m)[i] = s[i]
        /\ Append(s, m)[Len(s) + 1] = m
    BY AppendProperties
  <2>2. QED
    BY <2>1
<1>4. Len(s) = 1 => Tail(s) = <<>>
  <2>1. SUFFICES ASSUME Len(s) = 1 PROVE Tail(s) = <<>>
    OBVIOUS
  <2>0. s # <<>>
    BY <2>1, EmptySeq
  <2>2. Tail(s) \in Seq(S) /\ Len(Tail(s)) = 0
    BY <2>0, <2>1, HeadTailProperties
  <2>3. QED
    BY <2>2, EmptySeq
<1>5. Len(s) = 2 => Tail(s) # <<>> /\ Len(Tail(s)) = 1 /\ Tail(s)[1] = s[2]
  OBVIOUS
<1>6. QED
  BY <1>1, <1>2, <1>3, <1>4, <1>5

\* The same facts for the two channels of a worker.
LEMMA ChannelOfManager ==
  ASSUME TypeOK, NEW w \in Workers, NEW m \in ToManager
  PROVE  LET s == toM[w]
         IN  /\ s # <<>> => Len(s) >= 1 /\ Head(s) = s[1]
             /\ s = <<>> => Append(s, m) # <<>> /\ Len(Append(s, m)) = 1 /\ Append(s, m)[1] = m
             /\ Len(s) = 1 => /\ Append(s, m) # <<>> /\ Len(Append(s, m)) = 2
                             /\ Append(s, m)[1] = s[1] /\ Append(s, m)[2] = m
                             /\ Tail(s) = <<>>
             /\ Len(s) = 2 => Tail(s) # <<>> /\ Len(Tail(s)) = 1 /\ Tail(s)[1] = s[2]
<1>1. toM[w] \in Seq(ToManager)
  BY DEF TypeOK
<1>2. QED
  BY <1>1, ShortSequences

LEMMA ChannelOfWorker ==
  ASSUME TypeOK, NEW w \in Workers, NEW m \in ToWorker
  PROVE  LET s == toW[w]
         IN  /\ s # <<>> => Len(s) >= 1 /\ Head(s) = s[1]
             /\ s = <<>> => Append(s, m) # <<>> /\ Len(Append(s, m)) = 1 /\ Append(s, m)[1] = m
             /\ Len(s) = 1 => Tail(s) = <<>>
<1>1. toW[w] \in Seq(ToWorker)
  BY DEF TypeOK
<1>2. QED
  BY <1>1, ShortSequences

LEMMA MessageTypes ==
  /\ Ready \in ToManager /\ Exiting \in ToManager /\ DoneJobs \in ToWorker
  /\ \A j \in Nat : Job(j) \in ToWorker
  /\ \A j \in Nat, r \in Results \cup {NULL} : Result(j, r) \in ToManager
BY DEF Ready, Exiting, DoneJobs, Job, Result, ToManager, ToWorker

\* By its tag, the message at the head of a channel tells where w is.
LEMMA SenderOfMessage ==
  ASSUME TypeOK, IInv, NEW w \in Workers, toM[w] # <<>>
  PROVE  /\ Head(toM[w]) = toM[w][1]
         /\ toM[w][1].tag = 1 => wpc[w] = "wait" /\ toW[w] = <<>> /\ Tail(toM[w]) = <<>>
         /\ toM[w][1].tag = 2 => \/ wpc[w] = "top" /\ toW[w] = <<>> /\ Tail(toM[w]) = <<>>
                                \/ /\ wpc[w] = "wait" /\ toW[w] = <<>> /\ Tail(toM[w]) # <<>>
                                   /\ Len(Tail(toM[w])) = 1 /\ Tail(toM[w])[1].tag = 1
         /\ toM[w][1].tag = 3 => Left(w) /\ toW[w] = <<>> /\ Tail(toM[w]) = <<>>
<1>1. /\ Head(toM[w]) = toM[w][1]
      /\ Len(toM[w]) = 1 => Tail(toM[w]) = <<>>
      /\ Len(toM[w]) = 2 => Tail(toM[w]) # <<>> /\ Len(Tail(toM[w])) = 1 /\ Tail(toM[w])[1] = toM[w][2]
  BY MessageTypes, ChannelOfManager
<1>2. ChannelsOK(w)
  BY DEF IInv
<1>3. wpc[w] \in {"top", "wait", "run", "crashed", "exit", "left", "return", "done"}
  BY DEF TypeOK
<1>4. QED
  BY <1>1, <1>2, <1>3 DEF ChannelsOK, Left

------------------------------------------------------------------------------
(* The manager's steps preserve the invariant.                             *)

LEMMA HandOutStep ==
  ASSUME TypeOK, IInv, NEW w \in Workers, HandOut(w)
  PROVE  IInv'
<1>1. /\ mpc = "loop" /\ toM[w] # <<>> /\ toM[w][1].tag = 1
      /\ wpc[w] = "wait" /\ toW[w] = <<>>
      /\ toM' = [toM EXCEPT ![w] = <<>>]
  BY SenderOfMessage DEF HandOut, Receive, Looping
<1>2. /\ jids # <<>> /\ Head(jids) = jids[1] /\ Len(jids) >= 1
      /\ Len(jids') = Len(jids) - 1
      /\ \A i \in 1..Len(jids') : jids'[i] = jids[i + 1]
      /\ Len(jids) \in Nat
  <2>1. jids \in Seq(Nat) /\ jids # <<>> /\ jids' = Tail(jids)
    BY DEF HandOut, TypeOK
  <2>2. /\ Len(jids) \in Nat /\ Len(jids) >= 1 /\ Head(jids) = jids[1]
        /\ Len(Tail(jids)) = Len(jids) - 1
    BY <2>1
  <2>3. \A i \in 1..Len(Tail(jids)) : Tail(jids)[i] = jids[i + 1]
    BY <2>1
  <2>4. QED
    BY <2>1, <2>2, <2>3
<1>3. jids[1] \in Wanted /\ jids[1] \in Nat
  <2>1. \A i \in 1..Len(jids) : jids[i] \in Wanted
    BY <1>1 DEF IInv, JobsOK
  <2>2. jids \in Seq(Nat)
    BY DEF TypeOK
  <2>3. 1 \in 1..Len(jids)
    BY <1>2
  <2>4. QED
    BY <2>1, <2>2, <2>3
<1>4. /\ toW' = [toW EXCEPT ![w] = Append(<<>>, Job(jids[1]))]
      /\ Len(Append(<<>>, Job(jids[1]))) = 1
      /\ Append(<<>>, Job(jids[1])) # <<>>
      /\ Append(<<>>, Job(jids[1]))[1] = Job(jids[1])
  BY <1>1, <1>2, <1>3, MessageTypes, ChannelOfWorker DEF HandOut
<1> DEFINE c == Append(<<>>, Job(jids[1]))
<1> HIDE DEF c
<1>5. /\ toW' = [toW EXCEPT ![w] = c] /\ Len(c) = 1 /\ c # <<>>
      /\ c[1].tag = 1 /\ c[1].jid = jids[1]
  BY <1>4 DEF c, Job
<1>6. /\ UNCHANGED <<mpc, mcall, asked, closed, ret, wpc, wcall, hold, got>>
      /\ Wanted' = Wanted
  BY DEF HandOut, wvars, Wanted
<1>7. toM \in [Workers -> Seq(ToManager)] /\ toW \in [Workers -> Seq(ToWorker)]
  BY DEF TypeOK
<1>8. ASSUME NEW x \in Workers PROVE ChannelsOK(x)' /\ WorkOK(x)' /\ HomeOK(x)'
  <2>1. ChannelsOK(x) /\ WorkOK(x) /\ HomeOK(x)
    BY DEF IInv
  <2>2. CASE x = w
    BY <1>1, <1>2, <1>3, <1>5, <1>6, <1>7, <2>1, <2>2 DEF ChannelsOK, WorkOK, HomeOK, Left
  <2>3. CASE x # w
    <3>1. toM'[x] = toM[x] /\ toW'[x] = toW[x]
      BY <1>1, <1>5, <1>7, <2>3
    <3>2. QED
      BY <1>1, <1>2, <1>6, <2>1, <3>1 DEF ChannelsOK, WorkOK, HomeOK, Left
  <2>4. QED
    BY <2>2, <2>3
<1>9. Closed' = Closed
  BY <1>1, <1>6, <1>7 DEF Closed, Left
<1>10. ASSUME NEW j \in Wanted PROVE Accounted(j)'
  <2>1. Accounted(j)
    BY <1>1 DEF IInv, JobsOK
  <2>2. ASSUME NEW i \in 1..Len(jids), jids[i] = j PROVE Accounted(j)'
    <3>1. CASE i = 1
      <4>1. toW'[w] = c
        BY <1>5, <1>7
      <4>2. QED
        BY <1>5, <2>2, <3>1, <4>1 DEF Accounted
    <3>2. CASE i # 1
      <4>1. i - 1 \in 1..Len(jids') /\ jids'[i - 1] = j
        BY <1>2, <2>2, <3>2
      <4>2. QED
        BY <4>1 DEF Accounted
    <3>3. QED
      BY <3>1, <3>2
  <2>3. ASSUME NEW x \in Workers,
               \/ toW[x] # <<>> /\ toW[x][1].tag = 1 /\ toW[x][1].jid = j
               \/ wpc[x] \in {"run", "crashed"} /\ hold[x] = j
               \/ toM[x] # <<>> /\ toM[x][1].tag = 2 /\ toM[x][1].jid = j
        PROVE  Accounted(j)'
    <3>1. x # w
      BY <1>1, <2>3
    <3>2. toM'[x] = toM[x] /\ toW'[x] = toW[x]
      BY <1>1, <1>5, <1>7, <3>1
    <3>3. QED
      BY <1>6, <2>3, <3>2 DEF Accounted
  <2>4. ASSUME Stored(j) PROVE Accounted(j)'
    BY <1>6, <2>4 DEF Accounted, Stored, InBounds
  <2>5. QED
    BY <2>1, <2>2, <2>3, <2>4 DEF Accounted
<1>11. JobsOK'
  <2>1. \A i \in 1..Len(jids') : jids'[i] \in Wanted'
    BY <1>1, <1>2, <1>6 DEF IInv, JobsOK
  <2>2. QED
    BY <1>1, <1>6, <1>9, <1>10, <2>1 DEF IInv, JobsOK
<1>12. QED
  BY <1>8, <1>11 DEF IInv

LEMMA SendHomeStep ==
  ASSUME TypeOK, IInv, NEW w \in Workers, SendHome(w)
  PROVE  IInv'
<1>1. /\ mpc = "loop" /\ toM[w] # <<>> /\ toM[w][1].tag = 1
      /\ wpc[w] = "wait" /\ toW[w] = <<>> /\ jids = <<>>
      /\ toM' = [toM EXCEPT ![w] = <<>>]
  BY SenderOfMessage DEF SendHome, Receive, Looping
<1> DEFINE c == Append(<<>>, DoneJobs)
<1>2. /\ toW' = [toW EXCEPT ![w] = c]
      /\ Len(c) = 1 /\ c # <<>> /\ c[1] = DoneJobs
  BY <1>1, MessageTypes, ChannelOfWorker DEF SendHome
<1> HIDE DEF c
<1>3. c[1].tag = 2
  BY <1>2 DEF DoneJobs
<1>4. /\ UNCHANGED <<mpc, mcall, asked, jids, closed, ret, wpc, wcall, hold, got>>
      /\ Wanted' = Wanted
  BY DEF SendHome, mvars, wvars, Wanted
<1>5. toM \in [Workers -> Seq(ToManager)] /\ toW \in [Workers -> Seq(ToWorker)]
  BY DEF TypeOK
<1>6. ASSUME NEW x \in Workers PROVE ChannelsOK(x)' /\ WorkOK(x)' /\ HomeOK(x)'
  <2>1. ChannelsOK(x) /\ WorkOK(x) /\ HomeOK(x)
    BY DEF IInv
  <2>2. CASE x = w
    BY <1>1, <1>2, <1>3, <1>4, <1>5, <2>1, <2>2 DEF ChannelsOK, WorkOK, HomeOK, Left
  <2>3. CASE x # w
    <3>1. toM'[x] = toM[x] /\ toW'[x] = toW[x]
      BY <1>1, <1>2, <1>5, <2>3
    <3>2. QED
      BY <1>1, <1>4, <2>1, <3>1 DEF ChannelsOK, WorkOK, HomeOK, Left
  <2>4. QED
    BY <2>2, <2>3
<1>7. Closed' = Closed
  BY <1>1, <1>4, <1>5 DEF Closed, Left
<1>8. ASSUME NEW j \in Wanted PROVE Accounted(j)'
  <2>1. Accounted(j)
    BY <1>1 DEF IInv, JobsOK
  <2>2. ASSUME NEW x \in Workers,
               \/ toW[x] # <<>> /\ toW[x][1].tag = 1 /\ toW[x][1].jid = j
               \/ wpc[x] \in {"run", "crashed"} /\ hold[x] = j
               \/ toM[x] # <<>> /\ toM[x][1].tag = 2 /\ toM[x][1].jid = j
        PROVE  Accounted(j)'
    <3>1. x # w
      BY <1>1, <2>2
    <3>2. toM'[x] = toM[x] /\ toW'[x] = toW[x]
      BY <1>1, <1>2, <1>5, <3>1
    <3>3. QED
      BY <1>4, <2>2, <3>2 DEF Accounted
  <2>3. ASSUME Stored(j) PROVE Accounted(j)'
    BY <1>4, <2>3 DEF Accounted, Stored, InBounds
  <2>4. ~ \E i \in 1..Len(jids) : jids[i] = j
    BY <1>1
  <2>5. QED
    BY <2>1, <2>2, <2>3, <2>4 DEF Accounted
<1>9. JobsOK'
  BY <1>1, <1>4, <1>7, <1>8 DEF IInv, JobsOK
<1>10. QED
  BY <1>6, <1>9 DEF IInv

LEMMA CollectStep ==
  ASSUME TypeOK, IInv, NEW w \in Workers, Collect(w)
  PROVE  IInv'
<1>0. PICK j0, v, c : j0 = toM[w][1].jid /\ v = toM[w][1].ret /\ c = Tail(toM[w])
  OBVIOUS
<1>1. /\ mpc = "loop" /\ toM[w] # <<>> /\ toM[w][1].tag = 2 /\ toW[w] = <<>>
      /\ toM' = [toM EXCEPT ![w] = c]
      /\ ret' = ListAssign(ret, j0, v)
      /\ \/ wpc[w] = "top" /\ c = <<>>
         \/ wpc[w] = "wait" /\ c # <<>> /\ Len(c) = 1 /\ c[1].tag = 1
  BY <1>0, SenderOfMessage DEF Collect, Receive, Looping
<1>2. /\ j0 \in Wanted /\ j0 \in Nat /\ j0 > 0 /\ v \in Results /\ v # NULL
      /\ v.jid = j0 /\ v.call = mcall
  <2>1. j0 \in Wanted /\ v \in Results /\ v.jid = j0 /\ v.call = mcall
    <3>1. WorkOK(w)
      BY DEF IInv
    <3>2. QED
      BY <1>0, <1>1, <3>1 DEF WorkOK
  <2>2. j0 \in Nat
    BY <2>1 DEF Wanted, TypeOK
  <2>3. j0 > 0
    BY <1>1, <2>1 DEF IInv, JobsOK
  <2>4. QED
    BY <2>1, <2>2, <2>3, NullAssumption
<1>3. /\ ret' = StoreElement(ret, j0, v) /\ ret \in Lists
      /\ Len(ret) \in Nat /\ Len(ret') >= Len(ret) /\ j0 \in 1..Len(ret') /\ ret'[j0] = v
      /\ Len(ret') \in Nat
      /\ \A k \in 1..Len(ret) : k # j0 => ret'[k] = ret[k]
  <2>1. ret' = StoreElement(ret, j0, v) /\ ret \in Lists /\ Len(ret) \in Nat
    BY <1>1, <1>2 DEF ListAssign, TypeOK, Lists
  <2>2. /\ Len(ret') = IF j0 > Len(ret) THEN j0 ELSE Len(ret)
        /\ ret'[j0] = v
        /\ \A k \in 1..Len(ret) : k # j0 => ret'[k] = ret[k]
    <3>1. j0 # 0
      BY <1>2
    <3>2. /\ Len(StoreElement(ret, j0, v)) = IF j0 > Len(ret) THEN j0 ELSE Len(ret)
          /\ j0 # 0 => StoreElement(ret, j0, v)[j0] = v
          /\ \A k \in 1..Len(ret) : k # j0 => StoreElement(ret, j0, v)[k] = ret[k]
      BY <1>2, <2>1, StoreElementProperties
    <3>3. QED
      BY <2>1, <3>1, <3>2
  <2>3. QED
    BY <1>2, <2>1, <2>2
<1>4. /\ UNCHANGED <<mpc, mcall, asked, jids, closed, wpc, wcall, hold, got, toW>>
      /\ Wanted' = Wanted
  BY DEF Collect, wvars, Wanted
<1>5. toM \in [Workers -> Seq(ToManager)]
  BY DEF TypeOK
<1>6. ASSUME NEW x \in Workers PROVE ChannelsOK(x)' /\ WorkOK(x)' /\ HomeOK(x)'
  <2>1. ChannelsOK(x) /\ WorkOK(x) /\ HomeOK(x)
    BY DEF IInv
  <2>2. CASE x = w
    BY <1>1, <1>4, <1>5, <2>1, <2>2 DEF ChannelsOK, WorkOK, HomeOK, Left
  <2>3. CASE x # w
    <3>1. toM'[x] = toM[x]
      BY <1>1, <1>5, <2>3
    <3>2. QED
      BY <1>4, <2>1, <3>1 DEF ChannelsOK, WorkOK, HomeOK, Left
  <2>4. QED
    BY <2>2, <2>3
<1>7. Closed' = Closed
  BY <1>1, <1>4, <1>5 DEF Closed, Left
<1>8. Stored(j0)'
  BY <1>2, <1>3, <1>4 DEF Stored, InBounds
<1>9. ASSUME NEW j \in Wanted PROVE Accounted(j)'
  <2>1. Accounted(j)
    BY <1>1 DEF IInv, JobsOK
  <2>2. CASE j = j0
    BY <1>8, <2>2 DEF Accounted
  <2>3. CASE j # j0
    <3>1. ASSUME Stored(j) PROVE Accounted(j)'
      <4>1. j \in 1..Len(ret) /\ j \in 1..Len(ret') /\ ret'[j] = ret[j]
        BY <1>3, <2>3, <3>1 DEF Stored, InBounds
      <4>2. QED
        BY <1>4, <3>1, <4>1 DEF Accounted, Stored, InBounds
    <3>2. ASSUME NEW x \in Workers,
                 \/ toW[x] # <<>> /\ toW[x][1].tag = 1 /\ toW[x][1].jid = j
                 \/ wpc[x] \in {"run", "crashed"} /\ hold[x] = j
                 \/ toM[x] # <<>> /\ toM[x][1].tag = 2 /\ toM[x][1].jid = j
          PROVE  Accounted(j)'
      <4>1. x # w
        BY <1>0, <1>1, <2>3, <3>2
      <4>2. toM'[x] = toM[x]
        BY <1>1, <1>5, <4>1
      <4>3. QED
        BY <1>4, <3>2, <4>2 DEF Accounted
    <3>3. ASSUME \E i \in 1..Len(jids) : jids[i] = j PROVE Accounted(j)'
      BY <1>4, <3>3 DEF Accounted
    <3>4. QED
      BY <2>1, <3>1, <3>2, <3>3 DEF Accounted
  <2>4. QED
    BY <2>2, <2>3
<1>10. JobsOK'
  BY <1>1, <1>4, <1>7, <1>9 DEF IInv, JobsOK
<1>11. QED
  BY <1>6, <1>10 DEF IInv

LEMMA CloseWorkerStep ==
  ASSUME TypeOK, IInv, NEW w \in Workers, CloseWorker(w)
  PROVE  IInv'
<1>1. /\ mpc = "loop" /\ toM[w] # <<>> /\ toM[w][1].tag = 3
      /\ Left(w) /\ toW[w] = <<>>
      /\ toM' = [toM EXCEPT ![w] = <<>>] /\ closed' = closed + 1
  BY SenderOfMessage DEF CloseWorker, Receive, Looping
<1>2. /\ UNCHANGED <<mpc, mcall, asked, jids, ret, wpc, wcall, hold, got, toW>>
      /\ Wanted' = Wanted
  BY DEF CloseWorker, wvars, Wanted
<1>3. toM \in [Workers -> Seq(ToManager)]
  BY DEF TypeOK
<1>4. ASSUME NEW x \in Workers PROVE ChannelsOK(x)' /\ WorkOK(x)' /\ HomeOK(x)'
  <2>1. ChannelsOK(x) /\ WorkOK(x) /\ HomeOK(x)
    BY DEF IInv
  <2>2. CASE x = w
    BY <1>1, <1>2, <1>3, <2>1, <2>2 DEF ChannelsOK, WorkOK, HomeOK, Left
  <2>3. CASE x # w
    <3>1. toM'[x] = toM[x]
      BY <1>1, <1>3, <2>3
    <3>2. QED
      BY <1>2, <2>1, <3>1 DEF ChannelsOK, WorkOK, HomeOK, Left
  <2>4. QED
    BY <2>2, <2>3
<1>5. closed' = Cardinality(Closed')
  <2>1. closed = Cardinality(Closed)
    BY <1>1 DEF IInv, JobsOK
  <2>2. Closed' = Closed \cup {w} /\ w \notin Closed
    BY <1>1, <1>2, <1>3 DEF Closed, Left
  <2>3. IsFiniteSet(Closed)
    BY WorkersAssumption, FS_Subset DEF Closed
  <2>4. Cardinality(Closed') = Cardinality(Closed) + 1
    BY <2>2, <2>3, FS_AddElement
  <2>5. QED
    BY <1>1, <2>1, <2>4
<1>6. ASSUME NEW j \in Wanted PROVE Accounted(j)'
  <2>1. Accounted(j)
    BY <1>1 DEF IInv, JobsOK
  <2>2. ASSUME NEW x \in Workers,
               \/ toW[x] # <<>> /\ toW[x][1].tag = 1 /\ toW[x][1].jid = j
               \/ wpc[x] \in {"run", "crashed"} /\ hold[x] = j
               \/ toM[x] # <<>> /\ toM[x][1].tag = 2 /\ toM[x][1].jid = j
        PROVE  Accounted(j)'
    <3>1. x # w
      BY <1>1, <2>2 DEF Left
    <3>2. toM'[x] = toM[x]
      BY <1>1, <1>3, <3>1
    <3>3. QED
      BY <1>2, <2>2, <3>2 DEF Accounted
  <2>3. ASSUME Stored(j) \/ \E i \in 1..Len(jids) : jids[i] = j PROVE Accounted(j)'
    BY <1>2, <2>3 DEF Accounted, Stored, InBounds
  <2>4. QED
    BY <2>1, <2>2, <2>3 DEF Accounted
<1>7. JobsOK'
  BY <1>1, <1>2, <1>5, <1>6 DEF IInv, JobsOK
<1>8. QED
  BY <1>4, <1>7 DEF IInv

\* When as many exits are counted as there are workers, every worker has left,
\* no message is on its way and no job is waiting: all results are stored.
LEMMA LoopEnd ==
  ASSUME TypeOK, IInv, mpc = "loop", ~ Looping
  PROVE  /\ \A w \in Workers : Left(w) /\ toM[w] = <<>> /\ toW[w] = <<>>
         /\ \A j \in Wanted : Stored(j)
<1>1. closed = Cardinality(Workers)
  BY CardinalityOfWorkers DEF Looping, TypeOK
<1>2. closed = Cardinality(Closed)
  BY DEF IInv, JobsOK
<1>3. Closed = Workers
  <2>1. Closed \in SUBSET Workers
    BY DEF Closed
  <2>2. QED
    BY <1>1, <1>2, <2>1, WorkersAssumption, FS_Subset
<1>4. \A w \in Workers : Left(w) /\ toM[w] = <<>>
  BY <1>3 DEF Closed
<1>5. \A w \in Workers : toW[w] = <<>> /\ jids = <<>>
  BY <1>4 DEF IInv, ChannelsOK, HomeOK, Left
<1>6. jids = <<>>
  BY <1>5, WorkersAssumption
<1>7. ASSUME NEW j \in Wanted PROVE Stored(j)
  <2>1. Accounted(j)
    BY DEF IInv, JobsOK
  <2>2. ~ \E i \in 1..Len(jids) : jids[i] = j
    BY <1>6
  <2>3. \A w \in Workers : wpc[w] \notin {"run", "crashed"}
    BY <1>4 DEF Left
  <2>4. QED
    BY <1>4, <1>5, <2>1, <2>2, <2>3 DEF Accounted
<1>8. QED
  BY <1>4, <1>5, <1>7

LEMMA ManagerLeaveStep ==
  ASSUME TypeOK, IInv, ManagerLeave
  PROVE  IInv'
<1>1. /\ mpc = "loop" /\ mpc' = "return"
      /\ UNCHANGED <<mcall, asked, jids, closed, ret, wpc, wcall, hold, got, toM, toW>>
      /\ Wanted' = Wanted
  BY DEF ManagerLeave, wvars, Wanted
<1>2. /\ \A w \in Workers : Left(w) /\ toM[w] = <<>> /\ toW[w] = <<>>
      /\ \A j \in Wanted : Stored(j)
  BY LoopEnd DEF ManagerLeave
<1>3. ASSUME NEW w \in Workers PROVE ChannelsOK(w)' /\ WorkOK(w)' /\ HomeOK(w)'
  <2>1. ChannelsOK(w) /\ WorkOK(w) /\ HomeOK(w)
    BY DEF IInv
  <2>2. QED
    BY <1>1, <1>2, <2>1 DEF ChannelsOK, WorkOK, HomeOK, Left
<1>4. JobsOK'
  BY <1>1, <1>2 DEF IInv, JobsOK, Stored, InBounds
<1>5. QED
  BY <1>3, <1>4 DEF IInv

LEMMA ManagerEnterStep ==
  ASSUME TypeOK, IInv, NEW ids \in JobLists, ManagerEnter(ids) \/ ManagerRefuse(ids)
  PROVE  IInv'
<1>1. /\ mpc = "enter" /\ mpc' \in {"loop", "stopped"} /\ asked' = ids
      /\ UNCHANGED <<wpc, toM, toW>>
  BY DEF ManagerEnter, ManagerRefuse, wvars
<1>2. ASSUME NEW w \in Workers
      PROVE  /\ wpc[w] \in {"top", "wait"} /\ toW[w] = <<>>
             /\ toM[w] # <<>> => toM[w][1].tag # 2
             /\ ChannelsOK(w) /\ ~ Left(w)
  <2>1. ChannelsOK(w) /\ WorkOK(w) /\ HomeOK(w)
    BY DEF IInv
  <2>2. wpc[w] \in {"top", "wait", "run", "crashed", "exit", "left", "return", "done"}
    BY DEF TypeOK
  <2>3. QED
    BY <1>1, <2>1, <2>2 DEF WorkOK, HomeOK, Left
<1>3. ASSUME NEW w \in Workers PROVE ChannelsOK(w)' /\ WorkOK(w)' /\ HomeOK(w)'
  BY <1>1, <1>2 DEF ChannelsOK, WorkOK, HomeOK, Left
<1>4. JobsOK'
  <2>1. CASE ManagerRefuse(ids)
    BY <2>1 DEF ManagerRefuse, JobsOK
  <2>2. CASE ManagerEnter(ids)
    <3>1. /\ mpc' = "loop" /\ jids' = ids /\ closed' = 0
          /\ \A i \in 1..Len(ids) : ids[i] > 0
      BY <2>2 DEF ManagerEnter, Acceptable
    <3>2. Closed' = {}
      BY <1>1, <1>2 DEF Closed, Left
    <3>3. closed' = Cardinality(Closed')
      BY <3>1, <3>2, FS_EmptySet
    <3>4. Wanted' = {ids[i] : i \in 1..Len(ids)}
      BY <1>1 DEF Wanted
    <3>5. \A j \in Wanted' : Accounted(j)'
      BY <3>1, <3>4 DEF Accounted
    <3>6. QED
      BY <3>1, <3>3, <3>4, <3>5 DEF JobsOK
  <2>3. QED
    BY <2>1, <2>2
<1>5. QED
  BY <1>3, <1>4 DEF IInv

------------------------------------------------------------------------------
(* The workers' steps preserve the invariant.                              *)

\* A step of worker w that leaves the manager, and the other workers, alone.
OnlyWorker(w) ==
  /\ UNCHANGED mvars
  /\ \A x \in Workers : x # w =>
       UNCHANGED <<wpc[x], hold[x], toM[x], toW[x]>>

LEMMA OnlyWorkerStep ==
  ASSUME IInv, NEW w \in Workers, OnlyWorker(w),
         ChannelsOK(w)', WorkOK(w)', HomeOK(w)',
         w \in Closed <=> w \in Closed',
         mpc = "loop" => \A j \in Wanted :
            \/ toW[w] # <<>> /\ toW[w][1].tag = 1 /\ toW[w][1].jid = j
            \/ wpc[w] \in {"run", "crashed"} /\ hold[w] = j
            \/ toM[w] # <<>> /\ toM[w][1].tag = 2 /\ toM[w][1].jid = j
            => Accounted(j)'
  PROVE  IInv'
<1>1. UNCHANGED <<mpc, mcall, asked, jids, closed, ret>> /\ Wanted' = Wanted
  BY DEF OnlyWorker, mvars, Wanted
<1>2. ASSUME NEW x \in Workers PROVE ChannelsOK(x)' /\ WorkOK(x)' /\ HomeOK(x)'
  <2>1. CASE x # w
    BY <1>1, <2>1 DEF IInv, OnlyWorker, ChannelsOK, WorkOK, HomeOK, Left
  <2>2. QED
    BY <2>1
<1>3. Closed' = Closed
  BY DEF OnlyWorker, Closed, Left
<1>4. ASSUME mpc = "loop", NEW j \in Wanted PROVE Accounted(j)'
  <2>1. Accounted(j)
    BY <1>4 DEF IInv, JobsOK
  <2>2. ASSUME NEW x \in Workers,
               \/ toW[x] # <<>> /\ toW[x][1].tag = 1 /\ toW[x][1].jid = j
               \/ wpc[x] \in {"run", "crashed"} /\ hold[x] = j
               \/ toM[x] # <<>> /\ toM[x][1].tag = 2 /\ toM[x][1].jid = j
        PROVE  Accounted(j)'
    <3>1. CASE x = w
      BY <1>4, <2>2, <3>1
    <3>2. CASE x # w
      BY <2>2, <3>2 DEF OnlyWorker, Accounted
    <3>3. QED
      BY <3>1, <3>2
  <2>3. ASSUME Stored(j) \/ \E i \in 1..Len(jids) : jids[i] = j PROVE Accounted(j)'
    BY <1>1, <2>3 DEF Accounted, Stored, InBounds
  <2>4. QED
    BY <2>1, <2>2, <2>3 DEF Accounted
<1>5. JobsOK'
  <2>1. mpc = "loop" => closed' = Cardinality(Closed')
    BY <1>1, <1>3 DEF IInv, JobsOK
  <2>2. mpc = "return" => \A j \in Wanted : Stored(j)'
    BY <1>1 DEF IInv, JobsOK, Stored, InBounds
  <2>3. QED
    BY <1>1, <1>4, <2>1, <2>2 DEF IInv, JobsOK
<1>6. QED
  BY <1>2, <1>5 DEF IInv

LEMMA AskForJobStep ==
  ASSUME TypeOK, IInv, NEW w \in Workers, AskForJob(w)
  PROVE  IInv'
<1>1. PICK c : c = Append(toM[w], Ready)
  OBVIOUS
<1>2. /\ wpc[w] = "top" /\ toW[w] = <<>>
      /\ wpc'[w] = "wait" /\ toM'[w] = c /\ UNCHANGED <<hold[w], toW[w]>>
      /\ UNCHANGED mvars /\ OnlyWorker(w)
  BY <1>1 DEF AskForJob, IInv, ChannelsOK, OnlyWorker, TypeOK
<1>3. /\ toM[w] = <<>> => Len(c) = 1 /\ c[1].tag = 1
      /\ toM[w] # <<>> => /\ toM[w][1].tag = 2 /\ Len(c) = 2
                         /\ c[1] = toM[w][1] /\ c[2].tag = 1
      /\ c # <<>>
  <2>1. toM[w] # <<>> => Len(toM[w]) = 1 /\ toM[w][1].tag = 2
    BY <1>2 DEF IInv, ChannelsOK
  <2>2. Ready.tag = 1
    BY DEF Ready
  <2>3. QED
    BY <1>1, <2>1, <2>2, MessageTypes, ChannelOfManager
<1>4. ChannelsOK(w)' /\ WorkOK(w)' /\ HomeOK(w)'
  <2>1. WorkOK(w) /\ HomeOK(w)
    BY DEF IInv
  <2>2. Wanted' = Wanted /\ UNCHANGED <<mpc, mcall, jids>>
    BY <1>2 DEF mvars, Wanted
  <2>3. QED
    BY <1>2, <1>3, <2>1, <2>2 DEF ChannelsOK, WorkOK, HomeOK, Left
<1>5. w \notin Closed /\ w \notin Closed'
  BY <1>2 DEF Closed, Left
<1>6. ASSUME NEW j \in Wanted, toM[w] # <<>>, toM[w][1].jid = j
      PROVE  Accounted(j)'
  BY <1>2, <1>3, <1>6 DEF Accounted
<1>7. QED
  BY <1>2, <1>4, <1>5, <1>6, OnlyWorkerStep

LEMMA ReceiveAnswerStep ==
  ASSUME TypeOK, IInv, NEW w \in Workers, ReceiveAnswer(w)
  PROVE  IInv'
<1>1. /\ wpc[w] = "wait" /\ toW[w] # <<>> /\ Len(toW[w]) = 1 /\ toM[w] = <<>>
      /\ mpc = "loop"
  BY DEF ReceiveAnswer, IInv, ChannelsOK, WorkOK
<1>2. Head(toW[w]) = toW[w][1] /\ Tail(toW[w]) = <<>>
  BY <1>1, MessageTypes, ChannelOfWorker
<1>3. toW[w][1].tag \in 1..2
  <2>1. toW[w] \in Seq(ToWorker) /\ 1 \in 1..Len(toW[w])
    BY <1>1 DEF TypeOK
  <2>2. toW[w][1] \in ToWorker
    BY <2>1, ElementOfSeq
  <2>3. QED
    BY <2>2 DEF ToWorker
<1>4. /\ wpc'[w] = IF toW[w][1].tag = 1 THEN "run" ELSE "exit"
      /\ hold'[w] = toW[w][1].jid /\ toW'[w] = <<>> /\ toM'[w] = <<>>
      /\ UNCHANGED mvars /\ OnlyWorker(w)
  BY <1>1, <1>2 DEF ReceiveAnswer, OnlyWorker, TypeOK
<1>5. ChannelsOK(w)' /\ WorkOK(w)' /\ HomeOK(w)'
  <2>1. WorkOK(w) /\ HomeOK(w)
    BY DEF IInv
  <2>2. Wanted' = Wanted /\ UNCHANGED <<mpc, mcall, jids>>
    BY <1>4 DEF mvars, Wanted
  <2>3. toW[w][1].tag = 1 \/ toW[w][1].tag = 2
    BY <1>3
  <2>4. QED
    BY <1>1, <1>4, <2>1, <2>2, <2>3 DEF ChannelsOK, WorkOK, HomeOK, Left
<1>6. w \notin Closed /\ w \notin Closed'
  BY <1>1, <1>4 DEF Closed, Left
<1>7. ASSUME NEW j \in Wanted, toW[w][1].tag = 1, toW[w][1].jid = j
      PROVE  Accounted(j)'
  BY <1>4, <1>7 DEF Accounted
<1>8. QED
  BY <1>1, <1>4, <1>5, <1>6, <1>7, OnlyWorkerStep

LEMMA RunJobStep ==
  ASSUME TypeOK, IInv, SameCall, Barrier, ~ NullResults, NEW w \in Workers, RunJob(w)
  PROVE  IInv'
<1>1. /\ wpc[w] = "run" /\ toW[w] = <<>> /\ toM[w] = <<>> /\ mpc = "loop"
      /\ hold[w] \in Wanted /\ wcall[w] = mcall
  BY DEF RunJob, IInv, ChannelsOK, WorkOK, SameCall
<1>2. hold[w] \in Nat /\ wcall[w] \in 1..Calls
  BY DEF TypeOK
<1>3. PICK r \in Outcomes(w, hold[w]) :
        toM' = [toM EXCEPT ![w] = Append(@, Result(hold[w], r))]
  BY DEF RunJob
<1>4. r \in Results /\ r.jid = hold[w] /\ r.call = mcall
  BY <1>1, <1>2, <1>3 DEF Outcomes, Results
<1>5. PICK c : c = Append(toM[w], Result(hold[w], r))
  OBVIOUS
<1>6. /\ wpc'[w] = "top" /\ toM'[w] = c /\ UNCHANGED <<hold[w], toW[w]>>
      /\ UNCHANGED mvars /\ OnlyWorker(w)
  BY <1>3, <1>5 DEF RunJob, OnlyWorker, TypeOK
<1>7. c # <<>> /\ Len(c) = 1 /\ c[1].tag = 2 /\ c[1].jid = hold[w] /\ c[1].ret = r
  <2>1. Result(hold[w], r) \in ToManager
    BY <1>2, <1>4, MessageTypes
  <2>2. c # <<>> /\ Len(c) = 1 /\ c[1] = Result(hold[w], r)
    BY <1>1, <1>5, <2>1, ChannelOfManager
  <2>3. QED
    BY <2>2 DEF Result
<1>8. ChannelsOK(w)' /\ WorkOK(w)' /\ HomeOK(w)'
  <2>1. Wanted' = Wanted /\ UNCHANGED <<mpc, mcall, jids>>
    BY <1>6 DEF mvars, Wanted
  <2>2. QED
    BY <1>1, <1>4, <1>6, <1>7, <2>1 DEF ChannelsOK, WorkOK, HomeOK, Left
<1>9. w \notin Closed /\ w \notin Closed'
  BY <1>1, <1>6 DEF Closed, Left
<1>10. ASSUME NEW j \in Wanted, hold[w] = j PROVE Accounted(j)'
  BY <1>6, <1>7, <1>10 DEF Accounted
<1>11. QED
  BY <1>1, <1>6, <1>8, <1>9, <1>10, OnlyWorkerStep

LEMMA CrashInJobStep ==
  ASSUME TypeOK, IInv, NEW w \in Workers, CrashInJob(w)
  PROVE  IInv'
<1>1. /\ wpc[w] = "run" /\ wpc'[w] = "crashed" /\ UNCHANGED <<hold[w], toM[w], toW[w]>>
      /\ UNCHANGED mvars /\ OnlyWorker(w)
  BY DEF CrashInJob, OnlyWorker, TypeOK
<1>2. ChannelsOK(w)' /\ WorkOK(w)' /\ HomeOK(w)'
  BY <1>1 DEF IInv, ChannelsOK, WorkOK, HomeOK, Left, mvars, Wanted
<1>3. w \notin Closed /\ w \notin Closed'
  BY <1>1 DEF Closed, Left
<1>4. ASSUME NEW j \in Wanted, hold[w] = j PROVE Accounted(j)'
  BY <1>1, <1>4 DEF Accounted
<1>5. toW[w] = <<>> /\ toM[w] = <<>>
  BY <1>1 DEF IInv, ChannelsOK
<1>6. QED
  BY <1>1, <1>2, <1>3, <1>4, <1>5, OnlyWorkerStep

LEMMA SayExitingStep ==
  ASSUME TypeOK, IInv, NEW w \in Workers, SayExiting(w)
  PROVE  IInv'
<1>1. PICK c : c = Append(toM[w], Exiting)
  OBVIOUS
<1>2. /\ wpc[w] = "exit" /\ toW[w] = <<>> /\ toM[w] = <<>> /\ mpc = "loop" /\ jids = <<>>
  BY DEF SayExiting, IInv, ChannelsOK, HomeOK
<1>3. /\ wpc'[w] = "left" /\ toM'[w] = c /\ UNCHANGED <<hold[w], toW[w]>>
      /\ UNCHANGED mvars /\ OnlyWorker(w)
  BY <1>1 DEF SayExiting, OnlyWorker, TypeOK
<1>4. c # <<>> /\ Len(c) = 1 /\ c[1].tag = 3
  BY <1>1, <1>2, MessageTypes, ChannelOfManager DEF Exiting
<1>5. ChannelsOK(w)' /\ WorkOK(w)' /\ HomeOK(w)'
  <2>1. UNCHANGED <<mpc, mcall, jids>>
    BY <1>3 DEF mvars
  <2>2. QED
    BY <1>2, <1>3, <1>4, <2>1 DEF ChannelsOK, WorkOK, HomeOK, Left
<1>6. w \notin Closed /\ w \notin Closed'
  BY <1>2, <1>3, <1>4 DEF Closed, Left
<1>7. QED
  BY <1>2, <1>3, <1>5, <1>6, OnlyWorkerStep

LEMMA WorkerResultStep ==
  ASSUME TypeOK, IInv, NEW w \in Workers, WorkerResult(w)
  PROVE  IInv'
<1>1. /\ wpc[w] = "left" /\ wpc'[w] = "return" /\ UNCHANGED <<hold[w], toM[w], toW[w]>>
      /\ UNCHANGED mvars /\ OnlyWorker(w)
  BY DEF WorkerResult, OnlyWorker, TypeOK
<1>2. ChannelsOK(w)' /\ WorkOK(w)' /\ HomeOK(w)'
  BY <1>1 DEF IInv, ChannelsOK, WorkOK, HomeOK, Left, mvars, Wanted
<1>3. w \in Closed <=> w \in Closed'
  BY <1>1 DEF Closed, Left
<1>4. toW[w] = <<>> /\ (toM[w] # <<>> => toM[w][1].tag = 3)
  BY <1>1 DEF IInv, ChannelsOK, Left
<1>5. QED
  BY <1>1, <1>2, <1>3, <1>4, OnlyWorkerStep

LEMMA PassBarrierStep ==
  ASSUME TypeOK, IInv, PassBarrier
  PROVE  IInv'
<1>1. /\ mpc = "return" /\ mpc' \in {"enter", "done"} /\ UNCHANGED <<toM, toW, jids>>
      /\ \A w \in Workers : wpc[w] = "return"
      /\ \A w \in Workers : wpc'[w] = IF mpc' = "enter" THEN "top" ELSE "done"
  BY DEF PassBarrier
<1>2. ASSUME NEW w \in Workers PROVE ChannelsOK(w)' /\ WorkOK(w)' /\ HomeOK(w)'
  <2>1. ChannelsOK(w) /\ HomeOK(w)
    BY DEF IInv
  <2>2. toM[w] = <<>> /\ toW[w] = <<>>
    BY <1>1, <2>1 DEF ChannelsOK, HomeOK, Left
  <2>3. QED
    BY <1>1, <2>2 DEF ChannelsOK, WorkOK, HomeOK, Left
<1>3. JobsOK'
  BY <1>1 DEF JobsOK
<1>4. QED
  BY <1>2, <1>3 DEF IInv

------------------------------------------------------------------------------
(* The theorems.                                                           *)

LEMMA IInvInit == Init => IInv
<1>1. SUFFICES ASSUME Init PROVE IInv
  OBVIOUS
<1>2. ASSUME NEW w \in Workers PROVE ChannelsOK(w) /\ WorkOK(w) /\ HomeOK(w)
  BY <1>1 DEF Init, ChannelsOK, WorkOK, HomeOK, Left
<1>3. JobsOK
  BY <1>1 DEF Init, JobsOK
<1>4. QED
  BY <1>2, <1>3 DEF IInv

LEMMA IInvStep ==
  ASSUME Barrier, ~ NullResults, TypeOK, SameCall, IInv, [Next]_vars
  PROVE  IInv'
<1>1. CASE UNCHANGED vars
  BY <1>1 DEF vars, mvars, wvars, IInv, ChannelsOK, WorkOK, HomeOK, Left, JobsOK, Closed,
              Wanted, Accounted, Stored, InBounds
<1>2. CASE ManagerStep
  <2>1. ~ ManagerGoesOn
    BY DEF ManagerGoesOn
  <2>2. QED
    BY <1>2, <2>1, ManagerEnterStep, HandOutStep, SendHomeStep, CollectStep,
       CloseWorkerStep, ManagerLeaveStep DEF ManagerStep
<1>3. ASSUME NEW w \in Workers, WorkerStep(w) PROVE IInv'
  <2>1. ~ WorkerGoesOn(w)
    BY DEF WorkerGoesOn
  <2>2. QED
    BY <1>3, <2>1, AskForJobStep, ReceiveAnswerStep, RunJobStep, CrashInJobStep,
       SayExitingStep, WorkerResultStep DEF WorkerStep
<1>4. CASE PassBarrier
  BY <1>4, PassBarrierStep
<1>5. QED
  BY <1>1, <1>2, <1>3, <1>4 DEF Next, Terminating

\* With the default barrier, and a FUN that never returns NULL, whatever the
\* number of workers and calls: when the manager's loop ends, every job asked
\* for has its result at its index.
THEOREM CompleteAtReturn ==
  ASSUME Barrier, ~ NullResults
  PROVE  Spec => []CompleteResult
<1>1. Init => TypeOK /\ SameCall /\ IInv
  <2>1. Init => TypeOK /\ SameCall
    BY CardinalityOfWorkers, CallsAssumption DEF Init, TypeOK, SameCall
  <2>2. QED
    BY <2>1, IInvInit
<1>2. TypeOK /\ SameCall /\ IInv /\ [Next]_vars => (TypeOK /\ SameCall /\ IInv)'
  BY TypeStep, IInvStep
<1>3. IInv => CompleteResult
  BY DEF IInv, JobsOK, CompleteResult, Wanted, Stored
<1>4. QED
  BY <1>1, <1>2, <1>3, PTL DEF Spec

------------------------------------------------------------------------------
(* The broadcast.                                                          *)

\* With bcast = TRUE, worker w and the manager's broadcasts: there is one for w
\* only between the manager's loop and w's own return, and it is the list.
BcastOK(w) ==
  /\ mpc # "return" => bcasts[w] = <<>> /\ wpc[w] # "return"
  /\ mpc = "return" /\ wpc[w] # "return" => bcasts[w] = <<ret>>
  /\ mpc = "return" /\ wpc[w] = "return" => bcasts[w] = <<>> /\ got[w] = ret

BcastsOK == \A w \in Workers : BcastOK(w)

\* The manager before the end of its loop: no worker has returned, so none is
\* looked at.
LEMMA BcastManagerStep ==
  ASSUME TypeOK, BcastsOK, mpc # "return", mpc' # "return", UNCHANGED <<wpc, bcasts>>
  PROVE  BcastsOK'
BY DEF BcastsOK, BcastOK

\* A worker before the broadcast, whose variables no broadcast depends on.
LEMMA BcastWorkerStep ==
  ASSUME TypeOK, BcastsOK, NEW w \in Workers, wpc[w] # "return",
         UNCHANGED <<mvars, got, bcasts>>,
         NEW place, place # "return", wpc' = [wpc EXCEPT ![w] = place]
  PROVE  BcastsOK'
<1>1. UNCHANGED <<mpc, ret>>
  BY DEF mvars
<1>2. ASSUME NEW x \in Workers PROVE BcastOK(x)'
  <2>1. BcastOK(x)
    BY DEF BcastsOK
  <2>2. wpc'[x] = IF x = w THEN place ELSE wpc[x]
    BY DEF TypeOK
  <2>3. QED
    BY <1>1, <2>1, <2>2 DEF BcastOK
<1>3. QED
  BY <1>2 DEF BcastsOK

LEMMA BcastStep ==
  ASSUME Barrier, Bcast, TypeOK, BcastsOK, [Next]_vars
  PROVE  BcastsOK'
<1>1. CASE UNCHANGED vars
  BY <1>1 DEF vars, mvars, wvars, BcastsOK, BcastOK
<1>2. CASE ManagerStep /\ ~ ManagerLeave
  <2>1. mpc # "return" /\ mpc' # "return" /\ UNCHANGED <<wpc, bcasts>>
    BY <1>2 DEF ManagerStep, ManagerGoesOn, ManagerEnter, ManagerRefuse, HandOut, SendHome,
       Collect, CloseWorker, Receive, Looping, mvars, wvars
  <2>2. QED
    BY <2>1, BcastManagerStep
<1>3. CASE ManagerLeave
  <2>1. /\ mpc = "loop" /\ mpc' = "return" /\ UNCHANGED <<ret, wpc, got>>
        /\ bcasts' = [w \in Workers |-> Append(bcasts[w], ret)]
    BY <1>3 DEF ManagerLeave, wvars
  <2>2. ASSUME NEW w \in Workers PROVE BcastOK(w)'
    <3>1. bcasts[w] = <<>> /\ wpc[w] # "return"
      BY <2>1 DEF BcastsOK, BcastOK
    <3>2. bcasts'[w] = <<ret>>
      <4>1. bcasts'[w] = Append(bcasts[w], ret)
        BY <2>1
      <4>2. Append(<< >>, ret) = <<ret>>
        OBVIOUS
      <4>3. QED
        BY <3>1, <4>1, <4>2
    <3>3. QED
      BY <2>1, <3>1, <3>2 DEF BcastOK
  <2>3. QED
    BY <2>2 DEF BcastsOK
<1>4. ASSUME NEW w \in Workers, WorkerStep(w) PROVE BcastsOK'
  <2>1. ~ WorkerGoesOn(w)
    BY DEF WorkerGoesOn
  <2>2. CASE AskForJob(w)
    BY <2>2, BcastWorkerStep DEF AskForJob
  <2>3. CASE ReceiveAnswer(w)
    <3>1. PICK place \in {"run", "exit"} : wpc' = [wpc EXCEPT ![w] = place]
      BY <2>3 DEF ReceiveAnswer
    <3>2. wpc[w] # "return" /\ UNCHANGED <<mvars, got, bcasts>>
      BY <2>3 DEF ReceiveAnswer
    <3>3. QED
      BY <3>1, <3>2, BcastWorkerStep
  <2>4. CASE RunJob(w)
    BY <2>4, BcastWorkerStep DEF RunJob
  <2>5. CASE CrashInJob(w)
    BY <2>5, BcastWorkerStep DEF CrashInJob
  <2>6. CASE SayExiting(w)
    BY <2>6, BcastWorkerStep DEF SayExiting
  <2>7. CASE WorkerResult(w)
    <3>1. /\ wpc[w] = "left" /\ wpc' = [wpc EXCEPT ![w] = "return"]
          /\ bcasts[w] # <<>>
          /\ got' = [got EXCEPT ![w] = Head(bcasts[w])]
          /\ bcasts' = [bcasts EXCEPT ![w] = Tail(@)]
          /\ UNCHANGED <<mpc, ret>>
      BY <2>7 DEF WorkerResult, mvars
    <3>2. mpc = "return" /\ bcasts[w] = <<ret>>
      BY <3>1 DEF BcastsOK, BcastOK
    <3>3. Head(bcasts[w]) = ret /\ Tail(bcasts[w]) = <<>>
      BY <3>2 DEF TypeOK
    <3>4. ASSUME NEW x \in Workers PROVE BcastOK(x)'
      <4>1. BcastOK(x)
        BY DEF BcastsOK
      <4>2. CASE x = w
        BY <3>1, <3>2, <3>3, <4>2 DEF BcastOK, TypeOK
      <4>3. CASE x # w
        <5>1. wpc'[x] = wpc[x] /\ got'[x] = got[x] /\ bcasts'[x] = bcasts[x]
          BY <3>1, <4>3 DEF TypeOK
        <5>2. QED
          BY <3>1, <4>1, <5>1 DEF BcastOK
      <4>4. QED
        BY <4>2, <4>3
    <3>5. QED
      BY <3>4 DEF BcastsOK
  <2>8. QED
    BY <1>4, <2>1, <2>2, <2>3, <2>4, <2>5, <2>6, <2>7 DEF WorkerStep
<1>5. CASE PassBarrier
  <2>1. /\ mpc = "return" /\ mpc' # "return" /\ UNCHANGED bcasts
        /\ \A w \in Workers : wpc[w] = "return" /\ wpc'[w] # "return"
    BY <1>5 DEF PassBarrier
  <2>2. QED
    BY <2>1 DEF BcastsOK, BcastOK
<1>6. QED
  BY <1>1, <1>2, <1>3, <1>4, <1>5 DEF Next, Terminating

\* With the default barrier and bcast = TRUE, whatever FUN returns: a worker that
\* has returned from the manager's call holds the manager's list, never that of
\* an earlier or later call.
THEOREM SameListEverywhere ==
  ASSUME Barrier
  PROVE  Spec => []BcastAgreement
<1>1. CASE Bcast
  <2>1. Init => TypeOK /\ SameCall
    BY CardinalityOfWorkers, CallsAssumption DEF Init, TypeOK, SameCall
  <2>2. Init => BcastsOK
    BY DEF Init, BcastsOK, BcastOK
  <2>3. TypeOK /\ SameCall /\ BcastsOK /\ [Next]_vars => (TypeOK /\ SameCall /\ BcastsOK)'
    BY <1>1, TypeStep, BcastStep
  <2>4. BcastsOK => BcastAgreement
    BY DEF BcastsOK, BcastOK, BcastAgreement
  <2>5. QED
    BY <2>1, <2>2, <2>3, <2>4, PTL DEF Spec
<1>2. CASE ~ Bcast
  <2>1. BcastAgreement
    BY <1>2 DEF BcastAgreement
  <2>2. QED
    BY <2>1, PTL
<1>3. QED
  BY <1>1, <1>2

------------------------------------------------------------------------------
(* Every step of the ranks is a step of the abstract pool of jobs, or none. *)

\* The list that the manager made is long enough for every id asked for, so
\* that no result is stored past its end.
LongEnough == mpc = "loop" => \A j \in Wanted : InBounds(ret, j)

LEMMA LongEnoughStep ==
  ASSUME Barrier, ~ NullResults, TypeOK, IInv, LongEnough, [Next]_vars
  PROVE  LongEnough'
<1>1. SUFFICES ASSUME mpc' = "loop" PROVE \A j \in Wanted' : InBounds(ret, j)'
  BY DEF LongEnough
<1>2. ASSUME NEW ids \in JobLists, ManagerEnter(ids)
      PROVE  \A j \in Wanted' : InBounds(ret, j)'
  <2>1. ids \in Seq(Nat) /\ ids # <<>> /\ \A i \in 1..Len(ids) : ids[i] > 0
    BY <1>2, JobListsAssumption DEF ManagerEnter, Acceptable
  <2>2. asked' = ids /\ ret' = EmptyList(MaxJid(ids))
    BY <1>2 DEF ManagerEnter
  <2>3. MaxJid(ids) \in Nat /\ \A i \in 1..Len(ids) : ids[i] <= MaxJid(ids)
    BY <2>1, MaxJidIsLargest
  <2>4. Len(EmptyList(MaxJid(ids))) = MaxJid(ids)
    BY <2>3, EmptyListType
  <2>5. \A i \in 1..Len(ids) : ids[i] \in 1..MaxJid(ids)
    BY <2>1, <2>3
  <2>6. QED
    BY <2>2, <2>4, <2>5 DEF Wanted, InBounds
<1>3. ASSUME NEW w \in Workers, Collect(w) PROVE \A j \in Wanted' : InBounds(ret, j)'
  <2>1. /\ mpc = "loop" /\ toM[w] # <<>> /\ toM[w][1].tag = 2 /\ asked' = asked
        /\ ret' = ListAssign(ret, toM[w][1].jid, toM[w][1].ret)
    BY <1>3, SenderOfMessage DEF Collect, Receive, Looping
  <2>2. /\ toM[w][1].jid \in Wanted /\ toM[w][1].ret \in Results
    BY <2>1 DEF IInv, WorkOK
  <2>3. toM[w][1].jid \in Nat /\ ret \in Lists
    <3>1. asked \in Seq(Nat) /\ ret \in Lists
      BY DEF TypeOK, Lists
    <3>2. PICK i \in 1..Len(asked) : asked[i] = toM[w][1].jid
      BY ONLY <2>2 DEF Wanted
    <3>3. asked[i] \in Nat
      BY ONLY <3>1, <3>2
    <3>4. QED
      BY ONLY <3>1, <3>2, <3>3
  <2>4. ret' = StoreElement(ret, toM[w][1].jid, toM[w][1].ret)
    BY <2>1, <2>2, NullAssumption DEF ListAssign
  <2>5. Len(ret') = IF toM[w][1].jid > Len(ret) THEN toM[w][1].jid ELSE Len(ret)
    BY <2>2, <2>3, <2>4, StoreElementProperties
  <2>6. Len(ret) \in Nat /\ Len(ret') \in Nat /\ Len(ret') >= Len(ret)
    BY <2>3, <2>5 DEF Lists
  <2>7. QED
    BY <2>1, <2>6 DEF LongEnough, Wanted, InBounds
<1>4. CASE mpc = "loop" /\ UNCHANGED <<asked, ret>>
  BY <1>4 DEF LongEnough, Wanted, InBounds
<1>5. CASE UNCHANGED vars
  BY <1>1, <1>4, <1>5 DEF vars, mvars
<1>6. CASE ManagerStep
  BY <1>1, <1>2, <1>3, <1>4, <1>6 DEF ManagerStep, ManagerGoesOn, ManagerRefuse, HandOut, SendHome,
     CloseWorker, ManagerLeave, Receive, Looping, mvars
<1>7. ASSUME NEW w \in Workers, WorkerStep(w) PROVE \A j \in Wanted' : InBounds(ret, j)'
  <2>1. UNCHANGED mvars
    BY <1>7 DEF WorkerStep, AskForJob, ReceiveAnswer, RunJob, CrashInJob, SayExiting,
       WorkerResult, WorkerGoesOn
  <2>2. QED
    BY <1>1, <1>4, <2>1 DEF mvars
<1>8. CASE PassBarrier
  BY <1>1, <1>8 DEF PassBarrier
<1>9. QED
  BY <1>5, <1>6, <1>7, <1>8 DEF Next, Terminating

\* A result that is collected is stored at the place of its job, which exists.
LEMMA CollectIsStore ==
  ASSUME TypeOK, IInv, LongEnough, NEW w \in Workers, Collect(w)
  PROVE  \E j \in Wanted : Pool!Store(j)
<1>1. PICK j, v : j = toM[w][1].jid /\ v = toM[w][1].ret
  OBVIOUS
<1>2. /\ mpc = "loop" /\ toM[w] # <<>> /\ toM[w][1].tag = 2
      /\ ret' = ListAssign(ret, j, v)
      /\ UNCHANGED <<mpc, mcall, asked>>
  BY <1>1, SenderOfMessage DEF Collect, Receive, Looping
<1>3. j \in Wanted /\ v \in Results /\ v.jid = j /\ v.call = mcall
  BY <1>1, <1>2 DEF IInv, WorkOK
<1>4. v = [call |-> mcall, jid |-> j, kind |-> v.kind] /\ v.kind \in {"value", "try-error"}
  BY <1>3 DEF Results
<1>5. ret \in Lists /\ j \in 1..Len(ret)
  BY <1>2, <1>3 DEF LongEnough, InBounds, TypeOK, Lists
<1>6. ret' = StoreElement(ret, j, v)
  BY <1>2, <1>3, NullAssumption DEF ListAssign
<1>7. ret' = [ret EXCEPT ![j] = v]
  <2>1. PICK n : n = Len(ret)
    OBVIOUS
  <2>2. n \in Nat /\ j \in 1..n /\ ret = [k \in 1..n |-> ret[k]]
    BY <1>5, <2>1 DEF Lists
  <2>3. (IF j > n THEN j ELSE n) = n /\ \A k \in 1..n : k <= n
    BY <2>2
  <2>4. StoreElement(ret, j, v)
          = [k \in 1..n |-> IF k = j THEN v ELSE IF k <= n THEN ret[k] ELSE NULL]
    BY <2>1, <2>3 DEF StoreElement
  <2>5. StoreElement(ret, j, v) = [k \in 1..n |-> IF k = j THEN v ELSE ret[k]]
    BY <2>3, <2>4
  <2>6. QED
    BY <1>6, <2>2, <2>5
<1>8. QED
  BY <1>2, <1>3, <1>4, <1>7 DEF Pool!Store, Pool!Wanted, Wanted

LEMMA PoolStep ==
  ASSUME Barrier, ~ NullResults, \A ids \in JobLists : Acceptable(ids),
         TypeOK, IInv, LongEnough, [Next]_vars
  PROVE  [Pool!Next]_(Pool!vars)
<1>1. CASE UNCHANGED mvars
  BY <1>1 DEF mvars, Pool!vars
<1>2. ASSUME NEW ids \in JobLists, ManagerEnter(ids) PROVE Pool!Submit(ids)
  <2>1. /\ mpc = "enter" /\ mpc' = "loop" /\ asked' = ids /\ UNCHANGED mcall
        /\ ids # <<>> /\ \A i \in 1..Len(ids) : ids[i] > 0
        /\ ret' = EmptyList(MaxJid(ids))
    BY <1>2 DEF ManagerEnter, Acceptable
  <2>2. MaxJid(ids) = Pool!Largest(ids)
    BY DEF MaxJid, Pool!Largest
  <2>3. EmptyList(MaxJid(ids)) = Pool!EmptyList(Pool!Largest(ids))
    BY <2>2 DEF EmptyList, Pool!EmptyList
  <2>4. QED
    BY <2>1, <2>3 DEF Pool!Submit
<1>3. CASE ManagerLeave
  <2>1. mpc = "loop" /\ mpc' = "return" /\ UNCHANGED <<mcall, asked, ret>>
    BY <1>3 DEF ManagerLeave
  <2>2. \A j \in Wanted : ret[j] # NULL
    BY <1>3, LoopEnd DEF ManagerLeave, Stored
  <2>3. Pool!Return
    BY <2>1, <2>2 DEF Pool!Return, Pool!Wanted, Wanted
  <2>4. QED
    BY <2>3 DEF Pool!Next
<1>4. CASE PassBarrier
  <2>1. mpc = "return" /\ UNCHANGED <<asked, ret>>
    BY <1>4 DEF PassBarrier
  <2>2. CASE mcall < Calls
    <3>1. mpc' = "enter" /\ mcall' = mcall + 1
      BY <1>4, <2>2 DEF PassBarrier
    <3>2. Pool!NextCall
      BY <2>1, <2>2, <3>1 DEF Pool!NextCall
    <3>3. QED
      BY <3>2 DEF Pool!Next
  <2>3. CASE ~ (mcall < Calls)
    <3>1. mpc' = "done" /\ UNCHANGED mcall
      BY <1>4, <2>3 DEF PassBarrier
    <3>2. QED
      BY <2>1, <3>1 DEF Pool!vars
  <2>4. QED
    BY <2>2, <2>3
<1>5. ASSUME NEW w \in Workers, WorkerStep(w) PROVE UNCHANGED mvars
  BY <1>5 DEF WorkerStep, AskForJob, ReceiveAnswer, RunJob, CrashInJob, SayExiting,
     WorkerResult, WorkerGoesOn
<1>6. CASE ManagerStep
  <2>1. ~ ManagerGoesOn /\ \A ids \in JobLists : ~ ManagerRefuse(ids)
    BY DEF ManagerGoesOn, ManagerRefuse
  <2>2. ASSUME NEW w \in Workers, HandOut(w) \/ SendHome(w) \/ CloseWorker(w)
        PROVE  UNCHANGED Pool!vars
    BY <2>2 DEF HandOut, SendHome, CloseWorker, mvars, Pool!vars
  <2>3. ASSUME NEW w \in Workers, Collect(w) PROVE Pool!Next
    BY <2>3, CollectIsStore DEF Pool!Next, Pool!Wanted, Wanted
  <2>4. ASSUME NEW ids \in JobLists, ManagerEnter(ids) PROVE Pool!Next
    BY <2>4, <1>2 DEF Pool!Next
  <2>5. QED
    BY <1>3, <1>6, <2>1, <2>2, <2>3, <2>4 DEF ManagerStep
<1>7. QED
  BY <1>1, <1>3, <1>4, <1>5, <1>6 DEF Next, Terminating, vars

\* The manager and its workers implement the pool of jobs, whatever their
\* number: each result is stored once it arrives at the place of its own job and
\* in the call that asked for it, and the list is returned only when complete.
\* (That they also implement its liveness is left to the model checker.)
THEOREM StepsOfThePool ==
  ASSUME Barrier, ~ NullResults, \A ids \in JobLists : Acceptable(ids)
  PROVE  Spec => Pool!Init /\ [][Pool!Next]_(Pool!vars)
<1>1. Init => TypeOK /\ SameCall /\ IInv /\ LongEnough
  <2>1. Init => TypeOK /\ SameCall
    BY CardinalityOfWorkers, CallsAssumption DEF Init, TypeOK, SameCall
  <2>2. Init => LongEnough
    BY DEF Init, LongEnough
  <2>3. QED
    BY <2>1, <2>2, IInvInit
<1>2. TypeOK /\ SameCall /\ IInv /\ LongEnough /\ [Next]_vars
        => (TypeOK /\ SameCall /\ IInv /\ LongEnough)'
  BY TypeStep, IInvStep, LongEnoughStep
<1>3. Init => Pool!Init
  BY DEF Init, Pool!Init
<1>4. TypeOK /\ IInv /\ LongEnough /\ [Next]_vars => [Pool!Next]_(Pool!vars)
  BY PoolStep
<1>5. QED
  BY <1>1, <1>2, <1>3, <1>4, PTL DEF Spec

------------------------------------------------------------------------------
(* Consecutive calls of task.pull() that a barrier or the broadcast of the *)
(* list separates do not mix, whatever FUN does: it may return NULL or end *)
(* its worker's process, and the manager may refuse its argument.  The     *)
(* invariant says how far a worker and the manager may be apart.           *)

\* No message of w but its first question of a call is on its way.
Asking(w) ==
  /\ wpc[w] \in {"top", "wait"} /\ toW[w] = <<>>
  /\ toM[w] # <<>> => toM[w][1].tag = 1

\* Worker w and the manager: in one call, the worker a call ahead once the
\* manager has left its loop, or a call behind until w has joined the broadcast.
SameStage(w) ==
  /\ wcall[w] = mcall
  /\ mpc \in {"enter", "stopped"} => Asking(w) /\ bcasts[w] = <<>>
  /\ mpc = "loop" =>
       /\ wpc[w] # "done" /\ bcasts[w] = <<>>
       /\ Bcast => wpc[w] # "return"
  /\ mpc \in {"return", "done"} =>
       /\ wpc[w] \in {"left", "return", "done"} /\ toM[w] = <<>>
       /\ IF Bcast /\ wpc[w] = "left" THEN Len(bcasts[w]) = 1 ELSE bcasts[w] = <<>>
Ahead(w) ==
  /\ wcall[w] = mcall + 1 /\ mpc = "return"
  /\ Asking(w) /\ bcasts[w] = <<>>
Behind(w) ==
  /\ wcall[w] = mcall - 1 /\ mpc \in {"enter", "stopped", "loop"}
  /\ wpc[w] \in {"left", "return"} /\ toM[w] = <<>>
  /\ IF Bcast /\ wpc[w] = "left" THEN Len(bcasts[w]) = 1 ELSE bcasts[w] = <<>>

StageOK(w) ==
  /\ SameStage(w) \/ Ahead(w) \/ Behind(w)
  /\ wpc[w] = "done" => wcall[w] = Calls

\* The workers that the manager's loop has counted.
Counted == {w \in Workers : wcall[w] = mcall /\ Left(w) /\ toM[w] = <<>>}

CallsInv ==
  /\ \A w \in Workers : ChannelsOK(w) /\ StageOK(w)
  /\ mpc = "done" => mcall = Calls
  /\ mpc = "loop" => closed = Cardinality(Counted)

------------------------------------------------------------------------------
(* The workers' steps.                                                     *)

\* A step of worker w that leaves the manager, and the other workers, alone.
Alone(w) ==
  /\ UNCHANGED mvars
  /\ \A x \in Workers : x # w => UNCHANGED <<wpc[x], wcall[x], toM[x], toW[x], bcasts[x]>>

LEMMA AloneStep ==
  ASSUME CallsInv, NEW w \in Workers, Alone(w), ChannelsOK(w)', StageOK(w)',
         w \in Counted <=> w \in Counted'
  PROVE  CallsInv'
<1>1. UNCHANGED <<mpc, mcall, closed>>
  BY DEF Alone, mvars
<1>2. ASSUME NEW x \in Workers PROVE ChannelsOK(x)' /\ StageOK(x)'
  <2>1. CASE x # w
    BY <1>1, <2>1 DEF CallsInv, Alone, ChannelsOK, StageOK, SameStage, Ahead, Behind, Asking, Left
  <2>2. QED
    BY <2>1
<1>3. Counted' = Counted
  BY <1>1 DEF Alone, Counted, Left
<1>4. QED
  BY <1>1, <1>2, <1>3 DEF CallsInv

\* By its tag, the message at the head of a channel tells where w is.
LEMMA SenderInCalls ==
  ASSUME TypeOK, NEW w \in Workers, ChannelsOK(w), toM[w] # <<>>
  PROVE  /\ Head(toM[w]) = toM[w][1]
         /\ toM[w][1].tag = 1 => wpc[w] = "wait" /\ toW[w] = <<>> /\ Tail(toM[w]) = <<>>
         /\ toM[w][1].tag = 2 => \/ wpc[w] = "top" /\ toW[w] = <<>> /\ Tail(toM[w]) = <<>>
                                \/ /\ wpc[w] = "wait" /\ toW[w] = <<>> /\ Tail(toM[w]) # <<>>
                                   /\ Len(Tail(toM[w])) = 1 /\ Tail(toM[w])[1].tag = 1
         /\ toM[w][1].tag = 3 => Left(w) /\ toW[w] = <<>> /\ Tail(toM[w]) = <<>>
<1>1. /\ Head(toM[w]) = toM[w][1]
      /\ Len(toM[w]) = 1 => Tail(toM[w]) = <<>>
      /\ Len(toM[w]) = 2 => Tail(toM[w]) # <<>> /\ Len(Tail(toM[w])) = 1 /\ Tail(toM[w])[1] = toM[w][2]
  BY MessageTypes, ChannelOfManager
<1>2. wpc[w] \in {"top", "wait", "run", "crashed", "exit", "left", "return", "done"}
  BY DEF TypeOK
<1>3. QED
  BY <1>1, <1>2 DEF ChannelsOK, Left

LEMMA AskInCalls ==
  ASSUME TypeOK, CallsInv, NEW w \in Workers, AskForJob(w)
  PROVE  CallsInv'
<1>1. PICK c : c = Append(toM[w], Ready)
  OBVIOUS
<1>2. /\ wpc[w] = "top" /\ toW[w] = <<>> /\ ChannelsOK(w) /\ StageOK(w)
      /\ wpc'[w] = "wait" /\ toM'[w] = c
      /\ UNCHANGED <<mpc, mcall, wcall[w], toW[w], bcasts[w]>> /\ Alone(w)
  BY <1>1 DEF AskForJob, CallsInv, ChannelsOK, Alone, TypeOK, mvars
<1>3. /\ toM[w] = <<>> => Len(c) = 1 /\ c[1].tag = 1
      /\ toM[w] # <<>> => /\ toM[w][1].tag = 2 /\ Len(c) = 2
                         /\ c[1] = toM[w][1] /\ c[2].tag = 1
      /\ c # <<>>
  <2>1. toM[w] # <<>> => Len(toM[w]) = 1 /\ toM[w][1].tag = 2
    BY <1>2 DEF ChannelsOK
  <2>2. Ready.tag = 1
    BY DEF Ready
  <2>3. QED
    BY <1>1, <2>1, <2>2, MessageTypes, ChannelOfManager
<1>4. ChannelsOK(w)'
  BY <1>2, <1>3 DEF ChannelsOK, Left
<1>5. StageOK(w)'
  BY <1>2, <1>3 DEF StageOK, SameStage, Ahead, Behind, Asking
<1>6. w \notin Counted /\ w \notin Counted'
  BY <1>2 DEF Counted, Left
<1>7. QED
  BY <1>2, <1>4, <1>5, <1>6, AloneStep

LEMMA AnswerInCalls ==
  ASSUME TypeOK, CallsInv, NEW w \in Workers, ReceiveAnswer(w)
  PROVE  CallsInv'
<1>1. /\ wpc[w] = "wait" /\ toW[w] # <<>> /\ ChannelsOK(w) /\ StageOK(w)
      /\ wpc'[w] \in {"run", "exit"} /\ toW'[w] = Tail(toW[w])
      /\ UNCHANGED <<mpc, mcall, wcall[w], toM[w], bcasts[w]>> /\ Alone(w)
  BY DEF ReceiveAnswer, CallsInv, Alone, TypeOK, mvars
<1>2. toM[w] = <<>> /\ Len(toW[w]) = 1
  BY <1>1 DEF ChannelsOK
<1>3. toW'[w] = <<>>
  BY <1>1, <1>2, MessageTypes, ChannelOfWorker
<1>4. ChannelsOK(w)'
  BY <1>1, <1>2, <1>3 DEF ChannelsOK, Left
<1>5. StageOK(w)'
  BY <1>1 DEF StageOK, SameStage, Ahead, Behind, Asking
<1>6. w \notin Counted /\ w \notin Counted'
  BY <1>1 DEF Counted, Left
<1>7. QED
  BY <1>1, <1>4, <1>5, <1>6, AloneStep

LEMMA RunInCalls ==
  ASSUME TypeOK, CallsInv, NEW w \in Workers, RunJob(w) \/ CrashInJob(w)
  PROVE  CallsInv'
<1>1. /\ wpc[w] = "run" /\ ChannelsOK(w) /\ StageOK(w) /\ toM[w] = <<>> /\ toW[w] = <<>>
      /\ UNCHANGED <<mpc, mcall, wcall[w], toW[w], bcasts[w]>> /\ Alone(w)
  BY DEF RunJob, CrashInJob, CallsInv, ChannelsOK, Alone, TypeOK, mvars
<1>2. mpc = "loop" /\ SameStage(w)
  BY <1>1 DEF StageOK, SameStage, Ahead, Behind, Asking, TypeOK
<1>3. CASE RunJob(w)
  <2>1. PICK r \in Outcomes(w, hold[w]) :
          toM' = [toM EXCEPT ![w] = Append(@, Result(hold[w], r))]
    BY <1>3 DEF RunJob
  <2>2. PICK m : m = Result(hold[w], r)
    OBVIOUS
  <2>3. hold[w] \in Nat /\ r \in Results \cup {NULL}
    BY <2>1 DEF TypeOK, Outcomes, Results
  <2>4. m \in ToManager /\ m.tag = 2
    BY <2>2, <2>3, MessageTypes DEF Result
  <2>5. wpc'[w] = "top" /\ toM'[w] = Append(toM[w], m)
    BY <1>3, <2>1, <2>2 DEF RunJob, TypeOK
  <2>6. toM'[w] # <<>> /\ Len(toM'[w]) = 1 /\ toM'[w][1].tag = 2
    BY <1>1, <2>4, <2>5, ChannelOfManager
  <2>7. ChannelsOK(w)'
    BY <1>1, <2>5, <2>6 DEF ChannelsOK, Left
  <2>8. StageOK(w)'
    BY <1>1, <1>2, <2>5 DEF StageOK, SameStage, Asking
  <2>9. w \notin Counted /\ w \notin Counted'
    BY <1>1, <2>5 DEF Counted, Left
  <2>10. QED
    BY <1>1, <2>7, <2>8, <2>9, AloneStep
<1>4. CASE CrashInJob(w)
  <2>1. wpc'[w] = "crashed" /\ toM'[w] = toM[w]
    BY <1>4 DEF CrashInJob, TypeOK
  <2>2. ChannelsOK(w)'
    BY <1>1, <2>1 DEF ChannelsOK, Left
  <2>3. StageOK(w)'
    BY <1>1, <1>2, <2>1 DEF StageOK, SameStage, Asking
  <2>4. w \notin Counted /\ w \notin Counted'
    BY <1>1, <2>1 DEF Counted, Left
  <2>5. QED
    BY <1>1, <2>2, <2>3, <2>4, AloneStep
<1>5. QED
  BY <1>3, <1>4

LEMMA ExitInCalls ==
  ASSUME TypeOK, CallsInv, NEW w \in Workers, SayExiting(w)
  PROVE  CallsInv'
<1>1. /\ wpc[w] = "exit" /\ ChannelsOK(w) /\ StageOK(w) /\ toM[w] = <<>> /\ toW[w] = <<>>
      /\ wpc'[w] = "left" /\ toM'[w] = Append(toM[w], Exiting)
      /\ UNCHANGED <<mpc, mcall, wcall[w], toW[w], bcasts[w]>> /\ Alone(w)
  BY DEF SayExiting, CallsInv, ChannelsOK, Alone, TypeOK, mvars
<1>2. mpc = "loop" /\ SameStage(w)
  BY <1>1 DEF StageOK, SameStage, Ahead, Behind, Asking, TypeOK
<1>3. toM'[w] # <<>> /\ Len(toM'[w]) = 1 /\ toM'[w][1].tag = 3
  <2>1. Exiting.tag = 3
    BY DEF Exiting
  <2>2. QED
    BY <1>1, <2>1, MessageTypes, ChannelOfManager
<1>4. ChannelsOK(w)'
  BY <1>1, <1>3 DEF ChannelsOK, Left
<1>5. StageOK(w)'
  BY <1>1, <1>2 DEF StageOK, SameStage, Asking
<1>6. w \notin Counted /\ w \notin Counted'
  BY <1>1, <1>3 DEF Counted, Left
<1>7. QED
  BY <1>1, <1>4, <1>5, <1>6, AloneStep

LEMMA ResultInCalls ==
  ASSUME TypeOK, CallsInv, NEW w \in Workers, WorkerResult(w)
  PROVE  CallsInv'
<1>1. /\ wpc[w] = "left" /\ wpc'[w] = "return" /\ ChannelsOK(w) /\ StageOK(w)
      /\ UNCHANGED <<mpc, mcall, wcall[w], toM[w], toW[w]>> /\ Alone(w)
  BY DEF WorkerResult, CallsInv, Alone, TypeOK, mvars
<1>2. IF Bcast THEN bcasts[w] # <<>> /\ bcasts'[w] = Tail(bcasts[w]) ELSE bcasts' = bcasts
  BY DEF WorkerResult, TypeOK
<1>3. Len(bcasts[w]) = 1 => Tail(bcasts[w]) = <<>>
  <2>1. bcasts[w] \in Seq(Seq(Results \cup {NULL}))
    BY DEF TypeOK
  <2>2. <<>> \in Seq(Results \cup {NULL})
    OBVIOUS
  <2>3. QED
    BY <2>1, <2>2, ShortSequences
<1>4. ChannelsOK(w)'
  BY <1>1 DEF ChannelsOK, Left
<1>5. StageOK(w)'
  <2>1. CASE SameStage(w)
    <3>1. mpc \notin {"enter", "stopped"}
      BY <1>1, <2>1 DEF SameStage, Asking
    <3>2. CASE mpc = "loop"
      <4>1. ~ Bcast
        BY <1>2, <2>1, <3>2 DEF SameStage
      <4>2. QED
        BY <1>1, <1>2, <2>1, <3>2, <4>1 DEF StageOK, SameStage
    <3>3. CASE mpc \in {"return", "done"}
      BY <1>1, <1>2, <1>3, <2>1, <3>3 DEF StageOK, SameStage
    <3>4. QED
      BY <3>1, <3>2, <3>3 DEF TypeOK
  <2>2. CASE Behind(w)
    BY <1>1, <1>2, <1>3, <2>2 DEF StageOK, Behind
  <2>3. QED
    BY <1>1, <2>1, <2>2 DEF StageOK, Ahead, Asking
<1>6. w \in Counted <=> w \in Counted'
  BY <1>1 DEF Counted, Left
<1>7. QED
  BY <1>1, <1>4, <1>5, <1>6, AloneStep

\* A worker goes on to the next call: it catches up, or runs ahead.
LEMMA WorkerGoesOnInCalls ==
  ASSUME TypeOK, CallsInv, Bcast \/ Barrier, NEW w \in Workers, WorkerGoesOn(w)
  PROVE  CallsInv'
<1>1. /\ ~ Barrier /\ Bcast /\ wpc[w] = "return" /\ ChannelsOK(w) /\ StageOK(w) /\ Left(w)
      /\ UNCHANGED <<mpc, mcall, toM[w], toW[w], bcasts[w]>> /\ Alone(w)
  BY DEF WorkerGoesOn, CallsInv, Alone, TypeOK, mvars, Left
<1>2. /\ wcall[w] < Calls => wpc'[w] = "top" /\ wcall'[w] = wcall[w] + 1
      /\ ~ (wcall[w] < Calls) => wpc'[w] = "done" /\ wcall'[w] = wcall[w]
  BY DEF WorkerGoesOn, TypeOK
<1>3. wcall[w] \in 1..Calls /\ mcall \in 1..Calls /\ Calls \in Nat
  BY CallsAssumption DEF TypeOK
<1>4. toM[w] = <<>> /\ toW[w] = <<>> /\ bcasts[w] = <<>> /\ (SameStage(w) => mpc \in {"return", "done"})
  <2>1. toW[w] = <<>>
    BY <1>1 DEF ChannelsOK
  <2>2. CASE SameStage(w)
    <3>1. mpc \in {"return", "done"}
      BY <1>1, <2>2 DEF SameStage, Asking, TypeOK
    <3>2. QED
      BY <1>1, <2>1, <2>2, <3>1 DEF SameStage
  <2>3. CASE Behind(w)
    <3>1. wcall[w] # mcall
      BY <1>3, <2>3 DEF Behind
    <3>2. QED
      BY <1>1, <2>1, <2>3, <3>1 DEF Behind, SameStage
  <2>4. QED
    BY <1>1, <2>2, <2>3 DEF StageOK, Ahead, Asking
<1>5. ChannelsOK(w)'
  BY <1>1, <1>2, <1>4 DEF ChannelsOK, Left
<1>6. StageOK(w)'
  <2>1. CASE SameStage(w) /\ wcall[w] < Calls
    <3>1. mpc = "return" /\ wcall'[w] = mcall + 1
      BY <1>2, <1>3, <1>4, <2>1 DEF SameStage, CallsInv
    <3>2. QED
      BY <1>1, <1>2, <1>4, <2>1, <3>1 DEF StageOK, Ahead, Asking
  <2>2. CASE SameStage(w) /\ ~ (wcall[w] < Calls)
    BY <1>1, <1>2, <1>3, <1>4, <2>2 DEF StageOK, SameStage
  <2>3. CASE Behind(w)
    <3>1. wcall[w] < Calls /\ wcall'[w] = mcall
      BY <1>2, <1>3, <2>3 DEF Behind
    <3>2. QED
      BY <1>1, <1>2, <1>4, <2>3, <3>1 DEF StageOK, SameStage, Behind, Asking
  <2>4. QED
    BY <1>1, <2>1, <2>2, <2>3 DEF StageOK, Ahead, Asking
<1>7. CASE mpc = "loop"
  <2>1. w \notin Counted /\ w \notin Counted'
    BY <1>1, <1>2, <1>3, <1>4, <1>7 DEF Counted, StageOK, Behind, Ahead, Left
  <2>2. QED
    BY <1>1, <1>5, <1>6, <2>1, AloneStep
<1>8. CASE mpc # "loop"
  <2>1. ASSUME NEW x \in Workers PROVE ChannelsOK(x)' /\ StageOK(x)'
    <3>1. CASE x # w
      BY <1>1, <3>1 DEF CallsInv, Alone, ChannelsOK, StageOK, SameStage, Ahead, Behind, Asking,
         Left, mvars
    <3>2. QED
      BY <1>5, <1>6, <3>1
  <2>2. QED
    BY <1>1, <1>8, <2>1 DEF CallsInv
<1>9. QED
  BY <1>7, <1>8

------------------------------------------------------------------------------
(* The manager's steps.                                                    *)

LEMMA EnterInCalls ==
  ASSUME TypeOK, CallsInv, NEW ids \in JobLists, ManagerEnter(ids) \/ ManagerRefuse(ids)
  PROVE  CallsInv'
<1>1. /\ mpc = "enter" /\ mpc' \in {"loop", "stopped"}
      /\ UNCHANGED <<mcall, wpc, wcall, toM, toW, bcasts>>
  BY DEF ManagerEnter, ManagerRefuse, wvars
<1>2. ASSUME NEW w \in Workers
      PROVE  /\ ChannelsOK(w)' /\ StageOK(w)'
             /\ ~ (wcall[w] = mcall /\ Left(w))
  <2>1. ChannelsOK(w) /\ StageOK(w) /\ mcall \in Nat
    BY DEF CallsInv, TypeOK
  <2>2. ChannelsOK(w)'
    BY <1>1, <2>1 DEF ChannelsOK, Left
  <2>3. CASE SameStage(w)
    BY <1>1, <2>1, <2>2, <2>3 DEF StageOK, SameStage, Asking, Left
  <2>4. CASE Behind(w)
    BY <1>1, <2>1, <2>2, <2>4 DEF StageOK, Behind, Left
  <2>5. QED
    BY <1>1, <2>1, <2>3, <2>4 DEF StageOK, Ahead
<1>3. Counted' = {}
  BY <1>1, <1>2 DEF Counted, Left
<1>4. mpc' = "loop" => closed' = 0
  BY <1>1 DEF ManagerEnter, ManagerRefuse
<1>5. QED
  BY <1>1, <1>2, <1>3, <1>4, FS_EmptySet DEF CallsInv

\* The manager takes a message of worker w, and may answer it.
Receiving(w) ==
  /\ mpc = "loop" /\ toM[w] # <<>>
  /\ toM' = [toM EXCEPT ![w] = Tail(@)]
  /\ UNCHANGED <<mpc, mcall, wpc, wcall, bcasts>>
  /\ \A x \in Workers : x # w => toW'[x] = toW[x]

LEMMA ReceivingStep ==
  ASSUME TypeOK, CallsInv, NEW w \in Workers, Receiving(w), ChannelsOK(w)'
  PROVE  /\ \A x \in Workers : ChannelsOK(x)' /\ StageOK(x)'
         /\ mpc' = "loop" /\ SameStage(w)
<1>1. /\ mpc = "loop" /\ toM[w] # <<>> /\ UNCHANGED <<mpc, mcall, wpc, wcall, bcasts>>
      /\ \A x \in Workers : x # w => toM'[x] = toM[x] /\ toW'[x] = toW[x]
  BY DEF Receiving, TypeOK
<1>2. SameStage(w) /\ StageOK(w)
  BY <1>1 DEF CallsInv, StageOK, Ahead, Behind
<1>3. StageOK(w)'
  BY <1>1, <1>2 DEF StageOK, SameStage
<1>4. ASSUME NEW x \in Workers PROVE ChannelsOK(x)' /\ StageOK(x)'
  <2>1. CASE x # w
    BY <1>1, <2>1 DEF CallsInv, ChannelsOK, StageOK, SameStage, Ahead, Behind, Asking, Left
  <2>2. QED
    BY <1>3, <2>1
<1>5. QED
  BY <1>1, <1>2, <1>4

LEMMA HandOutInCalls ==
  ASSUME TypeOK, CallsInv, NEW w \in Workers, HandOut(w) \/ SendHome(w)
  PROVE  CallsInv'
<1>1. /\ mpc = "loop" /\ toM[w] # <<>> /\ toM[w][1].tag = 1
      /\ wpc[w] = "wait" /\ toW[w] = <<>> /\ Tail(toM[w]) = <<>>
      /\ toM' = [toM EXCEPT ![w] = Tail(@)]
      /\ UNCHANGED <<mpc, mcall, closed, wpc, wcall, bcasts>>
  BY SenderInCalls DEF CallsInv, HandOut, SendHome, Receive, Looping, mvars, wvars
<1>2. PICK m \in ToWorker : toW' = [toW EXCEPT ![w] = Append(@, m)]
  <2>1. CASE HandOut(w)
    <3>1. jids \in Seq(Nat) /\ jids # <<>>
      BY <2>1 DEF HandOut, TypeOK
    <3>2. Head(jids) \in Nat
      BY <3>1
    <3>3. QED
      BY <2>1, <3>2, MessageTypes DEF HandOut
  <2>2. CASE SendHome(w)
    BY <2>2, MessageTypes DEF SendHome
  <2>3. QED
    BY <2>1, <2>2
<1>3. toM'[w] = <<>> /\ Len(toW'[w]) = 1 /\ \A x \in Workers : x # w => toW'[x] = toW[x]
  <2>1. toW'[w] = Append(toW[w], m) /\ \A x \in Workers : x # w => toW'[x] = toW[x]
    BY <1>2 DEF TypeOK
  <2>2. QED
    BY <1>1, <1>2, <2>1, ChannelOfWorker DEF TypeOK
<1>4. ChannelsOK(w)'
  BY <1>1, <1>3 DEF ChannelsOK, Left
<1>5. Receiving(w)
  BY <1>1, <1>3 DEF Receiving
<1>6. Counted' = Counted
  <2>1. \A x \in Workers : x # w => toM'[x] = toM[x]
    BY <1>1 DEF TypeOK
  <2>2. QED
    BY <1>1, <2>1 DEF Counted, Left
<1>7. QED
  BY <1>1, <1>4, <1>5, <1>6, ReceivingStep DEF CallsInv

LEMMA CollectInCalls ==
  ASSUME TypeOK, CallsInv, NEW w \in Workers, Collect(w)
  PROVE  CallsInv'
<1>1. /\ mpc = "loop" /\ toM[w] # <<>> /\ toM[w][1].tag = 2
      /\ toM' = [toM EXCEPT ![w] = Tail(@)]
      /\ UNCHANGED <<mpc, mcall, closed, wpc, wcall, toW, bcasts>>
  BY SenderInCalls DEF CallsInv, Collect, Receive, Looping, wvars
<1>2. /\ toW[w] = <<>> /\ toM'[w] = Tail(toM[w])
      /\ \/ wpc[w] = "top" /\ Tail(toM[w]) = <<>>
         \/ wpc[w] = "wait" /\ Len(Tail(toM[w])) = 1 /\ Tail(toM[w])[1].tag = 1
  BY <1>1, SenderInCalls DEF CallsInv, TypeOK
<1>3. ChannelsOK(w)'
  BY <1>1, <1>2 DEF ChannelsOK, Left
<1>4. Receiving(w)
  BY <1>1 DEF Receiving
<1>5. Counted' = Counted
  <2>1. \A x \in Workers : x # w => toM'[x] = toM[x]
    BY <1>1 DEF TypeOK
  <2>2. QED
    BY <1>1, <1>2, <2>1 DEF Counted, Left
<1>6. QED
  BY <1>1, <1>3, <1>4, <1>5, ReceivingStep DEF CallsInv

\* The one step that counts: the worker has left its loop in this very call.
LEMMA CloseInCalls ==
  ASSUME TypeOK, CallsInv, NEW w \in Workers, CloseWorker(w)
  PROVE  CallsInv'
<1>1. /\ mpc = "loop" /\ toM[w] # <<>> /\ toM[w][1].tag = 3
      /\ toM' = [toM EXCEPT ![w] = Tail(@)] /\ closed' = closed + 1
      /\ UNCHANGED <<mpc, mcall, wpc, wcall, toW, bcasts>>
  BY SenderInCalls DEF CallsInv, CloseWorker, Receive, Looping, wvars
<1>2. Left(w) /\ toW[w] = <<>> /\ toM'[w] = <<>>
  BY <1>1, SenderInCalls DEF CallsInv, TypeOK
<1>3. ChannelsOK(w)'
  BY <1>1, <1>2 DEF ChannelsOK, Left
<1>4. Receiving(w)
  BY <1>1 DEF Receiving
<1>5. wcall[w] = mcall
  BY <1>3, <1>4, ReceivingStep DEF SameStage
<1>6. Counted' = Counted \cup {w} /\ w \notin Counted
  <2>1. \A x \in Workers : x # w => toM'[x] = toM[x]
    BY <1>1 DEF TypeOK
  <2>2. QED
    BY <1>1, <1>2, <1>5, <2>1 DEF Counted, Left
<1>7. closed' = Cardinality(Counted')
  <2>1. IsFiniteSet(Counted)
    BY WorkersAssumption, FS_Subset DEF Counted
  <2>2. Cardinality(Counted') = Cardinality(Counted) + 1
    BY <1>6, <2>1, FS_AddElement
  <2>3. QED
    BY <1>1, <2>2 DEF CallsInv
<1>8. QED
  BY <1>1, <1>3, <1>4, <1>7, ReceivingStep DEF CallsInv

LEMMA LeaveInCalls ==
  ASSUME TypeOK, CallsInv, ManagerLeave
  PROVE  CallsInv'
<1>1. /\ mpc = "loop" /\ ~ Looping /\ mpc' = "return"
      /\ UNCHANGED <<mcall, wpc, wcall, toM, toW>>
  BY DEF ManagerLeave, wvars
<1>2. Counted = Workers
  <2>1. closed = Cardinality(Workers) /\ closed = Cardinality(Counted)
    BY <1>1, CardinalityOfWorkers DEF Looping, TypeOK, CallsInv
  <2>2. Counted \in SUBSET Workers
    BY DEF Counted
  <2>3. QED
    BY <2>1, <2>2, WorkersAssumption, FS_Subset
<1>3. ASSUME NEW w \in Workers PROVE ChannelsOK(w)' /\ StageOK(w)'
  <2>1. ChannelsOK(w) /\ StageOK(w) /\ wcall[w] = mcall /\ Left(w) /\ toM[w] = <<>> /\ mcall \in Nat
    BY <1>2 DEF Counted, CallsInv, TypeOK
  <2>2. SameStage(w)
    BY <2>1 DEF StageOK, Ahead, Behind
  <2>3. bcasts[w] = <<>> /\ (Bcast => wpc[w] = "left")
    BY <1>1, <2>1, <2>2 DEF SameStage, Left
  <2>4. IF Bcast THEN Len(bcasts'[w]) = 1 ELSE bcasts'[w] = <<>>
    <3>1. CASE Bcast
      <4>1. bcasts'[w] = Append(bcasts[w], ret)
        BY <3>1 DEF ManagerLeave
      <4>2. bcasts[w] \in Seq(Seq(Results \cup {NULL})) /\ ret \in Seq(Results \cup {NULL})
        BY DEF TypeOK
      <4>3. QED
        BY <2>3, <3>1, <4>1, <4>2, ShortSequences
    <3>2. CASE ~ Bcast
      BY <2>3, <3>2 DEF ManagerLeave
    <3>3. QED
      BY <3>1, <3>2
  <2>5. ChannelsOK(w)'
    BY <1>1, <2>1 DEF ChannelsOK, Left
  <2>6. StageOK(w)'
    BY <1>1, <2>1, <2>3, <2>4 DEF StageOK, SameStage, Left
  <2>7. QED
    BY <2>5, <2>6
<1>4. QED
  BY <1>1, <1>3 DEF CallsInv

\* The manager goes on to the next call: workers that were a call ahead are in
\* the same, the others are behind until they have joined the broadcast.
LEMMA ManagerGoesOnInCalls ==
  ASSUME TypeOK, CallsInv, ManagerGoesOn
  PROVE  CallsInv'
<1>1. /\ mpc = "return" /\ UNCHANGED <<wpc, wcall, toM, toW, bcasts>>
      /\ mcall < Calls => mpc' = "enter" /\ mcall' = mcall + 1
      /\ ~ (mcall < Calls) => mpc' = "done" /\ mcall' = mcall
      /\ mcall \in 1..Calls /\ Calls \in Nat
  BY CallsAssumption DEF ManagerGoesOn, wvars, TypeOK
<1>2. ASSUME NEW w \in Workers PROVE ChannelsOK(w)' /\ StageOK(w)'
  <2>1. ChannelsOK(w) /\ StageOK(w) /\ wcall[w] \in 1..Calls
    BY DEF CallsInv, TypeOK
  <2>2. ChannelsOK(w)'
    BY <1>1, <2>1 DEF ChannelsOK, Left
  <2>3. CASE mcall < Calls
    <3>1. CASE SameStage(w)
      <4>1. wpc[w] # "done"
        BY <2>1, <2>3, <3>1 DEF StageOK, SameStage
      <4>2. wcall'[w] = mcall' - 1
        BY <1>1, <2>3, <3>1 DEF SameStage
      <4>3. QED
        BY <1>1, <2>1, <2>2, <2>3, <3>1, <4>1, <4>2 DEF StageOK, SameStage, Behind
    <3>2. CASE Ahead(w)
      BY <1>1, <2>1, <2>2, <2>3, <3>2 DEF StageOK, SameStage, Ahead, Asking
    <3>3. QED
      BY <1>1, <2>1, <3>1, <3>2 DEF StageOK, Behind
  <2>4. CASE ~ (mcall < Calls)
    <3>1. SameStage(w)
      BY <1>1, <2>1, <2>4 DEF StageOK, Ahead, Behind
    <3>2. QED
      BY <1>1, <2>1, <2>2, <2>4, <3>1 DEF StageOK, SameStage
  <2>5. QED
    BY <2>3, <2>4
<1>3. QED
  BY <1>1, <1>2 DEF CallsInv

LEMMA BarrierInCalls ==
  ASSUME TypeOK, SameCall, CallsInv, PassBarrier
  PROVE  CallsInv'
<1>1. /\ mpc = "return" /\ UNCHANGED <<toM, toW, bcasts>> /\ mcall \in 1..Calls /\ Calls \in Nat
  BY CallsAssumption DEF PassBarrier, TypeOK
<1>2. ASSUME NEW w \in Workers
      PROVE  wpc[w] = "return" /\ wcall[w] = mcall /\ toM[w] = <<>> /\ toW[w] = <<>> /\ bcasts[w] = <<>>
  <2>1. wpc[w] = "return" /\ wcall[w] = mcall /\ ChannelsOK(w) /\ StageOK(w)
    BY DEF PassBarrier, SameCall, CallsInv
  <2>2. SameStage(w)
    BY <1>1, <2>1 DEF StageOK, Ahead, Behind
  <2>3. QED
    BY <1>1, <2>1, <2>2 DEF SameStage, ChannelsOK, Left
<1>3. CASE mcall < Calls
  <2>1. /\ mpc' = "enter" /\ mcall' = mcall + 1
        /\ \A w \in Workers : wpc'[w] = "top" /\ wcall'[w] = mcall'
    BY <1>2, <1>3 DEF PassBarrier
  <2>2. QED
    BY <1>1, <1>2, <2>1 DEF CallsInv, ChannelsOK, StageOK, SameStage, Asking, Left
<1>4. CASE ~ (mcall < Calls)
  <2>1. mpc' = "done" /\ mcall' = mcall /\ \A w \in Workers : wpc'[w] = "done" /\ wcall'[w] = wcall[w]
    BY <1>4 DEF PassBarrier
  <2>2. QED
    BY <1>1, <1>2, <1>4, <2>1 DEF CallsInv, ChannelsOK, StageOK, SameStage, Left
<1>5. QED
  BY <1>3, <1>4

------------------------------------------------------------------------------
(* The theorems.                                                           *)

LEMMA CallsInit == Init => TypeOK /\ SameCall /\ CallsInv
<1>1. SUFFICES ASSUME Init PROVE TypeOK /\ SameCall /\ CallsInv
  OBVIOUS
<1>2. TypeOK /\ SameCall
  BY <1>1, CardinalityOfWorkers, CallsAssumption DEF Init, TypeOK, SameCall
<1>3. CallsInv
  BY <1>1 DEF Init, CallsInv, ChannelsOK, StageOK, SameStage, Asking, Left
<1>4. QED
  BY <1>2, <1>3

LEMMA CallsStep ==
  ASSUME Bcast \/ Barrier, TypeOK, SameCall, CallsInv, [Next]_vars
  PROVE  TypeOK' /\ SameCall' /\ CallsInv'
<1>1. TypeOK' /\ SameCall'
  BY TypeStep
<1>2. CASE UNCHANGED vars
  <2>1. UNCHANGED <<mpc, mcall, closed, wpc, wcall, toM, toW, bcasts>>
    BY <1>2 DEF vars, mvars, wvars
  <2>2. CallsInv'
    BY <2>1 DEF CallsInv, ChannelsOK, StageOK, SameStage, Ahead, Behind, Asking, Left, Counted
  <2>3. QED
    BY <1>1, <2>2
<1>3. CASE ManagerStep
  BY <1>1, <1>3, EnterInCalls, HandOutInCalls, CollectInCalls, CloseInCalls, LeaveInCalls,
     ManagerGoesOnInCalls DEF ManagerStep
<1>4. ASSUME NEW w \in Workers, WorkerStep(w) PROVE CallsInv'
  BY <1>4, AskInCalls, AnswerInCalls, RunInCalls, ExitInCalls, ResultInCalls, WorkerGoesOnInCalls
     DEF WorkerStep
<1>5. CASE PassBarrier
  BY <1>1, <1>5, BarrierInCalls
<1>6. QED
  BY <1>1, <1>2, <1>3, <1>4, <1>5 DEF Next, Terminating

\* With the broadcast or the barrier, whatever the number of workers and calls
\* and whatever FUN does: a worker evaluates FUN of its own call only for a
\* manager that is in the loop of that call.
THEOREM CallsKeepApart ==
  ASSUME Bcast \/ Barrier
  PROVE  Spec => []CallsDoNotMix
<1>1. Init => TypeOK /\ SameCall /\ CallsInv
  BY CallsInit
<1>2. TypeOK /\ SameCall /\ CallsInv /\ [Next]_vars => (TypeOK /\ SameCall /\ CallsInv)'
  BY CallsStep
<1>3. TypeOK /\ CallsInv => CallsDoNotMix
  BY DEF CallsInv, CallsDoNotMix, StageOK, SameStage, Ahead, Behind, Asking, TypeOK
<1>4. QED
  BY <1>1, <1>2, <1>3, PTL DEF Spec

\* Under the same conditions closed.workers never exceeds the number of workers
\* that have left their loop in the manager's present call.
THEOREM CountedHaveLeft ==
  ASSUME Bcast \/ Barrier
  PROVE  Spec => []ClosedMeansLeft
<1>1. Init => TypeOK /\ SameCall /\ CallsInv
  BY CallsInit
<1>2. TypeOK /\ SameCall /\ CallsInv /\ [Next]_vars => (TypeOK /\ SameCall /\ CallsInv)'
  BY CallsStep
<1>3. CallsInv => ClosedMeansLeft
  <2>1. SUFFICES ASSUME CallsInv, mpc = "loop" PROVE ClosedMeansLeft
    BY DEF ClosedMeansLeft
  <2>2. PICK S : S = {w \in Workers : \/ wcall[w] > mcall
                                      \/ wcall[w] = mcall /\ wpc[w] \in {"left", "return", "done"}}
    OBVIOUS
  <2>3. Counted \in SUBSET S /\ S \in SUBSET Workers
    BY <2>2 DEF Counted, Left
  <2>4. IsFiniteSet(S)
    BY <2>3, WorkersAssumption, FS_Subset
  <2>5. Cardinality(Counted) <= Cardinality(S)
    BY <2>3, <2>4, FS_Subset
  <2>6. QED
    BY <2>1, <2>2, <2>5 DEF CallsInv, ClosedMeansLeft
<1>4. QED
  BY <1>1, <1>2, <1>3, PTL DEF Spec

\* With the barrier, whatever FUN does and whatever jobs are asked for: when the
\* manager's loop ends no message of the protocol is left in a channel, where a
\* later receive with anysource and anytag would take it.
THEOREM QuietAtReturn ==
  ASSUME Barrier
  PROVE  Spec => []ChannelsQuiet
<1>1. Init => TypeOK /\ SameCall /\ CallsInv
  BY CallsInit
<1>2. TypeOK /\ SameCall /\ CallsInv /\ [Next]_vars => (TypeOK /\ SameCall /\ CallsInv)'
  BY CallsStep
<1>3. TypeOK /\ SameCall /\ CallsInv => ChannelsQuiet
  <2>1. SUFFICES ASSUME TypeOK, SameCall, CallsInv, mpc = "return", NEW w \in Workers
                 PROVE  toM[w] = <<>> /\ toW[w] = <<>>
    BY DEF ChannelsQuiet
  <2>2. wcall[w] = mcall /\ mcall \in Int
    BY <2>1 DEF SameCall, TypeOK
  <2>3. SameStage(w)
    BY <2>1, <2>2 DEF CallsInv, StageOK, Ahead, Behind
  <2>4. wpc[w] \in {"left", "return", "done"} /\ toM[w] = <<>>
    BY <2>1, <2>3 DEF SameStage
  <2>5. QED
    BY <2>1, <2>4 DEF CallsInv, ChannelsOK, Left
<1>4. QED
  BY <1>1, <1>2, <1>3, PTL DEF Spec
=============================================================================
