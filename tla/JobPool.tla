------------------------------ MODULE JobPool ------------------------------
(***************************************************************************)
(* What a sequence of task.pull() calls promises the caller, with no word  *)
(* of workers or messages: the manager submits job ids, a result of each   *)
(* id appears at that id's place of the list, at any time and in any order *)
(* and from FUN of this very call, and the list is returned once it is     *)
(* complete.                                                               *)
(***************************************************************************)
EXTENDS RList

CONSTANTS
  JobLists,   \* the vectors of ids that may be submitted
  Calls,      \* the number of calls
  Kinds       \* the ways a job may end

VARIABLES phase, call, ids, results

vars == <<phase, call, ids, results>>

Wanted == {ids[i] : i \in 1..Len(ids)}

Largest(s) == CHOOSE m \in {s[i] : i \in 1..Len(s)} : \A i \in 1..Len(s) : s[i] <= m

Submit(s) ==
  /\ phase = "idle"
  /\ s # <<>> /\ \A i \in 1..Len(s) : s[i] > 0
  /\ phase' = "open"
  /\ ids' = s
  /\ results' = EmptyList(Largest(s))
  /\ UNCHANGED call

\* An id listed twice may be stored twice.
Store(j) ==
  /\ phase = "open"
  /\ j \in Wanted
  /\ \E k \in Kinds :
       results' = [results EXCEPT ![j] = [call |-> call, jid |-> j, kind |-> k]]
  /\ UNCHANGED <<phase, call, ids>>

Return ==
  /\ phase = "open"
  /\ \A j \in Wanted : results[j] # NULL
  /\ phase' = "returned"
  /\ UNCHANGED <<call, ids, results>>

NextCall ==
  /\ phase = "returned"
  /\ call < Calls
  /\ call' = call + 1
  /\ phase' = "idle"
  /\ UNCHANGED <<ids, results>>

Init == phase = "idle" /\ call = 1 /\ ids = <<>> /\ results = <<>>

Next ==
  \/ \E s \in JobLists : Submit(s)
  \/ \E j \in Wanted : Store(j)
  \/ Return
  \/ NextCall

\* No job is left behind and every call returns.
Fairness == WF_vars(\E s \in JobLists : Submit(s)) /\ WF_vars(NextCall) /\ WF_vars(Return)
            /\ WF_vars(\E j \in Wanted : results[j] = NULL /\ Store(j))

Spec == Init /\ [][Next]_vars /\ Fairness
=============================================================================
