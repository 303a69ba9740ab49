-------------------------- MODULE CollectiveService -------------------------
(***************************************************************************)
(* What the collectives promise their callers (man/aa_*-method.Rd): each   *)
(* rank joins the calls of the program in order, and gets an answer that   *)
(* is a function of the arguments of all ranks, once the ranks it needs    *)
(* have joined.  Nothing is said of MPI calls, types and buffers.          *)
(***************************************************************************)
EXTENDS RObject

VARIABLES
  prog,     \* the calls all ranks make: a sequence of records [fn, root, op, n, x]
  joined,   \* joined[r]: how many of them r has begun
  out,      \* out[r]: the answers r has got
  halted    \* the ranks that stopped with an error

All(a) == [i \in 1..Size |-> a.x[i - 1]]

\* "The reduced object of the same type as x"; other mixtures become double.
ReducedType(a) ==
  CASE a.op \in {"land", "lor"} -> "logical"
    [] a.op \notin {"land", "lor"} /\ \A r \in Ranks : a.x[r].type = a.x[0].type -> a.x[0].type
    [] OTHER -> "double"
ReducedData(a) ==
  [i \in DOMAIN a.x[0].data |->
    LET v == Combine(a.op, [q \in 1..Size |-> a.x[q - 1].data[i]])
    IN IF ReducedType(a) = "logical" THEN Flag(v # 0) ELSE v]
Reduction(a, r) ==
  IF \A q \in Ranks : IsArray(a.x[q]) /\ a.x[q].data # <<>>
  THEN Object("array", ReducedType(a), a.x[r].dim, ReducedData(a))
  ELSE Vector(ReducedType(a), ReducedData(a))

AllData(a) == FlattenSeq([i \in 1..Size |-> a.x[i - 1].data])

\* "x: an object of length comm size to be scattered to all ranks".
Refused(a) ==
  a.fn = "scatter" /\ ~ (a.x[a.root].class = "list" /\ Len(a.x[a.root].data) = Size)

Answer(a, r) ==
  CASE a.fn = "bcast" -> a.x[a.root]
    [] a.fn = "allgather" -> List(All(a))
    [] a.fn = "gather" -> IF r = a.root THEN List(All(a)) ELSE Null
    [] a.fn = "scatter" -> a.x[a.root].data[r + 1]
    [] a.fn = "allreduce" -> Reduction(a, r)
    [] a.fn = "reduce" -> IF r = a.root THEN Reduction(a, r) ELSE Null
    [] a.fn = "allgather.vector" -> Vector(a.x[0].type, AllData(a))
    [] a.fn = "gather.vector" -> IF r = a.root THEN Vector(a.x[0].type, AllData(a)) ELSE Null
    [] a.fn = "scatter.vector" ->
         Vector(a.x[0].type, SubSeq(a.x[a.root].data, r * a.n + 1, (r + 1) * a.n))

\* Whose argument the answer of r is made of.
Sources(a, r) ==
  CASE a.fn \in {"bcast", "scatter", "scatter.vector"} -> {a.root}
    [] a.fn \in {"gather", "gather.vector", "reduce"} -> IF r = a.root THEN Ranks ELSE {r}
    [] a.fn \in {"allgather", "allgather.vector", "allreduce"} -> Ranks

Init ==
  /\ joined = [r \in Ranks |-> 0]
  /\ out = [r \in Ranks |-> <<>>]
  /\ halted = {}

Join(r) ==
  /\ r \notin halted
  /\ joined[r] = Len(out[r])
  /\ joined[r] < Len(prog)
  /\ joined' = [joined EXCEPT ![r] = @ + 1]
  /\ UNCHANGED <<prog, out, halted>>

Ready(r) ==
  /\ r \notin halted
  /\ joined[r] > Len(out[r])
  /\ \A q \in Sources(prog[joined[r]], r) : joined[q] >= joined[r]

Finish(r) ==
  /\ Ready(r)
  /\ ~ Refused(prog[joined[r]])
  /\ out' = [out EXCEPT ![r] = Append(@, Answer(prog[joined[r]], r))]
  /\ UNCHANGED <<prog, joined, halted>>

Halt(r) ==
  /\ Ready(r)
  /\ Refused(prog[joined[r]])
  /\ halted' = halted \cup {r}
  /\ UNCHANGED <<prog, joined, out>>

\* A source whose own list is refused need not tell the others first.
HaltAlone(r) ==
  /\ r \notin halted
  /\ joined[r] = Len(out[r])
  /\ joined[r] < Len(prog)
  /\ LET a == prog[joined[r] + 1] IN r = a.root /\ Refused(a)
  /\ halted' = halted \cup {r}
  /\ UNCHANGED <<prog, joined, out>>

Next == \E r \in Ranks : Join(r) \/ Finish(r) \/ Halt(r) \/ HaltAlone(r)

Spec == Init /\ [][Next]_<<prog, joined, out, halted>>
=============================================================================
