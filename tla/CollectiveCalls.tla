-------------------------- MODULE CollectiveCalls ---------------------------
(***************************************************************************)
(* The R functions bcast(), gather(), allgather(), scatter(), reduce() and *)
(* allreduce() of an object: which C function a rank calls next, given its *)
(* own argument x and what the calls before returned (got), or what it     *)
(* returns.  A function that ends in a call of another one goes on with    *)
(* the rest of got.  Ranks see nothing of each other but got.              *)
(***************************************************************************)
EXTENDS LongVectors

------------------------------------------------------------------------------
(* Serialized objects, and vectors that hold those of all ranks            *)

\* serialize() and unserialize(): more bytes for a larger object, and only all
\* bytes of one object, in order, make it again.
Serialize(x) == [i \in 1..(2 + Len(x.data)) |-> <<x, i>>]
Unserialize(raw) ==
  IF raw # <<>> /\ raw = Serialize(raw[1][1]) THEN raw[1][1] ELSE Garbage

Product(s) == LET P[i \in 0..Len(s)] == IF i = 0 THEN 1 ELSE P[i - 1] * s[i] IN P[Len(s)]

\* ret[(displs[i] + 1):displs[i + 1]], where a:b runs downwards if b < a.
Piece(ret, counts, i) ==
  LET d == Total(SubSeq(counts, 1, i - 1))
  IN IF counts[i] > 0 THEN SubSeq(ret, d + 1, d + counts[i])
     ELSE [k \in 1..2 |-> IF d + 2 - k \in DOMAIN ret THEN ret[d + 2 - k] ELSE 0]

Return(x) == [mpi |-> "return", value |-> x]
Stop == [mpi |-> "stop", value |-> Null]

------------------------------------------------------------------------------
(* bcast()                                                                 *)

BcastObject(x, root, r, got) ==
  CASE Len(got) = 0 -> BcastCall("integer", root, <<IF r = root THEN Len(Serialize(x)) ELSE 0>>)
    [] Len(got) = 1 -> BcastCall("raw", root, IF r = root THEN Serialize(x)
                                              ELSE [i \in 1..got[1][1] |-> 0])
    [] OTHER -> Return(IF r = root THEN x ELSE Unserialize(got[2]))

\* The elements of an array whose type has been agreed on.
BcastElements(type, x, dim, root, r, got) ==
  IF got = <<>>
  THEN BcastCall(type, root, IF r = root THEN x.data ELSE [i \in 1..Product(dim) |-> 0])
  ELSE Return(IF r = root THEN x ELSE Object("array", type, dim, got[1]))

\* The source asks "is it double?" and then, if not, "is it integer?".
BcastArray(x, root, r, got) ==
  LET say(v, n) == BcastCall("integer", root, IF r = root THEN v ELSE [i \in 1..n |-> 0])
  IN CASE Len(got) = 0 -> say(<<Len(x.dim)>>, 1)
       [] Len(got) = 1 -> say(x.dim, got[1][1])
       [] Len(got) = 2 -> say(<<Flag(x.type = "double")>>, 1)
       [] Len(got) > 2 /\ got[3][1] # 0 ->
            BcastElements("double", x, got[2], root, r, SubSeq(got, 4, Len(got)))
       [] Len(got) = 3 /\ got[3][1] = 0 -> say(<<Flag(x.type = "integer")>>, 1)
       [] Len(got) > 3 /\ got[3][1] = 0 /\ got[4][1] # 0 ->
            BcastElements("integer", x, got[2], root, r, SubSeq(got, 5, Len(got)))
       [] OTHER -> BcastObject(x, root, r, SubSeq(got, 5, Len(got)))

\* The question whether x is an array goes out from the default rank.source.
Bcast_OwnRoot(x, root, r, got) ==
  CASE got = <<>> -> BcastCall("integer", 0, <<Flag(IsArray(x))>>)
    [] got # <<>> /\ IsArray(x) -> BcastArray(x, root, r, Tail(got))
    [] OTHER -> BcastObject(x, root, r, Tail(got))
Bcast(x, root, r, got) ==
  CASE got = <<>> -> BcastCall("integer", 0, <<IF r = root THEN Flag(IsArray(x)) ELSE 0>>)
    [] got # <<>> /\ got[1][1] # 0 -> BcastArray(x, root, r, Tail(got))
    [] OTHER -> BcastObject(x, root, r, Tail(got))

------------------------------------------------------------------------------
(* gather() and allgather()                                                *)

AllSay(b) == AllreduceCall("integer", "sum", <<Flag(b)>>)
AllSaid(got) == got # <<>> /\ got[1][1] = Size

\* x.count and the objects a rank puts together from what all ranks sent.
ArrayDim(dims, n, i) == SubSeq(dims, (i - 1) * n + 1, i * n)
ArrayCounts(dims, n) == [i \in 1..Size |-> Product(ArrayDim(dims, n, i))]
Arrays(type, dims, n, ret) ==
  List([i \in 1..Size |->
    Object("array", type, ArrayDim(dims, n, i), Piece(ret, ArrayCounts(dims, n), i))])
Objects(counts, ret) == List([i \in 1..Size |-> Unserialize(Piece(ret, counts, i))])

GatherObject(x, root, r, got) ==
  CASE Len(got) = 0 -> AllgatherCall("integer", <<Len(Serialize(x))>>)
    [] Len(got) = 1 -> GathervCall("raw", root, Serialize(x), got[1])
    [] OTHER -> Return(IF r = root THEN Objects(got[1], got[2]) ELSE Null)

GatherTyped(type, x, root, r, got) ==
  LET n == Len(x.dim)
  IN CASE Len(got) = 0 -> AllgatherCall("integer", x.dim)
       [] Len(got) = 1 -> GathervCall(type, root, x.data, ArrayCounts(got[1], n))
       [] OTHER -> Return(IF r = root THEN Arrays(type, got[1], n, got[2]) ELSE Null)

GatherArray(x, root, r, got) ==
  LET rest == Tail(got)
  IN CASE got = <<>> -> AllSay(x.type = "double" /\ x.data # <<>>)
       [] AllSaid(got) -> GatherTyped("double", x, root, r, rest)
       [] ~ AllSaid(got) /\ Len(got) = 1 -> AllSay(x.type = "integer" /\ x.data # <<>>)
       [] ~ AllSaid(got) /\ Len(got) > 1 /\ AllSaid(rest) ->
            GatherTyped("integer", x, root, r, Tail(rest))
       [] OTHER -> GatherObject(x, root, r, Tail(rest))

Gather(x, root, r, got) ==
  CASE got = <<>> -> AllSay(IsArray(x))
    [] AllSaid(got) -> GatherArray(x, root, r, Tail(got))
    [] OTHER -> GatherObject(x, root, r, Tail(got))

AllgatherObject(x, got) ==
  CASE Len(got) = 0 -> AllgatherCall("integer", <<Len(Serialize(x))>>)
    [] Len(got) = 1 -> AllgathervCall("raw", Serialize(x), got[1])
    [] OTHER -> Return(Objects(got[1], got[2]))

AllgatherTyped(type, x, got) ==
  LET n == Len(x.dim)
  IN CASE Len(got) = 0 -> AllgatherCall("integer", x.dim)
       [] Len(got) = 1 -> AllgathervCall(type, x.data, ArrayCounts(got[1], n))
       [] OTHER -> Return(Arrays(type, got[1], n, got[2]))

AllgatherArray(x, got) ==
  LET rest == Tail(got)
  IN CASE got = <<>> -> AllSay(x.type = "double" /\ x.data # <<>>)
       [] AllSaid(got) -> AllgatherTyped("double", x, rest)
       [] ~ AllSaid(got) /\ Len(got) = 1 -> AllSay(x.type = "integer" /\ x.data # <<>>)
       [] ~ AllSaid(got) /\ Len(got) > 1 /\ AllSaid(rest) -> AllgatherTyped("integer", x, Tail(rest))
       [] OTHER -> AllgatherObject(x, Tail(rest))

\* Every rank decides alone, on what its own argument is.
Allgather_Alone(x, got) ==
  CASE got = <<>> -> AllSay(IsArray(x))
    [] got # <<>> /\ IsArray(x) -> AllgatherArray(x, Tail(got))
    [] OTHER -> AllgatherObject(x, Tail(got))
Allgather(x, got) ==
  CASE got = <<>> -> AllSay(IsArray(x))
    [] AllSaid(got) -> AllgatherArray(x, Tail(got))
    [] OTHER -> AllgatherObject(x, Tail(got))


------------------------------------------------------------------------------
(* scatter()                                                               *)

ScatterObject(x, root, r, got) ==
  CASE Len(got) = 0 ->
         BcastCall("integer", root,
           [i \in 1..Size |-> IF r = root THEN Len(Serialize(x.data[i])) ELSE 0])
    [] Len(got) = 1 ->
         ScattervCall("raw", root,
           IF r = root THEN FlattenSeq([i \in 1..Size |-> Serialize(x.data[i])]) ELSE <<>>,
           got[1], got[1][r + 1])
    [] OTHER -> Return(Unserialize(got[2]))

\* First the dimensions, then the elements, each after their lengths.
ScatterTyped(type, x, root, r, got) ==
  LET own(s) == IF r = root THEN s ELSE [i \in 1..Len(s) |-> 0]
      all(s) == IF r = root THEN FlattenSeq(s) ELSE <<>>
      dims == [i \in 1..Size |-> IF r = root THEN x.data[i].dim ELSE <<>>]
      elements == [i \in 1..Size |-> IF r = root THEN x.data[i].data ELSE <<>>]
  IN CASE Len(got) = 0 -> BcastCall("integer", root, own([i \in 1..Size |-> Len(dims[i])]))
       [] Len(got) = 1 -> ScattervCall("integer", root, all(dims), got[1], got[1][r + 1])
       [] Len(got) = 2 -> BcastCall("integer", root, own([i \in 1..Size |-> Len(elements[i])]))
       [] Len(got) = 3 -> ScattervCall(type, root, all(elements), got[3], got[3][r + 1])
       [] OTHER -> Return(Object("array", type, got[2], got[4]))

ScatterArray(x, root, r, got) ==
  LET all(type) == Flag(r = root /\ \A i \in 1..Size : x.data[i].type = type)
  IN CASE got = <<>> -> BcastCall("integer", root, <<all("double"), all("integer")>>)
       [] got # <<>> /\ got[1][1] # 0 -> ScatterTyped("double", x, root, r, Tail(got))
       [] got # <<>> /\ got[1][1] = 0 /\ got[1][2] # 0 ->
            ScatterTyped("integer", x, root, r, Tail(got))
       [] OTHER -> ScatterObject(x, root, r, Tail(got))

\* The source looks at x[[1]], ..., x[[COMM.SIZE]] before it checks the length
\* of x: "subscript out of bounds", which nobody else hears of.
Scatter(x, root, r, got) ==
  LET fits == x.class = "list" /\ Len(x.data) = Size
      arrays == fits /\ \A i \in 1..Size : IsArray(x.data[i])
  IN CASE got = <<>> /\ r = root /\ Len(x.data) < Size -> Stop
       [] got = <<>> /\ ~ (r = root /\ Len(x.data) < Size) ->
            BcastCall("integer", root, IF r = root THEN <<Flag(fits), Flag(arrays)>> ELSE <<0, 0>>)
       [] got # <<>> /\ got[1][1] = 0 -> Stop
       [] got # <<>> /\ got[1][1] # 0 /\ got[1][2] # 0 -> ScatterArray(x, root, r, Tail(got))
       [] OTHER -> ScatterObject(x, root, r, Tail(got))

------------------------------------------------------------------------------
(* allreduce() and reduce()                                                *)

LogicalOps == {"land", "lor", "lxor"}
IntegerOps == LogicalOps \cup {"band", "bor", "bxor"}

\* x after the check of op, what it tells the others about its type, and what
\* all make of what they are told.
Operand(x, op) ==
  IF op \in IntegerOps /\ x.type # "integer" THEN Object("vector", "integer", <<>>, x.data) ELSE x
Types(x) == <<Flag(x.type = "integer"), Flag(x.type = "double"), Flag(x.type = "logical")>>
CommonType(said) ==
  IF said[1] = Size \/ said[3] = Size THEN "integer" ELSE "double"
Reduced(said, op, ret) ==
  IF said[3] = Size \/ op \in LogicalOps
  THEN Object("vector", "logical", <<>>, [i \in DOMAIN ret |-> Flag(ret[i] # 0)])
  ELSE Object("vector", CommonType(said), <<>>, ret)

\* dim(ret) <- dim(x), which is an error if ret is NULL.
WithDim(ret, x) ==
  IF ret.mpi # "return" THEN ret
  ELSE IF ret.value = Null THEN Stop
  ELSE Return([ret.value EXCEPT !.class = "array", !.dim = x.dim])

AllreduceObject(x, op, got) ==
  LET y == Operand(x, op)
  IN CASE Len(got) = 0 -> AllreduceCall("integer", "sum", Types(y))
       [] Len(got) = 1 -> AllreduceCall(CommonType(got[1]), op, y.data)
       [] OTHER -> Return(Reduced(got[1], op, got[2]))

Allreduce(x, op, got) ==
  CASE got = <<>> -> AllSay(IsArray(x) /\ x.data # <<>>)
    [] AllSaid(got) -> WithDim(AllreduceObject(x, op, Tail(got)), x)
    [] OTHER -> AllreduceObject(x, op, Tail(got))

\* rank.dest <- as.integer(comm): the communicator number, whatever the caller's
\* rank.dest is.
COMM_WORLD == 0
ReduceObject(x, op, r, got) ==
  LET y == Operand(x, op)
      dest == COMM_WORLD
  IN CASE Len(got) = 0 -> AllreduceCall("integer", "sum", Types(y))
       [] Len(got) = 1 -> ReduceCall(CommonType(got[1]), op, dest, y.data)
       [] OTHER -> Return(IF r = dest THEN Reduced(got[1], op, got[2]) ELSE Null)

ReduceArray(x, op, root, r, got) ==
  IF r = root THEN WithDim(ReduceObject(x, op, r, got), x) ELSE ReduceObject(x, op, r, got)

Reduce(x, op, root, r, got) ==
  CASE got = <<>> -> AllSay(IsArray(x) /\ x.data # <<>>)
    [] AllSaid(got) -> ReduceArray(x, op, root, r, Tail(got))
    [] OTHER -> ReduceObject(x, op, r, Tail(got))

------------------------------------------------------------------------------
(* allgather(), gather() and scatter() with a vector as x.buffer            *)

AllgatherVector(x, got) ==
  IF got = <<>> THEN AllgatherCall(x.type, x.data) ELSE Return(Vector(x.type, got[1]))

GatherVector(x, root, r, got) ==
  IF got = <<>> THEN GatherCall(x.type, root, x.data)
  ELSE Return(IF r = root THEN Vector(x.type, got[1]) ELSE Null)

\* n is the length of x.buffer.
ScatterVector(x, n, root, got) ==
  IF got = <<>> THEN ScatterCall(x.type, root, x.data, n) ELSE Return(Vector(x.type, got[1]))

------------------------------------------------------------------------------
\* The next step of rank r in the call a, [fn, root, op, n, x], where x[r] is
\* the argument of rank r.
Step(a, r, got) ==
  LET x == a.x[r]
  IN CASE a.fn = "bcast" -> Bcast(x, a.root, r, got)
       [] a.fn = "gather" -> Gather(x, a.root, r, got)
       [] a.fn = "allgather" -> Allgather(x, got)
       [] a.fn = "scatter" -> Scatter(x, a.root, r, got)
       [] a.fn = "allreduce" -> Allreduce(x, a.op, got)
       [] a.fn = "reduce" -> Reduce(x, a.op, a.root, r, got)
       [] a.fn = "allgather.vector" -> AllgatherVector(x, got)
       [] a.fn = "gather.vector" -> GatherVector(x, a.root, r, got)
       [] a.fn = "scatter.vector" -> ScatterVector(x, a.n, a.root, got)
=============================================================================
