--------------------------- MODULE MCCollectives ----------------------------
EXTENDS Collectives, TLC

Fn(fn, root, op, x) == [fn |-> fn, root |-> root, op |-> op, n |-> 0, x |-> x]

\* The elements of rank r: no two ranks have one in common.
Numbers(r, n) == [i \in 1..n |-> 10 * r + i]
Logicals(r, n) == [i \in 1..n |-> (r + i) % 2]
Elements(type, r, n) == IF type = "logical" THEN Logicals(r, n) ELSE Numbers(r, n)

V(type, n) == [r \in Ranks |-> Vector(type, Elements(type, r, n))]
A(type, dim) == [r \in Ranks |-> Object("array", type, dim, Elements(type, r, Product(dim)))]
Nothing == [r \in Ranks |-> Null]
\* Rank 0 has x and the others have y.
Mix(x, y) == [r \in Ranks |-> IF r = 0 THEN x[r] ELSE y[r]]

\* Arguments that differ in class, type and length from rank to rank; the arrays
\* of one call have the same number of dimensions.
Uneven == [r \in Ranks |-> Vector("integer", Numbers(r, r))]
Bands(type) ==
  [r \in Ranks |-> Object("array", type, <<r + 1, 1>>, Elements(type, r, r + 1))]
Arguments ==
  {Uneven, Nothing, Bands("double"), Bands("integer"), Bands("logical"),
   A("double", <<0, 2>>), A("integer", <<2>>), Mix(A("integer", <<0, 1>>), Bands("integer")),
   Mix(A("double", <<2, 1>>), Bands("integer")), Mix(A("integer", <<2>>), Uneven),
   Mix(Nothing, A("double", <<1>>))}

FromOthers == {Uneven, Bands("double"), Bands("integer"), Mix(Nothing, A("double", <<1>>))}
Bcasts == {Fn("bcast", 0, NoOp, x) : x \in Arguments} \cup {Fn("bcast", 1, NoOp, x) : x \in FromOthers}
Gathers == {Fn("gather", 0, NoOp, x) : x \in Arguments} \cup {Fn("gather", 2, NoOp, x) : x \in FromOthers}
Allgathers == {Fn("allgather", NoRoot, NoOp, x) : x \in Arguments}

\* Only the source has a list.
Scattered(root, x) == [r \in Ranks |-> IF r = root THEN List(x) ELSE Null]
Lists == {[i \in 1..Size |-> x[i - 1]] : x \in Arguments}
Scatters ==
  {Fn("scatter", 1, NoOp, Scattered(1, x)) :
     x \in Lists \cup {[i \in 1..n |-> Null] : n \in {Size - 1, Size + 1}}}

\* Vectors and arrays of one length, and of one type or several.
Operands ==
  {V("integer", 2), V("double", 4), V("logical", 1), V("integer", 0),
   Mix(V("integer", 2), V("double", 2)), Mix(V("logical", 2), V("integer", 2)),
   A("double", <<2, 2>>), A("integer", <<0>>), Mix(A("integer", <<2>>), V("integer", 2)),
   Mix(A("double", <<1, 2>>), A("integer", <<2, 1>>))}
Allreduces == {Fn("allreduce", NoRoot, op, x) : op \in {"sum", "max", "land"}, x \in Operands}
Reduces(dest) == {Fn("reduce", dest, op, x) : op \in {"sum", "land"}, x \in Operands}

\* Vectors of no, one and several segments (MaxLen = 3).
Vectors == {V("integer", 0), V("double", 3), V("integer", 4), V("double", 7)}
Typed ==
  {Fn("allgather.vector", NoRoot, NoOp, x) : x \in Vectors}
  \cup {Fn("gather.vector", root, NoOp, x) : root \in {0, 1}, x \in Vectors}
  \cup {[fn |-> "scatter.vector", root |-> root, op |-> NoOp, n |-> n, x |-> V("integer", n * Size)] :
          root \in {0, 2}, n \in {0, 2, 3, 5, 6}}

\* Each call on its own, and calls one after the other in which a rank that
\* leaves one early can be in the next.
MCPrograms ==
  {<<a>> : a \in Bcasts \cup Gathers \cup Allgathers \cup Scatters \cup Allreduces
                 \cup Reduces(0) \cup Typed}
  \cup {<<Fn("gather", 0, NoOp, x), Fn("bcast", 0, NoOp, Uneven), Fn("gather", 1, NoOp, Uneven)>> :
          x \in {Bands("double"), Uneven}}
  \cup {<<Fn("reduce", 0, "sum", V("double", 4)), Fn("scatter", 2, NoOp, Scattered(2, x))>> :
          x \in {[i \in 1..Size |-> Bands("double")[i - 1]]}}

\* man/aa_reduce-method.Rd:30: rank.dest.
MCReduce == {<<a>> : a \in Reduces(1)}
=============================================================================
