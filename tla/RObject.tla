------------------------------ MODULE RObject -------------------------------
(***************************************************************************)
(* R objects, as far as the collectives tell them apart: the class, the    *)
(* typeof(), the dim() and the elements, which are numbers (0 and 1 for a  *)
(* logical) or, in a list, objects.                                        *)
(***************************************************************************)
EXTENDS Integers, Sequences, SequencesExt

CONSTANT Size   \* comm.size()

ASSUME SizeAssumption == Size \in Nat \ {0}

Ranks == 0..(Size - 1)

Object(class, type, dim, data) == [class |-> class, type |-> type, dim |-> dim, data |-> data]
Null == Object("NULL", "NULL", <<>>, <<>>)
List(s) == Object("list", "list", <<>>, s)
Vector(type, data) == Object("vector", type, <<>>, data)
Garbage == Object("garbage", "raw", <<>>, <<>>)

IsArray(x) == x.class = "array"
Flag(b) == IF b THEN 1 ELSE 0

\* The elements of op: what a reduction makes of one number of every rank.
Total(s) == LET T[i \in 0..Len(s)] == IF i = 0 THEN 0 ELSE T[i - 1] + s[i] IN T[Len(s)]
Combine(op, s) ==
  CASE op = "sum" -> Total(s)
    [] op = "max" -> CHOOSE m \in ToSet(s) : \A v \in ToSet(s) : v <= m
    [] op = "min" -> CHOOSE m \in ToSet(s) : \A v \in ToSet(s) : m <= v
    [] op = "land" -> Flag(\A v \in ToSet(s) : v # 0)
    [] op = "lor" -> Flag(\E v \in ToSet(s) : v # 0)
=============================================================================
