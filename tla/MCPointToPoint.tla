--------------------------- MODULE MCPointToPoint ---------------------------
EXTENDS PointToPoint

CONSTANTS s1, s2

Object(tag, type, len) == [tag |-> tag, type |-> type, len |-> len, check |-> TRUE]
Bare(tag, type, len) == [tag |-> tag, type |-> type, len |-> len, check |-> FALSE]
Call(source, tag, method, buffer) ==
  [source |-> source, tag |-> tag, method |-> method, buffer |-> buffer, check |-> TRUE]
BareCall(source, tag, method, buffer) ==
  [source |-> source, tag |-> tag, method |-> method, buffer |-> buffer, check |-> FALSE]
Vector(type, len) == [type |-> type, len |-> len]

\* Vectors of no, exactly one and several segments (MaxLen = 3).
Checked ==
  s1 :> <<Object(1, "integer", 7), Object(1, "raw.object", 2), Object(2, "integer", 6)>>
  @@ s2 :> <<Object(1, "integer", 4), Object(1, "double", 0)>>

\* The receiver names its source and takes the messages as they come: lazily
\* (Cases 1 and 2), from the default method with a vector (Case 3), from a
\* typed method without (Cases 4 and 5) and with a vector (Case 6).
Lazy == {Call(s, AnyTag, "default", NoBuffer) : s \in {s1, s2}}
InOrder ==
  [objects |-> Checked,
   recvs   |-> Lazy \cup {Call(s1, AnyTag, "default", Vector("raw", 2)),
                          Call(s2, AnyTag, "default", Vector("integer", 7)),
                          Call(s1, AnyTag, "integer", Vector("integer", 6)),
                          Call(s2, AnyTag, "integer", NoBuffer)}]

\* The receiver picks by tag, out of the order of sending.
ByTag ==
  [objects |-> Checked,
   recvs   |-> {Call(s1, t, "default", NoBuffer) : t \in {1, 2}}
               \cup {Call(s2, AnyTag, "integer", Vector("integer", 2)),
                     Call(s2, 1, "default", NoBuffer)}]

\* With and without the handshake, told apart by tags: 1 with, 2 serialized
\* objects and 3 integers without; without it the source may be a wildcard.
Mixed ==
  [objects |-> s1 :> <<Bare(2, "raw.object", 3), Object(1, "double", 4),
                       Bare(3, "integer", 5), Bare(2, "raw.object", 1)>>
               @@ s2 :> <<Bare(2, "raw.object", 2), Bare(2, "raw.object", 3)>>,
   recvs   |-> {BareCall(AnySource, 2, "default", NoBuffer),
                BareCall(s1, 2, "default", NoBuffer),
                BareCall(s2, AnyTag, "default", NoBuffer),
                BareCall(AnySource, 3, "integer", Vector("integer", 5)),
                Call(AnySource, 1, "default", NoBuffer)}]

MCPrograms == {InOrder, ByTag, Mixed}
ASSUME ProgramsAgree == \A p \in MCPrograms : Agreed(p)

\* A program that is not Agreed and breaks NeverBroken; no run is spent on it.
\* man/dd_sourcetag.Rd:45-57: every rank but 0 sends an integer(1) and rank 0
\* receives from any source with any tag.
MCAny ==
  {[objects |-> s1 :> <<Object(11, "integer", 1)>> @@ s2 :> <<Object(12, "integer", 1)>>,
    recvs   |-> {Call(AnySource, AnyTag, "integer", Vector("integer", 1))}]}
=============================================================================
