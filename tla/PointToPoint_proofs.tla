------------------------- MODULE PointToPoint_proofs -------------------------
(***************************************************************************)
(* send() and recv() deliver every object whole and in order, for any      *)
(* senders and any programs that are Agreed: however long the objects are, *)
(* whatever the receiver waits for first, with and without the handshake.  *)
(***************************************************************************)
EXTENDS PointToPoint, TLAPS

------------------------------------------------------------------------------
(* Offsets of segments                                                     *)

\* Where the segments of a vector begin.
Offsets == {k * MaxLen : k \in Nat}

LEMMA Product ==
  ASSUME NEW a \in Nat, NEW d \in Nat, NEW b \in Nat
  PROVE  /\ a * b \in Nat /\ d * b \in Nat
         /\ (a + d) * b = a * b + d * b /\ 1 * b = b /\ 0 * b = 0
OBVIOUS

\* One segment after the other, and nothing in between.
LEMMA OffsetsStep ==
  /\ 0 \in Offsets
  /\ \A o \in Offsets : o \in Nat /\ o + MaxLen \in Offsets
  /\ \A o, p \in Offsets : o < p => o + MaxLen <= p
<1>1. MaxLen \in Nat \ {0}
  BY MaxLenAssumption
<1>2. 0 \in Offsets
  <2>1. 0 = 0 * MaxLen
    BY <1>1
  <2>2. QED
    BY <2>1 DEF Offsets
<1>3. ASSUME NEW o \in Offsets PROVE o \in Nat /\ o + MaxLen \in Offsets
  <2>1. PICK k \in Nat : o = k * MaxLen
    BY DEF Offsets
  <2>2. k * MaxLen \in Nat /\ (k + 1) * MaxLen = k * MaxLen + 1 * MaxLen /\ 1 * MaxLen = MaxLen
    BY <1>1, Product
  <2>3. k + 1 \in Nat /\ o + MaxLen = (k + 1) * MaxLen
    BY <2>1, <2>2
  <2>4. QED
    BY <2>1, <2>2, <2>3 DEF Offsets
<1>4. ASSUME NEW o \in Offsets, NEW p \in Offsets, o < p PROVE o + MaxLen <= p
  <2>1. PICK k \in Nat : o = k * MaxLen
    BY DEF Offsets
  <2>2. PICK n \in Nat : p = n * MaxLen
    BY DEF Offsets
  <2>3. ASSUME n <= k PROVE FALSE
    <3>1. PICK d \in Nat : k = n + d
      <4>1. k - n \in Nat /\ k = n + (k - n)
        BY <2>3
      <4>2. QED
        BY <4>1
    <3>2. k * MaxLen = n * MaxLen + d * MaxLen /\ d * MaxLen \in Nat /\ n * MaxLen \in Nat
      BY <1>1, <3>1, Product
    <3>3. QED
      BY <1>4, <2>1, <2>2, <3>2
  <2>4. PICK d \in Nat : n = (k + 1) + d
    <3>1. n - (k + 1) \in Nat /\ n = (k + 1) + (n - (k + 1))
      BY <2>3
    <3>2. QED
      BY <3>1
  <2>5. n * MaxLen = (k + 1) * MaxLen + d * MaxLen /\ d * MaxLen \in Nat
    BY <1>1, <2>4, Product
  <2>6. (k + 1) * MaxLen = k * MaxLen + 1 * MaxLen /\ 1 * MaxLen = MaxLen /\ k * MaxLen \in Nat
    BY <1>1, Product
  <2>7. QED
    BY <1>1, <2>1, <2>2, <2>5, <2>6
<1>5. QED
  BY <1>2, <1>3, <1>4

------------------------------------------------------------------------------
(* Ordered lists                                                           *)

\* What the messages of a sender are: the header (-1) of an object, or its
\* segment from an offset on.  One after the other they are in this order.
Before(p, q) == p[1] < q[1] \/ (p[1] = q[1] /\ p[2] < q[2])

\* q lists the elements of W in order.
Lists(q, W) ==
  /\ \A k \in 1..Len(q) : q[k] \in W
  /\ \A p \in W : \E k \in 1..Len(q) : q[k] = p
  /\ \A j, k \in 1..Len(q) : j < k => Before(q[j], q[k])

LEMMA RemoveAtElements ==
  ASSUME NEW S, NEW q \in Seq(S), NEW k \in 1..Len(q)
  PROVE  /\ RemoveAt(q, k) \in Seq(S)
         /\ Len(RemoveAt(q, k)) = Len(q) - 1
         /\ \A j \in 1..(Len(q) - 1) : RemoveAt(q, k)[j] = IF j < k THEN q[j] ELSE q[j + 1]
<1> DEFINE a == SubSeq(q, 1, k - 1)
           b == SubSeq(q, k + 1, Len(q))
<1>1. a \in Seq(S) /\ Len(a) = k - 1 /\ \A j \in 1..(k - 1) : a[j] = q[j]
  OBVIOUS
<1>2. b \in Seq(S) /\ Len(b) = Len(q) - k /\ \A j \in 1..(Len(q) - k) : b[j] = q[k + j]
  OBVIOUS
<1>3. RemoveAt(q, k) = a \o b /\ Len(q) \in Nat
  BY DEF RemoveAt
<1> HIDE DEF a, b
<1>4. a \o b \in Seq(S) /\ Len(a \o b) = Len(q) - 1
  <2>1. a \in Seq(S) /\ b \in Seq(S)
    BY <1>1, <1>2
  <2>2. Len(a \o b) = Len(a) + Len(b) /\ a \o b \in Seq(S)
    BY <2>1
  <2>3. QED
    BY <1>1, <1>2, <1>3, <2>2
<1>5. ASSUME NEW j \in 1..(Len(q) - 1) PROVE (a \o b)[j] = IF j < k THEN q[j] ELSE q[j + 1]
  <2>1. CASE j < k
    <3>1. j \in 1..Len(a) /\ (a \o b)[j] = a[j]
      BY <1>1, <1>2, <2>1
    <3>2. QED
      BY <1>1, <2>1, <3>1
  <2>2. CASE ~ (j < k)
    <3>1. j - (k - 1) \in 1..(Len(q) - k) /\ k + (j - (k - 1)) = j + 1
      BY <2>2
    <3>2. (a \o b)[j] = b[j - (k - 1)]
      <4>1. j \in 1..(Len(a) + Len(b)) /\ ~ (j <= Len(a)) /\ j - Len(a) = j - (k - 1)
        BY <1>1, <1>2, <1>3, <2>2
      <4>2. \A i \in 1..(Len(a) + Len(b)) :
              (a \o b)[i] = IF i <= Len(a) THEN a[i] ELSE b[i - Len(a)]
        BY <1>1, <1>2
      <4>3. QED
        BY <4>1, <4>2
    <3>3. QED
      BY <1>2, <2>2, <3>1, <3>2
  <2>3. QED
    BY <1>3, <2>1, <2>2
<1>6. QED
  BY <1>3, <1>4, <1>5

\* A list without one of its elements.
LEMMA ListWithout ==
  ASSUME NEW q \in Seq(Nat \X Int), NEW W, Lists(q, W), NEW k \in 1..Len(q)
  PROVE  Lists(RemoveAt(q, k), W \ {q[k]})
<1> DEFINE r == RemoveAt(q, k)
<1>1. /\ Len(r) = Len(q) - 1 /\ Len(q) \in Nat
      /\ \A j \in 1..(Len(q) - 1) : r[j] = IF j < k THEN q[j] ELSE q[j + 1]
  <2>1. Len(q) \in Nat
    OBVIOUS
  <2>2. QED
    BY <2>1, RemoveAtElements
<1>2. \A j \in 1..Len(q) : q[j][1] \in Nat /\ q[j][2] \in Int
  OBVIOUS
<1>3. \A i, j \in 1..Len(q) : i < j => q[i] # q[j]
  <2>1. ASSUME NEW i \in 1..Len(q), NEW j \in 1..Len(q), i < j PROVE q[i] # q[j]
    <3>1. Before(q[i], q[j]) /\ q[i][1] \in Nat /\ q[i][2] \in Int
      BY <1>2, <2>1 DEF Lists
    <3>2. QED
      BY <3>1 DEF Before
  <2>2. QED
    BY <2>1
<1>4. \A j \in 1..Len(q) : j # k => q[j] # q[k]
  BY <1>3
<1> HIDE DEF r
<1>5. ASSUME NEW j \in 1..Len(r) PROVE r[j] \in W \ {q[k]}
  <2>1. CASE j < k
    <3>1. j \in 1..Len(q) /\ j # k /\ r[j] = q[j]
      BY <1>1, <2>1
    <3>2. QED
      BY <1>4, <3>1 DEF Lists
  <2>2. CASE ~ (j < k)
    <3>1. j + 1 \in 1..Len(q) /\ j + 1 # k /\ r[j] = q[j + 1]
      BY <1>1, <2>2
    <3>2. QED
      BY <1>4, <3>1 DEF Lists
  <2>3. QED
    BY <2>1, <2>2
<1>6. ASSUME NEW p \in W \ {q[k]} PROVE \E j \in 1..Len(r) : r[j] = p
  <2>1. PICK i \in 1..Len(q) : q[i] = p
    BY DEF Lists
  <2>2. i # k
    BY <2>1
  <2>3. CASE i < k
    <3>1. i \in 1..(Len(q) - 1) /\ i \in 1..Len(r)
      BY <1>1, <2>3
    <3>3. r[i] = q[i]
      BY <1>1, <2>3, <3>1
    <3>2. QED
      BY <2>1, <3>1, <3>3
  <2>4. CASE i > k
    <3>1. i - 1 \in 1..Len(r) /\ ~ (i - 1 < k) /\ (i - 1) + 1 = i
      BY <1>1, <2>4
    <3>2. r[i - 1] = q[i]
      BY <1>1, <3>1
    <3>3. QED
      BY <2>1, <3>1, <3>2
  <2>5. QED
    BY <2>2, <2>3, <2>4
<1>7. ASSUME NEW i \in 1..Len(r), NEW j \in 1..Len(r), i < j PROVE Before(r[i], r[j])
  <2> DEFINE n == Len(q)
  <2>0. n \in Nat /\ i \in 1..(n - 1) /\ j \in 1..(n - 1) /\ k \in 1..n
    BY <1>1
  <2>1. /\ r[i] = IF i < k THEN q[i] ELSE q[i + 1]
        /\ r[j] = IF j < k THEN q[j] ELSE q[j + 1]
    BY <1>1, <2>0
  <2>2. \A x, y \in 1..n : x < y => Before(q[x], q[y])
    BY DEF Lists
  <2> HIDE DEF n
  <2>3. CASE j < k
    <3>1. i \in 1..n /\ j \in 1..n /\ i < k
      BY <1>7, <2>0, <2>3
    <3>2. QED
      BY <1>7, <2>1, <2>2, <2>3, <3>1
  <2>4. CASE i < k /\ ~ (j < k)
    <3>1. i \in 1..n /\ j + 1 \in 1..n /\ i < j + 1
      BY <1>7, <2>0
    <3>2. QED
      BY <2>1, <2>2, <2>4, <3>1
  <2>5. CASE ~ (i < k)
    <3>1. i + 1 \in 1..n /\ j + 1 \in 1..n /\ i + 1 < j + 1 /\ ~ (j < k)
      BY <1>7, <2>0, <2>5
    <3>2. QED
      BY <2>1, <2>2, <2>5, <3>1
  <2>6. QED
    BY <2>3, <2>4, <2>5
<1>8. QED
  BY <1>5, <1>6, <1>7 DEF Lists, r

\* A list with one more element, after all of them.
LEMMA ListWith ==
  ASSUME NEW q \in Seq(Nat \X Int), NEW W, Lists(q, W), NEW p \in Nat \X Int,
         \A x \in W : Before(x, p)
  PROVE  Lists(Append(q, p), W \cup {p})
<1> DEFINE r == Append(q, p)
<1>1. /\ Len(q) \in Nat /\ Len(r) = Len(q) + 1 /\ r[Len(q) + 1] = p
      /\ \A j \in 1..Len(q) : r[j] = q[j]
  OBVIOUS
<1> HIDE DEF r
<1>2. \A j \in 1..Len(r) : j \in 1..Len(q) \/ j = Len(q) + 1
  BY <1>1
<1>3. ASSUME NEW j \in 1..Len(r) PROVE r[j] \in W \cup {p}
  BY <1>1, <1>2 DEF Lists
<1>4. ASSUME NEW x \in W \cup {p} PROVE \E j \in 1..Len(r) : r[j] = x
  <2>1. CASE x = p
    BY <1>1, <2>1
  <2>2. CASE x \in W
    <3>1. PICK j \in 1..Len(q) : q[j] = x
      BY <2>2 DEF Lists
    <3>2. j \in 1..Len(r) /\ r[j] = x
      BY <1>1, <3>1
    <3>3. QED
      BY <3>2
  <2>3. QED
    BY <2>1, <2>2
<1>5. ASSUME NEW i \in 1..Len(r), NEW j \in 1..Len(r), i < j PROVE Before(r[i], r[j])
  <2>1. i \in 1..Len(q) /\ r[i] = q[i] /\ q[i] \in W
    BY <1>1, <1>5 DEF Lists
  <2>2. CASE j \in 1..Len(q)
    BY <1>1, <1>5, <2>1, <2>2 DEF Lists
  <2>3. CASE j = Len(q) + 1
    BY <1>1, <2>1, <2>3
  <2>4. QED
    BY <1>2, <2>2, <2>3
<1>6. QED
  BY <1>3, <1>4, <1>5 DEF Lists, r

------------------------------------------------------------------------------
(* The invariant                                                           *)

\* Parts of objects: the messages that s sends altogether.
Segment(left) == IF left > MaxLen THEN MaxLen ELSE left

Parts(s) ==
  {p \in (1..Len(Objects[s])) \X ({-1} \cup Offsets) :
     IF p[2] = -1 THEN Objects[s][p[1]].check ELSE p[2] < Objects[s][p[1]].len}

AsMessage(s, p) ==
  [kind  |-> IF p[2] = -1 THEN "header" ELSE "data",
   id    |-> p[1],
   tag   |-> Objects[s][p[1]].tag,
   type  |-> Objects[s][p[1]].type,
   count |-> IF p[2] = -1 THEN Objects[s][p[1]].len ELSE Segment(Objects[s][p[1]].len - p[2])]

\* Where s is among its parts.
SenderOK(s) ==
  /\ next[s] \in 1..(Len(Objects[s]) + 1)
  /\ \/ sent[s] = -1
     \/ /\ next[s] <= Len(Objects[s])
        /\ sent[s] \in Offsets /\ sent[s] < Objects[s][next[s]].len

Posted(s, i, o) == i < next[s] \/ (i = next[s] /\ o < sent[s])
PostedUpTo(s, i, o) == i < next[s] \/ (i = next[s] /\ o <= sent[s])

\* What the receiver has taken of them.
HasGot(s, i) == \E k \in 1..Len(got) : got[k].from = s /\ got[k].id = i
Holds(s, i) == rpc \in {"data", "stopped"} /\ head.from = s /\ head.id = i
Taken(s, p) == HasGot(s, p[1]) \/ (Holds(s, p[1]) /\ p[2] < data.filled)

\* The rest is in the channel, in order.
Waiting(s) == {p \in Parts(s) : Posted(s, p[1], p[2]) /\ ~ Taken(s, p)}
Carries(s, q) ==
  /\ Lists(q, Waiting(s))
  /\ Len(chan[s]) = Len(q)
  /\ \A k \in 1..Len(q) : chan[s][k] = AsMessage(s, q[k])
ChannelOK(s) == \E q \in Seq(Nat \X Int) : Carries(s, q)

\* What recv() has returned is what was sent.
Faithful(g) ==
  /\ g.from \in Senders
  /\ g.id \in 1..(next[g.from] - 1)
  /\ g.type = Objects[g.from][g.id].type
  /\ g.len = Objects[g.from][g.id].len
  /\ g.whole = TRUE
Returned == [from : Senders, id : Nat, type : Types, len : Nat, whole : BOOLEAN]

\* The present call, and which objects it leaves to another sender or to later.
Calls == [source : Senders \cup {AnySource}, tag : Nat \cup {AnyTag},
          method : Methods, buffer : Buffers, check : BOOLEAN]
CallOK ==
  rpc # "idle" =>
    /\ call \in Calls
    /\ Suits(prog, call)
    /\ \E s \in Senders : \E i \in 1..Len(Objects[s]) : Answers(prog, call, s, i)

Alone(s) ==
  \A t \in Senders : \A j \in 1..Len(Objects[t]) : Answers(prog, call, t, j) => t = s
First(s, i) ==
  \A j \in 1..Len(Objects[s]) : j < i /\ Answers(prog, call, s, j) => HasGot(s, j)

\* Nothing of the object was received yet.
Empty == [origins |-> {}, filled |-> 0]
Fresh ==
  /\ ~ call.check /\ call.method # "default"
  /\ head = Unknown(call)
  /\ buf = call.buffer /\ want = buf.len
  /\ data = Empty

\* Object i of s was received up to an offset.
Holding(s, i) ==
  /\ head = [from |-> s, id |-> i, type |-> Objects[s][i].type]
  /\ Answers(prog, call, s, i)
  /\ ~ HasGot(s, i) /\ First(s, i)
  /\ want = 0 \/ (Alone(s) /\ data.filled \in Offsets)
  /\ buf.type = VectorType(Objects[s][i].type) /\ buf.len = Objects[s][i].len
  /\ data.origins \subseteq {<<s, i, "data">>}
  /\ data.filled \in Nat /\ want \in Nat /\ data.filled + want = Objects[s][i].len
  /\ PostedUpTo(s, i, data.filled)

Stopped(s, i) ==
  /\ head.from = s /\ head.id = i /\ data.filled = 0
  /\ PostedUpTo(s, i, 0)

ReceiverOK ==
  \/ rpc = "idle"
  \/ rpc = "header" /\ call.check /\ data = Empty
  \/ rpc = "probe" /\ ~ call.check /\ call.method = "default" /\ data = Empty
  \/ rpc = "data" /\ Fresh
  \/ rpc = "data" /\ \E s \in Senders : \E i \in 1..Len(Objects[s]) : Holding(s, i)
  \/ rpc = "stopped" /\ \E s \in Senders : \E i \in 1..Len(Objects[s]) : Stopped(s, i)

Messages == [kind : {"header", "data"}, id : Nat, tag : Nat, type : Types, count : Nat]
TypesOK ==
  /\ prog \in Programs /\ Agreed(prog)
  /\ chan \in [Senders -> Seq(Messages)]
  /\ next \in [Senders -> Nat]
  /\ sent \in [Senders -> Int]
  /\ got \in Seq(Returned)

MailInv ==
  /\ TypesOK
  /\ \A s \in Senders : SenderOK(s) /\ ChannelOK(s)
  /\ \A k \in 1..Len(got) : Faithful(got[k])
  /\ CallOK
  /\ ReceiverOK

\* The objects and the calls of a program
LEMMA ProgramTypes ==
  ASSUME prog \in Programs
  PROVE  /\ \A s \in Senders :
              /\ Objects[s] \in Seq([tag : Nat, type : Types, len : Nat, check : BOOLEAN])
              /\ Len(Objects[s]) \in Nat
              /\ \A i \in 1..Len(Objects[s]) :
                   /\ Objects[s][i] \in [tag : Nat, type : Types, len : Nat, check : BOOLEAN]
                   /\ Objects[s][i].tag \in Nat
                   /\ Objects[s][i].type \in Types
                   /\ Objects[s][i].len \in Nat
                   /\ Objects[s][i].check \in BOOLEAN
         /\ Recvs \subseteq Calls
<1> DEFINE Object == [tag : Nat, type : Types, len : Nat, check : BOOLEAN]
<1>1. prog \in [objects : [Senders -> Seq(Object)], recvs : SUBSET Calls]
  BY ProgramsAssumption DEF Calls
<1> HIDE DEF Object
<1>2. Objects \in [Senders -> Seq(Object)] /\ Recvs \in SUBSET Calls
  BY <1>1 DEF Objects, Recvs
<1>3. ASSUME NEW s \in Senders
      PROVE  /\ Objects[s] \in Seq(Object)
             /\ Len(Objects[s]) \in Nat
             /\ \A i \in 1..Len(Objects[s]) : Objects[s][i] \in Object
  <2>1. Objects[s] \in Seq(Object)
    BY <1>2
  <2>2. QED
    BY <2>1
<1>4. ASSUME NEW x \in Object
      PROVE  x.tag \in Nat /\ x.type \in Types /\ x.len \in Nat /\ x.check \in BOOLEAN
  BY DEF Object
<1>5. QED
  <2>1. ASSUME NEW s \in Senders, NEW i \in 1..Len(Objects[s])
        PROVE  /\ Objects[s][i] \in Object
               /\ Objects[s][i].tag \in Nat /\ Objects[s][i].type \in Types
               /\ Objects[s][i].len \in Nat /\ Objects[s][i].check \in BOOLEAN
    BY <1>3, <1>4
  <2>2. QED
    BY <1>2, <1>3, <2>1 DEF Object

LEMMA PartTypes ==
  ASSUME prog \in Programs, NEW s \in Senders, NEW p \in Parts(s)
  PROVE  /\ p = <<p[1], p[2]>> /\ p \in Nat \X Int
         /\ p[1] \in 1..Len(Objects[s]) /\ p[1] \in Nat /\ p[2] \in Int
         /\ p[2] = -1 => Objects[s][p[1]].check
         /\ p[2] # -1 => p[2] \in Offsets /\ p[2] \in Nat /\ p[2] < Objects[s][p[1]].len
         /\ AsMessage(s, p) \in Messages
<1>1. /\ p = <<p[1], p[2]>>
      /\ p[1] \in 1..Len(Objects[s]) /\ p[2] \in {-1} \cup Offsets
      /\ IF p[2] = -1 THEN Objects[s][p[1]].check ELSE p[2] < Objects[s][p[1]].len
  BY DEF Parts
<1>2. p[1] \in Nat /\ (p[2] # -1 => p[2] \in Offsets /\ p[2] \in Nat)
  BY <1>1, OffsetsStep
<1>3. -1 \in Int
  OBVIOUS
<1>4. p[2] \in Int
  BY <1>2, <1>3
<1>5. /\ Objects[s][p[1]].tag \in Nat /\ Objects[s][p[1]].type \in Types
      /\ Objects[s][p[1]].len \in Nat
  BY <1>1, ProgramTypes
<1>6. p[2] # -1 => Segment(Objects[s][p[1]].len - p[2]) \in Nat
  BY <1>1, <1>2, <1>5, MaxLenAssumption DEF Segment
<1>7. AsMessage(s, p) \in Messages
  BY <1>2, <1>5, <1>6 DEF AsMessage, Messages
<1>8. p \in Nat \X Int
  BY <1>1, <1>2, <1>4
<1>9. QED
  BY <1>1, <1>2, <1>4, <1>7, <1>8

------------------------------------------------------------------------------
(* The senders                                                             *)

\* A channel that nothing was added to or taken from.
LEMMA SameChannel ==
  ASSUME prog' = prog, NEW s \in Senders, ChannelOK(s), chan'[s] = chan[s],
         \A p \in Parts(s) : (Posted(s, p[1], p[2]) /\ ~ Taken(s, p))'
                               <=> Posted(s, p[1], p[2]) /\ ~ Taken(s, p)
  PROVE  ChannelOK(s)'
<1>1. PICK q \in Seq(Nat \X Int) : Carries(s, q)
  BY DEF ChannelOK
<1>2. Parts(s)' = Parts(s) /\ Objects' = Objects
  BY DEF Parts, Objects
<1>3. Waiting(s)' = Waiting(s)
  BY <1>2 DEF Waiting
<1>4. \A k \in 1..Len(q) : AsMessage(s, q[k])' = AsMessage(s, q[k])
  BY <1>2 DEF AsMessage
<1>5. Carries(s, q)'
  BY <1>1, <1>3, <1>4 DEF Carries
<1>6. QED
  BY <1>5 DEF ChannelOK

\* What was not sent was not taken.
LEMMA TakenWasPosted ==
  ASSUME MailInv, NEW s \in Senders, NEW p \in Parts(s), Taken(s, p)
  PROVE  Posted(s, p[1], p[2])
<1>1. prog \in Programs
  BY DEF MailInv, TypesOK
<1>2. p[1] \in Nat /\ p[2] \in Int /\ next[s] \in Nat /\ sent[s] \in Int
  BY <1>1, PartTypes DEF MailInv, TypesOK
<1>3. CASE HasGot(s, p[1])
  <2>1. PICK k \in 1..Len(got) : got[k].from = s /\ got[k].id = p[1]
    BY <1>3 DEF HasGot
  <2>2. got[k].id \in 1..(next[s] - 1)
    BY <2>1 DEF MailInv, Faithful
  <2>3. QED
    BY <1>2, <2>1, <2>2 DEF Posted
<1>4. CASE Holds(s, p[1]) /\ p[2] < data.filled
  <2>1. \E i \in 1..Len(Objects[s]) : head.id = i /\ PostedUpTo(s, i, data.filled) /\ data.filled \in Nat
    <3>1. CASE rpc = "data" /\ Fresh
      BY <1>4, <3>1, WildcardsAssumption DEF Holds, Fresh, Unknown
    <3>2. CASE rpc = "data" /\ \E t \in Senders : \E i \in 1..Len(Objects[t]) : Holding(t, i)
      BY <1>4, <3>2 DEF Holds, Holding
    <3>3. CASE rpc = "stopped" /\ \E t \in Senders : \E i \in 1..Len(Objects[t]) : Stopped(t, i)
      BY <1>4, <3>3 DEF Holds, Stopped
    <3>4. QED
      BY <1>4, <3>1, <3>2, <3>3 DEF MailInv, ReceiverOK, Holds
  <2>2. PostedUpTo(s, p[1], data.filled) /\ data.filled \in Nat
    BY <1>4, <2>1 DEF Holds
  <2>3. QED
    BY <1>2, <1>4, <2>2 DEF Posted, PostedUpTo
<1>5. QED
  BY <1>3, <1>4 DEF Taken

\* One more message, after all the others.
LEMMA OneMore ==
  ASSUME MailInv, NEW s \in Senders, NEW p \in Parts(s),
         prog' = prog, UNCHANGED rvars,
         chan' = [chan EXCEPT ![s] = Append(@, AsMessage(s, p))],
         \A x \in Parts(s) :
           /\ Posted(s, x[1], x[2])' <=> Posted(s, x[1], x[2]) \/ x = p
           /\ Posted(s, x[1], x[2]) => Before(x, p)
  PROVE  ChannelOK(s)'
<1>1. PICK q \in Seq(Nat \X Int) : Carries(s, q)
  BY DEF MailInv, ChannelOK
<1>2. Parts(s)' = Parts(s) /\ Objects' = Objects
  BY DEF Parts, Objects
<1>3. \A x \in Parts(s) : Taken(s, x)' <=> Taken(s, x)
  BY DEF rvars, Taken, HasGot, Holds
<1>4. p[1] \in Nat /\ p[2] \in Int /\ p \in Nat \X Int /\ AsMessage(s, p) \in Messages
  BY PartTypes DEF MailInv, TypesOK
<1>5. ~ Before(p, p)
  BY <1>4 DEF Before
<1>6. ~ Posted(s, p[1], p[2]) /\ ~ Taken(s, p)
  BY <1>5, TakenWasPosted
<1>7. Waiting(s)' = Waiting(s) \cup {p}
  BY <1>2, <1>3, <1>6 DEF Waiting
<1>8. \A x \in Waiting(s) : Before(x, p)
  BY DEF Waiting
<1>9. Lists(Append(q, p), Waiting(s)')
  <2>1. Lists(q, Waiting(s))
    BY <1>1 DEF Carries
  <2>2. Lists(Append(q, p), Waiting(s) \cup {p})
    BY <1>4, <1>8, <2>1, ListWith
  <2>3. QED
    BY <1>7, <2>2
<1>10. /\ chan[s] \in Seq(Messages) /\ chan'[s] = Append(chan[s], AsMessage(s, p))
       /\ Len(chan[s]) = Len(q) /\ Len(q) \in Nat
       /\ \A k \in 1..Len(q) : chan[s][k] = AsMessage(s, q[k])
  BY <1>1 DEF Carries, MailInv, TypesOK
<1>11. \A x : AsMessage(s, x)' = AsMessage(s, x)
  BY <1>2 DEF AsMessage
<1> DEFINE r == Append(q, p)
<1>12. r \in Seq(Nat \X Int) /\ Len(r) = Len(q) + 1 /\ r[Len(q) + 1] = p
  BY <1>4
<1>13. \A k \in 1..Len(q) : r[k] = q[k]
  OBVIOUS
<1>14. Len(chan'[s]) = Len(q) + 1 /\ chan'[s][Len(q) + 1] = AsMessage(s, p)
  BY <1>4, <1>10
<1>15. \A k \in 1..Len(q) : chan'[s][k] = AsMessage(s, q[k])
  BY <1>4, <1>10
<1> HIDE DEF r
<1>16. ASSUME NEW k \in 1..Len(r) PROVE chan'[s][k] = AsMessage(s, r[k])'
  <2>1. k \in 1..Len(q) \/ k = Len(q) + 1
    BY <1>10, <1>12
  <2>2. CASE k \in 1..Len(q)
    BY <1>11, <1>13, <1>15, <2>2
  <2>3. CASE k = Len(q) + 1
    BY <1>11, <1>12, <1>14, <2>3
  <2>4. QED
    BY <2>1, <2>2, <2>3
<1>17. Carries(s, r)'
  BY <1>9, <1>12, <1>14, <1>16 DEF Carries, r
<1>18. QED
  BY <1>12, <1>17 DEF ChannelOK

\* A step of a sender leaves the receiver as it is.
LEMMA SenderKeeps ==
  ASSUME MailInv, UNCHANGED <<prog, rvars>>,
         chan' \in [Senders -> Seq(Messages)],
         next' \in [Senders -> Nat], sent' \in [Senders -> Int],
         \A s \in Senders :
           /\ SenderOK(s)' /\ ChannelOK(s)'
           /\ next[s] <= next'[s]
           /\ next[s] = next'[s] => sent[s] <= sent'[s]
  PROVE  MailInv'
<1>1. /\ prog' = prog /\ rpc' = rpc /\ call' = call /\ head' = head /\ buf' = buf
      /\ want' = want /\ data' = data /\ got' = got /\ Objects' = Objects
  BY DEF rvars, Objects
<1>2. TypesOK'
  <2>1. \A c : Suits(prog, c)' <=> Suits(prog, c)
    BY <1>1 DEF Suits, Answers
  <2>2. prog \in Programs /\ Agreed(prog) /\ got \in Seq(Returned)
    BY DEF MailInv, TypesOK
  <2>3. Agreed(prog)'
    BY <1>1, <2>1, <2>2 DEF Agreed
  <2>4. QED
    BY <1>1, <2>2, <2>3 DEF TypesOK
<1>3. ASSUME NEW s \in Senders, NEW i \in Nat, NEW o \in Int, PostedUpTo(s, i, o)
      PROVE  PostedUpTo(s, i, o)'
  <2>1. /\ next[s] \in Nat /\ next'[s] \in Nat /\ sent[s] \in Int /\ sent'[s] \in Int
        /\ next[s] <= next'[s] /\ (next[s] = next'[s] => sent[s] <= sent'[s])
    BY DEF MailInv, TypesOK
  <2>2. QED
    BY <1>3, <2>1 DEF PostedUpTo
<1>4. \A k \in 1..Len(got)' : Faithful(got[k])'
  <2>1. ASSUME NEW k \in 1..Len(got) PROVE Faithful(got[k])'
    <3>1. Faithful(got[k])
      BY DEF MailInv
    <3>2. /\ next[got[k].from] \in Nat /\ next'[got[k].from] \in Nat
          /\ next[got[k].from] <= next'[got[k].from]
      BY <3>1 DEF MailInv, TypesOK, Faithful
    <3>3. got[k].id \in 1..(next'[got[k].from] - 1)
      BY <3>1, <3>2 DEF Faithful
    <3>4. QED
      BY <1>1, <3>1, <3>3 DEF Faithful
  <2>2. QED
    BY <1>1, <2>1
<1>5. CallOK'
  <2>1. Suits(prog, call)' <=> Suits(prog, call)
    BY <1>1 DEF Suits, Answers
  <2>2. \A s, i : Answers(prog, call, s, i)' <=> Answers(prog, call, s, i)
    BY <1>1 DEF Answers
  <2>3. QED
    BY <1>1, <2>1, <2>2 DEF MailInv, CallOK
<1>6. \A s, i : HasGot(s, i)' = HasGot(s, i)
  BY <1>1 DEF HasGot
<1>7. ReceiverOK'
  <2>1. \A s \in Senders : Len(Objects[s]) \in Nat
    BY ProgramTypes DEF MailInv, TypesOK
  <2>2. CASE rpc \in {"idle", "header", "probe"} \/ (rpc = "data" /\ Fresh)
    BY <1>1, <2>2 DEF MailInv, ReceiverOK, Fresh, Unknown
  <2>3. ASSUME NEW s \in Senders, NEW i \in 1..Len(Objects[s]), rpc = "data", Holding(s, i)
        PROVE  Holding(s, i)'
    <3>1. i \in Nat /\ data.filled \in Int /\ PostedUpTo(s, i, data.filled)
      BY <2>1, <2>3 DEF Holding
    <3>2. PostedUpTo(s, i, data.filled)'
      BY <1>1, <1>3, <3>1
    <3>3. Alone(s) => Alone(s)'
      BY <1>1 DEF Alone, Answers
    <3>4. First(s, i) => First(s, i)'
      BY <1>1, <1>6 DEF First, Answers
    <3>5. Answers(prog, call, s, i)' = Answers(prog, call, s, i)
      BY <1>1 DEF Answers
    <3>6. QED
      BY <1>1, <1>6, <2>3, <3>2, <3>3, <3>4, <3>5 DEF Holding
  <2>4. ASSUME NEW s \in Senders, NEW i \in 1..Len(Objects[s]), rpc = "stopped", Stopped(s, i)
        PROVE  Stopped(s, i)'
    <3>1. i \in Nat /\ 0 \in Int /\ PostedUpTo(s, i, 0)
      BY <2>1, <2>4 DEF Stopped
    <3>2. PostedUpTo(s, i, 0)'
      BY <1>3, <3>1
    <3>3. QED
      BY <1>1, <2>4, <3>2 DEF Stopped
  <2>5. CASE rpc = "data" /\ \E s \in Senders : \E i \in 1..Len(Objects[s]) : Holding(s, i)
    <3>1. \E s \in Senders : \E i \in 1..Len(Objects[s]) : Holding(s, i)'
      BY <2>3, <2>5
    <3>2. QED
      BY <1>1, <2>5, <3>1 DEF ReceiverOK
  <2>6. CASE rpc = "stopped" /\ \E s \in Senders : \E i \in 1..Len(Objects[s]) : Stopped(s, i)
    <3>1. \E s \in Senders : \E i \in 1..Len(Objects[s]) : Stopped(s, i)'
      BY <2>4, <2>6
    <3>2. QED
      BY <1>1, <2>6, <3>1 DEF ReceiverOK
  <2>7. QED
    <3>1. ReceiverOK
      BY DEF MailInv
    <3>2. \/ rpc \in {"idle", "header", "probe"} \/ (rpc = "data" /\ Fresh)
          \/ rpc = "data" /\ \E s \in Senders : \E i \in 1..Len(Objects[s]) : Holding(s, i)
          \/ rpc = "stopped" /\ \E s \in Senders : \E i \in 1..Len(Objects[s]) : Stopped(s, i)
      BY <3>1 DEF ReceiverOK
    <3>3. QED
      BY <2>2, <2>5, <2>6, <3>2
<1>8. QED
  BY <1>2, <1>4, <1>5, <1>7 DEF MailInv

\* A sender has sent o elements of its object.
LEMMA Progress ==
  ASSUME MailInv, NEW s \in Senders, Sending(s), prog' = prog,
         NEW o \in Nat, o = Length(s) \/ (o \in Offsets /\ o < Length(s)),
         sent[s] < o, SentUpTo(s, o)
  PROVE  /\ next' \in [Senders -> Nat] /\ sent' \in [Senders -> Int]
         /\ SenderOK(s)'
         /\ next[s] <= next'[s] /\ (next[s] = next'[s] => sent[s] <= sent'[s])
         /\ \A t \in Senders : t # s => next'[t] = next[t] /\ sent'[t] = sent[t]
         /\ \A x \in Parts(s) :
              Posted(s, x[1], x[2])' <=> x[1] < next[s] \/ (x[1] = next[s] /\ x[2] < o)
<1>1. /\ prog \in Programs /\ next \in [Senders -> Nat] /\ sent \in [Senders -> Int]
      /\ next[s] \in Nat /\ sent[s] \in Int /\ SenderOK(s) /\ Objects' = Objects
  BY DEF MailInv, TypesOK, Objects
<1>2. /\ Len(Objects[s]) \in Nat /\ next[s] \in 1..Len(Objects[s])
      /\ Length(s) = Objects[s][next[s]].len /\ Length(s) \in Nat
  <2>1. Len(Objects[s]) \in Nat
    BY <1>1, ProgramTypes
  <2>2. next[s] \in 1..Len(Objects[s])
    BY <1>1, <2>1 DEF Sending, SenderOK
  <2>3. Objects[s][next[s]].len \in Nat
    BY <1>1, <2>2, ProgramTypes
  <2>4. QED
    BY <2>1, <2>2, <2>3 DEF Length
<1>3. \A x \in Parts(s) :
        /\ x[1] \in Nat /\ x[2] \in Int /\ (x[2] = -1 \/ x[2] \in Nat)
        /\ x[1] = next[s] /\ x[2] # -1 => x[2] < Length(s)
  BY <1>1, <1>2, PartTypes
<1>4. CASE o = Length(s)
  <2>1. next' = [next EXCEPT ![s] = next[s] + 1] /\ sent' = [sent EXCEPT ![s] = -1]
    BY <1>4 DEF SentUpTo
  <2>2. next'[s] = next[s] + 1 /\ sent'[s] = -1
    BY <1>1, <2>1
  <2>3. next' \in [Senders -> Nat] /\ sent' \in [Senders -> Int]
    BY <1>1, <2>1
  <2>4. \A t \in Senders : t # s => next'[t] = next[t] /\ sent'[t] = sent[t]
    BY <1>1, <2>1
  <2>5. SenderOK(s)'
    BY <1>1, <1>2, <2>2 DEF SenderOK
  <2>6. ASSUME NEW x \in Parts(s)
        PROVE  Posted(s, x[1], x[2])' <=> x[1] < next[s] \/ (x[1] = next[s] /\ x[2] < o)
    <3>1. /\ x[1] \in Nat /\ x[2] \in Int /\ (x[2] = -1 \/ x[2] \in Nat)
          /\ x[1] = next[s] /\ x[2] # -1 => x[2] < o
      BY <1>3, <1>4
    <3>2. x[1] = next[s] => x[2] < o
      BY <3>1
    <3>3. Posted(s, x[1], x[2])' <=> x[1] < next[s] + 1 \/ (x[1] = next[s] + 1 /\ x[2] < -1)
      BY <2>2 DEF Posted
    <3>4. ~ (x[2] < -1)
      BY <3>1
    <3>5. QED
      BY <1>1, <3>1, <3>2, <3>3, <3>4
  <2>7. next[s] <= next'[s] /\ (next[s] = next'[s] => sent[s] <= sent'[s])
    BY <1>1, <2>2
  <2>8. QED
    BY <2>3, <2>4, <2>5, <2>6, <2>7
<1>5. CASE o # Length(s)
  <2>1. next' = next /\ sent' = [sent EXCEPT ![s] = o] /\ o \in Offsets /\ o < Length(s)
    BY <1>5 DEF SentUpTo
  <2>2. next'[s] = next[s] /\ sent'[s] = o
    BY <1>1, <2>1
  <2>3. next' \in [Senders -> Nat] /\ sent' \in [Senders -> Int]
    BY <1>1, <2>1
  <2>4. \A t \in Senders : t # s => next'[t] = next[t] /\ sent'[t] = sent[t]
    BY <1>1, <2>1
  <2>5. SenderOK(s)'
    BY <1>1, <1>2, <2>1, <2>2 DEF SenderOK
  <2>6. \A x \in Parts(s) :
          Posted(s, x[1], x[2])' <=> x[1] < next[s] \/ (x[1] = next[s] /\ x[2] < o)
    BY <2>2 DEF Posted
  <2>7. next[s] <= next'[s] /\ (next[s] = next'[s] => sent[s] <= sent'[s])
    BY <1>1, <2>2
  <2>8. QED
    BY <2>3, <2>4, <2>5, <2>6, <2>7
<1>6. QED
  BY <1>4, <1>5

\* A step of a sender that puts at most one message into its channel.
LEMMA SenderStepKeeps ==
  ASSUME MailInv, NEW s \in Senders, Sending(s), UNCHANGED <<prog, rvars>>,
         NEW o \in Nat, o = Length(s) \/ (o \in Offsets /\ o < Length(s)),
         sent[s] < o, SentUpTo(s, o),
         \/ /\ chan' = chan
            /\ \A x \in Parts(s) : x[1] = next[s] => ~ (sent[s] <= x[2] /\ x[2] < o)
         \/ /\ chan' = [chan EXCEPT ![s] = Append(@, AsMessage(s, <<next[s], sent[s]>>))]
            /\ <<next[s], sent[s]>> \in Parts(s)
            /\ \A x \in Parts(s) : x[1] = next[s] /\ sent[s] <= x[2] /\ x[2] < o => x[2] = sent[s]
  PROVE  MailInv'
<1>1. /\ prog' = prog /\ Objects' = Objects /\ prog \in Programs
      /\ next \in [Senders -> Nat] /\ sent \in [Senders -> Int]
      /\ next[s] \in Nat /\ sent[s] \in Int
      /\ chan \in [Senders -> Seq(Messages)]
  BY DEF MailInv, TypesOK, Objects
<1>2. /\ next' \in [Senders -> Nat] /\ sent' \in [Senders -> Int]
      /\ SenderOK(s)'
      /\ next[s] <= next'[s] /\ (next[s] = next'[s] => sent[s] <= sent'[s])
      /\ \A t \in Senders : t # s => next'[t] = next[t] /\ sent'[t] = sent[t]
      /\ \A x \in Parts(s) :
           Posted(s, x[1], x[2])' <=> x[1] < next[s] \/ (x[1] = next[s] /\ x[2] < o)
  BY <1>1, Progress
<1>3. \A x \in Parts(s) : x[1] \in Nat /\ x[2] \in Int /\ x = <<x[1], x[2]>>
  BY <1>1, PartTypes
<1>4. \A x \in Parts(s) :
        Posted(s, x[1], x[2]) <=> x[1] < next[s] \/ (x[1] = next[s] /\ x[2] < sent[s])
  BY DEF Posted
<1>5. \A t : \A x : Taken(t, x)' <=> Taken(t, x)
  BY DEF rvars, Taken, HasGot, Holds
<1>6. ChannelOK(s)' /\ chan' \in [Senders -> Seq(Messages)]
      /\ \A t \in Senders : t # s => chan'[t] = chan[t]
  <2>1. CASE /\ chan' = chan
             /\ \A x \in Parts(s) : x[1] = next[s] => ~ (sent[s] <= x[2] /\ x[2] < o)
    <3>1. \A x \in Parts(s) : Posted(s, x[1], x[2])' <=> Posted(s, x[1], x[2])
      BY <1>1, <1>2, <1>3, <1>4, <2>1
    <3>2. \A x \in Parts(s) : (Posted(s, x[1], x[2]) /\ ~ Taken(s, x))'
                               <=> Posted(s, x[1], x[2]) /\ ~ Taken(s, x)
      BY <1>5, <3>1
    <3>3. ChannelOK(s) /\ chan'[s] = chan[s]
      BY <2>1 DEF MailInv
    <3>4. ChannelOK(s)'
      BY <1>1, <3>2, <3>3, SameChannel
    <3>5. QED
      BY <1>1, <2>1, <3>4
  <2>2. CASE /\ chan' = [chan EXCEPT ![s] = Append(@, AsMessage(s, <<next[s], sent[s]>>))]
             /\ <<next[s], sent[s]>> \in Parts(s)
             /\ \A x \in Parts(s) : x[1] = next[s] /\ sent[s] <= x[2] /\ x[2] < o => x[2] = sent[s]
    <3>1. PICK p \in Parts(s) : p = <<next[s], sent[s]>> /\ p[1] = next[s] /\ p[2] = sent[s]
      BY <2>2
    <3>2. ASSUME NEW x \in Parts(s)
          PROVE  /\ Posted(s, x[1], x[2])' <=> Posted(s, x[1], x[2]) \/ x = p
                 /\ Posted(s, x[1], x[2]) => Before(x, p)
      <4>1. x[1] \in Nat /\ x[2] \in Int /\ x = <<x[1], x[2]>>
        BY <1>3
      <4>2. x = p <=> x[1] = next[s] /\ x[2] = sent[s]
        BY <3>1, <4>1
      <4>3. x[1] = next[s] /\ sent[s] <= x[2] /\ x[2] < o => x[2] = sent[s]
        BY <2>2
      <4>4. /\ Posted(s, x[1], x[2])' <=> x[1] < next[s] \/ (x[1] = next[s] /\ x[2] < o)
            /\ Posted(s, x[1], x[2]) <=> x[1] < next[s] \/ (x[1] = next[s] /\ x[2] < sent[s])
        BY <1>2, <1>4
      <4>5. QED
        BY <1>1, <3>1, <4>1, <4>2, <4>3, <4>4 DEF Before
    <3>3. chan' = [chan EXCEPT ![s] = Append(@, AsMessage(s, p))] /\ UNCHANGED rvars
      BY <2>2, <3>1
    <3>4. ChannelOK(s)'
      BY <1>1, <3>2, <3>3, OneMore
    <3>5. AsMessage(s, p) \in Messages
      BY <1>1, PartTypes
    <3>6. QED
      BY <1>1, <3>3, <3>4, <3>5
  <2>3. QED
    BY <2>1, <2>2
<1>7. ASSUME NEW t \in Senders, t # s PROVE SenderOK(t)' /\ ChannelOK(t)'
  <2>1. next'[t] = next[t] /\ sent'[t] = sent[t] /\ chan'[t] = chan[t]
    BY <1>2, <1>6, <1>7
  <2>2. SenderOK(t) /\ ChannelOK(t)
    BY DEF MailInv
  <2>3. SenderOK(t)'
    BY <1>1, <2>1, <2>2 DEF SenderOK
  <2>4. \A x \in Parts(t) : (Posted(t, x[1], x[2]) /\ ~ Taken(t, x))'
                               <=> Posted(t, x[1], x[2]) /\ ~ Taken(t, x)
    BY <1>5, <2>1 DEF Posted
  <2>5. QED
    BY <1>1, <2>1, <2>2, <2>3, <2>4, SameChannel
<1>8. \A t \in Senders :
        /\ SenderOK(t)' /\ ChannelOK(t)'
        /\ next[t] <= next'[t]
        /\ next[t] = next'[t] => sent[t] <= sent'[t]
  <2>1. \A t \in Senders : next[t] \in Nat /\ sent[t] \in Int
    BY <1>1
  <2>2. QED
    BY <1>2, <1>6, <1>7, <2>1
<1>9. QED
  BY <1>2, <1>6, <1>8, SenderKeeps

\* The header, and the segments.
LEMMA SendHeaderStep ==
  ASSUME MailInv, NEW s \in Senders, SendHeader(s)
  PROVE  MailInv'
<1>1. /\ Sending(s) /\ sent[s] = -1 /\ SentUpTo(s, 0) /\ UNCHANGED <<prog, rvars>>
      /\ chan' = IF Objects[s][next[s]].check
                 THEN [chan EXCEPT ![s] = Append(@, Message(s, "header", Length(s)))] ELSE chan
  BY DEF SendHeader
<1>2. prog \in Programs /\ next[s] \in Nat /\ SenderOK(s) /\ Len(Objects[s]) \in Nat
  BY ProgramTypes DEF MailInv, TypesOK
<1>3. next[s] \in 1..Len(Objects[s]) /\ Length(s) = Objects[s][next[s]].len
  BY <1>1, <1>2 DEF Sending, Length, SenderOK
<1>4. Length(s) \in Nat
  BY <1>2, <1>3, ProgramTypes
<1>5. 0 \in Nat /\ sent[s] < 0 /\ (0 = Length(s) \/ (0 \in Offsets /\ 0 < Length(s)))
  BY <1>1, <1>4, OffsetsStep
<1>6. \A x \in Parts(s) :
        /\ x[1] \in Nat /\ (x[2] = -1 \/ x[2] \in Nat)
        /\ x[2] = -1 => Objects[s][x[1]].check
  BY <1>2, PartTypes
<1>7. CASE Objects[s][next[s]].check
  <2>1. <<next[s], -1>> \in Parts(s)
    BY <1>3, <1>7 DEF Parts
  <2>2. AsMessage(s, <<next[s], -1>>) = Message(s, "header", Length(s))
    BY <1>3 DEF AsMessage, Message
  <2>3. \A x \in Parts(s) : x[1] = next[s] /\ sent[s] <= x[2] /\ x[2] < 0 => x[2] = sent[s]
    BY <1>1, <1>6
  <2>4. QED
    BY <1>1, <1>5, <1>7, <2>1, <2>2, <2>3, SenderStepKeeps
<1>8. CASE ~ Objects[s][next[s]].check
  <2>1. \A x \in Parts(s) : x[1] = next[s] => ~ (sent[s] <= x[2] /\ x[2] < 0)
    BY <1>1, <1>6, <1>8
  <2>2. QED
    BY <1>1, <1>5, <1>8, <2>1, SenderStepKeeps
<1>9. QED
  BY <1>7, <1>8

LEMMA SendSegmentStep ==
  ASSUME MailInv, NEW s \in Senders, SendSegment(s)
  PROVE  MailInv'
<1>1. Sending(s) /\ sent[s] >= 0 /\ UNCHANGED <<prog, rvars>>
  BY DEF SendSegment
<1>2. prog \in Programs /\ next[s] \in Nat /\ SenderOK(s) /\ Len(Objects[s]) \in Nat /\ sent[s] \in Int
  BY ProgramTypes DEF MailInv, TypesOK
<1>3. next[s] \in 1..Len(Objects[s]) /\ Length(s) = Objects[s][next[s]].len
  BY <1>1, <1>2 DEF Sending, Length, SenderOK
<1>4. Length(s) \in Nat /\ MaxLen \in Nat \ {0}
  BY <1>2, <1>3, ProgramTypes, MaxLenAssumption
<1>5. sent[s] # -1
  BY <1>1, <1>2
<1>6. sent[s] \in Offsets /\ sent[s] < Length(s) /\ sent[s] \in Nat
  BY <1>2, <1>3, <1>5, OffsetsStep DEF SenderOK
<1>7. PICK count : count = Segment(Length(s) - sent[s])
  OBVIOUS
<1>8. /\ chan' = [chan EXCEPT ![s] = Append(@, Message(s, "data", count))]
      /\ SentUpTo(s, sent[s] + count)
  BY <1>7 DEF SendSegment, Segment
<1>9. PICK o : o = sent[s] + count
  OBVIOUS
<1>10. count \in Nat /\ 0 < count /\ count <= MaxLen
       /\ (count = Length(s) - sent[s] \/ (count = MaxLen /\ MaxLen < Length(s) - sent[s]))
  BY <1>4, <1>6, <1>7 DEF Segment
<1>11. o \in Nat /\ sent[s] < o /\ (o = Length(s) \/ (o \in Offsets /\ o < Length(s)))
  BY <1>4, <1>6, <1>9, <1>10, OffsetsStep
<1>12. <<next[s], sent[s]>> \in Parts(s)
  BY <1>3, <1>5, <1>6 DEF Parts
<1>13. AsMessage(s, <<next[s], sent[s]>>) = Message(s, "data", count)
  BY <1>3, <1>5, <1>7 DEF AsMessage, Message
<1>14. ASSUME NEW x \in Parts(s), x[1] = next[s], sent[s] <= x[2], x[2] < o
       PROVE  x[2] = sent[s]
  <2>1. x[2] \in Int /\ x[2] # -1
    BY <1>2, <1>6, <1>14, PartTypes
  <2>2. x[2] \in Offsets
    BY <1>2, <2>1, PartTypes
  <2>3. sent[s] < x[2] => sent[s] + MaxLen <= x[2]
    BY <1>6, <2>2, OffsetsStep
  <2>4. QED
    BY <1>4, <1>6, <1>9, <1>10, <1>14, <2>1, <2>3
<1>15. QED
  BY <1>1, <1>8, <1>9, <1>11, <1>12, <1>13, <1>14, SenderStepKeeps

------------------------------------------------------------------------------
(* The receiver                                                            *)

\* A channel from which one message is taken.
LEMMA OneLess ==
  ASSUME prog' = prog, NEW s \in Senders, chan \in [Senders -> Seq(Messages)],
         NEW q \in Seq(Nat \X Int), Carries(s, q),
         NEW k \in 1..Len(chan[s]), Take(s, k),
         \A x \in Parts(s) : (Posted(s, x[1], x[2]) /\ ~ Taken(s, x))'
                               <=> Posted(s, x[1], x[2]) /\ ~ Taken(s, x) /\ x # q[k]
  PROVE  /\ ChannelOK(s)' /\ chan' \in [Senders -> Seq(Messages)]
         /\ \A t \in Senders : t # s => chan'[t] = chan[t]
<1> DEFINE r == RemoveAt(q, k)
           m == RemoveAt(chan[s], k)
<1>1. Parts(s)' = Parts(s) /\ Objects' = Objects
  BY DEF Parts, Objects
<1>2. Waiting(s)' = Waiting(s) \ {q[k]}
  BY <1>1 DEF Waiting
<1>3. /\ chan[s] \in Seq(Messages) /\ Len(q) \in Nat /\ Len(chan[s]) = Len(q) /\ k \in 1..Len(q)
      /\ \A j \in 1..Len(q) : chan[s][j] = AsMessage(s, q[j])
      /\ Lists(q, Waiting(s))
  BY DEF Carries
<1>4. r \in Seq(Nat \X Int) /\ Len(r) = Len(q) - 1
      /\ \A j \in 1..(Len(q) - 1) : r[j] = IF j < k THEN q[j] ELSE q[j + 1]
  BY <1>3, RemoveAtElements
<1>5. m \in Seq(Messages) /\ Len(m) = Len(chan[s]) - 1
      /\ \A j \in 1..(Len(chan[s]) - 1) : m[j] = IF j < k THEN chan[s][j] ELSE chan[s][j + 1]
  BY <1>3, RemoveAtElements
<1>6. chan' = [chan EXCEPT ![s] = m]
  BY DEF Take
<1>7. Lists(r, Waiting(s)')
  <2>1. Lists(r, Waiting(s) \ {q[k]})
    BY <1>3, ListWithout
  <2>2. QED
    BY <1>2, <2>1
<1> HIDE DEF r, m
<1>8. chan'[s] = m /\ chan' \in [Senders -> Seq(Messages)]
      /\ \A t \in Senders : t # s => chan'[t] = chan[t]
  BY <1>5, <1>6
<1>9. \A x : AsMessage(s, x)' = AsMessage(s, x)
  BY <1>1 DEF AsMessage
<1>10. ASSUME NEW j \in 1..Len(r) PROVE m[j] = AsMessage(s, r[j])
  <2>1. j \in 1..(Len(q) - 1) /\ (j < k => j \in 1..Len(q)) /\ j + 1 \in 1..Len(q)
    <3>1. j \in 1..(Len(q) - 1) /\ Len(q) \in Int /\ k \in Int
      BY <1>3, <1>4
    <3>2. QED
      BY <3>1
  <2>2. CASE j < k
    <3>1. m[j] = chan[s][j] /\ r[j] = q[j]
      BY <1>3, <1>4, <1>5, <2>1, <2>2
    <3>2. QED
      BY <1>3, <2>1, <2>2, <3>1
  <2>3. CASE ~ (j < k)
    <3>1. m[j] = chan[s][j + 1] /\ r[j] = q[j + 1]
      BY <1>3, <1>4, <1>5, <2>1, <2>3
    <3>2. QED
      BY <1>3, <2>1, <3>1
  <2>4. QED
    BY <2>2, <2>3
<1>11. Carries(s, r)'
  <2>1. Len(chan'[s]) = Len(r)
    BY <1>3, <1>4, <1>5, <1>8
  <2>2. \A j \in 1..Len(r) : chan'[s][j] = AsMessage(s, r[j])'
    BY <1>8, <1>9, <1>10
  <2>3. QED
    BY <1>7, <2>1, <2>2 DEF Carries, r
<1>12. QED
  BY <1>4, <1>8, <1>11 DEF ChannelOK

\* A step of the receiver leaves the senders as they are.
LEMMA ReceiverKeeps ==
  ASSUME MailInv, UNCHANGED <<prog, svars>>,
         chan' \in [Senders -> Seq(Messages)],
         \A s \in Senders : ChannelOK(s)',
         got' = got, CallOK', ReceiverOK'
  PROVE  MailInv'
<1>1. prog' = prog /\ Objects' = Objects /\ next' = next /\ sent' = sent
  BY DEF svars, Objects
<1>2. TypesOK'
  <2>1. \A c : Suits(prog, c)' <=> Suits(prog, c)
    BY <1>1 DEF Suits, Answers
  <2>2. /\ prog \in Programs /\ Agreed(prog) /\ got \in Seq(Returned)
        /\ next \in [Senders -> Nat] /\ sent \in [Senders -> Int]
    BY DEF MailInv, TypesOK
  <2>3. Agreed(prog)'
    BY <1>1, <2>1, <2>2 DEF Agreed
  <2>4. QED
    BY <1>1, <2>2, <2>3 DEF TypesOK
<1>3. \A s \in Senders : SenderOK(s)'
  BY <1>1 DEF MailInv, SenderOK
<1>4. \A k \in 1..Len(got)' : Faithful(got[k])'
  BY <1>1 DEF MailInv, Faithful
<1>5. QED
  BY <1>2, <1>3, <1>4 DEF MailInv

\* Which part a receive takes: one that answers the call, was sent and not
\* taken, and is the first such of its sender.
LEMMA OldestPart ==
  ASSUME MailInv, rpc # "idle", NEW s \in Senders,
         NEW k \in 1..Len(chan[s]), Oldest(s, k)
  PROVE  \E q \in Seq(Nat \X Int) : \E p \in Parts(s) :
           /\ Carries(s, q) /\ q[k] = p /\ chan[s][k] = AsMessage(s, p)
           /\ Posted(s, p[1], p[2]) /\ ~ Taken(s, p)
           /\ Answers(prog, call, s, p[1])
           /\ \A x \in Parts(s) :
                Posted(s, x[1], x[2]) /\ ~ Taken(s, x) /\ Answers(prog, call, s, x[1])
                  => x = p \/ Before(p, x)
<1>1. PICK q \in Seq(Nat \X Int) : Carries(s, q)
  BY DEF MailInv, ChannelOK
<1>2. /\ Len(q) \in Nat /\ Len(chan[s]) = Len(q) /\ k \in 1..Len(q)
      /\ \A j \in 1..Len(q) : chan[s][j] = AsMessage(s, q[j])
  BY <1>1 DEF Carries
<1>3. Lists(q, Waiting(s))
  BY <1>1 DEF Carries
<1>4. q[k] \in Waiting(s)
  BY <1>2, <1>3 DEF Lists
<1>5. PICK p \in Parts(s) : p = q[k] /\ Posted(s, p[1], p[2]) /\ ~ Taken(s, p)
  BY <1>4 DEF Waiting
<1>6. ASSUME NEW j \in 1..Len(q)
      PROVE  /\ chan[s][j].tag = prog.objects[s][q[j][1]].tag
             /\ j \in Matching(s) <=> call.tag \in {AnyTag, prog.objects[s][q[j][1]].tag}
  <2>1. chan[s][j].tag = prog.objects[s][q[j][1]].tag
    <3>1. chan[s][j] = AsMessage(s, q[j])
      BY <1>2
    <3>2. AsMessage(s, q[j]).tag = Objects[s][q[j][1]].tag
      BY DEF AsMessage
    <3>3. QED
      BY <3>1, <3>2 DEF Objects
  <2>2. QED
    BY <1>2, <2>1 DEF Matching
<1>7. /\ call.source \in {s, AnySource} /\ k \in Matching(s)
      /\ \A j \in Matching(s) : k <= j
  BY DEF Oldest
<1>8. Answers(prog, call, s, p[1])
  BY <1>2, <1>5, <1>6, <1>7 DEF Answers
<1>9. ASSUME NEW x \in Parts(s), Posted(s, x[1], x[2]), ~ Taken(s, x),
             Answers(prog, call, s, x[1])
      PROVE  x = p \/ Before(p, x)
  <2>1. x \in Waiting(s)
    BY <1>9 DEF Waiting
  <2>2. PICK j \in 1..Len(q) : q[j] = x
    BY <1>3, <2>1 DEF Lists
  <2>3. j \in Matching(s)
    BY <1>6, <1>9, <2>2 DEF Answers
  <2>4. k <= j /\ j \in Int /\ k \in Int
    BY <1>2, <1>7, <2>3
  <2>5. CASE j = k
    BY <1>5, <2>2, <2>5
  <2>6. CASE k < j
    BY <1>2, <1>3, <1>5, <2>2, <2>6 DEF Lists
  <2>7. QED
    BY <2>4, <2>5, <2>6
<1>10. QED
  BY <1>1, <1>2, <1>5, <1>8, <1>9

\* While nothing of an object was received, what is taken is what was
\* returned.
LEMMA NothingHeld ==
  ASSUME rpc \in {"idle", "header", "probe"} \/ (rpc = "data" /\ Fresh),
         NEW s \in Senders, NEW x
  PROVE  Taken(s, x) <=> HasGot(s, x[1])
BY WildcardsAssumption DEF Taken, Holds, Fresh, Unknown

\* A call that suits the program and has nothing yet takes the beginning of
\* the first object that answers it.
LEMMA TakesFirst ==
  ASSUME MailInv, rpc \in {"header", "probe"} \/ (rpc = "data" /\ Fresh),
         NEW s \in Senders, NEW p \in Parts(s),
         Posted(s, p[1], p[2]), ~ Taken(s, p), Answers(prog, call, s, p[1]),
         \A x \in Parts(s) :
           Posted(s, x[1], x[2]) /\ ~ Taken(s, x) /\ Answers(prog, call, s, x[1])
             => x = p \/ Before(p, x)
  PROVE  /\ p[2] = IF call.check THEN -1 ELSE 0
         /\ ~ HasGot(s, p[1]) /\ First(s, p[1])
<1>1. prog \in Programs /\ Suits(prog, call) /\ SenderOK(s) /\ next[s] \in Nat /\ sent[s] \in Int
  BY DEF MailInv, TypesOK, CallOK
<1>2. PICK b : b = IF call.check THEN -1 ELSE 0
  OBVIOUS
<1>3. Len(Objects[s]) \in Nat
  BY <1>1, ProgramTypes
<1>4. ASSUME NEW j \in 1..Len(Objects[s]), Answers(prog, call, s, j)
      PROVE  /\ <<j, b>> \in Parts(s)
             /\ \A o \in Int : <<j, o>> \in Parts(s) => b <= o
  <2>1. Objects[s][j].check = call.check /\ (~ call.check => Objects[s][j].len > 0)
    BY <1>1, <1>4 DEF Suits, Objects
  <2>2. <<j, b>> \in Parts(s)
    BY <1>2, <2>1, OffsetsStep DEF Parts
  <2>3. ASSUME NEW o \in Int, <<j, o>> \in Parts(s) PROVE b <= o
    <3>1. (o = -1 => Objects[s][j].check) /\ (o # -1 => o \in Nat)
      BY <1>1, <2>3, PartTypes
    <3>2. Objects[s][j].check \in BOOLEAN
      BY <1>1, ProgramTypes
    <3>4. (b = -1 \/ b = 0) /\ (b = 0 <=> ~ call.check)
      BY <1>2
    <3>3. QED
      BY <2>1, <3>1, <3>2, <3>4
  <2>4. QED
    BY <2>2, <2>3
<1>5. /\ p = <<p[1], p[2]>> /\ p[1] \in 1..Len(Objects[s]) /\ p[1] \in Nat /\ p[2] \in Int
      /\ b \in Int
  BY <1>1, <1>2, PartTypes
<1>6. \A x : Taken(s, x) <=> HasGot(s, x[1])
  BY NothingHeld
<1>7. ~ HasGot(s, p[1])
  BY <1>6
<1>8. b <= p[2]
  BY <1>4, <1>5
<1>9. p[2] = b
  <2>1. PICK x \in Parts(s) : x = <<p[1], b>> /\ x[1] = p[1] /\ x[2] = b
    BY <1>4, <1>5
  <2>2. Posted(s, x[1], x[2])
    BY <1>1, <1>5, <1>8, <2>1 DEF Posted
  <2>3. ~ Taken(s, x)
    BY <1>6, <1>7, <2>1
  <2>4. x = p \/ Before(p, x)
    BY <2>1, <2>2, <2>3
  <2>5. QED
    BY <1>5, <1>8, <2>1, <2>4 DEF Before
<1>10. ASSUME NEW j \in 1..Len(Objects[s]), j < p[1], Answers(prog, call, s, j), ~ HasGot(s, j)
       PROVE  FALSE
  <2>1. PICK x \in Parts(s) : x = <<j, b>> /\ x[1] = j /\ x[2] = b
    BY <1>4, <1>10
  <2>2. j \in Nat /\ j < next[s]
    BY <1>1, <1>3, <1>5, <1>10 DEF Posted
  <2>3. Posted(s, x[1], x[2]) /\ ~ Taken(s, x)
    BY <1>6, <1>10, <2>1, <2>2 DEF Posted
  <2>4. x = p \/ Before(p, x)
    BY <1>10, <2>1, <2>3
  <2>5. QED
    BY <1>5, <1>10, <2>1, <2>2, <2>4 DEF Before
<1>11. QED
  BY <1>2, <1>7, <1>9, <1>10 DEF First

\* recv() begins.
LEMMA RecvStep ==
  ASSUME MailInv, NEW c \in Recvs, Recv(c)
  PROVE  MailInv'
<1>1. /\ rpc = "idle" /\ Pending(c) /\ prog' = prog /\ chan' = chan
      /\ next' = next /\ sent' = sent /\ got' = got
      /\ call' = c /\ buf' = c.buffer /\ want' = c.buffer.len
      /\ head' = Unknown(c) /\ data' = Empty /\ Objects' = Objects
      /\ rpc' = IF c.check THEN "header" ELSE IF c.method = "default" THEN "probe" ELSE "data"
  BY DEF Recv, svars, Empty, Objects
<1>2. prog \in Programs /\ Agreed(prog) /\ chan \in [Senders -> Seq(Messages)]
  BY DEF MailInv, TypesOK
<1>3. c \in Calls /\ Suits(prog, c)
  BY <1>2, ProgramTypes DEF Agreed, Recvs
<1>4. \E s \in Senders : \E i \in 1..Len(Objects[s]) : Answers(prog, c, s, i)
  BY <1>1 DEF Pending, Answers, Objects
<1>5. CallOK'
  <2>1. Suits(prog, c)' /\ \A s, i : Answers(prog, c, s, i) => Answers(prog, call, s, i)'
    BY <1>1, <1>3 DEF Suits, Answers
  <2>2. Suits(prog, call)'
    BY <1>1, <1>3 DEF Suits, Answers
  <2>3. QED
    BY <1>1, <1>3, <1>4, <2>1, <2>2 DEF CallOK
<1>6. ReceiverOK'
  <2>1. CASE c.check
    BY <1>1, <2>1 DEF ReceiverOK, Empty
  <2>2. CASE ~ c.check /\ c.method = "default"
    BY <1>1, <2>2 DEF ReceiverOK, Empty
  <2>3. CASE ~ c.check /\ c.method # "default"
    <3>1. Fresh'
      BY <1>1, <2>3 DEF Fresh, Unknown, Empty
    <3>2. QED
      BY <1>1, <2>3, <3>1 DEF ReceiverOK
  <2>4. QED
    BY <2>1, <2>2, <2>3
<1>7. ASSUME NEW s \in Senders PROVE ChannelOK(s)'
  <2>1. \A x : Taken(s, x) <=> HasGot(s, x[1])
    BY <1>1, NothingHeld
  <2>2. \A x : Taken(s, x)' <=> HasGot(s, x[1])
    BY <1>1, WildcardsAssumption DEF Taken, Holds, HasGot, Unknown
  <2>3. \A x \in Parts(s) : (Posted(s, x[1], x[2]) /\ ~ Taken(s, x))'
                               <=> Posted(s, x[1], x[2]) /\ ~ Taken(s, x)
    BY <1>1, <2>1, <2>2 DEF Posted
  <2>4. ChannelOK(s) /\ chan'[s] = chan[s]
    BY <1>1 DEF MailInv
  <2>5. QED
    BY <1>1, <2>3, <2>4, SameChannel
<1>8. UNCHANGED <<prog, svars>> /\ chan' \in [Senders -> Seq(Messages)]
  BY <1>1, <1>2 DEF svars
<1>9. QED
  BY <1>1, <1>5, <1>6, <1>7, <1>8, ReceiverKeeps

\* A message of s is taken: its channel has one less, the others are the same.
LEMMA ChannelsAfter ==
  ASSUME MailInv, UNCHANGED <<prog, svars>>, NEW s \in Senders,
         NEW k \in 1..Len(chan[s]), Take(s, k),
         NEW q \in Seq(Nat \X Int), NEW p \in Parts(s), Carries(s, q), q[k] = p,
         \A x \in Parts(s) : Taken(s, x)' <=> Taken(s, x) \/ x = p,
         \A t \in Senders : t # s => \A x \in Parts(t) : Taken(t, x)' <=> Taken(t, x)
  PROVE  /\ chan' \in [Senders -> Seq(Messages)]
         /\ \A t \in Senders : ChannelOK(t)'
<1>1. prog' = prog /\ next' = next /\ sent' = sent /\ chan \in [Senders -> Seq(Messages)]
  BY DEF svars, MailInv, TypesOK
<1>2. \A t \in Senders : \A x \in Parts(t) : Posted(t, x[1], x[2])' <=> Posted(t, x[1], x[2])
  BY <1>1 DEF Posted
<1>3. \A x \in Parts(s) : (Posted(s, x[1], x[2]) /\ ~ Taken(s, x))'
                             <=> Posted(s, x[1], x[2]) /\ ~ Taken(s, x) /\ x # q[k]
  BY <1>2
<1>4. /\ ChannelOK(s)' /\ chan' \in [Senders -> Seq(Messages)]
      /\ \A t \in Senders : t # s => chan'[t] = chan[t]
  BY <1>1, <1>3, OneLess
<1>5. ASSUME NEW t \in Senders, t # s PROVE ChannelOK(t)'
  <2>1. ChannelOK(t) /\ chan'[t] = chan[t]
    BY <1>4, <1>5 DEF MailInv
  <2>2. \A x \in Parts(t) : (Posted(t, x[1], x[2]) /\ ~ Taken(t, x))'
                               <=> Posted(t, x[1], x[2]) /\ ~ Taken(t, x)
    BY <1>2, <1>5
  <2>3. QED
    BY <1>1, <2>1, <2>2, SameChannel
<1>6. QED
  BY <1>4, <1>5

\* The handshake takes the header of the first object that answers.
LEMMA RecvHeaderStep ==
  ASSUME MailInv, NEW s \in Senders, NEW k \in 1..Len(chan[s]), RecvHeader(s, k)
  PROVE  MailInv'
<1>1. /\ rpc = "header" /\ Oldest(s, k) /\ Take(s, k) /\ UNCHANGED <<prog, svars>>
      /\ prog' = prog /\ next' = next /\ sent' = sent
      /\ call' = call /\ data' = data /\ got' = got /\ Objects' = Objects
  BY DEF RecvHeader, svars, Objects
<1>2. prog \in Programs /\ CallOK /\ call \in Calls /\ Suits(prog, call)
      /\ next[s] \in Nat /\ sent[s] \in Int
  BY <1>1 DEF MailInv, TypesOK, CallOK
<1>3. call.check /\ data = Empty
  BY <1>1 DEF MailInv, ReceiverOK
<1>4. PICK q \in Seq(Nat \X Int), p \in Parts(s) :
           /\ Carries(s, q) /\ q[k] = p /\ chan[s][k] = AsMessage(s, p)
           /\ Posted(s, p[1], p[2]) /\ ~ Taken(s, p)
           /\ Answers(prog, call, s, p[1])
           /\ \A x \in Parts(s) :
                Posted(s, x[1], x[2]) /\ ~ Taken(s, x) /\ Answers(prog, call, s, x[1])
                  => x = p \/ Before(p, x)
  BY <1>1, OldestPart
<1>5. p[2] = -1 /\ ~ HasGot(s, p[1]) /\ First(s, p[1])
  <2>1. p[2] = (IF call.check THEN -1 ELSE 0) /\ ~ HasGot(s, p[1]) /\ First(s, p[1])
    BY <1>1, <1>4, TakesFirst
  <2>2. QED
    BY <1>3, <2>1
<1>6. /\ p = <<p[1], p[2]>> /\ p[1] \in 1..Len(Objects[s]) /\ p[1] \in Nat
      /\ Objects[s][p[1]].type \in Types /\ Objects[s][p[1]].len \in Nat
  BY <1>2, PartTypes, ProgramTypes
<1>7. PICK i \in 1..Len(Objects[s]) : i = p[1]
  BY <1>6
<1>8. /\ chan[s][k].kind = "header" /\ chan[s][k].id = i
      /\ chan[s][k].type = Objects[s][i].type /\ chan[s][k].count = Objects[s][i].len
  BY <1>4, <1>5, <1>7 DEF AsMessage
<1>9. head' = [from |-> s, id |-> i, type |-> Objects[s][i].type]
  BY <1>8 DEF RecvHeader
<1>10. \/ rpc' = "stopped"
       \/ /\ rpc' = "data"
          /\ buf' = Fit(buf, Objects[s][i].type, Objects[s][i].len)
          /\ want' = Fit(buf, Objects[s][i].type, Objects[s][i].len).len
  BY <1>8 DEF RecvHeader
<1>11. PostedUpTo(s, i, 0)'
  <2>1. Posted(s, i, -1)
    BY <1>4, <1>5, <1>7
  <2>2. QED
    BY <1>1, <1>2, <2>1 DEF Posted, PostedUpTo
<1>12. \A t, j : HasGot(t, j)' <=> HasGot(t, j)
  BY <1>1 DEF HasGot
<1>13. /\ chan' \in [Senders -> Seq(Messages)] /\ \A t \in Senders : ChannelOK(t)'
  <2>1. \A t \in Senders : \A x : Taken(t, x) <=> HasGot(t, x[1])
    BY <1>1, NothingHeld
  <2>2. \A t, x : Taken(t, x)' <=> HasGot(t, x[1]) \/ (t = s /\ x[1] = i /\ x[2] < 0)
    BY <1>1, <1>3, <1>9, <1>10, <1>12 DEF Taken, Holds, Empty
  <2>3. ASSUME NEW x \in Parts(s) PROVE Taken(s, x)' <=> Taken(s, x) \/ x = p
    <3>1. x = <<x[1], x[2]>> /\ x[2] \in Int /\ (x[2] = -1 \/ x[2] \in Nat)
      BY <1>2, PartTypes
    <3>2. x = p <=> x[1] = i /\ x[2] = -1
      BY <1>5, <1>6, <1>7, <3>1
    <3>3. x = p <=> x[1] = i /\ x[2] < 0
      BY <3>1, <3>2
    <3>4. QED
      BY <2>1, <2>2, <3>3
  <2>4. \A t \in Senders : t # s => \A x \in Parts(t) : Taken(t, x)' <=> Taken(t, x)
    BY <2>1, <2>2
  <2>5. QED
    BY <1>1, <1>4, <2>3, <2>4, ChannelsAfter
<1>14. CallOK'
  <2>1. Suits(prog, call)' /\ \A t, j : Answers(prog, call, t, j)' <=> Answers(prog, call, t, j)
    BY <1>1, <1>2 DEF Suits, Answers
  <2>2. QED
    BY <1>1, <1>2, <2>1 DEF CallOK
<1>15. ReceiverOK'
  <2>1. CASE rpc' = "stopped"
    <3>1. Stopped(s, i)'
      BY <1>1, <1>3, <1>9, <1>11 DEF Stopped, Empty
    <3>2. QED
      BY <1>1, <2>1, <3>1 DEF ReceiverOK
  <2>2. CASE /\ rpc' = "data"
             /\ buf' = Fit(buf, Objects[s][i].type, Objects[s][i].len)
             /\ want' = Fit(buf, Objects[s][i].type, Objects[s][i].len).len
    <3>1. buf'.type = VectorType(Objects[s][i].type) /\ buf'.len = Objects[s][i].len
          /\ want' = Objects[s][i].len
      BY <2>2 DEF Fit, Allocate
    <3>2. Answers(prog, call, s, i)' /\ Answers(prog, call, s, i)
      BY <1>1, <1>4, <1>7 DEF Answers
    <3>3. Alone(s)'
      <4>1. Objects[s][i].check = call.check
             /\ \A t \in Senders : \A j \in 1..Len(Objects[t]) : Answers(prog, call, t, j) => t = s
        BY <1>2, <1>3, <3>2 DEF Suits, Objects
      <4>2. QED
        BY <1>1, <4>1 DEF Alone, Answers
    <3>4. First(s, i)' /\ ~ HasGot(s, i)'
      BY <1>1, <1>5, <1>7, <1>12 DEF First, Answers
    <3>5. data'.filled = 0 /\ data'.origins = {} /\ 0 \in Offsets /\ 0 \in Nat
      BY <1>1, <1>3, OffsetsStep DEF Empty
    <3>6. data'.filled + want' = Objects[s][i].len /\ want' \in Nat
      BY <1>6, <1>7, <3>1, <3>5
    <3>7. PostedUpTo(s, i, data.filled)'
      BY <1>11, <3>5
    <3>8. data'.origins \subseteq {<<s, i, "data">>}
      BY <3>5
    <3>9. Holding(s, i)'
      BY <1>1, <1>9, <3>1, <3>2, <3>3, <3>4, <3>5, <3>6, <3>7, <3>8 DEF Holding
    <3>10. QED
      BY <1>1, <2>2, <3>9 DEF ReceiverOK
  <2>3. QED
    BY <1>10, <2>1, <2>2
<1>16. QED
  BY <1>1, <1>13, <1>14, <1>15, ReceiverKeeps

\* The probe names the first object that answers, and takes nothing.
LEMMA ProbeStep ==
  ASSUME MailInv, NEW s \in Senders, NEW k \in 1..Len(chan[s]), Probe(s, k)
  PROVE  MailInv'
<1>1. /\ rpc = "probe" /\ Oldest(s, k) /\ rpc' = "data"
      /\ prog' = prog /\ next' = next /\ sent' = sent /\ chan' = chan
      /\ data' = data /\ got' = got /\ Objects' = Objects
      /\ UNCHANGED <<prog, svars>>
  BY DEF Probe, svars, Objects
<1>2. prog \in Programs /\ CallOK /\ call \in Calls /\ Suits(prog, call)
      /\ next[s] \in Nat /\ sent[s] \in Int /\ chan \in [Senders -> Seq(Messages)]
  BY <1>1 DEF MailInv, TypesOK, CallOK
<1>3. ~ call.check /\ call.method = "default" /\ data = Empty
  BY <1>1 DEF MailInv, ReceiverOK
<1>4. PICK q \in Seq(Nat \X Int), p \in Parts(s) :
           /\ Carries(s, q) /\ q[k] = p /\ chan[s][k] = AsMessage(s, p)
           /\ Posted(s, p[1], p[2]) /\ ~ Taken(s, p)
           /\ Answers(prog, call, s, p[1])
           /\ \A x \in Parts(s) :
                Posted(s, x[1], x[2]) /\ ~ Taken(s, x) /\ Answers(prog, call, s, x[1])
                  => x = p \/ Before(p, x)
  BY <1>1, OldestPart
<1>5. p[2] = 0 /\ ~ HasGot(s, p[1]) /\ First(s, p[1])
  <2>1. p[2] = (IF call.check THEN -1 ELSE 0) /\ ~ HasGot(s, p[1]) /\ First(s, p[1])
    BY <1>1, <1>4, TakesFirst
  <2>2. QED
    BY <1>3, <2>1
<1>6. /\ p = <<p[1], p[2]>> /\ p[1] \in 1..Len(Objects[s]) /\ p[1] \in Nat
      /\ Objects[s][p[1]].tag \in Nat /\ Objects[s][p[1]].len \in Nat
  BY <1>2, PartTypes, ProgramTypes
<1>7. PICK i \in 1..Len(Objects[s]) : i = p[1]
  BY <1>6
<1>8. /\ ~ Objects[s][i].check
      /\ Objects[s][i].type = "raw.object" /\ Objects[s][i].len <= MaxLen
  <2>1. Answers(prog, call, s, i) /\ i \in 1..Len(prog.objects[s])
    BY <1>4, <1>7 DEF Objects
  <2>2. /\ prog.objects[s][i].check = call.check
        /\ ~ call.check => (call.method = "default" =>
             prog.objects[s][i].type = "raw.object" /\ prog.objects[s][i].len <= MaxLen)
    BY <1>2, <2>1 DEF Suits
  <2>3. QED
    BY <1>3, <2>2 DEF Objects
<1>9. chan[s][k] = [kind |-> "data", id |-> i, tag |-> Objects[s][i].tag,
                    type |-> "raw.object", count |-> Objects[s][i].len]
  <2>1. Segment(Objects[s][i].len - 0) = Objects[s][i].len
    BY <1>6, <1>7, <1>8, MaxLenAssumption DEF Segment
  <2>2. QED
    BY <1>4, <1>5, <1>7, <1>8, <2>1 DEF AsMessage
<1>10. Bytes(chan[s][k]) = Objects[s][i].len
  <2>1. Bytes(chan[s][k]) = Objects[s][i].len * Width["raw.object"]
    BY <1>9 DEF Bytes
  <2>2. Width["raw.object"] = 1
    BY DEF Width, Types
  <2>3. QED
    BY <1>6, <1>7, <2>1, <2>2
<1>11. /\ head' = [from |-> s, id |-> i, type |-> "raw.object"]
       /\ call' = [call EXCEPT !.source = s, !.tag = Objects[s][i].tag]
       /\ buf' = Allocate("raw", Objects[s][i].len)
       /\ want' = Objects[s][i].len
  BY <1>9, <1>10 DEF Probe
<1>12. /\ call' \in Calls /\ call'.source = s /\ call'.tag = Objects[s][i].tag
       /\ call'.check = call.check /\ call'.method = call.method
  BY <1>2, <1>6, <1>7, <1>11 DEF Calls
<1>13. ASSUME NEW t \in Senders, NEW j \in 1..Len(Objects[t]), Answers(prog, call, t, j)'
       PROVE  t = s /\ Answers(prog, call, t, j)
  <2>1. /\ s \in {t, AnySource}
        /\ Objects[s][i].tag \in {AnyTag, Objects[t][j].tag}
    BY <1>1, <1>12, <1>13 DEF Answers, Objects
  <2>2. t = s /\ Objects[t][j].tag = Objects[s][i].tag
    BY <1>6, <1>7, <2>1, WildcardsAssumption
  <2>3. Answers(prog, call, s, i)
    BY <1>4, <1>7
  <2>4. QED
    BY <2>2, <2>3 DEF Answers, Objects
<1>14. Answers(prog, call, s, i)'
  BY <1>1, <1>12 DEF Answers, Objects
<1>15. CallOK'
  <2>1. ASSUME NEW t \in Senders, NEW j \in 1..Len(Objects[t]), Answers(prog, call, t, j)'
        PROVE  /\ Objects[t][j].check = call.check /\ ~ call.check
               /\ Objects[t][j].len > 0 /\ call.method = "default"
               /\ Objects[t][j].type = "raw.object" /\ Objects[t][j].len <= MaxLen
    <3>1. Answers(prog, call, t, j) /\ j \in 1..Len(prog.objects[t])
      BY <1>13, <2>1 DEF Objects
    <3>2. /\ prog.objects[t][j].check = call.check
          /\ ~ call.check =>
               /\ prog.objects[t][j].len > 0
               /\ call.method = "default" =>
                    prog.objects[t][j].type = "raw.object" /\ prog.objects[t][j].len <= MaxLen
      BY <1>2, <3>1 DEF Suits
    <3>3. QED
      BY <1>3, <3>2 DEF Objects
  <2>2. \A t \in Senders : \A j \in 1..Len(Objects[t]) : Objects[t][j].len \in Nat
    BY <1>2, ProgramTypes
  <2>3. Suits(prog, call)'
    <3>1. ASSUME NEW t \in Senders, NEW j \in 1..Len(prog.objects[t]), Answers(prog', call', t, j)
          PROVE  /\ prog.objects[t][j].check = call'.check
                 /\ ~ (call'.check \/ prog.objects[t][j].len > MaxLen)
                 /\ prog.objects[t][j].len > 0 /\ call'.method = "default"
                 /\ prog.objects[t][j].type = "raw.object" /\ prog.objects[t][j].len <= MaxLen
      <4>1. Answers(prog, call, t, j)'
        BY <3>1
      <4>2. t \in Senders /\ j \in 1..Len(Objects[t])
        BY <3>1 DEF Objects
      <4>3. /\ Objects[t][j].check = call.check /\ ~ call.check
            /\ Objects[t][j].len > 0 /\ call.method = "default"
            /\ Objects[t][j].type = "raw.object" /\ Objects[t][j].len <= MaxLen
            /\ Objects[t][j].len \in Nat
        BY <2>1, <2>2, <4>1, <4>2
      <4>4. ~ (Objects[t][j].len > MaxLen)
        BY <4>3, MaxLenAssumption
      <4>5. QED
        BY <1>12, <4>3, <4>4 DEF Objects
    <3>2. QED
      BY <1>1, <3>1 DEF Suits
  <2>4. QED
    BY <1>1, <1>12, <1>14, <2>3 DEF CallOK
<1>16. \A t, j : HasGot(t, j)' <=> HasGot(t, j)
  BY <1>1 DEF HasGot
<1>17. Holding(s, i)'
  <2>1. First(s, i)'
    BY <1>1, <1>5, <1>7, <1>13, <1>16 DEF First
  <2>2. Alone(s)'
    BY <1>1, <1>13 DEF Alone
  <2>3. data'.filled = 0 /\ data'.origins = {} /\ 0 \in Offsets /\ 0 \in Nat
    BY <1>1, <1>3, OffsetsStep DEF Empty
  <2>4. PostedUpTo(s, i, data.filled)'
    <3>1. Posted(s, i, 0)
      BY <1>4, <1>5, <1>7
    <3>2. QED
      BY <1>1, <1>2, <2>3, <3>1 DEF Posted, PostedUpTo
  <2>5. buf'.type = "raw" /\ VectorType("raw.object") = "raw" /\ buf'.len = Objects[s][i].len
    BY <1>11 DEF Allocate, VectorType
  <2>6. want' \in Nat /\ data'.filled + want' = Objects[s][i].len
    BY <1>6, <1>7, <1>11, <2>3
  <2>7. ~ HasGot(s, i)'
    BY <1>5, <1>7, <1>16
  <2>8. QED
    BY <1>1, <1>8, <1>11, <1>14, <2>1, <2>2, <2>3, <2>4, <2>5, <2>6, <2>7 DEF Holding
<1>18. ASSUME NEW t \in Senders PROVE ChannelOK(t)'
  <2>1. \A x : Taken(t, x) <=> HasGot(t, x[1])
    BY <1>1, NothingHeld
  <2>2. \A x : Taken(t, x)' <=> HasGot(t, x[1]) \/ (t = s /\ x[1] = i /\ x[2] < 0)
    BY <1>1, <1>3, <1>11, <1>16 DEF Taken, Holds, Empty
  <2>3. ASSUME NEW x \in Parts(t), t = s, x[1] = i PROVE ~ (x[2] < 0)
    <3>1. x[2] # -1 /\ (x[2] # -1 => x[2] \in Nat)
      BY <1>2, <1>8, <2>3, PartTypes
    <3>2. QED
      BY <3>1
  <2>4. \A x \in Parts(t) : (Posted(t, x[1], x[2]) /\ ~ Taken(t, x))'
                               <=> Posted(t, x[1], x[2]) /\ ~ Taken(t, x)
    BY <1>1, <2>1, <2>2, <2>3 DEF Posted
  <2>5. ChannelOK(t) /\ chan'[t] = chan[t]
    BY <1>1 DEF MailInv
  <2>6. QED
    BY <1>1, <2>4, <2>5, SameChannel
<1>19. ReceiverOK'
  BY <1>1, <1>17 DEF ReceiverOK
<1>20. QED
  BY <1>1, <1>2, <1>15, <1>18, <1>19, ReceiverKeeps

\* Sent beyond the beginning of a segment is sent up to its end.
LEMMA WholeSegments ==
  ASSUME MailInv, NEW s \in Senders, NEW i \in 1..Len(Objects[s]), NEW o \in Offsets,
         o < Objects[s][i].len, Posted(s, i, o)
  PROVE  PostedUpTo(s, i, o + Segment(Objects[s][i].len - o))
<1>1. /\ prog \in Programs /\ SenderOK(s) /\ next[s] \in Nat /\ sent[s] \in Int
  BY DEF MailInv, TypesOK
<1>2. Objects[s][i].len \in Nat /\ MaxLen \in Nat \ {0} /\ o \in Nat
  BY <1>1, ProgramTypes, MaxLenAssumption, OffsetsStep
<1>3. CASE i < next[s]
  BY <1>3 DEF PostedUpTo
<1>4. CASE i = next[s] /\ o < sent[s]
  <2>1. sent[s] # -1
    BY <1>2, <1>4
  <2>2. sent[s] \in Offsets
    BY <1>1, <2>1 DEF SenderOK
  <2>3. o + MaxLen <= sent[s]
    BY <1>4, <2>2, OffsetsStep
  <2>4. o + Segment(Objects[s][i].len - o) <= sent[s]
    BY <1>1, <1>2, <2>3 DEF Segment
  <2>5. QED
    BY <1>4, <2>4 DEF PostedUpTo
<1>5. QED
  BY <1>3, <1>4 DEF Posted

\* A segment fits the buffer that was made for its object.
LEMMA SegmentFits ==
  ASSUME NEW m, NEW t \in Types, NEW n \in Nat, NEW b, b = VectorType(t),
         m.kind = "data", m.type = t, m.count = n
  PROVE  ~ (Bytes(m) > n * Width[b])
<1>1. Bytes(m) = n * Width[t]
  BY DEF Bytes
<1>2. b \in Types /\ Width[t] = Width[b]
  BY DEF VectorType, Types, Width
<1>3. Width[b] \in Nat
  BY <1>2 DEF Types, Width
<1>4. n * Width[b] \in Nat
  BY <1>3, Product
<1>5. QED
  BY <1>1, <1>2, <1>4

LEMMA SegmentLength ==
  ASSUME NEW w \in Nat, w > 0, NEW n, n = Segment(w)
  PROVE  /\ n \in Nat /\ 0 < n /\ n <= w /\ n <= MaxLen /\ (n = w \/ n = MaxLen)
         /\ w <= MaxLen => n = w
BY MaxLenAssumption DEF Segment

\* Of the parts of an object only the one at o is in the segment from o on.
LEMMA WithinSegment ==
  ASSUME NEW o \in Offsets, NEW n \in Nat, 0 < n, n <= MaxLen,
         NEW a \in Int, a = -1 \/ a \in Offsets
  PROVE  a < o + n <=> a < o \/ a = o
<1>1. o \in Nat /\ MaxLen \in Nat
  BY OffsetsStep, MaxLenAssumption
<1>2. CASE a = -1
  BY <1>1, <1>2
<1>3. CASE a \in Offsets
  <2>1. o < a => o + MaxLen <= a
    BY <1>3, OffsetsStep
  <2>2. QED
    BY <1>1, <2>1
<1>4. QED
  BY <1>2, <1>3

LEMMA Onward ==
  ASSUME NEW o \in Nat, NEW n \in Nat, NEW w \in Nat, n <= w
  PROVE  /\ w - n \in Nat /\ o + n \in Nat
         /\ (o + n) + (w - n) = o + w
OBVIOUS

\* What was received of object i of s, and nothing else of what recv() has not
\* returned.
OnlyOf(s, i) ==
  \A t \in Senders : \A x \in Parts(t) :
    Taken(t, x) <=> HasGot(t, x[1]) \/ (t = s /\ x[1] = i /\ x[2] < data.filled)

LEMMA WhatIsLeft ==
  ASSUME NEW len \in Nat, NEW o \in Nat, NEW w \in Nat, w > 0, o + w = len
  PROVE  o # -1 /\ o < len /\ len - o = w
OBVIOUS

\* The C loop takes the next segment of the object.
LEMMA NextSegment ==
  ASSUME MailInv, NEW s \in Senders, NEW k \in 1..Len(chan[s]), RecvSegment(s, k),
         NEW q \in Seq(Nat \X Int), NEW p \in Parts(s),
         Carries(s, q), q[k] = p, chan[s][k] = AsMessage(s, p), Posted(s, p[1], p[2]),
         NEW i \in 1..Len(Objects[s]), p[1] = i, p[2] = data.filled,
         Answers(prog, call, s, i), ~ HasGot(s, i), First(s, i),
         want <= MaxLen \/ Alone(s),
         data.filled \in Offsets, want \in Nat, data.filled + want = Objects[s][i].len,
         buf.type = VectorType(Objects[s][i].type), buf.len = Objects[s][i].len,
         data.origins \subseteq {<<s, i, "data">>},
         \/ head = Unknown(call) /\ call.method = Objects[s][i].type
         \/ head = [from |-> s, id |-> i, type |-> Objects[s][i].type],
         OnlyOf(s, i)
  PROVE  MailInv'
<1>1. /\ rpc = "data" /\ want > 0 /\ Take(s, k) /\ UNCHANGED <<prog, svars>>
      /\ prog' = prog /\ next' = next /\ sent' = sent
      /\ call' = call /\ buf' = buf /\ got' = got /\ Objects' = Objects
  BY DEF RecvSegment, svars, Objects
<1>2. prog \in Programs /\ CallOK /\ call \in Calls /\ Suits(prog, call)
      /\ next[s] \in Nat /\ sent[s] \in Int
  BY <1>1 DEF MailInv, TypesOK, CallOK
<1>3. /\ Objects[s][i].type \in Types /\ Objects[s][i].len \in Nat /\ data.filled \in Nat
      /\ MaxLen \in Nat \ {0} /\ i \in Nat /\ i # 0
  <2>1. Len(Objects[s]) \in Nat /\ Objects[s][i].type \in Types /\ Objects[s][i].len \in Nat
    BY <1>2, ProgramTypes
  <2>2. QED
    BY <2>1, OffsetsStep, MaxLenAssumption
<1>4. PICK o \in Nat : o = data.filled
  BY <1>3
<1>5. PICK n : n = Segment(want)
  OBVIOUS
<1>6. /\ n \in Nat /\ 0 < n /\ n <= want /\ n <= MaxLen /\ (n = want \/ n = MaxLen)
      /\ want <= MaxLen => n = want
  <2>1. want \in Nat /\ want > 0
    BY <1>1
  <2>2. QED
    BY <1>5, <2>1, SegmentLength
<1>7. p[1] = i /\ p[2] = o /\ o # -1 /\ o < Objects[s][i].len /\ Objects[s][i].len - o = want
  <2>1. p[1] = i /\ p[2] = o /\ o + want = Objects[s][i].len
    BY <1>4
  <2>2. want \in Nat /\ want > 0
    BY <1>1
  <2>3. PICK len \in Nat, w \in Nat : len = Objects[s][i].len /\ w = want
    BY <1>3, <2>2
  <2>4. w > 0 /\ o + w = len
    BY <2>1, <2>2, <2>3
  <2>5. o # -1 /\ o < len /\ len - o = w
    BY <2>4, WhatIsLeft
  <2>6. QED
    BY <2>1, <2>3, <2>5
<1>8. /\ chan[s][k].kind = "data" /\ chan[s][k].id = i /\ chan[s][k].count = n
      /\ chan[s][k].type = Objects[s][i].type
  BY <1>5, <1>7 DEF AsMessage
<1>9. ~ (Bytes(chan[s][k]) > n * Width[buf.type])
  BY <1>3, <1>6, <1>8, SegmentFits
<1>10. /\ want' = want - n
       /\ data' = [origins |-> data.origins \cup {<<s, i, "data">>}, filled |-> data.filled + n]
       /\ head' = IF head.id = 0 THEN [head EXCEPT !.from = s, !.id = i] ELSE head
       /\ rpc' = "data"
  BY <1>1, <1>5, <1>8, <1>9 DEF RecvSegment, Segment
<1>11. head' = [from |-> s, id |-> i, type |-> Objects[s][i].type]
  <2>1. CASE head = Unknown(call) /\ call.method = Objects[s][i].type
    BY <1>10, <2>1 DEF Unknown
  <2>2. CASE head = [from |-> s, id |-> i, type |-> Objects[s][i].type]
    BY <1>3, <1>10, <2>2
  <2>3. QED
    BY <2>1, <2>2
<1>12. \A t, j : HasGot(t, j)' <=> HasGot(t, j)
  BY <1>1 DEF HasGot
<1>13. /\ data'.origins \subseteq {<<s, i, "data">>}
       /\ data'.filled = o + n /\ o + n \in Nat
       /\ want' \in Nat /\ (o + n) + want' = Objects[s][i].len
  <2>1. data'.origins = data.origins \cup {<<s, i, "data">>} /\ data'.filled = data.filled + n
    BY <1>10
  <2>2. data'.origins \subseteq {<<s, i, "data">>}
    BY <2>1
  <2>3. o + want = Objects[s][i].len /\ want' = want - n
    BY <1>4, <1>10
  <2>4. data'.filled = o + n
    BY <1>4, <2>1
  <2>5. want - n \in Nat /\ o + n \in Nat /\ (o + n) + (want - n) = o + want
    BY <1>6, Onward
  <2>6. QED
    BY <2>2, <2>3, <2>4, <2>5
<1>14. PostedUpTo(s, i, data.filled)'
  <2>1. Posted(s, i, o) /\ o \in Offsets /\ Segment(Objects[s][i].len - o) = n
    BY <1>4, <1>5, <1>7
  <2>2. PostedUpTo(s, i, o + n)
    BY <1>7, <2>1, WholeSegments
  <2>3. QED
    BY <1>1, <1>13, <2>2 DEF PostedUpTo
<1>15. Holding(s, i)'
  <2>1. Answers(prog, call, s, i)' /\ (Alone(s) => Alone(s)')
    BY <1>1 DEF Answers, Alone
  <2>2. First(s, i)' /\ ~ HasGot(s, i)'
    BY <1>1, <1>12 DEF First, Answers
  <2>3. want' = 0 \/ (Alone(s)' /\ data'.filled \in Offsets)
    <3>1. CASE n = want
      BY <1>6, <1>10, <3>1
    <3>2. CASE n # want
      <4>1. n = MaxLen /\ ~ (want <= MaxLen)
        BY <1>6, <3>2
      <4>2. o + MaxLen \in Offsets
        BY <1>4, OffsetsStep
      <4>3. QED
        BY <1>13, <2>1, <4>1, <4>2
    <3>3. QED
      BY <3>1, <3>2
  <2>4. head' = [from |-> s, id |-> i, type |-> Objects'[s][i].type]
        /\ buf'.type = VectorType(Objects'[s][i].type) /\ buf'.len = Objects'[s][i].len
    BY <1>1, <1>11
  <2>5. /\ data'.filled \in Nat /\ want' \in Nat /\ data'.filled + want' = Objects'[s][i].len
        /\ data'.origins \subseteq {<<s, i, "data">>}
    BY <1>1, <1>13
  <2>6. QED
    BY <1>14, <2>1, <2>2, <2>3, <2>4, <2>5 DEF Holding
<1>16. ReceiverOK'
  BY <1>1, <1>10, <1>15 DEF ReceiverOK
<1>17. CallOK'
  <2>1. prog' = prog /\ call' = call /\ rpc' # "idle" /\ Objects' = Objects
    BY <1>1, <1>10
  <2>2. Suits(prog, call)' <=> Suits(prog, call)
    BY <2>1 DEF Suits, Answers
  <2>3. Answers(prog, call, s, i)'
    BY <2>1 DEF Answers
  <2>4. QED
    BY <1>2, <2>1, <2>2, <2>3 DEF CallOK
<1>18. /\ chan' \in [Senders -> Seq(Messages)] /\ \A t \in Senders : ChannelOK(t)'
  <2>1. ASSUME NEW t, NEW x
        PROVE  Taken(t, x)' <=> HasGot(t, x[1]) \/ (t = s /\ x[1] = i /\ x[2] < o + n)
    <3>1. rpc' = "data" /\ head'.from = s /\ head'.id = i /\ data'.filled = o + n
      BY <1>10, <1>11, <1>13
    <3>2. HasGot(t, x[1])' <=> HasGot(t, x[1])
      BY <1>12
    <3>3. QED
      BY <3>1, <3>2 DEF Taken, Holds
  <2>2. ASSUME NEW x \in Parts(s) PROVE Taken(s, x)' <=> Taken(s, x) \/ x = p
    <3>1. x = <<x[1], x[2]>> /\ x[2] \in Int /\ (x[2] = -1 \/ x[2] \in Offsets)
      BY <1>2, PartTypes
    <3>2. x = p <=> x[1] = i /\ x[2] = o
      <4>1. p = <<i, o>>
        BY <1>2, <1>4, PartTypes
      <4>2. QED
        BY <3>1, <4>1
    <3>3. Taken(s, x) <=> HasGot(s, x[1]) \/ (x[1] = i /\ x[2] < o)
      BY <1>4 DEF OnlyOf
    <3>4. x[1] = i => (x[2] < o + n <=> x[2] < o \/ x[2] = o)
      <4>2. x[2] \in Int /\ o \in Nat /\ n \in Nat /\ 0 < n /\ n <= MaxLen /\ MaxLen \in Nat
        BY <1>3, <1>6, <3>1
      <4>3. x[2] = -1 \/ x[2] \in Offsets
        BY <3>1
      <4>4. x[2] < o + n <=> x[2] < o \/ x[2] = o
        BY <1>4, <4>2, <4>3, WithinSegment
      <4>5. QED
        BY <4>4
    <3>5. QED
      BY <2>1, <3>2, <3>3, <3>4
  <2>3. \A t \in Senders : t # s => \A x \in Parts(t) : Taken(t, x)' <=> Taken(t, x)
    BY <2>1 DEF OnlyOf
  <2>4. Take(s, k) /\ Carries(s, q) /\ q[k] = p /\ UNCHANGED <<prog, svars>>
    BY <1>1
  <2>5. \A x \in Parts(s) : Taken(s, x)' <=> Taken(s, x) \/ x = p
    BY <2>2
  <2>6. QED
    BY <2>3, <2>4, <2>5, ChannelsAfter
<1>19. QED
  BY <1>1, <1>16, <1>17, <1>18, ReceiverKeeps

\* The first segment of an object that comes without a header.
LEMMA RecvFreshSegment ==
  ASSUME MailInv, NEW s \in Senders, NEW k \in 1..Len(chan[s]), RecvSegment(s, k), Fresh
  PROVE  MailInv'
<1>1. rpc = "data" /\ want > 0 /\ Oldest(s, k)
  BY DEF RecvSegment
<1>2. prog \in Programs /\ CallOK /\ call \in Calls /\ Suits(prog, call)
  BY <1>1 DEF MailInv, TypesOK, CallOK
<1>3. PICK q \in Seq(Nat \X Int), p \in Parts(s) :
           /\ Carries(s, q) /\ q[k] = p /\ chan[s][k] = AsMessage(s, p)
           /\ Posted(s, p[1], p[2]) /\ ~ Taken(s, p)
           /\ Answers(prog, call, s, p[1])
           /\ \A x \in Parts(s) :
                Posted(s, x[1], x[2]) /\ ~ Taken(s, x) /\ Answers(prog, call, s, x[1])
                  => x = p \/ Before(p, x)
  BY <1>1, OldestPart
<1>4. /\ ~ call.check /\ call.method # "default" /\ head = Unknown(call)
      /\ buf = call.buffer /\ want = buf.len /\ data.filled = 0 /\ data.origins = {}
  BY DEF Fresh, Empty
<1>5. p[2] = 0 /\ ~ HasGot(s, p[1]) /\ First(s, p[1])
  <2>1. p[2] = (IF call.check THEN -1 ELSE 0) /\ ~ HasGot(s, p[1]) /\ First(s, p[1])
    BY <1>1, <1>3, TakesFirst
  <2>2. QED
    BY <1>4, <2>1
<1>6. PICK i \in 1..Len(Objects[s]) : i = p[1]
  BY <1>2, PartTypes
<1>7. Answers(prog, call, s, i) /\ i \in 1..Len(prog.objects[s])
  BY <1>3, <1>6 DEF Objects
<1>8. /\ Objects[s][i].type \in Types /\ Objects[s][i].len \in Nat /\ MaxLen \in Nat
      /\ Objects[s][i].check \in BOOLEAN
  BY <1>2, ProgramTypes, MaxLenAssumption
<1>9. /\ ~ Objects[s][i].check
      /\ Objects[s][i].len > MaxLen => Alone(s)
      /\ call.method = Objects[s][i].type
      /\ call.buffer = [type |-> Objects[s][i].type, len |-> Objects[s][i].len]
  <2>1. /\ Objects[s][i].check = call.check
        /\ call.check \/ Objects[s][i].len > MaxLen =>
             \A t \in Senders : \A j \in 1..Len(prog.objects[t]) : Answers(prog, call, t, j) => t = s
        /\ ~ call.check =>
             (call.method # "default" =>
                call.method = Objects[s][i].type
                /\ call.buffer = [type |-> Objects[s][i].type, len |-> Objects[s][i].len])
    BY <1>2, <1>7 DEF Suits, Objects
  <2>2. Objects[s][i].len > MaxLen => Alone(s)
    BY <2>1 DEF Alone, Objects
  <2>3. QED
    BY <1>4, <2>1, <2>2
<1>10. VectorType(Objects[s][i].type) = Objects[s][i].type
  BY <1>2, <1>9 DEF VectorType, Calls, Methods
<1>11. /\ buf.type = VectorType(Objects[s][i].type) /\ buf.len = Objects[s][i].len
       /\ want \in Nat /\ data.filled + want = Objects[s][i].len
       /\ want <= MaxLen \/ Alone(s)
       /\ data.filled \in Offsets
       /\ data.origins \subseteq {<<s, i, "data">>}
  <2>1. want = Objects[s][i].len /\ buf.type = Objects[s][i].type /\ buf.len = Objects[s][i].len
    BY <1>4, <1>9
  <2>2. want <= MaxLen \/ Alone(s)
    BY <1>8, <1>9, <2>1
  <2>3. data.filled + want = Objects[s][i].len
    BY <1>4, <1>8, <2>1
  <2>4. QED
    BY <1>4, <1>8, <1>10, <2>1, <2>2, <2>3, OffsetsStep
<1>12. OnlyOf(s, i)
  <2>1. ASSUME NEW t \in Senders, NEW x \in Parts(t)
        PROVE  /\ Taken(t, x) <=> HasGot(t, x[1])
               /\ ~ (t = s /\ x[1] = i /\ x[2] < 0)
    <3>1. Taken(t, x) <=> HasGot(t, x[1])
      BY <1>1, NothingHeld
    <3>2. (x[2] = -1 => Objects[t][x[1]].check) /\ (x[2] # -1 => x[2] \in Nat)
      BY <1>2, PartTypes
    <3>3. ~ (t = s /\ x[1] = i /\ x[2] < 0)
      BY <1>9, <3>2
    <3>4. QED
      BY <3>1, <3>3
  <2>2. QED
    BY <1>4, <2>1 DEF OnlyOf
<1>13. /\ Carries(s, q) /\ q[k] = p /\ chan[s][k] = AsMessage(s, p) /\ Posted(s, p[1], p[2])
       /\ p[1] = i /\ p[2] = data.filled
       /\ Answers(prog, call, s, i) /\ ~ HasGot(s, i) /\ First(s, i)
       /\ head = Unknown(call) /\ call.method = Objects[s][i].type
  BY <1>3, <1>4, <1>5, <1>6, <1>7, <1>9
<1>14. QED
  BY <1>11, <1>12, <1>13, NextSegment

\* The next segment of an object that was received up to an offset.
LEMMA RecvHeldSegment ==
  ASSUME MailInv, NEW s \in Senders, NEW k \in 1..Len(chan[s]), RecvSegment(s, k),
         NEW r \in Senders, NEW i \in 1..Len(Objects[r]), Holding(r, i)
  PROVE  MailInv'
<1>1. rpc = "data" /\ want > 0 /\ Oldest(s, k)
  BY DEF RecvSegment
<1>2. /\ prog \in Programs /\ CallOK /\ call \in Calls /\ Suits(prog, call)
      /\ next[s] \in Nat /\ sent[s] \in Int
  BY <1>1 DEF MailInv, TypesOK, CallOK
<1>3. PICK q \in Seq(Nat \X Int), p \in Parts(s) :
           /\ Carries(s, q) /\ q[k] = p /\ chan[s][k] = AsMessage(s, p)
           /\ Posted(s, p[1], p[2]) /\ ~ Taken(s, p)
           /\ Answers(prog, call, s, p[1])
           /\ \A x \in Parts(s) :
                Posted(s, x[1], x[2]) /\ ~ Taken(s, x) /\ Answers(prog, call, s, x[1])
                  => x = p \/ Before(p, x)
  BY <1>1, OldestPart
<1>4. /\ head = [from |-> r, id |-> i, type |-> Objects[r][i].type]
      /\ Answers(prog, call, r, i) /\ ~ HasGot(r, i) /\ First(r, i)
      /\ want = 0 \/ (Alone(r) /\ data.filled \in Offsets)
      /\ buf.type = VectorType(Objects[r][i].type) /\ buf.len = Objects[r][i].len
      /\ data.origins \subseteq {<<r, i, "data">>}
      /\ data.filled \in Nat /\ want \in Nat /\ data.filled + want = Objects[r][i].len
      /\ PostedUpTo(r, i, data.filled)
  BY DEF Holding
<1>5. Alone(r) /\ data.filled \in Offsets
  BY <1>1, <1>4
<1>6. /\ p = <<p[1], p[2]>> /\ p[1] \in 1..Len(Objects[s]) /\ p[1] \in Nat /\ p[2] \in Int
  BY <1>2, PartTypes
<1>7. s = r
  BY <1>3, <1>5, <1>6 DEF Alone
<1>8. Objects[s][i].len \in Nat /\ i \in 1..Len(Objects[s]) /\ i \in Nat
  <2>1. Objects[s][i].len \in Nat /\ i \in 1..Len(Objects[s]) /\ Len(Objects[s]) \in Nat
    BY <1>2, <1>7, ProgramTypes
  <2>2. QED
    BY <2>1
<1>9. \A x : Taken(s, x) <=> HasGot(s, x[1]) \/ (x[1] = i /\ x[2] < data.filled)
  BY <1>1, <1>4, <1>7 DEF Taken, Holds
<1>10. PICK x \in Parts(s) : x = <<i, data.filled>> /\ x[1] = i /\ x[2] = data.filled
  <2>1. data.filled # -1 /\ data.filled < Objects[s][i].len
    BY <1>1, <1>4, <1>7
  <2>2. <<i, data.filled>> \in Parts(s)
    BY <1>5, <1>8, <2>1 DEF Parts
  <2>3. QED
    BY <2>2
<1>11. ~ Taken(s, x)
  <2>1. ~ (data.filled < data.filled)
    BY <1>4
  <2>2. Taken(s, x) <=> HasGot(s, i) \/ data.filled < data.filled
    BY <1>9, <1>10
  <2>3. QED
    BY <1>4, <1>7, <2>1, <2>2
<1>12. ~ (p[1] < i)
  <2>1. ASSUME p[1] < i PROVE HasGot(s, p[1])
    BY <1>3, <1>4, <1>6, <1>7, <2>1 DEF First
  <2>2. QED
    BY <1>3, <1>9, <2>1
<1>13. p[1] = i => data.filled <= p[2]
  BY <1>3, <1>4, <1>6, <1>9
<1>14. Posted(s, x[1], x[2])
  <2>1. p[1] < next[s] \/ (p[1] = next[s] /\ p[2] < sent[s])
    BY <1>3 DEF Posted
  <2>2. i < next[s] \/ (i = next[s] /\ data.filled < sent[s])
    BY <1>2, <1>4, <1>6, <1>8, <1>12, <1>13, <2>1
  <2>3. QED
    BY <1>10, <2>2 DEF Posted
<1>15. x = p
  <2>1. Answers(prog, call, s, x[1])
    BY <1>4, <1>7, <1>10
  <2>2. x = p \/ Before(p, x)
    BY <1>3, <1>11, <1>14, <2>1
  <2>3. ~ Before(p, x)
    BY <1>4, <1>6, <1>8, <1>10, <1>12, <1>13 DEF Before
  <2>4. QED
    BY <2>2, <2>3
<1>16. OnlyOf(s, i)
  <2>1. ASSUME NEW t \in Senders, NEW y \in Parts(t)
        PROVE  Taken(t, y) <=> HasGot(t, y[1]) \/ (t = s /\ y[1] = i /\ y[2] < data.filled)
    BY <1>1, <1>4, <1>7 DEF Taken, Holds
  <2>2. QED
    BY <2>1 DEF OnlyOf
<1>17. /\ Carries(s, q) /\ q[k] = p /\ chan[s][k] = AsMessage(s, p) /\ Posted(s, p[1], p[2])
       /\ p[1] = i /\ p[2] = data.filled
       /\ Answers(prog, call, s, i) /\ ~ HasGot(s, i) /\ First(s, i) /\ Alone(s)
       /\ data.filled \in Offsets /\ want \in Nat /\ data.filled + want = Objects[s][i].len
       /\ buf.type = VectorType(Objects[s][i].type) /\ buf.len = Objects[s][i].len
       /\ data.origins \subseteq {<<s, i, "data">>}
       /\ head = [from |-> s, id |-> i, type |-> Objects[s][i].type]
  BY <1>3, <1>4, <1>5, <1>7, <1>10, <1>15
<1>18. QED
  BY <1>8, <1>16, <1>17, NextSegment

LEMMA RecvSegmentStep ==
  ASSUME MailInv, NEW s \in Senders, NEW k \in 1..Len(chan[s]), RecvSegment(s, k)
  PROVE  MailInv'
<1>1. rpc = "data" /\ ReceiverOK
  BY DEF RecvSegment, MailInv
<1>2. CASE Fresh
  BY <1>2, RecvFreshSegment
<1>3. ASSUME NEW r \in Senders, NEW i \in 1..Len(Objects[r]), Holding(r, i)
      PROVE  MailInv'
  BY <1>3, RecvHeldSegment
<1>4. QED
  BY <1>1, <1>2, <1>3 DEF ReceiverOK

\* recv() returns an object that was sent whole, as it was sent.
Received(s, i) ==
  [from |-> s, id |-> i, type |-> Objects[s][i].type, len |-> Objects[s][i].len, whole |-> TRUE]

LEMMA ReturnsWhole ==
  ASSUME MailInv, Return
  PROVE  \E s \in Senders : \E i \in 1..Len(Objects[s]) :
           /\ Holding(s, i) /\ i < next[s] /\ data.filled = Objects[s][i].len
           /\ got' = Append(got, Received(s, i))
<1>1. rpc = "data" /\ want = 0 /\ prog \in Programs
  BY DEF Return, MailInv, TypesOK
<1>2. ASSUME Fresh PROVE FALSE
  <2>1. /\ Suits(prog, call) /\ ~ call.check /\ call.method # "default"
        /\ call.buffer.len = 0
    BY <1>1, <1>2 DEF MailInv, CallOK, Fresh
  <2>2. PICK s \in Senders : \E i \in 1..Len(Objects[s]) : Answers(prog, call, s, i)
    BY <1>1 DEF MailInv, CallOK
  <2>6. PICK i \in 1..Len(Objects[s]) : Answers(prog, call, s, i)
    BY <2>2
  <2>3. /\ Objects[s][i].len > 0
        /\ call.buffer = [type |-> Objects[s][i].type, len |-> Objects[s][i].len]
    BY <2>1, <2>6 DEF Suits, Objects
  <2>4. Objects[s][i].len \in Nat
    BY <1>1, ProgramTypes
  <2>5. QED
    BY <2>1, <2>3, <2>4
<1>0. PICK s \in Senders : \E i \in 1..Len(Objects[s]) : Holding(s, i)
  BY <1>1, <1>2 DEF MailInv, ReceiverOK
<1>3. PICK i \in 1..Len(Objects[s]) : Holding(s, i)
  BY <1>0
<1>4. /\ Objects[s][i].len \in Nat /\ SenderOK(s) /\ next[s] \in Nat /\ sent[s] \in Int
  BY <1>1, ProgramTypes DEF MailInv, TypesOK
<1>5. /\ head = [from |-> s, id |-> i, type |-> Objects[s][i].type]
      /\ buf.len = Objects[s][i].len
      /\ data.origins \subseteq {<<s, i, "data">>}
      /\ data.filled \in Nat /\ data.filled + want = Objects[s][i].len
      /\ PostedUpTo(s, i, data.filled)
  BY <1>3 DEF Holding
<1>6. data.filled = Objects[s][i].len
  BY <1>1, <1>4, <1>5
<1>7. i < next[s]
  <2>1. CASE i = next[s] /\ Objects[s][i].len <= sent[s]
    <3>1. sent[s] = -1 \/ sent[s] < Objects[s][i].len
      BY <1>4, <2>1 DEF SenderOK
    <3>2. QED
      BY <1>4, <2>1, <3>1
  <2>2. QED
    BY <1>5, <1>6, <2>1 DEF PostedUpTo
<1>8. got' = Append(got, Received(s, i))
  <2>1. (/\ data.origins \subseteq {<<head.from, head.id, "data">>}
         /\ data.filled = buf.len) = TRUE
    BY <1>5, <1>6
  <2>2. head.from = s /\ head.id = i /\ head.type = Objects[s][i].type
    BY <1>5
  <2>3. got' = Append(got,
          [from |-> head.from, id |-> head.id, type |-> head.type, len |-> buf.len,
           whole |-> /\ data.origins \subseteq {<<head.from, head.id, "data">>}
                     /\ data.filled = buf.len])
    BY DEF Return
  <2>4. QED
    BY <1>5, <2>1, <2>2, <2>3 DEF Received
<1>9. QED
  BY <1>3, <1>6, <1>7, <1>8

\* One value more was returned.
LEMMA OneMoreGot ==
  ASSUME got \in Seq(Returned), NEW g \in Returned, got' = Append(got, g)
  PROVE  /\ got' \in Seq(Returned) /\ Len(got') = Len(got) + 1 /\ Len(got) \in Nat
         /\ got'[Len(got) + 1] = g
         /\ \A k \in 1..Len(got) : got'[k] = got[k]
         /\ \A t, j : HasGot(t, j)' <=> HasGot(t, j) \/ (g.from = t /\ g.id = j)
<1>1. /\ got' \in Seq(Returned) /\ Len(got') = Len(got) + 1 /\ Len(got) \in Nat
      /\ got'[Len(got) + 1] = g
      /\ \A k \in 1..Len(got) : got'[k] = got[k]
  OBVIOUS
<1>2. ASSUME NEW t, NEW j PROVE HasGot(t, j)' <=> HasGot(t, j) \/ (g.from = t /\ g.id = j)
  <2>1. ASSUME HasGot(t, j) PROVE HasGot(t, j)'
    <3>1. PICK k \in 1..Len(got) : got[k].from = t /\ got[k].id = j
      BY <2>1 DEF HasGot
    <3>2. k \in 1..Len(got') /\ got'[k] = got[k]
      BY <1>1
    <3>3. QED
      BY <3>1, <3>2 DEF HasGot
  <2>2. ASSUME g.from = t, g.id = j PROVE HasGot(t, j)'
    <3>1. Len(got) + 1 \in 1..Len(got')
      BY <1>1
    <3>2. QED
      BY <1>1, <2>2, <3>1 DEF HasGot
  <2>3. ASSUME HasGot(t, j)' PROVE HasGot(t, j) \/ (g.from = t /\ g.id = j)
    <3>1. PICK k \in 1..Len(got') : got'[k].from = t /\ got'[k].id = j
      BY <2>3 DEF HasGot
    <3>2. k \in 1..Len(got) \/ k = Len(got) + 1
      BY <1>1
    <3>3. QED
      BY <1>1, <3>1, <3>2 DEF HasGot
  <2>4. QED
    BY <2>1, <2>2, <2>3
<1>3. QED
  BY <1>1, <1>2

LEMMA ReturnStep ==
  ASSUME MailInv, Return
  PROVE  MailInv'
<1>1. /\ rpc = "data" /\ rpc' = "idle" /\ prog' = prog /\ chan' = chan
      /\ next' = next /\ sent' = sent /\ Objects' = Objects
  BY DEF Return, svars, Objects
<1>2. /\ prog \in Programs /\ Agreed(prog) /\ chan \in [Senders -> Seq(Messages)]
      /\ next \in [Senders -> Nat] /\ sent \in [Senders -> Int] /\ got \in Seq(Returned)
  BY DEF MailInv, TypesOK
<1>0. PICK s \in Senders : \E i \in 1..Len(Objects[s]) :
         /\ Holding(s, i) /\ i < next[s] /\ data.filled = Objects[s][i].len
         /\ got' = Append(got, Received(s, i))
  BY ReturnsWhole
<1>3. PICK i \in 1..Len(Objects[s]) :
         /\ Holding(s, i) /\ i < next[s] /\ data.filled = Objects[s][i].len
         /\ got' = Append(got, Received(s, i))
  BY <1>0
<1>4. /\ i \in Nat /\ i \in 1..(next[s] - 1)
      /\ Objects[s][i].type \in Types /\ Objects[s][i].len \in Nat
  <2>1. Len(Objects[s]) \in Nat /\ Objects[s][i].type \in Types /\ Objects[s][i].len \in Nat
    BY <1>2, ProgramTypes
  <2>2. next[s] \in Nat
    BY <1>2
  <2>3. QED
    BY <1>3, <2>1, <2>2
<1>5. PICK g : g = Received(s, i)
  OBVIOUS
<1>6. /\ g \in Returned /\ g.from = s /\ g.id = i /\ g.whole = TRUE
      /\ g.type = Objects[s][i].type /\ g.len = Objects[s][i].len
  BY <1>4, <1>5 DEF Received, Returned
<1>7. /\ got' \in Seq(Returned) /\ Len(got') = Len(got) + 1 /\ Len(got) \in Nat
      /\ got'[Len(got) + 1] = g
      /\ \A k \in 1..Len(got) : got'[k] = got[k]
      /\ \A t, j : HasGot(t, j)' <=> HasGot(t, j) \/ (g.from = t /\ g.id = j)
  BY <1>2, <1>3, <1>5, <1>6, OneMoreGot
<1>8. TypesOK'
  <2>1. \A c : Suits(prog, c)' <=> Suits(prog, c)
    BY <1>1 DEF Suits, Answers
  <2>3. Agreed(prog)'
    BY <1>1, <1>2, <2>1 DEF Agreed
  <2>2. QED
    BY <1>1, <1>2, <1>7, <2>3 DEF TypesOK
<1>9. ASSUME NEW t \in Senders PROVE SenderOK(t)' /\ ChannelOK(t)'
  <2>1. SenderOK(t)'
    BY <1>1 DEF MailInv, SenderOK
  <2>2. \A x : Taken(t, x) <=> HasGot(t, x[1]) \/ (t = s /\ x[1] = i /\ x[2] < Objects[s][i].len)
    BY <1>1, <1>3 DEF Taken, Holds, Holding
  <2>3. \A x : Taken(t, x)' <=> HasGot(t, x[1]) \/ (t = s /\ x[1] = i)
    BY <1>1, <1>6, <1>7 DEF Taken, Holds
  <2>4. ASSUME NEW x \in Parts(t), t = s, x[1] = i PROVE x[2] < Objects[s][i].len
    <3>1. x[2] \in Int /\ (x[2] # -1 => x[2] < Objects[s][i].len)
      BY <1>2, <2>4, PartTypes
    <3>2. QED
      BY <1>4, <3>1
  <2>5. \A x \in Parts(t) : (Posted(t, x[1], x[2]) /\ ~ Taken(t, x))'
                               <=> Posted(t, x[1], x[2]) /\ ~ Taken(t, x)
    BY <1>1, <2>2, <2>3, <2>4 DEF Posted
  <2>6. ChannelOK(t) /\ chan'[t] = chan[t]
    BY <1>1 DEF MailInv
  <2>7. QED
    BY <1>1, <2>1, <2>5, <2>6, SameChannel
<1>10. \A k \in 1..Len(got)' : Faithful(got[k])'
  <2>1. ASSUME NEW f, Faithful(f) PROVE Faithful(f)'
    BY <1>1, <2>1 DEF Faithful
  <2>2. Faithful(g)
    BY <1>4, <1>6 DEF Faithful
  <2>3. \A k \in 1..Len(got) : Faithful(got[k])
    BY DEF MailInv
  <2>4. ASSUME NEW k \in 1..Len(got') PROVE Faithful(got'[k])
    <3>1. k \in 1..Len(got) \/ k = Len(got) + 1
      BY <1>7
    <3>2. QED
      BY <1>7, <2>2, <2>3, <3>1
  <2>5. QED
    BY <1>1, <2>1, <2>4 DEF Faithful
<1>11. CallOK' /\ ReceiverOK'
  BY <1>1 DEF CallOK, ReceiverOK
<1>12. QED
  BY <1>8, <1>9, <1>10, <1>11 DEF MailInv

------------------------------------------------------------------------------
(* The results                                                             *)

LEMMA MailInit ==
  ASSUME Init, \A p \in Programs : Agreed(p)
  PROVE  MailInv
<1>1. /\ prog \in Programs /\ chan = [s \in Senders |-> <<>>]
      /\ next = [s \in Senders |-> 1] /\ sent = [s \in Senders |-> -1]
      /\ rpc = "idle" /\ got = <<>>
  BY DEF Init
<1>2. TypesOK
  <2>1. chan \in [Senders -> Seq(Messages)] /\ got \in Seq(Returned)
    BY <1>1
  <2>2. next \in [Senders -> Nat]
    BY <1>1
  <2>3. -1 \in Int
    OBVIOUS
  <2>4. sent \in [Senders -> Int]
    BY <1>1, <2>3
  <2>5. QED
    BY <1>1, <2>1, <2>2, <2>4 DEF TypesOK
<1>3. ASSUME NEW s \in Senders PROVE SenderOK(s) /\ ChannelOK(s)
  <2>1. Len(Objects[s]) \in Nat /\ next[s] = 1 /\ sent[s] = -1 /\ chan[s] = <<>>
    BY <1>1, ProgramTypes
  <2>2. SenderOK(s)
    BY <2>1 DEF SenderOK
  <2>3. ASSUME NEW x \in Parts(s) PROVE ~ Posted(s, x[1], x[2])
    <3>1. x[1] \in 1..Len(Objects[s]) /\ (x[2] = -1 \/ x[2] \in Nat)
      BY <1>1, PartTypes
    <3>2. QED
      BY <2>1, <3>1 DEF Posted
  <2>4. Waiting(s) = {}
    BY <2>3 DEF Waiting
  <2>5. PICK q \in Seq(Nat \X Int) : q = <<>> /\ Len(q) = 0
    <3>1. <<>> \in Seq(Nat \X Int) /\ Len(<<>>) = 0
      OBVIOUS
    <3>2. QED
      BY <3>1
  <2>6. Lists(q, Waiting(s)) /\ Len(chan[s]) = 0
    BY <2>1, <2>4, <2>5 DEF Lists
  <2>7. Carries(s, q)
    BY <2>5, <2>6 DEF Carries
  <2>8. QED
    BY <2>2, <2>7 DEF ChannelOK
<1>4. QED
  BY <1>1, <1>2, <1>3 DEF MailInv, CallOK, ReceiverOK

LEMMA MailKept ==
  ASSUME MailInv, [Next]_vars
  PROVE  MailInv'
<1>1. ASSUME NEW s \in Senders, SenderStep(s) PROVE MailInv'
  BY <1>1, SendHeaderStep, SendSegmentStep DEF SenderStep
<1>2. ASSUME NEW c \in Recvs, Recv(c) PROVE MailInv'
  BY <1>2, RecvStep
<1>3. ASSUME NEW s \in Senders, NEW k \in 1..Len(chan[s]),
             RecvHeader(s, k) \/ Probe(s, k) \/ RecvSegment(s, k)
      PROVE  MailInv'
  BY <1>3, RecvHeaderStep, ProbeStep, RecvSegmentStep
<1>4. CASE Return
  BY <1>4, ReturnStep
<1>5. CASE UNCHANGED vars
  <2>1. prog' = prog /\ chan' = chan /\ next' = next /\ sent' = sent /\ UNCHANGED rvars
        /\ Objects' = Objects
    BY <1>5 DEF vars, svars, Objects
  <2>2. ASSUME NEW s \in Senders PROVE SenderOK(s)' /\ ChannelOK(s)'
    <3>1. SenderOK(s) /\ ChannelOK(s)
      BY DEF MailInv
    <3>2. \A x \in Parts(s) : (Posted(s, x[1], x[2]) /\ ~ Taken(s, x))'
                                 <=> Posted(s, x[1], x[2]) /\ ~ Taken(s, x)
      BY <2>1 DEF Posted, Taken, Holds, HasGot, rvars
    <3>3. ChannelOK(s)'
      BY <2>1, <3>1, <3>2, SameChannel
    <3>4. QED
      BY <2>1, <3>1, <3>3 DEF SenderOK
  <2>3. /\ chan \in [Senders -> Seq(Messages)]
        /\ next \in [Senders -> Nat] /\ sent \in [Senders -> Int]
    BY DEF MailInv, TypesOK
  <2>4. \A s \in Senders : next[s] <= next'[s] /\ sent[s] <= sent'[s]
    BY <2>1, <2>3
  <2>5. QED
    BY <2>1, <2>2, <2>3, <2>4, SenderKeeps
<1>6. CASE Terminating
  BY <1>5, <1>6 DEF Terminating
<1>7. QED
  BY <1>1, <1>2, <1>3, <1>4, <1>5, <1>6 DEF Next, ReceiverStep

\* Whatever the senders and the receiver do, in whatever order: what a receive
\* takes is what it expects.  No data is taken for a header, and no segment is
\* longer than the piece of the buffer it is received into, as long as the
\* program sends and receives in the same way.
THEOREM NeverMisread ==
  ASSUME \A p \in Programs : Agreed(p)
  PROVE  Spec => []NeverBroken
<1>1. Init => MailInv
  BY MailInit
<1>2. MailInv /\ [Next]_vars => MailInv'
  BY MailKept
<1>3. MailInv => NeverBroken
  BY DEF MailInv, ReceiverOK, NeverBroken
<1>4. QED
  BY <1>1, <1>2, <1>3, PTL DEF Spec

------------------------------------------------------------------------------
(* A mailbox of whole objects                                              *)

\* What the mailbox has delivered.
Shown == [k \in 1..Len(got) |-> Value(got[k])]

LEMMA ValueOf ==
  ASSUME MailInv, NEW g, Faithful(g)
  PROVE  Value(g) = Box!Parcel(g.from, g.id)
<1>1. /\ prog \in Programs /\ g.from \in Senders /\ SenderOK(g.from)
      /\ next[g.from] \in Nat
  BY DEF MailInv, TypesOK, Faithful
<1>2. Len(Objects[g.from]) \in Nat
  BY <1>1, ProgramTypes
<1>3. g.id \in 1..Len(Objects[g.from])
  BY <1>1, <1>2 DEF Faithful, SenderOK
<1>4. PICK object \in [tag : Nat, type : Types, len : Nat, check : BOOLEAN] :
         object = Objects[g.from][g.id]
  BY <1>1, <1>3, ProgramTypes
<1>5. g.type = object.type /\ g.len = object.len /\ g.whole = TRUE
  BY <1>4 DEF Faithful
<1>6. [object EXCEPT !.type = g.type, !.len = g.len] = object
  BY <1>5
<1>7. QED
  BY <1>4, <1>5, <1>6 DEF Value, Box!Parcel

LEMMA DeliveredIsGot ==
  ASSUME MailInv, NEW s \in Senders, NEW i \in Nat
  PROVE  Box!Delivered(s, i) <=> HasGot(s, i)
<1>1. Len(got) \in Nat /\ DOMAIN Shown = 1..Len(got)
      /\ \A k \in 1..Len(got) : Shown[k] = Value(got[k])
  BY DEF MailInv, TypesOK, Shown
<1>2. Len(Shown) = Len(got)
  BY <1>1 DEF Shown
<1>3. Box!Delivered(s, i) <=> \E k \in 1..Len(Shown) : Shown[k] = Box!Parcel(s, i)
  BY DEF Box!Delivered, Shown
<1>4. ASSUME NEW k \in 1..Len(got), Shown[k] = Box!Parcel(s, i) PROVE HasGot(s, i)
  <2>1. Value(got[k]).from = got[k].from /\ Value(got[k]).id = got[k].id
    BY DEF Value
  <2>2. Box!Parcel(s, i).from = s /\ Box!Parcel(s, i).id = i
    BY DEF Box!Parcel
  <2>3. got[k].from = s /\ got[k].id = i
    BY <1>1, <1>4, <2>1, <2>2
  <2>4. QED
    BY <2>3 DEF HasGot
<1>5. ASSUME HasGot(s, i) PROVE \E k \in 1..Len(got) : Shown[k] = Box!Parcel(s, i)
  <2>1. PICK k \in 1..Len(got) : got[k].from = s /\ got[k].id = i
    BY <1>5 DEF HasGot
  <2>2. Faithful(got[k])
    BY DEF MailInv
  <2>3. Value(got[k]) = Box!Parcel(s, i)
    BY <2>1, <2>2, ValueOf
  <2>4. QED
    BY <1>1, <2>3
<1>6. QED
  BY <1>2, <1>3, <1>4, <1>5

\* A sender posts its object with the last of its messages.
LEMMA SendPosts ==
  ASSUME MailInv, NEW s \in Senders, SenderStep(s)
  PROVE  Box!Next \/ UNCHANGED <<Objects, [t \in Senders |-> next[t] - 1], Shown>>
<1>1. Sending(s) /\ prog' = prog /\ got' = got /\ Objects' = Objects
  BY DEF SenderStep, SendHeader, SendSegment, rvars, Objects
<1>2. Shown' = Shown
  BY <1>1 DEF Shown, Value
<1>3. prog \in Programs /\ next \in [Senders -> Nat] /\ next[s] \in Nat /\ Len(Objects[s]) \in Nat
  BY ProgramTypes DEF MailInv, TypesOK
<1>4. next' = next \/ next' = [next EXCEPT ![s] = next[s] + 1]
  BY DEF SenderStep, SendHeader, SendSegment, SentUpTo
<1> DEFINE posted == [t \in Senders |-> next[t] - 1]
<1>5. CASE next' = next
  BY <1>1, <1>2, <1>5
<1>6. CASE next' = [next EXCEPT ![s] = next[s] + 1]
  <2>1. posted' = [posted EXCEPT ![s] = posted[s] + 1]
    <3>1. \A t \in Senders : next'[t] = IF t = s THEN next[s] + 1 ELSE next[t]
      BY <1>3, <1>6
    <3>2. \A t \in Senders : next'[t] - 1 = IF t = s THEN (next[s] - 1) + 1 ELSE next[t] - 1
      BY <1>3, <3>1
    <3>3. QED
      BY <3>2
  <2>2. posted[s] < Len(Objects[s])
    BY <1>1, <1>3 DEF Sending
  <2>3. Box!Post(s)
    BY <1>1, <1>2, <2>1, <2>2 DEF Box!Post, Shown
  <2>4. QED
    BY <2>3 DEF Box!Next
<1>7. QED
  BY <1>4, <1>5, <1>6

\* recv() delivers the object it returns.
LEMMA ReturnDelivers ==
  ASSUME MailInv, Return
  PROVE  Box!Next
<1>1. /\ prog' = prog /\ next' = next /\ Objects' = Objects
      /\ prog \in Programs /\ got \in Seq(Returned)
  BY DEF Return, svars, Objects, MailInv, TypesOK
<1>2. PICK s \in Senders : \E i \in 1..Len(Objects[s]) :
         /\ Holding(s, i) /\ i < next[s] /\ data.filled = Objects[s][i].len
         /\ got' = Append(got, Received(s, i))
  BY ReturnsWhole
<1>3. PICK i \in 1..Len(Objects[s]) :
         /\ Holding(s, i) /\ i < next[s] /\ data.filled = Objects[s][i].len
         /\ got' = Append(got, Received(s, i))
  BY <1>2
<1>4. /\ Len(Objects[s]) \in Nat /\ i \in Nat /\ next[s] \in Nat
      /\ Objects[s][i].type \in Types /\ Objects[s][i].len \in Nat
      /\ Objects[s][i] \in [tag : Nat, type : Types, len : Nat, check : BOOLEAN]
  <2>1. Len(Objects[s]) \in Nat /\ Objects[s][i].type \in Types /\ Objects[s][i].len \in Nat
        /\ Objects[s][i] \in [tag : Nat, type : Types, len : Nat, check : BOOLEAN]
    BY <1>1, ProgramTypes
  <2>2. next[s] \in Nat
    BY DEF MailInv, TypesOK
  <2>3. QED
    BY <2>1, <2>2
<1>5. PICK g : g = Received(s, i)
  OBVIOUS
<1>6. /\ g \in Returned /\ g.from = s /\ g.id = i /\ g.whole = TRUE
      /\ g.type = Objects[s][i].type /\ g.len = Objects[s][i].len
  BY <1>4, <1>5 DEF Received, Returned
<1>7. Faithful(g)
  BY <1>3, <1>4, <1>6 DEF Faithful
<1>8. Value(g) = Box!Parcel(s, i)
  BY <1>6, <1>7, ValueOf
<1>9. /\ Len(got') = Len(got) + 1 /\ Len(got) \in Nat
      /\ got'[Len(got) + 1] = g
      /\ \A k \in 1..Len(got) : got'[k] = got[k]
  BY <1>1, <1>3, <1>5, <1>6, OneMoreGot
<1>10. Shown' = Append(Shown, Box!Parcel(s, i))
  <2>1. \A x : Value(x)' = Value(x)
    BY <1>1 DEF Value
  <2>2. Shown' = [k \in 1..(Len(got) + 1) |-> Value(got'[k])]
    BY <1>9, <2>1 DEF Shown
  <2>3. \A k \in 1..(Len(got) + 1) :
          Value(got'[k]) = IF k \in 1..Len(got) THEN Value(got[k]) ELSE Box!Parcel(s, i)
    BY <1>8, <1>9
  <2>4. Append(Shown, Box!Parcel(s, i))
          = [k \in 1..(Len(got) + 1) |->
               IF k \in 1..Len(got) THEN Value(got[k]) ELSE Box!Parcel(s, i)]
    BY <1>9 DEF Shown
  <2>5. QED
    BY <2>2, <2>3, <2>4
<1> DEFINE posted == [t \in Senders |-> next[t] - 1]
<1>11. posted' = posted /\ i \in 1..posted[s]
  BY <1>1, <1>3, <1>4
<1>12. ~ Box!Delivered(s, i)
  BY <1>3, <1>4, DeliveredIsGot DEF Holding
<1>13. ASSUME NEW j \in 1..(i - 1), Objects[s][j].tag = Objects[s][i].tag
       PROVE  Box!Delivered(s, j)
  <2>1. j \in 1..Len(Objects[s]) /\ j < i /\ j \in Nat
    BY <1>4
  <2>2. Answers(prog, call, s, j)
    BY <1>3, <1>13 DEF Holding, Answers, Objects
  <2>3. HasGot(s, j)
    BY <1>3, <2>1, <2>2 DEF Holding, First
  <2>4. QED
    BY <2>1, <2>3, DeliveredIsGot
<1>14. Box!Deliver(s, i)
  BY <1>1, <1>10, <1>11, <1>12, <1>13 DEF Box!Deliver, Shown
<1>15. QED
  BY <1>14 DEF Box!Next

LEMMA BoxStep ==
  ASSUME MailInv, [Next]_vars
  PROVE  Box!Next \/ UNCHANGED <<Objects, [t \in Senders |-> next[t] - 1], Shown>>
<1>1. ASSUME prog' = prog, next' = next, got' = got
      PROVE  UNCHANGED <<Objects, [t \in Senders |-> next[t] - 1], Shown>>
  BY <1>1 DEF Objects, Shown, Value
<1>2. ASSUME NEW s \in Senders, SenderStep(s)
      PROVE  Box!Next \/ UNCHANGED <<Objects, [t \in Senders |-> next[t] - 1], Shown>>
  BY <1>2, SendPosts
<1>3. ASSUME NEW c \in Recvs, Recv(c) PROVE prog' = prog /\ next' = next /\ got' = got
  BY <1>3 DEF Recv, svars
<1>4. ASSUME NEW s \in Senders, NEW k \in 1..Len(chan[s]),
             RecvHeader(s, k) \/ Probe(s, k) \/ RecvSegment(s, k)
      PROVE  prog' = prog /\ next' = next /\ got' = got
  BY <1>4 DEF RecvHeader, Probe, RecvSegment, svars
<1>5. CASE Return
  BY <1>5, ReturnDelivers
<1>6. CASE UNCHANGED vars \/ Terminating
  <2>1. prog' = prog /\ next' = next /\ got' = got
    BY <1>6 DEF Terminating, vars, svars, rvars
  <2>2. QED
    BY <1>1, <2>1
<1>7. QED
  BY <1>1, <1>2, <1>3, <1>4, <1>5, <1>6 DEF Next, ReceiverStep

LEMMA BoxInit ==
  ASSUME Init
  PROVE  Box!Init
<1>1. [t \in Senders |-> next[t] - 1] = [t \in Senders |-> 0]
  BY DEF Init
<1>2. [k \in 1..Len(got) |-> Value(got[k])] = <<>>
  <2>1. got = <<>> /\ Len(got) = 0
    BY DEF Init
  <2>2. QED
    BY <2>1
<1>3. QED
  BY <1>1, <1>2 DEF Box!Init

\* send() and recv() together are a mailbox: what recv() returns was sent,
\* whole and as it was sent, is returned once, and the objects of one sender
\* with one tag are returned in the order they were sent.  Headers, segments
\* and buffers are not to be seen.
THEOREM MailboxOfWholeObjects ==
  ASSUME \A p \in Programs : Agreed(p)
  PROVE  Spec => ImplementsMailbox
<1>1. Init => MailInv /\ Box!Init
  BY MailInit, BoxInit
<1>2. MailInv /\ [Next]_vars => MailInv'
  BY MailKept
<1>3. MailInv /\ [Next]_vars
        => [Box!Next]_<<Objects, [s \in Senders |-> next[s] - 1],
                        [k \in 1..Len(got) |-> Value(got[k])]>>
  BY BoxStep DEF Shown
<1>4. QED
  BY <1>1, <1>2, <1>3, PTL DEF Spec, ImplementsMailbox, Box!Spec

=============================================================================
