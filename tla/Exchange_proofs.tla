--------------------------- MODULE Exchange_proofs ---------------------------
(***************************************************************************)
(* Delivered, FailsOnlyOnLength, InTurn and WholeFile of Exchange, for any *)
(* number of ranks and all programs whose calls match.                     *)
(***************************************************************************)
EXTENDS Exchange, WellFoundedInduction, TLAPS

------------------------------------------------------------------------------
(* Types                                                                   *)

Places ==
  {"call", "length", "sized", "object", "announced", "header", "data", "barrier", "turn",
   "between", "sent", "failed"}

\* Where a rank can be in a call.
PlacesOf(c) ==
  CASE c.op \in Rings \ Vectors -> {"call", "length", "sized", "object", "sent", "failed"}
    [] c.op \in Vectors -> {"call", "object", "sent", "failed"}
    [] c.op = "send" -> {"call", "announced", "sent"}
    [] c.op = "recv" -> {"call", "header", "data", "sent", "failed"}
    [] c.op = "print" -> {"call", "barrier", "header", "data", "turn", "sent", "failed"}
    [] c.op = "write" -> {"call", "between", "sent"}

Kinds == {"length", "object", "header", "data"}
Messages == [kind : Kinds, bytes : Nat, from : Ranks \X Nat, number : Nat]

Types ==
  /\ program \in [Ranks -> Seq(Calls)] /\ Matched(program)
  /\ done \in [Ranks -> Nat]
  /\ at \in [Ranks -> Places]
  /\ room \in [Ranks -> Nat]
  /\ turn \in [Ranks -> 0..(P - 1)]
  /\ entered \in [Ranks -> Nat]
  /\ channel \in [Ranks -> [Ranks -> Seq(Messages)]]
  /\ returned \in [Ranks -> Seq([id : Nat, value : Ranks \X Nat])]
  /\ out \in Seq(Nat \X Ranks)
  /\ file \in Seq(Nat \X Ranks)

\* What rank r has found out at place p.
Expected(r, p) ==
  /\ p = "barrier" => Call(r).barrier
  /\ p \in {"header", "data"} /\ Call(r).op = "print" => Prints(r) /\ Position(r) # 1
  /\ p = "turn" => Prints(r)

\* Where rank r is.
PlaceOf(r) ==
  /\ done[r] <= Len(program[r])
  /\ Running(r) => at[r] \in PlacesOf(Call(r))
  /\ ~ Running(r) => at[r] = "call"
  /\ Expected(r, at[r])
  /\ turn[r] # 0 => at[r] \in {"call", "between"} /\ Running(r) /\ Call(r).op = "write"

TypeInv == Types /\ \A r \in Ranks : PlaceOf(r)

------------------------------------------------------------------------------
(* Barriers                                                                *)

BarriersOf(c) ==
  CASE c.op = "write" -> P [] c.op = "print" /\ c.barrier -> 1 [] OTHER -> 0

\* The barriers in the first n calls of a program s.
Barriers(s, n) ==
  LET f[k \in 0..Len(s)] == IF k = 0 THEN 0 ELSE f[k - 1] + BarriersOf(s[k]) IN f[n]

\* The barriers that r has entered in its present call, and all that it has left.
Inner(r) ==
  IF ~ Running(r) THEN 0
  ELSE CASE at[r] = "call" -> turn[r] [] at[r] = "between" -> turn[r] + 1
         [] OTHER -> BarriersOf(Call(r))
Left(r) == IF at[r] \in {"barrier", "between"} THEN entered[r] - 1 ELSE entered[r]

BarrierInv ==
  /\ \A r \in Ranks : entered[r] = Barriers(program[r], done[r]) + Inner(r)
  /\ \A r, q \in Ranks : Left(r) <= entered[q]

------------------------------------------------------------------------------
(* The file                                                                *)

\* Call i of rank r and call j of rank q are the same call.
Pair(r, i, q, j) ==
  /\ i \in DOMAIN program[r] /\ j \in DOMAIN program[q]
  /\ program[r][i].id = program[q][j].id

\* Rank r has written its block of call i.
Wrote(r, i) ==
  /\ i \in DOMAIN program[r] /\ program[r][i].op = "write"
  /\ \/ i <= done[r]
     \/ /\ i = done[r] + 1
        /\ \/ at[r] = "sent" \/ turn[r] > r
           \/ turn[r] = r /\ at[r] = "between"

\* The file ends with the blocks of call i of ranks 0..s.
EndsWith(s, i) ==
  /\ Len(file) > s
  /\ \A k \in 0..s : file[Len(file) - k] = <<program[s][i].id, s - k>>
  /\ ~ program[s][i].append => Len(file) = s + 1

\* The block of rank s in its call i is the last one in the file.
WroteLast(s, i) ==
  /\ Wrote(s, i)
  /\ EndsWith(s, i)
  /\ \A r \in Ranks : \A j \in DOMAIN program[r] :
       Wrote(r, j) => \E h \in DOMAIN program[s] :
                        Pair(r, j, s, h) /\ (h < i \/ (h = i /\ r <= s))

FileInv ==
  \/ file = <<>> /\ \A r \in Ranks : \A j \in DOMAIN program[r] : ~ Wrote(r, j)
  \/ \E s \in Ranks : \E i \in DOMAIN program[s] : WroteLast(s, i)

------------------------------------------------------------------------------
(* Channels                                                                *)

\* Rank s hands over to rank d in call c, which prints.
Hands(c, s, d) == \E k \in 1..(Len(Order(c)) - 1) : Order(c)[k] = s /\ Order(c)[k + 1] = d

\* In program p, rank s sends d a message of this kind in its call i.
Due(p, s, d, i, kind) ==
  LET c == p[s][i] IN
  \/ kind = "length" /\ c.op \in Rings \ Vectors /\ d = Preceding(s)
  \/ kind = "object" /\ c.op \in Rings /\ d = Following(s)
  \/ kind \in {"header", "data"} /\ c.op = "send" /\ d = c.peer
  \/ kind = "header" /\ c.op = "print" /\ Hands(c, s, d)

\* The same in call j of rank d.
Travels(p, s, i, d, j, kind) ==
  /\ i \in DOMAIN p[s] /\ j \in DOMAIN p[d] /\ kind \in Kinds
  /\ p[s][i].id = p[d][j].id
  /\ Due(p, s, d, i, kind)

\* The first or the second message of a call; a time in the program of a rank.
Stage(kind) == IF kind \in {"length", "header"} THEN 0 ELSE 1
Time(i, kind) == 2 * i + Stage(kind)

\* m is the message of its kind of call i from s to d.
Sent(p, s, d, i, m) ==
  LET c == p[s][i] IN
  /\ i \in DOMAIN p[s]
  /\ Due(p, s, d, i, m.kind)
  /\ m.from = <<s, c.id>>
  /\ m.kind = "length" => m.number = c.len
  /\ m.kind = "header" => m.number = IF c.op = "send" THEN c.len ELSE 0
  /\ m.kind \in {"object", "data"} => m.bytes = c.len

\* Before this time, a rank has posted its messages, and may have posted one; it
\* has taken the messages of others.
Most(place) ==
  CASE place \in {"object", "sent", "failed"} -> 2
    [] place \in {"length", "sized", "announced"} -> 1
    [] OTHER -> 0
Least(place) == IF place = "failed" THEN 1 ELSE Most(place)
Took(place) ==
  CASE place \in {"turn", "sent"} -> 2 [] place \in {"sized", "object", "data"} -> 1 [] OTHER -> 0
AtMost(r) == 2 * (done[r] + 1) + Most(at[r])
AtLeast(r) == 2 * (done[r] + 1) + Least(at[r])
Taking(r) == 2 * (done[r] + 1) + Took(at[r])

\* A channel from s to d, with the times of s and of d.  What is in it was
\* posted and not taken; it is in the order of the program; all that was posted
\* and not taken is in it; and what was taken had been posted.
Sound(p, ch, s, d, most, taking) ==
  \A k \in 1..Len(ch) : \E i \in DOMAIN p[s] : \E j \in DOMAIN p[d] :
    /\ Travels(p, s, i, d, j, ch[k].kind) /\ Sent(p, s, d, i, ch[k])
    /\ Time(i, ch[k].kind) < most /\ taking <= Time(j, ch[k].kind)
Sorted(p, ch, s, d) ==
  \A k, l \in 1..Len(ch) : \A h, i \in DOMAIN p[s] :
    k < l /\ Sent(p, s, d, h, ch[k]) /\ Sent(p, s, d, i, ch[l])
      => Time(h, ch[k].kind) < Time(i, ch[l].kind)
Complete(p, ch, s, d, least, taking) ==
  \A i \in DOMAIN p[s] : \A j \in DOMAIN p[d] : \A kind \in Kinds :
    Travels(p, s, i, d, j, kind) /\ Time(i, kind) < least /\ taking <= Time(j, kind)
      => \E k \in 1..Len(ch) : ch[k].kind = kind /\ Sent(p, s, d, i, ch[k])
Causal(p, s, d, most, taking) ==
  \A i \in DOMAIN p[s] : \A j \in DOMAIN p[d] : \A kind \in Kinds :
    Travels(p, s, i, d, j, kind) /\ Time(j, kind) < taking => Time(i, kind) < most

InOrder(p, ch, s, d, most, least, taking) ==
  /\ Sound(p, ch, s, d, most, taking) /\ Sorted(p, ch, s, d)
  /\ Complete(p, ch, s, d, least, taking) /\ Causal(p, s, d, most, taking)

\* A rank that has failed takes nothing any more.
ChannelInv ==
  \A s, d \in Ranks :
    at[d] # "failed" => InOrder(program, channel[s][d], s, d, AtMost(s), AtLeast(s), Taking(d))

\* What a rank is about to receive into, why it failed and what it returned
RoomOf(r) ==
  /\ at[r] \in {"sized", "object"} => room[r] = Capacity(r, done[r] + 1)
  /\ at[r] = "data" =>
       /\ Call(r).op = "recv"
       /\ \A j \in DOMAIN program[Call(r).peer] :
            Pair(r, done[r] + 1, Call(r).peer, j) => room[r] = program[Call(r).peer][j].len
  /\ at[r] = "failed" => Call(r).op \in Rings /\ ~ Fits(r, done[r] + 1)

Result(c, r) == <<IF c.op \in Rings THEN Preceding(r) ELSE c.peer, c.id>>
ReturnedOf(r) ==
  \A k \in 1..Len(returned[r]) : \E i \in DOMAIN program[r] :
    /\ returned[r][k].id = program[r][i].id
    /\ returned[r][k].value = Result(program[r][i], r)

------------------------------------------------------------------------------
(* Printing                                                                *)

\* Rank r has printed in its call i.
Printed(r, i) ==
  /\ i \in DOMAIN program[r] /\ program[r][i].op = "print"
  /\ Contains(Order(program[r][i]), r)
  /\ i <= done[r] \/ (i = done[r] + 1 /\ at[r] = "sent")

\* Line j of call c is among the first n of the output o.
Stands(o, c, j, n) == \E k \in 1..n : o[k] = <<c.id, Order(c)[j]>>

\* So are the lines of the call before that of rank r, or up to it.
LinesBefore(o, c, r, n) ==
  \A j, k \in 1..Len(Order(c)) : j < k /\ Order(c)[k] = r => Stands(o, c, j, n)
LinesUpTo(o, c, r, n) ==
  \A j, k \in 1..Len(Order(c)) : j <= k /\ Order(c)[k] = r => Stands(o, c, j, n)

\* Line n of the output o is one of program p, and what comes before it is there.
LineIsDue(p, o, n) ==
  \E i \in DOMAIN p[o[n][2]] :
    /\ p[o[n][2]][i].op = "print" /\ p[o[n][2]][i].id = o[n][1]
    /\ LinesBefore(o, p[o[n][2]][i], o[n][2], n - 1)

OutInv ==
  /\ \A n \in 1..Len(out) : LineIsDue(program, out, n)
  /\ \A r \in Ranks : \A i \in DOMAIN program[r] :
       Printed(r, i) => LinesUpTo(out, program[r][i], r, Len(out))
  /\ \A r \in Ranks : at[r] = "turn" => LinesBefore(out, Call(r), r, Len(out))

\* What the first n calls of a program s print
ScriptOf(s, n) ==
  LET upto[i \in 0..Len(s)] == IF i = 0 THEN <<>> ELSE upto[i - 1] \o Lines(s[i])
  IN  upto[n]

\* Line k of call h of rank 0 has been printed.
LineDone(h, k) ==
  /\ h \in DOMAIN program[0] /\ program[0][h].op = "print"
  /\ k \in 1..Len(Order(program[0][h]))
  /\ LET r == Order(program[0][h])[k] IN
     \E i \in DOMAIN program[r] : Pair(r, i, 0, h) /\ Printed(r, i)

\* It is the last one in the script that has been, and the output is the script up
\* to it; h = 0 is the beginning.
Reached(h, k) ==
  /\ h \in 0..Len(program[0])
  /\ \A g, l : LineDone(g, l) => g < h \/ (g = h /\ l <= k)
  /\ h = 0 => out = <<>>
  /\ h # 0 => /\ LineDone(h, k)
              /\ out = ScriptOf(program[0], h - 1) \o SubSeq(Lines(program[0][h]), 1, k)

\* Line n of the output is one that has been printed.
IsDone(n) ==
  \E h, k : LineDone(h, k) /\ out[n] = <<program[0][h].id, Order(program[0][h])[k]>>

ScriptInv == (\E h, k : Reached(h, k)) /\ \A n \in 1..Len(out) : IsDone(n)

AllWait == \A i \in DOMAIN program[0] : program[0][i].op = "print" => program[0][i].barrier

PhaseInv ==
  /\ ChannelInv
  /\ \A r \in Ranks : RoomOf(r) /\ ReturnedOf(r)
  /\ OutInv
  /\ AllWait => ScriptInv
------------------------------------------------------------------------------
(* Ranks and calls                                                         *)

\* Neighbours on the ring.
LEMMA Neighbours ==
  ASSUME NEW r \in Ranks
  PROVE  /\ Following(r) \in Ranks /\ Preceding(r) \in Ranks
         /\ Following(Preceding(r)) = r /\ Preceding(Following(r)) = r
<1>1. P \in Nat \ {0} /\ r \in Nat /\ r < P
  BY SizeAssumption DEF Ranks
<1>2. Following(r) = IF r = P - 1 THEN 0 ELSE r + 1
  <2>1. CASE r = P - 1
    BY <1>1, <2>1 DEF Following
  <2>2. CASE r # P - 1
    BY <1>1, <2>2 DEF Following
  <2>3. QED
    BY <2>1, <2>2
<1>3. Preceding(r) = IF r = 0 THEN P - 1 ELSE r - 1
  <2>1. CASE r = 0
    BY <1>1, <2>1 DEF Preceding
  <2>2. CASE r # 0
    BY <1>1, <2>2 DEF Preceding
  <2>3. QED
    BY <2>1, <2>2
<1>4. /\ Following(r) \in Ranks /\ Preceding(r) \in Ranks
  BY <1>1, <1>2, <1>3 DEF Ranks
<1>5. Following(Preceding(r)) = r
  <2>1. CASE r = 0
    BY <1>1, <1>3, <2>1 DEF Following
  <2>2. CASE r # 0
    BY <1>1, <1>3, <2>2 DEF Following
  <2>3. QED
    BY <2>1, <2>2
<1>6. Preceding(Following(r)) = r
  <2>1. CASE r = P - 1
    BY <1>1, <1>2, <2>1 DEF Preceding
  <2>2. CASE r # P - 1
    BY <1>1, <1>2, <2>2 DEF Preceding
  <2>3. QED
    BY <2>1, <2>2
<1>7. QED
  BY <1>4, <1>5, <1>6

\* What a call is made of.
LEMMA CallTypes ==
  ASSUME NEW c \in Calls
  PROVE  /\ c.id \in Nat
         /\ c.op \in Together \cup {"send", "recv"}
         /\ c.op \in Rings => c.len \in Nat /\ c.buffer \in Nat
         /\ c.op = "print" => c.ranks \in Seq(Ranks) /\ c.all \in BOOLEAN /\ c.barrier \in BOOLEAN
         /\ c.op = "write" => c.append \in BOOLEAN
         /\ c.op = "send" => c.peer \in Ranks /\ c.len \in Nat \ {0}
         /\ c.op = "recv" => c.peer \in Ranks
<1>1. CASE c \in [op : Rings, id : Nat, len : Nat, buffer : Nat]
  BY <1>1 DEF Rings, Together
<1>2. CASE c \in [op : {"print"}, id : Nat, ranks : Seq(Ranks), all : BOOLEAN, barrier : BOOLEAN]
  BY <1>2 DEF Rings, Together
<1>3. CASE c \in [op : {"write"}, id : Nat, append : BOOLEAN]
  BY <1>3 DEF Rings, Together
<1>4. CASE c \in [op : {"send"}, id : Nat, peer : Ranks, len : Nat \ {0}]
  BY <1>4 DEF Rings, Together
<1>5. CASE c \in [op : {"recv"}, id : Nat, peer : Ranks]
  BY <1>5 DEF Rings, Together
<1>6. QED
  BY <1>1, <1>2, <1>3, <1>4, <1>5 DEF Calls

------------------------------------------------------------------------------
(* Induction, and functions defined by it                                  *)

\* A nonempty set of natural numbers has a least element.
LEMMA LeastNumber ==
  ASSUME NEW T \in SUBSET Nat, T # {}
  PROVE  \E x \in T : \A y \in T : x <= y
<1>1. IsWellFoundedOn(OpToRel(<, Nat), Nat)
  BY NatLessThanWellFounded
<1>2. PICK x \in T : \A y \in T : ~ (<<y, x>> \in OpToRel(<, Nat))
  BY <1>1, WFMin
<1>3. \A y \in T : ~ (y < x)
  BY <1>2 DEF OpToRel
<1>4. QED
  BY <1>3

\* A set with 0 that is closed under successor holds every natural number.
LEMMA Induct ==
  ASSUME NEW T, 0 \in T, \A n \in Nat : n \in T => n + 1 \in T
  PROVE  \A n \in Nat : n \in T
<1>1. SUFFICES ASSUME Nat \ T # {} PROVE FALSE
  OBVIOUS
<1>2. PICK x \in Nat \ T : \A y \in Nat \ T : x <= y
  BY <1>1, LeastNumber
<1>3. x # 0 /\ x - 1 \in Nat
  BY <1>2
<1>4. x - 1 \in T
  BY <1>2, <1>3
<1>5. QED
  BY <1>2, <1>3, <1>4

\* A step from each value in V to one in V makes a function.
Follows(f, n, a, step) ==
  f = [k \in 0..n |-> IF k = 0 THEN a ELSE step[k][f[k - 1]]]

LEMMA Recursion ==
  ASSUME NEW n \in Nat, NEW V, NEW a \in V, NEW step \in [1..n -> [V -> V]]
  PROVE  \E f \in [0..n -> V] : Follows(f, n, a, step)
<1> DEFINE Made == {m \in Nat : m <= n => \E f \in [0..m -> V] : Follows(f, m, a, step)}
<1>1. 0 \in Made
  <2>1. [k \in 0..0 |-> a] \in [0..0 -> V] /\ Follows([k \in 0..0 |-> a], 0, a, step)
    BY DEF Follows
  <2>2. QED
    BY <2>1
<1>2. ASSUME NEW m \in Nat, m \in Made PROVE m + 1 \in Made
  <2>1. SUFFICES ASSUME m + 1 <= n PROVE \E f \in [0..(m + 1) -> V] : Follows(f, m + 1, a, step)
    OBVIOUS
  <2>2. PICK f \in [0..m -> V] : Follows(f, m, a, step)
    BY <1>2, <2>1
  <2>3. m + 1 \in 1..n /\ f[m] \in V /\ step[m + 1][f[m]] \in V
    BY <2>1
  <2> DEFINE g == [k \in 0..(m + 1) |-> IF k = m + 1 THEN step[m + 1][f[m]] ELSE f[k]]
  <2>4. g \in [0..(m + 1) -> V]
    BY <2>3
  <2>5. \A k \in 0..(m + 1) : g[k] = IF k = 0 THEN a ELSE step[k][g[k - 1]]
    <3>1. SUFFICES ASSUME NEW k \in 0..(m + 1) PROVE g[k] = IF k = 0 THEN a ELSE step[k][g[k - 1]]
      OBVIOUS
    <3>2. CASE k = m + 1
      BY <3>2
    <3>3. CASE k # m + 1
      <4>1. k \in 0..m /\ (k # 0 => k - 1 \in 0..m /\ k - 1 # m + 1)
        BY <3>3
      <4>2. f[k] = IF k = 0 THEN a ELSE step[k][f[k - 1]]
        BY <2>2, <4>1 DEF Follows
      <4>3. g[k] = f[k] /\ (k # 0 => g[k - 1] = f[k - 1])
        BY <4>1
      <4> HIDE DEF g
      <4>4. QED
        BY <4>2, <4>3
    <3>4. QED
      BY <3>2, <3>3
  <2> HIDE DEF g
  <2>6. g = [k \in 0..(m + 1) |-> IF k = 0 THEN a ELSE step[k][g[k - 1]]]
    BY <2>4, <2>5
  <2>7. QED
    BY <2>4, <2>6 DEF Follows
<1>3. \A m \in Nat : m \in Made
  <2> HIDE DEF Made
  <2> QED
    BY <1>1, <1>2, Induct
<1>4. QED
  BY <1>3

------------------------------------------------------------------------------
(* The order of printing                                                   *)

NoRepeats(u) == \A i, j \in 1..Len(u) : u[i] = u[j] => i = j

LEMMA AppendNew ==
  ASSUME NEW u \in Seq(Ranks), NoRepeats(u), NEW r \in Ranks, ~ Contains(u, r)
  PROVE  Append(u, r) \in Seq(Ranks) /\ NoRepeats(Append(u, r))
<1> DEFINE v == Append(u, r)
           n == Len(u)
<1>1. v \in Seq(Ranks) /\ Len(v) = n + 1 /\ n \in Nat /\ v[n + 1] = r
  OBVIOUS
<1>2. \A i \in 1..n : v[i] = u[i] /\ u[i] # r
  BY DEF Contains
<1> HIDE DEF v
<1>3. \A i, j \in 1..(n + 1) : v[i] = v[j] => i = j
  <2>1. SUFFICES ASSUME NEW i \in 1..(n + 1), NEW j \in 1..(n + 1), v[i] = v[j] PROVE i = j
    OBVIOUS
  <2>2. CASE i \in 1..n /\ j \in 1..n
    BY <1>2, <2>1, <2>2 DEF NoRepeats
  <2>3. CASE i = n + 1 \/ j = n + 1
    BY <1>1, <1>2, <2>1, <2>3
  <2>4. QED
    BY <1>1, <2>2, <2>3
<1>4. QED
  BY <1>1, <1>3 DEF NoRepeats, v

\* unique() leaves every rank one place.
LEMMA UniqueHasNoRepeats ==
  ASSUME NEW s \in Seq(Ranks)
  PROVE  Unique(s) \in Seq(Ranks) /\ NoRepeats(Unique(s))
<1> DEFINE n == Len(s)
           add(u, k) == IF Contains(u, s[k]) THEN u ELSE Append(u, s[k])
           step == [k \in 1..n |-> [u \in Seq(Ranks) |-> add(u, k)]]
<1>1. n \in Nat /\ \A k \in 1..n : s[k] \in Ranks
  OBVIOUS
<1>2. <<>> \in Seq(Ranks) /\ NoRepeats(<<>>)
  BY DEF NoRepeats
<1>3. \A k \in 1..n : \A u \in Seq(Ranks) : add(u, k) \in Seq(Ranks)
  BY <1>1
<1>4. step \in [1..n -> [Seq(Ranks) -> Seq(Ranks)]]
  BY <1>3
<1>5. PICK f \in [0..n -> Seq(Ranks)] : Follows(f, n, <<>>, step)
  <2> HIDE DEF step, n
  <2> QED
    BY <1>1, <1>2, <1>4, Recursion
<1>6. f = [k \in 0..n |-> IF k = 0 THEN <<>> ELSE add(f[k - 1], k)]
  <2>1. \A k \in 0..n : k # 0 => k \in 1..n /\ f[k - 1] \in Seq(Ranks)
    BY <1>1, <1>5, SMTT(30)
  <2>2. \A k \in 0..n : k # 0 => step[k][f[k - 1]] = add(f[k - 1], k)
    BY <2>1
  <2>3. f = [k \in 0..n |-> IF k = 0 THEN <<>> ELSE step[k][f[k - 1]]]
    BY <1>5 DEF Follows
  <2> HIDE DEF step, add, n
  <2>4. \A k \in 0..n : f[k] = IF k = 0 THEN <<>> ELSE add(f[k - 1], k)
    BY <2>2, <2>3
  <2>5. f = [k \in 0..n |-> f[k]]
    BY <1>5
  <2>6. QED
    BY <2>4, <2>5
<1>7. PICK g : g = [k \in 0..n |-> IF k = 0 THEN <<>> ELSE add(g[k - 1], k)] /\ Unique(s) = g[n]
  <2>1. \E g : g = [k \in 0..n |-> IF k = 0 THEN <<>> ELSE add(g[k - 1], k)]
    BY <1>6
  <2>2. QED
    BY <2>1 DEF Unique
<1> DEFINE Good == {k \in Nat : k <= n => g[k] \in Seq(Ranks) /\ NoRepeats(g[k])}
<1>8. 0 \in Good
  BY <1>1, <1>2, <1>7
<1>9. ASSUME NEW k \in Nat, k \in Good PROVE k + 1 \in Good
  <2>1. SUFFICES ASSUME k + 1 <= n PROVE g[k + 1] \in Seq(Ranks) /\ NoRepeats(g[k + 1])
    OBVIOUS
  <2>2. g[k] \in Seq(Ranks) /\ NoRepeats(g[k]) /\ s[k + 1] \in Ranks
    BY <1>1, <1>9, <2>1
  <2>3. g[k + 1] = add(g[k], k + 1)
    <3>1. k + 1 \in 0..n /\ k + 1 # 0 /\ (k + 1) - 1 = k
      BY <1>1, <2>1
    <3> HIDE DEF add
    <3>2. QED
      BY <1>7, <3>1
  <2>4. CASE Contains(g[k], s[k + 1])
    BY <2>2, <2>3, <2>4
  <2>5. CASE ~ Contains(g[k], s[k + 1])
    BY <2>2, <2>3, <2>5, AppendNew
  <2>6. QED
    BY <2>4, <2>5
<1>10. \A k \in Nat : k \in Good
  <2> HIDE DEF Good
  <2> QED
    BY <1>8, <1>9, Induct
<1>11. n \in Good
  BY <1>1, <1>10
<1>12. g[n] \in Seq(Ranks) /\ NoRepeats(g[n])
  BY <1>1, <1>11
<1>13. QED
  BY <1>7, <1>12

LEMMA OrderHasNoRepeats ==
  ASSUME NEW c \in Calls, c.op = "print"
  PROVE  Order(c) \in Seq(Ranks) /\ NoRepeats(Order(c))
<1>1. c.ranks \in Seq(Ranks) /\ c.all \in BOOLEAN
  BY CallTypes
<1>2. CASE c.all
  <2> DEFINE all == [i \in 1..P |-> i - 1]
  <2>1. P \in Nat /\ all \in [1..P -> Ranks]
    BY SizeAssumption DEF Ranks
  <2>2. all \in Seq(Ranks) /\ Len(all) = P
    BY <2>1
  <2>3. NoRepeats(all)
    BY <2>1, <2>2 DEF NoRepeats
  <2>4. QED
    BY <1>2, <2>2, <2>3 DEF Order
<1>3. CASE ~ c.all
  BY <1>1, <1>3, UniqueHasNoRepeats DEF Order
<1>4. QED
  BY <1>1, <1>2, <1>3

------------------------------------------------------------------------------
(* Counting barriers                                                       *)

LEMMA BarriersOfACall ==
  ASSUME NEW c \in Calls
  PROVE  BarriersOf(c) \in Nat
BY CallTypes, SizeAssumption DEF BarriersOf

\* The number of barriers is defined by induction.
LEMMA BarriersCount ==
  ASSUME NEW s \in Seq(Calls)
  PROVE  /\ Barriers(s, 0) = 0
         /\ \A n \in 0..Len(s) : Barriers(s, n) \in Nat
         /\ \A n \in 1..Len(s) : Barriers(s, n) = Barriers(s, n - 1) + BarriersOf(s[n])
<1> DEFINE N == Len(s)
           step == [k \in 1..N |-> [b \in Nat |-> b + BarriersOf(s[k])]]
<1>1. N \in Nat /\ \A k \in 1..N : BarriersOf(s[k]) \in Nat
  BY BarriersOfACall
<1>2. step \in [1..N -> [Nat -> Nat]]
  BY <1>1
<1>3. PICK f \in [0..N -> Nat] : Follows(f, N, 0, step)
  <2> HIDE DEF step, N
  <2> QED
    BY <1>1, <1>2, Recursion
<1>4. f = [k \in 0..N |-> IF k = 0 THEN 0 ELSE f[k - 1] + BarriersOf(s[k])]
  <2>1. \A k \in 0..N : k # 0 => k \in 1..N /\ f[k - 1] \in Nat
    <3>1. \A k \in 0..N : k # 0 => k \in 1..N /\ k - 1 \in 0..N
      BY <1>1
    <3> HIDE DEF N
    <3>2. QED
      BY <1>3, <3>1
  <2>2. \A k \in 0..N : k # 0 => step[k][f[k - 1]] = f[k - 1] + BarriersOf(s[k])
    BY <2>1
  <2>3. f = [k \in 0..N |-> IF k = 0 THEN 0 ELSE step[k][f[k - 1]]]
    BY <1>3 DEF Follows
  <2> HIDE DEF step, N
  <2>4. \A k \in 0..N : f[k] = IF k = 0 THEN 0 ELSE f[k - 1] + BarriersOf(s[k])
    BY <2>2, <2>3
  <2>5. f = [k \in 0..N |-> f[k]]
    BY <1>3
  <2>6. QED
    BY <2>4, <2>5
<1>5. PICK g : /\ g = [k \in 0..N |-> IF k = 0 THEN 0 ELSE g[k - 1] + BarriersOf(s[k])]
               /\ \A n \in 0..N : Barriers(s, n) = g[n]
  <2>1. \E g : g = [k \in 0..N |-> IF k = 0 THEN 0 ELSE g[k - 1] + BarriersOf(s[k])]
    BY <1>4
  <2>2. QED
    BY <2>1 DEF Barriers
<1>6. g[0] = 0 /\ \A n \in 1..N : g[n] = g[n - 1] + BarriersOf(s[n])
  BY <1>1, <1>5
<1> DEFINE Good == {k \in Nat : k <= N => g[k] \in Nat}
<1>7. 0 \in Good
  BY <1>6
<1>8. ASSUME NEW k \in Nat, k \in Good PROVE k + 1 \in Good
  <2>1. SUFFICES ASSUME k + 1 <= N PROVE g[k + 1] \in Nat
    OBVIOUS
  <2>2. k + 1 \in 1..N /\ (k + 1) - 1 = k /\ g[k] \in Nat
    BY <1>1, <1>8, <2>1
  <2>3. g[k + 1] = g[k] + BarriersOf(s[k + 1])
    BY <1>6, <2>2
  <2>4. QED
    BY <1>1, <2>2, <2>3
<1>9. \A k \in Nat : k \in Good
  <2> HIDE DEF Good
  <2> QED
    BY <1>7, <1>8, Induct
<1>10. \A n \in 0..N : g[n] \in Nat
  BY <1>1, <1>9
<1>11. \A n \in 1..N : n \in 0..N /\ n - 1 \in 0..N
  BY <1>1
<1>12. 0 \in 0..N
  BY <1>1
<1>13. QED
  BY <1>5, <1>6, <1>10, <1>11, <1>12

LEMMA GreatestNumber ==
  ASSUME NEW n \in Nat, NEW T \in SUBSET (0..n), T # {}
  PROVE  \E x \in T : \A y \in T : y <= x
<1> DEFINE D == {n - x : x \in T}
<1>1. D \in SUBSET Nat /\ D # {}
  <2>1. \A x \in T : n - x \in Nat
    OBVIOUS
  <2>2. QED
    BY <2>1
<1>2. PICK m \in D : \A y \in D : m <= y
  <2> HIDE DEF D
  <2> QED
    BY <1>1, LeastNumber
<1>3. PICK x \in T : m = n - x
  BY <1>2
<1>4. \A y \in T : n - x <= n - y
  BY <1>2, <1>3
<1>5. \A y \in T : y <= x
  BY <1>4
<1>6. QED
  BY <1>5

LEMMA BarriersRise ==
  ASSUME NEW s \in Seq(Calls), NEW m \in 0..Len(s), NEW n \in 0..Len(s), m <= n
  PROVE  Barriers(s, m) <= Barriers(s, n)
<1> DEFINE Good == {k \in Nat : m <= k /\ k <= Len(s) => Barriers(s, m) <= Barriers(s, k)}
<1>1. m \in Nat /\ Len(s) \in Nat /\ \A k \in 0..Len(s) : Barriers(s, k) \in Nat
  BY BarriersCount
<1>2. 0 \in Good
  <2>1. CASE m = 0
    BY <1>1, <2>1
  <2>2. CASE m # 0
    BY <1>1, <2>2
  <2>3. QED
    BY <2>1, <2>2
<1>3. ASSUME NEW k \in Nat, k \in Good PROVE k + 1 \in Good
  <2>1. SUFFICES ASSUME m <= k + 1, k + 1 <= Len(s) PROVE Barriers(s, m) <= Barriers(s, k + 1)
    OBVIOUS
  <2>2. CASE m = k + 1
    BY <1>1, <2>2
  <2>3. CASE m # k + 1
    <3>1. k + 1 \in 1..Len(s) /\ (k + 1) - 1 = k /\ m <= k /\ k \in 0..Len(s)
      BY <1>1, <2>1, <2>3
    <3>2. Barriers(s, k + 1) = Barriers(s, k) + BarriersOf(s[k + 1]) /\ BarriersOf(s[k + 1]) \in Nat
      BY <3>1, BarriersCount, BarriersOfACall
    <3>3. Barriers(s, m) <= Barriers(s, k)
      BY <1>1, <1>3, <3>1
    <3>4. Barriers(s, m) \in Nat /\ Barriers(s, k) \in Nat
      BY <1>1, <3>1
    <3>5. QED
      BY <3>2, <3>3, <3>4
  <2>4. QED
    BY <2>2, <2>3
<1>4. \A k \in Nat : k \in Good
  <2> HIDE DEF Good
  <2> QED
    BY <1>2, <1>3, Induct
<1>5. n \in Good
  BY <1>1, <1>4
<1>6. QED
  BY <1>1, <1>5

\* Calls that are not of all ranks have no barriers.
LEMMA NoBarriersBetween ==
  ASSUME NEW s \in Seq(Calls), NEW m \in 0..Len(s), NEW n \in 0..Len(s), m <= n,
         \A k \in 1..Len(s) : m < k /\ k <= n => s[k].op \notin Together
  PROVE  Barriers(s, n) = Barriers(s, m)
<1> DEFINE Good == {k \in Nat : m <= k /\ k <= n => Barriers(s, k) = Barriers(s, m)}
<1>1. m \in Nat /\ n \in Nat /\ Len(s) \in Nat /\ \A k \in 0..Len(s) : Barriers(s, k) \in Nat
  BY BarriersCount
<1>2. 0 \in Good
  <2>1. CASE m = 0
    BY <1>1, <2>1
  <2>2. CASE m # 0
    BY <1>1, <2>2
  <2>3. QED
    BY <2>1, <2>2
<1>3. ASSUME NEW k \in Nat, k \in Good PROVE k + 1 \in Good
  <2>1. SUFFICES ASSUME m <= k + 1, k + 1 <= n PROVE Barriers(s, k + 1) = Barriers(s, m)
    OBVIOUS
  <2>2. CASE m = k + 1
    BY <2>2
  <2>3. CASE m # k + 1
    <3>1. k + 1 \in 1..Len(s) /\ (k + 1) - 1 = k /\ m <= k /\ m < k + 1 /\ k \in 0..Len(s) /\ k <= n
      BY <1>1, <2>1, <2>3
    <3>2. Barriers(s, k + 1) = Barriers(s, k) + BarriersOf(s[k + 1])
      BY <3>1, BarriersCount
    <3>3. BarriersOf(s[k + 1]) = 0
      <4>1. s[k + 1].op \notin Together
        BY <2>1, <3>1
      <4>2. QED
        BY <4>1 DEF BarriersOf, Together
    <3>4. Barriers(s, k) = Barriers(s, m) /\ Barriers(s, k) \in Nat
      BY <1>1, <1>3, <3>1
    <3>5. QED
      BY <3>2, <3>3, <3>4
  <2>4. QED
    BY <2>2, <2>3
<1>4. \A k \in Nat : k \in Good
  <2> HIDE DEF Good
  <2> QED
    BY <1>2, <1>3, Induct
<1>5. n \in Good
  BY <1>1, <1>4
<1>6. QED
  BY <1>1, <1>5

------------------------------------------------------------------------------
(* Programs whose calls match                                              *)

Programmed == program \in [Ranks -> Seq(Calls)] /\ Matched(program)

LEMMA CallOf ==
  ASSUME Programmed, NEW r \in Ranks, NEW i \in DOMAIN program[r]
  PROVE  /\ program[r] \in Seq(Calls) /\ program[r][i] \in Calls
         /\ i \in Nat \ {0} /\ i \in 1..Len(program[r])
BY DEF Programmed

LEMMA OnePair ==
  ASSUME Programmed, NEW r \in Ranks, NEW q \in Ranks,
         NEW i \in DOMAIN program[r], NEW j \in DOMAIN program[q], NEW k \in DOMAIN program[q],
         Pair(r, i, q, j), Pair(r, i, q, k)
  PROVE  j = k
BY DEF Programmed, Matched, Pair

\* A call of all ranks is one of every rank.
LEMMA TogetherPairs ==
  ASSUME Programmed, NEW r \in Ranks, NEW q \in Ranks, NEW i \in DOMAIN program[r],
         program[r][i].op \in Together
  PROVE  \E j \in DOMAIN program[q] :
           Pair(r, i, q, j) /\ Sides(r, program[r][i], q, program[q][j])
<1>1. PICK j \in DOMAIN program[q] : Sides(r, program[r][i], q, program[q][j])
  BY DEF Programmed, Matched
<1>2. Pair(r, i, q, j)
  BY <1>1 DEF Sides, Pair
<1>3. QED
  BY <1>1, <1>2

LEMMA PairSides ==
  ASSUME Programmed, NEW r \in Ranks, NEW q \in Ranks,
         NEW i \in DOMAIN program[r], NEW j \in DOMAIN program[q], Pair(r, i, q, j),
         program[r][i].op \in Together \/ program[r][i].peer = q
  PROVE  Sides(r, program[r][i], q, program[q][j])
<1>1. PICK k \in DOMAIN program[q] : Sides(r, program[r][i], q, program[q][k])
  BY DEF Programmed, Matched
<1>2. Pair(r, i, q, k)
  BY <1>1 DEF Sides, Pair
<1>3. QED
  BY <1>1, <1>2, OnePair

LEMMA PairTurned ==
  ASSUME NEW r, NEW q, NEW i, NEW j, Pair(r, i, q, j)
  PROVE  Pair(q, j, r, i)
BY DEF Pair

\* The same kind of call
LEMMA TogetherSides ==
  ASSUME Programmed, NEW r \in Ranks, NEW q \in Ranks,
         NEW i \in DOMAIN program[r], NEW j \in DOMAIN program[q], Pair(r, i, q, j),
         program[r][i].op \in Together
  PROVE  /\ program[q][j].op = program[r][i].op
         /\ program[r][i].op \notin Rings => program[q][j] = program[r][i]
<1>1. Sides(r, program[r][i], q, program[q][j])
  BY PairSides
<1>2. program[r][i].op \notin {"send", "recv"}
  BY DEF Together, Rings
<1>3. QED
  BY <1>1, <1>2 DEF Sides

LEMMA OrderKept ==
  ASSUME Programmed, NEW r \in Ranks, NEW q \in Ranks,
         NEW h \in DOMAIN program[r], NEW i \in DOMAIN program[r],
         NEW j \in DOMAIN program[q], NEW k \in DOMAIN program[q],
         Pair(r, h, q, j), Pair(r, i, q, k), h < i,
         OneOrder(program[r][h], program[r][i])
  PROVE  j < k
BY DEF Programmed, Matched, Pair

\* Two ranks have the same number of barriers behind them when they begin a call.
LEMMA BarriersBefore ==
  ASSUME Programmed, NEW r \in Ranks, NEW q \in Ranks
  PROVE  \A i \in DOMAIN program[r] : \A j \in DOMAIN program[q] :
           Pair(r, i, q, j) /\ program[r][i].op \in Together
             => Barriers(program[r], i - 1) = Barriers(program[q], j - 1)
<1> DEFINE s == program[r]
           t == program[q]
           Good == {n \in Nat : \A i \in DOMAIN s : \A j \in DOMAIN t :
                      i <= n /\ Pair(r, i, q, j) /\ s[i].op \in Together
                        => Barriers(s, i - 1) = Barriers(t, j - 1)}
<1>1. s \in Seq(Calls) /\ t \in Seq(Calls) /\ DOMAIN s = 1..Len(s) /\ DOMAIN t = 1..Len(t)
      /\ Len(s) \in Nat /\ Len(t) \in Nat
  BY DEF Programmed
<1>2. 0 \in Good
  BY <1>1
<1>3. ASSUME NEW n \in Nat, n \in Good PROVE n + 1 \in Good
  <2>1. SUFFICES ASSUME NEW i \in DOMAIN s, NEW j \in DOMAIN t, i <= n + 1,
                        Pair(r, i, q, j), s[i].op \in Together
                 PROVE  Barriers(s, i - 1) = Barriers(t, j - 1)
    BY <1>3
  <2>2. i \in 1..Len(s) /\ j \in 1..Len(t) /\ i \in Nat /\ j \in Nat
        /\ i - 1 \in 0..Len(s) /\ j - 1 \in 0..Len(t)
    BY <1>1
  <2>3. t[j].op \in Together
    BY <2>1, TogetherSides
  <2> DEFINE T == {k \in 1..(i - 1) : s[k].op \in Together}
  <2>4. ASSUME NEW g \in DOMAIN t, g < j, t[g].op \in Together
        PROVE  \E k \in T : Pair(r, k, q, g)
    <3>1. PICK k \in DOMAIN s : Pair(q, g, r, k) /\ Sides(q, t[g], r, s[k])
      BY <2>4, TogetherPairs
    <3>2. s[k].op \in Together
      BY <2>4, <3>1, TogetherSides
    <3>3. Pair(q, j, r, i)
      BY <2>1, PairTurned
    <3>4. k < i
      <4>1. OneOrder(t[g], t[j])
        BY <2>3, <2>4 DEF OneOrder
      <4>2. QED
        BY <2>4, <3>1, <3>3, <4>1, OrderKept
    <3>5. k \in T
      BY <1>1, <2>2, <3>2, <3>4
    <3>6. QED
      BY <3>1, <3>5, PairTurned
  <2>5. CASE T = {}
    <3>1. \A k \in 1..Len(s) : 0 < k /\ k <= i - 1 => s[k].op \notin Together
      BY <2>2, <2>5, SMTT(30)
    <3>2. \A g \in 1..Len(t) : 0 < g /\ g <= j - 1 => t[g].op \notin Together
      BY <1>1, <2>2, <2>4, <2>5, SMTT(30)
    <3>3. 0 \in 0..Len(s) /\ 0 \in 0..Len(t) /\ 0 <= i - 1 /\ 0 <= j - 1
      BY <1>1, <2>2
    <3> HIDE DEF s, t, T
    <3>4. Barriers(s, i - 1) = Barriers(s, 0)
      BY <1>1, <2>2, <3>1, <3>3, NoBarriersBetween
    <3>5. Barriers(t, j - 1) = Barriers(t, 0)
      BY <1>1, <2>2, <3>2, <3>3, NoBarriersBetween
    <3>6. QED
      BY <1>1, <3>4, <3>5, BarriersCount
  <2>6. CASE T # {}
    <3>1. T \in SUBSET (0..(i - 1)) /\ i - 1 \in Nat
      BY <2>2
    <3>2. PICK h \in T : \A k \in T : k <= h
      <4> HIDE DEF T
      <4> QED
        BY <2>6, <3>1, GreatestNumber
    <3>3. h \in 1..Len(s) /\ h < i /\ h <= i - 1 /\ h \in Nat /\ s[h].op \in Together /\ h <= n
      BY <1>1, <2>1, <2>2
    <3>4. PICK g \in DOMAIN t : Pair(r, h, q, g) /\ Sides(r, s[h], q, t[g])
      BY <1>1, <3>3, TogetherPairs
    <3>5. g < j /\ g \in 1..Len(t) /\ g <= j - 1
      <4>1. OneOrder(s[h], s[i])
        BY <2>1, <3>3 DEF OneOrder
      <4>2. g < j
        BY <1>1, <2>1, <3>3, <3>4, <4>1, OrderKept
      <4>3. QED
        BY <1>1, <2>2, <4>2
    <3>6. \A k \in 1..Len(s) : h < k /\ k <= i - 1 => s[k].op \notin Together
      BY <2>2, <3>2, <3>3, SMTT(30)
    <3>7. \A k \in 1..Len(t) : g < k /\ k <= j - 1 => t[k].op \notin Together
      <4>1. SUFFICES ASSUME NEW k \in 1..Len(t), g < k, k <= j - 1, t[k].op \in Together PROVE FALSE
        OBVIOUS
      <4>2. k \in DOMAIN t /\ k < j
        BY <1>1, <2>2, <4>1
      <4>3. PICK l \in T : Pair(r, l, q, k)
        BY <2>4, <4>1, <4>2
      <4>4. l \in DOMAIN s /\ l \in Nat /\ l <= h /\ s[l].op \in Together
        BY <1>1, <2>2, <3>2
      <4>5. CASE l = h
        <5>1. k = g
          BY <1>1, <3>3, <3>4, <4>2, <4>3, <4>5, OnePair
        <5>2. QED
          BY <4>1, <5>1, <3>5
      <4>6. CASE l < h
        <5>1. OneOrder(s[l], s[h])
          BY <3>3, <4>4 DEF OneOrder
        <5>2. k < g
          BY <1>1, <3>3, <3>4, <4>2, <4>3, <4>4, <4>6, <5>1, OrderKept
        <5>3. QED
          BY <4>1, <5>2, <3>5
      <4>7. QED
        BY <3>3, <4>4, <4>5, <4>6
    <3>8. Barriers(s, h - 1) = Barriers(t, g - 1)
      BY <1>1, <1>3, <3>3, <3>4
    <3>9. BarriersOf(s[h]) = BarriersOf(t[g])
      <4>1. t[g].op = s[h].op /\ (s[h].op \notin Rings => t[g] = s[h])
        BY <1>1, <3>3, <3>4, TogetherSides
      <4>2. CASE s[h].op \in Rings
        BY <4>1, <4>2 DEF Rings, BarriersOf
      <4>3. QED
        BY <4>1, <4>2
    <3>10. h \in 0..Len(s) /\ i - 1 \in 0..Len(s) /\ g \in 0..Len(t) /\ j - 1 \in 0..Len(t)
      BY <2>2, <3>3, <3>5
    <3> HIDE DEF s, t, T
    <3>11. Barriers(s, i - 1) = Barriers(s, h)
      BY <1>1, <3>3, <3>6, <3>10, NoBarriersBetween
    <3>12. Barriers(t, j - 1) = Barriers(t, g)
      BY <1>1, <3>5, <3>7, <3>10, NoBarriersBetween
    <3>13. Barriers(s, h) = Barriers(s, h - 1) + BarriersOf(s[h])
           /\ Barriers(t, g) = Barriers(t, g - 1) + BarriersOf(t[g])
      BY <1>1, <3>3, <3>5, BarriersCount
    <3>14. QED
      BY <3>8, <3>9, <3>11, <3>12, <3>13
  <2>7. QED
    BY <2>5, <2>6
<1>4. \A n \in Nat : n \in Good
  <2> HIDE DEF Good
  <2> QED
    BY <1>2, <1>3, Induct
<1>5. QED
  BY <1>1, <1>4

------------------------------------------------------------------------------
(* Types are kept                                                          *)

Channels == [Ranks -> [Ranks -> Seq(Messages)]]

LEMMA TypedCall ==
  ASSUME TypeInv, NEW r \in Ranks, Running(r)
  PROVE  /\ Programmed /\ Call(r) \in Calls /\ done[r] \in Nat
         /\ done[r] + 1 \in DOMAIN program[r] /\ Call(r) = program[r][done[r] + 1]
<1>1. program[r] \in Seq(Calls) /\ done[r] \in Nat /\ done[r] < Len(program[r])
  BY DEF TypeInv, Types, Running
<1>2. done[r] + 1 \in 1..Len(program[r])
  BY <1>1
<1>3. Programmed
  BY DEF Programmed, TypeInv, Types
<1>4. QED
  BY <1>1, <1>2, <1>3 DEF Call

LEMMA TypedMessage ==
  ASSUME TypeInv, NEW r \in Ranks, Running(r), NEW kind \in Kinds, NEW b \in Nat, NEW n \in Nat
  PROVE  Message(r, kind, b, n) \in Messages
<1>1. Call(r).id \in Nat
  BY TypedCall, CallTypes
<1>2. QED
  BY <1>1 DEF Message, Messages

LEMMA TypedPost ==
  ASSUME channel \in Channels, NEW s \in Ranks, NEW d \in Ranks, NEW m \in Messages
  PROVE  Posted(s, d, m) \in Channels
<1>1. Append(channel[s][d], m) \in Seq(Messages)
  BY DEF Channels
<1>2. QED
  BY <1>1 DEF Channels, Posted

LEMMA TypedTake ==
  ASSUME channel \in Channels, NEW s \in Ranks, NEW d \in Ranks, Arrived(s, d)
  PROVE  Taken(s, d) \in Channels /\ Head(channel[s][d]) \in Messages
<1>1. channel[s][d] \in Seq(Messages) /\ channel[s][d] # <<>>
  BY DEF Channels, Arrived
<1>2. Tail(channel[s][d]) \in Seq(Messages) /\ Head(channel[s][d]) \in Messages
  BY <1>1
<1>3. QED
  BY <1>2 DEF Channels, Taken

\* A rank goes to another place of its call.
LEMMA PlacesKept ==
  ASSUME TypeInv, NEW r \in Ranks, Running(r), NEW p \in PlacesOf(Call(r)),
         Expected(r, p),
         program' = program, done' = done, at' = [at EXCEPT ![r] = p],
         NEW t \in 0..(P - 1), turn' = [turn EXCEPT ![r] = t],
         t # 0 => p \in {"call", "between"} /\ Call(r).op = "write"
  PROVE  \A q \in Ranks : PlaceOf(q)'
<1>1. SUFFICES ASSUME NEW q \in Ranks PROVE PlaceOf(q)'
  OBVIOUS
<1>2. PlaceOf(q) /\ at \in [Ranks -> Places] /\ turn \in [Ranks -> 0..(P - 1)]
  BY DEF TypeInv, Types
<1>3. Running(q)' = Running(q) /\ Call(q)' = Call(q)
  BY DEF Running, Call
<1>7. \A p1 : Expected(q, p1)' = Expected(q, p1)
  BY <1>3 DEF Expected, Prints, Position
<1>4. CASE q = r
  <2>1. at'[q] = p /\ turn'[q] = t
    BY <1>2, <1>4
  <2>2. QED
    BY <1>2, <1>3, <1>4, <1>7, <2>1 DEF PlaceOf
<1>5. CASE q # r
  <2>1. at'[q] = at[q] /\ turn'[q] = turn[q]
    BY <1>2, <1>5
  <2>2. QED
    BY <1>2, <1>3, <1>7, <2>1 DEF PlaceOf
<1>6. QED
  BY <1>4, <1>5

\* The places of a call.
LEMMA PlacesListed ==
  ASSUME NEW c, NEW p \in PlacesOf(c), c.op \in Together \cup {"send", "recv"}
  PROVE  p \in Places
BY DEF PlacesOf, Places, Together, Rings, Vectors

\* A rank goes to another place of its call, other variables change as their
\* types allow.
LEMMA MoveKeepsTypes ==
  ASSUME TypeInv, NEW r \in Ranks, Running(r), NEW p \in PlacesOf(Call(r)),
         Expected(r, p),
         program' = program, done' = done, at' = [at EXCEPT ![r] = p],
         NEW t \in 0..(P - 1), turn' = [turn EXCEPT ![r] = t],
         t # 0 => p \in {"call", "between"} /\ Call(r).op = "write",
         room' \in [Ranks -> Nat], entered' \in [Ranks -> Nat], channel' \in Channels,
         returned' \in [Ranks -> Seq([id : Nat, value : Ranks \X Nat])],
         out' \in Seq(Nat \X Ranks), file' \in Seq(Nat \X Ranks)
  PROVE  TypeInv'
<1>1. \A q \in Ranks : PlaceOf(q)'
  BY PlacesKept
<1>2. p \in Places
  BY TypedCall, CallTypes, PlacesListed
<1>3. at' \in [Ranks -> Places] /\ turn' \in [Ranks -> 0..(P - 1)]
  BY <1>2 DEF TypeInv, Types
<1>4. Types'
  BY <1>3 DEF TypeInv, Types, Channels
<1>5. QED
  BY <1>1, <1>4 DEF TypeInv

\* Outside comm.write() the turn is 0.
LEMMA NoTurn ==
  ASSUME TypeInv, NEW r \in Ranks, Running(r), Call(r).op # "write"
  PROVE  turn[r] = 0 /\ turn = [turn EXCEPT ![r] = 0]
<1>1. turn[r] = 0 /\ turn \in [Ranks -> 0..(P - 1)]
  BY DEF TypeInv, Types, PlaceOf
<1>2. QED
  BY <1>1

LEMMA AppendTyped ==
  ASSUME NEW S, NEW s \in Seq(S), NEW e \in S
  PROVE  Append(s, e) \in Seq(S)
OBVIOUS

\* The place of a rank that prints.
LEMMA PositionOf ==
  ASSUME NEW r, Call(r) \in Calls, Call(r).op = "print", Prints(r)
  PROVE  /\ Position(r) \in 1..Len(Order(Call(r)))
         /\ Order(Call(r))[Position(r)] = r
         /\ Order(Call(r)) \in Seq(Ranks)
         /\ \A k \in 1..Len(Order(Call(r))) : Order(Call(r))[k] = r => k = Position(r)
<1> DEFINE o == Order(Call(r))
<1>1. o \in Seq(Ranks) /\ NoRepeats(o)
  BY OrderHasNoRepeats
<1>2. PICK k \in 1..Len(o) : o[k] = r
  BY DEF Prints, Contains
<1>3. DOMAIN o = 1..Len(o)
  BY <1>1
<1>4. \A j \in 1..(k - 1) : o[j] # r
  <2>1. SUFFICES ASSUME NEW j \in 1..(k - 1), o[j] = r PROVE FALSE
    OBVIOUS
  <2>2. j \in 1..Len(o) /\ j # k
    BY <1>1, <1>2
  <2>3. QED
    BY <1>1, <1>2, <2>1, <2>2 DEF NoRepeats
<1>5. Position(r) \in DOMAIN o /\ o[Position(r)] = r
  BY <1>2, <1>3, <1>4 DEF Position
<1>6. QED
  BY <1>1, <1>3, <1>5 DEF NoRepeats

LEMMA BeforeAndAfter ==
  ASSUME NEW r, Call(r) \in Calls, Call(r).op = "print", Prints(r)
  PROVE  /\ Position(r) # 1 => Before(r) \in Ranks
         /\ ~ Final(r) => After(r) \in Ranks
<1>1. Position(r) \in 1..Len(Order(Call(r))) /\ Order(Call(r)) \in Seq(Ranks)
  BY PositionOf
<1>2. Position(r) # 1 => Position(r) - 1 \in 1..Len(Order(Call(r)))
  BY <1>1
<1>3. ~ Final(r) => Position(r) + 1 \in 1..Len(Order(Call(r)))
  BY <1>1 DEF Final
<1>4. QED
  BY <1>1, <1>2, <1>3 DEF Before, After

\* What a call returns is typed.
LEMMA TypedReturn ==
  ASSUME TypeInv, NEW r \in Ranks, Running(r), NEW v \in Ranks \X Nat, Return(r, v)
  PROVE  returned' \in [Ranks -> Seq([id : Nat, value : Ranks \X Nat])]
<1>1. Call(r).id \in Nat
  BY TypedCall, CallTypes
<1>2. returned \in [Ranks -> Seq([id : Nat, value : Ranks \X Nat])]
  BY DEF TypeInv, Types
<1> DEFINE e == [id |-> Call(r).id, value |-> v]
<1>3. e \in [id : Nat, value : Ranks \X Nat]
  BY <1>1
<1>4. returned' = [returned EXCEPT ![r] = Append(@, e)]
  BY DEF Return
<1> HIDE DEF e
<1>5. Append(returned[r], e) \in Seq([id : Nat, value : Ranks \X Nat])
  BY <1>2, <1>3, AppendTyped
<1>6. QED
  BY <1>2, <1>4, <1>5

LEMMA StepKeepsTypes ==
  ASSUME TypeInv, NEW r \in Ranks, Step(r)
  PROVE  TypeInv'
<1>0. /\ room \in [Ranks -> Nat] /\ entered \in [Ranks -> Nat] /\ channel \in Channels
      /\ returned \in [Ranks -> Seq([id : Nat, value : Ranks \X Nat])]
      /\ out \in Seq(Nat \X Ranks) /\ file \in Seq(Nat \X Ranks) /\ entered[r] \in Nat
      /\ 0 \in 0..(P - 1) /\ done \in [Ranks -> Nat] /\ at \in [Ranks -> Places]
      /\ turn \in [Ranks -> 0..(P - 1)]
  <2>1. 0 \in 0..(P - 1)
    BY SizeAssumption
  <2>2. Types
    BY DEF TypeInv
  <2>3. QED
    BY <2>1, <2>2 DEF Types, Channels
<1>1. Running(r)
  BY DEF Step, SendLength, TakeLength, SendObject, TakeObject, SendHeader, SendData, RecvStart,
         PrintStart, PrintBarrier, TakeHeader, TakeData, PrintOut, WriteTurn, WriteBarrier, Leave, In
<1>2. /\ Programmed /\ Call(r) \in Calls /\ Call(r).id \in Nat
      /\ Call(r).op \in Together \cup {"send", "recv"}
  BY <1>1, TypedCall, CallTypes
<1>3. /\ Following(r) \in Ranks /\ Preceding(r) \in Ranks
  BY Neighbours
<1>4. Call(r).op # "write" => turn[r] = 0 /\ turn = [turn EXCEPT ![r] = 0]
  BY <1>1, NoTurn
<1>21. \A p : p \notin {"barrier", "header", "data", "turn"} => Expected(r, p)
  BY DEF Expected
<1>22. Call(r).op # "print" => \A p : p \notin {"barrier", "turn"} => Expected(r, p)
  BY DEF Expected
<1>5. CASE SendLength(r)
  <2>1. Call(r).op \in Rings \ Vectors /\ Call(r).len \in Nat
    BY <1>2, <1>5, CallTypes DEF SendLength, In
  <2>2. Message(r, "length", IntegerBytes, Call(r).len) \in Messages
    BY <1>1, <2>1, TypedMessage DEF Kinds, IntegerBytes
  <2>3. channel' \in Channels
    BY <1>0, <1>3, <1>5, <2>2, TypedPost DEF SendLength
  <2>4. "length" \in PlacesOf(Call(r)) /\ Call(r).op # "write"
    BY <2>1 DEF PlacesOf, Rings, Vectors
  <2>20. /\ Expected(r, "length") /\ at' = [at EXCEPT ![r] = "length"]
         /\ program' = program /\ done' = done /\ turn' = [turn EXCEPT ![r] = 0]
         /\ room' = room /\ returned' = returned /\ file' = file /\ entered' = entered /\ out' = out
    BY <1>4, <1>21, <1>5, <2>4 DEF SendLength, Goto
  <2>5. QED
    BY <1>0, <1>1, <2>3, <2>4, <2>20, MoveKeepsTypes
<1>6. CASE TakeLength(r)
  <2>1. Call(r).op \in Rings \ Vectors /\ Call(r).len \in Nat
    BY <1>2, <1>6, CallTypes DEF TakeLength, In
  <2>2. channel' \in Channels /\ Head(channel[Following(r)][r]) \in Messages
    BY <1>0, <1>3, <1>6, TypedTake DEF TakeLength
  <2>3. {"sized", "failed"} \subseteq PlacesOf(Call(r)) /\ Call(r).op # "write"
    BY <2>1 DEF PlacesOf, Rings, Vectors
  <2>4. Room(r, Head(channel[Following(r)][r]).number) \in Nat
    BY <2>1, <2>2 DEF Room, Messages
  <2>5. room' \in [Ranks -> Nat]
    BY <1>0, <1>6, <2>4 DEF TakeLength
  <2>6. PICK p \in {"sized", "failed"} : at' = [at EXCEPT ![r] = p]
    BY <1>6 DEF TakeLength, Goto
  <2>7. QED
    BY <1>0, <1>1, <1>4, <1>21, <1>6, <2>2, <2>3, <2>5, <2>6, MoveKeepsTypes DEF TakeLength
<1>7. CASE SendObject(r)
  <2>1. Call(r).op \in Rings /\ Call(r).len \in Nat /\ Call(r).buffer \in Nat
    BY <1>2, <1>7, CallTypes DEF SendObject, In, Vectors, Rings
  <2>2. Message(r, "object", Call(r).len, 0) \in Messages
    BY <1>1, <2>1, TypedMessage DEF Kinds
  <2>3. channel' \in Channels
    <3>1. channel' = channel
          \/ channel' = Posted(r, Following(r), Message(r, "object", Call(r).len, 0))
      BY <1>7 DEF SendObject
    <3>2. QED
      BY <1>0, <1>3, <2>2, <3>1, TypedPost
  <2>4. {"object", "failed"} \subseteq PlacesOf(Call(r)) /\ Call(r).op # "write"
    BY <2>1 DEF PlacesOf, Rings, Vectors
  <2>5. Buffer(r) \in Nat
    BY <1>0, <2>1 DEF Buffer
  <2>6. room' \in [Ranks -> Nat]
    BY <1>0, <1>7, <2>5 DEF SendObject
  <2>7. PICK p \in {"object", "failed"} : at' = [at EXCEPT ![r] = p]
    BY <1>7 DEF SendObject, Goto
  <2>8. QED
    BY <1>0, <1>1, <1>4, <1>21, <1>7, <2>3, <2>4, <2>6, <2>7, MoveKeepsTypes DEF SendObject
<1>8. CASE TakeObject(r)
  <2>1. Call(r).op \in Rings
    BY <1>8 DEF TakeObject, In
  <2>2. channel' \in Channels /\ Head(channel[Preceding(r)][r]) \in Messages
    BY <1>0, <1>3, <1>8, TypedTake DEF TakeObject
  <2>3. {"sent", "failed"} \subseteq PlacesOf(Call(r)) /\ Call(r).op # "write"
    BY <2>1 DEF PlacesOf, Rings, Vectors
  <2>4. Head(channel[Preceding(r)][r]).from \in Ranks \X Nat
    BY <2>2 DEF Messages
  <2>5. \/ returned' = returned /\ Goto(r, "failed")
        \/ Return(r, Head(channel[Preceding(r)][r]).from) /\ Goto(r, "sent")
    BY <1>8 DEF TakeObject
  <2>6. returned' \in [Ranks -> Seq([id : Nat, value : Ranks \X Nat])]
    BY <1>0, <1>1, <2>4, <2>5, TypedReturn
  <2>7. PICK p \in {"sent", "failed"} : at' = [at EXCEPT ![r] = p]
    BY <2>5 DEF Goto
  <2>8. QED
    BY <1>0, <1>1, <1>4, <1>21, <1>8, <2>2, <2>3, <2>6, <2>7, MoveKeepsTypes DEF TakeObject
<1>9. CASE SendHeader(r)
  <2>1. Call(r).op = "send" /\ Call(r).peer \in Ranks /\ Call(r).len \in Nat
    BY <1>2, <1>9, CallTypes DEF SendHeader, In
  <2>2. Message(r, "header", HeaderBytes, Call(r).len) \in Messages
    BY <1>1, <2>1, TypedMessage DEF Kinds, HeaderBytes
  <2>3. channel' \in Channels
    BY <1>0, <1>9, <2>1, <2>2, TypedPost DEF SendHeader
  <2>4. "announced" \in PlacesOf(Call(r)) /\ Call(r).op # "write"
    BY <2>1 DEF PlacesOf, Rings, Vectors
  <2>20. /\ Expected(r, "announced") /\ at' = [at EXCEPT ![r] = "announced"]
         /\ program' = program /\ done' = done /\ turn' = [turn EXCEPT ![r] = 0]
         /\ room' = room /\ returned' = returned /\ file' = file /\ entered' = entered /\ out' = out
    BY <1>4, <1>21, <1>9, <2>4 DEF SendHeader, Goto
  <2>5. QED
    BY <1>0, <1>1, <2>3, <2>4, <2>20, MoveKeepsTypes
<1>10. CASE SendData(r)
  <2>1. Call(r).op = "send" /\ Call(r).peer \in Ranks /\ Call(r).len \in Nat
    BY <1>2, <1>10, CallTypes DEF SendData, In
  <2>2. Message(r, "data", Call(r).len, 0) \in Messages
    BY <1>1, <2>1, TypedMessage DEF Kinds
  <2>3. channel' \in Channels
    BY <1>0, <1>10, <2>1, <2>2, TypedPost DEF SendData
  <2>4. "sent" \in PlacesOf(Call(r)) /\ Call(r).op # "write"
    BY <2>1 DEF PlacesOf, Rings, Vectors
  <2>20. /\ Expected(r, "sent") /\ at' = [at EXCEPT ![r] = "sent"]
         /\ program' = program /\ done' = done /\ turn' = [turn EXCEPT ![r] = 0]
         /\ room' = room /\ returned' = returned /\ file' = file /\ entered' = entered /\ out' = out
    BY <1>4, <1>21, <1>10, <2>4 DEF SendData, Goto
  <2>5. QED
    BY <1>0, <1>1, <2>3, <2>4, <2>20, MoveKeepsTypes
<1>11. CASE RecvStart(r)
  <2>1. Call(r).op = "recv"
    BY <1>11 DEF RecvStart, In
  <2>2. "header" \in PlacesOf(Call(r)) /\ Call(r).op # "write"
    BY <2>1 DEF PlacesOf, Rings, Vectors
  <2>3. QED
    <3>1. /\ Expected(r, "header") /\ at' = [at EXCEPT ![r] = "header"]
          /\ program' = program /\ done' = done /\ turn' = [turn EXCEPT ![r] = 0]
          /\ room' = room /\ returned' = returned /\ file' = file /\ channel' = channel
          /\ entered' = entered /\ out' = out
      BY <1>4, <1>11, <1>22, <2>1, <2>2 DEF RecvStart, Goto
    <3>2. QED
      BY <1>0, <1>1, <2>2, <3>1, MoveKeepsTypes
<1>12. CASE PrintStart(r)
  <2>1. Call(r).op = "print"
    BY <1>12 DEF PrintStart, In
  <2>2. {"barrier", "sent", "turn", "header"} \subseteq PlacesOf(Call(r)) /\ Call(r).op # "write"
    BY <2>1 DEF PlacesOf, Rings, Vectors
  <2>3. entered' \in [Ranks -> Nat]
    <3>1. entered[r] + 1 \in Nat
      BY <1>0
    <3>2. entered' = entered \/ entered' = [entered EXCEPT ![r] = entered[r] + 1]
      BY <1>12 DEF PrintStart
    <3>3. QED
      BY <1>0, <3>1, <3>2
  <2>4. PICK p \in {"barrier", "sent", "turn", "header"} :
          at' = [at EXCEPT ![r] = p] /\ Expected(r, p)
    BY <1>12 DEF PrintStart, Goto, Posture, Expected
  <2>5. QED
    BY <1>0, <1>1, <1>4, <1>21, <1>12, <2>2, <2>3, <2>4, MoveKeepsTypes DEF PrintStart
<1>13. CASE PrintBarrier(r)
  <2>1. Call(r).op = "print"
    BY <1>13 DEF PrintBarrier, In
  <2>2. {"sent", "turn", "header"} \subseteq PlacesOf(Call(r)) /\ Call(r).op # "write"
    BY <2>1 DEF PlacesOf, Rings, Vectors
  <2>3. PICK p \in {"sent", "turn", "header"} : at' = [at EXCEPT ![r] = p] /\ Expected(r, p)
    BY <1>13 DEF PrintBarrier, Goto, Posture, Expected
  <2>4. QED
    BY <1>0, <1>1, <1>4, <1>21, <1>13, <2>2, <2>3, MoveKeepsTypes DEF PrintBarrier
<1>14. ASSUME TakeHeader(r) \/ TakeData(r) PROVE TypeInv'
  <2>1. Call(r).op \in {"print", "recv"} /\ at[r] \in {"header", "data"}
    BY <1>14 DEF TakeHeader, TakeData, In
  <2> DEFINE s == Source(r)
             m == Head(channel[s][r])
  <2>2. s \in Ranks
    <3>1. CASE Call(r).op = "recv"
      BY <1>2, <3>1, CallTypes DEF Source
    <3>2. CASE Call(r).op = "print"
      <4>1. Prints(r) /\ Position(r) # 1
        BY <2>1, <3>2 DEF TypeInv, PlaceOf, Expected
      <4>2. QED
        BY <1>2, <3>2, <4>1, BeforeAndAfter DEF Source
    <3>3. QED
      BY <2>1, <3>1, <3>2
  <2>3. channel' \in Channels /\ m \in Messages
    <3>1. Arrived(s, r) /\ channel' = Taken(s, r)
      BY <1>14 DEF TakeHeader, TakeData
    <3>2. QED
      BY <1>0, <2>2, <3>1, TypedTake
  <2>4. {"data", "sent", "failed"} \subseteq PlacesOf(Call(r)) /\ Call(r).op # "write"
        /\ (Call(r).op = "print" => "turn" \in PlacesOf(Call(r)))
    BY <2>1 DEF PlacesOf, Rings, Vectors
  <2>5. room' \in [Ranks -> Nat]
    BY <1>0, <1>14, <2>3 DEF TakeHeader, TakeData, Messages
  <2>6. m.from \in Ranks \X Nat
    BY <2>3 DEF Messages
  <2>7. \/ returned' = returned /\ Goto(r, "failed")
        \/ returned' = returned /\ Goto(r, "data")
        \/ returned' = returned /\ Goto(r, "turn") /\ Call(r).op = "print"
        \/ Return(r, m.from) /\ Goto(r, "sent")
    <3>1. CASE TakeHeader(r)
      BY <3>1 DEF TakeHeader, Received
    <3>2. CASE TakeData(r)
      BY <3>2 DEF TakeData, Received
    <3>3. QED
      BY <1>14, <3>1, <3>2
  <2>8. returned' \in [Ranks -> Seq([id : Nat, value : Ranks \X Nat])]
    BY <1>0, <1>1, <2>6, <2>7, TypedReturn
  <2>9. PICK p \in {"sent", "failed", "data", "turn"} :
          /\ at' = [at EXCEPT ![r] = p]
          /\ p = "turn" => Call(r).op = "print"
          /\ Expected(r, p)
    <3>1. Expected(r, at[r])
      BY DEF TypeInv, PlaceOf
    <3>2. \A p \in {"sent", "failed", "data"} : Expected(r, p)
      BY <2>1, <3>1 DEF Expected
    <3>3. Call(r).op = "print" => Expected(r, "turn")
      BY <2>1, <3>1 DEF Expected
    <3>4. QED
      BY <2>7, <3>2, <3>3 DEF Goto
  <2>10. program' = program /\ done' = done /\ turn' = turn /\ entered' = entered
         /\ out' = out /\ file' = file
    BY <1>14 DEF TakeHeader, TakeData
  <2> HIDE DEF s, m
  <2>11. QED
    BY <1>0, <1>1, <1>4, <2>3, <2>4, <2>5, <2>8, <2>9, <2>10, MoveKeepsTypes
<1>15. CASE PrintOut(r)
  <2>1. Call(r).op = "print"
    BY <1>15 DEF PrintOut, In
  <2>2. "sent" \in PlacesOf(Call(r)) /\ Call(r).op # "write"
    BY <2>1 DEF PlacesOf, Rings, Vectors
  <2>3. out' \in Seq(Nat \X Ranks)
    <3>1. <<Call(r).id, r>> \in Nat \X Ranks
      BY <1>2
    <3>2. QED
      BY <1>0, <1>15, <3>1, AppendTyped DEF PrintOut
  <2>4. Message(r, "header", HeaderBytes, 0) \in Messages
    BY <1>1, <2>1, TypedMessage DEF Kinds, HeaderBytes
  <2>5. channel' \in Channels
    <3>1. Prints(r)
      BY <1>15 DEF PrintOut, In, TypeInv, PlaceOf, Expected
    <3>2. CASE Final(r)
      BY <1>0, <1>15, <3>2 DEF PrintOut
    <3>3. CASE ~ Final(r)
      <4>1. After(r) \in Ranks
        BY <1>2, <2>1, <3>1, <3>3, BeforeAndAfter
      <4>2. QED
        BY <1>0, <1>15, <2>4, <3>3, <4>1, TypedPost DEF PrintOut
    <3>4. QED
      BY <3>2, <3>3
  <2>20. /\ Expected(r, "sent") /\ at' = [at EXCEPT ![r] = "sent"]
         /\ program' = program /\ done' = done /\ turn' = [turn EXCEPT ![r] = 0]
         /\ room' = room /\ returned' = returned /\ file' = file /\ entered' = entered
    BY <1>4, <1>21, <1>15, <2>2 DEF PrintOut, Goto
  <2>6. QED
    BY <1>0, <1>1, <2>2, <2>3, <2>5, <2>20, MoveKeepsTypes
<1>16. CASE WriteTurn(r)
  <2>1. Call(r).op = "write" /\ at[r] = "call" /\ turn[r] \in 0..(P - 1) /\ turn = [turn EXCEPT ![r] = turn[r]]
    BY <1>0, <1>16 DEF WriteTurn, In
  <2>2. "between" \in PlacesOf(Call(r))
    BY <2>1 DEF PlacesOf, Rings, Vectors
  <2>3. file' \in Seq(Nat \X Ranks)
    <3>1. <<Call(r).id, r>> \in Nat \X Ranks
      BY <1>2
    <3>2. Written(r) \in Seq(Nat \X Ranks)
      <4>1. <<<<Call(r).id, r>>>> \in Seq(Nat \X Ranks)
        BY <3>1
      <4>2. Append(file, <<Call(r).id, r>>) \in Seq(Nat \X Ranks)
        BY <1>0, <3>1, AppendTyped
      <4>3. QED
        BY <4>1, <4>2 DEF Written
    <3>3. QED
      BY <1>0, <1>16, <3>2 DEF WriteTurn
  <2>4. entered' \in [Ranks -> Nat]
    BY <1>0, <1>16 DEF WriteTurn
  <2>5. QED
    BY <1>0, <1>1, <1>16, <1>21, <2>1, <2>2, <2>3, <2>4, MoveKeepsTypes DEF WriteTurn, Goto
<1>17. CASE WriteBarrier(r)
  <2>1. Call(r).op = "write" /\ turn[r] \in 0..(P - 1)
    BY <1>0, <1>17 DEF WriteBarrier, In
  <2>2. {"call", "sent"} \subseteq PlacesOf(Call(r))
    BY <2>1 DEF PlacesOf, Rings, Vectors
  <2>6. /\ Expected(r, "call") /\ Expected(r, "sent")
        /\ program' = program /\ done' = done /\ room' = room /\ entered' = entered
        /\ channel' = channel /\ returned' = returned /\ out' = out /\ file' = file
    BY <1>17, <1>21 DEF WriteBarrier
  <2>3. CASE turn[r] = P - 1
    <3>1. at' = [at EXCEPT ![r] = "sent"] /\ turn' = [turn EXCEPT ![r] = 0]
      BY <1>17, <2>3 DEF WriteBarrier, Goto
    <3>2. QED
      BY <1>0, <1>1, <2>2, <2>6, <3>1, MoveKeepsTypes
  <2>4. CASE turn[r] # P - 1
    <3>1. turn[r] + 1 \in 0..(P - 1)
      BY <2>1, <2>4, SizeAssumption
    <3>2. at' = [at EXCEPT ![r] = "call"] /\ turn' = [turn EXCEPT ![r] = turn[r] + 1]
      BY <1>17, <2>4 DEF WriteBarrier, Goto
    <3>3. QED
      BY <1>0, <1>1, <2>1, <2>2, <2>6, <3>1, <3>2, MoveKeepsTypes
  <2>5. QED
    BY <2>3, <2>4
<1>18. CASE Leave(r)
  <2>1. /\ done' = [done EXCEPT ![r] = @ + 1] /\ at' = [at EXCEPT ![r] = "call"]
        /\ program' = program /\ turn' = turn /\ at[r] = "sent"
    BY <1>18 DEF Leave, Done, Goto
  <2>2. done[r] \in Nat /\ done[r] + 1 <= Len(program[r]) /\ turn[r] = 0
    <3>1. Len(program[r]) \in Nat /\ done[r] \in Nat /\ done[r] < Len(program[r])
      BY <1>1 DEF TypeInv, Types, Running
    <3>2. QED
      BY <2>1, <3>1 DEF TypeInv, PlaceOf
  <2>3. done' \in [Ranks -> Nat] /\ at' \in [Ranks -> Places]
    <3>1. done[r] + 1 \in Nat /\ "call" \in Places
      BY <2>2 DEF Places
    <3>2. QED
      BY <1>0, <2>1, <3>1
  <2>4. \A q \in Ranks : PlaceOf(q)'
    <3>1. SUFFICES ASSUME NEW q \in Ranks PROVE PlaceOf(q)'
      OBVIOUS
    <3>2. CASE q # r
      <4>1. done'[q] = done[q] /\ at'[q] = at[q]
        BY <1>0, <2>1, <3>2
      <4>2. PlaceOf(q)
        BY DEF TypeInv
      <4>3. QED
        BY <2>1, <4>1, <4>2, SMTT(30) DEF PlaceOf, Running, Call, Expected, Prints, Position, Final
    <3>3. CASE q = r
      <4>1. done'[q] = done[q] + 1 /\ at'[q] = "call" /\ turn'[q] = 0
        BY <1>0, <2>1, <2>2, <3>3
      <4>2. Running(q)' => "call" \in PlacesOf(Call(q)')
        <5>1. SUFFICES ASSUME Running(q)' PROVE "call" \in PlacesOf(Call(q)')
          OBVIOUS
        <5>2. program'[q] \in Seq(Calls) /\ done'[q] + 1 \in 1..Len(program'[q])
          <6>1. program'[q] \in Seq(Calls) /\ done'[q] \in Nat
            BY <2>1, <2>3 DEF TypeInv, Types
          <6>2. done'[q] < Len(program'[q])
            BY <5>1 DEF Running
          <6>3. QED
            BY <6>1, <6>2
        <5>3. Call(q)' \in Calls
          BY <5>2 DEF Call
        <5>4. Call(q)'.op \in Together \cup {"send", "recv"}
          BY <5>3, CallTypes
        <5>5. QED
          BY <5>4 DEF PlacesOf, Together, Rings, Vectors
      <4>3. QED
        BY <2>1, <2>2, <3>3, <4>1, <4>2 DEF PlaceOf, Expected
    <3>4. QED
      BY <3>2, <3>3
  <2>5. Types'
    BY <1>18, <2>1, <2>3 DEF Leave, TypeInv, Types
  <2>6. QED
    BY <2>4, <2>5 DEF TypeInv
<1>19. QED
  BY <1>5, <1>6, <1>7, <1>8, <1>9, <1>10, <1>11, <1>12, <1>13, <1>14, <1>15, <1>16, <1>17, <1>18 DEF Step

------------------------------------------------------------------------------
(* Barriers are counted                                                    *)

\* What a step of rank r leaves alone of the others.
OthersStay(r) ==
  /\ program' = program
  /\ \A q \in Ranks : q # r =>
       done'[q] = done[q] /\ at'[q] = at[q] /\ turn'[q] = turn[q] /\ entered'[q] = entered[q]
       /\ room'[q] = room[q] /\ returned'[q] = returned[q]

LEMMA OnlyOneMoves ==
  ASSUME TypeInv, NEW r \in Ranks, Step(r)
  PROVE  OthersStay(r)
<1>1. /\ done \in [Ranks -> Nat] /\ at \in [Ranks -> Places] /\ turn \in [Ranks -> 0..(P - 1)]
      /\ entered \in [Ranks -> Nat] /\ room \in [Ranks -> Nat]
      /\ returned = [q \in Ranks |-> returned[q]]
  BY DEF TypeInv, Types
<1>2. /\ program' = program
      /\ done' = done \/ done' = [done EXCEPT ![r] = @ + 1]
      /\ \E p : at' = [at EXCEPT ![r] = p]
      /\ \E t : turn' = [turn EXCEPT ![r] = t]
      /\ entered' = entered \/ entered' = [entered EXCEPT ![r] = @ + 1]
      /\ \E n : room' = [room EXCEPT ![r] = n]
      /\ \E v : returned' = [returned EXCEPT ![r] = v]
  <2>1. turn = [turn EXCEPT ![r] = turn[r]] /\ room = [room EXCEPT ![r] = room[r]]
        /\ returned = [returned EXCEPT ![r] = returned[r]]
    BY <1>1
  <2>2. CASE SendLength(r) \/ SendHeader(r) \/ SendData(r) \/ RecvStart(r) \/ PrintStart(r)
    BY <2>1, <2>2 DEF SendLength, SendHeader, SendData, RecvStart, PrintStart, Goto
  <2>3. CASE TakeLength(r) \/ SendObject(r) \/ TakeObject(r)
    BY <2>1, <2>3 DEF TakeLength, SendObject, TakeObject, Goto, Return
  <2>4. CASE PrintBarrier(r) \/ PrintOut(r) \/ WriteTurn(r) \/ Leave(r)
    BY <2>1, <2>4 DEF PrintBarrier, PrintOut, WriteTurn, Leave, Goto, Done
  <2>5. CASE WriteBarrier(r)
    BY <2>1, <2>5 DEF WriteBarrier, Goto
  <2>6. CASE TakeHeader(r)
    BY <2>1, <2>6 DEF TakeHeader, Received, Return, Goto
  <2>7. CASE TakeData(r)
    BY <2>1, <2>7 DEF TakeData, Received, Return, Goto
  <2>8. QED
    BY <2>2, <2>3, <2>4, <2>5, <2>6, <2>7 DEF Step
<1>3. SUFFICES ASSUME NEW q \in Ranks, q # r
               PROVE  done'[q] = done[q] /\ at'[q] = at[q] /\ turn'[q] = turn[q]
                      /\ entered'[q] = entered[q] /\ room'[q] = room[q] /\ returned'[q] = returned[q]
  BY <1>2 DEF OthersStay
<1>4. QED
  BY <1>1, <1>2, <1>3

\* The count of rank r is right after its step, and all ranks have entered the
\* barriers it has left.
LEMMA OneCounts ==
  ASSUME TypeInv, TypeInv', BarrierInv, NEW r \in Ranks, OthersStay(r),
         entered'[r] = Barriers(program[r], done'[r]) + Inner(r)',
         entered[r] <= entered'[r],
         \A q \in Ranks : q # r => Left(r)' <= entered[q]
  PROVE  BarrierInv'
<1>1. \A q \in Ranks : q # r => entered'[q] = Barriers(program'[q], done'[q]) + Inner(q)'
  BY DEF BarrierInv, OthersStay, Inner, Running, Call
<1>2. \A q \in Ranks : q # r => Left(q)' = Left(q)
  BY DEF OthersStay, Left
<1>2a. \A q \in Ranks : entered'[q] \in Nat /\ entered[q] \in Nat
  <2>1. Types /\ Types'
    BY DEF TypeInv
  <2>2. entered \in [Ranks -> Nat] /\ entered' \in [Ranks -> Nat]
    BY <2>1 DEF Types
  <2>3. QED
    BY <2>2
<1>3. \A q \in Ranks : entered'[q] \in Nat /\ entered[q] \in Nat /\ Left(q) \in Int /\ Left(q)' \in Int
      /\ Left(q)' <= entered'[q]
  BY <1>2a DEF Left
<1>4. ASSUME NEW q \in Ranks, NEW p \in Ranks PROVE Left(q)' <= entered'[p]
  <2>1. CASE q = r /\ p = r
    BY <1>3, <2>1
  <2>2. CASE q = r /\ p # r
    BY <2>2 DEF OthersStay
  <2>3. CASE q # r /\ p # r
    BY <1>2, <2>3 DEF OthersStay, BarrierInv
  <2>4. CASE q # r /\ p = r
    <3>1. Left(q) <= entered[r]
      BY DEF BarrierInv
    <3>2. QED
      BY <1>2, <1>3, <2>4, <3>1
  <2>5. QED
    BY <2>1, <2>2, <2>3, <2>4
<1>5. QED
  BY <1>1, <1>4 DEF BarrierInv, OthersStay

LEMMA InnerTypes ==
  ASSUME TypeInv, NEW r \in Ranks
  PROVE  /\ Barriers(program[r], done[r]) \in Nat
         /\ Running(r) => BarriersOf(Call(r)) \in Nat
         /\ Inner(r) \in Nat
         /\ turn[r] \in Nat /\ entered[r] \in Nat
<1>1. turn[r] \in Nat /\ entered[r] \in Nat /\ program[r] \in Seq(Calls) /\ done[r] \in 0..Len(program[r])
  BY DEF TypeInv, Types, PlaceOf
<1>2. Running(r) => BarriersOf(Call(r)) \in Nat
  BY TypedCall, BarriersOfACall
<1>3. QED
  BY <1>1, <1>2, BarriersCount DEF Inner

\* Steps without a barrier: the place changes, the count does not.
LEMMA NoBarrier ==
  ASSUME TypeInv, TypeInv', BarrierInv, NEW r \in Ranks, OthersStay(r),
         done'[r] = done[r], entered'[r] = entered[r], Inner(r)' = Inner(r), Left(r)' = Left(r)
  PROVE  BarrierInv'
<1>1. entered'[r] = Barriers(program[r], done'[r]) + Inner(r)'
  BY DEF BarrierInv
<1>2. \A q \in Ranks : Left(r)' <= entered[q]
  BY DEF BarrierInv
<1>3. entered[r] <= entered'[r]
  BY InnerTypes
<1>4. QED
  BY <1>1, <1>2, <1>3, OneCounts

LEMMA StepKeepsBarriers ==
  ASSUME TypeInv, TypeInv', BarrierInv, NEW r \in Ranks, Step(r)
  PROVE  BarrierInv'
<1>1. OthersStay(r)
  BY OnlyOneMoves
<1>2. Running(r)
  BY DEF Step, SendLength, TakeLength, SendObject, TakeObject, SendHeader, SendData, RecvStart,
         PrintStart, PrintBarrier, TakeHeader, TakeData, PrintOut, WriteTurn, WriteBarrier, Leave, In
<1>3. /\ at \in [Ranks -> Places] /\ done \in [Ranks -> Nat] /\ entered \in [Ranks -> Nat]
      /\ turn \in [Ranks -> 0..(P - 1)]
  BY DEF TypeInv, Types
<1>4. /\ Barriers(program[r], done[r]) \in Nat /\ BarriersOf(Call(r)) \in Nat
      /\ Inner(r) \in Nat /\ turn[r] \in Nat /\ entered[r] \in Nat
      /\ entered[r] = Barriers(program[r], done[r]) + Inner(r)
  BY <1>2, InnerTypes DEF BarrierInv
<1>5. Call(r).op # "write" => turn[r] = 0
  BY <1>2, NoTurn
<1>6. Call(r).op \in Together \cup {"send", "recv"}
  BY <1>2, TypedCall, CallTypes
<1>7. CASE SendLength(r) \/ SendHeader(r) \/ SendData(r) \/ RecvStart(r) \/ TakeLength(r)
           \/ SendObject(r) \/ TakeObject(r) \/ PrintOut(r) \/ TakeHeader(r) \/ TakeData(r)
  <2>1. /\ Call(r).op \in Rings \cup {"send", "recv", "print"}
        /\ at[r] = "call" => Call(r).op # "print"
        /\ at[r] \notin {"barrier", "between"}
    BY <1>7 DEF SendLength, SendHeader, SendData, RecvStart, TakeLength, SendObject, TakeObject,
                PrintOut, TakeHeader, TakeData, In, Vectors, Rings
  <2>2. program' = program /\ done' = done /\ entered' = entered
    BY <1>7 DEF SendLength, SendHeader, SendData, RecvStart, TakeLength, SendObject, TakeObject,
                PrintOut, TakeHeader, TakeData
  <2>3. \E p \in Places \ {"call", "barrier", "between"} : at' = [at EXCEPT ![r] = p]
    <3>1. CASE SendLength(r) \/ SendHeader(r) \/ SendData(r) \/ RecvStart(r) \/ PrintOut(r)
      BY <3>1 DEF SendLength, SendHeader, SendData, RecvStart, PrintOut, Goto, Places
    <3>2. CASE TakeLength(r) \/ SendObject(r) \/ TakeObject(r)
      BY <3>2 DEF TakeLength, SendObject, TakeObject, Goto, Places
    <3>3. CASE TakeHeader(r)
      BY <3>3 DEF TakeHeader, Received, Goto, Places
    <3>4. CASE TakeData(r)
      BY <3>4 DEF TakeData, Received, Goto, Places
    <3>5. QED
      BY <1>7, <3>1, <3>2, <3>3, <3>4
  <2>4. at'[r] \notin {"call", "barrier", "between"}
    BY <1>3, <2>3
  <2>5. Inner(r) = BarriersOf(Call(r))
    <3>1. CASE at[r] = "call"
      BY <1>2, <1>5, <2>1, <3>1 DEF Inner, BarriersOf, Rings
    <3>2. CASE at[r] # "call"
      BY <1>2, <2>1, <3>2 DEF Inner
    <3>3. QED
      BY <3>1, <3>2
  <2>6. Inner(r)' = BarriersOf(Call(r))
    BY <1>2, <2>2, <2>4 DEF Inner, Running, Call
  <2>7. Left(r)' = Left(r)
    BY <2>1, <2>2, <2>4 DEF Left
  <2>8. QED
    BY <1>1, <2>2, <2>5, <2>6, <2>7, NoBarrier
<1>8. CASE PrintStart(r)
  <2>1. Call(r).op = "print" /\ at[r] = "call" /\ turn[r] = 0 /\ program' = program /\ done' = done
    BY <1>5, <1>8 DEF PrintStart, In
  <2>2. Inner(r) = 0 /\ Left(r) = entered[r]
    BY <1>2, <2>1 DEF Inner, Left
  <2>3. Running(r)' /\ Call(r)' = Call(r)
    BY <1>2, <2>1 DEF Running, Call
  <2>4. CASE Call(r).barrier
    <3>1. at'[r] = "barrier" /\ entered'[r] = entered[r] + 1
      BY <1>3, <1>8, <2>4 DEF PrintStart, Goto
    <3>2. Inner(r)' = 1
      BY <2>1, <2>3, <2>4, <3>1 DEF Inner, BarriersOf
    <3>3. Left(r)' = Left(r)
      BY <1>4, <2>2, <3>1 DEF Left
    <3>4. \A q \in Ranks : Left(r)' <= entered[q]
      BY <3>3 DEF BarrierInv
    <3>5. entered'[r] = Barriers(program[r], done'[r]) + Inner(r)' /\ entered[r] <= entered'[r]
      BY <1>4, <2>1, <2>2, <3>1, <3>2
    <3>6. QED
      BY <1>1, <3>4, <3>5, OneCounts
  <2>5. CASE ~ Call(r).barrier
    <3>1. at'[r] \in {"sent", "turn", "header"} /\ entered'[r] = entered[r]
      BY <1>3, <1>8, <2>5 DEF PrintStart, Goto, Posture
    <3>2. Inner(r)' = 0
      BY <2>1, <2>3, <2>5, <3>1 DEF Inner, BarriersOf
    <3>3. Left(r)' = Left(r)
      BY <2>2, <3>1 DEF Left
    <3>4. QED
      BY <1>1, <2>1, <2>2, <3>1, <3>2, <3>3, NoBarrier
  <2>6. QED
    BY <2>4, <2>5
<1>9. CASE PrintBarrier(r)
  <2>1. /\ Call(r).op = "print" /\ at[r] = "barrier" /\ program' = program /\ done' = done
        /\ entered' = entered
    BY <1>9 DEF PrintBarrier, In
  <2>2. at'[r] \in {"sent", "turn", "header"}
    BY <1>3, <1>9 DEF PrintBarrier, Goto, Posture
  <2>3. Inner(r)' = Inner(r)
    BY <1>2, <2>1, <2>2 DEF Inner, Running, Call
  <2>4. Left(r)' = entered[r]
    BY <2>1, <2>2 DEF Left
  <2>5. \A q \in Ranks : Left(r)' <= entered[q]
    BY <1>3, <1>9, <2>4 DEF PrintBarrier, Released
  <2>6. entered'[r] = Barriers(program[r], done'[r]) + Inner(r)' /\ entered[r] <= entered'[r]
    BY <1>4, <2>1, <2>3
  <2>7. QED
    BY <1>1, <2>5, <2>6, OneCounts
<1>10. CASE WriteTurn(r)
  <2>1. /\ Call(r).op = "write" /\ at[r] = "call" /\ program' = program /\ done' = done
        /\ turn' = turn /\ at'[r] = "between" /\ entered'[r] = entered[r] + 1
    BY <1>3, <1>10 DEF WriteTurn, In, Goto
  <2>2. Inner(r) = turn[r] /\ Inner(r)' = turn[r] + 1
    BY <1>2, <2>1 DEF Inner, Running, Call
  <2>3. Left(r)' = Left(r)
    BY <1>4, <2>1 DEF Left
  <2>4. \A q \in Ranks : Left(r)' <= entered[q]
    BY <2>3 DEF BarrierInv
  <2>5. entered'[r] = Barriers(program[r], done'[r]) + Inner(r)' /\ entered[r] <= entered'[r]
    BY <1>4, <2>1, <2>2
  <2>6. QED
    BY <1>1, <2>4, <2>5, OneCounts
<1>11. CASE WriteBarrier(r)
  <2>1. /\ Call(r).op = "write" /\ at[r] = "between" /\ program' = program /\ done' = done
        /\ entered' = entered
    BY <1>11 DEF WriteBarrier, In
  <2>2. Inner(r)' = Inner(r) /\ at'[r] \in {"sent", "call"}
    <3>1. CASE turn[r] = P - 1
      <4>1. at'[r] = "sent"
        BY <1>3, <1>11, <3>1 DEF WriteBarrier, Goto
      <4>2. BarriersOf(Call(r)) = turn[r] + 1
        BY <2>1, <3>1, SizeAssumption DEF BarriersOf
      <4>3. QED
        BY <1>2, <2>1, <4>1, <4>2 DEF Inner, Running, Call
    <3>2. CASE turn[r] # P - 1
      <4>1. at'[r] = "call" /\ turn'[r] = turn[r] + 1
        BY <1>3, <1>11, <3>2 DEF WriteBarrier, Goto
      <4>2. QED
        BY <1>2, <2>1, <4>1 DEF Inner, Running, Call
    <3>3. QED
      BY <3>1, <3>2
  <2>4. Left(r)' = entered[r]
    BY <2>1, <2>2 DEF Left
  <2>5. \A q \in Ranks : Left(r)' <= entered[q]
    BY <1>3, <1>11, <2>4 DEF WriteBarrier, Released
  <2>6. entered'[r] = Barriers(program[r], done'[r]) + Inner(r)' /\ entered[r] <= entered'[r]
    BY <1>4, <2>1, <2>2
  <2>7. QED
    BY <1>1, <2>5, <2>6, OneCounts
<1>12. CASE Leave(r)
  <2>1. /\ at[r] = "sent" /\ program' = program /\ done'[r] = done[r] + 1 /\ at'[r] = "call"
        /\ turn' = turn /\ entered' = entered
    BY <1>3, <1>12 DEF Leave, Done, Goto
  <2>2. turn[r] = 0
    BY <2>1 DEF TypeInv, PlaceOf
  <2>3. Inner(r) = BarriersOf(Call(r)) /\ Inner(r)' = 0
    BY <1>2, <2>1, <2>2 DEF Inner
  <2>4. Left(r)' = Left(r)
    BY <2>1 DEF Left
  <2>5. \A q \in Ranks : Left(r)' <= entered[q]
    BY <2>4 DEF BarrierInv
  <2>6. Barriers(program[r], done[r] + 1) = Barriers(program[r], done[r]) + BarriersOf(Call(r))
    <3>1. program[r] \in Seq(Calls) /\ done[r] + 1 \in 1..Len(program[r]) /\ (done[r] + 1) - 1 = done[r]
      BY <1>2, SMTT(30) DEF TypeInv, Types, Running
    <3>2. QED
      BY <3>1, BarriersCount DEF Call
  <2>7. entered'[r] = Barriers(program[r], done'[r]) + Inner(r)' /\ entered[r] <= entered'[r]
    BY <1>4, <2>1, <2>3, <2>6
  <2>8. QED
    BY <1>1, <2>5, <2>7, OneCounts
<1>13. QED
  BY <1>7, <1>8, <1>9, <1>10, <1>11, <1>12 DEF Step

------------------------------------------------------------------------------
(* The file                                                                *)

\* The calls a rank has returned from count among the barriers it has left.
LEMMA LeftBehind ==
  ASSUME TypeInv, BarrierInv, NEW r \in Ranks
  PROVE  Barriers(program[r], done[r]) <= Left(r) /\ Left(r) <= entered[r] /\ Left(r) \in Int
<1> DEFINE b == Barriers(program[r], done[r])
<1>1. b \in Nat /\ Inner(r) \in Nat /\ entered[r] \in Nat /\ entered[r] = b + Inner(r) /\ turn[r] \in Nat
  BY InnerTypes DEF BarrierInv
<1>2. CASE at[r] \in {"barrier", "between"}
  <2>1. Running(r) /\ at[r] \in PlacesOf(Call(r)) /\ Expected(r, at[r])
    BY <1>2 DEF TypeInv, PlaceOf
  <2>2. Call(r).op \in Together \cup {"send", "recv"}
    BY <2>1, TypedCall, CallTypes
  <2>3. CASE at[r] = "barrier"
    <3>1. Call(r).op = "print" /\ Call(r).barrier
      BY <2>1, <2>2, <2>3 DEF PlacesOf, Expected, Together, Rings, Vectors
    <3>2. Inner(r) = 1
      BY <2>1, <2>3, <3>1 DEF Inner, BarriersOf
    <3>3. QED
      BY <1>1, <2>3, <3>2 DEF Left
  <2>4. CASE at[r] = "between"
    <3>1. Inner(r) = turn[r] + 1
      BY <2>1, <2>4 DEF Inner
    <3>2. QED
      BY <1>1, <2>4, <3>1 DEF Left
  <2>5. QED
    BY <1>2, <2>3, <2>4
<1>3. CASE at[r] \notin {"barrier", "between"}
  BY <1>1, <1>3 DEF Left
<1>4. QED
  BY <1>2, <1>3

\* Rank q writes its block before it enters barrier q of the call.
LEMMA WroteWhen ==
  ASSUME TypeInv, BarrierInv, NEW q \in Ranks, NEW j \in DOMAIN program[q], program[q][j].op = "write"
  PROVE  Wrote(q, j) <=> entered[q] > Barriers(program[q], j - 1) + q
<1> DEFINE s == program[q]
           b(n) == Barriers(s, n)
<1>1. /\ Programmed /\ s \in Seq(Calls) /\ Len(s) \in Nat /\ done[q] \in 0..Len(s) /\ done[q] \in Nat
      /\ j \in 1..Len(s) /\ j - 1 \in 0..Len(s) /\ q \in Nat /\ q < P /\ P \in Nat
  <2>1. Programmed /\ done[q] \in Nat /\ done[q] <= Len(program[q])
    BY DEF TypeInv, Types, Programmed, PlaceOf
  <2>2. s \in Seq(Calls) /\ j \in 1..Len(s)
    BY <2>1, CallOf
  <2>3. QED
    BY <2>1, <2>2, SizeAssumption DEF Ranks
<1>2. /\ b(j - 1) \in Nat /\ b(j) = b(j - 1) + P /\ b(done[q]) \in Nat
      /\ \A n \in 0..Len(s) : b(n) \in Nat
  <2>1. BarriersOf(s[j]) = P
    BY DEF BarriersOf
  <2>2. QED
    BY <1>1, <2>1, BarriersCount
<1>3. entered[q] = b(done[q]) + Inner(q) /\ Inner(q) \in Nat /\ turn[q] \in Nat /\ entered[q] \in Nat
  BY InnerTypes DEF BarrierInv
<1>4. CASE j <= done[q]
  <2>1. b(j) <= b(done[q])
    <3>1. j \in 0..Len(s)
      BY <1>1
    <3>2. QED
      BY <1>1, <1>4, <3>1, BarriersRise
  <2>2. entered[q] > b(j - 1) + q
    <3> HIDE DEF b
    <3> QED
      BY <1>1, <1>2, <1>3, <2>1
  <2>3. QED
    BY <1>4, <2>2 DEF Wrote
<1>5. CASE j = done[q] + 1
  <2>1. Running(q) /\ Call(q).op = "write" /\ b(j - 1) = b(done[q])
    BY <1>1, <1>5 DEF Running, Call
  <2>2. at[q] \in {"call", "between", "sent"}
    BY <2>1 DEF TypeInv, PlaceOf, PlacesOf, Rings, Vectors
  <2>3. Wrote(q, j) <=> at[q] = "sent" \/ turn[q] > q \/ (turn[q] = q /\ at[q] = "between")
    BY <1>1, <1>5 DEF Wrote
  <2>4. Inner(q) > q <=> at[q] = "sent" \/ turn[q] > q \/ (turn[q] = q /\ at[q] = "between")
    <3>1. CASE at[q] = "call"
      <4>1. Inner(q) = turn[q]
        BY <2>1, <3>1 DEF Inner
      <4>2. QED
        BY <1>1, <1>3, <3>1, <4>1
    <3>2. CASE at[q] = "between"
      <4>1. Inner(q) = turn[q] + 1
        BY <2>1, <3>2 DEF Inner
      <4>2. QED
        BY <1>1, <1>3, <3>2, <4>1
    <3>3. CASE at[q] = "sent"
      <4>1. Inner(q) = P
        BY <2>1, <3>3 DEF Inner, BarriersOf
      <4>2. QED
        BY <1>1, <3>3, <4>1
    <3>4. QED
      BY <2>2, <3>1, <3>2, <3>3
  <2>5. entered[q] > b(j - 1) + q <=> Inner(q) > q
    <3> HIDE DEF b
    <3> QED
      BY <1>1, <1>2, <1>3, <2>1, SMTT(30)
  <2>6. QED
    BY <2>3, <2>4, <2>5
<1>6. CASE j > done[q] + 1
  <2>1. ~ Wrote(q, j)
    BY <1>1, <1>6 DEF Wrote
  <2>2. Running(q) /\ done[q] + 1 \in 1..Len(s) /\ (done[q] + 1) - 1 = done[q] /\ done[q] + 1 <= j - 1
    BY <1>1, <1>6 DEF Running
  <2>3. b(done[q] + 1) = b(done[q]) + BarriersOf(Call(q)) /\ BarriersOf(Call(q)) \in Nat
    BY <1>1, <2>2, BarriersCount, InnerTypes DEF Call
  <2>4. b(done[q] + 1) <= b(j - 1)
    BY <1>1, <2>2, BarriersRise
  <2>5. Inner(q) <= BarriersOf(Call(q))
    <3>1. CASE turn[q] = 0 /\ at[q] = "call"
      BY <2>2, <2>3, <3>1 DEF Inner
    <3>2. CASE at[q] \notin {"call", "between"}
      BY <2>2, <2>3, <3>2 DEF Inner
    <3>3. CASE turn[q] # 0 /\ at[q] = "call"
      <4>1. Call(q).op = "write" /\ turn[q] \in 0..(P - 1)
        BY <3>3 DEF TypeInv, Types, PlaceOf
      <4>2. Inner(q) = turn[q] /\ BarriersOf(Call(q)) = P
        BY <2>2, <3>3, <4>1 DEF Inner, BarriersOf
      <4>3. QED
        BY <1>1, <4>1, <4>2
    <3>4. CASE at[q] = "between"
      <4>1. turn[q] \in 0..(P - 1) /\ "between" \in PlacesOf(Call(q))
        BY <2>2, <3>4 DEF TypeInv, Types, PlaceOf
      <4>2. Call(q).op \in Together \cup {"send", "recv"}
        BY <2>2, TypedCall, CallTypes
      <4>3. Call(q).op = "write"
        BY <4>1, <4>2 DEF PlacesOf, Together, Rings, Vectors
      <4>4. Inner(q) = turn[q] + 1 /\ BarriersOf(Call(q)) = P
        BY <2>2, <3>4, <4>3 DEF Inner, BarriersOf
      <4>5. QED
        BY <1>1, <4>1, <4>4
    <3>5. QED
      BY <3>1, <3>2, <3>3, <3>4
  <2>6. ~ (entered[q] > b(j - 1) + q)
    <3> HIDE DEF b
    <3> QED
      BY <1>1, <1>2, <1>3, <2>3, <2>4, <2>5
  <2>7. QED
    BY <2>1, <2>6
<1>7. QED
  BY <1>1, <1>4, <1>5, <1>6

\* What a block that was written says of another rank's calls
WroteBefore(q, g, r, i) ==
  \E h \in DOMAIN program[r] : Pair(q, g, r, h) /\ (h < i \/ (h = i /\ q < r))

\* When rank r writes in its call i, the ranks before it have, the ranks after it
\* have not, and nobody has written in a later call.
LEMMA WhoWrote ==
  ASSUME TypeInv, BarrierInv, NEW r \in Ranks, Running(r), Call(r).op = "write",
         at[r] = "call", turn[r] = r
  PROVE  /\ \A q \in Ranks : \A j \in DOMAIN program[q] :
              Pair(r, done[r] + 1, q, j) => (Wrote(q, j) <=> q < r)
         /\ \A q \in Ranks : \A g \in DOMAIN program[q] :
              Wrote(q, g) => WroteBefore(q, g, r, done[r] + 1)
<1> DEFINE i == done[r] + 1
           b == Barriers(program[r], i - 1)
<1>1. /\ Programmed /\ i \in DOMAIN program[r] /\ Call(r) = program[r][i] /\ done[r] \in Nat
      /\ i \in 1..Len(program[r]) /\ program[r] \in Seq(Calls) /\ i - 1 = done[r]
      /\ P \in Nat /\ r \in Nat /\ r < P /\ Len(program[r]) \in Nat
  <2>1. Programmed /\ i \in DOMAIN program[r] /\ Call(r) = program[r][i] /\ done[r] \in Nat
    BY TypedCall
  <2>2. i \in 1..Len(program[r]) /\ program[r] \in Seq(Calls)
    BY <2>1, CallOf
  <2>3. QED
    BY <2>1, <2>2, SizeAssumption DEF Ranks
<1>2. b \in Nat /\ entered[r] = b + r /\ Left(r) = b + r
  <2>1. Inner(r) = r
    BY DEF Inner
  <2>2. QED
    BY <1>1, <2>1, InnerTypes DEF BarrierInv, Left
<1> HIDE DEF b
<1>3. ASSUME NEW q \in Ranks PROVE entered[q] \in Nat /\ entered[q] >= b + r /\ entered[q] <= b + r + 1
  <2>1. Left(r) <= entered[q] /\ Left(q) <= entered[r] /\ entered[q] \in Nat
    BY InnerTypes DEF BarrierInv
  <2>2. entered[q] <= Left(q) + 1 /\ Left(q) \in Int
    BY <2>1 DEF Left
  <2>3. QED
    BY <1>1, <1>2, <2>1, <2>2
<1>4. ASSUME NEW q \in Ranks, NEW j \in DOMAIN program[q], Pair(r, i, q, j)
      PROVE  Wrote(q, j) <=> q < r
  <2>0. /\ program[r][i].op = "write" /\ program[r][i].op \in Together
        /\ program[r][i].op \notin Rings
    BY <1>1 DEF Together, Rings
  <2> HIDE DEF i
  <2>1. program[q][j] = program[r][i]
    BY <1>1, <1>4, <2>0, TogetherSides
  <2>2. Barriers(program[q], j - 1) = b
    BY <1>1, <1>4, <2>0, BarriersBefore DEF b
  <2>3. Wrote(q, j) <=> entered[q] > b + q
    BY <1>1, <2>1, <2>2, WroteWhen
  <2>4. q \in Nat
    BY DEF Ranks
  <2>5. q # r => (entered[q] > b + q <=> q < r)
    BY <1>1, <1>2, <1>3, <2>4
  <2>6. q = r => ~ (entered[q] > b + q)
    BY <1>1, <1>2
  <2>7. QED
    BY <1>1, <2>3, <2>4, <2>5, <2>6
<1>5. ASSUME NEW q \in Ranks, NEW g \in DOMAIN program[q], Wrote(q, g)
      PROVE  WroteBefore(q, g, r, i)
  <2>1. program[q][g].op = "write"
    BY <1>5 DEF Wrote
  <2>2. PICK h \in DOMAIN program[r] : Pair(q, g, r, h)
    BY <1>1, <2>1, TogetherPairs DEF Together, Rings
  <2>3. h \in 1..Len(program[r]) /\ h \in Nat
    BY <1>1
  <2>4. CASE h < i
    BY <2>2, <2>4 DEF WroteBefore
  <2>5. CASE h = i
    <3>1. Pair(r, i, q, g)
      BY <2>2, <2>5, PairTurned
    <3>2. q < r
      BY <1>4, <1>5, <3>1
    <3>3. QED
      BY <2>2, <2>5, <3>2 DEF WroteBefore
  <2>6. CASE h > i
    <3>1. Barriers(program[q], g - 1) = Barriers(program[r], h - 1)
      BY <1>1, <2>1, <2>2, BarriersBefore DEF Together, Rings
    <3>2. i <= h - 1 /\ h - 1 \in 0..Len(program[r]) /\ i \in 0..Len(program[r])
      BY <1>1, <2>3, <2>6
    <3>3. Barriers(program[r], i) <= Barriers(program[r], h - 1)
          /\ Barriers(program[r], i) \in Nat /\ Barriers(program[r], h - 1) \in Nat
      BY <1>1, <3>2, BarriersRise, BarriersCount
    <3>4. Barriers(program[r], i) = b + P
      <4>1. Barriers(program[r], i) = Barriers(program[r], i - 1) + BarriersOf(program[r][i])
        BY <1>1, BarriersCount
      <4>2. QED
        BY <1>1, <4>1 DEF b, BarriersOf
    <3>5. entered[q] > Barriers(program[r], h - 1) + q
      BY <1>5, <2>1, <3>1, WroteWhen
    <3>6. q \in Nat
      BY DEF Ranks
    <3>7. FALSE
      BY <1>1, <1>2, <1>3, <3>3, <3>4, <3>5, <3>6
    <3>8. QED
      BY <3>7
  <2>7. QED
    BY <1>1, <2>3, <2>4, <2>5, <2>6
<1>6. QED
  BY <1>4, <1>5

\* Steps that write nothing
LEMMA NothingWritten ==
  ASSUME program' = program, file' = file, FileInv,
         \A q \in Ranks : \A j \in DOMAIN program[q] : Wrote(q, j)' <=> Wrote(q, j)
  PROVE  FileInv'
<1>1. CASE file = <<>> /\ \A q \in Ranks : \A j \in DOMAIN program[q] : ~ Wrote(q, j)
  BY <1>1 DEF FileInv
<1>2. CASE \E s \in Ranks : \E i \in DOMAIN program[s] : WroteLast(s, i)
  <2>0. PICK s \in Ranks : \E i \in DOMAIN program[s] : WroteLast(s, i)
    BY <1>2
  <2>1. PICK i \in DOMAIN program[s] : WroteLast(s, i)
    BY <2>0
  <2>2. Wrote(s, i)' /\ EndsWith(s, i)'
    BY <2>1 DEF WroteLast, EndsWith
  <2>3. ASSUME NEW r \in Ranks, NEW j \in DOMAIN program[r], Wrote(r, j)'
        PROVE  \E h \in DOMAIN program[s] : Pair(r, j, s, h)' /\ (h < i \/ (h = i /\ r <= s))
    <3>1. PICK h \in DOMAIN program[s] : Pair(r, j, s, h) /\ (h < i \/ (h = i /\ r <= s))
      BY <2>1, <2>3 DEF WroteLast
    <3>2. QED
      BY <3>1 DEF Pair
  <2>4. WroteLast(s, i)'
    BY <2>2, <2>3 DEF WroteLast
  <2>5. QED
    BY <2>4 DEF FileInv
<1>3. QED
  BY <1>1, <1>2 DEF FileInv

\* No step but a rank's own turn writes its block.
LEMMA OthersWroteTheSame ==
  ASSUME TypeInv, NEW r \in Ranks, OthersStay(r), NEW q \in Ranks, q # r, NEW j
  PROVE  Wrote(q, j)' <=> Wrote(q, j)
BY DEF OthersStay, Wrote

LEMMA WroteTheSame ==
  ASSUME TypeInv, NEW r \in Ranks, Step(r), ~ (WriteTurn(r) /\ turn[r] = r),
         NEW j \in DOMAIN program[r]
  PROVE  Wrote(r, j)' <=> Wrote(r, j)
<1>1. program' = program /\ Running(r)
  <2>1. OthersStay(r)
    BY OnlyOneMoves
  <2>2. Running(r)
    BY DEF Step, SendLength, TakeLength, SendObject, TakeObject, SendHeader, SendData, RecvStart,
           PrintStart, PrintBarrier, TakeHeader, TakeData, PrintOut, WriteTurn, WriteBarrier, Leave, In
  <2>3. QED
    BY <2>1, <2>2 DEF OthersStay
<1>2. /\ at \in [Ranks -> Places] /\ done \in [Ranks -> Nat] /\ turn \in [Ranks -> 0..(P - 1)]
      /\ done[r] \in Nat /\ turn[r] \in 0..(P - 1) /\ r \in Nat /\ P \in Nat /\ r < P
      /\ j \in Nat
  <2>1. /\ at \in [Ranks -> Places] /\ done \in [Ranks -> Nat] /\ turn \in [Ranks -> 0..(P - 1)]
    BY DEF TypeInv, Types
  <2>2. j \in Nat
    BY <1>1, TypedCall, CallOf
  <2>3. r \in Nat /\ P \in Nat /\ r < P
    BY SizeAssumption DEF Ranks
  <2>4. done[r] \in Nat /\ turn[r] \in 0..(P - 1)
    BY <2>1
  <2>5. QED
    BY <2>1, <2>2, <2>3, <2>4
<1>3. CASE WriteTurn(r)
  <2>1. /\ at[r] = "call" /\ at'[r] = "between" /\ turn' = turn /\ done' = done /\ turn[r] # r
    BY <1>2, <1>3 DEF WriteTurn, In, Goto
  <2>2. QED
    BY <1>1, <2>1 DEF Wrote
<1>4. CASE WriteBarrier(r)
  <2>1. at[r] = "between" /\ done' = done
    BY <1>4 DEF WriteBarrier, In
  <2>2. CASE turn[r] = P - 1
    <3>1. at'[r] = "sent"
      BY <1>2, <1>4, <2>2 DEF WriteBarrier, Goto
    <3>2. turn[r] > r \/ turn[r] = r
      BY <1>2, <2>2
    <3>3. QED
      BY <1>1, <2>1, <3>1, <3>2 DEF Wrote
  <2>3. CASE turn[r] # P - 1
    <3>1. at'[r] = "call" /\ turn'[r] = turn[r] + 1
      BY <1>2, <1>4, <2>3 DEF WriteBarrier, Goto
    <3>2. turn[r] + 1 > r <=> turn[r] > r \/ turn[r] = r
      BY <1>2
    <3>3. QED
      BY <1>1, <2>1, <3>1, <3>2 DEF Wrote
  <2>4. QED
    BY <2>2, <2>3
<1>5. CASE Leave(r)
  <2>1. /\ at[r] = "sent" /\ done'[r] = done[r] + 1 /\ at'[r] = "call" /\ turn' = turn
    BY <1>2, <1>5 DEF Leave, Done, Goto
  <2>2. turn[r] = 0
    BY <2>1 DEF TypeInv, PlaceOf
  <2>3. j <= done[r] + 1 <=> j <= done[r] \/ j = done[r] + 1
    BY <1>2
  <2>4. ~ (turn'[r] > r) /\ at'[r] \notin {"sent", "between"}
    BY <1>2, <2>1, <2>2
  <2>5. QED
    BY <1>1, <2>1, <2>3, <2>4 DEF Wrote
<1>6. CASE ~ (WriteTurn(r) \/ WriteBarrier(r) \/ Leave(r))
  <2>1. done' = done /\ Call(r).op # "write"
    BY <1>6 DEF Step, SendLength, TakeLength, SendObject, TakeObject, SendHeader, SendData, RecvStart,
           PrintStart, PrintBarrier, TakeHeader, TakeData, PrintOut, In, Vectors, Rings
  <2>2. QED
    BY <1>1, <2>1 DEF Wrote, Call
<1>7. QED
  BY <1>3, <1>4, <1>5, <1>6

\* A rank's block is the next one in the file.
LEMMA WriteKeepsFile ==
  ASSUME TypeInv, BarrierInv, FileInv, NEW r \in Ranks, OthersStay(r), WriteTurn(r), turn[r] = r
  PROVE  FileInv'
<1> DEFINE i == done[r] + 1
<1>1. /\ Programmed /\ i \in DOMAIN program[r] /\ Call(r) = program[r][i] /\ Running(r)
      /\ Call(r).op = "write" /\ at[r] = "call" /\ r \in Nat /\ r < P /\ P \in Nat
      /\ Call(r).append \in BOOLEAN
  <2>1. Running(r) /\ Call(r).op = "write" /\ at[r] = "call"
    BY DEF WriteTurn, In
  <2>2. Call(r).append \in BOOLEAN
    BY <2>1, TypedCall, CallTypes
  <2>3. QED
    BY <2>1, <2>2, TypedCall, SizeAssumption DEF Ranks
<1>2. /\ program' = program /\ done' = done /\ turn' = turn /\ at'[r] = "between"
      /\ file' = Written(r)
  <2>1. at \in [Ranks -> Places]
    BY DEF TypeInv, Types
  <2>2. QED
    BY <2>1 DEF WriteTurn, Goto
<1>3. \A q \in Ranks : \A j \in DOMAIN program[q] : Pair(r, i, q, j) => (Wrote(q, j) <=> q < r)
  BY <1>1, WhoWrote
<1>4. \A q \in Ranks : \A g \in DOMAIN program[q] : Wrote(q, g) => WroteBefore(q, g, r, i)
  BY <1>1, WhoWrote
<1>5. i \in Nat /\ ~ (i <= done[r]) /\ file \in Seq(Nat \X Ranks)
  BY DEF TypeInv, Types
<1>6. Wrote(r, i)'
  BY <1>1, <1>2 DEF Wrote
<1>7. ASSUME NEW q \in Ranks, NEW g \in DOMAIN program[q], Wrote(q, g)'
      PROVE  \E h \in DOMAIN program[r] : Pair(q, g, r, h)' /\ (h < i \/ (h = i /\ q <= r))
  <2>0. q \in Nat
    BY DEF Ranks
  <2>1. CASE Wrote(q, g)
    <3>1. PICK h \in DOMAIN program[r] : Pair(q, g, r, h) /\ (h < i \/ (h = i /\ q < r))
      BY <1>4, <2>1 DEF WroteBefore
    <3>2. h < i \/ (h = i /\ q <= r)
      BY <1>1, <2>0, <3>1
    <3>3. QED
      BY <1>2, <3>1, <3>2 DEF Pair
  <2>2. CASE ~ Wrote(q, g)
    <3>1. q = r
      BY <1>7, <2>2, OthersWroteTheSame
    <3>2. g = i
      <4>1. g \in Nat /\ (g = done[r] + 1 \/ g <= done[r])
        BY <1>1, <1>2, <1>7, <3>1, CallOf DEF Wrote
      <4>2. QED
        BY <1>2, <1>7, <2>2, <3>1, <4>1 DEF Wrote
    <3>3. Pair(q, g, r, i) /\ q <= r
      BY <1>1, <2>0, <3>1, <3>2 DEF Pair
    <3>4. QED
      BY <1>1, <1>2, <3>3 DEF Pair
  <2>3. QED
    BY <2>1, <2>2
<1> DEFINE e == <<program[r][i].id, r>>
           n == Len(file)
<1>8. n \in Nat /\ Len(Append(file, e)) = n + 1 /\ Append(file, e)[n + 1] = e
      /\ \A k \in 1..n : Append(file, e)[k] = file[k]
  BY <1>5
<1>9. EndsWith(r, i)'
  <2>1. CASE r = 0 /\ ~ Call(r).append
    <3>1. file' = <<e>>
      BY <1>1, <1>2, <2>1 DEF Written
    <3>2. Len(file') = 1 /\ file'[1] = e
      BY <3>1
    <3>3. \A k \in 0..0 : k = 0
      OBVIOUS
    <3>4. QED
      BY <1>1, <1>2, <2>1, <3>2, <3>3 DEF EndsWith
  <2>2. CASE r = 0 /\ Call(r).append
    <3>1. file' = Append(file, e)
      BY <1>1, <1>2, <2>2 DEF Written
    <3>2. Len(file') = n + 1 /\ file'[n + 1] = e
      BY <1>8, <3>1
    <3>3. \A k \in 0..0 : k = 0
      OBVIOUS
    <3>4. QED
      BY <1>1, <1>2, <1>8, <2>2, <3>2, <3>3 DEF EndsWith
  <2>3. CASE r # 0
    <3>1. file' = Append(file, e) /\ r - 1 \in Ranks /\ r - 1 < r
      BY <1>1, <1>2, <2>3 DEF Written, Ranks
    <3>2. program[r][i].op \in Together /\ program[r][i].op \notin Rings
      BY <1>1 DEF Together, Rings
    <3>3. PICK j \in DOMAIN program[r - 1] : Pair(r, i, r - 1, j)
      BY <1>1, <3>1, <3>2, TogetherPairs
    <3>4. Wrote(r - 1, j)
      BY <1>3, <3>1, <3>3
    <3>5. PICK s \in Ranks : \E h \in DOMAIN program[s] : WroteLast(s, h)
      BY <3>1, <3>4 DEF FileInv
    <3>6. PICK h \in DOMAIN program[s] : WroteLast(s, h)
      BY <3>5
    <3>7. PICK h2 \in DOMAIN program[s] : Pair(r - 1, j, s, h2) /\ (h2 < h \/ (h2 = h /\ r - 1 <= s))
      BY <3>1, <3>4, <3>6 DEF WroteLast
    <3>8. Pair(r, i, s, h2)
      BY <3>3, <3>7 DEF Pair
    <3>9. PICK g \in DOMAIN program[r] : Pair(s, h, r, g) /\ (g < i \/ (g = i /\ s < r))
      BY <1>4, <3>6 DEF WroteLast, WroteBefore
    <3>10. Pair(r, g, s, h)
      BY <3>9, PairTurned
    <3>11. h \in Nat /\ h2 \in Nat /\ s \in Nat
      BY <1>1, CallOf DEF Ranks
    <3>12. program[r][g].op \in Together
      <4>1. program[s][h].op = "write"
        BY <3>6 DEF WroteLast, Wrote
      <4>2. program[s][h].op \in Together
        BY <4>1 DEF Together
      <4>3. QED
        BY <1>1, <3>9, <4>1, <4>2, TogetherSides
    <3>13. ~ (g < i)
      <4>1. SUFFICES ASSUME g < i PROVE FALSE
        OBVIOUS
      <4>2. OneOrder(program[r][g], program[r][i])
        BY <3>2, <3>12 DEF OneOrder
      <4> HIDE DEF i
      <4>3. h < h2
        BY <1>1, <3>8, <3>10, <4>1, <4>2, OrderKept
      <4>4. QED
        BY <3>7, <3>11, <4>3
    <3>14. g = i /\ s < r
      BY <3>9, <3>13
    <3>15. h = h2
      <4> HIDE DEF i
      <4>1. Pair(r, i, s, h)
        BY <3>10, <3>14
      <4>2. QED
        BY <1>1, <3>8, <4>1, OnePair
    <3>16. s = r - 1
      BY <1>1, <3>7, <3>11, <3>14, <3>15
    <3>17. program[s][h] = program[r][i]
      <4> HIDE DEF i
      <4>1. QED
        BY <1>1, <3>2, <3>8, <3>15, TogetherSides
    <3>18. /\ n > r - 1
           /\ \A k \in 0..(r - 1) : file[n - k] = <<program[r][i].id, r - 1 - k>>
           /\ ~ program[r][i].append => n = r
      <4>1. EndsWith(s, h)
        BY <3>6 DEF WroteLast
      <4>2. n > s /\ (\A k \in 0..s : file[n - k] = <<program[s][h].id, s - k>>)
            /\ (~ program[s][h].append => n = s + 1)
        BY <4>1 DEF EndsWith
      <4>3. QED
        BY <1>1, <1>8, <3>16, <3>17, <4>2
    <3>19. Len(file') = n + 1 /\ n + 1 > r
      BY <1>1, <1>8, <3>1, <3>18
    <3>20. ASSUME NEW k \in 0..r PROVE file'[n + 1 - k] = <<program[r][i].id, r - k>>
      <4>1. CASE k = 0
        BY <1>1, <1>8, <3>1, <4>1
      <4>2. CASE k # 0
        <5>1. k - 1 \in 0..(r - 1) /\ r - 1 - (k - 1) = r - k /\ n - (k - 1) = n + 1 - k
              /\ n + 1 - k \in 1..n
          BY <1>1, <1>8, <3>18, <4>2
        <5>2. file[n - (k - 1)] = <<program[r][i].id, r - 1 - (k - 1)>>
          BY <3>18, <5>1
        <5>3. file'[n + 1 - k] = file[n + 1 - k]
          BY <1>8, <3>1, <5>1
        <5>4. QED
          BY <5>1, <5>2, <5>3
      <4>3. QED
        BY <4>1, <4>2
    <3>21. ~ program[r][i].append => n + 1 = r + 1
      BY <3>18
    <3>22. QED
      BY <1>2, <3>19, <3>20, <3>21 DEF EndsWith
  <2>4. QED
    BY <1>1, <2>1, <2>2, <2>3
<1>10. WroteLast(r, i)'
  BY <1>2, <1>6, <1>7, <1>9 DEF WroteLast
<1>11. QED
  BY <1>1, <1>2, <1>10 DEF FileInv

LEMMA StepKeepsFile ==
  ASSUME TypeInv, BarrierInv, FileInv, NEW r \in Ranks, Step(r)
  PROVE  FileInv'
<1>1. OthersStay(r)
  BY OnlyOneMoves
<1>2. CASE WriteTurn(r) /\ turn[r] = r
  BY <1>1, <1>2, WriteKeepsFile
<1>3. CASE ~ (WriteTurn(r) /\ turn[r] = r)
  <2>1. \A q \in Ranks : \A j \in DOMAIN program[q] : Wrote(q, j)' <=> Wrote(q, j)
    BY <1>1, <1>3, WroteTheSame, OthersWroteTheSame
  <2>2. program' = program
    BY <1>1 DEF OthersStay
  <2>3. file' = file
    BY <1>3 DEF Step, SendLength, TakeLength, SendObject, TakeObject, SendHeader, SendData, RecvStart,
           PrintStart, PrintBarrier, TakeHeader, TakeData, PrintOut, WriteTurn, WriteBarrier, Leave
  <2>4. QED
    BY <2>1, <2>2, <2>3, NothingWritten
<1>4. QED
  BY <1>2, <1>3

\* The blocks of a call at the end of the file
BlocksOf(c, n) == [k \in 1..n |-> <<c, k - 1>>]
EndsInBlocks(f, c, n) == n <= Len(f) /\ \A k \in 0..(n - 1) : f[Len(f) - k] = <<c, n - 1 - k>>

LEMMA SuffixOf ==
  ASSUME NEW n \in Nat, NEW f \in Seq(Nat \X Ranks), NEW c, EndsInBlocks(f, c, n)
  PROVE  /\ IsSuffix(BlocksOf(c, n), f)
         /\ Len(f) = n => f = BlocksOf(c, n)
<1> DEFINE N == Len(f)
           b == BlocksOf(c, n)
           x == Reverse(b)
           y == Reverse(f)
<1>0. n <= N /\ (\A k \in 0..(n - 1) : f[N - k] = <<c, n - 1 - k>>) /\ b = [k \in 1..n |-> <<c, k - 1>>]
  BY DEF EndsInBlocks, BlocksOf
<1> HIDE DEF b
<1>1. N \in Nat /\ Len(b) = n /\ f = [k \in 1..N |-> f[k]] /\ DOMAIN f = 1..N /\ DOMAIN b = 1..n
  BY <1>0
<1>2. x = [k \in 1..n |-> b[(n - k) + 1]] /\ y = [k \in 1..N |-> f[(N - k) + 1]]
  BY <1>1 DEF Reverse
<1>3. Len(x) = n /\ Len(y) = N
  BY <1>1, <1>2
<1>4. \A k \in 1..n : x[k] = y[k]
  <2>1. SUFFICES ASSUME NEW k \in 1..n PROVE x[k] = y[k]
    OBVIOUS
  <2>2. k - 1 \in 0..(n - 1) /\ N - (k - 1) = (N - k) + 1 /\ n - 1 - (k - 1) = n - k
        /\ (n - k) + 1 \in 1..n /\ k \in 1..N /\ (n - k) + 1 - 1 = n - k
    BY <1>0, <1>1
  <2>3. y[k] = f[(N - k) + 1] /\ x[k] = b[(n - k) + 1]
    BY <1>2, <2>2
  <2>4. f[N - (k - 1)] = <<c, n - 1 - (k - 1)>>
    BY <1>0, <2>2
  <2>5. b[(n - k) + 1] = <<c, n - k>>
    BY <1>0, <2>2
  <2>6. QED
    BY <2>2, <2>3, <2>4, <2>5
<1>5. SubSeq(x, 1, n) = [k \in 1..n |-> x[k]] /\ SubSeq(y, 1, n) = [k \in 1..n |-> y[k]]
  <2> HIDE DEF x, y
  <2>1. \A k \in 1..n : k + 1 - 1 = k
    OBVIOUS
  <2>2. SubSeq(x, 1, n) = [k \in 1..n |-> x[k + 1 - 1]] /\ SubSeq(y, 1, n) = [k \in 1..n |-> y[k + 1 - 1]]
    OBVIOUS
  <2>3. QED
    BY <2>1, <2>2
<1>6. IsSuffix(b, f)
  <2> HIDE DEF x, y
  <2>1. IsPrefix(x, y)
    BY <1>0, <1>1, <1>3, <1>4, <1>5 DEF IsPrefix
  <2>2. QED
    BY <2>1 DEF IsSuffix, x, y
<1>7. ASSUME N = n PROVE f = b
  <2>1. \A k \in 1..n : f[k] = b[k]
    <3>1. SUFFICES ASSUME NEW k \in 1..n PROVE f[k] = b[k]
      OBVIOUS
    <3>2. n - k \in 0..(n - 1) /\ N - (n - k) = k /\ n - 1 - (n - k) = k - 1
      BY <1>7
    <3>3. f[N - (n - k)] = <<c, n - 1 - (n - k)>>
      BY <1>0, <3>2
    <3>4. QED
      BY <1>0, <3>2, <3>3
  <2>2. QED
    BY <1>0, <1>1, <1>7, <2>1
<1>8. QED
  BY <1>6, <1>7 DEF b

LEMMA FileIsWhole ==
  ASSUME TypeInv, BarrierInv, FileInv
  PROVE  WholeFile
<1> DEFINE c(r, i) == program[r][i]
           blocks(r, i) == [k \in 1..P |-> <<c(r, i).id, k - 1>>]
<1>1. SUFFICES ASSUME NEW r \in Ranks, NEW i \in 1..done[r], c(r, i).op = "write"
               PROVE  \/ file # <<>> /\ file[Len(file)][1] # c(r, i).id
                      \/ IF c(r, i).append THEN IsSuffix(blocks(r, i), file) ELSE file = blocks(r, i)
  BY DEF WholeFile
<1>2. /\ Programmed /\ i \in DOMAIN program[r] /\ i \in Nat /\ i <= done[r] /\ done[r] \in 0..Len(program[r])
      /\ program[r] \in Seq(Calls) /\ i \in 1..Len(program[r]) /\ i \in 0..Len(program[r])
      /\ P \in Nat /\ P - 1 \in Ranks /\ i - 1 \in 0..Len(program[r])
  <2>1. Types /\ PlaceOf(r)
    BY DEF TypeInv
  <2>2. Programmed /\ done[r] \in Nat /\ done[r] <= Len(program[r]) /\ program[r] \in Seq(Calls)
    BY <2>1 DEF Types, PlaceOf, Programmed
  <2>3. i \in 1..Len(program[r]) /\ i <= done[r] /\ i \in Nat /\ i \in DOMAIN program[r]
    BY <2>2
  <2>4. QED
    BY <2>2, <2>3, SizeAssumption DEF Ranks
<1>3. Wrote(r, i)
  BY <1>1, <1>2 DEF Wrote
<1>4. c(r, i).op \in Together /\ c(r, i).op \notin Rings /\ c(r, i).append \in BOOLEAN /\ c(r, i).id \in Nat
  <2>1. c(r, i) \in Calls
    BY <1>2, CallOf
  <2>2. QED
    BY <1>1, <2>1, CallTypes DEF Together, Rings
<1>5. PICK s \in Ranks : \E h \in DOMAIN program[s] : WroteLast(s, h)
  BY <1>2, <1>3 DEF FileInv
<1>6. PICK h \in DOMAIN program[s] : WroteLast(s, h)
  BY <1>5
<1>7. PICK g \in DOMAIN program[s] : Pair(r, i, s, g) /\ (g < h \/ (g = h /\ r <= s))
  BY <1>2, <1>3, <1>6 DEF WroteLast
<1>8. s \in Nat /\ h \in Nat /\ g \in Nat /\ r \in Nat /\ s < P
  BY <1>2, CallOf, SizeAssumption DEF Ranks
<1>9. /\ Len(file) > s
      /\ \A k \in 0..s : file[Len(file) - k] = <<program[s][h].id, s - k>>
      /\ ~ program[s][h].append => Len(file) = s + 1
  BY <1>6 DEF WroteLast, EndsWith
<1>10. file \in Seq(Nat \X Ranks) /\ Len(file) \in Nat
  BY DEF TypeInv, Types
<1>11. CASE g < h
  <2>1. program[s][g].id # program[s][h].id
    BY <1>2, <1>8, <1>11 DEF Programmed, Matched
  <2>2. program[s][g].id = c(r, i).id
    BY <1>7 DEF Pair
  <2>3. file[Len(file)] = <<program[s][h].id, s>>
    <3>1. 0 \in 0..s /\ Len(file) - 0 = Len(file) /\ s - 0 = s
      BY <1>8, <1>10
    <3>2. QED
      BY <1>9, <3>1
  <2>4. file # <<>>
    BY <1>8, <1>9, <1>10
  <2>5. QED
    BY <2>1, <2>2, <2>3, <2>4
<1>12. CASE g = h
  <2>1. program[s][h] = program[r][i]
    BY <1>2, <1>4, <1>7, <1>12, TogetherSides
  <2>2. PICK j \in DOMAIN program[P - 1] : Pair(r, i, P - 1, j)
    BY <1>2, <1>4, TogetherPairs
  <2>3. Wrote(P - 1, j)
    <3>1. program[P - 1][j].op = "write"
      BY <1>1, <1>2, <1>4, <2>2, TogetherSides
    <3>2. Barriers(program[P - 1], j - 1) = Barriers(program[r], i - 1)
      BY <1>2, <1>4, <2>2, BarriersBefore
    <3>3. Barriers(program[r], i) = Barriers(program[r], i - 1) + P /\ Barriers(program[r], i - 1) \in Nat
      <4>1. Barriers(program[r], i) = Barriers(program[r], i - 1) + BarriersOf(c(r, i))
            /\ Barriers(program[r], i - 1) \in Nat
        BY <1>2, BarriersCount
      <4>2. QED
        BY <1>1, <4>1 DEF BarriersOf
    <3>4. Barriers(program[r], i) <= Barriers(program[r], done[r])
      BY <1>2, BarriersRise
    <3>5. Barriers(program[r], done[r]) <= Left(r) /\ Left(r) <= entered[P - 1] /\ Left(r) \in Int
          /\ entered[P - 1] \in Nat /\ Barriers(program[r], done[r]) \in Nat
      BY <1>2, LeftBehind, InnerTypes DEF BarrierInv
    <3>6. entered[P - 1] > Barriers(program[P - 1], j - 1) + (P - 1)
      BY <1>2, <3>2, <3>3, <3>4, <3>5
    <3>7. QED
      BY <1>2, <3>1, <3>6, WroteWhen
  <2>4. PICK k \in DOMAIN program[s] : Pair(P - 1, j, s, k) /\ (k < h \/ (k = h /\ P - 1 <= s))
    BY <1>2, <1>6, <2>3 DEF WroteLast
  <2>5. k = h
    <3>1. Pair(r, i, s, k) /\ Pair(r, i, s, h)
      BY <1>7, <1>12, <2>2, <2>4 DEF Pair
    <3>2. QED
      BY <1>2, <3>1, OnePair
  <2>6. s = P - 1
    BY <1>2, <1>8, <2>4, <2>5
  <2>7. /\ P <= Len(file)
        /\ \A m \in 0..(P - 1) : file[Len(file) - m] = <<c(r, i).id, P - 1 - m>>
        /\ ~ c(r, i).append => Len(file) = P
    BY <1>2, <1>9, <1>10, <2>1, <2>6
  <2>8. IsSuffix(blocks(r, i), file) /\ (Len(file) = P => file = blocks(r, i))
    <3>1. EndsInBlocks(file, c(r, i).id, P)
      BY <2>7 DEF EndsInBlocks
    <3>2. P \in Nat /\ file \in Seq(Nat \X Ranks)
      BY <1>2, <1>10
    <3>3. IsSuffix(BlocksOf(c(r, i).id, P), file) /\ (Len(file) = P => file = BlocksOf(c(r, i).id, P))
      BY <3>1, <3>2, SuffixOf
    <3>4. QED
      BY <3>3 DEF BlocksOf
  <2>9. QED
    BY <2>7, <2>8
<1>13. QED
  BY <1>7, <1>11, <1>12

------------------------------------------------------------------------------
(* Types, barriers and the file in every reachable state                   *)

FileStates == TypeInv /\ BarrierInv /\ FileInv

LEMMA StartsInTypes ==
  ASSUME Init
  PROVE  TypeInv
<1>1. program \in [Ranks -> Seq(Calls)] /\ Matched(program)
  BY ProgramsAssumption DEF Init
<1>2. 0 \in 0..(P - 1)
  BY SizeAssumption
<1>3. Types
  BY <1>1, <1>2 DEF Init, Types, Places
<1>4. ASSUME NEW r \in Ranks PROVE PlaceOf(r)
  <2>1. program[r] \in Seq(Calls) /\ done[r] = 0 /\ at[r] = "call" /\ turn[r] = 0
    BY <1>1 DEF Init
  <2>2. Running(r) => Call(r) \in Calls
    BY <2>1 DEF Running, Call
  <2>3. Running(r) => "call" \in PlacesOf(Call(r))
    BY <2>2, CallTypes DEF PlacesOf, Together, Rings, Vectors
  <2>4. done[r] <= Len(program[r])
    BY <2>1
  <2>5. QED
    BY <2>1, <2>3, <2>4 DEF PlaceOf, Expected
<1>5. QED
  BY <1>3, <1>4 DEF TypeInv

LEMMA StartsWithFile ==
  ASSUME Init
  PROVE  FileStates
<1>1. TypeInv
  BY StartsInTypes
<1>2. ASSUME NEW r \in Ranks
      PROVE  /\ entered[r] = Barriers(program[r], done[r]) + Inner(r)
             /\ Left(r) = 0 /\ entered[r] = 0
  <2>1. program[r] \in Seq(Calls) /\ done[r] = 0 /\ at[r] = "call" /\ turn[r] = 0 /\ entered[r] = 0
    BY <1>1 DEF Init, TypeInv, Types
  <2>2. QED
    BY <2>1, BarriersCount DEF Inner, Left
<1>3. BarrierInv
  BY <1>2 DEF BarrierInv
<1>4. ASSUME NEW r \in Ranks, NEW j \in DOMAIN program[r] PROVE ~ Wrote(r, j)
  <2>1. done[r] = 0 /\ at[r] = "call" /\ turn[r] = 0 /\ j >= 1 /\ j \in Nat /\ r \in Nat
    BY <1>1 DEF Init, TypeInv, Types, Ranks
  <2>2. QED
    BY <2>1 DEF Wrote
<1>5. FileInv
  BY <1>4 DEF Init, FileInv
<1>6. QED
  BY <1>1, <1>3, <1>5 DEF FileStates

LEMMA StepKeepsFileStates ==
  ASSUME FileStates, NEW r \in Ranks, Step(r)
  PROVE  FileStates'
<1>1. TypeInv /\ BarrierInv /\ FileInv
  BY DEF FileStates
<1>2. TypeInv'
  BY <1>1, StepKeepsTypes
<1>3. BarrierInv'
  BY <1>1, <1>2, StepKeepsBarriers
<1>4. FileInv'
  BY <1>1, StepKeepsFile
<1>5. QED
  BY <1>2, <1>3, <1>4 DEF FileStates

LEMMA StutteringKeepsFileStates ==
  ASSUME FileStates, UNCHANGED vars
  PROVE  FileStates'
<1>1. Types'
  BY DEF vars, FileStates, TypeInv, Types
<1>2. \A r \in Ranks : PlaceOf(r)'
  BY DEF vars, FileStates, TypeInv, PlaceOf, Running, Call, Expected, Prints, Position
<1>3. BarrierInv'
  BY DEF vars, FileStates, BarrierInv, Inner, Left, Running, Call
<1>4. FileInv'
  <2>1. file' = file /\ program' = program /\ FileInv
    BY DEF vars, FileStates
  <2>2. \A q \in Ranks : \A j \in DOMAIN program[q] : Wrote(q, j)' <=> Wrote(q, j)
    BY DEF vars, Wrote
  <2>3. QED
    BY <2>1, <2>2, NothingWritten
<1>5. QED
  BY <1>1, <1>2, <1>3, <1>4 DEF FileStates, TypeInv

LEMMA FileStatesAlways == Spec => []FileStates
<1>1. Init => FileStates
  BY StartsWithFile
<1>2. FileStates /\ [Next]_vars => FileStates'
  BY StepKeepsFileStates, StutteringKeepsFileStates DEF Next, Terminating
<1>3. QED
  BY <1>1, <1>2, PTL DEF Spec

\* A rank that has returned from comm.write() finds the blocks of all ranks at
\* the end of the file, in their order: the barriers of the turns keep them in
\* order, for any number of ranks and whatever else the programs call.
THEOREM TheFileIsWhole == Spec => []WholeFile
<1>1. FileStates => WholeFile
  BY FileIsWhole DEF FileStates
<1>2. QED
  BY <1>1, FileStatesAlways, PTL

------------------------------------------------------------------------------
(* The order of messages                                                   *)

\* What a message can travel with
LEMMA DueOp ==
  ASSUME NEW s, NEW d, NEW i, NEW kind, Due(program, s, d, i, kind)
  PROVE  /\ program[s][i].op \in Together \cup {"send"}
         /\ program[s][i].op \notin Together => program[s][i].op = "send" /\ program[s][i].peer = d
BY DEF Due, Together, Rings, Vectors

\* In a program in phase, the calls with messages from s to d are in one order.
LEMMA CallsInOrder ==
  ASSUME Programmed, InPhase, NEW s \in Ranks, NEW d \in Ranks,
         NEW h \in DOMAIN program[s], NEW i \in DOMAIN program[s],
         NEW j \in DOMAIN program[d], NEW k \in DOMAIN program[d],
         Pair(s, h, d, j), Pair(s, i, d, k), h < i,
         program[s][h].op \in Together \cup {"send"}, program[s][i].op \in Together \cup {"send"}
  PROVE  j < k
<1>1. h \in Nat \ {0} /\ i \in Nat \ {0} /\ j \in Nat \ {0} /\ k \in Nat \ {0}
      /\ program[d] \in Seq(Calls) /\ program[s] \in Seq(Calls)
  BY CallOf
<1>2. CASE OneOrder(program[s][h], program[s][i])
  BY <1>2, OrderKept
<1>3. Behind(s, i) = Behind(d, k) /\ Behind(s, h) = Behind(d, j)
  BY DEF InPhase, Pair
<1>4. CASE program[s][h].op \in Together /\ program[s][i].op \notin Together
  <2>1. program[s][h].id \in Behind(s, i)
    BY <1>1, <1>4 DEF Behind
  <2>2. program[s][h].id \in Behind(d, k)
    BY <1>3, <2>1
  <2>3. PICK g \in 1..(k - 1) : program[s][h].id = program[d][g].id
    BY <2>2 DEF Behind
  <2>4. g \in DOMAIN program[d] /\ g < k
    <3>1. k \in 1..Len(program[d])
      BY CallOf
    <3>2. QED
      BY <1>1, <3>1
  <2>5. Pair(s, h, d, g)
    BY <2>3, <2>4 DEF Pair
  <2>6. g = j
    BY <2>4, <2>5, OnePair
  <2>7. QED
    BY <2>4, <2>6
<1>5. CASE program[s][h].op \notin Together /\ program[s][i].op \in Together
  <2>1. SUFFICES ASSUME ~ (j < k) PROVE FALSE
    OBVIOUS
  <2>2. j # k
    BY <1>1 DEF Pair, Programmed, Matched
  <2>3. k < j
    BY <1>1, <2>1, <2>2
  <2>4. program[d][k].op \in Together
    BY <1>5, TogetherSides
  <2>5. program[d][k].id \in Behind(d, j)
    BY <1>1, <2>3, <2>4 DEF Behind
  <2>6. PICK g \in 1..(h - 1) : program[d][k].id = program[s][g].id
    BY <1>3, <2>5 DEF Behind
  <2>7. g \in DOMAIN program[s] /\ g < h
    <3>1. h \in 1..Len(program[s])
      BY CallOf
    <3>2. QED
      BY <1>1, <3>1
  <2>8. g = i
    BY <2>6, <2>7 DEF Pair, Programmed, Matched
  <2>9. QED
    BY <1>1, <2>7, <2>8
<1>6. QED
  BY <1>2, <1>4, <1>5 DEF OneOrder

LEMMA TravelsIs ==
  ASSUME Programmed, NEW s \in Ranks, NEW d \in Ranks, NEW i, NEW j, NEW kind,
         Travels(program, s, i, d, j, kind)
  PROVE  /\ i \in DOMAIN program[s] /\ j \in DOMAIN program[d] /\ i \in Nat /\ j \in Nat
         /\ kind \in Kinds /\ Stage(kind) \in {0, 1} /\ Time(i, kind) \in Nat /\ Time(j, kind) \in Nat
         /\ Pair(s, i, d, j)
         /\ program[s][i].op \in Together \cup {"send"}
<1>1. i \in DOMAIN program[s] /\ j \in DOMAIN program[d] /\ kind \in Kinds /\ Pair(s, i, d, j)
  BY DEF Travels, Pair
<1>2. i \in Nat /\ j \in Nat
  BY <1>1, CallOf
<1>3. Stage(kind) \in {0, 1}
  BY DEF Stage
<1>4. program[s][i].op \in Together \cup {"send"}
  BY DueOp DEF Travels
<1>5. QED
  BY <1>1, <1>2, <1>3, <1>4 DEF Time

\* At one time, at most one message
LEMMA OneMessage ==
  ASSUME Programmed, NEW s \in Ranks, NEW d \in Ranks, NEW h, NEW i, NEW j, NEW k, NEW a, NEW b,
         Travels(program, s, h, d, j, a), Travels(program, s, i, d, k, b),
         Time(h, a) = Time(i, b) \/ Time(j, a) = Time(k, b)
  PROVE  h = i /\ j = k /\ a = b
<1>1. /\ h \in Nat /\ i \in Nat /\ j \in Nat /\ k \in Nat
      /\ Stage(a) \in {0, 1} /\ Stage(b) \in {0, 1} /\ Pair(s, h, d, j) /\ Pair(s, i, d, k)
      /\ h \in DOMAIN program[s] /\ i \in DOMAIN program[s]
      /\ j \in DOMAIN program[d] /\ k \in DOMAIN program[d]
      /\ a \in Kinds /\ b \in Kinds
  BY TravelsIs
<1>2. Stage(a) = Stage(b) /\ (h = i \/ j = k)
  BY <1>1 DEF Time
<1>3. h = i => j = k
  BY <1>1, OnePair
<1>4. j = k => h = i
  <2>1. Pair(d, j, s, h) /\ Pair(d, k, s, i)
    BY <1>1, PairTurned
  <2>2. QED
    BY <1>1, <2>1, OnePair
<1>5. Due(program, s, d, h, a) /\ Due(program, s, d, i, b)
  BY DEF Travels
<1>6. a = b
  <2>1. h = i
    BY <1>2, <1>4
  <2>2. QED
    BY <1>1, <1>2, <1>5, <2>1 DEF Due, Stage, Kinds, Rings, Vectors
<1>7. QED
  BY <1>2, <1>3, <1>4, <1>6

\* Two ranks order the messages from one to the other alike.
LEMMA TimesRise ==
  ASSUME Programmed, InPhase, NEW s \in Ranks, NEW d \in Ranks,
         NEW h, NEW i, NEW j, NEW k, NEW a, NEW b,
         Travels(program, s, h, d, j, a), Travels(program, s, i, d, k, b), Time(h, a) < Time(i, b)
  PROVE  Time(j, a) < Time(k, b)
<1>1. /\ h \in Nat /\ i \in Nat /\ j \in Nat /\ k \in Nat
      /\ Stage(a) \in {0, 1} /\ Stage(b) \in {0, 1} /\ Pair(s, h, d, j) /\ Pair(s, i, d, k)
      /\ h \in DOMAIN program[s] /\ i \in DOMAIN program[s]
      /\ j \in DOMAIN program[d] /\ k \in DOMAIN program[d]
      /\ program[s][h].op \in Together \cup {"send"} /\ program[s][i].op \in Together \cup {"send"}
  BY TravelsIs
<1>2. CASE h < i
  <2>1. j < k
    BY <1>1, <1>2, CallsInOrder
  <2>2. QED
    BY <1>1, <2>1 DEF Time
<1>3. CASE h = i
  <2>1. j = k
    BY <1>1, <1>3, OnePair
  <2>2. Stage(a) < Stage(b)
    BY <1>1, <1>3 DEF Time
  <2>3. QED
    BY <1>1, <2>1, <2>2 DEF Time
<1>4. h < i \/ h = i
  BY <1>1 DEF Time
<1>5. QED
  BY <1>2, <1>3, <1>4

LEMMA TimesAgree ==
  ASSUME Programmed, InPhase, NEW s \in Ranks, NEW d \in Ranks,
         NEW h, NEW i, NEW j, NEW k, NEW a, NEW b,
         Travels(program, s, h, d, j, a), Travels(program, s, i, d, k, b)
  PROVE  Time(h, a) < Time(i, b) <=> Time(j, a) < Time(k, b)
<1>1. Time(h, a) < Time(i, b) => Time(j, a) < Time(k, b)
  BY TimesRise
<1>2. Time(i, b) < Time(h, a) => Time(k, b) < Time(j, a)
  BY TimesRise
<1>3. Time(h, a) = Time(i, b) => Time(j, a) = Time(k, b)
  BY OneMessage
<1>4. Time(h, a) \in Nat /\ Time(i, b) \in Nat /\ Time(j, a) \in Nat /\ Time(k, b) \in Nat
  BY TravelsIs
<1>5. QED
  BY <1>1, <1>2, <1>3, <1>4

\* A message was sent in one call.
LEMMA OneSender ==
  ASSUME Programmed, NEW s \in Ranks, NEW d, NEW h, NEW i, NEW m,
         Sent(program, s, d, h, m), Sent(program, s, d, i, m)
  PROVE  h = i
BY DEF Sent, Programmed, Matched

------------------------------------------------------------------------------
(* A channel between two steps                                             *)

\* No message is due to be posted, or taken, between two times.
NonePosted(p, s, d, from, to) ==
  \A i \in DOMAIN p[s] : \A j \in DOMAIN p[d] : \A kind \in Kinds :
    Travels(p, s, i, d, j, kind) => ~ (from <= Time(i, kind) /\ Time(i, kind) < to)
NoneTaken(p, s, d, from, to) ==
  \A i \in DOMAIN p[s] : \A j \in DOMAIN p[d] : \A kind \in Kinds :
    Travels(p, s, i, d, j, kind) => ~ (from <= Time(j, kind) /\ Time(j, kind) < to)

\* Time passes, and nothing is posted or taken.
LEMMA TimePasses ==
  ASSUME Programmed, NEW s \in Ranks, NEW d \in Ranks, NEW ch \in Seq(Messages),
         NEW most \in Nat, NEW least \in Nat, NEW taking \in Nat,
         NEW more \in Nat, NEW later \in Nat, NEW next \in Nat,
         InOrder(program, ch, s, d, most, least, taking), most <= more,
         NonePosted(program, s, d, least, later), NoneTaken(program, s, d, taking, next),
         taking <= next
  PROVE  InOrder(program, ch, s, d, more, later, next)
<1>1. /\ Sound(program, ch, s, d, most, taking) /\ Sorted(program, ch, s, d)
      /\ Complete(program, ch, s, d, least, taking) /\ Causal(program, s, d, most, taking)
  BY DEF InOrder
<1>2. Sound(program, ch, s, d, more, next)
  <2>1. SUFFICES ASSUME NEW k \in 1..Len(ch)
                 PROVE  \E i \in DOMAIN program[s] : \E j \in DOMAIN program[d] :
                          /\ Travels(program, s, i, d, j, ch[k].kind) /\ Sent(program, s, d, i, ch[k])
                          /\ Time(i, ch[k].kind) < more /\ next <= Time(j, ch[k].kind)
    BY DEF Sound
  <2>2. PICK i \in DOMAIN program[s] : \E j \in DOMAIN program[d] :
               /\ Travels(program, s, i, d, j, ch[k].kind) /\ Sent(program, s, d, i, ch[k])
               /\ Time(i, ch[k].kind) < most /\ taking <= Time(j, ch[k].kind)
    BY <1>1 DEF Sound
  <2>3. PICK j \in DOMAIN program[d] :
               /\ Travels(program, s, i, d, j, ch[k].kind) /\ Sent(program, s, d, i, ch[k])
               /\ Time(i, ch[k].kind) < most /\ taking <= Time(j, ch[k].kind)
    BY <2>2
  <2>4. ch[k].kind \in Kinds /\ Time(i, ch[k].kind) \in Nat /\ Time(j, ch[k].kind) \in Nat
    BY <2>3, TravelsIs
  <2>5. ~ (taking <= Time(j, ch[k].kind) /\ Time(j, ch[k].kind) < next)
    BY <2>3, <2>4 DEF NoneTaken
  <2>6. Time(i, ch[k].kind) < more /\ next <= Time(j, ch[k].kind)
    BY <2>3, <2>4, <2>5
  <2>7. QED
    BY <2>3, <2>6
<1>3. Complete(program, ch, s, d, later, next)
  <2>1. SUFFICES ASSUME NEW i \in DOMAIN program[s], NEW j \in DOMAIN program[d], NEW kind \in Kinds,
                        Travels(program, s, i, d, j, kind), Time(i, kind) < later, next <= Time(j, kind)
                 PROVE  \E k \in 1..Len(ch) : ch[k].kind = kind /\ Sent(program, s, d, i, ch[k])
    BY DEF Complete
  <2>2. Time(i, kind) \in Nat /\ Time(j, kind) \in Nat
    BY <2>1, TravelsIs
  <2>3. Time(i, kind) < least
    BY <2>1, <2>2 DEF NonePosted
  <2>4. taking <= Time(j, kind)
    BY <2>1, <2>2
  <2>5. QED
    BY <1>1, <2>1, <2>3, <2>4 DEF Complete
<1>4. Causal(program, s, d, more, next)
  <2>1. SUFFICES ASSUME NEW i \in DOMAIN program[s], NEW j \in DOMAIN program[d], NEW kind \in Kinds,
                        Travels(program, s, i, d, j, kind), Time(j, kind) < next
                 PROVE  Time(i, kind) < more
    BY DEF Causal
  <2>2. Time(i, kind) \in Nat /\ Time(j, kind) \in Nat
    BY <2>1, TravelsIs
  <2>3. Time(j, kind) < taking
    BY <2>1, <2>2 DEF NoneTaken
  <2>4. Time(i, kind) < most
    BY <1>1, <2>1, <2>3 DEF Causal
  <2>5. QED
    BY <2>2, <2>4
<1>5. QED
  BY <1>1, <1>2, <1>3, <1>4 DEF InOrder

\* What a channel holds
LEMMA Holds ==
  ASSUME Programmed, NEW s \in Ranks, NEW d \in Ranks, NEW ch, NEW most \in Nat, NEW taking \in Nat,
         Sound(program, ch, s, d, most, taking), NEW k \in 1..Len(ch)
  PROVE  \E i \in DOMAIN program[s] : \E j \in DOMAIN program[d] :
           /\ Travels(program, s, i, d, j, ch[k].kind) /\ Sent(program, s, d, i, ch[k])
           /\ Time(i, ch[k].kind) < most /\ taking <= Time(j, ch[k].kind)
BY DEF Sound

\* The message of the present call is posted.
LEMMA OnePosted ==
  ASSUME Programmed, NEW s \in Ranks, NEW d \in Ranks, NEW ch \in Seq(Messages),
         NEW most \in Nat, NEW least \in Nat, NEW taking \in Nat,
         NEW more \in Nat, NEW later \in Nat,
         InOrder(program, ch, s, d, most, least, taking),
         NEW m \in Messages, NEW i, NEW j, Travels(program, s, i, d, j, m.kind),
         Sent(program, s, d, i, m), most <= Time(i, m.kind), Time(i, m.kind) < more,
         NonePosted(program, s, d, least, Time(i, m.kind)),
         NonePosted(program, s, d, Time(i, m.kind) + 1, later)
  PROVE  InOrder(program, Append(ch, m), s, d, more, later, taking)
<1> DEFINE new == Append(ch, m)
           n == Len(ch)
           T == Time(i, m.kind)
<1>1. /\ Sound(program, ch, s, d, most, taking) /\ Sorted(program, ch, s, d)
      /\ Complete(program, ch, s, d, least, taking) /\ Causal(program, s, d, most, taking)
  BY DEF InOrder
<1>2. n \in Nat /\ Len(new) = n + 1 /\ new[n + 1] = m /\ \A k \in 1..n : new[k] = ch[k]
  OBVIOUS
<1>3. /\ i \in DOMAIN program[s] /\ j \in DOMAIN program[d] /\ m.kind \in Kinds
      /\ T \in Nat /\ Time(j, m.kind) \in Nat
  BY TravelsIs
<1>4. taking <= Time(j, m.kind)
  <2>1. SUFFICES ASSUME Time(j, m.kind) < taking PROVE FALSE
    BY <1>3
  <2>2. T < most
    BY <1>1, <1>3, <2>1 DEF Causal
  <2>3. QED
    BY <1>3, <2>2
<1> HIDE DEF new, n, T
<1>5. ASSUME NEW k \in 1..(n + 1), k # n + 1 PROVE k \in 1..n /\ new[k] = ch[k]
  BY <1>2, <1>5
<1>6. Sound(program, new, s, d, more, taking)
  <2>1. SUFFICES ASSUME NEW k \in 1..(n + 1)
                 PROVE  \E h \in DOMAIN program[s] : \E g \in DOMAIN program[d] :
                          /\ Travels(program, s, h, d, g, new[k].kind) /\ Sent(program, s, d, h, new[k])
                          /\ Time(h, new[k].kind) < more /\ taking <= Time(g, new[k].kind)
    BY <1>2 DEF Sound
  <2>2. CASE k = n + 1
    BY <1>2, <1>3, <1>4, <2>2 DEF T
  <2>3. CASE k # n + 1
    <3>1. k \in 1..n /\ new[k] = ch[k]
      BY <1>5, <2>3
    <3>2. k \in 1..Len(ch)
      BY <3>1 DEF n
    <3>3. PICK h \in DOMAIN program[s] : \E g \in DOMAIN program[d] :
                 /\ Travels(program, s, h, d, g, ch[k].kind) /\ Sent(program, s, d, h, ch[k])
                 /\ Time(h, ch[k].kind) < most /\ taking <= Time(g, ch[k].kind)
      BY <1>1, <3>2, Holds
    <3>4. PICK g \in DOMAIN program[d] :
                 /\ Travels(program, s, h, d, g, ch[k].kind) /\ Sent(program, s, d, h, ch[k])
                 /\ Time(h, ch[k].kind) < most /\ taking <= Time(g, ch[k].kind)
      BY <3>3
    <3>5. Time(h, ch[k].kind) \in Nat
      BY <3>4, TravelsIs
    <3>6. Time(h, ch[k].kind) < more
      BY <1>3, <3>4, <3>5 DEF T
    <3>7. QED
      BY <3>1, <3>4, <3>6
  <2>4. QED
    BY <2>2, <2>3
<1>7. Sorted(program, new, s, d)
  <2>1. SUFFICES ASSUME NEW k \in 1..(n + 1), NEW l \in 1..(n + 1),
                        NEW h \in DOMAIN program[s], NEW g \in DOMAIN program[s], k < l,
                        Sent(program, s, d, h, new[k]), Sent(program, s, d, g, new[l])
                 PROVE  Time(h, new[k].kind) < Time(g, new[l].kind)
    BY <1>2 DEF Sorted
  <2>2. k # n + 1
    BY <1>2, <2>1
  <2>3. k \in 1..n /\ new[k] = ch[k]
    BY <1>5, <2>2
  <2>4. CASE l # n + 1
    <3>1. l \in 1..n /\ new[l] = ch[l]
      BY <1>5, <2>4
    <3>2. QED
      BY <1>1, <2>1, <2>3, <3>1 DEF Sorted, n
  <2>5. CASE l = n + 1
    <3>1. g = i /\ new[l] = m
      BY <1>2, <2>1, <2>5, OneSender
    <3>2. k \in 1..Len(ch)
      BY <2>3 DEF n
    <3>3. PICK f \in DOMAIN program[s] : \E e \in DOMAIN program[d] :
                 /\ Travels(program, s, f, d, e, ch[k].kind) /\ Sent(program, s, d, f, ch[k])
                 /\ Time(f, ch[k].kind) < most /\ taking <= Time(e, ch[k].kind)
      BY <1>1, <3>2, Holds
    <3>4. Time(f, ch[k].kind) \in Nat
      BY <3>3, TravelsIs
    <3>5. f = h
      BY <2>1, <2>3, <3>3, OneSender
    <3>6. QED
      BY <1>3, <2>3, <3>1, <3>3, <3>4, <3>5 DEF T
  <2>6. QED
    BY <2>4, <2>5
<1>8. Complete(program, new, s, d, later, taking)
  <2>1. SUFFICES ASSUME NEW h \in DOMAIN program[s], NEW g \in DOMAIN program[d], NEW kind \in Kinds,
                        Travels(program, s, h, d, g, kind), Time(h, kind) < later, taking <= Time(g, kind)
                 PROVE  \E k \in 1..(n + 1) : new[k].kind = kind /\ Sent(program, s, d, h, new[k])
    BY <1>2 DEF Complete
  <2>2. Time(h, kind) \in Nat
    BY <2>1, TravelsIs
  <2>3. CASE Time(h, kind) < least
    <3>1. PICK k \in 1..Len(ch) : ch[k].kind = kind /\ Sent(program, s, d, h, ch[k])
      BY <1>1, <2>1, <2>3 DEF Complete
    <3>2. k \in 1..n /\ k \in 1..(n + 1)
      BY <1>2, <3>1 DEF n
    <3>3. QED
      BY <1>2, <3>1, <3>2
  <2>4. CASE Time(h, kind) = T
    <3>1. h = i /\ kind = m.kind
      BY <2>1, <2>4, OneMessage DEF T
    <3>2. n + 1 \in 1..(n + 1)
      BY <1>2
    <3>3. QED
      BY <1>2, <3>1, <3>2
  <2>5. Time(h, kind) < least \/ Time(h, kind) = T
    BY <1>3, <2>1, <2>2 DEF NonePosted, T
  <2>6. QED
    BY <2>3, <2>4, <2>5
<1>9. Causal(program, s, d, more, taking)
  <2>1. SUFFICES ASSUME NEW h \in DOMAIN program[s], NEW g \in DOMAIN program[d], NEW kind \in Kinds,
                        Travels(program, s, h, d, g, kind), Time(g, kind) < taking
                 PROVE  Time(h, kind) < more
    BY DEF Causal
  <2>2. Time(h, kind) < most /\ Time(h, kind) \in Nat
    BY <1>1, <2>1, TravelsIs DEF Causal
  <2>3. QED
    BY <1>3, <2>2 DEF T
<1>10. QED
  BY <1>6, <1>7, <1>8, <1>9 DEF InOrder, new

\* A rank that waits for its next message from another takes just that.
LEMMA NextIsHead ==
  ASSUME Programmed, InPhase, NEW s \in Ranks, NEW d \in Ranks, NEW ch \in Seq(Messages), ch # <<>>,
         NEW most \in Nat, NEW least \in Nat, NEW taking \in Nat,
         InOrder(program, ch, s, d, most, least, taking), most <= least + 1,
         NEW i, NEW j, NEW kind, Travels(program, s, i, d, j, kind), taking <= Time(j, kind),
         NoneTaken(program, s, d, taking, Time(j, kind))
  PROVE  /\ Head(ch).kind = kind /\ Sent(program, s, d, i, Head(ch))
         /\ Time(i, kind) < most
<1>1. /\ Sound(program, ch, s, d, most, taking) /\ Sorted(program, ch, s, d)
      /\ Complete(program, ch, s, d, least, taking)
  BY DEF InOrder
<1>2. 1 \in 1..Len(ch) /\ Head(ch) = ch[1] /\ Len(ch) \in Nat
  OBVIOUS
<1>3. PICK h \in DOMAIN program[s] : \E g \in DOMAIN program[d] :
             /\ Travels(program, s, h, d, g, ch[1].kind) /\ Sent(program, s, d, h, ch[1])
             /\ Time(h, ch[1].kind) < most /\ taking <= Time(g, ch[1].kind)
  BY <1>1, <1>2, Holds
<1>4. PICK g \in DOMAIN program[d] :
             /\ Travels(program, s, h, d, g, ch[1].kind) /\ Sent(program, s, d, h, ch[1])
             /\ Time(h, ch[1].kind) < most /\ taking <= Time(g, ch[1].kind)
  BY <1>3
<1>5. /\ Time(h, ch[1].kind) \in Nat /\ Time(g, ch[1].kind) \in Nat
      /\ Time(i, kind) \in Nat /\ Time(j, kind) \in Nat /\ ch[1].kind \in Kinds
      /\ i \in DOMAIN program[s] /\ j \in DOMAIN program[d] /\ kind \in Kinds
  BY <1>4, TravelsIs
<1>6. Time(j, kind) <= Time(g, ch[1].kind)
  BY <1>4, <1>5 DEF NoneTaken
<1>7. CASE Time(j, kind) = Time(g, ch[1].kind)
  <2>1. h = i /\ ch[1].kind = kind
    BY <1>4, <1>7, OneMessage
  <2>2. QED
    BY <1>2, <1>4, <2>1
<1>8. CASE Time(j, kind) < Time(g, ch[1].kind)
  <2>1. Time(i, kind) < Time(h, ch[1].kind)
    BY <1>4, <1>8, TimesAgree
  <2>2. Time(i, kind) < least
    BY <1>4, <1>5, <2>1
  <2>3. PICK k \in 1..Len(ch) : ch[k].kind = kind /\ Sent(program, s, d, i, ch[k])
    BY <1>1, <1>5, <2>2 DEF Complete
  <2>4. CASE k = 1
    <3>1. h = i
      BY <1>4, <2>3, <2>4, OneSender
    <3>2. FALSE
      BY <1>5, <2>1, <2>3, <2>4, <3>1
    <3>3. QED
      BY <3>2
  <2>5. CASE k # 1
    <3>1. 1 < k
      BY <1>2, <2>5
    <3>2. Time(h, ch[1].kind) < Time(i, ch[k].kind)
      BY <1>1, <1>2, <1>4, <1>5, <2>3, <3>1 DEF Sorted
    <3>3. FALSE
      BY <1>5, <2>1, <2>3, <3>2
    <3>4. QED
      BY <3>3
  <2>6. QED
    BY <2>4, <2>5
<1>9. QED
  BY <1>5, <1>6, <1>7, <1>8

\* It is taken.
LEMMA OneTaken ==
  ASSUME Programmed, InPhase, NEW s \in Ranks, NEW d \in Ranks, NEW ch \in Seq(Messages), ch # <<>>,
         NEW most \in Nat, NEW least \in Nat, NEW taking \in Nat, NEW next \in Nat,
         InOrder(program, ch, s, d, most, least, taking),
         NEW i, NEW j, NEW kind, Travels(program, s, i, d, j, kind),
         Head(ch).kind = kind, Sent(program, s, d, i, Head(ch)), Time(i, kind) < most,
         taking <= Time(j, kind), Time(j, kind) < next,
         NoneTaken(program, s, d, taking, Time(j, kind)),
         NoneTaken(program, s, d, Time(j, kind) + 1, next)
  PROVE  InOrder(program, Tail(ch), s, d, most, least, next)
<1> DEFINE new == Tail(ch)
           n == Len(ch)
           T == Time(j, kind)
<1>1. /\ Sound(program, ch, s, d, most, taking) /\ Sorted(program, ch, s, d)
      /\ Complete(program, ch, s, d, least, taking) /\ Causal(program, s, d, most, taking)
  BY DEF InOrder
<1>2. n \in Nat /\ n >= 1 /\ Len(new) = n - 1 /\ ch[1] = Head(ch)
      /\ \A k \in 1..(n - 1) : new[k] = ch[k + 1]
  OBVIOUS
<1>3. T \in Nat /\ Time(i, kind) \in Nat /\ i \in DOMAIN program[s] /\ j \in DOMAIN program[d]
      /\ kind \in Kinds
  BY TravelsIs
<1> HIDE DEF new, n, T
<1>4. ASSUME NEW k \in 1..(n - 1) PROVE k + 1 \in 1..Len(ch) /\ k + 1 > 1 /\ new[k] = ch[k + 1] /\ k \in Nat
  BY <1>2 DEF n
<1>0. 1 \in 1..Len(ch)
  BY <1>2 DEF n
<1>5. \* nothing else is due to be taken before next
      ASSUME NEW h \in DOMAIN program[s], NEW g \in DOMAIN program[d], NEW a \in Kinds,
             Travels(program, s, h, d, g, a), taking <= Time(g, a), Time(g, a) < next
      PROVE  Time(g, a) = T
  <2>1. Time(g, a) \in Nat
    BY <1>5, TravelsIs
  <2>2. QED
    BY <1>3, <1>5, <2>1 DEF NoneTaken, T
<1>6. Sound(program, new, s, d, most, next)
  <2>1. SUFFICES ASSUME NEW k \in 1..(n - 1)
                 PROVE  \E h \in DOMAIN program[s] : \E g \in DOMAIN program[d] :
                          /\ Travels(program, s, h, d, g, new[k].kind) /\ Sent(program, s, d, h, new[k])
                          /\ Time(h, new[k].kind) < most /\ next <= Time(g, new[k].kind)
    BY <1>2 DEF Sound
  <2>2. k + 1 \in 1..Len(ch) /\ k + 1 > 1 /\ new[k] = ch[k + 1]
    BY <1>4
  <2> DEFINE m == ch[k + 1]
  <2>3. PICK h \in DOMAIN program[s] : \E g \in DOMAIN program[d] :
               /\ Travels(program, s, h, d, g, m.kind) /\ Sent(program, s, d, h, m)
               /\ Time(h, m.kind) < most /\ taking <= Time(g, m.kind)
    BY <1>1, <2>2, Holds
  <2>4. PICK g \in DOMAIN program[d] :
               /\ Travels(program, s, h, d, g, m.kind) /\ Sent(program, s, d, h, m)
               /\ Time(h, m.kind) < most /\ taking <= Time(g, m.kind)
    BY <2>3
  <2>5. Time(i, kind) < Time(h, m.kind)
    BY <1>0, <1>1, <1>2, <1>3, <2>2, <2>4 DEF Sorted
  <2>6. T < Time(g, m.kind)
    BY <2>4, <2>5, TimesAgree DEF T
  <2>7. Time(g, m.kind) \in Nat /\ m.kind \in Kinds
    BY <2>4, TravelsIs
  <2>8. next <= Time(g, m.kind)
    <3>1. SUFFICES ASSUME Time(g, m.kind) < next PROVE FALSE
      BY <2>7
    <3>2. Time(g, m.kind) = T
      BY <1>5, <2>4, <2>7, <3>1
    <3>3. QED
      BY <1>3, <2>6, <3>2
  <2>9. QED
    BY <2>2, <2>4, <2>8
<1>7. Sorted(program, new, s, d)
  <2>1. SUFFICES ASSUME NEW k \in 1..(n - 1), NEW l \in 1..(n - 1),
                        NEW h \in DOMAIN program[s], NEW g \in DOMAIN program[s], k < l,
                        Sent(program, s, d, h, new[k]), Sent(program, s, d, g, new[l])
                 PROVE  Time(h, new[k].kind) < Time(g, new[l].kind)
    BY <1>2 DEF Sorted
  <2>2. /\ k + 1 \in 1..Len(ch) /\ new[k] = ch[k + 1] /\ k \in Nat
        /\ l + 1 \in 1..Len(ch) /\ new[l] = ch[l + 1] /\ l \in Nat
    BY <1>4
  <2>3. k + 1 < l + 1
    BY <2>1, <2>2
  <2>4. QED
    BY <1>1, <2>1, <2>2, <2>3 DEF Sorted
<1>8. Complete(program, new, s, d, least, next)
  <2>1. SUFFICES ASSUME NEW h \in DOMAIN program[s], NEW g \in DOMAIN program[d], NEW a \in Kinds,
                        Travels(program, s, h, d, g, a), Time(h, a) < least, next <= Time(g, a)
                 PROVE  \E k \in 1..(n - 1) : new[k].kind = a /\ Sent(program, s, d, h, new[k])
    BY <1>2 DEF Complete
  <2>2. Time(g, a) \in Nat /\ taking <= Time(g, a)
    <3>1. Time(g, a) \in Nat
      BY <2>1, TravelsIs
    <3>2. QED
      BY <1>3, <2>1, <3>1 DEF T
  <2>3. PICK k \in 1..Len(ch) : ch[k].kind = a /\ Sent(program, s, d, h, ch[k])
    BY <1>1, <2>1, <2>2 DEF Complete
  <2>4. k # 1
    <3>1. SUFFICES ASSUME k = 1 PROVE FALSE
      OBVIOUS
    <3>2. h = i /\ a = kind
      BY <1>2, <2>3, <3>1, OneSender
    <3>3. g = j
      <4>1. Pair(s, h, d, g) /\ Pair(s, i, d, j)
        BY <2>1, TravelsIs
      <4>2. QED
        BY <1>3, <3>2, <4>1, OnePair
    <3>4. QED
      BY <1>3, <2>1, <3>2, <3>3 DEF T
  <2>5. k - 1 \in 1..(n - 1) /\ (k - 1) + 1 = k
    BY <1>2, <2>4 DEF n
  <2>6. new[k - 1] = ch[k]
    BY <1>2, <2>5
  <2>7. QED
    BY <2>3, <2>5, <2>6
<1>9. Causal(program, s, d, most, next)
  <2>1. SUFFICES ASSUME NEW h \in DOMAIN program[s], NEW g \in DOMAIN program[d], NEW a \in Kinds,
                        Travels(program, s, h, d, g, a), Time(g, a) < next
                 PROVE  Time(h, a) < most
    BY DEF Causal
  <2>2. Time(g, a) \in Nat
    BY <2>1, TravelsIs
  <2>3. CASE Time(g, a) < taking
    BY <1>1, <2>1, <2>3 DEF Causal
  <2>4. CASE taking <= Time(g, a)
    <3>1. Time(g, a) = T
      BY <1>5, <2>1, <2>4
    <3>2. h = i /\ a = kind
      BY <2>1, <3>1, OneMessage DEF T
    <3>3. QED
      BY <3>2
  <2>5. QED
    BY <2>2, <2>3, <2>4
<1>10. QED
  BY <1>6, <1>7, <1>8, <1>9 DEF InOrder, new

------------------------------------------------------------------------------
(* What a call posts and takes                                             *)

\* A send() or recv() has another side.
LEMMA PeerPairs ==
  ASSUME Programmed, NEW r \in Ranks, NEW i \in DOMAIN program[r],
         program[r][i].op \in {"send", "recv"}, program[r][i].peer \in Ranks
  PROVE  LET q == program[r][i].peer IN
         \E j \in DOMAIN program[q] : Pair(r, i, q, j) /\ Sides(r, program[r][i], q, program[q][j])
<1> DEFINE q == program[r][i].peer
<1>1. PICK j \in DOMAIN program[q] : Sides(r, program[r][i], q, program[q][j])
  BY DEF Programmed, Matched
<1>2. Pair(r, i, q, j)
  BY <1>1 DEF Pair, Sides
<1>3. QED
  BY <1>1, <1>2

\* What a message says of the call that takes it.
LEMMA DueTo ==
  ASSUME Programmed, NEW s \in Ranks, NEW r \in Ranks, NEW i, NEW j, NEW kind,
         Travels(program, s, i, r, j, kind)
  PROVE  LET c == program[r][j] IN
         /\ kind = "length" => c.op \in Rings \ Vectors /\ s = Following(r)
         /\ kind = "object" => c.op \in Rings /\ s = Preceding(r)
         /\ kind = "header" => c.op = "recv" \/ (c.op = "print" /\ Hands(c, s, r))
         /\ kind = "data" => c.op = "recv"
         /\ c.op = "recv" => c.peer = s
<1>1. /\ i \in DOMAIN program[s] /\ j \in DOMAIN program[r] /\ Pair(s, i, r, j)
      /\ Due(program, s, r, i, kind) /\ program[s][i].op \in Together \cup {"send"}
  BY TravelsIs DEF Travels
<1>2. CASE program[s][i].op \in Together
  <2>1. /\ program[r][j].op = program[s][i].op
        /\ program[s][i].op \notin Rings => program[r][j] = program[s][i]
    BY <1>1, <1>2, TogetherSides
  <2>2. Following(Preceding(s)) = s /\ Preceding(Following(s)) = s
    BY Neighbours
  <2>3. program[s][i].op \notin {"send", "recv"}
    BY <1>2 DEF Together, Rings
  <2>4. kind = "header" => program[s][i].op = "print" /\ program[s][i].op \notin Rings
    BY <1>1, <2>3 DEF Due, Rings
  <2>5. kind # "data"
    BY <1>1, <2>3 DEF Due
  <2>6. QED
    BY <1>1, <2>1, <2>2, <2>3, <2>4, <2>5 DEF Due
<1>3. CASE program[s][i].op = "send"
  <2>1. program[s][i].peer = r /\ kind \in {"header", "data"}
    BY <1>1, <1>3 DEF Due, Rings, Vectors
  <2>2. Sides(s, program[s][i], r, program[r][j])
    BY <1>1, <2>1, PairSides
  <2>3. program[r][j].op = "recv" /\ program[r][j].peer = s
    BY <1>3, <2>2 DEF Sides, Together, Rings
  <2>4. QED
    BY <2>1, <2>3
<1>4. QED
  BY <1>1, <1>2, <1>3

\* Call n of rank r posts, or takes, nothing in these stages.
PostsNone(r, d, n, a, b) ==
  \A j, kind : Travels(program, r, n, d, j, kind) => ~ (a <= Stage(kind) /\ Stage(kind) < b)
TakesNone(s, r, n, a, b) ==
  \A i, kind : Travels(program, s, i, r, n, kind) => ~ (a <= Stage(kind) /\ Stage(kind) < b)

LEMMA PostsNoneThen ==
  ASSUME Programmed, NEW r \in Ranks, NEW d \in Ranks, NEW n \in Nat, NEW a \in 0..2, NEW b \in 0..2,
         PostsNone(r, d, n, a, b)
  PROVE  NonePosted(program, r, d, 2 * n + a, 2 * n + b)
<1>1. SUFFICES ASSUME NEW i \in DOMAIN program[r], NEW j \in DOMAIN program[d], NEW kind \in Kinds,
                      Travels(program, r, i, d, j, kind),
                      2 * n + a <= Time(i, kind), Time(i, kind) < 2 * n + b
               PROVE  FALSE
  BY DEF NonePosted
<1>2. i \in Nat /\ Stage(kind) \in {0, 1}
  BY <1>1, TravelsIs
<1>3. i = n
  BY <1>1, <1>2 DEF Time
<1>4. QED
  BY <1>1, <1>2, <1>3 DEF PostsNone, Time

LEMMA TakesNoneThen ==
  ASSUME Programmed, NEW r \in Ranks, NEW s \in Ranks, NEW n \in Nat, NEW a \in 0..2, NEW b \in 0..2,
         TakesNone(s, r, n, a, b)
  PROVE  NoneTaken(program, s, r, 2 * n + a, 2 * n + b)
<1>1. SUFFICES ASSUME NEW i \in DOMAIN program[s], NEW j \in DOMAIN program[r], NEW kind \in Kinds,
                      Travels(program, s, i, r, j, kind),
                      2 * n + a <= Time(j, kind), Time(j, kind) < 2 * n + b
               PROVE  FALSE
  BY DEF NoneTaken
<1>2. j \in Nat /\ Stage(kind) \in {0, 1}
  BY <1>1, TravelsIs
<1>3. j = n
  BY <1>1, <1>2 DEF Time
<1>4. QED
  BY <1>1, <1>2, <1>3 DEF TakesNone, Time

\* An empty stretch of time
LEMMA NoTime ==
  ASSUME NEW s, NEW d, NEW a \in Nat, Programmed, s \in Ranks, d \in Ranks
  PROVE  NonePosted(program, s, d, a, a) /\ NoneTaken(program, s, d, a, a)
<1>1. ASSUME NEW i \in DOMAIN program[s], NEW j \in DOMAIN program[d], NEW kind \in Kinds,
             Travels(program, s, i, d, j, kind)
      PROVE  ~ (a <= Time(i, kind) /\ Time(i, kind) < a) /\ ~ (a <= Time(j, kind) /\ Time(j, kind) < a)
  <2>1. Time(i, kind) \in Nat /\ Time(j, kind) \in Nat
    BY <1>1, TravelsIs
  <2>2. QED
    BY <2>1
<1>2. QED
  BY <1>1 DEF NonePosted, NoneTaken

------------------------------------------------------------------------------
(* The channels, as one rank goes on                                       *)

MovesTo(r, place) == OthersStay(r) /\ done'[r] = done[r] /\ at'[r] = place

LEMMA Stages ==
  ASSUME NEW place
  PROVE  /\ Most(place) \in 0..2 /\ Least(place) \in 0..2 /\ Took(place) \in 0..2
         /\ Least(place) <= Most(place) /\ Most(place) <= Least(place) + 1
BY DEF Most, Least, Took

LEMMA Times ==
  ASSUME TypeInv, NEW r \in Ranks
  PROVE  /\ done[r] \in Nat /\ done[r] + 1 \in Nat /\ AtMost(r) \in Nat /\ AtLeast(r) \in Nat /\ Taking(r) \in Nat
         /\ AtMost(r) <= AtLeast(r) + 1
<1>1. done[r] \in Nat
  BY DEF TypeInv, Types
<1>2. QED
  BY <1>1, Stages DEF AtMost, AtLeast, Taking

\* A channel whose messages stay
LEMMA ChannelWaits ==
  ASSUME TypeInv, TypeInv', InPhase, ChannelInv, NEW r \in Ranks, NEW place, MovesTo(r, place),
         NEW s \in Ranks, NEW d \in Ranks, at'[d] # "failed",
         at[r] # "failed",
         s = r => /\ PostsNone(r, d, done[r] + 1, Least(at[r]), Least(place))
                  /\ Most(at[r]) <= Most(place),
         d = r => /\ TakesNone(s, r, done[r] + 1, Took(at[r]), Took(place))
                  /\ Took(at[r]) <= Took(place)
  PROVE  InOrder(program, channel[s][d], s, d, AtMost(s)', AtLeast(s)', Taking(d)')
<1>1. Programmed /\ channel[s][d] \in Seq(Messages)
  <2>1. Types
    BY DEF TypeInv
  <2>2. QED
    BY <2>1 DEF Types, Programmed
<1>2. at[d] # "failed"
  BY DEF MovesTo, OthersStay
<1>3. InOrder(program, channel[s][d], s, d, AtMost(s), AtLeast(s), Taking(d))
  BY <1>2 DEF ChannelInv
<1>4. /\ AtMost(s) \in Nat /\ AtLeast(s) \in Nat /\ Taking(d) \in Nat
      /\ AtMost(s)' \in Nat /\ AtLeast(s)' \in Nat /\ Taking(d)' \in Nat
      /\ done[r] \in Nat /\ done[r] + 1 \in Nat
  <2>1. AtMost(s) \in Nat /\ AtLeast(s) \in Nat /\ Taking(d) \in Nat /\ done[r] \in Nat /\ done[r] + 1 \in Nat
    BY Times
  <2>2. done'[s] \in Nat /\ done'[d] \in Nat
    BY DEF TypeInv, Types
  <2>3. AtMost(s)' \in Nat /\ AtLeast(s)' \in Nat /\ Taking(d)' \in Nat
    BY <2>2, Stages DEF AtMost, AtLeast, Taking
  <2>4. QED
    BY <2>1, <2>3
<1> DEFINE n == done[r] + 1
<1>5. AtMost(s) <= AtMost(s)' /\ NonePosted(program, s, d, AtLeast(s), AtLeast(s)')
  <2>1. CASE s = r
    <3>1. NonePosted(program, r, d, 2 * n + Least(at[r]), 2 * n + Least(place))
      <4>1. Least(at[r]) \in 0..2 /\ Least(place) \in 0..2
        BY Stages
      <4> HIDE DEF n
      <4>2. QED
        BY <1>1, <1>4, <2>1, <4>1, PostsNoneThen DEF n
    <3>2. AtLeast(s) = 2 * n + Least(at[r]) /\ AtLeast(s)' = 2 * n + Least(place)
          /\ AtMost(s) = 2 * n + Most(at[r]) /\ AtMost(s)' = 2 * n + Most(place)
      BY <2>1 DEF AtLeast, AtMost, MovesTo
    <3>3. QED
      BY <1>4, <2>1, <3>1, <3>2, Stages
  <2>2. CASE s # r
    <3>1. AtLeast(s)' = AtLeast(s) /\ AtMost(s)' = AtMost(s)
      BY <2>2 DEF AtLeast, AtMost, MovesTo, OthersStay
    <3>2. QED
      BY <1>1, <1>4, <3>1, NoTime
  <2>3. QED
    BY <2>1, <2>2
<1>6. Taking(d) <= Taking(d)' /\ NoneTaken(program, s, d, Taking(d), Taking(d)')
  <2>1. CASE d = r
    <3>1. NoneTaken(program, s, r, 2 * n + Took(at[r]), 2 * n + Took(place))
      <4>1. Took(at[r]) \in 0..2 /\ Took(place) \in 0..2
        BY Stages
      <4> HIDE DEF n
      <4>2. QED
        BY <1>1, <1>4, <2>1, <4>1, TakesNoneThen DEF n
    <3>2. Taking(d) = 2 * n + Took(at[r]) /\ Taking(d)' = 2 * n + Took(place)
      BY <2>1 DEF Taking, MovesTo
    <3>3. QED
      BY <1>4, <2>1, <3>1, <3>2, Stages
  <2>2. CASE d # r
    <3>1. Taking(d)' = Taking(d)
      BY <2>2 DEF Taking, MovesTo, OthersStay
    <3>2. QED
      BY <1>1, <1>4, <3>1, NoTime
  <2>3. QED
    BY <2>1, <2>2
<1>7. QED
  BY <1>1, <1>3, <1>4, <1>5, <1>6, TimePasses

\* A channel that a message is added to
LEMMA ChannelGrows ==
  ASSUME TypeInv, TypeInv', InPhase, ChannelInv, NEW r \in Ranks, NEW place, MovesTo(r, place),
         NEW d \in Ranks, at'[d] # "failed", at[r] # "failed",
         NEW m \in Messages, NEW j, Travels(program, r, done[r] + 1, d, j, m.kind),
         Sent(program, r, d, done[r] + 1, m),
         Most(at[r]) <= Stage(m.kind), Stage(m.kind) < Most(place),
         PostsNone(r, d, done[r] + 1, Least(at[r]), Stage(m.kind)),
         PostsNone(r, d, done[r] + 1, Stage(m.kind) + 1, Least(place)),
         d = r => /\ TakesNone(r, r, done[r] + 1, Took(at[r]), Took(place))
                  /\ Took(at[r]) <= Took(place)
  PROVE  InOrder(program, Append(channel[r][d], m), r, d, AtMost(r)', AtLeast(r)', Taking(d)')
<1>1. Programmed /\ channel[r][d] \in Seq(Messages)
  <2>1. Types
    BY DEF TypeInv
  <2>2. QED
    BY <2>1 DEF Types, Programmed
<1>2. at[d] # "failed"
  BY DEF MovesTo, OthersStay
<1>3. InOrder(program, channel[r][d], r, d, AtMost(r), AtLeast(r), Taking(d))
  BY <1>2 DEF ChannelInv
<1>4. /\ AtMost(r) \in Nat /\ AtLeast(r) \in Nat /\ Taking(d) \in Nat
      /\ AtMost(r)' \in Nat /\ AtLeast(r)' \in Nat /\ Taking(d)' \in Nat
      /\ done[r] \in Nat /\ done[r] + 1 \in Nat
  <2>1. AtMost(r) \in Nat /\ AtLeast(r) \in Nat /\ Taking(d) \in Nat /\ done[r] \in Nat /\ done[r] + 1 \in Nat
    BY Times
  <2>2. done'[r] \in Nat /\ done'[d] \in Nat
    BY DEF TypeInv, Types
  <2>3. AtMost(r)' \in Nat /\ AtLeast(r)' \in Nat /\ Taking(d)' \in Nat
    BY <2>2, Stages DEF AtMost, AtLeast, Taking
  <2>4. QED
    BY <2>1, <2>3
<1> DEFINE n == done[r] + 1
           T == Time(n, m.kind)
<1>5. Stage(m.kind) \in {0, 1} /\ m.kind \in Kinds /\ T \in Nat /\ T = 2 * n + Stage(m.kind)
  BY <1>1, TravelsIs DEF Time
<1>6. Taking(d) <= Taking(d)' /\ NoneTaken(program, r, d, Taking(d), Taking(d)')
  <2>1. CASE d = r
    <3>1. NoneTaken(program, r, r, 2 * n + Took(at[r]), 2 * n + Took(place))
      <4>1. Took(at[r]) \in 0..2 /\ Took(place) \in 0..2
        BY Stages
      <4> HIDE DEF n
      <4>2. QED
        BY <1>1, <1>4, <2>1, <4>1, TakesNoneThen DEF n
    <3>2. Taking(d) = 2 * n + Took(at[r]) /\ Taking(d)' = 2 * n + Took(place)
      BY <2>1 DEF Taking, MovesTo
    <3>3. QED
      BY <1>4, <2>1, <3>1, <3>2, Stages
  <2>2. CASE d # r
    <3>1. Taking(d)' = Taking(d)
      BY <2>2 DEF Taking, MovesTo, OthersStay
    <3>2. QED
      BY <1>1, <1>4, <3>1, NoTime
  <2>3. QED
    BY <2>1, <2>2
<1>7. InOrder(program, channel[r][d], r, d, AtMost(r), AtLeast(r), Taking(d)')
  <2>1. NonePosted(program, r, d, AtLeast(r), AtLeast(r)) /\ AtMost(r) <= AtMost(r)
    BY <1>1, <1>4, NoTime
  <2>2. QED
    BY <1>1, <1>3, <1>4, <1>6, <2>1, TimePasses
<1>8. /\ NonePosted(program, r, d, 2 * n + Least(at[r]), 2 * n + Stage(m.kind))
      /\ NonePosted(program, r, d, 2 * n + (Stage(m.kind) + 1), 2 * n + Least(place))
  <2>1. /\ Least(at[r]) \in 0..2 /\ Least(place) \in 0..2 /\ Stage(m.kind) \in 0..2
        /\ Stage(m.kind) + 1 \in 0..2
    BY <1>5, Stages
  <2>2. n \in Nat
    BY <1>4
  <2>3. PostsNone(r, d, n, Least(at[r]), Stage(m.kind)) /\ PostsNone(r, d, n, Stage(m.kind) + 1, Least(place))
    OBVIOUS
  <2> HIDE DEF n
  <2>4. NonePosted(program, r, d, 2 * n + Least(at[r]), 2 * n + Stage(m.kind))
    BY <1>1, <2>1, <2>2, <2>3, PostsNoneThen
  <2>5. NonePosted(program, r, d, 2 * n + (Stage(m.kind) + 1), 2 * n + Least(place))
    BY <1>1, <2>1, <2>2, <2>3, PostsNoneThen
  <2>6. QED
    BY <2>4, <2>5
<1>9. /\ AtLeast(r) = 2 * n + Least(at[r]) /\ AtLeast(r)' = 2 * n + Least(place)
      /\ AtMost(r) = 2 * n + Most(at[r]) /\ AtMost(r)' = 2 * n + Most(place)
      /\ 2 * n + (Stage(m.kind) + 1) = T + 1
  BY <1>4, <1>5 DEF AtLeast, AtMost, MovesTo
<1>10. AtMost(r) <= T /\ T < AtMost(r)'
  <2>1. Most(at[r]) \in 0..2 /\ Most(place) \in 0..2 /\ n \in Nat
    BY <1>4, Stages
  <2> HIDE DEF n
  <2>2. QED
    BY <1>5, <1>9, <2>1 DEF T
<1>11. /\ NonePosted(program, r, d, AtLeast(r), T) /\ NonePosted(program, r, d, T + 1, AtLeast(r)')
  BY <1>5, <1>8, <1>9
<1>12. Travels(program, r, n, d, j, m.kind) /\ Sent(program, r, d, n, m)
  OBVIOUS
<1> HIDE DEF n
<1>13. QED
  BY <1>1, <1>4, <1>7, <1>10, <1>11, <1>12, OnePosted DEF T

\* The message a rank waits for is the oldest one.
LEMMA HeadIs ==
  ASSUME TypeInv, InPhase, ChannelInv, NEW r \in Ranks, at[r] # "failed", NEW s \in Ranks,
         channel[s][r] # <<>>, NEW i, NEW kind, Travels(program, s, i, r, done[r] + 1, kind),
         Took(at[r]) <= Stage(kind), TakesNone(s, r, done[r] + 1, Took(at[r]), Stage(kind))
  PROVE  /\ Head(channel[s][r]).kind = kind /\ Sent(program, s, r, i, Head(channel[s][r]))
         /\ Time(i, kind) < AtMost(s)
<1> DEFINE n == done[r] + 1
<1>1. Programmed /\ channel[s][r] \in Seq(Messages)
  <2>1. Types
    BY DEF TypeInv
  <2>2. QED
    BY <2>1 DEF Types, Programmed
<1>2. InOrder(program, channel[s][r], s, r, AtMost(s), AtLeast(s), Taking(r))
  BY DEF ChannelInv
<1>3. /\ AtMost(s) \in Nat /\ AtLeast(s) \in Nat /\ Taking(r) \in Nat /\ n \in Nat
      /\ AtMost(s) <= AtLeast(s) + 1
  BY Times
<1>4. Stage(kind) \in {0, 1} /\ Time(n, kind) = 2 * n + Stage(kind) /\ Taking(r) = 2 * n + Took(at[r])
      /\ Stage(kind) \in 0..2 /\ Took(at[r]) \in 0..2
  BY <1>1, TravelsIs, Stages DEF Time, Taking
<1>5. Travels(program, s, i, r, n, kind) /\ TakesNone(s, r, n, Took(at[r]), Stage(kind))
  OBVIOUS
<1> HIDE DEF n
<1>6. NoneTaken(program, s, r, Taking(r), Time(n, kind)) /\ Taking(r) <= Time(n, kind)
  <2>1. NoneTaken(program, s, r, 2 * n + Took(at[r]), 2 * n + Stage(kind))
    BY <1>1, <1>3, <1>4, <1>5, TakesNoneThen
  <2>2. QED
    BY <1>3, <1>4, <2>1
<1>7. QED
  BY <1>1, <1>2, <1>3, <1>5, <1>6, NextIsHead

\* A channel that the message waited for is taken from
LEMMA ChannelShrinks ==
  ASSUME TypeInv, TypeInv', InPhase, ChannelInv, NEW r \in Ranks, NEW place, MovesTo(r, place),
         NEW s \in Ranks, at[r] # "failed",
         channel[s][r] # <<>>, NEW i, NEW kind, Travels(program, s, i, r, done[r] + 1, kind),
         Took(at[r]) <= Stage(kind), Stage(kind) < Took(place),
         TakesNone(s, r, done[r] + 1, Took(at[r]), Stage(kind)),
         TakesNone(s, r, done[r] + 1, Stage(kind) + 1, Took(place)),
         s = r => /\ PostsNone(r, r, done[r] + 1, Least(at[r]), Least(place))
                  /\ Most(at[r]) <= Most(place)
  PROVE  InOrder(program, Tail(channel[s][r]), s, r, AtMost(s)', AtLeast(s)', Taking(r)')
<1> DEFINE n == done[r] + 1
           ch == channel[s][r]
<1>1. Programmed /\ channel[s][r] \in Seq(Messages)
  <2>1. Types
    BY DEF TypeInv
  <2>2. QED
    BY <2>1 DEF Types, Programmed
<1>2. InOrder(program, channel[s][r], s, r, AtMost(s), AtLeast(s), Taking(r))
  BY DEF ChannelInv
<1>3. Head(ch).kind = kind /\ Sent(program, s, r, i, Head(ch)) /\ Time(i, kind) < AtMost(s)
  BY HeadIs
<1>4. /\ AtMost(s) \in Nat /\ AtLeast(s) \in Nat /\ Taking(r) \in Nat
      /\ AtMost(s)' \in Nat /\ AtLeast(s)' \in Nat /\ Taking(r)' \in Nat
      /\ done[r] \in Nat /\ n \in Nat
  <2>1. AtMost(s) \in Nat /\ AtLeast(s) \in Nat /\ Taking(r) \in Nat /\ done[r] \in Nat /\ n \in Nat
    BY Times
  <2>2. done'[r] \in Nat /\ done'[s] \in Nat
    BY DEF TypeInv, Types
  <2>3. AtMost(s)' \in Nat /\ AtLeast(s)' \in Nat /\ Taking(r)' \in Nat
    <3>1. /\ Most(at'[s]) \in 0..2 /\ Least(at'[s]) \in 0..2 /\ Took(at'[r]) \in 0..2
      BY Stages
    <3>2. QED
      BY <2>2, <3>1, SMTT(30) DEF AtMost, AtLeast, Taking
  <2>4. QED
    BY <2>1, <2>3
<1>5. AtMost(s) <= AtMost(s)' /\ NonePosted(program, s, r, AtLeast(s), AtLeast(s)')
  <2>1. CASE s = r
    <3>1. NonePosted(program, r, r, 2 * n + Least(at[r]), 2 * n + Least(place))
      <4>1. Least(at[r]) \in 0..2 /\ Least(place) \in 0..2
        BY Stages
      <4> HIDE DEF n
      <4>2. QED
        BY <1>1, <1>4, <2>1, <4>1, PostsNoneThen DEF n
    <3>2. AtLeast(s) = 2 * n + Least(at[r]) /\ AtLeast(s)' = 2 * n + Least(place)
          /\ AtMost(s) = 2 * n + Most(at[r]) /\ AtMost(s)' = 2 * n + Most(place)
      BY <2>1 DEF AtLeast, AtMost, MovesTo
    <3>3. 2 * n + Most(at[r]) <= 2 * n + Most(place)
      <4>1. Most(at[r]) \in 0..2 /\ Most(place) \in 0..2 /\ Most(at[r]) <= Most(place)
        BY <2>1, Stages
      <4> HIDE DEF n
      <4>2. QED
        BY <1>4, <4>1
    <3>4. QED
      BY <2>1, <3>1, <3>2, <3>3
  <2>2. CASE s # r
    <3>1. AtLeast(s)' = AtLeast(s) /\ AtMost(s)' = AtMost(s)
      BY <2>2 DEF AtLeast, AtMost, MovesTo, OthersStay
    <3>2. QED
      BY <1>1, <1>4, <3>1, NoTime
  <2>3. QED
    BY <2>1, <2>2
<1>6. /\ Stage(kind) \in {0, 1} /\ Time(n, kind) = 2 * n + Stage(kind) /\ Time(n, kind) \in Nat
      /\ Taking(r) = 2 * n + Took(at[r]) /\ Taking(r)' = 2 * n + Took(place)
      /\ Stage(kind) \in 0..2 /\ Stage(kind) + 1 \in 0..2 /\ Took(at[r]) \in 0..2 /\ Took(place) \in 0..2
      /\ 2 * n + (Stage(kind) + 1) = Time(n, kind) + 1
  <2>1. Stage(kind) \in {0, 1} /\ Time(n, kind) \in Nat
    BY <1>1, TravelsIs
  <2>2. QED
    BY <1>4, <2>1, Stages, SMTT(30) DEF Time, Taking, MovesTo
<1>7. /\ Travels(program, s, i, r, n, kind) /\ TakesNone(s, r, n, Took(at[r]), Stage(kind))
      /\ TakesNone(s, r, n, Stage(kind) + 1, Took(place)) /\ ch # <<>> /\ ch \in Seq(Messages)
  BY <1>1
<1> HIDE DEF n, ch
<1>8. InOrder(program, ch, s, r, AtMost(s)', AtLeast(s)', Taking(r))
  <2>1. NoneTaken(program, s, r, Taking(r), Taking(r)) /\ Taking(r) <= Taking(r)
    BY <1>1, <1>4, NoTime
  <2>2. QED
    BY <1>1, <1>2, <1>4, <1>5, <2>1, TimePasses DEF ch
<1>9. NoneTaken(program, s, r, Taking(r), Time(n, kind)) /\ NoneTaken(program, s, r, Time(n, kind) + 1, Taking(r)')
  <2>1. NoneTaken(program, s, r, 2 * n + Took(at[r]), 2 * n + Stage(kind))
    BY <1>1, <1>4, <1>6, <1>7, TakesNoneThen
  <2>2. NoneTaken(program, s, r, 2 * n + (Stage(kind) + 1), 2 * n + Took(place))
    BY <1>1, <1>4, <1>6, <1>7, TakesNoneThen
  <2>3. QED
    BY <1>6, <2>1, <2>2
<1>10. Taking(r) <= Time(n, kind) /\ Time(n, kind) < Taking(r)' /\ Time(i, kind) < AtMost(s)'
  <2>1. Taking(r) <= Time(n, kind) /\ Time(n, kind) < Taking(r)'
    BY <1>4, <1>6, SMTT(30)
  <2>2. Time(i, kind) \in Nat
    BY <1>1, <1>7, TravelsIs
  <2>3. QED
    BY <1>3, <1>4, <1>5, <2>1, <2>2
<1>11. QED
  BY <1>1, <1>3, <1>4, <1>7, <1>8, <1>9, <1>10, OneTaken DEF ch

\* A step that leaves the channels alone, but for those to a rank that has failed
ChannelsStay == \A s, d \in Ranks : at'[d] # "failed" => channel'[s][d] = channel[s][d]

LEMMA QuietStep ==
  ASSUME TypeInv, TypeInv', InPhase, ChannelInv, NEW r \in Ranks, at[r] # "failed",
         NEW place, MovesTo(r, place), ChannelsStay, Most(at[r]) <= Most(place),
         \A d \in Ranks : PostsNone(r, d, done[r] + 1, Least(at[r]), Least(place)),
         place # "failed" => Took(at[r]) <= Took(place),
         place # "failed" => \A s \in Ranks : TakesNone(s, r, done[r] + 1, Took(at[r]), Took(place))
  PROVE  ChannelInv'
<1>1. program' = program
  BY DEF MovesTo, OthersStay
<1>2. ASSUME NEW s \in Ranks, NEW d \in Ranks, at'[d] # "failed"
      PROVE  InOrder(program, channel'[s][d], s, d, AtMost(s)', AtLeast(s)', Taking(d)')
  <2>1. d = r => place # "failed"
    BY <1>2 DEF MovesTo
  <2>2. InOrder(program, channel[s][d], s, d, AtMost(s)', AtLeast(s)', Taking(d)')
    BY <1>2, <2>1, ChannelWaits
  <2>3. channel'[s][d] = channel[s][d]
    BY <1>2 DEF ChannelsStay
  <2>4. QED
    BY <2>2, <2>3
<1>3. QED
  BY <1>1, <1>2 DEF ChannelInv

\* A step that posts m to rank e
LEMMA PostStep ==
  ASSUME TypeInv, TypeInv', InPhase, ChannelInv, NEW r \in Ranks, at[r] # "failed",
         NEW place, MovesTo(r, place), place # "failed",
         NEW e \in Ranks, NEW m \in Messages, channel' = Posted(r, e, m),
         NEW j, Travels(program, r, done[r] + 1, e, j, m.kind), Sent(program, r, e, done[r] + 1, m),
         Most(at[r]) <= Stage(m.kind), Stage(m.kind) < Most(place),
         \A d \in Ranks \ {e} : PostsNone(r, d, done[r] + 1, Least(at[r]), Least(place)),
         PostsNone(r, e, done[r] + 1, Least(at[r]), Stage(m.kind)),
         PostsNone(r, e, done[r] + 1, Stage(m.kind) + 1, Least(place)),
         Took(at[r]) <= Took(place),
         \A s \in Ranks : TakesNone(s, r, done[r] + 1, Took(at[r]), Took(place))
  PROVE  ChannelInv'
<1>1. program' = program
  BY DEF MovesTo, OthersStay
<1>2. channel \in [Ranks -> [Ranks -> Seq(Messages)]]
  BY DEF TypeInv, Types
<1>3. /\ channel'[r][e] = Append(channel[r][e], m)
      /\ \A s, d \in Ranks : s # r \/ d # e => channel'[s][d] = channel[s][d]
  BY <1>2 DEF Posted
<1>4. Most(at[r]) <= Most(place)
  <2>1. Most(at[r]) \in 0..2 /\ Most(place) \in 0..2 /\ Stage(m.kind) \in {0, 1}
    BY Stages DEF Stage
  <2>2. QED
    BY <2>1
<1>5. ASSUME NEW s \in Ranks, NEW d \in Ranks, at'[d] # "failed"
      PROVE  InOrder(program, channel'[s][d], s, d, AtMost(s)', AtLeast(s)', Taking(d)')
  <2>1. CASE s # r \/ d # e
    <3>1. s = r => PostsNone(r, d, done[r] + 1, Least(at[r]), Least(place))
      BY <2>1
    <3>2. InOrder(program, channel[s][d], s, d, AtMost(s)', AtLeast(s)', Taking(d)')
      BY <1>4, <1>5, <3>1, ChannelWaits
    <3>3. QED
      BY <1>3, <2>1, <3>2
  <2>2. CASE s = r /\ d = e
    <3>1. at'[e] # "failed"
      BY <1>5, <2>2
    <3>2. InOrder(program, Append(channel[r][e], m), r, e, AtMost(r)', AtLeast(r)', Taking(e)')
      BY <3>1, ChannelGrows
    <3>3. QED
      BY <1>3, <2>2, <3>2
  <2>3. QED
    BY <2>1, <2>2
<1>6. QED
  BY <1>1, <1>5 DEF ChannelInv

\* A step that takes the next message from rank e
LEMMA TakeStep ==
  ASSUME TypeInv, TypeInv', InPhase, ChannelInv, NEW r \in Ranks, at[r] # "failed",
         NEW place, MovesTo(r, place),
         NEW e \in Ranks, channel[e][r] # <<>>, channel' = Taken(e, r),
         NEW i, NEW kind, Travels(program, e, i, r, done[r] + 1, kind),
         Took(at[r]) <= Stage(kind), Stage(kind) < Took(place),
         \A s \in Ranks \ {e} : TakesNone(s, r, done[r] + 1, Took(at[r]), Took(place)),
         TakesNone(e, r, done[r] + 1, Took(at[r]), Stage(kind)),
         TakesNone(e, r, done[r] + 1, Stage(kind) + 1, Took(place)),
         Most(at[r]) <= Most(place),
         \A d \in Ranks : PostsNone(r, d, done[r] + 1, Least(at[r]), Least(place))
  PROVE  ChannelInv'
<1>1. program' = program
  BY DEF MovesTo, OthersStay
<1>2. channel \in [Ranks -> [Ranks -> Seq(Messages)]]
  BY DEF TypeInv, Types
<1>3. /\ channel'[e][r] = Tail(channel[e][r])
      /\ \A s, d \in Ranks : s # e \/ d # r => channel'[s][d] = channel[s][d]
  BY <1>2 DEF Taken
<1>4. Took(at[r]) <= Took(place)
  <2>1. Took(at[r]) \in 0..2 /\ Took(place) \in 0..2 /\ Stage(kind) \in {0, 1}
    BY Stages DEF Stage
  <2>2. QED
    BY <2>1
<1>5. ASSUME NEW s \in Ranks, NEW d \in Ranks, at'[d] # "failed"
      PROVE  InOrder(program, channel'[s][d], s, d, AtMost(s)', AtLeast(s)', Taking(d)')
  <2>1. CASE s # e \/ d # r
    <3>1. d = r => TakesNone(s, r, done[r] + 1, Took(at[r]), Took(place))
      BY <2>1
    <3>2. InOrder(program, channel[s][d], s, d, AtMost(s)', AtLeast(s)', Taking(d)')
      BY <1>4, <1>5, <3>1, ChannelWaits
    <3>3. QED
      BY <1>3, <2>1, <3>2
  <2>2. CASE s = e /\ d = r
    <3>1. InOrder(program, Tail(channel[e][r]), e, r, AtMost(e)', AtLeast(e)', Taking(r)')
      BY ChannelShrinks
    <3>2. QED
      BY <1>3, <2>2, <3>1
  <2>3. QED
    BY <2>1, <2>2
<1>6. QED
  BY <1>1, <1>5 DEF ChannelInv

------------------------------------------------------------------------------
(* The messages of the present call                                        *)

\* Rank r posts a message of this kind to d, or takes one from s.
Posting(r, d, kind) ==
  \/ kind = "length" /\ Call(r).op \in Rings \ Vectors /\ d = Preceding(r)
  \/ kind = "object" /\ Call(r).op \in Rings /\ d = Following(r)
  \/ kind \in {"header", "data"} /\ Call(r).op = "send" /\ d = Call(r).peer
  \/ kind = "header" /\ Call(r).op = "print" /\ Prints(r) /\ ~ Final(r) /\ d = After(r)
Awaiting(r, s, kind) ==
  \/ kind = "length" /\ Call(r).op \in Rings \ Vectors /\ s = Following(r)
  \/ kind = "object" /\ Call(r).op \in Rings /\ s = Preceding(r)
  \/ kind \in {"header", "data"} /\ Call(r).op = "recv" /\ s = Call(r).peer
  \/ kind = "header" /\ Call(r).op = "print" /\ Prints(r) /\ Position(r) # 1 /\ s = Before(r)

LEMMA HandsOver ==
  ASSUME TypeInv, NEW r \in Ranks, Running(r), Call(r).op = "print"
  PROVE  /\ \A d : Hands(Call(r), r, d) <=> Prints(r) /\ ~ Final(r) /\ d = After(r)
         /\ \A s : Hands(Call(r), s, r) <=> Prints(r) /\ Position(r) # 1 /\ s = Before(r)
<1> DEFINE o == Order(Call(r))
           n == Len(o)
<1>1. Call(r) \in Calls
  BY TypedCall
<1>2. o \in Seq(Ranks) /\ n \in Nat /\ \A i, j \in 1..n : o[i] = o[j] => i = j
  BY <1>1, OrderHasNoRepeats DEF NoRepeats
<1>3. Prints(r) => /\ Position(r) \in 1..n /\ o[Position(r)] = r
                   /\ \A k \in 1..n : o[k] = r => k = Position(r)
  BY <1>1, PositionOf
<1>4. ~ Prints(r) => \A k \in 1..n : o[k] # r
  BY DEF Prints, Contains
<1>5. ASSUME NEW d PROVE Hands(Call(r), r, d) <=> Prints(r) /\ ~ Final(r) /\ d = After(r)
  <2>1. Hands(Call(r), r, d) <=> \E k \in 1..(n - 1) : o[k] = r /\ o[k + 1] = d
    BY DEF Hands
  <2>2. Final(r) <=> Position(r) = n
    BY DEF Final
  <2>3. After(r) = o[Position(r) + 1]
    BY DEF After
  <2> HIDE DEF o, n
  <2>4. \A k \in 1..(n - 1) : k \in 1..n /\ k # n
    BY <1>2
  <2>5. Prints(r) /\ ~ Final(r) => Position(r) \in 1..(n - 1)
    BY <1>2, <1>3, <2>2
  <2>6. QED
    BY <1>3, <1>4, <2>1, <2>2, <2>3, <2>4, <2>5
<1>6. ASSUME NEW s PROVE Hands(Call(r), s, r) <=> Prints(r) /\ Position(r) # 1 /\ s = Before(r)
  <2>1. Hands(Call(r), s, r) <=> \E k \in 1..(n - 1) : o[k] = s /\ o[k + 1] = r
    BY DEF Hands
  <2>3. Before(r) = o[Position(r) - 1]
    BY DEF Before
  <2> HIDE DEF o, n
  <2>4. \A k \in 1..(n - 1) : k + 1 \in 1..n /\ k + 1 # 1 /\ (k + 1) - 1 = k
    BY <1>2
  <2>5. Prints(r) /\ Position(r) # 1 => Position(r) - 1 \in 1..(n - 1) /\ (Position(r) - 1) + 1 = Position(r)
    BY <1>2, <1>3
  <2>6. QED
    BY <1>3, <1>4, <2>1, <2>3, <2>4, <2>5
<1>7. QED
  BY <1>5, <1>6

LEMMA PostsWhat ==
  ASSUME TypeInv, NEW r \in Ranks, Running(r), NEW d \in Ranks, NEW j, NEW kind,
         Travels(program, r, done[r] + 1, d, j, kind)
  PROVE  Posting(r, d, kind) /\ kind \in Kinds
<1>1. Call(r) = program[r][done[r] + 1] /\ Due(program, r, d, done[r] + 1, kind) /\ kind \in Kinds
  BY DEF Call, Travels
<1>2. Call(r).op = "print" => (Hands(Call(r), r, d) <=> Prints(r) /\ ~ Final(r) /\ d = After(r))
  BY HandsOver
<1>3. QED
  BY <1>1, <1>2 DEF Due, Posting

LEMMA TakesWhat ==
  ASSUME TypeInv, NEW r \in Ranks, Running(r), NEW s \in Ranks, NEW i, NEW kind,
         Travels(program, s, i, r, done[r] + 1, kind)
  PROVE  Awaiting(r, s, kind) /\ kind \in Kinds
<1>1. Call(r) = program[r][done[r] + 1] /\ kind \in Kinds /\ Programmed
  BY TypedCall DEF Call, Travels
<1>2. /\ kind = "length" => Call(r).op \in Rings \ Vectors /\ s = Following(r)
      /\ kind = "object" => Call(r).op \in Rings /\ s = Preceding(r)
      /\ kind = "header" => Call(r).op = "recv" \/ (Call(r).op = "print" /\ Hands(Call(r), s, r))
      /\ kind = "data" => Call(r).op = "recv"
      /\ Call(r).op = "recv" => Call(r).peer = s
  BY <1>1, DueTo
<1>3. Call(r).op = "print" => (Hands(Call(r), s, r) <=> Prints(r) /\ Position(r) # 1 /\ s = Before(r))
  BY HandsOver
<1>4. QED
  BY <1>1, <1>2, <1>3 DEF Awaiting, Kinds

\* And all this does travel.
LEMMA PostingTravels ==
  ASSUME TypeInv, NEW r \in Ranks, Running(r), NEW d \in Ranks, NEW kind \in Kinds, Posting(r, d, kind)
  PROVE  \E j : Travels(program, r, done[r] + 1, d, j, kind)
<1> DEFINE n == done[r] + 1
<1>1. Programmed /\ n \in DOMAIN program[r] /\ Call(r) = program[r][n]
  BY TypedCall
<1>2. Call(r).op = "print" => (Hands(Call(r), r, d) <=> Prints(r) /\ ~ Final(r) /\ d = After(r))
  BY HandsOver
<1>3. Due(program, r, d, n, kind)
  BY <1>1, <1>2 DEF Due, Posting
<1>4. \E j \in DOMAIN program[d] : Pair(r, n, d, j)
  <2>1. CASE Call(r).op \in Together
    BY <1>1, <2>1, TogetherPairs
  <2>2. CASE Call(r).op \notin Together
    <3>1. Call(r).op = "send" /\ d = Call(r).peer
      BY <2>2 DEF Posting, Together, Rings
    <3>2. QED
      BY <1>1, <3>1, PeerPairs
  <2>3. QED
    BY <2>1, <2>2
<1>5. QED
  BY <1>1, <1>3, <1>4 DEF Travels, Pair

LEMMA AwaitingTravels ==
  ASSUME TypeInv, NEW r \in Ranks, Running(r), NEW s \in Ranks, NEW kind \in Kinds, Awaiting(r, s, kind)
  PROVE  \E i : Travels(program, s, i, r, done[r] + 1, kind)
<1> DEFINE n == done[r] + 1
<1>1. Programmed /\ n \in DOMAIN program[r] /\ Call(r) = program[r][n]
  BY TypedCall
<1>2. Call(r).op = "print" => (Hands(Call(r), s, r) <=> Prints(r) /\ Position(r) # 1 /\ s = Before(r))
  BY HandsOver
<1>3. CASE Call(r).op \in Together
  <2>1. PICK i \in DOMAIN program[s] : Pair(r, n, s, i)
    BY <1>1, <1>3, TogetherPairs
  <2>2. /\ program[s][i].op = Call(r).op
        /\ Call(r).op \notin Rings => program[s][i] = Call(r)
    BY <1>1, <1>3, <2>1, TogetherSides
  <2>3. Preceding(Following(r)) = r /\ Following(Preceding(r)) = r
    BY Neighbours
  <2>4. Due(program, s, r, i, kind)
    BY <1>2, <1>3, <2>2, <2>3 DEF Due, Awaiting, Together, Rings, Vectors
  <2>5. QED
    BY <1>1, <2>1, <2>4 DEF Travels, Pair
<1>4. CASE Call(r).op \notin Together
  <2>1. Call(r).op = "recv" /\ s = Call(r).peer /\ kind \in {"header", "data"}
    BY <1>4 DEF Awaiting, Together, Rings
  <2>2. PICK i \in DOMAIN program[s] : Pair(r, n, s, i) /\ Sides(r, program[r][n], s, program[s][i])
    BY <1>1, <2>1, PeerPairs
  <2>3. program[s][i].op = "send" /\ program[s][i].peer = r
    BY <1>1, <2>1, <2>2 DEF Sides, Together, Rings
  <2>4. Due(program, s, r, i, kind)
    BY <2>1, <2>3 DEF Due
  <2>5. QED
    BY <1>1, <2>2, <2>4 DEF Travels, Pair
<1>5. QED
  BY <1>3, <1>4

LEMMA NoStages ==
  ASSUME NEW r, NEW d, NEW n, NEW a \in 0..2, NEW b \in 0..2, b <= a
  PROVE  PostsNone(r, d, n, a, b) /\ TakesNone(d, r, n, a, b)
<1>1. \A kind : Stage(kind) \in {0, 1}
  BY DEF Stage
<1>2. \A kind : ~ (a <= Stage(kind) /\ Stage(kind) < b)
  BY <1>1
<1>3. QED
  BY <1>2 DEF PostsNone, TakesNone

\* What is posted
LEMMA WhatIsSent ==
  ASSUME TypeInv, NEW r \in Ranks, Running(r), NEW d \in Ranks, NEW kind \in Kinds,
         NEW bytes \in Nat, NEW number \in Nat, Posting(r, d, kind),
         kind = "length" => number = Call(r).len,
         kind = "header" => number = IF Call(r).op = "send" THEN Call(r).len ELSE 0,
         kind \in {"object", "data"} => bytes = Call(r).len
  PROVE  /\ Message(r, kind, bytes, number) \in Messages
         /\ Message(r, kind, bytes, number).kind = kind
         /\ Sent(program, r, d, done[r] + 1, Message(r, kind, bytes, number))
         /\ \E j : Travels(program, r, done[r] + 1, d, j, kind)
<1>1. Message(r, kind, bytes, number) \in Messages
  BY TypedMessage
<1>2. /\ Message(r, kind, bytes, number).kind = kind
      /\ Message(r, kind, bytes, number).bytes = bytes
      /\ Message(r, kind, bytes, number).number = number
      /\ Message(r, kind, bytes, number).from = <<r, Call(r).id>>
  BY DEF Message
<1>3. PICK j : Travels(program, r, done[r] + 1, d, j, kind)
  BY PostingTravels
<1>4. /\ done[r] + 1 \in DOMAIN program[r] /\ Call(r) = program[r][done[r] + 1]
      /\ Due(program, r, d, done[r] + 1, kind)
  BY <1>3, TypedCall DEF Travels
<1>5. Sent(program, r, d, done[r] + 1, Message(r, kind, bytes, number))
  <2> DEFINE m == Message(r, kind, bytes, number)
  <2> HIDE DEF m
  <2>1. m.kind = kind /\ m.bytes = bytes /\ m.number = number /\ m.from = <<r, Call(r).id>>
    BY <1>2 DEF m
  <2>2. Sent(program, r, d, done[r] + 1, m)
    BY <1>4, <2>1 DEF Sent
  <2>3. QED
    BY <2>2 DEF m
<1>6. QED
  BY <1>1, <1>2, <1>3, <1>5

\* A step that goes on with the present call
Ready(r) ==
  /\ TypeInv /\ TypeInv' /\ InPhase /\ ChannelInv
  /\ Running(r) /\ at[r] # "failed" /\ OthersStay(r)

LEMMA SendLengthInOrder ==
  ASSUME NEW r \in Ranks, Ready(r), SendLength(r)
  PROVE  ChannelInv'
<1>1. TypeInv /\ TypeInv' /\ InPhase /\ ChannelInv /\ Running(r) /\ at[r] # "failed" /\ OthersStay(r)
  BY DEF Ready
<1>2. /\ Call(r).op \in Rings \ Vectors /\ at[r] = "call" /\ done' = done /\ at'[r] = "length"
      /\ channel' = Posted(r, Preceding(r), Message(r, "length", IntegerBytes, Call(r).len))
  BY <1>1 DEF SendLength, In, Goto, TypeInv, Types
<1>3. MovesTo(r, "length") /\ Preceding(r) \in Ranks /\ Call(r).len \in Nat
  <2>1. Call(r) \in Calls
    BY <1>1, TypedCall
  <2>2. QED
    BY <1>1, <1>2, <2>1, CallTypes, Neighbours DEF MovesTo
<1> DEFINE m == Message(r, "length", IntegerBytes, Call(r).len)
<1>4. m \in Messages /\ m.kind = "length" /\ Sent(program, r, Preceding(r), done[r] + 1, m)
      /\ \E j : Travels(program, r, done[r] + 1, Preceding(r), j, m.kind)
  <2>1. Posting(r, Preceding(r), "length") /\ "length" \in Kinds /\ IntegerBytes \in Nat
    BY <1>2 DEF Posting, Kinds, IntegerBytes
  <2>2. QED
    BY <1>1, <1>3, <2>1, WhatIsSent
<1> HIDE DEF m
<1>5. PICK j : Travels(program, r, done[r] + 1, Preceding(r), j, m.kind)
  BY <1>4
<1>6. /\ Most(at[r]) = 0 /\ Least(at[r]) = 0 /\ Took(at[r]) = 0 /\ Stage(m.kind) = 0
      /\ Most("length") = 1 /\ Least("length") = 1 /\ Took("length") = 0
  BY <1>2, <1>4 DEF Most, Least, Took, Stage
<1>7. \A d \in Ranks \ {Preceding(r)} : PostsNone(r, d, done[r] + 1, Least(at[r]), Least("length"))
  BY <1>1, <1>2, <1>6, PostsWhat, SMTT(30) DEF PostsNone, Posting, Stage, Rings
<1>8. /\ PostsNone(r, Preceding(r), done[r] + 1, Least(at[r]), Stage(m.kind))
      /\ PostsNone(r, Preceding(r), done[r] + 1, Stage(m.kind) + 1, Least("length"))
      /\ \A s \in Ranks : TakesNone(s, r, done[r] + 1, Took(at[r]), Took("length"))
  BY <1>6, NoStages
<1>9. /\ channel' = Posted(r, Preceding(r), m) /\ Most(at[r]) <= Stage(m.kind)
      /\ Stage(m.kind) < Most("length") /\ Took(at[r]) <= Took("length") /\ "length" # "failed"
  BY <1>2, <1>6 DEF m
<1>10. QED
  BY <1>1, <1>3, <1>4, <1>5, <1>7, <1>8, <1>9, PostStep

LEMMA SendHeaderInOrder ==
  ASSUME NEW r \in Ranks, Ready(r), SendHeader(r)
  PROVE  ChannelInv'
<1>1. TypeInv /\ TypeInv' /\ InPhase /\ ChannelInv /\ Running(r) /\ at[r] # "failed" /\ OthersStay(r)
  BY DEF Ready
<1>2. /\ Call(r).op = "send" /\ at[r] = "call" /\ done' = done /\ at'[r] = "announced"
      /\ channel' = Posted(r, Call(r).peer, Message(r, "header", HeaderBytes, Call(r).len))
  BY <1>1 DEF SendHeader, In, Goto, TypeInv, Types
<1> DEFINE e == Call(r).peer
<1>3. MovesTo(r, "announced") /\ e \in Ranks /\ Call(r).len \in Nat
  <2>1. Call(r) \in Calls
    BY <1>1, TypedCall
  <2>2. QED
    BY <1>1, <1>2, <2>1, CallTypes DEF MovesTo
<1> DEFINE m == Message(r, "header", HeaderBytes, Call(r).len)
<1>4. m \in Messages /\ m.kind = "header" /\ Sent(program, r, e, done[r] + 1, m)
      /\ \E j : Travels(program, r, done[r] + 1, e, j, m.kind)
  <2>1. Posting(r, e, "header") /\ "header" \in Kinds /\ HeaderBytes \in Nat
    BY <1>2 DEF Posting, Kinds, HeaderBytes
  <2>2. QED
    BY <1>1, <1>2, <1>3, <2>1, WhatIsSent
<1> HIDE DEF m
<1>5. PICK j : Travels(program, r, done[r] + 1, e, j, m.kind)
  BY <1>4
<1>6. /\ Most(at[r]) = 0 /\ Least(at[r]) = 0 /\ Took(at[r]) = 0 /\ Stage(m.kind) = 0
      /\ Most("announced") = 1 /\ Least("announced") = 1 /\ Took("announced") = 0
  BY <1>2, <1>4 DEF Most, Least, Took, Stage
<1>7. \A d \in Ranks \ {e} : PostsNone(r, d, done[r] + 1, Least(at[r]), Least("announced"))
  BY <1>1, <1>2, <1>6, PostsWhat DEF PostsNone, Posting, Stage, Rings
<1>8. /\ PostsNone(r, e, done[r] + 1, Least(at[r]), Stage(m.kind))
      /\ PostsNone(r, e, done[r] + 1, Stage(m.kind) + 1, Least("announced"))
      /\ \A s \in Ranks : TakesNone(s, r, done[r] + 1, Took(at[r]), Took("announced"))
  BY <1>6, NoStages
<1>9. /\ channel' = Posted(r, e, m) /\ Most(at[r]) <= Stage(m.kind)
      /\ Stage(m.kind) < Most("announced") /\ Took(at[r]) <= Took("announced") /\ "announced" # "failed"
  BY <1>2, <1>6 DEF m
<1> HIDE DEF e
<1>10. QED
  BY <1>1, <1>3, <1>4, <1>5, <1>7, <1>8, <1>9, PostStep

LEMMA SendDataInOrder ==
  ASSUME NEW r \in Ranks, Ready(r), SendData(r)
  PROVE  ChannelInv'
<1>1. TypeInv /\ TypeInv' /\ InPhase /\ ChannelInv /\ Running(r) /\ at[r] # "failed" /\ OthersStay(r)
  BY DEF Ready
<1>2. /\ Call(r).op = "send" /\ at[r] = "announced" /\ done' = done /\ at'[r] = "sent"
      /\ channel' = Posted(r, Call(r).peer, Message(r, "data", Call(r).len, 0))
  BY <1>1 DEF SendData, In, Goto, TypeInv, Types
<1> DEFINE e == Call(r).peer
<1>3. MovesTo(r, "sent") /\ e \in Ranks /\ Call(r).len \in Nat
  <2>1. Call(r) \in Calls
    BY <1>1, TypedCall
  <2>2. QED
    BY <1>1, <1>2, <2>1, CallTypes DEF MovesTo
<1> DEFINE m == Message(r, "data", Call(r).len, 0)
<1>4. m \in Messages /\ m.kind = "data" /\ Sent(program, r, e, done[r] + 1, m)
      /\ \E j : Travels(program, r, done[r] + 1, e, j, m.kind)
  <2>1. Posting(r, e, "data") /\ "data" \in Kinds /\ 0 \in Nat
    BY <1>2 DEF Posting, Kinds
  <2>2. QED
    BY <1>1, <1>2, <1>3, <2>1, WhatIsSent
<1> HIDE DEF m
<1>5. PICK j : Travels(program, r, done[r] + 1, e, j, m.kind)
  BY <1>4
<1>6. /\ Most(at[r]) = 1 /\ Least(at[r]) = 1 /\ Took(at[r]) = 0 /\ Stage(m.kind) = 1
      /\ Most("sent") = 2 /\ Least("sent") = 2 /\ Took("sent") = 2
  BY <1>2, <1>4 DEF Most, Least, Took, Stage
<1>7. \A d \in Ranks \ {e} : PostsNone(r, d, done[r] + 1, Least(at[r]), Least("sent"))
  BY <1>1, <1>2, <1>6, PostsWhat DEF PostsNone, Posting, Stage, Rings
<1>8. /\ PostsNone(r, e, done[r] + 1, Least(at[r]), Stage(m.kind))
      /\ PostsNone(r, e, done[r] + 1, Stage(m.kind) + 1, Least("sent"))
  BY <1>6, NoStages
<1>9. \A s \in Ranks : TakesNone(s, r, done[r] + 1, Took(at[r]), Took("sent"))
  BY <1>1, <1>2, TakesWhat DEF TakesNone, Awaiting, Rings
<1>10. /\ channel' = Posted(r, e, m) /\ Most(at[r]) <= Stage(m.kind)
       /\ Stage(m.kind) < Most("sent") /\ Took(at[r]) <= Took("sent") /\ "sent" # "failed"
  BY <1>2, <1>6 DEF m
<1> HIDE DEF e
<1>11. QED
  BY <1>1, <1>3, <1>4, <1>5, <1>7, <1>8, <1>9, <1>10, PostStep

LEMMA SendObjectInOrder ==
  ASSUME NEW r \in Ranks, Ready(r), SendObject(r)
  PROVE  ChannelInv'
<1>1. TypeInv /\ TypeInv' /\ InPhase /\ ChannelInv /\ Running(r) /\ at[r] # "failed" /\ OthersStay(r)
  BY DEF Ready
<1>2. /\ Call(r).op \in Rings /\ done' = done /\ at \in [Ranks -> Places]
      /\ at[r] = "sized" \/ (at[r] = "call" /\ Call(r).op \in Vectors)
  BY <1>1 DEF SendObject, In, TypeInv, Types, Vectors, Rings
<1>3. /\ at[r] = "sized" => Most(at[r]) = 1 /\ Least(at[r]) = 1 /\ Took(at[r]) = 1
      /\ at[r] = "call" => Most(at[r]) = 0 /\ Least(at[r]) = 0 /\ Took(at[r]) = 0
      /\ Most("object") = 2 /\ Least("object") = 2 /\ Took("object") = 1
      /\ Most("failed") = 2 /\ Least("failed") = 1
  BY DEF Most, Least, Took
<1>0. ASSUME NEW d \in Ranks, NEW j, NEW kind, Travels(program, r, done[r] + 1, d, j, kind)
      PROVE  \/ (Stage(kind) = 0 /\ kind = "length" /\ at[r] = "sized")
             \/ (Stage(kind) = 1 /\ d = Following(r))
  <2>1. Posting(r, d, kind) /\ kind \in Kinds /\ Call(r).op \notin {"send", "print"}
    BY <1>0, <1>1, <1>2, PostsWhat DEF Rings
  <2>2. kind = "length" => at[r] = "sized"
    BY <1>2, <2>1 DEF Posting
  <2>3. QED
    BY <2>1, <2>2 DEF Posting, Stage
<1>4. \A d \in Ranks : PostsNone(r, d, done[r] + 1, Least(at[r]), 1)
  BY <1>0, <1>2, <1>3 DEF PostsNone
<1>5. CASE Call(r).len > MaxLen \/ Buffer(r) > MaxLen
  <2>1. at'[r] = "failed" /\ channel' = channel
    BY <1>2, <1>5 DEF SendObject, Goto
  <2>2. MovesTo(r, "failed") /\ ChannelsStay /\ Most(at[r]) <= Most("failed")
    BY <1>1, <1>2, <1>3, <2>1 DEF MovesTo, ChannelsStay
  <2>3. \A d \in Ranks : PostsNone(r, d, done[r] + 1, Least(at[r]), Least("failed"))
    BY <1>3, <1>4
  <2>4. QED
    BY <1>1, <2>2, <2>3, QuietStep
<1>6. CASE ~ (Call(r).len > MaxLen \/ Buffer(r) > MaxLen)
  <2> DEFINE e == Following(r)
             m == Message(r, "object", Call(r).len, 0)
  <2>1. at'[r] = "object" /\ channel' = Posted(r, e, m)
    BY <1>2, <1>6 DEF SendObject, Goto
  <2>2. MovesTo(r, "object") /\ e \in Ranks /\ Call(r).len \in Nat
    <3>1. Call(r) \in Calls
      BY <1>1, TypedCall
    <3>2. QED
      BY <1>1, <1>2, <2>1, <3>1, CallTypes, Neighbours DEF MovesTo
  <2>3. m \in Messages /\ m.kind = "object" /\ Sent(program, r, e, done[r] + 1, m)
        /\ \E j : Travels(program, r, done[r] + 1, e, j, m.kind)
    <3>1. Posting(r, e, "object") /\ "object" \in Kinds /\ 0 \in Nat
      BY <1>2 DEF Posting, Kinds
    <3>2. QED
      BY <1>1, <2>2, <3>1, WhatIsSent
  <2> HIDE DEF m
  <2>4. PICK j : Travels(program, r, done[r] + 1, e, j, m.kind)
    BY <2>3
  <2>5. Stage(m.kind) = 1
    BY <2>3 DEF Stage
  <2>6. \A d \in Ranks \ {e} : PostsNone(r, d, done[r] + 1, Least(at[r]), Least("object"))
    BY <1>0, <1>2, <1>3 DEF PostsNone
  <2>7. /\ PostsNone(r, e, done[r] + 1, Least(at[r]), Stage(m.kind))
        /\ PostsNone(r, e, done[r] + 1, Stage(m.kind) + 1, Least("object"))
    BY <1>3, <1>4, <2>2, <2>5, NoStages
  <2>8. \A s \in Ranks : TakesNone(s, r, done[r] + 1, Took(at[r]), Took("object"))
    BY <1>1, <1>2, <1>3, TakesWhat DEF TakesNone, Awaiting, Stage, Rings
  <2>9. /\ Most(at[r]) <= Stage(m.kind) /\ Stage(m.kind) < Most("object")
        /\ Took(at[r]) <= Took("object") /\ "object" # "failed"
    BY <1>2, <1>3, <2>5
  <2> HIDE DEF e
  <2>10. QED
    BY <1>1, <2>1, <2>2, <2>3, <2>4, <2>6, <2>7, <2>8, <2>9, PostStep
<1>7. QED
  BY <1>5, <1>6

LEMMA HeadOf ==
  ASSUME NEW r \in Ranks, Ready(r), NEW s \in Ranks, NEW kind \in Kinds, Awaiting(r, s, kind),
         Arrived(s, r), Took(at[r]) <= Stage(kind),
         TakesNone(s, r, done[r] + 1, Took(at[r]), Stage(kind))
  PROVE  \E i : /\ Travels(program, s, i, r, done[r] + 1, kind)
                /\ Head(channel[s][r]).kind = kind
                /\ Sent(program, s, r, i, Head(channel[s][r]))
<1>1. TypeInv /\ InPhase /\ ChannelInv /\ Running(r) /\ at[r] # "failed"
  BY DEF Ready
<1>2. PICK i : Travels(program, s, i, r, done[r] + 1, kind)
  BY <1>1, AwaitingTravels
<1>3. channel[s][r] # <<>>
  BY DEF Arrived
<1>4. Head(channel[s][r]).kind = kind /\ Sent(program, s, r, i, Head(channel[s][r]))
  BY <1>1, <1>2, <1>3, HeadIs
<1>5. QED
  BY <1>2, <1>4

\* The length that arrives is that of the following rank's object.
LEMMA LengthHead ==
  ASSUME NEW r \in Ranks, Ready(r), TakeLength(r)
  PROVE  \E i : /\ Travels(program, Following(r), i, r, done[r] + 1, "length")
                /\ Head(channel[Following(r)][r]).kind = "length"
                /\ Sent(program, Following(r), r, i, Head(channel[Following(r)][r]))
<1>1. Call(r).op \in Rings \ Vectors /\ at[r] = "length" /\ Arrived(Following(r), r)
  BY DEF TakeLength, In
<1>2. Following(r) \in Ranks /\ Awaiting(r, Following(r), "length") /\ "length" \in Kinds
  BY <1>1, Neighbours DEF Awaiting, Kinds
<1>3. Took(at[r]) = 0 /\ Stage("length") = 0
  BY <1>1 DEF Took, Stage
<1>4. QED
  BY <1>1, <1>2, <1>3, HeadOf, NoStages

\* The messages of a call round the ring
LEMMA RingTakes ==
  ASSUME TypeInv, NEW r \in Ranks, Running(r), Call(r).op \in Rings, NEW s \in Ranks, NEW i, NEW kind,
         Travels(program, s, i, r, done[r] + 1, kind)
  PROVE  \/ (Stage(kind) = 0 /\ s = Following(r))
         \/ (Stage(kind) = 1 /\ s = Preceding(r))
<1>1. Awaiting(r, s, kind) /\ kind \in Kinds /\ Call(r).op \notin {"recv", "print"}
  BY TakesWhat DEF Rings
<1>2. QED
  BY <1>1 DEF Awaiting, Stage

LEMMA TakeLengthInOrder ==
  ASSUME NEW r \in Ranks, Ready(r), TakeLength(r)
  PROVE  ChannelInv'
<1>1. TypeInv /\ TypeInv' /\ InPhase /\ ChannelInv /\ Running(r) /\ at[r] # "failed" /\ OthersStay(r)
  BY DEF Ready
<1> DEFINE e == Following(r)
<1>2. PICK i : /\ Travels(program, e, i, r, done[r] + 1, "length")
               /\ Head(channel[e][r]).kind = "length"
  BY LengthHead
<1>3. /\ Call(r).op \in Rings \ Vectors /\ at[r] = "length" /\ done' = done
      /\ channel[e][r] # <<>> /\ channel' = Taken(e, r) /\ at'[r] = "sized" /\ e \in Ranks
  <2>1. at \in [Ranks -> Places]
    BY <1>1 DEF TypeInv, Types
  <2>2. QED
    BY <1>2, <2>1, Neighbours DEF TakeLength, In, Arrived, Goto
<1>4. MovesTo(r, "sized")
  BY <1>1, <1>3 DEF MovesTo
<1>5. /\ Most(at[r]) = 1 /\ Least(at[r]) = 1 /\ Took(at[r]) = 0 /\ Stage("length") = 0
      /\ Most("sized") = 1 /\ Least("sized") = 1 /\ Took("sized") = 1
  BY <1>3 DEF Most, Least, Took, Stage
<1>0. ASSUME NEW s \in Ranks, NEW g, NEW kind, Travels(program, s, g, r, done[r] + 1, kind)
      PROVE  Stage(kind) = 1 \/ s = e
  BY <1>0, <1>1, <1>3, RingTakes
<1>6. \A s \in Ranks \ {e} : TakesNone(s, r, done[r] + 1, Took(at[r]), Took("sized"))
  BY <1>0, <1>5 DEF TakesNone
<1>7. /\ TakesNone(e, r, done[r] + 1, Took(at[r]), Stage("length"))
      /\ TakesNone(e, r, done[r] + 1, Stage("length") + 1, Took("sized"))
      /\ \A d \in Ranks : PostsNone(r, d, done[r] + 1, Least(at[r]), Least("sized"))
  BY <1>3, <1>5, NoStages
<1>8. /\ Took(at[r]) <= Stage("length") /\ Stage("length") < Took("sized")
      /\ Most(at[r]) <= Most("sized")
  BY <1>5
<1> HIDE DEF e
<1>9. QED
  BY <1>1, <1>2, <1>3, <1>4, <1>6, <1>7, <1>8, TakeStep

\* The object that arrives is that of the preceding rank.
LEMMA ObjectHead ==
  ASSUME NEW r \in Ranks, Ready(r), TakeObject(r)
  PROVE  \E i : /\ Travels(program, Preceding(r), i, r, done[r] + 1, "object")
                /\ Head(channel[Preceding(r)][r]).kind = "object"
                /\ Sent(program, Preceding(r), r, i, Head(channel[Preceding(r)][r]))
<1>1. Call(r).op \in Rings /\ at[r] = "object" /\ Arrived(Preceding(r), r)
  BY DEF TakeObject, In
<1>2. Preceding(r) \in Ranks /\ Awaiting(r, Preceding(r), "object") /\ "object" \in Kinds
  BY <1>1, Neighbours DEF Awaiting, Kinds
<1>3. Took(at[r]) = 1 /\ Stage("object") = 1
  BY <1>1 DEF Took, Stage
<1>4. QED
  BY <1>1, <1>2, <1>3, HeadOf, NoStages

LEMMA TakeObjectInOrder ==
  ASSUME NEW r \in Ranks, Ready(r), TakeObject(r)
  PROVE  ChannelInv'
<1>1. TypeInv /\ TypeInv' /\ InPhase /\ ChannelInv /\ Running(r) /\ at[r] # "failed" /\ OthersStay(r)
  BY DEF Ready
<1> DEFINE e == Preceding(r)
<1>2. PICK i : /\ Travels(program, e, i, r, done[r] + 1, "object")
               /\ Head(channel[e][r]).kind = "object"
  BY ObjectHead
<1>3. /\ Call(r).op \in Rings /\ at[r] = "object" /\ done' = done
      /\ channel[e][r] # <<>> /\ channel' = Taken(e, r) /\ at'[r] \in {"sent", "failed"} /\ e \in Ranks
  <2>1. at \in [Ranks -> Places]
    BY <1>1 DEF TypeInv, Types
  <2>2. at'[r] \in {"sent", "failed"}
    BY <2>1 DEF TakeObject, Goto
  <2>3. QED
    BY <2>2, Neighbours DEF TakeObject, In, Arrived
<1>4. /\ Most(at[r]) = 2 /\ Least(at[r]) = 2 /\ Took(at[r]) = 1 /\ Stage("object") = 1
      /\ Most("sent") = 2 /\ Least("sent") = 2 /\ Took("sent") = 2
      /\ Most("failed") = 2 /\ Least("failed") = 1
  BY <1>3 DEF Most, Least, Took, Stage
<1>5. CASE at'[r] = "sent"
  <2>1. MovesTo(r, "sent")
    BY <1>1, <1>3, <1>5 DEF MovesTo
  <2>0. ASSUME NEW s \in Ranks, NEW g, NEW kind, Travels(program, s, g, r, done[r] + 1, kind)
        PROVE  Stage(kind) = 0 \/ s = e
    BY <1>1, <1>3, <2>0, RingTakes
  <2>2. \A s \in Ranks \ {e} : TakesNone(s, r, done[r] + 1, Took(at[r]), Took("sent"))
    BY <1>4, <2>0 DEF TakesNone
  <2>3. /\ TakesNone(e, r, done[r] + 1, Took(at[r]), Stage("object"))
        /\ TakesNone(e, r, done[r] + 1, Stage("object") + 1, Took("sent"))
        /\ \A d \in Ranks : PostsNone(r, d, done[r] + 1, Least(at[r]), Least("sent"))
    BY <1>3, <1>4, NoStages
  <2>4. /\ Took(at[r]) <= Stage("object") /\ Stage("object") < Took("sent")
        /\ Most(at[r]) <= Most("sent")
    BY <1>4
  <2> HIDE DEF e
  <2>5. QED
    BY <1>1, <1>2, <1>3, <2>1, <2>2, <2>3, <2>4, TakeStep
<1>6. CASE at'[r] = "failed"
  <2>1. MovesTo(r, "failed")
    BY <1>1, <1>3, <1>6 DEF MovesTo
  <2>2. ChannelsStay
    <3>1. channel \in [Ranks -> [Ranks -> Seq(Messages)]]
      BY <1>1 DEF TypeInv, Types
    <3>2. QED
      BY <1>3, <1>6, <3>1 DEF ChannelsStay, Taken
  <2>3. \A d \in Ranks : PostsNone(r, d, done[r] + 1, Least(at[r]), Least("failed"))
    BY <1>4, NoStages
  <2>4. QED
    BY <1>1, <1>4, <2>1, <2>2, <2>3, QuietStep
<1>7. QED
  BY <1>3, <1>5, <1>6

\* Where a header comes from
LEMMA SourceOf ==
  ASSUME TypeInv, NEW r \in Ranks, Running(r), Call(r).op \in {"print", "recv"}, at[r] \in {"header", "data"}
  PROVE  /\ Source(r) \in Ranks
         /\ Awaiting(r, Source(r), "header")
         /\ Call(r).op = "recv" => Awaiting(r, Source(r), "data")
         /\ \A s \in Ranks : \A kind : Awaiting(r, s, kind) => s = Source(r)
<1>1. Call(r) \in Calls /\ Expected(r, at[r])
  BY TypedCall DEF TypeInv, PlaceOf
<1>2. CASE Call(r).op = "print"
  <2>1. Prints(r) /\ Position(r) # 1
    BY <1>1, <1>2 DEF Expected
  <2>2. Before(r) \in Ranks
    BY <1>1, <1>2, <2>1, BeforeAndAfter
  <2>3. QED
    BY <1>2, <2>1, <2>2 DEF Source, Awaiting, Rings
<1>3. CASE Call(r).op = "recv"
  <2>1. Call(r).peer \in Ranks
    BY <1>1, <1>3, CallTypes
  <2>2. QED
    BY <1>3, <2>1 DEF Source, Awaiting, Rings
<1>4. QED
  BY <1>2, <1>3

\* The other side of recv() is send(), whose object is not empty.
LEMMA SenderOf ==
  ASSUME TypeInv, NEW r \in Ranks, Running(r), NEW s \in Ranks, NEW i, NEW kind,
         Travels(program, s, i, r, done[r] + 1, kind)
  PROVE  /\ Call(r).op = "recv" => program[s][i].op = "send" /\ program[s][i].len \in Nat \ {0}
         /\ Call(r).op = "print" => program[s][i].op = "print"
         /\ Call(r).op \in Rings => program[s][i].op = Call(r).op
<1>1. Programmed /\ done[r] + 1 \in DOMAIN program[r] /\ Call(r) = program[r][done[r] + 1]
  BY TypedCall
<1>2. /\ i \in DOMAIN program[s] /\ Pair(s, i, r, done[r] + 1)
      /\ program[s][i].op \in Together \cup {"send"}
      /\ program[s][i].op \notin Together => program[s][i].op = "send" /\ program[s][i].peer = r
  BY <1>1, TravelsIs, DueOp DEF Travels
<1>3. program[s][i] \in Calls
  BY <1>1, <1>2, CallOf
<1>4. CASE program[s][i].op \in Together
  <2>1. Call(r).op = program[s][i].op
    BY <1>1, <1>2, <1>4, TogetherSides
  <2>2. QED
    BY <1>4, <2>1 DEF Together, Rings
<1>5. CASE program[s][i].op = "send"
  <2>1. Sides(s, program[s][i], r, Call(r))
    BY <1>1, <1>2, <1>5, PairSides DEF Together, Rings
  <2>2. Call(r).op = "recv"
    BY <1>5, <2>1 DEF Sides, Together, Rings
  <2>3. program[s][i].len \in Nat \ {0}
    BY <1>3, <1>5, CallTypes
  <2>4. QED
    BY <1>5, <2>2, <2>3 DEF Rings
<1>6. QED
  BY <1>2, <1>4, <1>5

\* A header that arrives: of a message with data for recv(), without for print().
LEMMA HeaderHead ==
  ASSUME NEW r \in Ranks, Ready(r), TakeHeader(r)
  PROVE  LET s == Source(r)
             m == Head(channel[s][r])
         IN  /\ s \in Ranks
             /\ \E i : /\ Travels(program, s, i, r, done[r] + 1, "header")
                       /\ Sent(program, s, r, i, m)
                       /\ Call(r).op = "recv" => m.number = program[s][i].len
             /\ m.kind = "header"
             /\ Call(r).op = "recv" => m.number # 0
             /\ Call(r).op = "print" => m.number = 0
<1> DEFINE s == Source(r)
           m == Head(channel[s][r])
<1>1. Call(r).op \in {"print", "recv"} /\ at[r] = "header" /\ Arrived(s, r) /\ TypeInv /\ Running(r)
  BY DEF TakeHeader, In, Ready
<1>2. s \in Ranks /\ Awaiting(r, s, "header") /\ "header" \in Kinds
  BY <1>1, SourceOf DEF Kinds
<1>3. Took(at[r]) = 0 /\ Stage("header") = 0
  BY <1>1 DEF Took, Stage
<1>4. PICK i : /\ Travels(program, s, i, r, done[r] + 1, "header") /\ m.kind = "header"
               /\ Sent(program, s, r, i, m)
  BY <1>1, <1>2, <1>3, HeadOf, NoStages
<1>5. /\ Call(r).op = "recv" => program[s][i].op = "send" /\ program[s][i].len \in Nat \ {0}
      /\ Call(r).op = "print" => program[s][i].op = "print"
  BY <1>1, <1>2, <1>4, SenderOf
<1>6. m.number = IF program[s][i].op = "send" THEN program[s][i].len ELSE 0
  BY <1>4 DEF Sent
<1>7. QED
  BY <1>2, <1>4, <1>5, <1>6

LEMMA TakeHeaderInOrder ==
  ASSUME NEW r \in Ranks, Ready(r), TakeHeader(r)
  PROVE  ChannelInv'
<1>1. TypeInv /\ TypeInv' /\ InPhase /\ ChannelInv /\ Running(r) /\ at[r] # "failed" /\ OthersStay(r)
  BY DEF Ready
<1> DEFINE e == Source(r)
           m == Head(channel[e][r])
<1>2. /\ e \in Ranks /\ m.kind = "header"
      /\ Call(r).op = "recv" => m.number # 0
      /\ Call(r).op = "print" => m.number = 0
      /\ \E i : Travels(program, e, i, r, done[r] + 1, "header")
  BY HeaderHead
<1>3. PICK i : Travels(program, e, i, r, done[r] + 1, "header")
  BY <1>2
<1>4. /\ Call(r).op \in {"print", "recv"} /\ at[r] = "header" /\ done' = done
      /\ channel[e][r] # <<>> /\ channel' = Taken(e, r)
  BY DEF TakeHeader, In, Arrived
<1>5. at'[r] = IF Call(r).op = "recv" THEN "data" ELSE "turn"
  <2>1. at \in [Ranks -> Places]
    BY <1>1 DEF TypeInv, Types
  <2>2. CASE Call(r).op = "recv"
    <3>1. Goto(r, "data")
      BY <1>2, <2>2 DEF TakeHeader
    <3>2. QED
      BY <2>1, <2>2, <3>1 DEF Goto
  <2>3. CASE Call(r).op = "print"
    <3>1. Received(r, m)
      BY <1>2, <2>3 DEF TakeHeader
    <3>2. Goto(r, "turn")
      BY <2>3, <3>1 DEF Received
    <3>3. QED
      BY <2>1, <2>3, <3>2 DEF Goto
  <2>4. QED
    BY <1>4, <2>2, <2>3
<1> DEFINE place == IF Call(r).op = "recv" THEN "data" ELSE "turn"
<1>6. MovesTo(r, place)
  BY <1>1, <1>4, <1>5 DEF MovesTo
<1>7. /\ Most(at[r]) = 0 /\ Least(at[r]) = 0 /\ Took(at[r]) = 0 /\ Stage("header") = 0
      /\ Most(place) = 0 /\ Least(place) = 0 /\ Took(place) = IF Call(r).op = "recv" THEN 1 ELSE 2
  BY <1>4 DEF Most, Least, Took, Stage
<1> HIDE DEF place
<1>8. ASSUME NEW s \in Ranks, NEW g, NEW kind, Travels(program, s, g, r, done[r] + 1, kind)
      PROVE  s = e /\ (Call(r).op = "print" => Stage(kind) = 0)
  <2>1. Awaiting(r, s, kind)
    BY <1>1, <1>8, TakesWhat
  <2>2. s = e
    BY <1>1, <1>4, <2>1, SourceOf
  <2>3. QED
    BY <2>1, <2>2 DEF Awaiting, Stage, Rings
<1>9. \A s \in Ranks \ {e} : TakesNone(s, r, done[r] + 1, Took(at[r]), Took(place))
  BY <1>8 DEF TakesNone
<1>10. TakesNone(e, r, done[r] + 1, Stage("header") + 1, Took(place))
  <2>1. CASE Call(r).op = "recv"
    BY <1>7, <2>1, NoStages
  <2>2. CASE Call(r).op # "recv"
    BY <1>2, <1>4, <1>7, <1>8, <2>2 DEF TakesNone
  <2>3. QED
    BY <2>1, <2>2
<1>11. /\ TakesNone(e, r, done[r] + 1, Took(at[r]), Stage("header"))
       /\ \A d \in Ranks : PostsNone(r, d, done[r] + 1, Least(at[r]), Least(place))
  BY <1>2, <1>7, NoStages
<1>12. /\ Took(at[r]) <= Stage("header") /\ Stage("header") < Took(place)
       /\ Most(at[r]) <= Most(place)
  BY <1>7
<1> HIDE DEF e
<1>13. QED
  BY <1>1, <1>2, <1>3, <1>4, <1>6, <1>9, <1>10, <1>11, <1>12, TakeStep

\* The data that arrives fits what its header announced.
LEMMA DataHead ==
  ASSUME NEW r \in Ranks, Ready(r), RoomOf(r), TakeData(r)
  PROVE  LET s == Source(r)
             m == Head(channel[s][r])
         IN  /\ s \in Ranks /\ Call(r).op = "recv"
             /\ \E i : /\ Travels(program, s, i, r, done[r] + 1, "data")
                       /\ Sent(program, s, r, i, m)
             /\ m.kind = "data"
             /\ ~ (m.bytes > room[r])
<1> DEFINE s == Source(r)
           m == Head(channel[s][r])
<1>1. /\ Call(r).op \in {"print", "recv"} /\ at[r] = "data" /\ Arrived(s, r) /\ TypeInv /\ Running(r)
  BY DEF TakeData, In, Ready
<1>2. Call(r).op = "recv" /\ Call(r).peer = s
  BY <1>1 DEF RoomOf, Source
<1>3. s \in Ranks /\ Awaiting(r, s, "data") /\ "data" \in Kinds
  BY <1>1, <1>2, SourceOf DEF Kinds
<1>4. Took(at[r]) = 1 /\ Stage("data") = 1
  BY <1>1 DEF Took, Stage
<1>5. PICK i : /\ Travels(program, s, i, r, done[r] + 1, "data") /\ m.kind = "data"
               /\ Sent(program, s, r, i, m)
  BY <1>1, <1>3, <1>4, HeadOf, NoStages
<1>6. /\ i \in DOMAIN program[s] /\ Pair(r, done[r] + 1, s, i)
  <2>1. Programmed
    BY <1>1, TypedCall
  <2>2. QED
    BY <1>3, <1>5, <2>1, TravelsIs, PairTurned
<1>7. room[r] = program[s][i].len
  BY <1>1, <1>2, <1>6 DEF RoomOf
<1>8. m.bytes = program[s][i].len
  BY <1>5 DEF Sent
<1>9. room[r] \in Nat
  BY <1>1 DEF TypeInv, Types
<1>10. QED
  BY <1>2, <1>3, <1>5, <1>7, <1>8, <1>9

LEMMA TakeDataInOrder ==
  ASSUME NEW r \in Ranks, Ready(r), RoomOf(r), TakeData(r)
  PROVE  ChannelInv'
<1>1. TypeInv /\ TypeInv' /\ InPhase /\ ChannelInv /\ Running(r) /\ at[r] # "failed" /\ OthersStay(r)
  BY DEF Ready
<1> DEFINE e == Source(r)
           m == Head(channel[e][r])
<1>2. /\ e \in Ranks /\ Call(r).op = "recv" /\ ~ (m.bytes > room[r])
      /\ \E i : Travels(program, e, i, r, done[r] + 1, "data")
  BY DataHead
<1>3. PICK i : Travels(program, e, i, r, done[r] + 1, "data")
  BY <1>2
<1>4. /\ at[r] = "data" /\ done' = done /\ channel[e][r] # <<>> /\ channel' = Taken(e, r)
      /\ Received(r, m)
  BY <1>2 DEF TakeData, In, Arrived
<1>5. at'[r] = "sent"
  <2>1. at \in [Ranks -> Places]
    BY <1>1 DEF TypeInv, Types
  <2>2. QED
    BY <1>2, <1>4, <2>1 DEF Received, Goto
<1>6. MovesTo(r, "sent")
  BY <1>1, <1>4, <1>5 DEF MovesTo
<1>7. /\ Most(at[r]) = 0 /\ Least(at[r]) = 0 /\ Took(at[r]) = 1 /\ Stage("data") = 1
      /\ Most("sent") = 2 /\ Least("sent") = 2 /\ Took("sent") = 2
  BY <1>4 DEF Most, Least, Took, Stage
<1>8. \A s \in Ranks \ {e} : TakesNone(s, r, done[r] + 1, Took(at[r]), Took("sent"))
  <2>1. ASSUME NEW s \in Ranks, NEW g, NEW kind, Travels(program, s, g, r, done[r] + 1, kind)
        PROVE  s = e
    <3>1. Awaiting(r, s, kind)
      BY <1>1, <2>1, TakesWhat
    <3>2. QED
      BY <1>1, <1>2, <1>4, <3>1, SourceOf
  <2>2. QED
    BY <2>1 DEF TakesNone
<1>9. /\ TakesNone(e, r, done[r] + 1, Took(at[r]), Stage("data"))
      /\ TakesNone(e, r, done[r] + 1, Stage("data") + 1, Took("sent"))
  BY <1>2, <1>7, NoStages
<1>10. \A d \in Ranks : PostsNone(r, d, done[r] + 1, Least(at[r]), Least("sent"))
  BY <1>1, <1>2, PostsWhat DEF PostsNone, Posting, Rings
<1>11. /\ Took(at[r]) <= Stage("data") /\ Stage("data") < Took("sent")
       /\ Most(at[r]) <= Most("sent")
  BY <1>7
<1> HIDE DEF e
<1>12. QED
  BY <1>1, <1>2, <1>3, <1>4, <1>6, <1>8, <1>9, <1>10, <1>11, TakeStep

\* A step that posts and takes nothing, to a place where nothing is due before
LEMMA QuietInOrder ==
  ASSUME NEW r \in Ranks, Ready(r), NEW place, at'[r] = place, done' = done, channel' = channel,
         place # "failed", at[r] \in {"call", "barrier", "between", "turn"},
         Most(at[r]) <= Most(place), Took(at[r]) <= Took(place),
         \A d \in Ranks : PostsNone(r, d, done[r] + 1, Least(at[r]), Least(place)),
         \A s \in Ranks : TakesNone(s, r, done[r] + 1, Took(at[r]), Took(place))
  PROVE  ChannelInv'
<1>1. TypeInv /\ TypeInv' /\ InPhase /\ ChannelInv /\ Running(r) /\ at[r] # "failed" /\ OthersStay(r)
  BY DEF Ready
<1>2. MovesTo(r, place) /\ ChannelsStay
  BY <1>1 DEF MovesTo, ChannelsStay
<1>3. QED
  BY <1>1, <1>2, QuietStep

LEMMA PostureInOrder ==
  ASSUME NEW r \in Ranks, Ready(r), Call(r).op = "print", at[r] \in {"call", "barrier"},
         at'[r] = Posture(r), done' = done, channel' = channel
  PROVE  ChannelInv'
<1>1. TypeInv /\ Running(r)
  BY DEF Ready
<1>2. /\ Most(at[r]) = 0 /\ Least(at[r]) = 0 /\ Took(at[r]) = 0
      /\ Most("sent") = 2 /\ Least("sent") = 2 /\ Took("sent") = 2
      /\ Most("turn") = 0 /\ Least("turn") = 0 /\ Took("turn") = 2
      /\ Most("header") = 0 /\ Least("header") = 0 /\ Took("header") = 0
  BY DEF Most, Least, Took
<1>3. CASE ~ Prints(r)
  <2>1. at'[r] = "sent"
    BY <1>3 DEF Posture
  <2>2. \A d \in Ranks : PostsNone(r, d, done[r] + 1, 0, 2)
    BY <1>1, <1>3, PostsWhat DEF PostsNone, Posting, Rings
  <2>3. \A s \in Ranks : TakesNone(s, r, done[r] + 1, 0, 2)
    BY <1>1, <1>3, TakesWhat DEF TakesNone, Awaiting, Rings
  <2>4. QED
    BY <1>2, <2>1, <2>2, <2>3, QuietInOrder
<1>4. CASE Prints(r) /\ Position(r) = 1
  <2>1. at'[r] = "turn"
    BY <1>4 DEF Posture
  <2>2. \A d \in Ranks : PostsNone(r, d, done[r] + 1, 0, 0)
    BY NoStages
  <2>3. \A s \in Ranks : TakesNone(s, r, done[r] + 1, 0, 2)
    BY <1>1, <1>4, TakesWhat DEF TakesNone, Awaiting, Rings
  <2>4. QED
    BY <1>2, <2>1, <2>2, <2>3, QuietInOrder
<1>5. CASE Prints(r) /\ Position(r) # 1
  <2>1. at'[r] = "header"
    BY <1>5 DEF Posture
  <2>2. \A d \in Ranks : PostsNone(r, d, done[r] + 1, 0, 0) /\ TakesNone(d, r, done[r] + 1, 0, 0)
    BY NoStages
  <2>3. QED
    BY <1>2, <2>1, <2>2, QuietInOrder
<1>6. QED
  BY <1>3, <1>4, <1>5

LEMMA WaitingInOrder ==
  ASSUME NEW r \in Ranks, Ready(r), at[r] = "call", at'[r] \in {"header", "barrier", "between"},
         done' = done, channel' = channel
  PROVE  ChannelInv'
<1> DEFINE place == at'[r]
<1>1. /\ Most(at[r]) = 0 /\ Least(at[r]) = 0 /\ Took(at[r]) = 0
      /\ Most(place) = 0 /\ Least(place) = 0 /\ Took(place) = 0 /\ place # "failed"
  BY DEF Most, Least, Took
<1>2. \A d \in Ranks : PostsNone(r, d, done[r] + 1, 0, 0) /\ TakesNone(d, r, done[r] + 1, 0, 0)
  BY NoStages
<1>3. QED
  BY <1>1, <1>2, QuietInOrder

LEMMA WriteBarrierInOrder ==
  ASSUME NEW r \in Ranks, Ready(r), WriteBarrier(r)
  PROVE  ChannelInv'
<1>1. TypeInv /\ Running(r)
  BY DEF Ready
<1>2. /\ Call(r).op = "write" /\ at[r] = "between" /\ done' = done /\ channel' = channel
      /\ at'[r] \in {"sent", "call"}
  <2>1. at \in [Ranks -> Places]
    BY <1>1 DEF TypeInv, Types
  <2>2. QED
    BY <2>1 DEF WriteBarrier, In, Goto
<1>3. /\ Most(at[r]) = 0 /\ Least(at[r]) = 0 /\ Took(at[r]) = 0
      /\ Most("sent") = 2 /\ Least("sent") = 2 /\ Took("sent") = 2
      /\ Most("call") = 0 /\ Least("call") = 0 /\ Took("call") = 0
  BY <1>2 DEF Most, Least, Took
<1>4. \A d \in Ranks : \A a, b \in 0..2 :
         PostsNone(r, d, done[r] + 1, a, b) /\ TakesNone(d, r, done[r] + 1, a, b)
  BY <1>1, <1>2, PostsWhat, TakesWhat DEF PostsNone, TakesNone, Posting, Awaiting, Rings
<1>5. CASE at'[r] = "sent"
  BY <1>2, <1>3, <1>4, <1>5, QuietInOrder
<1>6. CASE at'[r] = "call"
  BY <1>2, <1>3, <1>4, <1>6, QuietInOrder
<1>7. QED
  BY <1>2, <1>5, <1>6

LEMMA PrintOutInOrder ==
  ASSUME NEW r \in Ranks, Ready(r), PrintOut(r)
  PROVE  ChannelInv'
<1>1. TypeInv /\ TypeInv' /\ InPhase /\ ChannelInv /\ Running(r) /\ at[r] # "failed" /\ OthersStay(r)
  BY DEF Ready
<1>2. /\ Call(r).op = "print" /\ at[r] = "turn" /\ done' = done /\ at'[r] = "sent" /\ Prints(r)
  <2>1. at \in [Ranks -> Places] /\ Expected(r, at[r])
    BY <1>1 DEF TypeInv, Types, PlaceOf
  <2>2. QED
    BY <2>1 DEF PrintOut, In, Goto, Expected
<1>3. /\ Most(at[r]) = 0 /\ Least(at[r]) = 0 /\ Took(at[r]) = 2
      /\ Most("sent") = 2 /\ Least("sent") = 2 /\ Took("sent") = 2
  BY <1>2 DEF Most, Least, Took
<1>4. ASSUME NEW d \in Ranks, NEW j, NEW kind, Travels(program, r, done[r] + 1, d, j, kind)
      PROVE  kind = "header" /\ ~ Final(r) /\ d = After(r)
  BY <1>1, <1>2, <1>4, PostsWhat DEF Posting, Rings
<1>5. \A s \in Ranks : TakesNone(s, r, done[r] + 1, Took(at[r]), Took("sent"))
  BY <1>3, NoStages
<1>6. CASE Final(r)
  <2>1. channel' = channel
    BY <1>6 DEF PrintOut
  <2>2. \A d \in Ranks : PostsNone(r, d, done[r] + 1, Least(at[r]), Least("sent"))
    BY <1>4, <1>6 DEF PostsNone
  <2>3. QED
    BY <1>2, <1>3, <1>5, <2>1, <2>2, QuietInOrder
<1>7. CASE ~ Final(r)
  <2> DEFINE e == After(r)
             m == Message(r, "header", HeaderBytes, 0)
  <2>1. channel' = Posted(r, e, m)
    BY <1>7 DEF PrintOut
  <2>2. MovesTo(r, "sent") /\ e \in Ranks
    BY <1>1, <1>2, <1>7, TypedCall, BeforeAndAfter DEF MovesTo
  <2>3. m \in Messages /\ m.kind = "header" /\ Sent(program, r, e, done[r] + 1, m)
        /\ \E j : Travels(program, r, done[r] + 1, e, j, m.kind)
    <3>1. Posting(r, e, "header") /\ "header" \in Kinds /\ HeaderBytes \in Nat
      BY <1>2, <1>7 DEF Posting, Kinds, HeaderBytes
    <3>2. QED
      BY <1>1, <1>2, <2>2, <3>1, WhatIsSent
  <2> HIDE DEF m
  <2>4. PICK j : Travels(program, r, done[r] + 1, e, j, m.kind)
    BY <2>3
  <2>5. Stage(m.kind) = 0
    BY <2>3 DEF Stage
  <2>6. \A d \in Ranks \ {e} : PostsNone(r, d, done[r] + 1, Least(at[r]), Least("sent"))
    BY <1>4 DEF PostsNone
  <2>7. /\ PostsNone(r, e, done[r] + 1, Least(at[r]), Stage(m.kind))
        /\ PostsNone(r, e, done[r] + 1, Stage(m.kind) + 1, Least("sent"))
    <3>1. Stage("header") = 0
      BY DEF Stage
    <3>2. QED
      BY <1>3, <1>4, <2>2, <2>5, <3>1, NoStages DEF PostsNone
  <2>8. /\ Most(at[r]) <= Stage(m.kind) /\ Stage(m.kind) < Most("sent")
        /\ Took(at[r]) <= Took("sent") /\ "sent" # "failed"
    BY <1>3, <2>5
  <2> HIDE DEF e
  <2>9. QED
    BY <1>1, <1>5, <2>1, <2>2, <2>3, <2>4, <2>6, <2>7, <2>8, PostStep
<1>8. QED
  BY <1>6, <1>7

\* A call that returns leaves its times to the next one.
LEMMA LeaveInOrder ==
  ASSUME NEW r \in Ranks, Ready(r), Leave(r)
  PROVE  ChannelInv'
<1>1. TypeInv /\ ChannelInv /\ OthersStay(r) /\ done[r] \in Nat
  BY DEF Ready, TypeInv, Types
<1>2. /\ at[r] = "sent" /\ at'[r] = "call" /\ done'[r] = done[r] + 1 /\ channel' = channel
      /\ program' = program
  BY <1>1 DEF Leave, Done, Goto, TypeInv, Types
<1>3. AtMost(r)' = AtMost(r) /\ AtLeast(r)' = AtLeast(r) /\ Taking(r)' = Taking(r)
  BY <1>1, <1>2 DEF AtMost, AtLeast, Taking, Most, Least, Took
<1>4. \A q \in Ranks : /\ AtMost(q)' = AtMost(q) /\ AtLeast(q)' = AtLeast(q) /\ Taking(q)' = Taking(q)
                       /\ at'[q] # "failed" => at[q] # "failed"
  <2>1. \A q \in Ranks : q # r => /\ AtMost(q)' = AtMost(q) /\ AtLeast(q)' = AtLeast(q)
                                  /\ Taking(q)' = Taking(q) /\ at'[q] = at[q]
    BY <1>1 DEF OthersStay, AtMost, AtLeast, Taking
  <2>2. QED
    BY <1>2, <1>3, <2>1
<1>5. QED
  BY <1>1, <1>2, <1>4 DEF ChannelInv

LEMMA StepKeepsChannels ==
  ASSUME TypeInv, TypeInv', InPhase, ChannelInv, NEW r \in Ranks, RoomOf(r), Step(r)
  PROVE  ChannelInv'
<1>1. Ready(r)
  <2>1. Running(r) /\ at[r] # "failed"
    BY DEF Step, SendLength, TakeLength, SendObject, TakeObject, SendHeader, SendData, RecvStart,
           PrintStart, PrintBarrier, TakeHeader, TakeData, PrintOut, WriteTurn, WriteBarrier, Leave, In
  <2>2. QED
    BY <2>1, OnlyOneMoves DEF Ready
<1>2. at \in [Ranks -> Places]
  BY DEF TypeInv, Types
<1>3. CASE RecvStart(r)
  BY <1>1, <1>2, <1>3, WaitingInOrder DEF RecvStart, In, Goto
<1>4. CASE WriteTurn(r)
  BY <1>1, <1>2, <1>4, WaitingInOrder DEF WriteTurn, In, Goto
<1>5. CASE PrintStart(r)
  <2>1. CASE Call(r).barrier
    BY <1>1, <1>2, <1>5, <2>1, WaitingInOrder DEF PrintStart, In, Goto
  <2>2. CASE ~ Call(r).barrier
    BY <1>1, <1>2, <1>5, <2>2, PostureInOrder DEF PrintStart, In, Goto
  <2>3. QED
    BY <2>1, <2>2
<1>6. CASE PrintBarrier(r)
  BY <1>1, <1>2, <1>6, PostureInOrder DEF PrintBarrier, In, Goto
<1>7. QED
  BY <1>1, <1>3, <1>4, <1>5, <1>6, SendLengthInOrder, TakeLengthInOrder, SendObjectInOrder,
     TakeObjectInOrder, SendHeaderInOrder, SendDataInOrder, TakeHeaderInOrder, TakeDataInOrder,
     PrintOutInOrder, WriteBarrierInOrder, LeaveInOrder DEF Step

------------------------------------------------------------------------------
(* Rooms, and why a rank fails                                             *)

\* The partner is the same call of the other rank.
LEMMA PartnerIs ==
  ASSUME Programmed, NEW r \in Ranks, NEW q \in Ranks, NEW i, NEW j, Pair(r, i, q, j)
  PROVE  Partner(r, q, i) = j
<1>1. i \in DOMAIN program[r] /\ j \in DOMAIN program[q] /\ program[q][j].id = program[r][i].id
  BY DEF Pair
<1>2. \A k \in DOMAIN program[q] : program[q][k].id = program[r][i].id => k = j
  BY <1>1, OnePair DEF Pair
<1>3. QED
  BY <1>1, <1>2 DEF Partner

\* What the room of a rank depends on
LEMMA RoomStays ==
  ASSUME NEW q \in Ranks, RoomOf(q), program' = program,
         done'[q] = done[q], at'[q] = at[q], room'[q] = room[q]
  PROVE  RoomOf(q)'
BY ZenonT(40) DEF RoomOf, Capacity, Fits, Partner, Call, Pair

LEMMA NoRoom ==
  ASSUME NEW q \in Ranks, at'[q] \notin {"sized", "object", "data", "failed"}
  PROVE  RoomOf(q)'
BY DEF RoomOf

\* The length that arrives is that of the object for which there will be room.
LEMMA TakeLengthMakesRoom ==
  ASSUME NEW r \in Ranks, Ready(r), TakeLength(r)
  PROVE  RoomOf(r)'
<1> DEFINE s == Following(r)
           m == Head(channel[s][r])
           n == done[r] + 1
<1>1. PICK i : /\ Travels(program, s, i, r, n, "length") /\ m.kind = "length"
               /\ Sent(program, s, r, i, m)
  BY LengthHead
<1>2. /\ TypeInv /\ Running(r) /\ Call(r).op \in Rings \ Vectors /\ at[r] = "length" /\ program' = program
  BY DEF Ready, TakeLength, In
<1>3. /\ Programmed /\ n \in DOMAIN program[r] /\ Call(r) = program[r][n] /\ s \in Ranks
  BY <1>2, TypedCall, Neighbours
<1>4. /\ room'[r] = Room(r, m.number) /\ at'[r] = "sized" /\ done' = done
  BY <1>1, <1>2 DEF TakeLength, Goto, TypeInv, Types
<1>5. m.number = program[s][i].len
  BY <1>1 DEF Sent
<1>6. Pair(s, i, r, n) /\ i \in DOMAIN program[s]
  BY <1>1, <1>3, TravelsIs
<1>7. Partner(r, s, n) = i
  BY <1>3, <1>6, PairTurned, PartnerIs
<1>8. Room(r, m.number) = Capacity(r, n)
  <2>1. CASE Call(r).op \in Replaces
    BY <1>3, <2>1 DEF Room, Capacity, Replaces
  <2>2. CASE Call(r).op = "sendrecv"
    BY <1>3, <1>5, <1>7, <2>2 DEF Room, Capacity, Replaces
  <2>3. QED
    BY <1>2, <2>1, <2>2 DEF Rings, Vectors, Replaces
<1>9. (room'[r] = Capacity(r, n)) /\ Capacity(r, n)' = Capacity(r, n)
  BY <1>2, <1>4, <1>8 DEF Capacity, Partner
<1>10. QED
  BY <1>4, <1>9 DEF RoomOf

\* The object goes out when neither its length nor the room is too long.
LEMMA SendObjectMakesRoom ==
  ASSUME NEW r \in Ranks, Ready(r), RoomOf(r), SendObject(r)
  PROVE  RoomOf(r)'
<1> DEFINE n == done[r] + 1
<1>1. /\ TypeInv /\ Running(r) /\ Call(r).op \in Rings /\ program' = program /\ done' = done
      /\ (at[r] = "sized" /\ Call(r).op \in Rings \ Vectors) \/ (at[r] = "call" /\ Call(r).op \in Vectors)
  BY DEF Ready, SendObject, In, Rings, Vectors
<1>2. Call(r) = program[r][n] /\ Call(r) \in Calls /\ Programmed /\ n \in DOMAIN program[r]
  BY <1>1, TypedCall
<1>3. Buffer(r) = Capacity(r, n)
  <2>1. CASE Call(r).op \in Vectors
    BY <1>2, <2>1 DEF Buffer, Capacity, Vectors, Replaces
  <2>2. CASE Call(r).op \in Rings \ Vectors
    BY <1>1, <2>2 DEF RoomOf, Buffer, Rings, Vectors
  <2>3. QED
    BY <1>1, <2>1, <2>2
<1>4. room'[r] = Capacity(r, n)
  BY <1>3 DEF SendObject, Ready, TypeInv, Types
<1>5. Capacity(r, n)' = Capacity(r, n)
  BY <1>1 DEF Capacity, Partner
<1>6. CASE Call(r).len > MaxLen \/ Buffer(r) > MaxLen
  <2>1. at'[r] = "failed"
    BY <1>6 DEF SendObject, Goto, Ready, TypeInv, Types
  <2>2. Call(r).len \in Nat
    BY <1>1, <1>2, CallTypes
  <2>3. room'[r] \in Nat
    BY DEF Ready, TypeInv, Types
  <2>4. Capacity(r, n) \in Nat
    BY <1>4, <2>3
  <2>5. ~ (Call(r).len <= MaxLen /\ Capacity(r, n) <= MaxLen)
    BY <1>3, <1>6, <2>2, <2>4, MaxLenAssumption
  <2>6. ~ Fits(r, n)
    BY <1>2, <2>5 DEF Fits
  <2>7. Fits(r, n)' = Fits(r, n) /\ Call(r)' = Call(r)
    BY <1>1, <1>5 DEF Fits, Partner, Call
  <2>8. QED
    BY <1>1, <2>1, <2>6, <2>7 DEF RoomOf
<1>7. CASE ~ (Call(r).len > MaxLen \/ Buffer(r) > MaxLen)
  <2>1. at'[r] = "object"
    BY <1>7 DEF SendObject, Goto, Ready, TypeInv, Types
  <2>2. QED
    BY <1>1, <1>4, <1>5, <2>1 DEF RoomOf
<1>8. QED
  BY <1>6, <1>7

\* An object that is truncated is the preceding rank's, and longer than the room.
LEMMA TakeObjectMakesRoom ==
  ASSUME NEW r \in Ranks, Ready(r), RoomOf(r), TakeObject(r)
  PROVE  RoomOf(r)'
<1> DEFINE s == Preceding(r)
           m == Head(channel[s][r])
           n == done[r] + 1
<1>1. PICK i : /\ Travels(program, s, i, r, n, "object") /\ m.kind = "object"
               /\ Sent(program, s, r, i, m)
  BY ObjectHead
<1>2. /\ TypeInv /\ Running(r) /\ Call(r).op \in Rings /\ at[r] = "object" /\ program' = program
      /\ done' = done
  BY DEF Ready, TakeObject, In
<1>3. /\ Programmed /\ n \in DOMAIN program[r] /\ Call(r) = program[r][n] /\ s \in Ranks
  BY <1>2, TypedCall, Neighbours
<1>4. Pair(s, i, r, n) /\ i \in DOMAIN program[s]
  BY <1>1, <1>3, TravelsIs
<1>5. Partner(r, s, n) = i
  BY <1>3, <1>4, PairTurned, PartnerIs
<1>6. m.bytes = program[s][i].len
  BY <1>1 DEF Sent
<1>7. room[r] = Capacity(r, n) /\ room[r] \in Nat
  BY <1>2 DEF RoomOf, TypeInv, Types
<1>8. program[s][i].len \in Nat
  <2>1. program[s][i].op \in Rings
    BY <1>1 DEF Travels, Due
  <2>2. QED
    BY <1>3, <1>4, <2>1, CallOf, CallTypes
<1>9. CASE m.bytes > room[r]
  <2>1. at'[r] = "failed"
    BY <1>9 DEF TakeObject, Goto, Ready, TypeInv, Types
  <2>2. ~ (program[s][Partner(r, s, n)].len <= Capacity(r, n))
    BY <1>5, <1>6, <1>7, <1>8, <1>9
  <2>3. ~ Fits(r, n)
    BY <2>2 DEF Fits
  <2>4. Fits(r, n)' = Fits(r, n) /\ Call(r)' = Call(r)
    BY <1>2 DEF Fits, Partner, Call, Capacity
  <2>5. QED
    BY <1>2, <2>1, <2>3, <2>4 DEF RoomOf
<1>10. CASE ~ (m.bytes > room[r])
  <2>1. at'[r] = "sent"
    BY <1>1, <1>10 DEF TakeObject, Goto, Ready, TypeInv, Types
  <2>2. QED
    BY <2>1, NoRoom
<1>11. QED
  BY <1>9, <1>10

\* The header says how long the data is.
LEMMA TakeHeaderMakesRoom ==
  ASSUME NEW r \in Ranks, Ready(r), TakeHeader(r)
  PROVE  RoomOf(r)'
<1> DEFINE s == Source(r)
           m == Head(channel[s][r])
           n == done[r] + 1
<1>1. /\ TypeInv /\ Running(r) /\ Call(r).op \in {"print", "recv"} /\ program' = program /\ done' = done
      /\ at \in [Ranks -> Places] /\ room \in [Ranks -> Nat]
  BY DEF Ready, TakeHeader, In, TypeInv, Types
<1>2. /\ s \in Ranks /\ m.kind = "header"
      /\ Call(r).op = "recv" => m.number # 0
      /\ Call(r).op = "print" => m.number = 0
  BY HeaderHead
<1>3. PICK i : /\ Travels(program, s, i, r, n, "header")
               /\ Sent(program, s, r, i, m)
               /\ Call(r).op = "recv" => m.number = program[s][i].len
  BY HeaderHead
<1>4. CASE Call(r).op = "print"
  <2>1. at'[r] = "turn"
    BY <1>1, <1>2, <1>4 DEF TakeHeader, Received, Goto
  <2>2. QED
    BY <2>1, NoRoom
<1>5. CASE Call(r).op = "recv"
  <2>1. at'[r] = "data" /\ room'[r] = m.number
    BY <1>1, <1>2, <1>5 DEF TakeHeader, Goto
  <2>2. /\ Programmed /\ n \in DOMAIN program[r] /\ Call(r) = program[r][n] /\ s = Call(r).peer
    BY <1>1, <1>5, TypedCall DEF Source
  <2>3. Pair(s, i, r, n) /\ i \in DOMAIN program[s]
    BY <1>2, <1>3, <2>2, TravelsIs
  <2>4. \A j \in DOMAIN program[s] : Pair(r, n, s, j) => j = i
    <3>1. Pair(r, n, s, i)
      BY <2>3, PairTurned
    <3>2. SUFFICES ASSUME NEW j \in DOMAIN program[s], Pair(r, n, s, j) PROVE j = i
      OBVIOUS
    <3> HIDE DEF n, s
    <3>3. QED
      BY <1>2, <2>2, <2>3, <3>1, <3>2, OnePair
  <2>5. Call(r)' = Call(r)
    BY <1>1 DEF Call
  <2>6. QED
    BY <1>1, <1>3, <1>5, <2>1, <2>2, <2>4, <2>5 DEF RoomOf, Pair
<1>6. QED
  BY <1>1, <1>4, <1>5

LEMMA StepKeepsRoom ==
  ASSUME NEW r \in Ranks, Ready(r), NEW q \in Ranks, RoomOf(q), RoomOf(r), Step(r)
  PROVE  RoomOf(q)'
<1>1. OthersStay(r) /\ at \in [Ranks -> Places]
  BY DEF Ready, TypeInv, Types
<1>2. CASE q # r
  BY <1>1, <1>2, RoomStays DEF OthersStay
<1>3. CASE q = r
  <2>1. CASE TakeData(r)
    <3>1. Call(r).op = "recv" /\ ~ (Head(channel[Source(r)][r]).bytes > room[r])
      BY <2>1, DataHead
    <3>2. at'[r] = "sent"
      BY <1>1, <2>1, <3>1 DEF TakeData, Received, Goto
    <3>3. QED
      BY <1>3, <3>2, NoRoom
  <2>2. CASE \/ SendLength(r) \/ SendHeader(r) \/ SendData(r) \/ RecvStart(r) \/ PrintStart(r)
             \/ PrintBarrier(r) \/ PrintOut(r) \/ WriteTurn(r) \/ WriteBarrier(r) \/ Leave(r)
    <3>1. at'[r] \in {"length", "announced", "sent", "header", "barrier", "turn", "between", "call"}
      BY <1>1, <2>2 DEF SendLength, SendHeader, SendData, RecvStart, PrintStart, PrintBarrier,
         PrintOut, WriteTurn, WriteBarrier, Leave, Goto, Done, Posture
    <3>2. QED
      BY <1>3, <3>1, NoRoom
  <2>3. QED
    BY <1>3, <2>1, <2>2, TakeLengthMakesRoom, SendObjectMakesRoom, TakeObjectMakesRoom,
       TakeHeaderMakesRoom DEF Step
<1>4. QED
  BY <1>2, <1>3

------------------------------------------------------------------------------
(* What the calls return                                                   *)

LEMMA ReturnsStay ==
  ASSUME NEW q \in Ranks, ReturnedOf(q), program' = program, returned'[q] = returned[q]
  PROVE  ReturnedOf(q)'
BY DEF ReturnedOf, Result

\* A call that returns what the rank it names sent it returns its result.
LEMMA ReturnsResult ==
  ASSUME NEW r \in Ranks, Ready(r), ReturnedOf(r), Return(r, Result(Call(r), r))
  PROVE  ReturnedOf(r)'
<1> DEFINE n == done[r] + 1
           new == [id |-> Call(r).id, value |-> Result(Call(r), r)]
           old == returned[r]
<1>1. /\ TypeInv /\ Running(r) /\ program' = program
      /\ returned \in [Ranks -> Seq([id : Nat, value : Ranks \X Nat])]
  BY DEF Ready, OthersStay, TypeInv, Types
<1>2. returned'[r] = Append(old, new)
  BY <1>1 DEF Return
<1>3. n \in DOMAIN program[r] /\ Call(r) = program[r][n]
  BY <1>1, TypedCall
<1>4. old \in Seq([id : Nat, value : Ranks \X Nat])
  BY <1>1
<1>5. ASSUME NEW k \in 1..Len(returned'[r])
      PROVE  \E i \in DOMAIN program[r] :
               /\ returned'[r][k].id = program[r][i].id
               /\ returned'[r][k].value = Result(program[r][i], r)
  <2>1. CASE k = Len(old) + 1
    <3>1. returned'[r][k] = new
      BY <1>2, <1>4, <2>1
    <3>2. returned'[r][k].id = program[r][n].id /\ returned'[r][k].value = Result(program[r][n], r)
      BY <1>3, <3>1
    <3>3. QED
      BY <1>3, <3>2
  <2>2. CASE k # Len(old) + 1
    <3> HIDE DEF new
    <3>1. k \in 1..Len(old) /\ returned'[r][k] = old[k]
      BY <1>2, <1>4, <1>5, <2>2
    <3>2. QED
      BY <3>1 DEF ReturnedOf
  <2>3. QED
    BY <2>1, <2>2
<1>6. QED
  BY <1>1, <1>5 DEF ReturnedOf, Result

\* Where a message of the present call comes from
LEMMA FromIs ==
  ASSUME TypeInv, NEW r \in Ranks, Running(r), NEW s \in Ranks, NEW i, NEW m, NEW kind,
         Travels(program, s, i, r, done[r] + 1, kind), Sent(program, s, r, i, m),
         s = IF Call(r).op \in Rings THEN Preceding(r) ELSE Call(r).peer
  PROVE  m.from = Result(Call(r), r)
<1>1. Programmed /\ done[r] + 1 \in DOMAIN program[r] /\ Call(r) = program[r][done[r] + 1]
  BY TypedCall
<1>2. program[s][i].id = Call(r).id
  BY <1>1 DEF Travels
<1>3. QED
  BY <1>2 DEF Sent, Result

LEMMA StepKeepsReturned ==
  ASSUME NEW r \in Ranks, Ready(r), NEW q \in Ranks, ReturnedOf(q), RoomOf(r), Step(r)
  PROVE  ReturnedOf(q)'
<1>1. /\ OthersStay(r) /\ program' = program /\ TypeInv /\ Running(r)
  BY DEF Ready, OthersStay
<1>2. CASE q # r \/ returned' = returned
  BY <1>1, <1>2, ReturnsStay DEF OthersStay
<1>3. CASE q = r /\ TakeObject(r)
  <2> DEFINE s == Preceding(r)
             m == Head(channel[s][r])
  <2>1. CASE returned' = returned
    BY <1>1, <1>3, <2>1, ReturnsStay
  <2>2. CASE Return(r, m.from)
    <3>1. PICK i : Travels(program, s, i, r, done[r] + 1, "object") /\ Sent(program, s, r, i, m)
      BY <1>3, ObjectHead
    <3>2. Call(r).op \in Rings /\ s \in Ranks
      BY <1>3, Neighbours DEF TakeObject, In
    <3>3. m.from = Result(Call(r), r)
      BY <1>1, <3>1, <3>2, FromIs
    <3>4. QED
      BY <1>3, <2>2, <3>3, ReturnsResult
  <2>3. QED
    BY <1>3, <2>1, <2>2 DEF TakeObject
<1>4. CASE q = r /\ TakeHeader(r)
  <2>1. /\ Call(r).op \in {"print", "recv"} /\ Head(channel[Source(r)][r]).kind = "header"
        /\ Call(r).op = "recv" => Head(channel[Source(r)][r]).number # 0
    BY <1>4, HeaderHead DEF TakeHeader, In
  <2>2. returned' = returned
    BY <1>4, <2>1 DEF TakeHeader, Received
  <2>3. QED
    BY <1>1, <1>4, <2>2, ReturnsStay
<1>5. CASE q = r /\ TakeData(r)
  <2> DEFINE s == Source(r)
             m == Head(channel[s][r])
  <2>1. s \in Ranks /\ Call(r).op = "recv" /\ ~ (m.bytes > room[r])
    BY <1>5, DataHead
  <2>2. PICK i : Travels(program, s, i, r, done[r] + 1, "data") /\ Sent(program, s, r, i, m)
    BY <1>5, DataHead
  <2>3. s = Call(r).peer /\ Call(r).op \notin Rings
    BY <2>1 DEF Source, Rings
  <2>4. m.from = Result(Call(r), r)
    BY <1>1, <2>1, <2>2, <2>3, FromIs
  <2>5. Return(r, m.from)
    BY <1>5, <2>1 DEF TakeData, Received
  <2>6. QED
    BY <1>5, <2>4, <2>5, ReturnsResult
<1>6. CASE \/ SendLength(r) \/ TakeLength(r) \/ SendObject(r) \/ SendHeader(r) \/ SendData(r)
           \/ RecvStart(r) \/ PrintStart(r) \/ PrintBarrier(r) \/ PrintOut(r) \/ WriteTurn(r)
           \/ WriteBarrier(r) \/ Leave(r)
  <2>1. returned' = returned
    BY <1>6 DEF SendLength, TakeLength, SendObject, SendHeader, SendData, RecvStart, PrintStart,
       PrintBarrier, PrintOut, WriteTurn, WriteBarrier, Leave
  <2>2. QED
    BY <1>2, <2>1
<1>7. QED
  BY <1>2, <1>3, <1>4, <1>5, <1>6 DEF Step

\* Every call returns what the rank it names passed to the same call.
LEMMA ReturnedIsDelivered ==
  ASSUME TypeInv, InPhase => \A r \in Ranks : ReturnedOf(r)
  PROVE  Delivered
<1> SUFFICES ASSUME InPhase, NEW r \in Ranks, NEW k \in 1..Len(returned[r])
             PROVE  LET i == CHOOSE i \in DOMAIN program[r] : program[r][i].id = returned[r][k].id
                        c == program[r][i]
                    IN  returned[r][k].value = <<IF c.op \in Rings THEN Preceding(r) ELSE c.peer, c.id>>
  BY DEF Delivered
<1> DEFINE h == CHOOSE i \in DOMAIN program[r] : program[r][i].id = returned[r][k].id
<1>1. PICK i \in DOMAIN program[r] :
         /\ returned[r][k].id = program[r][i].id
         /\ returned[r][k].value = Result(program[r][i], r)
  BY DEF ReturnedOf
<1>2. h \in DOMAIN program[r] /\ program[r][h].id = program[r][i].id
  BY <1>1
<1>3. h = i
  BY <1>2 DEF TypeInv, Types, Matched
<1>4. QED
  BY <1>1, <1>3 DEF Result

LEMMA FailuresAreOfLength ==
  ASSUME InPhase => \A r \in Ranks : RoomOf(r)
  PROVE  FailsOnlyOnLength
BY DEF FailsOnlyOnLength, RoomOf

------------------------------------------------------------------------------
(* The output                                                              *)

\* A rank prints in one step only.
LEMMA PrintedTheSame ==
  ASSUME NEW r \in Ranks, Ready(r), RoomOf(r), Step(r), ~ PrintOut(r),
         NEW q \in Ranks, NEW j \in DOMAIN program[q]
  PROVE  Printed(q, j)' <=> Printed(q, j)
<1>1. /\ OthersStay(r) /\ program' = program /\ TypeInv /\ Running(r)
      /\ at \in [Ranks -> Places] /\ done \in [Ranks -> Nat]
  BY DEF Ready, OthersStay, TypeInv, Types
<1>2. CASE q # r
  BY <1>1, <1>2 DEF OthersStay, Printed
<1>3. j \in Nat /\ done[r] \in Nat /\ Programmed /\ Call(r) = program[r][done[r] + 1]
  BY <1>1, TypedCall, CallOf
<1>4. CASE q = r /\ Leave(r)
  <2>1. at[r] = "sent" /\ done'[r] = done[r] + 1 /\ at'[r] = "call"
    BY <1>1, <1>4 DEF Leave, Done, Goto
  <2>2. j <= done[r] + 1 <=> j <= done[r] \/ j = done[r] + 1
    BY <1>3
  <2>3. QED
    BY <1>1, <1>4, <2>1, <2>2 DEF Printed
<1>5. CASE q = r /\ ~ Leave(r)
  <2>1. done' = done /\ at[r] # "sent"
    BY <1>5 DEF Step, SendLength, TakeLength, SendObject, TakeObject, SendHeader, SendData, RecvStart,
       PrintStart, PrintBarrier, TakeHeader, TakeData, PrintOut, WriteTurn, WriteBarrier, In, Goto
  <2>2. at'[r] = "sent" => Call(r).op # "print" \/ ~ Prints(r)
    <3>1. CASE Call(r).op = "print"
      <4>1. PrintStart(r) \/ PrintBarrier(r) \/ TakeHeader(r) \/ TakeData(r)
        BY <1>5, <3>1 DEF Step, SendLength, TakeLength, SendObject, TakeObject, SendHeader, SendData,
           RecvStart, WriteTurn, WriteBarrier, In, Rings, Vectors
      <4>2. CASE PrintStart(r) \/ PrintBarrier(r)
        BY <1>1, <4>2 DEF PrintStart, PrintBarrier, Goto, Posture
      <4>3. CASE TakeHeader(r)
        <5>1. Head(channel[Source(r)][r]).kind = "header" /\ Head(channel[Source(r)][r]).number = 0
          BY <3>1, <4>3, HeaderHead
        <5>2. QED
          BY <1>1, <3>1, <4>3, <5>1 DEF TakeHeader, Received, Goto
      <4>4. CASE TakeData(r)
        BY <3>1, <4>4, DataHead
      <4>5. QED
        BY <4>1, <4>2, <4>3, <4>4
    <3>2. QED
      BY <3>1
  <2>3. QED
    BY <1>1, <1>3, <1>5, <2>1, <2>2 DEF Printed, Prints
<1>6. QED
  BY <1>2, <1>4, <1>5

\* More lines do no harm.
LEMMA LinesStand ==
  ASSUME NEW S, NEW o \in Seq(S), NEW e \in S, NEW c, NEW r, NEW n \in Nat, NEW m \in Nat,
         n <= m, n <= Len(o)
  PROVE  /\ LinesBefore(o, c, r, n) => LinesBefore(Append(o, e), c, r, m)
         /\ LinesUpTo(o, c, r, n) => LinesUpTo(Append(o, e), c, r, m)
<1>1. \A k \in 1..n : k \in 1..m /\ Append(o, e)[k] = o[k]
  OBVIOUS
<1>2. \A j : Stands(o, c, j, n) => Stands(Append(o, e), c, j, m)
  BY <1>1 DEF Stands
<1>3. QED
  BY <1>2 DEF LinesBefore, LinesUpTo

\* The line of the rank itself completes those before it.
LEMMA OneMoreLine ==
  ASSUME NEW r \in Ranks, NEW c \in Calls, c.op = "print", NEW o \in Seq(Nat \X Ranks),
         LinesBefore(o, c, r, Len(o))
  PROVE  LinesUpTo(Append(o, <<c.id, r>>), c, r, Len(o) + 1)
<1> DEFINE new == Append(o, <<c.id, r>>)
           n == Len(o)
<1>1. n \in Nat /\ c.id \in Nat /\ <<c.id, r>> \in Nat \X Ranks
  BY CallTypes
<1>2. /\ new[n + 1] = <<c.id, r>>
  BY <1>1
<1>3. Order(c) \in Seq(Ranks)
  BY OrderHasNoRepeats
<1>4. ASSUME NEW j \in 1..Len(Order(c)), NEW k \in 1..Len(Order(c)), j <= k, Order(c)[k] = r
      PROVE  Stands(new, c, j, n + 1)
  <2>1. CASE j = k
    <3>1. new[n + 1] = <<c.id, Order(c)[j]>> /\ n + 1 \in 1..(n + 1)
      BY <1>1, <1>2, <1>4, <2>1
    <3>2. QED
      BY <3>1 DEF Stands
  <2>2. CASE j # k
    <3>1. j < k
      BY <1>3, <1>4, <2>2
    <3>2. Stands(o, c, j, n)
      BY <1>4, <3>1 DEF LinesBefore
    <3>3. PICK l \in 1..n : o[l] = <<c.id, Order(c)[j]>>
      BY <3>2 DEF Stands
    <3>4. l \in 1..(n + 1) /\ new[l] = o[l]
      BY <1>1, <3>3
    <3>5. QED
      BY <3>3, <3>4 DEF Stands
  <2>3. QED
    BY <2>1, <2>2
<1>5. QED
  BY <1>4 DEF LinesUpTo

\* The first rank waits for nobody, and another for the one before it.
LEMMA FirstLine ==
  ASSUME NEW r \in Ranks, Call(r) \in Calls, Call(r).op = "print", Prints(r), Position(r) = 1,
         NEW o, NEW n
  PROVE  LinesBefore(o, Call(r), r, n)
<1>1. /\ \A k \in 1..Len(Order(Call(r))) : Order(Call(r))[k] = r => k = 1
      /\ Order(Call(r)) \in Seq(Ranks)
  BY PositionOf
<1>2. QED
  BY <1>1 DEF LinesBefore
LEMMA NextLine ==
  ASSUME NEW r \in Ranks, Call(r) \in Calls, Call(r).op = "print", Prints(r), Position(r) # 1,
         NEW o, NEW n, LinesUpTo(o, Call(r), Before(r), n)
  PROVE  LinesBefore(o, Call(r), r, n) /\ Contains(Order(Call(r)), Before(r))
<1> DEFINE w == Order(Call(r))
           l == Position(r)
<1>1. /\ \A k \in 1..Len(w) : w[k] = r => k = l
      /\ w \in Seq(Ranks) /\ l \in 1..Len(w)
  BY PositionOf
<1> HIDE DEF w, l
<1>2. l - 1 \in 1..Len(w) /\ w[l - 1] = Before(r)
  BY <1>1 DEF w, l, Before
<1>3. ASSUME NEW j \in 1..Len(w), NEW k \in 1..Len(w), j < k, w[k] = r
      PROVE  Stands(o, Call(r), j, n)
  <2>1. k = l /\ j <= l - 1
    BY <1>1, <1>3
  <2>2. QED
    BY <1>2, <2>1 DEF LinesUpTo, w
<1>4. Contains(w, Before(r))
  BY <1>1, <1>2 DEF Contains
<1>5. QED
  BY <1>3, <1>4 DEF LinesBefore, w

\* A rank that gets its turn gets it from one that has printed.
LEMMA BeforeHasPrinted ==
  ASSUME NEW r \in Ranks, Ready(r), TakeHeader(r), Call(r).op = "print", \A q \in Ranks : RoomOf(q)
  PROVE  /\ Before(r) \in Ranks /\ Prints(r) /\ Position(r) # 1
         /\ \E i \in DOMAIN program[Before(r)] :
              program[Before(r)][i] = Call(r) /\ Printed(Before(r), i)
<1> DEFINE s == Before(r)
           n == done[r] + 1
<1>1. /\ TypeInv /\ InPhase /\ ChannelInv /\ Running(r) /\ at[r] = "header" /\ Source(r) = s
      /\ Arrived(s, r) /\ PlaceOf(r) /\ at[r] # "failed"
  BY DEF Ready, TakeHeader, In, Source, TypeInv
<1>2. /\ Programmed /\ n \in DOMAIN program[r] /\ Call(r) = program[r][n] /\ Call(r) \in Calls
      /\ Prints(r) /\ Position(r) # 1
  BY <1>1, TypedCall DEF PlaceOf, Expected
<1>3. s \in Ranks /\ Awaiting(r, s, "header") /\ "header" \in Kinds
  BY <1>1, SourceOf DEF Kinds
<1>4. Took(at[r]) = 0 /\ Stage("header") = 0
  BY <1>1 DEF Took, Stage
<1>5. PICK i : Travels(program, s, i, r, n, "header")
  BY <1>1, <1>3, AwaitingTravels
<1>6. Time(i, "header") < AtMost(s)
  BY <1>1, <1>3, <1>4, <1>5, HeadIs, NoStages DEF Arrived
<1>7. /\ i \in DOMAIN program[s] /\ i \in Nat /\ Pair(s, i, r, n)
  BY <1>2, <1>3, <1>5, TravelsIs
<1>8. program[s][i] = Call(r)
  <2>1. Pair(r, n, s, i) /\ program[r][n].op \in Together \ Rings
    BY <1>2, <1>7, PairTurned DEF Together, Rings
  <2>2. QED
    BY <1>2, <1>3, <1>7, <2>1, TogetherSides
<1>9. Contains(Order(Call(r)), s)
  <2> DEFINE w == Order(Call(r))
             l == Position(r)
  <2>1. w \in Seq(Ranks) /\ l \in 1..Len(w)
    BY <1>2, PositionOf
  <2> HIDE DEF w, l
  <2>2. l - 1 \in 1..Len(w) /\ w[l - 1] = s
    BY <1>2, <2>1 DEF w, l, Before
  <2>3. Contains(w, s)
    BY <2>1, <2>2 DEF Contains
  <2>4. QED
    BY <2>3 DEF w
<1>10. i <= done[s] \/ (i = done[s] + 1 /\ at[s] = "sent")
  <2> DEFINE m == Most(at[s])
             d == done[s]
  <2>1. m \in 0..2 /\ d \in Nat /\ 2 * i < 2 * (d + 1) + m
    <3>1. Time(i, "header") = 2 * i
      BY <1>4, <1>7 DEF Time
    <3>2. QED
      BY <1>1, <1>3, <1>6, <3>1, Stages, Times DEF AtMost
  <2>2. CASE i <= d
    BY <2>2
  <2>3. CASE ~ (i <= d)
    <3> HIDE DEF m, d
    <3>1. i = d + 1 /\ m # 0
      BY <1>7, <2>1, <2>3
    <3>2. Running(s) /\ Call(s) = program[s][i]
      BY <1>2, <1>3, <1>7, <2>1, <3>1, CallOf DEF Running, Call, d, Programmed
    <3>3. Call(s).op = "print" /\ at[s] \in PlacesOf(Call(s))
      BY <1>1, <1>2, <1>3, <1>8, <3>2 DEF TypeInv, PlaceOf
    <3>4. at[s] \in {"sent", "failed"}
      BY <3>1, <3>3 DEF m, PlacesOf, Most, Rings, Vectors
    <3>5. at[s] # "failed"
      BY <1>3, <3>3 DEF RoomOf, Rings
    <3>6. QED
      BY <3>1, <3>4, <3>5 DEF d
  <2>4. QED
    BY <2>2, <2>3
<1>11. Printed(s, i)
  BY <1>7, <1>8, <1>9, <1>10 DEF Printed
<1>12. QED
  BY <1>2, <1>3, <1>7, <1>8, <1>11

\* A rank gets its turn when the lines before its own are out.
LEMMA TurnIsDue ==
  ASSUME NEW r \in Ranks, Ready(r), OutInv, \A q \in Ranks : RoomOf(q), Step(r), at'[r] = "turn"
  PROVE  LinesBefore(out, Call(r), r, Len(out))
<1>1. TypeInv /\ Running(r) /\ at \in [Ranks -> Places]
  BY DEF Ready, TypeInv, Types
<1>2. Call(r) \in Calls
  BY <1>1, TypedCall
<1>3. PrintStart(r) \/ PrintBarrier(r) \/ TakeHeader(r) \/ TakeData(r)
  BY <1>1 DEF Step, SendLength, TakeLength, SendObject, TakeObject, SendHeader, SendData, RecvStart,
     PrintOut, WriteTurn, WriteBarrier, Leave, Goto, Done
<1>4. CASE PrintStart(r) \/ PrintBarrier(r)
  <2>1. Call(r).op = "print" /\ Prints(r) /\ Position(r) = 1
    BY <1>1, <1>4 DEF PrintStart, PrintBarrier, In, Goto, Posture
  <2>2. QED
    BY <1>2, <2>1, FirstLine
<1>5. CASE TakeHeader(r)
  <2>1. Call(r).op = "print"
    BY <1>1, <1>5 DEF TakeHeader, In, Received, Goto
  <2>2. PICK i \in DOMAIN program[Before(r)] :
           program[Before(r)][i] = Call(r) /\ Printed(Before(r), i)
    BY <1>5, <2>1, BeforeHasPrinted
  <2>3. Before(r) \in Ranks /\ Prints(r) /\ Position(r) # 1
    BY <1>5, <2>1, BeforeHasPrinted
  <2>4. LinesUpTo(out, Call(r), Before(r), Len(out))
    BY <2>2, <2>3 DEF OutInv
  <2>5. QED
    BY <1>2, <2>1, <2>3, <2>4, NextLine
<1>6. CASE TakeData(r)
  <2>1. Call(r).op = "recv"
    BY <1>6, DataHead
  <2>2. QED
    BY <1>1, <1>6, <2>1 DEF TakeData, Received, Goto
<1>7. QED
  BY <1>3, <1>4, <1>5, <1>6

\* A step without output
LEMMA QuietKeepsOutput ==
  ASSUME NEW r \in Ranks, Ready(r), OutInv, \A q \in Ranks : RoomOf(q), Step(r), ~ PrintOut(r)
  PROVE  OutInv'
<1>1. /\ OthersStay(r) /\ program' = program /\ TypeInv /\ Running(r)
  BY DEF Ready, OthersStay
<1>2. out' = out
  BY DEF Step, SendLength, TakeLength, SendObject, TakeObject, SendHeader, SendData, RecvStart,
     PrintStart, PrintBarrier, TakeHeader, TakeData, WriteTurn, WriteBarrier, Leave
<1>3. \A n \in 1..Len(out') : LineIsDue(program', out', n)
  BY <1>1, <1>2 DEF OutInv
<1>4. ASSUME NEW q \in Ranks, NEW i \in DOMAIN program[q], Printed(q, i)'
      PROVE  LinesUpTo(out, program[q][i], q, Len(out))
  <2>1. Printed(q, i)
    BY <1>4, PrintedTheSame
  <2>2. QED
    BY <2>1 DEF OutInv
<1>5. ASSUME NEW q \in Ranks, at'[q] = "turn"
      PROVE  LinesBefore(out, Call(q)', q, Len(out))
  <2>1. CASE q # r
    BY <1>1, <1>5, <2>1 DEF OutInv, OthersStay, Call
  <2>2. CASE q = r
    <3>1. LinesBefore(out, Call(r), r, Len(out))
      BY <1>5, <2>2, TurnIsDue
    <3>2. done' = done
      BY <1>5, <2>2 DEF Ready, TypeInv, Types, Step, SendLength, TakeLength, SendObject, TakeObject,
         SendHeader, SendData, RecvStart, PrintStart, PrintBarrier, TakeHeader, TakeData, PrintOut,
         WriteTurn, WriteBarrier, Leave, Done, Goto
    <3>3. QED
      BY <1>1, <2>2, <3>1, <3>2 DEF Call
  <2>3. QED
    BY <2>1, <2>2
<1>6. QED
  BY <1>1, <1>2, <1>3, <1>4, <1>5 DEF OutInv

\* The step with output
LEMMA PrintKeepsOutput ==
  ASSUME NEW r \in Ranks, Ready(r), OutInv, PrintOut(r)
  PROVE  OutInv'
<1> DEFINE c == Call(r)
           n == Len(out)
           e == <<c.id, r>>
           i == done[r] + 1
<1>1. /\ OthersStay(r) /\ program' = program /\ TypeInv /\ Running(r) /\ at[r] = "turn"
      /\ c.op = "print" /\ out' = Append(out, e) /\ at'[r] = "sent" /\ done' = done
      /\ out \in Seq(Nat \X Ranks) /\ done \in [Ranks -> Nat]
  BY DEF Ready, OthersStay, PrintOut, In, Goto, TypeInv, Types
<1>2. c \in Calls /\ i \in DOMAIN program[r] /\ c = program[r][i] /\ Programmed
  BY <1>1, TypedCall
<1>3. e \in Nat \X Ranks /\ n \in Nat
  BY <1>1, <1>2, CallTypes
<1>4. LinesBefore(out, c, r, n)
  BY <1>1 DEF OutInv
<1>5. Len(out') = n + 1 /\ out'[n + 1] = e /\ \A k \in 1..n : out'[k] = out[k]
  <2> HIDE DEF e
  <2>1. QED
    BY <1>1, <1>3
<1> HIDE DEF e, c
<1>6. ASSUME NEW k \in 1..(n + 1)
      PROVE  LineIsDue(program, out', k)
  <2>1. CASE k \in 1..n
    <3>1. LineIsDue(program, out, k) /\ out'[k] = out[k]
      BY <1>5, <2>1 DEF OutInv
    <3>2. PICK h \in DOMAIN program[out[k][2]] :
            /\ program[out[k][2]][h].op = "print" /\ program[out[k][2]][h].id = out[k][1]
            /\ LinesBefore(out, program[out[k][2]][h], out[k][2], k - 1)
      BY <3>1 DEF LineIsDue
    <3>3. k - 1 \in Nat /\ k - 1 <= Len(out) /\ k - 1 <= k - 1
      BY <1>3, <2>1
    <3>4. LinesBefore(out', program[out[k][2]][h], out[k][2], k - 1)
      <4> DEFINE m == k - 1
                 d == program[out[k][2]][h]
                 s == out[k][2]
      <4>1. m \in Nat /\ m <= Len(out) /\ m <= m /\ LinesBefore(out, d, s, m)
        BY <3>2, <3>3
      <4> HIDE DEF m, d, s
      <4>2. LinesBefore(out', d, s, m)
        BY <1>1, <1>3, <4>1, LinesStand
      <4>3. QED
        BY <4>2 DEF m, d, s
    <3>5. QED
      BY <3>1, <3>2, <3>4 DEF LineIsDue
  <2>2. CASE k = n + 1
    <3>1. out'[k][2] = r /\ out'[k][1] = c.id /\ k - 1 = n
      BY <1>3, <1>5, <2>2 DEF e
    <3>2. LinesBefore(out', c, r, n)
      BY <1>1, <1>3, <1>4, LinesStand
    <3>3. QED
      BY <1>1, <1>2, <3>1, <3>2 DEF LineIsDue
  <2>3. QED
    BY <1>3, <2>1, <2>2
<1>7. ASSUME NEW q \in Ranks, NEW h \in DOMAIN program[q], Printed(q, h)'
      PROVE  LinesUpTo(out', program[q][h], q, n + 1)
  <2>1. CASE Printed(q, h)
    <3>1. LinesUpTo(out, program[q][h], q, n)
      BY <2>1 DEF OutInv
    <3>2. QED
      BY <1>1, <1>3, <3>1, LinesStand, SMTT(30)
  <2>2. CASE ~ Printed(q, h)
    <3>1. q = r /\ h = i
      BY <1>1, <1>7, <2>2 DEF Printed, OthersStay
    <3>2. program[q][h] = c
      BY <1>2, <3>1
    <3>3. LinesUpTo(out', c, r, n + 1)
      BY <1>1, <1>2, <1>4, OneMoreLine DEF e
    <3>4. QED
      BY <3>1, <3>2, <3>3
  <2>3. QED
    BY <2>1, <2>2
<1>8. ASSUME NEW q \in Ranks, at'[q] = "turn"
      PROVE  LinesBefore(out', Call(q)', q, n + 1)
  <2>1. q # r
    BY <1>1, <1>8
  <2>2. at[q] = "turn" /\ Call(q)' = Call(q)
    BY <1>1, <1>8, <2>1 DEF OthersStay, Call
  <2>3. LinesBefore(out, Call(q), q, n)
    BY <2>2 DEF OutInv
  <2>4. LinesBefore(out', Call(q), q, n + 1)
    BY <1>1, <1>3, <2>3, LinesStand
  <2>5. QED
    BY <2>2, <2>4
<1>9. QED
  BY <1>1, <1>5, <1>6, <1>7, <1>8 DEF OutInv

------------------------------------------------------------------------------
(* The script                                                              *)

AllLines == Seq(Nat \X Ranks)

LEMMA LinesOfACall ==
  ASSUME NEW c \in Calls
  PROVE  /\ Lines(c) \in AllLines
         /\ c.op = "print" => /\ Len(Lines(c)) = Len(Order(c))
                              /\ \A k \in 1..Len(Order(c)) : Lines(c)[k] = <<c.id, Order(c)[k]>>
<1>1. CASE c.op = "print"
  <2> DEFINE n == Len(Order(c))
  <2>1. Order(c) \in Seq(Ranks) /\ c.id \in Nat /\ n \in Nat
    BY <1>1, OrderHasNoRepeats, CallTypes
  <2>2. Lines(c) = [k \in 1..n |-> <<c.id, Order(c)[k]>>]
    BY <1>1 DEF Lines
  <2>3. \A k \in 1..n : <<c.id, Order(c)[k]>> \in Nat \X Ranks
    BY <2>1
  <2> HIDE DEF n
  <2>4. Lines(c) \in AllLines /\ Len(Lines(c)) = n
    BY <2>1, <2>2, <2>3 DEF AllLines
  <2>5. QED
    BY <2>2, <2>4 DEF n
<1>2. CASE c.op # "print"
  BY <1>2 DEF Lines, AllLines
<1>3. QED
  BY <1>1, <1>2

LEMMA Joined ==
  ASSUME NEW a \in AllLines, NEW b \in AllLines
  PROVE  /\ a \o b \in AllLines /\ Len(a \o b) = Len(a) + Len(b)
         /\ \A i \in 1..Len(a) : (a \o b)[i] = a[i]
         /\ \A i \in 1..Len(b) : (a \o b)[Len(a) + i] = b[i]
BY DEF AllLines

\* The script is defined by induction, like the barriers.
LEMMA ScriptGrows ==
  ASSUME NEW s \in Seq(Calls)
  PROVE  /\ ScriptOf(s, 0) = <<>>
         /\ \A n \in 0..Len(s) : ScriptOf(s, n) \in AllLines
         /\ \A n \in 1..Len(s) : ScriptOf(s, n) = ScriptOf(s, n - 1) \o Lines(s[n])
<1> DEFINE N == Len(s)
           step == [k \in 1..N |-> [b \in AllLines |-> b \o Lines(s[k])]]
<1>1. N \in Nat /\ <<>> \in AllLines /\ \A k \in 1..N : Lines(s[k]) \in AllLines
  BY LinesOfACall DEF AllLines
<1>2. step \in [1..N -> [AllLines -> AllLines]]
  BY <1>1, Joined
<1>3. PICK f \in [0..N -> AllLines] : Follows(f, N, <<>>, step)
  <2> HIDE DEF step, N
  <2> QED
    BY <1>1, <1>2, Recursion
<1>4. f = [k \in 0..N |-> IF k = 0 THEN <<>> ELSE f[k - 1] \o Lines(s[k])]
  <2>1. \A k \in 0..N : k # 0 => k \in 1..N /\ f[k - 1] \in AllLines
    <3>1. \A k \in 0..N : k # 0 => k \in 1..N /\ k - 1 \in 0..N
      BY <1>1
    <3> HIDE DEF N
    <3>2. QED
      BY <1>3, <3>1
  <2>2. \A k \in 0..N : k # 0 => step[k][f[k - 1]] = f[k - 1] \o Lines(s[k])
    BY <2>1
  <2>3. f = [k \in 0..N |-> IF k = 0 THEN <<>> ELSE step[k][f[k - 1]]]
    BY <1>3 DEF Follows
  <2> HIDE DEF step, N
  <2>4. \A k \in 0..N : f[k] = IF k = 0 THEN <<>> ELSE f[k - 1] \o Lines(s[k])
    BY <2>2, <2>3
  <2>5. f = [k \in 0..N |-> f[k]]
    BY <1>3
  <2>6. QED
    BY <2>4, <2>5
<1>5. PICK g : /\ g = [k \in 0..N |-> IF k = 0 THEN <<>> ELSE g[k - 1] \o Lines(s[k])]
               /\ \A n \in 0..N : ScriptOf(s, n) = g[n]
  <2>1. \E g : g = [k \in 0..N |-> IF k = 0 THEN <<>> ELSE g[k - 1] \o Lines(s[k])]
    BY <1>4
  <2>2. QED
    BY <2>1 DEF ScriptOf
<1>6. g[0] = <<>> /\ \A n \in 1..N : g[n] = g[n - 1] \o Lines(s[n])
  BY <1>1, <1>5
<1> DEFINE Good == {k \in Nat : k <= N => g[k] \in AllLines}
<1>7. 0 \in Good
  BY <1>1, <1>6
<1>8. ASSUME NEW k \in Nat, k \in Good PROVE k + 1 \in Good
  <2>1. SUFFICES ASSUME k + 1 <= N PROVE g[k + 1] \in AllLines
    OBVIOUS
  <2>2. k + 1 \in 1..N /\ (k + 1) - 1 = k /\ g[k] \in AllLines
    BY <1>1, <1>8, <2>1
  <2>3. g[k + 1] = g[k] \o Lines(s[k + 1])
    BY <1>6, <2>2
  <2>4. QED
    BY <1>1, <2>2, <2>3, Joined
<1>9. \A k \in Nat : k \in Good
  <2> HIDE DEF Good
  <2> QED
    BY <1>7, <1>8, Induct
<1>10. \A n \in 0..N : g[n] \in AllLines
  BY <1>1, <1>9
<1>11. \A n \in 1..N : n \in 0..N /\ n - 1 \in 0..N
  BY <1>1
<1>12. 0 \in 0..N
  BY <1>1
<1>13. QED
  BY <1>5, <1>6, <1>10, <1>11, <1>12

\* Calls without lines do not change it.
LEMMA NoLinesBetween ==
  ASSUME NEW s \in Seq(Calls), NEW m \in 0..Len(s), NEW n \in 0..Len(s), m <= n,
         \A k \in 1..Len(s) : m < k /\ k <= n => Lines(s[k]) = <<>>
  PROVE  ScriptOf(s, n) = ScriptOf(s, m)
<1> DEFINE Good == {k \in Nat : m <= k /\ k <= n => ScriptOf(s, k) = ScriptOf(s, m)}
<1>1. m \in Nat /\ n \in Nat /\ Len(s) \in Nat /\ \A k \in 0..Len(s) : ScriptOf(s, k) \in AllLines
  BY ScriptGrows
<1>2. 0 \in Good
  <2>1. CASE m = 0
    BY <1>1, <2>1
  <2>2. CASE m # 0
    BY <1>1, <2>2
  <2>3. QED
    BY <2>1, <2>2
<1>3. ASSUME NEW k \in Nat, k \in Good PROVE k + 1 \in Good
  <2>1. SUFFICES ASSUME m <= k + 1, k + 1 <= n PROVE ScriptOf(s, k + 1) = ScriptOf(s, m)
    OBVIOUS
  <2>2. CASE m = k + 1
    BY <2>2
  <2>3. CASE m # k + 1
    <3>1. k + 1 \in 1..Len(s) /\ (k + 1) - 1 = k /\ m <= k /\ m < k + 1 /\ k \in 0..Len(s) /\ k <= n
      BY <1>1, <2>1, <2>3
    <3>2. ScriptOf(s, k + 1) = ScriptOf(s, k) \o Lines(s[k + 1])
      BY <3>1, ScriptGrows
    <3>3. Lines(s[k + 1]) = <<>>
      BY <2>1, <3>1
    <3>4. ScriptOf(s, k) = ScriptOf(s, m) /\ ScriptOf(s, k) \in AllLines
      BY <1>1, <1>3, <3>1
    <3>5. ScriptOf(s, k) \o <<>> = ScriptOf(s, k)
      BY <3>4 DEF AllLines
    <3>6. QED
      BY <3>2, <3>3, <3>4, <3>5
  <2>4. QED
    BY <2>2, <2>3
<1>4. \A k \in Nat : k \in Good
  <2> HIDE DEF Good
  <2> QED
    BY <1>2, <1>3, Induct
<1>5. n \in Good
  BY <1>1, <1>4
<1>6. QED
  BY <1>1, <1>5

\* The script of the first calls comes first in that of more calls.
Begins(a, b) == Len(a) <= Len(b) /\ \A i \in 1..Len(a) : b[i] = a[i]

LEMMA BeginsOnward ==
  ASSUME NEW a \in AllLines, NEW b \in AllLines, NEW d \in AllLines, Begins(a, b)
  PROVE  Begins(a, b \o d)
<1>1. Len(a) \in Nat /\ Len(b) \in Nat /\ Len(d) \in Nat
  BY DEF AllLines
<1>2. Len(b \o d) = Len(b) + Len(d) /\ \A i \in 1..Len(b) : (b \o d)[i] = b[i]
  BY Joined
<1>3. QED
  BY <1>1, <1>2 DEF Begins

LEMMA ScriptBegins ==
  ASSUME NEW s \in Seq(Calls), NEW m \in 0..Len(s), NEW n \in 0..Len(s), m <= n,
         NEW a \in AllLines, Begins(a, ScriptOf(s, m))
  PROVE  Begins(a, ScriptOf(s, n))
<1> DEFINE Good == {k \in Nat : m <= k /\ k <= Len(s) => Begins(a, ScriptOf(s, k))}
<1>1. m \in Nat /\ n \in Nat /\ Len(s) \in Nat /\ n <= Len(s)
  OBVIOUS
<1>2. 0 \in Good
  <2>1. CASE m = 0
    BY <1>1, <2>1
  <2>2. CASE m # 0
    BY <1>1, <2>2
  <2>3. QED
    BY <2>1, <2>2
<1>3. ASSUME NEW k \in Nat, k \in Good PROVE k + 1 \in Good
  <2>1. SUFFICES ASSUME m <= k + 1, k + 1 <= Len(s) PROVE Begins(a, ScriptOf(s, k + 1))
    OBVIOUS
  <2>2. CASE m = k + 1
    BY <2>2
  <2>3. CASE m # k + 1
    <3>1. k + 1 \in 1..Len(s) /\ (k + 1) - 1 = k /\ m <= k /\ k \in 0..Len(s)
      BY <1>1, <2>1, <2>3
    <3>2. /\ ScriptOf(s, k + 1) = ScriptOf(s, k) \o Lines(s[k + 1]) /\ ScriptOf(s, k) \in AllLines
          /\ Lines(s[k + 1]) \in AllLines
      BY <3>1, ScriptGrows, LinesOfACall
    <3>3. Begins(a, ScriptOf(s, k))
      BY <1>1, <1>3, <3>1
    <3>4. QED
      BY <3>2, <3>3, BeginsOnward
  <2>4. QED
    BY <2>2, <2>3
<1>4. \A k \in Nat : k \in Good
  <2> HIDE DEF Good
  <2> QED
    BY <1>2, <1>3, Induct
<1>5. n \in Good
  BY <1>1, <1>4
<1>6. QED
  BY <1>1, <1>5

------------------------------------------------------------------------------
(* Printing between barriers                                               *)

\* A call that prints is the same call of rank 0.
LEMMA PrintPairs ==
  ASSUME Programmed, NEW r \in Ranks, NEW i \in DOMAIN program[r], program[r][i].op = "print"
  PROVE  \E h \in DOMAIN program[0] : Pair(r, i, 0, h) /\ program[0][h] = program[r][i]
<1>1. 0 \in Ranks
  BY SizeAssumption DEF Ranks
<1>2. program[r][i].op \in Together /\ program[r][i].op \notin Rings
  BY DEF Together, Rings
<1>3. PICK h \in DOMAIN program[0] : Pair(r, i, 0, h)
  BY <1>1, <1>2, TogetherPairs
<1>4. program[0][h] = program[r][i]
  BY <1>1, <1>2, <1>3, TogetherSides
<1>5. QED
  BY <1>3, <1>4

LEMMA LineDoneIs ==
  ASSUME Programmed, NEW h, NEW k, LineDone(h, k)
  PROVE  LET c == program[0][h]
             s == Order(program[0][h])[k]
         IN  /\ h \in DOMAIN program[0] /\ h \in 1..Len(program[0]) /\ c \in Calls /\ c.op = "print"
             /\ k \in 1..Len(Order(c)) /\ s \in Ranks
             /\ \E i \in DOMAIN program[s] : Pair(s, i, 0, h) /\ program[s][i] = c /\ Printed(s, i)
<1> DEFINE c == program[0][h]
           s == Order(program[0][h])[k]
<1>1. 0 \in Ranks
  BY SizeAssumption DEF Ranks
<1>2. h \in DOMAIN program[0] /\ c.op = "print" /\ k \in 1..Len(Order(c))
  BY DEF LineDone
<1>3. c \in Calls /\ h \in 1..Len(program[0])
  BY <1>1, <1>2, CallOf
<1>4. s \in Ranks
  BY <1>2, <1>3, OrderHasNoRepeats
<1>5. PICK i \in DOMAIN program[s] : Pair(s, i, 0, h) /\ Printed(s, i)
  BY DEF LineDone
<1>6. program[s][i] = c
  <2>1. Pair(0, h, s, i) /\ program[0][h].op \in Together /\ program[0][h].op \notin Rings
    BY <1>2, <1>5, PairTurned DEF Together, Rings
  <2>2. QED
    BY <1>1, <1>2, <1>4, <1>5, <2>1, TogetherSides
<1>7. QED
  BY <1>2, <1>3, <1>4, <1>5, <1>6

LEMMA AllWaits ==
  ASSUME Programmed, AllWait, NEW r \in Ranks, NEW i \in DOMAIN program[r], program[r][i].op = "print"
  PROVE  BarriersOf(program[r][i]) = 1
<1>1. PICK h \in DOMAIN program[0] : program[0][h] = program[r][i]
  BY PrintPairs
<1>2. program[r][i].barrier
  BY <1>1 DEF AllWait
<1>3. QED
  BY <1>2 DEF BarriersOf

\* A rank has entered no more barriers than its present call has.
LEMMA InnerAtMost ==
  ASSUME TypeInv, NEW r \in Ranks, Running(r)
  PROVE  Inner(r) <= BarriersOf(Call(r))
<1>1. /\ at[r] \in PlacesOf(Call(r)) /\ turn[r] \in 0..(P - 1) /\ P \in Nat /\ Call(r) \in Calls
      /\ turn[r] # 0 => Call(r).op = "write"
  BY TypedCall, SizeAssumption DEF TypeInv, Types, PlaceOf
<1>2. BarriersOf(Call(r)) \in Nat /\ Call(r).op \in Together \cup {"send", "recv"}
  BY <1>1, BarriersOfACall, CallTypes
<1>3. CASE at[r] = "call"
  <2>1. Inner(r) = turn[r]
    BY <1>3 DEF Inner
  <2>2. CASE turn[r] = 0
    BY <1>2, <2>1, <2>2
  <2>3. CASE turn[r] # 0
    <3>1. BarriersOf(Call(r)) = P
      BY <1>1, <2>3 DEF BarriersOf
    <3>2. QED
      BY <1>1, <2>1, <3>1
  <2>4. QED
    BY <2>2, <2>3
<1>4. CASE at[r] = "between"
  <2>1. Inner(r) = turn[r] + 1
    BY <1>4 DEF Inner
  <2>2. Call(r).op = "write"
    BY <1>1, <1>2, <1>4 DEF PlacesOf, Together, Rings, Vectors
  <2>3. BarriersOf(Call(r)) = P
    BY <2>2 DEF BarriersOf
  <2>4. QED
    BY <1>1, <2>1, <2>3
<1>5. CASE at[r] \notin {"call", "between"}
  <2>1. Inner(r) = BarriersOf(Call(r))
    BY <1>5 DEF Inner
  <2>2. QED
    BY <1>2, <2>1
<1>6. QED
  BY <1>3, <1>4, <1>5

\* A rank that has entered more barriers than a call ends with has returned from it.
LEMMA BehindIt ==
  ASSUME TypeInv, BarrierInv, NEW q \in Ranks, NEW j \in DOMAIN program[q],
         Barriers(program[q], j) < entered[q]
  PROVE  j <= done[q]
<1> DEFINE s == program[q]
           d == done[q]
<1>1. /\ Programmed /\ s \in Seq(Calls) /\ Len(s) \in Nat /\ d \in Nat /\ d <= Len(s)
      /\ j \in 1..Len(s)
  <2>1. Programmed /\ done[q] \in Nat /\ done[q] <= Len(program[q])
    BY DEF TypeInv, Types, Programmed, PlaceOf
  <2>2. s \in Seq(Calls) /\ j \in 1..Len(s)
    BY <2>1, CallOf
  <2>3. QED
    BY <2>1, <2>2
<1>2. entered[q] = Barriers(s, d) + Inner(q) /\ Inner(q) \in Nat /\ Barriers(s, d) \in Nat
  BY InnerTypes DEF BarrierInv
<1>3. SUFFICES ASSUME d < j PROVE FALSE
  BY <1>1
<1>4. Running(q) /\ Call(q) = s[d + 1]
  BY <1>1, <1>3 DEF Running, Call
<1>5. Inner(q) <= BarriersOf(s[d + 1]) /\ BarriersOf(s[d + 1]) \in Nat
  BY <1>4, InnerAtMost, InnerTypes
<1>6. d + 1 \in 1..Len(s) /\ (d + 1) - 1 = d /\ d + 1 \in 0..Len(s) /\ j \in 0..Len(s) /\ d + 1 <= j
  BY <1>1, <1>3
<1>7. Barriers(s, d + 1) = Barriers(s, d) + BarriersOf(s[d + 1])
  BY <1>1, <1>6, BarriersCount
<1>8. Barriers(s, d + 1) <= Barriers(s, j) /\ Barriers(s, j) \in Nat /\ Barriers(s, d + 1) \in Nat
  BY <1>1, <1>6, BarriersRise, BarriersCount
<1> HIDE DEF s, d
<1>9. Barriers(s, j) < entered[q]
  BY DEF s
<1>10. QED
  BY <1>2, <1>5, <1>7, <1>8, <1>9

\* A rank that has printed has left the barrier of the call.
LEMMA LeftPrinted ==
  ASSUME TypeInv, BarrierInv, AllWait, NEW q \in Ranks, NEW j, Printed(q, j)
  PROVE  Barriers(program[q], j - 1) + 1 <= Left(q)
<1> DEFINE s == program[q]
           d == done[q]
<1>1. Programmed /\ j \in DOMAIN s /\ s[j].op = "print"
  BY DEF TypeInv, Types, Programmed, Printed
<1>2. /\ s \in Seq(Calls) /\ Len(s) \in Nat /\ d \in Nat /\ d <= Len(s) /\ j \in 1..Len(s)
  <2>1. done[q] \in Nat /\ done[q] <= Len(program[q])
    BY DEF TypeInv, Types, PlaceOf
  <2>2. s \in Seq(Calls) /\ j \in 1..Len(s)
    BY <1>1, CallOf
  <2>3. QED
    BY <2>1, <2>2
<1>3. BarriersOf(s[j]) = 1
  BY <1>1, AllWaits
<1>4. j - 1 \in 0..Len(s) /\ j \in 0..Len(s) /\ d \in 0..Len(s)
  BY <1>2
<1>5. /\ Barriers(s, j) = Barriers(s, j - 1) + 1
      /\ Barriers(s, j) \in Nat /\ Barriers(s, d) \in Nat /\ Barriers(s, j - 1) \in Nat
  BY <1>2, <1>3, <1>4, BarriersCount
<1>6. CASE j <= d
  <2>1. Barriers(s, j) <= Barriers(s, d)
    BY <1>2, <1>4, <1>6, BarriersRise
  <2>2. Barriers(s, d) <= Left(q) /\ Left(q) \in Int
    BY LeftBehind
  <2> HIDE DEF s, d
  <2>3. QED
    BY <1>5, <2>1, <2>2 DEF s
<1>7. CASE j = d + 1 /\ at[q] = "sent"
  <2>1. Running(q) /\ Call(q) = s[j]
    BY <1>2, <1>7 DEF Running, Call
  <2>2. Inner(q) = 1
    BY <1>3, <1>7, <2>1 DEF Inner
  <2>3. Left(q) = entered[q] /\ entered[q] = Barriers(s, d) + Inner(q)
    BY <1>7 DEF Left, BarrierInv
  <2>4. j - 1 = d
    BY <1>2, <1>7
  <2>5. QED
    BY <1>5, <2>2, <2>3, <2>4
<1>8. QED
  BY <1>6, <1>7 DEF Printed

\* Rank r has its turn, in the call that is call h of rank 0.
AtTurn(r, h) ==
  /\ TypeInv /\ BarrierInv /\ AllWait
  /\ Running(r) /\ at[r] = "turn" /\ Pair(r, done[r] + 1, 0, h)

LEMMA TurnIs ==
  ASSUME NEW r \in Ranks, NEW h, AtTurn(r, h)
  PROVE  LET s == program[0] IN
         /\ Programmed /\ s \in Seq(Calls) /\ h \in 1..Len(s) /\ h \in DOMAIN s /\ Len(s) \in Nat
         /\ Call(r) = s[h] /\ Call(r) \in Calls /\ Call(r).op = "print" /\ Prints(r)
         /\ entered[r] = Barriers(s, h - 1) + 1 /\ Left(r) = entered[r]
         /\ Barriers(s, h) = Barriers(s, h - 1) + 1 /\ Barriers(s, h - 1) \in Nat
<1> DEFINE s == program[0]
           n == done[r] + 1
<1>1. /\ Programmed /\ n \in DOMAIN program[r] /\ Call(r) = program[r][n] /\ Call(r) \in Calls
      /\ done[r] \in Nat /\ at[r] \in PlacesOf(Call(r)) /\ Expected(r, at[r]) /\ 0 \in Ranks
  BY TypedCall, SizeAssumption DEF AtTurn, TypeInv, PlaceOf, Ranks
<1>2. Call(r).op = "print" /\ Prints(r) /\ at[r] = "turn"
  <2>1. at[r] = "turn" /\ Call(r).op \in Together \cup {"send", "recv"}
    BY <1>1, CallTypes DEF AtTurn
  <2>2. QED
    BY <1>1, <2>1 DEF PlacesOf, Expected, Together, Rings, Vectors
<1>3. h \in DOMAIN s /\ s \in Seq(Calls) /\ h \in 1..Len(s)
  BY <1>1, CallOf DEF AtTurn, Pair
<1>4. Call(r) = s[h]
  <2>1. Pair(r, n, 0, h) /\ program[r][n].op \in Together /\ program[r][n].op \notin Rings
    BY <1>1, <1>2 DEF AtTurn, Together, Rings
  <2>2. QED
    BY <1>1, <1>3, <2>1, TogetherSides
<1>5. Barriers(program[r], n - 1) = Barriers(s, h - 1) /\ n - 1 = done[r]
  <2>1. Pair(r, n, 0, h) /\ program[r][n].op \in Together
    BY <1>1, <1>2 DEF AtTurn, Together, Rings
  <2>2. QED
    BY <1>1, <1>3, <2>1, BarriersBefore
<1>6. BarriersOf(Call(r)) = 1
  BY <1>1, <1>2, AllWaits DEF AtTurn
<1>7. entered[r] = Barriers(s, h - 1) + 1 /\ Left(r) = entered[r]
  <2>1. Inner(r) = 1
    BY <1>2, <1>6 DEF AtTurn, Inner
  <2>2. QED
    BY <1>2, <1>5, <2>1 DEF AtTurn, BarrierInv, Left
<1>8. Barriers(s, h) = Barriers(s, h - 1) + 1 /\ Barriers(s, h - 1) \in Nat
  <2>1. h - 1 \in 0..Len(s)
    BY <1>3
  <2>2. QED
    BY <1>3, <1>4, <1>6, <2>1, BarriersCount
<1>9. QED
  BY <1>1, <1>2, <1>3, <1>4, <1>7, <1>8

\* Nobody has printed in a later call.
LEMMA NotBeyond ==
  ASSUME NEW r \in Ranks, NEW h, AtTurn(r, h), NEW g, NEW l, LineDone(g, l)
  PROVE  g <= h
<1> DEFINE s == program[0]
           q == Order(s[g])[l]
<1>1. /\ Programmed /\ s \in Seq(Calls) /\ h \in 1..Len(s) /\ Len(s) \in Nat
      /\ entered[r] = Barriers(s, h - 1) + 1
      /\ Barriers(s, h) = Barriers(s, h - 1) + 1 /\ Barriers(s, h - 1) \in Nat
  BY TurnIs
<1>2. /\ g \in DOMAIN s /\ g \in 1..Len(s) /\ s[g].op = "print" /\ q \in Ranks
  BY <1>1, LineDoneIs
<1>3. PICK i \in DOMAIN program[q] : Pair(q, i, 0, g) /\ program[q][i] = s[g] /\ Printed(q, i)
  BY <1>1, LineDoneIs
<1>4. Barriers(program[q], i - 1) = Barriers(s, g - 1)
  <2>1. 0 \in Ranks /\ program[q][i].op \in Together
    BY <1>2, <1>3, SizeAssumption DEF Ranks, Together
  <2>2. QED
    BY <1>1, <1>2, <1>3, <2>1, BarriersBefore
<1>5. Barriers(program[q], i - 1) + 1 <= Left(q)
  BY <1>2, <1>3, LeftPrinted DEF AtTurn
<1>6. Left(q) <= entered[r] /\ Left(q) \in Int
  BY <1>2, LeftBehind DEF AtTurn, BarrierInv
<1>7. SUFFICES ASSUME h < g PROVE FALSE
  BY <1>1, <1>2
<1>8. h \in 0..Len(s) /\ g - 1 \in 0..Len(s) /\ h <= g - 1
  BY <1>1, <1>2, <1>7
<1>9. Barriers(s, h) <= Barriers(s, g - 1) /\ Barriers(s, g - 1) \in Nat
  BY <1>1, <1>8, BarriersRise, BarriersCount
<1> HIDE DEF s
<1>10. QED
  BY <1>1, <1>4, <1>5, <1>6, <1>9

\* Everyone has printed in the calls before.
LEMMA AllBehind ==
  ASSUME NEW r \in Ranks, NEW h, AtTurn(r, h),
         NEW g \in DOMAIN program[0], g < h, program[0][g].op = "print",
         NEW l \in 1..Len(Order(program[0][g]))
  PROVE  LineDone(g, l)
<1> DEFINE s == program[0]
           q == Order(s[g])[l]
<1>1. /\ Programmed /\ s \in Seq(Calls) /\ h \in 1..Len(s) /\ Len(s) \in Nat
      /\ entered[r] = Barriers(s, h - 1) + 1 /\ Left(r) = entered[r]
      /\ Barriers(s, h - 1) \in Nat /\ TypeInv /\ BarrierInv
  BY TurnIs DEF AtTurn
<1>2. 0 \in Ranks /\ g \in DOMAIN s /\ s[g].op = "print"
  BY SizeAssumption DEF Ranks
<1>3. s[g] \in Calls /\ g \in 1..Len(s)
  BY <1>1, <1>2, CallOf
<1>4. q \in Ranks /\ Contains(Order(s[g]), q)
  <2>1. Order(s[g]) \in Seq(Ranks) /\ l \in 1..Len(Order(s[g]))
    BY <1>2, <1>3, OrderHasNoRepeats
  <2>2. QED
    BY <2>1 DEF Contains
<1>5. s[g].op \in Together /\ s[g].op \notin Rings
  BY <1>2 DEF Together, Rings
<1>6. PICK i \in DOMAIN program[q] : Pair(0, g, q, i)
  BY <1>1, <1>2, <1>4, <1>5, TogetherPairs
<1>7. program[q][i] = s[g] /\ Pair(q, i, 0, g)
  BY <1>1, <1>2, <1>4, <1>5, <1>6, TogetherSides, PairTurned
<1>8. i \in 1..Len(program[q]) /\ program[q] \in Seq(Calls)
  BY <1>1, <1>4, CallOf
<1>9. Barriers(program[q], i) = Barriers(s, g)
  <2>1. Barriers(program[q], i - 1) = Barriers(s, g - 1)
    BY <1>1, <1>2, <1>4, <1>5, <1>7, BarriersBefore
  <2>2. Barriers(program[q], i) = Barriers(program[q], i - 1) + BarriersOf(s[g])
    BY <1>7, <1>8, BarriersCount
  <2>3. Barriers(s, g) = Barriers(s, g - 1) + BarriersOf(s[g])
    BY <1>1, <1>3, BarriersCount
  <2>4. QED
    BY <2>1, <2>2, <2>3
<1>10. Barriers(s, g) <= Barriers(s, h - 1) /\ Barriers(s, g) \in Nat
  <2>1. g \in 0..Len(s) /\ h - 1 \in 0..Len(s) /\ g <= h - 1
    BY <1>1, <1>3
  <2>2. QED
    BY <1>1, <2>1, BarriersRise, BarriersCount
<1>11. Left(r) <= entered[q] /\ entered[q] \in Nat
  BY <1>1, <1>4 DEF BarrierInv, TypeInv, Types
<1>12. Barriers(program[q], i) < entered[q]
  <2> HIDE DEF s, q
  <2>1. QED
    BY <1>1, <1>9, <1>10, <1>11
<1>13. i <= done[q]
  BY <1>1, <1>4, <1>12, BehindIt
<1>14. Printed(q, i)
  BY <1>2, <1>4, <1>7, <1>13 DEF Printed
<1>15. QED
  BY <1>2, <1>7, <1>14 DEF LineDone

\* A line in the output has been printed by its rank.
LEMMA LineStands ==
  ASSUME TypeInv, \A n \in 1..Len(out) : IsDone(n), NEW h \in DOMAIN program[0],
         program[0][h].op = "print", NEW j \in 1..Len(Order(program[0][h])),
         Stands(out, program[0][h], j, Len(out))
  PROVE  LineDone(h, j)
<1> DEFINE s == program[0]
           w == Order(s[h])
<1>1. Programmed /\ 0 \in Ranks
  BY SizeAssumption DEF TypeInv, Types, Programmed, Ranks
<1>2. s[h] \in Calls
  BY <1>1, CallOf
<1>3. w \in Seq(Ranks) /\ NoRepeats(w)
  BY <1>2, OrderHasNoRepeats
<1>4. PICK m \in 1..Len(out) : out[m] = <<s[h].id, w[j]>>
  BY DEF Stands
<1>5. PICK g, l : LineDone(g, l) /\ out[m] = <<s[g].id, Order(s[g])[l]>>
  BY <1>4 DEF IsDone
<1>6. g \in DOMAIN s /\ l \in 1..Len(Order(s[g]))
  BY <1>5 DEF LineDone
<1>7. s[g].id = s[h].id /\ Order(s[g])[l] = w[j]
  BY <1>4, <1>5
<1>8. g = h
  BY <1>1, <1>6, <1>7 DEF Programmed, Matched
<1>9. l = j
  BY <1>3, <1>6, <1>7, <1>8 DEF NoRepeats
<1>10. QED
  BY <1>5, <1>8, <1>9

\* So have the lines before it.
LEMMA EarlierLines ==
  ASSUME TypeInv, OutInv, \A n \in 1..Len(out) : IsDone(n), NEW h, NEW k, LineDone(h, k),
         NEW j \in 1..k
  PROVE  LineDone(h, j)
<1> DEFINE s == program[0]
           c == s[h]
           q == Order(c)[k]
<1>1. Programmed
  BY DEF TypeInv, Types, Programmed
<1>2. h \in DOMAIN s /\ c \in Calls /\ c.op = "print" /\ k \in 1..Len(Order(c)) /\ q \in Ranks
  BY <1>1, LineDoneIs
<1>3. PICK i \in DOMAIN program[q] : program[q][i] = c /\ Printed(q, i)
  BY <1>1, LineDoneIs
<1>4. LinesUpTo(out, c, q, Len(out))
  BY <1>2, <1>3 DEF OutInv
<1>5. Order(c) \in Seq(Ranks)
  BY <1>2, OrderHasNoRepeats
<1>6. j \in 1..Len(Order(c)) /\ j <= k
  BY <1>2, <1>5
<1>7. Stands(out, c, j, Len(out))
  BY <1>2, <1>4, <1>6 DEF LinesUpTo
<1>8. QED
  BY <1>2, <1>6, <1>7, LineStands

\* When a rank has its turn, exactly the lines before its own have been printed.
LEMMA DoneIs ==
  ASSUME NEW r \in Ranks, NEW h, AtTurn(r, h), OutInv, \A n \in 1..Len(out) : IsDone(n)
  PROVE  /\ ~ LineDone(h, Position(r))
         /\ \A g, l : LineDone(g, l) => g < h \/ (g = h /\ l < Position(r))
         /\ \A l \in 1..(Position(r) - 1) : LineDone(h, l)
<1> DEFINE s == program[0]
           c == Call(r)
           n == done[r] + 1
           k == Position(r)
<1>1. /\ TypeInv /\ Running(r) /\ at[r] = "turn" /\ Pair(r, n, 0, h) /\ 0 \in Ranks
      /\ OutInv
  BY SizeAssumption DEF AtTurn, Ranks
<1>2. /\ Programmed /\ h \in DOMAIN s /\ c = s[h] /\ c \in Calls /\ c.op = "print" /\ Prints(r)
      /\ h \in 1..Len(s)
  BY TurnIs
<1>3. /\ k \in 1..Len(Order(c)) /\ Order(c)[k] = r /\ Order(c) \in Seq(Ranks)
  BY <1>2, PositionOf
<1> HIDE DEF c, k
<1>4. ~ LineDone(h, k)
  <2>1. SUFFICES ASSUME LineDone(h, k) PROVE FALSE
    OBVIOUS
  <2>2. PICK i \in DOMAIN program[r] : Pair(r, i, 0, h) /\ Printed(r, i)
    BY <1>2, <1>3, <2>1 DEF LineDone
  <2>3. n \in DOMAIN program[r] /\ done[r] \in Nat
    BY <1>1, TypedCall
  <2>4. i = n
    BY <1>1, <1>2, <2>2, <2>3, PairTurned, OnePair
  <2>5. QED
    BY <1>1, <2>2, <2>3, <2>4 DEF Printed
<1>5. ASSUME NEW g, NEW l, LineDone(g, l)
      PROVE  g < h \/ (g = h /\ l < k)
  <2>1. g <= h /\ g \in 1..Len(s) /\ l \in 1..Len(Order(s[g]))
    BY <1>2, <1>5, NotBeyond, LineDoneIs
  <2>2. CASE g = h
    <3>1. l \in Nat /\ k \in Nat
      BY <1>2, <1>3, <2>1, <2>2
    <3>2. CASE k <= l
      <4>1. k \in 1..l
        BY <1>3, <3>1, <3>2
      <4>2. LineDone(h, k)
        BY <1>1, <1>5, <2>2, <4>1, EarlierLines
      <4>3. QED
        BY <1>4, <4>2
    <3>3. QED
      BY <2>2, <3>1, <3>2
  <2>3. CASE g # h
    BY <1>2, <2>1, <2>3
  <2>4. QED
    BY <2>2, <2>3
<1>6. ASSUME NEW l \in 1..(k - 1)
      PROVE  LineDone(h, l)
  <2>1. LinesBefore(out, c, r, Len(out))
    BY <1>1 DEF OutInv, c
  <2>2. l \in 1..Len(Order(c)) /\ l < k
    BY <1>3
  <2>3. Stands(out, s[h], l, Len(out))
    BY <1>2, <1>3, <2>1, <2>2 DEF LinesBefore
  <2>4. QED
    BY <1>1, <1>2, <2>2, <2>3, LineStands
<1>7. QED
  BY <1>4, <1>5, <1>6 DEF k

LEMMA SameLines ==
  ASSUME NEW a \in AllLines, NEW b \in AllLines, Len(a) = Len(b), \A i \in 1..Len(a) : a[i] = b[i]
  PROVE  a = b
BY SMTT(30) DEF AllLines

LEMMA FirstLines ==
  ASSUME NEW b \in AllLines, NEW k \in 0..Len(b)
  PROVE  /\ SubSeq(b, 1, k) \in AllLines /\ Len(SubSeq(b, 1, k)) = k
         /\ \A i \in 1..k : SubSeq(b, 1, k)[i] = b[i]
BY DEF AllLines

LEMMA AllOfIt ==
  ASSUME NEW a \in AllLines, NEW b \in AllLines
  PROVE  /\ SubSeq(b, 1, Len(b)) = b
         /\ a \o SubSeq(b, 1, 0) = a
<1>1. Len(b) \in 0..Len(b) /\ 0 \in 0..Len(b) /\ Len(b) \in Nat
  BY DEF AllLines
<1>2. SubSeq(b, 1, Len(b)) = b
  <2>1. /\ SubSeq(b, 1, Len(b)) \in AllLines /\ Len(SubSeq(b, 1, Len(b))) = Len(b)
        /\ \A i \in 1..Len(b) : SubSeq(b, 1, Len(b))[i] = b[i]
    BY <1>1, FirstLines
  <2>2. QED
    BY <2>1, SameLines
<1>3. a \o SubSeq(b, 1, 0) = a
  <2> DEFINE d == SubSeq(b, 1, 0)
  <2>1. d \in AllLines /\ Len(d) = 0
    BY <1>1, FirstLines
  <2> HIDE DEF d
  <2>2. a \o d \in AllLines /\ Len(a \o d) = Len(a) /\ \A i \in 1..Len(a) : (a \o d)[i] = a[i]
    <3>1. Len(a) \in Nat
      BY DEF AllLines
    <3>2. QED
      BY <2>1, <3>1, Joined
  <2>3. a \o d = a
    BY <2>2, SameLines
  <2>4. QED
    BY <2>3 DEF d
<1>4. QED
  BY <1>2, <1>3

LEMMA NextOfIt ==
  ASSUME NEW a \in AllLines, NEW b \in AllLines, NEW k \in 1..Len(b)
  PROVE  Append(a \o SubSeq(b, 1, k - 1), b[k]) = a \o SubSeq(b, 1, k)
<1> DEFINE d == SubSeq(b, 1, k - 1)
           e == SubSeq(b, 1, k)
           x == Append(a \o d, b[k])
           y == a \o e
           n == Len(a)
<1>1. n \in Nat /\ Len(b) \in Nat /\ k - 1 \in 0..Len(b) /\ k \in 0..Len(b) /\ k \in Nat
      /\ b[k] \in Nat \X Ranks
  BY DEF AllLines
<1>2. /\ d \in AllLines /\ Len(d) = k - 1 /\ \A i \in 1..(k - 1) : d[i] = b[i]
      /\ e \in AllLines /\ Len(e) = k /\ \A i \in 1..k : e[i] = b[i]
  BY <1>1, FirstLines
<1> HIDE DEF d, e
<1>3. /\ a \o d \in AllLines /\ Len(a \o d) = n + (k - 1)
      /\ \A i \in 1..n : (a \o d)[i] = a[i]
      /\ \A i \in 1..(k - 1) : (a \o d)[n + i] = d[i]
  <2>1. /\ a \o d \in AllLines /\ Len(a \o d) = Len(a) + Len(d)
        /\ \A i \in 1..Len(a) : (a \o d)[i] = a[i]
        /\ \A i \in 1..Len(d) : (a \o d)[Len(a) + i] = d[i]
    BY <1>2, Joined
  <2>2. QED
    BY <1>2, <2>1
<1>4. /\ y \in AllLines /\ Len(y) = n + k
      /\ \A i \in 1..n : y[i] = a[i]
      /\ \A i \in 1..k : y[n + i] = e[i]
  BY <1>2, Joined
<1> DEFINE z == a \o d
<1> HIDE DEF n, y, z
<1>5. /\ x \in AllLines /\ Len(x) = n + k /\ x[n + k] = b[k]
      /\ \A i \in 1..(n + (k - 1)) : x[i] = (a \o d)[i]
  <2>1. z \in AllLines /\ Len(z) = n + (k - 1)
    BY <1>3 DEF z
  <2>2. /\ Append(z, b[k]) \in AllLines /\ Len(Append(z, b[k])) = n + k /\ Append(z, b[k])[n + k] = b[k]
        /\ \A i \in 1..(n + (k - 1)) : Append(z, b[k])[i] = z[i]
    BY <1>1, <2>1 DEF AllLines, n
  <2>3. QED
    BY <2>2 DEF z
<1> HIDE DEF x
<1>6. ASSUME NEW i \in 1..(n + k)
      PROVE  x[i] = y[i]
  <2>1. CASE i \in 1..n
    <3>1. i \in 1..(n + (k - 1))
      BY <1>1, <2>1 DEF n
    <3>2. QED
      BY <1>3, <1>4, <1>5, <2>1, <3>1
  <2>2. CASE i \notin 1..n
    <3>1. PICK m \in 1..k : i = n + m
      <4>1. i - n \in 1..k /\ i = n + (i - n)
        BY <1>1, <2>2 DEF n
      <4>2. QED
        BY <4>1
    <3>2. y[i] = b[m]
      BY <1>2, <1>4, <3>1
    <3>3. CASE m = k
      BY <1>5, <3>1, <3>2, <3>3
    <3>4. CASE m # k
      <4>1. m \in 1..(k - 1) /\ n + m \in 1..(n + (k - 1))
        BY <1>1, <3>1, <3>4 DEF n
      <4>2. x[i] = b[m]
        BY <1>2, <1>3, <1>5, <3>1, <4>1
      <4>3. QED
        BY <3>2, <4>2
    <3>5. QED
      BY <3>3, <3>4
  <2>3. QED
    BY <2>1, <2>2
<1>7. x = y
  BY <1>4, <1>5, <1>6, SameLines
<1>8. QED
  BY <1>7 DEF x, y, d, e

\* The output is the script up to the line whose turn it is.
LEMMA ScriptSoFar ==
  ASSUME NEW r \in Ranks, NEW h, AtTurn(r, h), OutInv, ScriptInv
  PROVE  out = ScriptOf(program[0], h - 1) \o SubSeq(Lines(program[0][h]), 1, Position(r) - 1)
<1> DEFINE s == program[0]
           k == Position(r)
<1>1. PICK g, m : Reached(g, m)
  BY DEF ScriptInv
<1>2. /\ Programmed /\ s \in Seq(Calls) /\ h \in 1..Len(s) /\ Len(s) \in Nat /\ h \in Nat
      /\ Call(r) = s[h] /\ Call(r) \in Calls /\ Call(r).op = "print" /\ Prints(r)
  BY TurnIs
<1>3. k \in 1..Len(Order(s[h])) /\ Order(s[h]) \in Seq(Ranks)
  BY <1>2, PositionOf
<1>4. k \in Nat \ {0}
  BY <1>3
<1>5. \A n \in 1..Len(out) : IsDone(n)
  BY DEF ScriptInv
<1>6. /\ \A d, l : LineDone(d, l) => d < h \/ (d = h /\ l < k)
      /\ \A l \in 1..(k - 1) : LineDone(h, l)
  BY <1>5, DoneIs
<1> HIDE DEF k
<1>7. /\ g \in 0..Len(s)
      /\ \A d, l : LineDone(d, l) => d < g \/ (d = g /\ l <= m)
      /\ g = 0 => out = <<>>
      /\ g # 0 => LineDone(g, m) /\ out = ScriptOf(s, g - 1) \o SubSeq(Lines(s[g]), 1, m)
  BY <1>1 DEF Reached
<1>8. g # 0 => m \in 1..Len(Order(s[g])) /\ s[g] \in Calls /\ s[g].op = "print" /\ g \in DOMAIN s
  BY <1>2, <1>7, LineDoneIs
<1>9. CASE g = h
  <2>1. LineDone(h, m) /\ m \in Nat /\ 1 <= m
    BY <1>2, <1>3, <1>7, <1>8, <1>9
  <2>2. m < k
    BY <1>2, <1>6, <2>1
  <2>3. k - 1 \in 1..(k - 1)
    BY <1>4, <2>1, <2>2
  <2>4. LineDone(h, k - 1)
    BY <1>6, <2>3
  <2>5. k - 1 <= m
    BY <1>2, <1>7, <1>9, <2>4
  <2>6. m = k - 1
    BY <1>4, <2>1, <2>2, <2>5
  <2>7. QED
    BY <1>2, <1>7, <1>9, <2>6 DEF k
<1>10. CASE g # h
  <2>1. g < h /\ g \in Nat
    <3>1. CASE g = 0
      BY <1>2, <3>1
    <3>2. CASE g # 0
      BY <1>6, <1>7, <1>10, <3>2
    <3>3. QED
      BY <3>1, <3>2
  <2>2. k = 1
    <3>1. SUFFICES ASSUME k # 1 PROVE FALSE
      OBVIOUS
    <3>2. LineDone(h, 1)
      BY <1>4, <1>6, <3>1
    <3>3. QED
      BY <1>2, <1>7, <2>1, <3>2
  <2>3. ASSUME NEW d \in 1..Len(s), g < d, d <= h - 1
        PROVE  Lines(s[d]) = <<>>
    <3>1. s[d] \in Calls /\ d \in DOMAIN s /\ d < h
      BY <1>2, <2>3
    <3>2. CASE s[d].op # "print"
      BY <3>2 DEF Lines
    <3>3. CASE s[d].op = "print"
      <4>1. Order(s[d]) \in Seq(Ranks)
        BY <3>1, <3>3, OrderHasNoRepeats
      <4>2. Len(Order(s[d])) = 0
        <5>1. SUFFICES ASSUME Len(Order(s[d])) # 0 PROVE FALSE
          OBVIOUS
        <5>2. 1 \in 1..Len(Order(s[d]))
          BY <4>1, <5>1
        <5>3. LineDone(d, 1)
          BY <3>1, <3>3, <5>2, AllBehind
        <5>4. d < g \/ d = g
          BY <1>7, <5>3
        <5>5. QED
          BY <2>1, <2>3, <5>4
      <4>3. Lines(s[d]) \in AllLines /\ Len(Lines(s[d])) = 0
        BY <3>1, <3>3, <4>2, LinesOfACall
      <4>4. QED
        BY <4>3 DEF AllLines
    <3>4. QED
      BY <3>2, <3>3
  <2>4. ScriptOf(s, h - 1) = ScriptOf(s, g)
    <3>1. g \in 0..Len(s) /\ h - 1 \in 0..Len(s) /\ g <= h - 1
      BY <1>2, <2>1
    <3>2. QED
      BY <1>2, <2>3, <3>1, NoLinesBetween
  <2>5. out = ScriptOf(s, g)
    <3>1. CASE g = 0
      BY <1>2, <1>7, <3>1, ScriptGrows
    <3>2. CASE g # 0
      <4> DEFINE o == Order(s[g])
      <4>1. o \in Seq(Ranks) /\ m \in 1..Len(o)
        BY <1>8, <3>2, OrderHasNoRepeats
      <4>2. Len(o) \in Nat /\ Len(o) \in 1..Len(o) /\ m \in Nat
        BY <4>1
      <4>3. LineDone(g, Len(o))
        BY <1>8, <2>1, <3>2, <4>2, AllBehind
      <4>4. Len(o) <= m
        BY <1>7, <2>1, <4>3
      <4>5. m = Len(o)
        BY <4>1, <4>2, <4>4
      <4>6. Lines(s[g]) \in AllLines /\ Len(Lines(s[g])) = Len(o)
        BY <1>8, <3>2, LinesOfACall
      <4>7. SubSeq(Lines(s[g]), 1, m) = Lines(s[g])
        BY <4>5, <4>6, AllOfIt
      <4>8. g \in 1..Len(s)
        BY <1>7, <3>2
      <4>9. ScriptOf(s, g) = ScriptOf(s, g - 1) \o Lines(s[g])
        BY <1>2, <4>8, ScriptGrows
      <4>10. QED
        BY <1>7, <3>2, <4>7, <4>9
    <3>3. QED
      BY <3>1, <3>2
  <2>6. ScriptOf(s, h - 1) \in AllLines /\ Lines(s[h]) \in AllLines
    <3>1. h - 1 \in 0..Len(s)
      BY <1>2
    <3>2. QED
      BY <1>2, <3>1, ScriptGrows, LinesOfACall
  <2>7. ScriptOf(s, h - 1) \o SubSeq(Lines(s[h]), 1, 0) = ScriptOf(s, h - 1)
    BY <2>6, AllOfIt
  <2>8. k - 1 = 0
    BY <2>2
  <2>9. QED
    BY <2>4, <2>5, <2>7, <2>8 DEF k
<1>11. QED
  BY <1>9, <1>10

\* A step without output prints no line.
LEMMA QuietKeepsScript ==
  ASSUME NEW r \in Ranks, Ready(r), RoomOf(r), Step(r), ~ PrintOut(r), ScriptInv
  PROVE  ScriptInv'
<1>1. program' = program /\ Programmed /\ 0 \in Ranks
  BY SizeAssumption DEF Ready, OthersStay, TypeInv, Types, Programmed, Ranks
<1>2. out' = out
  BY DEF Step, SendLength, TakeLength, SendObject, TakeObject, SendHeader, SendData, RecvStart,
     PrintStart, PrintBarrier, TakeHeader, TakeData, WriteTurn, WriteBarrier, Leave
<1>3. ASSUME NEW g, NEW l
      PROVE  LineDone(g, l)' <=> LineDone(g, l)
  <2> DEFINE c == program[0][g]
             q == Order(c)[l]
  <2>1. CASE g \in DOMAIN program[0] /\ c.op = "print" /\ l \in 1..Len(Order(c))
    <3>1. c \in Calls
      BY <1>1, <2>1, CallOf
    <3>2. q \in Ranks
      BY <2>1, <3>1, OrderHasNoRepeats
    <3>3. \A i \in DOMAIN program[q] : Printed(q, i)' <=> Printed(q, i)
      <4>1. SUFFICES ASSUME NEW i \in DOMAIN program[q] PROVE Printed(q, i)' <=> Printed(q, i)
        OBVIOUS
      <4>2. PICK t \in Ranks : t = q
        BY <3>2
      <4>3. i \in DOMAIN program[t]
        BY <4>1, <4>2
      <4>4. Printed(t, i)' <=> Printed(t, i)
        BY <4>3, PrintedTheSame
      <4>5. QED
        BY <1>1, <4>2, <4>4 DEF Printed
    <3>4. QED
      BY <1>1, <2>1, <3>3 DEF LineDone, Pair
  <2>2. CASE ~ (g \in DOMAIN program[0] /\ c.op = "print" /\ l \in 1..Len(Order(c)))
    BY <1>1, <2>2 DEF LineDone
  <2>3. QED
    BY <2>1, <2>2
<1>4. PICK g, m : Reached(g, m)
  BY DEF ScriptInv
<1>5. Reached(g, m)'
  BY <1>1, <1>2, <1>3, <1>4 DEF Reached
<1>6. ASSUME NEW n \in 1..Len(out)
      PROVE  IsDone(n)'
  <2>1. PICK h, k : LineDone(h, k) /\ out[n] = <<program[0][h].id, Order(program[0][h])[k]>>
    BY DEF ScriptInv, IsDone
  <2>2. LineDone(h, k)'
    BY <1>3, <2>1
  <2>3. QED
    BY <1>1, <1>2, <2>1, <2>2 DEF IsDone
<1>7. QED
  BY <1>2, <1>5, <1>6 DEF ScriptInv

\* The output goes on with the next line of the script.
LEMMA PrintKeepsScript ==
  ASSUME NEW r \in Ranks, Ready(r), BarrierInv, OutInv, AllWait, PrintOut(r), ScriptInv
  PROVE  ScriptInv'
<1> DEFINE s == program[0]
           n == done[r] + 1
<1>1. /\ OthersStay(r) /\ program' = program /\ TypeInv /\ Running(r) /\ at[r] = "turn"
      /\ Call(r).op = "print" /\ out' = Append(out, <<Call(r).id, r>>) /\ at'[r] = "sent" /\ done' = done
      /\ out \in AllLines /\ done \in [Ranks -> Nat] /\ 0 \in Ranks
  <2>1. /\ OthersStay(r) /\ TypeInv /\ Running(r) /\ PrintOut(r)
    BY DEF Ready
  <2>2. out \in AllLines /\ done \in [Ranks -> Nat] /\ at \in [Ranks -> Places] /\ program' = program
    BY <2>1 DEF TypeInv, Types, AllLines, OthersStay
  <2>3. 0 \in Ranks
    BY SizeAssumption DEF Ranks
  <2>4. QED
    BY <2>1, <2>2, <2>3 DEF PrintOut, In, Goto
<1>2. Programmed /\ n \in DOMAIN program[r] /\ Call(r) = program[r][n] /\ Call(r) \in Calls
  BY <1>1, TypedCall
<1>3. PICK h \in DOMAIN s : Pair(r, n, 0, h) /\ s[h] = Call(r)
  BY <1>1, <1>2, PrintPairs
<1>4. AtTurn(r, h)
  BY <1>1, <1>3 DEF AtTurn
<1>5. /\ s \in Seq(Calls) /\ h \in 1..Len(s) /\ Len(s) \in Nat /\ Prints(r)
  BY <1>4, TurnIs
<1>6. PICK k : k = Position(r)
  OBVIOUS
<1>7. /\ k \in 1..Len(Order(s[h])) /\ Order(s[h])[k] = r
      /\ \A j \in 1..Len(Order(s[h])) : Order(s[h])[j] = r => j = k
  BY <1>1, <1>2, <1>3, <1>5, <1>6, PositionOf, SMTT(30)
<1>8. /\ \A g, l : LineDone(g, l) => g < h \/ (g = h /\ l < k)
  BY <1>4, <1>6, DoneIs DEF ScriptInv
<1>9. out' = ScriptOf(s, h - 1) \o SubSeq(Lines(s[h]), 1, k)
  <2>1. out = ScriptOf(s, h - 1) \o SubSeq(Lines(s[h]), 1, k - 1)
    BY <1>4, <1>6, ScriptSoFar
  <2>2. h - 1 \in 0..Len(s)
    BY <1>5
  <2>3. ScriptOf(s, h - 1) \in AllLines
    BY <1>5, <2>2, ScriptGrows
  <2>4. Lines(s[h]) \in AllLines /\ k \in 1..Len(Lines(s[h])) /\ Lines(s[h])[k] = <<Call(r).id, r>>
    BY <1>1, <1>2, <1>3, <1>7, LinesOfACall
  <2> DEFINE a == ScriptOf(s, h - 1)
             b == Lines(s[h])
  <2>5. a \in AllLines /\ b \in AllLines /\ k \in 1..Len(b) /\ out = a \o SubSeq(b, 1, k - 1)
        /\ out' = Append(out, b[k])
    BY <1>1, <2>1, <2>3, <2>4
  <2> HIDE DEF a, b
  <2>6. Append(a \o SubSeq(b, 1, k - 1), b[k]) = a \o SubSeq(b, 1, k)
    BY <2>5, NextOfIt
  <2>7. out' = a \o SubSeq(b, 1, k)
    BY <2>5, <2>6
  <2>8. QED
    BY <2>7 DEF a, b
<1>10. Printed(r, n)'
  BY <1>1, <1>2, <1>5 DEF Printed, Prints
<1>11. ASSUME NEW q \in Ranks, NEW i \in DOMAIN program[q]
       PROVE  Printed(q, i) => Printed(q, i)'
  BY <1>1 DEF Printed, OthersStay
<1>12. ASSUME NEW q \in Ranks, NEW i \in DOMAIN program[q], Printed(q, i)', ~ Printed(q, i)
       PROVE  q = r /\ i = n
  BY <1>1, <1>12 DEF Printed, OthersStay
<1>13. ASSUME NEW g, NEW l, LineDone(g, l)
       PROVE  LineDone(g, l)'
  <2>1. PICK q : q = Order(s[g])[l]
    OBVIOUS
  <2>2. q \in Ranks
    BY <1>2, <1>13, <2>1, LineDoneIs
  <2>3. PICK i \in DOMAIN program[q] : Pair(q, i, 0, g) /\ Printed(q, i)
    BY <1>2, <1>13, <2>1, LineDoneIs
  <2>4. Printed(q, i)'
    BY <1>11, <2>2, <2>3
  <2>5. g \in DOMAIN s /\ s[g].op = "print" /\ l \in 1..Len(Order(s[g]))
    BY <1>13 DEF LineDone
  <2>6. QED
    BY <1>1, <2>1, <2>3, <2>4, <2>5 DEF LineDone, Pair
<1>14. LineDone(h, k)'
  BY <1>1, <1>2, <1>3, <1>7, <1>10 DEF LineDone, Pair
<1>15. ASSUME NEW g, NEW l, LineDone(g, l)'
       PROVE  LineDone(g, l) \/ (g = h /\ l = k)
  <2>1. g \in DOMAIN s /\ s[g].op = "print" /\ l \in 1..Len(Order(s[g]))
    BY <1>1, <1>15 DEF LineDone
  <2>2. PICK q : q = Order(s[g])[l]
    OBVIOUS
  <2>3. s[g] \in Calls
    BY <1>1, <1>2, <2>1, CallOf
  <2>4. q \in Ranks
    BY <2>1, <2>2, <2>3, OrderHasNoRepeats
  <2>5. PICK i \in DOMAIN program[q] : Pair(q, i, 0, g) /\ Printed(q, i)'
    BY <1>1, <1>15, <2>2 DEF LineDone, Pair
  <2>6. CASE Printed(q, i)
    BY <2>1, <2>2, <2>5, <2>6 DEF LineDone
  <2>7. CASE ~ Printed(q, i)
    <3>1. q = r /\ i = n
      BY <1>12, <2>4, <2>5, <2>7
    <3>2. Pair(r, n, 0, g) /\ Pair(r, n, 0, h)
      BY <1>3, <2>5, <3>1
    <3>3. g = h
      BY <1>1, <1>2, <1>3, <2>1, <3>2, OnePair
    <3>4. l = k
      BY <1>7, <2>1, <2>2, <3>1, <3>3
    <3>5. QED
      BY <3>3, <3>4
  <2>8. QED
    BY <2>6, <2>7
<1>16. Reached(h, k)'
  <2>1. \A g, l : LineDone(g, l)' => g < h \/ (g = h /\ l <= k)
    <3>1. k \in Nat
      BY <1>7
    <3>2. SUFFICES ASSUME NEW g, NEW l, LineDone(g, l)' PROVE g < h \/ (g = h /\ l <= k)
      OBVIOUS
    <3>3. CASE g = h /\ l = k
      BY <3>1, <3>3
    <3>4. CASE LineDone(g, l)
      <4>1. l \in Nat
        BY <1>2, <3>4, LineDoneIs
      <4>2. QED
        BY <1>8, <3>1, <3>4, <4>1
    <3>5. QED
      BY <1>15, <3>2, <3>3, <3>4
  <2>2. h \in 0..Len(s) /\ h # 0
    BY <1>5
  <2>3. QED
    BY <1>1, <1>9, <1>14, <2>1, <2>2 DEF Reached
<1>17. ASSUME NEW m \in 1..Len(out')
       PROVE  IsDone(m)'
  <2>1. CASE m = Len(out) + 1
    <3>1. out'[m] = <<s[h].id, Order(s[h])[k]>>
      BY <1>1, <1>3, <1>7, <2>1 DEF AllLines
    <3>2. QED
      BY <1>1, <1>14, <3>1 DEF IsDone
  <2>2. CASE m # Len(out) + 1
    <3>1. m \in 1..Len(out) /\ out'[m] = out[m]
      BY <1>1, <1>17, <2>2 DEF AllLines
    <3>2. PICK g, l : LineDone(g, l) /\ out[m] = <<s[g].id, Order(s[g])[l]>>
      BY <3>1 DEF ScriptInv, IsDone
    <3>3. LineDone(g, l)'
      BY <1>13, <3>2
    <3>4. QED
      BY <1>1, <3>1, <3>2, <3>3 DEF IsDone
  <2>3. QED
    BY <2>1, <2>2
<1>18. QED
  BY <1>16, <1>17 DEF ScriptInv

\* What the invariants say of the output
LEMMA LinesComeInTurn ==
  ASSUME TypeInv, OutInv, NEW i \in 1..Len(out)
  PROVE  LET r == out[i][2]
             c == CHOOSE c \in ToSet(program[r]) : c.id = out[i][1]
             order == Order(c)
         IN  \A j \in 1..Len(order) :
               (\E k \in (j + 1)..Len(order) : order[k] = r)
                 => \E k \in 1..(i - 1) : out[k] = <<c.id, order[j]>>
<1> DEFINE r == out[i][2]
           c == CHOOSE c \in ToSet(program[r]) : c.id = out[i][1]
           order == Order(c)
<1>1. Programmed /\ r \in Ranks
  BY DEF TypeInv, Types, Programmed
<1>2. PICK h \in DOMAIN program[r] :
        /\ program[r][h].op = "print" /\ program[r][h].id = out[i][1]
        /\ LinesBefore(out, program[r][h], r, i - 1)
  BY DEF OutInv, LineIsDue
<1>3. c = program[r][h]
  <2>1. program[r][h] \in ToSet(program[r])
    BY <1>2 DEF ToSet
  <2>2. c \in ToSet(program[r]) /\ c.id = out[i][1]
    BY <1>2, <2>1
  <2>3. PICK g \in DOMAIN program[r] : c = program[r][g]
    BY <2>2 DEF ToSet
  <2>4. g = h
    BY <1>1, <1>2, <2>2, <2>3 DEF Programmed, Matched
  <2>5. QED
    BY <2>3, <2>4
<1>4. LinesBefore(out, c, r, i - 1)
  BY <1>2, <1>3
<1>5. Order(c) \in Seq(Ranks)
  BY <1>1, <1>2, <1>3, CallOf, OrderHasNoRepeats
<1> HIDE DEF c, r
<1>6. ASSUME NEW j \in 1..Len(order), NEW k \in (j + 1)..Len(order), order[k] = r
      PROVE  \E m \in 1..(i - 1) : out[m] = <<c.id, order[j]>>
  <2>1. j < k /\ k \in 1..Len(order)
    BY <1>5, <1>6
  <2>2. Stands(out, c, j, i - 1)
    BY <1>4, <1>6, <2>1 DEF LinesBefore
  <2>3. QED
    BY <2>2 DEF Stands
<1>7. QED
  BY <1>6 DEF c, r

LEMMA OutputIsPrefix ==
  ASSUME TypeInv, ScriptInv
  PROVE  IsPrefix(out, Script)
<1> DEFINE s == program[0]
           N == Len(s)
<1>1. Programmed /\ 0 \in Ranks /\ s \in Seq(Calls) /\ N \in Nat /\ out \in AllLines /\ Len(out) \in Nat
  <2>1. Programmed /\ out \in AllLines
    BY DEF TypeInv, Types, Programmed, AllLines
  <2>2. 0 \in Ranks
    BY SizeAssumption DEF Ranks
  <2>3. s \in Seq(Calls)
    BY <2>1, <2>2 DEF Programmed
  <2>4. N \in Nat /\ Len(out) \in Nat
    BY <2>1, <2>3 DEF AllLines
  <2>5. QED
    BY <2>1, <2>2, <2>3, <2>4
<1>2. Script = ScriptOf(s, N)
  BY DEF Script, ScriptOf
<1>3. N \in 0..N /\ 0 \in 0..N
  BY <1>1
<1>4. ScriptOf(s, N) \in AllLines
  BY <1>1, <1>3, ScriptGrows
<1>5. PICK h, k : Reached(h, k)
  BY DEF ScriptInv
<1>6. h \in 0..N /\ (h = 0 => out = <<>>)
  BY <1>5 DEF Reached
<1>7. Begins(out, ScriptOf(s, N))
  <2>1. CASE h = 0
    <3>1. Len(ScriptOf(s, N)) \in Nat /\ Len(out) = 0
      BY <1>4, <1>6, <2>1 DEF AllLines
    <3>2. QED
      BY <3>1 DEF Begins
  <2>2. CASE h # 0
    <3>1. LineDone(h, k) /\ out = ScriptOf(s, h - 1) \o SubSeq(Lines(s[h]), 1, k)
      BY <1>5, <2>2 DEF Reached
    <3>2. h \in 1..N /\ s[h] \in Calls /\ s[h].op = "print" /\ k \in 1..Len(Order(s[h]))
      BY <1>1, <3>1, LineDoneIs
    <3> DEFINE a == ScriptOf(s, h - 1)
               b == Lines(s[h])
               d == SubSeq(b, 1, k)
    <3>3. b \in AllLines /\ Len(b) = Len(Order(s[h]))
      BY <3>2, LinesOfACall
    <3>4. h - 1 \in 0..N /\ h \in 0..N /\ h <= N
      BY <1>1, <3>2
    <3>5. a \in AllLines /\ ScriptOf(s, h) = a \o b
      BY <1>1, <3>2, <3>4, ScriptGrows
    <3>6. k \in 0..Len(b) /\ Len(b) \in Nat /\ Len(a) \in Nat
      <4>1. Len(b) \in Nat /\ Len(a) \in Nat
        BY <3>3, <3>5 DEF AllLines
      <4> HIDE DEF a, b
      <4>2. QED
        BY <3>2, <3>3, <4>1
    <3>7. d \in AllLines /\ Len(d) = k /\ \A i \in 1..k : d[i] = b[i]
      BY <3>3, <3>6, FirstLines
    <3> HIDE DEF a, b, d
    <3>8. /\ Len(a \o d) = Len(a) + k
          /\ \A i \in 1..Len(a) : (a \o d)[i] = a[i]
          /\ \A i \in 1..k : (a \o d)[Len(a) + i] = d[i]
      <4>1. /\ Len(a \o d) = Len(a) + Len(d)
            /\ \A i \in 1..Len(a) : (a \o d)[i] = a[i]
            /\ \A i \in 1..Len(d) : (a \o d)[Len(a) + i] = d[i]
        BY <3>5, <3>7, Joined
      <4>2. QED
        BY <3>7, <4>1
    <3>9. /\ Len(a \o b) = Len(a) + Len(b)
          /\ \A i \in 1..Len(a) : (a \o b)[i] = a[i]
          /\ \A i \in 1..Len(b) : (a \o b)[Len(a) + i] = b[i]
      BY <3>3, <3>5, Joined
    <3> DEFINE n == Len(a)
               x == a \o d
               y == a \o b
               l == Len(b)
    <3>10. /\ n \in Nat /\ l \in Nat /\ k \in 0..l /\ Len(x) = n + k /\ Len(y) = n + l
           /\ \A i \in 1..n : x[i] = y[i]
           /\ \A i \in 1..k : x[n + i] = y[n + i]
      <4>1. \A i \in 1..k : i \in 1..Len(b)
        BY <3>6
      <4>2. QED
        BY <3>6, <3>7, <3>8, <3>9, <4>1
    <3> HIDE DEF n, x, y, l
    <3>11. Begins(x, y)
      <4>1. ASSUME NEW i \in 1..(n + k) PROVE y[i] = x[i]
        <5>1. CASE i \in 1..n
          BY <3>10, <5>1
        <5>2. CASE i \notin 1..n
          <6>1. i - n \in 1..k /\ i = n + (i - n)
            BY <3>10, <5>2
          <6>2. QED
            BY <3>10, <6>1
        <5>3. QED
          BY <5>1, <5>2
      <4>2. QED
        BY <3>10, <4>1 DEF Begins
    <3>12. out = x /\ ScriptOf(s, h) = y
      BY <3>1, <3>5 DEF x, y, a, b, d
    <3>13. Begins(out, ScriptOf(s, h))
      BY <3>11, <3>12
    <3>14. QED
      BY <1>1, <1>3, <3>4, <3>13, ScriptBegins
  <2>3. QED
    BY <2>1, <2>2
<1> DEFINE t == ScriptOf(s, N)
           n == Len(out)
<1>8. /\ t \in AllLines /\ n \in Nat /\ n <= Len(t) /\ \A i \in 1..n : t[i] = out[i]
  BY <1>1, <1>4, <1>7 DEF Begins
<1> HIDE DEF t
<1>9. Len(t) \in Nat /\ n \in 0..Len(t) /\ n \in 0..n
  BY <1>8 DEF AllLines
<1>10. SubSeq(t, 1, n) \in AllLines /\ Len(SubSeq(t, 1, n)) = n /\ \A i \in 1..n : SubSeq(t, 1, n)[i] = t[i]
  BY <1>8, <1>9, FirstLines
<1>11. SubSeq(t, 1, n) = out
  BY <1>1, <1>8, <1>10, SameLines
<1>12. SubSeq(out, 1, n) = out
  BY <1>1, AllOfIt
<1>13. QED
  BY <1>2, <1>8, <1>11, <1>12 DEF IsPrefix, t

LEMMA PrintsInTurn ==
  ASSUME TypeInv, InPhase => OutInv /\ (AllWait => ScriptInv)
  PROVE  InTurn
<1>1. SUFFICES ASSUME InPhase PROVE InTurn
  BY DEF InTurn
<1>2. OutInv
  BY <1>1
<1>3. ASSUME \A c \in ToSet(program[0]) : c.op = "print" => c.barrier
      PROVE  IsPrefix(out, Script)
  <2>1. AllWait
    BY <1>3 DEF AllWait, ToSet
  <2>2. QED
    BY <1>1, <2>1, OutputIsPrefix
<1>4. QED
  BY <1>2, <1>3, LinesComeInTurn DEF InTurn

------------------------------------------------------------------------------
(* The theorems                                                            *)

PhaseStates == FileStates /\ (InPhase => PhaseInv)

LEMMA StartsInPhase ==
  ASSUME Init
  PROVE  PhaseInv
<1>1. TypeInv
  BY StartsInTypes
<1>2. /\ Programmed
      /\ \A r \in Ranks : done[r] = 0 /\ at[r] = "call" /\ returned[r] = <<>>
      /\ \A s, d \in Ranks : channel[s][d] = <<>>
      /\ out = <<>>
  BY <1>1 DEF Init, TypeInv, Types, Programmed
<1>3. ChannelInv
  <2>1. SUFFICES ASSUME NEW s \in Ranks, NEW d \in Ranks
                 PROVE  InOrder(program, channel[s][d], s, d, AtMost(s), AtLeast(s), Taking(d))
    BY DEF ChannelInv
  <2>2. AtMost(s) = 2 /\ AtLeast(s) = 2 /\ Taking(d) = 2
    BY <1>2 DEF AtMost, AtLeast, Taking, Most, Least, Took
  <2>3. ASSUME NEW i \in DOMAIN program[s], NEW j \in DOMAIN program[d], NEW kind \in Kinds,
               Travels(program, s, i, d, j, kind)
        PROVE  ~ (Time(i, kind) < 2) /\ ~ (Time(j, kind) < 2)
    <3>1. i \in Nat \ {0} /\ j \in Nat \ {0} /\ Stage(kind) \in {0, 1}
      BY <1>2, <2>3, CallOf, TravelsIs
    <3>2. QED
      BY <3>1 DEF Time
  <2>4. channel[s][d] = <<>> /\ Len(<<>>) = 0
    BY <1>2
  <2>5. Sound(program, <<>>, s, d, 2, 2) /\ Sorted(program, <<>>, s, d)
    BY DEF Sound, Sorted
  <2>6. Complete(program, <<>>, s, d, 2, 2) /\ Causal(program, s, d, 2, 2)
    BY <2>3 DEF Complete, Causal
  <2>7. QED
    BY <2>2, <2>4, <2>5, <2>6 DEF InOrder
<1>4. \A r \in Ranks : RoomOf(r) /\ ReturnedOf(r)
  BY <1>2 DEF RoomOf, ReturnedOf
<1>5. ASSUME NEW r \in Ranks, NEW i \in DOMAIN program[r] PROVE ~ Printed(r, i)
  <2>1. i \in Nat \ {0}
    BY <1>2, CallOf
  <2>2. QED
    BY <1>2, <2>1 DEF Printed
<1>6. OutInv
  BY <1>2, <1>5 DEF OutInv
<1>7. ScriptInv
  <2>1. ASSUME NEW g, NEW l PROVE ~ LineDone(g, l)
    <3>1. SUFFICES ASSUME LineDone(g, l) PROVE FALSE
      OBVIOUS
    <3>2. PICK q : q = Order(program[0][g])[l]
      OBVIOUS
    <3>3. q \in Ranks /\ \E i \in DOMAIN program[q] : Printed(q, i)
      BY <1>2, <3>1, <3>2, LineDoneIs
    <3>4. QED
      BY <1>5, <3>3
  <2>2. 0 \in 0..Len(program[0])
    <3>1. 0 \in Ranks
      BY SizeAssumption DEF Ranks
    <3>2. QED
      BY <1>2, <3>1 DEF Programmed
  <2>3. Reached(0, 0)
    BY <1>2, <2>1, <2>2 DEF Reached
  <2>4. QED
    BY <1>2, <2>3 DEF ScriptInv
<1>8. QED
  BY <1>3, <1>4, <1>6, <1>7 DEF PhaseInv

LEMMA StepKeepsPhase ==
  ASSUME FileStates, FileStates', InPhase, PhaseInv, NEW r \in Ranks, Step(r)
  PROVE  PhaseInv'
<1>1. /\ TypeInv /\ TypeInv' /\ BarrierInv /\ ChannelInv /\ OutInv
      /\ \A q \in Ranks : RoomOf(q) /\ ReturnedOf(q)
  BY DEF FileStates, PhaseInv
<1>2. Ready(r)
  <2>1. Running(r) /\ at[r] # "failed"
    BY DEF Step, SendLength, TakeLength, SendObject, TakeObject, SendHeader, SendData, RecvStart,
           PrintStart, PrintBarrier, TakeHeader, TakeData, PrintOut, WriteTurn, WriteBarrier, Leave, In
  <2>2. QED
    BY <1>1, <2>1, OnlyOneMoves DEF Ready
<1>3. ChannelInv'
  BY <1>1, StepKeepsChannels
<1>4. \A q \in Ranks : RoomOf(q)'
  BY <1>1, <1>2, StepKeepsRoom
<1>5. \A q \in Ranks : ReturnedOf(q)'
  BY <1>1, <1>2, StepKeepsReturned
<1>6. OutInv'
  BY <1>1, <1>2, QuietKeepsOutput, PrintKeepsOutput
<1>7. AllWait' => ScriptInv'
  <2>1. AllWait' => AllWait
    BY <1>2 DEF AllWait, Ready, OthersStay
  <2>2. AllWait => ScriptInv
    BY DEF PhaseInv
  <2>3. QED
    BY <1>1, <1>2, <2>1, <2>2, QuietKeepsScript, PrintKeepsScript
<1>8. QED
  BY <1>3, <1>4, <1>5, <1>6, <1>7 DEF PhaseInv

LEMMA StutteringKeepsPhase ==
  ASSUME PhaseInv, UNCHANGED vars
  PROVE  PhaseInv'
<1>1. ChannelInv'
  BY DEF PhaseInv, ChannelInv, AtMost, AtLeast, Taking, vars
<1>2. \A r \in Ranks : RoomOf(r)' /\ ReturnedOf(r)'
  BY RoomStays, ReturnsStay DEF PhaseInv, vars
<1>3. OutInv'
  BY DEF PhaseInv, OutInv, Printed, Call, vars
<1>4. AllWait' => ScriptInv'
  <2>1. SUFFICES ASSUME AllWait' PROVE ScriptInv'
    OBVIOUS
  <2>2. program' = program /\ out' = out
    BY DEF vars
  <2>3. ScriptInv
    BY <2>1, <2>2 DEF AllWait, PhaseInv
  <2>4. \A g, l : LineDone(g, l)' <=> LineDone(g, l)
    BY DEF LineDone, Pair, Printed, vars
  <2>5. PICK g, m : Reached(g, m)
    BY <2>3 DEF ScriptInv
  <2>6. Reached(g, m)'
    BY <2>2, <2>4, <2>5 DEF Reached
  <2>7. \A n \in 1..Len(out) : IsDone(n)'
    BY <2>2, <2>3, <2>4 DEF ScriptInv, IsDone
  <2>8. QED
    BY <2>2, <2>6, <2>7 DEF ScriptInv
<1>5. QED
  BY <1>1, <1>2, <1>3, <1>4 DEF PhaseInv

LEMMA PhaseStatesAlways == Spec => []PhaseStates
<1>1. Init => PhaseStates
  BY StartsWithFile, StartsInPhase DEF PhaseStates
<1>2. PhaseStates /\ [Next]_vars => PhaseStates'
  <2>1. ASSUME PhaseStates, [Next]_vars PROVE PhaseStates'
    <3>1. FileStates'
      BY <2>1, StepKeepsFileStates, StutteringKeepsFileStates DEF Next, Terminating, PhaseStates
    <3>2. program' = program
      BY <2>1, OnlyOneMoves DEF Next, Terminating, PhaseStates, FileStates, OthersStay, vars
    <3>3. InPhase' => InPhase
      <4>1. \A r, i : Behind(r, i)' = Behind(r, i)
        BY <3>2 DEF Behind
      <4>2. QED
        BY <3>2, <4>1 DEF InPhase
    <3>4. InPhase' => PhaseInv'
      BY <2>1, <3>1, <3>3, StepKeepsPhase, StutteringKeepsPhase DEF Next, Terminating, PhaseStates
    <3>5. QED
      BY <3>1, <3>4 DEF PhaseStates
  <2>2. QED
    BY <2>1
<1>3. QED
  BY <1>1, <1>2, PTL DEF Spec

\* A call that returns a value returns what the rank it names passed to the same
\* call: in a program in phase no rank takes the message of one call for that of
\* another, although all calls share a tag.
THEOREM CallsAreDelivered == Spec => []Delivered
<1>1. PhaseStates => Delivered
  BY ReturnedIsDelivered DEF PhaseStates, FileStates, PhaseInv
<1>2. QED
  BY <1>1, PhaseStatesAlways, PTL

\* In a program in phase a rank fails in a call of the ring only, and there only
\* when the lengths do not fit its buffer.
THEOREM FailuresAreLengths == Spec => []FailsOnlyOnLength
<1>1. PhaseStates => FailsOnlyOnLength
  BY FailuresAreOfLength DEF PhaseStates, PhaseInv
<1>2. QED
  BY <1>1, PhaseStatesAlways, PTL

\* The token of comm.print() makes the ranks print in the order of rank.print,
\* and the barriers make the output a prefix of what one process would print.
THEOREM RanksPrintInTurn == Spec => []InTurn
<1>1. PhaseStates => InTurn
  BY PrintsInTurn DEF PhaseStates, FileStates, PhaseInv
<1>2. QED
  BY <1>1, PhaseStatesAlways, PTL

=============================================================================
