----------------------------- MODULE MCExchange -----------------------------
EXTENDS Exchange

\* Calls
Ring(op, id, len, buffer) == [op |-> op, id |-> id, len |-> len, buffer |-> buffer]
Say(id, ranks, barrier) ==
  [op |-> "print", id |-> id, ranks |-> ranks, all |-> FALSE, barrier |-> barrier]
SayAll(id, barrier) ==
  [op |-> "print", id |-> id, ranks |-> <<0>>, all |-> TRUE, barrier |-> barrier]
Write(id, append) == [op |-> "write", id |-> id, append |-> append]
Send(id, peer) == [op |-> "send", id |-> id, peer |-> peer, len |-> 2]
Recv(id, peer) == [op |-> "recv", id |-> id, peer |-> peer]

\* Two calls of all ranks, and a message from rank 0 to rank 1 that is sent
\* before call number "sent" of rank 0 and received before number "taken" of
\* rank 1 (0: there is no message).
Insert(s, i, c) == SubSeq(s, 1, i - 1) \o <<c>> \o SubSeq(s, i, Len(s))
With(calls, sent, taken) ==
  [r \in Ranks |-> CASE r = 0 /\ sent > 0 -> Insert(calls[r], sent, Send(9, 1))
                     [] r = 1 /\ sent > 0 -> Insert(calls[r], taken, Recv(9, 0))
                     [] OTHER -> calls[r]]
Phases == {<<0, 0>>} \cup {p \in (1..3) \X (1..3) : p[1] <= p[2]}

\* Objects of three ranks: equal, and one longer than the others or too long
Lengths == {<<2, 2, 2>>, <<3, 2, 2>>, <<2, 3, 3>>, <<2, 5, 2>>}
Rounds(id) ==
  {[r \in Ranks |-> Ring(op, id, l[r + 1], 3)] : op \in Rings, l \in Lengths}
Same(c) == [r \in Ranks |-> c]
Turns(id) ==
  {Same(Say(id, ranks, b)) : ranks \in {<<0, 1, 0>>, <<2, 1>>, <<1, 1>>}, b \in BOOLEAN}
  \cup {Same(SayAll(id, b)) : b \in BOOLEAN}
  \cup {Same(Write(id, a)) : a \in BOOLEAN}

Later ==
  {Same(SayAll(2, b)) : b \in BOOLEAN} \cup {Same(Write(2, FALSE)), Same(Say(2, <<2, 1>>, FALSE))}

Both(a, b) == [r \in Ranks |-> <<a[r], b[r]>>]

\* Ring calls before and after printing, and printing and writing twice
MCPrograms ==
  {With(Both(a, b), p[1], p[2]) :
     a \in Rounds(1), b \in {Same(SayAll(2, FALSE))}, p \in {<<0, 0>>, <<1, 1>>, <<2, 2>>, <<1, 3>>}}
  \cup {With(Both(a, b), p[1], p[2]) : a \in Turns(1), b \in Rounds(2), p \in {<<0, 0>>}}
  \cup {With(Both(a, b), p[1], p[2]) : a \in Turns(1), b \in Later, p \in Phases}
=============================================================================
