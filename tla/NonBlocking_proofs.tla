------------------------- MODULE NonBlocking_proofs --------------------------
(***************************************************************************)
(* isend() and wait() can be relied on, for any ranks and programs, under  *)
(* the conditions that NonBlocking states: ShortObjects and                *)
(* WaitedBeforeDropped for Intact, WaitedAtTheEnd for WaitMeansSent.       *)
(***************************************************************************)
EXTENDS NonBlocking, TLAPS

------------------------------------------------------------------------------
(* What the table of requests says of a transfer in flight                 *)

Transfers == [rank : Ranks, id : Nat, seg : {1}]

Types ==
  /\ prog \in Programs
  /\ pc \in [Ranks -> Nat \ {0}]
  /\ at \in [Ranks -> Nat]
  /\ nb \in [Ranks -> Seq(Nat)]
  /\ req \in [Ranks -> [Requests -> Transfers \cup {None}]]
  /\ flight \subseteq Transfers
  /\ freed \subseteq Buffers

\* An isend() is a store, the header if it is checked, and one MPI_Isend.
Places == \A r \in Ranks : In(r, "isend") => at[r] \in {0, 1, 2}

RequestOf(t) == prog[t.rank][t.id].req

\* A transfer in flight is of a past isend, its request leads to it until the
\* request is used again, and no wait() has waited for it.
Flying(t) ==
  /\ t.id \in IsendsOf(prog, t.rank)
  /\ t.id < pc[t.rank]
  /\ Unused(prog, t.rank, RequestOf(t), t.id, pc[t.rank])
       => req[t.rank][RequestOf(t)] = t
  /\ \A j \in (t.id + 1)..(pc[t.rank] - 1) :
       Awaits(prog[t.rank][j], RequestOf(t))
         => ~ Unused(prog, t.rank, RequestOf(t), t.id, j)

RequestInv == Types /\ Places /\ \A t \in flight : Flying(t)

LEMMA OpIsAnOperation ==
  ASSUME Types, NEW r \in Ranks, Running(r)
  PROVE  /\ pc[r] \in 1..Len(prog[r])
         /\ Op(r) = prog[r][pc[r]]
         /\ Op(r) \in Operations
BY ProgramsAssumption DEF Types, Running, Op

LEMMA IsendIsAnOperation ==
  ASSUME Types, NEW r \in Ranks, NEW i \in IsendsOf(prog, r)
  PROVE  i \in Nat /\ i >= 1 /\ prog[r][i].req \in Requests
<1>1. i \in 1..Len(prog[r]) /\ prog[r][i] \in Operations /\ prog[r][i].op = "isend"
  BY ProgramsAssumption DEF Types, IsendsOf
<1>2. QED
  BY <1>1 DEF Operations

\* A transfer that is still in flight, while its rank stays in its operation.
LEMMA FlyingStays ==
  ASSUME NEW t \in Transfers, Flying(t), prog' = prog, pc' = pc,
         req'[t.rank][RequestOf(t)] = req[t.rank][RequestOf(t)]
  PROVE  Flying(t)'
<1>1. RequestOf(t)' = RequestOf(t)
  BY DEF RequestOf
<1>2. QED
  BY <1>1 DEF Flying, Unused, Sends, Awaits, IsendsOf

\* A transfer that is still in flight when rank r goes on.
LEMMA FlyingGoesOn ==
  ASSUME Types, NEW t \in Transfers, Flying(t), NEW r \in Ranks, prog' = prog,
         pc' = [pc EXCEPT ![r] = @ + 1],
         t.rank = r /\ Awaits(Op(r), RequestOf(t))
           => ~ Unused(prog, r, RequestOf(t), t.id, pc[r]),
         ~ (t.rank = r /\ Sends(Op(r), RequestOf(t)))
           => req'[t.rank][RequestOf(t)] = req[t.rank][RequestOf(t)]
  PROVE  Flying(t)'
<1>1. RequestOf(t)' = RequestOf(t)
  BY DEF RequestOf
<1>2. CASE t.rank # r
  <2>1. t.rank \in Ranks /\ pc'[t.rank] = pc[t.rank]
    BY <1>2 DEF Types, Transfers
  <2>2. QED
    BY <1>1, <1>2, <2>1 DEF Flying, Unused, IsendsOf
<1>3. CASE t.rank = r
  <2> DEFINE q == RequestOf(t)
  <2>0. pc[r] \in Nat /\ pc'[r] = pc[r] + 1 /\ t.id \in Nat /\ t.id < pc[r]
    BY <1>3 DEF Types, Transfers, Flying
  <2>1. t.id \in IsendsOf(prog', r) /\ t.id < pc'[r]
    BY <2>0, <1>3 DEF Flying
  <2>2. ASSUME Unused(prog', r, q, t.id, pc'[r]) PROVE req'[r][q] = t
    <3>1. Unused(prog, r, q, t.id, pc[r])
      BY <2>2, <2>0 DEF Unused
    <3>2. ~ Sends(Op(r), q)
      <4>1. pc[r] \in (t.id + 1)..(pc'[r] - 1)
        BY <2>0
      <4>2. QED
        BY <4>1, <2>2 DEF Unused, Op
    <3>3. QED
      BY <3>1, <3>2, <1>3 DEF Flying
  <2>3. ASSUME NEW j \in (t.id + 1)..(pc'[r] - 1), Awaits(prog'[r][j], q)
        PROVE  ~ Unused(prog', r, q, t.id, j)
    <3>1. CASE j = pc[r]
      BY <3>1, <2>3, <1>3 DEF Op
    <3>2. CASE j \in (t.id + 1)..(pc[r] - 1)
      BY <3>2, <2>3, <1>3 DEF Flying
    <3>3. QED
      BY <3>1, <3>2, <2>0
  <2>4. QED
    BY <2>1, <2>2, <2>3, <1>1, <1>3 DEF Flying
<1>4. QED
  BY <1>2, <1>3

\* A rank that waits for a request has no transfer in flight that the request
\* leads to.
LEMMA WaitedIsUsed ==
  ASSUME NEW t \in flight, Flying(t), req[t.rank][RequestOf(t)] \notin flight
  PROVE  ~ Unused(prog, t.rank, RequestOf(t), t.id, pc[t.rank])
BY DEF Flying

\* Rank r returns from its operation.
LEMMA FinishKeepsPlaces ==
  ASSUME Types, Places, NEW r \in Ranks, prog' = prog, Finish(r)
  PROVE  /\ pc' \in [Ranks -> Nat \ {0}]
         /\ at' \in [Ranks -> Nat]
         /\ Places'
BY DEF Types, Places, Finish, In, Running, Op

LEMMA StoreKeeps ==
  ASSUME RequestInv, NEW r \in Ranks, Store(r) PROVE RequestInv'
<1>1. nb' \in [Ranks -> Seq(Nat)] /\ at' \in [Ranks -> Nat]
  BY DEF RequestInv, Types, Store
<1>2. Types' /\ Places'
  BY <1>1 DEF RequestInv, Types, Places, Store, In, Running, Op
<1>3. \A t \in flight' : Flying(t)'
  BY FlyingStays DEF RequestInv, Types, Store
<1>4. QED
  BY <1>2, <1>3 DEF RequestInv

LEMMA HandshakeKeeps ==
  ASSUME RequestInv, NEW r \in Ranks, Handshake(r) PROVE RequestInv'
<1>1. Types' /\ Places'
  BY DEF RequestInv, Types, Places, Handshake, In, Running, Op
<1>2. \A t \in flight' : Flying(t)'
  BY FlyingStays DEF RequestInv, Types, Handshake
<1>3. QED
  BY <1>1, <1>2 DEF RequestInv

\* One MPI_Isend is all there is to a short object.
LEMMA OneIsend ==
  ASSUME RequestInv, ShortObjects(prog), NEW r \in Ranks, Isend(r)
  PROVE  \E t \in Transfers :
         /\ t = [rank |-> r, id |-> pc[r], seg |-> 1]
         /\ t.id \in IsendsOf(prog, r)
         /\ RequestOf(t) = Op(r).req /\ Op(r).req \in Requests
         /\ flight' = flight \cup {t}
         /\ req' = [req EXCEPT ![r][Op(r).req] = t]
         /\ Finish(r)
<1>0. In(r, "isend") /\ at[r] >= 2
  BY DEF Isend
<1>1. Op(r).op = "isend" /\ at[r] = 2 /\ at[r] - 1 = 1
  <2>1. at[r] \in {0, 1, 2}
    BY <1>0 DEF RequestInv, Places
  <2>2. QED
    BY <1>0, <2>1 DEF In
<1>2. pc[r] \in IsendsOf(prog, r) /\ pc[r] \in Nat
  BY <1>1, OpIsAnOperation DEF RequestInv, Types, Isend, In, IsendsOf
<1>3. Op(r).segs = 1 /\ Op(r).req \in Requests
  BY <1>2, IsendIsAnOperation DEF RequestInv, ShortObjects, Op
<1>4. QED
  BY <1>1, <1>2, <1>3 DEF Isend, Transfers, RequestOf, Op

LEMMA IsendKeeps ==
  ASSUME RequestInv, ShortObjects(prog), NEW r \in Ranks, Isend(r)
  PROVE  RequestInv'
<1>0. PICK q \in Requests : q = Op(r).req
  BY OneIsend
<1>1. PICK new \in Transfers :
      /\ new = [rank |-> r, id |-> pc[r], seg |-> 1]
      /\ new.id \in IsendsOf(prog, r)
      /\ RequestOf(new) = q
      /\ flight' = flight \cup {new}
      /\ req' = [req EXCEPT ![r][q] = new]
      /\ Finish(r)
  BY <1>0, OneIsend
<1>2. prog' = prog /\ nb' = nb /\ freed' = freed
  BY DEF Isend
<1>3. pc' \in [Ranks -> Nat \ {0}] /\ at' \in [Ranks -> Nat] /\ Places'
  BY <1>1, <1>2, FinishKeepsPlaces DEF RequestInv
<1>4. Types'
  <2>1. req' \in [Ranks -> [Requests -> Transfers \cup {None}]]
    BY <1>1 DEF RequestInv, Types
  <2>2. QED
    BY <2>1, <1>1, <1>2, <1>3 DEF RequestInv, Types
<1>5. pc' = [pc EXCEPT ![r] = @ + 1] /\ pc[r] \in Nat /\ pc'[r] = pc[r] + 1
  BY <1>1 DEF Finish, RequestInv, Types
<1>6. ASSUME NEW t \in flight PROVE Flying(t)'
  <2>1. t \in Transfers /\ t.rank \in Ranks /\ Flying(t) /\ Types
    BY DEF RequestInv, Types, Transfers
  <2>2. ~ Awaits(Op(r), RequestOf(t))
    BY DEF Isend, In, Awaits
  <2>3. ~ (t.rank = r /\ Sends(Op(r), RequestOf(t)))
          => req'[t.rank][RequestOf(t)] = req[t.rank][RequestOf(t)]
    <3>1. Op(r).op = "isend"
      BY DEF Isend, In
    <3>2. t.rank # r \/ RequestOf(t) # q
            => req'[t.rank][RequestOf(t)] = req[t.rank][RequestOf(t)]
      BY <1>1, <2>1 DEF Types
    <3>3. QED
      BY <1>0, <3>1, <3>2 DEF Sends
  <2>4. QED
    BY <2>1, <2>2, <2>3, <1>2, <1>5, FlyingGoesOn
<1>7. Flying(new)'
  <2>1. RequestOf(new)' = q
    BY <1>1, <1>2 DEF RequestOf
  <2>2. req'[r][q] = new
    BY <1>1 DEF RequestInv, Types
  <2>3. new.id \in IsendsOf(prog', r) /\ new.id < pc'[r]
    BY <1>1, <1>2, <1>5
  <2>4. (new.id + 1)..(pc'[r] - 1) = {}
    BY <1>1, <1>5
  <2>5. new.rank = r
    BY <1>1
  <2>6. QED
    BY <2>1, <2>2, <2>3, <2>4, <2>5 DEF Flying
<1>8. QED
  BY <1>1, <1>3, <1>4, <1>6, <1>7 DEF RequestInv

LEMMA RecvHeaderKeeps ==
  ASSUME RequestInv, NEW r \in Ranks, RecvHeader(r) PROVE RequestInv'
<1>1. Types' /\ Places'
  BY DEF RequestInv, Types, Places, RecvHeader, In, Running, Op
<1>2. \A t \in flight' : Flying(t)'
  BY FlyingStays DEF RequestInv, Types, RecvHeader
<1>3. QED
  BY <1>1, <1>2 DEF RequestInv

LEMMA RecvDataKeeps ==
  ASSUME RequestInv, NEW r \in Ranks, RecvData(r) PROVE RequestInv'
<1>1. /\ prog' = prog /\ nb' = nb /\ req' = req /\ freed' = freed
      /\ flight' \subseteq flight
      /\ Op(r).op = "recv"
      /\ Finish(r) \/ (pc' = pc /\ at' = [at EXCEPT ![r] = @ + 1])
  BY DEF RecvData, Read, In
<1>2. CASE Finish(r)
  <2>1. Types' /\ Places'
    BY <1>1, <1>2, FinishKeepsPlaces DEF RequestInv, Types
  <2>2. \A t \in flight' : Flying(t)'
    BY <1>1, <1>2, FlyingGoesOn DEF RequestInv, Types, Finish, Awaits
  <2>3. QED
    BY <2>1, <2>2 DEF RequestInv
<1>3. CASE pc' = pc /\ at' = [at EXCEPT ![r] = @ + 1]
  <2>1. Types' /\ Places'
    BY <1>1, <1>3 DEF RequestInv, Types, Places, In, Running, Op
  <2>2. \A t \in flight' : Flying(t)'
    BY <1>1, <1>3, FlyingStays DEF RequestInv, Types
  <2>3. QED
    BY <2>1, <2>2 DEF RequestInv
<1>4. QED
  BY <1>1, <1>2, <1>3

\* wait() and waitall() wait for the requests in Q, and r goes on.
LEMMA WaitingKeeps ==
  ASSUME RequestInv, NEW r \in Ranks, NEW Q, Finish(r),
         \A q \in Requests : Awaits(Op(r), q) <=> q \in Q,
         Op(r).op # "isend",
         \A q \in Requests : q \in Q => req[r][q] \notin flight,
         req' = [req EXCEPT ![r] = [q \in Requests |->
                                      IF q \in Q THEN None ELSE req[r][q]]],
         nb' \in [Ranks -> Seq(Nat)],
         prog' = prog, flight' = flight, freed' = freed
  PROVE  RequestInv'
<1>1. Types' /\ Places'
  <2>1. req' \in [Ranks -> [Requests -> Transfers \cup {None}]]
    BY DEF RequestInv, Types
  <2>2. QED
    BY <2>1, FinishKeepsPlaces DEF RequestInv, Types
<1>2. ASSUME NEW t \in flight PROVE Flying(t)'
  <2>1. t \in Transfers /\ t.rank \in Ranks /\ Flying(t) /\ Types
    BY DEF RequestInv, Types, Transfers
  <2>2. RequestOf(t) \in Requests
    BY <2>1, IsendIsAnOperation DEF Flying, RequestOf
  <2>3. CASE t.rank = r /\ RequestOf(t) \in Q
    \* The request led to t no longer: it was used again.
    <3>1. ~ Unused(prog, r, RequestOf(t), t.id, pc[r])
      BY <2>1, <2>2, <2>3, WaitedIsUsed
    <3>2. RequestOf(t)' = RequestOf(t)
      BY DEF RequestOf
    <3>3. pc[r] \in Nat /\ pc'[r] = pc[r] + 1 /\ t.id \in Nat /\ t.id < pc[r]
      BY <2>1, <2>3 DEF Types, Transfers, Flying, Finish
    <3>4. ~ Unused(prog, r, RequestOf(t), t.id, pc'[r])
      BY <3>1, <3>3 DEF Unused
    <3>5. ASSUME NEW j \in (t.id + 1)..(pc'[r] - 1), Awaits(prog[r][j], RequestOf(t))
          PROVE  ~ Unused(prog, r, RequestOf(t), t.id, j)
      BY <3>1, <3>3, <3>5, <2>1, <2>3 DEF Flying
    <3>6. QED
      BY <3>2, <3>3, <3>4, <3>5, <2>1, <2>3 DEF Flying, IsendsOf
  <2>4. CASE ~ (t.rank = r /\ RequestOf(t) \in Q)
    <3>1. req'[t.rank][RequestOf(t)] = req[t.rank][RequestOf(t)]
      BY <2>1, <2>2, <2>4 DEF Types
    <3>2. t.rank = r => ~ Awaits(Op(r), RequestOf(t))
      BY <2>2, <2>4
    <3>3. QED
      BY <3>1, <3>2, <2>1, FlyingGoesOn DEF Finish
  <2>5. QED
    BY <2>3, <2>4
<1>3. QED
  BY <1>1, <1>2 DEF RequestInv

LEMMA WaitKeeps ==
  ASSUME RequestInv, NEW r \in Ranks, Wait(r) PROVE RequestInv'
<1> DEFINE q == Op(r).req
<1>1. Op(r).op = "wait" /\ Finish(r) /\ req[r][q] \notin flight
  BY DEF Wait, In
<1>2. \A p \in Requests : Awaits(Op(r), p) <=> p \in {q}
  BY <1>1 DEF Awaits
<1>3. req' = [req EXCEPT ![r] =
                        [p \in Requests |-> IF p \in {q} THEN None ELSE req[r][p]]]
  <2>1. req' = [req EXCEPT ![r] = [req[r] EXCEPT ![q] = None]]
    BY DEF Wait
  <2>2. [req[r] EXCEPT ![q] = None]
          = [p \in Requests |-> IF p \in {q} THEN None ELSE req[r][p]]
    BY DEF RequestInv, Types
  <2>3. QED
    BY <2>1, <2>2
<1>4. nb' \in [Ranks -> Seq(Nat)]
  BY DEF Wait, RequestInv, Types
<1>5. QED
  BY <1>1, <1>2, <1>3, <1>4, WaitingKeeps DEF Wait

LEMMA WaitAllKeeps ==
  ASSUME RequestInv, NEW r \in Ranks, WaitAll(r) PROVE RequestInv'
<1> DEFINE Q == {q \in Requests : q < Op(r).count}
<1>1. /\ Op(r).op = "waitall" /\ Finish(r)
      /\ \A q \in Requests : q \in Q => req[r][q] \notin flight
  BY DEF WaitAll, In
<1>2. \A q \in Requests : Awaits(Op(r), q) <=> q \in Q
  BY <1>1 DEF Awaits
<1>3. req' = [req EXCEPT ![r] = [q \in Requests |-> IF q \in Q THEN None ELSE req[r][q]]]
  BY DEF WaitAll
<1>4. nb' \in [Ranks -> Seq(Nat)]
  BY DEF WaitAll, RequestInv, Types
<1>5. QED
  BY <1>1, <1>2, <1>3, <1>4, WaitingKeeps DEF WaitAll

LEMMA CopyKeeps ==
  ASSUME RequestInv, NEW t \in flight, Copy(t) PROVE RequestInv'
<1>1. Types' /\ Places'
  BY DEF RequestInv, Types, Places, Copy, Read, In, Running, Op
<1>2. \A u \in flight' : Flying(u)'
  BY FlyingStays DEF RequestInv, Types, Copy, Read
<1>3. QED
  BY <1>1, <1>2 DEF RequestInv

LEMMA CollectKeeps ==
  ASSUME RequestInv, NEW r \in Ranks, Collect(r) PROVE RequestInv'
<1>1. Garbage(r) \subseteq Buffers
  BY DEF Garbage, Buffers, RequestInv, Types
<1>2. Types' /\ Places'
  BY <1>1 DEF RequestInv, Types, Places, Collect, In, Running, Op
<1>3. \A t \in flight' : Flying(t)'
  BY FlyingStays DEF RequestInv, Types, Collect
<1>4. QED
  BY <1>2, <1>3 DEF RequestInv

LEMMA RequestsStart == ASSUME Init PROVE RequestInv
<1>1. nb \in [Ranks -> Seq(Nat)]
  BY DEF Init
<1>2. QED
  BY <1>1 DEF Init, RequestInv, Types, Places, In

LEMMA RequestsStep ==
  ASSUME RequestInv, ShortObjects(prog), [Next]_vars PROVE RequestInv'
<1>1. ASSUME NEW r \in Ranks, Step(r) PROVE RequestInv'
  BY <1>1, StoreKeeps, HandshakeKeeps, IsendKeeps, RecvHeaderKeeps, RecvDataKeeps,
     WaitKeeps, WaitAllKeeps DEF Step
<1>2. CASE UNCHANGED vars
  <2>1. Types' /\ Places'
    BY <1>2 DEF vars, RequestInv, Types, Places, In, Running, Op
  <2>2. \A t \in flight' : Flying(t)'
    BY <1>2, FlyingStays DEF vars, RequestInv, Types
  <2>3. QED
    BY <2>1, <2>2 DEF RequestInv
<1>3. QED
  BY <1>1, <1>2, CopyKeeps, CollectKeeps DEF Next, Terminating

------------------------------------------------------------------------------
(* Where the vector of a transfer in flight is                             *)

StoredInv ==
  /\ torn = {}
  /\ \A r \in Ranks : In(r, "isend") /\ at[r] # 0 => pc[r] \in Kept(r)
  /\ \A b \in freed : b.id < pc[b.rank]
  /\ \A t \in flight : t.id \in Kept(t.rank) /\ Buffer(t) \notin freed

\* The vectors of r that are kept, and the place of r, do not change, no
\* vector is collected and no transfer begins.
LEMMA StoredStays ==
  ASSUME StoredInv, prog' = prog, pc' = pc, nb' = nb, freed' = freed, torn' = torn,
         flight' \subseteq flight,
         \A r \in Ranks : In(r, "isend") /\ at'[r] # 0 => at[r] # 0
  PROVE  StoredInv'
<1>1. \A r \in Ranks : In(r, "isend")' <=> In(r, "isend")
  BY DEF In, Running, Op
<1>2. \A r : Kept(r)' = Kept(r)
  BY DEF Kept
<1>3. QED
  BY <1>1, <1>2 DEF StoredInv, Buffer

\* A rank goes on with the vectors it had.
LEMMA StoredGoesOn ==
  ASSUME RequestInv, StoredInv, NEW r \in Ranks, Finish(r), prog' = prog, nb' = nb,
         freed' = freed, torn' = torn, flight' \subseteq flight
  PROVE  StoredInv'
<1>1. /\ pc' = [pc EXCEPT ![r] = @ + 1] /\ at' = [at EXCEPT ![r] = 0]
      /\ pc \in [Ranks -> Nat] /\ at \in [Ranks -> Nat] /\ freed \subseteq Buffers
  BY DEF Finish, RequestInv, Types
<1>2. \A s \in Ranks : Kept(s)' = Kept(s)
  BY DEF Kept
<1>3. ASSUME NEW s \in Ranks, In(s, "isend")', at'[s] # 0 PROVE pc'[s] \in Kept(s)'
  <2>1. s # r
    BY <1>1, <1>3
  <2>2. pc'[s] = pc[s] /\ at'[s] = at[s]
    BY <1>1, <2>1
  <2>3. In(s, "isend")
    BY <1>3, <2>2 DEF In, Running, Op
  <2>4. QED
    BY <1>2, <1>3, <2>2, <2>3 DEF StoredInv
<1>4. ASSUME NEW b \in freed PROVE b.id < pc'[b.rank]
  <2>1. b.id \in Nat /\ b.rank \in Ranks /\ b.id < pc[b.rank]
    BY <1>1 DEF Buffers, StoredInv
  <2>2. pc'[b.rank] \in Nat /\ pc[b.rank] <= pc'[b.rank]
    BY <1>1, <2>1
  <2>3. QED
    BY <1>1, <2>1, <2>2
<1>5. ASSUME NEW t \in flight PROVE t.id \in Kept(t.rank)' /\ Buffer(t) \notin freed
  <2>1. t.rank \in Ranks
    BY DEF RequestInv, Types, Transfers
  <2>2. QED
    BY <1>2, <2>1 DEF StoredInv
<1>6. QED
  BY <1>3, <1>4, <1>5 DEF StoredInv, Buffer

LEMMA StoreStored ==
  ASSUME RequestInv, StoredInv, NEW r \in Ranks, Store(r) PROVE StoredInv'
<1>1. /\ nb' = [nb EXCEPT ![r] = Append(@, pc[r])] /\ nb \in [Ranks -> Seq(Nat)]
      /\ pc \in [Ranks -> Nat]
  BY DEF Store, RequestInv, Types
<1>2. \A s \in Ranks : Kept(s) \subseteq Kept(s)'
  <2>1. SUFFICES ASSUME NEW s \in Ranks, s = r PROVE Kept(s) \subseteq Kept(s)'
    BY <1>1 DEF Kept
  <2>2. nb'[s] = Append(nb[s], pc[s]) /\ nb[s] \in Seq(Nat) /\ pc[s] \in Nat
    BY <1>1, <2>1
  <2>3. \A k \in 1..Len(nb[s]) : k \in 1..Len(nb'[s]) /\ nb'[s][k] = nb[s][k]
    BY <2>2
  <2>4. QED
    BY <2>3 DEF Kept
<1>3. pc[r] \in Kept(r)'
  <2>1. nb'[r] = Append(nb[r], pc[r]) /\ nb[r] \in Seq(Nat) /\ pc[r] \in Nat
    BY <1>1
  <2>2. Len(nb'[r]) \in 1..Len(nb'[r]) /\ nb'[r][Len(nb'[r])] = pc[r]
    BY <2>1
  <2>3. QED
    BY <2>2 DEF Kept
<1>4. \A s \in Ranks : In(s, "isend")' /\ at'[s] # 0 => pc'[s] \in Kept(s)'
  <2>1. SUFFICES ASSUME NEW s \in Ranks, In(s, "isend")', at'[s] # 0
                 PROVE  pc'[s] \in Kept(s)'
    OBVIOUS
  <2>2. In(s, "isend") /\ pc'[s] = pc[s]
    BY <2>1 DEF Store, In, Running, Op
  <2>3. CASE s = r
    BY <1>3, <2>2, <2>3
  <2>4. CASE s # r
    <3>1. at'[s] = at[s]
      BY <2>4 DEF Store, RequestInv, Types
    <3>2. QED
      BY <2>1, <2>2, <3>1, <1>2 DEF StoredInv
  <2>5. QED
    BY <2>3, <2>4
<1>5. \A t \in flight : t.rank \in Ranks
  BY DEF RequestInv, Types, Transfers
<1>6. QED
  BY <1>2, <1>4, <1>5 DEF StoredInv, Store, Buffer

LEMMA IsendStored ==
  ASSUME RequestInv, StoredInv, ShortObjects(prog), NEW r \in Ranks, Isend(r)
  PROVE  StoredInv'
<1>0. PICK new \in Transfers :
      /\ new = [rank |-> r, id |-> pc[r], seg |-> 1]
      /\ flight' = flight \cup {new}
      /\ Finish(r)
  BY OneIsend
<1>1. new.id \in Kept(r)
  <2>1. In(r, "isend") /\ at[r] # 0
    BY DEF Isend, RequestInv, Types
  <2>2. QED
    BY <2>1, <1>0 DEF StoredInv
<1>2. Buffer(new) \notin freed
  <2>1. SUFFICES ASSUME Buffer(new) \in freed PROVE FALSE
    OBVIOUS
  <2>2. Buffer(new).id = pc[r] /\ Buffer(new).rank = r /\ pc[r] \in Nat
    BY <1>0 DEF Buffer, RequestInv, Types
  <2>3. QED
    BY <2>1, <2>2 DEF StoredInv
<1>3. /\ pc' = [pc EXCEPT ![r] = @ + 1] /\ at' = [at EXCEPT ![r] = 0]
      /\ pc \in [Ranks -> Nat] /\ at \in [Ranks -> Nat] /\ freed \subseteq Buffers
      /\ prog' = prog /\ nb' = nb /\ freed' = freed /\ torn' = torn
  BY <1>0 DEF Finish, RequestInv, Types, Isend
<1>4. \A s \in Ranks : Kept(s)' = Kept(s)
  BY <1>3 DEF Kept
<1>5. ASSUME NEW s \in Ranks, In(s, "isend")', at'[s] # 0 PROVE pc'[s] \in Kept(s)'
  <2>1. s # r
    BY <1>3, <1>5
  <2>2. pc'[s] = pc[s] /\ at'[s] = at[s]
    BY <1>3, <2>1
  <2>3. In(s, "isend")
    BY <1>3, <1>5, <2>2 DEF In, Running, Op
  <2>4. QED
    BY <1>4, <1>5, <2>2, <2>3 DEF StoredInv
<1>6. ASSUME NEW b \in freed PROVE b.id < pc'[b.rank]
  <2>1. b.id \in Nat /\ b.rank \in Ranks /\ b.id < pc[b.rank]
    BY <1>3 DEF Buffers, StoredInv
  <2>2. pc'[b.rank] \in Nat /\ pc[b.rank] <= pc'[b.rank] /\ pc[b.rank] \in Nat
    BY <1>3, <2>1
  <2>3. QED
    BY <2>1, <2>2
<1>7. ASSUME NEW t \in flight' PROVE t.id \in Kept(t.rank)' /\ Buffer(t) \notin freed'
  <2>1. CASE t = new
    BY <2>1, <1>0, <1>1, <1>2, <1>3, <1>4
  <2>2. CASE t \in flight
    BY <2>2, <1>3, <1>4 DEF StoredInv, RequestInv, Types, Transfers
  <2>3. QED
    BY <1>0, <2>1, <2>2
<1>8. QED
  BY <1>3, <1>5, <1>6, <1>7 DEF StoredInv, Buffer

\* MPI reads only vectors that are still there.
LEMMA ReadTearsNothing ==
  ASSUME StoredInv, NEW ts, Read(ts) PROVE torn' = torn /\ flight' \subseteq flight
<1>1. {t \in ts \cap flight : Buffer(t) \in freed} = {}
  BY DEF StoredInv
<1>2. QED
  BY <1>1 DEF Read, StoredInv

LEMMA RecvDataStored ==
  ASSUME RequestInv, StoredInv, NEW r \in Ranks, RecvData(r) PROVE StoredInv'
<1>1. /\ prog' = prog /\ nb' = nb /\ freed' = freed
      /\ torn' = torn /\ flight' \subseteq flight
  BY ReadTearsNothing DEF RecvData
<1>2. CASE Finish(r)
  BY <1>1, <1>2, StoredGoesOn
<1>3. CASE pc' = pc /\ at' = [at EXCEPT ![r] = @ + 1]
  <2>1. \A s \in Ranks : In(s, "isend") /\ at'[s] # 0 => at[s] # 0
    BY <1>3 DEF RequestInv, Types, RecvData, In
  <2>2. QED
    BY <1>1, <1>3, <2>1, StoredStays
<1>4. QED
  BY <1>2, <1>3 DEF RecvData

\* A wait() that drops the vectors of its rank drops none that is in flight.
LEMMA WaitDropsNoneInFlight ==
  ASSUME RequestInv, WaitedBeforeDropped(prog), NEW r \in Ranks, Wait(r)
  PROVE  \A t \in flight : t.rank # r
<1>1. SUFFICES ASSUME NEW t \in flight, t.rank = r PROVE FALSE
  OBVIOUS
<1> DEFINE q == RequestOf(t)
<1>2. /\ t \in Transfers /\ Flying(t) /\ t.id \in IsendsOf(prog, r) /\ t.id < pc[r]
      /\ t.id \in Nat /\ pc[r] \in Nat
  BY <1>1 DEF RequestInv, Types, Transfers, Flying
<1>3. pc[r] \in 1..Len(prog[r]) /\ prog[r][pc[r]].op = "wait"
  BY OpIsAnOperation DEF RequestInv, Wait, In, Op
<1>4. PICK j \in (t.id + 1)..pc[r] : /\ Awaits(prog[r][j], q)
                                     /\ Unused(prog, r, q, t.id, j)
  BY <1>1, <1>2, <1>3 DEF WaitedBeforeDropped, Awaited, RequestOf
<1>5. j = pc[r]
  BY <1>1, <1>2, <1>4 DEF Flying
<1>6. req[r][q] = t
  BY <1>1, <1>2, <1>4, <1>5 DEF Flying
<1>7. Op(r).req = q
  BY <1>3, <1>4, <1>5 DEF Awaits, Op
<1>8. QED
  BY <1>6, <1>7 DEF Wait

LEMMA WaitStored ==
  ASSUME RequestInv, StoredInv, WaitedBeforeDropped(prog), NEW r \in Ranks, Wait(r)
  PROVE  StoredInv'
<1>1. /\ pc' = [pc EXCEPT ![r] = @ + 1] /\ at' = [at EXCEPT ![r] = 0]
      /\ nb' = [nb EXCEPT ![r] = <<>>]
      /\ pc \in [Ranks -> Nat] /\ at \in [Ranks -> Nat] /\ freed \subseteq Buffers
      /\ nb \in [Ranks -> Seq(Nat)] /\ flight \subseteq Transfers
      /\ prog' = prog /\ flight' = flight /\ freed' = freed /\ torn' = torn
  BY DEF Wait, Finish, RequestInv, Types
<1>2. \A s \in Ranks : s # r => Kept(s)' = Kept(s)
  BY <1>1 DEF Kept
<1>3. ASSUME NEW s \in Ranks, In(s, "isend")', at'[s] # 0 PROVE pc'[s] \in Kept(s)'
  <2>1. s # r
    BY <1>1, <1>3
  <2>2. pc'[s] = pc[s] /\ at'[s] = at[s]
    BY <1>1, <2>1
  <2>3. In(s, "isend")
    BY <1>1, <1>3, <2>2 DEF In, Running, Op
  <2>4. QED
    BY <1>2, <1>3, <2>1, <2>2, <2>3 DEF StoredInv
<1>4. ASSUME NEW b \in freed PROVE b.id < pc'[b.rank]
  <2>1. b.id \in Nat /\ b.rank \in Ranks /\ b.id < pc[b.rank]
    BY <1>1 DEF Buffers, StoredInv
  <2>2. pc'[b.rank] \in Nat /\ pc[b.rank] <= pc'[b.rank] /\ pc[b.rank] \in Nat
    BY <1>1, <2>1
  <2>3. QED
    BY <2>1, <2>2
<1>5. ASSUME NEW t \in flight PROVE t.id \in Kept(t.rank)' /\ Buffer(t) \notin freed
  BY <1>1, <1>2, WaitDropsNoneInFlight DEF StoredInv, Transfers
<1>6. QED
  BY <1>1, <1>3, <1>4, <1>5 DEF StoredInv, Buffer

LEMMA CollectStored ==
  ASSUME RequestInv, StoredInv, NEW r \in Ranks, Collect(r) PROVE StoredInv'
<1>1. ASSUME NEW b \in Garbage(r)
      PROVE  b.rank = r /\ b.id < pc[r] /\ b.id \notin Kept(r)
  BY DEF Garbage, RequestInv, Types
<1>2. \A s \in Ranks : Kept(s)' = Kept(s) /\ (In(s, "isend")' <=> In(s, "isend"))
  BY DEF Collect, Kept, In, Running, Op
<1>3. ASSUME NEW t \in flight PROVE Buffer(t) \notin Garbage(r)
  <2>1. Buffer(t).rank = t.rank /\ Buffer(t).id = t.id
    BY DEF Buffer
  <2>2. QED
    BY <1>1, <2>1 DEF StoredInv
<1>4. \A t \in flight : t.rank \in Ranks
  BY DEF RequestInv, Types, Transfers
<1>5. QED
  BY <1>1, <1>2, <1>3, <1>4 DEF StoredInv, Collect, Buffer

LEMMA StoredStep ==
  ASSUME RequestInv, StoredInv, ShortObjects(prog), WaitedBeforeDropped(prog),
         [Next]_vars
  PROVE  StoredInv'
<1>1. ASSUME NEW r \in Ranks, Handshake(r) PROVE StoredInv'
  <2>1. \A s \in Ranks : In(s, "isend") /\ at'[s] # 0 => at[s] # 0
    BY <1>1 DEF Handshake, RequestInv, Types
  <2>2. QED
    BY <1>1, <2>1, StoredStays DEF Handshake
<1>2. ASSUME NEW r \in Ranks, RecvHeader(r) PROVE StoredInv'
  <2>1. \A s \in Ranks : In(s, "isend") /\ at'[s] # 0 => at[s] # 0
    BY <1>2 DEF RecvHeader, RequestInv, Types, In
  <2>2. QED
    BY <1>2, <2>1, StoredStays DEF RecvHeader
<1>3. ASSUME NEW r \in Ranks, WaitAll(r) PROVE StoredInv'
  BY <1>3, StoredGoesOn DEF WaitAll
<1>4. ASSUME NEW r \in Ranks, Step(r) PROVE StoredInv'
  BY <1>1, <1>2, <1>3, <1>4, StoreStored, IsendStored, RecvDataStored, WaitStored DEF Step
<1>5. ASSUME NEW t \in flight, Copy(t) PROVE StoredInv'
  BY <1>5, StoredStays, ReadTearsNothing DEF Copy
<1>6. CASE UNCHANGED vars
  BY <1>6, StoredStays DEF vars
<1>7. QED
  BY <1>4, <1>5, <1>6, CollectStored DEF Next, Terminating

------------------------------------------------------------------------------
(* The theorems                                                            *)

LEMMA RequestsHold ==
  ASSUME \A p \in Programs : ShortObjects(p) PROVE Spec => []RequestInv
<1>1. RequestInv /\ [Next]_vars => RequestInv'
  BY RequestsStep DEF RequestInv, Types
<1>2. QED
  BY <1>1, RequestsStart, PTL DEF Spec

\* No isend() sends anything but what it serialized (R/spmd_isend.r:8-11), if
\* every wait() comes when the earlier isends of its rank have been waited for,
\* but for the one that it waits for itself (R/spmd_wait.r:3-10).
THEOREM WaitedIsIntact ==
  ASSUME \A p \in Programs : ShortObjects(p) /\ WaitedBeforeDropped(p)
  PROVE  Spec => []Intact
<1>1. Init => StoredInv
  BY DEF Init, StoredInv
<1>2. RequestInv /\ StoredInv /\ [Next]_vars => StoredInv'
  BY StoredStep DEF RequestInv, Types
<1>3. StoredInv => Intact
  BY DEF StoredInv, Intact
<1>4. Spec => []RequestInv
  BY RequestsHold
<1>5. QED
  BY <1>1, <1>2, <1>3, <1>4, PTL DEF Spec

\* A rank that waited for every request before it used it again is past its
\* sends at the end of its program (R/spmd_isend.r:15-16).
THEOREM WaitedIsSent ==
  ASSUME \A p \in Programs : ShortObjects(p) /\ WaitedAtTheEnd(p)
  PROVE  Spec => []WaitMeansSent
<1>1. RequestInv => WaitMeansSent
  <2>1. SUFFICES ASSUME RequestInv, NEW t \in flight, ~ Running(t.rank) PROVE FALSE
    BY DEF WaitMeansSent
  <2>2. /\ t.rank \in Ranks /\ prog \in Programs /\ pc[t.rank] \in Nat
        /\ t.id \in IsendsOf(prog, t.rank) /\ Flying(t)
    BY <2>1 DEF RequestInv, Types, Transfers, Flying
  <2>3. PICK j \in (t.id + 1)..Len(prog[t.rank]) :
          /\ Awaits(prog[t.rank][j], RequestOf(t))
          /\ Unused(prog, t.rank, RequestOf(t), t.id, j)
    BY <2>2 DEF WaitedAtTheEnd, Awaited, RequestOf
  <2>4. Len(prog[t.rank]) \in Nat /\ t.id \in Nat
    BY <2>2, ProgramsAssumption DEF IsendsOf
  <2>5. j \in (t.id + 1)..(pc[t.rank] - 1)
    BY <2>1, <2>2, <2>3, <2>4 DEF Running
  <2>6. QED
    BY <2>2, <2>3, <2>5 DEF Flying
<1>2. Spec => []RequestInv
  BY RequestsHold
<1>3. QED
  BY <1>1, <1>2, PTL
=============================================================================
