----------------------------- MODULE RngStreams -----------------------------
(***************************************************************************)
(* comm.set.seed() and comm.set.stream() of R/comm_seed.r, and the streams *)
(* that comm.chunk(rng = TRUE) sets up.                                    *)
(*                                                                         *)
(* A .Random.seed of the L'Ecuyer generator is where it is in its sequence *)
(* of streams: the seed the sequence began with, the stream and the number *)
(* of draws made from it.  nextRNGStream() jumps one stream ahead and      *)
(* keeps the position.                                                     *)
(***************************************************************************)
EXTENDS Chunk, FiniteSets

CONSTANTS
  MaxSize,    \* communicators of 1..MaxSize ranks
  MaxItems,   \* chunks of 0..MaxItems items
  Seeds,      \* the seeds a program may give
  MaxOps,     \* operations of one program
  NULL

\* Where a generator may be: a .Random.seed of a given seed, or of a rank's own.
Positions == [base : Seeds \cup Nat, stream : Nat, pos : Nat]

ASSUME BoundsAssumption ==
  /\ {MaxSize, MaxItems, MaxOps} \subseteq Nat
  /\ MaxSize > 0 /\ NULL \notin Seeds /\ NULL \notin Positions

VARIABLES
  size,     \* comm.size()
  ops,      \* operations made so far
  setup,    \* what the last comm.set.seed() was asked for (history)
  random,   \* random[r]: .Random.seed of rank r
  name,     \* name[r]: RNG$name
  streams,  \* streams[r]: RNG$streams, a function on the names
  paused,   \* paused[r]: RNG$state, a function on the names
  saved,    \* saved[r]: the state that comm.set.stream() returned last
  left,     \* left[r][n]: where stream n was left (history)
  alive     \* alive[r]: rank r has not been stopped

vars == <<size, ops, setup, random, name, streams, paused, saved, left, alive>>

Ranks == 0..(size - 1)

\* set.seed(s)
Seed(s) == [base |-> s, stream |-> 1, pos |-> 0]

\* parallel::nextRNGStream()
nextRNGStream(x) == [x EXCEPT !.stream = @ + 1]

Single(n, x) == [k \in {n} |-> x]
Without(f, n) == [k \in DOMAIN f \ {n} |-> f[k]]
With(f, n, x) == [k \in DOMAIN f \cup {n} |-> IF k = n THEN x ELSE f[k]]

Operation == ops < MaxOps /\ ops' = ops + 1

------------------------------------------------------------------------------
(* comm.set.seed()                                                         *)

\* What is asked for: the same stream everywhere, one by rank, or one for
\* every item of a chunk.
Setups ==
  {[kind |-> "same"], [kind |-> "rank"]}
    \cup [kind : {"vector"}, N : 0..MaxItems, div : Divisions]

\* The vector of stream names comm.chunk() passes on.
Wanted(s, r) == ChunkVector(s.N, s.div, size, r)

\* all(seq(first, last, 1) == streams) of items that rise; seq_len(NA - 1)
\* fails without any item.
Sequential(v) ==
  v # <<>> /\ v = [k \in 1..(v[Len(v)] - v[1] + 1) |-> v[1] + k - 1]

\* for(i in seq_len(n)) x <- nextRNGStream(x)
Skip(x, n) ==
  LET skipped[i \in 0..n] == IF i = 0 THEN x ELSE nextRNGStream(skipped[i - 1]) IN
  skipped[n]

\* The loop over streams[-1]: Lseed after the k-th of the "count" streams asked
\* for, the first of which begins at "from".
SeedsFrom(from, count) ==
  LET Lseed[k \in 1..count] == IF k = 1 THEN from ELSE nextRNGStream(Lseed[k - 1]) IN
  Lseed

\* RNG$streams, with the k-th seed under the k-th name
Named(names, seeds) ==
  [n \in ToSet(names) |-> seeds[CHOOSE k \in DOMAIN names : names[k] = n]]

\* Slip: the skip to the first needed stream is one too long.
StreamsFor_OneTooFar(s, main, r) ==
  LET my == Wanted(s, r) IN
  CASE s.kind = "same" -> Single(1, main)
    [] s.kind = "rank" -> Single(r + 1, Skip(main, r))
    [] s.kind = "vector" -> Named(my, SeedsFrom(Skip(main, my[1]), Len(my)))

\* Slip: a rank does not skip to its first stream.
StreamsFor_NoSkip(s, main, r) ==
  LET my == Wanted(s, r) IN
  CASE s.kind = "same" -> Single(1, main)
    [] s.kind = "rank" -> Single(r + 1, Skip(main, r))
    [] s.kind = "vector" -> Named(my, SeedsFrom(main, Len(my)))

\* RNG$streams of rank r, when the main generator is at "main".
StreamsFor(s, main, r) ==
  LET my == Wanted(s, r) IN
  CASE s.kind = "same" -> Single(1, main)
    [] s.kind = "rank" -> Single(r + 1, Skip(main, r))
    [] s.kind = "vector" -> Named(my, SeedsFrom(Skip(main, my[1] - 1), Len(my)))

FirstName(s, r) ==
  CASE s.kind = "same" -> 1
    [] s.kind = "rank" -> r + 1
    [] s.kind = "vector" -> Wanted(s, r)[1]

Served(s, r) == s.kind = "vector" => Sequential(Wanted(s, r))

\* The broadcast of the seed brings the ranks together; a rank that cannot be
\* served is stopped.  Programs are assumed to restore only states they saved
\* since (the code does not check it), so "saved" is forgotten.
SetSeed(s, seed) ==
  LET main(r) == IF seed = NULL THEN random[r] ELSE Seed(seed) IN
  /\ Operation
  /\ \A r \in Ranks : alive[r]
  /\ setup' = [how |-> s, seed |-> seed]
  /\ alive' = [r \in Ranks |-> Served(s, r)]
  /\ streams' = [r \in Ranks |-> IF alive'[r] THEN StreamsFor(s, main(r), r) ELSE streams[r]]
  /\ name' = [r \in Ranks |-> IF alive'[r] THEN FirstName(s, r) ELSE name[r]]
  /\ paused' = [r \in Ranks |-> IF alive'[r] THEN <<>> ELSE paused[r]]
  /\ random' = [r \in Ranks |-> IF alive'[r] THEN streams'[r][name'[r]] ELSE main(r)]
  /\ left' = streams'
  /\ saved' = [r \in Ranks |-> NULL]
  /\ UNCHANGED size

------------------------------------------------------------------------------
(* comm.set.stream()                                                       *)

\* After comm.set.seed(), a rank draws a number.
Draw(r) ==
  /\ Operation
  /\ setup # NULL /\ alive[r]
  /\ random' = [random EXCEPT ![r].pos = @ + 1]
  /\ left' = [left EXCEPT ![r][name[r]] = random'[r]]
  /\ UNCHANGED <<size, setup, name, streams, paused, saved, alive>>

\* Leave the stream of rank r for stream n of that rank: "start" it where it
\* begins (NULL: where it was paused, if it was).
GoTo(r, n, start) ==
  LET kept == IF n = name[r] THEN paused[r] ELSE With(paused[r], name[r], random[r])
      here == CASE start # NULL -> start
                [] start = NULL /\ n \in DOMAIN kept -> kept[n]
                [] OTHER -> streams[r][n] IN
  /\ random' = [random EXCEPT ![r] = here]
  /\ paused' = [paused EXCEPT ![r] = Without(kept, n)]
  /\ name' = [name EXCEPT ![r] = n]
  /\ saved' = [saved EXCEPT ![r] = [name |-> n, seed |-> here]]

\* Slip: the state of the stream that is left is not kept.
Switch_Forgets(r, n) ==
  /\ Operation
  /\ setup # NULL /\ alive[r]
  /\ n \in DOMAIN streams[r] \ {name[r]}
  /\ random' = [random EXCEPT ![r] = IF n \in DOMAIN paused[r] THEN paused[r][n] ELSE streams[r][n]]
  /\ paused' = [paused EXCEPT ![r] = Without(@, n)]
  /\ name' = [name EXCEPT ![r] = n]
  /\ saved' = [saved EXCEPT ![r] = [name |-> n, seed |-> random'[r]]]
  /\ UNCHANGED <<size, setup, streams, left, alive>>

\* comm.set.stream(n).  The current stream is not paused, so a switch to it
\* starts it again.
Switch(r, n) ==
  /\ Operation
  /\ setup # NULL /\ alive[r]
  /\ n \in DOMAIN streams[r]
  /\ GoTo(r, n, NULL)
  /\ left' = IF n = name[r] THEN [left EXCEPT ![r][n] = streams[r][n]] ELSE left
  /\ UNCHANGED <<size, setup, streams, alive>>

\* comm.set.stream(n), or of a saved state, for a stream the rank does not
\* have: comm.stop()
SwitchFails(r, n) ==
  /\ Operation
  /\ setup # NULL /\ alive[r]
  /\ n \notin DOMAIN streams[r]
  /\ alive' = [alive EXCEPT ![r] = FALSE]
  /\ UNCHANGED <<size, setup, random, name, streams, paused, saved, left>>

\* comm.set.stream(reset = TRUE)
Reset(r) ==
  /\ Operation
  /\ setup # NULL /\ alive[r]
  /\ GoTo(r, name[r], streams[r][name[r]])
  /\ left' = [left EXCEPT ![r][name[r]] = streams[r][name[r]]]
  /\ UNCHANGED <<size, setup, streams, alive>>

\* state <- comm.set.stream()
SaveState(r) ==
  /\ Operation
  /\ setup # NULL /\ alive[r]
  /\ saved' = [saved EXCEPT ![r] = [name |-> name[r], seed |-> random[r]]]
  /\ UNCHANGED <<size, setup, random, name, streams, paused, left, alive>>

\* comm.set.stream(state = state)
Restore(r) ==
  /\ Operation
  /\ setup # NULL /\ alive[r] /\ saved[r] # NULL
  /\ saved[r].name \in DOMAIN streams[r]
  /\ GoTo(r, saved[r].name, saved[r].seed)
  /\ left' = [left EXCEPT ![r][saved[r].name] = saved[r].seed]
  /\ UNCHANGED <<size, setup, streams, alive>>

------------------------------------------------------------------------------
Init ==
  /\ size \in 1..MaxSize
  /\ ops = 0 /\ setup = NULL
  /\ random = [r \in Ranks |-> [base |-> r, stream |-> 1, pos |-> 0]]
  /\ name = [r \in Ranks |-> NULL]
  /\ streams = [r \in Ranks |-> <<>>]
  /\ paused = [r \in Ranks |-> <<>>]
  /\ saved = [r \in Ranks |-> NULL]
  /\ left = [r \in Ranks |-> <<>>]
  /\ alive = [r \in Ranks |-> TRUE]

Terminating ==
  /\ ops = MaxOps \/ \E r \in Ranks : ~ alive[r]
  /\ UNCHANGED vars

Next ==
  \/ \E s \in Setups, seed \in Seeds \cup {NULL} : SetSeed(s, seed)
  \/ \E r \in Ranks : Draw(r) \/ Reset(r) \/ SaveState(r) \/ Restore(r)
  \/ \E r \in Ranks, n \in 1..MaxItems : Switch(r, n) \/ SwitchFails(r, n)
  \/ Terminating

Spec == Init /\ [][Next]_vars

------------------------------------------------------------------------------
(* Correctness                                                             *)

Ready(r) == setup # NULL /\ alive[r]

\* With a seed, the stream that a rank has under the name n is the n-th of the
\* streams of that seed, whichever rank owns it and however it skipped to it, and
\* the rank draws from the stream it has set, whatever it switched, reset, saved
\* and restored: the numbers of an item do not depend on the number of ranks nor
\* on the division of the items ("reproducible results ... across different node
\* and core configurations", R/comm_seed.r:3-7).
StreamOfItem ==
  \A r \in Ranks : Ready(r) /\ setup.seed # NULL =>
    /\ \A n \in DOMAIN streams[r] :
         streams[r][n] = [base |-> setup.seed, stream |-> n, pos |-> 0]
    /\ random[r].base = setup.seed /\ random[r].stream = name[r]

\* Ranks that asked for different streams never share one, not even when the
\* streams are set up anew, without a seed, from wherever each rank has gone
\* ("streams are different for each rank", R/comm_seed.r:56-57).
DisjointStreams ==
  setup # NULL /\ setup.how.kind # "same" =>
    \A r, s \in Ranks : r # s /\ alive[r] /\ alive[s] =>
      \A n \in DOMAIN streams[r], m \in DOMAIN streams[s] :
        \/ streams[r][n].base # streams[s][m].base
        \/ streams[r][n].stream # streams[s][m].stream

\* A stream goes on where it was left, however often the rank went to other
\* streams in between; reset, a saved state and a switch to the stream the rank
\* is in already are the only other starts ("Switching back and forth is
\* allowed, with each stream continuing where it left off", R/comm_seed.r:62-63).
ContinuesWhereLeft ==
  \A r \in Ranks : Ready(r) => random[r] = left[r][name[r]]

Chunked == setup # NULL /\ setup.how.kind = "vector"

\* The chunks of the ranks divide the items 1..N among them, and the forms
\* "number", "vector" and "seq" of a chunk describe the same items.  Balanced
\* chunks differ by at most one item; equal chunks all have the largest size but
\* for one, and empty ones; the smaller chunks are on the side asked for
\* (man/cc_comm.chunk.Rd:27-36).
ItemsDivided ==
  Chunked =>
    LET N == setup.how.N
        div == setup.how.div
        items == ChunkItems(N, div, size)
        most == (N + size - 1) \div size
        v(r) == ChunkVector(N, div, size, r)
        q(r) == ChunkSeq(N, div, size, r) IN
    /\ UNION {ToSet(v(r)) : r \in Ranks} = 1..N
    /\ \A r, s \in Ranks : r # s => ToSet(v(r)) \cap ToSet(v(s)) = {}
    /\ \A r \in Ranks :
         /\ Len(v(r)) = items[r + 1]
         /\ v(r) # <<>> => ToSet(v(r)) = {i \in q(r)[1]..q(r)[2] : (i - q(r)[1]) % q(r)[3] = 0}
    /\ \A i, k \in 1..size : i < k =>
         IF div[2] = "right" THEN items[k] <= items[i] ELSE items[i] <= items[k]
    /\ div[1] # "equal" => \A i \in 1..size : items[i] \in {most, most - 1}
    /\ div[1] = "equal" => /\ \A i \in 1..size : items[i] <= most
                           /\ Cardinality({i \in 1..size : items[i] \in 1..(most - 1)}) <= 1
=============================================================================
