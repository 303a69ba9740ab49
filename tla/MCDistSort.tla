----------------------------- MODULE MCDistSort -----------------------------
EXTENDS DistSort, SequencesExt

\* Vectors of at most "most" keys, cut at a and b into the blocks of three ranks
Cut(s, a, b) ==
  [r \in Ranks |-> CASE r = 0 -> SubSeq(s, 1, a)
                     [] r = 1 -> SubSeq(s, a + 1, b)
                     [] r = 2 -> SubSeq(s, b + 1, Len(s))]
Blocks(keys, most) ==
  UNION {UNION {{Cut(s, a, b) : a \in 0..b} : b \in 0..Len(s)} : s \in BoundedSeq(keys, most)}

Call(kind, x, decreasing, last) ==
  [kind |-> kind, x |-> x, decreasing |-> decreasing, nalast |-> last]

\* A rank without elements passes NULL.
Kind(x, type) == [r \in Ranks |-> IF x[r] = <<>> THEN "NULL" ELSE type]

Integer(keys, most, decreasing, last) ==
  {Call(Kind(x, "integer"), x, decreasing, last) : x \in Blocks(keys, most)}

\* Five elements with an empty rank at every place
Sparse ==
  {Cut(s, a, b) : s \in {<<2, 1, 2, 1, 1>>, <<1, 3, 2, 2, 1>>},
     <<a, b>> \in {<<0, 2>>, <<2, 2>>, <<3, 5>>}}

\* Ranks that differ in the type of their argument
Mixed ==
  {Call(kind, [r \in Ranks |-> IF kind[r] = "NULL" THEN <<>> ELSE <<3 - r>>], FALSE, "NA") :
     kind \in [Ranks -> Kinds]}

MCInputs ==
  Integer({1, 2}, 4, FALSE, "TRUE") \cup Integer({1, 2, 3}, 3, TRUE, "NA")
  \cup UNION {Integer({1, NA}, 3, FALSE, last) : last \in {"TRUE", "FALSE"}}
  \cup Integer({1, NA}, 2, TRUE, "NA")
  \cup {Call(Kind(x, "double"), x, d, "TRUE") : x \in Sparse, d \in BOOLEAN}
  \cup Mixed

\* "If TRUE, missing values in the data are put last" (man/xx_comm_sort.Rd:16),
\* in a decreasing order.
MCDecreasing == UNION {Integer({1, NA}, 2, TRUE, last) : last \in {"TRUE", "FALSE"}}
=============================================================================
