---------------------------- MODULE MCReadTable -----------------------------
EXTENDS ReadTable

File(lines, header, sh) ==
  [from |-> "file", lines |-> lines, header |-> header, shape |-> sh]

Same(n, chars) == [k \in 1..n |-> chars]

\* Below 25 bytes a file is small: with as many rows as ranks or more, with
\* fewer, and without any.
SmallFiles ==
  {File(Same(n, 2), h, "frame") : n \in {0, 2, 3, 4, 6, 8}, h \in BOOLEAN}
    \cup {File(Same(4, 2), TRUE, "column")}

\* The prediction is about right, too low because the first lines are long,
\* and too high because they are short or because all the lines are.
LargeFiles ==
  {File(l, h, "frame") : h \in BOOLEAN,
     l \in {Same(4, 8), Same(7, 8), <<12, 2, 2, 2, 2, 2, 2, 2>>, <<2, 2, 12, 12>>,
            Same(9, 2), <<20, 20>>, <<30, 30, 30>>}}
    \cup {File(Same(7, 8), TRUE, "column")}

\* Tables on the ranks by the number of their rows, numbered through.
Rows(counts) ==
  [r \in Ranks |-> Stretch(1 + Total(SubSeq(counts, 1, r)), counts[r + 1])]
Table(counts, sh) == [from |-> "ranks", rows |-> Rows(counts), shape |-> sh]

Tables ==
  {Table(c, "frame") : c \in {<<0, 0, 0>>, <<1, 0, 0>>, <<0, 4, 0>>, <<5, 0, 0>>,
                              <<0, 0, 7>>, <<3, 1, 1>>, <<0, 2, 3>>, <<2, 2, 2>>}}
    \cup {Table(c, "matrix") : c \in {<<4, 2, 0>>, <<3, 0, 0>>}}
    \cup {Table(<<4, 2, 0>>, "column"), Table(<<0, 0, 0>>, "column")}

MCJobs == SmallFiles \cup LargeFiles \cup Tables

\* Files on which the last rank stops, so that they are not Healthy; no run is
\* spent on them: equal lines that are short beside the number of ranks.
MCShortLines == {File(Same(n, 2), FALSE, "frame") : n \in {9, 12, 15}}
=============================================================================
