SPECIFICATION Spec
CONSTANTS
  Workers = {w1, w2}
  w1 = w1
  w2 = w2
  NULL = NULL
  JobLists <- MCAnyJobLists
  Calls = 2
  Bcast = TRUE
  Barrier = FALSE
  Try = FALSE
  NullResults = TRUE
INVARIANTS
  CallsDoNotMix
  ClosedMeansLeft
\* a crashed worker or a manager that refuses its argument leaves the others waiting
CHECK_DEADLOCK FALSE
