SPECIFICATION Spec
CONSTANTS
  Workers = {w1, w2}
  w1 = w1
  w2 = w2
  NULL = NULL
  JobLists <- MCJobLists
  Calls = 2
  Bcast = TRUE
  Barrier = TRUE
  Try = TRUE
  NullResults = FALSE
INVARIANTS
  TypeOK
  CompleteResult
  ChannelsQuiet
  BcastAgreement
PROPERTIES
  Termination
  ImplementsJobPool
