\* comm.size() is 3; SPMD_SHORT_LEN_MAX is 4, one object is longer.
CONSTANTS
  P = 3
  Programs <- MCPrograms
  MaxLen = 4
SPECIFICATION Spec
INVARIANTS
  Delivered
  FailsOnlyOnLength
  InTurn
  WholeFile
PROPERTIES
  EveryoneReturns
