SPECIFICATION Spec
CONSTANTS
  Ranks = {0, 1, 2}
  Programs <- MCPrograms
  Requests = {0, 1}
INVARIANTS Intact WaitMeansSent
PROPERTY NoDeadlock
