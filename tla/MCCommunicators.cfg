\* Three ranks; numbers 1 and 2 are the program's, 3 and 4 those of the two
\* stages.  A rank may stop with an error and leave the others waiting.
CONSTANTS
  P = 3
  Handles = {0, 1, 2, 3, 4}
  Programs <- MCPrograms
SPECIFICATION Spec
INVARIANTS
  PointersHold
  TwoStages
PROPERTIES
  EveryoneEnds
CHECK_DEADLOCK FALSE
