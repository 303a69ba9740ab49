SPECIFICATION Spec
CONSTANTS
  P = 3
  NA = NA
  Inputs <- MCInputs
INVARIANTS
  TypeOK
  InStep
  ExchangesMatch
  PartitionHolds
PROPERTIES
  ImplementsSorting
  EveryoneReturns
