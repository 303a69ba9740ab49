SPECIFICATION Spec
CONSTANTS
  P = 3
  NULL = NULL
  MaxRead = 25
  TestLines = 2
  Jobs <- MCJobs
INVARIANTS
  RowsInOrder
  SharesOfGetJid
  UnloadRestores
  OneReader
PROPERTY
  HealthyReturns
