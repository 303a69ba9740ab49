SPECIFICATION Spec
CONSTANTS
  MaxSize = 3
  MaxItems = 4
  s1 = s1
  Seeds = {s1}
  MaxOps = 5
  NULL = NULL
INVARIANTS
  StreamOfItem
  DisjointStreams
  ContinuesWhereLeft
  ItemsDivided
