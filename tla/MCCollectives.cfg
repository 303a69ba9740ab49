SPECIFICATION Spec
CONSTANTS
  Size = 3
  MaxLen = 3
  Programs <- MCPrograms
INVARIANTS
  CallsAgree
PROPERTIES
  ImplementsService
  EveryoneReturns
