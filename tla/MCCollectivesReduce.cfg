SPECIFICATION Spec
CONSTANTS
  Size = 3
  MaxLen = 3
  Programs <- MCReduce
PROPERTY
  ImplementsService
