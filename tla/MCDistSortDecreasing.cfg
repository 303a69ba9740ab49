SPECIFICATION Spec
CONSTANTS
  P = 3
  NA = NA
  Inputs <- MCDecreasing
PROPERTY
  ImplementsSorting
