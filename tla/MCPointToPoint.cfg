SPECIFICATION Spec
CONSTANTS
  s1 = s1
  s2 = s2
  Senders = {s1, s2}
  AnySource = AnySource
  AnyTag = AnyTag
  Programs <- MCPrograms
  MaxLen = 3
INVARIANTS NeverBroken
PROPERTIES ImplementsMailbox EverythingArrives
