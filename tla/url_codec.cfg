CONSTANTS
  Texts <- MCTexts
  MaxLen = 4
SPECIFICATION Spec
CHECK_DEADLOCK FALSE
INVARIANTS
  TypeOK
  InBounds
  RoundTrip
  SeparatorFree
