CONSTANTS
  PairLists <- MCLists
  MaxPairs = 3
  InitialCap = 4
SPECIFICATION FairSpec
CHECK_DEADLOCK FALSE
INVARIANTS
  TypeOK
  InBounds
  TakesApart
PROPERTY
  Ends
