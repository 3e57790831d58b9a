CONSTANTS
  Calls <- MCCalls
  BeanCap = 4096
  InnerCap = 64
  Drawing <- MCDrawing
  Sizes = {4, 9}
  MaxDraws = 3
  MaxFiles = 2
SPECIFICATION FairDraw
\* argus_get_sign returns.
CHECK_DEADLOCK FALSE
INVARIANTS
  Complete
  BeanReads
  PadsWhole
  TypeRand
  NoFileLeft
  FilledUnlessReadFails
PROPERTY
  DrawEnds
