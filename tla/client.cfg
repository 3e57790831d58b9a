CONSTANTS
  StringCap = 8
  TableCap = 2
  NumberCap = 128
  Answers <- MCAnswers
  NotJson = NotJson
  Pieces = {16, 40}
SPECIFICATION Spec
\* main returns.
CHECK_DEADLOCK FALSE
INVARIANTS
  MemorySound
  TreeAsWritten
  VerdictHonest
PROPERTY
  EndsOnceAnswered
