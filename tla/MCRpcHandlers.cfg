SPECIFICATION FairSpec
CONSTANTS
  s1 = s1
  s2 = s2
  Stream = {s1, s2}
  ChunkLen = 2
  MaxLength = 3
  Window = 1
  MaxLosses = 1
CHECK_DEADLOCK FALSE
INVARIANTS
  TypeOK
  AnswersInOrder
  ReportsTrue
  NoStorm
PROPERTIES
  HandlersEnd
