SPECIFICATION FairSpec
CONSTANTS
  Plan <- MCPlan
  Slots = 1
  Window = 3
  MaxBad = 1
CHECK_DEADLOCK FALSE
INVARIANTS
  TypeOK
  StatusAnswersResponse
PROPERTIES
  PipeSpec
  Transferred
  WaitEnds
