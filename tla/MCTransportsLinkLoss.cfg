SPECIFICATION FairSpec
CONSTANTS
  Plan <- MCPlan
  Slots = 1
  Window = 2
  MaxBad = 0
CHECK_DEADLOCK FALSE
PROPERTY LinkLossNoticed
