SPECIFICATION FairSpec
CONSTANTS
  b1 = b1
  b2 = b2
  Backend = {b1, b2}
  Nobody = Nobody
  Window = 1
  MaxBytes = 2
CHECK_DEADLOCK FALSE
INVARIANTS
  NothingLost
PROPERTIES
  LinksEnd
  NobodyWaitsForever
