SPECIFICATION FairSpec
CONSTANTS
  InitRoom = 3
  ContRoom = 2
  SeqLimit = 2
  RequestSize <- MCRequestSize
  CidEnd = 3
  MaxForeign = 1
  Chunk = 2
  Kind <- MCKind
  Limits = {0, 2}
  MaxPayload = 4
  MaxFrames = 1
  MaxUnplugs = 1
  Value <- MCValue
  Neighbour <- MCNeighbour
  PartSizes = {2, 120}
CHECK_DEADLOCK FALSE
INVARIANTS
  TypeOK
  ExchangeWhole
  PassedMeansConfirmed
  PrintsWanted
  ValueFound
PROPERTIES
  HarnessEnds
