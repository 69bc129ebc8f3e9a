SPECIFICATION Spec
CONSTANTS
  i1 = i1
  i2 = i2
  Identity = {i1, i2}
  NoIdentity = NoIdentity
  MaxQueue = 2
SYMMETRY Symmetry
INVARIANTS
  SavedWasPaired
  SessionIsPaired
PROPERTY PairingKept
