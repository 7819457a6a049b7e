SPECIFICATION Spec
CONSTANTS
  Core = {c1, c2}
  Block = {b1, b2}
  NumEntries = 2
  AcsGap = 2
  MaxEid = 4
  MaxId = 4
SYMMETRY Symmetry
INVARIANTS TypeOK CapacityRespected LoggedOnceInOrder ScanBoundsResidency UndoChain PersistedIsLogged
PROPERTY PersistedRegressBounded
