SPECIFICATION Spec
CONSTANTS
  Core = {c1}
  Block = {b1, b2}
  Thread = {t1, t2}
  NoThread = NoThread
  NumEntries = 1
  AcsGap = 1
  MaxEid = 2
  MaxId = 3
  GapMod = 8
  EidMod = 32
SYMMETRY Symmetry
CHECK_DEADLOCK FALSE
INVARIANTS TypeOK UndoChainUnderRaces OnlyRacedEntriesLost
