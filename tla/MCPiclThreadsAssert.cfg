SPECIFICATION Spec
CONSTANTS
  Core = {c1}
  Block = {b1, b2}
  Thread = {t1, t2}
  NoThread = NoThread
  NumEntries = 1
  AcsGap = 1
  MaxEid = 3
  MaxId = 3
  GapMod = 8
  EidMod = 32
CHECK_DEADLOCK FALSE
INVARIANT InsertFindsRoom
