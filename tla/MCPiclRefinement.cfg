SPECIFICATION RSpec
CONSTANTS
  Core = {c1, c2}
  Block = {b1, b2}
  Thread = {t1}
  NoThread = NoThread
  NumEntries = 1
  AcsGap = 2
  MaxEid = 3
  MaxId = 2
  GapMod = 8
  EidMod = 32
PROPERTIES ImplementsPiclLog OperationsFinish
