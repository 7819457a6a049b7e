SPECIFICATION Spec
CONSTANTS
  Node = {1, 2, 3}
  Block = {b1}
  Home = 1
  Ways = 3
  Protocols = {"msi", "mesi", "mesif"}
  NoNode = 0
  Unset = 100
  Core = {1, 2, 3}
  NodeOf <- OneCorePerNode
  Work <- TwoWriters
  NoBlock = NoBlock
INVARIANTS SingleWriter NoStaleCopy DirectoryCoversCaches MessagesAreExpected RequestNotStranded ForwarderIsSharer
