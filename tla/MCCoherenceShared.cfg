SPECIFICATION Spec
CONSTANTS
  Node = {1, 2}
  Block = {b1}
  Home = 1
  Ways = 3
  Protocols = {"msi", "mesi"}
  NoNode = 0
  Unset = 100
  Core = {1, 2, 3}
  NodeOf <- SharedCache
  Work <- OneReader
  NoBlock = NoBlock
INVARIANT WokenThreadHits
PROPERTY MissesAreServed
