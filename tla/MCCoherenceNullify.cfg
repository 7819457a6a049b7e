SPECIFICATION Spec
CONSTANTS
  Node = {1, 2}
  Block = {1, 2, 3}
  Home = 1
  Ways = 2
  Protocols = {"mesi"}
  NoNode = 0
  Unset = 100
  Core = {1, 2}
  NodeOf <- OneCorePerNode
  Work <- OneSharedBlock
  NoBlock = NoBlock
INVARIANTS ReplacementFound LostOnlyAfterForward
