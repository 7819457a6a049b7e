SPECIFICATION Spec
CONSTANTS
  Cache = {"i1", "d1", "d2", "l2a", "l2b", "l3"}
  NextCache <- Tree
  LLC = "l3"
  Ways <- Associativity
  b1 = b1
  b2 = b2
  b3 = b3
  Block = {b1, b2, b3}
  NoBlock = NoBlock
  Work <- Requests
  Modes <- AllModes
INVARIANTS Inclusive StaleOnlyBesideExclusive OverwritesAreUndoable
