SPECIFICATION Spec
CONSTANTS
  Thread = {t1, t2, t3}
  NoThread = NoThread
  NumCores = 3
  NumHostCores = 1
  MaxAhead = 1
  Quantum = 0
  Masks <- MCMasks
  EnableAgain = FALSE
INVARIANTS NoFailure PlacementAgrees CoresAreUsed SlotsAccountForWaiters NotStuck
SYMMETRY MCSymmetry
CHECK_DEADLOCK FALSE
