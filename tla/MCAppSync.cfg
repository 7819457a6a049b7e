SPECIFICATION FairSpec
CONSTANTS
  Thread = {t1, t2, t3}
  MainThread = t1
  NoThread = NoThread
  JoinUnstarted = FALSE
  Mutex = {m1}
  Cond = {c1}
  Barrier = {b1}
  BarrierCount = 2
  Addr = {a1, a2}
  MaxTimeout = 1
  BlockHolding = FALSE
  LastLeaves = FALSE
INVARIANTS OneWayToWake HostAgrees MutexHandedOver TimeoutsAreServed NoAbortOverMutex
PROPERTY MutexServed
CHECK_DEADLOCK FALSE
