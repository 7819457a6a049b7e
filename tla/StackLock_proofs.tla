-------------------------- MODULE StackLock_proofs --------------------------
(***************************************************************************)
(* Proofs about the set lock, for any number of cores.                     *)
(*                                                                         *)
(* The inductive invariant says exactly which mutexes a thread holds at    *)
(* each place of its program (HeldByOwner), and where the partner of the   *)
(* network thread is while the lock changes hands (Signals).               *)
(***************************************************************************)
EXTENDS StackLock, TLAPS

USE DEF Core, Net, Thread, Free

\* The initial states satisfy the invariant: nobody holds anything.
LEMMA InitIInv == Init => IInv
<1> SUFFICES ASSUME Init PROVE IInv
  OBVIOUS
<1>1. TypeOK
  BY NAssumption DEF Init, TypeOK, Places
<1>2. HeldByOwner
  BY NAssumption DEF Init, HeldByOwner, Owns, Shared, Exclusive
<1>3. Positions /\ Signals
  BY NAssumption DEF Init, Positions, Signals
<1> QED
  BY <1>1, <1>2, <1>3 DEF IInv

\* Taking the own mutex.
LEMMA AcquireSharedStep ==
  ASSUME IInv, NEW c \in Core, acquire_shared(c) PROVE IInv'
<1> USE NAssumption DEF IInv, acquire_shared
<1>1. TypeOK'
  BY DEF TypeOK, Places, Positions, Signals
<1>2. HeldByOwner'
  BY DEF TypeOK, HeldByOwner, Owns, Shared, Exclusive, Positions, Signals
<1>3. Positions'
  BY DEF TypeOK, Positions, Signals
<1>4. Signals'
  BY DEF TypeOK, Positions, Signals, HeldByOwner, Owns, Shared, Exclusive
<1> QED
  BY <1>1, <1>2, <1>3, <1>4

\* Giving the own mutex back.
LEMMA ReleaseSharedStep ==
  ASSUME IInv, NEW c \in Core, release_shared(c) PROVE IInv'
<1> USE NAssumption DEF IInv, release_shared
<1>1. TypeOK'
  BY DEF TypeOK, Places, Positions, Signals
<1>2. HeldByOwner'
  BY SMTT(40) DEF TypeOK, HeldByOwner, Owns, Shared, Exclusive, Positions, Signals
<1>3. Positions'
  BY DEF TypeOK, Positions, Signals
<1>4. Signals'
  BY DEF TypeOK, Positions, Signals, HeldByOwner, Owns, Shared, Exclusive
<1> QED
  BY <1>1, <1>2, <1>3, <1>4

\* Giving the own mutex back before the loop over all of them.
LEMMA UpgradeStep ==
  ASSUME IInv, NEW c \in Core, upgrade(c) PROVE IInv'
<1> USE NAssumption DEF IInv, upgrade
<1>1. TypeOK'
  BY DEF TypeOK, Places, Positions, Signals
<1>2. HeldByOwner'
  BY DEF TypeOK, HeldByOwner, Owns, Shared, Exclusive, Positions, Signals
<1>3. Positions'
  BY DEF TypeOK, Positions, Signals
<1>4. Signals'
  BY DEF TypeOK, Positions, Signals, HeldByOwner, Owns, Shared, Exclusive
<1> QED
  BY <1>1, <1>2, <1>3, <1>4

\* The loop takes one more mutex.
LEMMA AcquireNextStep ==
  ASSUME IInv, NEW t \in Thread, acquire_next(t) PROVE IInv'
<1> USE NAssumption DEF IInv, acquire_next
<1>1. TypeOK'
  BY DEF TypeOK, Places, Positions, Signals
<1>2. HeldByOwner'
  BY SMTT(40) DEF TypeOK, HeldByOwner, Owns, Shared, Exclusive, Positions, Signals
<1>3. Positions'
  BY DEF TypeOK, Positions, Signals
<1>4. Signals'
  BY DEF TypeOK, Positions, Signals, HeldByOwner, Owns, Shared, Exclusive
<1> QED
  BY <1>1, <1>2, <1>3, <1>4

\* The loop gives one more mutex back, or keeps that of its core.
LEMMA ReleaseNextStep ==
  ASSUME IInv, NEW t \in Thread, release_next(t) PROVE IInv'
<1> USE NAssumption DEF IInv, release_next
<1>1. TypeOK'
  BY DEF TypeOK, Places, Positions, Signals
<1>2. /\ at[t] \in 1..N /\ at'[t] = at[t] + 1 /\ next'[t] = next[t]
      /\ pc'[t] = IF at[t] = N THEN next[t] ELSE "unlocking"
      /\ t # Net => userSem[t] = 0 /\ userSem'[t] = 0
      /\ next[t] \in {"idle", "served", "sleep"} /\ (t = Net => next[t] = "idle")
  BY DEF TypeOK, Positions, Signals
<1>3. \A u \in Thread : u # t => pc'[u] = pc[u] /\ at'[u] = at[u] /\ next'[u] = next[u]
  BY DEF TypeOK
<1>4. HeldByOwner'
  <2> SUFFICES ASSUME NEW i \in Core, NEW u \in Thread PROVE held'[i] = u <=> Owns(u, i)'
    BY DEF HeldByOwner
  <2>1. held[i] = u <=> Owns(u, i)
    BY DEF HeldByOwner
  <2>2. held[at[t]] = t
    BY <1>2 DEF HeldByOwner, Owns
  <2>3. CASE u = t
    <3>1. held[i] = t <=> (i >= at[t] \/ (next[t] = "served" /\ i = t))
      BY <2>1, <2>3 DEF Owns, Shared, Exclusive
    <3>2. held'[i] = t <=> (i > at[t] \/ (next[t] = "served" /\ i = t))
      BY <3>1, <1>2 DEF TypeOK
    <3>3. CASE at[t] = N
      BY <3>2, <3>3, <2>3, <1>2 DEF Owns, Shared, Exclusive
    <3>4. CASE at[t] # N
      BY <3>2, <3>4, <2>3, <1>2 DEF Owns, Shared, Exclusive
    <3> QED
      BY <3>3, <3>4
  <2>4. CASE u # t
    <3>1. held'[i] = u <=> held[i] = u
      BY <2>2, <2>4, <1>2 DEF TypeOK
    <3>2. Owns(u, i)' <=> Owns(u, i)
      BY <2>4, <1>3 DEF Owns, Shared, Exclusive
    <3> QED
      BY <3>1, <3>2, <2>1
  <2> QED
    BY <2>3, <2>4
<1>5. Positions'
  <2>1. \A u \in Thread : pc'[u] \in {"locking", "unlocking"} => at'[u] <= N
    BY <1>2, <1>3 DEF Positions
  <2>2. \A c \in Core : pc'[c] # "handoff"
    BY <1>2, <1>3 DEF Positions
  <2>3. /\ pc'[Net] \in {"idle", "locking", "excl", "unlocking", "handoff"}
        /\ next'[Net] = "idle"
    BY <1>2, <1>3 DEF Positions
  <2> QED
    BY <2>1, <2>2, <2>3 DEF Positions
<1>6. Signals'
  BY DEF TypeOK, Positions, Signals
<1> QED
  BY <1>1, <1>4, <1>5, <1>6

\* Starting the loop without a mutex.
LEMMA StartLockAllStep ==
  ASSUME IInv, NEW c \in Core, StartLockAll(c) PROVE IInv'
<1> USE NAssumption DEF IInv, StartLockAll
<1>1. TypeOK'
  BY DEF TypeOK, Places, Positions, Signals
<1>2. HeldByOwner'
  BY DEF TypeOK, HeldByOwner, Owns, Shared, Exclusive, Positions, Signals
<1>3. Positions'
  BY DEF TypeOK, Positions, Signals
<1>4. Signals'
  BY DEF TypeOK, Positions, Signals, HeldByOwner, Owns, Shared, Exclusive
<1> QED
  BY <1>1, <1>2, <1>3, <1>4

\* Leaving the exclusive section.
LEMMA FinishStep ==
  ASSUME IInv, NEW c \in Core, Finish(c) PROVE IInv'
<1> USE NAssumption DEF IInv, Finish, Leave
<1>1. TypeOK'
  BY DEF TypeOK, Places, Positions, Signals
<1>2. HeldByOwner'
  BY DEF TypeOK, HeldByOwner, Owns, Shared, Exclusive, Positions, Signals
<1>3. Positions'
  BY DEF TypeOK, Positions, Signals
<1>4. Signals'
  BY DEF TypeOK, Positions, Signals, HeldByOwner, Owns, Shared, Exclusive
<1> QED
  BY <1>1, <1>2, <1>3, <1>4

\* Leaving the exclusive section to sleep.
LEMMA MissStep ==
  ASSUME IInv, NEW c \in Core, MissInLastLevel(c) PROVE IInv'
<1> USE NAssumption DEF IInv, MissInLastLevel, Leave
<1>1. TypeOK'
  BY DEF TypeOK, Places, Positions, Signals
<1>2. HeldByOwner'
  BY DEF TypeOK, HeldByOwner, Owns, Shared, Exclusive, Positions, Signals
<1>3. Positions'
  BY DEF TypeOK, Positions, Signals
<1>4. Signals'
  BY DEF TypeOK, Positions, Signals, HeldByOwner, Owns, Shared, Exclusive
<1> QED
  BY <1>1, <1>2, <1>3, <1>4

\* The user thread has all mutexes when it wakes up.
LEMMA WakeUpStep ==
  ASSUME IInv, NEW c \in Core, WakeUp(c) PROVE IInv'
<1> USE NAssumption DEF IInv, WakeUp
<1>1. TypeOK'
  BY DEF TypeOK, Places, Positions, Signals
<1>2. HeldByOwner'
  BY DEF TypeOK, HeldByOwner, Owns, Shared, Exclusive, Positions, Signals
<1>3. Positions'
  BY DEF TypeOK, Positions, Signals
<1>4. Signals'
  BY DEF TypeOK, Positions, Signals, HeldByOwner, Owns, Shared, Exclusive
<1> QED
  BY <1>1, <1>2, <1>3, <1>4

\* The network thread starts its loop.
LEMMA BeginMsgStep ==
  ASSUME IInv, BeginMsg PROVE IInv'
<1> USE NAssumption DEF IInv, BeginMsg
<1>1. TypeOK'
  BY DEF TypeOK, Places, Positions, Signals
<1>2. HeldByOwner'
  BY DEF TypeOK, HeldByOwner, Owns, Shared, Exclusive, Positions, Signals
<1>3. Positions'
  BY DEF TypeOK, Positions, Signals
<1>4. Signals'
  BY DEF TypeOK, Positions, Signals, HeldByOwner, Owns, Shared, Exclusive
<1> QED
  BY <1>1, <1>2, <1>3, <1>4

\* All mutexes go to the waiter, which sleeps and holds none.
LEMMA HandOverStep ==
  ASSUME IInv, NEW c \in Core, wakeUpUserThread(c) PROVE IInv'
<1> USE NAssumption DEF IInv, wakeUpUserThread
<1>1. TypeOK'
  BY DEF TypeOK, Places, Positions, Signals
<1>2. HeldByOwner'
  BY DEF TypeOK, HeldByOwner, Owns, Shared, Exclusive, Positions, Signals
<1>3. Positions'
  BY DEF TypeOK, Positions, Signals
<1>4. Signals'
  BY DEF TypeOK, Positions, Signals, HeldByOwner, Owns, Shared, Exclusive
<1> QED
  BY <1>1, <1>2, <1>3, <1>4

\* The network thread queues for the lock again.
LEMMA ResumeStep ==
  ASSUME IInv, waitForUserThread PROVE IInv'
<1> USE NAssumption DEF IInv, waitForUserThread
<1>1. TypeOK'
  BY DEF TypeOK, Places, Positions, Signals
<1>2. HeldByOwner'
  BY DEF TypeOK, HeldByOwner, Owns, Shared, Exclusive, Positions, Signals
<1>3. Positions'
  BY DEF TypeOK, Positions, Signals
<1>4. Signals'
  BY DEF TypeOK, Positions, Signals, HeldByOwner, Owns, Shared, Exclusive
<1> QED
  BY <1>1, <1>2, <1>3, <1>4

\* The hand-over is over.
LEMMA DequeueStep ==
  ASSUME IInv, Dequeue PROVE IInv'
<1> USE NAssumption DEF IInv, Dequeue
<1>1. TypeOK'
  BY DEF TypeOK, Places, Positions, Signals
<1>2. HeldByOwner'
  BY DEF TypeOK, HeldByOwner, Owns, Shared, Exclusive, Positions, Signals
<1>3. Positions'
  BY DEF TypeOK, Positions, Signals
<1>4. Signals'
  BY DEF TypeOK, Positions, Signals, HeldByOwner, Owns, Shared, Exclusive
<1> QED
  BY <1>1, <1>2, <1>3, <1>4

\* The network thread leaves the exclusive section.
LEMMA EndMsgStep ==
  ASSUME IInv, EndMsg PROVE IInv'
<1> USE NAssumption DEF IInv, EndMsg, Leave
<1>1. TypeOK'
  BY DEF TypeOK, Places, Positions, Signals
<1>2. HeldByOwner'
  BY DEF TypeOK, HeldByOwner, Owns, Shared, Exclusive, Positions, Signals
<1>3. Positions'
  BY DEF TypeOK, Positions, Signals
<1>4. Signals'
  BY DEF TypeOK, Positions, Signals, HeldByOwner, Owns, Shared, Exclusive
<1> QED
  BY <1>1, <1>2, <1>3, <1>4

\* Every step of the program, or a step that changes nothing, keeps the
\* invariant.
LEMMA NextIInv == IInv /\ [Next]_vars => IInv'
<1> SUFFICES ASSUME IInv, [Next]_vars PROVE IInv'
  OBVIOUS
<1>1. CASE UNCHANGED vars
  BY <1>1 DEF vars, IInv, TypeOK, HeldByOwner, Owns, Shared, Exclusive, Positions, Signals
<1>2. ASSUME NEW t \in Thread, acquire_next(t) \/ release_next(t) PROVE IInv'
  BY <1>2, AcquireNextStep, ReleaseNextStep
<1>3. ASSUME NEW c \in Core, User(c) PROVE IInv'
  BY <1>3, AcquireSharedStep, ReleaseSharedStep, UpgradeStep, StartLockAllStep, FinishStep,
     MissStep, WakeUpStep DEF User
<1>4. CASE Network
  BY <1>4, BeginMsgStep, HandOverStep, ResumeStep, DequeueStep, EndMsgStep DEF Network
<1> QED
  BY <1>1, <1>2, <1>3, <1>4 DEF Next

\* The invariant holds in every state of every execution, however many cores
\* share the cache.
THEOREM InvariantHolds == Spec => []IInv
  BY InitIInv, NextIInv, PTL DEF Spec

\* Types, and no semaphore ever counts two signals.
THEOREM TypeCorrect == Spec => []TypeOK
<1>1. IInv => TypeOK
  BY DEF IInv
<1> QED
  BY <1>1, InvariantHolds, PTL

\* Two threads are never in their sections when one of them is the exclusive
\* section: both would hold the same mutex.
THEOREM StackLockExcludes == Spec => []MutualExclusion
<1>1. IInv => MutualExclusion
  BY NAssumption DEF IInv, TypeOK, HeldByOwner, Owns, Positions, MutualExclusion, Shared, Exclusive
<1> QED
  BY <1>1, InvariantHolds, PTL

\* Whoever holds a mutex can run or waits for a higher one: the set lock is
\* free of deadlock.
THEOREM NoDeadlock == Spec => []HoldersCanRun
<1>1. IInv => HoldersCanRun
  BY NAssumption DEF IInv, TypeOK, HeldByOwner, Owns, HoldersCanRun, CanRun, Shared, Exclusive
<1> QED
  BY <1>1, InvariantHolds, PTL

\* The network thread never waits for a signal that nobody will give.
THEOREM NoSignalIsLost == Spec => []HandoverIsUnderWay
<1>1. IInv => HandoverIsUnderWay
  BY NAssumption DEF IInv, TypeOK, HeldByOwner, Owns, Positions, Signals, HandoverIsUnderWay
<1> QED
  BY <1>1, InvariantHolds, PTL

=============================================================================
