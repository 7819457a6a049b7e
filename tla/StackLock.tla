----------------------------- MODULE StackLock -----------------------------
(***************************************************************************)
(* The lock of one cache set of a shared last-level cache (SetLock), and   *)
(* the way user threads and the network thread pass it on.                 *)
(*                                                                         *)
(* The lock has one mutex per core that shares the cache.  Core c owns the *)
(* set in shared mode when it holds mutex c; a thread owns it in exclusive *)
(* mode ("stack lock") when it holds all of them, which it takes in order. *)
(* A user thread that misses in the last level releases the stack lock and *)
(* sleeps; the network thread wakes it while it holds the stack lock       *)
(* itself, leaves the lock to it, waits for its signal and then queues for *)
(* the lock again.                                                         *)
(*                                                                         *)
(* Every mutex and semaphore operation is a step.  What is done under the  *)
(* lock (Coherence has the rest) is reduced to its outcome: hit or miss.   *)
(***************************************************************************)
EXTENDS Naturals

CONSTANT N   \* number of cores that share the cache

ASSUME NAssumption == N \in Nat \ {0}

Core   == 1..N
Net    == 0            \* the network thread
Thread == 0..N
Free   == N + 1

VARIABLES
  held,      \* [Core -> Thread or Free]: m_locks, with the thread that may release it
  pc,        \* [Thread -> ...]
  at,        \* [Thread -> 1..N+1]: position of the loop over m_locks
  next,      \* [Thread -> ...]: where to go on after a release loop
  lockAll,   \* [Core -> BOOLEAN]: the access took the stack lock from the start
  waiters,   \* cores in m_directory_waiters that have not been woken
             \* (their order, about which nothing is stated, is left open)
  waking,    \* the core that the network thread is waking, or Free
  userSem,   \* [Core -> Nat]: m_user_thread_sem
  netSem     \* [Core -> Nat]: m_network_thread_sem

vars == <<held, pc, at, next, lockAll, waiters, waking, userSem, netSem>>

Init ==
  /\ held = [i \in Core |-> Free]
  /\ pc = [t \in Thread |-> "idle"]
  /\ at = [t \in Thread |-> 1]
  /\ next = [t \in Thread |-> "idle"]
  /\ lockAll = [c \in Core |-> FALSE]
  /\ waiters = {}
  /\ waking = Free
  /\ userSem = [c \in Core |-> 0]
  /\ netSem = [c \in Core |-> 0]

-----------------------------------------------------------------------------
(* SetLock                                                                 *)

acquire_shared(c) ==
  /\ pc[c] = "idle"
  /\ held[c] = Free
  /\ held' = [held EXCEPT ![c] = c]
  /\ pc' = [pc EXCEPT ![c] = "shared"]
  /\ lockAll' = [lockAll EXCEPT ![c] = FALSE]
  /\ UNCHANGED <<at, next, waiters, waking, userSem, netSem>>

\* After a hit in the first level, or when the access is done.
release_shared(c) ==
  /\ pc[c] \in {"shared", "served"}
  /\ held' = [held EXCEPT ![c] = Free]
  /\ pc' = [pc EXCEPT ![c] = "idle"]
  /\ UNCHANGED <<at, next, lockAll, waiters, waking, userSem, netSem>>

\* Seeded bug: the own mutex is kept during the upgrade.
upgrade_NoRelease(c) ==
  /\ pc[c] = "shared"
  /\ pc' = [pc EXCEPT ![c] = "locking"]
  /\ at' = [at EXCEPT ![c] = 1]
  /\ UNCHANGED <<held, next, lockAll, waiters, waking, userSem, netSem>>

\* On a miss in the first level: release_shared, then acquire_exclusive.
upgrade(c) ==
  /\ pc[c] = "shared"
  /\ held' = [held EXCEPT ![c] = Free]
  /\ pc' = [pc EXCEPT ![c] = "locking"]
  /\ at' = [at EXCEPT ![c] = 1]
  /\ UNCHANGED <<next, lockAll, waiters, waking, userSem, netSem>>

\* One round of the loop of acquire_exclusive.
acquire_next(t) ==
  /\ pc[t] = "locking"
  /\ held[at[t]] = Free
  /\ held' = [held EXCEPT ![at[t]] = t]
  /\ at' = [at EXCEPT ![t] = @ + 1]
  /\ pc' = [pc EXCEPT ![t] = IF at[t] = N THEN "excl" ELSE @]
  /\ UNCHANGED <<next, lockAll, waiters, waking, userSem, netSem>>

\* Seeded bug: the loop of release_exclusive ends one round too late.
release_next_PastEnd(t) ==
  /\ pc[t] = "unlocking"
  /\ held' = IF at[t] > N \/ (next[t] = "served" /\ at[t] = t)
             THEN held ELSE [held EXCEPT ![at[t]] = Free]
  /\ at' = [at EXCEPT ![t] = @ + 1]
  /\ pc' = [pc EXCEPT ![t] = IF at[t] > N THEN next[t] ELSE @]
  /\ UNCHANGED <<next, lockAll, waiters, waking, userSem, netSem>>

\* One round of the loop of release_exclusive, or of downgrade, which keeps
\* the mutex of its core.
release_next(t) ==
  /\ pc[t] = "unlocking"
  /\ held' = IF next[t] = "served" /\ at[t] = t THEN held ELSE [held EXCEPT ![at[t]] = Free]
  /\ at' = [at EXCEPT ![t] = @ + 1]
  /\ pc' = [pc EXCEPT ![t] = IF at[t] = N THEN next[t] ELSE @]
  /\ UNCHANGED <<next, lockAll, waiters, waking, userSem, netSem>>

\* Thread t leaves the exclusive section and goes on at pc p.
Leave(t, p) ==
  /\ pc' = [pc EXCEPT ![t] = "unlocking"]
  /\ at' = [at EXCEPT ![t] = 1]
  /\ next' = [next EXCEPT ![t] = p]

-----------------------------------------------------------------------------
(* User thread: processMemOpFromCore, doPrefetch                           *)

\* A write through, an atomic pair or a prefetch locks the stack at once.
StartLockAll(c) ==
  /\ pc[c] = "idle"
  /\ pc' = [pc EXCEPT ![c] = "locking"]
  /\ at' = [at EXCEPT ![c] = 1]
  /\ lockAll' = [lockAll EXCEPT ![c] = TRUE]
  /\ UNCHANGED <<held, next, waiters, waking, userSem, netSem>>

\* The data is in the stack: finish the access.
Finish(c) ==
  /\ pc[c] \in {"excl", "filled"}
  /\ Leave(c, IF lockAll[c] THEN "idle" ELSE "served")
  /\ UNCHANGED <<held, lockAll, waiters, waking, userSem, netSem>>

\* A message to the directory has been sent: release the stack lock and sleep.
MissInLastLevel(c) ==
  /\ pc[c] = "excl"
  /\ waiters' = waiters \cup {c}
  /\ Leave(c, "sleep")
  /\ UNCHANGED <<held, lockAll, waking, userSem, netSem>>

\* Seeded bug: the network thread is not told.
WakeUp_NoSignal(c) ==
  /\ pc[c] = "sleep"
  /\ userSem[c] > 0
  /\ userSem' = [userSem EXCEPT ![c] = @ - 1]
  /\ pc' = [pc EXCEPT ![c] = "filled"]
  /\ UNCHANGED <<held, at, next, lockAll, waiters, waking, netSem>>

\* waitForNetworkThread returns; wakeUpNetworkThread.
WakeUp(c) ==
  /\ pc[c] = "sleep"
  /\ userSem[c] > 0
  /\ userSem' = [userSem EXCEPT ![c] = @ - 1]
  /\ netSem' = [netSem EXCEPT ![c] = @ + 1]
  /\ pc' = [pc EXCEPT ![c] = "filled"]
  /\ UNCHANGED <<held, at, next, lockAll, waiters, waking>>

-----------------------------------------------------------------------------
(* Network thread: handleMsgFromDramDirectory                              *)

BeginMsg ==
  /\ pc[Net] = "idle"
  /\ pc' = [pc EXCEPT ![Net] = "locking"]
  /\ at' = [at EXCEPT ![Net] = 1]
  /\ UNCHANGED <<held, next, lockAll, waiters, waking, userSem, netSem>>

\* wakeUpUserThread; the stack lock is passed through to the user thread.
wakeUpUserThread(c) ==
  /\ pc[Net] = "excl" /\ waking = Free /\ c \in waiters
  /\ waking' = c
  /\ waiters' = waiters \ {c}
  /\ userSem' = [userSem EXCEPT ![c] = @ + 1]
  /\ held' = [i \in Core |-> c]
  /\ pc' = [pc EXCEPT ![Net] = "handoff"]
  /\ UNCHANGED <<at, next, lockAll, netSem>>

\* Seeded bug: the lock is not taken again after it was passed on.
waitForUserThread_NoLock ==
  /\ pc[Net] = "handoff" /\ netSem[waking] > 0
  /\ netSem' = [netSem EXCEPT ![waking] = @ - 1]
  /\ pc' = [pc EXCEPT ![Net] = "excl"]
  /\ UNCHANGED <<held, at, next, lockAll, waiters, waking, userSem>>

\* waitForUserThread returns; acquireStackLock begins.
waitForUserThread ==
  /\ pc[Net] = "handoff" /\ netSem[waking] > 0
  /\ netSem' = [netSem EXCEPT ![waking] = @ - 1]
  /\ pc' = [pc EXCEPT ![Net] = "locking"]
  /\ at' = [at EXCEPT ![Net] = 1]
  /\ UNCHANGED <<held, next, lockAll, waiters, waking, userSem>>

\* The lock is back: the waiter is removed from the queue.
Dequeue ==
  /\ pc[Net] = "excl" /\ waking # Free
  /\ waking' = Free
  /\ UNCHANGED <<held, pc, at, next, lockAll, waiters, userSem, netSem>>

\* No waiter is left, or an upgrade was requested for the next one, or the
\* message was a request of the directory.
EndMsg ==
  /\ pc[Net] = "excl" /\ waking = Free
  /\ Leave(Net, "idle")
  /\ UNCHANGED <<held, lockAll, waiters, waking, userSem, netSem>>

-----------------------------------------------------------------------------
User(c) ==
  \/ acquire_shared(c) \/ release_shared(c) \/ upgrade(c) \/ StartLockAll(c)
  \/ Finish(c) \/ MissInLastLevel(c) \/ WakeUp(c)

Network ==
  \/ BeginMsg \/ waitForUserThread \/ Dequeue \/ EndMsg
  \/ \E c \in Core : wakeUpUserThread(c)

Next ==
  \/ \E t \in Thread : acquire_next(t) \/ release_next(t)
  \/ \E c \in Core : User(c)
  \/ Network

Spec == Init /\ [][Next]_vars

-----------------------------------------------------------------------------
(* Properties                                                              *)

Places == {"idle", "shared", "served", "locking", "excl", "filled", "unlocking", "sleep", "handoff"}

\* Types.  A semaphore never counts more than one signal.
TypeOK ==
  /\ held \in [Core -> Thread \cup {Free}]
  /\ pc \in [Thread -> Places]
  /\ at \in [Thread -> 1..(N + 1)]
  /\ next \in [Thread -> {"idle", "served", "sleep"}]
  /\ lockAll \in [Core -> BOOLEAN]
  /\ waiters \subseteq Core
  /\ waking \in Core \cup {Free}
  /\ userSem \in [Core -> {0, 1}]
  /\ netSem \in [Core -> {0, 1}]

Exclusive(t) == pc[t] \in {"excl", "filled"}
Shared(t)    == pc[t] \in {"shared", "served"}

(***************************************************************************)
(* "the exclusive mode ... locks out both L1-only and L2+ transactions":   *)
(* while a thread works under the stack lock no other one works under it   *)
(* or under the shared lock, although the lock changes hands between       *)
(* threads without being released.                                         *)
(***************************************************************************)
MutualExclusion ==
  \A t, u \in Thread : t # u /\ Exclusive(t) => ~Exclusive(u) /\ ~Shared(u)

\* Thread t can make its next step without waiting for a mutex or a signal.
CanRun(t) ==
  \/ pc[t] = "locking" /\ held[at[t]] = Free
  \/ pc[t] = "sleep" /\ userSem[t] > 0
  \/ pc[t] \in {"shared", "served", "excl", "filled", "unlocking"}

(***************************************************************************)
(* No deadlock ("If two threads decide to upgrade at the same time, we     *)
(* could deadlock"): whoever holds a mutex can run, or waits for a mutex   *)
(* of a higher index; so the holder of the highest mutex that is held can  *)
(* always run.  In particular no thread sleeps with a mutex in its hands.  *)
(***************************************************************************)
HoldersCanRun ==
  \A i \in Core, t \in Thread :
    held[i] = t => CanRun(t) \/ (pc[t] = "locking" /\ at[t] > i)

(***************************************************************************)
(* No signal is lost in the hand-over: while the network thread waits for  *)
(* the user thread it woke, that thread has its signal and the lock still  *)
(* to come to, or the answer has been given.                               *)
(***************************************************************************)
HandoverIsUnderWay ==
  pc[Net] = "handoff" =>
    /\ waking # Free
    /\ \/ pc[waking] = "sleep" /\ userSem[waking] = 1 /\ \A i \in Core : held[i] = waking
       \/ netSem[waking] = 1

-----------------------------------------------------------------------------
(* The invariant behind them: who holds which mutex                        *)

\* Thread t holds mutex i, judged by where it is.
Owns(t, i) ==
  \/ Shared(t) /\ i = t
  \/ pc[t] = "locking" /\ i < at[t]
  \/ Exclusive(t)
  \/ pc[t] = "unlocking" /\ (i >= at[t] \/ (next[t] = "served" /\ i = t))
  \/ t # Net /\ pc[t] = "sleep" /\ userSem[t] = 1

HeldByOwner == \A i \in Core, t \in Thread : held[i] = t <=> Owns(t, i)

Positions ==
  /\ \A t \in Thread : pc[t] \in {"locking", "unlocking"} => at[t] <= N
  /\ pc[Net] \in {"idle", "locking", "excl", "unlocking", "handoff"} /\ next[Net] = "idle"
  /\ \A c \in Core : pc[c] # "handoff"

\* Waiters sleep, or are about to; signals are for those that sleep.
Signals ==
  /\ \A c \in waiters : /\ userSem[c] = 0
                        /\ pc[c] = "sleep" \/ (pc[c] = "unlocking" /\ next[c] = "sleep")
  /\ \A c \in Core : userSem[c] = 1 => pc[c] = "sleep" /\ waking = c /\ netSem[c] = 0
  /\ \A c \in Core : userSem[c] = 1 \/ netSem[c] = 1 => pc[Net] = "handoff" /\ waking = c
  /\ pc[Net] = "handoff" => waking # Free /\ (userSem[waking] = 1 \/ netSem[waking] = 1)
  /\ waking # Free => pc[Net] \in {"handoff", "locking", "excl"}

IInv == TypeOK /\ HeldByOwner /\ Positions /\ Signals

=============================================================================
