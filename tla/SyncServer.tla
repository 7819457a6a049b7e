----------------------------- MODULE SyncServer ------------------------------
(***************************************************************************)
(* The pthread mutexes, condition variables and barriers that the          *)
(* simulator implements for the application (common/system/sync_server.cc, *)
(* called through sync_client.cc).  All queues are FIFO.  A mutex is never *)
(* released to the public while somebody waits for it: unlock makes the    *)
(* first waiter the owner and resumes it.                                  *)
(***************************************************************************)
EXTENDS ThreadManager, Sequences

CONSTANTS
  Mutex, Cond, Barrier,
  BarrierCount     \* the count every barrier is initialised with

ASSUME BarrierAssumption == BarrierCount \in Nat \ {0}

VARIABLES
  mutex_owner,     \* SimMutex::m_owner
  mutex_waiting,   \* SimMutex::m_waiting
  cond_waiting,    \* SimCond::m_waiting, threads with the mutex they released
  barrier_waiting  \* SimBarrier::m_waiting

syncVars == <<mutex_owner, mutex_waiting, cond_waiting, barrier_waiting>>

SyncInit ==
  /\ mutex_owner = [m \in Mutex |-> NoThread]
  /\ mutex_waiting = [m \in Mutex |-> <<>>]
  /\ cond_waiting = [c \in Cond |-> <<>>]
  /\ barrier_waiting = [b \in Barrier |-> <<>>]

ThreadsIn(q) == {q[i] : i \in DOMAIN q}

-----------------------------------------------------------------------------
(* SimMutex                                                                *)

\* SimMutex::lock of a free mutex.
MutexTake(t, m) ==
  /\ Calls(t) /\ mutex_owner[m] = NoThread
  /\ mutex_owner' = [mutex_owner EXCEPT ![m] = t]
  /\ UNCHANGED <<tmVars, mutex_waiting, cond_waiting, barrier_waiting>>

\* SimMutex::lock of a mutex that is owned.  The owner itself would wait for ever;
\* an application that locks its own mutex is in error.
MutexQueue(t, m) ==
  /\ Calls(t) /\ mutex_owner[m] \notin {NoThread, t}
  /\ mutex_waiting' = [mutex_waiting EXCEPT ![m] = Append(@, t)]
  /\ stallThread(t, "mutex")
  /\ UNCHANGED <<mutex_owner, cond_waiting, barrier_waiting>>

\* A trylock that finds the mutex locked by another thread changes nothing.
MutexTryFails(t, m) ==
  /\ Calls(t) /\ mutex_owner[m] \notin {NoThread, t}
  /\ UNCHANGED <<tmVars, syncVars>>

\* The owner and the queue of m after SimMutex::unlock, and whom it resumes.
NextOwner(m) == IF mutex_waiting[m] = <<>> THEN NoThread ELSE Head(mutex_waiting[m])
RestOf(q) == IF q = <<>> THEN <<>> ELSE Tail(q)

\* Seeded bug: the mutex is given up although somebody waits.
unlock_ToNobody(m) ==
  /\ mutex_owner' = [mutex_owner EXCEPT ![m] = NoThread]
  /\ mutex_waiting' = [mutex_waiting EXCEPT ![m] = RestOf(@)]

unlock(m) ==
  /\ mutex_owner' = [mutex_owner EXCEPT ![m] = NextOwner(m)]
  /\ mutex_waiting' = [mutex_waiting EXCEPT ![m] = RestOf(@)]

\* Seeded bug: the new owner is not resumed.
MutexUnlock_NoResume(t, m) ==
  /\ Calls(t) /\ mutex_owner[m] = t
  /\ unlock(m)
  /\ UNCHANGED <<tmVars, cond_waiting, barrier_waiting>>

MutexUnlock(t, m) ==
  /\ Calls(t) /\ mutex_owner[m] = t
  /\ unlock(m)
  /\ resumeThreads({NextOwner(m)} \ {NoThread})
  /\ UNCHANGED <<cond_waiting, barrier_waiting>>

-----------------------------------------------------------------------------
(* SimCond                                                                 *)

CondWait(t, c, m) ==
  /\ Calls(t) /\ mutex_owner[m] = t
  /\ unlock(m)
  /\ cond_waiting' = [cond_waiting EXCEPT ![c] = Append(@, [thread |-> t, mutex |-> m])]
  /\ stallAndResume(t, "cond", {NextOwner(m)} \ {NoThread})
  /\ UNCHANGED barrier_waiting

(***************************************************************************)
(* SimMutex::lock_async for the cond waiters q, one after the other: the   *)
(* first one that asks for a free mutex becomes its owner and is resumed,  *)
(* the others go to the end of its queue and stay stalled.                 *)
(***************************************************************************)
AskedBy(q, m) ==
  LET asked[i \in 0..Len(q)] == IF i = 0 THEN <<>>
                                ELSE IF q[i].mutex = m THEN Append(asked[i - 1], q[i].thread)
                                ELSE asked[i - 1]
  IN  asked

Requests(q, m) == AskedBy(q, m)[Len(q)]

Granted(q, m) == IF mutex_owner[m] = NoThread /\ Requests(q, m) # <<>>
                 THEN Head(Requests(q, m)) ELSE NoThread

\* Seeded bug: a waiter that gets the mutex at once is not resumed.
lock_async_NoResume(q) ==
  /\ mutex_owner' = [m \in Mutex |-> IF Granted(q, m) = NoThread
                                     THEN mutex_owner[m] ELSE Granted(q, m)]
  /\ mutex_waiting' = [m \in Mutex |-> mutex_waiting[m] \o
                         IF Granted(q, m) = NoThread THEN Requests(q, m) ELSE Tail(Requests(q, m))]
  /\ UNCHANGED tmVars

lock_async(q) ==
  /\ mutex_owner' = [m \in Mutex |-> IF Granted(q, m) = NoThread
                                     THEN mutex_owner[m] ELSE Granted(q, m)]
  /\ mutex_waiting' = [m \in Mutex |-> mutex_waiting[m] \o
                         IF Granted(q, m) = NoThread THEN Requests(q, m) ELSE Tail(Requests(q, m))]
  /\ resumeThreads({Granted(q, m) : m \in Mutex} \ {NoThread})

\* SimCond::signal; with nobody waiting it does nothing.
CondSignal(t, c) ==
  /\ Calls(t)
  /\ IF cond_waiting[c] = <<>>
     THEN UNCHANGED <<tmVars, mutex_owner, mutex_waiting>>
     ELSE lock_async(<<Head(cond_waiting[c])>>)
  /\ cond_waiting' = [cond_waiting EXCEPT ![c] = RestOf(@)]
  /\ UNCHANGED barrier_waiting

CondBroadcast(t, c) ==
  /\ Calls(t)
  /\ lock_async(cond_waiting[c])
  /\ cond_waiting' = [cond_waiting EXCEPT ![c] = <<>>]
  /\ UNCHANGED barrier_waiting

-----------------------------------------------------------------------------
(* SimBarrier                                                              *)

BarrierArrive(t, b) ==
  /\ Calls(t) /\ Len(barrier_waiting[b]) # BarrierCount - 1
  /\ barrier_waiting' = [barrier_waiting EXCEPT ![b] = Append(@, t)]
  /\ stallThread(t, "barrier")
  /\ UNCHANGED <<mutex_owner, mutex_waiting, cond_waiting>>

\* The last thread resumes all the others and goes on.
BarrierComplete(t, b) ==
  /\ Calls(t) /\ Len(barrier_waiting[b]) = BarrierCount - 1
  /\ barrier_waiting' = [barrier_waiting EXCEPT ![b] = <<>>]
  /\ resumeThreads(ThreadsIn(barrier_waiting[b]))
  /\ UNCHANGED <<mutex_owner, mutex_waiting, cond_waiting>>

SyncTypeOK ==
  /\ mutex_owner \in [Mutex -> Thread \cup {NoThread}]
  /\ \A m \in Mutex : mutex_waiting[m] \in Seq(Thread)
  /\ \A c \in Cond : cond_waiting[c] \in Seq([thread : Thread, mutex : Mutex])
  /\ \A b \in Barrier : barrier_waiting[b] \in Seq(Thread)
=============================================================================
