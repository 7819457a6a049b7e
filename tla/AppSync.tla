------------------------------- MODULE AppSync -------------------------------
(***************************************************************************)
(* The thread manager, the synchronisation server and the system-call      *)
(* server together: the application's threads call them in any order, the  *)
(* clock-skew barrier calls the periodic hook, and a stall that leaves no  *)
(* thread running advances time or ends the simulation.                    *)
(***************************************************************************)
EXTENDS SyncServer, SyscallServer

CONSTANTS
  BlockHolding,   \* may a thread block while it owns a mutex?
  LastLeaves      \* may the last running thread exit, or enter a system call,
                  \* while others wait for a timeout?

VARIABLE aborted        \* "No threads running, no timeout. Application has deadlocked..."

vars == <<tmVars, syncVars, futexVars, aborted>>

Init == ThreadInit /\ SyncInit /\ FutexInit /\ aborted = FALSE

Owns(t) == \E m \in Mutex : mutex_owner[m] = t

\* What the application assumption BlockHolding = FALSE rules out.
Free(t) == BlockHolding \/ ~Owns(t)

\* What the application assumption LastLeaves = FALSE rules out.
MayLeave(t) ==
  LastLeaves \/ ~hasNextTimeout
             \/ \E x \in Thread \ {t} : status[x] \in {"RUNNING", "INITIALIZING"}

\* How many waiters a call asks to wake: none (FUTEX_CMP_REQUEUE may), one, all.
Nr == {0, 1, Cardinality(Thread)}

ThreadNext(t) ==
  /\ UNCHANGED <<syncVars, futexVars, aborted>>
  /\ \/ EnterWait(t)
     \/ \E n \in Thread : CreateThread(t, n)
     \/ ThreadStart(t)
     \/ \E j \in Thread : JoinExited(t, j) \/ (Free(t) /\ JoinThread(t, j))
     \/ Free(t) /\ MayLeave(t) /\ SyscallEnter(t)
     \/ SyscallExit(t)

SyncNext(t) ==
  /\ UNCHANGED <<futexVars, aborted>>
  /\ \/ \E m \in Mutex : \/ MutexTake(t, m)
                         \/ Free(t) /\ MutexQueue(t, m)
                         \/ MutexTryFails(t, m)
                         \/ MutexUnlock(t, m)
     \/ \E c \in Cond, m \in Mutex : CondWait(t, c, m)
     \/ \E c \in Cond : CondSignal(t, c) \/ CondBroadcast(t, c)
     \/ \E b \in Barrier : (Free(t) /\ BarrierArrive(t, b)) \/ BarrierComplete(t, b)

FutexNext(t) ==
  /\ UNCHANGED <<syncVars, aborted>>
  /\ \/ \E d \in 0..MaxTimeout : SleepCall(t, d)
     \/ FutexWouldBlock(t)
     \/ Free(t) /\ \E a \in Addr, d \in 0..Never : FutexWait(t, a, d)
     \/ \E a \in Addr, n \in Nr :
          \/ FutexWake(t, a, n)
          \/ \E b \in Addr : \/ FutexWakeOp(t, a, b, 1, n, TRUE)
                            \/ FutexWakeOp(t, a, b, n, 1, FALSE)
                            \/ FutexCmpRequeue(t, a, n, b)
     \/ Free(t) /\ MayLeave(t) /\ (ThreadExit(t) \/ \E a \in Addr : ThreadExitClearTid(t, a))

\* The barrier calls the periodic hook: it was reached by the running threads, or a
\* thread that stalls advances it because nobody runs.
Period ==
  /\ anyThreadRunning \/ ~LockFree
  /\ Periodic
  /\ UNCHANGED <<syncVars, aborted>>

\* BarrierSyncServer::advance finds nobody to wake, now or later.
Abort ==
  /\ ~LockFree /\ ~anyThreadRunning /\ ~hasNextTimeout
  /\ aborted' = TRUE
  /\ UNCHANGED <<tmVars, syncVars, futexVars>>

Next ==
  /\ ~aborted
  /\ \/ \E t \in Thread : ThreadNext(t) \/ SyncNext(t) \/ FutexNext(t)
     \/ Period
     \/ Abort

(***************************************************************************)
(* Fairness: host threads run (the host's scheduler), periods pass, system *)
(* calls return, and the application unlocks what it has locked.  The last *)
(* one is strong: a thread may sleep now and then while it owns a mutex.   *)
(***************************************************************************)
Wait(t) == ~aborted /\ EnterWait(t) /\ UNCHANGED <<syncVars, futexVars, aborted>>
Unlock(t, m) == ~aborted /\ MutexUnlock(t, m) /\ UNCHANGED <<futexVars, aborted>>

Fairness ==
  /\ WF_vars(~aborted /\ Period)
  /\ WF_vars(\E t \in Thread : Wait(t))
  /\ \A t \in Thread : SF_vars(\E m \in Mutex : Unlock(t, m))

Spec == Init /\ [][Next]_vars
FairSpec == Spec /\ Fairness

-----------------------------------------------------------------------------
(* Properties                                                              *)

TypeOK == ThreadTypeOK /\ SyncTypeOK /\ FutexTypeOK /\ aborted \in BOOLEAN

\* How often t stands in the queues.
InMutex(t)   == UNION {{m} \X {i \in DOMAIN mutex_waiting[m] : mutex_waiting[m][i] = t} : m \in Mutex}
InCond(t)    == UNION {{c} \X {i \in DOMAIN cond_waiting[c] : cond_waiting[c][i].thread = t} : c \in Cond}
InBarrier(t) == UNION {{b} \X {i \in DOMAIN barrier_waiting[b] : barrier_waiting[b][i] = t} : b \in Barrier}
InFutex(t)   == UNION {{a} \X {i \in DOMAIN futex_waiting[a] : futex_waiting[a][i].thread = t} : a \in Addr}
InSleep(t)   == {i \in DOMAIN sleeping : sleeping[i].thread = t}
Joining(t)   == {j \in Thread : waiter[j] = t}
Entries(t)   == Cardinality(InMutex(t)) + Cardinality(InCond(t)) + Cardinality(InBarrier(t))
                + Cardinality(InFutex(t)) + Cardinality(InSleep(t)) + Cardinality(Joining(t))

(***************************************************************************)
(* A thread that is stalled can be woken by exactly one event: it stands   *)
(* once in one queue (of the kind it stalled for; a signalled waiter of a  *)
(* condition variable stands in the mutex queue).  A running thread stands *)
(* in none, so that no later wake resumes it a second time, in the middle  *)
(* of something else.                                                      *)
(***************************************************************************)
OneWayToWake ==
  \A t \in Thread :
    IF status[t] = "STALLED" /\ reason[t] # "syscall"
    THEN /\ Entries(t) = 1
         /\ CASE reason[t] = "mutex"   -> InMutex(t) # {}
              [] reason[t] = "cond"    -> InCond(t) # {} \/ InMutex(t) # {}
              [] reason[t] = "barrier" -> InBarrier(t) # {}
              [] reason[t] = "futex"   -> InFutex(t) # {}
              [] reason[t] = "sleep"   -> InSleep(t) # {}
              [] reason[t] = "join"    -> Joining(t) # {}
    ELSE Entries(t) = 0

(***************************************************************************)
(* The host side agrees with the thread table: who waits in Thread::wait   *)
(* is stalled (no signal was lost between stallThread_async and wait), and *)
(* who runs application code is RUNNING, as onThreadExit asserts.          *)
(***************************************************************************)
HostAgrees ==
  \A t \in Thread :
    /\ host[t] = "wait" => status[t] = "STALLED"
    /\ host[t] = "app" => status[t] = "RUNNING"

(***************************************************************************)
(* A mutex changes hands without becoming free: as long as somebody waits  *)
(* for it, it has an owner, who is not waiting for it and has not given it *)
(* up to wait for a condition.                                             *)
(***************************************************************************)
MutexHandedOver ==
  \A m \in Mutex :
    /\ mutex_waiting[m] # <<>> => mutex_owner[m] # NoThread
    /\ mutex_owner[m] \notin ThreadsIn(mutex_waiting[m])
    /\ \A c \in Cond : [thread |-> mutex_owner[m], mutex |-> m] \notin Range(cond_waiting[c])

(***************************************************************************)
(* "Wake up potential others in the next barrier synchronization": one     *)
(* sleeper per period is enough, nobody who called nanosleep is woken more *)
(* than as many periods late as there are other threads, whatever the      *)
(* others do meanwhile.  (Nothing of the kind holds for a futex: waiters   *)
(* that FUTEX_CMP_REQUEUE moves keep their deadline and lose their place.) *)
(***************************************************************************)
TimeoutsAreServed == \A i \in DOMAIN sleeping : sleeping[i].left > -Latest

(***************************************************************************)
(* "Application has deadlocked" is never raised over a mutex, when         *)
(* applications do not block for other reasons while they own one          *)
(* (BlockHolding = FALSE): on every way a mutex changes hands, by unlock,  *)
(* by a wait on a condition variable, by a signal or a broadcast, the new  *)
(* owner is resumed, so that those who queue behind it wait for a thread   *)
(* that runs or sleeps with a timeout.                                     *)
(***************************************************************************)
NoAbortOverMutex == aborted => \A m \in Mutex : mutex_waiting[m] = <<>>

(***************************************************************************)
(* "When all threads are stalled, we have a deadlock -- unless we let the  *)
(* barrier advance time which may wake up threads that are sleeping": as   *)
(* long as somebody waits for a timeout, some thread is there to advance   *)
(* time, or will return from a system call.                                *)
(***************************************************************************)
TimeoutsCanFire ==
  hasNextTimeout => \/ anyThreadRunning
                    \/ \E t \in Thread : host[t] \in {"stalling", "syscall"}

(***************************************************************************)
(* Whoever waits for a mutex gets it in the end, when applications do not  *)
(* block for other reasons while they own one (BlockHolding = FALSE), and  *)
(* the last running thread does not leave an owner behind that sleeps      *)
(* (LastLeaves = FALSE): it cannot happen that the queue is never empty    *)
(* again and the owner never changes again (and the queue is first in,     *)
(* first out).                                                             *)
(***************************************************************************)
MutexServed ==
  \A m \in Mutex :
    \/ []<>(mutex_waiting[m] = <<>> \/ aborted)
    \/ []<><<mutex_owner'[m] # mutex_owner[m]>>_vars
=============================================================================
