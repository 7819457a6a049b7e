---------------------------- MODULE ThreadManager ----------------------------
(***************************************************************************)
(* The life of simulated threads (common/system/thread_manager.cc).  Every *)
(* call below runs under m_thread_lock, so it is one step; the one place   *)
(* where a call is not over when it has changed the thread table is        *)
(* stallThread: the hooks of stallThread_async may run the periodic hooks, *)
(* and only then does the thread go to wait on its condition variable.     *)
(*                                                                         *)
(* host[t] is where the host thread that executes t is:                    *)
(*   "none"      not created          "new"   created, not started         *)
(*   "app"       runs application code                                     *)
(*   "stalling"  in stallThread, holding m_thread_lock, not yet waiting    *)
(*   "wait"      in Thread::wait      "syscall"  in a blocking system call *)
(*   "gone"      exited                                                    *)
(* status[t] is m_thread_state[t].status, what the simulator believes.     *)
(* Threads keep the core they were created on (scheduler/type = static).   *)
(***************************************************************************)
EXTENDS Naturals, FiniteSets

CONSTANTS
  Thread,          \* thread ids
  MainThread,      \* the thread that exists at the start
  NoThread,        \* INVALID_THREAD_ID, SimMutex::NO_OWNER
  JoinUnstarted    \* may the application join a thread that has not started?

ASSUME ThreadAssumption ==
  /\ MainThread \in Thread /\ NoThread \notin Thread /\ IsFiniteSet(Thread)
  /\ JoinUnstarted \in BOOLEAN

VARIABLES
  status,          \* m_thread_state[t].status
  reason,          \* m_thread_state[t].stalled_reason
  waiter,          \* m_thread_state[t].waiter
  host

tmVars == <<status, reason, waiter, host>>

Status == {"INITIALIZING", "RUNNING", "STALLED", "IDLE"}
Host   == {"none", "new", "app", "stalling", "wait", "syscall", "gone"}
Reason == {"none", "join", "mutex", "cond", "barrier", "futex", "sleep", "syscall"}

ThreadInit ==
  /\ status = [t \in Thread |-> IF t = MainThread THEN "RUNNING" ELSE "IDLE"]
  /\ host = [t \in Thread |-> IF t = MainThread THEN "app" ELSE "none"]
  /\ reason = [t \in Thread |-> "none"]
  /\ waiter = [t \in Thread |-> NoThread]

\* m_thread_lock is free (nobody is between stallThread_async and Thread::wait).
LockFree == \A t \in Thread : host[t] # "stalling"

\* Thread t executes application code and makes a call that takes the lock.
Calls(t) == LockFree /\ host[t] = "app"

anyThreadRunning == \E t \in Thread : status[t] \in {"RUNNING", "INITIALIZING"}

-----------------------------------------------------------------------------
(* Stalling and resuming                                                   *)

\* resumeThread of every thread in W.  Thread::signal only reaches a thread that
\* is in Thread::wait; one that is still in stallThread misses it.
Woken(W) ==
  /\ status' = [t \in Thread |-> IF t \in W THEN "RUNNING" ELSE status[t]]
  /\ host' = [t \in Thread |-> IF t \in W /\ host[t] = "wait" THEN "app" ELSE host[t]]

resumeThreads(W) == Woken(W) /\ UNCHANGED <<reason, waiter>>

\* stallThread_async(t, r), by a call that also resumes the threads in W.
stallAndResume(t, r, W) ==
  /\ status' = [x \in Thread |->
                  CASE x = t -> "STALLED" [] x \in W -> "RUNNING" [] OTHER -> status[x]]
  /\ host' = [x \in Thread |->
                CASE x = t -> "stalling"
                  [] x \in W /\ host[x] = "wait" -> "app"
                  [] OTHER -> host[x]]
  /\ reason' = [reason EXCEPT ![t] = r]
  /\ UNCHANGED waiter

stallThread(t, r) == stallAndResume(t, r, {})

\* Seeded bug: the thread waits without looking at its status again.
EnterWait_NoRecheck(t) ==
  /\ host[t] = "stalling"
  /\ anyThreadRunning
  /\ host' = [host EXCEPT ![t] = "wait"]
  /\ UNCHANGED <<status, reason, waiter>>

\* The end of stallThread: once some thread runs (until then the barrier is
\* advanced), the thread waits, unless the periodic hooks have resumed it already.
EnterWait(t) ==
  /\ host[t] = "stalling"
  /\ anyThreadRunning
  /\ host' = [host EXCEPT ![t] = IF status[t] = "RUNNING" THEN "app" ELSE "wait"]
  /\ UNCHANGED <<status, reason, waiter>>

-----------------------------------------------------------------------------
(* Creation, exit, join                                                    *)

\* createThread, called by the running thread t for the new thread n.
CreateThread(t, n) ==
  /\ Calls(t) /\ host[n] = "none"
  /\ status' = [status EXCEPT ![n] = "INITIALIZING"]
  /\ host' = [host EXCEPT ![n] = "new"]
  /\ UNCHANGED <<reason, waiter>>

\* onThreadStart: whoever is registered as the waiter is signalled, with no
\* change of its status, and the registration is dropped.
ThreadStart(n) ==
  /\ LockFree /\ host[n] = "new"
  /\ status' = [status EXCEPT ![n] = "RUNNING"]
  /\ host' = [t \in Thread |->
                CASE t = n -> "app"
                  [] t = waiter[n] /\ host[t] = "wait" -> "app"
                  [] OTHER -> host[t]]
  /\ waiter' = [waiter EXCEPT ![n] = NoThread]
  /\ UNCHANGED reason

\* onThreadExit, up to wakeUpWaiter: W are threads resumed by the futexWake of
\* CLONE_CHILD_CLEARTID.
exitThread(t, W) ==
  LET woken == W \cup ({waiter[t]} \ {NoThread}) IN
  /\ status' = [x \in Thread |->
                  CASE x = t -> "IDLE" [] x \in woken -> "RUNNING" [] OTHER -> status[x]]
  /\ host' = [x \in Thread |->
                CASE x = t -> "gone"
                  [] x \in woken /\ host[x] = "wait" -> "app"
                  [] OTHER -> host[x]]
  /\ waiter' = [waiter EXCEPT ![t] = NoThread]
  /\ UNCHANGED reason

\* joinThread of a thread that has exited returns at once.
JoinExited(t, j) ==
  /\ Calls(t) /\ host[j] = "gone"
  /\ UNCHANGED tmVars

\* joinThread of a thread that has not exited.  A second joiner of the same
\* thread is an error of the application (LOG_ASSERT_ERROR).
JoinThread(t, j) ==
  /\ Calls(t) /\ t # j
  /\ host[j] \notin {"none", "gone"}
  /\ host[j] = "new" => JoinUnstarted
  /\ waiter[j] = NoThread
  /\ waiter' = [waiter EXCEPT ![j] = t]
  /\ status' = [status EXCEPT ![t] = "STALLED"]
  /\ host' = [host EXCEPT ![t] = "stalling"]
  /\ reason' = [reason EXCEPT ![t] = "join"]

\* A blocking system call (read, pause, select, poll, wait4) is executed natively
\* with the thread marked as stalled (stallThread_async, resumeThread_async).
SyscallEnter(t) ==
  /\ Calls(t)
  /\ status' = [status EXCEPT ![t] = "STALLED"]
  /\ host' = [host EXCEPT ![t] = "syscall"]
  /\ reason' = [reason EXCEPT ![t] = "syscall"]
  /\ UNCHANGED waiter

SyscallExit(t) ==
  /\ LockFree /\ host[t] = "syscall"
  /\ status' = [status EXCEPT ![t] = "RUNNING"]
  /\ host' = [host EXCEPT ![t] = "app"]
  /\ UNCHANGED <<reason, waiter>>

ThreadTypeOK ==
  /\ status \in [Thread -> Status]
  /\ reason \in [Thread -> Reason]
  /\ waiter \in [Thread -> Thread \cup {NoThread}]
  /\ host \in [Thread -> Host]
=============================================================================
