--------------------------- MODULE ThreadPlacement ---------------------------
(***************************************************************************)
(* More threads than cores: the thread manager, the dynamic scheduler, the *)
(* periodic wake-ups of the system-call server and the clock-skew barrier  *)
(* together.  Each call that takes m_thread_lock is one step, with all the *)
(* hooks it runs.  pc[t] is where the host thread of t is:                 *)
(*   "none", "new"  not created; created, onThreadStart still to come      *)
(*   "app"          executes instructions of the application               *)
(*   "barrier"      in synchronize, waiting on the condition variable of   *)
(*                  the core it came from                                  *)
(*   "wait"         in Thread::wait                                        *)
(*   "syscall"      in a blocking system call                              *)
(*   "check"        about to look at its m_core again (Thread::reschedule) *)
(*   "gone"         exited                                                 *)
(***************************************************************************)
EXTENDS PinnedScheduler

LOCAL INSTANCE SequencesExt

CONSTANTS
  Masks,                 \* the affinities the application and the scheduler use
  EnableAgain            \* may the barrier be switched on again once it was off?

VARIABLES status, reason, core, state, pc, affinity, runnable, on, running, left,
          clock, acquire, slot, to_release, cond, entering, futx, disable, failed

(***************************************************************************)
(* Two variables record history, for the properties; no step depends on    *)
(* them.                                                                   *)
(*   deserted    the last running thread has exited or entered a blocking  *)
(*               system call, and none has run since                       *)
(*   overtaken   the cores on whose condition variable a wait has reset    *)
(*               m_futx before the thread it was set for called            *)
(*               FUTEX_WAIT, until nobody waits there any more             *)
(***************************************************************************)
VARIABLES deserted, overtaken

vars == <<status, reason, core, state, pc, affinity, runnable, on, running, left,
          clock, acquire, slot, to_release, cond, entering, futx, disable, failed,
          deserted, overtaken>>

Now == [status |-> status, reason |-> reason, core |-> core, state |-> state, pc |-> pc,
        affinity |-> affinity, runnable |-> runnable, on |-> on, running |-> running,
        left |-> left, clock |-> clock, acquire |-> acquire, slot |-> slot,
        to_release |-> to_release, cond |-> cond, entering |-> entering, futx |-> futx,
        disable |-> disable, failed |-> failed, overtaken |-> overtaken]

Becomes(s) ==
  /\ status' = s.status /\ reason' = s.reason /\ core' = s.core /\ state' = s.state
  /\ pc' = s.pc /\ affinity' = s.affinity /\ runnable' = s.runnable /\ on' = s.on
  /\ running' = s.running /\ left' = s.left /\ clock' = s.clock /\ acquire' = s.acquire
  /\ slot' = s.slot /\ to_release' = s.to_release /\ cond' = s.cond
  /\ entering' = s.entering /\ futx' = s.futx /\ disable' = s.disable /\ failed' = s.failed
  /\ overtaken' = {c \in s.overtaken : s.entering[c] # {} \/ s.cond[c] # <<>>}

\* The outcome is one of the states in S.
OneOf(S) == \E s \in S : Becomes(s)

\* The main thread runs on core 0.
Init ==
  /\ \E m \in Thread, mask \in Masks :
       /\ 0 \in mask
       /\ affinity = [t \in Thread |-> IF t = m THEN mask ELSE {}]
       /\ status = [t \in Thread |-> IF t = m THEN "RUNNING" ELSE "IDLE"]
       /\ pc = [t \in Thread |-> IF t = m THEN "app" ELSE "none"]
       /\ core = [t \in Thread |-> IF t = m THEN 0 ELSE NoCore]
       /\ running = [c \in Core |-> IF c = 0 THEN m ELSE NoThread]
       /\ runnable = [t \in Thread |-> t = m]
  /\ on = core
  /\ reason = [t \in Thread |-> "none"]
  /\ state = [c \in Core |-> IF c = 0 THEN "RUNNING" ELSE "IDLE"]
  /\ left = [c \in Core |-> IF c = 0 THEN Quantum ELSE 0]
  /\ clock = [c \in Core |-> Early]
  /\ acquire = [c \in Core |-> FALSE]
  /\ slot = [c \in Core |-> NoThread]
  /\ to_release = <<>>
  /\ cond = [c \in Core |-> <<>>] /\ entering = [c \in Core |-> {}]
  /\ futx = [c \in Core |-> FALSE]
  /\ disable = FALSE
  /\ failed = "none"
  /\ deserted = FALSE /\ overtaken = {}

-----------------------------------------------------------------------------
(***************************************************************************)
(* What timing decides in one call is collected in a record h:             *)
(*   rank      living threads by score     shuffle   std::random_shuffle   *)
(*   wake[i]   the thread whose timeout is served in the i-th period, if   *)
(*             any                                                         *)
(***************************************************************************)
RECURSIVE passPeriods(_, _, _, _)

Sleepers(s) == {t \in Thread : s.status[t] = "STALLED" /\ s.reason[t] = "sleep"}

\* HOOK_PERIODIC: SyscallServer::futexPeriodic wakes at most one, then the scheduler.
callPeriodic(s, w, rank) ==
  periodic(IF w \in Sleepers(s) THEN resumeThread(s, w, rank) ELSE s, rank)

\* The loop of barrierRelease, from its i-th round: until a slot is given back.
endPeriod(s, caller, i, h) ==
  LET s1 == passBarrier(s, caller, h.shuffle) IN
  IF s1.acquire # s.acquire THEN doRelease(s1, NumHostCores)
  ELSE IF i = MaxAhead THEN [s1 EXCEPT !.failed = "spins"]
  ELSE passPeriods(s1, caller, i + 1, h)

passPeriods(s, caller, i, h) == endPeriod(callPeriodic(s, h.wake[i], h.rank), caller, i, h)

barrierRelease(s, caller, h) ==
  IF s.to_release # <<>> THEN [s EXCEPT !.failed = "haven't even restarted"]
  ELSE passPeriods(s, caller, 0, h)

signal(s, h) ==
  IF ~s.disable /\ isBarrierReached(s) THEN barrierRelease(s, NoThread, h) ELSE s

\* advance, called until some thread runs: the scheduler may find one in the first
\* period; otherwise nothing happens up to the period in which a timeout is served.
\* With m_disable set barrierRelease returns before it moves m_next_barrier_time: the
\* next calls see the same time, in which no timeout is due, and the loop of
\* stallThread never ends.
wakeNext(s, h) ==
  IF anyThreadRunning(s) THEN s
  ELSE IF Sleepers(s) = {} THEN [s EXCEPT !.failed = "deadlocked"]
  ELSE IF s.disable THEN [s EXCEPT !.failed = "time stands still"]
  ELSE callPeriodic(s, best(Sleepers(s), h.rank), h.rank)

\* Seeded bug: the assertion comes before the periodic hooks.
advance_CheckFirst(s, h) ==
  LET s1 == callPeriodic(s, h.wake[0], h.rank)
  IN  IF Sleepers(s) = {} THEN [s EXCEPT !.failed = "deadlocked"] ELSE wakeNext(s1, h)

advance(s, h) ==
  IF s.to_release # <<>> THEN [s EXCEPT !.failed = "haven't even restarted"]
  ELSE wakeNext(callPeriodic(s, h.wake[0], h.rank), h)

\* The parts of synchronize by thread t, whose core c is k intervals past the barrier.
arrive(s, t, c, k) == [doRelease(s, 1) EXCEPT !.clock[c] = k, !.acquire[c] = TRUE, !.slot[c] = t]

tryRelease(s, t, h) == IF isBarrierReached(s) THEN barrierRelease(s, t, h) ELSE s
waitOn(s, t, c) ==
  IF s.acquire[c]
  THEN [s EXCEPT !.pc[t] = "barrier", !.entering[c] = @ \cup {t}, !.futx[c] = FALSE,
                 !.overtaken = IF s.futx[c] THEN @ \cup {c} ELSE @]
  ELSE [s EXCEPT !.pc[t] = "check"]

synchronize(s, t, k, h) ==
  LET c == s.core[t] IN
  IF s.acquire[c] \/ s.state[c] = "IDLE" THEN [s EXCEPT !.failed = "already in the barrier"]
  ELSE waitOn(tryRelease(arrive(s, t, c, k), t, h), t, c)

\* stallThread_async with the hooks of the scheduler and of the barrier.
stallThread_async(s, t, r, h) ==
  LET s1 == [s EXCEPT !.status[t] = "STALLED", !.reason[t] = r]
      s2 == IF r = "unscheduled" THEN s1 ELSE leaveCore(s1, t, h.rank)
  IN  signal(releaseThread(s2, t), h)

\* The end of stallThread: time advances if nobody runs, then the thread waits
\* unless it has been resumed meanwhile.
letTimePass(s, h) == IF anyThreadRunning(s) THEN s ELSE advance(s, h)
goToWait(s, t) == [s EXCEPT !.pc[t] = IF s.status[t] = "RUNNING" THEN "check" ELSE "wait"]

\* Seeded bug: the last thread to stall does not let time advance.
stallThread_NoAdvance(s, t, r, h) == goToWait(stallThread_async(s, t, r, h), t)

stallThread(s, t, r, h) == goToWait(letTimePass(stallThread_async(s, t, r, h), h), t)

\* createThread_unlocked.
createThread(s, n, mask) ==
  LET s1 == threadCreate([s EXCEPT !.status[n] = "INITIALIZING", !.pc[n] = "new"], n, mask)
      c == s1.on[n]
  IN  IF c = NoCore THEN s1 ELSE [s1 EXCEPT !.core[n] = c, !.state[c] = "INITIALIZING"]

\* A thread that finds no core when it starts is stalled at once.
startOnCore(s, n) ==
  IF s.core[n] = NoCore THEN [s EXCEPT !.status[n] = "STALLED", !.reason[n] = "unscheduled"]
  ELSE releaseThread([s EXCEPT !.state[s.core[n]] = "RUNNING"], n)

onThreadStart(s, n, rank) ==
  startOnCore(threadStart([s EXCEPT !.status[n] = "RUNNING", !.pc[n] = "check"], n, rank), n)

\* onThreadExit; W is the thread that joins, or the waiter on the futex of
\* CLONE_CHILD_CLEARTID, if any.
onThreadExit(s, t, W, h) ==
  LET s1 == [s EXCEPT !.status[t] = "IDLE", !.pc[t] = "gone"]
      s2 == IF W = {} THEN s1 ELSE resumeThread(s1, CHOOSE w \in W : TRUE, h.rank)
      s3 == [s2 EXCEPT !.state[s.core[t]] = "IDLE", !.core[t] = NoCore]
  IN  signal(releaseThread(leaveCore(s3, t, h.rank), t), h)

-----------------------------------------------------------------------------
(* The calls                                                               *)

\* Thread t executes instructions on a core and makes a call.
Runs(t) == pc[t] = "app" /\ core[t] # NoCore

Orders(S, n) == {p \in [1..n -> S] : \A i, j \in 1..n : p[i] = p[j] => i = j}
Alive    == {t \in Thread : pc[t] \notin {"none", "gone"}}
Ranks    == Orders(Alive, Cardinality(Alive))
Shuffles == LET A == {c \in Core : acquire[c]} IN Orders(A, Cardinality(A))

\* Only t keeps the barrier closed.
LastToCome(t) == \A c \in Core : isCoreRunning(Now, c) /\ core[t] # c => clock[c] # Early

\* The outcomes of timing that differ, for a call of t after which the threads in W
\* may be served: a period passes in it only if t is the last to come, and a thread
\* is chosen only in a period or when t leaves its core.
Timing(t, W, leaves) ==
  LET last == LastToCome(t)
      Vary(S, differ) == IF differ THEN S ELSE {CHOOSE x \in S : TRUE}
  IN  [rank    : Vary(Ranks, last \/ leaves),
       shuffle : Vary(Shuffles, last),
       wake    : [0..MaxAhead -> IF last THEN W \cup {NoThread} ELSE {NoThread}]]

Sync(t) ==
  /\ Runs(t) /\ ~disable
  /\ OneOf({synchronize(Now, t, k, h) : k \in 0..MaxAhead, h \in Timing(t, Sleepers(Now), FALSE)})

\* The end of ConditionVariable::wait, after the locks are released: FUTEX_WAIT
\* returns at once if m_futx is set.
FutexWait(t) ==
  \E c \in Core :
    LET s == [Now EXCEPT !.entering[c] = @ \ {t}, !.futx[c] = @ /\ entering[c] # {t}] IN
    /\ t \in entering[c]
    /\ Becomes(IF futx[c] THEN [s EXCEPT !.pc[t] = "check"]
               ELSE [s EXCEPT !.cond[c] = Append(@, t)])

Recheck(t) ==
  /\ pc[t] = "check"
  /\ IF core[t] = NoCore
     THEN OneOf({stallThread(Now, t, "unscheduled", h) : h \in Timing(t, Sleepers(Now), FALSE)})
     ELSE Becomes([Now EXCEPT !.pc[t] = "app"])

Stall(t) ==
  /\ Runs(t)
  /\ OneOf({stallThread(Now, t, "sleep", h) : h \in Timing(t, Sleepers(Now) \cup {t}, TRUE)})

Resume(t) ==
  /\ Runs(t)
  /\ OneOf({resumeThread(Now, u, rank) : u \in Sleepers(Now), rank \in Ranks})

SyscallEnter(t) ==
  /\ Runs(t)
  /\ OneOf({[stallThread_async(Now, t, "syscall", h) EXCEPT !.pc[t] = "syscall"] :
              h \in Timing(t, Sleepers(Now), TRUE)})

SyscallExit(t) ==
  /\ pc[t] = "syscall"
  /\ OneOf({[resumeThread_async(Now, t, rank) EXCEPT !.pc[t] = "check"] : rank \in Ranks})

Create(t) ==
  /\ Runs(t)
  /\ \E n \in Thread, mask \in Masks : pc[n] = "none" /\ Becomes(createThread(Now, n, mask))

Start(n) ==
  /\ pc[n] = "new"
  /\ OneOf({onThreadStart(Now, n, rank) : rank \in Ranks})

Exit(t) ==
  /\ Runs(t)
  /\ OneOf({onThreadExit(Now, t, W, h) : W \in {{}} \cup {{u} : u \in Sleepers(Now)},
                                         h \in Timing(t, Sleepers(Now), TRUE)})

Yield(t) ==
  /\ Runs(t)
  /\ OneOf({[threadYield(Now, t, rank) EXCEPT !.pc[t] = "check"] : rank \in Ranks})

SetAffinity(t) ==
  /\ Runs(t)
  /\ OneOf({[threadSetAffinity(Now, t, u, mask, rank) EXCEPT !.pc[t] = "check"] :
              u \in Alive, mask \in Masks, rank \in Ranks})

SetDisable(t) ==
  /\ Runs(t)
  /\ disable => EnableAgain
  /\ Becomes(setDisable(Now, ~disable))

\* The two calls after which nobody looks whether a thread still runs.
Leave(t) == SyscallEnter(t) \/ Exit(t)

Call(t) ==
  \/ Sync(t) \/ FutexWait(t) \/ Recheck(t) \/ Create(t) \/ Start(t) \/ Stall(t) \/ Resume(t)
  \/ SyscallExit(t) \/ Yield(t) \/ SetAffinity(t) \/ SetDisable(t)

Next ==
  /\ failed = "none"
  /\ \E t \in Thread :
       \/ Leave(t) /\ deserted' = ~(anyThreadRunning(Now))'
       \/ Call(t) /\ deserted' = (deserted /\ ~(anyThreadRunning(Now))')

Spec == Init /\ [][Next]_vars

-----------------------------------------------------------------------------
(* Properties                                                              *)

(***************************************************************************)
(* The five views of who runs where agree whenever the lock is free:       *)
(* Thread::m_core, m_thread_info and m_core_thread_running of the          *)
(* scheduler, the state of the core, and the host thread.  So no two       *)
(* threads are on one core, as Thread::setCore asserts, and a thread that  *)
(* executes instructions, makes calls or exits is on a core and RUNNING    *)
(* ("We cannot execute instructions while not on a core", "Thread ended    *)
(* while not running on a core?"): pre-emption only happens to threads     *)
(* that look at their core again before they go on.                        *)
(***************************************************************************)
PlacementAgrees ==
  /\ \A t \in Thread : core[t] = on[t]
  /\ \A c \in Core, t \in Thread : running[c] = t <=> on[t] = c
  /\ \A c \in Core : state[c] = "RUNNING" <=> \E t \in Thread : core[t] = c /\ status[t] = "RUNNING"
  /\ \A t \in Thread : pc[t] = "app" => core[t] # NoCore /\ status[t] = "RUNNING"

\* The threads that go on without being woken: those that execute or are about to
\* look at their core, and those on whom FUTEX_WAIT will not wait.
Awake == {t \in Thread : \/ pc[t] \in {"app", "check"}
                        \/ \E c \in Core : t \in entering[c] /\ futx[c]}

(***************************************************************************)
(* As long as some thread wants to run, some core runs one, or a thread is *)
(* about to start, or one is about to find out that it has no core, which  *)
(* stalls it and lets time advance: the cores are never all idle while     *)
(* threads wait for one, through all orders of stalls, wake-ups, exits,    *)
(* pre-emptions and changes of affinity.  The one exception is `deserted': *)
(* onThreadExit and the entry of a system call reschedule only the core    *)
(* that is left and, unlike stallThread, do not let time advance, so that  *)
(* a thread which may only use another core, free as it is, waits until    *)
(* somebody else runs again.                                               *)
(***************************************************************************)
CoresAreUsed ==
  (\E t \in Thread : status[t] = "RUNNING" \/ reason[t] = "unscheduled") =>
     \/ \E c \in Core : isCoreRunning(Now, c)
     \/ \E t \in Thread : status[t] = "INITIALIZING" \/ (t \in Awake /\ core[t] = NoCore)
     \/ deserted

(***************************************************************************)
(* Whoever holds the slot of a core in the barrier is on that core, and no *)
(* signal is meant for nobody.  As long as no signal was overtaken by a    *)
(* wait, the holder of a slot waits for it to be given back, and a core is *)
(* on the list of those to release as often as others wait on its          *)
(* condition variable: threads whose slot was given back, pre-empted       *)
(* meanwhile or not, and whose signal is still to come ("so we'll be sure  *)
(* to release it", threadMigrate).  Where a signal was overtaken, one of   *)
(* the waiters has neither a slot nor a signal.                            *)
(***************************************************************************)
SlotsAccountForWaiters ==
  \A c \in Core :
    LET signals == Cardinality({i \in DOMAIN to_release : to_release[i] = c})
        waiting == ToSet(cond[c]) \cup (IF futx[c] THEN {} ELSE entering[c])
        owner   == IF acquire[c] THEN {slot[c]} ELSE {}
    IN  /\ acquire[c] => core[slot[c]] = c
        /\ signals <= Cardinality(waiting \ owner)
        /\ c \notin overtaken =>
             owner \subseteq waiting /\ signals = Cardinality(waiting \ owner)

(***************************************************************************)
(* Nobody waits in the barrier for nothing: a thread that has not arrived  *)
(* is on its way, and when all have arrived one that lost its core is      *)
(* about to stall, which makes the barrier look again.  The limit on the   *)
(* threads that are released at once (NumHostCores) strands none.  Only a  *)
(* signal that a wait has overtaken does.                                  *)
(***************************************************************************)
NotStuck ==
  ~disable /\ overtaken = {} =>
    /\ isBarrierReached(Now) => \E t \in Awake : core[t] = NoCore
    /\ (\E c \in Core : cond[c] # <<>>) =>
          \E t \in Awake : core[t] = NoCore \/ clock[core[t]] = Early

(***************************************************************************)
(* No assertion fails: "Core or its sibling is already in the barrier",    *)
(* "Reached the barrier while some threads haven't even restarted?", and   *)
(* "Application has deadlocked" although a thread sleeps (every stall of   *)
(* this module has a timeout); and the loops of barrierRelease and         *)
(* stallThread end.  The one exception is a barrier that was switched off: *)
(* when the last running thread then stalls before the next timeout is     *)
(* due, stallThread asks for ever for a time that does not come.           *)
(***************************************************************************)
NoFailure == failed = "none" \/ (failed = "time stands still" /\ disable)
=============================================================================
