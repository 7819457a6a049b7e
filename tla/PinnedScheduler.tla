--------------------------- MODULE PinnedScheduler ---------------------------
(***************************************************************************)
(* The dynamic scheduler with affinities (common/scheduler/, type pinned   *)
(* or roaming) and the functions of the thread manager that it calls and   *)
(* that call it back: reschedule moves a thread, which resumes it, whose   *)
(* hook reschedules again.  The scheduler's fields of the state are        *)
(*   affinity, on     m_thread_info[t]: m_core_affinity, m_core_running    *)
(*   runnable         m_threads_runnable[t]                                *)
(*   running          m_core_thread_running[c]                             *)
(*   left             m_quantum_left[c], in barrier intervals              *)
(* Which thread has waited longest depends on the clocks of the cores;     *)
(* `rank' orders the threads by their score, best first, in any way.       *)
(***************************************************************************)
EXTENDS BarrierServer

CONSTANT Quantum         \* the scheduler's quantum, in barrier intervals

ASSUME QuantumAssumption == Quantum \in Nat

RECURSIVE reschedule(_, _, _)
RECURSIVE periodicFrom(_, _, _)

Free(s, t) == {c \in s.affinity[t] : s.running[c] = NoThread}

findFreeCoreForThread(s, t) ==
  IF Free(s, t) = {} THEN NoCore ELSE CHOOSE c \in Free(s, t) : \A d \in Free(s, t) : c <= d

\* threadResume and threadStart: a free core is given away at once.
takeFreeCore(s, t, rank) ==
  LET c == findFreeCoreForThread(s, t) IN
  IF c = NoCore THEN s ELSE reschedule(s, c, rank)

resumeThread_async(s, t, rank) ==
  takeFreeCore([s EXCEPT !.status[t] = "RUNNING", !.reason[t] = "none", !.runnable[t] = TRUE], t, rank)

\* Thread::signal reaches the thread if it is in Thread::wait.
resumeThread(s, t, rank) ==
  resumeThread_async([s EXCEPT !.pc[t] = IF @ = "wait" THEN "check" ELSE @], t, rank)

\* Seeded bug: a thread that is unscheduled keeps its core.
moveThread_Keep(s, t, c, rank) ==
  IF c = NoCore THEN releaseThread(s, t)
  ELSE releaseThread([s EXCEPT !.core[t] = c, !.state[c] = "RUNNING"], t)

\* The parts of moveThread: t leaves its core, is resumed if it stalled for want of
\* a core, and is put on core c, which runs unless t is stalled.
vacate(s, t) == IF s.core[t] = NoCore THEN s ELSE [s EXCEPT !.state[s.core[t]] = "IDLE"]

resumeUnscheduled(s, t, rank) ==
  IF s.core[t] = NoCore /\ s.status[t] = "STALLED" /\ s.reason[t] = "unscheduled"
  THEN resumeThread(s, t, rank) ELSE s

putOn(s, t, c) ==
  [s EXCEPT !.core[t] = c, !.state[c] = IF s.status[t] # "STALLED" THEN "RUNNING" ELSE @]

\* ThreadManager::moveThread, with the migration hook of the barrier.
moveThread(s, t, c, rank) ==
  releaseThread(IF c = NoCore THEN [vacate(s, t) EXCEPT !.core[t] = NoCore]
                ELSE putOn(resumeUnscheduled(vacate(s, t), t, rank), t, c), t)

\* The threads that may run on core c and do not run elsewhere.
Candidates(s, c) ==
  {t \in Thread : c \in s.affinity[t] /\ s.runnable[t] /\ s.on[t] \in {NoCore, c}}

best(K, rank) == IF K = {} THEN NoThread
                 ELSE rank[CHOOSE i \in DOMAIN rank :
                             rank[i] \in K /\ \A j \in DOMAIN rank : rank[j] \in K => i <= j]

\* The two halves of a change on core c.
unschedule(s, c, rank) ==
  LET cur == s.running[c] IN
  IF cur = NoThread THEN s ELSE moveThread([s EXCEPT !.on[cur] = NoCore], cur, NoCore, rank)

schedule(s, c, new, rank) ==
  IF new = NoThread THEN [s EXCEPT !.running[c] = NoThread]
  ELSE moveThread([s EXCEPT !.running[c] = new, !.on[new] = c], new, c, rank)

reschedule(s, c, rank) ==
  LET cur == s.running[c]
      new == best(Candidates(s, c), rank)
  IN  IF cur # NoThread /\ s.status[cur] = "INITIALIZING" THEN s
      ELSE [(IF cur = new THEN s ELSE schedule(unschedule(s, c, rank), c, new, rank))
              EXCEPT !.left[c] = Quantum]

\* periodic, from core c on; one barrier interval has passed.
periodicFrom(s, c, rank) ==
  IF c = NumCores THEN s
  ELSE periodicFrom(IF 1 > s.left[c] \/ s.running[c] = NoThread
                    THEN reschedule(s, c, rank)
                    ELSE [s EXCEPT !.left[c] = @ - 1],
                    c + 1, rank)

periodic(s, rank) == periodicFrom(s, 0, rank)

\* The first thread on a free core gets it, the others wait.
threadCreate(s, t, affinity) ==
  LET s1 == [s EXCEPT !.affinity[t] = affinity]
      c == findFreeCoreForThread(s1, t)
  IN  IF c = NoCore THEN s1
      ELSE [s1 EXCEPT !.on[t] = c, !.running[c] = t, !.left[c] = Quantum]

threadStart(s, t, rank) == takeFreeCore([s EXCEPT !.runnable[t] = TRUE], t, rank)

\* threadStall and threadExit: whoever is next gets the core.
leaveCore(s, t, rank) ==
  LET s1 == [s EXCEPT !.runnable[t] = FALSE] IN
  IF s1.on[t] = NoCore THEN s1 ELSE reschedule(s1, s1.on[t], rank)

\* t may have lost core c for good.
findOther(s, t, c, rank) == IF c \in s.affinity[t] THEN s ELSE takeFreeCore(s, t, rank)

threadYield(s, t, rank) ==
  LET c == s.on[t] IN
  IF c = NoCore THEN s
  ELSE findOther(reschedule([s EXCEPT !.left[c] = 0], c, rank), t, c, rank)

\* sched_setaffinity(t, mask) by `caller'.
threadSetAffinity(s, caller, t, mask, rank) ==
  LET s1 == [s EXCEPT !.affinity[t] = mask] IN
  IF t = caller THEN threadYield(s1, t, rank)
  ELSE IF s1.on[t] # NoCore /\ s1.on[t] \notin mask THEN [s1 EXCEPT !.left[s1.on[t]] = 0]
  ELSE IF s1.runnable[t] /\ s1.on[t] = NoCore THEN takeFreeCore(s1, t, rank)
  ELSE s1
=============================================================================
