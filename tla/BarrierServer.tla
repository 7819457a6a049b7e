---------------------------- MODULE BarrierServer ----------------------------
(***************************************************************************)
(* The data of the clock-skew barrier (common/system/barrier_sync_server.cc*)
(* with m_fastforward = false and no SMT groups), of the thread table and  *)
(* of the cores, and the functions of the barrier that call nobody else.   *)
(*                                                                         *)
(* Everything here runs under m_thread_lock, several calls deep, so each   *)
(* function of the source is an operator from the state before to the      *)
(* state after; a state is a record s with the fields                      *)
(*   status, reason   m_thread_state[t].status, .stalled_reason (while     *)
(*                    stalled; it is not read otherwise)                   *)
(*   core             Thread::m_core             state   Core::m_core_state*)
(*   pc               where the host thread is (see ThreadPlacement)       *)
(*   affinity, runnable, on, running, left       the scheduler's           *)
(*   clock            m_local_clock_list[c], in barrier intervals after    *)
(*                    m_next_barrier_time; Early when it is before it      *)
(*   acquire, slot    m_barrier_acquire_list[c], m_core_thread[c] (while   *)
(*                    acquired; it is not read otherwise)                  *)
(*   to_release       m_to_release                                         *)
(*   entering         the threads in m_core_cond[c]->wait that have set    *)
(*                    m_futx to 0 and not yet called FUTEX_WAIT            *)
(*   cond             the threads asleep there, oldest first               *)
(*   futx             m_core_cond[c]->m_futx is 1 (while a thread enters;  *)
(*                    it is not read otherwise)                            *)
(*   disable          m_disable                                            *)
(*   failed           the assertion that has failed, if any                *)
(***************************************************************************)
EXTENDS Integers, Sequences, FiniteSets

CONSTANTS
  Thread, NoThread,      \* thread ids, INVALID_THREAD_ID
  NumCores,              \* getApplicationCores()
  NumHostCores,          \* getNumHostCores()
  MaxAhead               \* bound: intervals a core may overshoot the barrier

ASSUME BarrierAssumption ==
  /\ NoThread \notin Thread /\ IsFiniteSet(Thread)
  /\ NumCores \in Nat \ {0} /\ NumHostCores \in Nat \ {0} /\ MaxAhead \in Nat

Core   == 0..(NumCores - 1)
NoCore == -1             \* INVALID_CORE_ID
Early  == -1

\* ConditionVariable::signal for each core in C: m_futx is set, and the thread that
\* has slept longest goes on.
signalCores(s, C) ==
  LET first == {Head(s.cond[c]) : c \in {d \in C : s.cond[d] # <<>>}} IN
  [s EXCEPT !.futx = [c \in Core |-> @[c] \/ (c \in C /\ s.entering[c] # {})],
            !.cond = [c \in Core |-> IF c \in C /\ @[c] # <<>> THEN Tail(@[c]) ELSE @[c]],
            !.pc = [t \in Thread |-> IF t \in first THEN "check" ELSE @[t]]]

\* Up to n threads are signalled, from the back of the list.
doRelease(s, n) ==
  LET len == Len(s.to_release)
      k == IF n < len THEN n ELSE len
  IN  [signalCores(s, {s.to_release[i] : i \in (len - k + 1)..len}) EXCEPT
         !.to_release = SubSeq(@, 1, len - k)]

\* Seeded bug: a thread that stops running does not let another one go.
releaseThread_KeepRest(s, t) ==
  [s EXCEPT !.clock = [c \in Core |->
                         IF s.acquire[c] /\ s.slot[c] = t THEN Early ELSE @[c]]]

\* Seeded bug: the slot of a thread that loses its core keeps its time.
releaseThread_KeepTime(s, t) == doRelease(s, 1)

\* The slot of thread t is given back at the next release, and as a thread stops
\* running one more may go.
releaseThread(s, t) ==
  doRelease([s EXCEPT !.clock = [c \in Core |->
                                   IF s.acquire[c] /\ s.slot[c] = t THEN Early ELSE @[c]]], 1)

\* Core c runs a thread that is running.
isCoreRunning(s, c) ==
  /\ s.state[c] = "RUNNING"
  /\ \E t \in Thread : s.core[t] = c /\ s.status[t] = "RUNNING"

\* Every running core has reached the barrier time, and there is one.
isBarrierReached(s) ==
  LET R == {c \in Core : isCoreRunning(s, c)} IN
  R # {} /\ \A c \in R : s.clock[c] # Early

anyThreadRunning(s) == \E t \in Thread : s.status[t] \in {"RUNNING", "INITIALIZING"}

\* The body of the loop of barrierRelease: m_next_barrier_time moves on by one
\* interval, and the slots of the cores that are now before it are given back.
\* Slots to signal are collected in the order of `shuffle' (std::random_shuffle).
passBarrier(s, caller, shuffle) ==
  LET clock == [c \in Core |-> IF s.clock[c] = Early THEN Early ELSE s.clock[c] - 1]
      out == {c \in Core : s.acquire[c] /\ clock[c] = Early}
      signalled(c) == c \in out /\ s.slot[c] # caller
  IN  [s EXCEPT !.clock = clock,
                !.acquire = [c \in Core |-> @[c] /\ c \notin out],
                !.slot = [c \in Core |-> IF c \in out THEN NoThread ELSE @[c]],
                !.to_release = @ \o SelectSeq(shuffle, signalled)]

\* abortBarrier: every slot is given back and its thread signalled.
abortBarrier(s) ==
  [signalCores(s, {c \in Core : s.acquire[c]}) EXCEPT
     !.acquire = [c \in Core |-> FALSE], !.slot = [c \in Core |-> NoThread]]

setDisable(s, disable) ==
  LET s1 == [s EXCEPT !.disable = disable] IN
  IF disable THEN abortBarrier(s1) ELSE s1
=============================================================================
