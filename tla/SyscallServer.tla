---------------------------- MODULE SyscallServer ----------------------------
(***************************************************************************)
(* Futexes and sleeping (common/system/syscall_server.cc).  Time passes in *)
(* periods: futexPeriodic, called once per period of the clock-skew        *)
(* barrier, wakes at most one sleeper and one waiter per futex whose time  *)
(* has come.  An entry of a queue carries the periods that are left until  *)
(* its timeout, negative once it is late; Never is SubsecondTime::MaxTime. *)
(* Every wake passes FUTEX_BITSET_MATCH_ANY (FUTEX_WAKE_BITSET as well,    *)
(* its test of cmd is against FUTEX_WAIT_BITSET), so masks are left out.   *)
(* The word at a futex address is the application's: the test of its value *)
(* may go either way, and what is stored there is not modelled.            *)
(***************************************************************************)
EXTENDS ThreadManager, Integers, Sequences, SequencesExt

CONSTANTS
  Addr,            \* addresses of futex words
  MaxTimeout       \* longest timeout, in periods

ASSUME TimeoutAssumption == MaxTimeout \in Nat

VARIABLES
  sleeping,        \* SyscallServer::m_sleeping
  futex_waiting    \* m_futexes[a].m_waiting

futexVars == <<sleeping, futex_waiting>>

Never == MaxTimeout + 1
Latest == Cardinality(Thread)
Entry(t, left) == [thread |-> t, left |-> left]

FutexInit ==
  /\ sleeping = <<>>
  /\ futex_waiting = [a \in Addr |-> <<>>]

First(q, n) == SubSeq(q, 1, IF n < Len(q) THEN n ELSE Len(q))
After(q, n) == SubSeq(q, n + 1, Len(q))
Sleepers(q) == {q[i].thread : i \in DOMAIN q}

-----------------------------------------------------------------------------
(* Calls of the application                                                *)

\* nanosleep: the wake-up time is left periods ahead (0: already due).
SleepCall(t, left) ==
  /\ Calls(t)
  /\ sleeping' = Append(sleeping, Entry(t, left))
  /\ stallThread(t, "sleep")
  /\ UNCHANGED futex_waiting

\* FUTEX_WAIT, or FUTEX_CMP_REQUEUE, when the word no longer has the value the
\* caller saw (EWOULDBLOCK, EAGAIN).
FutexWouldBlock(t) ==
  /\ Calls(t)
  /\ UNCHANGED <<tmVars, futexVars>>

FutexWait(t, a, left) ==
  /\ Calls(t)
  /\ futex_waiting' = [futex_waiting EXCEPT ![a] = Append(@, Entry(t, left))]
  /\ stallThread(t, "futex")
  /\ UNCHANGED sleeping

FutexWake(t, a, n) ==
  /\ Calls(t)
  /\ futex_waiting' = [futex_waiting EXCEPT ![a] = After(@, n)]
  /\ resumeThreads(Sleepers(First(futex_waiting[a], n)))
  /\ UNCHANGED sleeping

\* FUTEX_WAKE_OP: store at b, wake n waiters of a and, when the old value at b
\* passed the test, n2 of b.
FutexWakeOp(t, a, b, n, n2, passed) ==
  LET left  == [futex_waiting EXCEPT ![a] = After(@, n)]
      taken == First(left[b], IF passed THEN n2 ELSE 0)
  IN  /\ Calls(t)
      /\ futex_waiting' = [left EXCEPT ![b] = After(@, Len(taken))]
      /\ resumeThreads(Sleepers(First(futex_waiting[a], n)) \cup Sleepers(taken))
      /\ UNCHANGED sleeping

\* Seeded bug: the waiters that are left are not moved to the second futex.
FutexCmpRequeue_Drop(t, a, n, b) ==
  /\ Calls(t) /\ a # b
  /\ futex_waiting' = [futex_waiting EXCEPT ![a] = <<>>]
  /\ resumeThreads(Sleepers(First(futex_waiting[a], n)))
  /\ UNCHANGED sleeping

\* FUTEX_CMP_REQUEUE: wake n waiters of a, move all the others to b.  With b = a and a
\* waiter left the loop that moves them does not end, as it takes off the queue what it
\* has put there; that input is left out.
FutexCmpRequeue(t, a, n, b) ==
  /\ Calls(t) /\ a # b
  /\ futex_waiting' = [futex_waiting EXCEPT ![a] = <<>>,
                                           ![b] = @ \o After(futex_waiting[a], n)]
  /\ resumeThreads(Sleepers(First(futex_waiting[a], n)))
  /\ UNCHANGED sleeping

\* onThreadExit without and with CLONE_CHILD_CLEARTID.
ThreadExit(t) ==
  /\ Calls(t)
  /\ exitThread(t, {})
  /\ UNCHANGED futexVars

ThreadExitClearTid(t, a) ==
  /\ Calls(t)
  /\ exitThread(t, Sleepers(First(futex_waiting[a], 1)))
  /\ futex_waiting' = [futex_waiting EXCEPT ![a] = After(@, 1)]
  /\ UNCHANGED sleeping

-----------------------------------------------------------------------------
(* The periodic hook                                                       *)

\* A period passes for every entry.  Lateness is counted up to Latest, a bound of
\* the model: the code keeps the deadline itself.
Tick(q) == [i \in DOMAIN q |-> IF q[i].left \in {Never, -Latest} THEN q[i]
                               ELSE [q[i] EXCEPT !.left = @ - 1]]

\* The first entry of q whose time has come, as a sequence of at most one.
Due(q) == {i \in DOMAIN q : q[i].left <= 0}
FirstDue(q) == CHOOSE i \in Due(q) : \A j \in Due(q) : i <= j

\* Seeded bug: the search starts at the end of the queue.
WakeOne_Last(q) ==
  IF Due(q) = {} THEN q ELSE RemoveAt(q, CHOOSE i \in Due(q) : \A j \in Due(q) : j <= i)

\* wakeTimedOut, and the first loop of futexPeriodic.
WakeOne(q) == IF Due(q) = {} THEN q ELSE RemoveAt(q, FirstDue(q))

\* futexPeriodic at the next period.
Periodic ==
  /\ sleeping' = WakeOne(Tick(sleeping))
  /\ futex_waiting' = [a \in Addr |-> WakeOne(Tick(futex_waiting[a]))]
  /\ resumeThreads((Sleepers(sleeping) \ Sleepers(WakeOne(Tick(sleeping))))
       \cup UNION {Sleepers(futex_waiting[a]) \ Sleepers(WakeOne(Tick(futex_waiting[a])))
                   : a \in Addr})

\* getNextTimeout(...) < MaxTime.
hasNextTimeout ==
  \/ \E i \in DOMAIN sleeping : sleeping[i].left # Never
  \/ \E a \in Addr : \E i \in DOMAIN futex_waiting[a] : futex_waiting[a][i].left # Never

FutexTypeOK ==
  /\ sleeping \in Seq([thread : Thread, left : Int])
  /\ \A a \in Addr : futex_waiting[a] \in Seq([thread : Thread, left : Int])
=============================================================================
