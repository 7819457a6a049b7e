--------------------------- MODULE AppSync_proofs ---------------------------
(***************************************************************************)
(* No signal is lost between stallThread_async and Thread::wait, and       *)
(* nobody is lost or woken twice by the queues of the mutexes, condition   *)
(* variables, barriers, futexes, sleepers and joiners, for any number of   *)
(* threads and objects and any length of the timeouts.  First come the     *)
(* threads, then lemmas on the operations on the queues of SyncServer and  *)
(* SyscallServer: who stands in a queue afterwards, and that still nobody  *)
(* does so twice.                                                          *)
(***************************************************************************)
EXTENDS AppSync, TLAPS, FiniteSetTheorems, SequenceTheorems, NaturalsInduction,
        WellFoundedInduction

-----------------------------------------------------------------------------
(* Threads                                                                 *)

\* A thread that has not started has no waiter: onThreadStart drops the
\* registration of a waiter without resuming it, so a join must come later.
UnstartedUnjoined == \A n \in Thread : host[n] \in {"none", "new"} => waiter[n] = NoThread

\* A thread in stallThread is stalled, unless it was resumed meanwhile.
StallingIsStalled == \A t \in Thread : host[t] = "stalling" => status[t] \in {"STALLED", "RUNNING"}

HostInv == ThreadTypeOK /\ UnstartedUnjoined /\ StallingIsStalled /\ HostAgrees

LEMMA InitHostInv == Init => HostInv
  BY ThreadAssumption DEF Init, ThreadInit, HostInv, ThreadTypeOK, Status, Host, Reason,
     UnstartedUnjoined, StallingIsStalled, HostAgrees

\* resumeThread keeps the invariant, whoever is resumed.
LEMMA WakeKeepsHostInv ==
  ASSUME HostInv, NEW W, resumeThreads(W)
  PROVE  HostInv'
  BY DEF HostInv, ThreadTypeOK, Status, Host, UnstartedUnjoined, StallingIsStalled,
         HostAgrees, resumeThreads, Woken

\* So does a stall of a thread that runs application code.
LEMMA StallKeepsHostInv ==
  ASSUME HostInv, NEW t \in Thread, host[t] = "app", NEW r \in Reason, NEW W,
         stallAndResume(t, r, W)
  PROVE  HostInv'
  BY DEF HostInv, ThreadTypeOK, Status, Host, UnstartedUnjoined, StallingIsStalled,
         HostAgrees, stallAndResume

LEMMA ExitKeepsHostInv ==
  ASSUME HostInv, NEW t \in Thread, host[t] = "app", NEW W, exitThread(t, W)
  PROVE  HostInv'
  BY ThreadAssumption DEF HostInv, ThreadTypeOK, Status, Host, UnstartedUnjoined, StallingIsStalled,
         HostAgrees, exitThread

LEMMA UnchangedKeepsHostInv ==
  ASSUME HostInv, UNCHANGED tmVars
  PROVE  HostInv'
  BY DEF HostInv, ThreadTypeOK, UnstartedUnjoined, StallingIsStalled, HostAgrees, tmVars

LEMMA ThreadNextKeepsHostInv ==
  ASSUME ~JoinUnstarted, HostInv, NEW t \in Thread, ThreadNext(t)
  PROVE  HostInv'
<1> USE DEF HostInv, ThreadTypeOK, Status, Host, UnstartedUnjoined, StallingIsStalled, HostAgrees
<1>1. CASE EnterWait(t)
  BY <1>1 DEF EnterWait
<1>2. CASE \E n \in Thread : CreateThread(t, n)
  BY <1>2 DEF CreateThread, Calls
<1>3. CASE ThreadStart(t)
  BY <1>3, ThreadAssumption DEF ThreadStart
<1>4. CASE \E j \in Thread : JoinExited(t, j)
  BY <1>4, UnchangedKeepsHostInv DEF JoinExited
<1>5. CASE \E j \in Thread : JoinThread(t, j)
  BY <1>5 DEF JoinThread, Calls, Reason
<1>6. CASE SyscallEnter(t)
  BY <1>6 DEF SyscallEnter, Calls, Reason
<1>7. CASE SyscallExit(t)
  BY <1>7 DEF SyscallExit
<1> QED
  BY <1>1, <1>2, <1>3, <1>4, <1>5, <1>6, <1>7 DEF ThreadNext

LEMMA SyncNextKeepsHostInv ==
  ASSUME HostInv, NEW t \in Thread, SyncNext(t)
  PROVE  HostInv'
<1>1. ASSUME NEW m \in Mutex, MutexTake(t, m) \/ MutexTryFails(t, m)
      PROVE  HostInv'
  BY <1>1, UnchangedKeepsHostInv DEF MutexTake, MutexTryFails
<1>2. ASSUME NEW m \in Mutex, MutexQueue(t, m)
      PROVE  HostInv'
  BY <1>2, StallKeepsHostInv DEF MutexQueue, stallThread, Calls, Reason
<1>3. ASSUME NEW m \in Mutex, MutexUnlock(t, m)
      PROVE  HostInv'
  BY <1>3, WakeKeepsHostInv DEF MutexUnlock
<1>4. ASSUME NEW c \in Cond, NEW m \in Mutex, CondWait(t, c, m)
      PROVE  HostInv'
  BY <1>4, StallKeepsHostInv DEF CondWait, Calls, Reason
<1>5. ASSUME NEW q, lock_async(q)
      PROVE  HostInv'
  BY <1>5, WakeKeepsHostInv DEF lock_async
<1>6. ASSUME NEW c \in Cond, CondSignal(t, c) \/ CondBroadcast(t, c)
      PROVE  HostInv'
  BY <1>5, <1>6, UnchangedKeepsHostInv DEF CondSignal, CondBroadcast
<1>7. ASSUME NEW b \in Barrier, BarrierArrive(t, b)
      PROVE  HostInv'
  BY <1>7, StallKeepsHostInv DEF BarrierArrive, stallThread, Calls, Reason
<1>8. ASSUME NEW b \in Barrier, BarrierComplete(t, b)
      PROVE  HostInv'
  BY <1>8, WakeKeepsHostInv DEF BarrierComplete
<1> QED
  BY <1>1, <1>2, <1>3, <1>4, <1>6, <1>7, <1>8 DEF SyncNext

LEMMA FutexNextKeepsHostInv ==
  ASSUME HostInv, NEW t \in Thread, FutexNext(t)
  PROVE  HostInv'
<1>1. ASSUME NEW d, SleepCall(t, d)
      PROVE  HostInv'
  BY <1>1, StallKeepsHostInv DEF SleepCall, stallThread, Calls, Reason
<1>2. ASSUME NEW a, NEW d, FutexWait(t, a, d)
      PROVE  HostInv'
  BY <1>2, StallKeepsHostInv DEF FutexWait, stallThread, Calls, Reason
<1>3. CASE FutexWouldBlock(t)
  BY <1>3, UnchangedKeepsHostInv DEF FutexWouldBlock
<1>4. ASSUME NEW a, NEW n, FutexWake(t, a, n)
      PROVE  HostInv'
  BY <1>4, WakeKeepsHostInv DEF FutexWake
<1>5. ASSUME NEW a, NEW b, NEW n, NEW k, NEW p, FutexWakeOp(t, a, b, n, k, p)
      PROVE  HostInv'
  BY <1>5, WakeKeepsHostInv DEF FutexWakeOp
<1>6. ASSUME NEW a, NEW b, NEW n, FutexCmpRequeue(t, a, n, b)
      PROVE  HostInv'
  BY <1>6, WakeKeepsHostInv DEF FutexCmpRequeue
<1>7. CASE ThreadExit(t)
  BY <1>7, ExitKeepsHostInv DEF ThreadExit, Calls
<1>8. ASSUME NEW a, ThreadExitClearTid(t, a)
      PROVE  HostInv'
  BY <1>8, ExitKeepsHostInv DEF ThreadExitClearTid, Calls
<1> QED
  BY <1>1, <1>2, <1>3, <1>4, <1>5, <1>6, <1>7, <1>8 DEF FutexNext

LEMMA NextKeepsHostInv ==
  ASSUME ~JoinUnstarted, HostInv, [Next]_vars
  PROVE  HostInv'
<1>1. CASE Period
  BY <1>1, WakeKeepsHostInv DEF Period, Periodic
<1>2. CASE Abort
  BY <1>2, UnchangedKeepsHostInv DEF Abort
<1>3. CASE UNCHANGED vars
  BY <1>3, UnchangedKeepsHostInv DEF vars
<1> QED
  BY <1>1, <1>2, <1>3, ThreadNextKeepsHostInv, SyncNextKeepsHostInv, FutexNextKeepsHostInv
     DEF Next

(***************************************************************************)
(* stallThread's test of the status before Thread::wait is enough: however *)
(* calls, periodic hooks, requeues, time-outs and exits interleave, and    *)
(* whomever they resume, nobody waits who is RUNNING and nobody runs       *)
(* application code who is not, provided no thread joins another one that  *)
(* has not started.                                                        *)
(***************************************************************************)
THEOREM NoWakeupIsLost ==
  ASSUME ~JoinUnstarted
  PROVE  Spec => []HostAgrees
<1>1. HostInv => HostAgrees
  BY DEF HostInv
<1> QED
  BY <1>1, InitHostInv, NextKeepsHostInv, PTL DEF Spec

-----------------------------------------------------------------------------
(* Queues                                                                  *)

\* No thread stands twice in a queue of threads, of entries.
Once(q)  == \A i, j \in DOMAIN q : q[i] = q[j] => i = j
OnceE(q) == \A i, j \in DOMAIN q : q[i].thread = q[j].thread => i = j

LEMMA AppendThread ==
  ASSUME NEW S, NEW q \in Seq(S), NEW t \in S, Once(q), t \notin ThreadsIn(q)
  PROVE  /\ Append(q, t) \in Seq(S) /\ Once(Append(q, t))
         /\ ThreadsIn(Append(q, t)) = ThreadsIn(q) \cup {t}
<1> DEFINE r == Append(q, t)
<1>1. /\ r \in Seq(S) /\ DOMAIN q = 1..Len(q) /\ DOMAIN r = 1..(Len(q) + 1) /\ Len(q) \in Nat
      /\ \A i \in 1..Len(q) : r[i] = q[i]
      /\ r[Len(q) + 1] = t
  BY AppendProperties, LenProperties
<1> HIDE DEF r
<1>2. Once(r)
  BY <1>1 DEF Once, ThreadsIn
<1>3. ThreadsIn(r) = ThreadsIn(q) \cup {t}
  BY <1>1 DEF ThreadsIn
<1> QED
  BY <1>1, <1>2, <1>3 DEF r

LEMMA RestThread ==
  ASSUME NEW S, NEW q \in Seq(S), q # <<>>, Once(q)
  PROVE  /\ RestOf(q) \in Seq(S) /\ Once(RestOf(q))
         /\ Head(q) \in ThreadsIn(q) /\ ThreadsIn(RestOf(q)) = ThreadsIn(q) \ {Head(q)}
<1> DEFINE r == Tail(q)
<1>1. /\ r \in Seq(S) /\ Len(q) \in Nat \ {0} /\ Head(q) = q[1]
      /\ DOMAIN q = 1..Len(q) /\ DOMAIN r = 1..(Len(q) - 1)
      /\ \A i \in 1..(Len(q) - 1) : r[i] = q[i + 1]
  <2>1. r \in Seq(S) /\ Len(r) = Len(q) - 1 /\ \A i \in 1..Len(r) : r[i] = q[i + 1]
    BY HeadTailProperties
  <2>2. Len(q) \in Nat \ {0} /\ DOMAIN q = 1..Len(q)
    BY EmptySeq, LenProperties
  <2>3. DOMAIN r = 1..Len(r)
    BY <2>1, LenProperties
  <2>4. Head(q) = q[1]
    OBVIOUS
  <2> QED
    BY <2>1, <2>2, <2>3, <2>4
<1> HIDE DEF r
<1>2. Once(r)
  <2>1. ASSUME NEW i \in DOMAIN r, NEW j \in DOMAIN r, r[i] = r[j]
        PROVE  i = j
    <3>1. i + 1 \in DOMAIN q /\ j + 1 \in DOMAIN q /\ q[i + 1] = q[j + 1]
      BY <1>1, <2>1
    <3>2. i + 1 = j + 1
      BY <3>1 DEF Once
    <3> QED
      BY <1>1, <3>2
  <2> QED
    BY <2>1 DEF Once
<1>3. ThreadsIn(r) = ThreadsIn(q) \ {q[1]}
  <2>1. \A i \in DOMAIN q : i = 1 \/ (i - 1 \in DOMAIN r /\ r[i - 1] = q[i])
    BY <1>1
  <2>2. \A i \in DOMAIN r : i + 1 \in DOMAIN q /\ r[i] = q[i + 1] /\ q[i + 1] # q[1]
    BY <1>1 DEF Once
  <2> QED
    BY <2>1, <2>2 DEF ThreadsIn
<1>4. RestOf(q) = r /\ Head(q) \in ThreadsIn(q)
  BY <1>1 DEF r, RestOf, ThreadsIn
<1> QED
  BY <1>1, <1>2, <1>3, <1>4

LEMMA ConcatThread ==
  ASSUME NEW S, NEW q \in Seq(S), NEW r \in Seq(S), Once(q), Once(r),
         ThreadsIn(q) \cap ThreadsIn(r) = {}
  PROVE  /\ q \o r \in Seq(S) /\ Once(q \o r)
         /\ ThreadsIn(q \o r) = ThreadsIn(q) \cup ThreadsIn(r)
<1> DEFINE s == q \o r
<1>1. /\ s \in Seq(S) /\ Len(q) \in Nat /\ Len(r) \in Nat
      /\ DOMAIN q = 1..Len(q) /\ DOMAIN r = 1..Len(r) /\ DOMAIN s = 1..(Len(q) + Len(r))
      /\ \A i \in 1..Len(q) : s[i] = q[i]
      /\ \A i \in 1..(Len(q) + Len(r)) : i > Len(q) => s[i] = r[i - Len(q)]
  BY ConcatProperties, LenProperties
<1> HIDE DEF s
<1>2. \A i \in DOMAIN s : \/ i \in DOMAIN q /\ s[i] = q[i]
                          \/ i - Len(q) \in DOMAIN r /\ s[i] = r[i - Len(q)] /\ i \notin DOMAIN q
  BY <1>1
<1>3. \A i \in DOMAIN r : i + Len(q) \in DOMAIN s /\ s[i + Len(q)] = r[i]
  BY <1>1
<1>4. \A i \in DOMAIN q, j \in DOMAIN r : q[i] # r[j]
  BY DEF ThreadsIn
<1>5. ASSUME NEW i \in DOMAIN s, NEW j \in DOMAIN s, s[i] = s[j]
      PROVE  i = j
  <2>1. CASE i \in DOMAIN q /\ j \in DOMAIN q
    BY <1>1, <1>5, <2>1 DEF Once
  <2>2. CASE i \notin DOMAIN q /\ j \notin DOMAIN q
    <3>1. i - Len(q) = j - Len(q)
      BY <1>2, <1>5, <2>2 DEF Once
    <3> QED
      BY <1>1, <3>1
  <2> QED
    BY <1>2, <1>4, <1>5, <2>1, <2>2
<1>6. ThreadsIn(s) = ThreadsIn(q) \cup ThreadsIn(r)
  <2>1. \A i \in DOMAIN q : i \in DOMAIN s /\ s[i] = q[i]
    BY <1>1
  <2> QED
    BY <1>2, <1>3, <2>1 DEF ThreadsIn
<1> QED
  <2>1. Once(s)
    BY <1>5 DEF Once
  <2> QED
    BY <1>1, <1>6, <2>1 DEF s

LEMMA AppendEntry ==
  ASSUME NEW S, NEW q \in Seq(S), NEW e \in S, OnceE(q), e.thread \notin Sleepers(q)
  PROVE  /\ Append(q, e) \in Seq(S) /\ OnceE(Append(q, e))
         /\ Sleepers(Append(q, e)) = Sleepers(q) \cup {e.thread}
<1> DEFINE r == Append(q, e)
<1>1. /\ r \in Seq(S) /\ DOMAIN q = 1..Len(q) /\ DOMAIN r = 1..(Len(q) + 1) /\ Len(q) \in Nat
      /\ \A i \in 1..Len(q) : r[i] = q[i]
      /\ r[Len(q) + 1] = e
  BY AppendProperties, LenProperties
<1> HIDE DEF r
<1>2. OnceE(r)
  BY <1>1 DEF OnceE, Sleepers
<1>3. Sleepers(r) = Sleepers(q) \cup {e.thread}
  BY <1>1 DEF Sleepers
<1> QED
  BY <1>1, <1>2, <1>3 DEF r

\* The part of a queue from its k-th entry to its l-th one.
LEMMA PartOfQueue ==
  ASSUME NEW S, NEW q \in Seq(S), NEW k \in Nat \ {0}, NEW l \in 0..Len(q), OnceE(q)
  PROVE  /\ SubSeq(q, k, l) \in Seq(S) /\ OnceE(SubSeq(q, k, l))
         /\ Sleepers(SubSeq(q, k, l)) = {q[i].thread : i \in k..l}
         /\ Len(SubSeq(q, k, l)) = IF k <= l THEN l - k + 1 ELSE 0
<1> DEFINE r == SubSeq(q, k, l)
<1>1. /\ r \in Seq(S) /\ Len(q) \in Nat /\ DOMAIN q = 1..Len(q)
      /\ Len(r) = IF k <= l THEN l - k + 1 ELSE 0
      /\ DOMAIN r = 1..(l - k + 1)
      /\ \A i \in 1..(l - k + 1) : r[i] = q[k + i - 1]
  <2>1. Len(q) \in Nat /\ DOMAIN q = 1..Len(q) /\ \A i \in 1..Len(q) : q[i] \in S
    BY LenProperties, ElementOfSeq
  <2>2. \A i \in k..l : q[i] \in S
    BY <2>1
  <2>3. /\ r \in Seq(S) /\ Len(r) = IF k <= l THEN l - k + 1 ELSE 0
        /\ \A i \in 1..(l - k + 1) : r[i] = q[k + i - 1]
    BY <2>1, <2>2, SubSeqProperties
  <2>4. DOMAIN r = 1..Len(r)
    BY <2>3, LenProperties
  <2> QED
    BY <2>1, <2>3, <2>4
<1> HIDE DEF r
<1>2. \A i \in DOMAIN r : k + i - 1 \in k..l /\ k + i - 1 \in DOMAIN q /\ r[i] = q[k + i - 1]
  BY <1>1
<1>3. \A i \in k..l : i - k + 1 \in DOMAIN r /\ r[i - k + 1] = q[i]
  BY <1>1
<1>4. ASSUME NEW i \in DOMAIN r, NEW j \in DOMAIN r, r[i].thread = r[j].thread
      PROVE  i = j
  <2>1. k + i - 1 = k + j - 1
    BY <1>2, <1>4 DEF OnceE
  <2> QED
    BY <1>1, <2>1
<1>5. OnceE(r)
  BY <1>4 DEF OnceE
<1>6. Sleepers(r) = {q[i].thread : i \in k..l}
  <2>1. \A i \in DOMAIN r : \E j \in k..l : r[i].thread = q[j].thread
    BY <1>2
  <2>2. \A j \in k..l : \E i \in DOMAIN r : q[j].thread = r[i].thread
    BY <1>3
  <2>3. \A x : x \in Sleepers(r) <=> \E i \in DOMAIN r : x = r[i].thread
    BY DEF Sleepers
  <2>4. ASSUME NEW x
        PROVE  x \in Sleepers(r) <=> \E j \in k..l : x = q[j].thread
    <3>1. ASSUME NEW i \in DOMAIN r, x = r[i].thread
          PROVE  \E j \in k..l : x = q[j].thread
      BY <2>1, <3>1
    <3>2. ASSUME NEW j \in k..l, x = q[j].thread
          PROVE  \E i \in DOMAIN r : x = r[i].thread
      BY <2>2, <3>2
    <3> QED
      BY <2>3, <3>1, <3>2
  <2>5. \A x : x \in {q[i].thread : i \in k..l} <=> \E j \in k..l : x = q[j].thread
    OBVIOUS
  <2> QED
    BY <2>4, <2>5
<1> QED
  BY <1>1, <1>5, <1>6 DEF r

LEMMA ConcatEntries ==
  ASSUME NEW S, NEW q \in Seq(S), NEW r \in Seq(S), OnceE(q), OnceE(r),
         Sleepers(q) \cap Sleepers(r) = {}
  PROVE  /\ q \o r \in Seq(S) /\ OnceE(q \o r)
         /\ Sleepers(q \o r) = Sleepers(q) \cup Sleepers(r)
<1> DEFINE s == q \o r
<1>1. /\ s \in Seq(S) /\ Len(q) \in Nat /\ Len(r) \in Nat
      /\ DOMAIN q = 1..Len(q) /\ DOMAIN r = 1..Len(r) /\ DOMAIN s = 1..(Len(q) + Len(r))
      /\ \A i \in 1..Len(q) : s[i] = q[i]
      /\ \A i \in 1..(Len(q) + Len(r)) : i > Len(q) => s[i] = r[i - Len(q)]
  BY ConcatProperties, LenProperties
<1> HIDE DEF s
<1>2. \A i \in DOMAIN s : \/ i \in DOMAIN q /\ s[i] = q[i]
                          \/ i - Len(q) \in DOMAIN r /\ s[i] = r[i - Len(q)] /\ i \notin DOMAIN q
  BY <1>1
<1>3. \A i \in DOMAIN r : i + Len(q) \in DOMAIN s /\ s[i + Len(q)] = r[i]
  BY <1>1
<1>4. \A i \in DOMAIN q, j \in DOMAIN r : q[i].thread # r[j].thread
  BY DEF Sleepers
<1>5. ASSUME NEW i \in DOMAIN s, NEW j \in DOMAIN s, s[i].thread = s[j].thread
      PROVE  i = j
  <2>1. CASE i \in DOMAIN q /\ j \in DOMAIN q
    BY <1>1, <1>5, <2>1 DEF OnceE
  <2>2. CASE i \notin DOMAIN q /\ j \notin DOMAIN q
    <3>1. i - Len(q) = j - Len(q)
      BY <1>2, <1>5, <2>2 DEF OnceE
    <3> QED
      BY <1>1, <3>1
  <2> QED
    BY <1>2, <1>4, <1>5, <2>1, <2>2
<1>6. Sleepers(s) = Sleepers(q) \cup Sleepers(r)
  <2>1. \A i \in DOMAIN q : i \in DOMAIN s /\ s[i] = q[i]
    BY <1>1
  <2> QED
    BY <1>2, <1>3, <2>1 DEF Sleepers
<1>7. OnceE(s)
  BY <1>5 DEF OnceE
<1> QED
  BY <1>1, <1>6, <1>7 DEF s

\* dequeueWaiter n times: the first n waiters go, in order.
LEMMA SplitQueue ==
  ASSUME NEW S, NEW q \in Seq(S), NEW n \in Nat, OnceE(q)
  PROVE  /\ First(q, n) \in Seq(S) /\ After(q, n) \in Seq(S) /\ OnceE(After(q, n))
         /\ Sleepers(First(q, n)) \cup Sleepers(After(q, n)) = Sleepers(q)
         /\ Sleepers(First(q, n)) \cap Sleepers(After(q, n)) = {}
         /\ Len(First(q, n)) \in Nat
<1> DEFINE l == IF n < Len(q) THEN n ELSE Len(q)
<1>1. Len(q) \in Nat /\ DOMAIN q = 1..Len(q) /\ l \in 0..Len(q) /\ n + 1 \in Nat \ {0}
  BY LenProperties
<1>2. /\ First(q, n) \in Seq(S) /\ Sleepers(First(q, n)) = {q[i].thread : i \in 1..l}
  BY <1>1, PartOfQueue DEF First
<1>3. /\ After(q, n) \in Seq(S) /\ OnceE(After(q, n))
      /\ Sleepers(After(q, n)) = {q[i].thread : i \in (n + 1)..Len(q)}
  BY <1>1, PartOfQueue DEF After
<1>4. Sleepers(q) = {q[i].thread : i \in 1..Len(q)}
  BY <1>1 DEF Sleepers
<1>5. \A i \in 1..Len(q) : i \in 1..l \/ i \in (n + 1)..Len(q)
  BY <1>1
<1>6. \A i \in 1..l, j \in (n + 1)..Len(q) :
        i \in 1..Len(q) /\ j \in 1..Len(q) /\ q[i].thread # q[j].thread
  BY <1>1 DEF OnceE
<1>7. \A i \in 1..l : i \in 1..Len(q)
  BY <1>1
<1>8. \A j \in (n + 1)..Len(q) : j \in 1..Len(q)
  BY <1>1
<1> HIDE DEF l
<1>9. Sleepers(First(q, n)) \cup Sleepers(After(q, n)) = Sleepers(q)
  BY <1>2, <1>3, <1>4, <1>5, <1>7, <1>8, Zenon
<1>10. Sleepers(First(q, n)) \cap Sleepers(After(q, n)) = {}
  BY <1>2, <1>3, <1>6, Zenon
<1> QED
  BY <1>2, <1>3, <1>9, <1>10, LenProperties

\* One entry leaves from the middle of a queue.
LEMMA RemoveEntry ==
  ASSUME NEW S, NEW q \in Seq(S), NEW k \in DOMAIN q, OnceE(q)
  PROVE  /\ RemoveAt(q, k) \in Seq(S) /\ OnceE(RemoveAt(q, k))
         /\ Sleepers(RemoveAt(q, k)) = Sleepers(q) \ {q[k].thread}
         /\ Len(RemoveAt(q, k)) = Len(q) - 1
         /\ \A i \in 1..(Len(q) - 1) : RemoveAt(q, k)[i] = IF i < k THEN q[i] ELSE q[i + 1]
<1> DEFINE a == SubSeq(q, 1, k - 1)
           b == SubSeq(q, k + 1, Len(q))
<1>1. Len(q) \in Nat /\ DOMAIN q = 1..Len(q) /\ k \in 1..Len(q)
  BY LenProperties
<1>2. \A i \in 1..Len(q) : q[i] \in S
  BY ElementOfSeq
<1>3. /\ a \in Seq(S) /\ OnceE(a) /\ Sleepers(a) = {q[i].thread : i \in 1..(k - 1)}
      /\ Len(a) = k - 1
  <2>1. k - 1 \in 0..Len(q) /\ 1 \in Nat \ {0}
    BY <1>1
  <2>2. /\ a \in Seq(S) /\ OnceE(a) /\ Sleepers(a) = {q[i].thread : i \in 1..(k - 1)}
        /\ Len(a) = IF 1 <= k - 1 THEN (k - 1) - 1 + 1 ELSE 0
    BY <2>1, PartOfQueue
  <2> QED
    BY <1>1, <2>2
<1>4. /\ b \in Seq(S) /\ OnceE(b) /\ Sleepers(b) = {q[i].thread : i \in (k + 1)..Len(q)}
      /\ Len(b) = Len(q) - k
  <2>1. Len(q) \in 0..Len(q) /\ k + 1 \in Nat \ {0}
    BY <1>1
  <2>2. /\ b \in Seq(S) /\ OnceE(b) /\ Sleepers(b) = {q[i].thread : i \in (k + 1)..Len(q)}
        /\ Len(b) = IF k + 1 <= Len(q) THEN Len(q) - (k + 1) + 1 ELSE 0
    BY <2>1, PartOfQueue
  <2> QED
    BY <1>1, <2>2
<1>5. /\ \A i \in 1..(k - 1) : a[i] = q[i]
      /\ \A i \in 1..(Len(q) - k) : b[i] = q[k + i]
  <2>1. \A i \in 1..((k - 1) - 1 + 1) : a[i] = q[1 + i - 1]
    BY <1>1, <1>2, SubSeqProperties
  <2>2. \A i \in 1..(Len(q) - (k + 1) + 1) : b[i] = q[(k + 1) + i - 1]
    BY <1>1, <1>2, SubSeqProperties
  <2> QED
    BY <1>1, <2>1, <2>2
<1>6. RemoveAt(q, k) = a \o b
  BY DEF RemoveAt
<1> HIDE DEF a, b
<1>7. Sleepers(a) \cap Sleepers(b) = {}
  <2>1. \A i \in 1..(k - 1), j \in (k + 1)..Len(q) : q[i].thread # q[j].thread
    BY <1>1 DEF OnceE
  <2> QED
    BY <1>3, <1>4, <2>1
<1>8. Sleepers(a) \cup Sleepers(b) = Sleepers(q) \ {q[k].thread}
  <2>1. \A i \in 1..Len(q) : i = k \/ i \in 1..(k - 1) \/ i \in (k + 1)..Len(q)
    BY <1>1
  <2>2. \A i \in 1..(k - 1) : i \in 1..Len(q) /\ q[i].thread # q[k].thread
    BY <1>1 DEF OnceE
  <2>3. \A i \in (k + 1)..Len(q) : i \in 1..Len(q) /\ q[i].thread # q[k].thread
    BY <1>1 DEF OnceE
  <2>4. Sleepers(q) = {q[i].thread : i \in 1..Len(q)}
    BY <1>1 DEF Sleepers
  <2> QED
    BY <1>3, <1>4, <2>1, <2>2, <2>3, <2>4, ZenonT(40)
<1>9. /\ a \o b \in Seq(S) /\ OnceE(a \o b) /\ Sleepers(a \o b) = Sleepers(a) \cup Sleepers(b)
  BY <1>3, <1>4, <1>7, ConcatEntries, ZenonT(40)
<1>10. /\ Len(a \o b) = Len(q) - 1
       /\ \A i \in 1..(Len(q) - 1) : (a \o b)[i] = IF i < k THEN q[i] ELSE q[i + 1]
  <2>1. /\ Len(a \o b) = Len(a) + Len(b)
        /\ \A i \in 1..(Len(a) + Len(b)) :
             (a \o b)[i] = IF i <= Len(a) THEN a[i] ELSE b[i - Len(a)]
    BY <1>3, <1>4, ConcatProperties
  <2>2. ASSUME NEW i \in 1..(Len(q) - 1), ~(i < k)
        PROVE  b[i - Len(a)] = q[i + 1]
    <3>1. i - (k - 1) \in 1..(Len(q) - k) /\ k + (i - (k - 1)) = i + 1
      BY <1>1, <2>2
    <3> QED
      BY <1>3, <1>5, <3>1
  <2> QED
    BY <1>1, <1>3, <1>4, <1>5, <2>1, <2>2
<1> QED
  BY <1>6, <1>8, <1>9, <1>10

LEMMA RestEntry ==
  ASSUME NEW S, NEW q \in Seq(S), q # <<>>, OnceE(q)
  PROVE  /\ RestOf(q) \in Seq(S) /\ OnceE(RestOf(q)) /\ Head(q) \in S
         /\ Head(q) = q[1] /\ 1 \in DOMAIN q
         /\ Sleepers(RestOf(q)) = Sleepers(q) \ {Head(q).thread}
         /\ Range(RestOf(q)) \subseteq Range(q)
<1>1. /\ Len(q) \in Nat \ {0} /\ DOMAIN q = 1..Len(q) /\ Head(q) = q[1] /\ Head(q) \in S
  BY EmptySeq, LenProperties, HeadTailProperties
<1>2. RestOf(q) = SubSeq(q, 2, Len(q))
  BY TailIsSubSeq DEF RestOf
<1>3. /\ RestOf(q) \in Seq(S) /\ OnceE(RestOf(q))
      /\ Sleepers(RestOf(q)) = {q[i].thread : i \in 2..Len(q)}
  <2>1. Len(q) \in 0..Len(q) /\ 2 \in Nat \ {0}
    BY <1>1
  <2> QED
    BY <1>2, <2>1, PartOfQueue
<1>4. {q[i].thread : i \in 2..Len(q)} = Sleepers(q) \ {q[1].thread}
  <2>1. \A i \in 1..Len(q) : i = 1 \/ i \in 2..Len(q)
    BY <1>1
  <2>2. \A i \in 2..Len(q) : i \in 1..Len(q) /\ q[i].thread # q[1].thread
    BY <1>1 DEF OnceE
  <2>3. Sleepers(q) = {q[i].thread : i \in 1..Len(q)}
    BY <1>1 DEF Sleepers
  <2> QED
    BY <2>1, <2>2, <2>3, Zenon
<1>5. Range(RestOf(q)) \subseteq Range(q)
  <2>1. /\ RestOf(q) = Tail(q) /\ Len(Tail(q)) = Len(q) - 1 /\ Tail(q) \in Seq(S)
        /\ \A i \in 1..Len(Tail(q)) : Tail(q)[i] = q[i + 1]
    BY HeadTailProperties DEF RestOf
  <2>2. DOMAIN Tail(q) = 1..Len(Tail(q))
    BY <2>1, LenProperties
  <2>3. \A i \in DOMAIN Tail(q) : i + 1 \in DOMAIN q /\ Tail(q)[i] = q[i + 1]
    BY <1>1, <2>1, <2>2
  <2> QED
    BY <2>1, <2>3 DEF Range
<1> QED
  BY <1>1, <1>3, <1>4, <1>5

LEMMA LeastElement ==
  ASSUME NEW T, T \subseteq Nat, T # {}
  PROVE  \E x \in T : \A y \in T : x <= y
<1>1. IsWellFoundedOn(OpToRel(<, Nat), Nat)
  BY NatLessThanWellFounded
<1>2. PICK x \in T : \A y \in T : ~(<<y, x>> \in OpToRel(<, Nat))
  BY <1>1, WFMin
<1>3. \A y \in T : ~(y < x)
  BY <1>2 DEF OpToRel
<1> QED
  BY <1>3

FutexEntry == [thread : Thread, left : Int]

LEMMA LatestNat == Latest \in Nat
  BY ThreadAssumption, FS_CardinalityType DEF Latest

\* A period changes nobody's place.
LEMMA TickQueue ==
  ASSUME NEW q \in Seq(FutexEntry), OnceE(q)
  PROVE  /\ Tick(q) \in Seq(FutexEntry) /\ OnceE(Tick(q)) /\ Sleepers(Tick(q)) = Sleepers(q)
         /\ Len(Tick(q)) = Len(q) /\ DOMAIN Tick(q) = DOMAIN q
         /\ \A i \in DOMAIN q :
              /\ Tick(q)[i].thread = q[i].thread
              /\ Tick(q)[i].left = IF q[i].left \in {Never, -Latest} THEN q[i].left
                                   ELSE q[i].left - 1
<1>1. Len(q) \in Nat /\ DOMAIN q = 1..Len(q) /\ \A i \in DOMAIN q : q[i] \in FutexEntry
  BY LenProperties, ElementOfSeq
<1>2. Tick(q) = [i \in 1..Len(q) |-> IF q[i].left \in {Never, -Latest} THEN q[i]
                                     ELSE [q[i] EXCEPT !.left = q[i].left - 1]]
  BY <1>1 DEF Tick
<1>3. \A i \in 1..Len(q) : Tick(q)[i] \in FutexEntry
  BY <1>1, <1>2 DEF FutexEntry
<1>4. Tick(q) \in Seq(FutexEntry) /\ Len(Tick(q)) = Len(q) /\ DOMAIN Tick(q) = DOMAIN q
  <2>1. Tick(q) \in [1..Len(q) -> FutexEntry]
    BY <1>2, <1>3
  <2>2. Tick(q) \in Seq(FutexEntry)
    BY <1>1, <2>1, SeqDef
  <2>3. DOMAIN Tick(q) = 1..Len(Tick(q)) /\ Len(Tick(q)) \in Nat
    BY <2>2, LenProperties
  <2> QED
    BY <1>1, <2>1, <2>2, <2>3
<1>5. \A i \in DOMAIN q :
        /\ Tick(q)[i].thread = q[i].thread
        /\ Tick(q)[i].left = IF q[i].left \in {Never, -Latest} THEN q[i].left
                             ELSE q[i].left - 1
  BY <1>1, <1>2 DEF FutexEntry
<1>6. OnceE(Tick(q)) /\ Sleepers(Tick(q)) = Sleepers(q)
  BY <1>4, <1>5 DEF OnceE, Sleepers
<1> QED
  BY <1>4, <1>5, <1>6

\* wakeTimedOut takes the first entry that is due.
LEMMA FirstDueIsFirst ==
  ASSUME NEW q \in Seq(FutexEntry), Due(q) # {}
  PROVE  FirstDue(q) \in DOMAIN q /\ FirstDue(q) \in Due(q) /\ \A j \in Due(q) : FirstDue(q) <= j
<1>1. Due(q) \subseteq DOMAIN q /\ Due(q) \subseteq Nat
  BY LenProperties DEF Due
<1>2. \E i \in Due(q) : \A j \in Due(q) : i <= j
  BY <1>1, LeastElement
<1>3. FirstDue(q) \in Due(q) /\ \A j \in Due(q) : FirstDue(q) <= j
  BY <1>2 DEF FirstDue
<1> QED
  BY <1>1, <1>3

LEMMA WakeOneQueue ==
  ASSUME NEW q \in Seq(FutexEntry), OnceE(q)
  PROVE  /\ WakeOne(q) \in Seq(FutexEntry) /\ OnceE(WakeOne(q))
         /\ Sleepers(WakeOne(q)) \subseteq Sleepers(q)
  BY FirstDueIsFirst, RemoveEntry DEF WakeOne

CondEntry == [thread : Thread, mutex : Mutex]

\* What one more waiter adds to the requests for m.
Asked(g, q, m, i) ==
  IF i = 0 THEN <<>>
  ELSE IF q[i].mutex = m THEN Append(g[i - 1], q[i].thread) ELSE g[i - 1]

LEMMA AskedByDef ==
  ASSUME NEW q \in Seq(CondEntry), NEW m
  PROVE  AskedBy(q, m) = [i \in 0..Len(q) |-> Asked(AskedBy(q, m), q, m, i)]
<1> DEFINE Good(n) == \E g : g = [i \in 0..n |-> Asked(g, q, m, i)]
           Bad == {n \in Nat : ~Good(n)}
<1>1. Len(q) \in Nat
  BY LenProperties
<1>2. Good(0)
  <2> DEFINE g == [i \in 0..0 |-> <<>>]
  <2>1. \A i \in 0..0 : Asked(g, q, m, i) = <<>>
    BY DEF Asked
  <2> QED
    BY <2>1
<1>3. ASSUME NEW n \in Nat \ {0}, Good(n - 1)
      PROVE  Good(n)
  <2>1. PICK f : f = [i \in 0..(n - 1) |-> Asked(f, q, m, i)]
    BY <1>3
  <2> DEFINE g == [i \in 0..n |-> IF i < n THEN f[i] ELSE Asked(f, q, m, n)]
  <2>2. ASSUME NEW i \in 0..n
        PROVE  g[i] = Asked(g, q, m, i)
    <3>1. i # 0 => i - 1 \in 0..n /\ i - 1 < n /\ g[i - 1] = f[i - 1]
      OBVIOUS
    <3>2. Asked(g, q, m, i) = Asked(f, q, m, i)
      BY <3>1 DEF Asked
    <3>3. g[i] = Asked(f, q, m, i)
      <4>1. CASE i < n
        <5>1. i \in 0..(n - 1)
          BY <4>1
        <5>2. f[i] = Asked(f, q, m, i)
          BY <2>1, <5>1
        <5> QED
          BY <4>1, <5>2
      <4>2. CASE ~(i < n)
        <5>1. i = n
          BY <4>2
        <5> QED
          BY <5>1
      <4> QED
        BY <4>1, <4>2
    <3> QED
      BY <3>2, <3>3
  <2>3. g = [i \in 0..n |-> g[i]]
    OBVIOUS
  <2> HIDE DEF g
  <2>4. g = [i \in 0..n |-> Asked(g, q, m, i)]
    BY <2>2, <2>3
  <2> QED
    BY <2>4
<1>4. Good(Len(q))
  <2> HIDE DEF Good
  <2> SUFFICES ASSUME Bad # {} PROVE FALSE
    BY <1>1
  <2>1. PICK n \in Bad : \A k \in Bad : n <= k
    BY LeastElement
  <2>2. n # 0 /\ n \in Nat /\ n - 1 \in Nat /\ n - 1 \notin Bad
    BY <1>2, <2>1
  <2> QED
    BY <1>3, <2>2
<1>5. AskedBy(q, m) = CHOOSE g : g = [i \in 0..Len(q) |-> Asked(g, q, m, i)]
  BY DEF AskedBy, Asked
<1> QED
  BY <1>4, <1>5

\* The requests for m are the waiters that gave up m, each once.
LEMMA RequestsOf ==
  ASSUME NEW q \in Seq(CondEntry), OnceE(q), NEW m
  PROVE  /\ Requests(q, m) \in Seq(Thread) /\ Once(Requests(q, m))
         /\ \A t : t \in ThreadsIn(Requests(q, m)) <=>
                     \E i \in DOMAIN q : q[i].thread = t /\ q[i].mutex = m
<1> DEFINE A == AskedBy(q, m)
           Good(k) == /\ A[k] \in Seq(Thread) /\ Once(A[k])
                      /\ \A t : t \in ThreadsIn(A[k]) <=>
                                  \E i \in 1..k : q[i].thread = t /\ q[i].mutex = m
           Bad == {k \in 0..Len(q) : ~Good(k)}
<1>1. Len(q) \in Nat /\ DOMAIN q = 1..Len(q) /\ \A i \in 1..Len(q) : q[i].thread \in Thread
  <2>1. Len(q) \in Nat /\ DOMAIN q = 1..Len(q)
    BY LenProperties
  <2>2. \A i \in 1..Len(q) : q[i] \in CondEntry
    BY ElementOfSeq
  <2> QED
    BY <2>1, <2>2 DEF CondEntry
<1>2. A[0] = <<>>
  BY <1>1, AskedByDef DEF Asked
<1>3. \A k \in 1..Len(q) : A[k] = IF q[k].mutex = m THEN Append(A[k - 1], q[k].thread)
                                  ELSE A[k - 1]
  <2>1. \A k \in 1..Len(q) : k \in 0..Len(q) /\ k # 0
    BY <1>1
  <2>2. \A k \in 0..Len(q) : A[k] = Asked(A, q, m, k)
    BY AskedByDef
  <2> QED
    BY <2>1, <2>2 DEF Asked
<1> HIDE DEF A
<1>4. Good(0)
  <2>1. <<>> \in Seq(Thread) /\ DOMAIN <<>> = {}
    OBVIOUS
  <2> QED
    BY <1>2, <2>1 DEF Once, ThreadsIn
<1>5. ASSUME NEW k \in 1..Len(q), Good(k - 1)
      PROVE  Good(k)
  <2>1. \A i \in 1..k : i = k \/ i \in 1..(k - 1)
    BY <1>1
  <2>2. \A i \in 1..(k - 1) : i \in 1..k
    BY <1>1
  <2>3. k \in 1..k
    BY <1>1
  <2>4. CASE q[k].mutex # m
    <3>1. A[k] = A[k - 1]
      BY <1>3, <2>4
    <3>2. \A t : (\E i \in 1..k : q[i].thread = t /\ q[i].mutex = m)
                   <=> \E i \in 1..(k - 1) : q[i].thread = t /\ q[i].mutex = m
      BY <2>1, <2>2, <2>4, Zenon
    <3> QED
      BY <1>5, <3>1, <3>2, Zenon
  <2>5. CASE q[k].mutex = m
    <3>1. A[k] = Append(A[k - 1], q[k].thread)
      BY <1>3, <2>5
    <3>2. q[k].thread \in Thread
      BY <1>1
    <3>3. q[k].thread \notin ThreadsIn(A[k - 1])
      <4>1. \A i \in 1..(k - 1) : q[i].thread # q[k].thread
        BY <1>1 DEF OnceE
      <4> QED
        BY <1>5, <4>1, Zenon
    <3>4. /\ A[k] \in Seq(Thread) /\ Once(A[k])
          /\ ThreadsIn(A[k]) = ThreadsIn(A[k - 1]) \cup {q[k].thread}
      BY <1>5, <3>1, <3>2, <3>3, AppendThread
    <3>5. \A t : (\E i \in 1..k : q[i].thread = t /\ q[i].mutex = m)
                   <=> \/ t = q[k].thread
                       \/ \E i \in 1..(k - 1) : q[i].thread = t /\ q[i].mutex = m
      BY <2>1, <2>2, <2>3, <2>5, Zenon
    <3>6. \A t : t \in ThreadsIn(A[k]) <=> \E i \in 1..k : q[i].thread = t /\ q[i].mutex = m
      BY <1>5, <3>4, <3>5, Zenon
    <3> QED
      BY <3>4, <3>6
  <2> QED
    BY <2>4, <2>5
<1>6. Good(Len(q))
  <2> HIDE DEF Good
  <2> SUFFICES ASSUME Bad # {} PROVE FALSE
    BY <1>1
  <2>0. Bad \subseteq Nat
    BY <1>1
  <2>1. PICK n \in Bad : \A k \in Bad : n <= k
    BY <2>0, LeastElement
  <2>2. n # 0
    BY <1>4, <2>1
  <2>3. n \in 1..Len(q) /\ n - 1 \in 0..Len(q)
    BY <1>1, <2>1, <2>2
  <2>4. n - 1 \notin Bad
    BY <1>1, <2>1, <2>3
  <2> QED
    BY <1>5, <2>1, <2>3, <2>4
<1> QED
  BY <1>1, <1>6 DEF Requests, A

-----------------------------------------------------------------------------
(* Who stands where                                                        *)

\* The queues that thread t stands in.
WM(t) == {m \in Mutex : t \in ThreadsIn(mutex_waiting[m])}
WC(t) == {c \in Cond : t \in Sleepers(cond_waiting[c])}
WB(t) == {b \in Barrier : t \in ThreadsIn(barrier_waiting[b])}
WF(t) == {a \in Addr : t \in Sleepers(futex_waiting[a])}
WS(t) == t \in Sleepers(sleeping)

MutexQ   == mutex_waiting \in [Mutex -> Seq(Thread)] /\ \A m \in Mutex : Once(mutex_waiting[m])
CondQ    == cond_waiting \in [Cond -> Seq(CondEntry)] /\ \A c \in Cond : OnceE(cond_waiting[c])
BarrierQ == /\ barrier_waiting \in [Barrier -> Seq(Thread)]
            /\ \A b \in Barrier : Once(barrier_waiting[b])
FutexQ   == futex_waiting \in [Addr -> Seq(FutexEntry)] /\ \A a \in Addr : OnceE(futex_waiting[a])
SleepQ   == sleeping \in Seq(FutexEntry) /\ OnceE(sleeping)

Queues == MutexQ /\ CondQ /\ BarrierQ /\ FutexQ /\ SleepQ

Nowhere(t) == WM(t) = {} /\ WC(t) = {} /\ WB(t) = {} /\ WF(t) = {} /\ ~WS(t) /\ Joining(t) = {}

\* t stands in one queue, that of what it has stalled for.
InOne(t) ==
  \/ /\ reason[t] \in {"mutex", "cond"} /\ \E m \in Mutex : WM(t) = {m}
     /\ WC(t) = {} /\ WB(t) = {} /\ WF(t) = {} /\ ~WS(t) /\ Joining(t) = {}
  \/ /\ reason[t] = "cond" /\ \E c \in Cond : WC(t) = {c}
     /\ WM(t) = {} /\ WB(t) = {} /\ WF(t) = {} /\ ~WS(t) /\ Joining(t) = {}
  \/ /\ reason[t] = "barrier" /\ \E b \in Barrier : WB(t) = {b}
     /\ WM(t) = {} /\ WC(t) = {} /\ WF(t) = {} /\ ~WS(t) /\ Joining(t) = {}
  \/ /\ reason[t] = "futex" /\ \E a \in Addr : WF(t) = {a}
     /\ WM(t) = {} /\ WC(t) = {} /\ WB(t) = {} /\ ~WS(t) /\ Joining(t) = {}
  \/ /\ reason[t] = "sleep" /\ WS(t)
     /\ WM(t) = {} /\ WC(t) = {} /\ WB(t) = {} /\ WF(t) = {} /\ Joining(t) = {}
  \/ /\ reason[t] = "join" /\ \E j \in Thread : Joining(t) = {j}
     /\ WM(t) = {} /\ WC(t) = {} /\ WB(t) = {} /\ WF(t) = {} /\ ~WS(t)

Standing(t) == IF status[t] = "STALLED" /\ reason[t] # "syscall" THEN InOne(t) ELSE Nowhere(t)

\* Threads that have not started, and threads in a system call.
TableInv ==
  \A t \in Thread : /\ host[t] \in {"none", "new"} => status[t] # "STALLED"
                    /\ host[t] = "syscall" => status[t] = "STALLED" /\ reason[t] = "syscall"

PlaceInv == HostInv /\ TableInv /\ Queues /\ \A t \in Thread : Standing(t)

-----------------------------------------------------------------------------
(* One queue of a family is replaced.                                      *)

LEMMA MutexUpdate ==
  ASSUME MutexQ, NEW m \in Mutex, NEW q \in Seq(Thread), Once(q),
         mutex_waiting' = [mutex_waiting EXCEPT ![m] = q]
  PROVE  /\ MutexQ'
         /\ \A u : WM(u)' = IF u \in ThreadsIn(q) THEN WM(u) \cup {m} ELSE WM(u) \ {m}
<1>1. \A x \in Mutex : mutex_waiting'[x] = IF x = m THEN q ELSE mutex_waiting[x]
  BY DEF MutexQ
<1>2. MutexQ'
  BY <1>1 DEF MutexQ
<1> QED
  BY <1>1, <1>2 DEF WM

LEMMA CondUpdate ==
  ASSUME CondQ, NEW c \in Cond, NEW q \in Seq(CondEntry), OnceE(q),
         cond_waiting' = [cond_waiting EXCEPT ![c] = q]
  PROVE  /\ CondQ'
         /\ \A u : WC(u)' = IF u \in Sleepers(q) THEN WC(u) \cup {c} ELSE WC(u) \ {c}
<1>1. \A x \in Cond : cond_waiting'[x] = IF x = c THEN q ELSE cond_waiting[x]
  BY DEF CondQ
<1>2. CondQ'
  BY <1>1 DEF CondQ
<1> QED
  BY <1>1, <1>2 DEF WC

LEMMA BarrierUpdate ==
  ASSUME BarrierQ, NEW b \in Barrier, NEW q \in Seq(Thread), Once(q),
         barrier_waiting' = [barrier_waiting EXCEPT ![b] = q]
  PROVE  /\ BarrierQ'
         /\ \A u : WB(u)' = IF u \in ThreadsIn(q) THEN WB(u) \cup {b} ELSE WB(u) \ {b}
<1>1. \A x \in Barrier : barrier_waiting'[x] = IF x = b THEN q ELSE barrier_waiting[x]
  BY DEF BarrierQ
<1>2. BarrierQ'
  BY <1>1 DEF BarrierQ
<1> QED
  BY <1>1, <1>2 DEF WB

LEMMA FutexUpdate ==
  ASSUME FutexQ, NEW a \in Addr, NEW q \in Seq(FutexEntry), OnceE(q),
         futex_waiting' = [futex_waiting EXCEPT ![a] = q]
  PROVE  /\ FutexQ'
         /\ \A u : WF(u)' = IF u \in Sleepers(q) THEN WF(u) \cup {a} ELSE WF(u) \ {a}
<1>1. \A x \in Addr : futex_waiting'[x] = IF x = a THEN q ELSE futex_waiting[x]
  BY DEF FutexQ
<1>2. FutexQ'
  BY <1>1 DEF FutexQ
<1> QED
  BY <1>1, <1>2 DEF WF

\* What does not change.
LEMMA SameQueues ==
  /\ UNCHANGED mutex_waiting => (MutexQ => MutexQ') /\ \A u : WM(u)' = WM(u)
  /\ UNCHANGED cond_waiting => (CondQ => CondQ') /\ \A u : WC(u)' = WC(u)
  /\ UNCHANGED barrier_waiting => (BarrierQ => BarrierQ') /\ \A u : WB(u)' = WB(u)
  /\ UNCHANGED futex_waiting => (FutexQ => FutexQ') /\ \A u : WF(u)' = WF(u)
  /\ UNCHANGED sleeping => (SleepQ => SleepQ') /\ \A u : WS(u)' <=> WS(u)
  /\ UNCHANGED waiter => \A u : Joining(u)' = Joining(u)
  BY DEF MutexQ, WM, CondQ, WC, BarrierQ, WB, FutexQ, WF, SleepQ, WS, Joining

-----------------------------------------------------------------------------
(* Whoever stands in a queue stands nowhere else and is stalled.           *)

LEMMA OnlyHere ==
  ASSUME PlaceInv, NEW u \in Thread
  PROVE  /\ \A m \in WM(u) : /\ WM(u) = {m} /\ WC(u) = {} /\ WB(u) = {} /\ WF(u) = {}
                             /\ ~WS(u) /\ Joining(u) = {}
         /\ \A c \in WC(u) : /\ WM(u) = {} /\ WC(u) = {c} /\ WB(u) = {} /\ WF(u) = {}
                             /\ ~WS(u) /\ Joining(u) = {} /\ reason[u] = "cond"
         /\ \A b \in WB(u) : /\ WM(u) = {} /\ WC(u) = {} /\ WB(u) = {b} /\ WF(u) = {}
                             /\ ~WS(u) /\ Joining(u) = {}
         /\ \A a \in WF(u) : /\ WM(u) = {} /\ WC(u) = {} /\ WB(u) = {} /\ WF(u) = {a}
                             /\ ~WS(u) /\ Joining(u) = {} /\ reason[u] = "futex"
         /\ WS(u) => /\ WM(u) = {} /\ WC(u) = {} /\ WB(u) = {} /\ WF(u) = {}
                     /\ Joining(u) = {}
         /\ \A j \in Joining(u) : /\ WM(u) = {} /\ WC(u) = {} /\ WB(u) = {} /\ WF(u) = {}
                                  /\ ~WS(u) /\ Joining(u) = {j}
         /\ ~Nowhere(u) => status[u] = "STALLED" /\ reason[u] # "syscall"
         /\ status[u] # "STALLED" => Nowhere(u)
<1>1. Standing(u)
  BY DEF PlaceInv
<1> QED
  BY <1>1 DEF Standing, InOne, Nowhere

\* A thread that calls stands in no queue.
LEMMA CallerNowhere ==
  ASSUME PlaceInv, NEW t \in Thread, host[t] = "app"
  PROVE  Nowhere(t) /\ status[t] = "RUNNING"
  BY OnlyHere DEF PlaceInv, HostInv, HostAgrees

\* Who is not touched stands where it stood.
LEMMA Untouched ==
  ASSUME NEW u, Standing(u), status'[u] = status[u], reason'[u] = reason[u],
         WM(u)' = WM(u), WC(u)' = WC(u), WB(u)' = WB(u), WF(u)' = WF(u),
         WS(u)' <=> WS(u), Joining(u)' = Joining(u)
  PROVE  Standing(u)'
  BY DEF Standing, InOne, Nowhere

\* A call that resumes the threads of W, which then stand in no queue any more,
\* and moves the threads of V, which stay stalled, to other queues.
LEMMA MovePlaces ==
  ASSUME PlaceInv, HostInv', Queues', NEW W, NEW V, W \subseteq Thread, V \subseteq Thread \ W,
         resumeThreads(W),
         \A u \in W : ~Nowhere(u) /\ Nowhere(u)',
         \A u \in V : ~Nowhere(u) /\ InOne(u)',
         \A u \in Thread \ (W \cup V) : /\ WM(u)' = WM(u) /\ WC(u)' = WC(u)
                                        /\ WB(u)' = WB(u) /\ WF(u)' = WF(u)
                                        /\ (WS(u)' <=> WS(u)) /\ Joining(u)' = Joining(u)
  PROVE  PlaceInv'
<1>1. /\ \A u \in W : status'[u] = "RUNNING"
      /\ \A u \in Thread \ W : status'[u] = status[u]
      /\ \A u \in Thread : reason'[u] = reason[u]
  BY DEF resumeThreads, Woken
<1>2. \A u \in W : Standing(u)'
  BY <1>1 DEF Standing
<1>3. \A u \in Thread \ (W \cup V) : Standing(u)'
  BY <1>1, Untouched DEF PlaceInv
<1>4. \A u \in W \cup V : status[u] = "STALLED" /\ reason[u] # "syscall"
  BY OnlyHere
<1>5. \A u \in V : Standing(u)'
  BY <1>1, <1>4 DEF Standing
<1>6. TableInv'
  BY <1>1, <1>4 DEF PlaceInv, TableInv, resumeThreads, Woken
<1> QED
  BY <1>2, <1>3, <1>5, <1>6 DEF PlaceInv

LEMMA WakePlaces ==
  ASSUME PlaceInv, HostInv', Queues', NEW W, W \subseteq Thread, resumeThreads(W),
         \A u \in W : ~Nowhere(u) /\ Nowhere(u)',
         \A u \in Thread \ W : /\ WM(u)' = WM(u) /\ WC(u)' = WC(u) /\ WB(u)' = WB(u)
                               /\ WF(u)' = WF(u) /\ (WS(u)' <=> WS(u))
                               /\ Joining(u)' = Joining(u)
  PROVE  PlaceInv'
<1> DEFINE V == {}
<1>1. V \subseteq Thread \ W /\ Thread \ (W \cup V) = Thread \ W /\ \A u \in V : FALSE
  OBVIOUS
<1> HIDE DEF V
<1> QED
  BY <1>1, MovePlaces

\* A call that stalls t, which comes to stand in a queue, and resumes W.
LEMMA StallCore ==
  ASSUME PlaceInv, HostInv', Queues', NEW t \in Thread,
         NEW r \in Reason \ {"none", "syscall"}, NEW W, W \subseteq Thread,
         status'[t] = "STALLED", reason'[t] = r, host'[t] = "stalling",
         \A u \in W : status'[u] = "RUNNING" /\ reason'[u] = reason[u],
         \A u \in Thread \ (W \cup {t}) : status'[u] = status[u] /\ reason'[u] = reason[u],
         \A u \in Thread : u # t /\ host'[u] # host[u] => host'[u] = "app",
         InOne(t)',
         \A u \in W : u # t /\ ~Nowhere(u) /\ Nowhere(u)',
         \A u \in Thread \ (W \cup {t}) : /\ WM(u)' = WM(u) /\ WC(u)' = WC(u)
                                          /\ WB(u)' = WB(u) /\ WF(u)' = WF(u)
                                          /\ (WS(u)' <=> WS(u)) /\ Joining(u)' = Joining(u)
  PROVE  PlaceInv'
<1>1. \A u \in W : Standing(u)'
  BY DEF Standing
<1>2. \A u \in Thread \ (W \cup {t}) : Standing(u)'
  BY Untouched DEF PlaceInv
<1>3. Standing(t)'
  BY DEF Standing
<1>4. TableInv'
  <2>1. \A u \in W : status[u] = "STALLED" /\ reason[u] # "syscall"
    BY OnlyHere
  <2> QED
    BY <2>1 DEF PlaceInv, TableInv
<1> QED
  BY <1>1, <1>2, <1>3, <1>4 DEF PlaceInv

LEMMA StallPlaces ==
  ASSUME PlaceInv, HostInv', Queues', NEW t \in Thread,
         NEW r \in Reason \ {"none", "syscall"},
         NEW W, W \subseteq Thread, stallAndResume(t, r, W),
         InOne(t)',
         \A u \in W : u # t /\ ~Nowhere(u) /\ Nowhere(u)',
         \A u \in Thread \ (W \cup {t}) : /\ WM(u)' = WM(u) /\ WC(u)' = WC(u)
                                          /\ WB(u)' = WB(u) /\ WF(u)' = WF(u)
                                          /\ (WS(u)' <=> WS(u)) /\ Joining(u)' = Joining(u)
  PROVE  PlaceInv'
<1>1. /\ status'[t] = "STALLED" /\ reason'[t] = r /\ host'[t] = "stalling"
      /\ \A u \in W : status'[u] = "RUNNING" /\ reason'[u] = reason[u]
      /\ \A u \in Thread \ (W \cup {t}) : status'[u] = status[u] /\ reason'[u] = reason[u]
  BY DEF stallAndResume, PlaceInv, HostInv, ThreadTypeOK
<1>2. \A u \in Thread : u # t /\ host'[u] # host[u] => host'[u] = "app"
  BY DEF stallAndResume
<1> QED
  BY <1>1, <1>2, StallCore

\* A step that touches the thread table only, for threads that stand nowhere.
LEMMA TableStep ==
  ASSUME PlaceInv, HostInv', TableInv', Queues',
         \A u \in Thread : /\ WM(u)' = WM(u) /\ WC(u)' = WC(u) /\ WB(u)' = WB(u)
                           /\ WF(u)' = WF(u) /\ (WS(u)' <=> WS(u))
                           /\ Joining(u)' = Joining(u),
         \A u \in Thread : \/ status'[u] = status[u] /\ reason'[u] = reason[u]
                           \/ Nowhere(u) /\ (status'[u] # "STALLED" \/ reason'[u] = "syscall")
  PROVE  PlaceInv'
<1>1. \A u \in Thread : status'[u] = status[u] /\ reason'[u] = reason[u] => Standing(u)'
  BY Untouched DEF PlaceInv
<1>2. \A u \in Thread : Nowhere(u) /\ (status'[u] # "STALLED" \/ reason'[u] = "syscall")
                        => Standing(u)'
  BY DEF Nowhere, Standing
<1> QED
  BY <1>1, <1>2 DEF PlaceInv

\* A call that leaves the thread table and the queues alone.
LEMMA StillPlaces ==
  ASSUME PlaceInv, UNCHANGED <<tmVars, mutex_waiting, cond_waiting, barrier_waiting, futexVars>>
  PROVE  PlaceInv'
<1>1. HostInv'
  BY UnchangedKeepsHostInv DEF PlaceInv
<1>2. /\ Queues'
      /\ \A u : /\ WM(u)' = WM(u) /\ WC(u)' = WC(u) /\ WB(u)' = WB(u) /\ WF(u)' = WF(u)
                /\ (WS(u)' <=> WS(u)) /\ Joining(u)' = Joining(u)
  BY SameQueues DEF PlaceInv, Queues, futexVars, tmVars
<1>3. TableInv'
  BY DEF PlaceInv, TableInv, tmVars
<1>4. \A u \in Thread : Standing(u)'
  BY <1>2, Untouched DEF PlaceInv, tmVars
<1> QED
  BY <1>1, <1>2, <1>3, <1>4 DEF PlaceInv

-----------------------------------------------------------------------------
(* SyncServer                                                              *)

Successor(m) == {NextOwner(m)} \ {NoThread}

\* SimMutex::unlock takes the first waiter, if there is one, out of the queue.
LEMMA UnlockQueue ==
  ASSUME PlaceInv, NEW m \in Mutex, unlock(m)
  PROVE  /\ MutexQ' /\ Successor(m) \subseteq Thread
         /\ \A u \in Successor(m) : m \in WM(u) /\ WM(u)' = {}
         /\ \A u \in Thread \ Successor(m) : WM(u)' = WM(u)
<1> DEFINE q == mutex_waiting[m]
<1>1. q \in Seq(Thread) /\ Once(q) /\ mutex_waiting' = [mutex_waiting EXCEPT ![m] = RestOf(q)]
  BY DEF PlaceInv, Queues, MutexQ, unlock
<1>2. MutexQ
  BY DEF PlaceInv, Queues
<1>3. \A u : m \in WM(u) <=> u \in ThreadsIn(q)
  BY DEF WM
<1>4. CASE q = <<>>
  <2>1. RestOf(q) = <<>> /\ <<>> \in Seq(Thread) /\ Once(<<>>) /\ ThreadsIn(<<>>) = {}
    BY <1>4 DEF RestOf, Once, ThreadsIn
  <2>2. Successor(m) = {}
    BY <1>4 DEF Successor, NextOwner
  <2>3. MutexQ' /\ \A u : WM(u)' = WM(u) \ {m}
    BY <1>1, <1>2, <2>1, MutexUpdate
  <2> QED
    BY <1>3, <1>4, <2>1, <2>2, <2>3
<1>5. CASE q # <<>>
  <2> DEFINE n == Head(q)
  <2>1. /\ RestOf(q) \in Seq(Thread) /\ Once(RestOf(q)) /\ n \in ThreadsIn(q)
        /\ ThreadsIn(RestOf(q)) = ThreadsIn(q) \ {n}
    BY <1>1, <1>5, RestThread
  <2>2. n \in Thread
    BY <1>1, <1>5, HeadTailProperties
  <2>3. Successor(m) = {n}
    BY <1>5, <2>2, ThreadAssumption DEF Successor, NextOwner
  <2>4. MutexQ' /\ \A u : WM(u)' = IF u \in ThreadsIn(RestOf(q)) THEN WM(u) \cup {m}
                                   ELSE WM(u) \ {m}
    BY <1>1, <1>2, <2>1, MutexUpdate
  <2>5. WM(n) = {m}
    BY <1>3, <2>1, <2>2, OnlyHere
  <2> HIDE DEF n, q
  <2> QED
    BY <1>3, <2>1, <2>2, <2>3, <2>4, <2>5
<1> QED
  BY <1>4, <1>5

LEMMA MutexQueuePlaces ==
  ASSUME PlaceInv, HostInv', NEW t \in Thread, NEW m \in Mutex, MutexQueue(t, m),
         UNCHANGED futexVars
  PROVE  PlaceInv'
<1> DEFINE q == mutex_waiting[m]
<1>1. q \in Seq(Thread) /\ Once(q) /\ mutex_waiting' = [mutex_waiting EXCEPT ![m] = Append(q, t)]
  BY DEF PlaceInv, Queues, MutexQ, MutexQueue
<1>2. Nowhere(t) /\ host[t] = "app"
  BY CallerNowhere DEF MutexQueue, Calls
<1>3. t \notin ThreadsIn(q)
  BY <1>2 DEF Nowhere, WM
<1>4. /\ Append(q, t) \in Seq(Thread) /\ Once(Append(q, t))
      /\ ThreadsIn(Append(q, t)) = ThreadsIn(q) \cup {t}
  BY <1>1, <1>3, AppendThread
<1>5. MutexQ' /\ \A u : WM(u)' = IF u \in ThreadsIn(q) \cup {t} THEN WM(u) \cup {m}
                                 ELSE WM(u) \ {m}
  BY <1>1, <1>4, MutexUpdate DEF PlaceInv, Queues
<1>6. WM(t)' = {m} /\ \A u \in Thread \ {t} : WM(u)' = WM(u)
  BY <1>2, <1>5 DEF WM, Nowhere
<1>7. stallAndResume(t, "mutex", {}) /\ reason'[t] = "mutex"
  BY DEF MutexQueue, stallThread, stallAndResume, PlaceInv, HostInv, ThreadTypeOK
<1>8. /\ Queues'
      /\ \A u : /\ WC(u)' = WC(u) /\ WB(u)' = WB(u) /\ WF(u)' = WF(u)
                /\ (WS(u)' <=> WS(u)) /\ Joining(u)' = Joining(u)
  BY <1>5, <1>7, SameQueues DEF PlaceInv, Queues, MutexQueue, futexVars, stallAndResume
<1>9. InOne(t)'
  BY <1>2, <1>6, <1>7, <1>8 DEF InOne, Nowhere
<1>10. "mutex" \in Reason \ {"none", "syscall"}
  BY DEF Reason
<1> QED
  BY <1>2, <1>6, <1>7, <1>8, <1>9, <1>10, StallPlaces

LEMMA MutexUnlockPlaces ==
  ASSUME PlaceInv, HostInv', NEW t \in Thread, NEW m \in Mutex, MutexUnlock(t, m),
         UNCHANGED futexVars
  PROVE  PlaceInv'
<1>1. unlock(m) /\ resumeThreads(Successor(m)) /\ UNCHANGED waiter
  BY DEF MutexUnlock, Successor, resumeThreads
<1>2. /\ MutexQ' /\ Successor(m) \subseteq Thread
      /\ \A u \in Successor(m) : m \in WM(u) /\ WM(u)' = {}
      /\ \A u \in Thread \ Successor(m) : WM(u)' = WM(u)
  BY <1>1, UnlockQueue
<1>3. /\ Queues'
      /\ \A u : /\ WC(u)' = WC(u) /\ WB(u)' = WB(u) /\ WF(u)' = WF(u)
                /\ (WS(u)' <=> WS(u)) /\ Joining(u)' = Joining(u)
  BY <1>1, <1>2, SameQueues DEF PlaceInv, Queues, MutexUnlock, futexVars
<1>4. \A u \in Successor(m) : ~Nowhere(u) /\ Nowhere(u)'
  BY <1>2, <1>3, OnlyHere DEF Nowhere
<1> QED
  BY <1>1, <1>2, <1>3, <1>4, WakePlaces

LEMMA CondWaitPlaces ==
  ASSUME PlaceInv, HostInv', NEW t \in Thread, NEW c \in Cond, NEW m \in Mutex,
         CondWait(t, c, m), UNCHANGED futexVars
  PROVE  PlaceInv'
<1> DEFINE q == cond_waiting[c]
           e == [thread |-> t, mutex |-> m]
<1>1. /\ unlock(m) /\ stallAndResume(t, "cond", Successor(m)) /\ UNCHANGED waiter
      /\ reason'[t] = "cond"
  BY DEF CondWait, Successor, stallAndResume, PlaceInv, HostInv, ThreadTypeOK
<1>2. /\ MutexQ' /\ Successor(m) \subseteq Thread
      /\ \A u \in Successor(m) : m \in WM(u) /\ WM(u)' = {}
      /\ \A u \in Thread \ Successor(m) : WM(u)' = WM(u)
  BY <1>1, UnlockQueue
<1>3. Nowhere(t) /\ host[t] = "app"
  BY CallerNowhere DEF CondWait, Calls
<1>4. t \notin Successor(m)
  BY <1>2, <1>3 DEF Nowhere
<1>5. /\ q \in Seq(CondEntry) /\ OnceE(q) /\ e \in CondEntry /\ e.thread = t
      /\ t \notin Sleepers(q) /\ cond_waiting' = [cond_waiting EXCEPT ![c] = Append(q, e)]
  BY <1>3 DEF PlaceInv, Queues, CondQ, CondWait, CondEntry, Nowhere, WC
<1> HIDE DEF e
<1>6. /\ Append(q, e) \in Seq(CondEntry) /\ OnceE(Append(q, e))
      /\ Sleepers(Append(q, e)) = Sleepers(q) \cup {t}
  BY <1>5, AppendEntry
<1>7. CondQ' /\ \A u : WC(u)' = IF u \in Sleepers(q) \cup {t} THEN WC(u) \cup {c}
                                ELSE WC(u) \ {c}
  BY <1>5, <1>6, CondUpdate DEF PlaceInv, Queues
<1>8. WC(t)' = {c} /\ \A u \in Thread \ {t} : WC(u)' = WC(u)
  BY <1>3, <1>7 DEF WC, Nowhere
<1>9. /\ Queues'
      /\ \A u : /\ WB(u)' = WB(u) /\ WF(u)' = WF(u)
                /\ (WS(u)' <=> WS(u)) /\ Joining(u)' = Joining(u)
  BY <1>1, <1>2, <1>7, SameQueues DEF PlaceInv, Queues, CondWait, futexVars
<1>10. \A u \in Successor(m) : u # t /\ ~Nowhere(u) /\ Nowhere(u)'
  BY <1>2, <1>4, <1>8, <1>9, OnlyHere DEF Nowhere
<1>11. InOne(t)'
  BY <1>1, <1>2, <1>3, <1>4, <1>8, <1>9 DEF InOne, Nowhere
<1>12. "cond" \in Reason \ {"none", "syscall"}
  BY DEF Reason
<1> QED
  BY <1>1, <1>2, <1>3, <1>8, <1>9, <1>10, <1>11, <1>12, StallPlaces


\* The requests of q for m that do not get the mutex.
Refused(q, m) == IF Granted(q, m) = NoThread THEN Requests(q, m) ELSE Tail(Requests(q, m))

\* lock_async for one mutex.
LEMMA GrantOne ==
  ASSUME NEW q \in Seq(CondEntry), OnceE(q), NEW m
  PROVE  /\ Refused(q, m) \in Seq(Thread) /\ Once(Refused(q, m))
         /\ ThreadsIn(Refused(q, m)) = ThreadsIn(Requests(q, m)) \ {Granted(q, m)}
         /\ Granted(q, m) # NoThread => /\ Granted(q, m) \in Thread
                                        /\ Granted(q, m) \in ThreadsIn(Requests(q, m))
<1> DEFINE r == Requests(q, m)
<1>1. r \in Seq(Thread) /\ Once(r)
  BY RequestsOf
<1>2. ThreadsIn(r) \subseteq Thread
  BY <1>1, LenProperties, ElementOfSeq DEF ThreadsIn
<1>3. CASE Granted(q, m) = NoThread
  BY <1>1, <1>2, <1>3, ThreadAssumption DEF Refused
<1>4. CASE Granted(q, m) # NoThread
  <2>1. r # <<>> /\ Granted(q, m) = Head(r)
    BY <1>4 DEF Granted
  <2>2. RestOf(r) = Tail(r) /\ Refused(q, m) = Tail(r)
    BY <1>4, <2>1 DEF RestOf, Refused
  <2>3. /\ RestOf(r) \in Seq(Thread) /\ Once(RestOf(r))
        /\ Head(r) \in ThreadsIn(r) /\ ThreadsIn(RestOf(r)) = ThreadsIn(r) \ {Head(r)}
    BY <1>1, <2>1, RestThread
  <2> QED
    BY <1>2, <2>1, <2>2, <2>3
<1> QED
  BY <1>3, <1>4

\* Signalled waiters get their mutex or join its queue.
LEMMA LockAsyncPlaces ==
  ASSUME PlaceInv, HostInv', NEW c \in Cond,
         NEW q \in Seq(CondEntry), OnceE(q), Sleepers(q) \subseteq Sleepers(cond_waiting[c]),
         NEW rest \in Seq(CondEntry), OnceE(rest),
         Sleepers(rest) = Sleepers(cond_waiting[c]) \ Sleepers(q),
         lock_async(q), cond_waiting' = [cond_waiting EXCEPT ![c] = rest],
         UNCHANGED <<barrier_waiting, futexVars>>
  PROVE  PlaceInv'
<1> DEFINE G == {Granted(q, m) : m \in Mutex} \ {NoThread}
           V == Sleepers(q) \ G
<1>1. Len(q) \in Nat /\ DOMAIN q = 1..Len(q) /\ \A i \in DOMAIN q : q[i] \in CondEntry
  BY LenProperties, ElementOfSeq
<1>2. Sleepers(q) \subseteq Thread
  BY <1>1 DEF Sleepers, CondEntry
<1>3. \A u \in Sleepers(q) : /\ WC(u) = {c} /\ WM(u) = {} /\ WB(u) = {} /\ WF(u) = {}
                             /\ ~WS(u) /\ Joining(u) = {} /\ reason[u] = "cond"
  <2>1. \A u \in Sleepers(q) : u \in Thread /\ c \in WC(u)
    BY <1>2 DEF WC
  <2> QED
    BY <2>1, OnlyHere
<1>4. \A u : \A m : u \in ThreadsIn(Requests(q, m)) <=>
                     \E i \in DOMAIN q : q[i].thread = u /\ q[i].mutex = m
  BY RequestsOf
<1>5. \A m \in Mutex : ThreadsIn(Requests(q, m)) \subseteq Sleepers(q)
  BY <1>4 DEF Sleepers
<1>6. \A m \in Mutex : mutex_waiting'[m] = mutex_waiting[m] \o Refused(q, m)
  BY DEF lock_async, Refused
<1>7. \A m \in Mutex :
        /\ mutex_waiting'[m] \in Seq(Thread) /\ Once(mutex_waiting'[m])
        /\ ThreadsIn(mutex_waiting'[m]) = ThreadsIn(mutex_waiting[m])
                                          \cup (ThreadsIn(Requests(q, m)) \ {Granted(q, m)})
  <2> TAKE m \in Mutex
  <2>1. mutex_waiting[m] \in Seq(Thread) /\ Once(mutex_waiting[m])
    BY DEF PlaceInv, Queues, MutexQ
  <2>2. /\ Refused(q, m) \in Seq(Thread) /\ Once(Refused(q, m))
        /\ ThreadsIn(Refused(q, m)) = ThreadsIn(Requests(q, m)) \ {Granted(q, m)}
    BY GrantOne
  <2>3. ThreadsIn(mutex_waiting[m]) \cap ThreadsIn(Refused(q, m)) = {}
    BY <1>3, <1>5, <2>2 DEF WM
  <2>4. /\ mutex_waiting[m] \o Refused(q, m) \in Seq(Thread)
        /\ Once(mutex_waiting[m] \o Refused(q, m))
        /\ ThreadsIn(mutex_waiting[m] \o Refused(q, m))
             = ThreadsIn(mutex_waiting[m]) \cup ThreadsIn(Refused(q, m))
    BY <2>1, <2>2, <2>3, ConcatThread
  <2> QED
    BY <1>6, <2>2, <2>4
<1>8. MutexQ'
  BY <1>7 DEF MutexQ, lock_async
<1>9. CondQ' /\ \A u : WC(u)' = IF u \in Sleepers(rest) THEN WC(u) \cup {c} ELSE WC(u) \ {c}
  BY CondUpdate DEF PlaceInv, Queues
<1>10. /\ Queues'
       /\ \A u : /\ WB(u)' = WB(u) /\ WF(u)' = WF(u)
                 /\ (WS(u)' <=> WS(u)) /\ Joining(u)' = Joining(u)
  BY <1>8, <1>9, SameQueues DEF PlaceInv, Queues, futexVars, lock_async, resumeThreads
<1>11. \A u \in Thread \ Sleepers(q) : WM(u)' = WM(u) /\ WC(u)' = WC(u)
  <2>1. \A u \in Thread \ Sleepers(q) : WM(u)' = WM(u)
    BY <1>5, <1>7 DEF WM
  <2>2. \A u \in Thread \ Sleepers(q) : WC(u)' = WC(u)
    BY <1>9 DEF WC
  <2> QED
    BY <2>1, <2>2
<1>12. \A u \in Sleepers(q) : WC(u)' = {}
  BY <1>3, <1>9
<1>13. G \subseteq Sleepers(q)
  BY <1>5, GrantOne
<1>14. \A m, n \in Mutex : Granted(q, m) # NoThread /\ Granted(q, m) \in ThreadsIn(Requests(q, n))
                           => m = n
  <2> SUFFICES ASSUME NEW m \in Mutex, NEW n \in Mutex, Granted(q, m) # NoThread,
                      Granted(q, m) \in ThreadsIn(Requests(q, n))
               PROVE  m = n
    OBVIOUS
  <2>1. Granted(q, m) \in ThreadsIn(Requests(q, m))
    BY GrantOne
  <2>2. PICK i \in DOMAIN q : q[i].thread = Granted(q, m) /\ q[i].mutex = m
    BY <1>4, <2>1
  <2>3. PICK j \in DOMAIN q : q[j].thread = Granted(q, m) /\ q[j].mutex = n
    BY <1>4
  <2>4. i = j
    BY <2>2, <2>3 DEF OnceE
  <2> QED
    BY <2>2, <2>3, <2>4
<1>15. \A u \in G : WM(u)' = {}
  <2> SUFFICES ASSUME NEW u \in G, NEW n \in Mutex, u \in ThreadsIn(mutex_waiting'[n])
               PROVE  FALSE
    BY DEF WM
  <2>1. PICK m \in Mutex : u = Granted(q, m) /\ u # NoThread
    OBVIOUS
  <2>2. u \notin ThreadsIn(mutex_waiting[n])
    BY <1>3, <1>13 DEF WM
  <2> QED
    BY <1>7, <1>14, <2>1, <2>2
<1>16. \A u \in V : \E m \in Mutex : WM(u)' = {m}
  <2> SUFFICES ASSUME NEW u \in V PROVE \E m \in Mutex : WM(u)' = {m}
    OBVIOUS
  <2>1. PICK i \in DOMAIN q : q[i].thread = u
    BY DEF Sleepers
  <2>2. q[i].mutex \in Mutex
    BY <1>1 DEF CondEntry
  <2>3. \A n \in Mutex : u \in ThreadsIn(Requests(q, n)) <=> n = q[i].mutex
    BY <1>4, <2>1 DEF OnceE
  <2>4. \A n \in Mutex : u \notin ThreadsIn(mutex_waiting[n])
    BY <1>3 DEF WM
  <2>5. u \in Thread /\ u # NoThread
    BY <1>2, ThreadAssumption
  <2>6. \A n \in Mutex : u # Granted(q, n)
    BY <2>5
  <2>7. \A n \in Mutex : u \in ThreadsIn(mutex_waiting'[n]) <=> n = q[i].mutex
    BY <1>7, <2>3, <2>4, <2>6
  <2> QED
    BY <2>2, <2>7 DEF WM
<1>17. G \subseteq Thread /\ V \subseteq Thread \ G /\ resumeThreads(G)
       /\ Thread \ (G \cup V) = Thread \ Sleepers(q)
  BY <1>2, <1>13 DEF lock_async
<1>18. \A u \in V : reason'[u] = "cond"
  BY <1>3 DEF lock_async, resumeThreads
<1> HIDE DEF G, V
<1>19. V \subseteq Sleepers(q)
  BY DEF V
<1>20. \A u \in G : ~Nowhere(u) /\ Nowhere(u)'
  BY <1>3, <1>10, <1>12, <1>13, <1>15 DEF Nowhere
<1>21. \A u \in V : ~Nowhere(u) /\ InOne(u)'
  BY <1>3, <1>10, <1>12, <1>16, <1>18, <1>19 DEF Nowhere, InOne
<1> QED
  BY <1>10, <1>11, <1>17, <1>20, <1>21, MovePlaces


LEMMA CondSignalPlaces ==
  ASSUME PlaceInv, HostInv', NEW t \in Thread, NEW c \in Cond, CondSignal(t, c),
         UNCHANGED futexVars
  PROVE  PlaceInv'
<1> DEFINE q == cond_waiting[c]
<1>1. q \in Seq(CondEntry) /\ OnceE(q) /\ cond_waiting \in [Cond -> Seq(CondEntry)]
  BY DEF PlaceInv, Queues, CondQ
<1>2. cond_waiting' = [cond_waiting EXCEPT ![c] = RestOf(q)] /\ UNCHANGED barrier_waiting
  BY DEF CondSignal
<1>3. CASE q = <<>>
  <2>1. RestOf(q) = q
    BY <1>3 DEF RestOf
  <2>2. UNCHANGED cond_waiting
    BY <1>1, <1>2, <2>1
  <2>3. UNCHANGED <<tmVars, mutex_waiting>>
    BY <1>3 DEF CondSignal
  <2> QED
    BY <1>2, <2>2, <2>3, StillPlaces
<1>4. CASE q # <<>>
  <2> DEFINE one == <<Head(q)>>
  <2>1. /\ RestOf(q) \in Seq(CondEntry) /\ OnceE(RestOf(q)) /\ Head(q) \in CondEntry
        /\ Head(q) = q[1] /\ 1 \in DOMAIN q
        /\ Sleepers(RestOf(q)) = Sleepers(q) \ {Head(q).thread}
    BY <1>1, <1>4, RestEntry
  <2>2. one \in Seq(CondEntry) /\ DOMAIN one = {1} /\ one[1] = Head(q)
    BY <2>1
  <2>3. OnceE(one) /\ Sleepers(one) = {Head(q).thread}
    BY <2>2 DEF OnceE, Sleepers
  <2>4. Sleepers(one) \subseteq Sleepers(q)
    BY <2>1, <2>3 DEF Sleepers
  <2>5. lock_async(one)
    BY <1>4 DEF CondSignal
  <2> HIDE DEF one
  <2> QED
    BY <1>2, <2>1, <2>2, <2>3, <2>4, <2>5, LockAsyncPlaces
<1> QED
  BY <1>3, <1>4

LEMMA CondBroadcastPlaces ==
  ASSUME PlaceInv, HostInv', NEW t \in Thread, NEW c \in Cond, CondBroadcast(t, c),
         UNCHANGED futexVars
  PROVE  PlaceInv'
<1> DEFINE q == cond_waiting[c]
<1>1. q \in Seq(CondEntry) /\ OnceE(q)
  BY DEF PlaceInv, Queues, CondQ
<1>2. <<>> \in Seq(CondEntry) /\ OnceE(<<>>) /\ Sleepers(<<>>) = Sleepers(q) \ Sleepers(q)
  BY DEF OnceE, Sleepers
<1>3. /\ lock_async(q) /\ cond_waiting' = [cond_waiting EXCEPT ![c] = <<>>]
      /\ UNCHANGED barrier_waiting
  BY DEF CondBroadcast
<1> QED
  BY <1>1, <1>2, <1>3, LockAsyncPlaces

LEMMA BarrierArrivePlaces ==
  ASSUME PlaceInv, HostInv', NEW t \in Thread, NEW b \in Barrier, BarrierArrive(t, b),
         UNCHANGED futexVars
  PROVE  PlaceInv'
<1> DEFINE q == barrier_waiting[b]
<1>1. /\ q \in Seq(Thread) /\ Once(q)
      /\ barrier_waiting' = [barrier_waiting EXCEPT ![b] = Append(q, t)]
  BY DEF PlaceInv, Queues, BarrierQ, BarrierArrive
<1>2. Nowhere(t)
  BY CallerNowhere DEF BarrierArrive, Calls
<1>3. t \notin ThreadsIn(q)
  BY <1>2 DEF Nowhere, WB
<1>4. /\ Append(q, t) \in Seq(Thread) /\ Once(Append(q, t))
      /\ ThreadsIn(Append(q, t)) = ThreadsIn(q) \cup {t}
  BY <1>1, <1>3, AppendThread
<1>5. BarrierQ' /\ \A u : WB(u)' = IF u \in ThreadsIn(q) \cup {t} THEN WB(u) \cup {b}
                                   ELSE WB(u) \ {b}
  BY <1>1, <1>4, BarrierUpdate DEF PlaceInv, Queues
<1>6. WB(t)' = {b} /\ \A u \in Thread \ {t} : WB(u)' = WB(u)
  BY <1>2, <1>5 DEF WB, Nowhere
<1>7. stallAndResume(t, "barrier", {}) /\ reason'[t] = "barrier"
  BY DEF BarrierArrive, stallThread, stallAndResume, PlaceInv, HostInv, ThreadTypeOK
<1>8. /\ Queues'
      /\ \A u : /\ WM(u)' = WM(u) /\ WC(u)' = WC(u) /\ WF(u)' = WF(u)
                /\ (WS(u)' <=> WS(u)) /\ Joining(u)' = Joining(u)
  BY <1>5, <1>7, SameQueues DEF PlaceInv, Queues, BarrierArrive, futexVars, stallAndResume
<1>9. InOne(t)'
  BY <1>2, <1>6, <1>7, <1>8 DEF InOne, Nowhere
<1>10. "barrier" \in Reason \ {"none", "syscall"}
  BY DEF Reason
<1> QED
  BY <1>6, <1>7, <1>8, <1>9, <1>10, StallPlaces

LEMMA BarrierCompletePlaces ==
  ASSUME PlaceInv, HostInv', NEW t \in Thread, NEW b \in Barrier, BarrierComplete(t, b),
         UNCHANGED futexVars
  PROVE  PlaceInv'
<1> DEFINE W == ThreadsIn(barrier_waiting[b])
<1>1. /\ barrier_waiting' = [barrier_waiting EXCEPT ![b] = <<>>] /\ resumeThreads(W)
      /\ UNCHANGED <<mutex_waiting, cond_waiting, waiter>>
  BY DEF BarrierComplete, resumeThreads
<1>2. barrier_waiting[b] \in Seq(Thread)
  BY DEF PlaceInv, Queues, BarrierQ
<1>3. W \subseteq Thread
  BY <1>2, LenProperties, ElementOfSeq DEF ThreadsIn
<1>4. <<>> \in Seq(Thread) /\ Once(<<>>) /\ ThreadsIn(<<>>) = {}
  BY DEF Once, ThreadsIn
<1>5. BarrierQ' /\ \A u : WB(u)' = WB(u) \ {b}
  BY <1>1, <1>4, BarrierUpdate DEF PlaceInv, Queues
<1>6. \A u \in Thread : u \in W <=> b \in WB(u)
  BY DEF WB
<1>7. /\ Queues'
      /\ \A u : /\ WM(u)' = WM(u) /\ WC(u)' = WC(u) /\ WF(u)' = WF(u)
                /\ (WS(u)' <=> WS(u)) /\ Joining(u)' = Joining(u)
  BY <1>1, <1>5, SameQueues DEF PlaceInv, Queues, futexVars
<1> HIDE DEF W
<1>8. \A u \in W : ~Nowhere(u) /\ Nowhere(u)'
  <2> SUFFICES ASSUME NEW u \in W PROVE ~Nowhere(u) /\ Nowhere(u)'
    OBVIOUS
  <2>1. u \in Thread /\ b \in WB(u)
    BY <1>3, <1>6
  <2>2. /\ WM(u) = {} /\ WC(u) = {} /\ WB(u) = {b} /\ WF(u) = {} /\ ~WS(u) /\ Joining(u) = {}
    BY <2>1, OnlyHere
  <2> QED
    BY <1>5, <1>7, <2>2 DEF Nowhere
<1>9. \A u \in Thread \ W : WB(u)' = WB(u)
  BY <1>5, <1>6
<1> QED
  BY <1>1, <1>3, <1>7, <1>8, <1>9, WakePlaces


-----------------------------------------------------------------------------
(* SyscallServer                                                           *)

LEMMA SleepCallPlaces ==
  ASSUME PlaceInv, HostInv', NEW t \in Thread, NEW d \in Int, SleepCall(t, d),
         UNCHANGED syncVars
  PROVE  PlaceInv'
<1> DEFINE e == Entry(t, d)
<1>1. /\ sleeping \in Seq(FutexEntry) /\ OnceE(sleeping)
      /\ sleeping' = Append(sleeping, e) /\ e \in FutexEntry /\ e.thread = t
  BY DEF PlaceInv, Queues, SleepQ, SleepCall, Entry, FutexEntry
<1>2. Nowhere(t)
  BY CallerNowhere DEF SleepCall, Calls
<1>3. t \notin Sleepers(sleeping)
  BY <1>2 DEF Nowhere, WS
<1> HIDE DEF e
<1>4. /\ sleeping' \in Seq(FutexEntry) /\ OnceE(sleeping')
      /\ Sleepers(sleeping') = Sleepers(sleeping) \cup {t}
  BY <1>1, <1>3, AppendEntry
<1>5. SleepQ' /\ WS(t)' /\ \A u \in Thread \ {t} : WS(u)' <=> WS(u)
  BY <1>4 DEF SleepQ, WS
<1>6. stallAndResume(t, "sleep", {}) /\ reason'[t] = "sleep" /\ UNCHANGED futex_waiting
  BY DEF SleepCall, stallThread, stallAndResume, PlaceInv, HostInv, ThreadTypeOK
<1>7. /\ Queues'
      /\ \A u : /\ WM(u)' = WM(u) /\ WC(u)' = WC(u) /\ WB(u)' = WB(u) /\ WF(u)' = WF(u)
                /\ Joining(u)' = Joining(u)
  BY <1>5, <1>6, SameQueues DEF PlaceInv, Queues, syncVars, stallAndResume
<1>8. InOne(t)'
  BY <1>2, <1>5, <1>6, <1>7 DEF InOne, Nowhere
<1>9. "sleep" \in Reason \ {"none", "syscall"}
  BY DEF Reason
<1> QED
  BY <1>5, <1>6, <1>7, <1>8, <1>9, StallPlaces

LEMMA FutexWaitPlaces ==
  ASSUME PlaceInv, HostInv', NEW t \in Thread, NEW a \in Addr, NEW d \in Int,
         FutexWait(t, a, d), UNCHANGED syncVars
  PROVE  PlaceInv'
<1> DEFINE e == Entry(t, d)
           q == futex_waiting[a]
<1>1. /\ q \in Seq(FutexEntry) /\ OnceE(q)
      /\ futex_waiting' = [futex_waiting EXCEPT ![a] = Append(q, e)]
      /\ e \in FutexEntry /\ e.thread = t
  BY DEF PlaceInv, Queues, FutexQ, FutexWait, Entry, FutexEntry
<1>2. Nowhere(t)
  BY CallerNowhere DEF FutexWait, Calls
<1>3. t \notin Sleepers(q)
  BY <1>2 DEF Nowhere, WF
<1> HIDE DEF e
<1>4. /\ Append(q, e) \in Seq(FutexEntry) /\ OnceE(Append(q, e))
      /\ Sleepers(Append(q, e)) = Sleepers(q) \cup {t}
  BY <1>1, <1>3, AppendEntry
<1>5. FutexQ' /\ \A u : WF(u)' = IF u \in Sleepers(q) \cup {t} THEN WF(u) \cup {a}
                                 ELSE WF(u) \ {a}
  BY <1>1, <1>4, FutexUpdate DEF PlaceInv, Queues
<1>6. WF(t)' = {a} /\ \A u \in Thread \ {t} : WF(u)' = WF(u)
  BY <1>2, <1>5 DEF WF, Nowhere
<1>7. stallAndResume(t, "futex", {}) /\ reason'[t] = "futex" /\ UNCHANGED sleeping
  BY DEF FutexWait, stallThread, stallAndResume, PlaceInv, HostInv, ThreadTypeOK
<1>8. /\ Queues'
      /\ \A u : /\ WM(u)' = WM(u) /\ WC(u)' = WC(u) /\ WB(u)' = WB(u)
                /\ (WS(u)' <=> WS(u)) /\ Joining(u)' = Joining(u)
  BY <1>5, <1>7, SameQueues DEF PlaceInv, Queues, syncVars, stallAndResume
<1>9. InOne(t)'
  BY <1>2, <1>6, <1>7, <1>8 DEF InOne, Nowhere
<1>10. "futex" \in Reason \ {"none", "syscall"}
  BY DEF Reason
<1> QED
  BY <1>6, <1>7, <1>8, <1>9, <1>10, StallPlaces

\* Who stands in the queue of one futex does not stand in that of another.
LEMMA FutexApart ==
  ASSUME PlaceInv, NEW a \in Addr, NEW b \in Addr, a # b
  PROVE  /\ Sleepers(futex_waiting[a]) \cap Sleepers(futex_waiting[b]) = {}
         /\ Sleepers(futex_waiting[a]) \subseteq Thread
<1>1. Sleepers(futex_waiting[a]) \subseteq Thread
  <2>1. futex_waiting[a] \in Seq(FutexEntry)
    BY DEF PlaceInv, Queues, FutexQ
  <2>2. \A i \in DOMAIN futex_waiting[a] : futex_waiting[a][i] \in FutexEntry
    BY <2>1, LenProperties, ElementOfSeq
  <2> QED
    BY <2>2 DEF Sleepers, FutexEntry
<1>2. ASSUME NEW u \in Sleepers(futex_waiting[a]), u \in Sleepers(futex_waiting[b])
      PROVE  FALSE
  <2>1. u \in Thread /\ a \in WF(u) /\ b \in WF(u)
    BY <1>1, <1>2 DEF WF
  <2> QED
    BY <2>1, OnlyHere
<1> QED
  BY <1>1, <1>2

\* The threads of W leave the futexes they wait at.
LEMMA FutexTake ==
  ASSUME PlaceInv, NEW W, W \subseteq UNION {Sleepers(futex_waiting[a]) : a \in Addr},
         DOMAIN futex_waiting' = Addr, futex_waiting' = [a \in Addr |-> futex_waiting'[a]],
         \A a \in Addr : /\ futex_waiting'[a] \in Seq(FutexEntry) /\ OnceE(futex_waiting'[a])
                         /\ Sleepers(futex_waiting'[a]) = Sleepers(futex_waiting[a]) \ W
  PROVE  /\ FutexQ' /\ W \subseteq Thread
         /\ \A u \in W : WF(u) # {} /\ WF(u)' = {}
         /\ \A u \in Thread \ W : WF(u)' = WF(u)
<1>1. FutexQ'
  BY DEF FutexQ
<1>2. \A a \in Addr : Sleepers(futex_waiting[a]) \subseteq Thread
  <2> SUFFICES ASSUME NEW a \in Addr PROVE Sleepers(futex_waiting[a]) \subseteq Thread
    OBVIOUS
  <2>1. futex_waiting[a] \in Seq(FutexEntry)
    BY DEF PlaceInv, Queues, FutexQ
  <2>2. \A i \in DOMAIN futex_waiting[a] : futex_waiting[a][i] \in FutexEntry
    BY <2>1, LenProperties, ElementOfSeq
  <2> QED
    BY <2>2 DEF Sleepers, FutexEntry
<1>3. \A u \in W : \E a \in Addr : u \in Sleepers(futex_waiting[a])
  OBVIOUS
<1>4. W \subseteq Thread /\ \A u \in W : WF(u) # {}
  BY <1>2, <1>3 DEF WF
<1>5. \A u \in W : WF(u)' = {}
  BY DEF WF
<1>6. \A u \in Thread \ W : WF(u)' = WF(u)
  BY DEF WF
<1> QED
  BY <1>1, <1>4, <1>5, <1>6

\* A call that wakes futex waiters.
LEMMA FutexWakePlaces ==
  ASSUME PlaceInv, HostInv', UNCHANGED <<syncVars, sleeping>>, NEW W, resumeThreads(W),
         W \subseteq UNION {Sleepers(futex_waiting[a]) : a \in Addr},
         futex_waiting' = [a \in Addr |-> futex_waiting'[a]],
         \A a \in Addr : /\ futex_waiting'[a] \in Seq(FutexEntry) /\ OnceE(futex_waiting'[a])
                         /\ Sleepers(futex_waiting'[a]) = Sleepers(futex_waiting[a]) \ W
  PROVE  PlaceInv'
<1>1. DOMAIN futex_waiting' = Addr
  OBVIOUS
<1>2. /\ FutexQ' /\ W \subseteq Thread
      /\ \A u \in W : WF(u) # {} /\ WF(u)' = {}
      /\ \A u \in Thread \ W : WF(u)' = WF(u)
  BY <1>1, FutexTake
<1>3. /\ Queues'
      /\ \A u : /\ WM(u)' = WM(u) /\ WC(u)' = WC(u) /\ WB(u)' = WB(u)
                /\ (WS(u)' <=> WS(u)) /\ Joining(u)' = Joining(u)
  BY <1>2, SameQueues DEF PlaceInv, Queues, syncVars, resumeThreads
<1>4. \A u \in W : ~Nowhere(u) /\ Nowhere(u)'
  BY <1>2, <1>3, OnlyHere DEF Nowhere
<1> QED
  BY <1>2, <1>3, <1>4, WakePlaces

LEMMA FutexWakeOnePlaces ==
  ASSUME PlaceInv, HostInv', NEW t \in Thread, NEW a \in Addr, NEW n \in Nat,
         FutexWake(t, a, n), UNCHANGED syncVars
  PROVE  PlaceInv'
<1> DEFINE q == futex_waiting[a]
           W == Sleepers(First(q, n))
<1>1. /\ futex_waiting \in [Addr -> Seq(FutexEntry)] /\ \A x \in Addr : OnceE(futex_waiting[x])
      /\ futex_waiting' = [futex_waiting EXCEPT ![a] = After(q, n)]
      /\ resumeThreads(W) /\ UNCHANGED sleeping
  BY DEF PlaceInv, Queues, FutexQ, FutexWake
<1>2. /\ After(q, n) \in Seq(FutexEntry) /\ OnceE(After(q, n))
      /\ W \cup Sleepers(After(q, n)) = Sleepers(q) /\ W \cap Sleepers(After(q, n)) = {}
  BY <1>1, SplitQueue
<1> HIDE DEF W
<1>3. \A x \in Addr \ {a} : Sleepers(futex_waiting[x]) = Sleepers(futex_waiting[x]) \ W
  BY <1>2, FutexApart
<1>4. \A x \in Addr : /\ futex_waiting'[x] \in Seq(FutexEntry) /\ OnceE(futex_waiting'[x])
                      /\ Sleepers(futex_waiting'[x]) = Sleepers(futex_waiting[x]) \ W
  BY <1>1, <1>2, <1>3
<1>5. futex_waiting' = [x \in Addr |-> futex_waiting'[x]]
  BY <1>1
<1>6. W \subseteq UNION {Sleepers(futex_waiting[x]) : x \in Addr}
  BY <1>2
<1> QED
  BY <1>1, <1>4, <1>5, <1>6, FutexWakePlaces


LEMMA FutexWakeOpPlaces ==
  ASSUME PlaceInv, HostInv', NEW t \in Thread, NEW a \in Addr, NEW b \in Addr,
         NEW n \in Nat, NEW n2 \in Nat, NEW passed \in BOOLEAN,
         FutexWakeOp(t, a, b, n, n2, passed), UNCHANGED syncVars
  PROVE  PlaceInv'
<1> DEFINE k     == IF passed THEN n2 ELSE 0
           left  == [futex_waiting EXCEPT ![a] = After(futex_waiting[a], n)]
           taken == First(left[b], k)
           W1    == Sleepers(First(futex_waiting[a], n))
           W2    == Sleepers(taken)
<1>1. /\ futex_waiting \in [Addr -> Seq(FutexEntry)] /\ \A x \in Addr : OnceE(futex_waiting[x])
      /\ futex_waiting' = [left EXCEPT ![b] = After(left[b], Len(taken))]
      /\ resumeThreads(W1 \cup W2) /\ UNCHANGED sleeping
  BY DEF PlaceInv, Queues, FutexQ, FutexWakeOp
<1>2. /\ After(futex_waiting[a], n) \in Seq(FutexEntry) /\ OnceE(After(futex_waiting[a], n))
      /\ W1 \cup Sleepers(After(futex_waiting[a], n)) = Sleepers(futex_waiting[a])
      /\ W1 \cap Sleepers(After(futex_waiting[a], n)) = {}
  BY <1>1, SplitQueue
<1>3. /\ left \in [Addr -> Seq(FutexEntry)] /\ \A x \in Addr : OnceE(left[x])
      /\ \A x \in Addr \ {a} : left[x] = futex_waiting[x]
      /\ left[a] = After(futex_waiting[a], n)
  BY <1>1, <1>2
<1>4. k \in Nat
  OBVIOUS
<1> HIDE DEF k, left, W1
<1>5. Len(left[b]) \in Nat /\ left[b] \in Seq(FutexEntry) /\ OnceE(left[b])
  BY <1>3, LenProperties
<1>6. /\ Len(taken) \in Nat /\ First(left[b], Len(taken)) = taken
  <2> DEFINE l == IF k < Len(left[b]) THEN k ELSE Len(left[b])
  <2>1. l \in 0..Len(left[b]) /\ 1 \in Nat \ {0}
    BY <1>4, <1>5
  <2>2. taken = SubSeq(left[b], 1, l)
    BY DEF First
  <2>3. Len(taken) = IF 1 <= l THEN l - 1 + 1 ELSE 0
    BY <1>5, <2>1, <2>2, PartOfQueue
  <2>4. Len(taken) = l
    BY <2>1, <2>3
  <2>5. First(left[b], l) = SubSeq(left[b], 1, l)
    BY <1>5, <2>1 DEF First
  <2> QED
    BY <2>1, <2>2, <2>4, <2>5
<1>7. /\ After(left[b], Len(taken)) \in Seq(FutexEntry) /\ OnceE(After(left[b], Len(taken)))
      /\ W2 \cup Sleepers(After(left[b], Len(taken))) = Sleepers(left[b])
      /\ W2 \cap Sleepers(After(left[b], Len(taken))) = {}
  BY <1>5, <1>6, SplitQueue
<1> HIDE DEF taken, W2
<1>8. \A x, y \in Addr : x # y => Sleepers(futex_waiting[x]) \cap Sleepers(futex_waiting[y]) = {}
  BY FutexApart
<1>9. \A x \in Addr : Sleepers(left[x]) = Sleepers(futex_waiting[x]) \ W1
  BY <1>2, <1>3, <1>8
<1>10. \A x \in Addr : /\ futex_waiting'[x] \in Seq(FutexEntry) /\ OnceE(futex_waiting'[x])
                       /\ Sleepers(futex_waiting'[x]) = Sleepers(left[x]) \ W2
  <2>1. /\ futex_waiting'[b] = After(left[b], Len(taken))
        /\ \A x \in Addr \ {b} : futex_waiting'[x] = left[x]
    BY <1>1, <1>3
  <2>2. \A x \in Addr \ {b} : Sleepers(left[x]) \cap W2 = {}
    <3>1. W2 \subseteq Sleepers(futex_waiting[b])
      BY <1>7, <1>9
    <3> QED
      BY <1>8, <1>9, <3>1
  <2>3. Sleepers(After(left[b], Len(taken))) = Sleepers(left[b]) \ W2
    BY <1>7
  <2> QED
    BY <1>3, <1>7, <2>1, <2>2, <2>3
<1>11. \A x \in Addr : /\ futex_waiting'[x] \in Seq(FutexEntry) /\ OnceE(futex_waiting'[x])
                       /\ Sleepers(futex_waiting'[x]) = Sleepers(futex_waiting[x]) \ (W1 \cup W2)
  BY <1>9, <1>10
<1>12. futex_waiting' = [x \in Addr |-> futex_waiting'[x]]
  BY <1>1, <1>3
<1>13. W1 \cup W2 \subseteq UNION {Sleepers(futex_waiting[x]) : x \in Addr}
  BY <1>2, <1>7, <1>9
<1> QED
  BY <1>1, <1>11, <1>12, <1>13, FutexWakePlaces

\* Requeued waiters stay stalled and stand at the second futex only.
LEMMA FutexCmpRequeuePlaces ==
  ASSUME PlaceInv, HostInv', NEW t \in Thread, NEW a \in Addr, NEW b \in Addr, NEW n \in Nat,
         FutexCmpRequeue(t, a, n, b), UNCHANGED syncVars
  PROVE  PlaceInv'
<1> DEFINE q == futex_waiting[a]
           r == futex_waiting[b]
           W == Sleepers(First(q, n))
           V == Sleepers(After(q, n))
<1>1. /\ futex_waiting \in [Addr -> Seq(FutexEntry)] /\ \A x \in Addr : OnceE(futex_waiting[x])
      /\ futex_waiting' = [futex_waiting EXCEPT ![a] = <<>>, ![b] = r \o After(q, n)]
      /\ a # b /\ resumeThreads(W) /\ UNCHANGED sleeping
  BY DEF PlaceInv, Queues, FutexQ, FutexCmpRequeue
<1>2. /\ After(q, n) \in Seq(FutexEntry) /\ OnceE(After(q, n))
      /\ W \cup V = Sleepers(q) /\ W \cap V = {}
  BY <1>1, SplitQueue
<1>3. Sleepers(q) \cap Sleepers(r) = {} /\ Sleepers(q) \subseteq Thread
  BY <1>1, FutexApart
<1>4. /\ r \o After(q, n) \in Seq(FutexEntry) /\ OnceE(r \o After(q, n))
      /\ Sleepers(r \o After(q, n)) = Sleepers(r) \cup V
  BY <1>1, <1>2, <1>3, ConcatEntries
<1>5. <<>> \in Seq(FutexEntry) /\ OnceE(<<>>) /\ Sleepers(<<>>) = {}
  BY DEF OnceE, Sleepers
<1>6. /\ futex_waiting'[a] = <<>> /\ futex_waiting'[b] = r \o After(q, n)
      /\ \A x \in Addr \ {a, b} : futex_waiting'[x] = futex_waiting[x]
      /\ futex_waiting' = [x \in Addr |-> futex_waiting'[x]]
  BY <1>1
<1>7. FutexQ'
  BY <1>1, <1>4, <1>5, <1>6 DEF FutexQ
<1>8. /\ Queues'
      /\ \A u : /\ WM(u)' = WM(u) /\ WC(u)' = WC(u) /\ WB(u)' = WB(u)
                /\ (WS(u)' <=> WS(u)) /\ Joining(u)' = Joining(u)
  BY <1>1, <1>7, SameQueues DEF PlaceInv, Queues, syncVars, resumeThreads
<1>9. \A u \in Sleepers(q) :
        /\ WF(u) = {a} /\ WM(u) = {} /\ WC(u) = {} /\ WB(u) = {} /\ ~WS(u) /\ Joining(u) = {}
        /\ reason[u] = "futex"
  <2>1. \A u \in Sleepers(q) : u \in Thread /\ a \in WF(u)
    BY <1>3 DEF WF
  <2> QED
    BY <2>1, OnlyHere
<1> HIDE DEF W, V
<1>10. \A u : /\ u \notin Sleepers(futex_waiting'[a])
              /\ u \in Sleepers(futex_waiting'[b]) <=> u \in Sleepers(r) \/ u \in V
  BY <1>4, <1>5, <1>6
<1>11. \A u \in W : WF(u)' = {}
  <2> SUFFICES ASSUME NEW u \in W, NEW x \in Addr, u \in Sleepers(futex_waiting'[x])
               PROVE  FALSE
    BY DEF WF
  <2>1. \A y \in Addr \ {a} : u \notin Sleepers(futex_waiting[y])
    BY <1>2, <1>9 DEF WF
  <2> QED
    BY <1>1, <1>2, <1>6, <1>10, <2>1
<1>12. \A u \in V : WF(u)' = {b}
  <2> SUFFICES ASSUME NEW u \in V PROVE WF(u)' = {b}
    OBVIOUS
  <2>1. \A y \in Addr \ {a} : u \notin Sleepers(futex_waiting[y])
    BY <1>2, <1>9 DEF WF
  <2>2. \A y \in Addr : u \in Sleepers(futex_waiting'[y]) <=> y = b
    BY <1>1, <1>6, <1>10, <2>1
  <2> QED
    BY <2>2 DEF WF
<1>13. \A u \in Thread \ (W \cup V) : WF(u)' = WF(u)
  <2> SUFFICES ASSUME NEW u \in Thread, u \notin Sleepers(q), u \notin V, NEW y \in Addr
               PROVE  u \in Sleepers(futex_waiting'[y]) <=> u \in Sleepers(futex_waiting[y])
    BY <1>2 DEF WF
  <2> QED
    BY <1>1, <1>6, <1>10
<1>14. \A u \in V : reason'[u] = "futex"
  BY <1>1, <1>2, <1>9 DEF resumeThreads
<1>15. \A u \in W : ~Nowhere(u) /\ Nowhere(u)'
  BY <1>2, <1>8, <1>9, <1>11 DEF Nowhere
<1>16. \A u \in V : ~Nowhere(u) /\ InOne(u)'
  BY <1>2, <1>8, <1>9, <1>12, <1>14 DEF Nowhere, InOne
<1>17. W \subseteq Thread /\ V \subseteq Thread \ W
  BY <1>2, <1>3
<1> QED
  BY <1>1, <1>8, <1>13, <1>15, <1>16, <1>17, MovePlaces

\* onThreadExit: the joiner and the waiters of the clear-tid futex are resumed.
LEMMA ExitPlaces ==
  ASSUME PlaceInv, HostInv', NEW t \in Thread, host[t] = "app", NEW W, exitThread(t, W),
         UNCHANGED <<syncVars, sleeping>>,
         FutexQ', W \subseteq Thread,
         \A u \in W : WF(u) # {} /\ WF(u)' = {},
         \A u \in Thread \ W : WF(u)' = WF(u)
  PROVE  PlaceInv'
<1> DEFINE J == {waiter[t]} \ {NoThread}
           all == W \cup J
<1>1. Nowhere(t) /\ status[t] = "RUNNING"
  BY CallerNowhere
<1>2. waiter \in [Thread -> Thread \cup {NoThread}] /\ status \in [Thread -> Status]
  BY DEF PlaceInv, HostInv, ThreadTypeOK
<1>3. J \subseteq Thread /\ \A u \in J : t \in Joining(u)
  BY <1>2 DEF Joining
<1>4. all \subseteq Thread /\ \A u \in all : ~Nowhere(u)
  BY <1>3 DEF Nowhere
<1>5. t \notin all
  BY <1>1, <1>4
<1>6. /\ status'[t] = "IDLE" /\ host'[t] = "gone"
      /\ \A u \in all : status'[u] = "RUNNING"
      /\ \A u \in Thread \ (all \cup {t}) : status'[u] = status[u]
      /\ \A u \in Thread : reason'[u] = reason[u]
      /\ \A u \in Thread : u # t /\ host'[u] # host[u] => host'[u] = "app"
      /\ waiter' = [waiter EXCEPT ![t] = NoThread]
  <2>1. /\ status' = [x \in Thread |->
                        CASE x = t -> "IDLE" [] x \in all -> "RUNNING" [] OTHER -> status[x]]
        /\ host' = [x \in Thread |->
                      CASE x = t -> "gone"
                        [] x \in all /\ host[x] = "wait" -> "app"
                        [] OTHER -> host[x]]
        /\ waiter' = [waiter EXCEPT ![t] = NoThread] /\ UNCHANGED reason
    BY DEF exitThread
  <2> HIDE DEF all
  <2> QED
    BY <1>4, <1>5, <2>1
<1>7. \A u \in Thread : Joining(u)' = Joining(u) \ {t}
  BY <1>2, <1>6, ThreadAssumption DEF Joining
<1>8. /\ Queues'
      /\ \A u : /\ WM(u)' = WM(u) /\ WC(u)' = WC(u) /\ WB(u)' = WB(u) /\ (WS(u)' <=> WS(u))
  BY SameQueues DEF PlaceInv, Queues, syncVars
<1>9. \A u \in Thread \ J : t \notin Joining(u)
  BY <1>2, ThreadAssumption DEF Joining
<1> HIDE DEF J
<1>10. \A u \in W : Nowhere(u)'
  <2>1. \A u \in W : /\ WM(u) = {} /\ WC(u) = {} /\ WB(u) = {} /\ ~WS(u) /\ Joining(u) = {}
    BY OnlyHere
  <2> QED
    BY <1>7, <1>8, <2>1 DEF Nowhere
<1>11. \A u \in J : Nowhere(u)'
  <2>1. \A u \in J : /\ WM(u) = {} /\ WC(u) = {} /\ WB(u) = {} /\ WF(u) = {} /\ ~WS(u)
                     /\ Joining(u) = {t}
    BY <1>3, OnlyHere
  <2>2. \A u \in J : WF(u)' = {}
    BY <1>3, <2>1
  <2> QED
    BY <1>3, <1>7, <1>8, <2>1, <2>2 DEF Nowhere
<1>12. \A u \in all : Standing(u)'
  BY <1>6, <1>10, <1>11 DEF Standing
<1>13. Standing(t)'
  <2>1. Nowhere(t)'
    BY <1>1, <1>5, <1>7, <1>8 DEF Nowhere
  <2> QED
    BY <1>6, <2>1 DEF Standing
<1>14. \A u \in Thread \ (all \cup {t}) : Standing(u)'
  <2> SUFFICES ASSUME NEW u \in Thread \ (all \cup {t}) PROVE Standing(u)'
    OBVIOUS
  <2>0. u \in Thread \ J /\ u \in Thread \ W /\ u \in Thread
    OBVIOUS
  <2>1. Joining(u)' = Joining(u) /\ WF(u)' = WF(u)
    <3>1. Joining(u)' = Joining(u) \ {t}
      BY <1>7, <2>0
    <3>2. t \notin Joining(u)
      BY <1>9, <2>0
    <3>3. WF(u)' = WF(u)
      BY <2>0
    <3> QED
      BY <3>1, <3>2, <3>3
  <2>2. status'[u] = status[u] /\ reason'[u] = reason[u]
    BY <1>6
  <2>3. Standing(u)
    BY DEF PlaceInv
  <2> QED
    BY <1>8, <2>1, <2>2, <2>3, Untouched
<1>15. TableInv'
  <2>1. \A u \in all : status[u] = "STALLED" /\ reason[u] # "syscall"
    BY <1>4, OnlyHere
  <2> QED
    BY <1>4, <1>6, <2>1 DEF PlaceInv, TableInv
<1> QED
  BY <1>8, <1>12, <1>13, <1>14, <1>15 DEF PlaceInv


LEMMA ThreadExitPlaces ==
  ASSUME PlaceInv, HostInv', NEW t \in Thread, UNCHANGED syncVars,
         ThreadExit(t) \/ \E a \in Addr : ThreadExitClearTid(t, a)
  PROVE  PlaceInv'
<1>1. CASE ThreadExit(t)
  <2>1. /\ host[t] = "app" /\ exitThread(t, {}) /\ UNCHANGED <<sleeping, futex_waiting>>
    BY <1>1 DEF ThreadExit, Calls, futexVars
  <2>2. FutexQ' /\ \A u : WF(u)' = WF(u)
    BY <2>1, SameQueues DEF PlaceInv, Queues
  <2> QED
    BY <2>1, <2>2, ExitPlaces
<1>2. ASSUME NEW a \in Addr, ThreadExitClearTid(t, a)
      PROVE  PlaceInv'
  <2> DEFINE q == futex_waiting[a]
             W == Sleepers(First(q, 1))
  <2>1. /\ futex_waiting \in [Addr -> Seq(FutexEntry)]
        /\ \A x \in Addr : OnceE(futex_waiting[x])
        /\ futex_waiting' = [futex_waiting EXCEPT ![a] = After(q, 1)]
        /\ host[t] = "app" /\ exitThread(t, W) /\ UNCHANGED sleeping
    BY <1>2 DEF PlaceInv, Queues, FutexQ, ThreadExitClearTid, Calls
  <2>2. /\ After(q, 1) \in Seq(FutexEntry) /\ OnceE(After(q, 1))
        /\ W \cup Sleepers(After(q, 1)) = Sleepers(q) /\ W \cap Sleepers(After(q, 1)) = {}
    BY <2>1, SplitQueue
  <2> HIDE DEF W
  <2>3. \A x \in Addr \ {a} : Sleepers(futex_waiting[x]) = Sleepers(futex_waiting[x]) \ W
    BY <2>2, FutexApart
  <2>4. \A x \in Addr : /\ futex_waiting'[x] \in Seq(FutexEntry) /\ OnceE(futex_waiting'[x])
                        /\ Sleepers(futex_waiting'[x]) = Sleepers(futex_waiting[x]) \ W
    BY <2>1, <2>2, <2>3
  <2>5. futex_waiting' = [x \in Addr |-> futex_waiting'[x]] /\ DOMAIN futex_waiting' = Addr
    BY <2>1
  <2>6. W \subseteq UNION {Sleepers(futex_waiting[x]) : x \in Addr}
    BY <2>2
  <2>7. /\ FutexQ' /\ W \subseteq Thread
        /\ \A u \in W : WF(u) # {} /\ WF(u)' = {}
        /\ \A u \in Thread \ W : WF(u)' = WF(u)
    BY <2>4, <2>5, <2>6, FutexTake
  <2> QED
    BY <2>1, <2>7, ExitPlaces
<1> QED
  BY <1>1, <1>2

\* futexPeriodic: whoever leaves a queue is resumed, and nobody else.
LEMMA PeriodPlaces ==
  ASSUME PlaceInv, HostInv', Period
  PROVE  PlaceInv'
<1> DEFINE S == Sleepers(sleeping) \ Sleepers(WakeOne(Tick(sleeping)))
           F(a) == Sleepers(futex_waiting[a]) \ Sleepers(WakeOne(Tick(futex_waiting[a])))
           W == UNION {F(a) : a \in Addr}
<1>1. /\ sleeping' = WakeOne(Tick(sleeping)) /\ UNCHANGED syncVars
      /\ futex_waiting' = [a \in Addr |-> WakeOne(Tick(futex_waiting[a]))]
      /\ resumeThreads(S \cup W) /\ UNCHANGED waiter
  BY DEF Period, Periodic, resumeThreads
<1>2. /\ SleepQ' /\ Sleepers(sleeping') \subseteq Sleepers(sleeping)
  <2>1. sleeping \in Seq(FutexEntry) /\ OnceE(sleeping)
    BY DEF PlaceInv, Queues, SleepQ
  <2>2. /\ Tick(sleeping) \in Seq(FutexEntry) /\ OnceE(Tick(sleeping))
        /\ Sleepers(Tick(sleeping)) = Sleepers(sleeping)
    BY <2>1, TickQueue
  <2>3. /\ WakeOne(Tick(sleeping)) \in Seq(FutexEntry) /\ OnceE(WakeOne(Tick(sleeping)))
        /\ Sleepers(WakeOne(Tick(sleeping))) \subseteq Sleepers(Tick(sleeping))
    BY <2>2, WakeOneQueue
  <2> QED
    BY <1>1, <2>2, <2>3 DEF SleepQ
<1>3. \A a \in Addr : /\ futex_waiting'[a] \in Seq(FutexEntry) /\ OnceE(futex_waiting'[a])
                      /\ Sleepers(futex_waiting'[a]) \subseteq Sleepers(futex_waiting[a])
                      /\ F(a) = Sleepers(futex_waiting[a]) \ Sleepers(futex_waiting'[a])
  <2> TAKE a \in Addr
  <2> DEFINE q == futex_waiting[a]
  <2>1. q \in Seq(FutexEntry) /\ OnceE(q)
    BY DEF PlaceInv, Queues, FutexQ
  <2>2. Tick(q) \in Seq(FutexEntry) /\ OnceE(Tick(q)) /\ Sleepers(Tick(q)) = Sleepers(q)
    BY <2>1, TickQueue
  <2>3. /\ WakeOne(Tick(q)) \in Seq(FutexEntry) /\ OnceE(WakeOne(Tick(q)))
        /\ Sleepers(WakeOne(Tick(q))) \subseteq Sleepers(Tick(q))
    BY <2>2, WakeOneQueue
  <2>4. futex_waiting'[a] = WakeOne(Tick(q))
    BY <1>1
  <2> QED
    BY <2>2, <2>3, <2>4
<1>4. /\ Sleepers(sleeping) \subseteq Thread
      /\ S = Sleepers(sleeping) \ Sleepers(sleeping')
  <2>1. \A i \in DOMAIN sleeping : sleeping[i] \in FutexEntry
    BY LenProperties, ElementOfSeq DEF PlaceInv, Queues, SleepQ
  <2> QED
    BY <1>1, <2>1 DEF Sleepers, FutexEntry
<1> HIDE DEF S, F
<1>5. \A a \in Addr : Sleepers(futex_waiting'[a]) = Sleepers(futex_waiting[a]) \ W
  <2> SUFFICES ASSUME NEW a \in Addr, NEW u
               PROVE  u \in Sleepers(futex_waiting'[a]) <=>
                        u \in Sleepers(futex_waiting[a]) /\ \A b \in Addr : u \notin F(b)
    OBVIOUS
  <2>1. \A b \in Addr \ {a} : ~(u \in Sleepers(futex_waiting[a]) /\ u \in Sleepers(futex_waiting[b]))
    BY FutexApart
  <2> QED
    BY <1>3, <2>1
<1>6. W \subseteq UNION {Sleepers(futex_waiting[a]) : a \in Addr}
  BY <1>3
<1> HIDE DEF W
<1>7. futex_waiting' = [a \in Addr |-> futex_waiting'[a]] /\ DOMAIN futex_waiting' = Addr
  BY <1>1
<1>8. /\ FutexQ' /\ W \subseteq Thread
      /\ \A u \in W : WF(u) # {} /\ WF(u)' = {}
      /\ \A u \in Thread \ W : WF(u)' = WF(u)
  BY <1>3, <1>5, <1>6, <1>7, FutexTake
<1>9. /\ Queues'
      /\ \A u : /\ WM(u)' = WM(u) /\ WC(u)' = WC(u) /\ WB(u)' = WB(u)
                /\ Joining(u)' = Joining(u)
  BY <1>1, <1>2, <1>8, SameQueues DEF PlaceInv, Queues, syncVars
<1>10. /\ \A u \in S : WS(u) /\ ~WS(u)'
       /\ \A u \in Thread \ S : WS(u)' <=> WS(u)
  BY <1>2, <1>4 DEF WS
<1>11. \A u \in S : ~Nowhere(u) /\ Nowhere(u)'
  <2> SUFFICES ASSUME NEW u \in S PROVE ~Nowhere(u) /\ Nowhere(u)'
    OBVIOUS
  <2>1. u \in Thread /\ WS(u) /\ ~WS(u)'
    BY <1>4, <1>10
  <2>2. WM(u) = {} /\ WC(u) = {} /\ WB(u) = {} /\ WF(u) = {} /\ Joining(u) = {}
    BY <2>1, OnlyHere
  <2>3. WF(u)' = {}
    BY <1>8, <2>1, <2>2
  <2> QED
    BY <1>9, <2>1, <2>2, <2>3 DEF Nowhere
<1>12. \A u \in W : ~Nowhere(u) /\ Nowhere(u)'
  <2> SUFFICES ASSUME NEW u \in W PROVE ~Nowhere(u) /\ Nowhere(u)'
    OBVIOUS
  <2>1. u \in Thread /\ WF(u) # {} /\ WF(u)' = {}
    BY <1>8
  <2>2. WM(u) = {} /\ WC(u) = {} /\ WB(u) = {} /\ ~WS(u) /\ Joining(u) = {}
    BY <2>1, OnlyHere
  <2>3. ~WS(u)'
    BY <1>10, <2>1, <2>2
  <2> QED
    BY <1>9, <2>1, <2>2, <2>3 DEF Nowhere
<1>13. S \cup W \subseteq Thread
  BY <1>4, <1>8
<1>14. \A u \in Thread \ (S \cup W) : WF(u)' = WF(u) /\ (WS(u)' <=> WS(u))
  BY <1>8, <1>10
<1> QED
  BY <1>1, <1>9, <1>11, <1>12, <1>13, <1>14, WakePlaces

-----------------------------------------------------------------------------
(* ThreadManager                                                           *)

LEMMA JoinPlaces ==
  ASSUME PlaceInv, HostInv', NEW t \in Thread, NEW j \in Thread, JoinThread(t, j),
         UNCHANGED <<syncVars, futexVars>>
  PROVE  PlaceInv'
<1>1. Nowhere(t) /\ status[t] = "RUNNING"
  BY CallerNowhere DEF JoinThread, Calls
<1>2. /\ waiter \in [Thread -> Thread \cup {NoThread}] /\ status \in [Thread -> Status]
      /\ host \in [Thread -> Host] /\ reason \in [Thread -> Reason]
  BY DEF PlaceInv, HostInv, ThreadTypeOK
<1>3. /\ waiter' = [waiter EXCEPT ![j] = t] /\ waiter[j] = NoThread
      /\ status' = [status EXCEPT ![t] = "STALLED"]
      /\ host' = [host EXCEPT ![t] = "stalling"]
      /\ reason' = [reason EXCEPT ![t] = "join"]
  BY DEF JoinThread
<1>4. Joining(t)' = {j} /\ \A u \in Thread \ {t} : Joining(u)' = Joining(u)
  <2>1. \A u \in Thread \ {t} : Joining(u)' = Joining(u)
    BY <1>2, <1>3, ThreadAssumption DEF Joining
  <2>2. Joining(t)' = {j}
    BY <1>1, <1>2, <1>3 DEF Joining, Nowhere
  <2> QED
    BY <2>1, <2>2
<1>5. /\ Queues'
      /\ \A u : /\ WM(u)' = WM(u) /\ WC(u)' = WC(u) /\ WB(u)' = WB(u) /\ WF(u)' = WF(u)
                /\ (WS(u)' <=> WS(u))
  BY SameQueues DEF PlaceInv, Queues, syncVars, futexVars
<1>6. status'[t] = "STALLED" /\ reason'[t] = "join" /\ host'[t] = "stalling"
  BY <1>2, <1>3
<1>7. \A u \in Thread \ {t} : /\ status'[u] = status[u] /\ reason'[u] = reason[u]
                              /\ host'[u] = host[u]
  BY <1>2, <1>3
<1>8. InOne(t)'
  BY <1>1, <1>4, <1>5, <1>6 DEF InOne, Nowhere
<1>9. "join" \in Reason \ {"none", "syscall"}
  BY DEF Reason
<1> DEFINE W == {}
<1>10. W \subseteq Thread /\ Thread \ (W \cup {t}) = Thread \ {t} /\ \A u \in W : FALSE
  OBVIOUS
<1> HIDE DEF W
<1> QED
  BY <1>4, <1>5, <1>6, <1>7, <1>8, <1>9, <1>10, StallCore

LEMMA ThreadNextPlaces ==
  ASSUME ~JoinUnstarted, PlaceInv, HostInv', NEW t \in Thread, ThreadNext(t)
  PROVE  PlaceInv'
<1>1. CASE \E j \in Thread : JoinThread(t, j)
  BY <1>1, JoinPlaces DEF ThreadNext
<1>2. CASE \E j \in Thread : JoinExited(t, j)
  BY <1>2, StillPlaces DEF ThreadNext, JoinExited, syncVars
<1>3. CASE \/ EnterWait(t) \/ (\E n \in Thread : CreateThread(t, n)) \/ ThreadStart(t)
           \/ SyscallEnter(t) \/ SyscallExit(t)
  <2>1. /\ waiter \in [Thread -> Thread \cup {NoThread}] /\ status \in [Thread -> Status]
        /\ host \in [Thread -> Host] /\ reason \in [Thread -> Reason]
    BY DEF PlaceInv, HostInv, ThreadTypeOK
  <2>2. UNCHANGED waiter
    <3>1. CASE ThreadStart(t)
      <4>1. waiter[t] = NoThread /\ waiter' = [waiter EXCEPT ![t] = NoThread]
        BY <3>1 DEF ThreadStart, PlaceInv, HostInv, UnstartedUnjoined
      <4> QED
        BY <2>1, <4>1
    <3> QED
      BY <1>3, <3>1 DEF EnterWait, CreateThread, SyscallEnter, SyscallExit
  <2>3. /\ Queues'
        /\ \A u \in Thread :
             /\ WM(u)' = WM(u) /\ WC(u)' = WC(u) /\ WB(u)' = WB(u) /\ WF(u)' = WF(u)
             /\ (WS(u)' <=> WS(u)) /\ Joining(u)' = Joining(u)
    BY <2>2, SameQueues DEF PlaceInv, Queues, ThreadNext, syncVars, futexVars
  <2>4. \A u \in Thread : host[u] \in {"none", "new"} => Nowhere(u)
    BY OnlyHere DEF PlaceInv, TableInv
  <2>5. \A u \in Thread : host[u] = "syscall" => Nowhere(u)
    BY DEF PlaceInv, TableInv, Standing
  <2>6. \A u \in Thread : host[u] = "app" => Nowhere(u)
    BY CallerNowhere
  <2>7. /\ \A u \in Thread : \/ status'[u] = status[u] /\ reason'[u] = reason[u]
                             \/ Nowhere(u) /\ (status'[u] # "STALLED" \/ reason'[u] = "syscall")
        /\ TableInv'
    <3> USE <2>1 DEF PlaceInv, TableInv, HostInv
    <3>1. CASE EnterWait(t)
      BY <3>1 DEF EnterWait
    <3>2. CASE \E n \in Thread : CreateThread(t, n)
      BY <2>4, <3>2 DEF CreateThread
    <3>3. CASE ThreadStart(t)
      BY <2>4, <3>3 DEF ThreadStart
    <3>4. CASE SyscallEnter(t)
      BY <2>6, <3>4 DEF SyscallEnter, Calls
    <3>5. CASE SyscallExit(t)
      BY <2>5, <3>5 DEF SyscallExit
    <3> QED
      BY <1>3, <3>1, <3>2, <3>3, <3>4, <3>5
  <2> QED
    BY <2>3, <2>7, TableStep
<1> QED
  BY <1>1, <1>2, <1>3 DEF ThreadNext


LEMMA SyncNextPlaces ==
  ASSUME PlaceInv, HostInv', NEW t \in Thread, SyncNext(t)
  PROVE  PlaceInv'
<1>0. UNCHANGED futexVars
  BY DEF SyncNext
<1>1. CASE \E m \in Mutex : MutexTake(t, m) \/ MutexTryFails(t, m)
  BY <1>0, <1>1, StillPlaces DEF MutexTake, MutexTryFails, syncVars
<1>2. CASE \E m \in Mutex : MutexQueue(t, m)
  BY <1>0, <1>2, MutexQueuePlaces
<1>3. CASE \E m \in Mutex : MutexUnlock(t, m)
  BY <1>0, <1>3, MutexUnlockPlaces
<1>4. CASE \E c \in Cond, m \in Mutex : CondWait(t, c, m)
  BY <1>0, <1>4, CondWaitPlaces
<1>5. CASE \E c \in Cond : CondSignal(t, c) \/ CondBroadcast(t, c)
  BY <1>0, <1>5, CondSignalPlaces, CondBroadcastPlaces
<1>6. CASE \E b \in Barrier : BarrierArrive(t, b) \/ BarrierComplete(t, b)
  BY <1>0, <1>6, BarrierArrivePlaces, BarrierCompletePlaces
<1> QED
  BY <1>1, <1>2, <1>3, <1>4, <1>5, <1>6 DEF SyncNext

LEMMA FutexNextPlaces ==
  ASSUME PlaceInv, HostInv', NEW t \in Thread, FutexNext(t)
  PROVE  PlaceInv'
<1>0. UNCHANGED syncVars
  BY DEF FutexNext
<1>1. Nr \subseteq Nat /\ 0..MaxTimeout \subseteq Int /\ 0..Never \subseteq Int /\ 1 \in Nat
  BY LatestNat, TimeoutAssumption DEF Nr, Latest, Never
<1>2. CASE \E d \in 0..MaxTimeout : SleepCall(t, d)
  BY <1>0, <1>1, <1>2, SleepCallPlaces
<1>3. CASE FutexWouldBlock(t)
  BY <1>0, <1>3, StillPlaces DEF FutexWouldBlock, syncVars
<1>4. CASE \E a \in Addr, d \in 0..Never : FutexWait(t, a, d)
  BY <1>0, <1>1, <1>4, FutexWaitPlaces
<1>5. CASE \E a \in Addr, n \in Nr : FutexWake(t, a, n)
  BY <1>0, <1>1, <1>5, FutexWakeOnePlaces
<1>6. CASE \E a \in Addr, n \in Nr, b \in Addr : FutexWakeOp(t, a, b, 1, n, TRUE)
  BY <1>0, <1>1, <1>6, FutexWakeOpPlaces
<1>7. CASE \E a \in Addr, n \in Nr, b \in Addr : FutexWakeOp(t, a, b, n, 1, FALSE)
  BY <1>0, <1>1, <1>7, FutexWakeOpPlaces
<1>8. CASE \E a \in Addr, n \in Nr, b \in Addr : FutexCmpRequeue(t, a, n, b)
  BY <1>0, <1>1, <1>8, FutexCmpRequeuePlaces
<1>9. CASE ThreadExit(t) \/ \E a \in Addr : ThreadExitClearTid(t, a)
  BY <1>0, <1>9, ThreadExitPlaces
<1> QED
  BY <1>2, <1>3, <1>4, <1>5, <1>6, <1>7, <1>8, <1>9 DEF FutexNext

LEMMA NextKeepsPlaceInv ==
  ASSUME ~JoinUnstarted, PlaceInv, [Next]_vars
  PROVE  PlaceInv'
<1>1. HostInv'
  BY NextKeepsHostInv DEF PlaceInv
<1>2. CASE Period
  BY <1>1, <1>2, PeriodPlaces
<1>3. CASE Abort
  BY <1>3, StillPlaces DEF Abort, syncVars
<1>4. CASE UNCHANGED vars
  BY <1>4, StillPlaces DEF vars, syncVars
<1> QED
  BY <1>1, <1>2, <1>3, <1>4, ThreadNextPlaces, SyncNextPlaces, FutexNextPlaces DEF Next

LEMMA InitPlaceInv == Init => PlaceInv
<1> SUFFICES ASSUME Init PROVE PlaceInv
  OBVIOUS
<1>1. HostInv
  BY InitHostInv
<1>2. TableInv
  BY DEF Init, ThreadInit, TableInv
<1>3. Queues
  BY DEF Init, SyncInit, FutexInit, Queues, MutexQ, CondQ, BarrierQ, FutexQ, SleepQ, Once, OnceE
<1>4. ASSUME NEW t \in Thread PROVE Nowhere(t)
  <2>1. WM(t) = {} /\ WB(t) = {}
    BY DEF Init, SyncInit, WM, WB, ThreadsIn
  <2>2. WC(t) = {} /\ WF(t) = {} /\ ~WS(t)
    BY DEF Init, SyncInit, FutexInit, WC, WF, WS, Sleepers
  <2>3. Joining(t) = {}
    BY ThreadAssumption DEF Init, ThreadInit, Joining
  <2> QED
    BY <2>1, <2>2, <2>3 DEF Nowhere
<1>5. \A t \in Thread : Standing(t)
  BY <1>4 DEF Init, ThreadInit, Standing
<1> QED
  BY <1>1, <1>2, <1>3, <1>5 DEF PlaceInv

-----------------------------------------------------------------------------
(* From the queues a thread stands in to the number of its entries.        *)

LEMMA OncePlace ==
  ASSUME NEW q, Once(q), NEW t, t \in ThreadsIn(q)
  PROVE  \E i \in DOMAIN q : q[i] = t /\ \A j \in DOMAIN q : q[j] = t => j = i
  BY DEF Once, ThreadsIn

LEMMA OnceEntry ==
  ASSUME NEW q, OnceE(q), NEW t, t \in Sleepers(q)
  PROVE  \E i \in DOMAIN q : q[i].thread = t /\ \A j \in DOMAIN q : q[j].thread = t => j = i
  BY DEF OnceE, Sleepers

LEMMA MutexPlaces ==
  ASSUME MutexQ, NEW t, WM(t) = {} \/ \E m \in Mutex : WM(t) = {m}
  PROVE  (InMutex(t) = {} /\ WM(t) = {}) \/ \E p : InMutex(t) = {p} /\ WM(t) # {}
<1> DEFINE D == [m \in Mutex |-> {i \in DOMAIN mutex_waiting[m] : mutex_waiting[m][i] = t}]
<1>1. \A p : p \in InMutex(t) <=> \E m \in Mutex : \E i \in D[m] : p = <<m, i>>
  BY DEF InMutex
<1>2. \A m \in Mutex : m \notin WM(t) => D[m] = {}
  BY DEF WM, ThreadsIn
<1>3. ASSUME NEW m \in Mutex, m \in WM(t) PROVE \E i : D[m] = {i}
  <2>1. PICK i \in DOMAIN mutex_waiting[m] : /\ mutex_waiting[m][i] = t
                                   /\ \A j \in DOMAIN mutex_waiting[m] : mutex_waiting[m][j] = t => j = i
    BY <1>3, OncePlace DEF WM, MutexQ
  <2>2. D[m] = {i}
    BY <2>1
  <2> QED
    BY <2>2
<1> HIDE DEF D
<1>4. CASE WM(t) = {}
  BY <1>1, <1>2, <1>4
<1>5. ASSUME NEW m \in Mutex, WM(t) = {m}
      PROVE  \E p : InMutex(t) = {p}
  <2>1. PICK i : D[m] = {i}
    BY <1>3, <1>5
  <2>2. InMutex(t) = {<<m, i>>}
    BY <1>1, <1>2, <1>5, <2>1
  <2> QED
    BY <2>2
<1> QED
  BY <1>4, <1>5

LEMMA CondPlaces ==
  ASSUME CondQ, NEW t, WC(t) = {} \/ \E c \in Cond : WC(t) = {c}
  PROVE  (InCond(t) = {} /\ WC(t) = {}) \/ \E p : InCond(t) = {p} /\ WC(t) # {}
<1> DEFINE D == [c \in Cond |-> {i \in DOMAIN cond_waiting[c] : cond_waiting[c][i].thread = t}]
<1>1. \A p : p \in InCond(t) <=> \E c \in Cond : \E i \in D[c] : p = <<c, i>>
  BY DEF InCond
<1>2. \A c \in Cond : c \notin WC(t) => D[c] = {}
  BY DEF WC, Sleepers
<1>3. ASSUME NEW c \in Cond, c \in WC(t) PROVE \E i : D[c] = {i}
  <2>1. PICK i \in DOMAIN cond_waiting[c] : /\ cond_waiting[c][i].thread = t
                                   /\ \A j \in DOMAIN cond_waiting[c] : cond_waiting[c][j].thread = t => j = i
    BY <1>3, OnceEntry DEF WC, CondQ
  <2>2. D[c] = {i}
    BY <2>1
  <2> QED
    BY <2>2
<1> HIDE DEF D
<1>4. CASE WC(t) = {}
  BY <1>1, <1>2, <1>4
<1>5. ASSUME NEW c \in Cond, WC(t) = {c}
      PROVE  \E p : InCond(t) = {p}
  <2>1. PICK i : D[c] = {i}
    BY <1>3, <1>5
  <2>2. InCond(t) = {<<c, i>>}
    BY <1>1, <1>2, <1>5, <2>1
  <2> QED
    BY <2>2
<1> QED
  BY <1>4, <1>5

LEMMA BarrierPlaces ==
  ASSUME BarrierQ, NEW t, WB(t) = {} \/ \E b \in Barrier : WB(t) = {b}
  PROVE  (InBarrier(t) = {} /\ WB(t) = {}) \/ \E p : InBarrier(t) = {p} /\ WB(t) # {}
<1> DEFINE D == [b \in Barrier |-> {i \in DOMAIN barrier_waiting[b] : barrier_waiting[b][i] = t}]
<1>1. \A p : p \in InBarrier(t) <=> \E b \in Barrier : \E i \in D[b] : p = <<b, i>>
  BY DEF InBarrier
<1>2. \A b \in Barrier : b \notin WB(t) => D[b] = {}
  BY DEF WB, ThreadsIn
<1>3. ASSUME NEW b \in Barrier, b \in WB(t) PROVE \E i : D[b] = {i}
  <2>1. PICK i \in DOMAIN barrier_waiting[b] : /\ barrier_waiting[b][i] = t
                                   /\ \A j \in DOMAIN barrier_waiting[b] : barrier_waiting[b][j] = t => j = i
    BY <1>3, OncePlace DEF WB, BarrierQ
  <2>2. D[b] = {i}
    BY <2>1
  <2> QED
    BY <2>2
<1> HIDE DEF D
<1>4. CASE WB(t) = {}
  BY <1>1, <1>2, <1>4
<1>5. ASSUME NEW b \in Barrier, WB(t) = {b}
      PROVE  \E p : InBarrier(t) = {p}
  <2>1. PICK i : D[b] = {i}
    BY <1>3, <1>5
  <2>2. InBarrier(t) = {<<b, i>>}
    BY <1>1, <1>2, <1>5, <2>1
  <2> QED
    BY <2>2
<1> QED
  BY <1>4, <1>5

LEMMA FutexPlaces ==
  ASSUME FutexQ, NEW t, WF(t) = {} \/ \E a \in Addr : WF(t) = {a}
  PROVE  (InFutex(t) = {} /\ WF(t) = {}) \/ \E p : InFutex(t) = {p} /\ WF(t) # {}
<1> DEFINE D == [a \in Addr |-> {i \in DOMAIN futex_waiting[a] : futex_waiting[a][i].thread = t}]
<1>1. \A p : p \in InFutex(t) <=> \E a \in Addr : \E i \in D[a] : p = <<a, i>>
  BY DEF InFutex
<1>2. \A a \in Addr : a \notin WF(t) => D[a] = {}
  BY DEF WF, Sleepers
<1>3. ASSUME NEW a \in Addr, a \in WF(t) PROVE \E i : D[a] = {i}
  <2>1. PICK i \in DOMAIN futex_waiting[a] : /\ futex_waiting[a][i].thread = t
                                   /\ \A j \in DOMAIN futex_waiting[a] : futex_waiting[a][j].thread = t => j = i
    BY <1>3, OnceEntry DEF WF, FutexQ
  <2>2. D[a] = {i}
    BY <2>1
  <2> QED
    BY <2>2
<1> HIDE DEF D
<1>4. CASE WF(t) = {}
  BY <1>1, <1>2, <1>4
<1>5. ASSUME NEW a \in Addr, WF(t) = {a}
      PROVE  \E p : InFutex(t) = {p}
  <2>1. PICK i : D[a] = {i}
    BY <1>3, <1>5
  <2>2. InFutex(t) = {<<a, i>>}
    BY <1>1, <1>2, <1>5, <2>1
  <2> QED
    BY <2>2
<1> QED
  BY <1>4, <1>5

LEMMA SleepPlaces ==
  ASSUME SleepQ, NEW t
  PROVE  (InSleep(t) = {} /\ ~WS(t)) \/ \E p : InSleep(t) = {p} /\ WS(t)
<1>1. CASE WS(t)
  <2>1. PICK i \in DOMAIN sleeping : /\ sleeping[i].thread = t
                                     /\ \A j \in DOMAIN sleeping : sleeping[j].thread = t => j = i
    BY <1>1, OnceEntry DEF WS, SleepQ
  <2>2. InSleep(t) = {i}
    BY <2>1 DEF InSleep
  <2> QED
    BY <1>1, <2>2
<1>2. CASE ~WS(t)
  BY <1>2 DEF WS, Sleepers, InSleep
<1> QED
  BY <1>1, <1>2

\* Cardinalities of empty sets and of singletons.
LEMMA Count == Cardinality({}) = 0 /\ \A p : Cardinality({p}) = 1
  BY FS_EmptySet, FS_Singleton

LEMMA PlaceInvWakes == PlaceInv => OneWayToWake
<1> SUFFICES ASSUME PlaceInv, NEW t \in Thread
             PROVE  IF status[t] = "STALLED" /\ reason[t] # "syscall"
                    THEN /\ Entries(t) = 1
                         /\ CASE reason[t] = "mutex"   -> InMutex(t) # {}
                              [] reason[t] = "cond"    -> InCond(t) # {} \/ InMutex(t) # {}
                              [] reason[t] = "barrier" -> InBarrier(t) # {}
                              [] reason[t] = "futex"   -> InFutex(t) # {}
                              [] reason[t] = "sleep"   -> InSleep(t) # {}
                              [] reason[t] = "join"    -> Joining(t) # {}
                    ELSE Entries(t) = 0
  BY DEF OneWayToWake
<1>1. Standing(t) /\ MutexQ /\ CondQ /\ BarrierQ /\ FutexQ /\ SleepQ
  BY DEF PlaceInv, Queues
<1>2. /\ WM(t) = {} \/ \E m \in Mutex : WM(t) = {m}
      /\ WC(t) = {} \/ \E c \in Cond : WC(t) = {c}
      /\ WB(t) = {} \/ \E b \in Barrier : WB(t) = {b}
      /\ WF(t) = {} \/ \E a \in Addr : WF(t) = {a}
      /\ Joining(t) = {} \/ \E j : Joining(t) = {j}
  BY <1>1 DEF Standing, InOne, Nowhere
<1>3. /\ (InMutex(t) = {} /\ WM(t) = {}) \/ \E p : InMutex(t) = {p} /\ WM(t) # {}
      /\ (InCond(t) = {} /\ WC(t) = {}) \/ \E p : InCond(t) = {p} /\ WC(t) # {}
      /\ (InBarrier(t) = {} /\ WB(t) = {}) \/ \E p : InBarrier(t) = {p} /\ WB(t) # {}
      /\ (InFutex(t) = {} /\ WF(t) = {}) \/ \E p : InFutex(t) = {p} /\ WF(t) # {}
      /\ (InSleep(t) = {} /\ ~WS(t)) \/ \E p : InSleep(t) = {p} /\ WS(t)
  BY <1>1, <1>2, MutexPlaces, CondPlaces, BarrierPlaces, FutexPlaces, SleepPlaces
<1>4. /\ Cardinality(InMutex(t)) = IF WM(t) = {} THEN 0 ELSE 1
      /\ Cardinality(InCond(t)) = IF WC(t) = {} THEN 0 ELSE 1
      /\ Cardinality(InBarrier(t)) = IF WB(t) = {} THEN 0 ELSE 1
      /\ Cardinality(InFutex(t)) = IF WF(t) = {} THEN 0 ELSE 1
      /\ Cardinality(InSleep(t)) = IF WS(t) THEN 1 ELSE 0
      /\ Cardinality(Joining(t)) = IF Joining(t) = {} THEN 0 ELSE 1
  BY <1>2, <1>3, Count
<1>5. CASE Nowhere(t) /\ ~(status[t] = "STALLED" /\ reason[t] # "syscall")
  BY <1>4, <1>5 DEF Nowhere, Entries
<1>6. CASE InOne(t) /\ status[t] = "STALLED" /\ reason[t] # "syscall"
  <2>1. Entries(t) = 1
    BY <1>4, <1>6 DEF InOne, Entries
  <2>2. /\ reason[t] = "mutex" => InMutex(t) # {}
        /\ reason[t] = "cond" => InCond(t) # {} \/ InMutex(t) # {}
        /\ reason[t] = "barrier" => InBarrier(t) # {}
        /\ reason[t] = "futex" => InFutex(t) # {}
        /\ reason[t] = "sleep" => InSleep(t) # {}
        /\ reason[t] = "join" => Joining(t) # {}
        /\ reason[t] \in {"mutex", "cond", "barrier", "futex", "sleep", "join"}
    BY <1>3, <1>6 DEF InOne
  <2> QED
    BY <1>6, <2>1, <2>2
<1> QED
  BY <1>1, <1>5, <1>6 DEF Standing

(***************************************************************************)
(* However the application's threads call the mutexes, condition           *)
(* variables, barriers, futexes, sleeps and joins, and whenever the        *)
(* periodic hook, a requeue or an exit comes in between: a stalled thread  *)
(* stands once in one queue, that of what it waits for, and a running      *)
(* thread in none.  Nobody is forgotten and nobody is woken twice, for any *)
(* number of threads and objects, provided no thread joins another one     *)
(* that has not started.                                                   *)
(***************************************************************************)
THEOREM OneEventWakes ==
  ASSUME ~JoinUnstarted
  PROVE  Spec => []OneWayToWake
<1> QED
  BY InitPlaceInv, NextKeepsPlaceInv, PlaceInvWakes, PTL DEF Spec

-----------------------------------------------------------------------------
(* The owners of the mutexes.                                              *)

\* The threads that gave up m to wait for a condition.
GaveUp(m) ==
  {u \in Thread : \E c \in Cond : \E i \in DOMAIN cond_waiting[c] :
                    cond_waiting[c][i].thread = u /\ cond_waiting[c][i].mutex = m}

OwnerInv ==
  /\ mutex_owner \in [Mutex -> Thread \cup {NoThread}]
  /\ \A m \in Mutex : /\ mutex_waiting[m] # <<>> => mutex_owner[m] # NoThread
                      /\ mutex_owner[m] \notin ThreadsIn(mutex_waiting[m])
                      /\ mutex_owner[m] \notin GaveUp(m)

LEMMA GaveUpWaits ==
  ASSUME NEW m, NEW u \in GaveUp(m)
  PROVE  u \in Thread /\ WC(u) # {}
  BY DEF GaveUp, WC, Sleepers

LEMMA OwnersStay ==
  ASSUME OwnerInv, UNCHANGED <<mutex_owner, mutex_waiting, cond_waiting>>
  PROVE  OwnerInv'
<1>1. \A m : GaveUp(m)' = GaveUp(m)
  BY DEF GaveUp
<1> QED
  BY <1>1 DEF OwnerInv

LEMMA MutexTakeOwners ==
  ASSUME PlaceInv, OwnerInv, NEW t \in Thread, NEW m \in Mutex, MutexTake(t, m)
  PROVE  OwnerInv'
<1>1. Nowhere(t) /\ t # NoThread
  BY CallerNowhere, ThreadAssumption DEF MutexTake, Calls
<1>2. UNCHANGED <<mutex_waiting, cond_waiting>>
  BY DEF MutexTake
<1>3. \A x : GaveUp(x)' = GaveUp(x)
  BY <1>2 DEF GaveUp
<1>4. t \notin ThreadsIn(mutex_waiting[m]) /\ t \notin GaveUp(m)
  BY <1>1, GaveUpWaits DEF Nowhere, WM
<1>5. mutex_owner' = [mutex_owner EXCEPT ![m] = t]
  BY DEF MutexTake
<1> QED
  BY <1>1, <1>2, <1>3, <1>4, <1>5 DEF OwnerInv

LEMMA MutexQueueOwners ==
  ASSUME PlaceInv, OwnerInv, NEW t \in Thread, NEW m \in Mutex, MutexQueue(t, m)
  PROVE  OwnerInv'
<1>1. UNCHANGED <<mutex_owner, cond_waiting>> /\ mutex_owner[m] \notin {NoThread, t}
  BY DEF MutexQueue
<1>2. \A x : GaveUp(x)' = GaveUp(x)
  BY <1>1 DEF GaveUp
<1>3. mutex_waiting[m] \in Seq(Thread) /\ Once(mutex_waiting[m]) /\ t \notin ThreadsIn(mutex_waiting[m])
  BY CallerNowhere DEF PlaceInv, Queues, MutexQ, MutexQueue, Calls, Nowhere, WM
<1>4. ThreadsIn(Append(mutex_waiting[m], t)) = ThreadsIn(mutex_waiting[m]) \cup {t}
  BY <1>3, AppendThread
<1>5. \A x \in Mutex : mutex_waiting'[x] = IF x = m THEN Append(mutex_waiting[m], t)
                                           ELSE mutex_waiting[x]
  BY DEF MutexQueue, PlaceInv, Queues, MutexQ
<1> QED
  BY <1>1, <1>2, <1>4, <1>5 DEF OwnerInv

\* The heir of a mutex waited for it, and for nothing else.
LEMMA UnlockOwners ==
  ASSUME PlaceInv, OwnerInv, NEW m \in Mutex, unlock(m)
  PROVE  /\ mutex_owner' \in [Mutex -> Thread \cup {NoThread}]
         /\ \A x \in Mutex \ {m} : /\ mutex_owner'[x] = mutex_owner[x]
                                   /\ mutex_waiting'[x] = mutex_waiting[x]
         /\ mutex_waiting'[m] # <<>> => mutex_owner'[m] # NoThread
         /\ mutex_owner'[m] \notin ThreadsIn(mutex_waiting'[m])
         /\ mutex_owner'[m] # NoThread => mutex_owner'[m] \in Thread /\ m \in WM(mutex_owner'[m])
<1> DEFINE q == mutex_waiting[m]
<1>1. q \in Seq(Thread) /\ Once(q)
  BY DEF PlaceInv, Queues, MutexQ
<1>2. /\ mutex_owner'[m] = NextOwner(m) /\ mutex_waiting'[m] = RestOf(q)
      /\ \A x \in Mutex \ {m} : /\ mutex_owner'[x] = mutex_owner[x]
                                /\ mutex_waiting'[x] = mutex_waiting[x]
  BY DEF unlock, OwnerInv, PlaceInv, Queues, MutexQ
<1>3. CASE q = <<>>
  <2>1. NextOwner(m) = NoThread /\ RestOf(q) = <<>> /\ ThreadsIn(<<>>) = {}
    BY <1>3 DEF NextOwner, RestOf, ThreadsIn
  <2> QED
    BY <1>2, <2>1 DEF OwnerInv, unlock
<1>4. CASE q # <<>>
  <2>1. /\ NextOwner(m) = Head(q) /\ Head(q) \in Thread
        /\ Head(q) \in ThreadsIn(q) /\ ThreadsIn(RestOf(q)) = ThreadsIn(q) \ {Head(q)}
    BY <1>1, <1>4, RestThread, HeadTailProperties DEF NextOwner
  <2>2. mutex_owner' \in [Mutex -> Thread \cup {NoThread}]
    BY <2>1 DEF OwnerInv, unlock
  <2>3. m \in WM(Head(q))
    BY <2>1 DEF WM
  <2> QED
    BY <1>2, <2>1, <2>2, <2>3, ThreadAssumption
<1> QED
  BY <1>3, <1>4

LEMMA MutexUnlockOwners ==
  ASSUME PlaceInv, OwnerInv, NEW t \in Thread, NEW m \in Mutex, MutexUnlock(t, m)
  PROVE  OwnerInv'
<1>1. unlock(m) /\ UNCHANGED cond_waiting
  BY DEF MutexUnlock
<1>2. \A x : GaveUp(x)' = GaveUp(x)
  BY <1>1 DEF GaveUp
<1>3. mutex_owner'[m] \notin GaveUp(m)
  <2>1. CASE mutex_owner'[m] = NoThread
    BY <2>1, ThreadAssumption DEF GaveUp
  <2>2. CASE mutex_owner'[m] # NoThread
    <3>1. WC(mutex_owner'[m]) = {}
      BY <1>1, <2>2, UnlockOwners, OnlyHere
    <3> QED
      BY <3>1, GaveUpWaits
  <2> QED
    BY <2>1, <2>2
<1> QED
  BY <1>1, <1>2, <1>3, UnlockOwners DEF OwnerInv

LEMMA CondWaitOwners ==
  ASSUME PlaceInv, OwnerInv, NEW t \in Thread, NEW c \in Cond, NEW m \in Mutex, CondWait(t, c, m)
  PROVE  OwnerInv'
<1> DEFINE q == cond_waiting[c]
           e == [thread |-> t, mutex |-> m]
<1>1. unlock(m) /\ cond_waiting' = [cond_waiting EXCEPT ![c] = Append(q, e)]
  BY DEF CondWait
<1>2. cond_waiting \in [Cond -> Seq(CondEntry)] /\ q \in Seq(CondEntry) /\ Nowhere(t)
  BY CallerNowhere DEF PlaceInv, Queues, CondQ, CondWait, Calls
<1>3. \A x \in Cond : cond_waiting'[x] = IF x = c THEN Append(q, e) ELSE cond_waiting[x]
  BY <1>1, <1>2
<1>4. /\ Len(q) \in Nat /\ DOMAIN q = 1..Len(q) /\ DOMAIN Append(q, e) = 1..(Len(q) + 1)
      /\ \A i \in DOMAIN q : Append(q, e)[i] = q[i]
      /\ Append(q, e)[Len(q) + 1] = e
  BY <1>2, LenProperties, AppendProperties
<1>5. ASSUME NEW x, NEW u, u \in GaveUp(x)'
      PROVE  u \in GaveUp(x) \/ (u = t /\ x = m)
  <2>1. PICK d \in Cond : \E i \in DOMAIN cond_waiting'[d] :
                    cond_waiting'[d][i].thread = u /\ cond_waiting'[d][i].mutex = x
    BY <1>5 DEF GaveUp
  <2>2. PICK i \in DOMAIN cond_waiting'[d] :
                    cond_waiting'[d][i].thread = u /\ cond_waiting'[d][i].mutex = x
    BY <2>1
  <2>3. u \in Thread
    BY <1>5 DEF GaveUp
  <2>4. CASE d # c
    BY <1>3, <2>2, <2>3, <2>4 DEF GaveUp
  <2>5. CASE d = c /\ i \in DOMAIN q
    BY <1>3, <1>4, <2>2, <2>3, <2>5 DEF GaveUp
  <2>6. CASE d = c /\ i \notin DOMAIN q
    <3> HIDE DEF q, e
    <3>1. i \in 1..(Len(q) + 1) /\ i \notin 1..Len(q) /\ Len(q) \in Nat
      BY <1>3, <1>4, <2>6
    <3>2. i = Len(q) + 1
      BY <3>1
    <3>3. cond_waiting'[d][i] = e
      BY <1>3, <1>4, <2>6, <3>2
    <3>4. e.thread = t /\ e.mutex = m
      BY DEF e
    <3> QED
      BY <2>2, <3>3, <3>4
  <2> QED
    BY <2>4, <2>5, <2>6
<1>6. mutex_owner'[m] \notin GaveUp(m)'
  <2>1. CASE mutex_owner'[m] = NoThread
    BY <2>1, ThreadAssumption DEF GaveUp
  <2>2. CASE mutex_owner'[m] # NoThread
    <3>1. mutex_owner'[m] \in Thread /\ m \in WM(mutex_owner'[m])
      BY <1>1, <2>2, UnlockOwners
    <3>2. WC(mutex_owner'[m]) = {} /\ mutex_owner'[m] # t
      BY <1>2, <3>1, OnlyHere DEF Nowhere
    <3>3. mutex_owner'[m] \notin GaveUp(m)
      BY <3>2, GaveUpWaits
    <3> HIDE DEF e, q
    <3> QED
      BY <1>5, <3>2, <3>3
  <2> QED
    BY <2>1, <2>2
<1>7. \A x \in Mutex \ {m} : mutex_owner[x] \notin GaveUp(x)'
  BY <1>5 DEF OwnerInv
<1> QED
  BY <1>1, <1>6, <1>7, UnlockOwners DEF OwnerInv

\* A signalled waiter that is granted its mutex waited for the condition only; one
\* that is refused it is not its owner, who has not given it up.
LEMMA LockAsyncOwners ==
  ASSUME PlaceInv, OwnerInv, NEW c \in Cond,
         NEW q \in Seq(CondEntry), OnceE(q), Range(q) \subseteq Range(cond_waiting[c]),
         NEW rest \in Seq(CondEntry), OnceE(rest), Range(rest) \subseteq Range(cond_waiting[c]),
         Sleepers(rest) = Sleepers(cond_waiting[c]) \ Sleepers(q),
         lock_async(q), cond_waiting' = [cond_waiting EXCEPT ![c] = rest]
  PROVE  OwnerInv'
<1> DEFINE g(m) == Granted(q, m)
<1>1. \A u : \A m : u \in ThreadsIn(Requests(q, m)) <=>
                     \E i \in DOMAIN q : q[i].thread = u /\ q[i].mutex = m
  BY RequestsOf
<1>2. cond_waiting \in [Cond -> Seq(CondEntry)]
  BY DEF PlaceInv, Queues, CondQ
<1>3. \A x \in Cond : cond_waiting'[x] = IF x = c THEN rest ELSE cond_waiting[x]
  BY <1>2
<1>4. \A m : GaveUp(m)' \subseteq GaveUp(m)
  <2> SUFFICES ASSUME NEW m, NEW u \in GaveUp(m)' PROVE u \in GaveUp(m)
    OBVIOUS
  <2>1. PICK d \in Cond : \E i \in DOMAIN cond_waiting'[d] :
                    cond_waiting'[d][i].thread = u /\ cond_waiting'[d][i].mutex = m
    BY DEF GaveUp
  <2>2. PICK i \in DOMAIN cond_waiting'[d] :
                    cond_waiting'[d][i].thread = u /\ cond_waiting'[d][i].mutex = m
    BY <2>1
  <2>3. cond_waiting'[d][i] \in Range(cond_waiting[d])
    BY <1>3 DEF Range
  <2>4. \E j \in DOMAIN cond_waiting[d] : cond_waiting[d][j] = cond_waiting'[d][i]
    BY <2>3 DEF Range
  <2>5. u \in Thread
    BY DEF GaveUp
  <2> QED
    BY <2>2, <2>4, <2>5 DEF GaveUp
<1>5. ASSUME NEW m \in Mutex, NEW u \in ThreadsIn(Requests(q, m))
      PROVE  u \in GaveUp(m) /\ u \in Sleepers(q) /\ c \in WC(u)
  <2>1. PICK i \in DOMAIN q : q[i].thread = u /\ q[i].mutex = m
    BY <1>1, <1>5
  <2>2. q[i] \in Range(cond_waiting[c])
    BY DEF Range
  <2>3. PICK j \in DOMAIN cond_waiting[c] : cond_waiting[c][j] = q[i]
    BY <2>2 DEF Range
  <2>4. q[i] \in CondEntry
    BY LenProperties, ElementOfSeq
  <2>5. u \in Thread
    BY <2>1, <2>4 DEF CondEntry
  <2> QED
    BY <2>1, <2>3, <2>5 DEF GaveUp, WC, Sleepers
<1>6. ASSUME NEW m \in Mutex
      PROVE  /\ mutex_owner'[m] = IF g(m) = NoThread THEN mutex_owner[m] ELSE g(m)
             /\ mutex_waiting'[m] = mutex_waiting[m] \o Refused(q, m)
  BY DEF lock_async, Refused
<1>7. ASSUME NEW m \in Mutex
      PROVE  /\ Refused(q, m) \in Seq(Thread) /\ Once(Refused(q, m))
             /\ ThreadsIn(Refused(q, m)) = ThreadsIn(Requests(q, m)) \ {g(m)}
             /\ g(m) # NoThread => g(m) \in Thread /\ g(m) \in ThreadsIn(Requests(q, m))
  BY GrantOne
<1>8. mutex_owner' \in [Mutex -> Thread \cup {NoThread}]
  BY <1>7 DEF lock_async, OwnerInv
<1>9. ASSUME NEW m \in Mutex
      PROVE  ThreadsIn(mutex_waiting'[m]) = ThreadsIn(mutex_waiting[m]) \cup ThreadsIn(Refused(q, m))
  <2>1. mutex_waiting[m] \in Seq(Thread) /\ Once(mutex_waiting[m])
    BY DEF PlaceInv, Queues, MutexQ
  <2>2. ThreadsIn(mutex_waiting[m]) \cap ThreadsIn(Refused(q, m)) = {}
    <3> SUFFICES ASSUME NEW u, u \in ThreadsIn(mutex_waiting[m]), u \in ThreadsIn(Refused(q, m))
                 PROVE  FALSE
      OBVIOUS
    <3>1. u \in Thread /\ c \in WC(u) /\ m \in WM(u)
      BY <1>5, <1>7, GaveUpWaits DEF WM
    <3> QED
      BY <3>1, OnlyHere
  <2>3. Refused(q, m) \in Seq(Thread) /\ Once(Refused(q, m))
    BY <1>7
  <2>4. /\ mutex_waiting[m] \o Refused(q, m) \in Seq(Thread)
        /\ Once(mutex_waiting[m] \o Refused(q, m))
        /\ ThreadsIn(mutex_waiting[m] \o Refused(q, m))
             = ThreadsIn(mutex_waiting[m]) \cup ThreadsIn(Refused(q, m))
    BY <2>1, <2>2, <2>3, ConcatThread
  <2>5. mutex_waiting'[m] = mutex_waiting[m] \o Refused(q, m)
    BY DEF lock_async, Refused
  <2> QED
    BY <2>4, <2>5
<1>10. ASSUME NEW m \in Mutex
       PROVE  /\ mutex_waiting'[m] # <<>> => mutex_owner'[m] # NoThread
              /\ mutex_owner'[m] \notin ThreadsIn(mutex_waiting'[m])
              /\ mutex_owner'[m] \notin GaveUp(m)'
  <2>1. CASE g(m) = NoThread
    <3>1. mutex_owner'[m] = mutex_owner[m] /\ Refused(q, m) = Requests(q, m)
      BY <1>6, <2>1 DEF Refused
    <3>2. mutex_owner[m] \notin ThreadsIn(Requests(q, m))
      BY <1>5 DEF OwnerInv
    <3>3. mutex_owner[m] = NoThread => Requests(q, m) = <<>>
      <4> SUFFICES ASSUME mutex_owner[m] = NoThread, Requests(q, m) # <<>> PROVE FALSE
        OBVIOUS
      <4>1. g(m) = Head(Requests(q, m))
        BY DEF Granted
      <4>2. Requests(q, m) \in Seq(Thread)
        BY RequestsOf
      <4>3. Head(Requests(q, m)) \in Thread
        BY <4>2, HeadTailProperties
      <4> QED
        BY <2>1, <4>1, <4>3, ThreadAssumption
    <3>4. mutex_owner[m] = NoThread => mutex_waiting'[m] = <<>>
      <4> SUFFICES ASSUME mutex_owner[m] = NoThread PROVE mutex_waiting'[m] = <<>>
        OBVIOUS
      <4>1. mutex_waiting[m] = <<>> /\ Refused(q, m) = <<>>
        BY <3>1, <3>3 DEF OwnerInv
      <4> QED
        BY <1>6, <4>1
    <3>5. mutex_owner[m] \notin ThreadsIn(mutex_waiting[m]) /\ mutex_owner[m] \notin GaveUp(m)
      BY DEF OwnerInv
    <3> QED
      BY <1>4, <1>7, <1>9, <3>1, <3>2, <3>4, <3>5
  <2>2. CASE g(m) # NoThread
    <3>1. g(m) \in Thread /\ g(m) \in Sleepers(q) /\ c \in WC(g(m)) /\ g(m) \in GaveUp(m)
      BY <1>5, <1>7, <2>2
    <3>2. WM(g(m)) = {} /\ WC(g(m)) = {c}
      BY <3>1, OnlyHere
    <3>3. g(m) \notin ThreadsIn(mutex_waiting[m])
      BY <3>2 DEF WM
    <3>4. g(m) \notin GaveUp(m)'
      <4> SUFFICES ASSUME g(m) \in GaveUp(m)' PROVE FALSE
        OBVIOUS
      <4>1. PICK d \in Cond : g(m) \in Sleepers(cond_waiting'[d])
        BY DEF GaveUp, Sleepers
      <4>2. CASE d = c
        BY <1>3, <3>1, <4>1, <4>2
      <4>3. CASE d # c
        BY <1>3, <3>2, <4>1, <4>3 DEF WC
      <4> QED
        BY <4>2, <4>3
    <3> HIDE DEF g
    <3> QED
      BY <1>6, <1>7, <1>9, <2>2, <3>3, <3>4
  <2> QED
    BY <2>1, <2>2
<1> QED
  BY <1>8, <1>10 DEF OwnerInv

LEMMA CondSignalOwners ==
  ASSUME PlaceInv, OwnerInv, NEW t \in Thread, NEW c \in Cond, CondSignal(t, c)
  PROVE  OwnerInv'
<1> DEFINE q == cond_waiting[c]
<1>1. q \in Seq(CondEntry) /\ OnceE(q) /\ cond_waiting \in [Cond -> Seq(CondEntry)]
  BY DEF PlaceInv, Queues, CondQ
<1>2. cond_waiting' = [cond_waiting EXCEPT ![c] = RestOf(q)]
  BY DEF CondSignal
<1>3. CASE q = <<>>
  <2>1. RestOf(q) = q
    BY <1>3 DEF RestOf
  <2>2. UNCHANGED cond_waiting
    BY <1>1, <1>2, <2>1
  <2>3. UNCHANGED <<mutex_owner, mutex_waiting>>
    BY <1>3 DEF CondSignal
  <2> QED
    BY <2>2, <2>3, OwnersStay
<1>4. CASE q # <<>>
  <2> DEFINE one == <<Head(q)>>
  <2>1. /\ RestOf(q) \in Seq(CondEntry) /\ OnceE(RestOf(q)) /\ Head(q) \in CondEntry
        /\ Head(q) = q[1] /\ 1 \in DOMAIN q /\ Range(RestOf(q)) \subseteq Range(q)
        /\ Sleepers(RestOf(q)) = Sleepers(q) \ {Head(q).thread}
    BY <1>1, <1>4, RestEntry
  <2>2. one \in Seq(CondEntry) /\ DOMAIN one = {1} /\ one[1] = Head(q)
    BY <2>1
  <2>3. OnceE(one) /\ Sleepers(one) = {Head(q).thread}
    BY <2>2 DEF OnceE, Sleepers
  <2>4. Range(one) \subseteq Range(q)
    BY <2>1, <2>2 DEF Range
  <2>5. lock_async(one)
    BY <1>4 DEF CondSignal
  <2> HIDE DEF one
  <2> QED
    BY <1>2, <2>1, <2>2, <2>3, <2>4, <2>5, LockAsyncOwners
<1> QED
  BY <1>3, <1>4

LEMMA CondBroadcastOwners ==
  ASSUME PlaceInv, OwnerInv, NEW t \in Thread, NEW c \in Cond, CondBroadcast(t, c)
  PROVE  OwnerInv'
<1> DEFINE q == cond_waiting[c]
<1>1. q \in Seq(CondEntry) /\ OnceE(q)
  BY DEF PlaceInv, Queues, CondQ
<1>2. /\ <<>> \in Seq(CondEntry) /\ OnceE(<<>>) /\ Sleepers(<<>>) = Sleepers(q) \ Sleepers(q)
      /\ Range(<<>>) = {} /\ Range(q) \subseteq Range(q)
  BY DEF OnceE, Sleepers, Range
<1>3. lock_async(q) /\ cond_waiting' = [cond_waiting EXCEPT ![c] = <<>>]
  BY DEF CondBroadcast
<1> QED
  BY <1>1, <1>2, <1>3, LockAsyncOwners

LEMMA NextKeepsOwnerInv ==
  ASSUME PlaceInv, OwnerInv, [Next]_vars
  PROVE  OwnerInv'
<1>1. CASE UNCHANGED syncVars
  BY <1>1, OwnersStay DEF syncVars
<1>2. ASSUME NEW t \in Thread, SyncNext(t) PROVE OwnerInv'
  <2>1. CASE \E m \in Mutex : MutexTryFails(t, m)
    BY <1>1, <2>1 DEF MutexTryFails
  <2>2. CASE \E b \in Barrier : BarrierArrive(t, b) \/ BarrierComplete(t, b)
    BY <2>2, OwnersStay DEF BarrierArrive, BarrierComplete
  <2> QED
    BY <1>2, <2>1, <2>2, MutexTakeOwners, MutexQueueOwners, MutexUnlockOwners, CondWaitOwners,
       CondSignalOwners, CondBroadcastOwners DEF SyncNext
<1> QED
  BY <1>1, <1>2 DEF Next, ThreadNext, FutexNext, Period, Abort, vars

LEMMA InitOwnerInv == Init => OwnerInv
  BY DEF Init, SyncInit, OwnerInv, GaveUp, ThreadsIn

LEMMA OwnerInvHands == PlaceInv /\ OwnerInv => MutexHandedOver
<1> SUFFICES ASSUME PlaceInv, OwnerInv, NEW m \in Mutex, NEW c \in Cond,
                    [thread |-> mutex_owner[m], mutex |-> m] \in Range(cond_waiting[c])
             PROVE  FALSE
  BY DEF MutexHandedOver, OwnerInv
<1>1. PICK i \in DOMAIN cond_waiting[c] :
        cond_waiting[c][i] = [thread |-> mutex_owner[m], mutex |-> m]
  BY DEF Range
<1>2. cond_waiting[c] \in Seq(CondEntry)
  BY DEF PlaceInv, Queues, CondQ
<1>3. cond_waiting[c][i] \in CondEntry
  BY <1>2, LenProperties, ElementOfSeq
<1>4. mutex_owner[m] \in Thread
  BY <1>1, <1>3 DEF CondEntry
<1> QED
  BY <1>1, <1>4 DEF OwnerInv, GaveUp

(***************************************************************************)
(* SimMutex::unlock hands the mutex to the first waiter and lock_async     *)
(* gives a signalled waiter a mutex only when it is free: as long as       *)
(* somebody waits for a mutex it has an owner, who neither waits for it    *)
(* nor has given it up to wait for a condition.                            *)
(***************************************************************************)
THEOREM MutexNeverIdle ==
  ASSUME ~JoinUnstarted
  PROVE  Spec => []MutexHandedOver
<1> QED
  BY InitPlaceInv, NextKeepsPlaceInv, InitOwnerInv, NextKeepsOwnerInv, OwnerInvHands, PTL DEF Spec

-----------------------------------------------------------------------------
(* Sleepers and the end of the simulation.                                 *)

\* A queue is no longer than there are threads.
LEMMA QueueBound ==
  ASSUME NEW q \in Seq(FutexEntry), OnceE(q)
  PROVE  Len(q) \in Nat /\ Len(q) <= Latest
<1> DEFINE f == [i \in 1..Len(q) |-> q[i].thread]
<1>1. Len(q) \in Nat /\ DOMAIN q = 1..Len(q) /\ \A i \in DOMAIN q : q[i] \in FutexEntry
  BY LenProperties, ElementOfSeq
<1>2. f \in [1..Len(q) -> Thread]
  BY <1>1 DEF FutexEntry
<1>3. \A i, j \in 1..Len(q) : f[i] = f[j] => i = j
  BY <1>1 DEF OnceE
<1>4. IsFiniteSet(1..Len(q)) /\ Cardinality(1..Len(q)) = Len(q)
  BY <1>1, FS_Interval
<1>5. IsFiniteSet(Thread) /\ Cardinality(Thread) \in Nat
  BY ThreadAssumption, FS_CardinalityType
<1> HIDE DEF f
<1>6. ~(Cardinality(Thread) < Cardinality(1..Len(q)))
  BY <1>2, <1>3, <1>4, <1>5, FS_PigeonHole
<1> QED
  BY <1>1, <1>4, <1>5, <1>6 DEF Latest

\* The sleeper at place i is not more than Latest - i periods late.
SleepInv ==
  \A i \in DOMAIN sleeping : sleeping[i].left <= MaxTimeout /\ i - sleeping[i].left <= Latest

LEMMA SleepCallInTime ==
  ASSUME PlaceInv, PlaceInv', SleepInv, NEW t \in Thread, NEW d \in 0..MaxTimeout, SleepCall(t, d)
  PROVE  SleepInv'
<1> DEFINE e == Entry(t, d)
<1>1. sleeping \in Seq(FutexEntry) /\ sleeping' \in Seq(FutexEntry) /\ OnceE(sleeping')
  BY DEF PlaceInv, Queues, SleepQ
<1>2. sleeping' = Append(sleeping, e)
  BY DEF SleepCall
<1>3. /\ Len(sleeping) \in Nat /\ DOMAIN sleeping = 1..Len(sleeping)
      /\ Len(sleeping') = Len(sleeping) + 1 /\ DOMAIN sleeping' = 1..(Len(sleeping) + 1)
      /\ \A i \in DOMAIN sleeping : sleeping'[i] = sleeping[i]
      /\ sleeping'[Len(sleeping) + 1] = e
  BY <1>1, <1>2, LenProperties, AppendProperties
<1>4. Len(sleeping) + 1 <= Latest /\ Latest \in Nat /\ MaxTimeout \in Nat
  BY <1>1, <1>3, QueueBound, LatestNat, TimeoutAssumption
<1>5. e.left = d
  BY DEF Entry
<1> HIDE DEF e
<1>6. ASSUME NEW i \in DOMAIN sleeping'
      PROVE  sleeping'[i].left <= MaxTimeout /\ i - sleeping'[i].left <= Latest
  <2>1. CASE i \in DOMAIN sleeping
    BY <1>3, <2>1 DEF SleepInv
  <2>2. CASE i \notin DOMAIN sleeping
    <3>1. i = Len(sleeping) + 1
      BY <1>3, <2>2
    <3> QED
      BY <1>3, <1>4, <1>5, <3>1
  <2> QED
    BY <2>1, <2>2
<1> QED
  BY <1>6 DEF SleepInv

\* One sleeper a period is enough: whoever is behind the one that is woken gains a
\* place for the period it loses, and whoever is before it is not due.
LEMMA PeriodInTime ==
  ASSUME PlaceInv, SleepInv, Periodic
  PROVE  SleepInv'
<1> DEFINE q == sleeping
           r == Tick(q)
<1>1. q \in Seq(FutexEntry) /\ OnceE(q)
  BY DEF PlaceInv, Queues, SleepQ
<1>2. Len(q) \in Nat /\ DOMAIN q = 1..Len(q) /\ \A i \in DOMAIN q : q[i] \in FutexEntry
  BY <1>1, LenProperties, ElementOfSeq
<1>3. Len(q) <= Latest /\ Latest \in Nat /\ MaxTimeout \in Nat /\ Never = MaxTimeout + 1
  BY <1>1, QueueBound, LatestNat, TimeoutAssumption DEF Never
<1>4. /\ r \in Seq(FutexEntry) /\ OnceE(r) /\ Len(r) = Len(q) /\ DOMAIN r = DOMAIN q
      /\ \A i \in DOMAIN q : r[i].left = IF q[i].left \in {Never, -Latest} THEN q[i].left
                                         ELSE q[i].left - 1
  BY <1>1, TickQueue
<1>5. \A i \in DOMAIN q : i \in Nat \ {0} /\ i <= Len(q) /\ q[i].left \in Int
                          /\ q[i].left <= MaxTimeout /\ i - q[i].left <= Latest
  BY <1>2 DEF SleepInv, FutexEntry
<1> HIDE DEF q, r
<1>6. \A i \in DOMAIN q : r[i].left = q[i].left - 1
  BY <1>3, <1>4, <1>5
<1>7. sleeping' = WakeOne(r)
  BY DEF Periodic, r, q
<1>8. CASE Due(r) = {}
  <2>1. sleeping' = r
    BY <1>7, <1>8 DEF WakeOne
  <2>2. \A i \in DOMAIN q : ~(r[i].left <= 0)
    BY <1>4, <1>8 DEF Due
  <2>3. \A i \in DOMAIN r : r[i].left <= MaxTimeout /\ i - r[i].left <= Latest
    BY <1>3, <1>4, <1>5, <1>6, <2>2
  <2> QED
    BY <2>1, <2>3 DEF SleepInv
<1>9. CASE Due(r) # {}
  <2> DEFINE k == FirstDue(r)
             w == RemoveAt(r, k)
  <2>1. k \in DOMAIN r /\ \A j \in Due(r) : k <= j
    BY <1>4, <1>9, FirstDueIsFirst
  <2>2. sleeping' = w
    BY <1>7, <1>9 DEF WakeOne
  <2>3. /\ w \in Seq(FutexEntry) /\ Len(w) = Len(r) - 1
        /\ \A i \in 1..(Len(r) - 1) : w[i] = IF i < k THEN r[i] ELSE r[i + 1]
    BY <1>4, <2>1, RemoveEntry
  <2>4. DOMAIN w = 1..(Len(q) - 1)
    BY <1>4, <2>3, LenProperties
  <2> HIDE DEF k, w
  <2>5. ASSUME NEW i \in DOMAIN w
        PROVE  w[i].left <= MaxTimeout /\ i - w[i].left <= Latest
    <3>1. i \in DOMAIN q /\ i + 1 \in DOMAIN q /\ i \in Nat /\ k \in Nat
      BY <1>2, <1>4, <2>1, <2>4
    <3>2. CASE i < k
      <4>1. w[i] = r[i] /\ i \notin Due(r)
        BY <1>4, <2>1, <2>3, <2>4, <3>1, <3>2
      <4>2. ~(r[i].left <= 0)
        BY <1>4, <3>1, <4>1 DEF Due
      <4> QED
        BY <1>3, <1>5, <1>6, <3>1, <4>1, <4>2
    <3>3. CASE ~(i < k)
      <4>1. w[i] = r[i + 1]
        BY <1>4, <2>3, <2>4, <3>3
      <4> QED
        BY <1>3, <1>5, <1>6, <3>1, <4>1
    <3> QED
      BY <3>2, <3>3
  <2> QED
    BY <2>2, <2>5 DEF SleepInv
<1> QED
  BY <1>8, <1>9

LEMMA NextKeepsSleepInv ==
  ASSUME PlaceInv, PlaceInv', SleepInv, [Next]_vars
  PROVE  SleepInv'
<1>1. CASE UNCHANGED sleeping
  BY <1>1 DEF SleepInv
<1>2. CASE Period
  BY <1>2, PeriodInTime DEF Period
<1>3. ASSUME NEW t \in Thread, FutexNext(t) PROVE SleepInv'
  <2>1. CASE \E d \in 0..MaxTimeout : SleepCall(t, d)
    BY <2>1, SleepCallInTime
  <2>2. CASE UNCHANGED sleeping
    BY <1>1, <2>2
  <2> QED
    BY <1>3, <2>1, <2>2 DEF FutexNext, FutexWouldBlock, FutexWait, FutexWake, FutexWakeOp,
       FutexCmpRequeue, ThreadExit, ThreadExitClearTid, futexVars
<1> QED
  BY <1>1, <1>2, <1>3 DEF Next, ThreadNext, SyncNext, Abort, vars, futexVars

LEMMA SleepInvInTime == PlaceInv /\ SleepInv => TimeoutsAreServed
<1> SUFFICES ASSUME PlaceInv, SleepInv, NEW i \in DOMAIN sleeping
             PROVE  sleeping[i].left > -Latest
  BY DEF TimeoutsAreServed
<1>1. sleeping \in Seq(FutexEntry)
  BY DEF PlaceInv, Queues, SleepQ
<1>2. i \in Nat \ {0} /\ sleeping[i] \in FutexEntry
  BY <1>1, LenProperties, ElementOfSeq
<1>3. sleeping[i].left \in Int /\ Latest \in Nat /\ i - sleeping[i].left <= Latest
  BY <1>2, LatestNat DEF FutexEntry, SleepInv
<1> QED
  BY <1>2, <1>3

(***************************************************************************)
(* futexPeriodic wakes one sleeper a period and never the others: still    *)
(* nobody who called nanosleep is woken as many periods late as there are  *)
(* threads, whatever the other threads do and however many sleep.          *)
(***************************************************************************)
THEOREM SleepersInTime ==
  ASSUME ~JoinUnstarted
  PROVE  Spec => []TimeoutsAreServed
<1>1. Init => SleepInv
  BY DEF Init, FutexInit, SleepInv
<1> QED
  BY <1>1, InitPlaceInv, NextKeepsPlaceInv, NextKeepsSleepInv, SleepInvInTime, PTL DEF Spec
=============================================================================
