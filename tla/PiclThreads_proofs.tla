------------------------- MODULE PiclThreads_proofs -------------------------
(***************************************************************************)
(* Proofs about PiclThreads, for every number of threads, cores and blocks *)
(* and every width of the counters: which of the guarantees of PiclLog are *)
(* left when the calls interleave.                                         *)
(***************************************************************************)
EXTENDS PiclThreads, TLAPS, FiniteSetTheorems

Ops == {"none", "write", "scan", "exit"}

Local == [pc : PCs, op : Ops, core : Core \cup {NoThread}, block : Block \cup {NoThread},
          eid : 0..MaxEid, gap : 0..(GapMod - 1), target : 0..(EidMod - 1),
          queue : SUBSET made, todo : SUBSET Core]

\* The whole state, th and the history included, has its type; whoever works on
\* a buffer knows which.
Types ==
  /\ system_eid \in 1..MaxEid /\ persisted_eid \in 0..(EidMod - 1)
  /\ made \in SUBSET UndoEntryType /\ raced \in SUBSET made
  /\ buffer \in [Core -> SUBSET made] /\ log \in [Core -> SUBSET made]
  /\ block_eid \in [Block -> 0..MaxEid]
  /\ next_id \in Nat /\ filled_at \in [Block -> Nat]
  /\ stack_lock \in [Block -> Thread \cup {NoThread}]
  /\ hook_lock \in Thread \cup {NoThread} /\ exit_lock \in Thread \cup {NoThread}
  /\ th \in [Thread -> Local]
  /\ \A t \in Thread : th[t].pc \notin {"idle", "hook"} => th[t].core \in Core

\* A thread inside writeCacheBlock holds the stack lock of its block, which was
\* last written in an epoch before the one the thread has read.
WriterHoldsLock ==
  \A t \in Thread :
    /\ th[t].pc \in {"check", "again", "insert"} => th[t].op = "write"
    /\ th[t].op = "write" =>
         /\ th[t].block \in Block /\ stack_lock[th[t].block] = t
         /\ block_eid[th[t].block] < th[t].eid /\ th[t].eid <= system_eid

\* Whoever runs the periodic hook holds the ThreadManager lock, so the epoch has
\* not moved since the hook began.
ScannerHoldsLock ==
  \A t \in Thread : th[t].op = "scan" => hook_lock = t /\ system_eid < MaxEid

BlocksNotAhead == \A b \in Block : block_eid[b] <= system_eid

LockInv == Types /\ ScannerHoldsLock /\ WriterHoldsLock /\ BlocksNotAhead

\* History: an entry of the block's present line is one that was made since.
IdsBounded ==
  /\ \A e \in made : e.id < next_id
  /\ \A b \in Block : filled_at[b] <= next_id

ChainInv == LockInv /\ IdsBounded /\ UndoChainUnderRaces

\* Between its copy and its erase a flush has, for every entry that the erase
\* would drop, a copy in its queue, unless the entry came in after the copy.
CopiesCover ==
  \A t \in Thread :
    /\ th[t].pc \notin {"clear", "erase", "send"} => th[t].queue = {}
    /\ th[t].pc = "clear" => buffer[th[t].core] \subseteq th[t].queue \cup raced
    /\ th[t].pc = "erase" =>
         OldEntries(buffer[th[t].core], th[t].target) \subseteq th[t].queue \cup raced

LossInv == LockInv /\ CopiesCover /\ OnlyRacedEntriesLost

-----------------------------------------------------------------------------
(* Types                                                                   *)

LEMMA InitTypes == Init => Types
  BY WidthAssumption, ThreadAssumption
     DEF Init, Types, Idle, Local, PCs, Ops, UndoEntryType

LEMMA IdleType == Idle \in Local /\ Idle.pc = "idle"
  BY WidthAssumption DEF Idle, Local, PCs, Ops

\* What the locals are set to lies in their ranges.
LEMMA Ranges ==
  0 \in 0..MaxEid /\ 0 \in 0..(GapMod - 1) /\ 0 \in 0..(EidMod - 1)
  BY WidthAssumption

\* The new entry of a write is an entry.
LEMMA EntryType ==
  ASSUME Types, NEW t \in Thread, th[t].block \in Block
  PROVE  UndoEntry(next_id, th[t].block, block_eid[th[t].block], th[t].eid) \in UndoEntryType
  BY WidthAssumption DEF Types, Local, UndoEntry, UndoEntryType

(***************************************************************************)
(* A step of thread t that makes no entry keeps the types when it keeps    *)
(* those of what it assigns.                                               *)
(***************************************************************************)
LEMMA LocalStep ==
  ASSUME Types, NEW t \in Thread, NEW x, th' = [th EXCEPT ![t] = x],
         x \in Local, x.pc \notin {"idle", "hook"} => x.core \in Core,
         made' = made
  PROVE  /\ th' \in [Thread -> Local']
         /\ \A u \in Thread : th'[u].pc \notin {"idle", "hook"} => th'[u].core \in Core
  BY DEF Types, Local

\* FlushRound wraps both differences around.
LEMMA FlushRoundType ==
  ASSUME Types, NEW t \in Thread, NEW gap \in Int,
         th[t].core \in Core, made' = made, FlushRound(t, gap)
  PROVE  /\ th' \in [Thread -> Local']
         /\ \A u \in Thread : th'[u].pc \notin {"idle", "hook"} => th'[u].core \in Core
<1> DEFINE x == [th[t] EXCEPT !.pc = "collect", !.target = (th[t].eid - gap) % EidMod,
                              !.gap = (gap - 1) % GapMod]
<1>1. th' = [th EXCEPT ![t] = x]
  BY DEF FlushRound, Types, Local
<1>2. /\ (th[t].eid - gap) % EidMod \in 0..(EidMod - 1)
      /\ (gap - 1) % GapMod \in 0..(GapMod - 1)
  <2>1. th[t].eid \in Int
    BY DEF Types, Local
  <2> QED
    BY <2>1, WidthAssumption
<1>3. x \in Local /\ x.core \in Core
  BY <1>2, ZenonT(40) DEF Types, Local, PCs
<1> QED
  BY <1>1, <1>3, LocalStep

\* Everything but th and, perhaps, locks and persisted epoch stays as it is.
LEMMA WriteStepTypes ==
  ASSUME Types, NEW t \in Thread
  PROVE  /\ \A c \in Core, b \in Block : BeginWrite(t, c, b) => Types'
         /\ CheckFull(t) => Types'
         /\ CheckFullAgain(t) => Types'
         /\ Insert(t) /\ th[t].block \in Block => Types'
         /\ AssertFails(t) => Types'
         /\ \A b \in Block : RefillCacheBlock(t, b) => Types'
<1>1. ASSUME NEW c \in Core, NEW b \in Block, BeginWrite(t, c, b)
      PROVE  Types'
  <2> DEFINE x == [Idle EXCEPT !.pc = "check", !.op = "write", !.core = c,
                               !.block = b, !.eid = system_eid]
  <2>2. system_eid \in 0..MaxEid
    BY WidthAssumption DEF Types
  <2>3. x \in Local /\ x.core \in Core
    BY <2>2, IdleType DEF Local, PCs, Ops
  <2>4. th' = [th EXCEPT ![t] = x]
    BY <1>1 DEF BeginWrite
  <2>5. stack_lock' \in [Block -> Thread \cup {NoThread}]
    BY <1>1 DEF BeginWrite, Types
  <2> HIDE DEF x
  <2> QED
    BY <1>1, <2>3, <2>4, <2>5, LocalStep DEF BeginWrite, Types, shared
<1>2. ASSUME NEW g \in Int, th[t].core \in Core, UNCHANGED <<shared, locks>>,
             \/ FlushRound(t, g)
             \/ th' = [th EXCEPT ![t].pc = "insert", ![t].gap = 0]
      PROVE  Types'
  <2> DEFINE x == [th[t] EXCEPT !.pc = "insert", !.gap = 0]
  <2>1. x \in Local /\ x.core \in Core
    <3>1. th[t] \in Local /\ th[t].core \in Core
      BY <1>2 DEF Types
    <3> QED
      BY <3>1, Ranges DEF Local, PCs
  <2>2. CASE FlushRound(t, g)
    BY <1>2, <2>2, FlushRoundType DEF Types, shared, locks
  <2>3. CASE th' = [th EXCEPT ![t].pc = "insert", ![t].gap = 0]
    <3>1. th' = [th EXCEPT ![t] = x]
      BY <2>3 DEF Types, Local
    <3> QED
      BY <1>2, <2>1, <3>1, LocalStep DEF Types, shared, locks
  <2> QED
    BY <1>2, <2>2, <2>3
<1>3. th[t].eid \in Int /\ th[t].gap \in Int /\ AcsGap \in Int
  BY WidthAssumption DEF Types, Local
<1>4. CheckFull(t) => Types'
  <2>1. ASSUME CheckFull(t) PROVE th[t].core \in Core
    BY <2>1 DEF CheckFull, At, Types
  <2> QED
    BY <1>2, <1>3, <2>1 DEF CheckFull
<1>5. CheckFullAgain(t) => Types'
  <2>1. ASSUME CheckFullAgain(t) PROVE th[t].core \in Core
    BY <2>1 DEF CheckFullAgain, At, Types
  <2> QED
    BY <1>2, <1>3, <2>1 DEF CheckFullAgain
<1>6. ASSUME Insert(t), th[t].block \in Block
      PROVE  Types'
  <2> DEFINE entry == UndoEntry(next_id, th[t].block, block_eid[th[t].block], th[t].eid)
  <2>1. entry \in UndoEntryType
    BY <1>6, EntryType
  <2>2. /\ made' = made \cup {entry}
        /\ raced' \in SUBSET made'
        /\ buffer' \in [Core -> SUBSET made']
        /\ log' \in [Core -> SUBSET made']
    BY <1>6 DEF Insert, Types, insertUndoEntry
  <2>3. /\ th' \in [Thread -> Local']
        /\ \A u \in Thread : th'[u].pc \notin {"idle", "hook"} => th'[u].core \in Core
    <3>1. Local \subseteq Local'
      BY <2>2 DEF Local
    <3> QED
      BY <1>6, <3>1, IdleType DEF Insert, Types
  <2>4. /\ block_eid' \in [Block -> 0..MaxEid]
        /\ next_id' \in Nat
        /\ stack_lock' \in [Block -> Thread \cup {NoThread}]
    BY <1>6 DEF Insert, Types, Local
  <2> QED
    BY <1>6, <2>1, <2>2, <2>3, <2>4 DEF Insert, Types
<1>7. AssertFails(t) => Types'
  BY DEF AssertFails, Types, Local, shared, locks
<1>8. \A b \in Block : RefillCacheBlock(t, b) => Types'
  BY WidthAssumption DEF RefillCacheBlock, Types, Local, locks
<1> QED
  BY <1>1, <1>4, <1>5, <1>6, <1>7, <1>8

LEMMA FlushStepTypes ==
  ASSUME Types, NEW t \in Thread
  PROVE  /\ Collect(t) => Types'
         /\ Erase(t) => Types'
         /\ SendDataToNVM(t) => Types'
         /\ SetPersisted(t) => Types'
<1>1. ASSUME Collect(t) PROVE Types'
  <2> DEFINE q == FlushedEntries(buffer[th[t].core], th[t].target, system_eid)
             x == [th[t] EXCEPT !.queue = q,
                                !.pc = IF th[t].target = system_eid THEN "clear" ELSE "erase"]
  <2>1. th[t].core \in Core
    BY <1>1 DEF Collect, At, Types
  <2>2. q \in SUBSET made
    BY <2>1 DEF FlushedEntries, OldEntries, Types
  <2>3. x \in Local /\ x.core \in Core
    BY <2>1, <2>2, ZenonT(40) DEF Types, Local, PCs
  <2>4. th' = [th EXCEPT ![t] = x]
    BY <1>1 DEF Collect, Types, Local
  <2> HIDE DEF q, x
  <2> QED
    BY <1>1, <2>3, <2>4, LocalStep DEF Collect, Types, shared, locks
<1>2. ASSUME Erase(t) PROVE Types'
  <2> DEFINE x == [th[t] EXCEPT !.pc = "send"]
  <2>1. th[t].core \in Core
    BY <1>2 DEF Erase, At, Types
  <2>2. x \in Local /\ x.core \in Core /\ th' = [th EXCEPT ![t] = x]
    BY <1>2, <2>1, SMTT(30) DEF Erase, Types, Local, PCs
  <2>3. buffer' \in [Core -> SUBSET made]
    BY <1>2, <2>1 DEF Erase, Types
  <2> QED
    BY <1>2, <2>2, <2>3, LocalStep DEF Erase, Types, locks
<1>3. ASSUME SendDataToNVM(t) PROVE Types'
  <2> DEFINE x == [th[t] EXCEPT !.pc = "persist", !.queue = {}]
  <2>1. th[t].core \in Core
    BY <1>3 DEF SendDataToNVM, At, Types
  <2>2. x \in Local /\ x.core \in Core /\ th' = [th EXCEPT ![t] = x]
    BY <1>3, <2>1, ZenonT(40) DEF SendDataToNVM, Types, Local, PCs
  <2>3. log' \in [Core -> SUBSET made]
    BY <1>3, <2>1 DEF SendDataToNVM, Types, Local
  <2> QED
    BY <1>3, <2>2, <2>3, LocalStep DEF SendDataToNVM, Types, locks
<1>4. ASSUME SetPersisted(t) PROVE Types'
  <2>1. th[t].core \in Core /\ th[t] \in Local
    BY <1>4 DEF SetPersisted, At, Types
  <2>2. CASE th[t].op = "write"
    <3> DEFINE y == [th[t] EXCEPT !.pc = "again", !.target = 0]
    <3>1. y \in Local /\ y.core \in Core
      BY <2>1, Ranges DEF Local, PCs
    <3>2. th' = [th EXCEPT ![t] = y]
      BY <1>4, <2>2 DEF SetPersisted, Types
    <3> HIDE DEF y
    <3> QED
      BY <1>4, <2>1, <3>1, <3>2, LocalStep DEF SetPersisted, Types, Local, locks
  <2>3. CASE th[t].op # "write"
    <3> DEFINE y == [Idle EXCEPT !.pc = "hook", !.op = th[t].op,
                                 !.todo = th[t].todo \ {th[t].core}]
    <3>1. y \in Local /\ y.pc = "hook"
      BY <2>1, IdleType DEF Local, PCs
    <3>2. th' = [th EXCEPT ![t] = y]
      BY <1>4, <2>3 DEF SetPersisted, Types
    <3> HIDE DEF y
    <3> QED
      BY <1>4, <2>1, <3>1, <3>2, LocalStep DEF SetPersisted, Types, Local, locks
  <2> QED
    BY <2>2, <2>3
<1> QED
  BY <1>1, <1>2, <1>3, <1>4

LEMMA HookStepTypes ==
  ASSUME Types, NEW t \in Thread
  PROVE  /\ BeginPeriodicHook(t) => Types'
         /\ \A c \in Core : AsyncCacheScan(t, c) => Types'
         /\ Increment(t) /\ system_eid < MaxEid => Types'
         /\ BeginExitHook(t) => Types'
         /\ \A c \in Core : PersistLastEpochs(t, c) => Types'
         /\ EndExitHook(t) => Types'
<1>1. ASSUME NEW op \in Ops, th' = [th EXCEPT ![t] = [Idle EXCEPT !.pc = "hook", !.op = op,
                                                                  !.todo = Core]],
             UNCHANGED shared, UNCHANGED stack_lock,
             hook_lock' \in Thread \cup {NoThread}, exit_lock' \in Thread \cup {NoThread}
      PROVE  Types'
  <2> DEFINE x == [Idle EXCEPT !.pc = "hook", !.op = op, !.todo = Core]
  <2>1. x \in Local /\ x.pc = "hook"
    BY IdleType DEF Local, PCs
  <2>2. th' = [th EXCEPT ![t] = x]
    BY <1>1
  <2> HIDE DEF x
  <2> QED
    BY <1>1, <2>1, <2>2, LocalStep DEF Types, shared
<1>2. BeginPeriodicHook(t) => Types'
  BY <1>1 DEF BeginPeriodicHook, Types, Ops
<1>3. BeginExitHook(t) => Types'
  BY <1>1 DEF BeginExitHook, Types, Ops
<1>4. th[t] \in Local
  BY DEF Types
<1>5. system_eid \in 0..MaxEid /\ system_eid \in 0..(EidMod - 1)
  BY WidthAssumption DEF Types
<1>6. ASSUME NEW c \in Core, AsyncCacheScan(t, c)
      PROVE  Types'
  <2>1. CASE system_eid >= AcsGap
    <3> DEFINE x == [th[t] EXCEPT !.pc = "collect", !.core = c, !.eid = system_eid,
                                  !.target = system_eid - AcsGap]
    <3>1. system_eid - AcsGap \in 0..(EidMod - 1)
      BY <1>5, <2>1, WidthAssumption
    <3>2. x \in Local /\ x.core \in Core
      BY <1>4, <1>5, <3>1 DEF Local, PCs
    <3>3. th' = [th EXCEPT ![t] = x]
      BY <1>6, <2>1 DEF AsyncCacheScan, Types
    <3> HIDE DEF x
    <3> QED
      BY <1>6, <3>2, <3>3, LocalStep DEF AsyncCacheScan, Types, shared, locks
  <2>2. CASE ~(system_eid >= AcsGap)
    <3> DEFINE x == [th[t] EXCEPT !.todo = th[t].todo \ {c}]
    <3>1. x \in Local /\ x.pc = th[t].pc
      BY <1>4 DEF Local
    <3>2. th' = [th EXCEPT ![t] = x]
      BY <1>6, <2>2 DEF AsyncCacheScan, Types
    <3>3. x.pc = "hook"
      BY <1>6, <3>1 DEF AsyncCacheScan, At
    <3> HIDE DEF x
    <3> QED
      BY <1>6, <3>1, <3>2, <3>3, LocalStep DEF AsyncCacheScan, Types, shared, locks
  <2> QED
    BY <2>1, <2>2
<1>7. ASSUME NEW c \in Core, PersistLastEpochs(t, c)
      PROVE  Types'
  <2> DEFINE x == [th[t] EXCEPT !.pc = "collect", !.core = c, !.eid = system_eid,
                                !.target = system_eid]
  <2>1. x \in Local /\ x.core \in Core
    BY <1>4, <1>5 DEF Local, PCs
  <2>2. th' = [th EXCEPT ![t] = x]
    BY <1>7 DEF PersistLastEpochs, Types
  <2> HIDE DEF x
  <2> QED
    BY <1>7, <2>1, <2>2, LocalStep DEF PersistLastEpochs, Types, shared, locks
<1>8. ASSUME Increment(t), system_eid < MaxEid
      PROVE  Types'
  <2>1. system_eid' \in 1..MaxEid
    BY <1>8, WidthAssumption DEF Increment, Types
  <2> QED
    BY <1>8, <2>1, LocalStep, IdleType DEF Increment, Types
<1>9. EndExitHook(t) => Types'
  BY LocalStep, IdleType DEF EndExitHook, Types, shared
<1> QED
  BY <1>2, <1>3, <1>6, <1>7, <1>8, <1>9

-----------------------------------------------------------------------------
(* Locks                                                                   *)

LEMMA InitLockInv == Init => LockInv
  BY InitTypes DEF Init, LockInv, ScannerHoldsLock, WriterHoldsLock, BlocksNotAhead, Idle

\* A step changes the locals of the thread that makes it, and of no other.
LEMMA OtherLocals ==
  ASSUME Types, NEW t \in Thread, Begin(t) \/ Continue(t)
  PROVE  \A u \in Thread \ {t} : th'[u] = th[u]
  BY DEF Begin, Continue, BeginWrite, RefillCacheBlock, BeginPeriodicHook, BeginExitHook,
         CheckFull, CheckFullAgain, FlushRound, Insert, AssertFails, Collect, Erase,
         SendDataToNVM, SetPersisted, Increment, EndExitHook, AsyncCacheScan,
         PersistLastEpochs, Types

\* Steps inside an operation of t that keep what the operation is about.
LEMMA InnerStep ==
  ASSUME LockInv, NEW t \in Thread,
         \A u \in Thread \ {t} : th'[u] = th[u],
         th'[t].op = th[t].op,
         th'[t].pc \in {"check", "again", "insert"} => th[t].op = "write",
         th[t].op = "write" => th'[t].block = th[t].block /\ th'[t].eid = th[t].eid,
         UNCHANGED <<system_eid, block_eid, stack_lock, hook_lock>>
  PROVE  ScannerHoldsLock' /\ WriterHoldsLock' /\ BlocksNotAhead'
  BY DEF LockInv, Types, ScannerHoldsLock, WriterHoldsLock, BlocksNotAhead

LEMMA WriteStepLockInv ==
  ASSUME LockInv, NEW t \in Thread
  PROVE  /\ \A c \in Core, b \in Block : BeginWrite(t, c, b) => LockInv'
         /\ CheckFull(t) => LockInv'
         /\ CheckFullAgain(t) => LockInv'
         /\ Insert(t) => LockInv'
         /\ AssertFails(t) => LockInv'
         /\ \A b \in Block : RefillCacheBlock(t, b) => LockInv'
<1> USE DEF LockInv
<1>1. ASSUME NEW c \in Core, NEW b \in Block, BeginWrite(t, c, b)
      PROVE  LockInv'
  <2>1. th'[t].pc = "check" /\ th'[t].op = "write" /\ th'[t].block = b /\ th'[t].eid = system_eid
    BY <1>1 DEF BeginWrite, Types, Idle
  <2>2. \A u \in Thread \ {t} : th'[u] = th[u]
    BY <1>1, OtherLocals DEF Begin
  <2>3. block_eid[b] < system_eid
    BY <1>1 DEF BeginWrite, BlocksNotAhead, Types
  <2>4. ScannerHoldsLock' /\ BlocksNotAhead'
    BY <1>1, <2>1, <2>2 DEF BeginWrite, shared, ScannerHoldsLock, BlocksNotAhead
  <2>5. WriterHoldsLock'
    BY <1>1, <2>1, <2>2, <2>3, ThreadAssumption DEF BeginWrite, shared, WriterHoldsLock, Types
  <2> QED
    BY <1>1, <2>4, <2>5, WriteStepTypes
<1>2. ASSUME CheckFull(t) \/ CheckFullAgain(t)
      PROVE  LockInv'
  <2>1. \A u \in Thread \ {t} : th'[u] = th[u]
    BY <1>2, OtherLocals DEF Continue
  <2>2. /\ th[t].op = "write"
        /\ th'[t].op = th[t].op /\ th'[t].block = th[t].block /\ th'[t].eid = th[t].eid
    BY <1>2 DEF CheckFull, CheckFullAgain, FlushRound, At, Types, Local, WriterHoldsLock
  <2> QED
    BY <1>2, <2>1, <2>2, InnerStep, WriteStepTypes DEF CheckFull, CheckFullAgain, shared, locks
<1>3. ASSUME Insert(t)
      PROVE  LockInv'
  <2>1. \A u \in Thread \ {t} : th'[u] = th[u]
    BY <1>3, OtherLocals DEF Continue
  <2>2. th[t].op = "write"
    BY <1>3 DEF Insert, At, WriterHoldsLock
  <2>3. th[t].block \in Block /\ stack_lock[th[t].block] = t /\ th[t].eid <= system_eid
    BY <2>2 DEF WriterHoldsLock
  <2>4. th'[t].pc = "idle" /\ th'[t].op = "none"
    BY <1>3 DEF Insert, Types, Idle
  <2>5. ScannerHoldsLock' /\ BlocksNotAhead'
    BY <1>3, <2>1, <2>3, <2>4 DEF Insert, ScannerHoldsLock, BlocksNotAhead, Types
  <2>6. \A u \in Thread \ {t} : th[u].op = "write" => th[u].block # th[t].block
    BY <2>3 DEF WriterHoldsLock
  <2>7. WriterHoldsLock'
    BY <1>3, <2>1, <2>4, <2>6 DEF Insert, WriterHoldsLock, Types
  <2> QED
    BY <1>3, <2>3, <2>5, <2>7, WriteStepTypes
<1>4. ASSUME AssertFails(t)
      PROVE  LockInv'
  BY <1>4, WriteStepTypes DEF AssertFails, shared, locks, ScannerHoldsLock, WriterHoldsLock,
                              BlocksNotAhead
<1>5. ASSUME NEW b \in Block, RefillCacheBlock(t, b)
      PROVE  LockInv'
  <2>1. \A u \in Thread : th[u].op = "write" => th[u].block # b
    BY <1>5, ThreadAssumption DEF RefillCacheBlock, WriterHoldsLock
  <2>2. ScannerHoldsLock' /\ BlocksNotAhead'
    BY <1>5 DEF RefillCacheBlock, ScannerHoldsLock, BlocksNotAhead, Types, locks
  <2>3. WriterHoldsLock'
    BY <1>5, <2>1 DEF RefillCacheBlock, WriterHoldsLock, Types, locks
  <2> QED
    BY <1>5, <2>2, <2>3, WriteStepTypes
<1> QED
  BY <1>1, <1>2, <1>3, <1>4, <1>5

LEMMA FlushStepLockInv ==
  ASSUME LockInv, NEW t \in Thread, Collect(t) \/ Erase(t) \/ SendDataToNVM(t) \/ SetPersisted(t)
  PROVE  LockInv'
<1>1. \A u \in Thread \ {t} : th'[u] = th[u]
  BY OtherLocals DEF Continue, LockInv
<1>2. Types'
  BY FlushStepTypes DEF LockInv
<1>3. CASE Collect(t) \/ Erase(t) \/ SendDataToNVM(t)
  <2>1. /\ th'[t].op = th[t].op /\ th'[t].block = th[t].block /\ th'[t].eid = th[t].eid
        /\ th'[t].pc \notin {"check", "again", "insert"}
    BY <1>3 DEF Collect, Erase, SendDataToNVM, LockInv, Types, Local
  <2> QED
    BY <1>1, <1>2, <1>3, <2>1, InnerStep
       DEF Collect, Erase, SendDataToNVM, LockInv, shared, locks
<1>4. CASE SetPersisted(t)
  <2>1. /\ th'[t].op = th[t].op
        /\ th'[t].pc \in {"check", "again", "insert"} => th[t].op = "write"
        /\ th[t].op = "write" => th'[t].block = th[t].block /\ th'[t].eid = th[t].eid
    BY <1>4 DEF SetPersisted, LockInv, Types, Local, Idle
  <2> QED
    BY <1>1, <1>2, <1>4, <2>1, InnerStep DEF SetPersisted, LockInv, locks
<1> QED
  BY <1>3, <1>4

LEMMA HookStepLockInv ==
  ASSUME LockInv, NEW t \in Thread
  PROVE  /\ BeginPeriodicHook(t) => LockInv'
         /\ \A c \in Core : AsyncCacheScan(t, c) => LockInv'
         /\ Increment(t) => LockInv'
         /\ BeginExitHook(t) => LockInv'
         /\ \A c \in Core : PersistLastEpochs(t, c) => LockInv'
         /\ EndExitHook(t) => LockInv'
<1> USE DEF LockInv
<1>1. ASSUME BeginPeriodicHook(t)
      PROVE  LockInv'
  <2>1. \A u \in Thread \ {t} : th'[u] = th[u] /\ th[u].op # "scan"
    BY <1>1, OtherLocals, ThreadAssumption DEF Begin, BeginPeriodicHook, ScannerHoldsLock
  <2>2. th'[t].pc = "hook" /\ th'[t].op = "scan"
    BY <1>1 DEF BeginPeriodicHook, Types, Idle
  <2> QED
    BY <1>1, <2>1, <2>2, HookStepTypes, ZenonT(40)
       DEF BeginPeriodicHook, shared, ScannerHoldsLock, WriterHoldsLock, BlocksNotAhead
<1>2. ASSUME BeginExitHook(t)
      PROVE  LockInv'
  <2>1. \A u \in Thread \ {t} : th'[u] = th[u]
    BY <1>2, OtherLocals DEF Begin
  <2>2. th'[t].pc = "hook" /\ th'[t].op = "exit"
    BY <1>2 DEF BeginExitHook, Types, Idle
  <2> QED
    BY <1>2, <2>1, <2>2, HookStepTypes, ZenonT(40)
       DEF BeginExitHook, shared, ScannerHoldsLock, WriterHoldsLock, BlocksNotAhead
<1>3. ASSUME NEW c \in Core, AsyncCacheScan(t, c) \/ PersistLastEpochs(t, c)
      PROVE  LockInv'
  <2>1. \A u \in Thread \ {t} : th'[u] = th[u]
    BY <1>3, OtherLocals DEF Continue
  <2>2. th'[t].op = th[t].op /\ th[t].op # "write" /\ th'[t].pc \in {"collect", "hook"}
    <3>1. th[t] \in Local /\ th \in [Thread -> Local]
      BY DEF Types
    <3>2. CASE PersistLastEpochs(t, c)
      BY <3>1, <3>2 DEF PersistLastEpochs, Local
    <3>3. CASE AsyncCacheScan(t, c) /\ system_eid >= AcsGap
      BY <3>1, <3>3 DEF AsyncCacheScan, Local
    <3>4. CASE AsyncCacheScan(t, c) /\ ~(system_eid >= AcsGap)
      BY <3>1, <3>4 DEF AsyncCacheScan, At, Local
    <3> QED
      BY <1>3, <3>2, <3>3, <3>4
  <2> QED
    BY <1>3, <2>1, <2>2, InnerStep, HookStepTypes
       DEF AsyncCacheScan, PersistLastEpochs, shared, locks
<1>4. ASSUME Increment(t)
      PROVE  LockInv'
  <2>1. system_eid < MaxEid /\ hook_lock = t
    BY <1>4 DEF Increment, ScannerHoldsLock
  <2>2. \A u \in Thread \ {t} : th'[u] = th[u] /\ th[u].op # "scan"
    BY <1>4, <2>1, OtherLocals DEF Continue, ScannerHoldsLock
  <2>3. th'[t].pc = "idle" /\ th'[t].op = "none"
    BY <1>4 DEF Increment, Types, Idle
  <2>4. ScannerHoldsLock'
    BY <2>2, <2>3 DEF ScannerHoldsLock
  <2>5. WriterHoldsLock' /\ BlocksNotAhead'
    <3>1. /\ system_eid \in Nat /\ system_eid' = system_eid + 1
          /\ \A b \in Block : block_eid[b] \in Nat
          /\ \A u \in Thread : th[u].eid \in Nat
          /\ UNCHANGED <<block_eid, stack_lock>>
      BY <1>4, WidthAssumption DEF Increment, Types, Local
    <3> QED
      BY <2>2, <2>3, <3>1 DEF WriterHoldsLock, BlocksNotAhead
  <2> QED
    BY <1>4, <2>1, <2>4, <2>5, HookStepTypes
<1>5. ASSUME EndExitHook(t)
      PROVE  LockInv'
  <2>1. \A u \in Thread \ {t} : th'[u] = th[u]
    BY <1>5, OtherLocals DEF Continue
  <2>2. th'[t].pc = "idle" /\ th'[t].op = "none"
    BY <1>5 DEF EndExitHook, Types, Idle
  <2> QED
    BY <1>5, <2>1, <2>2, HookStepTypes, ZenonT(40)
       DEF EndExitHook, shared, ScannerHoldsLock, WriterHoldsLock, BlocksNotAhead
<1> QED
  BY <1>1, <1>2, <1>3, <1>4, <1>5

LEMMA NextLockInv == LockInv /\ [Next]_vars => LockInv'
<1>1. ASSUME LockInv, NEW t \in Thread, Begin(t) \/ Continue(t)
      PROVE  LockInv'
  BY <1>1, WriteStepLockInv, FlushStepLockInv, HookStepLockInv DEF Begin, Continue
<1>2. ASSUME LockInv, UNCHANGED vars
      PROVE  LockInv'
  BY <1>2 DEF vars, LockInv, Types, Local, ScannerHoldsLock, WriterHoldsLock, BlocksNotAhead
<1> QED
  BY <1>1, <1>2 DEF Next

-----------------------------------------------------------------------------
(* The chain of a block's entries                                          *)

\* The entries of a chain that cover epoch n.
Covering(b, n) == {e \in Chain(b) : e.from <= n /\ n < e.till}

\* A step that neither makes entries nor changes lines keeps the chains.
LEMMA ChainStutter ==
  ASSUME ChainInv, LockInv', UNCHANGED <<made, block_eid, next_id, filled_at>>
  PROVE  ChainInv'
  BY DEF ChainInv, IdsBounded, UndoChainUnderRaces, Chain, LockInv, BlocksNotAhead

\* The new entry goes on where the chain of its block ended.
LEMMA InsertKeepsChain ==
  ASSUME ChainInv, NEW t \in Thread, Insert(t)
  PROVE  ChainInv'
<1> DEFINE k == th[t].block
           entry == UndoEntry(next_id, k, block_eid[k], th[t].eid)
<1>1. LockInv'
  BY WriteStepLockInv DEF ChainInv
<1>2. /\ k \in Block /\ block_eid[k] < th[t].eid
      /\ th[t].eid \in Nat /\ block_eid[k] \in Nat /\ next_id \in Nat
  BY WidthAssumption DEF Insert, At, ChainInv, LockInv, WriterHoldsLock, Types, Local
<1>3. /\ entry.id = next_id /\ entry.tag = k
      /\ entry.from = block_eid[k] /\ entry.till = th[t].eid
  BY DEF UndoEntry
<1>4. /\ made' = made \cup {entry} /\ next_id' = next_id + 1 /\ filled_at' = filled_at
      /\ block_eid' = [block_eid EXCEPT ![k] = th[t].eid]
  BY DEF Insert
<1>5. \A e \in made : e.id \in Nat /\ e.from \in Nat /\ e.till \in Nat
  BY DEF ChainInv, LockInv, Types, UndoEntryType
<1>6. \A b \in Block : filled_at[b] \in Nat /\ block_eid[b] \in Nat
  BY WidthAssumption DEF ChainInv, LockInv, Types
<1> HIDE DEF entry
<1>7. IdsBounded'
  BY <1>2, <1>3, <1>4, <1>5, <1>6 DEF IdsBounded, ChainInv
<1>8. \A b \in Block : Chain(b)' = Chain(b) \cup (IF b = k THEN {entry} ELSE {})
  <2>1. filled_at[k] <= next_id
    BY <1>2 DEF ChainInv, IdsBounded
  <2> QED
    BY <1>2, <1>3, <1>4, <2>1 DEF Chain
<1>9. \A b \in Block : block_eid'[b] <= system_eid'
  BY <1>1 DEF LockInv, BlocksNotAhead
<1>10. ASSUME NEW b \in Block
       PROVE  /\ \A e \in Chain(b)' : e.from < e.till /\ e.till <= block_eid'[b]
              /\ \A n \in 0..(block_eid'[b] - 1) : Cardinality(Covering(b, n)') = 1
  <2>1. /\ \A e \in Chain(b) : e.from < e.till /\ e.till <= block_eid[b]
        /\ \A n \in 0..(block_eid[b] - 1) : Cardinality(Covering(b, n)) = 1
    BY DEF ChainInv, UndoChainUnderRaces, Covering
  <2>2. CASE b # k
    <3>1. Chain(b)' = Chain(b) /\ block_eid'[b] = block_eid[b]
      BY <1>4, <1>8, <2>2 DEF ChainInv, LockInv, Types
    <3>2. \A n : Covering(b, n)' = Covering(b, n)
      BY <3>1 DEF Covering
    <3> QED
      BY <2>1, <3>1, <3>2
  <2>3. CASE b = k
    <3>1. Chain(b)' = Chain(b) \cup {entry} /\ block_eid'[b] = th[t].eid
      BY <1>2, <1>4, <1>8, <2>3 DEF ChainInv, LockInv, Types
    <3>2. Chain(b) \subseteq made
      BY DEF Chain
    <3>3. \A e \in Chain(b)' : e.from < e.till /\ e.till <= block_eid'[b]
      BY <1>2, <1>3, <1>5, <2>1, <2>3, <3>1, <3>2
    <3>4. ASSUME NEW n \in 0..(block_eid'[b] - 1)
          PROVE  Cardinality(Covering(b, n)') = 1
      <4>1. CASE n < block_eid[b]
        <5>1. Covering(b, n)' = Covering(b, n)
          BY <1>2, <1>3, <2>3, <3>1, <4>1 DEF Covering
        <5> QED
          BY <1>2, <2>1, <2>3, <4>1, <5>1
      <4>2. CASE ~(n < block_eid[b])
        <5>1. Covering(b, n)' = {entry}
          BY <1>2, <1>3, <1>5, <2>1, <2>3, <3>1, <3>2, <4>2 DEF Covering
        <5> QED
          BY <5>1, FS_Singleton
      <4> QED
        BY <4>1, <4>2
    <3> QED
      BY <3>3, <3>4
  <2> QED
    BY <2>2, <2>3
<1> QED
  BY <1>1, <1>7, <1>9, <1>10 DEF ChainInv, UndoChainUnderRaces, Covering

LEMMA RefillKeepsChain ==
  ASSUME ChainInv, NEW t \in Thread, NEW k \in Block, RefillCacheBlock(t, k)
  PROVE  ChainInv'
<1>1. LockInv'
  BY WriteStepLockInv DEF ChainInv
<1>2. /\ block_eid' = [block_eid EXCEPT ![k] = 0]
      /\ filled_at' = [filled_at EXCEPT ![k] = next_id]
      /\ UNCHANGED <<made, next_id>>
  BY DEF RefillCacheBlock
<1>3. /\ block_eid \in [Block -> Nat] /\ filled_at \in [Block -> Nat] /\ next_id \in Nat
      /\ \A e \in made : e.id \in Nat
  BY WidthAssumption DEF ChainInv, LockInv, Types, UndoEntryType
<1>4. IdsBounded'
  BY <1>2, <1>3 DEF ChainInv, IdsBounded
<1>5. \A b \in Block \ {k} : Chain(b)' = Chain(b) /\ block_eid'[b] = block_eid[b]
  BY <1>2, <1>3 DEF Chain
<1>6. Chain(k)' = {} /\ block_eid'[k] = 0
  BY <1>2, <1>3 DEF Chain, ChainInv, IdsBounded
<1>7. \A b \in Block : block_eid'[b] <= system_eid'
  BY <1>1 DEF LockInv, BlocksNotAhead
<1>8. UndoChainUnderRaces'
  BY <1>5, <1>6, <1>7 DEF ChainInv, UndoChainUnderRaces
<1> QED
  BY <1>1, <1>4, <1>8 DEF ChainInv

LEMMA InitChainInv == Init => ChainInv
<1>1. ASSUME Init PROVE LockInv /\ IdsBounded
  BY <1>1, InitLockInv DEF Init, IdsBounded
<1>2. ASSUME Init PROVE UndoChainUnderRaces
  <2>1. \A b \in Block : Chain(b) = {} /\ block_eid[b] = 0 /\ system_eid = 1
    BY <1>2 DEF Init, Chain
  <2> QED
    BY <2>1 DEF UndoChainUnderRaces
<1> QED
  BY <1>1, <1>2 DEF ChainInv

LEMMA NextChainInv == ChainInv /\ [Next]_vars => ChainInv'
<1> SUFFICES ASSUME ChainInv, [Next]_vars PROVE ChainInv'
  OBVIOUS
<1>1. LockInv'
  BY NextLockInv DEF ChainInv
<1>2. ASSUME NEW t \in Thread, Continue(t), ~Insert(t)
      PROVE  UNCHANGED <<made, block_eid, next_id, filled_at>>
  BY <1>2 DEF Continue, CheckFull, CheckFullAgain, AssertFails, Collect, Erase, SendDataToNVM,
              SetPersisted, Increment, EndExitHook, AsyncCacheScan, PersistLastEpochs, shared
<1>3. ASSUME NEW t \in Thread, Begin(t), ~(\E b \in Block : RefillCacheBlock(t, b))
      PROVE  UNCHANGED <<made, block_eid, next_id, filled_at>>
  BY <1>3 DEF Begin, BeginWrite, BeginPeriodicHook, BeginExitHook, shared
<1>4. UNCHANGED vars => UNCHANGED <<made, block_eid, next_id, filled_at>>
  BY DEF vars
<1> QED
  BY <1>1, <1>2, <1>3, <1>4, ChainStutter, InsertKeepsChain, RefillKeepsChain DEF Next

-----------------------------------------------------------------------------
(* Lost entries                                                            *)

LEMMA InKept ==
  ASSUME NEW e
  PROVE  /\ e \in Kept <=> \/ \E c \in Core : e \in buffer[c] \/ e \in log[c]
                           \/ \E t \in Thread : e \in th[t].queue
         /\ e \in Kept' <=> \/ \E c \in Core : e \in buffer'[c] \/ e \in log'[c]
                            \/ \E t \in Thread : e \in th'[t].queue
  BY DEF Kept

\* A step that neither touches buffers, logs, entries nor queues, and does not
\* begin or end a copy, loses nothing.
LEMMA LossStutter ==
  ASSUME LossInv, LockInv', NEW t \in Thread,
         \A u \in Thread \ {t} : th'[u] = th[u],
         th[t].pc \notin {"clear", "erase", "send"},
         th'[t].pc \notin {"clear", "erase", "send"}, th'[t].queue = th[t].queue,
         UNCHANGED <<made, raced, buffer, log>>
  PROVE  LossInv'
<1>1. \A u \in Thread : th'[u].queue = th[u].queue
  OBVIOUS
<1>2. Kept' = Kept
  BY <1>1 DEF Kept
<1>3. CopiesCover'
  BY DEF LossInv, CopiesCover
<1> QED
  BY <1>2, <1>3 DEF LossInv, OnlyRacedEntriesLost

\* An entry that comes in during a copy is marked as raced.
LEMMA InsertLosesNothing ==
  ASSUME LossInv, NEW t \in Thread, Insert(t)
  PROVE  LossInv'
<1> DEFINE c == th[t].core
           entry == UndoEntry(next_id, th[t].block, block_eid[th[t].block], th[t].eid)
<1>1. LockInv'
  BY WriteStepLockInv DEF LossInv
<1>2. c \in Core
  BY DEF Insert, At, LossInv, LockInv, Types
<1>3. /\ buffer' = [buffer EXCEPT ![c] = buffer[c] \cup {entry}] /\ log' = log
      /\ made' = made \cup {entry}
      /\ raced \subseteq raced'
      /\ (\E u \in Thread : Flushing(u, c)) => entry \in raced'
  BY DEF Insert, insertUndoEntry
<1>4. /\ \A u \in Thread \ {t} : th'[u] = th[u]
      /\ th[t].pc = "insert" /\ th'[t].pc = "idle" /\ th[t].queue = {} /\ th'[t].queue = {}
  BY OtherLocals DEF Continue, Insert, At, LossInv, LockInv, Types, Idle, CopiesCover
<1> HIDE DEF entry
<1>5. CopiesCover'
  <2>1. ASSUME NEW u \in Thread, th'[u].pc \in {"clear", "erase"}
        PROVE  /\ u # t /\ th'[u] = th[u] /\ th[u].core \in Core
               /\ buffer'[th[u].core] \subseteq buffer[th[u].core] \cup raced'
    <3>1. u # t /\ th'[u] = th[u] /\ th[u].core \in Core
      BY <1>4, <2>1 DEF LossInv, LockInv, Types
    <3>2. th[u].core = c => entry \in raced'
      BY <1>3, <2>1, <3>1 DEF Flushing
    <3> QED
      BY <1>2, <1>3, <3>1, <3>2 DEF LossInv, LockInv, Types
  <2> QED
    BY <1>3, <1>4, <2>1 DEF LossInv, CopiesCover, OldEntries
<1>6. Kept \cup {entry} \subseteq Kept'
  <2>1. \A d \in Core : buffer[d] \cup log[d] \subseteq buffer'[d] \cup log'[d]
    BY <1>2, <1>3 DEF LossInv, LockInv, Types
  <2>2. entry \in buffer'[c]
    BY <1>2, <1>3 DEF LossInv, LockInv, Types
  <2>3. \A u \in Thread : th[u].queue = th'[u].queue
    BY <1>4
  <2> QED
    BY <1>2, <2>1, <2>2, <2>3, InKept
<1> QED
  BY <1>1, <1>3, <1>5, <1>6 DEF LossInv, OnlyRacedEntriesLost

\* What the erase drops is in the queue or raced.
LEMMA EraseLosesRaced ==
  ASSUME LossInv, NEW t \in Thread, Erase(t)
  PROVE  LossInv'
<1> DEFINE c == th[t].core
<1>1. LockInv'
  BY FlushStepLockInv DEF LossInv
<1>2. c \in Core /\ th[t].pc \in {"clear", "erase"}
  BY DEF Erase, At, LossInv, LockInv, Types
<1>3. /\ \A u \in Thread \ {t} : th'[u] = th[u]
      /\ th'[t].pc = "send" /\ th'[t].queue = th[t].queue
  BY OtherLocals DEF Continue, Erase, LossInv, LockInv, Types, Local
<1>4. UNCHANGED <<made, raced, log>>
  BY DEF Erase
<1>5. /\ \A d \in Core : buffer'[d] \subseteq buffer[d]
      /\ \A d \in Core \ {c} : buffer'[d] = buffer[d]
      /\ buffer[c] \ buffer'[c] \subseteq th[t].queue \cup raced
  BY <1>2 DEF Erase, LossInv, CopiesCover, LockInv, Types, OldEntries
<1>6. CopiesCover'
  <2>1. ASSUME NEW u \in Thread, u # t, th[u].pc \in {"clear", "erase"}
        PROVE  th[u].core \in Core
    BY <2>1 DEF LossInv, LockInv, Types
  <2> QED
    BY <1>3, <1>4, <1>5, <2>1 DEF LossInv, CopiesCover, OldEntries
<1>7. \A e \in Kept : e \in Kept' \/ e \in raced
  <2>1. \A u \in Thread : th'[u].queue = th[u].queue
    BY <1>3
  <2> QED
    BY <1>2, <1>4, <1>5, <2>1, InKept
<1> QED
  BY <1>1, <1>4, <1>6, <1>7 DEF LossInv, OnlyRacedEntriesLost

\* The copy of a flush: the queue was empty.
LEMMA CollectLosesNothing ==
  ASSUME LossInv, NEW t \in Thread, Collect(t)
  PROVE  LossInv'
<1> DEFINE c == th[t].core
<1>1. LockInv'
  BY FlushStepLockInv DEF LossInv
<1>2. th[t].pc = "collect" /\ th[t].queue = {}
  BY DEF Collect, At, LossInv, CopiesCover
<1>3. /\ \A u \in Thread \ {t} : th'[u] = th[u]
      /\ th'[t].queue = FlushedEntries(buffer[c], th[t].target, system_eid)
      /\ th'[t].pc = IF th[t].target = system_eid THEN "clear" ELSE "erase"
      /\ th'[t].core = c /\ th'[t].target = th[t].target
  <2>1. \A u \in Thread \ {t} : th'[u] = th[u]
    BY OtherLocals DEF Continue, LossInv, LockInv
  <2>2. th \in [Thread -> Local] /\ th[t] \in Local
    BY DEF LossInv, LockInv, Types
  <2>3. /\ th'[t].queue = FlushedEntries(buffer[c], th[t].target, system_eid)
        /\ th'[t].pc = IF th[t].target = system_eid THEN "clear" ELSE "erase"
        /\ th'[t].core = c /\ th'[t].target = th[t].target
    BY <2>2 DEF Collect, Local
  <2> QED
    BY <2>1, <2>3
<1>4. UNCHANGED <<made, raced, buffer, log>>
  BY DEF Collect, shared
<1>5. CopiesCover'
  BY <1>3, <1>4 DEF LossInv, CopiesCover, FlushedEntries
<1>6. \A e \in Kept : e \in Kept'
  <2>1. \A u \in Thread : th[u].queue \subseteq th'[u].queue
    BY <1>2, <1>3
  <2> QED
    BY <1>4, <2>1, InKept
<1> QED
  BY <1>1, <1>4, <1>5, <1>6 DEF LossInv, OnlyRacedEntriesLost

LEMMA SendLosesNothing ==
  ASSUME LossInv, NEW t \in Thread, SendDataToNVM(t)
  PROVE  LossInv'
<1> DEFINE c == th[t].core
<1>1. LockInv'
  BY FlushStepLockInv DEF LossInv
<1>2. c \in Core
  BY DEF SendDataToNVM, At, LossInv, LockInv, Types
<1>3. /\ \A u \in Thread \ {t} : th'[u] = th[u]
      /\ th'[t].pc = "persist" /\ th'[t].queue = {}
  <2>1. \A u \in Thread \ {t} : th'[u] = th[u]
    BY OtherLocals DEF Continue, LossInv, LockInv
  <2>2. th \in [Thread -> Local] /\ th[t] \in Local
    BY DEF LossInv, LockInv, Types
  <2>3. th'[t].pc = "persist" /\ th'[t].queue = {}
    BY <2>2 DEF SendDataToNVM, Local
  <2> QED
    BY <2>1, <2>3
<1>4. UNCHANGED <<made, raced, buffer>>
  BY DEF SendDataToNVM
<1>5. CopiesCover'
  BY <1>3, <1>4 DEF LossInv, CopiesCover
<1>6. \A e \in Kept : e \in Kept'
  <2>1. th[t].queue \subseteq log'[c] /\ \A d \in Core : log[d] \subseteq log'[d]
    BY <1>2 DEF SendDataToNVM, LossInv, LockInv, Types
  <2> QED
    BY <1>2, <1>3, <1>4, <2>1, InKept
<1> QED
  BY <1>1, <1>4, <1>5, <1>6 DEF LossInv, OnlyRacedEntriesLost

\* The flush that is over has nothing in its queue.
LEMMA PersistLosesNothing ==
  ASSUME LossInv, NEW t \in Thread, SetPersisted(t)
  PROVE  LossInv'
<1>1. LockInv'
  BY FlushStepLockInv DEF LossInv
<1>2. \A u \in Thread \ {t} : th'[u] = th[u]
  BY OtherLocals DEF Continue, LossInv, LockInv
<1>3. th[t].pc = "persist" /\ th[t].queue = {}
  BY DEF SetPersisted, At, LossInv, CopiesCover
<1>4. th'[t].pc \in {"again", "hook"} /\ th'[t].queue = {}
  <2>1. th \in [Thread -> Local] /\ th[t] \in Local
    BY DEF LossInv, LockInv, Types
  <2>2. Idle \in Local /\ Idle.queue = {}
    BY IdleType DEF Idle
  <2> QED
    BY <1>3, <2>1, <2>2 DEF SetPersisted, Local
<1>5. UNCHANGED <<made, raced, buffer, log>>
  BY DEF SetPersisted
<1> QED
  BY <1>1, <1>2, <1>3, <1>4, <1>5, LossStutter

LEMMA InitLossInv == Init => LossInv
<1> SUFFICES ASSUME Init PROVE LossInv
  OBVIOUS
<1>1. LockInv
  BY InitLockInv
<1>2. CopiesCover
  BY DEF Init, CopiesCover, Idle
<1>3. OnlyRacedEntriesLost
  BY DEF Init, OnlyRacedEntriesLost
<1> QED
  BY <1>1, <1>2, <1>3 DEF LossInv

LEMMA NextLossInv == LossInv /\ [Next]_vars => LossInv'
<1> SUFFICES ASSUME LossInv, [Next]_vars PROVE LossInv'
  OBVIOUS
<1>1. LockInv'
  BY NextLockInv DEF LossInv
<1>2. th \in [Thread -> Local] /\ \A t \in Thread : th[t] \in Local
  BY DEF LossInv, LockInv, Types
<1>3. Idle \in Local /\ Idle.pc = "idle" /\ Idle.queue = {}
  BY IdleType DEF Idle
<1>4. ASSUME NEW t \in Thread, Begin(t)
      PROVE  LossInv'
  <2>1. \A u \in Thread \ {t} : th'[u] = th[u]
    BY <1>4, OtherLocals DEF LossInv, LockInv
  <2>2. th[t].pc = "idle" /\ th[t].queue = {}
    BY <1>4 DEF Begin, BeginWrite, RefillCacheBlock, BeginPeriodicHook, BeginExitHook, At,
                LossInv, CopiesCover
  <2>3. th'[t].pc \in {"idle", "check", "hook"} /\ th'[t].queue = {}
    <3>1. CASE \E c \in Core, b \in Block : BeginWrite(t, c, b)
      BY <1>2, <1>3, <3>1 DEF BeginWrite, Local
    <3>2. CASE \E b \in Block : RefillCacheBlock(t, b)
      BY <2>2, <3>2 DEF RefillCacheBlock
    <3>3. CASE BeginPeriodicHook(t)
      BY <1>2, <1>3, <3>3 DEF BeginPeriodicHook, Local
    <3>4. CASE BeginExitHook(t)
      BY <1>2, <1>3, <3>4 DEF BeginExitHook, Local
    <3> QED
      BY <1>4, <3>1, <3>2, <3>3, <3>4 DEF Begin
  <2>4. UNCHANGED <<made, raced, buffer, log>>
    BY <1>4 DEF Begin, BeginWrite, RefillCacheBlock, BeginPeriodicHook, BeginExitHook, shared
  <2> QED
    BY <1>1, <2>1, <2>2, <2>3, <2>4, LossStutter
<1>5. ASSUME NEW t \in Thread,
             \/ CheckFull(t) \/ CheckFullAgain(t) \/ AssertFails(t)
             \/ Increment(t) \/ EndExitHook(t)
             \/ \E c \in Core : AsyncCacheScan(t, c) \/ PersistLastEpochs(t, c)
      PROVE  LossInv'
  <2>1. \A u \in Thread \ {t} : th'[u] = th[u]
    BY <1>5, OtherLocals DEF Continue, LossInv, LockInv
  <2>2. th[t].pc \in {"check", "again", "insert", "hook"} /\ th[t].queue = {}
    BY <1>5 DEF CheckFull, CheckFullAgain, AssertFails, Increment, EndExitHook,
                AsyncCacheScan, PersistLastEpochs, At, LossInv, CopiesCover
  <2>3. th'[t].pc \in {"insert", "collect", "hook", "idle"} /\ th'[t].queue = {}
    <3>1. CASE CheckFull(t) \/ CheckFullAgain(t)
      <4>1. \/ \E x, y : th' = [th EXCEPT ![t].pc = "collect", ![t].target = x, ![t].gap = y]
            \/ th' = [th EXCEPT ![t].pc = "insert", ![t].gap = 0]
        BY <3>1 DEF CheckFull, CheckFullAgain, FlushRound
      <4>2. CASE \E x, y : th' = [th EXCEPT ![t].pc = "collect", ![t].target = x,
                                            ![t].gap = y]
        <5>1. PICK x, y : th' = [th EXCEPT ![t].pc = "collect", ![t].target = x, ![t].gap = y]
          BY <4>2
        <5> QED
          BY <1>2, <2>2, <5>1 DEF Local
      <4>3. CASE th' = [th EXCEPT ![t].pc = "insert", ![t].gap = 0]
        BY <1>2, <2>2, <4>3 DEF Local
      <4> QED
        BY <4>1, <4>2, <4>3
    <3>2. CASE AssertFails(t)
      BY <2>2, <3>2 DEF AssertFails, At
    <3>3. CASE Increment(t) \/ EndExitHook(t)
      BY <1>2, <1>3, <3>3 DEF Increment, EndExitHook
    <3>4. CASE \E c \in Core : AsyncCacheScan(t, c) \/ PersistLastEpochs(t, c)
      <4>1. PICK c \in Core : AsyncCacheScan(t, c) \/ PersistLastEpochs(t, c)
        BY <3>4
      <4>2. CASE AsyncCacheScan(t, c)
        BY <1>2, <2>2, <4>2 DEF AsyncCacheScan, At, Local
      <4>3. CASE PersistLastEpochs(t, c)
        BY <1>2, <2>2, <4>3 DEF PersistLastEpochs, At, Local
      <4> QED
        BY <4>1, <4>2, <4>3
    <3> QED
      BY <1>5, <3>1, <3>2, <3>3, <3>4
  <2>4. UNCHANGED <<made, raced, buffer, log>>
    BY <1>5 DEF CheckFull, CheckFullAgain, AssertFails, Increment, EndExitHook,
                AsyncCacheScan, PersistLastEpochs, shared
  <2> QED
    BY <1>1, <2>1, <2>2, <2>3, <2>4, LossStutter
<1>6. CASE UNCHANGED vars
  BY <1>1, <1>6 DEF vars, LossInv, CopiesCover, OnlyRacedEntriesLost, Kept
<1> QED
  BY <1>4, <1>5, <1>6, InsertLosesNothing, EraseLosesRaced, CollectLosesNothing,
     SendLosesNothing, PersistLosesNothing DEF Next, Continue

-----------------------------------------------------------------------------
(* The theorems                                                            *)

(***************************************************************************)
(* Every variable keeps its type in every interleaving: the unsigned       *)
(* differences of writeCacheBlock stay in their widths, and what a flush   *)
(* of OnChipUndoBufferCntlr has in its queue are entries that were made.   *)
(***************************************************************************)
THEOREM TypeCorrect == Spec => []TypeOK
<1>1. LockInv => TypeOK
  BY DEF LockInv, Types, TypeOK, Local
<1> QED
  BY <1>1, InitLockInv, NextLockInv, PTL DEF Spec

(***************************************************************************)
(* The stack lock that CacheCntlr::writeCacheBlock runs under is enough    *)
(* for the undo chain of a block to have no gap and no overlap, although   *)
(* the epoch may be incremented and the buffer flushed between any two     *)
(* steps of the write.                                                     *)
(***************************************************************************)
THEOREM ChainSurvivesRaces == Spec => []UndoChainUnderRaces
<1>1. ChainInv => UndoChainUnderRaces
  BY DEF ChainInv
<1> QED
  BY <1>1, InitChainInv, NextChainInv, PTL DEF Spec

(***************************************************************************)
(* The window between the copy and the erase of removeOldEntries and       *)
(* removeAllEntries is the only way an undo entry can be lost.             *)
(***************************************************************************)
THEOREM OnlyRacesLoseEntries == Spec => []OnlyRacedEntriesLost
<1>1. LossInv => OnlyRacedEntriesLost
  BY DEF LossInv
<1> QED
  BY <1>1, InitLossInv, NextLossInv, PTL DEF Spec

=============================================================================
