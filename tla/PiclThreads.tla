---------------------------- MODULE PiclThreads ----------------------------
(***************************************************************************)
(* The operations of PiclLog as the threads of the simulator execute them. *)
(*                                                                         *)
(* writeCacheBlock at the L3 runs in a core's user thread, in the thread   *)
(* of another core (back-invalidation, downgrade) or in the network        *)
(* thread, always under the stack lock of the block's set.  The hooks run  *)
(* in whatever thread crosses the instruction count (under the             *)
(* ThreadManager lock) or ends an application (under the TraceManager      *)
(* lock).  No lock protects the undo buffers or the EpochManager: between  *)
(* two calls on a buffer, and between the two halves of removeOldEntries   *)
(* (copy, then erase) and removeAllEntries (copy, then clear), any other   *)
(* thread may run.                                                         *)
(*                                                                         *)
(* A call on the vector itself (size, push_back, erase, clear) is one      *)
(* step: corruption of the vector by two overlapping calls is not          *)
(* modelled.  The blocks of the model stand for different cache sets.      *)
(***************************************************************************)
EXTENDS UndoBuffer

CONSTANTS
  Core, AcsGap, MaxEid, MaxId,   \* as in PiclLog
  Thread,      \* threads that execute cache operations and hooks
  NoThread,    \* holder of a free lock
  GapMod,      \* 2^32 of the code: UInt32 gap wraps around
  EidMod       \* 2^64 of the code: UInt64 epoch arithmetic wraps around

ASSUME ThreadAssumption == NoThread \notin Thread
ASSUME CoreAssumption == Core # {}
ASSUME WidthAssumption ==
  /\ AcsGap \in Nat /\ MaxEid \in Nat \ {0} /\ MaxId \in Nat
  /\ GapMod \in Nat /\ EidMod \in Nat
  /\ AcsGap < GapMod /\ MaxEid < EidMod

VARIABLES
  system_eid, persisted_eid,   \* EpochManager
  buffer, log,                 \* undo buffers, entries received by the NVM
  block_eid,                   \* CacheBlockInfo::m_eid in the L3
  next_id, filled_at, made,    \* history: entries created so far
  raced,                       \* history: created while a flush of the same buffer
                               \* was between its copy and its erase
  stack_lock,                  \* exclusive SetLock of every block's set
  hook_lock, exit_lock,        \* ThreadManager lock, TraceManager lock
  th,                          \* program counter and locals of every thread
  aborted                      \* the assert in insertUndoEntry failed

vars == <<system_eid, persisted_eid, buffer, log, block_eid, next_id, filled_at,
          made, raced, stack_lock, hook_lock, exit_lock, th, aborted>>

shared == <<system_eid, persisted_eid, buffer, log, block_eid, next_id, filled_at, made, raced>>
locks  == <<stack_lock, hook_lock, exit_lock>>

(***************************************************************************)
(* Locals: op is the outermost operation, core and block what it works on, *)
(* eid its copy of the system epoch, gap the loop variable of the overflow *)
(* loop, target the argument of flush, queue the removed entries that are  *)
(* not sent yet, todo the cores whose hook is still to be called.          *)
(***************************************************************************)
Idle == [pc |-> "idle", op |-> "none", core |-> NoThread, block |-> NoThread, eid |-> 0,
         gap |-> 0, target |-> 0, queue |-> {}, todo |-> {}]

Init ==
  /\ system_eid = 1
  /\ persisted_eid = 0
  /\ buffer = [c \in Core |-> {}]
  /\ log = [c \in Core |-> {}]
  /\ block_eid = [b \in Block |-> 0]
  /\ next_id = 1
  /\ filled_at = [b \in Block |-> 1]
  /\ made = {}
  /\ raced = {}
  /\ stack_lock = [b \in Block |-> NoThread]
  /\ hook_lock = NoThread
  /\ exit_lock = NoThread
  /\ th = [t \in Thread |-> Idle]
  /\ aborted = FALSE

At(t, pc) == ~aborted /\ th[t].pc = pc

\* Thread t has copied entries of c's buffer and has not erased them yet.
Flushing(t, c) == th[t].pc \in {"clear", "erase"} /\ th[t].core = c

-----------------------------------------------------------------------------
(* writeCacheBlock at the L3                                               *)

\* Seeded bug: the set is not locked.
BeginWrite_NoLock(t, c, b) ==
  /\ At(t, "idle")
  /\ next_id <= MaxId
  /\ block_eid[b] # system_eid
  /\ th' = [th EXCEPT ![t] = [Idle EXCEPT !.pc = "check", !.op = "write", !.core = c,
                                          !.block = b, !.eid = system_eid]]
  /\ UNCHANGED <<shared, locks, aborted>>

\* Under the stack lock: read the epoch; a block of another epoch needs an entry.
BeginWrite(t, c, b) ==
  /\ At(t, "idle")
  /\ next_id <= MaxId
  /\ stack_lock[b] = NoThread
  /\ block_eid[b] # system_eid
  /\ stack_lock' = [stack_lock EXCEPT ![b] = t]
  /\ th' = [th EXCEPT ![t] = [Idle EXCEPT !.pc = "check", !.op = "write", !.core = c,
                                          !.block = b, !.eid = system_eid]]
  /\ UNCHANGED <<shared, hook_lock, exit_lock, aborted>>

\* Seeded bug: the gap is decremented before its first use.
FlushRound_PreDecrement(t, gap) ==
  th' = [th EXCEPT ![t].pc = "collect",
                   ![t].target = (th[t].eid - (gap - 1)) % EidMod,
                   ![t].gap = (gap - 1) % GapMod]

\* Seeded bug: the gap is never decremented.
FlushRound_SameGap(t, gap) ==
  th' = [th EXCEPT ![t].pc = "collect",
                   ![t].target = (th[t].eid - gap) % EidMod,
                   ![t].gap = gap]

\* Seeded bug: the gap is decremented without a width.
FlushRound_NoWrap(t, gap) ==
  th' = [th EXCEPT ![t].pc = "collect",
                   ![t].target = (th[t].eid - gap) % EidMod,
                   ![t].gap = gap - 1]

\* One round of the overflow loop: flush(system_eid - gap--).
FlushRound(t, gap) ==
  th' = [th EXCEPT ![t].pc = "collect",
                   ![t].target = (th[t].eid - gap) % EidMod,
                   ![t].gap = (gap - 1) % GapMod]

CheckFull(t) ==
  /\ At(t, "check")
  /\ IF isFull(buffer[th[t].core])
     THEN FlushRound(t, IF th[t].eid > AcsGap THEN AcsGap ELSE th[t].eid)
     ELSE th' = [th EXCEPT ![t].pc = "insert", ![t].gap = 0]
  /\ UNCHANGED <<shared, locks, aborted>>

CheckFullAgain(t) ==
  /\ At(t, "again")
  /\ IF isFull(buffer[th[t].core])
     THEN FlushRound(t, th[t].gap)
     ELSE th' = [th EXCEPT ![t].pc = "insert", ![t].gap = 0]
  /\ UNCHANGED <<shared, locks, aborted>>

\* OnChipUndoBuffer::insertUndoEntry, then setEpochID and the end of the call.
Insert(t) ==
  LET c == th[t].core
      b == th[t].block
      entry == UndoEntry(next_id, b, block_eid[b], th[t].eid)
  IN /\ At(t, "insert")
     /\ HasRoom(buffer[c])
     /\ buffer' = [buffer EXCEPT ![c] = insertUndoEntry(@, entry)]
     /\ made' = made \cup {entry}
     /\ raced' = raced \cup (IF \E u \in Thread : Flushing(u, c) THEN {entry} ELSE {})
     /\ next_id' = next_id + 1
     /\ block_eid' = [block_eid EXCEPT ![b] = th[t].eid]
     /\ stack_lock' = [stack_lock EXCEPT ![b] = NoThread]
     /\ th' = [th EXCEPT ![t] = Idle]
     /\ UNCHANGED <<system_eid, persisted_eid, log, filled_at, hook_lock, exit_lock, aborted>>

\* The assert of OnChipUndoBuffer::insertUndoEntry fails: the process ends.
AssertFails(t) ==
  /\ At(t, "insert")
  /\ ~HasRoom(buffer[th[t].core])
  /\ aborted' = TRUE
  /\ UNCHANGED <<shared, locks, th>>

\* The line leaves the L3 and comes back with epoch 0, under the stack lock.
\* (For a line that was not written since it came in, nothing changes.)
RefillCacheBlock(t, b) ==
  /\ At(t, "idle")
  /\ stack_lock[b] = NoThread
  /\ block_eid[b] # 0
  /\ block_eid' = [block_eid EXCEPT ![b] = 0]
  /\ filled_at' = [filled_at EXCEPT ![b] = next_id]
  /\ UNCHANGED <<system_eid, persisted_eid, buffer, log, next_id, made, raced, locks, th, aborted>>

-----------------------------------------------------------------------------
(* OnChipUndoBufferCntlr::flush(target)                                    *)

\* Choose removeAllEntries or removeOldEntries, and copy what it returns.
Collect(t) ==
  /\ At(t, "collect")
  /\ th' = [th EXCEPT
              ![t].queue = FlushedEntries(buffer[th[t].core], th[t].target, system_eid),
              ![t].pc = IF th[t].target = system_eid THEN "clear" ELSE "erase"]
  /\ UNCHANGED <<shared, locks, aborted>>

\* Seeded bug: the erased range is one epoch wider than the copied one.
Erase_TooMuch(t) ==
  LET c == th[t].core IN
  /\ At(t, "clear") \/ At(t, "erase")
  /\ buffer' = [buffer EXCEPT
                  ![c] = IF th[t].pc = "clear" THEN {} ELSE @ \ OldEntries(@, th[t].target + 1)]
  /\ th' = [th EXCEPT ![t].pc = "send"]
  /\ UNCHANGED <<system_eid, persisted_eid, log, block_eid, next_id, filled_at, made, raced,
                 locks, aborted>>

\* m_buffer.clear() or m_buffer.erase(remove_if(...)).
Erase(t) ==
  LET c == th[t].core IN
  /\ At(t, "clear") \/ At(t, "erase")
  /\ buffer' = [buffer EXCEPT
                  ![c] = IF th[t].pc = "clear" THEN {} ELSE @ \ OldEntries(@, th[t].target)]
  /\ th' = [th EXCEPT ![t].pc = "send"]
  /\ UNCHANGED <<system_eid, persisted_eid, log, block_eid, next_id, filled_at, made, raced,
                 locks, aborted>>

\* The loop of sendDataToNVM over the removed entries.
SendDataToNVM(t) ==
  /\ At(t, "send")
  /\ log' = [log EXCEPT ![th[t].core] = @ \cup th[t].queue]
  /\ th' = [th EXCEPT ![t].pc = "persist", ![t].queue = {}]
  /\ UNCHANGED <<system_eid, persisted_eid, buffer, block_eid, next_id, filled_at, made, raced,
                 locks, aborted>>

\* setGlobalPersistedEID; flush returns to its caller.
SetPersisted(t) ==
  /\ At(t, "persist")
  /\ persisted_eid' = th[t].target
  /\ th' = [th EXCEPT
              ![t] = IF @.op = "write"
                     THEN [@ EXCEPT !.pc = "again", !.target = 0]
                     ELSE [Idle EXCEPT !.pc = "hook", !.op = th[t].op,
                                       !.todo = th[t].todo \ {th[t].core}]]
  /\ UNCHANGED <<system_eid, buffer, log, block_eid, next_id, filled_at, made, raced, locks, aborted>>

-----------------------------------------------------------------------------
(* Hooks                                                                   *)

\* hookPeriodicInsCall: under the ThreadManager lock.
BeginPeriodicHook(t) ==
  /\ At(t, "idle")
  /\ system_eid < MaxEid
  /\ hook_lock = NoThread
  /\ hook_lock' = t
  /\ th' = [th EXCEPT ![t] = [Idle EXCEPT !.pc = "hook", !.op = "scan", !.todo = Core]]
  /\ UNCHANGED <<shared, stack_lock, exit_lock, aborted>>

\* asyncCacheScan of one core.
AsyncCacheScan(t, c) ==
  /\ At(t, "hook") /\ th[t].op = "scan"
  /\ c \in th[t].todo
  /\ th' = [th EXCEPT
              ![t] = IF system_eid >= AcsGap
                     THEN [@ EXCEPT !.pc = "collect", !.core = c, !.eid = system_eid,
                                    !.target = system_eid - AcsGap]
                     ELSE [@ EXCEPT !.todo = th[t].todo \ {c}]]
  /\ UNCHANGED <<shared, locks, aborted>>

\* EpochManager::increment, the last callback of the hook.
Increment(t) ==
  /\ At(t, "hook") /\ th[t].op = "scan"
  /\ th[t].todo = {}
  /\ system_eid' = system_eid + 1
  /\ hook_lock' = NoThread
  /\ th' = [th EXCEPT ![t] = Idle]
  /\ UNCHANGED <<persisted_eid, buffer, log, block_eid, next_id, filled_at, made, raced,
                 stack_lock, exit_lock, aborted>>

\* TraceManager::signalDone of the last thread of an application.
BeginExitHook(t) ==
  /\ At(t, "idle")
  /\ exit_lock = NoThread
  /\ exit_lock' = t
  /\ th' = [th EXCEPT ![t] = [Idle EXCEPT !.pc = "hook", !.op = "exit", !.todo = Core]]
  /\ UNCHANGED <<shared, stack_lock, hook_lock, aborted>>

\* persistLastEpochs of one core.
PersistLastEpochs(t, c) ==
  /\ At(t, "hook") /\ th[t].op = "exit"
  /\ c \in th[t].todo
  /\ th' = [th EXCEPT ![t].pc = "collect", ![t].core = c, ![t].eid = system_eid,
                      ![t].target = system_eid]
  /\ UNCHANGED <<shared, locks, aborted>>

EndExitHook(t) ==
  /\ At(t, "hook") /\ th[t].op = "exit"
  /\ th[t].todo = {}
  /\ exit_lock' = NoThread
  /\ th' = [th EXCEPT ![t] = Idle]
  /\ UNCHANGED <<shared, stack_lock, hook_lock, aborted>>

-----------------------------------------------------------------------------
\* A thread that is inside an operation goes on with it.
Continue(t) ==
  \/ CheckFull(t) \/ CheckFullAgain(t) \/ Insert(t) \/ AssertFails(t)
  \/ Collect(t) \/ Erase(t) \/ SendDataToNVM(t) \/ SetPersisted(t)
  \/ Increment(t) \/ EndExitHook(t)
  \/ \E c \in Core : AsyncCacheScan(t, c) \/ PersistLastEpochs(t, c)

Begin(t) ==
  \/ \E c \in Core, b \in Block : BeginWrite(t, c, b)
  \/ \E b \in Block : RefillCacheBlock(t, b)
  \/ BeginPeriodicHook(t)
  \/ BeginExitHook(t)

Next == \E t \in Thread : Begin(t) \/ Continue(t)

\* The operating system keeps running every thread that is inside an operation.
Spec == Init /\ [][Next]_vars /\ \A t \in Thread : WF_vars(Continue(t))

-----------------------------------------------------------------------------
(* Properties                                                              *)

PCs == {"idle", "check", "again", "insert", "collect", "clear", "erase", "send", "persist",
        "hook"}

TypeOK ==
  /\ system_eid \in 1..MaxEid /\ persisted_eid \in 0..(EidMod - 1)
  /\ made \subseteq UndoEntryType /\ raced \subseteq made
  /\ buffer \in [Core -> SUBSET made] /\ log \in [Core -> SUBSET made]
  /\ block_eid \in [Block -> 0..MaxEid]
  /\ stack_lock \in [Block -> Thread \cup {NoThread}]
  /\ hook_lock \in Thread \cup {NoThread} /\ exit_lock \in Thread \cup {NoThread}
  /\ \A t \in Thread : /\ th[t].pc \in PCs
                       /\ th[t].target \in 0..(EidMod - 1) /\ th[t].gap \in 0..(GapMod - 1)
                       /\ th[t].queue \subseteq made /\ th[t].todo \subseteq Core

(***************************************************************************)
(* Whatever the threads interleave, and although a thread may create its   *)
(* entry long after it read the epoch, the entries created for a block     *)
(* since it came into the L3 cover every epoch before its last write       *)
(* exactly once: the stack lock around writeCacheBlock is enough for that. *)
(***************************************************************************)
Chain(b) == {e \in made : e.tag = b /\ e.id >= filled_at[b]}

UndoChainUnderRaces ==
  \A b \in Block :
    /\ block_eid[b] <= system_eid
    /\ \A e \in Chain(b) : e.from < e.till /\ e.till <= block_eid[b]
    /\ \A n \in 0..(block_eid[b] - 1) :
         Cardinality({e \in Chain(b) : e.from <= n /\ n < e.till}) = 1

(***************************************************************************)
(* An undo entry gets lost in one way only: it was inserted while another  *)
(* thread's flush of the same buffer was between copying the old entries   *)
(* and erasing them (removeOldEntries and removeAllEntries hold no lock).  *)
(* Every other entry is in a buffer, in the queue of a flush or in the     *)
(* NVM log.                                                                *)
(***************************************************************************)
Kept == (UNION {buffer[c] \cup log[c] : c \in Core}) \cup (UNION {th[t].queue : t \in Thread})

OnlyRacedEntriesLost == made \ Kept \subseteq raced

(***************************************************************************)
(* What the assert in OnChipUndoBuffer::insertUndoEntry says: there is     *)
(* room when an entry is inserted.                                         *)
(***************************************************************************)
InsertFindsRoom == ~aborted

(***************************************************************************)
(* Every operation that a thread begins ends; in particular the overflow   *)
(* loop, whose unsigned gap would wrap around below zero, terminates.      *)
(***************************************************************************)
OperationsFinish == \A t \in Thread : th[t].pc # "idle" ~> th[t].pc = "idle"

=============================================================================
