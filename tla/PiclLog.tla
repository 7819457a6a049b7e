------------------------------- MODULE PiclLog -------------------------------
(***************************************************************************)
(* The PiCL extension of the simulator when its operations do not overlap: *)
(* EpochManager (system/epoch_manager.cc), one OnChipUndoBufferCntlr per   *)
(* core (parametric_dram_directory_msi/onchip_undo_buffer_cntlr.cc) and    *)
(* the part of CacheCntlr::writeCacheBlock that creates undo entries when  *)
(* a dirty block is written into the L3.                                   *)
(*                                                                         *)
(* Every action is a whole call.  PiclThreads splits the same calls into   *)
(* the steps that threads interleave.                                      *)
(***************************************************************************)
EXTENDS UndoBuffer

CONSTANTS
  Core,      \* cores; each MemoryManager owns one undo buffer
  AcsGap,    \* picl/acs_gap
  MaxEid,    \* bound: the last epoch the model runs
  MaxId      \* bound: the number of undo entries ever created

ASSUME CoreAssumption == Core # {}
ASSUME AcsGapAssumption == AcsGap \in Nat
ASSUME BoundsAssumption == MaxEid \in Nat /\ MaxId \in Nat

VARIABLES
  system_eid,     \* EpochManager::m_system_eid
  persisted_eid,  \* EpochManager::m_persisted_eid
  buffer,         \* m_onchip_undo_buffer of every core
  log,            \* the entries every core has sent to the NVM
  block_eid,      \* CacheBlockInfo::m_eid of the block's line in the L3
  next_id,        \* history: the id the next undo entry gets
  filled_at       \* history: next_id when the block was last brought into the L3

vars == <<system_eid, persisted_eid, buffer, log, block_eid, next_id, filled_at>>

Init ==
  /\ system_eid = 1
  /\ persisted_eid = 0
  /\ buffer = [c \in Core |-> {}]
  /\ log = [c \in Core |-> {}]
  /\ block_eid = [b \in Block |-> 0]
  /\ next_id = 1
  /\ filled_at = [b \in Block |-> 1]

-----------------------------------------------------------------------------
(* Flushing                                                                *)

\* What is left of a core's buffer after flush(eid), and what goes to the NVM.
Flushed(c, eid)   == FlushedEntries(buffer[c], eid, system_eid)

\* Seeded bug: the buffer is cleared whatever was copied out of it.
Remaining_ClearAlways(c, eid) == {}

Remaining(c, eid) == buffer[c] \ Flushed(c, eid)

\* flush(eid) on every core of S (each sends its entries, then sets the
\* persisted epoch).
FlushCores(S, eid) ==
  /\ buffer' = [c \in Core |-> IF c \in S THEN Remaining(c, eid) ELSE buffer[c]]
  /\ log' = [c \in Core |-> IF c \in S THEN log[c] \cup Flushed(c, eid) ELSE log[c]]
  /\ persisted_eid' = eid

(***************************************************************************)
(* The loop of OnChipUndoBufferCntlr::insertUndoEntry on a full buffer     *)
(* flushes with gaps MaxGap, MaxGap - 1, ... until the buffer has room.    *)
(* StopGap is the gap of its last round.                                   *)
(***************************************************************************)
MaxGap == IF system_eid > AcsGap THEN AcsGap ELSE system_eid

StopGap(c) ==
  CHOOSE g \in 0..MaxGap :
    /\ ~isFull(Remaining(c, system_eid - g))
    /\ \A h \in 0..MaxGap : h > g => isFull(Remaining(c, system_eid - h))

-----------------------------------------------------------------------------
(* Actions                                                                 *)

\* writeCacheBlock at the L3 for a block already written in this epoch.
RewriteCacheBlock(b) ==
  /\ block_eid[b] = system_eid
  /\ UNCHANGED vars

NewEntry(b) == UndoEntry(next_id, b, block_eid[b], system_eid)

\* Seeded bug: setEpochID is forgotten.
TagBlock_KeepEid(b) ==
  /\ next_id' = next_id + 1
  /\ UNCHANGED <<system_eid, block_eid, filled_at>>

TagBlock(b) ==
  /\ block_eid' = [block_eid EXCEPT ![b] = system_eid]
  /\ next_id' = next_id + 1
  /\ UNCHANGED <<system_eid, filled_at>>

\* writeCacheBlock at the L3, first write of b in this epoch, buffer with room.
WriteCacheBlock(c, b) ==
  /\ next_id <= MaxId
  /\ block_eid[b] # system_eid
  /\ ~isFull(buffer[c])
  /\ buffer' = [buffer EXCEPT ![c] = insertUndoEntry(@, NewEntry(b))]
  /\ TagBlock(b)
  /\ UNCHANGED <<persisted_eid, log>>

\* Seeded bug: the running epoch is declared persisted whatever was flushed.
WriteCacheBlockOverflow_ClaimAll(c, b) ==
  /\ next_id <= MaxId
  /\ block_eid[b] # system_eid
  /\ isFull(buffer[c])
  /\ LET eid == system_eid - StopGap(c) IN
       /\ buffer' = [buffer EXCEPT ![c] = insertUndoEntry(Remaining(c, eid), NewEntry(b))]
       /\ log' = [log EXCEPT ![c] = @ \cup Flushed(c, eid)]
       /\ persisted_eid' = system_eid
  /\ TagBlock(b)

\* The same call when the core's buffer is full: the flush loop makes room.
WriteCacheBlockOverflow(c, b) ==
  /\ next_id <= MaxId
  /\ block_eid[b] # system_eid
  /\ isFull(buffer[c])
  /\ LET eid == system_eid - StopGap(c) IN
       /\ buffer' = [buffer EXCEPT ![c] = insertUndoEntry(Remaining(c, eid), NewEntry(b))]
       /\ log' = [log EXCEPT ![c] = @ \cup Flushed(c, eid)]
       /\ persisted_eid' = eid
  /\ TagBlock(b)

\* The line of b leaves the L3 and b is brought in again: a new CacheBlockInfo
\* has epoch 0.  Data that L2 writes back meanwhile goes to the evict buffer,
\* past the undo buffer.  (For a line that was not written since it came in,
\* nothing changes.)
RefillCacheBlock(b) ==
  /\ block_eid[b] # 0
  /\ block_eid' = [block_eid EXCEPT ![b] = 0]
  /\ filled_at' = [filled_at EXCEPT ![b] = next_id]
  /\ UNCHANGED <<system_eid, persisted_eid, buffer, log, next_id>>

\* Seeded bug: the scan lags one epoch more than configured.
PeriodicHook_LagOneMore ==
  /\ system_eid < MaxEid
  /\ IF system_eid > AcsGap
     THEN FlushCores(Core, system_eid - AcsGap - 1)
     ELSE UNCHANGED <<buffer, log, persisted_eid>>
  /\ system_eid' = system_eid + 1
  /\ UNCHANGED <<block_eid, next_id, filled_at>>

\* Seeded bug: the scan does not wait for the first AcsGap epochs to pass.
PeriodicHook_NoGuard ==
  /\ system_eid < MaxEid
  /\ FlushCores(Core, system_eid - AcsGap)
  /\ system_eid' = system_eid + 1
  /\ UNCHANGED <<block_eid, next_id, filled_at>>

\* HOOK_PERIODIC_INS: asyncCacheScan of every core, in the order the hooks were
\* registered, and after them EpochManager::increment.
PeriodicHook ==
  /\ system_eid < MaxEid
  /\ IF system_eid >= AcsGap
     THEN FlushCores(Core, system_eid - AcsGap)
     ELSE UNCHANGED <<buffer, log, persisted_eid>>
  /\ system_eid' = system_eid + 1
  /\ UNCHANGED <<block_eid, next_id, filled_at>>

\* HOOK_APPLICATION_EXIT: persistLastEpochs of every core.
ApplicationExit ==
  /\ FlushCores(Core, system_eid)
  /\ UNCHANGED <<system_eid, block_eid, next_id, filled_at>>

Next ==
  \/ \E b \in Block : RewriteCacheBlock(b)
  \/ \E c \in Core, b \in Block : WriteCacheBlock(c, b)
  \/ \E c \in Core, b \in Block : WriteCacheBlockOverflow(c, b)
  \/ \E b \in Block : RefillCacheBlock(b)
  \/ PeriodicHook
  \/ ApplicationExit

Spec == Init /\ [][Next]_vars

-----------------------------------------------------------------------------
(* Properties                                                              *)

TypeOK ==
  /\ system_eid \in Nat \ {0}
  /\ persisted_eid \in Nat
  /\ buffer \in [Core -> SUBSET UndoEntryType]
  /\ log \in [Core -> SUBSET UndoEntryType]
  /\ block_eid \in [Block -> Nat]
  /\ next_id \in Nat \ {0}
  /\ filled_at \in [Block -> Nat]

OnChip  == UNION {buffer[c] : c \in Core}
Logged  == UNION {log[c] : c \in Core}
Entries == OnChip \cup Logged

(***************************************************************************)
(* The buffer of a core never holds more entries than it is configured     *)
(* for, so the assert in OnChipUndoBuffer::insertUndoEntry cannot fail and *)
(* the overflow loop of OnChipUndoBufferCntlr::insertUndoEntry ends with   *)
(* room for the new entry.                                                 *)
(***************************************************************************)
CapacityRespected ==
  \A c \in Core : Unlimited \/ Cardinality(buffer[c]) <= NumEntries

(***************************************************************************)
(* Exactly once, in order: whatever mix of scans, overflow flushes and     *)
(* exits ran, every entry that writeCacheBlock created is either in one    *)
(* buffer or was sent to the NVM once, and a core's log holds its entries  *)
(* in the order of their creation (a flush never overtakes an older        *)
(* entry).                                                                 *)
(***************************************************************************)
LoggedOnceInOrder ==
  /\ {e.id : e \in Entries} = 1..(next_id - 1)
  /\ \A x, y \in Entries : x.id = y.id => x = y
  /\ \A c \in Core : \A x \in log[c], y \in buffer[c] : x.id < y.id
  /\ \A c, d \in Core : c # d => (buffer[c] \cup log[c]) \cap (buffer[d] \cup log[d]) = {}

(***************************************************************************)
(* Because every scan runs before the epoch is incremented, no undo entry  *)
(* stays on the chip for more than AcsGap epochs after the write that      *)
(* created it.                                                             *)
(***************************************************************************)
ScanBoundsResidency ==
  \A e \in OnChip : e.till <= system_eid /\ system_eid <= e.till + AcsGap

(***************************************************************************)
(* The undo entries created for a block since it came into the L3 form a   *)
(* chain: every epoch before the block's last write is covered by the      *)
(* validity interval [from, till) of exactly one entry, so the block can   *)
(* be rolled back to any of those epochs and to only one value.            *)
(***************************************************************************)
Chain(b) == {e \in Entries : e.tag = b /\ e.id >= filled_at[b]}

UndoChain ==
  \A b \in Block :
    /\ \A e \in Chain(b) : e.from < e.till /\ e.till <= block_eid[b]
    /\ \A n \in 0..(block_eid[b] - 1) :
         \E e \in Chain(b) :
           /\ e.from <= n /\ n < e.till
           /\ \A d \in Chain(b) : d.from <= n /\ n < d.till => d = e

(***************************************************************************)
(* The persisted epoch is not monotonic (an overflow flush may push it up  *)
(* to the running epoch and the next scan puts it back), but one step      *)
(* never takes it back by more than AcsGap epochs.                         *)
(***************************************************************************)
PersistedRegressBounded ==
  [][persisted_eid <= persisted_eid' + AcsGap]_persisted_eid

(***************************************************************************)
(* What the persisted epoch vouches for: there is a core, the one whose    *)
(* flush set it last, with no older entry left on the chip.  An entry of   *)
(* that core that is on the chip although its epoch counts as persisted    *)
(* was created in exactly that epoch, after the overflow flush.  For the   *)
(* other cores nothing of the kind holds: m_persisted_eid is global, but   *)
(* an overflow flush empties the buffer of one core only.                  *)
(***************************************************************************)
PersistedIsLogged ==
  \E c \in Core : \A e \in buffer[c] : e.till >= persisted_eid

-----------------------------------------------------------------------------
(* The inductive strengthening that PiclLog_proofs uses.                   *)

\* Within a buffer, the epochs of the entries never decrease (m_buffer is
\* appended to in epoch order), so a prefix is what a flush takes.
EpochOrdered ==
  \A c \in Core : \A x, y \in buffer[c] : x.id < y.id => x.till <= y.till

EpochsBounded ==
  /\ persisted_eid <= system_eid
  /\ \A b \in Block : block_eid[b] <= system_eid /\ filled_at[b] <= next_id

IInv ==
  /\ TypeOK
  /\ \A c \in Core : IsFiniteSet(buffer[c])
  /\ CapacityRespected
  /\ EpochOrdered
  /\ EpochsBounded
  /\ LoggedOnceInOrder
  /\ ScanBoundsResidency
  /\ UndoChain

=============================================================================
