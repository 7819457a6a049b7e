----------------------------- MODULE UndoBuffer -----------------------------
(***************************************************************************)
(* The on-chip undo buffer of PiCL as a data structure: the class          *)
(* OnChipUndoBuffer and its elements, UndoEntry.                           *)
(*                                                                         *)
(* m_buffer is a vector that only ever grows at its end (push_back) and    *)
(* that erase/remove_if compacts without reordering.  It is kept here as   *)
(* the set of its entries; the history field `id` numbers the entries in   *)
(* the order of their insertion, so the vector is the set sorted by `id`.  *)
(* The data of the block is not part of an entry in the code either        *)
(* (onchip_undo_buffer.h has it commented out).                            *)
(***************************************************************************)
EXTENDS Integers, FiniteSets

CONSTANTS
  Block,         \* cache blocks (one tag each)
  NumEntries     \* picl/onchip_undo_buffer/num_entries; 0 is "unlimited"

ASSUME NumEntriesAssumption == NumEntries \in Nat

UndoEntryType == [id : Nat, tag : Block, from : Nat, till : Nat]

\* UndoEntry::UndoEntry: the block's own epoch and the epoch of the write that
\* is about to overwrite it.
UndoEntry(id, b, block_eid, system_eid) ==
  [id |-> id, tag |-> b, from |-> block_eid, till |-> system_eid]

\* getNumEntries turns 0 into UINT32_MAX, which no buffer of entries reaches.
Unlimited == NumEntries = 0

\* Seeded bug: the limit is noticed one entry too late.
isFull_OffByOne(buf) == ~Unlimited /\ Cardinality(buf) > NumEntries

isFull(buf) == ~Unlimited /\ Cardinality(buf) = NumEntries

\* The assert of OnChipUndoBuffer::insertUndoEntry.
HasRoom(buf) == Unlimited \/ Cardinality(buf) < NumEntries

insertUndoEntry(buf, entry) == buf \cup {entry}

\* Seeded bug: entries of the scanned epoch itself are left behind.
OldEntries_Strict(buf, acs_eid) == {e \in buf : e.till < acs_eid}

\* What removeOldEntries(acs_eid) returns; the rest stays in the buffer.
OldEntries(buf, acs_eid) == {e \in buf : e.till <= acs_eid}

(***************************************************************************)
(* The entries OnChipUndoBufferCntlr::flush(persisted_eid) takes out of    *)
(* the buffer: everything when it persists the running epoch               *)
(* (removeAllEntries), otherwise what removeOldEntries returns.            *)
(***************************************************************************)
FlushedEntries(buf, persisted_eid, system_eid) ==
  IF persisted_eid = system_eid THEN buf ELSE OldEntries(buf, persisted_eid)
=============================================================================
