----------------------------- MODULE CacheStack -----------------------------
(***************************************************************************)
(* The caches above one last-level cache: CacheCntlr without its directory *)
(* waiters (those are in Coherence) and without its locks (StackLock).     *)
(* Every action runs under the stack lock of the block's set and is a      *)
(* whole call: an access of a core, a prefetch, or a request that the      *)
(* directory sends to the last-level cache.  A last-level miss is served   *)
(* within the access that had it; what crosses with it while it waits for  *)
(* the directory is the subject of Coherence, which has one level only.    *)
(*                                                                         *)
(* The calls of one handler are operators on the record                    *)
(*                                                                         *)
(*   S = [line, mem, logged, undoable, bypassed, unsafe, evicting, failed] *)
(*                                                                         *)
(* line[c][b] is block b in cache c: its state cs, whether its data is     *)
(* what the last store to b left (new), and whether its epoch is the       *)
(* running one (now).  The code only ever compares a line's epoch with the *)
(* running one, and only in the last level: it tags the lines of the other *)
(* levels too, but nothing that runs reads those tags.  mem[b]: what lies  *)
(* behind the last level (the DRAM, or whoever the directory sends the     *)
(* data to) has the data of the last store.  Blocks share one set of every *)
(* cache.                                                                  *)
(***************************************************************************)
EXTENDS Naturals, FiniteSets, FiniteSetsExt

CONSTANTS
  Cache,        \* the cache controllers of the stack
  NextCache,    \* m_next_cache_cntlr of every cache but the last level
  LLC,          \* the last-level cache (the L3, which owns the undo hook)
  Work,         \* the requests considered: the cache that gets them (from its
                \*   core, its prefetcher or the directory), operation, block
  Ways,         \* associativity of every cache
  Block,
  NoBlock,
  Modes         \* [direct, writethrough]: DRAM direct access, L1 writethrough

ASSUME StackAssumption ==
  /\ LLC \in Cache /\ NextCache \in [Cache \ {LLC} -> Cache]
  /\ Ways \in [Cache -> Nat \ {0}]
  /\ Modes \subseteq [direct : BOOLEAN, writethrough : BOOLEAN]
  /\ NoBlock \notin Block

VARIABLES
  line, mem, mode,
  logged,       \* blocks with an undo entry of the running epoch
  undoable,     \* history: blocks with an undo entry of the epoch of their
                \*   last store, or of a later one
  bypassed,     \* history: blocks whose memory was written past the undo hook
  unsafe,       \* history: blocks that an exclusive state was handed out for
                \*   beside another copy
  failed        \* an assert of the code has failed

vars == <<line, mem, mode, logged, undoable, bypassed, unsafe, failed>>

Prev(c) == {p \in Cache \ {LLC} : NextCache[p] = c}
First == {c \in Cache : Prev(c) = {}}
Op == {"READ", "READ_EX", "WRITE"}

NoLine == [cs |-> "I", new |-> FALSE, now |-> FALSE]
Line(cs, data) == [cs |-> cs, new |-> data, now |-> FALSE]
NoEviction == [at |-> LLC, block |-> NoBlock, data |-> FALSE, written |-> FALSE]

isWritethrough(c) == mode.writethrough /\ c \in First

\* operationPermissibleinCache, with CacheState::readable and writable.
permissible(cs, op) == IF op = "READ" THEN cs \in {"S", "E", "M"} ELSE cs = "M"

Init ==
  /\ line = [c \in Cache |-> [b \in Block |-> NoLine]]
  /\ mem = [b \in Block |-> TRUE]
  /\ mode \in Modes
  /\ logged = {} /\ undoable = Block
  /\ bypassed = {} /\ unsafe = {} /\ failed = FALSE

-----------------------------------------------------------------------------
(* Block operations                                                        *)

Fail(S, cond) == [S EXCEPT !.failed = @ \/ cond]

\* Dirty data of b arrives from a previous level.  In the L3 the first write
\* of an epoch creates an undo entry.  Data of a block that c is evicting
\* goes to the evict buffer instead, where nothing is logged.
writeCacheBlock(S, c, b, data) ==
  IF S.evicting.block = b /\ S.evicting.at = c
  THEN [S EXCEPT !.evicting.data = data, !.evicting.written = TRUE]
  ELSE LET l == S.line[c][b]
           entry == IF c = LLC /\ ~l.now THEN {b} ELSE {}
       IN [S EXCEPT !.failed = @ \/ l.cs # "M",
                 !.line[c][b].new = data,
                 !.line[c][b].now = (c = LLC),
                 !.logged = @ \cup entry, !.undoable = @ \cup entry]

invalidateCacheBlock(S, c, b) ==
  [S EXCEPT !.failed = @ \/ S.line[c][b].cs \in {"M", "I"},
            !.line[c][b] = NoLine,
            !.unsafe = IF c = LLC THEN @ \ {b} ELSE @]

\* Seeded bug: the data is copied into the line of the next level without
\* the rest of writeCacheBlock.
writeBack_CopyOnly(S, c, b) ==
  LET data == S.line[c][b].new
      D == [S EXCEPT !.line[c][b].cs = "S"]
  IN CASE isWritethrough(c) -> D
       [] c = LLC -> [D EXCEPT !.mem[b] = data, !.bypassed = @ \ {b}]
       [] S.evicting.block = b -> writeCacheBlock(D, NextCache[c], b, data)
       [] OTHER -> [D EXCEPT !.line[NextCache[c]][b].new = data]

\* The dirty case of updateCacheBlock: the data moves to the next level, or,
\* from the last level, with the reply to the directory and on to the DRAM.
writeBack(S, c, b) ==
  LET data == S.line[c][b].new
      D == [S EXCEPT !.line[c][b].cs = "S"]
  IN CASE isWritethrough(c) -> D
       [] c = LLC -> [D EXCEPT !.mem[b] = data, !.bypassed = @ \ {b}]
       [] OTHER -> writeCacheBlock(D, NextCache[c], b, data)

RECURSIVE updateCacheBlock(_, _, _, _)

\* Seeded bug: the previous levels are not told.
updateCacheBlock_ThisLevelOnly(S, c, b, new_cstate) ==
  LET W == IF S.line[c][b].cs = "M" THEN writeBack(S, c, b) ELSE S
  IN CASE S.line[c][b].cs = "I" -> S
       [] S.line[c][b].cs # "I" /\ new_cstate = "I" -> invalidateCacheBlock(W, c, b)
       [] OTHER -> [Fail(W, new_cstate = "E") EXCEPT !.line[c][b].cs = new_cstate]

\* Change the state of b in c and in all levels above it, which first write
\* their modified data back.
updateCacheBlock(S, c, b, new_cstate) ==
  LET P == FoldSet(LAMBDA p, T : updateCacheBlock(T, p, b, new_cstate), S, Prev(c))
      W == IF P.line[c][b].cs = "M" THEN writeBack(P, c, b) ELSE P
  IN CASE P.line[c][b].cs = "I" -> P
       [] P.line[c][b].cs # "I" /\ new_cstate = "I" -> invalidateCacheBlock(W, c, b)
       [] OTHER -> [Fail(W, new_cstate = "E") EXCEPT !.line[c][b].cs = new_cstate]

updatePrevLevels(S, c, requester, b, new_cstate) ==
  FoldSet(LAMBDA p, T : updateCacheBlock(T, p, b, new_cstate), S, Prev(c) \ {requester})

-----------------------------------------------------------------------------
(* Insertion and eviction                                                  *)

ValidIn(S, c) == {b \in Block : S.line[c][b].cs # "I"}

\* c has dropped its line `old` of e from the set.  The previous levels write
\* into the evict buffer; a dirty buffer then moves on.
evictCacheBlock(S, c, e, old) ==
  LET B == [S EXCEPT !.line[c][e] = NoLine,
                     !.unsafe = IF c = LLC THEN @ \ {e} ELSE @,
                     !.evicting = [at |-> c, block |-> e, data |-> old.new, written |-> FALSE]]
      U == updatePrevLevels(B, c, c, e, "I")
      Z == [U EXCEPT !.evicting = NoEviction]
  IN CASE old.cs # "M" \/ isWritethrough(c) -> Z
       [] old.cs = "M" /\ c = LLC ->
            [Z EXCEPT !.mem[e] = U.evicting.data,
                      !.bypassed = IF U.evicting.written THEN @ \cup {e} ELSE @ \ {e}]
       [] OTHER -> writeCacheBlock(Z, NextCache[c], e, U.evicting.data)

\* victim[c]: what the replacement policy picks when the set of c is full.
insertCacheBlock(S, c, b, cstate, data, victim) ==
  LET full == Cardinality(ValidIn(S, c)) = Ways[c]
      I == [Fail(S, S.line[c][b].cs # "I") EXCEPT !.line[c][b] = Line(cstate, data)]
  IN IF full THEN evictCacheBlock(I, c, victim[c], S.line[c][victim[c]]) ELSE I

\* Fetch b from the next level, in the state it has there.
copyDataFromNextLevel(S, c, op, b, victim) ==
  LET l == S.line[NextCache[c]][b]
      shared == op = "READ" /\ l.cs \in {"E", "M"}
                /\ \E p \in Prev(NextCache[c]) \ {c} : S.line[p][b].cs # "I"
      F == [Fail(S, ~permissible(l.cs, op)) EXCEPT
              !.unsafe = IF shared THEN @ \cup {b} ELSE @]
  IN IF S.line[c][b].cs # "I" THEN updateCacheBlock(F, c, b, l.cs)
     ELSE insertCacheBlock(F, c, b, l.cs, l.new, victim)

-----------------------------------------------------------------------------
(* Requests to the next level                                              *)

\* A miss in the last level.  grant: the state in which the directory lets
\* the cache have a line it asked for with a read.
lastLevelMiss(S, requester, op, b, victim, grant) ==
  LET l == S.line[LLC][b]
      upgraded(T) == [T EXCEPT !.line[LLC][b].cs = "M"]
      silent(T) == upgraded(updatePrevLevels(T, LLC, requester, b, "I"))
  IN CASE l.cs = "E" -> silent(S)
       [] l.cs = "S" /\ mode.direct -> upgraded(S)
       [] l.cs = "S" /\ ~mode.direct ->
            \* UPGRADE_REQ, UPGRADE_REP, and the requester's second pass
            updatePrevLevels(updateCacheBlock(S, LLC, b, "M"), LLC, requester, b, "I")
       [] l.cs = "I" /\ mode.direct ->
            insertCacheBlock(S, LLC, b, IF op = "READ" THEN "S" ELSE "M", S.mem[b], victim)
       [] l.cs = "I" /\ ~mode.direct /\ op = "READ" ->
            insertCacheBlock(S, LLC, b, grant, S.mem[b], victim)
       [] OTHER -> \* EX_REQ, EX_REP, and the silent upgrade of the second pass
            silent(insertCacheBlock(S, LLC, b, "E", S.mem[b], victim))

RECURSIVE processShmemReqFromPrevCache(_, _, _, _, _, _, _)

\* Seeded bug: a write to a SHARED line goes down without invalidating the
\* siblings of the requester.
processShmemReqFromPrevCache_KeepSiblings(S, c, requester, op, b, victim, grant) ==
  LET l == S.line[c][b]
      dropped == IF l.cs = "I" THEN S ELSE invalidateCacheBlock(S, c, b)
  IN CASE permissible(l.cs, op) /\ op # "READ" -> updatePrevLevels(S, c, requester, b, "I")
       [] permissible(l.cs, op) /\ op = "READ" ->
            IF l.cs = "S" THEN S ELSE updatePrevLevels(S, c, requester, b, "S")
       [] ~permissible(l.cs, op) /\ c = LLC ->
            lastLevelMiss(S, requester, op, b, victim, grant)
       [] OTHER ->
            copyDataFromNextLevel(
              processShmemReqFromPrevCache(dropped, NextCache[c], c, op, b, victim, grant),
              c, op, b, victim)

\* Make b available in c for an access of `requester`.
processShmemReqFromPrevCache(S, c, requester, op, b, victim, grant) ==
  LET l == S.line[c][b]
      upgrade == IF l.cs = "S" THEN updatePrevLevels(S, c, requester, b, "I") ELSE S
      \* an EXCLUSIVE line goes away under the copies of the previous levels
      exposed == l.cs = "E" /\ \E p \in Prev(c) \ {requester} : S.line[p][b].cs # "I"
      dropped == IF l.cs = "I" THEN upgrade
                 ELSE [invalidateCacheBlock(upgrade, c, b) EXCEPT
                         !.unsafe = IF exposed THEN @ \cup {b} ELSE @]
  IN CASE permissible(l.cs, op) /\ op # "READ" -> updatePrevLevels(S, c, requester, b, "I")
       [] permissible(l.cs, op) /\ op = "READ" ->
            IF l.cs = "S" THEN S ELSE updatePrevLevels(S, c, requester, b, "S")
       [] ~permissible(l.cs, op) /\ c = LLC ->
            lastLevelMiss(upgrade, requester, op, b, victim, grant)
       [] OTHER ->
            copyDataFromNextLevel(
              processShmemReqFromPrevCache(dropped, NextCache[c], c, op, b, victim, grant),
              c, op, b, victim)

-----------------------------------------------------------------------------
(* Actions                                                                 *)

State == [line |-> line, mem |-> mem, logged |-> logged, undoable |-> undoable,
          bypassed |-> bypassed, unsafe |-> unsafe, evicting |-> NoEviction, failed |-> failed]

Become(S) ==
  /\ line' = S.line /\ mem' = S.mem /\ logged' = S.logged
  /\ undoable' = S.undoable /\ bypassed' = S.bypassed /\ unsafe' = S.unsafe /\ failed' = S.failed

\* Every choice of a victim in each of the full caches that an access to b
\* through c can insert b into.
RECURSIVE Path(_)
Path(c) == IF c = LLC THEN {LLC} ELSE {c} \cup Path(NextCache[c])

Victims(c, b) ==
  LET full == {d \in Path(c) : line[d][b].cs = "I" /\ Cardinality(ValidIn(State, d)) = Ways[d]}
  IN {v \in [full -> Block] : \A d \in full : line[d][v[d]].cs # "I"}

\* The states in which the directory may answer a read that misses.
Grants(b) == IF mode.direct \/ line[LLC][b].cs # "I" THEN {"S"} ELSE {"S", "E"}

\* The store of accessCache: every other copy is now old.  A writethrough
\* cache passes it on to the next level.
store(S, c, b) ==
  LET A == [Fail(S, S.line[c][b].cs # "M") EXCEPT
              !.mem[b] = FALSE,
              !.undoable = IF b \in S.logged THEN @ \cup {b} ELSE @ \ {b},
              !.line = [d \in Cache |-> [@[d] EXCEPT ![b].new = (d = c)]]]
  IN IF isWritethrough(c) THEN writeCacheBlock(A, NextCache[c], b, TRUE) ELSE A

\* The line of b in the first-level cache c, fetched if need be.
fetch(S, c, op, b, victim, grant) ==
  LET I == IF S.line[c][b].cs = "I" THEN S ELSE invalidateCacheBlock(S, c, b)
  IN IF permissible(S.line[c][b].cs, op) THEN S
     ELSE copyDataFromNextLevel(
            processShmemReqFromPrevCache(I, NextCache[c], c, op, b, victim, grant),
            c, op, b, victim)

processMemOpFromCore(c, op, b) ==
  /\ <<c, op, b>> \in Work
  /\ \E victim \in Victims(c, b), grant \in Grants(b) :
       LET S == fetch(State, c, op, b, victim, grant)
       IN Become(IF op = "WRITE" THEN store(S, c, b) ELSE S)
  /\ UNCHANGED mode

\* doPrefetch: cache c asks itself for a block it cannot read.  When its own
\* prefetcher suggested b is not modelled: any b may be on the list.
doPrefetch(c, b) ==
  /\ <<c, "PREFETCH", b>> \in Work
  /\ ~permissible(line[c][b].cs, "READ")
  /\ \E victim \in Victims(c, b), grant \in Grants(b) :
       Become(processShmemReqFromPrevCache(State, c, c, "READ", b, victim, grant))
  /\ UNCHANGED mode

\* INV_REQ, FLUSH_REQ and WB_REQ from the directory.
processInvReqFromDramDirectory(b) ==
  /\ ~mode.direct
  /\ <<LLC, "INV_REQ", b>> \in Work
  /\ line[LLC][b].cs = "S"
  /\ Become(updateCacheBlock(State, LLC, b, "I"))
  /\ UNCHANGED mode

processFlushReqFromDramDirectory(b) ==
  /\ ~mode.direct
  /\ <<LLC, "FLUSH_REQ", b>> \in Work
  /\ line[LLC][b].cs \in {"E", "M"}
  /\ Become(updateCacheBlock(State, LLC, b, "I"))
  /\ UNCHANGED mode

processWbReqFromDramDirectory(b) ==
  /\ ~mode.direct
  /\ <<LLC, "WB_REQ", b>> \in Work
  /\ line[LLC][b].cs \in {"E", "M"}
  /\ Become(updateCacheBlock(State, LLC, b, "S"))
  /\ UNCHANGED mode

\* EpochManager::increment: no line and no entry is of the new epoch.
increment ==
  /\ line' = [c \in Cache |-> [b \in Block |-> [line[c][b] EXCEPT !.now = FALSE]]]
  /\ logged' = {}
  /\ UNCHANGED <<mem, mode, undoable, bypassed, unsafe, failed>>

Next ==
  \/ \E c \in First, op \in Op, b \in Block : processMemOpFromCore(c, op, b)
  \/ \E c \in Cache, b \in Block : doPrefetch(c, b)
  \/ \E b \in Block : \/ processInvReqFromDramDirectory(b)
                      \/ processFlushReqFromDramDirectory(b)
                      \/ processWbReqFromDramDirectory(b)
  \/ increment

Spec == Init /\ [][Next]_vars

-----------------------------------------------------------------------------
(* Properties                                                              *)

Rank == [I |-> 0, S |-> 1, E |-> 2, M |-> 3]

(***************************************************************************)
(* Inclusion, with states: a cache never has a block that the next level   *)
(* lacks, nor in a stronger state than the next level.  Every writeback    *)
(* relies on it: writeCacheBlock asserts that it finds a MODIFIED line.    *)
(* No assert of the cache controller on the way fails either.              *)
(***************************************************************************)
Inclusive ==
  /\ ~failed
  /\ \A c \in Cache \ {LLC}, b \in Block :
       Rank[line[c][b].cs] <= Rank[line[NextCache[c]][b].cs]

(***************************************************************************)
(* The data of the last store is never lost, and every cache that may be   *)
(* read has it, unless the block was handed out in an exclusive state      *)
(* beside another copy: copyDataFromNextLevel gives a reader the state of  *)
(* the next level, MODIFIED included, after its siblings became SHARED     *)
(* only, and an EXCLUSIVE middle level is given up for a write without a   *)
(* word to the caches above it.  A later store there misses those copies.  *)
(***************************************************************************)
StaleOnlyBesideExclusive ==
  \A b \in Block :
    /\ mem[b] \/ \E c \in Cache : line[c][b].cs = "M" /\ line[c][b].new
    /\ b \notin unsafe =>
         \A c \in First : line[c][b].cs # "I" => line[c][b].new

(***************************************************************************)
(* Memory is not overwritten in place without an undo entry: when it has   *)
(* the data of the last store, an entry for the block was created in the   *)
(* epoch of that store or later, unless the data passed through the evict  *)
(* buffer of the L3, which writeCacheBlock fills without logging.          *)
(***************************************************************************)
OverwritesAreUndoable ==
  \A b \in Block :
    mem[b] /\ b \notin bypassed => b \in undoable

=============================================================================
