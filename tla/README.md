# A verification project for PiCL on Sniper

The repository is the Sniper 7.4 multi-core simulator with an implementation of
PiCL, a persistent cache log for non-volatile main memory (NVM). This directory
holds TLA+ models of its core logic, TLC configurations that check them on
small instances, and TLAPS proofs of what matters most for all instances.
Paths below are relative to `src/sniper/common/`; `msi/` abbreviates
`core/memory_subsystem/pr_l1_pr_l2_dram_directory_msi/`, `parametric/`
abbreviates `core/memory_subsystem/parametric_dram_directory_msi/`.

## 1. Inventory

| component | state | operations | interacts through |
|---|---|---|---|
| Epoch manager (`system/epoch_manager.cc`) | system and persisted epoch, both global and without a lock | `increment` (periodic hook), `setGlobalPersistedEID` | hooks; every L3 write reads the epoch |
| Undo buffer (`cache/onchip_undo_buffer.cc`) and its controller (`parametric/onchip_undo_buffer_cntlr.cc`), one per core | a bounded vector of entries | `insertUndoEntry` with the overflow loop, `flush`, `asyncCacheScan`, `persistLastEpochs`, `sendDataToNVM` | called by the L3 write path, by two hooks; sends to the NVM |
| PiCL hook in `CacheCntlr::writeCacheBlock` | epoch of every L3 line | test of the epoch, undo entry, new tag | under the stack lock of the cache set |
| Hooks manager, core and trace manager | registration order, instruction counters | periodic hook, exit hook | call back into the PiCL objects in the thread at hand |
| Last-level cache controller (`parametric/cache_cntlr.cc`) | lines, `m_directory_waiters` | access, miss, insertion with eviction, six directory messages | user threads, network thread, messages |
| The levels above it (the same class) | lines, evict buffer | access of a core, request to the next level, upgrade, writeback, writethrough, back-invalidation, prefetch | calls between the levels under the stack lock; the PiCL hook in the L3 |
| Directory controller and cache (`msi/dram_directory_cntlr.cc`, `msi/dram_directory_cache.cc`) | entries, queues of requests per block, list of replaced entries | `processExReq…`, `processShReq…`, `processUpgradeReq…`, `processNullifyReq`, `processInvRep…`, `processFlushRep…`, `processWbRep…`, `processDRAMReply` | messages of the caches and the DRAM |
| DRAM / NVM controller (`dram/dram_cntlr_interface.cc`) | block contents | read, write | messages of the directory |
| Memory manager, network, shared-memory transport | one FIFO inbox per node | send, receive, dispatch | the node's network thread |
| Set lock (`misc/setlock.cc`) and its hand-over | one mutex per core, two semaphores per core | shared and exclusive acquire, release, upgrade, downgrade, hand-over | user threads and network thread |
| Thread manager (`system/thread_manager.cc`, `core/thread.cc`) | status of every thread, who joins whom, the core of every thread | create, start, exit, join, stall, resume, move | `m_thread_lock`, hooks, one condition variable per thread |
| Schedulers (`scheduler/`) | affinities, who runs on which core, quanta | start, stall, resume, exit, yield, set affinity, periodic rescheduling | hooks of the thread manager and of the barrier; calls back `moveThread` |
| Clock-skew barrier (`system/barrier_sync_server.cc`) | local clocks, slots, list of threads to release | synchronize, signal, advance, release, abort | hooks of the thread manager; calls the periodic hooks |
| Synchronisation server (`system/sync_server.cc`) | owners and queues of mutexes, condition variables, barriers | lock, unlock, wait, signal, broadcast | stalls and resumes threads |
| System-call server (`system/syscall_server.cc`, `core/syscall_model.cc`) | queues of futexes and of sleepers, with deadlines | sleep, all futex operations, blocking calls | stalls and resumes threads; woken by the periodic hook |
| Performance models, DVFS, statistics, front ends | | not modelled | |

The hard parts are these.

* *PiCL has no locks of its own.* Two threads that work on different cache sets
  may be in the same undo buffer; hooks run in whatever thread crosses the
  instruction count or ends the application.
* *Unsigned loop arithmetic.* The overflow loop counts a `UInt32` gap down to
  zero, where one more round would wrap round.
* *Messages cross.* Caches evict, upgrade silently and invalidate while the
  directory's requests for the same block are under way, and a request for a
  line that is gone is not answered at all ("hoping eviction message is
  underway").
* *A lock changes hands without being released.* The network thread passes the
  stack lock to a sleeping user thread by a semaphore and then queues for it.
* *Buffers outlive their messages*, and one answer is sent from a buffer that
  only one of two paths fills.
* *Levels call each other both ways.* A request goes down and its snoops come up
  again; a line that is being evicted is written to by the levels above it.
* *Hooks call back.* A stall reschedules, which moves a thread, which resumes
  it, which reschedules; a stall may release the barrier, whose periodic hook
  may resume the very thread that is stalling, before it waits.
* *Time is driven by the threads.* Deadlines are only looked at when a thread
  reaches the barrier or stalls last.

The full list, with the properties that watch each item, is in `PROJECT.json`
under `hazards`.

What makes a component correct:

* PiCL: every overwritten value gets exactly one undo entry per epoch, no entry
  is lost or sent twice, buffers keep to their size, entries do not stay on
  chip longer than the ACS gap allows, loops end.
* Coherence: one writer or many readers, current data in every copy, the
  directory knows every copy, no handler meets a message it does not expect, every
  miss is served, no store is lost.
* Directory cache: a replacement is always found, nullifying loses nothing.
* Set lock: exclusion, no deadlock, no lost signal.
* Cache levels: inclusion, no store is lost, no readable copy is stale, nothing
  is overwritten in memory that cannot be undone.
* Threads: a stalled thread has exactly one event to wait for and does not miss
  it, deadlines are met, mutexes are handed on; all tables agree on who runs
  where, runnable threads find a core, nobody is left in the barrier.

## 2. Modules

| module | models | lines up with |
|---|---|---|
| `UndoBuffer` | the buffer as a data structure | `OnChipUndoBuffer`, `UndoEntry` |
| `PiclLog` | PiCL when calls do not overlap; one action per call | L3 write, refill, periodic hook, exit hook |
| `PiclThreads` | the same calls split into the steps that threads interleave | locks, copy/erase halves of a flush, loop rounds, asserts |
| `PiclThreadsRefinement` | `PiclThreads` with one thread implements `PiclLog` | |
| `DramDirectory` | the directory controller as operators on a record | one operator per C++ function, same name |
| `Coherence` | last-level caches, directory, DRAM and FIFO inboxes composed | one action per message type and access |
| `StackLock` | set lock, semaphores, hand-over, mutex by mutex | `_SetLock`, `processMemOpFromCore`, `handleMsgFromDramDirectory` |
| `CacheStack` | the cache levels between cores and directory, with the PiCL hook; calls as operators on a record | one operator per function of `CacheCntlr`, same name |
| `ThreadManager` | thread table, stalls, joins | `ThreadManager`, `Thread::wait`, `signal` |
| `SyncServer`, `SyscallServer` | the servers of the application's calls | `SimMutex`, `SimCond`, `SimBarrier`; `SyscallServer`, `SimFutex` |
| `AppSync` | the three composed with the periodic hook | |
| `BarrierServer`, `PinnedScheduler` | the barrier and the scheduler as operators on a record | one operator per function, same name |
| `ThreadPlacement` | the two composed with the thread manager when threads share cores | one action per call under `m_thread_lock` |
| `PiclLog_proofs`, `StackLock_proofs`, `AppSync_proofs` | proofs about the module of that name | |
| `PiclThreads_proofs`, `PiclRefinement_proofs` | proofs about the interleaved calls; the refinement | |
| `CoherenceViews_proofs`, `Coherence_proofs` | lemmas about the directory's handlers, block by block; proofs about the protocol | |
| `CoherenceData_proofs` | proofs about what the copies of a block contain | |
| `MC…` | constants and symmetry for TLC | |

Definitions whose name has a suffix after an underscore and whose comment
begins with "Seeded bug" are variants of the definition that follows them with
a plausible mistake. No specification uses them; put in its place, each one
makes TLC report the property that `PROJECT.json` names (`mutants`), which
shows that the property can fail.

### PiCL

`PiclLog` has the system epoch, the persisted epoch, one buffer and one NVM log
per core, and the epoch of every block's L3 line. A write of a block last
written in another epoch creates an entry `[from, till)` and tags the block; on
a full buffer the overflow loop flushes with gaps `MaxGap, MaxGap - 1, …` until
there is room, which the action summarises by the gap of the last round. The
periodic hook scans all cores (flush of epochs up to `system - gap`) and then
increments the epoch, because the hooks are called in the order of their
registration. The exit hook flushes everything. `RefillCacheBlock` stands for a
line that leaves the L3 and comes back with epoch 0. Two history variables
number the entries and remember when a block came in. The data of a block is
not part of an undo entry in the code either.

`PiclThreads` gives every thread a program counter. The stack lock of the
block's set, the thread manager's lock around the periodic hook and the trace
manager's lock around the exit hook are modelled, since they are all there is;
`removeOldEntries` and `removeAllEntries` are a copy and an erase, between
which anything may happen. `gap` and the epoch argument wrap at `GapMod` and
`EidMod`, which stand for 2^32 and 2^64. One call on the vector is one step:
overlapping calls inside `std::vector`, undefined behaviour in C++, are not
unfolded.

### Coherence

`DramDirectory` describes the handlers as functions on the directory's state;
`Coherence` makes them actions. Every node has one network thread, which takes
the messages of its FIFO inbox one by one and delivers them to the cache, or on
the home node to the directory and the DRAM, as `MemoryManager` does. User
threads miss, join `m_directory_waiters` and sleep; the network thread wakes
them one at a time and passes the stack lock to each, so that it handles
nothing else for the cache until the thread is done; but other threads may come
in between two waiters. Evictions of a block of the model are caused by
another block of the model (`DataRep` picks the victim) or by one outside it
(`OtherBlockRep`), at any time.

Abstractions: one home node, one set of the directory cache, full-map sharer
lists (the configured `full_map`), all blocks of the model in one set of the
last-level cache, no NUCA cache, `direct_access` off as configured, no
prefetches. L1 and L2 are not modelled here but in `CacheStack`: the state of a
line stands for the private caches above it, which are accessed under the same
stack lock.
Replacement picks any way `isValidReplacement` admits. Block contents are
classes: `new` is what the last store left, `mem` what the DRAM held before it,
`old` anything earlier, `junk` whatever a freed or unset buffer held, `none` no data; a store re-labels all other copies
wherever they are, messages and kept requests included. The simulator
carries contents only when it is asked to (fault injection); otherwise buffers
are passed round in the same way and nobody looks.

Two statements of the code use memory that holds no defined value: an upgrade
request keeps a pointer into a message that is then freed (`FlushRep`), and a
line that waits for an upgrade answers WB_REQ from a buffer that was not filled
(`WbReq`). In both the model lets the read find the intended data or `junk`.
`Unset` is the arbitrary initial value of `m_forwarder_id`.

### Stack lock

Every mutex and semaphore operation is a step of `StackLock`. What is done under
the lock is reduced to its outcome: hit, miss, access served. `held` records
which thread may release a mutex; passing the lock on is an assignment to it,
because the code does nothing but signal the semaphore.

### Cache levels

`CacheStack` has a tree of caches under one last level. An action is a whole
call under the stack lock: an access of a core with all requests, snoops,
writebacks and evictions it causes, a prefetch, or a request of the directory.
A line is its state, whether its data is that of the last store, and, since the
code only ever compares epochs with the running one, whether it was tagged in
the running epoch. Three history variables remember which blocks have an undo
entry of the epoch of their last store or of a later one (`undoable`), whose
memory was written past the hook (`bypassed`), and for which an exclusive state
was handed out beside another copy (`unsafe`). A miss in the last level is served
within the call; what crosses with it is in `Coherence`. `Modes` covers
writeback and writethrough first levels, with a directory and with direct access
to the DRAM. The victim of an insertion is any valid way; a prefetcher may ask
for any block.

### Threads

All servers run under `m_thread_lock`, so a call is a step. `AppSync` looks at who
waits for what: the status in the thread table, the place of the host thread, and
the queues. The one call that is two steps is `stallThread`: between the change of
the status and the wait, periodic hooks may run. Values of futex words are the
application's, their tests go either way; a wake or a requeue may ask for no, one
or all waiters (`Nr`). Timeouts are counted in periods, and lateness up to as many
periods as there are threads (`Latest`, a bound of the model: `TimeoutsAreServed`
says that no sleeper comes that far). The thread's core is left out there (static
scheduling).

`ThreadPlacement` looks at who runs where: `Thread::m_core`, the scheduler's
tables, the core states and the barrier. Why a thread stalls is reduced to
"sleeps until somebody or a period wakes it", a blocking call, or being without
a core. The calls nest deeply, so each function is an operator from a record of
the whole state to the next. What clocks decide is left open: which thread has
waited longest (`rank`), the random order of release, which timeout is served in
which period, how many intervals a core overshoots (`MaxAhead`). Waiting on the
condition variable of a core is two steps, as in `misc/cond.cc`: `wait` clears
`m_futx` and releases the lock (`entering`), and `FUTEX_WAIT` puts the thread to
sleep (`cond`) unless a signal has set `m_futx` (`futx`) meanwhile.

Two variables of `ThreadPlacement` record history for the properties and decide
nothing: `deserted`, the last running thread has exited or entered a blocking
system call and none has run since; and `overtaken`, the cores on whose condition
variable a wait has cleared `m_futx` before the thread it was set for called
`FUTEX_WAIT`, until nobody waits there any more. With `disable` set, time does not move in `advance`: a stall that
would have to wait for a later timeout ends in `failed = "time stands still"`.

Some constants say what the application may do. `JoinUnstarted`, `LastLeaves` (of
`AppSync`) and `EnableAgain` exclude, where they are FALSE, behaviours that break
the properties (see the observations); `BlockHolding` restricts threads from blocking
while they own a mutex, without which no mutex is ever promised.

## 3. Runs

| run | instance | shows |
|---|---|---|
| `picl_log` | 2 cores, 2 blocks, 2 entries, gap 2, 4 epochs, 4 entries ever | capacity, exactly-once and ordered logging, bounded time on chip, gapless undo chains, bounded regress of the persisted epoch and what it promises |
| `picl_threads` | 2 threads, 1 core, 2 blocks, 1 entry, gap 1 | undo chains survive every interleaving; entries get lost only if inserted between the two halves of another thread's flush |
| `picl_threads_assert` | the same, 3 epochs | **violation**: the buffer's own assert fails |
| `picl_refinement` | 1 thread, 2 cores, 1 entry, gap 2 | `PiclThreads` implements `PiclLog`; every operation ends |
| `coherence` | 3 caches (two write and read, one reads), 1 block, MSI, MESI and MESIF, all evictions, dead buffers with any contents | single writer, current data, directory covers caches, no handler assertion fails, no request is forgotten, forwarders hold the block |
| `coherence_shared_cache` | 2 cores on one cache and 1 on another, MSI and MESI | a woken thread finds its data, every miss is served |
| `coherence_nullify` | 3 blocks in 2 ways of the directory cache, 2 caches, one block shared | replacement is always possible, nullifying loses no data |
| `stack_lock` | 3 cores and the network thread | exclusion, no deadlock, no lost signal |
| `cache_stack` | 2 cores, 3 first levels (one core's are split), 2 second levels, 1 third; 3 blocks in sets of 1 or 2 ways; 4 modes | inclusion with states, last store kept, stale copies only where described, memory overwritten only with an undo entry or through the evict buffer |
| `app_sync` | 3 threads, 1 mutex, 1 condition variable, 1 barrier of 2, 2 futexes, timeouts of 0 or 1 period | one event per stalled thread, no lost signal, hand-over of mutexes, deadlines, no abort over a mutex, every waiter for a mutex is served |
| `app_sync_asleep` | the same, the last running thread may leave | **violation**: threads sleep for ever |
| `thread_placement` | 3 threads, 3 cores, 2 affinities, 1 host core, quantum 0, overshoot of at most 1, waits split in two steps | which assertion and loop fails and which never, tables agree, cores are used unless deserted, slots and waiters match and nobody is stuck in the barrier unless a signal was overtaken |

*Why the bounds suffice.* In `picl_log` a buffer of two entries overflows with
entries of the current and of older epochs, the gap of two lets the overflow loop
take one, two or three rounds, and four epochs are enough for a scan that
persists and one that does not. In `picl_threads` one entry makes the race for
the last free entry happen at once. Three caches are the least with a sharer
that is neither requester nor victim, and two
writers the least for upgrades that cross (with three, `AllAccesses`, TLC finds
the same at twice the cost); three blocks
in two ways force a block to be requested again while it is being nullified;
`ReplacementFound` assumes as many ways as cores, as the code does tacitly: each
core waits for one block at a time. Three cores on a set lock give a mutex below,
at and above a thread's own one. In `cache_stack` one way in the first levels and
in one second level, two in the others, make every level evict lines that the
level above or below still has; a second first level under one second level is
needed for copies the second level has to snoop. In `app_sync` three threads are
the least for a waiter that is requeued, signalled and timed out while another
one holds the mutex and a third calls; sleepers may be one period late each. In `thread_placement` one host core makes releases wait for
one another, and three threads with `{0}` and all cores as affinities give
contention for a core beside free ones; with quantum 0 a thread may be pre-empted
in every period. All three exceptions that its properties name (`deserted`,
`overtaken`, "time stands still") are reached. Two threads on one condition variable,
neither of them overtaken, are not: they take five threads on four cores, too many
for TLC. In `coherence` a reader gets junk after a WB_REP; the other exception
of `NoStaleCopy`, a woken writer with junk, takes nullification with three caches under
MSI, which none of the runs has (TLC reaches it, and the property holds there, with one
way and two blocks, one read by all three caches and written by the second, the other read
by the first); the theorem `NoStaleData` covers all instances. `CHECK_DEADLOCK` is off for
`PiclThreads`, where a failed assert ends the process, and for `app_sync` and
`thread_placement`, where an application may end, or deadlock itself.

*Fairness.* `MissesAreServed` assumes weak fairness of every node's network
thread (a dedicated thread that loops on its inbox) and of a woken user thread,
which has a signal and owns the lock. Cores need not make accesses and evictions
need not happen. `OperationsFinish` assumes that the operating system keeps
running a thread that is inside an operation. `MutexServed` assumes weak fairness
of the periods and of the thread inside `stallThread`, and strong fairness of
unlocking: an application that locks a mutex unlocks it, though it may sleep in
between again and again. It says of a mutex that the queue is empty, or the owner
changes, infinitely often; as the queue is first in, first out, nobody in it is
passed over.

### Findings

1. *The assert of the undo buffer can fail* (`picl_threads_assert`). Nothing
   covers `isFull` and the insertion: two threads under the locks of different
   sets see the same free entry.
2. *Sleeping threads may never be woken* (`app_sync_asleep`). The comment in
   `stallThread` says that time is advanced when all threads are stalled. That is
   so only if the last one stalls through `stallThread`; if it exits, or blocks in
   a native system call (`stallThread_async`), nobody calls `advance`, and the
   barrier is not reached without a running core.

### Observations

What the models show beside the runs; each can be reproduced by the change of
constants or properties that is named.

* *A store can be lost.* `processWbRepFromL2Cache` passes dirty data to a reader
  and marks both copies clean without writing the DRAM
  (`msi/dram_directory_cntlr.cc:1179`). `LastWriteExists` fails for such blocks;
  `LostOnlyAfterForward` and `NoStaleCopy` delimit the effect: no other path loses
  data, and a reader never gets an older store than the DRAM's copy has. It matters
  where contents are simulated, and DRAM writes are missing in the simulated
  traffic.
* *A FLUSH_REP's buffer is used after it was freed*: the upgrade request keeps
  the pointer (`msi/dram_directory_cntlr.cc:1142`), the memory manager deletes the
  message. And *a MESIF forwarder that waits for an upgrade answers WB_REQ from a
  buffer it never wrote* (`parametric/cache_cntlr.cc:2085`). `NoStaleCopy` delimits
  both: a thread reads what such a buffer held only after a WB_REP for the block;
  otherwise it only gets to a thread that is about to overwrite it. (A cache block is
  one datum in the model; a store that overwrites part of a block leaves the rest.)
* *Exclusive states beside other copies.* `copyDataFromNextLevel` gives a reader
  the state of the next level although its siblings were only made SHARED
  ("will have shared state", `parametric/cache_cntlr.cc:915`), and an EXCLUSIVE
  second level gives its line up for a write without invalidating the other
  first level. A later store leaves the other copy stale.
  `StaleOnlyBesideExclusive` shows that nothing else does.
* *The undo log has gaps.* Dirty data that an L3 eviction pulls out of the upper
  levels reaches memory through the evict buffer without an undo entry
  (`bypassed`); an entry carries the epoch of the writeback into the L3, not that of
  the store; and the entry may still be on chip when the line is written in
  place. `CacheCntlr::asyncCacheScan`, which would flush dirty lines per epoch,
  is commented out where it would be registered (`parametric/cache_cntlr.cc:287`).
* *The persisted epoch is global.* `flush` of one core's buffer raises it while the
  others still hold older entries; `PersistedIsLogged` says what remains: some
  core vouches for it.
* *Joining a thread that has not started* (`JoinUnstarted = TRUE`):
  `onThreadStart` signals the joiner and forgets it without resuming it, so it
  runs on as STALLED; `HostAgrees` fails.
* *A requeued waiter has no bound on its lateness.* `futexPeriodic` wakes one waiter
  per futex and period, the first that is due, and `FUTEX_CMP_REQUEUE` puts waiters
  at the end of another queue with their old deadline: moved to and fro, one may be
  passed over for ever. Stated for futexes too, `TimeoutsAreServed` fails; for
  `nanosleep`, whose queue nobody reorders, it is proved.
* *"Application has deadlocked"* may be raised while the only other thread is in a
  blocking native call and would return: `Abort` of `AppSync` is enabled there. What the
  run shows of aborts is that none is due to a mutex (`NoAbortOverMutex`).
* *The last thread leaves* in `ThreadPlacement`: when it exits or blocks in a system
  call, only its own core is rescheduled and time is not advanced, so that a runnable
  thread which may only use another core is not scheduled although that core is free.
  `CoresAreUsed` says that this (`deserted`) is the only way for all cores to be idle.
* *The barrier is switched off and the last thread stalls.* `barrierRelease` returns
  before it moves `m_next_barrier_time` (`system/barrier_sync_server.cc:283`), and the
  loop of `stallThread` calls `advance` for ever, holding `m_thread_lock`, if the next
  timeout is later than that time. `NoFailure` names this outcome and excludes all
  others.
* *Switching the barrier on again* (`EnableAgain = TRUE`): `abortBarrier` keeps the
  old local clocks, `isBarrierReached` takes them for arrivals, and the loop of
  `barrierRelease` does not end (`NoFailure`, "spins"), against the comment that
  it makes "forward progress". Threads in `m_to_release` are not woken by
  `abortBarrier` either; they go with the next release.
* *A lost wake-up in the barrier* (`overtaken`):
  `ConditionVariable` has one flag for all its waiters, and `m_core_cond` is shared by
  the threads that come to a core one after the other. Thread A waits for core 0 and
  is held up by the host between `lock.release()` and `FUTEX_WAIT`; the last thread
  arrives, the scheduler gives core 0 to C, and A is signalled (`m_futx = 1`); C runs
  up to the barrier and waits (`m_futx = 0`); A reaches `FUTEX_WAIT` and sleeps. If
  A was moved to another core, everybody waits for it: the simulation stops.
  `SlotsAccountForWaiters` and `NotStuck` say that nothing else strands a waiter. Threads
  that never share a core never share a variable.
* *A futex requeued onto itself*: `FUTEX_CMP_REQUEUE` with `uaddr2 = uaddr` takes waiters
  from the queue and appends them to it for ever (`system/syscall_server.cc:304`); the
  model has no such call.
* `FUTEX_WAKE_BITSET` ignores its mask (`system/syscall_server.cc:88` tests for
  `FUTEX_WAIT_BITSET`); a trylock by the owner queues the owner behind itself
  (`system/sync_server.cc:28`); a writethrough second level would lock address
  1 (`parametric/cache_cntlr.cc:1784` passes `true` as the address).

## 4. Proofs

TLAPS checks them for every value of the constants; the only assumptions are
the named `ASSUME`s of the modules: `NumEntries`, `AcsGap`, the widths and the
bounds are naturals, there is a core and an epoch to count to; `N` is a positive
natural; there are finitely many threads, the main thread is one and `NoThread` is
none; nodes are finitely many naturals with the home node among them, cores are finitely
many and each belongs to a node, the directory set has a way, the protocol is one of the
three. Hypotheses on what the application does are part of the theorems and named
below.

`PiclLog_proofs`. The inductive invariant `IInv` is the conjunction of
`TypeOK`, finiteness of the buffers, `CapacityRespected`, `EpochOrdered`,
`EpochsBounded`, `LoggedOnceInOrder`, `ScanBoundsResidency` and `UndoChain`.
The properties alone are not inductive: that a flush takes a prefix of the buffer
(and so keeps the log in order) needs `EpochOrdered`, entries in epoch order;
that a new entry keeps this order and extends the chain needs `EpochsBounded`, no
block or persisted epoch ahead of the system's. The lemmas are `GreatestBelow` (the
overflow loop's last round exists), `FlushTakesPrefix`, `OverflowLoopMakesRoom`
(with gap 0 everything is flushed, so the loop stops and there is room),
`NewEntryKeepsInvariant` and `FlushKeepsInvariant`. The theorems: `TypeCorrect`,
`BufferNeverOverflows`, `LogIsExact`, `ResidencyIsBounded`, `ChainIsComplete`, the
action property `RegressIsBounded`, and `PersistedIsVouchedFor`: by
`RemainingIsNotOlder` the core whose buffer was flushed last has nothing older
than the persisted epoch left, and later entries are younger still.

`StackLock_proofs`. `IInv` is `TypeOK`, `HeldByOwner` (which mutexes a thread
holds is determined by where it is, at every place of its program), `Positions`
and `Signals` (a signal is for a sleeper, and the network thread waits for the
one it woke). One lemma per action; the theorems are `TypeCorrect`,
`StackLockExcludes`, `NoDeadlock` and `NoSignalIsLost`, for any number of cores.
`NoDeadlock` states the invariant that orders the waiting (whoever holds a mutex
can run or waits for a higher one), not that a thread eventually gets the lock:
the mutexes are not known to be fair.

`AppSync_proofs`. `NoWakeupIsLost` is `HostAgrees` for any number of threads and
objects, under the assumption that no thread is joined before it has started.
`HostInv` adds to it that such a thread has no registered waiter
(`UnstartedUnjoined`, for `onThreadStart` signals without resuming) and that a
thread inside `stallThread` is STALLED or has been resumed
(`StallingIsStalled`, so that the test before the wait decides between the two).
The lemmas on `resumeThreads`, `stallAndResume` and `exitThread` hold for any set
of resumed threads: the argument does not depend on the queues being right.

`PiclThreads_proofs`. Nothing protects a buffer, so the proofs lean on what the
locks do protect. `LockInv` says which operation holds which lock: a writer the
stack lock of its block's set, a scan the hook lock (`WriterHoldsLock`,
`ScannerHoldsLock`), and that no block is tagged ahead of the system's epoch. With
it `ChainInv` (entry numbers are below `next_id`, `UndoChainUnderRaces`) is
inductive: the epoch a writer read before it inserts is still the block's next one
when it tags the line, since only the holder of the lock tags it, however often the
system's epoch has moved on. For `OnlyRacesLoseEntries` the addition is
`CopiesCover`: what the erase half of a flush will remove has been copied by its
first half, or was inserted since. The theorems are `TypeCorrect`,
`ChainSurvivesRaces` and `OnlyRacesLoseEntries`, for any number of threads.

`PiclRefinement_proofs`. `CallsRefinePiclLog` is the whole of `ImplementsPiclLog`
(`PiclLog` has no fairness) for a single thread (`Alone`), any number of cores and
blocks and any sizes. The invariant `RInv` relates the state in the middle of a call
to `done`, the state before it: which cores the hook has finished (`FlushedTo`), is
in the middle of (`Between`, `InFlush`) and has not touched; and for the overflow
loop the round `g` it is in, that no round with a larger gap made room
(`NotBefore`), and that the unsigned counter is `g - 1` modulo its width, so that
after the round with gap 0, which always makes room, the wrapped value is never
used. The last step of each call is then the action of `PiclLog`.

The second part of `AppSync_proofs` begins with lemmas on queues (what appending, removing,
requeueing, waking and granting do to the set of threads in a queue and to its
entries being distinct). `PlaceInv` is `HostInv`, the types of all queues,
that no thread is twice in one, and `Standing`: a stalled thread is in exactly one
queue of the kind of its reason, any other thread in none. It is stated with sets of
objects, not with the count that `OneWayToWake` uses, because that is what the
actions preserve; `OneEventWakes` follows. `OwnerInv` adds that an owner is not in
the queue of its mutex and has not given it up in a condition variable
(`MutexNeverIdle`); `SleepInv`, that the sleeper at place `i` is at most
`Latest - i` periods late, which with the pigeonhole principle (no thread sleeps
twice) gives `SleepersInTime`. As for
`NoWakeupIsLost`, no thread is joined before it has started.

`CoherenceViews_proofs` and `Coherence_proofs` prove eight invariants of the
protocol for any finite set of nodes and cores, any blocks, any number of ways and
all three protocol variants. Inboxes are unbounded sequences and a handler may go
on to process every request in a queue, so the argument is made for one block at a
time, through a *view* of it: its directory entry, the request in progress, what
each node asks for in the queue, which replies, live requests of the directory and
answers are under way from and to each node, whether the DRAM is being read, the
states of the lines, and whether a reply is awaited. A request of the directory is
*live* if it will find a line: the line is there, or on its way ahead of it; one that
finds nothing is ignored by the cache, and an eviction message is under way instead.

* Of each node a view says (`CoreN`): at most one message of a kind is under way; a
  sharer has the block, is being sent it, has given it up or waits for it, and exactly
  one of these (`Present`); a cache's request is in exactly one place (`Token`); what
  its line is meanwhile (`Lines`) and what the directory's state implies about it
  (`Known`). With `EntryInv` and `HeadInv` this is `CoreInv`.
* `Stable` is `CoreInv` with: no request is in progress and nobody has been asked
  anything (`Quiet`), or the one in progress waits, and everybody it waits for is
  answering (`Waiting`). `Fresh` is what a handler starts from. The lemmas of part 2
  take every kind of step (ask, answer, wait, a message arrives, a line is dropped,
  upgraded, written back) from one to the other.
* Order matters too: an eviction reaches the directory before the next request of the
  same cache, a write-back before an eviction, and an `UPGRADE_REP` is ahead of any
  live request of the directory (`Ordered`). That messages are FIFO is used here.
* `IInv` is the types of the caches (`CacheT`), `Users` (each sleeping thread is in one
  list of waiters, a woken one is first in the list of the block being served and finds
  a permissible line), and `Between`: every block's view is `Stable` and its messages
  `Ordered`, and the entries of the directory cache are accounted for (`Alloc`).

`SingleWriter` needs all of this: that a grant finds no other copy rests on the answers
the directory counted, those on the requests it sent being live, and that on the order
of the messages and on upgrades which have lost their copy being recognised. Handlers
that process one request after another (`RunQueue`) are proved by induction on the
rounds, each taking one request from the queue. The theorems are `TypeCorrect`,
`WriterIsAlone`, `NoCopyForgotten`, `AssertionsHold`, `NoRequestStranded`,
`ForwarderHasBlock`, `WokenThreadsHit` and `EntryIsFound`; for the last one, every entry
in use is that of a block some core sleeps for, and a core sleeps for one block.

`CoherenceData_proofs` adds the contents of copies, for `NoStaleData` and `NoStoreLost`
(`NoStaleCopy` and `LostOnlyAfterForward`). Neither property is inductive, and neither
can be proved without the other: that a reader gets good data from the DRAM rests on
the owner's data having been written there before, and that an eviction loses nothing
rests on the evicted line holding the last store. Good data (`Good`) is `new`, or, once a WB_REP
has been handled since the last store, `mem` or `junk`. `DataInv` says for each block:

* `Mail`: every message whose data will be read is good, or is of a kind that may hold
  junk (`Allowed`: a WB_REP not yet handled, and the EX_REP to a next owner, and these
  only while the DRAM has the last store or is about to get it); no write of anything
  older than `mem` is on its way to the DRAM, at most one write is, and it is ahead of
  every read and of every later flush in the home node's inbox (`WriteOrder`): a
  reader cannot overtake the write-back it depends on, nor a write-back a younger one.
* `Held`: data is kept only with an upgrade whose block is still SHARED, and it is good
  or junk.
* `Safe`: unless the block has been forwarded, the DRAM has the data of the last
  store or a write of it is under way (`Saved`), or the directory still knows better
  (`Unsaved`): the entry is MODIFIED and its request does not wait for the DRAM, or it
  is EXCLUSIVE and the owner has silently made it MODIFIED or has sent the dirty data.
  In the last case the entry does not tell; the line or the message does.
* `LinesGood`: every line with data has good data, or holds junk, is EXCLUSIVE and
  belongs to a woken thread that is about to write it; and if a line holds junk
  (`JunkLine`), the DRAM has the last store or the block has been forwarded.

`DataInv` rests on `IInv` at every step: that a store leaves no copy behind that somebody
may still read needs that no data of the block is under way while a line is writable
(`NoBearers`), which is `Present` and `Waiting` again. Inside a handler, after a flush and
before the next request is answered, the data is in the directory's hands only
(`InHand`, `TurnSane`); requests that are processed one after the other keep this by
induction on the rounds. That junk does no harm is part of the same induction: the freed
message is kept with an upgrade only, so that what is read there goes to a writer, and
while it is under way the last store is in the DRAM, so that a writer that is flushed
before its store, or evicted, loses nothing.

Proving changed the project in six places. `Becomes` has the conjunct `EntriesFound`: when
no directory entry may be replaced, an assertion ends the process, and there is no
next state; the model had gone on with an undefined victim (unreachable in the runs,
as `ReplacementFound` shows). `CoreAssumption` says that there are finitely many cores. `SimCond::broadcast`'s selection of
entries is a recursive function now, for the prover knows nothing of `SelectSeq`.
`MutexHandedOver` had said that an owner waits for no condition at all, true with
one mutex and false with two. `TimeoutsAreServed` had included futexes, true only as
long as requeueing no waiter was not among the inputs. `NoStaleCopy` had taken dead
buffers for intact; which of them a reader may come to see is what the proof found out.

Only model-checked: the properties that a run refutes; `ThreadPlacement` and `CacheStack`, whose nested calls (rescheduling that
reschedules, one core after the other; the tree of caches) are RECURSIVE
operators, and what those do for every input takes an induction over data, which is beyond the prover; and liveness (`MissesAreServed`,
`OperationsFinish`, `MutexServed`), which is beyond it.

## 5. Not modelled

* Timing and statistics everywhere; MSHRs, the prefetchers' choice of addresses,
  perfect and passthrough caches, the choice of replacement policies among valid
  ways.
* `asyncCacheScan` and `flushCacheBlock` of `CacheCntlr`, and
  `OnChipUndoBuffer::isPresent`: the first two are never registered, the third is
  a stub without callers.
* `CP_REP` as a message: the undo buffer sends one per entry to the DRAM of the log
  address's home node (`sendDataToNVM`), which the PiCL models record as the entry
  reaching the log; no directory state depends on it. The directory's
  `processCpRepFromL2Cache` is reached from `flushCacheBlock` only, which
  only the unregistered `asyncCacheScan` of the cache calls.
* NUCA cache, limited and limitless directories: not part of the PiCL
  configurations.
* Fast-forward mode and SMT groups of the barrier, a script that disables the
  barrier from a periodic hook; the static, sequential and big-small schedulers
  (static scheduling is what `AppSync` assumes).
* `Coherence` and `CacheStack` are not composed: the crossing of directory
  messages with the snoops of the upper levels is covered only so far as the
  stack lock makes each handler a step.
* Crash and recovery: the simulator writes the log and never reads it back.
* Performance models, DVFS, power, scripting, front ends, decoders and all
  vendored code (the decoder library XED, option parsers, kernel headers): numeric
  models, I/O and third-party code, which make up most of the repository's lines.

## 6. Plan

Done: PiCL (steps 1 to 3), the coherence protocol (4), the set lock (5), the
application's threads (6), barrier and scheduler (7), the cache levels (8), proofs
of the threads', PiCL's and the protocol's invariants (9 to 12).

1. `UndoBuffer`, `PiclLog` with its runs and proofs.
2. `PiclThreads`, the races between threads and hooks.
3. Refinement between them.
4. `DramDirectory` and `Coherence`, three protocol variants, nullification.
5. `StackLock` and its proofs.
6. `ThreadManager`, `SyncServer`, `SyscallServer`, composed in `AppSync`, with
   liveness of the mutexes and the first proof.
7. `BarrierServer`, `PinnedScheduler`, composed in `ThreadPlacement`.
8. `CacheStack`.

9. `MutexHandedOver`, `OneWayToWake` and `TimeoutsAreServed` for any number of threads.
10. `UndoChainUnderRaces`, `OnlyRacedEntriesLost`; the refinement `PiclThreads` =>
    `PiclLog`.

11. The invariants of `Coherence` from an inductive invariant over lines, messages and
    directory.

12. `NoStaleCopy` and `LostOnlyAfterForward`, with the contents of lines, messages,
    kept requests and the DRAM.

13. The two steps of `ConditionVariable::wait`, a barrier that is switched off, and the
    last thread leaving, as behaviours of `ThreadPlacement`; dead buffers with any contents
    in `Coherence` and its proofs.

Next: `ThreadPlacement` and `CacheStack` with the loops of their nested calls as steps
of their own under the lock, so that ordinary invariance proofs reach them.
