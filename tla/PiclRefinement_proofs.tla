------------------------ MODULE PiclRefinement_proofs ------------------------
(***************************************************************************)
(* One thread: the steps of PiclThreads add up to the calls of PiclLog,    *)
(* for every number of cores and blocks and every size of the buffers.     *)
(***************************************************************************)
EXTENDS PiclThreadsRefinement, PiclThreads_proofs

Alone == \A s, t \in Thread : s = t

FlushPCs == {"collect", "clear", "erase", "send", "persist"}

-----------------------------------------------------------------------------
(* How far the operation in progress has come since the state `done`.      *)

\* What flush(eid) takes out of the buffer that c had at the last completed call.
Fl(c, eid) == FlushedEntries(done.buffer[c], eid, done.system_eid)

Untouched(c) == buffer[c] = done.buffer[c] /\ log[c] = done.log[c]

FlushedTo(c, eid) ==
  /\ buffer[c] = done.buffer[c] \ Fl(c, eid)
  /\ log[c] = done.log[c] \cup Fl(c, eid)

\* Some of what flush(eid) takes has been flushed before.
Between(c, eid) ==
  /\ done.buffer[c] \ Fl(c, eid) \subseteq buffer[c] /\ buffer[c] \subseteq done.buffer[c]
  /\ done.log[c] \subseteq log[c] /\ log[c] \subseteq done.log[c] \cup Fl(c, eid)
  /\ done.buffer[c] \subseteq buffer[c] \cup log[c]

InFlush(t) ==
  /\ th[t].pc = "collect" => Between(th[t].core, th[t].target)
  /\ th[t].pc \in {"clear", "erase"} =>
       /\ Between(th[t].core, th[t].target)
       /\ th[t].queue = FlushedEntries(buffer[th[t].core], th[t].target, system_eid)
       /\ th[t].pc = "clear" <=> th[t].target = system_eid
  /\ th[t].pc = "send" =>
       /\ buffer[th[t].core] = done.buffer[th[t].core] \ Fl(th[t].core, th[t].target)
       /\ log[th[t].core] \cup th[t].queue
            = done.log[th[t].core] \cup Fl(th[t].core, th[t].target)
  /\ th[t].pc = "persist" => FlushedTo(th[t].core, th[t].target)

\* The first gap of the overflow loop.
TopGap == IF system_eid > AcsGap THEN AcsGap ELSE system_eid

\* The loop has not stopped before the round with gap g.
NotBefore(c, g) ==
  /\ isFull(done.buffer[c])
  /\ \A h \in 0..TopGap : h > g => isFull(done.buffer[c] \ Fl(c, system_eid - h))

\* The last round had gap g.
AfterRound(t, g) ==
  /\ NotBefore(th[t].core, g)
  /\ FlushedTo(th[t].core, system_eid - g)
  /\ persisted_eid = system_eid - g

Nothing(t) == Untouched(th[t].core) /\ persisted_eid = done.persisted_eid

WriteInv(t) ==
  /\ th[t].pc \in FlushPCs \cup {"check", "again", "insert"}
  /\ th[t].eid = system_eid /\ th[t].core \in Core /\ th[t].block \in Block
  /\ block_eid[th[t].block] # system_eid /\ next_id <= MaxId
  /\ \A c \in Core \ {th[t].core} : Untouched(c)
  /\ th[t].pc = "check" => Nothing(t)
  /\ th[t].pc \in FlushPCs =>
       /\ InFlush(t)
       /\ \E g \in 0..TopGap : /\ NotBefore(th[t].core, g)
                               /\ th[t].target = system_eid - g
                               /\ th[t].gap = (g - 1) % GapMod
  /\ th[t].pc = "again" => \E g \in 0..TopGap : AfterRound(t, g) /\ th[t].gap = (g - 1) % GapMod
  /\ th[t].pc = "insert" => /\ ~isFull(buffer[th[t].core])
                            /\ Nothing(t) \/ \E g \in 0..TopGap : AfterRound(t, g)

\* The epoch that a hook persists, and whether it does.
Persists(t) == IF th[t].op = "scan" THEN system_eid - AcsGap ELSE system_eid
Active(t)   == th[t].op = "exit" \/ system_eid >= AcsGap

Current(t) == IF th[t].pc \in FlushPCs THEN {th[t].core} ELSE {}

HookInv(t) ==
  /\ th[t].pc \in FlushPCs \cup {"hook"}
  /\ th[t].op = "scan" => system_eid < MaxEid
  /\ th[t].pc \in FlushPCs => /\ Active(t) /\ th[t].core \in th[t].todo
                              /\ th[t].target = Persists(t) /\ InFlush(t)
  /\ Active(t) => /\ \A c \in Core \ th[t].todo : FlushedTo(c, Persists(t))
                  /\ \A c \in th[t].todo \ Current(t) : Untouched(c)
                  /\ th[t].todo # Core => persisted_eid = Persists(t)
  /\ ~Active(t) => persisted_eid = done.persisted_eid /\ \A c \in Core : Untouched(c)

\* Nothing but the buffers, the log and the persisted epoch changes before the end
\* of an operation.
SameCall ==
  /\ done.system_eid = system_eid /\ done.block_eid = block_eid
  /\ done.next_id = next_id /\ done.filled_at = filled_at

DoneType ==
  /\ done.buffer \in [Core -> SUBSET UndoEntryType]
  /\ done.log \in [Core -> SUBSET UndoEntryType]

CallInv(t) ==
  /\ th[t].pc = "idle" => done = Visible
  /\ th[t].pc # "idle" => th[t].op \in {"write", "scan", "exit"}
  /\ th[t].pc # "idle" /\ th[t].op = "write" => WriteInv(t)
  /\ th[t].pc # "idle" /\ th[t].op \in {"scan", "exit"} => HookInv(t)

RInv == LockInv /\ DoneType /\ SameCall /\ \A t \in Thread : CallInv(t)

-----------------------------------------------------------------------------
(* Steps that keep `done`, and steps that end a call.                      *)

LEMMA DoneKept ==
  ASSUME Alone, NEW t \in Thread, RNext
  PROVE  /\ th'[t].pc # "idle" => done' = done
         /\ th'[t].pc = "idle" => done' = Visible'
  BY DEF Alone, RNext

LEMMA InsideCall ==
  ASSUME Alone, RInv, LockInv', NEW t \in Thread, done' = done,
         UNCHANGED <<system_eid, block_eid, next_id, filled_at>>, CallInv(t)'
  PROVE  RInv'
<1>1. DoneType' /\ SameCall'
  BY DEF RInv, DoneType, SameCall
<1>2. \A u \in Thread : u = t
  BY DEF Alone
<1> QED
  BY <1>1, <1>2 DEF RInv

LEMMA CallEnds ==
  ASSUME Alone, LockInv', NEW t \in Thread, th'[t].pc = "idle", done' = Visible'
  PROVE  RInv'
<1>1. DoneType' /\ SameCall'
  BY DEF DoneType, SameCall, LockInv, Types, Visible
<1>2. CallInv(t)'
  BY DEF CallInv
<1>3. \A u \in Thread : u = t
  BY DEF Alone
<1> QED
  BY <1>1, <1>2, <1>3 DEF RInv

\* What depends on `done` and the epoch only.
LEMMA SameRounds ==
  ASSUME done' = done, system_eid' = system_eid
  PROVE  /\ TopGap' = TopGap
         /\ \A c, e : Fl(c, e)' = Fl(c, e)
         /\ \A c, g : NotBefore(c, g)' <=> NotBefore(c, g)
<1>1. TopGap' = TopGap /\ \A c, e : Fl(c, e)' = Fl(c, e)
  BY DEF TopGap, Fl
<1> QED
  BY <1>1 DEF NotBefore

LEMMA SameCore ==
  ASSUME done' = done, NEW c, buffer'[c] = buffer[c], log'[c] = log[c]
  PROVE  /\ Untouched(c)' <=> Untouched(c)
         /\ \A e : FlushedTo(c, e)' <=> FlushedTo(c, e)
         /\ \A e : Between(c, e)' <=> Between(c, e)
  BY DEF Untouched, FlushedTo, Between, Fl

\* flush with a later epoch takes at least as much.
LEMMA FlushGrows ==
  ASSUME RInv, NEW c \in Core, NEW a \in Int, NEW b \in Int, a <= b, b <= system_eid
  PROVE  Fl(c, a) \subseteq Fl(c, b)
<1>1. done.buffer[c] \subseteq UndoEntryType /\ done.system_eid = system_eid /\ system_eid \in Int
  BY DEF RInv, DoneType, SameCall, LockInv, Types
<1>2. \A e \in done.buffer[c] : e.till \in Nat
  BY <1>1 DEF UndoEntryType
<1>3. CASE b = system_eid
  BY <1>1, <1>3 DEF Fl, FlushedEntries, OldEntries
<1>4. CASE b # system_eid
  <2>1. a # system_eid
    BY <1>1, <1>4
  <2> QED
    BY <1>1, <1>2, <1>4, <2>1 DEF Fl, FlushedEntries, OldEntries
<1> QED
  BY <1>3, <1>4

-----------------------------------------------------------------------------
(* flush                                                                   *)

SameOp(t) ==
  /\ th'[t].op = th[t].op /\ th'[t].core = th[t].core /\ th'[t].block = th[t].block
  /\ th'[t].eid = th[t].eid /\ th'[t].gap = th[t].gap /\ th'[t].target = th[t].target
  /\ th'[t].todo = th[t].todo

SameElsewhere(t) ==
  \A c \in Core \ {th[t].core} : buffer'[c] = buffer[c] /\ log'[c] = log[c]

LEMMA CollectStep ==
  ASSUME RInv, NEW t \in Thread, Collect(t), InFlush(t), done' = done
  PROVE  /\ SameOp(t) /\ SameElsewhere(t) /\ InFlush(t)'
         /\ th[t].pc \in FlushPCs /\ th'[t].pc \in FlushPCs
         /\ UNCHANGED <<system_eid, persisted_eid, block_eid, next_id, filled_at>>
<1> SUFFICES ASSUME NEW c, NEW T, c = th[t].core, T = th[t].target
             PROVE  /\ SameOp(t) /\ SameElsewhere(t) /\ InFlush(t)'
                    /\ th[t].pc \in FlushPCs /\ th'[t].pc \in FlushPCs
                    /\ UNCHANGED <<system_eid, persisted_eid, block_eid, next_id, filled_at>>
  OBVIOUS
<1>1. /\ th[t].pc = "collect" /\ UNCHANGED <<system_eid, persisted_eid, buffer, log, block_eid>>
      /\ UNCHANGED <<next_id, filled_at>>
  BY DEF Collect, At, shared
<1>2. /\ SameOp(t)
      /\ th'[t].queue = FlushedEntries(buffer[th[t].core], th[t].target, system_eid)
      /\ th'[t].pc = IF th[t].target = system_eid THEN "clear" ELSE "erase"
  BY DEF Collect, SameOp, RInv, LockInv, Types, Local
<1>3. Between(c, T)
  BY <1>1 DEF InFlush
<1>4. Between(c, T)'
  BY <1>1, <1>3, SameCore
<1>5. th'[t].core = c /\ th'[t].target = T
  BY <1>2 DEF SameOp
<1>6. InFlush(t)'
  BY <1>1, <1>2, <1>4, <1>5 DEF InFlush
<1> QED
  BY <1>1, <1>2, <1>6 DEF FlushPCs, SameElsewhere

LEMMA EraseStep ==
  ASSUME RInv, NEW t \in Thread, Erase(t), InFlush(t), done' = done
  PROVE  /\ SameOp(t) /\ SameElsewhere(t) /\ InFlush(t)'
         /\ th[t].pc \in FlushPCs /\ th'[t].pc \in FlushPCs
         /\ UNCHANGED <<system_eid, persisted_eid, block_eid, next_id, filled_at>>
<1> SUFFICES ASSUME NEW c, NEW T, c = th[t].core, T = th[t].target
             PROVE  /\ SameOp(t) /\ SameElsewhere(t) /\ InFlush(t)'
                    /\ th[t].pc \in FlushPCs /\ th'[t].pc \in FlushPCs
                    /\ UNCHANGED <<system_eid, persisted_eid, block_eid, next_id, filled_at>>
  OBVIOUS
<1>1. /\ th[t].pc \in {"clear", "erase"}
      /\ UNCHANGED <<system_eid, persisted_eid, log, block_eid, next_id, filled_at>>
  BY DEF Erase, At
<1>2. SameOp(t) /\ th'[t].queue = th[t].queue /\ th'[t].pc = "send"
  BY DEF Erase, SameOp, RInv, LockInv, Types, Local
<1>3. c \in Core /\ buffer \in [Core -> SUBSET made]
  BY <1>1 DEF RInv, LockInv, Types
<1>4. /\ buffer'[c] = IF th[t].pc = "clear" THEN {} ELSE buffer[c] \ OldEntries(buffer[c], T)
      /\ \A x \in Core \ {c} : buffer'[x] = buffer[x]
  BY <1>3 DEF Erase
<1>5. /\ Between(c, T) /\ th[t].queue = FlushedEntries(buffer[c], T, system_eid)
      /\ th[t].pc = "clear" <=> T = system_eid
  BY <1>1 DEF InFlush
<1>6. done.system_eid = system_eid
  BY DEF RInv, SameCall
<1>7. buffer'[c] = buffer[c] \ FlushedEntries(buffer[c], T, system_eid)
  BY <1>1, <1>4, <1>5 DEF FlushedEntries
<1>8. /\ FlushedEntries(buffer[c], T, system_eid) = buffer[c] \cap Fl(c, T)
      /\ Fl(c, T) \subseteq done.buffer[c]
  BY <1>5, <1>6 DEF FlushedEntries, Fl, OldEntries, Between
<1>9. buffer'[c] = done.buffer[c] \ Fl(c, T)
  BY <1>5, <1>7, <1>8 DEF Between
<1>10. log[c] \cup th[t].queue = done.log[c] \cup Fl(c, T)
  BY <1>5, <1>8 DEF Between
<1>11. Fl(c, T)' = Fl(c, T)
  BY <1>1, SameRounds
<1>12. th'[t].core = c /\ th'[t].target = T
  BY <1>2 DEF SameOp
<1>13. InFlush(t)'
  BY <1>1, <1>2, <1>9, <1>10, <1>11, <1>12 DEF InFlush
<1> QED
  BY <1>1, <1>2, <1>4, <1>13 DEF FlushPCs, SameElsewhere

LEMMA SendStep ==
  ASSUME RInv, NEW t \in Thread, SendDataToNVM(t), InFlush(t), done' = done
  PROVE  /\ SameOp(t) /\ SameElsewhere(t) /\ InFlush(t)'
         /\ th[t].pc \in FlushPCs /\ th'[t].pc \in FlushPCs
         /\ UNCHANGED <<system_eid, persisted_eid, block_eid, next_id, filled_at>>
<1> SUFFICES ASSUME NEW c, NEW T, c = th[t].core, T = th[t].target
             PROVE  /\ SameOp(t) /\ SameElsewhere(t) /\ InFlush(t)'
                    /\ th[t].pc \in FlushPCs /\ th'[t].pc \in FlushPCs
                    /\ UNCHANGED <<system_eid, persisted_eid, block_eid, next_id, filled_at>>
  OBVIOUS
<1>1. /\ th[t].pc = "send"
      /\ UNCHANGED <<system_eid, persisted_eid, buffer, block_eid, next_id, filled_at>>
  BY DEF SendDataToNVM, At
<1>2. SameOp(t) /\ th'[t].pc = "persist"
  BY DEF SendDataToNVM, SameOp, RInv, LockInv, Types, Local
<1>3. c \in Core /\ log \in [Core -> SUBSET made]
  BY <1>1 DEF RInv, LockInv, Types
<1>4. log'[c] = log[c] \cup th[t].queue /\ \A x \in Core \ {c} : log'[x] = log[x]
  BY <1>3 DEF SendDataToNVM
<1>5. buffer[c] = done.buffer[c] \ Fl(c, T) /\ log[c] \cup th[t].queue = done.log[c] \cup Fl(c, T)
  BY <1>1 DEF InFlush
<1>6. Fl(c, T)' = Fl(c, T)
  BY <1>1, SameRounds
<1>7. FlushedTo(c, T)'
  BY <1>1, <1>4, <1>5, <1>6 DEF FlushedTo
<1>8. th'[t].core = c /\ th'[t].target = T
  BY <1>2 DEF SameOp
<1>9. InFlush(t)'
  BY <1>2, <1>7, <1>8 DEF InFlush
<1> QED
  BY <1>1, <1>2, <1>4, <1>9 DEF FlushPCs, SameElsewhere

\* A step inside flush keeps what the surrounding call has done.
LEMMA FlushKeepsCall ==
  ASSUME RInv, NEW t \in Thread, done' = done, SameOp(t), SameElsewhere(t), InFlush(t)',
         th[t].pc \in FlushPCs, th'[t].pc \in FlushPCs,
         UNCHANGED <<system_eid, persisted_eid, block_eid, next_id, filled_at>>
  PROVE  CallInv(t)'
<1> SUFFICES ASSUME NEW c, c = th[t].core
             PROVE  CallInv(t)'
  OBVIOUS
<1>1. /\ TopGap' = TopGap
      /\ \A x, g : NotBefore(x, g)' <=> NotBefore(x, g)
  BY SameRounds
<1>2. \A x \in Core \ {c} : /\ Untouched(x)' <=> Untouched(x)
                            /\ \A e : FlushedTo(x, e)' <=> FlushedTo(x, e)
  BY SameCore DEF SameElsewhere
<1>3. th[t].pc \notin {"idle", "hook", "check", "again", "insert"} /\ th'[t].core = c
  BY DEF FlushPCs, SameOp
<1>4. th'[t].pc \notin {"idle", "hook", "check", "again", "insert"}
  BY DEF FlushPCs
<1>5. CallInv(t)
  BY DEF RInv
<1>6. CASE th[t].op = "write"
  <2>1. WriteInv(t)
    BY <1>3, <1>5, <1>6 DEF CallInv
  <2>2. WriteInv(t)'
    BY <1>1, <1>2, <1>3, <1>4, <2>1 DEF WriteInv, SameOp
  <2> QED
    BY <1>4, <1>6, <2>2 DEF CallInv, SameOp
<1>7. CASE th[t].op \in {"scan", "exit"}
  <2>1. HookInv(t)
    BY <1>3, <1>5, <1>7 DEF CallInv
  <2>2. /\ Persists(t)' = Persists(t) /\ (Active(t)' <=> Active(t))
        /\ Current(t) = {c} /\ Current(t)' = {c}
    BY <1>3 DEF Persists, Active, Current, SameOp
  <2>3. Active(t) /\ c \in th[t].todo /\ th[t].todo \in SUBSET Core
    BY <2>1 DEF HookInv, RInv, LockInv, Types, Local
  <2>4. /\ \A x \in Core \ th[t].todo : FlushedTo(x, Persists(t))
        /\ \A x \in th[t].todo \ {c} : Untouched(x)
    BY <2>1, <2>2, <2>3 DEF HookInv
  <2>5. /\ \A x \in Core \ th'[t].todo : FlushedTo(x, Persists(t))'
        /\ \A x \in th'[t].todo \ {c} : Untouched(x)'
    <3>1. /\ \A x \in Core \ th[t].todo : x \in Core \ {c}
          /\ \A x \in th[t].todo \ {c} : x \in Core \ {c}
      BY <2>3
    <3>2. \A x \in Core \ th[t].todo : FlushedTo(x, Persists(t))'
      <4> SUFFICES ASSUME NEW x \in Core \ th[t].todo, NEW e, e = Persists(t)
                   PROVE  FlushedTo(x, Persists(t))'
        OBVIOUS
      <4>1. FlushedTo(x, e)' /\ e = Persists(t)'
        BY <1>2, <2>2, <2>4, <3>1
      <4> QED
        BY <4>1
    <3>3. \A x \in th[t].todo \ {c} : Untouched(x)'
      BY <1>2, <2>4, <3>1
    <3> QED
      BY <3>2, <3>3 DEF SameOp
  <2>6. HookInv(t)'
    BY <1>3, <1>4, <2>1, <2>2, <2>3, <2>5 DEF HookInv, SameOp
  <2> QED
    BY <1>4, <1>7, <2>6 DEF CallInv, SameOp
<1> QED
  BY <1>3, <1>5, <1>6, <1>7 DEF CallInv

LEMMA FlushStepRefines ==
  ASSUME Alone, RInv, LockInv', NEW t \in Thread, RNext,
         Collect(t) \/ Erase(t) \/ SendDataToNVM(t)
  PROVE  RInv' /\ done' = done
<1>1. th[t].pc \in FlushPCs \ {"persist"} /\ th'[t].pc # "idle"
  BY DEF Collect, Erase, SendDataToNVM, At, FlushPCs, RInv, LockInv, Types, Local
<1>2. done' = done
  BY <1>1, DoneKept
<1>3. InFlush(t)
  BY <1>1 DEF RInv, CallInv, WriteInv, HookInv, FlushPCs
<1>4. /\ SameOp(t) /\ SameElsewhere(t) /\ InFlush(t)'
      /\ th[t].pc \in FlushPCs /\ th'[t].pc \in FlushPCs
      /\ UNCHANGED <<system_eid, persisted_eid, block_eid, next_id, filled_at>>
  BY <1>2, <1>3, CollectStep, EraseStep, SendStep
<1>5. CallInv(t)'
  BY <1>2, <1>4, FlushKeepsCall
<1> QED
  BY <1>2, <1>4, <1>5, InsideCall

LEMMA SetPersistedRefines ==
  ASSUME Alone, RInv, LockInv', NEW t \in Thread, RNext, SetPersisted(t)
  PROVE  RInv' /\ done' = done
<1> SUFFICES ASSUME NEW c, NEW T, c = th[t].core, T = th[t].target
             PROVE  RInv' /\ done' = done
  OBVIOUS
<1>1. th[t].pc = "persist" /\ persisted_eid' = T
  BY DEF SetPersisted, At
<1>2. UNCHANGED <<system_eid, buffer, log, block_eid, next_id, filled_at>>
  BY DEF SetPersisted
<1>3. th'[t] = IF th[t].op = "write" THEN [th[t] EXCEPT !.pc = "again", !.target = 0]
               ELSE [Idle EXCEPT !.pc = "hook", !.op = th[t].op, !.todo = th[t].todo \ {c}]
  BY DEF SetPersisted, RInv, LockInv, Types
<1>4. th[t] \in Local /\ c \in Core
  BY <1>1 DEF RInv, LockInv, Types
<1>5. done' = done
  <2>1. th'[t].pc # "idle"
    BY <1>3, <1>4 DEF Local, Idle
  <2> QED
    BY <2>1, DoneKept
<1>6. /\ TopGap' = TopGap
      /\ \A x, g : NotBefore(x, g)' <=> NotBefore(x, g)
  BY <1>2, <1>5, SameRounds
<1>7. \A x : /\ Untouched(x)' <=> Untouched(x)
             /\ \A e : FlushedTo(x, e)' <=> FlushedTo(x, e)
  BY <1>2, <1>5, SameCore
<1>8. CallInv(t) /\ th[t].pc \in FlushPCs
  BY <1>1 DEF RInv, FlushPCs
<1>9. CASE th[t].op = "write"
  <2>1. WriteInv(t)
    BY <1>1, <1>8, <1>9 DEF CallInv
  <2>2. /\ th'[t].pc = "again" /\ th'[t].op = "write" /\ th'[t].eid = th[t].eid
        /\ th'[t].core = c /\ th'[t].block = th[t].block /\ th'[t].gap = th[t].gap
    BY <1>3, <1>4, <1>9 DEF Local
  <2>3. FlushedTo(c, T)
    BY <1>1, <1>8, <2>1 DEF WriteInv, InFlush
  <2>4. PICK g \in 0..TopGap : NotBefore(c, g) /\ T = system_eid - g /\ th[t].gap = (g - 1) % GapMod
    BY <1>8, <2>1 DEF WriteInv
  <2>5. AfterRound(t, g)'
    BY <1>1, <1>2, <1>6, <1>7, <2>2, <2>3, <2>4 DEF AfterRound
  <2>6. "again" \notin FlushPCs
    BY DEF FlushPCs
  <2>7. WriteInv(t)'
    BY <1>2, <1>6, <1>7, <2>1, <2>2, <2>4, <2>5, <2>6 DEF WriteInv
  <2>8. CallInv(t)'
    BY <2>2, <2>7 DEF CallInv
  <2> QED
    BY <1>2, <1>5, <2>8, InsideCall
<1>10. CASE th[t].op \in {"scan", "exit"}
  <2>1. HookInv(t)
    BY <1>1, <1>8, <1>10 DEF CallInv
  <2>2. th'[t].pc = "hook" /\ th'[t].op = th[t].op /\ th'[t].todo = th[t].todo \ {c}
    BY <1>3, <1>10 DEF Idle
  <2>3. Active(t) /\ c \in th[t].todo /\ T = Persists(t) /\ FlushedTo(c, T)
    BY <1>1, <1>8, <2>1 DEF HookInv, InFlush
  <2>4. /\ Persists(t)' = T /\ Active(t)' /\ Current(t) = {c} /\ Current(t)' = {}
    BY <1>2, <1>8, <2>2, <2>3 DEF Persists, Active, Current, FlushPCs
  <2>5. /\ \A x \in Core \ th[t].todo : FlushedTo(x, T)
        /\ \A x \in th[t].todo \ {c} : Untouched(x)
    BY <2>1, <2>3, <2>4 DEF HookInv
  <2>6. /\ \A x \in Core \ th'[t].todo : FlushedTo(x, T)'
        /\ \A x \in th'[t].todo : Untouched(x)'
    BY <1>7, <2>2, <2>3, <2>5
  <2>7. HookInv(t)'
    <3>1. /\ th'[t].pc \in FlushPCs \cup {"hook"} /\ th'[t].pc \notin FlushPCs
          /\ th'[t].op = "scan" => system_eid' < MaxEid
      BY <1>2, <2>1, <2>2 DEF FlushPCs, HookInv
    <3>2. \A x \in Core \ th'[t].todo : FlushedTo(x, Persists(t))'
      BY <2>4, <2>6
    <3>3. \A x \in th'[t].todo \ Current(t)' : Untouched(x)'
      BY <2>4, <2>6
    <3>4. persisted_eid' = Persists(t)'
      BY <1>1, <2>4
    <3> QED
      BY <2>4, <3>1, <3>2, <3>3, <3>4 DEF HookInv
  <2>8. CallInv(t)'
    BY <1>10, <2>2, <2>7 DEF CallInv
  <2> QED
    BY <1>2, <1>5, <2>8, InsideCall
<1> QED
  BY <1>1, <1>8, <1>9, <1>10 DEF CallInv

-----------------------------------------------------------------------------
(* The overflow loop of writeCacheBlock                                    *)

LEMMA TopGapRange ==
  ASSUME RInv
  PROVE  /\ TopGap \in Nat /\ TopGap <= system_eid /\ TopGap <= AcsGap
         /\ system_eid \in Nat /\ system_eid < EidMod /\ TopGap < GapMod
         /\ EidMod \in Nat /\ GapMod \in Nat
  BY WidthAssumption DEF TopGap, RInv, LockInv, Types

\* One more round, with gap g, which is not below zero.
LEMMA RoundBegins ==
  ASSUME RInv, NEW t \in Thread, th[t].pc \in {"check", "again"}, th[t].op = "write",
         WriteInv(t), NEW g \in 0..TopGap, FlushRound(t, g), UNCHANGED shared, done' = done,
         NotBefore(th[t].core, g), Between(th[t].core, system_eid - g)
  PROVE  CallInv(t)'
<1> SUFFICES ASSUME NEW c, c = th[t].core
             PROVE  CallInv(t)'
  OBVIOUS
<1>1. UNCHANGED <<system_eid, persisted_eid, buffer, log, block_eid, next_id, filled_at>>
  BY DEF shared
<1>2. th[t].eid = system_eid
  BY DEF WriteInv
<1>3. (system_eid - g) % EidMod = system_eid - g
  BY TopGapRange
<1>4. /\ th'[t].pc = "collect" /\ th'[t].op = "write" /\ th'[t].eid = th[t].eid
      /\ th'[t].core = c /\ th'[t].block = th[t].block
      /\ th'[t].target = system_eid - g /\ th'[t].gap = (g - 1) % GapMod
  BY <1>2, <1>3 DEF FlushRound, RInv, LockInv, Types, Local
<1>5. /\ TopGap' = TopGap
      /\ \A x, h : NotBefore(x, h)' <=> NotBefore(x, h)
  BY <1>1, SameRounds
<1>6. \A x : /\ Untouched(x)' <=> Untouched(x)
             /\ \A e : Between(x, e)' <=> Between(x, e)
  BY <1>1, SameCore
<1>7. InFlush(t)'
  <2>1. \A e : e = system_eid - g => Between(c, e)'
    BY <1>6
  <2> QED
    BY <1>4, <2>1 DEF InFlush
<1>8. "collect" \in FlushPCs
  BY DEF FlushPCs
<1>9. WriteInv(t)'
  <2>1. /\ th'[t].pc \in FlushPCs \cup {"check", "again", "insert"}
        /\ th'[t].eid = system_eid' /\ th'[t].core \in Core /\ th'[t].block \in Block
        /\ block_eid'[th'[t].block] # system_eid' /\ next_id' <= MaxId
        /\ \A x \in Core \ {th'[t].core} : Untouched(x)'
    BY <1>1, <1>4, <1>6, <1>8 DEF WriteInv
  <2>2. \E h \in 0..TopGap' : /\ NotBefore(th[t].core, h)'
                              /\ th'[t].target = system_eid' - h
                              /\ th'[t].gap = (h - 1) % GapMod
    BY <1>1, <1>4, <1>5
  <2> QED
    BY <1>4, <1>7, <2>1, <2>2 DEF WriteInv
<1> QED
  BY <1>4, <1>9 DEF CallInv

LEMMA EnoughRoom ==
  ASSUME RInv, NEW t \in Thread, th[t].pc \in {"check", "again"}, th[t].op = "write",
         WriteInv(t), UNCHANGED shared, done' = done,
         th' = [th EXCEPT ![t].pc = "insert", ![t].gap = 0],
         ~isFull(buffer[th[t].core])
  PROVE  CallInv(t)'
<1> SUFFICES ASSUME NEW c, c = th[t].core
             PROVE  CallInv(t)'
  OBVIOUS
<1>1. UNCHANGED <<system_eid, persisted_eid, buffer, log, block_eid, next_id, filled_at>>
  BY DEF shared
<1>2. /\ th'[t].pc = "insert" /\ th'[t].op = "write" /\ th'[t].eid = th[t].eid
      /\ th'[t].core = c /\ th'[t].block = th[t].block
  BY DEF RInv, LockInv, Types, Local
<1>3. /\ TopGap' = TopGap
      /\ \A x, h : NotBefore(x, h)' <=> NotBefore(x, h)
  BY <1>1, SameRounds
<1>4. \A x : /\ Untouched(x)' <=> Untouched(x)
             /\ \A e : FlushedTo(x, e)' <=> FlushedTo(x, e)
  BY <1>1, SameCore
<1>5. Nothing(t) => Nothing(t)'
  BY <1>1, <1>2, <1>4 DEF Nothing
<1>6. \A g : AfterRound(t, g) => AfterRound(t, g)'
  BY <1>1, <1>2, <1>3, <1>4 DEF AfterRound
<1>7. Nothing(t) \/ \E g \in 0..TopGap : AfterRound(t, g)
  BY DEF WriteInv
<1>8. Nothing(t)' \/ \E g \in 0..TopGap' : AfterRound(t, g)'
  BY <1>3, <1>5, <1>6, <1>7
<1>9. "insert" \notin FlushPCs
  BY DEF FlushPCs
<1>10. WriteInv(t)'
  <2>1. /\ th'[t].pc \in FlushPCs \cup {"check", "again", "insert"}
        /\ th'[t].eid = system_eid' /\ th'[t].core \in Core /\ th'[t].block \in Block
        /\ block_eid'[th'[t].block] # system_eid' /\ next_id' <= MaxId
        /\ \A x \in Core \ {th'[t].core} : Untouched(x)'
    BY <1>1, <1>2, <1>4 DEF WriteInv
  <2>2. ~isFull(buffer[th[t].core])'
    BY <1>1, <1>2 DEF isFull
  <2> QED
    BY <1>2, <1>8, <1>9, <2>1, <2>2 DEF WriteInv
<1> QED
  BY <1>2, <1>10 DEF CallInv

LEMMA CheckFullRefines ==
  ASSUME Alone, RInv, LockInv', NEW t \in Thread, RNext, CheckFull(t)
  PROVE  RInv' /\ done' = done
<1>1. th[t].pc = "check" /\ th[t].op = "write" /\ UNCHANGED shared
  BY DEF CheckFull, At, RInv, LockInv, WriterHoldsLock
<1>2. th'[t].pc # "idle"
  BY DEF CheckFull, FlushRound, RInv, LockInv, Types, Local
<1>3. done' = done /\ UNCHANGED <<system_eid, block_eid, next_id, filled_at>>
  BY <1>1, <1>2, DoneKept DEF shared
<1>4. WriteInv(t)
  BY <1>1 DEF RInv, CallInv
<1>5. Nothing(t) /\ th[t].core \in Core /\ th[t].eid = system_eid
  BY <1>1, <1>4 DEF WriteInv
<1>6. CASE isFull(buffer[th[t].core])
  <2>1. FlushRound(t, TopGap)
    BY <1>5, <1>6 DEF CheckFull, TopGap
  <2>2. NotBefore(th[t].core, TopGap)
    BY <1>5, <1>6, TopGapRange DEF NotBefore, Nothing, Untouched
  <2>3. Between(th[t].core, system_eid - TopGap)
    BY <1>5 DEF Between, Nothing, Untouched
  <2>4. TopGap \in 0..TopGap
    BY TopGapRange
  <2>5. CallInv(t)'
    BY <1>1, <1>3, <1>4, <2>1, <2>2, <2>3, <2>4, RoundBegins
  <2> QED
    BY <1>3, <2>5, InsideCall
<1>7. CASE ~isFull(buffer[th[t].core])
  <2>1. th' = [th EXCEPT ![t].pc = "insert", ![t].gap = 0]
    BY <1>7 DEF CheckFull
  <2>2. CallInv(t)'
    BY <1>1, <1>3, <1>4, <1>7, <2>1, EnoughRoom
  <2> QED
    BY <1>3, <2>2, InsideCall
<1> QED
  BY <1>6, <1>7

LEMMA CheckFullAgainRefines ==
  ASSUME Alone, RInv, LockInv', NEW t \in Thread, RNext, CheckFullAgain(t)
  PROVE  RInv' /\ done' = done
<1>1. th[t].pc = "again" /\ th[t].op = "write" /\ UNCHANGED shared
  BY DEF CheckFullAgain, At, RInv, LockInv, WriterHoldsLock
<1>2. th'[t].pc # "idle"
  BY DEF CheckFullAgain, FlushRound, RInv, LockInv, Types, Local
<1>3. done' = done /\ UNCHANGED <<system_eid, block_eid, next_id, filled_at>>
  BY <1>1, <1>2, DoneKept DEF shared
<1>4. WriteInv(t)
  BY <1>1 DEF RInv, CallInv
<1>5. th[t].core \in Core /\ th[t].eid = system_eid
  BY <1>4 DEF WriteInv
<1>6. PICK g \in 0..TopGap : AfterRound(t, g) /\ th[t].gap = (g - 1) % GapMod
  BY <1>1, <1>4 DEF WriteInv
<1>7. CASE isFull(buffer[th[t].core])
  <2> SUFFICES ASSUME NEW c \in Core, c = th[t].core
               PROVE  RInv' /\ done' = done
    BY <1>5
  <2>1. FlushedTo(c, system_eid - g) /\ NotBefore(c, g)
    BY <1>6 DEF AfterRound
  <2>2. g # 0
    <3> SUFFICES ASSUME g = 0 PROVE FALSE
      OBVIOUS
    <3>1. Fl(c, system_eid) = done.buffer[c]
      BY DEF Fl, FlushedEntries, RInv, SameCall
    <3>2. system_eid - g = system_eid
      BY TopGapRange
    <3>3. buffer[c] = {}
      BY <2>1, <3>1, <3>2 DEF FlushedTo
    <3> QED
      BY <1>7, <3>3, FS_EmptySet DEF isFull, Unlimited
  <2>3. /\ g - 1 \in 0..TopGap /\ (g - 1) % GapMod = g - 1
        /\ system_eid - g \in Int /\ system_eid - (g - 1) \in Int
        /\ system_eid - g <= system_eid - (g - 1) /\ system_eid - (g - 1) <= system_eid
    BY <2>2, TopGapRange
  <2>4. FlushRound(t, g - 1)
    BY <1>6, <1>7, <2>3 DEF CheckFullAgain
  <2>5. NotBefore(c, g - 1)
    <3>1. isFull(done.buffer[c] \ Fl(c, system_eid - g))
      BY <1>7, <2>1 DEF FlushedTo
    <3>2. \A h \in 0..TopGap : h > g - 1 => h = g \/ h > g
      BY TopGapRange
    <3> QED
      BY <2>1, <3>1, <3>2 DEF NotBefore
  <2>6. Between(c, system_eid - (g - 1))
    <3>1. Fl(c, system_eid - g) \subseteq Fl(c, system_eid - (g - 1))
      BY <2>3, FlushGrows
    <3> QED
      BY <2>1, <3>1 DEF Between, FlushedTo
  <2>7. CallInv(t)'
    BY <1>1, <1>3, <1>4, <2>3, <2>4, <2>5, <2>6, RoundBegins
  <2> QED
    BY <1>3, <2>7, InsideCall
<1>8. CASE ~isFull(buffer[th[t].core])
  <2>1. th' = [th EXCEPT ![t].pc = "insert", ![t].gap = 0]
    BY <1>8 DEF CheckFullAgain
  <2>2. CallInv(t)'
    BY <1>1, <1>3, <1>4, <1>8, <2>1, EnoughRoom
  <2> QED
    BY <1>3, <2>2, InsideCall
<1> QED
  BY <1>7, <1>8

-----------------------------------------------------------------------------
(* The end of writeCacheBlock is a WriteCacheBlock of PiclLog.             *)

\* The loop stops at the gap that PiclLog's StopGap names.
LEMMA LoopStops ==
  ASSUME RInv, NEW c \in Core, NEW g \in 0..TopGap, NotBefore(c, g),
         ~isFull(done.buffer[c] \ Fl(c, system_eid - g))
  PROVE  /\ Calls!StopGap(c) = g
         /\ Calls!Flushed(c, done.system_eid - g) = Fl(c, system_eid - g)
         /\ Calls!Remaining(c, done.system_eid - g) = done.buffer[c] \ Fl(c, system_eid - g)
<1>1. done.system_eid = system_eid
  BY DEF RInv, SameCall
<1>2. Calls!MaxGap = TopGap
  BY <1>1 DEF Calls!MaxGap, TopGap
<1>3. \A e : Calls!Flushed(c, e) = Fl(c, e) /\ Calls!Remaining(c, e) = done.buffer[c] \ Fl(c, e)
  BY DEF Calls!Flushed, Calls!Remaining, Calls!FlushedEntries, Calls!OldEntries, Fl,
         FlushedEntries, OldEntries
<1>4. \A B : Calls!isFull(B) <=> isFull(B)
  BY DEF Calls!isFull, Calls!Unlimited, Calls!Cardinality, isFull, Unlimited, Cardinality
<1> DEFINE P(x) == /\ ~Calls!isFull(Calls!Remaining(c, done.system_eid - x))
                   /\ \A h \in 0..Calls!MaxGap :
                        h > x => Calls!isFull(Calls!Remaining(c, done.system_eid - h))
<1>5. \A x \in 0..TopGap : P(x) <=> x = g
  <2>1. \A x \in 0..TopGap : Calls!isFull(Calls!Remaining(c, done.system_eid - x))
                             <=> isFull(done.buffer[c] \ Fl(c, system_eid - x))
    BY <1>1, <1>3, <1>4
  <2>2. \A h \in 0..TopGap : h > g => isFull(done.buffer[c] \ Fl(c, system_eid - h))
    BY DEF NotBefore
  <2>3. P(g)
    BY <1>2, <2>1, <2>2
  <2>4. ASSUME NEW x \in 0..TopGap, P(x) PROVE x = g
    <3>1. ~(x > g)
      BY <2>1, <2>2, <2>4
    <3>2. ~(g > x)
      BY <1>2, <2>1, <2>4
    <3> QED
      BY <3>1, <3>2, TopGapRange
  <2> QED
    BY <2>3, <2>4
<1>6. Calls!StopGap(c) = CHOOSE x \in 0..TopGap : P(x)
  BY <1>2 DEF Calls!StopGap
<1> HIDE DEF P
<1>7. Calls!StopGap(c) = g
  BY <1>5, <1>6
<1> QED
  BY <1>1, <1>3, <1>7

LEMMA InsertRefines ==
  ASSUME Alone, RInv, LockInv', NEW t \in Thread, RNext, Insert(t)
  PROVE  RInv' /\ Calls!Next
<1>1. th[t].pc = "insert" /\ th[t].op = "write" /\ th'[t].pc = "idle"
  BY IdleType DEF Insert, At, RInv, LockInv, WriterHoldsLock, Types
<1>2. done' = Visible'
  BY <1>1, DoneKept
<1>3. RInv'
  BY <1>1, <1>2, CallEnds
<1>4. WriteInv(t)
  BY <1>1 DEF RInv, CallInv
<1> SUFFICES ASSUME NEW c \in Core, NEW b \in Block, c = th[t].core, b = th[t].block
             PROVE  Calls!Next
  BY <1>3, <1>4 DEF WriteInv
<1> DEFINE entry == UndoEntry(next_id, b, block_eid[b], th[t].eid)
<1>5. /\ th[t].eid = system_eid /\ block_eid[b] # system_eid /\ next_id <= MaxId
      /\ \A x \in Core \ {c} : Untouched(x)
      /\ ~isFull(buffer[c])
      /\ Nothing(t) \/ \E g \in 0..TopGap : AfterRound(t, g)
  BY <1>1, <1>4 DEF WriteInv
<1>6. /\ done.system_eid = system_eid /\ done.block_eid = block_eid
      /\ done.next_id = next_id /\ done.filled_at = filled_at
  BY DEF RInv, SameCall
<1>7. /\ buffer' = [buffer EXCEPT ![c] = buffer[c] \cup {entry}]
      /\ next_id' = next_id + 1 /\ block_eid' = [block_eid EXCEPT ![b] = system_eid]
      /\ UNCHANGED <<system_eid, persisted_eid, log, filled_at>>
  BY <1>5 DEF Insert, insertUndoEntry
<1>8. Calls!NewEntry(b) = entry
  BY <1>5, <1>6 DEF Calls!NewEntry, Calls!UndoEntry, UndoEntry
<1>9. /\ done'.system_eid = system_eid' /\ done'.persisted_eid = persisted_eid'
      /\ done'.buffer = buffer' /\ done'.log = log' /\ done'.block_eid = block_eid'
      /\ done'.next_id = next_id' /\ done'.filled_at = filled_at'
  BY <1>2 DEF Visible
<1>10. Calls!TagBlock(b)
  BY <1>6, <1>7, <1>9 DEF Calls!TagBlock
<1>11. /\ buffer \in [Core -> SUBSET made] /\ log \in [Core -> SUBSET made]
       /\ done.buffer \in [Core -> SUBSET UndoEntryType]
       /\ done.log \in [Core -> SUBSET UndoEntryType]
  BY DEF RInv, LockInv, Types, DoneType
<1>12. \A B : Calls!isFull(B) <=> isFull(B)
  BY DEF Calls!isFull, Calls!Unlimited, Calls!Cardinality, isFull, Unlimited, Cardinality
<1> HIDE DEF entry
<1>13. CASE Nothing(t)
  <2>1. buffer[c] = done.buffer[c] /\ log[c] = done.log[c] /\ persisted_eid = done.persisted_eid
    BY <1>13 DEF Nothing, Untouched
  <2>2. \A x \in Core : buffer[x] = done.buffer[x] /\ log[x] = done.log[x]
    BY <1>5, <2>1 DEF Untouched
  <2>3. buffer = done.buffer /\ log = done.log
    BY <1>11, <2>2
  <2>4. Calls!WriteCacheBlock(c, b)
    BY <1>5, <1>6, <1>7, <1>8, <1>9, <1>10, <1>12, <2>1, <2>3
       DEF Calls!WriteCacheBlock, Calls!insertUndoEntry
  <2> QED
    BY <2>4 DEF Calls!Next
<1>14. ASSUME NEW g \in 0..TopGap, AfterRound(t, g)
       PROVE  Calls!Next
  <2>1. /\ NotBefore(c, g) /\ buffer[c] = done.buffer[c] \ Fl(c, system_eid - g)
        /\ log[c] = done.log[c] \cup Fl(c, system_eid - g) /\ persisted_eid = system_eid - g
    BY <1>14 DEF AfterRound, FlushedTo
  <2>2. /\ Calls!StopGap(c) = g
        /\ Calls!Flushed(c, done.system_eid - g) = Fl(c, system_eid - g)
        /\ Calls!Remaining(c, done.system_eid - g) = buffer[c]
    BY <1>5, <2>1, LoopStops
  <2>3. \A x \in Core \ {c} : buffer[x] = done.buffer[x] /\ log[x] = done.log[x]
    BY <1>5 DEF Untouched
  <2>4. buffer' = [done.buffer EXCEPT ![c] = buffer[c] \cup {entry}]
    BY <1>7, <1>11, <2>3
  <2>5. log' = [done.log EXCEPT ![c] = done.log[c] \cup Fl(c, system_eid - g)]
    <3>1. log = [done.log EXCEPT ![c] = log[c]]
      BY <1>11, <2>3
    <3> QED
      BY <1>7, <2>1, <3>1
  <2>6. isFull(done.buffer[c])
    BY <2>1 DEF NotBefore
  <2>7. Calls!WriteCacheBlockOverflow(c, b)
    BY <1>5, <1>6, <1>7, <1>8, <1>9, <1>10, <1>12, <2>1, <2>2, <2>4, <2>5, <2>6
       DEF Calls!WriteCacheBlockOverflow, Calls!insertUndoEntry
  <2> QED
    BY <2>7 DEF Calls!Next
<1> QED
  BY <1>5, <1>13, <1>14

-----------------------------------------------------------------------------
(* The end of a hook is a PeriodicHook or an ApplicationExit of PiclLog.   *)

LEMMA HooksFlush ==
  ASSUME RInv, NEW eid, \A c \in Core : FlushedTo(c, eid), persisted_eid = eid,
         done' = Visible', UNCHANGED <<buffer, log, persisted_eid>>
  PROVE  Calls!FlushCores(Core, eid)
<1>1. \A c : /\ Calls!Flushed(c, eid) = Fl(c, eid)
             /\ Calls!Remaining(c, eid) = done.buffer[c] \ Fl(c, eid)
  BY DEF Calls!Flushed, Calls!Remaining, Calls!FlushedEntries, Calls!OldEntries, Fl,
         FlushedEntries, OldEntries
<1>2. /\ buffer \in [Core -> SUBSET made] /\ log \in [Core -> SUBSET made]
  BY DEF RInv, LockInv, Types
<1>3. /\ buffer = [c \in Core |-> done.buffer[c] \ Fl(c, eid)]
      /\ log = [c \in Core |-> done.log[c] \cup Fl(c, eid)]
  BY <1>2 DEF FlushedTo
<1>4. done'.buffer = buffer /\ done'.log = log /\ done'.persisted_eid = eid
  BY DEF Visible
<1> QED
  BY <1>1, <1>3, <1>4 DEF Calls!FlushCores

LEMMA IncrementRefines ==
  ASSUME Alone, RInv, LockInv', NEW t \in Thread, RNext, Increment(t)
  PROVE  RInv' /\ Calls!Next
<1>1. th[t].pc = "hook" /\ th[t].op = "scan" /\ th[t].todo = {} /\ th'[t].pc = "idle"
  BY IdleType DEF Increment, At, RInv, LockInv, Types
<1>2. done' = Visible'
  BY <1>1, DoneKept
<1>3. RInv'
  BY <1>1, <1>2, CallEnds
<1>4. HookInv(t)
  BY <1>1 DEF RInv, CallInv
<1>5. /\ done.system_eid = system_eid /\ done.block_eid = block_eid
      /\ done.next_id = next_id /\ done.filled_at = filled_at
  BY DEF RInv, SameCall
<1>6. /\ system_eid' = system_eid + 1
      /\ UNCHANGED <<persisted_eid, buffer, log, block_eid, next_id, filled_at>>
  BY DEF Increment
<1>7. /\ done'.system_eid = system_eid' /\ done'.persisted_eid = persisted_eid'
      /\ done'.buffer = buffer' /\ done'.log = log' /\ done'.block_eid = block_eid'
      /\ done'.next_id = next_id' /\ done'.filled_at = filled_at'
  BY <1>2 DEF Visible
<1>8. system_eid < MaxEid
  BY <1>1, <1>4 DEF HookInv
<1>9. CASE system_eid >= AcsGap
  <2>1. Active(t) /\ Persists(t) = system_eid - AcsGap
    BY <1>1, <1>9 DEF Active, Persists
  <2>2. (\A c \in Core : FlushedTo(c, Persists(t))) /\ persisted_eid = Persists(t)
    BY <1>1, <1>4, <2>1, CoreAssumption DEF HookInv
  <2>3. Calls!FlushCores(Core, system_eid - AcsGap)
    BY <1>2, <1>6, <2>1, <2>2, HooksFlush
  <2>4. Calls!PeriodicHook
    BY <1>5, <1>6, <1>7, <1>8, <1>9, <2>3 DEF Calls!PeriodicHook
  <2> QED
    BY <1>3, <2>4 DEF Calls!Next
<1>10. CASE ~(system_eid >= AcsGap)
  <2>1. ~Active(t)
    BY <1>1, <1>10 DEF Active
  <2>2. persisted_eid = done.persisted_eid /\ \A c \in Core : Untouched(c)
    BY <1>4, <2>1 DEF HookInv
  <2>3. /\ buffer \in [Core -> SUBSET made] /\ log \in [Core -> SUBSET made]
        /\ done.buffer \in [Core -> SUBSET UndoEntryType]
        /\ done.log \in [Core -> SUBSET UndoEntryType]
    BY DEF RInv, LockInv, Types, DoneType
  <2>4. buffer = done.buffer /\ log = done.log
    BY <2>2, <2>3 DEF Untouched
  <2>5. Calls!PeriodicHook
    BY <1>5, <1>6, <1>7, <1>8, <1>10, <2>2, <2>4 DEF Calls!PeriodicHook
  <2> QED
    BY <1>3, <2>5 DEF Calls!Next
<1> QED
  BY <1>9, <1>10

LEMMA EndExitHookRefines ==
  ASSUME Alone, RInv, LockInv', NEW t \in Thread, RNext, EndExitHook(t)
  PROVE  RInv' /\ Calls!Next
<1>1. th[t].pc = "hook" /\ th[t].op = "exit" /\ th[t].todo = {} /\ th'[t].pc = "idle"
  BY IdleType DEF EndExitHook, At, RInv, LockInv, Types
<1>2. done' = Visible'
  BY <1>1, DoneKept
<1>3. RInv'
  BY <1>1, <1>2, CallEnds
<1>4. HookInv(t)
  BY <1>1 DEF RInv, CallInv
<1>5. /\ done.system_eid = system_eid /\ done.block_eid = block_eid
      /\ done.next_id = next_id /\ done.filled_at = filled_at
  BY DEF RInv, SameCall
<1>6. UNCHANGED <<system_eid, persisted_eid, buffer, log, block_eid, next_id, filled_at>>
  BY DEF EndExitHook, shared
<1>7. /\ done'.system_eid = system_eid' /\ done'.block_eid = block_eid'
      /\ done'.next_id = next_id' /\ done'.filled_at = filled_at'
  BY <1>2 DEF Visible
<1>8. Active(t) /\ Persists(t) = system_eid
  BY <1>1 DEF Active, Persists
<1>9. (\A c \in Core : FlushedTo(c, system_eid)) /\ persisted_eid = system_eid
  BY <1>1, <1>4, <1>8, CoreAssumption DEF HookInv
<1>10. Calls!FlushCores(Core, system_eid)
  BY <1>2, <1>6, <1>9, HooksFlush
<1>11. Calls!ApplicationExit
  BY <1>5, <1>6, <1>7, <1>10 DEF Calls!ApplicationExit
<1> QED
  BY <1>3, <1>11 DEF Calls!Next

LEMMA RefillRefines ==
  ASSUME Alone, RInv, LockInv', NEW t \in Thread, RNext, NEW b \in Block, RefillCacheBlock(t, b)
  PROVE  RInv' /\ Calls!Next
<1>1. th[t].pc = "idle" /\ th'[t].pc = "idle"
  BY DEF RefillCacheBlock, At
<1>2. done' = Visible' /\ done = Visible
  BY <1>1, DoneKept DEF RInv, CallInv
<1>3. RInv'
  BY <1>1, <1>2, CallEnds
<1>4. Calls!RefillCacheBlock(b)
  BY <1>2 DEF RefillCacheBlock, Calls!RefillCacheBlock, Visible
<1> QED
  BY <1>3, <1>4 DEF Calls!Next

-----------------------------------------------------------------------------
(* Calls begin, and hooks come to the next core.                           *)

LEMMA BeginWriteRefines ==
  ASSUME Alone, RInv, LockInv', NEW t \in Thread, RNext,
         NEW c \in Core, NEW b \in Block, BeginWrite(t, c, b)
  PROVE  RInv' /\ done' = done
<1>1. th[t].pc = "idle" /\ UNCHANGED shared /\ next_id <= MaxId /\ block_eid[b] # system_eid
  BY DEF BeginWrite, At
<1>2. /\ th'[t].pc = "check" /\ th'[t].op = "write" /\ th'[t].core = c /\ th'[t].block = b
      /\ th'[t].eid = system_eid
  BY DEF BeginWrite, Idle, RInv, LockInv, Types
<1>3. done' = done /\ done = Visible
  BY <1>1, <1>2, DoneKept DEF RInv, CallInv
<1>4. UNCHANGED <<system_eid, persisted_eid, buffer, log, block_eid, next_id, filled_at>>
  BY <1>1 DEF shared
<1>5. \A x : Untouched(x)' /\ persisted_eid' = done'.persisted_eid
  BY <1>3, <1>4 DEF Untouched, Visible
<1>6. Nothing(t)' /\ "check" \notin FlushPCs
  BY <1>5 DEF Nothing, FlushPCs
<1>7. WriteInv(t)'
  BY <1>1, <1>2, <1>4, <1>5, <1>6 DEF WriteInv
<1>8. CallInv(t)'
  BY <1>2, <1>7 DEF CallInv
<1> QED
  BY <1>3, <1>4, <1>8, InsideCall

LEMMA BeginHookRefines ==
  ASSUME Alone, RInv, LockInv', NEW t \in Thread, RNext, BeginPeriodicHook(t) \/ BeginExitHook(t)
  PROVE  RInv' /\ done' = done
<1>1. /\ th[t].pc = "idle" /\ UNCHANGED shared
      /\ th'[t].pc = "hook" /\ th'[t].op \in {"scan", "exit"} /\ th'[t].todo = Core
      /\ th'[t].op = "scan" => system_eid < MaxEid
  <2>1. CASE BeginPeriodicHook(t)
    BY <2>1 DEF BeginPeriodicHook, At, Idle, RInv, LockInv, Types
  <2>2. CASE BeginExitHook(t)
    BY <2>2 DEF BeginExitHook, At, Idle, RInv, LockInv, Types
  <2> QED
    BY <2>1, <2>2
<1>2. done' = done /\ done = Visible
  BY <1>1, DoneKept DEF RInv, CallInv
<1>3. UNCHANGED <<system_eid, persisted_eid, buffer, log, block_eid, next_id, filled_at>>
  BY <1>1 DEF shared
<1>4. \A x : Untouched(x)' /\ persisted_eid' = done'.persisted_eid
  BY <1>2, <1>3 DEF Untouched, Visible
<1>5. "hook" \notin FlushPCs
  BY DEF FlushPCs
<1>6. HookInv(t)'
  BY <1>1, <1>3, <1>4, <1>5 DEF HookInv
<1>7. CallInv(t)'
  BY <1>1, <1>6 DEF CallInv
<1> QED
  BY <1>2, <1>3, <1>7, InsideCall

\* The hook of one core begins its flush.
LEMMA HookFlushRefines ==
  ASSUME Alone, RInv, LockInv', NEW t \in Thread, RNext, NEW c \in Core,
         th[t].pc = "hook", th[t].op \in {"scan", "exit"}, c \in th[t].todo, Active(t),
         UNCHANGED shared,
         th' = [th EXCEPT ![t] = [th[t] EXCEPT !.pc = "collect", !.core = c, !.eid = system_eid,
                                               !.target = Persists(t)]]
  PROVE  RInv' /\ done' = done
<1>1. /\ th'[t].pc = "collect" /\ th'[t].op = th[t].op /\ th'[t].core = c
      /\ th'[t].todo = th[t].todo /\ th'[t].target = Persists(t)
  BY DEF RInv, LockInv, Types, Local
<1>2. done' = done
  BY <1>1, DoneKept
<1>3. UNCHANGED <<system_eid, persisted_eid, buffer, log, block_eid, next_id, filled_at>>
  BY DEF shared
<1>4. HookInv(t)
  BY DEF RInv, CallInv
<1>5. /\ Persists(t)' = Persists(t) /\ Active(t)' /\ Current(t) = {} /\ Current(t)' = {c}
  BY <1>1, <1>3 DEF Persists, Active, Current, FlushPCs
<1>6. \A x : /\ Untouched(x)' <=> Untouched(x)
             /\ \A e : FlushedTo(x, e)' <=> FlushedTo(x, e)
  BY <1>2, <1>3, SameCore
<1>7. /\ \A x \in Core \ th[t].todo : FlushedTo(x, Persists(t))
      /\ \A x \in th[t].todo : Untouched(x)
      /\ th[t].todo # Core => persisted_eid = Persists(t)
  BY <1>4, <1>5 DEF HookInv
<1>8. \A x \in Core \ th[t].todo : FlushedTo(x, Persists(t))'
  <2> SUFFICES ASSUME NEW x \in Core \ th[t].todo, NEW e, e = Persists(t)
               PROVE  FlushedTo(x, Persists(t))'
    OBVIOUS
  <2>1. FlushedTo(x, e)' /\ e = Persists(t)'
    BY <1>5, <1>6, <1>7
  <2> QED
    BY <2>1
<1>9. \A x \in th[t].todo \ {c} : Untouched(x)'
  BY <1>6, <1>7
<1>10. InFlush(t)'
  <2> SUFFICES ASSUME NEW e, e = Persists(t)
               PROVE  InFlush(t)'
    OBVIOUS
  <2>1. Between(c, e)
    BY <1>7 DEF Untouched, Between
  <2>2. Between(c, e)'
    BY <1>2, <1>3, <2>1, SameCore
  <2> QED
    BY <1>1, <2>2 DEF InFlush
<1>11. "collect" \in FlushPCs
  BY DEF FlushPCs
<1>12. HookInv(t)'
  <2>1. th'[t].op = "scan" => system_eid' < MaxEid
    BY <1>1, <1>3, <1>4 DEF HookInv
  <2>2. th'[t].todo # Core => persisted_eid' = Persists(t)'
    BY <1>1, <1>3, <1>5, <1>7
  <2>3. th'[t].target = Persists(t)' /\ th'[t].core \in th'[t].todo
    BY <1>1, <1>5
  <2>4. /\ \A x \in Core \ th'[t].todo : FlushedTo(x, Persists(t))'
        /\ \A x \in th'[t].todo \ Current(t)' : Untouched(x)'
    BY <1>1, <1>5, <1>8, <1>9
  <2> QED
    BY <1>1, <1>5, <1>10, <1>11, <2>1, <2>2, <2>3, <2>4 DEF HookInv
<1>13. CallInv(t)'
  BY <1>1, <1>12 DEF CallInv
<1> QED
  BY <1>2, <1>3, <1>13, InsideCall

LEMMA PersistLastEpochsRefines ==
  ASSUME Alone, RInv, LockInv', NEW t \in Thread, RNext, NEW c \in Core, PersistLastEpochs(t, c)
  PROVE  RInv' /\ done' = done
<1>1. /\ th[t].pc = "hook" /\ th[t].op = "exit" /\ c \in th[t].todo /\ UNCHANGED shared
  BY DEF PersistLastEpochs, At
<1>2. Active(t) /\ Persists(t) = system_eid
  BY <1>1 DEF Active, Persists
<1>3. th' = [th EXCEPT ![t] = [th[t] EXCEPT !.pc = "collect", !.core = c, !.eid = system_eid,
                                            !.target = Persists(t)]]
  BY <1>2 DEF PersistLastEpochs
<1> QED
  BY <1>1, <1>2, <1>3, HookFlushRefines

LEMMA AsyncCacheScanRefines ==
  ASSUME Alone, RInv, LockInv', NEW t \in Thread, RNext, NEW c \in Core, AsyncCacheScan(t, c)
  PROVE  RInv' /\ done' = done
<1>1. /\ th[t].pc = "hook" /\ th[t].op = "scan" /\ c \in th[t].todo /\ UNCHANGED shared
  BY DEF AsyncCacheScan, At
<1>2. CASE system_eid >= AcsGap
  <2>1. Active(t) /\ Persists(t) = system_eid - AcsGap
    BY <1>1, <1>2 DEF Active, Persists
  <2>2. th' = [th EXCEPT ![t] = [th[t] EXCEPT !.pc = "collect", !.core = c, !.eid = system_eid,
                                              !.target = Persists(t)]]
    BY <1>2, <2>1 DEF AsyncCacheScan
  <2> QED
    BY <1>1, <2>1, <2>2, HookFlushRefines
<1>3. CASE ~(system_eid >= AcsGap)
  <2>1. th'[t].pc = "hook" /\ th'[t].op = "scan"
    BY <1>1, <1>3 DEF AsyncCacheScan, RInv, LockInv, Types, Local
  <2>2. done' = done
    BY <2>1, DoneKept
  <2>3. UNCHANGED <<system_eid, persisted_eid, buffer, log, block_eid, next_id, filled_at>>
    BY <1>1 DEF shared
  <2>4. HookInv(t)
    BY <1>1 DEF RInv, CallInv
  <2>5. ~Active(t) /\ ~Active(t)'
    BY <1>1, <1>3, <2>1, <2>3 DEF Active
  <2>6. \A x : Untouched(x)' <=> Untouched(x)
    BY <2>2, <2>3, SameCore
  <2>7. "hook" \notin FlushPCs
    BY DEF FlushPCs
  <2>8. HookInv(t)'
    BY <1>1, <2>1, <2>2, <2>3, <2>4, <2>5, <2>6, <2>7 DEF HookInv
  <2>9. CallInv(t)'
    BY <2>1, <2>8 DEF CallInv
  <2> QED
    BY <2>2, <2>3, <2>9, InsideCall
<1> QED
  BY <1>2, <1>3

\* Steps that change nothing of this: the assert fails, and stuttering.
LEMMA StillRefines ==
  ASSUME Alone, RInv, LockInv', done' = done, UNCHANGED <<shared, th>>
  PROVE  RInv'
<1>1. UNCHANGED <<system_eid, persisted_eid, buffer, log, block_eid, next_id, filled_at>>
  BY DEF shared
<1>2. /\ TopGap' = TopGap
      /\ \A x, g : NotBefore(x, g)' <=> NotBefore(x, g)
  BY <1>1, SameRounds
<1>3. \A x : /\ Untouched(x)' <=> Untouched(x)
             /\ \A e : FlushedTo(x, e)' <=> FlushedTo(x, e)
             /\ \A e : Between(x, e)' <=> Between(x, e)
  BY <1>1, SameCore
<1>4. ASSUME NEW t \in Thread PROVE CallInv(t)'
  <2> USE <1>1
  <2>1. CallInv(t)
    BY DEF RInv
  <2>2. InFlush(t)' <=> InFlush(t)
    BY DEF InFlush, Between, FlushedTo, Fl
  <2>3. WriteInv(t) => WriteInv(t)'
    <3>1. /\ Nothing(t)' <=> Nothing(t)
          /\ \A g : AfterRound(t, g)' <=> AfterRound(t, g)
          /\ \A g : NotBefore(th[t].core, g)' <=> NotBefore(th[t].core, g)
      BY DEF Nothing, AfterRound, NotBefore, FlushedTo, Untouched, Fl, TopGap
    <3> QED
      BY <1>2, <1>3, <2>2, <3>1 DEF WriteInv
  <2>4. HookInv(t) => HookInv(t)'
    BY <2>2 DEF HookInv, Active, Persists, Current, Untouched, FlushedTo, Fl
  <2>5. Visible' = Visible
    BY DEF Visible
  <2> QED
    BY <2>1, <2>3, <2>4, <2>5 DEF CallInv
<1> QED
  BY <1>1, <1>4 DEF RInv, DoneType, SameCall

-----------------------------------------------------------------------------

LEMMA InitRefines == RInit => RInv /\ Calls!Init
<1> SUFFICES ASSUME RInit PROVE RInv /\ Calls!Init
  OBVIOUS
<1>1. LockInv
  BY InitLockInv DEF RInit
<1>2. Calls!Init
  BY DEF RInit, Init, Visible, Calls!Init
<1>3. DoneType /\ SameCall
  BY <1>1 DEF RInit, Visible, DoneType, SameCall, LockInv, Types
<1>4. \A t \in Thread : CallInv(t)
  BY IdleType DEF RInit, Init, CallInv
<1> QED
  BY <1>1, <1>2, <1>3, <1>4 DEF RInv

LEMMA StepRefines ==
  ASSUME Alone, RInv, [RNext]_RVars
  PROVE  RInv' /\ [Calls!Next]_Calls!vars
<1>1. LockInv'
  BY NextLockInv DEF RNext, RVars, RInv
<1>2. CASE UNCHANGED RVars
  <2>1. done' = done /\ UNCHANGED <<shared, th>>
    BY <1>2 DEF RVars, vars, shared
  <2> QED
    BY <1>1, <2>1, StillRefines DEF Calls!vars
<1>3. ASSUME NEW t \in Thread, RNext, Begin(t) \/ Continue(t)
      PROVE  RInv' /\ (Calls!Next \/ done' = done)
  <2>1. CASE AssertFails(t)
    <3>1. th'[t].pc # "idle" /\ UNCHANGED <<shared, th>>
      BY <2>1 DEF AssertFails, At
    <3> QED
      BY <1>1, <1>3, <3>1, DoneKept, StillRefines
  <2>2. CASE Insert(t) \/ Increment(t) \/ EndExitHook(t) \/ \E b \in Block : RefillCacheBlock(t, b)
    BY <1>1, <1>3, <2>2, InsertRefines, IncrementRefines, EndExitHookRefines, RefillRefines
  <2>3. CASE \/ CheckFull(t) \/ CheckFullAgain(t) \/ Collect(t) \/ Erase(t) \/ SendDataToNVM(t)
             \/ SetPersisted(t)
    BY <1>1, <1>3, <2>3, CheckFullRefines, CheckFullAgainRefines, FlushStepRefines,
       SetPersistedRefines
  <2>4. CASE \E c \in Core : AsyncCacheScan(t, c) \/ PersistLastEpochs(t, c)
    BY <1>1, <1>3, <2>4, AsyncCacheScanRefines, PersistLastEpochsRefines
  <2>5. CASE \/ \E c \in Core, b \in Block : BeginWrite(t, c, b)
             \/ BeginPeriodicHook(t) \/ BeginExitHook(t)
    BY <1>1, <1>3, <2>5, BeginWriteRefines, BeginHookRefines
  <2> QED
    BY <1>3, <2>1, <2>2, <2>3, <2>4, <2>5 DEF Begin, Continue
<1>4. done' = done => UNCHANGED Calls!vars
  BY DEF Calls!vars
<1>5. CASE RNext
  BY <1>3, <1>4, <1>5 DEF RNext, Next
<1> QED
  BY <1>2, <1>5

(***************************************************************************)
(* PiclLog is a specification of the code: executed by one thread, the     *)
(* steps of writeCacheBlock (the overflow loop with its unsigned gap       *)
(* included), of asyncCacheScan over all cores and of persistLastEpochs    *)
(* add up to the atomic calls of PiclLog, for every number of cores and    *)
(* blocks, every buffer size, gap and width of the counters.  So whatever  *)
(* PiclLog_proofs shows of PiclLog holds of the code between two calls.    *)
(***************************************************************************)
THEOREM CallsRefinePiclLog ==
  ASSUME Alone
  PROVE  RSpec => ImplementsPiclLog
<1>1. RInit /\ [][RNext]_RVars => Calls!Init /\ [][Calls!Next]_Calls!vars
  BY InitRefines, StepRefines, PTL
<1> QED
  BY <1>1, PTL DEF RSpec, ImplementsPiclLog, Calls!Spec
=============================================================================
