----------------------------- MODULE Coherence -----------------------------
(***************************************************************************)
(* Last-level caches (LLC), directory and DRAM exchange messages.          *)
(*                                                                         *)
(* Every node has one network thread, which takes the messages of its      *)
(* inbox in order, for the LLC as well as for the directory and the DRAM   *)
(* controller of the home node.  The user threads of the cores of a node   *)
(* access the node's LLC under the stack lock of the blocks' set (all      *)
(* blocks of the model are in one set, so that they evict each other).     *)
(* On a miss a user thread releases the lock, sleeps, and is woken by the  *)
(* network thread, which hands the lock over to it.                        *)
(*                                                                         *)
(* The private caches above the LLC are not modelled here: the state and   *)
(* data of a line stand for the whole stack below it.                      *)
(***************************************************************************)
EXTENDS DramDirectory

CONSTANTS
  Core,         \* cores; each one runs one user thread
  NodeOf,       \* the node whose LLC a core uses
  Work,         \* accesses the cores make: <<core, block, exclusive>>
  NoBlock

ASSUME CoreAssumption ==
  /\ IsFiniteSet(Core) /\ NodeOf \in [Core -> Node]
  /\ Work \subseteq Core \X Block \X BOOLEAN
  /\ NoBlock \notin Block

VARIABLES
  line,        \* [Node -> [Block -> [state, data]]]: LLC lines
  waiters,     \* [Node -> [Block -> Seq]]: m_directory_waiters
  user,        \* [Core -> [pc, block, excl]]: user threads
  serving,     \* [Node -> Block]: whose waiters the network thread is waking
  dir, reqs, slots, replaced,  \* directory of the home node, see DramDirectory
  inbox,       \* [Node -> Seq(message)]
  dram,        \* [Block -> data]
  forwarded    \* history: blocks with a WB_REP since their last store

vars == <<line, waiters, user, serving, dir, reqs, slots, replaced, inbox, dram, forwarded,
          protocol>>

directory == <<protocol, dir, reqs, slots, replaced>>

Requests == {"EX_REQ", "SH_REQ", "UPGRADE_REQ"}

Line(state, data) == [state |-> state, data |-> data]
Invalid == Line("INVALID", "none")
Resting == [pc |-> "idle", block |-> NoBlock, excl |-> FALSE]

Init ==
  /\ line = [n \in Node |-> [b \in Block |-> Invalid]]
  /\ waiters = [n \in Node |-> [b \in Block |-> <<>>]]
  /\ user = [c \in Core |-> Resting]
  /\ serving = [n \in Node |-> NoBlock]
  /\ dir = [b \in Block |-> DirectoryEntry]
  /\ reqs = [b \in Block |-> <<>>]
  /\ slots = {}
  /\ replaced = {}
  /\ inbox = [n \in Node |-> <<>>]
  /\ dram = [b \in Block |-> "new"]
  /\ forwarded = {}
  /\ protocol \in Protocols

-----------------------------------------------------------------------------
(* Lines and data                                                          *)

Readable(state) == state \in {"SHARED", "EXCLUSIVE", "MODIFIED"}

\* Can the access be made on the line?  A line in E is writable by the silent
\* upgrade that processShmemReqFromPrevCache makes in the LLC.
Permissible(state, excl) == IF excl THEN state \in {"EXCLUSIVE", "MODIFIED"} ELSE Readable(state)

\* The stack lock of node n was handed to a user thread that still holds it.
Locked(n) == \E c \in Core : NodeOf[c] = n /\ user[c].pc = "woken"

\* A store by node n: every other copy of the block, wherever it is, gets old;
\* what the DRAM holds, or is about to hold, is then called "mem".  What came
\* out of a freed or unset buffer is "junk" and stays it.  A block is one
\* datum: a store replaces all of it.
Aged(data) == IF data \in {"none", "junk"} THEN data ELSE "old"

AgedCopy(x) == [x EXCEPT !.data = Aged(@)]   \* of a line or a request

AgedMsg(m) ==
  [m EXCEPT !.data = IF m.type = "DRAM_WRITE_REQ" /\ @ \notin {"old", "junk"} THEN "mem"
                     ELSE Aged(@)]

Store(n, b) ==
  /\ line' = [m \in Node |-> [line[m] EXCEPT
                ![b] = IF m = n THEN Line("MODIFIED", "new") ELSE AgedCopy(@)]]
  /\ inbox' = [m \in Node |-> [i \in DOMAIN inbox[m] |->
                IF inbox[m][i].block = b THEN AgedMsg(inbox[m][i]) ELSE inbox[m][i]]]
  /\ reqs' = [reqs EXCEPT ![b] = [i \in DOMAIN @ |-> AgedCopy(@[i])]]
  /\ dram' = [dram EXCEPT ![b] = IF @ \in {"old", "junk"} THEN @ ELSE "mem"]
  /\ forwarded' = forwarded \ {b}

-----------------------------------------------------------------------------
(* User threads                                                            *)

\* A store hits a line in M, or in E (silent upgrade).  A load that hits
\* changes nothing.
WriteHit(c, b) ==
  LET n == NodeOf[c] IN
  /\ user[c].pc = "idle"
  /\ ~Locked(n)
  /\ Permissible(line[n][b].state, TRUE)
  /\ Store(n, b)
  /\ UNCHANGED <<waiters, user, serving, protocol, dir, slots, replaced>>

Request(n, b, excl) ==
  CASE ~excl -> "SH_REQ"
    [] excl /\ line[n][b].state = "SHARED" -> "UPGRADE_REQ"
    [] OTHER -> "EX_REQ"

\* initiateDirectoryAccess: the first waiter sends the request.
Miss(c, b, excl) ==
  LET n == NodeOf[c]
      first == waiters[n][b] = <<>>
      type == Request(n, b, excl)
  IN /\ user[c].pc = "idle"
     /\ ~Locked(n)
     /\ ~Permissible(line[n][b].state, excl)
     /\ waiters' = [waiters EXCEPT ![n][b] = Append(@, [core |-> c, excl |-> excl])]
     /\ user' = [user EXCEPT ![c] = [pc |-> "wait", block |-> b, excl |-> excl]]
     /\ line' = IF first /\ type = "UPGRADE_REQ"
                THEN [line EXCEPT ![n][b].state = "SHARED_UPGRADING"] ELSE line
     /\ inbox' = IF first THEN [inbox EXCEPT ![Home] = Append(@, ShmemMsg(type, b, n, "none"))]
                 ELSE inbox
     /\ UNCHANGED <<serving, directory, dram, forwarded>>

\* A woken user thread holds the stack lock: it fills its private caches from
\* the LLC, makes its access and releases the lock.
Fill(c) ==
  LET n == NodeOf[c]
      b == user[c].block
  IN /\ user[c].pc = "woken"
     /\ user' = [user EXCEPT ![c] = Resting]
     /\ \/ user[c].excl /\ Store(n, b)
        \/ ~user[c].excl /\ UNCHANGED <<line, inbox, reqs, dram, forwarded>>
     /\ UNCHANGED <<waiters, serving, protocol, dir, slots, replaced>>

-----------------------------------------------------------------------------
(* Network thread, LLC side: handleMsgFromDramDirectory                    *)

\* The next message of node n is one of these types; ignored while the
\* network thread is still waking waiters.
Next_(n, types) ==
  /\ serving[n] = NoBlock
  /\ ~Locked(n)
  /\ inbox[n] # <<>>
  /\ Head(inbox[n]).type \in types

Popped(n) == [inbox EXCEPT ![n] = Tail(@)]

\* Seeded bug: an exclusive waiter is woken although the line is only SHARED.
UpgradesFor_No(w, state) == FALSE

\* Does the network thread request an upgrade in place of waiter w?
UpgradesFor(w, state) == w.excl /\ state = "SHARED"

\* One round of the loop over the waiters ws of block b, with the lines ls:
\* an exclusive waiter that finds S upgrades in place of its core and ends
\* the handler, any other one is woken and gets the stack lock.
Wake(n, b, ws, ls, box) ==
  LET w == Head(ws)
      upgrade == ws # <<>> /\ UpgradesFor(w, ls[n][b].state)
  IN /\ waiters' = [waiters EXCEPT ![n][b] = ws]
     /\ IF ws = <<>> \/ upgrade
        THEN serving' = [serving EXCEPT ![n] = NoBlock] /\ UNCHANGED user
        ELSE /\ serving' = [serving EXCEPT ![n] = b]
             /\ user' = [user EXCEPT ![w.core].pc = "woken"]
     /\ line' = IF upgrade THEN [ls EXCEPT ![n][b].state = "SHARED_UPGRADING"] ELSE ls
     /\ inbox' = IF upgrade
                 THEN [box EXCEPT ![Home] = Append(@, ShmemMsg("UPGRADE_REQ", b, n, "none"))]
                 ELSE box

\* insertCacheBlock: the line comes in and may evict another one, v; the
\* directory is told (FLUSH_REP with the data if it is dirty, else INV_REP).
Evictable(n, b) ==
  {v \in Block \ {b} : line[n][v].state \notin {"INVALID", "SHARED_UPGRADING"}}

Inserted(n, b, v, state, data) ==
  [line EXCEPT ![n] = [x \in Block |-> IF x = b THEN Line(state, data)
                                       ELSE IF x = v THEN Invalid ELSE @[x]]]

Evicted(n, v, box) ==
  IF v = NoBlock THEN box
  ELSE [box EXCEPT ![Home] = Append(@,
          IF line[n][v].state = "MODIFIED" THEN ShmemMsg("FLUSH_REP", v, n, line[n][v].data)
          ELSE ShmemMsg("INV_REP", v, n, "none"))]

\* processExRepFromDramDirectory, processShRepFromDramDirectory.
DataRep(n) ==
  /\ Next_(n, {"EX_REP", "SH_REP"})
  /\ LET m == Head(inbox[n])
         b == m.block
         state == IF m.type = "EX_REP" THEN "EXCLUSIVE" ELSE "SHARED"
     IN \E v \in Evictable(n, b) \cup {NoBlock} :
          Wake(n, b, waiters[n][b], Inserted(n, b, v, state, m.data), Evicted(n, v, Popped(n)))
  /\ UNCHANGED <<directory, dram, forwarded>>

\* A reply for a block outside the model comes in and evicts v.
OtherBlockRep(n) ==
  /\ serving[n] = NoBlock
  /\ ~Locked(n)
  /\ \E v \in Evictable(n, NoBlock) :
       /\ line' = [line EXCEPT ![n][v] = Invalid]
       /\ inbox' = Evicted(n, v, inbox)
  /\ UNCHANGED <<waiters, user, serving, directory, dram, forwarded>>

UpgradeRep(n) ==
  /\ Next_(n, {"UPGRADE_REP"})
  /\ LET b == Head(inbox[n]).block IN
       Wake(n, b, waiters[n][b], [line EXCEPT ![n][b].state = "MODIFIED"], Popped(n))
  /\ UNCHANGED <<directory, dram, forwarded>>

\* Seeded bug: only the first waiter is woken.
NextWaiter_One(n) ==
  LET b == serving[n] IN
  /\ b # NoBlock
  /\ ~Locked(n)
  /\ waiters' = [waiters EXCEPT ![n][b] = Tail(@)]
  /\ serving' = [serving EXCEPT ![n] = NoBlock]
  /\ UNCHANGED <<line, user, inbox, directory, dram, forwarded>>

\* The woken thread has released the stack lock: on to the next waiter.
NextWaiter(n) ==
  LET b == serving[n] IN
  /\ b # NoBlock
  /\ ~Locked(n)
  /\ Wake(n, b, Tail(waiters[n][b]), line, inbox)
  /\ UNCHANGED <<directory, dram, forwarded>>

\* The answer of the LLC to a directory request for a line it has.
Answer(n, type, b, data) ==
  [Popped(n) EXCEPT ![Home] = Append(@, ShmemMsg(type, b, n, data))]

\* INV_REQ and FLUSH_REQ.  A line that is not there any more is not answered:
\* the message of its eviction is under way.
InvalidateReq(n) ==
  /\ Next_(n, {"INV_REQ", "FLUSH_REQ"})
  /\ LET m == Head(inbox[n])
         l == line[n][m.block]
         reply == IF m.type = "INV_REQ" THEN "INV_REP" ELSE "FLUSH_REP"
         data == IF m.type = "INV_REQ" THEN "none" ELSE l.data
     IN /\ line' = [line EXCEPT ![n][m.block] = Invalid]
        /\ inbox' = IF l.state = "INVALID" THEN Popped(n) ELSE Answer(n, reply, m.block, data)
  /\ UNCHANGED <<waiters, user, serving, directory, dram, forwarded>>

\* Seeded bug: a line that is written back stays exclusive.
WbReq_KeepsState(n) ==
  /\ Next_(n, {"WB_REQ"})
  /\ LET b == Head(inbox[n]).block
         l == line[n][b]
     IN inbox' = IF l.state = "INVALID" THEN Popped(n) ELSE Answer(n, "WB_REP", b, l.data)
  /\ UNCHANGED <<line, waiters, user, serving, directory, dram, forwarded>>

\* WB_REQ.  For a line in SHARED_UPGRADING the buffer that is sent back was
\* never written: the WB_REP carries the line's data or anything else.
WbReq(n) ==
  /\ Next_(n, {"WB_REQ"})
  /\ LET b == Head(inbox[n]).block
         l == line[n][b]
     IN \/ /\ l.state = "INVALID"
           /\ inbox' = Popped(n)
           /\ UNCHANGED line
        \/ /\ Readable(l.state)
           /\ inbox' = Answer(n, "WB_REP", b, l.data)
           /\ line' = [line EXCEPT ![n][b].state = "SHARED"]
        \/ /\ l.state = "SHARED_UPGRADING"
           /\ \E data \in {l.data, "junk"} : inbox' = Answer(n, "WB_REP", b, data)
           /\ UNCHANGED line
  /\ UNCHANGED <<waiters, user, serving, directory, dram, forwarded>>

-----------------------------------------------------------------------------
(* Network thread, directory side                                          *)

DirectoryState(box) ==
  [dir |-> dir, reqs |-> reqs, slots |-> slots, replaced |-> replaced, inbox |-> box,
   run |-> FALSE]

\* The handler has come to its end with D; a failed assertion ends the process.
Becomes(D) ==
  /\ EntriesFound(D)
  /\ dir' = D.dir /\ reqs' = D.reqs /\ slots' = D.slots /\ replaced' = D.replaced
  /\ inbox' = D.inbox
  /\ UNCHANGED protocol

\* The block that loses its directory entry, should b need one: NoBlock when
\* none has to, or when none can.
Victims(b) ==
  LET full == b \notin slots /\ Cardinality(slots) = Ways
      candidates == ReplacementCandidates(DirectoryState(inbox))
  IN IF full /\ candidates # {} THEN candidates ELSE {NoBlock}

DirectoryReq(n) ==
  /\ Next_(n, Requests)
  /\ LET m == Head(inbox[n]) IN
       \E v \in Victims(m.block) :
         Becomes(handleReq(DirectoryState(Popped(n)), m.block, m.from, m.type, v))
  /\ UNCHANGED <<line, waiters, user, serving, dram, forwarded>>

InvRep(n) ==
  /\ Next_(n, {"INV_REP"})
  /\ LET m == Head(inbox[n]) IN
       \E v \in Victims(m.block) :
         Becomes(processInvRep(DirectoryState(Popped(n)), m.block, m.from, v))
  /\ UNCHANGED <<line, waiters, user, serving, dram, forwarded>>

\* The data kept with an upgrade request is a pointer into the message, which
\* is freed when the handler is done: what is read there later may be anything.
FlushRep(n) ==
  /\ Next_(n, {"FLUSH_REP"})
  /\ LET m == Head(inbox[n]) IN
       \E v \in Victims(m.block), stored \in {m.data, "junk"} :
         Becomes(processFlushRep(DirectoryState(Popped(n)), m.block, m.from, v, m.data, stored))
  /\ UNCHANGED <<line, waiters, user, serving, dram, forwarded>>

WbRep(n) ==
  /\ Next_(n, {"WB_REP"})
  /\ LET m == Head(inbox[n]) IN
       \E v \in Victims(m.block) :
         Becomes(processWbRep(DirectoryState(Popped(n)), m.block, v, m.data))
  /\ forwarded' = forwarded \cup {Head(inbox[n]).block}
  /\ UNCHANGED <<line, waiters, user, serving, dram>>

DramReadRep(n) ==
  /\ Next_(n, {"DRAM_READ_REP"})
  /\ LET m == Head(inbox[n]) IN
       \E v \in Victims(m.block) :
         Becomes(processDRAMReply(DirectoryState(Popped(n)), m.block, v, m.data))
  /\ UNCHANGED <<line, waiters, user, serving, dram, forwarded>>

\* DramCntlrInterface::handleMsgFromTagDirectory.
DramReq(n) ==
  /\ Next_(n, {"DRAM_READ_REQ", "DRAM_WRITE_REQ"})
  /\ LET m == Head(inbox[n]) IN
       IF m.type = "DRAM_READ_REQ"
       THEN inbox' = Answer(n, "DRAM_READ_REP", m.block, dram[m.block]) /\ UNCHANGED dram
       ELSE inbox' = Popped(n) /\ dram' = [dram EXCEPT ![m.block] = m.data]
  /\ UNCHANGED <<line, waiters, user, serving, directory, forwarded>>

-----------------------------------------------------------------------------
NetworkThread(n) ==
  \/ DataRep(n) \/ UpgradeRep(n) \/ NextWaiter(n)
  \/ InvalidateReq(n) \/ WbReq(n)
  \/ DirectoryReq(n) \/ InvRep(n) \/ FlushRep(n) \/ WbRep(n) \/ DramReadRep(n) \/ DramReq(n)

Access(c) ==
  \E b \in Block :
    \/ <<c, b, TRUE>> \in Work /\ WriteHit(c, b)
    \/ \E excl \in BOOLEAN : <<c, b, excl>> \in Work /\ Miss(c, b, excl)

Next ==
  \/ \E n \in Node : NetworkThread(n) \/ OtherBlockRep(n)
  \/ \E c \in Core : Access(c) \/ Fill(c)

\* Network threads and woken user threads keep running.
Spec ==
  /\ Init /\ [][Next]_vars
  /\ \A n \in Node : WF_vars(NetworkThread(n))
  /\ \A c \in Core : WF_vars(Fill(c))

-----------------------------------------------------------------------------
(* Properties                                                              *)

States == {"INVALID", "SHARED", "SHARED_UPGRADING", "EXCLUSIVE", "MODIFIED"}

(***************************************************************************)
(* Types; a way of the directory cache holds one block, and a line has     *)
(* data exactly when it is valid.                                          *)
(***************************************************************************)
TypeOK ==
  /\ \A n \in Node, b \in Block :
       /\ line[n][b].state \in States
       /\ (line[n][b].data = "none") <=> (line[n][b].state = "INVALID")
  /\ \A c \in Core : user[c].pc \in {"idle", "wait", "woken"}
  /\ \A b \in Block : dir[b].sharers \subseteq Node /\ dir[b].owner \in Node \cup {NoNode}
  /\ slots \cap replaced = {} /\ Cardinality(slots) <= Ways
  /\ serving \in [Node -> Block \cup {NoBlock}]
  /\ dram \in [Block -> {"new", "mem", "old", "junk"}]

(***************************************************************************)
(* A writable line is the only valid copy: when an LLC holds a block in E  *)
(* or M, every other LLC has it INVALID, in every intermediate state of    *)
(* the message exchange.                                                   *)
(***************************************************************************)
SingleWriter ==
  \A b \in Block : \A n, m \in Node :
    n # m /\ line[n][b].state \in {"EXCLUSIVE", "MODIFIED"} => line[m][b].state = "INVALID"

(***************************************************************************)
(* No thread reads an overwritten copy: a line that can be read holds what *)
(* the last store left.  The code has two exceptions and no third.  After  *)
(* a WB_REP has handed the block to a reader (see LostOnlyAfterForward) it *)
(* may be what the DRAM held before that store, though nothing older, or   *)
(* "junk", the unset buffer of a WB_REP for a line that waits for an       *)
(* upgrade.  Otherwise junk, the freed message of a FLUSH_REP included,    *)
(* only gets to a thread that is about to overwrite it: it has been woken  *)
(* for its store and holds the stack lock.                                 *)
(***************************************************************************)
NoStaleCopy ==
  \A b \in Block, n \in Node : Readable(line[n][b].state) =>
    \/ line[n][b].data = "new"
    \/ line[n][b].data \in {"mem", "junk"} /\ b \in forwarded
    \/ /\ line[n][b].data = "junk"
       /\ \E c \in Core :
            NodeOf[c] = n /\ user[c].pc = "woken" /\ user[c].block = b /\ user[c].excl

(***************************************************************************)
(* The data of the last store is in a line, in the DRAM, in a message or   *)
(* kept with a request of the directory.                                   *)
(***************************************************************************)
LastWriteExists(b) ==
  \/ dram[b] = "new"
  \/ \E n \in Node : line[n][b].data = "new"
  \/ \E n \in Node : \E i \in DOMAIN inbox[n] :
       inbox[n][i].block = b /\ inbox[n][i].data = "new"
  \/ \E i \in DOMAIN reqs[b] : reqs[b][i].data = "new"

(***************************************************************************)
(* Evictions, flushes, invalidations and nullifications keep the data of   *)
(* the last store; it can only be lost after a WB_REP handed it to a       *)
(* reader (processWbRepFromL2Cache does not write it to the DRAM).         *)
(***************************************************************************)
LostOnlyAfterForward == \A b \in Block \ forwarded : LastWriteExists(b)

(***************************************************************************)
(* The directory never forgets a copy: every LLC with a valid line is in   *)
(* the block's sharer list, and the block has a directory entry (which may *)
(* be one that is being nullified).                                        *)
(***************************************************************************)
DirectoryCoversCaches ==
  \A b \in Block, n \in Node :
    line[n][b].state # "INVALID" => b \in slots \cup replaced /\ n \in dir[b].sharers

(***************************************************************************)
(* The assertions of the handlers hold for every message when its turn     *)
(* comes (cache_cntlr.cc, dram_directory_cntlr.cc).  A line waits for an   *)
(* upgrade only as long as there are waiters, or the next one would        *)
(* request a block that is not INVALID (processExReqToDirectory); and the  *)
(* directory never has to fetch a block from the cache that asks for it.   *)
(***************************************************************************)
Expected(n, m) ==
  LET state == line[n][m.block].state
      entry == dir[m.block]
      queue == reqs[m.block]
  IN CASE m.type \in {"EX_REP", "SH_REP"} -> state = "INVALID" /\ waiters[n][m.block] # <<>>
       [] m.type = "UPGRADE_REP" -> state = "SHARED_UPGRADING" /\ waiters[n][m.block] # <<>>
       [] m.type = "INV_REQ" -> state # "MODIFIED"
       [] m.type = "INV_REP" -> /\ entry.state \in {"SHARED", "EXCLUSIVE"}
                                /\ m.from \in entry.sharers
       [] m.type = "FLUSH_REP" -> /\ m.from \in entry.sharers
                                  /\ entry.sharers # {m.from} => entry.state = "SHARED"
                                  /\ queue # <<>> /\ Head(queue).type = "EX_REQ" =>
                                       entry.sharers = {m.from}
       [] m.type = "WB_REP" -> /\ m.from \in entry.sharers
                               /\ queue # <<>> /\ Head(queue).type = "SH_REQ"
       [] m.type = "DRAM_READ_REP" ->
            /\ queue # <<>>
            /\ Head(queue).type = "SH_REQ" => entry.state \in {"SHARED", "EXCLUSIVE"}
            /\ Head(queue).type = "EX_REQ" => entry.state = "MODIFIED"
       [] OTHER -> TRUE

MessagesAreExpected ==
  /\ \A n \in Node : inbox[n] # <<>> /\ serving[n] = NoBlock => Expected(n, Head(inbox[n]))
  /\ \A n \in Node, b \in Block :
       line[n][b].state = "SHARED_UPGRADING" => waiters[n][b] # <<>>
  /\ \A b \in Block :
       reqs[b] # <<>> /\ dir[b].state = "EXCLUSIVE" =>
         LET r == Head(reqs[b]) IN r.type = "SH_REQ" /\ ~r.wait => r.node # dir[b].owner

(***************************************************************************)
(* A user thread that is woken finds its data in the LLC ("Tried to read   *)
(* in next-level cache, but data is already gone" is never reached).       *)
(***************************************************************************)
WokenThreadHits ==
  \A c \in Core : user[c].pc = "woken" =>
    Permissible(line[NodeOf[c]][user[c].block].state, user[c].excl)

(***************************************************************************)
(* With as many ways as there are cores the directory always finds an      *)
(* entry to replace for a block that some cache has asked for ("Cannot     *)
(* find a directory entry to be replaced" is never reached): entries with  *)
(* requests, which may not be replaced, belong to other cores.             *)
(***************************************************************************)
Requested(b) ==
  \/ \E i \in DOMAIN reqs[b] : reqs[b][i].type \in Requests
  \/ \E i \in DOMAIN inbox[Home] : inbox[Home][i].block = b /\ inbox[Home][i].type \in Requests

ReplacementFound ==
  Ways >= Cardinality(Core) =>
    \A b \in Block \ slots :
      Requested(b) /\ Cardinality(slots) = Ways => Idle(DirectoryState(inbox)) # {}

(***************************************************************************)
(* No lost wake-up: while a request is in progress at the directory, some  *)
(* message about its block is on its way (the copy that was asked for may  *)
(* be gone: then the message of its eviction has to do, "hoping eviction   *)
(* message is underway").                                                  *)
(***************************************************************************)
RequestNotStranded ==
  \A b \in Block : reqs[b] # <<>> =>
    \E n \in Node : \E i \in DOMAIN inbox[n] :
      inbox[n][i].block = b /\ inbox[n][i].type \notin Requests

(***************************************************************************)
(* Under MESIF the cache that is asked to forward a SHARED block is one    *)
(* that the directory knows to have it: neither one that has evicted it    *)
(* nor whatever the member m_forwarder_id, which no constructor sets, held *)
(* when the entry was made.                                                *)
(***************************************************************************)
ForwarderIsSharer ==
  \A b \in Block : dir[b].state = "SHARED" /\ protocol = "mesif" =>
    dir[b].forwarder \in dir[b].sharers \cup {NoNode}

(***************************************************************************)
(* Every miss is served: a user thread that sleeps goes on.                *)
(***************************************************************************)
MissesAreServed == \A c \in Core : user[c].pc = "wait" ~> user[c].pc = "idle"

=============================================================================
