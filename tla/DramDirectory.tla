--------------------------- MODULE DramDirectory ---------------------------
(***************************************************************************)
(* The DRAM directory controller as operators on a record                  *)
(*                                                                         *)
(*   D = [dir, reqs, slots, replaced, inbox, run]                          *)
(*                                                                         *)
(* dir[b] is the DirectoryEntry of block b, reqs[b] the requests for b     *)
(* with the one in progress at the head, slots the blocks that own an      *)
(* entry of the directory cache, replaced those whose entry was taken and  *)
(* is being nullified, inbox the messages on their way to every node.      *)
(* run says that the request now at the head of the queue has to be        *)
(* processed before the handler returns (processNextReqFromL2Cache).       *)
(*                                                                         *)
(* Blocks have one home node and share one set of the directory cache.     *)
(* Sharer lists are full maps, so they never overflow into a broadcast.    *)
(* Data is "new" (what the last store left), "mem" (what the DRAM held     *)
(* before it), "old", "junk" (what a dead buffer held), or "none".         *)
(***************************************************************************)
EXTENDS Naturals, Sequences, FiniteSets, FiniteSetsExt

CONSTANTS
  Node,      \* cores that own a last-level cache, as numbers
  Block,     \* cache blocks
  Home,      \* the node with the blocks' directory and DRAM controller
  Ways,      \* associativity of the directory cache
  Protocols, \* the values of caching_protocol/variant that are considered
  NoNode,
  Unset      \* what m_forwarder_id holds in a new entry: it is not initialised

ASSUME DirectoryAssumption ==
  /\ Node \subseteq Nat /\ IsFiniteSet(Node) /\ Home \in Node /\ NoNode \notin Node
  /\ Unset \notin Node \cup {NoNode}
  /\ Ways \in Nat \ {0}
  /\ Protocols \subseteq {"msi", "mesi", "mesif"}

VARIABLE protocol   \* m_protocol, read from the configuration at the start

DirectoryEntry == [state |-> "UNCACHED", sharers |-> {}, owner |-> NoNode, forwarder |-> Unset]

\* wait and forwardingFrom as in ShmemReq; data: set by setDataBuf.
ShmemReq(type, n) ==
  [type |-> type, node |-> n, wait |-> FALSE, forwardingFrom |-> NoNode, data |-> "none"]

ShmemMsg(type, b, from, data) == [type |-> type, block |-> b, from |-> from, data |-> data]

sendTo(D, nodes, type, b, data) ==
  [D EXCEPT !.inbox = [n \in Node |->
     IF n \in nodes THEN Append(@[n], ShmemMsg(type, b, Home, data)) ELSE @[n]]]

\* Dequeue the request in progress; go on with the next one, if any.
processNextReq(D, b) ==
  [D EXCEPT !.reqs[b] = Tail(@), !.run = Len(D.reqs[b]) > 1]

processNullifyReq(D, b) ==
  LET entry == D.dir[b] IN
  CASE entry.state \in {"EXCLUSIVE", "MODIFIED"} ->
         sendTo(D, {entry.owner}, "FLUSH_REQ", b, "none")
    [] entry.state = "SHARED" -> sendTo(D, entry.sharers, "INV_REQ", b, "none")
    [] entry.state = "UNCACHED" ->
         processNextReq([D EXCEPT !.replaced = @ \ {b}, !.dir[b] = DirectoryEntry], b)

-----------------------------------------------------------------------------
(* Allocation of a directory entry                                         *)

HasEntry(D, b) == b \in D.slots \cup D.replaced

\* Seeded bug: only entries of blocks that no cache holds may be replaced.
Idle_Uncached(D) == {v \in D.slots : D.reqs[v] = <<>> /\ D.dir[v].sharers = {}}

\* The assertion of processDirectoryEntryAllocationReq has held: no block is being
\* processed without an entry.
EntriesFound(D) == \A b \in Block : D.reqs[b] # <<>> => HasEntry(D, b)

\* Entries without a request.
Idle(D) == {v \in D.slots : D.reqs[v] = <<>>}

\* processDirectoryEntryAllocationReq takes an idle entry with the fewest
\* sharers (the first one after a rotating pointer, which is not modelled).
ReplacementCandidates(D) ==
  {v \in Idle(D) : \A w \in Idle(D) :
                     Cardinality(D.dir[v].sharers) <= Cardinality(D.dir[w].sharers)}

\* Seeded bug: the way of the replaced entry is not reused.
getDirectoryEntry_NewWay(D, b, v) ==
  IF HasEntry(D, b) THEN D
  ELSE [D EXCEPT !.slots = @ \cup {b}, !.dir[b] = DirectoryEntry]

\* The entry for b; v is the block that loses its entry when no way is free.  If there
\* is none, b stays without an entry: an assertion fails (see EntriesFound).
getDirectoryEntry(D, b, v) ==
  CASE HasEntry(D, b) -> D
    [] ~HasEntry(D, b) /\ Cardinality(D.slots) < Ways ->
         [D EXCEPT !.slots = @ \cup {b}, !.dir[b] = DirectoryEntry]
    [] ~HasEntry(D, b) /\ Cardinality(D.slots) >= Ways /\ v \in D.slots ->
         processNullifyReq(
           [D EXCEPT !.slots = (@ \ {v}) \cup {b},
                     !.replaced = @ \cup {v},
                     !.dir[b] = DirectoryEntry,
                     !.reqs[v] = <<ShmemReq("NULLIFY_REQ", Head(D.reqs[b]).node)>>], v)
    [] OTHER -> D

-----------------------------------------------------------------------------
(* Requests                                                                *)

\* Answer the request in progress: with data at hand, or from the forwarder
\* (MESIF), or from the DRAM.
retrieveDataAndSendToL2Cache(D, reply, b, data) ==
  LET r == Head(D.reqs[b])
      entry == D.dir[b]
      forward == /\ protocol = "mesif"
                 /\ r.forwardingFrom = NoNode
                 /\ entry.state = "SHARED"
                 /\ entry.forwarder # NoNode
  IN CASE data # "none" ->
            processNextReq(sendTo([D EXCEPT !.dir[b].forwarder = r.node],
                                  {r.node}, reply, b, data), b)
       [] data = "none" /\ forward ->
            sendTo([D EXCEPT !.reqs[b][1].forwardingFrom = entry.forwarder],
                   {entry.forwarder}, "WB_REQ", b, "none")
       [] OTHER ->
            sendTo([D EXCEPT !.reqs[b][1].wait = TRUE], {Home}, "DRAM_READ_REQ", b, "none")

Own(D, b, n, state) ==
  [D EXCEPT !.dir[b].sharers = @ \cup {n}, !.dir[b].owner = n, !.dir[b].state = state]

processExReq(D, b, data) ==
  LET entry == D.dir[b]
      n == Head(D.reqs[b]).node
  IN CASE entry.state \in {"EXCLUSIVE", "MODIFIED"} ->
            sendTo(D, {entry.owner}, "FLUSH_REQ", b, "none")
       [] entry.state = "SHARED" -> sendTo(D, entry.sharers, "INV_REQ", b, "none")
       [] entry.state = "UNCACHED" ->
            retrieveDataAndSendToL2Cache(Own(D, b, n, "MODIFIED"), "EX_REP", b, data)

processShReq(D, b, data) ==
  LET entry == D.dir[b]
      n == Head(D.reqs[b]).node
  IN CASE entry.state \in {"EXCLUSIVE", "MODIFIED"} ->
            sendTo(D, {entry.owner}, "WB_REQ", b, "none")
       [] entry.state = "SHARED" ->
            retrieveDataAndSendToL2Cache([D EXCEPT !.dir[b].sharers = @ \cup {n}],
                                         "SH_REP", b, data)
       [] entry.state = "UNCACHED" /\ protocol = "msi" ->
            retrieveDataAndSendToL2Cache(Own(D, b, n, "SHARED"), "SH_REP", b, data)
       [] entry.state = "UNCACHED" /\ protocol # "msi" ->
            retrieveDataAndSendToL2Cache(Own(D, b, n, "EXCLUSIVE"), "EX_REP", b, data)

\* The first sharer is asked for the data when the requester lost its copy.
processUpgradeReq(D, b, data) ==
  LET entry == D.dir[b]
      r == Head(D.reqs[b])
      n == r.node
      first == Min(entry.sharers)
      flush == IF n \in entry.sharers THEN {} ELSE {first}
  IN CASE entry.state \in {"EXCLUSIVE", "MODIFIED"} /\ first = n ->
            processNextReq(sendTo([D EXCEPT !.dir[b].state = "MODIFIED"],
                                  {n}, "UPGRADE_REP", b, "none"), b)
       [] entry.state \in {"EXCLUSIVE", "MODIFIED"} /\ first # n ->
            sendTo(D, {entry.owner}, "FLUSH_REQ", b, "none")
       [] entry.state = "SHARED" /\ entry.sharers = {n} ->
            processNextReq(sendTo([D EXCEPT !.dir[b].owner = n, !.dir[b].state = "MODIFIED"],
                                  {n}, "UPGRADE_REP", b, "none"), b)
       [] entry.state = "SHARED" /\ entry.sharers # {n} ->
            sendTo(sendTo(D, flush, "FLUSH_REQ", b, "none"),
                   entry.sharers \ (flush \cup {n}), "INV_REQ", b, "none")
       [] entry.state = "UNCACHED" ->
            retrieveDataAndSendToL2Cache(Own(D, b, n, "MODIFIED"), "EX_REP", b,
                                         IF data = "none" THEN r.data ELSE data)

\* Process the request at the head of b's queue, with data at hand or "none".
processReq(D, b, v, data) ==
  LET type == Head(D.reqs[b]).type
      D0 == [D EXCEPT !.run = FALSE]
  IN CASE type = "EX_REQ" -> processExReq(getDirectoryEntry(D0, b, v), b, data)
       [] type = "SH_REQ" -> processShReq(getDirectoryEntry(D0, b, v), b, data)
       [] type = "UPGRADE_REQ" -> processUpgradeReq(getDirectoryEntry(D0, b, v), b, data)
       [] type = "NULLIFY_REQ" -> processNullifyReq(D0, b)

\* Go on with the queue as long as requests are completed at once.
RunQueue(D, b, v) ==
  LET after[k \in 0..Len(D.reqs[b])] ==
        IF k = 0 THEN D
        ELSE IF after[k - 1].run THEN processReq(after[k - 1], b, v, "none")
        ELSE after[k - 1]
  IN after[Len(D.reqs[b])]

\* Process the head of b's queue and what becomes ready by that.
Process(D, b, v, data) == RunQueue(processReq(D, b, v, data), b, v)

-----------------------------------------------------------------------------
(* Messages                                                                *)

\* handleMsgFromL2Cache: EX_REQ, SH_REQ, UPGRADE_REQ.
handleReq(D, b, n, type, v) ==
  LET D1 == [D EXCEPT !.reqs[b] = Append(@, ShmemReq(type, n))]
  IN IF Len(D1.reqs[b]) = 1 THEN Process(D1, b, v, "none") ELSE D1

\* Seeded bug: an invalidate wakes a request that waits for the DRAM.
InvRepReady_NoWait(r, left, n) ==
  CASE r.type = "UPGRADE_REQ" -> left \subseteq {r.node}
    [] r.type = "SH_REQ" -> TRUE
    [] OTHER -> left = {}

\* Seeded bug: the eviction of the forwarder is not noticed.
InvRepReady_NoForwarder(r, left, n) ==
  CASE r.type = "UPGRADE_REQ" -> left \subseteq {r.node}
    [] r.type = "SH_REQ" -> ~r.wait /\ r.forwardingFrom = NoNode
    [] OTHER -> left = {}

\* Does the INV_REP of n, after which the sharers left are left, allow the
\* request r in progress to be processed again?
InvRepReady(r, left, n) ==
  CASE r.type = "UPGRADE_REQ" -> left \subseteq {r.node}
    [] r.type = "SH_REQ" -> ~r.wait /\ r.forwardingFrom \in {NoNode, n}
    [] OTHER -> left = {}

\* Seeded bug: a forwarder that evicts the block stays the forwarder.
processInvRep_KeepsForwarder(D, b, n, v) ==
  LET left == D.dir[b].sharers \ {n}
      D1 == [D EXCEPT !.dir[b].sharers = left,
                      !.dir[b].state = IF left = {} THEN "UNCACHED" ELSE @]
  IN IF D.reqs[b] # <<>> /\ InvRepReady(Head(D.reqs[b]), left, n)
     THEN Process(D1, b, v, "none") ELSE D1

processInvRep(D, b, n, v) ==
  LET left == D.dir[b].sharers \ {n}
      D1 == [D EXCEPT !.dir[b].sharers = left,
                      !.dir[b].forwarder = IF @ = n THEN NoNode ELSE @,
                      !.dir[b].state = IF left = {} THEN "UNCACHED" ELSE @]
  IN IF D.reqs[b] # <<>> /\ InvRepReady(Head(D.reqs[b]), left, n)
     THEN Process(D1, b, v, "none") ELSE D1

\* Seeded bug: the data of a nullified entry is dropped.
WritesFlush_NotNullify(queue) == queue = <<>> \/ Head(queue).type = "SH_REQ"

\* Flushed data goes to the DRAM, unless it goes to a new owner.
WritesFlush(queue) == queue = <<>> \/ Head(queue).type \in {"SH_REQ", "NULLIFY_REQ"}

\* Seeded bug: the next owner's data is read from the DRAM, not from the message.
processFlushRep_FromDram(D, b, n, v, data, stored) ==
  LET left == D.dir[b].sharers \ {n}
      D1 == [D EXCEPT !.dir[b].sharers = left, !.dir[b].forwarder = NoNode, !.dir[b].owner = NoNode,
                      !.dir[b].state = IF left = {} THEN "UNCACHED" ELSE @]
      D2 == IF WritesFlush(D.reqs[b]) THEN sendTo(D1, {Home}, "DRAM_WRITE_REQ", b, data) ELSE D1
  IN IF D.reqs[b] = <<>> THEN D2 ELSE Process(D2, b, v, "none")

\* stored: what remains of the flushed data when the message has been deleted.
processFlushRep(D, b, n, v, data, stored) ==
  LET left == D.dir[b].sharers \ {n}
      D1 == [D EXCEPT !.dir[b].sharers = left, !.dir[b].forwarder = NoNode, !.dir[b].owner = NoNode,
                      !.dir[b].state = IF left = {} THEN "UNCACHED" ELSE @]
      D2 == IF WritesFlush(D.reqs[b]) THEN sendTo(D1, {Home}, "DRAM_WRITE_REQ", b, data) ELSE D1
      type == Head(D.reqs[b]).type
  IN CASE D.reqs[b] = <<>> -> D2
       [] D.reqs[b] # <<>> /\ type = "UPGRADE_REQ" /\ left # {} ->
            [D2 EXCEPT !.reqs[b][1].data = stored]
       [] D.reqs[b] # <<>> /\ ~(type = "UPGRADE_REQ" /\ left # {}) -> Process(D2, b, v, data)

\* Seeded bug: the cache that wrote the block back is forgotten.
processWbRep_DropsOwner(D, b, v, data) ==
  Process([D EXCEPT !.dir[b].sharers = @ \ {D.dir[b].owner}, !.dir[b].state = "SHARED"],
          b, v, data)

processWbRep(D, b, v, data) ==
  Process([D EXCEPT !.dir[b].owner = NoNode, !.dir[b].state = "SHARED"], b, v, data)

processDRAMReply(D, b, v, data) ==
  LET r == Head(D.reqs[b])
      reply == IF r.type = "SH_REQ" /\ D.dir[b].state = "SHARED" THEN "SH_REP" ELSE "EX_REP"
  IN RunQueue(processNextReq(sendTo(D, {r.node}, reply, b, data), b), b, v)

=============================================================================
