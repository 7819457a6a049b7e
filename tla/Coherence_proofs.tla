-------------------------- MODULE Coherence_proofs --------------------------
(***************************************************************************)
(* The invariants of Coherence, proved from one inductive invariant.       *)
(*                                                                         *)
(* IInv says that threads, waiters and network threads agree (Users) and   *)
(* that the directory is between two handlers, with every block settled    *)
(* (Between).  There is one lemma for each action, then the theorems.      *)
(***************************************************************************)
EXTENDS CoherenceViews_proofs

-----------------------------------------------------------------------------
(* The invariant, and the actions of the directory                         *)

\* The waiters of block b in node n that sleep.
Asleep(n, b) == IF serving[n] = b THEN Tail(waiters[n][b]) ELSE waiters[n][b]

\* Each of the waiters ws is a thread that sleeps, u being the threads.
SleeperOf(u, w, n, b) ==
  NodeOf[w.core] = n /\ u[w.core] = [pc |-> "wait", block |-> b, excl |-> w.excl]

\* No thread waits twice.
Sleepers(u, ws, n, b) ==
  /\ \A i \in 1..Len(ws) : SleeperOf(u, ws[i], n, b)
  /\ \A i, j \in 1..Len(ws) : ws[i].core = ws[j].core => i = j

\* The waiters of a block are looked at only when the line is there.
Served(n, b) == serving[n] = b => waiters[n][b] # <<>> /\ Readable(line[n][b].state)

\* A woken thread is the first waiter, and finds a line it may use.
WokenOK(c) ==
  user[c].pc = "woken" =>
    /\ user[c].block \in Block /\ serving[NodeOf[c]] = user[c].block
    /\ Head(waiters[NodeOf[c]][user[c].block]).core = c
    /\ Permissible(line[NodeOf[c]][user[c].block].state, user[c].excl)

\* The threads, the waiters and the network threads agree.
Users ==
  /\ \A n \in Node, b \in Block : Sleepers(user, Asleep(n, b), n, b) /\ Served(n, b)
  /\ \A c \in Core : WokenOK(c)

\* THE INDUCTIVE INVARIANT: types; threads and waiters agree; every block of the
\* directory is settled, so that its view is stable and its messages are in order.
IInv == /\ CacheT /\ Users /\ Between(DirectoryState(inbox)) /\ dram \in [Block -> Data]

\* The variables of the caches.
CacheVars == <<line, waiters, user, serving>>

-----------------------------------------------------------------------------
(* The directory.                                                          *)

\* The parts of the directory's state.
LEMMA StateFields ==
  ASSUME NEW box
  PROVE  /\ DirectoryState(box).dir = dir /\ DirectoryState(box).reqs = reqs /\ DirectoryState(box).slots = slots
         /\ DirectoryState(box).replaced = replaced /\ DirectoryState(box).inbox = box
         /\ DirectoryState(box).run = FALSE
  BY DEF DirectoryState

\* A handler that has ended leaves the directory ready for the next message.
LEMMA DoneBetween ==
  ASSUME NEW D, NEW b \in Block, NEW v, Done(D, b, v), EntriesFound(D)
  PROVE  Between(D)
  BY DEF Done, Handling, OthersSettled, Between

\* The state that a handler leaves is the directory's next state.
LEMMA StateBecomes ==
  ASSUME NEW D \in DirT, ~D.run, Becomes(D)
  PROVE  (DirectoryState(inbox))' = D
<1> DEFINE E == [dir |-> D.dir, reqs |-> D.reqs, slots |-> D.slots, replaced |-> D.replaced, inbox |-> D.inbox,
                 run |-> FALSE]
<1>1. (DirectoryState(inbox))' = E
  BY DEF Becomes, DirectoryState
<1>2. D.run = FALSE
  BY DEF DirT
<1>3. E \in DirT
  BY DEF DirT
<1>4. E = D
  BY <1>2, <1>3, SameFields DEF DirT
<1> QED
  BY <1>1, <1>4

\* What is said of the caches does not change with the directory.
LEMMA SameCaches ==
  ASSUME UNCHANGED CacheVars, UNCHANGED protocol
  PROVE  /\ CacheT <=> CacheT'
         /\ Users <=> Users'
         /\ \A x : (Caches(x))' = Caches(x)
         /\ \A D : Between(D) <=> Between(D)'
<1>1. line' = line /\ waiters' = waiters /\ user' = user /\ serving' = serving /\ protocol' = protocol
  BY DEF CacheVars
<1>2. CacheT <=> CacheT'
  BY <1>1 DEF CacheT
<1>3. Users <=> Users'
  BY <1>1 DEF Users, Sleepers, SleeperOf, Asleep, Served, WokenOK
<1>4. \A x : (Caches(x))' = Caches(x)
  BY <1>1 DEF Caches, Awaited, FirstWrites, WokenWriter
<1>5. \A D : Between(D) <=> Between(D)'
  BY <1>1, <1>4 DEF Between, Settled, Kept, DirView
<1> QED
  BY <1>2, <1>3, <1>4, <1>5

\* A handler of the directory that ends well keeps the invariant.
LEMMA HandlerStep ==
  ASSUME IInv, NEW b \in Block, NEW v, NEW D, Done(D, b, v), Becomes(D), UNCHANGED CacheVars,
         dram' = dram
  PROVE  IInv'
<1>1. EntriesFound(D) /\ UNCHANGED protocol
  BY DEF Becomes
<1>2. Between(D)
  BY <1>1, DoneBetween
<1>3. D \in DirT /\ ~D.run
  BY <1>2 DEF Between
<1>4. (DirectoryState(inbox))' = D
  BY <1>3, StateBecomes
<1>5. CacheT' /\ Users' /\ Between(D)'
  BY <1>1, <1>2, SameCaches DEF IInv
<1> QED
  BY <1>4, <1>5 DEF IInv

\* The next message of node n, of type t about b from k, can be handled.
Incoming(n, m, t, b, k) ==
  /\ Message1(DirectoryState(inbox), DirectoryState(Popped(n)), m, b, k, t)
  /\ b \in Block /\ k \in Node /\ (t \in Carriers => m.data \in Data)
  /\ \A v \in Victims(b) : VictimOK(DirectoryState(inbox), b, v)

\* The victim of a replacement has no request (its entry is not in use).
LEMMA VictimsOK ==
  ASSUME IInv, NEW b \in Block, NEW v \in Victims(b)
  PROVE  VictimOK(DirectoryState(inbox), b, v)
<1> DEFINE D == DirectoryState(inbox)
<1>1. D.slots = slots /\ D.reqs = reqs /\ D \in DirT
  BY StateFields DEF IInv, Between
<1>2. slots \subseteq Block /\ NoBlock \notin Block
  BY <1>1, CoreAssumption DEF DirT
<1>3. v \in ReplacementCandidates(D) \/ v = NoBlock
  BY DEF Victims
<1> HIDE DEF D
<1>4. v \in ReplacementCandidates(D) => D.reqs[v] = <<>>
  BY DEF ReplacementCandidates, Idle
<1> QED
  BY <1>1, <1>2, <1>3, <1>4 DEF VictimOK, D

\* The next message is one the handler is for.
LEMMA Comes ==
  ASSUME IInv, NEW n \in Node, NEW T, Next_(n, T), T \cap (Replies \cup Snoops) = {},
         NEW m, m = Head(inbox[n])
  PROVE  Incoming(n, m, m.type, m.block, m.from) /\ m.type \in T
<1> DEFINE D == DirectoryState(inbox)
           P == DirectoryState(Popped(n))
<1>1. inbox[n] # <<>> /\ m.type \in T
  BY DEF Next_
<1>2. D \in DirT /\ D.inbox = inbox
  BY StateFields DEF IInv, Between
<1>3. inbox \in Boxes
  BY <1>2, BoxesOf
<1>4. Popped(n) \in Boxes /\ m \in Message /\ n = Home
  BY <1>1, <1>3, PopType DEF Popped
<1>5. m.block \in Block /\ m.from \in Node /\ (m.type \in Carriers => m.data \in Data)
  BY <1>4 DEF Message
<1>6. P.dir = D.dir /\ P.reqs = D.reqs /\ P.slots = D.slots /\ P.replaced = D.replaced /\ P.run = D.run
      /\ P.inbox = Popped(n)
  BY StateFields
<1>7. P \in DirT
  BY <1>2, <1>4 DEF DirT, DirectoryState
<1>8. P.inbox = [D.inbox EXCEPT ![Home] = Tail(@)]
  BY <1>2, <1>4, <1>6 DEF Popped
<1> HIDE DEF D, P
<1>9. Takes1(D, P, Home)
  BY <1>6, <1>7, <1>8 DEF Takes1
<1>10. Message1(D, P, m, m.block, m.from, m.type)
  BY <1>1, <1>2, <1>4, <1>5, <1>9 DEF Message1
<1>11. \A v \in Victims(m.block) : VictimOK(D, m.block, v)
  BY <1>5, VictimsOK DEF D
<1> QED
  BY <1>1, <1>5, <1>10, <1>11 DEF Incoming, D, P

\* The directory handles a request of a cache.
LEMMA DirectoryReqStep ==
  ASSUME IInv, NEW n \in Node, DirectoryReq(n)
  PROVE  IInv'
<1> DEFINE m == Head(inbox[n])
           D == DirectoryState(inbox)
           P == DirectoryState(Popped(n))
<1>1. Next_(n, Requests) /\ UNCHANGED CacheVars /\ dram' = dram
  BY DEF DirectoryReq, CacheVars
<1>2. PICK v \in Victims(m.block) : Becomes(handleReq(P, m.block, m.from, m.type, v))
  BY DEF DirectoryReq
<1>3. Requests \cap (Replies \cup Snoops) = {}
  BY DEF Requests, Replies, Snoops, Grants
<1> HIDE DEF m, D, P
<1>4. Incoming(n, m, m.type, m.block, m.from) /\ m.type \in Requests
  BY <1>1, <1>3, Comes DEF m
<1>5. Message1(D, P, m, m.block, m.from, m.type) /\ m.block \in Block /\ VictimOK(D, m.block, v)
  BY <1>4 DEF Incoming, D, P
<1>6. CacheT /\ Between(D)
  BY DEF IInv, D
<1>7. Done(handleReq(P, m.block, m.from, m.type, v), m.block, v)
  BY <1>4, <1>5, <1>6, RequestHandled
<1> QED
  BY <1>1, <1>2, <1>5, <1>7, HandlerStep

\* The directory handles INV_REP.
LEMMA InvRepStep ==
  ASSUME IInv, NEW n \in Node, InvRep(n)
  PROVE  IInv'
<1> DEFINE m == Head(inbox[n])
           D == DirectoryState(inbox)
           P == DirectoryState(Popped(n))
<1>1. Next_(n, {"INV_REP"}) /\ UNCHANGED CacheVars /\ dram' = dram
  BY DEF InvRep, CacheVars
<1>2. PICK v \in Victims(m.block) : Becomes(processInvRep(P, m.block, m.from, v))
  BY DEF InvRep
<1>3. {"INV_REP"} \cap (Replies \cup Snoops) = {}
  BY DEF Replies, Snoops, Grants
<1> HIDE DEF m, D, P
<1>4. Incoming(n, m, m.type, m.block, m.from) /\ m.type = "INV_REP"
  BY <1>1, <1>3, Comes DEF m
<1>5. Message1(D, P, m, m.block, m.from, "INV_REP") /\ m.block \in Block /\ VictimOK(D, m.block, v)
  BY <1>4 DEF Incoming, D, P
<1>6. CacheT /\ Between(D)
  BY DEF IInv, D
<1>7. Done(processInvRep(P, m.block, m.from, v), m.block, v)
  BY <1>4, <1>5, <1>6, InvRepHandled
<1> QED
  BY <1>1, <1>2, <1>5, <1>7, HandlerStep

\* The directory handles FLUSH_REP.
LEMMA FlushRepStep ==
  ASSUME IInv, NEW n \in Node, FlushRep(n)
  PROVE  IInv'
<1> DEFINE m == Head(inbox[n])
           D == DirectoryState(inbox)
           P == DirectoryState(Popped(n))
<1>1. Next_(n, {"FLUSH_REP"}) /\ UNCHANGED CacheVars /\ dram' = dram
  BY DEF FlushRep, CacheVars
<1>2. \E v \in Victims(m.block), stored \in {m.data, "junk"} :
        Becomes(processFlushRep(P, m.block, m.from, v, m.data, stored))
  BY DEF FlushRep
<1>3. {"FLUSH_REP"} \cap (Replies \cup Snoops) = {}
  BY DEF Replies, Snoops, Grants
<1> HIDE DEF m, D, P
<1>4. Incoming(n, m, m.type, m.block, m.from) /\ m.type = "FLUSH_REP"
  BY <1>1, <1>3, Comes DEF m
<1>5. PICK v \in Victims(m.block), stored \in {m.data, "junk"} :
        Becomes(processFlushRep(P, m.block, m.from, v, m.data, stored))
  BY <1>2
<1>6. Message1(D, P, m, m.block, m.from, "FLUSH_REP") /\ m.block \in Block /\ VictimOK(D, m.block, v)
  BY <1>4 DEF Incoming, D, P
<1>7. CacheT /\ Between(D)
  BY DEF IInv, D
<1>8. m.data \in Data /\ stored \in Data \cup {"none"}
  BY <1>4 DEF Incoming, Carriers, Data
<1>9. Done(processFlushRep(P, m.block, m.from, v, m.data, stored), m.block, v)
  BY <1>4, <1>6, <1>7, <1>8, FlushRepHandled
<1> QED
  BY <1>1, <1>5, <1>6, <1>9, HandlerStep

\* The directory handles WB_REP.
LEMMA WbRepStep ==
  ASSUME IInv, NEW n \in Node, WbRep(n)
  PROVE  IInv'
<1> DEFINE m == Head(inbox[n])
           D == DirectoryState(inbox)
           P == DirectoryState(Popped(n))
<1>1. Next_(n, {"WB_REP"}) /\ UNCHANGED CacheVars /\ dram' = dram
  BY DEF WbRep, CacheVars
<1>2. PICK v \in Victims(m.block) : Becomes(processWbRep(P, m.block, v, m.data))
  BY DEF WbRep
<1>3. {"WB_REP"} \cap (Replies \cup Snoops) = {}
  BY DEF Replies, Snoops, Grants
<1> HIDE DEF m, D, P
<1>4. Incoming(n, m, m.type, m.block, m.from) /\ m.type = "WB_REP"
  BY <1>1, <1>3, Comes DEF m
<1>5. Message1(D, P, m, m.block, m.from, "WB_REP") /\ m.block \in Block /\ VictimOK(D, m.block, v)
  BY <1>4 DEF Incoming, D, P
<1>6. CacheT /\ Between(D) /\ m.data \in Data
  BY <1>4 DEF IInv, D, Incoming, Carriers
<1>7. Done(processWbRep(P, m.block, v, m.data), m.block, v)
  BY <1>4, <1>5, <1>6, WbRepHandled
<1> QED
  BY <1>1, <1>2, <1>5, <1>7, HandlerStep

\* The directory handles DRAM_READ_REP.
LEMMA DramReadRepStep ==
  ASSUME IInv, NEW n \in Node, DramReadRep(n)
  PROVE  IInv'
<1> DEFINE m == Head(inbox[n])
           D == DirectoryState(inbox)
           P == DirectoryState(Popped(n))
<1>1. Next_(n, {"DRAM_READ_REP"}) /\ UNCHANGED CacheVars /\ dram' = dram
  BY DEF DramReadRep, CacheVars
<1>2. PICK v \in Victims(m.block) : Becomes(processDRAMReply(P, m.block, v, m.data))
  BY DEF DramReadRep
<1>3. {"DRAM_READ_REP"} \cap (Replies \cup Snoops) = {}
  BY DEF Replies, Snoops, Grants
<1> HIDE DEF m, D, P
<1>4. Incoming(n, m, m.type, m.block, m.from) /\ m.type = "DRAM_READ_REP"
  BY <1>1, <1>3, Comes DEF m
<1>5. Message1(D, P, m, m.block, m.from, "DRAM_READ_REP") /\ m.block \in Block /\ VictimOK(D, m.block, v)
  BY <1>4 DEF Incoming, D, P
<1>6. CacheT /\ Between(D) /\ m.data \in Data
  BY <1>4 DEF IInv, D, Incoming, Carriers
<1>7. Done(processDRAMReply(P, m.block, v, m.data), m.block, v)
  BY <1>4, <1>5, <1>6, DramReplyHandled
<1> QED
  BY <1>1, <1>2, <1>5, <1>7, HandlerStep

-----------------------------------------------------------------------------
(* Steps of a cache, for one block                                         *)

\* What the invariant says of one block, given its entry, requests, messages and
\* caches.
Sound(e, q, box, b, C) ==
  /\ QueueInv(q) /\ Ordered(box, b, C) /\ ForwarderKnown(e, protocol)
  /\ Stable(View(e, q, box, b, C))

\* The same with types.
SoundT(e, q, box, b, C) ==
  Sound(e, q, box, b, C) /\ e \in EntryT /\ q \in Seq(Req) /\ box \in Boxes /\ b \in Block /\ C \in CachesT

\* The messages have changed, but none about b.
Elsewhere(box, box2, b) ==
  /\ box2 \in Boxes
  /\ \A e, q, C : Ordered(box, b, C) => /\ Ordered(box2, b, C)
                                        /\ View(e, q, box2, b, C) = View(e, q, box, b, C)

\* A block no message is about stays sound.
LEMMA ElsewhereSound ==
  ASSUME NEW e, NEW q, NEW box, NEW b, NEW C, SoundT(e, q, box, b, C), NEW box2, Elsewhere(box, box2, b)
  PROVE  SoundT(e, q, box2, b, C)
  BY DEF SoundT, Sound, Elsewhere

\* Two changes that are about other blocks.
LEMMA ElsewhereTwice ==
  ASSUME NEW box, NEW box1, NEW box2, NEW b, Elsewhere(box, box1, b), Elsewhere(box1, box2, b)
  PROVE  Elsewhere(box, box2, b)
  BY DEF Elsewhere

\* A message about another block is sent.
LEMMA PostElsewhere ==
  ASSUME NEW box \in Boxes, NEW N \in SUBSET Node, NEW m \in Message, m \in ToCache \/ N \subseteq {Home},
         NEW b, m.block # b
  PROVE  Elsewhere(box, Post(box, N, m), b)
  BY PostOther, PostType DEF Elsewhere

\* The next message of node k is taken.
Pop(box, k) == [box EXCEPT ![k] = Tail(@)]

\* Views with the same messages are equal.
LEMMA SameView ==
  ASSUME NEW e, NEW q, NEW box, NEW box2, NEW b, NEW C, NEW A, A = View(e, q, box, b, C),
         NEW A2, A2 = View(e, q, box2, b, C),
         \A n \in Node : A2.s[n] = A.s[n] /\ A2.l[n] = A.l[n] /\ A2.f[n] = A.f[n], A2.rd <=> A.rd
  PROVE  A2 = A
<1>1. PerNode(A) /\ PerNode(A2)
  BY ViewPointwise
<1>2. A2.s = A.s /\ A2.l = A.l /\ A2.f = A.f /\ A2.rd = A.rd
  BY <1>1, PointwiseEqual
<1> QED
  BY <1>2 DEF View

\* The next message is taken: the order of messages and the view of a block.
LEMMA PopAll ==
  ASSUME NEW box \in Boxes, NEW k \in Node, box[k] # <<>>, NEW b, NEW C, NEW C2,
         Ordered(box, b, C), NEW m, m = Head(box[k]), Takes(C, C2, k, m, b), NEW e, NEW q,
         NEW box2, box2 = Pop(box, k), NEW A, A = View(e, q, box, b, C), NEW A2, A2 = View(e, q, box2, b, C2)
  PROVE  Ordered(box2, b, C2) /\ TakenAll(A, A2, k, m, b, C.ln[k])
<1>1. box2 = [box EXCEPT ![k] = Tail(@)]
  BY DEF Pop
<1>2. Took(box2, C2, A, A2, k, m, b, C.ln[k])
  BY <1>1, PopView, ZenonT(30)
<1> QED
  BY <1>2 DEF Took

\* A message about another block is taken.
LEMMA PopElsewhere ==
  ASSUME NEW box \in Boxes, NEW k \in Node, box[k] # <<>>, NEW b, Head(box[k]).block # b
  PROVE  Elsewhere(box, Pop(box, k), b)
<1> DEFINE box2 == Pop(box, k)
           m == Head(box[k])
<1>1. box2 \in Boxes /\ box2 = [box EXCEPT ![k] = Tail(@)]
  BY PopType DEF Pop
<1> HIDE DEF box2, m
<1>2. ASSUME NEW e, NEW q, NEW C, Ordered(box, b, C)
      PROVE  Ordered(box2, b, C) /\ View(e, q, box2, b, C) = View(e, q, box, b, C)
  <2> DEFINE A == View(e, q, box, b, C)
             A2 == View(e, q, box2, b, C)
  <2>1. m.block # b
    BY DEF m
  <2>2. Takes(C, C, k, m, b)
    BY <2>1, SameTakes
  <2>3. Ordered(box2, b, C) /\ TakenAll(A, A2, k, m, b, C.ln[k])
    BY <1>2, <2>2, PopAll DEF m, box2
  <2> HIDE DEF A, A2
  <2>4. \A n \in Node : A2.s[n] = A.s[n]
    BY <2>1, <2>3 DEF TakenReply, TakenAll
  <2>5. \A n \in Node : A2.l[n] = A.l[n]
    BY <2>1, <2>3 DEF TakenSnoop, TakenAll
  <2>6. \A n \in Node : A2.f[n] = A.f[n]
    BY <2>1, <2>3 DEF TakenReturn, TakenAll
  <2>7. A2.rd <=> A.rd
    BY <2>1, <2>3 DEF TakenRead, TakenAll
  <2>8. A2 = A
    BY <2>4, <2>5, <2>6, <2>7, SameView DEF A, A2
  <2> QED
    BY <2>3, <2>8 DEF A, A2
<1> QED
  BY <1>1, <1>2 DEF Elsewhere, box2

-----------------------------------------------------------------------------
(* The caches of one node change.                                          *)

\* The caches of other nodes stay.
CacheAt(C, C2, n) ==
  \A m \in Node : m # n => /\ C2.ln[m] = C.ln[m] /\ C2.tk[m] = C.tk[m] /\ C2.hx[m] = C.hx[m]
                           /\ C2.wk[m] = C.wk[m]

\* The views before and after: a line that goes away leaves nothing to find.
LinesMoved(A, A2, n, C, C2) ==
  /\ A2.e = A.e /\ A2.r = A.r /\ A2.a = A.a /\ A2.rd = A.rd /\ A2.s = A.s /\ A2.f = A.f
  /\ \A m \in Node : m # n => A2.l[m] = A.l[m]
  /\ (C.ln[n] = "INVALID" <=> C2.ln[n] = "INVALID") => A2.l[n] = A.l[n]
  /\ C.ln[n] # "INVALID" /\ C2.ln[n] = "INVALID" => A2.l[n] = {}
  /\ A.ln = C.ln /\ A.tk = C.tk /\ A.hx = C.hx /\ A.wk = C.wk
  /\ A2.ln = C2.ln /\ A2.tk = C2.tk /\ A2.hx = C2.hx /\ A2.wk = C2.wk

\* A line changes while the messages stay: the view of its block.
LEMMA LinesMove ==
  ASSUME NEW e, NEW q, NEW box, NEW b, NEW C, NEW C2, NEW n \in Node, Ordered(box, b, C), CacheAt(C, C2, n),
         NEW A, A = View(e, q, box, b, C), NEW A2, A2 = View(e, q, box, b, C2),
         \/ C.ln[n] = "INVALID" <=> C2.ln[n] = "INVALID"
         \/ C.ln[n] # "INVALID" /\ C2.ln[n] = "INVALID" /\ ~Granted(A, n)
  PROVE  LinesMoved(A, A2, n, C, C2) /\ Ordered(box, b, C2)
<1>1. /\ A2.e = A.e /\ A2.r = A.r /\ A2.a = A.a /\ A2.rd = A.rd /\ A2.s = A.s /\ A2.f = A.f
      /\ A.ln = C.ln /\ A.tk = C.tk /\ A.hx = C.hx /\ A.wk = C.wk
      /\ A2.ln = C2.ln /\ A2.tk = C2.tk /\ A2.hx = C2.hx /\ A2.wk = C2.wk
  BY DEF View
<1>2. \A m \in Node : /\ A.l[m] = LiveIn(box[m], C.ln[m], b) /\ A2.l[m] = LiveIn(box[m], C2.ln[m], b)
                      /\ A.s[m] = RepliesIn(box[m], b)
  BY DEF View
<1>3. ReadOrder(box[Home], b) /\ \A m \in Node : CacheOrder(box[m], C.ln[m], b) /\ HomeOrder(box[Home], m, b)
  BY DEF Ordered
<1>4. \A m \in Node : m # n => C2.ln[m] = C.ln[m]
  BY DEF CacheAt
<1>5. CASE C.ln[n] = "INVALID" <=> C2.ln[n] = "INVALID"
  <2>1. LiveIn(box[n], C2.ln[n], b) = LiveIn(box[n], C.ln[n], b) /\ CacheOrder(box[n], C2.ln[n], b)
    <3>1. CASE C.ln[n] = "INVALID"
      BY <1>3, <1>5, <3>1
    <3>2. CASE C.ln[n] # "INVALID"
      BY <1>3, <1>5, <3>2, LineStays
    <3> QED
      BY <3>1, <3>2
  <2>2. \A m \in Node : CacheOrder(box[m], C2.ln[m], b)
    BY <1>3, <1>4, <2>1
  <2>3. Ordered(box, b, C2)
    BY <1>3, <2>2 DEF Ordered
  <2>4. \A m \in Node : A2.l[m] = A.l[m]
    BY <1>2, <1>4, <2>1
  <2> QED
    BY <1>1, <1>5, <2>3, <2>4 DEF LinesMoved
<1>6. CASE C.ln[n] # "INVALID" /\ C2.ln[n] = "INVALID" /\ ~Granted(A, n)
  <2>1. RepliesIn(box[n], b) \cap Grants = {}
    BY <1>2, <1>6 DEF Granted, Grants
  <2>2. CacheOrder(box[n], "INVALID", b) /\ LiveIn(box[n], "INVALID", b) = {}
    BY <1>3, <1>6, <2>1, LineGone
  <2>3. \A m \in Node : CacheOrder(box[m], C2.ln[m], b)
    BY <1>3, <1>4, <1>6, <2>2
  <2>4. Ordered(box, b, C2)
    BY <1>3, <2>3 DEF Ordered
  <2>5. A2.l[n] = {} /\ \A m \in Node : m # n => A2.l[m] = A.l[m]
    BY <1>2, <1>4, <1>6, <2>2
  <2> QED
    BY <1>1, <1>6, <2>4, <2>5 DEF LinesMoved
<1> QED
  BY <1>5, <1>6

-----------------------------------------------------------------------------
(* Steps of the cache of node n, for the block b they are about.           *)

\* What is known of a sound block.
LEMMA SoundFacts ==
  ASSUME NEW e, NEW q, NEW box, NEW b, NEW C, SoundT(e, q, box, b, C), NEW A, A = View(e, q, box, b, C)
  PROVE  /\ Stable(A) /\ A \in AbsT /\ Ordered(box, b, C) /\ box \in Boxes /\ b \in Block /\ C \in CachesT
         /\ A.ln = C.ln /\ A.tk = C.tk /\ A.hx = C.hx /\ A.wk = C.wk /\ A.e = e
         /\ QueueInv(q) /\ ForwarderKnown(e, protocol) /\ e \in EntryT /\ q \in Seq(Req)
<1>1. Stable(A) /\ Ordered(box, b, C) /\ box \in Boxes /\ b \in Block /\ C \in CachesT /\ e \in EntryT
      /\ q \in Seq(Req) /\ QueueInv(q) /\ ForwarderKnown(e, protocol)
  BY DEF SoundT, Sound
<1>2. A \in AbsT
  BY <1>1, ViewType
<1>3. A.ln = C.ln /\ A.tk = C.tk /\ A.hx = C.hx /\ A.wk = C.wk /\ A.e = e
  BY DEF View
<1> QED
  BY <1>1, <1>2, <1>3

\* What it takes for a block to be sound.
LEMMA SoundAgain ==
  ASSUME NEW e \in EntryT, NEW q \in Seq(Req), NEW box \in Boxes, NEW b \in Block, NEW C \in CachesT,
         QueueInv(q), ForwarderKnown(e, protocol), Ordered(box, b, C), Stable(View(e, q, box, b, C))
  PROVE  SoundT(e, q, box, b, C)
  BY DEF SoundT, Sound

\* Nothing but the waiters, or a store.
LEMMA MoveStep ==
  ASSUME NEW e, NEW q, NEW box, NEW b, NEW C, SoundT(e, q, box, b, C), NEW n \in Node, NEW C2 \in CachesT,
         CacheAt(C, C2, n), C2.tk[n] = C.tk[n], C.tk[n] => C2.hx[n] = C.hx[n],
         \/ C2.ln[n] = C.ln[n] /\ (C.wk[n] => C2.wk[n])
         \/ C.ln[n] \in Owned /\ C2.ln[n] = "MODIFIED"
  PROVE  SoundT(e, q, box, b, C2)
<1> DEFINE A == View(e, q, box, b, C)
           A2 == View(e, q, box, b, C2)
<1>1. /\ Stable(A) /\ A \in AbsT /\ Ordered(box, b, C) /\ box \in Boxes /\ b \in Block /\ C \in CachesT
      /\ QueueInv(q) /\ ForwarderKnown(e, protocol) /\ e \in EntryT /\ q \in Seq(Req)
  BY SoundFacts
<1>2. C.ln[n] = "INVALID" <=> C2.ln[n] = "INVALID"
  BY DEF Owned
<1>3. LinesMoved(A, A2, n, C, C2) /\ Ordered(box, b, C2)
  BY <1>1, <1>2, LinesMove
<1>4. A2 \in AbsT
  BY <1>1, ViewType
<1> HIDE DEF A, A2
<1>5. OnlyAt(A, A2, n)
  BY <1>3 DEF OnlyAt, LinesMoved, CacheAt
<1>6. /\ A2.s[n] = A.s[n] /\ A2.l[n] = A.l[n] /\ A2.f[n] = A.f[n] /\ A2.tk[n] = A.tk[n]
      /\ A.tk[n] => A2.hx[n] = A.hx[n]
      /\ \/ A2.ln[n] = A.ln[n] /\ (A.wk[n] => A2.wk[n])
         \/ A.ln[n] \in Owned /\ A2.ln[n] = "MODIFIED"
  BY <1>2, <1>3 DEF LinesMoved
<1>7. Stable(A2)
  BY <1>1, <1>4, <1>5, <1>6, WaitersMove
<1> QED
  BY <1>1, <1>3, <1>7, SoundAgain DEF A2

-----------------------------------------------------------------------------
(* Node n sends a message of type t about b to the directory.              *)

\* The message is under way to the directory.
Sent(A, A2, n, t) ==
  /\ A2.e = A.e /\ A2.r = A.r /\ A2.a = A.a /\ A2.rd = A.rd /\ A2.s = A.s /\ A2.l = A.l
  /\ A2.ln = A.ln /\ A2.tk = A.tk /\ A2.hx = A.hx /\ A2.wk = A.wk
  /\ A2.f[n] = A.f[n] \cup {t} /\ \A k \in Node : k # n => A2.f[k] = A.f[k]

\* No message is under way that it could overtake or double.
MaySend(A, n, t) ==
  /\ t \in Drops => A.f[n] \cap (Drops \cup {"EX_REQ", "SH_REQ"}) = {}
  /\ t = "WB_REP" => A.f[n] \cap (Drops \cup {"WB_REP"}) = {}
  /\ t \in Requests => A.f[n] \cap Requests = {}

\* Both, for the inboxes.
SentHome(box2, b, C, A, A2, n, t, m) ==
  /\ box2 \in Boxes /\ Ordered(box2, b, C) /\ Sent(A, A2, n, t)
  /\ m \in Message /\ m.block = b

\* A message of n to the directory: the view of its block.
LEMMA SendHome ==
  ASSUME NEW e, NEW q, NEW box \in Boxes, NEW b \in Block, NEW C, Ordered(box, b, C), NEW n \in Node,
         NEW t \in Returns, NEW data \in Data \cup {"none"}, t \in Carriers => data \in Data,
         NEW m, m = ShmemMsg(t, b, n, data), NEW box2, box2 = Post(box, {Home}, m),
         NEW A, A = View(e, q, box, b, C), NEW A2, A2 = View(e, q, box2, b, C), MaySend(A, n, t)
  PROVE  SentHome(box2, b, C, A, A2, n, t, m)
<1>1. /\ t \in MessageTypes /\ t \notin Snoops /\ t \notin Replies /\ t \notin Reads /\ t # "UPGRADE_REP"
  BY ReturnKinds
<1>2. m \in Message /\ m.type = t /\ m.block = b /\ m.from = n
  BY <1>1, MessageType
<1>3. Home \in Node
  BY DirectoryAssumption
<1>4. box2 \in Boxes
  BY <1>2, PostType
<1>5. Posted(A, A2, {Home}, m, b)
  BY <1>2, PostView
<1>6. PerNode(A) /\ PerNode(A2)
  BY ViewPointwise
<1>7. MayPost(A, {Home}, m, b)
  BY <1>1, <1>2 DEF MayPost, MaySend
<1>8. Ordered(box2, b, C)
  BY <1>2, <1>3, <1>7, PostOrder
<1>9. ASSUME NEW k \in Node
      PROVE  /\ A2.s[k] = A.s[k] /\ A2.l[k] = A.l[k]
             /\ k # n => A2.f[k] = A.f[k]
             /\ k = n => A2.f[k] = A.f[k] \cup {t}
  <2>1. /\ A2.s[k] = A.s[k] \cup (IF k \in {Home} /\ m.block = b /\ m.type \in Replies THEN {m.type} ELSE {})
        /\ A2.l[k] = A.l[k] \cup (IF k \in {Home} /\ m.block = b /\ m.type \in Snoops /\ Reachable(A, k)
                                   THEN {m.type} ELSE {})
        /\ A2.f[k] = A.f[k] \cup (IF Home \in {Home} /\ m.block = b /\ m.from = k /\ m.type \in Returns
                                   THEN {m.type} ELSE {})
    BY <1>5 DEF Posted
  <2> QED
    BY <1>1, <1>2, <2>1
<1>10. A2.s = A.s /\ A2.l = A.l
  BY <1>6, <1>9, PointwiseEqual, SMTT(60)
<1>11. A2.rd <=> A.rd
  BY <1>1, <1>2, <1>5 DEF Posted
<1>12. A2.rd = A.rd
  BY <1>6, <1>11, PointwiseEqual
<1>13. Sent(A, A2, n, t)
  BY <1>5, <1>9, <1>10, <1>12 DEF Sent, Posted
<1> QED
  BY <1>2, <1>4, <1>8, <1>13 DEF SentHome

-----------------------------------------------------------------------------
\* A request of n is sent.
LEMMA RequestStep ==
  ASSUME NEW e, NEW q, NEW box, NEW b, NEW C, SoundT(e, q, box, b, C), NEW n \in Node, NEW C2 \in CachesT,
         CacheAt(C, C2, n), NEW t \in Requests, ~C.tk[n], C2.tk[n],
         t # "SH_REQ" => C2.hx[n],
         t = "UPGRADE_REQ" => C.ln[n] = "SHARED" /\ C2.ln[n] = "SHARED_UPGRADING",
         t # "UPGRADE_REQ" => C.ln[n] = "INVALID" /\ C2.ln[n] = "INVALID",
         NEW m, m = ShmemMsg(t, b, n, "none"), NEW box2, box2 = Post(box, {Home}, m)
  PROVE  SoundT(e, q, box2, b, C2) /\ m \in Message /\ m.block = b
<1> DEFINE A == View(e, q, box, b, C)
           A1 == View(e, q, box, b, C2)
           A2 == View(e, q, box2, b, C2)
<1>1. /\ Stable(A) /\ A \in AbsT /\ Ordered(box, b, C) /\ box \in Boxes /\ b \in Block /\ C \in CachesT
      /\ QueueInv(q) /\ ForwarderKnown(e, protocol) /\ e \in EntryT /\ q \in Seq(Req)
  BY SoundFacts
<1>2. C.ln[n] = "INVALID" <=> C2.ln[n] = "INVALID"
  OBVIOUS
<1>3. LinesMoved(A, A1, n, C, C2) /\ Ordered(box, b, C2)
  BY <1>1, <1>2, LinesMove
<1>4. t \in Returns /\ t \notin Carriers /\ t \notin Drops /\ t # "WB_REP"
  BY DEF Requests, Returns, Carriers, Drops
<1>5. A2 \in AbsT
  BY <1>1, ViewType
<1> HIDE DEF A, A1, A2
<1>6. Token(A, n) /\ A.f[n] \subseteq Returns
  BY <1>1, CacheFacts
<1>7. A1.f[n] \cap Requests = {}
  BY <1>3, <1>6 DEF Token, Requesting, Requests, LinesMoved
<1>8. MaySend(A1, n, t)
  BY <1>4, <1>7 DEF MaySend
<1>9. SentHome(box2, b, C2, A1, A2, n, t, m)
  BY <1>1, <1>3, <1>4, <1>8, SendHome DEF A1, A2
<1>10. Sent(A1, A2, n, t) /\ box2 \in Boxes /\ Ordered(box2, b, C2) /\ m \in Message /\ m.block = b
  BY <1>9 DEF SentHome
<1>11. /\ A2.e = A.e /\ A2.r = A.r /\ A2.a = A.a /\ A2.ln = C2.ln /\ A2.tk = C2.tk /\ A2.hx = C2.hx
       /\ A2.wk = C2.wk /\ A.ln = C.ln /\ A.tk = C.tk /\ A.hx = C.hx /\ A.wk = C.wk /\ A2.rd = A.rd
       /\ A2.s = A.s /\ A1.f = A.f
  BY <1>3, <1>10 DEF Sent, LinesMoved
<1>12. \A k \in Node : A2.l[k] = A.l[k]
  BY <1>2, <1>3, <1>10 DEF Sent, LinesMoved
<1>13. A2.f[n] = A.f[n] \cup {t} /\ \A k \in Node : k # n => A2.f[k] = A.f[k]
  BY <1>10, <1>11 DEF Sent
<1>14. OnlyAt(A, A2, n)
  BY <1>11, <1>12, <1>13 DEF OnlyAt, CacheAt
<1>15. A2.s[n] = A.s[n] /\ A2.l[n] = A.l[n]
  BY <1>11, <1>12
<1>16. Stable(A2)
  BY <1>1, <1>5, <1>11, <1>13, <1>14, <1>15, RequestSent
<1> QED
  BY <1>1, <1>10, <1>16, SoundAgain DEF A2

-----------------------------------------------------------------------------
(* Node n takes its next message, m, which is about b.                     *)

\* The view may have changed at n, but for messages to the directory.
Nearby(A, A1, n) ==
  /\ A1.e = A.e /\ A1.r = A.r /\ A1.a = A.a /\ A1.rd = A.rd /\ A1.f = A.f
  /\ \A k \in Node : k # n => A1.s[k] = A.s[k] /\ A1.l[k] = A.l[k]

\* m is the next message of n, and about b.
NextIs(box, n, m, b) == n \in Node /\ box \in Boxes /\ box[n] # <<>> /\ m = Head(box[n]) /\ m.block = b

\* Messages to a cache are none to the directory.
LEMMA Elsewise ==
  ASSUME NEW t \in Replies \cup Snoops
  PROVE  t \notin Returns /\ t \notin Reads
  BY DEF Replies, Grants, Snoops, Returns, Requests, Drops, Reads

\* The view once m has been taken.
Near(box1, b, C1, A, A1, n, m, st) ==
  /\ box1 \in Boxes /\ Ordered(box1, b, C1) /\ Nearby(A, A1, n)
  /\ TakenReply(A, A1, n, m, b) /\ TakenSnoop(A, A1, n, m, b, st)

\* Node n takes a message: the view of its block changes at n only.
LEMMA TakeNear ==
  ASSUME NEW e, NEW q, NEW box, NEW b, NEW n, NEW m, NextIs(box, n, m, b), m.type \in Replies \cup Snoops,
         NEW C, NEW C1, Ordered(box, b, C), Takes(C, C1, n, m, b), NEW box1, box1 = Pop(box, n),
         NEW A, A = View(e, q, box, b, C), NEW A1, A1 = View(e, q, box1, b, C1)
  PROVE  Near(box1, b, C1, A, A1, n, m, C.ln[n])
<1>1. n \in Node /\ box \in Boxes /\ box[n] # <<>> /\ m = Head(box[n]) /\ m.block = b
  BY DEF NextIs
<1>2. box1 \in Boxes
  BY <1>1, PopType DEF Pop
<1>3. Ordered(box1, b, C1) /\ TakenAll(A, A1, n, m, b, C.ln[n])
  BY <1>1, PopAll
<1>4. m.type \notin Returns /\ m.type \notin Reads
  BY Elsewise
<1>5. PerNode(A) /\ PerNode(A1)
  BY ViewPointwise
<1>6. TakenReply(A, A1, n, m, b) /\ TakenSnoop(A, A1, n, m, b, C.ln[n]) /\ TakenReturn(A, A1, n, m, b)
      /\ TakenRead(A, A1, n, m, b)
  BY <1>3 DEF TakenAll
<1>7. \A k \in Node : A1.f[k] = A.f[k]
  BY <1>4, <1>6 DEF TakenReturn
<1>8. A1.rd <=> A.rd
  BY <1>4, <1>6 DEF TakenRead
<1>9. A1.f = A.f /\ A1.rd = A.rd
  BY <1>5, <1>7, <1>8, PointwiseEqual
<1>10. \A k \in Node : k # n => A1.s[k] = A.s[k] /\ A1.l[k] = A.l[k]
  BY <1>6 DEF TakenReply, TakenSnoop
<1>11. A1.e = A.e /\ A1.r = A.r /\ A1.a = A.a
  BY DEF View
<1>12. Nearby(A, A1, n)
  BY <1>9, <1>10, <1>11 DEF Nearby
<1> QED
  BY <1>2, <1>3, <1>6, <1>12 DEF Near

\* The block comes in; the first waiter is about to be woken.
LEMMA GrantStep ==
  ASSUME NEW e, NEW q, NEW box, NEW b, NEW C, SoundT(e, q, box, b, C), NEW n, NEW m, NextIs(box, n, m, b),
         m.type \in Grants, NEW C1 \in CachesT, CacheAt(C, C1, n), ~C1.tk[n],
         C1.ln[n] = IF m.type = "EX_REP" THEN "EXCLUSIVE" ELSE "SHARED",
         C.hx[n] => C1.wk[n], NEW box1, box1 = Pop(box, n)
  PROVE  SoundT(e, q, box1, b, C1) /\ C.tk[n] /\ C.ln[n] = "INVALID"
<1> DEFINE A == View(e, q, box, b, C)
           A1 == View(e, q, box1, b, C1)
<1>1. /\ Stable(A) /\ A \in AbsT /\ Ordered(box, b, C) /\ box \in Boxes /\ b \in Block /\ C \in CachesT
      /\ QueueInv(q) /\ ForwarderKnown(e, protocol) /\ e \in EntryT /\ q \in Seq(Req)
      /\ A.ln = C.ln /\ A.tk = C.tk /\ A.hx = C.hx /\ A.wk = C.wk
  BY SoundFacts
<1>2. n \in Node /\ box[n] # <<>> /\ m = Head(box[n]) /\ m.block = b
  BY DEF NextIs
<1>4. m.type \in Replies \cup Snoops /\ m.type \in Replies /\ m.type \notin Snoops
  BY DEF Replies, Grants, Snoops
<1>5. A.s[n] = RepliesIn(box[n], b) /\ A1.ln = C1.ln /\ A1.tk = C1.tk /\ A1.hx = C1.hx /\ A1.wk = C1.wk
  BY <1>2 DEF View
<1>6. One(box[n], Kind(b, Replies)) /\ box[n] \in Seq(Message)
  BY <1>1, <1>2 DEF Ordered, CacheOrder, Boxes
<1>7. m.type \in A.s[n]
  BY <1>2, <1>4, <1>5, <1>6, PopReplies
<1>8. A1 \in AbsT
  BY <1>1, ViewType
<1>9. Present(A, n) /\ Token(A, n)
  BY <1>1, <1>2, CacheFacts
<1>10. Granted(A, n)
  BY <1>7 DEF Granted, Grants
<1>11. C.ln[n] = "INVALID" /\ C.tk[n]
  BY <1>1, <1>7, <1>9, <1>10 DEF Present, Token
<1>12. Takes(C, C1, n, m, b)
  BY <1>2, <1>11 DEF Takes, CacheAt
<1>13. Near(box1, b, C1, A, A1, n, m, C.ln[n])
  BY <1>1, <1>4, <1>12, TakeNear
<1> HIDE DEF A, A1
<1>14. /\ box1 \in Boxes /\ Ordered(box1, b, C1) /\ Nearby(A, A1, n)
       /\ TakenReply(A, A1, n, m, b) /\ TakenSnoop(A, A1, n, m, b, C.ln[n])
  BY <1>13 DEF Near
<1>15. A1.s[n] = {} /\ A1.l[n] = A.l[n] /\ A1.f[n] = A.f[n]
  BY <1>2, <1>4, <1>14 DEF TakenReply, TakenSnoop, Nearby
<1>16. OnlyAt(A, A1, n)
  BY <1>1, <1>5, <1>14 DEF OnlyAt, Nearby, CacheAt
<1>17. Stable(A1)
  <2>1. /\ A1.ln[n] = IF m.type = "EX_REP" THEN "EXCLUSIVE" ELSE "SHARED"
        /\ ~A1.tk[n] /\ (A.hx[n] => A1.wk[n])
    BY <1>1, <1>5
  <2> QED
    BY <1>1, <1>2, <1>7, <1>8, <1>15, <1>16, <2>1, GrantArrives
<1> QED
  BY <1>1, <1>11, <1>14, <1>17, SoundAgain DEF A1

\* The line may be written.
LEMMA UpgradeStep ==
  ASSUME NEW e, NEW q, NEW box, NEW b, NEW C, SoundT(e, q, box, b, C), NEW n, NEW m, NextIs(box, n, m, b),
         m.type = "UPGRADE_REP", NEW C2 \in CachesT, CacheAt(C, C2, n), ~C2.tk[n],
         C2.ln[n] = "MODIFIED", NEW box1, box1 = Pop(box, n)
  PROVE  SoundT(e, q, box1, b, C2) /\ C.tk[n] /\ C.ln[n] = "SHARED_UPGRADING"
<1> DEFINE A == View(e, q, box, b, C)
           A1 == View(e, q, box1, b, C)
           A2 == View(e, q, box1, b, C2)
<1>1. /\ Stable(A) /\ A \in AbsT /\ Ordered(box, b, C) /\ box \in Boxes /\ b \in Block /\ C \in CachesT
      /\ QueueInv(q) /\ ForwarderKnown(e, protocol) /\ e \in EntryT /\ q \in Seq(Req)
      /\ A.ln = C.ln /\ A.tk = C.tk /\ A.hx = C.hx /\ A.wk = C.wk
  BY SoundFacts
<1>2. n \in Node /\ box[n] # <<>> /\ m = Head(box[n]) /\ m.block = b
  BY DEF NextIs
<1>3. m.type \in Replies \cup Snoops /\ m.type \in Replies /\ m.type \notin Snoops /\ m.type \notin Grants
  BY DEF Replies, Grants, Snoops
<1>4. Takes(C, C, n, m, b)
  BY <1>3, SameTakes
<1>5. Near(box1, b, C, A, A1, n, m, C.ln[n])
  BY <1>1, <1>3, <1>4, TakeNear
<1>6. A2 \in AbsT
  BY <1>1, ViewType
<1>7. /\ box1 \in Boxes /\ Ordered(box1, b, C) /\ Nearby(A, A1, n)
      /\ TakenReply(A, A1, n, m, b) /\ TakenSnoop(A, A1, n, m, b, C.ln[n])
  BY <1>5 DEF Near
<1> HIDE DEF A, A1, A2
<1>8. A.s[n] = {"UPGRADE_REP"} /\ A1.s[n] = {} /\ A1.l[n] = A.l[n]
  BY <1>2, <1>3, <1>7 DEF TakenReply, TakenSnoop
<1>9. Lines(A, n) /\ Token(A, n)
  BY <1>1, <1>2, CacheFacts
<1>10. C.ln[n] = "SHARED_UPGRADING" /\ C.tk[n]
  BY <1>1, <1>8, <1>9 DEF Lines, Token
<1>11. LinesMoved(A1, A2, n, C, C2) /\ Ordered(box1, b, C2)
  BY <1>2, <1>7, <1>10, LinesMove DEF A1, A2
<1>12. A2.l[n] = A1.l[n]
  BY <1>10, <1>11 DEF LinesMoved
<1>13. OnlyAt(A, A2, n)
  BY <1>1, <1>7, <1>11 DEF OnlyAt, Nearby, CacheAt, LinesMoved
<1>14. /\ A2.s[n] = {} /\ A2.l[n] = A.l[n] /\ A2.f[n] = A.f[n] /\ ~A2.tk[n] /\ A2.ln[n] = "MODIFIED"
  BY <1>7, <1>8, <1>11, <1>12 DEF Nearby, LinesMoved
<1>15. Stable(A2)
  BY <1>1, <1>2, <1>6, <1>8, <1>13, <1>14, UpgradeArrives
<1> QED
  BY <1>1, <1>7, <1>10, <1>11, <1>15, SoundAgain DEF A2

\* A request of the directory that finds no line is ignored.
LEMMA IgnoreStep ==
  ASSUME NEW e, NEW q, NEW box, NEW b, NEW C, SoundT(e, q, box, b, C), NEW n, NEW m, NextIs(box, n, m, b),
         m.type \in Snoops, C.ln[n] = "INVALID", NEW box1, box1 = Pop(box, n)
  PROVE  SoundT(e, q, box1, b, C)
<1> DEFINE A == View(e, q, box, b, C)
           A1 == View(e, q, box1, b, C)
<1>1. /\ Stable(A) /\ A \in AbsT /\ Ordered(box, b, C) /\ box \in Boxes /\ b \in Block /\ C \in CachesT
      /\ QueueInv(q) /\ ForwarderKnown(e, protocol) /\ e \in EntryT /\ q \in Seq(Req)
  BY SoundFacts
<1>2. n \in Node /\ box[n] # <<>> /\ m = Head(box[n]) /\ m.block = b
  BY DEF NextIs
<1>3. m.type \in Replies \cup Snoops /\ m.type \notin Replies /\ m.type \notin Grants
  BY DEF Replies, Grants, Snoops
<1>4. Takes(C, C, n, m, b)
  BY <1>3, SameTakes
<1>5. Near(box1, b, C, A, A1, n, m, C.ln[n])
  BY <1>1, <1>3, <1>4, TakeNear
<1>6. /\ box1 \in Boxes /\ Ordered(box1, b, C) /\ Nearby(A, A1, n)
      /\ TakenReply(A, A1, n, m, b) /\ TakenSnoop(A, A1, n, m, b, C.ln[n])
  BY <1>5 DEF Near
<1> HIDE DEF A, A1
<1>7. A1.s[n] = A.s[n] /\ A1.l[n] = A.l[n]
  BY <1>3, <1>6 DEF TakenReply, TakenSnoop
<1>8. \A k \in Node : A1.s[k] = A.s[k] /\ A1.l[k] = A.l[k] /\ A1.f[k] = A.f[k]
  BY <1>6, <1>7 DEF Nearby
<1>9. A1.rd <=> A.rd
  BY <1>6 DEF Nearby
<1>10. A1 = A
  BY <1>8, <1>9, SameView DEF A, A1
<1> QED
  BY <1>1, <1>6, <1>10, SoundAgain DEF A1

\* The line of node n is asked for by m.
Snooped(box1, b, C, A, A1, n, m) ==
  /\ box1 \in Boxes /\ Ordered(box1, b, C) /\ Nearby(A, A1, n)
  /\ A1.s[n] = A.s[n] /\ A1.l[n] = {} /\ A.l[n] = {m.type} /\ "UPGRADE_REP" \notin A.s[n]

\* Node n takes a request of the directory, and has the line.
LEMMA SnoopTaken ==
  ASSUME NEW e, NEW q, NEW box, NEW b, NEW C, Ordered(box, b, C), NEW n, NEW m, NextIs(box, n, m, b),
         m.type \in Snoops, C.ln[n] # "INVALID", NEW box1, box1 = Pop(box, n),
         NEW A, A = View(e, q, box, b, C), NEW A1, A1 = View(e, q, box1, b, C)
  PROVE  Snooped(box1, b, C, A, A1, n, m)
<1>1. n \in Node /\ box[n] # <<>> /\ m = Head(box[n]) /\ m.block = b
  BY DEF NextIs
<1>2. m.type \in Replies \cup Snoops /\ m.type \notin Replies /\ m.type \notin Grants
  BY DEF Replies, Grants, Snoops
<1>3. Takes(C, C, n, m, b)
  BY <1>2, SameTakes
<1>4. Near(box1, b, C, A, A1, n, m, C.ln[n])
  BY <1>2, <1>3, TakeNear
<1>5. /\ box1 \in Boxes /\ Ordered(box1, b, C) /\ Nearby(A, A1, n)
      /\ TakenReply(A, A1, n, m, b) /\ TakenSnoop(A, A1, n, m, b, C.ln[n])
  BY <1>4 DEF Near
<1>6. A1.s[n] = A.s[n]
  BY <1>2, <1>5 DEF TakenReply
<1>7. A1.l[n] = {} /\ A.l[n] = {m.type} /\ "UPGRADE_REP" \notin A.s[n]
  BY <1>1, <1>5 DEF TakenSnoop
<1> QED
  BY <1>5, <1>6, <1>7 DEF Snooped

\* The line of node n goes away, with a message of type t.
GoneAt(C, C2, n) ==
  /\ CacheAt(C, C2, n) /\ C2.tk[n] = C.tk[n] /\ C2.hx[n] = C.hx[n] /\ C2.wk[n] = C.wk[n]
  /\ C.ln[n] # "INVALID" /\ C2.ln[n] = "INVALID"

\* The block is sound once the directory has been told by m.
Told(e, q, box2, b, C2, m) == SoundT(e, q, box2, b, C2) /\ m \in Message /\ m.block = b

\* The line is evicted, or has been asked for.
MayGo(A, A1, C, n, t) ==
  /\ Nearby(A, A1, n) /\ A1.s[n] = A.s[n] /\ "UPGRADE_REP" \notin A.s[n]
  /\ \/ /\ C.ln[n] # "SHARED_UPGRADING" /\ ~C.wk[n]
        /\ t = IF C.ln[n] = "MODIFIED" THEN "FLUSH_REP" ELSE "INV_REP"
     \/ "INV_REQ" \in A.l[n] /\ t = "INV_REP"
     \/ "FLUSH_REQ" \in A.l[n] /\ t = "FLUSH_REP"

\* A line is given up and the directory is told: the block stays sound.
LEMMA LineGoes ==
  ASSUME NEW e, NEW q, NEW box, NEW b, NEW C, SoundT(e, q, box, b, C), NEW n \in Node,
         NEW A, A = View(e, q, box, b, C), NEW box1 \in Boxes, Ordered(box1, b, C),
         NEW A1, A1 = View(e, q, box1, b, C), NEW C2 \in CachesT, GoneAt(C, C2, n),
         NEW t \in Drops, NEW data \in Data \cup {"none"}, t \in Carriers => data \in Data, MayGo(A, A1, C, n, t),
         NEW m, m = ShmemMsg(t, b, n, data), NEW box2, box2 = Post(box1, {Home}, m)
  PROVE  Told(e, q, box2, b, C2, m)
<1> DEFINE A2 == View(e, q, box1, b, C2)
           A3 == View(e, q, box2, b, C2)
<1>a. /\ CacheAt(C, C2, n) /\ C2.tk[n] = C.tk[n] /\ C2.hx[n] = C.hx[n] /\ C2.wk[n] = C.wk[n]
      /\ C.ln[n] # "INVALID" /\ C2.ln[n] = "INVALID"
  BY DEF GoneAt
<1>b. /\ Nearby(A, A1, n) /\ A1.s[n] = A.s[n] /\ "UPGRADE_REP" \notin A.s[n]
  BY DEF MayGo
<1>1. /\ Stable(A) /\ A \in AbsT /\ Ordered(box, b, C) /\ box \in Boxes /\ b \in Block /\ C \in CachesT
      /\ QueueInv(q) /\ ForwarderKnown(e, protocol) /\ e \in EntryT /\ q \in Seq(Req)
      /\ A.ln = C.ln /\ A.tk = C.tk /\ A.hx = C.hx /\ A.wk = C.wk
  BY SoundFacts
<1>2. A3 \in AbsT
  BY <1>1, ViewType
<1>3. Present(A, n) /\ Lines(A, n) /\ A.f[n] \subseteq Returns
  BY <1>1, CacheFacts
<1>4. ~Granted(A, n) /\ ~Dropped(A, n) /\ ~Fetching(A, n)
  BY <1>a, <1>1, <1>3 DEF Present, Lines
<1>5. ~Granted(A1, n)
  BY <1>b, <1>4 DEF Granted
<1>6. LinesMoved(A1, A2, n, C, C2) /\ Ordered(box1, b, C2)
  BY <1>a, <1>5, LinesMove
<1> HIDE DEF A2, A3
<1>7. A2.f = A.f
  BY <1>b, <1>6 DEF LinesMoved, Nearby
<1>8. A.f[n] \cap (Drops \cup {"EX_REQ", "SH_REQ"}) = {}
  BY <1>4 DEF Dropped, Fetching, Drops
<1>9. t \notin Requests /\ t # "WB_REP" /\ t \in Returns
  BY DEF Drops, Requests, Returns
<1>10. MaySend(A2, n, t)
  BY <1>7, <1>8, <1>9 DEF MaySend
<1>11. SentHome(box2, b, C2, A2, A3, n, t, m)
  BY <1>1, <1>6, <1>9, <1>10, SendHome DEF A2, A3
<1>12. Sent(A2, A3, n, t) /\ box2 \in Boxes /\ Ordered(box2, b, C2) /\ m \in Message /\ m.block = b
  BY <1>11 DEF SentHome
<1>13. A3.l[n] = {}
  BY <1>a, <1>6, <1>12 DEF Sent, LinesMoved
<1>14. /\ A3.e = A.e /\ A3.r = A.r /\ A3.a = A.a /\ A3.rd = A.rd
       /\ A3.ln = C2.ln /\ A3.tk = C2.tk /\ A3.hx = C2.hx /\ A3.wk = C2.wk /\ A3.s = A1.s /\ A3.l = A2.l
  BY <1>b, <1>6, <1>12 DEF Sent, LinesMoved, Nearby
<1>15. A3.f[n] = A.f[n] \cup {t} /\ \A k \in Node : k # n => A3.f[k] = A.f[k]
  BY <1>7, <1>12 DEF Sent
<1>16. \A k \in Node : k # n => A3.s[k] = A.s[k] /\ A3.l[k] = A.l[k]
  BY <1>b, <1>6, <1>14 DEF Nearby, LinesMoved
<1>17. OnlyAt(A, A3, n)
  BY <1>a, <1>1, <1>14, <1>15, <1>16 DEF OnlyAt, CacheAt
<1>18. /\ A3.s[n] = A.s[n] /\ A3.tk[n] = A.tk[n] /\ A3.hx[n] = A.hx[n] /\ A3.wk[n] = A.wk[n]
       /\ A3.ln[n] = "INVALID" /\ A.ln[n] # "INVALID"
  BY <1>a, <1>b, <1>1, <1>14
<1>19. \/ /\ A.ln[n] # "SHARED_UPGRADING" /\ ~A.wk[n]
          /\ t = IF A.ln[n] = "MODIFIED" THEN "FLUSH_REP" ELSE "INV_REP"
       \/ "INV_REQ" \in A.l[n] /\ t = "INV_REP"
       \/ "FLUSH_REQ" \in A.l[n] /\ t = "FLUSH_REP"
  BY <1>1 DEF MayGo
<1>20. Stable(A3)
  BY <1>b, <1>1, <1>2, <1>13, <1>15, <1>17, <1>18, <1>19, LineDropped
<1> QED
  BY <1>1, <1>12, <1>20, SoundAgain DEF A3, Told

\* A line is evicted.
LEMMA EvictStep ==
  ASSUME NEW e, NEW q, NEW box, NEW b, NEW C, SoundT(e, q, box, b, C), NEW n \in Node,
         NEW C2 \in CachesT, CacheAt(C, C2, n), C2.tk[n] = C.tk[n], C2.hx[n] = C.hx[n], C2.wk[n] = C.wk[n],
         C.ln[n] \notin {"INVALID", "SHARED_UPGRADING"}, C2.ln[n] = "INVALID", ~C.wk[n],
         NEW t, t = IF C.ln[n] = "MODIFIED" THEN "FLUSH_REP" ELSE "INV_REP",
         NEW data \in Data \cup {"none"}, t = "FLUSH_REP" => data \in Data,
         NEW m, m = ShmemMsg(t, b, n, data), NEW box2, box2 = Post(box, {Home}, m)
  PROVE  Told(e, q, box2, b, C2, m)
<1> DEFINE A == View(e, q, box, b, C)
<1>1. Stable(A) /\ Ordered(box, b, C) /\ box \in Boxes /\ A.ln = C.ln
  BY SoundFacts
<1>2. Lines(A, n)
  BY <1>1, CacheFacts
<1> HIDE DEF A
<1>3. "UPGRADE_REP" \notin A.s[n]
  BY <1>1, <1>2 DEF Lines
<1>4. t \in Drops /\ (t \in Carriers => data \in Data)
  BY DEF Drops, Carriers
<1>5. Nearby(A, A, n) /\ A.s[n] = A.s[n]
  BY DEF Nearby
<1>6. /\ C.ln[n] # "INVALID" /\ C.ln[n] # "SHARED_UPGRADING" /\ ~C.wk[n]
      /\ t = IF C.ln[n] = "MODIFIED" THEN "FLUSH_REP" ELSE "INV_REP"
  OBVIOUS
<1>7. MayGo(A, A, C, n, t)
  BY <1>3, <1>5, <1>6 DEF MayGo
<1>8. GoneAt(C, C2, n)
  BY DEF GoneAt
<1> QED
  BY <1>1, <1>4, <1>7, <1>8, LineGoes DEF A

\* The directory has asked for the line.
LEMMA AskedStep ==
  ASSUME NEW e, NEW q, NEW box, NEW b, NEW C, SoundT(e, q, box, b, C), NEW n, NEW m0, NextIs(box, n, m0, b),
         m0.type \in {"INV_REQ", "FLUSH_REQ"}, NEW box1, box1 = Pop(box, n),
         NEW C2 \in CachesT, CacheAt(C, C2, n), C2.tk[n] = C.tk[n], C2.hx[n] = C.hx[n], C2.wk[n] = C.wk[n],
         C.ln[n] # "INVALID", C2.ln[n] = "INVALID",
         NEW t, t = IF m0.type = "INV_REQ" THEN "INV_REP" ELSE "FLUSH_REP",
         NEW data \in Data \cup {"none"}, t = "FLUSH_REP" => data \in Data,
         NEW m, m = ShmemMsg(t, b, n, data), NEW box2, box2 = Post(box1, {Home}, m)
  PROVE  Told(e, q, box2, b, C2, m)
<1> DEFINE A == View(e, q, box, b, C)
           A1 == View(e, q, box1, b, C)
<1>1. Stable(A) /\ Ordered(box, b, C) /\ box \in Boxes /\ A.ln = C.ln
  BY SoundFacts
<1>2. m0.type \in Snoops /\ n \in Node
  BY DEF Snoops, NextIs
<1>3. Snooped(box1, b, C, A, A1, n, m0)
  BY <1>1, <1>2, SnoopTaken
<1> HIDE DEF A, A1
<1>4. /\ box1 \in Boxes /\ Ordered(box1, b, C) /\ Nearby(A, A1, n)
      /\ A1.s[n] = A.s[n] /\ A.l[n] = {m0.type} /\ "UPGRADE_REP" \notin A.s[n]
  BY <1>3 DEF Snooped
<1>5. t \in Drops /\ (t \in Carriers => data \in Data)
  BY DEF Drops, Carriers
<1>6. \/ "INV_REQ" \in A.l[n] /\ t = "INV_REP"
      \/ "FLUSH_REQ" \in A.l[n] /\ t = "FLUSH_REP"
  BY <1>4
<1>7. MayGo(A, A1, C, n, t)
  BY <1>4, <1>6 DEF MayGo
<1>8. GoneAt(C, C2, n)
  BY DEF GoneAt
<1>9. A = View(e, q, box, b, C) /\ A1 = View(e, q, box1, b, C)
  BY DEF A, A1
<1> QED
  BY <1>2, <1>4, <1>5, <1>7, <1>8, <1>9, LineGoes

\* The line is written back.
LEMMA WbStep ==
  ASSUME NEW e, NEW q, NEW box, NEW b, NEW C, SoundT(e, q, box, b, C), NEW n, NEW m0, NextIs(box, n, m0, b),
         m0.type = "WB_REQ", NEW box1, box1 = Pop(box, n),
         NEW C2 \in CachesT, CacheAt(C, C2, n), C2.tk[n] = C.tk[n], C2.hx[n] = C.hx[n], C2.wk[n] = C.wk[n],
         C.ln[n] # "INVALID", C2.ln[n] = IF C.ln[n] = "SHARED_UPGRADING" THEN C.ln[n] ELSE "SHARED",
         NEW data \in Data, NEW m, m = ShmemMsg("WB_REP", b, n, data), NEW box2, box2 = Post(box1, {Home}, m)
  PROVE  Told(e, q, box2, b, C2, m)
<1> DEFINE A == View(e, q, box, b, C)
           A1 == View(e, q, box1, b, C)
           A2 == View(e, q, box1, b, C2)
           A3 == View(e, q, box2, b, C2)
<1>1. /\ Stable(A) /\ A \in AbsT /\ Ordered(box, b, C) /\ box \in Boxes /\ b \in Block /\ C \in CachesT
      /\ QueueInv(q) /\ ForwarderKnown(e, protocol) /\ e \in EntryT /\ q \in Seq(Req)
      /\ A.ln = C.ln /\ A.tk = C.tk /\ A.hx = C.hx /\ A.wk = C.wk
  BY SoundFacts
<1>2. m0.type \in Snoops /\ n \in Node
  BY DEF Snoops, NextIs
<1>3. Snooped(box1, b, C, A, A1, n, m0)
  BY <1>1, <1>2, SnoopTaken
<1>4. /\ box1 \in Boxes /\ Ordered(box1, b, C) /\ Nearby(A, A1, n)
      /\ A1.s[n] = A.s[n] /\ A1.l[n] = {} /\ A.l[n] = {"WB_REQ"} /\ "UPGRADE_REP" \notin A.s[n]
  BY <1>3 DEF Snooped
<1>5. A3 \in AbsT
  BY <1>1, ViewType
<1>6. LinesMoved(A1, A2, n, C, C2) /\ Ordered(box1, b, C2)
  BY <1>2, <1>4, LinesMove
<1> HIDE DEF A, A1, A2, A3
<1>7. /\ Present(A, n) /\ (Idles(A) => QuietN(A, n)) /\ (~Idles(A) => WaitingN(A, n))
  BY <1>1, <1>2, CacheFacts
<1>8. ~Dropped(A, n)
  BY <1>1, <1>7 DEF Present
<1>9. "WB_REP" \notin A.f[n]
  BY <1>4, <1>7 DEF QuietN, WaitingN
<1>10. A2.f = A.f
  BY <1>4, <1>6 DEF LinesMoved, Nearby
<1>11. MaySend(A2, n, "WB_REP")
  BY <1>8, <1>9, <1>10 DEF MaySend, Dropped, Drops, Requests
<1>12. "WB_REP" \in Returns /\ data \in Data \cup {"none"}
  BY DEF Returns
<1>13. SentHome(box2, b, C2, A2, A3, n, "WB_REP", m)
  BY <1>1, <1>2, <1>4, <1>6, <1>11, <1>12, SendHome DEF A2, A3
<1>14. Sent(A2, A3, n, "WB_REP") /\ box2 \in Boxes /\ Ordered(box2, b, C2) /\ m \in Message /\ m.block = b
  BY <1>13 DEF SentHome
<1>15. A3.l[n] = {}
  BY <1>4, <1>6, <1>14 DEF Sent, LinesMoved
<1>16. /\ A3.e = A.e /\ A3.r = A.r /\ A3.a = A.a /\ A3.rd = A.rd
       /\ A3.ln = C2.ln /\ A3.tk = C2.tk /\ A3.hx = C2.hx /\ A3.wk = C2.wk /\ A3.s = A1.s /\ A3.l = A2.l
  BY <1>4, <1>6, <1>14 DEF Sent, LinesMoved, Nearby
<1>17. A3.f[n] = A.f[n] \cup {"WB_REP"} /\ \A k \in Node : k # n => A3.f[k] = A.f[k]
  BY <1>10, <1>14 DEF Sent
<1>18. \A k \in Node : k # n => A3.s[k] = A.s[k] /\ A3.l[k] = A.l[k]
  BY <1>4, <1>6, <1>16 DEF Nearby, LinesMoved
<1>19. OnlyAt(A, A3, n)
  BY <1>1, <1>16, <1>17, <1>18 DEF OnlyAt, CacheAt
<1>20. /\ A3.s[n] = A.s[n] /\ A3.tk[n] = A.tk[n] /\ A3.hx[n] = A.hx[n] /\ A3.wk[n] = A.wk[n]
       /\ A.ln[n] # "INVALID" /\ "WB_REQ" \in A.l[n]
       /\ A3.ln[n] = IF A.ln[n] = "SHARED_UPGRADING" THEN A.ln[n] ELSE "SHARED"
  BY <1>1, <1>4, <1>16
<1>21. Stable(A3)
  BY <1>1, <1>2, <1>4, <1>5, <1>15, <1>17, <1>19, <1>20, LineWrittenBack
<1> QED
  BY <1>1, <1>14, <1>21, SoundAgain DEF A3, Told

-----------------------------------------------------------------------------
(* The DRAM controller.                                                    *)

\* Data is written.
LEMMA DramWriteStep ==
  ASSUME NEW e, NEW q, NEW box, NEW b, NEW C, SoundT(e, q, box, b, C), NEW n, NEW m, NextIs(box, n, m, b),
         m.type = "DRAM_WRITE_REQ", NEW box1, box1 = Pop(box, n)
  PROVE  SoundT(e, q, box1, b, C)
<1> DEFINE A == View(e, q, box, b, C)
           A1 == View(e, q, box1, b, C)
<1>1. /\ Stable(A) /\ A \in AbsT /\ Ordered(box, b, C) /\ box \in Boxes /\ b \in Block /\ C \in CachesT
      /\ QueueInv(q) /\ ForwarderKnown(e, protocol) /\ e \in EntryT /\ q \in Seq(Req)
  BY SoundFacts
<1>2. n \in Node /\ box[n] # <<>> /\ m = Head(box[n]) /\ m.block = b
  BY DEF NextIs
<1>3. m.type \notin Replies /\ m.type \notin Grants /\ m.type \notin Snoops /\ m.type \notin Returns /\ m.type \notin Reads
  BY DEF Replies, Grants, Snoops, Returns, Requests, Drops, Reads
<1>4. Takes(C, C, n, m, b)
  BY <1>3, SameTakes
<1>5. Ordered(box1, b, C) /\ TakenAll(A, A1, n, m, b, C.ln[n])
  BY <1>1, <1>2, <1>4, PopAll
<1>6. box1 \in Boxes
  BY <1>1, <1>2, PopType DEF Pop
<1> HIDE DEF A, A1
<1>7. \A k \in Node : A1.s[k] = A.s[k]
  BY <1>3, <1>5 DEF TakenReply, TakenAll
<1>8. \A k \in Node : A1.l[k] = A.l[k]
  BY <1>3, <1>5 DEF TakenSnoop, TakenAll
<1>9. \A k \in Node : A1.f[k] = A.f[k]
  BY <1>3, <1>5 DEF TakenReturn, TakenAll
<1>10. A1.rd <=> A.rd
  BY <1>3, <1>5 DEF TakenRead, TakenAll
<1>11. A1 = A
  BY <1>7, <1>8, <1>9, <1>10, SameView DEF A, A1
<1> QED
  BY <1>1, <1>5, <1>6, <1>11, SoundAgain DEF A1

\* Data is read and sent.
LEMMA DramReadStep ==
  ASSUME NEW e, NEW q, NEW box, NEW b, NEW C, SoundT(e, q, box, b, C), NEW n, NEW m0, NextIs(box, n, m0, b),
         m0.type = "DRAM_READ_REQ", NEW box1, box1 = Pop(box, n), NEW data \in Data,
         NEW m, m = ShmemMsg("DRAM_READ_REP", b, n, data), NEW box2, box2 = Post(box1, {Home}, m)
  PROVE  Told(e, q, box2, b, C, m)
<1> DEFINE A == View(e, q, box, b, C)
           A1 == View(e, q, box1, b, C)
           A2 == View(e, q, box2, b, C)
<1>1. /\ Stable(A) /\ A \in AbsT /\ Ordered(box, b, C) /\ box \in Boxes /\ b \in Block /\ C \in CachesT
      /\ QueueInv(q) /\ ForwarderKnown(e, protocol) /\ e \in EntryT /\ q \in Seq(Req)
  BY SoundFacts
<1>2. n \in Node /\ box[n] # <<>> /\ m0 = Head(box[n]) /\ m0.block = b
  BY DEF NextIs
<1>3. /\ m0.type \notin Replies /\ m0.type \notin Grants /\ m0.type \notin Snoops /\ m0.type \notin Returns
      /\ m0.type \in Reads
  BY DEF Replies, Grants, Snoops, Returns, Requests, Drops, Reads
<1>4. Takes(C, C, n, m0, b)
  BY <1>3, SameTakes
<1>5. Ordered(box1, b, C) /\ TakenAll(A, A1, n, m0, b, C.ln[n])
  BY <1>1, <1>2, <1>4, PopAll
<1>6. box1 \in Boxes /\ n = Home
  BY <1>1, <1>2, <1>3, PopType DEF Pop
<1>7. "DRAM_READ_REP" \in MessageTypes /\ data \in Data \cup {"none"}
  BY DEF MessageTypes, Reads
<1>8. m \in Message /\ m.type = "DRAM_READ_REP" /\ m.block = b
  BY <1>1, <1>2, <1>7, MessageType
<1>9. /\ m.type \notin Replies /\ m.type \notin Snoops /\ m.type \notin Returns /\ m.type \notin Drops
      /\ m.type \notin Requests /\ m.type # "UPGRADE_REP" /\ m.type # "WB_REP" /\ m.type \in Reads
  BY <1>8 DEF Replies, Grants, Snoops, Returns, Requests, Drops, Reads
<1>10. Posted(A1, A2, {Home}, m, b) /\ box2 \in Boxes
  BY <1>6, <1>8, PostView, PostType
<1> HIDE DEF A, A1, A2
<1>11. A.rd /\ ~A1.rd
  BY <1>2, <1>3, <1>5, <1>6 DEF TakenRead, TakenAll
<1>12. MayPost(A1, {Home}, m, b)
  BY <1>9, <1>11 DEF MayPost
<1>13. Ordered(box2, b, C)
  BY <1>2, <1>5, <1>6, <1>8, <1>12, PostOrder DEF A1
<1>14. \A k \in Node : A2.s[k] = A1.s[k] /\ A2.l[k] = A1.l[k] /\ A2.f[k] = A1.f[k]
  BY <1>9, <1>10 DEF Posted
<1>15. A2.rd
  BY <1>8, <1>9, <1>10 DEF Posted
<1>16. \A k \in Node : A1.s[k] = A.s[k]
  BY <1>3, <1>5 DEF TakenReply, TakenAll
<1>17. \A k \in Node : A1.l[k] = A.l[k]
  BY <1>3, <1>5 DEF TakenSnoop, TakenAll
<1>18. \A k \in Node : A1.f[k] = A.f[k]
  BY <1>3, <1>5 DEF TakenReturn, TakenAll
<1>19. \A k \in Node : A2.s[k] = A.s[k] /\ A2.l[k] = A.l[k] /\ A2.f[k] = A.f[k]
  BY <1>14, <1>16, <1>17, <1>18
<1>20. A2.rd <=> A.rd
  BY <1>11, <1>15
<1>v. A = View(e, q, box, b, C) /\ A2 = View(e, q, box2, b, C)
  BY DEF A, A2
<1>21. A2 = A
  BY <1>v, <1>19, <1>20, SameView, SMTT(60)
<1> QED
  BY <1>1, <1>8, <1>10, <1>13, <1>21, SoundAgain DEF A2, Told

-----------------------------------------------------------------------------
(* Only data changes.                                                      *)

\* Only the data of messages has changed.
LEMMA AlikeBoxes ==
  ASSUME NEW e, NEW q, NEW box, NEW b, NEW C, SoundT(e, q, box, b, C), NEW box2 \in Boxes,
         \A n \in Node : Alike(box[n], box2[n])
  PROVE  SoundT(e, q, box2, b, C)
<1> DEFINE A == View(e, q, box, b, C)
           A1 == View(e, q, box2, b, C)
<1>1. /\ Stable(A) /\ A \in AbsT /\ Ordered(box, b, C) /\ box \in Boxes /\ b \in Block /\ C \in CachesT
      /\ QueueInv(q) /\ ForwarderKnown(e, protocol) /\ e \in EntryT /\ q \in Seq(Req)
  BY SoundFacts
<1>2. Alike(box[Home], box2[Home])
  BY DirectoryAssumption
<1>3. /\ ReadIn(box2[Home], b) <=> ReadIn(box[Home], b)
      /\ ReadOrder(box2[Home], b) <=> ReadOrder(box[Home], b)
  BY <1>2, AlikeSame
<1>4. ASSUME NEW n \in Node
      PROVE  /\ RepliesIn(box2[n], b) = RepliesIn(box[n], b)
             /\ LiveIn(box2[n], C.ln[n], b) = LiveIn(box[n], C.ln[n], b)
             /\ CacheOrder(box2[n], C.ln[n], b) <=> CacheOrder(box[n], C.ln[n], b)
  BY AlikeSame
<1>5. ASSUME NEW n \in Node
      PROVE  /\ ReturnsIn(box2[Home], n, b) = ReturnsIn(box[Home], n, b)
             /\ HomeOrder(box2[Home], n, b) <=> HomeOrder(box[Home], n, b)
  BY <1>2, AlikeSame
<1>6. Ordered(box2, b, C)
  BY <1>1, <1>3, <1>4, <1>5 DEF Ordered
<1>7. \A n \in Node : A1.s[n] = A.s[n] /\ A1.l[n] = A.l[n] /\ A1.f[n] = A.f[n]
  BY <1>4, <1>5 DEF View
<1>8. A1.rd <=> A.rd
  BY <1>3 DEF View
<1>9. A1 = A
  BY <1>7, <1>8, SameView
<1> QED
  BY <1>1, <1>6, <1>9, SoundAgain

\* Only the data of the requests.
LEMMA AlikeQueues ==
  ASSUME NEW e, NEW q, NEW box, NEW b, NEW C, SoundT(e, q, box, b, C), NEW q2 \in Seq(Req), Len(q2) = Len(q),
         \A k \in 1..Len(q) : /\ q2[k].type = q[k].type /\ q2[k].node = q[k].node /\ q2[k].wait = q[k].wait
                              /\ q2[k].forwardingFrom = q[k].forwardingFrom
                              /\ q[k].data = "none" => q2[k].data = "none"
  PROVE  SoundT(e, q2, box, b, C) /\ HeadOf(q2) = HeadOf(q) /\ (q2 = <<>> <=> q = <<>>)
<1> DEFINE A == View(e, q, box, b, C)
           A1 == View(e, q2, box, b, C)
<1>1. /\ Stable(A) /\ A \in AbsT /\ Ordered(box, b, C) /\ box \in Boxes /\ b \in Block /\ C \in CachesT
      /\ QueueInv(q) /\ ForwarderKnown(e, protocol) /\ e \in EntryT /\ q \in Seq(Req)
  BY SoundFacts
<1>2. QueueInv(q2)
  BY <1>1 DEF QueueInv
<1>3. q2 = <<>> <=> q = <<>>
  BY <1>1
<1>4. q # <<>> => Head(q) = q[1] /\ Head(q2) = q2[1] /\ 1 \in 1..Len(q)
  BY <1>1, <1>3
<1>5. HeadOf(q2) = HeadOf(q)
  BY <1>3, <1>4 DEF HeadOf
<1>6. \A n : AskedIn(q2, n) = AskedIn(q, n)
  BY DEF AskedIn
<1>7. A1 = A
  BY <1>5, <1>6 DEF View
<1> QED
  BY <1>1, <1>2, <1>3, <1>5, <1>7, SoundAgain

-----------------------------------------------------------------------------
(* Actions of the LLC and the DRAM controller                              *)

\* What the invariant says of a block.
LEMMA BlockSound ==
  ASSUME IInv, NEW x \in Block
  PROVE  SoundT(dir[x], reqs[x], inbox, x, Caches(x))
<1> DEFINE D == DirectoryState(inbox)
<1>1. D.dir = dir /\ D.reqs = reqs /\ D.inbox = inbox
  BY StateFields
<1>2. D \in DirT /\ Settled(D, x) /\ CacheT
  BY DEF IInv, Between
<1> HIDE DEF D
<1>3. inbox \in Boxes /\ dir[x] \in EntryT /\ reqs[x] \in Seq(Req)
  BY <1>1, <1>2, BoxesOf
<1>4. Caches(x) \in CachesT
  BY <1>2, CachesType
<1>5. Sound(dir[x], reqs[x], inbox, x, Caches(x))
  BY <1>1, <1>2 DEF Settled, Kept, DirView, Sound
<1> QED
  BY <1>3, <1>4, <1>5 DEF SoundT

\* Parts of the invariant.
LEMMA InvFacts ==
  ASSUME IInv
  PROVE  /\ CacheT /\ Users /\ inbox \in Boxes /\ dir \in [Block -> EntryT] /\ reqs \in [Block -> Seq(Req)]
         /\ slots \subseteq Block /\ replaced \subseteq Block /\ dram \in [Block -> Data]
         /\ Alloc(DirectoryState(inbox)) /\ EntriesFound(DirectoryState(inbox)) /\ DirectoryState(inbox) \in DirT
<1>1. DirectoryState(inbox) \in DirT /\ Alloc(DirectoryState(inbox)) /\ EntriesFound(DirectoryState(inbox))
  BY DEF IInv, Between
<1>2. inbox \in Boxes /\ dir \in [Block -> EntryT] /\ reqs \in [Block -> Seq(Req)]
         /\ slots \subseteq Block /\ replaced \subseteq Block
  BY <1>1 DEF DirectoryState, DirT
<1> QED
  BY <1>1, <1>2 DEF IInv

\* The directory has the same entries and, but for their data, the same requests.
SameDirectory ==
  /\ protocol' = protocol /\ dir' = dir /\ slots' = slots /\ replaced' = replaced
  /\ reqs' \in [Block -> Seq(Req)]
  /\ \A x \in Block : HeadOf(reqs'[x]) = HeadOf(reqs[x]) /\ (reqs'[x] = <<>> <=> reqs[x] = <<>>)

\* A step of the caches keeps the invariant if it keeps every block sound.
LEMMA LlcStep ==
  ASSUME IInv, SameDirectory, CacheT', Users', inbox' \in Boxes, dram' \in [Block -> Data],
         \A x \in Block : SoundT(dir[x], reqs'[x], inbox', x, (Caches(x))')
  PROVE  IInv'
<1> DEFINE D == DirectoryState(inbox)
<1>e. PICK E : E = [dir |-> dir, reqs |-> reqs', slots |-> slots, replaced |-> replaced, inbox |-> inbox',
                    run |-> FALSE]
  OBVIOUS
<1>1. D.dir = dir /\ D.reqs = reqs /\ D.slots = slots /\ D.replaced = replaced
  BY StateFields
<1>2. Alloc(D) /\ EntriesFound(D) /\ dir \in [Block -> EntryT] /\ slots \subseteq Block /\ replaced \subseteq Block
  BY InvFacts
<1>3. E.dir = D.dir /\ E.slots = D.slots /\ E.replaced = D.replaced /\ E.reqs = reqs' /\ E.inbox = inbox' /\ E.dir = dir
      /\ ~E.run
  BY <1>e, <1>1
<1>4. E \in DirT
  BY <1>e, <1>2 DEF DirT, SameDirectory
<1>5. (DirectoryState(inbox))' = E
  BY <1>e DEF DirectoryState, SameDirectory
<1> HIDE DEF D
<1>6. \A x \in Block : AllocOf(E, x)
  BY <1>1, <1>2, <1>3 DEF Alloc, AllocOf, SameDirectory, HasEntry
<1>7. Alloc(E)
  BY <1>2, <1>3, <1>6 DEF Alloc
<1>8. EntriesFound(E)
  BY <1>1, <1>2, <1>3 DEF EntriesFound, HasEntry, SameDirectory
<1>9. ASSUME NEW x \in Block
      PROVE  Settled(E, x)'
  <2>1. Sound(E.dir[x], E.reqs[x], E.inbox, x, (Caches(x))')
    BY <1>3 DEF SoundT
  <2>2. protocol' = protocol
    BY DEF SameDirectory
  <2> QED
    BY <2>1, <2>2 DEF Settled, Kept, DirView, Sound
<1>10. Between(E)'
  BY <1>3, <1>4, <1>7, <1>8, <1>9 DEF Between
<1> QED
  BY <1>5, <1>10 DEF IInv

-----------------------------------------------------------------------------
(* The caches before and after a step.                                     *)

\* The caches' part of a view before a step.
LEMMA CachesNow ==
  ASSUME NEW b, NEW n \in Node
  PROVE  /\ Caches(b).ln[n] = line[n][b].state /\ Caches(b).tk[n] = Awaited(n, b)
         /\ Caches(b).hx[n] = FirstWrites(n, b) /\ Caches(b).wk[n] = WokenWriter(n, b)
  BY DEF Caches

\* The caches' part of a view after a step.
LEMMA CachesThen ==
  ASSUME NEW b, NEW n \in Node
  PROVE  /\ (Caches(b))'.ln[n] = line'[n][b].state /\ (Caches(b))'.tk[n] = (Awaited(n, b))'
         /\ (Caches(b))'.hx[n] = (FirstWrites(n, b))' /\ (Caches(b))'.wk[n] = (WokenWriter(n, b))'
  BY DEF Caches

\* Its type after a step.
LEMMA CachesTypeThen ==
  ASSUME CacheT', NEW b \in Block
  PROVE  (Caches(b))' \in CachesT
<1>1. \A n \in Node : line'[n][b].state \in States
  BY DEF CacheT, LineT
<1>2. \A n \in Node : (Awaited(n, b))' \in BOOLEAN /\ (WokenWriter(n, b))' \in BOOLEAN
  BY DEF Awaited, WokenWriter
<1>3. ASSUME NEW n \in Node
      PROVE  (FirstWrites(n, b))' \in BOOLEAN
  BY DEF FirstWrites
<1> QED
  BY <1>1, <1>2, <1>3 DEF Caches, CachesT

\* The caches of x as they were.
LEMMA CachesSame ==
  ASSUME NEW x, \A k \in Node : /\ line'[k][x].state = line[k][x].state /\ (Awaited(k, x))' = Awaited(k, x)
                                /\ (FirstWrites(k, x))' = FirstWrites(k, x) /\ (WokenWriter(k, x))' = WokenWriter(k, x)
  PROVE  (Caches(x))' = Caches(x)
  BY DEF Caches

\* No thread of n is about to write.
Unlocked(n) == \A x \in Block : WokenWriter(n, x) = FALSE

\* No thread of an unlocked node has been woken and not yet run.
LEMMA NobodyWoken ==
  ASSUME NEW n, ~Locked(n)
  PROVE  Unlocked(n) /\ \A c \in Core : NodeOf[c] = n => user[c].pc # "woken"
  BY DEF Locked, Unlocked, WokenWriter

\* Only the line of block b in node n changes.
LineSet(n, b, l) ==
  /\ CacheT' /\ Users'
  /\ \A x \in Block : x # b => (Caches(x))' = Caches(x)
  /\ (Caches(b))' \in CachesT /\ CacheAt(Caches(b), (Caches(b))', n)
  /\ (Caches(b))'.tk[n] = Caches(b).tk[n] /\ (Caches(b))'.hx[n] = Caches(b).hx[n]
  /\ (Caches(b))'.wk[n] = Caches(b).wk[n] /\ ~Caches(b).wk[n]
  /\ (Caches(b))'.ln[n] = l.state /\ Caches(b).ln[n] = line[n][b].state

\* Changing one line of a node nobody of which has been woken.
LEMMA LineSetStep ==
  ASSUME CacheT, Users, NEW n \in Node, NEW b \in Block, NEW l \in LineT, UNCHANGED <<waiters, user, serving>>,
         line' = [line EXCEPT ![n][b] = l], serving[n] = NoBlock, ~Locked(n)
  PROVE  LineSet(n, b, l)
<1>1. line \in [Node -> [Block -> LineT]]
  BY DEF CacheT
<1>2. line'[n][b] = l /\ \A k \in Node, x \in Block : k # n \/ x # b => line'[k][x] = line[k][x]
  BY <1>1
<1>3. line' \in [Node -> [Block -> LineT]]
  BY <1>1
<1>4. CacheT'
  BY <1>3 DEF CacheT
<1>5. NoBlock \notin Block /\ NodeOf \in [Core -> Node]
  BY CoreAssumption
<1>6. \A k \in Node, x \in Block : (Served(k, x))'
  BY <1>2, <1>5 DEF Users, Served
<1>7. ASSUME NEW c \in Core
      PROVE  (WokenOK(c))'
  <2>1. WokenOK(c) /\ NodeOf[c] \in Node
    BY <1>5 DEF Users
  <2>2. user[c].pc = "woken" => NodeOf[c] # n
    BY NobodyWoken
  <2> QED
    BY <1>2, <2>1, <2>2 DEF WokenOK
<1>8. \A k \in Node, x \in Block : Sleepers(user, Asleep(k, x), k, x)'
  BY DEF Users, Asleep
<1>9. Users'
  BY <1>6, <1>7, <1>8 DEF Users
<1>10. \A k \in Node, x \in Block : /\ (Awaited(k, x))' = Awaited(k, x) /\ (FirstWrites(k, x))' = FirstWrites(k, x)
                                    /\ (WokenWriter(k, x))' = WokenWriter(k, x)
  BY DEF Awaited, FirstWrites, WokenWriter
<1>11. \A x \in Block : x # b => (Caches(x))' = Caches(x)
  BY <1>2, <1>10, CachesSame
<1>12. (Caches(b))' \in CachesT
  BY <1>4, CachesTypeThen
<1>13. \A k \in Node : /\ (Caches(b))'.tk[k] = Caches(b).tk[k] /\ (Caches(b))'.hx[k] = Caches(b).hx[k]
                       /\ (Caches(b))'.wk[k] = Caches(b).wk[k]
  BY <1>10, CachesNow, CachesThen
<1>14. \A k \in Node : k # n => (Caches(b))'.ln[k] = Caches(b).ln[k]
  BY <1>2, CachesNow, CachesThen
<1>15. (Caches(b))'.ln[n] = l.state /\ Caches(b).ln[n] = line[n][b].state
  BY <1>2, CachesNow, CachesThen
<1>16. ~Caches(b).wk[n]
  BY NobodyWoken, CachesNow DEF Unlocked
<1> QED
  BY <1>4, <1>9, <1>11, <1>12, <1>13, <1>14, <1>15, <1>16 DEF LineSet, CacheAt

\* No cache changes.
LEMMA NoLineStep ==
  ASSUME CacheT, Users, UNCHANGED CacheVars
  PROVE  CacheT' /\ Users' /\ \A x : (Caches(x))' = Caches(x)
<1>1. line' = line /\ waiters' = waiters /\ user' = user /\ serving' = serving
  BY DEF CacheVars
<1>2. CacheT'
  BY <1>1 DEF CacheT
<1>3. Users'
  BY <1>1 DEF Users, Asleep, Served, WokenOK
<1>4. \A x : (Caches(x))' = Caches(x)
  BY <1>1 DEF Caches, Awaited, FirstWrites, WokenWriter
<1> QED
  BY <1>2, <1>3, <1>4

\* The directory does not change.
LEMMA SameRequests ==
  ASSUME IInv, UNCHANGED directory
  PROVE  SameDirectory /\ reqs' = reqs
  BY InvFacts DEF SameDirectory, directory

\* Messages of the LLC are sent to the home node.
LEMMA AppendHome ==
  ASSUME NEW box \in Boxes, NEW m
  PROVE  [box EXCEPT ![Home] = Append(@, m)] = Post(box, {Home}, m)
  BY DEF Post, Boxes

\* The next message of node n, and what taking it leaves alone.
LEMMA NextFacts ==
  ASSUME IInv, NEW n \in Node, NEW T, Next_(n, T), NEW m, m = Head(inbox[n])
  PROVE  /\ serving[n] = NoBlock /\ ~Locked(n) /\ m.type \in T /\ m \in Message /\ m.block \in Block
         /\ NextIs(inbox, n, m, m.block) /\ Popped(n) = Pop(inbox, n) /\ Pop(inbox, n) \in Boxes
         /\ \A x \in Block : x # m.block => Elsewhere(inbox, Pop(inbox, n), x)
<1>1. serving[n] = NoBlock /\ ~Locked(n) /\ m.type \in T /\ inbox[n] # <<>>
  BY DEF Next_
<1>2. inbox \in Boxes
  BY InvFacts
<1>3. Popped(n) = Pop(inbox, n)
  BY DEF Popped, Pop
<1>4. m \in Message /\ Pop(inbox, n) \in Boxes
  BY <1>1, <1>2, PopType DEF Pop
<1>5. m.block \in Block
  BY <1>4 DEF Message
<1>6. \A x \in Block : x # m.block => Elsewhere(inbox, Pop(inbox, n), x)
  BY <1>1, <1>2, PopElsewhere
<1> QED
  BY <1>1, <1>2, <1>3, <1>4, <1>5, <1>6 DEF NextIs

-----------------------------------------------------------------------------
(* Requests of the directory to the LLC.                                   *)

\* All blocks but b are as they were, but for messages.
OthersKept(b, box2) ==
  \A x \in Block : x # b => (Caches(x))' = Caches(x) /\ Elsewhere(inbox, box2, x)

\* A step of the caches about block b keeps the invariant if b stays sound.
LEMMA OneBlockStep ==
  ASSUME IInv, UNCHANGED directory, CacheT', Users', dram' \in [Block -> Data], NEW b \in Block,
         NEW box2, inbox' = box2, OthersKept(b, box2), SoundT(dir[b], reqs[b], box2, b, (Caches(b))')
  PROVE  IInv'
<1>1. SameDirectory /\ reqs' = reqs
  BY SameRequests
<1>2. ASSUME NEW x \in Block
      PROVE  SoundT(dir[x], reqs'[x], inbox', x, (Caches(x))')
  <2>1. CASE x = b
    BY <1>1, <2>1
  <2>2. CASE x # b
    <3>1. SoundT(dir[x], reqs[x], inbox, x, Caches(x))
      BY BlockSound
    <3>2. (Caches(x))' = Caches(x) /\ Elsewhere(inbox, box2, x)
      BY <2>2 DEF OthersKept
    <3>3. SoundT(dir[x], reqs[x], box2, x, Caches(x))
      BY <3>1, <3>2, ElsewhereSound
    <3> QED
      BY <1>1, <3>2, <3>3
  <2> QED
    BY <2>1, <2>2
<1>3. inbox' \in Boxes
  BY DEF SoundT
<1> QED
  BY <1>1, <1>2, <1>3, LlcStep

\* The message m0 is taken, and m is sent to the home node: others do not notice.
LEMMA OthersAnswer ==
  ASSUME NEW b, NEW box, NEW box1 \in Boxes, NEW box2, NEW m \in Message, m.block = b, box2 = Post(box1, {Home}, m),
         NEW x, x # b, Elsewhere(box, box1, x)
  PROVE  Elsewhere(box, box2, x)
<1>1. Elsewhere(box1, box2, x)
  BY PostElsewhere, DirectoryAssumption
<1> QED
  BY <1>1, ElsewhereTwice

\* A valid line has data.
LEMMA ValidData ==
  ASSUME CacheT, NEW n \in Node, NEW b \in Block
  PROVE  /\ line[n][b] \in LineT /\ line[n][b].state \in States /\ line[n][b].data \in Data \cup {"none"}
         /\ line[n][b].state # "INVALID" => line[n][b].data \in Data
         /\ Invalid \in LineT /\ Invalid.state = "INVALID"
<1>1. line[n][b] \in LineT
  BY DEF CacheT
<1>2. Invalid \in LineT /\ Invalid.state = "INVALID"
  BY DEF Invalid, Line, LineT, States, Data
<1> QED
  BY <1>1, <1>2 DEF LineT

\* The LLC handles INV_REQ and FLUSH_REQ.
LEMMA InvalidateReqStep ==
  ASSUME IInv, NEW n \in Node, InvalidateReq(n)
  PROVE  IInv'
<1>m. PICK m0 : m0 = Head(inbox[n])
  OBVIOUS
<1>b. PICK b : b = m0.block
  OBVIOUS
<1>d. PICK data : data = IF m0.type = "INV_REQ" THEN "none" ELSE line[n][b].data
  OBVIOUS
<1>t. PICK t : t = IF m0.type = "INV_REQ" THEN "INV_REP" ELSE "FLUSH_REP"
  OBVIOUS
<1>c. PICK C : C = Caches(b)
  OBVIOUS
<1>x. PICK C2 : C2 = (Caches(b))'
  OBVIOUS
<1>p. PICK box1 : box1 = Pop(inbox, n)
  OBVIOUS
<1>1. Next_(n, {"INV_REQ", "FLUSH_REQ"}) /\ UNCHANGED <<waiters, user, serving, directory, dram>>
  BY DEF InvalidateReq
<1>2. /\ line' = [line EXCEPT ![n][b] = Invalid]
      /\ inbox' = IF line[n][b].state = "INVALID" THEN Popped(n) ELSE Answer(n, t, b, data)
  BY <1>m, <1>b, <1>d, <1>t DEF InvalidateReq
<1>3. /\ serving[n] = NoBlock /\ ~Locked(n) /\ m0.type \in {"INV_REQ", "FLUSH_REQ"} /\ b \in Block
      /\ NextIs(inbox, n, m0, b) /\ Popped(n) = box1 /\ box1 \in Boxes
      /\ \A x \in Block : x # b => Elsewhere(inbox, box1, x)
  BY <1>1, <1>m, <1>b, <1>p, NextFacts
<1>4. CacheT /\ Users /\ dram' \in [Block -> Data]
  BY <1>1, InvFacts
<1>5. /\ Invalid \in LineT /\ Invalid.state = "INVALID" /\ line[n][b].data \in Data \cup {"none"}
      /\ line[n][b].state # "INVALID" => line[n][b].data \in Data
  BY <1>3, <1>4, ValidData
<1>6. LineSet(n, b, Invalid)
  BY <1>1, <1>2, <1>3, <1>4, <1>5, LineSetStep
<1>7. /\ CacheT' /\ Users' /\ \A x \in Block : x # b => (Caches(x))' = Caches(x)
  BY <1>6 DEF LineSet
<1>8. /\ C2 \in CachesT /\ CacheAt(C, C2, n) /\ C2.tk[n] = C.tk[n] /\ C2.hx[n] = C.hx[n] /\ C2.wk[n] = C.wk[n]
      /\ C2.ln[n] = "INVALID" /\ C.ln[n] = line[n][b].state
  BY <1>c, <1>x, <1>5, <1>6 DEF LineSet
<1>9. SoundT(dir[b], reqs[b], inbox, b, C)
  BY <1>c, <1>3, BlockSound
<1>10. CASE line[n][b].state = "INVALID"
  <2>1. line' = line
    <3>1. line[n][b] = Invalid
      BY <1>3, <1>4, <1>10 DEF CacheT, LineT, Invalid, Line
    <3> QED
      BY <1>2, <1>3, <1>4, <3>1 DEF CacheT
  <2>2. C2 = C
    BY <1>1, <1>4, <1>c, <1>x, <2>1, NoLineStep DEF CacheVars
  <2>3. m0.type \in Snoops /\ C.ln[n] = "INVALID"
    BY <1>3, <1>8, <1>10 DEF Snoops
  <2>4. SoundT(dir[b], reqs[b], box1, b, C2)
    BY <1>3, <1>9, <1>p, <2>2, <2>3, IgnoreStep
  <2>5. inbox' = box1 /\ OthersKept(b, box1)
    BY <1>2, <1>3, <1>7, <1>10 DEF OthersKept
  <2> QED
    BY <1>1, <1>3, <1>4, <1>7, <1>x, <2>4, <2>5, OneBlockStep
<1>11. CASE line[n][b].state # "INVALID"
  <2>m. PICK m : m = ShmemMsg(t, b, n, data)
    OBVIOUS
  <2>p. PICK box2 : box2 = Post(box1, {Home}, m)
    OBVIOUS
  <2>1. inbox' = box2
    BY <1>2, <1>3, <1>11, <2>m, <2>p, AppendHome DEF Answer
  <2>2. data \in Data \cup {"none"} /\ (t = "FLUSH_REP" => data \in Data)
    BY <1>d, <1>t, <1>5, <1>11
  <2>3. C.ln[n] # "INVALID"
    BY <1>8, <1>11
  <2>4. Told(dir[b], reqs[b], box2, b, C2, m)
    BY <1>3, <1>8, <1>9, <1>p, <1>t, <2>m, <2>p, <2>2, <2>3, AskedStep
  <2>5. SoundT(dir[b], reqs[b], box2, b, C2) /\ m \in Message /\ m.block = b
    BY <2>4 DEF Told
  <2>6. OthersKept(b, box2)
    BY <1>3, <1>7, <2>p, <2>5, OthersAnswer DEF OthersKept
  <2> QED
    BY <1>1, <1>3, <1>4, <1>7, <1>x, <2>1, <2>5, <2>6, OneBlockStep
<1> QED
  BY <1>10, <1>11

\* The LLC handles WB_REQ.
LEMMA WbReqStep ==
  ASSUME IInv, NEW n \in Node, WbReq(n)
  PROVE  IInv'
<1>m. PICK m0 : m0 = Head(inbox[n])
  OBVIOUS
<1>b. PICK b : b = m0.block
  OBVIOUS
<1>c. PICK C : C = Caches(b)
  OBVIOUS
<1>x. PICK C2 : C2 = (Caches(b))'
  OBVIOUS
<1>p. PICK box1 : box1 = Pop(inbox, n)
  OBVIOUS
<1>1. Next_(n, {"WB_REQ"}) /\ UNCHANGED <<waiters, user, serving, directory, dram>>
  BY DEF WbReq
<1>2. \/ line[n][b].state = "INVALID" /\ inbox' = Popped(n) /\ line' = line
      \/ Readable(line[n][b].state) /\ inbox' = Answer(n, "WB_REP", b, line[n][b].data)
         /\ line' = [line EXCEPT ![n][b].state = "SHARED"]
      \/ /\ line[n][b].state = "SHARED_UPGRADING" /\ line' = line
         /\ \E d \in {line[n][b].data, "junk"} : inbox' = Answer(n, "WB_REP", b, d)
  BY <1>m, <1>b DEF WbReq
<1>3. /\ serving[n] = NoBlock /\ ~Locked(n) /\ m0.type \in {"WB_REQ"} /\ b \in Block
      /\ NextIs(inbox, n, m0, b) /\ Popped(n) = box1 /\ box1 \in Boxes
      /\ \A x \in Block : x # b => Elsewhere(inbox, box1, x)
  BY <1>1, <1>m, <1>b, <1>p, NextFacts
<1>4. CacheT /\ Users /\ dram' \in [Block -> Data]
  BY <1>1, InvFacts
<1>5. /\ line[n][b] \in LineT /\ line[n][b].state \in States
      /\ line[n][b].state # "INVALID" => line[n][b].data \in Data
  BY <1>3, <1>4, ValidData
<1>6. SoundT(dir[b], reqs[b], inbox, b, C) /\ C.ln[n] = line[n][b].state
  BY <1>c, <1>3, BlockSound, CachesNow
<1>7. CASE line[n][b].state = "INVALID" /\ inbox' = Popped(n) /\ line' = line
  <2>1. CacheT' /\ Users' /\ \A x : (Caches(x))' = Caches(x)
    BY <1>1, <1>4, <1>7, NoLineStep DEF CacheVars
  <2>2. m0.type \in Snoops /\ C.ln[n] = "INVALID"
    BY <1>3, <1>6, <1>7 DEF Snoops
  <2>3. SoundT(dir[b], reqs[b], box1, b, C2)
    BY <1>3, <1>6, <1>c, <1>x, <1>p, <2>1, <2>2, IgnoreStep
  <2>4. inbox' = box1 /\ OthersKept(b, box1)
    BY <1>3, <1>7, <2>1 DEF OthersKept
  <2> QED
    BY <1>1, <1>3, <1>4, <1>x, <2>1, <2>3, <2>4, OneBlockStep
<1>8. CASE line[n][b].state # "INVALID"
  <2>1. \E d \in Data : inbox' = Answer(n, "WB_REP", b, d)
    BY <1>2, <1>5, <1>8 DEF Data
  <2>d. PICK data \in Data : inbox' = Answer(n, "WB_REP", b, data)
    BY <2>1
  <2>m. PICK m : m = ShmemMsg("WB_REP", b, n, data)
    OBVIOUS
  <2>p. PICK box2 : box2 = Post(box1, {Home}, m)
    OBVIOUS
  <2>2. inbox' = box2
    BY <1>3, <2>d, <2>m, <2>p, AppendHome DEF Answer
  <2>3. \E l \in LineT : /\ line' = [line EXCEPT ![n][b] = l]
                         /\ l.state = IF line[n][b].state = "SHARED_UPGRADING" THEN "SHARED_UPGRADING" ELSE "SHARED"
    <3>1. CASE line[n][b].state = "SHARED_UPGRADING"
      <4>1. line' = line
        BY <1>2, <3>1 DEF Readable
      <4>2. line' = [line EXCEPT ![n][b] = line[n][b]]
        BY <1>3, <1>4, <4>1 DEF CacheT
      <4> QED
        BY <1>5, <3>1, <4>2
    <3>2. CASE line[n][b].state # "SHARED_UPGRADING"
      <4> DEFINE l == [line[n][b] EXCEPT !.state = "SHARED"]
      <4>1. line' = [line EXCEPT ![n][b] = l]
        BY <1>2, <1>8, <3>2
      <4>2. l \in LineT /\ l.state = "SHARED"
        BY <1>5, <1>8 DEF LineT, States, Data
      <4> QED
        BY <3>2, <4>1, <4>2
    <3> QED
      BY <3>1, <3>2
  <2>l. PICK l \in LineT : /\ line' = [line EXCEPT ![n][b] = l]
                           /\ l.state = IF line[n][b].state = "SHARED_UPGRADING" THEN "SHARED_UPGRADING" ELSE "SHARED"
    BY <2>3
  <2>4. LineSet(n, b, l)
    BY <1>1, <1>3, <1>4, <2>l, LineSetStep
  <2>5. /\ CacheT' /\ Users' /\ \A x \in Block : x # b => (Caches(x))' = Caches(x)
    BY <2>4 DEF LineSet
  <2>6. /\ C2 \in CachesT /\ CacheAt(C, C2, n) /\ C2.tk[n] = C.tk[n] /\ C2.hx[n] = C.hx[n] /\ C2.wk[n] = C.wk[n]
        /\ C2.ln[n] = l.state
    BY <1>c, <1>x, <2>4 DEF LineSet
  <2>7. C.ln[n] # "INVALID" /\ C2.ln[n] = IF C.ln[n] = "SHARED_UPGRADING" THEN C.ln[n] ELSE "SHARED"
    BY <1>6, <1>8, <2>l, <2>6
  <2>8. Told(dir[b], reqs[b], box2, b, C2, m)
    BY <1>3, <1>6, <1>p, <2>m, <2>p, <2>6, <2>7, WbStep
  <2>9. SoundT(dir[b], reqs[b], box2, b, C2) /\ m \in Message /\ m.block = b
    BY <2>8 DEF Told
  <2>10. OthersKept(b, box2)
    BY <1>3, <2>5, <2>p, <2>9, OthersAnswer DEF OthersKept
  <2> QED
    BY <1>1, <1>3, <1>4, <1>x, <2>2, <2>5, <2>9, <2>10, OneBlockStep
<1> QED
  BY <1>2, <1>7, <1>8 DEF Readable

-----------------------------------------------------------------------------
\* The DRAM controller handles DRAM_READ_REQ and DRAM_WRITE_REQ.
LEMMA DramReqStep ==
  ASSUME IInv, NEW n \in Node, DramReq(n)
  PROVE  IInv'
<1>m. PICK m0 : m0 = Head(inbox[n])
  OBVIOUS
<1>b. PICK b : b = m0.block
  OBVIOUS
<1>c. PICK C : C = Caches(b)
  OBVIOUS
<1>p. PICK box1 : box1 = Pop(inbox, n)
  OBVIOUS
<1>1. Next_(n, {"DRAM_READ_REQ", "DRAM_WRITE_REQ"}) /\ UNCHANGED CacheVars /\ UNCHANGED directory
  BY DEF DramReq, CacheVars
<1>2. /\ m0.type = "DRAM_READ_REQ" => inbox' = Answer(n, "DRAM_READ_REP", b, dram[b]) /\ dram' = dram
      /\ m0.type # "DRAM_READ_REQ" => inbox' = Popped(n) /\ dram' = [dram EXCEPT ![b] = m0.data]
  BY <1>m, <1>b DEF DramReq
<1>3. /\ m0.type \in {"DRAM_READ_REQ", "DRAM_WRITE_REQ"} /\ b \in Block /\ m0 \in Message
      /\ NextIs(inbox, n, m0, b) /\ Popped(n) = box1 /\ box1 \in Boxes
      /\ \A x \in Block : x # b => Elsewhere(inbox, box1, x)
  BY <1>1, <1>m, <1>b, <1>p, NextFacts
<1>4. CacheT /\ Users /\ dram \in [Block -> Data]
  BY InvFacts
<1>5. CacheT' /\ Users' /\ \A x : (Caches(x))' = Caches(x)
  BY <1>1, <1>4, NoLineStep
<1>6. SoundT(dir[b], reqs[b], inbox, b, C) /\ (Caches(b))' = C
  BY <1>c, <1>3, <1>5, BlockSound
<1>7. CASE m0.type = "DRAM_READ_REQ"
  <2>d. PICK data \in Data : data = dram[b]
    BY <1>3, <1>4
  <2>m. PICK m : m = ShmemMsg("DRAM_READ_REP", b, n, data)
    OBVIOUS
  <2>p. PICK box2 : box2 = Post(box1, {Home}, m)
    OBVIOUS
  <2>1. inbox' = box2 /\ dram' \in [Block -> Data]
    BY <1>2, <1>3, <1>4, <1>7, <2>d, <2>m, <2>p, AppendHome DEF Answer
  <2>2. Told(dir[b], reqs[b], box2, b, C, m)
    BY <1>3, <1>6, <1>7, <1>p, <2>m, <2>p, DramReadStep
  <2>3. SoundT(dir[b], reqs[b], box2, b, (Caches(b))') /\ m \in Message /\ m.block = b
    BY <1>6, <2>2 DEF Told
  <2>4. OthersKept(b, box2)
    BY <1>3, <1>5, <2>p, <2>3, OthersAnswer DEF OthersKept
  <2> QED
    BY <1>1, <1>3, <1>5, <2>1, <2>3, <2>4, OneBlockStep
<1>8. CASE m0.type = "DRAM_WRITE_REQ"
  <2>1. m0.data \in Data
    BY <1>3, <1>8 DEF Message, Carriers
  <2>2. inbox' = box1 /\ dram' \in [Block -> Data]
    BY <1>2, <1>3, <1>4, <1>8, <2>1
  <2>3. SoundT(dir[b], reqs[b], box1, b, (Caches(b))')
    BY <1>3, <1>6, <1>8, <1>p, DramWriteStep
  <2>4. OthersKept(b, box1)
    BY <1>3, <1>5 DEF OthersKept
  <2> QED
    BY <1>1, <1>3, <1>5, <2>2, <2>3, <2>4, OneBlockStep
<1> QED
  BY <1>3, <1>7, <1>8

-----------------------------------------------------------------------------
(* Evictions                                                               *)

\* What the eviction of v from node n sends.
EvictMsg(n, v) ==
  IF line[n][v].state = "MODIFIED" THEN ShmemMsg("FLUSH_REP", v, n, line[n][v].data)
  ELSE ShmemMsg("INV_REP", v, n, "none")

\* The messages after an eviction.
LEMMA EvictedBox ==
  ASSUME NEW n, NEW v \in Block, NEW box \in Boxes
  PROVE  Evicted(n, v, box) = Post(box, {Home}, EvictMsg(n, v))
<1>1. v # NoBlock
  BY CoreAssumption
<1>2. Evicted(n, v, box) = [box EXCEPT ![Home] = Append(@, EvictMsg(n, v))]
  BY <1>1 DEF Evicted, EvictMsg
<1> QED
  BY <1>2, AppendHome

\* The block of an evicted line stays sound.
LEMMA EvictTold ==
  ASSUME IInv, NEW n \in Node, NEW v \in Block, line[n][v].state \notin {"INVALID", "SHARED_UPGRADING"},
         NEW box, SoundT(dir[v], reqs[v], box, v, Caches(v)), NEW C2 \in CachesT, CacheAt(Caches(v), C2, n),
         C2.tk[n] = Caches(v).tk[n], C2.hx[n] = Caches(v).hx[n], C2.wk[n] = Caches(v).wk[n],
         C2.ln[n] = "INVALID", ~Caches(v).wk[n],
         NEW m, m = EvictMsg(n, v), NEW box2, box2 = Post(box, {Home}, m)
  PROVE  Told(dir[v], reqs[v], box2, v, C2, m)
<1>c. PICK C : C = Caches(v)
  OBVIOUS
<1>1. C.ln[n] = line[n][v].state
  BY <1>c, CachesNow
<1>2. line[n][v].data \in Data /\ CacheT
  BY InvFacts, ValidData
<1>t. PICK t : t = IF line[n][v].state = "MODIFIED" THEN "FLUSH_REP" ELSE "INV_REP"
  OBVIOUS
<1>d. PICK data : data = IF line[n][v].state = "MODIFIED" THEN line[n][v].data ELSE "none"
  OBVIOUS
<1>3. m = ShmemMsg(t, v, n, data)
  BY <1>t, <1>d DEF EvictMsg
<1>4. data \in Data \cup {"none"} /\ (t = "FLUSH_REP" => data \in Data)
  BY <1>t, <1>d, <1>2
<1>5. t = IF C.ln[n] = "MODIFIED" THEN "FLUSH_REP" ELSE "INV_REP"
  BY <1>1, <1>t
<1>6. /\ SoundT(dir[v], reqs[v], box, v, C) /\ CacheAt(C, C2, n) /\ C2.tk[n] = C.tk[n] /\ C2.hx[n] = C.hx[n]
      /\ C2.wk[n] = C.wk[n] /\ C.ln[n] \notin {"INVALID", "SHARED_UPGRADING"} /\ ~C.wk[n]
  BY <1>c, <1>1
<1> QED
  BY <1>3, <1>4, <1>5, <1>6, EvictStep

\* The LLC evicts a line for a block outside the model.
LEMMA OtherBlockRepStep ==
  ASSUME IInv, NEW n \in Node, OtherBlockRep(n)
  PROVE  IInv'
<1>1. serving[n] = NoBlock /\ ~Locked(n) /\ UNCHANGED <<waiters, user, serving>> /\ UNCHANGED directory /\ dram' = dram
  BY DEF OtherBlockRep
<1>2. \E v \in Evictable(n, NoBlock) : line' = [line EXCEPT ![n][v] = Invalid] /\ inbox' = Evicted(n, v, inbox)
  BY DEF OtherBlockRep
<1>v. PICK v \in Evictable(n, NoBlock) : line' = [line EXCEPT ![n][v] = Invalid] /\ inbox' = Evicted(n, v, inbox)
  BY <1>2
<1>3. v \in Block /\ line[n][v].state \notin {"INVALID", "SHARED_UPGRADING"}
  BY DEF Evictable
<1>4. CacheT /\ Users /\ dram' \in [Block -> Data] /\ inbox \in Boxes
  BY <1>1, InvFacts
<1>5. Invalid \in LineT /\ Invalid.state = "INVALID"
  BY <1>3, <1>4, ValidData
<1>6. LineSet(n, v, Invalid)
  BY <1>1, <1>3, <1>4, <1>5, <1>v, LineSetStep
<1>7. CacheT' /\ Users' /\ \A x \in Block : x # v => (Caches(x))' = Caches(x)
  BY <1>6 DEF LineSet
<1>m. PICK m : m = EvictMsg(n, v)
  OBVIOUS
<1>p. PICK box2 : box2 = Post(inbox, {Home}, m)
  OBVIOUS
<1>x. PICK C2 : C2 = (Caches(v))'
  OBVIOUS
<1>8. /\ C2 \in CachesT /\ CacheAt(Caches(v), C2, n) /\ C2.tk[n] = Caches(v).tk[n] /\ C2.hx[n] = Caches(v).hx[n]
      /\ C2.wk[n] = Caches(v).wk[n] /\ C2.ln[n] = "INVALID" /\ ~Caches(v).wk[n]
  BY <1>x, <1>5, <1>6 DEF LineSet
<1>9. inbox' = box2
  BY <1>m, <1>p, <1>v, <1>3, <1>4, EvictedBox
<1>10. Told(dir[v], reqs[v], box2, v, C2, m)
  BY <1>3, <1>8, <1>m, <1>p, BlockSound, EvictTold
<1>11. SoundT(dir[v], reqs[v], box2, v, C2) /\ m \in Message /\ m.block = v
  BY <1>10 DEF Told
<1>12. ASSUME NEW x \in Block, x # v
       PROVE  Elsewhere(inbox, box2, x)
  BY <1>4, <1>11, <1>12, <1>p, PostElsewhere, DirectoryAssumption
<1>13. OthersKept(v, box2)
  BY <1>7, <1>12 DEF OthersKept
<1> QED
  BY <1>1, <1>3, <1>4, <1>7, <1>9, <1>11, <1>13, <1>x, OneBlockStep

-----------------------------------------------------------------------------
(* Waking the waiters of block b in node n: ws, with the lines ls.         *)

\* What becomes of them: an upgrade is requested for the first one, it is woken, or
\* nobody is left.
WakeCase(n, b, ws, ls, box, up) ==
  /\ up <=> ws # <<>> /\ Head(ws).excl /\ ls[n][b].state = "SHARED"
  /\ waiters' = [waiters EXCEPT ![n][b] = ws]
  /\ ws = <<>> \/ up => serving' = [serving EXCEPT ![n] = NoBlock] /\ user' = user
  /\ ws # <<>> /\ ~up => /\ serving' = [serving EXCEPT ![n] = b]
                         /\ user' = [user EXCEPT ![Head(ws).core].pc = "woken"]
  /\ up => /\ line' = [ls EXCEPT ![n][b].state = "SHARED_UPGRADING"]
           /\ inbox' = [box EXCEPT ![Home] = Append(@, ShmemMsg("UPGRADE_REQ", b, n, "none"))]
  /\ ~up => line' = ls /\ inbox' = box

\* The cases of wakeUpNetworkThread's loop body.
LEMMA WakeCases ==
  ASSUME NEW n, NEW b, NEW ws, NEW ls, NEW box, Wake(n, b, ws, ls, box)
  PROVE  \E up \in BOOLEAN : WakeCase(n, b, ws, ls, box, up)
<1> DEFINE up == ws # <<>> /\ UpgradesFor(Head(ws), ls[n][b].state)
<1>1. up \in BOOLEAN
  OBVIOUS
<1>2. up <=> ws # <<>> /\ Head(ws).excl /\ ls[n][b].state = "SHARED"
  BY DEF UpgradesFor
<1>3. /\ waiters' = [waiters EXCEPT ![n][b] = ws]
      /\ IF ws = <<>> \/ up
         THEN serving' = [serving EXCEPT ![n] = NoBlock] /\ UNCHANGED user
         ELSE /\ serving' = [serving EXCEPT ![n] = b]
              /\ user' = [user EXCEPT ![Head(ws).core].pc = "woken"]
      /\ line' = IF up THEN [ls EXCEPT ![n][b].state = "SHARED_UPGRADING"] ELSE ls
      /\ inbox' = IF up
                  THEN [box EXCEPT ![Home] = Append(@, ShmemMsg("UPGRADE_REQ", b, n, "none"))]
                  ELSE box
  BY DEF Wake
<1> HIDE DEF up
<1>4. WakeCase(n, b, ws, ls, box, up)
  BY <1>2, <1>3 DEF WakeCase
<1> QED
  BY <1>1, <1>4

\* The network thread of n may look at the waiters of b.
WakeReady(n, b, ws, ls) ==
  /\ n \in Node /\ b \in Block /\ ~Locked(n) /\ serving[n] \in {b, NoBlock} /\ ws = Asleep(n, b)
  /\ ls \in [Node -> [Block -> LineT]] /\ Readable(ls[n][b].state)
  /\ \A k \in Node : k # n => ls[k] = line[k]

\* Those who sleep are a sequence of waiters.
LEMMA AsleepType ==
  ASSUME CacheT, NEW n \in Node, NEW b \in Block, Served(n, b)
  PROVE  Asleep(n, b) \in Seq(Waiter)
<1>1. waiters[n][b] \in Seq(Waiter)
  BY DEF CacheT
<1> QED
  BY <1>1 DEF Asleep, Served

\* The first waiter and the others.
LEMMA WaiterAt ==
  ASSUME NEW ws \in Seq(Waiter), ws # <<>>
  PROVE  /\ Head(ws) = ws[1] /\ 1 \in 1..Len(ws) /\ Head(ws) \in Waiter /\ Head(ws).core \in Core /\ Head(ws).excl \in BOOLEAN
         /\ Tail(ws) \in Seq(Waiter) /\ Len(Tail(ws)) = Len(ws) - 1
         /\ \A i \in 1..Len(Tail(ws)) : Tail(ws)[i] = ws[i + 1] /\ i + 1 \in 1..Len(ws) /\ i + 1 # 1
<1>1. Head(ws) = ws[1] /\ 1 \in 1..Len(ws) /\ ws[1] \in Waiter
  OBVIOUS
<1>2. Head(ws).core \in Core /\ Head(ws).excl \in BOOLEAN
  BY <1>1 DEF Waiter
<1>3. Tail(ws) \in Seq(Waiter) /\ Len(Tail(ws)) = Len(ws) - 1
  OBVIOUS
<1>4. \A i \in 1..Len(Tail(ws)) : Tail(ws)[i] = ws[i + 1] /\ i + 1 \in 1..Len(ws) /\ i + 1 # 1
  BY <1>3
<1> QED
  BY <1>1, <1>2, <1>3, <1>4

\* The first sleeper is woken; the others go on sleeping.
LEMMA TailSleeps ==
  ASSUME NEW u, NEW ws \in Seq(Waiter), ws # <<>>, NEW n, NEW b, Sleepers(u, ws, n, b),
         NEW u2, \A c \in Core : c # Head(ws).core => u2[c] = u[c]
  PROVE  Sleepers(u2, Tail(ws), n, b)
<1>1. /\ Head(ws) = ws[1] /\ 1 \in 1..Len(ws)
      /\ \A i \in 1..Len(Tail(ws)) : Tail(ws)[i] = ws[i + 1] /\ i + 1 \in 1..Len(ws) /\ i + 1 # 1
  BY WaiterAt
<1>w. \A i \in 1..Len(ws) : ws[i] \in Waiter
  OBVIOUS
<1>2. \A i \in 1..Len(ws) : ws[i].core \in Core
  BY <1>w DEF Waiter
<1>3. ASSUME NEW i \in 1..Len(Tail(ws))
      PROVE  SleeperOf(u2, Tail(ws)[i], n, b)
  <2>1. Tail(ws)[i] = ws[i + 1] /\ i + 1 \in 1..Len(ws) /\ i + 1 # 1
    BY <1>1
  <2>2. ws[i + 1].core # Head(ws).core
    BY <1>1, <2>1 DEF Sleepers
  <2>3. u2[ws[i + 1].core] = u[ws[i + 1].core]
    BY <1>2, <2>1, <2>2
  <2>4. SleeperOf(u, ws[i + 1], n, b)
    BY <2>1 DEF Sleepers
  <2> QED
    BY <2>1, <2>3, <2>4 DEF SleeperOf
<1>4. ASSUME NEW i \in 1..Len(Tail(ws)), NEW j \in 1..Len(Tail(ws)), Tail(ws)[i].core = Tail(ws)[j].core
      PROVE  i = j
  <2>1. /\ Tail(ws)[i] = ws[i + 1] /\ i + 1 \in 1..Len(ws)
        /\ Tail(ws)[j] = ws[j + 1] /\ j + 1 \in 1..Len(ws)
    BY <1>1
  <2>2. i + 1 = j + 1
    BY <1>4, <2>1 DEF Sleepers
  <2>3. i \in Int /\ j \in Int
    OBVIOUS
  <2> QED
    BY <2>2, <2>3
<1> QED
  BY <1>3, <1>4 DEF Sleepers

\* Threads that do not sleep there have changed.
LEMMA OthersSleep ==
  ASSUME NEW u, NEW ws \in Seq(Waiter), NEW n, NEW b, Sleepers(u, ws, n, b), NEW c,
         u[c].pc # "wait" \/ u[c].block # b \/ NodeOf[c] # n,
         NEW u2, \A d \in Core : d # c => u2[d] = u[d]
  PROVE  Sleepers(u2, ws, n, b)
<1>1. ASSUME NEW i \in 1..Len(ws)
      PROVE  SleeperOf(u2, ws[i], n, b)
  <2>1. SleeperOf(u, ws[i], n, b)
    BY DEF Sleepers
  <2>2. ws[i].core # c
    BY <2>1 DEF SleeperOf
  <2>w. ws[i] \in Waiter
    OBVIOUS
  <2>3. ws[i].core \in Core
    BY <2>w DEF Waiter
  <2> QED
    BY <2>1, <2>2, <2>3 DEF SleeperOf
<1> QED
  BY <1>1 DEF Sleepers

\* The threads and the waiters after a round.
LEMMA WakeUsers ==
  ASSUME CacheT, Users, NEW n, NEW b, NEW ws, NEW ls, NEW box, NEW up \in BOOLEAN, WakeReady(n, b, ws, ls),
         WakeCase(n, b, ws, ls, box, up)
  PROVE  CacheT' /\ Users'
<1>1. /\ n \in Node /\ b \in Block /\ ~Locked(n) /\ serving[n] \in {b, NoBlock} /\ ws = Asleep(n, b)
      /\ ls \in [Node -> [Block -> LineT]] /\ Readable(ls[n][b].state)
      /\ \A k \in Node : k # n => ls[k] = line[k]
  BY DEF WakeReady
<1>2. /\ waiters \in [Node -> [Block -> Seq(Waiter)]] /\ serving \in [Node -> Block \cup {NoBlock}]
      /\ user \in [Core -> [pc : {"idle", "wait", "woken"}, block : Block \cup {NoBlock}, excl : BOOLEAN]]
  BY DEF CacheT
<1>3. NoBlock \notin Block /\ NodeOf \in [Core -> Node]
  BY CoreAssumption
<1>4. \A k \in Node, x \in Block : Sleepers(user, Asleep(k, x), k, x) /\ Served(k, x)
  BY DEF Users
<1>5. ws \in Seq(Waiter) /\ Sleepers(user, ws, n, b)
  BY <1>1, <1>4, AsleepType
<1>6. \A k \in Node, x \in Block : Asleep(k, x) \in Seq(Waiter)
  BY <1>4, AsleepType
<1>7. /\ waiters' = [waiters EXCEPT ![n][b] = ws]
      /\ up <=> ws # <<>> /\ Head(ws).excl /\ ls[n][b].state = "SHARED"
  BY DEF WakeCase
<1>8. /\ waiters' \in [Node -> [Block -> Seq(Waiter)]] /\ waiters'[n][b] = ws
      /\ \A k \in Node, x \in Block : k # n \/ x # b => waiters'[k][x] = waiters[k][x]
  BY <1>1, <1>2, <1>5, <1>7
<1>9. /\ line' \in [Node -> [Block -> LineT]] /\ \A k \in Node : k # n => line'[k] = line[k]
      /\ ~up => line'[n][b] = ls[n][b]
  <2>1. CASE up
    <3>1. line' = [ls EXCEPT ![n][b].state = "SHARED_UPGRADING"]
      BY <2>1 DEF WakeCase
    <3>2. ls[n][b] \in LineT /\ ls[n][b].state = "SHARED"
      BY <1>1, <1>7, <2>1
    <3>3. [ls[n][b] EXCEPT !.state = "SHARED_UPGRADING"] \in LineT
      BY <3>2 DEF LineT, States
    <3>4. line' = [ls EXCEPT ![n] = [ls[n] EXCEPT ![b] = [ls[n][b] EXCEPT !.state = "SHARED_UPGRADING"]]]
      BY <3>1
    <3> QED
      BY <1>1, <2>1, <3>3, <3>4
  <2>2. CASE ~up
    BY <1>1, <2>2 DEF WakeCase
  <2> QED
    BY <2>1, <2>2
<1>10. CASE ws = <<>> \/ up
  <2>1. serving' = [serving EXCEPT ![n] = NoBlock] /\ user' = user
    BY <1>10 DEF WakeCase
  <2>2. serving' \in [Node -> Block \cup {NoBlock}] /\ serving'[n] = NoBlock
        /\ \A k \in Node : k # n => serving'[k] = serving[k]
    BY <1>1, <1>2, <2>1
  <2>3. CacheT'
    BY <1>2, <1>8, <1>9, <2>1, <2>2 DEF CacheT
  <2>4. ASSUME NEW k \in Node, NEW x \in Block
        PROVE  Sleepers(user, Asleep(k, x), k, x)' /\ (Served(k, x))'
    <3>1. (Asleep(k, x))' = Asleep(k, x)
      <4>1. CASE k # n
        BY <1>8, <2>2, <4>1 DEF Asleep
      <4>2. CASE k = n /\ x # b
        BY <1>1, <1>3, <1>8, <2>2, <4>2 DEF Asleep
      <4>3. CASE k = n /\ x = b
        <5>1. (Asleep(n, b))' = waiters'[n][b]
          BY <1>1, <1>3, <2>2 DEF Asleep
        <5> QED
          BY <1>1, <1>8, <4>3, <5>1
      <4> QED
        BY <4>1, <4>2, <4>3
    <3>2. (Served(k, x))'
      <4>1. CASE k = n
        BY <1>3, <2>2, <4>1 DEF Served
      <4>2. CASE k # n
        BY <1>4, <1>8, <1>9, <2>2, <4>2, ZenonT(60) DEF Served
      <4> QED
        BY <4>1, <4>2
    <3> QED
      BY <1>4, <2>1, <3>1, <3>2
  <2>5. ASSUME NEW c \in Core
        PROVE  (WokenOK(c))'
    <3>1. WokenOK(c) /\ NodeOf[c] \in Node
      BY <1>3 DEF Users
    <3>2. user[c].pc = "woken" => NodeOf[c] # n
      BY <1>1, NobodyWoken
    <3> QED
      BY <1>8, <1>9, <2>1, <2>2, <3>1, <3>2 DEF WokenOK
  <2> QED
    BY <2>3, <2>4, <2>5 DEF Users
<1>11. CASE ws # <<>> /\ ~up
  <2>w. PICK w : w = Head(ws).core
    OBVIOUS
  <2>1. serving' = [serving EXCEPT ![n] = b] /\ user' = [user EXCEPT ![w].pc = "woken"] /\ line' = ls
    BY <1>11, <2>w DEF WakeCase
  <2>2. serving' \in [Node -> Block \cup {NoBlock}] /\ serving'[n] = b
        /\ \A k \in Node : k # n => serving'[k] = serving[k]
    BY <1>1, <1>2, <2>1
  <2>3. w \in Core /\ Head(ws) = ws[1] /\ 1 \in 1..Len(ws)
    BY <1>5, <1>11, <2>w, WaiterAt
  <2>4. NodeOf[w] = n /\ user[w] = [pc |-> "wait", block |-> b, excl |-> Head(ws).excl]
    BY <1>5, <2>w, <2>3 DEF Sleepers, SleeperOf
  <2>5. user'[w] = [pc |-> "woken", block |-> b, excl |-> Head(ws).excl] /\ \A c \in Core : c # w => user'[c] = user[c]
    BY <1>2, <2>1, <2>3, <2>4
  <2>6. user' \in [Core -> [pc : {"idle", "wait", "woken"}, block : Block \cup {NoBlock}, excl : BOOLEAN]]
    BY <1>2, <2>1, <2>3
  <2>7. CacheT'
    BY <1>8, <1>9, <2>2, <2>6 DEF CacheT
  <2>8. ASSUME NEW k \in Node, NEW x \in Block
        PROVE  Sleepers(user, Asleep(k, x), k, x)'
    <3>1. CASE k = n /\ x = b
      <4>1. (Asleep(n, b))' = Tail(ws)
        BY <1>8, <2>2 DEF Asleep
      <4>2. Sleepers(user', Tail(ws), n, b)
        BY <1>5, <1>11, <2>5, <2>w, TailSleeps
      <4> QED
        BY <3>1, <4>1, <4>2
    <3>2. CASE k # n \/ x # b
      <4>1. (Asleep(k, x))' = Asleep(k, x)
        BY <1>1, <1>3, <1>8, <2>2, <3>2 DEF Asleep
      <4>2. user[w].pc # "wait" \/ user[w].block # x \/ NodeOf[w] # k
        BY <2>4, <3>2
      <4>3. Sleepers(user', Asleep(k, x), k, x)
        BY <1>4, <1>6, <2>5, <4>2, OthersSleep
      <4> QED
        BY <4>1, <4>3
    <3> QED
      BY <3>1, <3>2
  <2>9. ASSUME NEW k \in Node, NEW x \in Block
        PROVE  (Served(k, x))'
    <3>1. CASE k = n
      BY <1>1, <1>8, <1>9, <1>11, <2>2, <3>1 DEF Served
    <3>2. CASE k # n
      <4>1. serving'[k] = serving[k] /\ waiters'[k][x] = waiters[k][x] /\ line'[k] = line[k] /\ Served(k, x)
        BY <1>4, <1>8, <1>9, <2>2, <3>2
      <4> QED
        BY <4>1 DEF Served
    <3> QED
      BY <3>1, <3>2
  <2>10. (WokenOK(w))'
    <3>1. Permissible(line'[n][b].state, Head(ws).excl)
      BY <1>1, <1>7, <1>9, <1>11 DEF Permissible, Readable
    <3> QED
      BY <1>1, <1>8, <2>2, <2>4, <2>5, <2>w, <3>1 DEF WokenOK
  <2>11. ASSUME NEW c \in Core, c # w
         PROVE  (WokenOK(c))'
    <3>1. WokenOK(c) /\ NodeOf[c] \in Node
      BY <1>3 DEF Users
    <3>2. user[c].pc = "woken" => NodeOf[c] # n
      BY <1>1, NobodyWoken
    <3>3. user'[c] = user[c]
      BY <2>5, <2>11
    <3> QED
      BY <1>8, <1>9, <2>2, <3>1, <3>2, <3>3 DEF WokenOK
  <2>12. \A c \in Core : (WokenOK(c))'
    BY <2>10, <2>11
  <2> QED
    BY <2>7, <2>8, <2>9, <2>12 DEF Users
<1> QED
  BY <1>10, <1>11

\* The caches after a round: C1 is what it found for b, with the waiters off.
WakeMove(C1, C2, n, b, box, box2) ==
  /\ C2 \in CachesT /\ CacheAt(C1, C2, n)
  /\ \/ ~C2.tk[n] /\ C2.ln[n] = C1.ln[n] /\ box2 = box
     \/ /\ C2.tk[n] /\ C2.hx[n] /\ C1.ln[n] = "SHARED" /\ C2.ln[n] = "SHARED_UPGRADING"
        /\ box2 = Post(box, {Home}, ShmemMsg("UPGRADE_REQ", b, n, "none"))

\* The block stays sound when its waiters are looked at.
LEMMA WakeSound ==
  ASSUME NEW e, NEW q, NEW box, NEW b, NEW C1, SoundT(e, q, box, b, C1), NEW n \in Node, ~C1.tk[n], NEW C2,
         NEW box2, WakeMove(C1, C2, n, b, box, box2), C1.wk[n] => C2.wk[n] \/ C2.tk[n]
  PROVE  SoundT(e, q, box2, b, C2)
<1>1. C2 \in CachesT /\ CacheAt(C1, C2, n) /\ C1 \in CachesT
  BY DEF WakeMove, SoundT
<1>2. CASE ~C2.tk[n] /\ C2.ln[n] = C1.ln[n] /\ box2 = box
  <2>1. C2.tk[n] = C1.tk[n]
    BY <1>1, <1>2 DEF CachesT
  <2>2. C2.ln[n] = C1.ln[n] /\ (C1.wk[n] => C2.wk[n])
    BY <1>2
  <2>3. SoundT(e, q, box, b, C2)
    BY <1>1, <2>1, <2>2, MoveStep
  <2> QED
    BY <1>2, <2>3
<1>3. CASE /\ C2.tk[n] /\ C2.hx[n] /\ C1.ln[n] = "SHARED" /\ C2.ln[n] = "SHARED_UPGRADING"
           /\ box2 = Post(box, {Home}, ShmemMsg("UPGRADE_REQ", b, n, "none"))
  <2>m. PICK m : m = ShmemMsg("UPGRADE_REQ", b, n, "none")
    OBVIOUS
  <2>1. "UPGRADE_REQ" \in Requests
    BY DEF Requests
  <2>2. box2 = Post(box, {Home}, m)
    BY <1>3, <2>m
  <2> QED
    BY <1>1, <1>3, <2>1, <2>2, <2>m, RequestStep
<1> QED
  BY <1>2, <1>3 DEF WakeMove

\* Other blocks do not notice a round.
LEMMA WakeElsewhere ==
  ASSUME NEW C1, NEW C2, NEW n \in Node, NEW b \in Block, NEW box \in Boxes, NEW box2, WakeMove(C1, C2, n, b, box, box2),
         NEW x, x # b, NEW box0, Elsewhere(box0, box, x)
  PROVE  Elsewhere(box0, box2, x)
<1>1. CASE box2 = box
  BY <1>1
<1>2. CASE box2 = Post(box, {Home}, ShmemMsg("UPGRADE_REQ", b, n, "none"))
  <2>m. PICK m : m = ShmemMsg("UPGRADE_REQ", b, n, "none")
    OBVIOUS
  <2>1. "UPGRADE_REQ" \in MessageTypes /\ "UPGRADE_REQ" \notin Carriers /\ "none" \in Data \cup {"none"}
    BY DEF MessageTypes, Returns, Requests, Carriers
  <2>2. m \in Message /\ m.block = b
    BY <2>1, <2>m, MessageType
  <2>3. box2 = Post(box, {Home}, m)
    BY <1>2, <2>m
  <2> QED
    BY <2>2, <2>3, OthersAnswer
<1> QED
  BY <1>1, <1>2 DEF WakeMove

\* The caches of b: those of other nodes, and those of n.
WakeResult(n, b, ws, ls, box) ==
  /\ (Caches(b))' \in CachesT /\ CacheAt(Caches(b), (Caches(b))', n) /\ ~Caches(b).wk[n]
  /\ \/ /\ ~(Caches(b))'.tk[n] /\ (Caches(b))'.ln[n] = ls[n][b].state /\ inbox' = box
        /\ ws # <<>> /\ Head(ws).excl => (Caches(b))'.wk[n]
     \/ /\ (Caches(b))'.tk[n] /\ (Caches(b))'.hx[n] /\ ls[n][b].state = "SHARED"
        /\ (Caches(b))'.ln[n] = "SHARED_UPGRADING"
        /\ inbox' = Post(box, {Home}, ShmemMsg("UPGRADE_REQ", b, n, "none"))

\* The caches of another block x: only the line in n may have changed.
WakeOthers(n, b, ls) ==
  \A x \in Block : x # b =>
    /\ (Caches(x))' \in CachesT /\ CacheAt(Caches(x), (Caches(x))', n) /\ (Caches(x))'.ln[n] = ls[n][x].state
    /\ (Caches(x))'.tk[n] = Caches(x).tk[n] /\ (Caches(x))'.hx[n] = Caches(x).hx[n]
    /\ (Caches(x))'.wk[n] = Caches(x).wk[n] /\ ~Caches(x).wk[n]
    /\ ls[n][x].state = line[n][x].state => (Caches(x))' = Caches(x)

\* The caches after a round.
LEMMA WakeCaches ==
  ASSUME CacheT, Users, NEW n, NEW b, NEW ws, NEW ls, NEW box \in Boxes, NEW up \in BOOLEAN, WakeReady(n, b, ws, ls),
         WakeCase(n, b, ws, ls, box, up), CacheT'
  PROVE  WakeResult(n, b, ws, ls, box) /\ WakeOthers(n, b, ls)
<1>1. /\ n \in Node /\ b \in Block /\ ~Locked(n) /\ serving[n] \in {b, NoBlock} /\ ws = Asleep(n, b)
      /\ ls \in [Node -> [Block -> LineT]] /\ Readable(ls[n][b].state)
      /\ \A k \in Node : k # n => ls[k] = line[k]
  BY DEF WakeReady
<1>2. /\ waiters \in [Node -> [Block -> Seq(Waiter)]] /\ serving \in [Node -> Block \cup {NoBlock}]
      /\ user \in [Core -> [pc : {"idle", "wait", "woken"}, block : Block \cup {NoBlock}, excl : BOOLEAN]]
  BY DEF CacheT
<1>3. NoBlock \notin Block /\ NodeOf \in [Core -> Node]
  BY CoreAssumption
<1>4. Sleepers(user, ws, n, b) /\ Served(n, b)
  BY <1>1 DEF Users
<1>5. ws \in Seq(Waiter)
  BY <1>1, <1>4, AsleepType
<1>6. up <=> ws # <<>> /\ Head(ws).excl /\ ls[n][b].state = "SHARED"
  BY DEF WakeCase
<1>7. /\ waiters'[n][b] = ws
      /\ \A k \in Node, x \in Block : k # n \/ x # b => waiters'[k][x] = waiters[k][x]
  BY <1>1, <1>2 DEF WakeCase
<1>8. \A k \in Node : k # n => serving'[k] = serving[k]
  BY <1>1, <1>2 DEF WakeCase
<1>9. /\ ws = <<>> \/ up => serving'[n] = NoBlock
      /\ ws # <<>> /\ ~up => serving'[n] = b
  BY <1>1, <1>2 DEF WakeCase
<1>10. /\ \A k \in Node, x \in Block : k # n \/ x # b => line'[k][x] = ls[k][x]
       /\ up => line'[n][b].state = "SHARED_UPGRADING"
       /\ ~up => line'[n][b] = ls[n][b]
  <2>1. CASE up
    <3>1. line' = [ls EXCEPT ![n][b].state = "SHARED_UPGRADING"]
      BY <2>1 DEF WakeCase
    <3>2. ls[n][b] \in LineT
      BY <1>1
    <3>3. [ls[n][b] EXCEPT !.state = "SHARED_UPGRADING"].state = "SHARED_UPGRADING"
      BY <3>2 DEF LineT
    <3>4. line' = [ls EXCEPT ![n] = [ls[n] EXCEPT ![b] = [ls[n][b] EXCEPT !.state = "SHARED_UPGRADING"]]]
      BY <3>1
    <3> QED
      BY <1>1, <2>1, <3>3, <3>4
  <2>2. CASE ~up
    BY <1>1, <2>2 DEF WakeCase
  <2> QED
    BY <2>1, <2>2
<1>11. \A k \in Node, x \in Block : k # n \/ x # b =>
         (Awaited(k, x))' = Awaited(k, x) /\ (FirstWrites(k, x))' = FirstWrites(k, x)
  <2>1. ASSUME NEW k \in Node, NEW x \in Block, k # n \/ x # b
        PROVE  waiters'[k][x] = waiters[k][x] /\ (serving'[k] # x <=> serving[k] # x)
    BY <1>1, <1>3, <1>7, <1>8, <1>9, <2>1
  <2> QED
    BY <2>1 DEF Awaited, FirstWrites
<1>12. /\ \A k \in Node, x \in Block : k # n \/ x # b => (WokenWriter(k, x))' = WokenWriter(k, x)
       /\ ws # <<>> /\ ~up /\ Head(ws).excl => (WokenWriter(n, b))'
  <2>1. CASE ws = <<>> \/ up
    <3>1. user' = user
      BY <2>1 DEF WakeCase
    <3> QED
      BY <2>1, <3>1 DEF WokenWriter
  <2>2. CASE ws # <<>> /\ ~up
    <3>w. PICK w : w = Head(ws).core
      OBVIOUS
    <3>1. user' = [user EXCEPT ![w].pc = "woken"]
      BY <2>2, <3>w DEF WakeCase
    <3>2. w \in Core /\ Head(ws) = ws[1] /\ 1 \in 1..Len(ws)
      BY <1>5, <2>2, <3>w, WaiterAt
    <3>3. NodeOf[w] = n /\ user[w] = [pc |-> "wait", block |-> b, excl |-> Head(ws).excl]
      BY <1>4, <3>w, <3>2 DEF Sleepers, SleeperOf
    <3>4. user'[w] = [pc |-> "woken", block |-> b, excl |-> Head(ws).excl] /\ \A c \in Core : c # w => user'[c] = user[c]
      BY <1>2, <3>1, <3>2, <3>3
    <3>5. Head(ws).excl => (WokenWriter(n, b))'
      BY <3>2, <3>3, <3>4 DEF WokenWriter
    <3>6. ASSUME NEW k \in Node, NEW x \in Block, k # n \/ x # b
          PROVE  (WokenWriter(k, x))' = WokenWriter(k, x)
      <4>1. ASSUME NEW c \in Core
            PROVE  /\ NodeOf[c] = k /\ user'[c].pc = "woken" /\ user'[c].block = x /\ user'[c].excl
                   <=> NodeOf[c] = k /\ user[c].pc = "woken" /\ user[c].block = x /\ user[c].excl
        BY <3>3, <3>4, <3>6
      <4> QED
        BY <4>1 DEF WokenWriter
    <3> QED
      BY <2>2, <3>5, <3>6
  <2> QED
    BY <2>1, <2>2
<1>13. \A x \in Block : (Caches(x))' \in CachesT
  BY CachesTypeThen
<1>14. \A x \in Block : CacheAt(Caches(x), (Caches(x))', n)
  BY <1>1, <1>10, <1>11, <1>12, CachesNow, CachesThen DEF CacheAt
<1>15. \A x \in Block : ~Caches(x).wk[n]
  BY <1>1, NobodyWoken, CachesNow DEF Unlocked
<1>16. WakeOthers(n, b, ls)
  <2>1. ASSUME NEW x \in Block, x # b
        PROVE  /\ (Caches(x))'.ln[n] = ls[n][x].state
               /\ (Caches(x))'.tk[n] = Caches(x).tk[n] /\ (Caches(x))'.hx[n] = Caches(x).hx[n]
               /\ (Caches(x))'.wk[n] = Caches(x).wk[n]
    BY <1>1, <1>10, <1>11, <1>12, <2>1, CachesNow, CachesThen
  <2>2. ASSUME NEW x \in Block, x # b, ls[n][x].state = line[n][x].state
        PROVE  (Caches(x))' = Caches(x)
    <3>1. \A k \in Node : line'[k][x].state = line[k][x].state
      BY <1>1, <1>10, <2>2
    <3> QED
      BY <1>11, <1>12, <2>2, <3>1, CachesSame
  <2> QED
    BY <1>13, <1>14, <1>15, <2>1, <2>2 DEF WakeOthers
<1>17. CASE up
  <2>1. (Awaited(n, b))' /\ (FirstWrites(n, b))'
    BY <1>1, <1>3, <1>6, <1>7, <1>9, <1>17 DEF Awaited, FirstWrites
  <2>2. /\ (Caches(b))'.tk[n] /\ (Caches(b))'.hx[n] /\ (Caches(b))'.ln[n] = "SHARED_UPGRADING"
    BY <1>1, <1>10, <1>17, <2>1, CachesThen
  <2>3. inbox' = Post(box, {Home}, ShmemMsg("UPGRADE_REQ", b, n, "none"))
    BY <1>17, AppendHome DEF WakeCase
  <2> QED
    BY <1>1, <1>6, <1>13, <1>14, <1>15, <1>16, <1>17, <2>2, <2>3 DEF WakeResult
<1>18. CASE ~up
  <2>1. ~(Awaited(n, b))'
    BY <1>1, <1>7, <1>9, <1>18 DEF Awaited
  <2>2. ~(Caches(b))'.tk[n] /\ (Caches(b))'.ln[n] = ls[n][b].state /\ inbox' = box
    BY <1>1, <1>10, <1>18, <2>1, CachesThen DEF WakeCase
  <2>3. ws # <<>> /\ Head(ws).excl => (Caches(b))'.wk[n]
    BY <1>1, <1>12, <1>18, CachesThen
  <2> QED
    BY <1>1, <1>13, <1>14, <1>15, <1>16, <2>2, <2>3 DEF WakeResult
<1> QED
  BY <1>17, <1>18

-----------------------------------------------------------------------------
(* Replies to the LLC                                                      *)

\* Nothing has been sent.
LEMMA ElsewhereItself ==
  ASSUME NEW box \in Boxes, NEW x
  PROVE  Elsewhere(box, box, x)
  BY DEF Elsewhere

\* What a round does, seen from the lines it found.
LEMMA WakeMoves ==
  ASSUME NEW n, NEW b, NEW ws, NEW ls, NEW box, WakeResult(n, b, ws, ls, box),
         NEW C1, CacheAt(C1, (Caches(b))', n), C1.ln[n] = ls[n][b].state,
         NEW C2, C2 = (Caches(b))', NEW box2, box2 = inbox'
  PROVE  WakeMove(C1, C2, n, b, box, box2)
  BY DEF WakeResult, WakeMove

\* The network thread goes on to the next waiter.
LEMMA NextWaiterStep ==
  ASSUME IInv, NEW n \in Node, NextWaiter(n)
  PROVE  IInv'
<1>b. PICK b : b = serving[n]
  OBVIOUS
<1>w. PICK ws : ws = Tail(waiters[n][b])
  OBVIOUS
<1>s. PICK ls : ls = line
  OBVIOUS
<1>p. PICK box : box = inbox
  OBVIOUS
<1>1. b # NoBlock /\ ~Locked(n) /\ Wake(n, b, ws, ls, box) /\ UNCHANGED directory /\ dram' = dram
  BY <1>b, <1>w, <1>s, <1>p DEF NextWaiter
<1>2. CacheT /\ Users /\ box \in Boxes /\ dram' \in [Block -> Data]
  BY <1>p, <1>1, InvFacts
<1>3. b \in Block /\ line \in [Node -> [Block -> LineT]]
  BY <1>b, <1>1, <1>2 DEF CacheT
<1>4. Served(n, b)
  BY <1>2, <1>3 DEF Users
<1>5. WakeReady(n, b, ws, ls)
  BY <1>b, <1>w, <1>s, <1>1, <1>3, <1>4 DEF WakeReady, Asleep, Served
<1>6. PICK up \in BOOLEAN : WakeCase(n, b, ws, ls, box, up)
  BY <1>1, WakeCases
<1>7. CacheT' /\ Users'
  BY <1>2, <1>5, <1>6, WakeUsers
<1>8. WakeResult(n, b, ws, ls, box) /\ WakeOthers(n, b, ls)
  BY <1>2, <1>5, <1>6, <1>7, WakeCaches
<1>c. PICK C1 : C1 = Caches(b)
  OBVIOUS
<1>x. PICK C2 : C2 = (Caches(b))'
  OBVIOUS
<1>q. PICK box2 : box2 = inbox'
  OBVIOUS
<1>9. C1.ln[n] = ls[n][b].state /\ ~C1.tk[n] /\ ~C1.wk[n] /\ CacheAt(C1, C2, n)
  <2>1. ~Awaited(n, b)
    BY <1>b DEF Awaited
  <2> QED
    BY <1>c, <1>x, <1>s, <1>8, <2>1, CachesNow DEF WakeResult
<1>10. WakeMove(C1, C2, n, b, box, box2)
  BY <1>x, <1>q, <1>8, <1>9, WakeMoves
<1>11. SoundT(dir[b], reqs[b], box, b, C1)
  BY <1>c, <1>p, <1>3, BlockSound
<1>12. SoundT(dir[b], reqs[b], box2, b, C2)
  BY <1>9, <1>10, <1>11, WakeSound
<1>13. ASSUME NEW x \in Block, x # b
       PROVE  (Caches(x))' = Caches(x) /\ Elsewhere(inbox, box2, x)
  <2>1. (Caches(x))' = Caches(x)
    BY <1>s, <1>8, <1>13 DEF WakeOthers
  <2>2. Elsewhere(box, box, x)
    BY <1>2, ElsewhereItself
  <2>3. Elsewhere(box, box2, x)
    BY <1>2, <1>3, <1>10, <1>13, <2>2, WakeElsewhere
  <2> QED
    BY <1>p, <2>1, <2>3
<1>14. OthersKept(b, box2)
  BY <1>13 DEF OthersKept
<1> QED
  BY <1>1, <1>2, <1>3, <1>7, <1>12, <1>14, <1>q, <1>x, OneBlockStep

\* A reply finds the line as it was when it was asked for.
LEMMA ReplyFacts ==
  ASSUME NEW e, NEW q, NEW box, NEW b, NEW C, SoundT(e, q, box, b, C), NEW n, NEW m, NextIs(box, n, m, b),
         m.type \in Replies
  PROVE  /\ C.tk[n]
         /\ m.type = "UPGRADE_REP" => C.ln[n] = "SHARED_UPGRADING"
         /\ m.type \in Grants => C.ln[n] = "INVALID"
<1> DEFINE A == View(e, q, box, b, C)
<1>1. Stable(A) /\ Ordered(box, b, C) /\ box \in Boxes /\ A.ln = C.ln /\ A.tk = C.tk
  BY SoundFacts
<1>2. n \in Node /\ box[n] # <<>> /\ m = Head(box[n]) /\ m.block = b
  BY DEF NextIs
<1>3. A.s[n] = RepliesIn(box[n], b)
  BY <1>2 DEF View
<1>4. One(box[n], Kind(b, Replies)) /\ box[n] \in Seq(Message)
  BY <1>1, <1>2 DEF Ordered, CacheOrder, Boxes
<1>5. m.type \in A.s[n]
  BY <1>2, <1>3, <1>4, PopReplies
<1>6. Present(A, n) /\ Token(A, n) /\ Lines(A, n)
  BY <1>1, <1>2, CacheFacts
<1> HIDE DEF A
<1>7. C.tk[n]
  BY <1>1, <1>5, <1>6 DEF Token
<1>8. m.type = "UPGRADE_REP" => C.ln[n] = "SHARED_UPGRADING"
  BY <1>1, <1>5, <1>6 DEF Lines
<1>9. m.type \in Grants => C.ln[n] = "INVALID"
  BY <1>1, <1>5, <1>6 DEF Present, Granted, Grants
<1> QED
  BY <1>7, <1>8, <1>9

\* The LLC handles UPGRADE_REP.
LEMMA UpgradeRepStep ==
  ASSUME IInv, NEW n \in Node, UpgradeRep(n)
  PROVE  IInv'
<1>m. PICK m : m = Head(inbox[n])
  OBVIOUS
<1>b. PICK b : b = m.block
  OBVIOUS
<1>w. PICK ws : ws = waiters[n][b]
  OBVIOUS
<1>s. PICK ls : ls = [line EXCEPT ![n][b].state = "MODIFIED"]
  OBVIOUS
<1>p. PICK box : box = Popped(n)
  OBVIOUS
<1>1. Next_(n, {"UPGRADE_REP"}) /\ Wake(n, b, ws, ls, box) /\ UNCHANGED directory /\ dram' = dram
  BY <1>m, <1>b, <1>w, <1>s, <1>p DEF UpgradeRep
<1>2. /\ serving[n] = NoBlock /\ ~Locked(n) /\ m.type = "UPGRADE_REP" /\ b \in Block
      /\ NextIs(inbox, n, m, b) /\ box = Pop(inbox, n) /\ box \in Boxes
      /\ \A x \in Block : x # b => Elsewhere(inbox, box, x)
  BY <1>1, <1>m, <1>b, <1>p, NextFacts
<1>3. CacheT /\ Users /\ dram' \in [Block -> Data]
  BY <1>1, InvFacts
<1>c. PICK C : C = Caches(b)
  OBVIOUS
<1>4. SoundT(dir[b], reqs[b], inbox, b, C) /\ C.ln[n] = line[n][b].state
  BY <1>c, <1>2, BlockSound, CachesNow
<1>5. line[n][b].state = "SHARED_UPGRADING" /\ line[n][b] \in LineT
  <2>1. m.type \in Replies
    BY <1>2 DEF Replies
  <2> QED
    BY <1>2, <1>3, <1>4, <2>1, ReplyFacts, ValidData
<1>6. [line[n][b] EXCEPT !.state = "MODIFIED"] \in LineT /\ [line[n][b] EXCEPT !.state = "MODIFIED"].state = "MODIFIED"
  BY <1>5 DEF LineT, States
<1>7. line \in [Node -> [Block -> LineT]]
  BY <1>3 DEF CacheT
<1>8. ls = [line EXCEPT ![n] = [line[n] EXCEPT ![b] = [line[n][b] EXCEPT !.state = "MODIFIED"]]]
  BY <1>s
<1>9. /\ ls \in [Node -> [Block -> LineT]] /\ ls[n][b].state = "MODIFIED"
      /\ \A k \in Node, x \in Block : k # n \/ x # b => ls[k][x] = line[k][x]
      /\ \A k \in Node : k # n => ls[k] = line[k]
  BY <1>2, <1>6, <1>7, <1>8
<1>10. NoBlock # b
  BY <1>2, CoreAssumption
<1>11. WakeReady(n, b, ws, ls)
  BY <1>2, <1>9, <1>10, <1>w DEF WakeReady, Asleep, Readable
<1>12. PICK up \in BOOLEAN : WakeCase(n, b, ws, ls, box, up)
  BY <1>1, WakeCases
<1>13. CacheT' /\ Users'
  BY <1>3, <1>11, <1>12, WakeUsers
<1>14. WakeResult(n, b, ws, ls, box) /\ WakeOthers(n, b, ls)
  BY <1>2, <1>3, <1>11, <1>12, <1>13, WakeCaches
<1>x. PICK C2 : C2 = (Caches(b))'
  OBVIOUS
<1>15. /\ C2 \in CachesT /\ CacheAt(C, C2, n) /\ ~C2.tk[n] /\ C2.ln[n] = "MODIFIED" /\ inbox' = box
  BY <1>c, <1>x, <1>9, <1>14 DEF WakeResult
<1>16. SoundT(dir[b], reqs[b], box, b, C2)
  BY <1>2, <1>4, <1>15, UpgradeStep
<1>17. OthersKept(b, box)
  BY <1>2, <1>9, <1>14 DEF OthersKept, WakeOthers
<1> QED
  BY <1>1, <1>2, <1>3, <1>13, <1>15, <1>16, <1>17, <1>x, OneBlockStep

-----------------------------------------------------------------------------
(* The block comes in.                                                     *)

\* The lines once b has come in and v has gone.
CameIn(n, b, v, st, ls) ==
  /\ ls \in [Node -> [Block -> LineT]] /\ ls[n][b].state = st
  /\ \A x \in Block : x = v => ls[n][x].state = "INVALID"
  /\ \A x \in Block : x # b /\ x # v => ls[n][x] = line[n][x]
  /\ \A k \in Node : k # n => ls[k] = line[k]

\* A line is inserted, and the victim's line goes.
LEMMA InsertedLines ==
  ASSUME CacheT, NEW n \in Node, NEW b \in Block, NEW v \in (Block \ {b}) \cup {NoBlock},
         NEW st \in {"EXCLUSIVE", "SHARED"}, NEW data \in Data, NEW ls, ls = Inserted(n, b, v, st, data)
  PROVE  CameIn(n, b, v, st, ls)
<1>1. line \in [Node -> [Block -> LineT]]
  BY DEF CacheT
<1>2. Line(st, data) \in LineT /\ Line(st, data).state = st
  BY DEF Line, LineT, States, Data
<1>3. Invalid \in LineT /\ Invalid.state = "INVALID"
  BY ValidData
<1>g. PICK g : g = [x \in Block |-> IF x = b THEN Line(st, data) ELSE IF x = v THEN Invalid ELSE line[n][x]]
  OBVIOUS
<1>4. ls = [line EXCEPT ![n] = g]
  BY <1>g DEF Inserted
<1>5. g \in [Block -> LineT]
  BY <1>1, <1>2, <1>3, <1>g
<1>6. ls \in [Node -> [Block -> LineT]] /\ ls[n] = g /\ \A k \in Node : k # n => ls[k] = line[k]
  BY <1>1, <1>4, <1>5
<1>7. /\ g[b].state = st /\ \A x \in Block : x = v => g[x].state = "INVALID"
      /\ \A x \in Block : x # b /\ x # v => g[x] = line[n][x]
  BY <1>2, <1>3, <1>g, CoreAssumption
<1> QED
  BY <1>6, <1>7 DEF CameIn

\* The messages once v has been evicted: other blocks do not notice.
VictimGone(n, v, box1, box) ==
  /\ box \in Boxes
  /\ \A x \in Block : x # v => Elsewhere(box1, box, x)
  /\ v \in Block => SoundT(dir[v], reqs[v], box, v, (Caches(v))')

\* The victim's block stays sound when it is evicted for another block.
LEMMA VictimGoes ==
  ASSUME IInv, NEW n \in Node, NEW v \in Block \cup {NoBlock}, NEW box1 \in Boxes, NEW box, box = Evicted(n, v, box1),
         v \in Block => /\ line[n][v].state \notin {"INVALID", "SHARED_UPGRADING"}
                        /\ Elsewhere(inbox, box1, v)
                        /\ (Caches(v))' \in CachesT /\ CacheAt(Caches(v), (Caches(v))', n)
                        /\ (Caches(v))'.tk[n] = Caches(v).tk[n] /\ (Caches(v))'.hx[n] = Caches(v).hx[n]
                        /\ (Caches(v))'.wk[n] = Caches(v).wk[n] /\ (Caches(v))'.ln[n] = "INVALID" /\ ~Caches(v).wk[n]
  PROVE  VictimGone(n, v, box1, box)
<1>1. CASE v \notin Block
  <2>1. box = box1
    BY <1>1 DEF Evicted
  <2> QED
    BY <1>1, <2>1, ElsewhereItself DEF VictimGone
<1>2. CASE v \in Block
  <2>x. PICK C2 : C2 = (Caches(v))'
    OBVIOUS
  <2>m. PICK m : m = EvictMsg(n, v)
    OBVIOUS
  <2>1. box = Post(box1, {Home}, m)
    BY <1>2, <2>m, EvictedBox
  <2>2. SoundT(dir[v], reqs[v], box1, v, Caches(v))
    BY <1>2, BlockSound, ElsewhereSound
  <2>3. Told(dir[v], reqs[v], box, v, C2, m)
    BY <1>2, <2>x, <2>m, <2>1, <2>2, EvictTold
  <2>4. SoundT(dir[v], reqs[v], box, v, C2) /\ m \in Message /\ m.block = v /\ box \in Boxes
    BY <2>3 DEF Told, SoundT
  <2>5. ASSUME NEW x \in Block, x # v
        PROVE  Elsewhere(box1, box, x)
    BY <2>1, <2>4, <2>5, PostElsewhere, DirectoryAssumption
  <2> QED
    BY <2>x, <2>4, <2>5 DEF VictimGone
<1> QED
  BY <1>1, <1>2

\* The LLC handles EX_REP and SH_REP.
LEMMA DataRepStep ==
  ASSUME IInv, NEW n \in Node, DataRep(n)
  PROVE  IInv'
<1>m. PICK m : m = Head(inbox[n])
  OBVIOUS
<1>b. PICK b : b = m.block
  OBVIOUS
<1>t. PICK st : st = IF m.type = "EX_REP" THEN "EXCLUSIVE" ELSE "SHARED"
  OBVIOUS
<1>w. PICK ws : ws = waiters[n][b]
  OBVIOUS
<1>1. Next_(n, {"EX_REP", "SH_REP"}) /\ UNCHANGED directory /\ dram' = dram
  BY DEF DataRep
<1>2. \E v \in Evictable(n, b) \cup {NoBlock} :
         Wake(n, b, ws, Inserted(n, b, v, st, m.data), Evicted(n, v, Popped(n)))
  BY <1>m, <1>b, <1>t, <1>w DEF DataRep
<1>v. PICK v \in Evictable(n, b) \cup {NoBlock} :
         Wake(n, b, ws, Inserted(n, b, v, st, m.data), Evicted(n, v, Popped(n)))
  BY <1>2
<1>s. PICK ls : ls = Inserted(n, b, v, st, m.data)
  OBVIOUS
<1>o. PICK box1 : box1 = Pop(inbox, n)
  OBVIOUS
<1>p. PICK box : box = Evicted(n, v, box1)
  OBVIOUS
<1>3. /\ serving[n] = NoBlock /\ ~Locked(n) /\ m.type \in {"EX_REP", "SH_REP"} /\ b \in Block /\ m \in Message
      /\ NextIs(inbox, n, m, b) /\ Popped(n) = box1 /\ box1 \in Boxes
      /\ \A x \in Block : x # b => Elsewhere(inbox, box1, x)
  BY <1>1, <1>m, <1>b, <1>o, NextFacts
<1>4. Wake(n, b, ws, ls, box)
  BY <1>v, <1>s, <1>p, <1>3
<1>5. CacheT /\ Users /\ dram' \in [Block -> Data] /\ NoBlock \notin Block
  BY <1>1, InvFacts, CoreAssumption
<1>6. m.data \in Data /\ st \in {"EXCLUSIVE", "SHARED"}
  BY <1>3, <1>t DEF Message, Carriers
<1>7. v \in (Block \ {b}) \cup {NoBlock} /\ (v \in Block => line[n][v].state \notin {"INVALID", "SHARED_UPGRADING"})
  BY <1>5 DEF Evictable
<1>8. CameIn(n, b, v, st, ls)
  BY <1>3, <1>5, <1>6, <1>7, <1>s, InsertedLines
<1>9. WakeReady(n, b, ws, ls)
  BY <1>3, <1>5, <1>6, <1>8, <1>w DEF WakeReady, Asleep, Readable, CameIn
<1>10. PICK up \in BOOLEAN : WakeCase(n, b, ws, ls, box, up)
  BY <1>4, WakeCases
<1>11. CacheT' /\ Users'
  BY <1>5, <1>9, <1>10, WakeUsers
<1>12. box \in Boxes
  <2>1. CASE v \notin Block
    BY <1>3, <1>p, <1>7, <2>1 DEF Evicted
  <2>2. CASE v \in Block
    <3>m. PICK mv : mv = EvictMsg(n, v)
      OBVIOUS
    <3>1. box = Post(box1, {Home}, mv)
      BY <1>3, <1>p, <2>2, <3>m, EvictedBox
    <3>2. mv \in Message
      <4>1. line[n][v].data \in Data
        BY <1>5, <1>7, <2>2, ValidData
      <4>2. /\ {"FLUSH_REP", "INV_REP"} \subseteq MessageTypes /\ "INV_REP" \notin Carriers
            /\ "none" \in Data \cup {"none"} /\ line[n][v].data \in Data \cup {"none"}
        BY <4>1 DEF MessageTypes, Returns, Drops, Carriers
      <4>3. ShmemMsg("FLUSH_REP", v, n, line[n][v].data) \in Message
        BY <2>2, <4>1, <4>2, MessageType
      <4>4. ShmemMsg("INV_REP", v, n, "none") \in Message
        BY <2>2, <4>2, MessageType
      <4> QED
        BY <3>m, <4>3, <4>4 DEF EvictMsg
    <3> QED
      BY <1>3, <3>1, <3>2, PostType
  <2> QED
    BY <2>1, <2>2
<1>13. WakeResult(n, b, ws, ls, box) /\ WakeOthers(n, b, ls)
  BY <1>5, <1>9, <1>10, <1>11, <1>12, WakeCaches
<1>14. VictimGone(n, v, box1, box)
  <2>1. v \in Block => /\ line[n][v].state \notin {"INVALID", "SHARED_UPGRADING"} /\ Elsewhere(inbox, box1, v)
                       /\ (Caches(v))' \in CachesT /\ CacheAt(Caches(v), (Caches(v))', n)
                       /\ (Caches(v))'.tk[n] = Caches(v).tk[n] /\ (Caches(v))'.hx[n] = Caches(v).hx[n]
                       /\ (Caches(v))'.wk[n] = Caches(v).wk[n] /\ (Caches(v))'.ln[n] = "INVALID" /\ ~Caches(v).wk[n]
    BY <1>3, <1>5, <1>7, <1>8, <1>13 DEF WakeOthers, CameIn
  <2>2. v \in Block \cup {NoBlock}
    BY <1>7
  <2> QED
    BY <1>3, <1>p, <2>1, <2>2, VictimGoes
<1>c. PICK C : C = Caches(b)
  OBVIOUS
<1>x. PICK C2 : C2 = (Caches(b))'
  OBVIOUS
<1>q. PICK box2 : box2 = inbox'
  OBVIOUS
<1>y. PICK C1 : C1 = [ln |-> [C2.ln EXCEPT ![n] = st], tk |-> [C2.tk EXCEPT ![n] = FALSE], hx |-> C2.hx,
                      wk |-> [C2.wk EXCEPT ![n] = C.hx[n]]]
  OBVIOUS
<1>15. C2 \in CachesT /\ CacheAt(C, C2, n) /\ C \in CachesT
  BY <1>c, <1>x, <1>3, <1>5, <1>13, CachesType DEF WakeResult
<1>16. C1 \in CachesT /\ C1.ln[n] = st /\ ~C1.tk[n] /\ C1.wk[n] = C.hx[n] /\ CacheAt(C1, C2, n) /\ CacheAt(C, C1, n)
  <2>1. st \in States /\ C.hx[n] \in BOOLEAN
    BY <1>6, <1>15 DEF States, CachesT
  <2>2. C1 \in CachesT
    BY <1>15, <1>y, <2>1 DEF CachesT
  <2>3. C1.ln[n] = st /\ ~C1.tk[n] /\ C1.wk[n] = C.hx[n]
    BY <1>15, <1>y, <2>1 DEF CachesT
  <2>4. \A k \in Node : k # n => /\ C1.ln[k] = C2.ln[k] /\ C1.tk[k] = C2.tk[k] /\ C1.hx[k] = C2.hx[k]
                                 /\ C1.wk[k] = C2.wk[k]
    BY <1>15, <1>y DEF CachesT
  <2> QED
    BY <1>15, <2>2, <2>3, <2>4 DEF CacheAt
<1>17. SoundT(dir[b], reqs[b], inbox, b, C) /\ C.hx[n] = FirstWrites(n, b)
  BY <1>c, <1>3, BlockSound, CachesNow
<1>18. SoundT(dir[b], reqs[b], box1, b, C1)
  <2>1. m.type \in Grants
    BY <1>3 DEF Grants
  <2> QED
    BY <1>3, <1>o, <1>t, <1>16, <1>17, <2>1, GrantStep
<1>19. SoundT(dir[b], reqs[b], box, b, C1)
  BY <1>3, <1>5, <1>7, <1>14, <1>18, ElsewhereSound DEF VictimGone
<1>20. WakeMove(C1, C2, n, b, box, box2)
  BY <1>x, <1>q, <1>8, <1>13, <1>16, WakeMoves DEF CameIn
<1>21. C1.wk[n] => C2.wk[n] \/ C2.tk[n]
  <2>1. C1.wk[n] => ws # <<>> /\ Head(ws).excl
    BY <1>16, <1>17, <1>w DEF FirstWrites
  <2> QED
    BY <1>x, <1>13, <2>1 DEF WakeResult
<1>22. SoundT(dir[b], reqs[b], box2, b, C2)
  BY <1>16, <1>19, <1>20, <1>21, WakeSound
<1>23. SameDirectory /\ reqs' = reqs
  BY <1>1, SameRequests
<1>24. ASSUME NEW x \in Block
       PROVE  SoundT(dir[x], reqs'[x], inbox', x, (Caches(x))')
  <2>1. CASE x = b
    BY <1>22, <1>23, <1>q, <1>x, <2>1
  <2>2. CASE x # b /\ x = v
    <3>1. SoundT(dir[x], reqs[x], box, x, (Caches(x))')
      BY <1>14, <2>2 DEF VictimGone
    <3>2. Elsewhere(box, box2, x)
      BY <1>3, <1>12, <1>20, <2>2, ElsewhereItself, WakeElsewhere
    <3>3. SoundT(dir[x], reqs[x], box2, x, (Caches(x))')
      BY <3>1, <3>2, ElsewhereSound
    <3> QED
      BY <1>23, <1>q, <3>3
  <2>3. CASE x # b /\ x # v
    <3>1. SoundT(dir[x], reqs[x], inbox, x, Caches(x))
      BY BlockSound
    <3>2. (Caches(x))' = Caches(x)
      BY <1>8, <1>13, <2>3 DEF WakeOthers, CameIn
    <3>3. Elsewhere(inbox, box1, x) /\ Elsewhere(box1, box, x)
      BY <1>3, <1>14, <2>3 DEF VictimGone
    <3>4. Elsewhere(inbox, box, x)
      BY <3>3, ElsewhereTwice
    <3>5. Elsewhere(inbox, box2, x)
      BY <1>3, <1>12, <1>20, <2>3, <3>4, WakeElsewhere
    <3>6. SoundT(dir[x], reqs[x], box2, x, Caches(x))
      BY <3>1, <3>5, ElsewhereSound
    <3> QED
      BY <1>23, <1>q, <3>2, <3>6
  <2> QED
    BY <2>1, <2>2, <2>3
<1>25. inbox' \in Boxes
  BY <1>22, <1>q DEF SoundT
<1> QED
  BY <1>5, <1>11, <1>23, <1>24, <1>25, LlcStep

-----------------------------------------------------------------------------
(* A user thread misses.                                                   *)

\* One more thread sleeps.
LEMMA AppendSleeper ==
  ASSUME NEW u, NEW ws \in Seq(Waiter), NEW n, NEW b, Sleepers(u, ws, n, b), NEW c \in Core, u[c].pc # "wait",
         NodeOf[c] = n, NEW excl \in BOOLEAN, NEW w, w = [core |-> c, excl |-> excl],
         NEW u2, \A d \in Core : d # c => u2[d] = u[d], u2[c] = [pc |-> "wait", block |-> b, excl |-> excl]
  PROVE  Sleepers(u2, Append(ws, w), n, b)
<1>1. Sleepers(u2, ws, n, b)
  BY OthersSleep
<1>w. w \in Waiter /\ w.core = c /\ w.excl = excl
  BY DEF Waiter
<1>p. PICK p : p = Append(ws, w)
  OBVIOUS
<1>2. /\ Len(ws) \in Nat /\ Len(p) = Len(ws) + 1 /\ p[Len(ws) + 1] = w
      /\ \A i \in 1..Len(ws) : p[i] = ws[i]
  BY <1>p, <1>w
<1>3. SleeperOf(u2, w, n, b)
  BY <1>w DEF SleeperOf
<1>4. \A i \in 1..Len(p) : i \in 1..Len(ws) \/ i = Len(ws) + 1
  BY <1>2
<1>5. \A i \in 1..Len(p) : SleeperOf(u2, p[i], n, b)
  BY <1>1, <1>2, <1>3, <1>4 DEF Sleepers
<1>6. ASSUME NEW i \in 1..Len(ws)
      PROVE  ws[i].core # c
  <2>1. SleeperOf(u, ws[i], n, b)
    BY DEF Sleepers
  <2> QED
    BY <2>1 DEF SleeperOf
<1>7. ASSUME NEW i \in 1..Len(p), NEW j \in 1..Len(p), p[i].core = p[j].core
      PROVE  i = j
  <2>1. CASE i \in 1..Len(ws) /\ j \in 1..Len(ws)
    BY <1>1, <1>2, <1>7, <2>1 DEF Sleepers
  <2>2. CASE i = Len(ws) + 1 /\ j \in 1..Len(ws)
    BY <1>2, <1>6, <1>7, <1>w, <2>2
  <2>3. CASE i \in 1..Len(ws) /\ j = Len(ws) + 1
    BY <1>2, <1>6, <1>7, <1>w, <2>3
  <2>4. CASE i = Len(ws) + 1 /\ j = Len(ws) + 1
    BY <2>4
  <2> QED
    BY <1>4, <2>1, <2>2, <2>3, <2>4
<1> QED
  BY <1>5, <1>7, <1>p DEF Sleepers

\* What a miss does in the cache: l is the line afterwards.
Missed(n, b, c, excl, l) ==
  /\ n \in Node /\ b \in Block /\ c \in Core /\ excl \in BOOLEAN /\ NodeOf[c] = n /\ l \in LineT
  /\ user[c].pc = "idle" /\ ~Locked(n) /\ serving' = serving
  /\ waiters' = [waiters EXCEPT ![n][b] = Append(@, [core |-> c, excl |-> excl])]
  /\ user' = [user EXCEPT ![c] = [pc |-> "wait", block |-> b, excl |-> excl]]
  /\ line' = [line EXCEPT ![n][b] = l]
  /\ waiters[n][b] # <<>> => l = line[n][b]

\* What the threads and the waiters are then.
MissFacts(n, b, c, excl, l) ==
  /\ line' \in [Node -> [Block -> LineT]] /\ line'[n][b] = l
  /\ \A k \in Node, x \in Block : k # n \/ x # b => line'[k][x] = line[k][x]
  /\ waiters' \in [Node -> [Block -> Seq(Waiter)]]
  /\ waiters'[n][b] = Append(waiters[n][b], [core |-> c, excl |-> excl]) /\ waiters'[n][b] # <<>>
  /\ Head(waiters'[n][b]) = IF waiters[n][b] = <<>> THEN [core |-> c, excl |-> excl] ELSE Head(waiters[n][b])
  /\ waiters[n][b] # <<>> => Tail(waiters'[n][b]) = Append(Tail(waiters[n][b]), [core |-> c, excl |-> excl])
  /\ \A k \in Node, x \in Block : k # n \/ x # b => waiters'[k][x] = waiters[k][x]
  /\ user' \in [Core -> [pc : {"idle", "wait", "woken"}, block : Block \cup {NoBlock}, excl : BOOLEAN]]
  /\ user'[c] = [pc |-> "wait", block |-> b, excl |-> excl]
  /\ \A d \in Core : d # c => user'[d] = user[d]

\* The caches and threads after a miss.
LEMMA MissedFacts ==
  ASSUME CacheT, NEW n, NEW b, NEW c, NEW excl, NEW l, Missed(n, b, c, excl, l)
  PROVE  MissFacts(n, b, c, excl, l)
<1>1. n \in Node /\ b \in Block /\ c \in Core /\ excl \in BOOLEAN /\ l \in LineT
  BY DEF Missed
<1>2. /\ line \in [Node -> [Block -> LineT]] /\ waiters \in [Node -> [Block -> Seq(Waiter)]]
      /\ user \in [Core -> [pc : {"idle", "wait", "woken"}, block : Block \cup {NoBlock}, excl : BOOLEAN]]
  BY DEF CacheT
<1>w. PICK w : w = [core |-> c, excl |-> excl]
  OBVIOUS
<1>3. w \in Waiter
  BY <1>1, <1>w DEF Waiter
<1>4. line' = [line EXCEPT ![n] = [line[n] EXCEPT ![b] = l]]
  BY DEF Missed
<1>5. /\ line' \in [Node -> [Block -> LineT]] /\ line'[n][b] = l
      /\ \A k \in Node, x \in Block : k # n \/ x # b => line'[k][x] = line[k][x]
  BY <1>1, <1>2, <1>4
<1>q. PICK q \in Seq(Waiter) : q = waiters[n][b]
  BY <1>1, <1>2
<1>6. Append(q, w) \in Seq(Waiter) /\ Append(q, w) # <<>>
  <2>1. Append(q, w) \in Seq(Waiter) /\ Len(Append(q, w)) = Len(q) + 1 /\ Len(q) \in Nat
    BY <1>3, <1>q
  <2>2. Len(<<>>) = 0
    OBVIOUS
  <2> QED
    BY <2>1, <2>2
<1>7. waiters' = [waiters EXCEPT ![n] = [waiters[n] EXCEPT ![b] = Append(q, w)]]
  BY <1>q, <1>w DEF Missed
<1>8. /\ waiters' \in [Node -> [Block -> Seq(Waiter)]] /\ waiters'[n][b] = Append(q, w)
      /\ \A k \in Node, x \in Block : k # n \/ x # b => waiters'[k][x] = waiters[k][x]
  BY <1>1, <1>2, <1>6, <1>7
<1>9. Head(Append(q, w)) = IF q = <<>> THEN w ELSE Head(q)
  BY <1>3
<1>10. q # <<>> => Tail(Append(q, w)) = Append(Tail(q), w)
  BY <1>3
<1>11. /\ user' \in [Core -> [pc : {"idle", "wait", "woken"}, block : Block \cup {NoBlock}, excl : BOOLEAN]]
       /\ user'[c] = [pc |-> "wait", block |-> b, excl |-> excl]
       /\ \A d \in Core : d # c => user'[d] = user[d]
  BY <1>1, <1>2 DEF Missed
<1> QED
  BY <1>5, <1>6, <1>8, <1>9, <1>10, <1>11, <1>q, <1>w DEF MissFacts

\* The thread that missed sleeps with the others.
LEMMA MissUsers ==
  ASSUME CacheT, Users, NEW n, NEW b, NEW c, NEW excl, NEW l, Missed(n, b, c, excl, l)
  PROVE  CacheT' /\ Users'
<1>1. /\ n \in Node /\ b \in Block /\ c \in Core /\ excl \in BOOLEAN /\ NodeOf[c] = n /\ user[c].pc = "idle"
      /\ ~Locked(n) /\ serving' = serving /\ (waiters[n][b] # <<>> => l = line[n][b])
  BY DEF Missed
<1>w. PICK w : w = [core |-> c, excl |-> excl]
  OBVIOUS
<1>f. MissFacts(n, b, c, excl, l)
  BY MissedFacts
<1>2. /\ line' \in [Node -> [Block -> LineT]] /\ line'[n][b] = l
      /\ \A k \in Node, x \in Block : k # n \/ x # b => line'[k][x] = line[k][x]
      /\ waiters' \in [Node -> [Block -> Seq(Waiter)]]
      /\ waiters'[n][b] = Append(waiters[n][b], w) /\ waiters'[n][b] # <<>>
      /\ waiters[n][b] # <<>> => Tail(waiters'[n][b]) = Append(Tail(waiters[n][b]), w)
      /\ \A k \in Node, x \in Block : k # n \/ x # b => waiters'[k][x] = waiters[k][x]
  BY <1>w, <1>f DEF MissFacts
<1>3. /\ user' \in [Core -> [pc : {"idle", "wait", "woken"}, block : Block \cup {NoBlock}, excl : BOOLEAN]]
      /\ user'[c] = [pc |-> "wait", block |-> b, excl |-> excl]
      /\ \A d \in Core : d # c => user'[d] = user[d]
  BY <1>f DEF MissFacts
<1>4. CacheT'
  BY <1>1, <1>2, <1>3 DEF CacheT
<1>5. \A k \in Node, x \in Block : Sleepers(user, Asleep(k, x), k, x) /\ Served(k, x) /\ Asleep(k, x) \in Seq(Waiter)
  BY AsleepType DEF Users
<1>6. ASSUME NEW k \in Node, NEW x \in Block
      PROVE  Sleepers(user, Asleep(k, x), k, x)'
  <2>1. CASE k = n /\ x = b
    <3>1. (Asleep(n, b))' = Append(Asleep(n, b), w)
      BY <1>1, <1>2, <1>5 DEF Asleep, Served
    <3>2. user[c].pc # "wait"
      BY <1>1
    <3>3. Sleepers(user', Append(Asleep(n, b), w), n, b)
      <4>1. Sleepers(user, Asleep(n, b), n, b) /\ Asleep(n, b) \in Seq(Waiter)
        BY <1>1, <1>5
      <4> QED
        BY <1>1, <1>3, <1>w, <3>2, <4>1, AppendSleeper
    <3> QED
      BY <2>1, <3>1, <3>3
  <2>2. CASE k # n \/ x # b
    <3>1. (Asleep(k, x))' = Asleep(k, x)
      BY <1>1, <1>2, <2>2 DEF Asleep
    <3>2. user[c].pc # "wait"
      BY <1>1
    <3>3. Sleepers(user', Asleep(k, x), k, x)
      BY <1>3, <1>5, <3>2, OthersSleep
    <3> QED
      BY <3>1, <3>3
  <2> QED
    BY <2>1, <2>2
<1>7. ASSUME NEW k \in Node, NEW x \in Block
      PROVE  (Served(k, x))'
  <2>1. CASE k = n /\ x = b
    BY <1>1, <1>2, <1>5, <2>1 DEF Served
  <2>2. CASE k # n \/ x # b
    BY <1>1, <1>2, <1>5, <2>2, ZenonT(60) DEF Served
  <2> QED
    BY <2>1, <2>2
<1>8. ASSUME NEW d \in Core
      PROVE  (WokenOK(d))'
  <2>1. CASE d = c
    BY <1>3, <2>1 DEF WokenOK
  <2>2. CASE d # c
    <3>1. user'[d] = user[d] /\ WokenOK(d) /\ NodeOf[d] \in Node
      BY <1>3, <2>2, CoreAssumption DEF Users
    <3>2. user[d].pc = "woken" => NodeOf[d] # n
      BY <1>1, NobodyWoken
    <3> QED
      <4>1. SUFFICES ASSUME user[d].pc = "woken"
                     PROVE  (WokenOK(d))'
        BY <3>1 DEF WokenOK
      <4>2. user[d].block \in Block /\ NodeOf[d] # n
        BY <3>1, <3>2, <4>1 DEF WokenOK
      <4>3. /\ line'[NodeOf[d]][user[d].block] = line[NodeOf[d]][user[d].block]
            /\ waiters'[NodeOf[d]][user[d].block] = waiters[NodeOf[d]][user[d].block]
        BY <1>2, <3>1, <4>2
      <4> QED
        BY <1>1, <3>1, <4>2, <4>3 DEF WokenOK
  <2> QED
    BY <2>1, <2>2
<1>9. Users'
  BY <1>6, <1>7, <1>8 DEF Users
<1> QED
  BY <1>4, <1>9

\* The caches then.
MissCaches(n, b, excl, l) ==
  /\ \A x \in Block : x # b => (Caches(x))' = Caches(x)
  /\ (Caches(b))' \in CachesT /\ CacheAt(Caches(b), (Caches(b))', n)
  /\ waiters[n][b] # <<>> => (Caches(b))' = Caches(b)
  /\ waiters[n][b] = <<>> => /\ (Caches(b))'.tk[n] /\ ~Caches(b).tk[n] /\ (Caches(b))'.hx[n] = excl
                             /\ (Caches(b))'.ln[n] = l.state

\* The caches' part of views after a miss.
LEMMA MissedCaches ==
  ASSUME CacheT, Users, NEW n, NEW b, NEW c, NEW excl, NEW l, Missed(n, b, c, excl, l), CacheT'
  PROVE  MissCaches(n, b, excl, l)
<1>1. /\ n \in Node /\ b \in Block /\ c \in Core /\ excl \in BOOLEAN /\ NodeOf[c] = n /\ user[c].pc = "idle"
      /\ ~Locked(n) /\ serving' = serving /\ (waiters[n][b] # <<>> => l = line[n][b])
  BY DEF Missed
<1>w. PICK w : w = [core |-> c, excl |-> excl]
  OBVIOUS
<1>f. MissFacts(n, b, c, excl, l)
  BY MissedFacts
<1>2. /\ line'[n][b] = l
      /\ \A k \in Node, x \in Block : k # n \/ x # b => line'[k][x] = line[k][x]
      /\ waiters'[n][b] # <<>>
      /\ waiters[n][b] = <<>> => Head(waiters'[n][b]) = w
      /\ waiters[n][b] # <<>> => Head(waiters'[n][b]) = Head(waiters[n][b])
      /\ \A k \in Node, x \in Block : k # n \/ x # b => waiters'[k][x] = waiters[k][x]
  BY <1>w, <1>f DEF MissFacts
<1>3. /\ user'[c] = [pc |-> "wait", block |-> b, excl |-> excl]
      /\ \A d \in Core : d # c => user'[d] = user[d]
  BY <1>f DEF MissFacts
<1>4. ASSUME NEW k, NEW x
      PROVE  (WokenWriter(k, x))' = WokenWriter(k, x)
  <2>1. \A d \in Core : /\ NodeOf[d] = k /\ user'[d].pc = "woken" /\ user'[d].block = x /\ user'[d].excl
                        <=> NodeOf[d] = k /\ user[d].pc = "woken" /\ user[d].block = x /\ user[d].excl
    BY <1>1, <1>3
  <2> QED
    BY <2>1 DEF WokenWriter
<1>5. \A k \in Node, x \in Block : k # n \/ x # b =>
         (Awaited(k, x))' = Awaited(k, x) /\ (FirstWrites(k, x))' = FirstWrites(k, x)
  BY <1>1, <1>2 DEF Awaited, FirstWrites
<1>6. waiters[n][b] # <<>> => (Awaited(n, b))' = Awaited(n, b) /\ (FirstWrites(n, b))' = FirstWrites(n, b)
  BY <1>1, <1>2 DEF Awaited, FirstWrites
<1>7. waiters[n][b] = <<>> => (Awaited(n, b))' /\ ~Awaited(n, b) /\ (FirstWrites(n, b))' = excl
  <2>1. waiters[n][b] = <<>> => serving[n] # b
    BY <1>1 DEF Users, Served
  <2>2. w.excl = excl
    BY <1>w
  <2> QED
    BY <1>1, <1>2, <2>1, <2>2 DEF Awaited, FirstWrites
<1>8. \A x \in Block : x # b => (Caches(x))' = Caches(x)
  BY <1>2, <1>4, <1>5, CachesSame
<1>9. (Caches(b))' \in CachesT
  BY <1>1, CachesTypeThen
<1>10. CacheAt(Caches(b), (Caches(b))', n)
  BY <1>1, <1>2, <1>4, <1>5, CachesNow, CachesThen DEF CacheAt
<1>11. waiters[n][b] # <<>> => (Caches(b))' = Caches(b)
  <2>1. ASSUME waiters[n][b] # <<>>, NEW k \in Node
        PROVE  /\ line'[k][b].state = line[k][b].state /\ (Awaited(k, b))' = Awaited(k, b)
               /\ (FirstWrites(k, b))' = FirstWrites(k, b)
    BY <1>1, <1>2, <1>5, <1>6, <2>1
  <2> QED
    BY <1>4, <2>1, CachesSame
<1>12. waiters[n][b] = <<>> => /\ (Caches(b))'.tk[n] /\ ~Caches(b).tk[n] /\ (Caches(b))'.hx[n] = excl
                               /\ (Caches(b))'.ln[n] = l.state
  BY <1>1, <1>2, <1>7, CachesNow, CachesThen
<1> QED
  BY <1>8, <1>9, <1>10, <1>11, <1>12 DEF MissCaches

\* A line waits for an upgrade only as long as a reply is to come.
LEMMA NotUpgrading ==
  ASSUME NEW e, NEW q, NEW box, NEW b, NEW C, SoundT(e, q, box, b, C), NEW n \in Node, ~C.tk[n]
  PROVE  C.ln[n] # "SHARED_UPGRADING"
<1>a. PICK A : A = View(e, q, box, b, C)
  OBVIOUS
<1>1. Stable(A) /\ A.ln = C.ln /\ A.tk = C.tk
  BY <1>a, SoundFacts
<1>2. Token(A, n) /\ Lines(A, n)
  BY <1>1, CacheFacts
<1> QED
  BY <1>1, <1>2 DEF Token, Lines, Upgrading, Requesting

\* A thread misses: it sleeps, and the first one to do so has sent a request.
LEMMA MissStep ==
  ASSUME IInv, NEW c \in Core, NEW b \in Block, NEW excl \in BOOLEAN, Miss(c, b, excl)
  PROVE  IInv'
<1>n. PICK n : n = NodeOf[c]
  OBVIOUS
<1>t. PICK t : t = Request(n, b, excl)
  OBVIOUS
<1>c. PICK C : C = Caches(b)
  OBVIOUS
<1>1. /\ user[c].pc = "idle" /\ ~Locked(n) /\ ~Permissible(line[n][b].state, excl)
      /\ waiters' = [waiters EXCEPT ![n][b] = Append(@, [core |-> c, excl |-> excl])]
      /\ user' = [user EXCEPT ![c] = [pc |-> "wait", block |-> b, excl |-> excl]]
      /\ line' = IF waiters[n][b] = <<>> /\ t = "UPGRADE_REQ"
                 THEN [line EXCEPT ![n][b].state = "SHARED_UPGRADING"] ELSE line
      /\ inbox' = IF waiters[n][b] = <<>> THEN [inbox EXCEPT ![Home] = Append(@, ShmemMsg(t, b, n, "none"))]
                  ELSE inbox
      /\ serving' = serving /\ UNCHANGED directory /\ dram' = dram
  BY <1>n, <1>t DEF Miss
<1>2. n \in Node /\ NodeOf[c] = n
  BY <1>n, CoreAssumption
<1>3. CacheT /\ Users /\ inbox \in Boxes /\ dram' \in [Block -> Data]
  BY <1>1, InvFacts
<1>4. line[n][b] \in LineT /\ line[n][b].state \in States
  BY <1>2, <1>3, ValidData
<1>5. t = "UPGRADE_REQ" => excl /\ line[n][b].state = "SHARED"
  BY <1>t DEF Request
<1>l. PICK l : l = IF waiters[n][b] = <<>> /\ t = "UPGRADE_REQ" THEN [line[n][b] EXCEPT !.state = "SHARED_UPGRADING"]
                   ELSE line[n][b]
  OBVIOUS
<1>6. l \in LineT /\ line' = [line EXCEPT ![n][b] = l] /\ (waiters[n][b] # <<>> => l = line[n][b])
  <2>1. CASE waiters[n][b] = <<>> /\ t = "UPGRADE_REQ"
    <3>1. l = [line[n][b] EXCEPT !.state = "SHARED_UPGRADING"]
      BY <1>l, <2>1
    <3>2. l \in LineT
      BY <1>4, <1>5, <2>1, <3>1 DEF LineT, States
    <3>3. line' = [line EXCEPT ![n][b] = l]
      BY <1>1, <2>1, <3>1
    <3> QED
      BY <2>1, <3>2, <3>3
  <2>2. CASE ~(waiters[n][b] = <<>> /\ t = "UPGRADE_REQ")
    <3>1. l = line[n][b] /\ line' = line
      BY <1>1, <1>l, <2>2
    <3>2. line = [line EXCEPT ![n][b] = line[n][b]]
      BY <1>2, <1>3 DEF CacheT
    <3> QED
      BY <1>4, <3>1, <3>2
  <2> QED
    BY <2>1, <2>2
<1>7. Missed(n, b, c, excl, l)
  BY <1>1, <1>2, <1>6 DEF Missed
<1>8. CacheT' /\ Users'
  BY <1>3, <1>7, MissUsers
<1>9. MissCaches(n, b, excl, l)
  BY <1>3, <1>7, <1>8, MissedCaches
<1>10. SoundT(dir[b], reqs[b], inbox, b, C) /\ C.ln[n] = line[n][b].state
  BY <1>c, <1>2, BlockSound, CachesNow
<1>11. CASE waiters[n][b] # <<>>
  <2>1. inbox' = inbox /\ (Caches(b))' = C /\ \A x \in Block : x # b => (Caches(x))' = Caches(x)
    BY <1>1, <1>9, <1>11, <1>c DEF MissCaches
  <2>p. PICK box2 : box2 = inbox
    OBVIOUS
  <2>2. OthersKept(b, box2)
    BY <1>3, <2>1, <2>p, ElsewhereItself DEF OthersKept
  <2> QED
    BY <1>1, <1>3, <1>8, <1>10, <2>1, <2>2, <2>p, OneBlockStep
<1>12. CASE waiters[n][b] = <<>>
  <2>m. PICK m : m = ShmemMsg(t, b, n, "none")
    OBVIOUS
  <2>p. PICK box2 : box2 = Post(inbox, {Home}, m)
    OBVIOUS
  <2>x. PICK C2 : C2 = (Caches(b))'
    OBVIOUS
  <2>1. inbox' = box2
    BY <1>1, <1>3, <1>12, <2>m, <2>p, AppendHome
  <2>2. /\ C2 \in CachesT /\ CacheAt(C, C2, n) /\ C2.tk[n] /\ ~C.tk[n] /\ C2.hx[n] = excl /\ C2.ln[n] = l.state
        /\ \A x \in Block : x # b => (Caches(x))' = Caches(x)
    BY <1>9, <1>12, <1>c, <2>x DEF MissCaches
  <2>3. line[n][b].state # "SHARED_UPGRADING"
    BY <1>2, <1>10, <2>2, NotUpgrading
  <2>4. /\ t \in Requests /\ (t # "SH_REQ" => excl)
        /\ t # "UPGRADE_REQ" => line[n][b].state = "INVALID"
    BY <1>1, <1>4, <1>t, <2>3 DEF Request, Permissible, Readable, States, Requests
  <2>5. t = "UPGRADE_REQ" => C.ln[n] = "SHARED" /\ C2.ln[n] = "SHARED_UPGRADING"
    BY <1>4, <1>5, <1>10, <1>12, <1>l, <2>2 DEF LineT
  <2>6. t # "UPGRADE_REQ" => C.ln[n] = "INVALID" /\ C2.ln[n] = "INVALID"
    BY <1>10, <1>l, <2>2, <2>4
  <2>7. t # "SH_REQ" => C2.hx[n]
    BY <2>2, <2>4
  <2>8. SoundT(dir[b], reqs[b], box2, b, C2) /\ m \in Message /\ m.block = b
    <3>e. PICK e, q : e = dir[b] /\ q = reqs[b]
      OBVIOUS
    <3>1. SoundT(e, q, inbox, b, C) /\ n \in Node /\ C2 \in CachesT /\ CacheAt(C, C2, n) /\ ~C.tk[n] /\ C2.tk[n]
      BY <1>2, <1>10, <2>2, <3>e
    <3>2. SoundT(e, q, box2, b, C2) /\ m \in Message /\ m.block = b
      BY ONLY <2>m, <2>p, <2>4, <2>5, <2>6, <2>7, <3>1, RequestStep
    <3> QED
      BY <3>e, <3>2
  <2>9. ASSUME NEW x \in Block, x # b
        PROVE  Elsewhere(inbox, box2, x)
    BY <1>3, <2>8, <2>9, <2>p, PostElsewhere, DirectoryAssumption
  <2>10. OthersKept(b, box2)
    BY <2>2, <2>9 DEF OthersKept
  <2> QED
    BY <1>1, <1>3, <1>8, <2>1, <2>8, <2>10, <2>x, OneBlockStep
<1> QED
  BY <1>11, <1>12

-----------------------------------------------------------------------------
(* Stores                                                                  *)

\* A function on the positions of a sequence is a sequence.
LEMMA MapSeq ==
  ASSUME NEW M, NEW M2, NEW q \in Seq(M), NEW p \in [1..Len(q) -> M2]
  PROVE  p \in Seq(M2) /\ Len(p) = Len(q) /\ DOMAIN q = 1..Len(q)
<1>1. Len(q) \in Nat /\ DOMAIN q = 1..Len(q)
  OBVIOUS
<1>2. p \in Seq(M2)
  BY <1>1
<1>3. Len(p) \in Nat /\ DOMAIN p = 1..Len(p)
  BY <1>2
<1>4. 1..Len(p) = 1..Len(q)
  BY <1>3
<1>5. Len(p) = Len(q)
  BY <1>1, <1>3, <1>4
<1> QED
  BY <1>1, <1>2, <1>5

\* A store makes the data of messages old, and nothing else.
LEMMA AgedMessage ==
  ASSUME NEW m \in Message
  PROVE  /\ AgedMsg(m) \in Message /\ AgedMsg(m).type = m.type /\ AgedMsg(m).block = m.block /\ AgedMsg(m).from = m.from
<1>d. PICK d : d = IF m.type = "DRAM_WRITE_REQ" /\ m.data \notin {"old", "junk"} THEN "mem" ELSE Aged(m.data)
  OBVIOUS
<1>1. AgedMsg(m) = [m EXCEPT !.data = d]
  BY <1>d DEF AgedMsg
<1>2. m \in [type : MessageTypes, block : Block, from : Node, data : Data \cup {"none"}]
      /\ (m.type \in Carriers => m.data \in Data)
  BY DEF Message
<1>3. d \in Data \cup {"none"} /\ (m.type \in Carriers => d \in Data)
  BY <1>d, <1>2 DEF Aged, Data
<1>4. /\ [m EXCEPT !.data = d] \in [type : MessageTypes, block : Block, from : Node, data : Data \cup {"none"}]
      /\ [m EXCEPT !.data = d].type = m.type /\ [m EXCEPT !.data = d].block = m.block
      /\ [m EXCEPT !.data = d].from = m.from /\ [m EXCEPT !.data = d].data = d
  BY <1>2, <1>3
<1> QED
  BY <1>1, <1>3, <1>4 DEF Message

\* A store makes the data of other copies old, and nothing else.
LEMMA AgedLine ==
  ASSUME NEW l \in LineT
  PROVE  AgedCopy(l) \in LineT /\ AgedCopy(l).state = l.state
<1>d. PICK d : d = Aged(l.data)
  OBVIOUS
<1>1. AgedCopy(l) = [l EXCEPT !.data = d]
  BY <1>d DEF AgedCopy
<1>2. d \in Data \cup {"none"} /\ (d = "none" <=> l.data = "none")
  BY <1>d DEF Aged, Data
<1> QED
  BY <1>1, <1>2 DEF LineT

\* A store makes data kept with a request old, and nothing else.
LEMMA AgedRequest ==
  ASSUME NEW r \in Req
  PROVE  /\ AgedCopy(r) \in Req /\ AgedCopy(r).type = r.type /\ AgedCopy(r).node = r.node /\ AgedCopy(r).wait = r.wait
         /\ AgedCopy(r).forwardingFrom = r.forwardingFrom /\ (r.data = "none" => AgedCopy(r).data = "none")
<1>d. PICK d : d = Aged(r.data)
  OBVIOUS
<1>1. AgedCopy(r) = [r EXCEPT !.data = d]
  BY <1>d DEF AgedCopy
<1>2. d \in Data \cup {"none"} /\ (r.data = "none" => d = "none")
  BY <1>d DEF Aged, Data
<1> QED
  BY <1>1, <1>2 DEF Req

\* What a store does to lines, messages, requests and the DRAM.
StoredLines(n, b) ==
  /\ line' \in [Node -> [Block -> LineT]] /\ line'[n][b].state = "MODIFIED"
  /\ \A k \in Node, x \in Block : k # n \/ x # b => line'[k][x].state = line[k][x].state

\* Messages differ in their data only.
StoredBoxes == inbox' \in Boxes /\ \A k \in Node : Alike(inbox[k], inbox'[k])

\* Requests differ in their data only.
AlikeRequests(q, q2) ==
  /\ q2 \in Seq(Req) /\ Len(q2) = Len(q)
  /\ \A k \in 1..Len(q) : /\ q2[k].type = q[k].type /\ q2[k].node = q[k].node /\ q2[k].wait = q[k].wait
                          /\ q2[k].forwardingFrom = q[k].forwardingFrom
                          /\ q[k].data = "none" => q2[k].data = "none"

\* Those of b do, and others stay.
StoredReqs(b) ==
  /\ reqs' \in [Block -> Seq(Req)] /\ AlikeRequests(reqs[b], reqs'[b])
  /\ \A x \in Block : x # b => reqs'[x] = reqs[x]

\* The lines after a store.
LEMMA StoreLines ==
  ASSUME CacheT, NEW n \in Node, NEW b \in Block, Store(n, b)
  PROVE  StoredLines(n, b)
<1>1. line \in [Node -> [Block -> LineT]]
  BY DEF CacheT
<1>2. Line("MODIFIED", "new") \in LineT /\ Line("MODIFIED", "new").state = "MODIFIED"
  BY DEF Line, LineT, States, Data
<1>3. line' = [m \in Node |-> [line[m] EXCEPT ![b] = IF m = n THEN Line("MODIFIED", "new") ELSE AgedCopy(line[m][b])]]
  BY DEF Store
<1>4. ASSUME NEW k \in Node
      PROVE  /\ line'[k] \in [Block -> LineT] /\ (k = n => line'[k][b].state = "MODIFIED")
             /\ \A x \in Block : k # n \/ x # b => line'[k][x].state = line[k][x].state
  <2>l. PICK l : l = IF k = n THEN Line("MODIFIED", "new") ELSE AgedCopy(line[k][b])
    OBVIOUS
  <2>1. l \in LineT /\ (k = n => l.state = "MODIFIED") /\ (k # n => l.state = line[k][b].state)
    BY <1>1, <1>2, <2>l, AgedLine
  <2>2. line'[k] = [line[k] EXCEPT ![b] = l]
    BY <1>3, <2>l
  <2> QED
    BY <1>1, <2>1, <2>2
<1>5. line' \in [Node -> [Block -> LineT]]
  <2>1. DOMAIN line' = Node /\ line' = [k \in Node |-> line'[k]]
    BY <1>3
  <2> QED
    BY <1>4, <2>1
<1> QED
  BY <1>4, <1>5 DEF StoredLines

\* The messages after a store.
LEMMA StoreBoxes ==
  ASSUME inbox \in Boxes, NEW n, NEW b, Store(n, b)
  PROVE  StoredBoxes
<1>1. inbox' = [m \in Node |-> [i \in DOMAIN inbox[m] |->
                  IF inbox[m][i].block = b THEN AgedMsg(inbox[m][i]) ELSE inbox[m][i]]]
  BY DEF Store
<1>2. ASSUME NEW k \in Node, NEW M \in SUBSET Message, inbox[k] \in Seq(M),
             \A m \in Message : m \in M => AgedMsg(m) \in M
      PROVE  inbox'[k] \in Seq(M) /\ Alike(inbox[k], inbox'[k])
  <2>q. PICK q \in Seq(M) : q = inbox[k]
    BY <1>2
  <2>p. PICK p : p = [i \in 1..Len(q) |-> IF q[i].block = b THEN AgedMsg(q[i]) ELSE q[i]]
    OBVIOUS
  <2>1. inbox'[k] = p
    BY <1>1, <2>q, <2>p
  <2>2. ASSUME NEW i \in 1..Len(q)
        PROVE  /\ q[i] \in M /\ p[i] \in M /\ p[i].type = q[i].type /\ p[i].block = q[i].block /\ p[i].from = q[i].from
    <3>1. q[i] \in M /\ q[i] \in Message
      OBVIOUS
    <3>2. p[i] = IF q[i].block = b THEN AgedMsg(q[i]) ELSE q[i]
      BY <2>p
    <3> QED
      BY <1>2, <3>1, <3>2, AgedMessage
  <2>3. p \in [1..Len(q) -> M]
    <3>1. p = [i \in 1..Len(q) |-> p[i]]
      BY <2>p
    <3> QED
      BY <2>2, <3>1
  <2>4. p \in Seq(M) /\ Len(p) = Len(q)
    BY <2>3, MapSeq
  <2>5. p \in Seq(Message) /\ q \in Seq(Message)
    BY <2>4
  <2> QED
    BY <2>1, <2>2, <2>4, <2>5, <2>q DEF Alike
<1>3. ASSUME NEW k \in Node
      PROVE  inbox'[k] \in Seq(Message) /\ Alike(inbox[k], inbox'[k]) /\ (k # Home => inbox'[k] \in Seq(ToCache))
  <2>1. inbox[k] \in Seq(Message) /\ (k # Home => inbox[k] \in Seq(ToCache))
    BY DEF Boxes
  <2>2. inbox'[k] \in Seq(Message) /\ Alike(inbox[k], inbox'[k])
    BY <1>2, <2>1, AgedMessage
  <2>3. ToCache \in SUBSET Message /\ \A m \in Message : m \in ToCache => AgedMsg(m) \in ToCache
    BY AgedMessage DEF ToCache
  <2>4. k # Home => inbox'[k] \in Seq(ToCache)
    BY <1>2, <2>1, <2>3
  <2> QED
    BY <2>2, <2>4
<1>4. inbox' \in [Node -> Seq(Message)]
  <2>1. inbox' = [k \in Node |-> inbox'[k]]
    BY <1>1
  <2> QED
    BY <1>3, <2>1
<1> QED
  BY <1>3, <1>4 DEF StoredBoxes, Boxes

\* The requests after a store.
LEMMA StoreReqs ==
  ASSUME reqs \in [Block -> Seq(Req)], NEW n, NEW b \in Block, Store(n, b)
  PROVE  StoredReqs(b)
<1>q. PICK q \in Seq(Req) : q = reqs[b]
  OBVIOUS
<1>p. PICK p : p = [i \in 1..Len(q) |-> AgedCopy(q[i])]
  OBVIOUS
<1>1. DOMAIN q = 1..Len(q)
  OBVIOUS
<1>2. reqs' = [reqs EXCEPT ![b] = p]
  BY <1>q, <1>p, <1>1 DEF Store
<1>3. ASSUME NEW i \in 1..Len(q)
      PROVE  /\ p[i] \in Req /\ p[i].type = q[i].type /\ p[i].node = q[i].node /\ p[i].wait = q[i].wait
             /\ p[i].forwardingFrom = q[i].forwardingFrom /\ (q[i].data = "none" => p[i].data = "none")
  <2>1. q[i] \in Req /\ p[i] = AgedCopy(q[i])
    BY <1>p
  <2> QED
    BY <2>1, AgedRequest
<1>4. p \in [1..Len(q) -> Req]
  <2>1. p = [i \in 1..Len(q) |-> p[i]]
    BY <1>p
  <2> QED
    BY <1>3, <2>1
<1>5. p \in Seq(Req) /\ Len(p) = Len(q)
  BY <1>4, MapSeq
<1>6. AlikeRequests(q, p)
  BY <1>3, <1>5 DEF AlikeRequests
<1>7. reqs' \in [Block -> Seq(Req)] /\ reqs'[b] = p /\ \A x \in Block : x # b => reqs'[x] = reqs[x]
  BY <1>2, <1>5
<1> QED
  BY <1>6, <1>7, <1>q DEF StoredReqs

\* Lines may have become MODIFIED, and c, which does not sleep, may have gone to rest.
LEMMA UsersGoOn ==
  ASSUME CacheT, Users, waiters' = waiters, serving' = serving, line' \in [Node -> [Block -> LineT]],
         \A k \in Node, x \in Block : line'[k][x].state \in {line[k][x].state, "MODIFIED"},
         NEW c \in Core, user[c].pc # "wait", user'[c] \in {user[c], Resting},
         DOMAIN user' = Core, user' = [d \in Core |-> user'[d]], \A d \in Core : d # c => user'[d] = user[d]
  PROVE  CacheT' /\ Users'
<1>1. /\ user \in [Core -> [pc : {"idle", "wait", "woken"}, block : Block \cup {NoBlock}, excl : BOOLEAN]]
      /\ Resting \in [pc : {"idle", "wait", "woken"}, block : Block \cup {NoBlock}, excl : BOOLEAN]
      /\ Resting.pc = "idle"
  BY DEF CacheT, Resting
<1>2. user' \in [Core -> [pc : {"idle", "wait", "woken"}, block : Block \cup {NoBlock}, excl : BOOLEAN]]
  <2>1. \A d \in Core : user'[d] \in [pc : {"idle", "wait", "woken"}, block : Block \cup {NoBlock}, excl : BOOLEAN]
    BY <1>1
  <2> QED
    BY <2>1
<1>3. CacheT'
  BY <1>2 DEF CacheT
<1>4. \A k \in Node, x \in Block : Sleepers(user, Asleep(k, x), k, x) /\ Served(k, x) /\ Asleep(k, x) \in Seq(Waiter)
  BY AsleepType DEF Users
<1>5. ASSUME NEW k \in Node, NEW x \in Block
      PROVE  Sleepers(user, Asleep(k, x), k, x)' /\ (Served(k, x))'
  <2>1. (Asleep(k, x))' = Asleep(k, x)
    BY DEF Asleep
  <2>2. Sleepers(user', Asleep(k, x), k, x)
    BY <1>4, OthersSleep
  <2>3. (Served(k, x))'
    BY <1>4 DEF Served, Readable
  <2> QED
    BY <2>1, <2>2, <2>3
<1>6. ASSUME NEW d \in Core
      PROVE  (WokenOK(d))'
  <2>1. WokenOK(d) /\ NodeOf[d] \in Node
    BY CoreAssumption DEF Users
  <2>2. CASE user'[d] = Resting
    BY <1>1, <2>2 DEF WokenOK
  <2>3. CASE user'[d] = user[d]
    <3>1. SUFFICES ASSUME user[d].pc = "woken"
                   PROVE  (WokenOK(d))'
      BY <2>3 DEF WokenOK
    <3>2. user[d].block \in Block /\ Permissible(line[NodeOf[d]][user[d].block].state, user[d].excl)
      BY <2>1, <3>1 DEF WokenOK
    <3>3. Permissible(line'[NodeOf[d]][user[d].block].state, user[d].excl)
      BY <2>1, <3>2 DEF Permissible, Readable
    <3> QED
      BY <2>1, <2>3, <3>1, <3>3 DEF WokenOK
  <2> QED
    BY <2>2, <2>3
<1>7. Users'
  BY <1>5, <1>6 DEF Users
<1> QED
  BY <1>3, <1>7

\* The block may be written, and nobody but the writer has been woken to write it.
LEMMA StoreStep ==
  ASSUME IInv, NEW n \in Node, NEW b \in Block, line[n][b].state \in Owned, Store(n, b), waiters' = waiters,
         serving' = serving, protocol' = protocol, dir' = dir, slots' = slots, replaced' = replaced,
         CacheT', Users', \A k \in Node, x \in Block : k # n \/ x # b => (WokenWriter(k, x))' = WokenWriter(k, x)
  PROVE  IInv'
<1>1. CacheT /\ inbox \in Boxes /\ reqs \in [Block -> Seq(Req)] /\ dram \in [Block -> Data]
  BY InvFacts
<1>2. StoredLines(n, b) /\ StoredBoxes /\ StoredReqs(b)
  BY <1>1, StoreLines, StoreBoxes, StoreReqs
<1>3. dram' \in [Block -> Data]
  <2>1. dram' = [dram EXCEPT ![b] = IF dram[b] \in {"old", "junk"} THEN dram[b] ELSE "mem"]
    BY DEF Store
  <2> QED
    BY <1>1, <2>1 DEF Data
<1>4. \A k \in Node, x \in Block : (Awaited(k, x))' = Awaited(k, x) /\ (FirstWrites(k, x))' = FirstWrites(k, x)
  BY DEF Awaited, FirstWrites
<1>5. \A x \in Block : x # b => (Caches(x))' = Caches(x)
  BY <1>2, <1>4, CachesSame DEF StoredLines
<1>c. PICK C : C = Caches(b)
  OBVIOUS
<1>x. PICK C2 : C2 = (Caches(b))'
  OBVIOUS
<1>q. PICK q2 : q2 = reqs'[b]
  OBVIOUS
<1>p. PICK box2 : box2 = inbox'
  OBVIOUS
<1>6. C2 \in CachesT
  BY <1>x, CachesTypeThen
<1>7. CacheAt(C, C2, n)
  BY <1>2, <1>4, <1>c, <1>x, CachesNow, CachesThen DEF CacheAt, StoredLines
<1>8. C2.tk[n] = C.tk[n] /\ C2.hx[n] = C.hx[n] /\ C.ln[n] \in Owned /\ C2.ln[n] = "MODIFIED"
  BY <1>2, <1>4, <1>c, <1>x, CachesNow, CachesThen DEF StoredLines
<1>9. box2 \in Boxes /\ \A k \in Node : Alike(inbox[k], box2[k])
  BY <1>2, <1>p DEF StoredBoxes
<1>10. SoundT(dir[b], reqs[b], inbox, b, C)
  BY <1>c, BlockSound
<1>11. SoundT(dir[b], reqs[b], box2, b, C)
  BY <1>9, <1>10, AlikeBoxes
<1>12. AlikeRequests(reqs[b], q2)
  BY <1>2, <1>q DEF StoredReqs
<1>13. SoundT(dir[b], q2, box2, b, C) /\ HeadOf(q2) = HeadOf(reqs[b]) /\ (q2 = <<>> <=> reqs[b] = <<>>)
  BY <1>11, <1>12, AlikeQueues DEF AlikeRequests
<1>14. SoundT(dir[b], q2, box2, b, C2)
  BY <1>6, <1>7, <1>8, <1>13, MoveStep
<1>15. ASSUME NEW x \in Block
       PROVE  SoundT(dir[x], reqs'[x], inbox', x, (Caches(x))')
  <2>1. CASE x = b
    BY <1>14, <1>p, <1>q, <1>x, <2>1
  <2>2. CASE x # b
    <3>1. SoundT(dir[x], reqs[x], inbox, x, Caches(x))
      BY BlockSound
    <3>2. SoundT(dir[x], reqs[x], box2, x, Caches(x))
      BY <1>9, <3>1, AlikeBoxes
    <3>3. reqs'[x] = reqs[x]
      BY <1>2, <2>2 DEF StoredReqs
    <3> QED
      BY <1>5, <1>p, <2>2, <3>2, <3>3
  <2> QED
    BY <2>1, <2>2
<1>16. SameDirectory
  <2>1. reqs' \in [Block -> Seq(Req)] /\ \A x \in Block : x # b => reqs'[x] = reqs[x]
    BY <1>2 DEF StoredReqs
  <2>2. ASSUME NEW x \in Block
        PROVE  HeadOf(reqs'[x]) = HeadOf(reqs[x]) /\ (reqs'[x] = <<>> <=> reqs[x] = <<>>)
    <3>1. CASE x = b
      BY <1>13, <1>q, <3>1
    <3>2. CASE x # b
      BY <2>1, <3>2
    <3> QED
      BY <3>1, <3>2
  <2> QED
    BY <2>1, <2>2 DEF SameDirectory
<1>17. inbox' \in Boxes
  BY <1>9, <1>p
<1> QED
  BY <1>3, <1>15, <1>16, <1>17, LlcStep

\* A thread writes a line that it may write.
LEMMA WriteHitStep ==
  ASSUME IInv, NEW c \in Core, NEW b \in Block, WriteHit(c, b)
  PROVE  IInv'
<1>n. PICK n : n = NodeOf[c]
  OBVIOUS
<1>1. /\ user[c].pc = "idle" /\ Permissible(line[n][b].state, TRUE) /\ Store(n, b)
      /\ waiters' = waiters /\ user' = user /\ serving' = serving
      /\ protocol' = protocol /\ dir' = dir /\ slots' = slots /\ replaced' = replaced
  BY <1>n DEF WriteHit
<1>2. n \in Node
  BY <1>n, CoreAssumption
<1>3. CacheT /\ Users
  BY InvFacts
<1>4. line[n][b].state \in Owned
  BY <1>1 DEF Permissible, Owned
<1>5. StoredLines(n, b)
  BY <1>1, <1>2, <1>3, StoreLines
<1>6. CacheT' /\ Users'
  <2>1. line' \in [Node -> [Block -> LineT]]
        /\ \A k \in Node, x \in Block : line'[k][x].state \in {line[k][x].state, "MODIFIED"}
    BY <1>5 DEF StoredLines
  <2>2. DOMAIN user' = Core /\ user' = [d \in Core |-> user'[d]]
    BY <1>1, <1>3 DEF CacheT
  <2>3. user[c].pc # "wait" /\ user'[c] \in {user[c], Resting} /\ \A d \in Core : d # c => user'[d] = user[d]
    BY <1>1
  <2> QED
    BY <1>1, <1>3, <2>1, <2>2, <2>3, UsersGoOn
<1>7. \A k \in Node, x \in Block : (WokenWriter(k, x))' = WokenWriter(k, x)
  BY <1>1 DEF WokenWriter
<1> QED
  BY <1>1, <1>2, <1>4, <1>6, <1>7, StoreStep

\* A woken thread makes its access.
LEMMA FillStep ==
  ASSUME IInv, NEW c \in Core, Fill(c)
  PROVE  IInv'
<1>n. PICK n : n = NodeOf[c]
  OBVIOUS
<1>b. PICK b : b = user[c].block
  OBVIOUS
<1>1. /\ user[c].pc = "woken" /\ user' = [user EXCEPT ![c] = Resting]
      /\ waiters' = waiters /\ serving' = serving
      /\ protocol' = protocol /\ dir' = dir /\ slots' = slots /\ replaced' = replaced
  BY DEF Fill
<1>2. \/ user[c].excl /\ Store(n, b)
      \/ ~user[c].excl /\ UNCHANGED <<line, inbox, reqs, dram, forwarded>>
  BY <1>n, <1>b DEF Fill
<1>3. CacheT /\ Users /\ n \in Node
  BY <1>n, InvFacts, CoreAssumption
<1>4. b \in Block /\ Permissible(line[n][b].state, user[c].excl)
  <2>1. WokenOK(c)
    BY <1>3 DEF Users
  <2> QED
    BY <1>1, <1>n, <1>b, <2>1 DEF WokenOK
<1>5. /\ user[c].pc # "wait" /\ user'[c] = Resting /\ user'[c] \in {user[c], Resting}
      /\ \A d \in Core : d # c => user'[d] = user[d]
      /\ DOMAIN user' = Core /\ user' = [d \in Core |-> user'[d]]
  BY <1>1, <1>3 DEF CacheT
<1>6. Resting.pc = "idle"
  BY DEF Resting
<1>7. ASSUME NEW k \in Node, NEW x \in Block, k # n \/ x # b \/ ~user[c].excl
      PROVE  (WokenWriter(k, x))' = WokenWriter(k, x)
  <2>1. ASSUME NEW d \in Core
        PROVE  /\ NodeOf[d] = k /\ user'[d].pc = "woken" /\ user'[d].block = x /\ user'[d].excl
               <=> NodeOf[d] = k /\ user[d].pc = "woken" /\ user[d].block = x /\ user[d].excl
    <3>1. CASE d = c
      BY <1>5, <1>6, <1>7, <1>n, <1>b, <3>1
    <3>2. CASE d # c
      BY <1>5, <3>2
    <3> QED
      BY <3>1, <3>2
  <2> QED
    BY <2>1 DEF WokenWriter
<1>8. CASE user[c].excl /\ Store(n, b)
  <2>1. line[n][b].state \in Owned
    BY <1>4, <1>8 DEF Permissible, Owned
  <2>2. StoredLines(n, b)
    BY <1>3, <1>4, <1>8, StoreLines
  <2>3. line' \in [Node -> [Block -> LineT]]
        /\ \A k \in Node, x \in Block : line'[k][x].state \in {line[k][x].state, "MODIFIED"}
    BY <2>2 DEF StoredLines
  <2>4. CacheT' /\ Users'
    BY <1>1, <1>3, <1>5, <2>3, UsersGoOn
  <2> QED
    BY <1>1, <1>3, <1>4, <1>7, <1>8, <2>1, <2>4, StoreStep
<1>9. CASE ~user[c].excl /\ UNCHANGED <<line, inbox, reqs, dram, forwarded>>
  <2>1. line' \in [Node -> [Block -> LineT]]
        /\ \A k \in Node, x \in Block : line'[k][x].state \in {line[k][x].state, "MODIFIED"}
    BY <1>3, <1>9 DEF CacheT
  <2>2. CacheT' /\ Users'
    BY <1>1, <1>3, <1>5, <2>1, UsersGoOn
  <2>3. \A k \in Node, x \in Block : (Awaited(k, x))' = Awaited(k, x) /\ (FirstWrites(k, x))' = FirstWrites(k, x)
    BY <1>1 DEF Awaited, FirstWrites
  <2>4. \A x \in Block : (Caches(x))' = Caches(x)
    BY <1>7, <1>9, <2>3, CachesSame
  <2>5. \A x \in Block : SoundT(dir[x], reqs'[x], inbox', x, (Caches(x))')
    BY <1>9, <2>4, BlockSound
  <2>6. SameDirectory /\ inbox' \in Boxes /\ dram' \in [Block -> Data]
    BY <1>1, <1>9, InvFacts DEF SameDirectory
  <2> QED
    BY <2>2, <2>5, <2>6, LlcStep
<1> QED
  BY <1>2, <1>8, <1>9

-----------------------------------------------------------------------------
(* The inductive invariant.                                                *)

\* Nothing is in an empty queue.
LEMMA NoMessages ==
  ASSUME NEW b
  PROVE  /\ RepliesIn(<<>>, b) = {} /\ \A st : LiveIn(<<>>, st, b) = {} /\ CacheOrder(<<>>, st, b)
         /\ \A n : ReturnsIn(<<>>, n, b) = {} /\ HomeOrder(<<>>, n, b)
         /\ ReadIn(<<>>, b) = FALSE /\ ReadOrder(<<>>, b)
<1>1. \A C : At(<<>>, C) = {}
  BY DEF At
<1>2. \A G, E : Behind(<<>>, G, E) = {}
  BY <1>1 DEF Behind
<1>3. \A st, T : LiveAt(<<>>, st, b, T) = {}
  BY <1>1, <1>2 DEF LiveAt
<1>4. \A C : ~In(<<>>, C) /\ One(<<>>, C) /\ \A E : Before(<<>>, C, E)
  BY <1>1 DEF In, One, Before
<1>5. RepliesIn(<<>>, b) = {} /\ \A n : ReturnsIn(<<>>, n, b) = {}
  BY <1>4 DEF RepliesIn, ReturnsIn
<1>6. \A st : LiveIn(<<>>, st, b) = {} /\ CacheOrder(<<>>, st, b)
  BY <1>1, <1>3, <1>4 DEF LiveIn, CacheOrder
<1>7. \A n : HomeOrder(<<>>, n, b)
  BY <1>4 DEF HomeOrder
<1> QED
  BY <1>4, <1>5, <1>6, <1>7 DEF ReadIn, ReadOrder

\* Nothing has been requested.
LEMMA InitialView ==
  ASSUME NEW A \in AbsT, A.e = DirectoryEntry, A.r = NoReq, ~A.rd,
         \A n \in Node : /\ A.a[n] = {} /\ A.s[n] = {} /\ A.l[n] = {} /\ A.f[n] = {}
                         /\ A.ln[n] = "INVALID" /\ ~A.tk[n]
  PROVE  Stable(A)
<1>1. A.e.state = "UNCACHED" /\ A.e.sharers = {}
  BY DEF DirectoryEntry
<1>2. A.r.type = "NONE" /\ ~A.r.wait /\ A.r.forwardingFrom = NoNode /\ "NONE" \notin Requests
  BY DEF NoReq, Requests
<1>3. EntryInv(A) /\ HeadInv(A) /\ Idles(A)
  BY <1>1, <1>2 DEF EntryInv, HeadInv, Idles, Owned
<1>4. ASSUME NEW n \in Node
      PROVE  CoreN(A, n) /\ QuietN(A, n)
  <2>1. /\ ~Granted(A, n) /\ ~Dropped(A, n) /\ ~Pending(A, n) /\ ~Upgrading(A, n) /\ ~Requesting(A, n)
        /\ ~Reachable(A, n) /\ ~Fetching(A, n)
    BY <1>2 DEF Granted, Dropped, Pending, Upgrading, Requesting, Reachable, Fetching
  <2>2. Single(A, n)
    BY <2>1 DEF Single
  <2>3. Present(A, n)
    BY <1>1, <2>1 DEF Present
  <2>4. Token(A, n)
    BY <2>1 DEF Token
  <2>5. Lines(A, n)
    BY <2>1 DEF Lines
  <2>6. Known(A, n)
    BY <1>1 DEF Known, Owned
  <2>7. QuietN(A, n)
    BY <2>1 DEF QuietN
  <2> QED
    BY <2>2, <2>3, <2>4, <2>5, <2>6, <2>7 DEF CoreN
<1> QED
  BY <1>3, <1>4 DEF Stable, CoreInv, Quiet

\* The invariant holds at the start.
LEMMA InitialInvariant ==
  ASSUME Init
  PROVE  IInv
<1>1. /\ line = [n \in Node |-> [b \in Block |-> Invalid]] /\ waiters = [n \in Node |-> [b \in Block |-> <<>>]]
      /\ user = [c \in Core |-> Resting] /\ serving = [n \in Node |-> NoBlock]
  BY DEF Init
<1>2. /\ dir = [b \in Block |-> DirectoryEntry] /\ reqs = [b \in Block |-> <<>>] /\ slots = {} /\ replaced = {}
      /\ inbox = [n \in Node |-> <<>>] /\ dram = [b \in Block |-> "new"]
  BY DEF Init
<1>3. NoBlock \notin Block /\ NodeOf \in [Core -> Node] /\ Home \in Node
  BY CoreAssumption, DirectoryAssumption
<1>4. Invalid \in LineT /\ Invalid.state = "INVALID" /\ Resting.pc = "idle"
      /\ Resting \in [pc : {"idle", "wait", "woken"}, block : Block \cup {NoBlock}, excl : BOOLEAN]
  BY DEF Invalid, Line, LineT, States, Data, Resting
<1>5. CacheT
  <2>1. <<>> \in Seq(Waiter)
    OBVIOUS
  <2> QED
    BY <1>1, <1>4, <2>1 DEF CacheT
<1>6. Users
  <2>1. ASSUME NEW n \in Node, NEW b \in Block
        PROVE  Sleepers(user, Asleep(n, b), n, b) /\ Served(n, b)
    <3>1. Asleep(n, b) = <<>> /\ serving[n] # b
      BY <1>1, <1>3 DEF Asleep
    <3>2. Len(<<>>) = 0
      OBVIOUS
    <3>3. Sleepers(user, <<>>, n, b)
      BY <3>2 DEF Sleepers
    <3> QED
      BY <3>1, <3>3 DEF Served
  <2>2. \A c \in Core : WokenOK(c)
    BY <1>1, <1>4 DEF WokenOK
  <2> QED
    BY <2>1, <2>2 DEF Users
<1>7. dram \in [Block -> Data]
  BY <1>2 DEF Data
<1>8. inbox \in Boxes
  <2>1. <<>> \in Seq(Message) /\ <<>> \in Seq(ToCache)
    OBVIOUS
  <2>2. inbox \in [Node -> Seq(Message)] /\ \A n \in Node \ {Home} : inbox[n] \in Seq(ToCache)
    BY <1>2, <2>1
  <2> QED
    BY <2>2 DEF Boxes
<1>9. dir \in [Block -> EntryT] /\ reqs \in [Block -> Seq(Req)]
  <2>1. DirectoryEntry \in EntryT
    BY DEF EntryT, DirectoryEntry
  <2>2. <<>> \in Seq(Req)
    OBVIOUS
  <2> QED
    BY <1>2, <2>1, <2>2
<1> DEFINE D == DirectoryState(inbox)
<1>10. D.dir = dir /\ D.reqs = reqs /\ D.slots = {} /\ D.replaced = {} /\ D.inbox = inbox /\ D.run = FALSE
  BY <1>2, StateFields
<1>11. D \in DirT
  BY <1>2, <1>8, <1>9 DEF DirectoryState, DirT
<1> HIDE DEF D
<1>12. Alloc(D)
  <2>1. IsFiniteSet({}) /\ Cardinality({}) = 0
    BY FS_EmptySet
  <2>2. Ways \in Nat
    BY DirectoryAssumption
  <2>3. ASSUME NEW x \in Block
        PROVE  AllocOf(D, x)
    BY <1>2, <1>10 DEF AllocOf, HeadOf, NoReq, DirectoryEntry
  <2> QED
    BY <1>10, <2>1, <2>2, <2>3 DEF Alloc
<1>13. EntriesFound(D)
  BY <1>2, <1>10 DEF EntriesFound
<1>14. ASSUME NEW x \in Block
       PROVE  Settled(D, x)
  <2>q. PICK q : q = D.reqs[x]
    OBVIOUS
  <2>1. q = <<>> /\ q \in Seq(Req) /\ HeadOf(q) = NoReq
    BY <1>2, <1>10, <2>q DEF HeadOf
  <2>2. QueueInv(q) /\ \A n : AskedIn(q, n) = {}
    <3>1. Len(q) = 0
      BY <2>1
    <3> QED
      BY <2>1, <3>1 DEF QueueInv, AskedIn
  <2>3. Ordered(inbox, x, Caches(x))
    BY <1>2, <1>3, NoMessages DEF Ordered
  <2>4. D.dir[x] = DirectoryEntry /\ ForwarderKnown(D.dir[x], protocol)
    BY <1>2, <1>10 DEF ForwarderKnown, DirectoryEntry
  <2>c. PICK C : C = Caches(x)
    OBVIOUS
  <2>5. C \in CachesT /\ D.dir[x] \in EntryT
    BY <1>5, <1>9, <1>10, <2>c, CachesType
  <2>6. \A n \in Node : C.ln[n] = "INVALID" /\ ~C.tk[n]
    BY <1>1, <1>4, <2>c DEF Caches, Awaited
  <2>a. PICK A : A = View(D.dir[x], q, inbox, x, C)
    OBVIOUS
  <2>7. A \in AbsT
    BY <2>1, <2>5, <2>a, ViewType
  <2>8. /\ A.e = DirectoryEntry /\ A.r = NoReq /\ A.ln = C.ln /\ A.tk = C.tk
        /\ \A n \in Node : /\ A.a[n] = AskedIn(q, n) /\ A.s[n] = RepliesIn(inbox[n], x)
                           /\ A.l[n] = LiveIn(inbox[n], C.ln[n], x) /\ A.f[n] = ReturnsIn(inbox[Home], n, x)
        /\ A.rd = ReadIn(inbox[Home], x)
    BY <2>1, <2>4, <2>a, ViewFields
  <2>9. \A n \in Node : inbox[n] = <<>>
    BY <1>2
  <2>10. /\ ~A.rd
         /\ \A n \in Node : /\ A.a[n] = {} /\ A.s[n] = {} /\ A.l[n] = {} /\ A.f[n] = {}
                            /\ A.ln[n] = "INVALID" /\ ~A.tk[n]
    BY <1>3, <2>2, <2>6, <2>8, <2>9, NoMessages
  <2>11. Stable(A)
    BY <2>7, <2>8, <2>10, InitialView
  <2> QED
    BY <1>10, <2>q, <2>2, <2>3, <2>4, <2>a, <2>c, <2>11 DEF Settled, Kept, DirView
<1>15. Between(D)
  BY <1>10, <1>11, <1>12, <1>13, <1>14 DEF Between
<1> QED
  BY <1>5, <1>6, <1>7, <1>15 DEF IInv, D

\* A step that changes nothing.
LEMMA StutterStep ==
  ASSUME IInv, UNCHANGED vars
  PROVE  IInv'
<1>1. /\ UNCHANGED CacheVars /\ protocol' = protocol /\ dir' = dir /\ reqs' = reqs /\ slots' = slots /\ replaced' = replaced
      /\ inbox' = inbox /\ dram' = dram
  BY DEF vars, CacheVars
<1>2. CacheT /\ Users /\ inbox \in Boxes /\ reqs \in [Block -> Seq(Req)] /\ dram \in [Block -> Data]
  BY InvFacts
<1>3. CacheT' /\ Users' /\ \A x : (Caches(x))' = Caches(x)
  BY <1>1, <1>2, NoLineStep
<1>4. \A x \in Block : SoundT(dir[x], reqs'[x], inbox', x, (Caches(x))')
  BY <1>1, <1>3, BlockSound
<1>5. SameDirectory
  BY <1>1, <1>2 DEF SameDirectory
<1> QED
  BY <1>1, <1>2, <1>3, <1>4, <1>5, LlcStep

\* Every step of a network thread keeps the invariant.
LEMMA NetworkStep ==
  ASSUME IInv, NEW n \in Node, NetworkThread(n)
  PROVE  IInv'
  BY DataRepStep, UpgradeRepStep, NextWaiterStep, InvalidateReqStep, WbReqStep, DirectoryReqStep, InvRepStep,
     FlushRepStep, WbRepStep, DramReadRepStep, DramReqStep DEF NetworkThread

\* Every access of a user thread keeps the invariant.
LEMMA AccessStep ==
  ASSUME IInv, NEW c \in Core, Access(c)
  PROVE  IInv'
  BY WriteHitStep, MissStep DEF Access

\* The inductive invariant holds in every reachable state, for all sets of nodes, cores
\* and blocks, all three protocols and every number of ways: whatever order the
\* directory's, the LLC's and the DRAM controller's handlers and the user threads run in.
THEOREM Invariance == Spec => []IInv
<1>1. Init => IInv
  BY InitialInvariant
<1>2. IInv /\ [Next]_vars => IInv'
  <2>1. ASSUME IInv, Next
        PROVE  IInv'
    BY <2>1, NetworkStep, OtherBlockRepStep, AccessStep, FillStep DEF Next
  <2>2. ASSUME IInv, UNCHANGED vars
        PROVE  IInv'
    BY <2>2, StutterStep
  <2> QED
    BY <2>1, <2>2
<1> QED
  BY <1>1, <1>2, PTL DEF Spec

-----------------------------------------------------------------------------
(* What follows from it.                                                   *)

\* The view of a block.
LEMMA Views ==
  ASSUME IInv, NEW b \in Block
  PROVE  \E A : /\ A = View(dir[b], reqs[b], inbox, b, Caches(b)) /\ Stable(A) /\ A \in AbsT
                /\ Ordered(inbox, b, Caches(b)) /\ QueueInv(reqs[b]) /\ ForwarderKnown(dir[b], protocol)
                /\ A.e = dir[b] /\ A.r = HeadOf(reqs[b])
                /\ \A n \in Node : A.ln[n] = line[n][b].state /\ A.tk[n] = Awaited(n, b)
<1>c. PICK C : C = Caches(b)
  OBVIOUS
<1>a. PICK A : A = View(dir[b], reqs[b], inbox, b, C)
  OBVIOUS
<1>1. SoundT(dir[b], reqs[b], inbox, b, C)
  BY <1>c, BlockSound
<1>2. /\ Stable(A) /\ A \in AbsT /\ Ordered(inbox, b, C) /\ QueueInv(reqs[b]) /\ ForwarderKnown(dir[b], protocol)
      /\ A.e = dir[b] /\ A.ln = C.ln /\ A.tk = C.tk
  BY <1>1, <1>a, SoundFacts
<1>3. A.r = HeadOf(reqs[b])
  BY <1>a, ViewFields
<1>4. \A n \in Node : A.ln[n] = line[n][b].state /\ A.tk[n] = Awaited(n, b)
  BY <1>2, <1>c, CachesNow
<1> QED
  BY <1>a, <1>c, <1>2, <1>3, <1>4

\* The type invariant follows.
LEMMA TypesOK ==
  ASSUME IInv
  PROVE  TypeOK
<1>1. CacheT /\ dir \in [Block -> EntryT] /\ dram \in [Block -> Data] /\ Alloc(DirectoryState(inbox))
  BY InvFacts
<1>2. slots \cap replaced = {} /\ Cardinality(slots) <= Ways
  BY <1>1, StateFields DEF Alloc
<1>3. \A n \in Node, b \in Block :
        line[n][b].state \in States /\ (line[n][b].data = "none" <=> line[n][b].state = "INVALID")
  <2>1. \A n \in Node, b \in Block : line[n][b] \in LineT
    BY <1>1 DEF CacheT
  <2> QED
    BY <2>1 DEF LineT
<1>4. \A b \in Block : dir[b].sharers \subseteq Node /\ dir[b].owner \in Node \cup {NoNode}
  BY <1>1 DEF EntryT
<1>5. (\A c \in Core : user[c].pc \in {"idle", "wait", "woken"}) /\ serving \in [Node -> Block \cup {NoBlock}]
  BY <1>1 DEF CacheT
<1> QED
  BY <1>1, <1>2, <1>3, <1>4, <1>5 DEF TypeOK, Data

\* A valid line is one of a sharer.
LEMMA Copies ==
  ASSUME IInv, NEW n \in Node, NEW b \in Block
  PROVE  /\ line[n][b].state # "INVALID" => n \in dir[b].sharers
         /\ line[n][b].state \in Owned => dir[b].sharers = {n}
<1>a. PICK A : /\ Stable(A) /\ A \in AbsT /\ A.e = dir[b] /\ A.ln[n] = line[n][b].state
  BY Views
<1>1. Present(A, n) /\ Known(A, n) /\ CoreInv(A) /\ A.e \in EntryT
  BY <1>a, CacheFacts
<1>2. EntryInv(A)
  BY <1>1 DEF CoreInv
<1>3. A.ln[n] # "INVALID" => n \in A.e.sharers
  BY <1>1 DEF Present, Reachable
<1>4. A.ln[n] \in Owned => A.e.state # "SHARED"
  BY <1>1 DEF Known
<1>5. A.ln[n] \in Owned => A.e.sharers = {n}
  <2>1. SUFFICES ASSUME A.ln[n] \in Owned
                 PROVE  A.e.sharers = {n}
    OBVIOUS
  <2>2. n \in A.e.sharers
    BY <1>3, <2>1 DEF Owned
  <2>3. A.e.state \in {"UNCACHED", "SHARED", "EXCLUSIVE", "MODIFIED"}
    BY <1>1 DEF EntryT
  <2>4. A.e.state \in Owned
    BY <1>2, <1>4, <2>1, <2>2, <2>3 DEF EntryInv, Owned
  <2>5. A.e.sharers = {A.e.owner}
    BY <1>2, <2>4 DEF EntryInv
  <2> QED
    BY <2>2, <2>5
<1> QED
  BY <1>a, <1>3, <1>5

\* Single writer follows: an owned line is that of the only sharer.
LEMMA OneWriter ==
  ASSUME IInv
  PROVE  SingleWriter
  BY Copies DEF SingleWriter, Owned

\* Every valid line is that of a sharer, and its block has an entry.
LEMMA CopiesCovered ==
  ASSUME IInv
  PROVE  DirectoryCoversCaches
<1> SUFFICES ASSUME NEW b \in Block, NEW n \in Node, line[n][b].state # "INVALID"
             PROVE  b \in slots \cup replaced /\ n \in dir[b].sharers
  BY DEF DirectoryCoversCaches
<1>1. n \in dir[b].sharers
  BY Copies
<1>2. Alloc(DirectoryState(inbox)) /\ EntriesFound(DirectoryState(inbox))
  BY InvFacts
<1>3. dir[b].sharers # {} => HasEntry(DirectoryState(inbox), b) \/ reqs[b] # <<>>
  BY <1>2, StateFields DEF Alloc, AllocOf
<1>4. reqs[b] # <<>> => HasEntry(DirectoryState(inbox), b)
  BY <1>2, StateFields DEF EntriesFound
<1>5. HasEntry(DirectoryState(inbox), b) <=> b \in slots \cup replaced
  BY StateFields DEF HasEntry
<1> QED
  BY <1>1, <1>3, <1>4, <1>5

\* The forwarder is a sharer, or there is none.
LEMMA ForwarderShares ==
  ASSUME IInv
  PROVE  ForwarderIsSharer
<1>1. \A b \in Block : ForwarderKnown(dir[b], protocol)
  BY Views
<1> QED
  BY <1>1 DEF ForwarderKnown, ForwarderIsSharer

\* A woken thread finds the line it was woken for.
LEMMA WokenHits ==
  ASSUME IInv
  PROVE  WokenThreadHits
<1>1. Users
  BY InvFacts
<1> QED
  BY <1>1 DEF Users, WokenOK, WokenThreadHits

\* A message about b that is not a request.
Underway(b) == \E n \in Node : \E i \in DOMAIN inbox[n] : inbox[n][i].block = b /\ inbox[n][i].type \notin Requests

\* A message in an inbox is under way.
LEMMA MessageFound ==
  ASSUME inbox \in Boxes, NEW n \in Node, NEW b, NEW T, T \cap Requests = {}, In(inbox[n], Kind(b, T))
  PROVE  Underway(b)
<1>1. PICK i \in 1..Len(inbox[n]) : inbox[n][i] \in Kind(b, T)
  BY DEF In, At
<1>2. inbox[n] \in Seq(Message)
  BY DEF Boxes
<1>3. i \in DOMAIN inbox[n]
  BY <1>2
<1>4. inbox[n][i].block = b /\ inbox[n][i].type \notin Requests
  BY <1>1 DEF Kind
<1> QED
  BY <1>3, <1>4 DEF Underway

\* Whoever is to answer has a message under way.
LEMMA AnswerUnderway ==
  ASSUME IInv, NEW b \in Block, NEW A, A = View(dir[b], reqs[b], inbox, b, Caches(b)), NEW n \in Node,
         A.rd \/ Answering(A, n)
  PROVE  Underway(b)
<1>1. inbox \in Boxes /\ Home \in Node
  BY InvFacts, DirectoryAssumption
<1>2. /\ A.rd = ReadIn(inbox[Home], b) /\ A.l[n] = LiveIn(inbox[n], Caches(b).ln[n], b)
      /\ A.f[n] = ReturnsIn(inbox[Home], n, b)
  BY ViewFields
<1>3. CASE A.rd
  <2>1. In(inbox[Home], Kind(b, Reads)) /\ Reads \cap Requests = {}
    BY <1>2, <1>3 DEF ReadIn, Reads, Requests
  <2> QED
    BY <1>1, <2>1, MessageFound
<1>4. CASE A.l[n] # {}
  <2>1. PICK t \in Snoops : LiveAt(inbox[n], Caches(b).ln[n], b, {t}) # {}
    BY <1>2, <1>4 DEF LiveIn
  <2>2. In(inbox[n], Kind(b, {t}))
    BY <2>1 DEF LiveAt, Behind, In
  <2>3. {t} \cap Requests = {}
    BY DEF Snoops, Requests
  <2> QED
    BY <1>1, <2>2, <2>3, MessageFound
<1>5. CASE "WB_REP" \in A.f[n] \/ Dropped(A, n)
  <2>1. PICK t \in {"WB_REP", "INV_REP", "FLUSH_REP"} : In(inbox[Home], KindOf(n, b, {t}))
    BY <1>2, <1>5 DEF Dropped, ReturnsIn
  <2>2. In(inbox[Home], Kind(b, {t})) /\ {t} \cap Requests = {}
    BY <2>1 DEF In, At, Kind, KindOf, Requests
  <2> QED
    BY <1>1, <2>2, MessageFound
<1> QED
  BY <1>3, <1>4, <1>5 DEF Answering

\* A request that waits is waited for by a message.
LEMMA NotStranded ==
  ASSUME IInv
  PROVE  RequestNotStranded
<1> SUFFICES ASSUME NEW b \in Block, reqs[b] # <<>>
             PROVE  Underway(b)
  BY DEF RequestNotStranded, Underway
<1>a. PICK A : /\ A = View(dir[b], reqs[b], inbox, b, Caches(b)) /\ Stable(A) /\ A \in AbsT
               /\ QueueInv(reqs[b]) /\ A.r = HeadOf(reqs[b])
  BY Views
<1>1. A.r.type \in Requests \cup {"NULLIFY_REQ"}
  BY <1>a, HeadFacts
<1>2. ~Idles(A)
  BY <1>1 DEF Idles, Requests
<1>3. AwaitInv(A) /\ CoreInv(A)
  BY <1>a, <1>2 DEF Stable, Waiting
<1>4. \E n \in Node : A.rd \/ Answering(A, n)
  <2>1. EntryInv(A) /\ HeadInv(A) /\ A.e \in EntryT /\ A.r \in HeadT
    BY <1>3 DEF CoreInv, AbsT
  <2>2. Home \in Node
    BY DirectoryAssumption
  <2>3. CASE A.r.wait
    BY <1>3, <2>2, <2>3 DEF AwaitInv
  <2>4. CASE ~A.r.wait /\ A.r.type = "SH_REQ" /\ A.r.forwardingFrom = NoNode
    <3>1. A.e.state \in Owned /\ Answering(A, A.e.owner)
      BY <1>3, <2>4 DEF AwaitInv
    <3>2. A.e.owner \in Node
      BY <2>1, <3>1 DEF EntryInv, EntryT
    <3> QED
      BY <3>1, <3>2
  <2>5. CASE ~A.r.wait /\ A.r.type = "SH_REQ" /\ A.r.forwardingFrom # NoNode
    <3>1. A.r.forwardingFrom \in Node /\ Answering(A, A.r.forwardingFrom)
      BY <1>3, <2>1, <2>5 DEF AwaitInv, HeadT
    <3> QED
      BY <3>1
  <2>6. CASE ~A.r.wait /\ A.r.type \in {"EX_REQ", "NULLIFY_REQ"}
    BY <1>3, <2>1, <2>6 DEF AwaitInv, EntryT
  <2>7. CASE ~A.r.wait /\ A.r.type = "UPGRADE_REQ"
    BY <1>3, <2>1, <2>7 DEF AwaitInv, EntryT
  <2> QED
    BY <1>1, <2>3, <2>4, <2>5, <2>6, <2>7 DEF Requests
<1> QED
  BY <1>a, <1>4, AnswerUnderway

\* What the next message of node n says of its block.
HeadSeen(A, n, m) ==
  /\ m.type \in Snoops /\ A.ln[n] # "INVALID" => m.type \in A.l[n]
  /\ m.type \in Returns => /\ m.from \in Node /\ m.type \in A.f[m.from]
                           /\ m.type \in Drops => "WB_REP" \notin A.f[m.from]
  /\ m.type \in Reads => A.rd

\* The next message is in the view of its block.
LEMMA HeadIsSeen ==
  ASSUME IInv, NEW n \in Node, inbox[n] # <<>>, NEW m, m = Head(inbox[n]), NEW b, b = m.block, m.type \notin Grants,
         NEW A, A = View(dir[b], reqs[b], inbox, b, Caches(b))
  PROVE  HeadSeen(A, n, m)
<1>c. PICK C : C = Caches(b)
  OBVIOUS
<1>p. PICK box2 : box2 = Pop(inbox, n)
  OBVIOUS
<1>2. PICK A2 : A2 = View(dir[b], reqs[b], box2, b, C)
  OBVIOUS
<1>3. inbox \in Boxes
  BY InvFacts
<1>4. m \in Message /\ (m.type \notin Replies \cup Snoops => n = Home)
  BY <1>3, PopType
<1>5. b \in Block /\ m.from \in Node
  BY <1>4 DEF Message
<1>6. SoundT(dir[b], reqs[b], inbox, b, C) /\ A = View(dir[b], reqs[b], inbox, b, C)
  BY <1>c, <1>5, BlockSound
<1>7. Ordered(inbox, b, C) /\ A.ln = C.ln
  BY <1>6, SoundFacts
<1>8. Takes(C, C, n, m, b)
  BY SameTakes
<1>9. TakenAll(A, A2, n, m, b, C.ln[n])
  BY <1>2, <1>3, <1>6, <1>7, <1>8, <1>p, PopAll
<1>10. m.type \in Snoops /\ A.ln[n] # "INVALID" => m.type \in A.l[n]
  BY <1>7, <1>9 DEF TakenAll, TakenSnoop
<1>11. m.type \in Returns => /\ m.type \in A.f[m.from]
                             /\ m.type \in Drops => "WB_REP" \notin A.f[m.from]
  <2>1. m.type \in Returns => n = Home
    BY <1>4 DEF Returns, Requests, Drops, Replies, Grants, Snoops
  <2> QED
    BY <1>5, <1>9, <2>1 DEF TakenAll, TakenReturn
<1>12. m.type \in Reads => A.rd
  <2>1. m.type \in Reads => n = Home
    BY <1>4 DEF Reads, Replies, Grants, Snoops
  <2> QED
    BY <1>9, <2>1 DEF TakenAll, TakenRead
<1> QED
  BY <1>5, <1>10, <1>11, <1>12 DEF HeadSeen

\* The assertions on replies hold.
LEMMA ReplyExpected ==
  ASSUME IInv, NEW n \in Node, inbox[n] # <<>>, NEW m, m = Head(inbox[n]), m.type \in Replies
  PROVE  Expected(n, m)
<1>b. PICK b : b = m.block
  OBVIOUS
<1>c. PICK C : C = Caches(b)
  OBVIOUS
<1>1. inbox \in Boxes
  BY InvFacts
<1>2. m \in Message
  BY <1>1, PopType
<1>3. b \in Block /\ NextIs(inbox, n, m, b)
  BY <1>1, <1>2, <1>b DEF Message, NextIs
<1>4. SoundT(dir[b], reqs[b], inbox, b, C)
  BY <1>c, <1>3, BlockSound
<1>5. /\ C.tk[n] /\ (m.type = "UPGRADE_REP" => C.ln[n] = "SHARED_UPGRADING")
      /\ (m.type \in Grants => C.ln[n] = "INVALID")
  BY <1>3, <1>4, ReplyFacts
<1>6. C.tk[n] = Awaited(n, b) /\ C.ln[n] = line[n][b].state
  BY <1>c, CachesNow
<1>7. waiters[n][b] # <<>>
  BY <1>5, <1>6 DEF Awaited
<1>8. CASE m.type \in Grants
  BY <1>5, <1>6, <1>7, <1>8, <1>b DEF Expected, Grants
<1>9. CASE m.type = "UPGRADE_REP"
  BY <1>5, <1>6, <1>7, <1>9, <1>b DEF Expected
<1> QED
  BY <1>8, <1>9 DEF Replies

\* The assertions on all other messages hold.
LEMMA OtherExpected ==
  ASSUME IInv, NEW n \in Node, inbox[n] # <<>>, NEW m, m = Head(inbox[n]), m.type \notin Replies
  PROVE  Expected(n, m)
<1>b. PICK b : b = m.block
  OBVIOUS
<1>k. PICK k : k = m.from
  OBVIOUS
<1>1. inbox \in Boxes
  BY InvFacts
<1>2. m \in Message
  BY <1>1, PopType
<1>3. b \in Block /\ k \in Node /\ m.type \in MessageTypes
  BY <1>2, <1>b, <1>k DEF Message
<1>a. PICK A : /\ A = View(dir[b], reqs[b], inbox, b, Caches(b)) /\ Stable(A) /\ A \in AbsT
               /\ QueueInv(reqs[b]) /\ A.e = dir[b] /\ A.r = HeadOf(reqs[b])
               /\ A.ln[n] = line[n][b].state
  BY <1>3, Views
<1>4. HeadSeen(A, n, m)
  BY <1>a, <1>b, HeadIsSeen DEF Replies
<1>5. /\ Present(A, n) /\ Known(A, n) /\ (Idles(A) => QuietN(A, n)) /\ (~Idles(A) => WaitingN(A, n))
      /\ A.e \in EntryT /\ CoreInv(A)
  BY <1>a, CacheFacts
<1>6. /\ Present(A, k) /\ Known(A, k) /\ (Idles(A) => QuietN(A, k)) /\ (~Idles(A) => WaitingN(A, k))
  BY <1>3, <1>a, CacheFacts
<1>7. EntryInv(A) /\ A.e.state \in {"UNCACHED", "SHARED", "EXCLUSIVE", "MODIFIED"}
  BY <1>5 DEF CoreInv, EntryT
<1>8. (Idles(A) <=> reqs[b] = <<>>) /\ (reqs[b] # <<>> => A.r.type = Head(reqs[b]).type /\ A.r.wait = Head(reqs[b]).wait)
  BY <1>a, HeadFacts DEF Idles
<1>9. CASE m.type = "INV_REQ"
  <2>1. A.ln[n] # "INVALID" => "INV_REQ" \in A.l[n]
    BY <1>4, <1>9 DEF HeadSeen, Snoops
  <2>2. "INV_REQ" \in A.l[n] => A.e.state = "SHARED"
    BY <1>5 DEF QuietN, WaitingN
  <2>3. A.e.state = "SHARED" => A.ln[n] # "MODIFIED"
    BY <1>5 DEF Known, Owned
  <2>4. line[n][b].state # "MODIFIED"
    BY <1>a, <2>1, <2>2, <2>3
  <2> QED
    BY <1>9, <1>b, <2>4 DEF Expected
<1>10. CASE m.type = "INV_REP"
  <2>1. "INV_REP" \in A.f[k] /\ "WB_REP" \notin A.f[k]
    BY <1>4, <1>10, <1>k DEF HeadSeen, Returns, Drops
  <2>2. A.e.state \in {"SHARED", "EXCLUSIVE"}
    BY <1>6, <2>1 DEF Known
  <2>3. k \in A.e.sharers
    BY <1>6, <2>1 DEF Present, Dropped
  <2> QED
    BY <1>10, <1>a, <1>b, <1>k, <2>2, <2>3 DEF Expected
<1>11. CASE m.type = "FLUSH_REP"
  <2>1. "FLUSH_REP" \in A.f[k]
    BY <1>4, <1>11, <1>k DEF HeadSeen, Returns, Drops
  <2>2. k \in A.e.sharers
    BY <1>6, <2>1 DEF Present, Dropped
  <2>3. A.e.state \in Owned => A.e.sharers = {k}
    BY <1>7, <2>2 DEF EntryInv
  <2>4. A.e.state # "UNCACHED"
    BY <1>7, <2>2 DEF EntryInv
  <2>5. A.e.sharers # {k} => A.e.state = "SHARED"
    BY <1>7, <2>3, <2>4 DEF Owned
  <2>6. A.e.state = "SHARED" => A.r.type = "UPGRADE_REQ"
    BY <1>6, <2>1 DEF Known
  <2>7. reqs[b] # <<>> /\ Head(reqs[b]).type = "EX_REQ" => A.e.sharers = {k}
    BY <1>8, <2>5, <2>6
  <2> QED
    BY <1>11, <1>a, <1>b, <1>k, <2>2, <2>5, <2>7 DEF Expected
<1>12. CASE m.type = "WB_REP"
  <2>1. "WB_REP" \in A.f[k]
    BY <1>4, <1>12, <1>k DEF HeadSeen, Returns
  <2>2. ~Idles(A)
    BY <1>6, <2>1 DEF QuietN
  <2>3. A.r.type = "SH_REQ" /\ k \in A.e.sharers
    BY <1>6, <2>1, <2>2 DEF WaitingN
  <2>4. reqs[b] # <<>> /\ Head(reqs[b]).type = "SH_REQ"
    BY <1>8, <2>2, <2>3
  <2> QED
    BY <1>12, <1>a, <1>b, <1>k, <2>3, <2>4 DEF Expected
<1>13. CASE m.type = "DRAM_READ_REP"
  <2>1. A.rd
    BY <1>4, <1>13 DEF HeadSeen, Reads
  <2>2. ~Idles(A)
    BY <1>a, <2>1 DEF Stable, Quiet
  <2>3. AwaitInv(A)
    BY <1>a, <2>2 DEF Stable, Waiting
  <2>4. A.r.wait
    BY <2>1, <2>3 DEF AwaitInv
  <2>5. /\ A.r.type = "EX_REQ" => A.e.state = "MODIFIED"
        /\ A.r.type = "SH_REQ" => A.e.state \in {"SHARED", "EXCLUSIVE"}
    BY <2>3, <2>4 DEF AwaitInv
  <2>6. /\ reqs[b] # <<>> /\ (Head(reqs[b]).type = "EX_REQ" => A.e.state = "MODIFIED")
        /\ Head(reqs[b]).type = "SH_REQ" => A.e.state \in {"SHARED", "EXCLUSIVE"}
    BY <1>8, <2>2, <2>5
  <2> QED
    BY <1>13, <1>a, <1>b, <2>6 DEF Expected
<1>14. CASE m.type \notin {"EX_REP", "SH_REP", "UPGRADE_REP", "INV_REQ", "INV_REP", "FLUSH_REP", "WB_REP", "DRAM_READ_REP"}
  BY <1>14 DEF Expected
<1> QED
  BY <1>9, <1>10, <1>11, <1>12, <1>13, <1>14 DEF Replies, Grants

\* Every next message is expected.
LEMMA AllExpected ==
  ASSUME IInv
  PROVE  MessagesAreExpected
<1>1. \A n \in Node : inbox[n] # <<>> => Expected(n, Head(inbox[n]))
  BY ReplyExpected, OtherExpected
<1>2. ASSUME NEW n \in Node, NEW b \in Block, line[n][b].state = "SHARED_UPGRADING"
      PROVE  waiters[n][b] # <<>>
  <2>c. PICK C : C = Caches(b)
    OBVIOUS
  <2>1. SoundT(dir[b], reqs[b], inbox, b, C) /\ C.tk[n] = Awaited(n, b) /\ C.ln[n] = line[n][b].state
    BY <2>c, BlockSound, CachesNow
  <2>2. Awaited(n, b)
    BY <1>2, <2>1, NotUpgrading
  <2> QED
    BY <2>2 DEF Awaited
<1>3. ASSUME NEW b \in Block, reqs[b] # <<>>, dir[b].state = "EXCLUSIVE", Head(reqs[b]).type = "SH_REQ", ~Head(reqs[b]).wait
      PROVE  Head(reqs[b]).node # dir[b].owner
  <2>a. PICK A : /\ A = View(dir[b], reqs[b], inbox, b, Caches(b)) /\ Stable(A)
                 /\ QueueInv(reqs[b]) /\ A.e = dir[b] /\ A.r = HeadOf(reqs[b])
    BY Views
  <2>1. /\ A.r.type = "SH_REQ" /\ ~A.r.wait /\ A.r.node = Head(reqs[b]).node /\ ~Idles(A)
    BY <1>3, <2>a, HeadFacts DEF Idles
  <2>2. AwaitInv(A)
    BY <2>a, <2>1 DEF Stable, Waiting
  <2>3. A.r.node # A.e.owner
    BY <1>3, <2>a, <2>1, <2>2 DEF AwaitInv
  <2> QED
    BY <2>a, <2>1, <2>3
<1> QED
  BY <1>1, <1>2, <1>3 DEF MessagesAreExpected

-----------------------------------------------------------------------------
(* Every request has a core that sleeps.                                   *)

\* A reply is only awaited for a core that sleeps.
LEMMA SomebodySleeps ==
  ASSUME IInv, NEW b \in Block, NEW n \in Node, Awaited(n, b)
  PROVE  \E c \in Core : user[c].block = b
<1>1. waiters[n][b] # <<>> /\ serving[n] # b
  BY DEF Awaited
<1>2. CacheT /\ Users
  BY InvFacts
<1>3. Asleep(n, b) = waiters[n][b] /\ Sleepers(user, Asleep(n, b), n, b)
  BY <1>1, <1>2 DEF Asleep, Users
<1>w. PICK ws \in Seq(Waiter) : ws = waiters[n][b]
  BY <1>2 DEF CacheT
<1>4. Head(ws) = ws[1] /\ 1 \in 1..Len(ws) /\ Head(ws).core \in Core
  BY <1>1, <1>w, WaiterAt
<1>5. SleeperOf(user, ws[1], n, b)
  BY <1>3, <1>4, <1>w DEF Sleepers
<1>6. user[ws[1].core].block = b
  BY <1>5 DEF SleeperOf
<1> QED
  BY <1>4, <1>6

\* A request is that of a core that sleeps.
LEMMA AskerSleeps ==
  ASSUME IInv, NEW b \in Block, NEW n \in Node, NEW t \in Requests,
         t \in AskedIn(reqs[b], n) \/ t \in ReturnsIn(inbox[Home], n, b)
  PROVE  \E c \in Core : user[c].block = b
<1>a. PICK A : /\ A = View(dir[b], reqs[b], inbox, b, Caches(b)) /\ Stable(A) /\ A.tk[n] = Awaited(n, b)
  BY Views
<1>1. A.a[n] = AskedIn(reqs[b], n) /\ A.f[n] = ReturnsIn(inbox[Home], n, b)
  BY <1>a, ViewFields
<1>2. Token(A, n)
  BY <1>a, CacheFacts
<1>3. A.tk[n]
  BY <1>1, <1>2 DEF Token, Requesting, Requests
<1> QED
  BY <1>a, <1>3, SomebodySleeps

\* A block with an entry that is not idle.
LEMMA BusyEntry ==
  ASSUME IInv, NEW b \in slots, reqs[b] # <<>>
  PROVE  \E c \in Core : user[c].block = b
<1>1. slots \subseteq Block /\ Alloc(DirectoryState(inbox)) /\ reqs \in [Block -> Seq(Req)]
  BY InvFacts
<1>2. b \in Block /\ b \notin replaced
  BY <1>1, StateFields DEF Alloc
<1>3. HeadOf(reqs[b]).type # "NULLIFY_REQ"
  BY <1>1, <1>2, StateFields DEF Alloc, AllocOf
<1>4. QueueInv(reqs[b])
  BY <1>2, Views
<1>5. /\ HeadOf(reqs[b]).node \in Node /\ HeadOf(reqs[b]).type \in Requests
      /\ HeadOf(reqs[b]).type \in AskedIn(reqs[b], HeadOf(reqs[b]).node)
  BY <1>3, <1>4, HeadFacts
<1> QED
  BY <1>2, <1>5, AskerSleeps

\* A block that has been requested is that of a core.
LEMMA RequestedBy ==
  ASSUME IInv, NEW b \in Block, Requested(b)
  PROVE  \E c \in Core : user[c].block = b
<1>1. inbox \in Boxes /\ reqs \in [Block -> Seq(Req)] /\ Home \in Node
  BY InvFacts, DirectoryAssumption
<1>2. CASE \E i \in DOMAIN reqs[b] : reqs[b][i].type \in Requests
  <2>q. PICK q \in Seq(Req) : q = reqs[b]
    BY <1>1
  <2>1. PICK i \in DOMAIN q : q[i].type \in Requests
    BY <1>2, <2>q
  <2>2. i \in 1..Len(q) /\ q[i] \in Req
    OBVIOUS
  <2>3. q[i].node \in Node
    BY <2>2 DEF Req
  <2>4. q[i].type \in AskedIn(q, q[i].node)
    BY <2>1, <2>2 DEF AskedIn
  <2> QED
    BY <2>q, <2>1, <2>3, <2>4, AskerSleeps
<1>3. CASE \E i \in DOMAIN inbox[Home] : inbox[Home][i].block = b /\ inbox[Home][i].type \in Requests
  <2>q. PICK q \in Seq(Message) : q = inbox[Home]
    BY <1>1 DEF Boxes
  <2>1. PICK i \in DOMAIN q : q[i].block = b /\ q[i].type \in Requests
    BY <1>3, <2>q
  <2>2. i \in 1..Len(q) /\ q[i] \in Message
    OBVIOUS
  <2>3. q[i].from \in Node
    BY <2>2 DEF Message
  <2>4. q[i] \in KindOf(q[i].from, b, {q[i].type}) /\ q[i].type \in Returns
    BY <2>1, <2>2 DEF KindOf, Returns
  <2>5. In(q, KindOf(q[i].from, b, {q[i].type}))
    BY <2>2, <2>4 DEF In, At
  <2>6. q[i].type \in ReturnsIn(q, q[i].from, b)
    BY <2>4, <2>5 DEF ReturnsIn
  <2> QED
    BY <2>q, <2>1, <2>3, <2>6, AskerSleeps
<1> QED
  BY <1>2, <1>3 DEF Requested

\* A core is in one place.
LEMMA OneBlockPerCore ==
  ASSUME NEW S, IsFiniteSet(Core), \A x \in S : \E c \in Core : user[c].block = x
  PROVE  IsFiniteSet(S) /\ Cardinality(S) <= Cardinality(Core)
<1> DEFINE f == [x \in S |-> CHOOSE c \in Core : user[c].block = x]
<1>1. \A x \in S : f[x] \in Core /\ user[f[x]].block = x
  OBVIOUS
<1>2. f \in [S -> Core]
  BY <1>1
<1> HIDE DEF f
<1>3. \A x, y \in S : f[x] = f[y] => x = y
  BY <1>1
<1>4. f \in Injection(S, Core)
  BY <1>2, <1>3 DEF Injection, IsInjective
<1> QED
  BY <1>4, FS_Injection

\* Every entry in use belongs to a core of its own, which sleeps: one is left to replace.
LEMMA EntryToReplace ==
  ASSUME IInv
  PROVE  ReplacementFound
<1> SUFFICES ASSUME Ways >= Cardinality(Core), NEW b \in Block \ slots, Requested(b), Cardinality(slots) = Ways,
                    Idle(DirectoryState(inbox)) = {}
             PROVE  FALSE
  BY DEF ReplacementFound
<1>1. IsFiniteSet(slots) /\ IsFiniteSet(Core)
  BY InvFacts, StateFields, CoreAssumption DEF Alloc
<1>2. \A v \in slots : reqs[v] # <<>>
  BY StateFields DEF Idle
<1>3. \A x \in slots \cup {b} : \E c \in Core : user[c].block = x
  BY <1>2, BusyEntry, RequestedBy
<1>4. Cardinality(slots \cup {b}) <= Cardinality(Core)
  BY <1>1, <1>3, OneBlockPerCore
<1>5. Cardinality(slots \cup {b}) = Cardinality(slots) + 1
  BY <1>1, FS_AddElement
<1>6. Cardinality(slots) \in Nat /\ Cardinality(Core) \in Nat
  BY <1>1, FS_CardinalityType
<1> QED
  BY <1>4, <1>5, <1>6

-----------------------------------------------------------------------------
\* Every variable keeps its type: in particular the messages put together by the
\* handlers of dram_directory_cntlr.cc and cache_cntlr.cc are well formed.
THEOREM TypeCorrect == Spec => []TypeOK
  BY Invariance, TypesOK, PTL

\* A line that may be written (EXCLUSIVE or MODIFIED) is the only valid copy: the
\* directory's replies, the eviction messages that cross its requests, and the upgrades
\* that lose their copy meanwhile never leave a second one.
THEOREM WriterIsAlone == Spec => []SingleWriter
  BY Invariance, OneWriter, PTL

\* The directory's sharers include every cache with a valid line, so that an INV_REQ or
\* a NULLIFY_REQ reaches all of them.
THEOREM NoCopyForgotten == Spec => []DirectoryCoversCaches
  BY Invariance, CopiesCovered, PTL

\* No handler meets a message that its assertions (LOG_ASSERT_ERROR and the default
\* cases of the switches) do not expect.
THEOREM AssertionsHold == Spec => []MessagesAreExpected
  BY Invariance, AllExpected, PTL

\* A request that the directory has set aside is waited for by a message under way: no
\* answer that it counts on has been lost in a crossing of messages.
THEOREM NoRequestStranded == Spec => []RequestNotStranded
  BY Invariance, NotStranded, PTL

\* Under MESIF, the forwarder of a shared block is one of its sharers: a WB_REQ for the
\* data never goes to a node that the directory knows to be without it.
THEOREM ForwarderHasBlock == Spec => []ForwarderIsSharer
  BY Invariance, ForwarderShares, PTL

\* A thread that the network thread has woken finds a line it may use (the assertion
\* "Tried to read in next-level cache, but data is already gone" holds).
THEOREM WokenThreadsHit == Spec => []WokenThreadHits
  BY Invariance, WokenHits, PTL

\* With at least as many ways as cores, a request always finds a directory entry it may
\* replace ("Cannot find a directory entry to be replaced" is never reached).
THEOREM EntryIsFound == Spec => []ReplacementFound
  BY Invariance, EntryToReplace, PTL
=============================================================================
