------------------------ MODULE CoherenceData_proofs ------------------------
(***************************************************************************)
(* What the copies of a block contain: the lines, the messages, the        *)
(* requests of the directory and the DRAM, for any number of nodes, cores  *)
(* and blocks.  DataInv builds on IInv of Coherence_proofs, which says     *)
(* where copies can be at all.  "junk", what a dead buffer held, is kept   *)
(* apart from the start: as long as no WB_REP has handed the block on, it  *)
(* is only where the next writer of the block will overwrite it, while the *)
(* DRAM has the data of the last store.  First comes what the messages and *)
(* the directory hold, handler by handler, then one lemma for each action, *)
(* then the theorems.                                                      *)
(***************************************************************************)
EXTENDS Coherence_proofs

-----------------------------------------------------------------------------
(* What the messages hold                                                  *)

\* Data that may be read: F says that a WB_REP has been handled since the last store.
Good(d, F) == d = "new" \/ (d \in {"mem", "junk"} /\ F)

\* Messages whose data is to be read, and those a dirty line leaves in.
Bearers == {"EX_REP", "SH_REP", "WB_REP", "FLUSH_REP", "DRAM_READ_REP"}
Dirty == {"FLUSH_REP", "WB_REP"}

\* Messages about b that must not be under way, when those of the types T may hold junk.
Tainted(b, F, T) ==
  {m \in Message : /\ m.block = b
                   /\ \/ m.type \in Bearers /\ ~Good(m.data, F) /\ ~(m.type \in T /\ m.data = "junk")
                      \/ m.type = "DRAM_WRITE_REQ" /\ m.data = "old"}

\* Writes to the DRAM, those of other data than the last store left, and the
\* messages that are never overtaken by a write.
Writes(b) == Kind(b, {"DRAM_WRITE_REQ"})
Stale(b) == {m \in Writes(b) : m.data # "new"}
Followers(b) == Kind(b, Reads \cup {"FLUSH_REP"})

\* The messages about b hold good data, and writes are in order.
Pure(box, b, F, T) == \A n \in Node : ~In(box[n], Tainted(b, F, T))
WriteOrder(q, b) == One(q, Writes(b)) /\ Before(q, Writes(b), Followers(b))
Mail(box, b, F, T) == Pure(box, b, F, T) /\ WriteOrder(box[Home], b)

\* The DRAM, which holds d, has the data of the last store or is about to get it.
Saved(q, b, d) == ~In(q, Stale(b)) /\ (In(q, Writes(b)) \/ d = "new")

\* Dirty data that n has sent to the directory.
DirtyIn(q, n, b) == ReturnsIn(q, n, b) \cap Dirty

\* Nothing that was right about b has become wrong, for some T and for all.
Moved(box, box2, b, F, T) ==
  /\ Mail(box, b, F, T) => Mail(box2, b, F, T)
  /\ \A d : Saved(box[Home], b, d) => Saved(box2[Home], b, d)
  /\ \A n : DirtyIn(box[Home], n, b) \subseteq DirtyIn(box2[Home], n, b)
Mailed(box, box2, b, F) == \A T : Moved(box, box2, b, F, T)

\* Inboxes hold messages.
LEMMA BoxesHold ==
  ASSUME NEW box \in Boxes
  PROVE  Home \in Node /\ box \in [Node -> Seq(Message)] /\ \A n \in Node : box[n] \in Seq(Message)
<1>1. box \in [Node -> Seq(Message)]
  BY DEF Boxes
<1> QED
  BY <1>1, DirectoryAssumption

\* More messages may hold junk, or all may.
LEMMA MailMore ==
  ASSUME NEW box, NEW b, NEW F, NEW T, NEW T2, F \/ T \subseteq T2, Mail(box, b, F, T)
  PROVE  Mail(box, b, F, T2)
<1>1. Tainted(b, F, T2) \subseteq Tainted(b, F, T)
  BY DEF Tainted, Good
<1>2. \A n \in Node : In(box[n], Tainted(b, F, T2)) => In(box[n], Tainted(b, F, T))
  BY <1>1 DEF In, At
<1> QED
  BY <1>2 DEF Mail, Pure

\* A message that is neither tainted nor a write is sent to the nodes N.
LEMMA PostMoved ==
  ASSUME NEW box \in Boxes, NEW N, NEW m \in Message, NEW b, NEW F, NEW T, m \notin Tainted(b, F, T),
         m \notin Writes(b)
  PROVE  Moved(box, Post(box, N, m), b, F, T)
<1> DEFINE box2 == Post(box, N, m)
<1>1. Home \in Node /\ \A n \in Node : box[n] \in Seq(Message)
  BY BoxesHold
<1>2. \A n \in Node : box2[n] = IF n \in N THEN Append(box[n], m) ELSE box[n]
  BY DEF Post
<1> HIDE DEF box2
<1>3. ASSUME NEW n \in Node, NEW C, m \notin C PROVE In(box2[n], C) <=> In(box[n], C)
  BY <1>1, <1>2, <1>3, PushIn
<1>4. \A n \in Node : ~In(box[n], Tainted(b, F, T)) => ~In(box2[n], Tainted(b, F, T))
  BY <1>3
<1>5. WriteOrder(box[Home], b) => WriteOrder(box2[Home], b)
  <2> SUFFICES ASSUME WriteOrder(box[Home], b) PROVE WriteOrder(box2[Home], b)
    OBVIOUS
  <2>1. CASE Home \notin N
    BY <1>1, <1>2, <2>1
  <2>2. CASE Home \in N
    <3>1. box2[Home] = Append(box[Home], m) /\ box[Home] \in Seq(Message)
      BY <1>1, <1>2, <2>2
    <3>2. One(box[Home], Writes(b)) /\ Before(box[Home], Writes(b), Followers(b))
      BY DEF WriteOrder
    <3>3. One(box2[Home], Writes(b))
      BY <3>1, <3>2, PushOne
    <3>4. Before(box2[Home], Writes(b), Followers(b))
      BY <3>1, <3>2, PushBefore
    <3> QED
      BY <3>3, <3>4 DEF WriteOrder
  <2> QED
    BY <2>1, <2>2
<1>6. m \notin Stale(b)
  BY DEF Stale
<1>7. \A d : Saved(box[Home], b, d) => Saved(box2[Home], b, d)
  <2>1. In(box2[Home], Writes(b)) <=> In(box[Home], Writes(b))
    BY <1>1, <1>3
  <2>2. In(box2[Home], Stale(b)) <=> In(box[Home], Stale(b))
    BY <1>1, <1>3, <1>6
  <2> QED
    BY <2>1, <2>2 DEF Saved
<1>8. ASSUME NEW n PROVE DirtyIn(box[Home], n, b) \subseteq DirtyIn(box2[Home], n, b)
  <2>1. ASSUME NEW C, In(box[Home], C) PROVE In(box2[Home], C)
    BY <1>1, <1>2, <2>1, PushIn
  <2> QED
    BY <2>1 DEF DirtyIn, ReturnsIn
<1> QED
  BY <1>4, <1>5, <1>7, <1>8 DEF Moved, Mail, Pure, box2

\* The same, whatever may hold junk.
LEMMA PostMailed ==
  ASSUME NEW box \in Boxes, NEW N, NEW m \in Message, NEW b, NEW F, m \notin Tainted(b, F, {}), m \notin Writes(b)
  PROVE  Mailed(box, Post(box, N, m), b, F)
<1>1. ASSUME NEW T PROVE m \notin Tainted(b, F, T)
  BY DEF Tainted
<1>2. ASSUME NEW T PROVE Moved(box, Post(box, N, m), b, F, T)
  BY <1>1, PostMoved
<1> QED
  BY <1>2 DEF Mailed

\* A message that is not a write is taken.
LEMMA PopMail ==
  ASSUME NEW box \in Boxes, NEW k \in Node, box[k] # <<>>, NEW m, m = Head(box[k]), NEW b, NEW F,
         m \notin Writes(b), NEW box2, box2 = Pop(box, k)
  PROVE  /\ \A T : Mail(box, b, F, T) => Mail(box2, b, F, T)
         /\ \A d : Saved(box[Home], b, d) => Saved(box2[Home], b, d)
<1>1. Home \in Node /\ box \in [Node -> Seq(Message)] /\ \A n \in Node : box[n] \in Seq(Message)
  BY BoxesHold
<1>2. \A n \in Node : box2[n] = IF n = k THEN Tail(box[n]) ELSE box[n]
  BY <1>1 DEF Pop
<1>3. ASSUME NEW n \in Node, NEW C PROVE In(box2[n], C) => In(box[n], C)
  BY <1>1, <1>2, PopIn
<1>4. ASSUME NEW n \in Node, NEW C, m \notin C PROVE In(box2[n], C) <=> In(box[n], C)
  BY <1>1, <1>2, <1>4, PopIn
<1>5. \A T : \A n \in Node : ~In(box[n], Tainted(b, F, T)) => ~In(box2[n], Tainted(b, F, T))
  BY <1>3
<1>6. WriteOrder(box[Home], b) => WriteOrder(box2[Home], b)
  <2> SUFFICES ASSUME WriteOrder(box[Home], b) PROVE WriteOrder(box2[Home], b)
    OBVIOUS
  <2>1. CASE Home # k
    BY <1>1, <1>2, <2>1
  <2>2. CASE Home = k
    <3>1. box2[Home] = Tail(box[Home]) /\ box[Home] \in Seq(Message) /\ box[Home] # <<>>
      BY <1>1, <1>2, <2>2
    <3>2. One(box[Home], Writes(b)) /\ Before(box[Home], Writes(b), Followers(b))
      BY DEF WriteOrder
    <3>3. One(box2[Home], Writes(b))
      BY <3>1, <3>2, PopOne
    <3>4. Before(box2[Home], Writes(b), Followers(b))
      BY <3>1, <3>2, PopBefore
    <3> QED
      BY <3>3, <3>4 DEF WriteOrder
  <2> QED
    BY <2>1, <2>2
<1>7. \A d : Saved(box[Home], b, d) => Saved(box2[Home], b, d)
  <2>1. In(box2[Home], Writes(b)) <=> In(box[Home], Writes(b))
    BY <1>1, <1>4
  <2>2. In(box2[Home], Stale(b)) => In(box[Home], Stale(b))
    BY <1>1, <1>3
  <2> QED
    BY <2>1, <2>2 DEF Saved
<1> QED
  BY <1>5, <1>6, <1>7 DEF Mail, Pure

\* A message that is neither a write nor dirty data is taken.
LEMMA PopMailed ==
  ASSUME NEW box \in Boxes, NEW k \in Node, box[k] # <<>>, NEW m, m = Head(box[k]), NEW b, NEW F,
         m \notin Writes(b), m \notin Kind(b, Dirty), NEW box2, box2 = Pop(box, k)
  PROVE  Mailed(box, box2, b, F)
<1>1. Home \in Node /\ box \in [Node -> Seq(Message)] /\ \A n \in Node : box[n] \in Seq(Message)
  BY BoxesHold
<1>2. \A n \in Node : box2[n] = IF n = k THEN Tail(box[n]) ELSE box[n]
  BY <1>1 DEF Pop
<1>3. /\ \A T : Mail(box, b, F, T) => Mail(box2, b, F, T)
      /\ \A d : Saved(box[Home], b, d) => Saved(box2[Home], b, d)
  BY PopMail
<1>4. ASSUME NEW n \in Node, NEW C, m \notin C PROVE In(box2[n], C) <=> In(box[n], C)
  BY <1>1, <1>2, <1>4, PopIn
<1>5. ASSUME NEW n PROVE DirtyIn(box[Home], n, b) \subseteq DirtyIn(box2[Home], n, b)
  <2>1. ASSUME NEW t \in Dirty PROVE m \notin KindOf(n, b, {t})
    BY <2>1 DEF KindOf, Kind
  <2>2. ASSUME NEW t \in Dirty, In(box[Home], KindOf(n, b, {t})) PROVE In(box2[Home], KindOf(n, b, {t}))
    BY <1>1, <1>4, <2>1, <2>2
  <2> QED
    BY <2>2 DEF DirtyIn, ReturnsIn
<1> QED
  BY <1>3, <1>5 DEF Mailed, Moved

\* Two changes, neither of which makes anything wrong.
LEMMA MailedTwice ==
  ASSUME NEW box, NEW box1, NEW box2, NEW b, NEW F, Mailed(box, box1, b, F), Mailed(box1, box2, b, F)
  PROVE  Mailed(box, box2, b, F)
BY DEF Mailed, Moved

\* No change.
LEMMA MailedSame ==
  ASSUME NEW box, NEW b, NEW F
  PROVE  Mailed(box, box, b, F)
BY DEF Mailed, Moved

-----------------------------------------------------------------------------
(* What the directory holds                                                *)

\* The entry e says that a cache has data that the DRAM lacks, ln being the lines.
Unsaved(e, q, box, b, ln) ==
  \/ e.state = "MODIFIED" /\ ~HeadOf(q).wait
  \/ /\ e.state = "EXCLUSIVE"
     /\ ln[e.owner] = "MODIFIED" \/ DirtyIn(box[Home], e.owner, b) # {}

\* The data of the last store is not lost, or a WB_REP has been handled since.
Safe(e, q, box, b, ln, d, F) == F \/ Saved(box[Home], b, d) \/ Unsaved(e, q, box, b, ln)

\* Data is kept only with an upgrade, while the entry is in one of the states S.
Held(e, q, F, S) ==
  q # <<>> /\ Head(q).data # "none" =>
    (Good(Head(q).data, F) \/ Head(q).data = "junk") /\ e.state \in S /\ Head(q).type = "UPGRADE_REQ"

\* Messages that may hold junk while the DRAM, which holds d, has the data of the last
\* store, or is about to get it: an answer to WB_REQ, and one to the next owner.
Allowed(e, q, b, d) ==
  {t \in {"EX_REP", "WB_REP"} : Saved(q, b, d) /\ (t = "EX_REP" => e.state = "MODIFIED")}

\* The messages are right, and so is the DRAM if a line holds junk: J.
Right(e, box, b, d, F, J) ==
  /\ Mail(box, b, F, Allowed(e, box[Home], b, d)) /\ d # "old"
  /\ J => F \/ Saved(box[Home], b, d)

\* What holds of the data of block b between two handlers.
Sane(e, q, box, b, ln, d, F, J) ==
  /\ Right(e, box, b, d, F, J) /\ Held(e, q, F, {"SHARED"}) /\ Safe(e, q, box, b, ln, d, F)

\* The data for the next owner is in the directory's hands.
InHand(e, q, data) ==
  e.state = "UNCACHED" /\ data # "none" /\ Head(q).type \in {"EX_REQ", "UPGRADE_REQ"}

\* What holds when the request in progress is to be processed, with data.
TurnSane(e, q, box, b, ln, d, F, J, data) ==
  /\ Right(e, box, b, d, F, J) /\ Held(e, q, F, {"SHARED", "UNCACHED"})
  /\ data = "none" \/ Good(data, F)
  /\ Safe(e, q, box, b, ln, d, F) \/ InHand(e, q, data)

\* A line of x holds junk.
JunkLine(x) == \E n \in Node : line[n][x].data = "junk"

\* All three for the directory's state D, when WB_REPs have been handled for the blocks G.
DRight(D, x, G) == Right(D.dir[x], D.inbox, x, dram[x], x \in G, JunkLine(x))
DSane(D, x, G) == Sane(D.dir[x], D.reqs[x], D.inbox, x, Caches(x).ln, dram[x], x \in G, JunkLine(x))
DTurn(D, x, G, data) ==
  TurnSane(D.dir[x], D.reqs[x], D.inbox, x, Caches(x).ln, dram[x], x \in G, JunkLine(x), data)

\* Messages have been sent that make nothing wrong, for any block or for those other than b.
Spread(D, D2, G) == \A x \in Block : Mailed(D.inbox, D2.inbox, x, x \in G)
SpreadBut(D, D2, b, G) == \A x \in Block : x # b => Mailed(D.inbox, D2.inbox, x, x \in G)

\* Messages have changed, maybe also the entry, and nothing has become wrong.
LEMMA RightMoves ==
  ASSUME NEW e, NEW box, NEW b, NEW d, NEW F, NEW J, Right(e, box, b, d, F, J), NEW box2,
         Moved(box, box2, b, F, Allowed(e, box[Home], b, d)), NEW J2, J2 => J \/ F \/ Saved(box2[Home], b, d),
         NEW e2, e.state = "MODIFIED" => e2.state = "MODIFIED"
  PROVE  Right(e2, box2, b, d, F, J2)
<1>1. Mail(box2, b, F, Allowed(e, box[Home], b, d)) /\ (Saved(box[Home], b, d) => Saved(box2[Home], b, d))
  BY DEF Right, Moved
<1>2. Allowed(e, box[Home], b, d) \subseteq Allowed(e2, box2[Home], b, d)
  BY <1>1 DEF Allowed
<1>3. Mail(box2, b, F, Allowed(e2, box2[Home], b, d))
  BY <1>1, <1>2, MailMore
<1> QED
  BY <1>1, <1>3 DEF Right

\* Messages and lines have changed, and nothing has become wrong.
LEMMA SaneMoves ==
  ASSUME NEW e, NEW q, NEW box, NEW b, NEW ln, NEW d, NEW F, NEW J, Sane(e, q, box, b, ln, d, F, J),
         NEW box2, Moved(box, box2, b, F, Allowed(e, box[Home], b, d)), NEW ln2,
         e.state = "EXCLUSIVE" /\ ln[e.owner] = "MODIFIED" =>
           ln2[e.owner] = "MODIFIED" \/ DirtyIn(box2[Home], e.owner, b) # {},
         NEW J2, J2 => J \/ F \/ Saved(box2[Home], b, d)
  PROVE  Sane(e, q, box2, b, ln2, d, F, J2)
<1>1. Right(e, box2, b, d, F, J2)
  BY RightMoves DEF Sane
<1>2. Saved(box[Home], b, d) => Saved(box2[Home], b, d)
  BY DEF Moved
<1>3. DirtyIn(box[Home], e.owner, b) \subseteq DirtyIn(box2[Home], e.owner, b)
  BY DEF Moved
<1>4. Unsaved(e, q, box, b, ln) => Unsaved(e, q, box2, b, ln2)
  BY <1>3 DEF Unsaved
<1> QED
  BY <1>1, <1>2, <1>4 DEF Sane, Safe

\* Blocks whose entry and requests stay.
LEMMA SaneStays ==
  ASSUME NEW D, NEW D2, NEW G, NEW x, Mailed(D.inbox, D2.inbox, x, x \in G),
         D2.dir[x] = D.dir[x], D2.reqs[x] = D.reqs[x], DSane(D, x, G)
  PROVE  DSane(D2, x, G)
BY SaneMoves DEF DSane, Mailed

\* The messages about one block.
LEMMA RightStays ==
  ASSUME NEW D, NEW D2, NEW G, NEW x, DRight(D, x, G),
         Moved(D.inbox, D2.inbox, x, x \in G, Allowed(D.dir[x], D.inbox[Home], x, dram[x])),
         D.dir[x].state = "MODIFIED" => D2.dir[x].state = "MODIFIED"
  PROVE  DRight(D2, x, G)
BY RightMoves DEF DRight

\* They stay.
LEMMA RightSame ==
  ASSUME NEW D, NEW D2, D2.inbox = D.inbox, NEW G, NEW x, DRight(D, x, G),
         D.dir[x].state = "MODIFIED" => D2.dir[x].state = "MODIFIED"
  PROVE  DRight(D2, x, G)
BY RightStays DEF Moved

\* What a request finds whose data is not in the directory's hands.
LEMMA TurnFacts ==
  ASSUME NEW D, NEW b, NEW G, NEW data, DTurn(D, b, G, data)
  PROVE  /\ DRight(D, b, G) /\ (data = "none" \/ Good(data, b \in G))
         /\ Held(D.dir[b], D.reqs[b], b \in G, {"SHARED", "UNCACHED"})
         /\ D.dir[b].state # "UNCACHED" \/ data = "none" \/ Head(D.reqs[b]).type \notin {"EX_REQ", "UPGRADE_REQ"} =>
              Safe(D.dir[b], D.reqs[b], D.inbox, b, Caches(b).ln, dram[b], b \in G)
         /\ D.dir[b].state \in {"SHARED", "UNCACHED"} /\ ~InHand(D.dir[b], D.reqs[b], data) =>
              b \in G \/ Saved(D.inbox[Home], b, dram[b])
BY DEF DTurn, TurnSane, DRight, InHand, Safe, Unsaved

\* What sendTo does to the directory's state, whatever it sends.
LEMMA SendParts ==
  ASSUME NEW D \in DirT, NEW N, NEW t, NEW b, NEW data, NEW D2, D2 = sendTo(D, N, t, b, data)
  PROVE  /\ D2.inbox = Post(D.inbox, N, ShmemMsg(t, b, Home, data)) /\ D2.dir = D.dir /\ D2.reqs = D.reqs
         /\ D2.run = D.run
BY DEF DirT, sendTo, Post

\* Sending a message with good data, or none.
LEMMA SendSpread ==
  ASSUME NEW D \in DirT, NEW N, NEW t \in MessageTypes, NEW b \in Block, NEW data \in Data \cup {"none"},
         t \in Carriers => data \in Data, t # "DRAM_WRITE_REQ", NEW G, t \in Bearers => Good(data, b \in G),
         NEW D2, D2 = sendTo(D, N, t, b, data)
  PROVE  Spread(D, D2, G)
<1> DEFINE m == ShmemMsg(t, b, Home, data)
<1>1. D2.inbox = Post(D.inbox, N, m) /\ D.inbox \in Boxes
  BY SendParts, BoxesOf
<1>2. m \in Message /\ m.type = t /\ m.block = b /\ m.data = data
  BY MessageType, DirectoryAssumption
<1> HIDE DEF m
<1>3. ASSUME NEW x \in Block PROVE Mailed(D.inbox, D2.inbox, x, x \in G)
  <2>1. m \notin Tainted(x, x \in G, {})
    BY <1>2 DEF Tainted
  <2>2. m \notin Writes(x)
    BY <1>2 DEF Writes, Kind
  <2> QED
    BY <1>1, <1>2, <2>1, <2>2, PostMailed
<1> QED
  BY <1>3 DEF Spread

\* Two changes.
LEMMA SpreadTwice ==
  ASSUME NEW D, NEW D1, NEW D2, NEW G, Spread(D, D1, G), Spread(D1, D2, G)
  PROVE  Spread(D, D2, G)
BY MailedTwice DEF Spread

\* No message is sent.
LEMMA SpreadSame ==
  ASSUME NEW D, NEW D2, NEW G, D2.inbox = D.inbox
  PROVE  Spread(D, D2, G)
BY MailedSame DEF Spread

\* Other blocks are some of the blocks.
LEMMA SpreadButOf ==
  ASSUME NEW D, NEW D2, NEW b, NEW G, Spread(D, D2, G)
  PROVE  SpreadBut(D, D2, b, G)
BY DEF Spread, SpreadBut

\* A cached block whose request is about to be processed.
LEMMA TurnCached ==
  ASSUME NEW D, NEW b, NEW G, NEW data, DTurn(D, b, G, data), D.dir[b].state # "UNCACHED"
  PROVE  DSane(D, b, G)
<1>1. /\ DRight(D, b, G)
      /\ Held(D.dir[b], D.reqs[b], b \in G, {"SHARED", "UNCACHED"})
      /\ Safe(D.dir[b], D.reqs[b], D.inbox, b, Caches(b).ln, dram[b], b \in G)
  BY TurnFacts
<1>2. Held(D.dir[b], D.reqs[b], b \in G, {"SHARED"})
  BY <1>1 DEF Held
<1> QED
  BY <1>1, <1>2 DEF DSane, Sane, DRight

\* A request of the directory is sent.
LEMMA SnoopSane ==
  ASSUME NEW D \in DirT, NEW b \in Block, NEW G, DSane(D, b, G),
         NEW N, NEW t \in Snoops, NEW D2, D2 = sendTo(D, N, t, b, "none")
  PROVE  Spread(D, D2, G) /\ DSane(D2, b, G)
<1>1. t \in MessageTypes /\ t \notin Carriers
  BY SnoopKinds
<1>2. t \notin Bearers /\ t # "DRAM_WRITE_REQ"
  BY DEF Snoops, Bearers
<1>3. Spread(D, D2, G)
  BY <1>1, <1>2, SendSpread
<1>4. D2.dir = D.dir /\ D2.reqs = D.reqs
  BY SendParts
<1>5. DSane(D2, b, G)
  BY <1>3, <1>4, SaneStays DEF Spread
<1> QED
  BY <1>3, <1>5

-----------------------------------------------------------------------------
(* The request in progress is answered, or waits.                          *)

\* Once it has left the queue, the next one has no data and does not wait.
LEMMA NextSane ==
  ASSUME NEW D \in DirT, NEW b \in Block, QueueInv(D.reqs[b]), D.reqs[b] # <<>>, NEW G, DRight(D, b, G),
         \/ D.dir[b].state = "MODIFIED"
         \/ b \in G \/ Saved(D.inbox[Home], b, dram[b])
         \/ Unsaved(D.dir[b], D.reqs[b], D.inbox, b, Caches(b).ln),
         NEW D2, D2 = processNextReq(D, b)
  PROVE  D2.inbox = D.inbox /\ D2.dir = D.dir /\ DSane(D2, b, G)
<1> DEFINE q2 == D2.reqs[b]
<1>1. D2.inbox = D.inbox /\ D2.dir = D.dir /\ q2 = Tail(D.reqs[b])
  BY NextEffect
<1>2. ~HeadOf(q2).wait /\ (q2 # <<>> => Head(q2).data = "none")
  BY <1>1, TailQueue
<1> HIDE DEF q2
<1>3. Held(D.dir[b], q2, b \in G, {"SHARED"})
  BY <1>2 DEF Held
<1>4. Safe(D.dir[b], q2, D.inbox, b, Caches(b).ln, dram[b], b \in G)
  BY <1>2 DEF Safe, Unsaved
<1> QED
  BY <1>1, <1>3, <1>4 DEF DSane, Sane, DRight, q2

\* The requester is sent its reply.
LEMMA ReplySane ==
  ASSUME NEW D \in DirT, NEW b \in Block, QueueInv(D.reqs[b]), D.reqs[b] # <<>>, NEW G, DRight(D, b, G),
         \/ D.dir[b].state = "MODIFIED"
         \/ b \in G \/ Saved(D.inbox[Home], b, dram[b])
         \/ Unsaved(D.dir[b], D.reqs[b], D.inbox, b, Caches(b).ln),
         NEW n \in Node, NEW reply \in Replies, NEW data \in Data \cup {"none"},
         reply # "UPGRADE_REP" =>
           /\ data \in Data
           /\ \/ Good(data, b \in G)
              \/ data = "junk" /\ reply \in Allowed(D.dir[b], D.inbox[Home], b, dram[b]),
         NEW D2, D2 = processNextReq(sendTo(D, {n}, reply, b, data), b)
  PROVE  SpreadBut(D, D2, b, G) /\ DSane(D2, b, G)
<1> DEFINE D1 == sendTo(D, {n}, reply, b, data)
           m == ShmemMsg(reply, b, Home, data)
           T == Allowed(D.dir[b], D.inbox[Home], b, dram[b])
<1>1. reply \in MessageTypes /\ reply # "DRAM_WRITE_REQ" /\ (reply \in Bearers \cup Carriers => reply # "UPGRADE_REP")
  BY ReplyKinds DEF Replies, Grants, Bearers, Carriers
<1>2. D1.inbox = Post(D.inbox, {n}, m) /\ D1.dir = D.dir /\ D1.reqs = D.reqs /\ D.inbox \in Boxes
  BY SendParts, BoxesOf
<1>3. m \in Message /\ m \in ToCache /\ m.type = reply /\ m.block = b /\ m.data = data
  BY <1>1, MessageType, DirectoryAssumption
<1>4. D1 \in DirT
  <2>1. {n} \in SUBSET Node /\ Home \in Node
    BY DirectoryAssumption
  <2> QED
    BY <1>3, <2>1, SendEffect
<1>5. D2 = processNextReq(D1, b)
  OBVIOUS
<1> HIDE DEF D1, m, T
<1>6. ASSUME NEW x \in Block PROVE m \notin Writes(x)
  BY <1>1, <1>3 DEF Writes, Kind
<1>7. ASSUME NEW x \in Block, x # b PROVE Mailed(D.inbox, D1.inbox, x, x \in G)
  <2>1. m \notin Tainted(x, x \in G, {})
    BY <1>3, <1>7 DEF Tainted
  <2> QED
    BY <1>2, <1>3, <1>6, <2>1, PostMailed
<1>8. Moved(D.inbox, D1.inbox, b, b \in G, T)
  <2>1. m \notin Tainted(b, b \in G, T)
    BY <1>1, <1>3 DEF Tainted, T
  <2> QED
    BY <1>2, <1>3, <1>6, <2>1, PostMoved
<1>9. DRight(D1, b, G)
  BY <1>2, <1>8, RightStays DEF T
<1>10. Saved(D.inbox[Home], b, dram[b]) => Saved(D1.inbox[Home], b, dram[b])
  BY <1>8 DEF Moved
<1>11. Unsaved(D.dir[b], D.reqs[b], D.inbox, b, Caches(b).ln) => Unsaved(D1.dir[b], D1.reqs[b], D1.inbox, b, Caches(b).ln)
  <2>1. \A k : DirtyIn(D.inbox[Home], k, b) \subseteq DirtyIn(D1.inbox[Home], k, b)
    BY <1>8 DEF Moved
  <2> QED
    BY <1>2, <2>1 DEF Unsaved
<1>12. D2.inbox = D1.inbox /\ D2.dir = D1.dir /\ DSane(D2, b, G)
  <2>1. \/ D1.dir[b].state = "MODIFIED"
        \/ b \in G \/ Saved(D1.inbox[Home], b, dram[b])
        \/ Unsaved(D1.dir[b], D1.reqs[b], D1.inbox, b, Caches(b).ln)
    BY <1>2, <1>10, <1>11
  <2>2. QueueInv(D1.reqs[b]) /\ D1.reqs[b] # <<>>
    BY <1>2
  <2> QED
    BY <1>4, <1>5, <1>9, <2>1, <2>2, NextSane
<1> QED
  BY <1>7, <1>12 DEF SpreadBut

\* The request in progress is marked and a message without data is sent for it.
LEMMA MarkSane ==
  ASSUME NEW D, NEW b \in Block, Ready(D, b), NEW D1, Unchanged(D, D1, b), NEW G,
         DRight(D1, b, G), b \in G \/ Saved(D.inbox[Home], b, dram[b]),
         NEW r2 \in Req, r2.type = Head(D.reqs[b]).type, r2.node = Head(D.reqs[b]).node, r2.data = "none",
         NEW N, NEW t \in {"WB_REQ", "DRAM_READ_REQ"},
         NEW D2, D2 = sendTo(Marked(D1, b, r2), N, t, b, "none")
  PROVE  Spread(D, D2, G) /\ DSane(D2, b, G)
<1> DEFINE S == Marked(D1, b, r2)
<1>1. D1 \in DirT /\ D1.inbox = D.inbox /\ D1.reqs = D.reqs /\ D.reqs[b] # <<>>
  BY DEF Unchanged, Ready
<1>2. HeadSet(D1, S, b, r2)
  BY DEF HeadSet, Marked
<1> HIDE DEF S
<1>3. HeadChanged(D1, S, b, r2.wait, r2.forwardingFrom, r2.data)
  BY <1>1, <1>2, HeadEffect
<1>4. S \in DirT /\ S.inbox = D.inbox /\ Head(S.reqs[b]).data = "none"
  BY <1>1, <1>3 DEF HeadChanged
<1>5. t \in MessageTypes /\ t \notin Carriers /\ t \notin Bearers /\ t # "DRAM_WRITE_REQ"
  BY DEF MessageTypes, Carriers, Bearers, Reads, Snoops
<1>6. D2 = sendTo(S, N, t, b, "none")
  BY DEF S
<1>7. Spread(S, D2, G)
  BY <1>4, <1>5, <1>6, SendSpread
<1>8. Spread(D, D2, G)
  BY <1>4, <1>7 DEF Spread
<1>9. D2.reqs = S.reqs
  BY <1>4, <1>6, SendParts
<1>10. Held(D2.dir[b], D2.reqs[b], b \in G, {"SHARED"})
  BY <1>4, <1>9 DEF Held
<1>11. Mailed(D.inbox, D2.inbox, b, b \in G)
  BY <1>8 DEF Spread
<1>12. b \in G \/ Saved(D2.inbox[Home], b, dram[b])
  BY <1>11 DEF Mailed, Moved
<1>13. D2.dir = D1.dir
  BY <1>3, <1>4, <1>6, SendParts DEF HeadChanged
<1>14. DRight(D2, b, G)
  BY <1>1, <1>11, <1>13, RightStays DEF Mailed
<1> QED
  BY <1>8, <1>10, <1>12, <1>14 DEF DSane, Sane, Safe, DRight

\* Every way through retrieveDataAndSendToL2Cache keeps the data of the block sane.
LEMMA RetrieveSane ==
  ASSUME CacheT, NEW D, NEW b \in Block, Ready(D, b), NEW D1, Unchanged(D, D1, b), NEW G,
         DRight(D1, b, G),
         D1.dir[b].forwarder = D.dir[b].forwarder,
         D1.dir[b].state = "SHARED" /\ protocol = "mesif" => D.dir[b].state = "SHARED",
         NEW reply \in Grants, NEW data \in Data \cup {"none"},
         \/ data = "none" \/ Good(data, b \in G)
         \/ data = "junk" /\ reply \in Allowed(D1.dir[b], D1.inbox[Home], b, dram[b]),
         data = "none" => Head(D.reqs[b]).data = "none",
         \/ data # "none" /\ D1.dir[b].state = "MODIFIED"
         \/ b \in G \/ Saved(D.inbox[Home], b, dram[b]),
         NEW D2, D2 = retrieveDataAndSendToL2Cache(D1, reply, b, data)
  PROVE  SpreadBut(D, D2, b, G) /\ DSane(D2, b, G)
<1> DEFINE r == Head(D.reqs[b])
<1>1. /\ D1 \in DirT /\ D1.inbox = D.inbox /\ D1.reqs = D.reqs /\ D.reqs[b] # <<>> /\ QueueInv(D.reqs[b])
  BY DEF Unchanged, Ready, Kept
<1>2. r \in Req /\ r = D.reqs[b][1]
  BY <1>1, HeadFacts
<1>3. r.node \in Node /\ r.data \in Data \cup {"none"}
  BY <1>2 DEF Req
<1>4. CASE data # "none"
  <2> DEFINE E == ForwardTo(D1, b, r.node)
  <2>1. D2 = processNextReq(sendTo(E, {r.node}, reply, b, data), b)
    BY <1>1, <1>4 DEF retrieveDataAndSendToL2Cache, ForwardTo
  <2>2. E \in DirT /\ E.inbox = D.inbox /\ E.reqs = D.reqs /\ E.dir[b].state = D1.dir[b].state
    BY <1>1, <1>3, ForwarderEffect
  <2> HIDE DEF E, r
  <2>3. /\ reply \in Replies /\ reply # "UPGRADE_REP" /\ data \in Data
        /\ \/ Good(data, b \in G)
           \/ data = "junk" /\ reply \in Allowed(E.dir[b], E.inbox[Home], b, dram[b])
    <3>1. Allowed(D1.dir[b], D1.inbox[Home], b, dram[b]) \subseteq Allowed(E.dir[b], E.inbox[Home], b, dram[b])
      BY <1>1, <2>2 DEF Allowed
    <3> QED
      BY <1>4, <3>1 DEF Replies, Grants
  <2>4. E.dir[b].state = "MODIFIED" \/ b \in G \/ Saved(E.inbox[Home], b, dram[b])
    BY <2>2
  <2>5. DRight(E, b, G) /\ QueueInv(E.reqs[b]) /\ E.reqs[b] # <<>>
    BY <1>1, <2>2, RightSame
  <2>6. SpreadBut(E, D2, b, G) /\ DSane(D2, b, G)
    BY <1>3, <2>1, <2>2, <2>3, <2>4, <2>5, ReplySane
  <2> QED
    BY <2>2, <2>6 DEF SpreadBut
<1>5. CASE data = "none"
  <2> DEFINE x == D1.dir[b].forwarder
             rx == [r EXCEPT !.forwardingFrom = x]
             rw == [r EXCEPT !.wait = TRUE]
  <2>1. \/ /\ D2 = sendTo(Marked(D1, b, rx), {x}, "WB_REQ", b, "none") /\ protocol = "mesif"
           /\ D1.dir[b].state = "SHARED" /\ x # NoNode
        \/ D2 = sendTo(Marked(D1, b, rw), {Home}, "DRAM_READ_REQ", b, "none")
    BY <1>1, <1>2, <1>5 DEF retrieveDataAndSendToL2Cache, Marked
  <2>2. r.data = "none"
    BY <1>5
  <2>3. CASE D2 = sendTo(Marked(D1, b, rw), {Home}, "DRAM_READ_REQ", b, "none")
    <3>1. rw \in Req /\ rw.type = r.type /\ rw.node = r.node /\ rw.data = "none"
      BY <1>2, <2>2 DEF Req
    <3> HIDE DEF rw
    <3> QED
      BY <1>5, <2>3, <3>1, MarkSane, SpreadButOf
  <2>4. CASE /\ D2 = sendTo(Marked(D1, b, rx), {x}, "WB_REQ", b, "none") /\ protocol = "mesif"
             /\ D1.dir[b].state = "SHARED"
    <3>0. x \in Node \cup {NoNode}
      <4>1. ForwarderKnown(D.dir[b], protocol) /\ D \in DirT
        BY DEF Ready, Kept
      <4>2. D.dir[b].sharers \subseteq Node
        BY <4>1, BoxesOf DEF EntryT
      <4> QED
        BY <2>4, <4>1, <4>2 DEF ForwarderKnown
    <3>1. rx \in Req /\ rx.type = r.type /\ rx.node = r.node /\ rx.data = "none"
      BY <1>2, <2>2, <3>0 DEF Req
    <3> HIDE DEF rx
    <3> QED
      BY <1>5, <2>4, <3>1, MarkSane, SpreadButOf
  <2> QED
    BY <2>1, <2>3, <2>4
<1> QED
  BY <1>4, <1>5

\* The data for the next owner of an uncached block is at hand, or in the DRAM.
LEMMA OwnSane ==
  ASSUME CacheT, NEW D, NEW b \in Block, Ready(D, b), NEW G, NEW data \in Data \cup {"none"},
         DTurn(D, b, G, data), D.dir[b].state = "UNCACHED", NEW n \in Node,
         NEW st \in {"SHARED", "EXCLUSIVE", "MODIFIED"}, st = "SHARED" => protocol = "msi",
         NEW reply \in Grants, NEW d \in Data \cup {"none"},
         d = data \/ (data = "none" /\ d = Head(D.reqs[b]).data),
         d = "none" => Head(D.reqs[b]).data = "none",
         IF st = "MODIFIED" THEN Head(D.reqs[b]).type # "SH_REQ" ELSE d = data /\ Head(D.reqs[b]).type = "SH_REQ",
         st = "MODIFIED" => reply = "EX_REP",
         NEW D2, D2 = retrieveDataAndSendToL2Cache(Own(D, b, n, st), reply, b, d)
  PROVE  SpreadBut(D, D2, b, G) /\ DSane(D2, b, G)
<1> DEFINE D1 == Own(D, b, n, st)
<1>1. D \in DirT /\ D.reqs[b] # <<>>
  BY DEF Ready
<1>2. Owns(D, D1, b, n, st)
  BY <1>1, OwnEffect
<1> HIDE DEF D1
<1>3. Unchanged(D, D1, b) /\ D1.dir[b].forwarder = D.dir[b].forwarder /\ D1.dir[b].state = st
  BY <1>2 DEF Owns, Unchanged
<1>4. /\ DRight(D, b, G) /\ (data = "none" \/ Good(data, b \in G))
      /\ Held(D.dir[b], D.reqs[b], b \in G, {"SHARED", "UNCACHED"})
      /\ ~InHand(D.dir[b], D.reqs[b], data) => b \in G \/ Saved(D.inbox[Home], b, dram[b])
  BY TurnFacts
<1>5. D1.inbox = D.inbox
  BY <1>3 DEF Unchanged
<1>6. \/ d = "none" \/ Good(d, b \in G)
      \/ d = "junk" /\ reply \in Allowed(D1.dir[b], D1.inbox[Home], b, dram[b])
  <2>1. CASE d = data
    BY <1>4, <2>1
  <2>2. CASE d # data /\ d # "none"
    <3>1. data = "none" /\ d = Head(D.reqs[b]).data
      BY <2>2
    <3>2. (Good(d, b \in G) \/ d = "junk") /\ Head(D.reqs[b]).type = "UPGRADE_REQ"
      BY <1>1, <1>4, <2>2, <3>1 DEF Held
    <3>3. b \in G \/ Saved(D.inbox[Home], b, dram[b])
      BY <1>4, <3>1 DEF InHand
    <3>4. st = "MODIFIED"
      BY <2>2
    <3> QED
      BY <1>3, <1>5, <3>2, <3>3, <3>4 DEF Allowed, Good
  <2> QED
    BY <2>1, <2>2
<1>6a. \/ d # "none" /\ D1.dir[b].state = "MODIFIED"
       \/ b \in G \/ Saved(D.inbox[Home], b, dram[b])
  BY <1>3, <1>4 DEF InHand
<1>6b. DRight(D1, b, G)
  BY <1>4, <1>5, RightSame
<1>7. D1.dir[b].state = "SHARED" /\ protocol = "mesif" => D.dir[b].state = "SHARED"
  BY <1>3
<1>8. D2 = retrieveDataAndSendToL2Cache(D1, reply, b, d)
  BY DEF D1
<1> QED
  BY <1>3, <1>6, <1>6a, <1>6b, <1>7, <1>8, RetrieveSane

\* EX_REQ.
LEMMA ExSane ==
  ASSUME CacheT, NEW D, NEW b \in Block, Ready(D, b), Head(D.reqs[b]).type = "EX_REQ", NEW G,
         NEW data \in Data \cup {"none"}, DTurn(D, b, G, data), NEW D2, D2 = processExReq(D, b, data)
  PROVE  SpreadBut(D, D2, b, G) /\ DSane(D2, b, G)
<1> DEFINE e == D.dir[b]
           n == Head(D.reqs[b]).node
<1>1. n \in Node /\ e \in EntryT /\ D \in DirT /\ D.reqs[b] # <<>>
  BY ReadyFacts DEF Ready
<1>2. {"FLUSH_REQ", "INV_REQ"} \subseteq Snoops
  BY DEF Snoops
<1>3. CASE e.state \in Owned
  <2>1. D2 = sendTo(D, {e.owner}, "FLUSH_REQ", b, "none")
    BY <1>3 DEF processExReq, Owned
  <2>2. DSane(D, b, G)
    BY <1>3, TurnCached DEF Owned
  <2> QED
    BY <1>1, <1>2, <2>1, <2>2, SnoopSane, SpreadButOf
<1>4. CASE e.state = "SHARED"
  <2>1. D2 = sendTo(D, e.sharers, "INV_REQ", b, "none")
    BY <1>4 DEF processExReq
  <2>2. DSane(D, b, G)
    BY <1>4, TurnCached
  <2> QED
    BY <1>1, <1>2, <2>1, <2>2, SnoopSane, SpreadButOf
<1>5. CASE e.state = "UNCACHED"
  <2>1. D2 = retrieveDataAndSendToL2Cache(Own(D, b, n, "MODIFIED"), "EX_REP", b, data)
    BY <1>5 DEF processExReq
  <2>2. Head(D.reqs[b]).data = "none"
    BY <1>1, TurnFacts DEF Held
  <2>3. "EX_REP" \in Grants
    BY DEF Grants
  <2> HIDE DEF n
  <2> QED
    BY <1>1, <1>5, <2>1, <2>2, <2>3, OwnSane
<1> QED
  BY <1>1, <1>3, <1>4, <1>5 DEF EntryT, Owned

\* SH_REQ.
LEMMA ShSane ==
  ASSUME CacheT, NEW D, NEW b \in Block, Ready(D, b), Head(D.reqs[b]).type = "SH_REQ", NEW G,
         NEW data \in Data \cup {"none"}, DTurn(D, b, G, data), NEW D2, D2 = processShReq(D, b, data)
  PROVE  SpreadBut(D, D2, b, G) /\ DSane(D2, b, G)
<1> DEFINE e == D.dir[b]
           n == Head(D.reqs[b]).node
<1>1. n \in Node /\ e \in EntryT /\ D \in DirT /\ D.reqs[b] # <<>>
  BY ReadyFacts DEF Ready
<1>2. /\ DRight(D, b, G) /\ (data = "none" \/ Good(data, b \in G))
      /\ Held(D.dir[b], D.reqs[b], b \in G, {"SHARED", "UNCACHED"})
  BY TurnFacts
<1>3. Head(D.reqs[b]).data = "none"
  BY <1>1, <1>2 DEF Held
<1>4. {"EX_REP", "SH_REP"} \subseteq Grants /\ "WB_REQ" \in Snoops
  BY DEF Grants, Snoops
<1>5. CASE e.state \in Owned
  <2>1. D2 = sendTo(D, {e.owner}, "WB_REQ", b, "none")
    BY <1>5 DEF processShReq, Owned
  <2>2. DSane(D, b, G)
    BY <1>5, TurnCached DEF Owned
  <2> QED
    BY <1>1, <1>4, <2>1, <2>2, SnoopSane, SpreadButOf
<1>6. CASE e.state = "SHARED"
  <2> DEFINE D1 == Share(D, b, n)
  <2>1. D2 = retrieveDataAndSendToL2Cache(D1, "SH_REP", b, data)
    BY <1>6 DEF processShReq, Share
  <2>2. /\ D1 \in DirT /\ D1.inbox = D.inbox /\ D1.reqs = D.reqs /\ D1.run = D.run
        /\ D1.slots = D.slots /\ D1.replaced = D.replaced
        /\ \A x \in Block : x # b => D1.dir[x] = D.dir[x]
        /\ D1.dir[b].state = D.dir[b].state /\ D1.dir[b].forwarder = D.dir[b].forwarder
    BY <1>1, ShareEffect
  <2> HIDE DEF D1, n
  <2>3. Unchanged(D, D1, b)
    BY <2>2 DEF Unchanged
  <2>4. b \in G \/ Saved(D.inbox[Home], b, dram[b])
    BY <1>6, TurnFacts DEF InHand
  <2>5. DRight(D1, b, G)
    BY <1>2, <2>2, RightSame
  <2> QED
    BY <1>2, <1>3, <1>4, <1>6, <2>1, <2>2, <2>3, <2>4, <2>5, RetrieveSane
<1>7. ASSUME NEW st, NEW reply, e.state = "UNCACHED",
             \/ st = "SHARED" /\ protocol = "msi" /\ reply = "SH_REP"
             \/ st = "EXCLUSIVE" /\ protocol # "msi" /\ reply = "EX_REP"
      PROVE  SpreadBut(D, D2, b, G) /\ DSane(D2, b, G)
  <2>1. D2 = retrieveDataAndSendToL2Cache(Own(D, b, n, st), reply, b, data)
    BY <1>7 DEF processShReq
  <2>2. st \in {"SHARED", "EXCLUSIVE", "MODIFIED"} /\ st # "MODIFIED" /\ reply \in Grants /\ (st = "SHARED" => protocol = "msi")
    BY <1>4, <1>7
  <2> HIDE DEF n
  <2> QED
    BY <1>1, <1>3, <1>7, <2>1, <2>2, OwnSane
<1>8. CASE e.state = "UNCACHED"
  BY <1>7, <1>8
<1> QED
  BY <1>1, <1>5, <1>6, <1>8 DEF EntryT, Owned

\* The requester may write the copy it has.
LEMMA UpgradeReplySane ==
  ASSUME CacheT, NEW D, NEW b \in Block, Ready(D, b), NEW G, NEW data, DTurn(D, b, G, data), NEW n \in Node,
         NEW D1, Unchanged(D, D1, b), D1.dir[b].state = "MODIFIED",
         NEW D2, D2 = processNextReq(sendTo(D1, {n}, "UPGRADE_REP", b, "none"), b)
  PROVE  SpreadBut(D, D2, b, G) /\ DSane(D2, b, G)
<1>1. D1 \in DirT /\ D1.inbox = D.inbox /\ D1.reqs = D.reqs /\ QueueInv(D.reqs[b]) /\ D.reqs[b] # <<>>
  BY DEF Unchanged, Ready, Kept
<1>2. DRight(D1, b, G)
  BY <1>1, TurnFacts, RightSame
<1>3. "UPGRADE_REP" \in Replies
  BY DEF Replies
<1>4. SpreadBut(D1, D2, b, G) /\ DSane(D2, b, G)
  BY <1>1, <1>2, <1>3, ReplySane
<1> QED
  BY <1>1, <1>4 DEF SpreadBut

\* UPGRADE_REQ.
LEMMA UpgradeSane ==
  ASSUME CacheT, NEW D, NEW b \in Block, Ready(D, b), Head(D.reqs[b]).type = "UPGRADE_REQ", NEW G,
         NEW data \in Data \cup {"none"}, DTurn(D, b, G, data), NEW D2, D2 = processUpgradeReq(D, b, data)
  PROVE  SpreadBut(D, D2, b, G) /\ DSane(D2, b, G)
<1> DEFINE e == D.dir[b]
           r == Head(D.reqs[b])
           n == r.node
<1>1. n \in Node /\ e \in EntryT /\ D \in DirT /\ D.reqs[b] # <<>> /\ r \in Req
  BY ReadyFacts DEF Ready
<1>2. D.dir \in [Block -> EntryT]
  BY <1>1 DEF DirT
<1>3. {"FLUSH_REQ", "INV_REQ"} \subseteq Snoops
  BY DEF Snoops
<1>4. CASE e.state \in Owned /\ Min(e.sharers) = n
  <2> DEFINE D1 == [D EXCEPT !.dir[b].state = "MODIFIED"]
             e1 == [e EXCEPT !.state = "MODIFIED"]
  <2>1. D2 = processNextReq(sendTo(D1, {n}, "UPGRADE_REP", b, "none"), b)
    BY <1>4 DEF processUpgradeReq, Owned
  <2>2. EntrySet(D, D1, b, e1)
    BY <1>2 DEF EntrySet
  <2>3. e1 \in EntryT /\ e1.state = "MODIFIED"
    BY <1>1 DEF EntryT
  <2> HIDE DEF D1, e1, n
  <2>4. /\ D1 \in DirT /\ D1.inbox = D.inbox /\ D1.reqs = D.reqs /\ D1.dir[b] = e1
        /\ D1.slots = D.slots /\ D1.replaced = D.replaced /\ D1.run = D.run
        /\ \A x \in Block : x # b => D1.dir[x] = D.dir[x]
    BY <1>1, <2>2, <2>3, EntryEffect
  <2>5. Unchanged(D, D1, b) /\ D1.dir[b].state = "MODIFIED"
    BY <2>3, <2>4 DEF Unchanged
  <2> QED
    BY <1>1, <2>1, <2>5, UpgradeReplySane
<1>5. CASE e.state \in Owned /\ Min(e.sharers) # n
  <2>1. D2 = sendTo(D, {e.owner}, "FLUSH_REQ", b, "none")
    BY <1>5 DEF processUpgradeReq, Owned
  <2>2. DSane(D, b, G)
    BY <1>5, TurnCached DEF Owned
  <2> QED
    BY <1>1, <1>3, <2>1, <2>2, SnoopSane, SpreadButOf
<1>6. CASE e.state = "SHARED" /\ e.sharers = {n}
  <2> DEFINE D1 == [D EXCEPT !.dir[b].owner = n, !.dir[b].state = "MODIFIED"]
             e1 == [e EXCEPT !.owner = n, !.state = "MODIFIED"]
  <2>1. D2 = processNextReq(sendTo(D1, {n}, "UPGRADE_REP", b, "none"), b)
    BY <1>6 DEF processUpgradeReq
  <2>2. EntrySet(D, D1, b, e1)
    BY <1>2 DEF EntrySet
  <2>3. e1 \in EntryT /\ e1.state = "MODIFIED"
    BY <1>1 DEF EntryT
  <2> HIDE DEF D1, e1, n
  <2>4. /\ D1 \in DirT /\ D1.inbox = D.inbox /\ D1.reqs = D.reqs /\ D1.dir[b] = e1
        /\ D1.slots = D.slots /\ D1.replaced = D.replaced /\ D1.run = D.run
        /\ \A x \in Block : x # b => D1.dir[x] = D.dir[x]
    BY <1>1, <2>2, <2>3, EntryEffect
  <2>5. Unchanged(D, D1, b) /\ D1.dir[b].state = "MODIFIED"
    BY <2>3, <2>4 DEF Unchanged
  <2> QED
    BY <1>1, <2>1, <2>5, UpgradeReplySane
<1>7. CASE e.state = "SHARED" /\ e.sharers # {n}
  <2> DEFINE F == IF n \in e.sharers THEN {} ELSE {Min(e.sharers)}
             N == e.sharers \ (F \cup {n})
             D1 == sendTo(D, F, "FLUSH_REQ", b, "none")
  <2>1. D2 = sendTo(D1, N, "INV_REQ", b, "none")
    BY <1>7 DEF processUpgradeReq
  <2>2. DSane(D, b, G)
    BY <1>7, TurnCached
  <2>3. Spread(D, D1, G) /\ DSane(D1, b, G)
    BY <1>1, <1>3, <2>2, SnoopSane
  <2>4. D1 \in DirT
    <3>1. e.sharers \in SUBSET Node /\ e.sharers # {}
      <4>1. EntryInv(DirView(D, b)) /\ DirView(D, b).e = e
        BY ReadyFacts
      <4> QED
        BY <1>1, <1>7, <4>1 DEF EntryInv, EntryT
    <3>2. F \in SUBSET Node
      BY <3>1, MinIn
    <3>3. ShmemMsg("FLUSH_REQ", b, Home, "none") \in Message /\ ShmemMsg("FLUSH_REQ", b, Home, "none") \in ToCache
      BY <1>3, SnoopKinds, MessageType, DirectoryAssumption
    <3> HIDE DEF F
    <3> QED
      BY <1>1, <3>2, <3>3, SendEffect
  <2> HIDE DEF D1, N
  <2>5. Spread(D1, D2, G) /\ DSane(D2, b, G)
    BY <1>3, <2>1, <2>3, <2>4, SnoopSane
  <2> QED
    BY <2>3, <2>5, SpreadTwice, SpreadButOf
<1>8. CASE e.state = "UNCACHED"
  <2> DEFINE d == IF data = "none" THEN r.data ELSE data
  <2>1. D2 = retrieveDataAndSendToL2Cache(Own(D, b, n, "MODIFIED"), "EX_REP", b, d)
    BY <1>8 DEF processUpgradeReq
  <2>2. d \in Data \cup {"none"}
    BY <1>1 DEF Req
  <2>3. (d = data \/ (data = "none" /\ d = r.data)) /\ (d = "none" => data = "none" /\ r.data = "none")
    OBVIOUS
  <2>4. "EX_REP" \in Grants
    BY DEF Grants
  <2> HIDE DEF d, n
  <2> QED
    BY <1>1, <1>8, <2>1, <2>2, <2>3, <2>4, OwnSane
<1> QED
  BY <1>1, <1>4, <1>5, <1>6, <1>7, <1>8 DEF EntryT, Owned

\* NULLIFY_REQ.
LEMMA NullifySane ==
  ASSUME CacheT, NEW D \in DirT, NEW b \in Block, Kept(D, b), Fresh(DirView(D, b)), D.reqs[b] # <<>>,
         Head(D.reqs[b]).type = "NULLIFY_REQ", NEW G, NEW data, DTurn(D, b, G, data),
         NEW D2, D2 = processNullifyReq(D, b)
  PROVE  Spread(D, D2, G) /\ DSane(D2, b, G)
<1> DEFINE e == D.dir[b]
<1>1. e \in EntryT /\ QueueInv(D.reqs[b])
  BY BoxesOf DEF Kept
<1>2. {"FLUSH_REQ", "INV_REQ"} \subseteq Snoops
  BY DEF Snoops
<1>3. CASE e.state \in Owned
  <2>1. D2 = sendTo(D, {e.owner}, "FLUSH_REQ", b, "none")
    BY <1>3 DEF processNullifyReq, Owned
  <2>2. DSane(D, b, G)
    BY <1>3, TurnCached DEF Owned
  <2> QED
    BY <1>2, <2>1, <2>2, SnoopSane
<1>4. CASE e.state = "SHARED"
  <2>1. D2 = sendTo(D, e.sharers, "INV_REQ", b, "none")
    BY <1>4 DEF processNullifyReq
  <2>2. DSane(D, b, G)
    BY <1>4, TurnCached
  <2> QED
    BY <1>2, <2>1, <2>2, SnoopSane
<1>5. CASE e.state = "UNCACHED"
  <2> DEFINE E == Emptied(D, b)
  <2>1. D2 = processNextReq(E, b)
    BY <1>5 DEF processNullifyReq, Emptied
  <2>2. E \in DirT /\ E.inbox = D.inbox /\ E.reqs = D.reqs
    BY EmptyEffect
  <2> HIDE DEF E
  <2>3. DRight(E, b, G) /\ (b \in G \/ Saved(E.inbox[Home], b, dram[b]))
    BY <1>5, <2>2, TurnFacts, RightSame DEF InHand
  <2>4. QueueInv(E.reqs[b]) /\ E.reqs[b] # <<>>
    BY <1>1, <2>2
  <2>5. D2.inbox = E.inbox /\ D2.dir = E.dir /\ DSane(D2, b, G)
    BY <2>1, <2>2, <2>3, <2>4, NextSane
  <2> QED
    BY <2>2, <2>5, SpreadSame
<1> QED
  BY <1>1, <1>3, <1>4, <1>5 DEF EntryT, Owned

-----------------------------------------------------------------------------
(* All blocks, while the request of one is processed.                      *)

\* The other blocks, and all of them.
OthersSane(D, b, G) == \A x \in Block : x # b => DSane(D, x, G)
AllSane(D, G) == \A x \in Block : DSane(D, x, G)

\* A request that is to be processed, of a block that stays as it is.
LEMMA TurnStays ==
  ASSUME NEW D, NEW D2, NEW b, NEW G, NEW data, DTurn(D, b, G, data),
         Mailed(D.inbox, D2.inbox, b, b \in G), D2.reqs[b] = D.reqs[b],
         D2.dir[b].state = D.dir[b].state, D.dir[b].state = "UNCACHED" \/ D2.dir[b] = D.dir[b]
  PROVE  DTurn(D2, b, G, data)
<1> DEFINE e == D.dir[b]
           e2 == D2.dir[b]
           q == D.reqs[b]
           F == (b \in G)
           ln == Caches(b).ln
           d == dram[b]
           box == D.inbox
           box2 == D2.inbox
           J == JunkLine(b)
<1>1. TurnSane(e, q, box, b, ln, d, F, J, data) /\ Mailed(box, box2, b, F)
  BY DEF DTurn
<1>2. e2.state = e.state /\ (e.state = "UNCACHED" \/ e2 = e) /\ D2.reqs[b] = q
  OBVIOUS
<1> HIDE DEF e, e2, q, F, ln, d, box, box2, J
<1>3. Right(e2, box2, b, d, F, J)
  BY <1>1, <1>2, RightMoves DEF TurnSane, Mailed
<1>4. Safe(e, q, box, b, ln, d, F) => Safe(e2, q, box2, b, ln, d, F)
  <2>1. Saved(box[Home], b, d) => Saved(box2[Home], b, d)
    BY <1>1 DEF Mailed, Moved
  <2>2. DirtyIn(box[Home], e.owner, b) \subseteq DirtyIn(box2[Home], e.owner, b)
    BY <1>1 DEF Mailed, Moved
  <2>3. Unsaved(e, q, box, b, ln) => Unsaved(e2, q, box2, b, ln)
    BY <1>2, <2>2 DEF Unsaved
  <2> QED
    BY <2>1, <2>3 DEF Safe
<1>5. Held(e2, q, F, {"SHARED", "UNCACHED"})
  BY <1>1, <1>2 DEF TurnSane, Held
<1>6. InHand(e, q, data) => InHand(e2, q, data)
  BY <1>2 DEF InHand
<1>7. TurnSane(e2, q, box2, b, ln, d, F, J, data)
  BY <1>1, <1>3, <1>4, <1>5, <1>6 DEF TurnSane
<1> QED
  BY <1>2, <1>7 DEF DTurn, e2, box2, F, ln, d, J

\* The other blocks stay as they are.
LEMMA OthersStaySane ==
  ASSUME NEW D, NEW D2, NEW b, NEW G, OthersSane(D, b, G), SpreadBut(D, D2, b, G),
         \A x \in Block : x # b => D2.dir[x] = D.dir[x] /\ D2.reqs[x] = D.reqs[x]
  PROVE  OthersSane(D2, b, G)
BY SaneStays DEF OthersSane, SpreadBut

\* A block without requests is to be nullified.
LEMMA NullifyTurn ==
  ASSUME NEW D, NEW v, NEW G, DSane(D, v, G), D.reqs[v] = <<>>, NEW n \in Node,
         NEW S, S.inbox = D.inbox, S.dir[v] = D.dir[v], S.reqs[v] = <<ShmemReq("NULLIFY_REQ", n)>>
  PROVE  DTurn(S, v, G, "none")
<1> DEFINE e == D.dir[v]
           q == S.reqs[v]
           F == (v \in G)
           ln == Caches(v).ln
           d == dram[v]
           box == D.inbox
           J == JunkLine(v)
<1>1. Sane(e, <<>>, box, v, ln, d, F, J)
  BY DEF DSane
<1>2. /\ HeadOf(q) = [type |-> "NULLIFY_REQ", node |-> n, wait |-> FALSE, forwardingFrom |-> NoNode]
  BY NullifyQueue
<1>3. ~HeadOf(q).wait
  BY <1>2
<1>4. Head(q).data = "none"
  BY DEF ShmemReq
<1> HIDE DEF e, q, F, ln, d, box, J
<1>5. Held(e, q, F, {"SHARED", "UNCACHED"})
  BY <1>4 DEF Held
<1>6. Safe(e, q, box, v, ln, d, F)
  BY <1>1, <1>3 DEF Sane, Safe, Unsaved
<1>7. TurnSane(e, q, box, v, ln, d, F, J, "none")
  BY <1>1, <1>5, <1>6 DEF Sane, TurnSane
<1> QED
  BY <1>7 DEF DTurn, e, q, F, ln, d, box, J

\* Every way through processDirectoryEntryAllocationReq keeps the data of all blocks sane.
LEMMA EntrySane ==
  ASSUME CacheT, NEW D, NEW b \in Block, NEW v, Handling(D, b, v), Ready(D, b),
         HasEntry(D, b) \/ D.dir[b].sharers = {}, NEW G, NEW data, DTurn(D, b, G, data), OthersSane(D, b, G),
         NEW D1, D1 = getDirectoryEntry(D, b, v)
  PROVE  DTurn(D1, b, G, data) /\ OthersSane(D1, b, G)
<1>1. D \in DirT /\ D.dir \in [Block -> EntryT] /\ ~D.run
  BY DEF Handling, DirT, Ready
<1>2. D.dir[b].sharers = {} => D.dir[b].state = "UNCACHED"
  <2>1. EntryInv(DirView(D, b)) /\ DirView(D, b).e = D.dir[b]
    BY ReadyFacts
  <2> QED
    BY <2>1 DEF EntryInv
<1>3. CASE D1 = D
  BY <1>3
<1>4. CASE ~HasEntry(D, b) /\ D1 = WithEntry(D, b)
  <2>1. D1 = [D EXCEPT !.slots = D.slots \cup {b}, !.dir = [D.dir EXCEPT ![b] = DirectoryEntry]]
    BY <1>4 DEF WithEntry
  <2>2. /\ D1.inbox = D.inbox /\ D1.reqs = D.reqs /\ D1.dir[b] = DirectoryEntry
        /\ \A x \in Block : x # b => D1.dir[x] = D.dir[x]
    BY <1>1, <2>1 DEF DirT
  <2>3. D1.dir[b].state = D.dir[b].state /\ D.dir[b].state = "UNCACHED"
    BY <1>2, <1>4, <2>2, NewEntry
  <2>4. Spread(D, D1, G)
    BY <2>2, SpreadSame
  <2>5. DTurn(D1, b, G, data)
    BY <2>2, <2>3, <2>4, TurnStays DEF Spread
  <2>6. OthersSane(D1, b, G)
    BY <2>2, <2>4, SpreadButOf, OthersStaySane
  <2> QED
    BY <2>5, <2>6
<1>5. ASSUME NEW n \in Node, NEW S, S = Stolen(D, b, v, n), ~HasEntry(D, b), v \in D.slots,
             D1 = processNullifyReq(S, v)
      PROVE  DTurn(D1, b, G, data) /\ OthersSane(D1, b, G)
  <2>1. v \in Block /\ v # b /\ D.reqs[v] = <<>> /\ Settled(D, v)
    BY <1>1, <1>5 DEF Handling, DirT, HasEntry, VictimOK, OthersSettled
  <2>2. Steals(D, S, b, v, n)
    BY <1>1, <1>5, <2>1, StealEffect
  <2>3. /\ S \in DirT /\ S.inbox = D.inbox /\ S.dir[v] = D.dir[v] /\ S.reqs[v] = <<ShmemReq("NULLIFY_REQ", n)>>
        /\ S.run = D.run /\ S.reqs[b] = D.reqs[b] /\ S.dir[b] = DirectoryEntry
        /\ \A x \in Block : x # b /\ x # v => S.dir[x] = D.dir[x] /\ S.reqs[x] = D.reqs[x]
    BY <2>1, <2>2 DEF Steals
  <2>4. /\ Kept(S, v) /\ Fresh(DirView(S, v)) /\ DirView(S, v).r.type = "NULLIFY_REQ" /\ S.reqs[v] # <<>>
    BY <1>1, <1>5, <2>1, <2>3, NullifyFresh
  <2>5. Head(S.reqs[v]).type = "NULLIFY_REQ"
    BY <2>3 DEF ShmemReq
  <2>6. Nullified(S, D1, v)
    <3>1. ~S.run
      BY <1>1, <2>3
    <3> QED
      BY <1>5, <2>1, <2>3, <2>4, <3>1, NullifyEffect
  <2>7. OnlyBlock(S, D1, v)
    BY <2>6 DEF Nullified
  <2>8. \A x \in Block : x # v => D1.dir[x] = S.dir[x] /\ D1.reqs[x] = S.reqs[x]
    BY <2>7 DEF OnlyBlock
  <2>9. DSane(D, v, G)
    BY <2>1 DEF OthersSane
  <2>10. DTurn(S, v, G, "none")
    BY <1>5, <2>1, <2>3, <2>9, NullifyTurn
  <2>11. Spread(S, D1, G) /\ DSane(D1, v, G)
    BY <1>5, <2>1, <2>3, <2>4, <2>5, <2>10, NullifySane
  <2>12. Spread(D, D1, G)
    BY <2>3, <2>11 DEF Spread
  <2>13. DTurn(D1, b, G, data)
    <3>1. Mailed(D.inbox, D1.inbox, b, b \in G)
      BY <2>12 DEF Spread
    <3>2. D1.dir[b].state = D.dir[b].state /\ D.dir[b].state = "UNCACHED" /\ D1.reqs[b] = D.reqs[b]
      BY <1>2, <1>5, <2>1, <2>3, <2>8, NewEntry
    <3> QED
      BY <3>1, <3>2, TurnStays
  <2>14. ASSUME NEW x \in Block, x # b PROVE DSane(D1, x, G)
    <3>1. CASE x = v
      BY <2>11, <3>1
    <3>2. CASE x # v
      <4>1. D1.dir[x] = D.dir[x] /\ D1.reqs[x] = D.reqs[x]
        BY <2>3, <2>8, <2>14, <3>2
      <4>2. DSane(D, x, G) /\ Mailed(D.inbox, D1.inbox, x, x \in G)
        BY <2>12, <2>14 DEF OthersSane, Spread
      <4> QED
        BY <4>1, <4>2, SaneStays
    <3> QED
      BY <3>1, <3>2
  <2> QED
    BY <2>13, <2>14 DEF OthersSane
<1>6. \/ D1 = D
      \/ ~HasEntry(D, b) /\ D1 = WithEntry(D, b)
      \/ /\ ~HasEntry(D, b) /\ v \in D.slots
         /\ D1 = processNullifyReq(Stolen(D, b, v, Head(D.reqs[b]).node), v)
  BY DEF getDirectoryEntry, WithEntry, Stolen
<1>7. Head(D.reqs[b]).node \in Node
  BY ReadyFacts
<1> QED
  BY <1>3, <1>4, <1>5, <1>6, <1>7

\* A request without data is to be processed.
LEMMA SaneTurn ==
  ASSUME NEW D, NEW b, NEW G, DSane(D, b, G)
  PROVE  DTurn(D, b, G, "none")
BY DEF DSane, DTurn, Sane, TurnSane, Held

\* The request at the head of the queue is processed, whatever its type.
LEMMA ProcessSane ==
  ASSUME CacheT, NEW D, NEW b \in Block, NEW v, Turn(D, b, v), NEW data \in Data \cup {"none"},
         MayMiss(D, b, data), NEW G, DTurn(D, b, G, data), OthersSane(D, b, G),
         NEW D2, D2 = processReq(D, b, v, data)
  PROVE  AllSane(D2, G)
<1> DEFINE D0 == Stopped(D)
           D1 == getDirectoryEntry(D0, b, v)
           t == Head(D.reqs[b]).type
<1>1. Turn(D0, b, v) /\ ~D0.run /\ D0.reqs = D.reqs /\ D0.dir = D.dir /\ (HasEntry(D0, b) <=> HasEntry(D, b))
  BY StopEffect
<1>2. D0 \in DirT /\ D \in DirT
  BY <1>1 DEF Turn, Handling
<1>3. D0.inbox = D.inbox
  BY <1>2 DEF Stopped, DirT
<1>4. /\ t = "EX_REQ" => D2 = processExReq(D1, b, data)
      /\ t = "SH_REQ" => D2 = processShReq(D1, b, data)
      /\ t = "UPGRADE_REQ" => D2 = processUpgradeReq(D1, b, data)
      /\ t = "NULLIFY_REQ" => D2 = processNullifyReq(D0, b)
  BY DEF processReq, Stopped
<1>5. DirView(D0, b).r.type = t /\ t \in Requests \cup {"NULLIFY_REQ"}
  <2>1. DirView(D0, b).r = HeadOf(D.reqs[b])
    BY <1>1, <1>2, DirViewType
  <2>2. QueueInv(D.reqs[b]) /\ D.reqs[b] # <<>>
    BY DEF Turn, Kept
  <2> QED
    BY <2>1, <2>2, HeadFacts
<1>6. MayMiss(D0, b, data)
  BY <1>1 DEF MayMiss
<1>7. DTurn(D0, b, G, data) /\ OthersSane(D0, b, G) /\ Head(D0.reqs[b]).type = t
  BY <1>1, <1>3 DEF DTurn, OthersSane, DSane
<1> HIDE DEF D0, D1, t
<1>8. ASSUME NEW E, OthersSane(E, b, G), OnlyBlock(E, D2, b), SpreadBut(E, D2, b, G), DSane(D2, b, G)
      PROVE  AllSane(D2, G)
  <2>1. \A x \in Block : x # b => D2.dir[x] = E.dir[x] /\ D2.reqs[x] = E.reqs[x]
    BY <1>8 DEF OnlyBlock
  <2>2. OthersSane(D2, b, G)
    BY <1>8, <2>1, OthersStaySane
  <2> QED
    BY <1>8, <2>2 DEF OthersSane, AllSane
<1>9. CASE t = "NULLIFY_REQ"
  <2>1. Kept(D0, b) /\ Fresh(DirView(D0, b)) /\ D0.reqs[b] # <<>>
    BY <1>1 DEF Turn
  <2>2. Nullified(D0, D2, b)
    BY <1>1, <1>2, <1>4, <1>5, <1>9, <2>1, NullifyEffect
  <2>3. Spread(D0, D2, G) /\ DSane(D2, b, G)
    BY <1>2, <1>4, <1>7, <1>9, <2>1, NullifySane
  <2>4. OnlyBlock(D0, D2, b)
    BY <2>2 DEF Nullified
  <2> QED
    BY <1>7, <1>8, <2>3, <2>4, SpreadButOf
<1>10. CASE t \in Requests
  <2>1. Ready(D0, b) /\ Handling(D0, b, v)
    BY <1>1, <1>2, <1>5, <1>10 DEF Ready, Turn
  <2>2. HasEntry(D0, b) \/ D0.dir[b].sharers = {}
    BY <1>6 DEF MayMiss
  <2>3. GotEntry(D0, D1, b, v)
    BY <2>1, <2>2, GetEntry DEF D1
  <2>4. Ready(D1, b) /\ D1.reqs[b] = D0.reqs[b]
    BY <2>3 DEF GotEntry
  <2>5. DirView(D1, b).r.type = t /\ Head(D1.reqs[b]).type = t
    <3>1. D1 \in DirT
      BY <2>4 DEF Ready
    <3> QED
      BY <1>2, <1>5, <1>7, <2>4, <3>1, DirViewType
  <2>6. DTurn(D1, b, G, data) /\ OthersSane(D1, b, G)
    BY <1>7, <2>1, <2>2, EntrySane DEF D1
  <2>7. CASE t = "EX_REQ"
    <3>1. D2 = processExReq(D1, b, data)
      BY <1>4, <2>7
    <3>2. Answers(D1, D2, b, data)
      BY <2>4, <2>5, <2>7, <3>1, ExRequest
    <3>3. OnlyBlock(D1, D2, b)
      BY <3>2 DEF Answers, Handled
    <3>4. SpreadBut(D1, D2, b, G) /\ DSane(D2, b, G)
      BY <2>4, <2>5, <2>6, <2>7, <3>1, ExSane
    <3> QED
      BY <1>8, <2>6, <3>3, <3>4
  <2>8. CASE t = "SH_REQ"
    <3>1. D2 = processShReq(D1, b, data)
      BY <1>4, <2>8
    <3>2. Answers(D1, D2, b, data)
      BY <2>4, <2>5, <2>8, <3>1, ShRequest
    <3>3. OnlyBlock(D1, D2, b)
      BY <3>2 DEF Answers, Handled
    <3>4. SpreadBut(D1, D2, b, G) /\ DSane(D2, b, G)
      BY <2>4, <2>5, <2>6, <2>8, <3>1, ShSane
    <3> QED
      BY <1>8, <2>6, <3>3, <3>4
  <2>9. CASE t = "UPGRADE_REQ"
    <3>1. D2 = processUpgradeReq(D1, b, data)
      BY <1>4, <2>9
    <3>2. Processed(D1, D2, b, data)
      BY <2>4, <2>5, <2>9, <3>1, UpgradeRequest
    <3>3. OnlyBlock(D1, D2, b)
      BY <3>2 DEF Processed, Handled
    <3>4. SpreadBut(D1, D2, b, G) /\ DSane(D2, b, G)
      BY <2>4, <2>5, <2>6, <2>9, <3>1, UpgradeSane
    <3> QED
      BY <1>8, <2>6, <3>3, <3>4
  <2> QED
    BY <1>10, <2>7, <2>8, <2>9 DEF Requests
<1> QED
  BY <1>5, <1>9, <1>10

\* Every round of the loop over the queue keeps the data sane.
LEMMA RoundsSane ==
  ASSUME CacheT, NEW D, NEW b \in Block, NEW v, Running(D, b, v), NEW n, n = Len(D.reqs[b]), n \in Nat,
         NEW f, Rounds(D, b, v, n, f), NEW G, AllSane(D, G), NEW k \in 0..n
  PROVE  AllSane(f[k], G)
<1> DEFINE Bad == {j \in 0..n : ~AllSane(f[j], G)}
<1>1. SUFFICES ASSUME Bad # {} PROVE FALSE
  OBVIOUS
<1>2. PICK j \in Bad : \A i \in Bad : j <= i
  <2>1. Bad \subseteq Nat
    OBVIOUS
  <2> QED
    BY <1>1, <2>1, LeastElement
<1>3. j \in 0..n /\ ~AllSane(f[j], G)
  BY <1>2
<1>4. f[j] = IF j = 0 THEN D ELSE Round(f[j - 1], b, v)
  BY <1>3 DEF Rounds
<1>5. CASE j = 0
  BY <1>3, <1>4, <1>5
<1>6. CASE j # 0
  <2>1. j - 1 \in 0..n /\ j - 1 \notin Bad
    BY <1>2, <1>3, <1>6
  <2> DEFINE E == f[j - 1]
  <2>2. AllSane(E, G)
    BY <2>1
  <2>3. Running(E, b, v)
    BY <2>1, RoundsRun
  <2>4. f[j] = Round(E, b, v)
    BY <1>4, <1>6
  <2> HIDE DEF E, Bad
  <2>5. CASE ~E.run
    BY <1>3, <2>2, <2>4, <2>5 DEF Round
  <2>6. CASE E.run
    <3>1. f[j] = processReq(E, b, v, "none")
      BY <2>4, <2>6 DEF Round
    <3>2. Turn(E, b, v) /\ MayMiss(E, b, "none")
      BY <2>3, <2>6 DEF Running
    <3>3. DTurn(E, b, G, "none") /\ OthersSane(E, b, G)
      BY <2>2, SaneTurn DEF AllSane, OthersSane
    <3>4. AllSane(f[j], G)
      BY <3>1, <3>2, <3>3, ProcessSane
    <3> QED
      BY <1>3, <3>4
  <2> QED
    BY <2>5, <2>6
<1> QED
  BY <1>5, <1>6

\* So does the loop.
LEMMA QueueSane ==
  ASSUME CacheT, NEW D, NEW b \in Block, NEW v, Running(D, b, v), NEW G, AllSane(D, G),
         NEW D2, D2 = RunQueue(D, b, v)
  PROVE  AllSane(D2, G)
<1> DEFINE n == Len(D.reqs[b])
<1>1. n \in Nat
  BY DEF Running, Handling, DirT
<1>2. PICK f : Rounds(D, b, v, n, f) /\ D2 = f[n]
  <2>1. \E f : Rounds(D, b, v, n, f)
    BY <1>1, RoundsExist
  <2>2. D2 = (CHOOSE f : Rounds(D, b, v, n, f))[n]
    BY DEF RunQueue, Rounds, Round
  <2> QED
    BY <2>1, <2>2
<1>3. n \in 0..n
  BY <1>1
<1> HIDE DEF n
<1> QED
  BY <1>1, <1>2, <1>3, RoundsSane DEF n

\* Processing a request, and those that can follow it.
LEMMA ProcessAllSane ==
  ASSUME CacheT, NEW D, NEW b \in Block, NEW v, Turn(D, b, v), NEW data \in Data \cup {"none"},
         MayMiss(D, b, data), NEW G, DTurn(D, b, G, data), OthersSane(D, b, G),
         NEW D2, D2 = Process(D, b, v, data)
  PROVE  AllSane(D2, G)
<1> DEFINE D1 == processReq(D, b, v, data)
<1>1. D2 = RunQueue(D1, b, v)
  BY DEF Process
<1> HIDE DEF D1
<1>2. Running(D1, b, v)
  BY ProcessReq, GoingRuns DEF D1
<1>3. AllSane(D1, G)
  BY ProcessSane DEF D1
<1> QED
  BY <1>1, <1>2, <1>3, QueueSane

-----------------------------------------------------------------------------
(* The handlers of the directory.                                          *)

\* A message to the directory is taken from the inbox of the home node.
LEMMA TakenSane ==
  ASSUME NEW D, Between(D), NEW P, NEW m, NEW b, NEW n, NEW t, Message1(D, P, m, b, n, t),
         t # "DRAM_WRITE_REQ", NEW G, AllSane(D, G)
  PROVE  /\ OthersSane(P, b, G) /\ P.dir = D.dir /\ P.reqs = D.reqs /\ P.inbox = Pop(D.inbox, Home)
         /\ DRight(P, b, G)
         /\ Saved(D.inbox[Home], b, dram[b]) => Saved(P.inbox[Home], b, dram[b])
         /\ t \notin Dirty => DSane(P, b, G)
         /\ t \in Bearers => Good(m.data, b \in G) \/ (m.data = "junk" /\ t \in {"EX_REP", "WB_REP"})
<1>1. /\ D.inbox[Home] # <<>> /\ m = Head(D.inbox[Home]) /\ b = m.block /\ t = m.type /\ b \in Block
      /\ P.dir = D.dir /\ P.reqs = D.reqs /\ P.inbox = Pop(D.inbox, Home)
  BY DEF Message1, Takes1, Pop
<1>2. D.inbox \in Boxes /\ Home \in Node /\ D.inbox[Home] \in Seq(Message)
  BY BoxesOf, BoxesHold DEF Between
<1>3. m \in Message
  BY <1>1, <1>2
<1>4. ASSUME NEW x \in Block, x # b \/ t \notin Dirty PROVE DSane(P, x, G)
  <2>1. m \notin Writes(x) /\ m \notin Kind(x, Dirty)
    BY <1>1, <1>4 DEF Writes, Kind
  <2>2. Mailed(D.inbox, P.inbox, x, x \in G)
    BY <1>1, <1>2, <2>1, PopMailed
  <2>3. DSane(D, x, G)
    BY DEF AllSane
  <2> QED
    BY <1>1, <2>2, <2>3, SaneStays
<1> DEFINE T == Allowed(D.dir[b], D.inbox[Home], b, dram[b])
<1>5. /\ Mail(D.inbox, b, b \in G, T) /\ dram[b] # "old"
      /\ JunkLine(b) => b \in G \/ Saved(D.inbox[Home], b, dram[b])
  BY <1>1 DEF AllSane, DSane, Sane, Right
<1>6. m \notin Writes(b)
  BY <1>1 DEF Writes, Kind
<1>7. /\ DRight(P, b, G)
      /\ Saved(D.inbox[Home], b, dram[b]) => Saved(P.inbox[Home], b, dram[b])
  <2>1. /\ \A U : Mail(D.inbox, b, b \in G, U) => Mail(P.inbox, b, b \in G, U)
        /\ \A d : Saved(D.inbox[Home], b, d) => Saved(P.inbox[Home], b, d)
    BY <1>1, <1>2, <1>6, PopMail, ZenonT(60)
  <2>2. T \subseteq Allowed(P.dir[b], P.inbox[Home], b, dram[b])
    BY <1>1, <2>1 DEF Allowed
  <2>3. Mail(P.inbox, b, b \in G, Allowed(P.dir[b], P.inbox[Home], b, dram[b]))
    <3> HIDE DEF T
    <3> QED
      BY <1>5, <2>1, <2>2, MailMore
  <2> QED
    BY <1>5, <2>1, <2>3 DEF DRight, Right
<1>8. m \notin Tainted(b, b \in G, T)
  <2>1. ~In(D.inbox[Home], Tainted(b, b \in G, T))
    BY <1>2, <1>5 DEF Mail, Pure
  <2> HIDE DEF T
  <2> QED
    BY <1>1, <1>2, <2>1, PopIn
<1>9. t \in Bearers => Good(m.data, b \in G) \/ (m.data = "junk" /\ t \in {"EX_REP", "WB_REP"})
  BY <1>1, <1>3, <1>8 DEF Tainted, Allowed
<1> QED
  BY <1>1, <1>4, <1>7, <1>9 DEF OthersSane

\* An upgrade whose block has no copies left does not wait.
LEMMA SettledHeld ==
  ASSUME NEW D, NEW b \in Block, Settled(D, b), NEW F, Held(D.dir[b], D.reqs[b], F, {"SHARED", "UNCACHED"})
  PROVE  Held(D.dir[b], D.reqs[b], F, {"SHARED"})
<1> DEFINE e == D.dir[b]
           q == D.reqs[b]
           A == DirView(D, b)
<1>1. SUFFICES ASSUME q # <<>>, Head(q).type = "UPGRADE_REQ", e.state = "UNCACHED" PROVE FALSE
  BY DEF Held
<1>2. Stable(A) /\ QueueInv(q) /\ A.e = e /\ A.r = HeadOf(q)
  BY DEF Settled, Kept, DirView, View
<1> HIDE DEF A, q, e
<1>3. A.r.type = "UPGRADE_REQ"
  BY <1>1, <1>2, HeadFacts
<1>4. EntryInv(A) /\ AwaitInv(A)
  BY <1>2, <1>3 DEF Stable, CoreInv, Idles, Waiting
<1>5. A.e.sharers = {}
  BY <1>1, <1>2, <1>4 DEF EntryInv
<1> QED
  BY <1>1, <1>2, <1>3, <1>4, <1>5 DEF AwaitInv

\* A handler that has come to D1 ends with sane data.
LEMMA EndsSane ==
  ASSUME CacheT, NEW b \in Block, NEW v, NEW data \in Data \cup {"none"}, NEW D1, NEW D2,
         Ends(D1, D2, b, v, data), NEW G, OthersSane(D1, b, G), DTurn(D1, b, G, data),
         Done(D1, b, v) /\ D2 = D1 =>
           Safe(D1.dir[b], D1.reqs[b], D1.inbox, b, Caches(b).ln, dram[b], b \in G)
  PROVE  AllSane(D2, G)
<1>1. CASE D2 = D1 /\ Done(D1, b, v)
  <2>1. Settled(D1, b) /\ Safe(D1.dir[b], D1.reqs[b], D1.inbox, b, Caches(b).ln, dram[b], b \in G)
    BY <1>1 DEF Done
  <2>2. /\ DRight(D1, b, G)
        /\ Held(D1.dir[b], D1.reqs[b], b \in G, {"SHARED", "UNCACHED"})
    BY TurnFacts
  <2>3. Held(D1.dir[b], D1.reqs[b], b \in G, {"SHARED"})
    BY <2>1, <2>2, SettledHeld
  <2>4. DSane(D1, b, G)
    BY <2>1, <2>2, <2>3 DEF DSane, Sane, DRight
  <2> QED
    BY <1>1, <2>4 DEF OthersSane, AllSane
<1>2. CASE D2 = Process(D1, b, v, data) /\ Turn(D1, b, v) /\ MayMiss(D1, b, data)
  BY <1>2, ProcessAllSane
<1> QED
  BY <1>1, <1>2 DEF Ends

\* EX_REQ, SH_REQ, UPGRADE_REQ.
LEMMA RequestSane ==
  ASSUME CacheT, NEW D, Between(D), NEW P, NEW m, NEW b, NEW n, NEW t, Message1(D, P, m, b, n, t),
         t \in Requests, NEW v, VictimOK(D, b, v), NEW G, AllSane(D, G), NEW D2, D2 = handleReq(P, b, n, t, v)
  PROVE  AllSane(D2, G)
<1> DEFINE D1 == Queued(P, b, t, n)
           q == P.reqs[b]
           q1 == D1.reqs[b]
<1>1. Ends(D1, D2, b, v, "none") /\ b \in Block /\ n \in Node /\ P \in DirT
  BY RequestEnds DEF Message1, Takes1
<1>2. Queues(P, D1, b, t, n)
  BY <1>1, QueueEffect
<1>3. OthersSane(P, b, G) /\ DSane(P, b, G)
  BY TakenSane DEF Requests, Dirty
<1> HIDE DEF D1
<1>4. /\ D1.inbox = P.inbox /\ D1.dir = P.dir /\ q1 = Append(q, ShmemReq(t, n))
      /\ \A x \in Block : x # b => D1.reqs[x] = P.reqs[x]
  BY <1>2 DEF Queues, OnlyBlock
<1>5. q \in Seq(Req) /\ ShmemReq(t, n) \in Req
  BY <1>1, BoxesOf DEF ShmemReq, Req, Requests
<1>6. OthersSane(D1, b, G)
  BY <1>3, <1>4, SpreadSame, SpreadButOf, OthersStaySane
<1>7. q1 # <<>> /\ Head(q1) = IF q = <<>> THEN ShmemReq(t, n) ELSE Head(q)
  <2>1. q1 = Append(q, ShmemReq(t, n))
    BY <1>4
  <2> HIDE DEF q, q1
  <2> QED
    BY <1>5, <2>1
<1> HIDE DEF q, q1
<1>8. DSane(D1, b, G)
  <2>1. (q1 # <<>> /\ Head(q1).data # "none") => q # <<>> /\ Head(q1) = Head(q)
    BY <1>7 DEF ShmemReq
  <2>2. HeadOf(q1).wait <=> HeadOf(q).wait
    BY <1>7 DEF HeadOf, NoReq, ShmemReq
  <2>3. Sane(P.dir[b], q, P.inbox, b, Caches(b).ln, dram[b], b \in G, JunkLine(b))
    BY <1>3 DEF DSane, q
  <2>4. Held(P.dir[b], q1, b \in G, {"SHARED"})
    BY <2>1, <2>3 DEF Sane, Held
  <2>5. Safe(P.dir[b], q1, P.inbox, b, Caches(b).ln, dram[b], b \in G)
    BY <2>2, <2>3 DEF Sane, Safe, Unsaved
  <2>6. Sane(P.dir[b], q1, P.inbox, b, Caches(b).ln, dram[b], b \in G, JunkLine(b))
    BY <2>3, <2>4, <2>5 DEF Sane
  <2> QED
    BY <1>4, <2>6 DEF DSane, q1
<1>9. DTurn(D1, b, G, "none")
  BY <1>8, SaneTurn
<1>10. Safe(D1.dir[b], D1.reqs[b], D1.inbox, b, Caches(b).ln, dram[b], b \in G)
  BY <1>8 DEF DSane, Sane
<1> QED
  BY <1>1, <1>6, <1>9, <1>10, EndsSane

\* What the view says of lines and dirty data.
LEMMA ViewDirty ==
  ASSUME NEW D, NEW b, NEW A, A = DirView(D, b), NEW n \in Node
  PROVE  A.ln = Caches(b).ln /\ DirtyIn(D.inbox[Home], n, b) = A.f[n] \cap Dirty
BY DEF DirView, View, DirtyIn

\* A cache that has given up clean data has no other data to give.
LEMMA CleanDrop ==
  ASSUME NEW D, NEW b \in Block, Settled(D, b), NEW A, A = DirView(D, b), NEW n \in Node,
         "INV_REP" \in A.f[n], "WB_REP" \notin A.f[n], NEW G, DSane(D, b, G)
  PROVE  (b \in G \/ Saved(D.inbox[Home], b, dram[b])) /\ D.dir[b].state # "MODIFIED"
<1>1. /\ EntryInv(A) /\ CoreN(A, n) /\ A.e = D.dir[b]
  BY DEF Settled, Stable, CoreInv, DirView, View
<1>2. A.ln = Caches(b).ln /\ DirtyIn(D.inbox[Home], n, b) = A.f[n] \cap Dirty
  BY ViewDirty
<1> HIDE DEF DirView
<1>3. A.e.state \in {"SHARED", "EXCLUSIVE"} /\ "FLUSH_REP" \notin A.f[n] /\ A.ln[n] = "INVALID" /\ n \in A.e.sharers
  BY <1>1 DEF CoreN, Known, Single, Present, Dropped
<1>4. DirtyIn(D.inbox[Home], n, b) = {}
  BY <1>2, <1>3 DEF Dirty
<1>5. A.e.state = "EXCLUSIVE" => A.e.owner = n
  BY <1>1, <1>3 DEF EntryInv, Owned
<1>6. ~Unsaved(D.dir[b], D.reqs[b], D.inbox, b, Caches(b).ln)
  BY <1>1, <1>2, <1>3, <1>4, <1>5 DEF Unsaved
<1> QED
  BY <1>1, <1>3, <1>6 DEF DSane, Sane, Safe

\* INV_REP.
LEMMA InvRepSane ==
  ASSUME CacheT, NEW D, Between(D), NEW P, NEW m, NEW b, NEW n, Message1(D, P, m, b, n, "INV_REP"),
         NEW v, VictimOK(D, b, v), NEW G, AllSane(D, G), NEW D2, D2 = processInvRep(P, b, n, v)
  PROVE  AllSane(D2, G)
<1>1. PICK D1, fw : EntrySet(P, D1, b, WithoutCopy(P.dir[b], n, fw)) /\ Ends(D1, D2, b, v, "none")
  BY InvRepEnds
<1> DEFINE e == P.dir[b]
           e1 == WithoutCopy(e, n, fw)
           A == DirView(D, b)
<1>2. b \in Block /\ n \in Node /\ P \in DirT /\ e \in EntryT
  BY BoxesOf DEF Message1, Takes1
<1>3. /\ OthersSane(P, b, G) /\ P.dir = D.dir /\ P.reqs = D.reqs
      /\ Saved(D.inbox[Home], b, dram[b]) => Saved(P.inbox[Home], b, dram[b])
      /\ DSane(P, b, G)
  BY TakenSane DEF Dirty
<1>4. "INV_REP" \in A.f[n] /\ "WB_REP" \notin A.f[n]
  <2>1. Came(D, P, A, DirView(P, b), b, n, "INV_REP")
    BY <1>2, MessageCame DEF Returns, Drops
  <2> QED
    BY <2>1 DEF Came, Arrived, Drops
<1>5. Settled(D, b) /\ DSane(D, b, G)
  BY <1>2 DEF Between, AllSane
<1>6. (b \in G \/ Saved(P.inbox[Home], b, dram[b])) /\ e.state # "MODIFIED"
  BY <1>2, <1>3, <1>4, <1>5, CleanDrop
<1>7. e1.state \in {"UNCACHED", e.state}
  BY <1>2 DEF WithoutCopy, EntryT
<1>8. D1.inbox = P.inbox /\ D1.reqs = P.reqs /\ D1.dir = [P.dir EXCEPT ![b] = e1]
  BY <1>1, <1>2 DEF EntrySet, DirT
<1> HIDE DEF A, e1
<1>9. D1.dir[b] = e1 /\ \A x \in Block : x # b => D1.dir[x] = P.dir[x]
  BY <1>2, <1>8 DEF DirT
<1>10. OthersSane(D1, b, G)
  BY <1>3, <1>8, <1>9, SpreadSame, SpreadButOf, OthersStaySane
<1>11. Safe(e1, P.reqs[b], P.inbox, b, Caches(b).ln, dram[b], b \in G)
  BY <1>6 DEF Safe
<1>12. DTurn(D1, b, G, "none")
  <2>1. Sane(e, P.reqs[b], P.inbox, b, Caches(b).ln, dram[b], b \in G, JunkLine(b))
    BY <1>3 DEF DSane
  <2>2. Held(e1, P.reqs[b], b \in G, {"SHARED", "UNCACHED"})
    BY <1>7, <2>1 DEF Sane, Held
  <2>3. DRight(P, b, G)
    BY <2>1 DEF Sane, DRight
  <2>4. DRight(D1, b, G)
    BY <1>6, <1>8, <2>3, RightSame
  <2>5. TurnSane(e1, P.reqs[b], P.inbox, b, Caches(b).ln, dram[b], b \in G, JunkLine(b), "none")
    BY <1>8, <1>9, <1>11, <2>2, <2>4 DEF TurnSane, DRight
  <2> QED
    BY <1>8, <1>9, <2>5 DEF DTurn
<1> QED
  BY <1>1, <1>2, <1>8, <1>9, <1>10, <1>11, <1>12, EndsSane

\* More data is good once a WB_REP has been handled.
LEMMA ForwardedSane ==
  ASSUME NEW D, NEW G, AllSane(D, G), NEW b
  PROVE  AllSane(D, G \cup {b})
<1> DEFINE G2 == G \cup {b}
<1>1. ASSUME NEW x \in Block PROVE DSane(D, x, G2)
  <2> DEFINE F == (x \in G)
             F2 == (x \in G2)
             e == D.dir[x]
             q == D.reqs[x]
             box == D.inbox
             ln == Caches(x).ln
             d == dram[x]
             J == JunkLine(x)
             T == Allowed(e, box[Home], x, d)
  <2>1. Sane(e, q, box, x, ln, d, F, J) /\ (F => F2)
    BY DEF AllSane, DSane
  <2>2. Mail(box, x, F, T) /\ d # "old" /\ (J => F \/ Saved(box[Home], x, d))
    BY <2>1 DEF Sane, Right
  <2> HIDE DEF F, F2, e, q, box, ln, d, J, T
  <2>3. Tainted(x, F2, T) \subseteq Tainted(x, F, T)
    BY <2>1 DEF Tainted, Good
  <2>4. \A n \in Node : In(box[n], Tainted(x, F2, T)) => In(box[n], Tainted(x, F, T))
    BY <2>3 DEF In, At
  <2>5. Mail(box, x, F2, T)
    BY <2>2, <2>4 DEF Mail, Pure
  <2>6. Right(e, box, x, d, F2, J)
    BY <2>1, <2>2, <2>5 DEF Right, T
  <2>7. Held(e, q, F2, {"SHARED"})
    BY <2>1 DEF Sane, Held, Good
  <2>8. Safe(e, q, box, x, ln, d, F2)
    BY <2>1 DEF Sane, Safe
  <2>9. Sane(e, q, box, x, ln, d, F2, J)
    BY <2>6, <2>7, <2>8 DEF Sane
  <2> QED
    BY <2>9 DEF DSane, F2, e, q, box, ln, d, J
<1> QED
  BY <1>1 DEF AllSane

\* WB_REP.
LEMMA WbRepSane ==
  ASSUME CacheT, NEW D, Between(D), NEW P, NEW m, NEW b, NEW n, Message1(D, P, m, b, n, "WB_REP"),
         NEW v, VictimOK(D, b, v), NEW data \in Data, data = m.data, NEW G, AllSane(D, G),
         NEW D3, D3 = processWbRep(P, b, v, data)
  PROVE  AllSane(D3, G \cup {b})
<1> DEFINE G2 == G \cup {b}
<1>1. PICK D2 : \E e2 \in EntryT : EntrySet(P, D2, b, e2) /\ e2.state = "SHARED" /\ Ends(D2, D3, b, v, data)
  BY WbRepEnds
<1>2. PICK e2 \in EntryT : EntrySet(P, D2, b, e2) /\ e2.state = "SHARED" /\ Ends(D2, D3, b, v, data)
  BY <1>1
<1>3. P.reqs[b] # <<>> /\ Head(P.reqs[b]).type = "SH_REQ"
  BY WbRepEnds
<1>4. b \in Block /\ P \in DirT
  BY DEF Message1, Takes1
<1>5. AllSane(D, G2)
  BY ForwardedSane
<1> HIDE DEF G2
<1>6. OthersSane(P, b, G2) /\ P.dir = D.dir /\ P.reqs = D.reqs /\ DRight(P, b, G2) /\ b \in G2
  BY <1>5, TakenSane DEF G2
<1>6a. Good(data, b \in G2)
  <2>1. Good(data, b \in G2) \/ data = "junk"
    BY <1>5, TakenSane DEF Bearers
  <2> QED
    BY <1>6, <2>1 DEF Good
<1>7. /\ D2.inbox = P.inbox /\ D2.reqs = P.reqs /\ D2.dir[b] = e2
      /\ \A x \in Block : x # b => D2.dir[x] = P.dir[x]
  BY <1>2, <1>4, EntryEffect
<1>8. OthersSane(D2, b, G2)
  BY <1>6, <1>7, SpreadSame, SpreadButOf, OthersStaySane
<1>9. Safe(D2.dir[b], D2.reqs[b], D2.inbox, b, Caches(b).ln, dram[b], b \in G2)
  BY DEF Safe, G2
<1>10. DTurn(D2, b, G2, data)
  <2>1. DSane(D, b, G2)
    BY <1>4, <1>5 DEF AllSane
  <2>2. Head(P.reqs[b]).data = "none"
    BY <1>3, <1>6, <2>1 DEF DSane, Sane, Held
  <2>3. Held(D2.dir[b], D2.reqs[b], b \in G2, {"SHARED", "UNCACHED"})
    BY <1>7, <2>2 DEF Held
  <2>4. DRight(D2, b, G2)
    <3>1. /\ Mail(P.inbox, b, b \in G2, Allowed(P.dir[b], P.inbox[Home], b, dram[b])) /\ dram[b] # "old"
      BY <1>6 DEF DRight, Right
    <3>2. Mail(P.inbox, b, b \in G2, Allowed(D2.dir[b], P.inbox[Home], b, dram[b]))
      BY <1>6, <3>1, MailMore
    <3> QED
      BY <1>6, <1>7, <3>1, <3>2 DEF DRight, Right
  <2> QED
    BY <1>6a, <1>9, <2>3, <2>4 DEF DTurn, TurnSane, DRight
<1> QED
  BY <1>2, <1>4, <1>8, <1>9, <1>10, EndsSane DEF G2

\* DRAM_READ_REP.
LEMMA DramReplySane ==
  ASSUME CacheT, NEW D, Between(D), NEW P, NEW m, NEW b, NEW n, Message1(D, P, m, b, n, "DRAM_READ_REP"),
         NEW v, VictimOK(D, b, v), NEW data \in Data, data = m.data, NEW G, AllSane(D, G),
         NEW D3, D3 = processDRAMReply(P, b, v, data)
  PROVE  AllSane(D3, G)
<1>1. PICK D2 : DramAnswers(P, D2, D3, b, v, data)
  BY DramReplyEnds
<1> DEFINE q == P.reqs[b]
           reply == IF Head(q).type = "SH_REQ" /\ P.dir[b].state = "SHARED" THEN "SH_REP" ELSE "EX_REP"
<1>2. /\ QueueInv(q) /\ q # <<>> /\ Head(q).node \in Node
      /\ D2 = processNextReq(sendTo(P, {Head(q).node}, reply, b, data), b)
      /\ Handled(P, D2, b) /\ Running(D2, b, v) /\ D3 = RunQueue(D2, b, v)
  BY <1>1 DEF DramAnswers
<1>3. reply \in Replies /\ reply # "UPGRADE_REP"
  BY DEF Replies, Grants
<1> HIDE DEF reply
<1>4. b \in Block /\ P \in DirT
  BY DEF Message1, Takes1
<1>5. OthersSane(P, b, G) /\ DSane(P, b, G) /\ Good(data, b \in G)
  BY TakenSane DEF Bearers, Dirty
<1>6. /\ DRight(P, b, G)
      /\ \/ b \in G \/ Saved(P.inbox[Home], b, dram[b])
         \/ Unsaved(P.dir[b], P.reqs[b], P.inbox, b, Caches(b).ln)
  BY <1>5 DEF DSane, Sane, Safe, DRight
<1>7. SpreadBut(P, D2, b, G) /\ DSane(D2, b, G)
  BY <1>2, <1>3, <1>4, <1>5, <1>6, ReplySane
<1>8. \A x \in Block : x # b => D2.dir[x] = P.dir[x] /\ D2.reqs[x] = P.reqs[x]
  BY <1>2 DEF Handled, OnlyBlock
<1>9. OthersSane(D2, b, G)
  BY <1>5, <1>7, <1>8, OthersStaySane
<1>10. AllSane(D2, G)
  BY <1>7, <1>9 DEF OthersSane, AllSane
<1> QED
  BY <1>2, <1>4, <1>10, QueueSane

\* A cache has sent its data: who else has the block, and what is on its way.
LEMMA FlushFacts ==
  ASSUME NEW A, Stable(A), NEW n \in Node, "FLUSH_REP" \in A.f[n]
  PROVE  /\ n \in A.e.sharers /\ ~A.rd
         /\ A.e.state = "SHARED" => A.r.type = "UPGRADE_REQ"
         /\ A.e.state # "SHARED" => A.e.sharers = {n} /\ \A k \in Node : k # n => "FLUSH_REP" \notin A.f[k]
         /\ A.e.state # "SHARED" => \A k \in Node : ~Granted(A, k)
<1>1. EntryInv(A) /\ HeadInv(A) /\ A \in AbsT /\ \A k \in Node : CoreN(A, k)
  BY DEF Stable, CoreInv
<1>2. n \in A.e.sharers /\ ~Pending(A, n) /\ (A.e.state = "SHARED" => A.r.type = "UPGRADE_REQ" /\ ~A.r.wait)
  BY <1>1 DEF CoreN, Present, Known, Dropped
<1>3. A.e.state # "SHARED" => A.e.sharers = {n}
  BY <1>1, <1>2 DEF EntryInv, AbsT, EntryT, Owned
<1>4. ASSUME A.e.state # "SHARED", NEW k \in Node, "FLUSH_REP" \in A.f[k] PROVE k = n
  <2>1. k \in A.e.sharers
    BY <1>1, <1>4 DEF CoreN, Present, Dropped
  <2> QED
    BY <1>3, <1>4, <2>1
<1>5. ASSUME A.rd PROVE FALSE
  <2>1. ~Idles(A) /\ A.r.wait
    BY <1>5 DEF Stable, Quiet, Waiting, AwaitInv
  <2>2. A.r.type \in Requests /\ A.r.node \in Node
    BY <1>1, <2>1 DEF HeadInv
  <2>3. Pending(A, A.r.node)
    BY <2>1, <2>2 DEF Pending
  <2>4. A.r.node \in A.e.sharers
    BY <1>1, <2>2, <2>3 DEF CoreN, Present
  <2> QED
    BY <1>2, <1>3, <2>1, <2>3, <2>4
<1>6. ASSUME A.e.state # "SHARED", NEW k \in Node, Granted(A, k) PROVE FALSE
  <2>1. k \in A.e.sharers /\ ~Dropped(A, k)
    BY <1>1, <1>6 DEF CoreN, Present, Reachable
  <2>2. k = n
    BY <1>3, <1>6, <2>1
  <2> QED
    BY <2>1, <2>2 DEF Dropped
<1> QED
  BY <1>2, <1>3, <1>4, <1>5, <1>6

\* No data is on its way to a cache.
LEMMA NoGrants ==
  ASSUME NEW D \in DirT, NEW b \in Block, NEW A, A = DirView(D, b), \A k \in Node : ~Granted(A, k)
  PROVE  \A k \in Node : ~In(D.inbox[k], Kind(b, Grants))
<1> SUFFICES ASSUME NEW k \in Node, NEW i \in At(D.inbox[k], Kind(b, Grants)) PROVE FALSE
  BY DEF In
<1>1. A.s[k] = RepliesIn(D.inbox[k], b)
  BY DEF DirView, View
<1>2. PICK q : q = D.inbox[k]
  OBVIOUS
<1>3. i \in 1..Len(q) /\ q[i] \in Kind(b, Grants)
  BY <1>2 DEF At
<1>4. q[i] \in Message /\ q[i].block = b /\ q[i].type \in Grants
  BY <1>3 DEF Kind
<1>5. q[i] \in Kind(b, {q[i].type})
  BY <1>4 DEF Kind
<1>6. q[i].type \in RepliesIn(q, b)
  BY <1>3, <1>4, <1>5 DEF RepliesIn, In, At, Replies
<1> QED
  BY <1>1, <1>2, <1>4, <1>6 DEF Granted, Grants

\* Then it does not matter whether such data may be junk.
LEMMA MailLess ==
  ASSUME NEW box, NEW b, NEW F, NEW T, NEW T2, Mail(box, b, F, T), T \subseteq T2 \cup Grants,
         \A k \in Node : ~In(box[k], Kind(b, Grants))
  PROVE  Mail(box, b, F, T2)
<1>1. Tainted(b, F, T2) \subseteq Tainted(b, F, T) \cup Kind(b, Grants)
  BY DEF Tainted, Kind
<1>2. \A n \in Node : In(box[n], Tainted(b, F, T2)) => In(box[n], Tainted(b, F, T)) \/ In(box[n], Kind(b, Grants))
  BY <1>1 DEF In, At
<1> QED
  BY <1>2 DEF Mail, Pure

\* Nothing that must stay behind the writes is on its way.
LEMMA NoFollowers ==
  ASSUME NEW D \in DirT, NEW b \in Block, NEW A, A = DirView(D, b), ~A.rd,
         \A k \in Node : "FLUSH_REP" \notin A.f[k]
  PROVE  ~In(D.inbox[Home], Followers(b))
<1> DEFINE q == D.inbox[Home]
<1>1. q \in Seq(Message)
  BY BoxesOf, BoxesHold
<1>2. ~In(q, Kind(b, Reads)) /\ \A k \in Node : "FLUSH_REP" \notin ReturnsIn(q, k, b)
  BY DEF DirView, View, ReadIn
<1> HIDE DEF q
<1>3. \A k \in Node : ~In(q, KindOf(k, b, {"FLUSH_REP"}))
  BY <1>2 DEF ReturnsIn, Returns, Drops
<1>4. SUFFICES ASSUME NEW i \in At(q, Followers(b)) PROVE FALSE
  BY DEF In, q
<1>5. i \in 1..Len(q) /\ q[i] \in Followers(b)
  BY DEF At
<1>6. q[i] \in Message /\ q[i].block = b /\ q[i].type \in Reads \cup {"FLUSH_REP"} /\ q[i].from \in Node
  BY <1>5 DEF Followers, Kind, Message
<1>7. CASE q[i].type \in Reads
  <2>1. q[i] \in Kind(b, Reads)
    BY <1>6, <1>7 DEF Kind
  <2> QED
    BY <1>2, <1>5, <2>1 DEF In, At
<1>8. CASE q[i].type = "FLUSH_REP"
  <2>1. q[i] \in KindOf(q[i].from, b, {"FLUSH_REP"})
    BY <1>6, <1>8 DEF KindOf
  <2>2. In(q, KindOf(q[i].from, b, {"FLUSH_REP"}))
    BY <1>5, <2>1 DEF In, At
  <2> QED
    BY <1>3, <1>6, <2>2
<1> QED
  BY <1>6, <1>7, <1>8

\* Good data is sent to the DRAM, and nothing is behind which it must not be.
LEMMA WriteMailed ==
  ASSUME NEW box \in Boxes, NEW b \in Block, NEW F, NEW T, Mail(box, b, F, T), ~In(box[Home], Followers(b)),
         ~In(box[Home], Writes(b)), NEW data \in Data, Good(data, F),
         NEW box2, box2 = Post(box, {Home}, ShmemMsg("DRAM_WRITE_REQ", b, Home, data))
  PROVE  Mail(box2, b, F, T) /\ \A d : F \/ Saved(box2[Home], b, d)
<1> DEFINE m == ShmemMsg("DRAM_WRITE_REQ", b, Home, data)
<1>1. Home \in Node /\ \A n \in Node : box[n] \in Seq(Message)
  BY BoxesHold
<1>2. "DRAM_WRITE_REQ" \in MessageTypes
  BY DEF MessageTypes
<1>3. m \in Message /\ m.type = "DRAM_WRITE_REQ" /\ m.block = b /\ m.data = data
  BY <1>1, <1>2, MessageType
<1> HIDE DEF m
<1>4. \A n \in Node : box2[n] = IF n = Home THEN Append(box[n], m) ELSE box[n]
  BY DEF Post, m
<1>5. /\ m \in Writes(b) /\ m \notin Followers(b) /\ m \notin Tainted(b, F, T)
      /\ data = "new" => m \notin Stale(b)
  BY <1>3 DEF Writes, Followers, Kind, Tainted, Stale, Reads, Bearers, Good
<1>a. ASSUME NEW C PROVE In(box2[Home], C) <=> In(box[Home], C) \/ m \in C
  <2> DEFINE p == box[Home]
  <2>1. box2[Home] = Append(p, m)
    BY <1>1, <1>4
  <2>2. p \in Seq(Message) /\ m \in Message
    BY <1>1, <1>3
  <2> HIDE DEF p
  <2>3. In(Append(p, m), C) <=> In(p, C) \/ m \in C
    BY ONLY <2>2, PushIn
  <2> QED
    BY <2>1, <2>3 DEF p
<1>6. \A n \in Node : ~In(box2[n], Tainted(b, F, T))
  <2>1. \A n \in Node : ~In(box[n], Tainted(b, F, T))
    BY DEF Mail, Pure
  <2>2. ASSUME NEW n \in Node, n = Home PROVE ~In(box2[n], Tainted(b, F, T))
    BY <1>1, <1>5, <1>a, <2>1, <2>2
  <2>3. ASSUME NEW n \in Node, n # Home PROVE ~In(box2[n], Tainted(b, F, T))
    BY <1>4, <2>1, <2>3
  <2> QED
    BY <2>2, <2>3
<1>7. box2[Home] = Append(box[Home], m) /\ box[Home] \in Seq(Message)
  BY <1>1, <1>4
<1>8. WriteOrder(box2[Home], b)
  <2>1. One(box[Home], Writes(b)) /\ Before(box[Home], Writes(b), Followers(b))
    BY DEF Mail, WriteOrder
  <2>2. One(box2[Home], Writes(b))
    BY <1>3, <1>7, <2>1, PushOne
  <2>3. Before(box2[Home], Writes(b), Followers(b))
    BY <1>3, <1>5, <1>7, <2>1, PushBefore
  <2> QED
    BY <2>2, <2>3 DEF WriteOrder
<1>9. In(box2[Home], Writes(b))
  BY <1>5, <1>a
<1>10. F \/ ~In(box2[Home], Stale(b))
  <2>1. ~In(box[Home], Stale(b))
    BY DEF In, At, Stale
  <2>2. F \/ m \notin Stale(b)
    BY <1>5 DEF Good
  <2> QED
    BY <1>a, <2>1, <2>2
<1> QED
  BY <1>6, <1>8, <1>9, <1>10 DEF Mail, Pure, Saved

\* The flushed data goes to the DRAM: the messages of all blocks stay right.
LEMMA FlushWritten ==
  ASSUME NEW D \in DirT, NEW b \in Block, NEW G, NEW T, Mail(D.inbox, b, b \in G, T), OthersSane(D, b, G),
         ~In(D.inbox[Home], Followers(b)), ~In(D.inbox[Home], Writes(b)), NEW data \in Data, Good(data, b \in G),
         NEW D2, D2 = sendTo(D, {Home}, "DRAM_WRITE_REQ", b, data)
  PROVE  /\ D2.dir = D.dir /\ D2.reqs = D.reqs /\ OthersSane(D2, b, G) /\ Mail(D2.inbox, b, b \in G, T)
         /\ b \in G \/ Saved(D2.inbox[Home], b, dram[b])
<1> DEFINE m == ShmemMsg("DRAM_WRITE_REQ", b, Home, data)
<1>1. D2.inbox = Post(D.inbox, {Home}, m) /\ D2.dir = D.dir /\ D2.reqs = D.reqs /\ D.inbox \in Boxes
  BY SendParts, BoxesOf
<1>2. "DRAM_WRITE_REQ" \in MessageTypes /\ Home \in Node
  BY DirectoryAssumption DEF MessageTypes
<1>3. m \in Message /\ m.block = b
  BY <1>2, MessageType
<1>4. Mail(D2.inbox, b, b \in G, T) /\ (b \in G \/ Saved(D2.inbox[Home], b, dram[b]))
  <2> DEFINE box == D.inbox
             box2 == D2.inbox
             F == (b \in G)
  <2>1. /\ box \in Boxes /\ Mail(box, b, F, T) /\ ~In(box[Home], Followers(b)) /\ ~In(box[Home], Writes(b))
        /\ Good(data, F) /\ box2 = Post(box, {Home}, ShmemMsg("DRAM_WRITE_REQ", b, Home, data))
    BY <1>1
  <2> HIDE DEF box, box2, F
  <2>2. Mail(box2, b, F, T) /\ \A x : F \/ Saved(box2[Home], b, x)
    BY <2>1, WriteMailed
  <2> QED
    BY <2>2 DEF box2, F
<1> HIDE DEF m
<1>5. ASSUME NEW x \in Block, x # b PROVE DSane(D2, x, G)
  <2>1. m \notin Tainted(x, x \in G, {}) /\ m \notin Writes(x)
    BY <1>3, <1>5 DEF Tainted, Writes, Kind
  <2>2. Mailed(D.inbox, D2.inbox, x, x \in G)
    BY <1>1, <1>3, <2>1, PostMailed
  <2>3. DSane(D, x, G)
    BY <1>5 DEF OthersSane
  <2> QED
    BY <1>1, <2>2, <2>3, SaneStays
<1> QED
  BY <1>1, <1>4, <1>5 DEF OthersSane

\* FLUSH_REP, whatever is kept with an upgrade.
LEMMA FlushRepSane ==
  ASSUME CacheT, NEW D, Between(D), NEW P, NEW m, NEW b, NEW n, Message1(D, P, m, b, n, "FLUSH_REP"),
         NEW v, VictimOK(D, b, v), NEW data \in Data, data = m.data, NEW G, AllSane(D, G),
         NEW stored \in {data, "junk"}, NEW D3, D3 = processFlushRep(P, b, n, v, data, stored)
  PROVE  AllSane(D3, G)
<1>1. PICK D1, D2 : /\ EntrySet(P, D1, b, WithoutData(P.dir[b], n)) /\ Flushed(D1, D2, b, data)
                    /\ FlushEnds(P, D2, D3, b, n, v, data, stored)
  <2>1. stored \in Data \cup {"none"}
    BY DEF Data
  <2> QED
    BY <2>1, FlushRepEnds
<1> DEFINE e == P.dir[b]
           e1 == WithoutData(e, n)
           q == P.reqs[b]
           A == DirView(D, b)
           F == (b \in G)
           ln == Caches(b).ln
           d == dram[b]
           J == JunkLine(b)
           T1 == Allowed(e1, P.inbox[Home], b, d)
<1>2. b \in Block /\ n \in Node /\ P \in DirT /\ e \in EntryT /\ D \in DirT
  BY BoxesOf DEF Message1, Takes1, Between
<1>3. /\ OthersSane(P, b, G) /\ P.dir = D.dir /\ P.reqs = D.reqs /\ P.inbox = Pop(D.inbox, Home)
      /\ DRight(P, b, G) /\ (Saved(D.inbox[Home], b, d) => Saved(P.inbox[Home], b, d)) /\ Good(data, F)
  BY TakenSane DEF Bearers
<1>4. Came(D, P, A, DirView(P, b), b, n, "FLUSH_REP")
  BY <1>2, MessageCame DEF Returns, Drops
<1>5. Stable(A) /\ "FLUSH_REP" \in A.f[n] /\ A.e = e /\ A.r = HeadOf(q) /\ QueueInv(q)
  BY <1>3, <1>4 DEF Came, Arrived
<1>6. /\ n \in e.sharers /\ ~A.rd
      /\ e.state = "SHARED" => A.r.type = "UPGRADE_REQ"
      /\ e.state # "SHARED" => e.sharers = {n} /\ \A k \in Node : k # n => "FLUSH_REP" \notin A.f[k]
      /\ e.state # "SHARED" => \A k \in Node : ~Granted(A, k)
  BY <1>2, <1>5, FlushFacts
<1>7. e.state = "SHARED" => q # <<>> /\ Head(q).type = "UPGRADE_REQ"
  BY <1>5, <1>6, HeadFacts DEF HeadOf, NoReq
<1>8. /\ e1 \in EntryT /\ e1.state = IF e.sharers \ {n} = {} THEN "UNCACHED" ELSE e.state
  BY <1>2 DEF WithoutData, EntryT
<1>9. /\ D1 \in DirT /\ D1.inbox = P.inbox /\ D1.reqs = P.reqs /\ D1.dir[b] = e1
      /\ \A x \in Block : x # b => D1.dir[x] = P.dir[x]
  <2> HIDE DEF e1
  <2> QED
    BY <1>1, <1>2, <1>8, EntryEffect DEF e1
<1> HIDE DEF e1
<1>9a. Mail(P.inbox, b, F, T1)
  <2>1. Mail(P.inbox, b, F, Allowed(e, P.inbox[Home], b, d))
    BY <1>3 DEF DRight, Right
  <2>2. CASE e.state = "SHARED"
    <3>1. Allowed(e, P.inbox[Home], b, d) \subseteq T1
      BY <2>2 DEF Allowed
    <3> QED
      BY <2>1, <3>1, MailMore
  <2>3. CASE e.state # "SHARED"
    <3> DEFINE A1 == DirView(P, b)
    <3>1. A1.s = A.s
      BY <1>4 DEF Came, Arrived
    <3>2. \A k \in Node : ~Granted(A1, k)
      BY <1>6, <2>3, <3>1 DEF Granted
    <3> HIDE DEF A1
    <3>3. \A k \in Node : ~In(P.inbox[k], Kind(b, Grants))
      BY <1>2, <3>2, NoGrants DEF A1
    <3>4. Allowed(e, P.inbox[Home], b, d) \subseteq T1 \cup Grants
      BY DEF Allowed, Grants
    <3> HIDE DEF T1
    <3> QED
      BY <2>1, <3>3, <3>4, MailLess
  <2> QED
    BY <2>2, <2>3
<1>9b. (J => F \/ Saved(P.inbox[Home], b, d)) /\ d # "old"
  BY <1>3 DEF DRight, Right
<1>9c. ASSUME NEW box2, Mail(box2, b, F, T1), F \/ Saved(box2[Home], b, d) \/ box2 = P.inbox
       PROVE  Right(e1, box2, b, d, F, J)
  <2>1. F \/ T1 \subseteq Allowed(e1, box2[Home], b, d)
    BY <1>9c DEF Allowed
  <2> HIDE DEF T1
  <2>2. Mail(box2, b, F, Allowed(e1, box2[Home], b, d))
    BY <1>9c, <2>1, MailMore
  <2> QED
    BY <1>9b, <1>9c, <2>2 DEF Right
<1> HIDE DEF T1
<1>10. OthersSane(D1, b, G)
  BY <1>3, <1>9, SpreadSame, SpreadButOf, OthersStaySane
<1>11. Sane(e, q, D.inbox, b, ln, d, F, J)
  BY <1>2, <1>3 DEF AllSane, DSane
<1>12. Held(e, q, F, {"SHARED"})
  BY <1>11 DEF Sane
<1>13. e.state = "SHARED" => F \/ Saved(P.inbox[Home], b, d)
  BY <1>3, <1>11 DEF Sane, Safe, Unsaved
<1>14. ~In(P.inbox[Home], Writes(b))
  <2>1. D.inbox[Home] \in Seq(Message) /\ D.inbox[Home] # <<>> /\ m = Head(D.inbox[Home]) /\ m \in Followers(b)
    <3>1. D.inbox[Home] \in Seq(Message)
      BY <1>2, BoxesOf, BoxesHold
    <3>2. D.inbox[Home] # <<>> /\ m = Head(D.inbox[Home]) /\ m.block = b /\ m.type = "FLUSH_REP"
      BY DEF Message1
    <3> QED
      BY <3>1, <3>2 DEF Followers, Kind
  <2>2. Before(D.inbox[Home], Writes(b), Followers(b))
    BY <1>11 DEF Sane, Right, Mail, WriteOrder
  <2>3. ~In(D.inbox[Home], Writes(b))
    BY <2>1, <2>2, PopBefore
  <2>4. P.inbox[Home] = Tail(D.inbox[Home])
    BY <1>2, <1>3, BoxesOf, BoxesHold DEF Pop
  <2> QED
    BY <2>1, <2>3, <2>4, PopIn
<1>15. ASSUME WritesFlush(q)
       PROVE  /\ D2.dir = D1.dir /\ D2.reqs = D1.reqs /\ OthersSane(D2, b, G) /\ Mail(D2.inbox, b, F, T1)
              /\ F \/ Saved(D2.inbox[Home], b, d)
  <2>1. e.state # "SHARED"
    BY <1>7, <1>15 DEF WritesFlush
  <2>2. ~In(P.inbox[Home], Followers(b))
    <3> DEFINE A1 == DirView(P, b)
    <3>1. ~A1.rd /\ \A k \in Node : A1.f[k] = IF k = n THEN A.f[n] \ {"FLUSH_REP"} ELSE A.f[k]
      BY <1>4, <1>6 DEF Came, Arrived
    <3>2. \A k \in Node : "FLUSH_REP" \notin A1.f[k]
      BY <1>6, <2>1, <3>1
    <3> QED
      BY <1>2, <3>1, <3>2, NoFollowers
  <2>3. D2 = sendTo(D1, {Home}, "DRAM_WRITE_REQ", b, data)
    BY <1>1, <1>9, <1>15 DEF Flushed
  <2>4. /\ Mail(D1.inbox, b, b \in G, T1) /\ ~In(D1.inbox[Home], Followers(b)) /\ ~In(D1.inbox[Home], Writes(b))
        /\ Good(data, b \in G)
    BY <1>3, <1>9, <1>9a, <1>14, <2>2
  <2>5. D1 \in DirT /\ b \in Block /\ OthersSane(D1, b, G)
    BY <1>2, <1>9, <1>10
  <2>6. /\ D2.dir = D1.dir /\ D2.reqs = D1.reqs /\ OthersSane(D2, b, G) /\ Mail(D2.inbox, b, b \in G, T1)
        /\ b \in G \/ Saved(D2.inbox[Home], b, dram[b])
    BY ONLY <2>3, <2>4, <2>5, data \in Data, FlushWritten
  <2> QED
    BY <2>6
<1>16. ~WritesFlush(q) => D2 = D1
  BY <1>1, <1>9 DEF Flushed
<1>17. /\ D2.dir[b] = e1 /\ D2.reqs[b] = q /\ OthersSane(D2, b, G) /\ Right(e1, D2.inbox, b, d, F, J)
       /\ WritesFlush(q) \/ e.state = "SHARED" => F \/ Saved(D2.inbox[Home], b, d)
  <2>1. CASE WritesFlush(q)
    BY <1>3, <1>9, <1>9c, <1>15, <2>1
  <2>2. CASE ~WritesFlush(q)
    BY <1>3, <1>9, <1>9a, <1>9c, <1>10, <1>13, <1>16, <2>2
  <2> QED
    BY <2>1, <2>2
<1>18. CASE UpgradeWaits(P, b, n)
  <2>1. D3 = [D2 EXCEPT !.reqs[b][1].data = stored] /\ q # <<>> /\ Head(q).type = "UPGRADE_REQ" /\ e.sharers \ {n} # {}
    BY <1>1, <1>18 DEF FlushEnds, UpgradeWaits
  <2>2. e.state = "SHARED" /\ e1.state = "SHARED"
    BY <1>6, <1>8, <2>1
  <2>3. D2 \in DirT
    BY <1>9, <1>16, <2>1 DEF WritesFlush
  <2> DEFINE r2 == [Head(q) EXCEPT !.data = stored]
  <2>4. Head(q) \in Req /\ Head(q) = q[1]
    BY <1>5, <2>1, HeadFacts
  <2>5. r2 \in Req /\ r2.type = Head(q).type /\ r2.node = Head(q).node /\ r2.data = stored
    BY <2>4 DEF Req, Data
  <2>6. HeadSet(D2, D3, b, r2)
    BY <1>17, <2>1, <2>4 DEF HeadSet
  <2> HIDE DEF r2
  <2>7. HeadChanged(D2, D3, b, r2.wait, r2.forwardingFrom, r2.data)
    BY <1>2, <1>17, <2>1, <2>3, <2>5, <2>6, HeadEffect
  <2>8. /\ D3.inbox = D2.inbox /\ D3.dir = D2.dir /\ \A x \in Block : x # b => D3.reqs[x] = D2.reqs[x]
        /\ D3.reqs[b] # <<>> /\ Head(D3.reqs[b]).data = stored /\ Head(D3.reqs[b]).type = "UPGRADE_REQ"
    <3>1. HeadOf(D3.reqs[b]).type = Head(q).type /\ D3.reqs[b] # <<>>
      BY <1>17, <2>7 DEF HeadChanged
    <3>2. HeadOf(D3.reqs[b]).type = Head(D3.reqs[b]).type
      BY <3>1 DEF HeadOf
    <3> QED
      BY <2>1, <2>5, <2>7, <3>1, <3>2 DEF HeadChanged
  <2>9. OthersSane(D3, b, G)
    BY <1>17, <2>8, SpreadSame, SpreadButOf, OthersStaySane
  <2>10. Held(D3.dir[b], D3.reqs[b], F, {"SHARED"})
    BY <1>3, <1>17, <2>2, <2>8 DEF Held
  <2>11. Safe(D3.dir[b], D3.reqs[b], D3.inbox, b, ln, d, F)
    BY <1>17, <2>2, <2>8 DEF Safe
  <2>12. DSane(D3, b, G)
    BY <1>17, <2>8, <2>10, <2>11 DEF DSane, Sane
  <2> QED
    BY <2>9, <2>12 DEF OthersSane, AllSane
<1>19. CASE ~UpgradeWaits(P, b, n)
  <2>1. Ends(D2, D3, b, v, data)
    BY <1>1, <1>19 DEF FlushEnds
  <2>2. e.sharers \ {n} = {}
    BY <1>6, <1>7, <1>19 DEF UpgradeWaits
  <2>3. e1.state = "UNCACHED"
    BY <1>8, <2>2
  <2>4. Held(e1, q, F, {"SHARED", "UNCACHED"})
    BY <1>12, <2>3 DEF Held
  <2>5. WritesFlush(q) => Safe(e1, q, D2.inbox, b, ln, d, F)
    BY <1>17 DEF Safe
  <2>6. ~WritesFlush(q) => q # <<>> /\ InHand(e1, q, data)
    <3>1. ~WritesFlush(q) => q # <<>> /\ Head(q).type \in {"EX_REQ", "UPGRADE_REQ"}
      BY <1>5, HeadFacts DEF WritesFlush, Requests
    <3> QED
      BY <2>3, <3>1 DEF InHand, Data
  <2>7. DTurn(D2, b, G, data)
    <3>1. TurnSane(e1, q, D2.inbox, b, ln, d, F, J, data)
      BY <1>3, <1>17, <2>4, <2>5, <2>6 DEF TurnSane
    <3> QED
      BY <1>17, <3>1 DEF DTurn
  <2>8. Done(D2, b, v) => Safe(e1, q, D2.inbox, b, ln, d, F)
    <3>1. SUFFICES ASSUME Done(D2, b, v), ~WritesFlush(q) PROVE FALSE
      BY <2>5
    <3> DEFINE A2 == DirView(D2, b)
    <3>2. Stable(A2) /\ A2.e = e1 /\ A2.r = HeadOf(q) /\ Kept(D2, b)
      BY <1>17, <3>1 DEF Done, Settled, DirView, View
    <3> HIDE DEF A2
    <3>3. A2.r.type \in {"EX_REQ", "UPGRADE_REQ"}
      <4>1. q # <<>> /\ Head(q).type \in {"EX_REQ", "UPGRADE_REQ"}
        BY <2>6, <3>1 DEF InHand
      <4>2. HeadOf(q).type = Head(q).type
        BY <1>5, <4>1, HeadFacts
      <4> QED
        BY <3>2, <4>1, <4>2
    <3>4. EntryInv(A2) /\ AwaitInv(A2)
      BY <3>2, <3>3 DEF Stable, CoreInv, Idles, Waiting
    <3>5. A2.e.sharers = {} /\ A2.e.state = "UNCACHED"
      BY <2>3, <3>2, <3>4 DEF EntryInv
    <3> QED
      BY <3>3, <3>4, <3>5 DEF AwaitInv
  <2> QED
    BY <1>2, <1>17, <2>1, <2>7, <2>8, EndsSane
<1> QED
  BY <1>18, <1>19

-----------------------------------------------------------------------------
(* The invariant for the data, and the actions of the directory            *)

\* Every line that has data has good data, or junk that a woken thread is about to overwrite.
GoodLine(n, x) ==
  \/ line[n][x].data = "none" \/ Good(line[n][x].data, x \in forwarded)
  \/ line[n][x].data = "junk" /\ line[n][x].state = "EXCLUSIVE" /\ WokenWriter(n, x)
LinesGood(x) == \A n \in Node : GoodLine(n, x)

\* What holds of the data of block x.
DataSane(x) == Sane(dir[x], reqs[x], inbox, x, Caches(x).ln, dram[x], x \in forwarded, JunkLine(x))

\* THE INDUCTIVE INVARIANT FOR THE DATA.
DataInv == \A x \in Block : DataSane(x) /\ LinesGood(x)

\* The part about the directory.
LEMMA DataInDirectory ==
  ASSUME DataInv
  PROVE  AllSane(DirectoryState(inbox), forwarded)
<1>1. ASSUME NEW x \in Block PROVE DSane(DirectoryState(inbox), x, forwarded)
  <2>1. DataSane(x)
    BY DEF DataInv
  <2> QED
    BY <2>1, StateFields DEF DataSane, DSane
<1> QED
  BY <1>1 DEF AllSane

\* A handler of the directory.
LEMMA HandlerData ==
  ASSUME DataInv, NEW D, Becomes(D), UNCHANGED CacheVars, dram' = dram, NEW G, forwarded' = G,
         forwarded \subseteq G, AllSane(D, G)
  PROVE  DataInv'
<1>1. line' = line /\ UNCHANGED protocol /\ dir' = D.dir /\ reqs' = D.reqs /\ inbox' = D.inbox
  BY DEF Becomes, CacheVars
<1>2. \A x : (Caches(x))' = Caches(x) /\ (JunkLine(x))' = JunkLine(x)
  BY <1>1, SameCaches DEF JunkLine
<1>3. \A n, x : (WokenWriter(n, x))' = WokenWriter(n, x)
  BY DEF CacheVars, WokenWriter
<1>4. ASSUME NEW x \in Block PROVE (DataSane(x))'
  <2>1. DSane(D, x, G)
    BY DEF AllSane
  <2>2. Sane(D.dir[x], D.reqs[x], D.inbox, x, Caches(x).ln, dram[x], x \in G, JunkLine(x))
    BY <2>1 DEF DSane
  <2>3. Sane(dir'[x], reqs'[x], inbox', x, (Caches(x))'.ln, dram'[x], x \in forwarded', (JunkLine(x))')
    BY <1>1, <1>2, <2>2
  <2> QED
    BY <2>3 DEF DataSane
<1>5. ASSUME NEW x \in Block PROVE (LinesGood(x))'
  <2>1. LinesGood(x)
    BY DEF DataInv
  <2>2. x \in forwarded => x \in forwarded'
    OBVIOUS
  <2>3. ASSUME NEW n \in Node PROVE (GoodLine(n, x))'
    <3>1. GoodLine(n, x)
      BY <2>1 DEF LinesGood
    <3>2. \/ line[n][x].data = "none" \/ Good(line[n][x].data, x \in forwarded')
          \/ line[n][x].data = "junk" /\ line[n][x].state = "EXCLUSIVE" /\ WokenWriter(n, x)
      BY <2>2, <3>1 DEF GoodLine, Good
    <3> QED
      BY <1>1, <1>3, <3>2 DEF GoodLine
  <2> QED
    BY <2>3 DEF LinesGood
<1> QED
  BY <1>4, <1>5 DEF DataInv

\* The directory handles a request.
LEMMA DirectoryReqData ==
  ASSUME IInv, DataInv, NEW n \in Node, DirectoryReq(n)
  PROVE  DataInv'
<1> DEFINE m == Head(inbox[n])
           D == DirectoryState(inbox)
           P == DirectoryState(Popped(n))
<1>1. Next_(n, Requests) /\ UNCHANGED CacheVars /\ dram' = dram /\ forwarded' = forwarded
  BY DEF DirectoryReq, CacheVars
<1>2. PICK v \in Victims(m.block) : Becomes(handleReq(P, m.block, m.from, m.type, v))
  BY DEF DirectoryReq
<1>3. Requests \cap (Replies \cup Snoops) = {}
  BY DEF Requests, Replies, Snoops, Grants
<1>4. AllSane(D, forwarded)
  BY DataInDirectory
<1> HIDE DEF m, D, P
<1>5. Incoming(n, m, m.type, m.block, m.from) /\ m.type \in Requests
  BY <1>1, <1>3, Comes DEF m
<1>6. Message1(D, P, m, m.block, m.from, m.type) /\ m.block \in Block /\ VictimOK(D, m.block, v)
  BY <1>5 DEF Incoming, D, P
<1>7. CacheT /\ Between(D)
  BY DEF IInv, D
<1>8. AllSane(handleReq(P, m.block, m.from, m.type, v), forwarded)
  BY <1>4, <1>5, <1>6, <1>7, RequestSane
<1> QED
  BY <1>1, <1>2, <1>8, HandlerData

\* The directory handles INV_REP.
LEMMA InvRepData ==
  ASSUME IInv, DataInv, NEW n \in Node, InvRep(n)
  PROVE  DataInv'
<1> DEFINE m == Head(inbox[n])
           D == DirectoryState(inbox)
           P == DirectoryState(Popped(n))
<1>1. Next_(n, {"INV_REP"}) /\ UNCHANGED CacheVars /\ dram' = dram /\ forwarded' = forwarded
  BY DEF InvRep, CacheVars
<1>2. PICK v \in Victims(m.block) : Becomes(processInvRep(P, m.block, m.from, v))
  BY DEF InvRep
<1>3. {"INV_REP"} \cap (Replies \cup Snoops) = {}
  BY DEF Replies, Snoops, Grants
<1>4. AllSane(D, forwarded)
  BY DataInDirectory
<1> HIDE DEF m, D, P
<1>5. Incoming(n, m, m.type, m.block, m.from) /\ m.type = "INV_REP"
  BY <1>1, <1>3, Comes DEF m
<1>6. Message1(D, P, m, m.block, m.from, "INV_REP") /\ m.block \in Block /\ VictimOK(D, m.block, v)
  BY <1>5 DEF Incoming, D, P
<1>7. CacheT /\ Between(D)
  BY DEF IInv, D
<1>8. AllSane(processInvRep(P, m.block, m.from, v), forwarded)
  BY <1>4, <1>6, <1>7, InvRepSane
<1> QED
  BY <1>1, <1>2, <1>8, HandlerData

\* The directory handles FLUSH_REP, whose data may be dead by the time it is kept.
LEMMA FlushRepData ==
  ASSUME IInv, DataInv, NEW n \in Node, FlushRep(n)
  PROVE  DataInv'
<1> DEFINE m == Head(inbox[n])
           D == DirectoryState(inbox)
           P == DirectoryState(Popped(n))
<1>1. Next_(n, {"FLUSH_REP"}) /\ UNCHANGED CacheVars /\ dram' = dram /\ forwarded' = forwarded
  BY DEF FlushRep, CacheVars
<1>2. PICK v \in Victims(m.block), stored \in {m.data, "junk"} :
        Becomes(processFlushRep(P, m.block, m.from, v, m.data, stored))
  BY DEF FlushRep
<1>3. {"FLUSH_REP"} \cap (Replies \cup Snoops) = {}
  BY DEF Replies, Snoops, Grants
<1>4. AllSane(D, forwarded)
  BY DataInDirectory
<1> HIDE DEF m, D, P
<1>5. Incoming(n, m, m.type, m.block, m.from) /\ m.type = "FLUSH_REP"
  BY <1>1, <1>3, Comes DEF m
<1>6. Message1(D, P, m, m.block, m.from, "FLUSH_REP") /\ m.block \in Block /\ VictimOK(D, m.block, v)
  BY <1>5 DEF Incoming, D, P
<1>7. CacheT /\ Between(D) /\ m.data \in Data
  BY <1>5 DEF IInv, D, Incoming, Carriers
<1>8. AllSane(processFlushRep(P, m.block, m.from, v, m.data, stored), forwarded)
  BY <1>4, <1>6, <1>7, FlushRepSane
<1> QED
  BY <1>1, <1>2, <1>8, HandlerData

\* The directory handles WB_REP.
LEMMA WbRepData ==
  ASSUME IInv, DataInv, NEW n \in Node, WbRep(n)
  PROVE  DataInv'
<1> DEFINE m == Head(inbox[n])
           D == DirectoryState(inbox)
           P == DirectoryState(Popped(n))
<1>1. Next_(n, {"WB_REP"}) /\ UNCHANGED CacheVars /\ dram' = dram /\ forwarded' = forwarded \cup {m.block}
  BY DEF WbRep, CacheVars
<1>2. PICK v \in Victims(m.block) : Becomes(processWbRep(P, m.block, v, m.data))
  BY DEF WbRep
<1>3. {"WB_REP"} \cap (Replies \cup Snoops) = {}
  BY DEF Replies, Snoops, Grants
<1>4. AllSane(D, forwarded)
  BY DataInDirectory
<1> HIDE DEF m, D, P
<1>5. Incoming(n, m, m.type, m.block, m.from) /\ m.type = "WB_REP"
  BY <1>1, <1>3, Comes DEF m
<1>6. Message1(D, P, m, m.block, m.from, "WB_REP") /\ m.block \in Block /\ VictimOK(D, m.block, v)
  BY <1>5 DEF Incoming, D, P
<1>7. CacheT /\ Between(D) /\ m.data \in Data
  BY <1>5 DEF IInv, D, Incoming, Carriers
<1>8. AllSane(processWbRep(P, m.block, v, m.data), forwarded \cup {m.block})
  BY <1>4, <1>6, <1>7, WbRepSane
<1>9. forwarded \subseteq forwarded \cup {m.block}
  OBVIOUS
<1> QED
  BY <1>1, <1>2, <1>8, <1>9, HandlerData

\* The directory handles DRAM_READ_REP.
LEMMA DramReadRepData ==
  ASSUME IInv, DataInv, NEW n \in Node, DramReadRep(n)
  PROVE  DataInv'
<1> DEFINE m == Head(inbox[n])
           D == DirectoryState(inbox)
           P == DirectoryState(Popped(n))
<1>1. Next_(n, {"DRAM_READ_REP"}) /\ UNCHANGED CacheVars /\ dram' = dram /\ forwarded' = forwarded
  BY DEF DramReadRep, CacheVars
<1>2. PICK v \in Victims(m.block) : Becomes(processDRAMReply(P, m.block, v, m.data))
  BY DEF DramReadRep
<1>3. {"DRAM_READ_REP"} \cap (Replies \cup Snoops) = {}
  BY DEF Replies, Snoops, Grants
<1>4. AllSane(D, forwarded)
  BY DataInDirectory
<1> HIDE DEF m, D, P
<1>5. Incoming(n, m, m.type, m.block, m.from) /\ m.type = "DRAM_READ_REP"
  BY <1>1, <1>3, Comes DEF m
<1>6. Message1(D, P, m, m.block, m.from, "DRAM_READ_REP") /\ m.block \in Block /\ VictimOK(D, m.block, v)
  BY <1>5 DEF Incoming, D, P
<1>7. CacheT /\ Between(D) /\ m.data \in Data
  BY <1>5 DEF IInv, D, Incoming, Carriers
<1>8. AllSane(processDRAMReply(P, m.block, v, m.data), forwarded)
  BY <1>4, <1>6, <1>7, DramReplySane
<1> QED
  BY <1>1, <1>2, <1>8, HandlerData

-----------------------------------------------------------------------------
(* Steps of the LLC: data moves between lines and messages.                *)

\* Messages about x that may hold junk before the step.
Junky(x) == Allowed(dir[x], inbox[Home], x, dram[x])

\* Messages have been taken and sent, and nothing has become wrong.
AllMailed(box) == \A x \in Block : Moved(inbox, box, x, x \in forwarded, Junky(x))

\* With the lines ls and the messages box, no good data is lost, and junk is only
\* where a woken thread is about to overwrite it.
CarriedLine(ls, box, k, x) ==
  /\ \/ ls[k][x].data = "none" \/ Good(ls[k][x].data, x \in forwarded)
     \/ ls[k][x].data = "junk" /\ ls[k][x].state = "EXCLUSIVE" /\ (WokenWriter(k, x))'
  /\ ls[k][x].data = "junk" => JunkLine(x) \/ x \in forwarded \/ Saved(inbox[Home], x, dram[x])
  /\ line[k][x].state = "MODIFIED" => ls[k][x].state = "MODIFIED" \/ DirtyIn(box[Home], k, x) # {}
Carried(ls, box) == AllMailed(box) /\ \A k \in Node, x \in Block : CarriedLine(ls, box, k, x)

\* The owner of an owned block is a node.
LEMMA OwnerIsNode ==
  ASSUME IInv, NEW x \in Block, dir[x].state \in Owned
  PROVE  dir[x].owner \in Node /\ dir[x].sharers = {dir[x].owner}
<1>1. PICK A : Stable(A) /\ A \in AbsT /\ A.e = dir[x]
  BY Views
<1>2. EntryInv(A) /\ A.e \in EntryT
  BY <1>1 DEF Stable, CoreInv, AbsT
<1> QED
  BY <1>1, <1>2 DEF EntryInv, EntryT

\* Data has been moved, and the directory and the DRAM are as they were.
LEMMA CarriedData ==
  ASSUME IInv, DataInv, Carried(line', inbox'), dir' = dir, reqs' = reqs, dram' = dram, forwarded' = forwarded
  PROVE  DataInv'
<1>1. ASSUME NEW x \in Block PROVE (DataSane(x))'
  <2>1. Sane(dir[x], reqs[x], inbox, x, Caches(x).ln, dram[x], x \in forwarded, JunkLine(x))
    BY DEF DataInv, DataSane
  <2>2. Moved(inbox, inbox', x, x \in forwarded, Allowed(dir[x], inbox[Home], x, dram[x]))
    BY DEF Carried, AllMailed, Junky
  <2>3. ASSUME dir[x].state = "EXCLUSIVE", Caches(x).ln[dir[x].owner] = "MODIFIED"
        PROVE  (Caches(x))'.ln[dir[x].owner] = "MODIFIED" \/ DirtyIn(inbox'[Home], dir[x].owner, x) # {}
    <3>1. dir[x].owner \in Node
      BY <2>3, OwnerIsNode DEF Owned
    <3>2. CarriedLine(line', inbox', dir[x].owner, x)
      BY <3>1 DEF Carried
    <3>3. Caches(x).ln[dir[x].owner] = line[dir[x].owner][x].state /\ (Caches(x))'.ln[dir[x].owner] = line'[dir[x].owner][x].state
      BY <3>1, CachesNow, CachesThen
    <3> QED
      BY <2>3, <3>2, <3>3 DEF CarriedLine
  <2>4. (JunkLine(x))' => JunkLine(x) \/ x \in forwarded \/ Saved(inbox'[Home], x, dram[x])
    <3>1. ASSUME NEW n \in Node, line'[n][x].data = "junk"
          PROVE  JunkLine(x) \/ x \in forwarded \/ Saved(inbox[Home], x, dram[x])
      BY <3>1 DEF Carried, CarriedLine
    <3> QED
      BY <2>2, <3>1 DEF JunkLine, Moved
  <2>5. Sane(dir[x], reqs[x], inbox', x, (Caches(x))'.ln, dram[x], x \in forwarded, (JunkLine(x))')
    BY <2>1, <2>2, <2>3, <2>4, SaneMoves
  <2> QED
    BY <2>5 DEF DataSane
<1>2. ASSUME NEW x \in Block PROVE (LinesGood(x))'
  <2>1. ASSUME NEW n \in Node PROVE (GoodLine(n, x))'
    <3>1. CarriedLine(line', inbox', n, x)
      BY DEF Carried
    <3> QED
      BY <3>1 DEF CarriedLine, GoodLine
  <2> QED
    BY <2>1 DEF LinesGood
<1> QED
  BY <1>1, <1>2 DEF DataInv

\* Node n sends a message about b to the directory.
LEMMA SendMailed ==
  ASSUME NEW box \in Boxes, AllMailed(box), NEW b \in Block, NEW n \in Node, NEW t \in Returns,
         NEW data \in Data \cup {"none"},
         t \in Dirty => data \in Data /\ (Good(data, b \in forwarded) \/ (data = "junk" /\ t \in Junky(b))),
         NEW m, m = ShmemMsg(t, b, n, data), NEW box2, box2 = Post(box, {Home}, m)
  PROVE  AllMailed(box2) /\ box2 \in Boxes /\ (t \in Dirty => DirtyIn(box2[Home], n, b) # {})
<1>1. t \in MessageTypes /\ (t \in Carriers => t \in Dirty) /\ (t \in Bearers => t \in Dirty) /\ t # "DRAM_WRITE_REQ"
  BY DEF MessageTypes, Carriers, Dirty, Returns, Requests, Drops, Bearers
<1>2. m \in Message /\ m.type = t /\ m.block = b /\ m.from = n /\ m.data = data
  BY <1>1, MessageType
<1>3. ASSUME NEW x \in Block PROVE Moved(inbox, box2, x, x \in forwarded, Junky(x))
  <2>1. m \notin Tainted(x, x \in forwarded, Junky(x))
    BY <1>1, <1>2 DEF Tainted
  <2>2. m \notin Writes(x)
    BY <1>1, <1>2 DEF Writes, Kind
  <2>3. Moved(box, box2, x, x \in forwarded, Junky(x))
    BY <1>2, <2>1, <2>2, PostMoved
  <2>4. Moved(inbox, box, x, x \in forwarded, Junky(x))
    BY DEF AllMailed
  <2> QED
    BY <2>3, <2>4 DEF Moved
<1>4. box2 \in Boxes
  BY <1>2, PostType
<1>5. ASSUME t \in Dirty PROVE DirtyIn(box2[Home], n, b) # {}
  <2> DEFINE p == box[Home]
  <2>1. Home \in Node /\ p \in Seq(Message)
    BY BoxesHold
  <2>2. box2[Home] = Append(p, m)
    BY <2>1 DEF Post
  <2> HIDE DEF p
  <2>3. In(Append(p, m), KindOf(n, b, {t}))
    <3>1. m \in KindOf(n, b, {t})
      BY <1>2 DEF KindOf
    <3> QED
      BY ONLY <1>2, <2>1, <3>1, PushIn
  <2>4. t \in ReturnsIn(box2[Home], n, b)
    BY <2>2, <2>3 DEF ReturnsIn
  <2> QED
    BY <1>5, <2>4 DEF DirtyIn
<1> QED
  BY <1>3, <1>4, <1>5 DEF AllMailed

\* A cache takes its next message.
LEMMA TakenMailed ==
  ASSUME IInv, DataInv, NEW n \in Node, NEW T, Next_(n, T), T \subseteq Replies \cup Snoops, NEW m, m = Head(inbox[n])
  PROVE  /\ AllMailed(Pop(inbox, n))
         /\ m.type \in Bearers =>
              Good(m.data, m.block \in forwarded) \/ (m.data = "junk" /\ m.type \in Junky(m.block))
<1>1. m.type \in Replies \cup Snoops /\ m \in Message /\ NextIs(inbox, n, m, m.block) /\ m.block \in Block
  BY NextFacts
<1>2. inbox \in Boxes /\ inbox[n] # <<>> /\ inbox[n] \in Seq(Message)
  BY <1>1, BoxesHold DEF NextIs
<1>3. ASSUME NEW x \in Block PROVE Moved(inbox, Pop(inbox, n), x, x \in forwarded, Junky(x))
  <2>1. m \notin Writes(x)
    BY <1>1 DEF Writes, Kind, Replies, Grants, Snoops
  <2>2. m \notin Kind(x, Dirty)
    BY <1>1 DEF Kind, Dirty, Replies, Grants, Snoops
  <2>3. Mailed(inbox, Pop(inbox, n), x, x \in forwarded)
    BY <1>2, <2>1, <2>2, PopMailed
  <2> QED
    BY <2>3 DEF Mailed
<1>4. ASSUME m.type \in Bearers
      PROVE  Good(m.data, m.block \in forwarded) \/ (m.data = "junk" /\ m.type \in Junky(m.block))
  <2>1. DataSane(m.block)
    BY <1>1 DEF DataInv
  <2>2. ~In(inbox[n], Tainted(m.block, m.block \in forwarded, Junky(m.block)))
    BY <2>1 DEF DataSane, Sane, Right, Mail, Pure, Junky
  <2>3. 1 \in 1..Len(inbox[n]) /\ inbox[n][1] = m
    BY <1>2
  <2>4. m \notin Tainted(m.block, m.block \in forwarded, Junky(m.block))
    BY <2>2, <2>3 DEF In, At
  <2> QED
    BY <1>1, <1>4, <2>4 DEF Tainted
<1> QED
  BY <1>3, <1>4 DEF AllMailed

\* No message is taken or sent.
LEMMA NoneMailed == AllMailed(inbox)
BY MailedSame DEF AllMailed, Mailed

\* A woken writer still holds the lock.
Wakeful == \A k \in Node, x \in Block : WokenWriter(k, x) => (WokenWriter(k, x))'

\* The threads rest, sleep or hold the lock as before.
LEMMA UsersWakeful ==
  ASSUME user' = user
  PROVE  Wakeful
BY DEF Wakeful, WokenWriter

\* A round wakes a thread, and no other one is concerned.
LEMMA WakeWakeful ==
  ASSUME IInv, NEW n, NEW b, NEW ws, NEW ls, NEW box, Wake(n, b, ws, ls, box)
  PROVE  Wakeful
<1>1. user' = user \/ user' = [user EXCEPT ![Head(ws).core].pc = "woken"]
  BY DEF Wake
<1>2. user \in [Core -> [pc : {"idle", "wait", "woken"}, block : Block \cup {NoBlock}, excl : BOOLEAN]]
  BY InvFacts DEF CacheT
<1>3. ASSUME NEW c \in Core, user[c].pc = "woken"
      PROVE  user'[c].pc = "woken" /\ user'[c].block = user[c].block /\ user'[c].excl = user[c].excl
  BY <1>1, <1>2, <1>3
<1> QED
  BY <1>3 DEF Wakeful, WokenWriter

\* A line that stays as it is.
LEMMA LineKept ==
  ASSUME DataInv, Wakeful, NEW k \in Node, NEW x \in Block, NEW box, NEW ls, ls[k][x] = line[k][x]
  PROVE  CarriedLine(ls, box, k, x)
<1>1. GoodLine(k, x)
  BY DEF DataInv, LinesGood
<1>2. line[k][x].data = "junk" => JunkLine(x)
  BY DEF JunkLine
<1>3. WokenWriter(k, x) => (WokenWriter(k, x))'
  BY DEF Wakeful
<1> QED
  BY <1>1, <1>2, <1>3 DEF CarriedLine, GoodLine

\* The line of b in node n changes.
LEMMA LineCarried ==
  ASSUME DataInv, Wakeful, NEW n \in Node, NEW b \in Block, NEW box, AllMailed(box), NEW ls,
         ls[n][b].data = "none" \/ Good(ls[n][b].data, b \in forwarded),
         line[n][b].state = "MODIFIED" => ls[n][b].state = "MODIFIED" \/ DirtyIn(box[Home], n, b) # {},
         \A k \in Node, x \in Block : k # n \/ x # b => ls[k][x] = line[k][x]
  PROVE  Carried(ls, box)
<1>1. ASSUME NEW k \in Node, NEW x \in Block PROVE CarriedLine(ls, box, k, x)
  <2>1. CASE k = n /\ x = b
    BY <2>1 DEF CarriedLine, Good
  <2>2. CASE k # n \/ x # b
    BY <2>2, LineKept
  <2> QED
    BY <2>1, <2>2
<1> QED
  BY <1>1 DEF Carried

\* The first waiter is woken, or the network thread asks in its place.
LEMMA WakeCarries ==
  ASSUME NEW n \in Node, NEW b \in Block, NEW ws, NEW ls \in [Node -> [Block -> LineT]], NEW box \in Boxes,
         Carried(ls, box), Wake(n, b, ws, ls, box)
  PROVE  Carried(line', inbox')
<1>1. PICK up \in BOOLEAN : WakeCase(n, b, ws, ls, box, up)
  BY WakeCases
<1>2. CASE ~up
  BY <1>1, <1>2 DEF WakeCase
<1>3. CASE up
  <2>1. /\ ls[n][b].state = "SHARED" /\ line' = [ls EXCEPT ![n][b].state = "SHARED_UPGRADING"]
        /\ inbox' = [box EXCEPT ![Home] = Append(@, ShmemMsg("UPGRADE_REQ", b, n, "none"))]
    BY <1>1, <1>3 DEF WakeCase
  <2>m. PICK m : m = ShmemMsg("UPGRADE_REQ", b, n, "none")
    OBVIOUS
  <2>2. inbox' = Post(box, {Home}, m)
    BY <2>1, <2>m, AppendHome
  <2>p. PICK box2 : box2 = Post(box, {Home}, m)
    OBVIOUS
  <2>3. "UPGRADE_REQ" \in Returns /\ "UPGRADE_REQ" \notin Dirty
    BY DEF Returns, Requests, Dirty
  <2>4. AllMailed(box2)
    <3>1. AllMailed(box)
      BY DEF Carried
    <3> QED
      BY <2>3, <2>m, <2>p, <3>1, SendMailed
  <2>5. ASSUME NEW k \in Node, NEW x \in Block PROVE CarriedLine(line', box2, k, x)
    <3>1. CarriedLine(ls, box, k, x)
      BY DEF Carried
    <3>2. /\ line'[k][x].data = ls[k][x].data /\ (ls[k][x].state = "MODIFIED" => line'[k][x].state = "MODIFIED")
          /\ ls[k][x].state = "EXCLUSIVE" => line'[k][x].state = "EXCLUSIVE"
      <4>1. ls[n][b] \in LineT
        OBVIOUS
      <4>2. line'[n][b] = [ls[n][b] EXCEPT !.state = "SHARED_UPGRADING"]
        BY <2>1
      <4>3. line'[n][b].data = ls[n][b].data
        BY <4>1, <4>2 DEF LineT
      <4>4. k # n \/ x # b => line'[k][x] = ls[k][x]
        BY <2>1
      <4> QED
        BY <2>1, <4>3, <4>4
    <3>3. DirtyIn(box[Home], k, x) # {} => DirtyIn(box2[Home], k, x) # {}
      <4>1. m \in Message /\ m.type = "UPGRADE_REQ"
        <5>1. "UPGRADE_REQ" \in MessageTypes /\ "UPGRADE_REQ" \notin Carriers
          BY DEF MessageTypes, Returns, Requests, Carriers
        <5> QED
          BY <2>m, <5>1, MessageType
      <4>2. m \notin Tainted(x, x \in forwarded, {}) /\ m \notin Writes(x)
        BY <4>1 DEF Tainted, Writes, Kind, Bearers
      <4>3. Mailed(box, box2, x, x \in forwarded)
        BY <2>p, <4>1, <4>2, PostMailed
      <4>4. DirtyIn(box[Home], k, x) \subseteq DirtyIn(box2[Home], k, x)
        BY <4>3 DEF Mailed, Moved
      <4> QED
        BY <4>4
    <3> QED
      BY <3>1, <3>2, <3>3 DEF CarriedLine
  <2> QED
    BY <2>2, <2>p, <2>4, <2>5 DEF Carried
<1> QED
  BY <1>2, <1>3

\* What the invariant says of a line when no thread of n has been woken.
LEMMA LineFacts ==
  ASSUME IInv, DataInv, NEW n \in Node, NEW b \in Block, ~Locked(n)
  PROVE  /\ line[n][b] \in LineT /\ line \in [Node -> [Block -> LineT]] /\ line[n][b].data \in Data \cup {"none"}
         /\ line[n][b].data = "none" \/ Good(line[n][b].data, b \in forwarded)
         /\ line[n][b].state # "INVALID" => line[n][b].data \in Data /\ Good(line[n][b].data, b \in forwarded)
<1>1. CacheT /\ GoodLine(n, b) /\ ~WokenWriter(n, b)
  BY InvFacts, NobodyWoken DEF DataInv, LinesGood, Unlocked
<1>2. /\ line[n][b] \in LineT /\ line[n][b].data \in Data \cup {"none"}
      /\ line[n][b].state # "INVALID" => line[n][b].data \in Data
  BY <1>1, ValidData
<1> QED
  BY <1>1, <1>2 DEF CacheT, GoodLine, Data

\* The network thread goes on to the next waiter.
LEMMA NextWaiterData ==
  ASSUME IInv, DataInv, NEW n \in Node, NextWaiter(n)
  PROVE  DataInv'
<1>b. PICK b : b = serving[n]
  OBVIOUS
<1>1. /\ b # NoBlock /\ Wake(n, b, Tail(waiters[n][b]), line, inbox)
      /\ dir' = dir /\ reqs' = reqs /\ dram' = dram /\ forwarded' = forwarded
  BY <1>b DEF NextWaiter, directory
<1>2. b \in Block /\ line \in [Node -> [Block -> LineT]] /\ inbox \in Boxes
  BY <1>b, <1>1, InvFacts DEF CacheT
<1>3. Carried(line, inbox)
  <2>1. Wakeful
    BY <1>1, WakeWakeful
  <2>2. \A k \in Node, x \in Block : CarriedLine(line, inbox, k, x)
    BY <2>1, LineKept
  <2> QED
    BY <2>2, NoneMailed DEF Carried
<1>4. Carried(line', inbox')
  BY <1>1, <1>2, <1>3, WakeCarries
<1> QED
  BY <1>1, <1>4, CarriedData

\* The LLC handles UPGRADE_REP.
LEMMA UpgradeRepData ==
  ASSUME IInv, DataInv, NEW n \in Node, UpgradeRep(n)
  PROVE  DataInv'
<1>m. PICK m : m = Head(inbox[n])
  OBVIOUS
<1>b. PICK b : b = m.block
  OBVIOUS
<1>s. PICK ls : ls = [line EXCEPT ![n][b].state = "MODIFIED"]
  OBVIOUS
<1>p. PICK box : box = Pop(inbox, n)
  OBVIOUS
<1>1. /\ Next_(n, {"UPGRADE_REP"}) /\ Wake(n, b, waiters[n][b], ls, Popped(n))
      /\ dir' = dir /\ reqs' = reqs /\ dram' = dram /\ forwarded' = forwarded
  BY <1>m, <1>b, <1>s DEF UpgradeRep, directory
<1>2. b \in Block /\ m.type = "UPGRADE_REP" /\ Popped(n) = box /\ box \in Boxes /\ NextIs(inbox, n, m, b)
  BY <1>1, <1>m, <1>b, <1>p, NextFacts
<1>3. {"UPGRADE_REP"} \subseteq Replies \cup Snoops
  BY DEF Replies
<1>4. AllMailed(box)
  BY <1>1, <1>3, <1>m, <1>p, TakenMailed
<1>5. line[n][b].state = "SHARED_UPGRADING"
  <2>1. Expected(n, m)
    BY <1>2, <1>3, <1>m, ReplyExpected DEF NextIs, Replies
  <2> QED
    BY <1>2, <1>b, <2>1 DEF Expected
<1>6. /\ line[n][b] \in LineT /\ line \in [Node -> [Block -> LineT]]
      /\ line[n][b].data \in Data /\ Good(line[n][b].data, b \in forwarded)
  BY <1>1, <1>2, <1>5, LineFacts DEF Next_
<1>7. /\ ls[n][b] = [line[n][b] EXCEPT !.state = "MODIFIED"] /\ ls[n][b].data = line[n][b].data
      /\ \A k \in Node, x \in Block : k # n \/ x # b => ls[k][x] = line[k][x]
  BY <1>2, <1>6, <1>s DEF LineT
<1>8. ls \in [Node -> [Block -> LineT]]
  <2>l. PICK l : l = [line[n][b] EXCEPT !.state = "MODIFIED"]
    OBVIOUS
  <2>1. l \in LineT
    BY <1>5, <1>6, <2>l DEF LineT, States
  <2>2. ls = [line EXCEPT ![n] = [line[n] EXCEPT ![b] = l]]
    BY <1>s, <2>l
  <2> QED
    BY <1>2, <1>6, <2>1, <2>2
<1>9. Carried(ls, box)
  <2>1. Wakeful
    BY <1>1, WakeWakeful
  <2> QED
    BY <1>2, <1>4, <1>5, <1>6, <1>7, <2>1, LineCarried
<1>10. Carried(line', inbox')
  BY <1>1, <1>2, <1>8, <1>9, WakeCarries
<1> QED
  BY <1>1, <1>10, CarriedData

\* The message of an eviction: it has the data, if the DRAM has not.
LEMMA EvictCarries ==
  ASSUME IInv, DataInv, NEW n \in Node, ~Locked(n), NEW v \in Block, line[n][v].state # "INVALID", NEW box \in Boxes, AllMailed(box),
         NEW box2, box2 = Post(box, {Home}, EvictMsg(n, v))
  PROVE  /\ AllMailed(box2) /\ box2 \in Boxes
         /\ line[n][v].state = "MODIFIED" => DirtyIn(box2[Home], n, v) # {}
<1>1. line[n][v].data \in Data /\ Good(line[n][v].data, v \in forwarded)
  BY LineFacts
<1>2. {"INV_REP", "FLUSH_REP"} \subseteq Returns /\ "INV_REP" \notin Dirty /\ "FLUSH_REP" \in Dirty
  BY DEF Returns, Drops, Dirty
<1>3. CASE line[n][v].state = "MODIFIED"
  <2>1. EvictMsg(n, v) = ShmemMsg("FLUSH_REP", v, n, line[n][v].data)
    BY <1>3 DEF EvictMsg
  <2> QED
    BY <1>1, <1>2, <2>1, SendMailed
<1>4. CASE line[n][v].state # "MODIFIED"
  <2>1. EvictMsg(n, v) = ShmemMsg("INV_REP", v, n, "none")
    BY <1>4 DEF EvictMsg
  <2> QED
    BY <1>2, <1>4, <2>1, SendMailed
<1> QED
  BY <1>3, <1>4

\* A block outside the model comes in.
LEMMA OtherBlockRepData ==
  ASSUME IInv, DataInv, NEW n \in Node, OtherBlockRep(n)
  PROVE  DataInv'
<1>1. dir' = dir /\ reqs' = reqs /\ dram' = dram /\ forwarded' = forwarded /\ user' = user /\ ~Locked(n)
  BY DEF OtherBlockRep, directory
<1>v. PICK v \in Evictable(n, NoBlock) : line' = [line EXCEPT ![n][v] = Invalid] /\ inbox' = Evicted(n, v, inbox)
  BY DEF OtherBlockRep
<1>2. v \in Block /\ line[n][v].state # "INVALID"
  BY DEF Evictable
<1>3. inbox \in Boxes /\ line \in [Node -> [Block -> LineT]]
  BY InvFacts DEF CacheT
<1>4. inbox' = Post(inbox, {Home}, EvictMsg(n, v))
  BY <1>v, <1>2, <1>3, EvictedBox
<1>5. AllMailed(inbox') /\ (line[n][v].state = "MODIFIED" => DirtyIn(inbox'[Home], n, v) # {})
  BY <1>1, <1>2, <1>3, <1>4, NoneMailed, EvictCarries
<1>6. line'[n][v].data = "none" /\ \A k \in Node, x \in Block : k # n \/ x # v => line'[k][x] = line[k][x]
  BY <1>v, <1>2, <1>3 DEF Invalid, Line
<1>7. Carried(line', inbox')
  BY <1>1, <1>2, <1>5, <1>6, UsersWakeful, LineCarried
<1> QED
  BY <1>1, <1>7, CarriedData

\* The lines once a block has come in.
LEMMA InsertedData ==
  ASSUME IInv, NEW n \in Node, NEW b \in Block, NEW v \in (Block \ {b}) \cup {NoBlock}, NEW st, NEW data,
         NEW ls, ls = Inserted(n, b, v, st, data)
  PROVE  /\ ls[n][b].data = data /\ ls[n][b].state = st
         /\ v \in Block => ls[n][v].data = "none"
         /\ \A k \in Node, x \in Block : k # n \/ (x # b /\ x # v) => ls[k][x] = line[k][x]
<1>1. line \in [Node -> [Block -> LineT]] /\ NoBlock \notin Block
  BY InvFacts, CoreAssumption DEF CacheT
<1>2. ls = [line EXCEPT ![n] = [x \in Block |-> IF x = b THEN Line(st, data) ELSE IF x = v THEN Invalid ELSE line[n][x]]]
  BY DEF Inserted
<1>3. \A x \in Block : ls[n][x] = IF x = b THEN Line(st, data) ELSE IF x = v THEN Invalid ELSE line[n][x]
  BY <1>1, <1>2
<1>4. \A k \in Node : k # n => ls[k] = line[k]
  BY <1>1, <1>2
<1>5. Line(st, data).data = data /\ Line(st, data).state = st /\ Invalid.data = "none"
  BY DEF Line, Invalid
<1> QED
  BY <1>1, <1>3, <1>4, <1>5

\* A block comes in, and v's line goes.
LEMMA InsertCarries ==
  ASSUME IInv, DataInv, Wakeful, NEW n \in Node, ~Locked(n), NEW b \in Block, line[n][b].state = "INVALID",
         NEW v \in (Block \ {b}) \cup {NoBlock}, v \in Block => line[n][v].state # "INVALID",
         NEW st, NEW data, NEW ls, ls = Inserted(n, b, v, st, data),
         \/ Good(data, b \in forwarded)
         \/ data = "junk" /\ st = "EXCLUSIVE" /\ (WokenWriter(n, b))' /\ Saved(inbox[Home], b, dram[b]),
         NEW box1 \in Boxes, AllMailed(box1), NEW box, box = Evicted(n, v, box1)
  PROVE  box \in Boxes /\ Carried(ls, box)
<1>1. /\ ls[n][b].data = data /\ ls[n][b].state = st
      /\ v \in Block => ls[n][v].data = "none"
      /\ \A k \in Node, x \in Block : k # n \/ (x # b /\ x # v) => ls[k][x] = line[k][x]
  BY InsertedData
<1>2. box \in Boxes /\ AllMailed(box) /\ (v \in Block /\ line[n][v].state = "MODIFIED" => DirtyIn(box[Home], n, v) # {})
  <2>1. CASE v \in Block
    <3>1. box = Post(box1, {Home}, EvictMsg(n, v))
      BY <2>1, EvictedBox
    <3> QED
      BY <2>1, <3>1, EvictCarries
  <2>2. CASE v \notin Block
    BY <2>2 DEF Evicted
  <2> QED
    BY <2>1, <2>2
<1>3. ASSUME NEW k \in Node, NEW x \in Block PROVE CarriedLine(ls, box, k, x)
  <2>1. CASE k = n /\ x = b
    BY <1>1, <2>1 DEF CarriedLine, Good
  <2>2. CASE k = n /\ x = v
    BY <1>1, <1>2, <2>2 DEF CarriedLine
  <2>3. CASE k # n \/ (x # b /\ x # v)
    BY <1>1, <2>3, LineKept
  <2> QED
    BY <2>1, <2>2, <2>3
<1> QED
  BY <1>2, <1>3 DEF Carried

\* Under a MODIFIED entry EX_REP answers the request of a writer.
LEMMA GrantForWriter ==
  ASSUME IInv, NEW n \in Node, NEW b \in Block, NEW m, NextIs(inbox, n, m, b), m.type = "EX_REP",
         dir[b].state = "MODIFIED"
  PROVE  waiters[n][b] # <<>> /\ Head(waiters[n][b]).excl
<1>c. PICK C : C = Caches(b)
  OBVIOUS
<1>a. PICK A : A = View(dir[b], reqs[b], inbox, b, C)
  OBVIOUS
<1>1. SoundT(dir[b], reqs[b], inbox, b, C)
  BY <1>c, BlockSound
<1>2. Stable(A) /\ Ordered(inbox, b, C) /\ inbox \in Boxes /\ A.e = dir[b]
  BY <1>1, <1>a, SoundFacts
<1>3. A.s[n] = RepliesIn(inbox[n], b) /\ A.hx[n] = FirstWrites(n, b)
  BY <1>a, <1>c, CachesNow DEF View
<1>4. One(inbox[n], Kind(b, Replies)) /\ inbox[n] \in Seq(Message)
  BY <1>2 DEF Ordered, CacheOrder, Boxes
<1>5. "EX_REP" \in A.s[n]
  BY <1>3, <1>4, PopReplies DEF NextIs, Replies, Grants
<1>6. Token(A, n)
  BY <1>2, CacheFacts
<1>7. FirstWrites(n, b)
  BY <1>2, <1>3, <1>5, <1>6 DEF Token
<1> QED
  BY <1>7 DEF FirstWrites

\* A writer that finds the block EXCLUSIVE is woken.
LEMMA WriterWoken ==
  ASSUME IInv, NEW n \in Node, NEW b \in Block, ~Locked(n), serving[n] = NoBlock, NEW ws, ws = waiters[n][b],
         ws # <<>>, Head(ws).excl, NEW ls \in [Node -> [Block -> LineT]], ls[n][b].state = "EXCLUSIVE",
         \A k \in Node : k # n => ls[k] = line[k], NEW box, Wake(n, b, ws, ls, box)
  PROVE  (WokenWriter(n, b))'
<1>1. CacheT /\ Users /\ NoBlock \notin Block
  BY InvFacts, CoreAssumption
<1>2. ws = Asleep(n, b) /\ Served(n, b) /\ Sleepers(user, Asleep(n, b), n, b)
  BY <1>1 DEF Asleep, Users
<1>3. ws \in Seq(Waiter)
  BY <1>1, <1>2, AsleepType
<1>w. PICK w : w = Head(ws).core
  OBVIOUS
<1>4. user' = [user EXCEPT ![w].pc = "woken"]
  BY <1>w DEF Wake, UpgradesFor
<1>5. w \in Core /\ Head(ws) = ws[1] /\ 1 \in 1..Len(ws)
  BY <1>3, <1>w, WaiterAt
<1>6. NodeOf[w] = n /\ user[w] = [pc |-> "wait", block |-> b, excl |-> Head(ws).excl]
  BY <1>2, <1>w, <1>5 DEF Sleepers, SleeperOf
<1>7. user \in [Core -> [pc : {"idle", "wait", "woken"}, block : Block \cup {NoBlock}, excl : BOOLEAN]]
  BY <1>1 DEF CacheT
<1>8. user'[w].pc = "woken" /\ user'[w].block = b /\ user'[w].excl
  BY <1>4, <1>5, <1>6, <1>7
<1> QED
  BY <1>5, <1>6, <1>8 DEF WokenWriter

\* The LLC handles EX_REP and SH_REP.
LEMMA DataRepData ==
  ASSUME IInv, DataInv, NEW n \in Node, DataRep(n)
  PROVE  DataInv'
<1>m. PICK m : m = Head(inbox[n])
  OBVIOUS
<1>b. PICK b : b = m.block
  OBVIOUS
<1>t. PICK st : st = IF m.type = "EX_REP" THEN "EXCLUSIVE" ELSE "SHARED"
  OBVIOUS
<1>1. /\ Next_(n, {"EX_REP", "SH_REP"})
      /\ dir' = dir /\ reqs' = reqs /\ dram' = dram /\ forwarded' = forwarded
  BY DEF DataRep, directory
<1>v. PICK v \in Evictable(n, b) \cup {NoBlock} :
         Wake(n, b, waiters[n][b], Inserted(n, b, v, st, m.data), Evicted(n, v, Popped(n)))
  BY <1>m, <1>b, <1>t DEF DataRep
<1>s. PICK ls : ls = Inserted(n, b, v, st, m.data)
  OBVIOUS
<1>o. PICK box1 : box1 = Pop(inbox, n)
  OBVIOUS
<1>p. PICK box : box = Evicted(n, v, box1)
  OBVIOUS
<1>2. /\ b \in Block /\ m.type \in {"EX_REP", "SH_REP"} /\ m \in Message /\ Popped(n) = box1 /\ box1 \in Boxes
      /\ NextIs(inbox, n, m, b)
  BY <1>1, <1>m, <1>b, <1>o, NextFacts
<1>3. {"EX_REP", "SH_REP"} \subseteq Replies \cup Snoops /\ m.type \in Replies /\ m.type \in Bearers
  BY <1>2 DEF Replies, Grants, Bearers
<1>4. AllMailed(box1) /\ (Good(m.data, b \in forwarded) \/ (m.data = "junk" /\ m.type \in Junky(b)))
  BY <1>1, <1>3, <1>m, <1>b, <1>o, TakenMailed
<1>5. line[n][b].state = "INVALID"
  <2>1. Expected(n, m)
    BY <1>2, <1>3, <1>m, ReplyExpected DEF NextIs
  <2> QED
    BY <1>2, <1>b, <2>1 DEF Expected
<1>6. m.data \in Data /\ st \in {"EXCLUSIVE", "SHARED"}
  BY <1>2, <1>t DEF Message, Carriers
<1>7. v \in (Block \ {b}) \cup {NoBlock} /\ (v \in Block => line[n][v].state # "INVALID")
  BY CoreAssumption DEF Evictable
<1>8. CameIn(n, b, v, st, ls) /\ ls \in [Node -> [Block -> LineT]]
  BY <1>2, <1>6, <1>7, <1>s, InvFacts, InsertedLines DEF CameIn
<1>9. Wake(n, b, waiters[n][b], ls, box)
  BY <1>v, <1>s, <1>p, <1>2
<1>10. Wakeful
  BY <1>9, WakeWakeful
<1>11. ASSUME ~Good(m.data, b \in forwarded)
       PROVE  m.data = "junk" /\ st = "EXCLUSIVE" /\ (WokenWriter(n, b))' /\ Saved(inbox[Home], b, dram[b])
  <2>1. m.data = "junk" /\ m.type = "EX_REP" /\ dir[b].state = "MODIFIED" /\ Saved(inbox[Home], b, dram[b])
    BY <1>2, <1>4, <1>11 DEF Junky, Allowed
  <2>2. waiters[n][b] # <<>> /\ Head(waiters[n][b]).excl
    BY <1>2, <2>1, GrantForWriter
  <2>3. st = "EXCLUSIVE" /\ ls[n][b].state = "EXCLUSIVE"
    BY <1>t, <1>8, <2>1 DEF CameIn
  <2>4. (WokenWriter(n, b))'
    BY <1>1, <1>2, <1>8, <1>9, <2>2, <2>3, WriterWoken DEF Next_, CameIn
  <2> QED
    BY <2>1, <2>3, <2>4
<1>12. box \in Boxes /\ Carried(ls, box)
  BY <1>1, <1>2, <1>4, <1>5, <1>7, <1>s, <1>p, <1>10, <1>11, InsertCarries DEF Next_
<1>13. Carried(line', inbox')
  BY <1>2, <1>8, <1>12, <1>9, WakeCarries
<1> QED
  BY <1>1, <1>13, CarriedData

\* The LLC handles INV_REQ, which finds no dirty line, and FLUSH_REQ.
LEMMA InvalidateReqData ==
  ASSUME IInv, DataInv, NEW n \in Node, InvalidateReq(n)
  PROVE  DataInv'
<1>m. PICK m0 : m0 = Head(inbox[n])
  OBVIOUS
<1>b. PICK b : b = m0.block
  OBVIOUS
<1>d. PICK data : data = IF m0.type = "INV_REQ" THEN "none" ELSE line[n][b].data
  OBVIOUS
<1>t. PICK t : t = IF m0.type = "INV_REQ" THEN "INV_REP" ELSE "FLUSH_REP"
  OBVIOUS
<1>p. PICK box1 : box1 = Pop(inbox, n)
  OBVIOUS
<1>1. /\ Next_(n, {"INV_REQ", "FLUSH_REQ"})
      /\ dir' = dir /\ reqs' = reqs /\ dram' = dram /\ forwarded' = forwarded /\ user' = user
  BY DEF InvalidateReq, directory
<1>2. /\ line' = [line EXCEPT ![n][b] = Invalid]
      /\ inbox' = IF line[n][b].state = "INVALID" THEN Popped(n) ELSE Answer(n, t, b, data)
  BY <1>m, <1>b, <1>d, <1>t DEF InvalidateReq
<1>3. /\ m0.type \in {"INV_REQ", "FLUSH_REQ"} /\ b \in Block /\ NextIs(inbox, n, m0, b) /\ Popped(n) = box1 /\ box1 \in Boxes
  BY <1>1, <1>m, <1>b, <1>p, NextFacts
<1>4. {"INV_REQ", "FLUSH_REQ"} \subseteq Replies \cup Snoops /\ m0.type \notin Replies
  BY <1>3 DEF Replies, Grants, Snoops
<1>5. AllMailed(box1)
  BY <1>1, <1>4, <1>m, <1>p, TakenMailed
<1>6. m0.type = "INV_REQ" => line[n][b].state # "MODIFIED"
  <2>1. Expected(n, m0)
    BY <1>3, <1>4, <1>m, OtherExpected DEF NextIs
  <2> QED
    BY <1>b, <2>1 DEF Expected
<1>7. /\ line \in [Node -> [Block -> LineT]] /\ data \in Data \cup {"none"}
      /\ line[n][b].state # "INVALID" /\ t = "FLUSH_REP" => data \in Data /\ Good(data, b \in forwarded)
  BY <1>1, <1>3, <1>d, <1>t, LineFacts DEF Next_
<1>8. t \in Returns /\ (t \in Dirty <=> t = "FLUSH_REP") /\ (m0.type # "INV_REQ" => t = "FLUSH_REP")
  BY <1>t DEF Returns, Drops, Dirty
<1>9. AllMailed(inbox') /\ (line[n][b].state = "MODIFIED" => DirtyIn(inbox'[Home], n, b) # {})
  <2>1. CASE line[n][b].state = "INVALID"
    BY <1>2, <1>3, <1>5, <2>1
  <2>2. CASE line[n][b].state # "INVALID"
    <3>m. PICK m : m = ShmemMsg(t, b, n, data)
      OBVIOUS
    <3>1. inbox' = Post(box1, {Home}, m)
      BY <1>2, <1>3, <2>2, <3>m, AppendHome DEF Answer
    <3>2. AllMailed(Post(box1, {Home}, m)) /\ (t \in Dirty => DirtyIn(Post(box1, {Home}, m)[Home], n, b) # {})
      BY <1>3, <1>5, <1>7, <1>8, <2>2, <3>m, SendMailed
    <3> QED
      BY <1>6, <1>8, <3>1, <3>2
  <2> QED
    BY <2>1, <2>2
<1>10. line'[n][b].data = "none" /\ \A k \in Node, x \in Block : k # n \/ x # b => line'[k][x] = line[k][x]
  BY <1>2, <1>3, <1>7 DEF Invalid, Line
<1>11. Carried(line', inbox')
  BY <1>1, <1>3, <1>9, <1>10, UsersWakeful, LineCarried
<1> QED
  BY <1>1, <1>11, CarriedData

\* A line that is asked for its data while it waits for an upgrade is a shared copy.
LEMMA AskedWhileUpgrading ==
  ASSUME IInv, NEW n \in Node, NEW b \in Block, NEW m, NextIs(inbox, n, m, b), m.type = "WB_REQ",
         line[n][b].state = "SHARED_UPGRADING"
  PROVE  dir[b].state \notin Owned
<1>c. PICK C : C = Caches(b)
  OBVIOUS
<1>a. PICK A : A = View(dir[b], reqs[b], inbox, b, C)
  OBVIOUS
<1>1. SoundT(dir[b], reqs[b], inbox, b, C)
  BY <1>c, BlockSound
<1>2. Stable(A) /\ Ordered(inbox, b, C) /\ inbox \in Boxes /\ A.e = dir[b]
  BY <1>1, <1>a, SoundFacts
<1>3. C.ln[n] = "SHARED_UPGRADING"
  BY <1>c, CachesNow
<1>4. /\ A.s[n] = RepliesIn(inbox[n], b) /\ A.l[n] = LiveIn(inbox[n], "SHARED_UPGRADING", b)
      /\ A.ln[n] = "SHARED_UPGRADING"
  BY <1>a, <1>3 DEF View
<1>5. inbox[n] \in Seq(Message) /\ inbox[n] # <<>> /\ m = Head(inbox[n]) /\ m.block = b /\ m \in Message
  BY <1>2 DEF NextIs, Boxes
<1>6. 1 \in 1..Len(inbox[n]) /\ inbox[n][1] = m
  BY <1>5
<1>7. 1 \in At(inbox[n], Kind(b, {"WB_REQ"})) /\ 1 \in LiveAt(inbox[n], "SHARED_UPGRADING", b, Snoops)
  BY <1>5, <1>6 DEF At, Kind, LiveAt, Snoops
<1>8. "WB_REQ" \in A.l[n]
  BY <1>4, <1>7 DEF LiveIn, LiveAt, Snoops
<1>9. "UPGRADE_REP" \notin A.s[n]
  <2>1. CacheOrder(inbox[n], "SHARED_UPGRADING", b)
    BY <1>2, <1>3 DEF Ordered
  <2>2. \A i \in At(inbox[n], Kind(b, {"UPGRADE_REP"})) : i < 1
    BY <1>7, <2>1 DEF CacheOrder
  <2>3. \A i \in At(inbox[n], Kind(b, {"UPGRADE_REP"})) : i \in 1..Len(inbox[n])
    BY DEF At
  <2>4. At(inbox[n], Kind(b, {"UPGRADE_REP"})) = {}
    BY <2>2, <2>3
  <2> QED
    BY <1>4, <2>4 DEF RepliesIn, In
<1>10. Known(A, n) /\ ~Idles(A) /\ WaitingN(A, n)
  BY <1>2, <1>8 DEF Stable, CoreInv, CoreN, Quiet, QuietN, Waiting
<1>11. "WB_REP" \notin A.f[n]
  BY <1>8, <1>10 DEF WaitingN
<1> QED
  BY <1>2, <1>4, <1>9, <1>10, <1>11 DEF Known

\* The LLC handles WB_REQ: the data that it sends back is the line's, or, when the line
\* waits for an upgrade, junk.
LEMMA WbReqData ==
  ASSUME IInv, DataInv, NEW n \in Node, WbReq(n)
  PROVE  DataInv'
<1>m. PICK m0 : m0 = Head(inbox[n])
  OBVIOUS
<1>b. PICK b : b = m0.block
  OBVIOUS
<1>p. PICK box1 : box1 = Pop(inbox, n)
  OBVIOUS
<1>1. /\ Next_(n, {"WB_REQ"}) /\ dir' = dir /\ reqs' = reqs /\ dram' = dram /\ forwarded' = forwarded
      /\ user' = user
  BY DEF WbReq, directory
<1>2. /\ line[n][b].state = "INVALID" => inbox' = Popped(n)
      /\ line[n][b].state # "INVALID" =>
           \E d : /\ inbox' = Answer(n, "WB_REP", b, d)
                  /\ d = line[n][b].data \/ (d = "junk" /\ line[n][b].state = "SHARED_UPGRADING")
      /\ line' = line \/ line' = [line EXCEPT ![n][b].state = "SHARED"]
  BY <1>m, <1>b DEF WbReq, Readable
<1>3. /\ b \in Block /\ Popped(n) = box1 /\ box1 \in Boxes /\ NextIs(inbox, n, m0, b) /\ m0.type = "WB_REQ"
  BY <1>1, <1>m, <1>b, <1>p, NextFacts
<1>4. AllMailed(box1)
  <2>1. {"WB_REQ"} \subseteq Replies \cup Snoops
    BY DEF Snoops
  <2> QED
    BY <1>1, <1>m, <1>p, <2>1, TakenMailed
<1>5. /\ line \in [Node -> [Block -> LineT]] /\ line[n][b] \in LineT
      /\ line[n][b].data = "none" \/ Good(line[n][b].data, b \in forwarded)
      /\ line[n][b].state # "INVALID" => line[n][b].data \in Data /\ Good(line[n][b].data, b \in forwarded)
  BY <1>1, <1>3, LineFacts DEF Next_
<1>6. line'[n][b].data = line[n][b].data /\ \A k \in Node, x \in Block : k # n \/ x # b => line'[k][x] = line[k][x]
  <2>1. CASE line' = line
    BY <2>1
  <2>2. CASE line' = [line EXCEPT ![n][b].state = "SHARED"]
    BY <1>3, <1>5, <2>2 DEF LineT
  <2> QED
    BY <1>2, <2>1, <2>2
<1>7. AllMailed(inbox') /\ (line[n][b].state = "MODIFIED" => DirtyIn(inbox'[Home], n, b) # {})
  <2>1. CASE line[n][b].state = "INVALID"
    BY <1>2, <1>3, <1>4, <2>1
  <2>2. CASE line[n][b].state # "INVALID"
    <3>d. PICK d : /\ inbox' = Answer(n, "WB_REP", b, d)
                   /\ d = line[n][b].data \/ (d = "junk" /\ line[n][b].state = "SHARED_UPGRADING")
      BY <1>2, <2>2
    <3>m. PICK m : m = ShmemMsg("WB_REP", b, n, d)
      OBVIOUS
    <3>1. inbox' = Post(box1, {Home}, m)
      BY <1>3, <3>d, <3>m, AppendHome DEF Answer
    <3>2. d \in Data /\ (Good(d, b \in forwarded) \/ (d = "junk" /\ "WB_REP" \in Junky(b)))
      <4>1. CASE d = line[n][b].data
        BY <1>5, <2>2, <4>1
      <4>2. CASE d = "junk" /\ line[n][b].state = "SHARED_UPGRADING"
        <5>1. dir[b].state \notin Owned
          BY <1>3, <4>2, AskedWhileUpgrading
        <5>2. DataSane(b)
          BY <1>3 DEF DataInv
        <5>3. b \in forwarded \/ Saved(inbox[Home], b, dram[b])
          BY <5>1, <5>2 DEF DataSane, Sane, Safe, Unsaved, Owned
        <5> QED
          BY <4>2, <5>3 DEF Good, Junky, Allowed, Data
      <4> QED
        BY <3>d, <4>1, <4>2
    <3>3. "WB_REP" \in Returns /\ "WB_REP" \in Dirty
      BY DEF Returns, Dirty
    <3>4. AllMailed(Post(box1, {Home}, m)) /\ DirtyIn(Post(box1, {Home}, m)[Home], n, b) # {}
      BY <1>3, <1>4, <3>m, <3>3, <3>2, SendMailed
    <3> QED
      BY <3>1, <3>4
  <2> QED
    BY <2>1, <2>2
<1>8. Carried(line', inbox')
  BY <1>1, <1>3, <1>5, <1>6, <1>7, UsersWakeful, LineCarried
<1> QED
  BY <1>1, <1>8, CarriedData

\* A thread misses.
LEMMA MissData ==
  ASSUME IInv, DataInv, NEW c \in Core, NEW b \in Block, NEW excl, Miss(c, b, excl)
  PROVE  DataInv'
<1>n. PICK n : n = NodeOf[c]
  OBVIOUS
<1>t. PICK t : t = Request(n, b, excl)
  OBVIOUS
<1>1. /\ line' = IF waiters[n][b] = <<>> /\ t = "UPGRADE_REQ"
                 THEN [line EXCEPT ![n][b].state = "SHARED_UPGRADING"] ELSE line
      /\ inbox' = IF waiters[n][b] = <<>> THEN [inbox EXCEPT ![Home] = Append(@, ShmemMsg(t, b, n, "none"))]
                  ELSE inbox
      /\ dir' = dir /\ reqs' = reqs /\ dram' = dram /\ forwarded' = forwarded /\ ~Locked(n)
  BY <1>n, <1>t DEF Miss, directory
<1>2. n \in Node /\ inbox \in Boxes
  BY <1>n, CoreAssumption, InvFacts
<1>3. t \in Requests /\ (t = "UPGRADE_REQ" => line[n][b].state = "SHARED")
  BY <1>t DEF Request, Requests
<1>4. /\ line \in [Node -> [Block -> LineT]] /\ line[n][b] \in LineT
      /\ line[n][b].data = "none" \/ Good(line[n][b].data, b \in forwarded)
  BY <1>1, <1>2, LineFacts
<1>5. Wakeful
  <2>1. user[c].pc = "idle" /\ \E u : user' = [user EXCEPT ![c] = u]
    BY DEF Miss
  <2>2. \A d \in Core : user[d].pc = "woken" => user'[d] = user[d]
    BY <2>1, InvFacts DEF CacheT
  <2> QED
    BY <2>2 DEF Wakeful, WokenWriter
<1>6. /\ line'[n][b].data = line[n][b].data /\ (line[n][b].state = "MODIFIED" => line'[n][b].state = "MODIFIED")
      /\ \A k \in Node, x \in Block : k # n \/ x # b => line'[k][x] = line[k][x]
  <2>1. CASE line' = line
    BY <2>1
  <2>2. CASE line' = [line EXCEPT ![n][b].state = "SHARED_UPGRADING"] /\ t = "UPGRADE_REQ"
    BY <1>2, <1>3, <1>4, <2>2 DEF LineT
  <2> QED
    BY <1>1, <2>1, <2>2
<1>7. AllMailed(inbox')
  <2>1. CASE inbox' = inbox
    BY <2>1, NoneMailed
  <2>2. CASE inbox' = [inbox EXCEPT ![Home] = Append(@, ShmemMsg(t, b, n, "none"))]
    <3>m. PICK m : m = ShmemMsg(t, b, n, "none")
      OBVIOUS
    <3>1. inbox' = Post(inbox, {Home}, m)
      BY <1>2, <2>2, <3>m, AppendHome
    <3>2. t \in Returns /\ t \notin Dirty
      BY <1>3 DEF Returns, Requests, Dirty
    <3>3. AllMailed(Post(inbox, {Home}, m))
      BY <1>2, <3>m, <3>2, NoneMailed, SendMailed
    <3> QED
      BY <3>1, <3>3
  <2> QED
    BY <1>1, <2>1, <2>2
<1>8. Carried(line', inbox')
  BY <1>2, <1>4, <1>6, <1>7, <1>5, LineCarried
<1> QED
  BY <1>1, <1>8, CarriedData

-----------------------------------------------------------------------------
(* The DRAM                                                                *)

\* Only the home node gets messages for the DRAM.
LEMMA DramAtHome ==
  ASSUME IInv, NEW n \in Node, inbox[n] # <<>>, Head(inbox[n]).type \notin Replies \cup Snoops
  PROVE  n = Home
<1>1. SUFFICES ASSUME n # Home PROVE FALSE
  OBVIOUS
<1>2. inbox[n] \in Seq(ToCache)
  BY <1>1, InvFacts DEF Boxes
<1>3. Head(inbox[n]) \in ToCache
  BY <1>2
<1> QED
  BY <1>3 DEF ToCache

\* While the DRAM is read, no cache has data that it lacks.
LEMMA ReadFacts ==
  ASSUME NEW A, Stable(A), A.rd
  PROVE  /\ A.r.wait
         /\ A.e.state = "EXCLUSIVE" => A.ln[A.e.owner] = "INVALID" /\ A.f[A.e.owner] \cap Dirty = {}
<1>1. EntryInv(A) /\ HeadInv(A) /\ A \in AbsT /\ \A k \in Node : CoreN(A, k)
  BY DEF Stable, CoreInv
<1>2. ~Idles(A) /\ A.r.wait /\ \A k \in Node : WaitingN(A, k)
  BY DEF Stable, Quiet, Waiting, AwaitInv
<1>3. A.r.type \in Requests /\ A.r.node \in Node
  BY <1>1, <1>2 DEF HeadInv
<1>4. Pending(A, A.r.node)
  BY <1>2, <1>3 DEF Pending
<1>5. A.r.node \in A.e.sharers /\ A.ln[A.r.node] = "INVALID" /\ ~Dropped(A, A.r.node)
  BY <1>1, <1>3, <1>4 DEF CoreN, Present
<1>6. "WB_REP" \notin A.f[A.r.node]
  BY <1>2, <1>3 DEF WaitingN
<1>7. A.e.state = "EXCLUSIVE" => A.e.owner = A.r.node
  BY <1>1, <1>5 DEF EntryInv, Owned
<1> QED
  BY <1>2, <1>5, <1>6, <1>7 DEF Dropped, Dirty

\* A read is next: no write is on its way, and the DRAM has good data.
LEMMA ReadsGood ==
  ASSUME IInv, DataInv, inbox[Home] # <<>>, NEW m, m = Head(inbox[Home]), NEW b \in Block, m \in Kind(b, Reads)
  PROVE  Good(dram[b], b \in forwarded)
<1> DEFINE q == inbox[Home]
           F == (b \in forwarded)
<1>1. inbox \in Boxes /\ q \in Seq(Message) /\ dram[b] \in Data
  BY InvFacts, BoxesHold
<1>2. PICK A : /\ A = View(dir[b], reqs[b], inbox, b, Caches(b)) /\ Stable(A) /\ A.e = dir[b] /\ A.r = HeadOf(reqs[b])
               /\ \A n \in Node : A.ln[n] = line[n][b].state
  BY Views
<1>3. 1 \in 1..Len(q) /\ q[1] = m
  BY <1>1
<1>4. In(q, Kind(b, Reads))
  BY <1>3 DEF In, At
<1>5. A.rd /\ \A n \in Node : A.f[n] = ReturnsIn(q, n, b)
  BY <1>2, <1>4 DEF View, ReadIn
<1>6. /\ A.r.wait
      /\ A.e.state = "EXCLUSIVE" => A.ln[A.e.owner] = "INVALID" /\ A.f[A.e.owner] \cap Dirty = {}
  BY <1>2, <1>5, ReadFacts
<1>7. Sane(dir[b], reqs[b], inbox, b, Caches(b).ln, dram[b], F, JunkLine(b))
  BY DEF DataInv, DataSane
<1>8. ~Unsaved(dir[b], reqs[b], inbox, b, Caches(b).ln)
  <2>1. CASE dir[b].state = "EXCLUSIVE"
    <3>1. dir[b].owner \in Node
      BY <2>1, OwnerIsNode DEF Owned
    <3>2. Caches(b).ln[dir[b].owner] = "INVALID" /\ DirtyIn(q, dir[b].owner, b) = {}
      BY <1>2, <1>5, <1>6, <2>1, <3>1, CachesNow DEF DirtyIn
    <3> QED
      BY <2>1, <3>2 DEF Unsaved
  <2>2. CASE dir[b].state # "EXCLUSIVE"
    BY <1>2, <1>6, <2>2 DEF Unsaved
  <2> QED
    BY <2>1, <2>2
<1>9. dram[b] # "old" /\ (F \/ Saved(q, b, dram[b]))
  BY <1>7, <1>8 DEF Sane, Right, Safe
<1>10. ~In(q, Writes(b))
  <2>1. m \in Followers(b)
    BY DEF Followers, Kind
  <2>2. Before(q, Writes(b), Followers(b))
    BY <1>7 DEF Sane, Right, Mail, WriteOrder
  <2> HIDE DEF q
  <2>3. q # <<>> /\ m = Head(q)
    BY DEF q
  <2> QED
    BY <1>1, <2>1, <2>2, <2>3, PopBefore
<1> QED
  BY <1>1, <1>9, <1>10 DEF Saved, Good, Data

\* A read is answered with what the DRAM has.
LEMMA ReadData ==
  ASSUME IInv, DataInv, NEW n \in Node, DramReq(n), Head(inbox[n]).type = "DRAM_READ_REQ"
  PROVE  DataInv'
<1>m. PICK m0 : m0 = Head(inbox[n])
  OBVIOUS
<1>b. PICK b : b = m0.block
  OBVIOUS
<1>p. PICK box1 : box1 = Pop(inbox, n)
  OBVIOUS
<1>1. /\ Next_(n, {"DRAM_READ_REQ", "DRAM_WRITE_REQ"}) /\ line' = line
      /\ dir' = dir /\ reqs' = reqs /\ dram' = dram /\ forwarded' = forwarded /\ user' = user
      /\ inbox' = Answer(n, "DRAM_READ_REP", b, dram[b])
  BY <1>m, <1>b DEF DramReq, directory
<1>2. /\ b \in Block /\ m0 \in Message /\ NextIs(inbox, n, m0, b) /\ Popped(n) = box1 /\ box1 \in Boxes
      /\ inbox[n] # <<>> /\ m0.type = "DRAM_READ_REQ"
  BY <1>1, <1>m, <1>b, <1>p, NextFacts DEF NextIs
<1>3. n = Home
  BY <1>2, <1>m, DramAtHome DEF Replies, Grants, Snoops
<1>4. dram[b] \in Data /\ Good(dram[b], b \in forwarded)
  <2>1. m0 \in Kind(b, Reads)
    BY <1>2, <1>b DEF Kind, Reads
  <2> QED
    BY <1>2, <1>3, <1>m, <2>1, ReadsGood, InvFacts
<1>x. PICK m : m = ShmemMsg("DRAM_READ_REP", b, n, dram[b])
  OBVIOUS
<1>5. inbox' = Post(box1, {Home}, m)
  BY <1>1, <1>2, <1>x, AppendHome DEF Answer
<1>6. m \in Message /\ m.type = "DRAM_READ_REP" /\ m.block = b /\ m.data = dram[b]
  <2>1. "DRAM_READ_REP" \in MessageTypes
    BY DEF MessageTypes, Reads
  <2> QED
    BY <1>2, <1>4, <1>x, <2>1, MessageType
<1>7. ASSUME NEW x \in Block PROVE Mailed(inbox, Post(box1, {Home}, m), x, x \in forwarded)
  <2>1. m0 \notin Writes(x) /\ m0 \notin Kind(x, Dirty)
    BY <1>2 DEF Writes, Kind, Dirty
  <2>2. Mailed(inbox, box1, x, x \in forwarded)
    BY <1>2, <1>m, <1>p, <2>1, InvFacts, PopMailed
  <2>3. m \notin Tainted(x, x \in forwarded, {}) /\ m \notin Writes(x)
    BY <1>4, <1>6 DEF Tainted, Writes, Kind
  <2>4. Mailed(box1, Post(box1, {Home}, m), x, x \in forwarded)
    BY <1>2, <1>6, <2>3, PostMailed
  <2> QED
    BY <2>2, <2>4, MailedTwice
<1>8. Carried(line', inbox')
  <2>1. AllMailed(inbox')
    BY <1>5, <1>7 DEF AllMailed, Mailed
  <2>2. \A k \in Node, x \in Block : CarriedLine(line', inbox', k, x)
    BY <1>1, UsersWakeful, LineKept
  <2> QED
    BY <2>1, <2>2 DEF Carried
<1> QED
  BY <1>1, <1>8, CarriedData

\* The next message is a write to block b: what it leaves behind.
LEMMA WriteTaken ==
  ASSUME NEW box \in Boxes, box[Home] # <<>>, NEW m, m = Head(box[Home]), NEW b, m \in Writes(b), NEW F, NEW T,
         Mail(box, b, F, T),
         NEW box2, box2 = Pop(box, Home)
  PROVE  /\ Mail(box2, b, F, T) /\ m.data # "old" /\ ~In(box2[Home], Writes(b))
         /\ \A d : Saved(box[Home], b, d) => Saved(box2[Home], b, m.data)
         /\ \A n : DirtyIn(box[Home], n, b) \subseteq DirtyIn(box2[Home], n, b)
<1> DEFINE q == box[Home]
<1>1. Home \in Node /\ box \in [Node -> Seq(Message)] /\ \A n \in Node : box[n] \in Seq(Message)
  BY BoxesHold
<1>2. \A n \in Node : box2[n] = IF n = Home THEN Tail(box[n]) ELSE box[n]
  BY <1>1 DEF Pop
<1>3. q \in Seq(Message) /\ q # <<>> /\ m = Head(q) /\ box2[Home] = Tail(q)
  BY <1>1, <1>2
<1>4. ASSUME NEW n \in Node, NEW C PROVE In(box2[n], C) => In(box[n], C)
  BY <1>1, <1>2, PopIn
<1>5. Pure(box2, b, F, T)
  BY <1>4 DEF Mail, Pure
<1>6. One(q, Writes(b)) /\ Before(q, Writes(b), Followers(b)) /\ ~In(q, Tainted(b, F, T))
  BY <1>1 DEF Mail, WriteOrder, Pure
<1> HIDE DEF q
<1>7. One(Tail(q), Writes(b)) /\ Before(Tail(q), Writes(b), Followers(b))
  BY <1>3, <1>6, PopOne, PopBefore
<1>8. ~In(Tail(q), Writes(b))
  BY <1>3, <1>6, PopOne
<1>9. 1 \in 1..Len(q) /\ q[1] = m
  BY <1>3
<1>10. m.data # "old"
  <2>1. m \notin Tainted(b, F, T)
    BY <1>6, <1>9 DEF In, At
  <2> QED
    BY <2>1 DEF Tainted, Writes, Kind
<1>11. ASSUME NEW d, Saved(q, b, d) PROVE Saved(Tail(q), b, m.data)
  <2>1. m \notin Stale(b)
    BY <1>9, <1>11 DEF Saved, In, At
  <2>2. m.data = "new"
    BY <2>1 DEF Stale
  <2>3. ~In(Tail(q), Stale(b))
    BY <1>8 DEF In, At, Stale
  <2> QED
    BY <2>2, <2>3 DEF Saved
<1>12. ASSUME NEW n PROVE DirtyIn(q, n, b) \subseteq DirtyIn(Tail(q), n, b)
  <2>1. ASSUME NEW t \in Dirty PROVE m \notin KindOf(n, b, {t})
    BY <2>1 DEF KindOf, Writes, Kind, Dirty
  <2>2. ASSUME NEW t \in Dirty, In(q, KindOf(n, b, {t})) PROVE In(Tail(q), KindOf(n, b, {t}))
    BY <1>3, <2>1, <2>2, PopIn
  <2> QED
    BY <2>2 DEF DirtyIn, ReturnsIn
<1> QED
  BY <1>3, <1>5, <1>7, <1>8, <1>10, <1>11, <1>12 DEF Mail, WriteOrder, q

\* A write is done.
LEMMA WriteData ==
  ASSUME IInv, DataInv, NEW n \in Node, DramReq(n), Head(inbox[n]).type # "DRAM_READ_REQ"
  PROVE  DataInv'
<1>m. PICK m : m = Head(inbox[n])
  OBVIOUS
<1>b. PICK b : b = m.block
  OBVIOUS
<1>p. PICK box1 : box1 = Pop(inbox, n)
  OBVIOUS
<1>1. /\ Next_(n, {"DRAM_READ_REQ", "DRAM_WRITE_REQ"}) /\ line' = line
      /\ dir' = dir /\ reqs' = reqs /\ forwarded' = forwarded /\ user' = user
      /\ inbox' = Popped(n) /\ dram' = [dram EXCEPT ![b] = m.data]
  BY <1>m, <1>b DEF DramReq, directory
<1>2. /\ b \in Block /\ m \in Message /\ NextIs(inbox, n, m, b) /\ Popped(n) = box1 /\ box1 \in Boxes
      /\ inbox[n] # <<>> /\ m.type = "DRAM_WRITE_REQ"
  BY <1>1, <1>m, <1>b, <1>p, NextFacts DEF NextIs
<1>3. n = Home /\ m \in Writes(b)
  BY <1>2, <1>m, <1>b, DramAtHome DEF Replies, Grants, Snoops, Writes, Kind
<1>4. inbox \in Boxes /\ dram \in [Block -> Data]
  BY InvFacts
<1>5. ASSUME NEW x \in Block PROVE (DataSane(x))'
  <2> DEFINE F == (x \in forwarded)
             ln == Caches(x).ln
             J == JunkLine(x)
  <2>1. Sane(dir[x], reqs[x], inbox, x, ln, dram[x], F, J)
    BY DEF DataInv, DataSane
  <2>2. (Caches(x))'.ln = ln /\ (JunkLine(x))' = J
    BY <1>1 DEF Caches, JunkLine
  <2>3. CASE x # b
    <3>1. m \notin Writes(x) /\ m \notin Kind(x, Dirty)
      BY <1>2, <1>b, <2>3 DEF Writes, Kind
    <3>2. Mailed(inbox, box1, x, F)
      BY <1>2, <1>4, <1>m, <1>p, <3>1, PopMailed
    <3>3. Sane(dir[x], reqs[x], box1, x, ln, dram[x], F, J)
      BY <2>1, <3>2, SaneMoves DEF Mailed
    <3>4. dram'[x] = dram[x]
      BY <1>1, <1>4, <2>3
    <3> QED
      BY <1>1, <1>2, <2>2, <3>3, <3>4 DEF DataSane
  <2>4. CASE x = b
    <3>1. dram'[x] = m.data
      BY <1>1, <1>4, <2>4
    <3>t. PICK T : T = Allowed(dir[x], inbox[Home], x, dram[x])
      OBVIOUS
    <3>2. /\ Mail(inbox, x, F, T) /\ (J => F \/ Saved(inbox[Home], x, dram[x]))
          /\ Held(dir[x], reqs[x], F, {"SHARED"}) /\ Safe(dir[x], reqs[x], inbox, x, ln, dram[x], F)
      BY <2>1, <3>t DEF Sane, Right
    <3>3. /\ Mail(box1, x, F, T) /\ m.data # "old"
          /\ Saved(inbox[Home], x, dram[x]) => Saved(box1[Home], x, m.data)
          /\ DirtyIn(inbox[Home], dir[x].owner, x) \subseteq DirtyIn(box1[Home], dir[x].owner, x)
      BY <1>2, <1>3, <1>4, <1>m, <1>p, <2>4, <3>2, WriteTaken
    <3>4. Unsaved(dir[x], reqs[x], inbox, x, ln) => Unsaved(dir[x], reqs[x], box1, x, ln)
      BY <3>3 DEF Unsaved
    <3>5. Safe(dir[x], reqs[x], box1, x, ln, m.data, F)
      BY <3>2, <3>3, <3>4 DEF Safe
    <3>6. T \subseteq Allowed(dir[x], box1[Home], x, m.data)
      BY <3>t, <3>3 DEF Allowed
    <3>7. Mail(box1, x, F, Allowed(dir[x], box1[Home], x, m.data))
      BY <3>3, <3>6, MailMore
    <3>8. Sane(dir[x], reqs[x], box1, x, ln, m.data, F, J)
      BY <3>2, <3>3, <3>5, <3>7 DEF Sane, Right
    <3> QED
      BY <1>1, <1>2, <2>2, <3>1, <3>8 DEF DataSane
  <2> QED
    BY <2>3, <2>4
<1>6. ASSUME NEW x \in Block PROVE (LinesGood(x))'
  BY <1>1 DEF DataInv, LinesGood, GoodLine, WokenWriter
<1> QED
  BY <1>5, <1>6 DEF DataInv

-----------------------------------------------------------------------------
(* Stores                                                                  *)

\* When a line may be written, no data of its block is on its way.
LEMMA OwnedFacts ==
  ASSUME NEW A, Stable(A), NEW n \in Node, A.ln[n] \in Owned
  PROVE  /\ A.e.state \in Owned /\ A.e.owner = n /\ ~A.rd /\ ~A.r.wait
         /\ \A k \in Node : ~Granted(A, k) /\ A.f[k] \cap Dirty = {}
<1>1. EntryInv(A) /\ HeadInv(A) /\ A \in AbsT /\ \A k \in Node : CoreN(A, k)
  BY DEF Stable, CoreInv
<1>2. A.ln[n] # "INVALID"
  BY DEF Owned
<1>3. n \in A.e.sharers /\ ~Granted(A, n) /\ ~Dropped(A, n) /\ ~Pending(A, n) /\ A.e.state # "SHARED"
  BY <1>1, <1>2 DEF CoreN, Present, Known, Reachable
<1>4. A.e.state \in Owned /\ A.e.sharers = {n} /\ A.e.owner = n
  <2>1. A.e.state \in {"UNCACHED", "SHARED", "EXCLUSIVE", "MODIFIED"}
    BY <1>1 DEF AbsT, EntryT
  <2>2. A.e.state \in Owned
    BY <1>1, <1>3, <2>1 DEF EntryInv, Owned
  <2> QED
    BY <1>1, <1>3, <2>2 DEF EntryInv
<1>5. ASSUME A.rd PROVE FALSE
  <2>1. ~Idles(A) /\ A.r.wait
    BY <1>5 DEF Stable, Quiet, Waiting, AwaitInv
  <2>2. A.r.type \in Requests /\ A.r.node \in Node
    BY <1>1, <2>1 DEF HeadInv
  <2>3. Pending(A, A.r.node)
    BY <2>1, <2>2 DEF Pending
  <2>4. A.r.node \in A.e.sharers
    BY <1>1, <2>2, <2>3 DEF CoreN, Present
  <2> QED
    BY <1>3, <1>4, <2>3, <2>4
<1>6. ~A.r.wait
  <2>1. CASE Idles(A)
    BY <1>1, <2>1 DEF HeadInv, Idles, Requests
  <2>2. CASE ~Idles(A)
    BY <1>5, <2>2 DEF Stable, Waiting, AwaitInv
  <2> QED
    BY <2>1, <2>2
<1>7. ASSUME NEW k \in Node PROVE ~Granted(A, k) /\ A.f[k] \cap Dirty = {}
  <2>1. Granted(A, k) \/ Dropped(A, k) => k \in A.e.sharers
    BY <1>1 DEF CoreN, Present, Reachable
  <2>2. ~Granted(A, k) /\ ~Dropped(A, k)
    BY <1>3, <1>4, <2>1
  <2>3. "WB_REP" \notin A.f[k]
    <3>1. CASE Idles(A)
      BY <3>1 DEF Stable, Quiet, QuietN
    <3>2. CASE ~Idles(A)
      <4>1. WaitingN(A, k)
        BY <3>2 DEF Stable, Waiting
      <4> QED
        BY <1>4, <4>1 DEF WaitingN
    <3> QED
      BY <3>1, <3>2
  <2> QED
    BY <2>2, <2>3 DEF Dropped, Dirty
<1> QED
  BY <1>4, <1>5, <1>6, <1>7

\* The same for the inboxes.
LEMMA NoBearers ==
  ASSUME IInv, NEW n \in Node, NEW b \in Block, line[n][b].state \in Owned
  PROVE  /\ dir[b].state \in Owned /\ dir[b].owner = n /\ ~HeadOf(reqs[b]).wait
         /\ \A k \in Node : ~In(inbox[k], Kind(b, Bearers))
<1>1. PICK A : /\ A = View(dir[b], reqs[b], inbox, b, Caches(b)) /\ Stable(A) /\ A.e = dir[b] /\ A.r = HeadOf(reqs[b])
               /\ \A k \in Node : A.ln[k] = line[k][b].state
  BY Views
<1>2. /\ A.e.state \in Owned /\ A.e.owner = n /\ ~A.rd /\ ~A.r.wait
      /\ \A k \in Node : ~Granted(A, k) /\ A.f[k] \cap Dirty = {}
  BY <1>1, OwnedFacts
<1>3. /\ \A k \in Node : A.s[k] = RepliesIn(inbox[k], b) /\ A.f[k] = ReturnsIn(inbox[Home], k, b)
      /\ A.rd = ReadIn(inbox[Home], b)
  BY <1>1 DEF View
<1>4. inbox \in Boxes
  BY InvFacts
<1>5. ASSUME NEW k \in Node, NEW i \in At(inbox[k], Kind(b, Bearers)) PROVE FALSE
  <2>m. PICK m : m = inbox[k][i]
    OBVIOUS
  <2>1. i \in 1..Len(inbox[k]) /\ m \in Kind(b, Bearers) /\ inbox[k][i] = m
    BY <1>5, <2>m DEF At
  <2>2. m \in Message /\ m.block = b /\ m.type \in Bearers /\ m.from \in Node
    BY <2>1 DEF Kind, Message
  <2>3. ASSUME m.type \in Grants PROVE FALSE
    <3>1. m \in Kind(b, {m.type})
      BY <2>2 DEF Kind
    <3>2. m.type \in RepliesIn(inbox[k], b)
      BY <2>1, <2>3, <3>1 DEF RepliesIn, In, At, Replies
    <3> QED
      BY <1>2, <1>3, <2>3, <3>2 DEF Granted, Grants
  <2>4. ASSUME m.type \notin Grants PROVE FALSE
    <3>1. m.type \in Dirty \cup Reads /\ m.type \notin Replies \cup Snoops
      BY <2>2, <2>4 DEF Bearers, Grants, Dirty, Reads, Replies, Snoops
    <3>2. k = Home
      <4>1. SUFFICES ASSUME k # Home PROVE FALSE
        OBVIOUS
      <4>2. inbox[k] \in Seq(ToCache)
        BY <1>4, <4>1 DEF Boxes
      <4>3. inbox[k][i] \in ToCache
        BY <2>1, <4>2
      <4> QED
        BY <2>1, <3>1, <4>3 DEF ToCache
    <3>3. CASE m.type \in Reads
      <4>1. m \in Kind(b, Reads)
        BY <2>2, <3>3 DEF Kind
      <4> QED
        BY <1>2, <1>3, <2>1, <3>2, <4>1 DEF ReadIn, In, At
    <3>4. CASE m.type \in Dirty
      <4>1. m \in KindOf(m.from, b, {m.type}) /\ m.type \in Returns
        BY <2>2, <3>4 DEF KindOf, Dirty, Returns, Drops
      <4>2. m.type \in ReturnsIn(inbox[Home], m.from, b)
        BY <2>1, <3>2, <4>1 DEF ReturnsIn, In, At
      <4> QED
        BY <1>2, <1>3, <2>2, <3>4, <4>2
    <3> QED
      BY <3>1, <3>3, <3>4
  <2> QED
    BY <2>3, <2>4
<1> QED
  BY <1>1, <1>2, <1>5 DEF In

\* The messages after a store.
LEMMA StoredMessages ==
  ASSUME IInv, NEW n \in Node, NEW b \in Block, Store(n, b), NEW k \in Node
  PROVE  /\ Alike(inbox[k], inbox'[k])
         /\ \A i \in 1..Len(inbox[k]) : /\ inbox[k][i] \in Message /\ inbox'[k][i] \in Message
                                        /\ inbox'[k][i] = IF inbox[k][i].block = b THEN AgedMsg(inbox[k][i]) ELSE inbox[k][i]
<1>1. inbox \in Boxes /\ inbox[k] \in Seq(Message)
  BY InvFacts, BoxesHold
<1>2. Alike(inbox[k], inbox'[k])
  BY <1>1, StoreBoxes DEF StoredBoxes
<1>3. inbox' = [m \in Node |-> [i \in DOMAIN inbox[m] |->
                  IF inbox[m][i].block = b THEN AgedMsg(inbox[m][i]) ELSE inbox[m][i]]]
  BY DEF Store
<1>q. PICK q \in Seq(Message) : q = inbox[k]
  BY <1>1
<1>4. inbox'[k] = [i \in 1..Len(q) |-> IF q[i].block = b THEN AgedMsg(q[i]) ELSE q[i]]
  BY <1>3, <1>q
<1>5. ASSUME NEW i \in 1..Len(q)
      PROVE  /\ q[i] \in Message /\ inbox'[k][i] \in Message
             /\ inbox'[k][i] = IF q[i].block = b THEN AgedMsg(q[i]) ELSE q[i]
  <2>1. q[i] \in Message /\ inbox'[k][i] = IF q[i].block = b THEN AgedMsg(q[i]) ELSE q[i]
    BY <1>4
  <2> QED
    BY <2>1, AgedMessage
<1> QED
  BY <1>2, <1>5, <1>q

\* Those about other blocks.
LEMMA StoreOthers ==
  ASSUME IInv, NEW n \in Node, NEW b \in Block, Store(n, b), NEW x \in Block, x # b, NEW F
  PROVE  Mailed(inbox, inbox', x, F)
<1>1. ASSUME NEW k \in Node, NEW C, \A m \in C : m.block = x PROVE At(inbox'[k], C) = At(inbox[k], C)
  <2>1. /\ Alike(inbox[k], inbox'[k])
        /\ \A i \in 1..Len(inbox[k]) : /\ inbox[k][i] \in Message
                                       /\ inbox'[k][i] = IF inbox[k][i].block = b THEN AgedMsg(inbox[k][i]) ELSE inbox[k][i]
    BY StoredMessages
  <2>2. Len(inbox'[k]) = Len(inbox[k])
    BY <2>1 DEF Alike
  <2>3. ASSUME NEW i \in 1..Len(inbox[k]) PROVE inbox'[k][i] \in C <=> inbox[k][i] \in C
    <3>1. inbox[k][i] \in Message /\ inbox'[k][i] = IF inbox[k][i].block = b THEN AgedMsg(inbox[k][i]) ELSE inbox[k][i]
      BY <2>1
    <3>2. CASE inbox[k][i].block = b
      <4>1. inbox'[k][i].block = b
        BY <3>1, <3>2, AgedMessage
      <4> QED
        BY <1>1, <3>2, <4>1
    <3>3. CASE inbox[k][i].block # b
      BY <3>1, <3>3
    <3> QED
      BY <3>2, <3>3
  <2> QED
    BY <2>2, <2>3 DEF At
<1>2. Home \in Node
  BY DirectoryAssumption
<1>3. /\ \A T : \A m \in Tainted(x, F, T) : m.block = x
      /\ \A m \in Writes(x) : m.block = x
      /\ \A m \in Stale(x) : m.block = x
      /\ \A m \in Followers(x) : m.block = x
      /\ \A k, t : \A m \in KindOf(k, x, {t}) : m.block = x
  BY DEF Tainted, Writes, Stale, Followers, Kind, KindOf
<1>4. /\ \A T : \A k \in Node : At(inbox'[k], Tainted(x, F, T)) = At(inbox[k], Tainted(x, F, T))
      /\ At(inbox'[Home], Writes(x)) = At(inbox[Home], Writes(x))
      /\ At(inbox'[Home], Stale(x)) = At(inbox[Home], Stale(x))
      /\ At(inbox'[Home], Followers(x)) = At(inbox[Home], Followers(x))
      /\ \A k, t : At(inbox'[Home], KindOf(k, x, {t})) = At(inbox[Home], KindOf(k, x, {t}))
  BY <1>1, <1>2, <1>3
<1>5. \A T : Mail(inbox, x, F, T) => Mail(inbox', x, F, T)
  BY <1>4 DEF Mail, Pure, WriteOrder, One, Before, In
<1>6. \A d : Saved(inbox[Home], x, d) => Saved(inbox'[Home], x, d)
  BY <1>4 DEF Saved, In
<1>7. \A k : DirtyIn(inbox[Home], k, x) \subseteq DirtyIn(inbox'[Home], k, x)
  BY <1>4 DEF DirtyIn, ReturnsIn, In
<1> QED
  BY <1>5, <1>6, <1>7 DEF Mailed, Moved

\* Those about the block that is written.
LEMMA StoreMail ==
  ASSUME IInv, NEW n \in Node, NEW b \in Block, Store(n, b), \A k \in Node : ~In(inbox[k], Kind(b, Bearers)),
         NEW F, NEW U, Mail(inbox, b, F, U)
  PROVE  Mail(inbox', b, FALSE, {})
<1>1. ASSUME NEW k \in Node, NEW i \in At(inbox'[k], Tainted(b, FALSE, {})) PROVE FALSE
  <2>1. /\ Alike(inbox[k], inbox'[k])
        /\ \A j \in 1..Len(inbox[k]) : /\ inbox[k][j] \in Message /\ inbox'[k][j] \in Message
                                       /\ inbox'[k][j] = IF inbox[k][j].block = b THEN AgedMsg(inbox[k][j]) ELSE inbox[k][j]
    BY StoredMessages
  <2>2. i \in 1..Len(inbox[k]) /\ inbox'[k][i] \in Tainted(b, FALSE, {})
    BY <1>1, <2>1 DEF At, Alike
  <2>m. PICK m \in Message : m = inbox[k][i]
    BY <2>1, <2>2
  <2>3. m.block = b /\ inbox'[k][i] = AgedMsg(m) /\ AgedMsg(m).type = m.type
    BY <2>1, <2>2, <2>m, AgedMessage DEF Tainted
  <2>4. CASE m.type \in Bearers
    <3>1. m \in Kind(b, Bearers)
      BY <2>3, <2>4 DEF Kind
    <3> QED
      BY <2>2, <2>m, <3>1 DEF In, At
  <2>5. CASE m.type \notin Bearers
    <3>1. m.type = "DRAM_WRITE_REQ" /\ AgedMsg(m).data = "old"
      BY <2>2, <2>3, <2>5 DEF Tainted
    <3>2. m.data = "old"
      BY <3>1 DEF AgedMsg, Aged, Message
    <3>3. m \in Tainted(b, F, U)
      BY <2>3, <3>1, <3>2 DEF Tainted
    <3> QED
      BY <2>2, <2>m, <3>3 DEF Mail, Pure, In, At
  <2> QED
    BY <2>4, <2>5
<1>2. ASSUME NEW T PROVE At(inbox'[Home], Kind(b, T)) = At(inbox[Home], Kind(b, T))
  <2>1. Home \in Node
    BY DirectoryAssumption
  <2>2. /\ Alike(inbox[Home], inbox'[Home])
        /\ \A j \in 1..Len(inbox[Home]) : inbox[Home][j] \in Message /\ inbox'[Home][j] \in Message
    BY <2>1, StoredMessages
  <2> QED
    BY <2>2 DEF At, Kind, Alike
<1>3. WriteOrder(inbox[Home], b)
  BY DEF Mail
<1>4. WriteOrder(inbox'[Home], b)
  BY <1>2, <1>3 DEF WriteOrder, One, Before, Writes, Followers
<1> QED
  BY <1>1, <1>4 DEF Mail, Pure, In

\* Lines after a store: that of the writer has the new data, those of other blocks stay.
LEMMA StoreWrites ==
  ASSUME IInv, NEW n \in Node, NEW b \in Block, Store(n, b), NEW k \in Node, NEW x \in Block
  PROVE  /\ x # b => line'[k][x] = line[k][x]
         /\ k = n => line'[k][b] = Line("MODIFIED", "new")
         /\ k # n => line'[k][b] = AgedCopy(line[k][b])
<1>1. line \in [Node -> [Block -> LineT]]
  BY InvFacts DEF CacheT
<1>2. line' = [m \in Node |-> [line[m] EXCEPT ![b] = IF m = n THEN Line("MODIFIED", "new") ELSE AgedCopy(line[m][b])]]
  BY DEF Store
<1>3. line'[k] = [line[k] EXCEPT ![b] = IF k = n THEN Line("MODIFIED", "new") ELSE AgedCopy(line[k][b])]
  BY <1>2
<1>4. line[k] \in [Block -> LineT]
  BY <1>1
<1> QED
  BY <1>3, <1>4

\* Requests after a store keep their order, and no data is put with them.
LEMMA StoreHeld ==
  ASSUME IInv, NEW n \in Node, NEW b \in Block, Store(n, b), reqs[b] = <<>> \/ Head(reqs[b]).data = "none"
  PROVE  HeadOf(reqs'[b]) = HeadOf(reqs[b]) /\ (reqs'[b] = <<>> \/ Head(reqs'[b]).data = "none")
<1>1. reqs \in [Block -> Seq(Req)]
  BY InvFacts
<1>q. PICK q \in Seq(Req) : q = reqs[b]
  BY <1>1
<1>p. PICK q2 : q2 = reqs'[b]
  OBVIOUS
<1>2. AlikeRequests(q, q2)
  BY <1>1, <1>q, <1>p, StoreReqs DEF StoredReqs
<1>3. SoundT(dir[b], q, inbox, b, Caches(b))
  BY <1>q, BlockSound
<1>4. HeadOf(q2) = HeadOf(q) /\ (q2 = <<>> <=> q = <<>>)
  BY <1>2, <1>3, AlikeQueues DEF AlikeRequests
<1>5. q # <<>> => Head(q) = q[1] /\ 1 \in 1..Len(q)
  OBVIOUS
<1>6. q2 # <<>> => Head(q2) = q2[1]
  BY <1>2 DEF AlikeRequests
<1>7. q # <<>> => Head(q2).data = "none"
  BY <1>2, <1>4, <1>5, <1>6, <1>q DEF AlikeRequests
<1> QED
  BY <1>4, <1>7, <1>q, <1>p

\* A store: the data of the other copies gets old, but nobody may read them.
LEMMA StoreData ==
  ASSUME IInv, DataInv, NEW n \in Node, NEW b \in Block, line[n][b].state \in Owned, Store(n, b), dir' = dir,
         \A k \in Node, x \in Block : x # b /\ WokenWriter(k, x) => (WokenWriter(k, x))'
  PROVE  DataInv'
<1>1. /\ dir[b].state \in Owned /\ dir[b].owner = n /\ ~HeadOf(reqs[b]).wait
      /\ \A k \in Node : ~In(inbox[k], Kind(b, Bearers))
  BY NoBearers
<1>2. /\ dram' = [dram EXCEPT ![b] = IF dram[b] \in {"old", "junk"} THEN dram[b] ELSE "mem"]
      /\ forwarded' = forwarded \ {b}
  BY DEF Store
<1>3. dram \in [Block -> Data] /\ reqs \in [Block -> Seq(Req)] /\ CacheT
  BY InvFacts
<1>4. StoredReqs(b) /\ StoredLines(n, b)
  BY <1>3, StoreReqs, StoreLines
<1>5. ASSUME NEW x \in Block, x # b PROVE (DataSane(x))' /\ (LinesGood(x))'
  <2>1. DataSane(x) /\ LinesGood(x)
    BY DEF DataInv
  <2>2. Sane(dir[x], reqs[x], inbox, x, Caches(x).ln, dram[x], x \in forwarded, JunkLine(x))
    BY <2>1 DEF DataSane
  <2>3. Mailed(inbox, inbox', x, x \in forwarded)
    BY <1>5, StoreOthers
  <2>4. /\ dir'[x] = dir[x] /\ reqs'[x] = reqs[x] /\ dram'[x] = dram[x]
        /\ (x \in forwarded') = (x \in forwarded)
    BY <1>2, <1>3, <1>4, <1>5 DEF StoredReqs
  <2>5. dir[x].state = "EXCLUSIVE" /\ Caches(x).ln[dir[x].owner] = "MODIFIED" =>
          (Caches(x))'.ln[dir[x].owner] = "MODIFIED"
    <3>1. SUFFICES ASSUME dir[x].state = "EXCLUSIVE", Caches(x).ln[dir[x].owner] = "MODIFIED"
                   PROVE  (Caches(x))'.ln[dir[x].owner] = "MODIFIED"
      OBVIOUS
    <3>2. dir[x].owner \in Node
      BY <3>1, OwnerIsNode DEF Owned
    <3>3. line'[dir[x].owner][x].state = line[dir[x].owner][x].state
      BY <1>4, <1>5, <3>2 DEF StoredLines
    <3> QED
      BY <3>1, <3>2, <3>3, CachesNow, CachesThen
  <2>6. (JunkLine(x))' => JunkLine(x)
    BY <1>5, StoreWrites DEF JunkLine
  <2>7. Sane(dir[x], reqs[x], inbox', x, (Caches(x))'.ln, dram[x], x \in forwarded, (JunkLine(x))')
    BY <2>2, <2>3, <2>5, <2>6, SaneMoves DEF Mailed
  <2>8. (DataSane(x))'
    BY <2>4, <2>7 DEF DataSane
  <2>9. ASSUME NEW k \in Node PROVE (GoodLine(k, x))'
    <3>1. GoodLine(k, x)
      BY <2>1 DEF LinesGood
    <3>2. line'[k][x] = line[k][x]
      BY <1>5, StoreWrites
    <3>3. WokenWriter(k, x) => (WokenWriter(k, x))'
      BY <1>5
    <3> QED
      BY <2>4, <3>1, <3>2, <3>3 DEF GoodLine
  <2> QED
    BY <2>8, <2>9 DEF LinesGood
<1>6. ASSUME NEW k \in Node PROVE line'[k][b].data \in {"new", "none"}
  <2>1. CASE k = n
    BY <2>1, StoreWrites DEF Line
  <2>2. CASE k # n
    <3>1. line[k][b].state = "INVALID" /\ line[k][b] \in LineT
      BY <1>3, <2>2, OneWriter DEF SingleWriter, Owned, CacheT
    <3>2. line[k][b].data = "none"
      BY <3>1 DEF LineT
    <3>3. line'[k][b] = AgedCopy(line[k][b])
      BY <2>2, StoreWrites
    <3>4. line'[k][b].data = "none"
      BY <3>1, <3>2, <3>3 DEF AgedCopy, Aged, LineT
    <3> QED
      BY <3>4
  <2> QED
    BY <2>1, <2>2
<1>7. (DataSane(b))'
  <2>1. DataSane(b)
    BY DEF DataInv
  <2>2. /\ Mail(inbox, b, b \in forwarded, Junky(b)) /\ dram[b] # "old"
        /\ Held(dir[b], reqs[b], b \in forwarded, {"SHARED"})
    BY <2>1 DEF DataSane, Sane, Right, Junky
  <2>3. Mail(inbox', b, FALSE, Allowed(dir[b], inbox'[Home], b, dram'[b]))
    <3>1. Mail(inbox', b, FALSE, {})
      BY <1>1, <2>2, StoreMail
    <3>t. PICK T : T = Allowed(dir[b], inbox'[Home], b, dram'[b])
      OBVIOUS
    <3>2. {} \subseteq T
      OBVIOUS
    <3>3. Mail(inbox', b, FALSE, T)
      BY <3>1, <3>2, MailMore
    <3> QED
      BY <3>t, <3>3
  <2>4. dram'[b] # "old" /\ b \notin forwarded'
    BY <1>2, <1>3, <2>2
  <2>5. reqs[b] = <<>> \/ Head(reqs[b]).data = "none"
    BY <1>1, <2>2 DEF Held, Owned
  <2>6. HeadOf(reqs'[b]) = HeadOf(reqs[b]) /\ (reqs'[b] = <<>> \/ Head(reqs'[b]).data = "none")
    BY <2>5, StoreHeld
  <2>7. Held(dir[b], reqs'[b], FALSE, {"SHARED"})
    BY <2>6 DEF Held
  <2>8. (Caches(b))'.ln[n] = "MODIFIED"
    BY <1>4, CachesThen DEF StoredLines
  <2>9. Unsaved(dir[b], reqs'[b], inbox', b, (Caches(b))'.ln)
    BY <1>1, <2>6, <2>8 DEF Unsaved, Owned
  <2>10. Sane(dir[b], reqs'[b], inbox', b, (Caches(b))'.ln, dram'[b], FALSE, (JunkLine(b))')
    BY <1>6, <2>3, <2>4, <2>7, <2>9 DEF Sane, Right, Safe, JunkLine
  <2>11. (b \in forwarded') = FALSE
    BY <2>4
  <2> QED
    BY <2>10, <2>11 DEF DataSane
<1> QED
  BY <1>5, <1>7, <1>6 DEF DataInv, LinesGood, GoodLine, Good

\* A thread writes a line that it may write.
LEMMA WriteHitData ==
  ASSUME IInv, DataInv, NEW c \in Core, NEW b \in Block, WriteHit(c, b)
  PROVE  DataInv'
<1>n. PICK n : n = NodeOf[c]
  OBVIOUS
<1>1. Permissible(line[n][b].state, TRUE) /\ Store(n, b) /\ dir' = dir /\ user' = user
  BY <1>n DEF WriteHit
<1>2. n \in Node
  BY <1>n, CoreAssumption
<1>3. line[n][b].state \in Owned
  BY <1>1 DEF Permissible, Owned
<1> QED
  BY <1>1, <1>2, <1>3, UsersWakeful, StoreData DEF Wakeful

\* Nothing that holds data changes.
LEMMA SameData ==
  ASSUME IInv, DataInv, Wakeful, line' = line, inbox' = inbox, dir' = dir, reqs' = reqs, dram' = dram, forwarded' = forwarded
  PROVE  DataInv'
<1>1. ASSUME NEW k \in Node, NEW x \in Block PROVE CarriedLine(line', inbox', k, x)
  BY LineKept
<1>2. AllMailed(inbox')
  BY NoneMailed
<1>3. Carried(line', inbox')
  BY <1>1, <1>2 DEF Carried
<1> QED
  BY <1>3, CarriedData

\* A woken thread makes its access.
LEMMA FillData ==
  ASSUME IInv, DataInv, NEW c \in Core, Fill(c)
  PROVE  DataInv'
<1>n. PICK n : n = NodeOf[c]
  OBVIOUS
<1>b. PICK b : b = user[c].block
  OBVIOUS
<1>1. user[c].pc = "woken" /\ dir' = dir
  BY DEF Fill
<1>2. \/ user[c].excl /\ Store(n, b)
      \/ ~user[c].excl /\ UNCHANGED <<line, inbox, reqs, dram, forwarded>>
  BY <1>n, <1>b DEF Fill
<1>3. Users /\ n \in Node
  BY <1>n, InvFacts, CoreAssumption
<1>4. b \in Block /\ Permissible(line[n][b].state, user[c].excl)
  <2>1. WokenOK(c)
    BY <1>3 DEF Users
  <2> QED
    BY <1>1, <1>n, <1>b, <2>1 DEF WokenOK
<1>5. \A d \in Core : d # c => user'[d] = user[d]
  BY InvFacts DEF Fill, CacheT
<1>6. CASE user[c].excl /\ Store(n, b)
  <2>1. line[n][b].state \in Owned
    BY <1>4, <1>6 DEF Permissible, Owned
  <2>2. \A k \in Node, x \in Block : x # b /\ WokenWriter(k, x) => (WokenWriter(k, x))'
    BY <1>5, <1>b DEF WokenWriter
  <2> QED
    BY <1>1, <1>3, <1>4, <1>6, <2>1, <2>2, StoreData
<1>7. CASE ~user[c].excl /\ UNCHANGED <<line, inbox, reqs, dram, forwarded>>
  <2>1. Wakeful
    BY <1>7, <1>5 DEF Wakeful, WokenWriter
  <2> QED
    BY <1>1, <1>7, <2>1, SameData
<1> QED
  BY <1>2, <1>6, <1>7

\* At first the DRAM has the data of every block, and there is no other copy.
LEMMA InitialData ==
  ASSUME Init
  PROVE  DataInv
<1>1. /\ line = [n \in Node |-> [b \in Block |-> Invalid]] /\ inbox = [n \in Node |-> <<>>]
      /\ reqs = [b \in Block |-> <<>>] /\ dram = [b \in Block |-> "new"] /\ Home \in Node
  BY DirectoryAssumption DEF Init
<1>2. \A C : ~In(<<>>, C) /\ One(<<>>, C) /\ \A E : Before(<<>>, C, E)
  BY DEF In, One, Before, At
<1>3. ASSUME NEW x \in Block PROVE DataSane(x)
  <2>1. reqs[x] = <<>> /\ dram[x] = "new" /\ inbox[Home] = <<>> /\ \A n \in Node : inbox[n] = <<>>
    BY <1>1
  <2>2. Mail(inbox, x, x \in forwarded, Junky(x))
    BY <1>2, <2>1 DEF Mail, Pure, WriteOrder
  <2>3. Held(dir[x], reqs[x], x \in forwarded, {"SHARED"})
    BY <2>1 DEF Held
  <2>4. Saved(inbox[Home], x, dram[x])
    BY <1>2, <2>1 DEF Saved
  <2> QED
    BY <2>1, <2>2, <2>3, <2>4 DEF DataSane, Sane, Right, Safe, Junky
<1>4. ASSUME NEW x \in Block PROVE LinesGood(x)
  BY <1>1 DEF LinesGood, GoodLine, Invalid, Line
<1> QED
  BY <1>3, <1>4 DEF DataInv

\* Every step of a network thread.
LEMMA NetworkData ==
  ASSUME IInv, DataInv, NEW n \in Node, NetworkThread(n)
  PROVE  DataInv'
BY DataRepData, UpgradeRepData, NextWaiterData, InvalidateReqData, WbReqData, DirectoryReqData, InvRepData,
   FlushRepData, WbRepData, DramReadRepData, ReadData, WriteData DEF NetworkThread

\* The data of every block is where it is looked for, in every reachable state.
THEOREM DataInvariance == Spec => []DataInv
<1>1. Init => DataInv
  BY InitialData
<1>2. IInv /\ DataInv /\ [Next]_vars => DataInv'
  <2>1. ASSUME IInv, DataInv, Next
        PROVE  DataInv'
    <3>1. ASSUME NEW c \in Core, Access(c) PROVE DataInv'
      BY <2>1, <3>1, WriteHitData, MissData DEF Access
    <3> QED
      BY <2>1, <3>1, NetworkData, OtherBlockRepData, FillData DEF Next
  <2>2. ASSUME IInv, DataInv, UNCHANGED vars
        PROVE  DataInv'
    BY <2>2, UsersWakeful, SameData DEF vars
  <2> QED
    BY <2>1, <2>2
<1>3. Spec => []IInv
  BY Invariance
<1> QED
  BY <1>1, <1>2, <1>3, PTL DEF Spec

-----------------------------------------------------------------------------
(* What follows for the data.                                              *)

\* A line that can be read holds what it should.
LEMMA CopiesAreGood ==
  ASSUME IInv, DataInv
  PROVE  NoStaleCopy
<1> SUFFICES ASSUME NEW b \in Block, NEW n \in Node, Readable(line[n][b].state)
             PROVE  \/ line[n][b].data = "new"
                    \/ line[n][b].data \in {"mem", "junk"} /\ b \in forwarded
                    \/ line[n][b].data = "junk" /\ WokenWriter(n, b)
  BY DEF NoStaleCopy, WokenWriter
<1>1. line[n][b] \in LineT
  BY InvFacts DEF CacheT
<1>2. line[n][b].data # "none"
  BY <1>1 DEF LineT, Readable
<1>3. GoodLine(n, b)
  BY DEF DataInv, LinesGood
<1> QED
  BY <1>2, <1>3 DEF GoodLine, Good

\* A message that is to be read has the data of the last store.
LEMMA BearerFound ==
  ASSUME inbox \in Boxes, NEW b \in Block, NEW k \in Node, Mail(inbox, b, FALSE, {}), NEW T \in SUBSET Bearers,
         In(inbox[k], Kind(b, T))
  PROVE  LastWriteExists(b)
<1>1. PICK i \in 1..Len(inbox[k]) : inbox[k][i] \in Kind(b, T)
  BY DEF In, At
<1>2. inbox[k] \in Seq(Message)
  BY DEF Boxes
<1>m. PICK m : m = inbox[k][i]
  OBVIOUS
<1>3. i \in DOMAIN inbox[k] /\ m \in Message /\ m.block = b /\ m.type \in Bearers
  BY <1>1, <1>2, <1>m DEF Kind
<1>4. m \notin Tainted(b, FALSE, {})
  BY <1>1, <1>m DEF Mail, Pure, In, At
<1>5. m.data = "new"
  BY <1>3, <1>4 DEF Tainted, Good
<1> QED
  BY <1>3, <1>5, <1>m DEF LastWriteExists

\* So has one that comes from a dirty line.
LEMMA DirtyFound ==
  ASSUME inbox \in Boxes, NEW b \in Block, Mail(inbox, b, FALSE, {}), NEW n, DirtyIn(inbox[Home], n, b) # {}
  PROVE  LastWriteExists(b)
<1>1. PICK t \in Dirty : In(inbox[Home], KindOf(n, b, {t}))
  BY DEF DirtyIn, ReturnsIn
<1>2. In(inbox[Home], Kind(b, {t}))
  BY <1>1 DEF In, At, Kind, KindOf
<1>3. {t} \in SUBSET Bearers /\ Home \in Node
  BY DirectoryAssumption DEF Dirty, Bearers
<1> QED
  BY <1>2, <1>3, BearerFound

\* The DRAM has the data of the last store, or is about to get it.
LEMMA SavedFound ==
  ASSUME inbox \in Boxes, NEW b \in Block, Saved(inbox[Home], b, dram[b])
  PROVE  LastWriteExists(b)
<1>1. CASE dram[b] = "new"
  BY <1>1 DEF LastWriteExists
<1>2. CASE In(inbox[Home], Writes(b))
  <2>1. PICK i \in 1..Len(inbox[Home]) : inbox[Home][i] \in Writes(b)
    BY <1>2 DEF In, At
  <2>2. inbox[Home][i] \notin Stale(b)
    BY <2>1 DEF Saved, In, At
  <2>3. inbox[Home][i].data = "new" /\ inbox[Home][i].block = b
    BY <2>1, <2>2 DEF Stale, Writes, Kind
  <2>4. Home \in Node /\ inbox[Home] \in Seq(Message)
    BY BoxesHold
  <2>5. i \in DOMAIN inbox[Home]
    BY <2>1, <2>4
  <2> QED
    BY <2>3, <2>4, <2>5 DEF LastWriteExists
<1> QED
  BY <1>1, <1>2 DEF Saved

\* A valid line of a block that has not been forwarded has the data of the last store,
\* or the DRAM has.
LEMMA LineFound ==
  ASSUME IInv, DataInv, NEW b \in Block, b \notin forwarded, NEW n \in Node, line[n][b].state # "INVALID"
  PROVE  LastWriteExists(b)
<1>1. line[n][b] \in LineT
  BY InvFacts DEF CacheT
<1>2. line[n][b].data # "none"
  BY <1>1 DEF LineT
<1>3. GoodLine(n, b)
  BY DEF DataInv, LinesGood
<1>4. line[n][b].data \in {"new", "junk"}
  BY <1>2, <1>3 DEF GoodLine, Good
<1>5. ASSUME line[n][b].data = "junk" PROVE Saved(inbox[Home], b, dram[b])
  <2>1. JunkLine(b) /\ DataSane(b)
    BY <1>5 DEF JunkLine, DataInv
  <2> QED
    BY <2>1 DEF DataSane, Sane, Right
<1> QED
  BY <1>4, <1>5, InvFacts, SavedFound DEF LastWriteExists

\* Where the owner's copy of a modified block is.
LEMMA ModifiedCopy ==
  ASSUME NEW A, Stable(A), A.e.state = "MODIFIED", ~A.r.wait
  PROVE  /\ A.e.owner \in Node
         /\ A.ln[A.e.owner] # "INVALID" \/ Granted(A, A.e.owner) \/ A.f[A.e.owner] \cap Dirty # {}
<1>n. PICK n : n = A.e.owner
  OBVIOUS
<1>1. EntryInv(A) /\ HeadInv(A) /\ A.e \in EntryT /\ \A k \in Node : CoreN(A, k)
  BY DEF Stable, CoreInv, AbsT
<1>2. A.e.sharers = {n} /\ n \in Node
  BY <1>1, <1>n DEF EntryInv, Owned, EntryT
<1>3. Present(A, n) /\ Known(A, n)
  BY <1>1, <1>2 DEF CoreN
<1>4. Reachable(A, n) \/ Dropped(A, n) \/ Pending(A, n)
  BY <1>2, <1>3 DEF Present
<1>5. ~Pending(A, n)
  <2>1. SUFFICES ASSUME Pending(A, n) PROVE FALSE
    OBVIOUS
  <2>2. A.r.type \in Requests /\ A.r.forwardingFrom # NoNode
    BY <2>1 DEF Pending
  <2>3. A.r.type = "SH_REQ" /\ ~Idles(A)
    BY <1>1, <2>2 DEF HeadInv, Idles
  <2>4. AwaitInv(A)
    BY <2>3 DEF Stable, Waiting
  <2> QED
    BY <2>2, <2>3, <2>4 DEF AwaitInv
<1>6. Dropped(A, n) => A.f[n] \cap Dirty # {}
  BY <1>3 DEF Known, Dropped, Dirty
<1> QED
  BY <1>2, <1>4, <1>5, <1>6, <1>n DEF Reachable

\* The data of the last store is not lost unless the block has been forwarded.
LEMMA LastWriteKept ==
  ASSUME IInv, DataInv
  PROVE  LostOnlyAfterForward
<1> SUFFICES ASSUME NEW b \in Block, b \notin forwarded
             PROVE  LastWriteExists(b)
  BY DEF LostOnlyAfterForward
<1>1. inbox \in Boxes /\ Home \in Node
  BY InvFacts, DirectoryAssumption
<1>2. (b \in forwarded) = FALSE
  OBVIOUS
<1>3. Sane(dir[b], reqs[b], inbox, b, Caches(b).ln, dram[b], FALSE, JunkLine(b))
  BY <1>2 DEF DataInv, DataSane
<1>4. Saved(inbox[Home], b, dram[b]) \/ Mail(inbox, b, FALSE, {})
  <2>1. ~Saved(inbox[Home], b, dram[b]) => Allowed(dir[b], inbox[Home], b, dram[b]) = {}
    BY DEF Allowed
  <2> QED
    BY <1>3, <2>1 DEF Sane, Right
<1>5. CASE Saved(inbox[Home], b, dram[b])
  BY <1>1, <1>5, SavedFound
<1>6. CASE dir[b].state = "EXCLUSIVE" /\ (Caches(b).ln[dir[b].owner] = "MODIFIED" \/ DirtyIn(inbox[Home], dir[b].owner, b) # {})
  <2>1. dir[b].owner \in Node
    BY <1>6, OwnerIsNode DEF Owned
  <2>2. CASE Caches(b).ln[dir[b].owner] = "MODIFIED"
    <3>1. line[dir[b].owner][b].state # "INVALID"
      BY <2>1, <2>2, CachesNow
    <3> QED
      BY <2>1, <3>1, LineFound
  <2>3. CASE DirtyIn(inbox[Home], dir[b].owner, b) # {}
    BY <1>1, <1>4, <1>5, <2>3, DirtyFound
  <2> QED
    BY <1>6, <2>2, <2>3
<1>7. CASE dir[b].state = "MODIFIED" /\ ~HeadOf(reqs[b]).wait
  <2>1. PICK A : /\ A = View(dir[b], reqs[b], inbox, b, Caches(b)) /\ Stable(A) /\ A.e = dir[b] /\ A.r = HeadOf(reqs[b])
                 /\ \A k \in Node : A.ln[k] = line[k][b].state
    BY Views
  <2>n. PICK n : n = dir[b].owner
    OBVIOUS
  <2>2. n \in Node /\ (A.ln[n] # "INVALID" \/ Granted(A, n) \/ A.f[n] \cap Dirty # {})
    BY <1>7, <2>1, <2>n, ModifiedCopy
  <2>3. A.s[n] = RepliesIn(inbox[n], b) /\ A.f[n] = ReturnsIn(inbox[Home], n, b)
    BY <2>1, <2>2 DEF View
  <2>4. CASE A.ln[n] # "INVALID"
    BY <2>1, <2>2, <2>4, LineFound
  <2>5. CASE Granted(A, n)
    <3>1. PICK t \in {"EX_REP", "SH_REP"} : In(inbox[n], Kind(b, {t}))
      BY <2>3, <2>5 DEF Granted, RepliesIn
    <3>2. {t} \in SUBSET Bearers
      BY DEF Bearers
    <3> QED
      BY <1>1, <1>4, <1>5, <2>2, <3>1, <3>2, BearerFound
  <2>6. CASE A.f[n] \cap Dirty # {}
    <3>1. DirtyIn(inbox[Home], n, b) # {}
      BY <2>3, <2>6 DEF DirtyIn
    <3> QED
      BY <1>1, <1>4, <1>5, <3>1, DirtyFound
  <2> QED
    BY <2>2, <2>4, <2>5, <2>6
<1> QED
  BY <1>3, <1>5, <1>6, <1>7 DEF Sane, Safe, Unsaved

\* No LLC reads data that a store has overwritten, unless a WB_REP has handed the block
\* to a reader since: what it reads then is what the DRAM held when the owner's data was
\* dropped, or the unset buffer of that WB_REP.  Without a WB_REP the content of a dead
\* buffer only gets to a thread that overwrites it before it releases the stack lock.
\* For all sets of nodes, cores and blocks, all three protocols and every number of ways.
THEOREM NoStaleData == Spec => []NoStaleCopy
<1>1. Spec => []IInv /\ []DataInv
  BY Invariance, DataInvariance
<1>2. IInv /\ DataInv => NoStaleCopy
  BY CopiesAreGood
<1> QED
  BY <1>1, <1>2, PTL

\* Evictions, flushes, invalidations and nullifications never lose the data of the last
\* store: it is in the DRAM, in a line or in a message until a WB_REP hands it on.
THEOREM NoStoreLost == Spec => []LostOnlyAfterForward
<1>1. Spec => []IInv /\ []DataInv
  BY Invariance, DataInvariance
<1>2. IInv /\ DataInv => LostOnlyAfterForward
  BY LastWriteKept
<1> QED
  BY <1>1, <1>2, PTL
=============================================================================
