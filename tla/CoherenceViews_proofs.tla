------------------------ MODULE CoherenceViews_proofs ------------------------
(***************************************************************************)
(* The directory's handlers, proved correct for one block at a time.       *)
(*                                                                         *)
(* A block is looked at through a view: a record of its directory entry,   *)
(* the request in progress, the messages about it that are under way and   *)
(* the lines of the caches.  Part 1 is about queues of messages, part 2    *)
(* about views: what holds of a block between two handlers (Stable), and   *)
(* that each step that is possible keeps it.  Part 3 reads views off the   *)
(* inboxes, part 4 is about the operators of DramDirectory: each handler   *)
(* takes a directory all of whose blocks are settled to another one.       *)
(***************************************************************************)
EXTENDS Coherence, NaturalsInduction, FiniteSetTheorems, WellFoundedInduction, TLAPS

-----------------------------------------------------------------------------
(* 1. Queues of messages                                                   *)

\* Where a message of the set C is in the queue q.
At(q, C) == {i \in 1..Len(q) : q[i] \in C}

\* A message of C is in q.
In(q, C) == At(q, C) # {}

\* At most one is.
One(q, C) == \A i, j \in At(q, C) : i = j

\* Messages of C are ahead of those of E.
Before(q, C, E) == \A i \in At(q, C), j \in At(q, E) : i < j

\* The messages of E behind one of G.
Behind(q, G, E) == {j \in At(q, E) : \E i \in At(q, G) : i < j}

\* A message that is appended comes behind all others.
LEMMA PushAt ==
  ASSUME NEW M, NEW q \in Seq(M), NEW m \in M, NEW C
  PROVE  /\ At(Append(q, m), C) = At(q, C) \cup (IF m \in C THEN {Len(q) + 1} ELSE {})
         /\ \A i \in At(q, C) : i \in Nat /\ i < Len(q) + 1
         /\ Append(q, m) \in Seq(M) /\ Len(q) \in Nat
<1>1. Append(q, m) \in Seq(M) /\ Len(Append(q, m)) = Len(q) + 1 /\ Len(q) \in Nat
  OBVIOUS
<1>2. \A i \in 1..Len(q) : Append(q, m)[i] = q[i]
  OBVIOUS
<1>3. Append(q, m)[Len(q) + 1] = m
  OBVIOUS
<1> QED
  BY <1>1, <1>2, <1>3 DEF At

\* The kinds of messages in a queue to which one is appended.
LEMMA PushIn ==
  ASSUME NEW M, NEW q \in Seq(M), NEW m \in M, NEW C
  PROVE  In(Append(q, m), C) <=> In(q, C) \/ m \in C
<1>1. At(Append(q, m), C) = At(q, C) \cup (IF m \in C THEN {Len(q) + 1} ELSE {})
  BY PushAt
<1> QED
  BY <1>1 DEF In

\* A queue still has at most one message of C if the appended one is not a second.
LEMMA PushOne ==
  ASSUME NEW M, NEW q \in Seq(M), NEW m \in M, NEW C, One(q, C), m \in C => ~In(q, C)
  PROVE  One(Append(q, m), C)
<1>1. At(Append(q, m), C) = At(q, C) \cup (IF m \in C THEN {Len(q) + 1} ELSE {})
  BY PushAt
<1> QED
  BY <1>1 DEF In, One

\* Messages of C are still ahead of those of E if no message of C is appended behind one of E.
LEMMA PushBefore ==
  ASSUME NEW M, NEW q \in Seq(M), NEW m \in M, NEW C, NEW E, Before(q, C, E),
         m \in C => m \notin E /\ ~In(q, E)
  PROVE  Before(Append(q, m), C, E)
<1>1. At(Append(q, m), C) = At(q, C) \cup (IF m \in C THEN {Len(q) + 1} ELSE {})
  BY PushAt
<1>2. At(Append(q, m), E) = At(q, E) \cup (IF m \in E THEN {Len(q) + 1} ELSE {})
  BY PushAt
<1>3. \A i \in At(q, C) : i \in Nat /\ i < Len(q) + 1
  BY PushAt
<1> QED
  BY <1>1, <1>2, <1>3 DEF In, Before

\* An appended message of E is behind those of G that were there.
LEMMA PushBehind ==
  ASSUME NEW M, NEW q \in Seq(M), NEW m \in M, NEW G, NEW E, m \notin G \/ m \notin E
  PROVE  /\ m \notin E => Behind(Append(q, m), G, E) = Behind(q, G, E)
         /\ m \in E /\ ~In(q, G) => Behind(Append(q, m), G, E) = Behind(q, G, E)
         /\ m \in E /\ In(q, G) =>
              Behind(Append(q, m), G, E) = Behind(q, G, E) \cup {Len(q) + 1}
<1>1. At(Append(q, m), G) = At(q, G) \cup (IF m \in G THEN {Len(q) + 1} ELSE {})
  BY PushAt
<1>2. At(Append(q, m), E) = At(q, E) \cup (IF m \in E THEN {Len(q) + 1} ELSE {})
  BY PushAt
<1>3. \A i \in At(q, G) \cup At(q, E) : i \in Nat /\ i < Len(q) + 1
  BY PushAt
<1>4. Len(q) \in Nat
  OBVIOUS
<1> QED
  BY <1>1, <1>2, <1>3, <1>4 DEF In, Behind

\* Without the first message, all others are one position further to the front.
LEMMA PopAt ==
  ASSUME NEW M, NEW q \in Seq(M), q # <<>>, NEW C
  PROVE  /\ \A i : i \in At(Tail(q), C) <=> i \in Nat \ {0} /\ i + 1 \in At(q, C)
         /\ \A i \in At(q, C) : i \in Nat \ {0} /\ (i = 1 \/ i - 1 \in At(Tail(q), C))
         /\ 1 \in At(q, C) <=> Head(q) \in C
         /\ Tail(q) \in Seq(M) /\ Head(q) \in M
<1>1. Tail(q) \in Seq(M) /\ Len(Tail(q)) = Len(q) - 1 /\ Len(q) \in Nat /\ Len(q) > 0
      /\ Head(q) = q[1] /\ Head(q) \in M
  OBVIOUS
<1>2. \A i \in 1..Len(Tail(q)) : Tail(q)[i] = q[i + 1]
  OBVIOUS
<1> HIDE DEF At
<1>3. ASSUME NEW i PROVE i \in At(Tail(q), C) <=> i \in Nat \ {0} /\ i + 1 \in At(q, C)
  BY <1>1, <1>2 DEF At
<1>4. \A i \in At(q, C) : i \in Nat \ {0} /\ (i = 1 \/ i - 1 \in At(Tail(q), C))
  BY <1>1, <1>2 DEF At
<1>5. 1 \in At(q, C) <=> Head(q) \in C
  BY <1>1 DEF At
<1> QED
  BY <1>1, <1>3, <1>4, <1>5

\* A message is the first one or in the rest.
LEMMA PopIn ==
  ASSUME NEW M, NEW q \in Seq(M), q # <<>>, NEW C
  PROVE  In(q, C) <=> Head(q) \in C \/ In(Tail(q), C)
<1>1. ASSUME In(Tail(q), C) PROVE In(q, C)
  <2>1. PICK i : i \in At(Tail(q), C)
    BY <1>1 DEF In
  <2> QED
    BY <2>1, PopAt DEF In
<1>2. ASSUME In(q, C), Head(q) \notin C PROVE In(Tail(q), C)
  <2>1. PICK i : i \in At(q, C)
    BY <1>2 DEF In
  <2> QED
    BY <1>2, <2>1, PopAt DEF In
<1>3. ASSUME Head(q) \in C PROVE In(q, C)
  BY <1>3, PopAt DEF In
<1> QED
  BY <1>1, <1>2, <1>3

\* If the only message of C is taken, none is left.
LEMMA PopOne ==
  ASSUME NEW M, NEW q \in Seq(M), q # <<>>, NEW C, One(q, C)
  PROVE  One(Tail(q), C) /\ (Head(q) \in C => ~In(Tail(q), C))
<1>1. ASSUME NEW i \in At(Tail(q), C), NEW j \in At(Tail(q), C) PROVE i = j
  <2>1. i \in Nat /\ j \in Nat /\ i + 1 \in At(q, C) /\ j + 1 \in At(q, C)
    BY PopAt
  <2>2. i + 1 = j + 1
    BY <2>1 DEF One
  <2> QED
    BY <2>1, <2>2
<1>2. ASSUME Head(q) \in C, NEW i \in At(Tail(q), C) PROVE FALSE
  <2>1. i \in Nat \ {0} /\ i + 1 \in At(q, C) /\ 1 \in At(q, C)
    BY <1>2, PopAt
  <2>2. i + 1 = 1
    BY <2>1 DEF One
  <2> QED
    BY <2>1, <2>2
<1> QED
  BY <1>1, <1>2 DEF One, In

\* If a message of E comes first, no message of C was ahead of it.
LEMMA PopBefore ==
  ASSUME NEW M, NEW q \in Seq(M), q # <<>>, NEW C, NEW E, Before(q, C, E)
  PROVE  Before(Tail(q), C, E) /\ (Head(q) \in E => ~In(q, C))
<1>1. ASSUME NEW i \in At(Tail(q), C), NEW j \in At(Tail(q), E) PROVE i < j
  <2>1. i \in Nat /\ j \in Nat /\ i + 1 \in At(q, C) /\ j + 1 \in At(q, E)
    BY PopAt
  <2>2. i + 1 < j + 1
    BY <2>1 DEF Before
  <2> QED
    BY <2>1, <2>2
<1>2. ASSUME Head(q) \in E, NEW i \in At(q, C) PROVE FALSE
  <2>1. i \in Nat \ {0} /\ 1 \in At(q, E)
    BY <1>2, PopAt
  <2>2. i < 1
    BY <2>1 DEF Before
  <2> QED
    BY <2>1, <2>2
<1> QED
  BY <1>1, <1>2 DEF Before, In

\* The head is behind nothing; without it, the messages of E are still behind
\* G, or, if it was one of G, all of them were behind it.
LEMMA PopBehind ==
  ASSUME NEW M, NEW q \in Seq(M), q # <<>>, NEW G, NEW E, Head(q) \notin G \/ Head(q) \notin E
  PROVE  /\ Head(q) \notin G =>
              \A i : i \in Behind(Tail(q), G, E) <=> i \in Nat \ {0} /\ i + 1 \in Behind(q, G, E)
         /\ Head(q) \in G =>
              \A i : i \in At(Tail(q), E) <=> i \in Nat \ {0} /\ i + 1 \in Behind(q, G, E)
         /\ 1 \notin Behind(q, G, E)
         /\ \A i \in Behind(q, G, E) : i \in Nat \ {0, 1} /\ i - 1 \in At(Tail(q), E)
<1>1. \A i : i \in At(Tail(q), G) <=> i \in Nat \ {0} /\ i + 1 \in At(q, G)
  BY PopAt
<1>2. \A i : i \in At(Tail(q), E) <=> i \in Nat \ {0} /\ i + 1 \in At(q, E)
  BY PopAt
<1>3. \A i \in At(q, G) : i \in Nat \ {0} /\ (i = 1 \/ i - 1 \in At(Tail(q), G))
  BY PopAt
<1>4. \A i \in At(q, E) : i \in Nat \ {0} /\ (i = 1 \/ i - 1 \in At(Tail(q), E))
  BY PopAt
<1>5. 1 \in At(q, G) <=> Head(q) \in G
  BY PopAt
<1>6. 1 \notin Behind(q, G, E)
  BY <1>3 DEF Behind
<1>7. \A i \in Behind(q, G, E) : i \in Nat \ {0, 1} /\ i - 1 \in At(Tail(q), E)
  BY <1>4, <1>6 DEF Behind
<1>8. ASSUME Head(q) \notin G, NEW i
      PROVE  i \in Behind(Tail(q), G, E) <=> i \in Nat \ {0} /\ i + 1 \in Behind(q, G, E)
  <2>1. ASSUME i \in Behind(Tail(q), G, E) PROVE i \in Nat \ {0} /\ i + 1 \in Behind(q, G, E)
    <3>1. PICK g \in At(Tail(q), G) : g < i
      BY <2>1 DEF Behind
    <3>2. i \in Nat \ {0} /\ i + 1 \in At(q, E) /\ g \in Nat /\ g + 1 \in At(q, G)
      BY <2>1, <3>1, <1>1, <1>2 DEF Behind
    <3> QED
      BY <3>1, <3>2 DEF Behind
  <2>2. ASSUME i \in Nat \ {0}, i + 1 \in Behind(q, G, E) PROVE i \in Behind(Tail(q), G, E)
    <3>1. PICK g \in At(q, G) : g < i + 1
      BY <2>2 DEF Behind
    <3>2. g \in Nat /\ g - 1 \in At(Tail(q), G) /\ g - 1 < i
      BY <1>3, <1>5, <1>8, <2>2, <3>1
    <3>3. i \in At(Tail(q), E)
      BY <1>2, <2>2 DEF Behind
    <3> QED
      BY <3>2, <3>3 DEF Behind
  <2> QED
    BY <2>1, <2>2
<1>9. ASSUME Head(q) \in G, NEW i
      PROVE  i \in At(Tail(q), E) <=> i \in Nat \ {0} /\ i + 1 \in Behind(q, G, E)
  <2>1. ASSUME i \in At(Tail(q), E) PROVE i \in Nat \ {0} /\ i + 1 \in Behind(q, G, E)
    <3>1. i \in Nat \ {0} /\ i + 1 \in At(q, E) /\ 1 \in At(q, G)
      BY <2>1, <1>2, <1>5, <1>9
    <3> QED
      BY <3>1 DEF Behind
  <2> QED
    BY <2>1, <1>2 DEF Behind
<1> QED
  BY <1>6, <1>7, <1>8, <1>9

-----------------------------------------------------------------------------
(* 2. Views of a block                                                     *)

(***************************************************************************)
(* What the directory, the messages and the caches have to do with each    *)
(* other, for one block: the view A of a block is a record of              *)
(*   e   its directory entry,        r   the request in progress,          *)
(*   a   what each node asks for in the queue,                             *)
(*   s   replies on their way to each node,                                *)
(*   l   live requests of the directory on their way to each node,         *)
(*   f   messages of each node on their way to the directory,              *)
(*   rd  is the DRAM being read,     ln  states of the lines,              *)
(*   tk  is a reply still to come,   hx  does the first waiter write,      *)
(*   wk  has a writing waiter been woken.                                  *)
(* The order of the messages is left to part 1.                            *)
(***************************************************************************)

Grants   == {"EX_REP", "SH_REP"}
Replies  == Grants \cup {"UPGRADE_REP"}
Snoops   == {"INV_REQ", "FLUSH_REQ", "WB_REQ"}
Drops    == {"INV_REP", "FLUSH_REP"}
Returns  == Requests \cup Drops \cup {"WB_REP"}
Owned    == {"EXCLUSIVE", "MODIFIED"}
Kills    == {"EX_REQ", "UPGRADE_REQ", "NULLIFY_REQ"}

\* Directory entries.
EntryT == [state : {"UNCACHED", "SHARED", "EXCLUSIVE", "MODIFIED"}, sharers : SUBSET Node,
           owner : Node \cup {NoNode}, forwarder : Node \cup {NoNode, Unset}]

\* The request in progress.
HeadT == [type : Requests \cup {"NULLIFY_REQ", "NONE"}, node : Node \cup {NoNode},
          wait : BOOLEAN, forwardingFrom : Node \cup {NoNode}]

\* Views.
AbsT == [e : EntryT, r : HeadT, a : [Node -> SUBSET Requests], s : [Node -> SUBSET Replies],
         l : [Node -> SUBSET Snoops], f : [Node -> SUBSET Returns], rd : BOOLEAN,
         ln : [Node -> {"INVALID", "SHARED", "SHARED_UPGRADING", "EXCLUSIVE", "MODIFIED"}],
         tk : [Node -> BOOLEAN], hx : [Node -> BOOLEAN], wk : [Node -> BOOLEAN]]

\* No request is in progress.
Idles(A) == A.r.type = "NONE"

-----------------------------------------------------------------------------

\* The block is on its way to n; n has given it up; n waits for the DRAM or a
\* forwarder; n's upgrade, its fetch, or any request is on its way; n has the block
\* or is sent it.
Granted(A, n) == "EX_REP" \in A.s[n] \/ "SH_REP" \in A.s[n]
Dropped(A, n) == "INV_REP" \in A.f[n] \/ "FLUSH_REP" \in A.f[n]
Pending(A, n) == /\ A.r.type \in Requests /\ A.r.node = n
                 /\ A.r.wait \/ A.r.forwardingFrom # NoNode
Upgrading(A, n) == "UPGRADE_REQ" \in A.f[n] \/ "UPGRADE_REQ" \in A.a[n]
Fetching(A, n) == {"EX_REQ", "SH_REQ"} \cap (A.f[n] \cup A.a[n]) # {}
Requesting(A, n) == "EX_REQ" \in A.f[n] \/ "SH_REQ" \in A.f[n] \/ "UPGRADE_REQ" \in A.f[n]
Reachable(A, n) == A.ln[n] # "INVALID" \/ Granted(A, n)

\* At most one message of a kind.
Single(A, n) ==
  /\ \A t, u \in A.s[n] : t = u
  /\ \A t, u \in A.l[n] : t = u
  /\ \A t, u \in A.a[n] : t = u
  /\ ~("INV_REP" \in A.f[n] /\ "FLUSH_REP" \in A.f[n])
  /\ \A t, u \in A.f[n] \cap Requests : t = u
  /\ A.l[n] # {} => Reachable(A, n)

\* A sharer has the block, will get it, or has given it up.
Present(A, n) ==
  /\ n \in A.e.sharers <=> Reachable(A, n) \/ Dropped(A, n) \/ Pending(A, n)
  /\ A.ln[n] # "INVALID" => ~Granted(A, n) /\ ~Dropped(A, n) /\ ~Pending(A, n)
  /\ Granted(A, n) => ~Dropped(A, n) /\ ~Pending(A, n)
  /\ Dropped(A, n) => ~Pending(A, n)

\* The request of a cache with waiters is in one place.
Token(A, n) ==
  /\ A.tk[n] <=> Requesting(A, n) \/ A.a[n] # {} \/ A.s[n] # {}
  /\ Requesting(A, n) => A.a[n] = {} /\ A.s[n] = {}
  /\ A.a[n] # {} => A.s[n] = {}
  /\ "EX_REQ" \in A.f[n] \/ "EX_REQ" \in A.a[n] \/ Upgrading(A, n) => A.hx[n]
  /\ "UPGRADE_REP" \in A.s[n] => A.hx[n]
  /\ "EX_REP" \in A.s[n] /\ A.e.state = "MODIFIED" => A.hx[n]

\* What a line is while a request is under way.
Lines(A, n) ==
  /\ Fetching(A, n) => A.ln[n] = "INVALID"
  /\ "EX_REQ" \in A.a[n] \/ "SH_REQ" \in A.a[n] => ~Dropped(A, n)
  /\ Upgrading(A, n) => A.ln[n] \in {"INVALID", "SHARED_UPGRADING"}
  /\ "UPGRADE_REP" \in A.s[n] => A.ln[n] = "SHARED_UPGRADING"
  /\ A.ln[n] = "SHARED_UPGRADING" => Upgrading(A, n) \/ "UPGRADE_REP" \in A.s[n]

\* What the directory knows of a line.
Known(A, n) ==
  /\ A.e.state = "SHARED" => A.ln[n] \notin Owned /\ "EX_REP" \notin A.s[n]
  /\ A.e.state \in Owned =>
       /\ "SH_REP" \notin A.s[n]
       /\ A.ln[n] = "SHARED" => "WB_REP" \in A.f[n]
       /\ A.ln[n] = "SHARED_UPGRADING" => "WB_REP" \in A.f[n] \/ "UPGRADE_REP" \in A.s[n]
  /\ A.e.state = "MODIFIED" /\ A.ln[n] = "EXCLUSIVE" => A.wk[n]
  /\ "UPGRADE_REP" \in A.s[n] => A.e.state = "MODIFIED"
  /\ "INV_REP" \in A.f[n] => A.e.state \in {"SHARED", "EXCLUSIVE"} \/ "WB_REP" \in A.f[n]
  /\ "FLUSH_REP" \in A.f[n] =>
       /\ "WB_REP" \notin A.f[n]
       /\ A.e.state = "SHARED" =>
            A.r.type = "UPGRADE_REQ" /\ ~A.r.wait /\ A.r.node \notin A.e.sharers

\* The state of the entry and its sharers.
EntryInv(A) ==
  /\ A.e.state = "UNCACHED" <=> A.e.sharers = {}
  /\ A.e.state \in Owned => A.e.sharers = {A.e.owner}

\* The request in progress and the queue.
HeadInv(A) ==
  /\ Idles(A) => \A n \in Node : A.a[n] = {}
  /\ ~Idles(A) => A.r.node \in Node
  /\ A.r.type \in Requests => A.r.type \in A.a[A.r.node]
  /\ A.r.type \notin Requests => ~A.r.wait
  /\ A.r.forwardingFrom # NoNode => A.r.type = "SH_REQ"

\* All of it for node n, and for the block.
CoreN(A, n) == Single(A, n) /\ Present(A, n) /\ Token(A, n) /\ Lines(A, n) /\ Known(A, n)

CoreInv(A) == A \in AbsT /\ EntryInv(A) /\ HeadInv(A) /\ \A n \in Node : CoreN(A, n)

\* Nobody has been asked for anything.
QuietN(A, n) ==
  /\ A.l[n] = {}
  /\ "WB_REP" \notin A.f[n]
  /\ ~(Dropped(A, n) /\ Upgrading(A, n))

\* Neither a cache nor the DRAM has been asked for anything.
Quiet(A) == ~A.rd /\ \A n \in Node : QuietN(A, n)

\* n has been asked and will answer, or has answered.
Answering(A, n) == A.l[n] # {} \/ "WB_REP" \in A.f[n] \/ Dropped(A, n)

\* What is on its way while the request r is in progress.
WaitingN(A, n) ==
  /\ Dropped(A, n) /\ Upgrading(A, n) =>
       A.r.type \in Kills /\ ~A.r.wait /\ (A.r.type = "NULLIFY_REQ" \/ A.r.node # n)
  /\ "INV_REQ" \in A.l[n] => /\ A.e.state = "SHARED" /\ A.r.type \in Kills /\ ~A.r.wait
                             /\ A.r.type = "UPGRADE_REQ" => A.r.node # n
  /\ "FLUSH_REQ" \in A.l[n] =>
       /\ A.r.type \in Kills /\ ~A.r.wait
       /\ A.e.state = "SHARED" => A.r.type = "UPGRADE_REQ" /\ A.r.node \notin A.e.sharers
  /\ "WB_REQ" \in A.l[n] \/ "WB_REP" \in A.f[n] =>
       /\ A.r.type = "SH_REQ" /\ ~A.r.wait /\ n \in A.e.sharers
       /\ A.r.forwardingFrom = IF A.e.state = "SHARED" THEN n ELSE NoNode
  /\ "WB_REP" \in A.f[n] => A.ln[n] \notin Owned /\ A.s[n] = {} /\ A.l[n] = {}

\* Whom the request r waits for.
AwaitInv(A) ==
  /\ A.rd <=> A.r.wait
  /\ A.r.wait => /\ A.r.type \in {"EX_REQ", "UPGRADE_REQ"} => A.e.state = "MODIFIED"
                 /\ A.r.type = "SH_REQ" => A.e.state \in {"SHARED", "EXCLUSIVE"}
  /\ ~A.r.wait /\ A.r.type = "SH_REQ" /\ A.r.forwardingFrom = NoNode =>
       A.e.state \in Owned /\ A.e.owner # A.r.node /\ Answering(A, A.e.owner)
  /\ ~A.r.wait /\ A.r.type = "SH_REQ" /\ A.r.forwardingFrom # NoNode =>
       /\ A.e.state = "SHARED" /\ A.r.forwardingFrom \in A.e.sharers
       /\ A.r.forwardingFrom # A.r.node /\ Answering(A, A.r.forwardingFrom)
  /\ ~A.r.wait /\ A.r.type \in {"EX_REQ", "NULLIFY_REQ"} =>
       A.e.sharers # {} /\ \A n \in A.e.sharers : Answering(A, n)
  /\ ~A.r.wait /\ A.r.type = "UPGRADE_REQ" =>
       A.e.sharers \ {A.r.node} # {} /\ \A n \in A.e.sharers \ {A.r.node} : Answering(A, n)

\* The request in progress waits.
Waiting(A) == AwaitInv(A) /\ \A n \in Node : WaitingN(A, n)

\* A request is about to be processed, or none is there.
Fresh(A) == /\ CoreInv(A) /\ Quiet(A) /\ ~A.r.wait
            /\ A.r.forwardingFrom # NoNode => A.e.state = "SHARED"

\* Between two handlers: nothing is going on, or the request in progress waits.
Stable(A) == CoreInv(A) /\ IF Idles(A) THEN Quiet(A) ELSE Waiting(A)

-----------------------------------------------------------------------------
(* The directory asks for the copies of a block.                           *)

\* Nothing but requests of the directory is added.
OnlyAsks(A, A2) ==
  /\ A2.e = A.e /\ A2.r = A.r /\ A2.a = A.a /\ A2.s = A.s /\ A2.f = A.f /\ A2.rd = A.rd
  /\ A2.ln = A.ln /\ A2.tk = A.tk /\ A2.hx = A.hx /\ A2.wk = A.wk

\* The nodes N are asked by messages of type t, which those find that have the block.
Asked(A, A2, N, t) == \A n \in Node : A2.l[n] = IF n \in N /\ Reachable(A, n) THEN {t} ELSE {}

\* The same before an upgrade: F is to send its data, and the others are not.
AskedForUpgrade(A, A2, N, F) ==
  \A n \in Node : A2.l[n] = IF n \in N /\ Reachable(A, n)
                            THEN {IF n \in F THEN "FLUSH_REQ" ELSE "INV_REQ"} ELSE {}

\* Only those who have the block, or are about to get it, are asked by the message.
LEMMA AskKeepsCore ==
  ASSUME NEW A, Fresh(A), NEW A2 \in AbsT, OnlyAsks(A, A2),
         \A n \in Node : A2.l[n] = {} \/ (Reachable(A, n) /\ \E t : A2.l[n] = {t})
  PROVE  CoreInv(A2)
<1>1. EntryInv(A2) /\ HeadInv(A2)
  BY DEF Fresh, CoreInv, EntryInv, HeadInv, Idles, OnlyAsks
<1>2. ASSUME NEW n \in Node
      PROVE  CoreN(A2, n)
  <2>1. CoreN(A, n)
    BY DEF Fresh, CoreInv
  <2>2. Single(A2, n)
    BY <2>1 DEF CoreN, Single, Reachable, Granted, OnlyAsks
  <2>3. Present(A2, n)
    BY <2>1 DEF CoreN, Present, Reachable, Granted, Dropped, Pending, OnlyAsks
  <2>4. Token(A2, n) /\ Lines(A2, n) /\ Known(A2, n)
    BY <2>1 DEF CoreN, Token, Lines, Known, Upgrading, Requesting, Fetching, Dropped, OnlyAsks
  <2> QED
    BY <2>2, <2>3, <2>4 DEF CoreN
<1> QED
  BY <1>1, <1>2 DEF CoreInv

\* What a fresh request finds.
LEMMA FreshFacts ==
  ASSUME NEW A, Fresh(A)
  PROVE  /\ A \in AbsT /\ A.e \in EntryT /\ A.r \in HeadT /\ EntryInv(A) /\ HeadInv(A)
         /\ ~A.rd /\ ~A.r.wait
         /\ \A n \in Node : QuietN(A, n) /\ CoreN(A, n) /\ Present(A, n)
         /\ \A n \in A.e.sharers : n \in Node /\ (Reachable(A, n) \/ Dropped(A, n) \/ Pending(A, n))
  BY DEF Fresh, CoreInv, CoreN, Quiet, AbsT, EntryT, Present

\* FLUSH_REQ to the owner, for a request that takes the block away.
LEMMA AskOwner ==
  ASSUME NEW A, Fresh(A), A.r.type \in Kills, A.e.state \in Owned,
         A.r.type = "UPGRADE_REQ" => A.e.owner # A.r.node,
         NEW A2 \in AbsT, OnlyAsks(A, A2),
         Asked(A, A2, {A.e.owner}, "FLUSH_REQ")
  PROVE  Stable(A2)
<1> \A n \in Node : A2.l[n] = IF n = A.e.owner /\ Reachable(A, n) THEN {"FLUSH_REQ"} ELSE {}
  BY DEF Asked
<1>1. CoreInv(A2)
  BY AskKeepsCore
<1>2. A.e.sharers = {A.e.owner} /\ A.e.owner \in Node /\ ~Pending(A, A.e.owner)
  BY FreshFacts DEF EntryInv, EntryT, Owned, Pending, HeadInv, Kills, Requests
<1>3. Answering(A2, A.e.owner)
  BY <1>2, FreshFacts DEF Answering, Dropped, OnlyAsks
<1>4. AwaitInv(A2)
  BY <1>2, <1>3, FreshFacts DEF AwaitInv, Kills, OnlyAsks
<1>5. ASSUME NEW n \in Node PROVE WaitingN(A2, n)
  BY <1>2, FreshFacts DEF WaitingN, QuietN, Kills, Owned, Dropped, Upgrading, OnlyAsks
<1> QED
  BY <1>1, <1>4, <1>5 DEF Stable, Waiting, Idles, Kills, OnlyAsks

\* INV_REQ to all sharers.
LEMMA AskSharers ==
  ASSUME NEW A, Fresh(A), A.r.type \in {"EX_REQ", "NULLIFY_REQ"}, A.e.state = "SHARED",
         NEW A2 \in AbsT, OnlyAsks(A, A2),
         Asked(A, A2, A.e.sharers, "INV_REQ")
  PROVE  Stable(A2)
<1> \A n \in Node : A2.l[n] = IF n \in A.e.sharers /\ Reachable(A, n) THEN {"INV_REQ"} ELSE {}
  BY DEF Asked
<1>1. CoreInv(A2)
  BY AskKeepsCore
<1>2. A.e.sharers # {} /\ \A n \in A.e.sharers : ~Pending(A, n)
  BY FreshFacts DEF EntryInv, Pending, HeadInv, Requests
<1>3. \A n \in A.e.sharers : Answering(A2, n)
  BY <1>2, FreshFacts DEF Answering, Dropped, OnlyAsks
<1>4. AwaitInv(A2)
  BY <1>2, <1>3, FreshFacts DEF AwaitInv, OnlyAsks
<1>5. ASSUME NEW n \in Node PROVE WaitingN(A2, n)
  <2>1. Dropped(A, n) /\ Upgrading(A, n) => FALSE
    BY FreshFacts DEF QuietN
  <2> QED
    BY <1>2, <2>1, FreshFacts DEF WaitingN, QuietN, Kills, Dropped, Upgrading, OnlyAsks
<1> QED
  BY <1>1, <1>4, <1>5 DEF Stable, Waiting, Idles, OnlyAsks

\* A request that is not pending comes from a node without the block.
LEMMA FetchedByOthers ==
  ASSUME NEW A, Fresh(A), A.r.type \in {"EX_REQ", "SH_REQ"}, A.r.forwardingFrom = NoNode
  PROVE  A.r.node \in Node /\ A.r.node \notin A.e.sharers
<1>1. A.r.node \in Node /\ A.r.type \in A.a[A.r.node]
  BY FreshFacts DEF HeadInv, Idles, Requests
<1>2. ~Pending(A, A.r.node)
  BY FreshFacts DEF Pending
<1> QED
  BY <1>1, <1>2, FreshFacts DEF CoreN, Present, Token, Lines, Fetching, Reachable, Granted

\* WB_REQ to the owner.
LEMMA AskWriteback ==
  ASSUME NEW A, Fresh(A), A.r.type = "SH_REQ", A.e.state \in Owned,
         NEW A2 \in AbsT, OnlyAsks(A, A2),
         Asked(A, A2, {A.e.owner}, "WB_REQ")
  PROVE  Stable(A2)
<1> \A n \in Node : A2.l[n] = IF n = A.e.owner /\ Reachable(A, n) THEN {"WB_REQ"} ELSE {}
  BY DEF Asked
<1>1. CoreInv(A2)
  BY AskKeepsCore
<1>2. A.r.forwardingFrom = NoNode
  BY DEF Fresh, Owned
<1>3. A.e.sharers = {A.e.owner} /\ A.e.owner \in Node /\ ~Pending(A, A.e.owner)
      /\ A.e.owner # A.r.node
  BY <1>2, FreshFacts, FetchedByOthers DEF EntryInv, EntryT, Owned, Pending
<1>4. Answering(A2, A.e.owner)
  BY <1>3, FreshFacts DEF Answering, Dropped, OnlyAsks
<1>5. AwaitInv(A2)
  BY <1>2, <1>3, <1>4, FreshFacts DEF AwaitInv, OnlyAsks
<1>6. ASSUME NEW n \in Node PROVE WaitingN(A2, n)
  BY <1>2, <1>3, FreshFacts DEF WaitingN, QuietN, Owned, Dropped, Upgrading, OnlyAsks
<1> QED
  BY <1>1, <1>5, <1>6 DEF Stable, Waiting, Idles, OnlyAsks

\* Before an upgrade: INV_REQ to all others, or FLUSH_REQ to one of them if the
\* requester has lost its copy.
LEMMA AskForUpgrade ==
  ASSUME NEW A, Fresh(A), A.r.type = "UPGRADE_REQ", A.e.state = "SHARED",
         A.e.sharers # {A.r.node},
         NEW F, F = {} \/ A.r.node \notin A.e.sharers,
         NEW A2 \in AbsT, OnlyAsks(A, A2),
         AskedForUpgrade(A, A2, A.e.sharers \ {A.r.node}, F)
  PROVE  Stable(A2)
<1> \A n \in Node : A2.l[n] = IF n \in A.e.sharers \ {A.r.node} /\ Reachable(A, n)
                                  THEN {IF n \in F THEN "FLUSH_REQ" ELSE "INV_REQ"} ELSE {}
  BY DEF AskedForUpgrade
<1>1. CoreInv(A2)
  BY AskKeepsCore
<1>2. A.e.sharers \ {A.r.node} # {} /\ \A n \in A.e.sharers \ {A.r.node} : ~Pending(A, n)
  BY FreshFacts DEF EntryInv, Pending
<1>3. \A n \in A.e.sharers \ {A.r.node} : Answering(A2, n)
  BY <1>2, FreshFacts DEF Answering, Dropped, OnlyAsks
<1>4. AwaitInv(A2)
  BY <1>2, <1>3, FreshFacts DEF AwaitInv, OnlyAsks
<1>5. ASSUME NEW n \in Node PROVE WaitingN(A2, n)
  <2>1. /\ ~(Dropped(A, n) /\ Upgrading(A, n)) /\ "WB_REP" \notin A.f[n]
    BY FreshFacts DEF QuietN
  <2>2. /\ "WB_REQ" \notin A2.l[n]
        /\ A2.l[n] # {} => n # A.r.node
        /\ "FLUSH_REQ" \in A2.l[n] => A.r.node \notin A.e.sharers
    <3>1. CASE n \in A.e.sharers \ {A.r.node} /\ Reachable(A, n) /\ n \in F
      <4>1. A2.l[n] = {"FLUSH_REQ"}
        BY <3>1
      <4> QED
        BY <3>1, <4>1
    <3>2. CASE n \in A.e.sharers \ {A.r.node} /\ Reachable(A, n) /\ n \notin F
      <4>1. A2.l[n] = {"INV_REQ"}
        BY <3>2
      <4> QED
        BY <3>2, <4>1
    <3>3. CASE ~(n \in A.e.sharers \ {A.r.node} /\ Reachable(A, n))
      BY <3>3
    <3> QED
      BY <3>1, <3>2, <3>3
  <2> QED
    BY <2>1, <2>2, FreshFacts DEF WaitingN, Kills, Dropped, Upgrading, OnlyAsks
<1> QED
  BY <1>1, <1>4, <1>5 DEF Stable, Waiting, Idles, OnlyAsks

-----------------------------------------------------------------------------
(* The directory answers the request in progress.                          *)

\* The caches, and what they are asked and answer, stay.
Untouched(A, A2) ==
  A2.l = A.l /\ A2.f = A.f /\ A2.ln = A.ln /\ A2.tk = A.tk /\ A2.hx = A.hx /\ A2.wk = A.wk

\* The request in progress leaves the queue.
Dequeued(A, A2) ==
  /\ HeadInv(A2) /\ A2.r.type # "NULLIFY_REQ" /\ ~A2.r.wait /\ A2.r.forwardingFrom = NoNode
  /\ \A m \in Node : A2.a[m] = IF A.r.type \in Requests /\ m = A.r.node THEN {} ELSE A.a[m]

\* The requester is sent a reply.
Answered(A, A2, reply) ==
  \A m \in Node : A2.s[m] = IF m = A.r.node THEN {reply} ELSE A.s[m]

\* The entry after the requester has become a sharer.
Joined(A, A2) ==
  A2.e.sharers = A.e.sharers \cup {A.r.node} /\ EntryInv(A2)

\* The requester of the request in progress.
LEMMA Requester ==
  ASSUME NEW A, CoreInv(A), A.r.type \in Requests,
         A.r.type = "UPGRADE_REQ" => ~Dropped(A, A.r.node)
  PROVE  LET n == A.r.node IN
         /\ n \in Node /\ A.r.type \in A.a[n] /\ A.a[n] # {} /\ A.s[n] = {} /\ ~Requesting(A, n) /\ A.tk[n]
         /\ ~Granted(A, n) /\ ~Dropped(A, n)
         /\ A.r.type # "SH_REQ" => A.hx[n]
         /\ A.r.type # "UPGRADE_REQ" => A.ln[n] = "INVALID"
         /\ A.r.type = "UPGRADE_REQ" => A.ln[n] \in {"INVALID", "SHARED_UPGRADING"}
         /\ n \in A.e.sharers <=> (A.ln[n] = "SHARED_UPGRADING" \/ Pending(A, n))
         /\ \A t \in A.a[n] : t = A.r.type
<1> DEFINE n == A.r.node
<1>1. n \in Node /\ A.r.type \in A.a[n]
  BY DEF CoreInv, HeadInv, Idles, Requests
<1>2. Token(A, n) /\ Lines(A, n) /\ Present(A, n) /\ Single(A, n)
  BY <1>1 DEF CoreInv, CoreN
<1>3. A.a[n] # {} /\ A.s[n] = {} /\ ~Requesting(A, n) /\ A.tk[n] /\ ~Granted(A, n)
  BY <1>1, <1>2 DEF Token, Granted
<1>4. A.r.type # "SH_REQ" => A.hx[n]
  BY <1>1, <1>2 DEF Token, Upgrading, Requests
<1>5. A.r.type # "UPGRADE_REQ" => A.ln[n] = "INVALID" /\ ~Dropped(A, n)
  BY <1>1, <1>2 DEF Lines, Fetching, Requests
<1>6. A.r.type = "UPGRADE_REQ" => A.ln[n] \in {"INVALID", "SHARED_UPGRADING"}
  BY <1>1, <1>2 DEF Lines, Upgrading
<1>7. \A t \in A.a[n] : t = A.r.type
  BY <1>1, <1>2 DEF Single
<1>8. ~Dropped(A, n)
  BY <1>5 DEF Requests
<1>9. n \in A.e.sharers <=> (A.ln[n] = "SHARED_UPGRADING" \/ Pending(A, n))
  BY <1>2, <1>3, <1>8, <1>5, <1>6 DEF Present, Reachable
<1> QED
  BY <1>1, <1>3, <1>4, <1>5, <1>6, <1>7, <1>8, <1>9

\* A node whose upgrade is about to be processed has not given its copy up.
LEMMA FreshRequester ==
  ASSUME NEW A, Fresh(A), A.r.type \in Requests
  PROVE  ~Dropped(A, A.r.node) \/ A.r.type # "UPGRADE_REQ"
  BY FreshFacts DEF HeadInv, Idles, Requests, QuietN, Upgrading

\* The requester gets the block, or the right to write it.
MayAnswer(A, A2, reply) ==
  /\ reply \in Replies
  /\ reply = "EX_REP" => /\ A2.e.state \in Owned /\ A.e.sharers \subseteq {A.r.node}
                         /\ A2.e.state = "MODIFIED" => A.r.type # "SH_REQ"
                         /\ A.ln[A.r.node] = "INVALID"
  /\ reply = "SH_REP" => /\ A2.e.state = "SHARED" /\ A.e.state \in {"SHARED", "UNCACHED"}
                         /\ A.r.type = "SH_REQ"
  /\ reply = "UPGRADE_REP" => /\ A2.e.state = "MODIFIED" /\ A.e.sharers = {A.r.node}
                              /\ A.r.type = "UPGRADE_REQ"
                              /\ A.ln[A.r.node] = "SHARED_UPGRADING"

\* Replying to the request in progress, and dequeueing it, keeps the facts about each node.
LEMMA AnswerKeepsCore ==
  ASSUME NEW A, CoreInv(A), A.r.type \in Requests,
         A.r.type = "UPGRADE_REQ" => ~Dropped(A, A.r.node),
         NEW A2 \in AbsT, NEW reply, Untouched(A, A2), Dequeued(A, A2), Answered(A, A2, reply),
         Joined(A, A2), MayAnswer(A, A2, reply)
  PROVE  CoreInv(A2)
<1> DEFINE n == A.r.node
<1>1. /\ n \in Node /\ A.r.type \in A.a[n] /\ A.a[n] # {} /\ A.s[n] = {} /\ ~Requesting(A, n) /\ A.tk[n]
      /\ ~Granted(A, n) /\ ~Dropped(A, n)
      /\ A.r.type # "SH_REQ" => A.hx[n]
      /\ A.r.type # "UPGRADE_REQ" => A.ln[n] = "INVALID"
      /\ A.r.type = "UPGRADE_REQ" => A.ln[n] \in {"INVALID", "SHARED_UPGRADING"}
      /\ n \in A.e.sharers <=> (A.ln[n] = "SHARED_UPGRADING" \/ Pending(A, n))
      /\ \A t \in A.a[n] : t = A.r.type
  BY Requester
<1>2. A2.a[n] = {} /\ A2.s[n] = {reply} /\ n \in A2.e.sharers
  BY <1>1 DEF Dequeued, Answered, Joined
<1>3. \A m \in Node : m # n => A2.a[m] = A.a[m] /\ A2.s[m] = A.s[m]
                               /\ (m \in A2.e.sharers <=> m \in A.e.sharers)
  BY DEF Dequeued, Answered, Joined
<1>4. \A m \in Node : ~Pending(A2, m)
  BY DEF Dequeued, Pending
<1>5. \A m \in Node : m # n => ~Pending(A, m)
  BY DEF Pending
<1>6. \A m \in Node : CoreN(A, m)
  BY DEF CoreInv
<1>7. CoreN(A2, n)
  <2>1. Single(A, n) /\ Present(A, n) /\ Token(A, n) /\ Lines(A, n) /\ Known(A, n)
    BY <1>1, <1>6 DEF CoreN
  <2>2. ~Upgrading(A2, n) /\ ~Fetching(A2, n) /\ ~Requesting(A2, n)
    BY <1>1, <1>2 DEF Upgrading, Fetching, Requesting, Untouched
  <2>3. ~Dropped(A2, n) /\ (Granted(A2, n) <=> reply # "UPGRADE_REP")
    BY <1>1, <1>2 DEF Dropped, Granted, Untouched, MayAnswer, Replies, Grants
  <2>4. Single(A2, n)
    <3>1. A2.l[n] # {} => Reachable(A2, n)
      BY <2>1, <2>3, <1>1 DEF Single, Reachable, Untouched, MayAnswer
    <3> QED
      BY <2>1, <1>2, <3>1 DEF Single, Untouched
  <2>5. Present(A2, n)
    BY <1>1, <1>2, <1>4, <2>3 DEF Present, Reachable, Untouched, MayAnswer, Replies, Grants
  <2>6. Token(A2, n)
    BY <1>1, <1>2, <2>2, <2>3 DEF Token, Untouched, MayAnswer, Requesting, Upgrading
  <2>7. Lines(A2, n)
    BY <1>1, <1>2, <2>2 DEF Lines, Untouched, MayAnswer, Replies, Grants
  <2>8. Known(A2, n)
    BY <1>1, <1>2, <2>3 DEF Known, Untouched, MayAnswer, Dropped, Owned, Replies, Grants
  <2> QED
    BY <2>4, <2>5, <2>6, <2>7, <2>8 DEF CoreN
<1>8. ASSUME NEW m \in Node, m # n PROVE CoreN(A2, m)
  <2>1. Single(A, m) /\ Present(A, m) /\ Token(A, m) /\ Lines(A, m) /\ Known(A, m)
    BY <1>6 DEF CoreN
  <2>2. /\ A2.a[m] = A.a[m] /\ A2.s[m] = A.s[m] /\ A2.f[m] = A.f[m] /\ A2.l[m] = A.l[m]
        /\ A2.ln[m] = A.ln[m] /\ A2.tk[m] = A.tk[m] /\ A2.hx[m] = A.hx[m] /\ A2.wk[m] = A.wk[m]
        /\ m \in A2.e.sharers <=> m \in A.e.sharers
    BY <1>3, <1>8 DEF Untouched
  <2>3. Single(A2, m)
    BY <2>1, <2>2 DEF Single, Reachable, Granted
  <2>4. Present(A2, m)
    BY <2>1, <2>2, <1>4, <1>5, <1>8 DEF Present, Reachable, Granted, Dropped
  <2>5. Lines(A2, m)
    BY <2>1, <2>2 DEF Lines, Fetching, Upgrading, Dropped
  <2>6. reply # "SH_REP" \/ A.e.state = "UNCACHED" =>
          m \notin A.e.sharers /\ ~Reachable(A, m) /\ ~Dropped(A, m)
    BY <2>1, <1>8 DEF MayAnswer, Present, CoreInv, EntryInv, Replies, Grants
  <2>7. Token(A2, m)
    BY <2>1, <2>2, <2>6 DEF Token, Requesting, Upgrading, Reachable, Granted, MayAnswer, Replies, Grants
  <2>8. Known(A2, m)
    <3>1. "UPGRADE_REP" \in A.s[m] => Reachable(A, m)
      BY <2>1 DEF Lines, Reachable
    <3> QED
      BY <2>1, <2>2, <2>6, <3>1 DEF Known, Reachable, Granted, Dropped, MayAnswer, Owned, Replies, Grants
  <2> QED
    BY <2>3, <2>4, <2>5, <2>7, <2>8 DEF CoreN
<1> QED
  BY <1>7, <1>8 DEF CoreInv, Joined, Dequeued

\* After a reply, nobody is asked for anything: the next request can be processed.
LEMMA AnswerLeavesFresh ==
  ASSUME NEW A, Quiet(A), CoreInv(A), A.r.type \in Requests,
         A.r.type = "UPGRADE_REQ" => ~Dropped(A, A.r.node),
         NEW A2 \in AbsT, NEW reply, Untouched(A, A2), Dequeued(A, A2), Answered(A, A2, reply),
         Joined(A, A2), MayAnswer(A, A2, reply), A2.rd = A.rd
  PROVE  Fresh(A2)
<1>1. CoreInv(A2)
  BY AnswerKeepsCore
<1>2. ASSUME NEW m \in Node PROVE QuietN(A2, m)
  <2>1. QuietN(A, m)
    BY DEF Quiet
  <2>2. A2.a[m] \subseteq A.a[m] /\ A2.f[m] = A.f[m] /\ A2.l[m] = A.l[m]
    BY DEF Dequeued, Untouched
  <2> QED
    BY <2>1, <2>2 DEF QuietN, Dropped, Upgrading
<1> QED
  BY <1>1, <1>2 DEF Fresh, Quiet, Dequeued

\* A reply from the DRAM to the request that has waited for it.
LEMMA DramAnswerLeavesFresh ==
  ASSUME NEW A, Stable(A), A.r.wait, NEW A2 \in AbsT, NEW reply,
         reply = (IF A.r.type = "SH_REQ" /\ A.e.state = "SHARED" THEN "SH_REP" ELSE "EX_REP"),
         Untouched(A, A2), Dequeued(A, A2), Answered(A, A2, reply), A2.e = A.e, ~A2.rd
  PROVE  Fresh(A2)
<1>1. CoreInv(A) /\ A.r.type \in Requests /\ ~Idles(A) /\ AwaitInv(A) /\ A.r.node \in Node
  BY DEF Stable, CoreInv, HeadInv, Idles, Requests, Waiting
<1>2. \A n \in Node : WaitingN(A, n)
  BY <1>1 DEF Stable, Waiting
<1>3. Present(A, A.r.node) /\ Pending(A, A.r.node)
  BY <1>1 DEF CoreInv, CoreN, Pending
<1>4. ~Dropped(A, A.r.node) /\ A.ln[A.r.node] = "INVALID" /\ A.r.node \in A.e.sharers
  BY <1>3 DEF Present
<1>5. Joined(A, A2)
  BY <1>1, <1>4 DEF Joined, CoreInv, EntryInv
<1>6. MayAnswer(A, A2, reply)
  BY <1>1, <1>4 DEF MayAnswer, AwaitInv, Requests, Replies, Grants, Owned, CoreInv, EntryInv
<1>7. CoreInv(A2)
  BY <1>1, <1>4, <1>5, <1>6, AnswerKeepsCore
<1>8. ASSUME NEW m \in Node PROVE QuietN(A2, m)
  <2>1. A2.a[m] \subseteq A.a[m] /\ A2.f[m] = A.f[m] /\ A2.l[m] = A.l[m] /\ A.l[m] \subseteq Snoops
    BY <1>1 DEF Dequeued, Untouched, CoreInv, AbsT
  <2>2. A.l[m] = {} /\ "WB_REP" \notin A.f[m] /\ ~(Dropped(A, m) /\ Upgrading(A, m))
    BY <1>2, <2>1 DEF WaitingN, Snoops
  <2> QED
    BY <2>1, <2>2 DEF QuietN, Dropped, Upgrading
<1> QED
  BY <1>7, <1>8 DEF Fresh, Quiet, Dequeued

\* The requester becomes a sharer, without a copy yet.
Waits(A, A2) ==
  /\ A2.a = A.a /\ A2.s = A.s /\ A2.f = A.f /\ A2.ln = A.ln /\ A2.tk = A.tk /\ A2.hx = A.hx
  /\ A2.wk = A.wk
  /\ A2.r.type = A.r.type /\ A2.r.node = A.r.node
  /\ A2.r.wait \/ A2.r.forwardingFrom # NoNode
  /\ A2.r.forwardingFrom # NoNode => A.r.type = "SH_REQ"
  /\ Joined(A, A2)
  /\ \/ A.r.type # "SH_REQ" /\ A.e.state = "UNCACHED" /\ A2.e.state = "MODIFIED"
     \/ A.r.type = "SH_REQ" /\ A.e.state = "UNCACHED" /\ A2.e.state \in {"SHARED", "EXCLUSIVE"}
     \/ A.r.type = "SH_REQ" /\ A.e.state = "SHARED" /\ A2.e.state = "SHARED"

\* The requester is entered as a sharer before the data is there: it is pending.
LEMMA WaitingKeepsCore ==
  ASSUME NEW A, Fresh(A), A.r.type \in Requests, NEW A2 \in AbsT, Waits(A, A2),
         \A m \in Node : A2.l[m] = {} \/ (Reachable(A, m) /\ \E t : A2.l[m] = {t})
  PROVE  CoreInv(A2) /\ A.r.node \in Node
<1> DEFINE n == A.r.node
<1>1. /\ n \in Node /\ A.r.type \in A.a[n] /\ A.a[n] # {} /\ A.s[n] = {} /\ ~Requesting(A, n) /\ A.tk[n]
      /\ ~Granted(A, n) /\ ~Dropped(A, n)
      /\ A.r.type # "SH_REQ" => A.hx[n]
      /\ A.r.type # "UPGRADE_REQ" => A.ln[n] = "INVALID"
      /\ A.r.type = "UPGRADE_REQ" => A.ln[n] \in {"INVALID", "SHARED_UPGRADING"}
      /\ n \in A.e.sharers <=> (A.ln[n] = "SHARED_UPGRADING" \/ Pending(A, n))
      /\ \A t \in A.a[n] : t = A.r.type
  BY Requester, FreshRequester DEF Fresh
<1>2. A.ln[n] = "INVALID"
  BY <1>1, FreshFacts DEF Waits, EntryInv, Requests
<1>3. HeadInv(A2)
  BY FreshFacts DEF Waits, HeadInv, Idles, Requests
<1>4. ASSUME NEW m \in Node PROVE CoreN(A2, m)
  <2>1. Single(A, m) /\ Present(A, m) /\ Token(A, m) /\ Lines(A, m) /\ Known(A, m)
    BY FreshFacts DEF CoreN
  <2>2. /\ A2.a[m] = A.a[m] /\ A2.s[m] = A.s[m] /\ A2.f[m] = A.f[m]
        /\ A2.ln[m] = A.ln[m] /\ A2.tk[m] = A.tk[m] /\ A2.hx[m] = A.hx[m] /\ A2.wk[m] = A.wk[m]
        /\ m # n => (m \in A2.e.sharers <=> m \in A.e.sharers)
        /\ m = n => m \in A2.e.sharers
        /\ Pending(A2, m) <=> m = n
    BY DEF Waits, Joined, Pending
  <2>3. Single(A2, m)
    BY <2>1, <2>2 DEF Single, Reachable, Granted
  <2>4. Present(A2, m)
    <3>1. m # n => ~Pending(A, m)
      BY DEF Pending
    <3> QED
      BY <1>1, <1>2, <2>1, <2>2, <3>1 DEF Present, Reachable, Granted, Dropped
  <2>5. Lines(A2, m)
    BY <2>1, <2>2 DEF Lines, Fetching, Upgrading, Dropped
  <2>6. A.e.state = "UNCACHED" => ~Reachable(A, m) /\ ~Dropped(A, m)
    BY <2>1, FreshFacts DEF Present, EntryInv
  <2>7. Token(A2, m)
    BY <1>1, <2>1, <2>2, <2>6 DEF Token, Requesting, Upgrading, Reachable, Granted, Waits
  <2>8. Known(A2, m)
    BY <1>1, <2>1, <2>2, <2>6 DEF Known, Reachable, Granted, Dropped, Waits, Owned
  <2> QED
    BY <2>3, <2>4, <2>5, <2>7, <2>8 DEF CoreN
<1> QED
  BY <1>1, <1>3, <1>4 DEF CoreInv, Waits, Joined

\* A request that is given no data waits for DRAM_READ_REP.
LEMMA AskDram ==
  ASSUME NEW A, Fresh(A), A.r.type \in Requests, NEW A2 \in AbsT, Waits(A, A2),
         A2.l = A.l, A2.r.wait, A2.rd
  PROVE  Stable(A2)
<1>1. \A m \in Node : A2.l[m] = {}
  BY FreshFacts DEF QuietN
<1>2. CoreInv(A2)
  BY <1>1, WaitingKeepsCore
<1>3. AwaitInv(A2)
  BY DEF AwaitInv, Waits, Requests
<1>4. ASSUME NEW m \in Node PROVE WaitingN(A2, m)
  <2>1. QuietN(A, m) /\ A2.f[m] = A.f[m] /\ A2.a[m] = A.a[m]
    BY FreshFacts DEF Waits
  <2> QED
    BY <1>1, <2>1 DEF WaitingN, QuietN, Dropped, Upgrading
<1> QED
  BY <1>2, <1>3, <1>4 DEF Stable, Waiting, Idles, Waits, Requests

\* WB_REQ to a sharer that forwards the block.
LEMMA AskForwarder ==
  ASSUME NEW A, Fresh(A), A.r.type = "SH_REQ", A.r.forwardingFrom = NoNode, A.e.state = "SHARED",
         NEW x \in A.e.sharers, NEW A2 \in AbsT, Waits(A, A2),
         ~A2.r.wait, A2.r.forwardingFrom = x, A2.rd = A.rd,
         Asked(A, A2, {x}, "WB_REQ")
  PROVE  Stable(A2)
<1> \A n \in Node : A2.l[n] = IF n = x /\ Reachable(A, n) THEN {"WB_REQ"} ELSE {}
  BY DEF Asked
<1>1. CoreInv(A2)
  BY WaitingKeepsCore DEF Requests
<1>2. A.r.node \in Node /\ A.r.node \notin A.e.sharers
  BY FetchedByOthers
<1>3. x \in Node /\ x # NoNode /\ ~Pending(A, x) /\ (Reachable(A, x) \/ Dropped(A, x))
  BY <1>2, FreshFacts, DirectoryAssumption DEF Pending
<1>4. Answering(A2, x)
  BY <1>3 DEF Answering, Dropped, Waits
<1>5. AwaitInv(A2)
  BY <1>2, <1>3, <1>4, FreshFacts DEF AwaitInv, Waits, Joined
<1>6. ASSUME NEW m \in Node PROVE WaitingN(A2, m)
  <2>1. QuietN(A, m) /\ A2.f[m] = A.f[m] /\ A2.a[m] = A.a[m] /\ A2.s[m] = A.s[m] /\ A2.ln[m] = A.ln[m]
    BY FreshFacts DEF Waits
  <2>2. A2.l[m] # {} => m = x /\ A2.l[m] = {"WB_REQ"}
    OBVIOUS
  <2> QED
    BY <2>1, <2>2, <1>3 DEF WaitingN, QuietN, Dropped, Upgrading, Waits, Joined
<1> QED
  BY <1>1, <1>5, <1>6 DEF Stable, Waiting, Idles, Waits

-----------------------------------------------------------------------------
(* Another request is at the head of the queue.                            *)

\* A directory entry that is new, or about to be nullified.
LEMMA NewHead ==
  ASSUME NEW A, CoreInv(A), Quiet(A), \A m \in Node : ~Pending(A, m),
         A.e.state = "SHARED" => A.r.type # "UPGRADE_REQ",
         NEW A2 \in AbsT, HeadInv(A2), ~A2.r.wait, A2.r.forwardingFrom = NoNode,
         Untouched(A, A2), A2.s = A.s, A2.rd = A.rd, \A m \in Node : A2.a[m] = A.a[m],
         \/ A2.e = A.e
         \/ A.e.state = "UNCACHED" /\ A2.e.state = "UNCACHED" /\ A2.e.sharers = {}
  PROVE  Fresh(A2)
<1>1. A.e.state = A2.e.state /\ A.e.sharers = A2.e.sharers /\ EntryInv(A2)
  BY DEF CoreInv, EntryInv, Owned
<1>2. ASSUME NEW m \in Node PROVE CoreN(A2, m) /\ QuietN(A2, m)
  <2>1. Single(A, m) /\ Present(A, m) /\ Token(A, m) /\ Lines(A, m) /\ Known(A, m) /\ QuietN(A, m)
    BY DEF CoreInv, CoreN, Quiet
  <2>2. /\ A2.a[m] = A.a[m] /\ A2.s[m] = A.s[m] /\ A2.f[m] = A.f[m] /\ A2.l[m] = A.l[m]
        /\ A2.ln[m] = A.ln[m] /\ A2.tk[m] = A.tk[m] /\ A2.hx[m] = A.hx[m] /\ A2.wk[m] = A.wk[m]
        /\ ~Pending(A2, m) /\ ~Pending(A, m)
    BY DEF Untouched, Pending
  <2>3. Single(A2, m) /\ Present(A2, m)
    BY <1>1, <2>1, <2>2 DEF Single, Present, Reachable, Granted, Dropped
  <2>4. Token(A2, m) /\ Lines(A2, m) /\ QuietN(A2, m)
    BY <1>1, <2>1, <2>2 DEF Token, Lines, QuietN, Requesting, Upgrading, Fetching, Dropped
  <2>5. Known(A2, m)
    BY <1>1, <2>1, <2>2 DEF Known
  <2> QED
    BY <2>3, <2>4, <2>5 DEF CoreN
<1> QED
  BY <1>1, <1>2 DEF Fresh, CoreInv, Quiet

-----------------------------------------------------------------------------
(* A message of a cache arrives at the directory.                          *)

\* Only the messages of n, and what they say, have changed.
Arrived(A, A2, n, t) ==
  /\ A2.s = A.s /\ A2.l = A.l /\ A2.rd = A.rd /\ A2.ln = A.ln /\ A2.tk = A.tk /\ A2.hx = A.hx
  /\ A2.wk = A.wk
  /\ t \in A.f[n] /\ \A m \in Node : A2.f[m] = IF m = n THEN A.f[n] \ {t} ELSE A.f[m]

\* A request that finds the queue empty is processed; another one waits for its turn.
LEMMA RequestArrives ==
  ASSUME NEW A, Stable(A), NEW n \in Node, NEW t \in Requests, NEW A2 \in AbsT, Arrived(A, A2, n, t),
         t # "UPGRADE_REQ" => ~Dropped(A, n), A2.e = A.e,
         \A m \in Node : A2.a[m] = IF m = n THEN {t} ELSE A.a[m],
         ~Idles(A) => A2.r = A.r,
         Idles(A) => A2.r.type = t /\ A2.r.node = n /\ ~A2.r.wait /\ A2.r.forwardingFrom = NoNode
  PROVE  (Idles(A) => Fresh(A2)) /\ (~Idles(A) => Stable(A2))
<1>1. CoreInv(A) /\ \A m \in Node : CoreN(A, m)
  BY DEF Stable, CoreInv
<1>2. Requesting(A, n) /\ A.a[n] = {} /\ A.s[n] = {}
  BY <1>1 DEF Arrived, Requesting, Requests, CoreN, Token
<1>3. EntryInv(A2)
  BY <1>1 DEF CoreInv, EntryInv
<1>4. HeadInv(A2)
  BY <1>1, <1>2 DEF CoreInv, HeadInv, Idles, Requests
<1>5. \A m \in Node : Pending(A2, m) <=> Pending(A, m)
  BY <1>1 DEF Pending, CoreInv, HeadInv, Idles, Requests
<1>6. ASSUME NEW m \in Node PROVE CoreN(A2, m)
  <2>1. Single(A, m) /\ Present(A, m) /\ Token(A, m) /\ Lines(A, m) /\ Known(A, m)
    BY <1>1 DEF CoreN
  <2>2. /\ A2.s[m] = A.s[m] /\ A2.l[m] = A.l[m] /\ A2.ln[m] = A.ln[m]
        /\ A2.tk[m] = A.tk[m] /\ A2.hx[m] = A.hx[m] /\ A2.wk[m] = A.wk[m]
    BY DEF Arrived
  <2>3. /\ m = n => A2.f[m] = A.f[m] \ {t} /\ t \in A.f[m] /\ A2.a[m] = {t}
        /\ m # n => A2.f[m] = A.f[m] /\ A2.a[m] = A.a[m]
    BY DEF Arrived
  <2>4. (Dropped(A2, m) <=> Dropped(A, m)) /\ ("WB_REP" \in A2.f[m] <=> "WB_REP" \in A.f[m])
        /\ (\A u \in Drops : u \in A2.f[m] <=> u \in A.f[m])
    BY <2>3 DEF Dropped, Drops, Requests
  <2>5. Single(A2, m)
    BY <2>1, <2>2, <2>3 DEF Single, Reachable, Granted
  <2>6. Present(A2, m)
    BY <2>1, <2>2, <2>4, <1>5 DEF Present, Reachable, Granted
  <2>7. (Upgrading(A2, m) <=> Upgrading(A, m)) /\ (Fetching(A2, m) <=> Fetching(A, m))
    BY <1>2, <2>3 DEF Upgrading, Fetching, Requests
  <2>8. m = n => ~Requesting(A2, m)
    BY <2>1, <2>3 DEF Requesting, Single, Requests
  <2>9. Token(A2, m)
    BY <1>2, <2>1, <2>2, <2>3, <2>7, <2>8 DEF Token, Requesting, Upgrading, Requests
  <2>10. Lines(A2, m)
    BY <2>1, <2>2, <2>3, <2>4, <2>7 DEF Lines, Requests
  <2>11. A.e.state = "SHARED" /\ "FLUSH_REP" \in A.f[m] => A2.r = A.r
    BY <2>1 DEF Known, Idles
  <2>12. Known(A2, m)
    BY <2>1, <2>2, <2>4, <2>11 DEF Known, Drops
  <2> QED
    BY <2>5, <2>6, <2>9, <2>10, <2>12 DEF CoreN
<1>7. ASSUME NEW m \in Node
      PROVE  /\ A2.l[m] = A.l[m] /\ A2.s[m] = A.s[m] /\ A2.ln[m] = A.ln[m]
             /\ ("WB_REP" \in A2.f[m] <=> "WB_REP" \in A.f[m])
             /\ (Dropped(A2, m) <=> Dropped(A, m)) /\ (Upgrading(A2, m) <=> Upgrading(A, m))
             /\ (Answering(A2, m) <=> Answering(A, m))
  BY <1>2 DEF Arrived, Dropped, Upgrading, Requests, Answering
<1>8. ASSUME Idles(A) PROVE Fresh(A2)
  <2>1. Quiet(A2)
    BY <1>7, <1>8 DEF Stable, Quiet, QuietN, Arrived
  <2> QED
    BY <1>3, <1>4, <1>6, <1>8, <2>1 DEF Fresh, CoreInv
<1>9. ASSUME ~Idles(A) PROVE Stable(A2)
  <2>1. A2.r = A.r /\ A2.e = A.e /\ A2.rd = A.rd /\ ~Idles(A2)
    BY <1>9 DEF Arrived, Idles
  <2>2. AwaitInv(A)
    BY <1>9 DEF Stable, Waiting
  <2>3. A.e.sharers \subseteq Node /\ A.e.owner \in Node \cup {NoNode} /\ A.r.forwardingFrom \in Node \cup {NoNode}
    BY <1>1 DEF CoreInv, AbsT, EntryT, HeadT
  <2>4. AwaitInv(A2)
    <3>1. A.e.state \in Owned => A.e.owner \in Node
      BY <1>1, <2>3 DEF CoreInv, EntryInv
    <3> QED
      BY <1>7, <2>1, <2>2, <2>3, <3>1 DEF AwaitInv
  <2>5. ASSUME NEW m \in Node PROVE WaitingN(A2, m)
    <3>1. WaitingN(A, m)
      BY <1>9 DEF Stable, Waiting
    <3> QED
      BY <1>7, <2>1, <3>1 DEF WaitingN
  <2> QED
    BY <1>3, <1>4, <1>6, <2>1, <2>4, <2>5 DEF Stable, CoreInv, Waiting
<1> QED
  BY <1>8, <1>9

\* n has given its copy up.
Removed(A, A2, n) ==
  /\ A2.r = A.r /\ A2.a = A.a
  /\ A2.e.sharers = A.e.sharers \ {n}
  /\ A2.e.state = IF A.e.sharers \ {n} = {} THEN "UNCACHED" ELSE A.e.state

\* One that has given its copy up says so once, and has not been asked again.
LEMMA DropperFacts ==
  ASSUME NEW A, Stable(A), NEW n \in Node, Dropped(A, n)
  PROVE  /\ CoreInv(A) /\ n \in A.e.sharers /\ ~Reachable(A, n) /\ ~Pending(A, n) /\ A.l[n] = {}
         /\ A.e.sharers # {n} => A.e.state = "SHARED"
         /\ A.e.state # "UNCACHED"
         /\ A.e.state \in Owned => A.e.sharers = {n} /\ A.e.owner = n
<1>1. CoreInv(A) /\ Present(A, n) /\ Single(A, n) /\ EntryInv(A) /\ A.e \in EntryT
  BY DEF Stable, CoreInv, CoreN, AbsT
<1> QED
  BY <1>1 DEF Present, Reachable, EntryInv, EntryT, Owned, Single

\* Removing a node that has given its copy up keeps the facts about each node.
LEMMA DropKeepsCore ==
  ASSUME NEW A, Stable(A), NEW n \in Node, NEW t \in Drops, NEW A2 \in AbsT, Arrived(A, A2, n, t),
         Removed(A, A2, n), A2.e.owner = A.e.owner \/ A.e.sharers = {n} \/ A.e.state = "SHARED"
  PROVE  CoreInv(A2) /\ ~Dropped(A2, n)
<1>1. Dropped(A, n)
  BY DEF Arrived, Dropped, Drops
<1>2. /\ CoreInv(A) /\ n \in A.e.sharers /\ ~Reachable(A, n) /\ ~Pending(A, n) /\ A.l[n] = {}
      /\ A.e.sharers # {n} => A.e.state = "SHARED"
      /\ A.e.state # "UNCACHED"
      /\ A.e.state \in Owned => A.e.sharers = {n} /\ A.e.owner = n
  BY <1>1, DropperFacts
<1>3. EntryInv(A2)
  BY <1>2 DEF CoreInv, EntryInv, Removed, Owned
<1>4. HeadInv(A2)
  BY <1>2 DEF CoreInv, HeadInv, Idles, Removed
<1>5. ASSUME NEW m \in Node PROVE CoreN(A2, m)
  <2>1. Single(A, m) /\ Present(A, m) /\ Token(A, m) /\ Lines(A, m) /\ Known(A, m)
    BY <1>2 DEF CoreInv, CoreN
  <2>2. /\ A2.s[m] = A.s[m] /\ A2.l[m] = A.l[m] /\ A2.ln[m] = A.ln[m]
        /\ A2.tk[m] = A.tk[m] /\ A2.hx[m] = A.hx[m] /\ A2.wk[m] = A.wk[m] /\ A2.a[m] = A.a[m]
        /\ Pending(A2, m) <=> Pending(A, m)
    BY DEF Arrived, Removed, Pending
  <2>3. /\ m = n => A2.f[m] = A.f[m] \ {t} /\ t \in A.f[m] /\ m \notin A2.e.sharers
        /\ m # n => A2.f[m] = A.f[m] /\ (m \in A2.e.sharers <=> m \in A.e.sharers)
    BY DEF Arrived, Removed
  <2>4. \A u \in Requests \cup {"WB_REP"} : u \in A2.f[m] <=> u \in A.f[m]
    BY <2>3 DEF Drops, Requests
  <2>5. m = n => ~Dropped(A2, m)
    BY <2>1, <2>3 DEF Single, Dropped, Drops
  <2>6. Single(A2, m)
    BY <2>1, <2>2, <2>3 DEF Single, Reachable, Granted
  <2>7. Present(A2, m)
    BY <1>2, <2>1, <2>2, <2>3, <2>5 DEF Present, Reachable, Granted, Dropped
  <2>8. Upgrading(A2, m) <=> Upgrading(A, m)
    BY <2>2, <2>4 DEF Upgrading, Requests
  <2>9. Token(A2, m)
    <3>1. A2.e.state = "MODIFIED" => A.e.state = "MODIFIED"
      BY DEF Removed
    <3> QED
      BY <2>1, <2>2, <2>4, <2>8, <3>1 DEF Token, Requesting, Requests
  <2>10. Lines(A2, m)
    BY <2>1, <2>2, <2>3, <2>4, <2>5, <2>8 DEF Lines, Fetching, Requests, Dropped
  <2>11. Known(A2, m)
    <3>0. "UPGRADE_REP" \in A.s[m] => Reachable(A, m)
      BY <2>1 DEF Lines, Reachable
    <3>1. CASE m = n
      BY <1>2, <2>1, <2>2, <2>3, <2>5, <3>0, <3>1 DEF Known, Dropped, Reachable, Granted, Owned
    <3>2. CASE m # n
      <4>1. A2.f[m] = A.f[m]
        BY <2>3, <3>2
      <4>2. A2.e.state = A.e.state \/ (A2.e.state = "UNCACHED" /\ ~Dropped(A, m) /\ ~Reachable(A, m))
        BY <2>1, <2>3, <3>2 DEF Removed, Present
      <4> QED
        BY <2>1, <2>2, <4>1, <4>2, <2>3, <3>0, <3>2 DEF Known, Dropped, Owned, Removed
    <3> QED
      BY <3>1, <3>2
  <2> QED
    BY <2>6, <2>7, <2>9, <2>10, <2>11 DEF CoreN
<1>6. ~Dropped(A2, n)
  BY <1>2 DEF Arrived, Dropped, Drops, CoreInv, CoreN, Single
<1> QED
  BY <1>3, <1>4, <1>5, <1>6 DEF CoreInv

\* An INV_REP, or an unasked FLUSH_REP, for a block without a request.
LEMMA DropWhileIdle ==
  ASSUME NEW A, Stable(A), Idles(A), NEW n \in Node, NEW t \in Drops, NEW A2 \in AbsT,
         Arrived(A, A2, n, t), Removed(A, A2, n), CoreInv(A2)
  PROVE  Stable(A2)
<1>1. Idles(A2) /\ Quiet(A)
  BY DEF Stable, Removed, Idles
<1>2. ASSUME NEW m \in Node PROVE QuietN(A2, m)
  <2>1. QuietN(A, m) /\ A2.l[m] = A.l[m] /\ A2.f[m] \subseteq A.f[m] /\ A2.a[m] = A.a[m]
    BY <1>1 DEF Quiet, Arrived, Removed
  <2> QED
    BY <2>1 DEF QuietN, Dropped, Upgrading
<1> QED
  BY <1>1, <1>2 DEF Stable, Quiet, Arrived

\* The last copy that the request in progress had to wait for is gone.
LEMMA LastDrop ==
  ASSUME NEW A, Stable(A), ~Idles(A), NEW n \in Node, NEW t \in Drops, NEW A2 \in AbsT,
         Arrived(A, A2, n, t), Removed(A, A2, n), CoreInv(A2), ~Dropped(A2, n), ~A.r.wait,
         "WB_REP" \notin A.f[n],
         \/ A.e.sharers = {n}
         \/ A.r.type = "UPGRADE_REQ" /\ A.e.sharers \subseteq {n, A.r.node}
         \/ A.r.type = "SH_REQ" /\ A.r.forwardingFrom = n
  PROVE  Fresh(A2)
<1>1. Dropped(A, n)
  BY DEF Arrived, Dropped, Drops
<1>2. /\ CoreInv(A) /\ n \in A.e.sharers /\ ~Reachable(A, n) /\ ~Pending(A, n) /\ A.l[n] = {}
      /\ A.e.sharers # {n} => A.e.state = "SHARED"
      /\ A.e.state # "UNCACHED"
      /\ A.e.state \in Owned => A.e.sharers = {n} /\ A.e.owner = n
  BY <1>1, DropperFacts
<1>3. Waiting(A) /\ AwaitInv(A) /\ ~A.rd
  BY DEF Stable, Waiting, AwaitInv
<1>4. ASSUME NEW m \in Node PROVE QuietN(A2, m)
  <2>1. /\ WaitingN(A, m) /\ A2.l[m] = A.l[m] /\ A2.a[m] = A.a[m]
        /\ m # n => A2.f[m] = A.f[m]
        /\ m = n => A2.f[m] = A.f[m] \ {t}
    BY <1>3 DEF Waiting, Arrived, Removed
  <2>2. Present(A, m) /\ Single(A, m) /\ A.l[m] \subseteq Snoops
    BY <1>2 DEF CoreInv, CoreN, AbsT
  <2>3. A.l[m] = {}
    <3>1. CASE m = n
      BY <1>2, <3>1
    <3>2. CASE m # n /\ m \notin A.e.sharers
      BY <2>2, <3>2 DEF Single, Present
    <3>3. CASE m # n /\ m \in A.e.sharers
      <4>1. A.e.state = "SHARED" /\ A.e.sharers # {n}
        BY <1>2, <3>3
      <4>2. CASE A.r.type = "UPGRADE_REQ" /\ A.e.sharers \subseteq {n, A.r.node}
        <5>1. m = A.r.node
          BY <3>3, <4>2
        <5> QED
          BY <2>1, <2>2, <3>3, <4>1, <4>2, <5>1 DEF WaitingN, Snoops
      <4>3. CASE A.r.type = "SH_REQ" /\ A.r.forwardingFrom = n
        BY <2>1, <2>2, <3>3, <4>1, <4>3 DEF WaitingN, Snoops, Kills
      <4> QED
        BY <4>1, <4>2, <4>3
    <3> QED
      BY <3>1, <3>2, <3>3
  <2>4. "WB_REP" \notin A2.f[m]
    <3>1. ASSUME "WB_REP" \in A2.f[m] PROVE FALSE
      <4>1. "WB_REP" \in A.f[m] /\ m \in A.e.sharers /\ A.r.type = "SH_REQ"
        BY <2>1, <3>1 DEF WaitingN
      <4>2. m = n
        BY <1>2, <2>1, <4>1 DEF WaitingN
      <4> QED
        BY <4>1, <4>2
    <3> QED
      BY <3>1
  <2>5. ~(Dropped(A2, m) /\ Upgrading(A2, m))
    <3>1. ASSUME Dropped(A2, m), Upgrading(A2, m) PROVE FALSE
      <4>1. m # n
        BY <3>1
      <4>2. Dropped(A, m) /\ Upgrading(A, m)
        BY <3>1, <4>1, <2>1 DEF Dropped, Upgrading
      <4>3. m \in A.e.sharers /\ A.r.type \in Kills /\ (A.r.type = "NULLIFY_REQ" \/ A.r.node # m)
        BY <4>2, <2>1, <2>2 DEF Present, WaitingN
      <4> QED
        BY <4>1, <4>3 DEF Kills
    <3> QED
      BY <3>1
  <2> QED
    BY <2>3, <2>4, <2>5, <2>1 DEF QuietN
<1>5. A2.r.forwardingFrom # NoNode => A2.e.state = "SHARED"
  <2>1. ASSUME A.r.forwardingFrom # NoNode PROVE A2.e.state = "SHARED"
    <3>1. A.r.type = "SH_REQ" /\ A.e.state = "SHARED" /\ A.r.node \in Node
      BY <1>2, <1>3, <2>1 DEF CoreInv, HeadInv, AwaitInv, Idles
    <3>2. Pending(A, A.r.node) /\ A.r.node # n
      BY <1>2, <2>1, <3>1 DEF Pending, Requests
    <3>3. A.r.node \in A.e.sharers
      BY <1>2, <3>1, <3>2 DEF CoreInv, CoreN, Present
    <3> QED
      BY <3>1, <3>2, <3>3 DEF Removed
  <2> QED
    BY <2>1 DEF Removed
<1> QED
  BY <1>3, <1>4, <1>5 DEF Fresh, Quiet, Arrived, Removed

\* Others still have to answer, or the DRAM.
LEMMA DropWhileWaiting ==
  ASSUME NEW A, Stable(A), ~Idles(A), NEW n \in Node, NEW t \in Drops, NEW A2 \in AbsT,
         Arrived(A, A2, n, t), Removed(A, A2, n), CoreInv(A2), ~Dropped(A2, n), A.e.state = "SHARED",
         A.r.type \in {"EX_REQ", "NULLIFY_REQ"} => A.e.sharers # {n},
         A.r.type = "UPGRADE_REQ" => A.e.sharers \ {n, A.r.node} # {},
         A.r.type = "SH_REQ" => A.r.wait \/ A.r.forwardingFrom \notin {NoNode, n}
  PROVE  Stable(A2)
<1>1. Dropped(A, n)
  BY DEF Arrived, Dropped, Drops
<1>2. /\ CoreInv(A) /\ n \in A.e.sharers /\ ~Reachable(A, n) /\ ~Pending(A, n) /\ A.l[n] = {}
  BY <1>1, DropperFacts
<1>3. Waiting(A) /\ AwaitInv(A)
  BY DEF Stable, Waiting
<1>4. A.r.node \in Node /\ A.r.type \in Requests \cup {"NULLIFY_REQ"}
  BY <1>2 DEF CoreInv, HeadInv, Idles, AbsT, HeadT
<1>5. A2.e.state = "SHARED" /\ A2.e.sharers = A.e.sharers \ {n} /\ A2.r = A.r /\ A2.rd = A.rd
  <2>1. A.r.type = "SH_REQ" => A.r.node \in A.e.sharers \ {n}
    <3>1. ASSUME A.r.type = "SH_REQ" PROVE A.r.node \in A.e.sharers \ {n}
      <4>1. Pending(A, A.r.node) /\ A.r.node # n
        BY <1>2, <3>1 DEF Pending, Requests
      <4> QED
        BY <1>2, <1>4, <4>1 DEF CoreInv, CoreN, Present
    <3> QED
      BY <3>1
  <2>2. A.e.sharers \ {n} # {}
    BY <1>2, <1>4, <2>1 DEF Requests
  <2> QED
    BY <2>2 DEF Removed, Arrived
<1>6. \A m \in Node : m # n => (Answering(A2, m) <=> Answering(A, m))
  BY DEF Answering, Dropped, Arrived
<1>7. A.e.sharers \subseteq Node
  BY <1>2 DEF CoreInv, AbsT, EntryT
<1>8. AwaitInv(A2)
  <2>1. A.r.wait => A.r.type = "SH_REQ"
    BY <1>2, <1>3, <1>4 DEF AwaitInv, CoreInv, HeadInv, Requests
  <2> QED
    BY <1>3, <1>5, <1>6, <1>7, <1>4, <2>1 DEF AwaitInv, Requests
<1>9. ASSUME NEW m \in Node PROVE WaitingN(A2, m)
  <2>1. /\ WaitingN(A, m) /\ A2.l[m] = A.l[m] /\ A2.a[m] = A.a[m] /\ A2.ln[m] = A.ln[m] /\ A2.s[m] = A.s[m]
        /\ m # n => A2.f[m] = A.f[m]
        /\ m = n => A2.f[m] = A.f[m] \ {t}
    BY <1>3 DEF Waiting, Arrived, Removed
  <2>2. CASE m # n
    BY <1>5, <2>1, <2>2 DEF WaitingN, Dropped, Upgrading
  <2>3. CASE m = n
    <3>1. "WB_REP" \in A.f[n] => A.r.type = "SH_REQ" /\ A.r.forwardingFrom = n /\ ~A.r.wait
      BY <2>1, <2>3 DEF WaitingN
    <3> QED
      BY <1>2, <1>4, <1>5, <2>1, <2>3, <3>1, DirectoryAssumption DEF WaitingN, Requests
  <2> QED
    BY <2>2, <2>3
<1> QED
  BY <1>5, <1>8, <1>9 DEF Stable, Waiting, Idles

\* After an INV_REP, processInvRep goes on with the request exactly if no other copy is awaited.
LEMMA InvRepArrives ==
  ASSUME NEW A, Stable(A), NEW n \in Node, NEW A2 \in AbsT, Arrived(A, A2, n, "INV_REP"),
         "WB_REP" \notin A.f[n], Removed(A, A2, n), A2.e.owner = A.e.owner
  PROVE  /\ Idles(A) => Stable(A2)
         /\ ~Idles(A) /\ InvRepReady(A.r, A2.e.sharers, n) => Fresh(A2)
         /\ ~Idles(A) /\ ~InvRepReady(A.r, A2.e.sharers, n) => Stable(A2)
<1>1. Dropped(A, n) /\ "INV_REP" \in Drops
  BY DEF Arrived, Dropped, Drops
<1>2. /\ CoreInv(A) /\ n \in A.e.sharers /\ ~Reachable(A, n) /\ ~Pending(A, n) /\ A.l[n] = {}
      /\ A.e.sharers # {n} => A.e.state = "SHARED"
      /\ A.e.state # "UNCACHED"
      /\ A.e.state \in Owned => A.e.sharers = {n} /\ A.e.owner = n
  BY <1>1, DropperFacts
<1>3. CoreInv(A2) /\ ~Dropped(A2, n)
  BY <1>1, DropKeepsCore
<1>4. A.e.state \in {"SHARED", "EXCLUSIVE"}
  BY <1>2 DEF CoreInv, CoreN, Known, Arrived
<1>5. ~Idles(A) => AwaitInv(A) /\ A.r.node \in Node /\ A.r.type \in Requests \cup {"NULLIFY_REQ"}
  BY <1>2 DEF Stable, Waiting, CoreInv, HeadInv, AbsT, HeadT, Idles
<1>6. A2.e.sharers = A.e.sharers \ {n}
  BY DEF Removed
<1>7. ASSUME ~Idles(A), A.r.wait PROVE A.e.state = "SHARED" /\ A.r.type = "SH_REQ"
  <2>1. A.r.type = "SH_REQ"
    BY <1>2, <1>4, <1>5, <1>7 DEF AwaitInv, CoreInv, HeadInv, Requests
  <2>2. Pending(A, A.r.node)
    BY <1>7, <2>1 DEF Pending, Requests
  <2>3. A.r.node \in A.e.sharers /\ A.r.node # n
    BY <1>2, <1>5, <1>7, <2>2 DEF CoreInv, CoreN, Present
  <2> QED
    BY <1>2, <2>1, <2>3
<1>8. ASSUME ~Idles(A), InvRepReady(A.r, A2.e.sharers, n) PROVE Fresh(A2)
  <2>1. ~A.r.wait
    BY <1>7, <1>8 DEF InvRepReady
  <2>2. \/ A.e.sharers = {n}
        \/ A.r.type = "UPGRADE_REQ" /\ A.e.sharers \subseteq {n, A.r.node}
        \/ A.r.type = "SH_REQ" /\ A.r.forwardingFrom = n
    <3>1. CASE A.r.type = "SH_REQ"
      BY <1>2, <1>5, <1>8, <2>1, <3>1 DEF InvRepReady, AwaitInv
    <3>2. CASE A.r.type # "SH_REQ"
      BY <1>2, <1>6, <1>8, <3>2 DEF InvRepReady
    <3> QED
      BY <3>1, <3>2
  <2> QED
    BY <1>1, <1>3, <1>8, <2>1, <2>2, LastDrop
<1>9. ASSUME ~Idles(A), ~InvRepReady(A.r, A2.e.sharers, n) PROVE Stable(A2)
  <2>1. A.r.type \in {"EX_REQ", "NULLIFY_REQ"} => A.e.sharers # {n}
    BY <1>6, <1>9 DEF InvRepReady
  <2>2. A.r.type = "UPGRADE_REQ" => A.e.sharers \ {n, A.r.node} # {}
    BY <1>6, <1>9 DEF InvRepReady
  <2>3. A.r.type = "SH_REQ" => A.r.wait \/ A.r.forwardingFrom \notin {NoNode, n}
    BY <1>9 DEF InvRepReady
  <2>4. A.e.state = "SHARED"
    <3>1. CASE A.r.type = "SH_REQ" /\ ~A.r.wait
      BY <1>5, <1>9, <2>3, <3>1 DEF AwaitInv
    <3>2. CASE A.r.type # "SH_REQ"
      BY <1>2, <1>5, <1>9, <2>1, <2>2, <3>2 DEF Requests
    <3> QED
      BY <1>7, <1>9, <3>1, <3>2
  <2> QED
    BY <1>1, <1>3, <1>9, <2>1, <2>2, <2>3, <2>4, DropWhileWaiting
<1> QED
  BY <1>1, <1>3, <1>8, <1>9, DropWhileIdle

\* After a FLUSH_REP, processFlushRep goes on unless an upgrade waits for further sharers.
LEMMA FlushRepArrives ==
  ASSUME NEW A, Stable(A), NEW n \in Node, NEW A2 \in AbsT, Arrived(A, A2, n, "FLUSH_REP"),
         Removed(A, A2, n)
  PROVE  /\ Idles(A) => Stable(A2)
         /\ A.r.type = "UPGRADE_REQ" /\ A2.e.sharers # {} => Stable(A2)
         /\ ~Idles(A) /\ ~(A.r.type = "UPGRADE_REQ" /\ A2.e.sharers # {}) => Fresh(A2)
<1>1. Dropped(A, n) /\ "FLUSH_REP" \in Drops
  BY DEF Arrived, Dropped, Drops
<1>2. /\ CoreInv(A) /\ n \in A.e.sharers /\ ~Reachable(A, n) /\ ~Pending(A, n) /\ A.l[n] = {}
      /\ A.e.sharers # {n} => A.e.state = "SHARED"
      /\ A.e.state # "UNCACHED"
      /\ A.e.state \in Owned => A.e.sharers = {n} /\ A.e.owner = n
  BY <1>1, DropperFacts
<1>3. CoreInv(A2) /\ ~Dropped(A2, n)
  BY <1>1, <1>2, DropKeepsCore
<1>4. /\ "WB_REP" \notin A.f[n]
      /\ A.e.state = "SHARED" => A.r.type = "UPGRADE_REQ" /\ ~A.r.wait /\ A.r.node \notin A.e.sharers
  BY <1>2 DEF CoreInv, CoreN, Known, Arrived
<1>5. A2.e.sharers = A.e.sharers \ {n}
  BY DEF Removed
<1>6. ASSUME ~Idles(A), A.r.wait PROVE FALSE
  <2>1. Pending(A, A.r.node) /\ A.r.node \in Node
    BY <1>2, <1>6 DEF Pending, CoreInv, HeadInv, Idles
  <2>2. A.r.node \in A.e.sharers /\ A.r.node # n
    BY <1>2, <2>1 DEF CoreInv, CoreN, Present
  <2> QED
    BY <1>2, <1>4, <1>6, <2>2
<1>7. ASSUME A.r.type = "UPGRADE_REQ", A2.e.sharers # {} PROVE Stable(A2)
  <2>1. A.e.state = "SHARED" /\ A.e.sharers \ {n, A.r.node} # {} /\ ~Idles(A)
    BY <1>2, <1>4, <1>5, <1>7 DEF Idles
  <2> QED
    BY <1>1, <1>3, <1>7, <2>1, DropWhileWaiting
<1>8. ASSUME ~Idles(A), ~(A.r.type = "UPGRADE_REQ" /\ A2.e.sharers # {}) PROVE Fresh(A2)
  <2>1. A.e.sharers = {n}
    BY <1>2, <1>4, <1>5, <1>8
  <2> QED
    BY <1>1, <1>3, <1>4, <1>6, <1>8, <2>1, LastDrop
<1> QED
  BY <1>1, <1>3, <1>7, <1>8, DropWhileIdle

\* The owner, or the forwarder, has written the block back and keeps it.
LEMMA WbRepArrives ==
  ASSUME NEW A, Stable(A), NEW n \in Node, NEW A2 \in AbsT, Arrived(A, A2, n, "WB_REP"),
         A2.r = A.r, A2.a = A.a, A2.e.sharers = A.e.sharers, A2.e.state = "SHARED"
  PROVE  Fresh(A2) /\ A.r.type = "SH_REQ"
<1>1. CoreInv(A) /\ ~Idles(A) /\ Waiting(A)
  BY DEF Stable, Quiet, QuietN, Arrived
<1>2. /\ A.r.type = "SH_REQ" /\ ~A.r.wait /\ n \in A.e.sharers
      /\ A.r.forwardingFrom = IF A.e.state = "SHARED" THEN n ELSE NoNode
      /\ A.ln[n] \notin Owned /\ A.s[n] = {} /\ A.l[n] = {}
  BY <1>1 DEF Waiting, WaitingN, Arrived
<1>3. /\ A.e.state # "UNCACHED" /\ A.e \in EntryT
      /\ A.e.state # "SHARED" => A.e.state \in Owned /\ A.e.sharers = {n}
  BY <1>1, <1>2 DEF CoreInv, EntryInv, AbsT, EntryT, Owned
<1>4. EntryInv(A2)
  BY <1>2 DEF EntryInv, Owned
<1>5. HeadInv(A2)
  BY <1>1 DEF CoreInv, HeadInv, Idles
<1>6. ASSUME NEW m \in Node PROVE CoreN(A2, m) /\ QuietN(A2, m)
  <2>1. Single(A, m) /\ Present(A, m) /\ Token(A, m) /\ Lines(A, m) /\ Known(A, m) /\ WaitingN(A, m)
        /\ A.l[m] \subseteq Snoops
    BY <1>1 DEF CoreInv, CoreN, Waiting, AbsT
  <2>2. /\ A2.s[m] = A.s[m] /\ A2.l[m] = A.l[m] /\ A2.ln[m] = A.ln[m]
        /\ A2.tk[m] = A.tk[m] /\ A2.hx[m] = A.hx[m] /\ A2.wk[m] = A.wk[m] /\ A2.a[m] = A.a[m]
        /\ Pending(A2, m) <=> Pending(A, m)
    BY DEF Arrived, Pending
  <2>3. \A u \in Requests \cup Drops : u \in A2.f[m] <=> u \in A.f[m]
    BY DEF Arrived, Requests, Drops
  <2>4. m # n => A2.f[m] = A.f[m]
    BY DEF Arrived
  <2>5. /\ Dropped(A2, m) <=> Dropped(A, m)
        /\ Upgrading(A2, m) <=> Upgrading(A, m)
        /\ Fetching(A2, m) <=> Fetching(A, m)
        /\ Requesting(A2, m) <=> Requesting(A, m)
        /\ Reachable(A2, m) <=> Reachable(A, m)
        /\ Granted(A2, m) <=> Granted(A, m)
        /\ A2.f[m] \cap Requests = A.f[m] \cap Requests
    BY <2>2, <2>3 DEF Dropped, Upgrading, Fetching, Requesting, Reachable, Granted, Requests, Drops
  <2>6. Single(A2, m)
    BY <2>1, <2>2, <2>3, <2>5 DEF Single, Drops
  <2>7. Present(A2, m)
    BY <2>1, <2>2, <2>5 DEF Present
  <2>8. Token(A2, m)
    BY <2>1, <2>2, <2>3, <2>5 DEF Token, Requests
  <2>9. Lines(A2, m)
    BY <2>1, <2>2, <2>5 DEF Lines
  <2>10. "WB_REP" \notin A2.f[m]
    <3>1. ASSUME "WB_REP" \in A.f[m] PROVE m = n
      <4>1. m \in A.e.sharers /\ A.r.forwardingFrom = IF A.e.state = "SHARED" THEN m ELSE NoNode
        BY <2>1, <3>1 DEF WaitingN
      <4> QED
        BY <1>2, <1>3, <4>1
    <3> QED
      BY <3>1 DEF Arrived
  <2>11. A.l[m] = {}
    <3>1. ASSUME A.l[m] # {} PROVE m = n
      <4>1. "WB_REQ" \in A.l[m]
        BY <1>2, <2>1, <3>1 DEF WaitingN, Kills, Snoops
      <4>2. m \in A.e.sharers /\ A.r.forwardingFrom = IF A.e.state = "SHARED" THEN m ELSE NoNode
        BY <2>1, <4>1 DEF WaitingN
      <4> QED
        BY <1>2, <1>3, <4>2
    <3> QED
      BY <3>1, <1>2
  <2>12. Known(A2, m)
    <3>1. /\ A.ln[m] \notin Owned /\ "EX_REP" \notin A.s[m] /\ "FLUSH_REP" \notin A.f[m]
          /\ "UPGRADE_REP" \notin A.s[m]
      <4>1. CASE A.e.state = "SHARED"
        BY <1>2, <2>1, <4>1 DEF Known
      <4>2. CASE A.e.state # "SHARED" /\ m = n
        BY <1>2, <2>1, <4>2 DEF Known, Arrived
      <4>3. CASE A.e.state # "SHARED" /\ m # n
        BY <1>3, <2>1, <4>3 DEF Present, Reachable, Granted, Dropped, Owned, Lines
      <4> QED
        BY <4>1, <4>2, <4>3
    <3> QED
      BY <2>2, <2>3, <3>1 DEF Known, Owned, Drops
  <2>13. ~(Dropped(A2, m) /\ Upgrading(A2, m))
    BY <1>2, <2>1, <2>5 DEF WaitingN, Kills
  <2> QED
    BY <2>2, <2>6, <2>7, <2>8, <2>9, <2>10, <2>11, <2>12, <2>13 DEF CoreN, QuietN
<1>7. ~A2.rd
  BY <1>1, <1>2 DEF Waiting, AwaitInv, Arrived
<1> QED
  BY <1>2, <1>4, <1>5, <1>6, <1>7 DEF Fresh, CoreInv, Quiet

-----------------------------------------------------------------------------
(* A step of the last-level cache of node n.                               *)

\* Nothing changes but at n.
OnlyAt(A, A2, n) ==
  /\ A2.e = A.e /\ A2.r = A.r /\ A2.a = A.a /\ A2.rd = A.rd
  /\ \A m \in Node : m # n =>
       /\ A2.s[m] = A.s[m] /\ A2.l[m] = A.l[m] /\ A2.f[m] = A.f[m] /\ A2.ln[m] = A.ln[m]
       /\ A2.tk[m] = A.tk[m] /\ A2.hx[m] = A.hx[m] /\ A2.wk[m] = A.wk[m]

\* A step of one cache is sound if it is so for the node itself, and the node still answers what it has been asked.
LEMMA CacheStep ==
  ASSUME NEW A, Stable(A), NEW n \in Node, NEW A2 \in AbsT, OnlyAt(A, A2, n), CoreN(A2, n),
         Idles(A) => QuietN(A2, n),
         ~Idles(A) => WaitingN(A2, n),
         Answering(A, n) => Answering(A2, n)
  PROVE  Stable(A2)
<1>1. CoreInv(A) /\ A.e \in EntryT /\ A.r \in HeadT
  BY DEF Stable, CoreInv, AbsT
<1>2. EntryInv(A2) /\ HeadInv(A2) /\ (Idles(A2) <=> Idles(A))
  BY <1>1 DEF CoreInv, EntryInv, HeadInv, Idles, OnlyAt
<1>3. ASSUME NEW m \in Node, m # n
      PROVE  CoreN(A2, m) /\ (QuietN(A2, m) <=> QuietN(A, m)) /\ (WaitingN(A2, m) <=> WaitingN(A, m))
             /\ (Answering(A2, m) <=> Answering(A, m))
  <2>1. /\ A2.s[m] = A.s[m] /\ A2.l[m] = A.l[m] /\ A2.f[m] = A.f[m] /\ A2.ln[m] = A.ln[m]
        /\ A2.tk[m] = A.tk[m] /\ A2.hx[m] = A.hx[m] /\ A2.wk[m] = A.wk[m]
        /\ A2.e = A.e /\ A2.r = A.r /\ A2.a = A.a
    BY <1>3 DEF OnlyAt
  <2>2. Single(A, m) /\ Present(A, m) /\ Token(A, m) /\ Lines(A, m) /\ Known(A, m)
    BY <1>1 DEF CoreInv, CoreN
  <2>3. Single(A2, m) /\ Present(A2, m)
    BY <2>1, <2>2 DEF Single, Present, Reachable, Granted, Dropped, Pending
  <2>4. Token(A2, m) /\ Lines(A2, m)
    BY <2>1, <2>2 DEF Token, Lines, Requesting, Upgrading, Fetching, Dropped
  <2>5. Known(A2, m)
    BY <2>1, <2>2 DEF Known
  <2>6. QuietN(A2, m) <=> QuietN(A, m)
    BY <2>1 DEF QuietN, Dropped, Upgrading
  <2>7. WaitingN(A2, m) <=> WaitingN(A, m)
    BY <2>1 DEF WaitingN, Dropped, Upgrading
  <2>8. Answering(A2, m) <=> Answering(A, m)
    BY <2>1 DEF Answering, Dropped
  <2> QED
    BY <2>3, <2>4, <2>5, <2>6, <2>7, <2>8 DEF CoreN
<1>4. CoreInv(A2)
  BY <1>2, <1>3 DEF CoreInv
<1>5. CASE Idles(A)
  BY <1>2, <1>3, <1>4, <1>5 DEF Stable, Quiet, OnlyAt
<1>6. CASE ~Idles(A)
  <2>1. AwaitInv(A)
    BY <1>6 DEF Stable, Waiting
  <2>2. A.e.sharers \subseteq Node /\ (A.e.state \in Owned => A.e.owner \in Node)
        /\ A.r.forwardingFrom \in Node \cup {NoNode}
    BY <1>1 DEF EntryT, HeadT, CoreInv, EntryInv
  <2>3. \A m \in Node : Answering(A, m) => Answering(A2, m)
    BY <1>3
  <2>4. AwaitInv(A2)
    BY <2>1, <2>2, <2>3 DEF AwaitInv, OnlyAt
  <2>5. \A m \in Node : WaitingN(A2, m)
    BY <1>3, <1>6 DEF Stable, Waiting
  <2> QED
    BY <1>2, <1>4, <1>6, <2>4, <2>5 DEF Stable, Waiting
<1> QED
  BY <1>5, <1>6

\* What holds of node n before the step.
LEMMA CacheFacts ==
  ASSUME NEW A, Stable(A), NEW n \in Node
  PROVE  /\ CoreInv(A) /\ Single(A, n) /\ Present(A, n) /\ Token(A, n) /\ Lines(A, n) /\ Known(A, n)
         /\ Idles(A) => QuietN(A, n)
         /\ ~Idles(A) => WaitingN(A, n)
         /\ A.s[n] \subseteq Replies /\ A.l[n] \subseteq Snoops /\ A.f[n] \subseteq Returns
         /\ A.ln[n] \in States /\ A.e \in EntryT
         /\ A.tk[n] \in BOOLEAN /\ A.hx[n] \in BOOLEAN /\ A.wk[n] \in BOOLEAN
  BY DEF Stable, CoreInv, CoreN, Quiet, Waiting, AbsT, States

\* A request is sent to the directory.
LEMMA RequestSent ==
  ASSUME NEW A, Stable(A), NEW n \in Node, NEW A2 \in AbsT, OnlyAt(A, A2, n), NEW t \in Requests,
         ~A.tk[n], A2.tk[n], A2.f[n] = A.f[n] \cup {t}, A2.s[n] = A.s[n], A2.l[n] = A.l[n],
         t # "SH_REQ" => A2.hx[n],
         t = "UPGRADE_REQ" => A.ln[n] = "SHARED" /\ A2.ln[n] = "SHARED_UPGRADING",
         t # "UPGRADE_REQ" => A.ln[n] = "INVALID" /\ A2.ln[n] = "INVALID"
  PROVE  Stable(A2)
<1>1. /\ Single(A, n) /\ Present(A, n) /\ Token(A, n) /\ Lines(A, n) /\ Known(A, n)
      /\ Idles(A) => QuietN(A, n)
      /\ ~Idles(A) => WaitingN(A, n)
  BY CacheFacts
<1>2. ~Requesting(A, n) /\ A.a[n] = {} /\ A.s[n] = {} /\ A2.a[n] = {} /\ A2.s[n] = {}
  BY <1>1 DEF Token, OnlyAt
<1>3. /\ "INV_REP" \in A2.f[n] <=> "INV_REP" \in A.f[n]
      /\ "FLUSH_REP" \in A2.f[n] <=> "FLUSH_REP" \in A.f[n]
      /\ "WB_REP" \in A2.f[n] <=> "WB_REP" \in A.f[n]
      /\ A2.e = A.e /\ A2.r = A.r
      /\ Pending(A2, n) <=> Pending(A, n)
  BY DEF Requests, OnlyAt, Pending
<1>4. /\ Dropped(A2, n) <=> Dropped(A, n)
      /\ ~Granted(A, n) /\ ~Granted(A2, n)
      /\ Reachable(A2, n) <=> Reachable(A, n)
      /\ Upgrading(A2, n) <=> t = "UPGRADE_REQ"
      /\ Fetching(A2, n) <=> t # "UPGRADE_REQ"
  BY <1>2, <1>3 DEF Dropped, Granted, Reachable, Upgrading, Fetching, Requesting, Requests
<1>5. Single(A2, n)
  BY <1>1, <1>2, <1>3, <1>4 DEF Single, Requesting, Requests
<1>6. Present(A2, n)
  BY <1>1, <1>3, <1>4 DEF Present
<1>7. Token(A2, n)
  BY <1>2, <1>4 DEF Token, Requesting, Requests
<1>8. Lines(A2, n)
  BY <1>2, <1>4 DEF Lines
<1>9. Known(A2, n)
  BY <1>1, <1>2, <1>3 DEF Known, Owned
<1>10. ~(Dropped(A2, n) /\ Upgrading(A2, n))
  BY <1>1, <1>4 DEF Present
<1>11. Idles(A) => QuietN(A2, n)
  BY <1>1, <1>3, <1>10 DEF QuietN
<1>12. ~Idles(A) => WaitingN(A2, n)
  BY <1>1, <1>2, <1>3, <1>10 DEF WaitingN, Owned
<1>13. Answering(A, n) => Answering(A2, n)
  BY <1>3 DEF Answering, Dropped
<1> QED
  BY <1>5, <1>6, <1>7, <1>8, <1>9, <1>11, <1>12, <1>13, CacheStep DEF CoreN

\* The block comes in, and the first waiter is woken, or an upgrade is requested for it.
LEMMA GrantArrives ==
  ASSUME NEW A, Stable(A), NEW n \in Node, NEW A2 \in AbsT, OnlyAt(A, A2, n), NEW g \in Grants,
         g \in A.s[n], A2.s[n] = {}, A2.l[n] = A.l[n],
         \/ /\ A2.f[n] = A.f[n] /\ ~A2.tk[n]
            /\ A2.ln[n] = IF g = "EX_REP" THEN "EXCLUSIVE" ELSE "SHARED"
            /\ A.hx[n] => A2.wk[n]
         \/ /\ A2.f[n] = A.f[n] \cup {"UPGRADE_REQ"} /\ A2.tk[n] /\ A2.hx[n]
            /\ A2.ln[n] = "SHARED_UPGRADING" /\ g = "SH_REP"
  PROVE  Stable(A2)
<1>1. /\ Single(A, n) /\ Present(A, n) /\ Token(A, n) /\ Lines(A, n) /\ Known(A, n)
      /\ Idles(A) => QuietN(A, n)
      /\ ~Idles(A) => WaitingN(A, n)
      /\ CoreInv(A) /\ A.e \in EntryT
  BY CacheFacts
<1>2. /\ ~Requesting(A, n) /\ A.a[n] = {} /\ A2.a[n] = {} /\ A.ln[n] = "INVALID" /\ Granted(A, n)
      /\ ~Dropped(A, n) /\ ~Pending(A, n) /\ n \in A.e.sharers /\ A.s[n] = {g}
  BY <1>1 DEF Token, OnlyAt, Granted, Grants, Present, Reachable, Single
<1>3. /\ "INV_REP" \notin A2.f[n] /\ "FLUSH_REP" \notin A2.f[n]
      /\ "WB_REP" \in A2.f[n] <=> "WB_REP" \in A.f[n]
      /\ A2.e = A.e /\ A2.r = A.r
      /\ ~Pending(A2, n) /\ ~Dropped(A2, n)
  BY <1>2 DEF Dropped, OnlyAt, Pending
<1>4. "WB_REP" \notin A.f[n]
  BY <1>1, <1>2 DEF QuietN, WaitingN
<1>5. /\ g = "EX_REP" => A.e.state \in Owned
      /\ g = "SH_REP" => A.e.state = "SHARED"
  BY <1>1, <1>2 DEF Known, CoreInv, EntryInv, EntryT, Owned
<1>6. ~Granted(A2, n) /\ Reachable(A2, n) /\ ~Fetching(A2, n)
      /\ (Upgrading(A2, n) <=> A2.ln[n] = "SHARED_UPGRADING")
      /\ (Requesting(A2, n) <=> A2.ln[n] = "SHARED_UPGRADING")
  BY <1>2 DEF Granted, Reachable, Fetching, Upgrading, Requesting, Grants
<1>7. Single(A2, n)
  BY <1>1, <1>2, <1>3, <1>6 DEF Single, Requesting, Requests
<1>8. Present(A2, n)
  BY <1>2, <1>3, <1>6 DEF Present
<1>9. Token(A2, n)
  BY <1>2, <1>6 DEF Token, Requesting, Upgrading
<1>10. Lines(A2, n)
  BY <1>2, <1>6 DEF Lines
<1>11. Known(A2, n)
  BY <1>1, <1>2, <1>3, <1>5 DEF Known, Owned, Token, Grants
<1>12. Idles(A) => QuietN(A2, n)
  BY <1>1, <1>3 DEF QuietN
<1>13. ~Idles(A) => WaitingN(A2, n)
  BY <1>1, <1>3, <1>4 DEF WaitingN
<1>14. Answering(A, n) => Answering(A2, n)
  BY <1>2, <1>3 DEF Answering
<1> QED
  BY <1>7, <1>8, <1>9, <1>10, <1>11, <1>12, <1>13, <1>14, CacheStep DEF CoreN

\* The line may be written.
LEMMA UpgradeArrives ==
  ASSUME NEW A, Stable(A), NEW n \in Node, NEW A2 \in AbsT, OnlyAt(A, A2, n),
         "UPGRADE_REP" \in A.s[n], A2.s[n] = {}, A2.l[n] = A.l[n], A2.f[n] = A.f[n], ~A2.tk[n],
         A2.ln[n] = "MODIFIED"
  PROVE  Stable(A2)
<1>1. /\ Single(A, n) /\ Present(A, n) /\ Token(A, n) /\ Lines(A, n) /\ Known(A, n)
      /\ Idles(A) => QuietN(A, n)
      /\ ~Idles(A) => WaitingN(A, n)
  BY CacheFacts
<1>2. /\ ~Requesting(A, n) /\ A.a[n] = {} /\ A2.a[n] = {} /\ A.ln[n] = "SHARED_UPGRADING"
      /\ A.e.state = "MODIFIED" /\ ~Dropped(A, n) /\ ~Pending(A, n) /\ n \in A.e.sharers
  BY <1>1 DEF Token, Lines, Known, Present, Reachable, OnlyAt
<1>3. A2.e = A.e /\ A2.r = A.r /\ ~Pending(A2, n) /\ ~Dropped(A2, n) /\ ~Requesting(A2, n)
      /\ ~Granted(A2, n) /\ Reachable(A2, n) /\ ~Fetching(A2, n) /\ ~Upgrading(A2, n)
  BY <1>2 DEF Dropped, OnlyAt, Pending, Granted, Reachable, Fetching, Upgrading, Requesting
<1>4. "WB_REP" \notin A.f[n]
  BY <1>1 DEF QuietN, WaitingN
<1>5. Single(A2, n)
  BY <1>1, <1>2, <1>3 DEF Single
<1>6. Present(A2, n) /\ Lines(A2, n)
  BY <1>2, <1>3 DEF Present, Lines
<1>7. Token(A2, n)
  BY <1>2, <1>3 DEF Token, Requesting
<1>8. Known(A2, n)
  BY <1>2, <1>3 DEF Known, Dropped
<1>9. Idles(A) => QuietN(A2, n)
  BY <1>1, <1>3 DEF QuietN
<1>10. ~Idles(A) => WaitingN(A2, n)
  BY <1>1, <1>3, <1>4 DEF WaitingN
<1>11. Answering(A, n) => Answering(A2, n)
  BY DEF Answering, Dropped
<1> QED
  BY <1>5, <1>6, <1>7, <1>8, <1>9, <1>10, <1>11, CacheStep DEF CoreN

\* Another waiter is looked at, a thread is woken or goes back to work, or a store
\* is made on a line that may be written.
LEMMA WaitersMove ==
  ASSUME NEW A, Stable(A), NEW n \in Node, NEW A2 \in AbsT, OnlyAt(A, A2, n),
         A2.s[n] = A.s[n], A2.l[n] = A.l[n], A2.f[n] = A.f[n], A2.tk[n] = A.tk[n],
         A.tk[n] => A2.hx[n] = A.hx[n],
         \/ A2.ln[n] = A.ln[n] /\ (A.wk[n] => A2.wk[n])
         \/ A.ln[n] \in Owned /\ A2.ln[n] = "MODIFIED"
  PROVE  Stable(A2)
<1>1. /\ Single(A, n) /\ Present(A, n) /\ Token(A, n) /\ Lines(A, n) /\ Known(A, n)
      /\ Idles(A) => QuietN(A, n)
      /\ ~Idles(A) => WaitingN(A, n)
  BY CacheFacts
<1>2. /\ A2.e = A.e /\ A2.r = A.r /\ A2.a[n] = A.a[n]
      /\ Pending(A2, n) <=> Pending(A, n)
      /\ Dropped(A2, n) <=> Dropped(A, n)
      /\ Requesting(A2, n) <=> Requesting(A, n)
      /\ Granted(A2, n) <=> Granted(A, n)
      /\ Reachable(A2, n) <=> Reachable(A, n)
      /\ Upgrading(A2, n) <=> Upgrading(A, n)
      /\ Fetching(A2, n) <=> Fetching(A, n)
  BY DEF Dropped, OnlyAt, Pending, Granted, Reachable, Fetching, Upgrading, Requesting, Owned
<1>3. Single(A2, n) /\ Present(A2, n)
  BY <1>1, <1>2 DEF Single, Present, Owned
<1>4. Token(A2, n)
  <2>1. ~A.tk[n] => ~Requesting(A, n) /\ A.a[n] = {} /\ A.s[n] = {} /\ ~Upgrading(A, n)
    BY <1>1 DEF Token, Requesting, Upgrading
  <2> QED
    BY <1>1, <1>2, <2>1 DEF Token, Requesting
<1>5. Lines(A2, n)
  BY <1>1, <1>2 DEF Lines, Owned
<1>6. Known(A2, n)
  BY <1>1, <1>2 DEF Known, Owned
<1>7. Idles(A) => QuietN(A2, n)
  BY <1>1, <1>2 DEF QuietN
<1>8. ~Idles(A) => WaitingN(A2, n)
  BY <1>1, <1>2 DEF WaitingN, Owned
<1>9. Answering(A, n) => Answering(A2, n)
  BY <1>2 DEF Answering
<1> QED
  BY <1>3, <1>4, <1>5, <1>6, <1>7, <1>8, <1>9, CacheStep DEF CoreN

\* A line is given up: it is evicted, or the directory has asked for it.
LEMMA LineDropped ==
  ASSUME NEW A, Stable(A), NEW n \in Node, NEW A2 \in AbsT, OnlyAt(A, A2, n), NEW t \in Drops,
         A2.s[n] = A.s[n], A2.f[n] = A.f[n] \cup {t}, A2.l[n] = {}, A2.tk[n] = A.tk[n],
         A2.hx[n] = A.hx[n], A2.wk[n] = A.wk[n], A2.ln[n] = "INVALID",
         A.ln[n] # "INVALID", "UPGRADE_REP" \notin A.s[n],
         \/ /\ A.ln[n] # "SHARED_UPGRADING" /\ ~A.wk[n]
            /\ t = IF A.ln[n] = "MODIFIED" THEN "FLUSH_REP" ELSE "INV_REP"
         \/ "INV_REQ" \in A.l[n] /\ t = "INV_REP"
         \/ "FLUSH_REQ" \in A.l[n] /\ t = "FLUSH_REP"
  PROVE  Stable(A2)
<1>1. /\ Single(A, n) /\ Present(A, n) /\ Token(A, n) /\ Lines(A, n) /\ Known(A, n)
      /\ Idles(A) => QuietN(A, n)
      /\ ~Idles(A) => WaitingN(A, n)
      /\ A.ln[n] \in States /\ CoreInv(A) /\ A.e \in EntryT
  BY CacheFacts
<1>2. /\ A2.e = A.e /\ A2.r = A.r /\ A2.a[n] = A.a[n] /\ ~Granted(A, n) /\ ~Dropped(A, n)
      /\ ~Pending(A, n) /\ n \in A.e.sharers /\ ~Pending(A2, n)
  BY <1>1 DEF Present, Reachable, OnlyAt, Pending
<1>3. /\ Dropped(A2, n) /\ ~Granted(A2, n) /\ ~Reachable(A2, n)
      /\ Requesting(A2, n) <=> Requesting(A, n)
      /\ Upgrading(A2, n) <=> Upgrading(A, n)
      /\ Fetching(A2, n) <=> Fetching(A, n)
      /\ A2.f[n] \cap Requests = A.f[n] \cap Requests
      /\ "WB_REP" \in A2.f[n] <=> "WB_REP" \in A.f[n]
      /\ \A u \in Drops : u \in A2.f[n] <=> u = t
  BY <1>2 DEF Dropped, Granted, Reachable, Fetching, Upgrading, Requesting, Drops, Requests
<1>4. ~Fetching(A, n)
  BY <1>1 DEF Lines
<1>5. Single(A2, n)
  BY <1>1, <1>2, <1>3 DEF Single, Drops
<1>6. Present(A2, n)
  BY <1>2, <1>3 DEF Present
<1>7. Token(A2, n)
  BY <1>1, <1>2, <1>3 DEF Token, Requesting, Requests
<1>8. Lines(A2, n)
  BY <1>1, <1>2, <1>3, <1>4 DEF Lines, Fetching
<1>9. ~Idles(A) \/ A.l[n] = {}
  BY <1>1 DEF QuietN
<1>10. Known(A2, n)
  <2>1. "WB_REP" \in A.f[n] => ~Idles(A) /\ A.ln[n] \notin Owned /\ A.l[n] = {}
    BY <1>1 DEF QuietN, WaitingN
  <2>2. A.e.state # "UNCACHED"
    BY <1>1, <1>2 DEF CoreInv, EntryInv
  <2>3. t = "INV_REP" => A.e.state \in {"SHARED", "EXCLUSIVE"} \/ "WB_REP" \in A.f[n]
    <3>1. CASE "INV_REQ" \in A.l[n]
      BY <1>1, <1>9, <3>1 DEF WaitingN
    <3>2. CASE t = "INV_REP" /\ "INV_REQ" \notin A.l[n]
      BY <1>1, <2>2, <3>2 DEF Known, States, EntryT, Owned
    <3> QED
      BY <3>1, <3>2
  <2>4. t = "FLUSH_REP" =>
          /\ "WB_REP" \notin A.f[n]
          /\ A.e.state = "SHARED" =>
               A.r.type = "UPGRADE_REQ" /\ ~A.r.wait /\ A.r.node \notin A.e.sharers
    <3>1. CASE "FLUSH_REQ" \in A.l[n]
      BY <1>1, <1>9, <2>1, <3>1 DEF WaitingN
    <3>2. CASE t = "FLUSH_REP" /\ "FLUSH_REQ" \notin A.l[n]
      BY <1>1, <2>1, <3>2 DEF Known, Owned
    <3> QED
      BY <3>1, <3>2
  <2> QED
    BY <1>1, <1>2, <1>3, <2>3, <2>4 DEF Known, Drops, Owned
<1>11. ~Upgrading(A, n) \/ (/\ ~Idles(A) /\ A.r.type \in Kills /\ ~A.r.wait
                            /\ A.r.type = "NULLIFY_REQ" \/ A.r.node # n)
  <2>1. ASSUME Upgrading(A, n)
        PROVE  /\ ~Idles(A) /\ A.r.type \in Kills /\ ~A.r.wait
               /\ A.r.type = "NULLIFY_REQ" \/ A.r.node # n
    <3>1. A.ln[n] = "SHARED_UPGRADING"
      BY <1>1, <2>1 DEF Lines
    <3>2. A.r.type # "EX_REQ" \/ A.r.node # n
      BY <1>1, <1>4 DEF CoreInv, HeadInv, Fetching, Requests
    <3>3. CASE "INV_REQ" \in A.l[n]
      BY <1>1, <1>9, <3>1, <3>2, <3>3 DEF WaitingN, Kills
    <3>4. CASE "FLUSH_REQ" \in A.l[n]
      <4>1. ~Idles(A) /\ WaitingN(A, n) /\ A.r.type \in Kills /\ ~A.r.wait
        BY <1>1, <1>9, <3>4 DEF WaitingN
      <4>2. "WB_REP" \notin A.f[n]
        BY <4>1, <3>4 DEF WaitingN
      <4>3. A.e.state = "SHARED"
        BY <1>1, <1>2, <3>1, <4>2 DEF Known, CoreInv, EntryInv, EntryT, Owned
      <4>4. A.r.node # n
        BY <1>2, <4>1, <4>3, <3>4 DEF WaitingN
      <4> QED
        BY <4>1, <4>4
    <3> QED
      BY <3>1, <3>3, <3>4
  <2> QED
    BY <2>1
<1>12. Idles(A) => QuietN(A2, n)
  BY <1>1, <1>3, <1>11 DEF QuietN
<1>13. ~Idles(A) => WaitingN(A2, n)
  BY <1>1, <1>2, <1>3, <1>11 DEF WaitingN, Owned
<1>14. Answering(A2, n)
  BY <1>3 DEF Answering
<1> QED
  BY <1>5, <1>6, <1>7, <1>8, <1>10, <1>12, <1>13, <1>14, CacheStep DEF CoreN

\* A line is written back.
LEMMA LineWrittenBack ==
  ASSUME NEW A, Stable(A), NEW n \in Node, NEW A2 \in AbsT, OnlyAt(A, A2, n),
         A2.s[n] = A.s[n], A2.f[n] = A.f[n] \cup {"WB_REP"}, A2.l[n] = {}, A2.tk[n] = A.tk[n],
         A2.hx[n] = A.hx[n], A2.wk[n] = A.wk[n], A.ln[n] # "INVALID", "UPGRADE_REP" \notin A.s[n],
         A2.ln[n] = IF A.ln[n] = "SHARED_UPGRADING" THEN A.ln[n] ELSE "SHARED",
         "WB_REQ" \in A.l[n]
  PROVE  Stable(A2)
<1>1. /\ Single(A, n) /\ Present(A, n) /\ Token(A, n) /\ Lines(A, n) /\ Known(A, n)
      /\ ~Idles(A) /\ WaitingN(A, n) /\ A.s[n] \subseteq Replies
  BY CacheFacts DEF QuietN
<1>2. /\ A2.e = A.e /\ A2.r = A.r /\ A2.a[n] = A.a[n] /\ ~Granted(A, n) /\ ~Dropped(A, n)
      /\ ~Pending(A, n) /\ n \in A.e.sharers /\ ~Pending(A2, n) /\ A2.ln[n] # "INVALID"
  BY <1>1 DEF Present, Reachable, OnlyAt, Pending
<1>3. /\ ~Dropped(A2, n) /\ ~Granted(A2, n) /\ Reachable(A2, n)
      /\ Requesting(A2, n) <=> Requesting(A, n)
      /\ Upgrading(A2, n) <=> Upgrading(A, n)
      /\ Fetching(A2, n) <=> Fetching(A, n)
      /\ A2.f[n] \cap Requests = A.f[n] \cap Requests
      /\ A.s[n] = {}
  BY <1>1, <1>2 DEF Dropped, Granted, Reachable, Fetching, Upgrading, Requesting, Requests, Replies, Grants
<1>4. ~Fetching(A, n)
  BY <1>1 DEF Lines
<1>5. Single(A2, n)
  BY <1>1, <1>2, <1>3 DEF Single
<1>6. Present(A2, n)
  BY <1>2, <1>3 DEF Present
<1>7. Token(A2, n)
  BY <1>1, <1>2, <1>3 DEF Token, Requesting
<1>8. Lines(A2, n)
  BY <1>1, <1>2, <1>3, <1>4 DEF Lines
<1>9. Known(A2, n)
  BY <1>1, <1>2, <1>3 DEF Known, Dropped, Owned
<1>10. WaitingN(A2, n)
  BY <1>1, <1>2, <1>3 DEF WaitingN, Owned
<1>11. Answering(A2, n)
  BY DEF Answering
<1> QED
  BY <1>1, <1>5, <1>6, <1>7, <1>8, <1>9, <1>10, <1>11, CacheStep DEF CoreN

-----------------------------------------------------------------------------
(* 3. What the inboxes hold                                                *)

\* Messages to and from the DRAM controller, data, and all messages.
Reads == {"DRAM_READ_REQ", "DRAM_READ_REP"}
Data == {"new", "mem", "old", "junk"}

\* Messages with the contents of a block.
Carriers == {"EX_REP", "SH_REP", "WB_REP", "FLUSH_REP", "DRAM_READ_REP", "DRAM_WRITE_REQ"}
MessageTypes == Replies \cup Snoops \cup Returns \cup Reads \cup {"DRAM_WRITE_REQ"}
Message == {m \in [type : MessageTypes, block : Block, from : Node, data : Data \cup {"none"}] :
              m.type \in Carriers => m.data \in Data}

\* Messages about b of the types T, and those from n.
Kind(b, T) == {m \in Message : m.block = b /\ m.type \in T}
KindOf(n, b, T) == {m \in Message : m.block = b /\ m.type \in T /\ m.from = n}

\* Requests of the directory that will find a line, which is now in state st.
LiveAt(q, st, b, T) ==
  IF st = "INVALID" THEN Behind(q, Kind(b, Grants), Kind(b, T)) ELSE At(q, Kind(b, T))

\* What an inbox holds about block b: replies, live requests of the directory,
\* messages from n, a read of the DRAM.
RepliesIn(q, b) == {t \in Replies : In(q, Kind(b, {t}))}
LiveIn(q, st, b) == {t \in Snoops : LiveAt(q, st, b, {t}) # {}}
ReturnsIn(q, n, b) == {t \in Returns : In(q, KindOf(n, b, {t}))}
ReadIn(q, b) == In(q, Kind(b, Reads))

\* The line is there or on its way.
Reached(q, st, b) == st # "INVALID" \/ RepliesIn(q, b) \cap Grants # {}

\* The order of the messages to a cache, and of those from it.
CacheOrder(q, st, b) ==
  /\ One(q, Kind(b, Replies))
  /\ \A i, j \in LiveAt(q, st, b, Snoops) : i = j
  /\ \A i \in At(q, Kind(b, {"UPGRADE_REP"})), j \in LiveAt(q, st, b, Snoops) : i < j

\* Messages of node n reach the directory in the order they were sent.
HomeOrder(q, n, b) ==
  /\ One(q, KindOf(n, b, Drops)) /\ One(q, KindOf(n, b, {"WB_REP"}))
  /\ One(q, KindOf(n, b, Requests))
  /\ Before(q, KindOf(n, b, Drops), KindOf(n, b, {"EX_REQ", "SH_REQ"}))
  /\ Before(q, KindOf(n, b, {"WB_REP"}), KindOf(n, b, Drops))

\* The DRAM is read once at a time.
ReadOrder(q, b) == One(q, Kind(b, Reads))

-----------------------------------------------------------------------------
(* A message comes in.                                                     *)

\* The replies in an inbox when a message comes in.
LEMMA PushReplies ==
  ASSUME NEW q \in Seq(Message), NEW m \in Message, NEW b
  PROVE  RepliesIn(Append(q, m), b) =
           RepliesIn(q, b) \cup (IF m.block = b /\ m.type \in Replies THEN {m.type} ELSE {})
<1>1. ASSUME NEW t PROVE In(Append(q, m), Kind(b, {t})) <=> In(q, Kind(b, {t})) \/ (m.block = b /\ m.type = t)
  <2>1. m \in Kind(b, {t}) <=> m.block = b /\ m.type = t
    BY DEF Kind
  <2> QED
    BY <2>1, PushIn
<1> QED
  BY <1>1 DEF RepliesIn

\* The messages of node n in the directory's inbox when a message comes in.
LEMMA PushReturns ==
  ASSUME NEW q \in Seq(Message), NEW m \in Message, NEW n, NEW b
  PROVE  ReturnsIn(Append(q, m), n, b) =
           ReturnsIn(q, n, b) \cup (IF m.block = b /\ m.from = n /\ m.type \in Returns THEN {m.type} ELSE {})
<1>1. ASSUME NEW t PROVE In(Append(q, m), KindOf(n, b, {t})) <=>
                           In(q, KindOf(n, b, {t})) \/ (m.block = b /\ m.from = n /\ m.type = t)
  <2>1. m \in KindOf(n, b, {t}) <=> m.block = b /\ m.from = n /\ m.type = t
    BY DEF KindOf
  <2> QED
    BY <2>1, PushIn
<1> QED
  BY <1>1 DEF ReturnsIn

\* The reads of the DRAM when a message comes in.
LEMMA PushRead ==
  ASSUME NEW q \in Seq(Message), NEW m \in Message, NEW b
  PROVE  /\ ReadIn(Append(q, m), b) <=> ReadIn(q, b) \/ (m.block = b /\ m.type \in Reads)
         /\ ReadOrder(q, b) /\ (m.block = b /\ m.type \in Reads => ~ReadIn(q, b)) =>
              ReadOrder(Append(q, m), b)
<1>1. m \in Kind(b, Reads) <=> m.block = b /\ m.type \in Reads
  BY DEF Kind
<1> QED
  BY <1>1, PushIn, PushOne DEF ReadIn, ReadOrder

\* Messages of some of the types T are in q.
LEMMA InTypes ==
  ASSUME NEW q, NEW b, NEW T
  PROVE  /\ In(q, Kind(b, T)) <=> \E t \in T : In(q, Kind(b, {t}))
         /\ \A n : In(q, KindOf(n, b, T)) <=> \E t \in T : In(q, KindOf(n, b, {t}))
<1>1. In(q, Kind(b, T)) <=> \E t \in T : In(q, Kind(b, {t}))
  BY DEF In, At, Kind
<1>2. ASSUME NEW n PROVE In(q, KindOf(n, b, T)) <=> \E t \in T : In(q, KindOf(n, b, {t}))
  BY DEF In, At, KindOf
<1> QED
  BY <1>1, <1>2

\* A live request has one of the types of snoops.
LEMMA LiveTypes ==
  ASSUME NEW q, NEW b, NEW st
  PROVE  LiveAt(q, st, b, Snoops) # {} <=> LiveIn(q, st, b) # {}
<1>1. LiveAt(q, st, b, Snoops) # {} <=> \E t \in Snoops : LiveAt(q, st, b, {t}) # {}
  <2>1. \A i : i \in At(q, Kind(b, Snoops)) <=> \E t \in Snoops : i \in At(q, Kind(b, {t}))
    BY DEF At, Kind
  <2>2. CASE st = "INVALID"
    BY <2>1, <2>2 DEF LiveAt, Behind
  <2>3. CASE st # "INVALID"
    BY <2>1, <2>3 DEF LiveAt
  <2> QED
    BY <2>2, <2>3
<1> QED
  BY <1>1 DEF LiveIn

\* Which types of replies are in the inbox.
LEMMA ReplyTypes ==
  ASSUME NEW q, NEW b
  PROVE  /\ In(q, Kind(b, Replies)) <=> RepliesIn(q, b) # {}
         /\ In(q, Kind(b, Grants)) <=> RepliesIn(q, b) \cap Grants # {}
         /\ In(q, Kind(b, {"UPGRADE_REP"})) <=> "UPGRADE_REP" \in RepliesIn(q, b)
<1>1. \A T : In(q, Kind(b, T)) <=> \E t \in T : In(q, Kind(b, {t}))
  BY InTypes
<1>2. In(q, Kind(b, Replies)) <=> RepliesIn(q, b) # {}
  BY <1>1 DEF RepliesIn
<1>3. In(q, Kind(b, Grants)) <=> RepliesIn(q, b) \cap Grants # {}
  <2>1. In(q, Kind(b, Grants)) <=> \E t \in Grants : In(q, Kind(b, {t}))
    BY <1>1
  <2>2. Grants \subseteq Replies
    BY DEF Replies
  <2> QED
    BY <2>1, <2>2 DEF RepliesIn
<1>4. In(q, Kind(b, {"UPGRADE_REP"})) <=> "UPGRADE_REP" \in RepliesIn(q, b)
  BY DEF RepliesIn, Replies
<1> QED
  BY <1>2, <1>3, <1>4

\* Which types of messages from n are in the inbox.
LEMMA ReturnTypes ==
  ASSUME NEW q, NEW n, NEW b, NEW T, T \subseteq Returns
  PROVE  In(q, KindOf(n, b, T)) <=> ReturnsIn(q, n, b) \cap T # {}
<1>1. In(q, KindOf(n, b, T)) <=> \E t \in T : In(q, KindOf(n, b, {t}))
  BY InTypes
<1> QED
  BY <1>1 DEF ReturnsIn

\* The order of n's messages when another one is sent, if n has none under way that it must follow.
LEMMA PushHomeOrder ==
  ASSUME NEW q \in Seq(Message), NEW m \in Message, NEW n, NEW b, HomeOrder(q, n, b),
         m.block = b /\ m.from = n =>
           /\ m.type \in Drops => ReturnsIn(q, n, b) \cap (Drops \cup {"EX_REQ", "SH_REQ"}) = {}
           /\ m.type = "WB_REP" => ReturnsIn(q, n, b) \cap (Drops \cup {"WB_REP"}) = {}
           /\ m.type \in Requests => ReturnsIn(q, n, b) \cap Requests = {}
  PROVE  HomeOrder(Append(q, m), n, b)
<1>1. \A T : m \in KindOf(n, b, T) <=> m.block = b /\ m.from = n /\ m.type \in T
  BY DEF KindOf
<1>2. \A T : In(q, KindOf(n, b, T)) /\ T \subseteq Returns => ReturnsIn(q, n, b) \cap T # {}
  BY InTypes DEF ReturnsIn
<1>3. Drops \subseteq Returns /\ {"EX_REQ", "SH_REQ"} \subseteq Returns /\ {"WB_REP"} \subseteq Returns
      /\ Requests \subseteq Returns /\ Drops \cap {"EX_REQ", "SH_REQ"} = {} /\ "WB_REP" \notin Drops
  BY DEF Returns, Drops, Requests
<1>4. One(Append(q, m), KindOf(n, b, Drops))
  BY <1>1, <1>2, <1>3, PushOne DEF HomeOrder
<1>5. One(Append(q, m), KindOf(n, b, {"WB_REP"}))
  BY <1>1, <1>2, <1>3, PushOne DEF HomeOrder
<1>6. One(Append(q, m), KindOf(n, b, Requests))
  BY <1>1, <1>2, <1>3, PushOne DEF HomeOrder
<1>7. Before(Append(q, m), KindOf(n, b, Drops), KindOf(n, b, {"EX_REQ", "SH_REQ"}))
  BY <1>1, <1>2, <1>3, PushBefore DEF HomeOrder
<1>8. Before(Append(q, m), KindOf(n, b, {"WB_REP"}), KindOf(n, b, Drops))
  BY <1>1, <1>2, <1>3, PushBefore DEF HomeOrder
<1> QED
  BY <1>4, <1>5, <1>6, <1>7, <1>8 DEF HomeOrder

\* A request of the directory is live if the line is there or on its way.
LEMMA PushLiveAt ==
  ASSUME NEW q \in Seq(Message), NEW m \in Message, NEW b, NEW st, NEW T, T \cap Grants = {}
  PROVE  LiveAt(Append(q, m), st, b, T) =
           LiveAt(q, st, b, T) \cup (IF m.block = b /\ m.type \in T /\ Reached(q, st, b) THEN {Len(q) + 1} ELSE {})
<1>1. m \in Kind(b, T) <=> m.block = b /\ m.type \in T
  BY DEF Kind
<1>2. m \notin Kind(b, T) \/ m \notin Kind(b, Grants)
  BY DEF Kind
<1>3. In(q, Kind(b, Grants)) <=> RepliesIn(q, b) \cap Grants # {}
  BY InTypes DEF RepliesIn, Replies
<1>4. CASE st = "INVALID"
  BY <1>1, <1>2, <1>3, <1>4, PushBehind DEF LiveAt, Reached
<1>5. CASE st # "INVALID"
  BY <1>1, <1>5, PushAt DEF LiveAt, Reached
<1> QED
  BY <1>4, <1>5

\* The live requests when a message comes in.
LEMMA PushLive ==
  ASSUME NEW q \in Seq(Message), NEW m \in Message, NEW b, NEW st
  PROVE  LiveIn(Append(q, m), st, b) =
           LiveIn(q, st, b) \cup (IF m.block = b /\ m.type \in Snoops /\ Reached(q, st, b) THEN {m.type} ELSE {})
<1>1. ASSUME NEW t \in Snoops
      PROVE  LiveAt(Append(q, m), st, b, {t}) # {} <=>
               LiveAt(q, st, b, {t}) # {} \/ (m.block = b /\ m.type = t /\ Reached(q, st, b))
  <2>1. {t} \cap Grants = {}
    BY DEF Snoops, Grants
  <2>2. LiveAt(Append(q, m), st, b, {t}) =
          LiveAt(q, st, b, {t}) \cup (IF m.block = b /\ m.type \in {t} /\ Reached(q, st, b) THEN {Len(q) + 1} ELSE {})
    BY <2>1, PushLiveAt
  <2> QED
    BY <2>2
<1> QED
  BY <1>1 DEF LiveIn

\* The order of the messages to a cache when another one is sent.
LEMMA PushCacheOrder ==
  ASSUME NEW q \in Seq(Message), NEW m \in Message, NEW b, NEW st, CacheOrder(q, st, b),
         m.block = b =>
           /\ m.type \in Replies => RepliesIn(q, b) = {}
           /\ m.type = "UPGRADE_REP" => LiveIn(q, st, b) = {}
           /\ m.type \in Snoops => LiveIn(q, st, b) = {}
  PROVE  CacheOrder(Append(q, m), st, b)
<1>1. One(Append(q, m), Kind(b, Replies))
  <2>1. m \in Kind(b, Replies) <=> m.block = b /\ m.type \in Replies
    BY DEF Kind
  <2>2. In(q, Kind(b, Replies)) <=> RepliesIn(q, b) # {}
    BY InTypes DEF RepliesIn
  <2> QED
    BY <2>1, <2>2, PushOne DEF CacheOrder
<1>2. PICK S : /\ LiveAt(Append(q, m), st, b, Snoops) = LiveAt(q, st, b, Snoops) \cup S
               /\ S = {} \/ (m.block = b /\ m.type \in Snoops /\ S = {Len(q) + 1})
  <2>1. Snoops \cap Grants = {}
    BY DEF Snoops, Grants
  <2>2. LiveAt(Append(q, m), st, b, Snoops) =
          LiveAt(q, st, b, Snoops) \cup (IF m.block = b /\ m.type \in Snoops /\ Reached(q, st, b) THEN {Len(q) + 1} ELSE {})
    BY <2>1, PushLiveAt
  <2> QED
    BY <2>2
<1>3. LiveAt(q, st, b, Snoops) # {} => LiveIn(q, st, b) # {}
  BY LiveTypes
<1>4. \A i, j \in LiveAt(Append(q, m), st, b, Snoops) : i = j
  <2>1. CASE S = {}
    BY <1>2, <2>1 DEF CacheOrder
  <2>2. CASE m.block = b /\ m.type \in Snoops /\ S = {Len(q) + 1}
    <3>1. LiveAt(q, st, b, Snoops) = {}
      BY <1>3, <2>2
    <3> QED
      BY <1>2, <2>2, <3>1
  <2> QED
    BY <1>2, <2>1, <2>2
<1>5. At(Append(q, m), Kind(b, {"UPGRADE_REP"})) =
        At(q, Kind(b, {"UPGRADE_REP"})) \cup (IF m.block = b /\ m.type = "UPGRADE_REP" THEN {Len(q) + 1} ELSE {})
      /\ \A i \in At(q, Kind(b, {"UPGRADE_REP"})) : i < Len(q) + 1
  <2>1. m \in Kind(b, {"UPGRADE_REP"}) <=> m.block = b /\ m.type = "UPGRADE_REP"
    BY DEF Kind
  <2> QED
    BY <2>1, PushAt
<1>6. \A i \in At(Append(q, m), Kind(b, {"UPGRADE_REP"})), j \in LiveAt(Append(q, m), st, b, Snoops) : i < j
  BY <1>2, <1>3, <1>5 DEF CacheOrder, Snoops
<1> QED
  BY <1>1, <1>4, <1>6 DEF CacheOrder

-----------------------------------------------------------------------------
(* A message is taken from the front.                                      *)

\* The replies without the first message.
LEMMA PopReplies ==
  ASSUME NEW q \in Seq(Message), q # <<>>, NEW b, One(q, Kind(b, Replies))
  PROVE  /\ One(Tail(q), Kind(b, Replies))
         /\ Head(q).block = b /\ Head(q).type \in Replies =>
              RepliesIn(q, b) = {Head(q).type} /\ RepliesIn(Tail(q), b) = {}
         /\ Head(q).block # b \/ Head(q).type \notin Replies => RepliesIn(Tail(q), b) = RepliesIn(q, b)
<1> DEFINE m == Head(q)
<1>1. Tail(q) \in Seq(Message) /\ m \in Message
  OBVIOUS
<1>2. \A T : m \in Kind(b, T) <=> m.block = b /\ m.type \in T
  BY <1>1 DEF Kind
<1> HIDE DEF m
<1>3. ASSUME NEW t PROVE In(q, Kind(b, {t})) <=> (m.block = b /\ m.type = t) \/ In(Tail(q), Kind(b, {t}))
  <2>1. In(q, Kind(b, {t})) <=> m \in Kind(b, {t}) \/ In(Tail(q), Kind(b, {t}))
    BY PopIn DEF m
  <2> QED
    BY <1>2, <2>1
<1>4. One(Tail(q), Kind(b, Replies)) /\ (m \in Kind(b, Replies) => ~In(Tail(q), Kind(b, Replies)))
  BY PopOne DEF m
<1>5. m.block = b /\ m.type \in Replies => RepliesIn(Tail(q), b) = {}
  BY <1>2, <1>4, ReplyTypes
<1>6. m.block = b /\ m.type \in Replies => RepliesIn(q, b) = {m.type}
  BY <1>3, <1>5 DEF RepliesIn
<1>7. m.block # b \/ m.type \notin Replies => RepliesIn(Tail(q), b) = RepliesIn(q, b)
  BY <1>3 DEF RepliesIn
<1> QED
  BY <1>4, <1>5, <1>6, <1>7 DEF m

\* The messages of node n without the first one; what came before a request or a drop is gone.
LEMMA PopReturns ==
  ASSUME NEW q \in Seq(Message), q # <<>>, NEW n, NEW b, HomeOrder(q, n, b)
  PROVE  /\ HomeOrder(Tail(q), n, b)
         /\ Head(q).block = b /\ Head(q).from = n /\ Head(q).type \in Returns =>
              /\ Head(q).type \in ReturnsIn(q, n, b)
              /\ ReturnsIn(Tail(q), n, b) = ReturnsIn(q, n, b) \ {Head(q).type}
              /\ Head(q).type \in {"EX_REQ", "SH_REQ"} => ReturnsIn(q, n, b) \cap Drops = {}
              /\ Head(q).type \in Drops => "WB_REP" \notin ReturnsIn(q, n, b)
         /\ Head(q).block # b \/ Head(q).from # n \/ Head(q).type \notin Returns =>
              ReturnsIn(Tail(q), n, b) = ReturnsIn(q, n, b)
<1> DEFINE m == Head(q)
<1>1. Tail(q) \in Seq(Message) /\ m \in Message
  OBVIOUS
<1>2. \A T : m \in KindOf(n, b, T) <=> m.block = b /\ m.from = n /\ m.type \in T
  BY <1>1 DEF KindOf
<1> HIDE DEF m
<1>3. ASSUME NEW t PROVE In(q, KindOf(n, b, {t})) <=>
                           (m.block = b /\ m.from = n /\ m.type = t) \/ In(Tail(q), KindOf(n, b, {t}))
  <2>1. In(q, KindOf(n, b, {t})) <=> m \in KindOf(n, b, {t}) \/ In(Tail(q), KindOf(n, b, {t}))
    BY PopIn DEF m
  <2> QED
    BY <1>2, <2>1
<1>4. One(Tail(q), KindOf(n, b, Drops)) /\ (m \in KindOf(n, b, Drops) => ~In(Tail(q), KindOf(n, b, Drops)))
  BY PopOne DEF m, HomeOrder
<1>5. One(Tail(q), KindOf(n, b, {"WB_REP"})) /\ (m \in KindOf(n, b, {"WB_REP"}) => ~In(Tail(q), KindOf(n, b, {"WB_REP"})))
  BY PopOne DEF m, HomeOrder
<1>6. One(Tail(q), KindOf(n, b, Requests)) /\ (m \in KindOf(n, b, Requests) => ~In(Tail(q), KindOf(n, b, Requests)))
  BY PopOne DEF m, HomeOrder
<1>7. /\ Before(Tail(q), KindOf(n, b, Drops), KindOf(n, b, {"EX_REQ", "SH_REQ"}))
      /\ m \in KindOf(n, b, {"EX_REQ", "SH_REQ"}) => ~In(q, KindOf(n, b, Drops))
  BY PopBefore DEF m, HomeOrder
<1>8. /\ Before(Tail(q), KindOf(n, b, {"WB_REP"}), KindOf(n, b, Drops))
      /\ m \in KindOf(n, b, Drops) => ~In(q, KindOf(n, b, {"WB_REP"}))
  BY PopBefore DEF m, HomeOrder
<1>9. HomeOrder(Tail(q), n, b)
  BY <1>4, <1>5, <1>6, <1>7, <1>8 DEF HomeOrder
<1>10. Drops \subseteq Returns /\ {"WB_REP"} \subseteq Returns /\ Requests \subseteq Returns
       /\ Returns = Drops \cup {"WB_REP"} \cup Requests
  BY DEF Drops, Returns, Requests
<1>11. ASSUME m.block = b, m.from = n, m.type \in Returns
       PROVE  m.type \notin ReturnsIn(Tail(q), n, b)
  <2>1. CASE m.type \in Drops
    BY <1>2, <1>4, <1>10, <1>11, <2>1, ReturnTypes
  <2>2. CASE m.type = "WB_REP"
    BY <1>2, <1>5, <1>10, <1>11, <2>2, ReturnTypes
  <2>3. CASE m.type \in Requests
    BY <1>2, <1>6, <1>10, <1>11, <2>3, ReturnTypes
  <2> QED
    BY <1>10, <1>11, <2>1, <2>2, <2>3
<1>12. ASSUME m.block = b, m.from = n, m.type \in Returns
       PROVE  m.type \in ReturnsIn(q, n, b) /\ ReturnsIn(Tail(q), n, b) = ReturnsIn(q, n, b) \ {m.type}
  <2>1. ReturnsIn(q, n, b) = ReturnsIn(Tail(q), n, b) \cup {m.type}
    BY <1>3, <1>12 DEF ReturnsIn
  <2> QED
    BY <1>11, <1>12, <2>1
<1>13. m.block # b \/ m.from # n \/ m.type \notin Returns => ReturnsIn(Tail(q), n, b) = ReturnsIn(q, n, b)
  BY <1>3 DEF ReturnsIn
<1>14. m.block = b /\ m.from = n /\ m.type \in {"EX_REQ", "SH_REQ"} => ReturnsIn(q, n, b) \cap Drops = {}
  BY <1>2, <1>7, <1>10, ReturnTypes
<1>15. m.block = b /\ m.from = n /\ m.type \in Drops => "WB_REP" \notin ReturnsIn(q, n, b)
  <2>1. In(q, KindOf(n, b, {"WB_REP"})) <=> ReturnsIn(q, n, b) \cap {"WB_REP"} # {}
    BY <1>10, ReturnTypes
  <2> QED
    BY <1>2, <1>8, <2>1
<1> QED
  BY <1>9, <1>12, <1>13, <1>14, <1>15 DEF m

\* The reads of the DRAM without the first message.
LEMMA PopRead ==
  ASSUME NEW q \in Seq(Message), q # <<>>, NEW b, ReadOrder(q, b)
  PROVE  /\ ReadOrder(Tail(q), b)
         /\ Head(q).block = b /\ Head(q).type \in Reads => ReadIn(q, b) /\ ~ReadIn(Tail(q), b)
         /\ Head(q).block # b \/ Head(q).type \notin Reads => (ReadIn(Tail(q), b) <=> ReadIn(q, b))
<1>1. Tail(q) \in Seq(Message) /\ Head(q) \in Message
  OBVIOUS
<1>2. Head(q) \in Kind(b, Reads) <=> Head(q).block = b /\ Head(q).type \in Reads
  BY <1>1 DEF Kind
<1>3. In(q, Kind(b, Reads)) <=> Head(q) \in Kind(b, Reads) \/ In(Tail(q), Kind(b, Reads))
  BY PopIn
<1>4. One(Tail(q), Kind(b, Reads)) /\ (Head(q) \in Kind(b, Reads) => ~In(Tail(q), Kind(b, Reads)))
  BY PopOne DEF ReadOrder
<1> QED
  BY <1>2, <1>3, <1>4 DEF ReadIn, ReadOrder

\* L2 is L one position further to the front.
Shifted(L, L2) ==
  /\ \A i : i \in L2 <=> i \in Nat \ {0} /\ i + 1 \in L
  /\ \A i \in L : i \in Nat \ {0} /\ (i = 1 \/ i - 1 \in L2)

\* Where the live requests are without the first message, which may have brought the line in.
LEMMA PopLiveAt ==
  ASSUME NEW q \in Seq(Message), q # <<>>, NEW b, NEW st, NEW st2, NEW T, T \cap Grants = {},
         \/ st2 = st /\ Head(q) \notin Kind(b, Grants)
         \/ st = "INVALID" /\ st2 # "INVALID" /\ Head(q) \in Kind(b, Grants)
  PROVE  /\ Shifted(LiveAt(q, st, b, T), LiveAt(Tail(q), st2, b, T))
         /\ 1 \in LiveAt(q, st, b, T) <=> st # "INVALID" /\ Head(q) \in Kind(b, T)
<1>1. Head(q) \notin Kind(b, Grants) \/ Head(q) \notin Kind(b, T)
  BY DEF Kind
<1>2. CASE st # "INVALID"
  <2>1. LiveAt(q, st, b, T) = At(q, Kind(b, T)) /\ LiveAt(Tail(q), st2, b, T) = At(Tail(q), Kind(b, T))
    BY <1>2 DEF LiveAt
  <2> QED
    BY <1>2, <2>1, PopAt DEF Shifted
<1>3. CASE st = "INVALID" /\ st2 = st /\ Head(q) \notin Kind(b, Grants)
  <2> DEFINE L == Behind(q, Kind(b, Grants), Kind(b, T))
             L2 == Behind(Tail(q), Kind(b, Grants), Kind(b, T))
  <2>1. LiveAt(q, st, b, T) = L /\ LiveAt(Tail(q), st2, b, T) = L2
    BY <1>3 DEF LiveAt
  <2>2. \A i : i \in L2 <=> i \in Nat \ {0} /\ i + 1 \in L
    BY <1>1, <1>3, PopBehind
  <2>3. 1 \notin L /\ \A i \in L : i \in Nat \ {0, 1}
    BY <1>1, PopBehind
  <2> HIDE DEF L, L2
  <2>4. ASSUME NEW i \in L PROVE i \in Nat \ {0} /\ (i = 1 \/ i - 1 \in L2)
    <3>1. i \in Nat \ {0, 1} /\ i - 1 \in Nat \ {0} /\ (i - 1) + 1 = i
      BY <2>3
    <3> QED
      BY <2>2, <3>1
  <2>5. Shifted(L, L2)
    BY <2>2, <2>4 DEF Shifted
  <2> QED
    BY <1>3, <2>1, <2>3, <2>5
<1>4. CASE st = "INVALID" /\ st2 # "INVALID" /\ Head(q) \in Kind(b, Grants)
  <2> DEFINE L == Behind(q, Kind(b, Grants), Kind(b, T))
             L2 == At(Tail(q), Kind(b, T))
  <2>1. LiveAt(q, st, b, T) = L /\ LiveAt(Tail(q), st2, b, T) = L2
    BY <1>4 DEF LiveAt
  <2>2. \A i : i \in L2 <=> i \in Nat \ {0} /\ i + 1 \in L
    BY <1>1, <1>4, PopBehind
  <2>3. 1 \notin L /\ \A i \in L : i \in Nat \ {0, 1}
    BY <1>1, PopBehind
  <2> HIDE DEF L, L2
  <2>4. ASSUME NEW i \in L PROVE i \in Nat \ {0} /\ (i = 1 \/ i - 1 \in L2)
    <3>1. i \in Nat \ {0, 1} /\ i - 1 \in Nat \ {0} /\ (i - 1) + 1 = i
      BY <2>3
    <3> QED
      BY <2>2, <3>1
  <2>5. Shifted(L, L2)
    BY <2>2, <2>4 DEF Shifted
  <2> QED
    BY <1>4, <2>1, <2>3, <2>5
<1> QED
  BY <1>2, <1>3, <1>4

\* The live requests without the first message; one that finds its line is the only one.
LEMMA PopLive ==
  ASSUME NEW q \in Seq(Message), q # <<>>, NEW b, NEW st, NEW st2, CacheOrder(q, st, b),
         LET m == Head(q) IN
         \/ st2 = st /\ ~(m.block = b /\ m.type \in Grants)
         \/ st = "INVALID" /\ st2 # "INVALID" /\ m.block = b /\ m.type \in Grants
  PROVE  /\ CacheOrder(Tail(q), st2, b)
         /\ ~(Head(q).block = b /\ Head(q).type \in Snoops /\ st # "INVALID") =>
              LiveIn(Tail(q), st2, b) = LiveIn(q, st, b)
         /\ Head(q).block = b /\ Head(q).type \in Snoops /\ st # "INVALID" =>
              /\ LiveIn(q, st, b) = {Head(q).type} /\ LiveIn(Tail(q), st2, b) = {}
              /\ "UPGRADE_REP" \notin RepliesIn(q, b)
<1>1. Tail(q) \in Seq(Message) /\ Head(q) \in Message
  OBVIOUS
<1>2. \A T : Head(q) \in Kind(b, T) <=> Head(q).block = b /\ Head(q).type \in T
  BY <1>1 DEF Kind
<1>3. \/ st2 = st /\ Head(q) \notin Kind(b, Grants)
      \/ st = "INVALID" /\ st2 # "INVALID" /\ Head(q) \in Kind(b, Grants)
  BY <1>2
<1> DEFINE L(T) == LiveAt(q, st, b, T)
           L2(T) == LiveAt(Tail(q), st2, b, T)
           live == Head(q).block = b /\ Head(q).type \in Snoops /\ st # "INVALID"
<1>4. Snoops \cap Grants = {}
  BY DEF Snoops, Grants
<1>5. ASSUME NEW T, T \subseteq Snoops
      PROVE  Shifted(L(T), L2(T)) /\ (1 \in L(T) <=> st # "INVALID" /\ Head(q).block = b /\ Head(q).type \in T)
  <2>1. T \cap Grants = {}
    BY <1>4, <1>5
  <2> QED
    BY <1>2, <1>3, <2>1, PopLiveAt
<1>6. Shifted(L(Snoops), L2(Snoops)) /\ (1 \in L(Snoops) <=> live)
  BY <1>5
<1>7. \A i, j \in L(Snoops) : i = j
  BY DEF CacheOrder
<1>8. \A i \in At(q, Kind(b, {"UPGRADE_REP"})), j \in L(Snoops) : i < j
  BY DEF CacheOrder
<1>9. \A i : i \in At(Tail(q), Kind(b, {"UPGRADE_REP"})) => i \in Nat \ {0} /\ i + 1 \in At(q, Kind(b, {"UPGRADE_REP"}))
  BY PopAt
<1>10. \A i \in At(q, Kind(b, {"UPGRADE_REP"})) : i \in Nat \ {0}
  BY PopAt
<1> HIDE DEF L, L2, live
<1>11. \A i, j \in L2(Snoops) : i = j
  <2>1. ASSUME NEW i \in L2(Snoops), NEW j \in L2(Snoops) PROVE i = j
    <3>1. i \in Nat /\ j \in Nat /\ i + 1 \in L(Snoops) /\ j + 1 \in L(Snoops)
      BY <1>6 DEF Shifted
    <3>2. i + 1 = j + 1
      BY <1>7, <3>1
    <3> QED
      BY <3>1, <3>2
  <2> QED
    BY <2>1
<1>12. \A i \in At(Tail(q), Kind(b, {"UPGRADE_REP"})), j \in L2(Snoops) : i < j
  <2>1. ASSUME NEW i \in At(Tail(q), Kind(b, {"UPGRADE_REP"})), NEW j \in L2(Snoops) PROVE i < j
    <3>1. i \in Nat /\ j \in Nat /\ i + 1 < j + 1
      BY <1>6, <1>8, <1>9 DEF Shifted
    <3> QED
      BY <3>1
  <2> QED
    BY <2>1
<1>13. CacheOrder(Tail(q), st2, b)
  BY <1>11, <1>12, PopReplies DEF CacheOrder, L2
<1>14. ASSUME ~live PROVE LiveIn(Tail(q), st2, b) = LiveIn(q, st, b)
  <2>1. ASSUME NEW t \in Snoops PROVE L2({t}) # {} <=> L({t}) # {}
    <3>1. Shifted(L({t}), L2({t})) /\ 1 \notin L({t})
      BY <1>5, <1>14, <2>1 DEF live
    <3>2. ASSUME NEW i \in L2({t}) PROVE L({t}) # {}
      BY <3>1 DEF Shifted
    <3>3. ASSUME NEW i \in L({t}) PROVE L2({t}) # {}
      BY <3>1 DEF Shifted
    <3> QED
      BY <3>2, <3>3
  <2> QED
    BY <2>1 DEF LiveIn, L, L2
<1>15. ASSUME live
       PROVE  LiveIn(q, st, b) = {Head(q).type} /\ LiveIn(Tail(q), st2, b) = {} /\ "UPGRADE_REP" \notin RepliesIn(q, b)
  <2>1. 1 \in L(Snoops) /\ 1 \in L({Head(q).type})
    BY <1>5, <1>6, <1>15 DEF live
  <2>2. ASSUME NEW i \in L2(Snoops) PROVE FALSE
    <3>1. i \in Nat \ {0} /\ i + 1 \in L(Snoops)
      BY <1>6 DEF Shifted
    <3>2. i + 1 = 1
      BY <1>7, <2>1, <3>1
    <3> QED
      BY <3>1, <3>2
  <2>3. LiveIn(Tail(q), st2, b) = {}
    BY <2>2, LiveTypes DEF L2
  <2>4. ASSUME NEW t \in Snoops, L({t}) # {} PROVE t = Head(q).type
    <3>1. PICK i : i \in L({t})
      BY <2>4
    <3>2. i \in L(Snoops)
      BY <3>1 DEF L, LiveAt, At, Behind, Kind
    <3>3. i = 1
      BY <1>7, <2>1, <3>2
    <3> QED
      BY <1>5, <2>4, <3>1, <3>3
  <2>5. LiveIn(q, st, b) = {Head(q).type}
    BY <1>15, <2>1, <2>4 DEF LiveIn, L, live
  <2>6. At(q, Kind(b, {"UPGRADE_REP"})) = {}
    BY <1>8, <1>10, <2>1
  <2> QED
    BY <2>3, <2>5, <2>6, ReplyTypes DEF In
<1> QED
  BY <1>13, <1>14, <1>15 DEF live

\* The line goes away and is not on its way: no request will find it.
LEMMA LineGone ==
  ASSUME NEW q, NEW b, NEW st, st # "INVALID", CacheOrder(q, st, b), RepliesIn(q, b) \cap Grants = {}
  PROVE  CacheOrder(q, "INVALID", b) /\ LiveIn(q, "INVALID", b) = {}
<1>1. At(q, Kind(b, Grants)) = {}
  BY ReplyTypes DEF In
<1>2. \A T : LiveAt(q, "INVALID", b, T) = {}
  BY <1>1 DEF LiveAt, Behind
<1> QED
  BY <1>2 DEF CacheOrder, LiveIn

\* Which state a valid line has does not matter for what is live.
LEMMA LineStays ==
  ASSUME NEW q, NEW b, NEW st, NEW st2, st # "INVALID", st2 # "INVALID"
  PROVE  (CacheOrder(q, st, b) <=> CacheOrder(q, st2, b)) /\ LiveIn(q, st2, b) = LiveIn(q, st, b)
<1>1. \A T : LiveAt(q, st, b, T) = LiveAt(q, st2, b, T)
  BY DEF LiveAt
<1> QED
  BY <1>1 DEF CacheOrder, LiveIn

\* Only the data of the messages differ.
Alike(q, q2) ==
  /\ q \in Seq(Message) /\ q2 \in Seq(Message) /\ Len(q2) = Len(q)
  /\ \A i \in 1..Len(q) : q2[i].type = q[i].type /\ q2[i].block = q[i].block /\ q2[i].from = q[i].from

\* Views do not depend on the data of messages.
LEMMA AlikeSame ==
  ASSUME NEW q, NEW q2, Alike(q, q2), NEW b
  PROVE  /\ RepliesIn(q2, b) = RepliesIn(q, b)
         /\ \A n : ReturnsIn(q2, n, b) = ReturnsIn(q, n, b) /\ (HomeOrder(q2, n, b) <=> HomeOrder(q, n, b))
         /\ \A st : LiveIn(q2, st, b) = LiveIn(q, st, b) /\ (CacheOrder(q2, st, b) <=> CacheOrder(q, st, b))
         /\ ReadIn(q2, b) <=> ReadIn(q, b)
         /\ ReadOrder(q2, b) <=> ReadOrder(q, b)
<1>1. \A i \in 1..Len(q) : q[i] \in Message /\ q2[i] \in Message
  BY DEF Alike
<1>2. ASSUME NEW T PROVE At(q2, Kind(b, T)) = At(q, Kind(b, T))
  BY <1>1 DEF Alike, At, Kind
<1>3. ASSUME NEW n, NEW T PROVE At(q2, KindOf(n, b, T)) = At(q, KindOf(n, b, T))
  BY <1>1 DEF Alike, At, KindOf
<1>4. ASSUME NEW st, NEW T PROVE LiveAt(q2, st, b, T) = LiveAt(q, st, b, T)
  BY <1>2 DEF LiveAt, Behind
<1>5. RepliesIn(q2, b) = RepliesIn(q, b)
  BY <1>2 DEF RepliesIn, In
<1>6. ASSUME NEW n PROVE ReturnsIn(q2, n, b) = ReturnsIn(q, n, b) /\ (HomeOrder(q2, n, b) <=> HomeOrder(q, n, b))
  BY <1>3 DEF ReturnsIn, HomeOrder, In, One, Before
<1>7. ASSUME NEW st PROVE LiveIn(q2, st, b) = LiveIn(q, st, b) /\ (CacheOrder(q2, st, b) <=> CacheOrder(q, st, b))
  BY <1>2, <1>4 DEF LiveIn, CacheOrder, One
<1>8. (ReadIn(q2, b) <=> ReadIn(q, b)) /\ (ReadOrder(q2, b) <=> ReadOrder(q, b))
  BY <1>2 DEF ReadIn, ReadOrder, In, One
<1> QED
  BY <1>5, <1>6, <1>7, <1>8

-----------------------------------------------------------------------------
(* 3. Views of the state                                                   *)

\* Requests in the queue of a block.
Req == [type : Requests \cup {"NULLIFY_REQ"}, node : Node, wait : BOOLEAN,
        forwardingFrom : Node \cup {NoNode}, data : Data \cup {"none"}]

\* No request is in progress.
NoReq == [type |-> "NONE", node |-> NoNode, wait |-> FALSE, forwardingFrom |-> NoNode]

\* The request in progress, without its data.
HeadOf(q) ==
  IF q = <<>> THEN NoReq
  ELSE [type |-> Head(q).type, node |-> Head(q).node, wait |-> Head(q).wait,
        forwardingFrom |-> Head(q).forwardingFrom]

\* What n asks for in the queue.
AskedIn(q, n) == {t \in Requests : \E k \in 1..Len(q) : q[k].node = n /\ q[k].type = t}

\* Only the request in progress waits or has data; a node has one request in the queue.
QueueInv(q) ==
  /\ q \in Seq(Req)
  /\ \A k \in 1..Len(q) : k > 1 =>
       /\ q[k].type \in Requests /\ ~q[k].wait /\ q[k].forwardingFrom = NoNode
       /\ q[k].data = "none"
  /\ \A j, k \in 1..Len(q) :
       q[j].node = q[k].node /\ q[j].type \in Requests /\ q[k].type \in Requests => j = k

\* A reply is to come; the first waiter writes; a writer has been woken.
Awaited(n, b) == waiters[n][b] # <<>> /\ serving[n] # b
FirstWrites(n, b) == waiters[n][b] # <<>> /\ Head(waiters[n][b]).excl
WokenWriter(n, b) ==
  \E c \in Core : NodeOf[c] = n /\ user[c].pc = "woken" /\ user[c].block = b /\ user[c].excl

\* The caches' part of the view of b.
Caches(b) ==
  [ln |-> [n \in Node |-> line[n][b].state],
   tk |-> [n \in Node |-> Awaited(n, b)],
   hx |-> [n \in Node |-> FirstWrites(n, b)],
   wk |-> [n \in Node |-> WokenWriter(n, b)]]

\* Block b with the directory entry e, the requests q, the messages box and the caches C.
View(e, q, box, b, C) ==
  [e |-> e, r |-> HeadOf(q),
   a |-> [n \in Node |-> AskedIn(q, n)],
   s |-> [n \in Node |-> RepliesIn(box[n], b)],
   l |-> [n \in Node |-> LiveIn(box[n], C.ln[n], b)],
   f |-> [n \in Node |-> ReturnsIn(box[Home], n, b)],
   rd |-> ReadIn(box[Home], b),
   ln |-> C.ln, tk |-> C.tk, hx |-> C.hx, wk |-> C.wk]

\* The messages about b are in order.
Ordered(box, b, C) ==
  /\ ReadOrder(box[Home], b)
  /\ \A n \in Node : CacheOrder(box[n], C.ln[n], b) /\ HomeOrder(box[Home], n, b)

\* Lines: valid ones, and only those, have data.
LineT == {l \in [state : States, data : Data \cup {"none"}] :
            l.data = "none" <=> l.state = "INVALID"}
Waiter == [core : Core, excl : BOOLEAN]

\* The types of the caches' variables.
CacheT ==
  /\ line \in [Node -> [Block -> LineT]]
  /\ waiters \in [Node -> [Block -> Seq(Waiter)]]
  /\ user \in [Core -> [pc : {"idle", "wait", "woken"}, block : Block \cup {NoBlock}, excl : BOOLEAN]]
  /\ serving \in [Node -> Block \cup {NoBlock}]

\* The caches' part of a view.
CachesT == [ln : [Node -> States], tk : [Node -> BOOLEAN], hx : [Node -> BOOLEAN],
            wk : [Node -> BOOLEAN]]

\* Only the home node gets messages for the directory and the DRAM.
ToCache == {m \in Message : m.type \in Replies \cup Snoops}
Boxes == {box \in [Node -> Seq(Message)] : \A n \in Node \ {Home} : box[n] \in Seq(ToCache)}

-----------------------------------------------------------------------------
\* The request in progress, or none.
LEMMA HeadType ==
  ASSUME NEW q \in Seq(Req)
  PROVE  HeadOf(q) \in HeadT
<1>1. CASE q = <<>>
  BY <1>1 DEF HeadOf, NoReq, HeadT
<1>2. CASE q # <<>>
  <2>1. Head(q) \in Req
    BY <1>2
  <2> QED
    BY <1>2, <2>1 DEF HeadOf, HeadT, Req
<1> QED
  BY <1>1, <1>2

\* The caches' part of a view has its type.
LEMMA CachesType ==
  ASSUME CacheT, NEW b \in Block
  PROVE  Caches(b) \in CachesT
<1>4. \A n \in Node : line[n][b].state \in States
  BY DEF CacheT, LineT
<1>5. \A n \in Node : Awaited(n, b) \in BOOLEAN /\ WokenWriter(n, b) \in BOOLEAN
  BY DEF Awaited, WokenWriter
<1>6. \A n \in Node : FirstWrites(n, b) \in BOOLEAN
  BY DEF FirstWrites, CacheT, Waiter
<1> QED
  BY <1>4, <1>5, <1>6 DEF Caches, CachesT

\* A view has its type.
LEMMA ViewType ==
  ASSUME NEW C \in CachesT, NEW e \in EntryT, NEW q \in Seq(Req), NEW box, NEW b
  PROVE  View(e, q, box, b, C) \in AbsT
<1>1. HeadOf(q) \in HeadT
  BY HeadType
<1>2. \A n \in Node : /\ AskedIn(q, n) \in SUBSET Requests
                      /\ RepliesIn(box[n], b) \in SUBSET Replies
                      /\ LiveIn(box[n], C.ln[n], b) \in SUBSET Snoops
                      /\ ReturnsIn(box[Home], n, b) \in SUBSET Returns
  BY DEF AskedIn, RepliesIn, LiveIn, ReturnsIn
<1>3. ReadIn(box[Home], b) \in BOOLEAN
  BY DEF ReadIn, In
<1>4. /\ C.ln \in [Node -> {"INVALID", "SHARED", "SHARED_UPGRADING", "EXCLUSIVE", "MODIFIED"}]
      /\ C.tk \in [Node -> BOOLEAN] /\ C.hx \in [Node -> BOOLEAN] /\ C.wk \in [Node -> BOOLEAN]
  BY DEF CachesT, States
<1> QED
  BY <1>1, <1>2, <1>3, <1>4 DEF View, AbsT

\* The parts of a view.
LEMMA ViewFields ==
  ASSUME NEW e, NEW q, NEW box, NEW b, NEW C
  PROVE  /\ View(e, q, box, b, C).e = e /\ View(e, q, box, b, C).r = HeadOf(q)
         /\ View(e, q, box, b, C).ln = C.ln /\ View(e, q, box, b, C).tk = C.tk
         /\ View(e, q, box, b, C).hx = C.hx /\ View(e, q, box, b, C).wk = C.wk
         /\ \A n \in Node :
              /\ View(e, q, box, b, C).a[n] = AskedIn(q, n)
              /\ View(e, q, box, b, C).s[n] = RepliesIn(box[n], b)
              /\ View(e, q, box, b, C).l[n] = LiveIn(box[n], C.ln[n], b)
              /\ View(e, q, box, b, C).f[n] = ReturnsIn(box[Home], n, b)
         /\ View(e, q, box, b, C).rd = ReadIn(box[Home], b)
  BY DEF View

\* What a view is made of.
LEMMA ViewParts ==
  ASSUME NEW e, NEW q, NEW box, NEW b, NEW C, NEW e2, NEW q2, NEW box2
  PROVE  LET A == View(e, q, box, b, C)  A2 == View(e2, q2, box2, b, C) IN
         /\ A2.ln = A.ln /\ A2.tk = A.tk /\ A2.hx = A.hx /\ A2.wk = A.wk
         /\ box2 = box => A2.s = A.s /\ A2.l = A.l /\ A2.f = A.f /\ A2.rd = A.rd
         /\ q2 = q => A2.r = A.r /\ A2.a = A.a
         /\ e2 = e => A2.e = A.e
  BY DEF View

\* A node has the block or gets it exactly if its inbox and its line say so.
LEMMA ReachableView ==
  ASSUME NEW e, NEW q, NEW box, NEW b, NEW C, NEW n \in Node
  PROVE  Reachable(View(e, q, box, b, C), n) <=> Reached(box[n], C.ln[n], b)
<1>1. View(e, q, box, b, C).s[n] = RepliesIn(box[n], b) /\ View(e, q, box, b, C).ln[n] = C.ln[n]
  BY ViewFields
<1> QED
  BY <1>1 DEF Reachable, Reached, Granted, Grants

-----------------------------------------------------------------------------
(* The message m is sent to the nodes N.                                   *)

\* The inboxes afterwards.
Post(box, N, m) == [n \in Node |-> IF n \in N THEN Append(box[n], m) ELSE box[n]]

\* Inboxes keep their type when a message is sent.
LEMMA PostType ==
  ASSUME NEW box \in Boxes, NEW N, NEW m \in Message, m \in ToCache \/ N \subseteq {Home}
  PROVE  Post(box, N, m) \in Boxes
<1>1. box \in [Node -> Seq(Message)] /\ \A n \in Node \ {Home} : box[n] \in Seq(ToCache)
  BY DEF Boxes
<1>2. \A n \in Node : Post(box, N, m)[n] = IF n \in N THEN Append(box[n], m) ELSE box[n]
  BY DEF Post
<1>3. ASSUME NEW n \in Node
      PROVE  /\ Post(box, N, m)[n] \in Seq(Message)
             /\ n # Home => Post(box, N, m)[n] \in Seq(ToCache)
  <2>1. box[n] \in Seq(Message) /\ (n # Home => box[n] \in Seq(ToCache))
    BY <1>1
  <2>2. Append(box[n], m) \in Seq(Message)
    BY <2>1
  <2>3. n # Home /\ m \in ToCache => Append(box[n], m) \in Seq(ToCache)
    BY <2>1
  <2> QED
    BY <1>2, <2>1, <2>2, <2>3
<1>5. Post(box, N, m) \in [Node -> Seq(Message)]
  BY <1>3 DEF Post
<1> QED
  BY <1>3, <1>5 DEF Boxes

\* What a block looks like afterwards.
Posted(A, A2, N, m, b) ==
  /\ A2.e = A.e /\ A2.r = A.r /\ A2.a = A.a /\ A2.ln = A.ln /\ A2.tk = A.tk /\ A2.hx = A.hx
  /\ A2.wk = A.wk
  /\ \A n \in Node :
       /\ A2.s[n] = A.s[n] \cup (IF n \in N /\ m.block = b /\ m.type \in Replies THEN {m.type} ELSE {})
       /\ A2.l[n] = A.l[n] \cup (IF n \in N /\ m.block = b /\ m.type \in Snoops /\ Reachable(A, n)
                                 THEN {m.type} ELSE {})
       /\ A2.f[n] = A.f[n] \cup (IF Home \in N /\ m.block = b /\ m.from = n /\ m.type \in Returns
                                 THEN {m.type} ELSE {})
  /\ A2.rd <=> A.rd \/ (Home \in N /\ m.block = b /\ m.type \in Reads)

\* What sending a message does to the view of a block.
LEMMA PostView ==
  ASSUME NEW e, NEW q, NEW box \in Boxes, NEW N, NEW m \in Message, NEW b, NEW C
  PROVE  Posted(View(e, q, box, b, C), View(e, q, Post(box, N, m), b, C), N, m, b)
<1> DEFINE A == View(e, q, box, b, C)
           box2 == Post(box, N, m)
           A2 == View(e, q, box2, b, C)
<1>0. A2.e = A.e /\ A2.r = A.r /\ A2.a = A.a /\ A2.ln = A.ln /\ A2.tk = A.tk /\ A2.hx = A.hx /\ A2.wk = A.wk
  BY ViewParts
<1>1. \A n \in Node : box[n] \in Seq(Message) /\ box2[n] = IF n \in N THEN Append(box[n], m) ELSE box[n]
  BY DEF Boxes, Post
<1>2. Home \in Node
  BY DirectoryAssumption
<1>3. ASSUME NEW n \in Node
      PROVE  A2.s[n] = A.s[n] \cup (IF n \in N /\ m.block = b /\ m.type \in Replies THEN {m.type} ELSE {})
  <2>1. A2.s[n] = RepliesIn(box2[n], b) /\ A.s[n] = RepliesIn(box[n], b)
    BY ViewFields
  <2>2. RepliesIn(Append(box[n], m), b) =
          RepliesIn(box[n], b) \cup (IF m.block = b /\ m.type \in Replies THEN {m.type} ELSE {})
    BY <1>1, PushReplies
  <2> HIDE DEF A, A2, box2
  <2> QED
    BY <1>1, <2>1, <2>2
<1>4. ASSUME NEW n \in Node
      PROVE  A2.l[n] = A.l[n] \cup (IF n \in N /\ m.block = b /\ m.type \in Snoops /\ Reachable(A, n)
                                    THEN {m.type} ELSE {})
  <2> DEFINE st == C.ln[n]
  <2>1. A2.l[n] = LiveIn(box2[n], st, b) /\ A.l[n] = LiveIn(box[n], st, b)
    BY ViewFields
  <2>2. Reachable(A, n) <=> Reached(box[n], st, b)
    BY ReachableView
  <2>3. LiveIn(Append(box[n], m), st, b) =
          LiveIn(box[n], st, b) \cup (IF m.block = b /\ m.type \in Snoops /\ Reached(box[n], st, b)
                                      THEN {m.type} ELSE {})
    BY <1>1, PushLive
  <2> HIDE DEF A, A2, box2, st
  <2> QED
    BY <1>1, <2>1, <2>2, <2>3
<1>5. ASSUME NEW n \in Node
      PROVE  A2.f[n] = A.f[n] \cup (IF Home \in N /\ m.block = b /\ m.from = n /\ m.type \in Returns
                                    THEN {m.type} ELSE {})
  <2>1. A2.f[n] = ReturnsIn(box2[Home], n, b) /\ A.f[n] = ReturnsIn(box[Home], n, b)
    BY ViewFields
  <2>2. ReturnsIn(Append(box[Home], m), n, b) =
          ReturnsIn(box[Home], n, b) \cup (IF m.block = b /\ m.from = n /\ m.type \in Returns THEN {m.type} ELSE {})
    BY <1>1, <1>2, PushReturns
  <2> HIDE DEF A, A2, box2
  <2> QED
    BY <1>1, <1>2, <2>1, <2>2
<1>6. A2.rd <=> A.rd \/ (Home \in N /\ m.block = b /\ m.type \in Reads)
  <2>1. A2.rd = ReadIn(box2[Home], b) /\ A.rd = ReadIn(box[Home], b)
    BY ViewFields
  <2>2. ReadIn(Append(box[Home], m), b) <=> ReadIn(box[Home], b) \/ (m.block = b /\ m.type \in Reads)
    BY <1>1, <1>2, PushRead
  <2> HIDE DEF A, A2, box2
  <2> QED
    BY <1>1, <1>2, <2>1, <2>2
<1> HIDE DEF A, A2, box2
<1>7. Posted(A, A2, N, m, b)
  BY <1>0, <1>3, <1>4, <1>5, <1>6 DEF Posted
<1> QED
  BY <1>7 DEF A, A2, box2

\* The message may be sent without getting in the way of others.
MayPost(A, N, m, b) ==
  m.block = b =>
    /\ m.type \in Replies => \A n \in N : A.s[n] = {}
    /\ m.type = "UPGRADE_REP" => \A n \in N : A.l[n] = {}
    /\ m.type \in Snoops => \A n \in N : A.l[n] = {}
    /\ m.type \in Reads => ~A.rd
    /\ m.type \in Drops => A.f[m.from] \cap (Drops \cup {"EX_REQ", "SH_REQ"}) = {}
    /\ m.type = "WB_REP" => A.f[m.from] \cap (Drops \cup {"WB_REP"}) = {}
    /\ m.type \in Requests => A.f[m.from] \cap Requests = {}

\* Sending a message keeps the order of messages.
LEMMA PostOrder ==
  ASSUME NEW e, NEW q, NEW box \in Boxes, NEW N \in SUBSET Node, NEW m \in Message, NEW b, NEW C,
         Ordered(box, b, C), MayPost(View(e, q, box, b, C), N, m, b)
  PROVE  Ordered(Post(box, N, m), b, C)
<1> DEFINE A == View(e, q, box, b, C)
           box2 == Post(box, N, m)
<1>1. \A n \in Node : box[n] \in Seq(Message) /\ box2[n] = IF n \in N THEN Append(box[n], m) ELSE box[n]
  BY DEF Boxes, Post
<1>2. Home \in Node
  BY DirectoryAssumption
<1>3. ReadOrder(box2[Home], b)
  <2>1. A.rd = ReadIn(box[Home], b)
    BY ViewFields
  <2>2. Reads \cap Requests = {}
    BY DEF Reads, Requests
  <2>3. Home \in N => (m.block = b /\ m.type \in Reads => ~ReadIn(box[Home], b))
    BY <2>1 DEF MayPost
  <2>4. ReadOrder(box[Home], b)
    BY DEF Ordered
  <2>5. Home \in N => ReadOrder(Append(box[Home], m), b)
    BY <1>1, <1>2, <2>3, <2>4, PushRead
  <2> HIDE DEF box2
  <2> QED
    BY <1>1, <1>2, <2>4, <2>5
<1>4. ASSUME NEW n \in Node
      PROVE  CacheOrder(box2[n], C.ln[n], b)
  <2> DEFINE st == C.ln[n]
  <2>1. A.s[n] = RepliesIn(box[n], b) /\ A.l[n] = LiveIn(box[n], st, b)
    BY ViewFields
  <2>2. CacheOrder(box[n], st, b)
    BY DEF Ordered
  <2>3. n \in N /\ m.block = b => /\ m.type \in Replies => RepliesIn(box[n], b) = {}
                                  /\ m.type = "UPGRADE_REP" => LiveIn(box[n], st, b) = {}
                                  /\ m.type \in Snoops => LiveIn(box[n], st, b) = {}
    BY <2>1 DEF MayPost
  <2> HIDE DEF st
  <2>4. n \in N => CacheOrder(Append(box[n], m), st, b)
    BY <1>1, <2>2, <2>3, PushCacheOrder
  <2> HIDE DEF box2
  <2> QED
    BY <1>1, <2>2, <2>4 DEF st
<1>5. ASSUME NEW n \in Node
      PROVE  HomeOrder(box2[Home], n, b)
  <2>1. A.f[n] = ReturnsIn(box[Home], n, b)
    BY ViewFields
  <2>2. HomeOrder(box[Home], n, b)
    BY DEF Ordered
  <2>3. m.block = b /\ m.from = n =>
           /\ m.type \in Drops => ReturnsIn(box[Home], n, b) \cap (Drops \cup {"EX_REQ", "SH_REQ"}) = {}
           /\ m.type = "WB_REP" => ReturnsIn(box[Home], n, b) \cap (Drops \cup {"WB_REP"}) = {}
           /\ m.type \in Requests => ReturnsIn(box[Home], n, b) \cap Requests = {}
    BY <2>1 DEF MayPost
  <2>4. HomeOrder(Append(box[Home], m), n, b)
    BY <1>1, <1>2, <2>2, <2>3, PushHomeOrder
  <2> HIDE DEF box2
  <2> QED
    BY <1>1, <1>2, <2>2, <2>4
<1> HIDE DEF box2
<1>6. Ordered(box2, b, C)
  BY <1>3, <1>4, <1>5 DEF Ordered
<1> QED
  BY <1>6 DEF box2

\* Messages about other blocks.
LEMMA PostOther ==
  ASSUME NEW e, NEW q, NEW box \in Boxes, NEW N \in SUBSET Node, NEW m \in Message, NEW b, NEW C, m.block # b
  PROVE  /\ View(e, q, Post(box, N, m), b, C) = View(e, q, box, b, C)
         /\ Ordered(box, b, C) => Ordered(Post(box, N, m), b, C)
<1> DEFINE box2 == Post(box, N, m)
<1>1. Posted(View(e, q, box, b, C), View(e, q, box2, b, C), N, m, b)
  BY PostView
<1>2. \A n \in Node : /\ RepliesIn(box2[n], b) = RepliesIn(box[n], b)
                      /\ LiveIn(box2[n], C.ln[n], b) = LiveIn(box[n], C.ln[n], b)
                      /\ ReturnsIn(box2[Home], n, b) = ReturnsIn(box[Home], n, b)
  <2> SUFFICES ASSUME NEW n \in Node
               PROVE  /\ RepliesIn(box2[n], b) = RepliesIn(box[n], b)
                      /\ LiveIn(box2[n], C.ln[n], b) = LiveIn(box[n], C.ln[n], b)
                      /\ ReturnsIn(box2[Home], n, b) = ReturnsIn(box[Home], n, b)
    OBVIOUS
  <2>1. /\ View(e, q, box2, b, C).s[n] = View(e, q, box, b, C).s[n]
        /\ View(e, q, box2, b, C).l[n] = View(e, q, box, b, C).l[n]
        /\ View(e, q, box2, b, C).f[n] = View(e, q, box, b, C).f[n]
    <3> HIDE DEF box2
    <3> QED
      BY <1>1 DEF Posted
  <2>2. /\ View(e, q, box, b, C).s[n] = RepliesIn(box[n], b)
        /\ View(e, q, box, b, C).l[n] = LiveIn(box[n], C.ln[n], b)
        /\ View(e, q, box, b, C).f[n] = ReturnsIn(box[Home], n, b)
    BY ViewFields
  <2>3. /\ View(e, q, box2, b, C).s[n] = RepliesIn(box2[n], b)
        /\ View(e, q, box2, b, C).l[n] = LiveIn(box2[n], C.ln[n], b)
        /\ View(e, q, box2, b, C).f[n] = ReturnsIn(box2[Home], n, b)
    BY ViewFields
  <2> QED
    BY <2>1, <2>2, <2>3
<1>3. ReadIn(box2[Home], b) <=> ReadIn(box[Home], b)
  BY <1>1, ViewFields DEF Posted
<1>4. ReadIn(box2[Home], b) = ReadIn(box[Home], b)
  BY <1>3 DEF ReadIn, In
<1>5. MayPost(View(e, q, box, b, C), N, m, b)
  BY DEF MayPost
<1>6. Ordered(box, b, C) => Ordered(box2, b, C)
  BY <1>5, PostOrder
<1> HIDE DEF box2
<1>7. View(e, q, box2, b, C) = View(e, q, box, b, C)
  BY <1>2, <1>4 DEF View
<1> QED
  BY <1>6, <1>7 DEF box2

-----------------------------------------------------------------------------
(* A message is taken from the inbox of node k.                            *)

\* Inboxes keep their type when a message is taken; only the home node takes those for the directory.
LEMMA PopType ==
  ASSUME NEW box \in Boxes, NEW k \in Node, box[k] # <<>>
  PROVE  /\ [box EXCEPT ![k] = Tail(@)] \in Boxes /\ Head(box[k]) \in Message
         /\ Head(box[k]).type \notin Replies \cup Snoops => k = Home
<1>1. box[k] \in Seq(Message) /\ (k # Home => box[k] \in Seq(ToCache))
  BY DEF Boxes
<1>2. Tail(box[k]) \in Seq(Message) /\ Head(box[k]) \in Message
  BY <1>1
<1>3. k # Home => Tail(box[k]) \in Seq(ToCache) /\ Head(box[k]) \in ToCache
  BY <1>1
<1>4. Head(box[k]).type \notin Replies \cup Snoops => k = Home
  BY <1>3 DEF ToCache
<1> QED
  BY <1>2, <1>3, <1>4 DEF Boxes

\* The line of block b in node k does not change, or has just come in.
Takes(C, C2, k, m, b) ==
  /\ \A n \in Node : n # k => C2.ln[n] = C.ln[n]
  /\ \/ C2.ln[k] = C.ln[k] /\ ~(m.block = b /\ m.type \in Grants)
     \/ C.ln[k] = "INVALID" /\ C2.ln[k] # "INVALID" /\ m.block = b /\ m.type \in Grants

\* What has been taken from the view: a reply, a request of the directory, a
\* message of a cache, a read of the DRAM.
TakenReply(A, A2, k, m, b) ==
  /\ m.block = b /\ m.type \in Replies => A.s[k] = {m.type} /\ A2.s[k] = {}
  /\ m.block # b \/ m.type \notin Replies => A2.s[k] = A.s[k]
  /\ \A n \in Node : n # k => A2.s[n] = A.s[n]

TakenSnoop(A, A2, k, m, b, st) ==
  /\ m.block = b /\ m.type \in Snoops /\ st # "INVALID" =>
       A.l[k] = {m.type} /\ A2.l[k] = {} /\ "UPGRADE_REP" \notin A.s[k]
  /\ ~(m.block = b /\ m.type \in Snoops /\ st # "INVALID") => A2.l[k] = A.l[k]
  /\ \A n \in Node : n # k => A2.l[n] = A.l[n]

TakenReturn(A, A2, k, m, b) ==
  \A n \in Node :
    /\ k = Home /\ m.block = b /\ m.from = n /\ m.type \in Returns =>
         /\ m.type \in A.f[n] /\ A2.f[n] = A.f[n] \ {m.type}
         /\ m.type \in {"EX_REQ", "SH_REQ"} => ~Dropped(A, n)
         /\ m.type \in Drops => "WB_REP" \notin A.f[n]
    /\ k # Home \/ m.block # b \/ m.from # n \/ m.type \notin Returns => A2.f[n] = A.f[n]

TakenRead(A, A2, k, m, b) ==
  /\ k = Home /\ m.block = b /\ m.type \in Reads => A.rd /\ ~A2.rd
  /\ k # Home \/ m.block # b \/ m.type \notin Reads => (A2.rd <=> A.rd)

TakenAll(A, A2, k, m, b, st) ==
  /\ TakenReply(A, A2, k, m, b) /\ TakenSnoop(A, A2, k, m, b, st)
  /\ TakenReturn(A, A2, k, m, b) /\ TakenRead(A, A2, k, m, b)

\* The same, with the order of the messages that are left.
Took(box2, C2, A, A2, k, m, b, st) == Ordered(box2, b, C2) /\ TakenAll(A, A2, k, m, b, st)

\* What taking a message does to the view of a block, and to the order of its messages.
LEMMA PopView ==
  ASSUME NEW box \in Boxes, NEW k \in Node, box[k] # <<>>, NEW b, NEW C, NEW C2,
         Ordered(box, b, C), Takes(C, C2, k, Head(box[k]), b),
         NEW e, NEW q, NEW e2, NEW q2, NEW box2, box2 = [box EXCEPT ![k] = Tail(@)],
         NEW A, A = View(e, q, box, b, C), NEW A2, A2 = View(e2, q2, box2, b, C2)
  PROVE  Took(box2, C2, A, A2, k, Head(box[k]), b, C.ln[k])
<1> DEFINE m == Head(box[k])
<1>1. Home \in Node /\ box2[k] = Tail(box[k]) /\ \A n \in Node : n # k => box2[n] = box[n]
  BY DirectoryAssumption DEF Boxes
<1>2. \A n \in Node : box[n] \in Seq(Message)
  BY DEF Boxes
<1>3. ReadOrder(box[Home], b) /\ \A n \in Node : CacheOrder(box[n], C.ln[n], b) /\ HomeOrder(box[Home], n, b)
  BY DEF Ordered
<1>4. \A n \in Node : /\ A.s[n] = RepliesIn(box[n], b) /\ A2.s[n] = RepliesIn(box2[n], b)
                      /\ A.l[n] = LiveIn(box[n], C.ln[n], b) /\ A2.l[n] = LiveIn(box2[n], C2.ln[n], b)
                      /\ A.f[n] = ReturnsIn(box[Home], n, b) /\ A2.f[n] = ReturnsIn(box2[Home], n, b)
  BY DEF View
<1>5. A.rd = ReadIn(box[Home], b) /\ A2.rd = ReadIn(box2[Home], b)
  BY DEF View
<1>a. /\ A.s[k] = RepliesIn(box[k], b) /\ A2.s[k] = RepliesIn(box2[k], b)
      /\ A.l[k] = LiveIn(box[k], C.ln[k], b) /\ A2.l[k] = LiveIn(box2[k], C2.ln[k], b)
  BY <1>4
<1>b. A2.s[k] = RepliesIn(Tail(box[k]), b) /\ A2.l[k] = LiveIn(Tail(box[k]), C2.ln[k], b)
  BY <1>1, <1>a
<1>c. ASSUME NEW n \in Node, n # k
      PROVE  A2.s[n] = A.s[n] /\ A2.l[n] = A.l[n]
  <2>1. box2[n] = box[n] /\ C2.ln[n] = C.ln[n]
    BY <1>1, <1>c DEF Takes
  <2>2. /\ A.s[n] = RepliesIn(box[n], b) /\ A2.s[n] = RepliesIn(box2[n], b)
        /\ A.l[n] = LiveIn(box[n], C.ln[n], b) /\ A2.l[n] = LiveIn(box2[n], C2.ln[n], b)
    BY <1>4
  <2> QED
    BY <2>1, <2>2
<1>6. TakenReply(A, A2, k, m, b)
  <2>1. One(box[k], Kind(b, Replies))
    BY <1>3 DEF CacheOrder
  <2>2. /\ m.block = b /\ m.type \in Replies => RepliesIn(box[k], b) = {m.type} /\ RepliesIn(Tail(box[k]), b) = {}
        /\ m.block # b \/ m.type \notin Replies => RepliesIn(Tail(box[k]), b) = RepliesIn(box[k], b)
    BY <1>2, <2>1, PopReplies
  <2>3. /\ A.s[k] = RepliesIn(box[k], b) /\ A2.s[k] = RepliesIn(Tail(box[k]), b)
        /\ \A n \in Node : n # k => A2.s[n] = A.s[n]
    BY <1>a, <1>b, <1>c
  <2> HIDE DEF m
  <2> QED
    BY <2>2, <2>3 DEF TakenReply
<1>7. TakenSnoop(A, A2, k, m, b, C.ln[k]) /\ \A n \in Node : CacheOrder(box2[n], C2.ln[n], b)
  <2>1. \/ C2.ln[k] = C.ln[k] /\ ~(m.block = b /\ m.type \in Grants)
        \/ C.ln[k] = "INVALID" /\ C2.ln[k] # "INVALID" /\ m.block = b /\ m.type \in Grants
    BY DEF Takes
  <2>2. /\ CacheOrder(Tail(box[k]), C2.ln[k], b)
        /\ ~(m.block = b /\ m.type \in Snoops /\ C.ln[k] # "INVALID") =>
             LiveIn(Tail(box[k]), C2.ln[k], b) = LiveIn(box[k], C.ln[k], b)
        /\ m.block = b /\ m.type \in Snoops /\ C.ln[k] # "INVALID" =>
             /\ LiveIn(box[k], C.ln[k], b) = {m.type} /\ LiveIn(Tail(box[k]), C2.ln[k], b) = {}
             /\ "UPGRADE_REP" \notin RepliesIn(box[k], b)
    BY <1>2, <1>3, <2>1, PopLive
  <2>3. \A n \in Node : n # k => C2.ln[n] = C.ln[n]
    BY DEF Takes
  <2> HIDE DEF m
  <2>4. \A n \in Node : CacheOrder(box2[n], C2.ln[n], b)
    BY <1>1, <1>3, <2>2, <2>3
  <2>6. /\ A.l[k] = LiveIn(box[k], C.ln[k], b) /\ A2.l[k] = LiveIn(Tail(box[k]), C2.ln[k], b)
        /\ A.s[k] = RepliesIn(box[k], b)
        /\ \A n \in Node : n # k => A2.l[n] = A.l[n]
    BY <1>a, <1>b, <1>c
  <2>5. TakenSnoop(A, A2, k, m, b, C.ln[k])
    BY <2>2, <2>6 DEF TakenSnoop
  <2> QED
    BY <2>4, <2>5
<1>8. TakenReturn(A, A2, k, m, b) /\ \A n \in Node : HomeOrder(box2[Home], n, b)
  <2>1. CASE k # Home
    <3>1. \A n \in Node : A2.f[n] = A.f[n] /\ HomeOrder(box2[Home], n, b)
      BY <1>1, <1>3, <1>4, <2>1, ZenonT(60)
    <3> QED
      BY <2>1, <3>1 DEF TakenReturn
  <2>2. CASE k = Home
    <3> SUFFICES ASSUME NEW n \in Node
                 PROVE  /\ k = Home /\ m.block = b /\ m.from = n /\ m.type \in Returns =>
                             /\ m.type \in A.f[n] /\ A2.f[n] = A.f[n] \ {m.type}
                             /\ m.type \in {"EX_REQ", "SH_REQ"} => ~Dropped(A, n)
                             /\ m.type \in Drops => "WB_REP" \notin A.f[n]
                        /\ k # Home \/ m.block # b \/ m.from # n \/ m.type \notin Returns => A2.f[n] = A.f[n]
                        /\ HomeOrder(box2[Home], n, b)
      BY DEF TakenReturn
    <3>1. HomeOrder(box[Home], n, b)
      BY <1>3
    <3>2. /\ HomeOrder(Tail(box[Home]), n, b)
          /\ m.block = b /\ m.from = n /\ m.type \in Returns =>
                /\ m.type \in ReturnsIn(box[Home], n, b)
                /\ ReturnsIn(Tail(box[Home]), n, b) = ReturnsIn(box[Home], n, b) \ {m.type}
                /\ m.type \in {"EX_REQ", "SH_REQ"} => ReturnsIn(box[Home], n, b) \cap Drops = {}
                /\ m.type \in Drops => "WB_REP" \notin ReturnsIn(box[Home], n, b)
          /\ m.block # b \/ m.from # n \/ m.type \notin Returns =>
              ReturnsIn(Tail(box[Home]), n, b) = ReturnsIn(box[Home], n, b)
      BY <1>2, <2>2, <3>1, PopReturns
    <3>3. A.f[n] \cap Drops = {} => ~Dropped(A, n)
      BY DEF Dropped, Drops
    <3> HIDE DEF m
    <3> QED
      BY <1>1, <1>4, <2>2, <3>2, <3>3, ZenonT(60)
  <2> QED
    BY <2>1, <2>2
<1>9. TakenRead(A, A2, k, m, b) /\ ReadOrder(box2[Home], b)
  <2>1. CASE k # Home
    BY <1>1, <1>3, <1>5, <2>1 DEF TakenRead
  <2>2. CASE k = Home
    <3>2. /\ ReadOrder(Tail(box[Home]), b)
          /\ m.block = b /\ m.type \in Reads => ReadIn(box[Home], b) /\ ~ReadIn(Tail(box[Home]), b)
          /\ m.block # b \/ m.type \notin Reads => (ReadIn(Tail(box[Home]), b) <=> ReadIn(box[Home], b))
      BY <1>2, <1>3, <2>2, PopRead
    <3> HIDE DEF m
    <3> QED
      BY <1>1, <1>5, <2>2, <3>2 DEF TakenRead
  <2> QED
    BY <2>1, <2>2
<1> QED
  BY <1>6, <1>7, <1>8, <1>9 DEF Ordered, TakenAll, Took

-----------------------------------------------------------------------------
(* The queue of requests for a block.                                      *)

\* The first request and the view of the queue.
LEMMA HeadFacts ==
  ASSUME NEW q, QueueInv(q)
  PROVE  /\ HeadOf(q).type = "NONE" <=> q = <<>>
         /\ q = <<>> => \A n : AskedIn(q, n) = {}
         /\ q # <<>> => /\ HeadOf(q).type = Head(q).type /\ HeadOf(q).node = Head(q).node
                        /\ HeadOf(q).wait = Head(q).wait
                        /\ HeadOf(q).forwardingFrom = Head(q).forwardingFrom
                        /\ HeadOf(q).node \in Node /\ HeadOf(q).type \in Requests \cup {"NULLIFY_REQ"}
                        /\ Head(q) \in Req /\ Head(q) = q[1] /\ Len(q) \in Nat \ {0}
         /\ HeadOf(q).type \in Requests => HeadOf(q).type \in AskedIn(q, HeadOf(q).node)
<1>1. q \in Seq(Req)
  BY DEF QueueInv
<1>2. CASE q = <<>>
  <2>1. HeadOf(q).type = "NONE"
    BY <1>2 DEF HeadOf, NoReq
  <2>2. \A n : AskedIn(q, n) = {}
    BY <1>2 DEF AskedIn
  <2> QED
    BY <1>2, <2>1, <2>2 DEF Requests
<1>3. CASE q # <<>>
  <2>1. Head(q) \in Req /\ Head(q) = q[1] /\ Len(q) \in Nat \ {0} /\ 1 \in 1..Len(q)
    BY <1>1, <1>3
  <2>2. HeadOf(q).type = Head(q).type /\ HeadOf(q).node = Head(q).node
        /\ HeadOf(q).wait = Head(q).wait /\ HeadOf(q).forwardingFrom = Head(q).forwardingFrom
    BY <1>3 DEF HeadOf
  <2>3. HeadOf(q).node \in Node /\ HeadOf(q).type \in Requests \cup {"NULLIFY_REQ"}
    BY <2>1, <2>2 DEF Req
  <2>4. HeadOf(q).type \in Requests => HeadOf(q).type \in AskedIn(q, HeadOf(q).node)
    BY <2>1, <2>2 DEF AskedIn
  <2>5. HeadOf(q).type # "NONE"
    BY <2>3 DEF Requests
  <2> QED
    BY <1>3, <2>1, <2>2, <2>3, <2>4, <2>5
<1> QED
  BY <1>2, <1>3

\* q2 is q with a request of n.
Appended(q, q2, t, n) ==
  /\ QueueInv(q2) /\ Len(q2) = Len(q) + 1
  /\ q # <<>> => HeadOf(q2) = HeadOf(q) /\ Len(q2) # 1
  /\ q = <<>> => HeadOf(q2) = [type |-> t, node |-> n, wait |-> FALSE, forwardingFrom |-> NoNode]
                 /\ Len(q2) = 1 /\ Head(q2).data = "none"
  /\ \A m \in Node : AskedIn(q2, m) = IF m = n THEN {t} ELSE AskedIn(q, m)

\* A request joins the queue of its block (DirectoryReq, handleReq).
LEMMA AppendQueue ==
  ASSUME NEW q, QueueInv(q), NEW t \in Requests, NEW n \in Node, AskedIn(q, n) = {},
         NEW q2, q2 = Append(q, ShmemReq(t, n))
  PROVE  Appended(q, q2, t, n)
<1> DEFINE r == ShmemReq(t, n)
<1>1. q \in Seq(Req)
  BY DEF QueueInv
<1>2. r \in Req /\ r.type = t /\ r.node = n /\ ~r.wait /\ r.forwardingFrom = NoNode /\ r.data = "none"
      /\ r.wait = FALSE
  BY DEF ShmemReq, Req
<1> HIDE DEF r
<1>a. q2 = Append(q, r)
  BY DEF r
<1>3. /\ q2 \in Seq(Req) /\ Len(q2) = Len(q) + 1 /\ Len(q) \in Nat
      /\ \A k \in 1..Len(q) : q2[k] = q[k]
      /\ q2[Len(q) + 1] = r
  BY <1>1, <1>2, <1>a
<1>4. \A k \in 1..Len(q) : ~(q[k].node = n /\ q[k].type \in Requests)
  BY DEF AskedIn
<1>5. ASSUME NEW k \in 1..Len(q2), k > 1
      PROVE  q2[k].type \in Requests /\ ~q2[k].wait /\ q2[k].forwardingFrom = NoNode /\ q2[k].data = "none"
  <2>1. CASE k \in 1..Len(q)
    BY <1>3, <1>5, <2>1 DEF QueueInv
  <2>2. CASE k = Len(q) + 1
    BY <1>2, <1>3, <2>2
  <2> QED
    BY <1>3, <2>1, <2>2
<1>6. ASSUME NEW j \in 1..Len(q2), NEW k \in 1..Len(q2),
             q2[j].node = q2[k].node, q2[j].type \in Requests, q2[k].type \in Requests
      PROVE  j = k
  <2>1. CASE j \in 1..Len(q) /\ k \in 1..Len(q)
    BY <1>3, <1>6, <2>1 DEF QueueInv
  <2>2. CASE j = Len(q) + 1 /\ k \in 1..Len(q)
    BY <1>2, <1>3, <1>4, <1>6, <2>2
  <2>3. CASE k = Len(q) + 1 /\ j \in 1..Len(q)
    BY <1>2, <1>3, <1>4, <1>6, <2>3
  <2> QED
    BY <1>3, <2>1, <2>2, <2>3
<1>7. QueueInv(q2)
  BY <1>3, <1>5, <1>6 DEF QueueInv
<1>8. ASSUME NEW m \in Node
      PROVE  AskedIn(q2, m) = IF m = n THEN {t} ELSE AskedIn(q, m)
  <2>1. \A u : (\E k \in 1..Len(q2) : q2[k].node = m /\ q2[k].type = u) <=>
               (\E k \in 1..Len(q) : q[k].node = m /\ q[k].type = u) \/ (m = n /\ u = t)
    BY <1>2, <1>3
  <2>2. AskedIn(q2, m) = AskedIn(q, m) \cup (IF m = n THEN {t} ELSE {})
    <3>1. \A u : u \in AskedIn(q2, m) <=> u \in Requests /\ \E k \in 1..Len(q2) : q2[k].node = m /\ q2[k].type = u
      BY DEF AskedIn
    <3>2. \A u : u \in AskedIn(q, m) <=> u \in Requests /\ \E k \in 1..Len(q) : q[k].node = m /\ q[k].type = u
      BY DEF AskedIn
    <3>3. \A u : u \in AskedIn(q2, m) <=> u \in AskedIn(q, m) \/ (m = n /\ u = t)
      BY <2>1, <3>1, <3>2
    <3> QED
      BY <3>3
  <2> QED
    BY <2>2
<1>9. q2 # <<>> /\ Head(q2) = q2[1]
  BY <1>3
<1>10. CASE q # <<>>
  <2>1. Head(q2) = Head(q) /\ Len(q) # 0
    BY <1>1, <1>3, <1>9, <1>10
  <2> QED
    BY <1>3, <1>7, <1>8, <1>9, <1>10, <2>1 DEF HeadOf, Appended
<1>11. CASE q = <<>>
  <2>1. Head(q2) = r /\ Len(q2) = 1
    BY <1>3, <1>9, <1>11
  <2>2. HeadOf(q2) = [type |-> t, node |-> n, wait |-> FALSE, forwardingFrom |-> NoNode]
    BY <1>2, <1>9, <2>1 DEF HeadOf
  <2> QED
    BY <1>2, <1>3, <1>7, <1>8, <1>11, <2>1, <2>2 DEF Appended
<1> QED
  BY <1>10, <1>11

\* The request in progress leaves the queue (processNextReq).
LEMMA TailQueue ==
  ASSUME NEW q, QueueInv(q), q # <<>>
  PROVE  /\ QueueInv(Tail(q)) /\ Len(Tail(q)) = Len(q) - 1 /\ Len(q) \in Nat \ {0}
         /\ (Len(q) > 1) <=> Tail(q) # <<>>
         /\ HeadOf(Tail(q)).type # "NULLIFY_REQ" /\ ~HeadOf(Tail(q)).wait
         /\ HeadOf(Tail(q)).forwardingFrom = NoNode
         /\ Tail(q) # <<>> => Head(Tail(q)).data = "none"
         /\ \A m \in Node : AskedIn(Tail(q), m) = IF HeadOf(q).type \in Requests /\ m = HeadOf(q).node
                                                  THEN {} ELSE AskedIn(q, m)
<1> DEFINE q2 == Tail(q)
<1>1. q \in Seq(Req)
  BY DEF QueueInv
<1>2. /\ q2 \in Seq(Req) /\ Len(q2) = Len(q) - 1 /\ Len(q) \in Nat \ {0}
      /\ \A k \in 1..Len(q2) : q2[k] = q[k + 1] /\ k + 1 \in 1..Len(q) /\ k + 1 > 1
      /\ \A k \in 1..Len(q) : k > 1 => k - 1 \in 1..Len(q2) /\ q2[k - 1] = q[k]
  BY <1>1
<1>3. HeadOf(q).type = q[1].type /\ HeadOf(q).node = q[1].node /\ 1 \in 1..Len(q)
  BY <1>2, HeadFacts
<1> HIDE DEF q2
<1>4. \A k \in 1..Len(q2) : q2[k].type \in Requests /\ ~q2[k].wait /\ q2[k].forwardingFrom = NoNode
                            /\ q2[k].data = "none"
  <2> SUFFICES ASSUME NEW k \in 1..Len(q2)
               PROVE  q2[k].type \in Requests /\ ~q2[k].wait /\ q2[k].forwardingFrom = NoNode
                      /\ q2[k].data = "none"
    OBVIOUS
  <2>1. q2[k] = q[k + 1] /\ k + 1 \in 1..Len(q) /\ k + 1 > 1
    BY <1>2
  <2>2. \A j \in 1..Len(q) : j > 1 =>
          q[j].type \in Requests /\ ~q[j].wait /\ q[j].forwardingFrom = NoNode /\ q[j].data = "none"
    BY DEF QueueInv
  <2> QED
    BY <2>1, <2>2
<1>5. QueueInv(q2)
  <2>1. ASSUME NEW j \in 1..Len(q2), NEW k \in 1..Len(q2),
               q2[j].node = q2[k].node, q2[j].type \in Requests, q2[k].type \in Requests
        PROVE  j = k
    <3>1. j + 1 = k + 1
      BY <1>2, <2>1 DEF QueueInv
    <3> QED
      BY <3>1
  <2> QED
    BY <1>2, <1>4, <2>1 DEF QueueInv
<1>6. (Len(q) > 1) <=> q2 # <<>>
  BY <1>2
<1>7. /\ HeadOf(q2).type # "NULLIFY_REQ" /\ ~HeadOf(q2).wait /\ HeadOf(q2).forwardingFrom = NoNode
      /\ q2 # <<>> => Head(q2).data = "none"
  <2>1. CASE q2 = <<>>
    BY <2>1 DEF HeadOf, NoReq
  <2>2. CASE q2 # <<>>
    <3>1. Head(q2) = q2[1] /\ 1 \in 1..Len(q2)
      BY <1>2, <2>2
    <3>2. q2[1].type \in Requests /\ ~q2[1].wait /\ q2[1].forwardingFrom = NoNode /\ q2[1].data = "none"
      BY <1>4, <3>1
    <3>3. HeadOf(q2).type = q2[1].type /\ HeadOf(q2).wait = q2[1].wait
          /\ HeadOf(q2).forwardingFrom = q2[1].forwardingFrom
      BY <2>2, <3>1 DEF HeadOf
    <3> QED
      BY <3>1, <3>2, <3>3 DEF Requests
  <2> QED
    BY <2>1, <2>2
<1>8. ASSUME NEW m \in Node
      PROVE  AskedIn(q2, m) = IF HeadOf(q).type \in Requests /\ m = HeadOf(q).node THEN {} ELSE AskedIn(q, m)
  <2>1. ASSUME NEW k \in 1..Len(q2), q2[k].node = m
        PROVE  /\ q[k + 1].node = m /\ q[k + 1].type = q2[k].type /\ k + 1 \in 1..Len(q)
               /\ ~(HeadOf(q).type \in Requests /\ m = HeadOf(q).node)
    <3>1. q2[k] = q[k + 1] /\ k + 1 \in 1..Len(q) /\ k + 1 > 1 /\ q[k + 1].type \in Requests
      BY <1>2, <1>4
    <3>2. ~(HeadOf(q).type \in Requests /\ m = HeadOf(q).node)
      BY <1>3, <2>1, <3>1 DEF QueueInv
    <3> QED
      BY <2>1, <3>1, <3>2
  <2>2. ASSUME NEW k \in 1..Len(q), q[k].node = m, q[k].type \in Requests,
               ~(HeadOf(q).type \in Requests /\ m = HeadOf(q).node)
        PROVE  k - 1 \in 1..Len(q2) /\ q2[k - 1] = q[k]
    <3>1. k # 1
      BY <1>3, <2>2
    <3> QED
      BY <1>2, <3>1
  <2>3. CASE HeadOf(q).type \in Requests /\ m = HeadOf(q).node
    BY <2>1, <2>3 DEF AskedIn
  <2>4. CASE ~(HeadOf(q).type \in Requests /\ m = HeadOf(q).node)
    <3>1. \A t \in Requests : (\E k \in 1..Len(q2) : q2[k].node = m /\ q2[k].type = t) <=>
                              (\E k \in 1..Len(q) : q[k].node = m /\ q[k].type = t)
      BY <2>1, <2>2, <2>4
    <3> QED
      BY <2>4, <3>1 DEF AskedIn
  <2> QED
    BY <2>3, <2>4
<1> QED
  BY <1>2, <1>5, <1>6, <1>7, <1>8 DEF q2

\* Only details of the first request have changed.
SameQueue(q, q2) ==
  /\ q2 \in Seq(Req) /\ Len(q2) = Len(q)
  /\ \A k \in 1..Len(q) :
       /\ q2[k].type = q[k].type /\ q2[k].node = q[k].node
       /\ k > 1 => q2[k].wait = q[k].wait /\ q2[k].forwardingFrom = q[k].forwardingFrom
                   /\ q2[k].data = q[k].data

\* Changing the flags or the data of the request in progress keeps the queue's invariant.
LEMMA SameQueueFacts ==
  ASSUME NEW q, NEW q2, QueueInv(q), SameQueue(q, q2)
  PROVE  QueueInv(q2) /\ \A n : AskedIn(q2, n) = AskedIn(q, n)
  BY DEF SameQueue, QueueInv, AskedIn

\* The queue of a block that loses its entry: nothing but the NULLIFY_REQ.
LEMMA NullifyQueue ==
  ASSUME NEW n \in Node, NEW q, q = <<ShmemReq("NULLIFY_REQ", n)>>
  PROVE  /\ QueueInv(q) /\ Len(q) = 1 /\ q # <<>> /\ Tail(q) = <<>>
         /\ HeadOf(q) = [type |-> "NULLIFY_REQ", node |-> n, wait |-> FALSE, forwardingFrom |-> NoNode]
         /\ \A m : AskedIn(q, m) = {}
<1> DEFINE r == ShmemReq("NULLIFY_REQ", n)
<1>1. r \in Req /\ r.type = "NULLIFY_REQ" /\ r.node = n /\ r.wait = FALSE /\ r.forwardingFrom = NoNode
  BY DEF ShmemReq, Req
<1> HIDE DEF r
<1>2. q = <<r>>
  BY DEF r
<1>3. q \in Seq(Req) /\ Len(q) = 1 /\ q # <<>> /\ Tail(q) = <<>> /\ Head(q) = r /\ q[1] = r
  BY <1>1, <1>2
<1>4. QueueInv(q)
  BY <1>3 DEF QueueInv
<1>5. \A m : AskedIn(q, m) = {}
  BY <1>1, <1>3 DEF AskedIn, Requests
<1> QED
  BY <1>1, <1>3, <1>4, <1>5 DEF HeadOf

-----------------------------------------------------------------------------
(* 4. The directory: replies and requests                                  *)

\* States of the directory.
DirT == [dir : [Block -> EntryT], reqs : [Block -> Seq(Req)], slots : SUBSET Block,
         replaced : SUBSET Block, inbox : Boxes, run : BOOLEAN]

\* The forwarder of a shared block has a copy (MESIF).
ForwarderKnown(e, p) ==
  p = "mesif" /\ e.state = "SHARED" => e.forwarder \in e.sharers \cup {NoNode}

\* A message that is put together has its type.
LEMMA MessageType ==
  ASSUME NEW t \in MessageTypes, NEW b \in Block, NEW n \in Node, NEW data \in Data \cup {"none"},
         t \in Carriers => data \in Data
  PROVE  /\ ShmemMsg(t, b, n, data) \in Message
         /\ t \in Replies \cup Snoops => ShmemMsg(t, b, n, data) \in ToCache
         /\ ShmemMsg(t, b, n, data).type = t /\ ShmemMsg(t, b, n, data).block = b
         /\ ShmemMsg(t, b, n, data).from = n /\ ShmemMsg(t, b, n, data).data = data
  BY DEF ShmemMsg, Message, ToCache

\* Requests of the directory are of no other kind.
LEMMA SnoopKinds ==
  ASSUME NEW t \in Snoops
  PROVE  /\ t \in MessageTypes /\ t \notin Carriers
         /\ t \notin Replies /\ t \notin Returns /\ t \notin Reads /\ t \notin Drops /\ t # "WB_REP"
         /\ t \notin Requests /\ t # "UPGRADE_REP"
<1>1. t = "INV_REQ" \/ t = "FLUSH_REQ" \/ t = "WB_REQ"
  BY DEF Snoops
<1>2. t \notin Carriers /\ t \notin Reads /\ t \notin Drops /\ t \notin Requests
  BY <1>1 DEF Carriers, Reads, Drops, Requests
<1>3. t \notin Replies
  BY <1>1 DEF Replies, Grants
<1>4. t \notin Returns
  BY <1>1, <1>2 DEF Returns
<1> QED
  BY <1>1, <1>2, <1>3, <1>4 DEF MessageTypes

\* Replies are of no other kind.
LEMMA ReplyKinds ==
  ASSUME NEW t \in Replies
  PROVE  /\ t \in MessageTypes
         /\ t \notin Snoops /\ t \notin Returns /\ t \notin Reads /\ t \notin Drops /\ t # "WB_REP"
         /\ t \notin Requests
<1>1. t = "EX_REP" \/ t = "SH_REP" \/ t = "UPGRADE_REP"
  BY DEF Replies, Grants
<1>2. t \notin Snoops /\ t \notin Reads /\ t \notin Drops /\ t \notin Requests
  BY <1>1 DEF Snoops, Reads, Drops, Requests
<1>4. t \notin Returns
  BY <1>1, <1>2 DEF Returns
<1> QED
  BY <1>1, <1>2, <1>4 DEF MessageTypes

\* Messages to and from the DRAM controller are of no other kind.
LEMMA ReadKinds ==
  ASSUME NEW t \in Reads \cup {"DRAM_WRITE_REQ"}
  PROVE  /\ t \in MessageTypes
         /\ t \notin Snoops /\ t \notin Returns /\ t \notin Replies /\ t \notin Drops /\ t # "WB_REP"
         /\ t \notin Requests /\ t # "UPGRADE_REP"
<1>1. t = "DRAM_READ_REQ" \/ t = "DRAM_READ_REP" \/ t = "DRAM_WRITE_REQ"
  BY DEF Reads
<1>2. t \notin Snoops /\ t \notin Drops /\ t \notin Requests
  BY <1>1 DEF Snoops, Drops, Requests
<1>3. t \notin Replies
  BY <1>1 DEF Replies, Grants
<1>4. t \notin Returns
  BY <1>1, <1>2 DEF Returns
<1> QED
  BY <1>1, <1>2, <1>3, <1>4 DEF MessageTypes

\* Messages of the caches are of no other kind.
LEMMA ReturnKinds ==
  ASSUME NEW t \in Returns
  PROVE  /\ t \in MessageTypes
         /\ t \notin Snoops /\ t \notin Replies /\ t \notin Reads /\ t \notin Grants
         /\ t # "UPGRADE_REP"
<1>1. t \in {"EX_REQ", "SH_REQ", "UPGRADE_REQ", "INV_REP", "FLUSH_REP", "WB_REP"}
  BY DEF Returns, Requests, Drops
<1>2. t \notin Snoops /\ t \notin Reads /\ t \notin Grants
  BY <1>1 DEF Snoops, Reads, Grants
<1>3. t \notin Replies
  BY <1>1, <1>2 DEF Replies
<1> QED
  BY <1>1, <1>2, <1>3 DEF MessageTypes

\* The parts of two views are equal if they are so for every node.
PerNode(A) ==
  /\ A.a = [n \in Node |-> A.a[n]] /\ A.s = [n \in Node |-> A.s[n]]
  /\ A.l = [n \in Node |-> A.l[n]] /\ A.f = [n \in Node |-> A.f[n]]
  /\ A.rd \in BOOLEAN

\* A view's parts are functions on the nodes.
LEMMA ViewPointwise ==
  ASSUME NEW e, NEW q, NEW box, NEW b, NEW C
  PROVE  PerNode(View(e, q, box, b, C))
<1>1. ReadIn(box[Home], b) \in BOOLEAN
  BY DEF ReadIn, In
<1> QED
  BY <1>1 DEF View, PerNode

\* Parts that agree for every node are equal.
LEMMA PointwiseEqual ==
  ASSUME NEW A, PerNode(A), NEW A2, PerNode(A2)
  PROVE  /\ (\A n \in Node : A2.a[n] = A.a[n]) => A2.a = A.a
         /\ (\A n \in Node : A2.s[n] = A.s[n]) => A2.s = A.s
         /\ (\A n \in Node : A2.l[n] = A.l[n]) => A2.l = A.l
         /\ (\A n \in Node : A2.f[n] = A.f[n]) => A2.f = A.f
         /\ (A2.rd <=> A.rd) => A2.rd = A.rd
  BY DEF PerNode

-----------------------------------------------------------------------------
(* Requests of the directory are sent to the nodes N.                      *)

\* INV_REQ, FLUSH_REQ or WB_REQ is sent to the nodes N.
LEMMA AskOutcome ==
  ASSUME NEW e, NEW q, NEW box \in Boxes, NEW b \in Block, NEW C, NEW A, A = View(e, q, box, b, C),
         Fresh(A), Ordered(box, b, C), NEW N \in SUBSET Node, NEW t \in Snoops,
         NEW box2, box2 = Post(box, N, ShmemMsg(t, b, Home, "none")),
         NEW A2, A2 = View(e, q, box2, b, C)
  PROVE  /\ OnlyAsks(A, A2) /\ Ordered(box2, b, C) /\ box2 \in Boxes
         /\ Asked(A, A2, N, t)
<1> DEFINE m == ShmemMsg(t, b, Home, "none")
<1>1. /\ m \in Message /\ m \in ToCache /\ m.type = t /\ m.block = b
      /\ t \notin Replies /\ t \notin Returns /\ t \notin Reads /\ t \notin Drops /\ t # "WB_REP" /\ t \notin Requests
      /\ t # "UPGRADE_REP"
  <2>1. /\ t \in MessageTypes /\ t \notin Carriers
        /\ t \notin Replies /\ t \notin Returns /\ t \notin Reads /\ t \notin Drops /\ t # "WB_REP"
        /\ t \notin Requests /\ t # "UPGRADE_REP"
    BY SnoopKinds
  <2>2. Home \in Node /\ "none" \in Data \cup {"none"}
    BY DirectoryAssumption
  <2>3. m \in Message /\ m \in ToCache /\ m.type = t /\ m.block = b
    BY <2>1, <2>2, MessageType
  <2> QED
    BY <2>1, <2>3
<1> HIDE DEF m
<1>2. Posted(A, A2, N, m, b)
  BY <1>1, PostView DEF m
<1>3. \A n \in Node : A.l[n] = {}
  BY FreshFacts DEF QuietN
<1>4. MayPost(A, N, m, b)
  BY <1>1, <1>3 DEF MayPost
<1>5. Ordered(box2, b, C)
  BY <1>1, <1>4, PostOrder DEF m
<1>6. box2 \in Boxes
  BY <1>1, PostType DEF m
<1>7. Asked(A, A2, N, t)
  BY <1>1, <1>2, <1>3, ZenonT(60) DEF Posted, Asked
<1>8. ASSUME NEW n \in Node PROVE A2.s[n] = A.s[n] /\ A2.f[n] = A.f[n]
  <2>1. /\ A2.s[n] = A.s[n] \cup (IF n \in N /\ m.block = b /\ m.type \in Replies THEN {m.type} ELSE {})
        /\ A2.f[n] = A.f[n] \cup (IF Home \in N /\ m.block = b /\ m.from = n /\ m.type \in Returns
                                  THEN {m.type} ELSE {})
    BY <1>2 DEF Posted
  <2> QED
    BY <1>1, <2>1
<1>p. PerNode(A) /\ PerNode(A2)
  BY ViewPointwise
<1>9. A2.s = A.s /\ A2.f = A.f
  BY <1>8, <1>p, PointwiseEqual
<1>10. A2.rd = A.rd
  <2>1. A2.rd <=> A.rd
    BY <1>1, <1>2 DEF Posted
  <2> QED
    BY <2>1 DEF View, ReadIn, In
<1> QED
  BY <1>2, <1>5, <1>6, <1>7, <1>9, <1>10 DEF OnlyAsks, Posted

-----------------------------------------------------------------------------
(* The request in progress is answered.                                    *)

\* The view of a block whose first request has left the queue.
LEMMA DequeueOutcome ==
  ASSUME NEW e, NEW q, NEW box, NEW b, NEW C, NEW A, A = View(e, q, box, b, C),
         QueueInv(q), q # <<>>,
         NEW e2, NEW box2, NEW A2, A2 = View(e2, Tail(q), box2, b, C)
  PROVE  Dequeued(A, A2) /\ QueueInv(Tail(q))
<1> DEFINE q2 == Tail(q)
<1>1. /\ QueueInv(q2)
      /\ HeadOf(q2).type # "NULLIFY_REQ" /\ ~HeadOf(q2).wait /\ HeadOf(q2).forwardingFrom = NoNode
      /\ \A m \in Node : AskedIn(q2, m) = IF HeadOf(q).type \in Requests /\ m = HeadOf(q).node
                                          THEN {} ELSE AskedIn(q, m)
  BY TailQueue
<1> HIDE DEF q2
<1>2. /\ HeadOf(q2).type = "NONE" <=> q2 = <<>>
      /\ q2 = <<>> => \A n : AskedIn(q2, n) = {}
      /\ q2 # <<>> => HeadOf(q2).node \in Node /\ HeadOf(q2).type \in Requests \cup {"NULLIFY_REQ"}
      /\ HeadOf(q2).type \in Requests => HeadOf(q2).type \in AskedIn(q2, HeadOf(q2).node)
  BY <1>1, HeadFacts
<1>3. A2.r = HeadOf(q2) /\ A.r = HeadOf(q) /\ \A n \in Node : A2.a[n] = AskedIn(q2, n) /\ A.a[n] = AskedIn(q, n)
  BY DEF View, q2
<1>4. HeadInv(A2)
  <2>1. Idles(A2) => \A n \in Node : A2.a[n] = {}
    BY <1>2, <1>3 DEF Idles
  <2>2. ~Idles(A2) => A2.r.node \in Node
    BY <1>2, <1>3 DEF Idles
  <2>3. A2.r.type \in Requests => A2.r.type \in A2.a[A2.r.node]
    BY <1>2, <1>3 DEF Requests
  <2> QED
    BY <1>1, <1>3, <2>1, <2>2, <2>3 DEF HeadInv
<1>5. \A m \in Node : A2.a[m] = IF A.r.type \in Requests /\ m = A.r.node THEN {} ELSE A.a[m]
  BY <1>1, <1>3
<1>6. Dequeued(A, A2)
  BY <1>1, <1>3, <1>4, <1>5 DEF Dequeued
<1> QED
  BY <1>1, <1>6 DEF q2

\* The requester is sent its reply, and its request leaves the queue.
LEMMA AnswerOutcome ==
  ASSUME NEW e, NEW q, NEW box \in Boxes, NEW b \in Block, NEW C, NEW A, A = View(e, q, box, b, C),
         QueueInv(q), q # <<>>, Ordered(box, b, C),
         NEW n, n = A.r.node, n \in Node, A.s[n] = {},
         NEW reply \in Replies, reply = "UPGRADE_REP" => A.l[n] = {},
         NEW data \in Data \cup {"none"}, reply # "UPGRADE_REP" => data \in Data,
         NEW box2, box2 = Post(box, {n}, ShmemMsg(reply, b, Home, data)),
         NEW e2, NEW A2, A2 = View(e2, Tail(q), box2, b, C)
  PROVE  /\ Untouched(A, A2) /\ Dequeued(A, A2) /\ Answered(A, A2, reply) /\ A2.rd = A.rd
         /\ A2.e = e2 /\ Ordered(box2, b, C) /\ box2 \in Boxes /\ QueueInv(Tail(q))
<1> DEFINE m == ShmemMsg(reply, b, Home, data)
           B == View(e, q, box2, b, C)
<1>0. Home \in Node /\ reply \in MessageTypes /\ (reply \in Carriers => data \in Data)
  BY DirectoryAssumption, ReplyKinds DEF Carriers
<1>1. /\ m \in Message /\ m \in ToCache /\ m.type = reply /\ m.block = b
      /\ reply \notin Snoops /\ reply \notin Returns /\ reply \notin Reads /\ reply \notin Drops
      /\ reply # "WB_REP" /\ reply \notin Requests
  BY <1>0, MessageType, ReplyKinds
<1> HIDE DEF m
<1>2. Posted(A, B, {n}, m, b)
  BY <1>1, PostView DEF m
<1>4. MayPost(A, {n}, m, b)
  BY <1>1 DEF MayPost
<1>5. Ordered(box2, b, C)
  BY <1>1, <1>4, PostOrder DEF m
<1>6. box2 \in Boxes
  BY <1>1, PostType DEF m
<1>7. Dequeued(A, A2) /\ QueueInv(Tail(q))
  BY DequeueOutcome
<1>8. /\ A2.s = B.s /\ A2.l = B.l /\ A2.f = B.f /\ A2.rd = B.rd /\ A2.e = e2
      /\ A2.ln = A.ln /\ A2.tk = A.tk /\ A2.hx = A.hx /\ A2.wk = A.wk
  BY DEF View
<1> HIDE DEF B
<1>9. ASSUME NEW k \in Node
      PROVE  /\ A2.l[k] = A.l[k] /\ A2.f[k] = A.f[k]
             /\ A2.s[k] = IF k = A.r.node THEN {reply} ELSE A.s[k]
  <2>1. /\ B.s[k] = A.s[k] \cup (IF k \in {n} /\ m.block = b /\ m.type \in Replies THEN {m.type} ELSE {})
        /\ B.l[k] = A.l[k] \cup (IF k \in {n} /\ m.block = b /\ m.type \in Snoops /\ Reachable(A, k)
                                 THEN {m.type} ELSE {})
        /\ B.f[k] = A.f[k] \cup (IF Home \in {n} /\ m.block = b /\ m.from = k /\ m.type \in Returns
                                 THEN {m.type} ELSE {})
    BY <1>2 DEF Posted
  <2>2. B.l[k] = A.l[k] /\ B.f[k] = A.f[k]
    BY <1>1, <2>1
  <2>3. B.s[k] = IF k = A.r.node THEN {reply} ELSE A.s[k]
    BY <1>1, <2>1
  <2> QED
    BY <1>8, <2>2, <2>3
<1>p. PerNode(A) /\ PerNode(A2)
  BY ViewPointwise
<1>q. /\ A2.l = [k \in Node |-> A2.l[k]] /\ A.l = [k \in Node |-> A.l[k]]
      /\ A2.f = [k \in Node |-> A2.f[k]] /\ A.f = [k \in Node |-> A.f[k]]
  BY <1>p DEF PerNode
<1>r. \A k \in Node : A2.l[k] = A.l[k] /\ A2.f[k] = A.f[k]
  BY <1>9
<1>10. A2.l = A.l /\ A2.f = A.f
  BY <1>r, <1>q, ZenonT(60)
<1>11. A2.rd <=> A.rd
  BY <1>1, <1>2, <1>8 DEF Posted
<1>12. A2.rd = A.rd
  BY <1>11, <1>p, PointwiseEqual
<1>13. Untouched(A, A2)
  BY <1>8, <1>10 DEF Untouched
<1>14. Answered(A, A2, reply)
  BY <1>9 DEF Answered
<1> QED
  BY <1>5, <1>6, <1>7, <1>8, <1>12, <1>13, <1>14

-----------------------------------------------------------------------------
(* The request in progress waits for the DRAM, or for a forwarder.         *)

\* Nothing changes but the entry, the request in progress and what is asked.
SameButSnoops(A, A2) ==
  /\ A2.a = A.a /\ A2.s = A.s /\ A2.f = A.f /\ A2.ln = A.ln /\ A2.tk = A.tk /\ A2.hx = A.hx
  /\ A2.wk = A.wk

\* The request in progress is to wait, with the queue q2 and the entry e2.
Postponed(A, A2, e2, q2, box2, b, C) ==
  /\ SameButSnoops(A, A2) /\ A2.e = e2 /\ A2.r = HeadOf(q2)
  /\ Ordered(box2, b, C) /\ box2 \in Boxes /\ QueueInv(q2)

\* The DRAM is read.
ByDram(A, A2) == A2.l = A.l /\ A2.rd

\* DRAM_READ_REQ is sent for the request in progress.
LEMMA DramOutcome ==
  ASSUME NEW e, NEW q, NEW box \in Boxes, NEW b \in Block, NEW C, NEW A, A = View(e, q, box, b, C),
         QueueInv(q), q # <<>>, Ordered(box, b, C), ~A.rd,
         NEW box2, box2 = Post(box, {Home}, ShmemMsg("DRAM_READ_REQ", b, Home, "none")),
         NEW e2, NEW q2, SameQueue(q, q2), NEW A2, A2 = View(e2, q2, box2, b, C)
  PROVE  Postponed(A, A2, e2, q2, box2, b, C) /\ ByDram(A, A2)
<1> DEFINE m == ShmemMsg("DRAM_READ_REQ", b, Home, "none")
           B == View(e, q, box2, b, C)
           t == "DRAM_READ_REQ"
<1>0. Home \in Node /\ t \in Reads /\ t \notin Carriers
  BY DirectoryAssumption DEF Reads, Carriers
<1> HIDE DEF t
<1>1. /\ m \in Message /\ m.type = t /\ m.block = b
      /\ t \notin Snoops /\ t \notin Returns /\ t \notin Replies /\ t \notin Drops
      /\ t # "WB_REP" /\ t \notin Requests /\ t # "UPGRADE_REP"
  BY <1>0, MessageType, ReadKinds DEF t
<1> HIDE DEF m
<1>2. Posted(A, B, {Home}, m, b)
  BY <1>1, PostView DEF m
<1>4. MayPost(A, {Home}, m, b)
  BY <1>1 DEF MayPost
<1>5. Ordered(box2, b, C)
  BY <1>0, <1>1, <1>4, PostOrder DEF m
<1>6. box2 \in Boxes
  BY <1>1, PostType DEF m
<1>7. QueueInv(q2) /\ \A k : AskedIn(q2, k) = AskedIn(q, k)
  BY SameQueueFacts
<1>8. /\ A2.s = B.s /\ A2.l = B.l /\ A2.f = B.f /\ A2.rd = B.rd /\ A2.e = e2 /\ A2.r = HeadOf(q2)
      /\ A2.ln = A.ln /\ A2.tk = A.tk /\ A2.hx = A.hx /\ A2.wk = A.wk
      /\ \A k \in Node : A2.a[k] = AskedIn(q2, k) /\ A.a[k] = AskedIn(q, k)
  BY DEF View
<1> HIDE DEF B
<1>9. ASSUME NEW k \in Node
      PROVE  A2.l[k] = A.l[k] /\ A2.f[k] = A.f[k] /\ A2.s[k] = A.s[k] /\ A2.a[k] = A.a[k]
  <2>1. /\ B.s[k] = A.s[k] \cup (IF k \in {Home} /\ m.block = b /\ m.type \in Replies THEN {m.type} ELSE {})
        /\ B.l[k] = A.l[k] \cup (IF k \in {Home} /\ m.block = b /\ m.type \in Snoops /\ Reachable(A, k)
                                 THEN {m.type} ELSE {})
        /\ B.f[k] = A.f[k] \cup (IF Home \in {Home} /\ m.block = b /\ m.from = k /\ m.type \in Returns
                                 THEN {m.type} ELSE {})
    BY <1>2 DEF Posted
  <2>2. B.l[k] = A.l[k] /\ B.f[k] = A.f[k] /\ B.s[k] = A.s[k]
    BY <1>1, <2>1
  <2> QED
    BY <1>7, <1>8, <2>2
<1>p. PerNode(A) /\ PerNode(A2)
  BY ViewPointwise
<1>q. /\ (\A n \in Node : A2.a[n] = A.a[n]) => A2.a = A.a
      /\ (\A n \in Node : A2.s[n] = A.s[n]) => A2.s = A.s
      /\ (\A n \in Node : A2.l[n] = A.l[n]) => A2.l = A.l
      /\ (\A n \in Node : A2.f[n] = A.f[n]) => A2.f = A.f
  BY <1>p, PointwiseEqual, ZenonT(60)
<1>10. A2.l = A.l /\ A2.f = A.f /\ A2.s = A.s /\ A2.a = A.a
  BY <1>9, <1>q
<1>11. A2.rd
  BY <1>0, <1>1, <1>2, <1>8 DEF Posted
<1> QED
  BY <1>5, <1>6, <1>7, <1>8, <1>10, <1>11 DEF SameButSnoops, Postponed, ByDram

\* x is asked for the block.
ByForwarder(A, A2, x) == A2.rd = A.rd /\ Asked(A, A2, {x}, "WB_REQ")

\* WB_REQ is sent to the forwarder x for the request in progress.
LEMMA ForwardOutcome ==
  ASSUME NEW e, NEW q, NEW box \in Boxes, NEW b \in Block, NEW C, NEW A, A = View(e, q, box, b, C),
         QueueInv(q), q # <<>>, Ordered(box, b, C), Fresh(A), NEW x \in Node,
         NEW box2, box2 = Post(box, {x}, ShmemMsg("WB_REQ", b, Home, "none")),
         NEW e2, NEW q2, SameQueue(q, q2), NEW A2, A2 = View(e2, q2, box2, b, C)
  PROVE  Postponed(A, A2, e2, q2, box2, b, C) /\ ByForwarder(A, A2, x)
<1> DEFINE B == View(e, q, box2, b, C)
<1>1. {x} \in SUBSET Node /\ "WB_REQ" \in Snoops
  BY DEF Snoops
<1>2. OnlyAsks(A, B) /\ Ordered(box2, b, C) /\ box2 \in Boxes /\ Asked(A, B, {x}, "WB_REQ")
  BY <1>1, AskOutcome
<1>7. QueueInv(q2) /\ \A k : AskedIn(q2, k) = AskedIn(q, k)
  BY SameQueueFacts
<1>8. /\ A2.s = B.s /\ A2.l = B.l /\ A2.f = B.f /\ A2.rd = B.rd /\ A2.e = e2 /\ A2.r = HeadOf(q2)
      /\ A2.ln = A.ln /\ A2.tk = A.tk /\ A2.hx = A.hx /\ A2.wk = A.wk
      /\ \A k \in Node : A2.a[k] = AskedIn(q2, k) /\ A.a[k] = AskedIn(q, k)
  BY DEF View
<1> HIDE DEF B
<1>p. PerNode(A) /\ PerNode(A2)
  BY ViewPointwise
<1>q. /\ (\A n \in Node : A2.a[n] = A.a[n]) => A2.a = A.a
      /\ (\A n \in Node : A2.s[n] = A.s[n]) => A2.s = A.s
      /\ (\A n \in Node : A2.l[n] = A.l[n]) => A2.l = A.l
      /\ (\A n \in Node : A2.f[n] = A.f[n]) => A2.f = A.f
  BY <1>p, PointwiseEqual, ZenonT(60)
<1>9. A2.a = A.a
  BY <1>7, <1>8, <1>q
<1> QED
  BY <1>2, <1>7, <1>8, <1>9 DEF OnlyAsks, Asked, SameButSnoops, Postponed, ByForwarder

-----------------------------------------------------------------------------
(* States D of the directory while a handler runs.                         *)

\* The view of block b.
DirView(D, b) == View(D.dir[b], D.reqs[b], D.inbox, b, Caches(b))

\* What the view leaves out: the queue, the order of messages, the forwarder.
Kept(D, b) == /\ QueueInv(D.reqs[b]) /\ Ordered(D.inbox, b, Caches(b))
              /\ ForwarderKnown(D.dir[b], protocol)

\* No handler is at work on b.
Settled(D, b) == Kept(D, b) /\ Stable(DirView(D, b))

\* Only messages about b have been added.
OnlyAbout(box, box2, b) ==
  \A x \in Block : x # b => \A e, q, C : /\ View(e, q, box2, x, C) = View(e, q, box, x, C)
                                         /\ Ordered(box, x, C) => Ordered(box2, x, C)

\* Only the entry, the requests and the messages of b have changed.
OnlyBlock(D, D2, b) ==
  /\ \A x \in Block : x # b => D2.dir[x] = D.dir[x] /\ D2.reqs[x] = D.reqs[x]
  /\ OnlyAbout(D.inbox, D2.inbox, b)

\* A handler that only touches b leaves the views of other blocks alone.
LEMMA OthersStay ==
  ASSUME NEW D, NEW D2, NEW b, OnlyBlock(D, D2, b), NEW x \in Block, x # b
  PROVE  /\ D2.dir[x] = D.dir[x] /\ D2.reqs[x] = D.reqs[x]
         /\ Settled(D, x) => Settled(D2, x)
         /\ DirView(D2, x) = DirView(D, x) /\ (Kept(D, x) => Kept(D2, x))
<1>1. D2.dir[x] = D.dir[x] /\ D2.reqs[x] = D.reqs[x]
  BY DEF OnlyBlock
<1>2. /\ View(D.dir[x], D.reqs[x], D2.inbox, x, Caches(x)) = View(D.dir[x], D.reqs[x], D.inbox, x, Caches(x))
      /\ Ordered(D.inbox, x, Caches(x)) => Ordered(D2.inbox, x, Caches(x))
  BY DEF OnlyBlock, OnlyAbout
<1>3. DirView(D2, x) = DirView(D, x)
  BY <1>1, <1>2 DEF DirView
<1>4. Kept(D, x) => Kept(D2, x)
  BY <1>1, <1>2 DEF Kept
<1> QED
  BY <1>1, <1>3, <1>4 DEF Settled

\* Sending a message touches only its own block.
LEMMA PostOnlyAbout ==
  ASSUME NEW box \in Boxes, NEW N \in SUBSET Node, NEW m \in Message
  PROVE  OnlyAbout(box, Post(box, N, m), m.block)
  BY PostOther DEF OnlyAbout

\* Two changes that touch only messages about b.
LEMMA OnlyAboutTwice ==
  ASSUME NEW box, NEW box1, NEW box2, NEW b, OnlyAbout(box, box1, b), OnlyAbout(box1, box2, b)
  PROVE  OnlyAbout(box, box2, b)
  BY DEF OnlyAbout

\* What sendTo does to the directory's state.
LEMMA SendEffect ==
  ASSUME NEW D \in DirT, NEW N \in SUBSET Node, NEW t, NEW b, NEW data,
         ShmemMsg(t, b, Home, data) \in Message,
         ShmemMsg(t, b, Home, data) \in ToCache \/ N \subseteq {Home},
         NEW D2, D2 = sendTo(D, N, t, b, data)
  PROVE  /\ D2 \in DirT /\ D2.inbox = Post(D.inbox, N, ShmemMsg(t, b, Home, data))
         /\ D2.dir = D.dir /\ D2.reqs = D.reqs /\ D2.slots = D.slots /\ D2.replaced = D.replaced
         /\ D2.run = D.run /\ OnlyBlock(D, D2, b)
<1> DEFINE m == ShmemMsg(t, b, Home, data)
<1>1. /\ D2.inbox = Post(D.inbox, N, m)
      /\ D2.dir = D.dir /\ D2.reqs = D.reqs /\ D2.slots = D.slots /\ D2.replaced = D.replaced
      /\ D2.run = D.run /\ D2 = [D EXCEPT !.inbox = Post(D.inbox, N, m)]
  BY DEF sendTo, Post, DirT
<1>2. m.block = b
  BY DEF ShmemMsg
<1> HIDE DEF m
<1>3. D.inbox \in Boxes
  BY DEF DirT
<1>4. Post(D.inbox, N, m) \in Boxes
  BY <1>3, PostType DEF m
<1>5. D2 \in DirT
  BY <1>1, <1>4 DEF DirT
<1>6. OnlyAbout(D.inbox, Post(D.inbox, N, m), b)
  BY <1>2, <1>3, PostOnlyAbout DEF m
<1>7. OnlyBlock(D, D2, b)
  BY <1>1, <1>6 DEF OnlyBlock
<1> QED
  BY <1>1, <1>5, <1>7 DEF m

\* What processNextReq does to the directory's state.
LEMMA NextEffect ==
  ASSUME NEW D \in DirT, NEW b \in Block, D.reqs[b] # <<>>, NEW D2, D2 = processNextReq(D, b)
  PROVE  /\ D2 \in DirT /\ D2.inbox = D.inbox /\ D2.dir = D.dir
         /\ D2.reqs[b] = Tail(D.reqs[b]) /\ \A x \in Block : x # b => D2.reqs[x] = D.reqs[x]
         /\ D2.slots = D.slots /\ D2.replaced = D.replaced
         /\ D2.run <=> Len(D.reqs[b]) > 1
<1>1. D.reqs \in [Block -> Seq(Req)] /\ D.reqs[b] \in Seq(Req)
  BY DEF DirT
<1>2. Tail(D.reqs[b]) \in Seq(Req) /\ (Len(D.reqs[b]) > 1) \in BOOLEAN
  BY <1>1
<1>3. D2 = [D EXCEPT !.reqs = [D.reqs EXCEPT ![b] = Tail(D.reqs[b])], !.run = Len(D.reqs[b]) > 1]
  BY DEF processNextReq, DirT
<1>4. [D.reqs EXCEPT ![b] = Tail(D.reqs[b])] \in [Block -> Seq(Req)]
  BY <1>1, <1>2
<1> QED
  BY <1>1, <1>2, <1>3, <1>4 DEF DirT

\* The entry of b is changed.
EntrySet(D, D2, b, e2) == D2 = [D EXCEPT !.dir = [D.dir EXCEPT ![b] = e2]]

\* What changing one entry does to the directory's state.
LEMMA EntryEffect ==
  ASSUME NEW D \in DirT, NEW b \in Block, NEW e2 \in EntryT, NEW D2, EntrySet(D, D2, b, e2)
  PROVE  /\ D2 \in DirT /\ D2.inbox = D.inbox /\ D2.reqs = D.reqs /\ D2.dir[b] = e2
         /\ D2.slots = D.slots /\ D2.replaced = D.replaced /\ D2.run = D.run
         /\ \A x \in Block : x # b => D2.dir[x] = D.dir[x]
<1>1. D.dir \in [Block -> EntryT]
  BY DEF DirT
<1>2. [D.dir EXCEPT ![b] = e2] \in [Block -> EntryT]
  BY <1>1
<1> QED
  BY <1>1, <1>2 DEF DirT, EntrySet

\* n is the owner of b, in state st.
Owns(D, D2, b, n, st) ==
  /\ D2 \in DirT /\ D2.inbox = D.inbox /\ D2.reqs = D.reqs /\ D2.run = D.run
  /\ D2.slots = D.slots /\ D2.replaced = D.replaced
  /\ \A x \in Block : x # b => D2.dir[x] = D.dir[x]
  /\ D2.dir[b].sharers = D.dir[b].sharers \cup {n} /\ D2.dir[b].owner = n
  /\ D2.dir[b].state = st /\ D2.dir[b].forwarder = D.dir[b].forwarder

\* What Own (addSharer, setOwner and setDState) does to the directory's state.
LEMMA OwnEffect ==
  ASSUME NEW D \in DirT, NEW b \in Block, NEW n \in Node, NEW st \in {"SHARED", "EXCLUSIVE", "MODIFIED"},
         NEW D2, D2 = Own(D, b, n, st)
  PROVE  Owns(D, D2, b, n, st)
<1> DEFINE e2 == [D.dir[b] EXCEPT !.sharers = D.dir[b].sharers \cup {n}, !.owner = n, !.state = st]
<1>1. D.dir \in [Block -> EntryT] /\ D.dir[b] \in EntryT
  BY DEF DirT
<1>2. e2 \in EntryT /\ e2.sharers = D.dir[b].sharers \cup {n} /\ e2.owner = n /\ e2.state = st
      /\ e2.forwarder = D.dir[b].forwarder
  BY <1>1 DEF EntryT
<1>3. EntrySet(D, D2, b, e2)
  BY DEF Own, EntrySet
<1> HIDE DEF e2
<1>4. /\ D2 \in DirT /\ D2.inbox = D.inbox /\ D2.reqs = D.reqs /\ D2.dir[b] = e2
      /\ D2.slots = D.slots /\ D2.replaced = D.replaced /\ D2.run = D.run
      /\ \A x \in Block : x # b => D2.dir[x] = D.dir[x]
  BY <1>2, <1>3, EntryEffect
<1> QED
  BY <1>2, <1>4 DEF Owns

\* n joins the sharers.
Share(D, b, n) == [D EXCEPT !.dir[b].sharers = @ \cup {n}]

\* What addSharer does to the directory's state.
LEMMA ShareEffect ==
  ASSUME NEW D \in DirT, NEW b \in Block, NEW n \in Node, NEW D2, D2 = Share(D, b, n)
  PROVE  /\ D2 \in DirT /\ D2.inbox = D.inbox /\ D2.reqs = D.reqs /\ D2.run = D.run
         /\ D2.slots = D.slots /\ D2.replaced = D.replaced
         /\ \A x \in Block : x # b => D2.dir[x] = D.dir[x]
         /\ D2.dir[b].sharers = D.dir[b].sharers \cup {n} /\ D2.dir[b].owner = D.dir[b].owner
         /\ D2.dir[b].state = D.dir[b].state /\ D2.dir[b].forwarder = D.dir[b].forwarder
<1> DEFINE e2 == [D.dir[b] EXCEPT !.sharers = D.dir[b].sharers \cup {n}]
<1>1. D.dir \in [Block -> EntryT] /\ D.dir[b] \in EntryT
  BY DEF DirT
<1>2. e2 \in EntryT /\ e2.sharers = D.dir[b].sharers \cup {n} /\ e2.owner = D.dir[b].owner
      /\ e2.state = D.dir[b].state /\ e2.forwarder = D.dir[b].forwarder
  BY <1>1 DEF EntryT
<1>3. EntrySet(D, D2, b, e2)
  BY DEF EntrySet, Share
<1> HIDE DEF e2
<1>4. /\ D2 \in DirT /\ D2.inbox = D.inbox /\ D2.reqs = D.reqs /\ D2.dir[b] = e2
      /\ D2.slots = D.slots /\ D2.replaced = D.replaced /\ D2.run = D.run
      /\ \A x \in Block : x # b => D2.dir[x] = D.dir[x]
  BY <1>2, <1>3, EntryEffect
<1> QED
  BY <1>2, <1>4

\* n becomes the forwarder.
ForwardTo(D, b, n) == [D EXCEPT !.dir[b].forwarder = n]

\* What setForwarder does to the directory's state.
LEMMA ForwarderEffect ==
  ASSUME NEW D \in DirT, NEW b \in Block, NEW n \in Node \cup {NoNode}, NEW D2, D2 = ForwardTo(D, b, n)
  PROVE  /\ D2 \in DirT /\ D2.inbox = D.inbox /\ D2.reqs = D.reqs /\ D2.run = D.run
         /\ D2.slots = D.slots /\ D2.replaced = D.replaced
         /\ \A x \in Block : x # b => D2.dir[x] = D.dir[x]
         /\ D2.dir[b].sharers = D.dir[b].sharers /\ D2.dir[b].owner = D.dir[b].owner
         /\ D2.dir[b].state = D.dir[b].state /\ D2.dir[b].forwarder = n
<1> DEFINE e2 == [D.dir[b] EXCEPT !.forwarder = n]
<1>1. D.dir \in [Block -> EntryT] /\ D.dir[b] \in EntryT
  BY DEF DirT
<1>2. e2 \in EntryT /\ e2.sharers = D.dir[b].sharers /\ e2.owner = D.dir[b].owner
      /\ e2.state = D.dir[b].state /\ e2.forwarder = n
  BY <1>1 DEF EntryT
<1>3. EntrySet(D, D2, b, e2)
  BY DEF EntrySet, ForwardTo
<1> HIDE DEF e2
<1>4. /\ D2 \in DirT /\ D2.inbox = D.inbox /\ D2.reqs = D.reqs /\ D2.dir[b] = e2
      /\ D2.slots = D.slots /\ D2.replaced = D.replaced /\ D2.run = D.run
      /\ \A x \in Block : x # b => D2.dir[x] = D.dir[x]
  BY <1>2, <1>3, EntryEffect
<1> QED
  BY <1>2, <1>4

\* The request in progress is changed.
HeadChanged(D, D2, b, w, x, d) ==
  /\ D2 \in DirT /\ D2.inbox = D.inbox /\ D2.dir = D.dir /\ D2.run = D.run
  /\ D2.slots = D.slots /\ D2.replaced = D.replaced
  /\ \A y \in Block : y # b => D2.reqs[y] = D.reqs[y]
  /\ SameQueue(D.reqs[b], D2.reqs[b]) /\ D2.reqs[b] # <<>>
  /\ HeadOf(D2.reqs[b]) = [type |-> Head(D.reqs[b]).type, node |-> Head(D.reqs[b]).node,
                           wait |-> w, forwardingFrom |-> x]
  /\ Head(D2.reqs[b]).data = d

\* The request in progress becomes r2.
HeadSet(D, D2, b, r2) ==
  D2 = [D EXCEPT !.reqs = [D.reqs EXCEPT ![b] = [D.reqs[b] EXCEPT ![1] = r2]]]

\* What changing the request in progress does to the directory's state.
LEMMA HeadEffect ==
  ASSUME NEW D \in DirT, NEW b \in Block, D.reqs[b] # <<>>, NEW r2 \in Req,
         r2.type = Head(D.reqs[b]).type, r2.node = Head(D.reqs[b]).node,
         NEW D2, HeadSet(D, D2, b, r2)
  PROVE  HeadChanged(D, D2, b, r2.wait, r2.forwardingFrom, r2.data)
<1> DEFINE q == D.reqs[b]
           q2 == [q EXCEPT ![1] = r2]
<1>1. D.reqs \in [Block -> Seq(Req)] /\ q \in Seq(Req) /\ q # <<>>
  BY DEF DirT
<1> HIDE DEF q
<1>2. /\ q2 \in Seq(Req) /\ Len(q2) = Len(q) /\ Len(q) \in Nat \ {0} /\ q2[1] = r2
      /\ \A k \in 1..Len(q) : k > 1 => q2[k] = q[k]
  BY <1>1
<1>3. Head(q) = q[1] /\ q2 # <<>> /\ Head(q2) = r2
  BY <1>1, <1>2
<1> HIDE DEF q2
<1>4. SameQueue(q, q2)
  <2>1. ASSUME NEW k \in 1..Len(q)
        PROVE  /\ q2[k].type = q[k].type /\ q2[k].node = q[k].node
               /\ k > 1 => q2[k].wait = q[k].wait /\ q2[k].forwardingFrom = q[k].forwardingFrom
                           /\ q2[k].data = q[k].data
    <3>1. CASE k = 1
      BY <1>2, <1>3, <3>1 DEF q
    <3>2. CASE k > 1
      BY <1>2, <3>2
    <3> QED
      BY <1>2, <3>1, <3>2
  <2> QED
    BY <1>2, <2>1 DEF SameQueue
<1>5. HeadOf(q2) = [type |-> r2.type, node |-> r2.node, wait |-> r2.wait,
                    forwardingFrom |-> r2.forwardingFrom]
  BY <1>3 DEF HeadOf
<1>6. [D.reqs EXCEPT ![b] = q2] \in [Block -> Seq(Req)]
  BY <1>1, <1>2
<1>7. D2 = [D EXCEPT !.reqs = [D.reqs EXCEPT ![b] = q2]]
  BY DEF q2, q, HeadSet
<1>8. /\ D2 \in DirT /\ D2.inbox = D.inbox /\ D2.dir = D.dir /\ D2.run = D.run
      /\ D2.slots = D.slots /\ D2.replaced = D.replaced /\ D2.reqs = [D.reqs EXCEPT ![b] = q2]
  BY <1>6, <1>7 DEF DirT
<1>9. D2.reqs[b] = q2 /\ \A y \in Block : y # b => D2.reqs[y] = D.reqs[y]
  BY <1>1, <1>8
<1> QED
  BY <1>3, <1>4, <1>5, <1>8, <1>9 DEF HeadChanged, q

\* Two changes that touch only b.
LEMMA OnlyBlockTwice ==
  ASSUME NEW D, NEW D1, NEW D2, NEW b, OnlyBlock(D, D1, b), OnlyBlock(D1, D2, b)
  PROVE  OnlyBlock(D, D2, b)
<1>1. OnlyAbout(D.inbox, D2.inbox, b)
  BY OnlyAboutTwice DEF OnlyBlock
<1> QED
  BY <1>1 DEF OnlyBlock

\* A change without a message touches only the blocks it changes.
LEMMA SameBoxOnlyBlock ==
  ASSUME NEW D, NEW D2, NEW b, D2.inbox = D.inbox,
         \A x \in Block : x # b => D2.dir[x] = D.dir[x] /\ D2.reqs[x] = D.reqs[x]
  PROVE  OnlyBlock(D, D2, b)
  BY DEF OnlyBlock, OnlyAbout

-----------------------------------------------------------------------------
(* The requester joins the sharers.                                        *)

\* The entry e becomes e1 when the requester of r joins, to be sent reply.
JoinsAs(e, e1, r, reply) ==
  /\ e1.sharers = e.sharers \cup {r.node}
  /\ \/ /\ r.type # "SH_REQ" /\ e.state = "UNCACHED" /\ e1.state = "MODIFIED"
        /\ e1.owner = r.node /\ reply = "EX_REP"
     \/ /\ r.type = "SH_REQ" /\ e.state = "UNCACHED" /\ e1.state = "EXCLUSIVE"
        /\ e1.owner = r.node /\ reply = "EX_REP"
     \/ /\ r.type = "SH_REQ" /\ e.state = "UNCACHED" /\ e1.state = "SHARED"
        /\ protocol = "msi" /\ reply = "SH_REP"
     \/ r.type = "SH_REQ" /\ e.state = "SHARED" /\ e1.state = "SHARED" /\ reply = "SH_REP"

\* A requester that joins an uncached or shared block leaves an entry its reply agrees with.
LEMMA JoinFacts ==
  ASSUME NEW A, Fresh(A), A.r.type \in Requests, NEW A2, NEW reply,
         JoinsAs(A.e, A2.e, A.r, reply)
  PROVE  /\ Joined(A, A2) /\ MayAnswer(A, A2, reply)
         /\ \/ A.r.type # "SH_REQ" /\ A.e.state = "UNCACHED" /\ A2.e.state = "MODIFIED"
            \/ A.r.type = "SH_REQ" /\ A.e.state = "UNCACHED" /\ A2.e.state \in {"SHARED", "EXCLUSIVE"}
            \/ A.r.type = "SH_REQ" /\ A.e.state = "SHARED" /\ A2.e.state = "SHARED"
<1> DEFINE n == A.r.node
<1>1. /\ A.e \in EntryT /\ EntryInv(A) /\ HeadInv(A) /\ n \in Node /\ Present(A, n) /\ CoreInv(A)
  BY FreshFacts DEF HeadInv, Fresh, Idles, Requests
<1>2. A.r.type = "UPGRADE_REQ" => ~Dropped(A, n)
  BY FreshRequester
<1>3. A.r.type # "UPGRADE_REQ" => A.ln[n] = "INVALID"
  BY <1>1, <1>2, Requester
<1>4. A.e.state = "UNCACHED" => A.e.sharers = {}
  BY <1>1 DEF EntryInv
<1>5. A.e.state = "UNCACHED" => A.ln[n] = "INVALID"
  BY <1>1, <1>4 DEF Present, Reachable
<1>6. Joined(A, A2)
  BY <1>4 DEF JoinsAs, Joined, EntryInv, Owned
<1>7. MayAnswer(A, A2, reply)
  BY <1>4, <1>5 DEF JoinsAs, MayAnswer, Owned, Replies, Grants
<1> QED
  BY <1>6, <1>7 DEF JoinsAs

\* The view of a block in the directory's state D has its type.
LEMMA DirViewType ==
  ASSUME CacheT, NEW D \in DirT, NEW b \in Block
  PROVE  /\ DirView(D, b) \in AbsT /\ DirView(D, b).e = D.dir[b] /\ DirView(D, b).r = HeadOf(D.reqs[b])
         /\ DirView(D, b).e \in EntryT
<1>1. D.dir[b] \in EntryT /\ D.reqs[b] \in Seq(Req)
  BY DEF DirT
<1>2. Caches(b) \in CachesT
  BY CachesType
<1> QED
  BY <1>1, <1>2, ViewType, ViewFields DEF DirView

-----------------------------------------------------------------------------
(* The request in progress is answered with data or with the right to      *)
(* write, and dequeued.                                                    *)

\* Nothing but the entry of b has changed.
Unchanged(D, D1, b) ==
  /\ D1 \in DirT /\ D1.inbox = D.inbox /\ D1.reqs = D.reqs /\ D1.run = D.run
  /\ D1.slots = D.slots /\ D1.replaced = D.replaced
  /\ \A x \in Block : x # b => D1.dir[x] = D.dir[x]

\* The reply has been sent, and the request has left the queue.
Replied(D, D1, D2, b, A, A2, reply) ==
  /\ D2 \in DirT /\ OnlyBlock(D, D2, b) /\ D2.slots = D.slots /\ D2.replaced = D.replaced
  /\ D2.dir = D1.dir /\ D2.reqs[b] = Tail(D.reqs[b]) /\ (D2.run <=> D2.reqs[b] # <<>>)
  /\ HeadOf(D2.reqs[b]).type # "NULLIFY_REQ" /\ (D2.run => Head(D2.reqs[b]).data = "none")
  /\ QueueInv(D2.reqs[b]) /\ Ordered(D2.inbox, b, Caches(b))
  /\ A2 \in AbsT /\ A2.e = D1.dir[b] /\ A2.rd = A.rd
  /\ Untouched(A, A2) /\ Dequeued(A, A2) /\ Answered(A, A2, reply)

\* A reply, then processNextReq: what becomes of the directory's state.
LEMMA AnswerEffect ==
  ASSUME CacheT, NEW D \in DirT, NEW b \in Block, Kept(D, b), D.reqs[b] # <<>>,
         NEW A, A = DirView(D, b), NEW n \in Node, n = A.r.node, A.s[n] = {},
         NEW reply \in Replies, reply = "UPGRADE_REP" => A.l[n] = {},
         NEW data \in Data \cup {"none"}, reply # "UPGRADE_REP" => data \in Data,
         NEW D1, Unchanged(D, D1, b),
         NEW D2, D2 = processNextReq(sendTo(D1, {n}, reply, b, data), b),
         NEW A2, A2 = DirView(D2, b)
  PROVE  Replied(D, D1, D2, b, A, A2, reply)
<1> DEFINE m == ShmemMsg(reply, b, Home, data)
           S == sendTo(D1, {n}, reply, b, data)
<1>0. Home \in Node /\ reply \in MessageTypes /\ (reply \in Carriers => data \in Data)
  BY DirectoryAssumption, ReplyKinds DEF Carriers
<1>1. m \in Message /\ m \in ToCache
  BY <1>0, MessageType
<1>2. D1 \in DirT /\ {n} \in SUBSET Node /\ D.inbox \in Boxes
  BY DEF Unchanged, DirT
<1>3. /\ S \in DirT /\ S.inbox = Post(D1.inbox, {n}, m)
      /\ S.dir = D1.dir /\ S.reqs = D1.reqs /\ S.slots = D1.slots /\ S.replaced = D1.replaced
      /\ S.run = D1.run /\ OnlyBlock(D1, S, b)
  BY <1>1, <1>2, SendEffect
<1>4. /\ S.reqs = D.reqs /\ S.inbox = Post(D.inbox, {n}, m) /\ S.slots = D.slots /\ S.replaced = D.replaced
  BY <1>3 DEF Unchanged
<1> HIDE DEF S
<1>5. D2 = processNextReq(S, b) /\ S \in DirT /\ S.reqs[b] # <<>>
  BY <1>3, <1>4 DEF S
<1>6. /\ D2 \in DirT /\ D2.inbox = S.inbox /\ D2.dir = S.dir
      /\ D2.reqs[b] = Tail(S.reqs[b]) /\ \A x \in Block : x # b => D2.reqs[x] = S.reqs[x]
      /\ D2.slots = S.slots /\ D2.replaced = S.replaced
      /\ D2.run <=> Len(S.reqs[b]) > 1
  BY <1>5, NextEffect
<1> DEFINE q == D.reqs[b]
<1>q. QueueInv(q) /\ Ordered(D.inbox, b, Caches(b)) /\ q # <<>>
  BY DEF Kept
<1>7. /\ D2.reqs[b] = Tail(q) /\ D2.inbox = Post(D.inbox, {n}, m) /\ D2.dir[b] = D1.dir[b]
      /\ (D2.run <=> Len(q) > 1) /\ D2.slots = D.slots /\ D2.replaced = D.replaced /\ D2.dir = D1.dir
  BY <1>3, <1>4, <1>6
<1>8. A = View(D.dir[b], q, D.inbox, b, Caches(b))
      /\ A2 = View(D1.dir[b], Tail(q), D2.inbox, b, Caches(b))
  BY <1>7 DEF DirView
<1>9. /\ (Len(q) > 1) <=> Tail(q) # <<>>
      /\ HeadOf(Tail(q)).type # "NULLIFY_REQ"
      /\ Tail(q) # <<>> => Head(Tail(q)).data = "none"
  BY <1>q, TailQueue
<1>b. D2.inbox = Post(D.inbox, {n}, ShmemMsg(reply, b, Home, data)) /\ D.inbox \in Boxes
  BY <1>2, <1>7
<1> HIDE DEF q, m
<1>10. /\ Untouched(A, A2) /\ Dequeued(A, A2) /\ Answered(A, A2, reply) /\ A2.rd = A.rd
       /\ A2.e = D1.dir[b] /\ Ordered(D2.inbox, b, Caches(b)) /\ QueueInv(Tail(q))
  BY <1>b, <1>8, <1>q, AnswerOutcome, SMTT(60)
<1>11. A2 \in AbsT
  BY <1>6, DirViewType
<1>12. OnlyBlock(D, D2, b)
  <2>1. \A x \in Block : x # b => D1.dir[x] = D.dir[x] /\ D1.reqs[x] = D.reqs[x]
    BY DEF Unchanged
  <2>2. OnlyBlock(D, D1, b)
    BY <2>1, SameBoxOnlyBlock DEF Unchanged
  <2>4. \A x \in Block : x # b => D2.dir[x] = S.dir[x] /\ D2.reqs[x] = S.reqs[x]
    BY <1>6
  <2>5. OnlyBlock(S, D2, b)
    BY <1>6, <2>4, SameBoxOnlyBlock
  <2> QED
    BY <1>3, <2>2, <2>5, OnlyBlockTwice
<1> QED
  BY <1>6, <1>7, <1>9, <1>10, <1>11, <1>12 DEF Replied, q

-----------------------------------------------------------------------------
(* A request is processed.                                                 *)

\* The request at the head is about to be processed.
Ready(D, b) ==
  /\ D \in DirT /\ Kept(D, b) /\ Fresh(DirView(D, b)) /\ ~D.run
  /\ D.reqs[b] # <<>> /\ DirView(D, b).r.type \in Requests

\* It is answered, or waits; D2.run says that the next one has to be processed.
Handled(D, D2, b) ==
  /\ D2 \in DirT /\ OnlyBlock(D, D2, b) /\ D2.slots = D.slots /\ D2.replaced = D.replaced
  /\ Kept(D2, b) /\ HeadOf(D2.reqs[b]).type # "NULLIFY_REQ"
  /\ ~D2.run => Stable(DirView(D2, b))
  /\ D2.run => /\ Fresh(DirView(D2, b)) /\ D2.reqs[b] # <<>> /\ D2.reqs[b] = Tail(D.reqs[b])
               /\ Head(D2.reqs[b]).data = "none"

\* A quiet block without a request is stable.
LEMMA FreshStable ==
  ASSUME NEW A, Fresh(A), Idles(A)
  PROVE  Stable(A)
  BY DEF Fresh, Stable

\* What a request that is about to be processed finds.
LEMMA ReadyFacts ==
  ASSUME CacheT, NEW D, NEW b \in Block, Ready(D, b), NEW A, A = DirView(D, b)
  PROVE  /\ A.r.node \in Node /\ A.s[A.r.node] = {} /\ A.l[A.r.node] = {} /\ A.e = D.dir[b]
         /\ A.r.type \in Requests /\ Fresh(A) /\ A.e \in EntryT /\ A.r = HeadOf(D.reqs[b])
         /\ CoreInv(A) /\ Quiet(A) /\ EntryInv(A)
         /\ A.r.type = "UPGRADE_REQ" => ~Dropped(A, A.r.node)
         /\ QueueInv(D.reqs[b]) /\ Head(D.reqs[b]).node = A.r.node /\ Head(D.reqs[b]).type = A.r.type
         /\ Head(D.reqs[b]).forwardingFrom = A.r.forwardingFrom /\ Head(D.reqs[b]) \in Req
<1>1. Fresh(A) /\ A.r.type \in Requests /\ D \in DirT /\ QueueInv(D.reqs[b]) /\ D.reqs[b] # <<>>
  BY DEF Ready, Kept
<1>2. A.r.type = "UPGRADE_REQ" => ~Dropped(A, A.r.node)
  BY <1>1, FreshRequester
<1>3. CoreInv(A) /\ Quiet(A) /\ EntryInv(A)
  BY <1>1 DEF Fresh, CoreInv
<1>4. A.r.node \in Node /\ A.s[A.r.node] = {}
  BY <1>1, <1>2, <1>3, Requester
<1>5. A.l[A.r.node] = {}
  BY <1>3, <1>4 DEF Quiet, QuietN
<1>6. A.e = D.dir[b] /\ A.r = HeadOf(D.reqs[b]) /\ A.e \in EntryT
  BY <1>1, DirViewType
<1>7. /\ HeadOf(D.reqs[b]).type = Head(D.reqs[b]).type /\ HeadOf(D.reqs[b]).node = Head(D.reqs[b]).node
      /\ HeadOf(D.reqs[b]).forwardingFrom = Head(D.reqs[b]).forwardingFrom /\ Head(D.reqs[b]) \in Req
  BY <1>1, HeadFacts
<1> QED
  BY <1>1, <1>2, <1>3, <1>4, <1>5, <1>6, <1>7

\* After a reply.
LEMMA RepliedHandled ==
  ASSUME NEW D, NEW D1, NEW D2, NEW b \in Block, NEW A, NEW reply,
         Replied(D, D1, D2, b, A, DirView(D2, b), reply), Fresh(DirView(D2, b)),
         ForwarderKnown(D1.dir[b], protocol)
  PROVE  Handled(D, D2, b)
<1>1. Kept(D2, b)
  BY DEF Kept, Replied
<1>2. ~D2.run => Stable(DirView(D2, b))
  <2>1. SUFFICES ASSUME ~D2.run PROVE Stable(DirView(D2, b))
    OBVIOUS
  <2>2. D2.reqs[b] = <<>>
    BY <2>1 DEF Replied
  <2>3. Idles(DirView(D2, b))
    BY <2>2 DEF Idles, DirView, View, HeadOf, NoReq
  <2> QED
    BY <2>3, FreshStable
<1> QED
  BY <1>1, <1>2 DEF Handled, Replied

\* The data is at hand: retrieveDataAndSendToL2Cache replies with it.
LEMMA AnsweredWithData ==
  ASSUME CacheT, NEW D, NEW b \in Block, Ready(D, b), NEW A, A = DirView(D, b),
         NEW D1, Unchanged(D, D1, b), NEW reply, JoinsAs(D.dir[b], D1.dir[b], A.r, reply),
         NEW data \in Data, NEW D2,
         D2 = processNextReq(sendTo(ForwardTo(D1, b, A.r.node), {A.r.node}, reply, b, data), b)
  PROVE  Handled(D, D2, b)
<1> DEFINE n == A.r.node
           E == ForwardTo(D1, b, n)
           A2 == DirView(D2, b)
<1>1. /\ n \in Node /\ A.s[n] = {} /\ A.l[n] = {} /\ A.e = D.dir[b]
      /\ A.r.type \in Requests /\ Fresh(A) /\ CoreInv(A) /\ Quiet(A)
      /\ A.r.type = "UPGRADE_REQ" => ~Dropped(A, n)
  BY ReadyFacts
<1>2. D1 \in DirT /\ n \in Node \cup {NoNode}
  BY <1>1 DEF Unchanged
<1>3. /\ E \in DirT /\ E.inbox = D1.inbox /\ E.reqs = D1.reqs /\ E.run = D1.run
      /\ E.slots = D1.slots /\ E.replaced = D1.replaced
      /\ \A x \in Block : x # b => E.dir[x] = D1.dir[x]
      /\ E.dir[b].sharers = D1.dir[b].sharers /\ E.dir[b].owner = D1.dir[b].owner
      /\ E.dir[b].state = D1.dir[b].state /\ E.dir[b].forwarder = n
  BY <1>2, ForwarderEffect
<1>4. D2 = processNextReq(sendTo(E, {n}, reply, b, data), b)
  OBVIOUS
<1> HIDE DEF E
<1>5. Unchanged(D, E, b)
  BY <1>3 DEF Unchanged
<1>6. JoinsAs(A.e, E.dir[b], A.r, reply)
  BY <1>1, <1>3 DEF JoinsAs
<1>7. reply \in Replies /\ reply # "UPGRADE_REP" /\ data \in Data \cup {"none"}
  BY DEF JoinsAs, Replies, Grants
<1>8. D \in DirT /\ Kept(D, b) /\ D.reqs[b] # <<>>
  BY DEF Ready
<1> HIDE DEF n, A2
<1>9. Replied(D, E, D2, b, A, A2, reply)
  BY <1>1, <1>4, <1>5, <1>7, <1>8, AnswerEffect DEF n, A2
<1>10. /\ A2 \in AbsT /\ A2.e = E.dir[b] /\ A2.rd = A.rd
       /\ Untouched(A, A2) /\ Dequeued(A, A2) /\ Answered(A, A2, reply)
  BY <1>9 DEF Replied
<1>11. Joined(A, A2) /\ MayAnswer(A, A2, reply)
  BY <1>1, <1>6, <1>10, JoinFacts
<1>12. Fresh(A2)
  BY <1>1, <1>10, <1>11, AnswerLeavesFresh DEF n
<1>13. ForwarderKnown(E.dir[b], protocol)
  BY <1>3, <1>6 DEF ForwarderKnown, JoinsAs, n
<1> QED
  BY <1>9, <1>12, <1>13, RepliedHandled DEF A2

\* The request in progress is changed to r2, and waits.
Marked(D1, b, r2) == [D1 EXCEPT !.reqs = [D1.reqs EXCEPT ![b] = [D1.reqs[b] EXCEPT ![1] = r2]]]

\* The same, as a relation, with the message sent.
Marks(D, D1, D2, b, r2, N, t) ==
  /\ D2 \in DirT /\ OnlyBlock(D, D2, b) /\ D2.slots = D.slots /\ D2.replaced = D.replaced
  /\ ~D2.run /\ D2.dir = D1.dir /\ D2.inbox = Post(D.inbox, N, ShmemMsg(t, b, Home, "none"))
  /\ SameQueue(D.reqs[b], D2.reqs[b]) /\ D2.reqs[b] # <<>>
  /\ HeadOf(D2.reqs[b]) = [type |-> r2.type, node |-> r2.node, wait |-> r2.wait,
                           forwardingFrom |-> r2.forwardingFrom]

\* The request in progress is marked, and a message is sent for it.
LEMMA MarkEffect ==
  ASSUME NEW D, NEW b \in Block, Ready(D, b), NEW D1, Unchanged(D, D1, b),
         NEW r2 \in Req, r2.type = Head(D.reqs[b]).type, r2.node = Head(D.reqs[b]).node,
         NEW S, S = Marked(D1, b, r2), NEW N \in SUBSET Node, NEW t \in MessageTypes,
         NEW D2, D2 = sendTo(S, N, t, b, "none"), t \notin Carriers, t \in Snoops \/ N \subseteq {Home}
  PROVE  Marks(D, D1, D2, b, r2, N, t)
<1>1. D1 \in DirT /\ D1.reqs[b] # <<>> /\ Head(D1.reqs[b]) = Head(D.reqs[b])
  BY DEF Unchanged, Ready
<1>2. HeadSet(D1, S, b, r2)
  BY DEF HeadSet, Marked
<1>3. HeadChanged(D1, S, b, r2.wait, r2.forwardingFrom, r2.data)
  BY <1>1, <1>2, HeadEffect
<1>4. Home \in Node /\ "none" \in Data \cup {"none"}
  BY DirectoryAssumption
<1>5. /\ ShmemMsg(t, b, Home, "none") \in Message
      /\ t \in Snoops => ShmemMsg(t, b, Home, "none") \in ToCache
  BY <1>4, MessageType
<1>6. S \in DirT
  BY <1>3 DEF HeadChanged
<1>7. /\ D2 \in DirT /\ D2.inbox = Post(S.inbox, N, ShmemMsg(t, b, Home, "none"))
      /\ D2.dir = S.dir /\ D2.reqs = S.reqs /\ D2.slots = S.slots /\ D2.replaced = S.replaced
      /\ D2.run = S.run /\ OnlyBlock(S, D2, b)
  BY <1>5, <1>6, SendEffect
<1>8. /\ S.inbox = D.inbox /\ S.dir = D1.dir /\ S.slots = D.slots /\ S.replaced = D.replaced /\ ~S.run
      /\ SameQueue(D.reqs[b], S.reqs[b]) /\ S.reqs[b] # <<>>
      /\ \A x \in Block : x # b => S.dir[x] = D.dir[x] /\ S.reqs[x] = D.reqs[x]
  BY <1>3 DEF HeadChanged, Unchanged, Ready
<1>9. OnlyBlock(D, S, b)
  BY <1>8, SameBoxOnlyBlock
<1>10. OnlyBlock(D, D2, b)
  BY <1>7, <1>9, OnlyBlockTwice
<1>11. HeadOf(S.reqs[b]) = [type |-> r2.type, node |-> r2.node, wait |-> r2.wait,
                            forwardingFrom |-> r2.forwardingFrom]
  BY <1>1, <1>3 DEF HeadChanged
<1> QED
  BY <1>7, <1>8, <1>10, <1>11 DEF Marks

\* The request waits for the DRAM.
DramWait(D, b) ==
  sendTo(Marked(D, b, [Head(D.reqs[b]) EXCEPT !.wait = TRUE]), {Home}, "DRAM_READ_REQ", b, "none")

\* The request stays at the head of the queue.
Pends(D, D2, b) == Handled(D, D2, b) /\ ~D2.run /\ D2.reqs[b] # <<>>

\* No data is at hand: the request waits for the DRAM.
LEMMA WaitsForDram ==
  ASSUME CacheT, NEW D, NEW b \in Block, Ready(D, b), NEW A, A = DirView(D, b),
         NEW D1, Unchanged(D, D1, b), NEW reply, JoinsAs(D.dir[b], D1.dir[b], A.r, reply),
         D1.dir[b].forwarder = D.dir[b].forwarder,
         NEW D2, D2 = DramWait(D1, b)
  PROVE  Pends(D, D2, b)
<1> DEFINE n == A.r.node
           r2 == [Head(D.reqs[b]) EXCEPT !.wait = TRUE]
           S == Marked(D1, b, r2)
           A2 == DirView(D2, b)
           q == D.reqs[b]
           q2 == D2.reqs[b]
           t == "DRAM_READ_REQ"
<1>1. /\ n \in Node /\ A.e = D.dir[b] /\ A.r = HeadOf(q)
      /\ A.r.type \in Requests /\ Fresh(A) /\ CoreInv(A) /\ Quiet(A)
      /\ QueueInv(q) /\ Head(q).node = n /\ Head(q).type = A.r.type
      /\ Head(q).forwardingFrom = A.r.forwardingFrom /\ Head(q) \in Req
  BY ReadyFacts
<1>2. /\ r2 \in Req /\ r2.type = Head(q).type /\ r2.node = Head(q).node /\ r2.wait
      /\ r2.forwardingFrom = Head(q).forwardingFrom
  BY <1>1 DEF Req
<1>3. t \in MessageTypes /\ t \notin Carriers /\ {Home} \in SUBSET Node /\ {Home} \subseteq {Home}
  BY DirectoryAssumption, ReadKinds DEF Reads, Carriers
<1>4. D2 = sendTo(S, {Home}, t, b, "none")
  BY DEF DramWait, Unchanged
<1> HIDE DEF r2, S, t, q, q2, A2
<1>5. /\ D2 \in DirT /\ OnlyBlock(D, D2, b) /\ D2.slots = D.slots /\ D2.replaced = D.replaced
      /\ ~D2.run /\ D2.dir = D1.dir /\ D2.inbox = Post(D.inbox, {Home}, ShmemMsg(t, b, Home, "none"))
      /\ SameQueue(q, q2) /\ q2 # <<>>
      /\ HeadOf(q2) = [type |-> r2.type, node |-> r2.node, wait |-> r2.wait,
                       forwardingFrom |-> r2.forwardingFrom]
  <2>1. Marks(D, D1, D2, b, r2, {Home}, t)
    BY <1>2, <1>3, <1>4, MarkEffect DEF S, q
  <2> QED
    BY <2>1 DEF Marks, q, q2
<1>6. D2.inbox = Post(D.inbox, {Home}, ShmemMsg("DRAM_READ_REQ", b, Home, "none"))
  BY <1>5 DEF t
<1>7. /\ D.inbox \in Boxes /\ Ordered(D.inbox, b, Caches(b)) /\ q # <<>> /\ ~A.rd
      /\ A = View(D.dir[b], q, D.inbox, b, Caches(b)) /\ A2 = View(D1.dir[b], q2, D2.inbox, b, Caches(b))
  BY <1>1, <1>5 DEF Ready, DirT, Kept, Quiet, DirView, q, q2, A2
<1>8. /\ SameButSnoops(A, A2) /\ A2.l = A.l /\ A2.rd /\ A2.e = D1.dir[b] /\ A2.r = HeadOf(q2)
      /\ Ordered(D2.inbox, b, Caches(b)) /\ D2.inbox \in Boxes /\ QueueInv(q2)
  <2>1. QueueInv(q) /\ SameQueue(q, q2)
    BY <1>1, <1>5
  <2>2. Postponed(A, A2, D1.dir[b], q2, D2.inbox, b, Caches(b)) /\ ByDram(A, A2)
    BY <2>1, <1>6, <1>7, DramOutcome
  <2> QED
    BY <2>2 DEF Postponed, ByDram
<1>9. A2.r.type = A.r.type /\ A2.r.node = n /\ A2.r.wait /\ A2.r.forwardingFrom = A.r.forwardingFrom
  BY <1>1, <1>2, <1>5, <1>8 DEF q
<1>10. JoinsAs(A.e, A2.e, A.r, reply)
  BY <1>1, <1>8
<1>11. /\ Joined(A, A2)
       /\ \/ A.r.type # "SH_REQ" /\ A.e.state = "UNCACHED" /\ A2.e.state = "MODIFIED"
          \/ A.r.type = "SH_REQ" /\ A.e.state = "UNCACHED" /\ A2.e.state \in {"SHARED", "EXCLUSIVE"}
          \/ A.r.type = "SH_REQ" /\ A.e.state = "SHARED" /\ A2.e.state = "SHARED"
  BY <1>1, <1>10, JoinFacts
<1>12. A.r.forwardingFrom # NoNode => A.r.type = "SH_REQ"
  BY <1>1 DEF CoreInv, HeadInv
<1>13. Waits(A, A2)
  BY <1>8, <1>9, <1>11, <1>12 DEF Waits, SameButSnoops
<1>14. A2 \in AbsT
  BY <1>5, DirViewType DEF A2
<1>15. Stable(A2)
  BY <1>1, <1>8, <1>9, <1>13, <1>14, AskDram
<1>16. ForwarderKnown(D1.dir[b], protocol)
  BY DEF ForwarderKnown, JoinsAs, Ready, Kept
<1>17. Kept(D2, b)
  BY <1>5, <1>8, <1>16 DEF Kept, q2
<1>18. HeadOf(q2).type # "NULLIFY_REQ"
  BY <1>1, <1>8, <1>9 DEF Requests
<1> QED
  BY <1>5, <1>15, <1>17, <1>18 DEF Pends, Handled, A2, q2

\* The request waits for the forwarder x.
ForwardWait(D, b, x) ==
  sendTo(Marked(D, b, [Head(D.reqs[b]) EXCEPT !.forwardingFrom = x]), {x}, "WB_REQ", b, "none")

\* No data is at hand, but a forwarder has it (MESIF): the request waits for WB_REP.
LEMMA WaitsForForwarder ==
  ASSUME CacheT, NEW D, NEW b \in Block, Ready(D, b), NEW A, A = DirView(D, b),
         NEW D1, Unchanged(D, D1, b), NEW reply, JoinsAs(D.dir[b], D1.dir[b], A.r, reply),
         D1.dir[b].forwarder = D.dir[b].forwarder, protocol = "mesif", A.r.forwardingFrom = NoNode,
         D1.dir[b].state = "SHARED", NEW x, x = D1.dir[b].forwarder, x # NoNode,
         NEW D2, D2 = ForwardWait(D1, b, x)
  PROVE  Pends(D, D2, b)
<1> DEFINE n == A.r.node
           r2 == [Head(D.reqs[b]) EXCEPT !.forwardingFrom = x]
           S == Marked(D1, b, r2)
           A2 == DirView(D2, b)
           q == D.reqs[b]
           q2 == D2.reqs[b]
           t == "WB_REQ"
<1>1. /\ n \in Node /\ A.e = D.dir[b] /\ A.r = HeadOf(q) /\ A.e \in EntryT
      /\ A.r.type \in Requests /\ Fresh(A) /\ CoreInv(A) /\ Quiet(A)
      /\ QueueInv(q) /\ Head(q).node = n /\ Head(q).type = A.r.type
      /\ Head(q).forwardingFrom = A.r.forwardingFrom /\ Head(q) \in Req
  BY ReadyFacts
<1>2. D.dir[b].state = "SHARED" /\ A.r.type = "SH_REQ"
  BY DEF JoinsAs
<1>3. x \in D.dir[b].sharers /\ x \in Node
  BY <1>1, <1>2 DEF Ready, Kept, ForwarderKnown, EntryT
<1>a. /\ r2 \in Req /\ r2.type = Head(q).type /\ r2.node = Head(q).node /\ r2.wait = Head(q).wait
      /\ r2.forwardingFrom = x
  BY <1>1, <1>3 DEF Req
<1>b. t \in MessageTypes /\ t \notin Carriers /\ {x} \in SUBSET Node /\ t \in Snoops
  BY <1>3, SnoopKinds DEF Snoops
<1>4. D2 = sendTo(S, {x}, t, b, "none")
  BY DEF ForwardWait, Unchanged
<1> HIDE DEF r2, S, t, q, q2, A2
<1>5. /\ D2 \in DirT /\ OnlyBlock(D, D2, b) /\ D2.slots = D.slots /\ D2.replaced = D.replaced
      /\ ~D2.run /\ D2.dir = D1.dir /\ D2.inbox = Post(D.inbox, {x}, ShmemMsg(t, b, Home, "none"))
      /\ SameQueue(q, q2) /\ q2 # <<>>
      /\ HeadOf(q2) = [type |-> r2.type, node |-> r2.node, wait |-> r2.wait,
                       forwardingFrom |-> r2.forwardingFrom]
  <2>1. Marks(D, D1, D2, b, r2, {x}, t)
    BY <1>a, <1>b, <1>4, MarkEffect DEF S, q
  <2> QED
    BY <2>1 DEF Marks, q, q2
<1>6. D2.inbox = Post(D.inbox, {x}, ShmemMsg("WB_REQ", b, Home, "none"))
  BY <1>5 DEF t
<1>7. /\ D.inbox \in Boxes /\ Ordered(D.inbox, b, Caches(b)) /\ q # <<>>
      /\ A = View(D.dir[b], q, D.inbox, b, Caches(b)) /\ A2 = View(D1.dir[b], q2, D2.inbox, b, Caches(b))
  BY <1>1, <1>5 DEF Ready, DirT, Kept, DirView, q, q2, A2
<1>8. /\ SameButSnoops(A, A2) /\ A2.rd = A.rd /\ Asked(A, A2, {x}, "WB_REQ")
      /\ A2.e = D1.dir[b] /\ A2.r = HeadOf(q2)
      /\ Ordered(D2.inbox, b, Caches(b)) /\ D2.inbox \in Boxes /\ QueueInv(q2)
  <2>1. QueueInv(q) /\ SameQueue(q, q2) /\ Fresh(A)
    BY <1>1, <1>5
  <2>2. Postponed(A, A2, D1.dir[b], q2, D2.inbox, b, Caches(b)) /\ ByForwarder(A, A2, x)
    BY <2>1, <1>3, <1>6, <1>7, ForwardOutcome
  <2> QED
    BY <2>2 DEF Postponed, ByForwarder
<1>9. A2.r.type = A.r.type /\ A2.r.node = n /\ A2.r.wait = Head(q).wait /\ A2.r.forwardingFrom = x
  BY <1>1, <1>a, <1>5, <1>8 DEF q
<1>w. ~A2.r.wait
  <2>1. A.r.wait = Head(q).wait
    BY <1>1, <1>7, HeadFacts
  <2>2. ~A.r.wait
    BY <1>1 DEF Fresh
  <2> QED
    BY <1>9, <2>1, <2>2
<1>10. JoinsAs(A.e, A2.e, A.r, reply)
  BY <1>1, <1>8
<1>11. /\ Joined(A, A2)
       /\ \/ A.r.type # "SH_REQ" /\ A.e.state = "UNCACHED" /\ A2.e.state = "MODIFIED"
          \/ A.r.type = "SH_REQ" /\ A.e.state = "UNCACHED" /\ A2.e.state \in {"SHARED", "EXCLUSIVE"}
          \/ A.r.type = "SH_REQ" /\ A.e.state = "SHARED" /\ A2.e.state = "SHARED"
  BY <1>1, <1>10, JoinFacts
<1>13. Waits(A, A2)
  BY <1>2, <1>8, <1>9, <1>11 DEF Waits, SameButSnoops
<1>14. A2 \in AbsT
  BY <1>5, DirViewType DEF A2
<1>15. Stable(A2)
  <2>1. A.e.state = "SHARED" /\ x \in A.e.sharers
    BY <1>1, <1>2, <1>3
  <2> QED
    BY <2>1, <1>1, <1>2, <1>8, <1>9, <1>w, <1>13, <1>14, AskForwarder
<1>16. ForwarderKnown(D1.dir[b], protocol)
  BY DEF ForwarderKnown, JoinsAs, Ready, Kept
<1>17. Kept(D2, b)
  BY <1>5, <1>8, <1>16 DEF Kept, q2
<1>18. HeadOf(q2).type # "NULLIFY_REQ"
  BY <1>1, <1>8, <1>9 DEF Requests
<1> QED
  BY <1>5, <1>15, <1>17, <1>18 DEF Pends, Handled, A2, q2

\* Without data, the request can only wait.
Answers(D, D2, b, data) == Handled(D, D2, b) /\ (data = "none" => Pends(D, D2, b))

\* Every way through retrieveDataAndSendToL2Cache keeps the block sound.
LEMMA Retrieve ==
  ASSUME CacheT, NEW D, NEW b \in Block, Ready(D, b),
         NEW D1, Unchanged(D, D1, b), NEW reply,
         JoinsAs(D.dir[b], D1.dir[b], DirView(D, b).r, reply),
         D1.dir[b].forwarder = D.dir[b].forwarder, NEW data \in Data \cup {"none"},
         NEW D2, D2 = retrieveDataAndSendToL2Cache(D1, reply, b, data)
  PROVE  Answers(D, D2, b, data)
<1> DEFINE A == DirView(D, b)
           r == Head(D1.reqs[b])
           e == D1.dir[b]
           forward == /\ protocol = "mesif"
                      /\ r.forwardingFrom = NoNode
                      /\ e.state = "SHARED"
                      /\ e.forwarder # NoNode
<1>1. /\ D1.reqs = D.reqs /\ A.r.node = r.node /\ r.forwardingFrom = A.r.forwardingFrom
      /\ r \in Req /\ r = D1.reqs[b][1]
  <2>1. D1.reqs = D.reqs
    BY DEF Unchanged
  <2>2. /\ QueueInv(D.reqs[b]) /\ Head(D.reqs[b]).node = A.r.node
        /\ Head(D.reqs[b]).forwardingFrom = A.r.forwardingFrom /\ Head(D.reqs[b]) \in Req
    BY ReadyFacts
  <2>3. Head(D.reqs[b]) = D.reqs[b][1]
    BY <2>2, HeadFacts DEF Ready
  <2> QED
    BY <2>1, <2>2, <2>3
<1>2. CASE data # "none"
  <2>1. D2 = processNextReq(sendTo(ForwardTo(D1, b, A.r.node), {A.r.node}, reply, b, data), b)
    BY <1>1, <1>2 DEF retrieveDataAndSendToL2Cache, ForwardTo
  <2>2. data \in Data
    BY <1>2
  <2> HIDE DEF A
  <2>3. Handled(D, D2, b)
    BY <2>1, <2>2, AnsweredWithData DEF A
  <2> QED
    BY <1>2, <2>3 DEF Answers
<1>3. CASE data = "none" /\ forward
  <2> DEFINE x == e.forwarder
  <2>1. D2 = sendTo([D1 EXCEPT !.reqs[b][1].forwardingFrom = x], {x}, "WB_REQ", b, "none")
    BY <1>3 DEF retrieveDataAndSendToL2Cache
  <2>2. [D1 EXCEPT !.reqs[b][1].forwardingFrom = x] = Marked(D1, b, [r EXCEPT !.forwardingFrom = x])
    BY <1>1 DEF Marked
  <2>3. D2 = ForwardWait(D1, b, x)
    BY <2>1, <2>2 DEF ForwardWait
  <2>4. Pends(D, D2, b)
    BY <1>1, <1>3, <2>3, WaitsForForwarder
  <2> QED
    BY <2>4 DEF Answers, Pends
<1>4. CASE data = "none" /\ ~forward
  <2>1. D2 = sendTo([D1 EXCEPT !.reqs[b][1].wait = TRUE], {Home}, "DRAM_READ_REQ", b, "none")
    BY <1>4 DEF retrieveDataAndSendToL2Cache
  <2>2. [D1 EXCEPT !.reqs[b][1].wait = TRUE] = Marked(D1, b, [r EXCEPT !.wait = TRUE])
    BY <1>1 DEF Marked
  <2>3. D2 = DramWait(D1, b)
    BY <2>1, <2>2 DEF DramWait
  <2>4. Pends(D, D2, b)
    BY <2>3, WaitsForDram
  <2> QED
    BY <2>4 DEF Answers, Pends
<1> QED
  BY <1>2, <1>3, <1>4

-----------------------------------------------------------------------------
(* 4. The directory: EX_REQ, SH_REQ and UPGRADE_REQ                        *)

\* The copies of the nodes N are asked for.
Asks(D, D2, b, A, A2, N, t) ==
  /\ D2 \in DirT /\ OnlyBlock(D, D2, b) /\ D2.slots = D.slots /\ D2.replaced = D.replaced
  /\ D2.dir = D.dir /\ D2.reqs = D.reqs /\ D2.run = D.run /\ Kept(D2, b)
  /\ A2 \in AbsT /\ OnlyAsks(A, A2) /\ Asked(A, A2, N, t)

\* The copies of the nodes N are asked for: what becomes of the directory's state.
LEMMA AskEffect ==
  ASSUME CacheT, NEW D \in DirT, NEW b \in Block, Kept(D, b), NEW A, A = DirView(D, b), Fresh(A),
         NEW N \in SUBSET Node, NEW t \in Snoops, NEW D2, D2 = sendTo(D, N, t, b, "none"),
         NEW A2, A2 = DirView(D2, b)
  PROVE  Asks(D, D2, b, A, A2, N, t)
<1>1. Home \in Node /\ t \in MessageTypes /\ t \notin Carriers /\ "none" \in Data \cup {"none"}
  BY DirectoryAssumption, SnoopKinds
<1>2. ShmemMsg(t, b, Home, "none") \in Message /\ ShmemMsg(t, b, Home, "none") \in ToCache
  BY <1>1, MessageType
<1>3. /\ D2 \in DirT /\ D2.inbox = Post(D.inbox, N, ShmemMsg(t, b, Home, "none"))
      /\ D2.dir = D.dir /\ D2.reqs = D.reqs /\ D2.slots = D.slots /\ D2.replaced = D.replaced
      /\ D2.run = D.run /\ OnlyBlock(D, D2, b)
  BY <1>2, SendEffect
<1>4. /\ D.inbox \in Boxes /\ Ordered(D.inbox, b, Caches(b))
      /\ A = View(D.dir[b], D.reqs[b], D.inbox, b, Caches(b))
      /\ A2 = View(D.dir[b], D.reqs[b], D2.inbox, b, Caches(b))
  BY <1>3 DEF DirT, Kept, DirView
<1>5. /\ OnlyAsks(A, A2) /\ Ordered(D2.inbox, b, Caches(b)) /\ Asked(A, A2, N, t)
  BY <1>3, <1>4, AskOutcome
<1>6. Kept(D2, b)
  BY <1>3, <1>5 DEF Kept
<1>7. A2 \in AbsT
  BY <1>3, DirViewType
<1> QED
  BY <1>3, <1>5, <1>6, <1>7 DEF Asks

\* A request that asks for copies waits.
LEMMA AsksPend ==
  ASSUME NEW D, NEW b \in Block, Ready(D, b), NEW D2, NEW A, NEW N, NEW t,
         Asks(D, D2, b, A, DirView(D2, b), N, t), Stable(DirView(D2, b))
  PROVE  Pends(D, D2, b)
<1>1. DirView(D, b).r = HeadOf(D.reqs[b])
  BY DEF DirView, View
<1> QED
  BY <1>1 DEF Pends, Handled, Ready, Asks, Requests

\* Every way through processExReqFromL2Cache keeps the block sound.
LEMMA ExRequest ==
  ASSUME CacheT, NEW D, NEW b \in Block, Ready(D, b), DirView(D, b).r.type = "EX_REQ",
         NEW data \in Data \cup {"none"}, NEW D2, D2 = processExReq(D, b, data)
  PROVE  Answers(D, D2, b, data)
<1> DEFINE A == DirView(D, b)
           A2 == DirView(D2, b)
           e == D.dir[b]
           n == A.r.node
<1>1. /\ n \in Node /\ A.e = e /\ Fresh(A) /\ e \in EntryT /\ EntryInv(A) /\ Head(D.reqs[b]).node = n
      /\ D \in DirT /\ Kept(D, b)
  BY ReadyFacts DEF Ready
<1> HIDE DEF A, A2
<1>2. CASE e.state \in Owned
  <2>1. D2 = sendTo(D, {e.owner}, "FLUSH_REQ", b, "none")
    BY <1>2 DEF processExReq, Owned
  <2>2. {e.owner} \in SUBSET Node /\ "FLUSH_REQ" \in Snoops
    BY <1>1, <1>2 DEF EntryInv, EntryT, Snoops
  <2>3. Asks(D, D2, b, A, A2, {e.owner}, "FLUSH_REQ")
    BY <1>1, <2>1, <2>2, AskEffect DEF A, A2
  <2>4. Stable(A2)
    <3>1. A2 \in AbsT /\ OnlyAsks(A, A2) /\ Asked(A, A2, {A.e.owner}, "FLUSH_REQ")
      BY <1>1, <2>3 DEF Asks
    <3>2. A.r.type \in Kills /\ A.e.state \in Owned /\ A.r.type # "UPGRADE_REQ"
      BY <1>1, <1>2 DEF Kills, A
    <3> QED
      BY <1>1, <3>1, <3>2, AskOwner
  <2> QED
    BY <2>3, <2>4, AsksPend DEF Answers, Pends, A2
<1>3. CASE e.state = "SHARED"
  <2>1. D2 = sendTo(D, e.sharers, "INV_REQ", b, "none")
    BY <1>3 DEF processExReq
  <2>2. e.sharers \in SUBSET Node /\ "INV_REQ" \in Snoops
    BY <1>1 DEF EntryT, Snoops
  <2>3. Asks(D, D2, b, A, A2, e.sharers, "INV_REQ")
    BY <1>1, <2>1, <2>2, AskEffect DEF A, A2
  <2>4. Stable(A2)
    <3>1. A2 \in AbsT /\ OnlyAsks(A, A2) /\ Asked(A, A2, A.e.sharers, "INV_REQ")
      BY <1>1, <2>3 DEF Asks
    <3>2. A.r.type \in {"EX_REQ", "NULLIFY_REQ"} /\ A.e.state = "SHARED"
      BY <1>1, <1>3 DEF A
    <3> QED
      BY <1>1, <3>1, <3>2, AskSharers
  <2> QED
    BY <2>3, <2>4, AsksPend DEF Answers, Pends, A2
<1>4. CASE e.state = "UNCACHED"
  <2> DEFINE D1 == Own(D, b, n, "MODIFIED")
  <2>1. D2 = retrieveDataAndSendToL2Cache(D1, "EX_REP", b, data)
    BY <1>1, <1>4 DEF processExReq
  <2>2. /\ D1 \in DirT /\ D1.inbox = D.inbox /\ D1.reqs = D.reqs /\ D1.run = D.run
        /\ D1.slots = D.slots /\ D1.replaced = D.replaced
        /\ \A x \in Block : x # b => D1.dir[x] = D.dir[x]
        /\ D1.dir[b].sharers = D.dir[b].sharers \cup {n} /\ D1.dir[b].owner = n
        /\ D1.dir[b].state = "MODIFIED" /\ D1.dir[b].forwarder = D.dir[b].forwarder
    <3>1. "MODIFIED" \in {"SHARED", "EXCLUSIVE", "MODIFIED"}
      OBVIOUS
    <3>2. Owns(D, D1, b, n, "MODIFIED")
      BY <1>1, <3>1, OwnEffect
    <3> QED
      BY <3>2 DEF Owns
  <2> HIDE DEF D1
  <2>3. Unchanged(D, D1, b)
    BY <2>2 DEF Unchanged
  <2>4. JoinsAs(D.dir[b], D1.dir[b], A.r, "EX_REP")
    BY <1>4, <2>2 DEF JoinsAs, A
  <2> QED
    BY <2>1, <2>2, <2>3, <2>4, Retrieve DEF A
<1> QED
  BY <1>1, <1>2, <1>3, <1>4 DEF EntryT, Owned

\* Every way through processShReqFromL2Cache keeps the block sound.
LEMMA ShRequest ==
  ASSUME CacheT, NEW D, NEW b \in Block, Ready(D, b), DirView(D, b).r.type = "SH_REQ",
         NEW data \in Data \cup {"none"}, NEW D2, D2 = processShReq(D, b, data)
  PROVE  Answers(D, D2, b, data)
<1> DEFINE A == DirView(D, b)
           A2 == DirView(D2, b)
           e == D.dir[b]
           n == A.r.node
<1>1. /\ n \in Node /\ A.e = e /\ Fresh(A) /\ e \in EntryT /\ EntryInv(A) /\ Head(D.reqs[b]).node = n
      /\ D \in DirT /\ Kept(D, b)
  BY ReadyFacts DEF Ready
<1> HIDE DEF A, A2
<1>2. CASE e.state \in Owned
  <2>1. D2 = sendTo(D, {e.owner}, "WB_REQ", b, "none")
    BY <1>2 DEF processShReq, Owned
  <2>2. {e.owner} \in SUBSET Node /\ "WB_REQ" \in Snoops
    BY <1>1, <1>2 DEF EntryInv, EntryT, Snoops
  <2>3. Asks(D, D2, b, A, A2, {e.owner}, "WB_REQ")
    BY <1>1, <2>1, <2>2, AskEffect DEF A, A2
  <2>4. Stable(A2)
    <3>1. A2 \in AbsT /\ OnlyAsks(A, A2) /\ Asked(A, A2, {A.e.owner}, "WB_REQ")
      BY <1>1, <2>3 DEF Asks
    <3>2. A.r.type = "SH_REQ" /\ A.e.state \in Owned
      BY <1>1, <1>2 DEF A
    <3> QED
      BY <1>1, <3>1, <3>2, AskWriteback
  <2> QED
    BY <2>3, <2>4, AsksPend DEF Answers, Pends, A2
<1>3. CASE e.state = "SHARED"
  <2> DEFINE D1 == Share(D, b, n)
  <2>1. D2 = retrieveDataAndSendToL2Cache(D1, "SH_REP", b, data)
    BY <1>1, <1>3 DEF processShReq, Share
  <2>2. /\ D1 \in DirT /\ D1.inbox = D.inbox /\ D1.reqs = D.reqs /\ D1.run = D.run
        /\ D1.slots = D.slots /\ D1.replaced = D.replaced
        /\ \A x \in Block : x # b => D1.dir[x] = D.dir[x]
        /\ D1.dir[b].sharers = D.dir[b].sharers \cup {n} /\ D1.dir[b].owner = D.dir[b].owner
        /\ D1.dir[b].state = D.dir[b].state /\ D1.dir[b].forwarder = D.dir[b].forwarder
    BY <1>1, ShareEffect
  <2> HIDE DEF D1
  <2>3. Unchanged(D, D1, b)
    BY <2>2 DEF Unchanged
  <2>4. JoinsAs(D.dir[b], D1.dir[b], A.r, "SH_REP")
    BY <1>3, <2>2 DEF JoinsAs, A
  <2> QED
    BY <2>1, <2>2, <2>3, <2>4, Retrieve DEF A
<1>4. ASSUME NEW st, NEW reply, e.state = "UNCACHED",
             \/ st = "SHARED" /\ protocol = "msi" /\ reply = "SH_REP"
             \/ st = "EXCLUSIVE" /\ protocol # "msi" /\ reply = "EX_REP"
      PROVE  Answers(D, D2, b, data)
  <2> DEFINE D1 == Own(D, b, n, st)
  <2>1. D2 = retrieveDataAndSendToL2Cache(D1, reply, b, data)
    BY <1>1, <1>4 DEF processShReq
  <2>2. /\ D1 \in DirT /\ D1.inbox = D.inbox /\ D1.reqs = D.reqs /\ D1.run = D.run
        /\ D1.slots = D.slots /\ D1.replaced = D.replaced
        /\ \A x \in Block : x # b => D1.dir[x] = D.dir[x]
        /\ D1.dir[b].sharers = D.dir[b].sharers \cup {n} /\ D1.dir[b].owner = n
        /\ D1.dir[b].state = st /\ D1.dir[b].forwarder = D.dir[b].forwarder
    <3>1. st \in {"SHARED", "EXCLUSIVE", "MODIFIED"}
      BY <1>4
    <3>2. Owns(D, D1, b, n, st)
      BY <1>1, <3>1, OwnEffect
    <3> QED
      BY <3>2 DEF Owns
  <2> HIDE DEF D1
  <2>3. Unchanged(D, D1, b)
    BY <2>2 DEF Unchanged
  <2>4. JoinsAs(D.dir[b], D1.dir[b], A.r, reply)
    BY <1>4, <2>2 DEF JoinsAs, A
  <2> QED
    BY <2>1, <2>2, <2>3, <2>4, Retrieve DEF A
<1>5. CASE e.state = "UNCACHED"
  BY <1>4, <1>5
<1> QED
  BY <1>1, <1>2, <1>3, <1>5 DEF EntryT, Owned

-----------------------------------------------------------------------------
(* Upgrades.                                                               *)

\* A nonempty set of natural numbers has a least element.
LEMMA LeastElement ==
  ASSUME NEW T, T \subseteq Nat, T # {}
  PROVE  \E x \in T : \A y \in T : x <= y
<1>1. IsWellFoundedOn(OpToRel(<, Nat), Nat)
  BY NatLessThanWellFounded
<1>2. PICK x \in T : \A y \in T : ~(<<y, x>> \in OpToRel(<, Nat))
  BY <1>1, WFMin
<1>3. \A y \in T : ~(y < x)
  BY <1>2 DEF OpToRel
<1> QED
  BY <1>3

\* getOneSharer returns a sharer.
LEMMA MinIn ==
  ASSUME NEW N \in SUBSET Node, N # {}
  PROVE  Min(N) \in N
<1>1. N \subseteq Nat
  BY DirectoryAssumption
<1>2. \E x \in N : \A y \in N : x <= y
  BY <1>1, LeastElement
<1> QED
  BY <1>2 DEF Min

\* The requester is the only one with a copy: it may write it.
LEMMA UpgradeAnswered ==
  ASSUME CacheT, NEW D, NEW b \in Block, Ready(D, b), NEW A, A = DirView(D, b),
         A.r.type = "UPGRADE_REQ", A.e.sharers = {A.r.node},
         NEW D1, Unchanged(D, D1, b), D1.dir[b].state = "MODIFIED", D1.dir[b].owner = A.r.node,
         D1.dir[b].sharers = {A.r.node},
         NEW D2, D2 = processNextReq(sendTo(D1, {A.r.node}, "UPGRADE_REP", b, "none"), b)
  PROVE  Handled(D, D2, b)
<1> DEFINE n == A.r.node
           A2 == DirView(D2, b)
           u == "UPGRADE_REP"
<1>1. /\ n \in Node /\ A.s[n] = {} /\ A.l[n] = {} /\ A.e = D.dir[b]
      /\ A.r.type \in Requests /\ Fresh(A) /\ CoreInv(A) /\ Quiet(A)
      /\ A.r.type = "UPGRADE_REQ" => ~Dropped(A, n)
  BY ReadyFacts
<1>2. u \in Replies /\ "none" \in Data \cup {"none"}
  BY DEF Replies
<1>3. D \in DirT /\ Kept(D, b) /\ D.reqs[b] # <<>>
  BY DEF Ready
<1> HIDE DEF n, A2
<1>4. Replied(D, D1, D2, b, A, A2, u)
  BY <1>1, <1>2, <1>3, AnswerEffect DEF n, A2
<1>5. /\ A2 \in AbsT /\ A2.e = D1.dir[b] /\ A2.rd = A.rd
      /\ Untouched(A, A2) /\ Dequeued(A, A2) /\ Answered(A, A2, u)
  BY <1>4 DEF Replied
<1>6. Joined(A, A2)
  BY <1>5 DEF Joined, EntryInv, Owned
<1>7. A.ln[n] = "SHARED_UPGRADING"
  <2>1. n \in A.e.sharers <=> (A.ln[n] = "SHARED_UPGRADING" \/ Pending(A, n))
    BY <1>1, Requester DEF n
  <2>2. ~Pending(A, n)
    BY <1>1 DEF Pending, Fresh, CoreInv, HeadInv
  <2> QED
    BY <2>1, <2>2 DEF n
<1>8. MayAnswer(A, A2, u)
  BY <1>2, <1>5, <1>7 DEF MayAnswer, n
<1>9. Fresh(A2)
  BY <1>1, <1>5, <1>6, <1>8, AnswerLeavesFresh DEF n
<1>10. ForwarderKnown(D1.dir[b], protocol)
  BY DEF ForwarderKnown
<1> QED
  BY <1>4, <1>9, <1>10, RepliedHandled DEF A2

\* FLUSH_REQ to the nodes F and INV_REQ to the other nodes of N.
AsksTwice(D, D2, b, A, A2, N, F) ==
  /\ D2 \in DirT /\ OnlyBlock(D, D2, b) /\ D2.slots = D.slots /\ D2.replaced = D.replaced
  /\ D2.dir = D.dir /\ D2.reqs = D.reqs /\ D2.run = D.run /\ Kept(D2, b)
  /\ A2 \in AbsT /\ OnlyAsks(A, A2) /\ AskedForUpgrade(A, A2, N, F)

\* FLUSH_REQ to the nodes F, then INV_REQ to the nodes N.
LEMMA AskTwice ==
  ASSUME CacheT, NEW D, NEW b \in Block, Ready(D, b), NEW A, A = DirView(D, b),
         NEW F \in SUBSET Node, NEW N \in SUBSET Node, F \cap N = {},
         NEW D1, D1 = sendTo(D, F, "FLUSH_REQ", b, "none"),
         NEW D2, D2 = sendTo(D1, N, "INV_REQ", b, "none"), NEW A2, A2 = DirView(D2, b)
  PROVE  AsksTwice(D, D2, b, A, A2, F \cup N, F)
<1> DEFINE A1 == DirView(D1, b)
           t == "INV_REQ"
           m == ShmemMsg(t, b, Home, "none")
<1>1. D \in DirT /\ Kept(D, b) /\ Fresh(A) /\ "FLUSH_REQ" \in Snoops /\ t \in Snoops
  BY DEF Ready, Snoops
<1> HIDE DEF A1, t
<1>2. Asks(D, D1, b, A, A1, F, "FLUSH_REQ")
  BY <1>1, AskEffect DEF A1
<1>3. /\ Home \in Node /\ t \in MessageTypes /\ t \notin Carriers /\ "none" \in Data \cup {"none"}
      /\ t \notin Replies /\ t \notin Returns /\ t \notin Reads /\ t \notin Drops /\ t # "WB_REP"
      /\ t \notin Requests /\ t # "UPGRADE_REP"
  BY <1>1, DirectoryAssumption, SnoopKinds
<1>4. m \in Message /\ m \in ToCache /\ m.type = t /\ m.block = b
  BY <1>1, <1>3, MessageType
<1>5. D1 \in DirT /\ OnlyBlock(D, D1, b) /\ Kept(D1, b) /\ D1.dir = D.dir /\ D1.reqs = D.reqs
  BY <1>2 DEF Asks
<1>6. /\ D2 \in DirT /\ D2.inbox = Post(D1.inbox, N, m)
      /\ D2.dir = D1.dir /\ D2.reqs = D1.reqs /\ D2.slots = D1.slots /\ D2.replaced = D1.replaced
      /\ D2.run = D1.run /\ OnlyBlock(D1, D2, b)
  BY <1>4, <1>5, SendEffect DEF t
<1>7. OnlyBlock(D, D2, b)
  BY <1>5, <1>6, OnlyBlockTwice
<1>8. /\ D1.inbox \in Boxes /\ Ordered(D1.inbox, b, Caches(b))
      /\ A1 = View(D1.dir[b], D1.reqs[b], D1.inbox, b, Caches(b))
      /\ A2 = View(D1.dir[b], D1.reqs[b], Post(D1.inbox, N, m), b, Caches(b))
  BY <1>5, <1>6 DEF DirT, Kept, DirView, A1
<1> HIDE DEF m
<1>9. Posted(A1, A2, N, m, b)
  BY <1>4, <1>8, PostView
<1>10. \A k \in Node : /\ A1.l[k] = IF k \in F /\ Reachable(A, k) THEN {"FLUSH_REQ"} ELSE {}
                       /\ Reachable(A1, k) <=> Reachable(A, k)
  BY <1>2 DEF Asks, Asked, OnlyAsks, Reachable, Granted
<1>11. MayPost(A1, N, m, b)
  BY <1>3, <1>4, <1>10 DEF MayPost
<1>12. Ordered(D2.inbox, b, Caches(b))
  BY <1>4, <1>6, <1>8, <1>11, PostOrder
<1>13. Kept(D2, b)
  BY <1>5, <1>6, <1>12 DEF Kept
<1>14. A2 \in AbsT
  BY <1>6, DirViewType
<1>15. ASSUME NEW k \in Node
       PROVE  /\ A2.s[k] = A1.s[k] /\ A2.f[k] = A1.f[k]
              /\ A2.l[k] = A1.l[k] \cup (IF k \in N /\ Reachable(A1, k) THEN {t} ELSE {})
  <2>1. /\ A2.s[k] = A1.s[k] \cup (IF k \in N /\ m.block = b /\ m.type \in Replies THEN {m.type} ELSE {})
        /\ A2.l[k] = A1.l[k] \cup (IF k \in N /\ m.block = b /\ m.type \in Snoops /\ Reachable(A1, k)
                                   THEN {m.type} ELSE {})
        /\ A2.f[k] = A1.f[k] \cup (IF Home \in N /\ m.block = b /\ m.from = k /\ m.type \in Returns
                                   THEN {m.type} ELSE {})
    BY <1>9 DEF Posted
  <2> QED
    BY <1>1, <1>3, <1>4, <2>1
<1>p. PerNode(A1) /\ PerNode(A2)
  BY <1>8, ViewPointwise
<1>16. A2.s = A1.s /\ A2.f = A1.f
  BY <1>15, <1>p, PointwiseEqual
<1>17. A2.rd = A1.rd
  <2>1. A2.rd <=> A1.rd
    BY <1>3, <1>4, <1>9 DEF Posted
  <2> QED
    BY <2>1, <1>p, PointwiseEqual
<1>18. OnlyAsks(A1, A2)
  BY <1>9, <1>16, <1>17 DEF OnlyAsks, Posted
<1>19. OnlyAsks(A, A2)
  BY <1>2, <1>18 DEF Asks, OnlyAsks
<1>20. AskedForUpgrade(A, A2, F \cup N, F)
  <2>1. ASSUME NEW k \in Node
        PROVE  A2.l[k] = IF k \in F \cup N /\ Reachable(A, k)
                         THEN {IF k \in F THEN "FLUSH_REQ" ELSE "INV_REQ"} ELSE {}
    BY <1>10, <1>15 DEF t
  <2> QED
    BY <2>1 DEF AskedForUpgrade
<1> QED
  BY <1>2, <1>6, <1>7, <1>13, <1>14, <1>19, <1>20 DEF Asks, AsksTwice

\* Without data, the request of an uncached block can only wait.
Processed(D, D2, b, data) ==
  /\ Handled(D, D2, b)
  /\ data = "none" /\ Head(D.reqs[b]).data = "none" /\ D.dir[b].sharers = {} => Pends(D, D2, b)

\* Every way through processUpgradeReqFromL2Cache keeps the block sound.
LEMMA UpgradeRequest ==
  ASSUME CacheT, NEW D, NEW b \in Block, Ready(D, b), DirView(D, b).r.type = "UPGRADE_REQ",
         NEW data \in Data \cup {"none"}, NEW D2, D2 = processUpgradeReq(D, b, data)
  PROVE  Processed(D, D2, b, data)
<1> DEFINE A == DirView(D, b)
           A2 == DirView(D2, b)
           e == D.dir[b]
           r == Head(D.reqs[b])
           n == A.r.node
<1>1. /\ n \in Node /\ A.e = e /\ Fresh(A) /\ e \in EntryT /\ EntryInv(A) /\ r.node = n
      /\ D \in DirT /\ Kept(D, b) /\ r \in Req
  BY ReadyFacts DEF Ready
<1>t. A.r.type = "UPGRADE_REQ"
  OBVIOUS
<1> HIDE DEF A, A2, r
<1>e. D.dir \in [Block -> EntryT]
  BY <1>1 DEF DirT
<1>2. CASE e.state \in Owned /\ Min(e.sharers) = n
  <2> DEFINE D1 == [D EXCEPT !.dir[b].state = "MODIFIED"]
  <2>1. D2 = processNextReq(sendTo(D1, {n}, "UPGRADE_REP", b, "none"), b)
    BY <1>1, <1>2 DEF processUpgradeReq, Owned, r
  <2>2. e.sharers = {e.owner} /\ e.sharers \in SUBSET Node
    BY <1>1, <1>2 DEF EntryInv, EntryT
  <2>3. n = e.owner
    BY <1>2, <2>2, MinIn
  <2>4. EntrySet(D, D1, b, [e EXCEPT !.state = "MODIFIED"])
    BY <1>e DEF EntrySet
  <2>5. [e EXCEPT !.state = "MODIFIED"] \in EntryT
    BY <1>1 DEF EntryT
  <2> HIDE DEF D1
  <2>6. /\ D1 \in DirT /\ D1.inbox = D.inbox /\ D1.reqs = D.reqs /\ D1.dir[b] = [e EXCEPT !.state = "MODIFIED"]
        /\ D1.slots = D.slots /\ D1.replaced = D.replaced /\ D1.run = D.run
        /\ \A x \in Block : x # b => D1.dir[x] = D.dir[x]
    BY <1>1, <2>4, <2>5, EntryEffect
  <2>7. Unchanged(D, D1, b)
    BY <2>6 DEF Unchanged
  <2>8. D1.dir[b].state = "MODIFIED" /\ D1.dir[b].owner = n /\ D1.dir[b].sharers = {n}
    BY <1>1, <2>2, <2>3, <2>6 DEF EntryT
  <2>9. Handled(D, D2, b)
    BY <1>1, <1>t, <2>1, <2>2, <2>3, <2>7, <2>8, UpgradeAnswered DEF A
  <2> QED
    BY <2>2, <2>9 DEF Processed
<1>3. CASE e.state \in Owned /\ Min(e.sharers) # n
  <2>1. D2 = sendTo(D, {e.owner}, "FLUSH_REQ", b, "none")
    BY <1>1, <1>3 DEF processUpgradeReq, Owned, r
  <2>2. {e.owner} \in SUBSET Node /\ "FLUSH_REQ" \in Snoops /\ e.sharers = {e.owner}
    BY <1>1, <1>3 DEF EntryInv, EntryT, Snoops
  <2>o. e.owner # n
    BY <1>3, <2>2, MinIn
  <2>3. Asks(D, D2, b, A, A2, {e.owner}, "FLUSH_REQ")
    BY <1>1, <2>1, <2>2, AskEffect DEF A, A2
  <2>4. Stable(A2)
    <3>1. A2 \in AbsT /\ OnlyAsks(A, A2) /\ Asked(A, A2, {A.e.owner}, "FLUSH_REQ")
      BY <1>1, <2>3 DEF Asks
    <3>2. A.r.type \in Kills /\ A.e.state \in Owned /\ A.e.owner # A.r.node
      BY <1>1, <1>3, <1>t, <2>o DEF Kills
    <3> QED
      BY <1>1, <3>1, <3>2, AskOwner
  <2> QED
    BY <2>3, <2>4, AsksPend DEF Processed, Pends, A2
<1>4. CASE e.state = "SHARED" /\ e.sharers = {n}
  <2> DEFINE D1 == [D EXCEPT !.dir[b].owner = n, !.dir[b].state = "MODIFIED"]
             e1 == [e EXCEPT !.owner = n, !.state = "MODIFIED"]
  <2>1. D2 = processNextReq(sendTo(D1, {n}, "UPGRADE_REP", b, "none"), b)
    BY <1>1, <1>4 DEF processUpgradeReq, r
  <2>4. EntrySet(D, D1, b, e1)
    BY <1>e DEF EntrySet
  <2>5. e1 \in EntryT /\ e1.state = "MODIFIED" /\ e1.owner = n /\ e1.sharers = e.sharers
    BY <1>1 DEF EntryT
  <2> HIDE DEF D1, e1
  <2>6. /\ D1 \in DirT /\ D1.inbox = D.inbox /\ D1.reqs = D.reqs /\ D1.dir[b] = e1
        /\ D1.slots = D.slots /\ D1.replaced = D.replaced /\ D1.run = D.run
        /\ \A x \in Block : x # b => D1.dir[x] = D.dir[x]
    BY <1>1, <2>4, <2>5, EntryEffect
  <2>7. Unchanged(D, D1, b)
    BY <2>6 DEF Unchanged
  <2>8. D1.dir[b].state = "MODIFIED" /\ D1.dir[b].owner = n /\ D1.dir[b].sharers = {n}
    BY <1>4, <2>5, <2>6
  <2>9. Handled(D, D2, b)
    BY <1>1, <1>4, <1>t, <2>1, <2>7, <2>8, UpgradeAnswered DEF A
  <2> QED
    BY <1>4, <2>9 DEF Processed
<1>5. CASE e.state = "SHARED" /\ e.sharers # {n}
  <2> DEFINE F == IF n \in e.sharers THEN {} ELSE {Min(e.sharers)}
             N == e.sharers \ (F \cup {n})
             D1 == sendTo(D, F, "FLUSH_REQ", b, "none")
  <2>1. D2 = sendTo(D1, N, "INV_REQ", b, "none")
    BY <1>1, <1>5 DEF processUpgradeReq, r
  <2>2. e.sharers \in SUBSET Node /\ e.sharers # {}
    BY <1>1, <1>5 DEF EntryInv, EntryT
  <2>3. Min(e.sharers) \in e.sharers
    BY <2>2, MinIn
  <2>4. /\ F \in SUBSET Node /\ N \in SUBSET Node /\ F \cap N = {} /\ F \cup N = e.sharers \ {n}
        /\ F = {} \/ n \notin e.sharers
    BY <2>2, <2>3
  <2> HIDE DEF F, N
  <2>5. AsksTwice(D, D2, b, A, A2, F \cup N, F)
    BY <2>1, <2>4, AskTwice DEF A, A2
  <2>6. AsksTwice(D, D2, b, A, A2, e.sharers \ {n}, F)
    BY <2>4, <2>5
  <2>7. Stable(A2)
    <3>1. A2 \in AbsT /\ OnlyAsks(A, A2) /\ AskedForUpgrade(A, A2, A.e.sharers \ {A.r.node}, F)
      BY <1>1, <2>6 DEF AsksTwice
    <3>2. A.r.type = "UPGRADE_REQ" /\ A.e.state = "SHARED" /\ A.e.sharers # {A.r.node}
          /\ (F = {} \/ A.r.node \notin A.e.sharers)
      BY <1>1, <1>5, <1>t, <2>4
    <3> QED
      BY <1>1, <3>1, <3>2, AskForUpgrade
  <2>8. DirView(D, b).r = HeadOf(D.reqs[b])
    BY DEF DirView, View
  <2> QED
    BY <2>6, <2>7, <2>8 DEF AsksTwice, Processed, Pends, Handled, Ready, Requests, A2
<1>6. CASE e.state = "UNCACHED"
  <2> DEFINE D1 == Own(D, b, n, "MODIFIED")
             d == IF data = "none" THEN r.data ELSE data
  <2>1. D2 = retrieveDataAndSendToL2Cache(D1, "EX_REP", b, d)
    BY <1>1, <1>6 DEF processUpgradeReq, r
  <2>2. /\ D1 \in DirT /\ D1.inbox = D.inbox /\ D1.reqs = D.reqs /\ D1.run = D.run
        /\ D1.slots = D.slots /\ D1.replaced = D.replaced
        /\ \A x \in Block : x # b => D1.dir[x] = D.dir[x]
        /\ D1.dir[b].sharers = D.dir[b].sharers \cup {n} /\ D1.dir[b].owner = n
        /\ D1.dir[b].state = "MODIFIED" /\ D1.dir[b].forwarder = D.dir[b].forwarder
    <3>1. "MODIFIED" \in {"SHARED", "EXCLUSIVE", "MODIFIED"}
      OBVIOUS
    <3>2. Owns(D, D1, b, n, "MODIFIED")
      BY <1>1, <3>1, OwnEffect
    <3> QED
      BY <3>2 DEF Owns
  <2>d. d \in Data \cup {"none"}
    BY <1>1 DEF Req
  <2> HIDE DEF D1, d
  <2>3. Unchanged(D, D1, b)
    BY <2>2 DEF Unchanged
  <2>4. JoinsAs(D.dir[b], D1.dir[b], A.r, "EX_REP")
    BY <1>6, <1>t, <2>2 DEF JoinsAs
  <2>5. Answers(D, D2, b, d)
    BY <2>1, <2>2, <2>3, <2>4, <2>d, Retrieve DEF A
  <2> QED
    BY <2>5 DEF Answers, Processed, d, r
<1> QED
  BY <1>1, <1>2, <1>3, <1>4, <1>5, <1>6 DEF EntryT, Owned

-----------------------------------------------------------------------------
(* 4. The directory: entries and the loop over the queue                   *)

\* A new entry is uncached and has no sharers.
LEMMA NewEntry ==
  /\ DirectoryEntry \in EntryT /\ DirectoryEntry.state = "UNCACHED" /\ DirectoryEntry.sharers = {}
  /\ ForwarderKnown(DirectoryEntry, protocol)
  BY DEF DirectoryEntry, EntryT, ForwarderKnown

\* The entry of b is taken away: its copies are asked for, or there are none left.
Nullified(D, D2, b) ==
  /\ D2 \in DirT /\ OnlyBlock(D, D2, b) /\ D2.slots = D.slots /\ Kept(D2, b)
  /\ \/ /\ D2.replaced = D.replaced /\ D2.reqs = D.reqs /\ D2.dir = D.dir /\ ~D2.run
        /\ Stable(DirView(D2, b))
     \/ /\ D2.replaced = D.replaced \ {b} /\ D2.dir[b].sharers = {} /\ D2.reqs[b] = Tail(D.reqs[b])
        /\ D2.run <=> D2.reqs[b] # <<>>
        /\ Fresh(DirView(D2, b)) /\ HeadOf(D2.reqs[b]).type # "NULLIFY_REQ"
        /\ D2.run => Head(D2.reqs[b]).data = "none"

\* The entry is given up.
Emptied(D, b) == [D EXCEPT !.replaced = @ \ {b}, !.dir[b] = DirectoryEntry]

\* What giving an entry up (invalidateDirectoryEntry) does to the directory's state.
LEMMA EmptyEffect ==
  ASSUME NEW D \in DirT, NEW b \in Block, NEW D2, D2 = Emptied(D, b)
  PROVE  /\ D2 \in DirT /\ D2.inbox = D.inbox /\ D2.reqs = D.reqs /\ D2.dir[b] = DirectoryEntry
         /\ D2.slots = D.slots /\ D2.replaced = D.replaced \ {b} /\ D2.run = D.run
         /\ \A x \in Block : x # b => D2.dir[x] = D.dir[x]
<1>1. D.dir \in [Block -> EntryT] /\ D.replaced \ {b} \in SUBSET Block
  BY DEF DirT
<1>2. [D.dir EXCEPT ![b] = DirectoryEntry] \in [Block -> EntryT]
  BY <1>1, NewEntry
<1>3. D2 = [D EXCEPT !.replaced = D.replaced \ {b}, !.dir = [D.dir EXCEPT ![b] = DirectoryEntry]]
  BY DEF Emptied
<1> QED
  BY <1>1, <1>2, <1>3 DEF DirT

\* Every way through processNullifyReq keeps the block sound.
LEMMA NullifyEffect ==
  ASSUME CacheT, NEW D \in DirT, NEW b \in Block, Kept(D, b), NEW A, A = DirView(D, b), Fresh(A),
         A.r.type = "NULLIFY_REQ", D.reqs[b] # <<>>, ~D.run, NEW D2, D2 = processNullifyReq(D, b)
  PROVE  Nullified(D, D2, b)
<1> DEFINE A2 == DirView(D2, b)
           e == D.dir[b]
<1>1. A.e = e /\ e \in EntryT /\ EntryInv(A) /\ HeadInv(A) /\ CoreInv(A) /\ Quiet(A) /\ ~A.r.wait
  BY DirViewType DEF Fresh, CoreInv
<1> HIDE DEF A2
<1>2. CASE e.state \in Owned
  <2>1. D2 = sendTo(D, {e.owner}, "FLUSH_REQ", b, "none")
    BY <1>2 DEF processNullifyReq, Owned
  <2>2. {e.owner} \in SUBSET Node /\ "FLUSH_REQ" \in Snoops
    BY <1>1, <1>2 DEF EntryInv, EntryT, Snoops
  <2>3. Asks(D, D2, b, A, A2, {e.owner}, "FLUSH_REQ")
    BY <2>1, <2>2, AskEffect DEF A2
  <2>4. Stable(A2)
    <3>1. A2 \in AbsT /\ OnlyAsks(A, A2) /\ Asked(A, A2, {A.e.owner}, "FLUSH_REQ")
      BY <1>1, <2>3 DEF Asks
    <3>2. A.r.type \in Kills /\ A.e.state \in Owned /\ A.r.type # "UPGRADE_REQ"
      BY <1>1, <1>2 DEF Kills
    <3> QED
      BY <3>1, <3>2, AskOwner
  <2> QED
    BY <2>3, <2>4 DEF Asks, Nullified, A2
<1>3. CASE e.state = "SHARED"
  <2>1. D2 = sendTo(D, e.sharers, "INV_REQ", b, "none")
    BY <1>3 DEF processNullifyReq
  <2>2. e.sharers \in SUBSET Node /\ "INV_REQ" \in Snoops
    BY <1>1 DEF EntryT, Snoops
  <2>3. Asks(D, D2, b, A, A2, e.sharers, "INV_REQ")
    BY <2>1, <2>2, AskEffect DEF A2
  <2>4. Stable(A2)
    <3>1. A2 \in AbsT /\ OnlyAsks(A, A2) /\ Asked(A, A2, A.e.sharers, "INV_REQ")
      BY <1>1, <2>3 DEF Asks
    <3>2. A.r.type \in {"EX_REQ", "NULLIFY_REQ"} /\ A.e.state = "SHARED"
      BY <1>1, <1>3
    <3> QED
      BY <3>1, <3>2, AskSharers
  <2> QED
    BY <2>3, <2>4 DEF Asks, Nullified, A2
<1>4. CASE e.state = "UNCACHED"
  <2> DEFINE E == Emptied(D, b)
             q == D.reqs[b]
  <2>1. D2 = processNextReq(E, b)
    BY <1>4 DEF processNullifyReq, Emptied
  <2>2. /\ E \in DirT /\ E.inbox = D.inbox /\ E.reqs = D.reqs /\ E.dir[b] = DirectoryEntry
        /\ E.slots = D.slots /\ E.replaced = D.replaced \ {b} /\ E.run = D.run
        /\ \A x \in Block : x # b => E.dir[x] = D.dir[x]
    BY EmptyEffect
  <2> HIDE DEF E
  <2>3. /\ D2 \in DirT /\ D2.inbox = E.inbox /\ D2.dir = E.dir
        /\ D2.reqs[b] = Tail(E.reqs[b]) /\ \A x \in Block : x # b => D2.reqs[x] = E.reqs[x]
        /\ D2.slots = E.slots /\ D2.replaced = E.replaced
        /\ D2.run <=> Len(E.reqs[b]) > 1
    <3>1. E \in DirT /\ E.reqs[b] # <<>>
      BY <2>2
    <3> QED
      BY <2>1, <3>1, NextEffect
  <2>4. OnlyBlock(D, D2, b)
    <3>1. \A x \in Block : x # b => D2.dir[x] = D.dir[x] /\ D2.reqs[x] = D.reqs[x]
      BY <2>2, <2>3
    <3> QED
      BY <2>2, <2>3, <3>1, SameBoxOnlyBlock
  <2>q. QueueInv(q) /\ q # <<>>
    BY DEF Kept
  <2>5. /\ (Len(q) > 1) <=> Tail(q) # <<>>
        /\ HeadOf(Tail(q)).type # "NULLIFY_REQ"
        /\ Tail(q) # <<>> => Head(Tail(q)).data = "none"
        /\ QueueInv(Tail(q))
    BY <2>q, TailQueue
  <2>6. /\ A = View(e, q, D.inbox, b, Caches(b)) /\ D2.reqs[b] = Tail(q)
        /\ A2 = View(DirectoryEntry, Tail(q), D.inbox, b, Caches(b))
    BY <2>2, <2>3 DEF DirView, A2
  <2> HIDE DEF q
  <2>7. Dequeued(A, A2)
    BY <2>6, <2>q, DequeueOutcome
  <2>8. A2 \in AbsT
    BY <2>3, DirViewType DEF A2
  <2>9. Untouched(A, A2) /\ A2.s = A.s /\ A2.rd = A.rd /\ A2.e = DirectoryEntry
    BY <2>6 DEF View, Untouched
  <2>10. \A m \in Node : ~Pending(A, m)
    BY DEF Pending, Requests
  <2>11. \A m \in Node : A2.a[m] = A.a[m]
    BY <2>7 DEF Dequeued, Requests
  <2>12. /\ HeadInv(A2) /\ ~A2.r.wait /\ A2.r.forwardingFrom = NoNode
         /\ A.e.state = "UNCACHED" /\ A2.e.state = "UNCACHED" /\ A2.e.sharers = {}
    BY <1>1, <1>4, <2>7, <2>9, NewEntry DEF Dequeued
  <2>13. Fresh(A2)
    BY <1>1, <2>8, <2>9, <2>10, <2>11, <2>12, NewHead
  <2>14. Kept(D2, b)
    BY <2>2, <2>3, <2>5, <2>6, NewEntry DEF Kept
  <2>15. D2.dir[b].sharers = {} /\ D2.replaced = D.replaced \ {b} /\ D2.slots = D.slots
    BY <2>2, <2>3, NewEntry
  <2>16. /\ D2.run <=> D2.reqs[b] # <<>>
         /\ HeadOf(D2.reqs[b]).type # "NULLIFY_REQ"
         /\ D2.run => Head(D2.reqs[b]).data = "none"
    BY <2>2, <2>3, <2>5, <2>6 DEF q
  <2> QED
    BY <2>3, <2>4, <2>6, <2>13, <2>14, <2>15, <2>16 DEF Nullified, A2, q
<1> QED
  BY <1>1, <1>2, <1>3, <1>4 DEF EntryT, Owned

-----------------------------------------------------------------------------
(* The directory entries.                                                  *)

\* Blocks that are being nullified, and blocks with copies, have their entries.
AllocOf(D, x) ==
  /\ x \in D.replaced <=> HeadOf(D.reqs[x]).type = "NULLIFY_REQ"
  /\ D.dir[x].sharers # {} => HasEntry(D, x) \/ D.reqs[x] # <<>>

\* The set of the directory has no more than Ways entries.
Alloc(D) ==
  /\ D.slots \cap D.replaced = {} /\ IsFiniteSet(D.slots) /\ Cardinality(D.slots) <= Ways
  /\ \A x \in Block : AllocOf(D, x)

\* The block v that is to lose its entry to b has no request.
VictimOK(D, b, v) == v \in D.slots /\ b \notin D.slots => D.reqs[v] = <<>>

\* No other block is being worked on.
OthersSettled(D, b) == \A x \in Block : x # b => Settled(D, x)

\* A handler that works on b.
Handling(D, b, v) == D \in DirT /\ Alloc(D) /\ VictimOK(D, b, v) /\ OthersSettled(D, b)

\* b has an entry, or the request goes on without one.
GotEntry(D, D1, b, v) ==
  /\ Handling(D1, b, v) /\ Ready(D1, b) /\ D1.reqs[b] = D.reqs[b]
  /\ HasEntry(D1, b) \/ D1 = D

\* The other blocks stay settled.
LEMMA OthersRemain ==
  ASSUME NEW D, NEW D2, NEW b, OthersSettled(D, b), OnlyBlock(D, D2, b)
  PROVE  OthersSettled(D2, b)
  BY OthersStay DEF OthersSettled

\* A block without requests gets a new, empty entry.
LEMMA FreshEntry ==
  ASSUME CacheT, NEW D, NEW b \in Block, Ready(D, b), D.dir[b].sharers = {},
         NEW D2 \in DirT, D2.inbox = D.inbox, D2.reqs[b] = D.reqs[b], D2.dir[b] = DirectoryEntry, ~D2.run
  PROVE  Ready(D2, b)
<1> DEFINE A == DirView(D, b)
           A2 == DirView(D2, b)
<1>1. /\ A.r.type \in Requests /\ Fresh(A) /\ CoreInv(A) /\ Quiet(A) /\ EntryInv(A) /\ A.e = D.dir[b]
  BY ReadyFacts
<1>2. /\ A2.r = A.r /\ A2.a = A.a /\ Untouched(A, A2) /\ A2.s = A.s /\ A2.rd = A.rd /\ A2.e = DirectoryEntry
  BY DEF DirView, View, Untouched
<1>3. A2 \in AbsT
  BY DirViewType
<1> HIDE DEF A, A2
<1>4. A.e.state = "UNCACHED" /\ A2.e.state = "UNCACHED" /\ A2.e.sharers = {}
  BY <1>1, <1>2, NewEntry DEF EntryInv
<1>5. ~A.r.wait /\ A.r.forwardingFrom = NoNode
  BY <1>1, <1>4 DEF Fresh
<1>6. \A m \in Node : ~Pending(A, m)
  BY <1>5 DEF Pending
<1>7. HeadInv(A2)
  BY <1>1, <1>2 DEF CoreInv, HeadInv, Idles
<1>8. Fresh(A2)
  BY <1>1, <1>2, <1>3, <1>4, <1>5, <1>6, <1>7, NewHead
<1>9. Kept(D2, b)
  BY NewEntry DEF Kept, Ready
<1> QED
  BY <1>1, <1>2, <1>8, <1>9 DEF Ready, A, A2

\* A free way is used for b.
WithEntry(D, b) == [D EXCEPT !.slots = @ \cup {b}, !.dir[b] = DirectoryEntry]

\* An entry is found in a way that is free.
LEMMA FreeWay ==
  ASSUME CacheT, NEW D, NEW b \in Block, NEW v, Handling(D, b, v), Ready(D, b), D.dir[b].sharers = {},
         ~HasEntry(D, b), Cardinality(D.slots) < Ways, NEW D1, D1 = WithEntry(D, b)
  PROVE  GotEntry(D, D1, b, v)
<1>1. D \in DirT /\ D.dir \in [Block -> EntryT] /\ D.slots \cup {b} \in SUBSET Block
  BY DEF Handling, DirT
<1>2. [D.dir EXCEPT ![b] = DirectoryEntry] \in [Block -> EntryT]
  BY <1>1, NewEntry
<1>3. D1 = [D EXCEPT !.slots = D.slots \cup {b}, !.dir = [D.dir EXCEPT ![b] = DirectoryEntry]]
  BY DEF WithEntry
<1>4. /\ D1 \in DirT /\ D1.inbox = D.inbox /\ D1.reqs = D.reqs /\ D1.dir[b] = DirectoryEntry
      /\ D1.slots = D.slots \cup {b} /\ D1.replaced = D.replaced /\ D1.run = D.run
      /\ \A x \in Block : x # b => D1.dir[x] = D.dir[x]
  BY <1>1, <1>2, <1>3 DEF DirT
<1>5. ~D1.run
  BY <1>4 DEF Ready
<1>6. Ready(D1, b)
  BY <1>4, <1>5, FreshEntry
<1>7. OthersSettled(D1, b)
  <2>1. OnlyBlock(D, D1, b)
    BY <1>4, SameBoxOnlyBlock
  <2> QED
    BY <2>1, OthersRemain DEF Handling
<1>8. Alloc(D1)
  <2>1. b \notin D.slots /\ b \notin D.replaced
    BY DEF HasEntry
  <2>2. IsFiniteSet(D.slots) /\ D.slots \cap D.replaced = {} /\ \A x \in Block : AllocOf(D, x)
    BY DEF Handling, Alloc
  <2>3. IsFiniteSet(D1.slots) /\ Cardinality(D1.slots) = Cardinality(D.slots) + 1
    BY <1>4, <2>1, <2>2, FS_AddElement, ZenonT(60)
  <2>4. Cardinality(D1.slots) <= Ways
    BY <2>2, <2>3, FS_CardinalityType, DirectoryAssumption
  <2>5. ASSUME NEW x \in Block PROVE AllocOf(D1, x)
    <3>1. CASE x = b
      <4>1. b \in D.replaced <=> HeadOf(D.reqs[b]).type = "NULLIFY_REQ"
        BY <2>2 DEF AllocOf
      <4> QED
        BY <1>4, <3>1, <4>1 DEF AllocOf, HasEntry
    <3>2. CASE x # b
      <4>1. AllocOf(D, x)
        BY <2>2
      <4>2. D1.dir[x] = D.dir[x] /\ D1.reqs[x] = D.reqs[x] /\ (HasEntry(D1, x) <=> HasEntry(D, x))
        BY <1>4, <3>2 DEF HasEntry
      <4> QED
        BY <1>4, <4>1, <4>2 DEF AllocOf
    <3> QED
      BY <3>1, <3>2
  <2> QED
    BY <1>4, <2>1, <2>2, <2>3, <2>4, <2>5 DEF Alloc
<1>9. HasEntry(D1, b)
  BY <1>4 DEF HasEntry
<1> QED
  BY <1>4, <1>6, <1>7, <1>8, <1>9 DEF GotEntry, Handling, VictimOK

\* The entry of v is taken for b, and v is to be nullified.
Stolen(D, b, v, n) ==
  [D EXCEPT !.slots = (@ \ {v}) \cup {b}, !.replaced = @ \cup {v}, !.dir[b] = DirectoryEntry,
            !.reqs[v] = <<ShmemReq("NULLIFY_REQ", n)>>]

\* The same, as a relation.
Steals(D, D2, b, v, n) ==
  /\ D2 \in DirT /\ D2.inbox = D.inbox /\ D2.run = D.run
  /\ D2.slots = (D.slots \ {v}) \cup {b} /\ D2.replaced = D.replaced \cup {v}
  /\ D2.dir[b] = DirectoryEntry /\ \A x \in Block : x # b => D2.dir[x] = D.dir[x]
  /\ D2.reqs[v] = <<ShmemReq("NULLIFY_REQ", n)>> /\ \A x \in Block : x # v => D2.reqs[x] = D.reqs[x]

\* What taking the victim's entry does to the directory's state.
LEMMA StealEffect ==
  ASSUME NEW D \in DirT, NEW b \in Block, NEW v \in Block, NEW n \in Node, NEW D2, D2 = Stolen(D, b, v, n)
  PROVE  Steals(D, D2, b, v, n)
<1> DEFINE S == (D.slots \ {v}) \cup {b}
           R == D.replaced \cup {v}
           q == <<ShmemReq("NULLIFY_REQ", n)>>
<1>1. D.dir \in [Block -> EntryT] /\ D.reqs \in [Block -> Seq(Req)] /\ S \in SUBSET Block /\ R \in SUBSET Block
  BY DEF DirT
<1>2. [D.dir EXCEPT ![b] = DirectoryEntry] \in [Block -> EntryT]
  BY <1>1, NewEntry
<1>3. q \in Seq(Req)
  BY NullifyQueue DEF QueueInv
<1> HIDE DEF q
<1>4. [D.reqs EXCEPT ![v] = q] \in [Block -> Seq(Req)]
  BY <1>1, <1>3
<1>5. D2 = [D EXCEPT !.slots = S, !.replaced = R, !.dir = [D.dir EXCEPT ![b] = DirectoryEntry],
                     !.reqs = [D.reqs EXCEPT ![v] = q]]
  BY DEF Stolen, q
<1> HIDE DEF S, R
<1>6. /\ D2 \in DirT /\ D2.inbox = D.inbox /\ D2.run = D.run /\ D2.slots = S /\ D2.replaced = R
      /\ D2.dir = [D.dir EXCEPT ![b] = DirectoryEntry] /\ D2.reqs = [D.reqs EXCEPT ![v] = q]
  BY <1>1, <1>2, <1>4, <1>5 DEF DirT
<1> QED
  BY <1>1, <1>6 DEF Steals, S, R, q

\* A block without requests is to be nullified.
LEMMA NullifyFresh ==
  ASSUME CacheT, NEW D \in DirT, NEW v \in Block, Settled(D, v), D.reqs[v] = <<>>, NEW n \in Node,
         NEW D2 \in DirT, D2.inbox = D.inbox, D2.dir[v] = D.dir[v],
         D2.reqs[v] = <<ShmemReq("NULLIFY_REQ", n)>>
  PROVE  /\ Kept(D2, v) /\ Fresh(DirView(D2, v)) /\ DirView(D2, v).r.type = "NULLIFY_REQ"
         /\ D2.reqs[v] # <<>> /\ Tail(D2.reqs[v]) = <<>>
<1> DEFINE A == DirView(D, v)
           A2 == DirView(D2, v)
           q == D2.reqs[v]
<1>1. /\ QueueInv(q) /\ q # <<>> /\ Tail(q) = <<>>
      /\ HeadOf(q) = [type |-> "NULLIFY_REQ", node |-> n, wait |-> FALSE, forwardingFrom |-> NoNode]
      /\ \A m : AskedIn(q, m) = {}
  BY NullifyQueue
<1>2. A2 \in AbsT /\ A2.r = HeadOf(q) /\ A2.e = D.dir[v] /\ A.e = D.dir[v] /\ A.r = NoReq
  BY DirViewType DEF HeadOf
<1>3. \A m \in Node : A2.a[m] = {} /\ A.a[m] = {}
  <2>1. \A m \in Node : A2.a[m] = AskedIn(q, m) /\ A.a[m] = AskedIn(D.reqs[v], m)
    BY DEF DirView, View
  <2>2. \A m \in Node : AskedIn(D.reqs[v], m) = {}
    BY DEF AskedIn
  <2> QED
    BY <1>1, <2>1, <2>2
<1>4. Untouched(A, A2) /\ A2.s = A.s /\ A2.rd = A.rd
  BY DEF DirView, View, Untouched
<1>5. Stable(A) /\ Kept(D, v)
  BY DEF Settled
<1> HIDE DEF A, A2, q
<1>6. CoreInv(A) /\ Quiet(A) /\ A.r.type = "NONE"
  BY <1>2, <1>5 DEF Stable, Idles, NoReq
<1>7. HeadInv(A2) /\ ~A2.r.wait /\ A2.r.forwardingFrom = NoNode
  BY <1>1, <1>2 DEF HeadInv, Idles, Requests
<1>8. \A m \in Node : ~Pending(A, m)
  BY <1>6 DEF Pending, Requests
<1>9. Fresh(A2)
  BY <1>2, <1>3, <1>4, <1>6, <1>7, <1>8, NewHead
<1>10. Kept(D2, v)
  BY <1>1, <1>5 DEF Kept, q
<1> QED
  BY <1>1, <1>2, <1>9, <1>10 DEF A2, q

\* A victim without requests is settled after its NULLIFY_REQ has been processed.
LEMMA NullifiedSettled ==
  ASSUME NEW D, NEW D2, NEW v, Nullified(D, D2, v), D.reqs[v] # <<>>, Tail(D.reqs[v]) = <<>>
  PROVE  Settled(D2, v) /\ ~D2.run
<1>1. CASE D2.replaced = D.replaced /\ ~D2.run /\ Stable(DirView(D2, v))
  BY <1>1 DEF Settled, Nullified
<1>2. CASE /\ D2.reqs[v] = Tail(D.reqs[v]) /\ (D2.run <=> D2.reqs[v] # <<>>)
           /\ Fresh(DirView(D2, v))
  <2>1. D2.reqs[v] = <<>> /\ ~D2.run
    BY <1>2
  <2>2. Idles(DirView(D2, v))
    BY <2>1 DEF Idles, DirView, View, HeadOf, NoReq
  <2>3. Stable(DirView(D2, v))
    BY <1>2, <2>2, FreshStable
  <2> QED
    BY <2>1, <2>3 DEF Settled, Nullified
<1> QED
  BY <1>1, <1>2 DEF Nullified

\* No way is free: v loses its entry.
LEMMA VictimTaken ==
  ASSUME CacheT, NEW D, NEW b \in Block, NEW v, Handling(D, b, v), Ready(D, b), D.dir[b].sharers = {},
         ~HasEntry(D, b), v \in D.slots, NEW n \in Node,
         NEW S, S = Stolen(D, b, v, n), NEW D1, D1 = processNullifyReq(S, v)
  PROVE  GotEntry(D, D1, b, v)
<1>1. D \in DirT /\ v \in Block /\ v # b /\ D.reqs[v] = <<>> /\ Settled(D, v) /\ ~D.run
  BY DEF Handling, DirT, HasEntry, VictimOK, OthersSettled, Ready
<1>2. Steals(D, S, b, v, n)
  BY <1>1, StealEffect
<1>3. S \in DirT /\ S.inbox = D.inbox /\ S.dir[v] = D.dir[v] /\ S.reqs[v] = <<ShmemReq("NULLIFY_REQ", n)>>
  BY <1>1, <1>2 DEF Steals
<1>4. /\ Kept(S, v) /\ Fresh(DirView(S, v)) /\ DirView(S, v).r.type = "NULLIFY_REQ"
      /\ S.reqs[v] # <<>> /\ Tail(S.reqs[v]) = <<>>
  BY <1>1, <1>3, NullifyFresh
<1>5. ~S.run
  BY <1>1, <1>2 DEF Steals
<1>6. Nullified(S, D1, v)
  BY <1>1, <1>3, <1>4, <1>5, NullifyEffect
<1>7. Settled(D1, v) /\ ~D1.run
  BY <1>4, <1>6, NullifiedSettled
<1>8. OnlyBlock(S, D1, v) /\ D1 \in DirT /\ D1.slots = S.slots
  BY <1>6 DEF Nullified
<1>9. Ready(D1, b)
  <2>1. S.reqs[b] = D.reqs[b] /\ S.dir[b] = DirectoryEntry
    BY <1>1, <1>2 DEF Steals
  <2>2. Ready(S, b)
    BY <1>3, <1>5, <2>1, FreshEntry
  <2>3. DirView(D1, b) = DirView(S, b) /\ (Kept(S, b) => Kept(D1, b)) /\ D1.reqs[b] = S.reqs[b]
    BY <1>1, <1>8, OthersStay
  <2> QED
    BY <1>7, <1>8, <2>2, <2>3 DEF Ready
<1>10. /\ D1.reqs[b] = D.reqs[b] /\ D1.dir[b] = DirectoryEntry
       /\ \A x \in Block : x # b /\ x # v => D1.dir[x] = D.dir[x] /\ D1.reqs[x] = D.reqs[x]
  <2>1. \A x \in Block : x # v => D1.dir[x] = S.dir[x] /\ D1.reqs[x] = S.reqs[x]
    BY <1>8 DEF OnlyBlock
  <2> QED
    BY <1>1, <1>2, <2>1 DEF Steals
<1>11. OthersSettled(D1, b)
  <2> SUFFICES ASSUME NEW x \in Block, x # b, x # v PROVE Settled(D1, x)
    BY <1>7 DEF OthersSettled
  <2>1. Settled(D, x)
    BY DEF Handling, OthersSettled
  <2>2. S.dir[x] = D.dir[x] /\ S.reqs[x] = D.reqs[x]
    BY <1>2 DEF Steals
  <2>3. Settled(S, x)
    BY <1>3, <2>1, <2>2 DEF Settled, Kept, DirView
  <2> QED
    BY <1>8, <2>3, OthersStay
<1>12. /\ D1.slots = (D.slots \ {v}) \cup {b}
       /\ D1.replaced = D.replaced \cup {v} \/ D1.replaced = (D.replaced \cup {v}) \ {v}
  BY <1>2, <1>6 DEF Steals, Nullified
<1>13. /\ b \notin D.slots /\ b \notin D.replaced /\ v \notin D.replaced
       /\ IsFiniteSet(D.slots) /\ D.slots \cap D.replaced = {} /\ Cardinality(D.slots) <= Ways
       /\ \A x \in Block : AllocOf(D, x)
  BY DEF HasEntry, Handling, Alloc
<1>14. IsFiniteSet(D1.slots) /\ Cardinality(D1.slots) <= Ways
  <2>1. IsFiniteSet(D.slots \ {v}) /\ Cardinality(D.slots \ {v}) = Cardinality(D.slots) - 1
    BY <1>13, FS_RemoveElement
  <2>2. /\ IsFiniteSet((D.slots \ {v}) \cup {b})
        /\ Cardinality((D.slots \ {v}) \cup {b}) = Cardinality(D.slots \ {v}) + 1
    BY <1>13, <2>1, FS_AddElement
  <2>3. Cardinality(D.slots) \in Nat /\ Ways \in Nat
    BY <1>13, FS_CardinalityType, DirectoryAssumption
  <2> QED
    BY <1>12, <1>13, <2>1, <2>2, <2>3
<1>15. AllocOf(D1, v)
  <2>1. CASE D1.replaced = S.replaced /\ D1.reqs = S.reqs
    <3>1. v \in D1.replaced
      BY <1>2, <2>1 DEF Steals
    <3>2. HeadOf(S.reqs[v]).type = "NULLIFY_REQ"
      BY <1>1, <1>3, <1>4, DirViewType
    <3> QED
      BY <2>1, <3>1, <3>2 DEF AllocOf, HasEntry
  <2>2. CASE D1.replaced = S.replaced \ {v} /\ D1.dir[v].sharers = {} /\ HeadOf(D1.reqs[v]).type # "NULLIFY_REQ"
    BY <2>2 DEF AllocOf
  <2> QED
    BY <1>6, <2>1, <2>2 DEF Nullified
<1>16. ASSUME NEW x \in Block, x # v PROVE AllocOf(D1, x)
  <2>1. AllocOf(D, x) /\ (x \in D1.replaced <=> x \in D.replaced)
    BY <1>12, <1>13, <1>16
  <2>2. CASE x = b
    BY <1>10, <1>12, <2>1, <2>2, NewEntry DEF AllocOf, HasEntry
  <2>3. CASE x # b
    <3>1. D1.dir[x] = D.dir[x] /\ D1.reqs[x] = D.reqs[x] /\ (HasEntry(D1, x) <=> HasEntry(D, x))
      BY <1>10, <1>12, <1>16, <2>3, <2>1 DEF HasEntry
    <3> QED
      BY <2>1, <3>1 DEF AllocOf
  <2> QED
    BY <2>2, <2>3
<1>17. Alloc(D1)
  <2>1. D1.slots \cap D1.replaced = {}
    BY <1>1, <1>12, <1>13
  <2> QED
    BY <1>14, <1>15, <1>16, <2>1 DEF Alloc
<1>18. HasEntry(D1, b)
  BY <1>12 DEF HasEntry
<1> QED
  BY <1>8, <1>9, <1>10, <1>11, <1>12, <1>17, <1>18 DEF GotEntry, Handling, VictimOK

\* Every way through processDirectoryEntryAllocationReq keeps all blocks sound.
LEMMA GetEntry ==
  ASSUME CacheT, NEW D, NEW b \in Block, NEW v, Handling(D, b, v), Ready(D, b),
         HasEntry(D, b) \/ D.dir[b].sharers = {}, NEW D1, D1 = getDirectoryEntry(D, b, v)
  PROVE  GotEntry(D, D1, b, v)
<1>1. D1 = D => GotEntry(D, D1, b, v)
  BY DEF GotEntry
<1>2. CASE HasEntry(D, b)
  BY <1>1, <1>2 DEF getDirectoryEntry
<1>3. CASE ~HasEntry(D, b) /\ Cardinality(D.slots) < Ways
  <2>0. ~(Cardinality(D.slots) >= Ways)
    <3>1. Cardinality(D.slots) \in Nat /\ Ways \in Nat
      BY FS_CardinalityType, DirectoryAssumption DEF Handling, Alloc
    <3> QED
      BY <1>3, <3>1
  <2>1. D1 = WithEntry(D, b)
    BY <1>3, <2>0 DEF getDirectoryEntry, WithEntry
  <2> QED
    BY <1>3, <2>1, FreeWay
<1>4. CASE ~HasEntry(D, b) /\ ~(Cardinality(D.slots) < Ways) /\ Cardinality(D.slots) >= Ways /\ v \in D.slots
  <2> DEFINE n == Head(D.reqs[b]).node
             S == Stolen(D, b, v, n)
  <2>1. n \in Node
    BY ReadyFacts
  <2>2. D1 = processNullifyReq(S, v)
    BY <1>4 DEF getDirectoryEntry, Stolen
  <2> HIDE DEF n, S
  <2> QED
    BY <1>4, <2>1, <2>2, VictimTaken DEF S
<1>5. CASE ~HasEntry(D, b) /\ ~(Cardinality(D.slots) < Ways) /\ ~(Cardinality(D.slots) >= Ways /\ v \in D.slots)
  BY <1>1, <1>5 DEF getDirectoryEntry
<1> QED
  BY <1>2, <1>3, <1>4, <1>5

-----------------------------------------------------------------------------
(* The request at the head of the queue.                                   *)

\* It is to be processed.
Turn(D, b, v) ==
  /\ Handling(D, b, v) /\ Kept(D, b) /\ Fresh(DirView(D, b)) /\ D.reqs[b] # <<>>

\* A block without an entry has no copies, and its request no data yet.
MayMiss(D, b, data) ==
  HasEntry(D, b) \/ (D.dir[b].sharers = {} /\ data = "none" /\ Head(D.reqs[b]).data = "none")

\* It has been processed, and the next one may have its turn.
Going(D, D2, b, v) ==
  /\ Handling(D2, b, v) /\ Kept(D2, b)
  /\ ~D2.run => Stable(DirView(D2, b))
  /\ D2.run => /\ Turn(D2, b, v) /\ MayMiss(D2, b, "none")
               /\ Len(D2.reqs[b]) = Len(D.reqs[b]) - 1

\* The run flag is cleared.
Stopped(D) == [D EXCEPT !.run = FALSE]

\* The run flag is no part of what is kept.
LEMMA StopEffect ==
  ASSUME NEW D, NEW b, NEW v, Turn(D, b, v), NEW D0, D0 = Stopped(D)
  PROVE  Turn(D0, b, v) /\ ~D0.run /\ D0.reqs = D.reqs /\ D0.dir = D.dir /\ (HasEntry(D0, b) <=> HasEntry(D, b))
<1>1. D \in DirT
  BY DEF Turn, Handling
<1>2. /\ D0 \in DirT /\ ~D0.run /\ D0.reqs = D.reqs /\ D0.dir = D.dir /\ D0.slots = D.slots
      /\ D0.replaced = D.replaced /\ D0.inbox = D.inbox
  BY <1>1 DEF Stopped, DirT
<1>3. DirView(D0, b) = DirView(D, b) /\ Kept(D0, b)
  BY <1>2 DEF DirView, Kept, Turn
<1>4. OthersSettled(D0, b)
  BY <1>2 DEF OthersSettled, Settled, Kept, DirView, Turn, Handling
<1>5. Alloc(D0) /\ VictimOK(D0, b, v)
  BY <1>2 DEF Turn, Handling, Alloc, AllocOf, HasEntry, VictimOK
<1> QED
  BY <1>2, <1>3, <1>4, <1>5 DEF Turn, Handling, HasEntry

\* After a NULLIFY_REQ, the next request has its turn.
LEMMA NullifyGoesOn ==
  ASSUME CacheT, NEW D, NEW b \in Block, NEW v, Turn(D, b, v), ~D.run, DirView(D, b).r.type = "NULLIFY_REQ",
         NEW D2, D2 = processNullifyReq(D, b)
  PROVE  Going(D, D2, b, v)
<1>1. D \in DirT /\ Alloc(D) /\ VictimOK(D, b, v) /\ OthersSettled(D, b) /\ Kept(D, b) /\ D.reqs[b] # <<>>
  BY DEF Turn, Handling
<1>2. Nullified(D, D2, b)
  BY <1>1, NullifyEffect DEF Turn
<1>3. D2 \in DirT /\ OnlyBlock(D, D2, b) /\ D2.slots = D.slots /\ Kept(D2, b)
  BY <1>2 DEF Nullified
<1>4. OthersSettled(D2, b)
  BY <1>1, <1>3, OthersRemain
<1>5. \A x \in Block : x # b => D2.dir[x] = D.dir[x] /\ D2.reqs[x] = D.reqs[x]
  BY <1>3 DEF OnlyBlock
<1>6. VictimOK(D2, b, v)
  <2>1. v \in D2.slots => v \in Block
    BY <1>3 DEF DirT
  <2> QED
    BY <1>1, <1>3, <1>5, <2>1 DEF VictimOK
<1>7. HeadOf(D.reqs[b]).type = "NULLIFY_REQ"
  BY <1>1, DirViewType
<1>8. b \in D.replaced /\ b \notin D.slots
  BY <1>1, <1>7 DEF Alloc, AllocOf
<1>9. AllocOf(D2, b)
  <2>1. CASE D2.replaced = D.replaced /\ D2.reqs = D.reqs
    BY <1>7, <1>8, <2>1 DEF AllocOf, HasEntry
  <2>2. CASE D2.replaced = D.replaced \ {b} /\ D2.dir[b].sharers = {} /\ HeadOf(D2.reqs[b]).type # "NULLIFY_REQ"
    BY <2>2 DEF AllocOf
  <2> QED
    BY <1>2, <2>1, <2>2 DEF Nullified
<1>10. Alloc(D2)
  <2>1. D2.replaced = D.replaced \/ D2.replaced = D.replaced \ {b}
    BY <1>2 DEF Nullified
  <2>2. ASSUME NEW x \in Block, x # b PROVE AllocOf(D2, x)
    <3>1. AllocOf(D, x)
      BY <1>1 DEF Alloc
    <3>2. (x \in D2.replaced <=> x \in D.replaced) /\ (HasEntry(D2, x) <=> HasEntry(D, x))
      BY <1>3, <2>1, <2>2 DEF HasEntry
    <3> QED
      BY <1>5, <2>2, <3>1, <3>2 DEF AllocOf
  <2>3. D2.slots \cap D2.replaced = {}
    BY <1>1, <1>3, <2>1 DEF Alloc
  <2> QED
    BY <1>1, <1>3, <1>9, <2>2, <2>3 DEF Alloc
<1>11. Handling(D2, b, v)
  BY <1>3, <1>4, <1>6, <1>10 DEF Handling
<1>12. CASE ~D2.run /\ Stable(DirView(D2, b))
  BY <1>3, <1>11, <1>12 DEF Going
<1>13. CASE /\ D2.dir[b].sharers = {} /\ D2.reqs[b] = Tail(D.reqs[b]) /\ (D2.run <=> D2.reqs[b] # <<>>)
            /\ Fresh(DirView(D2, b)) /\ (D2.run => Head(D2.reqs[b]).data = "none")
  <2>1. Len(D2.reqs[b]) = Len(D.reqs[b]) - 1
    BY <1>1, <1>13, TailQueue DEF Kept
  <2>2. ASSUME ~D2.run PROVE Stable(DirView(D2, b))
    <3>1. Idles(DirView(D2, b))
      BY <1>13, <2>2 DEF Idles, DirView, View, HeadOf, NoReq
    <3> QED
      BY <1>13, <3>1, FreshStable
  <2> QED
    BY <1>3, <1>11, <1>13, <2>1, <2>2 DEF Going, Turn, MayMiss
<1> QED
  BY <1>2, <1>12, <1>13 DEF Nullified

\* After the request of a cache.
LEMMA RequestGoesOn ==
  ASSUME CacheT, NEW D, NEW b \in Block, NEW v, Turn(D, b, v), NEW data, MayMiss(D, b, data),
         NEW D1, GotEntry(D, D1, b, v), NEW D2, Processed(D1, D2, b, data)
  PROVE  Going(D, D2, b, v)
<1>1. Handling(D1, b, v) /\ Ready(D1, b) /\ D1.reqs[b] = D.reqs[b] /\ (HasEntry(D1, b) \/ D1 = D)
  BY DEF GotEntry
<1>2. Handled(D1, D2, b)
  BY DEF Processed
<1>3. /\ D2 \in DirT /\ OnlyBlock(D1, D2, b) /\ D2.slots = D1.slots /\ D2.replaced = D1.replaced
      /\ Kept(D2, b) /\ HeadOf(D2.reqs[b]).type # "NULLIFY_REQ"
  BY <1>2 DEF Handled
<1>4. HasEntry(D2, b) <=> HasEntry(D1, b)
  BY <1>3 DEF HasEntry
<1>5. ~HasEntry(D1, b) => ~D2.run /\ D2.reqs[b] # <<>>
  <2>1. SUFFICES ASSUME ~HasEntry(D1, b) PROVE Pends(D1, D2, b)
    BY DEF Pends
  <2>2. D1 = D /\ D.dir[b].sharers = {} /\ data = "none" /\ Head(D.reqs[b]).data = "none"
    BY <1>1, <2>1 DEF MayMiss
  <2> QED
    BY <2>2 DEF Processed
<1>6. \A x \in Block : x # b => D2.dir[x] = D1.dir[x] /\ D2.reqs[x] = D1.reqs[x]
  BY <1>3 DEF OnlyBlock
<1>7. OthersSettled(D2, b) /\ VictimOK(D2, b, v)
  <2>1. v \in D2.slots => v \in Block
    BY <1>3 DEF DirT
  <2>2. OthersSettled(D1, b) /\ VictimOK(D1, b, v)
    BY <1>1 DEF Handling
  <2>3. VictimOK(D2, b, v)
    BY <1>3, <1>6, <2>1, <2>2 DEF VictimOK
  <2> QED
    BY <1>3, <2>2, <2>3, OthersRemain
<1>8. Alloc(D2)
  <2>1. Alloc(D1)
    BY <1>1 DEF Handling
  <2>2. AllocOf(D2, b)
    <3>1. b \in D1.replaced <=> HeadOf(D1.reqs[b]).type = "NULLIFY_REQ"
      BY <2>1 DEF Alloc, AllocOf
    <3>2. HeadOf(D1.reqs[b]).type \in Requests
      BY <1>1, DirViewType DEF Ready
    <3>3. b \notin D2.replaced
      BY <1>3, <3>1, <3>2 DEF Requests
    <3> QED
      BY <1>3, <1>4, <1>5, <3>3 DEF AllocOf
  <2>3. ASSUME NEW x \in Block, x # b PROVE AllocOf(D2, x)
    <3>1. AllocOf(D1, x)
      BY <2>1 DEF Alloc
    <3>2. HasEntry(D2, x) <=> HasEntry(D1, x)
      BY <1>3 DEF HasEntry
    <3> QED
      BY <1>3, <1>6, <2>3, <3>1, <3>2 DEF AllocOf
  <2> QED
    BY <1>3, <2>1, <2>2, <2>3 DEF Alloc
<1>9. Handling(D2, b, v)
  BY <1>3, <1>7, <1>8 DEF Handling
<1>10. ~D2.run => Stable(DirView(D2, b))
  BY <1>2 DEF Handled
<1>11. ASSUME D2.run PROVE Turn(D2, b, v) /\ MayMiss(D2, b, "none") /\ Len(D2.reqs[b]) = Len(D.reqs[b]) - 1
  <2>1. /\ Fresh(DirView(D2, b)) /\ D2.reqs[b] # <<>> /\ D2.reqs[b] = Tail(D.reqs[b])
        /\ Head(D2.reqs[b]).data = "none"
    BY <1>1, <1>2, <1>11 DEF Handled
  <2>2. HasEntry(D2, b)
    BY <1>4, <1>5, <1>11
  <2>3. QueueInv(D.reqs[b]) /\ D.reqs[b] # <<>>
    BY DEF Turn, Kept
  <2>4. Len(D2.reqs[b]) = Len(D.reqs[b]) - 1
    BY <2>1, <2>3, TailQueue
  <2> QED
    BY <1>3, <1>9, <2>1, <2>2, <2>4 DEF Turn, MayMiss
<1> QED
  BY <1>3, <1>9, <1>10, <1>11 DEF Going

\* A request that is answered has been processed.
LEMMA AnswersProcessed ==
  ASSUME NEW D, NEW D2, NEW b, NEW data, Answers(D, D2, b, data)
  PROVE  Processed(D, D2, b, data)
  BY DEF Answers, Processed

\* The request at the head of the queue is processed, whatever its type.
LEMMA ProcessReq ==
  ASSUME CacheT, NEW D, NEW b \in Block, NEW v, Turn(D, b, v), NEW data \in Data \cup {"none"},
         MayMiss(D, b, data), NEW D2, D2 = processReq(D, b, v, data)
  PROVE  Going(D, D2, b, v)
<1> DEFINE D0 == Stopped(D)
           D1 == getDirectoryEntry(D0, b, v)
           t == Head(D.reqs[b]).type
<1>1. Turn(D0, b, v) /\ ~D0.run /\ D0.reqs = D.reqs /\ D0.dir = D.dir /\ (HasEntry(D0, b) <=> HasEntry(D, b))
  BY StopEffect
<1>2. D0 \in DirT
  BY <1>1 DEF Turn, Handling
<1>3. /\ t = "EX_REQ" => D2 = processExReq(D1, b, data)
      /\ t = "SH_REQ" => D2 = processShReq(D1, b, data)
      /\ t = "UPGRADE_REQ" => D2 = processUpgradeReq(D1, b, data)
      /\ t = "NULLIFY_REQ" => D2 = processNullifyReq(D0, b)
  BY DEF processReq, Stopped
<1>4. DirView(D0, b).r.type = t /\ t \in Requests \cup {"NULLIFY_REQ"}
  <2>1. DirView(D0, b).r = HeadOf(D.reqs[b])
    BY <1>1, <1>2, DirViewType
  <2>2. QueueInv(D.reqs[b]) /\ D.reqs[b] # <<>>
    BY DEF Turn, Kept
  <2> QED
    BY <2>1, <2>2, HeadFacts
<1>5. MayMiss(D0, b, data)
  BY <1>1 DEF MayMiss
<1> HIDE DEF D0, D1, t
<1>6. ASSUME NEW E, Going(D0, E, b, v) PROVE Going(D, E, b, v)
  BY <1>1, <1>6 DEF Going
<1>7. CASE t = "NULLIFY_REQ"
  BY <1>1, <1>3, <1>4, <1>6, <1>7, NullifyGoesOn
<1>8. CASE t \in Requests
  <2>1. Ready(D0, b) /\ Handling(D0, b, v)
    BY <1>1, <1>2, <1>4, <1>8 DEF Ready, Turn
  <2>2. HasEntry(D0, b) \/ D0.dir[b].sharers = {}
    BY <1>5 DEF MayMiss
  <2>3. GotEntry(D0, D1, b, v)
    BY <2>1, <2>2, GetEntry DEF D1
  <2>4. Ready(D1, b) /\ D1.reqs[b] = D0.reqs[b]
    BY <2>3 DEF GotEntry
  <2>5. DirView(D1, b).r.type = t
    <3>1. D1 \in DirT
      BY <2>4 DEF Ready
    <3> QED
      BY <1>2, <1>4, <2>4, <3>1, DirViewType
  <2>6. Processed(D1, D2, b, data)
    <3>1. CASE t = "EX_REQ"
      <4>1. Answers(D1, D2, b, data)
        BY <1>3, <2>4, <2>5, <3>1, ExRequest
      <4> QED
        BY <4>1, AnswersProcessed
    <3>2. CASE t = "SH_REQ"
      <4>1. Answers(D1, D2, b, data)
        BY <1>3, <2>4, <2>5, <3>2, ShRequest
      <4> QED
        BY <4>1, AnswersProcessed
    <3>3. CASE t = "UPGRADE_REQ"
      BY <1>3, <2>4, <2>5, <3>3, UpgradeRequest
    <3> QED
      BY <1>8, <3>1, <3>2, <3>3 DEF Requests
  <2>7. Going(D0, D2, b, v)
    BY <1>1, <1>5, <2>3, <2>6, RequestGoesOn
  <2> QED
    BY <1>6, <2>7
<1> QED
  BY <1>4, <1>7, <1>8

-----------------------------------------------------------------------------
(* The loop over the queue.                                                *)

\* The loop's invariant.
Running(D, b, v) ==
  /\ Handling(D, b, v) /\ Kept(D, b)
  /\ ~D.run => Stable(DirView(D, b))
  /\ D.run => Turn(D, b, v) /\ MayMiss(D, b, "none")

\* What the loop ends with.
Done(D, b, v) == Handling(D, b, v) /\ Settled(D, b) /\ ~D.run

\* One round of the loop, and the rounds up to n.
Round(E, b, v) == IF E.run THEN processReq(E, b, v, "none") ELSE E

Rounds(D, b, v, n, f) == f = [k \in 0..n |-> IF k = 0 THEN D ELSE Round(f[k - 1], b, v)]

\* The fold of RunQueue is a function.
LEMMA RoundsExist ==
  ASSUME NEW D, NEW b, NEW v, NEW n \in Nat
  PROVE  \E f : Rounds(D, b, v, n, f)
<1> DEFINE Bad == {k \in Nat : ~ \E f : Rounds(D, b, v, k, f)}
<1>1. SUFFICES ASSUME Bad # {} PROVE FALSE
  OBVIOUS
<1>2. PICK k \in Bad : \A j \in Bad : k <= j
  BY <1>1, LeastElement
<1>3. k \in Nat /\ ~ \E f : Rounds(D, b, v, k, f)
  BY <1>2
<1>4. CASE k = 0
  <2>1. Rounds(D, b, v, 0, [j \in 0..0 |-> D])
    BY DEF Rounds
  <2> QED
    BY <1>3, <1>4, <2>1
<1>5. CASE k > 0
  <2>1. k - 1 \in Nat /\ k - 1 \notin Bad
    BY <1>2, <1>3, <1>5
  <2>2. PICK g : Rounds(D, b, v, k - 1, g)
    BY <2>1
  <2> DEFINE f == [j \in 0..k |-> IF j < k THEN g[j] ELSE Round(g[k - 1], b, v)]
  <2>3. ASSUME NEW j \in 0..k PROVE f[j] = IF j = 0 THEN D ELSE Round(f[j - 1], b, v)
    <3>1. CASE j < k
      <4>1. j \in 0..(k - 1) /\ f[j] = g[j]
        BY <1>3, <3>1
      <4>2. g[j] = IF j = 0 THEN D ELSE Round(g[j - 1], b, v)
        <5> HIDE DEF f
        <5> QED
          BY <2>2, <4>1 DEF Rounds
      <4>3. j # 0 => f[j - 1] = g[j - 1]
        BY <1>3, <3>1
      <4> HIDE DEF f
      <4> QED
        BY <4>1, <4>2, <4>3
    <3>2. CASE j = k
      <4>1. f[j] = Round(g[k - 1], b, v) /\ f[j - 1] = g[k - 1] /\ j # 0
        BY <1>3, <1>5, <3>2
      <4> HIDE DEF f
      <4> QED
        BY <3>2, <4>1
    <3> QED
      BY <1>3, <3>1, <3>2
  <2>4. f = [j \in 0..k |-> f[j]]
    OBVIOUS
  <2> HIDE DEF f
  <2>5. Rounds(D, b, v, k, f)
    BY <2>3, <2>4 DEF Rounds
  <2> QED
    BY <1>3, <2>5
<1> QED
  BY <1>3, <1>4, <1>5

\* The loop's invariant: every round but the last takes one request from the queue.
LEMMA RoundsRun ==
  ASSUME CacheT, NEW D, NEW b \in Block, NEW v, Running(D, b, v), NEW n, n = Len(D.reqs[b]), n \in Nat,
         NEW f, Rounds(D, b, v, n, f), NEW k \in 0..n
  PROVE  Running(f[k], b, v) /\ (f[k].run => k + Len(f[k].reqs[b]) <= n)
<1> DEFINE OK(j) == Running(f[j], b, v) /\ (f[j].run => j + Len(f[j].reqs[b]) <= n)
           Bad == {j \in 0..n : ~OK(j)}
<1>1. SUFFICES ASSUME Bad # {} PROVE FALSE
  OBVIOUS
<1>2. PICK j \in Bad : \A i \in Bad : j <= i
  <2>1. Bad \subseteq Nat
    OBVIOUS
  <2> QED
    BY <1>1, <2>1, LeastElement
<1>3. j \in 0..n /\ ~OK(j)
  BY <1>2
<1>4. f[j] = IF j = 0 THEN D ELSE Round(f[j - 1], b, v)
  BY <1>3 DEF Rounds
<1>5. CASE j = 0
  <2>1. f[0] = D
    BY <1>4, <1>5
  <2>2. OK(0)
    BY <2>1
  <2> QED
    BY <1>3, <1>5, <2>2
<1>6. CASE j # 0
  <2>1. j - 1 \in 0..n /\ j - 1 \notin Bad
    BY <1>2, <1>3, <1>6
  <2>2. OK(j - 1)
    BY <2>1
  <2> DEFINE E == f[j - 1]
  <2>3. Running(E, b, v) /\ (E.run => (j - 1) + Len(E.reqs[b]) <= n)
    BY <2>2
  <2>4. f[j] = Round(E, b, v)
    BY <1>4, <1>6
  <2> HIDE DEF E, OK, Bad
  <2>5. CASE ~E.run
    <3>1. f[j] = E
      BY <2>4, <2>5 DEF Round
    <3>2. OK(j)
      BY <2>3, <2>5, <3>1 DEF OK
    <3> QED
      BY <1>3, <3>2
  <2>6. CASE E.run
    <3>1. f[j] = processReq(E, b, v, "none")
      BY <2>4, <2>6 DEF Round
    <3>2. Turn(E, b, v) /\ MayMiss(E, b, "none")
      BY <2>3, <2>6 DEF Running
    <3>3. Going(E, f[j], b, v)
      BY <3>1, <3>2, ProcessReq
    <3>4. Running(f[j], b, v) /\ (f[j].run => Len(f[j].reqs[b]) = Len(E.reqs[b]) - 1)
      BY <3>3 DEF Going, Running
    <3>5. Len(E.reqs[b]) \in Nat
      BY <3>2 DEF Turn, Handling, DirT
    <3>6. ASSUME f[j].run PROVE j + Len(f[j].reqs[b]) <= n
      <4> DEFINE l == Len(E.reqs[b])
                 l2 == Len(f[j].reqs[b])
      <4>1. l2 = l - 1 /\ (j - 1) + l <= n
        BY <2>3, <2>6, <3>4, <3>6
      <4>2. l \in Nat /\ j \in Nat
        BY <1>3, <3>5
      <4> HIDE DEF l, l2
      <4>3. j + l2 <= n
        BY <4>1, <4>2
      <4> QED
        BY <4>3 DEF l2
    <3>7. OK(j)
      BY <3>4, <3>6 DEF OK
    <3> QED
      BY <1>3, <3>7
  <2> QED
    BY <2>5, <2>6
<1> QED
  BY <1>5, <1>6

\* The loop over the queue ends with every block settled.
LEMMA QueueRuns ==
  ASSUME CacheT, NEW D, NEW b \in Block, NEW v, Running(D, b, v), NEW D2, D2 = RunQueue(D, b, v)
  PROVE  Done(D2, b, v)
<1> DEFINE n == Len(D.reqs[b])
<1>1. n \in Nat
  BY DEF Running, Handling, DirT
<1>2. PICK f : Rounds(D, b, v, n, f) /\ D2 = f[n]
  <2>1. \E f : Rounds(D, b, v, n, f)
    BY <1>1, RoundsExist
  <2>2. D2 = (CHOOSE f : Rounds(D, b, v, n, f))[n]
    BY DEF RunQueue, Rounds, Round
  <2> QED
    BY <2>1, <2>2
<1>3. Running(D2, b, v) /\ (D2.run => n + Len(D2.reqs[b]) <= n)
  <2>1. n \in 0..n
    BY <1>1
  <2> HIDE DEF n
  <2> QED
    BY <1>1, <1>2, <2>1, RoundsRun DEF n
<1>4. ~D2.run
  <2>1. SUFFICES ASSUME D2.run PROVE FALSE
    OBVIOUS
  <2>2. D2.reqs[b] \in Seq(Req) /\ D2.reqs[b] # <<>>
    BY <1>3, <2>1 DEF Running, Turn, Handling, DirT
  <2>3. Len(D2.reqs[b]) \in Nat \ {0}
    BY <2>2
  <2> DEFINE l == Len(D2.reqs[b])
  <2>4. n + l <= n
    BY <1>3, <2>1
  <2>5. l \in Nat \ {0}
    BY <2>3
  <2> HIDE DEF n, l
  <2> QED
    BY <1>1, <2>4, <2>5
<1> QED
  BY <1>3, <1>4 DEF Done, Running, Settled

-----------------------------------------------------------------------------
(* 4. The directory: handlers of messages                                  *)

\* The directory between two messages.
Between(D) ==
  /\ D \in DirT /\ Alloc(D) /\ EntriesFound(D) /\ ~D.run
  /\ \A x \in Block : Settled(D, x)

\* P is D without the next message of node k.
Takes1(D, P, k) ==
  /\ P \in DirT /\ P.dir = D.dir /\ P.reqs = D.reqs /\ P.slots = D.slots /\ P.replaced = D.replaced
  /\ P.run = D.run /\ P.inbox = [D.inbox EXCEPT ![k] = Tail(@)]

\* A message that brings no line in changes no line.
LEMMA SameTakes ==
  ASSUME NEW C, NEW k, NEW m, NEW b, m.block # b \/ m.type \notin Grants
  PROVE  Takes(C, C, k, m, b)
  BY DEF Takes

\* The types of the directory state's parts.
LEMMA BoxesOf ==
  ASSUME NEW D \in DirT
  PROVE  D.inbox \in Boxes /\ \A b \in Block : D.dir[b] \in EntryT /\ D.reqs[b] \in Seq(Req)
  BY DEF DirT

\* Other blocks than that of the message.
LEMMA TakeOther ==
  ASSUME NEW D \in DirT, NEW k \in Node, D.inbox[k] # <<>>, NEW P, Takes1(D, P, k),
         NEW x \in Block, x # Head(D.inbox[k]).block, Settled(D, x)
  PROVE  Settled(P, x)
<1> DEFINE A == DirView(D, x)
           A2 == DirView(P, x)
           m == Head(D.inbox[k])
           C == Caches(x)
<1>1. D.inbox \in Boxes
  BY BoxesOf
<1>2. Ordered(D.inbox, x, C) /\ Stable(A) /\ QueueInv(D.reqs[x]) /\ ForwarderKnown(D.dir[x], protocol)
  BY DEF Settled, Kept
<1>3. Takes(C, C, k, m, x)
  BY SameTakes
<1>4. /\ A = View(D.dir[x], D.reqs[x], D.inbox, x, C)
      /\ A2 = View(D.dir[x], D.reqs[x], P.inbox, x, C)
      /\ P.inbox = [D.inbox EXCEPT ![k] = Tail(@)]
  BY DEF DirView, Takes1
<1> HIDE DEF A, A2, m, C
<1>5. /\ Ordered(P.inbox, x, C)
      /\ TakenReply(A, A2, k, m, x) /\ TakenSnoop(A, A2, k, m, x, C.ln[k])
      /\ TakenReturn(A, A2, k, m, x) /\ TakenRead(A, A2, k, m, x)
  BY <1>1, <1>2, <1>3, <1>4, PopView DEF m, TakenAll, Took
<1>6. m.block # x
  BY DEF m
<1>7. PerNode(A) /\ PerNode(A2)
  BY <1>4, ViewPointwise
<1>8. A2.s = A.s
  <2>1. \A n \in Node : A2.s[n] = A.s[n]
    BY <1>5, <1>6 DEF TakenReply
  <2> QED
    BY <1>7, <2>1, PointwiseEqual
<1>9. A2.l = A.l
  <2>1. \A n \in Node : A2.l[n] = A.l[n]
    BY <1>5, <1>6 DEF TakenSnoop
  <2> QED
    BY <1>7, <2>1, PointwiseEqual
<1>10. A2.f = A.f
  <2>1. \A n \in Node : A2.f[n] = A.f[n]
    BY <1>5, <1>6 DEF TakenReturn
  <2> QED
    BY <1>7, <2>1, PointwiseEqual
<1>11. A2.rd = A.rd
  <2>1. A2.rd <=> A.rd
    BY <1>5, <1>6 DEF TakenRead
  <2> QED
    BY <1>7, <2>1, PointwiseEqual
<1>12. A2 = A
  BY <1>4, <1>8, <1>9, <1>10, <1>11 DEF View
<1> QED
  BY <1>2, <1>5, <1>12 DEF Settled, Kept, Takes1, A, A2, C

\* The block of a message to the home node, with its new entry and requests.
LEMMA TakeReturn ==
  ASSUME NEW D \in DirT, D.inbox[Home] # <<>>, NEW b \in Block, Settled(D, b),
         NEW m, m = Head(D.inbox[Home]), m.block = b, m.type \in Returns, NEW n \in Node, n = m.from,
         NEW P, P.inbox = [D.inbox EXCEPT ![Home] = Tail(@)],
         NEW A, A = DirView(D, b), NEW A2, A2 = DirView(P, b)
  PROVE  /\ Arrived(A, A2, n, m.type) /\ Ordered(P.inbox, b, Caches(b)) /\ Stable(A)
         /\ m.type \in {"EX_REQ", "SH_REQ"} => ~Dropped(A, n)
         /\ m.type \in Drops => "WB_REP" \notin A.f[n]
<1> DEFINE C == Caches(b)
<1>1. D.inbox \in Boxes /\ Home \in Node
  BY BoxesOf, DirectoryAssumption
<1>2. Ordered(D.inbox, b, C) /\ Stable(A)
  BY DEF Settled, Kept
<1>3. m.type \notin Snoops /\ m.type \notin Replies /\ m.type \notin Reads /\ m.type \notin Grants
  BY ReturnKinds
<1>4. Takes(C, C, Home, m, b)
  BY <1>3, SameTakes
<1>5. A = View(D.dir[b], D.reqs[b], D.inbox, b, C) /\ A2 = View(P.dir[b], P.reqs[b], P.inbox, b, C)
  BY DEF DirView
<1> HIDE DEF C
<1>6. /\ Ordered(P.inbox, b, C)
      /\ TakenReply(A, A2, Home, m, b) /\ TakenSnoop(A, A2, Home, m, b, C.ln[Home])
      /\ TakenReturn(A, A2, Home, m, b) /\ TakenRead(A, A2, Home, m, b)
  BY <1>1, <1>2, <1>4, <1>5, PopView DEF TakenAll, Took
<1>7. PerNode(A) /\ PerNode(A2)
  BY <1>5, ViewPointwise
<1>8. A2.s = A.s
  <2>1. \A k \in Node : A2.s[k] = A.s[k]
    BY <1>3, <1>6 DEF TakenReply
  <2> QED
    BY <1>7, <2>1, PointwiseEqual
<1>9. A2.l = A.l
  <2>1. \A k \in Node : A2.l[k] = A.l[k]
    BY <1>3, <1>6 DEF TakenSnoop
  <2> QED
    BY <1>7, <2>1, PointwiseEqual
<1>10. A2.rd = A.rd
  <2>1. A2.rd <=> A.rd
    BY <1>3, <1>6 DEF TakenRead
  <2> QED
    BY <1>7, <2>1, PointwiseEqual
<1>11. /\ m.type \in A.f[n] /\ A2.f[n] = A.f[n] \ {m.type}
       /\ m.type \in {"EX_REQ", "SH_REQ"} => ~Dropped(A, n)
       /\ m.type \in Drops => "WB_REP" \notin A.f[n]
  BY <1>6 DEF TakenReturn
<1>12. \A k \in Node : k # n => A2.f[k] = A.f[k]
  BY <1>6 DEF TakenReturn
<1>13. A2.ln = A.ln /\ A2.tk = A.tk /\ A2.hx = A.hx /\ A2.wk = A.wk
  BY <1>5, ViewFields
<1> QED
  BY <1>2, <1>6, <1>8, <1>9, <1>10, <1>11, <1>12, <1>13 DEF Arrived, C

\* Without the message, the handler of b can start.
LEMMA TakeHandling ==
  ASSUME NEW D, Between(D), NEW k \in Node, D.inbox[k] # <<>>, NEW P, Takes1(D, P, k),
         NEW b, b = Head(D.inbox[k]).block, NEW v, VictimOK(D, b, v)
  PROVE  Handling(P, b, v)
<1>1. D \in DirT /\ Alloc(D) /\ P \in DirT /\ \A x \in Block : Settled(D, x)
  BY DEF Between, Takes1
<1>2. OthersSettled(P, b)
  BY <1>1, TakeOther DEF OthersSettled
<1>3. Alloc(P) /\ VictimOK(P, b, v)
  BY <1>1 DEF Alloc, AllocOf, HasEntry, VictimOK, Takes1
<1> QED
  BY <1>1, <1>2, <1>3 DEF Handling

-----------------------------------------------------------------------------
\* After a request has been processed, the loop can go on.
LEMMA GoingRuns ==
  ASSUME NEW D, NEW D2, NEW b, NEW v, Going(D, D2, b, v)
  PROVE  Running(D2, b, v)
  BY DEF Going, Running

\* Processing a request, and those that can follow it, ends with every block settled.
LEMMA ProcessDone ==
  ASSUME CacheT, NEW D, NEW b \in Block, NEW v, Turn(D, b, v), NEW data \in Data \cup {"none"},
         MayMiss(D, b, data), NEW D2, D2 = Process(D, b, v, data)
  PROVE  Done(D2, b, v)
<1> DEFINE D1 == processReq(D, b, v, data)
<1>1. D2 = RunQueue(D1, b, v)
  BY DEF Process
<1> HIDE DEF D1
<1>2. Running(D1, b, v)
  BY ProcessReq, GoingRuns DEF D1
<1> QED
  BY <1>1, <1>2, QueueRuns

\* A handler has come to D1 and ends with D2: a request is processed, or nothing is left to do.
Ends(D1, D2, b, v, data) ==
  \/ D2 = D1 /\ Done(D1, b, v)
  \/ D2 = Process(D1, b, v, data) /\ Turn(D1, b, v) /\ MayMiss(D1, b, data)

\* Either way every block is settled.
LEMMA EndsDone ==
  ASSUME CacheT, NEW b \in Block, NEW v, NEW data \in Data \cup {"none"}, NEW D1, NEW D2, Ends(D1, D2, b, v, data)
  PROVE  Done(D2, b, v)
BY ProcessDone DEF Ends

\* A step of the handler that changes the entry or the queue of b only.
LEMMA SameHandling ==
  ASSUME NEW D, NEW b \in Block, NEW v, Handling(D, b, v), NEW D2 \in DirT, OnlyBlock(D, D2, b),
         D2.slots = D.slots, D2.replaced = D.replaced,
         (HeadOf(D2.reqs[b]).type = "NULLIFY_REQ") <=> (HeadOf(D.reqs[b]).type = "NULLIFY_REQ"),
         D2.dir[b].sharers # {} => HasEntry(D, b) \/ D2.reqs[b] # <<>>
  PROVE  Handling(D2, b, v)
<1>1. Alloc(D) /\ OthersSettled(D, b) /\ VictimOK(D, b, v)
  BY DEF Handling
<1>2. \A x \in Block : x # b => D2.dir[x] = D.dir[x] /\ D2.reqs[x] = D.reqs[x]
  BY DEF OnlyBlock
<1>3. VictimOK(D2, b, v)
  <2>1. v \in D2.slots => v \in Block
    BY DEF DirT
  <2> QED
    BY <1>1, <1>2, <2>1 DEF VictimOK
<1>4. Alloc(D2)
  <2>1. \A x : HasEntry(D2, x) <=> HasEntry(D, x)
    BY DEF HasEntry
  <2>2. AllocOf(D2, b)
    <3>1. AllocOf(D, b)
      BY <1>1 DEF Alloc
    <3> QED
      BY <2>1, <3>1 DEF AllocOf
  <2>3. ASSUME NEW x \in Block, x # b PROVE AllocOf(D2, x)
    <3>1. AllocOf(D, x)
      BY <1>1 DEF Alloc
    <3> QED
      BY <1>2, <2>1, <2>3, <3>1 DEF AllocOf
  <2> QED
    BY <1>1, <2>2, <2>3 DEF Alloc
<1>5. OthersSettled(D2, b)
  BY <1>1, OthersRemain
<1> QED
  BY <1>3, <1>4, <1>5 DEF Handling

-----------------------------------------------------------------------------
(* Requests                                                                *)

\* A request of n is put into the queue.
Queued(D, b, t, n) == [D EXCEPT !.reqs[b] = Append(@, ShmemReq(t, n))]

\* The same, as a relation.
Queues(D, D2, b, t, n) ==
  /\ D2 \in DirT /\ D2.inbox = D.inbox /\ D2.dir = D.dir /\ D2.run = D.run
  /\ D2.slots = D.slots /\ D2.replaced = D.replaced
  /\ D2.reqs[b] = Append(D.reqs[b], ShmemReq(t, n)) /\ OnlyBlock(D, D2, b)

\* What enqueueing a request does to the directory's state.
LEMMA QueueEffect ==
  ASSUME NEW D \in DirT, NEW b \in Block, NEW t \in Requests, NEW n \in Node, NEW D2, D2 = Queued(D, b, t, n)
  PROVE  Queues(D, D2, b, t, n)
<1> DEFINE r == ShmemReq(t, n)
           q == Append(D.reqs[b], r)
<1>1. D.reqs \in [Block -> Seq(Req)] /\ D.reqs[b] \in Seq(Req)
  BY DEF DirT
<1>2. r \in Req
  BY DEF ShmemReq, Req, Requests
<1> HIDE DEF r
<1>3. q \in Seq(Req)
  BY <1>1, <1>2
<1>4. D2 = [D EXCEPT !.reqs = [D.reqs EXCEPT ![b] = q]]
  BY DEF Queued, r
<1> HIDE DEF q
<1>5. /\ D2 \in DirT /\ D2.inbox = D.inbox /\ D2.dir = D.dir /\ D2.run = D.run
      /\ D2.slots = D.slots /\ D2.replaced = D.replaced /\ D2.reqs[b] = q
      /\ \A x \in Block : x # b => D2.reqs[x] = D.reqs[x]
  BY <1>1, <1>3, <1>4, ZenonT(60) DEF DirT
<1>6. OnlyBlock(D, D2, b)
  BY <1>5, SameBoxOnlyBlock
<1> QED
  BY <1>5, <1>6 DEF q, r, Queues

\* q2 is the queue with the request, A2 the view of its block.
Enqueued(q, q2, A2) ==
  /\ QueueInv(q2) /\ q2 # <<>>
  /\ q = <<>> => Fresh(A2) /\ Len(q2) = 1 /\ Head(q2).data = "none"
  /\ q # <<>> => Stable(A2) /\ Len(q2) # 1
  /\ (HeadOf(q2).type = "NULLIFY_REQ") <=> (HeadOf(q).type = "NULLIFY_REQ")

\* A request joins a queue: it is first, and may be processed, or it waits.
LEMMA RequestQueued ==
  ASSUME NEW q, QueueInv(q), NEW t \in Requests, NEW n \in Node, NEW q2, q2 = Append(q, ShmemReq(t, n)),
         NEW A, NEW A2 \in AbsT, Stable(A), Arrived(A, A2, n, t), A2.e = A.e,
         A.r = HeadOf(q), A2.r = HeadOf(q2),
         \A k \in Node : A.a[k] = AskedIn(q, k) /\ A2.a[k] = AskedIn(q2, k),
         t # "UPGRADE_REQ" => ~Dropped(A, n)
  PROVE  Enqueued(q, q2, A2)
<1>1. AskedIn(q, n) = {}
  <2>1. CoreN(A, n)
    BY DEF Stable, CoreInv
  <2>2. t \in A.f[n]
    BY DEF Arrived
  <2>3. A.a[n] = {}
    BY <2>1, <2>2 DEF CoreN, Token, Requesting, Requests
  <2> QED
    BY <2>3
<1>a. Appended(q, q2, t, n)
  BY <1>1, AppendQueue
<1>2. QueueInv(q2) /\ Len(q2) = Len(q) + 1
  BY <1>a DEF Appended
<1>3. q # <<>> => HeadOf(q2) = HeadOf(q) /\ Len(q2) # 1
  BY <1>a DEF Appended
<1>4. q = <<>> => HeadOf(q2) = [type |-> t, node |-> n, wait |-> FALSE, forwardingFrom |-> NoNode]
                  /\ Len(q2) = 1 /\ Head(q2).data = "none"
  BY <1>a DEF Appended
<1>5. \A k \in Node : AskedIn(q2, k) = IF k = n THEN {t} ELSE AskedIn(q, k)
  BY <1>a DEF Appended
<1>6. q2 # <<>>
  <2>1. Len(q) \in Nat
    BY DEF QueueInv
  <2>2. Len(q2) # 0
    BY <1>2, <2>1
  <2> QED
    BY <2>2
<1>7. Idles(A) <=> q = <<>>
  BY HeadFacts DEF Idles
<1>8. \A k \in Node : A2.a[k] = IF k = n THEN {t} ELSE A.a[k]
  BY <1>5
<1>9. ~Idles(A) => A2.r = A.r
  BY <1>3, <1>7
<1>10. Idles(A) => A2.r.type = t /\ A2.r.node = n /\ ~A2.r.wait /\ A2.r.forwardingFrom = NoNode
  BY <1>4, <1>7
<1>11. (Idles(A) => Fresh(A2)) /\ (~Idles(A) => Stable(A2))
  BY <1>8, <1>9, <1>10, RequestArrives
<1>12. (HeadOf(q2).type = "NULLIFY_REQ") <=> (HeadOf(q).type = "NULLIFY_REQ")
  BY <1>3, <1>4 DEF HeadOf, NoReq, Requests
<1> QED
  BY <1>2, <1>3, <1>4, <1>6, <1>7, <1>11, <1>12 DEF Enqueued

\* The next message of the home node, and what is left without it.
Message1(D, P, m, b, n, t) ==
  /\ D.inbox[Home] # <<>> /\ m = Head(D.inbox[Home]) /\ b = m.block /\ n = m.from /\ t = m.type
  /\ b \in Block /\ n \in Node /\ Takes1(D, P, Home)

\* The view of its block afterwards.
Came(D, D1, A, A1, b, n, t) ==
  /\ Arrived(A, A1, n, t) /\ Ordered(D1.inbox, b, Caches(b)) /\ Stable(A)
  /\ t \in {"EX_REQ", "SH_REQ"} => ~Dropped(A, n)
  /\ t \in Drops => "WB_REP" \notin A.f[n]
  /\ A1 \in AbsT /\ A1.e = D1.dir[b] /\ A.e = D.dir[b] /\ A.r = HeadOf(D.reqs[b]) /\ A1.r = HeadOf(D1.reqs[b])
  /\ \A k \in Node : A.a[k] = AskedIn(D.reqs[b], k) /\ A1.a[k] = AskedIn(D1.reqs[b], k)
  /\ QueueInv(D.reqs[b]) /\ ForwarderKnown(D.dir[b], protocol)
  /\ D1.reqs[b] = D.reqs[b] => A1.a = A.a /\ A1.r = A.r

\* What the arrival of a cache's message does to the view of its block.
LEMMA MessageCame ==
  ASSUME CacheT, NEW D, Between(D), NEW P, NEW m, NEW b, NEW n, NEW t, Message1(D, P, m, b, n, t), t \in Returns,
         NEW D1 \in DirT, D1.inbox = P.inbox, NEW A, A = DirView(D, b), NEW A1, A1 = DirView(D1, b)
  PROVE  Came(D, D1, A, A1, b, n, t)
<1>1. /\ D.inbox[Home] # <<>> /\ m = Head(D.inbox[Home]) /\ m.block = b /\ m.from = n /\ t = m.type
      /\ b \in Block /\ n \in Node
  BY DEF Message1
<1>2. D \in DirT /\ Settled(D, b)
  BY <1>1 DEF Between
<1>3. D1.inbox = [D.inbox EXCEPT ![Home] = Tail(@)]
  BY DEF Message1, Takes1
<1>4. /\ Arrived(A, A1, n, t) /\ Ordered(D1.inbox, b, Caches(b)) /\ Stable(A)
      /\ t \in {"EX_REQ", "SH_REQ"} => ~Dropped(A, n)
      /\ t \in Drops => "WB_REP" \notin A.f[n]
  BY <1>1, <1>2, <1>3, TakeReturn, ZenonT(60)
<1>5. /\ A1 \in AbsT /\ A1.e = D1.dir[b] /\ A.e = D.dir[b] /\ A.r = HeadOf(D.reqs[b])
      /\ A1.r = HeadOf(D1.reqs[b])
  BY <1>1, <1>2, DirViewType
<1>6. \A k \in Node : A.a[k] = AskedIn(D.reqs[b], k) /\ A1.a[k] = AskedIn(D1.reqs[b], k)
  BY DEF DirView, View
<1>7. QueueInv(D.reqs[b]) /\ ForwarderKnown(D.dir[b], protocol)
  BY <1>2 DEF Settled, Kept
<1>8. D1.reqs[b] = D.reqs[b] => A1.a = A.a /\ A1.r = A.r
  BY DEF DirView, View
<1> QED
  BY <1>4, <1>5, <1>6, <1>7, <1>8 DEF Came

\* The handler of a message can start.
LEMMA StartHandling ==
  ASSUME NEW D, Between(D), NEW P, NEW m, NEW b, NEW n, NEW t, Message1(D, P, m, b, n, t),
         NEW v, VictimOK(D, b, v)
  PROVE  /\ Handling(P, b, v) /\ P \in DirT /\ ~P.run /\ P.reqs = D.reqs /\ P.dir = D.dir
         /\ (HasEntry(P, b) <=> HasEntry(D, b)) /\ b \in Block /\ n \in Node
<1>1. Home \in Node /\ D.inbox[Home] # <<>> /\ b = Head(D.inbox[Home]).block /\ Takes1(D, P, Home)
  BY DirectoryAssumption DEF Message1
<1>2. Handling(P, b, v)
  BY <1>1, TakeHandling
<1> QED
  BY <1>1, <1>2 DEF Takes1, Between, HasEntry, Message1

\* The handler of EX_REQ, SH_REQ and UPGRADE_REQ puts the request into the queue.
LEMMA RequestEnds ==
  ASSUME CacheT, NEW D, Between(D), NEW P, NEW m, NEW b, NEW n, NEW t, Message1(D, P, m, b, n, t),
         t \in Requests, NEW v, VictimOK(D, b, v), NEW D1, D1 = Queued(P, b, t, n),
         NEW D2, D2 = handleReq(P, b, n, t, v)
  PROVE  Ends(D1, D2, b, v, "none")
<1> DEFINE A == DirView(D, b)
           A1 == DirView(D1, b)
           q == D.reqs[b]
           q1 == D1.reqs[b]
<1>1. /\ Handling(P, b, v) /\ P \in DirT /\ ~P.run /\ P.reqs = D.reqs /\ P.dir = D.dir
      /\ (HasEntry(P, b) <=> HasEntry(D, b)) /\ b \in Block /\ n \in Node
  BY StartHandling
<1>2. Queues(P, D1, b, t, n)
  BY <1>1, QueueEffect
<1>3. D2 = IF Len(q1) = 1 THEN Process(D1, b, v, "none") ELSE D1
  BY DEF handleReq, Queued
<1>4. /\ D1 \in DirT /\ D1.inbox = P.inbox /\ D1.dir = P.dir /\ D1.run = P.run
      /\ D1.slots = P.slots /\ D1.replaced = P.replaced /\ OnlyBlock(P, D1, b)
      /\ q1 = Append(q, ShmemReq(t, n))
  BY <1>1, <1>2 DEF Queues
<1>5. Came(D, D1, A, A1, b, n, t)
  BY <1>4, MessageCame DEF Returns
<1> HIDE DEF A, A1, q, q1
<1>6. Enqueued(q, q1, A1)
  <2>1. /\ Arrived(A, A1, n, t) /\ Stable(A) /\ A1 \in AbsT /\ A1.e = A.e /\ A.r = HeadOf(q)
        /\ A1.r = HeadOf(q1) /\ QueueInv(q)
    BY <1>1, <1>4, <1>5 DEF Came, q, q1
  <2>2. t # "UPGRADE_REQ" => ~Dropped(A, n)
    BY <1>5 DEF Came, Requests
  <2>3. \A k \in Node : A.a[k] = AskedIn(q, k) /\ A1.a[k] = AskedIn(q1, k)
    BY <1>5 DEF Came, q, q1
  <2> QED
    BY <1>1, <1>4, <2>1, <2>2, <2>3, RequestQueued
<1>7. Kept(D1, b)
  <2>1. Ordered(D1.inbox, b, Caches(b)) /\ ForwarderKnown(D.dir[b], protocol)
    BY <1>5 DEF Came
  <2>2. QueueInv(q1)
    BY <1>6 DEF Enqueued
  <2> QED
    BY <1>1, <1>4, <2>1, <2>2 DEF Kept, q1
<1>8. Handling(D1, b, v)
  <2>1. (HeadOf(D1.reqs[b]).type = "NULLIFY_REQ") <=> (HeadOf(P.reqs[b]).type = "NULLIFY_REQ")
    BY <1>1, <1>6 DEF Enqueued, q, q1
  <2>2. D1.reqs[b] # <<>>
    BY <1>6 DEF Enqueued, q1
  <2> QED
    BY <1>1, <1>4, <2>1, <2>2, SameHandling
<1>9. CASE q = <<>>
  <2>1. Fresh(A1) /\ Len(q1) = 1 /\ Head(q1).data = "none" /\ q1 # <<>>
    BY <1>6, <1>9 DEF Enqueued
  <2>2. Turn(D1, b, v)
    BY <1>7, <1>8, <2>1 DEF Turn, A1, q1
  <2>3. MayMiss(D1, b, "none")
    <3>1. AllocOf(D, b)
      BY <1>1 DEF Between, Alloc
    <3>2. D.dir[b].sharers = {} \/ HasEntry(D, b)
      BY <1>9, <3>1 DEF AllocOf, q
    <3>3. D1.dir = D.dir /\ (HasEntry(D1, b) <=> HasEntry(D, b))
      BY <1>1, <1>4 DEF HasEntry
    <3> QED
      BY <2>1, <3>2, <3>3 DEF MayMiss, q1
  <2>4. D2 = Process(D1, b, v, "none")
    BY <1>3, <2>1
  <2> QED
    BY <2>2, <2>3, <2>4 DEF Ends
<1>10. CASE q # <<>>
  <2>1. Stable(A1) /\ Len(q1) # 1
    BY <1>6, <1>10 DEF Enqueued
  <2>2. D2 = D1 /\ ~D1.run
    BY <1>1, <1>3, <1>4, <2>1
  <2> QED
    BY <1>7, <1>8, <2>1, <2>2 DEF Ends, Done, Settled, A1
<1> QED
  BY <1>9, <1>10

\* It ends with every block settled.
LEMMA RequestHandled ==
  ASSUME CacheT, NEW D, Between(D), NEW P, NEW m, NEW b, NEW n, NEW t, Message1(D, P, m, b, n, t),
         t \in Requests, NEW v, VictimOK(D, b, v), NEW D2, D2 = handleReq(P, b, n, t, v)
  PROVE  Done(D2, b, v)
<1>1. b \in Block /\ Ends(Queued(P, b, t, n), D2, b, v, "none")
  BY RequestEnds DEF Message1
<1> QED
  BY <1>1, EndsDone

-----------------------------------------------------------------------------
(* A cache gives up its copy.                                              *)

\* The entry of b has been changed to e1.
Entered(P, D1, b, v, e1) ==
  /\ Handling(D1, b, v) /\ D1 \in DirT /\ D1.inbox = P.inbox /\ D1.reqs = P.reqs /\ D1.dir[b] = e1
  /\ D1.run = P.run /\ (HasEntry(D1, b) <=> HasEntry(P, b))

\* An entry may lose sharers while the handler runs.
LEMMA EntryHandling ==
  ASSUME NEW P, NEW b \in Block, NEW v, Handling(P, b, v), NEW e1 \in EntryT, NEW D1, EntrySet(P, D1, b, e1),
         e1.sharers \subseteq P.dir[b].sharers
  PROVE  Entered(P, D1, b, v, e1)
<1>1. P \in DirT /\ AllocOf(P, b)
  BY DEF Handling, Alloc
<1>2. /\ D1 \in DirT /\ D1.inbox = P.inbox /\ D1.reqs = P.reqs /\ D1.dir[b] = e1
      /\ D1.slots = P.slots /\ D1.replaced = P.replaced /\ D1.run = P.run
      /\ \A x \in Block : x # b => D1.dir[x] = P.dir[x]
  BY <1>1, EntryEffect
<1>3. OnlyBlock(P, D1, b)
  BY <1>2, SameBoxOnlyBlock
<1>4. D1.dir[b].sharers # {} => HasEntry(P, b) \/ D1.reqs[b] # <<>>
  BY <1>1, <1>2 DEF AllocOf
<1>5. Handling(D1, b, v)
  BY <1>2, <1>3, <1>4, SameHandling
<1> QED
  BY <1>2, <1>5 DEF Entered, HasEntry

\* The entry without sharer n.
WithoutCopy(e, n, f) ==
  [e EXCEPT !.sharers = e.sharers \ {n}, !.forwarder = f,
            !.state = IF e.sharers \ {n} = {} THEN "UNCACHED" ELSE e.state]

\* The handler of INV_REP takes the cache from the sharers.
LEMMA InvRepEnds ==
  ASSUME CacheT, NEW D, Between(D), NEW P, NEW m, NEW b, NEW n, Message1(D, P, m, b, n, "INV_REP"),
         NEW v, VictimOK(D, b, v), NEW D2, D2 = processInvRep(P, b, n, v)
  PROVE  \E D1, fw : EntrySet(P, D1, b, WithoutCopy(P.dir[b], n, fw)) /\ Ends(D1, D2, b, v, "none")
<1> DEFINE e == P.dir[b]
           left == e.sharers \ {n}
           fw == IF e.forwarder = n THEN NoNode ELSE e.forwarder
           e1 == WithoutCopy(e, n, fw)
           D1 == [P EXCEPT !.dir[b].sharers = left,
                           !.dir[b].forwarder = IF @ = n THEN NoNode ELSE @,
                           !.dir[b].state = IF left = {} THEN "UNCACHED" ELSE @]
           A == DirView(D, b)
           A1 == DirView(D1, b)
           q == D.reqs[b]
<1>1. /\ Handling(P, b, v) /\ P \in DirT /\ ~P.run /\ P.reqs = D.reqs /\ P.dir = D.dir
      /\ (HasEntry(P, b) <=> HasEntry(D, b)) /\ b \in Block /\ n \in Node
  BY StartHandling
<1>2. e \in EntryT
  BY <1>1 DEF DirT
<1>3. /\ e1 \in EntryT /\ e1.sharers = left /\ e1.forwarder = fw /\ e1.owner = e.owner
      /\ e1.state = IF left = {} THEN "UNCACHED" ELSE e.state
  BY <1>2 DEF EntryT, WithoutCopy
<1>4. D2 = IF q # <<>> /\ InvRepReady(Head(q), left, n) THEN Process(D1, b, v, "none") ELSE D1
  BY <1>1 DEF processInvRep
<1>5. EntrySet(P, D1, b, e1)
  BY ZenonT(60) DEF EntrySet, WithoutCopy
<1>0. SUFFICES Ends(D1, D2, b, v, "none")
  <2> HIDE DEF D1, fw
  <2> QED
    BY <1>5
<1> HIDE DEF e1, D1
<1>6. Entered(P, D1, b, v, e1)
  BY <1>1, <1>3, <1>5, EntryHandling
<1>7. /\ Handling(D1, b, v) /\ D1 \in DirT /\ D1.inbox = P.inbox /\ D1.reqs = D.reqs /\ D1.dir[b] = e1
      /\ ~D1.run /\ (HasEntry(D1, b) <=> HasEntry(D, b))
  BY <1>1, <1>6 DEF Entered
<1>8. Came(D, D1, A, A1, b, n, "INV_REP")
  BY <1>7, MessageCame DEF Returns, Drops
<1> HIDE DEF A, A1, q
<1>9. /\ Arrived(A, A1, n, "INV_REP") /\ Stable(A) /\ A1 \in AbsT /\ A1.e = e1 /\ A.e = e /\ A.r = HeadOf(q)
      /\ A1.r = A.r /\ A1.a = A.a /\ QueueInv(q) /\ "WB_REP" \notin A.f[n]
  BY <1>1, <1>7, <1>8 DEF Came, q, Drops
<1>10. Removed(A, A1, n) /\ A1.e.owner = A.e.owner
  BY <1>3, <1>9 DEF Removed
<1>11. /\ Idles(A) => Stable(A1)
       /\ ~Idles(A) /\ InvRepReady(A.r, A1.e.sharers, n) => Fresh(A1)
       /\ ~Idles(A) /\ ~InvRepReady(A.r, A1.e.sharers, n) => Stable(A1)
  BY <1>1, <1>9, <1>10, InvRepArrives
<1>12. Idles(A) <=> q = <<>>
  BY <1>9, HeadFacts DEF Idles
<1>13. q # <<>> => (InvRepReady(Head(q), left, n) <=> InvRepReady(A.r, A1.e.sharers, n))
  <2>1. SUFFICES ASSUME q # <<>> PROVE InvRepReady(Head(q), left, n) <=> InvRepReady(A.r, A1.e.sharers, n)
    OBVIOUS
  <2>2. /\ A.r.type = Head(q).type /\ A.r.node = Head(q).node /\ A.r.wait = Head(q).wait
        /\ A.r.forwardingFrom = Head(q).forwardingFrom
    BY <1>9, <2>1, HeadFacts
  <2>3. A1.e.sharers = left
    BY <1>3, <1>9
  <2> QED
    BY <2>2, <2>3 DEF InvRepReady
<1>14. Kept(D1, b)
  <2>1. ForwarderKnown(e, protocol) /\ Ordered(D1.inbox, b, Caches(b))
    BY <1>1, <1>8 DEF Came
  <2>2. ForwarderKnown(e1, protocol)
    BY <1>3, <2>1 DEF ForwarderKnown
  <2> QED
    BY <1>7, <1>9, <2>1, <2>2 DEF Kept, q
<1>15. CASE q # <<>> /\ InvRepReady(Head(q), left, n)
  <2>1. Turn(D1, b, v)
    BY <1>7, <1>11, <1>12, <1>13, <1>14, <1>15 DEF Turn, A1, q
  <2>2. MayMiss(D1, b, "none")
    BY <1>1, <1>7, <1>15 DEF MayMiss, Between, EntriesFound, q
  <2> QED
    BY <1>4, <1>15, <2>1, <2>2 DEF Ends
<1>16. CASE ~(q # <<>> /\ InvRepReady(Head(q), left, n))
  <2>1. D2 = D1
    BY <1>4, <1>16
  <2>2. Stable(A1)
    BY <1>11, <1>12, <1>13, <1>16
  <2> QED
    BY <1>7, <1>14, <2>1, <2>2 DEF Ends, Done, Settled, A1
<1> QED
  BY <1>15, <1>16

\* It ends with every block settled.
LEMMA InvRepHandled ==
  ASSUME CacheT, NEW D, Between(D), NEW P, NEW m, NEW b, NEW n, Message1(D, P, m, b, n, "INV_REP"),
         NEW v, VictimOK(D, b, v), NEW D2, D2 = processInvRep(P, b, n, v)
  PROVE  Done(D2, b, v)
<1>1. b \in Block /\ \E D1 : Ends(D1, D2, b, v, "none")
  BY InvRepEnds DEF Message1
<1> QED
  BY <1>1, EndsDone

\* Data that is written to the DRAM changes nothing else.
Wrote(D, D2, b, v) ==
  /\ Handling(D2, b, v) /\ D2 \in DirT /\ DirView(D2, b) = DirView(D, b) /\ D2.dir = D.dir /\ D2.reqs = D.reqs
  /\ D2.run = D.run /\ (HasEntry(D2, b) <=> HasEntry(D, b)) /\ (Kept(D, b) => Kept(D2, b))

\* Sending the data to the DRAM keeps what is known of the block.
LEMMA WriteSent ==
  ASSUME NEW D, NEW b \in Block, NEW v, Handling(D, b, v), Kept(D, b), NEW data \in Data,
         NEW D2, D2 = sendTo(D, {Home}, "DRAM_WRITE_REQ", b, data)
  PROVE  Wrote(D, D2, b, v)
<1> DEFINE t == "DRAM_WRITE_REQ"
           m == ShmemMsg(t, b, Home, data)
           A == DirView(D, b)
           A2 == DirView(D2, b)
           C == Caches(b)
<1>1. Home \in Node /\ D \in DirT /\ t \in Reads \cup {"DRAM_WRITE_REQ"} /\ t \notin Reads /\ {Home} \in SUBSET Node
  BY DirectoryAssumption DEF Reads, Handling
<1> HIDE DEF t
<1>2. /\ t \in MessageTypes /\ t \notin Snoops /\ t \notin Returns /\ t \notin Replies /\ t \notin Drops
      /\ t # "WB_REP" /\ t \notin Requests /\ t # "UPGRADE_REP"
  BY <1>1, ReadKinds
<1>3. m \in Message /\ m.type = t /\ m.block = b
  BY <1>1, <1>2, MessageType
<1>4. /\ D2 \in DirT /\ D2.inbox = Post(D.inbox, {Home}, m)
      /\ D2.dir = D.dir /\ D2.reqs = D.reqs /\ D2.slots = D.slots /\ D2.replaced = D.replaced
      /\ D2.run = D.run /\ OnlyBlock(D, D2, b)
  BY <1>1, <1>3, SendEffect DEF t
<1>5. /\ A = View(D.dir[b], D.reqs[b], D.inbox, b, C)
      /\ A2 = View(D.dir[b], D.reqs[b], Post(D.inbox, {Home}, m), b, C)
  BY <1>4 DEF DirView
<1> HIDE DEF m, A, A2, C
<1>6. D.inbox \in Boxes
  BY <1>1, BoxesOf
<1>7. Posted(A, A2, {Home}, m, b)
  BY <1>3, <1>5, <1>6, PostView
<1>8. MayPost(A, {Home}, m, b)
  BY <1>1, <1>2, <1>3 DEF MayPost
<1>9. Ordered(D2.inbox, b, C)
  <2>1. Ordered(D.inbox, b, C)
    BY DEF Kept, C
  <2> QED
    BY <1>1, <1>3, <1>4, <1>5, <1>6, <1>8, <2>1, PostOrder
<1>10. PerNode(A) /\ PerNode(A2)
  BY <1>5, ViewPointwise
<1>11. ASSUME NEW k \in Node PROVE A2.s[k] = A.s[k] /\ A2.l[k] = A.l[k] /\ A2.f[k] = A.f[k]
  <2>1. /\ A2.s[k] = A.s[k] \cup (IF k \in {Home} /\ m.block = b /\ m.type \in Replies THEN {m.type} ELSE {})
        /\ A2.l[k] = A.l[k] \cup (IF k \in {Home} /\ m.block = b /\ m.type \in Snoops /\ Reachable(A, k)
                                  THEN {m.type} ELSE {})
        /\ A2.f[k] = A.f[k] \cup (IF Home \in {Home} /\ m.block = b /\ m.from = k /\ m.type \in Returns
                                  THEN {m.type} ELSE {})
    BY <1>7 DEF Posted
  <2> QED
    BY <1>2, <1>3, <2>1
<1>12. A2.s = A.s /\ A2.l = A.l /\ A2.f = A.f
  BY <1>10, <1>11, PointwiseEqual
<1>13. A2.rd = A.rd
  <2>1. A2.rd <=> A.rd
    BY <1>1, <1>3, <1>7 DEF Posted
  <2> QED
    BY <1>10, <2>1, PointwiseEqual
<1>14. A2 = A
  BY <1>5, <1>12, <1>13 DEF View
<1>15. Kept(D2, b)
  BY <1>4, <1>9 DEF Kept, C
<1>16. Handling(D2, b, v)
  <2>1. D.dir[b].sharers # {} => HasEntry(D, b) \/ D.reqs[b] # <<>>
    BY DEF Handling, Alloc, AllocOf
  <2> QED
    BY <1>4, <2>1, SameHandling
<1> QED
  BY <1>4, <1>14, <1>15, <1>16 DEF Wrote, HasEntry, A, A2

\* Data that is kept with the request in progress.
LEMMA DataKept ==
  ASSUME NEW D, NEW b \in Block, NEW v, Handling(D, b, v), Kept(D, b), D.reqs[b] # <<>>,
         NEW x \in Data \cup {"none"}, NEW D2, D2 = [D EXCEPT !.reqs[b][1].data = x]
  PROVE  Handling(D2, b, v) /\ Kept(D2, b) /\ DirView(D2, b) = DirView(D, b) /\ D2.run = D.run
<1> DEFINE q == D.reqs[b]
           q2 == D2.reqs[b]
           r2 == [Head(q) EXCEPT !.data = x]
<1>1. D \in DirT /\ QueueInv(q) /\ q # <<>>
  BY DEF Handling, Kept
<1>2. Head(q) \in Req /\ Head(q) = q[1] /\ HeadOf(q).type = Head(q).type
  BY <1>1, HeadFacts
<1>3. /\ r2 \in Req /\ r2.type = Head(q).type /\ r2.node = Head(q).node /\ r2.wait = Head(q).wait
      /\ r2.forwardingFrom = Head(q).forwardingFrom
  BY <1>2 DEF Req
<1>4. HeadSet(D, D2, b, r2)
  BY <1>2 DEF HeadSet
<1> HIDE DEF r2
<1>5. HeadChanged(D, D2, b, r2.wait, r2.forwardingFrom, r2.data)
  BY <1>1, <1>3, <1>4, HeadEffect
<1>6. /\ D2 \in DirT /\ D2.inbox = D.inbox /\ D2.dir = D.dir /\ D2.run = D.run
      /\ D2.slots = D.slots /\ D2.replaced = D.replaced
      /\ \A y \in Block : y # b => D2.reqs[y] = D.reqs[y]
      /\ SameQueue(q, q2) /\ q2 # <<>>
      /\ HeadOf(q2) = [type |-> Head(q).type, node |-> Head(q).node,
                       wait |-> Head(q).wait, forwardingFrom |-> Head(q).forwardingFrom]
  BY <1>3, <1>5 DEF HeadChanged
<1> HIDE DEF q, q2
<1>7. HeadOf(q2) = HeadOf(q)
  BY <1>1, <1>6 DEF HeadOf
<1>8. QueueInv(q2) /\ \A k : AskedIn(q2, k) = AskedIn(q, k)
  BY <1>1, <1>6, SameQueueFacts
<1>9. DirView(D2, b) = DirView(D, b)
  BY <1>6, <1>7, <1>8 DEF DirView, View, q, q2
<1>10. Kept(D2, b)
  BY <1>6, <1>8 DEF Kept, q2
<1>11. Handling(D2, b, v)
  <2>1. OnlyBlock(D, D2, b)
    BY <1>6, SameBoxOnlyBlock
  <2>2. D2.reqs[b] # <<>> /\ HeadOf(D2.reqs[b]) = HeadOf(D.reqs[b])
    BY <1>6, <1>7 DEF q, q2
  <2> QED
    BY <1>6, <2>1, <2>2, SameHandling
<1> QED
  BY <1>6, <1>9, <1>10, <1>11

\* The entry without sharer n, which has sent its data.
WithoutData(e, n) ==
  [e EXCEPT !.sharers = e.sharers \ {n}, !.forwarder = NoNode, !.owner = NoNode,
            !.state = IF e.sharers \ {n} = {} THEN "UNCACHED" ELSE e.state]

\* The data goes to the DRAM, if it has to.
Flushed(D1, D2, b, data) ==
  D2 = IF WritesFlush(D1.reqs[b]) THEN sendTo(D1, {Home}, "DRAM_WRITE_REQ", b, data) ELSE D1

\* The upgrade in progress waits for other sharers than n.
UpgradeWaits(P, b, n) ==
  P.reqs[b] # <<>> /\ Head(P.reqs[b]).type = "UPGRADE_REQ" /\ P.dir[b].sharers \ {n} # {}

\* What the handler of FLUSH_REP does after that.
FlushEnds(P, D2, D3, b, n, v, data, stored) ==
  IF UpgradeWaits(P, b, n) THEN D3 = [D2 EXCEPT !.reqs[b][1].data = stored] /\ Done(D3, b, v)
  ELSE Ends(D2, D3, b, v, data)

\* The handler of FLUSH_REP takes the cache from the sharers and keeps its data.
LEMMA FlushRepEnds ==
  ASSUME CacheT, NEW D, Between(D), NEW P, NEW m, NEW b, NEW n, Message1(D, P, m, b, n, "FLUSH_REP"),
         NEW v, VictimOK(D, b, v), NEW data \in Data, NEW stored \in Data \cup {"none"},
         NEW D3, D3 = processFlushRep(P, b, n, v, data, stored)
  PROVE  \E D1, D2 : /\ EntrySet(P, D1, b, WithoutData(P.dir[b], n)) /\ Flushed(D1, D2, b, data)
                    /\ FlushEnds(P, D2, D3, b, n, v, data, stored)
<1> DEFINE e == P.dir[b]
           left == e.sharers \ {n}
           e1 == WithoutData(e, n)
           D1 == [P EXCEPT !.dir[b].sharers = left, !.dir[b].forwarder = NoNode, !.dir[b].owner = NoNode,
                           !.dir[b].state = IF left = {} THEN "UNCACHED" ELSE @]
           q == D.reqs[b]
           D2 == IF WritesFlush(q) THEN sendTo(D1, {Home}, "DRAM_WRITE_REQ", b, data) ELSE D1
           waits == Head(q).type = "UPGRADE_REQ" /\ left # {}
           A == DirView(D, b)
           A1 == DirView(D1, b)
<1>1. /\ Handling(P, b, v) /\ P \in DirT /\ ~P.run /\ P.reqs = D.reqs /\ P.dir = D.dir
      /\ (HasEntry(P, b) <=> HasEntry(D, b)) /\ b \in Block /\ n \in Node
  BY StartHandling
<1>2. e \in EntryT
  BY <1>1 DEF DirT
<1>3. /\ e1 \in EntryT /\ e1.sharers = left /\ e1.forwarder = NoNode
      /\ e1.state = IF left = {} THEN "UNCACHED" ELSE e.state
  BY <1>2 DEF EntryT, WithoutData
<1>4. /\ q = <<>> => D3 = D2
      /\ q # <<>> /\ waits => D3 = [D2 EXCEPT !.reqs[b][1].data = stored]
      /\ q # <<>> /\ ~waits => D3 = Process(D2, b, v, data)
  <2> DEFINE p == P.reqs[b]
             DP == IF WritesFlush(p) THEN sendTo(D1, {Home}, "DRAM_WRITE_REQ", b, data) ELSE D1
             waitsP == Head(p).type = "UPGRADE_REQ" /\ left # {}
  <2>1. p = q /\ DP = D2 /\ (waitsP <=> waits)
    BY <1>1
  <2>2. D3 = CASE p = <<>> -> DP
               [] p # <<>> /\ waitsP -> [DP EXCEPT !.reqs[b][1].data = stored]
               [] p # <<>> /\ ~waitsP -> Process(DP, b, v, data)
    BY Zenon DEF processFlushRep
  <2> HIDE DEF D2, waits, q, p, DP, waitsP
  <2> QED
    BY <2>1, <2>2
<1>5. EntrySet(P, D1, b, e1)
  BY ZenonT(60) DEF EntrySet, WithoutData
<1> HIDE DEF e1, D1, D2
<1>6. Entered(P, D1, b, v, e1)
  BY <1>1, <1>3, <1>5, EntryHandling
<1>7. /\ Handling(D1, b, v) /\ D1 \in DirT /\ D1.inbox = P.inbox /\ D1.reqs = D.reqs /\ D1.dir[b] = e1
      /\ ~D1.run /\ (HasEntry(D1, b) <=> HasEntry(D, b))
  BY <1>1, <1>6 DEF Entered
<1>0. SUFFICES FlushEnds(P, D2, D3, b, n, v, data, stored)
  <2>1. Flushed(D1, D2, b, data)
    BY <1>7 DEF Flushed, D2
  <2> QED
    BY <1>5, <2>1 DEF e1
<1>w. UpgradeWaits(P, b, n) <=> q # <<>> /\ waits
  BY <1>1 DEF UpgradeWaits
<1>8. Came(D, D1, A, A1, b, n, "FLUSH_REP")
  BY <1>7, MessageCame DEF Returns, Drops
<1> HIDE DEF A, A1, q, waits
<1>9. /\ Arrived(A, A1, n, "FLUSH_REP") /\ Stable(A) /\ A1 \in AbsT /\ A1.e = e1 /\ A.e = e /\ A.r = HeadOf(q)
      /\ A1.r = A.r /\ A1.a = A.a /\ QueueInv(q)
  BY <1>1, <1>7, <1>8 DEF Came, q
<1>10. Removed(A, A1, n)
  BY <1>3, <1>9 DEF Removed
<1>11. /\ Idles(A) => Stable(A1)
       /\ A.r.type = "UPGRADE_REQ" /\ A1.e.sharers # {} => Stable(A1)
       /\ ~Idles(A) /\ ~(A.r.type = "UPGRADE_REQ" /\ A1.e.sharers # {}) => Fresh(A1)
  BY <1>1, <1>9, <1>10, FlushRepArrives
<1>12. /\ Idles(A) <=> q = <<>>
       /\ q # <<>> => (waits <=> A.r.type = "UPGRADE_REQ" /\ A1.e.sharers # {})
  BY <1>3, <1>9, HeadFacts DEF Idles, waits
<1>13. Kept(D1, b)
  <2>1. Ordered(D1.inbox, b, Caches(b))
    BY <1>8 DEF Came
  <2>2. ForwarderKnown(e1, protocol)
    BY <1>3 DEF ForwarderKnown
  <2> QED
    BY <1>7, <1>9, <2>1, <2>2 DEF Kept, q
<1>14. /\ Handling(D2, b, v) /\ DirView(D2, b) = A1 /\ D2.reqs[b] = q /\ ~D2.run
       /\ (HasEntry(D2, b) <=> HasEntry(D, b)) /\ Kept(D2, b)
  <2>1. CASE WritesFlush(q)
    <3>1. D2 = sendTo(D1, {Home}, "DRAM_WRITE_REQ", b, data)
      BY <2>1 DEF D2, q
    <3>2. Wrote(D1, D2, b, v)
      BY <1>1, <1>7, <1>13, <3>1, WriteSent
    <3> QED
      BY <1>7, <1>13, <3>2 DEF Wrote, A1, q
  <2>2. CASE ~WritesFlush(q)
    <3>1. D2 = D1
      BY <2>2 DEF D2, q
    <3> QED
      BY <1>7, <1>13, <3>1 DEF A1, q
  <2> QED
    BY <2>1, <2>2
<1>15. CASE q = <<>>
  BY <1>4, <1>w, <1>11, <1>12, <1>14, <1>15 DEF FlushEnds, Ends, Done, Settled
<1>16. CASE q # <<>> /\ waits
  <2>1. Handling(D3, b, v) /\ Kept(D3, b) /\ DirView(D3, b) = DirView(D2, b) /\ D3.run = D2.run
    BY <1>1, <1>4, <1>14, <1>16, DataKept
  <2> QED
    BY <1>4, <1>w, <1>11, <1>12, <1>14, <1>16, <2>1 DEF FlushEnds, Done, Settled
<1>17. CASE q # <<>> /\ ~waits
  <2>1. Turn(D2, b, v)
    BY <1>11, <1>12, <1>14, <1>17 DEF Turn
  <2>2. MayMiss(D2, b, data)
    BY <1>1, <1>14, <1>17 DEF MayMiss, Between, EntriesFound, q
  <2> QED
    BY <1>4, <1>w, <1>17, <2>1, <2>2 DEF FlushEnds, Ends
<1> QED
  BY <1>15, <1>16, <1>17

\* It ends with every block settled.
LEMMA FlushRepHandled ==
  ASSUME CacheT, NEW D, Between(D), NEW P, NEW m, NEW b, NEW n, Message1(D, P, m, b, n, "FLUSH_REP"),
         NEW v, VictimOK(D, b, v), NEW data \in Data, NEW stored \in Data \cup {"none"},
         NEW D3, D3 = processFlushRep(P, b, n, v, data, stored)
  PROVE  Done(D3, b, v)
<1>1. b \in Block /\ \E D2 : FlushEnds(P, D2, D3, b, n, v, data, stored)
  BY FlushRepEnds DEF Message1
<1> QED
  BY <1>1, EndsDone DEF FlushEnds

-----------------------------------------------------------------------------
(* A cache writes its copy back.                                           *)

\* States of the directory with equal parts are equal.
LEMMA SameFields ==
  ASSUME NEW S1, NEW S2, NEW S3, NEW S4, NEW S5, NEW S6,
         NEW X \in [dir : S1, reqs : S2, slots : S3, replaced : S4, inbox : S5, run : S6],
         NEW Y \in [dir : S1, reqs : S2, slots : S3, replaced : S4, inbox : S5, run : S6],
         X.dir = Y.dir, X.reqs = Y.reqs, X.slots = Y.slots, X.replaced = Y.replaced,
         X.inbox = Y.inbox, X.run = Y.run
  PROVE  X = Y
<1>1. X = [dir |-> X.dir, reqs |-> X.reqs, slots |-> X.slots, replaced |-> X.replaced,
           inbox |-> X.inbox, run |-> X.run]
  OBVIOUS
<1>2. Y = [dir |-> Y.dir, reqs |-> Y.reqs, slots |-> Y.slots, replaced |-> Y.replaced,
           inbox |-> Y.inbox, run |-> Y.run]
  OBVIOUS
<1> QED
  BY <1>1, <1>2

\* The forwarder does not matter when the data is at hand: the reader becomes it.
LEMMA ForwarderReplaced ==
  ASSUME NEW D \in DirT, NEW b \in Block, NEW v, HasEntry(D, b), D.dir[b].state = "SHARED",
         D.reqs[b] # <<>>, Head(D.reqs[b]).type = "SH_REQ", NEW data \in Data,
         NEW E, E = ForwardTo(D, b, NoNode)
  PROVE  Process(E, b, v, data) = Process(D, b, v, data)
<1> DEFINE n == Head(D.reqs[b]).node
           Reader(X) == [X EXCEPT !.dir[b].sharers = @ \cup {n}]
           Answer1(X) == processNextReq(sendTo(ForwardTo(X, b, n), {n}, "SH_REP", b, data), b)
<1>1. ASSUME NEW X \in DirT, X.reqs = D.reqs, HasEntry(X, b), X.dir[b].state = "SHARED"
      PROVE  processReq(X, b, v, data) = Answer1(Reader(Stopped(X)))
  <2> DEFINE X0 == Stopped(X)
             X1 == Reader(X0)
  <2>1. X0 \in DirT /\ X0.dir = X.dir /\ X0.reqs = D.reqs /\ (HasEntry(X0, b) <=> HasEntry(X, b))
    BY <1>1 DEF Stopped, DirT, HasEntry
  <2>2. processReq(X, b, v, data) = processShReq(getDirectoryEntry(X0, b, v), b, data)
    BY <1>1 DEF processReq, Stopped
  <2>3. getDirectoryEntry(X0, b, v) = X0
    BY <1>1, <2>1 DEF getDirectoryEntry
  <2> HIDE DEF X0
  <2>4. processShReq(X0, b, data) = retrieveDataAndSendToL2Cache(X1, "SH_REP", b, data)
    BY <1>1, <2>1 DEF processShReq
  <2>5. Head(X1.reqs[b]).node = n
    BY <2>1 DEF DirT
  <2> HIDE DEF X1, n
  <2>6. data # "none"
    BY DEF Data
  <2>7. retrieveDataAndSendToL2Cache(X1, "SH_REP", b, data) = Answer1(X1)
    BY <2>5, <2>6 DEF retrieveDataAndSendToL2Cache, ForwardTo
  <2> QED
    BY <2>2, <2>3, <2>4, <2>7 DEF X0, X1
<1>2. /\ E \in DirT /\ E.reqs = D.reqs /\ E.slots = D.slots /\ E.replaced = D.replaced
      /\ E.dir[b].state = D.dir[b].state
  BY ForwarderEffect
<1>3. HasEntry(E, b)
  BY <1>2 DEF HasEntry
<1>a. D.reqs[b] \in Seq(Req) /\ D.reqs[b] # <<>>
  BY DEF DirT
<1>4. ForwardTo(Reader(Stopped(E)), b, n) = ForwardTo(Reader(Stopped(D)), b, n)
  <2>0. n \in Node
    <3>1. Head(D.reqs[b]) \in Req
      BY <1>a
    <3> QED
      BY <3>1 DEF Req
  <2> DEFINE Fw(X) == ForwardTo(Reader(Stopped(X)), b, n)
  <2> HIDE DEF n
  <2>1. ASSUME NEW X \in DirT
        PROVE  /\ Fw(X) \in DirT /\ Fw(X).reqs = X.reqs /\ Fw(X).slots = X.slots
               /\ Fw(X).replaced = X.replaced /\ Fw(X).inbox = X.inbox /\ ~Fw(X).run
               /\ \A x \in Block : x # b => Fw(X).dir[x] = X.dir[x]
               /\ Fw(X).dir[b].sharers = X.dir[b].sharers \cup {n} /\ Fw(X).dir[b].owner = X.dir[b].owner
               /\ Fw(X).dir[b].state = X.dir[b].state /\ Fw(X).dir[b].forwarder = n
    <3> DEFINE X0 == Stopped(X)
               X1 == Reader(X0)
               e1 == [X0.dir[b] EXCEPT !.sharers = @ \cup {n}]
    <3>1. /\ X0 \in DirT /\ X0.dir = X.dir /\ X0.reqs = X.reqs /\ X0.slots = X.slots /\ ~X0.run
          /\ X0.replaced = X.replaced /\ X0.inbox = X.inbox /\ X.dir[b] \in EntryT
      BY <2>1 DEF Stopped, DirT
    <3> HIDE DEF X0
    <3>2. /\ e1 \in EntryT /\ e1.sharers = X.dir[b].sharers \cup {n} /\ e1.owner = X.dir[b].owner
          /\ e1.state = X.dir[b].state
      BY <2>0, <3>1 DEF EntryT
    <3>3. EntrySet(X0, X1, b, e1)
      BY DEF EntrySet
    <3> HIDE DEF X1, e1
    <3>4. /\ X1 \in DirT /\ X1.inbox = X0.inbox /\ X1.reqs = X0.reqs /\ X1.dir[b] = e1
          /\ X1.slots = X0.slots /\ X1.replaced = X0.replaced /\ X1.run = X0.run
          /\ \A x \in Block : x # b => X1.dir[x] = X0.dir[x]
      BY <3>1, <3>2, <3>3, EntryEffect
    <3> DEFINE X2 == ForwardTo(X1, b, n)
    <3>5. /\ X2 \in DirT /\ X2.inbox = X1.inbox /\ X2.reqs = X1.reqs /\ X2.run = X1.run
          /\ X2.slots = X1.slots /\ X2.replaced = X1.replaced
          /\ \A x \in Block : x # b => X2.dir[x] = X1.dir[x]
          /\ X2.dir[b].sharers = X1.dir[b].sharers /\ X2.dir[b].owner = X1.dir[b].owner
          /\ X2.dir[b].state = X1.dir[b].state /\ X2.dir[b].forwarder = n
      BY <2>0, <3>4, ForwarderEffect
    <3>6. Fw(X) = X2
      BY DEF X0, X1
    <3> HIDE DEF X2, Fw
    <3> QED
      BY <3>1, <3>2, <3>4, <3>5, <3>6
  <2> HIDE DEF Fw
  <2>2. /\ E.inbox = D.inbox /\ \A x \in Block : x # b => E.dir[x] = D.dir[x]
        /\ E.dir[b].sharers = D.dir[b].sharers /\ E.dir[b].owner = D.dir[b].owner
    BY ForwarderEffect
  <2>3. Fw(E) \in DirT /\ Fw(D) \in DirT
    BY <1>2, <2>1
  <2>4. /\ Fw(E).reqs = Fw(D).reqs /\ Fw(E).slots = Fw(D).slots /\ Fw(E).replaced = Fw(D).replaced
        /\ Fw(E).inbox = Fw(D).inbox /\ Fw(E).run = Fw(D).run
    <3>1. Fw(E).run \in BOOLEAN /\ Fw(D).run \in BOOLEAN
      BY <2>3 DEF DirT
    <3> QED
      BY <1>2, <2>1, <2>2, <3>1
  <2>5. Fw(E).dir[b] = Fw(D).dir[b]
    <3>1. Fw(E).dir[b] \in EntryT /\ Fw(D).dir[b] \in EntryT
      BY <2>3 DEF DirT
    <3>2. /\ Fw(E).dir[b].sharers = Fw(D).dir[b].sharers /\ Fw(E).dir[b].owner = Fw(D).dir[b].owner
          /\ Fw(E).dir[b].state = Fw(D).dir[b].state /\ Fw(E).dir[b].forwarder = Fw(D).dir[b].forwarder
      BY <1>2, <2>1, <2>2
    <3> QED
      BY <3>1, <3>2 DEF EntryT
  <2>6. Fw(E).dir = Fw(D).dir
    <3>1. \A x \in Block : Fw(E).dir[x] = Fw(D).dir[x]
      BY <1>2, <2>1, <2>2, <2>5
    <3>2. Fw(E).dir \in [Block -> EntryT] /\ Fw(D).dir \in [Block -> EntryT]
      BY <2>3 DEF DirT
    <3> QED
      BY <3>1, <3>2
  <2>7. Fw(E) = Fw(D)
    <3> DEFINE X == Fw(E)
               Y == Fw(D)
    <3>1. X \in DirT /\ Y \in DirT /\ X.dir = Y.dir /\ X.reqs = Y.reqs /\ X.slots = Y.slots
          /\ X.replaced = Y.replaced /\ X.inbox = Y.inbox /\ X.run = Y.run
      BY <2>3, <2>4, <2>6
    <3> HIDE DEF X, Y
    <3>2. X = Y
      BY <3>1, SameFields DEF DirT
    <3> QED
      BY <3>2 DEF X, Y
  <2> QED
    BY <2>7 DEF Fw
<1> HIDE DEF Reader, n
<1>5. processReq(E, b, v, data) = processReq(D, b, v, data)
  BY <1>1, <1>2, <1>3, <1>4
<1> QED
  BY <1>5 DEF Process

\* The handler of WB_REP hands the data to the reader: the forwarder does not matter.
LEMMA WbRepEnds ==
  ASSUME CacheT, NEW D, Between(D), NEW P, NEW m, NEW b, NEW n, Message1(D, P, m, b, n, "WB_REP"),
         NEW v, VictimOK(D, b, v), NEW data \in Data, NEW D3, D3 = processWbRep(P, b, v, data)
  PROVE  /\ P.reqs[b] # <<>> /\ Head(P.reqs[b]).type = "SH_REQ"
         /\ \E D2 : \E e2 \in EntryT : EntrySet(P, D2, b, e2) /\ e2.state = "SHARED" /\ Ends(D2, D3, b, v, data)
<1> DEFINE e == P.dir[b]
           e1 == [e EXCEPT !.owner = NoNode, !.state = "SHARED"]
           e2 == [e1 EXCEPT !.forwarder = NoNode]
           D1 == [P EXCEPT !.dir[b].owner = NoNode, !.dir[b].state = "SHARED"]
           D2 == ForwardTo(D1, b, NoNode)
           q == D.reqs[b]
           A == DirView(D, b)
           A2 == DirView(D2, b)
<1>1. /\ Handling(P, b, v) /\ P \in DirT /\ ~P.run /\ P.reqs = D.reqs /\ P.dir = D.dir
      /\ (HasEntry(P, b) <=> HasEntry(D, b)) /\ b \in Block /\ n \in Node
  BY StartHandling
<1>2. e \in EntryT
  BY <1>1 DEF DirT
<1>3. /\ e1 \in EntryT /\ e1.sharers = e.sharers /\ e1.state = "SHARED"
      /\ e2 \in EntryT /\ e2.sharers = e.sharers /\ e2.state = "SHARED" /\ e2.forwarder = NoNode
  BY <1>2 DEF EntryT
<1>4. D3 = Process(D1, b, v, data)
  BY DEF processWbRep
<1>5. EntrySet(P, D1, b, e1)
  BY DEF EntrySet
<1>6. EntrySet(P, D2, b, e2)
  BY <1>1, <1>2 DEF EntrySet, ForwardTo, DirT, EntryT
<1> HIDE DEF e1, D1, D2, e2
<1>7. Entered(P, D1, b, v, e1) /\ Entered(P, D2, b, v, e2)
  BY <1>1, <1>3, <1>5, <1>6, EntryHandling
<1>8. /\ Handling(D2, b, v) /\ D2 \in DirT /\ D2.inbox = P.inbox /\ D2.reqs = D.reqs /\ D2.dir[b] = e2
      /\ ~D2.run /\ (HasEntry(D2, b) <=> HasEntry(D, b))
  BY <1>1, <1>7 DEF Entered
<1>9. D1 \in DirT /\ D1.reqs = D.reqs /\ D1.dir[b] = e1 /\ (HasEntry(D1, b) <=> HasEntry(D, b))
  BY <1>1, <1>7 DEF Entered
<1>10. Came(D, D2, A, A2, b, n, "WB_REP")
  BY <1>8, MessageCame DEF Returns, Drops
<1> HIDE DEF A, A2, q
<1>11. /\ Arrived(A, A2, n, "WB_REP") /\ Stable(A) /\ A2 \in AbsT /\ A2.e = e2 /\ A.e = e /\ A.r = HeadOf(q)
       /\ A2.r = A.r /\ A2.a = A.a /\ QueueInv(q) /\ Ordered(D2.inbox, b, Caches(b))
  BY <1>1, <1>8, <1>10 DEF Came, q
<1>12. Fresh(A2) /\ A.r.type = "SH_REQ"
  BY <1>1, <1>3, <1>11, WbRepArrives
<1>13. q # <<>> /\ Head(q).type = "SH_REQ"
  <2>1. q # <<>>
    BY <1>11, <1>12 DEF HeadOf, NoReq
  <2> QED
    BY <1>11, <1>12, <2>1, HeadFacts
<1>14. HasEntry(D, b)
  BY <1>1, <1>13 DEF Between, EntriesFound, q
<1>15. Process(D2, b, v, data) = Process(D1, b, v, data)
  BY <1>1, <1>3, <1>9, <1>13, <1>14, ForwarderReplaced DEF D2, q
<1>16. Turn(D2, b, v)
  <2>1. ForwarderKnown(e2, protocol)
    BY <1>3 DEF ForwarderKnown
  <2>2. Kept(D2, b)
    BY <1>8, <1>11, <2>1 DEF Kept, q
  <2> QED
    BY <1>8, <1>12, <1>13, <2>2 DEF Turn, A2, q
<1>17. MayMiss(D2, b, data)
  BY <1>8, <1>14 DEF MayMiss
<1>18. Ends(D2, D3, b, v, data)
  BY <1>4, <1>15, <1>16, <1>17 DEF Ends
<1> QED
  BY <1>1, <1>3, <1>6, <1>13, <1>18 DEF q

\* It ends with every block settled.
LEMMA WbRepHandled ==
  ASSUME CacheT, NEW D, Between(D), NEW P, NEW m, NEW b, NEW n, Message1(D, P, m, b, n, "WB_REP"),
         NEW v, VictimOK(D, b, v), NEW data \in Data, NEW D3, D3 = processWbRep(P, b, v, data)
  PROVE  Done(D3, b, v)
<1>1. b \in Block /\ \E D2 : Ends(D2, D3, b, v, data)
  BY WbRepEnds DEF Message1
<1> QED
  BY <1>1, EndsDone

-----------------------------------------------------------------------------
(* The DRAM controller answers.                                            *)

\* The data has arrived from the DRAM.
ReadTaken(A, A2) ==
  /\ A.rd /\ ~A2.rd /\ A2.e = A.e /\ A2.r = A.r /\ A2.a = A.a /\ A2.s = A.s /\ A2.l = A.l /\ A2.f = A.f
  /\ A2.ln = A.ln /\ A2.tk = A.tk /\ A2.hx = A.hx /\ A2.wk = A.wk

\* What the arrival of the DRAM's data does to the view of its block.
LEMMA TakeRead ==
  ASSUME NEW D \in DirT, D.inbox[Home] # <<>>, NEW b \in Block, Settled(D, b),
         NEW m, m = Head(D.inbox[Home]), m.block = b, m.type \in Reads,
         NEW P, P.inbox = [D.inbox EXCEPT ![Home] = Tail(@)], P.dir = D.dir, P.reqs = D.reqs,
         NEW A, A = DirView(D, b), NEW A2, A2 = DirView(P, b)
  PROVE  ReadTaken(A, A2) /\ Ordered(P.inbox, b, Caches(b)) /\ Stable(A)
<1> DEFINE C == Caches(b)
<1>1. D.inbox \in Boxes /\ Home \in Node
  BY BoxesOf, DirectoryAssumption
<1>2. Ordered(D.inbox, b, C) /\ Stable(A)
  BY DEF Settled, Kept
<1>3. m.type \notin Snoops /\ m.type \notin Replies /\ m.type \notin Returns /\ m.type \notin Grants
  BY ReadKinds DEF Grants, Replies
<1>4. Takes(C, C, Home, m, b)
  BY <1>3, SameTakes
<1>5. A = View(D.dir[b], D.reqs[b], D.inbox, b, C) /\ A2 = View(D.dir[b], D.reqs[b], P.inbox, b, C)
  BY DEF DirView
<1> HIDE DEF C
<1>6. /\ Ordered(P.inbox, b, C)
      /\ TakenReply(A, A2, Home, m, b) /\ TakenSnoop(A, A2, Home, m, b, C.ln[Home])
      /\ TakenReturn(A, A2, Home, m, b) /\ TakenRead(A, A2, Home, m, b)
  BY <1>1, <1>2, <1>4, <1>5, PopView DEF TakenAll, Took
<1>7. PerNode(A) /\ PerNode(A2)
  BY <1>5, ViewPointwise
<1>8. A2.s = A.s
  <2>1. \A k \in Node : A2.s[k] = A.s[k]
    BY <1>3, <1>6 DEF TakenReply
  <2> QED
    BY <1>7, <2>1, PointwiseEqual
<1>9. A2.l = A.l
  <2>1. \A k \in Node : A2.l[k] = A.l[k]
    BY <1>3, <1>6 DEF TakenSnoop
  <2> QED
    BY <1>7, <2>1, PointwiseEqual
<1>10. A2.f = A.f
  <2>1. \A k \in Node : A2.f[k] = A.f[k]
    BY <1>3, <1>6 DEF TakenReturn
  <2> QED
    BY <1>7, <2>1, PointwiseEqual
<1>11. A.rd /\ ~A2.rd
  BY <1>6 DEF TakenRead
<1>12. A2.ln = A.ln /\ A2.tk = A.tk /\ A2.hx = A.hx /\ A2.wk = A.wk /\ A2.e = A.e /\ A2.r = A.r /\ A2.a = A.a
  BY <1>5 DEF View
<1> QED
  BY <1>2, <1>6, <1>8, <1>9, <1>10, <1>11, <1>12 DEF ReadTaken, C

\* The handler of DRAM_READ_REP answers the request in progress with D2, and goes on.
DramAnswers(P, D2, D3, b, v, data) ==
  LET q == P.reqs[b]
      reply == IF Head(q).type = "SH_REQ" /\ P.dir[b].state = "SHARED" THEN "SH_REP" ELSE "EX_REP"
  IN /\ QueueInv(q) /\ q # <<>> /\ Head(q).node \in Node
     /\ D2 = processNextReq(sendTo(P, {Head(q).node}, reply, b, data), b)
     /\ Handled(P, D2, b) /\ Running(D2, b, v) /\ D3 = RunQueue(D2, b, v)

\* The handler of DRAM_READ_REP goes on with the queue.
LEMMA DramReplyEnds ==
  ASSUME CacheT, NEW D, Between(D), NEW P, NEW m, NEW b, NEW n, Message1(D, P, m, b, n, "DRAM_READ_REP"),
         NEW v, VictimOK(D, b, v), NEW data \in Data, NEW D3, D3 = processDRAMReply(P, b, v, data)
  PROVE  \E D2 : DramAnswers(P, D2, D3, b, v, data)
<1> DEFINE q == P.reqs[b]
           k == Head(q).node
           reply == IF Head(q).type = "SH_REQ" /\ P.dir[b].state = "SHARED" THEN "SH_REP" ELSE "EX_REP"
           D2 == processNextReq(sendTo(P, {k}, reply, b, data), b)
           A == DirView(D, b)
           AP == DirView(P, b)
           A2 == DirView(D2, b)
<1>1. /\ Handling(P, b, v) /\ P \in DirT /\ ~P.run /\ P.reqs = D.reqs /\ P.dir = D.dir
      /\ (HasEntry(P, b) <=> HasEntry(D, b)) /\ b \in Block /\ n \in Node
  BY StartHandling
<1>2. D3 = RunQueue(D2, b, v)
  BY DEF processDRAMReply
<1>3. D \in DirT /\ Settled(D, b) /\ EntriesFound(D)
  BY <1>1 DEF Between
<1>4. ReadTaken(A, AP) /\ Ordered(P.inbox, b, Caches(b)) /\ Stable(A)
  <2>1. /\ D.inbox[Home] # <<>> /\ m = Head(D.inbox[Home]) /\ m.block = b /\ m.type = "DRAM_READ_REP"
        /\ P.inbox = [D.inbox EXCEPT ![Home] = Tail(@)]
    BY DEF Message1, Takes1
  <2>2. m.type \in Reads
    BY <2>1 DEF Reads
  <2> QED
    BY <1>1, <1>3, <2>1, <2>2, TakeRead
<1>5. AP.e = P.dir[b] /\ AP.r = HeadOf(q) /\ QueueInv(q) /\ ForwarderKnown(P.dir[b], protocol)
  BY <1>1, <1>3 DEF DirView, View, Settled, Kept
<1> HIDE DEF A, AP, A2
<1>6. A.r.wait /\ ~Idles(A) /\ CoreInv(A)
  BY <1>4 DEF ReadTaken, Stable, Quiet, Waiting, AwaitInv
<1>7. A.r = HeadOf(q) /\ A.e = P.dir[b] /\ q # <<>>
  BY <1>4, <1>5, <1>6, HeadFacts DEF ReadTaken, Idles
<1>8. A.r.type = Head(q).type /\ A.r.node = k /\ A.r.type \in Requests /\ k \in Node
  BY <1>5, <1>6, <1>7, HeadFacts DEF CoreInv, HeadInv
<1> HIDE DEF q, k
<1>9. A.s[k] = {}
  BY <1>6, <1>8 DEF CoreInv, HeadInv, CoreN, Token
<1>10. Kept(P, b) /\ AP.s[k] = {} /\ AP.r.node = k
  BY <1>4, <1>5, <1>7, <1>8, <1>9 DEF Kept, ReadTaken, q
<1>11. reply \in Replies /\ reply # "UPGRADE_REP"
  BY DEF Replies, Grants
<1>12. reply = IF A.r.type = "SH_REQ" /\ A.e.state = "SHARED" THEN "SH_REP" ELSE "EX_REP"
  BY <1>7, <1>8
<1>13. Unchanged(P, P, b)
  BY <1>1 DEF Unchanged
<1> HIDE DEF reply
<1>14. Replied(P, P, D2, b, AP, A2, reply)
  BY <1>1, <1>7, <1>8, <1>10, <1>11, <1>13, AnswerEffect DEF AP, A2, q
<1>d. D2 = processNextReq(sendTo(P, {k}, reply, b, data), b)
  OBVIOUS
<1> HIDE DEF D2
<1>15. /\ A2 \in AbsT /\ A2.e = A.e /\ ~A2.rd /\ Untouched(A, A2) /\ Dequeued(A, A2)
       /\ Answered(A, A2, reply)
  <2>1. A2 \in AbsT /\ A2.e = P.dir[b] /\ A2.rd = AP.rd
        /\ Untouched(AP, A2) /\ Dequeued(AP, A2) /\ Answered(AP, A2, reply)
    BY <1>14 DEF Replied
  <2> QED
    BY <1>4, <1>7, <2>1, ZenonT(60) DEF ReadTaken, Untouched, Dequeued, Answered
<1>16. Fresh(A2)
  BY <1>4, <1>6, <1>12, <1>15, DramAnswerLeavesFresh
<1>17. Handled(P, D2, b)
  BY <1>1, <1>5, <1>14, <1>16, RepliedHandled DEF A2
<1>18. HasEntry(P, b)
  BY <1>1, <1>3, <1>7 DEF EntriesFound, q
<1>19. Handling(D2, b, v)
  <2>1. HeadOf(P.reqs[b]).type # "NULLIFY_REQ"
    BY <1>7, <1>8 DEF Requests, q
  <2> QED
    BY <1>1, <1>17, <1>18, <2>1, SameHandling DEF Handled
<1>20. Running(D2, b, v)
  <2>1. HasEntry(D2, b)
    BY <1>17, <1>18 DEF Handled, HasEntry
  <2> QED
    BY <1>17, <1>19, <2>1 DEF Handled, Running, Turn, MayMiss
<1> QED
  BY <1>2, <1>d, <1>5, <1>7, <1>8, <1>17, <1>20 DEF DramAnswers, q, k, reply

\* It ends with every block settled.
LEMMA DramReplyHandled ==
  ASSUME CacheT, NEW D, Between(D), NEW P, NEW m, NEW b, NEW n, Message1(D, P, m, b, n, "DRAM_READ_REP"),
         NEW v, VictimOK(D, b, v), NEW data \in Data, NEW D3, D3 = processDRAMReply(P, b, v, data)
  PROVE  Done(D3, b, v)
<1>1. b \in Block /\ \E D2 : DramAnswers(P, D2, D3, b, v, data)
  BY DramReplyEnds DEF Message1
<1>2. \E D2 : Running(D2, b, v) /\ D3 = RunQueue(D2, b, v)
  BY <1>1 DEF DramAnswers
<1> QED
  BY <1>1, <1>2, QueueRuns
=============================================================================
