---------------------------- MODULE PiclLog_proofs ----------------------------
(***************************************************************************)
(* Proofs about PiclLog, for every set of cores and blocks, every capacity *)
(* of the undo buffers and every ACS gap.                                  *)
(***************************************************************************)
EXTENDS PiclLog, TLAPS, FiniteSetTheorems, WellFoundedInduction, NaturalsInduction

(***************************************************************************)
(* A non-empty set of naturals below a bound has a greatest element: it is *)
(* the last round of the overflow loop that matters.                       *)
(***************************************************************************)
LEMMA GreatestBelow ==
  ASSUME NEW m \in Nat, NEW T, T \subseteq 0..m, T # {}
  PROVE  \E g \in T : \A h \in T : h <= g
<1> DEFINE R == OpToRel(<, Nat)
           D == {m - t : t \in T}
<1>1. D \subseteq Nat /\ D # {}
  <2>1. \A t \in T : t \in 0..m /\ m - t \in Nat
    OBVIOUS
  <2>2. PICK t \in T : TRUE
    OBVIOUS
  <2>3. m - t \in D
    OBVIOUS
  <2> QED
    BY <2>1, <2>3
<1>2. PICK x \in D : \A y \in D : ~(<<y, x>> \in R)
  <2>1. IsWellFoundedOn(R, Nat)
    BY NatLessThanWellFounded
  <2> QED
    BY <1>1, <2>1, WFMin
<1>3. PICK g \in T : x = m - g
  OBVIOUS
<1>4. ASSUME NEW h \in T PROVE h <= g
  <2>1. m - h \in D /\ m - h \in Nat /\ x \in Nat
    BY <1>1
  <2>2. ~(m - h < x)
    BY <1>2, <2>1 DEF OpToRel
  <2> QED
    BY <1>3, <2>1, <2>2
<1> QED
  BY <1>4

-----------------------------------------------------------------------------
(***************************************************************************)
(* What a flush takes out of a buffer: a prefix in the order of creation.  *)
(***************************************************************************)
LEMMA FlushTakesPrefix ==
  ASSUME IInv, NEW c \in Core, NEW eid \in Nat
  PROVE  /\ Flushed(c, eid) \cup Remaining(c, eid) = buffer[c]
         /\ \A x \in Flushed(c, eid), y \in Remaining(c, eid) : x.id < y.id
         /\ \A y \in Remaining(c, eid) : eid < y.till
         /\ Remaining(c, eid) \subseteq buffer[c]
         /\ IsFiniteSet(Remaining(c, eid))
         /\ Unlimited \/ Cardinality(Remaining(c, eid)) <= NumEntries
<1> DEFINE F == Flushed(c, eid)
           M == Remaining(c, eid)
<1>1. F \subseteq buffer[c] /\ M = buffer[c] \ F
  BY DEF Flushed, Remaining, FlushedEntries, OldEntries
<1>2. \A e \in buffer[c] : /\ e.id \in Nat /\ e.till \in Nat
                           /\ e \in Entries
  BY DEF IInv, TypeOK, UndoEntryType, Entries, OnChip
<1>3. M = {} \/ F = OldEntries(buffer[c], eid)
  BY <1>1 DEF Flushed, FlushedEntries
<1>4. \A y \in M : eid < y.till
  BY <1>1, <1>2, <1>3 DEF OldEntries
<1>5. ASSUME NEW x \in F, NEW y \in M PROVE x.id < y.id
  <2>1. x \in buffer[c] /\ y \in buffer[c] /\ x # y
    BY <1>1
  <2>2. x.till <= eid /\ eid < y.till
    BY <1>3, <1>4 DEF OldEntries
  <2>3. x.id # y.id
    BY <1>2, <2>1 DEF IInv, LoggedOnceInOrder
  <2>4. y.id < x.id => y.till <= x.till
    BY <2>1 DEF IInv, EpochOrdered
  <2> QED
    BY <1>2, <2>1, <2>2, <2>3, <2>4
<1>6. IsFiniteSet(M) /\ Cardinality(M) <= Cardinality(buffer[c])
  <2>1. IsFiniteSet(buffer[c]) /\ M \in SUBSET buffer[c]
    BY <1>1 DEF IInv
  <2> QED
    BY <2>1, FS_Subset
<1>7. Unlimited \/ Cardinality(M) <= NumEntries
  <2>1. Cardinality(M) \in Nat /\ Cardinality(buffer[c]) \in Nat
    BY <1>6, FS_CardinalityType DEF IInv
  <2> QED
    BY <1>6, <2>1, NumEntriesAssumption DEF IInv, CapacityRespected
<1> QED
  BY <1>1, <1>4, <1>5, <1>6, <1>7

(***************************************************************************)
(* The overflow loop of insertUndoEntry stops with room in the buffer and  *)
(* persists an epoch that is at most AcsGap behind the running one.        *)
(***************************************************************************)
LEMMA OverflowLoopMakesRoom ==
  ASSUME IInv, NEW c \in Core, isFull(buffer[c])
  PROVE  /\ StopGap(c) \in 0..MaxGap
         /\ MaxGap \in Nat /\ MaxGap <= AcsGap /\ MaxGap <= system_eid
         /\ ~isFull(Remaining(c, system_eid - StopGap(c)))
<1>1. MaxGap \in Nat /\ MaxGap <= AcsGap /\ MaxGap <= system_eid
  BY AcsGapAssumption DEF MaxGap, IInv, TypeOK
<1> DEFINE Room == {g \in 0..MaxGap : ~isFull(Remaining(c, system_eid - g))}
<1>2. 0 \in Room
  <2>1. system_eid - 0 = system_eid
    BY DEF IInv, TypeOK
  <2>2. Remaining(c, system_eid - 0) = {}
    BY <2>1 DEF Remaining, Flushed, FlushedEntries
  <2>3. ~isFull({})
    BY FS_EmptySet, NumEntriesAssumption DEF isFull, Unlimited
  <2> QED
    BY <1>1, <2>2, <2>3
<1>3. PICK g \in Room : \A h \in Room : h <= g
  BY <1>1, <1>2, GreatestBelow
<1>4. \A h \in 0..MaxGap : h > g => isFull(Remaining(c, system_eid - h))
  BY <1>1, <1>3
<1>5. \E k \in 0..MaxGap :
        /\ ~isFull(Remaining(c, system_eid - k))
        /\ \A h \in 0..MaxGap : h > k => isFull(Remaining(c, system_eid - h))
  BY <1>3, <1>4
<1>6. /\ StopGap(c) \in 0..MaxGap
      /\ ~isFull(Remaining(c, system_eid - StopGap(c)))
  BY <1>5 DEF StopGap
<1> QED
  BY <1>1, <1>6

-----------------------------------------------------------------------------
(***************************************************************************)
(* Creating an entry for b in the buffer of c keeps the invariant, when    *)
(* before that K is what a flush (or no flush) left in the buffer and L    *)
(* what the log then holds.                                                *)
(***************************************************************************)
LEMMA NewEntryKeepsInvariant ==
  ASSUME IInv, NEW c \in Core, NEW b \in Block, NEW K, NEW L,
         K \subseteq buffer[c],
         K \cup L = buffer[c] \cup log[c],
         \A x \in L, y \in K : x.id < y.id,
         IsFiniteSet(K),
         ~isFull(K),
         Unlimited \/ Cardinality(K) <= NumEntries,
         block_eid[b] # system_eid,
         buffer' = [buffer EXCEPT ![c] = insertUndoEntry(K, NewEntry(b))],
         log' = [log EXCEPT ![c] = L],
         persisted_eid' \in Nat, persisted_eid' <= system_eid,
         TagBlock(b)
  PROVE  IInv'
<1> DEFINE n == NewEntry(b)
<1>1. /\ n = [id |-> next_id, tag |-> b, from |-> block_eid[b], till |-> system_eid]
      /\ n \in UndoEntryType
      /\ n.id = next_id /\ n.tag = b /\ n.from = block_eid[b] /\ n.till = system_eid
  BY DEF NewEntry, UndoEntry, UndoEntryType, IInv, TypeOK
<1>2. /\ system_eid' = system_eid /\ filled_at' = filled_at
      /\ next_id' = next_id + 1 /\ next_id \in Nat \ {0}
      /\ block_eid' = [block_eid EXCEPT ![b] = system_eid]
      /\ system_eid \in Nat
  BY DEF TagBlock, IInv, TypeOK
<1>3. /\ buffer'[c] = K \cup {n} /\ log'[c] = L
      /\ \A d \in Core : d # c => buffer'[d] = buffer[d] /\ log'[d] = log[d]
  BY DEF insertUndoEntry, IInv, TypeOK
<1>4. \A e \in Entries : /\ e \in UndoEntryType /\ e.id \in 1..(next_id - 1)
                         /\ e.from \in Nat /\ e.till \in Nat
  <2>1. \A e \in Entries : e \in UndoEntryType
    BY DEF Entries, OnChip, Logged, IInv, TypeOK
  <2>2. \A e \in Entries : e.id \in 1..(next_id - 1)
    BY DEF IInv, LoggedOnceInOrder
  <2> QED
    BY <2>1, <2>2 DEF UndoEntryType
<1>5. Entries' = Entries \cup {n}
  <2>1. \A d \in Core : buffer'[d] \cup log'[d]
                         = IF d = c THEN buffer[d] \cup log[d] \cup {n}
                                    ELSE buffer[d] \cup log[d]
    BY <1>3
  <2>2. /\ Entries = UNION {buffer[d] \cup log[d] : d \in Core}
        /\ Entries' = UNION {buffer'[d] \cup log'[d] : d \in Core}
    BY DEF Entries, OnChip, Logged
  <2>3. \A e : e \in Entries' <=> e \in Entries \/ e = n
    BY <2>1, <2>2
  <2> QED
    BY <2>3
<1>6. n \notin Entries
  BY <1>1, <1>2, <1>4
<1>7. TypeOK'
  <2>1. K \subseteq UndoEntryType /\ L \subseteq UndoEntryType
    BY DEF IInv, TypeOK
  <2>2. buffer' \in [Core -> SUBSET UndoEntryType] /\ log' \in [Core -> SUBSET UndoEntryType]
    BY <1>1, <2>1 DEF insertUndoEntry, IInv, TypeOK
  <2> QED
    BY <1>2, <2>2 DEF IInv, TypeOK
<1>8. \A d \in Core : IsFiniteSet(buffer'[d])
  BY <1>3, FS_AddElement DEF IInv
<1>9. CapacityRespected'
  <2>1. CASE Unlimited
    BY <2>1 DEF CapacityRespected, Unlimited
  <2>2. CASE ~Unlimited
    <3>1. Cardinality(K) \in Nat /\ Cardinality(K) < NumEntries
      BY <2>2, FS_CardinalityType, NumEntriesAssumption DEF isFull
    <3>2. Cardinality(K \cup {n}) <= NumEntries
      <4>1. Cardinality(K \cup {n}) = IF n \in K THEN Cardinality(K) ELSE Cardinality(K) + 1
        BY FS_AddElement
      <4> QED
        BY <3>1, <4>1, NumEntriesAssumption
    <3>3. \A d \in Core : d # c => Cardinality(buffer'[d]) <= NumEntries
      BY <1>3, <2>2 DEF IInv, CapacityRespected
    <3>4. \A d \in Core : Cardinality(buffer'[d]) <= NumEntries
      BY <1>3, <3>2, <3>3
    <3> QED
      BY <3>4 DEF CapacityRespected
  <2> QED
    BY <2>1, <2>2
<1>10. EpochOrdered'
  <2> SUFFICES ASSUME NEW d \in Core, NEW x \in buffer'[d], NEW y \in buffer'[d], x.id < y.id
               PROVE  x.till <= y.till
    BY DEF EpochOrdered
  <2>1. CASE x \in buffer[d] /\ y \in buffer[d]
    BY <2>1 DEF IInv, EpochOrdered
  <2>2. CASE x \in buffer[d] /\ y = n
    BY <1>1, <2>2 DEF IInv, ScanBoundsResidency, OnChip
  <2>3. ~(x = n)
    <3>1. y \in Entries \/ y = n
      BY <1>5 DEF Entries, OnChip
    <3> QED
      BY <1>1, <1>2, <1>4, <3>1
  <2> QED
    BY <1>3, <2>1, <2>2, <2>3
<1>11. EpochsBounded'
  BY <1>2 DEF IInv, EpochsBounded, TypeOK
<1>12. LoggedOnceInOrder'
  <2>1. {e.id : e \in Entries'} = 1..(next_id' - 1)
    <3>1. {e.id : e \in Entries'} = {e.id : e \in Entries} \cup {next_id}
      BY <1>1, <1>5
    <3>2. 1..(next_id' - 1) = 1..(next_id - 1) \cup {next_id}
      BY <1>2
    <3> QED
      BY <3>1, <3>2 DEF IInv, LoggedOnceInOrder
  <2>2. \A x, y \in Entries' : x.id = y.id => x = y
    BY <1>1, <1>2, <1>4, <1>5 DEF IInv, LoggedOnceInOrder
  <2>3. \A d \in Core : \A x \in log'[d], y \in buffer'[d] : x.id < y.id
    <3> SUFFICES ASSUME NEW d \in Core, NEW x \in log'[d], NEW y \in buffer'[d]
                 PROVE  x.id < y.id
      OBVIOUS
    <3>1. x \in buffer[d] \cup log[d] /\ x \in Entries
      BY <1>3 DEF Entries, OnChip, Logged
    <3>2. CASE y = n
      BY <1>1, <1>2, <1>4, <3>1, <3>2
    <3>3. CASE y # n
      BY <1>3, <3>3 DEF IInv, LoggedOnceInOrder
    <3> QED
      BY <3>2, <3>3
  <2>4. \A d1, d2 \in Core : d1 # d2 =>
            (buffer'[d1] \cup log'[d1]) \cap (buffer'[d2] \cup log'[d2]) = {}
    <3>1. \A d \in Core : /\ d # c => buffer'[d] \cup log'[d] = buffer[d] \cup log[d]
                          /\ d = c => buffer'[d] \cup log'[d] = buffer[d] \cup log[d] \cup {n}
                          /\ n \notin buffer[d] \cup log[d]
      BY <1>3, <1>6 DEF Entries, OnChip, Logged
    <3> QED
      BY <3>1 DEF IInv, LoggedOnceInOrder
  <2> QED
    BY <2>1, <2>2, <2>3, <2>4 DEF LoggedOnceInOrder, Entries, OnChip, Logged
<1>13. ScanBoundsResidency'
  <2> SUFFICES ASSUME NEW d \in Core, NEW e \in buffer'[d]
               PROVE  e.till <= system_eid /\ system_eid <= e.till + AcsGap
    BY <1>2 DEF ScanBoundsResidency, OnChip
  <2>1. CASE e = n
    BY <1>1, <1>2, <2>1, AcsGapAssumption
  <2>2. CASE e # n
    BY <1>3, <2>2 DEF IInv, ScanBoundsResidency, OnChip
  <2> QED
    BY <2>1, <2>2
<1>14. UndoChain'
  <2>1. \A d \in Block : d # b => Chain(d)' = Chain(d) /\ block_eid'[d] = block_eid[d]
    BY <1>1, <1>2, <1>5 DEF Chain, IInv, TypeOK
  <2>2. Chain(b)' = Chain(b) \cup {n} /\ block_eid'[b] = system_eid
    BY <1>1, <1>2, <1>5 DEF Chain, IInv, TypeOK, EpochsBounded
  <2>3. block_eid[b] \in Nat /\ block_eid[b] < system_eid
    BY <1>2 DEF IInv, TypeOK, EpochsBounded
  <2>4. \A e \in Chain(b) : /\ e.from \in Nat /\ e.till \in Nat
                            /\ e.from < e.till /\ e.till <= block_eid[b]
    BY <1>4 DEF Chain, IInv, UndoChain
  <2>5. \A e \in Chain(b)' : e.from < e.till /\ e.till <= block_eid'[b]
    BY <1>1, <1>2, <2>2, <2>3, <2>4
  <2>6. ASSUME NEW k \in 0..(system_eid - 1)
        PROVE  \E e \in Chain(b)' :
                 /\ e.from <= k /\ k < e.till
                 /\ \A d \in Chain(b)' : d.from <= k /\ k < d.till => d = e
    <3>1. CASE k < block_eid[b]
      <4>1. k \in 0..(block_eid[b] - 1)
        BY <2>3, <3>1
      <4>2. PICK e \in Chain(b) :
              /\ e.from <= k /\ k < e.till
              /\ \A d \in Chain(b) : d.from <= k /\ k < d.till => d = e
        BY <4>1 DEF IInv, UndoChain
      <4>3. ~(n.from <= k)
        BY <1>1, <2>3, <3>1
      <4> QED
        BY <2>2, <4>2, <4>3
    <3>2. CASE ~(k < block_eid[b])
      <4>1. n.from <= k /\ k < n.till
        BY <1>1, <1>2, <2>3, <3>2
      <4>2. \A d \in Chain(b) : ~(k < d.till)
        BY <2>3, <2>4, <3>2
      <4> QED
        BY <2>2, <4>1, <4>2
    <3> QED
      BY <3>1, <3>2
  <2>7. \A d \in Block : d # b =>
          /\ \A e \in Chain(d)' : e.from < e.till /\ e.till <= block_eid'[d]
          /\ \A k \in 0..(block_eid'[d] - 1) :
               \E e \in Chain(d)' :
                 /\ e.from <= k /\ k < e.till
                 /\ \A f \in Chain(d)' : f.from <= k /\ k < f.till => f = e
    BY <2>1 DEF IInv, UndoChain
  <2> QED
    BY <2>2, <2>5, <2>6, <2>7 DEF UndoChain
<1> QED
  BY <1>7, <1>8, <1>9, <1>10, <1>11, <1>12, <1>13, <1>14 DEF IInv

(***************************************************************************)
(* Flushing every core up to an epoch keeps the invariant, also when the   *)
(* running epoch is incremented in the same step, provided the flushed     *)
(* epoch is AcsGap behind the old one (which is what asyncCacheScan does). *)
(***************************************************************************)
LEMMA FlushKeepsInvariant ==
  ASSUME IInv, NEW eid \in Nat, eid <= system_eid,
         FlushCores(Core, eid),
         \/ system_eid' = system_eid
         \/ system_eid' = system_eid + 1 /\ eid + AcsGap = system_eid,
         UNCHANGED <<block_eid, next_id, filled_at>>
  PROVE  IInv'
<1>1. \A c \in Core : /\ buffer'[c] = Remaining(c, eid)
                      /\ log'[c] = log[c] \cup Flushed(c, eid)
  BY DEF FlushCores
<1>2. \A c \in Core :
        /\ buffer'[c] \subseteq buffer[c]
        /\ buffer'[c] \cup log'[c] = buffer[c] \cup log[c]
        /\ \A x \in Flushed(c, eid), y \in buffer'[c] : x.id < y.id
        /\ \A y \in buffer'[c] : eid < y.till
        /\ IsFiniteSet(buffer'[c])
        /\ Unlimited \/ Cardinality(buffer'[c]) <= NumEntries
  BY <1>1, FlushTakesPrefix
<1>3. Entries' = Entries
  <2>1. /\ Entries = UNION {buffer[d] \cup log[d] : d \in Core}
        /\ Entries' = UNION {buffer'[d] \cup log'[d] : d \in Core}
    BY DEF Entries, OnChip, Logged
  <2> QED
    BY <1>2, <2>1
<1>4. /\ system_eid \in Nat \ {0} /\ system_eid' \in Nat \ {0} /\ system_eid <= system_eid'
      /\ persisted_eid' = eid
  BY DEF IInv, TypeOK, FlushCores
<1>5. TypeOK'
  <2>1. \A c \in Core : /\ buffer'[c] \in SUBSET UndoEntryType
                        /\ log'[c] \in SUBSET UndoEntryType
    BY <1>2 DEF IInv, TypeOK
  <2>2. buffer' \in [Core -> SUBSET UndoEntryType] /\ log' \in [Core -> SUBSET UndoEntryType]
    BY <2>1 DEF FlushCores
  <2> QED
    BY <1>4, <2>2 DEF IInv, TypeOK
<1>6. CapacityRespected'
  BY <1>2 DEF CapacityRespected, Unlimited
<1>7. EpochOrdered'
  BY <1>2 DEF IInv, EpochOrdered
<1>8. EpochsBounded'
  BY <1>4 DEF IInv, EpochsBounded, TypeOK
<1>9. LoggedOnceInOrder'
  <2>1. \A c \in Core : \A x \in log'[c], y \in buffer'[c] : x.id < y.id
    BY <1>1, <1>2 DEF IInv, LoggedOnceInOrder
  <2> QED
    BY <1>2, <1>3, <2>1 DEF IInv, LoggedOnceInOrder
<1>10. ScanBoundsResidency'
  <2> SUFFICES ASSUME NEW c \in Core, NEW e \in buffer'[c]
               PROVE  e.till <= system_eid' /\ system_eid' <= e.till + AcsGap
    BY DEF ScanBoundsResidency, OnChip
  <2>1. /\ e.till \in Nat /\ eid < e.till
        /\ e.till <= system_eid /\ system_eid <= e.till + AcsGap
    BY <1>2 DEF IInv, TypeOK, UndoEntryType, ScanBoundsResidency, OnChip
  <2> QED
    BY <1>4, <2>1, AcsGapAssumption
<1>11. UndoChain'
  BY <1>3 DEF IInv, UndoChain, Chain
<1> QED
  BY <1>2, <1>5, <1>6, <1>7, <1>8, <1>9, <1>10, <1>11 DEF IInv

-----------------------------------------------------------------------------
LEMMA InitInvariant == Init => IInv
<1> SUFFICES ASSUME Init PROVE IInv
  OBVIOUS
<1>1. /\ system_eid = 1 /\ persisted_eid = 0 /\ next_id = 1
      /\ \A c \in Core : buffer[c] = {} /\ log[c] = {}
      /\ \A b \in Block : block_eid[b] = 0 /\ filled_at[b] = 1
  BY DEF Init
<1>2. OnChip = {} /\ Entries = {}
  BY <1>1 DEF OnChip, Entries, Logged
<1>3. TypeOK
  BY DEF Init, TypeOK
<1>4. \A c \in Core : IsFiniteSet(buffer[c]) /\ Cardinality(buffer[c]) = 0
  BY <1>1, FS_EmptySet
<1>5. LoggedOnceInOrder
  BY <1>1, <1>2 DEF LoggedOnceInOrder
<1>6. UndoChain
  BY <1>1, <1>2 DEF UndoChain, Chain
<1>7. CapacityRespected
  BY <1>4, NumEntriesAssumption DEF CapacityRespected
<1> QED
  BY <1>1, <1>2, <1>3, <1>4, <1>5, <1>6, <1>7
  DEF IInv, EpochOrdered, EpochsBounded, ScanBoundsResidency

(***************************************************************************)
(* Every action preserves the invariant.                                   *)
(***************************************************************************)
LEMMA NextInvariant == IInv /\ [Next]_vars => IInv'
<1> SUFFICES ASSUME IInv, [Next]_vars PROVE IInv'
  OBVIOUS
<1>1. ASSUME NEW c \in Core, NEW b \in Block, WriteCacheBlock(c, b)
      PROVE  IInv'
  <2> DEFINE K == buffer[c]
             L == log[c]
  <2>1. /\ K \subseteq buffer[c] /\ K \cup L = buffer[c] \cup log[c]
        /\ \A x \in L, y \in K : x.id < y.id
        /\ IsFiniteSet(K)
        /\ Unlimited \/ Cardinality(K) <= NumEntries
    BY DEF IInv, LoggedOnceInOrder, CapacityRespected
  <2>2. /\ ~isFull(K) /\ block_eid[b] # system_eid /\ TagBlock(b)
        /\ buffer' = [buffer EXCEPT ![c] = insertUndoEntry(K, NewEntry(b))]
        /\ log' = [log EXCEPT ![c] = L]
        /\ persisted_eid' \in Nat /\ persisted_eid' <= system_eid
    BY <1>1 DEF WriteCacheBlock, IInv, TypeOK, EpochsBounded
  <2> HIDE DEF K, L
  <2> QED
    BY <2>1, <2>2, NewEntryKeepsInvariant
<1>2. ASSUME NEW c \in Core, NEW b \in Block, WriteCacheBlockOverflow(c, b)
      PROVE  IInv'
  <2> DEFINE eid == system_eid - StopGap(c)
             K == Remaining(c, eid)
             L == log[c] \cup Flushed(c, eid)
  <2>1. eid \in Nat /\ eid <= system_eid /\ ~isFull(K)
    <3>1. isFull(buffer[c])
      BY <1>2 DEF WriteCacheBlockOverflow
    <3> QED
      BY <3>1, OverflowLoopMakesRoom DEF IInv, TypeOK
  <2>2. /\ K \subseteq buffer[c] /\ K \cup L = buffer[c] \cup log[c]
        /\ \A x \in L, y \in K : x.id < y.id
        /\ IsFiniteSet(K)
        /\ Unlimited \/ Cardinality(K) <= NumEntries
    <3> HIDE DEF eid
    <3>1. /\ Flushed(c, eid) \cup K = buffer[c]
          /\ \A x \in Flushed(c, eid), y \in K : x.id < y.id
          /\ K \subseteq buffer[c]
          /\ IsFiniteSet(K)
          /\ Unlimited \/ Cardinality(K) <= NumEntries
      BY <2>1, FlushTakesPrefix
    <3>2. \A x \in log[c], y \in K : x.id < y.id
      BY <3>1 DEF IInv, LoggedOnceInOrder
    <3> QED
      BY <3>1, <3>2
  <2>3. /\ block_eid[b] # system_eid /\ TagBlock(b)
        /\ buffer' = [buffer EXCEPT ![c] = insertUndoEntry(K, NewEntry(b))]
        /\ log' = [log EXCEPT ![c] = L]
        /\ persisted_eid' = eid
    BY <1>2 DEF WriteCacheBlockOverflow, IInv, TypeOK
  <2> HIDE DEF eid, K, L
  <2> QED
    BY <2>1, <2>2, <2>3, NewEntryKeepsInvariant
<1>3. ASSUME NEW b \in Block, RefillCacheBlock(b)
      PROVE  IInv'
  <2>1. /\ UNCHANGED <<system_eid, persisted_eid, buffer, log, next_id>>
        /\ block_eid' = [block_eid EXCEPT ![b] = 0]
        /\ filled_at' = [filled_at EXCEPT ![b] = next_id]
    BY <1>3 DEF RefillCacheBlock
  <2>2. Entries' = Entries /\ OnChip' = OnChip
    BY <2>1 DEF Entries, OnChip, Logged
  <2>3. TypeOK' /\ EpochsBounded'
    BY <2>1 DEF IInv, TypeOK, EpochsBounded
  <2>4. UndoChain'
    <3>1. \A d \in Block : d # b => Chain(d)' = Chain(d) /\ block_eid'[d] = block_eid[d]
      BY <2>1, <2>2 DEF Chain, IInv, TypeOK
    <3>2. Chain(b)' = {} /\ block_eid'[b] = 0
      <4>1. \A e \in Entries : e.id \in 1..(next_id - 1)
        BY DEF IInv, LoggedOnceInOrder
      <4> QED
        BY <2>1, <2>2, <4>1 DEF Chain, IInv, TypeOK
    <3>3. \A d \in Block : d # b =>
            /\ \A e \in Chain(d)' : e.from < e.till /\ e.till <= block_eid'[d]
            /\ \A k \in 0..(block_eid'[d] - 1) :
                 \E e \in Chain(d)' :
                   /\ e.from <= k /\ k < e.till
                   /\ \A f \in Chain(d)' : f.from <= k /\ k < f.till => f = e
      BY <3>1 DEF IInv, UndoChain
    <3>4. 0..(block_eid'[b] - 1) = {}
      BY <3>2
    <3> QED
      BY <3>2, <3>3, <3>4 DEF UndoChain
  <2> QED
    BY <2>1, <2>2, <2>3, <2>4
    DEF IInv, CapacityRespected, EpochOrdered, LoggedOnceInOrder, ScanBoundsResidency
<1>4. CASE PeriodicHook
  <2>1. CASE system_eid >= AcsGap
    <3> DEFINE eid == system_eid - AcsGap
    <3>1. eid \in Nat /\ eid <= system_eid /\ eid + AcsGap = system_eid
      BY <2>1, AcsGapAssumption DEF IInv, TypeOK
    <3>2. /\ FlushCores(Core, eid) /\ system_eid' = system_eid + 1
          /\ UNCHANGED <<block_eid, next_id, filled_at>>
      BY <1>4, <2>1 DEF PeriodicHook
    <3> HIDE DEF eid
    <3> QED
      BY <3>1, <3>2, FlushKeepsInvariant
  <2>2. CASE ~(system_eid >= AcsGap)
    <3>1. /\ system_eid' = system_eid + 1
          /\ UNCHANGED <<buffer, log, persisted_eid, block_eid, next_id, filled_at>>
      BY <1>4, <2>2 DEF PeriodicHook
    <3>2. Entries' = Entries /\ OnChip' = OnChip
      BY <3>1 DEF Entries, OnChip, Logged
    <3>3. TypeOK' /\ EpochsBounded'
      BY <3>1 DEF IInv, TypeOK, EpochsBounded
    <3>4. ScanBoundsResidency'
      <4> SUFFICES ASSUME NEW c \in Core, NEW e \in buffer[c]
                   PROVE  e.till <= system_eid' /\ system_eid' <= e.till + AcsGap
        BY <3>1 DEF ScanBoundsResidency, OnChip
      <4>1. e.till \in Nat /\ e.till <= system_eid
        BY DEF IInv, TypeOK, UndoEntryType, ScanBoundsResidency, OnChip
      <4> QED
        BY <2>2, <3>1, <4>1, AcsGapAssumption DEF IInv, TypeOK
    <3> QED
      BY <3>1, <3>2, <3>3, <3>4
      DEF IInv, CapacityRespected, EpochOrdered, LoggedOnceInOrder, UndoChain, Chain
  <2> QED
    BY <2>1, <2>2
<1>5. CASE ApplicationExit
  <2>1. system_eid \in Nat /\ system_eid <= system_eid
    BY DEF IInv, TypeOK
  <2> QED
    BY <1>5, <2>1, FlushKeepsInvariant DEF ApplicationExit
<1>6. CASE UNCHANGED vars
  <2>1. UNCHANGED <<system_eid, persisted_eid, buffer, log, block_eid, next_id, filled_at>>
    BY <1>6 DEF vars
  <2>2. Entries' = Entries /\ OnChip' = OnChip
    BY <2>1 DEF Entries, OnChip, Logged
  <2>3. TypeOK' /\ EpochsBounded' /\ CapacityRespected' /\ EpochOrdered'
    BY <2>1 DEF IInv, TypeOK, EpochsBounded, CapacityRespected, EpochOrdered
  <2>4. LoggedOnceInOrder' /\ ScanBoundsResidency'
    BY <2>1, <2>2 DEF IInv, LoggedOnceInOrder, ScanBoundsResidency
  <2>5. UndoChain'
    BY <2>1, <2>2 DEF IInv, UndoChain, Chain
  <2> QED
    BY <2>1, <2>3, <2>4, <2>5 DEF IInv
<1>7. ASSUME NEW b \in Block, RewriteCacheBlock(b)
      PROVE  IInv'
  BY <1>6, <1>7 DEF RewriteCacheBlock
<1> QED
  BY <1>1, <1>2, <1>3, <1>4, <1>5, <1>6, <1>7 DEF Next

(***************************************************************************)
(* The invariant holds in every reachable state.                           *)
(***************************************************************************)
THEOREM InvariantHolds == Spec => []IInv
BY InitInvariant, NextInvariant, PTL DEF Spec

(***************************************************************************)
(* Type correctness of the epochs, the buffers and the log.                *)
(***************************************************************************)
THEOREM TypeCorrect == Spec => []TypeOK
<1>1. IInv => TypeOK
  BY DEF IInv
<1> QED
  BY <1>1, InvariantHolds, PTL

(***************************************************************************)
(* OnChipUndoBuffer::insertUndoEntry never finds the buffer full: the      *)
(* overflow loop of the controller always makes room first.                *)
(***************************************************************************)
THEOREM BufferNeverOverflows == Spec => []CapacityRespected
<1>1. IInv => CapacityRespected
  BY DEF IInv
<1> QED
  BY <1>1, InvariantHolds, PTL

(***************************************************************************)
(* No flush loses, duplicates or reorders an undo entry.                   *)
(***************************************************************************)
THEOREM LogIsExact == Spec => []LoggedOnceInOrder
<1>1. IInv => LoggedOnceInOrder
  BY DEF IInv
<1> QED
  BY <1>1, InvariantHolds, PTL

(***************************************************************************)
(* asyncCacheScan bounds how long an undo entry stays on the chip.         *)
(***************************************************************************)
THEOREM ResidencyIsBounded == Spec => []ScanBoundsResidency
<1>1. IInv => ScanBoundsResidency
  BY DEF IInv
<1> QED
  BY <1>1, InvariantHolds, PTL

(***************************************************************************)
(* The undo entries of a block cover each earlier epoch exactly once.      *)
(***************************************************************************)
THEOREM ChainIsComplete == Spec => []UndoChain
<1>1. IInv => UndoChain
  BY DEF IInv
<1> QED
  BY <1>1, InvariantHolds, PTL

(***************************************************************************)
(* setGlobalPersistedEID may move the persisted epoch back, but never by   *)
(* more than AcsGap.                                                       *)
(***************************************************************************)
THEOREM RegressIsBounded == Spec => PersistedRegressBounded
<1>1. IInv /\ [Next]_vars => [persisted_eid <= persisted_eid' + AcsGap]_persisted_eid
  <2> SUFFICES ASSUME IInv, [Next]_vars, persisted_eid' # persisted_eid
               PROVE  persisted_eid <= persisted_eid' + AcsGap
    OBVIOUS
  <2>1. system_eid \in Nat /\ persisted_eid \in Nat /\ persisted_eid <= system_eid
    BY DEF IInv, TypeOK, EpochsBounded
  <2>2. ASSUME NEW c \in Core, NEW b \in Block, WriteCacheBlockOverflow(c, b)
        PROVE  persisted_eid <= persisted_eid' + AcsGap
    <3>1. persisted_eid' = system_eid - StopGap(c) /\ isFull(buffer[c])
      BY <2>2 DEF WriteCacheBlockOverflow
    <3>2. StopGap(c) \in Nat /\ StopGap(c) <= AcsGap
      BY <3>1, OverflowLoopMakesRoom, AcsGapAssumption
    <3> QED
      BY <2>1, <3>1, <3>2, AcsGapAssumption
  <2>3. CASE PeriodicHook
    BY <2>1, <2>3, AcsGapAssumption DEF PeriodicHook, FlushCores
  <2>4. CASE ApplicationExit
    BY <2>1, <2>4, AcsGapAssumption DEF ApplicationExit, FlushCores
  <2> QED
    BY <2>2, <2>3, <2>4
    DEF Next, vars, RewriteCacheBlock, WriteCacheBlock, RefillCacheBlock
<1> QED
  BY <1>1, InvariantHolds, PTL DEF Spec, PersistedRegressBounded

(***************************************************************************)
(* What flush(eid) leaves in a buffer is not older than eid.               *)
(***************************************************************************)
LEMMA RemainingIsNotOlder ==
  ASSUME IInv, NEW c \in Core, NEW eid \in Nat
  PROVE  \A e \in Remaining(c, eid) : e \in buffer[c] /\ e.till >= eid
<1>1. \A e \in buffer[c] : e.till \in Nat
  BY DEF IInv, TypeOK, UndoEntryType
<1> QED
  BY <1>1 DEF Remaining, Flushed, FlushedEntries, OldEntries

(***************************************************************************)
(* However overflow flushes, scans and exits of several cores follow each  *)
(* other, the persisted epoch is one that some core has logged completely. *)
(***************************************************************************)
THEOREM PersistedIsVouchedFor == Spec => []PersistedIsLogged
<1>1. Init => PersistedIsLogged
  BY CoreAssumption DEF Init, PersistedIsLogged
<1>2. IInv /\ PersistedIsLogged /\ [Next]_vars => PersistedIsLogged'
  <2> SUFFICES ASSUME IInv, PersistedIsLogged, [Next]_vars
               PROVE  PersistedIsLogged'
    OBVIOUS
  <2>1. /\ system_eid \in Nat /\ persisted_eid \in Nat /\ persisted_eid <= system_eid
        /\ buffer \in [Core -> SUBSET UndoEntryType]
    BY DEF IInv, TypeOK, EpochsBounded
  <2>2. PICK k \in Core : \A e \in buffer[k] : e.till >= persisted_eid
    BY DEF PersistedIsLogged
  <2>3. \A b \in Block : NewEntry(b).till = system_eid
    BY DEF NewEntry, UndoEntry
  <2>4. ASSUME NEW c \in Core, NEW b \in Block, WriteCacheBlock(c, b)
        PROVE  PersistedIsLogged'
    <3>1. /\ buffer' = [buffer EXCEPT ![c] = @ \cup {NewEntry(b)}]
          /\ persisted_eid' = persisted_eid
      BY <2>4 DEF WriteCacheBlock, insertUndoEntry
    <3>2. buffer'[k] \subseteq buffer[k] \cup {NewEntry(b)}
      BY <2>1, <3>1
    <3>3. \A e \in buffer'[k] : e.till >= persisted_eid'
      BY <2>1, <2>2, <2>3, <3>1, <3>2
    <3> QED
      BY <3>3 DEF PersistedIsLogged
  <2>5. ASSUME NEW c \in Core, NEW b \in Block, WriteCacheBlockOverflow(c, b)
        PROVE  PersistedIsLogged'
    <3> DEFINE eid == system_eid - StopGap(c)
    <3>1. /\ buffer' = [buffer EXCEPT ![c] = Remaining(c, eid) \cup {NewEntry(b)}]
          /\ persisted_eid' = eid
      BY <2>5 DEF WriteCacheBlockOverflow, insertUndoEntry
    <3>2. eid \in Nat /\ eid <= system_eid
      BY <2>1, <2>5, OverflowLoopMakesRoom DEF WriteCacheBlockOverflow
    <3> HIDE DEF eid
    <3>3. buffer'[c] = Remaining(c, eid) \cup {NewEntry(b)}
      BY <2>1, <3>1
    <3>4. \A e \in buffer'[c] : e.till >= persisted_eid'
      BY <2>1, <2>3, <3>1, <3>2, <3>3, RemainingIsNotOlder
    <3> QED
      BY <3>4 DEF PersistedIsLogged
  <2>6. ASSUME NEW eid \in Nat, FlushCores(Core, eid)
        PROVE  PersistedIsLogged'
    <3>1. buffer'[k] = Remaining(k, eid) /\ persisted_eid' = eid
      BY <2>6 DEF FlushCores
    <3> QED
      BY <3>1, RemainingIsNotOlder DEF PersistedIsLogged
  <2>7. ASSUME UNCHANGED <<buffer, persisted_eid>>
        PROVE  PersistedIsLogged'
    BY <2>2, <2>7 DEF PersistedIsLogged
  <2>8. CASE PeriodicHook
    <3>1. CASE system_eid >= AcsGap
      <4>1. system_eid - AcsGap \in Nat
        BY <2>1, <3>1, AcsGapAssumption
      <4>2. FlushCores(Core, system_eid - AcsGap)
        BY <2>8, <3>1 DEF PeriodicHook
      <4> QED
        BY <2>6, <4>1, <4>2
    <3>2. CASE ~(system_eid >= AcsGap)
      BY <2>7, <2>8, <3>2 DEF PeriodicHook
    <3> QED
      BY <3>1, <3>2
  <2>9. CASE ApplicationExit
    BY <2>1, <2>6, <2>9 DEF ApplicationExit
  <2> QED
    BY <2>4, <2>5, <2>7, <2>8, <2>9 DEF Next, vars, RewriteCacheBlock, RefillCacheBlock
<1> QED
  BY <1>1, <1>2, InvariantHolds, PTL DEF Spec
=============================================================================
