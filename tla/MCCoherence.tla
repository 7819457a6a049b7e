---------------------------- MODULE MCCoherence ----------------------------
EXTENDS Coherence

\* Core i on node i.
OneCorePerNode == [c \in Core |-> c]

\* Cores 1 and 2 share the cache of node 2.
SharedCache == [c \in Core |-> IF c <= 2 THEN 2 ELSE 1]

AllAccesses == Core \X Block \X BOOLEAN

\* Core 3 only reads.
TwoWriters == {<<c, b, excl>> \in AllAccesses : ~excl \/ c # 3}

\* Core 1 reads and writes, the others write.
OneReader == {<<c, b, excl>> \in AllAccesses : excl \/ c = 1}

\* Three blocks, one of them written by core 1 and read by core 2.
OneSharedBlock == {<<1, 1, TRUE>>, <<1, 3, TRUE>>, <<2, 1, FALSE>>, <<2, 2, FALSE>>}
=============================================================================
