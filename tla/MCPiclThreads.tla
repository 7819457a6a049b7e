---------------------------- MODULE MCPiclThreads ----------------------------
(* Model-checking instance of PiclThreads. *)
EXTENDS PiclThreads, TLC

Symmetry == Permutations(Core) \cup Permutations(Block) \cup Permutations(Thread)
=============================================================================
