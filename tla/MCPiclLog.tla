------------------------------ MODULE MCPiclLog ------------------------------
(* Model-checking instance of PiclLog: cores and blocks are interchangeable. *)
EXTENDS PiclLog, TLC

Symmetry == Permutations(Core) \cup Permutations(Block)
=============================================================================
