-------------------------- MODULE MCThreadPlacement --------------------------
(* Model-checking instance of ThreadPlacement. *)
EXTENDS ThreadPlacement, TLC

MCSymmetry == Permutations(Thread)
MCMasks == {{0}, Core}
=============================================================================
