------------------------------ MODULE MCAppSync ------------------------------
(* Model-checking instance of AppSync. *)
EXTENDS AppSync
=============================================================================
