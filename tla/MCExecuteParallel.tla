------------------------- MODULE MCExecuteParallel -------------------------
(* Model of ExecuteParallel for TLC. *)
EXTENDS ExecuteParallel
=============================================================================
