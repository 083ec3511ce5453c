------------------------------- MODULE MCSwap -------------------------------
(* Model of Swap for TLC. *)
EXTENDS Swap
=============================================================================
