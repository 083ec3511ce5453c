---------------------------- MODULE MCKeepAlive ----------------------------
(* Model of KeepAlive for TLC. *)
EXTENDS KeepAlive
=============================================================================
