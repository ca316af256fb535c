--------------------------- MODULE MCRuntimeReset ---------------------------
(* Instances of RuntimeReset for TLC. *)
EXTENDS RuntimeReset
=============================================================================
