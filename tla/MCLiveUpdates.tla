--------------------------- MODULE MCLiveUpdates ---------------------------
(* An instance of LiveUpdates for TLC. *)
EXTENDS LiveUpdates
=============================================================================
