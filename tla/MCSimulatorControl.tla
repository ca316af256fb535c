------------------------- MODULE MCSimulatorControl -------------------------
(* Instances of SimulatorControl for TLC. *)
EXTENDS SimulatorControl
=============================================================================
