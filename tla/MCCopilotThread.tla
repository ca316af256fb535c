--------------------------- MODULE MCCopilotThread ---------------------------
(* Instances of CopilotThread for TLC. *)
EXTENDS CopilotThread
=============================================================================
