------------------------ MODULE MCCopilotOrchestrator ------------------------
(* Instances of CopilotOrchestrator for TLC. *)
EXTENDS CopilotOrchestrator
=============================================================================
