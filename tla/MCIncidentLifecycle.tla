------------------------ MODULE MCIncidentLifecycle ------------------------
(* Instances of IncidentLifecycle for TLC. *)
EXTENDS IncidentLifecycle

CONSTANTS child

OneScope == {Global}
TwoScopes == {Global, child}
=============================================================================
