------------------------ MODULE MCIncidentProjection ------------------------
(* Instances of IncidentProjection for TLC: the live pipeline has one scope. *)
EXTENDS IncidentProjection

OneScope == {Global}
=============================================================================
