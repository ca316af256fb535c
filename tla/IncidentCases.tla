--------------------------- MODULE IncidentCases ---------------------------
(***************************************************************************)
(* What the incident lifecycle promises to those who read incidents: at    *)
(* any time at most one case is open, a case is opened once, and a closed  *)
(* case stays closed.  IncidentLifecycle is shown to implement this module *)
(* as the live pipeline uses it, with one signal.                          *)
(***************************************************************************)

CONSTANT Ids       \* Identities of incidents.

VARIABLES open,    \* Cases that are open.
          closed   \* Cases that are closed.

vars == <<open, closed>>

Init == open = {} /\ closed = {}

Open(i) ==
  /\ open = {}
  /\ i \notin closed
  /\ open' = {i}
  /\ UNCHANGED closed

Close(i) ==
  /\ i \in open
  /\ open' = open \ {i}
  /\ closed' = closed \cup {i}

Next == \E i \in Ids : Open(i) \/ Close(i)

Spec == Init /\ [][Next]_vars
=============================================================================
