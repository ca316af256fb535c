-------------------------- MODULE IncidentAnalysis --------------------------
(***************************************************************************)
(* What an incident is said to affect and what is said to have caused it,  *)
(* as its windows change, operational changes arrive and it recovers.      *)
(*                                                                         *)
(* Every batch of an incident analyses its window anew; the root-cause     *)
(* engine keeps its last result while its inputs' key does not change, and *)
(* the version in that key is the incident's, not the analysis's own.      *)
(* IncidentLifecycle says when an incident opens and resolves; here a      *)
(* window only has to allow it.                                            *)
(***************************************************************************)
EXTENDS AffectedScope, RootCause

CONSTANTS
  Windows,      \* The current windows: counters of each observed triple.
  Baseline,     \* The baseline window.
  Changes,      \* The operational changes that may arrive.
  MinAnomaly,   \* min_absolute_error_rate_increase.
  MaxResidual,  \* recovery_residual_margin.
  MaxVersion,   \* Bound: versions of the incident.
  MaxRestarts   \* Bound.

(* A change has a time, and an id that the value for "no leader" is not.   *)
NoLeader == "none"

ASSUME ChangesAssumption ==
  /\ IsFiniteSet(Changes)
  /\ \A c \in Changes : c.occurred_at \in Int /\ c.event_id # NoLeader

ASSUME BoundAssumption == MaxVersion \in Nat \ {0} /\ MaxRestarts \in Nat

VARIABLES
  window,       \* The current window last analysed.
  analysis,     \* Its analysis.
  incident,     \* Its lifecycle, or none, and its version.
  arrived,      \* The operational changes the pipeline knows.
  rca,          \* The engine's last result.
  restarts

vars == <<window, analysis, incident, arrived, rca, restarts>>

(* _dominant_signature: any code of the window's errors may dominate. *)
Signatures(w) ==
  IF Counts(w, Everything).errors = 0 THEN {Unknown} ELSE {"TOKEN_VALIDATION_FAILED", "OTHER"}

(* The increase of the error rate of all traffic. *)
GlobalIncrease(w) ==
  LET now == Counts(w, Everything)
      past == Counts(Baseline, Everything)
  IN Minus(Rate(now.errors, now.attempts), Rate(past.errors, past.attempts))

(* What a batch can find: a window, an analysis of it, and whether it can  *)
(* be an anomaly or a recovery; the statistical tests ask for more.        *)
Findings ==
  UNION {{[window |-> w,
           analysis |-> [segment |-> s.segment, concentrated |-> s.concentrated, signature |-> g],
           anomaly |-> AtLeast(GlobalIncrease(w), MinAnomaly) /\ Above(GlobalIncrease(w), <<0, 1>>),
           recovery |-> AtLeast(MaxResidual, GlobalIncrease(w))] :
            s \in Analyses(w, Baseline), g \in Signatures(w)} : w \in Windows}

NoWindow == [t \in Observed |-> [attempts |-> 0, errors |-> 0]]

NoAnalysis == [segment |-> Everything, concentrated |-> FALSE, signature |-> Unknown]

NoResult ==
  [made |-> [version |-> 0, recovered |-> FALSE, changes |-> {}],
   basis |-> NoAnalysis, overall |-> 0, leader |-> NoLeader]

(* Bug for a mutant: the key of the inputs forgets the recovery. *)
KeyWithoutRecovery(version, lifecycle) == [version |-> version, recovered |-> FALSE, changes |-> arrived]

Key(version, lifecycle) ==
  [version |-> version, recovered |-> lifecycle = "RESOLVED", changes |-> arrived]

Init ==
  /\ window = NoWindow
  /\ analysis = NoAnalysis
  /\ incident = [lifecycle |-> "none", version |-> 1]
  /\ arrived = {}
  /\ rca = NoResult
  /\ restarts = 0

Arrives(change) ==
  /\ arrived' = arrived \cup {change}
  /\ UNCHANGED <<window, analysis, incident, rca, restarts>>

Active == incident.lifecycle \in {"OPEN", "RECOVERY_CANDIDATE"}

(* An anomaly opens the incident or keeps it open. *)
Degrades(found) ==
  /\ incident.lifecycle # "RESOLVED"
  /\ found.anomaly
  /\ incident.version < MaxVersion
  /\ incident' = [lifecycle |-> "OPEN", version |-> incident.version + 1]

Recovers(found) ==
  /\ Active
  /\ found.recovery
  /\ incident.version < MaxVersion
  /\ \E lifecycle \in {"RECOVERY_CANDIDATE"}
           \cup (IF incident.lifecycle = "RECOVERY_CANDIDATE" THEN {"RESOLVED"} ELSE {}) :
       incident' = [lifecycle |-> lifecycle, version |-> incident.version + 1]

(* RECOVERY_NOT_CONFIRMED: the version stays. *)
Lingers ==
  /\ Active
  /\ incident' = [incident EXCEPT !.lifecycle = "OPEN"]

(* UNCHANGED_EVIDENCE, unhealthy telemetry and the cooldown of a resolved  *)
(* incident change nothing of it, and the batch is analysed all the same.  *)
Repeats ==
  /\ incident.lifecycle # "none"
  /\ UNCHANGED incident

(* _persist_incident: the analysis is made anew; run makes a new result    *)
(* unless the key is the one of the last.                                  *)
Analyse(found) ==
  LET key == Key(incident'.version, incident'.lifecycle)
      leaders == Leaders(found.analysis, arrived, key.recovered)
  IN /\ window' = found.window
     /\ analysis' = found.analysis
     /\ IF rca.made = key THEN rca' = rca
        ELSE \E leader \in IF leaders = {} THEN {NoLeader} ELSE {x.event_id : x \in leaders} :
               rca' = [made |-> key, basis |-> found.analysis, leader |-> leader,
                       overall |-> Overall(leaders)]
     /\ UNCHANGED <<arrived, restarts>>

Batch(found) == (Degrades(found) \/ Recovers(found) \/ Lingers \/ Repeats) /\ Analyse(found)

(* The engine's results are not part of the checkpoint. *)
Restart ==
  /\ restarts < MaxRestarts
  /\ restarts' = restarts + 1
  /\ rca' = NoResult
  /\ UNCHANGED <<window, analysis, incident, arrived>>

Next ==
  \/ \E c \in Changes \ arrived : Arrives(c)
  \/ \E found \in Findings : Batch(found)
  \/ Restart

Spec == Init /\ [][Next]_vars

-----------------------------------------------------------------------------
TypeOK ==
  /\ window \in Windows \cup {NoWindow}
  /\ analysis.segment \in {Everything} \cup {Restrict(t, D) : t \in Observed, D \in SUBSET Dimensions}
  /\ incident.lifecycle \in {"none", "OPEN", "RECOVERY_CANDIDATE", "RESOLVED"}
  /\ incident.version \in 1..MaxVersion
  /\ arrived \subseteq Changes
  /\ rca.overall \in {0, 2, 3}
  /\ rca.leader \in {c.event_id : c \in Changes} \cup {NoLeader}
  /\ (rca.overall = 0) = (rca.leader = NoLeader)

(* Where all errors of a window are of one triple of values, the affected  *)
(* scope is a part of that triple: no healthy value is ever blamed, however*)
(* traffic and shortlists fall (analyzer.py:107-129, 203-216).             *)
HealthyIsNotBlamed ==
  \A t \in Observed :
    (\A u \in Observed \ {t} : window[u].errors = 0)
      => \A d \in DOMAIN analysis.segment : analysis.segment[d] = t[d]

(* On the same analysis, evidence only adds up: neither the arrival of one *)
(* more change nor the confirmation of the recovery weakens the overall    *)
(* tier (engine.py:193-251, test_root_cause.py:103).                       *)
EvidenceOnlyAdds ==
  LET before == Overall(Leaders(analysis, arrived, FALSE))
  IN \A known \in {arrived \cup {c} : c \in Changes} \cup {arrived}, recovered \in BOOLEAN :
       Overall(Leaders(analysis, known, recovered)) >= before

(* No change that was left off the shortlist has stronger evidence for it  *)
(* than the one that leads (engine.py:222-251).                            *)
StrongestLeads ==
  rca # NoResult =>
    \A x \in Assessed(rca.basis, rca.made.changes, rca.made.recovered) :
      x.tier >= 2 => rca.overall >= x.tier

(* A result is only shown beside another analysis than it was made of      *)
(* while the incident's version is the same and its recovery was not       *)
(* confirmed in between (engine.py:121-130).                               *)
StaleOnlyWithinVersion ==
  rca # NoResult /\ rca.basis # analysis =>
    /\ rca.made.version = incident.version
    /\ rca.made.recovered = (incident.lifecycle = "RESOLVED")
=============================================================================
