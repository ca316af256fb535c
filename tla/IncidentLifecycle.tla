------------------------- MODULE IncidentLifecycle -------------------------
(***************************************************************************)
(* IncidentLifecycleManager: the state machine that turns the detector's   *)
(* evaluations into incidents.  Each signal (a scope of one metric family) *)
(* counts anomalous buckets until an incident opens, then buckets that     *)
(* confirm recovery until it resolves, then cools down.                    *)
(*                                                                         *)
(* An evaluation is made at a time, about the last bucket completed by     *)
(* then.  The live pipeline evaluates the GLOBAL scope only, at the wall   *)
(* clock; but while the simulator prewarms it evaluates at the newest      *)
(* event time of the batch (projection_as_of), which may lie before an     *)
(* earlier evaluation: a rewind.  What an evaluation says (telemetry       *)
(* unhealthy, anomaly, recovery confirmed or not) is left open.            *)
(*                                                                         *)
(* Scopes other than GLOBAL and manual_close are part of the class, but no *)
(* service calls them.                                                     *)
(***************************************************************************)
EXTENDS Integers, FiniteSets

CONSTANTS
  Scopes,                \* Scopes that are evaluated.
  Global,                \* The scope "GLOBAL".
  NoIncident,            \* The None of _SignalState.incident_id.
  BucketDuration,        \* Settings.bucket_duration_seconds.
  DetectionPersistence,  \* Settings.detection_persistence_buckets.
  RecoveryPersistence,   \* Settings.recovery_persistence_buckets.
  Cooldown,              \* Settings.cooldown_seconds.
  MaxTime,               \* Bound: the last time of the model.
  MaxRewinds,            \* Bound: evaluations before an earlier one.
  MaxManualCloses        \* Bound: calls of manual_close.

(* An incident is identified by its scope and the end of the bucket that   *)
(* opened it.                                                              *)
Ids == Scopes \X (0..MaxTime)

ASSUME ScopeAssumption == Global \in Scopes /\ NoIncident \notin Ids

ASSUME SettingsAssumption ==
  /\ BucketDuration \in Nat \ {0}
  /\ DetectionPersistence \in Nat \ {0}
  /\ RecoveryPersistence \in Nat \ {0, 1}
  /\ Cooldown \in Nat

ASSUME BoundAssumption ==
  /\ MaxTime \in Nat
  /\ BucketDuration <= MaxTime
  /\ MaxRewinds \in Nat
  /\ MaxManualCloses \in Nat

VARIABLES
  now,           \* The wall clock.
  signals,       \* _states: the signal state of each scope.
  incidents,     \* _incidents, by id.
  fresh,         \* History: what each signal saw in fresh buckets.
  rewinds, manualCloses

vars == <<now, signals, incidents, fresh, rewinds, manualCloses>>

-----------------------------------------------------------------------------
FreshSignal ==
  [lifecycle       |-> "WARMING_UP",
   detection_count |-> 0,
   recovery_count  |-> 0,
   evidence_end    |-> 0,            \* 0 stands for None.
   incident        |-> NoIncident,
   cooldown_until  |-> 0]

NewIncident(s, t) ==
  [lifecycle |-> "OPEN", updated_at |-> t, version |-> 1, signal_scopes |-> {s},
   closure_mode |-> "NONE"]

(* EventTimeAggregator.bucket_start_for: the end of the newest bucket that *)
(* is complete at time t.                                                  *)
EvidenceEnd(t) == (t \div BucketDuration) * BucketDuration

(* Bug for a mutant: every evaluation counts, whatever its bucket. *)
AnyEvidence(s, t) == TRUE

(* An evaluation of the same bucket as the last one changes nothing. *)
FreshEvidence(s, t) == signals[s].evidence_end # EvidenceEnd(t)

(* Bug for a mutant: a resolved signal is never in its cooldown. *)
NoCooldown(s, t) == FALSE

CoolingDown(s, t) ==
  /\ signals[s].lifecycle = "RESOLVED"
  /\ signals[s].cooldown_until # 0
  /\ t < signals[s].cooldown_until

(* Bug for a mutant: a signal that starts again keeps its incident. *)
RestedKeepsIncident(s, t) ==
  IF signals[s].lifecycle = "RESOLVED"
  THEN [signals[s] EXCEPT !.lifecycle = "HEALTHY", !.evidence_end = EvidenceEnd(t),
                          !.detection_count = 0, !.recovery_count = 0]
  ELSE [signals[s] EXCEPT !.evidence_end = EvidenceEnd(t)]

(* The signal as a healthy evaluation at time t finds it: a resolved one   *)
(* whose cooldown is over starts again.                                    *)
Rested(s, t) ==
  IF signals[s].lifecycle = "RESOLVED"
  THEN [FreshSignal EXCEPT !.lifecycle = "HEALTHY", !.evidence_end = EvidenceEnd(t)]
  ELSE [signals[s] EXCEPT !.evidence_end = EvidenceEnd(t)]

InIncident(signal) ==
  /\ signal.incident # NoIncident
  /\ signal.lifecycle \in {"OPEN", "RECOVERY_CANDIDATE"}

(* Bug for a mutant: the count survives an anomaly. *)
CountedKeepsRecovery(signal) ==
  CASE signal.lifecycle \in {"WARMING_UP", "HEALTHY"} ->
         [signal EXCEPT !.lifecycle = "SUSPECTED", !.detection_count = 1]
    [] signal.lifecycle = "SUSPECTED" ->
         [signal EXCEPT !.detection_count = @ + 1]
    [] signal.lifecycle = "RECOVERY_CANDIDATE" ->
         [signal EXCEPT !.lifecycle = "OPEN", !.detection_count = DetectionPersistence]
    [] OTHER -> signal

(* One more anomalous bucket. *)
Counted(signal) ==
  CASE signal.lifecycle \in {"WARMING_UP", "HEALTHY"} ->
         [signal EXCEPT !.recovery_count = 0, !.lifecycle = "SUSPECTED", !.detection_count = 1]
    [] signal.lifecycle = "SUSPECTED" ->
         [signal EXCEPT !.recovery_count = 0, !.detection_count = @ + 1]
    [] signal.lifecycle = "RECOVERY_CANDIDATE" ->
         [signal EXCEPT !.recovery_count = 0, !.lifecycle = "OPEN",
                        !.detection_count = DetectionPersistence]
    [] OTHER -> [signal EXCEPT !.recovery_count = 0]

(* One more bucket that confirms the recovery. *)
Confirmed(signal, t) ==
  IF signal.recovery_count + 1 >= RecoveryPersistence
  THEN [signal EXCEPT !.recovery_count = @ + 1, !.lifecycle = "RESOLVED",
                      !.cooldown_until = t + Cooldown]
  ELSE [signal EXCEPT !.recovery_count = @ + 1, !.lifecycle = "RECOVERY_CANDIDATE"]

(* _open_incident: a child scope joins the unresolved incident of the      *)
(* global signal.                                                          *)
IncidentFor(s, t) ==
  LET parent == signals[Global].incident
  IN IF /\ s # Global
        /\ parent # NoIncident
        /\ incidents[parent].lifecycle # "RESOLVED"
     THEN parent
     ELSE <<s, EvidenceEnd(t)>>

(* Bug for a mutant: a scope that joins an incident is not listed in it. *)
JoinedUnlisted(i, s, t) ==
  [k \in DOMAIN incidents \cup {i} |->
     IF k \notin DOMAIN incidents THEN NewIncident(s, t) ELSE incidents[k]]

(* The incidents with id i present, joined by scope s. *)
Joined(i, s, t) ==
  [k \in DOMAIN incidents \cup {i} |->
     IF k \notin DOMAIN incidents THEN NewIncident(s, t)
     ELSE IF k = i /\ i[1] # s THEN [incidents[k] EXCEPT !.signal_scopes = @ \cup {s}]
     ELSE incidents[k]]

-----------------------------------------------------------------------------
(* The history.  A bucket is fresh for a signal if it is newer than every  *)
(* bucket evaluated for it before.                                         *)

NothingSeen == [newest |-> 0, anomalous |-> {}, confirming |-> {}]

Newest(s, t) ==
  IF EvidenceEnd(t) > fresh[s].newest THEN EvidenceEnd(t) ELSE fresh[s].newest

FreshBucket(s, t) ==
  IF EvidenceEnd(t) > fresh[s].newest THEN {EvidenceEnd(t)} ELSE {}

SeesAnomaly(s, t) ==
  fresh' = [fresh EXCEPT ![s] =
    [newest |-> Newest(s, t), anomalous |-> @.anomalous \cup FreshBucket(s, t),
     confirming |-> {}]]

SeesRecovery(s, t) ==
  fresh' = [fresh EXCEPT ![s] =
    [newest |-> Newest(s, t), anomalous |-> {},
     confirming |-> @.confirming \cup FreshBucket(s, t)]]

SeesNeither(s, t) ==
  fresh' = [fresh EXCEPT ![s] =
    [newest |-> Newest(s, t), anomalous |-> {}, confirming |-> {}]]

(* Unhealthy telemetry interrupts a suspicion but not a recovery. *)
SeesNothing(s, t) ==
  fresh' = [fresh EXCEPT ![s] =
    [newest |-> Newest(s, t), anomalous |-> {}, confirming |-> @.confirming]]

-----------------------------------------------------------------------------
Init ==
  /\ now = BucketDuration
  /\ signals = [s \in Scopes |-> FreshSignal]
  /\ incidents = [i \in {} |-> NewIncident(i[1], i[2])]
  /\ fresh = [s \in Scopes |-> NothingSeen]
  /\ rewinds = 0
  /\ manualCloses = 0

Tick ==
  /\ now < MaxTime
  /\ now' = now + 1
  /\ UNCHANGED <<signals, incidents, fresh, rewinds, manualCloses>>

(* The time of an evaluation: the wall clock, or earlier in a prewarm. *)
EvaluatedAt(t) ==
  /\ \/ /\ t = now
        /\ UNCHANGED rewinds
     \/ /\ t < now
        /\ rewinds < MaxRewinds
        /\ rewinds' = rewinds + 1
  /\ UNCHANGED <<now, manualCloses>>

TelemetryUnhealthy(s, t) ==
  /\ FreshEvidence(s, t)
  /\ signals' = [signals EXCEPT
       ![s].evidence_end = EvidenceEnd(t),
       ![s].lifecycle = IF signals[s].incident = NoIncident THEN "WARMING_UP" ELSE @]
  /\ SeesNothing(s, t)
  /\ UNCHANGED incidents

IgnoredInCooldown(s, t) ==
  /\ FreshEvidence(s, t)
  /\ CoolingDown(s, t)
  /\ signals' = [signals EXCEPT ![s].evidence_end = EvidenceEnd(t)]
  /\ SeesNothing(s, t)
  /\ UNCHANGED incidents

AnomalySuspected(s, t) ==
  LET counted == Counted(Rested(s, t))
  IN /\ FreshEvidence(s, t)
     /\ ~CoolingDown(s, t)
     /\ counted.detection_count < DetectionPersistence
     /\ signals' = [signals EXCEPT ![s] = counted]
     /\ SeesAnomaly(s, t)
     /\ UNCHANGED incidents

(* The incident opens, or one more anomalous bucket confirms it. *)
IncidentOpen(s, t) ==
  LET counted == Counted(Rested(s, t))
      i == IF counted.incident = NoIncident THEN IncidentFor(s, t) ELSE counted.incident
  IN /\ FreshEvidence(s, t)
     /\ ~CoolingDown(s, t)
     /\ counted.detection_count >= DetectionPersistence
     /\ signals' = [signals EXCEPT ![s] =
          [counted EXCEPT !.lifecycle = "OPEN", !.incident = i]]
     /\ incidents' = [(IF counted.incident = NoIncident THEN Joined(i, s, t) ELSE incidents)
          EXCEPT ![i].lifecycle = "OPEN", ![i].updated_at = t, ![i].version = @ + 1]
     /\ SeesAnomaly(s, t)

(* Bug for a mutant: the signal resolves, its incident does not. *)
RecoveryForgetsIncident(s, t) ==
  LET signal == Confirmed(Rested(s, t), t)
  IN /\ FreshEvidence(s, t)
     /\ ~CoolingDown(s, t)
     /\ InIncident(Rested(s, t))
     /\ signals' = [signals EXCEPT ![s] = signal]
     /\ incidents' = [incidents EXCEPT
          ![signal.incident].lifecycle = "RECOVERY_CANDIDATE",
          ![signal.incident].updated_at = t,
          ![signal.incident].version = @ + 1]
     /\ SeesRecovery(s, t)

(* The bucket passes the recovery bounds; enough of them resolve. *)
RecoveryObserved(s, t) ==
  LET signal == Confirmed(Rested(s, t), t)
  IN /\ FreshEvidence(s, t)
     /\ ~CoolingDown(s, t)
     /\ InIncident(Rested(s, t))
     /\ signals' = [signals EXCEPT ![s] = signal]
     /\ incidents' = [incidents EXCEPT
          ![signal.incident].lifecycle = signal.lifecycle,
          ![signal.incident].updated_at = t,
          ![signal.incident].version = @ + 1,
          ![signal.incident].closure_mode =
             IF signal.lifecycle = "RESOLVED" THEN "AUTOMATIC_RECOVERY" ELSE @]
     /\ SeesRecovery(s, t)

(* No anomaly, and no recovery either: the incident is open as before. *)
RecoveryNotConfirmed(s, t) ==
  LET signal == Rested(s, t)
  IN /\ FreshEvidence(s, t)
     /\ ~CoolingDown(s, t)
     /\ InIncident(signal)
     /\ signals' = [signals EXCEPT ![s] =
          [signal EXCEPT !.recovery_count = 0, !.lifecycle = "OPEN"]]
     /\ incidents' = [incidents EXCEPT
          ![signal.incident].lifecycle = "OPEN", ![signal.incident].updated_at = t]
     /\ SeesNeither(s, t)

NoAnomaly(s, t) ==
  LET signal == Rested(s, t)
  IN /\ FreshEvidence(s, t)
     /\ ~CoolingDown(s, t)
     /\ ~InIncident(signal)
     /\ signals' = [signals EXCEPT ![s] =
          [signal EXCEPT !.lifecycle = "HEALTHY", !.detection_count = 0]]
     /\ SeesNeither(s, t)
     /\ UNCHANGED incidents

(* apply, for an evaluation of a bucket other than the last one. *)
Apply(s, t) ==
  /\ EvaluatedAt(t)
  /\ \/ TelemetryUnhealthy(s, t)
     \/ IgnoredInCooldown(s, t)
     \/ AnomalySuspected(s, t)
     \/ IncidentOpen(s, t)
     \/ RecoveryObserved(s, t)
     \/ RecoveryNotConfirmed(s, t)
     \/ NoAnomaly(s, t)

(* manual_close: it does not look at the incident's lifecycle, and it      *)
(* resolves the signal of the incident's own scope whatever that signal's  *)
(* incident is.                                                            *)
ManualClose(i) ==
  /\ manualCloses < MaxManualCloses
  /\ manualCloses' = manualCloses + 1
  /\ incidents' = [incidents EXCEPT
       ![i].lifecycle = "RESOLVED", ![i].closure_mode = "MANUAL", ![i].version = @ + 1]
  /\ signals' = [signals EXCEPT
       ![i[1]].lifecycle = "RESOLVED",
       ![i[1]].cooldown_until = incidents[i].updated_at + Cooldown]
  /\ UNCHANGED <<now, fresh, rewinds>>

Next ==
  \/ Tick
  \/ \E s \in Scopes, t \in BucketDuration..now : Apply(s, t)
  \/ \E i \in DOMAIN incidents : ManualClose(i)

Spec == Init /\ [][Next]_vars

-----------------------------------------------------------------------------
Lifecycles ==
  {"WARMING_UP", "HEALTHY", "SUSPECTED", "OPEN", "RECOVERY_CANDIDATE", "RESOLVED"}

Signal ==
  [lifecycle : Lifecycles, detection_count : Nat, recovery_count : Nat,
   evidence_end : Nat, incident : Ids \cup {NoIncident}, cooldown_until : Nat]

Incident ==
  [lifecycle : {"OPEN", "RECOVERY_CANDIDATE", "RESOLVED"}, updated_at : Nat,
   version : Nat, signal_scopes : SUBSET Scopes,
   closure_mode : {"NONE", "AUTOMATIC_RECOVERY", "MANUAL"}]

(* Every variable has its type, and the incident of a signal exists        *)
(* (lifecycle.py, _incident_for).                                          *)
TypeOK ==
  /\ now \in BucketDuration..MaxTime
  /\ signals \in [Scopes -> Signal]
  /\ DOMAIN incidents \subseteq Ids
  /\ \A i \in DOMAIN incidents : incidents[i] \in Incident
  /\ \A s \in Scopes : signals[s].incident \in DOMAIN incidents \cup {NoIncident}
  /\ fresh \in [Scopes -> [newest : Nat, anomalous : SUBSET Nat, confirming : SUBSET Nat]]
  /\ rewinds \in 0..MaxRewinds
  /\ manualCloses \in 0..MaxManualCloses

Unresolved == {i \in DOMAIN incidents : incidents[i].lifecycle # "RESOLVED"}

Resolved == DOMAIN incidents \ Unresolved

(* An incident opens only after as many fresh buckets in a row were        *)
(* anomalous as the settings ask for (lifecycle.py:158-160, 177-191).      *)
DetectionIsFresh ==
  [][\A i \in DOMAIN incidents' \ DOMAIN incidents :
       Cardinality(fresh'[i[1]].anomalous) >= DetectionPersistence]_vars

(* The counters of a signal never run ahead of the fresh buckets it saw:   *)
(* while evaluations do not go back in time, this is inductive and gives   *)
(* DetectionIsFresh and RecoveryIsFresh.                                   *)
SeenInOrder(s) ==
  /\ fresh[s].newest = signals[s].evidence_end
  /\ signals[s].evidence_end <= EvidenceEnd(now)
  /\ IsFiniteSet(fresh[s].anomalous) /\ IsFiniteSet(fresh[s].confirming)
  /\ \A b \in fresh[s].anomalous \cup fresh[s].confirming : b <= fresh[s].newest

CountsAreFresh(s) ==
  /\ signals[s].lifecycle = "SUSPECTED" =>
       signals[s].detection_count <= Cardinality(fresh[s].anomalous)
  /\ signals[s].lifecycle \in {"OPEN", "RECOVERY_CANDIDATE"} =>
       signals[s].recovery_count <= Cardinality(fresh[s].confirming)

IncidentWhenOpen(s) ==
  /\ signals[s].lifecycle \in {"OPEN", "RECOVERY_CANDIDATE"} => signals[s].incident # NoIncident
  /\ signals[s].lifecycle \in {"WARMING_UP", "HEALTHY", "SUSPECTED"} =>
       signals[s].incident = NoIncident

FreshCounts ==
  \A s \in Scopes : SeenInOrder(s) /\ CountsAreFresh(s) /\ IncidentWhenOpen(s)

(* A signal resolves its incident only after as many fresh buckets         *)
(* confirmed the recovery as the settings ask for, all of them newer than  *)
(* the last anomaly (lifecycle.py:199-218).                                *)
RecoveryIsFresh ==
  [][\A s \in Scopes :
       /\ signals'[s].lifecycle = "RESOLVED"
       /\ signals[s].lifecycle # "RESOLVED"
       /\ manualCloses' = manualCloses
       => Cardinality(fresh'[s].confirming) >= RecoveryPersistence]_vars

(* The signal and its incident never disagree about the state of the       *)
(* incident, and whatever incident is unresolved is the signal's, so that  *)
(* later evaluations can still resolve it.                                 *)
SignalOwnsIncident ==
  /\ signals[Global].lifecycle \in {"OPEN", "RECOVERY_CANDIDATE", "RESOLVED"} =>
       /\ signals[Global].incident # NoIncident
       /\ incidents[signals[Global].incident].lifecycle = signals[Global].lifecycle
  /\ \A i \in Unresolved : signals[Global].incident = i

(* No incident of a scope opens while another one of that scope that was   *)
(* resolved by recovery is in its cooldown (lifecycle.py:167-169).         *)
CooldownHolds ==
  [][\A i \in DOMAIN incidents' \ DOMAIN incidents, k \in Resolved :
       i[1] = k[1] => incidents'[i].updated_at >= incidents[k].updated_at + Cooldown]_vars

(* An incident names every scope whose signal refers to it, however many   *)
(* incidents the scope had before (lifecycle.py, _open_incident).          *)
ScopesAreListed ==
  \A s \in Scopes :
    signals[s].incident # NoIncident => s \in incidents[signals[s].incident].signal_scopes

Cases == INSTANCE IncidentCases WITH open <- Unresolved, closed <- Resolved

(* With one signal, the lifecycle manager implements IncidentCases: one    *)
(* incident at a time, opened once, and final once it is resolved.         *)
ImplementsCases == Cases!Spec
=============================================================================
