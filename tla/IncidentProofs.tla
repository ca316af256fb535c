--------------------------- MODULE IncidentProofs ---------------------------
(***************************************************************************)
(* Theorems about IncidentLifecycle and, below, about IncidentProjection,  *)
(* which composes it with the rows of the store.  They hold for any        *)
(* settings and any number of batches and Copilot tasks; each theorem      *)
(* names what it has to exclude.                                           *)
(***************************************************************************)
EXTENDS IncidentProjection, FiniteSetTheorems, TLAPS

-----------------------------------------------------------------------------
(* The lifecycle.                                                          *)

-----------------------------------------------------------------------------
(* Buckets. *)

LEMMA EvidenceEndFacts ==
  ASSUME NEW t \in Nat
  PROVE  /\ EvidenceEnd(t) \in Nat
         /\ EvidenceEnd(t) <= t
         /\ t < EvidenceEnd(t) + BucketDuration
BY SettingsAssumption DEF EvidenceEnd

LEMMA EvidenceEndMonotone ==
  ASSUME NEW t \in Nat, NEW u \in Nat, t <= u
  PROVE  EvidenceEnd(t) <= EvidenceEnd(u)
<1> DEFINE q(x) == x \div BucketDuration
<1>1. /\ q(t) \in Nat /\ q(u) \in Nat
      /\ q(t) * BucketDuration <= t
      /\ u < q(u) * BucketDuration + BucketDuration
  BY SettingsAssumption
<1>2. q(t) * BucketDuration < (q(u) + 1) * BucketDuration
  BY <1>1, SettingsAssumption
<1> HIDE DEF q
<1>3. q(t) <= q(u)
  BY <1>1, <1>2, SettingsAssumption
<1>4. q(t) * BucketDuration <= q(u) * BucketDuration
  BY <1>1, <1>3, SettingsAssumption
<1> QED
  BY <1>4 DEF EvidenceEnd, q

-----------------------------------------------------------------------------
(* Signals. *)

LEMMA RestedFacts ==
  ASSUME TypeOK, NEW s \in Scopes, NEW t \in Nat
  PROVE  /\ Rested(s, t) \in Signal
         /\ Rested(s, t).evidence_end = EvidenceEnd(t)
         /\ signals[s].lifecycle # "RESOLVED" =>
              /\ Rested(s, t).lifecycle = signals[s].lifecycle
              /\ Rested(s, t).incident = signals[s].incident
              /\ Rested(s, t).detection_count = signals[s].detection_count
              /\ Rested(s, t).recovery_count = signals[s].recovery_count
         /\ signals[s].lifecycle = "RESOLVED" =>
              Rested(s, t).lifecycle = "HEALTHY" /\ Rested(s, t).incident = NoIncident
BY EvidenceEndFacts DEF TypeOK, Rested, Signal, FreshSignal, Lifecycles

(* A signal after some of its fields were assigned. *)
LEMMA SignalUpdate ==
  ASSUME NEW signal \in Signal, NEW l \in Lifecycles, NEW d \in Nat, NEW r \in Nat, NEW c \in Nat
  PROVE  /\ [signal EXCEPT !.recovery_count = r] \in Signal
         /\ [signal EXCEPT !.recovery_count = r, !.detection_count = d] \in Signal
         /\ [signal EXCEPT !.recovery_count = r, !.lifecycle = l] \in Signal
         /\ [signal EXCEPT !.recovery_count = r, !.lifecycle = l, !.detection_count = d] \in Signal
         /\ [signal EXCEPT !.recovery_count = r, !.lifecycle = l, !.cooldown_until = c] \in Signal
<1>1. [signal EXCEPT !.recovery_count = r] \in Signal
  BY DEF Signal
<1>2. [signal EXCEPT !.recovery_count = r, !.detection_count = d] \in Signal
  BY DEF Signal
<1>3. [signal EXCEPT !.recovery_count = r, !.lifecycle = l] \in Signal
  BY DEF Signal
<1>4. [signal EXCEPT !.recovery_count = r, !.lifecycle = l, !.detection_count = d] \in Signal
  BY DEF Signal
<1>5. [signal EXCEPT !.recovery_count = r, !.lifecycle = l, !.cooldown_until = c] \in Signal
  BY DEF Signal
<1> QED
  BY <1>1, <1>2, <1>3, <1>4, <1>5

LEMMA CountedFacts ==
  ASSUME NEW signal \in Signal
  PROVE  /\ Counted(signal) \in Signal
         /\ Counted(signal).evidence_end = signal.evidence_end
         /\ Counted(signal).incident = signal.incident
         /\ Counted(signal).recovery_count = 0
         /\ signal.lifecycle \in {"WARMING_UP", "HEALTHY"} =>
              Counted(signal).lifecycle = "SUSPECTED" /\ Counted(signal).detection_count = 1
         /\ signal.lifecycle = "SUSPECTED" =>
              /\ Counted(signal).lifecycle = "SUSPECTED"
              /\ Counted(signal).detection_count = signal.detection_count + 1
         /\ signal.lifecycle \in {"OPEN", "RECOVERY_CANDIDATE"} =>
              Counted(signal).lifecycle = "OPEN"
         /\ signal.lifecycle = "RECOVERY_CANDIDATE" =>
              Counted(signal).detection_count = DetectionPersistence
         /\ signal.lifecycle = "OPEN" =>
              Counted(signal).detection_count = signal.detection_count
<1> DEFINE counted == Counted(signal)
           suspected == [signal EXCEPT !.recovery_count = 0, !.lifecycle = "SUSPECTED",
                                       !.detection_count = 1]
           again == [signal EXCEPT !.recovery_count = 0,
                                   !.detection_count = signal.detection_count + 1]
           reopened == [signal EXCEPT !.recovery_count = 0, !.lifecycle = "OPEN",
                                      !.detection_count = DetectionPersistence]
           settled == [signal EXCEPT !.recovery_count = 0]
<1>1. /\ suspected \in Signal /\ again \in Signal
      /\ reopened \in Signal /\ settled \in Signal
  <2>1. /\ 0 \in Nat /\ 1 \in Nat /\ DetectionPersistence \in Nat
        /\ "SUSPECTED" \in Lifecycles /\ "OPEN" \in Lifecycles
    BY SettingsAssumption DEF Lifecycles
  <2>2. signal.detection_count + 1 \in Nat
    BY DEF Signal
  <2> QED
    BY <2>1, <2>2, SignalUpdate, Zenon
<1>2. CASE signal.lifecycle \in {"WARMING_UP", "HEALTHY"}
  <2>1. counted = suspected
    BY <1>2 DEF Counted
  <2>2. /\ suspected.evidence_end = signal.evidence_end /\ suspected.incident = signal.incident
        /\ suspected.recovery_count = 0
        /\ suspected.lifecycle = "SUSPECTED" /\ suspected.detection_count = 1
    BY DEF Signal
  <2> HIDE DEF counted, suspected
  <2>3. counted.lifecycle = "SUSPECTED" /\ counted.detection_count = 1
    BY <2>1, <2>2
  <2> QED
    BY <1>1, <1>2, <2>1, <2>2, <2>3 DEF counted
<1>3. CASE signal.lifecycle = "SUSPECTED"
  <2>1. counted = again
    BY <1>3 DEF Counted
  <2>2. /\ again.evidence_end = signal.evidence_end /\ again.incident = signal.incident
        /\ again.recovery_count = 0 /\ again.lifecycle = signal.lifecycle
    BY DEF Signal
  <2>3. again.detection_count = signal.detection_count + 1
    BY DEF Signal
  <2> HIDE DEF again
  <2> QED
    BY <1>1, <1>3, <2>1, <2>2, <2>3
<1>4. CASE signal.lifecycle = "RECOVERY_CANDIDATE"
  <2>1. counted = reopened
    BY <1>4 DEF Counted
  <2>2. /\ reopened.evidence_end = signal.evidence_end /\ reopened.incident = signal.incident
        /\ reopened.recovery_count = 0 /\ reopened.lifecycle = "OPEN"
        /\ reopened.detection_count = DetectionPersistence
    BY DEF Signal
  <2> HIDE DEF reopened
  <2> QED
    BY <1>1, <1>4, <2>1, <2>2
<1>5. CASE signal.lifecycle \in {"OPEN", "RESOLVED"}
  <2>1. counted = settled
    BY <1>5 DEF Counted
  <2>2. /\ settled.evidence_end = signal.evidence_end /\ settled.incident = signal.incident
        /\ settled.recovery_count = 0 /\ settled.lifecycle = signal.lifecycle
        /\ settled.detection_count = signal.detection_count
    BY DEF Signal
  <2> HIDE DEF settled
  <2> QED
    BY <1>1, <1>5, <2>1, <2>2
<1> QED
  BY <1>2, <1>3, <1>4, <1>5 DEF Signal, Lifecycles

LEMMA ConfirmedFacts ==
  ASSUME NEW signal \in Signal, NEW t \in Nat
  PROVE  /\ Confirmed(signal, t) \in Signal
         /\ Confirmed(signal, t).evidence_end = signal.evidence_end
         /\ Confirmed(signal, t).incident = signal.incident
         /\ Confirmed(signal, t).recovery_count = signal.recovery_count + 1
         /\ Confirmed(signal, t).lifecycle \in {"RECOVERY_CANDIDATE", "RESOLVED"}
         /\ Confirmed(signal, t).lifecycle = "RESOLVED" =>
              signal.recovery_count + 1 >= RecoveryPersistence
<1> DEFINE confirmed == Confirmed(signal, t)
           resolved == [signal EXCEPT !.recovery_count = signal.recovery_count + 1,
                                      !.lifecycle = "RESOLVED", !.cooldown_until = t + Cooldown]
           candidate == [signal EXCEPT !.recovery_count = signal.recovery_count + 1,
                                       !.lifecycle = "RECOVERY_CANDIDATE"]
<1>1. resolved \in Signal /\ candidate \in Signal
  <2>1. signal.recovery_count + 1 \in Nat /\ t + Cooldown \in Nat
    BY SettingsAssumption DEF Signal
  <2>2. "RESOLVED" \in Lifecycles /\ "RECOVERY_CANDIDATE" \in Lifecycles
    BY DEF Lifecycles
  <2>3. 0 \in Nat
    OBVIOUS
  <2> QED
    BY <2>1, <2>2, <2>3, SignalUpdate, Zenon
<1>2. CASE signal.recovery_count + 1 >= RecoveryPersistence
  <2>1. confirmed = resolved
    BY <1>2 DEF Confirmed
  <2>2. /\ resolved.evidence_end = signal.evidence_end /\ resolved.incident = signal.incident
        /\ resolved.lifecycle = "RESOLVED"
    BY DEF Signal
  <2>3. resolved.recovery_count = signal.recovery_count + 1
    BY DEF Signal
  <2> HIDE DEF resolved
  <2> QED
    BY <1>1, <1>2, <2>1, <2>2, <2>3
<1>3. CASE ~(signal.recovery_count + 1 >= RecoveryPersistence)
  <2>1. confirmed = candidate
    BY <1>3 DEF Confirmed
  <2>2. /\ candidate.evidence_end = signal.evidence_end /\ candidate.incident = signal.incident
        /\ candidate.lifecycle = "RECOVERY_CANDIDATE"
    BY DEF Signal
  <2>3. candidate.recovery_count = signal.recovery_count + 1
    BY DEF Signal
  <2> HIDE DEF candidate
  <2> QED
    BY <1>1, <1>3, <2>1, <2>2, <2>3
<1> QED
  BY <1>2, <1>3

-----------------------------------------------------------------------------
(* Type correctness. *)

LEMMA TypeInit == Init => TypeOK
<1> SUFFICES ASSUME Init PROVE TypeOK
  OBVIOUS
<1>1. FreshSignal \in Signal /\ FreshSignal.incident = NoIncident
  BY DEF FreshSignal, Signal, Lifecycles
<1>2. NothingSeen \in [newest : Nat, anomalous : SUBSET Nat, confirming : SUBSET Nat]
  BY DEF NothingSeen
<1>3. DOMAIN incidents = {}
  BY DEF Init
<1> QED
  BY <1>1, <1>2, <1>3, SettingsAssumption, BoundAssumption DEF Init, TypeOK

LEMMA HistoryType ==
  ASSUME TypeOK, NEW s \in Scopes, NEW t \in Nat,
         SeesAnomaly(s, t) \/ SeesRecovery(s, t) \/ SeesNeither(s, t) \/ SeesNothing(s, t)
  PROVE  fresh' \in [Scopes -> [newest : Nat, anomalous : SUBSET Nat, confirming : SUBSET Nat]]
<1>1. /\ Newest(s, t) \in Nat
      /\ FreshBucket(s, t) \subseteq Nat
  BY EvidenceEndFacts DEF TypeOK, Newest, FreshBucket
<1> QED
  BY <1>1 DEF TypeOK, SeesAnomaly, SeesRecovery, SeesNeither, SeesNothing

(* Opening or confirming the incident with id i. *)
LEMMA OpenedType ==
  ASSUME TypeOK, NEW s \in Scopes, NEW t \in Nat, IncidentOpen(s, t),
         EvidenceEnd(t) \in 0..MaxTime
  PROVE  /\ DOMAIN incidents \subseteq DOMAIN incidents'
         /\ DOMAIN incidents' \subseteq DOMAIN incidents \cup {<<s, EvidenceEnd(t)>>}
         /\ \A i \in DOMAIN incidents' : incidents'[i] \in Incident
         /\ signals'[s].incident \in DOMAIN incidents'
         /\ signals' \in [Scopes -> Signal]
<1> DEFINE counted == Counted(Rested(s, t))
           i == IF counted.incident = NoIncident THEN IncidentFor(s, t) ELSE counted.incident
           before == IF counted.incident = NoIncident THEN Joined(i, s, t) ELSE incidents
<1>1. counted \in Signal
  BY RestedFacts, CountedFacts
<1>2. counted.incident \in DOMAIN incidents \cup {NoIncident}
  BY RestedFacts, CountedFacts DEF TypeOK
<1>3. i \in DOMAIN incidents \cup {<<s, EvidenceEnd(t)>>}
  BY <1>2, ScopeAssumption DEF IncidentFor, TypeOK
<1>4. /\ DOMAIN before = DOMAIN incidents \cup {i}
      /\ \A k \in DOMAIN before : before[k] \in Incident
  <2>1. CASE counted.incident = NoIncident
    <3>1. NewIncident(s, t) \in Incident
      BY DEF NewIncident, Incident
    <3>2. \A k \in DOMAIN incidents :
            [incidents[k] EXCEPT !.signal_scopes = @ \cup {s}] \in Incident
      BY DEF Incident, TypeOK
    <3> QED
      BY <2>1, <3>1, <3>2 DEF Joined, TypeOK
  <2>2. CASE counted.incident # NoIncident
    BY <1>2, <2>2 DEF TypeOK
  <2> QED
    BY <2>1, <2>2
<1>5. incidents' = [before EXCEPT ![i].lifecycle = "OPEN", ![i].updated_at = t,
                                 ![i].version = @ + 1]
  BY DEF IncidentOpen
<1>6. signals' = [signals EXCEPT ![s] = [counted EXCEPT !.lifecycle = "OPEN", !.incident = i]]
  BY DEF IncidentOpen
<1>7. i \in Ids
  BY <1>3 DEF TypeOK, Ids
<1> HIDE DEF counted, i, before
<1>8. DOMAIN incidents' = DOMAIN before
  BY <1>5
<1>9. \A k \in DOMAIN before : incidents'[k] \in Incident
  BY <1>4, <1>5 DEF Incident
<1>10. /\ signals'[s].incident = i
       /\ signals' \in [Scopes -> Signal]
  BY <1>1, <1>6, <1>7 DEF TypeOK, Signal, Lifecycles
<1> QED
  BY <1>3, <1>4, <1>8, <1>9, <1>10

LEMMA ApplyType ==
  ASSUME TypeOK, NEW s \in Scopes, NEW t \in BucketDuration..now, Apply(s, t)
  PROVE  TypeOK'
<1>1. /\ t \in Nat
      /\ EvidenceEnd(t) \in 0..MaxTime
  BY EvidenceEndFacts, SettingsAssumption, BoundAssumption DEF TypeOK
<1>2. /\ now' \in BucketDuration..MaxTime
      /\ rewinds' \in 0..MaxRewinds
      /\ manualCloses' \in 0..MaxManualCloses
  BY BoundAssumption DEF TypeOK, Apply, EvaluatedAt
<1>3. fresh' \in [Scopes -> [newest : Nat, anomalous : SUBSET Nat, confirming : SUBSET Nat]]
  BY <1>1, HistoryType
     DEF Apply, TelemetryUnhealthy, IgnoredInCooldown, AnomalySuspected, IncidentOpen,
         RecoveryObserved, RecoveryNotConfirmed, NoAnomaly
<1>4. CASE TelemetryUnhealthy(s, t) \/ IgnoredInCooldown(s, t)
  <2>0. signals \in [Scopes -> Signal] /\ signals[s] \in Signal
    BY DEF TypeOK
  <2>1. /\ signals' \in [Scopes -> Signal]
        /\ \A r \in Scopes : signals'[r].incident = signals[r].incident
    <3> DEFINE signal == signals'[s]
    <3>1. /\ signals' = [signals EXCEPT ![s] = signal]
          /\ signal.incident = signals[s].incident
      BY <1>4, <2>0 DEF TelemetryUnhealthy, IgnoredInCooldown, Signal
    <3>2. signal \in Signal
      BY <1>1, <1>4, <2>0 DEF Signal, Lifecycles, TelemetryUnhealthy, IgnoredInCooldown
    <3> HIDE DEF signal
    <3> QED
      BY <2>0, <3>1, <3>2
  <2> QED
    BY <1>2, <1>3, <1>4, <2>1 DEF TypeOK, TelemetryUnhealthy, IgnoredInCooldown
<1>5. CASE AnomalySuspected(s, t)
  <2>1. /\ Counted(Rested(s, t)) \in Signal
        /\ Counted(Rested(s, t)).incident \in DOMAIN incidents \cup {NoIncident}
    BY <1>1, RestedFacts, CountedFacts DEF TypeOK
  <2> QED
    BY <1>2, <1>3, <1>5, <2>1 DEF TypeOK, AnomalySuspected
<1>6. CASE IncidentOpen(s, t)
  <2>1. <<s, EvidenceEnd(t)>> \in Ids
    BY <1>1 DEF Ids
  <2>2. \A r \in Scopes : r # s => signals'[r] = signals[r]
    BY <1>6 DEF IncidentOpen, TypeOK
  <2> QED
    BY <1>1, <1>2, <1>3, <1>6, <2>1, <2>2, OpenedType DEF TypeOK
<1>7. ASSUME NEW signal \in Signal, NEW i \in DOMAIN incidents, NEW incident \in Incident,
             signal.incident = i,
             signals' = [signals EXCEPT ![s] = signal],
             incidents' = [incidents EXCEPT ![i] = incident]
      PROVE  TypeOK'
  BY <1>2, <1>3, <1>7 DEF TypeOK
<1>8. CASE RecoveryObserved(s, t)
  <2> DEFINE signal == Confirmed(Rested(s, t), t)
             i == signal.incident
             incident == [incidents[i] EXCEPT
                !.lifecycle = signal.lifecycle, !.updated_at = t, !.version = @ + 1,
                !.closure_mode =
                   IF signal.lifecycle = "RESOLVED" THEN "AUTOMATIC_RECOVERY" ELSE @]
  <2>1. /\ signal \in Signal /\ i \in DOMAIN incidents
        /\ signal.lifecycle \in {"RECOVERY_CANDIDATE", "RESOLVED"}
    <3>1. PICK rested \in Signal : rested = Rested(s, t)
      BY <1>1, RestedFacts
    <3>2. /\ rested.incident # NoIncident /\ signals[s].lifecycle # "RESOLVED"
          /\ rested.incident = signals[s].incident
      BY <1>1, <1>8, <3>1, RestedFacts DEF RecoveryObserved, InIncident
    <3>3. rested.incident \in DOMAIN incidents
      BY <3>2 DEF TypeOK
    <3>4. /\ Confirmed(rested, t) \in Signal /\ Confirmed(rested, t).incident = rested.incident
          /\ Confirmed(rested, t).lifecycle \in {"RECOVERY_CANDIDATE", "RESOLVED"}
      BY <1>1, ConfirmedFacts
    <3> QED
      BY <3>1, <3>3, <3>4
  <2>2. incidents' = [incidents EXCEPT ![i] = incident]
    BY <1>8 DEF RecoveryObserved
  <2>3. signals' = [signals EXCEPT ![s] = signal]
    BY <1>8 DEF RecoveryObserved
  <2> HIDE DEF signal
  <2>4. incident \in Incident
    <3>1. incidents[i] \in Incident
      BY <2>1 DEF TypeOK
    <3>2. incidents[i].version + 1 \in Nat
      BY <3>1 DEF Incident
    <3>3. signal.lifecycle \in {"OPEN", "RECOVERY_CANDIDATE", "RESOLVED"}
      BY <2>1
    <3> HIDE DEF i
    <3> QED
      BY <1>1, <3>1, <3>2, <3>3 DEF Incident
  <2> HIDE DEF incident
  <2> QED
    BY <1>7, <2>1, <2>2, <2>3, <2>4
<1>9. CASE RecoveryNotConfirmed(s, t)
  <2> DEFINE signal == [Rested(s, t) EXCEPT !.recovery_count = 0, !.lifecycle = "OPEN"]
             i == Rested(s, t).incident
             incident == [incidents[i] EXCEPT !.lifecycle = "OPEN", !.updated_at = t]
  <2>1. /\ Rested(s, t) \in Signal /\ i \in DOMAIN incidents
    BY <1>1, <1>9, RestedFacts DEF TypeOK, RecoveryNotConfirmed, InIncident
  <2>2. signal \in Signal /\ signal.incident = i
    BY <2>1 DEF Signal, Lifecycles
  <2>3. incidents' = [incidents EXCEPT ![i] = incident]
    BY <1>9 DEF RecoveryNotConfirmed
  <2>4. signals' = [signals EXCEPT ![s] = signal]
    BY <1>9 DEF RecoveryNotConfirmed
  <2>5. incident \in Incident
    <3>1. incidents[i] \in Incident
      BY <2>1 DEF TypeOK
    <3> HIDE DEF i
    <3> QED
      BY <1>1, <3>1 DEF Incident
  <2> HIDE DEF signal, incident, i
  <2> QED
    BY <1>7, <2>1, <2>2, <2>3, <2>4, <2>5
<1>10. CASE NoAnomaly(s, t)
  <2> DEFINE signal == [Rested(s, t) EXCEPT !.lifecycle = "HEALTHY", !.detection_count = 0]
  <2>1. /\ Rested(s, t) \in Signal
        /\ Rested(s, t).incident \in DOMAIN incidents \cup {NoIncident}
    BY <1>1, RestedFacts DEF TypeOK
  <2>2. signal \in Signal /\ signal.incident = Rested(s, t).incident
    BY <2>1 DEF Signal, Lifecycles
  <2>3. signals' = [signals EXCEPT ![s] = signal] /\ UNCHANGED incidents
    BY <1>10, Zenon DEF NoAnomaly
  <2> HIDE DEF signal
  <2> QED
    BY <1>2, <1>3, <2>1, <2>2, <2>3 DEF TypeOK
<1> QED
  <2>1. \/ TelemetryUnhealthy(s, t) \/ IgnoredInCooldown(s, t) \/ AnomalySuspected(s, t)
        \/ IncidentOpen(s, t) \/ RecoveryObserved(s, t) \/ RecoveryNotConfirmed(s, t)
        \/ NoAnomaly(s, t)
    BY Zenon DEF Apply
  <2> QED
    BY <2>1, <1>4, <1>5, <1>6, <1>8, <1>9, <1>10, Zenon

LEMMA ManualCloseType ==
  ASSUME TypeOK, NEW i \in DOMAIN incidents, ManualClose(i)
  PROVE  TypeOK'
<1>1. i \in Ids /\ i[1] \in Scopes /\ incidents[i] \in Incident
  BY DEF TypeOK, Ids
<1> DEFINE signal == [signals[i[1]] EXCEPT
                        !.lifecycle = "RESOLVED",
                        !.cooldown_until = incidents[i].updated_at + Cooldown]
           incident == [incidents[i] EXCEPT
                        !.lifecycle = "RESOLVED", !.closure_mode = "MANUAL", !.version = @ + 1]
<1>2. signal \in Signal /\ signal.incident = signals[i[1]].incident
  <2>1. incidents[i].updated_at + Cooldown \in Nat
    BY <1>1, SettingsAssumption DEF Incident
  <2>2. signals[i[1]] \in Signal
    BY <1>1 DEF TypeOK
  <2>3. signal \in Signal
    BY <2>1, <2>2 DEF Signal, Lifecycles
  <2>4. signal.incident = signals[i[1]].incident
    BY <2>2 DEF Signal
  <2> QED
    BY <2>3, <2>4
<1>3. incident \in Incident
  <2>1. incidents[i].version + 1 \in Nat
    BY <1>1 DEF Incident
  <2> QED
    BY <1>1, <2>1 DEF Incident
<1>4. signals' = [signals EXCEPT ![i[1]] = signal]
  BY DEF ManualClose
<1>5. incidents' = [incidents EXCEPT ![i] = incident]
  BY DEF ManualClose
<1>6. /\ UNCHANGED <<now, fresh, rewinds>>
      /\ manualCloses' = manualCloses + 1 /\ manualCloses < MaxManualCloses
  BY DEF ManualClose
<1> HIDE DEF signal, incident
<1> QED
  BY <1>1, <1>2, <1>3, <1>4, <1>5, <1>6, BoundAssumption DEF TypeOK

LEMMA TypeStep == TypeOK /\ [Next]_vars => TypeOK'
<1> SUFFICES ASSUME TypeOK, [Next]_vars PROVE TypeOK'
  OBVIOUS
<1>1. CASE Tick
  BY <1>1, SettingsAssumption, BoundAssumption DEF Tick, TypeOK
<1>2. CASE UNCHANGED vars
  BY <1>2 DEF vars, TypeOK
<1> QED
  BY <1>1, <1>2, ApplyType, ManualCloseType DEF Next

(* Every variable keeps its type, and a signal never refers to an incident *)
(* that does not exist, also with child scopes and manual closes.          *)
THEOREM TypeCorrect == Spec => []TypeOK
<1> QED
  BY TypeInit, TypeStep, PTL DEF Spec

-----------------------------------------------------------------------------
(* Freshness.  While evaluations do not go back in time, incidents open and *)
(* resolve on fresh buckets only: FreshCounts is inductive.                *)

LEMMA FreshInit == Init => FreshCounts
<1> SUFFICES ASSUME Init, NEW s \in Scopes
             PROVE  SeenInOrder(s) /\ CountsAreFresh(s) /\ IncidentWhenOpen(s)
  BY DEF FreshCounts
<1>1. /\ signals[s] = FreshSignal
      /\ fresh[s] = NothingSeen
      /\ now \in Nat
  BY SettingsAssumption DEF Init
<1>2. EvidenceEnd(now) \in Nat
  BY <1>1, EvidenceEndFacts
<1>3. SeenInOrder(s)
  BY <1>1, <1>2, FS_EmptySet DEF SeenInOrder, FreshSignal, NothingSeen
<1>4. CountsAreFresh(s) /\ IncidentWhenOpen(s)
  BY <1>1 DEF CountsAreFresh, IncidentWhenOpen, FreshSignal
<1> QED
  BY <1>3, <1>4

(* A fresh bucket adds one to a finite set of older buckets. *)
LEMMA OneMore ==
  ASSUME NEW B \in SUBSET Nat, IsFiniteSet(B), NEW e \in Nat, \A b \in B : b < e
  PROVE  /\ IsFiniteSet(B \cup {e})
         /\ Cardinality(B) \in Nat
         /\ Cardinality(B \cup {e}) = Cardinality(B) + 1
<1>1. e \notin B
  OBVIOUS
<1> QED
  BY <1>1, FS_AddElement, FS_CardinalityType

(* With no rewind, an evaluation is made now, about a bucket newer than    *)
(* all that were evaluated before.                                         *)
LEMMA EvaluatedNow ==
  ASSUME TypeOK, FreshCounts, MaxRewinds = 0,
         NEW s \in Scopes, NEW t \in BucketDuration..now, Apply(s, t)
  PROVE  /\ t = now /\ now' = now /\ now \in Nat
         /\ EvidenceEnd(t) \in Nat
         /\ manualCloses' = manualCloses
         /\ fresh[s].newest < EvidenceEnd(t)
         /\ Newest(s, t) = EvidenceEnd(t)
         /\ FreshBucket(s, t) = {EvidenceEnd(t)}
<1>1. t = now /\ now' = now /\ manualCloses' = manualCloses
  BY DEF Apply, EvaluatedAt, TypeOK
<1>2. FreshEvidence(s, t)
  BY Zenon DEF Apply, TelemetryUnhealthy, IgnoredInCooldown, AnomalySuspected, IncidentOpen,
         RecoveryObserved, RecoveryNotConfirmed, NoAnomaly
<1>3. t \in Nat /\ EvidenceEnd(t) \in Nat
  BY SettingsAssumption, EvidenceEndFacts DEF TypeOK
<1>4. /\ fresh[s].newest = signals[s].evidence_end
      /\ signals[s].evidence_end <= EvidenceEnd(now)
      /\ signals[s].evidence_end \in Nat
  BY DEF FreshCounts, SeenInOrder, TypeOK, Signal
<1>5. fresh[s].newest < EvidenceEnd(t)
  BY <1>1, <1>2, <1>3, <1>4 DEF FreshEvidence
<1> QED
  BY <1>1, <1>3, <1>5 DEF Newest, FreshBucket

(* What an evaluation leaves in the history of its signal. *)
LEMMA HistoryFacts ==
  ASSUME TypeOK, FreshCounts, MaxRewinds = 0,
         NEW s \in Scopes, NEW t \in BucketDuration..now, Apply(s, t)
  PROVE  /\ fresh'[s].newest = EvidenceEnd(t)
         /\ IsFiniteSet(fresh'[s].anomalous) /\ IsFiniteSet(fresh'[s].confirming)
         /\ \A b \in fresh'[s].anomalous \cup fresh'[s].confirming : b <= EvidenceEnd(t)
         /\ SeesAnomaly(s, t) =>
              /\ Cardinality(fresh[s].anomalous) \in Nat
              /\ Cardinality(fresh'[s].anomalous) = Cardinality(fresh[s].anomalous) + 1
         /\ SeesRecovery(s, t) =>
              /\ Cardinality(fresh[s].confirming) \in Nat
              /\ Cardinality(fresh'[s].confirming) = Cardinality(fresh[s].confirming) + 1
         /\ SeesNothing(s, t) => fresh'[s].confirming = fresh[s].confirming
         /\ \A r \in Scopes \ {s} : fresh'[r] = fresh[r]
<1> DEFINE e == EvidenceEnd(t)
<1>1. /\ Newest(s, t) = e /\ FreshBucket(s, t) = {e}
      /\ e \in Nat /\ fresh[s].newest < e
  BY EvaluatedNow
<1>2. /\ fresh[s].anomalous \in SUBSET Nat /\ IsFiniteSet(fresh[s].anomalous)
      /\ fresh[s].confirming \in SUBSET Nat /\ IsFiniteSet(fresh[s].confirming)
      /\ fresh[s].newest \in Nat
      /\ \A b \in fresh[s].anomalous \cup fresh[s].confirming : b < e
  BY <1>1 DEF FreshCounts, SeenInOrder, TypeOK
<1> HIDE DEF e
<1>3. /\ IsFiniteSet(fresh[s].anomalous \cup {e})
      /\ Cardinality(fresh[s].anomalous) \in Nat
      /\ Cardinality(fresh[s].anomalous \cup {e}) = Cardinality(fresh[s].anomalous) + 1
  BY <1>1, <1>2, OneMore
<1>4. /\ IsFiniteSet(fresh[s].confirming \cup {e})
      /\ Cardinality(fresh[s].confirming) \in Nat
      /\ Cardinality(fresh[s].confirming \cup {e}) = Cardinality(fresh[s].confirming) + 1
  BY <1>1, <1>2, OneMore
<1>5. IsFiniteSet({})
  BY FS_EmptySet
<1>6. \/ SeesAnomaly(s, t)
      \/ SeesRecovery(s, t)
      \/ SeesNeither(s, t)
      \/ SeesNothing(s, t)
  BY Zenon DEF Apply, TelemetryUnhealthy, IgnoredInCooldown, AnomalySuspected, IncidentOpen,
         RecoveryObserved, RecoveryNotConfirmed, NoAnomaly
<1>7. SeesAnomaly(s, t) =>
        /\ fresh' = [fresh EXCEPT ![s] = [newest |-> e, confirming |-> {},
                        anomalous |-> fresh[s].anomalous \cup {e}]]
        /\ fresh'[s].newest = e
        /\ fresh'[s].anomalous = fresh[s].anomalous \cup {e}
        /\ fresh'[s].confirming = {}
  BY <1>1 DEF SeesAnomaly, TypeOK
<1>8. SeesRecovery(s, t) =>
        /\ fresh' = [fresh EXCEPT ![s] = [newest |-> e, anomalous |-> {},
                        confirming |-> fresh[s].confirming \cup {e}]]
        /\ fresh'[s].newest = e
        /\ fresh'[s].anomalous = {}
        /\ fresh'[s].confirming = fresh[s].confirming \cup {e}
  BY <1>1 DEF SeesRecovery, TypeOK
<1>9. SeesNeither(s, t) =>
        /\ fresh' = [fresh EXCEPT ![s] = [newest |-> e, anomalous |-> {}, confirming |-> {}]]
        /\ fresh'[s].newest = e
        /\ fresh'[s].anomalous = {}
        /\ fresh'[s].confirming = {}
  BY <1>1 DEF SeesNeither, TypeOK
<1>10. SeesNothing(s, t) =>
        /\ fresh' = [fresh EXCEPT ![s] = [newest |-> e, anomalous |-> {},
                        confirming |-> fresh[s].confirming]]
        /\ fresh'[s].newest = e
        /\ fresh'[s].anomalous = {}
        /\ fresh'[s].confirming = fresh[s].confirming
  BY <1>1 DEF SeesNothing, TypeOK
<1>11. \A r \in Scopes \ {s} : fresh'[r] = fresh[r]
  BY <1>6 DEF SeesAnomaly, SeesRecovery, SeesNeither, SeesNothing, TypeOK
<1>12. fresh'[s].newest = e
  BY <1>6, <1>7, <1>8, <1>9, <1>10
<1>13. IsFiniteSet(fresh'[s].anomalous) /\ IsFiniteSet(fresh'[s].confirming)
  BY <1>2, <1>3, <1>4, <1>5, <1>6, <1>7, <1>8, <1>9, <1>10
<1>14. \A b \in fresh'[s].anomalous \cup fresh'[s].confirming : b <= e
  BY <1>1, <1>2, <1>6, <1>7, <1>8, <1>9, <1>10
<1>15. SeesAnomaly(s, t) => Cardinality(fresh'[s].anomalous) = Cardinality(fresh[s].anomalous) + 1
  BY <1>3, <1>7
<1>16. SeesRecovery(s, t) =>
         Cardinality(fresh'[s].confirming) = Cardinality(fresh[s].confirming) + 1
  BY <1>4, <1>8
<1> QED
  BY <1>3, <1>4, <1>10, <1>11, <1>12, <1>13, <1>14, <1>15, <1>16 DEF e

(* The signal an evaluation starts from, after a cooldown that is over. *)
LEMMA RestedCounts ==
  ASSUME TypeOK, FreshCounts, NEW s \in Scopes, NEW t \in Nat
  PROVE  /\ Rested(s, t) \in Signal
         /\ Rested(s, t).evidence_end = EvidenceEnd(t)
         /\ Rested(s, t).lifecycle \in
              {"WARMING_UP", "HEALTHY", "SUSPECTED", "OPEN", "RECOVERY_CANDIDATE"}
         /\ Rested(s, t).lifecycle = "SUSPECTED" =>
              Rested(s, t).detection_count <= Cardinality(fresh[s].anomalous)
         /\ Rested(s, t).lifecycle \in {"OPEN", "RECOVERY_CANDIDATE"} =>
              /\ Rested(s, t).recovery_count <= Cardinality(fresh[s].confirming)
              /\ Rested(s, t).incident # NoIncident
              /\ signals[s].lifecycle # "RESOLVED"
         /\ Rested(s, t).lifecycle \in {"WARMING_UP", "HEALTHY", "SUSPECTED"} =>
              Rested(s, t).incident = NoIncident
<1> DEFINE rested == Rested(s, t)
<1>1. /\ rested \in Signal
      /\ rested.evidence_end = EvidenceEnd(t)
      /\ signals[s].lifecycle # "RESOLVED" =>
           /\ rested.lifecycle = signals[s].lifecycle
           /\ rested.incident = signals[s].incident
           /\ rested.detection_count = signals[s].detection_count
           /\ rested.recovery_count = signals[s].recovery_count
      /\ signals[s].lifecycle = "RESOLVED" =>
           rested.lifecycle = "HEALTHY" /\ rested.incident = NoIncident
  BY RestedFacts
<1>2. CountsAreFresh(s) /\ IncidentWhenOpen(s) /\ signals[s].lifecycle \in Lifecycles
  BY DEF FreshCounts, TypeOK, Signal
<1> HIDE DEF rested
<1>3. CASE signals[s].lifecycle # "RESOLVED"
  BY <1>1, <1>2, <1>3 DEF CountsAreFresh, IncidentWhenOpen, Lifecycles, rested
<1>4. CASE signals[s].lifecycle = "RESOLVED"
  BY <1>1, <1>4 DEF rested
<1> QED
  BY <1>3, <1>4

(* What an evaluation leaves in its signal, case by case. *)
LEMMA SignalFacts ==
  ASSUME TypeOK, FreshCounts, MaxRewinds = 0,
         NEW s \in Scopes, NEW t \in BucketDuration..now, Apply(s, t)
  PROVE  /\ signals'[s].evidence_end = EvidenceEnd(t)
         /\ CountsAreFresh(s)'
         /\ IncidentWhenOpen(s)'
         /\ \A r \in Scopes \ {s} : signals'[r] = signals[r]
<1> DEFINE rested == Rested(s, t)
           new == signals'[s]
<1>1. t \in Nat
  BY SettingsAssumption DEF TypeOK
<1>2. /\ rested \in Signal
      /\ rested.evidence_end = EvidenceEnd(t)
      /\ rested.lifecycle \in
           {"WARMING_UP", "HEALTHY", "SUSPECTED", "OPEN", "RECOVERY_CANDIDATE"}
      /\ rested.lifecycle = "SUSPECTED" =>
           rested.detection_count <= Cardinality(fresh[s].anomalous)
      /\ rested.lifecycle \in {"OPEN", "RECOVERY_CANDIDATE"} =>
           /\ rested.recovery_count <= Cardinality(fresh[s].confirming)
           /\ rested.incident # NoIncident
           /\ signals[s].lifecycle # "RESOLVED"
      /\ rested.lifecycle \in {"WARMING_UP", "HEALTHY", "SUSPECTED"} =>
           rested.incident = NoIncident
  BY <1>1, RestedCounts
<1>3. /\ SeesAnomaly(s, t) =>
           /\ Cardinality(fresh[s].anomalous) \in Nat
           /\ Cardinality(fresh'[s].anomalous) = Cardinality(fresh[s].anomalous) + 1
      /\ SeesRecovery(s, t) =>
           /\ Cardinality(fresh[s].confirming) \in Nat
           /\ Cardinality(fresh'[s].confirming) = Cardinality(fresh[s].confirming) + 1
      /\ SeesNothing(s, t) => fresh'[s].confirming = fresh[s].confirming
      /\ Cardinality(fresh'[s].confirming) \in Nat
  BY HistoryFacts, FS_CardinalityType
<1>4. /\ signals[s] \in Signal
      /\ DOMAIN signals = Scopes
      /\ CountsAreFresh(s) /\ IncidentWhenOpen(s)
  BY DEF TypeOK, FreshCounts
<1> HIDE DEF rested
<1>5. CASE TelemetryUnhealthy(s, t)
  <2>1. /\ new.evidence_end = EvidenceEnd(t)
        /\ new.lifecycle = IF signals[s].incident = NoIncident THEN "WARMING_UP"
                           ELSE signals[s].lifecycle
        /\ new.recovery_count = signals[s].recovery_count
        /\ new.incident = signals[s].incident
        /\ \A r \in Scopes \ {s} : signals'[r] = signals[r]
    BY <1>4, <1>5 DEF TelemetryUnhealthy, Signal
  <2>2. SeesNothing(s, t)
    BY <1>5 DEF TelemetryUnhealthy
  <2> QED
    BY <1>3, <1>4, <2>1, <2>2 DEF CountsAreFresh, IncidentWhenOpen
<1>6. CASE IgnoredInCooldown(s, t)
  <2>1. /\ new.evidence_end = EvidenceEnd(t)
        /\ new.lifecycle = "RESOLVED"
        /\ \A r \in Scopes \ {s} : signals'[r] = signals[r]
    BY <1>4, <1>6 DEF IgnoredInCooldown, CoolingDown, Signal
  <2> QED
    BY <2>1 DEF CountsAreFresh, IncidentWhenOpen
<1>7. CASE AnomalySuspected(s, t)
  <2> DEFINE counted == Counted(rested)
  <2>1. /\ counted.evidence_end = rested.evidence_end
        /\ counted.incident = rested.incident
        /\ counted.recovery_count = 0
        /\ rested.lifecycle \in {"WARMING_UP", "HEALTHY"} =>
             counted.lifecycle = "SUSPECTED" /\ counted.detection_count = 1
        /\ rested.lifecycle = "SUSPECTED" =>
             /\ counted.lifecycle = "SUSPECTED"
             /\ counted.detection_count = rested.detection_count + 1
        /\ rested.lifecycle \in {"OPEN", "RECOVERY_CANDIDATE"} => counted.lifecycle = "OPEN"
    BY <1>2, CountedFacts
  <2> HIDE DEF counted
  <2>2. /\ new = counted
        /\ \A r \in Scopes \ {s} : signals'[r] = signals[r]
    BY <1>4, <1>7 DEF AnomalySuspected, counted, rested
  <2>3. SeesAnomaly(s, t)
    BY <1>7 DEF AnomalySuspected
  <2>4. rested.detection_count \in Nat
    BY <1>2 DEF Signal
  <2>5. new.lifecycle = "SUSPECTED" => new.detection_count <= Cardinality(fresh'[s].anomalous)
    BY <1>2, <1>3, <2>1, <2>2, <2>3, <2>4
  <2> QED
    BY <1>2, <1>3, <2>1, <2>2, <2>5 DEF CountsAreFresh, IncidentWhenOpen
<1>8. CASE IncidentOpen(s, t)
  <2> DEFINE counted == Counted(rested)
             i == IF counted.incident = NoIncident THEN IncidentFor(s, t) ELSE counted.incident
             opened == [counted EXCEPT !.lifecycle = "OPEN", !.incident = i]
  <2>1. /\ counted \in Signal
        /\ counted.evidence_end = rested.evidence_end
        /\ counted.recovery_count = 0
    BY <1>2, CountedFacts
  <2>2. signals' = [signals EXCEPT ![s] = opened]
    BY <1>8 DEF IncidentOpen, rested
  <2> HIDE DEF counted, i
  <2>3. /\ opened.lifecycle = "OPEN" /\ opened.recovery_count = 0
        /\ opened.evidence_end = EvidenceEnd(t) /\ opened.incident = i
    BY <1>2, <2>1 DEF Signal
  <2> HIDE DEF opened
  <2>4. /\ new = opened
        /\ \A r \in Scopes \ {s} : signals'[r] = signals[r]
    BY <1>4, <2>2
  <2>5. i # NoIncident
    BY <1>4, ScopeAssumption, <1>1, EvidenceEndFacts, BoundAssumption
       DEF i, IncidentFor, Ids, TypeOK
  <2> QED
    BY <1>3, <2>3, <2>4, <2>5 DEF CountsAreFresh, IncidentWhenOpen
<1>9. CASE RecoveryObserved(s, t)
  <2> DEFINE confirmed == Confirmed(rested, t)
  <2>1. /\ confirmed.evidence_end = rested.evidence_end
        /\ confirmed.incident = rested.incident
        /\ confirmed.recovery_count = rested.recovery_count + 1
        /\ confirmed.lifecycle \in {"RECOVERY_CANDIDATE", "RESOLVED"}
    BY <1>1, <1>2, ConfirmedFacts
  <2> HIDE DEF confirmed
  <2>2. /\ new = confirmed
        /\ \A r \in Scopes \ {s} : signals'[r] = signals[r]
    BY <1>4, <1>9 DEF RecoveryObserved, confirmed, rested
  <2>3. /\ SeesRecovery(s, t)
        /\ rested.lifecycle \in {"OPEN", "RECOVERY_CANDIDATE"}
        /\ rested.recovery_count \in Nat
    BY <1>2, <1>9 DEF RecoveryObserved, InIncident, rested, Signal
  <2>4. new.recovery_count <= Cardinality(fresh'[s].confirming)
    BY <1>2, <1>3, <2>1, <2>2, <2>3
  <2> QED
    BY <1>2, <2>1, <2>2, <2>3, <2>4 DEF CountsAreFresh, IncidentWhenOpen
<1>10. CASE RecoveryNotConfirmed(s, t)
  <2>1. /\ new = [rested EXCEPT !.recovery_count = 0, !.lifecycle = "OPEN"]
        /\ \A r \in Scopes \ {s} : signals'[r] = signals[r]
        /\ rested.incident # NoIncident
    BY <1>4, <1>10 DEF RecoveryNotConfirmed, InIncident, rested
  <2>2. /\ new.evidence_end = EvidenceEnd(t) /\ new.recovery_count = 0
        /\ new.lifecycle = "OPEN" /\ new.incident = rested.incident
    BY <1>2, <2>1 DEF Signal
  <2> QED
    BY <1>3, <2>1, <2>2 DEF CountsAreFresh, IncidentWhenOpen
<1>11. CASE NoAnomaly(s, t)
  <2>1. /\ new = [rested EXCEPT !.lifecycle = "HEALTHY", !.detection_count = 0]
        /\ \A r \in Scopes \ {s} : signals'[r] = signals[r]
        /\ ~InIncident(rested)
    BY <1>4, <1>11 DEF NoAnomaly, rested
  <2>2. /\ new.evidence_end = EvidenceEnd(t)
        /\ new.lifecycle = "HEALTHY" /\ new.incident = rested.incident
    BY <1>2, <2>1 DEF Signal
  <2>3. rested.incident = NoIncident
    BY <1>2, <2>1 DEF InIncident
  <2> QED
    BY <2>1, <2>2, <2>3 DEF CountsAreFresh, IncidentWhenOpen
<1>12. \/ TelemetryUnhealthy(s, t) \/ IgnoredInCooldown(s, t) \/ AnomalySuspected(s, t)
       \/ IncidentOpen(s, t) \/ RecoveryObserved(s, t) \/ RecoveryNotConfirmed(s, t)
       \/ NoAnomaly(s, t)
  BY Zenon DEF Apply
<1> QED
  BY <1>5, <1>6, <1>7, <1>8, <1>9, <1>10, <1>11, <1>12

LEMMA FreshStep ==
  ASSUME TypeOK, TypeOK', FreshCounts, MaxRewinds = 0, [Next]_vars
  PROVE  FreshCounts'
<1>1. CASE Tick
  <2>1. now \in Nat /\ now' \in Nat /\ now <= now'
    BY <1>1, SettingsAssumption, BoundAssumption DEF Tick, TypeOK
  <2>2. /\ EvidenceEnd(now) <= EvidenceEnd(now')
        /\ EvidenceEnd(now) \in Nat /\ EvidenceEnd(now') \in Nat
    BY <2>1, EvidenceEndMonotone, EvidenceEndFacts
  <2>3. UNCHANGED <<signals, fresh>>
    BY <1>1 DEF Tick
  <2> SUFFICES ASSUME NEW s \in Scopes
               PROVE  SeenInOrder(s)' /\ CountsAreFresh(s)' /\ IncidentWhenOpen(s)'
    BY DEF FreshCounts
  <2>4. /\ SeenInOrder(s) /\ CountsAreFresh(s) /\ IncidentWhenOpen(s)
        /\ signals[s].evidence_end \in Nat
    BY DEF FreshCounts, TypeOK, Signal
  <2>5. SeenInOrder(s)'
    <3>1. signals'[s].evidence_end <= EvidenceEnd(now')
      BY <2>2, <2>3, <2>4 DEF SeenInOrder
    <3>2. EvidenceEnd(now)' = EvidenceEnd(now')
      BY DEF EvidenceEnd
    <3> QED
      BY <2>3, <2>4, <3>1, <3>2 DEF SeenInOrder
  <2> QED
    BY <2>3, <2>4, <2>5 DEF CountsAreFresh, IncidentWhenOpen
<1>2. ASSUME NEW s \in Scopes, NEW t \in BucketDuration..now, Apply(s, t)
      PROVE  FreshCounts'
  <2>1. /\ t = now /\ now' = now /\ EvidenceEnd(t) \in Nat
    BY <1>2, EvaluatedNow
  <2>2. /\ fresh'[s].newest = EvidenceEnd(t)
        /\ IsFiniteSet(fresh'[s].anomalous) /\ IsFiniteSet(fresh'[s].confirming)
        /\ \A b \in fresh'[s].anomalous \cup fresh'[s].confirming : b <= EvidenceEnd(t)
        /\ \A r \in Scopes \ {s} : fresh'[r] = fresh[r]
    BY <1>2, HistoryFacts
  <2>3. /\ signals'[s].evidence_end = EvidenceEnd(t)
        /\ CountsAreFresh(s)' /\ IncidentWhenOpen(s)'
        /\ \A r \in Scopes \ {s} : signals'[r] = signals[r]
    BY <1>2, SignalFacts
  <2>4. SeenInOrder(s)'
    BY <2>1, <2>2, <2>3 DEF SeenInOrder, EvidenceEnd
  <2>5. ASSUME NEW r \in Scopes \ {s}
        PROVE  SeenInOrder(r)' /\ CountsAreFresh(r)' /\ IncidentWhenOpen(r)'
    BY <2>1, <2>2, <2>3, <2>5
       DEF FreshCounts, SeenInOrder, CountsAreFresh, IncidentWhenOpen, EvidenceEnd
  <2> QED
    BY <2>3, <2>4, <2>5 DEF FreshCounts
<1>3. ASSUME NEW i \in DOMAIN incidents, ManualClose(i)
      PROVE  FreshCounts'
  <2>1. UNCHANGED <<now, fresh>>
    BY <1>3 DEF ManualClose
  <2>2. ASSUME NEW s \in Scopes
        PROVE  /\ signals'[s].evidence_end = signals[s].evidence_end
               /\ signals'[s] = signals[s] \/ signals'[s].lifecycle = "RESOLVED"
    BY <1>3 DEF ManualClose, TypeOK, Signal
  <2> SUFFICES ASSUME NEW s \in Scopes
               PROVE  SeenInOrder(s)' /\ CountsAreFresh(s)' /\ IncidentWhenOpen(s)'
    BY DEF FreshCounts
  <2>3. SeenInOrder(s) /\ CountsAreFresh(s) /\ IncidentWhenOpen(s)
    BY DEF FreshCounts
  <2> QED
    BY <2>1, <2>2, <2>3 DEF SeenInOrder, CountsAreFresh, IncidentWhenOpen, EvidenceEnd
<1>4. CASE UNCHANGED vars
  BY <1>4 DEF vars, FreshCounts, SeenInOrder, CountsAreFresh, IncidentWhenOpen, EvidenceEnd
<1> QED
  BY <1>1, <1>2, <1>3, <1>4 DEF Next

(* A new incident's scope has just seen enough anomalous fresh buckets. *)
LEMMA OpensFresh ==
  ASSUME TypeOK, FreshCounts, MaxRewinds = 0, [Next]_vars,
         NEW i \in DOMAIN incidents' \ DOMAIN incidents
  PROVE  Cardinality(fresh'[i[1]].anomalous) >= DetectionPersistence
<1>1. \E s \in Scopes, t \in BucketDuration..now : Apply(s, t) /\ IncidentOpen(s, t)
  <2>1. DOMAIN incidents' # DOMAIN incidents
    OBVIOUS
  <2>2. ~UNCHANGED vars /\ ~Tick
    BY <2>1 DEF vars, Tick
  <2>3. ASSUME NEW k \in DOMAIN incidents, ManualClose(k) PROVE FALSE
    BY <2>1, <2>3 DEF ManualClose
  <2>4. PICK s \in Scopes, t \in BucketDuration..now : Apply(s, t)
    BY <2>2, <2>3 DEF Next
  <2>5. /\ ~TelemetryUnhealthy(s, t) /\ ~IgnoredInCooldown(s, t) /\ ~AnomalySuspected(s, t)
        /\ ~NoAnomaly(s, t)
    BY <2>1 DEF TelemetryUnhealthy, IgnoredInCooldown, AnomalySuspected, NoAnomaly
  <2>6. ~RecoveryObserved(s, t) /\ ~RecoveryNotConfirmed(s, t)
    BY <2>1 DEF RecoveryObserved, RecoveryNotConfirmed
  <2>7. IncidentOpen(s, t)
    BY <2>4, <2>5, <2>6, Zenon DEF Apply
  <2> QED
    BY <2>4, <2>7
<1>2. PICK s \in Scopes, t \in BucketDuration..now : Apply(s, t) /\ IncidentOpen(s, t)
  BY <1>1
<1> DEFINE rested == Rested(s, t)
           counted == Counted(rested)
<1>3. t \in Nat /\ EvidenceEnd(t) \in 0..MaxTime
  BY SettingsAssumption, BoundAssumption, EvidenceEndFacts DEF TypeOK
<1>4. i = <<s, EvidenceEnd(t)>>
  BY <1>2, <1>3, OpenedType
<1>5. /\ counted.detection_count >= DetectionPersistence
      /\ SeesAnomaly(s, t)
  BY <1>2 DEF IncidentOpen
<1>6. /\ rested \in Signal
      /\ rested.lifecycle \in
           {"WARMING_UP", "HEALTHY", "SUSPECTED", "OPEN", "RECOVERY_CANDIDATE"}
      /\ rested.lifecycle = "SUSPECTED" =>
           rested.detection_count <= Cardinality(fresh[s].anomalous)
      /\ rested.lifecycle \in {"OPEN", "RECOVERY_CANDIDATE"} => rested.incident # NoIncident
  BY <1>3, RestedCounts
<1>7. counted.incident = NoIncident
  <2>1. SUFFICES ASSUME counted.incident # NoIncident PROVE FALSE
    OBVIOUS
  <2>2. DOMAIN incidents' = DOMAIN incidents
    BY <1>2, <2>1 DEF IncidentOpen
  <2> QED
    BY <2>2
<1>8. /\ counted.incident = rested.incident
      /\ rested.lifecycle \in {"WARMING_UP", "HEALTHY"} => counted.detection_count = 1
      /\ rested.lifecycle = "SUSPECTED" =>
           counted.detection_count = rested.detection_count + 1
  BY <1>6, CountedFacts
<1>9. /\ Cardinality(fresh[s].anomalous) \in Nat
      /\ Cardinality(fresh'[s].anomalous) = Cardinality(fresh[s].anomalous) + 1
  BY <1>2, <1>5, HistoryFacts
<1>10. rested.detection_count \in Nat
  BY <1>6 DEF Signal
<1> HIDE DEF rested, counted
<1>11. counted.detection_count <= Cardinality(fresh'[s].anomalous)
  BY <1>6, <1>7, <1>8, <1>9, <1>10
<1>12. counted.detection_count \in Nat
  BY <1>6, <1>7, <1>8, <1>10
<1> QED
  BY <1>4, <1>5, <1>9, <1>11, <1>12, SettingsAssumption

(* A signal that resolves has just seen enough confirming fresh buckets. *)
LEMMA ResolvesFresh ==
  ASSUME TypeOK, FreshCounts, MaxRewinds = 0, [Next]_vars, NEW r \in Scopes,
         signals'[r].lifecycle = "RESOLVED", signals[r].lifecycle # "RESOLVED",
         manualCloses' = manualCloses
  PROVE  Cardinality(fresh'[r].confirming) >= RecoveryPersistence
<1>1. ASSUME NEW i \in DOMAIN incidents, ManualClose(i) PROVE FALSE
  <2>1. manualCloses' = manualCloses + 1
    BY <1>1 DEF ManualClose
  <2>2. manualCloses \in Int
    BY BoundAssumption DEF TypeOK
  <2> QED
    BY <2>1, <2>2
<1>2. \E s \in Scopes, t \in BucketDuration..now : Apply(s, t)
  BY <1>1 DEF Next, vars, Tick
<1>3. PICK s \in Scopes, t \in BucketDuration..now : Apply(s, t)
  BY <1>2
<1>4. r = s
  BY <1>3, SignalFacts
<1>5. t \in Nat /\ DOMAIN signals = Scopes /\ signals[s] \in Signal
  BY SettingsAssumption DEF TypeOK
<1> DEFINE rested == Rested(s, t)
           confirmed == Confirmed(rested, t)
<1>6. /\ rested \in Signal
      /\ rested.lifecycle # "RESOLVED"
      /\ rested.lifecycle \in {"OPEN", "RECOVERY_CANDIDATE"} =>
           rested.recovery_count <= Cardinality(fresh[s].confirming)
  BY <1>5, RestedCounts
<1>7. Counted(rested).lifecycle # "RESOLVED"
  BY <1>6, CountedFacts DEF Signal, Lifecycles
<1>8. RecoveryObserved(s, t)
  <2>1. ~TelemetryUnhealthy(s, t) /\ ~IgnoredInCooldown(s, t)
    BY <1>4, <1>5 DEF TelemetryUnhealthy, IgnoredInCooldown, CoolingDown, Signal
  <2>2. ~AnomalySuspected(s, t)
    BY <1>4, <1>5, <1>7 DEF AnomalySuspected
  <2>3. ~IncidentOpen(s, t)
    <3> SUFFICES ASSUME IncidentOpen(s, t) PROVE FALSE
      OBVIOUS
    <3> DEFINE i == IF Counted(rested).incident = NoIncident THEN IncidentFor(s, t)
                    ELSE Counted(rested).incident
    <3>1. signals' = [signals EXCEPT ![s] =
                        [Counted(rested) EXCEPT !.lifecycle = "OPEN", !.incident = i]]
      BY DEF IncidentOpen
    <3> HIDE DEF i
    <3>2. Counted(rested) \in Signal
      BY <1>6, CountedFacts
    <3>3. signals'[s].lifecycle = "OPEN"
      BY <1>5, <3>1, <3>2 DEF Signal
    <3> QED
      BY <1>4, <3>3
  <2>4. ~RecoveryNotConfirmed(s, t) /\ ~NoAnomaly(s, t)
    <3>1. /\ [rested EXCEPT !.recovery_count = 0, !.lifecycle = "OPEN"].lifecycle = "OPEN"
          /\ [rested EXCEPT !.lifecycle = "HEALTHY", !.detection_count = 0].lifecycle = "HEALTHY"
      BY <1>6 DEF Signal
    <3> QED
      BY <1>4, <1>5, <3>1 DEF RecoveryNotConfirmed, NoAnomaly
  <2> QED
    BY <1>3, <2>1, <2>2, <2>3, <2>4, Zenon DEF Apply
<1>9. /\ signals'[s] = confirmed
      /\ rested.lifecycle \in {"OPEN", "RECOVERY_CANDIDATE"}
      /\ SeesRecovery(s, t)
  BY <1>5, <1>8 DEF RecoveryObserved, InIncident
<1>10. rested.recovery_count + 1 >= RecoveryPersistence
  BY <1>4, <1>5, <1>6, <1>9, ConfirmedFacts
<1>11. /\ Cardinality(fresh[s].confirming) \in Nat
       /\ Cardinality(fresh'[s].confirming) = Cardinality(fresh[s].confirming) + 1
  BY <1>3, <1>9, HistoryFacts
<1>12. rested.recovery_count \in Nat
  BY <1>6 DEF Signal
<1> HIDE DEF rested, confirmed
<1> QED
  BY <1>4, <1>6, <1>9, <1>10, <1>11, <1>12, SettingsAssumption

(* Without a rewind, whatever the evaluations say, incidents open on fresh *)
(* buckets only, in any number of scopes and with manual closes.           *)
THEOREM OpensOnFreshBuckets ==
  ASSUME MaxRewinds = 0
  PROVE  Spec => DetectionIsFresh
<1>1. Init => TypeOK /\ FreshCounts
  BY TypeInit, FreshInit
<1>2. TypeOK /\ FreshCounts /\ [Next]_vars => (TypeOK /\ FreshCounts)'
  BY TypeStep, FreshStep
<1>3. TypeOK /\ FreshCounts /\ [Next]_vars =>
        [\A i \in DOMAIN incidents' \ DOMAIN incidents :
           Cardinality(fresh'[i[1]].anomalous) >= DetectionPersistence]_vars
  BY OpensFresh
<1> QED
  BY <1>1, <1>2, <1>3, PTL DEF Spec, DetectionIsFresh

(* Without a rewind, a signal resolves by recovery only after enough fresh *)
(* buckets in a row confirmed it.                                          *)
THEOREM ResolvesOnFreshBuckets ==
  ASSUME MaxRewinds = 0
  PROVE  Spec => RecoveryIsFresh
<1>1. Init => TypeOK /\ FreshCounts
  BY TypeInit, FreshInit
<1>2. TypeOK /\ FreshCounts /\ [Next]_vars => (TypeOK /\ FreshCounts)'
  BY TypeStep, FreshStep
<1>3. TypeOK /\ FreshCounts /\ [Next]_vars =>
        [\A s \in Scopes :
           /\ signals'[s].lifecycle = "RESOLVED"
           /\ signals[s].lifecycle # "RESOLVED"
           /\ manualCloses' = manualCloses
           => Cardinality(fresh'[s].confirming) >= RecoveryPersistence]_vars
  BY ResolvesFresh
<1> QED
  BY <1>1, <1>2, <1>3, PTL DEF Spec, RecoveryIsFresh

-----------------------------------------------------------------------------
(* Incidents and the signals they belong to.  What the theorems below rest *)
(* on, besides FreshCounts, is defined first.                              *)

(* With one signal and no manual close, the signal leaves an unresolved    *)
(* incident only by resolving it, ...                                      *)
OneOwner == IncidentWhenOpen(Global) /\ SignalOwnsIncident

(* ... it starts again only when every resolved incident has had its       *)
(* cooldown, ...                                                           *)
CooldownKept ==
  IF signals[Global].lifecycle = "RESOLVED"
  THEN /\ signals[Global].cooldown_until # 0
       /\ \A k \in Resolved :
            incidents[k].updated_at + Cooldown <= signals[Global].cooldown_until
  ELSE \A k \in Resolved : incidents[k].updated_at + Cooldown <= now

(* ... and an incident is named after a bucket its scope has evaluated.    *)
NamedAfterEvidence == \A i \in DOMAIN incidents : i[2] <= signals[i[1]].evidence_end

(* In any number of scopes, an incident lists the scope it is named after. *)
OwnScopeListed == \A i \in DOMAIN incidents : i[1] \in incidents[i].signal_scopes

(* What opening, or confirming, an incident leaves behind. *)
LEMMA OpenedFacts ==
  ASSUME TypeOK, NEW s \in Scopes, NEW t \in Nat, IncidentOpen(s, t),
         NEW i, i = signals'[s].incident
  PROVE  /\ i = IF Rested(s, t).incident = NoIncident THEN IncidentFor(s, t)
                ELSE Rested(s, t).incident
         /\ DOMAIN incidents' = DOMAIN incidents \cup {i}
         /\ incidents'[i].lifecycle = "OPEN" /\ incidents'[i].updated_at = t
         /\ \A k \in DOMAIN incidents \ {i} : incidents'[k] = incidents[k]
         /\ i \notin DOMAIN incidents => incidents'[i].signal_scopes = {s}
         /\ i \in DOMAIN incidents =>
              /\ incidents[i].signal_scopes \subseteq incidents'[i].signal_scopes
              /\ Rested(s, t).incident = NoIncident /\ i[1] # s =>
                   s \in incidents'[i].signal_scopes
         /\ signals'[s].lifecycle = "OPEN"
         /\ signals'[s].evidence_end = EvidenceEnd(t)
         /\ \A r \in Scopes \ {s} : signals'[r] = signals[r]
<1> DEFINE rested == Rested(s, t)
           counted == Counted(rested)
           j == IF counted.incident = NoIncident THEN IncidentFor(s, t) ELSE counted.incident
           before == IF counted.incident = NoIncident THEN Joined(j, s, t) ELSE incidents
<1>1. /\ rested \in Signal /\ rested.evidence_end = EvidenceEnd(t)
      /\ counted \in Signal /\ counted.incident = rested.incident
      /\ counted.evidence_end = EvidenceEnd(t)
  BY RestedFacts, CountedFacts
<1>2. rested.incident \in DOMAIN incidents \cup {NoIncident}
  BY RestedFacts DEF TypeOK
<1>3. incidents' = [before EXCEPT ![j].lifecycle = "OPEN", ![j].updated_at = t,
                                 ![j].version = @ + 1]
  BY DEF IncidentOpen
<1>4. signals' = [signals EXCEPT ![s] = [counted EXCEPT !.lifecycle = "OPEN", !.incident = j]]
  BY DEF IncidentOpen
<1>5. /\ DOMAIN before = DOMAIN incidents \cup {j}
      /\ \A k \in DOMAIN incidents \ {j} : before[k] = incidents[k]
      /\ j \notin DOMAIN incidents => before[j] = NewIncident(s, t)
      /\ j \in DOMAIN incidents =>
           before[j] = IF counted.incident = NoIncident /\ j[1] # s
                       THEN [incidents[j] EXCEPT !.signal_scopes = @ \cup {s}]
                       ELSE incidents[j]
  <2>1. CASE counted.incident = NoIncident
    BY <2>1 DEF Joined
  <2>2. CASE counted.incident # NoIncident
    <3>1. before = incidents /\ j = counted.incident
      BY <2>2
    <3>2. j \in DOMAIN incidents
      BY <1>1, <1>2, <2>2
    <3> QED
      BY <2>2, <3>1, <3>2
  <2> QED
    BY <2>1, <2>2
<1>6. /\ DOMAIN incidents' = DOMAIN before
      /\ \A k \in DOMAIN before \ {j} : incidents'[k] = before[k]
      /\ incidents'[j] = [before[j] EXCEPT !.lifecycle = "OPEN", !.updated_at = t,
                                          !.version = @ + 1]
  <2> HIDE DEF before, j
  <2> QED
    BY <1>3, <1>5
<1>7. signals[s] \in Signal /\ DOMAIN signals = Scopes
  BY DEF TypeOK
<1>8. /\ j = i /\ signals'[s].lifecycle = "OPEN"
      /\ signals'[s].evidence_end = EvidenceEnd(t)
      /\ \A r \in Scopes \ {s} : signals'[r] = signals[r]
  <2> HIDE DEF j, counted
  <2> QED
    BY <1>1, <1>4, <1>7 DEF Signal
<1>9. j = IF rested.incident = NoIncident THEN IncidentFor(s, t) ELSE rested.incident
  BY <1>1
<1>10. before[j] \in Incident
  <2>1. NewIncident(s, t) \in Incident
    BY DEF NewIncident, Incident
  <2>2. j \in DOMAIN incidents => incidents[j] \in Incident
    BY DEF TypeOK
  <2>3. j \in DOMAIN incidents => [incidents[j] EXCEPT !.signal_scopes = @ \cup {s}] \in Incident
    <3> HIDE DEF j
    <3> QED
      BY <2>2 DEF Incident
  <2> HIDE DEF j, before
  <2> QED
    BY <1>5, <2>1, <2>2, <2>3
<1>11. /\ incidents'[j].lifecycle = "OPEN" /\ incidents'[j].updated_at = t
       /\ incidents'[j].signal_scopes = before[j].signal_scopes
  <2> HIDE DEF before, j
  <2> QED
    BY <1>6, <1>10 DEF Incident
<1>12. /\ j \notin DOMAIN incidents => before[j].signal_scopes = {s}
       /\ j \in DOMAIN incidents =>
            before[j].signal_scopes =
              IF counted.incident = NoIncident /\ j[1] # s
              THEN incidents[j].signal_scopes \cup {s} ELSE incidents[j].signal_scopes
  <2>1. NewIncident(s, t).signal_scopes = {s}
    BY DEF NewIncident
  <2>2. j \in DOMAIN incidents => incidents[j] \in Incident
    BY DEF TypeOK
  <2> HIDE DEF j, before, counted
  <2> QED
    BY <1>5, <2>1, <2>2 DEF Incident
<1> HIDE DEF j, before, counted, rested
<1> QED
  BY <1>1, <1>5, <1>6, <1>8, <1>9, <1>11, <1>12 DEF rested

(* What an evaluation that passes the recovery bounds leaves behind. *)
LEMMA RecoveryFacts ==
  ASSUME TypeOK, NEW s \in Scopes, NEW t \in Nat, RecoveryObserved(s, t)
  PROVE  LET i == Rested(s, t).incident
         IN  /\ i \in DOMAIN incidents
             /\ Rested(s, t).lifecycle \in {"OPEN", "RECOVERY_CANDIDATE"}
             /\ signals'[s].incident = i
             /\ signals'[s].evidence_end = EvidenceEnd(t)
             /\ signals'[s].lifecycle \in {"RECOVERY_CANDIDATE", "RESOLVED"}
             /\ signals'[s].lifecycle = "RESOLVED" => signals'[s].cooldown_until = t + Cooldown
             /\ DOMAIN incidents' = DOMAIN incidents
             /\ incidents'[i].lifecycle = signals'[s].lifecycle
             /\ incidents'[i].updated_at = t
             /\ incidents'[i].signal_scopes = incidents[i].signal_scopes
             /\ \A k \in DOMAIN incidents \ {i} : incidents'[k] = incidents[k]
             /\ \A r \in Scopes \ {s} : signals'[r] = signals[r]
<1> DEFINE rested == Rested(s, t)
           signal == Confirmed(rested, t)
           i == rested.incident
           incident == [incidents[i] EXCEPT
              !.lifecycle = signal.lifecycle, !.updated_at = t, !.version = @ + 1,
              !.closure_mode =
                 IF signal.lifecycle = "RESOLVED" THEN "AUTOMATIC_RECOVERY" ELSE @]
<1>1. /\ rested \in Signal /\ rested.evidence_end = EvidenceEnd(t)
      /\ rested.incident \in DOMAIN incidents \cup {NoIncident}
  BY RestedFacts DEF TypeOK
<1>2. /\ rested.incident # NoIncident
      /\ rested.lifecycle \in {"OPEN", "RECOVERY_CANDIDATE"}
  BY DEF RecoveryObserved, InIncident
<1>3. /\ signal \in Signal /\ signal.incident = i /\ signal.evidence_end = EvidenceEnd(t)
      /\ signal.lifecycle \in {"RECOVERY_CANDIDATE", "RESOLVED"}
  BY <1>1, ConfirmedFacts
<1>4. signal.lifecycle = "RESOLVED" => signal.cooldown_until = t + Cooldown
  <2> HIDE DEF rested
  <2> QED
    BY <1>1 DEF Confirmed, Signal
<1>5. signals' = [signals EXCEPT ![s] = signal]
  BY DEF RecoveryObserved
<1>6. incidents' = [incidents EXCEPT ![i] = incident]
  BY <1>3 DEF RecoveryObserved
<1>7. i \in DOMAIN incidents /\ incidents[i] \in Incident
  BY <1>1, <1>2 DEF TypeOK
<1> HIDE DEF signal, rested
<1>8. /\ incident.lifecycle = signal.lifecycle /\ incident.updated_at = t
      /\ incident.signal_scopes = incidents[i].signal_scopes
  <2> HIDE DEF i
  <2> QED
    BY <1>7 DEF Incident
<1>9. DOMAIN signals = Scopes
  BY DEF TypeOK
<1> HIDE DEF incident, i
<1>10. /\ signals'[s] = signal /\ incidents'[i] = incident
       /\ DOMAIN incidents' = DOMAIN incidents
       /\ \A k \in DOMAIN incidents \ {i} : incidents'[k] = incidents[k]
       /\ \A r \in Scopes \ {s} : signals'[r] = signals[r]
  BY <1>5, <1>6, <1>7, <1>9
<1> QED
  BY <1>2, <1>3, <1>4, <1>7, <1>8, <1>10 DEF i, rested

(* What an evaluation between anomaly and recovery leaves behind. *)
LEMMA ReopenedFacts ==
  ASSUME TypeOK, NEW s \in Scopes, NEW t \in Nat, RecoveryNotConfirmed(s, t)
  PROVE  LET i == Rested(s, t).incident
         IN  /\ i \in DOMAIN incidents
             /\ Rested(s, t).lifecycle \in {"OPEN", "RECOVERY_CANDIDATE"}
             /\ signals'[s].incident = i
             /\ signals'[s].evidence_end = EvidenceEnd(t)
             /\ signals'[s].lifecycle = "OPEN"
             /\ DOMAIN incidents' = DOMAIN incidents
             /\ incidents'[i].lifecycle = "OPEN"
             /\ incidents'[i].signal_scopes = incidents[i].signal_scopes
             /\ \A k \in DOMAIN incidents \ {i} : incidents'[k] = incidents[k]
             /\ \A r \in Scopes \ {s} : signals'[r] = signals[r]
<1> DEFINE rested == Rested(s, t)
           signal == [rested EXCEPT !.recovery_count = 0, !.lifecycle = "OPEN"]
           i == rested.incident
           incident == [incidents[i] EXCEPT !.lifecycle = "OPEN", !.updated_at = t]
<1>1. /\ rested \in Signal /\ rested.evidence_end = EvidenceEnd(t)
      /\ rested.incident \in DOMAIN incidents \cup {NoIncident}
  BY RestedFacts DEF TypeOK
<1>2. /\ rested.incident # NoIncident
      /\ rested.lifecycle \in {"OPEN", "RECOVERY_CANDIDATE"}
  BY DEF RecoveryNotConfirmed, InIncident
<1>3. signals' = [signals EXCEPT ![s] = signal]
  BY DEF RecoveryNotConfirmed
<1>4. incidents' = [incidents EXCEPT ![i] = incident]
  BY DEF RecoveryNotConfirmed
<1> HIDE DEF rested
<1>5. /\ signal.incident = i /\ signal.evidence_end = EvidenceEnd(t)
      /\ signal.lifecycle = "OPEN"
  BY <1>1 DEF Signal
<1>6. i \in DOMAIN incidents /\ incidents[i] \in Incident /\ DOMAIN signals = Scopes
  BY <1>1, <1>2 DEF TypeOK
<1>7. incident.lifecycle = "OPEN" /\ incident.signal_scopes = incidents[i].signal_scopes
  <2> HIDE DEF i
  <2> QED
    BY <1>6 DEF Incident
<1> HIDE DEF signal, incident, i
<1>8. /\ signals'[s] = signal /\ incidents'[i] = incident
      /\ DOMAIN incidents' = DOMAIN incidents
      /\ \A k \in DOMAIN incidents \ {i} : incidents'[k] = incidents[k]
      /\ \A r \in Scopes \ {s} : signals'[r] = signals[r]
  BY <1>3, <1>4, <1>6
<1> QED
  BY <1>2, <1>5, <1>6, <1>7, <1>8 DEF i, rested

Quiet(s, t) ==
  \/ TelemetryUnhealthy(s, t)
  \/ IgnoredInCooldown(s, t)
  \/ AnomalySuspected(s, t)
  \/ NoAnomaly(s, t)

Watching == {"WARMING_UP", "HEALTHY", "SUSPECTED"}

(* An evaluation that leaves the incidents alone keeps the signal's        *)
(* incident, or lets a resolved signal start again without one.            *)
LEMMA QuietFacts ==
  ASSUME TypeOK, NEW s \in Scopes, NEW t \in Nat, Quiet(s, t)
  PROVE  /\ incidents' = incidents
         /\ signals'[s].evidence_end = EvidenceEnd(t)
         /\ \A r \in Scopes \ {s} : signals'[r] = signals[r]
         /\ signals'[s].incident \in {signals[s].incident, NoIncident}
         /\ /\ IncidentWhenOpen(s)
            /\ signals[s].lifecycle = "RESOLVED" => signals[s].incident # NoIncident
            => \/ /\ signals'[s].incident = signals[s].incident
                  /\ signals'[s].cooldown_until = signals[s].cooldown_until
                  /\ \/ signals'[s].lifecycle = signals[s].lifecycle
                     \/ {signals'[s].lifecycle, signals[s].lifecycle} \subseteq Watching
               \/ /\ signals[s].lifecycle = "RESOLVED" /\ ~CoolingDown(s, t)
                  /\ signals'[s].lifecycle \in Watching
                  /\ signals'[s].incident = NoIncident
<1> DEFINE rested == Rested(s, t)
           old == signals[s]
           new == signals'[s]
<1>1. /\ old \in Signal /\ DOMAIN signals = Scopes
  BY DEF TypeOK
<1>2. /\ rested \in Signal /\ rested.evidence_end = EvidenceEnd(t)
      /\ old.lifecycle # "RESOLVED" =>
           /\ rested.lifecycle = old.lifecycle
           /\ rested.incident = old.incident
           /\ rested.cooldown_until = old.cooldown_until
      /\ old.lifecycle = "RESOLVED" => rested.lifecycle = "HEALTHY" /\ rested.incident = NoIncident
  <2>1. old.lifecycle # "RESOLVED" => rested.cooldown_until = old.cooldown_until
    BY <1>1 DEF Rested, Signal
  <2> QED
    BY <2>1, RestedFacts
<1>3. incidents' = incidents /\ \A r \in Scopes \ {s} : signals'[r] = signals[r]
  BY <1>1 DEF Quiet, TelemetryUnhealthy, IgnoredInCooldown, AnomalySuspected, NoAnomaly
<1>4. CASE TelemetryUnhealthy(s, t) \/ IgnoredInCooldown(s, t)
  <2>1. /\ new.evidence_end = EvidenceEnd(t)
        /\ new.incident = old.incident
        /\ new.cooldown_until = old.cooldown_until
        /\ new.lifecycle \in {old.lifecycle, "WARMING_UP"}
        /\ old.incident # NoIncident => new.lifecycle = old.lifecycle
    BY <1>1, <1>4 DEF TelemetryUnhealthy, IgnoredInCooldown, CoolingDown, Signal
  <2>2. old.lifecycle \in Lifecycles
    BY <1>1 DEF Signal
  <2> QED
    BY <1>3, <2>1, <2>2 DEF IncidentWhenOpen, Watching, Lifecycles
<1>5. CASE AnomalySuspected(s, t)
  <2> DEFINE counted == Counted(rested)
  <2> HIDE DEF rested
  <2>1. /\ counted.evidence_end = rested.evidence_end
        /\ counted.incident = rested.incident
        /\ rested.lifecycle \in {"WARMING_UP", "HEALTHY", "SUSPECTED"} =>
             counted.lifecycle = "SUSPECTED"
        /\ rested.lifecycle \in {"OPEN", "RECOVERY_CANDIDATE"} => counted.lifecycle = "OPEN"
        /\ rested.lifecycle = "RECOVERY_CANDIDATE" =>
             counted.detection_count = DetectionPersistence
    BY <1>2, CountedFacts
  <2>2. counted.cooldown_until = rested.cooldown_until
    BY <1>2 DEF Counted, Signal, Lifecycles
  <2>3. /\ new = counted /\ counted.detection_count < DetectionPersistence
        /\ ~CoolingDown(s, t)
    BY <1>1, <1>5 DEF AnomalySuspected, rested
  <2> HIDE DEF counted
  <2>4. rested.lifecycle # "RECOVERY_CANDIDATE"
    BY <2>1, <2>3, SettingsAssumption
  <2>5. rested.lifecycle \in {"WARMING_UP", "HEALTHY", "SUSPECTED", "OPEN"}
    BY <1>1, <1>2, <2>4 DEF Signal, Lifecycles
  <2>6. CASE old.lifecycle = "RESOLVED"
    BY <1>2, <1>3, <2>1, <2>3, <2>6 DEF Watching
  <2>7. CASE old.lifecycle # "RESOLVED"
    BY <1>2, <1>3, <2>1, <2>2, <2>3, <2>5, <2>7 DEF Watching
  <2> QED
    BY <2>6, <2>7
<1>6. CASE NoAnomaly(s, t)
  <2> HIDE DEF rested
  <2>1. /\ new = [rested EXCEPT !.lifecycle = "HEALTHY", !.detection_count = 0]
        /\ ~InIncident(rested) /\ ~CoolingDown(s, t)
    BY <1>1, <1>6 DEF NoAnomaly, rested
  <2>2. /\ new.lifecycle = "HEALTHY" /\ new.incident = rested.incident
        /\ new.evidence_end = rested.evidence_end
        /\ new.cooldown_until = rested.cooldown_until
    BY <1>2, <2>1 DEF Signal
  <2>3. CASE old.lifecycle = "RESOLVED"
    BY <1>2, <1>3, <2>1, <2>2, <2>3 DEF Watching
  <2>4. CASE old.lifecycle # "RESOLVED"
    <3>1. IncidentWhenOpen(s) => old.lifecycle \in Watching
      BY <1>1, <1>2, <2>1, <2>4 DEF IncidentWhenOpen, InIncident, Watching, Signal, Lifecycles
    <3> QED
      BY <1>2, <1>3, <2>2, <2>4, <3>1 DEF Watching
  <2> QED
    BY <2>3, <2>4
<1> QED
  BY <1>4, <1>5, <1>6, Zenon DEF Quiet

LEMMA EvaluationCases ==
  ASSUME TypeOK, NEW s \in Scopes, NEW t \in BucketDuration..now, Apply(s, t)
  PROVE  /\ t \in Nat /\ t > 0 /\ now' = now /\ manualCloses' = manualCloses
         /\ Quiet(s, t) \/ IncidentOpen(s, t) \/ RecoveryObserved(s, t) \/ RecoveryNotConfirmed(s, t)
         /\ ~CoolingDown(s, t) \/ Quiet(s, t)
<1>1. t \in Nat /\ t > 0
  BY SettingsAssumption DEF TypeOK
<1>2. now' = now /\ manualCloses' = manualCloses
  BY DEF Apply, EvaluatedAt
<1>3. Quiet(s, t) \/ IncidentOpen(s, t) \/ RecoveryObserved(s, t) \/ RecoveryNotConfirmed(s, t)
  BY Zenon DEF Apply, Quiet
<1>4. ~CoolingDown(s, t) \/ Quiet(s, t)
  BY <1>3, Zenon DEF IncidentOpen, RecoveryObserved, RecoveryNotConfirmed
<1> QED
  BY <1>1, <1>2, <1>3, <1>4

-----------------------------------------------------------------------------
(* Scopes.  An incident keeps the scopes it lists, whatever else changes.  *)

LEMMA ScopesStep ==
  TypeOK /\ OwnScopeListed /\ ScopesAreListed /\ [Next]_vars
    => OwnScopeListed' /\ ScopesAreListed'
<1> SUFFICES ASSUME TypeOK, OwnScopeListed, ScopesAreListed, [Next]_vars
             PROVE  OwnScopeListed' /\ ScopesAreListed'
  OBVIOUS
<1>1. ASSUME DOMAIN incidents \subseteq DOMAIN incidents',
             \A i \in DOMAIN incidents :
               incidents[i].signal_scopes \subseteq incidents'[i].signal_scopes,
             \A i \in DOMAIN incidents' \ DOMAIN incidents :
               i[1] \in incidents'[i].signal_scopes,
             NEW s \in Scopes,
             \A r \in Scopes \ {s} : signals'[r].incident = signals[r].incident,
             \/ signals'[s].incident \in {signals[s].incident, NoIncident}
             \/ s \in incidents'[signals'[s].incident].signal_scopes
      PROVE  OwnScopeListed' /\ ScopesAreListed'
  <2>1. OwnScopeListed'
    BY <1>1 DEF OwnScopeListed
  <2>2. ASSUME NEW r \in Scopes, signals'[r].incident # NoIncident
        PROVE  r \in incidents'[signals'[r].incident].signal_scopes
    <3>1. CASE signals'[r].incident = signals[r].incident
      <4>1. /\ signals[r].incident \in DOMAIN incidents
            /\ r \in incidents[signals[r].incident].signal_scopes
        BY <2>2, <3>1 DEF TypeOK, ScopesAreListed
      <4> QED
        BY <1>1, <3>1, <4>1
    <3>2. CASE signals'[r].incident # signals[r].incident
      BY <1>1, <2>2, <3>2
    <3> QED
      BY <3>1, <3>2
  <2> QED
    BY <2>1, <2>2 DEF ScopesAreListed
<1>2. ASSUME NEW s \in Scopes, NEW t \in BucketDuration..now, Apply(s, t)
      PROVE  OwnScopeListed' /\ ScopesAreListed'
  <2>1. /\ t \in Nat
        /\ Quiet(s, t) \/ IncidentOpen(s, t) \/ RecoveryObserved(s, t)
           \/ RecoveryNotConfirmed(s, t)
    BY <1>2, EvaluationCases
  <2>2. CASE Quiet(s, t)
    <3>1. /\ incidents' = incidents
          /\ \A r \in Scopes \ {s} : signals'[r] = signals[r]
          /\ signals'[s].incident \in {signals[s].incident, NoIncident}
      BY <2>1, <2>2, QuietFacts
    <3> QED
      BY <1>1, <3>1
  <2>3. CASE IncidentOpen(s, t)
    <3> DEFINE i == signals'[s].incident
               rested == Rested(s, t)
    <3>1. /\ i = IF rested.incident = NoIncident THEN IncidentFor(s, t) ELSE rested.incident
          /\ DOMAIN incidents' = DOMAIN incidents \cup {i}
          /\ \A k \in DOMAIN incidents \ {i} : incidents'[k] = incidents[k]
          /\ i \notin DOMAIN incidents => incidents'[i].signal_scopes = {s}
          /\ i \in DOMAIN incidents =>
               /\ incidents[i].signal_scopes \subseteq incidents'[i].signal_scopes
               /\ rested.incident = NoIncident /\ i[1] # s => s \in incidents'[i].signal_scopes
          /\ \A r \in Scopes \ {s} : signals'[r] = signals[r]
      BY <2>1, <2>3, OpenedFacts
    <3>2. rested.incident \in {signals[s].incident, NoIncident}
      BY <2>1, RestedFacts
    <3>3. i \notin DOMAIN incidents => i = <<s, EvidenceEnd(t)>>
      BY <3>1, <3>2, ScopeAssumption DEF IncidentFor, TypeOK
    <3>4. s \in incidents'[i].signal_scopes \/ i = signals[s].incident
      <4>1. CASE i \notin DOMAIN incidents
        BY <3>1, <4>1
      <4>2. CASE i \in DOMAIN incidents /\ rested.incident = NoIncident
        BY <3>1, <4>2 DEF OwnScopeListed
      <4>3. CASE i \in DOMAIN incidents /\ rested.incident # NoIncident
        BY <3>1, <3>2, <4>3
      <4> QED
        BY <4>1, <4>2, <4>3
    <3>5. i \notin DOMAIN incidents => i[1] \in incidents'[i].signal_scopes
      BY <3>1, <3>3
    <3> HIDE DEF rested
    <3> QED
      BY <1>1, <3>1, <3>4, <3>5
  <2>4. CASE RecoveryObserved(s, t) \/ RecoveryNotConfirmed(s, t)
    <3> DEFINE i == Rested(s, t).incident
    <3>1. /\ i \in DOMAIN incidents
          /\ signals'[s].incident = i
          /\ DOMAIN incidents' = DOMAIN incidents
          /\ incidents'[i].signal_scopes = incidents[i].signal_scopes
          /\ \A k \in DOMAIN incidents \ {i} : incidents'[k] = incidents[k]
          /\ \A r \in Scopes \ {s} : signals'[r] = signals[r]
      BY <2>1, <2>4, RecoveryFacts, ReopenedFacts
    <3>2. i \in {signals[s].incident, NoIncident}
      BY <2>1, RestedFacts
    <3> HIDE DEF i
    <3> QED
      BY <1>1, <3>1, <3>2
  <2> QED
    BY <2>1, <2>2, <2>3, <2>4
<1>3. ASSUME NEW i \in DOMAIN incidents, ManualClose(i)
      PROVE  OwnScopeListed' /\ ScopesAreListed'
  <2>1. i[1] \in Scopes /\ incidents[i] \in Incident
    BY DEF TypeOK, Ids
  <2>2. /\ DOMAIN incidents' = DOMAIN incidents
        /\ \A k \in DOMAIN incidents : incidents'[k].signal_scopes = incidents[k].signal_scopes
    BY <1>3, <2>1 DEF ManualClose, Incident
  <2>3. \A r \in Scopes : signals'[r].incident = signals[r].incident
    BY <1>3, <2>1 DEF ManualClose, TypeOK, Signal
  <2> QED
    BY <1>1, <2>1, <2>2, <2>3
<1>4. CASE Tick \/ UNCHANGED vars
  BY <1>4 DEF Tick, vars, OwnScopeListed, ScopesAreListed
<1> QED
  BY <1>2, <1>3, <1>4 DEF Next

(* However many scopes there are, whichever incidents they join, and also  *)
(* after rewinds and manual closes, an incident lists every scope whose    *)
(* signal refers to it (lifecycle.py, _open_incident).                     *)
THEOREM IncidentsListTheirScopes == Spec => []ScopesAreListed
<1>1. Init => TypeOK /\ OwnScopeListed /\ ScopesAreListed
  <2> SUFFICES ASSUME Init PROVE OwnScopeListed /\ ScopesAreListed
    BY TypeInit
  <2>1. DOMAIN incidents = {} /\ \A s \in Scopes : signals[s].incident = NoIncident
    BY DEF Init, FreshSignal
  <2> QED
    BY <2>1 DEF OwnScopeListed, ScopesAreListed
<1>2. /\ TypeOK /\ OwnScopeListed /\ ScopesAreListed
      /\ [Next]_vars
      => (TypeOK /\ OwnScopeListed /\ ScopesAreListed)'
  BY TypeStep, ScopesStep
<1> QED
  BY <1>1, <1>2, PTL DEF Spec

-----------------------------------------------------------------------------
(* One signal, no manual close: the live pipeline. *)

LEMMA OneScopeStep ==
  ASSUME Scopes = {Global}, MaxManualCloses = 0, TypeOK, [Next]_vars
  PROVE  \/ Tick
         \/ UNCHANGED vars
         \/ \E t \in BucketDuration..now : Apply(Global, t)
<1>1. ASSUME NEW i \in DOMAIN incidents, ManualClose(i) PROVE FALSE
  <2>1. manualCloses < MaxManualCloses /\ manualCloses \in 0..MaxManualCloses
    BY <1>1 DEF ManualClose, TypeOK
  <2> QED
    BY <2>1
<1> QED
  BY <1>1 DEF Next

LEMMA OneOwnerStep ==
  ASSUME Scopes = {Global}, MaxManualCloses = 0
  PROVE  TypeOK /\ OneOwner /\ [Next]_vars => OneOwner'
<1> SUFFICES ASSUME TypeOK, OneOwner, [Next]_vars PROVE OneOwner'
  OBVIOUS
<1> DEFINE old == signals[Global]
           new == signals'[Global]
<1>1. CASE Tick \/ UNCHANGED vars
  BY <1>1 DEF Tick, vars, OneOwner, SignalOwnsIncident, IncidentWhenOpen, Unresolved
<1>2. /\ IncidentWhenOpen(Global)
      /\ old.lifecycle = "RESOLVED" => old.incident # NoIncident
      /\ old.incident # NoIncident =>
           incidents[old.incident].lifecycle = old.lifecycle /\ old.incident \in DOMAIN incidents
      /\ \A i \in DOMAIN incidents : incidents[i].lifecycle # "RESOLVED" => i = old.incident
      /\ old.lifecycle \in Lifecycles
  BY DEF OneOwner, SignalOwnsIncident, IncidentWhenOpen, Unresolved, TypeOK, Signal, Lifecycles
<1>3. ASSUME NEW t \in BucketDuration..now, Apply(Global, t)
      PROVE  OneOwner'
  <2>1. /\ t \in Nat
        /\ Quiet(Global, t) \/ IncidentOpen(Global, t) \/ RecoveryObserved(Global, t)
           \/ RecoveryNotConfirmed(Global, t)
    BY <1>3, EvaluationCases
  <2>2. /\ old.lifecycle # "RESOLVED" => Rested(Global, t).incident = old.incident
        /\ old.lifecycle = "RESOLVED" => Rested(Global, t).incident = NoIncident
    BY <2>1, RestedFacts
  <2>3. ASSUME new.lifecycle \in {"OPEN", "RECOVERY_CANDIDATE", "RESOLVED"},
               NEW i, new.incident = i, i # NoIncident,
               i \in DOMAIN incidents', incidents'[i].lifecycle = new.lifecycle,
               DOMAIN incidents' \subseteq DOMAIN incidents \cup {i},
               \A k \in DOMAIN incidents \ {i} : incidents'[k] = incidents[k],
               old.incident \in {NoIncident, i} \/ old.lifecycle = "RESOLVED"
        PROVE  OneOwner'
    <3>1. \A k \in DOMAIN incidents \ {i} : incidents[k].lifecycle = "RESOLVED"
      BY <1>2, <2>3, ScopeAssumption DEF TypeOK
    <3> QED
      BY <2>3, <3>1 DEF OneOwner, SignalOwnsIncident, IncidentWhenOpen, Unresolved
  <2>4. CASE Quiet(Global, t)
    <3>1. /\ incidents' = incidents
          /\ \/ /\ new.incident = old.incident
                /\ \/ new.lifecycle = old.lifecycle
                   \/ {new.lifecycle, old.lifecycle} \subseteq Watching
             \/ /\ old.lifecycle = "RESOLVED"
                /\ new.lifecycle \in Watching
                /\ new.incident = NoIncident
      BY <1>2, <2>1, <2>4, QuietFacts
    <3>2. CASE new.incident = old.incident
      BY <1>2, <3>1, <3>2
         DEF OneOwner, SignalOwnsIncident, IncidentWhenOpen, Unresolved, Watching
    <3>3. CASE new.incident # old.incident
      BY <1>2, <3>1, <3>3
         DEF OneOwner, SignalOwnsIncident, IncidentWhenOpen, Unresolved, Watching
    <3> QED
      BY <3>2, <3>3
  <2>5. CASE IncidentOpen(Global, t)
    <3> DEFINE i == new.incident
    <3>1. /\ i = IF Rested(Global, t).incident = NoIncident THEN IncidentFor(Global, t)
                 ELSE Rested(Global, t).incident
          /\ DOMAIN incidents' = DOMAIN incidents \cup {i}
          /\ incidents'[i].lifecycle = "OPEN"
          /\ \A k \in DOMAIN incidents \ {i} : incidents'[k] = incidents[k]
          /\ new.lifecycle = "OPEN"
      BY <2>1, <2>5, OpenedFacts
    <3>2. IncidentFor(Global, t) = <<Global, EvidenceEnd(t)>> /\ EvidenceEnd(t) \in 0..MaxTime
      BY <2>1, EvidenceEndFacts, BoundAssumption, SettingsAssumption DEF IncidentFor, TypeOK
    <3>3. i # NoIncident
      BY <3>1, <3>2, ScopeAssumption DEF Ids
    <3>4. old.incident \in {NoIncident, i} \/ old.lifecycle = "RESOLVED"
      BY <2>2, <3>1
    <3> HIDE DEF i
    <3> QED
      BY <2>3, <3>1, <3>3, <3>4 DEF i
  <2>6. CASE RecoveryObserved(Global, t) \/ RecoveryNotConfirmed(Global, t)
    <3> DEFINE i == Rested(Global, t).incident
    <3>1. /\ i \in DOMAIN incidents
          /\ new.incident = i
          /\ new.lifecycle \in {"OPEN", "RECOVERY_CANDIDATE", "RESOLVED"}
          /\ DOMAIN incidents' = DOMAIN incidents
          /\ incidents'[i].lifecycle = new.lifecycle
          /\ \A k \in DOMAIN incidents \ {i} : incidents'[k] = incidents[k]
      BY <2>1, <2>6, RecoveryFacts, ReopenedFacts
    <3>2. i # NoIncident
      BY <3>1, ScopeAssumption DEF TypeOK
    <3>3. old.incident \in {NoIncident, i} \/ old.lifecycle = "RESOLVED"
      BY <2>2
    <3> HIDE DEF i
    <3> QED
      BY <2>3, <3>1, <3>2, <3>3
  <2> QED
    BY <2>1, <2>4, <2>5, <2>6
<1> QED
  BY <1>1, <1>3, OneScopeStep

LEMMA OneOwnerInit == Init => OneOwner
BY ScopeAssumption
   DEF Init, OneOwner, SignalOwnsIncident, IncidentWhenOpen, Unresolved, FreshSignal

(* With one signal and no manual close, whatever the evaluations say and   *)
(* also where they go back in time, the signal and its incident agree, and *)
(* an unresolved incident is the signal's.                                 *)
THEOREM SignalKeepsItsIncident ==
  ASSUME Scopes = {Global}, MaxManualCloses = 0
  PROVE  Spec => []SignalOwnsIncident
<1>1. Init => TypeOK /\ OneOwner
  BY TypeInit, OneOwnerInit
<1>2. TypeOK /\ OneOwner /\ [Next]_vars => (TypeOK /\ OneOwner)'
  BY TypeStep, OneOwnerStep
<1>3. OneOwner => SignalOwnsIncident
  BY DEF OneOwner
<1> QED
  BY <1>1, <1>2, <1>3, PTL DEF Spec

-----------------------------------------------------------------------------
(* One signal whose evaluations do not go back in time. *)

LEMMA NamedStep ==
  ASSUME Scopes = {Global}, MaxRewinds = 0, MaxManualCloses = 0
  PROVE  TypeOK /\ FreshCounts /\ NamedAfterEvidence /\ [Next]_vars => NamedAfterEvidence'
<1> SUFFICES ASSUME TypeOK, FreshCounts, NamedAfterEvidence, [Next]_vars
             PROVE  NamedAfterEvidence'
  OBVIOUS
<1>1. CASE Tick \/ UNCHANGED vars
  BY <1>1 DEF Tick, vars, NamedAfterEvidence
<1>2. ASSUME NEW t \in BucketDuration..now, Apply(Global, t)
      PROVE  NamedAfterEvidence'
  <2>1. /\ EvidenceEnd(t) \in Nat /\ signals[Global].evidence_end < EvidenceEnd(t)
        /\ signals'[Global].evidence_end = EvidenceEnd(t)
        /\ signals[Global].evidence_end \in Nat
    BY <1>2, ScopeAssumption, EvaluatedNow, SignalFacts
       DEF FreshCounts, SeenInOrder, TypeOK, Signal
  <2>2. \A i \in DOMAIN incidents : i[1] = Global /\ i[2] \in Nat /\ i[2] < EvidenceEnd(t)
    BY <2>1 DEF TypeOK, Ids, NamedAfterEvidence
  <2>3. DOMAIN incidents' \subseteq DOMAIN incidents \cup {<<Global, EvidenceEnd(t)>>}
    <3>1. /\ t \in Nat
          /\ Quiet(Global, t) \/ IncidentOpen(Global, t) \/ RecoveryObserved(Global, t)
             \/ RecoveryNotConfirmed(Global, t)
      BY <1>2, ScopeAssumption, EvaluationCases
    <3>2. EvidenceEnd(t) \in 0..MaxTime
      BY <3>1, EvidenceEndFacts, BoundAssumption, SettingsAssumption DEF TypeOK
    <3> QED
      BY <3>1, <3>2, ScopeAssumption, QuietFacts, OpenedType, RecoveryFacts, ReopenedFacts
  <2> QED
    BY <2>1, <2>2, <2>3 DEF NamedAfterEvidence
<1> QED
  BY <1>1, <1>2, OneScopeStep

LEMMA CooldownStep ==
  ASSUME Scopes = {Global}, MaxRewinds = 0, MaxManualCloses = 0
  PROVE  TypeOK /\ FreshCounts /\ OneOwner /\ CooldownKept /\ [Next]_vars => CooldownKept'
<1> SUFFICES ASSUME TypeOK, FreshCounts, OneOwner, CooldownKept, [Next]_vars
             PROVE  CooldownKept'
  OBVIOUS
<1> DEFINE old == signals[Global]
           new == signals'[Global]
<1>1. /\ now \in Nat /\ Global \in Scopes
      /\ \A k \in DOMAIN incidents : incidents[k].updated_at \in Nat
      /\ old.cooldown_until \in Nat /\ Cooldown \in Nat
      /\ IncidentWhenOpen(Global)
      /\ old.lifecycle = "RESOLVED" => old.incident # NoIncident
  BY ScopeAssumption, SettingsAssumption
     DEF TypeOK, Incident, Signal, OneOwner, SignalOwnsIncident
<1>2. CASE Tick
  <2>1. now' = now + 1 /\ UNCHANGED <<signals, incidents>>
    BY <1>2 DEF Tick
  <2>2. Resolved' = Resolved /\ Resolved \subseteq DOMAIN incidents
    BY <2>1 DEF Resolved, Unresolved
  <2>3. CASE old.lifecycle = "RESOLVED"
    BY <2>1, <2>2, <2>3 DEF CooldownKept
  <2>4. CASE old.lifecycle # "RESOLVED"
    <3>1. \A k \in Resolved : incidents[k].updated_at + Cooldown <= now + 1
      BY <1>1, <2>2, <2>4 DEF CooldownKept
    <3> QED
      BY <2>1, <2>2, <2>4, <3>1 DEF CooldownKept
  <2> QED
    BY <2>3, <2>4
<1>3. CASE UNCHANGED vars
  BY <1>3 DEF vars, CooldownKept, Resolved, Unresolved
<1>4. ASSUME NEW t \in BucketDuration..now, Apply(Global, t)
      PROVE  CooldownKept'
  <2>1. /\ t = now /\ now' = now /\ now > 0
        /\ Quiet(Global, t) \/ IncidentOpen(Global, t) \/ RecoveryObserved(Global, t)
           \/ RecoveryNotConfirmed(Global, t)
        /\ ~CoolingDown(Global, t) \/ Quiet(Global, t)
    BY <1>1, <1>4, EvaluatedNow, EvaluationCases
  \* Where the evaluation is not ignored, every resolved incident has cooled down.
  <2>2. ~CoolingDown(Global, t) =>
          \A k \in Resolved : incidents[k].updated_at + Cooldown <= now
    <3>1. Resolved \subseteq DOMAIN incidents
      BY DEF Resolved
    <3> QED
      BY <1>1, <2>1, <3>1 DEF CoolingDown, CooldownKept
  <2>3. CASE Quiet(Global, t)
    <3>1. /\ incidents' = incidents
          /\ \/ /\ new.cooldown_until = old.cooldown_until
                /\ \/ new.lifecycle = old.lifecycle
                   \/ {new.lifecycle, old.lifecycle} \subseteq Watching
             \/ /\ old.lifecycle = "RESOLVED" /\ ~CoolingDown(Global, t)
                /\ new.lifecycle \in Watching
      BY <1>1, <2>1, <2>3, QuietFacts
    <3>2. Resolved' = Resolved
      BY <3>1 DEF Resolved, Unresolved
    <3> QED
      BY <2>1, <2>2, <3>1, <3>2 DEF CooldownKept, Watching
  <2>4. ASSUME NEW i, DOMAIN incidents' = DOMAIN incidents \cup {i},
               incidents'[i].lifecycle = new.lifecycle,
               new.lifecycle \in {"OPEN", "RECOVERY_CANDIDATE"},
               \A k \in DOMAIN incidents \ {i} : incidents'[k] = incidents[k],
               ~CoolingDown(Global, t)
        PROVE  CooldownKept'
    <3>1. /\ Resolved' \subseteq Resolved \ {i}
          /\ \A k \in Resolved' : incidents'[k] = incidents[k]
      BY <2>4 DEF Resolved, Unresolved
    <3> QED
      BY <2>1, <2>2, <2>4, <3>1 DEF CooldownKept
  <2>5. CASE IncidentOpen(Global, t)
    <3>1. /\ DOMAIN incidents' = DOMAIN incidents \cup {new.incident}
          /\ incidents'[new.incident].lifecycle = "OPEN" /\ new.lifecycle = "OPEN"
          /\ \A k \in DOMAIN incidents \ {new.incident} : incidents'[k] = incidents[k]
      BY <1>1, <2>1, <2>5, OpenedFacts
    <3>2. ~CoolingDown(Global, t)
      BY <2>5 DEF IncidentOpen
    <3> QED
      BY <2>4, <3>1, <3>2
  <2>6. CASE RecoveryNotConfirmed(Global, t)
    <3>1. /\ new.incident \in DOMAIN incidents
          /\ DOMAIN incidents' = DOMAIN incidents
          /\ incidents'[new.incident].lifecycle = "OPEN" /\ new.lifecycle = "OPEN"
          /\ \A k \in DOMAIN incidents \ {new.incident} : incidents'[k] = incidents[k]
      BY <1>1, <2>1, <2>6, ReopenedFacts
    <3>2. ~CoolingDown(Global, t)
      BY <2>6 DEF RecoveryNotConfirmed
    <3> QED
      BY <2>4, <3>1, <3>2
  <2>7. CASE RecoveryObserved(Global, t)
    <3> DEFINE i == new.incident
    <3>1. /\ i \in DOMAIN incidents
          /\ new.lifecycle \in {"RECOVERY_CANDIDATE", "RESOLVED"}
          /\ new.lifecycle = "RESOLVED" => new.cooldown_until = t + Cooldown
          /\ DOMAIN incidents' = DOMAIN incidents
          /\ incidents'[i].lifecycle = new.lifecycle
          /\ incidents'[i].updated_at = t
          /\ \A k \in DOMAIN incidents \ {i} : incidents'[k] = incidents[k]
      BY <1>1, <2>1, <2>7, RecoveryFacts
    <3>2. ~CoolingDown(Global, t)
      BY <2>7 DEF RecoveryObserved
    <3>3. CASE new.lifecycle = "RECOVERY_CANDIDATE"
      BY <2>4, <3>1, <3>2, <3>3
    <3>4. CASE new.lifecycle = "RESOLVED"
      <4>1. /\ Resolved' = Resolved \cup {i}
            /\ \A k \in Resolved \ {i} : incidents'[k] = incidents[k]
            /\ Resolved \subseteq DOMAIN incidents
        BY <3>1, <3>4 DEF Resolved, Unresolved
      <4>2. \A k \in Resolved \ {i} : incidents'[k].updated_at + Cooldown <= t + Cooldown
        BY <1>1, <2>1, <2>2, <3>2, <4>1
      <4>3. \A k \in Resolved' : incidents'[k].updated_at + Cooldown <= t + Cooldown
        BY <1>1, <2>1, <3>1, <4>1, <4>2
      <4>4. new.cooldown_until = t + Cooldown /\ t + Cooldown # 0
        BY <1>1, <2>1, <3>1, <3>4
      <4> QED
        BY <3>4, <4>3, <4>4 DEF CooldownKept
    <3> QED
      BY <3>1, <3>3, <3>4
  <2> QED
    BY <2>1, <2>3, <2>5, <2>6, <2>7
<1> QED
  BY <1>2, <1>3, <1>4, OneScopeStep

OnePipeline == FreshCounts /\ OneOwner /\ NamedAfterEvidence /\ CooldownKept

LEMMA PipelineInit == Init => TypeOK /\ OnePipeline
<1> SUFFICES ASSUME Init PROVE NamedAfterEvidence /\ CooldownKept
  BY TypeInit, FreshInit, OneOwnerInit DEF OnePipeline
<1>1. /\ DOMAIN incidents = {}
      /\ signals[Global].lifecycle = "WARMING_UP"
  BY ScopeAssumption DEF Init, FreshSignal
<1> QED
  BY <1>1 DEF NamedAfterEvidence, CooldownKept, Resolved

LEMMA PipelineStep ==
  ASSUME Scopes = {Global}, MaxRewinds = 0, MaxManualCloses = 0
  PROVE  TypeOK /\ OnePipeline /\ [Next]_vars => (TypeOK /\ OnePipeline)'
BY TypeStep, FreshStep, OneOwnerStep, NamedStep, CooldownStep DEF OnePipeline

(* A step that changes which incidents are unresolved opens a new one or   *)
(* resolves the signal's.                                                  *)
LEMMA IncidentSteps ==
  ASSUME Scopes = {Global}, MaxRewinds = 0, MaxManualCloses = 0,
         TypeOK, OnePipeline, [Next]_vars
  PROVE  \/ Unresolved' = Unresolved /\ Resolved' = Resolved
         \/ \E i \in Ids :
              /\ i \notin DOMAIN incidents /\ Unresolved = {}
              /\ DOMAIN incidents' = DOMAIN incidents \cup {i}
              /\ Unresolved' = {i} /\ Resolved' = Resolved
              /\ incidents'[i].updated_at = now
              /\ \A k \in Resolved : incidents[k].updated_at + Cooldown <= now
         \/ \E i \in Unresolved :
              Unresolved' = Unresolved \ {i} /\ Resolved' = Resolved \cup {i}
<1> DEFINE old == signals[Global]
           new == signals'[Global]
<1>1. CASE Tick \/ UNCHANGED vars
  BY <1>1 DEF Tick, vars, Unresolved, Resolved
<1>2. ASSUME NEW t \in BucketDuration..now, Apply(Global, t)
      PROVE  \/ Unresolved' = Unresolved /\ Resolved' = Resolved
             \/ \E i \in Ids :
                  /\ i \notin DOMAIN incidents /\ Unresolved = {}
                  /\ DOMAIN incidents' = DOMAIN incidents \cup {i}
                  /\ Unresolved' = {i} /\ Resolved' = Resolved
                  /\ incidents'[i].updated_at = now
                  /\ \A k \in Resolved : incidents[k].updated_at + Cooldown <= now
             \/ \E i \in Unresolved :
                  Unresolved' = Unresolved \ {i} /\ Resolved' = Resolved \cup {i}
  <2>1. /\ t = now /\ now \in Nat /\ Global \in Scopes
        /\ Quiet(Global, t) \/ IncidentOpen(Global, t) \/ RecoveryObserved(Global, t)
           \/ RecoveryNotConfirmed(Global, t)
        /\ signals[Global].evidence_end < EvidenceEnd(t)
        /\ EvidenceEnd(t) \in 0..MaxTime
    <3>1. /\ fresh[Global].newest < EvidenceEnd(t) /\ t = now /\ now \in Nat
          /\ Quiet(Global, t) \/ IncidentOpen(Global, t) \/ RecoveryObserved(Global, t)
             \/ RecoveryNotConfirmed(Global, t)
      BY <1>2, ScopeAssumption, EvaluatedNow, EvaluationCases DEF OnePipeline
    <3>2. fresh[Global].newest = signals[Global].evidence_end
      BY ScopeAssumption DEF OnePipeline, FreshCounts, SeenInOrder
    <3>3. EvidenceEnd(t) \in 0..MaxTime
      BY <3>1, EvidenceEndFacts, BoundAssumption DEF TypeOK
    <3> QED
      BY <3>1, <3>2, <3>3, ScopeAssumption
  <2>2. /\ old.lifecycle # "RESOLVED" =>
             Rested(Global, t).incident = old.incident /\ Rested(Global, t).lifecycle = old.lifecycle
        /\ old.lifecycle = "RESOLVED" =>
             Rested(Global, t).incident = NoIncident /\ Rested(Global, t).lifecycle = "HEALTHY"
    BY <2>1, RestedFacts
  <2>3. /\ old.lifecycle = "RESOLVED" => old.incident # NoIncident
        /\ old.lifecycle \in {"OPEN", "RECOVERY_CANDIDATE"} => old.incident # NoIncident
        /\ old.lifecycle \in Watching => old.incident = NoIncident
        /\ old.lifecycle \in Lifecycles
        /\ old.incident # NoIncident =>
             incidents[old.incident].lifecycle = old.lifecycle /\ old.incident \in DOMAIN incidents
        /\ \A i \in DOMAIN incidents : incidents[i].lifecycle # "RESOLVED" => i = old.incident
    BY <2>1 DEF OnePipeline, OneOwner, SignalOwnsIncident, IncidentWhenOpen, Unresolved,
                TypeOK, Signal, Lifecycles, Watching
  \* An unresolved incident that stays unresolved.
  <2>4. ASSUME NEW i \in DOMAIN incidents, incidents[i].lifecycle # "RESOLVED",
               incidents'[i].lifecycle # "RESOLVED", DOMAIN incidents' = DOMAIN incidents,
               \A k \in DOMAIN incidents \ {i} : incidents'[k] = incidents[k]
        PROVE  Unresolved' = Unresolved /\ Resolved' = Resolved
    BY <2>4 DEF Unresolved, Resolved
  <2>5. CASE Quiet(Global, t)
    <3>1. incidents' = incidents
      BY <2>1, <2>5, QuietFacts
    <3> QED
      BY <3>1 DEF Unresolved, Resolved
  <2>6. CASE IncidentOpen(Global, t)
    <3> DEFINE i == new.incident
    <3>1. /\ i = IF Rested(Global, t).incident = NoIncident THEN IncidentFor(Global, t)
                 ELSE Rested(Global, t).incident
          /\ DOMAIN incidents' = DOMAIN incidents \cup {i}
          /\ incidents'[i].lifecycle = "OPEN" /\ incidents'[i].updated_at = t
          /\ \A k \in DOMAIN incidents \ {i} : incidents'[k] = incidents[k]
      BY <2>1, <2>6, OpenedFacts
    <3>2. CASE Rested(Global, t).incident # NoIncident
      <4>1. /\ i = old.incident /\ i \in DOMAIN incidents
            /\ incidents[i].lifecycle # "RESOLVED"
        BY <2>2, <2>3, <3>1, <3>2
      <4>2. DOMAIN incidents' = DOMAIN incidents
        BY <3>1, <4>1
      <4> HIDE DEF i
      <4> QED
        BY <2>4, <3>1, <4>1, <4>2
    <3>3. CASE Rested(Global, t).incident = NoIncident
      <4>1. i = <<Global, EvidenceEnd(t)>> /\ i \in Ids
        BY <2>1, <3>1, <3>3 DEF IncidentFor, Ids
      <4>2. \A k \in DOMAIN incidents : k[1] = Global /\ k[2] < EvidenceEnd(t)
        <5>1. \A k \in DOMAIN incidents : k[1] = Global /\ k[2] \in Nat
          BY DEF TypeOK, Ids
        <5>2. /\ \A k \in DOMAIN incidents : k[2] <= signals[k[1]].evidence_end
              /\ signals[Global].evidence_end \in Nat /\ EvidenceEnd(t) \in Nat
          BY <2>1 DEF OnePipeline, NamedAfterEvidence, TypeOK, Signal
        <5> QED
          BY <2>1, <5>1, <5>2
      <4>3. i \notin DOMAIN incidents
        BY <2>1, <4>1, <4>2
      <4>4. old.lifecycle \in Watching \cup {"RESOLVED"}
        BY <2>2, <2>3, <3>3 DEF Watching, Lifecycles
      <4>5. Unresolved = {}
        BY <2>3, <4>4, ScopeAssumption DEF Unresolved, TypeOK, Watching
      <4>6. \A k \in Resolved : incidents[k].updated_at + Cooldown <= now
        <5>1. ~CoolingDown(Global, t)
          BY <2>6 DEF IncidentOpen
        <5>2. /\ \A k \in DOMAIN incidents : incidents[k].updated_at \in Nat
              /\ old.cooldown_until \in Nat /\ Cooldown \in Nat
          BY <2>1, SettingsAssumption DEF TypeOK, Incident, Signal
        <5> QED
          BY <2>1, <5>1, <5>2 DEF OnePipeline, CooldownKept, CoolingDown, Resolved
      <4> HIDE DEF i
      <4>7. Unresolved' = {i} /\ Resolved' = Resolved
        BY <3>1, <4>3, <4>5 DEF Unresolved, Resolved
      <4> QED
        BY <2>1, <3>1, <4>1, <4>3, <4>5, <4>6, <4>7
    <3> QED
      BY <3>2, <3>3
  <2>7. CASE RecoveryObserved(Global, t) \/ RecoveryNotConfirmed(Global, t)
    <3> DEFINE i == Rested(Global, t).incident
    <3>1. /\ i \in DOMAIN incidents
          /\ Rested(Global, t).lifecycle \in {"OPEN", "RECOVERY_CANDIDATE"}
          /\ DOMAIN incidents' = DOMAIN incidents
          /\ \A k \in DOMAIN incidents \ {i} : incidents'[k] = incidents[k]
      BY <2>1, <2>7, RecoveryFacts, ReopenedFacts
    <3>2. i \in Unresolved
      BY <2>2, <2>3, <3>1 DEF Unresolved
    <3> HIDE DEF i
    <3>3. CASE incidents'[i].lifecycle # "RESOLVED"
      BY <2>4, <3>1, <3>2, <3>3 DEF Unresolved
    <3>4. CASE incidents'[i].lifecycle = "RESOLVED"
      <4>1. Unresolved' = Unresolved \ {i} /\ Resolved' = Resolved \cup {i}
        BY <3>1, <3>2, <3>4 DEF Unresolved, Resolved
      <4> QED
        BY <3>2, <4>1
    <3> QED
      BY <3>3, <3>4
  <2> QED
    BY <2>1, <2>5, <2>6, <2>7
<1> QED
  BY <1>1, <1>2, OneScopeStep

(* With one signal, no rewind and no manual close: no incident opens while *)
(* one that was resolved by recovery is in its cooldown.                   *)
THEOREM NothingOpensInCooldown ==
  ASSUME Scopes = {Global}, MaxRewinds = 0, MaxManualCloses = 0
  PROVE  Spec => CooldownHolds
<1>1. TypeOK /\ OnePipeline /\ [Next]_vars =>
        [\A i \in DOMAIN incidents' \ DOMAIN incidents, k \in Resolved :
           i[1] = k[1] => incidents'[i].updated_at >= incidents[k].updated_at + Cooldown]_vars
  <2> SUFFICES ASSUME TypeOK, OnePipeline, [Next]_vars,
                      NEW i \in DOMAIN incidents' \ DOMAIN incidents, NEW k \in Resolved
               PROVE  incidents'[i].updated_at >= incidents[k].updated_at + Cooldown
    OBVIOUS
  <2>1. DOMAIN incidents' # Resolved \cup Unresolved
    BY DEF Resolved, Unresolved
  <2>2. DOMAIN incidents' = (Resolved \cup Unresolved)'
    BY DEF Resolved, Unresolved
  <2>3. /\ DOMAIN incidents' = DOMAIN incidents \cup {i}
        /\ incidents'[i].updated_at = now
        /\ incidents[k].updated_at + Cooldown <= now
    BY <2>1, <2>2, IncidentSteps
  <2>4. incidents[k].updated_at \in Nat /\ now \in Nat /\ Cooldown \in Nat
    BY SettingsAssumption DEF TypeOK, Incident, Resolved
  <2> QED
    BY <2>3, <2>4
<1> QED
  BY <1>1, PipelineInit, PipelineStep, PTL DEF Spec, CooldownHolds

(* With one signal, no rewind and no manual close, the manager implements  *)
(* the list of cases: one open at a time, opened once, closed for good.    *)
THEOREM LifecycleImplementsCases ==
  ASSUME Scopes = {Global}, MaxRewinds = 0, MaxManualCloses = 0
  PROVE  Spec => ImplementsCases
<1>1. Init => Cases!Init
  BY DEF Init, Cases!Init, Unresolved, Resolved
<1>2. TypeOK /\ OnePipeline /\ [Next]_vars => [Cases!Next]_(Cases!vars)
  <2> SUFFICES ASSUME TypeOK, OnePipeline, [Next]_vars
               PROVE  [Cases!Next]_(Cases!vars)
    OBVIOUS
  <2>1. CASE Unresolved' = Unresolved /\ Resolved' = Resolved
    BY <2>1 DEF Cases!vars
  <2>2. ASSUME NEW i \in Ids, i \notin DOMAIN incidents, Unresolved = {},
               Unresolved' = {i}, Resolved' = Resolved
        PROVE  Cases!Next
    <3>1. Cases!Open(i)
      BY <2>2 DEF Cases!Open, Resolved
    <3> QED
      BY <3>1 DEF Cases!Next
  <2>3. ASSUME NEW i \in Unresolved,
               Unresolved' = Unresolved \ {i}, Resolved' = Resolved \cup {i}
        PROVE  Cases!Next
    <3>1. Cases!Close(i) /\ i \in Ids
      BY <2>3 DEF Cases!Close, Unresolved, TypeOK
    <3> QED
      BY <3>1 DEF Cases!Next
  <2> QED
    BY <2>1, <2>2, <2>3, IncidentSteps
<1> QED
  BY <1>1, <1>2, PipelineInit, PipelineStep, PTL DEF Spec, ImplementsCases, Cases!Spec
-----------------------------------------------------------------------------
(* The projections.                                                        *)

(* A workspace row has these fields and no other. *)
IsWorkspace(w) ==
  w = [lifecycle |-> w.lifecycle, version |-> w.version, package |-> w.package,
       review |-> w.review, analysed |-> w.analysed]

IsReview(r) ==
  /\ r = [pc |-> r.pc, incident |-> r.incident, workspace |-> r.workspace, summary |-> r.summary]
  /\ IsWorkspace(r.workspace)

IsAnalysis(a) ==
  /\ a = [pc |-> a.pc, incident |-> a.incident, workspace |-> a.workspace]
  /\ IsWorkspace(a.workspace)

(* What the rows and the API's copies of them name is stored; so is what   *)
(* the worker is about to name.                                            *)
RowsNamed ==
  /\ \A i \in DOMAIN workspace :
       IsWorkspace(workspace[i]) /\ <<i, workspace[i].package>> \in DOMAIN packages
  /\ \A i \in DOMAIN evidence : <<i, evidence[i].package>> \in DOMAIN packages

WorkerNames ==
  pc \in {"read", "summary", "workspace", "evidence"} => <<shown, built[shown]>> \in DOMAIN packages

ReviewNames ==
  review # None => /\ IsReview(review)
                   /\ <<review.incident, review.workspace.package>> \in DOMAIN packages

AnalysisNames ==
  analysis # None => /\ IsAnalysis(analysis)
                     /\ <<analysis.incident, analysis.workspace.package>> \in DOMAIN packages

NamesAreStored == RowsNamed /\ WorkerNames /\ ReviewNames /\ AnalysisNames

-----------------------------------------------------------------------------
(* A step stores packages and replaces none. *)
LEMMA PackagesGrow ==
  ASSUME [ProjectionNext]_allVars
  PROVE  \A k \in DOMAIN packages : k \in DOMAIN packages' /\ packages'[k] = packages[k]
<1>1. CASE SavePackage
  BY <1>1 DEF SavePackage, With
<1>2. CASE UNCHANGED packages
  BY <1>2
<1>3. SavePackage \/ UNCHANGED packages
  BY DEF ProjectionNext, WorkerStep, ApiStep, TimePasses, ProcessBatch, PersistOverview,
         ReadWorkspace, PersistSummary, PersistWorkspace, PersistEvidence, PersistState, Restart,
         CallFails, Crash, BeginReview, BeginAnalysis, ReviewWorkspace, ReviewSummary,
         RecordAnalysis, rowVars, allVars
<1> QED
  BY <1>1, <1>2, <1>3

(* PackagesAreImmutable for every value of the constants: no step of the   *)
(* worker or the API changes or deletes a stored evidence package, because *)
(* save_evidence_package leaves a version alone that is there.             *)
THEOREM PackagesNeverChange == ProjectionSpec => PackagesAreImmutable
<1>1. [ProjectionNext]_allVars =>
        [\A k \in DOMAIN packages : k \in DOMAIN packages' /\ packages'[k] = packages[k]]_allVars
  BY PackagesGrow
<1> QED
  BY <1>1, PTL DEF ProjectionSpec, PackagesAreImmutable

-----------------------------------------------------------------------------
LEMMA NamesInit == ProjectionInit => NamesAreStored
  BY DEF ProjectionInit, NamesAreStored, RowsNamed, WorkerNames, ReviewNames, AnalysisNames

(* The steps of the worker that write a row, or name a package. *)
LEMMA NamesWorker ==
  ASSUME NamesAreStored, WorkerStep \/ CallFails \/ Crash \/ TimePasses
  PROVE  NamesAreStored'
<1> USE DEF NamesAreStored
<1>1. CASE SavePackage
  BY <1>1 DEF SavePackage, With, RowsNamed, WorkerNames, ReviewNames, AnalysisNames, memoryVars,
              clockVars, apiVars, countVars
<1>2. CASE PersistWorkspace
  <2>1. RowsNamed'
    BY <1>2 DEF PersistWorkspace, With, RowsNamed, WorkerNames, IsWorkspace
  <2> QED
    BY <1>2, <2>1 DEF PersistWorkspace, WorkerNames, ReviewNames, AnalysisNames, apiVars
<1>3. CASE PersistEvidence
  <2>1. RowsNamed'
    BY <1>3 DEF PersistEvidence, With, RowsNamed, WorkerNames
  <2> QED
    BY <1>3, <2>1 DEF PersistEvidence, WorkerNames, ReviewNames, AnalysisNames, apiVars
<1>4. CASE ReadWorkspace \/ PersistSummary
  BY <1>4 DEF ReadWorkspace, PersistSummary, RowsNamed, WorkerNames, ReviewNames, AnalysisNames,
              rowVars, apiVars
<1>5. CASE ProcessBatch \/ PersistOverview \/ PersistState \/ Restart \/ CallFails \/ Crash
  <2>1. UNCHANGED <<packages, workspace, evidence, review, analysis>>
    BY <1>5 DEF ProcessBatch, PersistOverview, PersistState, Restart, CallFails, Crash, rowVars,
                apiVars
  <2>2. pc' \notin {"read", "summary", "workspace", "evidence"}
    BY <1>5 DEF ProcessBatch, PersistOverview, PersistState, Restart, CallFails, Crash
  <2> QED
    BY <2>1, <2>2 DEF RowsNamed, WorkerNames, ReviewNames, AnalysisNames
<1>6. CASE TimePasses
  BY <1>6 DEF TimePasses, workerVars, rowVars, apiVars, RowsNamed, WorkerNames, ReviewNames,
              AnalysisNames
<1> QED
  BY <1>1, <1>2, <1>3, <1>4, <1>5, <1>6 DEF WorkerStep

(* The API writes back rows whose package it has read in the store. *)
LEMMA NamesApi ==
  ASSUME NamesAreStored, ApiStep
  PROVE  NamesAreStored'
<1> USE DEF NamesAreStored
<1>1. WorkerNames'
  BY DEF ApiStep, BeginReview, BeginAnalysis, ReviewWorkspace, ReviewSummary, RecordAnalysis,
         workerVars, rowVars, WorkerNames
<1>2. CASE \E i \in DOMAIN workspace : BeginReview(i)
  <2> PICK i \in DOMAIN workspace : BeginReview(i)
    BY <1>2
  <2>1. ReviewNames'
    BY DEF BeginReview, RowsNamed, ReviewNames, IsReview, rowVars
  <2> QED
    BY <1>1, <2>1 DEF BeginReview, RowsNamed, AnalysisNames, rowVars
<1>3. CASE \E i \in DOMAIN workspace : BeginAnalysis(i)
  <2> PICK i \in DOMAIN workspace : BeginAnalysis(i)
    BY <1>3
  <2>1. AnalysisNames'
    BY DEF BeginAnalysis, RowsNamed, AnalysisNames, IsAnalysis, rowVars
  <2> QED
    BY <1>1, <2>1 DEF BeginAnalysis, RowsNamed, ReviewNames, rowVars
<1>4. CASE ReviewWorkspace
  <2>1. review # None
    BY <1>4 DEF ReviewWorkspace, None
  <2>2. RowsNamed'
    BY <1>4, <2>1 DEF ReviewWorkspace, RowsNamed, ReviewNames, IsReview, IsWorkspace
  <2>3. ReviewNames'
    BY <1>4, <2>1 DEF ReviewWorkspace, ReviewNames, IsReview
  <2> QED
    BY <1>1, <1>4, <2>2, <2>3 DEF ReviewWorkspace, AnalysisNames
<1>5. CASE ReviewSummary
  BY <1>1, <1>5 DEF ReviewSummary, RowsNamed, ReviewNames, AnalysisNames
<1>6. CASE RecordAnalysis
  <2>1. analysis # None
    BY <1>6 DEF RecordAnalysis, None
  <2>2. RowsNamed'
    BY <1>6, <2>1 DEF RecordAnalysis, RowsNamed, AnalysisNames, IsAnalysis, IsWorkspace
  <2> QED
    BY <1>1, <1>6, <2>2 DEF RecordAnalysis, ReviewNames, AnalysisNames
<1> QED
  BY <1>2, <1>3, <1>4, <1>5, <1>6 DEF ApiStep

LEMMA NamesStutter ==
  ASSUME NamesAreStored, UNCHANGED allVars
  PROVE  NamesAreStored'
  BY DEF NamesAreStored, RowsNamed, WorkerNames, ReviewNames, AnalysisNames, allVars, workerVars,
         rowVars, apiVars

(* NamedPackagesExist for every value of the constants: at any moment, and *)
(* after any crash, failure or stale write, the package that a workspace   *)
(* or an evidence row names can be read from the store.                    *)
THEOREM NamesStoredPackages == ProjectionSpec => []NamedPackagesExist
<1>1. ProjectionInit => NamesAreStored
  BY NamesInit
<1>2. NamesAreStored /\ [ProjectionNext]_allVars => NamesAreStored'
  BY NamesWorker, NamesApi, NamesStutter DEF ProjectionNext
<1>3. NamesAreStored => NamedPackagesExist
  BY DEF NamesAreStored, RowsNamed, NamedPackagesExist
<1> QED
  BY <1>1, <1>2, <1>3, PTL DEF ProjectionSpec

-----------------------------------------------------------------------------
(* Without crashes the builder's count is the highest version that was     *)
(* ever built, so the version about to be stored is a new one.             *)
WorkerAlive == pc # "down" /\ crashes = 0

VersionsBuilt ==
  /\ \A i \in DOMAIN built : built[i] \in Nat \ {0}
  /\ \A k \in DOMAIN packages : \E i \in DOMAIN built : \E v \in 1..built[i] : k = <<i, v>>

VersionIsNew ==
  pc = "package" => shown \in DOMAIN built /\ <<shown, built[shown]>> \notin DOMAIN packages

StoredIsShown ==
  pc \in {"read", "summary", "workspace", "evidence"} =>
    /\ <<shown, built[shown]>> \in DOMAIN packages
    /\ packages[<<shown, built[shown]>>] = Shown(shown)

EvidenceIsStored ==
  \A i \in DOMAIN evidence :
    /\ <<i, evidence[i].package>> \in DOMAIN packages
    /\ packages[<<i, evidence[i].package>>] = evidence[i].content

VersionsIdentify == WorkerAlive /\ VersionsBuilt /\ VersionIsNew /\ StoredIsShown /\ EvidenceIsStored

LEMMA VersionsInit == ProjectionInit => VersionsIdentify
  BY DEF ProjectionInit, VersionsIdentify, WorkerAlive, VersionsBuilt, VersionIsNew, StoredIsShown,
         EvidenceIsStored

LEMMA VersionsNext ==
  ASSUME MaxCrashes = 0, VersionsIdentify, [ProjectionNext]_allVars
  PROVE  VersionsIdentify'
<1> USE DEF VersionsIdentify
<1>1. ~Crash /\ ~Restart
  BY DEF Crash, Restart, WorkerAlive
<1>2. CASE PersistOverview
  <2>1. UNCHANGED <<packages, evidence, crashes>> /\ pc' \in {"checkpoint", "package"}
    BY <1>2 DEF PersistOverview, countVars
  <2>2. CASE shown = NoIncident
    BY <1>2, <2>1, <2>2 DEF PersistOverview, WorkerAlive, VersionsBuilt, VersionIsNew,
       StoredIsShown, EvidenceIsStored
  <2>3. CASE shown # NoIncident
    <3>1. /\ built' = [i \in DOMAIN built \cup {shown} |->
                         IF i = shown THEN Count(shown) + 1 ELSE built[i]]
          /\ shown' = shown
      BY <1>2, <2>3 DEF PersistOverview, With
    <3>2. Count(shown) \in Nat
      BY DEF Count, VersionsBuilt
    <3>3. \A i \in DOMAIN built : i \in DOMAIN built' /\ built'[i] \in Nat /\ built[i] \in Nat
                                  /\ built[i] <= built'[i]
      BY <3>1, <3>2 DEF Count, VersionsBuilt
    <3>4. shown \in DOMAIN built' /\ built'[shown] = Count(shown) + 1
      BY <3>1
    <3>5. VersionsBuilt'
      <4>1. \A i \in DOMAIN built' : built'[i] \in Nat \ {0}
        BY <3>1, <3>2 DEF VersionsBuilt
      <4>2. ASSUME NEW k \in DOMAIN packages
            PROVE  \E i \in DOMAIN built' : \E v \in 1..built'[i] : k = <<i, v>>
        <5>1. PICK i \in DOMAIN built : \E v \in 1..built[i] : k = <<i, v>>
          BY DEF VersionsBuilt
        <5>2. PICK v \in 1..built[i] : k = <<i, v>>
          BY <5>1
        <5>3. i \in DOMAIN built' /\ v \in 1..built'[i]
          BY <3>3, <5>1, <5>2
        <5> QED
          BY <5>2, <5>3
      <4> QED
        BY <2>1, <4>1, <4>2 DEF VersionsBuilt
    <3>6. <<shown, Count(shown) + 1>> \notin DOMAIN packages
      <4>1. SUFFICES ASSUME <<shown, Count(shown) + 1>> \in DOMAIN packages
                     PROVE  FALSE
        OBVIOUS
      <4>2. PICK i \in DOMAIN built : \E v \in 1..built[i] : <<shown, Count(shown) + 1>> = <<i, v>>
        BY <4>1 DEF VersionsBuilt
      <4>3. shown = i /\ Count(shown) + 1 \in 1..built[i]
        BY <4>2
      <4> QED
        BY <4>2, <4>3, <3>2 DEF Count, VersionsBuilt
    <3>7. VersionIsNew'
      BY <2>1, <3>1, <3>4, <3>6 DEF VersionIsNew
    <3> QED
      BY <2>1, <3>5, <3>7 DEF WorkerAlive, StoredIsShown, EvidenceIsStored
  <2> QED
    BY <2>2, <2>3
<1>3. CASE SavePackage
  <2> DEFINE key == <<shown, built[shown]>>
  <2>1. /\ key \notin DOMAIN packages
        /\ shown \in DOMAIN built
        /\ UNCHANGED <<shown, built, evidence, crashes, incidents>>
        /\ pc' = "read"
    BY <1>3 DEF SavePackage, VersionIsNew, countVars, memoryVars
  <2>2. /\ DOMAIN packages' = DOMAIN packages \cup {key}
        /\ packages'[key] = Shown(shown)
        /\ \A k \in DOMAIN packages : packages'[k] = packages[k]
    BY <1>3, <2>1 DEF SavePackage, With
  <2>3. built[shown] \in 1..built[shown]
    BY <2>1 DEF VersionsBuilt
  <2>4. VersionsBuilt'
    BY <2>1, <2>2, <2>3 DEF VersionsBuilt
  <2>5. StoredIsShown'
    BY <2>1, <2>2 DEF StoredIsShown, Shown
  <2> QED
    BY <2>1, <2>2, <2>4, <2>5 DEF WorkerAlive, VersionIsNew, EvidenceIsStored
<1>4. CASE PersistEvidence
  <2>1. UNCHANGED <<packages, built, crashes>> /\ pc' = "checkpoint"
    BY <1>4 DEF PersistEvidence, countVars
  <2>2. EvidenceIsStored'
    BY <1>4, <2>1 DEF PersistEvidence, With, StoredIsShown, EvidenceIsStored
  <2> QED
    BY <2>1, <2>2 DEF WorkerAlive, VersionsBuilt, VersionIsNew, StoredIsShown
<1>5. CASE ReadWorkspace \/ PersistSummary \/ PersistWorkspace
  <2>1. /\ UNCHANGED <<packages, built, evidence, shown, incidents, crashes>>
        /\ pc \in {"read", "summary", "workspace"}
        /\ pc' \in {"summary", "workspace", "evidence"}
    BY <1>5 DEF ReadWorkspace, PersistSummary, PersistWorkspace, rowVars, memoryVars, countVars
  <2> QED
    BY <2>1 DEF WorkerAlive, VersionsBuilt, VersionIsNew, StoredIsShown, EvidenceIsStored, Shown
<1>6. CASE ProcessBatch \/ PersistState \/ CallFails
  <2>1. /\ UNCHANGED <<packages, built, evidence, crashes>>
        /\ pc' \in {"overview", "idle"}
    BY <1>6 DEF ProcessBatch, PersistState, CallFails, rowVars, countVars
  <2> QED
    BY <2>1 DEF WorkerAlive, VersionsBuilt, VersionIsNew, StoredIsShown, EvidenceIsStored
<1>7. CASE TimePasses \/ ApiStep \/ UNCHANGED allVars
  <2>1. UNCHANGED <<packages, built, evidence, shown, incidents, crashes, pc>>
    BY <1>7 DEF TimePasses, Tick, ApiStep, BeginReview, BeginAnalysis, ReviewWorkspace,
                ReviewSummary, RecordAnalysis, workerVars, rowVars, memoryVars, countVars, allVars
  <2> QED
    BY <2>1 DEF WorkerAlive, VersionsBuilt, VersionIsNew, StoredIsShown, EvidenceIsStored, Shown
<1> QED
  BY <1>1, <1>2, <1>3, <1>4, <1>5, <1>6, <1>7 DEF ProjectionNext, WorkerStep

(* EvidenceMatchesPackage for every value of the constants, as long as the *)
(* worker does not crash: whatever store calls fail, the evidence shown    *)
(* for an incident is the content of the stored package whose version it   *)
(* names, because the versions that were built but not stored are skipped. *)
THEOREM EvidenceIsThePackage ==
  ASSUME MaxCrashes = 0
  PROVE  ProjectionSpec => []EvidenceMatchesPackage
<1>1. ProjectionInit => VersionsIdentify
  BY VersionsInit
<1>2. VersionsIdentify /\ [ProjectionNext]_allVars => VersionsIdentify'
  BY VersionsNext
<1>3. VersionsIdentify => EvidenceMatchesPackage
  BY DEF VersionsIdentify, EvidenceIsStored, EvidenceMatchesPackage
<1> QED
  BY <1>1, <1>2, <1>3, PTL DEF ProjectionSpec

-----------------------------------------------------------------------------
(* The worker's memory and the checkpoint are always states of the         *)
(* lifecycle manager, also after a restart.                                *)
CheckpointTyped ==
  /\ checkpoint.signals \in [Scopes -> Signal]
  /\ DOMAIN checkpoint.incidents \subseteq Ids
  /\ \A i \in DOMAIN checkpoint.incidents : checkpoint.incidents[i] \in Incident
  /\ \A s \in Scopes :
       checkpoint.signals[s].incident \in DOMAIN checkpoint.incidents \cup {NoIncident}
  /\ checkpoint.fresh \in
       [Scopes -> [newest : Nat, anomalous : SUBSET Nat, confirming : SUBSET Nat]]

Memory == TypeOK /\ CheckpointTyped

LEMMA MemoryInit == ProjectionInit => Memory
<1> SUFFICES ASSUME ProjectionInit PROVE CheckpointTyped
  BY TypeInit DEF ProjectionInit, Memory
<1>1. /\ TypeOK /\ checkpoint.signals = signals /\ checkpoint.incidents = incidents
      /\ checkpoint.fresh = fresh
  BY TypeInit DEF ProjectionInit
<1> QED
  BY <1>1 DEF TypeOK, CheckpointTyped

(* What a batch does to the memory: nothing, or an evaluation by the       *)
(* lifecycle manager.                                                      *)
LEMMA BatchEvaluates ==
  ASSUME TypeOK, ProcessBatch
  PROVE  \/ Apply(Global, now) /\ now \in BucketDuration..now /\ Global \in Scopes
         \/ UNCHANGED <<now, signals, incidents, fresh, rewinds, manualCloses>>
BY ScopeAssumption, SettingsAssumption, BoundAssumption DEF TypeOK, ProcessBatch

LEMMA MemoryStep == Memory /\ [ProjectionNext]_allVars => Memory'
<1> SUFFICES ASSUME Memory, [ProjectionNext]_allVars PROVE Memory'
  OBVIOUS
<1>1. CASE TimePasses
  <2>1. TypeOK'
    BY <1>1, TypeStep DEF TimePasses, Memory, Next
  <2> QED
    BY <1>1, <2>1 DEF TimePasses, rowVars, Memory, CheckpointTyped
<1>2. CASE ProcessBatch
  <2>1. checkpoint' = checkpoint
    BY <1>2 DEF ProcessBatch, rowVars
  <2>2. CASE Apply(Global, now) /\ now \in BucketDuration..now /\ Global \in Scopes
    BY <2>1, <2>2, ApplyType DEF Memory, CheckpointTyped
  <2>3. CASE UNCHANGED <<now, signals, incidents, fresh, rewinds, manualCloses>>
    BY <2>1, <2>3 DEF Memory, CheckpointTyped, TypeOK
  <2> QED
    BY <1>2, <2>2, <2>3, BatchEvaluates DEF Memory
<1>3. CASE PersistState
  <2>1. /\ checkpoint'.signals = signals /\ checkpoint'.incidents = incidents
        /\ checkpoint'.fresh = fresh
        /\ UNCHANGED <<now, signals, incidents, fresh, rewinds, manualCloses>>
    BY <1>3 DEF PersistState, memoryVars, clockVars
  <2> QED
    BY <2>1 DEF Memory, CheckpointTyped, TypeOK
<1>4. CASE Restart
  <2>1. /\ signals' = checkpoint.signals /\ incidents' = checkpoint.incidents
        /\ fresh' = checkpoint.fresh /\ UNCHANGED <<checkpoint, now, rewinds, manualCloses>>
    BY <1>4 DEF Restart, clockVars, rowVars
  <2> QED
    BY <2>1 DEF Memory, CheckpointTyped, TypeOK
<1>5. CASE \/ PersistOverview \/ SavePackage \/ ReadWorkspace \/ PersistSummary
           \/ PersistWorkspace \/ PersistEvidence \/ CallFails \/ Crash \/ ApiStep
           \/ UNCHANGED allVars
  <2>1. UNCHANGED <<checkpoint, now, signals, incidents, fresh, rewinds, manualCloses>>
    BY <1>5 DEF PersistOverview, SavePackage, ReadWorkspace, PersistSummary, PersistWorkspace,
       PersistEvidence, CallFails, Crash, ApiStep, BeginReview, BeginAnalysis, ReviewWorkspace,
       ReviewSummary, RecordAnalysis, memoryVars, clockVars, rowVars, allVars
  <2> QED
    BY <2>1 DEF Memory, CheckpointTyped, TypeOK
<1> QED
  BY <1>1, <1>2, <1>3, <1>4, <1>5 DEF ProjectionNext, WorkerStep

(* An evaluation changes no incident but the one the batch writes.         *)
LEMMA OnlyShownChanges ==
  ASSUME TypeOK, ProcessBatch, NEW k \in DOMAIN incidents', k # shown'
  PROVE  k \in DOMAIN incidents /\ incidents'[k] = incidents[k]
<1>1. shown' = signals'[Global].incident
  BY DEF ProcessBatch
<1>2. CASE Apply(Global, now) /\ now \in BucketDuration..now /\ Global \in Scopes
  <2>1. /\ now \in Nat
        /\ \/ Quiet(Global, now) \/ IncidentOpen(Global, now)
           \/ RecoveryObserved(Global, now) \/ RecoveryNotConfirmed(Global, now)
    BY <1>2, EvaluationCases
  <2>2. CASE Quiet(Global, now)
    <3>1. incidents' = incidents
      BY <1>2, <2>1, <2>2, QuietFacts
    <3> QED
      BY <3>1
  <2>3. CASE IncidentOpen(Global, now)
    <3>1. PICK i : i = signals'[Global].incident
      OBVIOUS
    <3>2. /\ DOMAIN incidents' = DOMAIN incidents \cup {i}
          /\ \A j \in DOMAIN incidents \ {i} : incidents'[j] = incidents[j]
      BY <1>2, <2>1, <2>3, <3>1, OpenedFacts
    <3> QED
      BY <1>1, <3>1, <3>2
  <2>4. CASE RecoveryObserved(Global, now)
    <3>1. PICK i : i = Rested(Global, now).incident
      OBVIOUS
    <3>2. /\ signals'[Global].incident = i /\ DOMAIN incidents' = DOMAIN incidents
          /\ \A j \in DOMAIN incidents \ {i} : incidents'[j] = incidents[j]
      BY <1>2, <2>1, <2>4, <3>1, RecoveryFacts
    <3> QED
      BY <1>1, <3>2
  <2>5. CASE RecoveryNotConfirmed(Global, now)
    <3>1. PICK i : i = Rested(Global, now).incident
      OBVIOUS
    <3>2. /\ signals'[Global].incident = i /\ DOMAIN incidents' = DOMAIN incidents
          /\ \A j \in DOMAIN incidents \ {i} : incidents'[j] = incidents[j]
      BY <1>2, <2>1, <2>5, <3>1, ReopenedFacts
    <3> QED
      BY <1>1, <3>2
  <2> QED
    BY <2>1, <2>2, <2>3, <2>4, <2>5
<1>3. CASE UNCHANGED <<now, signals, incidents, fresh, rewinds, manualCloses>>
  BY <1>3
<1> QED
  BY <1>2, <1>3, BatchEvaluates

-----------------------------------------------------------------------------
(* Where the worker is, and what it has written by then.                   *)
InFlight == {"overview", "package", "read", "summary", "workspace", "evidence"}

Places ==
  /\ pc \in {"idle", "checkpoint", "down"} \cup InFlight
  /\ shown \in Ids \cup {NoIncident}
  /\ pc = "overview" => shown \in DOMAIN incidents \cup {NoIncident}
  /\ pc \in InFlight \ {"overview"} => shown \in DOMAIN incidents /\ shown \in DOMAIN built
  /\ pc \in {"workspace", "evidence"} => shown \in DOMAIN summary
  /\ pc = "evidence" => shown \in DOMAIN workspace
  /\ DOMAIN built \subseteq Ids /\ \A i \in DOMAIN built : built[i] \in Nat \ {0}
  /\ kept \in BOOLEAN

Rows ==
  /\ overview \subseteq DOMAIN summary
  /\ \A k \in DOMAIN packages : packages[k] \in Row
  /\ \A i \in DOMAIN workspace : workspace[i].package \in Nat \ {0}
  /\ DOMAIN evidence \subseteq DOMAIN workspace
  /\ DOMAIN workspace \subseteq DOMAIN summary
  /\ DOMAIN summary \subseteq Ids

(* The requests of the API hold a workspace that they read.                *)
Requests ==
  /\ review.pc \in {"idle", "incident", "summary"}
  /\ review.pc # "idle" => /\ review.incident \in DOMAIN workspace
                           /\ IsReview(review) /\ review.workspace.package \in Nat \ {0}
  /\ analysis.pc \in {"idle", "incident"}
  /\ analysis.pc # "idle" => /\ analysis.incident \in DOMAIN workspace
                             /\ IsAnalysis(analysis) /\ analysis.workspace.package \in Nat \ {0}
  /\ \A i \in DOMAIN workspace : IsWorkspace(workspace[i])

Projecting == Memory /\ Places /\ Rows /\ Requests

LEMMA ProjectingInit == ProjectionInit => Projecting
<1> SUFFICES ASSUME ProjectionInit PROVE Places /\ Rows /\ Requests
  BY MemoryInit DEF Projecting
<1>1. Places
  BY DEF ProjectionInit, Places, InFlight
<1>2. Rows
  BY DEF ProjectionInit, Rows
<1>3. Requests
  BY DEF ProjectionInit, Requests, None
<1> QED
  BY <1>1, <1>2, <1>3

(* Rows are not deleted.                                                   *)
LEMMA RowsStay ==
  ASSUME [ProjectionNext]_allVars
  PROVE  /\ DOMAIN summary \subseteq DOMAIN summary'
         /\ DOMAIN workspace \subseteq DOMAIN workspace'
         /\ DOMAIN evidence \subseteq DOMAIN evidence'
<1>1. CASE PersistSummary \/ PersistWorkspace \/ PersistEvidence
  BY <1>1 DEF PersistSummary, PersistWorkspace, PersistEvidence, With
<1>2. CASE ReviewWorkspace \/ ReviewSummary \/ RecordAnalysis
  BY <1>2 DEF ReviewWorkspace, ReviewSummary, RecordAnalysis
<1>3. CASE UNCHANGED <<summary, workspace, evidence>>
  BY <1>3
<1>4. \/ TimePasses \/ ProcessBatch \/ PersistOverview \/ SavePackage \/ ReadWorkspace
      \/ PersistState \/ Restart \/ CallFails \/ Crash \/ UNCHANGED allVars
      \/ (\E i \in DOMAIN workspace : BeginReview(i) \/ BeginAnalysis(i))
      => UNCHANGED <<summary, workspace, evidence>>
  BY DEF TimePasses, ProcessBatch, PersistOverview, SavePackage, ReadWorkspace, PersistState,
     Restart, CallFails, Crash, BeginReview, BeginAnalysis, rowVars, allVars
<1> QED
  BY <1>1, <1>2, <1>3, <1>4 DEF ProjectionNext, WorkerStep, ApiStep

LEMMA PlacesStep == Projecting /\ [ProjectionNext]_allVars => Places'
<1> SUFFICES ASSUME Projecting, [ProjectionNext]_allVars PROVE Places'
  OBVIOUS
<1>1. /\ Memory /\ Memory' /\ Places /\ DOMAIN summary \subseteq DOMAIN summary'
      /\ DOMAIN workspace \subseteq DOMAIN workspace'
  BY MemoryStep, RowsStay DEF Projecting
<1>2. CASE ProcessBatch
  <2>1. /\ pc' = "overview" /\ UNCHANGED <<built, kept>> /\ shown' = signals'[Global].incident
    BY <1>2 DEF ProcessBatch
  <2>2. /\ shown' \in DOMAIN incidents' \cup {NoIncident}
        /\ shown' \in Ids \cup {NoIncident}
    BY <1>1, <2>1, ScopeAssumption DEF Memory, TypeOK
  <2> QED
    BY <1>1, <2>1, <2>2 DEF Places, InFlight
<1>3. CASE PersistOverview
  <2>1. UNCHANGED <<incidents, shown, kept>> /\ pc = "overview"
    BY <1>3 DEF PersistOverview, memoryVars
  <2>2. CASE shown = NoIncident
    BY <1>1, <1>3, <2>1, <2>2 DEF PersistOverview, Places, InFlight
  <2>3. CASE shown # NoIncident
    <3>1. pc' = "package" /\ built' = With(built, shown, Count(shown) + 1)
      BY <1>3, <2>3 DEF PersistOverview
    <3>2. Count(shown) + 1 \in Nat \ {0}
      BY <1>1 DEF Places, Count
    <3>3. /\ DOMAIN built' = DOMAIN built \cup {shown}
          /\ \A i \in DOMAIN built' : built'[i] \in Nat \ {0}
      BY <1>1, <3>1, <3>2 DEF Places, With
    <3>4. shown \in DOMAIN incidents /\ shown \in Ids
      BY <1>1, <2>1, <2>3 DEF Places
    <3> QED
      BY <1>1, <2>1, <3>1, <3>3, <3>4 DEF Places, InFlight
  <2> QED
    BY <2>2, <2>3
<1>4. CASE SavePackage \/ ReadWorkspace
  <2>1. /\ UNCHANGED <<incidents, shown, built>> /\ kept' \in BOOLEAN
        /\ pc \in {"package", "read"} /\ pc' \in {"read", "summary"}
    BY <1>1, <1>4 DEF SavePackage, ReadWorkspace, memoryVars, Places
  <2> QED
    BY <1>1, <2>1 DEF Places, InFlight
<1>5. CASE PersistSummary
  <2>1. /\ UNCHANGED <<incidents, shown, built, kept>> /\ pc = "summary" /\ pc' = "workspace"
        /\ shown \in DOMAIN summary'
    BY <1>5 DEF PersistSummary, With, memoryVars
  <2> QED
    BY <1>1, <2>1 DEF Places, InFlight
<1>6. CASE PersistWorkspace
  <2>1. /\ UNCHANGED <<incidents, shown, built, kept, summary>> /\ pc = "workspace"
        /\ pc' = "evidence" /\ shown \in DOMAIN workspace'
    BY <1>6 DEF PersistWorkspace, With, memoryVars
  <2> QED
    BY <1>1, <2>1 DEF Places, InFlight
<1>7. CASE PersistEvidence \/ PersistState \/ CallFails \/ Crash
  <2>1. /\ UNCHANGED <<incidents, shown, built, kept>> /\ pc' \in {"checkpoint", "idle", "down"}
    BY <1>7 DEF PersistEvidence, PersistState, CallFails, Crash, memoryVars, workerVars
  <2> QED
    BY <1>1, <2>1 DEF Places, InFlight
<1>8. CASE Restart
  BY <1>1, <1>8 DEF Restart, Places, InFlight
<1>9. CASE TimePasses \/ ApiStep \/ UNCHANGED allVars
  <2>1. UNCHANGED <<incidents, shown, built, kept, pc>>
    BY <1>9 DEF TimePasses, Tick, ApiStep, BeginReview, BeginAnalysis, ReviewWorkspace,
       ReviewSummary, RecordAnalysis, workerVars, memoryVars, allVars
  <2> QED
    BY <1>1, <2>1 DEF Places, InFlight
<1> QED
  BY <1>2, <1>3, <1>4, <1>5, <1>6, <1>7, <1>8, <1>9 DEF ProjectionNext, WorkerStep

LEMMA RowsStep == Projecting /\ [ProjectionNext]_allVars => Rows'
<1> SUFFICES ASSUME Projecting, [ProjectionNext]_allVars PROVE Rows'
  OBVIOUS
<1>1. Memory /\ Places /\ Rows /\ Requests
  BY DEF Projecting
<1>2. CASE PersistOverview
  BY <1>1, <1>2 DEF PersistOverview, Rows
<1>3. CASE SavePackage
  <2>1. Shown(shown) \in Row
    BY <1>1, <1>3 DEF SavePackage, Places, InFlight, Memory, TypeOK, Incident, Shown, Row
  <2>2. /\ UNCHANGED <<overview, summary, workspace, evidence>>
        /\ packages' = packages \/ packages' = With(packages, <<shown, built[shown]>>, Shown(shown))
    BY <1>3 DEF SavePackage
  <2> QED
    BY <1>1, <2>1, <2>2 DEF Rows, With
<1>4. CASE PersistSummary
  <2>1. /\ UNCHANGED <<overview, packages, workspace, evidence>>
        /\ DOMAIN summary' = DOMAIN summary \cup {shown}
    BY <1>4 DEF PersistSummary, With
  <2>2. shown \in Ids
    BY <1>1, <1>4 DEF PersistSummary, Places, InFlight
  <2> QED
    BY <1>1, <2>1, <2>2 DEF Rows
<1>5. CASE PersistWorkspace
  <2>1. /\ UNCHANGED <<overview, packages, summary, evidence>>
        /\ DOMAIN workspace' = DOMAIN workspace \cup {shown}
        /\ workspace'[shown].package = built[shown]
        /\ \A i \in DOMAIN workspace : i # shown => workspace'[i] = workspace[i]
    BY <1>5 DEF PersistWorkspace, With
  <2>2. shown \in DOMAIN summary /\ built[shown] \in Nat \ {0}
    BY <1>1, <1>5 DEF PersistWorkspace, Places, InFlight
  <2> QED
    BY <1>1, <2>1, <2>2 DEF Rows
<1>6. CASE PersistEvidence
  <2>1. /\ UNCHANGED <<overview, packages, summary, workspace>>
        /\ DOMAIN evidence' = DOMAIN evidence \cup {shown}
    BY <1>6 DEF PersistEvidence, With
  <2>2. shown \in DOMAIN workspace
    BY <1>1, <1>6 DEF PersistEvidence, Places
  <2> QED
    BY <1>1, <2>1, <2>2 DEF Rows
<1>7. CASE ReviewWorkspace
  <2>1. /\ UNCHANGED <<overview, packages, summary, evidence>>
        /\ DOMAIN workspace' = DOMAIN workspace
        /\ \A i \in DOMAIN workspace : i # review.incident => workspace'[i] = workspace[i]
        /\ review.incident \in DOMAIN workspace =>
             workspace'[review.incident] = [review.workspace EXCEPT !.review = @ + 1]
    BY <1>7 DEF ReviewWorkspace
  <2>2. IsWorkspace(review.workspace) /\ review.workspace.package \in Nat \ {0}
    BY <1>1, <1>7 DEF ReviewWorkspace, Requests, IsReview
  <2>3. [review.workspace EXCEPT !.review = @ + 1].package = review.workspace.package
    BY <2>2 DEF IsWorkspace
  <2> QED
    BY <1>1, <2>1, <2>2, <2>3 DEF Rows
<1>8. CASE ReviewSummary
  BY <1>1, <1>8 DEF ReviewSummary, Rows
<1>9. CASE RecordAnalysis
  <2>1. /\ UNCHANGED <<overview, packages, summary, evidence>>
        /\ DOMAIN workspace' = DOMAIN workspace
        /\ \A i \in DOMAIN workspace : i # analysis.incident => workspace'[i] = workspace[i]
        /\ analysis.incident \in DOMAIN workspace =>
             workspace'[analysis.incident] = [analysis.workspace EXCEPT !.analysed = TRUE]
    BY <1>9 DEF RecordAnalysis
  <2>2. IsWorkspace(analysis.workspace) /\ analysis.workspace.package \in Nat \ {0}
    BY <1>1, <1>9 DEF RecordAnalysis, Requests, IsAnalysis
  <2>3. [analysis.workspace EXCEPT !.analysed = TRUE].package = analysis.workspace.package
    BY <2>2 DEF IsWorkspace
  <2> QED
    BY <1>1, <2>1, <2>2, <2>3 DEF Rows
<1>10. CASE \/ TimePasses \/ ProcessBatch \/ ReadWorkspace \/ PersistState \/ Restart
            \/ CallFails \/ Crash \/ UNCHANGED allVars
            \/ \E i \in DOMAIN workspace : BeginReview(i) \/ BeginAnalysis(i)
  <2>1. UNCHANGED <<overview, packages, summary, workspace, evidence>>
    BY <1>10 DEF TimePasses, ProcessBatch, ReadWorkspace, PersistState, Restart, CallFails, Crash,
       BeginReview, BeginAnalysis, rowVars, allVars
  <2> QED
    BY <1>1, <2>1 DEF Rows
<1> QED
  BY <1>2, <1>3, <1>4, <1>5, <1>6, <1>7, <1>8, <1>9, <1>10 DEF ProjectionNext, WorkerStep, ApiStep

LEMMA RequestsStep == Projecting /\ [ProjectionNext]_allVars => Requests'
<1> SUFFICES ASSUME Projecting, [ProjectionNext]_allVars PROVE Requests'
  OBVIOUS
<1>1. Places /\ Rows /\ Requests /\ DOMAIN workspace \subseteq DOMAIN workspace'
  BY RowsStay DEF Projecting
<1>2. CASE PersistWorkspace
  <2>1. /\ UNCHANGED <<review, analysis>>
        /\ DOMAIN workspace' = DOMAIN workspace \cup {shown}
        /\ IsWorkspace(workspace'[shown])
        /\ \A i \in DOMAIN workspace : i # shown => workspace'[i] = workspace[i]
    BY <1>2 DEF PersistWorkspace, With, apiVars, IsWorkspace
  <2> QED
    BY <1>1, <2>1 DEF Requests
<1>3. ASSUME NEW i \in DOMAIN workspace, BeginReview(i)
      PROVE  Requests'
  <2>1. UNCHANGED <<workspace, analysis>> /\ review'.pc = "incident" /\ review'.incident = i
        /\ review'.workspace = workspace[i]
        /\ review' = [pc |-> review'.pc, incident |-> review'.incident,
                      workspace |-> review'.workspace, summary |-> review'.summary]
    BY <1>3 DEF BeginReview, rowVars
  <2>2. IsReview(review)' /\ review'.workspace.package \in Nat \ {0}
    BY <1>1, <2>1 DEF IsReview, Requests, Rows
  <2> QED
    BY <1>1, <2>1, <2>2 DEF Requests
<1>4. ASSUME NEW i \in DOMAIN workspace, BeginAnalysis(i)
      PROVE  Requests'
  <2>1. UNCHANGED <<workspace, review>> /\ analysis'.pc = "incident" /\ analysis'.incident = i
        /\ analysis'.workspace = workspace[i]
        /\ analysis' = [pc |-> analysis'.pc, incident |-> analysis'.incident,
                        workspace |-> analysis'.workspace]
    BY <1>4 DEF BeginAnalysis, rowVars
  <2>2. IsAnalysis(analysis)' /\ analysis'.workspace.package \in Nat \ {0}
    BY <1>1, <2>1 DEF IsAnalysis, Requests, Rows
  <2> QED
    BY <1>1, <2>1, <2>2 DEF Requests
<1>5. CASE ReviewWorkspace
  <2>1. /\ review.pc = "incident" /\ analysis' = analysis
        /\ IsReview(review) /\ IsWorkspace(review.workspace) /\ review.incident \in DOMAIN workspace
    BY <1>1, <1>5 DEF ReviewWorkspace, Requests, IsReview
  <2>2. /\ DOMAIN workspace' = DOMAIN workspace
        /\ \A i \in DOMAIN workspace : i # review.incident => workspace'[i] = workspace[i]
        /\ workspace'[review.incident] = [review.workspace EXCEPT !.review = @ + 1]
        /\ review' = [review EXCEPT !.pc = "summary"]
    BY <1>5, <2>1 DEF ReviewWorkspace
  <2>3. IsWorkspace(workspace'[review.incident])
    BY <2>1, <2>2 DEF IsWorkspace
  <2>4. /\ review'.pc = "summary" /\ review'.workspace = review.workspace
        /\ review'.incident = review.incident /\ IsReview(review)'
    BY <2>1, <2>2 DEF IsReview
  <2> QED
    BY <1>1, <2>1, <2>2, <2>3, <2>4 DEF Requests
<1>6. CASE RecordAnalysis
  <2>1. /\ analysis.pc = "incident" /\ review' = review /\ analysis' = None
        /\ IsWorkspace(analysis.workspace) /\ analysis.incident \in DOMAIN workspace
    BY <1>1, <1>6 DEF RecordAnalysis, Requests, IsAnalysis
  <2>2. /\ DOMAIN workspace' = DOMAIN workspace
        /\ \A i \in DOMAIN workspace : i # analysis.incident => workspace'[i] = workspace[i]
        /\ workspace'[analysis.incident] = [analysis.workspace EXCEPT !.analysed = TRUE]
    BY <1>6, <2>1 DEF RecordAnalysis
  <2>3. IsWorkspace(workspace'[analysis.incident])
    BY <2>1, <2>2 DEF IsWorkspace
  <2> QED
    BY <1>1, <2>1, <2>2, <2>3 DEF Requests, None
<1>7. CASE ReviewSummary
  BY <1>1, <1>7 DEF ReviewSummary, Requests, None
<1>8. CASE \/ TimePasses \/ ProcessBatch \/ PersistOverview \/ SavePackage \/ ReadWorkspace
           \/ PersistSummary \/ PersistEvidence \/ PersistState \/ Restart \/ CallFails \/ Crash
           \/ UNCHANGED allVars
  <2>1. UNCHANGED <<workspace, review, analysis>>
    BY <1>8 DEF TimePasses, ProcessBatch, PersistOverview, SavePackage, ReadWorkspace,
       PersistSummary, PersistEvidence, PersistState, Restart, CallFails, Crash, rowVars, apiVars,
       allVars
  <2> QED
    BY <1>1, <2>1 DEF Requests
<1> QED
  BY <1>2, <1>3, <1>4, <1>5, <1>6, <1>7, <1>8 DEF ProjectionNext, WorkerStep, ApiStep

LEMMA ProjectingInvariant == ProjectionSpec => []Projecting
<1>1. Projecting /\ [ProjectionNext]_allVars => Projecting'
  BY MemoryStep, PlacesStep, RowsStep, RequestsStep DEF Projecting
<1> QED
  BY <1>1, ProjectingInit, PTL DEF ProjectionSpec

(* Every variable has its type, for any number of crashes and failures,    *)
(* and every row is about an incident that has a summary                   *)
(* (runtime_pipeline.py:498-512).                                          *)
THEOREM ProjectionTypeCorrect == ProjectionSpec => []ProjectionTypeOK
<1>1. Projecting => ProjectionTypeOK
  BY DEF Projecting, Memory, Places, InFlight, Rows, Requests, ProjectionTypeOK
<1> QED
  BY <1>1, ProjectingInvariant, PTL

-----------------------------------------------------------------------------
(* The checkpoint comes last.                                              *)

(* A batch forgets no incident and takes no version back.                  *)
LEMMA VersionsGrow ==
  ASSUME TypeOK, ProcessBatch, NEW i \in DOMAIN incidents
  PROVE  i \in DOMAIN incidents' /\ incidents'[i].version >= incidents[i].version
<1>1. incidents[i] \in Incident /\ incidents[i].version \in Nat
  BY DEF TypeOK, Incident
<1>2. CASE Apply(Global, now) /\ now \in BucketDuration..now /\ Global \in Scopes
  <2>1. /\ now \in Nat
        /\ \/ Quiet(Global, now) \/ IncidentOpen(Global, now)
           \/ RecoveryObserved(Global, now) \/ RecoveryNotConfirmed(Global, now)
    BY <1>2, EvaluationCases
  <2>2. CASE Quiet(Global, now)
    <3>1. incidents' = incidents
      BY <1>2, <2>1, <2>2, QuietFacts
    <3> QED
      BY <1>1, <3>1
  <2>3. CASE IncidentOpen(Global, now)
    <3> DEFINE counted == Counted(Rested(Global, now))
               j == IF counted.incident = NoIncident THEN IncidentFor(Global, now)
                    ELSE counted.incident
               before == IF counted.incident = NoIncident THEN Joined(j, Global, now)
                         ELSE incidents
    <3>1. incidents' = [before EXCEPT ![j].lifecycle = "OPEN", ![j].updated_at = now,
                                     ![j].version = @ + 1]
      BY <2>3 DEF IncidentOpen
    <3>2. [incidents[i] EXCEPT !.signal_scopes = @ \cup {Global}] \in Incident
      BY <1>1, <1>2 DEF Incident
    <3>3. [incidents[i] EXCEPT !.signal_scopes = @ \cup {Global}].version = incidents[i].version
      BY <1>1 DEF Incident
    <3>4. /\ i \in DOMAIN before /\ before[i] \in Incident
          /\ before[i].version = incidents[i].version
      BY <1>1, <3>2, <3>3 DEF Joined
    <3> HIDE DEF before, j, counted
    <3>5. /\ i \in DOMAIN incidents'
          /\ i # j => incidents'[i] = before[i]
          /\ i = j => incidents'[i] = [before[i] EXCEPT !.lifecycle = "OPEN", !.updated_at = now,
                                                       !.version = @ + 1]
      BY <3>1, <3>4
    <3>6. i = j => incidents'[i].version = before[i].version + 1
      BY <3>4, <3>5 DEF Incident
    <3> QED
      BY <1>1, <3>4, <3>5, <3>6
  <2>4. CASE RecoveryObserved(Global, now)
    <3>1. PICK signal : signal = Confirmed(Rested(Global, now), now)
      OBVIOUS
    <3>2. incidents' = [incidents EXCEPT
            ![signal.incident].lifecycle = signal.lifecycle,
            ![signal.incident].updated_at = now,
            ![signal.incident].version = @ + 1,
            ![signal.incident].closure_mode =
               IF signal.lifecycle = "RESOLVED" THEN "AUTOMATIC_RECOVERY" ELSE @]
      BY <2>4, <3>1 DEF RecoveryObserved
    <3>3. PICK j : j = signal.incident
      OBVIOUS
    <3>4. /\ i \in DOMAIN incidents'
          /\ i # j => incidents'[i] = incidents[i]
          /\ i = j => incidents'[i] = [incidents[i] EXCEPT
               !.lifecycle = signal.lifecycle, !.updated_at = now, !.version = @ + 1,
               !.closure_mode = IF signal.lifecycle = "RESOLVED" THEN "AUTOMATIC_RECOVERY" ELSE @]
      BY <3>2, <3>3
    <3>5. i = j => incidents'[i].version = incidents[i].version + 1
      BY <1>1, <3>4 DEF Incident
    <3> QED
      BY <1>1, <3>4, <3>5
  <2>5. CASE RecoveryNotConfirmed(Global, now)
    <3>1. PICK j : j = Rested(Global, now).incident
      OBVIOUS
    <3>2. incidents' = [incidents EXCEPT ![j].lifecycle = "OPEN", ![j].updated_at = now]
      BY <2>5, <3>1 DEF RecoveryNotConfirmed
    <3>3. /\ i \in DOMAIN incidents'
          /\ i # j => incidents'[i] = incidents[i]
          /\ i = j => incidents'[i] = [incidents[i] EXCEPT !.lifecycle = "OPEN",
                                                          !.updated_at = now]
      BY <3>2
    <3>4. i = j => incidents'[i].version = incidents[i].version
      BY <1>1, <3>3 DEF Incident
    <3> QED
      BY <1>1, <3>3, <3>4
  <2> QED
    BY <2>1, <2>2, <2>3, <2>4, <2>5
<1>3. CASE UNCHANGED <<now, signals, incidents, fresh, rewinds, manualCloses>>
  BY <1>1, <1>3
<1> QED
  BY <1>2, <1>3, BatchEvaluates

(* While the worker runs, it knows all that the checkpoint knows.          *)
MemoryAhead ==
  pc # "down" =>
    \A i \in DOMAIN checkpoint.incidents :
      /\ i \in DOMAIN incidents
      /\ incidents[i].version >= checkpoint.incidents[i].version

LEMMA AheadInit == ProjectionInit => MemoryAhead
BY DEF ProjectionInit, Init, MemoryAhead

LEMMA AheadStep == Projecting /\ MemoryAhead /\ [ProjectionNext]_allVars => MemoryAhead'
<1> SUFFICES ASSUME Projecting, MemoryAhead, [ProjectionNext]_allVars PROVE MemoryAhead'
  OBVIOUS
<1>1. /\ Memory /\ TypeOK /\ Memory'
      /\ \A i \in DOMAIN incidents : incidents[i].version \in Nat
      /\ \A i \in DOMAIN checkpoint.incidents : checkpoint.incidents[i].version \in Nat
  BY MemoryStep DEF Projecting, Memory, TypeOK, CheckpointTyped, Incident
<1>2. CASE ProcessBatch
  <2>1. checkpoint' = checkpoint /\ pc = "idle"
    BY <1>2 DEF ProcessBatch, rowVars
  <2> SUFFICES ASSUME NEW i \in DOMAIN checkpoint.incidents
               PROVE  /\ i \in DOMAIN incidents'
                      /\ incidents'[i].version >= checkpoint.incidents[i].version
    BY <2>1 DEF MemoryAhead
  <2>2. i \in DOMAIN incidents /\ incidents[i].version >= checkpoint.incidents[i].version
    BY <2>1 DEF MemoryAhead
  <2>3. i \in DOMAIN incidents' /\ incidents'[i].version >= incidents[i].version
    BY <1>1, <1>2, <2>2, VersionsGrow
  <2>4. incidents'[i].version \in Nat
    BY <1>1, <2>3 DEF Memory, TypeOK, Incident
  <2> QED
    BY <1>1, <2>2, <2>3, <2>4
<1>3. CASE PersistState
  <2>1. checkpoint'.incidents = incidents /\ incidents' = incidents
    BY <1>3 DEF PersistState, memoryVars
  <2> QED
    BY <1>1, <2>1 DEF MemoryAhead
<1>4. CASE Restart
  <2>1. incidents' = checkpoint.incidents /\ checkpoint' = checkpoint
    BY <1>4 DEF Restart, rowVars
  <2> QED
    BY <1>1, <2>1 DEF MemoryAhead
<1>5. CASE Crash
  BY <1>5 DEF Crash, MemoryAhead
<1>6. CASE \/ TimePasses \/ PersistOverview \/ SavePackage \/ ReadWorkspace \/ PersistSummary
           \/ PersistWorkspace \/ PersistEvidence \/ CallFails \/ ApiStep \/ UNCHANGED allVars
  <2>1. UNCHANGED <<incidents, checkpoint>> /\ (pc' = pc \/ pc # "down")
    BY <1>6 DEF TimePasses, Tick, PersistOverview, SavePackage, ReadWorkspace, PersistSummary,
       PersistWorkspace, PersistEvidence, CallFails, ApiStep, BeginReview, BeginAnalysis,
       ReviewWorkspace, ReviewSummary, RecordAnalysis, memoryVars, workerVars, rowVars, allVars
  <2> QED
    BY <2>1 DEF MemoryAhead
<1> QED
  BY <1>2, <1>3, <1>4, <1>5, <1>6 DEF ProjectionNext, WorkerStep

(* The rows of the incident i are there and as new as version v.           *)
RowsReach(i, v) ==
  /\ i \in DOMAIN summary \cap DOMAIN workspace \cap DOMAIN evidence
  /\ evidence[i].content.version >= v

(* Until a call fails, every incident in the worker's memory was shown,    *)
(* but the one that a batch in flight is about.                            *)
MemoryShown ==
  pc # "down" =>
    \A i \in DOMAIN incidents : (pc \in InFlight /\ i = shown) \/ RowsReach(i, incidents[i].version)

AllShown == MemoryShown /\ CheckpointIsShown

NothingUnshown == MemoryAhead /\ failures \in Nat /\ (failures = 0 => AllShown)

LEMMA UnshownInit == ProjectionInit => NothingUnshown
<1> SUFFICES ASSUME ProjectionInit PROVE NothingUnshown
  OBVIOUS
<1>1. DOMAIN incidents = {} /\ DOMAIN checkpoint.incidents = {} /\ failures = 0
  BY DEF ProjectionInit, Init
<1> QED
  BY <1>1, AheadInit DEF NothingUnshown, AllShown, MemoryShown, CheckpointIsShown

(* A step that leaves the evidence and the checkpoint alone.               *)
LEMMA StillShown ==
  ASSUME CheckpointIsShown, failures = 0, [ProjectionNext]_allVars, UNCHANGED <<evidence, checkpoint>>
  PROVE  CheckpointIsShown'
BY RowsStay DEF CheckpointIsShown

LEMMA UnshownStep ==
  ASSUME Projecting, MemoryAhead, AllShown, failures = 0, [ProjectionNext]_allVars, ~CallFails
  PROVE  AllShown'
<1>1. /\ MemoryShown /\ CheckpointIsShown /\ Memory /\ Places /\ Memory' /\ Places'
      /\ DOMAIN summary \subseteq DOMAIN summary'
      /\ DOMAIN workspace \subseteq DOMAIN workspace'
      /\ DOMAIN evidence \subseteq DOMAIN evidence'
  BY MemoryStep, PlacesStep, RowsStay DEF AllShown, Projecting
<1>2. CASE PersistEvidence
  <2>1. /\ UNCHANGED <<incidents, checkpoint, summary, workspace, shown>>
        /\ pc = "evidence" /\ pc' = "checkpoint"
        /\ shown \in DOMAIN evidence' /\ evidence'[shown].content = Shown(shown)
        /\ \A i \in DOMAIN evidence : i # shown => evidence'[i] = evidence[i]
    BY <1>2 DEF PersistEvidence, With, memoryVars
  <2>2. /\ shown \in DOMAIN incidents /\ shown \in DOMAIN summary /\ shown \in DOMAIN workspace
        /\ incidents[shown].version \in Nat /\ Shown(shown).version = incidents[shown].version
    BY <1>1, <2>1 DEF Places, InFlight, Memory, TypeOK, Incident, Shown
  <2>3. MemoryShown'
    BY <1>1, <2>1, <2>2 DEF MemoryShown, RowsReach, InFlight
  <2>4. ASSUME NEW i \in DOMAIN checkpoint.incidents
        PROVE  RowsReach(i, checkpoint.incidents[i].version)'
    <3>1. CASE i = shown
      <4>1. incidents[i].version >= checkpoint.incidents[i].version
        BY <2>1 DEF MemoryAhead
      <4> QED
        BY <1>1, <2>1, <2>2, <3>1, <4>1 DEF RowsReach
    <3>2. CASE i # shown
      <4>1. /\ i \in DOMAIN summary \cap DOMAIN workspace \cap DOMAIN evidence
            /\ evidence[i].content.version >= checkpoint.incidents[i].version
        BY <1>1 DEF CheckpointIsShown
      <4> QED
        BY <1>1, <2>1, <3>2, <4>1 DEF RowsReach
    <3> QED
      BY <3>1, <3>2
  <2>5. CheckpointIsShown'
    BY <2>1, <2>4 DEF CheckpointIsShown, RowsReach
  <2> QED
    BY <2>3, <2>5 DEF AllShown
<1>3. CASE ProcessBatch
  <2>1. UNCHANGED <<summary, workspace, evidence, checkpoint>> /\ pc = "idle" /\ pc' = "overview"
    BY <1>3 DEF ProcessBatch, rowVars
  <2>2. ASSUME NEW i \in DOMAIN incidents', i # shown'
        PROVE  RowsReach(i, incidents[i].version)' /\ incidents'[i] = incidents[i]
    <3>1. i \in DOMAIN incidents /\ incidents'[i] = incidents[i]
      BY <1>1, <1>3, <2>2, OnlyShownChanges DEF Memory
    <3>2. RowsReach(i, incidents[i].version)
      BY <1>1, <2>1, <3>1 DEF MemoryShown, InFlight
    <3> QED
      BY <2>1, <3>1, <3>2 DEF RowsReach
  <2>3. MemoryShown'
    BY <2>1, <2>2 DEF MemoryShown, InFlight
  <2> QED
    BY <1>1, <2>1, <2>3, StillShown DEF AllShown
<1>4. CASE PersistOverview
  <2>1. /\ UNCHANGED <<incidents, shown, summary, workspace, evidence, checkpoint>>
        /\ pc = "overview" /\ pc' = IF shown = NoIncident THEN "checkpoint" ELSE "package"
    BY <1>4 DEF PersistOverview, memoryVars
  <2>2. NoIncident \notin DOMAIN incidents
    BY <1>1, ScopeAssumption DEF Memory, TypeOK
  <2>3. MemoryShown'
    BY <1>1, <2>1, <2>2 DEF MemoryShown, RowsReach, InFlight
  <2> QED
    BY <1>1, <2>1, <2>3, StillShown DEF AllShown
<1>5. CASE SavePackage \/ ReadWorkspace \/ PersistSummary \/ PersistWorkspace
  <2>1. /\ UNCHANGED <<incidents, shown, evidence, checkpoint>>
        /\ pc \in InFlight /\ pc' \in InFlight
    BY <1>5 DEF SavePackage, ReadWorkspace, PersistSummary, PersistWorkspace, memoryVars, rowVars,
       InFlight
  <2>2. pc # "down"
    BY <2>1 DEF InFlight
  <2>3. MemoryShown'
    BY <1>1, <2>1, <2>2 DEF MemoryShown, RowsReach
  <2> QED
    BY <1>1, <2>1, <2>3, StillShown DEF AllShown
<1>6. CASE PersistState
  <2>1. /\ UNCHANGED <<incidents, summary, workspace, evidence>>
        /\ pc = "checkpoint" /\ pc' = "idle" /\ checkpoint'.incidents = incidents
    BY <1>6 DEF PersistState, memoryVars
  <2>2. \A i \in DOMAIN incidents : RowsReach(i, incidents[i].version)
    BY <1>1, <2>1 DEF MemoryShown, InFlight
  <2> QED
    BY <2>1, <2>2 DEF AllShown, MemoryShown, CheckpointIsShown, RowsReach
<1>7. CASE Restart
  <2>1. UNCHANGED <<summary, workspace, evidence, checkpoint>> /\ incidents' = checkpoint.incidents
    BY <1>7 DEF Restart, rowVars
  <2>2. MemoryShown'
    BY <1>1, <2>1 DEF MemoryShown, CheckpointIsShown, RowsReach
  <2> QED
    BY <1>1, <2>1, <2>2, StillShown DEF AllShown
<1>8. CASE Crash
  <2>1. UNCHANGED <<evidence, checkpoint>> /\ pc' = "down"
    BY <1>8 DEF Crash, rowVars
  <2> QED
    BY <1>1, <2>1, StillShown DEF AllShown, MemoryShown
<1>9. CASE TimePasses \/ ApiStep \/ UNCHANGED allVars
  <2>1. UNCHANGED <<incidents, shown, evidence, checkpoint, pc>>
    BY <1>9 DEF TimePasses, Tick, ApiStep, BeginReview, BeginAnalysis, ReviewWorkspace,
       ReviewSummary, RecordAnalysis, memoryVars, workerVars, rowVars, allVars
  <2>2. MemoryShown'
    BY <1>1, <2>1 DEF MemoryShown, RowsReach
  <2> QED
    BY <1>1, <2>1, <2>2, StillShown DEF AllShown
<1> QED
  BY <1>2, <1>3, <1>4, <1>5, <1>6, <1>7, <1>8, <1>9 DEF ProjectionNext, WorkerStep

LEMMA FailuresCounted ==
  ASSUME failures \in Nat, [ProjectionNext]_allVars
  PROVE  failures' = IF CallFails THEN failures + 1 ELSE failures
<1>1. CASE CallFails
  BY <1>1 DEF CallFails
<1>2. CASE ~CallFails
  BY <1>2 DEF ProjectionNext, TimePasses, WorkerStep, ProcessBatch, PersistOverview, SavePackage,
     ReadWorkspace, PersistSummary, PersistWorkspace, PersistEvidence, PersistState, Restart,
     Crash, ApiStep, BeginReview, BeginAnalysis, ReviewWorkspace, ReviewSummary, RecordAnalysis,
     countVars, allVars
<1> QED
  BY <1>1, <1>2

(* CheckpointIsShown for every value of the constants, also with any       *)
(* number of crashes: whatever a restarted worker knows of an incident has *)
(* rows of that version or a newer one, unless a store call has failed.    *)
THEOREM CheckpointComesLast == ProjectionSpec => []CheckpointIsShown
<1>1. Projecting /\ NothingUnshown /\ [ProjectionNext]_allVars => NothingUnshown'
  <2> SUFFICES ASSUME Projecting, NothingUnshown, [ProjectionNext]_allVars PROVE NothingUnshown'
    OBVIOUS
  <2>1. failures \in Nat /\ MemoryAhead /\ MemoryAhead'
    BY AheadStep DEF NothingUnshown
  <2>2. failures' \in Nat /\ (failures' = 0 => failures = 0 /\ ~CallFails)
    BY <2>1, FailuresCounted
  <2> QED
    BY <2>1, <2>2, UnshownStep DEF NothingUnshown
<1>2. NothingUnshown => CheckpointIsShown
  BY DEF NothingUnshown, AllShown, CheckpointIsShown
<1> QED
  BY <1>1, <1>2, UnshownInit, ProjectingInvariant, PTL DEF ProjectionSpec

-----------------------------------------------------------------------------
(* The list of summaries.                                                  *)

(* A summary row has these fields and no other. *)
IsSummary(r) == r = [lifecycle |-> r.lifecycle, version |-> r.version, review |-> r.review]

(* A summary that reads "resolved" is about a resolved incident.           *)
Justified(i, r) == IsSummary(r) /\ (r.lifecycle = "RESOLVED" => i \in Resolved)

ListFollows ==
  /\ \A i \in DOMAIN summary : Justified(i, summary[i])
  /\ review.pc # "idle" => Justified(review.incident, review.summary)

ListedInv ==
  crashes \in Nat /\ (crashes = 0 => pc # "down" /\ OnePipeline /\ ListFollows)

LEMMA ListedInit == ProjectionInit => ListedInv
<1> SUFFICES ASSUME ProjectionInit PROVE ListedInv
  OBVIOUS
<1>1. OnePipeline
  BY PipelineInit DEF ProjectionInit
<1>2. DOMAIN summary = {} /\ review.pc = "idle" /\ pc # "down" /\ crashes = 0
  BY DEF ProjectionInit, None
<1> QED
  BY <1>1, <1>2 DEF ListedInv, ListFollows

LEMMA CrashesCounted ==
  ASSUME crashes \in Nat, [ProjectionNext]_allVars
  PROVE  crashes' = IF Crash THEN crashes + 1 ELSE crashes
<1>1. CASE Crash
  BY <1>1 DEF Crash
<1>2. CASE ~Crash
  BY <1>2 DEF ProjectionNext, TimePasses, WorkerStep, ProcessBatch, PersistOverview, SavePackage,
     ReadWorkspace, PersistSummary, PersistWorkspace, PersistEvidence, PersistState, Restart,
     CallFails, ApiStep, BeginReview, BeginAnalysis, ReviewWorkspace, ReviewSummary,
     RecordAnalysis, countVars, allVars
<1> QED
  BY <1>1, <1>2

LEMMA StaysUp ==
  ASSUME [ProjectionNext]_allVars, ~Crash, pc # "down"
  PROVE  pc' # "down"
BY DEF ProjectionNext, TimePasses, WorkerStep, ProcessBatch, PersistOverview, SavePackage,
   ReadWorkspace, PersistSummary, PersistWorkspace, PersistEvidence, PersistState, Restart,
   CallFails, ApiStep, BeginReview, BeginAnalysis, ReviewWorkspace, ReviewSummary,
   RecordAnalysis, workerVars, allVars

(* What the worker does is a step of the lifecycle manager, or none.       *)
LEMMA LifecycleUnderneath ==
  ASSUME Projecting, [ProjectionNext]_allVars, ~Restart
  PROVE  /\ [Next]_vars
         /\ ~ProcessBatch => UNCHANGED <<signals, incidents>>
<1>1. CASE TimePasses
  BY <1>1 DEF TimePasses, Tick, Next, ProcessBatch
<1>2. CASE ProcessBatch
  <2>1. CASE Apply(Global, now) /\ now \in BucketDuration..now /\ Global \in Scopes
    BY <1>2, <2>1 DEF Next
  <2>2. CASE UNCHANGED <<now, signals, incidents, fresh, rewinds, manualCloses>>
    BY <1>2, <2>2 DEF vars
  <2>3. TypeOK
    BY DEF Projecting, Memory
  <2> QED
    BY <1>2, <2>1, <2>2, <2>3, BatchEvaluates
<1>3. CASE \/ PersistOverview \/ SavePackage \/ ReadWorkspace \/ PersistSummary
           \/ PersistWorkspace \/ PersistEvidence \/ PersistState \/ CallFails \/ Crash
           \/ ApiStep \/ UNCHANGED allVars
  <2>1. UNCHANGED <<now, signals, incidents, fresh, rewinds, manualCloses>>
    BY <1>3 DEF PersistOverview, SavePackage, ReadWorkspace, PersistSummary, PersistWorkspace,
       PersistEvidence, PersistState, CallFails, Crash, ApiStep, BeginReview, BeginAnalysis,
       ReviewWorkspace, ReviewSummary, RecordAnalysis, memoryVars, clockVars, allVars
  <2> QED
    BY <2>1 DEF vars
<1> QED
  BY <1>1, <1>2, <1>3 DEF ProjectionNext, WorkerStep

(* Once closed, a case stays closed in the worker's memory.                *)
LEMMA ResolvedRemain ==
  ASSUME Scopes = {Global}, MaxRewinds = 0, MaxManualCloses = 0,
         Projecting, OnePipeline, [ProjectionNext]_allVars, ~Restart
  PROVE  OnePipeline' /\ Resolved \subseteq Resolved'
<1>1. TypeOK /\ [Next]_vars
  BY LifecycleUnderneath DEF Projecting, Memory
<1> QED
  BY <1>1, PipelineStep, IncidentSteps

LEMMA StillJustified ==
  ASSUME NEW i, NEW r, Justified(i, r), Resolved \subseteq Resolved'
  PROVE  IsSummary(r) /\ (r.lifecycle = "RESOLVED" => i \in Resolved')
BY DEF Justified

(* One step of the worker, or of the API, that writes or reads a summary.  *)
LEMMA FollowStep ==
  ASSUME Scopes = {Global}, MaxRewinds = 0, MaxManualCloses = 0,
         Projecting, OnePipeline, ListFollows, [ProjectionNext]_allVars, ~Restart
  PROVE  ListFollows'
<1>1. Resolved \subseteq Resolved' /\ Places /\ Rows /\ Requests
  BY ResolvedRemain DEF Projecting
<1>2. /\ \A i \in DOMAIN summary :
           IsSummary(summary[i]) /\ (summary[i].lifecycle = "RESOLVED" => i \in Resolved')
      /\ review.pc # "idle" =>
           /\ IsSummary(review.summary)
           /\ review.summary.lifecycle = "RESOLVED" => review.incident \in Resolved'
  BY <1>1, StillJustified DEF ListFollows
<1>3. CASE PersistSummary
  <2>1. /\ UNCHANGED <<incidents, review>> /\ pc = "summary"
        /\ DOMAIN summary' = DOMAIN summary \cup {shown}
        /\ summary'[shown] = [lifecycle |-> incidents[shown].lifecycle,
             version |-> incidents[shown].version, review |-> Unreviewed]
        /\ \A i \in DOMAIN summary : i # shown => summary'[i] = summary[i]
    BY <1>3 DEF PersistSummary, With, memoryVars, apiVars
  <2>2. shown \in DOMAIN incidents
    BY <1>1, <2>1 DEF Places, InFlight
  <2>3. IsSummary(summary'[shown]) /\ summary'[shown].lifecycle = incidents[shown].lifecycle
    BY <2>1 DEF IsSummary
  <2>4. incidents[shown].lifecycle = "RESOLVED" => shown \in Resolved'
    BY <2>1, <2>2 DEF Resolved, Unresolved
  <2> QED
    BY <1>2, <2>1, <2>3, <2>4 DEF ListFollows, Justified
<1>4. CASE \E i \in DOMAIN workspace : BeginReview(i)
  <2>1. PICK i \in DOMAIN workspace : BeginReview(i)
    BY <1>4
  <2>2. /\ summary' = summary /\ i \in DOMAIN summary
        /\ review'.incident = i /\ review'.summary = summary[i]
    BY <1>1, <2>1 DEF BeginReview, Rows, rowVars
  <2> QED
    BY <1>2, <2>2 DEF ListFollows, Justified
<1>5. CASE ReviewWorkspace
  <2>1. /\ summary' = summary /\ review.pc # "idle"
        /\ review' = [review EXCEPT !.pc = "summary"] /\ IsReview(review)
    BY <1>1, <1>5 DEF ReviewWorkspace, Requests
  <2>2. review'.incident = review.incident /\ review'.summary = review.summary
    BY <2>1 DEF IsReview
  <2> QED
    BY <1>2, <2>1, <2>2 DEF ListFollows, Justified
<1>6. CASE ReviewSummary
  <2>1. /\ review.pc # "idle" /\ review'.pc = "idle"
        /\ DOMAIN summary' = DOMAIN summary
        /\ \A i \in DOMAIN summary : i # review.incident => summary'[i] = summary[i]
        /\ review.incident \in DOMAIN summary =>
             summary'[review.incident] =
               [review.summary EXCEPT !.review = review.workspace.review + 1]
    BY <1>6 DEF ReviewSummary, None
  <2>2. LET r == [review.summary EXCEPT !.review = review.workspace.review + 1]
        IN  IsSummary(r) /\ r.lifecycle = review.summary.lifecycle
    BY <1>2, <2>1 DEF IsSummary
  <2> QED
    BY <1>2, <2>1, <2>2 DEF ListFollows, Justified
<1>7. CASE UNCHANGED <<summary, review>>
  BY <1>2, <1>7 DEF ListFollows, Justified
<1>8. \/ PersistSummary \/ ReviewWorkspace \/ ReviewSummary
      \/ \E i \in DOMAIN workspace : BeginReview(i)
      \/ UNCHANGED <<summary, review>>
  BY DEF ProjectionNext, TimePasses, WorkerStep, ProcessBatch, PersistOverview, SavePackage,
     ReadWorkspace, PersistWorkspace, PersistEvidence, PersistState, Restart, CallFails, Crash,
     ApiStep, BeginAnalysis, RecordAnalysis, rowVars, apiVars, allVars
<1> QED
  BY <1>3, <1>4, <1>5, <1>6, <1>7, <1>8

(* ResolvedStaysListed for every value of the settings and any number of   *)
(* batches, failing store calls, human reviews, Copilot tasks and crashes: *)
(* until the first crash, a case that is listed as resolved is resolved,   *)
(* and no projection, not even one that a failing call cut short, lists it *)
(* as open again.                                                          *)
THEOREM ListedCasesStayClosed ==
  ASSUME Scopes = {Global}, MaxRewinds = 0, MaxManualCloses = 0
  PROVE  ProjectionSpec => ResolvedStaysListed
<1>1. Projecting /\ ListedInv /\ [ProjectionNext]_allVars => ListedInv'
  <2> SUFFICES ASSUME Projecting, ListedInv, [ProjectionNext]_allVars PROVE ListedInv'
    OBVIOUS
  <2>1. crashes \in Nat /\ crashes' = IF Crash THEN crashes + 1 ELSE crashes
    BY CrashesCounted DEF ListedInv
  <2>2. CASE crashes' = 0
    <3>1. crashes = 0 /\ ~Crash
      BY <2>1, <2>2
    <3>2. pc # "down" /\ OnePipeline /\ ListFollows
      BY <3>1 DEF ListedInv
    <3>3. ~Restart
      BY <3>2 DEF Restart
    <3> QED
      BY <2>1, <3>1, <3>2, <3>3, StaysUp, ResolvedRemain, FollowStep DEF ListedInv
  <2>3. CASE crashes' # 0
    BY <2>1, <2>3 DEF ListedInv
  <2> QED
    BY <2>2, <2>3
<1>2. Projecting /\ ListedInv /\ [ProjectionNext]_allVars
      => [\A i \in DOMAIN summary :
            /\ crashes = 0
            /\ summary[i].lifecycle = "RESOLVED"
            /\ ~ReviewSummary
            => i \in DOMAIN summary' /\ summary'[i].lifecycle = "RESOLVED"]_allVars
  <2> SUFFICES ASSUME Projecting, ListedInv, [ProjectionNext]_allVars, ~ReviewSummary, crashes = 0,
                      NEW i \in DOMAIN summary, summary[i].lifecycle = "RESOLVED"
               PROVE  i \in DOMAIN summary' /\ summary'[i].lifecycle = "RESOLVED"
    OBVIOUS
  <2>1. CASE PersistSummary
    <3>1. /\ DOMAIN summary' = DOMAIN summary \cup {shown}
          /\ summary'[shown].lifecycle = incidents[shown].lifecycle
          /\ i # shown => summary'[i] = summary[i]
      BY <2>1 DEF PersistSummary, With
    <3>2. i \in Resolved
      BY DEF ListedInv, ListFollows, Justified
    <3>3. i = shown => incidents[shown].lifecycle = "RESOLVED"
      BY <3>2 DEF Resolved, Unresolved
    <3> QED
      BY <3>1, <3>3
  <2>2. CASE summary' = summary
    BY <2>2
  <2>3. PersistSummary \/ summary' = summary
    BY DEF ProjectionNext, TimePasses, WorkerStep, ProcessBatch, PersistOverview, SavePackage,
       ReadWorkspace, PersistWorkspace, PersistEvidence, PersistState, Restart, CallFails, Crash,
       ApiStep, BeginReview, BeginAnalysis, ReviewWorkspace, RecordAnalysis, rowVars, allVars
  <2> QED
    BY <2>1, <2>2, <2>3
<1> QED
  BY <1>1, <1>2, ListedInit, ProjectingInvariant, PTL DEF ProjectionSpec, ResolvedStaysListed
=============================================================================
