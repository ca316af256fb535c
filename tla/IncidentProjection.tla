------------------------- MODULE IncidentProjection -------------------------
(***************************************************************************)
(* What becomes of an incident after the lifecycle manager: for each batch *)
(* the pipeline builds an evidence package and writes, one row after the   *)
(* other, the overview, the package, the incident's summary, its workspace *)
(* and its evidence, and at last the checkpoint.  The API reads the same   *)
(* rows, changes them in memory and writes them back: to record a human    *)
(* review, and to record how the Copilot's analysis is getting on.         *)
(*                                                                         *)
(* This module composes IncidentLifecycle, whose variables are the         *)
(* worker's memory here, with the rows of PostgreSQL.  Each batch is       *)
(* evaluated at the wall clock, for the scope GLOBAL.                      *)
(*                                                                         *)
(* A package's content is the incident it was built for, as it was then;   *)
(* analysis and root cause are functions of the windows and not modelled.  *)
(* The table human_reviews is only written, never read, and left out.      *)
(***************************************************************************)
EXTENDS IncidentLifecycle

CONSTANTS
  MaxBatches,   \* Bound: batches processed.
  MaxFailures,  \* Bound: store calls of the worker that raise.
  MaxCrashes,   \* Bound: worker crashes.
  MaxReviews,   \* Bound: human reviews.
  MaxAnalyses   \* Bound: changes of the Copilot's summary.

ASSUME ProjectionBoundAssumption ==
  /\ MaxBatches \in Nat
  /\ MaxFailures \in Nat
  /\ MaxCrashes \in Nat
  /\ MaxReviews \in Nat
  /\ MaxAnalyses \in Nat

VARIABLES
  pc,          \* Where the worker is in process_payments.
  shown,       \* The incident the batch's transition returned.
  built,       \* EvidenceBuilder._packages: packages built for each incident.
  kept,        \* The Copilot summary read before the workspace is rebuilt.
  overview,    \* active_incidents of the overview.
  packages,    \* evidence_packages, by incident and package version.
  summary,     \* The incident_summary resources.
  workspace,   \* The incident resources.
  evidence,    \* The evidence resources.
  checkpoint,  \* The lifecycle part of pipeline_state.
  review,      \* A review in progress: the rows it read.
  analysis,    \* A change of the Copilot's summary in progress.
  batches, failures, crashes, reviews, analyses

memoryVars == <<signals, incidents, fresh>>
clockVars == <<now, rewinds, manualCloses>>
workerVars == <<pc, shown, built, kept>>
rowVars == <<overview, packages, summary, workspace, evidence, checkpoint>>
apiVars == <<review, analysis>>
countVars == <<batches, failures, crashes, reviews, analyses>>
allVars == <<memoryVars, clockVars, workerVars, rowVars, apiVars, countVars>>

(* The function f with the value v at i. *)
With(f, i, v) == [k \in DOMAIN f \cup {i} |-> IF k = i THEN v ELSE f[k]]

None == [pc |-> "idle"]

Shown(i) == [lifecycle |-> incidents[i].lifecycle, version |-> incidents[i].version]

(* Version 1 is the review that nobody has written. *)
Unreviewed == 1

Count(i) == IF i \in DOMAIN built THEN built[i] ELSE 0

ProjectionInit ==
  /\ Init
  /\ pc = "idle"
  /\ shown = NoIncident
  /\ built = [i \in {} |-> 0]
  /\ kept = FALSE
  /\ overview = {}
  /\ packages = [k \in {} |-> 0]
  /\ summary = [i \in {} |-> 0]
  /\ workspace = [i \in {} |-> 0]
  /\ evidence = [i \in {} |-> 0]
  /\ checkpoint = [signals |-> signals, incidents |-> incidents, fresh |-> fresh]
  /\ review = None
  /\ analysis = None
  /\ batches = 0
  /\ failures = 0
  /\ crashes = 0
  /\ reviews = 0
  /\ analyses = 0

-----------------------------------------------------------------------------
(* The worker. *)

TimePasses ==
  /\ Tick
  /\ UNCHANGED <<workerVars, rowVars, apiVars, countVars>>

(* Bug for a mutant: the state is checkpointed before the projections. *)
ProcessAndCheckpoint ==
  /\ pc = "idle"
  /\ batches < MaxBatches
  /\ batches' = batches + 1
  /\ Apply(Global, now)
  /\ shown' = signals'[Global].incident
  /\ checkpoint' = [signals |-> signals', incidents |-> incidents', fresh |-> fresh']
  /\ pc' = "overview"
  /\ UNCHANGED <<now, manualCloses, built, kept, overview, packages, summary, workspace, evidence,
                 apiVars, failures, crashes, reviews, analyses>>

(* The batch is evaluated, and changes the memory before anything is       *)
(* written.  A second batch of the same bucket changes nothing, but its    *)
(* incident is written again.                                              *)
ProcessBatch ==
  /\ pc = "idle"
  /\ batches < MaxBatches
  /\ batches' = batches + 1
  /\ \/ Apply(Global, now)
     \/ /\ ~FreshEvidence(Global, now)
        /\ UNCHANGED <<signals, incidents, fresh, rewinds>>
  /\ shown' = signals'[Global].incident
  /\ pc' = "overview"
  /\ UNCHANGED <<now, manualCloses, built, kept, rowVars, apiVars, failures, crashes, reviews,
                 analyses>>

(* Bug for a mutant: every package of an incident is its first version. *)
OverviewBuildsOnce ==
  /\ pc = "overview"
  /\ overview' = {i \in DOMAIN summary : summary[i].lifecycle # "RESOLVED"}
  /\ IF shown = NoIncident
     THEN pc' = "checkpoint" /\ UNCHANGED built
     ELSE pc' = "package" /\ built' = With(built, shown, 1)
  /\ UNCHANGED <<memoryVars, clockVars, shown, kept, packages, summary, workspace, evidence,
                 checkpoint, apiVars, countVars>>

(* The overview lists the summaries there are by now; then the package of  *)
(* the incident is built in memory.                                        *)
PersistOverview ==
  /\ pc = "overview"
  /\ overview' = {i \in DOMAIN summary : summary[i].lifecycle # "RESOLVED"}
  /\ IF shown = NoIncident
     THEN pc' = "checkpoint" /\ UNCHANGED built
     ELSE pc' = "package" /\ built' = With(built, shown, Count(shown) + 1)
  /\ UNCHANGED <<memoryVars, clockVars, shown, kept, packages, summary, workspace, evidence,
                 checkpoint, apiVars, countVars>>

(* Bug for a mutant: one package is stored for each incident. *)
SaveFirstPackage ==
  /\ pc = "package"
  /\ packages' = IF \E k \in DOMAIN packages : k[1] = shown THEN packages
                 ELSE With(packages, <<shown, built[shown]>>, Shown(shown))
  /\ pc' = "read"
  /\ UNCHANGED <<memoryVars, clockVars, shown, built, kept, overview, summary, workspace,
                 evidence, checkpoint, apiVars, countVars>>

(* save_evidence_package: ON CONFLICT DO NOTHING. *)
SavePackage ==
  /\ pc = "package"
  /\ packages' = IF <<shown, built[shown]>> \in DOMAIN packages THEN packages
                 ELSE With(packages, <<shown, built[shown]>>, Shown(shown))
  /\ pc' = "read"
  /\ UNCHANGED <<memoryVars, clockVars, shown, built, kept, overview, summary, workspace,
                 evidence, checkpoint, apiVars, countVars>>

(* The workspace is read for its Copilot summary.  The resource            *)
(* human_review is read as well, but no service writes it.                 *)
ReadWorkspace ==
  /\ pc = "read"
  /\ kept' = (shown \in DOMAIN workspace /\ workspace[shown].analysed)
  /\ pc' = "summary"
  /\ UNCHANGED <<memoryVars, clockVars, shown, built, rowVars, apiVars, countVars>>

PersistSummary ==
  /\ pc = "summary"
  /\ summary' = With(summary, shown,
       [lifecycle |-> incidents[shown].lifecycle, version |-> incidents[shown].version,
        review |-> Unreviewed])
  /\ pc' = "workspace"
  /\ UNCHANGED <<memoryVars, clockVars, shown, built, kept, overview, packages, workspace,
                 evidence, checkpoint, apiVars, countVars>>

PersistWorkspace ==
  /\ pc = "workspace"
  /\ workspace' = With(workspace, shown,
       [lifecycle |-> incidents[shown].lifecycle, version |-> incidents[shown].version,
        package |-> built[shown], review |-> Unreviewed, analysed |-> kept])
  /\ pc' = "evidence"
  /\ UNCHANGED <<memoryVars, clockVars, shown, built, kept, overview, packages, summary,
                 evidence, checkpoint, apiVars, countVars>>

PersistEvidence ==
  /\ pc = "evidence"
  /\ evidence' = With(evidence, shown, [package |-> built[shown], content |-> Shown(shown)])
  /\ pc' = "checkpoint"
  /\ UNCHANGED <<memoryVars, clockVars, shown, built, kept, overview, packages, summary,
                 workspace, checkpoint, apiVars, countVars>>

PersistState ==
  /\ pc = "checkpoint"
  /\ checkpoint' = [signals |-> signals, incidents |-> incidents, fresh |-> fresh]
  /\ pc' = "idle"
  /\ UNCHANGED <<memoryVars, clockVars, shown, built, kept, overview, packages, summary,
                 workspace, evidence, apiVars, countVars>>

(* A store call raises.  The retried batch is filtered out as known, so    *)
(* the next one to do anything is another batch.                           *)
CallFails ==
  /\ pc \notin {"idle", "down"}
  /\ failures < MaxFailures
  /\ failures' = failures + 1
  /\ pc' = "idle"
  /\ UNCHANGED <<memoryVars, clockVars, shown, built, kept, rowVars, apiVars, batches, crashes,
                 reviews, analyses>>

Crash ==
  /\ pc # "down"
  /\ crashes < MaxCrashes
  /\ crashes' = crashes + 1
  /\ pc' = "down"
  /\ UNCHANGED <<memoryVars, clockVars, shown, built, kept, rowVars, apiVars, batches, failures,
                 reviews, analyses>>

(* The checkpoint has the lifecycle's state but not the builder's. *)
Restart ==
  /\ pc = "down"
  /\ signals' = checkpoint.signals
  /\ incidents' = checkpoint.incidents
  /\ fresh' = checkpoint.fresh
  /\ built' = [i \in {} |-> 0]
  /\ pc' = "idle"
  /\ UNCHANGED <<clockVars, shown, kept, rowVars, apiVars, countVars>>

-----------------------------------------------------------------------------
(* The API. *)

(* update_human_review, under the mutation lock: the caller names the      *)
(* version it has seen, and it is the current one.  The two rows are read  *)
(* in one step.                                                            *)
BeginReview(i) ==
  /\ review = None
  /\ reviews < MaxReviews
  /\ i \in DOMAIN workspace
  /\ reviews' = reviews + 1
  /\ review' = [pc |-> "incident", incident |-> i, workspace |-> workspace[i],
                summary |-> summary[i]]
  /\ UNCHANGED <<memoryVars, clockVars, workerVars, rowVars, analysis, batches, failures,
                 crashes, analyses>>

ReviewWorkspace ==
  /\ review.pc = "incident"
  /\ workspace' = [workspace EXCEPT ![review.incident] =
       [review.workspace EXCEPT !.review = @ + 1]]
  /\ review' = [review EXCEPT !.pc = "summary"]
  /\ UNCHANGED <<memoryVars, clockVars, workerVars, overview, packages, summary, evidence,
                 checkpoint, analysis, countVars>>

ReviewSummary ==
  /\ review.pc = "summary"
  /\ summary' = [summary EXCEPT ![review.incident] =
       [review.summary EXCEPT !.review = review.workspace.review + 1]]
  /\ review' = None
  /\ UNCHANGED <<memoryVars, clockVars, workerVars, overview, packages, workspace, evidence,
                 checkpoint, analysis, countVars>>

(* _update_copilot_summary, called by a Copilot task without the lock. *)
BeginAnalysis(i) ==
  /\ analysis = None
  /\ analyses < MaxAnalyses
  /\ i \in DOMAIN workspace
  /\ analyses' = analyses + 1
  /\ analysis' = [pc |-> "incident", incident |-> i, workspace |-> workspace[i]]
  /\ UNCHANGED <<memoryVars, clockVars, workerVars, rowVars, review, batches, failures, crashes,
                 reviews>>

RecordAnalysis ==
  /\ analysis.pc = "incident"
  /\ workspace' = [workspace EXCEPT ![analysis.incident] =
       [analysis.workspace EXCEPT !.analysed = TRUE]]
  /\ analysis' = None
  /\ UNCHANGED <<memoryVars, clockVars, workerVars, overview, packages, summary, evidence,
                 checkpoint, review, countVars>>

WorkerStep ==
  \/ ProcessBatch
  \/ PersistOverview
  \/ SavePackage
  \/ ReadWorkspace
  \/ PersistSummary
  \/ PersistWorkspace
  \/ PersistEvidence
  \/ PersistState
  \/ Restart

ApiStep ==
  \/ \E i \in DOMAIN workspace : BeginReview(i) \/ BeginAnalysis(i)
  \/ ReviewWorkspace
  \/ ReviewSummary
  \/ RecordAnalysis

ProjectionNext ==
  \/ TimePasses
  \/ WorkerStep
  \/ CallFails
  \/ Crash
  \/ ApiStep

ProjectionSpec == ProjectionInit /\ [][ProjectionNext]_allVars

-----------------------------------------------------------------------------
Row == [lifecycle : {"OPEN", "RECOVERY_CANDIDATE", "RESOLVED"}, version : Nat]

(* Every variable has its type, and every row is about an incident that    *)
(* has a summary (runtime_pipeline.py:498-512).                            *)
ProjectionTypeOK ==
  /\ TypeOK
  /\ pc \in {"idle", "overview", "package", "read", "summary", "workspace", "evidence",
             "checkpoint", "down"}
  /\ shown \in Ids \cup {NoIncident}
  /\ DOMAIN built \subseteq Ids
  /\ kept \in BOOLEAN
  /\ overview \subseteq DOMAIN summary
  /\ \A k \in DOMAIN packages : packages[k] \in Row
  /\ \A i \in DOMAIN workspace : workspace[i].package \in Nat \ {0}
  /\ DOMAIN evidence \subseteq DOMAIN workspace
  /\ DOMAIN workspace \subseteq DOMAIN summary
  /\ DOMAIN summary \subseteq Ids
  /\ review.pc \in {"idle", "incident", "summary"}
  /\ analysis.pc \in {"idle", "incident"}

(* An evidence package, once stored, never changes: answers and citations  *)
(* are pinned to its id and version (runtime_store.py:906-926).            *)
PackagesAreImmutable ==
  [][\A k \in DOMAIN packages : k \in DOMAIN packages' /\ packages'[k] = packages[k]]_allVars

(* The package that a workspace or an evidence row names is stored, so     *)
(* that a Copilot request can be pinned to it                              *)
(* (runtime_pipeline.py:357, investigator_service.py:273-277).             *)
NamedPackagesExist ==
  /\ \A i \in DOMAIN workspace : <<i, workspace[i].package>> \in DOMAIN packages
  /\ \A i \in DOMAIN evidence : <<i, evidence[i].package>> \in DOMAIN packages

(* The evidence shown for an incident is that of the stored package whose  *)
(* version it names.                                                       *)
EvidenceMatchesPackage ==
  \A i \in DOMAIN evidence : packages[<<i, evidence[i].package>>] = evidence[i].content

(* Whatever a restarted worker knows of an incident was shown before: the  *)
(* checkpoint is written last (runtime_pipeline.py:160-163).  The API may  *)
(* take back a summary or a workspace, but not the evidence.  A change of  *)
(* the incident whose projection failed may never be shown: the next batch *)
(* to be written may follow the cooldown, and be about no incident.        *)
CheckpointIsShown ==
  failures = 0 =>
    \A i \in DOMAIN checkpoint.incidents :
      /\ i \in DOMAIN summary \cap DOMAIN workspace \cap DOMAIN evidence
      /\ evidence[i].content.version >= checkpoint.incidents[i].version

ShownOpen == {i \in DOMAIN summary : summary[i].lifecycle # "RESOLVED"}

(* While the worker does not crash, an incident once listed as resolved    *)
(* stays listed as resolved, whatever calls fail: only a human review that *)
(* read the summary before can take it back, when it writes its copy       *)
(* (investigator_service.py:1001-1012).                                    *)
ResolvedStaysListed ==
  [][\A i \in DOMAIN summary :
       /\ crashes = 0
       /\ summary[i].lifecycle = "RESOLVED"
       /\ ~ReviewSummary
       => i \in DOMAIN summary' /\ summary'[i].lifecycle = "RESOLVED"]_allVars

(* At most one incident is listed as unresolved. *)
OneOpenIncident == \A i, k \in ShownOpen : i = k

(* A review that was saved is not taken back by anyone. *)
ReviewSurvives ==
  [][\A i \in DOMAIN workspace : workspace'[i].review >= workspace[i].review]_allVars

(* Nobody overwrites the incident in a workspace with an older one. *)
WorkspaceKeepsUp ==
  [][\A i \in DOMAIN workspace : workspace'[i].version >= workspace[i].version]_allVars
=============================================================================
