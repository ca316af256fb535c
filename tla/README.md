# A TLA+ model of the payment-incident investigator

The repository is a demonstration system: a simulator produces synthetic payment traffic, an
ingestion worker turns it into metrics and incidents, an API serves them, and a Copilot writes
analyses of them. Six services run: frontend, API (FastAPI), simulator, ingestion worker,
PostgreSQL and Redis. This directory models the parts of it where the order of steps matters.
Paths below are relative to `src/`.

## 1. The system

| Component | Keeps | Operations | Talks to |
|---|---|---|---|
| Simulator (`simulator/`) | a state machine (STOPPED ... ERROR), remembered command results, its state in Redis | start, inject, recover, stop, reset; a traffic loop that ticks | Redis streams and flags |
| Stream transport (`backend/ingestion/redis_streams.py`) | two Redis streams with a consumer group, a set of processed ids | publish; claim, read, look up, dispatch, mark, acknowledge | pipeline (callback) |
| Ingestion loop (`backend/ingestion/app.py`) | the epoch it works in | commit a batch, reset for an epoch, reconcile the simulation row, retry | Redis, PostgreSQL |
| Pipeline (`backend/application/runtime_pipeline.py`) | processed ids, operational events, the engines below | process a batch, persist projections and a checkpoint | PostgreSQL, pub/sub |
| Aggregator (`backend/metrics/`) | event-time buckets | ingest, snapshot, export, import | - |
| Detector and lifecycle (`backend/anomaly_detection/`) | signal states, incidents | evaluate, apply, manual_close | - |
| Analysis, root cause, evidence (`backend/dimensional_analysis/`, `backend/root_cause/`, `backend/evidence/`) | result and package versions per incident, in memory | analyze, run, build | - |
| Store (`backend/persistence/runtime_store.py`) | resources, threads, messages, packages, commands | single-statement upserts, a few transactions, two resets | PostgreSQL |
| API service (`backend/application/investigator_service.py`) | one mutation lock, running Copilot tasks | simulation commands, reviews, feedback, Copilot requests | store, simulator (HTTP), broker |
| Copilot (`backend/copilot/`) | a circuit breaker | run, retry, validate, fall back | model provider |
| Live updates (`backend/application/live_updates.py`, `frontend/data/repositories/live-updates.ts`) | a queue per subscriber; the client's last sequence | publish, subscribe; detect gaps | WebSocket |

What is hard about it: at-least-once delivery with a crash between any two calls; memory that
changes before the store does; four processes that take part in a reset and share no lock;
decisions made on state read before an `await`; versions and locks that live in one process while
the rows they protect are shared. `PROJECT.json` lists these hazards one by one, at their lines.

What makes each part correct:

- ingestion: nothing is acknowledged that is not durable, nothing is counted twice, everything
  settles;
- lifecycle: an incident opens and resolves only on enough fresh evidence, one incident at a time,
  and the signal and its incident agree;
- reset: nothing of an old run is served after it, and the worker takes up the new run;
- projection: the rows of an incident agree with the stored packages and with each other, a client
  sees one open incident, a review stays;
- simulator control: what the row offers is what the machine accepts, and a prewarm and a recovery
  end;
- Copilot: a question has one answer, on the evidence it was asked on, and every run ends; the
  breaker keeps runs from a failing provider for its time and no longer;
- analysis: the segment blamed is one that fails, the leading cause is the best supported one, and
  later events only add to what is known;
- live updates: a browser is told to refetch every change it could have noticed, and shows it unless
  the refetch failed.

## 2. The modules

| Module | Models |
|---|---|
| `EventLedger` | the promise of ingestion: an event is published, committed, settled, in this order |
| `StreamIngestion` | `consume_once`, `process_batch`, `_persist_state`, the loop, crash and restart |
| `IncidentCases` | the promise of the lifecycle: one open incident at a time, final once closed |
| `IncidentLifecycle` | `IncidentLifecycleManager`, `projection_as_of` |
| `RuntimeReset` | RESET in simulator, API and worker, and the epoch fence |
| `IncidentProjection` | the rows of an incident: packages, summary, workspace, evidence, checkpoint; reviews and Copilot summaries; composes `IncidentLifecycle` |
| `SimulatorControl` | the five commands from the API to the machine, remembered results, ready flags, the traffic loop, the simulation row and the worker that writes it |
| `CopilotThread` | questions, initial reports, retries and tasks of an incident's Copilot thread |
| `CopilotOrchestrator` | one run of the Copilot: calls, retry, tools, repair, fallback, and the circuit breaker all runs share |
| `AffectedScope` | `DimensionalAnalyzer`: the segments of the traffic that fail, and the one to blame |
| `RootCause` | `RootCauseEngine`: candidates among the operational events, their evidence and the leader |
| `IncidentAnalysis` | an incident's analyses over time; composes `AffectedScope`, `RootCause`, the detector's global test and the remembered results |
| `LiveUpdates` | numbers, relay, bounded queue, connections, and the browser's refetches, GET by GET |
| `StreamIngestionProofs` | theorems about `StreamIngestion` |
| `IncidentProofs` | theorems about `IncidentLifecycle` and `IncidentProjection` |
| `CopilotOrchestratorProofs` | theorems about `CopilotOrchestrator` |
| `RuntimeResetProofs` | theorems about `RuntimeReset` |
| `SimulatorControlProofs` | theorems about `SimulatorControl` |
| `CopilotThreadProofs` | theorems about `CopilotThread` |
| `IncidentAnalysisProofs` | theorems about `IncidentAnalysis`, `AffectedScope` and `RootCause` |
| `LiveUpdatesProofs` | theorems about `LiveUpdates` |

Modules named `MC...` give the constants their values for TLC. Definitions whose comment says "Bug
for a mutant" are not part of a model: each is a changed form of the definition after it, and
`PROJECT.json` names the property that fails with it.

### StreamIngestion

State: the two streams as sequences of event ids, the group's cursor, the pending entries and
those idle long enough to be claimed, the Redis set of processed ids; the worker's place in
`consume_once` (`pc`), the entries it has read (`fetched`) and still has to process (`batch`); the
pipeline's memory (`mem`: processed ids, how often each payment is counted, operational events, the
newest event time); what PostgreSQL holds (`overview`, `checkpoint`). `committed` is a history
variable: every event some written checkpoint covered.

Actions are the awaited calls, because a crash or an exception can fall between any two of them:
`ReadBatch` (XAUTOCLAIM and XREADGROUP), `FilterEntry` (SISMEMBER, XACK for known ids),
`ProcessBatch` (the memory changes), `PersistProjections`, `PersistState`, `MarkProcessed` (SADD),
`AckEntry` (XACK). `CallFails` and `ProjectionFails` are the exceptions `run` catches, `Retry` and
`RetryFails` its handler, `Crash` and `Restart` the process.

An event is its id and its event time. A bucket is a division of the time. The two clients of one
group (an old consumer name and a new one) differ only in whose pending entries are claimed, so
`pel` is one set and `idle` says what may be claimed.

### IncidentLifecycle

State: the wall clock, `_states` and `_incidents` of the manager, and `fresh`, a history of the
buckets each signal saw for the first time. `Apply` is one call of `apply`, with one disjunct per
branch; what the evaluation says is open, because the detector's statistics are not modelled. An
evaluation is at `now`, or earlier (`EvaluatedAt`): that is what `projection_as_of` does when a
prewarm follows live traffic. `MaxRewinds` bounds it.

The live pipeline evaluates one scope, GLOBAL, and no service calls `manual_close`; both are in the
class and in the model, and the runs and properties say which instance they are about.

### RuntimeReset

State: the run (resets carried out), the traffic tick in progress, the published batches with the
run they were published in, the stream, the epoch in Redis and the worker's own, the API's and the
worker's place, and for the memory, the overview, the incidents and the checkpoint the set of
batches each was computed from. That set is what tells an old projection from a new one.

A batch is the unit: the entries inside it, and the steps of settling them, are in
`StreamIngestion`. `Evidence` batches are needed before an incident can open, as the baseline
and the detection take more than one batch. Batches are published by the traffic loop (`TickBegins`,
`TickPublishes`); `Start` is one step, although the handler of START, INJECT or RECOVER publishes
after an `await` too (`service.py:92-124`) and so may leave one more batch of the old run behind a
reset. With the default settings that batch alone does not open an incident, but `AtMostTwo` in
section 4 counts the batches of the loop and of the worker only.

### IncidentProjection

EXTENDS `IncidentLifecycle`: its variables are the worker's memory, and `ProcessBatch` takes one of
its `Apply` steps. Added are the worker's place in `process_payments`, the number of packages the
evidence builder has in memory (`built`), the rows of PostgreSQL (`overview`, `packages`, `summary`,
`workspace`, `evidence`, `checkpoint`) and two requests of the API in progress: a human review
(`update_human_review`) and a change of the Copilot's summary (`_update_copilot_summary`). Each
`await` of `_persist_incident` is an action; `SavePackage` is `ON CONFLICT DO NOTHING`; `Restart`
restores the lifecycle and not the builder, as `_restore_state` does.

The content of a package is the incident it was built for, as it was then. A failing store call
ends the batch, and its retry finds the payments known and does nothing (`StreamIngestion` has the
details). A review names the version it has seen and the API checks it under its lock; only the
worker and the Copilot's tasks run beside it. Reading two rows at the start of a review is one step.
What a client lists are the summaries: `ResolvedStaysListed` says that the worker never lists a
resolved incident as open again, although it writes summaries from a memory that goes on while calls
fail; a review that writes back the summary it has read does.

### SimulatorControl

State: the machine and its remembered results, the two flags in Redis, the status saved in Redis,
one `job` for each handler the simulator runs, the traffic loop's place; the stream of
batches; the simulation row and the stored commands in PostgreSQL; one `request` for each id, with
where its handler in the API is; the worker's place, the epoch and the worker's fence. A request that
is sent again gets a new handler (`Handlers`), and the earlier one may still be at work.

`Submit` and `Retry` are the operator, `LookUp` to `StoreCommand` the API's `simulation_command`,
`Handle` to `FailReset` the simulator's handler with its awaited calls, `Tick` to `LoopSaves` the
traffic loop, `Process` to `WriteBack` the worker. `TimesOut` is the HTTP client giving up while the
simulator goes on. `HandlerFails`, `ApiFails` and `LoopFails` are calls of Redis or PostgreSQL that
raise, nearly all after the machine has moved: the operator gets an error, what follows is not done,
and the id is remembered. `CompleteReset` and `FailReset` raise, too, when another handler of the
same request has taken the machine out of RESETTING. A batch is as much traffic as it takes to make
the baseline ready, to open an incident, or to resolve it.

`RepeatsLost` says whether an operator who got no answer, or an error after the command was followed,
repeats this request, and sends no other before the simulator is done with it. The front end does
neither: each click has a new id (`overview-page.tsx:44`). `NoDeadEnd` is therefore a statement about
a client that uses the API's request ids as they are meant, and not about the front end; the table
in section 3 shows what follows without it.

### CopilotThread

State: the package versions; the thread's messages and interactions; which version each interaction
is pinned to; the one handler under the API's lock, retries (which take no lock), and the tasks. The
transaction of `accept_copilot_request` is one action, other awaits are one action each. An
interaction of the initial report is its package version, that of a question its client. What a run
says is a choice: an answer, a fallback, or one that offers a retry. A run reports progress before
it calls the provider; it answers without any progress where the evidence is invalid, the breaker is
open, or a retried report is in the orchestrator's cache.

An exception (`TaskFails`) may come after the answer, or even after the result, was written: of a
report the workspace's summary follows. Its handler writes a fallback (`FallBack`), then the
interaction (`WriteFailure`), with the same store, and nothing handles an exception there
(`FallBackFails`): the task ends and the interaction stays as it is. `abandoned` is a history variable:
the interactions whose task ended that way, or with the process. `SerialRetries` lets a retry begin
when the runs and the retries before it have ended.

### CopilotOrchestrator

State: for each run its place, whether the call is a retry, the calls made and the calls the audit
will count; the breaker's failures and the time it opened; the cached report, which is its audit: the attempts
it reports and, a history, the calls of the run that made it. `failed_at`
is a history variable: when the failures since the last success happened. A report from the cache
makes no call, and comes with the audit of the run that made it (`orchestrator.py:106-107`). As the
key has the incident, the package and its version, and an initial report has one interaction for each
package version, it is only returned to a retry of that interaction, whose audit row is the same. Every call of the
provider ends in an answer, a temporary or a permanent failure; every validation ends in both ways.
The breaker is one object, so runs of different threads and incidents share it.

### AffectedScope, RootCause, IncidentAnalysis

`AffectedScope` and `RootCause` have no state: they are the two algorithms as operators over a
window (attempts and errors of each combination of region, method and version), a baseline, and the
operational events that have arrived. Rates are exact fractions, compared by cross multiplication;
the code compares floats. `IncidentAnalysis` runs them as the pipeline does: events arrive in any
order, windows are anomalous or recovered, an analysis is numbered by the incident's version, and a
root-cause result is remembered under the key the engine builds. The worker may restart, which
forgets the remembered results.

### LiveUpdates

State: the changes made, the sequence numbers of their announcements, the announcements numbered
and not yet queued (`publishers`), the worker's on their way (`inbox`), the relay; the browser's
socket, its queue and its last number; and for each resource what the browser shows and its GETs in
flight (`page`). `untold` is a history variable, the changes the browser was not told to refetch since;
`first` and `unheard` say what a browser cannot notice. A GET is answered with what the store holds
at some moment while it is in flight. It may fail (`GetFails`), which is caught and not repeated,
and its answer is shown whatever is shown already, so that an older GET may undo a newer one.

## 3. What is checked

| Run | Question | Bounds | States |
|---|---|---|---|
| `ingestion` | Are events settled, once, durably, through a crash and a failing call? | 3 payments, 1 operation, 1 copy, 1 crash, 1 failure | 199,000 |
| `ingestion_faults` | Does everything still settle when a store call raises half way? | same, 1 failing projection, 1 failing call | 236,000 |
| `lifecycle` | Does one signal open, resolve and cool down as the settings ask? | 13 buckets of 2 time units, detection 2, recovery 3, cooldown 5 | 139,000 |
| `lifecycle_scopes` | Do incidents list their scopes, with closures and evaluations back in time? | 2 scopes, 5 buckets, 1 closure, 1 rewind | 1,802,000 |
| `reset` | Does a fenced worker serve no old incident, and does a worker that is behind catch up? | 3 batches, 2 resets, 1 fault of three kinds | 865,000 |
| `projection` | Do the rows of two incidents agree with the packages, and does a resolved one stay listed as resolved? | 6 batches, 7 buckets; 1 failure, 1 review | 6,589,000 |
| `projection_faults` | Are the packages that rows name stored, and is what a restarted worker knows shown before? | 4 batches; 1 failure, crash, review, Copilot task | 434,000 |
| `simulator` | Is there always a way on for an operator who repeats what was lost, and do prewarm and recovery end? | 4 request ids one at a time, 1 repeat, 1 fault: a late answer, a failing call or a restart | 553,000 |
| `copilot` | Is every question answered once, on its evidence, and does everything settle? | 2 questions, 2 package versions, 2 requests, 2 retries one after the other, 2 faults | 685,000 |
| `orchestrator` | Does the breaker hold, are audits true, do runs end? | 3 runs, threshold 2, reset time 2, 4 time units | 204,000 |
| `analysis` | Is the failing segment blamed and the strongest cause named, whatever the order of events? | 4 combinations of traffic, 6 windows, 3 events, 4 versions, 1 restart | 25,000 |
| `live` | Does the browser show every change it could have noticed, unless its GET was lost? | 2 resources, 3 changes, queue of 2, 2 publishers, 1 disconnect, 2 GETs of a resource in flight, 1 failing insert or GET | 1,577,000 |

All runs finish without an error, each within three minutes on two cores. Every module with state
has a type invariant; all of them are proved, and so no run repeats them. That stored packages
never change (`PackagesAreImmutable`), and that nothing is counted twice or lost from a checkpoint
when projections fail, is proved as well.

Why the bounds are enough. Ingestion: the three payments are chosen so that one is pruned while
another of its age is not, and so that a late event is refused; `Count = 2` makes a batch smaller
than the backlog. Lifecycle: 26 time units are room for two complete incidents with their
cooldowns; a cooldown of 5 is longer than the two buckets a new incident needs, so that it matters.
Reset: an incident needs three batches, so a worker with two in memory meets the third before,
during or after a reset; with two faults of one behaviour TLC also finds no error, in four times the
states. Projection: an incident opens on the second batch and resolves on the fourth, so that six
batches show a second incident; the faults need one incident with two packages. Simulator: START,
INJECT, RECOVER and one more command are a whole demonstration or one that is reset or stopped on
the way; three requests with two repeats and two faults also pass. Copilot: two versions and two
questions give every order of new evidence, question, report and task, and two faults are a call that
fails and the handling of its failure. Orchestrator: two runs open a breaker of threshold 2, the third meets it, and four time
units are two reset times. Live: three changes overfill a queue of two while two publishers
overtake each other. Analysis: the traffic separates a narrow cause from a broad one, the versions
outlast a recovery, and the events contain a cause, a rival and a rollback.

Fairness. The worker's loop never ends by itself, so its steps are weakly fair; user commands,
traffic, crashes and failures are not. `EveryEventSettles` also needs that a pending entry
eventually is idle long enough (time passes) and that a crashed worker is started again: the
compose file has no restart policy, so this is an assumption about operations and not about the
code. In `RuntimeReset` a request that runs is carried through (`ApiStep`), unless it fails. In
`SimulatorControl` handlers, the traffic loop and the worker go on, as each is a coroutine whose
awaits return or raise; operators need not do anything, except that with `RepeatsLost` one who
begins a further command has repeated the lost one. In `CopilotThread` the
handler, each retry and each task go on by themselves. In `CopilotOrchestrator` every run's steps
are fair because calls of the provider have a timeout. In `LiveUpdates` the relay, each publisher
and the browser go on: the browser opens a closed socket again and handles what is queued, and no GET
is in flight for ever; nothing is assumed of changes.

### The boundary of what holds

Some properties hold only within the conditions they state or the bounds they are checked at. These
are the boundary of what the code does: TLC finds a counterexample beyond each of them. Where the
repository says otherwise, the line is quoted.

| Property | Holds for | Beyond it |
|---|---|---|
| `AckedIsCommitted` | `MaxProjectionFailures = 0` | a batch whose projection failed is in memory; its retry finds it known, projects nothing and is acknowledged without a checkpoint (`runtime_pipeline.py:141`). `redis_streams.py:135`: "Mark only after the complete projection batch succeeds." |
| `CountedAtMostOnce` | `MaxCopies = 1` | two copies of an event in one batch are both counted (`runtime_pipeline.py:141`) |
| `DetectionIsFresh`, `RecoveryIsFresh` | `MaxRewinds = 0` | a prewarm after live traffic evaluates at an earlier time, and one bucket counts twice (`ingestion/app.py:37`) |
| `SignalOwnsIncident`, `CooldownHolds`, `ImplementsCases` | `Scopes = {Global}`, `MaxManualCloses = 0`; the last two `MaxRewinds = 0` | `manual_close` of an incident that is already closed sets its scope's signal as if it were the present one, and so resolves an open signal or shortens a cooldown (`lifecycle.py:243`); a second scope has incidents of its own, and lets a resolved incident it has joined recover again; an evaluation at an earlier time opens an incident dated before the cooldown |
| `RecheckKeepsOldIncidentsOut` | `run <= 1`, no fault | the absent epoch of one reset passes for that of the next, if traffic starts before the first has ended (`ingestion/app.py:84`) |
| `FencedIsClean` | an epoch that is present, no crash | a worker that wrote over a reset and crashed before its second look restores the old incident and adopts the new epoch (`ingestion/app.py:73`). `implementation-decisions.md:60-62` (ID-007): an "in-flight pre-reset batch cannot restore an old active incident" |
| `ResetIsEmpty` | no tick and no batch under way | healthy payments of the old run enter the reset system (`simulator/api.py:39`) |
| `EvidenceMatchesPackage` | no crash | a restarted worker numbers packages from 1 again and shows content that is not that of the stored package (`builder.py:165`). `implementation-decisions.md:105-106` (ID-012): "every material upstream input change creates a new immutable integer package version" |
| `ReviewSurvives` | never, with a later batch | the worker reads the review from a resource that `save_human_review` does not write (`runtime_pipeline.py:362`); only the in-memory store of the tests does. `architecture.md:32`: "PostgreSQL is authoritative for API projections, reviews, feedback" |
| `CheckpointIsShown` | `failures = 0` | a resolution whose projections fail until the cooldown is over is never shown (`runtime_pipeline.py:157`) |
| `OneOpenIncident` | no crash, no failure | a crash between an incident's rows and the checkpoint leaves an incident open for ever beside the next one (`runtime_pipeline.py:160`) |
| `WorkspaceKeepsUp` | no Copilot task, no review | either writes back an old workspace over a newer one (`investigator_service.py:1142`) |
| `ResolvedStaysListed` | no crash, and writes of the worker only | a review that read the summary before the incident resolved writes it back, and the incident is listed as recovering until the next batch (`investigator_service.py:1001-1012`); a restarted worker may not know of the resolution |
| `NoDeadEnd` | `RepeatsLost`, `MaxOpen = 1`, no restart of the simulator | the front end sends a new request instead: after a lost START, or one whose publish or row failed, the row says STOPPED and the machine PREWARMING, and each refuses what the other offers. Two operators at once (START and RESET) end there too, and so does one who resets while an earlier START is still on its way to the simulator, or sends again a RESET that was refused. After a restart of the simulator in the middle of a reset the machine may even be RESETTING for good, if a repeated command has saved that state |
| `PrewarmEnds`, `RecoveryEnds` | the row shows the state before the worker looks | the worker may process the history, or the recovery, before the API writes the row: then nothing looks at the row again until the next batch, and a late write turns the row back |
| `OneRetry` | `SerialRetries` | two retries at once both find the interaction eligible (`investigator_service.py:636`, `:652`: "Manual retry already used") and the second may overwrite an answer |
| `ResultMatchesMessage` | `SerialRetries`, interactions that are not `abandoned` | overlapping retries write answer and result in any order. One retry is enough: a report offers it when its result is written, while its task still has the workspace's summary to update (`investigator_service.py:801`); if that fails, the exception handler's fallback and its result mix with those of the retry. Where the exception handler raises after its fallback, the answer is a fallback and the result may be VALIDATED |
| `EveryQuestionSettles` | no failure, no crash | a publish that raises, or a crash, between acceptance and task leaves the question QUEUED; nothing resumes it |
| `EveryRunSettles` | interactions that are not `abandoned` | a restart of the API leaves the interaction IN_PROGRESS, and so does a store that fails twice: the exception handler reads and writes it unguarded (`investigator_service.py:804`, `:816`, `:838`) |
| `AuditCountsCalls` | exact for answers, of the run that made them | a cached report repeats the audit of the earlier run, although the run that returns it makes no call (`orchestrator.py:106`); a fallback counts the calls of its last round only (`orchestrator.py:193-242`). `stage-checkpoints.md:373`: the service "records truthful audit metadata" |
| `RefusalsAreJustified` | as stated | the boundary of the reset time admits every waiting run, not one probe, and forgets the count (`orchestrator.py:56-63`) |
| `HealthyIsNotBlamed` | as stated | a failure of all traffic is reported as one segment, when no combination is narrower by the thresholds (`analyzer.py:222-241`); the settings' thresholds are 0.65 and 0.10 where `implementation-decisions.md:90-91` says 50 % and 5 % |
| `StaleOnlyWithinVersion` | across versions of an incident | a batch that leaves the version alone reuses the root-cause result of another window (`engine.py:119-126`), and after a restart the versions start again |
| `QuietIsFresh`, `ChangesAreShown` | changes that are not `Unnoticed` | the first message of a connection is compared with nothing (`live-updates.ts:67`); a change between the refetch and the subscription is missed until the next gap; the relay ends for good when an insert raises (`app.py:110`) |
| `QuietIsFresh`, `ChangesAreShown` | resources whose newest GET is not `lost` | a GET that fails is caught and not repeated (`overview-page.tsx:72`, `incident-workspace.tsx:161`, `incidents-page.tsx:36`), and one that is overtaken by an older GET is undone: the browser shows the old state until the next announcement. The overview page also polls, in three states of the simulation (`overview-page.tsx:76-80`), which is not modelled |
| `QuietIsFresh` | `MaxPublishers <= QueueSize` | more announcements than the queue holds, queued in descending order, are lost without a gap |

`ResetIsEmpty`, `OldIncidentsAreGone`, `ReviewSurvives`, `OneOpenIncident`, `WorkspaceKeepsUp` and
`OneRetry` are defined for this table; no run lists them. Two consequences were seen and are not
stated: the evaluations at RESOLVED analyse the recovered window, so the scope and the leading cause
of an incident vanish when it is resolved; and the history a Copilot run is given are the first
messages of a long thread and not the last (`investigator_service.py:898-901`).

## 4. What is proved

The theorems hold for every value of the constants that satisfies the named assumptions: any set
of events, any event times and windows, any number of crashes, any settings. Every module with
state has its type invariant proved (`TypeCorrect`, `Typing`, `ProjectionTypeCorrect`,
`AnalysisTypeCorrect`). Every invariant and action property that a run checks but `NoDeadEnd`, and
both refinements of the abstract specifications, are proved too. Where a theorem has a hypothesis on a
bound, such as `MaxCrashes = 0`, the property is false without it, and section 3 says how, unless
the text below gives another reason.

`StreamIngestionProofs`

- `AcknowledgesCommitted` and `LedgerImplemented`, for `MaxProjectionFailures = 0`. The invariant is
  `SettledIsDurable`: between batches the memory knows committed events only; while a batch is
  projected, what it adds is in `mem.processed`; `settle` is reached only when the checkpoint covers
  the batch.
- `CheckpointsRetain`: the memory of a live worker counts whatever the checkpoint counts
  (`MemoryCoversCheckpoint`), and pruning only drops what left the retention.
- `CountsOnce`, for `MaxCopies = 1`: a counted payment is remembered, or so old that it would be
  refused (`CountedIsRemembered`). This is where `AllowedLateness <= Retention` is needed.
- `ProjectionsComeFirst`, for `MaxProjectionFailures = 0`, from `OverviewCoversMemory`.

`IncidentProofs`, about `IncidentLifecycle`

- `OpensOnFreshBuckets` and `ResolvesOnFreshBuckets`, for `MaxRewinds = 0`, any scopes and any number
  of manual closures. The invariant is `FreshCounts`: the counters never exceed the number of fresh
  buckets in the history, the history is in order, and an open signal has an incident.
- `IncidentsListTheirScopes`, without hypotheses. `ScopesAreListed` is not inductive: an incident that
  is opened again under an old name must list the scope it is named after (`OwnScopeListed`).
- `SignalKeepsItsIncident`, `NothingOpensInCooldown` and `LifecycleImplementsCases`, for the instance
  the pipeline runs (`Scopes = {Global}`, `MaxManualCloses = 0`), the last two for `MaxRewinds = 0`.
  The invariant `OnePipeline` has four parts: `FreshCounts`; the signal owns the unresolved incident
  (`OneOwner`); an incident is named after a bucket that was evaluated, so that no new incident takes
  the name of an old one (`NamedAfterEvidence`); and the signal starts again only when every resolved
  incident has had its cooldown (`CooldownKept`).

`IncidentProofs`, about `IncidentProjection`

- `PackagesNeverChange`: directly from the actions, as only `SavePackage` writes packages.
- `NamesStoredPackages`. `NamedPackagesExist` is not inductive: the worker and the API write rows they
  read or built earlier. `NamesAreStored` adds that what they hold names a stored package too.
- `EvidenceIsThePackage`, for `MaxCrashes = 0`: `built` bounds every stored version (`VersionsBuilt`),
  so the version about to be stored is new (`VersionIsNew`), and a version that was built and not
  stored is skipped.
- `CheckpointComesLast`: `CheckpointIsShown` for any number of crashes, reviews and Copilot tasks; the
  property itself says `failures = 0`. The invariant `NothingUnshown` says that the memory is never
  behind the checkpoint (`MemoryAhead`), and that all of a live worker's memory is shown but the
  incident of the batch in hand (`MemoryShown`).
- `ListedCasesStayClosed`: `ResolvedStaysListed`, on the instance above, for any number of failing
  calls, reviews, Copilot tasks and crashes (after a crash the property says nothing). The invariant
  `ListedInv` says that before the first crash `OnePipeline` holds, and whatever is listed as resolved,
  or was read as such by a review, is resolved in the memory (`ListFollows`). What is resolved in the
  memory stays so by `OnePipeline`, and the worker writes what is in the memory.

`RuntimeResetProofs`

- `TypeCorrect`: an epoch is spent by a reset or by a restarted worker, so that the epochs suffice
  (`Spent`).
- `FencedStaysClean`, for any number of batches, resets, failing calls of the worker and failing
  resets, and `RecheckHolds`. The heart of the invariant `FenceInv` is `AtMostTwo`: only two old
  batches reach a pipeline that was made after a reset, the one of a tick that was publishing when it
  came and the one the worker had in hand. Both theorems therefore rest on `EvidenceAssumption`, that
  an incident needs more than two batches. The other parts say that epochs are never used again
  (`Epochal`), that what is stored or remembered after a reset has a fresh batch (`CleanRows`), and
  where the worker is that has not noticed the first reset (`Behind`).

`SimulatorControlProofs`

- `TypeCorrect`, for any number of requests at the same time, and any repeats that overlap. `Typed`
  adds what keeps the types: a request's action stays, its remembered result is the action's target,
  and every answer is a state that the row can show (`Answers`).
- `ResettingIsServed`: RESETTING is the state in which the machine refuses every new command, and no
  loop leaves it. Unless the simulator restarted, some handler is then about to delete the demo's keys
  or to complete the reset: its last step, a failing one too, leaves RESETTING. It holds for any number
  of operators who repeat or do not, so for the front end as well. The invariant it needs is that a
  request sent again does not get a handler that is at work (`NewHandlers`).

`CopilotThreadProofs`, for any number of clients, versions, retries and faults

- `AnsweredOnItsPackage`, from `Core`: a client's request is stored whole and a report's in two steps
  (`StoreAgrees`), every message names the package that its request is pinned to (`ThreadAgrees`), what
  the holder of the lock has done before each of its steps (`HandlerKnows`), and only what is pinned is
  run (`RunsArePinned`).
- `AnsweredOnce`: `OneAnswerEach` is inductive on `Core`. `Core` is needed where a question is
  appended: its holder of the lock knows that it is not on the thread.
- `ChangesAreAnnounced`: with `EvidenceInOrder`, that the lock keeps questions in the order of their
  evidence, although the package may change while a handler waits.
- `ResultsAgree`: the property assumes `SerialRetries`. An interaction then has one task
  (`OneTaskEach`), and the thread has the result first, or the exception handler's fallback
  (`ResultFollows`), unless the interaction is abandoned.

`CopilotOrchestratorProofs`

- `Typing`: no run makes more than five calls.
- `AuditIsTruthful`: `AuditCountsCalls`, for any number of overlapping runs. The invariant ties what is
  counted so far to the calls made at every place of a run, and the cached audit to the calls of the
  run that made it.
- `BreakerIsHeld` and `RefusalsHaveReasons`, for any number of runs and any threshold and reset time.
  The breaker keeps a counter and a time, the property speaks of the history of failures: while the
  breaker is closed, every failure it no longer counts is older than the reset time; while it is open,
  it opened at the last failure and the threshold of failures was reached.

`IncidentAnalysisProofs`, for any traffic, changes, thresholds and sizes of the shortlist

- `OnlyTheFailingAreBlamed`: the segment shown is one that `AffectedScope` finds in the window shown
  (`Scoped`). A segment with a value that the failing combination lacks has no errors, hence a rate of
  zero, and is no candidate.
- `EvidenceNeverWeakens`: a lemma about `RootCause`. More known changes and a confirmed recovery only
  add kinds of support, support only raises a candidate's tier, and a candidate that is pushed off
  the shortlist is pushed off by one of its tier or above.
- `TheStrongestLeads`: what is remembered was made by ranking the changes it names (`Ranks`, `MadeOf`),
  and the order of the candidates puts the tier first.
- `KeptOnlyWithinVersion`: a result is made under the present version and state of recovery, or
  made again.

`LiveUpdatesProofs`, for any number of changes, disconnects, failing inserts and GETs, and any queue

- `PassedAreRefetched`, from `Shape`: a number is given once, what is queued is numbered and was
  queued once.
- `QuietBrowserIsFresh`: whatever a subscribed browser was not told it cannot notice, or an
  announcement with that number or a higher one is still coming (`Following`). When a full queue drops
  its first announcement, one with a higher number stays behind it: fewer than `MaxPublishers`
  announcements can have overtaken any queued one (`FewOvertake`), and the queue holds as many
  (`QueueAssumption`). What it was told is shown, waited for or lost: the newest GET of a resource was
  sent after the changes it was to fetch (`Refetched`).

Only model-checked are `NoDeadEnd`, which needs an operator's discipline that no client of the
repository has, and the liveness properties `EveryEventSettles`, `FenceCatchesUp`, `PrewarmEnds`,
`RecoveryEnds`, `EveryRunSettles`, `EveryQuestionSettles`, `RunsEnd` and `ChangesAreShown`: these need
fairness, and with it ENABLED, which the prover does not support.

## 5. What is left out, and the plan

Not modelled: the detector's floating-point statistics (their outcome is a choice), percentiles and
metric history, rendering, generated contracts, prompts and provider adapters, the cost budget, the
offline evaluation, constant projections, cursor paging, scripts. Redis and PostgreSQL are taken as
linearizable single calls; the reset's scan-and-delete is one step. A reset's restart of the
sequence numbers (`RESTART IDENTITY`) is not in `LiveUpdates`. In `CopilotThread` the outcome and
its message are one step. In `RuntimeReset` the publish of a command's handler is not a step of its
own (section 2).

Next, in this order:

1. The windows of the aggregator against a reference definition, with late events and a restart.
2. With several scopes, which part of `SignalOwnsIncident` an incident keeps that more than one
   scope has joined.
