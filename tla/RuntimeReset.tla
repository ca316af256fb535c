---------------------------- MODULE RuntimeReset ----------------------------
(***************************************************************************)
(* A confirmed reset and the epoch that fences the ingestion worker.       *)
(*                                                                         *)
(* The API has the simulator stop and delete every Redis key of the demo   *)
(* (streams, pending entries and the runtime epoch among them), deletes    *)
(* the runtime rows of PostgreSQL, and then sets a new runtime epoch.  The *)
(* worker compares the epoch with its own before it processes a batch, and *)
(* again after it: on a difference it clears the projections it owns and   *)
(* starts with an empty pipeline.                                          *)
(*                                                                         *)
(* The unit here is a batch: what one consume_once reads.  A projection is *)
(* the set of batches it was computed from, and an incident that of the    *)
(* batches that opened it.  The dedupe set and the steps of reading and    *)
(* acknowledging a batch are in StreamIngestion; the simulation row and    *)
(* the simulator's states in SimulatorControl.                             *)
(***************************************************************************)
EXTENDS Integers, FiniteSets

CONSTANTS
  NoEpoch,         \* The epoch key does not exist.
  NoTick,          \* No tick of the traffic loop is publishing.
  NoBatch,         \* The worker has no batch in hand.
  Evidence,        \* Batches from an empty pipeline to an open incident: the
                   \* baseline takes more than one batch, detection one more.
  MaxBatches,      \* Bound: batches published.
  MaxResets,       \* Bound: resets the simulator carries out.
  MaxFaults        \* Bound: resets that fail after the simulator's part, awaited
                   \* calls of the worker that raise, and worker crashes.

Batches == 1..MaxBatches

Runs == 0..MaxResets

(* Epochs are random and never repeat: one for the first worker, one for   *)
(* each reset, and one for each worker that finds none.                    *)
Epochs == 0..(MaxResets + MaxFaults)

ASSUME SentinelAssumption ==
  /\ NoEpoch \notin Epochs
  /\ NoTick \notin Runs
  /\ NoBatch \notin Batches

ASSUME EvidenceAssumption == Evidence \in Nat /\ Evidence > 2

ASSUME BoundAssumption ==
  /\ MaxBatches \in Nat
  /\ MaxResets \in Nat
  /\ MaxFaults \in Nat

VARIABLES
  run,         \* Resets the simulator has carried out.
  running,     \* The simulator produces traffic.
  tick,        \* The run of the tick that is publishing.
  born,        \* The run of each published batch.
  unread,      \* Published batches, not delivered.
  pending,     \* Delivered and not acknowledged.
  epoch,       \* The runtime epoch in Redis.
  lastEpoch,   \* The newest epoch that was generated.
  apiPc,       \* Where the API is in a reset.
  wpc,         \* Where the worker is.
  batch,       \* The batch in hand.
  fence,       \* IngestionWorker._epoch.
  seen,        \* The epoch read for this batch.
  mem,         \* The pipeline's memory: its batches and its incident.
  overview,    \* The overview and the history in PostgreSQL.
  incidents,   \* The incidents in PostgreSQL.
  checkpoint,  \* The pipeline_state resource in PostgreSQL.
  apiFailures, failures, crashes

trafficVars == <<running, tick, born>>
queueVars == <<unread, pending>>
epochVars == <<epoch, lastEpoch>>
workerVars == <<wpc, batch, fence, seen, mem>>
rowVars == <<overview, incidents, checkpoint>>
faultVars == <<apiFailures, failures, crashes>>
vars == <<run, trafficVars, queueVars, epochVars, apiPc, workerVars, rowVars, faultVars>>

Faults == apiFailures + failures + crashes

EmptyPipeline == [batches |-> {}, incident |-> {}]

Init ==
  /\ run = 0
  /\ running = FALSE
  /\ tick = NoTick
  /\ born = [n \in {} |-> 0]
  /\ unread = {}
  /\ pending = {}
  /\ epoch = 0
  /\ lastEpoch = 0
  /\ apiPc = "idle"
  /\ wpc = "idle"
  /\ batch = NoBatch
  /\ fence = 0
  /\ seen = 0
  /\ mem = EmptyPipeline
  /\ overview = {}
  /\ incidents = {}
  /\ checkpoint = EmptyPipeline
  /\ apiFailures = 0
  /\ failures = 0
  /\ crashes = 0

-----------------------------------------------------------------------------
(* The simulator. *)

Start ==
  /\ ~running
  /\ running' = TRUE
  /\ UNCHANGED <<run, tick, born, queueVars, epochVars, apiPc, workerVars, rowVars, faultVars>>

(* _traffic_loop looks at the state, and publishes after that. *)
TickBegins ==
  /\ running
  /\ tick = NoTick
  /\ tick' = run
  /\ UNCHANGED <<run, running, born, queueVars, epochVars, apiPc, workerVars, rowVars, faultVars>>

TickPublishes ==
  LET n == Cardinality(DOMAIN born) + 1
  IN /\ tick # NoTick
     /\ n <= MaxBatches
     /\ tick' = NoTick
     /\ born' = [k \in DOMAIN born \cup {n} |-> IF k = n THEN tick ELSE born[k]]
     /\ unread' = unread \cup {n}
     /\ UNCHANGED <<run, running, pending, epochVars, apiPc, workerVars, rowVars, faultVars>>

-----------------------------------------------------------------------------
(* The API: simulation_command for RESET. *)

(* The simulator stops and deletes amex:synthetic:* in Redis. *)
SimulatorReset ==
  /\ apiPc = "idle"
  /\ run < MaxResets
  /\ run' = run + 1
  /\ running' = FALSE
  /\ unread' = {}
  /\ pending' = {}
  /\ epoch' = NoEpoch
  /\ apiPc' = "rows"
  /\ UNCHANGED <<tick, born, lastEpoch, workerVars, rowVars, faultVars>>

(* reset_synthetic_data, then initialize seeds the clean overview. *)
ResetRows ==
  /\ apiPc = "rows"
  /\ overview' = {}
  /\ incidents' = {}
  /\ checkpoint' = EmptyPipeline
  /\ apiPc' = "epoch"
  /\ UNCHANGED <<run, trafficVars, queueVars, epochVars, workerVars, faultVars>>

(* reset_runtime. *)
SetEpoch ==
  /\ apiPc = "epoch"
  /\ epoch' = lastEpoch + 1
  /\ lastEpoch' = lastEpoch + 1
  /\ apiPc' = "idle"
  /\ UNCHANGED <<run, trafficVars, queueVars, workerVars, rowVars, faultVars>>

(* The simulator's answer times out, or a call raises: the rest of the     *)
(* reset is not done.                                                      *)
ResetFails ==
  /\ apiPc # "idle"
  /\ Faults < MaxFaults
  /\ apiFailures' = apiFailures + 1
  /\ apiPc' = "idle"
  /\ UNCHANGED <<run, trafficVars, queueVars, epochVars, workerVars, rowVars, failures, crashes>>

-----------------------------------------------------------------------------
(* The worker. *)

(* consume_once reads a new batch, or claims one again.  Where the group   *)
(* is gone with its stream, the call raises once and ensure_groups makes   *)
(* it again from the start of the stream.                                  *)
Read(n) ==
  /\ wpc = "idle"
  /\ n \in unread \cup pending
  /\ unread' = unread \ {n}
  /\ pending' = pending \cup {n}
  /\ batch' = n
  /\ wpc' = "check"
  /\ UNCHANGED <<run, trafficVars, epochVars, apiPc, fence, seen, mem, rowVars, faultVars>>

(* _commit_batch compares the epoch with its own. *)
CheckEpoch ==
  /\ wpc = "check"
  /\ seen' = epoch
  /\ wpc' = IF epoch # fence THEN "clear" ELSE "process"
  /\ UNCHANGED <<run, trafficVars, queueVars, epochVars, apiPc, batch, fence, mem, rowVars,
                 faultVars>>

(* reset_ingestion_data, in one transaction. *)
Clear ==
  /\ wpc \in {"clear", "clearAgain"}
  /\ overview' = {}
  /\ incidents' = {}
  /\ checkpoint' = EmptyPipeline
  /\ wpc' = IF wpc = "clear" THEN "renew" ELSE "renewAgain"
  /\ UNCHANGED <<run, trafficVars, queueVars, epochVars, apiPc, batch, fence, seen, mem, faultVars>>

(* Bug for a mutant: the fence moves on, the pipeline stays. *)
RenewKeepsPipeline ==
  /\ wpc \in {"renew", "renewAgain"}
  /\ fence' = seen
  /\ wpc' = IF wpc = "renew" THEN "process" ELSE "ack"
  /\ UNCHANGED <<run, trafficVars, queueVars, epochVars, apiPc, batch, seen, mem, rowVars,
                 faultVars>>

(* Bug for a mutant: the pipeline is new, the fence stays where it was. *)
RenewKeepsFence ==
  /\ wpc \in {"renew", "renewAgain"}
  /\ mem' = checkpoint
  /\ wpc' = IF wpc = "renew" THEN "process" ELSE "ack"
  /\ UNCHANGED <<run, trafficVars, queueVars, epochVars, apiPc, batch, fence, seen, rowVars,
                 faultVars>>

(* A new pipeline is initialized, and the worker is in the new epoch. *)
Renew ==
  /\ wpc \in {"renew", "renewAgain"}
  /\ mem' = checkpoint
  /\ fence' = seen
  /\ wpc' = IF wpc = "renew" THEN "process" ELSE "ack"
  /\ UNCHANGED <<run, trafficVars, queueVars, epochVars, apiPc, batch, seen, rowVars, faultVars>>

(* The pipeline takes in the batch, and may open an incident.  A batch it  *)
(* knows already has no effect.                                            *)
ProcessBatch ==
  /\ wpc = "process"
  /\ \/ /\ batch \in mem.batches
        /\ wpc' = "recheck"
        /\ mem' = mem
     \/ /\ batch \notin mem.batches
        /\ wpc' = "overview"
        /\ \/ mem' = [mem EXCEPT !.batches = @ \cup {batch}]
           \/ /\ mem.incident = {}
              /\ Cardinality(mem.batches \cup {batch}) >= Evidence
              /\ mem' = [batches |-> mem.batches \cup {batch},
                         incident |-> mem.batches \cup {batch}]
  /\ UNCHANGED <<run, trafficVars, queueVars, epochVars, apiPc, batch, fence, seen, rowVars,
                 faultVars>>

PersistOverview ==
  /\ wpc = "overview"
  /\ overview' = mem.batches
  /\ wpc' = IF mem.incident # {} THEN "incident" ELSE "state"
  /\ UNCHANGED <<run, trafficVars, queueVars, epochVars, apiPc, batch, fence, seen, mem, incidents,
                 checkpoint, faultVars>>

PersistIncident ==
  /\ wpc = "incident"
  /\ incidents' = incidents \cup {mem.incident}
  /\ wpc' = "state"
  /\ UNCHANGED <<run, trafficVars, queueVars, epochVars, apiPc, batch, fence, seen, mem, overview,
                 checkpoint, faultVars>>

PersistState ==
  /\ wpc = "state"
  /\ checkpoint' = mem
  /\ wpc' = "recheck"
  /\ UNCHANGED <<run, trafficVars, queueVars, epochVars, apiPc, batch, fence, seen, mem, overview,
                 incidents, faultVars>>

(* Bug for a mutant: nothing looks at the epoch after the batch. *)
NoRecheck ==
  /\ wpc = "recheck"
  /\ wpc' = "ack"
  /\ UNCHANGED <<run, trafficVars, queueVars, epochVars, apiPc, batch, fence, seen, mem, rowVars,
                 faultVars>>

(* _commit_batch looks at the epoch again. *)
RecheckEpoch ==
  /\ wpc = "recheck"
  /\ wpc' = IF epoch # seen THEN "clearAgain" ELSE "ack"
  /\ seen' = epoch
  /\ UNCHANGED <<run, trafficVars, queueVars, epochVars, apiPc, batch, fence, mem, rowVars,
                 faultVars>>

Ack ==
  /\ wpc = "ack"
  /\ pending' = pending \ {batch}
  /\ batch' = NoBatch
  /\ wpc' = "idle"
  /\ UNCHANGED <<run, trafficVars, unread, epochVars, apiPc, fence, seen, mem, rowVars, faultVars>>

(* An awaited call raises: run goes on with the memory it has. *)
WorkerFails ==
  /\ wpc \notin {"idle", "down", "adopt"}
  /\ Faults < MaxFaults
  /\ failures' = failures + 1
  /\ batch' = NoBatch
  /\ wpc' = "idle"
  /\ UNCHANGED <<run, trafficVars, queueVars, epochVars, apiPc, fence, seen, mem, rowVars,
                 apiFailures, crashes>>

Crash ==
  /\ wpc # "down"
  /\ Faults < MaxFaults
  /\ crashes' = crashes + 1
  /\ batch' = NoBatch
  /\ mem' = EmptyPipeline
  /\ wpc' = "down"
  /\ UNCHANGED <<run, trafficVars, queueVars, epochVars, apiPc, fence, seen, rowVars, apiFailures,
                 failures>>

(* A new worker first restores the checkpoint ... *)
Restart ==
  /\ wpc = "down"
  /\ mem' = checkpoint
  /\ wpc' = "adopt"
  /\ UNCHANGED <<run, trafficVars, queueVars, epochVars, apiPc, batch, fence, seen, rowVars,
                 faultVars>>

(* ... and then takes the epoch it finds for its own (SETNX, GET). *)
AdoptEpoch ==
  /\ wpc = "adopt"
  /\ lastEpoch' = IF epoch = NoEpoch THEN lastEpoch + 1 ELSE lastEpoch
  /\ epoch' = IF epoch = NoEpoch THEN lastEpoch' ELSE epoch
  /\ fence' = epoch'
  /\ wpc' = "idle"
  /\ UNCHANGED <<run, trafficVars, queueVars, apiPc, batch, seen, mem, rowVars, faultVars>>

WorkerStep ==
  \/ \E n \in Batches : Read(n)
  \/ CheckEpoch
  \/ Clear
  \/ Renew
  \/ ProcessBatch
  \/ PersistOverview
  \/ PersistIncident
  \/ PersistState
  \/ RecheckEpoch
  \/ Ack
  \/ Restart
  \/ AdoptEpoch

ApiStep == ResetRows \/ SetEpoch

Next ==
  \/ Start
  \/ TickBegins
  \/ TickPublishes
  \/ SimulatorReset
  \/ ApiStep
  \/ ResetFails
  \/ WorkerStep
  \/ WorkerFails
  \/ Crash

Spec == Init /\ [][Next]_vars

(* The worker's loop goes on, and a request that runs is carried through. *)
FairSpec == Spec /\ WF_vars(WorkerStep) /\ WF_vars(ApiStep)

-----------------------------------------------------------------------------
Pipeline == [batches : SUBSET Batches, incident : SUBSET Batches]

(* Every variable has its type, and whatever is computed is computed from  *)
(* published batches (app.py, _commit_batch).                              *)
TypeOK ==
  /\ run \in Runs
  /\ running \in BOOLEAN
  /\ tick \in Runs \cup {NoTick}
  /\ DOMAIN born \subseteq Batches
  /\ \A n \in DOMAIN born : born[n] \in Runs
  /\ unread \subseteq DOMAIN born
  /\ pending \subseteq DOMAIN born
  /\ unread \cap pending = {}
  /\ lastEpoch \in Epochs
  /\ epoch \in Epochs \cup {NoEpoch}
  /\ fence \in Epochs \cup {NoEpoch}
  /\ seen \in Epochs \cup {NoEpoch}
  /\ apiPc \in {"idle", "rows", "epoch"}
  /\ wpc \in {"idle", "check", "clear", "renew", "process", "overview", "incident", "state",
              "recheck", "clearAgain", "renewAgain", "ack", "down", "adopt"}
  /\ batch \in DOMAIN born \cup {NoBatch}
  /\ mem \in Pipeline
  /\ mem.batches \subseteq DOMAIN born
  /\ overview \subseteq DOMAIN born
  /\ incidents \subseteq SUBSET DOMAIN born
  /\ checkpoint \in Pipeline
  /\ checkpoint.batches \subseteq DOMAIN born
  /\ apiFailures \in 0..MaxFaults
  /\ failures \in 0..MaxFaults
  /\ crashes \in 0..MaxFaults

Old(n) == born[n] < run

(* The worker has processed a batch to its end, or has none. *)
Settled == wpc \in {"idle", "check"}

(* No incident that was opened by batches of earlier runs alone is left:   *)
(* an in-flight batch from before a reset cannot restore an old incident   *)
(* (app.py:93-96, docs/implementation-decisions.md ID-007).                *)
OldIncidentsAreGone ==
  apiPc = "idle" /\ Settled => \A i \in incidents : \E n \in i : ~Old(n)

(* The same of the first reset, as long as it runs to its end, no call of  *)
(* the worker fails and it does not crash: the second look at the epoch    *)
(* follows every write.  With more resets the absent epoch of one can pass *)
(* for that of another (app.py:84), until the next batch is read.          *)
RecheckKeepsOldIncidentsOut == run <= 1 /\ faultVars = <<0, 0, 0>> => OldIncidentsAreGone

(* Whenever the worker's fence is the current epoch, whatever calls of the *)
(* worker and whatever resets of the API failed on the way                 *)
(* (app.py:84-86, 100-108).  The absent epoch names no run, and a worker   *)
(* that crashed adopts the epoch it finds and clears nothing (README).     *)
FencedIsClean ==
  fence = epoch /\ epoch # NoEpoch /\ crashes = 0 =>
    /\ \A i \in incidents : \E n \in i : ~Old(n)
    /\ mem.incident # {} => \E n \in mem.incident : ~Old(n)

(* What the docs say of a reset system that nothing was started on since.  *)
ResetIsEmpty ==
  run > 0 /\ ~running /\ apiPc = "idle" /\ wpc = "idle" => overview = {} /\ incidents = {}

(* A worker that is behind the epoch and has a batch to read catches up    *)
(* (app.py:84-86).                                                         *)
FenceCatchesUp ==
  (apiPc = "idle" /\ fence # epoch /\ unread # {}) ~> (fence = epoch \/ apiPc # "idle")
=============================================================================
