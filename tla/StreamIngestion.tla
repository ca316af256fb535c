-------------------------- MODULE StreamIngestion --------------------------
(***************************************************************************)
(* The ingestion worker: RedisStreamConsumer.consume_once claims and reads *)
(* stream entries, skips what the dedupe set knows, hands one batch to     *)
(* RuntimePipeline.process_batch, and afterwards adds each event to the    *)
(* dedupe set and acknowledges its entry.                                  *)
(*                                                                         *)
(* The pipeline changes its memory first (processed ids, aggregation       *)
(* buckets), then writes the projections, then the checkpoint a restarted  *)
(* worker resumes from.  Any awaited call may raise: IngestionWorker.run   *)
(* catches it and goes on with the same memory, unless ensure_groups       *)
(* raises as well.  The process may crash between any two calls.           *)
(*                                                                         *)
(* Left out here: the runtime epoch (module RuntimeReset), and what the    *)
(* detector and the incident lifecycle make of the counts (modules         *)
(* IncidentLifecycle and IncidentProjection).  All projection writes of a  *)
(* batch are one step, and an event is its id and its event time.          *)
(***************************************************************************)
EXTENDS Integers, Sequences, FiniteSets

CONSTANTS
  Payments,              \* Ids of payment events.
  Operations,            \* Ids of operational events.
  OccurredAt,            \* Event time of each event.
  AllowedLateness,       \* Settings.allowed_lateness_seconds.
  Retention,             \* How far back processed ids and buckets are kept.
  BucketDuration,        \* Settings.bucket_duration_seconds.
  Count,                 \* COUNT of XAUTOCLAIM and XREADGROUP, per stream.
  MaxCopies,             \* Bound: entries with the same event id.
  MaxCrashes,            \* Bound: worker crashes.
  MaxCallFailures,       \* Bound: Redis or notification calls that raise.
  MaxProjectionFailures  \* Bound: store calls that raise after the memory
                         \* took the batch in and before it is durable.

Events == Payments \cup Operations

StreamNames == {"payments", "operations"}

(* Retention is the sum of the window lengths, the lateness and a bucket,  *)
(* so it is never below the lateness.                                      *)
ASSUME EventAssumption ==
  /\ Payments \cap Operations = {}
  /\ OccurredAt \in [Events -> Nat \ {0}]

ASSUME WindowAssumption ==
  /\ AllowedLateness \in Nat
  /\ Retention \in Nat
  /\ AllowedLateness <= Retention
  /\ BucketDuration \in Nat \ {0}

ASSUME BoundAssumption ==
  /\ Count \in Nat \ {0}
  /\ MaxCopies \in Nat
  /\ MaxCrashes \in Nat
  /\ MaxCallFailures \in Nat
  /\ MaxProjectionFailures \in Nat

VARIABLES
  stream,      \* The two Redis streams, as sequences of event ids.
  cursor,      \* Last entry of each stream delivered to the group.
  pel,         \* Pending entries: delivered and not acknowledged.
  idle,        \* Pending entries idle for at least the claim time.
  dedupe,      \* The Redis set of processed event ids.
  pc,          \* Where the worker is in consume_once.
  fetched,     \* Entries read and not yet looked up in the dedupe set.
  batch,       \* Entries of the batch being processed.
  mem,         \* The pipeline's memory.
  overview,    \* The counts behind the projections in PostgreSQL.
  checkpoint,  \* The pipeline_state resource in PostgreSQL.
  committed,   \* History: events that some written checkpoint covers.
  crashes, callFailures, projectionFailures

redisVars == <<stream, cursor, pel, idle, dedupe>>
storeVars == <<overview, checkpoint, committed>>
faultVars == <<crashes, callFailures, projectionFailures>>
vars == <<redisVars, pc, fetched, batch, mem, storeVars, faultVars>>

-----------------------------------------------------------------------------
(* Streams and entries.  An entry is a stream name and a position. *)

EntriesOf(s) == {<<s, i>> : i \in 1..Len(stream[s])}

Entries == EntriesOf("payments") \cup EntriesOf("operations")

EventOf(n) == stream[n[1]][n[2]]

StreamOf(e) == IF e \in Payments THEN "payments" ELSE "operations"

Copies(e) == {n \in Entries : EventOf(n) = e}

Published == {EventOf(n) : n \in Entries}

(* XAUTOCLAIM from 0-0: the first Count idle entries of the stream. *)
Claimed(s) ==
  {n \in idle : /\ n[1] = s
                /\ Cardinality({k \in idle : k[1] = s /\ k[2] < n[2]}) < Count}

(* XREADGROUP ">": the next Count entries after the group's cursor. *)
Unread(s) ==
  {n \in EntriesOf(s) : cursor[s] < n[2] /\ n[2] <= cursor[s] + Count}

-----------------------------------------------------------------------------
(* The pipeline's memory, and what it does with a batch. *)

EmptyPipeline ==
  [processed  |-> {},
   counted    |-> [p \in Payments |-> 0],
   operations |-> {},
   latest     |-> 0]

BatchEvents(s) == {EventOf(n) : n \in {k \in batch : k[1] = s}}

(* _add_operational, once for each operational event of the batch. *)
AddOperational(m, ops) ==
  LET new == ops \ (m.processed \cup m.operations)
  IN [m EXCEPT !.processed = @ \cup new, !.operations = @ \cup new]

(* EventTimeAggregator.ingest: an event that lags the newest event time    *)
(* seen so far, in the memory or earlier in the batch, by more than the    *)
(* allowed lateness is dropped.                                            *)
InTime(m, entries, n) ==
  /\ m.latest - OccurredAt[EventOf(n)] <= AllowedLateness
  /\ \A k \in entries :
       k[2] < n[2] =>
         OccurredAt[EventOf(k)] - OccurredAt[EventOf(n)] <= AllowedLateness

Ingested(m, entries, newest) ==
  [m EXCEPT
     !.processed = @ \cup {EventOf(n) : n \in entries},
     !.counted = [p \in Payments |->
        @[p] + Cardinality({n \in entries : EventOf(n) = p /\ InTime(m, entries, n)})],
     !.latest = newest]

(* Bug for a mutant: prunes at the newest event time, not the retention. *)
PrunedAtLatest(m) ==
  [m EXCEPT !.processed = {e \in @ : OccurredAt[e] >= m.latest}]

(* _persist_state drops processed ids older than the retention ... *)
Pruned(m) ==
  [m EXCEPT !.processed = {e \in @ : OccurredAt[e] >= m.latest - Retention}]

BucketEnd(t) == (t \div BucketDuration + 1) * BucketDuration

(* ... and the aggregator exports only the buckets inside it. *)
Exported(m) ==
  [Pruned(m) EXCEPT
     !.counted = [p \in Payments |->
        IF BucketEnd(OccurredAt[p]) < m.latest - Retention THEN 0 ELSE @[p]]]

-----------------------------------------------------------------------------
Init ==
  /\ stream = [s \in StreamNames |-> <<>>]
  /\ cursor = [s \in StreamNames |-> 0]
  /\ pel = {}
  /\ idle = {}
  /\ dedupe = {}
  /\ pc = "idle"
  /\ fetched = {}
  /\ batch = {}
  /\ mem = EmptyPipeline
  /\ overview = EmptyPipeline.counted
  /\ checkpoint = EmptyPipeline
  /\ committed = {}
  /\ crashes = 0
  /\ callFailures = 0
  /\ projectionFailures = 0

(* The simulator adds an entry.  A publish whose reply is lost is sent     *)
(* again by the Redis client: the same event id in a second entry.         *)
Publish(e) ==
  /\ Cardinality(Copies(e)) < MaxCopies
  /\ stream' = [stream EXCEPT ![StreamOf(e)] = Append(@, e)]
  /\ UNCHANGED <<cursor, pel, idle, dedupe, pc, fetched, batch, mem, storeVars, faultVars>>

(* Pending entries pass the claim idle time. *)
IdleElapses ==
  /\ idle # pel
  /\ idle' = pel
  /\ UNCHANGED <<stream, cursor, pel, dedupe, pc, fetched, batch, mem, storeVars, faultVars>>

(* Bug for a mutant: no XAUTOCLAIM, new entries only. *)
ReadNewOnly ==
  LET new == UNION {Unread(s) : s \in StreamNames}
  IN /\ pc = "idle"
     /\ new # {}
     /\ fetched' = new
     /\ cursor' = [s \in StreamNames |->
                     IF cursor[s] + Count <= Len(stream[s])
                     THEN cursor[s] + Count ELSE Len(stream[s])]
     /\ pel' = pel \cup new
     /\ pc' = "filter"
     /\ UNCHANGED <<stream, idle, dedupe, batch, mem, storeVars, faultVars>>

ReadBatch ==
  LET claimed == UNION {Claimed(s) : s \in StreamNames}
      new     == UNION {Unread(s) : s \in StreamNames}
  IN /\ pc = "idle"
     /\ claimed \cup new # {}
     /\ fetched' = claimed \cup new
     /\ cursor' = [s \in StreamNames |->
                     IF cursor[s] + Count <= Len(stream[s])
                     THEN cursor[s] + Count ELSE Len(stream[s])]
     /\ pel' = pel \cup new
     /\ idle' = idle \ claimed
     /\ pc' = "filter"
     /\ UNCHANGED <<stream, dedupe, batch, mem, storeVars, faultVars>>

(* SISMEMBER: a known event is acknowledged and skipped. *)
FilterEntry(n) ==
  /\ pc = "filter"
  /\ n \in fetched
  /\ fetched' = fetched \ {n}
  /\ \/ /\ EventOf(n) \in dedupe
        /\ pel' = pel \ {n}
        /\ idle' = idle \ {n}
        /\ batch' = batch
     \/ /\ EventOf(n) \notin dedupe
        /\ batch' = batch \cup {n}
        /\ UNCHANGED <<pel, idle>>
  /\ pc' = IF fetched' # {} THEN "filter" ELSE IF batch' # {} THEN "process" ELSE "idle"
  /\ UNCHANGED <<stream, cursor, dedupe, mem, storeVars, faultVars>>

(* Bug for a mutant: the batch is settled before anything is persisted. *)
ProcessAndSettle ==
  LET added == AddOperational(mem, BatchEvents("operations"))
      new   == {n \in batch : n[1] = "payments" /\ EventOf(n) \notin added.processed}
  IN /\ pc = "process"
     /\ mem' = Ingested(added, new, mem.latest)
     /\ pc' = "settle"
     /\ UNCHANGED <<redisVars, fetched, batch, storeVars, faultVars>>

(* Bug for a mutant: the checkpoint is written before the projections. *)
ProcessToCheckpoint ==
  LET added == AddOperational(mem, BatchEvents("operations"))
      new   == {n \in batch : n[1] = "payments" /\ EventOf(n) \notin added.processed}
  IN /\ pc = "process"
     /\ mem' = Ingested(added, new, mem.latest)
     /\ pc' = "checkpoint"
     /\ UNCHANGED <<redisVars, fetched, batch, storeVars, faultVars>>

(* process_batch up to its first store call: the memory takes the batch.   *)
(* A batch of operational events alone, new or not, goes straight to the   *)
(* checkpoint; one with nothing new and no operational event returns.      *)
ProcessBatch ==
  LET ops    == BatchEvents("operations")
      added  == AddOperational(mem, ops)
      new    == {n \in batch : n[1] = "payments" /\ EventOf(n) \notin added.processed}
      times  == {mem.latest} \cup {OccurredAt[EventOf(n)] : n \in new}
  IN /\ pc = "process"
     /\ \/ /\ new = {}
           /\ mem' = added
           /\ pc' = IF ops # {} THEN "checkpoint" ELSE "settle"
        \/ /\ new # {}
           /\ \E newest \in times :
                /\ \A t \in times : t <= newest
                /\ mem' = Ingested(added, new, newest)
           /\ pc' = "project"
     /\ UNCHANGED <<redisVars, fetched, batch, storeVars, faultVars>>

(* _persist_overview, _persist_history and _persist_incident. *)
PersistProjections ==
  /\ pc = "project"
  /\ overview' = mem.counted
  /\ pc' = "checkpoint"
  /\ UNCHANGED <<redisVars, fetched, batch, mem, checkpoint, committed, faultVars>>

(* _persist_state. *)
PersistState ==
  /\ pc = "checkpoint"
  /\ mem' = Pruned(mem)
  /\ checkpoint' = Exported(mem)
  /\ committed' = committed \cup mem.processed
  /\ pc' = "settle"
  /\ UNCHANGED <<redisVars, fetched, batch, overview, faultVars>>

(* Bug for a mutant: events are marked before the batch is processed. *)
MarkBeforeProcessing(n) ==
  /\ pc \in {"process", "settle"}
  /\ n \in batch
  /\ dedupe' = dedupe \cup {EventOf(n)}
  /\ UNCHANGED <<stream, cursor, pel, idle, pc, fetched, batch, mem, storeVars, faultVars>>

(* SADD for the next entry of the batch, once the previous one is acked. *)
MarkProcessed(n) ==
  /\ pc = "settle"
  /\ n \in batch
  /\ \A k \in batch : EventOf(k) \notin dedupe
  /\ dedupe' = dedupe \cup {EventOf(n)}
  /\ UNCHANGED <<stream, cursor, pel, idle, pc, fetched, batch, mem, storeVars, faultVars>>

(* XACK of an entry whose event is marked; then the next entry. *)
AckEntry(n) ==
  /\ pc = "settle"
  /\ n \in batch
  /\ EventOf(n) \in dedupe
  /\ pel' = pel \ {n}
  /\ idle' = idle \ {n}
  /\ batch' = batch \ {n}
  /\ pc' = IF batch' = {} THEN "idle" ELSE "settle"
  /\ UNCHANGED <<stream, cursor, dedupe, fetched, mem, storeVars, faultVars>>

(* An awaited call raises outside the window between memory and            *)
(* checkpoint: run drops the batch and is about to retry.                  *)
CallFails ==
  /\ pc \in {"filter", "process", "settle"}
  /\ callFailures < MaxCallFailures
  /\ callFailures' = callFailures + 1
  /\ pc' = "retry"
  /\ fetched' = {}
  /\ batch' = {}
  /\ UNCHANGED <<redisVars, mem, storeVars, crashes, projectionFailures>>

(* A store call raises after the memory took the batch in: the memory      *)
(* stays as it is, also when _persist_state has already pruned it.         *)
ProjectionFails ==
  /\ pc \in {"project", "checkpoint"}
  /\ projectionFailures < MaxProjectionFailures
  /\ projectionFailures' = projectionFailures + 1
  /\ mem' = IF pc = "checkpoint" THEN Pruned(mem) ELSE mem
  /\ pc' = "retry"
  /\ fetched' = {}
  /\ batch' = {}
  /\ UNCHANGED <<redisVars, storeVars, crashes, callFailures>>

(* run calls ensure_groups before it goes on with the same memory. *)
Retry ==
  /\ pc = "retry"
  /\ pc' = "idle"
  /\ UNCHANGED <<redisVars, fetched, batch, mem, storeVars, faultVars>>

(* ensure_groups raises inside the handler: run is over, and the process   *)
(* lives on without it, reporting that it is starting.                     *)
RetryFails ==
  /\ pc = "retry"
  /\ callFailures < MaxCallFailures
  /\ callFailures' = callFailures + 1
  /\ pc' = "down"
  /\ mem' = EmptyPipeline
  /\ UNCHANGED <<redisVars, fetched, batch, storeVars, crashes, projectionFailures>>

(* The process dies: everything it held in memory is gone. *)
Crash ==
  /\ pc # "down"
  /\ crashes < MaxCrashes
  /\ crashes' = crashes + 1
  /\ pc' = "down"
  /\ fetched' = {}
  /\ batch' = {}
  /\ mem' = EmptyPipeline
  /\ UNCHANGED <<redisVars, storeVars, callFailures, projectionFailures>>

(* Bug for a mutant: a new process starts with an empty memory. *)
RestartEmpty ==
  /\ pc = "down"
  /\ pc' = "idle"
  /\ mem' = EmptyPipeline
  /\ UNCHANGED <<redisVars, fetched, batch, storeVars, faultVars>>

(* initialize: a new process restores the last checkpoint. *)
Restart ==
  /\ pc = "down"
  /\ pc' = "idle"
  /\ mem' = checkpoint
  /\ UNCHANGED <<redisVars, fetched, batch, storeVars, faultVars>>

WorkerStep ==
  \/ ReadBatch
  \/ \E n \in fetched : FilterEntry(n)
  \/ ProcessBatch
  \/ PersistProjections
  \/ PersistState
  \/ \E n \in batch : MarkProcessed(n) \/ AckEntry(n)
  \/ Retry
  \/ Restart

Next ==
  \/ \E e \in Events : Publish(e)
  \/ IdleElapses
  \/ WorkerStep
  \/ CallFails
  \/ ProjectionFails
  \/ RetryFails
  \/ Crash

Spec == Init /\ [][Next]_vars

(* The worker's loop goes on until a fault ends it, idle times grow, and a *)
(* worker that is down is started again: docker-compose.yml has no restart *)
(* policy, so that is the operator's part.  Nothing forces the simulator   *)
(* to publish or a fault to happen.                                        *)
FairSpec == Spec /\ WF_vars(WorkerStep) /\ WF_vars(IdleElapses)

-----------------------------------------------------------------------------
PipelineState ==
  [processed : SUBSET Events, counted : [Payments -> Nat],
   operations : SUBSET Operations, latest : Nat]

(* Every variable has its type, the worker holds only pending entries and  *)
(* only pending entries can be idle (redis_streams.py, consume_once).      *)
TypeOK ==
  /\ stream \in [StreamNames -> Seq(Events)]
  /\ stream["payments"] \in Seq(Payments)
  /\ stream["operations"] \in Seq(Operations)
  /\ cursor \in [StreamNames -> Nat]
  /\ pel \subseteq Entries
  /\ idle \subseteq pel
  /\ fetched \subseteq pel
  /\ batch \subseteq pel
  /\ fetched \cap batch = {}
  /\ pc # "filter" => fetched = {}
  /\ pc \in {"down", "idle", "retry"} => batch = {}
  /\ dedupe \subseteq Events
  /\ pc \in {"down", "idle", "retry", "filter", "process", "project", "checkpoint", "settle"}
  /\ mem \in PipelineState
  /\ overview \in [Payments -> Nat]
  /\ checkpoint \in PipelineState
  /\ committed \subseteq Events
  /\ crashes \in 0..MaxCrashes
  /\ callFailures \in 0..MaxCallFailures
  /\ projectionFailures \in 0..MaxProjectionFailures

Delivered == {n \in Entries : n[2] <= cursor[n[1]]}

Acknowledged == Delivered \ pel

(* An entry is acknowledged only when the effect of its event is in a      *)
(* checkpoint that was written: a crash at any point leaves every other    *)
(* entry retryable (redis_streams.py:135-136).                             *)
AckedIsCommitted == \A n \in Acknowledged : EventOf(n) \in committed

(* However often an entry is redelivered, and although processed ids are   *)
(* pruned, no payment is counted twice by the aggregator, in the memory or *)
(* in the checkpoint (runtime_pipeline.py process_batch and                *)
(* _persist_state, aggregator.py ingest).                                  *)
CountedAtMostOnce ==
  \A p \in Payments : mem.counted[p] <= 1 /\ checkpoint.counted[p] <= 1

(* A checkpoint never counts a payment that the projections served by the  *)
(* API do not show: projections are written first.                         *)
ProjectionCoversCheckpoint ==
  \A p \in Payments : checkpoint.counted[p] > 0 => overview[p] > 0

(* A new checkpoint never loses a payment that an earlier one counted and  *)
(* that is still inside the retention, whatever crashed in between.        *)
CheckpointRetains ==
  [][\A p \in Payments :
       BucketEnd(OccurredAt[p]) >= checkpoint'.latest - Retention
         => checkpoint'.counted[p] >= checkpoint.counted[p]]_vars

(* Every published event is eventually marked processed and none of its    *)
(* entries stays pending, after finitely many crashes and failed calls.    *)
EveryEventSettles ==
  \A e \in Events :
    e \in Published ~> (e \in dedupe /\ \A n \in pel : EventOf(n) # e)

Ledger == INSTANCE EventLedger WITH published <- Published, settled <- dedupe

(* The worker implements the exactly-once promise of EventLedger, with the *)
(* dedupe set as the record of settled events.                             *)
ImplementsLedger == Ledger!Spec

-----------------------------------------------------------------------------
(* The inductive invariants behind the properties above. *)

BatchIn(events) == \A n \in batch : EventOf(n) \in events

(* Without failing projections, what the memory holds is durable except    *)
(* between the first change to the memory and the checkpoint, and only the *)
(* events of durable batches are marked or acknowledged.                   *)
SettledIsDurable ==
  /\ pc \in {"down", "idle", "retry", "filter", "process", "settle"} =>
       mem.processed \cup mem.operations \subseteq committed
  /\ pc \in {"project", "checkpoint"} =>
       /\ mem.operations \subseteq committed \cup mem.processed
       /\ BatchIn(committed \cup mem.processed)
  /\ pc = "settle" => BatchIn(committed)
  /\ checkpoint.processed \cup checkpoint.operations \subseteq committed
  /\ dedupe \subseteq committed
  /\ \A n \in Acknowledged : EventOf(n) \in dedupe
  /\ \A s \in StreamNames : cursor[s] <= Len(stream[s])

(* The memory and the checkpoint know published events only. *)
KnownIsPublished ==
  mem.processed \cup checkpoint.processed \subseteq Published

(* Each event has one entry, and a payment that is counted is remembered   *)
(* until it is too late to be counted again.                               *)
RememberedOrLate(m) ==
  \A p \in Payments :
    /\ m.counted[p] \in {0, 1}
    /\ m.counted[p] = 1 => p \in m.processed \/ m.latest - OccurredAt[p] > Retention

CountedIsRemembered ==
  /\ \A n, k \in Entries : EventOf(n) = EventOf(k) => n = k
  /\ RememberedOrLate(mem)
  /\ RememberedOrLate(checkpoint)

(* The memory of a live worker counts whatever the checkpoint counts. *)
MemoryCoversCheckpoint ==
  pc # "down" => \A p \in Payments : mem.counted[p] >= checkpoint.counted[p]

(* Without failing projections, only the batch being projected is ahead of *)
(* the overview.                                                           *)
OverviewCoversMemory ==
  /\ pc \notin {"project", "down"} =>
       \A p \in Payments : mem.counted[p] > 0 => overview[p] > 0
  /\ ProjectionCoversCheckpoint
=============================================================================
