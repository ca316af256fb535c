----------------------- MODULE StreamIngestionProofs ------------------------
(***************************************************************************)
(* Machine-checked proofs about StreamIngestion, for every set of events,  *)
(* every event time, every batch size and any number of crashes and failed *)
(* Redis calls.                                                            *)
(***************************************************************************)
EXTENDS StreamIngestion, FiniteSetTheorems, TLAPS

-----------------------------------------------------------------------------
(* Entries and events. *)

LEMMA EntryFacts ==
  ASSUME TypeOK, NEW n \in Entries
  PROVE  /\ n[1] \in StreamNames
         /\ n[2] \in 1..Len(stream[n[1]])
         /\ n = <<n[1], n[2]>>
         /\ EventOf(n) \in Events
         /\ n[1] = "payments" => EventOf(n) \in Payments
         /\ n[1] = "operations" => EventOf(n) \in Operations
BY DEF TypeOK, Entries, EntriesOf, EventOf, StreamNames

LEMMA EntriesOfFinite ==
  ASSUME TypeOK, NEW s \in StreamNames
  PROVE  IsFiniteSet(EntriesOf(s))
<1> DEFINE f == [i \in 1..Len(stream[s]) |-> <<s, i>>]
<1>1. Len(stream[s]) \in Nat
  BY DEF TypeOK
<1>2. f \in Surjection(1..Len(stream[s]), EntriesOf(s))
  BY DEF EntriesOf, Surjection
<1>3. IsFiniteSet(1..Len(stream[s]))
  BY <1>1, FS_Interval
<1> QED
  BY <1>2, <1>3, FS_Surjection

LEMMA EntriesFinite ==
  ASSUME TypeOK
  PROVE  IsFiniteSet(Entries)
BY EntriesOfFinite, FS_Union DEF Entries, StreamNames

(* Publishing adds an entry at the end of a stream; every entry that was   *)
(* there keeps its place and its event.                                    *)
LEMMA PublishAddsEntry ==
  ASSUME TypeOK, NEW e \in Events, Publish(e)
  PROVE  /\ Entries \subseteq Entries'
         /\ \A n \in Entries : EventOf(n)' = EventOf(n)
         /\ \A n \in Entries' : n \notin Entries =>
              /\ EventOf(n)' = e
              /\ n[2] = Len(stream[n[1]]) + 1
<1> DEFINE s == StreamOf(e)
<1>1. s \in StreamNames
  BY DEF StreamOf, StreamNames
<1>2. /\ stream[s] \in Seq(Events)
      /\ Len(stream[s]) \in Nat
      /\ stream' = [stream EXCEPT ![s] = Append(stream[s], e)]
  BY <1>1 DEF TypeOK, Publish
<1>3. /\ stream'[s] = Append(stream[s], e)
      /\ Len(stream'[s]) = Len(stream[s]) + 1
      /\ stream'[s][Len(stream[s]) + 1] = e
      /\ \A i \in 1..Len(stream[s]) : stream'[s][i] = stream[s][i]
      /\ \A r \in StreamNames : r # s => stream'[r] = stream[r]
  BY <1>1, <1>2 DEF TypeOK
<1>4. Entries' = Entries \cup {<<s, Len(stream[s]) + 1>>}
  <2> HIDE DEF s
  <2>1. EntriesOf(s)' = {<<s', i>> : i \in 1..Len(stream'[s'])}
    BY DEF EntriesOf
  <2>2. s' = s
    BY DEF s, StreamOf
  <2>3. \A r \in StreamNames :
          r # s => {<<r, i>> : i \in 1..Len(stream'[r])} = EntriesOf(r)
    BY <1>3 DEF EntriesOf
  <2>4. {<<s, i>> : i \in 1..Len(stream'[s])} = EntriesOf(s) \cup {<<s, Len(stream[s]) + 1>>}
    BY <1>2, <1>3 DEF EntriesOf
  <2>5. Entries' = {<<"payments", i>> : i \in 1..Len(stream'["payments"])}
                     \cup {<<"operations", i>> : i \in 1..Len(stream'["operations"])}
    BY DEF Entries, EntriesOf
  <2> QED
    BY <1>1, <2>3, <2>4, <2>5 DEF Entries, StreamNames
<1>5. ASSUME NEW n \in Entries
      PROVE  EventOf(n)' = EventOf(n)
  BY <1>3, <1>5, EntryFacts DEF EventOf
<1>6. ASSUME NEW n \in Entries', n \notin Entries
      PROVE  EventOf(n)' = e /\ n[2] = Len(stream[n[1]]) + 1
  <2>1. n = <<s, Len(stream[s]) + 1>>
    BY <1>4, <1>6
  <2>2. EventOf(n)' = stream'[n[1]][n[2]]
    BY DEF EventOf
  <2> QED
    BY <1>3, <2>1, <2>2
<1> QED
  BY <1>4, <1>5, <1>6

-----------------------------------------------------------------------------
(* The pipeline's memory. *)

LEMMA BatchEventTypes ==
  ASSUME TypeOK
  PROVE  BatchEvents("operations") \subseteq Operations
BY EntryFacts DEF BatchEvents, TypeOK

LEMMA AddOperationalType ==
  ASSUME NEW m \in PipelineState, NEW ops \in SUBSET Operations
  PROVE  AddOperational(m, ops) \in PipelineState
BY DEF AddOperational, PipelineState, Events

LEMMA IngestedType ==
  ASSUME TypeOK, NEW m \in PipelineState, NEW entries \in SUBSET Entries,
         NEW newest \in Nat
  PROVE  Ingested(m, entries, newest) \in PipelineState
<1>1. IsFiniteSet(entries)
  BY EntriesFinite, FS_Subset
<1>2. ASSUME NEW p \in Payments
      PROVE  m.counted[p]
               + Cardinality({n \in entries : EventOf(n) = p /\ InTime(m, entries, n)}) \in Nat
  <2>1. IsFiniteSet({n \in entries : EventOf(n) = p /\ InTime(m, entries, n)})
    BY <1>1, FS_Subset
  <2>2. m.counted[p] \in Nat
    BY DEF PipelineState
  <2> QED
    BY <2>1, <2>2, FS_CardinalityType
<1>3. {EventOf(n) : n \in entries} \subseteq Events
  BY EntryFacts
<1> QED
  BY <1>2, <1>3 DEF Ingested, PipelineState

LEMMA PrunedType ==
  ASSUME NEW m \in PipelineState
  PROVE  Pruned(m) \in PipelineState
BY DEF Pruned, PipelineState

LEMMA ExportedType ==
  ASSUME NEW m \in PipelineState
  PROVE  Exported(m) \in PipelineState
BY PrunedType DEF Exported, Pruned, PipelineState

LEMMA EmptyPipelineType == EmptyPipeline \in PipelineState
BY DEF EmptyPipeline, PipelineState

(* What process_batch leaves in the memory has its type. *)
LEMMA ProcessedType ==
  ASSUME TypeOK, ProcessBatch
  PROVE  mem' \in PipelineState
<1> DEFINE added == AddOperational(mem, BatchEvents("operations"))
           new == {n \in batch : n[1] = "payments" /\ EventOf(n) \notin added.processed}
<1>1. added \in PipelineState
  BY BatchEventTypes, AddOperationalType DEF TypeOK
<1>2. CASE mem' = added
  BY <1>1, <1>2
<1>3. CASE \E newest \in {mem.latest} \cup {OccurredAt[EventOf(n)] : n \in new} :
             mem' = Ingested(added, new, newest)
  <2>1. mem.latest \in Nat
    BY DEF TypeOK, PipelineState
  <2>2. \A n \in new : OccurredAt[EventOf(n)] \in Nat
    BY EntryFacts, EventAssumption DEF TypeOK
  <2>3. new \in SUBSET Entries
    BY DEF TypeOK
  <2> HIDE DEF added, new
  <2> QED
    BY <1>1, <1>3, <2>1, <2>2, <2>3, IngestedType
<1> QED
  BY <1>2, <1>3 DEF ProcessBatch

-----------------------------------------------------------------------------
(* Type correctness. *)

LEMMA TypeInit == Init => TypeOK
BY EmptyPipelineType, BoundAssumption
   DEF Init, TypeOK, StreamNames, EmptyPipeline, Entries, EntriesOf

LEMMA TypeStep == TypeOK /\ [Next]_vars => TypeOK'
<1> SUFFICES ASSUME TypeOK, [Next]_vars PROVE TypeOK'
  OBVIOUS
<1> USE DEF redisVars, storeVars, faultVars
<1>1. ASSUME NEW e \in Events, Publish(e)
      PROVE  TypeOK'
  <2>1. Entries \subseteq Entries'
    BY <1>1, PublishAddsEntry
  <2>2. /\ stream' \in [StreamNames -> Seq(Events)]
        /\ stream'["payments"] \in Seq(Payments)
        /\ stream'["operations"] \in Seq(Operations)
    BY <1>1 DEF TypeOK, Publish, StreamNames, StreamOf, Events
  <2> QED
    BY <1>1, <2>1, <2>2 DEF TypeOK, Publish
<1>2. ASSUME UNCHANGED stream
      PROVE  Entries' = Entries /\ \A n : EventOf(n)' = EventOf(n)
  BY <1>2 DEF Entries, EntriesOf, EventOf
<1>3. CASE IdleElapses
  BY <1>2, <1>3 DEF TypeOK, IdleElapses
<1>4. CASE ReadBatch
  <2>1. \A s \in StreamNames : Claimed(s) \subseteq pel /\ Unread(s) \subseteq Entries
    BY DEF TypeOK, Claimed, Unread, Entries, StreamNames
  <2>2. cursor' \in [StreamNames -> Nat]
    BY <1>4, BoundAssumption DEF TypeOK, ReadBatch
  <2> QED
    BY <1>2, <1>4, <2>1, <2>2 DEF TypeOK, ReadBatch, StreamNames
<1>5. ASSUME NEW n \in fetched, FilterEntry(n)
      PROVE  TypeOK'
  BY <1>2, <1>5 DEF TypeOK, FilterEntry
<1>6. CASE ProcessBatch
  BY <1>2, <1>6, ProcessedType DEF TypeOK, ProcessBatch
<1>7. CASE PersistProjections
  BY <1>2, <1>7 DEF TypeOK, PersistProjections, PipelineState
<1>8. CASE PersistState
  <2>1. Pruned(mem) \in PipelineState /\ Exported(mem) \in PipelineState
    BY PrunedType, ExportedType DEF TypeOK
  <2>2. mem.processed \subseteq Events
    BY DEF TypeOK, PipelineState
  <2> QED
    BY <1>2, <1>8, <2>1, <2>2 DEF TypeOK, PersistState
<1>9. ASSUME NEW n \in batch, MarkProcessed(n)
      PROVE  TypeOK'
  <2>1. EventOf(n) \in Events
    BY EntryFacts DEF TypeOK
  <2> QED
    BY <1>2, <1>9, <2>1 DEF TypeOK, MarkProcessed
<1>10. ASSUME NEW n \in batch, AckEntry(n)
       PROVE  TypeOK'
  BY <1>2, <1>10 DEF TypeOK, AckEntry
<1>11. CASE CallFails
  BY <1>2, <1>11, BoundAssumption DEF TypeOK, CallFails
<1>12. CASE ProjectionFails
  <2>1. Pruned(mem) \in PipelineState
    BY PrunedType DEF TypeOK
  <2> QED
    BY <1>2, <1>12, <2>1, BoundAssumption DEF TypeOK, ProjectionFails
<1>13. CASE Crash
  BY <1>2, <1>13, BoundAssumption, EmptyPipelineType DEF TypeOK, Crash
<1>14. CASE Restart
  BY <1>2, <1>14 DEF TypeOK, Restart
<1>15. CASE Retry
  BY <1>2, <1>15 DEF TypeOK, Retry
<1>16. CASE RetryFails
  BY <1>2, <1>16, BoundAssumption, EmptyPipelineType DEF TypeOK, RetryFails
<1>17. CASE UNCHANGED vars
  BY <1>2, <1>17 DEF TypeOK, vars
<1> QED
  BY <1>1, <1>3, <1>4, <1>5, <1>6, <1>7, <1>8, <1>9, <1>10, <1>11, <1>12,
     <1>13, <1>14, <1>15, <1>16, <1>17 DEF Next, WorkerStep

(* Every variable keeps its type, and the worker only ever holds entries   *)
(* that are pending for its consumer group.                                *)
THEOREM TypeCorrect == Spec => []TypeOK
<1>1. Init => TypeOK
  BY TypeInit
<1>2. TypeOK /\ [Next]_vars => TypeOK'
  BY TypeStep
<1> QED
  BY <1>1, <1>2, PTL DEF Spec

-----------------------------------------------------------------------------
(* Safety.  The properties about durability assume that no store call raises *)
(* between the memory's first change and the checkpoint; those about       *)
(* counting that the streams hold each event once.                         *)

LEMMA SameStream ==
  ASSUME UNCHANGED stream
  PROVE  /\ Entries' = Entries
         /\ \A n : EventOf(n)' = EventOf(n)
         /\ Published' = Published
BY DEF Entries, EntriesOf, EventOf, Published

(* After process_batch the memory knows every event of the batch. *)
LEMMA ProcessedKnows ==
  ASSUME TypeOK, ProcessBatch
  PROVE  /\ mem.processed \subseteq mem'.processed
         /\ mem'.processed \subseteq mem.processed \cup {EventOf(n) : n \in batch}
         /\ mem'.operations \subseteq mem.operations \cup mem'.processed
         /\ BatchIn(mem'.processed \cup mem.operations)
         /\ pc' \in {"project", "checkpoint", "settle"}
         /\ pc' = "settle" => mem' = mem
<1> DEFINE ops == BatchEvents("operations")
           added == AddOperational(mem, ops)
           new == {n \in batch : n[1] = "payments" /\ EventOf(n) \notin added.processed}
<1>1. /\ added.processed = mem.processed \cup (ops \ mem.operations)
      /\ added.operations = mem.operations \cup (ops \ mem.processed)
      /\ ops = {} => added = mem
  BY DEF AddOperational, TypeOK, PipelineState
<1>2. ops = {EventOf(n) : n \in {k \in batch : k[1] = "operations"}}
  BY DEF BatchEvents
<1>3. \A n \in batch : n[1] = "payments" \/ n[1] = "operations"
  BY EntryFacts DEF TypeOK, StreamNames
<1>4. /\ mem'.processed = added.processed \cup {EventOf(n) : n \in new}
      /\ mem'.operations = added.operations
  <2>1. CASE new = {} /\ mem' = added
    BY <2>1
  <2>2. ASSUME NEW newest, mem' = Ingested(added, new, newest)
        PROVE  /\ mem'.processed = added.processed \cup {EventOf(n) : n \in new}
               /\ mem'.operations = added.operations
    <3>1. added \in PipelineState
      BY BatchEventTypes, AddOperationalType DEF TypeOK
    <3> HIDE DEF added, new
    <3> QED
      BY <2>2, <3>1 DEF Ingested, PipelineState
  <2>3. \/ new = {} /\ mem' = added
        \/ \E newest : mem' = Ingested(added, new, newest)
    BY Zenon DEF ProcessBatch
  <2> QED
    BY <2>1, <2>2, <2>3, Zenon
<1>5. BatchIn(mem'.processed \cup mem.operations)
  <2> SUFFICES ASSUME NEW n \in batch
               PROVE  EventOf(n) \in mem'.processed \cup mem.operations
    BY DEF BatchIn
  <2>1. CASE n[1] = "payments"
    BY <1>4, <2>1
  <2>2. CASE n[1] = "operations"
    BY <1>1, <1>2, <1>4, <2>2
  <2> QED
    BY <1>3, <2>1, <2>2
<1>6. pc' = "settle" => mem' = mem
  BY <1>1 DEF ProcessBatch
<1> QED
  BY <1>1, <1>2, <1>4, <1>5, <1>6 DEF ProcessBatch

LEMMA PrunedKnows ==
  ASSUME NEW m \in PipelineState
  PROVE  /\ Pruned(m).processed \subseteq m.processed
         /\ Exported(m).processed \subseteq m.processed
         /\ Pruned(m).operations = m.operations
         /\ Exported(m).operations = m.operations
         /\ Pruned(m).latest = m.latest
         /\ Exported(m).latest = m.latest
         /\ Pruned(m).counted = m.counted
         /\ \A p \in Payments : /\ Exported(m).counted[p] \in {0, m.counted[p]}
                                /\ BucketEnd(OccurredAt[p]) >= m.latest - Retention
                                     => Exported(m).counted[p] = m.counted[p]
<1>1. m \in [processed : SUBSET Events, counted : [Payments -> Nat],
              operations : SUBSET Operations, latest : Nat]
  BY DEF PipelineState
<1>2. /\ Pruned(m).processed = {e \in m.processed : OccurredAt[e] >= m.latest - Retention}
      /\ Pruned(m).operations = m.operations
      /\ Pruned(m).latest = m.latest
      /\ Pruned(m).counted = m.counted
  BY <1>1 DEF Pruned
<1>3. Pruned(m) \in PipelineState
  BY PrunedType
<1>4. /\ Exported(m).processed = Pruned(m).processed
      /\ Exported(m).operations = Pruned(m).operations
      /\ Exported(m).latest = Pruned(m).latest
      /\ Exported(m).counted =
           [p \in Payments |->
              IF BucketEnd(OccurredAt[p]) < m.latest - Retention THEN 0 ELSE Pruned(m).counted[p]]
  BY <1>3 DEF Exported, PipelineState
<1>5. \A p \in Payments : BucketEnd(OccurredAt[p]) >= m.latest - Retention
                            => ~(BucketEnd(OccurredAt[p]) < m.latest - Retention)
  <2>1. \A p \in Payments : BucketEnd(OccurredAt[p]) \in Int
    BY EventAssumption, WindowAssumption DEF BucketEnd, Events
  <2> QED
    BY <1>1, <2>1, WindowAssumption
<1> QED
  BY <1>2, <1>4, <1>5

-----------------------------------------------------------------------------
(* Durability. *)

LEMMA DurableInit == Init => SettledIsDurable
BY DEF Init, SettledIsDurable, EmptyPipeline, Acknowledged, Delivered, Entries,
       EntriesOf, StreamNames, BatchIn

(* An action that leaves the stream, the cursor and the dedupe set alone   *)
(* and takes away only pending entries of marked events keeps the promise  *)
(* for the acknowledged entries.                                           *)
LEMMA AcknowledgedStep ==
  ASSUME TypeOK, SettledIsDurable, UNCHANGED <<stream, cursor>>,
         dedupe \subseteq dedupe',
         \A n \in pel \ pel' : EventOf(n) \in dedupe
  PROVE  /\ \A n \in Acknowledged' : EventOf(n)' \in dedupe'
         /\ \A s \in StreamNames : (cursor[s] <= Len(stream[s]))'
BY SameStream DEF SettledIsDurable, Acknowledged, Delivered

LEMMA DurableStep ==
  ASSUME MaxProjectionFailures = 0, TypeOK, SettledIsDurable, [Next]_vars
  PROVE  SettledIsDurable'
<1> USE DEF redisVars, storeVars, faultVars
<1>1. ASSUME NEW e \in Events, Publish(e)
      PROVE  SettledIsDurable'
  <2>1. ASSUME NEW n \in Acknowledged'
        PROVE  n \in Acknowledged
    <3>1. /\ n \in Entries'
          /\ n[2] <= cursor[n[1]]
          /\ n \notin pel
      BY <1>1 DEF Publish, Acknowledged, Delivered
    <3>2. n[1] \in StreamNames
      BY <3>1 DEF Entries, EntriesOf, StreamNames
    <3>3. cursor[n[1]] < Len(stream[n[1]]) + 1
      BY <3>2 DEF SettledIsDurable, TypeOK
    <3>4. n \in Entries
      BY <1>1, <3>1, <3>2, <3>3, PublishAddsEntry DEF TypeOK
    <3> QED
      BY <3>1, <3>4 DEF Acknowledged, Delivered
  <2>2. \A n \in Acknowledged' : EventOf(n)' \in dedupe
    BY <1>1, <2>1, PublishAddsEntry DEF SettledIsDurable, Acknowledged, Delivered
  <2>3. \A s \in StreamNames : (cursor[s] <= Len(stream[s]))'
    <3> SUFFICES ASSUME NEW s \in StreamNames PROVE (cursor[s] <= Len(stream[s]))'
      OBVIOUS
    <3>1. Len(stream'[s]) >= Len(stream[s]) /\ Len(stream'[s]) \in Nat
      BY <1>1 DEF Publish, TypeOK, StreamNames
    <3> QED
      BY <1>1, <3>1 DEF Publish, TypeOK, SettledIsDurable
  <2>4. \A n \in batch : EventOf(n)' = EventOf(n)
    BY <1>1, PublishAddsEntry DEF TypeOK
  <2> QED
    BY <1>1, <2>2, <2>3, <2>4 DEF SettledIsDurable, Publish, BatchIn
<1>2. CASE IdleElapses
  BY <1>2, SameStream, AcknowledgedStep DEF SettledIsDurable, IdleElapses, BatchIn
<1>3. CASE ReadBatch
  <2>1. ASSUME NEW n \in Acknowledged'
        PROVE  n \in Acknowledged
    <3>1. /\ n \in Entries
          /\ n[2] <= cursor'[n[1]]
          /\ n \notin pel'
      BY <1>3, <2>1, SameStream DEF ReadBatch, Acknowledged, Delivered
    <3>2. /\ n[1] \in StreamNames
          /\ n[2] \in 1..Len(stream[n[1]])
          /\ n \in EntriesOf(n[1])
      BY <3>1, EntryFacts DEF Entries, EntriesOf
    <3>3. n \notin Unread(n[1])
      BY <1>3, <3>1, <3>2 DEF ReadBatch
    <3>4. cursor'[n[1]] \in Int /\ cursor'[n[1]] <= cursor[n[1]] + Count
      <4> DEFINE s == n[1]
      <4>1. cursor[s] \in Nat /\ Len(stream[s]) \in Nat
        BY <3>2 DEF TypeOK
      <4>2. cursor'[s] = IF cursor[s] + Count <= Len(stream[s])
                         THEN cursor[s] + Count ELSE Len(stream[s])
        BY <1>3, <3>2 DEF ReadBatch
      <4> HIDE DEF s
      <4>3. cursor'[s] \in Int /\ cursor'[s] <= cursor[s] + Count
        BY <4>1, <4>2, BoundAssumption
      <4> QED
        BY <4>3 DEF s
    <3>5. n[2] <= cursor[n[1]]
      BY <3>1, <3>2, <3>3, <3>4, BoundAssumption, SMTT(30) DEF Unread, TypeOK
    <3>6. n \notin pel
      BY <1>3, <3>1 DEF ReadBatch
    <3> QED
      BY <3>1, <3>5, <3>6 DEF Acknowledged, Delivered
  <2>2. \A s \in StreamNames : (cursor[s] <= Len(stream[s]))'
    BY <1>3, BoundAssumption DEF ReadBatch, TypeOK
  <2> QED
    BY <1>3, <2>1, <2>2, SameStream DEF SettledIsDurable, ReadBatch, BatchIn
<1>4. ASSUME NEW n \in fetched, FilterEntry(n)
      PROVE  SettledIsDurable'
  <2>1. \A k \in pel \ pel' : EventOf(k) \in dedupe
    BY <1>4 DEF FilterEntry
  <2>2. /\ \A k \in Acknowledged' : EventOf(k)' \in dedupe'
        /\ \A s \in StreamNames : (cursor[s] <= Len(stream[s]))'
    BY <1>4, <2>1, AcknowledgedStep DEF FilterEntry
  <2> QED
    BY <1>4, <2>2, SameStream DEF SettledIsDurable, FilterEntry, BatchIn
<1>5. CASE ProcessBatch
  <2>1. /\ \A k \in Acknowledged' : EventOf(k)' \in dedupe'
        /\ \A s \in StreamNames : (cursor[s] <= Len(stream[s]))'
    BY <1>5, AcknowledgedStep DEF ProcessBatch
  <2>2. mem.processed \cup mem.operations \subseteq committed
    BY <1>5 DEF SettledIsDurable, ProcessBatch
  <2>3. UNCHANGED <<batch, committed, checkpoint, dedupe, stream>>
    BY <1>5 DEF ProcessBatch
  <2> QED
    BY <1>5, <2>1, <2>2, <2>3, ProcessedKnows, SameStream DEF SettledIsDurable, BatchIn
<1>6. CASE PersistProjections
  BY <1>6, SameStream, AcknowledgedStep DEF SettledIsDurable, PersistProjections, BatchIn
<1>7. CASE PersistState
  <2>1. /\ \A k \in Acknowledged' : EventOf(k)' \in dedupe'
        /\ \A s \in StreamNames : (cursor[s] <= Len(stream[s]))'
    BY <1>7, AcknowledgedStep DEF PersistState
  <2>2. /\ mem'.processed \cup checkpoint'.processed \subseteq mem.processed
        /\ mem'.operations = mem.operations
        /\ checkpoint'.operations = mem.operations
    BY <1>7, PrunedKnows DEF PersistState, TypeOK
  <2>3. /\ mem.operations \subseteq committed'
        /\ mem.processed \subseteq committed'
        /\ committed \subseteq committed'
        /\ BatchIn(committed)'
    BY <1>7, SameStream DEF SettledIsDurable, PersistState, BatchIn
  <2> QED
    BY <1>7, <2>1, <2>2, <2>3 DEF SettledIsDurable, PersistState
<1>8. ASSUME NEW n \in batch, MarkProcessed(n)
      PROVE  SettledIsDurable'
  <2>1. /\ \A k \in Acknowledged' : EventOf(k)' \in dedupe'
        /\ \A s \in StreamNames : (cursor[s] <= Len(stream[s]))'
    BY <1>8, AcknowledgedStep DEF MarkProcessed
  <2> QED
    BY <1>8, <2>1, SameStream DEF SettledIsDurable, MarkProcessed, BatchIn
<1>9. ASSUME NEW n \in batch, AckEntry(n)
      PROVE  SettledIsDurable'
  <2>1. /\ \A k \in Acknowledged' : EventOf(k)' \in dedupe'
        /\ \A s \in StreamNames : (cursor[s] <= Len(stream[s]))'
    BY <1>9, AcknowledgedStep DEF AckEntry
  <2> QED
    BY <1>9, <2>1, SameStream DEF SettledIsDurable, AckEntry, BatchIn
<1>10. CASE CallFails
  BY <1>10, SameStream, AcknowledgedStep DEF SettledIsDurable, CallFails, BatchIn
<1>11. CASE ProjectionFails
  BY <1>11 DEF ProjectionFails, TypeOK
<1>12. CASE Crash
  BY <1>12, SameStream, AcknowledgedStep DEF SettledIsDurable, Crash, BatchIn, EmptyPipeline
<1>13. CASE Restart
  BY <1>13, SameStream, AcknowledgedStep DEF SettledIsDurable, Restart, BatchIn
<1>14. CASE Retry
  BY <1>14, SameStream, AcknowledgedStep DEF SettledIsDurable, Retry, BatchIn
<1>15. CASE RetryFails
  BY <1>15, SameStream, AcknowledgedStep DEF SettledIsDurable, RetryFails, BatchIn, EmptyPipeline
<1>16. CASE UNCHANGED vars
  BY <1>16, SameStream, AcknowledgedStep DEF SettledIsDurable, vars, BatchIn
<1> QED
  BY <1>1, <1>2, <1>3, <1>4, <1>5, <1>6, <1>7, <1>8, <1>9, <1>10, <1>11, <1>12,
     <1>13, <1>14, <1>15, <1>16 DEF Next, WorkerStep

(* With no failing store call, however often the worker crashes or a Redis *)
(* call fails, an entry is acknowledged only after the effect of its event *)
(* is part of a written checkpoint.                                        *)
THEOREM AcknowledgesCommitted ==
  ASSUME MaxProjectionFailures = 0
  PROVE  Spec => []AckedIsCommitted
<1>1. Init => TypeOK /\ SettledIsDurable
  BY TypeInit, DurableInit
<1>2. TypeOK /\ SettledIsDurable /\ [Next]_vars => (TypeOK /\ SettledIsDurable)'
  BY TypeStep, DurableStep
<1>3. SettledIsDurable => AckedIsCommitted
  BY DEF SettledIsDurable, AckedIsCommitted
<1> QED
  BY <1>1, <1>2, <1>3, PTL DEF Spec

-----------------------------------------------------------------------------
(* The worker implements the ledger. *)

LEMMA KnownStep ==
  ASSUME TypeOK, KnownIsPublished, [Next]_vars
  PROVE  KnownIsPublished' /\ Published \subseteq Published'
<1> USE DEF redisVars, storeVars, faultVars
<1>1. Published \subseteq Published'
  <2>1. CASE \E e \in Events : Publish(e)
    BY <2>1, PublishAddsEntry DEF Published
  <2>2. CASE UNCHANGED stream
    BY <2>2, SameStream
  <2> QED
    BY <2>1, <2>2 DEF Next, WorkerStep, vars, IdleElapses, ReadBatch, FilterEntry,
       ProcessBatch, PersistProjections, PersistState, MarkProcessed, AckEntry,
       CallFails, ProjectionFails, Retry, RetryFails, Crash, Restart
<1>2. {EventOf(n) : n \in batch} \subseteq Published
  BY DEF TypeOK, Published
<1>3. mem'.processed \cup checkpoint'.processed \subseteq Published
  <2>1. CASE ProcessBatch
    BY <1>2, <2>1, ProcessedKnows DEF ProcessBatch, KnownIsPublished
  <2>2. CASE PersistState \/ ProjectionFails
    BY <2>2, PrunedKnows DEF PersistState, ProjectionFails, TypeOK, KnownIsPublished
  <2>3. CASE Crash \/ RetryFails
    BY <2>3 DEF Crash, RetryFails, EmptyPipeline, KnownIsPublished
  <2>4. CASE Restart
    BY <2>4 DEF Restart, KnownIsPublished
  <2>5. CASE UNCHANGED <<mem, checkpoint>>
    BY <2>5 DEF KnownIsPublished
  <2> QED
    BY <2>1, <2>2, <2>3, <2>4, <2>5
       DEF Next, WorkerStep, vars, Publish, IdleElapses, ReadBatch, FilterEntry,
           PersistProjections, MarkProcessed, AckEntry, CallFails, Retry
<1> QED
  BY <1>1, <1>3 DEF KnownIsPublished

LEMMA LedgerStep ==
  ASSUME MaxProjectionFailures = 0, TypeOK, SettledIsDurable, KnownIsPublished,
         [Next]_vars
  PROVE  [Ledger!Next]_(Ledger!vars)
<1> USE DEF redisVars, storeVars, faultVars
<1>1. ASSUME NEW e \in Events, Publish(e)
      PROVE  Ledger!Publish(e)
  <2>1. Published' = Published \cup {e}
    <3>1. Published \subseteq Published'
      BY <1>1, PublishAddsEntry DEF Published
    <3>2. Published' \subseteq Published \cup {e}
      BY <1>1, PublishAddsEntry DEF Published
    <3>3. e \in Published'
      <4> DEFINE n == <<StreamOf(e), Len(stream[StreamOf(e)]) + 1>>
      <4>1. /\ stream[StreamOf(e)] \in Seq(Events)
            /\ stream'[StreamOf(e)] = Append(stream[StreamOf(e)], e)
            /\ StreamOf(e) \in StreamNames
        BY <1>1 DEF Publish, TypeOK, StreamNames, StreamOf
      <4>2. /\ Len(stream[StreamOf(e)]) + 1 \in 1..Len(stream'[StreamOf(e)])
            /\ stream'[StreamOf(e)][Len(stream[StreamOf(e)]) + 1] = e
        BY <4>1
      <4>3. \A s \in StreamNames : \A i \in 1..Len(stream'[s]) : stream'[s][i] \in Published'
        <5> SUFFICES ASSUME NEW s \in StreamNames, NEW i \in 1..Len(stream'[s])
                     PROVE  stream'[s][i] \in Published'
          OBVIOUS
        <5>1. <<s, i>> \in Entries'
          BY DEF Entries, EntriesOf, StreamNames
        <5>2. EventOf(<<s, i>>)' = stream'[s][i]
          BY DEF EventOf
        <5> QED
          BY <5>1, <5>2 DEF Published
      <4> QED
        BY <4>1, <4>2, <4>3
    <3> QED
      BY <3>1, <3>2, <3>3
  <2> QED
    BY <1>1, <2>1 DEF Publish, Ledger!Publish
<1>2. CASE PersistState
  <2>1. mem.processed \subseteq Published
    BY DEF KnownIsPublished
  <2>2. Ledger!Commit(mem.processed)
    BY <1>2, SameStream DEF PersistState, Ledger!Commit
  <2> QED
    BY <2>1, <2>2 DEF Ledger!Next
<1>3. ASSUME NEW n \in batch, MarkProcessed(n)
      PROVE  Ledger!Next
  <2>1. EventOf(n) \in committed /\ EventOf(n) \in Events
    BY <1>3, EntryFacts DEF MarkProcessed, SettledIsDurable, BatchIn, TypeOK
  <2>2. Ledger!Settle(EventOf(n))
    BY <1>3, <2>1, SameStream DEF MarkProcessed, Ledger!Settle
  <2> QED
    BY <2>1, <2>2 DEF Ledger!Next
<1>4. CASE UNCHANGED <<stream, committed, dedupe>>
  BY <1>4, SameStream DEF Ledger!vars
<1> QED
  BY <1>1, <1>2, <1>3, <1>4
     DEF Next, WorkerStep, vars, IdleElapses, ReadBatch, FilterEntry, ProcessBatch,
         PersistProjections, AckEntry, CallFails, ProjectionFails, Retry, RetryFails, Crash, Restart,
         Ledger!Next

(* With no failing store call, the worker implements the exactly-once      *)
(* promise of EventLedger: an event is settled only once it is committed,  *)
(* and nothing that is committed or settled is ever taken back.            *)
THEOREM LedgerImplemented ==
  ASSUME MaxProjectionFailures = 0
  PROVE  Spec => ImplementsLedger
<1>1. Init => TypeOK /\ SettledIsDurable /\ KnownIsPublished /\ Ledger!Init
  <2>1. Init => KnownIsPublished /\ Ledger!Init
    BY DEF Init, KnownIsPublished, EmptyPipeline, Ledger!Init, Published, Entries,
           EntriesOf, StreamNames
  <2> QED
    BY <2>1, TypeInit, DurableInit
<1>2. TypeOK /\ SettledIsDurable /\ KnownIsPublished /\ [Next]_vars
        => (TypeOK /\ SettledIsDurable /\ KnownIsPublished)'
  BY TypeStep, DurableStep, KnownStep
<1>3. TypeOK /\ SettledIsDurable /\ KnownIsPublished /\ [Next]_vars
        => [Ledger!Next]_(Ledger!vars)
  BY LedgerStep
<1> QED
  BY <1>1, <1>2, <1>3, PTL DEF Spec, ImplementsLedger, Ledger!Spec

-----------------------------------------------------------------------------
(* Counting. *)

(* process_batch never takes a count back, and where no event has two      *)
(* entries it counts only what it does not remember and what is in time.   *)
LEMMA ProcessedCounts ==
  ASSUME TypeOK, ProcessBatch
  PROVE  /\ mem'.latest >= mem.latest
         /\ pc' # "project" => mem'.counted = mem.counted
         /\ \A p \in Payments : mem'.counted[p] >= mem.counted[p]
         /\ (\A n, k \in Entries : EventOf(n) = EventOf(k) => n = k) =>
              \A p \in Payments :
                \/ mem'.counted[p] = mem.counted[p]
                \/ /\ mem'.counted[p] = mem.counted[p] + 1
                   /\ p \notin mem.processed
                   /\ p \in mem'.processed
                   /\ mem.latest - OccurredAt[p] <= AllowedLateness
<1> DEFINE added == AddOperational(mem, BatchEvents("operations"))
           new == {n \in batch : n[1] = "payments" /\ EventOf(n) \notin added.processed}
           times == {mem.latest} \cup {OccurredAt[EventOf(n)] : n \in new}
           fresh(p) == {n \in new : EventOf(n) = p /\ InTime(added, new, n)}
<1>1. /\ added \in PipelineState
      /\ added.counted = mem.counted
      /\ added.latest = mem.latest
      /\ mem.processed \subseteq added.processed
      /\ mem \in PipelineState
  <2>1. mem \in PipelineState
    BY DEF TypeOK
  <2>2. BatchEvents("operations") \in SUBSET Operations
    BY BatchEventTypes
  <2>3. /\ added.counted = mem.counted
        /\ added.latest = mem.latest
        /\ mem.processed \subseteq added.processed
    BY <2>1 DEF AddOperational, PipelineState
  <2> QED
    BY <2>1, <2>2, <2>3, AddOperationalType
<1>2. new \subseteq Entries /\ IsFiniteSet(new)
  BY EntriesFinite, FS_Subset DEF TypeOK
<1>3. \/ mem' = added /\ pc' # "project"
      \/ /\ pc' = "project"
         /\ \E newest \in times : /\ \A t \in times : t <= newest
                                  /\ mem' = Ingested(added, new, newest)
  BY Zenon DEF ProcessBatch
<1> HIDE DEF added, new
<1>4. CASE mem' = added /\ pc' # "project"
  BY <1>1, <1>4 DEF PipelineState
<1>5. ASSUME pc' = "project", NEW newest \in times, mem.latest <= newest,
             mem' = Ingested(added, new, newest)
      PROVE  /\ mem'.latest >= mem.latest
             /\ \A p \in Payments : mem'.counted[p] >= mem.counted[p]
             /\ (\A n, k \in Entries : EventOf(n) = EventOf(k) => n = k) =>
                  \A p \in Payments :
                    \/ mem'.counted[p] = mem.counted[p]
                    \/ /\ mem'.counted[p] = mem.counted[p] + 1
                       /\ p \notin mem.processed
                       /\ p \in mem'.processed
                       /\ mem.latest - OccurredAt[p] <= AllowedLateness
  <2>1. newest \in Nat /\ mem.latest \in Nat
    BY <1>1, <1>2, EntryFacts, EventAssumption DEF PipelineState
  <2>2. /\ mem'.latest = newest
        /\ mem'.processed = added.processed \cup {EventOf(n) : n \in new}
        /\ mem'.counted = [p \in Payments |-> mem.counted[p] + Cardinality(fresh(p))]
    BY <1>1, <1>5 DEF Ingested, PipelineState
  <2>3. \A p \in Payments : /\ IsFiniteSet(fresh(p))
                            /\ Cardinality(fresh(p)) \in Nat
                            /\ mem.counted[p] \in Nat
    <3>1. \A p : fresh(p) \subseteq new
      OBVIOUS
    <3> HIDE DEF fresh
    <3>2. \A p : IsFiniteSet(fresh(p))
      BY <1>2, <3>1, FS_Subset
    <3> QED
      BY <1>1, <3>2, FS_CardinalityType DEF PipelineState
  <2>4. ASSUME \A n, k \in Entries : EventOf(n) = EventOf(k) => n = k,
               NEW p \in Payments, fresh(p) # {}
        PROVE  /\ Cardinality(fresh(p)) = 1
               /\ p \notin mem.processed
               /\ p \in mem'.processed
               /\ mem.latest - OccurredAt[p] <= AllowedLateness
    <3>1. PICK n : n \in fresh(p)
      BY <2>4
    <3>2. fresh(p) = {n}
      BY <1>2, <2>4, <3>1
    <3>3. /\ EventOf(n) = p /\ n \in new
          /\ mem.latest - OccurredAt[p] <= AllowedLateness
      BY <1>1, <3>1 DEF InTime
    <3>4. Cardinality(fresh(p)) = 1
      BY <3>2, FS_Singleton
    <3>5. p \notin added.processed
      BY <3>3 DEF new
    <3> QED
      BY <1>1, <2>2, <3>3, <3>4, <3>5
  <2> HIDE DEF fresh
  <2>5. \A p \in Payments : mem'.counted[p] = mem.counted[p] + Cardinality(fresh(p))
    BY <2>2
  <2>6. \A p \in Payments : fresh(p) = {} => Cardinality(fresh(p)) = 0
    BY FS_EmptySet
  <2>7. \A p \in Payments : mem'.counted[p] >= mem.counted[p]
    BY <2>3, <2>5
  <2> QED
    BY <1>5, <2>1, <2>2, <2>3, <2>4, <2>5, <2>6, <2>7
<1> QED
  BY <1>3, <1>4, <1>5

LEMMA CoversStep ==
  ASSUME TypeOK, MemoryCoversCheckpoint, [Next]_vars
  PROVE  MemoryCoversCheckpoint'
<1> USE DEF redisVars, storeVars, faultVars, MemoryCoversCheckpoint
<1>1. mem \in PipelineState /\ checkpoint \in PipelineState
  BY DEF TypeOK
<1>2. \A p \in Payments : mem.counted[p] \in Nat /\ checkpoint.counted[p] \in Nat
  BY <1>1 DEF PipelineState
<1>3. CASE ProcessBatch
  <2>1. \A p \in Payments : mem'.counted[p] \in Nat /\ mem'.counted[p] >= mem.counted[p]
    BY <1>3, ProcessedType, ProcessedCounts DEF PipelineState
  <2>2. pc # "down" /\ checkpoint' = checkpoint
    BY <1>3 DEF ProcessBatch
  <2> QED
    BY <1>2, <2>1, <2>2
<1>4. CASE PersistState \/ ProjectionFails
  <2>0. /\ Pruned(mem).counted = mem.counted
        /\ \A p \in Payments : Exported(mem).counted[p] \in {0, mem.counted[p]}
    BY <1>1, PrunedKnows
  <2>1. mem'.counted = mem.counted /\ pc # "down"
    BY <1>4, <2>0 DEF PersistState, ProjectionFails
  <2>2. \A p \in Payments : checkpoint'.counted[p] \in {0, mem.counted[p], checkpoint.counted[p]}
    BY <1>4, <2>0 DEF PersistState, ProjectionFails
  <2> QED
    BY <1>2, <2>1, <2>2
<1>5. CASE Crash \/ RetryFails
  BY <1>5 DEF Crash, RetryFails
<1>6. CASE Restart
  BY <1>2, <1>6 DEF Restart
<1>7. CASE UNCHANGED <<mem, checkpoint>> /\ (pc = "down" => pc' = "down")
  BY <1>7
<1> QED
  BY <1>3, <1>4, <1>5, <1>6, <1>7
     DEF Next, WorkerStep, vars, Publish, IdleElapses, ReadBatch, FilterEntry,
         PersistProjections, MarkProcessed, AckEntry, CallFails, Retry

LEMMA RetainsStep ==
  ASSUME TypeOK, MemoryCoversCheckpoint, [Next]_vars, NEW p \in Payments,
         BucketEnd(OccurredAt[p]) >= checkpoint'.latest - Retention
  PROVE  checkpoint'.counted[p] >= checkpoint.counted[p]
<1> USE DEF redisVars, storeVars, faultVars
<1>1. mem \in PipelineState /\ checkpoint.counted[p] \in Nat
  BY DEF TypeOK, PipelineState
<1>2. CASE PersistState
  <2>0. /\ Exported(mem).latest = mem.latest
        /\ BucketEnd(OccurredAt[p]) >= mem.latest - Retention
             => Exported(mem).counted[p] = mem.counted[p]
    BY <1>1, PrunedKnows
  <2>1. checkpoint'.counted[p] = mem.counted[p]
    BY <1>2, <2>0 DEF PersistState
  <2>2. mem.counted[p] >= checkpoint.counted[p]
    BY <1>2 DEF PersistState, MemoryCoversCheckpoint
  <2> QED
    BY <2>1, <2>2
<1>3. CASE checkpoint' = checkpoint
  BY <1>1, <1>3
<1> QED
  BY <1>2, <1>3
     DEF Next, WorkerStep, vars, Publish, IdleElapses, ReadBatch, FilterEntry,
         ProcessBatch, PersistProjections, MarkProcessed, AckEntry, CallFails,
         ProjectionFails, Retry, RetryFails, Crash, Restart

(* Whatever fails or crashes, a new checkpoint still counts every payment  *)
(* of the retention that an earlier checkpoint counted.                    *)
THEOREM CheckpointsRetain == Spec => CheckpointRetains
<1>1. Init => TypeOK /\ MemoryCoversCheckpoint
  BY TypeInit DEF Init, MemoryCoversCheckpoint, EmptyPipeline
<1>2. TypeOK /\ MemoryCoversCheckpoint /\ [Next]_vars
        => (TypeOK /\ MemoryCoversCheckpoint)'
  BY TypeStep, CoversStep
<1>3. TypeOK /\ MemoryCoversCheckpoint /\ [Next]_vars
        => [\A p \in Payments :
              BucketEnd(OccurredAt[p]) >= checkpoint'.latest - Retention
                => checkpoint'.counted[p] >= checkpoint.counted[p]]_vars
  BY RetainsStep
<1> QED
  BY <1>1, <1>2, <1>3, PTL DEF Spec, CheckpointRetains

(* The guard of Publish keeps the entries of an event apart. *)
LEMMA OneEntryStep ==
  ASSUME MaxCopies = 1, TypeOK, NEW e \in Events, Publish(e),
         \A n, k \in Entries : EventOf(n) = EventOf(k) => n = k
  PROVE  \A n, k \in Entries' : EventOf(n)' = EventOf(k)' => n = k
<1>1. Copies(e) = {}
  <2>1. Copies(e) \subseteq Entries
    BY DEF Copies
  <2>2. IsFiniteSet(Copies(e))
    BY <2>1, EntriesFinite, FS_Subset
  <2>3. Cardinality(Copies(e)) \in Nat /\ Cardinality(Copies(e)) < 1
    BY <2>2, FS_CardinalityType DEF Publish
  <2> QED
    BY <2>2, <2>3, FS_EmptySet
<1>2. \A n \in Entries : EventOf(n)' # e
  BY <1>1, PublishAddsEntry DEF Copies
<1>3. ASSUME NEW n \in Entries', NEW k \in Entries', n \notin Entries, k \notin Entries
      PROVE  n = k
  <2>1. /\ n = <<n[1], n[2]>> /\ k = <<k[1], k[2]>>
        /\ n[1] \in StreamNames /\ k[1] \in StreamNames
    BY DEF Entries, EntriesOf, StreamNames
  <2>2. n[2] = Len(stream[n[1]]) + 1 /\ k[2] = Len(stream[k[1]]) + 1
    BY <1>3, PublishAddsEntry
  <2>3. n[1] = StreamOf(e) /\ k[1] = StreamOf(e)
    <3>1. \A r \in StreamNames : r # StreamOf(e) => stream'[r] = stream[r]
      BY DEF Publish, TypeOK
    <3>2. \A r \in StreamNames : r # StreamOf(e) =>
            \A i : <<r, i>> \in Entries' => <<r, i>> \in Entries
      BY <3>1 DEF Entries, EntriesOf, StreamNames
    <3> QED
      BY <1>3, <2>1, <3>2
  <2> QED
    BY <2>1, <2>2, <2>3
<1> QED
  BY <1>2, <1>3, PublishAddsEntry

LEMMA RememberedStep ==
  ASSUME MaxCopies = 1, TypeOK, CountedIsRemembered, [Next]_vars
  PROVE  CountedIsRemembered'
<1> USE DEF redisVars, storeVars, faultVars
<1>1. mem \in PipelineState /\ checkpoint \in PipelineState
  BY DEF TypeOK
<1>2. \A p \in Payments : OccurredAt[p] \in Nat
  BY EventAssumption DEF Events
<1>3. (\A n, k \in Entries : EventOf(n) = EventOf(k) => n = k)'
  <2>1. CASE \E e \in Events : Publish(e)
    BY <2>1, OneEntryStep DEF CountedIsRemembered
  <2>2. CASE UNCHANGED stream
    BY <2>2, SameStream DEF CountedIsRemembered
  <2> QED
    BY <2>1, <2>2 DEF Next, WorkerStep, vars, IdleElapses, ReadBatch, FilterEntry,
       ProcessBatch, PersistProjections, PersistState, MarkProcessed, AckEntry,
       CallFails, ProjectionFails, Retry, RetryFails, Crash, Restart
<1>4. ASSUME NEW m \in PipelineState, RememberedOrLate(m)
      PROVE  RememberedOrLate(Pruned(m)) /\ RememberedOrLate(Exported(m))
  <2>1. /\ Pruned(m).processed = {e \in m.processed : OccurredAt[e] >= m.latest - Retention}
        /\ Exported(m).processed = Pruned(m).processed
    BY DEF PipelineState, Pruned, Exported
  <2>2. m.latest \in Nat
    BY DEF PipelineState
  <2>3. \A p \in Payments :
          p \in m.processed => \/ p \in Pruned(m).processed
                             \/ m.latest - OccurredAt[p] > Retention
    BY <1>2, <2>1, <2>2, WindowAssumption
  <2> QED
    BY <1>4, <2>1, <2>3, PrunedKnows DEF RememberedOrLate
<1>5. CASE ProcessBatch
  <2>1. /\ mem.latest \in Nat /\ mem'.latest \in Nat
        /\ \A p \in Payments : mem.counted[p] \in Nat
    BY <1>1, <1>5, ProcessedType DEF PipelineState
  <2>2. ASSUME NEW p \in Payments
        PROVE  /\ mem'.counted[p] \in {0, 1}
               /\ mem'.counted[p] = 1 => \/ p \in mem'.processed
                                         \/ mem'.latest - OccurredAt[p] > Retention
    <3>1. /\ mem.counted[p] \in {0, 1}
          /\ mem.counted[p] = 1 => p \in mem.processed \/ mem.latest - OccurredAt[p] > Retention
      BY DEF CountedIsRemembered, RememberedOrLate
    <3>2. mem.processed \subseteq mem'.processed /\ mem'.latest >= mem.latest
      BY <1>5, ProcessedKnows, ProcessedCounts
    <3>3. CASE mem'.counted[p] = mem.counted[p]
      BY <1>2, <2>1, <3>1, <3>2, <3>3, WindowAssumption
    <3>4. CASE /\ mem'.counted[p] = mem.counted[p] + 1
               /\ p \notin mem.processed
               /\ p \in mem'.processed
               /\ mem.latest - OccurredAt[p] <= AllowedLateness
      BY <1>2, <2>1, <3>1, <3>4, WindowAssumption
    <3> QED
      BY <1>5, <3>3, <3>4, ProcessedCounts DEF CountedIsRemembered
  <2>3. checkpoint' = checkpoint
    BY <1>5 DEF ProcessBatch
  <2> QED
    BY <1>3, <2>2, <2>3 DEF CountedIsRemembered, RememberedOrLate
<1>6. CASE PersistState \/ ProjectionFails
  <2>1. mem' = mem \/ mem' = Pruned(mem)
    BY <1>6 DEF PersistState, ProjectionFails
  <2>2. checkpoint' = checkpoint \/ checkpoint' = Exported(mem)
    BY <1>6 DEF PersistState, ProjectionFails
  <2> QED
    BY <1>1, <1>3, <1>4, <2>1, <2>2 DEF CountedIsRemembered, RememberedOrLate
<1>7. CASE Crash \/ RetryFails
  BY <1>3, <1>7 DEF Crash, RetryFails, EmptyPipeline, CountedIsRemembered, RememberedOrLate
<1>8. CASE Restart
  BY <1>3, <1>8 DEF Restart, CountedIsRemembered, RememberedOrLate
<1>9. CASE UNCHANGED <<mem, checkpoint>>
  BY <1>3, <1>9 DEF CountedIsRemembered, RememberedOrLate
<1> QED
  BY <1>5, <1>6, <1>7, <1>8, <1>9
     DEF Next, WorkerStep, vars, Publish, IdleElapses, ReadBatch, FilterEntry,
         PersistProjections, MarkProcessed, AckEntry, CallFails, Retry

(* If the streams hold each event once, no payment is counted twice,       *)
(* however often its entry is delivered and whatever fails in between, and *)
(* although processed ids are forgotten after the retention.               *)
THEOREM CountsOnce ==
  ASSUME MaxCopies = 1
  PROVE  Spec => []CountedAtMostOnce
<1>1. Init => TypeOK /\ CountedIsRemembered
  BY TypeInit DEF Init, CountedIsRemembered, RememberedOrLate, EmptyPipeline,
                  Entries, EntriesOf, StreamNames
<1>2. TypeOK /\ CountedIsRemembered /\ [Next]_vars => (TypeOK /\ CountedIsRemembered)'
  BY TypeStep, RememberedStep
<1>3. CountedIsRemembered => CountedAtMostOnce
  BY DEF CountedIsRemembered, RememberedOrLate, CountedAtMostOnce
<1> QED
  BY <1>1, <1>2, <1>3, PTL DEF Spec

-----------------------------------------------------------------------------
(* The projections served by the API. *)

LEMMA OverviewStep ==
  ASSUME MaxProjectionFailures = 0, TypeOK, OverviewCoversMemory, [Next]_vars,
         MemoryCoversCheckpoint
  PROVE  OverviewCoversMemory'
<1> USE DEF redisVars, storeVars, faultVars, OverviewCoversMemory, ProjectionCoversCheckpoint
<1>1. /\ mem \in PipelineState
      /\ \A p \in Payments : /\ mem.counted[p] \in Nat
                              /\ checkpoint.counted[p] \in Nat
                              /\ overview[p] \in Nat
  BY DEF TypeOK, PipelineState
<1>2. CASE ProcessBatch
  BY <1>2, ProcessedCounts DEF ProcessBatch
<1>3. CASE PersistProjections
  BY <1>1, <1>3 DEF PersistProjections, MemoryCoversCheckpoint
<1>4. CASE PersistState
  <2>1. /\ Pruned(mem).counted = mem.counted
        /\ \A p \in Payments : Exported(mem).counted[p] \in {0, mem.counted[p]}
    BY <1>1, PrunedKnows
  <2> QED
    BY <1>1, <1>4, <2>1 DEF PersistState
<1>5. CASE ProjectionFails
  BY <1>5 DEF ProjectionFails, TypeOK
<1>6. CASE Crash \/ RetryFails
  BY <1>6 DEF Crash, RetryFails
<1>7. CASE Restart
  BY <1>7 DEF Restart
<1>8. CASE UNCHANGED <<mem, checkpoint, overview>> /\ (pc' \notin {"project", "down"} => pc \notin {"project", "down"})
  BY <1>8
<1> QED
  BY <1>2, <1>3, <1>4, <1>5, <1>6, <1>7, <1>8
     DEF Next, WorkerStep, vars, Publish, IdleElapses, ReadBatch, FilterEntry,
         MarkProcessed, AckEntry, CallFails, Retry

(* With no failing store call, a restarted worker never knows of a payment *)
(* that the projections served by the API do not show.                     *)
THEOREM ProjectionsComeFirst ==
  ASSUME MaxProjectionFailures = 0
  PROVE  Spec => []ProjectionCoversCheckpoint
<1>1. Init => TypeOK /\ MemoryCoversCheckpoint /\ OverviewCoversMemory
  BY TypeInit DEF Init, MemoryCoversCheckpoint, OverviewCoversMemory, EmptyPipeline,
                  ProjectionCoversCheckpoint
<1>2. TypeOK /\ MemoryCoversCheckpoint /\ OverviewCoversMemory /\ [Next]_vars
        => (TypeOK /\ MemoryCoversCheckpoint /\ OverviewCoversMemory)'
  BY TypeStep, CoversStep, OverviewStep
<1>3. OverviewCoversMemory => ProjectionCoversCheckpoint
  BY DEF OverviewCoversMemory
<1> QED
  BY <1>1, <1>2, <1>3, PTL DEF Spec
=============================================================================
