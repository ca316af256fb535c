-------------------------- MODULE RuntimeResetProofs --------------------------
(***************************************************************************)
(* The epoch fence of RuntimeReset, for any number of batches, resets and  *)
(* faults, and any evidence of more than two batches.                      *)
(*                                                                         *)
(* Why more than two: at most two old batches reach a pipeline that was    *)
(* made after a reset, the one of a tick that was publishing when the      *)
(* reset came, and the one the worker had in hand.                         *)
(***************************************************************************)
EXTENDS RuntimeReset, FiniteSetTheorems, TLAPS

(* What TypeOK rests on: batches are numbered as they are published, an    *)
(* epoch is spent by a reset or by a restarted worker, and what opened an  *)
(* incident was processed.                                                 *)
Numbered == \E k \in 0..MaxBatches : DOMAIN born = 1..k

Spent ==
  lastEpoch + (IF apiPc = "idle" THEN 0 ELSE 1) + (IF wpc \in {"down", "adopt"} THEN 1 ELSE 0)

Bounded ==
  /\ Spent <= run + crashes
  /\ Faults <= MaxFaults

Computed ==
  /\ wpc \notin {"idle", "down", "adopt"} => batch \in DOMAIN born
  /\ mem.incident \subseteq mem.batches
  /\ checkpoint.incident \subseteq checkpoint.batches

TypeInv ==
  /\ TypeOK
  /\ Numbered
  /\ Bounded
  /\ Computed

USE SentinelAssumption, EvidenceAssumption, BoundAssumption

LEMMA InitTypeInv == Init => TypeInv
<1> SUFFICES ASSUME Init PROVE TypeInv
  OBVIOUS
<1>1. DOMAIN born = {}
  BY DEF Init
<1>2. Numbered
  <2>1. DOMAIN born = 1..0
    BY <1>1
  <2> QED
    BY <2>1 DEF Numbered
<1>3. TypeOK
  <2>1. mem \in Pipeline /\ checkpoint \in Pipeline
    BY DEF Init, Pipeline, EmptyPipeline
  <2>2. mem.batches = {} /\ checkpoint.batches = {}
    BY DEF Init, EmptyPipeline
  <2>3. 0 \in Runs /\ 0 \in Epochs /\ 0 \in 0..MaxFaults
    BY DEF Runs, Epochs
  <2>4. unread \cap pending = {} /\ running \in BOOLEAN
    BY DEF Init
  <2> QED
    BY <1>1, <2>1, <2>2, <2>3, <2>4 DEF Init, TypeOK
<1>4. Bounded
  BY DEF Init, Bounded, Spent, Faults
<1>5. Computed
  BY DEF Init, Computed, EmptyPipeline
<1> QED
  BY <1>2, <1>3, <1>4, <1>5 DEF TypeInv

(* The number a new batch gets. *)
LEMMA NextNumber ==
  ASSUME TypeInv
  PROVE  /\ Cardinality(DOMAIN born) \in Nat
         /\ DOMAIN born = 1..Cardinality(DOMAIN born)
<1>1. PICK k \in 0..MaxBatches : DOMAIN born = 1..k
  BY DEF TypeInv, Numbered
<1>2. Cardinality(1..k) = k
  BY <1>1, FS_Interval
<1> QED
  BY <1>1, <1>2

LEMMA TickPublishesTypeInv == TypeInv /\ TickPublishes => TypeInv'
<1> SUFFICES ASSUME TypeInv, TickPublishes PROVE TypeInv'
  OBVIOUS
<1> DEFINE n == Cardinality(DOMAIN born) + 1
<1>1. n \in Batches /\ DOMAIN born = 1..(n - 1) /\ n \notin DOMAIN born
  BY NextNumber DEF TickPublishes, Batches
<1>2. DOMAIN born' = DOMAIN born \cup {n}
  BY DEF TickPublishes
<1>3. \A m \in DOMAIN born' : born'[m] = IF m = n THEN tick ELSE born[m]
  BY DEF TickPublishes
<1>4. tick \in Runs /\ tick' = NoTick /\ unread' = unread \cup {n}
  BY DEF TickPublishes, TypeInv, TypeOK
<1> HIDE DEF n
<1>5. UNCHANGED <<run, running, pending, epochVars, apiPc, workerVars, rowVars, faultVars>>
  BY DEF TickPublishes
<1>6. Numbered'
  <2>1. DOMAIN born' = 1..n
    BY <1>1, <1>2 DEF Batches
  <2> QED
    BY <1>1, <2>1 DEF Numbered, Batches
<1>7. TypeOK'
  BY <1>1, <1>2, <1>3, <1>4, <1>5
  DEF TypeInv, TypeOK, epochVars, workerVars, rowVars, faultVars, Pipeline, Batches
<1>8. Bounded' /\ Computed'
  BY <1>2, <1>5 DEF TypeInv, Bounded, Computed, Spent, Faults, epochVars, workerVars, rowVars,
                    faultVars
<1> QED
  BY <1>6, <1>7, <1>8 DEF TypeInv

(* Every other step leaves the published batches alone. *)
LEMMA OtherTypeInv ==
  ASSUME TypeInv, TypeOK', Bounded', Computed', born' = born
  PROVE  TypeInv'
BY DEF TypeInv, Numbered

LEMMA TrafficTypeInv == TypeInv /\ (Start \/ TickBegins) => TypeInv'
<1> SUFFICES ASSUME TypeInv, Start \/ TickBegins PROVE TypeInv'
  OBVIOUS
<1> USE DEF trafficVars, queueVars, epochVars, workerVars, rowVars, faultVars
<1>1. CASE Start
  BY <1>1, OtherTypeInv DEF TypeInv, TypeOK, Bounded, Computed, Spent, Faults, Start
<1>2. CASE TickBegins
  BY <1>2, OtherTypeInv DEF TypeInv, TypeOK, Bounded, Computed, Spent, Faults, TickBegins
<1> QED
  BY <1>1, <1>2

LEMMA ApiTypeInv == TypeInv /\ (SimulatorReset \/ ApiStep \/ ResetFails) => TypeInv'
<1> SUFFICES ASSUME TypeInv, SimulatorReset \/ ApiStep \/ ResetFails PROVE TypeInv'
  OBVIOUS
<1> USE DEF trafficVars, queueVars, epochVars, workerVars, rowVars, faultVars,
            TypeInv, TypeOK, Bounded, Computed, Spent, Faults, Runs, Epochs, Pipeline, EmptyPipeline
<1>1. CASE SimulatorReset
  <2>1. run' \in Runs
    <3>1. run \in 0..MaxResets /\ run < MaxResets /\ run' = run + 1
      BY <1>1 DEF SimulatorReset
    <3> HIDE DEF TypeInv, TypeOK, Bounded, Computed
    <3> QED
      BY <3>1
  <2>2. running' = FALSE /\ epoch' = NoEpoch
    BY <1>1 DEF SimulatorReset
  <2>3. unread' = {} /\ pending' = {} /\ unread' \cap pending' = {} /\ apiPc' = "rows"
    BY <1>1 DEF SimulatorReset
  <2>4. UNCHANGED <<tick, born, lastEpoch, workerVars, rowVars, faultVars>>
    BY <1>1 DEF SimulatorReset
  <2>5. TypeOK'
    BY <2>1, <2>2, <2>3, <2>4
  <2>6. Bounded'
    BY <1>1 DEF SimulatorReset
  <2>7. Computed' /\ born' = born
    BY <1>1 DEF SimulatorReset
  <2> QED
    BY <2>5, <2>6, <2>7, OtherTypeInv
<1>2. CASE ResetRows
  BY <1>2, OtherTypeInv DEF ResetRows
<1>3. CASE SetEpoch
  BY <1>3, OtherTypeInv DEF SetEpoch
<1>4. CASE ResetFails
  BY <1>4, OtherTypeInv DEF ResetFails
<1> QED
  BY <1>1, <1>2, <1>3, <1>4 DEF ApiStep

LEMMA WorkerTypeInv == TypeInv /\ (WorkerStep \/ WorkerFails \/ Crash) => TypeInv'
<1> SUFFICES ASSUME TypeInv, WorkerStep \/ WorkerFails \/ Crash PROVE TypeInv'
  OBVIOUS
<1> USE DEF trafficVars, queueVars, epochVars, workerVars, rowVars, faultVars,
            TypeInv, TypeOK, Bounded, Computed, Spent, Faults
<1>1. CASE \E n \in Batches : Read(n)
  BY <1>1, OtherTypeInv DEF Read
<1>2. CASE CheckEpoch
  BY <1>2, OtherTypeInv DEF CheckEpoch
<1>3. CASE Clear
  BY <1>3, OtherTypeInv DEF Clear, EmptyPipeline, Pipeline
<1>4. CASE Renew
  BY <1>4, OtherTypeInv DEF Renew
<1>5. CASE ProcessBatch
  BY <1>5, OtherTypeInv DEF ProcessBatch, Pipeline
<1>6. CASE PersistOverview
  BY <1>6, OtherTypeInv DEF PersistOverview
<1>7. CASE PersistIncident
  BY <1>7, OtherTypeInv DEF PersistIncident
<1>8. CASE PersistState
  BY <1>8, OtherTypeInv DEF PersistState
<1>9. CASE RecheckEpoch
  BY <1>9, OtherTypeInv DEF RecheckEpoch
<1>10. CASE Ack
  BY <1>10, OtherTypeInv DEF Ack
<1>11. CASE Restart
  BY <1>11, OtherTypeInv DEF Restart
<1>12. CASE AdoptEpoch
  BY <1>12, OtherTypeInv DEF AdoptEpoch, Epochs, Runs
<1>13. CASE WorkerFails
  BY <1>13, OtherTypeInv DEF WorkerFails
<1>14. CASE Crash
  <2>1. TypeOK'
    BY <1>14 DEF Crash, EmptyPipeline, Pipeline
  <2>2. Bounded'
    BY <1>14 DEF Crash, Epochs, Runs
  <2>3. Computed' /\ born' = born
    BY <1>14 DEF Crash, EmptyPipeline
  <2> QED
    BY <2>1, <2>2, <2>3, OtherTypeInv
<1> QED
  BY <1>1, <1>2, <1>3, <1>4, <1>5, <1>6, <1>7, <1>8, <1>9, <1>10, <1>11, <1>12, <1>13, <1>14
  DEF WorkerStep

LEMMA StepTypeInv == TypeInv /\ [Next]_vars => TypeInv'
<1> SUFFICES ASSUME TypeInv, [Next]_vars PROVE TypeInv'
  OBVIOUS
<1>1. CASE UNCHANGED vars
  <2> USE DEF vars, trafficVars, queueVars, epochVars, workerVars, rowVars, faultVars, TypeInv
  <2>1. TypeOK'
    BY <1>1 DEF TypeOK, Pipeline
  <2>2. Bounded' /\ Computed' /\ born' = born
    BY <1>1 DEF Bounded, Computed, Spent, Faults
  <2> QED
    BY <2>1, <2>2, OtherTypeInv
<1> QED
  BY <1>1, TickPublishesTypeInv, TrafficTypeInv, ApiTypeInv, WorkerTypeInv DEF Next

(* Every reachable state of a reset has its type, and what is computed is  *)
(* computed from published batches (app.py, _commit_batch).                *)
THEOREM TypeCorrect == Spec => []TypeOK
<1>1. TypeInv => TypeOK
  BY DEF TypeInv
<1> QED
  BY <1>1, InitTypeInv, StepTypeInv, PTL DEF Spec

-----------------------------------------------------------------------------
(* The pipeline in memory was made after the current run began: the fence  *)
(* is the epoch, or it is not the first one and there was one reset.       *)
Renewed == (fence = epoch /\ epoch # NoEpoch) \/ (run = 1 /\ fence # 0)

Fresh(i) == \E n \in i : ~Old(n)

Late == tick # NoTick /\ tick < run

(* The old batches that can reach it: x was published after the reset by a *)
(* tick that began before, y was in hand.                                  *)
Leftovers(x, y) ==
  /\ \A n \in unread \cup pending : Old(n) => n = x /\ ~Late
  /\ Renewed => \A n \in mem.batches \cup ({batch} \cap DOMAIN born) :
       Old(n) => n = y \/ (n = x /\ ~Late)

AtMostTwo == \E x, y \in Batches \cup {NoBatch} : Leftovers(x, y)

(* Epochs are only compared, and a new one differs from every one before.  *)
Epochal ==
  /\ {fence, seen, epoch} \subseteq {NoEpoch} \cup 0..lastEpoch
  /\ run = 0 => {fence, seen, epoch} = {0}
  /\ run > 0 => epoch # 0
  /\ wpc \in {"process", "overview", "incident", "state", "recheck"} => seen = fence
  /\ wpc \notin {"down", "adopt"}

(* What is written or known after a reset is of it.                        *)
CleanRows ==
  /\ wpc \in {"renew", "renewAgain"} => incidents = {} /\ checkpoint = EmptyPipeline
  /\ wpc = "incident" => mem.incident # {}
  /\ {} \notin incidents
  /\ Renewed => \A i \in incidents : Fresh(i)
  /\ Renewed /\ mem.incident # {} => Fresh(mem.incident)

(* After an undisturbed first reset a worker that still has the first      *)
(* epoch has written nothing, or will look at the epoch again.             *)
Behind ==
  run = 1 /\ fence = 0 /\ apiFailures = 0 /\ failures = 0 /\ apiPc # "rows" =>
    \/ wpc \in {"process", "overview", "incident", "state", "recheck", "clearAgain"}
    \/ incidents = {}

(* A worker that crashed adopts the epoch it finds.                        *)
FenceInv == crashes = 0 => AtMostTwo /\ Epochal /\ CleanRows /\ Behind

LEMMA PairIsTwo ==
  ASSUME NEW S, NEW x, NEW y, \A n \in S : n = x \/ n = y
  PROVE  Cardinality(S) <= 2
<1>1. IsFiniteSet({x}) /\ Cardinality({x}) = 1
  BY FS_Singleton
<1>2. IsFiniteSet({x} \cup {y}) /\ Cardinality({x} \cup {y}) <= 2
  <2>1. IsFiniteSet({x} \cup {y})
    BY <1>1, FS_AddElement
  <2>2. Cardinality({x} \cup {y}) = IF y \in {x} THEN 1 ELSE 1 + 1
    BY <1>1, FS_AddElement
  <2> QED
    BY <2>1, <2>2
<1>3. S \subseteq {x} \cup {y}
  OBVIOUS
<1>4. Cardinality(S) <= Cardinality({x} \cup {y}) /\ Cardinality(S) \in Nat
      /\ Cardinality({x} \cup {y}) \in Nat
  BY <1>2, <1>3, FS_Subset, FS_CardinalityType
<1> QED
  BY <1>2, <1>4

LEMMA InitFenceInv == Init => FenceInv
<1> SUFFICES ASSUME Init PROVE AtMostTwo /\ Epochal /\ CleanRows /\ Behind
  BY DEF FenceInv
<1>1. AtMostTwo
  <2>1. Leftovers(NoBatch, NoBatch)
    BY DEF Init, Leftovers, EmptyPipeline
  <2> QED
    BY <2>1 DEF AtMostTwo
<1>2. Epochal
  BY DEF Init, Epochal
<1>3. CleanRows
  BY DEF Init, CleanRows, EmptyPipeline
<1>4. Behind
  BY DEF Init, Behind
<1> QED
  BY <1>1, <1>2, <1>3, <1>4

-----------------------------------------------------------------------------
(* What the induction step starts from. *)
Before == TypeInv /\ TypeInv' /\ FenceInv /\ crashes = 0 /\ crashes' = 0

LEMMA EpochalStep == Before /\ [Next]_vars => Epochal'
<1> SUFFICES ASSUME Before, [Next]_vars PROVE Epochal'
  OBVIOUS
<1> USE DEF Epochal, trafficVars, queueVars, epochVars, workerVars, rowVars, faultVars
<1>1. Epochal /\ lastEpoch \in Nat /\ run \in Nat
  BY DEF Before, FenceInv, TypeInv, TypeOK, Epochs, Runs
<1>2. apiPc # "idle" => run > 0
  BY DEF Before, TypeInv, TypeOK, Bounded, Spent, Epochs, Runs
<1>3. NoEpoch \notin 0..lastEpoch /\ NoEpoch \notin 0..lastEpoch'
  BY DEF Before, TypeInv, TypeOK, Epochs, Runs
<1>4. CASE Start \/ TickBegins \/ TickPublishes
  BY <1>1, <1>4 DEF Start, TickBegins, TickPublishes
<1>5. CASE SimulatorReset
  BY <1>1, <1>3, <1>5 DEF SimulatorReset
<1>6. CASE ResetRows \/ ResetFails
  BY <1>1, <1>6 DEF ResetRows, ResetFails
<1>7. CASE SetEpoch
  BY <1>1, <1>2, <1>3, <1>7 DEF SetEpoch
<1>8. CASE CheckEpoch
  BY <1>1, <1>8 DEF CheckEpoch
<1>9. CASE Renew
  BY <1>1, <1>9 DEF Renew
<1>10. CASE RecheckEpoch
  BY <1>1, <1>10 DEF RecheckEpoch
<1>11. CASE (\E n \in Batches : Read(n)) \/ Clear \/ Ack \/ WorkerFails
  BY <1>1, <1>11 DEF Read, Clear, Ack, WorkerFails
<1>12. CASE ProcessBatch
  BY <1>1, <1>12 DEF ProcessBatch
<1>13. CASE PersistOverview \/ PersistIncident \/ PersistState
  BY <1>1, <1>13 DEF PersistOverview, PersistIncident, PersistState
<1>14. CASE Crash \/ Restart \/ AdoptEpoch
  BY <1>1, <1>14 DEF Before, Crash, Restart, AdoptEpoch
<1>15. CASE UNCHANGED vars
  BY <1>1, <1>15 DEF vars
<1> QED
  BY <1>4, <1>5, <1>6, <1>7, <1>8, <1>9, <1>10, <1>11, <1>12, <1>13, <1>14, <1>15
  DEF Next, ApiStep, WorkerStep

LEMMA BehindStep == Before /\ [Next]_vars => Behind'
<1> SUFFICES ASSUME Before, [Next]_vars PROVE Behind'
  OBVIOUS
<1> USE DEF Behind, trafficVars, queueVars, epochVars, workerVars, rowVars, faultVars
<1>1. Behind /\ Epochal
  BY DEF Before, FenceInv
<1>2. Faults \in Nat /\ apiFailures \in Nat /\ failures \in Nat
  BY DEF Before, TypeInv, TypeOK, Faults
<1>3. CASE Start \/ TickBegins \/ TickPublishes \/ SimulatorReset
  BY <1>1, <1>3 DEF Start, TickBegins, TickPublishes, SimulatorReset
<1>4. CASE ResetRows \/ SetEpoch
  BY <1>1, <1>4 DEF ResetRows, SetEpoch
<1>5. CASE ResetFails \/ WorkerFails
  BY <1>1, <1>2, <1>5 DEF ResetFails, WorkerFails
<1>6. CASE CheckEpoch
  BY <1>1, <1>6 DEF CheckEpoch, Epochal
<1>7. CASE RecheckEpoch
  BY <1>1, <1>7 DEF RecheckEpoch, Epochal
<1>8. CASE Renew
  BY <1>8 DEF Renew, Before, FenceInv, CleanRows
<1>9. CASE (\E n \in Batches : Read(n)) \/ Clear \/ Ack
  BY <1>1, <1>9 DEF Read, Clear, Ack
<1>10. CASE ProcessBatch
  BY <1>1, <1>10 DEF ProcessBatch
<1>11. CASE PersistOverview \/ PersistIncident \/ PersistState
  BY <1>1, <1>11 DEF PersistOverview, PersistIncident, PersistState
<1>12. CASE Crash \/ Restart \/ AdoptEpoch
  BY <1>1, <1>12 DEF Before, Crash, Restart, AdoptEpoch, Epochal
<1>13. CASE UNCHANGED vars
  BY <1>1, <1>13 DEF vars
<1> QED
  BY <1>3, <1>4, <1>5, <1>6, <1>7, <1>8, <1>9, <1>10, <1>11, <1>12, <1>13
  DEF Next, ApiStep, WorkerStep

(* The pipeline is renewed by Renew, and until the next reset no step of   *)
(* anyone else makes it so.                                                *)
LEMMA RenewedStep == Before /\ [Next]_vars /\ Renewed' /\ ~Renew => Renewed /\ run' = run
<1> SUFFICES ASSUME Before, [Next]_vars, Renewed', ~Renew PROVE Renewed /\ run' = run
  OBVIOUS
<1> USE DEF Renewed, trafficVars, queueVars, epochVars, workerVars, rowVars, faultVars
<1>1. Epochal /\ lastEpoch \in Nat /\ run \in Nat
  BY DEF Before, FenceInv, TypeInv, TypeOK, Epochs, Runs
<1>2. CASE Start \/ TickBegins \/ TickPublishes
  BY <1>2 DEF Start, TickBegins, TickPublishes
<1>3. CASE SimulatorReset
  BY <1>1, <1>3 DEF SimulatorReset, Epochal
<1>4. CASE SetEpoch
  <2>1. fence' # epoch' /\ run' = run /\ fence' = fence
    BY <1>1, <1>4 DEF SetEpoch, Epochal, Before, TypeInv, TypeOK, Epochs
  <2> QED
    BY <2>1
<1>5. CASE ResetRows \/ ResetFails
  BY <1>5 DEF ResetRows, ResetFails
<1>6. CASE CheckEpoch \/ RecheckEpoch \/ ProcessBatch
  BY <1>6 DEF CheckEpoch, RecheckEpoch, ProcessBatch
<1>7. CASE (\E n \in Batches : Read(n)) \/ Clear \/ Ack \/ WorkerFails
  BY <1>7 DEF Read, Clear, Ack, WorkerFails
<1>8. CASE PersistOverview \/ PersistIncident \/ PersistState
  BY <1>8 DEF PersistOverview, PersistIncident, PersistState
<1>9. CASE Crash \/ Restart \/ AdoptEpoch
  BY <1>1, <1>9 DEF Before, Crash, Restart, AdoptEpoch, Epochal
<1>10. CASE UNCHANGED vars
  BY <1>10 DEF vars
<1> QED
  BY <1>2, <1>3, <1>4, <1>5, <1>6, <1>7, <1>8, <1>9, <1>10 DEF Next, ApiStep, WorkerStep

(* Within a run what is fresh stays fresh. *)
LEMMA FreshStays ==
  ASSUME Before, [Next]_vars, run' = run, NEW i \in SUBSET DOMAIN born, Fresh(i)
  PROVE  Fresh(i)'
<1>1. \A n \in DOMAIN born : born'[n] = born[n]
  <2>1. CASE TickPublishes
    <3>1. Cardinality(DOMAIN born) + 1 \notin DOMAIN born
      BY NextNumber DEF Before
    <3>2. born' = [k \in DOMAIN born \cup {Cardinality(DOMAIN born) + 1} |->
                     IF k = Cardinality(DOMAIN born) + 1 THEN tick ELSE born[k]]
      BY <2>1 DEF TickPublishes
    <3> QED
      BY <3>1, <3>2
  <2>2. CASE ~TickPublishes
    BY <2>2 DEF Next, WorkerStep, ApiStep, Start, TickBegins, SimulatorReset, ResetRows, SetEpoch,
                ResetFails, Read, CheckEpoch, Clear, Renew, ProcessBatch, PersistOverview,
                PersistIncident, PersistState, RecheckEpoch, Ack, WorkerFails, Crash, Restart,
                AdoptEpoch, trafficVars, vars
  <2> QED
    BY <2>1, <2>2
<1> QED
  BY <1>1 DEF Fresh, Old

(* Three batches cannot all be leftovers. *)
LEMMA OpenedIsFresh ==
  ASSUME Before, Renewed, wpc = "process",
         Cardinality(mem.batches \cup {batch}) >= Evidence
  PROVE  Fresh(mem.batches \cup {batch})
<1>1. PICK x, y \in Batches \cup {NoBatch} : Leftovers(x, y)
  BY DEF Before, FenceInv, AtMostTwo
<1>2. batch \in DOMAIN born
  BY DEF Before, TypeInv, Computed
<1>3. ASSUME ~Fresh(mem.batches \cup {batch}) PROVE FALSE
  <2>1. \A n \in mem.batches \cup {batch} : n = x \/ n = y
    BY <1>1, <1>2, <1>3 DEF Leftovers, Fresh
  <2>2. Cardinality(mem.batches \cup {batch}) <= 2
    BY <2>1, PairIsTwo
  <2>3. Cardinality(mem.batches \cup {batch}) \in Nat
    <3>1. IsFiniteSet({x} \cup {y})
      BY FS_Singleton, FS_AddElement
    <3>2. mem.batches \cup {batch} \in SUBSET ({x} \cup {y})
      BY <2>1
    <3> QED
      BY <3>1, <3>2, FS_Subset, FS_CardinalityType
  <2> QED
    BY <2>2, <2>3
<1> QED
  BY <1>3

LEMMA CleanRowsStep == Before /\ [Next]_vars => CleanRows'
<1> SUFFICES ASSUME Before, [Next]_vars PROVE CleanRows'
  OBVIOUS
<1> USE DEF trafficVars, queueVars, epochVars, workerVars, rowVars, faultVars
<1>1. CleanRows /\ Epochal
  BY DEF Before, FenceInv
<1> DEFINE Shape == /\ wpc \in {"renew", "renewAgain"} =>
                          incidents = {} /\ checkpoint = EmptyPipeline
                    /\ wpc = "incident" => mem.incident # {}
                    /\ {} \notin incidents
<1>2. Shape'
  <2>1. CASE Start \/ TickBegins \/ TickPublishes \/ SimulatorReset
    BY <1>1, <2>1 DEF CleanRows, Start, TickBegins, TickPublishes, SimulatorReset
  <2>2. CASE ResetRows \/ SetEpoch \/ ResetFails
    BY <1>1, <2>2 DEF CleanRows, ResetRows, SetEpoch, ResetFails
  <2>3. CASE CheckEpoch \/ RecheckEpoch \/ ProcessBatch \/ Clear
    BY <1>1, <2>3 DEF CleanRows, CheckEpoch, RecheckEpoch, ProcessBatch, Clear
  <2>4. CASE Renew \/ (\E n \in Batches : Read(n)) \/ Ack \/ WorkerFails
    BY <1>1, <2>4 DEF CleanRows, Renew, Read, Ack, WorkerFails
  <2>5. CASE PersistOverview \/ PersistIncident \/ PersistState
    BY <1>1, <2>5 DEF CleanRows, PersistOverview, PersistIncident, PersistState
  <2>6. CASE Crash \/ Restart \/ AdoptEpoch
    BY <1>1, <2>6 DEF Before, Crash, Restart, AdoptEpoch, Epochal
  <2>7. CASE UNCHANGED vars
    BY <1>1, <2>7 DEF CleanRows, vars
  <2> QED
    BY <2>1, <2>2, <2>3, <2>4, <2>5, <2>6, <2>7 DEF Next, ApiStep, WorkerStep
<1>3. ASSUME Renewed', ~Renew
      PROVE  /\ \A i \in incidents' : Fresh(i)'
             /\ mem'.incident # {} => Fresh(mem.incident)'
  <2>1. Renewed /\ run' = run
    BY <1>3, RenewedStep
  <2>2. mem.incident \subseteq DOMAIN born /\ \A i \in incidents : i \subseteq DOMAIN born
    BY DEF Before, TypeInv, TypeOK, Computed
  <2>3. /\ \A i \in incidents : Fresh(i)'
        /\ mem.incident # {} => \E n \in mem.incident : ~Old(n)'
    <3>1. \A i \in incidents : Fresh(i)'
      BY <1>1, <2>1, <2>2, FreshStays DEF CleanRows
    <3>2. ASSUME mem.incident # {} PROVE \E n \in mem.incident : ~Old(n)'
      <4> DEFINE j == mem.incident
      <4>1. j \in SUBSET DOMAIN born /\ Fresh(j)
        BY <1>1, <2>1, <2>2, <3>2 DEF CleanRows
      <4> HIDE DEF j
      <4>2. PICK n \in j : ~Old(n)
        BY <4>1 DEF Fresh
      <4>3. {n} \in SUBSET DOMAIN born /\ Fresh({n})
        BY <4>1, <4>2 DEF Fresh
      <4>4. \A i \in SUBSET DOMAIN born : Fresh(i) => Fresh(i)'
        BY <2>1, FreshStays
      <4>5. ~Old(n)'
        BY <4>3, <4>4 DEF Fresh
      <4> QED
        BY <4>2, <4>5 DEF j
    <3> QED
      BY <3>1, <3>2
  <2>4. CASE PersistIncident
    BY <1>1, <2>1, <2>3, <2>4 DEF PersistIncident, CleanRows, Fresh
  <2>5. CASE ProcessBatch
    <3>1. \A n : Old(n)' <=> Old(n)
      BY <2>5 DEF ProcessBatch, Old
    <3>2. CASE mem'.incident = mem.incident
      BY <2>3, <2>5, <3>2 DEF ProcessBatch, Fresh
    <3>3. CASE mem'.incident # mem.incident
      <4>1. /\ mem'.incident = mem.batches \cup {batch}
            /\ Cardinality(mem.batches \cup {batch}) >= Evidence
            /\ wpc = "process"
            /\ incidents' = incidents
        BY <2>5, <3>3 DEF ProcessBatch, Before, TypeInv, TypeOK, Pipeline
      <4>2. Fresh(mem.batches \cup {batch})
        BY <2>1, <4>1, OpenedIsFresh
      <4> QED
        BY <2>3, <3>1, <4>1, <4>2 DEF Fresh
    <3> QED
      BY <3>2, <3>3
  <2>6. CASE incidents' = {} /\ mem' = mem
    BY <2>3, <2>6 DEF Fresh
  <2>7. CASE incidents' = incidents /\ mem' = mem
    BY <2>3, <2>7 DEF Fresh
  <2>8. CASE Clear \/ ResetRows
    BY <2>6, <2>8 DEF Clear, ResetRows
  <2>9. CASE Crash \/ Restart \/ AdoptEpoch
    BY <1>1, <2>9 DEF Before, Crash, Restart, AdoptEpoch, Epochal
  <2>10. ASSUME ~PersistIncident, ~ProcessBatch, ~Clear, ~ResetRows,
                ~(Crash \/ Restart \/ AdoptEpoch)
         PROVE  incidents' = incidents /\ mem' = mem
    BY <1>3, <2>10
    DEF Next, WorkerStep, ApiStep, Start, TickBegins, TickPublishes, SimulatorReset, SetEpoch,
        ResetFails, Read, CheckEpoch, PersistOverview, PersistState, RecheckEpoch, Ack,
        WorkerFails, vars
  <2> QED
    BY <2>4, <2>5, <2>7, <2>8, <2>9, <2>10
<1>4. CASE Renew
  BY <1>1, <1>2, <1>4 DEF Renew, CleanRows, EmptyPipeline
<1>5. CASE ~Renew
  BY <1>2, <1>3, <1>5 DEF CleanRows
<1> QED
  BY <1>4, <1>5

-----------------------------------------------------------------------------
(* A late tick adds one leftover, the batch it publishes, and there is no  *)
(* late tick after it.                                                     *)
LEMMA TickPublishesTwo == Before /\ TickPublishes => AtMostTwo'
<1> SUFFICES ASSUME Before, TickPublishes PROVE AtMostTwo'
  OBVIOUS
<1>1. PICK x, y \in Batches \cup {NoBatch} : Leftovers(x, y)
  BY DEF Before, FenceInv, AtMostTwo
<1>2. PICK n \in Batches : n = Cardinality(DOMAIN born) + 1
  BY NextNumber DEF TickPublishes, Batches, Before
<1>3. n \notin DOMAIN born /\ run \in Nat
  BY <1>2, NextNumber DEF Before, TypeInv, TypeOK, Runs
<1>4. /\ DOMAIN born' = DOMAIN born \cup {n}
      /\ \A k \in DOMAIN born : born'[k] = born[k]
      /\ born'[n] = tick
      /\ unread' = unread \cup {n}
      /\ UNCHANGED <<run, pending, epoch, fence, mem, batch>>
      /\ tick' = NoTick
      /\ tick # NoTick
      /\ tick \in Nat
  BY <1>2, <1>3 DEF TickPublishes, epochVars, workerVars, Before, TypeInv, TypeOK, Runs
<1>5. /\ unread \cup pending \subseteq DOMAIN born
      /\ mem.batches \subseteq DOMAIN born
      /\ batch \in DOMAIN born \cup {NoBatch}
      /\ NoBatch # n
  BY DEF Before, TypeInv, TypeOK
<1>6. ~Late'
  BY <1>4 DEF Late
<1>7. \A k \in DOMAIN born : Old(k)' <=> Old(k)
  BY <1>4 DEF Old
<1>8. Renewed' <=> Renewed
  BY <1>4 DEF Renewed
<1>9. CASE Late
  <2>1. Leftovers(n, y)'
    BY <1>1, <1>4, <1>5, <1>6, <1>7, <1>8, <1>9 DEF Leftovers
  <2> QED
    BY <1>2, <2>1 DEF AtMostTwo
<1>10. CASE ~Late
  <2>1. ~Old(n)'
    BY <1>3, <1>4, <1>10 DEF Old, Late
  <2>2. Leftovers(x, y)'
    BY <1>1, <1>4, <1>5, <1>6, <1>7, <1>8, <1>10, <2>1 DEF Leftovers
  <2> QED
    BY <2>2 DEF AtMostTwo
<1> QED
  BY <1>9, <1>10

LEMMA AtMostTwoStep == Before /\ [Next]_vars => AtMostTwo'
<1> SUFFICES ASSUME Before, [Next]_vars PROVE AtMostTwo'
  OBVIOUS
<1> USE DEF trafficVars, queueVars, epochVars, workerVars, rowVars, faultVars
<1>1. PICK x, y \in Batches \cup {NoBatch} : Leftovers(x, y)
  BY DEF Before, FenceInv, AtMostTwo
<1>2. CASE TickPublishes
  BY <1>2, TickPublishesTwo
<1>3. CASE SimulatorReset
  <2>1. ~Renewed' /\ unread' = {} /\ pending' = {}
    BY <1>3 DEF SimulatorReset, Renewed, Before, FenceInv, Epochal, TypeInv, TypeOK, Runs
  <2>2. Leftovers(x, y)'
    BY <2>1 DEF Leftovers
  <2> QED
    BY <2>2 DEF AtMostTwo
<1>4. CASE Renew
  <2>1. mem'.batches = {} /\ UNCHANGED <<run, tick, born, unread, pending, batch>>
    BY <1>4 DEF Renew, Before, FenceInv, CleanRows, EmptyPipeline
  <2>2. PICK z \in Batches \cup {NoBatch} : z = batch
    BY DEF Before, TypeInv, TypeOK
  <2>3. Leftovers(x, z)'
    BY <1>1, <2>1, <2>2 DEF Leftovers, Old, Late
  <2> QED
    BY <2>3 DEF AtMostTwo
<1>5. CASE Crash \/ Restart \/ AdoptEpoch
  BY <1>5 DEF Before, FenceInv, Epochal, Crash, Restart, AdoptEpoch
<1>6. ASSUME ~TickPublishes, ~SimulatorReset, ~Renew, ~(Crash \/ Restart \/ AdoptEpoch)
      PROVE  Leftovers(x, y)'
  <2>1. Renewed' => Renewed
    BY <1>6, RenewedStep
  <2>2. CASE Start \/ TickBegins
    BY <1>1, <2>1, <2>2 DEF Leftovers, Old, Late, Start, TickBegins, Before, TypeInv, TypeOK, Runs
  <2>3. CASE ResetRows \/ SetEpoch \/ ResetFails
    BY <1>1, <2>1, <2>3 DEF Leftovers, Old, Late, ResetRows, SetEpoch, ResetFails
  <2>4. CASE \E n \in Batches : Read(n)
    BY <1>1, <2>1, <2>4 DEF Leftovers, Old, Late, Read
  <2>5. CASE CheckEpoch \/ RecheckEpoch \/ Clear
    BY <1>1, <2>1, <2>5 DEF Leftovers, Old, Late, CheckEpoch, RecheckEpoch, Clear
  <2>6. CASE ProcessBatch
    <3>1. mem'.batches \subseteq mem.batches \cup ({batch} \cap DOMAIN born)
      BY <2>6 DEF ProcessBatch, Before, TypeInv, TypeOK, Computed, Pipeline
    <3> QED
      BY <1>1, <2>1, <2>6, <3>1 DEF Leftovers, Old, Late, ProcessBatch
  <2>7. CASE PersistOverview \/ PersistIncident \/ PersistState
    BY <1>1, <2>1, <2>7 DEF Leftovers, Old, Late, PersistOverview, PersistIncident, PersistState
  <2>8. CASE Ack \/ WorkerFails
    <3>1. NoBatch \notin DOMAIN born
      BY DEF Before, TypeInv, TypeOK
    <3> QED
      BY <1>1, <2>1, <2>8, <3>1 DEF Leftovers, Old, Late, Ack, WorkerFails
  <2>9. CASE UNCHANGED vars
    BY <1>1, <2>1, <2>9 DEF Leftovers, Old, Late, vars
  <2> QED
    BY <1>6, <2>2, <2>3, <2>4, <2>5, <2>6, <2>7, <2>8, <2>9 DEF Next, ApiStep, WorkerStep
<1> QED
  BY <1>2, <1>3, <1>4, <1>5, <1>6 DEF AtMostTwo

LEMMA StepFenceInv == TypeInv /\ TypeInv' /\ FenceInv /\ [Next]_vars => FenceInv'
<1> SUFFICES ASSUME TypeInv, TypeInv', FenceInv, [Next]_vars, crashes' = 0
             PROVE  AtMostTwo' /\ Epochal' /\ CleanRows' /\ Behind'
  BY DEF FenceInv
<1>1. crashes = 0
  <2>1. crashes \in Nat
    BY DEF TypeInv, TypeOK
  <2>2. crashes' = crashes \/ crashes' = crashes + 1
    BY DEF Next, WorkerStep, ApiStep, Start, TickBegins, TickPublishes, SimulatorReset, ResetRows,
           SetEpoch, ResetFails, Read, CheckEpoch, Clear, Renew, ProcessBatch, PersistOverview,
           PersistIncident, PersistState, RecheckEpoch, Ack, WorkerFails, Crash, Restart,
           AdoptEpoch, faultVars, vars
  <2> QED
    BY <2>1, <2>2
<1> QED
  BY <1>1, AtMostTwoStep, EpochalStep, CleanRowsStep, BehindStep DEF Before

LEMMA Invariance == Spec => [](TypeInv /\ FenceInv)
<1>1. TypeInv /\ FenceInv /\ [Next]_vars => TypeInv' /\ FenceInv'
  BY StepTypeInv, StepFenceInv
<1> QED
  BY <1>1, InitTypeInv, InitFenceInv, PTL DEF Spec

(* While the worker's fence is the current epoch, no incident of an        *)
(* earlier run is in PostgreSQL or in the pipeline's memory, however many  *)
(* resets there were, wherever they and the worker's calls failed, and     *)
(* whatever the API and the simulator are doing (app.py:84-86, 100-108).   *)
THEOREM FencedStaysClean == Spec => []FencedIsClean
<1>1. FenceInv => FencedIsClean
  BY DEF FenceInv, CleanRows, Renewed, Fresh, FencedIsClean
<1> QED
  BY <1>1, Invariance, PTL

(* A worker that is in the middle of a batch when the first reset comes    *)
(* leaves no incident of before it behind (app.py:93-96).                  *)
THEOREM RecheckHolds == Spec => []RecheckKeepsOldIncidentsOut
<1>1. TypeInv /\ FenceInv => RecheckKeepsOldIncidentsOut
  <2> SUFFICES ASSUME TypeInv, FenceInv, run <= 1, faultVars = <<0, 0, 0>>,
                      apiPc = "idle", Settled,
                      NEW i \in incidents
               PROVE  \E n \in i : ~Old(n)
    BY DEF RecheckKeepsOldIncidentsOut, OldIncidentsAreGone
  <2>1. crashes = 0 /\ failures = 0 /\ apiFailures = 0
    BY DEF faultVars
  <2>2. CleanRows /\ Behind
    BY <2>1 DEF FenceInv
  <2>3. i # {} /\ i \subseteq DOMAIN born
    BY <2>2 DEF CleanRows, TypeInv, TypeOK
  <2>4. CASE run = 0
    BY <2>3, <2>4 DEF Old, TypeInv, TypeOK, Runs
  <2>5. CASE run = 1 /\ fence # 0
    BY <2>2, <2>5 DEF CleanRows, Renewed, Fresh
  <2>6. CASE run = 1 /\ fence = 0
    BY <2>1, <2>2, <2>6 DEF Behind, Settled
  <2> QED
    BY <2>4, <2>5, <2>6 DEF TypeInv, TypeOK, Runs
<1> QED
  BY <1>1, Invariance, PTL
=============================================================================
