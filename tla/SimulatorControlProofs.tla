----------------------- MODULE SimulatorControlProofs -----------------------
(***************************************************************************)
(* Theorems about SimulatorControl, for any number of requests, retries    *)
(* and faults and for a stream of any length.                              *)
(***************************************************************************)
EXTENDS SimulatorControl, FiniteSetTheorems, SequenceTheorems, TLAPS

-----------------------------------------------------------------------------
(* Types, for any number of requests at the same time.                     *)

(* The states that a row can show.                                         *)
Shown == States \ {"RESETTING", "ERROR"}

Simulator ==
  /\ machine \in States
  /\ saved \in States \cup {"none"}
  /\ loop \in [pc : {"idle", "prewarmed", "recovered", "delete", "save"},
               save : States \cup {"none"}]

Pipeline ==
  /\ baselineFlag \in BOOLEAN /\ recoveryFlag \in BOOLEAN /\ baseline \in BOOLEAN
  /\ queue \in Seq(Batches)
  /\ incident \in {"none", "open", "resolved"}
  /\ worker \in {"idle", "check", "set baseline", "set recovery", "write"}

Counted ==
  /\ epoch \in Nat /\ fence \in Nat /\ fence <= epoch
  /\ restarts \in Nat /\ retries \in 0..MaxRetries

Places == {"none", "look", "sent", "clear", "row", "command", "done", "timed out", "rejected"}

RequestRecords ==
  [action : Actions \cup {"none"}, pc : Places,
   answer : States \cup {"none", "refused", "error"}, handler : 0..MaxRetries]

JobRecords ==
  [pc : {"none", "call", "save", "publish", "unlink", "complete", "answer"},
   save : States \cup {"none"},
   answer : States \cup {"none", "refused", "error"}]

Asked == request \in [Requests -> RequestRecords] /\ job \in [Handlers -> JobRecords]

(* A request's action stays, its remembered result is the action's target, *)
(* and what it answers is a state that the row can show.                   *)
Answers ==
  /\ row \in Shown
  /\ DOMAIN results \subseteq Requests
  /\ \A r \in DOMAIN results : results[r] = Target(request[r].action)
  /\ \A r \in DOMAIN commands : commands[r] \in Shown
  /\ \A r \in Requests :
       /\ request[r].pc # "none" => request[r].action \in Actions
       /\ request[r].pc = "none" => r \notin DOMAIN results
       /\ request[r].pc \in {"clear", "row", "command"} => request[r].answer \in Shown
  /\ \A h \in Handlers :
       /\ job[h].pc # "none" => request[h[1]].pc # "none"
       /\ job[h].pc \in {"save", "publish"} => job[h].answer \in Shown
       /\ job[h].pc = "answer" => job[h].answer \in Shown \cup {"refused", "error"}

Typed == Simulator /\ Pipeline /\ Counted /\ Asked /\ Answers

LEMMA TargetIsShown ==
  /\ \A a \in Actions : Target(a) \in States /\ Accepted(Target(a)) \subseteq Actions
  /\ \A a \in Actions \ {"RESET"} : Target(a) \in Shown
BY DEF Actions, Target, States, Shown, Accepted

LEMMA HandlerParts ==
  /\ \A h \in Handlers : h[1] \in Requests /\ h[2] \in 0..MaxRetries /\ h = <<h[1], h[2]>>
  /\ \A r \in Requests, n \in 0..MaxRetries : <<r, n>> \in Handlers
BY DEF Handlers

LEMMA StreamOfBatches ==
  ASSUME NEW q \in Seq(Batches)
  PROVE  /\ <<>> \in Seq(Batches)
         /\ \A b \in Batches : Append(q, b) \in Seq(Batches)
         /\ q # <<>> => Tail(q) \in Seq(Batches)
         /\ \A a \in Actions : q \o Published(a) \in Seq(Batches)
<1>1. <<>> \in Seq(Batches)
  BY EmptySeq
<1>2. \A b \in Batches : Append(q, b) \in Seq(Batches)
  BY AppendProperties
<1>3. q # <<>> => Tail(q) \in Seq(Batches)
  BY HeadTailProperties
<1>4. ASSUME NEW a \in Actions PROVE q \o Published(a) \in Seq(Batches)
  <2>1. \A b \in Batches : <<b>> \in Seq(Batches)
    BY DEF Batches
  <2>2. Published(a) \in Seq(Batches)
    BY <1>1, <2>1 DEF Published, Batches, Actions
  <2> QED
    BY <2>2, ConcatProperties
<1> QED
  BY <1>1, <1>2, <1>3, <1>4

LEMMA TypedInit == Init => Typed
<1> SUFFICES ASSUME Init PROVE Typed
  OBVIOUS
<1>1. Simulator /\ Counted
  BY BoundAssumption DEF Init, Simulator, Counted, States, IdleLoop
<1>2. Pipeline
  BY EmptySeq DEF Init, Pipeline
<1>3. Asked
  BY BoundAssumption DEF Init, Asked, States, NoRequest, NoJob, RequestRecords, JobRecords, Places
<1>4. Answers
  BY HandlerParts DEF Init, Answers, Shown, States, NoRequest, NoJob, Nothing
<1> QED
  BY <1>1, <1>2, <1>3, <1>4 DEF Typed

(* What the API's and the operator's steps leave alone.                    *)
LEMMA ApiLeaves ==
  ASSUME NEW r \in Requests,
         (\E a \in Actions : Submit(r, a)) \/ Retry(r) \/ TimesOut(r) \/ ApiFails(r) \/ ApiStep(r)
  PROVE  /\ UNCHANGED <<machine, saved, loop, results, baselineFlag, recoveryFlag, baseline, queue, worker,
                        fence, restarts>>
         /\ incident' \in {incident, "none"} /\ epoch' \in {epoch, epoch + 1}
         /\ retries' = retries \/ (retries < MaxRetries /\ retries' = retries + 1)
<1> USE DEF machineVars, flagVars, workerVars, faultVars
<1>1. CASE \E a \in Actions : Submit(r, a)
  BY <1>1 DEF Submit
<1>2. CASE Retry(r)
  BY <1>2 DEF Retry
<1>3. CASE TimesOut(r) \/ ApiFails(r)
  BY <1>3 DEF TimesOut, ApiFails
<1>4. CASE LookUp(r)
  BY <1>4 DEF LookUp
<1>5. CASE Answered(r)
  BY <1>5 DEF Answered
<1>6. CASE ClearRows(r)
  BY <1>6 DEF ClearRows
<1>7. CASE WriteRow(r) \/ StoreCommand(r)
  BY <1>7 DEF WriteRow, StoreCommand
<1> QED
  BY <1>1, <1>2, <1>3, <1>4, <1>5, <1>6, <1>7 DEF ApiStep

LEMMA SimulatorNext == Typed /\ [Next]_vars => Simulator'
<1> SUFFICES ASSUME Typed, [Next]_vars PROVE Simulator'
  OBVIOUS
<1>a. CASE UNCHANGED <<machine, saved, loop>>
  BY <1>a DEF Typed, Simulator
<1>1. ASSUME NEW h \in Handlers, Handle(h) PROVE Simulator'
  <2>1. Action(h) \in Actions
    BY <1>1, HandlerParts DEF Handle, Action, Answers, Typed
  <2>2. machine' = machine \/ machine' = Target(Action(h))
    BY <1>1 DEF Handle, Refuses
  <2>3. saved' = saved /\ loop' = loop
    BY <1>1 DEF Handle
  <2> QED
    BY <2>1, <2>2, <2>3, TargetIsShown DEF Simulator, Typed
<1>2. ASSUME NEW h \in Handlers, Save(h) \/ HandlerFails(h) PROVE Simulator'
  <2>1. saved' \in {saved, job[h].save} /\ machine' = machine /\ loop' = loop
    BY <1>2 DEF Save, HandlerFails
  <2> QED
    BY <2>1 DEF Asked, JobRecords, Simulator, Typed
<1>3. ASSUME NEW h \in Handlers, Unlink(h) PROVE Simulator'
  BY <1>3 DEF Unlink, Simulator, Typed
<1>4. ASSUME NEW h \in Handlers, CompleteReset(h) PROVE Simulator'
  <2>1. machine' \in {machine, "STOPPED"} /\ saved' = saved /\ loop' = loop
    BY <1>4 DEF CompleteReset, Refuses
  <2> QED
    BY <2>1 DEF Simulator, Typed, States
<1>5. ASSUME NEW h \in Handlers, FailReset(h) PROVE Simulator'
  <2>1. machine' \in {machine, "ERROR"} /\ saved' \in {saved, "ERROR"} /\ loop' = loop
    BY <1>5 DEF FailReset, Refuses
  <2> QED
    BY <2>1 DEF Simulator, Typed, States
<1>6. ASSUME NEW h \in Handlers, Publish(h) \/ AnswerLost(h) PROVE Simulator'
  BY <1>6, <1>a DEF Publish, AnswerLost
<1>7. CASE Restart
  BY <1>7 DEF Restart, States, IdleLoop, Simulator, Typed
<1>8. CASE SeesFlag
  BY <1>8 DEF SeesFlag, IdleLoop, Simulator, Typed, machineVars
<1>9. CASE CompletePrewarm
  BY <1>9 DEF CompletePrewarm, IdleLoop, Simulator, Typed, States
<1>10. CASE CompleteRecovery
  BY <1>10 DEF CompleteRecovery, IdleLoop, Simulator, Typed, States
<1>11. CASE DeleteFlag
  BY <1>11 DEF DeleteFlag, Simulator, Typed, machineVars
<1>12. CASE LoopSaves \/ LoopFails
  BY <1>12 DEF LoopSaves, LoopFails, IdleLoop, Simulator, Typed, machineVars
<1>13. CASE Tick \/ WorkerStep \/ UNCHANGED vars
  BY <1>13, <1>a DEF Tick, WorkerStep, Process, Reconcile, SetFlag, WriteBack, vars, machineVars
<1> QED
  BY <1>a, <1>1, <1>2, <1>3, <1>4, <1>5, <1>6, <1>7, <1>8, <1>9, <1>10, <1>11, <1>12, <1>13, ApiLeaves
     DEF Next, HandlerStep, LoopStep

LEMMA PipelineNext == Typed /\ [Next]_vars => Pipeline'
<1> SUFFICES ASSUME Pipeline, Answers, [Next]_vars PROVE Pipeline'
  BY DEF Typed
<1> USE DEF machineVars, flagVars, apiVars, workerVars, faultVars
<1>a. CASE UNCHANGED <<baselineFlag, recoveryFlag, baseline, queue, worker>>
           /\ incident' \in {incident, "none"}
  BY <1>a DEF Pipeline
<1>1. ASSUME NEW h \in Handlers, Publish(h) \/ HandlerFails(h) PROVE Pipeline'
  <2>1. job[h].pc # "none" /\ queue' \in {queue, queue \o Published(Action(h))}
    BY <1>1 DEF Publish, HandlerFails
  <2>2. Action(h) \in Actions
    BY <2>1, HandlerParts DEF Answers, Action
  <2>3. queue' \in Seq(Batches)
    BY <2>1, <2>2, StreamOfBatches DEF Pipeline
  <2>4. UNCHANGED <<baselineFlag, recoveryFlag, baseline, worker, incident>>
    BY <1>1 DEF Publish, HandlerFails
  <2> QED
    BY <2>3, <2>4 DEF Pipeline
<1>2. ASSUME NEW h \in Handlers, Unlink(h) PROVE Pipeline'
  <2>1. queue' \in Seq(Batches)
    BY <1>2, EmptySeq DEF Unlink
  <2> QED
    BY <1>2, <2>1 DEF Unlink, Pipeline
<1>3. CASE Tick
  <2>1. queue' \in Seq(Batches)
    BY <1>3, StreamOfBatches DEF Tick, Pipeline, Batches
  <2> QED
    BY <1>3, <2>1 DEF Tick, Pipeline
<1>4. CASE Process
  <2>1. queue' \in Seq(Batches)
    BY <1>4, StreamOfBatches DEF Process, Pipeline
  <2>2. incident' \in {"none", "open", "resolved"} /\ baseline' \in BOOLEAN
    BY <1>4 DEF Process, Pipeline
  <2> QED
    BY <1>4, <2>1, <2>2 DEF Process, Pipeline
<1>5. CASE Reconcile
  BY <1>5 DEF Reconcile, Pipeline
<1>6. CASE SetFlag \/ WriteBack
  BY <1>6 DEF SetFlag, WriteBack, Pipeline
<1>7. CASE DeleteFlag
  BY <1>7 DEF DeleteFlag, Pipeline
<1>8. CASE SeesFlag \/ CompletePrewarm \/ CompleteRecovery \/ LoopSaves \/ LoopFails
  BY <1>8, <1>a DEF SeesFlag, CompletePrewarm, CompleteRecovery, LoopSaves, LoopFails
<1>9. ASSUME NEW h \in Handlers, Handle(h) \/ Save(h) \/ CompleteReset(h) \/ AnswerLost(h) \/ FailReset(h)
      PROVE  Pipeline'
  BY <1>9, <1>a DEF Handle, Save, CompleteReset, AnswerLost, FailReset
<1>10. CASE Restart \/ UNCHANGED vars
  BY <1>10, <1>a DEF Restart, vars
<1> QED
  BY <1>a, <1>1, <1>2, <1>3, <1>4, <1>5, <1>6, <1>7, <1>8, <1>9, <1>10, ApiLeaves
     DEF Next, HandlerStep, LoopStep, WorkerStep

LEMMA CountedNext == Typed /\ [Next]_vars => Counted'
<1> SUFFICES ASSUME Counted, [Next]_vars PROVE Counted'
  BY DEF Typed
<1> USE DEF machineVars, flagVars, apiVars, workerVars, faultVars
<1>a. CASE epoch' \in {epoch, epoch + 1} /\ UNCHANGED <<fence, restarts, retries>>
  BY <1>a DEF Counted
<1>1. ASSUME NEW h \in Handlers, HandlerStep(h) \/ FailReset(h) \/ HandlerFails(h) PROVE Counted'
  BY <1>1, <1>a DEF HandlerStep, Handle, Save, Publish, Unlink, CompleteReset, AnswerLost, FailReset,
     HandlerFails
<1>2. CASE Tick \/ LoopStep \/ LoopFails \/ UNCHANGED vars
  BY <1>2, <1>a DEF Tick, LoopStep, SeesFlag, CompletePrewarm, CompleteRecovery, DeleteFlag, LoopSaves,
     LoopFails, vars
<1>3. CASE SetFlag \/ WriteBack
  BY <1>3, <1>a DEF SetFlag, WriteBack
<1>4. CASE Process \/ Reconcile
  <2>1. epoch' = epoch /\ fence' \in {fence, epoch} /\ restarts' = restarts /\ retries' = retries
    BY <1>4 DEF Process, Reconcile
  <2> QED
    BY <2>1 DEF Counted
<1>5. CASE Restart
  <2>1. UNCHANGED <<epoch, fence, retries>> /\ restarts' = restarts + 1
    BY <1>5 DEF Restart
  <2> QED
    BY <2>1 DEF Counted
<1>6. ASSUME NEW r \in Requests,
             (\E a \in Actions : Submit(r, a)) \/ Retry(r) \/ TimesOut(r) \/ ApiFails(r) \/ ApiStep(r)
      PROVE  Counted'
  <2>1. /\ UNCHANGED <<fence, restarts>> /\ epoch' \in {epoch, epoch + 1}
        /\ retries' = retries \/ (retries < MaxRetries /\ retries' = retries + 1)
    BY <1>6, ApiLeaves
  <2> QED
    BY <2>1, BoundAssumption DEF Counted
<1> QED
  BY <1>1, <1>2, <1>3, <1>4, <1>5, <1>6 DEF Next, WorkerStep

LEMMA RequestMoves ==
  ASSUME Asked, NEW r \in Requests, NEW p \in Places
  PROVE  /\ [request EXCEPT ![r].pc = p] \in [Requests -> RequestRecords]
         /\ \A a \in Actions :
              [request EXCEPT ![r] = [@ EXCEPT !.action = a, !.pc = p]] \in [Requests -> RequestRecords]
         /\ \A a \in States \cup {"none", "refused", "error"} :
              [request EXCEPT ![r] = [@ EXCEPT !.answer = a, !.pc = p]] \in [Requests -> RequestRecords]
         /\ \A n \in 0..MaxRetries :
              [request EXCEPT ![r] = [@ EXCEPT !.pc = p, !.handler = n]] \in [Requests -> RequestRecords]
<1>1. request \in [Requests -> RequestRecords] /\ request[r] \in RequestRecords
  BY DEF Asked
<1>2. [request[r] EXCEPT !.pc = p] \in RequestRecords
  BY <1>1 DEF RequestRecords
<1>3. \A a \in Actions : [request[r] EXCEPT !.action = a, !.pc = p] \in RequestRecords
  BY <1>1 DEF RequestRecords
<1>4. \A a \in States \cup {"none", "refused", "error"} :
        [request[r] EXCEPT !.answer = a, !.pc = p] \in RequestRecords
  BY <1>1 DEF RequestRecords
<1>5. \A n \in 0..MaxRetries : [request[r] EXCEPT !.pc = p, !.handler = n] \in RequestRecords
  BY <1>1 DEF RequestRecords
<1> QED
  BY <1>1, <1>2, <1>3, <1>4, <1>5

LEMMA JobMoves ==
  ASSUME Asked, NEW h \in Handlers
  PROVE  /\ \A p \in {"call", "publish", "complete", "answer"} :
              [job EXCEPT ![h].pc = p] \in [Handlers -> JobRecords]
         /\ \A j \in JobRecords : [job EXCEPT ![h] = j] \in [Handlers -> JobRecords]
         /\ NoJob \in JobRecords
         /\ \A a \in {"refused", "error"} : [NoJob EXCEPT !.pc = "answer", !.answer = a] \in JobRecords
<1>1. \A p \in {"call", "publish", "complete", "answer"} : [job[h] EXCEPT !.pc = p] \in JobRecords
  BY DEF Asked, JobRecords
<1>2. /\ NoJob \in JobRecords
      /\ \A a \in {"refused", "error"} : [NoJob EXCEPT !.pc = "answer", !.answer = a] \in JobRecords
  BY DEF NoJob, JobRecords
<1> QED
  BY <1>1, <1>2 DEF Asked

LEMMA AskedNext == Typed /\ [Next]_vars => Asked'
<1> SUFFICES ASSUME Asked, Answers, Simulator, Counted, [Next]_vars PROVE Asked'
  BY DEF Typed
<1> USE DEF machineVars, flagVars, apiVars, workerVars, faultVars
<1>a. CASE UNCHANGED <<request, job>>
  BY <1>a DEF Asked
<1>1. ASSUME NEW r \in Requests, NEW a \in Actions, Submit(r, a) PROVE Asked'
  <2>1. request' = [request EXCEPT ![r] = [@ EXCEPT !.action = a, !.pc = "look"]] /\ job' = job
    BY <1>1 DEF Submit
  <2> QED
    BY <2>1, RequestMoves DEF Asked, Places
<1>2. ASSUME NEW r \in Requests, Retry(r) PROVE Asked'
  <2>1. request' = [request EXCEPT ![r].pc = "look"] /\ job' = job
    BY <1>2 DEF Retry
  <2> QED
    BY <2>1, RequestMoves DEF Asked, Places
<1>3. ASSUME NEW r \in Requests, TimesOut(r) \/ ApiFails(r) PROVE Asked'
  <2>1. request' = [request EXCEPT ![r].pc = "timed out"] /\ job' = job
    BY <1>3 DEF TimesOut, ApiFails
  <2> QED
    BY <2>1, RequestMoves DEF Asked, Places
<1>4. ASSUME NEW r \in Requests, LookUp(r) PROVE Asked'
  <2>1. retries \in 0..MaxRetries /\ <<r, retries>> \in Handlers /\ {"sent", "done"} \subseteq Places
    BY HandlerParts DEF Counted, Places
  <2>2. CASE request' = [request EXCEPT ![r].pc = "done"] /\ job' = job
    BY <2>1, <2>2, RequestMoves DEF Asked
  <2>3. CASE /\ request' = [request EXCEPT ![r] = [@ EXCEPT !.pc = "sent", !.handler = retries]]
             /\ job' = [job EXCEPT ![<<r, retries>>].pc = "call"]
    <3>1. request' \in [Requests -> RequestRecords]
      BY <2>1, <2>3, RequestMoves
    <3>2. job' \in [Handlers -> JobRecords]
      BY <2>1, <2>3, JobMoves
    <3> QED
      BY <3>1, <3>2 DEF Asked
  <2> QED
    BY <1>4, <2>2, <2>3 DEF LookUp
<1>5. ASSUME NEW r \in Requests, Answered(r) PROVE Asked'
  <2> DEFINE h == <<r, request[r].handler>>
  <2>1. PICK p \in {"rejected", "timed out", "clear", "row"} :
          request' = [request EXCEPT ![r] = [@ EXCEPT !.answer = job[h].answer, !.pc = p]]
    BY <1>5 DEF Answered
  <2>2. h \in Handlers
    BY HandlerParts DEF Asked, RequestRecords
  <2>3. job' = [job EXCEPT ![h] = NoJob]
    BY <1>5 DEF Answered
  <2>4. job[h].answer \in States \cup {"none", "refused", "error"}
    BY <2>2 DEF Asked, JobRecords
  <2> HIDE DEF h
  <2>5. p \in Places
    BY DEF Places
  <2>6. request' \in [Requests -> RequestRecords]
    BY <2>1, <2>4, <2>5, RequestMoves
  <2>7. job' \in [Handlers -> JobRecords]
    BY <2>2, <2>3, JobMoves
  <2> QED
    BY <2>6, <2>7 DEF Asked
<1>6. ASSUME NEW r \in Requests, ClearRows(r) \/ WriteRow(r) \/ StoreCommand(r) PROVE Asked'
  <2>1. PICK p \in {"row", "command", "done"} :
          request' = [request EXCEPT ![r].pc = p] /\ job' = job
    BY <1>6 DEF ClearRows, WriteRow, StoreCommand
  <2>2. p \in Places
    BY DEF Places
  <2> QED
    BY <2>1, <2>2, RequestMoves DEF Asked
<1>7. ASSUME NEW h \in Handlers, Handle(h) PROVE Asked'
  <2>1. request' = request
    BY <1>7 DEF Handle
  <2>2. CASE Refuses(h)
    BY <2>1, <2>2, JobMoves DEF Refuses, Ends, Asked
  <2>3. CASE h[1] \in DOMAIN results /\ Proceeds(h, machine, results[h[1]])
    <3>1. request[h[1]].action \in Actions
      BY <1>7, HandlerParts DEF Handle, Answers
    <3>2. results[h[1]] \in States
      BY <2>3, <3>1, TargetIsShown DEF Answers
    <3>3. [pc |-> IF Action(h) = "RESET" THEN "unlink" ELSE "save", save |-> machine,
           answer |-> results[h[1]]] \in JobRecords
      BY <3>2 DEF Simulator, JobRecords
    <3> QED
      BY <2>1, <2>3, <3>3, JobMoves DEF Proceeds, Asked
  <2>4. CASE machine' = Target(Action(h)) /\ Proceeds(h, machine', machine')
    <3>1. Action(h) \in Actions
      BY <1>7, HandlerParts DEF Handle, Answers, Action
    <3>2. machine' \in States
      BY <2>4, <3>1, TargetIsShown
    <3>3. [pc |-> IF Action(h) = "RESET" THEN "unlink" ELSE "save", save |-> machine',
           answer |-> machine'] \in JobRecords
      BY <3>2 DEF JobRecords
    <3> QED
      BY <2>1, <2>4, <3>3, JobMoves DEF Proceeds, Asked
  <2> QED
    BY <1>7, <2>2, <2>3, <2>4 DEF Handle
<1>8. ASSUME NEW h \in Handlers, Save(h) \/ Publish(h) \/ Unlink(h) PROVE Asked'
  <2>1. PICK p \in {"publish", "complete", "answer"} :
          request' = request /\ job' = [job EXCEPT ![h].pc = p]
    BY <1>8 DEF Save, Publish, Unlink
  <2> QED
    BY <2>1, JobMoves DEF Asked
<1>9. ASSUME NEW h \in Handlers, CompleteReset(h) PROVE Asked'
  <2>1. [pc |-> "save", save |-> "STOPPED", answer |-> "STOPPED"] \in JobRecords
    BY DEF JobRecords, States
  <2>2. [NoJob EXCEPT !.pc = "answer", !.answer = "refused"] \in JobRecords
    BY DEF NoJob, JobRecords
  <2>3. PICK j \in JobRecords : request' = request /\ job' = [job EXCEPT ![h] = j]
    BY <1>9, <2>1, <2>2 DEF CompleteReset, Refuses, Ends
  <2> QED
    BY <2>3, JobMoves DEF Asked
<1>10. ASSUME NEW h \in Handlers, FailReset(h) \/ HandlerFails(h) PROVE Asked'
  <2>1. \A a \in {"refused", "error"} : [NoJob EXCEPT !.pc = "answer", !.answer = a] \in JobRecords
    BY DEF NoJob, JobRecords
  <2>2. PICK j \in JobRecords : request' = request /\ job' = [job EXCEPT ![h] = j]
    BY <1>10, <2>1 DEF FailReset, HandlerFails, Refuses, Ends
  <2> QED
    BY <2>2, JobMoves DEF Asked
<1>11. ASSUME NEW h \in Handlers, AnswerLost(h) PROVE Asked'
  BY <1>11, JobMoves DEF AnswerLost, Asked
<1>12. CASE Restart
  <2>1. NoJob \in JobRecords
    BY DEF NoJob, JobRecords
  <2>2. \A r \in Requests : [request[r] EXCEPT !.pc = "timed out"] \in RequestRecords
    BY DEF Asked, RequestRecords, Places
  <2> QED
    BY <1>12, <2>1, <2>2 DEF Restart, Asked
<1>13. CASE Tick \/ LoopStep \/ LoopFails \/ WorkerStep \/ UNCHANGED vars
  BY <1>13, <1>a DEF Tick, LoopStep, SeesFlag, CompletePrewarm, CompleteRecovery, DeleteFlag, LoopSaves,
     LoopFails, WorkerStep, Process, Reconcile, SetFlag, WriteBack, vars
<1> QED
  BY <1>1, <1>2, <1>3, <1>4, <1>5, <1>6, <1>7, <1>8, <1>9, <1>10, <1>11, <1>12, <1>13
     DEF Next, ApiStep, HandlerStep

(* Answers, part by part: about the requests, and about the handlers.      *)
RequestAnswers ==
  \A r \in Requests :
    /\ request[r].pc # "none" => request[r].action \in Actions
    /\ request[r].pc = "none" => r \notin DOMAIN results
    /\ request[r].pc \in {"clear", "row", "command"} => request[r].answer \in Shown

HandlerAnswers ==
  \A h \in Handlers :
    /\ job[h].pc # "none" => request[h[1]].pc # "none"
    /\ job[h].pc \in {"save", "publish"} => job[h].answer \in Shown
    /\ job[h].pc = "answer" => job[h].answer \in Shown \cup {"refused", "error"}

(* A step of a handler that leaves the requests alone.                     *)
LEMMA HandlerAnswersNext ==
  ASSUME Asked, Answers, NEW h \in Handlers, NEW j, request' = request,
         job' = [job EXCEPT ![h] = j],
         j.pc # "none" => request[h[1]].pc # "none",
         j.pc \in {"save", "publish"} => j.answer \in Shown,
         j.pc = "answer" => j.answer \in Shown \cup {"refused", "error"}
  PROVE  HandlerAnswers'
<1> SUFFICES ASSUME NEW k \in Handlers
             PROVE  /\ job'[k].pc # "none" => request[k[1]].pc # "none"
                    /\ job'[k].pc \in {"save", "publish"} => job'[k].answer \in Shown
                    /\ job'[k].pc = "answer" => job'[k].answer \in Shown \cup {"refused", "error"}
  BY DEF HandlerAnswers
<1>1. job'[k] = IF k = h THEN j ELSE job[k]
  BY DEF Asked
<1>2. CASE k = h
  BY <1>1, <1>2
<1>3. CASE k # h
  BY <1>1, <1>3 DEF Answers
<1> QED
  BY <1>2, <1>3

LEMMA AnswersNext == Typed /\ [Next]_vars => Answers'
<1> SUFFICES ASSUME Asked, Answers, Simulator, Counted, [Next]_vars PROVE Answers'
  BY DEF Typed
<1> USE DEF machineVars, flagVars, apiVars, workerVars, faultVars
<1>a. CASE UNCHANGED <<row, results, commands, request, job>>
  BY <1>a DEF Answers
<1>b. ASSUME RequestAnswers', HandlerAnswers', row' \in Shown, DOMAIN results' \subseteq Requests,
             \A r \in DOMAIN results' : results'[r] = Target(request'[r].action),
             \A r \in DOMAIN commands' : commands'[r] \in Shown
      PROVE  Answers'
  BY <1>b DEF Answers, RequestAnswers, HandlerAnswers
<1>1. ASSUME NEW r \in Requests, NEW a \in Actions, Submit(r, a) PROVE Answers'
  <2>1. /\ request[r].pc = "none"
        /\ request' = [request EXCEPT ![r] = [@ EXCEPT !.action = a, !.pc = "look"]]
        /\ UNCHANGED <<row, results, commands, job>>
    BY <1>1 DEF Submit
  <2>2. \A k \in Requests : /\ k # r => request'[k] = request[k]
                            /\ k = r => request'[k].action = a /\ request'[k].pc = "look"
    BY <2>1 DEF Asked, RequestRecords
  <2>3. RequestAnswers'
    BY <2>1, <2>2 DEF Answers, RequestAnswers
  <2>4. HandlerAnswers'
    <3>1. \A k \in Requests : request[k].pc # "none" => request'[k].pc # "none"
      BY <2>1, <2>2
    <3> QED
      BY <2>1, <3>1, HandlerParts DEF Answers, HandlerAnswers
  <2>5. \A k \in DOMAIN results' : results'[k] = Target(request'[k].action)
    BY <2>1, <2>2 DEF Answers
  <2> QED
    BY <1>b, <2>1, <2>3, <2>4, <2>5 DEF Answers
<1>2. ASSUME NEW r \in Requests, Retry(r) \/ TimesOut(r) \/ ApiFails(r) \/ LookUp(r) PROVE Answers'
  <2>1. request[r].pc # "none" /\ UNCHANGED <<row, results>>
    BY <1>2 DEF Retry, TimesOut, ApiFails, LookUp
  <2>2. PICK p \in {"look", "timed out", "sent", "done"} :
          \/ request' = [request EXCEPT ![r].pc = p]
          \/ request' = [request EXCEPT ![r] = [@ EXCEPT !.pc = p, !.handler = retries]]
    BY <1>2 DEF Retry, TimesOut, ApiFails, LookUp
  <2>3. job' = job \/ job' = [job EXCEPT ![<<r, retries>>].pc = "call"]
    BY <1>2 DEF Retry, TimesOut, ApiFails, LookUp
  <2>4. \A k \in Requests : /\ request'[k].action = request[k].action
                            /\ request'[k].answer = request[k].answer
                            /\ request'[k].pc = IF k = r THEN p ELSE request[k].pc
    <3>1. CASE request' = [request EXCEPT ![r].pc = p]
      BY <3>1 DEF Asked, RequestRecords
    <3>2. CASE request' = [request EXCEPT ![r] = [@ EXCEPT !.pc = p, !.handler = retries]]
      BY <3>2 DEF Asked, RequestRecords
    <3> QED
      BY <2>2, <3>1, <3>2
  <2>5. \A h \in Handlers : \/ job'[h] = job[h]
                            \/ h = <<r, retries>> /\ job'[h].pc = "call"
    <3>1. <<r, retries>> \in Handlers
      BY HandlerParts DEF Counted
    <3>2. CASE job' = [job EXCEPT ![<<r, retries>>].pc = "call"]
      BY <3>1, <3>2 DEF Asked, JobRecords
    <3> QED
      BY <2>3, <3>2
  <2>6. p \notin {"none", "clear", "row", "command"}
    OBVIOUS
  <2>7. RequestAnswers'
    BY <2>1, <2>4, <2>6 DEF Answers, RequestAnswers
  <2>8. HandlerAnswers'
    <3> SUFFICES ASSUME NEW h \in Handlers
                 PROVE  /\ job'[h].pc # "none" => request'[h[1]].pc # "none"
                        /\ job'[h].pc \in {"save", "publish"} => job'[h].answer \in Shown
                        /\ job'[h].pc = "answer" => job'[h].answer \in Shown \cup {"refused", "error"}
      BY DEF HandlerAnswers
    <3>1. h[1] \in Requests
      BY HandlerParts
    <3>2. request[h[1]].pc # "none" => request'[h[1]].pc # "none"
      BY <2>4, <2>6, <3>1
    <3>3. CASE job'[h] = job[h]
      BY <3>2, <3>3 DEF Answers
    <3>4. CASE h = <<r, retries>> /\ job'[h].pc = "call"
      BY <2>1, <3>2, <3>4
    <3> QED
      BY <2>5, <3>3, <3>4
  <2>9. \A k \in DOMAIN results' : results'[k] = Target(request'[k].action)
    BY <2>1, <2>4 DEF Answers
  <2>10. \A k \in DOMAIN commands' : commands'[k] \in Shown
    <3>1. \/ commands' = commands
          \/ request[r].pc = "command" /\ commands' = Stored(r)
      BY <1>2 DEF Retry, TimesOut, ApiFails, LookUp
    <3> QED
      BY <3>1 DEF Stored, With, Answers
  <2> QED
    BY <1>b, <2>1, <2>7, <2>8, <2>9, <2>10 DEF Answers
<1>3. ASSUME NEW r \in Requests, Answered(r) PROVE Answers'
  <2> DEFINE h == <<r, request[r].handler>>
  <2>1. /\ request[r].pc = "sent" /\ job[h].pc = "answer"
        /\ job' = [job EXCEPT ![h] = NoJob]
        /\ UNCHANGED <<row, results, commands>>
    BY <1>3 DEF Answered
  <2>2. PICK p \in {"rejected", "timed out", "clear", "row"} :
          /\ request' = [request EXCEPT ![r] = [@ EXCEPT !.answer = job[h].answer, !.pc = p]]
          /\ p \in {"clear", "row"} => job[h].answer \notin {"refused", "error"}
    BY <1>3 DEF Answered
  <2>3. h \in Handlers
    BY HandlerParts DEF Asked, RequestRecords
  <2> HIDE DEF h
  <2>4. \A k \in Requests : /\ request'[k].action = request[k].action
                            /\ k # r => request'[k] = request[k]
                            /\ k = r => request'[k].pc = p /\ request'[k].answer = job[h].answer
    BY <2>2 DEF Asked, RequestRecords
  <2>5. \A k \in Handlers : job'[k] = IF k = h THEN NoJob ELSE job[k]
    BY <2>1 DEF Asked
  <2>6. job[h].answer \in Shown \cup {"refused", "error"}
    BY <2>1, <2>3 DEF Answers
  <2>7. RequestAnswers'
    BY <2>1, <2>2, <2>4, <2>6 DEF Answers, RequestAnswers
  <2>8. HandlerAnswers'
    <3>1. \A k \in Requests : request[k].pc # "none" => request'[k].pc # "none"
      BY <2>4
    <3>2. ASSUME NEW k \in Handlers
          PROVE  /\ job'[k].pc # "none" => request'[k[1]].pc # "none"
                 /\ job'[k].pc \in {"save", "publish"} => job'[k].answer \in Shown
                 /\ job'[k].pc = "answer" => job'[k].answer \in Shown \cup {"refused", "error"}
      <4>1. k[1] \in Requests
        BY HandlerParts
      <4>2. CASE job'[k] = job[k]
        BY <3>1, <4>1, <4>2 DEF Answers
      <4>3. NoJob.pc = "none"
        BY DEF NoJob
      <4>4. CASE job'[k] = NoJob
        <5>1. job'[k].pc = "none"
          BY <4>3, <4>4
        <5> QED
          BY <5>1
      <4> QED
        BY <2>5, <4>2, <4>4
    <3> QED
      BY <3>2 DEF HandlerAnswers
  <2>9. \A k \in DOMAIN results' : results'[k] = Target(request'[k].action)
    BY <2>1, <2>4 DEF Answers
  <2> QED
    BY <1>b, <2>1, <2>7, <2>8, <2>9 DEF Answers
<1>4. ASSUME NEW r \in Requests, ClearRows(r) PROVE Answers'
  <2>1. /\ request[r].pc = "clear" /\ request' = [request EXCEPT ![r].pc = "row"]
        /\ row' = "STOPPED" /\ DOMAIN commands' = {} /\ UNCHANGED <<results, job>>
    BY <1>4 DEF ClearRows, Nothing
  <2>2. "STOPPED" \in Shown
    BY DEF Shown, States
  <2> QED
    BY <2>1, <2>2 DEF Answers, Asked, RequestRecords
<1>5. ASSUME NEW r \in Requests, WriteRow(r) PROVE Answers'
  <2>1. /\ request[r].pc = "row" /\ request' = [request EXCEPT ![r].pc = "command"]
        /\ row' = request[r].answer /\ UNCHANGED <<results, commands, job>>
    BY <1>5 DEF WriteRow
  <2> QED
    BY <2>1 DEF Answers, Asked, RequestRecords
<1>6. ASSUME NEW r \in Requests, StoreCommand(r) PROVE Answers'
  <2>1. /\ request[r].pc = "command" /\ request' = [request EXCEPT ![r].pc = "done"]
        /\ commands' = commands \/ commands' = Stored(r)
        /\ UNCHANGED <<results, row, job>>
    BY <1>6 DEF StoreCommand
  <2>2. \A k \in DOMAIN commands' : commands'[k] \in Shown
    BY <2>1 DEF Stored, With, Answers
  <2> QED
    BY <2>1, <2>2 DEF Answers, Asked, RequestRecords
<1>7. ASSUME NEW h \in Handlers, Handle(h) PROVE Answers'
  <2>1. /\ job[h].pc = "call" /\ request[h[1]].pc # "none" /\ Action(h) \in Actions
        /\ Action(h) = request[h[1]].action /\ h[1] \in Requests
    BY <1>7, HandlerParts DEF Handle, Answers, Action
  <2>2. UNCHANGED <<row, commands, request>>
    BY <1>7 DEF Handle
  <2>3. CASE Refuses(h)
    <3>1. job' = [job EXCEPT ![h] = [NoJob EXCEPT !.pc = "answer", !.answer = "refused"]]
          /\ results' = results
      BY <2>3 DEF Refuses, Ends
    <3>2. HandlerAnswers'
      BY <2>1, <2>2, <3>1, HandlerAnswersNext DEF NoJob
    <3> QED
      BY <1>b, <2>2, <3>1, <3>2 DEF Answers, RequestAnswers
  <2>4. CASE h[1] \in DOMAIN results /\ Proceeds(h, machine, results[h[1]]) /\ results' = results
    <3>1. results[h[1]] = Target(Action(h))
      BY <2>1, <2>4 DEF Answers
    <3>2. Action(h) # "RESET" => results[h[1]] \in Shown
      BY <2>1, <3>1, TargetIsShown
    <3>3. job' = [job EXCEPT ![h] = [pc |-> IF Action(h) = "RESET" THEN "unlink" ELSE "save",
                                     save |-> machine, answer |-> results[h[1]]]]
      BY <2>4 DEF Proceeds
    <3>4. HandlerAnswers'
      BY <2>1, <2>2, <3>2, <3>3, HandlerAnswersNext
    <3> QED
      BY <1>b, <2>2, <2>4, <3>4 DEF Answers, RequestAnswers
  <2>5. CASE /\ machine' = Target(Action(h)) /\ results' = With(results, h[1], machine')
             /\ Proceeds(h, machine', machine')
    <3>1. Action(h) # "RESET" => machine' \in Shown
      BY <2>1, <2>5, TargetIsShown
    <3>2. /\ DOMAIN results' \subseteq Requests
          /\ \A k \in DOMAIN results' : results'[k] = Target(request[k].action)
          /\ \A k \in Requests : k \in DOMAIN results' => k \in DOMAIN results \/ k = h[1]
      BY <2>1, <2>5 DEF With, Answers
    <3>3. job' = [job EXCEPT ![h] = [pc |-> IF Action(h) = "RESET" THEN "unlink" ELSE "save",
                                     save |-> machine', answer |-> machine']]
      BY <2>5 DEF Proceeds
    <3>4. HandlerAnswers'
      BY <2>1, <2>2, <3>1, <3>3, HandlerAnswersNext
    <3>5. RequestAnswers'
      BY <2>1, <2>2, <3>2 DEF Answers, RequestAnswers
    <3> QED
      BY <1>b, <2>2, <3>2, <3>4, <3>5 DEF Answers
  <2> QED
    BY <1>7, <2>3, <2>4, <2>5 DEF Handle
<1>8. ASSUME NEW h \in Handlers, Save(h) \/ Publish(h) \/ Unlink(h) PROVE Answers'
  <2>1. PICK p \in {"answer", "publish", "complete"} :
          /\ job' = [job EXCEPT ![h].pc = p]
          /\ p # "complete" => job[h].pc \in {"save", "publish"}
    BY <1>8 DEF Save, Publish, Unlink
  <2>2. job[h].pc # "none" /\ UNCHANGED <<row, results, commands, request>>
    BY <1>8 DEF Save, Publish, Unlink
  <2>3. PICK j : j = [job[h] EXCEPT !.pc = p]
    OBVIOUS
  <2>4. job' = [job EXCEPT ![h] = j] /\ j.pc = p /\ j.answer = job[h].answer
    BY <2>1, <2>3 DEF Asked, JobRecords
  <2>5. HandlerAnswers'
    <3>1. request[h[1]].pc # "none" /\ (job[h].pc \in {"save", "publish"} => job[h].answer \in Shown)
      BY <2>2 DEF Answers
    <3> QED
      BY <2>1, <2>2, <2>4, <3>1, HandlerAnswersNext
  <2> QED
    BY <1>b, <2>2, <2>5 DEF Answers, RequestAnswers
<1>9. ASSUME NEW h \in Handlers, CompleteReset(h) PROVE Answers'
  <2>1. /\ job[h].pc = "complete" /\ DOMAIN results' \subseteq DOMAIN results
        /\ results' = results \/ DOMAIN results' = {}
        /\ UNCHANGED <<row, commands, request>>
        /\ \/ job' = [job EXCEPT ![h] = [pc |-> "save", save |-> "STOPPED", answer |-> "STOPPED"]]
           \/ job' = [job EXCEPT ![h] = [NoJob EXCEPT !.pc = "answer", !.answer = "refused"]]
    BY <1>9 DEF CompleteReset, Refuses, Ends, Nothing
  <2>2. request[h[1]].pc # "none"
    BY <2>1 DEF Answers
  <2>3. "STOPPED" \in Shown
    BY DEF Shown, States
  <2>4. HandlerAnswers'
    BY <2>1, <2>2, <2>3, HandlerAnswersNext DEF NoJob
  <2> QED
    BY <1>b, <2>1, <2>4 DEF Answers, RequestAnswers
<1>10. ASSUME NEW h \in Handlers, FailReset(h) \/ HandlerFails(h) PROVE Answers'
  <2>1. /\ job[h].pc # "none" /\ DOMAIN results' \subseteq DOMAIN results
        /\ results' = results \/ DOMAIN results' = {}
        /\ UNCHANGED <<row, commands, request>>
    BY <1>10 DEF FailReset, HandlerFails, Refuses, Nothing
  <2>2. PICK a \in {"refused", "error"} :
          job' = [job EXCEPT ![h] = [NoJob EXCEPT !.pc = "answer", !.answer = a]]
    BY <1>10 DEF FailReset, HandlerFails, Refuses, Ends
  <2>3. request[h[1]].pc # "none"
    BY <2>1 DEF Answers
  <2>4. HandlerAnswers'
    BY <2>1, <2>2, <2>3, HandlerAnswersNext DEF NoJob
  <2> QED
    BY <1>b, <2>1, <2>4 DEF Answers, RequestAnswers
<1>11. ASSUME NEW h \in Handlers, AnswerLost(h) PROVE Answers'
  <2>1. job' = [job EXCEPT ![h] = NoJob] /\ UNCHANGED <<row, results, commands, request>>
    BY <1>11 DEF AnswerLost
  <2>2. HandlerAnswers'
    BY <2>1, HandlerAnswersNext DEF NoJob
  <2> QED
    BY <1>b, <2>1, <2>2 DEF Answers, RequestAnswers
<1>12. CASE Restart
  <2>1. /\ DOMAIN results' = {} /\ job' = [h \in Handlers |-> NoJob]
        /\ UNCHANGED <<row, commands>>
        /\ request' = [r \in Requests |->
             IF request[r].pc = "sent" THEN [request[r] EXCEPT !.pc = "timed out"] ELSE request[r]]
    BY <1>12 DEF Restart, Nothing
  <2>2. \A r \in Requests :
          /\ request'[r].action = request[r].action /\ request'[r].answer = request[r].answer
          /\ \/ request'[r].pc = request[r].pc
             \/ request[r].pc = "sent" /\ request'[r].pc = "timed out"
    BY <2>1 DEF Asked, RequestRecords
  <2>3. RequestAnswers'
    BY <2>1, <2>2 DEF Answers, RequestAnswers
  <2>4. HandlerAnswers'
    BY <2>1 DEF HandlerAnswers, NoJob
  <2> QED
    BY <1>b, <2>1, <2>3, <2>4 DEF Answers
<1>13. CASE WriteBack
  <2>1. row' = "RUNNING_HEALTHY" /\ UNCHANGED <<results, commands, request, job>>
    BY <1>13 DEF WriteBack
  <2>2. "RUNNING_HEALTHY" \in Shown
    BY DEF Shown, States
  <2> QED
    BY <2>1, <2>2 DEF Answers
<1>14. CASE Tick \/ LoopStep \/ LoopFails \/ Process \/ Reconcile \/ SetFlag \/ UNCHANGED vars
  BY <1>14, <1>a DEF Tick, LoopStep, SeesFlag, CompletePrewarm, CompleteRecovery, DeleteFlag, LoopSaves,
     LoopFails, Process, Reconcile, SetFlag, vars
<1> QED
  BY <1>1, <1>2, <1>3, <1>4, <1>5, <1>6, <1>7, <1>8, <1>9, <1>10, <1>11, <1>12, <1>13, <1>14
     DEF Next, ApiStep, HandlerStep, WorkerStep

LEMMA TypedHolds == Spec => []Typed
<1>1. Typed /\ [Next]_vars => Typed'
  BY SimulatorNext, PipelineNext, CountedNext, AskedNext, AnswersNext DEF Typed
<1> QED
  BY <1>1, TypedInit, PTL DEF Spec

(* Every variable has its type, for any number of requests, one by one or  *)
(* at the same time: in particular, the row never shows a state of a reset *)
(* under way or failed, and the worker's epoch is never ahead.             *)
THEOREM TypeCorrect == Spec => []TypeOK
<1>1. Typed => TypeOK
  <2> SUFFICES ASSUME Typed PROVE TypeOK
    OBVIOUS
  <2>1. /\ \A r \in DOMAIN results : results[r] \in States
        /\ \A r \in DOMAIN commands : commands[r] \in States
    BY TargetIsShown DEF Typed, Answers, Shown
  <2>2. \A h \in Handlers :
          /\ job[h].pc \in {"none", "call", "save", "publish", "unlink", "complete", "answer"}
          /\ job[h].save \in States \cup {"none"}
          /\ job[h].answer \in States \cup {"none", "refused", "error"}
    BY DEF Typed, Asked, JobRecords
  <2>3. \A r \in Requests :
          /\ request[r].action \in Actions \cup {"none"}
          /\ request[r].pc \in Places
          /\ request[r].answer \in States \cup {"none", "refused", "error"}
          /\ request[r].handler \in 0..MaxRetries
    BY DEF Typed, Asked, RequestRecords
  <2>4. /\ machine \in States /\ saved \in States \cup {"none"}
        /\ loop.pc \in {"idle", "prewarmed", "recovered", "delete", "save"}
        /\ loop.save \in States \cup {"none"}
    BY DEF Typed, Simulator
  <2>5. /\ <<baselineFlag, recoveryFlag, baseline>> \in BOOLEAN \X BOOLEAN \X BOOLEAN
        /\ queue \in Seq(Batches) /\ incident \in {"none", "open", "resolved"}
        /\ worker \in {"idle", "check", "set baseline", "set recovery", "write"}
    BY DEF Typed, Pipeline
  <2>6. DOMAIN results \subseteq Requests /\ row \in States \ {"RESETTING", "ERROR"} /\ fence <= epoch
        /\ retries \in 0..MaxRetries
    BY DEF Typed, Answers, Shown, Counted
  <2> QED
    BY <2>1, <2>2, <2>3, <2>4, <2>5, <2>6 DEF TypeOK, Places
<1> QED
  BY <1>1, TypedHolds, PTL

-----------------------------------------------------------------------------
(* A reset under way.  RESETTING is the one state that accepts nothing:    *)
(* whatever is in it depends on the handler that entered it.               *)

(* A request that is sent again is given a handler that is free.           *)
NewHandlers ==
  \A h \in Handlers :
    job[h].pc # "none" =>
      h[2] <= retries /\ (request[h[1]].pc = "look" => h[2] < retries)

Underway(h) == job[h].pc \in {"unlink", "complete"}

ResetIsServed ==
  machine = "RESETTING" /\ restarts = 0 => \E h \in Handlers : Underway(h)

LEMMA NewHandlersNext == Typed /\ NewHandlers /\ [Next]_vars => NewHandlers'
<1> SUFFICES ASSUME Asked, Answers, Counted, NewHandlers, [Next]_vars PROVE NewHandlers'
  BY DEF Typed
<1> USE DEF machineVars, flagVars, apiVars, workerVars, faultVars
<1>n. retries \in Nat /\ \A h \in Handlers : h[1] \in Requests /\ h[2] \in Nat
  BY HandlerParts, BoundAssumption DEF Counted
<1>a. ASSUME \A h \in Handlers : job'[h].pc # "none" => job[h].pc # "none",
             \A r \in Requests : request'[r].pc = "look" => request[r].pc = "look",
             retries' = retries
      PROVE  NewHandlers'
  BY <1>n, <1>a DEF NewHandlers
<1>1. ASSUME NEW r \in Requests, NEW a \in Actions, Submit(r, a) PROVE NewHandlers'
  <2>1. /\ request[r].pc = "none" /\ UNCHANGED <<job, retries>>
        /\ \A k \in Requests : k # r => request'[k] = request[k]
    BY <1>1 DEF Submit, Asked
  <2>2. \A h \in Handlers : job[h].pc # "none" => h[1] # r
    BY <2>1 DEF Answers
  <2> QED
    BY <1>n, <2>1, <2>2 DEF NewHandlers
<1>2. ASSUME NEW r \in Requests, Retry(r) PROVE NewHandlers'
  <2>1. job' = job /\ retries' = retries + 1
    BY <1>2 DEF Retry
  <2> QED
    BY <1>n, <2>1 DEF NewHandlers
<1>3. ASSUME NEW r \in Requests, TimesOut(r) \/ ApiFails(r) PROVE NewHandlers'
  <2>1. /\ UNCHANGED <<job, retries>>
        /\ \A k \in Requests : request'[k].pc = request[k].pc \/ request'[k].pc = "timed out"
    BY <1>3 DEF TimesOut, ApiFails, Asked, RequestRecords
  <2> QED
    BY <1>a, <2>1
<1>4. ASSUME NEW r \in Requests, LookUp(r) PROVE NewHandlers'
  <2>1. /\ retries' = retries
        /\ \A k \in Requests : k # r => request'[k] = request[k]
        /\ request'[r].pc # "look"
    <3>1. retries' = retries /\ (\/ request' = [request EXCEPT ![r].pc = "done"]
                                \/ request' = [request EXCEPT ![r] = [@ EXCEPT !.pc = "sent", !.handler = retries]])
      BY <1>4 DEF LookUp
    <3>2. CASE request' = [request EXCEPT ![r].pc = "done"]
      BY <3>1, <3>2 DEF Asked, RequestRecords
    <3>3. CASE request' = [request EXCEPT ![r] = [@ EXCEPT !.pc = "sent", !.handler = retries]]
      BY <3>1, <3>3 DEF Asked, RequestRecords
    <3> QED
      BY <3>1, <3>2, <3>3
  <2>2. \A h \in Handlers : job'[h] = job[h] \/ h = <<r, retries>>
    BY <1>4 DEF LookUp, Asked
  <2>3. ASSUME NEW h \in Handlers, job'[h].pc # "none"
        PROVE  h[2] <= retries' /\ (request'[h[1]].pc = "look" => h[2] < retries')
    <3>1. CASE job'[h] = job[h]
      BY <1>n, <2>1, <2>3, <3>1 DEF NewHandlers
    <3>2. CASE h = <<r, retries>>
      BY <1>n, <2>1, <3>2
    <3> QED
      BY <2>2, <3>1, <3>2
  <2> QED
    BY <2>3 DEF NewHandlers
<1>5. ASSUME NEW r \in Requests, Answered(r) \/ ClearRows(r) \/ WriteRow(r) \/ StoreCommand(r)
      PROVE  NewHandlers'
  <2>0. retries' = retries
    BY <1>5 DEF Answered, ClearRows, WriteRow, StoreCommand
  <2>m. ASSUME NEW x, request' = [request EXCEPT ![r] = x], x.pc # "look"
        PROVE  \A k \in Requests : request'[k].pc = "look" => request[k].pc = "look"
    BY <2>m DEF Asked
  <2>e. \A k \in Requests : request'[k].pc = "look" => request[k].pc = "look"
    <3>r. request[r] = [action |-> request[r].action, pc |-> request[r].pc,
                        answer |-> request[r].answer, handler |-> request[r].handler]
      BY DEF Asked, RequestRecords
    <3>1. CASE Answered(r)
      <4>1. PICK answer, pc : /\ request' = [request EXCEPT ![r] = [@ EXCEPT !.answer = answer, !.pc = pc]]
                              /\ pc \in {"rejected", "timed out", "clear", "row"}
        BY <3>1 DEF Answered
      <4>2. [request[r] EXCEPT !.answer = answer, !.pc = pc].pc = pc
        BY <3>r
      <4>3. request' = [request EXCEPT ![r] = [request[r] EXCEPT !.answer = answer, !.pc = pc]]
        BY <4>1
      <4> QED
        BY <2>m, <4>1, <4>2, <4>3
    <3>2. CASE ClearRows(r) \/ WriteRow(r) \/ StoreCommand(r)
      <4>1. PICK pc \in {"row", "command", "done"} : request' = [request EXCEPT ![r].pc = pc]
        BY <3>2 DEF ClearRows, WriteRow, StoreCommand
      <4>2. [request[r] EXCEPT !.pc = pc].pc = pc
        BY <3>r
      <4>3. request' = [request EXCEPT ![r] = [request[r] EXCEPT !.pc = pc]]
        BY <4>1
      <4> QED
        BY <2>m, <4>1, <4>2, <4>3
    <3> QED
      BY <1>5, <3>1, <3>2
  <2>1. /\ retries' = retries
        /\ \A k \in Requests : request'[k].pc = "look" => request[k].pc = "look"
    BY <2>0, <2>e
  <2>2. job' = job \/ job' = [job EXCEPT ![<<r, request[r].handler>>] = NoJob]
    BY <1>5 DEF Answered, ClearRows, WriteRow, StoreCommand
  <2>3. \A h \in Handlers : job'[h].pc # "none" => job[h].pc # "none"
    BY <2>2 DEF Asked, NoJob
  <2> QED
    BY <1>a, <2>1, <2>3
<1>6. ASSUME NEW h \in Handlers, HandlerStep(h) \/ HandlerFails(h) \/ FailReset(h) PROVE NewHandlers'
  <2>1. job[h].pc # "none" /\ request' = request /\ retries' = retries
    BY <1>6 DEF HandlerStep, Handle, Save, Publish, HandlerFails, Unlink, CompleteReset, FailReset,
       AnswerLost
  <2>2. \E j : job' = [job EXCEPT ![h] = j]
    BY <1>6 DEF HandlerStep, Handle, Save, Publish, HandlerFails, Unlink, CompleteReset, FailReset,
       AnswerLost, Refuses, Ends, Proceeds
  <2>3. \A k \in Handlers : job'[k].pc # "none" => job[k].pc # "none"
    BY <2>1, <2>2 DEF Asked
  <2> QED
    BY <1>a, <2>1, <2>3
<1>7. CASE Restart
  BY <1>7 DEF Restart, NoJob, NewHandlers
<1>8. CASE Tick \/ LoopStep \/ LoopFails \/ WorkerStep \/ UNCHANGED vars
  <2>1. UNCHANGED <<job, request, retries>>
    BY <1>8 DEF Tick, LoopStep, SeesFlag, CompletePrewarm, CompleteRecovery, DeleteFlag, LoopSaves,
       LoopFails, WorkerStep, Process, Reconcile, SetFlag, WriteBack, vars
  <2> QED
    BY <1>a, <2>1
<1> QED
  BY <1>1, <1>2, <1>3, <1>4, <1>5, <1>6, <1>7, <1>8 DEF Next, ApiStep

LEMMA ServedNext == Typed /\ NewHandlers /\ ResetIsServed /\ [Next]_vars => ResetIsServed'
<1> SUFFICES ASSUME Asked, Answers, Counted, NewHandlers, ResetIsServed, [Next]_vars,
                    machine' = "RESETTING", restarts' = 0
             PROVE  \E h \in Handlers : Underway(h)'
  BY DEF Typed, ResetIsServed
<1> USE DEF machineVars, flagVars, apiVars, workerVars, faultVars
(* A step that leaves the machine, and every handler under way, alone. *)
<1>a. ASSUME machine' = machine, restarts' = restarts,
             \A h \in Handlers : Underway(h) => Underway(h)'
      PROVE  \E h \in Handlers : Underway(h)'
  BY <1>a DEF ResetIsServed
<1>1. ASSUME NEW r \in Requests,
             (\E a \in Actions : Submit(r, a)) \/ Retry(r) \/ TimesOut(r) \/ ApiFails(r) \/ ApiStep(r)
      PROVE  \E h \in Handlers : Underway(h)'
  <2>1. machine' = machine /\ restarts' = restarts
    BY <1>1, ApiLeaves
  <2>2. ASSUME NEW h \in Handlers, Underway(h) PROVE Underway(h)'
    <3>1. CASE LookUp(r)
      <4>1. request[r].pc = "look" /\ (job' = job \/ job' = [job EXCEPT ![<<r, retries>>].pc = "call"])
        BY <3>1 DEF LookUp
      <4>2. h # <<r, retries>>
        <5> SUFFICES ASSUME h = <<r, retries>> PROVE FALSE
          OBVIOUS
        <5>1. h[1] = r /\ h[2] = retries /\ job[h].pc # "none"
          BY <2>2 DEF Underway
        <5>2. h[2] < retries
          BY <4>1, <5>1 DEF NewHandlers
        <5> QED
          BY <5>1, <5>2, BoundAssumption DEF Counted
      <4>3. job'[h] = job[h]
        BY <4>1, <4>2 DEF Asked
      <4> QED
        BY <2>2, <4>3 DEF Underway
    <3>2. CASE Answered(r)
      <4>1. /\ job[<<r, request[r].handler>>].pc = "answer"
            /\ job' = [job EXCEPT ![<<r, request[r].handler>>] = NoJob]
        BY <3>2 DEF Answered
      <4>2. h # <<r, request[r].handler>>
        BY <2>2, <4>1 DEF Underway
      <4>3. job'[h] = job[h]
        BY <4>1, <4>2 DEF Asked
      <4> QED
        BY <2>2, <4>3 DEF Underway
    <3>3. CASE job' = job
      BY <2>2, <3>3 DEF Underway
    <3> QED
      BY <1>1, <3>1, <3>2, <3>3
         DEF Submit, Retry, TimesOut, ApiFails, ApiStep, ClearRows, WriteRow, StoreCommand
  <2> QED
    BY <1>a, <2>1, <2>2
<1>2. ASSUME NEW h \in Handlers, Handle(h) PROVE \E k \in Handlers : Underway(k)'
  <2>1. /\ job[h].pc = "call" /\ restarts' = restarts /\ request' = request
        /\ \E j : job' = [job EXCEPT ![h] = j]
    BY <1>2 DEF Handle, Refuses, Ends, Proceeds
  <2>2. \A k \in Handlers : Underway(k) => Underway(k)'
    BY <2>1 DEF Asked, Underway
  <2>3. CASE machine' = machine
    BY <1>a, <2>1, <2>2, <2>3
  <2>4. CASE machine' = Target(Action(h)) /\ Proceeds(h, machine', machine')
    <3>1. Action(h) \in Actions
      BY <2>1, HandlerParts DEF Action, Answers
    <3>2. Action(h) = "RESET"
      BY <2>4, <3>1 DEF Target, Actions
    <3>3. job'[h].pc = "unlink"
      BY <2>4, <3>2 DEF Proceeds, Asked
    <3> QED
      BY <3>3 DEF Underway
  <2> QED
    BY <1>2, <2>3, <2>4 DEF Handle, Refuses
<1>3. ASSUME NEW h \in Handlers, Save(h) \/ Publish(h) \/ HandlerFails(h) \/ AnswerLost(h)
      PROVE  \E k \in Handlers : Underway(k)'
  <2>1. /\ ~Underway(h) /\ machine' = machine /\ restarts' = restarts
        /\ \E j : job' = [job EXCEPT ![h] = j]
    BY <1>3 DEF Save, Publish, HandlerFails, AnswerLost, Ends, Underway
  <2>2. \A k \in Handlers : Underway(k) => Underway(k)'
    BY <2>1 DEF Asked, Underway
  <2> QED
    BY <1>a, <2>1, <2>2
<1>4. ASSUME NEW h \in Handlers, Unlink(h) PROVE \E k \in Handlers : Underway(k)'
  <2>1. job'[h].pc = "complete"
    BY <1>4 DEF Unlink, Asked, JobRecords
  <2> QED
    BY <2>1 DEF Underway
<1>5. ASSUME NEW h \in Handlers, CompleteReset(h) \/ FailReset(h) PROVE FALSE
  <2>1. machine' \in {"STOPPED", "ERROR"} \/ (machine # "RESETTING" /\ machine' = machine)
    BY <1>5 DEF CompleteReset, FailReset, Refuses
  <2> QED
    BY <2>1
<1>6. ~Restart
  <2> SUFFICES ASSUME Restart PROVE FALSE
    OBVIOUS
  <2>1. restarts' = restarts + 1
    BY DEF Restart
  <2>2. restarts \in Nat
    BY DEF Counted
  <2> QED
    BY <2>1, <2>2
<1>7. CASE Tick \/ SeesFlag \/ DeleteFlag \/ LoopSaves \/ LoopFails \/ WorkerStep \/ UNCHANGED vars
  <2>1. UNCHANGED <<machine, job, restarts>>
    BY <1>7 DEF Tick, SeesFlag, DeleteFlag, LoopSaves, LoopFails, WorkerStep, Process, Reconcile,
       SetFlag, WriteBack, vars
  <2> QED
    BY <1>a, <2>1 DEF Underway
<1>8. CASE CompletePrewarm \/ CompleteRecovery
  <2>1. machine' = machine /\ UNCHANGED <<job, restarts>>
    BY <1>8 DEF CompletePrewarm, CompleteRecovery
  <2> QED
    BY <1>a, <2>1 DEF Underway
<1> QED
  BY <1>1, <1>2, <1>3, <1>4, <1>5, <1>6, <1>7, <1>8 DEF Next, HandlerStep, LoopStep

(* For any number of operators, requests and overlapping repeats, late     *)
(* answers and failing calls: as long as the simulator's process lives, a  *)
(* machine that is RESETTING, and so accepts no command, has a handler     *)
(* that is about to take it out of it (service.py:153-175,                 *)
(* state_machine.py:30).                                                   *)
THEOREM ResettingIsServed == Spec => []ResetIsServed
<1>1. Init => NewHandlers /\ ResetIsServed
  BY DEF Init, NewHandlers, ResetIsServed, NoJob
<1> QED
  BY <1>1, TypedHolds, NewHandlersNext, ServedNext, PTL DEF Spec
=============================================================================
