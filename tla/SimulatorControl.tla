-------------------------- MODULE SimulatorControl --------------------------
(***************************************************************************)
(* The commands that drive the simulator, and the two processes that move  *)
(* it on without a command.                                                *)
(*                                                                         *)
(* An operator picks an action the simulation row of PostgreSQL offers and *)
(* sends it under a request id.  The API looks the id up among the stored  *)
(* results, calls the simulator, and writes the answer to the row.  The    *)
(* simulator moves its machine, saves the machine's state in Redis and     *)
(* publishes events.  The ingestion worker processes those, and where the  *)
(* row says PREWARMING or RECOVERING and the measurements are there, sets  *)
(* a flag in Redis and writes the row; the simulator's traffic loop polls  *)
(* the flag and moves the machine.  Nothing locks the row.                 *)
(*                                                                         *)
(* A batch is as much traffic as it takes: one "history" batch makes the   *)
(* baseline ready, one "faulty" batch opens an incident and one "healthy"  *)
(* batch resolves it.  The epoch counts where RuntimeReset has random      *)
(* values; the worker's own failures are in StreamIngestion.               *)
(***************************************************************************)
EXTENDS Integers, Sequences, FiniteSets

CONSTANTS
  RepeatsLost,   \* An operator who got no answer, or an error after the command
                 \* was followed, repeats the request and sends no other before
                 \* the simulator is done with it.  The front end never repeats
                 \* one, and does not wait.
  MaxRequests,   \* Bound: request ids the operators use.
  MaxOpen,       \* Bound: requests under way at the same time.
  MaxQueue,      \* Bound: batches in the stream when the traffic loop adds one.
  MaxRetries,    \* Bound: requests sent again under their id.
  MaxFaults      \* Bound: late answers, calls of Redis or PostgreSQL that fail and
                 \* restarts of the simulator, together.

ASSUME BoundAssumption ==
  /\ RepeatsLost \in BOOLEAN
  /\ MaxRequests \in Nat
  /\ MaxOpen \in Nat
  /\ MaxQueue \in Nat \ {0}
  /\ MaxRetries \in Nat
  /\ MaxFaults \in Nat

Requests == 1..MaxRequests

(* A request has one handler in the simulator each time it is sent.        *)
Handlers == Requests \X (0..MaxRetries)

Actions == {"START", "INJECT", "RECOVER", "STOP", "RESET"}

States == {"STOPPED", "PREWARMING", "RUNNING_HEALTHY", "INCIDENT_ACTIVE", "RECOVERING",
           "RESETTING", "ERROR"}

Batches == {"history", "healthy", "faulty"}

(* INJECTING is declared, and no code enters it. *)
Accepted(state) ==
  CASE state = "STOPPED" -> {"START", "RESET"}
    [] state = "PREWARMING" -> {"STOP"}
    [] state = "RUNNING_HEALTHY" -> {"INJECT", "STOP", "RESET"}
    [] state = "INCIDENT_ACTIVE" -> {"RECOVER", "STOP", "RESET"}
    [] state \in {"RECOVERING", "ERROR"} -> {"STOP", "RESET"}
    [] state = "RESETTING" -> {}

Target(action) ==
  CASE action = "START" -> "PREWARMING"
    [] action = "INJECT" -> "INCIDENT_ACTIVE"
    [] action = "RECOVER" -> "RECOVERING"
    [] action = "STOP" -> "STOPPED"
    [] action = "RESET" -> "RESETTING"

(* What a command publishes once its state is saved. *)
Published(action) ==
  CASE action = "START" -> <<"history">>
    [] action = "INJECT" -> <<"faulty">>
    [] action = "RECOVER" -> <<"healthy">>
    [] action \in {"STOP", "RESET"} -> <<>>

VARIABLES
  machine,       \* The simulator's state, in memory.
  results,       \* Its remembered results: request id -> state.
  saved,         \* The state in Redis, or "none".
  baselineFlag,  \* The baseline-ready key exists.
  recoveryFlag,  \* The recovery-ready key exists.
  loop,          \* Where the traffic loop is, and the state it is to save.
  job,           \* The simulator's handlers.
  queue,         \* The batches in the stream.
  epoch,         \* The runtime epoch.
  row,           \* The state in the simulation row.
  commands,      \* The stored results: request id -> state.
  request,       \* The API's side of each request.
  baseline,      \* The worker's pipeline has its baseline.
  incident,      \* The incident rows.
  worker,        \* Where the worker is.
  fence,         \* The worker's epoch.
  timeouts, retries, failures, restarts

machineVars == <<machine, results, saved, job>>
flagVars == <<baselineFlag, recoveryFlag>>
apiVars == <<row, commands, request>>
workerVars == <<baseline, worker, fence>>
faultVars == <<timeouts, retries, failures, restarts>>
vars == <<machineVars, flagVars, loop, queue, epoch, apiVars, workerVars, incident, faultVars>>

NoRequest == [action |-> "none", pc |-> "none", answer |-> "none", handler |-> 0]

NoJob == [pc |-> "none", save |-> "none", answer |-> "none"]

IdleLoop == [pc |-> "idle", save |-> "none"]

Nothing == [r \in {} |-> "none"]

Init ==
  /\ machine = "STOPPED"
  /\ results = Nothing
  /\ saved = "STOPPED"
  /\ baselineFlag = FALSE
  /\ recoveryFlag = FALSE
  /\ loop = IdleLoop
  /\ job = [h \in Handlers |-> NoJob]
  /\ queue = <<>>
  /\ epoch = 0
  /\ row = "STOPPED"
  /\ commands = Nothing
  /\ request = [r \in Requests |-> NoRequest]
  /\ baseline = FALSE
  /\ incident = "none"
  /\ worker = "idle"
  /\ fence = 0
  /\ timeouts = 0
  /\ retries = 0
  /\ failures = 0
  /\ restarts = 0

MayFail == timeouts + failures + restarts < MaxFaults

With(f, r, value) == [k \in DOMAIN f \cup {r} |-> IF k = r THEN value ELSE f[k]]

-----------------------------------------------------------------------------
(* The API: simulation_command. *)

InFlight(r) == request[r].pc \in {"look", "sent", "clear", "row", "command"}

(* Each click has a new id, and sends only what is offered. *)
Submit(r, action) ==
  /\ request[r].pc = "none"
  /\ \A k \in Requests : k < r => request[k].pc # "none"
  /\ Cardinality({k \in Requests : InFlight(k)}) < MaxOpen
  /\ action \in Accepted(row)
  /\ RepeatsLost => /\ \A k \in Requests : request[k].pc # "timed out"
                    /\ \A h \in Handlers : job[h].pc = "none"
  /\ request' = [request EXCEPT ![r] = [@ EXCEPT !.action = action, !.pc = "look"]]
  /\ UNCHANGED <<machineVars, flagVars, loop, queue, epoch, row, commands, workerVars, incident,
                 faultVars>>

(* A client that got an error sends the same request again, to a new       *)
(* handler: the earlier one may still be at work.                          *)
Retry(r) ==
  /\ request[r].pc \in {"timed out", "rejected"}
  /\ Cardinality({k \in Requests : InFlight(k)}) < MaxOpen
  /\ RepeatsLost => /\ \A k \in Requests : request[k].pc = "timed out" <=> k = r
                    /\ \A h \in Handlers : h[1] # r => job[h].pc = "none"
  /\ retries < MaxRetries
  /\ retries' = retries + 1
  /\ request' = [request EXCEPT ![r].pc = "look"]
  /\ UNCHANGED <<machineVars, flagVars, loop, queue, epoch, row, commands, workerVars, incident,
                 timeouts, failures, restarts>>

(* A stored result is the answer; otherwise the simulator is called. *)
LookUp(r) ==
  /\ request[r].pc = "look"
  /\ \/ /\ r \in DOMAIN commands
        /\ request' = [request EXCEPT ![r].pc = "done"]
        /\ job' = job
     \/ /\ r \notin DOMAIN commands
        /\ request' = [request EXCEPT ![r] = [@ EXCEPT !.pc = "sent", !.handler = retries]]
        /\ job' = [job EXCEPT ![<<r, retries>>].pc = "call"]
  /\ UNCHANGED <<machine, results, saved, flagVars, loop, queue, epoch, row, commands, workerVars,
                 incident, faultVars>>

(* The answer arrives.  A refused command and one that went wrong both     *)
(* arrive as a failure; after the second, the machine has moved.           *)
Answered(r) ==
  LET h == <<r, request[r].handler>>
      answer == job[h].answer
      next == CASE answer = "refused" -> "rejected"
                [] answer = "error" -> "timed out"
                [] answer \notin {"refused", "error"} /\ request[r].action = "RESET" -> "clear"
                [] OTHER -> "row"
  IN /\ request[r].pc = "sent"
     /\ job[h].pc = "answer"
     /\ job' = [job EXCEPT ![h] = NoJob]
     /\ request' = [request EXCEPT ![r] = [@ EXCEPT !.answer = answer, !.pc = next]]
     /\ UNCHANGED <<machine, results, saved, flagVars, loop, queue, epoch, row, commands,
                    workerVars, incident, faultVars>>

(* The HTTP client gives up; the simulator's handler goes on. *)
TimesOut(r) ==
  /\ request[r].pc = "sent"
  /\ MayFail
  /\ timeouts' = timeouts + 1
  /\ request' = [request EXCEPT ![r].pc = "timed out"]
  /\ UNCHANGED <<machineVars, flagVars, loop, queue, epoch, row, commands, workerVars, incident,
                 retries, failures, restarts>>

(* The runtime rows go, stored results among them; a clean row and a new   *)
(* epoch follow.                                                           *)
ClearRows(r) ==
  /\ request[r].pc = "clear"
  /\ row' = "STOPPED"
  /\ commands' = Nothing
  /\ incident' = "none"
  /\ epoch' = epoch + 1
  /\ request' = [request EXCEPT ![r].pc = "row"]
  /\ UNCHANGED <<machineVars, flagVars, loop, queue, workerVars, faultVars>>

WriteRow(r) ==
  /\ request[r].pc = "row"
  /\ row' = request[r].answer
  /\ request' = [request EXCEPT ![r].pc = "command"]
  /\ UNCHANGED <<machineVars, flagVars, loop, queue, epoch, commands, workerVars, incident,
                 faultVars>>

Stored(r) == IF r \in DOMAIN commands THEN commands ELSE With(commands, r, request[r].answer)

(* ON CONFLICT DO NOTHING: the first stored result stays. *)
StoreCommand(r) ==
  /\ request[r].pc = "command"
  /\ commands' = Stored(r)
  /\ request' = [request EXCEPT ![r].pc = "done"]
  /\ UNCHANGED <<machineVars, flagVars, loop, queue, epoch, row, workerVars, incident, faultVars>>

(* A store call of the API raises, or the publish after the last of them:  *)
(* the operator gets an error, and what is left to do is not done.         *)
ApiFails(r) ==
  /\ request[r].pc \in {"look", "clear", "row", "command"}
  /\ MayFail
  /\ failures' = failures + 1
  /\ commands' \in IF request[r].pc = "command" THEN {commands, Stored(r)} ELSE {commands}
  /\ request' = [request EXCEPT ![r].pc = "timed out"]
  /\ UNCHANGED <<machineVars, flagVars, loop, queue, epoch, row, workerVars, incident, timeouts,
                 retries, restarts>>

-----------------------------------------------------------------------------
(* The simulator's handlers. *)

Action(h) == request[h[1]].action

(* Where a handler goes from its transition, or from a remembered result:  *)
(* what it saves is the state the machine is in now.                       *)
Proceeds(h, state, answer) ==
  job' = [job EXCEPT ![h] = [pc |-> IF Action(h) = "RESET" THEN "unlink" ELSE "save",
                             save |-> state, answer |-> answer]]

Ends(h, answer) == job' = [job EXCEPT ![h] = [NoJob EXCEPT !.pc = "answer", !.answer = answer]]

Refuses(h) == Ends(h, "refused") /\ UNCHANGED <<machine, results>>

(* Bug for a mutant: a command is applied without looking at its id. *)
HandleForgetsIds(h) ==
  /\ job[h].pc = "call"
  /\ \/ /\ Action(h) \in Accepted(machine)
        /\ machine' = Target(Action(h))
        /\ results' = With(results, h[1], machine')
        /\ Proceeds(h, machine', machine')
     \/ /\ Action(h) \notin Accepted(machine)
        /\ Refuses(h)
  /\ UNCHANGED <<saved, flagVars, loop, queue, epoch, apiVars, workerVars, incident, faultVars>>

(* A known id is answered as before; any other must be accepted, moves the *)
(* machine and is remembered.                                              *)
Handle(h) ==
  /\ job[h].pc = "call"
  /\ \/ /\ h[1] \in DOMAIN results
        /\ Proceeds(h, machine, results[h[1]])
        /\ UNCHANGED <<machine, results>>
     \/ /\ h[1] \notin DOMAIN results
        /\ Action(h) \in Accepted(machine)
        /\ machine' = Target(Action(h))
        /\ results' = With(results, h[1], machine')
        /\ Proceeds(h, machine', machine')
     \/ /\ h[1] \notin DOMAIN results
        /\ Action(h) \notin Accepted(machine)
        /\ Refuses(h)
  /\ UNCHANGED <<saved, flagVars, loop, queue, epoch, apiVars, workerVars, incident, faultVars>>

(* _persist_status. *)
Save(h) ==
  /\ job[h].pc = "save"
  /\ saved' = job[h].save
  /\ job' = [job EXCEPT ![h].pc = IF Published(Action(h)) = <<>> THEN "answer" ELSE "publish"]
  /\ UNCHANGED <<machine, results, flagVars, loop, queue, epoch, apiVars, workerVars, incident,
                 faultVars>>

Publish(h) ==
  /\ job[h].pc = "publish"
  /\ queue' = queue \o Published(Action(h))
  /\ job' = [job EXCEPT ![h].pc = "answer"]
  /\ UNCHANGED <<machine, results, saved, flagVars, loop, epoch, apiVars, workerVars, incident,
                 faultVars>>

(* Redis raises, before or after it did what it was asked to: the command  *)
(* fails, but the machine has moved and the id is remembered.              *)
HandlerFails(h) ==
  /\ MayFail
  /\ failures' = failures + 1
  /\ \/ /\ job[h].pc = "save"
        /\ saved' \in {saved, job[h].save}
        /\ queue' = queue
     \/ /\ job[h].pc = "publish"
        /\ queue' \in {queue, queue \o Published(Action(h))}
        /\ saved' = saved
  /\ Ends(h, "error")
  /\ UNCHANGED <<machine, results, flagVars, loop, epoch, apiVars, workerVars, incident, timeouts,
                 retries, restarts>>

(* reset_synthetic_demo_data: every key of the demo is gone. *)
Unlink(h) ==
  /\ job[h].pc = "unlink"
  /\ saved' = "none"
  /\ baselineFlag' = FALSE
  /\ recoveryFlag' = FALSE
  /\ queue' = <<>>
  /\ epoch' = epoch + 1
  /\ job' = [job EXCEPT ![h].pc = "complete"]
  /\ UNCHANGED <<machine, results, loop, apiVars, workerVars, incident, faultVars>>

(* complete_reset; the results are forgotten, that of this reset among     *)
(* them.  It raises if another handler of the request was here before.     *)
CompleteReset(h) ==
  /\ job[h].pc = "complete"
  /\ \/ /\ machine = "RESETTING"
        /\ machine' = "STOPPED"
        /\ results' = Nothing
        /\ job' = [job EXCEPT ![h] = [pc |-> "save", save |-> "STOPPED", answer |-> "STOPPED"]]
     \/ /\ machine # "RESETTING"
        /\ Refuses(h)
  /\ UNCHANGED <<saved, flagVars, loop, queue, epoch, apiVars, workerVars, incident, faultVars>>

(* Redis raises: fail_reset, and the state is saved if that can be.        *)
(* fail_reset raises, too, if another handler of the request was there.    *)
FailReset(h) ==
  /\ job[h].pc = "unlink"
  /\ MayFail
  /\ failures' = failures + 1
  /\ \/ /\ machine = "RESETTING"
        /\ machine' = "ERROR"
        /\ results' = Nothing
        /\ saved' \in {saved, "ERROR"}
        /\ Ends(h, "refused")
     \/ /\ machine # "RESETTING"
        /\ saved' = saved
        /\ Refuses(h)
  /\ UNCHANGED <<flagVars, loop, queue, epoch, apiVars, workerVars, incident, timeouts, retries,
                 restarts>>

(* An answer nobody waits for. *)
AnswerLost(h) ==
  /\ job[h].pc = "answer"
  /\ ~(request[h[1]].pc = "sent" /\ request[h[1]].handler = h[2])
  /\ job' = [job EXCEPT ![h] = NoJob]
  /\ UNCHANGED <<machine, results, saved, flagVars, loop, queue, epoch, apiVars, workerVars,
                 incident, faultVars>>

(* The process dies, its handlers with it, and restores what it saved. *)
Restart ==
  /\ MayFail
  /\ restarts' = restarts + 1
  /\ machine' = IF saved = "none" THEN "STOPPED" ELSE saved
  /\ saved' = machine'
  /\ results' = Nothing
  /\ loop' = IdleLoop
  /\ job' = [h \in Handlers |-> NoJob]
  /\ request' = [r \in Requests |->
       IF request[r].pc = "sent" THEN [request[r] EXCEPT !.pc = "timed out"] ELSE request[r]]
  /\ UNCHANGED <<flagVars, queue, epoch, row, commands, workerVars, incident, timeouts, retries,
                 failures>>

-----------------------------------------------------------------------------
(* The traffic loop. *)

Tick ==
  /\ loop = IdleLoop
  /\ machine \in {"RUNNING_HEALTHY", "INCIDENT_ACTIVE", "RECOVERING"}
  /\ Len(queue) < MaxQueue
  /\ queue' = Append(queue, IF machine = "INCIDENT_ACTIVE" THEN "faulty" ELSE "healthy")
  /\ UNCHANGED <<machineVars, flagVars, loop, epoch, apiVars, workerVars, incident, faultVars>>

(* The loop reads a flag ... *)
SeesFlag ==
  /\ loop = IdleLoop
  /\ \/ /\ machine = "PREWARMING" /\ baselineFlag
        /\ loop' = [IdleLoop EXCEPT !.pc = "prewarmed"]
     \/ /\ machine = "RECOVERING" /\ recoveryFlag
        /\ loop' = [IdleLoop EXCEPT !.pc = "recovered"]
  /\ UNCHANGED <<machineVars, flagVars, queue, epoch, apiVars, workerVars, incident, faultVars>>

(* Bug for a mutant: the wrong state is asked for. *)
CompletePrewarmLate ==
  /\ loop.pc = "prewarmed"
  /\ \/ /\ machine = "RUNNING_HEALTHY"
        /\ machine' = "RUNNING_HEALTHY"
        /\ loop' = [pc |-> "save", save |-> "RUNNING_HEALTHY"]
     \/ /\ machine # "RUNNING_HEALTHY"
        /\ machine' = machine
        /\ loop' = IdleLoop
  /\ UNCHANGED <<results, saved, job, flagVars, queue, epoch, apiVars, workerVars, incident,
                 faultVars>>

(* ... and completes the phase, if the machine is still in it. *)
CompletePrewarm ==
  /\ loop.pc = "prewarmed"
  /\ \/ /\ machine = "PREWARMING"
        /\ machine' = "RUNNING_HEALTHY"
        /\ loop' = [pc |-> "save", save |-> "RUNNING_HEALTHY"]
     \/ /\ machine # "PREWARMING"
        /\ machine' = machine
        /\ loop' = IdleLoop
  /\ UNCHANGED <<results, saved, job, flagVars, queue, epoch, apiVars, workerVars, incident,
                 faultVars>>

CompleteRecovery ==
  /\ loop.pc = "recovered"
  /\ \/ /\ machine = "RECOVERING"
        /\ machine' = "RUNNING_HEALTHY"
        /\ loop' = [IdleLoop EXCEPT !.pc = "delete"]
     \/ /\ machine # "RECOVERING"
        /\ machine' = machine
        /\ loop' = IdleLoop
  /\ UNCHANGED <<results, saved, job, flagVars, queue, epoch, apiVars, workerVars, incident,
                 faultVars>>

DeleteFlag ==
  /\ loop.pc = "delete"
  /\ recoveryFlag' = FALSE
  /\ loop' = [pc |-> "save", save |-> machine]
  /\ UNCHANGED <<machineVars, baselineFlag, queue, epoch, apiVars, workerVars, incident,
                 faultVars>>

LoopSaves ==
  /\ loop.pc = "save"
  /\ saved' = loop.save
  /\ loop' = IdleLoop
  /\ UNCHANGED <<machine, results, job, flagVars, queue, epoch, apiVars, workerVars, incident,
                 faultVars>>

(* Redis raises after the machine has moved; the loop only waits a while.  *)
LoopFails ==
  /\ loop.pc \in {"delete", "save"}
  /\ MayFail
  /\ failures' = failures + 1
  /\ loop' = IdleLoop
  /\ UNCHANGED <<machineVars, flagVars, queue, epoch, apiVars, workerVars, incident, timeouts,
                 retries, restarts>>

-----------------------------------------------------------------------------
(* The ingestion worker. *)

(* The next batch, behind the epoch's fence.  Prewarm history counts by    *)
(* its event time only while the row says PREWARMING; it ends at the       *)
(* present, and completes the baseline either way.                         *)
Process ==
  LET fresh == epoch = fence
      had == fresh /\ baseline
      known == IF fresh THEN incident ELSE "none"
      kind == Head(queue)
  IN /\ worker = "idle"
     /\ queue # <<>>
     /\ queue' = Tail(queue)
     /\ fence' = epoch
     /\ baseline' = (had \/ kind = "history")
     /\ incident' = CASE kind = "faulty" /\ had -> "open"
                      [] kind = "healthy" /\ known = "open" -> "resolved"
                      [] OTHER -> known
     /\ worker' = "check"
     /\ UNCHANGED <<machineVars, flagVars, loop, epoch, apiVars, faultVars>>

(* The epoch again, and then the row and the incidents. *)
Reconcile ==
  /\ worker = "check"
  /\ \/ /\ epoch # fence
        /\ fence' = epoch
        /\ baseline' = FALSE
        /\ incident' = "none"
        /\ worker' = "idle"
     \/ /\ epoch = fence
        /\ worker' = CASE row = "PREWARMING" /\ baseline -> "set baseline"
                       [] row = "RECOVERING" /\ incident = "resolved" -> "set recovery"
                       [] OTHER -> "idle"
        /\ UNCHANGED <<fence, baseline, incident>>
  /\ UNCHANGED <<machineVars, flagVars, loop, queue, epoch, apiVars, faultVars>>

(* Bug for a mutant: the simulator is told of the baseline only. *)
SetBaselineFlag ==
  /\ worker \in {"set baseline", "set recovery"}
  /\ baselineFlag' = TRUE
  /\ worker' = "write"
  /\ UNCHANGED <<machineVars, recoveryFlag, loop, queue, epoch, apiVars, baseline, fence, incident,
                 faultVars>>

SetFlag ==
  /\ \/ /\ worker = "set baseline"
        /\ baselineFlag' = TRUE
        /\ recoveryFlag' = recoveryFlag
     \/ /\ worker = "set recovery"
        /\ recoveryFlag' = TRUE
        /\ baselineFlag' = baselineFlag
  /\ worker' = "write"
  /\ UNCHANGED <<machineVars, loop, queue, epoch, apiVars, baseline, fence, incident, faultVars>>

(* The row it read, changed, replaces whatever row is there now. *)
WriteBack ==
  /\ worker = "write"
  /\ row' = "RUNNING_HEALTHY"
  /\ worker' = "idle"
  /\ UNCHANGED <<machineVars, flagVars, loop, queue, epoch, commands, request, baseline, fence,
                 incident, faultVars>>

-----------------------------------------------------------------------------
ApiStep(r) == LookUp(r) \/ Answered(r) \/ ClearRows(r) \/ WriteRow(r) \/ StoreCommand(r)

HandlerStep(h) ==
  Handle(h) \/ Save(h) \/ Publish(h) \/ Unlink(h) \/ CompleteReset(h) \/ AnswerLost(h)

LoopStep == SeesFlag \/ CompletePrewarm \/ CompleteRecovery \/ DeleteFlag \/ LoopSaves

WorkerStep == Process \/ Reconcile \/ SetFlag \/ WriteBack

Next ==
  \/ \E r \in Requests, action \in Actions : Submit(r, action)
  \/ \E r \in Requests : Retry(r) \/ TimesOut(r) \/ ApiFails(r) \/ ApiStep(r)
  \/ \E h \in Handlers : HandlerFails(h) \/ FailReset(h) \/ HandlerStep(h)
  \/ LoopFails
  \/ Restart
  \/ Tick
  \/ LoopStep
  \/ WorkerStep

Spec == Init /\ [][Next]_vars

(* Requests are carried through, and both loops go on.  Polling the flag   *)
(* and publishing take turns in the loop: each has its own fairness.       *)
FairSpec ==
  /\ Spec
  /\ \A r \in Requests : WF_vars(ApiStep(r))
  /\ \A h \in Handlers : WF_vars(HandlerStep(h))
  /\ WF_vars(Tick)
  /\ WF_vars(LoopStep)
  /\ WF_vars(WorkerStep)

-----------------------------------------------------------------------------
(* Every variable has its type. *)
TypeOK ==
  /\ machine \in States
  /\ saved \in States \cup {"none"}
  /\ DOMAIN results \subseteq Requests
  /\ \A r \in DOMAIN results : results[r] \in States
  /\ <<baselineFlag, recoveryFlag, baseline>> \in BOOLEAN \X BOOLEAN \X BOOLEAN
  /\ loop.pc \in {"idle", "prewarmed", "recovered", "delete", "save"}
  /\ loop.save \in States \cup {"none"}
  /\ \A h \in Handlers :
       /\ job[h].pc \in {"none", "call", "save", "publish", "unlink", "complete", "answer"}
       /\ job[h].save \in States \cup {"none"}
       /\ job[h].answer \in States \cup {"none", "refused", "error"}
  /\ queue \in Seq(Batches)
  /\ row \in States \ {"RESETTING", "ERROR"}
  /\ \A r \in DOMAIN commands : commands[r] \in States
  /\ \A r \in Requests :
       /\ request[r].action \in Actions \cup {"none"}
       /\ request[r].pc \in {"none", "look", "sent", "clear", "row", "command", "done",
                             "timed out", "rejected"}
       /\ request[r].answer \in States \cup {"none", "refused", "error"}
       /\ request[r].handler \in 0..MaxRetries
  /\ incident \in {"none", "open", "resolved"}
  /\ worker \in {"idle", "check", "set baseline", "set recovery", "write"}
  /\ fence <= epoch
  /\ retries \in 0..MaxRetries

AtRest ==
  /\ \A r \in Requests : ~InFlight(r)
  /\ \A h \in Handlers : job[h].pc = "none"

(* An operator who repeats what was lost always has a way on: with no      *)
(* request under way or lost, the row offers an action the machine accepts, *)
(* whatever the worker has written over it (state_machine.py:13-30, 61-67; *)
(* investigator_service.py:1115-1117; app.py:147).                         *)
NoDeadEnd ==
  /\ AtRest
  /\ restarts = 0
  /\ \A r \in Requests : request[r].pc # "timed out"
  => Accepted(row) \cap Accepted(machine) # {}

(* Writes of an earlier phase that are still to come. *)
Late == worker \in {"set baseline", "set recovery", "write"} \/ loop.pc \in {"recovered", "delete"}

(* A prewarm that the row shows, with its history still to be processed,   *)
(* ends: the worker confirms the baseline and the loop sees it             *)
(* (app.py:116-117; api.py:40-42).                                         *)
PrewarmEnds ==
  (machine = "PREWARMING" /\ row = "PREWARMING" /\ AtRest /\ ~Late
     /\ \E i \in DOMAIN queue : queue[i] = "history")
    ~> machine # "PREWARMING"

(* A recovery that the row shows, from an incident that was opened, ends   *)
(* (app.py:130-135; api.py:47-50).                                         *)
RecoveryEnds ==
  (machine = "RECOVERING" /\ row = "RECOVERING" /\ AtRest /\ ~Late /\ incident # "none"
     /\ epoch = fence)
    ~> machine # "RECOVERING"
=============================================================================
