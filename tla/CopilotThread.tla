---------------------------- MODULE CopilotThread ----------------------------
(***************************************************************************)
(* The canonical Copilot thread of one incident: questions, the initial    *)
(* report, the runs that answer them, and manual retries.                  *)
(*                                                                         *)
(* A question is accepted in one transaction: its message, a notice where  *)
(* the evidence changed since the thread last saw it, the interaction, the *)
(* request pinned to an evidence package, and the stored result under the  *)
(* client's request id.  Questions and initial reports take turns under a  *)
(* lock of the API process; retries do not take it.  Each starts a task in *)
(* the process, which writes the interaction as it goes and fills the one  *)
(* answer of its interaction.  A task that raises writes a fallback there, *)
(* unless what it calls then raises too.                                   *)
(*                                                                         *)
(* An interaction is named by what makes it unique: a question by its      *)
(* request id, an initial report by its package version.  The provider and *)
(* the validation behind a run are in CopilotOrchestrator, the workspace's *)
(* copilot summary in IncidentProjection.                                  *)
(***************************************************************************)
EXTENDS Integers, Sequences, FiniteSets

CONSTANTS
  Clients,        \* Request ids of questions.
  MaxVersions,    \* Bound: versions of the evidence package.
  SerialRetries,  \* A retry is asked for once the runs and retries before it have ended.
  MaxRetries,     \* Bound: retry requests.
  MaxRequests,    \* Bound: questions, and requests for a report.
  MaxFaults       \* Bound: awaited calls that raise, and restarts of the API process.

Versions == 1..MaxVersions

Interactions == Clients \cup Versions

Attempts == 0..MaxRetries

Retries == 1..MaxRetries

ASSUME ClientAssumption ==
  /\ IsFiniteSet(Clients)
  /\ Clients \cap Int = {}
  /\ "report" \notin Clients
  /\ "nobody" \notin Clients

ASSUME BoundAssumption ==
  /\ MaxVersions \in Nat \ {0}
  /\ SerialRetries \in BOOLEAN
  /\ MaxRetries \in Nat
  /\ MaxRequests \in Nat
  /\ MaxFaults \in Nat

VARIABLES
  package,      \* The version select_copilot_evidence_package returns.
  latest,       \* The thread's latest package, 0 before the first.
  messages,     \* The thread, by sequence number.
  interaction,  \* The stored interaction.
  pinned,       \* The package of the stored request, 0 without one.
  commands,     \* Request ids with a stored result.
  retryUsed,    \* Interactions with a copilot_retry_used resource.
  handler,      \* The holder of _mutation_lock.
  retrying,     \* The handlers of retry requests.
  task,         \* The task of each interaction and attempt.
  requests,     \* How many questions and requests for a report there were.
  failures, crashes,
  abandoned     \* History: interactions whose task ended before its last write.

threadVars == <<latest, messages>>
storeVars == <<interaction, pinned, commands, retryUsed>>
bounds == <<requests, failures, crashes, abandoned>>
vars == <<package, threadVars, storeVars, handler, retrying, task, bounds>>

Absent == [status |-> "none", retry |-> FALSE]

Queued == [status |-> "QUEUED", retry |-> FALSE]

NoHandler == [pc |-> "idle", of |-> "nobody", seen |-> 0, version |-> 0]

NoRetry == [pc |-> "idle", of |-> 1]

NoTask == [pc |-> "none", outcome |-> "none"]

Init ==
  /\ package = 1
  /\ latest = 0
  /\ messages = <<>>
  /\ interaction = [i \in Interactions |-> Absent]
  /\ pinned = [i \in Interactions |-> 0]
  /\ commands = {}
  /\ retryUsed = {}
  /\ handler = NoHandler
  /\ retrying = [k \in Retries |-> NoRetry]
  /\ task = [t \in Interactions \X Attempts |-> NoTask]
  /\ requests = 0
  /\ failures = 0
  /\ crashes = 0
  /\ abandoned = {}

(* The evidence builder stores a new version. *)
NewPackage ==
  /\ package < MaxVersions
  /\ package' = package + 1
  /\ UNCHANGED <<threadVars, storeVars, handler, retrying, task, bounds>>

-----------------------------------------------------------------------------
(* Messages. *)

IsAnswer(m) == m.kind \in {"answer", "fallback"}

(* Bug for a mutant: every run appends its answer. *)
FilledTwice(i, kind, version) == Append(messages, [kind |-> kind, of |-> i, package |-> version])

(* upsert_copilot_response: one message per interaction, in its place. *)
Filled(i, kind, version) ==
  LET message == [kind |-> kind, of |-> i, package |-> version]
      Mine(n) == IsAnswer(messages[n]) /\ messages[n].of = i
  IN IF \E n \in DOMAIN messages : Mine(n)
     THEN [n \in DOMAIN messages |-> IF Mine(n) THEN message ELSE messages[n]]
     ELSE Append(messages, message)

(* A notice has an identity of its own, and is inserted once. *)
Noticed(from, to) ==
  LET notice == [kind |-> "notice", of |-> from, package |-> to]
  IN IF from \in {0, to} \/ \E n \in DOMAIN messages : messages[n] = notice
     THEN messages
     ELSE Append(messages, notice)

-----------------------------------------------------------------------------
(* submit_copilot_message, under the lock. *)

(* A stored result is returned as it is.  Otherwise the thread is read ... *)
BeginQuestion(c) ==
  /\ handler = NoHandler
  /\ requests < MaxRequests
  /\ requests' = requests + 1
  /\ handler' = IF c \in commands THEN NoHandler
                ELSE [NoHandler EXCEPT !.pc = "select", !.of = c, !.seen = latest]
  /\ UNCHANGED <<package, threadVars, storeVars, retrying, task, failures, crashes, abandoned>>

(* ... and a package selected. *)
SelectPackage ==
  /\ handler.pc = "select"
  /\ handler' = [handler EXCEPT !.pc = IF handler.of \in Clients THEN "accept" ELSE "look",
                                !.version = package]
  /\ UNCHANGED <<package, threadVars, storeVars, retrying, task, bounds>>

(* accept_copilot_request, in one transaction. *)
Accept ==
  LET c == handler.of
  IN /\ handler.pc = "accept"
     /\ messages' = Append(Noticed(handler.seen, handler.version),
                           [kind |-> "question", of |-> c, package |-> handler.version])
     /\ latest' = handler.version
     /\ interaction' = [interaction EXCEPT ![c] = Queued]
     /\ pinned' = [pinned EXCEPT ![c] = handler.version]
     /\ commands' = commands \cup {c}
     /\ handler' = [handler EXCEPT !.pc = "spawn"]
     /\ UNCHANGED <<package, retryUsed, retrying, task, bounds>>

(* Bug for a mutant: only reports start a task. *)
SpawnReport ==
  /\ handler.pc = "spawn"
  /\ task' = IF handler.of = "report" THEN [task EXCEPT ![<<handler.version, 0>>].pc = "context"]
             ELSE task
  /\ handler' = NoHandler
  /\ UNCHANGED <<package, threadVars, storeVars, retrying, bounds>>

(* After the update is published, the task starts and the lock is free. *)
Spawn ==
  LET i == IF handler.of = "report" THEN handler.version ELSE handler.of
  IN /\ handler.pc = "spawn"
     /\ task' = [task EXCEPT ![<<i, 0>>].pc = "context"]
     /\ handler' = NoHandler
     /\ UNCHANGED <<package, threadVars, storeVars, retrying, bounds>>

-----------------------------------------------------------------------------
(* request_initial_copilot_report, under the lock. *)

BeginReport ==
  /\ handler = NoHandler
  /\ requests < MaxRequests
  /\ requests' = requests + 1
  /\ handler' = [NoHandler EXCEPT !.pc = "select", !.of = "report"]
  /\ UNCHANGED <<package, threadVars, storeVars, retrying, task, failures, crashes, abandoned>>

(* The report of this package exists, or is queued. *)
QueueReport ==
  LET v == handler.version
  IN /\ handler.pc = "look"
     /\ \/ /\ interaction[v] # Absent
           /\ handler' = NoHandler
           /\ interaction' = interaction
        \/ /\ interaction[v] = Absent
           /\ interaction' = [interaction EXCEPT ![v] = Queued]
           /\ handler' = [handler EXCEPT !.pc = "pin"]
     /\ UNCHANGED <<package, threadVars, pinned, commands, retryUsed, retrying, task, bounds>>

PinReport ==
  /\ handler.pc = "pin"
  /\ pinned' = [pinned EXCEPT ![handler.version] = handler.version]
  /\ handler' = [handler EXCEPT !.pc = "thread"]
  /\ UNCHANGED <<package, threadVars, interaction, commands, retryUsed, retrying, task, bounds>>

ReportOnThread ==
  /\ handler.pc = "thread"
  /\ latest' = handler.version
  /\ handler' = [handler EXCEPT !.pc = "spawn"]
  /\ UNCHANGED <<package, messages, storeVars, retrying, task, bounds>>

(* A call of the handler raises: the rest is not done. *)
HandlerFails ==
  /\ handler.pc # "idle"
  /\ failures + crashes < MaxFaults
  /\ failures' = failures + 1
  /\ handler' = NoHandler
  /\ UNCHANGED <<package, threadVars, storeVars, retrying, task, requests, crashes, abandoned>>

-----------------------------------------------------------------------------
(* retry_copilot, without the lock. *)

HasTask(i) == \E a \in Attempts : task[<<i, a>>].pc # "none"

BeginRetry(k, i) ==
  /\ retrying[k].pc = "idle"
  /\ \A a \in Retries : a < k => retrying[a].pc # "idle"
  /\ SerialRetries => ~HasTask(i) /\ \A a \in Retries : retrying[a].pc \in {"idle", "done"}
  /\ interaction[i].retry
  /\ retrying' = [retrying EXCEPT ![k] = [pc |-> "queue", of |-> i]]
  /\ UNCHANGED <<package, threadVars, storeVars, handler, task, bounds>>

RetryQueues(k) ==
  /\ retrying[k].pc = "queue"
  /\ interaction' = [interaction EXCEPT ![retrying[k].of] = Queued]
  /\ retrying' = [retrying EXCEPT ![k].pc = "use"]
  /\ UNCHANGED <<package, threadVars, pinned, commands, retryUsed, handler, task, bounds>>

RetrySpawns(k) ==
  LET i == retrying[k].of
  IN /\ retrying[k].pc = "use"
     /\ retryUsed' = retryUsed \cup {i}
     /\ task' = [task EXCEPT ![<<i, k>>].pc = "context"]
     /\ retrying' = [retrying EXCEPT ![k].pc = "done"]
     /\ UNCHANGED <<package, threadVars, interaction, pinned, commands, handler, bounds>>

-----------------------------------------------------------------------------
(* _run_copilot. *)

(* Bug for a mutant: the thread moves to the newest package. *)
ContextOnNewest(t) ==
  /\ task[t].pc = "context"
  /\ latest' = package
  /\ task' = [task EXCEPT ![t].pc = "progress"]
  /\ UNCHANGED <<package, messages, storeVars, handler, retrying, bounds>>

(* _copilot_context: the thread's latest package becomes the pinned one. *)
Context(t) ==
  /\ task[t].pc = "context"
  /\ latest' = pinned[t[1]]
  /\ task' = [task EXCEPT ![t].pc = "progress"]
  /\ UNCHANGED <<package, messages, storeVars, handler, retrying, bounds>>

(* progress, before the provider is called. *)
Progress(t) ==
  /\ task[t].pc = "progress"
  /\ interaction' = [interaction EXCEPT ![t[1]] = [status |-> "IN_PROGRESS", retry |-> FALSE]]
  /\ task' = [task EXCEPT ![t].pc = "run"]
  /\ UNCHANGED <<package, threadVars, pinned, commands, retryUsed, handler, retrying, bounds>>

KindOf(outcome) == IF outcome = "answer" THEN "answer" ELSE "fallback"

(* The orchestrator answers, or falls back; a fallback may be retryable,   *)
(* unless a retry was used.  Without any progress it falls back (invalid   *)
(* evidence, an open circuit, a progress callback that raises), or repeats *)
(* the report it has in its cache when it is retried.  The thread gets the *)
(* answer or the fallback, on the pinned package ...                       *)
Outcomes(t) ==
  {"fallback"} \cup (IF t[1] \in retryUsed THEN {} ELSE {"retryable"})
    \cup (IF task[t].pc = "run" \/ (t[1] \in Versions /\ t[2] # 0) THEN {"answer"} ELSE {})

(* Bug for a mutant: the answer names the package that is newest now. *)
AnswerUnpinned(t) ==
  /\ task[t].pc \in {"progress", "run"}
  /\ \E outcome \in Outcomes(t) :
       /\ messages' = Filled(t[1], KindOf(outcome), latest)
       /\ task' = [task EXCEPT ![t] = [pc |-> "final", outcome |-> outcome]]
  /\ UNCHANGED <<package, latest, storeVars, handler, retrying, bounds>>

Answer(t) ==
  /\ task[t].pc \in {"progress", "run"}
  /\ \E outcome \in Outcomes(t) :
       /\ messages' = Filled(t[1], KindOf(outcome), pinned[t[1]])
       /\ task' = [task EXCEPT ![t] = [pc |-> "final", outcome |-> outcome]]
  /\ UNCHANGED <<package, latest, storeVars, handler, retrying, bounds>>

(* ... then the interaction its result ... *)
WriteResult(t) ==
  LET outcome == task[t].outcome
  IN /\ task[t].pc = "final"
     /\ interaction' = [interaction EXCEPT ![t[1]] =
          [status |-> IF outcome = "answer" THEN "VALIDATED" ELSE "FALLBACK",
           retry |-> outcome = "retryable"]]
     /\ task' = [task EXCEPT ![t] = IF t[1] \in Clients THEN NoTask
                                    ELSE [pc |-> "summary", outcome |-> "none"]]
     /\ UNCHANGED <<package, threadVars, pinned, commands, retryUsed, handler, retrying, bounds>>

(* ... and, of a report, the workspace its summary. *)
Summarise(t) ==
  /\ task[t].pc = "summary"
  /\ task' = [task EXCEPT ![t] = NoTask]
  /\ UNCHANGED <<package, threadVars, storeVars, handler, retrying, bounds>>

Working(t) == task[t].pc \in {"context", "progress", "run", "final", "summary"}

(* Bug for a mutant: an exception ends the task. *)
TaskDies(t) ==
  /\ Working(t)
  /\ failures + crashes < MaxFaults
  /\ failures' = failures + 1
  /\ task' = [task EXCEPT ![t] = NoTask]
  /\ UNCHANGED <<package, threadVars, storeVars, handler, retrying, requests, crashes, abandoned>>

(* An awaited call raises, also after the answer or the result was written. *)
TaskFails(t) ==
  /\ Working(t)
  /\ failures + crashes < MaxFaults
  /\ failures' = failures + 1
  /\ task' = [task EXCEPT ![t] = [pc |-> "failed", outcome |-> "none"]]
  /\ UNCHANGED <<package, threadVars, storeVars, handler, retrying, requests, crashes, abandoned>>

(* Bug for a mutant: an exception leaves the thread as it is. *)
FallBackQuietly(t) ==
  /\ task[t].pc = "failed"
  /\ task' = [task EXCEPT ![t].pc = "fallen"]
  /\ UNCHANGED <<package, threadVars, storeVars, handler, retrying, bounds>>

(* The exception handler: a fallback takes the place of the answer ... *)
FallBack(t) ==
  /\ task[t].pc = "failed"
  /\ messages' = IF pinned[t[1]] = 0 THEN messages ELSE Filled(t[1], "fallback", pinned[t[1]])
  /\ task' = [task EXCEPT ![t].pc = "fallen"]
  /\ UNCHANGED <<package, latest, storeVars, handler, retrying, bounds>>

(* ... and the interaction offers a retry, used or not.  What follows, the *)
(* summary and an announcement, changes nothing here.                      *)
WriteFailure(t) ==
  /\ task[t].pc = "fallen"
  /\ interaction' = [interaction EXCEPT ![t[1]] = [status |-> "FALLBACK", retry |-> TRUE]]
  /\ task' = [task EXCEPT ![t] = NoTask]
  /\ UNCHANGED <<package, threadVars, pinned, commands, retryUsed, handler, retrying, bounds>>

(* A call of the exception handler raises: nobody handles that.            *)
FallBackFails(t) ==
  /\ task[t].pc \in {"failed", "fallen"}
  /\ failures + crashes < MaxFaults
  /\ failures' = failures + 1
  /\ task' = [task EXCEPT ![t] = NoTask]
  /\ abandoned' = abandoned \cup {t[1]}
  /\ UNCHANGED <<package, threadVars, storeVars, handler, retrying, requests, crashes>>

(* The process restarts without its tasks and requests. *)
Crash ==
  /\ failures + crashes < MaxFaults
  /\ crashes' = crashes + 1
  /\ handler' = NoHandler
  /\ retrying' = [k \in Retries |->
       IF retrying[k].pc = "idle" THEN NoRetry ELSE [retrying[k] EXCEPT !.pc = "done"]]
  /\ task' = [t \in Interactions \X Attempts |-> NoTask]
  /\ abandoned' = abandoned \cup
       {i \in Interactions : \E a \in Attempts : task[<<i, a>>].pc \notin {"none", "summary"}}
  /\ UNCHANGED <<package, threadVars, storeVars, requests, failures>>

-----------------------------------------------------------------------------
HandlerStep == SelectPackage \/ Accept \/ Spawn \/ QueueReport \/ PinReport \/ ReportOnThread

RetryStep(k) == RetryQueues(k) \/ RetrySpawns(k)

TaskStep(t) ==
  \/ Context(t)
  \/ Progress(t)
  \/ Answer(t)
  \/ WriteResult(t)
  \/ Summarise(t)
  \/ FallBack(t)
  \/ WriteFailure(t)

Next ==
  \/ NewPackage
  \/ \E c \in Clients : BeginQuestion(c)
  \/ BeginReport
  \/ HandlerStep
  \/ HandlerFails
  \/ \E k \in Retries, i \in Interactions : BeginRetry(k, i)
  \/ \E k \in Retries : RetryStep(k)
  \/ \E t \in Interactions \X Attempts : TaskStep(t) \/ TaskFails(t) \/ FallBackFails(t)
  \/ Crash

Spec == Init /\ [][Next]_vars

(* Requests that have begun are carried through, and so are tasks: the     *)
(* provider is called with a deadline.                                     *)
FairSpec ==
  /\ Spec
  /\ WF_vars(HandlerStep)
  /\ \A k \in Retries : WF_vars(RetryStep(k))
  /\ \A t \in Interactions \X Attempts : WF_vars(TaskStep(t))

-----------------------------------------------------------------------------
Message ==
  [kind : {"notice"}, of : Versions, package : Versions]
    \cup [kind : {"question"}, of : Clients, package : Versions]
    \cup [kind : {"answer", "fallback"}, of : Interactions, package : Versions]

(* Every variable has its type. *)
TypeOK ==
  /\ package \in Versions
  /\ latest \in 0..MaxVersions
  /\ messages \in Seq(Message)
  /\ interaction \in [Interactions ->
       [status : {"none", "QUEUED", "IN_PROGRESS", "VALIDATED", "FALLBACK"}, retry : BOOLEAN]]
  /\ pinned \in [Interactions -> 0..MaxVersions]
  /\ commands \subseteq Clients
  /\ retryUsed \subseteq Interactions
  /\ handler \in [pc : {"idle", "select", "accept", "spawn", "look", "pin", "thread"},
                  of : Clients \cup {"report", "nobody"}, seen : 0..MaxVersions,
                  version : 0..MaxVersions]
  /\ retrying \in [Retries -> [pc : {"idle", "queue", "use", "done"}, of : Interactions]]
  /\ task \in [Interactions \X Attempts ->
       [pc : {"none", "context", "progress", "run", "final", "summary", "failed", "fallen"},
        outcome : {"none", "answer", "fallback", "retryable"}]]
  /\ requests \in 0..MaxRequests
  /\ failures \in 0..MaxFaults
  /\ crashes \in 0..MaxFaults
  /\ abandoned \subseteq Interactions

(* However often a question is sent, run and retried, the thread holds it  *)
(* once, one answer to it at most, and the question first                  *)
(* (runtime_store.py:812-820, 631-657; docs/architecture.md:60).           *)
OneAnswerEach ==
  \A m, n \in DOMAIN messages :
    /\ messages[m].of = messages[n].of /\ IsAnswer(messages[m]) = IsAnswer(messages[n])
         /\ messages[m].kind # "notice" /\ messages[n].kind # "notice" => m = n
    /\ messages[m].kind = "question" /\ IsAnswer(messages[n])
         => messages[n].of # messages[m].of \/ m < n

(* An answer is given on the package its question was accepted with, not   *)
(* on the one the thread has moved to (investigator_service.py:857-867).   *)
AnswersArePinned ==
  \A m, n \in DOMAIN messages :
    messages[m].kind = "question" /\ IsAnswer(messages[n]) /\ messages[n].of = messages[m].of
      => messages[n].package = messages[m].package

(* Where a question is on newer evidence than an earlier one, the thread   *)
(* says so before it, or an initial report on that evidence was queued     *)
(* (investigator_service.py:413-445).                                      *)
NewEvidenceIsAnnounced ==
  \A m, n \in DOMAIN messages :
    /\ m < n
    /\ messages[m].kind = "question" /\ messages[n].kind = "question"
    /\ messages[m].package < messages[n].package
    => \/ interaction[messages[n].package] # Absent
       \/ \E k \in 1..n : messages[k].kind = "notice" /\ messages[k].package = messages[n].package

Settled(i) == interaction[i].status \in {"VALIDATED", "FALLBACK"}

(* Once no task works on it, an interaction that has ended agrees with its *)
(* answer: whoever polls it and whoever reads the thread see the same.     *)
(* Where a second failure, or a restart, ended the task that was about to  *)
(* write the failure, they may not (investigator_service.py:796-840).      *)
ResultMatchesMessage ==
  SerialRetries =>
    \A i \in Interactions \ abandoned : Settled(i) /\ ~HasTask(i) /\ pinned[i] # 0 =>
      \E n \in DOMAIN messages :
        /\ messages[n].of = i
        /\ messages[n].kind = IF interaction[i].status = "VALIDATED" THEN "answer" ELSE "fallback"

(* One manual retry is available (investigator_service.py:652, 813).       *)
OneRetry ==
  \A k, l \in Retries :
    retrying[k].pc = "done" /\ retrying[l].pc = "done" /\ retrying[k].of = retrying[l].of => k = l

(* Runs end their interactions, also where one of their calls raises: none *)
(* stays in progress but those whose task a restart of the process, or a   *)
(* second failure, in the handling of the first, has ended                 *)
(* (investigator_service.py:803-842).                                      *)
EveryRunSettles ==
  <>[](\A i \in Interactions \ abandoned : interaction[i].status # "IN_PROGRESS")

(* Without failures, every accepted question is answered                   *)
(* (investigator_service.py:510-516).                                      *)
EveryQuestionSettles ==
  []<>(failures + crashes > 0 \/ \A c \in commands : Settled(c))
=============================================================================
