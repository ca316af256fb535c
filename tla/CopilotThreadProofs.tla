------------------------ MODULE CopilotThreadProofs -------------------------
(***************************************************************************)
(* Machine-checked proofs about CopilotThread, for any number of clients,  *)
(* package versions, retries and faults.                                   *)
(***************************************************************************)
EXTENDS CopilotThread, TLAPS

-----------------------------------------------------------------------------
(* Messages. *)

AnswerOf(i, kind, version) == [kind |-> kind, of |-> i, package |-> version]

Question(c, version) == [kind |-> "question", of |-> c, package |-> version]

Answers(m, i) == IsAnswer(m) /\ m.of = i

LEMMA MessageTypes ==
  /\ \A f, v \in Versions : [kind |-> "notice", of |-> f, package |-> v] \in Message
  /\ \A c \in Clients, v \in Versions : Question(c, v) \in Message
  /\ \A i \in Interactions, v \in Versions, k \in {"answer", "fallback"} :
       AnswerOf(i, k, v) \in Message
  /\ \A m \in Message :
       /\ m.package \in Versions
       /\ m.kind = "question" => m.of \in Clients
       /\ IsAnswer(m) => m.of \in Interactions
       /\ m.kind \in {"notice", "question", "answer", "fallback"}
BY DEF Message, AnswerOf, Question, IsAnswer

LEMMA AppendFacts ==
  ASSUME NEW S, NEW seq \in Seq(S), NEW e \in S
  PROVE  /\ Append(seq, e) \in Seq(S)
         /\ Len(seq) \in Nat /\ DOMAIN seq = 1..Len(seq)
         /\ Len(Append(seq, e)) = Len(seq) + 1
         /\ DOMAIN Append(seq, e) = 1..(Len(seq) + 1)
         /\ \A n \in DOMAIN seq : Append(seq, e)[n] = seq[n]
         /\ Append(seq, e)[Len(seq) + 1] = e
OBVIOUS

(* The answer of an interaction is filled in where it was, or at the end.  *)
LEMMA FilledFacts ==
  ASSUME messages \in Seq(Message), NEW i \in Interactions, NEW v \in Versions,
         NEW kind \in {"answer", "fallback"},
         NEW new, new = Filled(i, kind, v)
  PROVE  /\ new \in Seq(Message)
         /\ DOMAIN messages = 1..Len(messages) /\ DOMAIN new = 1..Len(new)
         /\ Len(messages) \in Nat /\ Len(new) \in Nat
         /\ Len(messages) <= Len(new) /\ Len(new) <= Len(messages) + 1
         /\ \A n \in DOMAIN messages :
              new[n] = IF Answers(messages[n], i) THEN AnswerOf(i, kind, v) ELSE messages[n]
         /\ \A n \in DOMAIN new \ DOMAIN messages :
              /\ new[n] = AnswerOf(i, kind, v)
              /\ \A k \in DOMAIN messages : ~Answers(messages[k], i)
         /\ \E n \in DOMAIN new : new[n] = AnswerOf(i, kind, v)
<1> DEFINE message == AnswerOf(i, kind, v)
           Mine(n) == Answers(messages[n], i)
           some == \E n \in DOMAIN messages : Mine(n)
<1>1. message \in Message
  BY MessageTypes
<1>2. /\ Len(messages) \in Nat /\ DOMAIN messages = 1..Len(messages)
      /\ \A n \in DOMAIN messages : messages[n] \in Message
  OBVIOUS
<1>3. new = IF some THEN [n \in DOMAIN messages |-> IF Mine(n) THEN message ELSE messages[n]]
            ELSE Append(messages, message)
  BY DEF Filled, AnswerOf, Answers
<1> HIDE DEF message
<1>4. CASE some
  <2>1. \A n \in DOMAIN messages : (IF Mine(n) THEN message ELSE messages[n]) \in Message
    BY <1>1, <1>2
  <2>2. new = [n \in 1..Len(messages) |-> IF Mine(n) THEN message ELSE messages[n]]
    BY <1>2, <1>3, <1>4
  <2>3. new \in Seq(Message) /\ Len(new) = Len(messages) /\ DOMAIN new = 1..Len(messages)
    BY <1>2, <2>1, <2>2
  <2> QED
    BY <1>2, <1>4, <2>2, <2>3 DEF message
<1>5. CASE ~some
  <2>1. new = Append(messages, message)
    BY <1>3, <1>5
  <2>2. /\ new \in Seq(Message) /\ Len(new) = Len(messages) + 1
        /\ DOMAIN new = 1..(Len(messages) + 1)
        /\ \A n \in DOMAIN messages : new[n] = messages[n]
        /\ new[Len(messages) + 1] = message
    BY <1>1, <1>2, <2>1
  <2> QED
    BY <1>2, <1>5, <2>2 DEF message
<1> QED
  BY <1>4, <1>5

(* A question comes last, and a notice before it where the evidence has    *)
(* changed.                                                                *)
LEMMA AskedFacts ==
  ASSUME messages \in Seq(Message), NEW c \in Clients, NEW from \in 0..MaxVersions,
         NEW to \in Versions, NEW question, question = Question(c, to),
         NEW new, new = Append(Noticed(from, to), question)
  PROVE  /\ new \in Seq(Message)
         /\ DOMAIN messages = 1..Len(messages) /\ DOMAIN new = 1..Len(new)
         /\ Len(messages) \in Nat /\ Len(new) \in Nat /\ Len(messages) < Len(new)
         /\ \A n \in DOMAIN messages : new[n] = messages[n]
         /\ \A n \in DOMAIN new \ DOMAIN messages : n # Len(new) => new[n].kind = "notice"
         /\ new[Len(new)] = question
         /\ from \notin {0, to} =>
              \E n \in DOMAIN new : new[n].kind = "notice" /\ new[n].package = to
<1> DEFINE notice == [kind |-> "notice", of |-> from, package |-> to]
           before == Noticed(from, to)
<1>1. /\ Len(messages) \in Nat /\ DOMAIN messages = 1..Len(messages)
  OBVIOUS
<1>2. question \in Message /\ (from # 0 => notice \in Message)
  BY MessageTypes, BoundAssumption DEF Versions, Question
<1>3. /\ before \in Seq(Message) /\ DOMAIN before = 1..Len(before)
      /\ Len(before) \in Nat /\ Len(messages) <= Len(before)
      /\ \A n \in DOMAIN messages : before[n] = messages[n]
      /\ \A n \in DOMAIN before \ DOMAIN messages : before[n].kind = "notice"
      /\ from \notin {0, to} =>
           \E n \in DOMAIN before : before[n].kind = "notice" /\ before[n].package = to
  <2>1. CASE from \in {0, to} \/ \E n \in DOMAIN messages : messages[n] = notice
    <3>1. before = messages
      BY <2>1 DEF Noticed
    <3>2. notice.kind = "notice" /\ notice.package = to
      OBVIOUS
    <3> HIDE DEF before, notice
    <3> QED
      BY <1>1, <2>1, <3>1, <3>2
  <2>2. CASE ~(from \in {0, to} \/ \E n \in DOMAIN messages : messages[n] = notice)
    <3>1. before = Append(messages, notice)
      BY <2>2 DEF Noticed
    <3>2. notice.kind = "notice" /\ notice.package = to /\ notice \in Message
      BY <1>2, <2>2
    <3> HIDE DEF before, notice
    <3>3. /\ before \in Seq(Message) /\ Len(before) = Len(messages) + 1
          /\ DOMAIN before = 1..(Len(messages) + 1)
          /\ \A n \in DOMAIN messages : before[n] = messages[n]
          /\ before[Len(messages) + 1] = notice
      BY <1>1, <3>1, <3>2
    <3>4. Len(messages) + 1 \in DOMAIN before
      BY <1>1, <3>3
    <3> QED
      BY <1>1, <3>2, <3>3, <3>4
  <2> QED
    BY <2>1, <2>2
<1>4. new = Append(before, question)
  OBVIOUS
<1> HIDE DEF before, notice
<1>5. /\ new \in Seq(Message) /\ Len(new) = Len(before) + 1 /\ Len(before) \in Nat
      /\ DOMAIN new = 1..(Len(before) + 1)
      /\ \A n \in DOMAIN before : new[n] = before[n]
      /\ new[Len(before) + 1] = question
  <2>1. before \in Seq(Message) /\ question \in Message
    BY <1>2, <1>3
  <2>2. /\ new \in Seq(Message) /\ Len(new) = Len(before) + 1 /\ Len(before) \in Nat
        /\ DOMAIN new = 1..(Len(before) + 1)
    BY <1>4, <2>1, AppendFacts
  <2>3. /\ \A n \in DOMAIN before : new[n] = before[n]
        /\ new[Len(before) + 1] = question
    BY <1>4, <2>1, AppendFacts
  <2> QED
    BY <2>2, <2>3
<1>6. \A n \in DOMAIN messages : n \in DOMAIN before /\ new[n] = messages[n]
  BY <1>1, <1>3, <1>5
<1>7. \A n \in DOMAIN new \ DOMAIN messages : n # Len(new) =>
        n \in DOMAIN before \ DOMAIN messages /\ new[n] = before[n]
  BY <1>1, <1>3, <1>5
<1>8. from \notin {0, to} =>
        \E n \in DOMAIN new : new[n].kind = "notice" /\ new[n].package = to
  BY <1>3, <1>5
<1>9. /\ DOMAIN new = 1..Len(new) /\ Len(new) \in Nat /\ Len(messages) < Len(new)
      /\ new[Len(new)] = question
  BY <1>1, <1>3, <1>5
<1>10. \A n \in DOMAIN new \ DOMAIN messages : n # Len(new) => new[n].kind = "notice"
  BY <1>3, <1>7
<1>11. \A n \in DOMAIN messages : new[n] = messages[n]
  BY <1>6
<1> QED
  BY <1>1, <1>5, <1>8, <1>9, <1>10, <1>11

-----------------------------------------------------------------------------
(* A client's request is stored whole, a report's in two steps.            *)
StoreAgrees ==
  /\ \A c \in Clients : (pinned[c] # 0 <=> c \in commands)
                        /\ (interaction[c] # Absent <=> c \in commands)
  /\ \A v \in Versions : pinned[v] \in {0, v} /\ (pinned[v] # 0 => interaction[v] # Absent)

(* The question of a stored request is on the thread, and a message names  *)
(* the package its request is pinned to.                                   *)
ThreadAgrees ==
  /\ \A c \in commands : \E n \in DOMAIN messages :
       messages[n].kind = "question" /\ messages[n].of = c
  /\ \A n \in DOMAIN messages : messages[n].kind # "notice" =>
       /\ messages[n].package = pinned[messages[n].of]
       /\ messages[n].kind = "question" => messages[n].of \in commands

Handled == IF handler.of = "report" THEN handler.version ELSE handler.of

(* Nothing runs an interaction, and no retry of it is under way. *)
Unused(i) ==
  /\ \A a \in Attempts : task[<<i, a>>].pc = "none"
  /\ \A k \in Retries : retrying[k].pc \in {"queue", "use"} => retrying[k].of # i

(* What the holder of the lock has done before its next step. *)
HandlerKnows ==
  /\ handler.pc = "idle" => handler = NoHandler
  /\ handler.pc = "select" => handler.of \in (Clients \ commands) \cup {"report"}
  /\ handler.pc = "accept" => handler.of \in Clients \ commands
  /\ handler.pc \in {"look", "pin", "thread"} => handler.of = "report"
  /\ handler.pc = "spawn" => handler.of \in commands \cup {"report"}
  /\ handler.pc \in {"accept", "look", "pin", "thread", "spawn"} => handler.version \in Versions
  /\ handler.pc \in {"pin", "thread", "spawn"} => interaction[Handled] = Queued /\ Unused(Handled)
  /\ handler.pc \in {"thread", "spawn"} => pinned[Handled] # 0

(* Only a stored request is run or retried. *)
RunsArePinned ==
  /\ \A i \in Interactions : interaction[i].retry => pinned[i] # 0
  /\ \A t \in Interactions \X Attempts : task[t].pc # "none" => pinned[t[1]] # 0
  /\ \A k \in Retries : retrying[k].pc \in {"queue", "use"} => pinned[retrying[k].of] # 0

Core == TypeOK /\ StoreAgrees /\ ThreadAgrees /\ HandlerKnows /\ RunsArePinned

LEMMA CoreInit == Init => Core
<1> SUFFICES ASSUME Init PROVE Core
  OBVIOUS
<1>1. 1 \in Interactions /\ 1 \in Versions /\ DOMAIN messages = {}
  BY BoundAssumption DEF Init, Interactions, Versions
<1>2. TypeOK
  BY <1>1, BoundAssumption DEF Init, TypeOK, Absent, NoHandler, NoRetry, NoTask
<1>3. StoreAgrees /\ ThreadAgrees
  BY <1>1 DEF Init, StoreAgrees, ThreadAgrees, Absent, Interactions
<1>4. HandlerKnows
  BY <1>1 DEF Init, HandlerKnows, NoHandler
<1>5. RunsArePinned
  BY <1>1 DEF Init, RunsArePinned, Absent, NoTask, NoRetry
<1> QED
  BY <1>2, <1>3, <1>4, <1>5 DEF Core

-----------------------------------------------------------------------------
(* Updates of the records. *)

Results == [status : {"none", "QUEUED", "IN_PROGRESS", "VALIDATED", "FALLBACK"}, retry : BOOLEAN]

Tasks == [pc : {"none", "context", "progress", "run", "final", "summary", "failed", "fallen"},
          outcome : {"none", "answer", "fallback", "retryable"}]

Handlers == [pc : {"idle", "select", "accept", "spawn", "look", "pin", "thread"},
             of : Clients \cup {"report", "nobody"}, seen : 0..MaxVersions,
             version : 0..MaxVersions]

LEMMA TypeFacts ==
  TypeOK =>
    /\ package \in Versions /\ latest \in 0..MaxVersions /\ messages \in Seq(Message)
    /\ interaction \in [Interactions -> Results] /\ pinned \in [Interactions -> 0..MaxVersions]
    /\ commands \subseteq Clients /\ retryUsed \subseteq Interactions
    /\ handler \in Handlers /\ task \in [Interactions \X Attempts -> Tasks]
BY DEF TypeOK, Results, Tasks, Handlers

HandlerSteps == {"idle", "select", "accept", "spawn", "look", "pin", "thread"}

LEMMA NoHandlerType == NoHandler \in Handlers
BY BoundAssumption DEF NoHandler, Handlers

LEMMA HandlerMoves ==
  ASSUME NEW h \in Handlers, NEW p \in HandlerSteps
  PROVE  [h EXCEPT !.pc = p] \in Handlers
BY DEF Handlers, HandlerSteps

LEMMA HandlerSelects ==
  ASSUME NEW h \in Handlers, NEW p \in HandlerSteps, NEW v \in 0..MaxVersions
  PROVE  [h EXCEPT !.pc = p, !.version = v] \in Handlers
BY DEF Handlers, HandlerSteps

(* A task ends, or moves on. *)
LEMMA TaskEnds ==
  ASSUME task \in [Interactions \X Attempts -> Tasks], NEW t \in Interactions \X Attempts,
         NEW r \in Tasks
  PROVE  [task EXCEPT ![t] = r] \in [Interactions \X Attempts -> Tasks]
OBVIOUS

LEMMA TaskGoesOn ==
  ASSUME task \in [Interactions \X Attempts -> Tasks], NEW t \in Interactions \X Attempts,
         NEW p \in {"none", "context", "progress", "run", "final", "summary", "failed", "fallen"},
         task' = [task EXCEPT ![t].pc = p]
  PROVE  task' \in [Interactions \X Attempts -> Tasks]
<1> DEFINE moved == [task[t] EXCEPT !.pc = p]
<1>1. task[t] \in Tasks
  OBVIOUS
<1>2. moved \in Tasks
  BY <1>1 DEF Tasks
<1>3. task' = [task EXCEPT ![t] = moved]
  OBVIOUS
<1> HIDE DEF moved
<1> QED
  BY <1>2, <1>3, TaskEnds

LEMMA TaskMoves ==
  ASSUME task \in [Interactions \X Attempts -> Tasks], NEW t \in Interactions \X Attempts,
         NEW p \in {"none", "context", "progress", "run", "final", "summary", "failed", "fallen"}
  PROVE  /\ [task EXCEPT ![t].pc = p] \in [Interactions \X Attempts -> Tasks]
         /\ [task EXCEPT ![t].pc = p][t].pc = p
         /\ [task EXCEPT ![t].pc = p][t].outcome = task[t].outcome
<1> DEFINE moved == [task[t] EXCEPT !.pc = p]
<1>1. task[t] \in Tasks
  OBVIOUS
<1>2. /\ moved \in Tasks /\ moved.pc = p /\ moved.outcome = task[t].outcome
  BY <1>1 DEF Tasks
<1>3. [task EXCEPT ![t].pc = p] = [task EXCEPT ![t] = moved]
  OBVIOUS
<1> HIDE DEF moved
<1>4. [task EXCEPT ![t] = moved] \in [Interactions \X Attempts -> Tasks]
  BY <1>2, TaskEnds
<1>5. [task EXCEPT ![t] = moved][t] = moved
  OBVIOUS
<1> QED
  BY <1>2, <1>3, <1>4, <1>5

LEMMA ResultTypes ==
  /\ Absent \in Results /\ Absent.status = "none" /\ ~Absent.retry
  /\ Queued \in Results /\ Queued.status = "QUEUED" /\ ~Queued.retry /\ Queued # Absent
BY DEF Absent, Queued, Results

LEMMA VersionFacts ==
  /\ \A v \in Versions : v \in Interactions /\ v \in 0..MaxVersions /\ v # 0
  /\ \A v \in 0..MaxVersions : v # 0 => v \in Versions
  /\ \A c \in Clients : c \in Interactions /\ c \notin Versions /\ c \notin {"report", "nobody"}
  /\ \A i \in Interactions : i \in Clients \/ i \in Versions
BY ClientAssumption, BoundAssumption DEF Versions, Interactions

(* The steps of a task. *)
OfTask(t) == TaskStep(t) \/ TaskFails(t) \/ FallBackFails(t)

(* What every step does to the messages. *)
LEMMA MessageSteps ==
  ASSUME Core, [Next]_vars
  PROVE  \/ messages' = messages
         \/ /\ Accept /\ handler.of \in Clients /\ handler.version \in Versions
            /\ messages' = Append(Noticed(handler.seen, handler.version),
                                  Question(handler.of, handler.version))
         \/ \E t \in Interactions \X Attempts, kind \in {"answer", "fallback"} :
              /\ \/ /\ Answer(t) /\ task'[t].pc = "final"
                    /\ kind = KindOf(task'[t].outcome) /\ task'[t].outcome # "none"
                 \/ FallBack(t) /\ kind = "fallback"
              /\ t[1] \in Interactions /\ pinned[t[1]] \in Versions
              /\ messages' = Filled(t[1], kind, pinned[t[1]])
<1>1. TypeOK
  BY DEF Core
<1>2. CASE Accept
  <2>1. handler.of \in Clients /\ handler.version \in Versions
    BY <1>2 DEF Accept, Core, HandlerKnows
  <2>2. messages' = Append(Noticed(handler.seen, handler.version),
                           Question(handler.of, handler.version))
    BY <1>2 DEF Accept, Question
  <2> QED
    BY <1>2, <2>1, <2>2
<1>3. ASSUME NEW t \in Interactions \X Attempts, Answer(t)
      PROVE  \E kind \in {"answer", "fallback"} :
               /\ task'[t].pc = "final"
               /\ kind = KindOf(task'[t].outcome) /\ task'[t].outcome # "none"
               /\ t[1] \in Interactions /\ pinned[t[1]] \in Versions
               /\ messages' = Filled(t[1], kind, pinned[t[1]])
  <2>1. PICK outcome \in Outcomes(t) :
          /\ messages' = Filled(t[1], KindOf(outcome), pinned[t[1]])
          /\ task' = [task EXCEPT ![t] = [pc |-> "final", outcome |-> outcome]]
    BY <1>3 DEF Answer
  <2>2. task'[t] = [pc |-> "final", outcome |-> outcome]
    BY <1>1, <2>1, TypeFacts
  <2>3. KindOf(outcome) \in {"answer", "fallback"} /\ outcome # "none"
    BY <2>1 DEF KindOf, Outcomes
  <2>4. t[1] \in Interactions /\ pinned[t[1]] # 0
    BY <1>3 DEF Answer, Core, RunsArePinned
  <2>5. pinned[t[1]] \in Versions
    BY <1>1, <2>4, TypeFacts, VersionFacts
  <2> QED
    BY <2>1, <2>2, <2>3, <2>4, <2>5
<1>4. ASSUME NEW t \in Interactions \X Attempts, FallBack(t)
      PROVE  /\ t[1] \in Interactions /\ pinned[t[1]] \in Versions
             /\ messages' = Filled(t[1], "fallback", pinned[t[1]])
  <2>1. t[1] \in Interactions /\ pinned[t[1]] # 0
    BY <1>4 DEF FallBack, Core, RunsArePinned
  <2>2. pinned[t[1]] \in Versions
    BY <1>1, <2>1, TypeFacts, VersionFacts
  <2> QED
    BY <1>4, <2>1, <2>2 DEF FallBack
<1>5. CASE NewPackage \/ (\E c \in Clients : BeginQuestion(c)) \/ BeginReport \/ SelectPackage
           \/ Spawn \/ QueueReport \/ PinReport \/ ReportOnThread \/ HandlerFails
           \/ (\E k \in Retries, i \in Interactions : BeginRetry(k, i))
           \/ (\E k \in Retries : RetryStep(k)) \/ Crash \/ UNCHANGED vars
  BY <1>5 DEF NewPackage, BeginQuestion, BeginReport, SelectPackage, Spawn, QueueReport, PinReport,
              ReportOnThread, HandlerFails, BeginRetry, RetryStep, RetryQueues, RetrySpawns, Crash,
              vars, threadVars
<1>6. ASSUME NEW t \in Interactions \X Attempts,
             Context(t) \/ Progress(t) \/ WriteResult(t) \/ Summarise(t) \/ WriteFailure(t)
               \/ TaskFails(t) \/ FallBackFails(t)
      PROVE  messages' = messages
  BY <1>6 DEF Context, Progress, WriteResult, Summarise, WriteFailure, TaskFails, FallBackFails,
              threadVars
<1> QED
  BY <1>2, <1>3, <1>4, <1>5, <1>6 DEF Next, HandlerStep, TaskStep

-----------------------------------------------------------------------------
(* Every variable keeps its type. *)

LEMMA MessagesType == Core /\ [Next]_vars => messages' \in Seq(Message)
<1> SUFFICES ASSUME Core, [Next]_vars PROVE messages' \in Seq(Message)
  OBVIOUS
<1>1. messages \in Seq(Message) /\ handler.seen \in 0..MaxVersions
  BY TypeFacts DEF Core, Handlers
<1> QED
  BY <1>1, MessageSteps, AskedFacts, FilledFacts

LEMMA TypeOKStep == Core /\ [Next]_vars => TypeOK'
<1> SUFFICES ASSUME Core, [Next]_vars PROVE TypeOK'
  OBVIOUS
<1>1. TypeOK /\ HandlerKnows
  BY DEF Core
<1>2. /\ messages' \in Seq(Message)
      /\ package \in Versions /\ latest \in 0..MaxVersions
      /\ interaction \in [Interactions -> Results] /\ pinned \in [Interactions -> 0..MaxVersions]
      /\ commands \subseteq Clients /\ retryUsed \subseteq Interactions
      /\ handler \in Handlers /\ task \in [Interactions \X Attempts -> Tasks]
      /\ retrying \in [Retries -> [pc : {"idle", "queue", "use", "done"}, of : Interactions]]
  BY <1>1, MessagesType, TypeFacts DEF TypeOK
<1>3. \A r \in Results : \A i : [interaction EXCEPT ![i] = r] \in [Interactions -> Results]
  BY <1>2
<1> DEFINE Rest == /\ package' \in Versions /\ latest' \in 0..MaxVersions
                   /\ interaction' \in [Interactions -> Results]
                   /\ pinned' \in [Interactions -> 0..MaxVersions]
                   /\ commands' \subseteq Clients /\ retryUsed' \subseteq Interactions
                   /\ handler' \in Handlers /\ task' \in [Interactions \X Attempts -> Tasks]
                   /\ retrying' \in [Retries -> [pc : {"idle", "queue", "use", "done"},
                                                of : Interactions]]
                   /\ requests' \in 0..MaxRequests
                   /\ failures' \in 0..MaxFaults /\ crashes' \in 0..MaxFaults
                   /\ abandoned' \subseteq Interactions
<1>4. SUFFICES Rest
  BY <1>2 DEF TypeOK, Results, Tasks, Handlers
<1> USE BoundAssumption DEF threadVars, storeVars, bounds
<1>5. CASE NewPackage
  BY <1>1, <1>2, <1>5 DEF NewPackage, TypeOK, Versions
<1>6. CASE (\E c \in Clients : BeginQuestion(c)) \/ BeginReport
  <2>1. handler' \in Handlers
    <3>1. NoHandler \in Handlers
      BY NoHandlerType
    <3>2. \A c \in Clients :
            [NoHandler EXCEPT !.pc = "select", !.of = c, !.seen = latest] \in Handlers
      BY <1>2, <3>1 DEF Handlers
    <3>3. [NoHandler EXCEPT !.pc = "select", !.of = "report"] \in Handlers
      BY <1>2, <3>1 DEF Handlers
    <3> QED
      BY <1>6, <3>1, <3>2, <3>3 DEF BeginQuestion, BeginReport
  <2>2. requests' \in 0..MaxRequests
    <3>1. requests < MaxRequests /\ requests' = requests + 1
      BY <1>6 DEF BeginQuestion, BeginReport
    <3>2. requests \in 0..MaxRequests
      BY <1>1 DEF TypeOK
    <3> QED
      BY <3>1, <3>2
  <2> QED
    BY <1>1, <1>2, <1>6, <2>1, <2>2 DEF BeginQuestion, BeginReport, TypeOK
<1>7. CASE SelectPackage
  <2>1. package \in 0..MaxVersions
    BY <1>2, VersionFacts
  <2>2. handler' \in Handlers
    BY <1>2, <1>7, <2>1, HandlerSelects DEF SelectPackage, HandlerSteps
  <2> QED
    BY <1>1, <1>2, <1>7, <2>2 DEF SelectPackage, TypeOK
<1>8. CASE Accept
  <2>1. handler.of \in Clients /\ handler.version \in Versions
    BY <1>1, <1>8 DEF Accept, HandlerKnows
  <2>2. handler' \in Handlers
    BY <1>2, <1>8, HandlerMoves DEF Accept, HandlerSteps
  <2>3. interaction' \in [Interactions -> Results]
    BY <1>3, <1>8, ResultTypes DEF Accept
  <2>4. /\ latest' \in 0..MaxVersions /\ commands' \subseteq Clients
        /\ pinned' \in [Interactions -> 0..MaxVersions]
    BY <1>2, <1>8, <2>1, VersionFacts DEF Accept
  <2> QED
    BY <1>1, <1>2, <1>8, <2>2, <2>3, <2>4 DEF Accept, TypeOK
<1>9. CASE Spawn \/ QueueReport \/ PinReport \/ ReportOnThread
  <2>1. handler.version \in Versions /\ handler.version \in 0..MaxVersions
    BY <1>1, <1>9, VersionFacts DEF Spawn, QueueReport, PinReport, ReportOnThread, HandlerKnows
  <2>2. handler' \in Handlers
    <3>1. \/ handler' = NoHandler
          \/ handler' = [handler EXCEPT !.pc = "pin"]
          \/ handler' = [handler EXCEPT !.pc = "thread"]
          \/ handler' = [handler EXCEPT !.pc = "spawn"]
      BY <1>9 DEF Spawn, QueueReport, PinReport, ReportOnThread
    <3>2. handler \in Handlers
      BY <1>2
    <3> QED
      BY <3>1, <3>2, HandlerMoves, NoHandlerType DEF HandlerSteps
  <2>3. interaction' \in [Interactions -> Results]
    <3>1. \/ interaction' = interaction
          \/ interaction' = [interaction EXCEPT ![handler.version] = Queued]
      BY <1>9 DEF Spawn, QueueReport, PinReport, ReportOnThread
    <3>2. interaction \in [Interactions -> Results] /\ Queued \in Results
      BY <1>2, ResultTypes
    <3> QED
      BY <3>1, <3>2
  <2>4. task' \in [Interactions \X Attempts -> Tasks]
    <3>1. Spawn => <<Handled, 0>> \in Interactions \X Attempts
      <4>1. 0 \in Attempts
        BY DEF Attempts
      <4>2. Spawn => handler.of \in commands \cup {"report"}
        BY <1>1 DEF Spawn, HandlerKnows
      <4>3. commands \subseteq Interactions /\ handler.version \in Interactions
        BY <1>2, <2>1, VersionFacts DEF Interactions
      <4> QED
        BY <4>1, <4>2, <4>3 DEF Handled
    <3>2. Spawn => task' = [task EXCEPT ![<<Handled, 0>>].pc = "context"]
      BY DEF Spawn, Handled
    <3>3. task \in [Interactions \X Attempts -> Tasks]
      BY <1>2
    <3>4. CASE Spawn
      <4> DEFINE key == <<Handled, 0>>
      <4>1. key \in Interactions \X Attempts /\ task' = [task EXCEPT ![key].pc = "context"]
        BY <3>1, <3>2, <3>4
      <4> HIDE DEF key
      <4> QED
        BY <3>3, <4>1, TaskGoesOn
    <3>5. CASE ~Spawn
      BY <1>9, <3>3, <3>5 DEF QueueReport, PinReport, ReportOnThread
    <3> QED
      BY <3>4, <3>5
  <2>5. /\ latest' \in 0..MaxVersions /\ pinned' \in [Interactions -> 0..MaxVersions]
    BY <1>2, <1>9, <2>1 DEF Spawn, QueueReport, PinReport, ReportOnThread
  <2> QED
    BY <1>1, <1>2, <1>9, <2>2, <2>3, <2>4, <2>5
       DEF Spawn, QueueReport, PinReport, ReportOnThread, TypeOK
<1>10. CASE HandlerFails
  <2>1. handler' \in Handlers
    BY <1>10, NoHandlerType DEF HandlerFails
  <2>2. failures + crashes < MaxFaults /\ failures' = failures + 1
    BY <1>10 DEF HandlerFails
  <2>3. failures \in Nat /\ crashes \in Nat
    BY <1>1 DEF TypeOK
  <2>4. failures' \in 0..MaxFaults
    BY <2>2, <2>3
  <2> QED
    BY <1>1, <1>2, <1>10, <2>1, <2>4 DEF HandlerFails, TypeOK
<1>11. ASSUME NEW k \in Retries, NEW i \in Interactions, BeginRetry(k, i) PROVE Rest
  BY <1>1, <1>2, <1>11 DEF BeginRetry, TypeOK
<1>12. ASSUME NEW k \in Retries, RetryQueues(k) PROVE Rest
  BY <1>1, <1>2, <1>3, <1>12, ResultTypes, SMTT(30) DEF RetryQueues, TypeOK
<1>13. ASSUME NEW k \in Retries, RetrySpawns(k) PROVE Rest
  <2>1. retrying[k].of \in Interactions /\ k \in Attempts
    BY <1>2 DEF Attempts, Retries
  <2>2. task' \in [Interactions \X Attempts -> Tasks]
    <3> DEFINE key == <<retrying[k].of, k>>
    <3>1. key \in Interactions \X Attempts /\ task' = [task EXCEPT ![key].pc = "context"]
      BY <1>13, <2>1 DEF RetrySpawns
    <3> HIDE DEF key
    <3> QED
      BY <1>2, <3>1, TaskGoesOn
  <2>3. retrying' \in [Retries -> [pc : {"idle", "queue", "use", "done"}, of : Interactions]]
    BY <1>2, <1>13 DEF RetrySpawns
  <2>4. retryUsed' \subseteq Interactions
    BY <1>2, <1>13, <2>1 DEF RetrySpawns
  <2> QED
    BY <1>1, <1>2, <1>13, <2>2, <2>3, <2>4 DEF RetrySpawns, TypeOK
<1>14. ASSUME NEW t \in Interactions \X Attempts, OfTask(t) PROVE Rest
  <2>1. task' \in [Interactions \X Attempts -> Tasks]
    <3>1. Answer(t) => \E r \in Tasks : task' = [task EXCEPT ![t] = r]
      BY DEF Answer, Outcomes, Tasks
    <3>2. /\ NoTask \in Tasks
          /\ [pc |-> "summary", outcome |-> "none"] \in Tasks
          /\ [pc |-> "failed", outcome |-> "none"] \in Tasks
      BY DEF NoTask, Tasks
    <3>3. WriteResult(t) \/ Summarise(t) \/ WriteFailure(t) \/ TaskFails(t) \/ FallBackFails(t) =>
            \E r \in Tasks : task' = [task EXCEPT ![t] = r]
      BY <3>2 DEF WriteResult, Summarise, WriteFailure, TaskFails, FallBackFails
    <3>4. task \in [Interactions \X Attempts -> Tasks]
      BY <1>2
    <3>5. CASE Context(t) \/ Progress(t) \/ FallBack(t)
      <4>1. \/ task' = [task EXCEPT ![t].pc = "progress"]
            \/ task' = [task EXCEPT ![t].pc = "run"]
            \/ task' = [task EXCEPT ![t].pc = "fallen"]
        BY <3>5 DEF Context, Progress, FallBack
      <4> QED
        BY <3>4, <4>1, TaskGoesOn
    <3>6. CASE \E r \in Tasks : task' = [task EXCEPT ![t] = r]
      <4>1. PICK r \in Tasks : task' = [task EXCEPT ![t] = r]
        BY <3>6
      <4> QED
        BY <3>4, <4>1, TaskEnds
    <3> QED
      BY <1>14, <3>1, <3>3, <3>5, <3>6 DEF OfTask, TaskStep
  <2>2. interaction' \in [Interactions -> Results]
    <3>1. /\ [status |-> "IN_PROGRESS", retry |-> FALSE] \in Results
          /\ [status |-> "FALLBACK", retry |-> TRUE] \in Results
          /\ \A o : [status |-> IF o = "answer" THEN "VALIDATED" ELSE "FALLBACK",
                     retry |-> o = "retryable"] \in Results
      BY DEF Results
    <3>2. \E r \in Results : interaction' \in {interaction, [interaction EXCEPT ![t[1]] = r]}
      <4>1. CASE Context(t) \/ Answer(t) \/ Summarise(t) \/ FallBack(t) \/ TaskFails(t)
                   \/ FallBackFails(t)
        BY <1>2, <3>1, <4>1 DEF Context, Answer, Summarise, FallBack, TaskFails, FallBackFails,
                                storeVars
      <4>2. CASE Progress(t) \/ WriteFailure(t)
        BY <3>1, <4>2 DEF Progress, WriteFailure
      <4>3. CASE WriteResult(t)
        BY <3>1, <4>3 DEF WriteResult
      <4> QED
        BY <1>14, <4>1, <4>2, <4>3 DEF OfTask, TaskStep
    <3>3. PICK r \in Results : interaction' \in {interaction, [interaction EXCEPT ![t[1]] = r]}
      BY <3>2
    <3>4. [interaction EXCEPT ![t[1]] = r] \in [Interactions -> Results]
      BY <1>2, <3>3
    <3> QED
      BY <1>2, <3>3, <3>4
  <2>3. latest' \in 0..MaxVersions
    BY <1>2, <1>14 DEF OfTask, TaskStep, Context, Progress, Answer, WriteResult, WriteFailure,
                       TaskFails, Summarise, FallBack, FallBackFails
  <2>4. /\ requests' \in 0..MaxRequests /\ failures' \in 0..MaxFaults /\ crashes' \in 0..MaxFaults
        /\ abandoned' \subseteq Interactions
    <3>1. \/ UNCHANGED bounds
          \/ /\ failures + crashes < MaxFaults /\ failures' = failures + 1
             /\ UNCHANGED <<requests, crashes>>
             /\ abandoned' \in {abandoned, abandoned \cup {t[1]}}
      BY <1>14 DEF OfTask, TaskStep, Context, Progress, Answer, WriteResult, WriteFailure,
                   TaskFails, Summarise, FallBack, FallBackFails
    <3>2. /\ requests \in 0..MaxRequests /\ failures \in 0..MaxFaults /\ crashes \in 0..MaxFaults
          /\ abandoned \subseteq Interactions
      BY <1>1 DEF TypeOK
    <3> QED
      BY <3>1, <3>2
  <2>5. UNCHANGED <<package, pinned, commands, retryUsed, handler, retrying>>
    BY <1>14 DEF OfTask, TaskStep, Context, Progress, Answer, WriteResult, WriteFailure,
                 TaskFails, Summarise, FallBack, FallBackFails
  <2> QED
    BY <1>2, <2>1, <2>2, <2>3, <2>4, <2>5
<1>15. CASE Crash
  <2>1. NoTask \in Tasks
    BY DEF NoTask, Tasks
  <2>2. 1 \in Interactions
    BY DEF Interactions, Versions
  <2>3. task' \in [Interactions \X Attempts -> Tasks]
    BY <1>15, <2>1 DEF Crash
  <2>4. retrying' \in [Retries -> [pc : {"idle", "queue", "use", "done"}, of : Interactions]]
    BY <1>2, <1>15, <2>2 DEF Crash, NoRetry
  <2>5. handler' \in Handlers
    BY <1>15, NoHandlerType DEF Crash
  <2> QED
    BY <1>1, <1>2, <1>15, <2>3, <2>4, <2>5, SMTT(30) DEF Crash, TypeOK
<1>16. CASE UNCHANGED vars
  BY <1>1, <1>2, <1>16 DEF vars, TypeOK
<1> QED
  BY <1>5, <1>6, <1>7, <1>8, <1>9, <1>10, <1>11, <1>12, <1>13, <1>14, <1>15, <1>16
     DEF Next, HandlerStep, RetryStep, OfTask

(* The request Accept stores is a new one: no message is about it.         *)
LEMMA AcceptedFacts ==
  ASSUME Core, Accept
  PROVE  /\ handler.of \in Clients /\ handler.of \notin commands /\ handler.of \in Interactions
         /\ handler.version \in Versions /\ handler.seen \in 0..MaxVersions
         /\ messages' = Append(Noticed(handler.seen, handler.version),
                               Question(handler.of, handler.version))
         /\ commands' = commands \cup {handler.of}
         /\ pinned[handler.of] = 0 /\ pinned'[handler.of] = handler.version
         /\ \A n \in DOMAIN messages : messages[n].kind # "notice" => messages[n].of # handler.of
<1>1. /\ handler.of \in Clients /\ handler.of \notin commands /\ handler.of \in Interactions
      /\ handler.version \in Versions /\ handler.seen \in 0..MaxVersions
  BY VersionFacts, TypeFacts DEF Accept, Core, HandlerKnows, Handlers
<1>2. pinned[handler.of] = 0 /\ pinned'[handler.of] = handler.version
  BY <1>1, TypeFacts DEF Accept, Core, StoreAgrees
<1>3. ASSUME NEW n \in DOMAIN messages, messages[n].kind # "notice", messages[n].of = handler.of
      PROVE  FALSE
  <2>1. messages[n].package = 0
    BY <1>2, <1>3 DEF Core, ThreadAgrees
  <2>2. messages[n] \in Message
    BY TypeFacts DEF Core
  <2> QED
    BY <2>1, <2>2, MessageTypes, VersionFacts
<1> QED
  BY <1>1, <1>2, <1>3 DEF Accept, Question

(* What the step of a running task leaves alone. *)
LEMMA TaskStepFacts ==
  ASSUME Core, NEW t \in Interactions \X Attempts, OfTask(t)
  PROVE  /\ task[t].pc # "none" /\ t = <<t[1], t[2]>>
         /\ t[1] \in Interactions /\ t[2] \in Attempts
         /\ pinned[t[1]] # 0 /\ interaction[t[1]] # Absent
         /\ interaction'[t[1]] # Absent
         /\ \A i \in Interactions \ {t[1]} : interaction'[i] = interaction[i]
         /\ \A x \in (Interactions \X Attempts) \ {t} : task'[x] = task[x]
         /\ UNCHANGED <<package, pinned, commands, retryUsed, handler, retrying>>
<1>1. t = <<t[1], t[2]>> /\ t[1] \in Interactions /\ t[2] \in Attempts
  OBVIOUS
<1>2. task[t].pc # "none"
  BY DEF OfTask, TaskStep, Context, Progress, Answer, WriteResult, WriteFailure, TaskFails,
         Summarise, FallBack, FallBackFails, Working
<1>3. pinned[t[1]] # 0
  BY <1>2 DEF Core, RunsArePinned
<1>4. interaction[t[1]] # Absent
  BY <1>1, <1>3, VersionFacts DEF Core, StoreAgrees
<1>5. interaction \in [Interactions -> Results] /\ task \in [Interactions \X Attempts -> Tasks]
  BY TypeFacts DEF Core
<1>6. /\ \A i \in Interactions \ {t[1]} : interaction'[i] = interaction[i]
      /\ interaction'[t[1]] # Absent
  BY <1>1, <1>4, <1>5
     DEF OfTask, TaskStep, Context, Progress, Answer, WriteResult, WriteFailure, TaskFails,
         Summarise, FallBack, FallBackFails, Absent,
         threadVars, storeVars
<1>7. \A x \in (Interactions \X Attempts) \ {t} : task'[x] = task[x]
  BY <1>5 DEF OfTask, TaskStep, Context, Progress, Answer, WriteResult, WriteFailure, TaskFails,
         Summarise, FallBack, FallBackFails
<1>8. UNCHANGED <<package, pinned, commands, retryUsed, handler, retrying>>
  BY DEF OfTask, TaskStep, Context, Progress, Answer, WriteResult, WriteFailure, TaskFails,
         Summarise, FallBack, FallBackFails, threadVars,
         storeVars
<1> QED
  BY <1>1, <1>2, <1>3, <1>4, <1>6, <1>7, <1>8

(* A running task is not the business of the holder of the lock.           *)
LEMMA TaskLeavesHandler ==
  ASSUME Core, NEW t \in Interactions \X Attempts, OfTask(t)
  PROVE  HandlerKnows'
<1>1. /\ task[t].pc # "none" /\ t = <<t[1], t[2]>>
      /\ \A i \in Interactions \ {t[1]} : interaction'[i] = interaction[i]
      /\ \A x \in (Interactions \X Attempts) \ {t} : task'[x] = task[x]
      /\ UNCHANGED <<pinned, commands, handler, retrying>>
      /\ t[2] \in Attempts
  BY TaskStepFacts
<1>2. HandlerKnows
  BY DEF Core
<1>3. Handled' = Handled
  BY <1>1 DEF Handled
<1>4. ASSUME handler.pc \in {"pin", "thread", "spawn"}
      PROVE  interaction'[Handled] = Queued /\ Unused(Handled)'
  <2>1. interaction[Handled] = Queued /\ Unused(Handled)
    BY <1>2, <1>4 DEF HandlerKnows
  <2>2. Handled \in Interactions
    BY <1>2, <1>4, VersionFacts DEF HandlerKnows, Handled, Core, TypeOK
  <2>3. t[1] # Handled
    BY <1>1, <2>1 DEF Unused
  <2>4. ASSUME NEW a \in Attempts PROVE task'[<<Handled, a>>].pc = "none"
    <3> DEFINE x == <<Handled, a>>
    <3>1. x # t /\ x \in Interactions \X Attempts
      BY <2>2, <2>3
    <3>2. task[x].pc = "none"
      BY <2>1 DEF Unused
    <3> HIDE DEF x
    <3>3. task'[x].pc = "none"
      BY <1>1, <3>1, <3>2
    <3> QED
      BY <3>3 DEF x
  <2>5. \A k \in Retries : retrying'[k].pc \in {"queue", "use"} => retrying'[k].of # Handled
    BY <1>1, <2>1 DEF Unused
  <2> QED
    BY <1>1, <1>3, <2>1, <2>2, <2>3, <2>4, <2>5 DEF Unused
<1> QED
  BY <1>1, <1>2, <1>3, <1>4 DEF HandlerKnows

LEMMA HandlerKnowsStep == Core /\ [Next]_vars => HandlerKnows'
<1> SUFFICES ASSUME Core, [Next]_vars PROVE HandlerKnows'
  OBVIOUS
<1> USE ClientAssumption, BoundAssumption DEF threadVars, storeVars, bounds, Core,
       TypeOK, HandlerKnows, StoreAgrees, RunsArePinned, Unused, Handled, Absent,
       Queued, NoHandler, NoTask, NoRetry, Interactions, Versions, Attempts
<1>1. CASE NewPackage
  BY <1>1 DEF NewPackage
<1>2. ASSUME NEW c \in Clients,
             BeginQuestion(c)
      PROVE  HandlerKnows'
  BY <1>2 DEF BeginQuestion
<1>3. CASE BeginReport
  BY <1>3 DEF BeginReport
<1>4. CASE SelectPackage
  BY <1>4 DEF SelectPackage
<1>5. CASE Accept
  <2> DEFINE c == handler.of
  <2>1. /\ c \in Clients /\ c \in Interactions /\ handler.version \in 1..MaxVersions
        /\ pinned[c] = 0 /\ pinned'[c] = handler.version /\ commands' = commands \cup {c}
    BY <1>5, AcceptedFacts
  <2>2. /\ handler'.pc = "spawn" /\ handler'.of = c /\ handler'.version = handler.version
        /\ interaction'[c] = Queued /\ task' = task /\ retrying' = retrying
    BY <1>5, <2>1 DEF Accept
  <2>3. \A a \in Attempts : task[<<c, a>>].pc = "none"
    BY <2>1
  <2>4. \A k \in Retries : retrying[k].pc \in {"queue", "use"} => retrying[k].of # c
    BY <2>1
  <2> HIDE DEF c
  <2> QED
    BY <2>1, <2>2, <2>3, <2>4
<1>6. CASE Spawn
  BY <1>6 DEF Spawn
<1>7. CASE QueueReport
  <2>1. CASE interaction[handler.version] # Absent
    BY <1>7, <2>1, SMTT(30) DEF QueueReport
  <2>2. CASE interaction[handler.version] = Absent
    <3> DEFINE v == handler.version
    <3>1. v \in Versions /\ handler.of = "report" /\ pinned[v] = 0
      BY <1>7, <2>2 DEF QueueReport
    <3>2. /\ interaction' = [interaction EXCEPT ![v] = Queued] /\ v \in Interactions
          /\ handler'.pc = "pin" /\ handler'.of = "report" /\ handler'.version = v
      BY <1>7, <2>2, <3>1 DEF QueueReport
    <3>3. \A a \in Attempts : task[<<v, a>>].pc = "none"
      BY <3>1, <3>2
    <3>4. \A k \in Retries : retrying[k].pc \in {"queue", "use"} => retrying[k].of # v
      BY <3>1, <3>2
    <3>5. task' = task /\ retrying' = retrying
      BY <1>7 DEF QueueReport
    <3> HIDE DEF v
    <3> QED
      BY <3>1, <3>2, <3>3, <3>4, <3>5
  <2> QED
    BY <2>1, <2>2
<1>8. CASE PinReport
  BY <1>8, SMTT(30) DEF PinReport
<1>9. CASE ReportOnThread
  BY <1>9 DEF ReportOnThread
<1>10. CASE HandlerFails
  BY <1>10 DEF HandlerFails
<1>11. ASSUME NEW k \in Retries, NEW i \in Interactions,
             BeginRetry(k, i)
      PROVE  HandlerKnows'
  BY <1>11 DEF BeginRetry
<1>12. ASSUME NEW k \in Retries,
             RetryQueues(k)
      PROVE  HandlerKnows'
  BY <1>12 DEF RetryQueues
<1>13. ASSUME NEW k \in Retries,
             RetrySpawns(k)
      PROVE  HandlerKnows'
  BY <1>13, SMTT(30) DEF RetrySpawns
<1>14. ASSUME NEW t \in Interactions \X Attempts,
             OfTask(t)
      PROVE  HandlerKnows'
  BY <1>14, TaskLeavesHandler
<1>15. CASE Crash
  BY <1>15 DEF Crash
<1>16. CASE UNCHANGED vars
  BY <1>16 DEF vars
<1> QED
  BY <1>1, <1>2, <1>3, <1>4, <1>5, <1>6, <1>7, <1>8, <1>9, <1>10, <1>11, <1>12, <1>13,
     <1>14, <1>15, <1>16
     DEF Next, HandlerStep, RetryStep, OfTask

(* A running task leaves the requests it does not run alone.               *)
LEMMA TaskStaysPinned ==
  ASSUME Core, NEW t \in Interactions \X Attempts, OfTask(t)
  PROVE  RunsArePinned'
<1>1. /\ pinned[t[1]] # 0
      /\ \A i \in Interactions \ {t[1]} : interaction'[i] = interaction[i]
      /\ \A x \in (Interactions \X Attempts) \ {t} : task'[x] = task[x]
      /\ UNCHANGED <<pinned, retrying>>
  BY TaskStepFacts
<1>2. RunsArePinned
  BY DEF Core
<1> QED
  BY <1>1, <1>2 DEF RunsArePinned

LEMMA QueueAllowsNoRetry ==
  ASSUME TypeOK, QueueReport
  PROVE  \A i \in Interactions : interaction'[i].retry => interaction[i].retry
<1>1. interaction \in [Interactions -> Results]
  BY TypeFacts
<1>2. \/ interaction' = interaction
      \/ interaction' = [interaction EXCEPT ![handler.version] = Queued]
  BY DEF QueueReport
<1> QED
  BY <1>1, <1>2, ResultTypes

LEMMA RunsArePinnedStep == Core /\ [Next]_vars => RunsArePinned'
<1> SUFFICES ASSUME Core, [Next]_vars PROVE RunsArePinned'
  OBVIOUS
<1> USE ClientAssumption, BoundAssumption DEF threadVars, storeVars, bounds, Core,
       TypeOK, HandlerKnows, StoreAgrees, RunsArePinned, Handled, Absent, Queued,
       NoHandler, NoTask, NoRetry, Interactions, Versions, Attempts
<1>1. CASE NewPackage
  BY <1>1 DEF NewPackage
<1>2. ASSUME NEW c \in Clients,
             BeginQuestion(c)
      PROVE  RunsArePinned'
  BY <1>2 DEF BeginQuestion
<1>3. CASE BeginReport
  BY <1>3 DEF BeginReport
<1>4. CASE SelectPackage
  BY <1>4 DEF SelectPackage
<1>5. CASE Accept
  BY <1>5 DEF Accept
<1>6. CASE Spawn
  BY <1>6, SMTT(30) DEF Spawn
<1>7. CASE QueueReport
  <2>1. UNCHANGED <<pinned, task, retrying>>
    BY <1>7 DEF QueueReport
  <2>2. \A i \in Interactions : interaction'[i].retry => interaction[i].retry
    BY <1>7, QueueAllowsNoRetry
  <2> QED
    BY <2>1, <2>2
<1>8. CASE PinReport
  BY <1>8, SMTT(30) DEF PinReport
<1>9. CASE ReportOnThread
  BY <1>9 DEF ReportOnThread
<1>10. CASE HandlerFails
  BY <1>10 DEF HandlerFails
<1>11. ASSUME NEW k \in Retries, NEW i \in Interactions,
             BeginRetry(k, i)
      PROVE  RunsArePinned'
  BY <1>11 DEF BeginRetry
<1>12. ASSUME NEW k \in Retries,
             RetryQueues(k)
      PROVE  RunsArePinned'
  BY <1>12, SMTT(30) DEF RetryQueues
<1>13. ASSUME NEW k \in Retries,
             RetrySpawns(k)
      PROVE  RunsArePinned'
  BY <1>13, SMTT(30) DEF RetrySpawns
<1>14. ASSUME NEW t \in Interactions \X Attempts,
             OfTask(t)
      PROVE  RunsArePinned'
  BY <1>14, TaskStaysPinned
<1>15. CASE Crash
  BY <1>15 DEF Crash
<1>16. CASE UNCHANGED vars
  BY <1>16 DEF vars
<1> QED
  BY <1>1, <1>2, <1>3, <1>4, <1>5, <1>6, <1>7, <1>8, <1>9, <1>10, <1>11, <1>12, <1>13,
     <1>14, <1>15, <1>16
     DEF Next, HandlerStep, RetryStep, OfTask

LEMMA TaskLeavesStore ==
  ASSUME Core, NEW t \in Interactions \X Attempts, OfTask(t)
  PROVE  StoreAgrees'
<1>1. /\ pinned[t[1]] # 0 /\ interaction[t[1]] # Absent /\ interaction'[t[1]] # Absent
      /\ \A i \in Interactions \ {t[1]} : interaction'[i] = interaction[i]
      /\ UNCHANGED <<pinned, commands>>
  BY TaskStepFacts
<1>2. StoreAgrees
  BY DEF Core
<1> QED
  BY <1>1, <1>2, VersionFacts DEF StoreAgrees

LEMMA QueueLeavesStore == Core /\ QueueReport => StoreAgrees'
<1> SUFFICES ASSUME Core, QueueReport PROVE StoreAgrees'
  OBVIOUS
<1> DEFINE v == handler.version
<1>1. v \in Versions /\ v \notin Clients /\ pinned' = pinned /\ commands' = commands
  BY VersionFacts DEF QueueReport, Core, HandlerKnows
<1>2. /\ \A i \in Interactions : i # v => interaction'[i] = interaction[i]
      /\ interaction'[v] = interaction[v] \/ interaction'[v] = Queued
  BY <1>1, TypeFacts, VersionFacts DEF Core, QueueReport
<1>3. StoreAgrees
  BY DEF Core
<1> HIDE DEF v
<1>4. ASSUME NEW c \in Clients
      PROVE  /\ pinned'[c] # 0 <=> c \in commands'
             /\ interaction'[c] # Absent <=> c \in commands'
  BY <1>1, <1>2, <1>3, VersionFacts DEF StoreAgrees
<1>5. ASSUME NEW w \in Versions
      PROVE  pinned'[w] \in {0, w} /\ (pinned'[w] # 0 => interaction'[w] # Absent)
  BY <1>1, <1>2, <1>3, VersionFacts, ResultTypes DEF StoreAgrees
<1> QED
  BY <1>4, <1>5 DEF StoreAgrees

LEMMA AcceptStoresWhole == Core /\ Accept => StoreAgrees'
<1> SUFFICES ASSUME Core, Accept PROVE StoreAgrees'
  OBVIOUS
<1> DEFINE d == handler.of
<1>1. /\ d \in Clients /\ d \in Interactions /\ pinned'[d] \in Versions
      /\ commands' = commands \cup {d}
  BY AcceptedFacts
<1>2. /\ \A i \in Interactions : i # d => interaction'[i] = interaction[i] /\ pinned'[i] = pinned[i]
      /\ interaction'[d] = Queued
  BY <1>1, TypeFacts DEF Core, Accept
<1>3. StoreAgrees
  BY DEF Core
<1> HIDE DEF d
<1>4. ASSUME NEW c \in Clients
      PROVE  /\ pinned'[c] # 0 <=> c \in commands'
             /\ interaction'[c] # Absent <=> c \in commands'
  <2>1. CASE c = d
    BY <1>1, <1>2, <2>1, ResultTypes, VersionFacts
  <2>2. CASE c # d
    BY <1>1, <1>2, <1>3, <2>2, VersionFacts DEF StoreAgrees
  <2> QED
    BY <2>1, <2>2
<1>5. ASSUME NEW w \in Versions
      PROVE  pinned'[w] \in {0, w} /\ (pinned'[w] # 0 => interaction'[w] # Absent)
  BY <1>1, <1>2, <1>3, VersionFacts DEF StoreAgrees
<1> QED
  BY <1>4, <1>5 DEF StoreAgrees

LEMMA StoreAgreesStep == Core /\ [Next]_vars => StoreAgrees'
<1> SUFFICES ASSUME Core, [Next]_vars PROVE StoreAgrees'
  OBVIOUS
<1> USE ClientAssumption, BoundAssumption DEF threadVars, storeVars, bounds, Core,
       TypeOK, HandlerKnows, StoreAgrees, RunsArePinned, Handled, Absent, Queued,
       NoHandler, Interactions, Versions
<1>1. CASE NewPackage
  BY <1>1 DEF NewPackage
<1>2. ASSUME NEW c \in Clients,
             BeginQuestion(c)
      PROVE  StoreAgrees'
  BY <1>2 DEF BeginQuestion
<1>3. CASE BeginReport
  BY <1>3 DEF BeginReport
<1>4. CASE SelectPackage
  BY <1>4 DEF SelectPackage
<1>5. CASE Accept
  BY <1>5, AcceptStoresWhole
<1>6. CASE Spawn
  BY <1>6 DEF Spawn
<1>7. CASE QueueReport
  BY <1>7, QueueLeavesStore
<1>8. CASE PinReport
  BY <1>8, SMTT(30) DEF PinReport
<1>9. CASE ReportOnThread
  BY <1>9 DEF ReportOnThread
<1>10. CASE HandlerFails
  BY <1>10 DEF HandlerFails
<1>11. ASSUME NEW k \in Retries, NEW i \in Interactions,
             BeginRetry(k, i)
      PROVE  StoreAgrees'
  BY <1>11 DEF BeginRetry
<1>12. ASSUME NEW k \in Retries,
             RetryQueues(k)
      PROVE  StoreAgrees'
  BY <1>12 DEF RetryQueues
<1>13. ASSUME NEW k \in Retries,
             RetrySpawns(k)
      PROVE  StoreAgrees'
  BY <1>13 DEF RetrySpawns
<1>14. ASSUME NEW t \in Interactions \X Attempts,
             OfTask(t)
      PROVE  StoreAgrees'
  BY <1>14, TaskLeavesStore
<1>15. CASE Crash
  BY <1>15 DEF Crash
<1>16. CASE UNCHANGED vars
  BY <1>16 DEF vars
<1> QED
  BY <1>1, <1>2, <1>3, <1>4, <1>5, <1>6, <1>7, <1>8, <1>9, <1>10, <1>11, <1>12, <1>13,
     <1>14, <1>15, <1>16
     DEF Next, HandlerStep, RetryStep, OfTask

(* A request keeps its package; only Accept stores one of a client.        *)
LEMMA PinsStay ==
  ASSUME Core, [Next]_vars
  PROVE  /\ \A i \in Interactions : pinned[i] # 0 => pinned'[i] = pinned[i]
         /\ ~Accept => commands' = commands
<1> DEFINE Stay == /\ \A i \in Interactions : pinned[i] # 0 => pinned'[i] = pinned[i]
                   /\ ~Accept => commands' = commands
<1>1. TypeOK /\ StoreAgrees /\ HandlerKnows /\ pinned \in [Interactions -> 0..MaxVersions]
  BY TypeFacts DEF Core
<1>2. CASE Accept
  BY <1>1, <1>2 DEF Accept, HandlerKnows, StoreAgrees
<1>3. CASE PinReport
  <2>1. handler.version \in Versions /\ pinned[handler.version] \in {0, handler.version}
    BY <1>1, <1>3 DEF PinReport, HandlerKnows, StoreAgrees
  <2> QED
    BY <1>1, <1>3, <2>1 DEF PinReport
<1>4. ASSUME NEW t \in Interactions \X Attempts, OfTask(t)
      PROVE  Stay
  BY <1>4, TaskStepFacts
<1>5. CASE \/ NewPackage \/ (\E c \in Clients : BeginQuestion(c)) \/ BeginReport
           \/ SelectPackage \/ Spawn \/ QueueReport \/ ReportOnThread \/ HandlerFails
           \/ (\E k \in Retries, i \in Interactions : BeginRetry(k, i))
           \/ (\E k \in Retries : RetryStep(k)) \/ Crash \/ UNCHANGED vars
  BY <1>5 DEF NewPackage, BeginQuestion, BeginReport, SelectPackage, Spawn, QueueReport,
     ReportOnThread, HandlerFails, BeginRetry, RetryStep, RetryQueues, RetrySpawns, Crash,
     vars, storeVars
<1> QED
  BY <1>2, <1>3, <1>4, <1>5 DEF Next, HandlerStep, OfTask

LEMMA ThreadAgreesStep == Core /\ [Next]_vars => ThreadAgrees'
<1> SUFFICES ASSUME Core, [Next]_vars PROVE ThreadAgrees'
  OBVIOUS
<1>1. /\ \A i \in Interactions : pinned[i] # 0 => pinned'[i] = pinned[i]
      /\ ~Accept => commands' = commands
  BY PinsStay
<1>2. ThreadAgrees /\ messages \in Seq(Message)
  BY TypeFacts DEF Core
<1>3. ASSUME NEW n \in DOMAIN messages, messages[n].kind # "notice"
      PROVE  /\ messages[n].package = pinned'[messages[n].of]
             /\ messages[n].kind = "question" => messages[n].of \in commands
  <2>1. messages[n].package = pinned[messages[n].of] /\ messages[n] \in Message
    BY <1>2, <1>3 DEF ThreadAgrees
  <2>2. messages[n].of \in Interactions /\ messages[n].package # 0
    BY <1>3, <2>1, MessageTypes, VersionFacts DEF IsAnswer
  <2> QED
    BY <1>1, <1>2, <1>3, <2>1, <2>2 DEF ThreadAgrees
<1>4. CASE Accept
  <2> DEFINE c == handler.of
             question == Question(handler.of, handler.version)
             new == messages'
  <2>1. /\ c \in Clients /\ handler.version \in Versions /\ handler.seen \in 0..MaxVersions
        /\ new = Append(Noticed(handler.seen, handler.version), question)
        /\ commands' = commands \cup {c} /\ pinned'[c] = handler.version
    BY <1>4, AcceptedFacts
  <2>2. question.kind = "question" /\ question.of = c /\ question.package = handler.version
    BY DEF Question
  <2>3. /\ DOMAIN messages = 1..Len(messages) /\ DOMAIN new = 1..Len(new)
        /\ Len(messages) \in Nat /\ Len(new) \in Nat /\ Len(messages) < Len(new)
        /\ \A n \in DOMAIN messages : new[n] = messages[n]
        /\ \A n \in DOMAIN new \ DOMAIN messages : n # Len(new) => new[n].kind = "notice"
        /\ new[Len(new)] = question
    <3> HIDE DEF new
    <3> QED
      BY <1>2, <2>1, AskedFacts, SMTT(30)
  <2> HIDE DEF new, c, question
  <2>4. \A k \in commands' : \E n \in DOMAIN new : new[n].kind = "question" /\ new[n].of = k
    <3>1. Len(new) \in DOMAIN new
      BY <2>3
    <3> QED
      BY <1>2, <2>1, <2>2, <2>3, <3>1 DEF ThreadAgrees
  <2>5. ASSUME NEW n \in DOMAIN new, new[n].kind # "notice"
        PROVE  /\ new[n].package = pinned'[new[n].of]
               /\ new[n].kind = "question" => new[n].of \in commands'
    <3>1. CASE n \in DOMAIN messages
      BY <1>3, <2>1, <2>3, <2>5, <3>1
    <3>2. CASE n = Len(new)
      BY <2>1, <2>2, <2>3, <3>2
    <3> QED
      BY <2>3, <2>5, <3>1, <3>2
  <2> QED
    BY <2>4, <2>5 DEF ThreadAgrees, new
<1>5. CASE ~Accept /\ messages' = messages
  BY <1>1, <1>2, <1>3, <1>5 DEF ThreadAgrees
<1>6. ASSUME NEW i \in Interactions, NEW kind \in {"answer", "fallback"},
             pinned[i] \in Versions, ~Accept, messages' = Filled(i, kind, pinned[i])
      PROVE  ThreadAgrees'
  <2> DEFINE new == messages'
             v == pinned[i]
             message == AnswerOf(i, kind, v)
  <2>1. v \in Versions /\ new = Filled(i, kind, v) /\ pinned'[i] = v /\ commands' = commands
    BY <1>1, <1>6, VersionFacts
  <2>2. message.kind = kind /\ message.of = i /\ message.package = v
    BY DEF AnswerOf
  <2> HIDE DEF new, v
  <2>3. /\ DOMAIN messages = 1..Len(messages) /\ DOMAIN new = 1..Len(new)
        /\ Len(messages) \in Nat /\ Len(new) \in Nat
        /\ Len(messages) <= Len(new)
        /\ \A n \in DOMAIN messages :
             new[n] = IF Answers(messages[n], i) THEN message ELSE messages[n]
        /\ \A n \in DOMAIN new \ DOMAIN messages : new[n] = message
    BY <1>2, <2>1, FilledFacts
  <2> HIDE DEF message
  <2>4. \A c \in commands : \E n \in DOMAIN new : new[n].kind = "question" /\ new[n].of = c
    <3>1. \A n \in DOMAIN messages : messages[n].kind = "question" =>
            n \in DOMAIN new /\ new[n] = messages[n]
      BY <2>3 DEF Answers, IsAnswer
    <3> QED
      BY <1>2, <3>1 DEF ThreadAgrees
  <2>5. ASSUME NEW n \in DOMAIN new, new[n].kind # "notice"
        PROVE  /\ new[n].package = pinned'[new[n].of]
               /\ new[n].kind = "question" => new[n].of \in commands
    <3>1. CASE n \in DOMAIN messages
      BY <1>3, <1>6, <2>1, <2>2, <2>3, <2>5, <3>1
    <3>2. CASE n \notin DOMAIN messages
      BY <1>6, <2>1, <2>2, <2>3, <2>5, <3>2
    <3> QED
      BY <3>1, <3>2
  <2> QED
    BY <2>1, <2>4, <2>5 DEF ThreadAgrees, new
<1> QED
  BY <1>4, <1>5, <1>6, MessageSteps

LEMMA CoreStep == Core /\ [Next]_vars => Core'
BY TypeOKStep, StoreAgreesStep, ThreadAgreesStep, HandlerKnowsStep, RunsArePinnedStep DEF Core

LEMMA CoreInvariant == Spec => []Core
BY CoreInit, CoreStep, PTL DEF Spec

(* Every variable has its type.                                            *)
THEOREM TypeCorrect == Spec => []TypeOK
<1>1. Core => TypeOK
  BY DEF Core
<1> QED
  BY <1>1, CoreInvariant, PTL

(* AnswersArePinned: an answer is given on the package of its question,    *)
(* however far the thread has moved on (investigator_service.py:857-867).  *)
THEOREM AnsweredOnItsPackage == Spec => []AnswersArePinned
<1>1. Core => AnswersArePinned
  BY DEF Core, ThreadAgrees, AnswersArePinned, IsAnswer
<1> QED
  BY <1>1, CoreInvariant, PTL

(* The same place of the thread is meant by every question of a request,   *)
(* and every answer to it.                                                 *)
LEMMA AnsweredOnceStep == Core /\ OneAnswerEach /\ [Next]_vars => OneAnswerEach'
<1> SUFFICES ASSUME Core, OneAnswerEach, [Next]_vars PROVE OneAnswerEach'
  OBVIOUS
<1>1. messages \in Seq(Message)
  BY TypeFacts DEF Core
<1>2. CASE messages' = messages
  BY <1>2 DEF OneAnswerEach
<1>3. CASE Accept
  <2> DEFINE c == handler.of
             question == Question(handler.of, handler.version)
             new == messages'
  <2>1. /\ c \in Clients /\ handler.version \in Versions /\ handler.seen \in 0..MaxVersions
        /\ new = Append(Noticed(handler.seen, handler.version), question)
        /\ \A n \in DOMAIN messages : messages[n].kind # "notice" => messages[n].of # c
    BY <1>3, AcceptedFacts
  <2>2. question.kind = "question" /\ question.of = c
    BY DEF Question
  <2>3. /\ DOMAIN messages = 1..Len(messages) /\ DOMAIN new = 1..Len(new)
        /\ Len(messages) \in Nat /\ Len(new) \in Nat /\ Len(messages) < Len(new)
        /\ \A n \in DOMAIN messages : new[n] = messages[n]
        /\ \A n \in DOMAIN new \ DOMAIN messages : n # Len(new) => new[n].kind = "notice"
        /\ new[Len(new)] = question
    <3> HIDE DEF new
    <3> QED
      BY <1>1, <2>1, AskedFacts, SMTT(30)
  <2> HIDE DEF new, c, question
  <2>4. \A n \in DOMAIN new : new[n].kind # "notice" =>
          \/ n = Len(new)
          \/ n \in DOMAIN messages /\ new[n] = messages[n] /\ new[n].of # c
    BY <2>1, <2>3
  <2>5. new[Len(new)].of = c /\ new[Len(new)].kind = "question"
    BY <2>2, <2>3
  <2>6. \A n \in DOMAIN new : IsAnswer(new[n]) => new[n].kind # "notice" /\ new[n].kind # "question"
    BY DEF IsAnswer
  <2>7. ASSUME NEW m \in DOMAIN new, NEW n \in DOMAIN new, new[m].of = new[n].of,
               IsAnswer(new[m]) = IsAnswer(new[n]), new[m].kind # "notice", new[n].kind # "notice"
        PROVE  m = n
    BY <2>4, <2>5, <2>7 DEF OneAnswerEach
  <2>8. ASSUME NEW m \in DOMAIN new, NEW n \in DOMAIN new, new[m].kind = "question",
               IsAnswer(new[n]), new[n].of = new[m].of
        PROVE  m < n
    BY <2>4, <2>5, <2>6, <2>8 DEF OneAnswerEach
  <2> QED
    BY <2>7, <2>8 DEF OneAnswerEach, new
<1>4. ASSUME NEW i \in Interactions, NEW kind \in {"answer", "fallback"},
             pinned[i] \in Versions, messages' = Filled(i, kind, pinned[i])
      PROVE  OneAnswerEach'
  <2> DEFINE new == messages'
             v == pinned[i]
             message == AnswerOf(i, kind, v)
  <2>1. IsAnswer(message) /\ message.of = i /\ message.kind \notin {"notice", "question"}
    BY DEF AnswerOf, IsAnswer
  <2>2. v \in Versions /\ new = Filled(i, kind, v)
    BY <1>4
  <2> HIDE DEF new, v
  <2>3. /\ DOMAIN messages = 1..Len(messages) /\ DOMAIN new = 1..Len(new)
        /\ Len(messages) \in Nat /\ Len(new) \in Nat
        /\ Len(messages) <= Len(new) /\ Len(new) <= Len(messages) + 1
        /\ \A n \in DOMAIN messages :
             new[n] = IF Answers(messages[n], i) THEN message ELSE messages[n]
        /\ \A n \in DOMAIN new \ DOMAIN messages :
             new[n] = message /\ \A k \in DOMAIN messages : ~Answers(messages[k], i)
    BY <1>1, <2>2, FilledFacts
  <2> HIDE DEF message
  <2>4. \A n \in DOMAIN messages :
          /\ new[n].of = messages[n].of /\ IsAnswer(new[n]) = IsAnswer(messages[n])
          /\ new[n].kind = "notice" <=> messages[n].kind = "notice"
          /\ new[n].kind = "question" <=> messages[n].kind = "question"
    BY <2>1, <2>3 DEF Answers, IsAnswer
  <2>5. \A n \in DOMAIN new : n \notin DOMAIN messages =>
          /\ n = Len(messages) + 1 /\ new[n] = message
          /\ \A k \in DOMAIN messages : ~(IsAnswer(messages[k]) /\ messages[k].of = i)
    BY <2>3 DEF Answers
  <2>6. ASSUME NEW m \in DOMAIN new, NEW n \in DOMAIN new, new[m].of = new[n].of,
               IsAnswer(new[m]) = IsAnswer(new[n]), new[m].kind # "notice", new[n].kind # "notice"
        PROVE  m = n
    <3>1. CASE m \in DOMAIN messages /\ n \in DOMAIN messages
      BY <2>4, <2>6, <3>1 DEF OneAnswerEach
    <3>2. CASE m \in DOMAIN messages /\ n \notin DOMAIN messages
      BY <2>1, <2>4, <2>5, <2>6, <3>2
    <3>3. CASE m \notin DOMAIN messages /\ n \in DOMAIN messages
      BY <2>1, <2>4, <2>5, <2>6, <3>3
    <3>4. CASE m \notin DOMAIN messages /\ n \notin DOMAIN messages
      BY <2>5, <3>4
    <3> QED
      BY <3>1, <3>2, <3>3, <3>4
  <2>7. ASSUME NEW m \in DOMAIN new, NEW n \in DOMAIN new, new[m].kind = "question",
               IsAnswer(new[n]), new[n].of = new[m].of
        PROVE  m < n
    <3>1. m \in DOMAIN messages
      BY <2>1, <2>5, <2>7
    <3>2. CASE n \in DOMAIN messages
      BY <2>4, <2>7, <3>1, <3>2 DEF OneAnswerEach
    <3>3. CASE n \notin DOMAIN messages
      BY <2>3, <2>5, <3>1, <3>3
    <3> QED
      BY <3>2, <3>3
  <2> QED
    BY <2>6, <2>7 DEF OneAnswerEach, new
<1> QED
  BY <1>2, <1>3, <1>4, MessageSteps

(* OneAnswerEach: however often a question is sent, run and retried, and   *)
(* whatever fails, the thread holds it once, one answer to it at most, and *)
(* the question first (runtime_store.py:812-820, 631-657).                 *)
THEOREM AnsweredOnce == Spec => []OneAnswerEach
<1>1. Init => OneAnswerEach
  BY DEF Init, OneAnswerEach
<1> QED
  BY <1>1, AnsweredOnceStep, CoreInvariant, PTL DEF Spec

-----------------------------------------------------------------------------
(* New evidence.                                                           *)
Asked == {n \in DOMAIN messages : messages[n].kind = "question"}

Notices == {n \in DOMAIN messages : messages[n].kind = "notice"}

(* The packages the thread has shown, in a question or in a report.        *)
Shown == {v \in Versions : interaction[v] # Absent \/ \E n \in Asked : messages[n].package = v}

(* The lock keeps questions in the order of their evidence, and the thread *)
(* is on no package that it has not shown.                                 *)
EvidenceInOrder ==
  /\ \A m, n \in Asked : m < n => messages[m].package <= messages[n].package
  /\ \A n \in Asked : messages[n].package <= package
  /\ handler.pc = "accept" =>
       handler.version <= package /\ \A n \in Asked : messages[n].package <= handler.version
  /\ IF latest = 0 THEN Asked = {} ELSE latest \in Shown
  /\ handler.pc \in {"select", "accept"} /\ handler.of \in Clients =>
       IF handler.seen = 0 THEN Asked = {} ELSE handler.seen \in Shown

LEMMA AskedStays ==
  ASSUME Core, [Next]_vars, ~Accept
  PROVE  /\ Asked' = Asked /\ \A n \in Asked : messages'[n] = messages[n]
         /\ \A n \in Notices : n \in Notices' /\ messages'[n] = messages[n]
<1>1. messages \in Seq(Message)
  BY TypeFacts DEF Core
<1>2. CASE messages' = messages
  BY <1>2 DEF Asked, Notices
<1>3. ASSUME NEW i \in Interactions, NEW kind \in {"answer", "fallback"},
             pinned[i] \in Versions, messages' = Filled(i, kind, pinned[i])
      PROVE  /\ Asked' = Asked /\ \A n \in Asked : messages'[n] = messages[n]
             /\ \A n \in Notices : n \in Notices' /\ messages'[n] = messages[n]
  <2> DEFINE new == messages'
             v == pinned[i]
             message == AnswerOf(i, kind, v)
  <2>1. message.kind \in {"answer", "fallback"}
    BY DEF AnswerOf
  <2>2. v \in Versions /\ new = Filled(i, kind, v)
    BY <1>3
  <2> HIDE DEF new, v
  <2>3. /\ DOMAIN messages = 1..Len(messages) /\ DOMAIN new = 1..Len(new)
        /\ Len(messages) \in Nat /\ Len(new) \in Nat /\ Len(messages) <= Len(new)
        /\ \A n \in DOMAIN messages :
             new[n] = IF Answers(messages[n], i) THEN message ELSE messages[n]
        /\ \A n \in DOMAIN new \ DOMAIN messages : new[n] = message
    BY <1>1, <2>2, FilledFacts
  <2> HIDE DEF message
  <2>4. \A n \in DOMAIN messages :
          /\ n \in DOMAIN new
          /\ messages[n].kind \in {"question", "notice"} => new[n] = messages[n]
          /\ new[n].kind \in {"question", "notice"} => new[n] = messages[n]
    BY <2>1, <2>3 DEF Answers, IsAnswer
  <2>5. \A n \in DOMAIN new \ DOMAIN messages : new[n].kind \notin {"question", "notice"}
    BY <2>1, <2>3
  <2> QED
    BY <2>4, <2>5 DEF Asked, Notices, new
<1> QED
  BY <1>2, <1>3, MessageSteps

LEMMA AskedGrows ==
  ASSUME Core, Accept
  PROVE  \E last \in Nat :
           /\ Asked' = Asked \cup {last} /\ \A n \in Asked : n < last /\ messages'[n] = messages[n]
           /\ last \in DOMAIN messages' /\ messages'[last].package = handler.version
           /\ \A n \in Notices : n \in Notices' /\ messages'[n] = messages[n]
           /\ \A n \in DOMAIN messages' : n \in 1..last
           /\ handler.seen \notin {0, handler.version} =>
                \E n \in Notices' : messages'[n].package = handler.version
<1> DEFINE question == Question(handler.of, handler.version)
           new == messages'
<1>1. /\ handler.of \in Clients /\ handler.version \in Versions /\ handler.seen \in 0..MaxVersions
      /\ new = Append(Noticed(handler.seen, handler.version), question)
  BY AcceptedFacts
<1>2. question.kind = "question" /\ question.package = handler.version
  BY DEF Question
<1>3. messages \in Seq(Message)
  BY TypeFacts DEF Core
<1>4. /\ DOMAIN messages = 1..Len(messages) /\ DOMAIN new = 1..Len(new)
      /\ Len(messages) \in Nat /\ Len(new) \in Nat /\ Len(messages) < Len(new)
      /\ \A n \in DOMAIN messages : new[n] = messages[n]
      /\ \A n \in DOMAIN new \ DOMAIN messages : n # Len(new) => new[n].kind = "notice"
      /\ new[Len(new)] = question
      /\ handler.seen \notin {0, handler.version} =>
           \E n \in DOMAIN new : new[n].kind = "notice" /\ new[n].package = handler.version
  <2>1. PICK c, from, to, q, n :
          /\ c = handler.of /\ from = handler.seen /\ to = handler.version
          /\ q = question /\ n = new
    OBVIOUS
  <2>2. /\ c \in Clients /\ to \in Versions /\ from \in 0..MaxVersions
        /\ q = Question(c, to) /\ n = Append(Noticed(from, to), q)
    BY <1>1, <2>1
  <2> HIDE DEF new, question
  <2>3. /\ DOMAIN messages = 1..Len(messages) /\ DOMAIN n = 1..Len(n)
        /\ Len(messages) \in Nat /\ Len(n) \in Nat /\ Len(messages) < Len(n)
    BY <1>3, <2>2, AskedFacts
  <2>4. /\ \A k \in DOMAIN messages : n[k] = messages[k]
        /\ \A k \in DOMAIN n \ DOMAIN messages : k # Len(n) => n[k].kind = "notice"
        /\ n[Len(n)] = q
    BY <1>3, <2>2, AskedFacts
  <2>5. from \notin {0, to} => \E k \in DOMAIN n : n[k].kind = "notice" /\ n[k].package = to
    BY <1>3, <2>2, AskedFacts, SMTT(30)
  <2> QED
    BY <2>1, <2>3, <2>4, <2>5
<1> HIDE DEF new, question
<1>5. Len(new) \in DOMAIN new /\ Len(new) \notin DOMAIN messages
  BY <1>4
<1>6. \A n \in DOMAIN new : new[n].kind = "question" => n = Len(new) \/ n \in DOMAIN messages
  BY <1>4
<1>7. \A n \in DOMAIN messages : n \in DOMAIN new /\ n < Len(new)
  BY <1>4
<1>8. Asked' = Asked \cup {Len(new)}
  BY <1>2, <1>4, <1>5, <1>6, <1>7 DEF Asked, new
<1>9. \A n \in Notices : n \in Notices' /\ messages'[n] = messages[n]
  BY <1>4, <1>7 DEF Notices, new
<1>10. handler.seen \notin {0, handler.version} =>
         \E n \in Notices' : messages'[n].package = handler.version
  BY <1>4 DEF Notices, new
<1>11. \A n \in Asked : n < Len(new) /\ messages'[n] = messages[n]
  BY <1>4, <1>7 DEF Asked, new
<1>12. Len(new) \in DOMAIN messages' /\ messages'[Len(new)].package = handler.version
       /\ \A n \in DOMAIN messages' : n \in 1..Len(new)
  BY <1>2, <1>4, <1>5 DEF new
<1> QED
  BY <1>4, <1>8, <1>9, <1>10, <1>11, <1>12

(* An interaction that exists goes on existing.                            *)
LEMMA InteractionsStay ==
  ASSUME Core, [Next]_vars
  PROVE  \A i \in Interactions : interaction[i] # Absent => interaction'[i] # Absent
<1> DEFINE Stay == \A i \in Interactions : interaction[i] # Absent => interaction'[i] # Absent
<1>1. interaction \in [Interactions -> Results] /\ Queued # Absent
  BY TypeFacts, ResultTypes DEF Core
<1>2. CASE Accept \/ QueueReport
  BY <1>1, <1>2 DEF Accept, QueueReport
<1>3. ASSUME NEW k \in Retries, RetryQueues(k)
      PROVE  Stay
  BY <1>1, <1>3 DEF RetryQueues
<1>4. ASSUME NEW t \in Interactions \X Attempts, OfTask(t)
      PROVE  Stay
  <2>1. /\ interaction'[t[1]] # Absent
        /\ \A i \in Interactions \ {t[1]} : interaction'[i] = interaction[i]
    BY <1>4, TaskStepFacts
  <2> QED
    BY <2>1
<1>5. CASE \/ NewPackage \/ (\E c \in Clients : BeginQuestion(c)) \/ BeginReport
           \/ SelectPackage \/ Spawn \/ PinReport \/ ReportOnThread \/ HandlerFails
           \/ (\E k \in Retries, i \in Interactions : BeginRetry(k, i))
           \/ (\E k \in Retries : RetrySpawns(k)) \/ Crash \/ UNCHANGED vars
  BY <1>5 DEF NewPackage, BeginQuestion, BeginReport, SelectPackage, Spawn, PinReport,
     ReportOnThread, HandlerFails, BeginRetry, RetrySpawns, Crash, vars, storeVars
<1> QED
  BY <1>2, <1>3, <1>4, <1>5 DEF Next, HandlerStep, RetryStep, OfTask

(* The thread moves on to what it has shown, and not back to nothing.      *)
LEMMA LatestMoves ==
  ASSUME Core, [Next]_vars, ~Accept
  PROVE  latest' \in {latest} \cup Shown
<1> DEFINE Moves == latest' \in {latest} \cup Shown
<1>1. CASE ReportOnThread
  <2>1. latest' = handler.version /\ Handled = handler.version /\ handler.version \in Versions
    BY <1>1 DEF ReportOnThread, Core, HandlerKnows, Handled
  <2>2. interaction[handler.version] = Queued
    BY <1>1, <2>1 DEF ReportOnThread, Core, HandlerKnows
  <2> QED
    BY <2>1, <2>2, ResultTypes, VersionFacts DEF Shown
<1>2. ASSUME NEW t \in Interactions \X Attempts, Context(t)
      PROVE  Moves
  <2> DEFINE i == t[1]
  <2>1. /\ i \in Interactions /\ pinned[i] # 0 /\ interaction[i] # Absent
        /\ latest' = pinned[i]
    BY <1>2, TaskStepFacts DEF OfTask, TaskStep, Context
  <2>2. pinned[i] \in Versions
    BY <2>1, TypeFacts, VersionFacts DEF Core
  <2>3. CASE i \in Versions
    BY <2>1, <2>2, <2>3 DEF Core, StoreAgrees, Shown
  <2>4. CASE i \in Clients
    <3>1. i \in commands
      BY <2>1, <2>4 DEF Core, StoreAgrees
    <3>2. PICK n \in DOMAIN messages : messages[n].kind = "question" /\ messages[n].of = i
      BY <3>1 DEF Core, ThreadAgrees
    <3>3. messages[n].package = pinned[i]
      BY <3>2 DEF Core, ThreadAgrees
    <3> QED
      BY <2>1, <2>2, <3>2, <3>3 DEF Shown, Asked
  <2> QED
    BY <2>1, <2>3, <2>4, VersionFacts
<1>3. ASSUME NEW t \in Interactions \X Attempts,
             \/ Progress(t) \/ Answer(t) \/ WriteResult(t) \/ WriteFailure(t)
             \/ Summarise(t) \/ FallBack(t) \/ TaskFails(t) \/ FallBackFails(t)
      PROVE  latest' = latest
  BY <1>3 DEF Progress, Answer, WriteResult, WriteFailure, Summarise, FallBack, TaskFails,
              FallBackFails, threadVars
<1>4. CASE \/ NewPackage \/ (\E c \in Clients : BeginQuestion(c)) \/ BeginReport
           \/ SelectPackage \/ Spawn \/ QueueReport \/ PinReport \/ HandlerFails
           \/ (\E k \in Retries, i \in Interactions : BeginRetry(k, i))
           \/ (\E k \in Retries : RetryStep(k)) \/ Crash \/ UNCHANGED vars
  BY <1>4 DEF NewPackage, BeginQuestion, BeginReport, SelectPackage, Spawn, QueueReport,
     PinReport, HandlerFails, BeginRetry, RetryStep, RetryQueues, RetrySpawns, Crash, vars,
     threadVars
<1> QED
  BY <1>1, <1>2, <1>3, <1>4 DEF Next, HandlerStep, TaskStep

(* What the handler of a question has read, and when.                      *)
LEMMA HandlerReads ==
  ASSUME Core, [Next]_vars
  PROVE  /\ package' \in Versions /\ package' >= package
         /\ handler'.pc \in {"select", "accept"} /\ handler'.of \in Clients =>
              \/ handler'.seen = latest
              \/ /\ handler.pc \in {"select", "accept"} /\ handler.of \in Clients
                 /\ handler'.seen = handler.seen
         /\ handler'.pc = "accept" =>
              \/ handler'.version = package
              \/ handler.pc = "accept" /\ handler'.version = handler.version
<1> DEFINE Reads ==
      /\ handler'.pc \in {"select", "accept"} /\ handler'.of \in Clients =>
           \/ handler'.seen = latest
           \/ /\ handler.pc \in {"select", "accept"} /\ handler.of \in Clients
              /\ handler'.seen = handler.seen
      /\ handler'.pc = "accept" =>
           \/ handler'.version = package
           \/ handler.pc = "accept" /\ handler'.version = handler.version
<1>1. package' \in Versions /\ package' >= package
  <2>1. package \in Versions /\ package' \in Versions
    BY TypeOKStep, TypeFacts DEF Core, TypeOK
  <2>2. package' = package \/ package' = package + 1
    BY DEF Next, HandlerStep, RetryStep, TaskStep, NewPackage, BeginQuestion, BeginReport,
       SelectPackage, Accept, Spawn, QueueReport, PinReport, ReportOnThread, HandlerFails,
       BeginRetry, RetryQueues, RetrySpawns, Context, Progress, Answer, WriteResult,
       WriteFailure, TaskFails,
         Summarise, FallBack, FallBackFails, Crash, vars
  <2> QED
    BY <2>1, <2>2 DEF Versions
<1> SUFFICES Reads
  BY <1>1
<1>2. handler \in Handlers
  BY TypeFacts DEF Core
<1>3. CASE SelectPackage
  BY <1>2, <1>3, VersionFacts DEF SelectPackage, Handlers
<1>4. CASE (\E c \in Clients : BeginQuestion(c)) \/ BeginReport
  BY <1>4, VersionFacts DEF BeginQuestion, BeginReport, NoHandler
<1>5. CASE Accept \/ Spawn \/ QueueReport \/ PinReport \/ ReportOnThread \/ HandlerFails \/ Crash
  <2>1. \/ handler' = NoHandler
        \/ \E p \in {"spawn", "pin", "thread"} : handler' = [handler EXCEPT !.pc = p]
    BY <1>5 DEF Accept, Spawn, QueueReport, PinReport, ReportOnThread, HandlerFails, Crash
  <2> QED
    BY <1>2, <2>1 DEF NoHandler, Handlers
<1>6. ASSUME NEW t \in Interactions \X Attempts, OfTask(t)
      PROVE  Reads
  BY <1>6, TaskStepFacts
<1>7. CASE \/ NewPackage \/ (\E k \in Retries, i \in Interactions : BeginRetry(k, i))
           \/ (\E k \in Retries : RetryStep(k)) \/ UNCHANGED vars
  BY <1>7 DEF NewPackage, BeginRetry, RetryStep, RetryQueues, RetrySpawns, vars
<1> QED
  BY <1>3, <1>4, <1>5, <1>6, <1>7 DEF Next, HandlerStep, OfTask

LEMMA EvidenceInOrderStep == Core /\ EvidenceInOrder /\ [Next]_vars => EvidenceInOrder'
<1> SUFFICES ASSUME Core, EvidenceInOrder, [Next]_vars PROVE EvidenceInOrder'
  OBVIOUS
<1>1. /\ package' \in Nat /\ package \in Nat /\ package' >= package
      /\ handler'.pc \in {"select", "accept"} /\ handler'.of \in Clients =>
           \/ handler'.seen = latest
           \/ /\ handler.pc \in {"select", "accept"} /\ handler.of \in Clients
              /\ handler'.seen = handler.seen
      /\ handler'.pc = "accept" =>
           \/ handler'.version = package
           \/ handler.pc = "accept" /\ handler'.version = handler.version
  BY HandlerReads, TypeFacts DEF Core, Versions
<1>2. \A n \in Asked : messages[n].package \in Nat /\ n \in Nat
  BY TypeFacts, MessageTypes DEF Core, Asked, Versions
<1>3. \A i \in Interactions : interaction[i] # Absent => interaction'[i] # Absent
  BY InteractionsStay
<1>4. latest \in 0..MaxVersions /\ handler \in Handlers
  BY TypeFacts DEF Core
<1>5. CASE ~Accept
  <2>1. Asked' = Asked /\ \A n \in Asked : messages'[n] = messages[n]
    BY <1>5, AskedStays
  <2>2. Shown \subseteq Shown'
    BY <1>3, <2>1, VersionFacts DEF Shown
  <2>3. latest' \in {latest} \cup Shown
    BY <1>5, LatestMoves
  <2>4. IF latest' = 0 THEN Asked = {} ELSE latest' \in Shown'
    BY <2>2, <2>3, VersionFacts DEF EvidenceInOrder, Shown
  <2>5. handler'.pc \in {"select", "accept"} /\ handler'.of \in Clients =>
          IF handler'.seen = 0 THEN Asked = {} ELSE handler'.seen \in Shown'
    <3>1. handler.seen \in 0..MaxVersions
      BY <1>4 DEF Handlers
    <3> QED
      BY <1>1, <1>4, <2>2, <3>1, VersionFacts DEF EvidenceInOrder
  <2>6. handler'.pc = "accept" =>
          /\ handler'.version <= package'
          /\ \A n \in Asked : messages[n].package <= handler'.version
    <3>1. handler.version \in Nat
      BY <1>4 DEF Handlers
    <3> QED
      BY <1>1, <1>2, <3>1 DEF EvidenceInOrder
  <2>7. \A n \in Asked : messages[n].package <= package'
    BY <1>1, <1>2 DEF EvidenceInOrder
  <2>8. \A m, n \in Asked : m < n => messages[m].package <= messages[n].package
    BY DEF EvidenceInOrder
  <2> QED
    BY <2>1, <2>4, <2>5, <2>6, <2>7, <2>8 DEF EvidenceInOrder
<1>6. CASE Accept
  <2>1. PICK last \in Nat :
          /\ Asked' = Asked \cup {last} /\ \A n \in Asked : n < last /\ messages'[n] = messages[n]
          /\ messages'[last].package = handler.version
    BY <1>6, AskedGrows
  <2>2. /\ handler.version \in Versions /\ handler.version \in Nat /\ handler.version # 0 /\ handler.version <= package
        /\ \A n \in Asked : messages[n].package <= handler.version
    BY <1>6, AcceptedFacts DEF Accept, EvidenceInOrder, Versions
  <2>3. latest' = handler.version /\ handler'.pc = "spawn"
    BY <1>4, <1>6 DEF Accept, Handlers
  <2>4. latest' \in Shown'
    BY <2>1, <2>2, <2>3 DEF Shown
  <2>5. \A n \in Asked' : messages'[n].package <= package'
    BY <1>1, <1>2, <2>1, <2>2
  <2>6. \A m, n \in Asked' : m < n => messages'[m].package <= messages'[n].package
    BY <1>2, <2>1, <2>2 DEF EvidenceInOrder
  <2> QED
    BY <2>2, <2>3, <2>4, <2>5, <2>6 DEF EvidenceInOrder
<1> QED
  BY <1>5, <1>6

(* NewEvidenceIsAnnounced, by the places of questions and notices.         *)
EvidenceAnnounced ==
  \A m, n \in Asked : m < n /\ messages[m].package < messages[n].package =>
    \/ interaction[messages[n].package] # Absent
    \/ \E k \in Notices : k <= n /\ messages[k].package = messages[n].package

LEMMA SameAnnouncement == TypeOK => (EvidenceAnnounced => NewEvidenceIsAnnounced)
<1> SUFFICES ASSUME TypeOK, EvidenceAnnounced PROVE NewEvidenceIsAnnounced
  OBVIOUS
<1>1. DOMAIN messages = 1..Len(messages) /\ Len(messages) \in Nat
  BY TypeFacts
<1>2. \A n \in DOMAIN messages : \A k \in DOMAIN messages : k <= n => k \in 1..n
  BY <1>1
<1> QED
  BY <1>2 DEF EvidenceAnnounced, NewEvidenceIsAnnounced, Asked, Notices

LEMMA AnnouncedStep ==
  Core /\ EvidenceInOrder /\ EvidenceAnnounced /\ [Next]_vars => EvidenceAnnounced'
<1> SUFFICES ASSUME Core, EvidenceInOrder, EvidenceAnnounced, [Next]_vars PROVE EvidenceAnnounced'
  OBVIOUS
<1>1. \A n \in Asked : messages[n].package \in Versions /\ messages[n].package \in Nat /\ n \in Nat
  BY TypeFacts, MessageTypes DEF Core, Asked, Versions
<1>2. \A i \in Versions : interaction[i] # Absent => interaction'[i] # Absent
  BY InteractionsStay, VersionFacts
<1>3. CASE ~Accept
  <2>1. /\ Asked' = Asked /\ \A n \in Asked : messages'[n] = messages[n]
        /\ \A n \in Notices : n \in Notices' /\ messages'[n] = messages[n]
    BY <1>3, AskedStays
  <2> QED
    BY <1>1, <1>2, <2>1 DEF EvidenceAnnounced
<1>4. CASE Accept
  <2>1. PICK last \in Nat :
          /\ Asked' = Asked \cup {last} /\ \A n \in Asked : n < last /\ messages'[n] = messages[n]
          /\ messages'[last].package = handler.version
          /\ \A n \in Notices : n \in Notices' /\ messages'[n] = messages[n]
          /\ \A n \in DOMAIN messages' : n \in 1..last
          /\ handler.seen \notin {0, handler.version} =>
               \E n \in Notices' : messages'[n].package = handler.version
    BY <1>4, AskedGrows
  <2>2. /\ handler.version \in Versions /\ handler.version \in Nat
        /\ handler.pc = "accept" /\ handler.of \in Clients
    BY <1>4, AcceptedFacts DEF Accept, Versions
  <2>3. \A n \in Notices' : n <= last
    BY <2>1 DEF Notices
  <2>4. ASSUME NEW m \in Asked, NEW n \in Asked, m < n, messages[m].package < messages[n].package
        PROVE  \/ interaction'[messages[n].package] # Absent
               \/ \E k \in Notices' : k <= n /\ messages'[k].package = messages[n].package
    BY <1>1, <1>2, <2>1, <2>4 DEF EvidenceAnnounced
  <2>5. ASSUME NEW m \in Asked, messages[m].package < handler.version
        PROVE  \/ interaction'[handler.version] # Absent
               \/ \E k \in Notices' : k <= last /\ messages'[k].package = handler.version
    <3>1. handler.seen # 0 /\ handler.seen \in Shown
      BY <2>2 DEF EvidenceInOrder
    <3>2. CASE handler.seen # handler.version
      BY <2>1, <2>3, <3>1, <3>2
    <3>3. CASE interaction[handler.version] # Absent
      BY <1>2, <2>2, <3>3
    <3>4. CASE \E n \in Asked : messages[n].package = handler.version
      <4>1. PICK n \in Asked : messages[n].package = handler.version
        BY <3>4
      <4>2. m < n
        BY <1>1, <2>2, <2>5, <4>1 DEF EvidenceInOrder
      <4>3. n <= last
        BY <1>1, <2>1
      <4>4. \/ interaction'[handler.version] # Absent
            \/ \E k \in Notices' : k <= n /\ messages'[k].package = handler.version
        BY <2>4, <2>5, <4>1, <4>2
      <4> QED
        BY <2>3, <4>4
    <3> QED
      BY <3>1, <3>2, <3>3, <3>4 DEF Shown
  <2>6. ASSUME NEW m \in Asked', NEW n \in Asked', m < n, messages'[m].package < messages'[n].package
        PROVE  \/ interaction'[messages'[n].package] # Absent
               \/ \E k \in Notices' : k <= n /\ messages'[k].package = messages'[n].package
    <3>1. m \in Asked /\ messages'[m] = messages[m]
      BY <1>1, <2>1, <2>6
    <3>2. CASE n \in Asked
      BY <2>1, <2>4, <2>6, <3>1, <3>2
    <3>3. CASE n = last
      BY <2>1, <2>5, <2>6, <3>1, <3>3
    <3> QED
      BY <2>1, <3>2, <3>3
  <2> QED
    BY <2>6 DEF EvidenceAnnounced
<1> QED
  BY <1>3, <1>4

(* NewEvidenceIsAnnounced: where a question is on newer evidence than an   *)
(* earlier one, the thread says so before it, or a report on that evidence *)
(* was queued (investigator_service.py:413-445).                           *)
THEOREM ChangesAreAnnounced == Spec => []NewEvidenceIsAnnounced
<1>1. Init => EvidenceInOrder /\ EvidenceAnnounced
  BY DEF Init, EvidenceInOrder, EvidenceAnnounced, Asked, NoHandler
<1>2. Core /\ EvidenceAnnounced => NewEvidenceIsAnnounced
  BY SameAnnouncement DEF Core
<1> QED
  BY <1>1, <1>2, EvidenceInOrderStep, AnnouncedStep, CoreInvariant, PTL DEF Spec

-----------------------------------------------------------------------------
(* Results.  Where a retry waits for the runs and retries before it, an    *)
(* interaction has one task at most, and it is unsettled until the task    *)
(* has written its result.                                                 *)
BeforeResult == {"context", "progress", "run", "final"}

OneTaskEach ==
  /\ \A i \in Interactions, a, b \in Attempts :
       task[<<i, a>>].pc # "none" /\ task[<<i, b>>].pc # "none" => a = b
  /\ \A i \in Interactions, a \in Attempts : task[<<i, a>>].pc \in BeforeResult =>
       interaction[i].status \in {"QUEUED", "IN_PROGRESS"}
  /\ \A k, l \in Retries :
       retrying[k].pc \in {"queue", "use"} /\ retrying[l].pc \in {"queue", "use"} => k = l
  /\ \A k \in Retries : retrying[k].pc \in {"queue", "use"} =>
       \A a \in Attempts : task[<<retrying[k].of, a>>].pc = "none"
  /\ \A k \in Retries :
       /\ retrying[k].pc = "queue" => interaction[retrying[k].of].retry
       /\ retrying[k].pc = "use" => interaction[retrying[k].of] = Queued

Said(i, kind) == \E n \in DOMAIN messages : messages[n].of = i /\ messages[n].kind = kind

(* A task that is about to replace what was said of its interaction.       *)
Falling(i) == \E a \in Attempts : task[<<i, a>>].pc = "fallen"

(* The thread has the result before its interaction, and a fallback before *)
(* the interaction has failed.                                             *)
ResultFollows ==
  /\ \A t \in Interactions \X Attempts :
       /\ task[t].pc = "final" => task[t].outcome # "none" /\ Said(t[1], KindOf(task[t].outcome))
       /\ task[t].pc = "fallen" => Said(t[1], "fallback")
  /\ \A i \in Interactions \ abandoned : ~Falling(i) =>
       /\ interaction[i].status = "VALIDATED" => Said(i, "answer")
       /\ interaction[i].status = "FALLBACK" => Said(i, "fallback")

LEMMA TaskStaysAlone ==
  ASSUME Core, OneTaskEach, NEW t \in Interactions \X Attempts, OfTask(t)
  PROVE  OneTaskEach'
<1>1. /\ task[t].pc # "none" /\ t = <<t[1], t[2]>> /\ t[1] \in Interactions /\ t[2] \in Attempts
      /\ \A i \in Interactions \ {t[1]} : interaction'[i] = interaction[i]
      /\ \A x \in (Interactions \X Attempts) \ {t} : task'[x] = task[x]
      /\ retrying' = retrying
  BY TaskStepFacts
<1> DEFINE i == t[1]
<1>2. i \in Interactions /\ \A a \in Attempts : a # t[2] => task[<<i, a>>].pc = "none"
  BY <1>1 DEF OneTaskEach
<1>3. task'[t].pc \in BeforeResult => interaction'[i].status \in {"QUEUED", "IN_PROGRESS"}
  <2>1. interaction \in [Interactions -> Results] /\ task \in [Interactions \X Attempts -> Tasks]
    BY TypeFacts DEF Core
  <2>2. WriteResult(t) \/ WriteFailure(t) \/ TaskFails(t) \/ FallBack(t) \/ FallBackFails(t)
          \/ Summarise(t) => task'[t].pc \notin BeforeResult
    BY <2>1 DEF WriteResult, WriteFailure, TaskFails, FallBack, FallBackFails, Summarise, NoTask,
                BeforeResult, Tasks
  <2>3. Progress(t) => interaction'[i].status = "IN_PROGRESS"
    BY <1>1, <2>1 DEF Progress
  <2>4. Context(t) \/ Answer(t) => interaction' = interaction /\ task[t].pc \in BeforeResult
    BY DEF Context, Answer, storeVars, BeforeResult
  <2>5. task[t].pc \in BeforeResult => interaction[i].status \in {"QUEUED", "IN_PROGRESS"}
    BY <1>1 DEF OneTaskEach
  <2> QED
    BY <2>2, <2>3, <2>4, <2>5 DEF OfTask, TaskStep
<1>4. ASSUME NEW j \in Interactions, NEW a \in Attempts
      PROVE  /\ task'[<<j, a>>].pc # "none" => task[<<j, a>>].pc # "none"
             /\ task'[<<j, a>>].pc \in BeforeResult =>
                  interaction'[j].status \in {"QUEUED", "IN_PROGRESS"}
  <2> DEFINE x == <<j, a>>
  <2>1. CASE x = t
    BY <1>1, <1>3, <2>1
  <2>2. CASE x # t
    <3>1. task'[x] = task[x]
      BY <1>1, <2>2
    <3>2. task[x].pc \in BeforeResult => task[x].pc # "none"
      BY DEF BeforeResult
    <3>3. task[x].pc # "none" => j # i
      BY <1>1, <1>2, <2>2
    <3>4. task[x].pc \in BeforeResult => interaction[j].status \in {"QUEUED", "IN_PROGRESS"}
      BY DEF OneTaskEach
    <3> HIDE DEF x
    <3>5. j # i => interaction'[j] = interaction[j]
      BY <1>1
    <3> QED
      BY <3>1, <3>2, <3>3, <3>4, <3>5 DEF x
  <2> QED
    BY <2>1, <2>2
<1>5. ASSUME NEW k \in Retries, retrying[k].pc \in {"queue", "use"}
      PROVE  /\ interaction'[retrying[k].of] = interaction[retrying[k].of]
             /\ \A a \in Attempts : task'[<<retrying[k].of, a>>].pc = "none"
  <2> DEFINE j == retrying[k].of
  <2>1. j \in Interactions
    BY DEF Core, TypeOK
  <2>2. \A a \in Attempts : task[<<j, a>>].pc = "none"
    BY <1>5 DEF OneTaskEach
  <2>3. j # i
    BY <1>1, <2>2
  <2> QED
    BY <1>1, <1>4, <2>1, <2>2, <2>3
<1>6. \A j \in Interactions, a, b \in Attempts :
        task'[<<j, a>>].pc # "none" /\ task'[<<j, b>>].pc # "none" => a = b
  BY <1>4 DEF OneTaskEach
<1> QED
  BY <1>1, <1>4, <1>5, <1>6 DEF OneTaskEach

(* A new interaction is queued: nothing runs or retries it.                *)
LEMMA QueuedAlone ==
  ASSUME Core, OneTaskEach, NEW i \in Interactions, interaction[i] = Absent,
         interaction' = [interaction EXCEPT ![i] = Queued], UNCHANGED <<task, retrying>>
  PROVE  OneTaskEach'
<1>1. Absent.status \notin {"QUEUED", "IN_PROGRESS"} /\ ~Absent.retry /\ Absent # Queued
  BY ResultTypes
<1>2. interaction'[i] = Queued /\ \A j \in Interactions : j # i => interaction'[j] = interaction[j]
  BY TypeFacts DEF Core
<1>3. pinned[i] = 0
  BY VersionFacts DEF Core, StoreAgrees
<1>4. \A a \in Attempts : task[<<i, a>>].pc = "none"
  BY <1>3 DEF Core, RunsArePinned
<1>5. \A k \in Retries :
        /\ retrying[k].of \in Interactions
        /\ retrying[k].pc \in {"queue", "use"} => retrying[k].of # i
  BY <1>3 DEF Core, TypeOK, RunsArePinned
<1>6. \A j \in Interactions, a \in Attempts : task[<<j, a>>].pc \in BeforeResult => j # i
  BY <1>4 DEF BeforeResult
<1> QED
  BY <1>2, <1>4, <1>5, <1>6 DEF OneTaskEach

(* A task is started for an interaction that is queued and has none.       *)
LEMMA SpawnedAlone ==
  ASSUME Core, OneTaskEach, NEW i \in Interactions, NEW a \in Attempts,
         interaction[i] = Queued, \A b \in Attempts : task[<<i, b>>].pc = "none",
         task' = [task EXCEPT ![<<i, a>>].pc = "context"], interaction' = interaction,
         \A k \in Retries : retrying'[k].pc \in {"queue", "use"} =>
           retrying'[k] = retrying[k] /\ retrying[k].of # i
  PROVE  OneTaskEach'
<1>1. Queued.status = "QUEUED" /\ ~Queued.retry
  BY ResultTypes
<1>2. ASSUME NEW j \in Interactions, NEW b \in Attempts, <<j, b>> # <<i, a>>
      PROVE  task'[<<j, b>>] = task[<<j, b>>]
  BY <1>2, TypeFacts DEF Core
<1>3. \A j \in Interactions, b \in Attempts : task'[<<j, b>>].pc # "none" =>
        \/ j = i /\ b = a
        \/ j # i /\ task[<<j, b>>].pc # "none"
  BY <1>2
<1>4. \A k \in Retries : retrying[k].of \in Interactions
  BY DEF Core, TypeOK
<1>5. \A j \in Interactions, b, c \in Attempts :
        task'[<<j, b>>].pc # "none" /\ task'[<<j, c>>].pc # "none" => b = c
  BY <1>3 DEF OneTaskEach
<1>6. ASSUME NEW j \in Interactions, NEW b \in Attempts, task'[<<j, b>>].pc \in BeforeResult
      PROVE  interaction[j].status \in {"QUEUED", "IN_PROGRESS"}
  <2>1. CASE <<j, b>> = <<i, a>>
    BY <1>1, <2>1
  <2>2. CASE <<j, b>> # <<i, a>>
    BY <1>2, <1>6, <2>2 DEF OneTaskEach
  <2> QED
    BY <2>1, <2>2
<1>7. \A k, l \in Retries :
        retrying'[k].pc \in {"queue", "use"} /\ retrying'[l].pc \in {"queue", "use"} => k = l
  BY DEF OneTaskEach
<1>8. ASSUME NEW k \in Retries
      PROVE  /\ retrying'[k].pc = "queue" => interaction[retrying'[k].of].retry
             /\ retrying'[k].pc = "use" => interaction[retrying'[k].of] = Queued
             /\ retrying'[k].pc \in {"queue", "use"} =>
                  \A b \in Attempts : task'[<<retrying'[k].of, b>>].pc = "none"
  <2>1. CASE retrying'[k].pc \in {"queue", "use"}
    <3>1. retrying'[k] = retrying[k] /\ retrying[k].of # i /\ retrying[k].of \in Interactions
      BY <1>4, <2>1
    <3>2. \A b \in Attempts : task'[<<retrying[k].of, b>>].pc # "none" =>
            task[<<retrying[k].of, b>>].pc # "none"
      BY <1>3, <3>1
    <3> QED
      BY <3>1, <3>2 DEF OneTaskEach
  <2> QED
    BY <2>1
<1> QED
  BY <1>5, <1>6, <1>7, <1>8 DEF OneTaskEach

LEMMA OneTaskEachStep == SerialRetries /\ Core /\ OneTaskEach /\ [Next]_vars => OneTaskEach'
<1> SUFFICES ASSUME SerialRetries, Core, OneTaskEach, [Next]_vars PROVE OneTaskEach'
  OBVIOUS
<1>1. /\ interaction \in [Interactions -> Results] /\ task \in [Interactions \X Attempts -> Tasks]
      /\ retrying \in [Retries -> [pc : {"idle", "queue", "use", "done"}, of : Interactions]]
  BY TypeFacts DEF Core, TypeOK
<1>2. CASE UNCHANGED <<interaction, task, retrying>>
  BY <1>2 DEF OneTaskEach
<1>3. CASE Accept
  <2>1. handler.of \in Interactions /\ interaction[handler.of] = Absent
    BY <1>3, AcceptedFacts DEF Core, StoreAgrees
  <2>2. /\ interaction' = [interaction EXCEPT ![handler.of] = Queued]
        /\ UNCHANGED <<task, retrying>>
    BY <1>3 DEF Accept
  <2> QED
    BY <2>1, <2>2, QueuedAlone
<1>4. CASE QueueReport
  <2>1. handler.version \in Interactions /\ UNCHANGED <<task, retrying>>
    BY <1>4, VersionFacts DEF QueueReport, Core, HandlerKnows
  <2>2. CASE interaction' = interaction
    BY <1>2, <2>1, <2>2
  <2>3. CASE /\ interaction[handler.version] = Absent
             /\ interaction' = [interaction EXCEPT ![handler.version] = Queued]
    BY <2>1, <2>3, QueuedAlone
  <2> QED
    BY <1>4, <2>2, <2>3 DEF QueueReport
<1>5. CASE Spawn
  <2>1. /\ Handled \in Interactions /\ interaction[Handled] = Queued /\ Unused(Handled)
        /\ 0 \in Attempts
    BY <1>5, VersionFacts, BoundAssumption
       DEF Spawn, Core, HandlerKnows, Handled, TypeOK, Attempts
  <2>2. task' = [task EXCEPT ![<<Handled, 0>>].pc = "context"]
    BY <1>5 DEF Spawn, Handled
  <2>3. interaction' = interaction /\ retrying' = retrying
    BY <1>5 DEF Spawn, storeVars
  <2>4. PICK i : i = Handled
    OBVIOUS
  <2> QED
    BY <2>1, <2>2, <2>3, <2>4, SpawnedAlone DEF Unused
<1>6. ASSUME NEW k \in Retries, NEW i \in Interactions, BeginRetry(k, i)
      PROVE  OneTaskEach'
  <2>1. /\ interaction[i].retry /\ \A a \in Retries : retrying[a].pc \in {"idle", "done"}
        /\ \A a \in Attempts : task[<<i, a>>].pc = "none"
        /\ retrying' = [retrying EXCEPT ![k] = [pc |-> "queue", of |-> i]]
        /\ interaction' = interaction /\ task' = task
    BY <1>6 DEF BeginRetry, HasTask, storeVars
  <2>2. /\ retrying'[k].pc = "queue" /\ retrying'[k].of = i
        /\ \A a \in Retries : a # k => retrying'[a].pc \in {"idle", "done"}
    BY <1>1, <2>1
  <2> QED
    BY <2>1, <2>2 DEF OneTaskEach
<1>7. ASSUME NEW k \in Retries, RetryQueues(k)
      PROVE  OneTaskEach'
  <2> DEFINE i == retrying[k].of
  <2>1. i \in Interactions /\ interaction[i].retry
    BY <1>1, <1>7 DEF RetryQueues, OneTaskEach
  <2>2. /\ interaction'[i] = Queued /\ task' = task
        /\ \A j \in Interactions : j # i => interaction'[j] = interaction[j]
    BY <1>1, <1>7, <2>1 DEF RetryQueues
  <2>3. /\ retrying'[k].pc = "use" /\ retrying'[k].of = i
        /\ \A l \in Retries : l # k => retrying'[l] = retrying[l]
    BY <1>1, <1>7 DEF RetryQueues
  <2>4. \A l \in Retries : l # k => retrying[l].pc \notin {"queue", "use"}
    BY <1>7 DEF RetryQueues, OneTaskEach
  <2>5. \A a \in Attempts : task[<<i, a>>].pc = "none"
    BY <1>7 DEF RetryQueues, OneTaskEach
  <2> HIDE DEF i
  <2>6. \A j \in Interactions, a \in Attempts : task[<<j, a>>].pc \in BeforeResult => j # i
    BY <2>5 DEF BeforeResult
  <2> QED
    BY <2>1, <2>2, <2>3, <2>4, <2>5, <2>6 DEF OneTaskEach
<1>8. ASSUME NEW k \in Retries, RetrySpawns(k)
      PROVE  OneTaskEach'
  <2>1. PICK i : i = retrying[k].of
    OBVIOUS
  <2>2. /\ i \in Interactions /\ k \in Attempts /\ interaction[i] = Queued
        /\ \A a \in Attempts : task[<<i, a>>].pc = "none"
    BY <1>1, <1>8, <2>1 DEF RetrySpawns, OneTaskEach, Attempts, Retries
  <2>3. task' = [task EXCEPT ![<<i, k>>].pc = "context"] /\ interaction' = interaction
    BY <1>8, <2>1 DEF RetrySpawns
  <2>4. \A l \in Retries : retrying'[l].pc \notin {"queue", "use"}
    <3>1. \A l \in Retries : l # k => retrying[l].pc \notin {"queue", "use"}
      BY <1>8 DEF RetrySpawns, OneTaskEach
    <3> QED
      BY <1>1, <1>8, <3>1 DEF RetrySpawns
  <2> QED
    BY <2>2, <2>3, <2>4, SpawnedAlone
<1>9. ASSUME NEW t \in Interactions \X Attempts, OfTask(t)
      PROVE  OneTaskEach'
  BY <1>9, TaskStaysAlone
<1>10. CASE Crash
  <2>1. \A x \in Interactions \X Attempts : task'[x].pc = "none"
    BY <1>10 DEF Crash, NoTask
  <2>2. \A k \in Retries : retrying'[k].pc \in {"idle", "done"}
    BY <1>1, <1>10 DEF Crash, NoRetry
  <2> QED
    BY <2>1, <2>2 DEF OneTaskEach, BeforeResult
<1>11. \/ NewPackage \/ (\E c \in Clients : BeginQuestion(c)) \/ BeginReport
       \/ SelectPackage \/ PinReport \/ ReportOnThread \/ HandlerFails \/ UNCHANGED vars
       => UNCHANGED <<interaction, task, retrying>>
  BY DEF NewPackage, BeginQuestion, BeginReport, SelectPackage, PinReport, ReportOnThread,
     HandlerFails, vars, storeVars
<1> QED
  BY <1>2, <1>3, <1>4, <1>5, <1>6, <1>7, <1>8, <1>9, <1>10, <1>11
     DEF Next, HandlerStep, RetryStep, OfTask

(* A task that answers, or falls back, has said so.                        *)
LEMMA SaidNow ==
  ASSUME Core, NEW t \in Interactions \X Attempts
  PROVE  /\ Answer(t) => /\ task[t].pc \in BeforeResult /\ task'[t].pc = "final"
                         /\ task'[t].outcome # "none"
                         /\ Said(t[1], KindOf(task[t].outcome))'
         /\ FallBack(t) => /\ task[t].pc = "failed" /\ task'[t].pc = "fallen"
                           /\ Said(t[1], "fallback")'
<1>1. /\ task \in [Interactions \X Attempts -> Tasks] /\ messages \in Seq(Message)
      /\ t[1] \in Interactions
  BY TypeFacts DEF Core
<1>2. task[t].pc # "none" => pinned[t[1]] \in Versions
  BY <1>1, TypeFacts, VersionFacts DEF Core, RunsArePinned
<1>3. ASSUME NEW kind \in {"answer", "fallback"}, pinned[t[1]] \in Versions,
             messages' = Filled(t[1], kind, pinned[t[1]])
      PROVE  Said(t[1], kind)'
  <2> DEFINE message == AnswerOf(t[1], kind, pinned[t[1]])
  <2>1. PICK new : new = messages'
    OBVIOUS
  <2>2. \E n \in DOMAIN new : new[n] = message
    BY <1>1, <1>3, <2>1, FilledFacts
  <2>3. message.of = t[1] /\ message.kind = kind
    BY DEF AnswerOf
  <2> HIDE DEF message
  <2> QED
    BY <2>1, <2>2, <2>3 DEF Said
<1>4. CASE Answer(t)
  <2>1. PICK outcome \in Outcomes(t) :
          /\ messages' = Filled(t[1], KindOf(outcome), pinned[t[1]])
          /\ task' = [task EXCEPT ![t] = [pc |-> "final", outcome |-> outcome]]
    BY <1>4 DEF Answer
  <2>2. task[t].pc \in {"progress", "run"} /\ task'[t].pc = "final" /\ task'[t].outcome = outcome
    BY <1>1, <1>4, <2>1 DEF Answer
  <2>3. outcome # "none" /\ KindOf(outcome) \in {"answer", "fallback"}
    BY <2>1 DEF Outcomes, KindOf
  <2>4. Said(t[1], KindOf(outcome))'
    BY <1>2, <1>3, <2>1, <2>2, <2>3
  <2>5. ~FallBack(t)
    BY <1>1, <2>2 DEF FallBack
  <2> QED
    BY <2>2, <2>3, <2>4, <2>5 DEF Said, BeforeResult
<1>5. CASE FallBack(t)
  <2>1. task[t].pc = "failed" /\ task'[t].pc = "fallen"
    BY <1>1, <1>5 DEF FallBack, Tasks
  <2>2. messages' = Filled(t[1], "fallback", pinned[t[1]])
    BY <1>2, <1>5, <2>1, VersionFacts DEF FallBack
  <2>3. ~Answer(t)
    BY <2>1 DEF Answer
  <2> QED
    BY <1>2, <1>3, <2>1, <2>2, <2>3
<1> QED
  BY <1>4, <1>5

(* What is said of an interaction stays, unless a task of its own says     *)
(* something else.                                                         *)
LEMMA SaidStays ==
  ASSUME Core, [Next]_vars, NEW i \in Interactions, NEW kind \in {"answer", "fallback"},
         Said(i, kind),
         \A t \in Interactions \X Attempts : Answer(t) \/ FallBack(t) => t[1] # i
  PROVE  Said(i, kind)'
<1>1. PICK n \in DOMAIN messages : messages[n].of = i /\ messages[n].kind = kind
  BY DEF Said
<1>2. messages \in Seq(Message)
  BY TypeFacts DEF Core
<1>3. CASE messages' = messages
  BY <1>1, <1>3 DEF Said
<1>4. CASE Accept
  <2>1. PICK c, from, to, q, new :
          /\ c = handler.of /\ from = handler.seen /\ to = handler.version
          /\ q = Question(c, to) /\ new = messages'
    OBVIOUS
  <2>2. /\ c \in Clients /\ to \in Versions /\ from \in 0..MaxVersions
        /\ new = Append(Noticed(from, to), q)
    BY <1>4, <2>1, AcceptedFacts
  <2>3. /\ DOMAIN messages = 1..Len(messages) /\ DOMAIN new = 1..Len(new)
        /\ Len(messages) \in Nat /\ Len(new) \in Nat /\ Len(messages) < Len(new)
        /\ \A k \in DOMAIN messages : new[k] = messages[k]
    BY <1>2, <2>1, <2>2, AskedFacts
  <2>4. n \in DOMAIN new /\ new[n] = messages[n]
    BY <1>1, <2>3
  <2> QED
    BY <1>1, <2>1, <2>4 DEF Said
<1>5. ASSUME NEW j \in Interactions, NEW other \in {"answer", "fallback"}, j # i,
             pinned[j] \in Versions, messages' = Filled(j, other, pinned[j])
      PROVE  Said(i, kind)'
  <2>1. PICK v, new : v = pinned[j] /\ new = messages'
    OBVIOUS
  <2>2. v \in Versions /\ new = Filled(j, other, v)
    BY <1>5, <2>1
  <2>3. /\ DOMAIN messages = 1..Len(messages) /\ DOMAIN new = 1..Len(new)
        /\ Len(messages) \in Nat /\ Len(new) \in Nat /\ Len(messages) <= Len(new)
        /\ \A k \in DOMAIN messages :
             new[k] = IF Answers(messages[k], j) THEN AnswerOf(j, other, v) ELSE messages[k]
    BY <1>2, <2>2, FilledFacts
  <2>4. n \in DOMAIN new /\ new[n] = messages[n]
    BY <1>1, <1>5, <2>3 DEF Answers
  <2> QED
    BY <1>1, <2>1, <2>4 DEF Said
<1> QED
  BY <1>3, <1>4, <1>5, MessageSteps

(* Where a finished task, and a settled interaction, come from, and what   *)
(* becomes of a task that is about to write a failure.                     *)
Origins ==
  /\ \A t \in Interactions \X Attempts :
       /\ task'[t].pc \in {"final", "fallen"} => task'[t] = task[t] \/ Answer(t) \/ FallBack(t)
       /\ task[t].pc = "fallen" =>
            task'[t].pc = "fallen" \/ WriteFailure(t) \/ t[1] \in abandoned'
  /\ \A i \in Interactions : interaction'[i].status \in {"VALIDATED", "FALLBACK"} =>
       \/ interaction'[i] = interaction[i]
       \/ \E t \in Interactions \X Attempts : t[1] = i /\ (WriteResult(t) \/ WriteFailure(t))
  /\ abandoned \subseteq abandoned'

LEMMA OriginsOfTask ==
  ASSUME Core, NEW x \in Interactions \X Attempts, OfTask(x)
  PROVE  Origins
<1>1. interaction \in [Interactions -> Results] /\ task \in [Interactions \X Attempts -> Tasks]
  BY TypeFacts DEF Core
<1>2. /\ \A i \in Interactions \ {x[1]} : interaction'[i] = interaction[i]
      /\ \A t \in (Interactions \X Attempts) \ {x} : task'[t] = task[t]
      /\ x[1] \in Interactions
  BY TaskStepFacts
<1>3. \/ Answer(x) \/ FallBack(x)
      \/ task'[x].pc \notin {"final", "fallen"}
  BY <1>1 DEF OfTask, TaskStep, Context, Progress, WriteResult, Summarise, WriteFailure, TaskFails,
              FallBackFails, NoTask, Tasks
<1>4. task[x].pc = "fallen" => WriteFailure(x) \/ x[1] \in abandoned'
  BY DEF OfTask, TaskStep, Context, Progress, Answer, WriteResult, Summarise, FallBack, TaskFails,
         FallBackFails, Working
<1>5. \/ WriteResult(x) \/ WriteFailure(x)
      \/ interaction' = interaction \/ interaction'[x[1]].status = "IN_PROGRESS"
  BY <1>1, <1>2 DEF OfTask, TaskStep, Context, Progress, Answer, Summarise, FallBack, TaskFails,
                    FallBackFails, storeVars
<1>6. abandoned \subseteq abandoned'
  BY DEF OfTask, TaskStep, Context, Progress, Answer, WriteResult, Summarise, FallBack,
         WriteFailure, TaskFails, FallBackFails, bounds
<1>7. ASSUME NEW t \in Interactions \X Attempts
      PROVE  /\ task'[t].pc \in {"final", "fallen"} =>
                  task'[t] = task[t] \/ Answer(t) \/ FallBack(t)
             /\ task[t].pc = "fallen" =>
                  task'[t].pc = "fallen" \/ WriteFailure(t) \/ t[1] \in abandoned'
  BY <1>2, <1>3, <1>4
<1>8. ASSUME NEW i \in Interactions, interaction'[i].status \in {"VALIDATED", "FALLBACK"}
      PROVE  \/ interaction'[i] = interaction[i]
             \/ i = x[1] /\ (WriteResult(x) \/ WriteFailure(x))
  BY <1>2, <1>5, <1>8
<1> QED
  BY <1>6, <1>7, <1>8 DEF Origins

LEMMA OriginsOfCrash == Core /\ Crash => Origins
<1> SUFFICES ASSUME Core, Crash PROVE Origins
  OBVIOUS
<1>1. \A t \in Interactions \X Attempts : task'[t].pc = "none"
  BY DEF Crash, NoTask
<1>2. /\ interaction' = interaction
      /\ abandoned' = abandoned \cup
           {i \in Interactions : \E a \in Attempts : task[<<i, a>>].pc \notin {"none", "summary"}}
  BY DEF Crash, storeVars
<1>3. ASSUME NEW t \in Interactions \X Attempts, task[t].pc = "fallen"
      PROVE  t[1] \in abandoned'
  <2>1. t = <<t[1], t[2]>> /\ t[1] \in Interactions /\ t[2] \in Attempts
    OBVIOUS
  <2> QED
    BY <1>2, <1>3, <2>1
<1> QED
  BY <1>1, <1>2, <1>3 DEF Origins

LEMMA ResultOrigins == Core /\ OneTaskEach /\ [Next]_vars => Origins
<1> SUFFICES ASSUME Core, OneTaskEach, [Next]_vars PROVE Origins
  OBVIOUS
<1>1. interaction \in [Interactions -> Results] /\ task \in [Interactions \X Attempts -> Tasks]
  BY TypeFacts DEF Core
<1>2. CASE UNCHANGED <<interaction, task, abandoned>>
  BY <1>2 DEF Origins
<1>3. CASE Accept \/ QueueReport \/ \E k \in Retries : RetryQueues(k)
  <2>1. /\ task' = task /\ abandoned' = abandoned
        /\ \/ interaction' = interaction
           \/ \E i : interaction' = [interaction EXCEPT ![i] = Queued]
    BY <1>3 DEF Accept, QueueReport, RetryQueues, bounds
  <2>2. \A i \in Interactions : interaction'[i] = interaction[i] \/ interaction'[i] = Queued
    BY <1>1, <2>1
  <2> QED
    BY <2>1, <2>2, ResultTypes DEF Origins
<1>4. ASSUME NEW i \in Interactions, NEW a \in Attempts, \A b \in Attempts : task[<<i, b>>].pc = "none",
             task' = [task EXCEPT ![<<i, a>>].pc = "context"],
             UNCHANGED <<interaction, abandoned>>
      PROVE  Origins
  <2> DEFINE x == <<i, a>>
  <2>1. x \in Interactions \X Attempts /\ task[x].pc = "none"
    BY <1>4
  <2>2. task'[x].pc = "context" /\ \A t \in (Interactions \X Attempts) \ {x} : task'[t] = task[t]
    BY <1>1, <1>4, <2>1, TaskMoves
  <2> HIDE DEF x
  <2> QED
    BY <1>4, <2>1, <2>2 DEF Origins
<1>5. CASE Spawn
  <2>1. /\ Handled \in Interactions /\ Unused(Handled) /\ 0 \in Attempts
    BY <1>5, VersionFacts, BoundAssumption
       DEF Spawn, Core, HandlerKnows, Handled, TypeOK, Attempts
  <2>2. /\ task' = [task EXCEPT ![<<Handled, 0>>].pc = "context"]
        /\ UNCHANGED <<interaction, abandoned>>
    BY <1>5 DEF Spawn, Handled, storeVars, bounds
  <2>3. PICK i : i = Handled
    OBVIOUS
  <2> QED
    BY <1>4, <2>1, <2>2, <2>3 DEF Unused
<1>6. ASSUME NEW k \in Retries, RetrySpawns(k)
      PROVE  Origins
  <2>1. PICK i : i = retrying[k].of
    OBVIOUS
  <2>2. i \in Interactions /\ k \in Attempts /\ \A b \in Attempts : task[<<i, b>>].pc = "none"
    BY <1>6, <2>1 DEF RetrySpawns, OneTaskEach, Core, TypeOK, Attempts, Retries
  <2>3. /\ task' = [task EXCEPT ![<<i, k>>].pc = "context"]
        /\ UNCHANGED <<interaction, abandoned>>
    BY <1>6, <2>1 DEF RetrySpawns, bounds
  <2> QED
    BY <1>4, <2>2, <2>3
<1>7. ASSUME NEW x \in Interactions \X Attempts, OfTask(x)
      PROVE  Origins
  BY <1>7, OriginsOfTask
<1>8. CASE Crash
  BY <1>8, OriginsOfCrash
<1>9. \/ NewPackage \/ (\E c \in Clients : BeginQuestion(c)) \/ BeginReport
      \/ SelectPackage \/ PinReport \/ ReportOnThread \/ HandlerFails
      \/ (\E k \in Retries, i \in Interactions : BeginRetry(k, i)) \/ UNCHANGED vars
      => UNCHANGED <<interaction, task, abandoned>>
  BY DEF NewPackage, BeginQuestion, BeginReport, SelectPackage, PinReport, ReportOnThread,
     HandlerFails, BeginRetry, vars, storeVars, bounds
<1> QED
  BY <1>2, <1>3, <1>5, <1>6, <1>7, <1>8, <1>9 DEF Next, HandlerStep, RetryStep, OfTask

LEMMA ResultFollowsStep == Core /\ OneTaskEach /\ ResultFollows /\ [Next]_vars => ResultFollows'
<1> SUFFICES ASSUME Core, OneTaskEach, ResultFollows, [Next]_vars PROVE ResultFollows'
  OBVIOUS
<1>1. /\ interaction \in [Interactions -> Results] /\ task \in [Interactions \X Attempts -> Tasks]
  BY TypeFacts DEF Core
<1>2. Origins
  BY ResultOrigins
<1>3. ASSUME NEW t \in Interactions \X Attempts, Answer(t) \/ FallBack(t)
      PROVE  task[t].pc # "none" /\ t = <<t[1], t[2]>> /\ t[1] \in Interactions /\ t[2] \in Attempts
  BY <1>3 DEF Answer, FallBack
<1>4. ASSUME NEW t \in Interactions \X Attempts, task'[t].pc \in {"final", "fallen"}
      PROVE  /\ task'[t].pc = "final" =>
                  task'[t].outcome # "none" /\ Said(t[1], KindOf(task[t].outcome))'
             /\ task'[t].pc = "fallen" => Said(t[1], "fallback")'
  <2>1. CASE Answer(t) \/ FallBack(t)
    BY <2>1, SaidNow
  <2>2. CASE ~(Answer(t) \/ FallBack(t))
    <3>1. task'[t] = task[t] /\ t[1] \in Interactions /\ t[2] \in Attempts /\ t = <<t[1], t[2]>>
      BY <1>2, <1>4, <2>2 DEF Origins
    <3>2. ASSUME NEW u \in Interactions \X Attempts, Answer(u) \/ FallBack(u), u[1] = t[1]
          PROVE  FALSE
      <4>1. task[u].pc # "none" /\ u = <<t[1], u[2]>> /\ u[2] \in Attempts
        BY <1>3, <3>2
      <4>2. u[2] = t[2]
        BY <1>4, <3>1, <4>1 DEF OneTaskEach
      <4> QED
        BY <2>2, <3>1, <3>2, <4>1, <4>2
    <3>3. \A kind \in {"answer", "fallback"} : Said(t[1], kind) => Said(t[1], kind)'
      BY <3>1, <3>2, SaidStays
    <3>4. KindOf(task[t].outcome) \in {"answer", "fallback"}
      BY DEF KindOf
    <3> QED
      BY <3>1, <3>3, <3>4 DEF ResultFollows
  <2> QED
    BY <2>1, <2>2
<1>5. ASSUME NEW i \in Interactions, NEW t \in Interactions \X Attempts, t[1] = i,
             WriteResult(t) \/ WriteFailure(t)
      PROVE  /\ interaction'[i].status = "VALIDATED" => Said(i, "answer")'
             /\ interaction'[i].status = "FALLBACK" => Said(i, "fallback")'
  <2>1. messages' = messages
    BY <1>5 DEF WriteResult, WriteFailure, threadVars
  <2>2. CASE WriteResult(t)
    <3>1. Said(i, KindOf(task[t].outcome))
      BY <1>5, <2>2 DEF WriteResult, ResultFollows
    <3>2. interaction'[i].status = IF task[t].outcome = "answer" THEN "VALIDATED" ELSE "FALLBACK"
      BY <1>1, <1>5, <2>2 DEF WriteResult
    <3> QED
      BY <2>1, <3>1, <3>2 DEF KindOf, Said
  <2>3. CASE WriteFailure(t)
    <3>1. Said(i, "fallback") /\ interaction'[i].status = "FALLBACK"
      BY <1>1, <1>5, <2>3 DEF WriteFailure, ResultFollows
    <3> QED
      BY <2>1, <3>1 DEF Said
  <2> QED
    BY <1>5, <2>2, <2>3
<1>6. ASSUME NEW i \in Interactions \ abandoned', ~Falling(i)',
             interaction'[i].status \in {"VALIDATED", "FALLBACK"}
      PROVE  /\ interaction'[i].status = "VALIDATED" => Said(i, "answer")'
             /\ interaction'[i].status = "FALLBACK" => Said(i, "fallback")'
  <2>1. CASE \E t \in Interactions \X Attempts : t[1] = i /\ (WriteResult(t) \/ WriteFailure(t))
    BY <1>5, <2>1
  <2>2. CASE ~\E t \in Interactions \X Attempts : t[1] = i /\ (WriteResult(t) \/ WriteFailure(t))
    <3>1. interaction'[i] = interaction[i] /\ i \notin abandoned
      BY <1>2, <1>6, <2>2 DEF Origins
    <3>2. ASSUME NEW a \in Attempts, task[<<i, a>>].pc = "fallen"
          PROVE  FALSE
      <4> DEFINE t == <<i, a>>
      <4>1. t \in Interactions \X Attempts /\ t[1] = i /\ task[t].pc = "fallen"
        BY <3>2
      <4>2. task'[t].pc # "fallen"
        BY <1>6 DEF Falling
      <4> HIDE DEF t
      <4> QED
        BY <1>2, <1>6, <2>2, <4>1, <4>2 DEF Origins
    <3>3. ~Falling(i)
      BY <3>2 DEF Falling
    <3>4. ASSUME NEW t \in Interactions \X Attempts, Answer(t) \/ FallBack(t), t[1] = i
          PROVE  FALSE
      <4>1. t = <<i, t[2]>> /\ t[2] \in Attempts
        BY <1>3, <3>4
      <4>2. CASE Answer(t)
        <5>1. task[t].pc \in BeforeResult
          BY <4>2, SaidNow
        <5>2. interaction[i].status \in {"QUEUED", "IN_PROGRESS"}
          BY <4>1, <5>1 DEF OneTaskEach
        <5> QED
          BY <1>6, <3>1, <5>2
      <4>3. CASE FallBack(t)
        <5>1. task'[t].pc = "fallen"
          BY <4>3, SaidNow
        <5> QED
          BY <1>6, <4>1, <5>1 DEF Falling
      <4> QED
        BY <3>4, <4>2, <4>3
    <3>5. \A kind \in {"answer", "fallback"} : Said(i, kind) => Said(i, kind)'
      BY <3>4, SaidStays
    <3> QED
      BY <3>1, <3>3, <3>5 DEF ResultFollows
  <2> QED
    BY <2>1, <2>2
<1> QED
  BY <1>4, <1>6 DEF ResultFollows

(* ResultMatchesMessage: where a retry is asked for once the runs and      *)
(* retries before it have ended, an interaction that has ended agrees with *)
(* its answer, unless the task that was about to write a failure could not *)
(* (investigator_service.py:796-840).                                      *)
THEOREM ResultsAgree == Spec => []ResultMatchesMessage
<1>1. CASE SerialRetries
  <2>1. Init => OneTaskEach
    BY DEF Init, OneTaskEach, NoTask, NoRetry, BeforeResult
  <2>2. Init => ResultFollows
    BY DEF Init, ResultFollows, NoTask, Absent
  <2>3. ResultFollows => ResultMatchesMessage
    <3>1. \A i \in Interactions : Falling(i) => HasTask(i)
      BY DEF Falling, HasTask
    <3> QED
      BY <3>1 DEF ResultFollows, ResultMatchesMessage, Said, Settled
  <2> QED
    BY <1>1, <2>1, <2>2, <2>3, OneTaskEachStep, ResultFollowsStep, CoreInvariant, PTL DEF Spec
<1>2. CASE ~SerialRetries
  <2>1. ResultMatchesMessage
    BY <1>2 DEF ResultMatchesMessage
  <2> QED
    BY <2>1, PTL
<1> QED
  BY <1>1, <1>2
=============================================================================
