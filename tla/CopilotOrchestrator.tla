------------------------- MODULE CopilotOrchestrator -------------------------
(***************************************************************************)
(* The runs behind the Copilot's answers: calls of the model provider with *)
(* one retry, one round of tools, validation with one repair, the cache of *)
(* initial reports, and the circuit breaker all runs share.                *)
(*                                                                         *)
(* Runs interleave where they await the provider, a tool or the progress   *)
(* callback.  CopilotThread takes a run for one step with an outcome; this *)
(* module says which outcomes there are.  Initial runs are on the same     *)
(* evidence package, so they share one cache entry.                        *)
(***************************************************************************)
EXTENDS Integers, Sequences, FiniteSets

CONSTANTS
  Initial,      \* Runs that make the initial report.
  FollowUp,     \* Runs that answer a question.
  Threshold,    \* circuit_failure_threshold.
  ResetTime,    \* circuit_reset_seconds.
  MaxTime       \* Bound: the clock.

Runs == Initial \cup FollowUp

Time == 0..MaxTime

ASSUME RunAssumption ==
  /\ IsFiniteSet(Initial)
  /\ IsFiniteSet(FollowUp)
  /\ Initial \cap FollowUp = {}

ASSUME BreakerAssumption ==
  /\ Threshold \in Nat \ {0}
  /\ ResetTime \in Nat \ {0}
  /\ MaxTime \in Nat

VARIABLES
  now,
  failures,   \* The breaker's count of failures.
  opened_at,  \* When the breaker opened, or NotOpen.
  cached,     \* What the cached initial report came with, or NoReport.
  run,        \* The state of each run.
  failed_at   \* History: when runs failed, since the last success.

vars == <<now, failures, opened_at, cached, run, failed_at>>

NotOpen == -1

(* What a call of a provider comes to: its deadline, its network errors,   *)
(* some HTTP statuses and a report cut short may be tried again; other     *)
(* statuses, a disabled provider and malformed answers may not.            *)
Temporary == {"provider_timeout", "provider_http_failure", "provider_incomplete"}

Permanent == {"provider_http_failure", "provider_disabled", "schema_validation_failed",
              "policy_validation_failed"}

Rejected == {"schema_validation_failed", "citation_validation_failed", "policy_validation_failed"}

(* _fallback: the reasons for which a manual retry is offered. *)
Fallback(reason) ==
  IF reason \in Temporary \cup {"unexpected_internal_failure"} THEN "retryable" ELSE "fallback"

(* tries: calls of this round before the current one; counted: attempts of *)
(* the rounds that are over; calls: all calls, a history.  A run that has  *)
(* ended keeps how the attempts its audit reports compare with the calls.  *)
NotRun ==
  [pc |-> "new", tries |-> 0, counted |-> 0, calls |-> 0, audit |-> "none", result |-> "none"]

Ended(calls, attempts, result) ==
  [pc |-> "done", tries |-> 0, counted |-> 0, calls |-> 0, result |-> result,
   audit |-> IF attempts = calls THEN "exact" ELSE IF attempts < calls THEN "short" ELSE "excess"]

(* A cached report keeps the audit of the run that made it: the attempts   *)
(* it reports, and the calls of that run, a history.                       *)
NoReport == [attempts |-> 0, calls |-> 0]

Init ==
  /\ now = 0
  /\ failures = 0
  /\ opened_at = NotOpen
  /\ cached = NoReport
  /\ run = [r \in Runs |-> NotRun]
  /\ failed_at = <<>>

Tick ==
  /\ now < MaxTime
  /\ now' = now + 1
  /\ UNCHANGED <<failures, opened_at, cached, run, failed_at>>

-----------------------------------------------------------------------------
(* CircuitBreaker. *)

(* Bug for a mutant: the breaker closes when a call is refused. *)
PermitsSoon(permitted) ==
  /\ permitted = (opened_at = NotOpen)
  /\ failures' = 0
  /\ opened_at' = NotOpen

(* Bug for a mutant: the breaker is open for longer than its time. *)
PermitsLate(permitted) ==
  LET over == opened_at # NotOpen /\ now - opened_at > ResetTime
  IN /\ permitted = (opened_at = NotOpen \/ over)
     /\ failures' = IF over THEN 0 ELSE failures
     /\ opened_at' = IF over THEN NotOpen ELSE opened_at

(* permit: after its time, the breaker forgets and lets every run through. *)
Permits(permitted) ==
  LET over == opened_at # NotOpen /\ now - opened_at >= ResetTime
  IN /\ permitted = (opened_at = NotOpen \/ over)
     /\ failures' = IF over THEN 0 ELSE failures
     /\ opened_at' = IF over THEN NotOpen ELSE opened_at

CountsSuccess ==
  /\ failures' = 0
  /\ opened_at' = NotOpen
  /\ failed_at' = <<>>

CountsFailure ==
  /\ failures' = failures + 1
  /\ opened_at' = IF failures + 1 >= Threshold THEN now ELSE opened_at
  /\ failed_at' = Append(failed_at, now)

Uncounted == UNCHANGED <<failures, opened_at, failed_at>>

-----------------------------------------------------------------------------
(* run. *)

(* The run ends; an answer reports all attempts, a fallback may miss the   *)
(* ones of an earlier round or of the repair.                              *)
Ends(r, result, attempts) ==
  run' = [run EXCEPT ![r] = Ended(run[r].calls, attempts, result)]

(* An exception anywhere is one failure of the breaker, and a fallback. *)
FailsWith(r, reason, attempts) ==
  /\ CountsFailure
  /\ Ends(r, Fallback(reason), attempts)
  /\ UNCHANGED <<now, cached>>

(* The cached report is returned without a call, as it is, with the audit  *)
(* of the run that made it; no call is made on an invalid package, or      *)
(* while the breaker is open.                                              *)
Begin(r) ==
  /\ run[r].pc = "new"
  /\ \/ /\ r \in Initial /\ cached # NoReport
        /\ run' = [run EXCEPT ![r] = Ended(cached.calls, cached.attempts, "cached")]
        /\ Uncounted
     \/ /\ r \in FollowUp \/ cached = NoReport
        /\ Ends(r, Fallback("evidence_unavailable"), 0)
        /\ Uncounted
     \/ /\ r \in FollowUp \/ cached = NoReport
        /\ \E permitted \in BOOLEAN :
             /\ Permits(permitted)
             /\ IF permitted THEN run' = [run EXCEPT ![r].pc = "first"]
                ELSE Ends(r, "circuit_open", 0)
        /\ UNCHANGED failed_at
  /\ UNCHANGED <<now, cached>>

Called(r) == [run[r] EXCEPT !.calls = @ + 1, !.tries = @ + 1]

(* _call_with_retry: the first call of a round failed temporarily. *)
CallsAgain(r) ==
  /\ run[r].pc \in {"first", "second"}
  /\ run[r].tries = 0
  /\ run' = [run EXCEPT ![r] = Called(r)]
  /\ Uncounted
  /\ UNCHANGED <<now, cached>>

(* Bug for a mutant: the attempts of the first round are forgotten. *)
AnswersAlone(r) ==
  LET Asked(pc) == [Called(r) EXCEPT !.pc = pc, !.tries = 0, !.counted = run[r].tries + 1]
  IN /\ run[r].pc \in {"first", "second"}
     /\ \/ run' = [run EXCEPT ![r] = Asked("validate")]
        \/ /\ run[r].pc = "first" /\ r \in FollowUp
           /\ run' = [run EXCEPT ![r] = Asked("tools")]
     /\ Uncounted
     /\ UNCHANGED <<now, cached>>

(* The provider answers, to be validated or asking for tools, which a      *)
(* question may do in its first round.                                     *)
Answers(r) ==
  LET attempts == run[r].counted + run[r].tries + 1
      Asked(pc) == [Called(r) EXCEPT !.pc = pc, !.tries = 0, !.counted = attempts]
  IN /\ run[r].pc \in {"first", "second"}
     /\ \/ run' = [run EXCEPT ![r] = Asked("validate")]
        \/ /\ run[r].pc = "first" /\ r \in FollowUp
           /\ run' = [run EXCEPT ![r] = Asked("tools")]
     /\ Uncounted
     /\ UNCHANGED <<now, cached>>

(* A round fails: at once, or after its retry, and reports the attempts of *)
(* this round alone if they are more.  A response beyond the cost budget   *)
(* fails the run too, where the second round is not reported, and so does  *)
(* anything else the provider raises.                                      *)
RoundFails(r) ==
  LET tries == run[r].tries + 1
      counted == run[r].counted
      Failing(reason, attempts) ==
        run' = [run EXCEPT ![r] = Ended(run[r].calls + 1, attempts, Fallback(reason))]
  IN /\ run[r].pc \in {"first", "second"}
     /\ CountsFailure
     /\ \/ \E reason \in Permanent \cup (IF tries = 2 THEN Temporary ELSE {}) :
             Failing(reason, IF counted < tries THEN tries ELSE counted)
        \/ Failing("provider_http_failure", IF run[r].pc = "first" THEN tries ELSE counted)
        \/ Failing("unexpected_internal_failure", counted)
     /\ UNCHANGED <<now, cached>>

(* execute_many: all the tools give their results, or one refuses. *)
Tools(r) ==
  /\ run[r].pc = "tools"
  /\ \/ /\ run' = [run EXCEPT ![r].pc = "second"]
        /\ Uncounted
        /\ UNCHANGED <<now, cached>>
     \/ FailsWith(r, "unexpected_internal_failure", run[r].counted)

Succeeds(r, x) ==
  /\ CountsSuccess
  /\ cached' = IF r \in Initial THEN [attempts |-> x.counted, calls |-> x.calls] ELSE cached
  /\ UNCHANGED now

(* A valid answer is a success, and an initial report is cached; one more  *)
(* progress message follows.  An invalid answer is repaired once.          *)
Validates(r) ==
  /\ run[r].pc = "validate"
  /\ \/ /\ run' = [run EXCEPT ![r].pc = "present"]
        /\ Succeeds(r, run[r])
     \/ /\ run' = [run EXCEPT ![r].pc = "repair"]
        /\ Uncounted
        /\ UNCHANGED <<now, cached>>

(* Bug for a mutant: a repair that is invalid is repaired again. *)
RepairsAgain(r) ==
  /\ run[r].pc = "repair"
  /\ run' = [run EXCEPT ![r].pc = "validate"]
  /\ Uncounted
  /\ UNCHANGED <<now, cached>>

(* The repair is called once, without a retry.  Whatever is raised by the  *)
(* call, the cost budget or the validator ends the run.                    *)
Repairs(r) ==
  LET repaired == [run[r] EXCEPT !.pc = "present", !.calls = @ + 1, !.counted = @ + 1]
  IN /\ run[r].pc = "repair"
     /\ \/ /\ run' = [run EXCEPT ![r] = repaired]
           /\ Succeeds(r, repaired)
        \/ /\ CountsFailure
           /\ \E reason \in Temporary \cup Permanent \cup Rejected \cup {"unexpected_internal_failure"},
                 attempts \in {run[r].counted, run[r].counted + 1} :
                run' = [run EXCEPT ![r] = Ended(run[r].calls + 1, attempts, Fallback(reason))]
           /\ UNCHANGED <<now, cached>>

Presents(r) ==
  /\ run[r].pc = "present"
  /\ Ends(r, "answer", run[r].counted)
  /\ Uncounted
  /\ UNCHANGED <<now, cached>>

(* The progress callback raises: also after the success. *)
ProgressFails(r) ==
  /\ run[r].pc \notin {"new", "done"}
  /\ FailsWith(r, "unexpected_internal_failure", run[r].counted)

RunStep(r) ==
  \/ Begin(r)
  \/ CallsAgain(r)
  \/ Answers(r)
  \/ RoundFails(r)
  \/ Tools(r)
  \/ Validates(r)
  \/ Repairs(r)
  \/ Presents(r)
  \/ ProgressFails(r)

Next == Tick \/ \E r \in Runs : RunStep(r)

Spec == Init /\ [][Next]_vars

(* A run that has begun is carried on: each call has a deadline. *)
FairSpec == Spec /\ \A r \in Runs : WF_vars(run[r].pc # "new" /\ RunStep(r))

-----------------------------------------------------------------------------
PCs == {"new", "first", "second", "tools", "validate", "repair", "present", "done"}

(* Every variable has its type, and the provider is called at most five    *)
(* times in a run: two rounds of two calls, and one repair                 *)
(* (docs/architecture.md:58, orchestrator.py:314-348).                     *)
TypeOK ==
  /\ now \in Time
  /\ failures \in Nat
  /\ opened_at \in Time \cup {NotOpen}
  /\ cached \in [attempts : 0..5, calls : 0..5]
  /\ run \in [Runs -> [pc : PCs, tries : 0..1, counted : 0..5, calls : 0..5,
                      audit : {"none", "exact", "short", "excess"},
                      result : {"none", "answer", "cached", "fallback", "retryable", "circuit_open"}]]
  /\ failed_at \in Seq(Time)

Recent(n) == n \in DOMAIN failed_at /\ failed_at[n] > now - ResetTime

Admitted(r) == run[r].pc = "new" /\ run'[r].pc = "first"

Refused(r) == run[r].pc = "new" /\ run'[r].result = "circuit_open"

(* No run is let through to the provider where, since the last success,    *)
(* Threshold runs failed within the last ResetTime, whenever those runs    *)
(* began and however late they ended (orchestrator.py:56-72).              *)
BreakerHolds ==
  [][\A r \in Runs : Admitted(r) => ~Recent(Len(failed_at) - Threshold + 1)]_vars

(* A run is turned away only where Threshold runs failed since the last    *)
(* success, the last of them within the last ResetTime: what a late        *)
(* success has closed stays closed (orchestrator.py:64-67).                *)
RefusalsAreJustified ==
  [][\A r \in Runs : Refused(r) => Len(failed_at) >= Threshold /\ Recent(Len(failed_at))]_vars

(* The audit of an answer counts every call of the provider, over both     *)
(* rounds and the repair, by the run that made it: a cached report, which  *)
(* no call was made for again, comes with the audit of that earlier run.   *)
(* The audit of a fallback never counts too many                           *)
(* (orchestrator.py:106-107, 150, 167, 189, 430-464).                      *)
AuditCountsCalls ==
  \A r \in Runs :
    /\ run[r].audit # "excess"
    /\ run[r].result \in {"answer", "cached"} => run[r].audit = "exact"

(* A run that has begun ends, with an answer or a fallback                 *)
(* (docs/architecture.md:58-59).                                           *)
RunsEnd == <>[](\A r \in Runs : run[r].pc \in {"new", "done"})
=============================================================================
