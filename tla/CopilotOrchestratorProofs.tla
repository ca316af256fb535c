---------------------- MODULE CopilotOrchestratorProofs ----------------------
(***************************************************************************)
(* The circuit breaker of CopilotOrchestrator, for any number of runs, any *)
(* threshold and any reset time.                                           *)
(*                                                                         *)
(* The breaker keeps a count and one time, the properties speak of when    *)
(* runs failed.  The invariant relates them: while the breaker is closed,  *)
(* every failure it no longer counts is older than the reset time; while   *)
(* it is open, it opened at the last failure.                              *)
(***************************************************************************)
EXTENDS CopilotOrchestrator, TLAPS

BreakerType ==
  /\ now \in Time
  /\ failures \in Nat
  /\ opened_at \in Time \cup {NotOpen}
  /\ failed_at \in Seq(Time)

InOrder ==
  /\ \A n \in 1..Len(failed_at) : failed_at[n] <= now
  /\ \A m, n \in 1..Len(failed_at) : m <= n => failed_at[m] <= failed_at[n]

Closed ==
  opened_at = NotOpen =>
    /\ failures < Threshold
    /\ \A n \in 1..Len(failed_at) : n <= Len(failed_at) - failures => failed_at[n] + ResetTime <= now

Open ==
  opened_at # NotOpen =>
    /\ failures >= Threshold
    /\ opened_at = failed_at[Len(failed_at)]

BreakerInv ==
  /\ BreakerType
  /\ failures <= Len(failed_at)
  /\ InOrder
  /\ Closed
  /\ Open

BreakerStep ==
  \/ CountsSuccess
  \/ CountsFailure
  \/ Uncounted
  \/ \E permitted \in BOOLEAN : Permits(permitted) /\ UNCHANGED failed_at

(* What a step of a run does to the breaker. *)
LEMMA RunStepIsBreakerStep ==
  ASSUME NEW r \in Runs, RunStep(r)
  PROVE  BreakerStep /\ UNCHANGED now
<1>1. CASE Begin(r)
  BY <1>1 DEF Begin, BreakerStep, Uncounted
<1>2. CASE CallsAgain(r)
  BY <1>2 DEF CallsAgain, BreakerStep
<1>3. CASE Answers(r)
  BY <1>3 DEF Answers, BreakerStep
<1>4. CASE RoundFails(r)
  BY <1>4 DEF RoundFails, BreakerStep
<1>5. CASE Tools(r)
  BY <1>5 DEF Tools, FailsWith, BreakerStep
<1>6. CASE Validates(r)
  BY <1>6 DEF Validates, Succeeds, BreakerStep
<1>7. CASE Repairs(r)
  BY <1>7 DEF Repairs, Succeeds, BreakerStep
<1>8. CASE Presents(r)
  BY <1>8 DEF Presents, BreakerStep
<1>9. CASE ProgressFails(r)
  BY <1>9 DEF ProgressFails, FailsWith, BreakerStep
<1> QED
  BY <1>1, <1>2, <1>3, <1>4, <1>5, <1>6, <1>7, <1>8, <1>9 DEF RunStep

LEMMA BreakerInit ==
  Init => BreakerInv
BY BreakerAssumption DEF Init, BreakerInv, BreakerType, InOrder, Closed, Open, NotOpen, Time

(* A permit forgets the failures only after the reset time. *)
LEMMA PermitKeepsInv ==
  ASSUME BreakerInv, NEW permitted \in BOOLEAN, Permits(permitted), UNCHANGED <<now, failed_at>>
  PROVE  BreakerInv'
<1>1. CASE opened_at # NotOpen /\ now - opened_at >= ResetTime
  <2>1. failures' = 0 /\ opened_at' = NotOpen
    BY <1>1 DEF Permits
  <2>2. /\ Len(failed_at) \in 1..Len(failed_at)
        /\ opened_at = failed_at[Len(failed_at)]
    BY <1>1, BreakerAssumption DEF BreakerInv, BreakerType, Open
  <2>3. ASSUME NEW n \in 1..Len(failed_at)
        PROVE  failed_at[n] + ResetTime <= now
    <3>1. failed_at[n] <= failed_at[Len(failed_at)]
      BY <2>2 DEF BreakerInv, InOrder
    <3>2. /\ failed_at[n] \in Nat
          /\ opened_at \in Nat
          /\ now \in Nat
      BY <1>1, BreakerAssumption DEF BreakerInv, BreakerType, Time, NotOpen
    <3> QED
      BY <1>1, <2>2, <3>1, <3>2, BreakerAssumption
  <2> QED
    BY <2>1, <2>3, BreakerAssumption DEF BreakerInv, BreakerType, InOrder, Closed, Open, NotOpen
<1>2. CASE ~(opened_at # NotOpen /\ now - opened_at >= ResetTime)
  <2>1. UNCHANGED <<failures, opened_at>>
    BY <1>2 DEF Permits
  <2> QED
    BY <2>1 DEF BreakerInv, BreakerType, InOrder, Closed, Open
<1> QED
  BY <1>1, <1>2

LEMMA FailureKeepsInv ==
  ASSUME BreakerInv, CountsFailure, UNCHANGED now
  PROVE  BreakerInv'
<1> DEFINE n == Len(failed_at)
<1>1. /\ failed_at' \in Seq(Time)
      /\ Len(failed_at') = n + 1
      /\ \A m \in 1..n : failed_at'[m] = failed_at[m]
      /\ failed_at'[n + 1] = now
      /\ failures' = failures + 1
      /\ n \in Nat
      /\ now \in Nat /\ now' = now
  BY BreakerAssumption DEF BreakerInv, BreakerType, CountsFailure, Time
<1>2. BreakerType' /\ failures' <= Len(failed_at')
  BY <1>1 DEF BreakerInv, BreakerType, CountsFailure, NotOpen
<1>3. InOrder'
  <2>1. ASSUME NEW m \in 1..Len(failed_at')
        PROVE  failed_at'[m] <= now'
    BY <1>1, <2>1 DEF BreakerInv, InOrder
  <2>2. ASSUME NEW l \in 1..Len(failed_at'), NEW m \in 1..Len(failed_at'), l <= m
        PROVE  failed_at'[l] <= failed_at'[m]
    BY <1>1, <2>1, <2>2 DEF BreakerInv, InOrder
  <2> QED
    BY <2>1, <2>2 DEF InOrder
<1>4. CASE failures + 1 >= Threshold
  <2>1. opened_at' = now
    BY <1>4 DEF CountsFailure
  <2> QED
    BY <1>1, <1>2, <1>3, <1>4, <2>1 DEF BreakerInv, BreakerType, Closed, Open, NotOpen
<1>5. CASE failures + 1 < Threshold
  <2>1. opened_at' = opened_at /\ opened_at = NotOpen
    BY <1>5, BreakerAssumption DEF CountsFailure, BreakerInv, BreakerType, Open
  <2> QED
    <3>1. ASSUME NEW m \in 1..Len(failed_at'), m <= Len(failed_at') - failures'
          PROVE  failed_at'[m] + ResetTime <= now'
      BY <1>1, <2>1, <3>1, BreakerAssumption, SMTT(30) DEF BreakerInv, BreakerType, Closed
    <3> QED
      BY <1>1, <1>2, <1>3, <1>5, <2>1, <3>1 DEF BreakerInv, Closed, Open
<1> QED
  BY <1>4, <1>5, BreakerAssumption DEF BreakerInv, BreakerType

LEMMA TickKeepsInv ==
  ASSUME BreakerInv, Tick
  PROVE  BreakerInv'
<1>1. now \in Nat /\ now' = now + 1 /\ now' \in Time
  BY BreakerAssumption DEF Tick, BreakerInv, BreakerType, Time
<1>2. UNCHANGED <<failures, opened_at, failed_at>>
  BY DEF Tick
<1>3. \A n \in 1..Len(failed_at) : failed_at[n] \in Nat
  BY BreakerAssumption DEF BreakerInv, BreakerType, Time
<1>4. InOrder' /\ Closed'
  BY <1>1, <1>2, <1>3, BreakerAssumption DEF BreakerInv, InOrder, Closed
<1> QED
  BY <1>1, <1>2, <1>4 DEF BreakerInv, BreakerType, Open

LEMMA BreakerNext ==
  BreakerInv /\ [Next]_vars => BreakerInv'
<1> SUFFICES ASSUME BreakerInv, [Next]_vars
             PROVE  BreakerInv'
  OBVIOUS
<1>1. CASE Tick
  BY <1>1, TickKeepsInv
<1>2. ASSUME NEW r \in Runs, RunStep(r)
      PROVE  BreakerInv'
  <2>1. BreakerStep /\ UNCHANGED now
    BY <1>2, RunStepIsBreakerStep
  <2>2. CASE CountsSuccess
    BY <2>1, <2>2, BreakerAssumption
       DEF CountsSuccess, BreakerInv, BreakerType, InOrder, Closed, Open, NotOpen
  <2>3. CASE CountsFailure
    BY <2>1, <2>3, FailureKeepsInv
  <2>4. CASE Uncounted
    BY <2>1, <2>4 DEF Uncounted, BreakerInv, BreakerType, InOrder, Closed, Open
  <2>5. CASE \E permitted \in BOOLEAN : Permits(permitted) /\ UNCHANGED failed_at
    BY <2>1, <2>5, PermitKeepsInv
  <2> QED
    BY <2>1, <2>2, <2>3, <2>4, <2>5 DEF BreakerStep
<1>3. CASE UNCHANGED vars
  BY <1>3 DEF vars, BreakerInv, BreakerType, InOrder, Closed, Open
<1> QED
  BY <1>1, <1>2, <1>3 DEF Next

LEMMA BreakerInvariant ==
  Spec => []BreakerInv
BY BreakerInit, BreakerNext, PTL DEF Spec

-----------------------------------------------------------------------------
(* The runs: where each is, the calls it made and the attempts it counted. *)

RunState ==
  [pc : PCs, tries : 0..1, counted : 0..5, calls : 0..5,
   audit : {"none", "exact", "short", "excess"},
   result : {"none", "answer", "cached", "fallback", "retryable", "circuit_open"}]

RunInv(x) ==
  /\ x.pc # "done" => x.audit = "none" /\ x.result = "none" /\ x.calls = x.counted + x.tries
  /\ x.pc \in {"new", "first"} => x.counted = 0
  /\ x.pc \in {"tools", "second"} => x.counted <= 2
  /\ x.pc \in {"validate", "repair"} => x.counted <= 4
  /\ x.pc \in {"new", "tools", "validate", "repair", "present"} => x.tries = 0
  /\ x.audit # "excess"
  /\ x.result \in {"answer", "cached"} => x.audit = "exact"

RunsInv ==
  /\ run \in [Runs -> RunState]
  /\ \A r \in Runs : RunInv(run[r])

(* The cached report's audit counts the calls of the run that made it. *)
CachedInv ==
  /\ cached \in [attempts : 0..5, calls : 0..5]
  /\ cached.attempts = cached.calls

LEMMA EndedInv ==
  ASSUME NEW calls \in Nat, NEW attempts \in Nat, attempts <= calls,
         NEW result \in {"answer", "cached", "fallback", "retryable", "circuit_open"},
         result \in {"answer", "cached"} => attempts = calls
  PROVE  Ended(calls, attempts, result) \in RunState /\ RunInv(Ended(calls, attempts, result))
<1>1. (IF attempts = calls THEN "exact" ELSE IF attempts < calls THEN "short" ELSE "excess")
        \in {"exact", "short"}
  OBVIOUS
<1>2. /\ Ended(calls, attempts, result).pc = "done"
      /\ Ended(calls, attempts, result).result = result
      /\ Ended(calls, attempts, result).audit \in {"exact", "short"}
      /\ attempts = calls => Ended(calls, attempts, result).audit = "exact"
  BY <1>1 DEF Ended
<1>3. Ended(calls, attempts, result) \in RunState
  <2> DEFINE audit == IF attempts = calls THEN "exact" ELSE IF attempts < calls THEN "short" ELSE "excess"
  <2>1. Ended(calls, attempts, result)
          = [pc |-> "done", tries |-> 0, counted |-> 0, calls |-> 0, result |-> result, audit |-> audit]
    BY Zenon DEF Ended
  <2>2. audit \in {"exact", "short"}
    BY <1>1
  <2> HIDE DEF audit
  <2>3. "done" \in PCs /\ 0 \in 0..1 /\ 0 \in 0..5
    BY DEF PCs
  <2> QED
    BY <2>1, <2>2, <2>3 DEF RunState
<1> QED
  BY <1>2, <1>3 DEF RunInv

LEMMA FallbackType ==
  ASSUME NEW reason
  PROVE  Fallback(reason) \in {"fallback", "retryable"}
BY DEF Fallback

LEMMA RunStepKeepsRuns ==
  ASSUME RunsInv, CachedInv, NEW r \in Runs, RunStep(r)
  PROVE  RunsInv'
<1> DEFINE x == run[r]
<1>1. x \in RunState /\ RunInv(x)
  BY DEF RunsInv
<1>2. ASSUME NEW y \in RunState, RunInv(y), run' = [run EXCEPT ![r] = y]
      PROVE  RunsInv'
  BY <1>2 DEF RunsInv
<1>3. CASE Begin(r)
  <2>1. CASE run' = [run EXCEPT ![r].pc = "first"] /\ x.pc = "new"
    <3>1. [x EXCEPT !.pc = "first"] \in RunState /\ RunInv([x EXCEPT !.pc = "first"])
      BY <1>1, <2>1 DEF RunState, RunInv, PCs
    <3> QED
      BY <1>2, <2>1, <3>1
  <2>2. ASSUME NEW result \in {"fallback", "retryable", "circuit_open"},
               Ends(r, result, 0), x.pc = "new"
        PROVE  RunsInv'
    <3>1. x.calls = 0
      BY <1>1, <2>2 DEF RunInv, RunState
    <3>2. Ended(0, 0, result) \in RunState /\ RunInv(Ended(0, 0, result))
      BY EndedInv
    <3> QED
      BY <1>2, <2>2, <3>1, <3>2 DEF Ends
  <2>3. CASE run' = [run EXCEPT ![r] = Ended(cached.calls, cached.attempts, "cached")]
    <3>1. PICK n \in Nat : n = cached.calls /\ n = cached.attempts
      BY DEF CachedInv
    <3>2. Ended(n, n, "cached") \in RunState /\ RunInv(Ended(n, n, "cached"))
      BY EndedInv
    <3> QED
      BY <1>2, <2>3, <3>1, <3>2
  <2> QED
    BY <1>3, <2>1, <2>2, <2>3, FallbackType DEF Begin
<1>4. CASE CallsAgain(r)
  <2> DEFINE y == Called(r)
  <2>1. /\ x.pc \in {"first", "second"} /\ x.tries = 0
        /\ x.counted \in 0..2 /\ x.calls = x.counted
    BY <1>1, <1>4 DEF CallsAgain, RunState, RunInv
  <2>2. y \in RunState
    <3>1. x.tries + 1 \in 0..1 /\ x.calls + 1 \in 0..5
      BY <2>1
    <3>2. y = [x EXCEPT !.calls = x.calls + 1, !.tries = x.tries + 1]
      BY DEF Called
    <3> QED
      BY <1>1, <3>1, <3>2 DEF RunState
  <2>3. RunInv(y)
    BY <1>1, <2>1 DEF Called, RunState, RunInv
  <2> QED
    BY <1>2, <1>4, <2>2, <2>3 DEF CallsAgain
<1>5. CASE Answers(r)
  <2> DEFINE y(pc) == [Called(r) EXCEPT !.pc = pc, !.tries = 0, !.counted = x.counted + x.tries + 1]
  <2>1. /\ x.pc \in {"first", "second"} /\ x.tries \in 0..1 /\ x.counted \in 0..2
        /\ x.pc = "first" => x.counted = 0
        /\ x.calls = x.counted + x.tries /\ x.audit = "none" /\ x.result = "none"
    BY <1>1, <1>5 DEF Answers, RunState, RunInv
  <2>2. ASSUME NEW pc \in {"validate", "tools"}
        PROVE  y(pc) \in RunState
    <3>1. x.calls + 1 \in 0..5 /\ x.counted + x.tries + 1 \in 0..5 /\ pc \in PCs
      BY <2>1, <2>2 DEF PCs
    <3>2. y(pc) = [x EXCEPT !.calls = x.calls + 1, !.pc = pc, !.tries = 0,
                            !.counted = x.counted + x.tries + 1]
      BY <1>1 DEF Called, RunState
    <3>3. 0 \in 0..1
      OBVIOUS
    <3> HIDE DEF y
    <3> QED
      BY <1>1, <3>1, <3>2, <3>3 DEF RunState
  <2>3. RunInv(y("validate"))
    BY <1>1, <2>1 DEF Called, RunState, RunInv
  <2>4. x.pc = "first" => RunInv(y("tools"))
    BY <1>1, <2>1 DEF Called, RunState, RunInv
  <2> QED
    BY <1>2, <1>5, <2>2, <2>3, <2>4 DEF Answers
<1>6. CASE RoundFails(r)
  <2>1. ASSUME NEW reason, NEW attempts \in {x.counted, x.tries + 1}, attempts <= x.calls + 1,
               run' = [run EXCEPT ![r] = Ended(x.calls + 1, attempts, Fallback(reason))]
        PROVE  RunsInv'
    <3>1. attempts \in Nat /\ x.calls + 1 \in Nat
      BY <1>1 DEF RunState
    <3> QED
      BY <1>2, <2>1, <3>1, EndedInv, FallbackType
  <2>2. x.counted <= x.calls + 1 /\ x.tries + 1 <= x.calls + 1
    BY <1>1, <1>6 DEF RoundFails, RunState, RunInv
  <2> QED
    BY <1>6, <2>1, <2>2 DEF RoundFails
<1>7. ASSUME NEW reason, Ends(r, Fallback(reason), x.counted), x.pc \notin {"new", "done"}
      PROVE  RunsInv'
  <2>1. x.counted \in Nat /\ x.calls \in Nat /\ x.counted <= x.calls
    BY <1>1, <1>7 DEF RunState, RunInv
  <2> QED
    BY <1>2, <1>7, <2>1, EndedInv, FallbackType DEF Ends
<1>8. CASE Tools(r)
  <2>1. CASE run' = [run EXCEPT ![r].pc = "second"]
    <3>1. [x EXCEPT !.pc = "second"] \in RunState /\ RunInv([x EXCEPT !.pc = "second"])
      BY <1>1, <1>8 DEF Tools, RunState, RunInv, PCs
    <3> QED
      BY <1>2, <2>1, <3>1
  <2> QED
    BY <1>7, <1>8, <2>1 DEF Tools, FailsWith
<1>9. CASE Validates(r)
  <2>1. ASSUME NEW pc \in {"present", "repair"}
        PROVE  [x EXCEPT !.pc = pc] \in RunState /\ RunInv([x EXCEPT !.pc = pc])
    BY <1>1, <1>9 DEF Validates, RunState, RunInv, PCs
  <2> QED
    BY <1>2, <1>9, <2>1 DEF Validates
<1>10. CASE Repairs(r)
  <2> DEFINE y == [x EXCEPT !.pc = "present", !.calls = @ + 1, !.counted = @ + 1]
  <2>1. y \in RunState /\ RunInv(y)
    <3>1. /\ x.tries = 0 /\ x.counted \in 0..4 /\ x.calls = x.counted
          /\ x.audit = "none" /\ x.result = "none"
      BY <1>1, <1>10 DEF Repairs, RunState, RunInv
    <3>2. y \in RunState
      <4>1. x.calls + 1 \in 0..5 /\ x.counted + 1 \in 0..5 /\ "present" \in PCs
        BY <3>1 DEF PCs
      <4>2. y = [x EXCEPT !.pc = "present", !.calls = x.calls + 1, !.counted = x.counted + 1]
        OBVIOUS
      <4> QED
        BY <1>1, <4>1, <4>2 DEF RunState
    <3> QED
      BY <1>1, <3>1, <3>2 DEF RunState, RunInv
  <2>2. ASSUME NEW reason, NEW attempts \in {x.counted, x.counted + 1},
               run' = [run EXCEPT ![r] = Ended(x.calls + 1, attempts, Fallback(reason))]
        PROVE  RunsInv'
    <3>1. attempts \in Nat /\ x.calls + 1 \in Nat /\ attempts <= x.calls + 1
      BY <1>1, <1>10 DEF Repairs, RunState, RunInv
    <3> QED
      BY <1>2, <2>2, <3>1, EndedInv, FallbackType
  <2> QED
    BY <1>2, <1>10, <2>1, <2>2 DEF Repairs
<1>11. CASE Presents(r)
  <2>1. x.counted \in Nat /\ x.calls = x.counted
    BY <1>1, <1>11 DEF Presents, RunState, RunInv
  <2>2. LET e == Ended(x.calls, x.counted, "answer") IN e \in RunState /\ RunInv(e)
    BY <2>1, EndedInv
  <2> QED
    BY <1>2, <1>11, <2>2 DEF Presents, Ends
<1>12. CASE ProgressFails(r)
  BY <1>7, <1>12 DEF ProgressFails, FailsWith
<1> QED
  BY <1>3, <1>4, <1>5, <1>6, <1>8, <1>9, <1>10, <1>11, <1>12 DEF RunStep

(* Only a success writes the cache, with calls and attempts that agree.    *)
LEMMA RunStepKeepsCache ==
  ASSUME RunsInv, CachedInv, NEW r \in Runs, RunStep(r)
  PROVE  CachedInv'
<1> DEFINE x == run[r]
<1>1. x \in RunState /\ RunInv(x)
  BY DEF RunsInv
<1>2. ASSUME NEW y \in RunState, y.calls = y.counted, Succeeds(r, y)
      PROVE  CachedInv'
  <2>1. y.counted \in 0..5 /\ y.calls \in 0..5
    BY DEF RunState
  <2>2. cached' = [attempts |-> y.counted, calls |-> y.calls] \/ cached' = cached
    BY <1>2 DEF Succeeds
  <2> QED
    BY <1>2, <2>1, <2>2 DEF CachedInv
<1>3. CASE cached' = cached
  BY <1>3 DEF CachedInv
<1>4. CASE Validates(r) /\ Succeeds(r, x)
  <2>1. x.calls = x.counted
    BY <1>1, <1>4 DEF Validates, RunInv, RunState
  <2> QED
    BY <1>1, <1>2, <1>4, <2>1
<1> DEFINE repaired == [run[r] EXCEPT !.pc = "present", !.calls = @ + 1, !.counted = @ + 1]
<1>5. CASE Repairs(r) /\ Succeeds(r, repaired)
  <2> DEFINE y == [x EXCEPT !.pc = "present", !.calls = x.calls + 1, !.counted = x.counted + 1]
  <2>1. x.calls = x.counted /\ x.counted \in 0..4
    BY <1>1, <1>5 DEF Repairs, RunInv, RunState
  <2>2. x.calls + 1 \in 0..5 /\ x.counted + 1 \in 0..5 /\ "present" \in PCs
    BY <2>1 DEF PCs
  <2>3. y \in RunState /\ y.calls = y.counted
    BY <1>1, <2>1, <2>2 DEF RunState
  <2>4. Succeeds(r, y)
    BY <1>5
  <2> QED
    BY <1>2, <2>3, <2>4
<1>6. Begin(r) \/ CallsAgain(r) \/ Answers(r) \/ RoundFails(r) \/ Tools(r)
        \/ Presents(r) \/ ProgressFails(r) => cached' = cached
  BY DEF Begin, CallsAgain, Answers, RoundFails, Tools, FailsWith, Presents, ProgressFails
<1>7. /\ Validates(r) => cached' = cached \/ Succeeds(r, x)
      /\ Repairs(r) => \/ cached' = cached
                       \/ Succeeds(r, repaired)
  BY DEF Validates, Repairs
<1> HIDE DEF repaired, x
<1>8. Validates(r) => CachedInv'
  BY <1>3, <1>4, <1>7
<1>9. Repairs(r) => CachedInv'
  BY <1>3, <1>5, <1>7
<1> QED
  BY <1>3, <1>6, <1>8, <1>9 DEF RunStep

LEMMA RunsInit ==
  Init => RunsInv /\ CachedInv
BY DEF Init, RunsInv, NotRun, RunState, RunInv, PCs, CachedInv, NoReport

LEMMA RunsNext ==
  RunsInv /\ CachedInv /\ [Next]_vars => RunsInv' /\ CachedInv'
<1>1. RunsInv /\ CachedInv /\ Tick => RunsInv' /\ CachedInv'
  BY DEF Tick, RunsInv, CachedInv
<1>2. RunsInv /\ CachedInv /\ UNCHANGED vars => RunsInv' /\ CachedInv'
  BY DEF vars, RunsInv, CachedInv
<1> QED
  BY <1>1, <1>2, RunStepKeepsRuns, RunStepKeepsCache DEF Next

LEMMA RunsInvariant ==
  Spec => [](RunsInv /\ CachedInv)
BY RunsInit, RunsNext, PTL DEF Spec

(* AuditCountsCalls: the audit of an answer, made now or cached, counts    *)
(* every call of the run that made it; no audit counts too many.           *)
THEOREM AuditIsTruthful ==
  Spec => []AuditCountsCalls
<1>1. RunsInv => AuditCountsCalls
  BY DEF RunsInv, RunInv, AuditCountsCalls
<1> QED
  BY <1>1, RunsInvariant, PTL

(* Types, and at most five calls of the provider in a run. *)
THEOREM Typing ==
  Spec => []TypeOK
<1>1. BreakerInv /\ RunsInv /\ CachedInv => TypeOK
  BY DEF BreakerInv, BreakerType, RunsInv, RunState, CachedInv, TypeOK
<1> QED
  BY <1>1, BreakerInvariant, RunsInvariant, PTL

-----------------------------------------------------------------------------
(* The breaker's promises about single steps. *)

LEMMA DoorStep ==
  ASSUME RunsInv, Next, NEW r \in Runs, Admitted(r) \/ Refused(r)
  PROVE  /\ UNCHANGED <<now, failed_at>>
         /\ \E permitted \in BOOLEAN : Permits(permitted) /\ (permitted <=> Admitted(r))
         /\ Admitted(r) => ~Refused(r)
<1>1. run[r] \in RunState /\ run[r].pc = "new" /\ run[r].result = "none" /\ run[r] # run'[r]
  BY DEF RunsInv, RunInv, Admitted, Refused
<1>2. PICK s \in Runs : RunStep(s)
  BY <1>1 DEF Next, Tick
<1>3. \E y : run' = [run EXCEPT ![s] = y]
  BY <1>2 DEF RunStep, Begin, CallsAgain, Answers, RoundFails, Tools, FailsWith, Ends,
              Validates, Repairs, Presents, ProgressFails
<1>4. s = r
  BY <1>1, <1>3 DEF RunsInv
<1>5. Begin(r)
  BY <1>1, <1>2, <1>4
     DEF RunStep, Begin, CallsAgain, Answers, RoundFails, Tools,
         Validates, Repairs, Presents, ProgressFails
<1>6. ASSUME NEW result \in {"cached", "fallback", "retryable"}, NEW calls, NEW attempts,
             run' = [run EXCEPT ![r] = Ended(calls, attempts, result)]
      PROVE  FALSE
  BY <1>1, <1>6 DEF Ended, Admitted, Refused, RunsInv
<1>7. PICK permitted \in BOOLEAN :
        /\ Permits(permitted)
        /\ UNCHANGED <<now, failed_at>>
        /\ IF permitted THEN run' = [run EXCEPT ![r].pc = "first"] ELSE Ends(r, "circuit_open", 0)
  BY <1>5, <1>6, FallbackType DEF Begin, Ends
<1>8. permitted => Admitted(r)
  BY <1>1, <1>7 DEF Admitted, RunsInv, RunState
<1>9. ~permitted => ~Admitted(r)
  BY <1>1, <1>7 DEF Admitted, Ends, Ended, RunsInv
<1>10. permitted => ~Refused(r)
  BY <1>1, <1>7 DEF Refused, RunsInv, RunState
<1> QED
  BY <1>7, <1>8, <1>9, <1>10

(* No run is let through while enough recent failures stand. *)
THEOREM BreakerIsHeld ==
  Spec => BreakerHolds
<1>1. ASSUME BreakerInv, RunsInv, Next, NEW r \in Runs, Admitted(r)
      PROVE  ~Recent(Len(failed_at) - Threshold + 1)
  <2>1. PICK permitted \in BOOLEAN : permitted /\ Permits(permitted) /\ UNCHANGED <<now, failed_at>>
    BY <1>1, DoorStep
  <2>2. BreakerInv' /\ opened_at' = NotOpen
    BY <1>1, <2>1, PermitKeepsInv DEF Permits
  <2>3. /\ failures' < Threshold /\ failures' \in Nat
        /\ \A n \in 1..Len(failed_at) : n <= Len(failed_at) - failures' => failed_at[n] + ResetTime <= now
    BY <2>1, <2>2 DEF BreakerInv, BreakerType, Closed
  <2>4. /\ DOMAIN failed_at = 1..Len(failed_at) /\ Len(failed_at) \in Nat
        /\ \A n \in DOMAIN failed_at : failed_at[n] \in Nat
        /\ now \in Nat
    BY <1>1, BreakerAssumption DEF BreakerInv, BreakerType, Time
  <2> QED
    BY <2>3, <2>4, BreakerAssumption DEF Recent
<1>2. BreakerInv /\ RunsInv /\ [Next]_vars
        => [\A r \in Runs : Admitted(r) => ~Recent(Len(failed_at) - Threshold + 1)]_vars
  BY <1>1
<1> QED
  BY <1>2, BreakerInvariant, RunsInvariant, PTL DEF Spec, BreakerHolds

(* A run is refused only for Threshold failures, the last of them recent. *)
THEOREM RefusalsHaveReasons ==
  Spec => RefusalsAreJustified
<1>1. ASSUME BreakerInv, RunsInv, Next, NEW r \in Runs, Refused(r)
      PROVE  Len(failed_at) >= Threshold /\ Recent(Len(failed_at))
  <2>1. ~Admitted(r)
    BY <1>1, DoorStep
  <2>2. Permits(FALSE)
    BY <1>1, <2>1, DoorStep
  <2>3. opened_at # NotOpen /\ ~(now - opened_at >= ResetTime)
    BY <2>2 DEF Permits
  <2>4. /\ failures >= Threshold /\ opened_at = failed_at[Len(failed_at)]
        /\ failures <= Len(failed_at) /\ failures \in Nat
        /\ Len(failed_at) \in Nat /\ DOMAIN failed_at = 1..Len(failed_at)
        /\ now \in Nat /\ opened_at \in Nat
    BY <1>1, <2>3, BreakerAssumption DEF BreakerInv, BreakerType, Open, Time, NotOpen
  <2> QED
    BY <2>3, <2>4, BreakerAssumption DEF Recent
<1>2. BreakerInv /\ RunsInv /\ [Next]_vars
        => [\A r \in Runs : Refused(r) => Len(failed_at) >= Threshold /\ Recent(Len(failed_at))]_vars
  BY <1>1
<1> QED
  BY <1>2, BreakerInvariant, RunsInvariant, PTL DEF Spec, RefusalsAreJustified
=============================================================================
