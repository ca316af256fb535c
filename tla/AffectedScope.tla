---------------------------- MODULE AffectedScope ----------------------------
(***************************************************************************)
(* The dimensional analysis: from the counters of the current and of the   *)
(* baseline window to the segment of the traffic called affected.          *)
(*                                                                         *)
(* A window counts attempts and technical errors of each observed triple   *)
(* of values; a segment fixes the values of some dimensions.  Rates are    *)
(* pairs <<numerator, denominator>>.  Where two findings rank the same,    *)
(* the code takes the one seen first; here it may be either.               *)
(***************************************************************************)
EXTENDS Integers, FiniteSets, FiniteSetsExt, Functions

CONSTANTS
  Observed,     \* The triples of values in the traffic: functions on Dimensions.
  MinAttempts, MinBaseline, MinErrors, TopN,
  MinExcess, MinIncrease, Retention, Improvement   \* Rates.

ASSUME WindowAssumption == IsFiniteSet(Observed) /\ MinErrors \in Nat \ {0}

Dimensions == {"processing_region", "payment_method", "service_version"}

(* DIMENSION_ORDER. *)
Position(dimension) ==
  CASE dimension = "processing_region" -> 1
    [] dimension = "payment_method" -> 2
    [] dimension = "service_version" -> 3

Rate(n, d) == <<n, IF d = 0 THEN 1 ELSE d>>

Minus(x, y) == <<x[1] * y[2] - y[1] * x[2], x[2] * y[2]>>

Times(x, y) == <<x[1] * y[1], x[2] * y[2]>>

Above(x, y) == x[1] * y[2] > y[1] * x[2]

AtLeast(x, y) == ~Above(y, x)

-----------------------------------------------------------------------------
(* _rollup_combinations, and the counters of single values: all the        *)
(* traffic of a segment.                                                   *)
Counts(window, segment) ==
  LET within == {t \in Observed : Restrict(t, DOMAIN segment) = segment}
  IN [attempts |-> MapThenSumSet(LAMBDA t : window[t].attempts, within),
      errors |-> MapThenSumSet(LAMBDA t : window[t].errors, within)]

Everything == [d \in {} |-> d]

(* Bug for a mutant: the gates look at the counters of all the traffic. *)
FindingOfAll(current, baseline, segment) ==
  LET now == Counts(current, Everything)
      past == Counts(baseline, Everything)
      rate == Rate(now.errors, now.attempts)
      increase == Minus(rate, Rate(past.errors, past.attempts))
      excess == Times(increase, <<now.attempts, 1>>)
  IN [segment |-> segment, attempts |-> now.attempts, rate |-> rate,
      excess |-> excess, increase |-> increase, concentrated |-> FALSE,
      eligible |-> /\ now.attempts >= MinAttempts /\ past.attempts >= MinBaseline
                   /\ now.errors >= MinErrors
                   /\ AtLeast(excess, MinExcess) /\ AtLeast(increase, MinIncrease)]

(* _candidate: a segment against its own past and against the rest of the  *)
(* current traffic.                                                        *)
Finding(current, baseline, segment) ==
  LET now == Counts(current, segment)
      past == Counts(baseline, segment)
      all == Counts(current, Everything)
      rate == Rate(now.errors, now.attempts)
      increase == Minus(rate, Rate(past.errors, past.attempts))
      excess == Times(increase, <<now.attempts, 1>>)
      rest == Rate(all.errors - now.errors, all.attempts - now.attempts)
  IN [segment |-> segment, attempts |-> now.attempts, rate |-> rate,
      excess |-> excess, increase |-> increase,
      concentrated |-> all.attempts > now.attempts /\ Above(Minus(rate, rest), MinIncrease),
      eligible |-> /\ now.attempts >= MinAttempts /\ past.attempts >= MinBaseline
                   /\ now.errors >= MinErrors
                   /\ AtLeast(excess, MinExcess) /\ AtLeast(increase, MinIncrease)]

(* _rank_key. *)
Outranks(x, y) ==
  \/ Above(x.excess, y.excess)
  \/ AtLeast(x.excess, y.excess) /\ Above(x.increase, y.increase)
  \/ /\ AtLeast(x.excess, y.excess) /\ AtLeast(x.increase, y.increase)
     /\ x.attempts > y.attempts

(* The eligible findings of the segments that fix certain dimensions and   *)
(* have traffic now.                                                       *)
Eligible(current, baseline, dimensions) ==
  LET segments == {Restrict(t, dimensions) : t \in {u \in Observed : current[u].attempts > 0}}
  IN {f \in {Finding(current, baseline, s) : s \in segments} : f.eligible}

(* The first TopN of a ranking, however its ties are broken. *)
Shortlists(findings) ==
  LET size == IF Cardinality(findings) < TopN THEN Cardinality(findings) ELSE TopN
  IN {S \in SUBSET findings :
        /\ Cardinality(S) = size
        /\ \A x \in S, y \in findings \ S : ~Outranks(y, x)}

(* The segments a segment narrows, and the dimension it adds to them. *)
Widened(segment, dimension) == Restrict(segment, DOMAIN segment \ {dimension})

(* A combination is tested against its widened finding with the most       *)
(* excess, the first one of the same, if any of them was found at all.     *)
Narrows(finding, found) ==
  LET parents == {x \in (DOMAIN finding.segment) \X found :
                    x[2].segment = Widened(finding.segment, x[1])}
      Prior(x, y) == \/ Above(x[2].excess, y[2].excess)
                     \/ /\ AtLeast(x[2].excess, y[2].excess)
                        /\ Position(x[1]) <= Position(y[1])
  IN \A x \in parents :
       (\A y \in parents : Prior(x, y)) =>
         /\ AtLeast(finding.excess, Times(x[2].excess, Retention))
         /\ AtLeast(finding.rate, Times(x[2].rate, <<Improvement[1] + Improvement[2], Improvement[2]>>))

(* _combination_candidates: pairs of the values on the shortlists, then    *)
(* triples, whose parents are the accepted pairs.  eligible has the        *)
(* eligible findings by the dimensions their segments fix.                 *)
Combinations(eligible, seeds) ==
  LET Seeded(f) == \A d \in DOMAIN f.segment : f.segment[d] \in seeds[d]
      Accepted(n, found) ==
        {f \in UNION {eligible[D] : D \in kSubset(n, Dimensions)} : Seeded(f) /\ Narrows(f, found)}
      pairs == Accepted(2, UNION {eligible[{d}] : d \in Dimensions})
  IN pairs \cup Accepted(3, pairs)

(* The finding with the most dimensions, then the highest rank. *)
Best(findings) ==
  LET Size(x) == Cardinality(DOMAIN x.segment)
  IN {x \in findings : \A y \in findings :
        Size(y) < Size(x) \/ (Size(y) = Size(x) /\ ~Outranks(y, x))}

NoScope == [segment |-> Everything, concentrated |-> FALSE, rate |-> <<0, 1>>]

(* The affected scopes that findings can name. *)
Scopes(eligible) ==
  LET lists == [d \in Dimensions |-> Shortlists(eligible[{d}])]
      chosen == {s \in [Dimensions -> UNION {lists[d] : d \in Dimensions}] :
                   \A d \in Dimensions : s[d] \in lists[d]}
      Found(s) ==
        (UNION {s[d] : d \in Dimensions})
          \cup Combinations(eligible, [d \in Dimensions |-> {f.segment[d] : f \in s[d]}])
      best == UNION {Best(Found(s)) : s \in chosen}
  IN IF best = {} THEN {NoScope}
     ELSE {[segment |-> f.segment, concentrated |-> f.concentrated, rate |-> f.rate] : f \in best}

(* analyze_windows. *)
Analyses(current, baseline) ==
  Scopes([D \in (SUBSET Dimensions) \ {{}} |-> Eligible(current, baseline, D)])
=============================================================================
