----------------------------- MODULE RootCause -----------------------------
(***************************************************************************)
(* The rules of the root-cause engine: which operational changes are       *)
(* candidates for an incident, how strong the evidence for each is, and    *)
(* which one leads.                                                        *)
(*                                                                         *)
(* A change is a record of the fields the rules read.  Times are relative  *)
(* to the start of the incident.                                           *)
(***************************************************************************)
EXTENDS Integers, Sequences, FiniteSets

CONSTANTS
  Lookback,     \* rca_lookback_seconds.
  Skew,         \* rca_clock_skew_seconds.
  Shortlist     \* rca_shortlist_size.

ASSUME RulesAssumption ==
  /\ Lookback \in Nat
  /\ Skew \in Nat
  /\ Shortlist \in Nat \ {0}

Unknown == "unknown"

AffectedService == "PAYMENT_GATEWAY"

Dependencies == {"TOKEN_SERVICE", "NETWORK_CONNECTOR"}

(* The value an affected scope fixes for a dimension, if it fixes one. *)
ValueOf(scope, dimension) == IF dimension \in DOMAIN scope THEN scope[dimension] ELSE Unknown

(* _version_alignment. *)
VersionAlignment(scope, change) ==
  LET affected == ValueOf(scope, "service_version")
      changed == IF change.new_version # Unknown THEN change.new_version ELSE change.to_version
  IN CASE change.affected_service \in Dependencies -> "NOT_APPLICABLE"
       [] change.affected_service \notin Dependencies /\ Unknown \in {affected, changed} -> "UNKNOWN"
       [] OTHER -> IF affected = changed THEN "MATCH" ELSE "NO_MATCH"

(* _scope_alignment: what a change does not say is no contradiction. *)
ScopeAlignment(scope, change) ==
  LET region == ValueOf(scope, "processing_region")
      method == ValueOf(scope, "payment_method")
      Outside(value, said) == value # Unknown /\ said # {} /\ value \notin said
  IN CASE region = Unknown /\ method = Unknown -> "UNKNOWN"
       [] change.affected_regions = {} /\ change.affected_payment_methods = {} -> "UNKNOWN"
       [] Outside(region, change.affected_regions)
            \/ Outside(method, change.affected_payment_methods) -> "DISJOINT"
       [] OTHER ->
            IF Unknown \in {region, method} \/ {} \in {change.affected_regions, change.affected_payment_methods}
            THEN "PARTIAL"
            ELSE IF Cardinality(change.affected_regions) = 1
                      /\ Cardinality(change.affected_payment_methods) = 1
                 THEN "EXACT" ELSE "CONTAINS_AFFECTED_SCOPE"

(* _error_relevance: one error code has a mapping. *)
ErrorRelevance(signature, change) ==
  CASE signature # "TOKEN_VALIDATION_FAILED" -> "UNKNOWN"
    [] signature = "TOKEN_VALIDATION_FAILED" /\ change.affected_service = "NETWORK_CONNECTOR" -> "NO_MATCH"
    [] OTHER -> CASE change.change_categories = {} -> "UNKNOWN"
                  [] "TOKEN" \in change.change_categories -> "MATCH"
                  [] OTHER -> "NO_MATCH"

(* A rollback after the start is no candidate, but supports one once the   *)
(* recovery is confirmed; other changes are rejected when they are later   *)
(* or older than the clock skew and the lookback allow.                    *)
IsLaterRollback(change) == change.event_type = "ROLLBACK" /\ change.occurred_at > Skew

IsCandidate(analysis, change) ==
  /\ change.occurred_at \in -Lookback..Skew
  /\ change.affected_service \in Dependencies \cup {AffectedService}
  /\ ScopeAlignment(analysis.segment, change) # "DISJOINT"

(* _build_candidate: the kinds of support the tiers are made of. *)
Support(analysis, change) ==
  LET matches == VersionAlignment(analysis.segment, change) = "MATCH"
      aligned == ScopeAlignment(analysis.segment, change) \in {"EXACT", "CONTAINS_AFFECTED_SCOPE"}
  IN (IF matches THEN {"VERSION_MATCH"} ELSE {})
       \cup (IF aligned THEN {"SCOPE_ALIGNMENT"} ELSE {})
       \cup (IF ErrorRelevance(analysis.signature, change) = "MATCH" THEN {"ERROR_RELEVANCE_MATCH"} ELSE {})
       \cup (IF analysis.concentrated /\ matches THEN {"COUNTERFACTUAL_SUPPORT"} ELSE {})

(* A later rollback that succeeded and took back the version of a change. *)
RolledBack(change, arrived) ==
  \E r \in arrived :
    /\ IsLaterRollback(r) /\ r.status = "SUCCEEDED"
    /\ change.new_version # Unknown /\ r.from_version = change.new_version

(* Bug for a mutant: with the support of a recovery only that is looked at. *)
TierByRecovery(codes, supported) ==
  IF supported THEN IF Cardinality(codes) >= 2 THEN 3 ELSE 1
  ELSE IF Cardinality(codes) = 4 THEN 3 ELSE IF codes # {} THEN 2 ELSE 1

(* _tier: 3 is STRONG_EVIDENCE, 2 MODERATE_EVIDENCE, 1 WEAK_EVIDENCE.      *)
Tier(codes, supported) ==
  IF Cardinality(codes) = 4 \/ (supported /\ Cardinality(codes) >= 2) THEN 3
  ELSE IF codes # {} THEN 2 ELSE 1

Candidates(analysis, arrived) ==
  {c \in arrived : ~IsLaterRollback(c) /\ IsCandidate(analysis, c)}

(* The candidates with the evidence for them. *)
Assessed(analysis, arrived, recovered) ==
  {LET codes == Support(analysis, c)
   IN [event_id |-> c.event_id, occurred_at |-> c.occurred_at, codes |-> codes,
       tier |-> Tier(codes, recovered /\ RolledBack(c, arrived))] :
     c \in Candidates(analysis, arrived)}

(* What candidates are sorted by: the tier, the kinds of support in this   *)
(* order, and the latest change first.                                     *)
Codes == <<"VERSION_MATCH", "SCOPE_ALIGNMENT", "ERROR_RELEVANCE_MATCH", "COUNTERFACTUAL_SUPPORT">>

(* Bug for a mutant: the tier is not part of the sort key. *)
AheadByCodes(x, y) ==
  \/ \E i \in DOMAIN Codes :
       /\ Codes[i] \in x.codes \ y.codes
       /\ \A j \in 1..(i - 1) : (Codes[j] \in x.codes) = (Codes[j] \in y.codes)
  \/ x.codes = y.codes /\ x.occurred_at > y.occurred_at

Ahead(x, y) ==
  \/ x.tier > y.tier
  \/ x.tier = y.tier /\ \E i \in DOMAIN Codes :
       /\ Codes[i] \in x.codes \ y.codes
       /\ \A j \in 1..(i - 1) : (Codes[j] \in x.codes) = (Codes[j] \in y.codes)
  \/ x.tier = y.tier /\ x.codes = y.codes /\ x.occurred_at > y.occurred_at

(* The candidates kept after sorting. *)
Shortlisted(assessed) ==
  {x \in assessed : Cardinality({y \in assessed : Ahead(y, x)}) < Shortlist}

(* The first candidate leads, if there is at least moderate evidence.      *)
Leaders(analysis, arrived, recovered) ==
  LET ranked == Shortlisted(Assessed(analysis, arrived, recovered))
  IN {x \in ranked : x.tier >= 2 /\ \A y \in ranked : ~Ahead(y, x)}

(* overall_tier: 0 is INSUFFICIENT_EVIDENCE. *)
Overall(leaders) == IF leaders = {} THEN 0 ELSE (CHOOSE x \in leaders : TRUE).tier
=============================================================================
