----------------------- MODULE IncidentAnalysisProofs -----------------------
(***************************************************************************)
(* Theorems about IncidentAnalysis, for any windows, changes and settings: *)
(* what the affected scope can name, and which change leads.               *)
(***************************************************************************)
EXTENDS IncidentAnalysis, FiniteSetTheorems, WellFoundedInduction, TLAPS

-----------------------------------------------------------------------------
(* The order of the candidates.                                            *)

Kinds == {"VERSION_MATCH", "SCOPE_ALIGNMENT", "ERROR_RELEVANCE_MATCH", "COUNTERFACTUAL_SUPPORT"}

(* What the order reads of a candidate.                                    *)
Ranked(x) == x.codes \subseteq Kinds /\ x.tier \in {1, 2, 3} /\ x.occurred_at \in Int

(* The first kind of support that only one of x and y has is x's.          *)
BetterKinds(x, y) ==
  LET Has(z, k) == k \in z.codes
      First(k) == Has(x, k) /\ ~Has(y, k)
      Same(k) == Has(x, k) <=> Has(y, k)
  IN \/ First("VERSION_MATCH")
     \/ Same("VERSION_MATCH") /\ First("SCOPE_ALIGNMENT")
     \/ /\ Same("VERSION_MATCH") /\ Same("SCOPE_ALIGNMENT") /\ First("ERROR_RELEVANCE_MATCH")
     \/ /\ Same("VERSION_MATCH") /\ Same("SCOPE_ALIGNMENT") /\ Same("ERROR_RELEVANCE_MATCH")
        /\ First("COUNTERFACTUAL_SUPPORT")

LEMMA AheadMeans ==
  ASSUME NEW x, NEW y
  PROVE  Ahead(x, y) <=>
           \/ x.tier > y.tier
           \/ x.tier = y.tier /\ BetterKinds(x, y)
           \/ x.tier = y.tier /\ x.codes = y.codes /\ x.occurred_at > y.occurred_at
<1> DEFINE P(i) == /\ Codes[i] \in x.codes \ y.codes
                   /\ \A j \in 1..(i - 1) : (Codes[j] \in x.codes) = (Codes[j] \in y.codes)
<1>1. /\ DOMAIN Codes = {1, 2, 3, 4}
      /\ Codes[1] = "VERSION_MATCH" /\ Codes[2] = "SCOPE_ALIGNMENT"
      /\ Codes[3] = "ERROR_RELEVANCE_MATCH" /\ Codes[4] = "COUNTERFACTUAL_SUPPORT"
  BY DEF Codes
<1>2. 1..0 = {} /\ 1..1 = {1} /\ 1..2 = {1, 2} /\ 1..3 = {1, 2, 3}
  OBVIOUS
<1>3. (\E i \in DOMAIN Codes : P(i)) <=> P(1) \/ P(2) \/ P(3) \/ P(4)
  BY <1>1
<1>4. P(1) \/ P(2) \/ P(3) \/ P(4) <=> BetterKinds(x, y)
  BY <1>1, <1>2 DEF BetterKinds
<1> QED
  BY <1>3, <1>4 DEF Ahead

LEMMA AheadOrder ==
  ASSUME NEW x, NEW y, NEW z, Ranked(x), Ranked(y), Ranked(z)
  PROVE  /\ ~Ahead(x, x)
         /\ Ahead(x, y) /\ Ahead(y, z) => Ahead(x, z)
         /\ ~Ahead(x, y) => y.tier >= x.tier
<1>1. ~BetterKinds(x, x)
  BY DEF BetterKinds
<1>2. BetterKinds(x, y) /\ BetterKinds(y, z) => BetterKinds(x, z)
  BY DEF BetterKinds
<1>3. /\ x.codes = y.codes => (BetterKinds(y, z) <=> BetterKinds(x, z))
      /\ y.codes = z.codes => (BetterKinds(x, y) <=> BetterKinds(x, z))
  BY DEF BetterKinds
<1>4. /\ x.tier \in Int /\ y.tier \in Int /\ z.tier \in Int
      /\ x.occurred_at \in Int /\ y.occurred_at \in Int /\ z.occurred_at \in Int
  BY DEF Ranked
<1>5. ~Ahead(x, x)
  BY <1>1, <1>4, AheadMeans
<1>6. Ahead(x, y) /\ Ahead(y, z) => Ahead(x, z)
  BY <1>2, <1>3, <1>4, AheadMeans
<1>7. ~Ahead(x, y) => y.tier >= x.tier
  BY <1>4, AheadMeans
<1> QED
  BY <1>5, <1>6, <1>7

LEMMA LeastNumber ==
  ASSUME NEW T, T \subseteq Nat, T # {}
  PROVE  \E m \in T : \A n \in T : m <= n
<1>1. PICK m \in T : \A n \in T : <<n, m>> \notin OpToRel(<, Nat)
  BY NatLessThanWellFounded, WFMin
<1>2. \A n \in T : ~(n < m)
  BY <1>1 DEF OpToRel
<1> QED
  BY <1>2

(* Whatever is in a finite set of candidates, something that nothing is    *)
(* ahead of is of no lower tier.                                           *)
LEMMA SomethingIsFirst ==
  ASSUME NEW A, IsFiniteSet(A), \A x \in A : Ranked(x), NEW x \in A
  PROVE  \E z \in A : z.tier >= x.tier /\ \A y \in A : ~Ahead(y, z)
<1> DEFINE Before(z) == {y \in A : Ahead(y, z)}
           T == {z \in A : z = x \/ Ahead(z, x)}
           Sizes == {Cardinality(Before(z)) : z \in T}
<1>1. \A z \in A : IsFiniteSet(Before(z)) /\ Cardinality(Before(z)) \in Nat
  <2> SUFFICES ASSUME NEW z \in A
               PROVE  IsFiniteSet(Before(z)) /\ Cardinality(Before(z)) \in Nat
    OBVIOUS
  <2>1. IsFiniteSet(Before(z))
    BY FS_Subset
  <2> QED
    BY <2>1, FS_CardinalityType
<1>2. Sizes \subseteq Nat /\ Sizes # {}
  BY <1>1
<1>3. PICK m \in Sizes : \A n \in Sizes : m <= n
  BY <1>2, LeastNumber
<1>4. PICK z \in T : m = Cardinality(Before(z))
  BY <1>3
<1>5. ASSUME NEW u \in A, Ahead(u, z)
      PROVE  FALSE
  <2>1. u \in T
    BY <1>5, AheadOrder
  <2>2. Before(u) \subseteq Before(z)
    BY <1>5, AheadOrder
  <2>3. u \in Before(z) /\ u \notin Before(u)
    BY <1>5, AheadOrder
  <2>4. /\ Cardinality(Before(u)) <= Cardinality(Before(z))
        /\ Cardinality(Before(z)) = Cardinality(Before(u)) => Before(z) = Before(u)
    BY <1>1, <2>2, FS_Subset
  <2>5. Cardinality(Before(u)) < Cardinality(Before(z))
    <3> HIDE DEF Before
    <3> QED
      BY <1>1, <2>3, <2>4
  <2>6. m <= Cardinality(Before(u))
    BY <1>3, <2>1
  <2>7. z \in A
    OBVIOUS
  <2> HIDE DEF Before, T, Sizes
  <2> QED
    BY <1>1, <1>4, <2>5, <2>6, <2>7
<1>6. z.tier >= x.tier
  BY AheadMeans, AheadOrder DEF Ranked
<1> QED
  BY <1>5, <1>6

(* An assessed candidate.                                                  *)
Evidence(found, known, recovered, c) ==
  [event_id |-> c.event_id, occurred_at |-> c.occurred_at, codes |-> Support(found, c),
   tier |-> Tier(Support(found, c), recovered /\ RolledBack(c, known))]

LEMMA TierFacts ==
  ASSUME NEW codes \in SUBSET Kinds, NEW supported \in BOOLEAN
  PROVE  /\ Tier(codes, supported) \in {1, 2, 3}
         /\ Tier(codes, supported) >= Tier(codes, FALSE)
<1>1. IsFiniteSet(Kinds)
  <2>1. IsFiniteSet({}) /\ \A S, x : IsFiniteSet(S) => IsFiniteSet(S \cup {x})
    BY FS_EmptySet, FS_AddElement
  <2>2. Kinds = ((({} \cup {"VERSION_MATCH"}) \cup {"SCOPE_ALIGNMENT"})
                 \cup {"ERROR_RELEVANCE_MATCH"}) \cup {"COUNTERFACTUAL_SUPPORT"}
    BY DEF Kinds
  <2>3. IsFiniteSet({"VERSION_MATCH"})
    BY <2>1, FS_Singleton
  <2>4. IsFiniteSet({"VERSION_MATCH"} \cup {"SCOPE_ALIGNMENT"})
    BY <2>1, <2>3
  <2>5. IsFiniteSet(({"VERSION_MATCH"} \cup {"SCOPE_ALIGNMENT"}) \cup {"ERROR_RELEVANCE_MATCH"})
    BY <2>1, <2>4
  <2>6. IsFiniteSet((({"VERSION_MATCH"} \cup {"SCOPE_ALIGNMENT"}) \cup {"ERROR_RELEVANCE_MATCH"})
                    \cup {"COUNTERFACTUAL_SUPPORT"})
    BY <2>1, <2>5
  <2> QED
    BY <2>2, <2>6
<1>2. Cardinality(codes) \in Nat /\ Cardinality({}) = 0
  BY <1>1, FS_Subset, FS_CardinalityType, FS_EmptySet
<1>3. codes = {} => ~(Cardinality(codes) >= 2)
  BY <1>2
<1> QED
  BY <1>2, <1>3 DEF Tier

LEMMA AssessedFacts ==
  ASSUME NEW found, NEW known \in SUBSET Changes, NEW recovered \in BOOLEAN
  PROVE  /\ IsFiniteSet(Assessed(found, known, recovered))
         /\ \A x \in Assessed(found, known, recovered) :
              Ranked(x) /\ x.event_id \in {c.event_id : c \in Changes}
<1> DEFINE C == Candidates(found, known)
           A == Assessed(found, known, recovered)
           g == [c \in C |-> Evidence(found, known, recovered, c)]
<1>1. A = {Evidence(found, known, recovered, c) : c \in C}
  BY DEF Assessed, Evidence
<1>2. C \subseteq Changes
  BY DEF Candidates
<1>3. IsFiniteSet(C)
  BY <1>2, ChangesAssumption, FS_Subset
<1>4. IsFiniteSet(A)
  <2>1. g \in Surjection(C, A)
    BY <1>1 DEF Surjection
  <2> QED
    BY <1>3, <2>1, FS_Surjection DEF ExistsSurjection
<1>5. ASSUME NEW x \in A
      PROVE  Ranked(x) /\ x.event_id \in {c.event_id : c \in Changes}
  <2>1. PICK c \in C : x = Evidence(found, known, recovered, c)
    BY <1>1
  <2>2. Support(found, c) \subseteq Kinds
    BY DEF Support, Kinds
  <2>3. (recovered /\ RolledBack(c, known)) \in BOOLEAN
    BY DEF RolledBack
  <2>4. Tier(Support(found, c), recovered /\ RolledBack(c, known)) \in {1, 2, 3}
    BY <2>2, <2>3, TierFacts
  <2>5. c \in Changes /\ c.occurred_at \in Int
    BY <1>2, ChangesAssumption
  <2> QED
    BY <2>1, <2>2, <2>4, <2>5 DEF Ranked, Evidence
<1> QED
  BY <1>1, <1>4, <1>5

(* The overall tier is that of the first candidate, and no other candidate *)
(* with moderate evidence has a higher one.                                *)
LEMMA LeaderIsStrongest ==
  ASSUME NEW found, NEW known \in SUBSET Changes, NEW recovered \in BOOLEAN
  PROVE  LET L == Leaders(found, known, recovered)
         IN  /\ Overall(L) \in {0, 2, 3}
             /\ L = {} <=> Overall(L) = 0
             /\ L \subseteq Assessed(found, known, recovered)
             /\ \A x \in Assessed(found, known, recovered) : x.tier >= 2 => Overall(L) >= x.tier
<1> DEFINE A == Assessed(found, known, recovered)
           R == Shortlisted(A)
           L == Leaders(found, known, recovered)
<1>1. IsFiniteSet(A) /\ \A x \in A : Ranked(x)
  BY AssessedFacts
<1>2. R = {x \in A : Cardinality({y \in A : Ahead(y, x)}) < Shortlist}
  BY DEF Shortlisted
<1>3. L = {x \in R : x.tier >= 2 /\ \A y \in R : ~Ahead(y, x)}
  BY DEF Leaders
<1> HIDE DEF A, R, L
<1>4. \A x \in L : x \in A /\ x.tier \in {2, 3}
  BY <1>1, <1>2, <1>3 DEF Ranked
<1>5. L # {} => Overall(L) \in {2, 3} /\ (CHOOSE x \in L : TRUE) \in L
  BY <1>4 DEF Overall
<1>6. L = {} => Overall(L) = 0
  BY DEF Overall
<1>7. ASSUME NEW x \in A, x.tier >= 2
      PROVE  Overall(L) >= x.tier
  <2>1. PICK z \in A : z.tier >= x.tier /\ \A y \in A : ~Ahead(y, z)
    BY <1>1, SomethingIsFirst
  <2>2. z.tier \in Int /\ x.tier \in Int
    BY <1>1 DEF Ranked
  <2>3. {y \in A : Ahead(y, z)} = {}
    BY <2>1
  <2>4. Cardinality({y \in A : Ahead(y, z)}) < Shortlist
    BY <2>3, FS_EmptySet, RulesAssumption
  <2>5. z \in R /\ z \in L
    BY <1>2, <1>3, <1>7, <2>1, <2>2, <2>4
  <2>6. PICK w \in L : w = CHOOSE y \in L : TRUE
    BY <2>5
  <2>7. w \in A /\ ~Ahead(z, w)
    BY <1>3, <1>4, <2>5, <2>6
  <2>8. w.tier >= z.tier /\ w.tier \in Int
    BY <1>1, <2>7, AheadOrder DEF Ranked
  <2>9. Overall(L) = w.tier
    BY <2>5, <2>6 DEF Overall
  <2> QED
    BY <2>1, <2>2, <2>8, <2>9
<1> QED
  BY <1>4, <1>5, <1>6, <1>7 DEF A, L

(* One more change, or a confirmed recovery, weakens nothing.              *)
LEMMA EvidenceAddsUp ==
  ASSUME NEW found, NEW known \in SUBSET Changes, NEW more \in SUBSET Changes, known \subseteq more,
         NEW recovered \in BOOLEAN
  PROVE  Overall(Leaders(found, more, recovered)) >= Overall(Leaders(found, known, FALSE))
<1> DEFINE L == Leaders(found, known, FALSE)
           M == Leaders(found, more, recovered)
<1>1. /\ Overall(L) \in {0, 2, 3} /\ (L = {} <=> Overall(L) = 0)
      /\ L \subseteq Assessed(found, known, FALSE)
  BY LeaderIsStrongest
<1>2. /\ Overall(M) \in {0, 2, 3}
      /\ \A x \in Assessed(found, more, recovered) : x.tier >= 2 => Overall(M) >= x.tier
  BY LeaderIsStrongest
<1>3. /\ Assessed(found, known, FALSE) =
            {Evidence(found, known, FALSE, c) : c \in Candidates(found, known)}
      /\ Assessed(found, more, recovered) =
            {Evidence(found, more, recovered, c) : c \in Candidates(found, more)}
  BY DEF Assessed, Evidence
<1> SUFFICES Overall(M) >= Overall(L)
  OBVIOUS
<1> HIDE DEF L, M
<1>4. CASE Overall(L) = 0
  BY <1>2, <1>4
<1>5. CASE Overall(L) # 0
  <2>1. PICK w \in L : w = CHOOSE y \in L : TRUE
    BY <1>1, <1>5
  <2>2. Overall(L) = w.tier
    BY <2>1 DEF Overall
  <2>3. PICK c \in Candidates(found, known) : w = Evidence(found, known, FALSE, c)
    BY <1>1, <1>3
  <2>4. c \in Candidates(found, more)
    BY DEF Candidates
  <2>5. PICK x : x = Evidence(found, more, recovered, c)
    OBVIOUS
  <2>6. x \in Assessed(found, more, recovered)
    BY <1>3, <2>4, <2>5
  <2>7. Support(found, c) \in SUBSET Kinds /\ (recovered /\ RolledBack(c, more)) \in BOOLEAN
    BY DEF Support, Kinds, RolledBack
  <2>8. /\ x.tier = Tier(Support(found, c), recovered /\ RolledBack(c, more))
        /\ w.tier = Tier(Support(found, c), FALSE)
    BY <2>3, <2>5 DEF Evidence
  <2>9. x.tier >= w.tier /\ x.tier \in {1, 2, 3} /\ w.tier \in {1, 2, 3}
    BY <2>7, <2>8, TierFacts
  <2>10. x.tier >= 2
    BY <1>1, <1>5, <2>2, <2>9
  <2>11. Overall(M) >= x.tier
    BY <1>2, <2>6, <2>10
  <2> QED
    BY <1>2, <2>2, <2>9, <2>11
<1> QED
  BY <1>4, <1>5

-----------------------------------------------------------------------------
(* What the dimensional analysis can name.                                 *)

(* The errors of some triples, as Counts adds them up; where each has none,*)
(* the sum is zero.                                                        *)
ErrorSum(w, S) == MapThenSumSet(LAMBDA t : w[t].errors, S)

LEMMA SumOfZeros ==
  ASSUME NEW w, NEW S, IsFiniteSet(S), \A t \in S : w[t].errors = 0
  PROVE  ErrorSum(w, S) = 0
<1> DEFINE One(s) == CHOOSE x \in s : TRUE
           Sums(f) == f = [s \in SUBSET S |-> IF s = {} THEN 0
                                              ELSE w[One(s)].errors + f[s \ {One(s)}]]
           sum == CHOOSE f : Sums(f)
           Wrong == {s \in SUBSET S : sum[s] # 0}
           Sizes == {Cardinality(s) : s \in Wrong}
<1>1. ErrorSum(w, S) = sum[S]
  BY DEF ErrorSum, MapThenSumSet, MapThenFoldSet
<1>2. \A s \in SUBSET S : s # {} => One(s) \in s
  OBVIOUS
<1> HIDE DEF One
<1>3. Sums(sum)
  <2>1. Sums([s \in SUBSET S |-> 0])
    BY <1>2
  <2> HIDE DEF Sums
  <2> QED
    BY <2>1
<1>4. /\ S # {} \/ sum[S] = 0
      /\ \A s \in SUBSET S : s # {} => sum[s] = 0 + sum[s \ {One(s)}]
      /\ sum[{}] = 0
  <2> HIDE DEF sum
  <2> QED
    BY <1>2, <1>3
<1>5. Wrong = {}
  <2> SUFFICES ASSUME Wrong # {} PROVE FALSE
    OBVIOUS
  <2>1. \A s \in SUBSET S : IsFiniteSet(s) /\ Cardinality(s) \in Nat
    BY FS_Subset, FS_CardinalityType
  <2>2. PICK m \in Sizes : \A n \in Sizes : m <= n
    <3>1. Sizes \subseteq Nat /\ Sizes # {}
      BY <2>1
    <3> HIDE DEF Sizes
    <3> QED
      BY <3>1, LeastNumber
  <2>3. PICK s \in Wrong : m = Cardinality(s)
    BY <2>2
  <2>4. s # {} /\ s \in SUBSET S /\ sum[s] # 0
    BY <1>4, <2>3
  <2>5. PICK x : x = One(s)
    OBVIOUS
  <2>6. PICK r : r = s \ {x}
    OBVIOUS
  <2>7. sum[r] # 0 /\ r \in SUBSET S
    <3> HIDE DEF sum, Wrong
    <3> QED
      BY <1>4, <2>4, <2>5, <2>6
  <2>8. Cardinality(r) = Cardinality(s) - 1
    BY <1>2, <2>1, <2>4, <2>5, <2>6, FS_RemoveElement
  <2>9. m <= Cardinality(r)
    BY <2>2, <2>7
  <2> HIDE DEF Wrong, Sizes
  <2> QED
    BY <2>1, <2>3, <2>4, <2>8, <2>9
<1> QED
  BY <1>1, <1>5

LEMMA CombinationFacts ==
  ASSUME NEW eligible, NEW seeds, NEW f \in Combinations(eligible, seeds)
  PROVE  \E D \in (SUBSET Dimensions) \ {{}} : f \in eligible[D]
<1>1. PICK n \in {2, 3} : f \in UNION {eligible[D] : D \in kSubset(n, Dimensions)}
  BY DEF Combinations
<1>2. PICK D \in kSubset(n, Dimensions) : f \in eligible[D]
  BY <1>1
<1>3. D \in SUBSET Dimensions /\ Cardinality(D) = n
  BY DEF kSubset
<1>4. D # {}
  BY <1>3, FS_EmptySet
<1> QED
  BY <1>2, <1>3, <1>4

(* The scope of an analysis is empty, or that of an eligible finding.      *)
LEMMA AnalysisFacts ==
  ASSUME NEW current, NEW baseline, NEW s \in Analyses(current, baseline)
  PROVE  \/ s.segment = Everything
         \/ \E D \in (SUBSET Dimensions) \ {{}} :
              \E f \in Eligible(current, baseline, D) : s.segment = f.segment
<1> DEFINE e == [D \in (SUBSET Dimensions) \ {{}} |-> Eligible(current, baseline, D)]
           lists == [d \in Dimensions |-> Shortlists(e[{d}])]
           chosen == {c \in [Dimensions -> UNION {lists[d] : d \in Dimensions}] :
                        \A d \in Dimensions : c[d] \in lists[d]}
           Seeds(c) == [d \in Dimensions |-> {f.segment[d] : f \in c[d]}]
           Found(c) == (UNION {c[d] : d \in Dimensions}) \cup Combinations(e, Seeds(c))
           best == UNION {Best(Found(c)) : c \in chosen}
<1>1. s \in IF best = {} THEN {NoScope}
           ELSE {[segment |-> f.segment, concentrated |-> f.concentrated, rate |-> f.rate] : f \in best}
  BY DEF Analyses, Scopes
<1> HIDE DEF best
<1>2. s = NoScope \/ \E f \in best : s.segment = f.segment
  BY <1>1
<1>3. ASSUME NEW f \in best
      PROVE  \E D \in (SUBSET Dimensions) \ {{}} : f \in e[D]
  <2>1. PICK c \in chosen : f \in Best(Found(c))
    BY DEF best
  <2>2. f \in Found(c)
    BY <2>1 DEF Best
  <2>3. CASE f \in UNION {c[d] : d \in Dimensions}
    <3>1. PICK d \in Dimensions : f \in c[d]
      BY <2>3
    <3>2. c[d] \in Shortlists(e[{d}])
      BY <2>1
    <3>3. f \in e[{d}]
      BY <3>1, <3>2 DEF Shortlists
    <3> QED
      BY <3>3
  <2>4. CASE f \in Combinations(e, Seeds(c))
    <3> HIDE DEF e, Seeds
    <3> QED
      BY <2>4, CombinationFacts
  <2> HIDE DEF e, Seeds, chosen
  <2> QED
    BY <2>2, <2>3, <2>4
<1>4. \A D \in (SUBSET Dimensions) \ {{}} : e[D] = Eligible(current, baseline, D)
  OBVIOUS
<1> HIDE DEF e
<1> QED
  BY <1>2, <1>3, <1>4 DEF NoScope

-----------------------------------------------------------------------------
(* The scope of the analysis is a part of the only triple with errors.     *)
LEMMA OnlyFailingIsBlamed ==
  ASSUME NEW w, NEW s \in Analyses(w, Baseline), NEW t \in Observed,
         \A u \in Observed \ {t} : w[u].errors = 0,
         NEW d \in DOMAIN s.segment
  PROVE  s.segment[d] = t[d]
<1>1. CASE s.segment = Everything
  BY <1>1 DEF Everything
<1>2. ASSUME NEW D \in SUBSET Dimensions, NEW f \in Eligible(w, Baseline, D), s.segment = f.segment
      PROVE  s.segment[d] = t[d]
  <2>1. PICK segment : f = Finding(w, Baseline, segment) /\ f.eligible
    BY DEF Eligible
  <2>2. f.segment = segment /\ Counts(w, segment).errors >= MinErrors
    BY <2>1 DEF Finding
  <2> DEFINE within == {u \in Observed : Restrict(u, DOMAIN segment) = segment}
  <2>3. Counts(w, segment).errors = ErrorSum(w, within)
    BY DEF Counts, ErrorSum
  <2>4. t \in within
    <3> SUFFICES ASSUME t \notin within PROVE FALSE
      OBVIOUS
    <3>1. IsFiniteSet(within) /\ \A u \in within : w[u].errors = 0
      BY WindowAssumption, FS_Subset
    <3> HIDE DEF within
    <3>2. ErrorSum(w, within) = 0
      BY <3>1, SumOfZeros
    <3> QED
      BY <2>2, <2>3, <3>2, WindowAssumption
  <2> QED
    BY <1>2, <2>2, <2>4 DEF Restrict
<1> QED
  BY <1>1, <1>2, AnalysisFacts

(* What a batch found.                                                     *)
LEMMA FoundFacts ==
  ASSUME NEW found \in Findings
  PROVE  /\ found.window \in Windows
         /\ \E s \in Analyses(found.window, Baseline) : found.analysis.segment = s.segment
<1>1. PICK w \in Windows :
        found \in {[window |-> w,
           analysis |-> [segment |-> s.segment, concentrated |-> s.concentrated, signature |-> g],
           anomaly |-> AtLeast(GlobalIncrease(w), MinAnomaly) /\ Above(GlobalIncrease(w), <<0, 1>>),
           recovery |-> AtLeast(MaxResidual, GlobalIncrease(w))] :
            s \in Analyses(w, Baseline), g \in Signatures(w)}
  BY DEF Findings
<1>2. PICK s \in Analyses(w, Baseline), g \in Signatures(w) :
        found = [window |-> w,
           analysis |-> [segment |-> s.segment, concentrated |-> s.concentrated, signature |-> g],
           anomaly |-> AtLeast(GlobalIncrease(w), MinAnomaly) /\ Above(GlobalIncrease(w), <<0, 1>>),
           recovery |-> AtLeast(MaxResidual, GlobalIncrease(w))]
  BY <1>1
<1> QED
  BY <1>2

-----------------------------------------------------------------------------
(* The behaviours.                                                         *)

(* The type of the scope that an analysis names.                           *)
LEMMA AnalysisNamesASegment ==
  ASSUME NEW w, NEW s \in Analyses(w, Baseline)
  PROVE  s.segment \in {Everything} \cup {Restrict(t, D) : t \in Observed, D \in SUBSET Dimensions}
<1>1. CASE s.segment = Everything
  BY <1>1
<1>2. ASSUME NEW D \in SUBSET Dimensions, NEW f \in Eligible(w, Baseline, D), s.segment = f.segment
      PROVE  s.segment \in {Restrict(t, E) : t \in Observed, E \in SUBSET Dimensions}
  <2>1. PICK t \in Observed : f = Finding(w, Baseline, Restrict(t, D))
    BY DEF Eligible
  <2>2. f.segment = Restrict(t, D)
    BY <2>1 DEF Finding
  <2> QED
    BY <1>2, <2>2
<1> QED
  BY <1>1, <1>2, AnalysisFacts

(* A result of the engine is made of its key and of an analysis by ranking *)
(* the changes it names; what it names are changes.                        *)
MadeOf(result) ==
  /\ result.made.changes \subseteq Changes
  /\ result.made.recovered \in BOOLEAN
  /\ LET leaders == Leaders(result.basis, result.made.changes, result.made.recovered)
     IN  /\ result.overall = Overall(leaders)
         /\ result.leader \in IF leaders = {} THEN {NoLeader} ELSE {x.event_id : x \in leaders}

Ranks == arrived \subseteq Changes /\ (rca # NoResult => MadeOf(rca))

LEMMA MadeByBatch ==
  ASSUME NEW found \in Findings, Analyse(found), arrived \subseteq Changes
  PROVE  rca' = rca \/ MadeOf(rca')
<1> DEFINE key == Key(incident'.version, incident'.lifecycle)
           L == Leaders(found.analysis, arrived, key.recovered)
<1>1. CASE rca.made = key
  BY <1>1 DEF Analyse
<1>2. CASE rca.made # key
  <2>1. PICK leader \in IF L = {} THEN {NoLeader} ELSE {x.event_id : x \in L} :
          rca' = [made |-> key, basis |-> found.analysis, leader |-> leader, overall |-> Overall(L)]
    BY <1>2 DEF Analyse
  <2>2. key.recovered \in BOOLEAN /\ key.changes = arrived
    BY DEF Key
  <2> HIDE DEF key
  <2>3. /\ rca'.made = key /\ rca'.basis = found.analysis /\ rca'.leader = leader
        /\ rca'.overall = Overall(L)
    BY <2>1
  <2> QED
    BY <2>2, <2>3 DEF MadeOf
<1> QED
  BY <1>1, <1>2

(* Ranks holds at every step.                                              *)
LEMMA RanksHolds == Spec => []Ranks
<1>1. Init => Ranks
  BY DEF Init, Ranks
<1>2. Ranks /\ [Next]_vars => Ranks'
  <2> SUFFICES ASSUME Ranks, [Next]_vars PROVE Ranks'
    OBVIOUS
  <2>1. CASE UNCHANGED vars
    BY <2>1 DEF Ranks, vars, MadeOf
  <2>2. ASSUME NEW c \in Changes \ arrived, Arrives(c) PROVE Ranks'
    BY <2>2 DEF Ranks, Arrives, MadeOf
  <2>3. ASSUME NEW found \in Findings, Batch(found) PROVE Ranks'
    <3>1. Analyse(found) /\ arrived' = arrived
      BY <2>3 DEF Batch, Analyse
    <3>2. rca' = rca \/ MadeOf(rca')
      BY <3>1, MadeByBatch DEF Ranks
    <3> QED
      BY <3>1, <3>2 DEF Ranks, MadeOf
  <2>4. CASE Restart
    BY <2>4 DEF Ranks, Restart
  <2> QED
    BY <2>1, <2>2, <2>3, <2>4 DEF Next
<1> QED
  BY <1>1, <1>2, PTL DEF Spec

(* What the last batch left: a window, and the scope of an analysis of it. *)
Scoped ==
  /\ window \in Windows \cup {NoWindow}
  /\ \/ analysis.segment = Everything
     \/ \E s \in Analyses(window, Baseline) : analysis.segment = s.segment

LEMMA ScopedHolds == Spec => []Scoped
<1>1. Init => Scoped
  BY DEF Init, Scoped, NoAnalysis
<1>2. Scoped /\ [Next]_vars => Scoped'
  <2> SUFFICES ASSUME Scoped, [Next]_vars PROVE Scoped'
    OBVIOUS
  <2>1. CASE UNCHANGED <<window, analysis>>
    BY <2>1 DEF Scoped
  <2>2. ASSUME NEW found \in Findings, Batch(found) PROVE Scoped'
    <3>1. window' = found.window /\ analysis' = found.analysis
      BY <2>2 DEF Batch, Analyse
    <3> QED
      BY <3>1, FoundFacts DEF Scoped
  <2> QED
    BY <2>1, <2>2 DEF Next, vars, Arrives, Restart
<1> QED
  BY <1>1, <1>2, PTL DEF Spec

(* Its types: an analysis names values of an observed triple, the versions *)
(* stay in their bound, and a result says that there is no evidence        *)
(* exactly when no change leads.                                           *)
THEOREM AnalysisTypeCorrect == Spec => []TypeOK
<1> DEFINE Counted ==
      incident \in [lifecycle : {"none", "OPEN", "RECOVERY_CANDIDATE", "RESOLVED"},
                    version : 1..MaxVersion]
<1>1. Init => Counted
  BY BoundAssumption DEF Init
<1>2. Counted /\ [Next]_vars => Counted'
  <2> SUFFICES ASSUME Counted, [Next]_vars PROVE Counted'
    OBVIOUS
  <2>1. CASE UNCHANGED incident
    BY <2>1
  <2>2. ASSUME NEW found \in Findings, Degrades(found) PROVE Counted'
    BY <2>2, BoundAssumption DEF Degrades
  <2>3. ASSUME NEW found \in Findings, Recovers(found) PROVE Counted'
    BY <2>3, BoundAssumption DEF Recovers
  <2>4. CASE Lingers
    BY <2>4 DEF Lingers, Active
  <2> QED
    BY <2>1, <2>2, <2>3, <2>4 DEF Next, vars, Arrives, Batch, Repeats, Restart
<1>3. Ranks => /\ arrived \subseteq Changes
               /\ rca.overall \in {0, 2, 3}
               /\ rca.leader \in {c.event_id : c \in Changes} \cup {NoLeader}
               /\ (rca.overall = 0) = (rca.leader = NoLeader)
  <2> SUFFICES ASSUME Ranks
               PROVE  /\ rca.overall \in {0, 2, 3}
                      /\ rca.leader \in {c.event_id : c \in Changes} \cup {NoLeader}
                      /\ (rca.overall = 0) = (rca.leader = NoLeader)
    BY DEF Ranks
  <2>1. CASE rca = NoResult
    BY <2>1 DEF NoResult
  <2>2. CASE MadeOf(rca)
    <3>1. PICK r : r = rca
      OBVIOUS
    <3>2. PICK L : L = Leaders(r.basis, r.made.changes, r.made.recovered)
      OBVIOUS
    <3>3. PICK A : A = Assessed(r.basis, r.made.changes, r.made.recovered)
      OBVIOUS
    <3>4. r.made.changes \in SUBSET Changes /\ r.made.recovered \in BOOLEAN
      BY <2>2, <3>1 DEF MadeOf
    <3>5. Overall(L) \in {0, 2, 3} /\ (L = {} <=> Overall(L) = 0) /\ L \subseteq A
      BY <3>2, <3>3, <3>4, LeaderIsStrongest
    <3>6. \A x \in A : x.event_id \in {c.event_id : c \in Changes}
      BY <3>3, <3>4, AssessedFacts
    <3>7. /\ r.overall = Overall(L)
          /\ r.leader \in IF L = {} THEN {NoLeader} ELSE {x.event_id : x \in L}
      BY <2>2, <3>1, <3>2 DEF MadeOf
    <3>8. r.leader \in {c.event_id : c \in Changes} \cup {NoLeader}
      BY <3>5, <3>6, <3>7
    <3>9. (r.overall = 0) <=> (r.leader = NoLeader)
      BY <3>5, <3>6, <3>7, ChangesAssumption
    <3> QED
      BY <3>1, <3>5, <3>7, <3>8, <3>9
  <2> QED
    BY <2>1, <2>2 DEF Ranks
<1>4. Scoped => /\ window \in Windows \cup {NoWindow}
                /\ analysis.segment
                     \in {Everything} \cup {Restrict(t, D) : t \in Observed, D \in SUBSET Dimensions}
  <2>1. PICK w : w = window
    OBVIOUS
  <2> QED
    BY <2>1, AnalysisNamesASegment DEF Scoped
<1>5. Spec => []Counted
  BY <1>1, <1>2, PTL DEF Spec
<1>6. Counted /\ Ranks /\ Scoped => TypeOK
  BY <1>3, <1>4 DEF TypeOK
<1> QED
  BY <1>5, <1>6, RanksHolds, ScopedHolds, PTL

(* The healthy are not blamed: where all errors of the window last         *)
(* analysed are of one triple of values, the affected scope names no other *)
(* value (analyzer.py:107-129, 203-216).                                   *)
THEOREM OnlyTheFailingAreBlamed == Spec => []HealthyIsNotBlamed
<1>1. Scoped => HealthyIsNotBlamed
  <2> SUFFICES ASSUME Scoped, NEW t \in Observed,
                      \A u \in Observed \ {t} : window[u].errors = 0,
                      NEW d \in DOMAIN analysis.segment
               PROVE  analysis.segment[d] = t[d]
    BY DEF HealthyIsNotBlamed
  <2>1. CASE analysis.segment = Everything
    BY <2>1 DEF Everything
  <2>2. CASE \E s \in Analyses(window, Baseline) : analysis.segment = s.segment
    <3>1. PICK w : w = window
      OBVIOUS
    <3>2. PICK s \in Analyses(w, Baseline) : analysis.segment = s.segment
      BY <2>2, <3>1
    <3>3. \A u \in Observed \ {t} : w[u].errors = 0
      BY <3>1
    <3> QED
      BY <3>2, <3>3, OnlyFailingIsBlamed
  <2> QED
    BY <2>1, <2>2 DEF Scoped
<1> QED
  BY <1>1, ScopedHolds, PTL

(* Evidence only adds up: neither one more change nor the confirmed        *)
(* recovery lowers the overall tier of an analysis (engine.py:193-251).    *)
THEOREM EvidenceNeverWeakens == Spec => []EvidenceOnlyAdds
<1>1. Ranks => EvidenceOnlyAdds
  <2> SUFFICES ASSUME arrived \subseteq Changes,
                      NEW known \in {arrived \cup {c} : c \in Changes} \cup {arrived},
                      NEW recovered \in BOOLEAN
               PROVE  Overall(Leaders(analysis, known, recovered))
                        >= Overall(Leaders(analysis, arrived, FALSE))
    BY DEF Ranks, EvidenceOnlyAdds
  <2>1. arrived \in SUBSET Changes /\ known \in SUBSET Changes /\ arrived \subseteq known
    OBVIOUS
  <2>2. PICK a, f : a = arrived /\ f = analysis
    OBVIOUS
  <2> QED
    BY <2>1, <2>2, EvidenceAddsUp
<1> QED
  BY <1>1, RanksHolds, PTL

(* The strongest leads: no assessed change has stronger evidence than the  *)
(* overall tier says, shortlisted or not (engine.py:222-251).              *)
THEOREM TheStrongestLeads == Spec => []StrongestLeads
<1>1. Ranks => StrongestLeads
  <2> SUFFICES ASSUME MadeOf(rca),
                      NEW x \in Assessed(rca.basis, rca.made.changes, rca.made.recovered),
                      x.tier >= 2
               PROVE  rca.overall >= x.tier
    BY DEF Ranks, StrongestLeads
  <2>1. PICK r : r = rca
    OBVIOUS
  <2>2. /\ r.made.changes \in SUBSET Changes /\ r.made.recovered \in BOOLEAN
        /\ r.overall = Overall(Leaders(r.basis, r.made.changes, r.made.recovered))
        /\ x \in Assessed(r.basis, r.made.changes, r.made.recovered)
    BY <2>1 DEF MadeOf
  <2>3. Overall(Leaders(r.basis, r.made.changes, r.made.recovered)) >= x.tier
    BY <2>2, LeaderIsStrongest
  <2> QED
    BY <2>1, <2>2, <2>3
<1> QED
  BY <1>1, RanksHolds, PTL

(* A kept result is stale only within a version: when the analysis beside  *)
(* it is another than it was made of, the incident has the same version    *)
(* and the same recovery as when it was made (engine.py:121-130).          *)
THEOREM KeptOnlyWithinVersion == Spec => []StaleOnlyWithinVersion
<1> DEFINE Kept == rca # NoResult => /\ rca.made.version = incident.version
                                     /\ rca.made.recovered = (incident.lifecycle = "RESOLVED")
<1>1. Init => Kept
  BY DEF Init
<1>2. Kept /\ [Next]_vars => Kept'
  <2> SUFFICES ASSUME Kept, [Next]_vars PROVE Kept'
    OBVIOUS
  <2>1. CASE UNCHANGED <<incident, rca>>
    BY <2>1
  <2>2. ASSUME NEW found \in Findings, Batch(found) PROVE Kept'
    <3> DEFINE key == Key(incident'.version, incident'.lifecycle)
    <3>1. rca'.made = key
      <4>1. Analyse(found)
        BY <2>2 DEF Batch
      <4>2. CASE rca.made = key
        BY <4>1, <4>2 DEF Analyse
      <4>3. CASE rca.made # key
        <5>1. \E leader : rca' = [made |-> key, basis |-> found.analysis, leader |-> leader,
                 overall |-> Overall(Leaders(found.analysis, arrived, key.recovered))]
          BY <4>1, <4>3 DEF Analyse
        <5> HIDE DEF key
        <5> QED
          BY <5>1
      <4> QED
        BY <4>2, <4>3
    <3>2. key.version = incident'.version /\ key.recovered = (incident'.lifecycle = "RESOLVED")
      BY DEF Key
    <3> QED
      BY <3>1, <3>2
  <2>3. CASE Restart
    BY <2>3 DEF Restart
  <2> QED
    BY <2>1, <2>2, <2>3 DEF Next, vars, Arrives
<1>3. Kept => StaleOnlyWithinVersion
  BY DEF StaleOnlyWithinVersion
<1> QED
  BY <1>1, <1>2, <1>3, PTL DEF Spec
=============================================================================
