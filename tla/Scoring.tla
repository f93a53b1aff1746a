------------------------------ MODULE Scoring -------------------------------
(***************************************************************************)
(* Layer 3 as operators: meanings and entropy, confidence, risk, and the   *)
(* decision matrix with its hard rules.                                    *)
(*                                                                         *)
(* Terms are in percent; confidence is exact, in units of 10^-8.  Risk is  *)
(* compared by its log-odds, in units of 10^-4: the sigmoid is increasing, *)
(* so a risk is at or over a threshold when its log-odds are.              *)
(***************************************************************************)
EXTENDS Integers, FiniteSets

CONSTANTS
    Thresholds    \* [tau_lo, tau_mid, tau_hi : 10^-8, rho_lo, rho_hi : log-odds]

ASSUME ThresholdsAssumption ==
    /\ Thresholds \in [{"tau_lo", "tau_mid", "tau_hi", "rho_lo", "rho_hi"} -> Int]
    /\ 0 <= Thresholds.tau_lo
    /\ Thresholds.tau_lo < Thresholds.tau_mid
    /\ Thresholds.tau_mid < Thresholds.tau_hi
    /\ Thresholds.tau_hi <= 100000000
    /\ Thresholds.rho_lo < Thresholds.rho_hi

AtMost(a, b) == IF a <= b THEN a ELSE b
AtLeast(a, b) == IF a >= b THEN a ELSE b

-----------------------------------------------------------------------------
(* Entropy.  A draw without an answer is a meaning of its own.             *)

SameMeaning == 80

\* Both ways, or it is not the same meaning.
Alike(draws, i, j, NoAnswer, entail) ==
    /\ draws[i] # NoAnswer /\ draws[j] # NoAnswer
    /\ entail[<<draws[i], draws[j]>>] >= SameMeaning
    /\ entail[<<draws[j], draws[i]>>] >= SameMeaning

\* The draws union-find puts with draw i.
Cluster(draws, i, NoAnswer, entail) ==
    {j \in DOMAIN draws :
        \A S \in SUBSET DOMAIN draws :
            (/\ i \in S
             /\ \A x \in S, y \in DOMAIN draws :
                    Alike(draws, x, y, NoAnswer, entail) => y \in S) => j \in S}

\* H / log K in percent, for K up to 3.
Entropy(draws, NoAnswer, entail) ==
    LET clusters == {Cluster(draws, i, NoAnswer, entail) : i \in DOMAIN draws}
    IN IF Cardinality(clusters) <= 1 THEN 0
       ELSE IF Cardinality(clusters) = Cardinality(DOMAIN draws) THEN 100
       ELSE 58

-----------------------------------------------------------------------------
(* Confidence.                                                             *)

GroundingMultiplier ==
    [trusted_system |-> 100, verified_user |-> 95, unverified_user |-> 80,
     tool_output |-> 85, retrieved_web |-> 60]

\* 10^-6.
Grounding(span, tier, alignment) == span * GroundingMultiplier[tier] * alignment

\* 1 - exp(-0.8 (n - 1)), in percent, for one source to four.
Corroboration(sources) == <<0, 55, 80, 91>>[sources]

\* Nothing was measured where structure settled the conflict.
Consistency(report) ==
    IF report.kind \in {"cardinality", "temporal_overlap"} THEN 0
    ELSE IF report.kind = "refinement" THEN 90
    ELSE 100 - report.contradiction

\* V1_WEIGHTS.  They sum to one, so the composite needs no clamp.
Weights == [uncertainty |-> 35, grounding |-> 25, schema_fit |-> 10,
            corroboration |-> 15, consistency |-> 15]

Confidence(entropy, grounding, fit, sources, report) ==
      Weights.grounding * grounding
    + 10000 * (  Weights.uncertainty * (100 - entropy)
               + Weights.schema_fit * fit
               + Weights.corroboration * Corroboration(sources)
               + Weights.consistency * Consistency(report))

-----------------------------------------------------------------------------
(* Risk.                                                                   *)

ImpactFeature == [low |-> 0, medium |-> 33, high |-> 66, critical |-> 100]

\* risk_floor, as log-odds: .15, .35, .60, .80.
RiskFloor == [low |-> -17346, medium |-> -6190, high |-> 4055, critical |-> 13863]

PiiFeature == [none |-> 0, quasi_identifier |-> 50, direct |-> 80, special_category |-> 100]

IrreversibilityFeature == [reversible |-> 0, partial |-> 50, irreversible |-> 100]

ScopeFeature == [session |-> 10, user |-> 50, org |-> 100]

MutationFeature == [coexist |-> 0, refine |-> 30, supersede |-> 70, retract |-> 100]

\* MutationType.from_conflict: what is not known supersedes.
Mutation(kind) ==
    CASE kind \in {"none", "duplicate"} -> "coexist"
      [] kind = "refinement" -> "refine"
      [] OTHER -> "supersede"

\* log(1 + degree) / log(51) in percent, for up to three edges and from fifty on.
GraphFanout(degree) == IF degree >= 50 THEN 100 ELSE <<0, 18, 28, 35>>[degree + 1]

SourceTierRisk(tier) == 100 - GroundingMultiplier[tier]

\* No incumbent: all new.
Novelty(found, cosine) == IF found THEN AtMost(100, AtLeast(0, 100 - cosine)) ELSE 100

\* V1_BETAS.
Betas == [impact |-> 220, mutation |-> 160, scope |-> 130, fanout |-> 90, pii |-> 110,
          irreversibility |-> 140, tier |-> 100, novelty |-> 50, bias |-> -34000]

Weighted(spec, mutation, scope, degree, tier, novelty) ==
      Betas.impact * ImpactFeature[spec.impact]
    + Betas.mutation * MutationFeature[mutation]
    + Betas.scope * ScopeFeature[scope]
    + Betas.fanout * GraphFanout(degree)
    + Betas.pii * PiiFeature[spec.pii]
    + Betas.irreversibility * IrreversibilityFeature[spec.irreversibility]
    + Betas.tier * SourceTierRisk(tier)
    + Betas.novelty * novelty
    + Betas.bias

Risk(weighted, impact) == AtLeast(weighted, RiskFloor[impact])

-----------------------------------------------------------------------------
(* The decision.                                                           *)

\* Decisions, the most permissive first.
Permissiveness == [auto_write |-> 1, escalate |-> 2, hitl_review |-> 3, reject |-> 4]

ConfidenceBand(c) ==
    IF c >= Thresholds.tau_hi THEN 4
    ELSE IF c >= Thresholds.tau_mid THEN 3
    ELSE IF c >= Thresholds.tau_lo THEN 2
    ELSE 1

\* Faulty: a risk on the threshold counts as under it.
RiskBandAbove(r) ==
    IF r > Thresholds.rho_hi THEN 3 ELSE IF r > Thresholds.rho_lo THEN 2 ELSE 1

RiskBand(r) ==
    IF r >= Thresholds.rho_hi THEN 3 ELSE IF r >= Thresholds.rho_lo THEN 2 ELSE 1

\* Confidence down, risk across; the starred cell asks for corroboration.
Matrix == << <<"reject",     "reject",      "hitl_review">>,
             <<"escalate",   "escalate",    "hitl_review">>,
             <<"auto_write", "hitl_review", "hitl_review">>,
             <<"auto_write", "starred",     "hitl_review">> >>

FromMatrix(confidence, risk, corroborated) ==
    LET cell == Matrix[ConfidenceBand(confidence)][RiskBand(risk)]
    IN IF cell # "starred" THEN cell
       ELSE IF corroborated THEN "auto_write" ELSE "hitl_review"

\* The decisions the hard rules call for.  What detects an injection, a spent
\* budget or an open circuit does not exist yet: the signals are always false.
Rules(spec, tier, mutation, hint, obligations, corroborated, escalated) ==
    {rule \in
       {<<tier = "retrieved_web" /\ spec.impact \in {"high", "critical"}, "hitl_review">>,
        <<spec.requires_corroboration /\ ~corroborated, "hitl_review">>,
        <<hint = "escalate", IF escalated THEN "hitl_review" ELSE "escalate">>,
        <<"require_review" \in obligations, "hitl_review">>,
        <<spec.impact = "critical" /\ mutation = "retract", "hitl_review">>} : rule[1]}

\* apply_overrides: a rule tightens a decision and never loosens it.
Tightened(decision, rules) ==
    LET called == {decision} \cup {rule[2] : rule \in rules}
    IN CHOOSE d \in called :
           \A other \in called : Permissiveness[other] <= Permissiveness[d]

Decide(confidence, risk, corroborated, rules, escalated) ==
    LET d == Tightened(FromMatrix(confidence, risk, corroborated), rules)
    IN IF escalated /\ d = "escalate" THEN "hitl_review" ELSE d
=============================================================================
