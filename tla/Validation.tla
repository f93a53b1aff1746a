----------------------------- MODULE Validation -----------------------------
(***************************************************************************)
(* Layer 2 as operators: the schema gate against the ontology pack, and    *)
(* what a candidate's incumbents make of it (conflict.py, dedupe.py).      *)
(*                                                                         *)
(* Scores are in percent.  A value is its Python kind and, of strings, the *)
(* little that coercion looks at.                                          *)
(***************************************************************************)
EXTENDS Integers, SequencesExt

CONSTANTS
    Predicates    \* the pack: predicate name -> its PredicateSpec

Kinds == {"str", "float", "bool", "dict"}
Words == {"plain", "numeral", "yes", "no"}

Value(kind, word) == [kind |-> kind, word |-> word]
Values == [kind : Kinds, word : Words]

ObjectTypes == {"text", "number", "boolean", "coded", "entity_ref"}

PredicateSpecs ==
    [subject : STRING, object : ObjectTypes,
     cardinality : {"one", "many", "one_per_time"},
     impact : {"low", "medium", "high", "critical"},
     pii : {"none", "quasi_identifier", "direct", "special_category"},
     irreversibility : {"reversible", "partial", "irreversible"},
     min_source_tier : {"trusted_system", "verified_user", "unverified_user",
                        "tool_output", "retrieved_web"},
     requires_corroboration : BOOLEAN]

ASSUME ValidationAssumption ==
    \A p \in DOMAIN Predicates : Predicates[p] \in PredicateSpecs

-----------------------------------------------------------------------------
(* The schema gate.                                                        *)

Misfit == [outcome |-> "misfit"]
Fits(value) == [outcome |-> "exact", value |-> value]
Coerced(value) == [outcome |-> "coerced", value |-> value]

AsText(v) ==
    CASE v.kind = "str"  -> Fits(v)
      [] v.kind \in {"bool", "float"} -> Coerced(Value("str", v.word))
      [] v.kind = "dict" -> Misfit

\* A boolean is no number, though Python counts it as one.
AsNumber(v) ==
    CASE v.kind = "float" -> Fits(v)
      [] v.kind = "str" /\ v.word = "numeral" -> Coerced(Value("float", "numeral"))
      [] OTHER -> Misfit

AsBoolean(v) ==
    CASE v.kind = "bool" -> Fits(v)
      [] v.kind = "str" /\ v.word \in {"yes", "no"} -> Coerced(Value("bool", v.word))
      [] OTHER -> Misfit

Fit(v, type) ==
    CASE type \in {"coded", "entity_ref"} -> IF v.kind = "str" THEN Fits(v) ELSE Misfit
      [] type = "text"    -> AsText(v)
      [] type = "number"  -> AsNumber(v)
      [] type = "boolean" -> AsBoolean(v)

\* The candidate with its outcome, its schema fit, and the object as fitted.
Gated(c) ==
    IF c.predicate \notin DOMAIN Predicates
    THEN [c |-> c, outcome |-> "quarantined", fit |-> 40]
    ELSE LET f == Fit(c.object, Predicates[c.predicate].object)
         IN CASE f.outcome = "misfit"  -> [c |-> c, outcome |-> "rejected", fit |-> 0]
              [] f.outcome = "exact"   -> [c |-> c, outcome |-> "pass", fit |-> 100]
              [] f.outcome = "coerced" -> [c |-> [c EXCEPT !.object = f.value],
                                           outcome |-> "coerced", fit |-> 70]

\* The gated candidates with one of these outcomes.
Routed(all, outcomes) == [i \in {j \in DOMAIN all : all[j].outcome \in outcomes} |-> all[i]]

\* Faulty: a candidate whose object had to be coerced goes nowhere.
GateExact(candidates) ==
    LET all == [i \in DOMAIN candidates |-> Gated(candidates[i])]
    IN [admitted    |-> Routed(all, {"pass"}),
        quarantined |-> Routed(all, {"quarantined"}),
        rejected    |-> Routed(all, {"rejected"})]

Gate(candidates) ==
    LET all == [i \in DOMAIN candidates |-> Gated(candidates[i])]
    IN [admitted    |-> Routed(all, {"pass", "coerced"}),
        quarantined |-> Routed(all, {"quarantined"}),
        rejected    |-> Routed(all, {"rejected"})]

-----------------------------------------------------------------------------
(* Conflicts.  A hit is an incumbent as search returns it: its object, its *)
(* cosine, and the interval in which it holds.                             *)

Open == 0    \* no valid_from, no valid_to

DuplicateCosine  == 95
RefinementCosine == 80
Entailed         == 85
ContradictionFloor == 65
AmbiguousFloor   == 30

Resolution(kind, hint) == [kind |-> kind, hint |-> hint]
CONTRADICTION    == Resolution("contradiction", "escalate")
AMBIGUOUS        == Resolution("none", "escalate")
CARDINALITY      == Resolution("cardinality", "supersede")
TEMPORAL_OVERLAP == Resolution("temporal_overlap", "supersede")
DUPLICATE        == Resolution("duplicate", "merge")
REFINEMENT       == Resolution("refinement", "supersede")
COEXIST          == Resolution("none", "coexist")

\* Most severe first.
Precedence == <<CONTRADICTION, AMBIGUOUS, CARDINALITY, TEMPORAL_OVERLAP,
                DUPLICATE, REFINEMENT, COEXIST>>

Rank(resolution) == CHOOSE i \in DOMAIN Precedence : Precedence[i] = resolution

Classify(cosine, j, restates) ==
    IF j.contradiction >= ContradictionFloor THEN CONTRADICTION
    ELSE IF j.contradiction >= AmbiguousFloor THEN AMBIGUOUS
    ELSE IF restates THEN DUPLICATE
    ELSE IF cosine >= DuplicateCosine /\ j.fwd >= Entailed /\ j.rev >= Entailed
         THEN DUPLICATE
    ELSE IF cosine >= RefinementCosine /\ j.rev >= Entailed /\ j.fwd < Entailed
         THEN REFINEMENT
    ELSE COEXIST

\* Faulty: the nearest incumbent speaks for all of them.
NearestFirst(resolutions) == 1

\* most_severe: ties go to the nearest.
MostSevere(resolutions) ==
    CHOOSE i \in DOMAIN resolutions :
        \A j \in DOMAIN resolutions :
            \/ Rank(resolutions[i]) < Rank(resolutions[j])
            \/ Rank(resolutions[i]) = Rank(resolutions[j]) /\ i <= j

\* [from, to) on both sides; an open end reaches as far as it can.
Overlaps(c, hit) ==
    /\ c.to = Open \/ hit.from < c.to
    /\ hit.to = Open \/ c.from = Open \/ c.from < hit.to

Restates(c, hit) == hit.object = c.object /\ Overlaps(c, hit)

\* The nearest of some hits, 0 where there is none.
NearestOf(fitting) ==
    IF fitting = {} THEN 0 ELSE CHOOSE i \in fitting : \A j \in fitting : i <= j

\* The live value a ONE predicate already has.
LiveIncumbent(c, nearest) ==
    NearestOf({i \in DOMAIN nearest : nearest[i].object # c.object})

FirstOverlap(c, nearest) ==
    NearestOf({i \in DOMAIN nearest : nearest[i].object # c.object /\ Overlaps(c, nearest[i])})

Report(resolution, rank, contradiction) ==
    [kind |-> resolution.kind, hint |-> resolution.hint,
     incumbent |-> rank, contradiction |-> contradiction]

NoConflict == Report(COEXIST, 0, 0)

\* The report structure alone settles these, without a model call.
Structural(c, spec, nearest) ==
    IF nearest = <<>> THEN {NoConflict}
    ELSE IF spec.cardinality = "one" /\ LiveIncumbent(c, nearest) # 0
         THEN {Report(CARDINALITY, LiveIncumbent(c, nearest), 0)}
    ELSE IF spec.cardinality = "one_per_time" /\ FirstOverlap(c, nearest) # 0
         THEN {Report(TEMPORAL_OVERLAP, FirstOverlap(c, nearest), 0)}
    ELSE {}

\* _adjudicate: judgements and incumbents are paired by position.
Adjudicate(c, nearest, judgements) ==
    LET resolutions == [i \in DOMAIN nearest |->
                          Classify(nearest[i].cosine, judgements[i],
                                   Restates(c, nearest[i]))]
        winner == MostSevere(resolutions)
    IN Report(resolutions[winner], winner, judgements[winner].contradiction)
=============================================================================
