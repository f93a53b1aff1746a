---------------------------- MODULE PipelineProofs ----------------------------
(***************************************************************************)
(* A run leaves no request behind it, loses no turn and no fact between    *)
(* its stages, and cites only what it kept; a fact that is in dispute with *)
(* any of its incumbents, or that weighs more than low impact, is not      *)
(* written unseen: for every conversation, every pack, every answer of the *)
(* models and any number of candidates.                                    *)
(***************************************************************************)
EXTENDS Pipeline, FiniteSetTheorems, WellFoundedInduction, TLAPS

-----------------------------------------------------------------------------
(* The requests of a draw.                                                 *)

\* TaskGroup: whoever leaves a draw leaves when every request has ended.
THEOREM NoOrphan == Spec => []NoOrphans
<1>1. Init => NoOrphans
  BY DEF Init, NoOrphans, Pending
<1>2. NoOrphans /\ [Next]_vars => NoOrphans'
  <2> SUFFICES ASSUME NoOrphans, [Next]_vars PROVE NoOrphans'
    OBVIOUS
  <2> USE DEF NoOrphans, Pending
  <2>1. ASSUME UNCHANGED <<requests, pc>> PROVE NoOrphans'
    BY <2>1
  <2>2. ASSUME pc' \in {"canonical", "spread"} PROVE NoOrphans'
    BY <2>2
  <2>3. CASE pc \notin {"canonical", "spread"} /\ UNCHANGED requests
    BY <2>3
  <2>4. CASE DrawGoesOn
    <3>1. pc' = pc /\ Draw(proposal.llm, IF pc = "canonical" THEN 1 ELSE proposal.k - 1)
      BY <2>4 DEF DrawGoesOn
    <3>2. \E i \in DOMAIN requests : Pending(i)
      BY <3>1 DEF Draw, Cancel, Answer, FailRequest, CancelEnds
    <3> QED
      BY <3>1, <3>2
  <2>5. CASE DrawsFail
    BY <2>5 DEF DrawsFail, DrawsDone, Settled, Forgotten, Request
  <2>6. CASE Extract
    <3>1. Settled
      BY <2>6 DEF Extract, DrawsDone
    <3>2. requests' = requests \/ requests' = <<>>
      BY <2>6, Zenon DEF Extract, Raise, intakeVars, drawVars
    <3> QED
      BY <3>1, <3>2 DEF Settled
  <2>7. CASE AskCanonical \/ AskOthers
    BY <2>2, <2>7 DEF AskCanonical, AskOthers
  <2>8. CASE FilterNoise \/ CallRaises \/ NothingToExtract
    BY <2>3, <2>8 DEF FilterNoise, CallRaises, NothingToExtract, Raise, intakeVars, drawVars
  <2>9. CASE ClassifyNoise
    BY <2>3, <2>9 DEF ClassifyNoise, drawVars
  <2>10. CASE Return
    BY <2>3, <2>10 DEF Return, intakeVars, drawVars
  <2>11. ASSUME NEW n \in DOMAIN task, ScoreCandidate(n) PROVE NoOrphans'
    BY <2>1, <2>11, Zenon
       DEF ScoreCandidate, CandidateFails, Enter, Resolve, Retrieve, Detect, Score,
           Move, intakeVars, drawVars
  <2>12. CASE UNCHANGED vars
    BY <2>1, <2>12 DEF vars, intakeVars, drawVars
  <2> QED
    BY <2>4, <2>5, <2>6, <2>7, <2>8, <2>9, <2>10, <2>11, <2>12 DEF Next
<1> QED
  BY <1>1, <1>2, PTL DEF Spec

-----------------------------------------------------------------------------
(* most_severe.                                                            *)

Resolutions == {Precedence[i] : i \in 1..7}

LEMMA RankOf ==
    ASSUME NEW r \in Resolutions
    PROVE  Rank(r) \in 1..7 /\ Precedence[Rank(r)] = r
<1>1. DOMAIN Precedence = 1..7
  BY DEF Precedence
<1> QED
  BY <1>1 DEF Resolutions, Rank

LEMMA Classified ==
    ASSUME NEW cosine, NEW j, NEW restates
    PROVE  Classify(cosine, j, restates) \in Resolutions
<1>1. \A r \in {CONTRADICTION, AMBIGUOUS, DUPLICATE, REFINEMENT, COEXIST} : r \in Resolutions
  BY DEF Resolutions, Precedence
<1> QED
  BY <1>1 DEF Classify

LEMMA LeastNat ==
    ASSUME NEW T \in SUBSET Nat, T # {}
    PROVE  \E x \in T : \A y \in T : x <= y
<1>1. PICK x \in T : \A y \in T : <<y, x>> \notin OpToRel(<, Nat)
  BY NatLessThanWellFounded, WFMin
<1>2. \A y \in T : ~(y < x)
  BY <1>1 DEF OpToRel
<1> QED
  BY <1>2

\* dedupe.most_severe: nothing in the list is more severe than its choice.
LEMMA MostSevereIsMost ==
    ASSUME NEW m \in Nat, m # 0,
           NEW res \in [1..m -> Resolutions]
    PROVE  /\ MostSevere(res) \in 1..m
           /\ \A j \in 1..m : Rank(res[MostSevere(res)]) <= Rank(res[j])
<1>1. \A i \in 1..m : Rank(res[i]) \in 1..7
  BY RankOf
<1> DEFINE ranks == {Rank(res[i]) : i \in 1..m}
<1>2. PICK r \in ranks : \A s \in ranks : r <= s
  <2>1. ranks \in SUBSET Nat /\ Rank(res[1]) \in ranks
    BY <1>1
  <2> QED
    BY <2>1, LeastNat
<1> DEFINE first == {i \in 1..m : Rank(res[i]) = r}
<1>3. PICK i \in first : \A j \in first : i <= j
  <2>1. first \in SUBSET Nat /\ first # {}
    BY <1>2
  <2> QED
    BY <2>1, LeastNat
<1>4. \A j \in 1..m : \/ Rank(res[i]) < Rank(res[j])
                      \/ Rank(res[i]) = Rank(res[j]) /\ i <= j
  <2> SUFFICES ASSUME NEW j \in 1..m
               PROVE  \/ Rank(res[i]) < Rank(res[j])
                      \/ Rank(res[i]) = Rank(res[j]) /\ i <= j
    OBVIOUS
  <2>1. Rank(res[i]) = r /\ i \in 1..m
    BY <1>3
  <2>2. r <= Rank(res[j])
    BY <1>2
  <2>3. Rank(res[j]) = r => i <= j
    BY <1>3
  <2>4. r \in Int /\ Rank(res[j]) \in Int
    BY <1>1, <2>1
  <2> QED
    BY <2>1, <2>2, <2>3, <2>4
<1>5. /\ MostSevere(res) \in 1..m
      /\ \A j \in 1..m :
            \/ Rank(res[MostSevere(res)]) < Rank(res[j])
            \/ Rank(res[MostSevere(res)]) = Rank(res[j]) /\ MostSevere(res) <= j
  BY <1>3, <1>4 DEF MostSevere
<1> QED
  BY <1>1, <1>5

\* conflict._adjudicate: one dispute among any number of judgements escalates.
LEMMA DisputeEscalates ==
    ASSUME NEW c, NEW m \in Nat, NEW hits, DOMAIN hits = 1..m,
           NEW judged \in [1..m -> Judgements],
           NEW d \in 1..m, judged[d].contradiction >= AmbiguousFloor
    PROVE  Adjudicate(c, hits, judged).hint = "escalate"
<1> DEFINE res == [i \in DOMAIN hits |->
                     Classify(hits[i].cosine, judged[i], Restates(c, hits[i]))]
           w == MostSevere(res)
<1>1. res \in [1..m -> Resolutions]
  BY Classified
<1>2. res[d] \in {CONTRADICTION, AMBIGUOUS}
  BY DEF Classify
<1>3. Rank(res[d]) <= 2
  <2>1. Precedence[1] = CONTRADICTION /\ Precedence[2] = AMBIGUOUS
    BY DEF Precedence
  <2>2. \A r \in {CONTRADICTION, AMBIGUOUS} : Rank(r) \in {1, 2}
    <3>1. DOMAIN Precedence = 1..7
      BY DEF Precedence
    <3>2. \A i \in 3..7 : Precedence[i] # CONTRADICTION /\ Precedence[i] # AMBIGUOUS
      BY DEF Precedence, CONTRADICTION, AMBIGUOUS, CARDINALITY, TEMPORAL_OVERLAP,
             DUPLICATE, REFINEMENT, COEXIST, Resolution
    <3> QED
      BY <2>1, <3>1, <3>2 DEF Rank
  <2> QED
    BY <1>2, <2>2
<1>4. w \in 1..m /\ Rank(res[w]) <= Rank(res[d])
  BY <1>1, MostSevereIsMost
<1> HIDE DEF res, w
<1>5. res[w] \in {CONTRADICTION, AMBIGUOUS}
  <2>1. Rank(res[w]) \in 1..7 /\ Precedence[Rank(res[w])] = res[w]
    BY <1>1, <1>4, RankOf
  <2>2. Rank(res[d]) \in 1..7
    BY <1>1, RankOf
  <2>3. Rank(res[w]) \in {1, 2}
    BY <1>3, <1>4, <2>1, <2>2
  <2>4. Precedence[1] = CONTRADICTION /\ Precedence[2] = AMBIGUOUS
    BY DEF Precedence
  <2> QED
    BY <2>1, <2>3, <2>4
<1>6. res[w].hint = "escalate"
  BY <1>5 DEF CONTRADICTION, AMBIGUOUS, Resolution
<1>7. Adjudicate(c, hits, judged) = Report(res[w], w, judged[w].contradiction)
  BY DEF Adjudicate, res, w
<1> QED
  BY <1>6, <1>7 DEF Report

-----------------------------------------------------------------------------
(* apply_overrides.                                                        *)

Decisions == {"auto_write", "escalate", "hitl_review", "reject"}

\* overrides.tighten: a rule never loosens, and each of them is heeded.
LEMMA OnlyTightens ==
    ASSUME NEW d \in Decisions, NEW rules,
           \A rule \in rules : rule[2] \in Decisions
    PROVE  /\ Tightened(d, rules) \in Decisions
           /\ Permissiveness[d] <= Permissiveness[Tightened(d, rules)]
           /\ \A rule \in rules : Permissiveness[rule[2]] <= Permissiveness[Tightened(d, rules)]
<1> DEFINE called == {d} \cup {rule[2] : rule \in rules}
<1>1. called \subseteq Decisions /\ d \in called
  OBVIOUS
<1>2. /\ Permissiveness["auto_write"] = 1 /\ Permissiveness["escalate"] = 2
      /\ Permissiveness["hitl_review"] = 3 /\ Permissiveness["reject"] = 4
  BY DEF Permissiveness
<1>3. \E x \in called : \A y \in called : Permissiveness[y] <= Permissiveness[x]
  <2>1. CASE "reject" \in called
    BY <1>1, <1>2, <2>1 DEF Decisions
  <2>2. CASE "reject" \notin called /\ "hitl_review" \in called
    BY <1>1, <1>2, <2>2 DEF Decisions
  <2>3. CASE "reject" \notin called /\ "hitl_review" \notin called /\ "escalate" \in called
    BY <1>1, <1>2, <2>3 DEF Decisions
  <2>4. CASE \A y \in called : y = "auto_write"
    BY <1>1, <1>2, <2>4
  <2>5. \/ "reject" \in called \/ "hitl_review" \in called \/ "escalate" \in called
        \/ \A y \in called : y = "auto_write"
    BY <1>1 DEF Decisions
  <2> QED
    BY <2>1, <2>2, <2>3, <2>4, <2>5
<1>4. /\ Tightened(d, rules) \in called
      /\ \A y \in called : Permissiveness[y] <= Permissiveness[Tightened(d, rules)]
  BY <1>3 DEF Tightened
<1> QED
  BY <1>1, <1>4

LEMMA MatrixDecides ==
    ASSUME NEW confidence, NEW risk, NEW corroborated
    PROVE  FromMatrix(confidence, risk, corroborated) \in Decisions
<1>1. ConfidenceBand(confidence) \in 1..4 /\ RiskBand(risk) \in 1..3
  BY DEF ConfidenceBand, RiskBand
<1>2. \A i \in 1..4, j \in 1..3 : Matrix[i][j] \in Decisions \cup {"starred"}
  BY DEF Matrix, Decisions
<1>3. Matrix[ConfidenceBand(confidence)][RiskBand(risk)] \in Decisions \cup {"starred"}
  BY <1>1, <1>2
<1> QED
  BY <1>3 DEF FromMatrix, Decisions

LEMMA HeededOrTighter ==
    ASSUME NEW d \in Decisions, NEW rules,
           \A rule \in rules : rule[2] \in Decisions,
           d # "auto_write" \/ \E rule \in rules : rule[2] # "auto_write"
    PROVE  Tightened(d, rules) # "auto_write"
<1>1. /\ Permissiveness[d] <= Permissiveness[Tightened(d, rules)]
      /\ \A rule \in rules : Permissiveness[rule[2]] <= Permissiveness[Tightened(d, rules)]
  BY OnlyTightens
<1>2. \A x \in Decisions : x # "auto_write" => ~(Permissiveness[x] <= Permissiveness["auto_write"])
  BY DEF Decisions, Permissiveness
<1> QED
  BY <1>1, <1>2

\* decision.decide: a hint to escalate is never overruled by the scores.
LEMMA EscalatesAtLeast ==
    ASSUME NEW confidence, NEW risk, NEW spec, NEW tier, NEW mutation,
           NEW obligations
    PROVE  Decide(confidence, risk, Corroborated,
                  Rules(spec, tier, mutation, "escalate", obligations, Corroborated, FALSE),
                  FALSE) # "auto_write"
<1> DEFINE rules == Rules(spec, tier, mutation, "escalate", obligations, Corroborated, FALSE)
           d == FromMatrix(confidence, risk, Corroborated)
<1>1. \A rule \in rules : rule[2] \in Decisions
  BY DEF Rules, Decisions
<1>2. <<TRUE, "escalate">> \in rules
  BY DEF Rules
<1>3. d \in Decisions
  BY MatrixDecides
<1> HIDE DEF rules, d
<1>4. Tightened(d, rules) # "auto_write"
  BY <1>1, <1>2, <1>3, HeededOrTighter
<1> QED
  BY <1>4 DEF Decide, rules, d

\* decision.decide and overrides: with a lower risk threshold no higher than the
\* floor of medium impact, no confidence, no source and no verdict on the
\* incumbents write a fact of more than low impact, or one that needs a second
\* source, on the strength of a single proposal.
THEOREM OnlyLowUnseen ==
    ASSUME NEW spec \in PredicateSpecs, NEW weighted \in Int, NEW confidence,
           NEW tier, NEW mutation, NEW hint, NEW obligations, NEW escalated \in BOOLEAN,
           Thresholds.rho_lo <= RiskFloor["medium"],
           spec.impact # "low" \/ spec.requires_corroboration
    PROVE  Decide(confidence, Risk(weighted, spec.impact), Corroborated,
                  Rules(spec, tier, mutation, hint, obligations, Corroborated, escalated),
                  escalated) # "auto_write"
<1> DEFINE rules == Rules(spec, tier, mutation, hint, obligations, Corroborated, escalated)
           risk == Risk(weighted, spec.impact)
           d == FromMatrix(confidence, risk, Corroborated)
<1>1. ~Corroborated
  BY DEF Corroborated, Corroboration
<1>2. d \in Decisions
  BY MatrixDecides
<1>3. \A rule \in rules : rule[2] \in Decisions
  BY DEF Rules, Decisions
<1>4. CASE spec.requires_corroboration
  <2>1. <<TRUE, "hitl_review">> \in rules
    BY <1>1, <1>4 DEF Rules
  <2> HIDE DEF rules, d
  <2>2. Tightened(d, rules) # "auto_write"
    BY <1>2, <1>3, <2>1, HeededOrTighter
  <2> QED
    BY <2>2 DEF Decide, rules, d
<1>5. CASE spec.impact # "low"
  <2>1. spec.impact \in {"medium", "high", "critical"}
    BY <1>5 DEF PredicateSpecs
  <2>2. RiskFloor[spec.impact] \in Int /\ RiskFloor["medium"] <= RiskFloor[spec.impact]
    BY <2>1 DEF RiskFloor
  <2>3. RiskFloor["medium"] \in Int /\ Thresholds.rho_lo \in Int
    BY ThresholdsAssumption DEF RiskFloor
  <2>4. risk >= Thresholds.rho_lo
    BY <2>2, <2>3 DEF Risk, AtLeast
  <2> HIDE DEF risk
  <2>5. ConfidenceBand(confidence) \in 1..4 /\ RiskBand(risk) \in {2, 3}
    BY <2>4 DEF ConfidenceBand, RiskBand
  <2>6. \A i \in 1..4, j \in {2, 3} : Matrix[i][j] # "auto_write"
    BY DEF Matrix
  <2>7. Matrix[ConfidenceBand(confidence)][RiskBand(risk)] # "auto_write"
    BY <2>5, <2>6
  <2>8. d # "auto_write"
    BY <1>1, <2>7 DEF FromMatrix
  <2> HIDE DEF rules, d
  <2>9. Tightened(d, rules) # "auto_write"
    BY <1>2, <1>3, <2>8, HeededOrTighter
  <2> QED
    BY <2>9 DEF Decide, rules, d, risk
<1> QED
  BY <1>4, <1>5

-----------------------------------------------------------------------------
(* The tasks.                                                              *)

\* What was judged is one judgement for each incumbent shown, and the report
\* is the adjudication of just these.
TaskOK(t, c) ==
    /\ t.hits \in BoundedSeq(Hits, MaxHits)
    /\ DOMAIN t.judged # {} =>
          /\ t.judged \in [DOMAIN t.hits -> Judgements]
          /\ t.report = Adjudicate(c, t.hits, t.judged)

TasksOK == \A n \in DOMAIN task : TaskOK(task[n], Candidate(n))

LEMMA NothingJudged ==
    ASSUME NEW stage, NEW hits \in BoundedSeq(Hits, MaxHits), NEW report, NEW decision, NEW c
    PROVE  TaskOK(Task(stage, hits, <<>>, report, decision), c)
  BY DEF TaskOK, Task

LEMMA NoHits == <<>> \in BoundedSeq(Hits, MaxHits)
<1>1. <<>> \in [1..0 -> Hits] /\ 0 \in 0..MaxHits
  BY PipelineAssumption
<1> QED
  BY <1>1 DEF BoundedSeq, SeqOf

LEMMA MoveKeepsTasks ==
    ASSUME TasksOK, NEW n \in DOMAIN task, NEW t, Move(n, t), TaskOK(t, Candidate(n))
    PROVE  TasksOK'
<1>1. task' = [task EXCEPT ![n] = t] /\ gated' = gated
  BY DEF Move, intakeVars
<1>2. \A i : Candidate(i)' = Candidate(i)
  BY <1>1 DEF Candidate
<1>3. \A i \in DOMAIN task' : TaskOK(task'[i], Candidate(i))
  BY <1>1 DEF TasksOK
<1> QED
  BY <1>2, <1>3 DEF TasksOK, TaskOK

LEMMA TasksInvariant == Spec => []TasksOK
<1>1. Init => TasksOK
  BY DEF Init, TasksOK
<1>2. TasksOK /\ [Next]_vars => TasksOK'
  <2> SUFFICES ASSUME TasksOK, [Next]_vars PROVE TasksOK'
    OBVIOUS
  <2>1. ASSUME UNCHANGED <<task, gated>> PROVE TasksOK'
    BY <2>1 DEF TasksOK, TaskOK, Candidate
  <2>2. ASSUME NEW n \in DOMAIN task, ScoreCandidate(n) PROVE TasksOK'
    <3>1. CASE Enter(n)
      BY <3>1, NoHits, NothingJudged, MoveKeepsTasks DEF Enter, At
    <3>2. CASE Resolve(n)
      BY <3>2, NoHits, NothingJudged, MoveKeepsTasks DEF Resolve, At
    <3>3. CASE CandidateFails(n)
      BY <3>3, NoHits, NothingJudged, MoveKeepsTasks DEF CandidateFails, At
    <3>4. CASE Retrieve(n)
      <4>1. PICK hits \in HitLists : Move(n, At("detect", hits))
        BY <3>4 DEF Retrieve
      <4>2. hits \in BoundedSeq(Hits, MaxHits)
        BY <4>1 DEF HitLists
      <4> QED
        BY <4>1, <4>2, NothingJudged, MoveKeepsTasks DEF At
    <3>5. CASE Detect(n)
      <4>1. task[n].hits \in BoundedSeq(Hits, MaxHits)
        BY DEF TasksOK, TaskOK
      <4>2. CASE \E report : Move(n, Task("score", task[n].hits, <<>>, report, NoReason))
        BY <4>1, <4>2, NothingJudged, MoveKeepsTasks
      <4>3. CASE \E judged \in [DOMAIN task[n].hits -> Judgements] :
                   Move(n, Task("score", task[n].hits, judged,
                                Adjudicate(Candidate(n), task[n].hits, judged), NoReason))
        <5>1. PICK judged \in [DOMAIN task[n].hits -> Judgements] :
                   Move(n, Task("score", task[n].hits, judged,
                                Adjudicate(Candidate(n), task[n].hits, judged), NoReason))
          BY <4>3
        <5>2. TaskOK(Task("score", task[n].hits, judged,
                          Adjudicate(Candidate(n), task[n].hits, judged), NoReason),
                     Candidate(n))
          BY <4>1 DEF TaskOK, Task
        <5> QED
          BY <5>1, <5>2, MoveKeepsTasks
      <4> QED
        BY <3>5, <4>2, <4>3 DEF Detect
    <3>6. CASE Score(n)
      <4>1. PICK decision : Move(n, Task("governed", <<>>, <<>>, NoConflict, decision))
        BY <3>6 DEF Score
      <4> QED
        BY <4>1, NoHits, NothingJudged, MoveKeepsTasks
    <3> QED
      BY <2>2, <3>1, <3>2, <3>3, <3>4, <3>5, <3>6 DEF ScoreCandidate
  <2>3. CASE Extract
    <3>1. UNCHANGED <<task, gated>> \/ task' = [n \in DOMAIN gated'.admitted |-> Fresh]
      BY <2>3, Zenon DEF Extract, Raise, intakeVars
    <3>2. CASE task' = [n \in DOMAIN gated'.admitted |-> Fresh]
      <4>1. \A c : TaskOK(Fresh, c)
        BY NoHits, NothingJudged DEF Fresh, At
      <4> QED
        BY <3>2, <4>1 DEF TasksOK, TaskOK
    <3> QED
      BY <2>1, <3>1, <3>2
  <2>4. CASE \/ FilterNoise \/ ClassifyNoise \/ CallRaises \/ NothingToExtract
             \/ AskCanonical \/ AskOthers \/ DrawGoesOn \/ DrawsFail \/ Return
    BY <2>1, <2>4, Zenon
       DEF FilterNoise, ClassifyNoise, CallRaises, NothingToExtract, AskCanonical,
           AskOthers, DrawGoesOn, DrawsFail, Return, Raise, intakeVars
  <2>5. CASE UNCHANGED vars
    BY <2>1, <2>5 DEF vars, intakeVars
  <2> QED
    BY <2>2, <2>3, <2>4, <2>5 DEF Next
<1> QED
  BY <1>1, <1>2, PTL DEF Spec

\* Nothing is scored before the draws are over.
NoneYet == pc \notin {"score", "returned"} => DOMAIN task = {}

LEMMA NoneYetInvariant == Spec => []NoneYet
<1>1. Init => NoneYet
  BY DEF Init, NoneYet
<1>2. NoneYet /\ [Next]_vars => NoneYet'
  <2> SUFFICES ASSUME NoneYet, [Next]_vars PROVE NoneYet'
    OBVIOUS
  <2> USE DEF NoneYet
  <2>1. CASE \E n \in DOMAIN task : ScoreCandidate(n)
    <3>1. DOMAIN task # {} /\ pc' = pc
      BY <2>1, Zenon
         DEF ScoreCandidate, CandidateFails, Enter, Resolve, Retrieve, Detect, Score, Move
    <3> QED
      BY <3>1
  <2>2. CASE Extract
    <3>1. pc' = "score" \/ UNCHANGED task
      BY <2>2, Zenon DEF Extract, Raise
    <3>2. pc \notin {"score", "returned"}
      BY <2>2 DEF Extract, DrawsDone
    <3> QED
      BY <3>1, <3>2
  <2>3. CASE \/ FilterNoise \/ ClassifyNoise \/ CallRaises \/ NothingToExtract
             \/ AskCanonical \/ AskOthers \/ DrawsFail
    <3>1. UNCHANGED task /\ pc \notin {"score", "returned"}
      BY <2>3 DEF FilterNoise, ClassifyNoise, CallRaises, NothingToExtract, AskCanonical,
                  AskOthers, DrawsFail, DrawsDone, Raise
    <3> QED
      BY <3>1
  <2>4. CASE DrawGoesOn \/ UNCHANGED vars
    <3>1. UNCHANGED <<pc, task>>
      BY <2>4, Zenon DEF DrawGoesOn, vars
    <3> QED
      BY <3>1
  <2>5. CASE Return
    BY <2>5 DEF Return
  <2> QED
    BY <2>1, <2>2, <2>3, <2>4, <2>5 DEF Next
<1> QED
  BY <1>1, <1>2, PTL DEF Spec

\* conflict.detect and overrides: whatever the scores come to, in whatever order
\* and at whatever distance the disputed incumbent was found.
THEOREM DisputedAreSeen == Spec => DisputedNeverWrites
<1>1. TasksOK /\ NoneYet /\ [Next]_vars =>
        [\A n \in DOMAIN task :
          /\ task[n].stage = "score" /\ task'[n].stage = "governed"
          /\ \E i \in DOMAIN task[n].judged :
                task[n].judged[i].contradiction >= AmbiguousFloor
          => task'[n].decision # "auto_write"]_vars
  <2> SUFFICES ASSUME TasksOK, NoneYet, [Next]_vars,
                      NEW n \in DOMAIN task,
                      task[n].stage = "score", task'[n].stage = "governed",
                      NEW i \in DOMAIN task[n].judged,
                      task[n].judged[i].contradiction >= AmbiguousFloor
               PROVE  task'[n].decision # "auto_write"
    OBVIOUS
  <2>1. CASE Score(n)
    <3>1. PICK confidence, risk :
            Move(n, Task("governed", <<>>, <<>>, NoConflict, Verdict(n, confidence, risk)))
      BY <2>1 DEF Score
    <3>2. task'[n].decision = Verdict(n, confidence, risk)
      BY <3>1 DEF Move, Task
    <3>3. PICK m \in Nat : DOMAIN task[n].hits = 1..m
      <4>1. task[n].hits \in UNION {[1..m -> Hits] : m \in 0..MaxHits}
        BY DEF TasksOK, TaskOK, BoundedSeq, SeqOf
      <4> QED
        BY <4>1, PipelineAssumption
    <3>4. /\ task[n].judged \in [1..m -> Judgements]
          /\ task[n].report = Adjudicate(Candidate(n), task[n].hits, task[n].judged)
      BY <3>3 DEF TasksOK, TaskOK
    <3>5. task[n].report.hint = "escalate"
      BY <3>3, <3>4, DisputeEscalates
    <3> QED
      BY <3>2, <3>5, EscalatesAtLeast DEF Verdict
  <2>2. ASSUME NEW q \in DOMAIN task, ScoreCandidate(q), ~Score(n) PROVE task'[n].stage # "governed"
    <3>1. CASE q # n
      <4>1. PICK t : task' = [task EXCEPT ![q] = t]
        BY <2>2, Zenon DEF ScoreCandidate, CandidateFails, Enter, Resolve, Retrieve, Detect,
                    Score, Move
      <4> QED
        BY <3>1, <4>1
    <3>2. CASE q = n
      <4>1. CandidateFails(n) \/ Enter(n) \/ Resolve(n) \/ Retrieve(n) \/ Detect(n)
        BY <2>2, <3>2 DEF ScoreCandidate
      <4>2. CandidateFails(n)
        BY <4>1 DEF Enter, Resolve, Retrieve, Detect
      <4> QED
        BY <4>2 DEF CandidateFails, Move, At, Task
    <3> QED
      BY <3>1, <3>2
  <2>3. CASE UNCHANGED task
    BY <2>3
  <2>4. CASE Extract
    BY <2>4 DEF Extract, DrawsDone, NoneYet
  <2>5. CASE \/ FilterNoise \/ ClassifyNoise \/ CallRaises \/ NothingToExtract
             \/ AskCanonical \/ AskOthers \/ DrawGoesOn \/ DrawsFail \/ Return
    BY <2>3, <2>5, Zenon
       DEF FilterNoise, ClassifyNoise, CallRaises, NothingToExtract, AskCanonical,
           AskOthers, DrawGoesOn, DrawsFail, Return, Raise
  <2> QED
    BY <2>1, <2>2, <2>3, <2>4, <2>5 DEF Next, vars
<1> QED
  BY <1>1, TasksInvariant, NoneYetInvariant, PTL DEF Spec, DisputedNeverWrites

-----------------------------------------------------------------------------
(* The schema gate.                                                        *)

LEMMA Sized ==
    ASSUME NEW n \in Nat
    PROVE  IsFiniteSet(1..n) /\ Cardinality(1..n) = n
<1>1. /\ IsFiniteSet(1..n)
      /\ Cardinality(1..n) = IF 1 > n THEN 0 ELSE n - 1 + 1
  BY FS_Interval
<1> QED
  BY <1>1

\* Two parts make up the whole.
LEMMA Parted ==
    ASSUME NEW S, IsFiniteSet(S), NEW A, NEW B, A \cup B = S, A \cap B = {}
    PROVE  /\ IsFiniteSet(A) /\ IsFiniteSet(B)
           /\ Cardinality(A) \in Nat /\ Cardinality(B) \in Nat /\ Cardinality(S) \in Nat
           /\ Cardinality(A) + Cardinality(B) = Cardinality(S)
<1>1. A \in SUBSET S /\ B \in SUBSET S
  OBVIOUS
<1>2. IsFiniteSet(A) /\ IsFiniteSet(B)
  BY <1>1, FS_Subset
<1>3. /\ Cardinality(A) \in Nat /\ Cardinality(B) \in Nat /\ Cardinality(S) \in Nat
      /\ Cardinality(A \cap B) = 0
  BY <1>2, FS_CardinalityType, FS_EmptySet
<1>4. Cardinality(A \cup B) = Cardinality(A) + Cardinality(B) - Cardinality(A \cap B)
  BY <1>2, FS_Union
<1>5. Cardinality(A \cup B) = Cardinality(S)
  OBVIOUS
<1> QED
  BY <1>2, <1>3, <1>4, <1>5

\* gate: an object fits, can be made to, or does not.
LEMMA FitDecides ==
    ASSUME NEW v \in Values, NEW type \in ObjectTypes
    PROVE  Fit(v, type).outcome \in {"misfit", "exact", "coerced"}
<1> DEFINE outcomes == {"misfit", "exact", "coerced"}
<1>1. v.kind \in {"str", "float", "bool", "dict"}
  BY DEF Values, Kinds
<1>2. /\ Misfit.outcome \in outcomes
      /\ \A w : Fits(w).outcome \in outcomes /\ Coerced(w).outcome \in outcomes
  BY DEF Fits, Coerced, Misfit
<1>3. AsText(v).outcome \in outcomes
  <2>1. AsText(v) = Fits(v) \/ AsText(v) = Coerced(Value("str", v.word)) \/ AsText(v) = Misfit
    BY <1>1 DEF AsText
  <2> QED
    BY <1>2, <2>1, Zenon
<1>4. AsNumber(v).outcome \in outcomes
  <2>1. \/ AsNumber(v) = Fits(v) \/ AsNumber(v) = Misfit
        \/ AsNumber(v) = Coerced(Value("float", "numeral"))
    BY DEF AsNumber
  <2> QED
    BY <1>2, <2>1, Zenon
<1>5. AsBoolean(v).outcome \in outcomes
  <2>1. \/ AsBoolean(v) = Fits(v) \/ AsBoolean(v) = Misfit
        \/ AsBoolean(v) = Coerced(Value("bool", v.word))
    BY DEF AsBoolean
  <2> QED
    BY <1>2, <2>1, Zenon
<1>6. type \in {"text", "number", "boolean", "coded", "entity_ref"}
  BY DEF ObjectTypes
<1> HIDE DEF outcomes
<1>7. \/ Fit(v, type) = Fits(v) \/ Fit(v, type) = Misfit \/ Fit(v, type) = AsText(v)
      \/ Fit(v, type) = AsNumber(v) \/ Fit(v, type) = AsBoolean(v)
  BY <1>6 DEF Fit
<1>8. Fit(v, type).outcome \in outcomes
  BY <1>2, <1>3, <1>4, <1>5, <1>7, Zenon
<1> QED
  BY <1>8 DEF outcomes

Cited == [subject : STRING, predicate : STRING, object : Values, quote : Texts,
          alignment : {Exact, Fuzzy, 0}, from : {0}, to : {0}]

\* What the gate says of one candidate; it leaves its quote and its predicate be.
LEMMA GatedOnce ==
    ASSUME NEW c \in Cited
    PROVE  /\ Gated(c).outcome \in {"pass", "coerced", "quarantined", "rejected"}
           /\ Gated(c).outcome \in {"pass", "coerced"} => c.predicate \in DOMAIN Predicates
           /\ Gated(c).c.quote = c.quote
           /\ Gated(c).c.predicate = c.predicate
<1>1. CASE c.predicate \notin DOMAIN Predicates
  BY <1>1 DEF Gated
<1>2. CASE c.predicate \in DOMAIN Predicates
  <2> DEFINE f == Fit(c.object, Predicates[c.predicate].object)
  <2>1. f.outcome \in {"misfit", "exact", "coerced"}
    <3>1. Predicates[c.predicate].object \in ObjectTypes /\ c.object \in Values
      BY <1>2, ValidationAssumption DEF PredicateSpecs, Cited
    <3> QED
      BY <3>1, FitDecides
  <2> HIDE DEF f
  <2>2. Gated(c) = CASE f.outcome = "misfit"  -> [c |-> c, outcome |-> "rejected", fit |-> 0]
                     [] f.outcome = "exact"   -> [c |-> c, outcome |-> "pass", fit |-> 100]
                     [] f.outcome = "coerced" -> [c |-> [c EXCEPT !.object = f.value],
                                                  outcome |-> "coerced", fit |-> 70]
    BY <1>2 DEF Gated, f
  <2>4. \/ Gated(c) = [c |-> c, outcome |-> "rejected", fit |-> 0]
        \/ Gated(c) = [c |-> c, outcome |-> "pass", fit |-> 100]
        \/ Gated(c) = [c |-> [c EXCEPT !.object = f.value], outcome |-> "coerced", fit |-> 70]
    BY <2>1, <2>2
  <2>3. /\ [c EXCEPT !.object = f.value].quote = c.quote
        /\ [c EXCEPT !.object = f.value].predicate = c.predicate
    BY DEF Cited
  <2>5. /\ Gated(c).outcome \in {"pass", "coerced", "rejected"}
        /\ Gated(c).c = c \/ Gated(c).c = [c EXCEPT !.object = f.value]
    BY <2>4
  <2> QED
    BY <1>2, <2>3, <2>5
<1> QED
  BY <1>1, <1>2

LEMMA Linkable ==
    ASSUME NEW facts \in Seq(Facts), NEW content,
           NEW i \in Linked(facts, content)
    PROVE  LET c == ToCandidates(facts, content)[i] IN
           /\ i \in DOMAIN facts
           /\ c \in Cited
           /\ c.quote = facts[i].quote
           /\ Alignment(facts[i].quote, content) > 0
<1>1. i \in DOMAIN facts /\ facts[i] \in Facts /\ Alignment(facts[i].quote, content) > 0
  BY DEF Linked
<1>2. Alignment(facts[i].quote, content) \in {Exact, Fuzzy, 0}
  BY DEF Alignment
<1>3. ToCandidates(facts, content)[i] =
        [subject   |-> facts[i].subject,
         predicate |-> facts[i].predicate,
         object    |-> facts[i].object,
         quote     |-> facts[i].quote,
         alignment |-> Alignment(facts[i].quote, content),
         from |-> 0, to |-> 0]
  BY DEF ToCandidates
<1> QED
  BY <1>1, <1>2, <1>3 DEF Cited, Facts

\* extract and gate: every fact of the draw goes one way, and what is admitted
\* names a predicate of the pack and cites the content.
LEMMA FactsAccounted ==
    ASSUME NEW facts \in Seq(Facts), NEW content
    PROVE  LET g == Gate(ToCandidates(facts, content)) IN
           /\ Len(facts) = Cardinality(DOMAIN g.admitted) + Cardinality(DOMAIN g.quarantined)
                           + Cardinality(DOMAIN g.rejected) + Unsourced(facts, content)
           /\ \A i \in DOMAIN g.admitted :
                 /\ g.admitted[i].c.predicate \in DOMAIN Predicates
                 /\ i \in DOMAIN facts
                 /\ g.admitted[i].c.quote = facts[i].quote
                 /\ Alignment(facts[i].quote, content) > 0
<1> DEFINE linked == Linked(facts, content)
           cs == ToCandidates(facts, content)
           all == [i \in DOMAIN cs |-> Gated(cs[i])]
           Of(outcomes) == {i \in linked : Gated(cs[i]).outcome \in outcomes}
           g == Gate(cs)
<1>1. DOMAIN cs = linked
  BY DEF ToCandidates
<1>2. ASSUME NEW i \in linked
      PROVE  /\ cs[i] \in Cited /\ cs[i].quote = facts[i].quote
             /\ i \in DOMAIN facts /\ Alignment(facts[i].quote, content) > 0
  BY Linkable
<1> HIDE DEF cs
<1>3. \A outcomes : Routed(all, outcomes) = [i \in Of(outcomes) |-> Gated(cs[i])]
  BY <1>1 DEF Routed
<1>4. /\ g.admitted = [i \in Of({"pass", "coerced"}) |-> Gated(cs[i])]
      /\ DOMAIN g.quarantined = Of({"quarantined"})
      /\ DOMAIN g.rejected = Of({"rejected"})
  BY <1>3 DEF Gate
<1>5. ASSUME NEW i \in linked
      PROVE  /\ Gated(cs[i]).outcome \in {"pass", "coerced", "quarantined", "rejected"}
             /\ Gated(cs[i]).outcome \in {"pass", "coerced"} => cs[i].predicate \in DOMAIN Predicates
             /\ Gated(cs[i]).c.quote = cs[i].quote
             /\ Gated(cs[i]).c.predicate = cs[i].predicate
  BY <1>2, GatedOnce
<1> DEFINE some == Of({"pass", "coerced"})
           odd == Of({"quarantined"})
           bad == Of({"rejected"})
           rest == odd \cup bad
<1>6. /\ some \cup rest = linked /\ some \cap rest = {}
      /\ odd \cap bad = {}
  BY <1>5
<1>7. IsFiniteSet(linked)
  <2>1. DOMAIN facts = 1..Len(facts) /\ Len(facts) \in Nat /\ linked \in SUBSET DOMAIN facts
    BY DEF Linked
  <2> QED
    BY <2>1, Sized, FS_Subset
<1> HIDE DEF linked, g
<1>8. ASSUME NEW i \in DOMAIN g.admitted
      PROVE  /\ g.admitted[i].c.predicate \in DOMAIN Predicates
             /\ i \in DOMAIN facts
             /\ g.admitted[i].c.quote = facts[i].quote
             /\ Alignment(facts[i].quote, content) > 0
  <2>1. i \in linked /\ g.admitted[i] = Gated(cs[i]) /\ Gated(cs[i]).outcome \in {"pass", "coerced"}
    BY <1>4
  <2> QED
    BY <1>2, <1>5, <2>1
<1> HIDE DEF Of
<1>9. /\ Cardinality(some) + Cardinality(rest) = Cardinality(linked)
      /\ Cardinality(odd) + Cardinality(bad) = Cardinality(rest)
      /\ Cardinality(some) \in Nat /\ Cardinality(odd) \in Nat /\ Cardinality(bad) \in Nat
  <2>1. /\ Cardinality(some) + Cardinality(rest) = Cardinality(linked)
        /\ IsFiniteSet(rest) /\ Cardinality(some) \in Nat
    <3> HIDE DEF rest, some
    <3> QED
      BY <1>6, <1>7, Parted
  <2>2. /\ Cardinality(odd) + Cardinality(bad) = Cardinality(rest)
        /\ Cardinality(odd) \in Nat /\ Cardinality(bad) \in Nat
    <3> HIDE DEF odd, bad
    <3> QED
      BY <1>6, <2>1, Parted
  <2> QED
    BY <2>1, <2>2
<1>10. DOMAIN g.admitted = some /\ DOMAIN g.quarantined = odd /\ DOMAIN g.rejected = bad
  BY <1>4
<1>11. Unsourced(facts, content) = Len(facts) - Cardinality(linked)
  BY DEF Unsourced, linked
<1> HIDE DEF some, odd, bad, rest
<1>12. Len(facts) = Cardinality(DOMAIN g.admitted) + Cardinality(DOMAIN g.quarantined)
                   + Cardinality(DOMAIN g.rejected) + Unsourced(facts, content)
  BY <1>9, <1>10, <1>11
<1> QED
  BY <1>8, <1>12 DEF g, cs

-----------------------------------------------------------------------------
(* From the conversation to the candidates.                                *)

ProposalOK ==
    proposal \in [turns : Seq([id : TurnIds, text : Texts]), tier : SourceTiers,
                  namespace : Namespaces, k : Ks, llm : Adapters \cup {NoReason}]

LEMMA ScoringOnly ==
    ASSUME NEW n \in DOMAIN task, ScoreCandidate(n)
    PROVE  /\ UNCHANGED <<proposal, kept, dropped, samples, gated, requests, canonical, pc>>
           /\ DOMAIN task' = DOMAIN task
<1>1. UNCHANGED <<intakeVars, pc>> /\ \E t : task' = [task EXCEPT ![n] = t]
  BY Zenon DEF ScoreCandidate, CandidateFails, Enter, Resolve, Retrieve, Detect, Score, Move
<1>2. DOMAIN task' = DOMAIN task
  BY <1>1
<1> QED
  BY <1>1, <1>2 DEF intakeVars, drawVars

LEMMA Extracted ==
    ASSUME Extract, pc' = "score"
    PROVE  LET drawn == [i \in DOMAIN Drawn |-> Drawn[i].facts] IN
           /\ samples' = drawn
           /\ gated' = Funnel(drawn[1])
           /\ task' = [n \in DOMAIN gated'.admitted |-> Fresh]
           /\ requests' = <<>> /\ canonical' = <<>>
           /\ proposal' = [proposal EXCEPT !.turns = <<>>, !.llm = NoReason]
<1>1. ~Raise
  BY DEF Raise
<1> QED
  BY <1>1, Zenon DEF Extract

LEMMA ExtractGivesUp ==
    ASSUME Extract, pc' # "score"
    PROVE  Raise
  BY Zenon DEF Extract

LEMMA ProposalInvariant == Spec => []ProposalOK
<1>1. Init => ProposalOK
  BY PipelineAssumption DEF Init, ProposalOK
<1>2. ProposalOK /\ [Next]_vars => ProposalOK'
  <2> SUFFICES ASSUME ProposalOK, [Next]_vars PROVE ProposalOK'
    OBVIOUS
  <2>1. ASSUME UNCHANGED proposal PROVE ProposalOK'
    BY <2>1 DEF ProposalOK
  <2>2. CASE Extract /\ pc' = "score"
    <3>1. proposal' = [proposal EXCEPT !.turns = <<>>, !.llm = NoReason]
      BY <2>2, Extracted
    <3>2. <<>> \in Seq([id : TurnIds, text : Texts])
      OBVIOUS
    <3>3. proposal' = [turns |-> <<>>, tier |-> proposal.tier, namespace |-> proposal.namespace,
                       k |-> proposal.k, llm |-> NoReason]
      BY <3>1 DEF ProposalOK
    <3>4. /\ proposal.tier \in SourceTiers /\ proposal.namespace \in Namespaces
          /\ proposal.k \in Ks
      BY DEF ProposalOK
    <3> QED
      BY <3>2, <3>3, <3>4 DEF ProposalOK
  <2>3. CASE Extract /\ pc' # "score"
    BY <2>1, <2>3, ExtractGivesUp DEF Raise, intakeVars
  <2>4. ASSUME NEW n \in DOMAIN task, ScoreCandidate(n) PROVE ProposalOK'
    BY <2>1, <2>4, ScoringOnly
  <2>5. CASE \/ FilterNoise \/ ClassifyNoise \/ CallRaises \/ NothingToExtract
             \/ AskCanonical \/ AskOthers \/ DrawGoesOn \/ DrawsFail \/ Return
             \/ UNCHANGED vars
    BY <2>1, <2>5, Zenon
       DEF FilterNoise, ClassifyNoise, CallRaises, NothingToExtract, AskCanonical,
           AskOthers, DrawGoesOn, DrawsFail, Return, Raise, intakeVars, vars
  <2> QED
    BY <2>2, <2>3, <2>4, <2>5 DEF Next
<1> QED
  BY <1>1, <1>2, PTL DEF Spec

\* Every turn is kept or dropped, and not both; a dropped one was dropped once.
SplitUp(turns, left, gone) ==
    /\ left \cup {d.at : d \in gone} = DOMAIN turns
    /\ left \cap {d.at : d \in gone} = {}
    /\ \A d, e \in gone : d.at = e.at => d = e

Split == pc \in {"classify", "extract"} => SplitUp(proposal.turns, kept, dropped)

LEMMA SplitInvariant == Spec => []Split
<1>1. Init => Split
  BY DEF Init, Split
<1>2. Split /\ [Next]_vars => Split'
  <2> SUFFICES ASSUME Split, [Next]_vars PROVE Split'
    OBVIOUS
  <2> USE DEF Split
  <2>1. ASSUME pc' \notin {"classify", "extract"} PROVE Split'
    BY <2>1
  <2>2. CASE FilterNoise
    <3> DEFINE drops == RuleDrops(proposal.turns)
    <3>1. /\ kept' = DOMAIN proposal.turns \ drops
          /\ dropped' = {[at |-> i, by |-> "rule"] : i \in drops}
          /\ proposal' = proposal
      BY <2>2 DEF FilterNoise, RuleKept
    <3>2. drops \subseteq DOMAIN proposal.turns
      BY DEF RuleDrops
    <3> HIDE DEF drops
    <3>3. {d.at : d \in dropped'} = drops
      <4>1. \A i \in drops : [at |-> i, by |-> "rule"].at = i
        OBVIOUS
      <4> QED
        BY <3>1, <4>1
    <3>4. \A d, e \in dropped' : d.at = e.at => d = e
      BY <3>1
    <3> QED
      BY <3>1, <3>2, <3>3, <3>4 DEF SplitUp
  <2>3. CASE ClassifyNoise
    <3>1. PICK drops :
            LET left == Survivors(proposal.turns, kept, drops)
            IN /\ kept' = left
               /\ dropped' = dropped \cup {[at |-> i, by |-> "classifier"] : i \in kept \ left}
      BY <2>3 DEF ClassifyNoise
    <3> DEFINE left == Survivors(proposal.turns, kept, drops)
               fallen == kept \ left
    <3>2. left \subseteq kept
      BY DEF Survivors
    <3>3. SplitUp(proposal.turns, kept, dropped) /\ proposal' = proposal
      BY <2>3 DEF ClassifyNoise
    <3>4. kept' = left /\ dropped' = dropped \cup {[at |-> i, by |-> "classifier"] : i \in fallen}
      BY <3>1
    <3> HIDE DEF left
    <3>5. {d.at : d \in dropped'} = {d.at : d \in dropped} \cup fallen
      <4>1. \A i \in fallen : [at |-> i, by |-> "classifier"].at = i
        OBVIOUS
      <4> QED
        BY <3>4, <4>1
    <3>6. ASSUME NEW d \in dropped', NEW e \in dropped', d.at = e.at PROVE d = e
      <4>1. \A x \in dropped' \ dropped : x = [at |-> x.at, by |-> "classifier"] /\ x.at \in fallen
        BY <3>4
      <4>2. \A x \in dropped : x.at \notin fallen
        BY <3>3 DEF SplitUp
      <4> QED
        BY <3>3, <3>6, <4>1, <4>2 DEF SplitUp
    <3> QED
      BY <3>2, <3>3, <3>4, <3>5, <3>6 DEF SplitUp
  <2>4. CASE \/ CallRaises \/ NothingToExtract \/ AskCanonical \/ AskOthers
             \/ DrawsFail \/ Return
    BY <2>1, <2>4
       DEF CallRaises, NothingToExtract, AskCanonical, AskOthers, DrawsFail, Return, Raise
  <2>5. CASE Extract
    <3>1. pc' = "score" \/ pc' = "raised"
      BY <2>5, ExtractGivesUp DEF Raise
    <3> QED
      BY <2>1, <3>1
  <2>6. ASSUME NEW n \in DOMAIN task, ScoreCandidate(n) PROVE Split'
    BY <2>6, ScoringOnly
  <2>7. CASE DrawGoesOn \/ UNCHANGED vars
    BY <2>7, Zenon DEF DrawGoesOn, vars, intakeVars
  <2> QED
    BY <2>2, <2>3, <2>4, <2>5, <2>6, <2>7 DEF Next
<1> QED
  BY <1>1, <1>2, PTL DEF Spec

-----------------------------------------------------------------------------
(* What has been drawn.                                                    *)

Endings == {"open", "cancelling", "answered", "failed", "cancelled"}

RequestsOK ==
    /\ requests \in Seq([at : Endings, texts : Seq(Completions)])
    /\ canonical \in Seq(Completions)
    /\ proposal.llm = "openai" => Len(requests) <= 1
    /\ \A i \in DOMAIN requests :
          /\ requests[i].at = "answered" /\ Len(requests) # 1 => requests[i].texts # <<>>
          /\ requests[i].at \in {"cancelling", "cancelled"} => Failed

DrawsOK ==
    /\ pc \in {"filter", "classify", "extract"} => canonical = <<>>
    /\ pc \in {"canonical", "spread"} => RequestsOK

LEMMA Asked ==
    ASSUME NEW n \in Nat, requests' = Requested(proposal.llm, n),
           canonical' \in Seq(Completions), proposal' = proposal
    PROVE  RequestsOK'
<1> DEFINE m == IF proposal.llm = "openai" THEN 1 ELSE n
<1>1. m \in Nat /\ requests' = [i \in 1..m |-> Request("open", <<>>)]
  BY DEF Requested
<1>2. proposal.llm = "openai" => m = 1
  OBVIOUS
<1> HIDE DEF m
<1>3. Request("open", <<>>) \in [at : Endings, texts : Seq(Completions)]
  BY DEF Request, Endings
<1>4. requests' \in [1..m -> [at : Endings, texts : Seq(Completions)]]
  BY <1>1, <1>3
<1>5. requests' \in Seq([at : Endings, texts : Seq(Completions)]) /\ Len(requests') = m
  BY <1>1, <1>4
<1>6. \A i \in DOMAIN requests' : requests'[i].at = "open"
  BY <1>1 DEF Request
<1> QED
  BY <1>1, <1>2, <1>5, <1>6 DEF RequestsOK

LEMMA OneEnds ==
    ASSUME RequestsOK, NEW i \in DOMAIN requests, NEW at \in {"answered", "failed", "cancelled"},
           NEW texts \in Seq(Completions), Ending(i, at, texts), Pending(i),
           at = "answered" /\ Len(requests) # 1 => texts # <<>>,
           at = "cancelled" => requests[i].at = "cancelling",
           UNCHANGED <<proposal, canonical>>
    PROVE  RequestsOK'
<1> DEFINE R == [at : Endings, texts : Seq(Completions)]
<1>1. requests \in Seq(R) /\ requests' = [requests EXCEPT ![i] = Request(at, texts)]
  BY DEF RequestsOK, Ending
<1>2. Request(at, texts) \in R
  BY DEF Request, Endings
<1> HIDE DEF R
<1>3. requests' \in Seq(R) /\ Len(requests') = Len(requests) /\ DOMAIN requests' = DOMAIN requests
  BY <1>1, <1>2
<1>4. /\ requests'[i].at = at /\ requests'[i].texts = texts
      /\ \A j \in DOMAIN requests : j # i => requests'[j] = requests[j]
  BY <1>1 DEF Request
<1>5. Failed => Failed'
  <2> SUFFICES ASSUME Failed PROVE Failed'
    OBVIOUS
  <2>1. PICK j \in DOMAIN requests : requests[j].at = "failed"
    BY DEF Failed
  <2>2. j # i
    BY <2>1 DEF Pending
  <2> QED
    BY <1>3, <1>4, <2>1, <2>2 DEF Failed
<1>6. ASSUME NEW j \in DOMAIN requests
      PROVE  /\ requests'[j].at = "answered" /\ Len(requests) # 1 => requests'[j].texts # <<>>
             /\ requests'[j].at \in {"cancelling", "cancelled"} => Failed'
  <2>1. CASE j = i
    BY <1>4, <1>5, <2>1 DEF RequestsOK
  <2>2. CASE j # i
    BY <1>4, <1>5, <2>2 DEF RequestsOK
  <2> QED
    BY <2>1, <2>2
<1> QED
  BY <1>3, <1>6 DEF RequestsOK, R

LEMMA RepliesAre ==
    ASSUME NEW llm, NEW n \in Nat, NEW texts \in Replied(llm, n)
    PROVE  texts \in Seq(Completions) /\ (llm # "openai" => texts # <<>>)
<1>1. CASE llm = "openai"
  <2>1. PICK m \in 0..n : texts \in [1..m -> Completions]
    BY <1>1 DEF Replied, BoundedSeq, SeqOf
  <2> QED
    BY <1>1, <2>1
<1>2. CASE llm # "openai"
  <2>1. PICK t \in Completions : texts = <<t>>
    BY <1>2 DEF Replied
  <2> QED
    BY <2>1
<1> QED
  BY <1>1, <1>2

LEMMA DrawStep ==
    ASSUME RequestsOK, NEW n \in Nat, Draw(proposal.llm, n), UNCHANGED <<proposal, canonical>>
    PROVE  RequestsOK'
<1>1. CASE Cancel
  <2> DEFINE R == [at : Endings, texts : Seq(Completions)]
  <2>1. requests \in Seq(R)
    BY DEF RequestsOK
  <2>2. Request("cancelling", <<>>) \in R
    BY DEF Request, Endings
  <2>3. requests' = [i \in DOMAIN requests |->
                       IF requests[i].at = "open" THEN Request("cancelling", <<>>)
                       ELSE requests[i]]
    BY <1>1 DEF Cancel
  <2> HIDE DEF R
  <2>4. requests' \in Seq(R) /\ DOMAIN requests' = DOMAIN requests /\ Len(requests') = Len(requests)
    <3>1. DOMAIN requests = 1..Len(requests) /\ Len(requests) \in Nat
      BY <2>1
    <3>2. \A i \in DOMAIN requests : requests[i] \in R
      BY <2>1
    <3>3. requests' \in [1..Len(requests) -> R]
      BY <2>2, <2>3, <3>1, <3>2
    <3> QED
      BY <3>1, <3>3
  <2>5. Failed'
    <3>1. PICK j \in DOMAIN requests : requests[j].at = "failed"
      BY <1>1 DEF Cancel, Failed
    <3> QED
      BY <2>3, <2>4, <3>1 DEF Failed
  <2>6. \A i \in DOMAIN requests : requests'[i].at = "answered" => requests'[i] = requests[i]
    BY <2>3 DEF Request
  <2> QED
    BY <2>4, <2>5, <2>6 DEF RequestsOK, R
<1>2. ASSUME NEW i \in DOMAIN requests, Answer(i, proposal.llm, n) PROVE RequestsOK'
  <2>1. PICK texts \in Replied(proposal.llm, n) : Ending(i, "answered", texts)
    BY <1>2 DEF Answer
  <2>2. texts \in Seq(Completions) /\ (proposal.llm # "openai" => texts # <<>>)
    BY RepliesAre
  <2>3. Len(requests) # 1 => texts # <<>>
    <3>1. DOMAIN requests = 1..Len(requests) /\ Len(requests) \in Nat
      BY DEF RequestsOK
    <3> QED
      BY <2>2, <3>1 DEF RequestsOK
  <2> QED
    BY <1>2, <2>1, <2>2, <2>3, OneEnds DEF Answer, Pending
<1>3. ASSUME NEW i \in DOMAIN requests, FailRequest(i) \/ CancelEnds(i) PROVE RequestsOK'
  <2>1. <<>> \in Seq(Completions)
    OBVIOUS
  <2> QED
    BY <1>3, <2>1, OneEnds DEF FailRequest, CancelEnds, Pending
<1> QED
  BY <1>1, <1>2, <1>3 DEF Draw

\* complete: what has come in when nothing is open and nothing has failed.
LEMMA SamplesAre ==
    ASSUME RequestsOK, Settled, Complete
    PROVE  Samples \in Seq(Completions)
<1>1. /\ requests \in Seq([at : Endings, texts : Seq(Completions)])
      /\ DOMAIN requests = 1..Len(requests) /\ Len(requests) \in Nat
  BY DEF RequestsOK
<1>2. ASSUME NEW i \in DOMAIN requests
      PROVE  requests[i].texts \in Seq(Completions) /\ requests[i].at \in Endings
  <2> DEFINE R == [at : Endings, texts : Seq(Completions)]
  <2>1. requests \in Seq(R)
    BY <1>1
  <2> HIDE DEF R
  <2>2. requests[i] \in R
    BY <2>1
  <2> QED
    BY <2>2 DEF R
<1>3. CASE Len(requests) = 1
  BY <1>1, <1>2, <1>3 DEF Samples
<1>4. CASE Len(requests) # 1
  <2>1. ASSUME NEW i \in DOMAIN requests PROVE requests[i].at = "answered"
    <3>1. ~Failed /\ ~Pending(i)
      BY DEF Settled, Complete
    <3>2. requests[i].at # "failed" /\ requests[i].at \notin {"cancelling", "cancelled"}
      BY <3>1 DEF Failed, RequestsOK
    <3> QED
      BY <1>2, <3>1, <3>2 DEF Pending, Endings
  <2>2. \A i \in DOMAIN requests : Head(requests[i].texts) \in Completions
    <3> SUFFICES ASSUME NEW i \in DOMAIN requests PROVE Head(requests[i].texts) \in Completions
      OBVIOUS
    <3>1. requests[i].texts \in Seq(Completions) /\ requests[i].texts # <<>>
      BY <1>2, <1>4, <2>1 DEF RequestsOK
    <3> QED
      BY <3>1
  <2>3. Samples \in [1..Len(requests) -> Completions]
    BY <1>1, <1>4, <2>2 DEF Samples
  <2> QED
    BY <1>1, <2>3
<1> QED
  BY <1>3, <1>4

LEMMA DrawsInvariant == Spec => []DrawsOK
<1>1. Init => DrawsOK
  BY DEF Init, DrawsOK
<1>2. ProposalOK /\ DrawsOK /\ [Next]_vars => DrawsOK'
  <2> SUFFICES ASSUME ProposalOK, DrawsOK, [Next]_vars PROVE DrawsOK'
    OBVIOUS
  <2>0. proposal.k \in 1..3
    BY PipelineAssumption DEF ProposalOK
  <2>1. ASSUME pc' \in {"score", "raised", "returned"} PROVE DrawsOK'
    BY <2>1 DEF DrawsOK
  <2>2. ASSUME UNCHANGED <<pc, requests, canonical, proposal>> PROVE DrawsOK'
    BY <2>2 DEF DrawsOK, RequestsOK, Failed
  <2>3. CASE FilterNoise \/ ClassifyNoise
    <3>1. /\ pc \in {"filter", "classify"} /\ pc' \in {"classify", "extract"}
          /\ canonical' = canonical
      BY <2>3 DEF FilterNoise, ClassifyNoise, drawVars
    <3> QED
      BY <3>1 DEF DrawsOK
  <2>4. CASE AskCanonical
    <3>1. /\ canonical' = <<>> /\ proposal' = proposal /\ pc' = "canonical"
          /\ requests' = Requested(proposal.llm, 1)
      BY <2>4 DEF AskCanonical, DrawsOK
    <3>2. <<>> \in Seq(Completions)
      OBVIOUS
    <3>3. RequestsOK'
      BY <3>1, <3>2, Asked
    <3> QED
      BY <3>1, <3>3 DEF DrawsOK
  <2>5. CASE AskOthers
    <3>1. /\ pc = "canonical" /\ Settled /\ Complete
          /\ canonical' = Samples /\ proposal' = proposal /\ pc' = "spread"
          /\ requests' = Requested(proposal.llm, proposal.k - 1)
      BY <2>5 DEF AskOthers
    <3>2. Samples \in Seq(Completions)
      BY <3>1, SamplesAre DEF DrawsOK
    <3>3. RequestsOK'
      <4>1. proposal.k - 1 \in Nat
        BY <2>0
      <4> QED
        BY <3>1, <3>2, <4>1, Asked
    <3> QED
      BY <3>1, <3>3 DEF DrawsOK
  <2>6. CASE DrawGoesOn
    <3> DEFINE n == IF pc = "canonical" THEN 1 ELSE proposal.k - 1
    <3>1. Draw(proposal.llm, n) /\ UNCHANGED <<pc, proposal, canonical>> /\ n \in Nat
      BY <2>0, <2>6 DEF DrawGoesOn
    <3> HIDE DEF n
    <3>2. RequestsOK => RequestsOK'
      BY <3>1, DrawStep
    <3> QED
      BY <3>1, <3>2 DEF DrawsOK
  <2>7. CASE CallRaises \/ NothingToExtract \/ DrawsFail \/ Return
    BY <2>1, <2>7 DEF CallRaises, NothingToExtract, DrawsFail, Return, Raise
  <2>8. CASE Extract
    <3>1. pc' = "score" \/ pc' = "raised"
      BY <2>8, ExtractGivesUp DEF Raise
    <3> QED
      BY <2>1, <3>1
  <2>9. ASSUME NEW n \in DOMAIN task, ScoreCandidate(n) PROVE DrawsOK'
    BY <2>2, <2>9, ScoringOnly
  <2>10. CASE UNCHANGED vars
    BY <2>2, <2>10 DEF vars, intakeVars, drawVars
  <2> QED
    BY <2>3, <2>4, <2>5, <2>6, <2>7, <2>8, <2>9, <2>10 DEF Next
<1> QED
  BY <1>1, <1>2, ProposalInvariant, PTL DEF Spec

\* _parse: the canonical draw is a list of facts.
LEMMA CanonicalFacts ==
    ASSUME ProposalOK, DrawsOK, DrawsDone, Parses
    PROVE  1 \in DOMAIN Drawn /\ Drawn[1].facts \in Seq(Facts)
<1>1. RequestsOK /\ Settled /\ Complete
  BY DEF DrawsOK, DrawsDone
<1>2. Samples \in Seq(Completions) /\ canonical \in Seq(Completions)
  BY <1>1, SamplesAre DEF RequestsOK
<1>3. Drawn \in Seq(Completions)
  BY <1>2 DEF Drawn
<1>4. Len(Drawn) \in 1..3
  BY PipelineAssumption DEF Parses, ProposalOK
<1>5. 1 \in DOMAIN Drawn /\ Drawn[1] \in Completions
  BY <1>3, <1>4
<1>6. ASSUME NEW t \in Completions PROVE t.facts \in Seq(Facts)
  <2>1. t.facts \in FactLists \/ t.facts = <<>>
    BY DEF Completions, Empty, Unfit, Sample
  <2>2. FactLists \subseteq Seq(Facts) /\ <<>> \in Seq(Facts)
    BY PipelineAssumption
  <2> QED
    BY <2>1, <2>2, Zenon
<1> QED
  BY <1>5, <1>6

-----------------------------------------------------------------------------
(* What becomes of the facts.                                              *)

AddsUp ==
    Len(samples[1]) = Cardinality(DOMAIN gated.admitted) + Cardinality(DOMAIN gated.quarantined)
                      + Cardinality(DOMAIN gated.rejected) + gated.unsourced

GatedOK ==
    /\ DOMAIN task = DOMAIN gated.admitted
    /\ \A n \in DOMAIN gated.admitted : Candidate(n).predicate \in DOMAIN Predicates
    /\ samples # <<>> => AddsUp

\* What one extraction leaves: its facts add up, and every candidate stands for
\* a fact that the content holds.
LEMMA ExtractAccounts ==
    ASSUME ProposalOK, DrawsOK, Extract, pc' = "score"
    PROVE  /\ GatedOK'
           /\ \A n \in DOMAIN gated'.admitted :
                 Alignment(gated'.admitted[n].c.quote, KeptContent) > 0
<1> DEFINE drawn == [i \in DOMAIN Drawn |-> Drawn[i].facts]
           facts == Drawn[1].facts
           g == Gate(ToCandidates(facts, KeptContent))
<1>1. 1 \in DOMAIN Drawn /\ facts \in Seq(Facts)
  BY CanonicalFacts DEF Extract
<1>2. drawn[1] = facts
  BY <1>1
<1>3. /\ samples' = drawn
      /\ gated' = Funnel(facts)
      /\ task' = [n \in DOMAIN gated'.admitted |-> Fresh]
  BY <1>2, Extracted
<1>4. /\ Len(facts) = Cardinality(DOMAIN g.admitted) + Cardinality(DOMAIN g.quarantined)
                      + Cardinality(DOMAIN g.rejected) + Unsourced(facts, KeptContent)
      /\ \A i \in DOMAIN g.admitted :
            /\ g.admitted[i].c.predicate \in DOMAIN Predicates
            /\ g.admitted[i].c.quote = facts[i].quote
            /\ Alignment(facts[i].quote, KeptContent) > 0
  <2> HIDE DEF facts
  <2> QED
    BY <1>1, FactsAccounted
<1>5. Funnel(facts) = [admitted |-> g.admitted, quarantined |-> g.quarantined,
                       rejected |-> g.rejected, unsourced |-> Unsourced(facts, KeptContent)]
  BY DEF Funnel
<1> HIDE DEF g, drawn, facts
<1>6. /\ gated'.admitted = g.admitted /\ gated'.quarantined = g.quarantined
      /\ gated'.rejected = g.rejected /\ gated'.unsourced = Unsourced(facts, KeptContent)
  BY <1>3, <1>5
<1>7. AddsUp'
  BY <1>2, <1>3, <1>4, <1>6 DEF AddsUp
<1>8. \A n \in DOMAIN gated'.admitted : Candidate(n)'.predicate \in DOMAIN Predicates
  BY <1>4, <1>6 DEF Candidate
<1>9. DOMAIN task' = DOMAIN gated'.admitted
  BY <1>3
<1> QED
  BY <1>4, <1>6, <1>7, <1>8, <1>9 DEF GatedOK

LEMMA GatedInvariant == Spec => []GatedOK
<1>1. Init => GatedOK
  BY DEF Init, GatedOK, Ungated
<1>2. ProposalOK /\ DrawsOK /\ GatedOK /\ [Next]_vars => GatedOK'
  <2> SUFFICES ASSUME ProposalOK, DrawsOK, GatedOK, [Next]_vars PROVE GatedOK'
    OBVIOUS
  <2>1. ASSUME UNCHANGED <<samples, gated>>, DOMAIN task' = DOMAIN task PROVE GatedOK'
    BY <2>1 DEF GatedOK, AddsUp, Candidate
  <2>2. CASE Extract /\ pc' = "score"
    BY <2>2, ExtractAccounts
  <2>3. CASE Extract /\ pc' # "score"
    BY <2>1, <2>3, ExtractGivesUp DEF Raise, intakeVars
  <2>4. ASSUME NEW n \in DOMAIN task, ScoreCandidate(n) PROVE GatedOK'
    BY <2>1, <2>4, ScoringOnly
  <2>5. CASE \/ FilterNoise \/ ClassifyNoise \/ CallRaises \/ NothingToExtract
             \/ AskCanonical \/ AskOthers \/ DrawGoesOn \/ DrawsFail \/ Return
             \/ UNCHANGED vars
    <3>1. UNCHANGED <<samples, gated, task>>
      BY <2>5, Zenon
         DEF FilterNoise, ClassifyNoise, CallRaises, NothingToExtract, AskCanonical,
             AskOthers, DrawGoesOn, DrawsFail, Return, Raise, intakeVars, vars
    <3> QED
      BY <2>1, <3>1
  <2> QED
    BY <2>2, <2>3, <2>4, <2>5 DEF Next
<1> QED
  BY <1>1, <1>2, ProposalInvariant, DrawsInvariant, PTL DEF Spec

\* Turns split in two count up to the turns.
LEMMA SplitCounts ==
    ASSUME NEW turns, NEW T, turns \in Seq(T), NEW left, NEW gone, SplitUp(turns, left, gone)
    PROVE  Cardinality(left) + Cardinality(gone) = Len(turns)
<1> DEFINE ats == {d.at : d \in gone}
           f == [x \in ats |-> CHOOSE d \in gone : d.at = x]
<1>1. DOMAIN turns = 1..Len(turns) /\ Len(turns) \in Nat
  OBVIOUS
<1>2. IsFiniteSet(DOMAIN turns) /\ Cardinality(DOMAIN turns) = Len(turns)
  BY <1>1, Sized
<1>3. left \cup ats = DOMAIN turns /\ left \cap ats = {}
  BY DEF SplitUp
<1>4. ExistsBijection(ats, gone)
  <2>1. \A d \in gone : d.at \in ats /\ f[d.at] = d
    BY DEF SplitUp
  <2>2. \A x \in ats : f[x] \in gone /\ f[x].at = x
    OBVIOUS
  <2>3. f \in [ats -> gone]
    BY <2>2
  <2> HIDE DEF ats, f
  <2> QED
    BY <2>1, <2>2, <2>3 DEF ExistsBijection, Bijection, Injection, IsInjective, Surjection
<1> HIDE DEF ats, f
<1>5. /\ IsFiniteSet(ats) /\ Cardinality(ats) \in Nat /\ Cardinality(left) \in Nat
      /\ Cardinality(left) + Cardinality(ats) = Cardinality(DOMAIN turns)
  BY <1>2, <1>3, Parted
<1>6. Cardinality(gone) = Cardinality(ats)
  BY <1>4, <1>5, FS_Bijection
<1> QED
  BY <1>2, <1>5, <1>6

\* filter_noise, extract and gate: whatever the texts, the classifier's reply and
\* the draws are, no turn and no fact goes missing between the stages.
THEOREM NothingIsLost == Spec => []FunnelAccounts
<1>1. ProposalOK /\ Split /\ GatedOK => FunnelAccounts
  <2> SUFFICES ASSUME ProposalOK, Split, GatedOK PROVE FunnelAccounts
    OBVIOUS
  <2>1. ASSUME pc = "extract"
        PROVE  /\ kept \cup {d.at : d \in dropped} = DOMAIN proposal.turns
               /\ Cardinality(kept) + Cardinality(dropped) = Len(proposal.turns)
    <3>1. SplitUp(proposal.turns, kept, dropped)
      BY <2>1 DEF Split
    <3>2. proposal.turns \in Seq([id : TurnIds, text : Texts])
      BY DEF ProposalOK
    <3>3. Cardinality(kept) + Cardinality(dropped) = Len(proposal.turns)
      BY <3>1, <3>2, SplitCounts
    <3> QED
      BY <3>1, <3>3 DEF SplitUp
  <2> QED
    BY <2>1 DEF FunnelAccounts, GatedOK, AddsUp
<1> QED
  BY <1>1, ProposalInvariant, SplitInvariant, GatedInvariant, PTL

\* filter_noise, render_content and link_span: what a candidate quotes stands,
\* word for word or nearly, in a turn that was still kept.
THEOREM QuotesAreKept == Spec => QuotesKeptTurns
<1>1. ProposalOK /\ DrawsOK /\ [Next]_vars =>
        [AtExtract =>
           \A n \in DOMAIN gated'.admitted : \E i \in kept :
             Near(Normalise(gated'.admitted[n].c.quote), WordsAt(proposal.turns, i))]_vars
  <2> SUFFICES ASSUME ProposalOK, DrawsOK, [Next]_vars, AtExtract, NEW n \in DOMAIN gated'.admitted
               PROVE  \E i \in kept : Near(Normalise(gated'.admitted[n].c.quote),
                                           WordsAt(proposal.turns, i))
    OBVIOUS
  <2> DEFINE quote == gated'.admitted[n].c.quote
  <2>1. Extract /\ pc' = "score"
    <3>1. pc' = "score" /\ pc \in {"canonical", "spread"}
      BY DEF AtExtract
    <3>2. \A q \in DOMAIN task : ~ScoreCandidate(q)
      BY <3>1, ScoringOnly
    <3>3. Extract
      BY <3>1, <3>2
         DEF Next, FilterNoise, ClassifyNoise, CallRaises, NothingToExtract, AskCanonical,
             AskOthers, DrawGoesOn, DrawsFail, Return, Raise, vars
    <3> QED
      BY <3>1, <3>3
  <2>2. Alignment(quote, KeptContent) > 0
    BY <2>1, ExtractAccounts
  <2> HIDE DEF quote
  <2>3. quote \in KeptContent \/ \E t \in KeptContent : Near(Normalise(quote), Normalise(t))
    BY <2>2 DEF Alignment
  <2>4. \E t \in KeptContent : Near(Normalise(quote), Normalise(t))
    BY <2>3 DEF Near
  <2> QED
    BY <2>4 DEF KeptContent, Content, WordsAt, quote
<1> QED
  BY <1>1, ProposalInvariant, DrawsInvariant, PTL DEF Spec, QuotesKeptTurns

-----------------------------------------------------------------------------
(* What is written unseen.                                                 *)

LEMMA WeightedIsNumber ==
    ASSUME NEW spec \in PredicateSpecs, NEW mutation \in {"coexist", "refine", "supersede"},
           NEW scope \in {"org", "session", "user"}, NEW degree \in Degrees,
           NEW tier \in SourceTiers, NEW novelty \in Int
    PROVE  Weighted(spec, mutation, scope, degree, tier, novelty) \in Int
<1>1. ImpactFeature[spec.impact] \in Int
  BY DEF ImpactFeature, PredicateSpecs
<1>2. PiiFeature[spec.pii] \in Int
  BY DEF PiiFeature, PredicateSpecs
<1>3. IrreversibilityFeature[spec.irreversibility] \in Int
  BY DEF IrreversibilityFeature, PredicateSpecs
<1>4. MutationFeature[mutation] \in Int
  BY DEF MutationFeature
<1>5. ScopeFeature[scope] \in Int
  BY DEF ScopeFeature
<1>6. GraphFanout(degree) \in Int
  <2>1. degree \in Nat /\ (degree <= 3 \/ degree >= 50)
    BY PipelineAssumption
  <2>2. \A i \in 1..4 : <<0, 18, 28, 35>>[i] \in Int
    OBVIOUS
  <2>3. degree < 50 => degree + 1 \in 1..4
    BY <2>1
  <2> QED
    BY <2>1, <2>2, <2>3 DEF GraphFanout
<1>7. SourceTierRisk(tier) \in Int
  <2>1. tier \in DOMAIN GroundingMultiplier
    BY PipelineAssumption
  <2>2. \A t \in DOMAIN GroundingMultiplier : GroundingMultiplier[t] \in Int
    BY DEF GroundingMultiplier
  <2> QED
    BY <2>1, <2>2 DEF SourceTierRisk
<1> DEFINE a == ImpactFeature[spec.impact]
           b == MutationFeature[mutation]
           c == ScopeFeature[scope]
           d == GraphFanout(degree)
           e == PiiFeature[spec.pii]
           f == IrreversibilityFeature[spec.irreversibility]
           g == SourceTierRisk(tier)
<1>8. Weighted(spec, mutation, scope, degree, tier, novelty)
        = 220 * a + 160 * b + 130 * c + 90 * d + 110 * e + 140 * f + 100 * g + 50 * novelty + (-34000)
  BY DEF Weighted, Betas
<1>9. a \in Int /\ b \in Int /\ c \in Int /\ d \in Int /\ e \in Int /\ f \in Int /\ g \in Int
  BY <1>1, <1>2, <1>3, <1>4, <1>5, <1>6, <1>7
<1> HIDE DEF a, b, c, d, e, f, g
<1> QED
  BY <1>8, <1>9

\* What risk.py weighs is a number, and the impact's floor is under it.
LEMMA RiskIsFloored ==
    ASSUME ProposalOK, TasksOK, NEW n \in DOMAIN task, Spec_(n) \in PredicateSpecs,
           NEW degree \in Degrees
    PROVE  \E weighted \in Int : RiskOf(n, degree) = Risk(weighted, Spec_(n).impact)
<1> DEFINE hits == task[n].hits
           mutation == Mutation(task[n].report.kind)
           scope == Scope(proposal.namespace)
           novelty == Novelty(hits # <<>>, IF hits = <<>> THEN 0 ELSE hits[1].cosine)
           weighted == Weighted(Spec_(n), mutation, scope, degree, proposal.tier, novelty)
<1>1. mutation \in {"coexist", "refine", "supersede"}
  BY DEF Mutation
<1>2. scope \in {"org", "session", "user"}
  BY DEF Scope
<1>3. novelty \in Int
  <2> DEFINE cosine == IF hits = <<>> THEN 0 ELSE hits[1].cosine
  <2>1. PICK m \in 0..MaxHits : hits \in [1..m -> Hits]
    BY DEF TasksOK, TaskOK, BoundedSeq, SeqOf
  <2>2. m \in Nat
    BY <2>1, PipelineAssumption
  <2>3. hits # <<>> => hits[1] \in Hits
    BY <2>1, <2>2
  <2>4. cosine \in Int
    BY <2>3, PipelineAssumption
  <2> HIDE DEF cosine
  <2>5. Novelty(hits # <<>>, cosine) \in Int
    BY <2>4 DEF Novelty, AtMost, AtLeast
  <2> QED
    BY <2>5 DEF cosine
<1>4. proposal.tier \in SourceTiers
  BY DEF ProposalOK
<1> HIDE DEF mutation, scope, novelty
<1>5. weighted \in Int
  BY <1>1, <1>2, <1>3, <1>4, WeightedIsNumber
<1>6. RiskOf(n, degree) = Risk(weighted, Spec_(n).impact)
  BY DEF RiskOf, mutation, scope, novelty
<1> QED
  BY <1>5, <1>6

\* decide, for every candidate of every run: with a lower risk threshold no
\* higher than the floor of medium impact, as in settings.py, what is written
\* without review is of low impact and asks for no second source.
THEOREM OnlyLowIsWritten ==
    ASSUME Thresholds.rho_lo <= RiskFloor["medium"]
    PROVE  Spec => []OnlyLowImpactWrites
<1>1. Init => OnlyLowImpactWrites
  BY DEF Init, OnlyLowImpactWrites
<1>2. ProposalOK /\ TasksOK /\ GatedOK /\ NoneYet /\ OnlyLowImpactWrites
        /\ [Next]_vars => OnlyLowImpactWrites'
  <2> SUFFICES ASSUME ProposalOK, TasksOK, GatedOK, NoneYet, OnlyLowImpactWrites, [Next]_vars,
                      NEW n \in DOMAIN task', task'[n].decision = "auto_write"
               PROVE  Spec_(n)'.impact = "low" /\ ~Spec_(n)'.requires_corroboration
    BY DEF OnlyLowImpactWrites
  <2>1. ASSUME gated' = gated, n \in DOMAIN task, task'[n] = task[n]
        PROVE  Spec_(n)'.impact = "low" /\ ~Spec_(n)'.requires_corroboration
    BY <2>1 DEF OnlyLowImpactWrites, Spec_, Candidate
  <2>2. ASSUME NEW q \in DOMAIN task, ScoreCandidate(q)
        PROVE  Spec_(n)'.impact = "low" /\ ~Spec_(n)'.requires_corroboration
    <3>1. gated' = gated /\ n \in DOMAIN task
      BY <2>2, ScoringOnly
    <3>2. CASE q # n
      <4>1. \E t : task' = [task EXCEPT ![q] = t]
        BY <2>2, Zenon
           DEF ScoreCandidate, CandidateFails, Enter, Resolve, Retrieve, Detect, Score, Move
      <4> QED
        BY <2>1, <3>1, <3>2, <4>1
    <3>3. CASE q = n /\ Score(n)
      <4>1. PICK span \in Levels, scores \in [Pairs(Draws(Candidate(n))) -> Levels],
                 degree \in Degrees :
              Move(n, Task("governed", <<>>, <<>>, NoConflict,
                           Verdict(n, ConfidenceOf(n, span, scores), RiskOf(n, degree))))
        BY <3>3, Zenon DEF Score
      <4>2. task'[n].decision = Verdict(n, ConfidenceOf(n, span, scores), RiskOf(n, degree))
        BY <3>1, <4>1 DEF Move, Task
      <4>3. Spec_(n) \in PredicateSpecs
        BY <3>1, ValidationAssumption DEF GatedOK, Spec_
      <4>4. PICK weighted \in Int : RiskOf(n, degree) = Risk(weighted, Spec_(n).impact)
        BY <3>1, <4>3, RiskIsFloored
      <4>5. Spec_(n).impact = "low" /\ ~Spec_(n).requires_corroboration
        BY <4>2, <4>3, <4>4, OnlyLowUnseen DEF Verdict
      <4>6. Spec_(n)' = Spec_(n)
        BY <3>1 DEF Spec_, Candidate
      <4> QED
        BY <4>5, <4>6
    <3>4. CASE q = n /\ ~Score(n)
      <4> DEFINE Undecided == \E t : Move(n, t) /\ t.decision = NoReason
      <4>1. \A stage, hits, judged, report :
              Task(stage, hits, judged, report, NoReason).decision = NoReason
        BY DEF Task
      <4>2. ASSUME CandidateFails(n) \/ Enter(n) \/ Resolve(n) \/ Retrieve(n) PROVE Undecided
        BY <4>1, <4>2, Zenon DEF CandidateFails, Enter, Resolve, Retrieve, At
      <4>3. ASSUME Detect(n) PROVE Undecided
        BY <4>1, <4>3, Zenon DEF Detect
      <4>4. PICK t : Move(n, t) /\ t.decision = NoReason
        BY <2>2, <3>4, <4>2, <4>3 DEF ScoreCandidate
      <4>5. task'[n].decision = NoReason
        BY <3>1, <4>4 DEF Move
      <4> QED
        BY <4>5, PipelineAssumption
    <3> QED
      BY <3>2, <3>3, <3>4
  <2>3. CASE Extract /\ pc' = "score"
    <3>1. task' = [m \in DOMAIN gated'.admitted |-> Fresh]
      BY <2>3, Extracted
    <3>2. task'[n].decision = NoReason
      BY <3>1 DEF Fresh, At, Task
    <3> QED
      BY <3>2, PipelineAssumption
  <2>4. CASE Extract /\ pc' # "score"
    BY <2>1, <2>4, ExtractGivesUp DEF Raise, intakeVars
  <2>5. CASE \/ FilterNoise \/ ClassifyNoise \/ CallRaises \/ NothingToExtract
             \/ AskCanonical \/ AskOthers \/ DrawGoesOn \/ DrawsFail \/ Return
             \/ UNCHANGED vars
    <3>1. UNCHANGED <<gated, task>>
      BY <2>5, Zenon
         DEF FilterNoise, ClassifyNoise, CallRaises, NothingToExtract, AskCanonical,
             AskOthers, DrawGoesOn, DrawsFail, Return, Raise, intakeVars, vars
    <3> QED
      BY <2>1, <3>1
  <2> QED
    BY <2>2, <2>3, <2>4, <2>5 DEF Next
<1> QED
  BY <1>1, <1>2, ProposalInvariant, TasksInvariant, GatedInvariant, NoneYetInvariant,
     PTL DEF Spec

-----------------------------------------------------------------------------
(* The semaphore.                                                          *)

\* A decision is there when, and only when, the candidate has been governed.
Staged(t) ==
    /\ t.stage \in Stages
    /\ t.decision \in Answers
    /\ t.decision # NoReason <=> t.stage = "governed"

AllStaged == \A n \in DOMAIN task : Staged(task[n])

LEMMA Undecided ==
    ASSUME NEW stage \in Stages \ {"governed"}, NEW hits, NEW judged, NEW report
    PROVE  /\ Staged(Task(stage, hits, judged, report, NoReason))
           /\ Task(stage, hits, judged, report, NoReason).stage = stage
  BY DEF Staged, Task, Answers

LEMMA Decided ==
    ASSUME NEW n, NEW confidence, NEW risk
    PROVE  Verdict(n, confidence, risk) \in Decisions
<1> DEFINE rules == Rules(Spec_(n), proposal.tier, Mutation(task[n].report.kind),
                          task[n].report.hint, {}, Corroborated, FALSE)
           d == FromMatrix(confidence, risk, Corroborated)
<1>1. \A rule \in rules : rule[2] \in Decisions
  BY DEF Rules, Decisions
<1>2. d \in Decisions
  BY MatrixDecides
<1> HIDE DEF rules, d
<1>3. Tightened(d, rules) \in Decisions
  BY <1>1, <1>2, OnlyTightens
<1> QED
  BY <1>3 DEF Verdict, Decide, rules, d

\* What one step does to its task and to the semaphore.
Turned(t, u) ==
    /\ Staged(u)
    /\ t.stage \in Busy \cup {"waiting"}
    /\ t.stage \notin Busy => u.stage \in Busy /\ permits > 0 /\ permits' = permits - 1
    /\ t.stage \in Busy /\ u.stage \in Busy => permits' = permits
    /\ t.stage \in Busy /\ u.stage \notin Busy => permits' = permits + 1

LEMMA ScoringTurns ==
    ASSUME NEW n \in DOMAIN task, ScoreCandidate(n)
    PROVE  \E t : task' = [task EXCEPT ![n] = t] /\ Turned(task[n], t)
<1> SUFFICES \E t : Move(n, t) /\ Turned(task[n], t)
  BY DEF Move
<1>1. CASE Enter(n)
  <2>1. Staged(At("resolve", <<>>)) /\ At("resolve", <<>>).stage = "resolve"
    BY Undecided DEF At, Stages
  <2> QED
    BY <1>1, <2>1 DEF Enter, Turned, Busy
<1>2. CASE Resolve(n)
  <2>1. Staged(At("retrieve", <<>>)) /\ At("retrieve", <<>>).stage = "retrieve"
    BY Undecided DEF At, Stages
  <2> QED
    BY <1>2, <2>1 DEF Resolve, Turned, Busy
<1>3. CASE Retrieve(n)
  <2>1. PICK hits : Move(n, At("detect", hits))
    BY <1>3 DEF Retrieve
  <2>2. Staged(At("detect", hits)) /\ At("detect", hits).stage = "detect"
    BY Undecided DEF At, Stages
  <2> QED
    BY <1>3, <2>1, <2>2 DEF Retrieve, Turned, Busy
<1>4. CASE Detect(n)
  <2>1. PICK hits, judged, report : Move(n, Task("score", hits, judged, report, NoReason))
    BY <1>4, Zenon DEF Detect
  <2> DEFINE t == Task("score", hits, judged, report, NoReason)
  <2>2. Staged(t) /\ t.stage = "score"
    BY Undecided DEF Stages
  <2>3. permits' = permits /\ task[n].stage = "detect"
    BY <1>4, Zenon DEF Detect
  <2> HIDE DEF t
  <2> QED
    BY <2>1, <2>2, <2>3 DEF Turned, Busy, t
<1>5. CASE Score(n)
  <2>1. PICK span, scores, degree :
          Move(n, Task("governed", <<>>, <<>>, NoConflict,
                       Verdict(n, ConfidenceOf(n, span, scores), RiskOf(n, degree))))
    BY <1>5, Zenon DEF Score
  <2> DEFINE d == Verdict(n, ConfidenceOf(n, span, scores), RiskOf(n, degree))
             t == Task("governed", <<>>, <<>>, NoConflict, d)
  <2>2. d \in Decisions
    BY Decided
  <2>3. task[n].stage = "score" /\ permits' = permits + 1
    BY <1>5, Zenon DEF Score, Released
  <2>4. Move(n, t)
    BY <2>1
  <2> HIDE DEF d
  <2>5. Staged(t) /\ t.stage = "governed"
    BY <2>2, PipelineAssumption DEF Staged, Task, Stages, Answers, Decisions
  <2> HIDE DEF t
  <2> QED
    BY <2>3, <2>4, <2>5 DEF Turned, Busy
<1>6. CASE CandidateFails(n)
  <2>1. Staged(At("failed", <<>>)) /\ At("failed", <<>>).stage = "failed"
    BY Undecided DEF At, Stages
  <2> QED
    BY <1>6, <2>1 DEF CandidateFails, Released, Turned, Busy
<1> QED
  BY <1>1, <1>2, <1>3, <1>4, <1>5, <1>6 DEF ScoreCandidate

\* The candidates that have entered and not left.
Inside == {n \in DOMAIN task : task[n].stage \in Busy}

PermitsAddUp ==
    permits \in Nat /\ IsFiniteSet(Inside) /\ permits + Cardinality(Inside) = MaxConcurrent

LEMMA TurnedAddsUp ==
    ASSUME PermitsAddUp, NEW n \in DOMAIN task, NEW t,
           task' = [task EXCEPT ![n] = t], Turned(task[n], t)
    PROVE  PermitsAddUp'
<1>1. DOMAIN task' = DOMAIN task /\ task'[n] = t /\ \A m \in DOMAIN task \ {n} : task'[m] = task[m]
  OBVIOUS
<1>2. /\ t.stage \in Busy => Inside' = Inside \cup {n}
      /\ t.stage \notin Busy => Inside' = Inside \ {n}
      /\ n \in Inside <=> task[n].stage \in Busy
  BY <1>1 DEF Inside
<1>3. Cardinality(Inside) \in Nat
  BY FS_CardinalityType DEF PermitsAddUp
<1>4. CASE n \notin Inside
  <2>1. /\ IsFiniteSet(Inside \cup {n})
        /\ Cardinality(Inside \cup {n}) = Cardinality(Inside) + 1
    BY <1>4, FS_AddElement DEF PermitsAddUp
  <2>2. Inside' = Inside \cup {n} /\ permits > 0 /\ permits' = permits - 1
    BY <1>2, <1>4 DEF Turned
  <2> QED
    BY <1>3, <2>1, <2>2, PipelineAssumption DEF PermitsAddUp
<1>5. CASE n \in Inside /\ t.stage \in Busy
  <2>1. Inside' = Inside /\ permits' = permits
    BY <1>2, <1>5 DEF Turned
  <2> QED
    BY <2>1 DEF PermitsAddUp
<1>6. CASE n \in Inside /\ t.stage \notin Busy
  <2>1. /\ IsFiniteSet(Inside \ {n})
        /\ Cardinality(Inside \ {n}) = Cardinality(Inside) - 1
    BY <1>6, FS_RemoveElement DEF PermitsAddUp
  <2>2. Inside' = Inside \ {n} /\ permits' = permits + 1
    BY <1>2, <1>6 DEF Turned
  <2> QED
    BY <1>3, <2>1, <2>2, PipelineAssumption DEF PermitsAddUp
<1> QED
  BY <1>4, <1>5, <1>6

LEMMA InitPermits == Init => AllStaged /\ PermitsAddUp
<1> SUFFICES ASSUME Init PROVE AllStaged /\ PermitsAddUp
  OBVIOUS
<1>1. DOMAIN task = {} /\ permits = MaxConcurrent
  BY DEF Init
<1>2. Inside = {}
  BY <1>1 DEF Inside
<1> QED
  BY <1>1, <1>2, FS_EmptySet, PipelineAssumption DEF AllStaged, PermitsAddUp

LEMMA StepPermits ==
    NoneYet /\ AllStaged /\ PermitsAddUp /\ [Next]_vars => AllStaged' /\ PermitsAddUp'
<1> SUFFICES ASSUME NoneYet, AllStaged, PermitsAddUp, [Next]_vars
             PROVE  AllStaged' /\ PermitsAddUp'
  OBVIOUS
<1>1. ASSUME UNCHANGED <<task, permits>> PROVE AllStaged' /\ PermitsAddUp'
  BY <1>1 DEF AllStaged, PermitsAddUp, Inside
<1>2. ASSUME NEW n \in DOMAIN task, ScoreCandidate(n) PROVE AllStaged' /\ PermitsAddUp'
  <2>1. PICK t : task' = [task EXCEPT ![n] = t] /\ Turned(task[n], t)
    BY <1>2, ScoringTurns
  <2>2. AllStaged'
    BY <2>1 DEF AllStaged, Turned
  <2> QED
    BY <2>1, <2>2, TurnedAddsUp
<1>3. CASE Extract /\ pc' = "score"
  <2>1. task' = [n \in DOMAIN gated'.admitted |-> Fresh] /\ permits' = permits
    <3>1. permits' = permits
      BY <1>3, Zenon DEF Extract, Raise
    <3> QED
      BY <1>3, <3>1, Extracted
  <2>2. Staged(Fresh) /\ Fresh.stage = "waiting"
    BY Undecided DEF Fresh, At, Stages
  <2>3. DOMAIN task = {}
    BY <1>3 DEF NoneYet, Extract, DrawsDone
  <2>4. Inside = {} /\ Inside' = {}
    BY <2>1, <2>2, <2>3 DEF Inside, Busy
  <2> QED
    BY <2>1, <2>2, <2>4 DEF AllStaged, PermitsAddUp
<1>4. CASE Extract /\ pc' # "score"
  BY <1>1, <1>4, ExtractGivesUp DEF Raise
<1>5. CASE \/ FilterNoise \/ ClassifyNoise \/ CallRaises \/ NothingToExtract
           \/ AskCanonical \/ AskOthers \/ DrawGoesOn \/ DrawsFail \/ Return
           \/ UNCHANGED vars
  <2>1. UNCHANGED <<task, permits>>
    BY <1>5, Zenon
       DEF FilterNoise, ClassifyNoise, CallRaises, NothingToExtract, AskCanonical,
           AskOthers, DrawGoesOn, DrawsFail, Return, Raise, vars
  <2> QED
    BY <1>1, <2>1
<1> QED
  BY <1>2, <1>3, <1>4, <1>5 DEF Next

\* per_candidate, async with: a permit is out for each candidate that has
\* entered and not left, and for no other, so there are never more of them at
\* work than settings allow, and no failure narrows the way in.
THEOREM PermitsComeBack == Spec => []PermitsAddUp
<1>1. Init => AllStaged /\ PermitsAddUp
  BY InitPermits
<1>2. NoneYet /\ AllStaged /\ PermitsAddUp /\ [Next]_vars => AllStaged' /\ PermitsAddUp'
  BY StepPermits
<1> QED
  BY <1>1, <1>2, NoneYetInvariant, PTL DEF Spec

-----------------------------------------------------------------------------
(* Types.                                                                  *)

Places == {"filter", "classify", "extract", "canonical", "spread", "score", "returned", "raised"}

\* What TypeOK asks beyond the tasks, and that no draw kept came back empty.
Shaped ==
    /\ pc \in Places
    /\ SamplingTypeOK
    /\ canonical \in Seq(Completions) /\ \A i \in DOMAIN canonical : canonical[i] # Empty
    /\ kept \subseteq DOMAIN proposal.turns
    /\ dropped \subseteq [at : DOMAIN proposal.turns, by : {"rule", "classifier"}]
    /\ \A i \in DOMAIN samples : samples[i] \in FactLists
    /\ bound \in BOOLEAN

LEMMA DrawTyped ==
    ASSUME SamplingTypeOK, NEW llm, NEW n, Draw(llm, n) PROVE SamplingTypeOK'
<1>1. CASE Cancel
  <2>1. requests' = [i \in DOMAIN requests |->
                       IF requests[i].at = "open" THEN Request("cancelling", <<>>)
                       ELSE requests[i]]
    BY <1>1 DEF Cancel
  <2>2. Request("cancelling", <<>>).at = "cancelling" /\ Request("cancelling", <<>>).texts = <<>>
    BY DEF Request
  <2> QED
    BY <2>1, <2>2 DEF SamplingTypeOK
<1>2. ASSUME NEW i \in DOMAIN requests, NEW at \in {"answered", "failed", "cancelled"}, NEW texts,
             Ending(i, at, texts), at # "answered" => texts = <<>>
      PROVE  SamplingTypeOK'
  <2>1. requests' = [requests EXCEPT ![i] = Request(at, texts)]
    BY <1>2 DEF Ending
  <2>2. Request(at, texts).at = at /\ Request(at, texts).texts = texts
    BY DEF Request
  <2> QED
    BY <1>2, <2>1, <2>2 DEF SamplingTypeOK
<1>3. ASSUME NEW i \in DOMAIN requests, Answer(i, llm, n) \/ FailRequest(i) \/ CancelEnds(i)
      PROVE  SamplingTypeOK'
  BY <1>2, <1>3 DEF Answer, FailRequest, CancelEnds
<1> QED
  BY <1>1, <1>3 DEF Draw

LEMMA ExtractShaped ==
    ASSUME ProposalOK, DrawsOK, Shaped, Extract, pc' = "score"
    PROVE  Shaped'
<1>1. /\ samples' = [i \in DOMAIN Drawn |-> Drawn[i].facts]
      /\ requests' = <<>> /\ canonical' = <<>>
      /\ proposal' = [proposal EXCEPT !.turns = <<>>, !.llm = NoReason]
  BY Extracted
<1>2. kept' = {} /\ dropped' = {} /\ bound' = bound
  <2>1. ~Raise
    BY DEF Raise
  <2> QED
    BY <2>1, Zenon DEF Extract
<1>3. RequestsOK /\ Settled /\ Complete /\ Unfit \notin ToSet(Drawn)
  BY DEF Extract, DrawsDone, Parses, DrawsOK
<1>4. Samples \in Seq(Completions) /\ \A i \in DOMAIN Samples : Samples[i] # Empty
  BY <1>3, SamplesAre DEF Complete, ToSet
<1>5. \A i \in DOMAIN Drawn : Drawn[i] \in Completions \ {Empty, Unfit}
  <2> HIDE DEF Samples, Completions, Empty, Unfit
  <2>1. \A i \in DOMAIN Drawn : Drawn[i] \in Completions \ {Empty}
    BY <1>4 DEF Drawn, Shaped
  <2>2. \A i \in DOMAIN Drawn : Drawn[i] # Unfit
    BY <1>3 DEF ToSet
  <2> QED
    BY <2>1, <2>2
<1>6. \A t \in Completions \ {Empty, Unfit} : t.facts \in FactLists
  BY DEF Completions, Sample
<1>7. \A i \in DOMAIN samples' : samples'[i] \in FactLists
  <2> HIDE DEF Drawn
  <2> QED
    BY <1>1, <1>5, <1>6
<1>8. SamplingTypeOK'
  BY <1>1 DEF SamplingTypeOK
<1>9. canonical' \in Seq(Completions) /\ \A i \in DOMAIN canonical' : canonical'[i] # Empty
  BY <1>1
<1> QED
  BY <1>2, <1>7, <1>8, <1>9 DEF Shaped, Places

LEMMA ShapedInvariant == Spec => []Shaped
<1>1. Init => Shaped
  <2> SUFFICES ASSUME Init PROVE Shaped
    OBVIOUS
  <2>1. DOMAIN requests = {} /\ DOMAIN canonical = {} /\ DOMAIN samples = {}
    BY DEF Init
  <2>2. canonical \in Seq(Completions)
    BY DEF Init
  <2>3. pc = "filter" /\ kept = {} /\ dropped = {} /\ bound = FALSE
    BY DEF Init
  <2> QED
    BY <2>1, <2>2, <2>3 DEF Shaped, Places, SamplingTypeOK
<1>2. ProposalOK /\ DrawsOK /\ Shaped /\ [Next]_vars => Shaped'
  <2> SUFFICES ASSUME ProposalOK, DrawsOK, Shaped, [Next]_vars PROVE Shaped'
    OBVIOUS
  <2>1. ASSUME UNCHANGED intakeVars, pc' \in Places, bound' \in BOOLEAN PROVE Shaped'
    BY <2>1 DEF Shaped, SamplingTypeOK, intakeVars, drawVars
  <2>2. CASE FilterNoise
    <3>1. kept' \subseteq DOMAIN proposal.turns
      BY <2>2 DEF FilterNoise, RuleKept
    <3>2. dropped' \subseteq [at : DOMAIN proposal.turns, by : {"rule", "classifier"}]
      BY <2>2 DEF FilterNoise, RuleDrops
    <3>3. UNCHANGED <<proposal, requests, canonical, samples, bound>> /\ pc' \in Places
      BY <2>2 DEF FilterNoise, drawVars, Places
    <3> QED
      BY <3>1, <3>2, <3>3 DEF Shaped, SamplingTypeOK
  <2>3. CASE ClassifyNoise
    <3>1. PICK left \in SUBSET kept :
             /\ kept' = left
             /\ dropped' = dropped \cup {[at |-> i, by |-> "classifier"] : i \in kept \ left}
      <4>1. \A drops : Survivors(proposal.turns, kept, drops) \in SUBSET kept
        BY DEF Survivors
      <4> QED
        BY <2>3, <4>1 DEF ClassifyNoise
    <3>2. dropped' \subseteq [at : DOMAIN proposal.turns, by : {"rule", "classifier"}]
      BY <3>1 DEF Shaped
    <3>3. UNCHANGED <<proposal, requests, canonical, samples, bound>> /\ pc' \in Places
      BY <2>3 DEF ClassifyNoise, drawVars, Places
    <3> QED
      BY <3>1, <3>2, <3>3 DEF Shaped, SamplingTypeOK
  <2>4. ASSUME UNCHANGED <<proposal, kept, dropped, samples, bound>>, SamplingTypeOK', pc' \in Places,
               canonical' \in Seq(Completions), \A i \in DOMAIN canonical' : canonical'[i] # Empty
        PROVE  Shaped'
    BY <2>4 DEF Shaped
  <2>5. ASSUME NEW n, requests' = Requested(proposal.llm, n) PROVE SamplingTypeOK'
    BY <2>5 DEF SamplingTypeOK, Requested, Request
  <2>6. CASE AskCanonical
    BY <2>4, <2>5, <2>6 DEF AskCanonical, Shaped, Places
  <2>7. CASE AskOthers
    <3>1. Samples \in Seq(Completions) /\ \A i \in DOMAIN Samples : Samples[i] # Empty
      BY <2>7, SamplesAre DEF AskOthers, DrawsOK, Complete, ToSet
    <3>2. SamplingTypeOK'
      BY <2>5, <2>7 DEF AskOthers
    <3>3. /\ UNCHANGED <<proposal, kept, dropped, samples, bound>>
          /\ canonical' = Samples /\ pc' \in Places
      BY <2>7 DEF AskOthers, Places
    <3> QED
      BY <2>4, <3>1, <3>2, <3>3
  <2>8. CASE DrawGoesOn
    <3>1. SamplingTypeOK'
      BY <2>8, DrawTyped DEF DrawGoesOn, Shaped
    <3>2. UNCHANGED <<proposal, kept, dropped, samples, bound, canonical, pc>>
      BY <2>8, Zenon DEF DrawGoesOn
    <3> QED
      BY <2>4, <3>1, <3>2 DEF Shaped
  <2>9. CASE DrawsFail
    <3>1. SamplingTypeOK'
      BY <2>9 DEF DrawsFail, Forgotten, Request, SamplingTypeOK, Shaped
    <3>2. canonical' = <<>> /\ pc' = "raised" /\ UNCHANGED <<proposal, kept, dropped, samples, bound>>
      BY <2>9 DEF DrawsFail
    <3> QED
      BY <2>4, <3>1, <3>2 DEF Places
  <2>10. CASE Extract /\ pc' = "score"
    BY <2>10, ExtractShaped
  <2>11. CASE Extract /\ pc' # "score"
    BY <2>1, <2>11, ExtractGivesUp DEF Raise, Places, Shaped
  <2>12. CASE CallRaises \/ NothingToExtract \/ Return
    BY <2>1, <2>12, Zenon DEF CallRaises, NothingToExtract, Return, Raise, Places, Shaped
  <2>13. ASSUME NEW n \in DOMAIN task, ScoreCandidate(n) PROVE Shaped'
    <3>1. UNCHANGED <<intakeVars, pc>> /\ (bound' = bound \/ bound' = TRUE)
      BY <2>13, Zenon
         DEF ScoreCandidate, CandidateFails, Enter, Resolve, Retrieve, Detect, Score, Move
    <3> QED
      BY <2>1, <3>1 DEF Shaped
  <2>14. CASE UNCHANGED vars
    BY <2>1, <2>14 DEF vars, Shaped
  <2> QED
    BY <2>2, <2>3, <2>6, <2>7, <2>8, <2>9, <2>10, <2>11, <2>12, <2>13, <2>14 DEF Next
<1> QED
  BY <1>1, <1>2, ProposalInvariant, DrawsInvariant, PTL DEF Spec

\* orchestrator.run: every variable keeps its type; what was drawn and kept is
\* well formed, and a candidate has a decision when it has been governed and
\* at no other time.
THEOREM TypeCorrect == Spec => []TypeOK
<1>1. Init => AllStaged /\ PermitsAddUp
  BY InitPermits
<1>2. NoneYet /\ AllStaged /\ PermitsAddUp /\ [Next]_vars => AllStaged' /\ PermitsAddUp'
  BY StepPermits
<1>3. Shaped /\ AllStaged /\ PermitsAddUp /\ TasksOK /\ GatedOK => TypeOK
  <2> SUFFICES ASSUME Shaped, AllStaged, PermitsAddUp, TasksOK, GatedOK PROVE TypeOK
    OBVIOUS
  <2>1. permits \in 0..MaxConcurrent
    BY FS_CardinalityType, PipelineAssumption DEF PermitsAddUp
  <2>2. \A i \in DOMAIN canonical : canonical[i] \in Completions
    BY DEF Shaped
  <2>3. ASSUME NEW n \in DOMAIN task
        PROVE  DOMAIN task[n].judged \in {{}, DOMAIN task[n].hits}
    BY DEF TasksOK, TaskOK
  <2> QED
    BY <2>1, <2>2, <2>3, Zenon DEF TypeOK, Shaped, Places, AllStaged, Staged, GatedOK
<1> QED
  BY <1>1, <1>2, <1>3, ShapedInvariant, NoneYetInvariant, TasksInvariant, GatedInvariant,
     PTL DEF Spec
=============================================================================
