------------------------------ MODULE Pipeline ------------------------------
(***************************************************************************)
(* orchestrator.run for one proposal: noise filter, extraction and schema  *)
(* gate once, then per candidate, under a semaphore, retrieval, conflict   *)
(* detection and scoring.                                                  *)
(*                                                                         *)
(* A step runs from one awaited answer to the next.  What the models and   *)
(* the stores answer is any answer of the bounded sets below; any call may *)
(* raise.  Nothing is written here: the decisions go to Governance.        *)
(***************************************************************************)
EXTENDS Intake, Validation, Scoring, Sampling

CONSTANTS
    TurnLists,    \* the conversations a proposal may carry
    SourceTiers,
    Namespaces,   \* what the namespaces of proposals name: "none", "session",
                  \* "org", or another type of entity
    Ks,           \* how many draws are asked for
    Hits,         \* incumbents search may return
    MaxHits,      \* of them in one answer
    Judgements,   \* what the judge may say of one incumbent, in percent
    Levels,       \* entailment scores, in percent
    Degrees,      \* of a subject in the graph
    MaxVerdicts,  \* in one reply of the classifier
    MaxConcurrent \* settings.max_concurrent_scores

\* ExtractedFact: the subject and the predicate are names the model made up.
Facts == [subject : STRING, predicate : STRING, object : Values, quote : Texts]

ASSUME PipelineAssumption ==
    /\ TurnLists \subseteq Seq([id : TurnIds, text : Texts])
    /\ FactLists \subseteq Seq(Facts)
    /\ SourceTiers \subseteq DOMAIN GroundingMultiplier
    /\ Ks \subseteq 1..3
    /\ MaxConcurrent \in Nat \ {0}
    /\ MaxHits \in Nat /\ MaxVerdicts \in Nat
    /\ \A h \in Hits : h.cosine \in Int
    /\ \A j \in Judgements : j.contradiction \in 0..100
    /\ \A degree \in Degrees : degree \in Nat /\ (degree <= 3 \/ degree >= 50)
    /\ NoReason \notin {"auto_write", "escalate", "hitl_review", "reject"}

VARIABLES
    proposal,     \* [turns, tier, namespace, k], and the adapter that serves it
    pc,           \* where run() stands
    kept,         \* positions of the turns kept so far
    dropped,      \* [at, by] of those that were not
    canonical,    \* the first completion, while the others are drawn
    samples,      \* the draws, the canonical one first
    gated,        \* the candidates as the schema gate left them
    task,         \* of each admitted candidate, where its scoring stands
    permits,      \* the semaphore
    bound         \* whether the namespace has its row in the entity table

drawVars == <<requests, canonical>>
intakeVars == <<proposal, kept, dropped, samples, gated, drawVars>>
vars == <<intakeVars, pc, task, permits, bound>>

Ungated == [admitted |-> <<>>, quarantined |-> <<>>, rejected |-> <<>>,
            unsourced |-> 0]

NoAnswer == Value("none", "none")    \* None among the draws

Stages == {"waiting", "resolve", "retrieve", "detect", "score", "governed", "failed"}
Busy == {"resolve", "retrieve", "detect", "score"}
Answers == {"auto_write", "escalate", "hitl_review", "reject", NoReason}

Task(stage, hits, judged, report, decision) ==
    [stage |-> stage, hits |-> hits, judged |-> judged,
     report |-> report, decision |-> decision]

At(stage, hits) == Task(stage, hits, <<>>, NoConflict, NoReason)

Fresh == At("waiting", <<>>)

TypeOK ==
    /\ pc \in {"filter", "classify", "extract", "canonical", "spread", "score",
               "returned", "raised"}
    /\ SamplingTypeOK
    /\ \A i \in DOMAIN canonical : canonical[i] \in Completions
    /\ kept \subseteq DOMAIN proposal.turns
    /\ dropped \subseteq [at : DOMAIN proposal.turns, by : {"rule", "classifier"}]
    /\ \A i \in DOMAIN samples : samples[i] \in FactLists
    /\ DOMAIN task = DOMAIN gated.admitted
    /\ \A n \in DOMAIN task :
          /\ task[n].stage \in Stages
          /\ task[n].decision \in Answers
          /\ task[n].decision # NoReason <=> task[n].stage = "governed"
          /\ DOMAIN task[n].judged \in {{}, DOMAIN task[n].hits}
    /\ permits \in 0..MaxConcurrent
    /\ bound \in BOOLEAN

Init ==
    /\ proposal \in [turns : TurnLists, tier : SourceTiers, namespace : Namespaces,
                     k : Ks, llm : Adapters]
    /\ requests = <<>> /\ canonical = <<>>
    /\ pc = "filter"
    /\ kept = {} /\ dropped = {}
    /\ samples = <<>> /\ gated = Ungated
    /\ task = <<>>
    /\ permits = MaxConcurrent
    /\ bound = FALSE    \* the namespace's first proposal

Raise ==
    /\ pc' = "raised"
    /\ UNCHANGED <<intakeVars, task, permits, bound>>

-----------------------------------------------------------------------------
(* Layer 1.                                                                *)

\* The rules, without a call; the classifier has its turn only if needed.
FilterNoise ==
    /\ pc = "filter"
    /\ kept' = RuleKept(proposal.turns)
    /\ dropped' = {[at |-> i, by |-> "rule"] : i \in RuleDrops(proposal.turns)}
    /\ pc' = IF Ambiguous(proposal.turns) = {} THEN "extract" ELSE "classify"
    /\ UNCHANGED <<proposal, drawVars, samples, gated, task, permits, bound>>

Sent == {proposal.turns[i].id : i \in Ambiguous(proposal.turns)}

Replies == [parses : BOOLEAN, verdicts : BoundedSeq(Verdicts, MaxVerdicts)]

\* One batched call.  A reply that does not parse drops nothing.
ClassifyNoise ==
    /\ pc = "classify"
    /\ \E reply \in Replies :
          LET drops == ConfidentDrops(reply, Sent)
              left  == Survivors(proposal.turns, kept, drops)
          IN /\ kept' = left
             /\ dropped' = dropped \cup
                  {[at |-> i, by |-> "classifier"] : i \in kept \ left}
    /\ pc' = "extract"
    /\ UNCHANGED <<proposal, drawVars, samples, gated, task, permits, bound>>

\* A provider is down or the reply repeats the canary: no candidate exists yet
\* that the failure could be attributed to.
CallRaises == pc = "classify" /\ Raise

\* _context: no surviving turn, no time of capture (the gateway's turns all
\* carry one).
NothingToExtract == pc = "extract" /\ kept = {} /\ Raise

\* _draw: the canonical sample first, and alone.
AskCanonical ==
    /\ pc = "extract" /\ kept # {}
    /\ pc' = "canonical"
    /\ requests' = Requested(proposal.llm, 1)
    /\ UNCHANGED <<proposal, kept, dropped, canonical, samples, gated, task, permits, bound>>

\* Then the others, all at once.
AskOthers ==
    /\ pc = "canonical" /\ Settled /\ Complete /\ proposal.k > 1
    /\ pc' = "spread"
    /\ canonical' = Samples
    /\ requests' = Requested(proposal.llm, proposal.k - 1)
    /\ UNCHANGED <<proposal, kept, dropped, samples, gated, task, permits, bound>>

\* What the requests do, whether or not anybody is left to hear of it.
DrawGoesOn ==
    /\ Draw(proposal.llm, IF pc = "canonical" THEN 1 ELSE proposal.k - 1)
    /\ UNCHANGED <<proposal, kept, dropped, canonical, samples, gated, pc, task, permits, bound>>

\* The last call is over.
DrawsDone ==
    pc = (IF proposal.k = 1 THEN "canonical" ELSE "spread") /\ Settled /\ Complete
Drawn == canonical \o Samples

\* _parse: k samples, neither more nor fewer, and all of them well formed.
Parses == Len(Drawn) = proposal.k /\ Unfit \notin ToSet(Drawn)

\* The error of a completion, of reject_echo or of _parse reaches the caller;
\* what else was drawn is dropped.
DrawsFail ==
    /\ \/ pc \in {"canonical", "spread"} /\ Settled /\ ~Complete
       \/ DrawsDone /\ ~Parses
    /\ pc' = "raised"
    /\ requests' = Forgotten /\ canonical' = <<>>
    /\ UNCHANGED <<proposal, kept, dropped, samples, gated, task, permits, bound>>

KeptContent == Content(proposal.turns, kept)

Funnel(facts) ==
    LET gate == Gate(ToCandidates(facts, KeptContent))
    IN [admitted |-> gate.admitted, quarantined |-> gate.quarantined,
        rejected |-> gate.rejected, unsourced |-> Unsourced(facts, KeptContent)]

\* Candidates from the canonical sample, as the gate admits them.  The turns
\* are not read again: the counts in the result are what is left of them.
Extract ==
    /\ DrawsDone /\ Parses
    /\ LET drawn == [i \in DOMAIN Drawn |-> Drawn[i].facts]
       IN IF Unciteable(drawn[1], KeptContent) THEN Raise
          ELSE /\ samples' = drawn
               /\ gated' = Funnel(drawn[1])
               /\ task' = [n \in DOMAIN gated'.admitted |-> Fresh]
               /\ kept' = {} /\ dropped' = {}
               /\ requests' = <<>> /\ canonical' = <<>>
               /\ proposal' = [proposal EXCEPT !.turns = <<>>, !.llm = NoReason]
               /\ pc' = "score"
               /\ UNCHANGED <<permits, bound>>

-----------------------------------------------------------------------------
(* Layers 2 and 3, one candidate.                                          *)

Candidate(n) == gated.admitted[n].c
Spec_(n) == Predicates[Candidate(n).predicate]

Move(n, t) ==
    /\ task' = [task EXCEPT ![n] = t]
    /\ UNCHANGED <<intakeVars, pc>>

Enter(n) ==
    /\ pc = "score" /\ task[n].stage = "waiting"
    /\ permits > 0
    /\ permits' = permits - 1
    /\ Move(n, At("resolve", <<>>))
    /\ UNCHANGED bound

\* NamespaceEntityResolver: a namespace binds the one subject it names, and the
\* predicate must be about that type of entity.
Binds(n) == proposal.namespace # "none" /\ proposal.namespace = Spec_(n).subject

\* The entity's row is there when the subject is resolved, and stays there.
Resolve(n) ==
    /\ task[n].stage = "resolve" /\ Binds(n)
    /\ bound' = TRUE
    /\ Move(n, At("retrieve", <<>>))
    /\ UNCHANGED permits

HitLists ==
    {hits \in BoundedSeq(Hits, MaxHits) :
        \A i, j \in DOMAIN hits : i < j => /\ hits[i] # hits[j]
                                           /\ hits[i].cosine >= hits[j].cosine}

\* The subject's live, visible assertions on the predicate come back nearest
\* first, and the graph is asked for its edges.
Retrieve(n) ==
    /\ task[n].stage = "retrieve"
    /\ \E hits \in HitLists : Move(n, At("detect", hits))
    /\ UNCHANGED <<permits, bound>>

\* conflict.detect: structure first; otherwise one call judges every incumbent,
\* and a reply of another length is refused.
Detect(n) ==
    /\ task[n].stage = "detect"
    /\ LET hits == task[n].hits
           settled == Structural(Candidate(n), Spec_(n), hits)
       IN \/ \E report \in settled :
                Move(n, Task("score", hits, <<>>, report, NoReason))
          \/ /\ settled = {}
             /\ \E judged \in [DOMAIN hits -> Judgements] :
                   Move(n, Task("score", hits, judged,
                                Adjudicate(Candidate(n), hits, judged), NoReason))
    /\ UNCHANGED <<permits, bound>>

\* The object each draw gave for the candidate's subject and predicate, the
\* first one where it gave several.
Draws(c) ==
    [i \in DOMAIN samples |->
        LET found == SelectSeq(samples[i],
                        LAMBDA f : f.subject = c.subject /\ f.predicate = c.predicate)
        IN IF found = <<>> THEN NoAnswer ELSE Head(found).object]

\* entail_pairs: the answered draws against each other, both ways.
Pairs(draws) ==
    LET answers == ToSet(draws) \ {NoAnswer}
    IN {p \in answers \X answers : p[1] # p[2]}

ConfidenceOf(n, span, scores) ==
    LET c == Candidate(n)
        answers == ToSet(Draws(c))
        entail == [p \in answers \X answers |-> IF p[1] = p[2] THEN 100 ELSE scores[p]]
    IN Confidence(Entropy(Draws(c), NoAnswer, entail),
                  Grounding(span, proposal.tier, c.alignment),
                  gated.admitted[n].fit, 1, task[n].report)

\* scope_of_namespace.
Scope(namespace) == IF namespace \in {"org", "session"} THEN namespace ELSE "user"

RiskOf(n, degree) ==
    LET hits == task[n].hits
    IN Risk(Weighted(Spec_(n), Mutation(task[n].report.kind), Scope(proposal.namespace), degree,
                     proposal.tier,
                     Novelty(hits # <<>>, IF hits = <<>> THEN 0 ELSE hits[1].cosine)),
            Spec_(n).impact)

\* One source, no obligations, no second round: run() passes nothing else.
Corroborated == Corroboration(1) >= Corroboration(2)

Verdict(n, confidence, risk) ==
    Decide(confidence, risk, Corroborated,
           Rules(Spec_(n), proposal.tier, Mutation(task[n].report.kind),
                 task[n].report.hint, {}, Corroborated, FALSE), FALSE)

\* Faulty: the permit comes back only where a decision was reached.
KeepsPermit == permits

\* async with: the permit comes back whatever happened.
Released == permits + 1

\* The report goes out with the outcome; nothing reads it again here.
Score(n) ==
    /\ task[n].stage = "score"
    /\ \E span \in Levels, scores \in [Pairs(Draws(Candidate(n))) -> Levels],
          degree \in Degrees :
          Move(n, Task("governed", <<>>, <<>>, NoConflict,
                       Verdict(n, ConfidenceOf(n, span, scores), RiskOf(n, degree))))
    /\ permits' = Released
    /\ UNCHANGED bound

\* Whatever a call of this candidate raises, or its resolution, stays with this
\* candidate.  The row of its entity may be there all the same.
CandidateFails(n) ==
    /\ task[n].stage \in Busy
    /\ Move(n, At("failed", <<>>))
    /\ permits' = Released
    /\ UNCHANGED bound

ScoreCandidate(n) ==
    CandidateFails(n) \/ Enter(n) \/ Resolve(n) \/ Retrieve(n) \/ Detect(n) \/ Score(n)

Ended(n) == task[n].stage \in {"governed", "failed"}

\* gather: every candidate has its outcome.
Return ==
    /\ pc = "score" /\ \A n \in DOMAIN task : Ended(n)
    /\ pc' = "returned"
    /\ UNCHANGED <<intakeVars, task, permits, bound>>

Next ==
    \/ Return
    \/ \E n \in DOMAIN task : ScoreCandidate(n)
    \/ FilterNoise \/ ClassifyNoise \/ CallRaises \/ NothingToExtract
    \/ AskCanonical \/ AskOthers \/ DrawGoesOn \/ DrawsFail \/ Extract

Spec == Init /\ [][Next]_vars

\* The event loop runs what is ready, and every call has a timeout, but for the
\* BEGIN and COMMIT of transactions, which are assumed to return.
FairSpec == Spec /\ WF_vars(Next)
-----------------------------------------------------------------------------
(* Properties.                                                             *)

AtExtract == pc \in {"canonical", "spread"} /\ pc' = "score"

\* Every turn a proposal carries is kept or among the dropped, once; every fact
\* the canonical draw holds is admitted, quarantined, rejected or counted as
\* unsourced: no stage loses what the funnel does not show.
FunnelAccounts ==
    /\ pc = "extract" =>
          /\ kept \cup {d.at : d \in dropped} = DOMAIN proposal.turns
          /\ Cardinality(kept) + Cardinality(dropped) = Len(proposal.turns)
    /\ samples # <<>> =>
          Len(samples[1]) = Cardinality(DOMAIN gated.admitted)
                            + Cardinality(DOMAIN gated.quarantined)
                            + Cardinality(DOMAIN gated.rejected) + gated.unsourced

\* No candidate cites what the noise filter dropped: its quote is, or is nearly,
\* a text of a turn still kept when extraction ran.
QuotesKeptTurns ==
    [][AtExtract =>
         \A n \in DOMAIN gated'.admitted : \E i \in kept :
             Near(Normalise(gated'.admitted[n].c.quote),
                  WordsAt(proposal.turns, i))]_vars

\* draw_samples: a run that goes on or gives up has no request still under way;
\* the siblings of a failed one are cancelled and waited for.
NoOrphans ==
    pc \notin {"canonical", "spread"} => \A i \in DOMAIN requests : ~Pending(i)

\* A fact the judge finds at odds with any incumbent it was shown, near or far,
\* is not written without a second look.
DisputedNeverWrites ==
    [][\A n \in DOMAIN task :
          /\ task[n].stage = "score" /\ task'[n].stage = "governed"
          /\ \E i \in DOMAIN task[n].judged :
                task[n].judged[i].contradiction >= AmbiguousFloor
          => task'[n].decision # "auto_write"]_vars

\* With the default thresholds, only facts of low impact that need no second
\* source are written unseen: the floor of medium impact is the lower risk
\* threshold itself, and one proposal counts as one source.
OnlyLowImpactWrites ==
    \A n \in DOMAIN task :
        task[n].decision = "auto_write" =>
            Spec_(n).impact = "low" /\ ~Spec_(n).requires_corroboration

\* A proposal comes to its end, with an outcome for every admitted candidate,
\* however many of their calls raise.
RunEnds == <>(pc = "raised" \/ (pc = "returned" /\ \A n \in DOMAIN task : Ended(n)))
=============================================================================
