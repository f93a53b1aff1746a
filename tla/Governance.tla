----------------------------- MODULE Governance -----------------------------
(***************************************************************************)
(* Proposals about one fact: a subject and a predicate that takes ONE      *)
(* value.  govern() scores the candidates of a proposal against what is    *)
(* readable (pipeline), applies the decisions one transaction each         *)
(* (memory/applier.py), and the relay reveals the rows later.              *)
(*                                                                         *)
(* Reading and applying are apart: between them other proposals commit,    *)
(* the relay reveals rows and processes die.  One transaction is one step, *)
(* and what rolls back is not seen: appends to a tenant's chain hold its   *)
(* lock from the first statement to the commit (AuditChain), and the one   *)
(* conditional statement, supersede_in, is decided by Postgres at the row. *)
(***************************************************************************)
EXTENDS Naturals, Sequences, FiniteSets

CONSTANTS
    Traces,       \* accepted proposals, by trace id
    Values,       \* objects the predicate may take
    Workers,      \* processes or requests that run govern()
    MaxFacts,     \* candidates about this fact in one proposal, at most
    MaxCrashes,   \* bound on processes dying
    Redelivered,  \* does a proposal whose run died run again (arq), or not
    None          \* NULL

ASSUME ConstantsAssumption ==
    /\ MaxFacts \in Nat \ {0}
    /\ MaxCrashes \in Nat
    /\ Redelivered \in BOOLEAN
    /\ None \notin Traces \cup Values \cup (Traces \X (1..MaxFacts))

VARIABLES
    value,        \* object of each row, None where there is no row
    visible,      \* rows the relay has revealed
    successor,    \* superseded_by, None while valid_to is NULL
    trail,        \* audit events in commit order
    queue,        \* proposals not answered yet
    job,          \* the proposal a worker runs
    facts,        \* the candidates' objects, as extraction drew them
    verdict,      \* by position, what scoring made of the candidates so far
    done,         \* how many candidates apply_all is through with
    crashes

rowVars == <<value, visible, successor>>
runVars == <<job, facts, verdict, done>>
vars    == <<rowVars, trail, queue, runVars, crashes>>

\* _assertion_id: derived from the trace and the candidate's position, so a
\* second run of a proposal has the ids of the first.
Ids == Traces \X (1..MaxFacts)

FactLists == UNION {[1..n -> Values] : n \in 1..MaxFacts}

\* What a DecisionRecord tells the applier: write or not, and instead of what.
Verdicts == [write : BOOLEAN, over : Ids \cup {None}]
Hold == [write |-> FALSE, over |-> None]

AuditEvents == [kind : {"DECISION", "WRITE", "SUPERSEDE"},
                id : Ids, over : Ids \cup {None}]
Event(kind, id, over) == [kind |-> kind, id |-> id, over |-> over]

TypeOK ==
    /\ value \in [Ids -> Values \cup {None}]
    /\ visible \subseteq {a \in Ids : value[a] # None}
    /\ successor \in [Ids -> Ids \cup {None}]
    /\ trail \in Seq(AuditEvents)
    /\ queue \subseteq Traces
    /\ job \in [Workers -> Traces \cup {None}]
    /\ DOMAIN facts = Workers /\ DOMAIN verdict = Workers
    /\ \A w \in Workers : job[w] # None =>
          /\ job[w] \in queue
          /\ facts[w] \in FactLists
          /\ DOMAIN verdict[w] \subseteq DOMAIN facts[w]
          /\ \A i \in DOMAIN verdict[w] : verdict[w][i] \in Verdicts
          /\ \A i \in 1..done[w] : i \in DOMAIN facts[w]
    /\ done \in [Workers -> 0..MaxFacts]
    /\ crashes \in 0..MaxCrashes

Init ==
    /\ value = [a \in Ids |-> None]
    /\ visible = {}
    /\ successor = [a \in Ids |-> None]
    /\ trail = <<>>
    /\ queue = Traces
    /\ job = [w \in Workers |-> None]
    /\ facts = [w \in Workers |-> <<>>]
    /\ verdict = [w \in Workers |-> <<>>]
    /\ done = [w \in Workers |-> 0]
    /\ crashes = 0

Stored == {a \in Ids : value[a] # None}

\* valid_to IS NULL.
Live == {a \in Stored : successor[a] = None}

\* LIVE_CLAUSE and visible: what search shows as incumbents.
Current == Live \cap visible

\* The candidate apply_all has come to: its row id and its verdict.
Turn(w) == done[w] + 1
IdOf(w) == <<job[w], Turn(w)>>
VerdictOf(w) == verdict[w][Turn(w)]

Ready(w) ==
    /\ job[w] # None
    /\ DOMAIN verdict[w] = DOMAIN facts[w]
    /\ Turn(w) \in DOMAIN facts[w]

\* Faulty: ON CONFLICT (id) DO UPDATE.  (A definition marked so is a bug this
\* code could have had.  No specification uses it: it shows that a property
\* notices.)
InsertedOver(w) == [value EXCEPT ![IdOf(w)] = facts[w][Turn(w)]]

\* write_in: ON CONFLICT (id) DO NOTHING.
Inserted(w) ==
    IF value[IdOf(w)] # None THEN value
    ELSE [value EXCEPT ![IdOf(w)] = facts[w][Turn(w)]]

Answered(w) ==
    /\ done' = [done EXCEPT ![w] = Turn(w)]
    /\ UNCHANGED <<visible, queue, job, facts, verdict, crashes>>

\* The run is over and its locals are gone.
Leave(w) ==
    /\ job' = [job EXCEPT ![w] = None]
    /\ facts' = [facts EXCEPT ![w] = <<>>]
    /\ verdict' = [verdict EXCEPT ![w] = <<>>]
    /\ done' = [done EXCEPT ![w] = 0]

-----------------------------------------------------------------------------
(* Layers 2 and 3.                                                         *)

\* retrieve_incumbents, detect and decide for a value: the matrix may always
\* decline to write; a live incumbent that differs is superseded, the nearest
\* first; one that agrees makes the candidate a duplicate, merged into
\* nothing (or escalated, if the judge sees a contradiction).
Judge(v) ==
    LET differing == {a \in Current : value[a] # v}
    IN  {Hold} \cup {[write |-> TRUE, over |-> a] : a \in differing}
               \cup (IF Current = {}
                     THEN {[write |-> TRUE, over |-> None]} ELSE {})

\* run(): extraction is a model's draw, another one on every run.
Start(w, t) ==
    /\ job[w] = None
    /\ t \in queue
    /\ \A v \in Workers : job[v] # t
    /\ job' = [job EXCEPT ![w] = t]
    /\ \E f \in FactLists : facts' = [facts EXCEPT ![w] = f]
    /\ UNCHANGED <<rowVars, trail, queue, verdict, done, crashes>>

\* score_candidate: concurrent, so in any order and each with its own read.
Score(w, i) ==
    /\ job[w] # None
    /\ i \in DOMAIN facts[w] \ DOMAIN verdict[w]
    /\ \E d \in Judge(facts[w][i]) :
          verdict' = [verdict EXCEPT ![w] =
                        [j \in DOMAIN @ \cup {i} |-> IF j = i THEN d ELSE @[j]]]
    /\ UNCHANGED <<rowVars, trail, queue, job, facts, done, crashes>>

-----------------------------------------------------------------------------
(* apply, for the candidate apply_all has come to.                         *)

\* Not an AUTO_WRITE, or a merge: audited, and applied as nothing.
ApplyHold(w) ==
    /\ Ready(w)
    /\ ~ VerdictOf(w).write
    /\ trail' = Append(trail, Event("DECISION", IdOf(w), None))
    /\ UNCHANGED <<value, successor>>
    /\ Answered(w)

ApplyWrite(w) ==
    /\ Ready(w)
    /\ VerdictOf(w).write
    /\ VerdictOf(w).over = None
    /\ value' = Inserted(w)
    /\ trail' = trail \o <<Event("DECISION", IdOf(w), None),
                           Event("WRITE", IdOf(w), None)>>
    /\ UNCHANGED successor
    /\ Answered(w)

\* Faulty: zero rows updated is taken for success.
ApplySupersedeAnyway(w) ==
    LET old == VerdictOf(w).over IN
    /\ Ready(w)
    /\ VerdictOf(w).write
    /\ old # None
    /\ value' = Inserted(w)
    /\ successor' = [successor EXCEPT ![old] = IF @ = None THEN IdOf(w) ELSE @]
    /\ trail' = trail \o <<Event("DECISION", IdOf(w), old),
                           Event("WRITE", IdOf(w), None),
                           Event("SUPERSEDE", IdOf(w), old)>>
    /\ Answered(w)

\* Faulty: SUPERSEDE without `valid_to IS NULL`.
ApplySupersedeTwice(w) ==
    LET old == VerdictOf(w).over IN
    /\ Ready(w)
    /\ VerdictOf(w).write
    /\ old \notin {None, IdOf(w)}
    /\ value' = Inserted(w)
    /\ successor' = [successor EXCEPT ![old] = IdOf(w)]
    /\ trail' = trail \o <<Event("DECISION", IdOf(w), old),
                           Event("WRITE", IdOf(w), None),
                           Event("SUPERSEDE", IdOf(w), old)>>
    /\ Answered(w)

\* Faulty: the row is written in a transaction of its own, before the
\* supersession that then loses its race.
LoseRaceHalfDone(w) ==
    LET old == VerdictOf(w).over IN
    /\ Ready(w)
    /\ VerdictOf(w).write
    /\ old # None
    /\ old = IdOf(w) \/ successor[old] # None
    /\ value' = Inserted(w)
    /\ UNCHANGED <<trail, successor>>
    /\ Answered(w)

\* write_in and supersede_in: UPDATE ... WHERE valid_to IS NULL met a row.
ApplySupersede(w) ==
    LET old == VerdictOf(w).over IN
    /\ Ready(w)
    /\ VerdictOf(w).write
    /\ old \notin {None, IdOf(w)}
    /\ successor[old] = None
    /\ value' = Inserted(w)
    /\ successor' = [successor EXCEPT ![old] = IdOf(w)]
    /\ trail' = trail \o <<Event("DECISION", IdOf(w), old),
                           Event("WRITE", IdOf(w), None),
                           Event("SUPERSEDE", IdOf(w), old)>>
    /\ Answered(w)

\* ... or it met none: ConcurrencyConflict rolls everything back, as does the
\* CHECK that no assertion supersedes itself.
LoseRace(w) ==
    LET old == VerdictOf(w).over IN
    /\ Ready(w)
    /\ VerdictOf(w).write
    /\ old # None
    /\ old = IdOf(w) \/ successor[old] # None
    /\ UNCHANGED <<value, successor, trail>>
    /\ Answered(w)

\* StoreUnavailable and the like: a CandidateFailure.  A candidate whose
\* scoring raised fares the same.
ApplyFails(w) ==
    /\ Ready(w)
    /\ UNCHANGED <<value, successor, trail>>
    /\ Answered(w)

Apply(w) ==
    \/ ApplyHold(w)
    \/ ApplyWrite(w)
    \/ ApplySupersede(w)
    \/ LoseRace(w)
    \/ ApplyFails(w)

-----------------------------------------------------------------------------
(* Around it.                                                              *)

\* The answer is returned, or the job's result recorded.
Finish(w) ==
    /\ job[w] # None
    /\ Turn(w) \notin DOMAIN facts[w]
    /\ queue' = queue \ {job[w]}
    /\ Leave(w)
    /\ UNCHANGED <<rowVars, trail, crashes>>

\* Faulty: a proposal made again after a crash keeps its trace.
CrashSameTrace(w) ==
    /\ job[w] # None
    /\ crashes < MaxCrashes
    /\ crashes' = crashes + 1
    /\ Leave(w)
    /\ UNCHANGED <<rowVars, trail, queue>>

\* The process dies or the job is cancelled.  arq runs such a job again; a
\* request whose process died is gone.
Crash(w) ==
    /\ job[w] # None
    /\ crashes < MaxCrashes
    /\ crashes' = crashes + 1
    /\ queue' = IF Redelivered THEN queue ELSE queue \ {job[w]}
    /\ Leave(w)
    /\ UNCHANGED <<rowVars, trail>>

\* The relay has linked the row and reveals it, superseded or not.
Reveal(a) ==
    /\ a \in Stored \ visible
    /\ visible' = visible \cup {a}
    /\ UNCHANGED <<value, successor, trail, queue, runVars, crashes>>

Next ==
    \/ \E w \in Workers :
          \/ \E t \in Traces : Start(w, t)
          \/ \E i \in 1..MaxFacts : Score(w, i)
          \/ Apply(w)
          \/ Finish(w)
          \/ Crash(w)
    \/ \E a \in Ids : Reveal(a)

Spec == Init /\ [][Next]_vars

-----------------------------------------------------------------------------
Events(kind) == {i \in DOMAIN trail : trail[i].kind = kind}

\* Every row is explained by a WRITE event and every WRITE event has its row
\* (RULES.md non-negotiable 4, applier.apply).
RowsOnRecord == Stored = {trail[i].id : i \in Events("WRITE")}

\* Every retirement has exactly one SUPERSEDE event, which names the row that
\* superseded_by names, and no event reports one that did not happen.
RetirementsOnRecord ==
    \A a \in Ids :
        LET told == {i \in Events("SUPERSEDE") : trail[i].over = a}
        IN  IF successor[a] = None THEN told = {}
            ELSE Cardinality(told) = 1 /\ \A i \in told : trail[i].id = successor[a]

\* A decision to supersede that is on the record was carried out in whole:
\* the incumbent it names was retired for it.  A lost race left neither the
\* decision nor a successor beside a live incumbent (supersede_in).
SupersessionIsWhole ==
    /\ \A i \in Events("DECISION") :
          trail[i].over # None => successor[trail[i].over] = trail[i].id
    /\ \A a \in Stored : \E i \in Events("DECISION") : trail[i].id = a

\* A row's object and its superseded_by are written once.
RowsAreFinal ==
    [][\A a \in Ids : /\ value[a] # None => value'[a] = value[a]
                      /\ successor[a] # None => successor'[a] = successor[a]]_vars

\* I3: following superseded_by from any row ends at a live one.
SupersessionAcyclic ==
    \A S \in SUBSET {a \in Ids : successor[a] # None} :
        S # {} => \E a \in S : successor[a] \notin S

\* WRITE joins the decision "where the state actually changed" (ADR-0010): a
\* row is reported written once.
WritesAreMoves ==
    \A i, j \in Events("WRITE") : trail[i].id = trail[j].id => i = j

\* I2: a reader finds at most one value for a ONE predicate.
OneLiveValue == Cardinality(Current) <= 1
=============================================================================
