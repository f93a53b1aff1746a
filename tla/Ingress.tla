------------------------------ MODULE Ingress ------------------------------
(***************************************************************************)
(* The write path's front: POST /memory/propose of any number of gateway   *)
(* replicas, the idempotency records they share in Redis, arq's queue, and *)
(* the workers that evaluate what was accepted.                            *)
(*                                                                         *)
(* One step is one call the handler awaits.  A request mints at most one   *)
(* trace, a fresh one, so the request stands for it and for the proposal.  *)
(* Callers send again as they like: another request with the same header   *)
(* and body, whatever has become of the first.                             *)
(*                                                                         *)
(* A tenant id and a header are texts of any characters.  What matters of  *)
(* one is where it holds a ":", so it is the sequence of its pieces        *)
(* between them: "a" is <<"a">> and "a:b" is <<"a", "b">>.                 *)
(***************************************************************************)
EXTENDS Naturals, Sequences

CONSTANTS
    Requests,
    Pieces,       \* texts without a ":"
    Tenants,      \* ids in GM_GATEWAY_API_KEYS, which nothing checks
    Headers,      \* values of Idempotency-Key, chosen by the callers
    Bodies,       \* request bodies, by their sha256
    Strict,       \* those of them with mode=strict
    MaxTries,     \* runs arq gives one job
    None          \* no header, no record, no answer

ASSUME ConstantsAssumption ==
    /\ Tenants \cup Headers \subseteq Seq(Pieces) \ {<<>>}
    /\ Strict \subseteq Bodies
    /\ MaxTries \in Nat \ {0}
    /\ None \notin Requests \cup Headers

VARIABLES
    ask,          \* tenant, header and body of each request
    pc,           \* where the handler stands
    answer,       \* the proposal the response names
    record,       \* the idempotency records: the proposal they answer with
    lapsed,       \* keys one of whose records has outlived its TTL
    job,          \* what has become of each proposal
    tries         \* runs arq has started of it

requestVars == <<ask, pc, answer>>
vars == <<requestVars, record, lapsed, job, tries>>

Asks == [tenant : Tenants, header : Headers \cup {None}, body : Bodies]

\* Faulty: a header says which write it is, whoever sends it.
KeyWithoutTenant(a) == <<a.header, a.body>>

\* IdempotencyStore._key: tenant, header and body hash joined by ":", none of
\* them escaped.  A hash holds no ":", so its end of the key is certain.
Key(a) == <<a.tenant \o a.header, a.body>>

Identities == {Key(a) : a \in {x \in Asks : x.header # None}}

Keyed(r) == ask[r].header # None
IsStrict(r) == ask[r].body \in Strict

TypeOK ==
    /\ ask \in [Requests -> Asks \cup {None}]
    /\ pc \in [Requests -> {"unsent", "check", "work", "record", "answered", "failed"}]
    /\ \A r \in Requests : pc[r] = "unsent" \/ ask[r] \in Asks
    /\ answer \in [Requests -> Requests \cup {None}]
    /\ record \in [Identities -> Requests \cup {None}]
    /\ lapsed \subseteq Identities
    /\ job \in [Requests -> {"none", "queued", "running", "ended"}]
    /\ tries \in [Requests -> 0..MaxTries]

Init ==
    /\ ask = [r \in Requests |-> None]
    /\ pc = [r \in Requests |-> "unsent"]
    /\ answer = [r \in Requests |-> None]
    /\ record = [k \in Identities |-> None]
    /\ lapsed = {}
    /\ job = [r \in Requests |-> "none"]
    /\ tries = [r \in Requests |-> 0]

Respond(r, t) ==
    /\ answer' = [answer EXCEPT ![r] = t]
    /\ pc' = [pc EXCEPT ![r] = "answered"]

\* After the work: the record is put, or there is nothing to record.
Onwards(r) ==
    IF Keyed(r) THEN /\ pc' = [pc EXCEPT ![r] = "record"]
                     /\ UNCHANGED answer
    ELSE Respond(r, r)

\* What the handler's work does for a proposal: arq has its job, or govern has
\* run to its end inside the request.
Worked(r) == [job EXCEPT ![r] = IF IsStrict(r) THEN "ended" ELSE "queued"]

-----------------------------------------------------------------------------
(* Faulty variants, each a bug this code could have had.  No specification *)
(* uses them: they show that a property notices.                           *)

\* The response is recorded first, so that a repeat finds it at once.
MissRecordsFirst(r) ==
    /\ pc[r] = "check"
    /\ ~ (Keyed(r) /\ record[Key(ask[r])] # None)
    /\ record' = IF Keyed(r) THEN [record EXCEPT ![Key(ask[r])] = r] ELSE record
    /\ pc' = [pc EXCEPT ![r] = "work"]
    /\ job' = [job EXCEPT ![r] = IF IsStrict(r) THEN "running" ELSE "none"]
    /\ UNCHANGED <<ask, answer, lapsed, tries>>

\* Only decisions are worth recording: an acceptance answers at once.
WorkUnrecorded(r) ==
    /\ pc[r] = "work"
    /\ job' = Worked(r)
    /\ IF IsStrict(r) THEN Onwards(r) ELSE Respond(r, r)
    /\ UNCHANGED <<ask, record, lapsed, tries>>

\* The gateway and the worker name different queues.
TakeNothing(r) == FALSE /\ UNCHANGED vars

-----------------------------------------------------------------------------
(* The handler: propose.                                                   *)

\* A well-formed request of a caller with memory:write arrives.
Send(r, a) ==
    /\ pc[r] = "unsent"
    /\ ask' = [ask EXCEPT ![r] = a]
    /\ pc' = [pc EXCEPT ![r] = "check"]
    /\ UNCHANGED <<answer, record, lapsed, job, tries>>

\* idempotency.get finds a record: _replayed.
Replay(r) ==
    /\ pc[r] = "check"
    /\ Keyed(r)
    /\ record[Key(ask[r])] # None
    /\ Respond(r, record[Key(ask[r])])
    /\ UNCHANGED <<ask, record, lapsed, job, tries>>

\* ... or none, or was not asked: trace_for mints a trace.
Miss(r) ==
    /\ pc[r] = "check"
    /\ ~ (Keyed(r) /\ record[Key(ask[r])] # None)
    /\ pc' = [pc EXCEPT ![r] = "work"]
    /\ job' = [job EXCEPT ![r] = IF IsStrict(r) THEN "running" ELSE "none"]
    /\ UNCHANGED <<ask, answer, record, lapsed, tries>>

\* enqueue, or _strict.
Work(r) ==
    /\ pc[r] = "work"
    /\ job' = Worked(r)
    /\ Onwards(r)
    /\ UNCHANGED <<ask, record, lapsed, tries>>

\* idempotency.put: SET, whatever is there.
Record(r) ==
    /\ pc[r] = "record"
    /\ record' = [record EXCEPT ![Key(ask[r])] = r]
    /\ Respond(r, r)
    /\ UNCHANGED <<ask, lapsed, job, tries>>

\* The call raises, the caller goes away or the process dies.  What the call
\* was to do may have been done all the same; a govern cut short is over.
Fail(r) ==
    /\ pc[r] \in {"check", "work", "record"}
    /\ pc' = [pc EXCEPT ![r] = "failed"]
    /\ job' \in IF pc[r] # "work" THEN {job}
                ELSE {Worked(r), [job EXCEPT ![r] = IF IsStrict(r) THEN "ended" ELSE @]}
    /\ record' \in IF pc[r] # "record" THEN {record}
                   ELSE {record, [record EXCEPT ![Key(ask[r])] = r]}
    /\ UNCHANGED <<ask, answer, lapsed, tries>>

\* EX ttl_s.
Expire(k) ==
    /\ record[k] # None
    /\ record' = [record EXCEPT ![k] = None]
    /\ lapsed' = lapsed \cup {k}
    /\ UNCHANGED <<requestVars, job, tries>>

-----------------------------------------------------------------------------
(* The worker: evaluate, and arq around it.                                *)

Take(r) ==
    /\ job[r] = "queued"
    /\ job' = [job EXCEPT ![r] = "running"]
    /\ tries' = [tries EXCEPT ![r] = @ + 1]
    /\ UNCHANGED <<requestVars, record, lapsed>>

\* The summary, _refused's record of a failure no retry can mend, or the
\* exception arq keeps as the job's result.
End(r) ==
    /\ job[r] = "running"
    /\ ~ IsStrict(r)
    /\ job' = [job EXCEPT ![r] = "ended"]
    /\ UNCHANGED <<requestVars, record, lapsed, tries>>

\* The worker dies, the job is cancelled, or _refused re-raises a retryable
\* failure: arq starts it again, or gives it up.
GiveBack(r) ==
    /\ job[r] = "running"
    /\ ~ IsStrict(r)
    /\ job' = [job EXCEPT ![r] = IF tries[r] < MaxTries THEN "queued" ELSE "ended"]
    /\ UNCHANGED <<requestVars, record, lapsed, tries>>

Handler(r) == Replay(r) \/ Miss(r) \/ Work(r) \/ Record(r) \/ Fail(r)

Worker(r) == Take(r) \/ End(r) \/ GiveBack(r)

Next ==
    \/ \E r \in Requests :
          \/ \E a \in Asks : Send(r, a)
          \/ Handler(r)
          \/ Worker(r)
    \/ \E k \in Identities : Expire(k)

Spec == Init /\ [][Next]_vars

\* Workers are running: the queue is read and a job that was begun comes to an
\* end, by job_timeout if nothing else.  Nothing is assumed of the gateway.
FairSpec == Spec /\ \A r \in Requests : WF_vars(Worker(r))

-----------------------------------------------------------------------------
\* A tenant id that holds no ":".
Plain(tenant) == Len(tenant) = 1

\* A response names a proposal of the same body, and where the tenant is the
\* same of the same header.  Two tenants never get each other's answers as long
\* as neither's id holds the separator: "a" sending "b:1" and "a:b" sending "1"
\* have one key (limits.IdempotencyStore._key).
RepliesMatch ==
    \A r \in Requests :
        answer[r] # None =>
            LET mine == ask[r]
                told == ask[answer[r]]
            IN  /\ told.body = mine.body
                /\ \/ told.tenant = mine.tenant
                   \/ Plain(told.tenant) /\ Plain(mine.tenant)
                   => told = mine

Backed(t) == job[t] \in (IF IsStrict(t) THEN {"ended"}
                         ELSE {"queued", "running", "ended"})

\* Whatever was answered, or will be answered to a repeat, was done: the
\* proposal is queued or governed.  "Recording before would make a crash
\* mid-pipeline look like a completed write" (memory.propose).
AnswerIsBacked ==
    /\ \A r \in Requests : answer[r] # None => Backed(answer[r])
    /\ \A k \in Identities : record[k] # None => Backed(record[k])

\* Once a keyed request has been answered, a caller that repeats it gets an
\* answer and no second run, until the record lapses.
AnswersAreKept ==
    \A r \in Requests :
        /\ pc[r] = "answered" /\ Keyed(r)
        /\ Key(ask[r]) \notin lapsed
        => record[Key(ask[r])] # None

\* What a caller was told is accepted comes to an end, after a bounded number
\* of tries (ADR-0003; propose.QUEUE: "accepted and none would ever be
\* evaluated").
AcceptedIsDecided ==
    \A r \in Requests : (pc[r] = "answered") ~> (answer[r] # None /\ job[answer[r]] = "ended")
=============================================================================
