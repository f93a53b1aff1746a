# GuardMem in TLA+

GuardMem governs what an agent's memory believes. A *proposal* (text with a
source) is extracted into candidate facts, each candidate is validated against
what is already believed, scored, and then written, merged, sent to review or
rejected. What is written lives in Postgres (rows with a validity interval, an
outbox, an audit chain) and, by way of a relay, in a graph store; a row is
readable only once its graph half has landed.

This directory is a verification development of that program: TLA+ modules
translated from the source under `src/`, TLC instances that check them, and
proofs that TLAPS checks for every value of the constants. `PROJECT.json` is
its machine-readable index: components, runs, mutants, the map from each
definition to the lines it models, findings, hazards and theorems.

## 1. The system: inventory

Paths are under `src/packages/guardmem-core/src/guardmem_core/` unless they
begin with `services/`.

| Component | State it keeps | Operations | Talks to |
|---|---|---|---|
| Applier (`memory/applier.py`, `governance.py`) | none of its own | `govern`, `apply_all`, `apply` | pipeline, vector store, audit chain: one Postgres transaction per candidate |
| Vector store (`memory/vector/pgvector_store.py`, `rowmap.py`, `queries.py`) | tables `assertion`, `provenance` | `upsert`/`write_in`, `supersede`/`supersede_in`, `search`, `retired` | enqueues an outbox event in the transaction of every insert |
| Outbox and relay (`memory/outbox.py`, `memory/relay.py`) | table `outbox`: attempts, dispatched_at | `run_once` = `_claim`, `_load`, upsert of the edge, `_complete` | reads rows, writes the graph, reveals rows |
| Graph stores (`memory/graph/`) | edges keyed by assertion id | `upsert_assertion`, `neighbors`, `degree` | written by the relay only |
| Audit chain (`observability/audit.py`, `audit_store.py`) | table `audit_event`, an advisory lock per tenant | `append`, `append_decision`, `read_chain`, `verify_tenant_chain` | called inside transactions of others |
| Pool (`memory/vector/pool.py`) | connections, `app.tenant_id` of a transaction | `transaction`, `tenant_transaction` | everything that touches Postgres |
| Pipeline (`pipeline/orchestrator.py`, `per_candidate.py`) | a semaphore, and what one run holds | `run`: filter, extract, gate, then score the candidates concurrently | vector store and graph (incumbents, degree), LLMs, judges |
| Extraction (`pipeline/l1_extract/`) | the turns seen so far | noise rules, classifier, drawing, parsing, linking of quotes | the LLM |
| Schema gate, conflict and dedupe (`pipeline/l2_validate/`) | none | `gate`, `detect`, `classify`, `most_severe` | the judge |
| Scores and decision (`pipeline/l3_score/`) | none | entropy, confidence, risk, matrix, overrides | the entailment client |
| LLM adapters (`llm/providers/`) | the requests of one completion | draw k samples, cancel the siblings of a failed one | external services |
| Entity resolver (`memory/entities.py`) | table `entity` | resolve or create the subject a namespace names | Postgres |
| Worker (`services/worker/`) | arq's queue and results; its lifespan | `evaluate` | `govern` |
| Gateway (`services/gateway/`) | idempotency records, token buckets (Redis), request deadlines; its lifespan | `propose`, `search`, `readyz`, throttling | `govern` directly, or the worker's queue; the pool |
| MCP server (`services/mcp_server/`) | none beyond a call; its lifespan | `memory.search`, `memory.get_entity`, `memory.propose` | both stores, `govern` |
| Store router, prompts, settings, offline evaluation | none that changes | - | - |

### What is hard about it

- **Two stores, no common transaction.** Postgres and the graph are written at
  different times by different actors. The relay makes one at-least-once
  protocol of it: claim, load, upsert, complete, each a commit or a call of its
  own; the process may die, and the answer may be lost, between any two.
- **The claim does not hold its lock.** `FOR UPDATE SKIP LOCKED` is committed
  before the dispatch begins, so a slow pass and a later one can hold the same
  event.
- **Check then act.** A candidate is scored against incumbents read seconds
  (LLM calls) before the transaction that acts on the verdict. What protects
  the write is one conditional `UPDATE ... WHERE valid_to IS NULL`, and nothing
  protects an insert that found no incumbent.
- **Late visibility.** A written row is not an incumbent until the relay has
  revealed it; the row it replaced stops being one at once.
- **Redelivery.** arq runs a job again when its process died or was cancelled.
  Row ids are derived from the trace and the candidate's position, extraction
  is drawn anew: the second run has the ids of the first and the contents of
  another draw.
- **A hash chain fed by concurrent transactions** whose sequence numbers are
  drawn before they commit, behind a lock that two tenants may share by hash
  collision.
- **Attempt caps**, batches read oldest first, and events that can never be
  dispatched at the head of the queue.
- **Partial failure in a fan-out.** Samples are drawn side by side and
  candidates scored side by side; one of either may fail while its siblings are
  under way and hold a permit, a connection or a billed request.
- **Several clocks.** Replicas pass their own clocks to one token bucket; an
  interval is opened by a client's date and closed by the applier's clock; a
  request's budget is measured once and spent in several waits.
- **Reads in several statements.** One answer of the MCP server is made of
  several transactions and a walk of the graph, with supersessions and reveals
  between them.

### What makes each component correct

- *Relay*: nothing readable before the graph has it; every stored fact becomes
  readable or ends where an operator finds it; no pass undoes a supersession or
  a reveal; and an event that cannot be dispatched keeps no healthy one from it,
  which the documents ask for and the code does not do (§3, disagreement 3).
- *Audit chain*: every tenant's chain verifies at every moment; what was
  verified once stays the beginning of the chain; transactions that hold chain
  locks do not wait for one another in a circle.
- *Applier*: rows and audit events explain each other; a supersession is
  carried out in whole or leaves nothing; nothing written is written over;
  supersession is acyclic (I3), a ONE predicate has one value (I2).
- *Gateway and worker*: an answer belongs to its request, was earned before it
  was given, and is kept for repeats; what was accepted is decided; a bucket
  never gives out more than its rate; of the waits that have a timeout a request
  is over in a bounded time, whatever does not answer; what a process opened
  it closes, wherever its opening failed.
- *Pipeline*: no stage loses a turn or a fact uncounted; nothing is cited from
  a turn that was dropped; no request is left running; every admitted candidate
  has its outcome.
- *Validation and scoring*: a fact at odds with any incumbent, in whatever
  order they were found, is not written unseen; nor is one of more than low
  impact.
- *Reads*: a search misses nothing that was current when it began; where an
  answer calls itself `graph_backed`, an entity's neighbours cover what its
  search found; what an answer says of a past moment stands.

`PROJECT.json` "hazards" lists each place where one of these can go wrong, with
the properties that watch it, or why none does yet.

## 2. The modules

```
DualWrite  <--refines--  OutboxRelay  <-- OutboxRelayProofs
                              ^---------- MCOutboxRelay
HashChain  <--extends--  AuditChain   <-- AuditChainProofs
AppendOnlyLog <--refines--    ^---------- MCAuditChain
                         Governance   <-- GovernanceProofs
                              ^---------- MCGovernance
                         Ingress      <-- IngressProofs
                              ^---------- MCIngress
Intake, Validation,
Scoring, Sampling <--    Pipeline     <-- PipelineProofs
                              ^---------- MCPipeline
Startup <--extends--     Gateway      <-- GatewayProofs
                              ^---------- MCGateway
DualWrite  <--refines--  Recall       <-- RecallProofs
                              ^---------- MCRecall
Enumeration  <--extends--  AuditChain, Recall
     ^------- EnumerationProofs  <--extends--  AuditChainProofs, RecallProofs
```

How they meet: `Ingress` brings a proposal to a worker; `Pipeline` is what its
run does up to the verdicts; `Governance` applies verdicts, each transaction of
it being one step because `AuditChain` serialises the appends of a tenant; what
it writes goes through `OutboxRelay`, which implements `DualWrite`; the rows
`Recall` reads move as `DualWrite` says they do, which it is shown to implement
as well; `Gateway` is the read path of
the other front end, and `Startup` the life of all three processes.

`Enumeration` is what ORDER BY and a comprehension with a condition make:
`InOrder` lists a finite set by counting each element's place, `Pick` takes the
entries of a sequence at some positions. The library has operators for both,
but they take operators as parameters, and of what these return nothing can be
proved here.

In each module a definition marked *Faulty* is a bug the code could have had.
No specification uses one: put in the place of the definition it distorts, it
makes the property named in `PROJECT.json` "mutants" fail, which shows that the
property looks at the code and not at the model.

### OutboxRelay (and DualWrite)

An assertion stands for its row, its outbox event (whose id is derived from
it) and its edge (keyed by it).

| Variable | In the code |
|---|---|
| `stored`, `visible`, `retired` | table `assertion`: the row, `visible`, `valid_to` |
| `queued`, `created`, `attempts`, `dispatched` | table `outbox` |
| `edge` | the graph: no edge, a live one, one that carries `valid_to` |
| `pc`, `batch`, `cur`, `image` | where a pass stands, what it claimed, what it loaded |

| Action | In the code |
|---|---|
| `Upsert` | `PgVectorStore.upsert` and `write_in`: rows and events in one transaction, `ON CONFLICT DO NOTHING` on both |
| `Supersede` | `PgVectorStore.supersede`: Postgres only |
| `Claim` | `_claim`: oldest first, attempts counted in the same statement; rows another pass has locked may be skipped |
| `Load`, `LoadNothing` | `_load` under the event's tenant; a foreign tenant's event finds no row |
| `UpsertEdge`, `UpsertUnavailable`, `UpsertRejected` | `upsert_assertion`: done; `StoreUnavailable`, with or without the edge written; `ValidationRejected` |
| `Complete` | `_complete`: reveal and mark dispatched in one transaction |
| `Die`, `LoseGraph` | a pass or its Postgres connection dies; the process that holds a `NetworkXGraphStore` restarts |

`DualWrite` is what a reader is promised: each fact goes from absent to pending
to readable and never back, only a linked one becomes readable, and one
transaction may accept some facts and retire others. `ImplementsDualWrite` shows
OutboxRelay to implement it.

### AuditChain (HashChain, AppendOnlyLog)

`HashChain` has the arithmetic of `audit.py` over sets of rows. `sha256` is
taken to be free of collisions and `canonical_json` to be injective, so a
digest is the pair of what it digests; as in the code it covers the payload and
the previous digest, not the sequence number. `AuditChain` gives every
statement of `append` a step: `AskLock`, `Grant` or `LockTimeout`, `ReadHead`,
`Insert`; `Begin`, `Commit` and `Rollback` are the transactions of others that
appends are part of, and a rollback may come between any two statements. One
transaction may append several links. `serial` is the BIGSERIAL, which no
rollback winds back. `AppendOnlyLog` is the promise: per tenant a sequence that
grows at its end only; `InSeqOrder`, the rows of a tenant by their numbers, is
the log a reader of `read_chain` sees.

### Governance

One ONE-valued fact (subject and predicate) of one tenant, and every proposal
about it. `value`, `visible`, `successor` are the rows; `trail` is the audit
chain in commit order; `queue` holds the proposals not answered yet; `job`,
`facts`, `verdict`, `done` are the locals of the `govern()` a worker runs.

| Action | In the code |
|---|---|
| `Start` | `run`: extraction, a draw of up to `MaxFacts` objects, another one on every run |
| `Score` | `score_candidate`: concurrent, so in any order, each with its own read of the incumbents; `Judge` is what `detect` and the matrix may answer |
| `ApplyHold`, `ApplyWrite`, `ApplySupersede`, `LoseRace`, `ApplyFails` | `apply`, in `apply_all`'s order, one transaction each; a lost race and any store failure roll back and the batch goes on |
| `Finish`, `Crash` | the answer; the process dies, and the job is run again (arq, `Redelivered = TRUE`) or is gone (a request, `FALSE`) |
| `Reveal` | the relay's `REVEAL_ASSERTION`, what OutboxRelay does in detail |

One transaction is one step here. AuditChain is why that is sound: every
transaction of a tenant that appends holds the tenant's chain lock from its
first append to its commit, and the one statement that races, `supersede_in`,
is decided by Postgres at the row.

### Ingress

The front of the write path: `propose` of any number of gateway replicas, the
idempotency records in Redis, arq's queue and `evaluate`. A request mints at
most one trace, and a fresh one, so a request stands for its proposal too.
Callers repeat requests as they like; a repeat is another request with the same
header and body.

| Variable | In the code |
|---|---|
| `ask`, `pc`, `answer` | a request (tenant, Idempotency-Key, body hash), where its handler stands, the proposal its response names |
| `record`, `lapsed` | the Redis entries of `IdempotencyStore`; keys one of whose entries outlived its TTL |
| `job`, `tries` | arq's job of the proposal, or the `govern` a strict request runs itself |

| Action | In the code |
|---|---|
| `Send` | a validated request of a caller with `memory:write` |
| `Replay`, `Miss` | `IdempotencyStore.get`: `_replayed`, or a trace is minted |
| `Work` | `enqueue`, or `_strict` |
| `Record`, `Expire` | `IdempotencyStore.put` and its `EX` |
| `Fail` | the awaited call raises or the process dies; what the call was to do may have been done |
| `Take`, `End`, `GiveBack` | arq begins a job; it returns or is refused for good; its worker dies, or the failure is retryable, and it runs again up to the cap |

`_key` joins tenant, header and body hash by ":" and escapes none of them. A
tenant id is any text of `GM_GATEWAY_API_KEYS` (`auth.py:212` turns it into a
string and checks nothing), and a header is the client's. So a text is, in the
model, the sequence of its pieces between the separators, and `Key` is what the
code makes: `"a"` sending `"b:1"` and `"a:b"` sending `"1"` have one key. The
body's hash is hexadecimal, so its end of the key is certain.

What happens inside one run is Governance, whose `Redelivered` is `GiveBack`
here: a queued proposal is run again under its trace, so with the row ids of
its first run, and a repeated request is not, since it gets a trace of its own.
`evaluate` says that arq retries what it re-raises; whether the library does so
for an exception that is none of its own, or keeps it as the result, `GiveBack`
and `End` allow both.

### Pipeline (Intake, Validation, Scoring, Sampling)

`orchestrator.run` for one proposal. `Intake`, `Validation` and `Scoring` are
the three layers as operators, and `Sampling` is a completion of several
samples as a state machine of its own, composed into `Pipeline`.

| Variable | In the code |
|---|---|
| `proposal` | the turns, the tier of the source, the namespace, k, and the adapter that serves it |
| `pc` | where `run` stands; `raised` is an exception that reaches its caller |
| `kept`, `dropped` | the result of the noise filter: the positions of the turns kept, and of those dropped by whom. The code's lists have these turns in the order of their positions |
| `requests`, `canonical`, `samples` | the requests of the completion under way, the first sample, all of them |
| `gated` | admitted, quarantined, rejected, each a function from a fact's place in the draw, in whose order the code's lists have them; and how many facts had no quote in the content |
| `task` | of each admitted candidate: its stage, hits, judgements, report and decision |
| `permits`, `bound` | the semaphore; whether the subject's entity row is there |

| Action | In the code |
|---|---|
| `FilterNoise`, `ClassifyNoise`, `CallRaises` | `filter_noise`: the rules in their order, then one call on the ambiguous turns |
| `AskCanonical`, `AskOthers`, `DrawGoesOn`, `DrawsFail` | `_draw`: one sample alone, then the others side by side; the adapters' requests answer, fail, are cancelled and end |
| `Extract` | `_parse`, the linking of quotes, the schema gate |
| `Enter`, `Resolve`, `Retrieve`, `Detect`, `Score`, `CandidateFails` | `score_candidate` under the semaphore, each call free to raise |
| `Return` | the result of `gather` |

Confidence is computed exactly, in units of 10^-8, so that a value that falls
on a threshold does so in the model; risk is compared by its log-odds, since the
sigmoid is increasing. Entropy is exact for up to three draws. Scores of the
judge and of entailment, cosines and degrees are any of a small set that has
values on both sides of every constant they are compared with.

### Gateway (Startup)

The read path of one gateway process and the life of any process. Time is a
number of ticks; `now` does not pass a wait's timeout.

| Variable | In the code |
|---|---|
| `self`, `phase`, `done`, `live`, `stack` | a process, how far its lifespan has come, what it opened, its `AsyncExitStack` |
| `bucket`, `redis` | the hash `_BUCKET_SCRIPT` keeps for each key; whether Redis can be reached |
| `free` | connections of the pool nobody holds |
| `req` | the wait each request stands in, its deadline, the ceiling of its calls |

| Action | In the code |
|---|---|
| `Open`, `NoModel`, `Fail`, `Serve`, `StopServing`, `Close`, `Down` | the two lifespans and the worker's hooks, step by step |
| `Arrive`, `Refuse`, `RunScript`, `Limit`, `FailOpen` | deadline, authentication and rate limit in the chain's order; the caller's clock is read before the script runs, and may be off |
| `Resolve`, `Connect`, `GiveUp`, `Proceed`, `TimeOut`, `Succeed` | the handler: dependencies, the wait for a connection, BEGIN, the tenant's `set_config`, the rows, the citations |
| `Finish`, `LoseConnection` | COMMIT or ROLLBACK has returned and the connection is back; the server is gone |
| `Probe`, `ProbeConnect`, `ProbeAnswer` | `readyz`, behind the same pool |

The waits are of two kinds. `Waits` have a timeout: Redis, the wait for a
connection, and the three statements of the store, which are passed one each.
`Untimed` have none: `connection.transaction()` (`memory/vector/pool.py:209`)
sends BEGIN, and COMMIT or ROLLBACK when its block is left, and `create_pool`
(`pool.py:158-168`) sets no `command_timeout` that would bound them. A request
holds its connection all through them. `stalled` counts the ticks it has spent
there; it is the model's own, for `OverrunIsBounded` to speak of, and the code
knows nothing of it. What asyncpg does to a connection on its way back to the
pool is part of the wait after COMMIT or ROLLBACK.

### Recall

`memory.search` and `memory.get_entity` of the MCP server as the several reads
they are, while two appliers write and the relay reveals. A row's number is its
distance from the query. `job` is what an applier holds: the clock it read
before its transaction, the incumbent it means to retire. `ask` is the call in
hand: which queries are left, what the others brought, and, for the properties
only, what was current when it began. `NewestFirst` is the order of
`retired()`. The relay is here what `DualWrite` promises of it:
`KeepsThePromise` is the mapping, under which `Commit` accepts the successor
and retires the incumbent in one transaction.

`edge` is what some graph was last told of a row. Which graph a server reads is
its configuration (`memory/graph/selection.py:56-114`). On neo4j there is one
for all processes, it outlives them, and `neighbors` is its live edges; the
response then says `graph_backed`. On networkx, the default, every process has a
graph of its own and begins with an empty one (`tools/get_entity.py:14-24`), so
`Walks` lets it return any part of what any graph was told, nothing included:
more than any one process could hold, and never a row no relay has linked.
`NeighboursCoverHits` claims something of the first kind of answer only, and
`graph_backed` is how a caller tells them apart.

## 3. What the runs check

All runs take seconds to about two minutes.

| Run | Asks | Result |
|---|---|---|
| `relay_safety` | all safety properties and the refinement; two passes, three facts (one corrupt event, one edge the graph refuses), outages, lost answers, deaths | holds |
| `relay_faults` | `NoSilentLoss` and `RevealFollowsLink` under outages, deaths and one loss of an in-process graph; batches of two, three facts, one with a corrupt event and one the graph refuses | holds |
| `relay_refused` | `HealthyIsRevealed`: nothing is down, and a refused event shares its batches with a healthy one | **violated** |
| `chain_shared` | I5, fresh heads, the append-only log, and that lock holders do not wait for one another in a circle | holds |
| `governance_redelivered` | rows and audit explain each other, whole supersessions, final rows; three proposals, two workers, two crashes, redelivery | holds |
| `governance_once` | I3, whole supersessions and `WritesAreMoves` where a dead run is not run again; two candidates per proposal, judged side by side and applied in turn | holds |
| `governance_onevalue` | I2 | **violated** |
| `governance_cycle` | I3 where a dead run is run again | **violated** |
| `ingress_keyed` | answers match their requests, were earned, are kept; what was accepted is decided; two racing requests of three tenants, one with a ":" in its id, failures after every call | holds |
| `pipeline_one` | nothing lost uncounted or cited from a dropped turn; no disputed or high-impact fact written unseen; no orphaned request; the run ends; every call free to fail | holds |
| `gateway_search` | no minted token, overrun bounded but for BEGIN, COMMIT and ROLLBACK, nothing leaked, a whole pool, every search answered provided that these return; two requests, disagreeing clocks, a pool of one | holds |
| `recall_reads` | nothing falls between two reads, neighbours cover hits in a `graph_backed` answer, the past stands, and what moves is a dual write; two appliers and the relay beside one call after another | holds |

### The disagreements

Three have a run that finds them:

1. `governance_onevalue`: two proposals (or two candidates of one) scored
   before either is applied both insert. `docs/RULES.md:184` (I2) has no
   constraint in the schema behind it.
2. `governance_cycle`: a redelivered proposal whose first run wrote row *a*,
   since superseded by *b*, finds *b* as its incumbent and supersedes *b* by
   *a*. Both rows then name each other and no live row is left, against
   `docs/RULES.md:185` (I3).
3. `relay_refused`: `run_once` works through its batch (`memory/relay.py:166-171`)
   and `_dispatch` catches `StoreUnavailable` only (`:230`). A refusal of the
   graph (`ValidationRejected` of `NetworkXGraphStore`, a `ClientError` of neo4j)
   ends the pass, and the events behind the refused one have spent an attempt.
   As often as they are claimed together it happens again, so a healthy event
   reaches the cap and its row stays hidden, with nothing down. The test
   `tests/integration/test_outbox_relay.py:212-214` says "a batch of fifty in
   which the third fails must still dispatch the other forty-nine" (its own
   outage raises `StoreUnavailable`), and `memory/outbox.py:166-172` has the cap
   as what keeps poison from starving healthy events. What does hold, in batches
   with a refused event too, is `NoSilentLoss`: an event that is not revealed
   ends at the cap, where the operator's query finds it.

The others were met while modelling. The models do what the code does, and no
run is spent on them:

- *A retirement never reaches the graph.* `supersede_in` touches Postgres only
  and the relay knows only `assertion.written`, so an edge written before the
  supersession stays live. `docs/MEMORY_ENGINE.md:253-254` and
  `memory/graph/base.py:69-70` expect otherwise.
- *The outbox does not rebuild a lost graph.* `memory/graph/networkx_store.py:71-74`
  says that it does; the claim takes undispatched events only.
- *One key may run the pipeline twice.* The record is looked up before the work
  and put after it, and nothing in between tells a second request of the first,
  against `services/gateway/src/gateway/limits.py:213-215`. `AnswersAreKept` is
  what does hold: once an answer has been given, a repeat is a replay.
  `memory.propose` of the MCP server takes an `idempotency_key` and, as its own
  docstring says, does nothing with it.
- *A redelivered proposal reports a row written twice.* `apply` appends a WRITE
  event whether or not `write_in` inserted (`memory/applier.py:164` against
  ADR-0010:99-100 and 105). `WritesAreMoves` holds where nothing is redelivered.
- *The keys of two tenants can meet.* `limits.py:232-234` and `:291-294` say that
  one tenant's idempotency key cannot collide with another's; `:296` joins
  unescaped parts, so it can where a tenant id holds a ":", and the one is then
  told the other's proposal. `RepliesMatch` says what does hold: a reply has the
  body of its request, and its tenant and header where the tenants are the same
  or neither id holds a ":". The instance has such an id, and the property's
  condition is what keeps the run from failing.
- *Not every wait on Postgres has a ceiling.* `docs/adr/0012-the-pool-bounds-the-wait-for-a-connection.md:97-103` and
  `services/gateway/src/gateway/deadline.py:12-14` say that no single wait exceeds
  it, and `docs/RULES.md:59` that every outbound call has an explicit timeout;
  BEGIN, COMMIT and ROLLBACK have none (`memory/vector/pool.py:158-168`, `:209`).
  A Postgres that takes the connection and does not come back from these keeps a
  search, and its connection, without end.
- *The published statuses are not those a caller sees.* `errors.py:7-8` and
  `docs/RULES.md:88,90` give a deadline 504 and a lost store 503; `build_app`
  (`services/gateway/src/gateway/main.py:85-100`) installs no handler that would
  map them, so both are a 500 (`Status`).
- *Intervals do not abut.* The incumbent ends at the applier's `now()`
  (`memory/applier.py:149,178`), its successor begins at the candidate's date,
  though `schemas/entity.py:96,141` and `memory/vector/queries.py:118-120` read
  them as abutting; and the CHECK that validity is not inverted refuses to
  supersede a row dated in the future. `PastStands` is what the choice of clock
  is good for, and its mutant, which closes at the candidate's date, breaks it.
- *A statement that times out is reported as an exhausted pool*
  (`memory/vector/pool.py:211`: the `except` covers the body as well).
- *`retired()` is filtered on `visible`.* The docstring at
  `memory/vector/pgvector_store.py:299-303` says that it is deliberately not;
  `queries.py:74` puts the clause into every predicate. `Dead` follows the query:
  a row superseded before its relay pass is not among the excluded until then.
- *The decision table reads a boundary in two ways.* Its header at
  `docs/MEMORY_ENGINE.md:354` has a risk of exactly 0.35 in the lower band; the
  prose at `:367` puts a value on a threshold into the higher one, and so does
  `pipeline/l3_score/decision.py:12-21`. `RiskBand` follows the code.
- *`readyz` touches both stores*, with no timeout and behind the pool it reports
  on (`routers/health.py:143`), though `_paths.py:22-23` says that such paths
  touch none.

Smaller observations, on which no document takes a position: `min_confidence`
is applied after the k nearest have been taken, so a search may return fewer
than it could; a row may be among an answer's assertions and its excluded ones;
the deadline is captured once per request, so a wait in between is spent twice
(`OverrunIsBounded` says how much that can come to); two keys that agree in
their first eight characters share a bucket; a classifier's verdict is applied
by turn id, to every turn of that id; of several objects one draw gives for one
predicate only the first counts; `min_source_tier` of a predicate is read and
enforced nowhere; the subject's entity row is there before, and whatever, the
decision.

### Bounds, and why they are enough

- *Relay*: two passes are all it takes for two holders of one event, and the
  attempt cap of 2 lets an event be claimed again after each way a pass can
  fail. Batches of two hold a refused and a healthy event together, in either
  order. Two stamps (one, so ties only, in the run under faults) are enough for
  a batch to prefer one event and for ties; ties matter since rows of one
  transaction share `now()`. `MaxRestarts` bounds losses of the graph only.
- *Chain*: two transactions race for one lock; three tenants give a shared
  lock and a lock apart; three values of the sequence allow a transaction of
  two links beside one of another tenant, and a rollback that leaves a hole.
  `MaxSerial` bounds the sequence and nothing else, and the proofs have no
  bound.
- *Governance*: where a dead run is not run again, two candidates per proposal
  have siblings that want one incumbent. A cycle needs a row, its successor and
  a second run of the first proposal; three proposals and two crashes give one
  more of each than that. Two values are enough to agree and to differ.
- *Ingress*: each property is about one request, or about one request and the
  other whose proposal it is told, so two requests have every case of it: they
  race, or one comes after the other. Three tenants, "a", "b" and "a:b", and
  headers with and without a ":" make keys that agree, that differ in each part,
  and that meet across tenants; a body of each mode is enough to differ. Two
  tries are enough for a job to be given back and to reach the cap.

- *Pipeline*: conversations of up to three turns meet every rule, a
  restatement, two turns of one id and a turn that only resembles a dropped one;
  one or three draws, since only the first and the others differ; up to three
  admitted candidates for one permit, so that two wait; up to two incumbents, so
  that the disputed one is the nearer and the farther; judgements below, on and
  between the floors of `classify`. The bounds bear on the run alone: the
  proofs of its invariants have none.
- *Gateway*: a pool of one and two requests make one wait for the other; a
  budget as short as one timeout is spent while a request waits; a bucket of one
  token with clocks that are off by one tick either way has every order of
  readings. `MaxStall` is how many ticks one request may spend in BEGIN, COMMIT
  and ROLLBACK together: as many as a timeout, so that such a wait can outlast
  any other; the proof of the overrun has no bound on it. `MaxTime` stops the
  clock; a request arrives only where there is
  time left for the longest way it can take, so that the stop hides none.
- *Recall*: two rows of one predicate and one of another; two appliers race for
  an incumbent; limits and rooms on both sides of what there is to return; three
  moments give a past, a present and a date in the future.

`CHECK_DEADLOCK FALSE` stands in the configurations of Governance, Ingress,
Pipeline and Gateway. There the system really stops: when every proposal is
answered and every row revealed, when every request has been handled and every
job ended, when the run is over, when the process is down.

### Fairness

- `WF(Step(r))`: a coroutine that was started runs on. The event loop does
  that, and the statements of a pass have timeouts; that Postgres comes back
  from the BEGIN and COMMIT around them is assumed. A pass that never resumes
  has died, which is `Die`.
- `WF(Claim(r))`: passes keep being started. The code offers `run_once` and
  schedules it nowhere: this is an assumption about the deployment, and without
  it nothing is ever revealed.
- `WF(Worker(r))`: some worker reads the queue, and a job that was begun comes
  to an end, by `job_timeout` (`worker/main.py`) if by nothing else. Nothing is
  assumed of the gateway: a handler may stop anywhere.
- `WF(Next)` of Pipeline: the run goes on while anything can. The event loop
  runs what is ready and every call of it has a timeout, but for the BEGIN and
  COMMIT of its transactions, which are assumed to return; which of the things
  that can happen does is left open. No step is ever undone, so the run ends
  whatever happens, provided that nothing waits for what is not coming, such as
  a permit that was kept.
- Gateway: `WF(Tick)`, and for each request that its own code runs and its
  timers fire (`FailOpen`, `Resolve`, `TimeOut`, `GiveUp`). That Redis, the pool
  or a statement of the store ever answers is not assumed; neither is it that a
  connection which is free is given to one that waits. One thing is assumed of
  Postgres, because no timer of the code stands in for it: that it comes back
  from BEGIN (`Proceed` there) and from COMMIT or ROLLBACK (`Finish`).
  `SearchIsAnswered` is what the code achieves given that, and no more.

AuditChain's run assumes no fairness. That an append whose lock is not released
gives up is the statement's timeout, and nothing would be shown by assuming the
timer and checking that it goes off.

No safety property assumes any fairness.

## 4. What is proved

The proofs hold for every value of the constants, assuming no more than each
module's `ConstantsAssumption` (the caps are natural numbers, NULL is no id,
`Relays` is finite for the counting argument), except where a theorem states an
assumption of its own.

- **OutboxRelayProofs.** The invariant is `IInv == TypeOK /\ PassesOK`.
  `PassesOK` says what the code's locals promise: the event a pass is on is in
  its batch, a claimed event is a stored one, a pass that has come to
  `complete` has written its edge, and it is neither poison nor rejected. The
  safety properties are not inductive without it: `NoUnlinkedRead` depends on a
  fact about a local variable between two awaits. Over a durable graph
  (`MaxRestarts = 0`) `LinkedReads` and the refinement `Implements` follow;
  without that assumption `RevealsFollow` is the part that remains true.
- **AuditChainProofs.** `TypeOK`, the lock discipline (a connection past
  `Grant` holds its tenant's key, and whoever has uncommitted rows does too),
  the shape of committed and own rows, `ChainVerifies` and `HeadIsFresh` are
  inductive together. What makes it work is that a row not yet committed has a
  larger number than every committed row of its tenant, because its owner has
  the lock since before it drew the number. `CommitsAppend` follows from
  the same invariant; no run spends itself on it, since the refinement says more.
  `RecordsOnly` is that refinement, for any number of tenants and transactions.
  `SeqInv` adds that the numbers a tenant's rows bear are different; a commit
  then puts a finite set of numbers behind another one, and `AscendingBehind`
  (EnumerationProofs) says that the list of their union begins with the list of
  the first. So the mapped log is extended, and by nothing else than the
  transaction's events. `NobodyInACircle` needs `OwnLock` as well: a transaction
  holds no lock but that of its own tenant's key, whichever tenants share it, so
  whoever holds the one another waits for has no other to wait for.
- **GovernanceProofs.** `Base` (types, no two workers with one job, and that
  verdicts and `superseded_by` name rows that exist) suffices for
  `RowsStand`, `RowsAccounted` and `SupersessionsWhole`, redelivery or not. Where a dead run
  is not run again (`~Redelivered`, stated in the theorem), `Fresh` is added:
  the row of a candidate not yet applied does not exist. A row that supersedes
  another is then new in the same step, so it is in no chain yet and is live:
  that gives acyclicity. `RetirementsAccounted` needs
  no more than `Base` either: `Retired`, that the positions of the trail that tell
  of a row's retirement are one where it has a successor and none where it has
  not, is kept by what a transaction appends (`Retold`), because `supersede_in`
  lets one through.
- **IngressProofs.** `Handled` ties what has become of a proposal to where its
  handler stands (nothing before the work, everything before the record, an
  answer only at the end) and `Filed` says that a record lies under the key of
  the request that put it. With them `RepliesMatch`, `AnswerIsBacked` and
  `AnswersAreKept` are inductive together. The proof of the first says how much
  a key tells (`KeyTells`): two that are equal have equal bodies; where the
  tenants are the same, what follows them is the same header (`SameEnd`); where
  neither tenant's id holds a separator, each is the key's first piece
  (`SameBegin`). Of other pairs it says nothing, since they can meet.

- **GatewayProofs.** The bucket: `Funded`, what a bucket has granted and still
  holds is covered by its capacity and by the time between its first and last
  reading, is kept by a refill at any clock and by a check. Time: `Timely` gives
  each wait its latest moment, counted from the deadline; a wait on Postgres
  adds its ceiling, and no ceiling exceeds what was left when it was computed.
  The bound of the overrun follows: three timeouts and what the untimed waits
  took; and, where the budget allows for five timeouts, that time alone.
  The pool: `Pooled`, that the requests that hold a connection are finitely many and make up with the free ones what the pool was
  made with, for any number of requests and connections (`PoolStaysWhole`).
  Resources: `OnStack`, whatever is live is on the stack, and `EachOnce`, once
  and only once, hold in every environment and for every opening; with them
  `TypeCorrect`.
- **PipelineProofs.** `NoOrphan` is inductive with nothing added.
  `NothingIsLost` follows a conversation and a draw of any length: `Split`, that
  every position is kept or in one of the two groups of the dropped, and in one
  only, is what the filter's two steps leave; `AddsUp`, that the gate's three
  groups and the facts without a quote come to the length of the canonical
  draw, is what `Extract` leaves, the groups being restrictions of one function
  by an outcome that each fact has exactly one of. `QuotesAreKept`: what
  `Extract` admits is aligned with some text of the content, and the content it
  renders is that of the kept turns. For
  `DisputedAreSeen`: `MostSevereIsMost`, that the winner of any number of
  resolutions ranks before or level with each, by the least element of their
  ranks; a dispute therefore escalates (`DisputeEscalates`), and a rule only
  tightens (`OnlyTightens`), so the decision is at least an escalation whatever
  the matrix says. `TasksOK` ties a report to the judgements it was made of.
  `OnlyLowUnseen` is the same argument for impact and corroboration, with its
  assumption on the thresholds written out: settings that move the lower risk
  threshold above the floor of medium impact would lose it. `OnlyLowIsWritten`
  carries it to the runs: of every task that has a decision, `Score` made it
  from that candidate's own specification (`TasksOK`), and neither changes
  afterwards while its siblings are under way. `PermitsComeBack` counts the
  semaphore: whatever a step of a candidate does, it turns that one task from
  waiting to busy, from busy to busy or to its outcome (`Turned`), and moves the
  permits by as much. `TypeCorrect` adds `Shaped`, that no draw kept is empty
  and so every sample is a list of facts.
- **RecallProofs.** A commit writes a row no reader has seen and closes an
  interval at the clock its apply has read. That the new row is not visible is
  the invariant (`RowsAreNew`); an interval closed at *at* changes no answer
  about a moment before *at*. From it also: what is visible stays visible and
  what is retired stays retired (`GoesOnwards`). A search can then lose a row
  from the list it reads now only to the one it reads later. `SearchInv` says
  where each row that was current stands: among the hits or the excluded, kept
  out by a limit, within reach of a query for the live that is still to come,
  or retired and within reach of a query for the retired that is. Reading in
  the other order breaks it, which is the mutant. `EntityInv` does the same for
  the two stores, with `EdgesOK`: a visible row has an edge, and the graph is
  told of no end that has not come; of an answer that is not `graph_backed` it
  says nothing. `WritersAreDual` is the refinement; it needs
  that a proposal means to retire only rows its reader saw (`SeenIsOver`).
- **EnumerationProofs.** Lemmas only: an order on a finite set gives each
  element its own place and every place its element (`PlacesFill`), so that
  `InOrder` lists the set once through, in order; and `Pick` keeps all that
  stands at the positions.

The type invariant of every module that has a `Spec` is a theorem; those of
Gateway and Pipeline, AuditChain, Governance, Ingress and Recall need no run of
their own. `PROJECT.json` "theorems" lists the results, with the property of a
run where one is stated.

Model-checked only: everything temporal under fairness (`NoSilentLoss`,
`AcceptedIsDecided`, `RunEnds`, `SearchIsAnswered`), which is out of the prover's
reach. Every other property of
a passing run is a theorem. Those that a run finds violated, `OneLiveValue`,
`HealthyIsRevealed` and `SupersessionAcyclic` with redelivery, are not; the last
is one where a dead run is not run again.

## 5. Limits

- Integrity of the chain is that of what is stored: a truncated tail verifies.
  That is so in the code as well.
- Governance follows one fact of one tenant. Of time it has the order of
  events only; of a row it has the object, not the provenance; ranking and the
  scores are a nondeterministic verdict, with the constraints `detect` and the
  matrix put on it.
- arq, asyncpg, Postgres and the graph databases are not in `src/`; they are
  modelled by what the code relies on: a transaction is atomic, READ COMMITTED
  shows committed rows and one's own, advisory locks last until the end of the
  transaction, a job whose process dies is run again.
- Code between two awaits is taken to take no time, and a connection that breaks
  to be noticed at once by the wait on it (Gateway); the server stops when the
  requests in flight are answered,
  as uvicorn does.
- Word lists, ontology rows and similarity are a small vocabulary in
  `MCPipeline`; how alike two texts are is given, not computed. Entropy is exact
  for up to three draws, fan-out for up to three edges and from fifty on.

### Not modelled

- The store router: a pure table that nothing on the write path asks.
- Settings, schemas and prompts: values, validated once, that do not change.
- Credentials, scopes and roles beyond whether a request passes: local to it.
- Provenance rows: written with their assertion and read by citations alone.
- Prices, seeds, request formats, logging, metrics and traces.
- `memory.propose` of the MCP server, another front end of `govern` with no
  state of its own, and `memory.commit`, which refuses.
- Evaluation, scripts, benchmarks: nothing the service runs.

## 6. Plan

Done, in the order in which they matter: OutboxRelay, AuditChain, Governance,
Ingress, Pipeline, Gateway, Recall, each with its proofs; every safety property
of a passing run has its theorem. Left:

1. Several facts per proposal in `Governance`: what a positional id means when
   a second extraction has another fact at that position; with it the provenance
   rows that a second run adds to the first one's assertion.
2. Chain edits: what `verify_chain` reports, and where, for every single edit,
   deletion or swap.
3. The promise of `Recall` as an abstract history of beliefs, which Governance
   with time would implement.
