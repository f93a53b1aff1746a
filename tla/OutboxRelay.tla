---------------------------- MODULE OutboxRelay ----------------------------
(***************************************************************************)
(* The dual write: assertion rows and their outbox events in Postgres, the *)
(* edges of a graph store, and the relay passes (OutboxRelay.run_once)     *)
(* that carry one to the other and reveal the row.                         *)
(*                                                                         *)
(* One relay step is one transaction or one graph call of the code, so     *)
(* writers, supersessions, other passes, graph outages and crashes         *)
(* interleave exactly where the code awaits.  An assertion stands for its  *)
(* row, its outbox row (whose id is derived from it) and its edge (keyed   *)
(* by it).                                                                 *)
(***************************************************************************)
EXTENDS Naturals, FiniteSets

CONSTANTS
    Assertions,   \* assertion ids
    Relays,       \* relay passes that may run side by side
    Stamps,       \* values of outbox.created_at
    Poison,       \* events whose payload names another tenant
    Rejected,     \* assertions the graph refuses (ValidationRejected)
    BatchSize,    \* LIMIT of the claim
    MaxAttempts,  \* hard attempt cap
    MaxRestarts,  \* losses of an in-process graph; 0 for a durable one
    Faults,       \* may the graph be unreachable, may a pass die
    NotYet        \* NULL: not dispatched, no current event

ASSUME ConstantsAssumption ==
    /\ IsFiniteSet(Relays)
    /\ Stamps \subseteq Nat
    /\ Poison \subseteq Assertions
    /\ Rejected \subseteq Assertions
    /\ BatchSize \in Nat \ {0}
    /\ MaxAttempts \in Nat \ {0}
    /\ MaxRestarts \in Nat
    /\ Faults \in BOOLEAN
    /\ NotYet \notin Relays \cup Assertions

VARIABLES
    stored,       \* rows of table assertion
    visible,      \* rows with visible = true
    retired,      \* rows with valid_to set
    queued,       \* rows of table outbox
    created,      \* outbox.created_at
    attempts,     \* outbox.attempts
    dispatched,   \* outbox.dispatched_at, as the relay whose clock set it
    edge,         \* the graph: no edge, a live one, one with valid_to set
    restarts,     \* graph losses so far
    pc,           \* where each pass stands
    batch,        \* claimed events a pass has not finished with
    cur,          \* the event a pass is dispatching
    image         \* valid_to of cur, as the pass loaded it

rowVars   == <<stored, visible, retired>>
queueVars == <<queued, created, attempts, dispatched>>
graphVars == <<edge, restarts>>
relayVars == <<pc, batch, cur, image>>
vars      == <<rowVars, queueVars, graphVars, relayVars>>

Edges == {"none", "live", "retired"}
Steps == {"idle", "next", "upsert", "complete"}

TypeOK ==
    /\ stored \subseteq Assertions
    /\ visible \subseteq Assertions
    /\ retired \subseteq Assertions
    /\ queued \subseteq Assertions
    /\ created \in [Assertions -> Nat]
    /\ attempts \in [Assertions -> 0..MaxAttempts]
    /\ dispatched \in [Assertions -> Relays \cup {NotYet}]
    /\ edge \in [Assertions -> Edges]
    /\ restarts \in 0..MaxRestarts
    /\ pc \in [Relays -> Steps]
    /\ batch \in [Relays -> SUBSET Assertions]
    /\ cur \in [Relays -> Assertions \cup {NotYet}]
    /\ image \in [Relays -> Edges]

Init ==
    /\ stored = {} /\ visible = {} /\ retired = {} /\ queued = {}
    /\ created = [a \in Assertions |-> 0]
    /\ attempts = [a \in Assertions |-> 0]
    /\ dispatched = [a \in Assertions |-> NotYet]
    /\ edge = [a \in Assertions |-> "none"]
    /\ restarts = 0
    /\ pc = [r \in Relays |-> "idle"]
    /\ batch = [r \in Relays |-> {}]
    /\ cur = [r \in Relays |-> NotYet]
    /\ image = [r \in Relays |-> "none"]

-----------------------------------------------------------------------------
\* B is what ORDER BY created_at LIMIT BatchSize takes from `pool`.  Rows of
\* one transaction share a stamp, and ties fall either way.
OldestOf(pool, B) ==
    /\ B \subseteq pool
    /\ \/ B = pool /\ Cardinality(B) <= BatchSize
       \/ Cardinality(B) = BatchSize
    /\ \A b \in B, a \in pool \ B : created[b] <= created[a]

\* Events another pass claimed or is completing: the only rows it can have
\* locked, so the only ones FOR UPDATE SKIP LOCKED may step over.
HeldByOthers(r) == UNION {batch[s] : s \in Relays \ {r}}

\* A pass is done with its current event and takes the next, or ends.
Continue(r, rest) ==
    /\ batch' = [batch EXCEPT ![r] = rest]
    /\ pc' = [pc EXCEPT ![r] = IF rest = {} THEN "idle" ELSE "next"]
    /\ cur' = [cur EXCEPT ![r] = NotYet]
    /\ image' = [image EXCEPT ![r] = "none"]

\* The valid_to that assertion_from_row reads and the graph stores.
Loaded(a) == IF a \in retired THEN "retired" ELSE "live"

\* Faulty: the claim forgets `attempts < $1`.
ClaimableUncapped == {a \in queued : dispatched[a] = NotYet}

\* Faulty: the claim gives up one attempt early.
ClaimableOneShort ==
    {a \in queued : dispatched[a] = NotYet /\ attempts[a] + 1 < MaxAttempts}

\* CLAIM_OUTBOX's WHERE clause, as the code has it.
Claimable ==
    {a \in queued : dispatched[a] = NotYet /\ attempts[a] < MaxAttempts}

-----------------------------------------------------------------------------
(* Faulty variants of the definitions below, each a bug this code could    *)
(* have had.  No specification uses them: they show that each property     *)
(* notices the bug it is there for.                                        *)

\* The event is enqueued by the router afterwards, and is lost here.
UpsertWithoutEvent(S, stamp) ==
    /\ stored' = stored \cup S
    /\ UNCHANGED <<visible, retired, queueVars, graphVars, relayVars>>

\* ON CONFLICT DO UPDATE: a replay writes the row as it first was.
UpsertOverwriting(S, stamp) ==
    /\ stored' = stored \cup S
    /\ queued' = queued \cup S
    /\ visible' = visible \ S
    /\ retired' = retired \ S
    /\ created' = [a \in Assertions |->
                     IF a \in S \ queued THEN stamp ELSE created[a]]
    /\ UNCHANGED <<attempts, dispatched, graphVars, relayVars>>

\* The attempt is to be counted after the dispatch, not with the claim.
ClaimUncounted(r) ==
    /\ pc[r] = "idle"
    /\ \E B \in SUBSET Claimable :
          /\ B # {}
          /\ OldestOf(Claimable, B)
          /\ batch' = [batch EXCEPT ![r] = B]
          /\ pc' = [pc EXCEPT ![r] = "next"]
    /\ UNCHANGED <<rowVars, queueVars, graphVars, cur, image>>

\* The row is revealed before the graph is written.
LoadThenComplete(r, a) ==
    /\ pc[r] = "next"
    /\ a \in batch[r] \ Poison
    /\ pc' = [pc EXCEPT ![r] = "complete"]
    /\ cur' = [cur EXCEPT ![r] = a]
    /\ image' = [image EXCEPT ![r] = Loaded(a)]
    /\ UNCHANGED <<rowVars, queueVars, graphVars, batch>>

\* StoreUnavailable is swallowed and the event completed all the same.
UpsertFailureIgnored(r) ==
    /\ Faults
    /\ pc[r] = "upsert"
    /\ pc' = [pc EXCEPT ![r] = "complete"]
    /\ UNCHANGED <<rowVars, queueVars, graphVars, batch, cur, image>>

\* Only the first of the two statements commits.
CompleteRevealOnly(r) ==
    /\ pc[r] = "complete"
    /\ visible' = visible \cup {cur[r]}
    /\ Continue(r, batch[r] \ {cur[r]})
    /\ UNCHANGED <<stored, retired, queueVars, graphVars>>

-----------------------------------------------------------------------------
(* The stores' side.                                                       *)

\* PgVectorStore.upsert, and write_in from the applier: rows and their events
\* in one transaction, ON CONFLICT DO NOTHING on both, so a replayed write
\* touches neither.  created_at is now(), the start of the transaction:
\* commit order does not follow it.
Upsert(S, stamp) ==
    /\ stored' = stored \cup S
    /\ queued' = queued \cup S
    /\ created' = [a \in Assertions |->
                     IF a \in S \ queued THEN stamp ELSE created[a]]
    /\ UNCHANGED <<visible, retired, attempts, dispatched, graphVars, relayVars>>

\* PgVectorStore.supersede: WHERE valid_to IS NULL, whatever visible says.
\* Postgres only: no event is queued and the graph is not told.
Supersede(a) ==
    /\ a \in stored \ retired
    /\ retired' = retired \cup {a}
    /\ UNCHANGED <<stored, visible, queueVars, graphVars, relayVars>>

\* The process that holds an in-memory graph restarts: NetworkXGraphStore is
\* empty again, and the passes of that process are gone with it.
LoseGraph ==
    /\ restarts < MaxRestarts
    /\ restarts' = restarts + 1
    /\ edge' = [a \in Assertions |-> "none"]
    /\ pc' = [r \in Relays |-> "idle"]
    /\ batch' = [r \in Relays |-> {}]
    /\ cur' = [r \in Relays |-> NotYet]
    /\ image' = [r \in Relays |-> "none"]
    /\ UNCHANGED <<rowVars, queueVars>>

-----------------------------------------------------------------------------
(* OutboxRelay.run_once, one awaited step at a time.                       *)

\* _claim: take the oldest events and count the attempt, in one statement.
\* The claim commits and lets its locks go, so a later pass may claim an
\* event this one is still working on.
Claim(r) ==
    /\ pc[r] = "idle"
    /\ \E skipped \in SUBSET (HeldByOthers(r) \cap Claimable) :
       \E B \in SUBSET (Claimable \ skipped) :
          /\ B # {}
          /\ OldestOf(Claimable \ skipped, B)
          /\ attempts' = [a \in Assertions |->
                            IF a \in B THEN attempts[a] + 1 ELSE attempts[a]]
          /\ batch' = [batch EXCEPT ![r] = B]
          /\ pc' = [pc EXCEPT ![r] = "next"]
    /\ UNCHANGED <<rowVars, queued, created, dispatched, graphVars, cur, image>>

\* _load, for any event left in the batch: RETURNING promises no order.
Load(r, a) ==
    /\ pc[r] = "next"
    /\ a \in batch[r] \ Poison
    /\ pc' = [pc EXCEPT ![r] = "upsert"]
    /\ cur' = [cur EXCEPT ![r] = a]
    /\ image' = [image EXCEPT ![r] = Loaded(a)]
    /\ UNCHANGED <<rowVars, queueVars, graphVars, batch>>

\* _load under the tenant the event names: RLS matches no row, the event is
\* left pending and the pass goes on.
LoadNothing(r, a) ==
    /\ pc[r] = "next"
    /\ a \in batch[r] \cap Poison
    /\ Continue(r, batch[r] \ {a})
    /\ UNCHANGED <<rowVars, queueVars, graphVars>>

\* GraphStore.upsert_assertion: the edge is keyed by the assertion id and its
\* attributes are overwritten by the loaded row.
UpsertEdge(r) ==
    /\ pc[r] = "upsert"
    /\ cur[r] \notin Rejected
    /\ edge' = [edge EXCEPT ![cur[r]] = image[r]]
    /\ pc' = [pc EXCEPT ![r] = "complete"]
    /\ UNCHANGED <<rowVars, queueVars, restarts, batch, cur, image>>

\* StoreUnavailable: caught, the event waits for a later pass.  The graph may
\* have done the work and lost only the answer.
UpsertUnavailable(r) ==
    /\ Faults
    /\ pc[r] = "upsert"
    /\ \/ UNCHANGED edge
       \/ /\ cur[r] \notin Rejected
          /\ edge' = [edge EXCEPT ![cur[r]] = image[r]]
    /\ Continue(r, batch[r] \ {cur[r]})
    /\ UNCHANGED <<rowVars, queueVars, restarts>>

\* ValidationRejected: not caught, so it ends the pass for the whole batch.
UpsertRejected(r) ==
    /\ pc[r] = "upsert"
    /\ cur[r] \in Rejected
    /\ Continue(r, {})
    /\ UNCHANGED <<rowVars, queueVars, graphVars>>

\* _complete: REVEAL_ASSERTION (whatever valid_to says) and MARK_DISPATCHED
\* (only where dispatched_at IS NULL) in one transaction.
Complete(r) ==
    /\ pc[r] = "complete"
    /\ visible' = visible \cup {cur[r]}
    /\ dispatched' = [dispatched EXCEPT
                        ![cur[r]] = IF @ = NotYet THEN r ELSE @]
    /\ Continue(r, batch[r] \ {cur[r]})
    /\ UNCHANGED <<stored, retired, queued, created, attempts, graphVars>>

\* The process dies, or Postgres is unreachable and the exception leaves
\* run_once: whatever was not finished stays pending.
Die(r) ==
    /\ Faults
    /\ pc[r] # "idle"
    /\ Continue(r, {})
    /\ UNCHANGED <<rowVars, queueVars, graphVars>>

Writer ==
    \/ \E S \in (SUBSET Assertions) \ {{}}, stamp \in Stamps : Upsert(S, stamp)
    \/ \E a \in Assertions : Supersede(a)

\* One awaited step inside a pass.
Step(r) ==
    \/ \E a \in Assertions : Load(r, a) \/ LoadNothing(r, a)
    \/ UpsertEdge(r)
    \/ UpsertUnavailable(r)
    \/ UpsertRejected(r)
    \/ Complete(r)

Next ==
    \/ Writer
    \/ LoseGraph
    \/ \E r \in Relays : Claim(r) \/ Step(r) \/ Die(r)

Spec == Init /\ [][Next]_vars

(* A coroutine that was started runs on (Step): its statements have        *)
(* timeouts, and Postgres is assumed to come back from the BEGIN and       *)
(* COMMIT around them, which have none.  That passes keep being            *)
(* started (Claim) is the deployment's part: the code offers run_once and  *)
(* schedules it nowhere.                                                   *)
FairSpec == Spec /\ \A r \in Relays : WF_vars(Claim(r)) /\ WF_vars(Step(r))

-----------------------------------------------------------------------------
(* Safety.                                                                 *)

\* A reader who honours visible never meets a fact whose graph half has not
\* landed, whichever pass dies or loses its answer between the edge and the
\* reveal (relay.py _dispatch).
NoUnlinkedRead == \A a \in visible : edge[a] # "none"

\* Revealing and closing the event are one decision (_complete): no visible
\* row is still pending, no closed event hides its row.
RevealIsCompletion == visible = {a \in Assertions : dispatched[a] # NotYet}

\* No row without the event that will reveal it, and no event without its
\* row: otherwise a fact would be durable and permanently unreadable.
StoredIsOwed == stored = queued

\* An event that names the wrong tenant, or whose edge the graph refuses,
\* reveals nothing in any interleaving of passes.
PoisonStaysHidden == visible \cap (Poison \cup Rejected) = {}

\* attempts counts at least the passes now holding the event: a crash at any
\* point has left evidence that it tried (comment over CLAIM_OUTBOX).
AttemptsCoverHolders ==
    \A a \in Assertions : Cardinality({r \in Relays : a \in batch[r]}) <= attempts[a]

\* No step un-reveals a row or un-retires it: not a replayed write, not a
\* pass that loaded the row before it was superseded.
NoResurrection ==
    [][visible \subseteq visible' /\ retired \subseteq retired']_vars

\* dispatched_at says when the graph half first landed and never moves, even
\* when two passes complete the same event.
FirstCompletionStands ==
    [][\A a \in Assertions : dispatched[a] # NotYet
                               => dispatched'[a] = dispatched[a]]_vars

\* Even over a graph that may be lost, a pass reveals a fact only while its
\* edge is there: what was upserted before the loss is not completed after.
RevealFollowsLink ==
    [][\A a \in visible' \ visible : edge[a] # "none"]_vars

-----------------------------------------------------------------------------
(* The promise to readers, implemented.                                    *)

DW == INSTANCE DualWrite WITH
        fact <- [a \in Assertions |->
                   IF a \notin stored THEN "absent"
                   ELSE IF a \in visible THEN "readable" ELSE "pending"],
        linked <- {a \in Assertions : edge[a] # "none"},
        withdrawn <- retired

\* Under a durable graph the relay implements the reader's view of the dual
\* write: accepted, linked, readable, in that order and for good.
ImplementsDualWrite == DW!DWSpec

-----------------------------------------------------------------------------
(* Liveness.                                                               *)

\* However often the graph is down and passes die, a stored fact becomes
\* readable or its event reaches the cap, where the operator's query finds it.
NoSilentLoss ==
    \A a \in Assertions :
        a \in stored ~> (a \in visible \/ attempts[a] = MaxAttempts)

\* Nothing being down, an event that the graph takes is dispatched, whatever
\* it shares a batch with: "a batch of fifty in which the third fails must
\* still dispatch the other forty-nine" (test_outbox_relay.py).
HealthyIsRevealed ==
    \A a \in Assertions \ (Poison \cup Rejected) : a \in stored ~> a \in visible
=============================================================================
