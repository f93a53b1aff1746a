----------------------------- MODULE AuditChain -----------------------------
(***************************************************************************)
(* The audit chain of each tenant (observability/audit_store.py): links    *)
(* appended inside transactions that other work shares, on connections     *)
(* that run side by side over one table and one BIGSERIAL.                 *)
(*                                                                         *)
(* Every statement of `append` is a step: the advisory lock, the head as   *)
(* READ COMMITTED shows it, the insert.  A transaction may append several  *)
(* links before it commits, and may be rolled back between any two         *)
(* statements: an error above it, a cancelled request, a dead connection.  *)
(***************************************************************************)
EXTENDS HashChain, Enumeration

CONSTANTS
    Tenants,
    Conns,       \* pooled connections
    Payloads,    \* kinds and bodies of events
    Keys,        \* values of hashtext
    HashText,    \* [Tenants -> Keys]: two tenants may collide
    Free,        \* a lock nobody holds
    NoTenant,    \* app.tenant_id of a connection at rest
    MaxSerial    \* bound on the sequence

ASSUME ConstantsAssumption ==
    /\ HashText \in [Tenants -> Keys]
    /\ Free \notin Conns
    /\ NoTenant \notin Tenants
    /\ MaxSerial \in Nat

VARIABLES
    rows,       \* committed rows of audit_event
    serial,     \* last value the sequence gave out; a rollback gives none back
    lock,       \* who holds the advisory lock of each key
    pc,         \* where each connection's transaction stands
    tenant,     \* app.tenant_id of each transaction
    mine,       \* rows a transaction has inserted and not committed
    head        \* the digest SELECT_HEAD returned to it

txVars == <<pc, tenant, mine, head>>
vars   == <<rows, serial, lock, txVars>>

RowsOf(t) == {e \in rows : e.tenant = t}

\* What a statement of c's transaction sees of its tenant's chain.
Visible(c) == RowsOf(tenant[c]) \cup mine[c]

TypeOK ==
    /\ \A e \in rows \cup UNION {mine[c] : c \in Conns} :
          e.tenant \in Tenants /\ e.seq \in 1..serial /\ e.payload \in Payloads
    /\ serial \in 0..MaxSerial
    /\ lock \in [Keys -> Conns \cup {Free}]
    /\ pc \in [Conns -> {"idle", "open", "waiting", "locked", "read"}]
    /\ tenant \in [Conns -> Tenants \cup {NoTenant}]
    /\ DOMAIN mine = Conns /\ DOMAIN head = Conns

Init ==
    /\ rows = {} /\ serial = 0
    /\ lock = [k \in Keys |-> Free]
    /\ pc = [c \in Conns |-> "idle"]
    /\ tenant = [c \in Conns |-> NoTenant]
    /\ mine = [c \in Conns |-> {}]
    /\ head = [c \in Conns |-> GENESIS]

\* COMMIT or ROLLBACK: the transaction's lock, setting and rows are gone from it.
Release(c) ==
    /\ lock' = [k \in Keys |-> IF lock[k] = c THEN Free ELSE lock[k]]
    /\ pc' = [pc EXCEPT ![c] = "idle"]
    /\ tenant' = [tenant EXCEPT ![c] = NoTenant]
    /\ mine' = [mine EXCEPT ![c] = {}]
    /\ head' = [head EXCEPT ![c] = GENESIS]

-----------------------------------------------------------------------------
(* Faulty variants of the actions below, each a bug this code could have   *)
(* had.  No specification uses them: they show that each property notices  *)
(* the bug it is there for.                                                *)

\* append without _LOCK_CHAIN.
GrantUnlocked(c) ==
    /\ pc[c] = "waiting"
    /\ pc' = [pc EXCEPT ![c] = "locked"]
    /\ UNCHANGED <<rows, serial, lock, tenant, mine, head>>

\* SELECT_HEAD without its tenant, on a connection RLS does not bind.
ReadHeadOfAll(c) ==
    /\ pc[c] = "locked"
    /\ head' = [head EXCEPT ![c] = HeadDigest(rows \cup mine[c])]
    /\ pc' = [pc EXCEPT ![c] = "read"]
    /\ UNCHANGED <<rows, serial, lock, tenant, mine>>

\* pg_advisory_lock, released by hand when the link is in.
InsertThenUnlock(c, p) ==
    /\ pc[c] = "read"
    /\ serial < MaxSerial
    /\ serial' = serial + 1
    /\ mine' = [mine EXCEPT ![c] = @ \cup
                 {[tenant |-> tenant[c], seq |-> serial + 1, payload |-> p,
                   prev |-> head[c], digest |-> digest_for(p, head[c])]}]
    /\ lock' = [k \in Keys |-> IF lock[k] = c THEN Free ELSE lock[k]]
    /\ pc' = [pc EXCEPT ![c] = "open"]
    /\ UNCHANGED <<rows, tenant, head>>

\* A transaction may append for a second tenant when it is through with one.
AskLockOfAny(c) ==
    /\ pc[c] = "open"
    /\ pc' = [pc EXCEPT ![c] = "waiting"]
    /\ \E t \in Tenants : tenant' = [tenant EXCEPT ![c] = t]
    /\ UNCHANGED <<rows, serial, lock, mine, head>>

-----------------------------------------------------------------------------
(* tenant_transaction and append.                                          *)

Begin(c, t) ==
    /\ pc[c] = "idle"
    /\ pc' = [pc EXCEPT ![c] = "open"]
    /\ tenant' = [tenant EXCEPT ![c] = t]
    /\ UNCHANGED <<rows, serial, lock, mine, head>>

\* append begins: pg_advisory_xact_lock(hashtext(tenant)) is asked for ...
AskLock(c) ==
    /\ pc[c] = "open"
    /\ pc' = [pc EXCEPT ![c] = "waiting"]
    /\ UNCHANGED <<rows, serial, lock, tenant, mine, head>>

\* ... and granted when free, or already this transaction's.
Grant(c) ==
    /\ pc[c] = "waiting"
    /\ lock[HashText[tenant[c]]] \in {Free, c}
    /\ lock' = [lock EXCEPT ![HashText[tenant[c]]] = c]
    /\ pc' = [pc EXCEPT ![c] = "locked"]
    /\ UNCHANGED <<rows, serial, tenant, mine, head>>

\* ... or given up after timeout_s, and the transaction with it.
LockTimeout(c) ==
    /\ pc[c] = "waiting"
    /\ Release(c)
    /\ UNCHANGED <<rows, serial>>

\* SELECT_HEAD: committed rows of the tenant and the transaction's own.
ReadHead(c) ==
    /\ pc[c] = "locked"
    /\ head' = [head EXCEPT ![c] = HeadDigest(Visible(c))]
    /\ pc' = [pc EXCEPT ![c] = "read"]
    /\ UNCHANGED <<rows, serial, lock, tenant, mine>>

\* next_link and INSERT_AUDIT, whose nextval no rollback undoes.
Insert(c, p) ==
    /\ pc[c] = "read"
    /\ serial < MaxSerial
    /\ serial' = serial + 1
    /\ mine' = [mine EXCEPT ![c] = @ \cup
                 {[tenant |-> tenant[c], seq |-> serial + 1, payload |-> p,
                   prev |-> head[c], digest |-> digest_for(p, head[c])]}]
    /\ pc' = [pc EXCEPT ![c] = "open"]
    /\ UNCHANGED <<rows, lock, tenant, head>>

Commit(c) ==
    /\ pc[c] = "open"
    /\ mine[c] # {}
    /\ rows' = rows \cup mine[c]
    /\ Release(c)
    /\ UNCHANGED serial

\* Any statement fails, the caller raises, or the connection dies.
Rollback(c) ==
    /\ pc[c] # "idle"
    /\ Release(c)
    /\ UNCHANGED <<rows, serial>>

Next ==
    \E c \in Conns :
        \/ \E t \in Tenants : Begin(c, t)
        \/ AskLock(c)
        \/ Grant(c)
        \/ LockTimeout(c)
        \/ ReadHead(c)
        \/ \E p \in Payloads : Insert(c, p)
        \/ Commit(c)
        \/ Rollback(c)

Spec == Init /\ [][Next]_vars

-----------------------------------------------------------------------------
\* I5: whoever walks a tenant's chain, at any moment, finds that it adds up;
\* concurrent appends never fork it and rolled-back ones leave no hole in it
\* (audit_store.append, verify_tenant_chain).
ChainVerifies == \A t \in Tenants : verified(RowsOf(t))

\* The head a link was computed from is still the head when the link lands
\* (append: "the prev_digest a link claims is still the head").
HeadIsFresh ==
    \A c \in Conns : pc[c] = "read" => head[c] = HeadDigest(Visible(c))

\* A commit never slips a link in behind one already committed: what a reader
\* has walked and verified stays the beginning of the chain, although seq is
\* drawn before the commit and by all tenants alike.
CommitsAtTheEnd ==
    [][\A e \in rows' \ rows, f \in rows : e.tenant = f.tenant => f.seq < e.seq]_vars

\* Who holds the lock that c is waiting for.
WaitsFor(c) ==
    {d \in Conns \ {c} : pc[c] = "waiting" /\ lock[HashText[tenant[c]]] = d}

\* Transactions keep the chain's lock until they end and append on, tenants
\* share locks, and still they never wait for one another in a circle: whoever
\* stands in the way has all the locks it will ask for (append inside
\* tenant_transaction).
HoldersRunOn == \A c, d \in Conns : d \in WaitsFor(c) => WaitsFor(d) = {}

\* ORDER BY seq: what the rows R of one tenant say, one after the other.
InSeqOrder(R) ==
    LET seqs == Ascending({e.seq : e \in R})
    IN  [i \in DOMAIN seqs |-> (CHOOSE e \in R : e.seq = seqs[i]).payload]

Trail == INSTANCE AppendOnlyLog WITH log <- [t \in Tenants |-> InSeqOrder(RowsOf(t))]

\* Read in seq order the table is an append-only log per tenant.
ImplementsLog == Trail!LogSpec
=============================================================================
