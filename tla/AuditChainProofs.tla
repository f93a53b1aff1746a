-------------------------- MODULE AuditChainProofs --------------------------
(***************************************************************************)
(* I5 for any number of tenants, connections, events and hash collisions   *)
(* between tenants' locks, and however transactions interleave or fail.    *)
(***************************************************************************)
EXTENDS AuditChain, EnumerationProofs

Holds(c) == lock[HashText[tenant[c]]] = c

(* What the advisory lock buys.  A transaction with links of its own, or on *)
(* the way to one, holds its tenant's lock; its links lie behind every      *)
(* committed one and continue the chain.                                    *)
LockInv == \A c \in Conns :
    /\ pc[c] # "idle" => tenant[c] \in Tenants
    /\ pc[c] = "idle" => mine[c] = {}
    /\ mine[c] # {} \/ pc[c] \in {"locked", "read"} => Holds(c)
    /\ \A e \in mine[c] : e.tenant = tenant[c]

ChainInv == \A c \in Conns :
    /\ \A e \in mine[c], f \in RowsOf(tenant[c]) : f.seq < e.seq
    /\ verified(Visible(c))

IInv == TypeOK /\ LockInv /\ ChainInv /\ ChainVerifies /\ HeadIsFresh

LEMMA InitIInv == Init => IInv
BY ConstantsAssumption
   DEF Init, IInv, TypeOK, LockInv, ChainInv, ChainVerifies, HeadIsFresh,
       RowsOf, Visible, verified

\* A link made from the head, behind all the others, leaves a verified chain
\* verified.
LEMMA Extend ==
  ASSUME NEW S, NEW e,
         verified(S), \A f \in S : f.seq \in Int, e.seq \in Int,
         \A f \in S : f.seq < e.seq,
         e.prev = HeadDigest(S), e.digest = digest_for(e.payload, e.prev)
  PROVE  verified(S \cup {e})
<1>1. {f \in S \cup {e} : f.seq < e.seq} = S
  OBVIOUS
<1>2. ASSUME NEW g \in S
      PROVE  {f \in S \cup {e} : f.seq < g.seq} = {f \in S : f.seq < g.seq}
  BY <1>2
<1>3. ~ Bad(S \cup {e}, e)
  BY <1>1 DEF Bad, ExpectedPrev
<1>4. ASSUME NEW g \in S PROVE ~ Bad(S \cup {e}, g)
  BY <1>2 DEF Bad, ExpectedPrev, verified
<1> QED
  BY <1>3, <1>4 DEF verified

\* COMMIT of nothing, or ROLLBACK: the other transactions see no difference.
LEMMA ReleaseOK ==
  ASSUME IInv, NEW c \in Conns, Release(c), UNCHANGED <<rows, serial>>
  PROVE  IInv'
<1> USE ConstantsAssumption DEF IInv, Release
<1>1. TypeOK'
  BY DEF TypeOK
<1>2. ASSUME NEW d \in Conns, d # c
      PROVE  /\ pc'[d] = pc[d] /\ tenant'[d] = tenant[d] /\ mine'[d] = mine[d]
             /\ head'[d] = head[d] /\ Visible(d)' = Visible(d)
             /\ tenant[d] \in Tenants /\ Holds(d) => Holds(d)'
  BY <1>2 DEF TypeOK, Visible, RowsOf, Holds
<1>3. pc'[c] = "idle" /\ tenant'[c] = NoTenant /\ mine'[c] = {}
  BY DEF TypeOK
<1>4. LockInv'
  BY <1>2, <1>3 DEF LockInv
<1>5. ChainInv'
  <2>1. Visible(c)' = {}
    BY <1>3 DEF Visible, RowsOf, TypeOK
  <2> QED
    BY <1>2, <1>3, <2>1 DEF ChainInv, RowsOf, verified
<1>6. ChainVerifies' /\ HeadIsFresh'
  BY <1>2, <1>3 DEF ChainVerifies, HeadIsFresh, RowsOf
<1> QED
  BY <1>1, <1>4, <1>5, <1>6

\* A transaction opens, asks for the lock, gets it or reads: no rows move.
LEMMA QuietStepOK ==
  ASSUME IInv, NEW c \in Conns,
         (\E t \in Tenants : Begin(c, t)) \/ AskLock(c) \/ Grant(c) \/ ReadHead(c)
  PROVE  IInv'
<1> USE ConstantsAssumption DEF IInv
<1>1. CASE \E t \in Tenants : Begin(c, t)
  <2>1. PICK t \in Tenants : Begin(c, t)
    BY <1>1
  <2>2. TypeOK'
    BY <2>1 DEF Begin, TypeOK
  <2>3. \A d \in Conns \ {c} :
           pc'[d] = pc[d] /\ tenant'[d] = tenant[d] /\ Visible(d)' = Visible(d)
    BY <2>1 DEF Begin, TypeOK, Visible, RowsOf
  <2>4. pc'[c] = "open" /\ tenant'[c] = t /\ mine[c] = {}
    BY <2>1 DEF Begin, TypeOK, LockInv
  <2>5. LockInv'
    BY <2>1, <2>3, <2>4 DEF Begin, LockInv, Holds
  <2>6. Visible(c)' = RowsOf(t)
    BY <2>1, <2>4 DEF Begin, Visible, RowsOf
  <2>7. ChainInv'
    BY <2>1, <2>3, <2>4, <2>6 DEF Begin, ChainInv, ChainVerifies, RowsOf
  <2>8. ChainVerifies' /\ HeadIsFresh'
    BY <2>1, <2>3, <2>4 DEF Begin, ChainVerifies, HeadIsFresh, RowsOf
  <2> QED
    BY <2>2, <2>5, <2>7, <2>8
<1>2. CASE AskLock(c)
  BY <1>2 DEF AskLock, TypeOK, LockInv, Holds, ChainInv, ChainVerifies,
              HeadIsFresh, Visible, RowsOf
<1>3. CASE Grant(c)
  <2>1. TypeOK'
    BY <1>3 DEF Grant, TypeOK, LockInv
  <2>2. LockInv'
    BY <1>3 DEF Grant, TypeOK, LockInv, Holds
  <2>3. ChainInv' /\ ChainVerifies' /\ HeadIsFresh'
    BY <1>3 DEF Grant, TypeOK, ChainInv, ChainVerifies, HeadIsFresh, Visible, RowsOf
  <2> QED
    BY <2>1, <2>2, <2>3
<1>4. CASE ReadHead(c)
  <2>1. TypeOK' /\ LockInv'
    BY <1>4 DEF ReadHead, TypeOK, LockInv, Holds
  <2>2. ChainInv' /\ ChainVerifies'
    BY <1>4 DEF ReadHead, ChainInv, ChainVerifies, Visible, RowsOf
  <2>3. HeadIsFresh'
    BY <1>4 DEF ReadHead, TypeOK, HeadIsFresh, Visible, RowsOf
  <2> QED
    BY <2>1, <2>2, <2>3
<1> QED
  BY <1>1, <1>2, <1>3, <1>4

\* Two transactions that hold their tenants' locks are of different tenants.
LEMMA OneHolder ==
  ASSUME NEW c \in Conns, NEW d \in Conns, Holds(c), Holds(d),
         tenant[c] = tenant[d]
  PROVE  c = d
BY DEF Holds

LEMMA InsertOK ==
  ASSUME IInv, NEW c \in Conns, NEW p \in Payloads, Insert(c, p)
  PROVE  IInv'
<1> USE ConstantsAssumption DEF IInv
<1> DEFINE link == [tenant |-> tenant[c], seq |-> serial + 1, payload |-> p,
                    prev |-> head[c], digest |-> digest_for(p, head[c])]
<1>1. /\ pc[c] = "read" /\ serial' = serial + 1 /\ serial < MaxSerial
      /\ mine' = [mine EXCEPT ![c] = @ \cup {link}]
      /\ pc' = [pc EXCEPT ![c] = "open"]
      /\ UNCHANGED <<rows, lock, tenant, head>>
  BY DEF Insert
<1>2. tenant[c] \in Tenants /\ Holds(c) /\ serial \in Nat /\ DOMAIN mine = Conns
  BY <1>1 DEF LockInv, TypeOK
<1>3. \A d \in Conns \ {c} :
         mine'[d] = mine[d] /\ pc'[d] = pc[d] /\ Visible(d)' = Visible(d)
  BY <1>1, <1>2 DEF Visible, RowsOf, TypeOK
<1>4. mine'[c] = mine[c] \cup {link} /\ pc'[c] = "open"
  BY <1>1, <1>2 DEF TypeOK
<1>5. Visible(c)' = Visible(c) \cup {link}
  BY <1>1, <1>4 DEF Visible, RowsOf
<1>6. TypeOK'
  <2>1. ASSUME NEW e \in rows' \cup UNION {mine'[d] : d \in Conns}
        PROVE  e \in rows \cup UNION {mine[d] : d \in Conns} \/ e = link
    BY <1>1, <1>3, <1>4
  <2>2. ASSUME NEW e \in rows' \cup UNION {mine'[d] : d \in Conns}
        PROVE  e.tenant \in Tenants /\ e.seq \in 1..serial' /\ e.payload \in Payloads
    BY <1>1, <1>2, <2>1 DEF TypeOK
  <2> QED
    BY <1>1, <1>2, <2>2 DEF TypeOK
<1>7. LockInv'
  BY <1>1, <1>2, <1>3, <1>4 DEF LockInv, Holds
<1>8. verified(Visible(c)')
  <2>1. \A f \in Visible(c) : f.seq \in Int /\ f.seq < link.seq
    BY <1>2 DEF Visible, RowsOf, TypeOK
  <2>2. verified(Visible(c)) /\ link.prev = HeadDigest(Visible(c))
    BY <1>1 DEF ChainInv, HeadIsFresh
  <2>3. link.seq \in Int /\ link.digest = digest_for(link.payload, link.prev)
    BY <1>2
  <2>4. verified(Visible(c) \cup {link})
    <3> HIDE DEF link
    <3> QED
      BY <2>1, <2>2, <2>3, Extend
  <2> QED
    BY <1>5, <2>4
<1>9. ChainInv'
  <2>1. ASSUME NEW e \in mine'[c], NEW f \in RowsOf(tenant[c]) PROVE f.seq < e.seq
    BY <1>2, <1>4 DEF ChainInv, RowsOf, TypeOK
  <2> QED
    BY <1>1, <1>3, <1>8, <2>1 DEF ChainInv, RowsOf
<1>10. ChainVerifies' /\ HeadIsFresh'
  BY <1>1, <1>3, <1>4 DEF ChainVerifies, HeadIsFresh, RowsOf
<1> QED
  BY <1>6, <1>7, <1>9, <1>10

LEMMA CommitOK ==
  ASSUME IInv, NEW c \in Conns, Commit(c)
  PROVE  IInv'
<1> USE ConstantsAssumption DEF IInv
<1>1. /\ mine[c] # {} /\ rows' = rows \cup mine[c] /\ serial' = serial
      /\ pc[c] = "open" /\ tenant[c] \in Tenants /\ Holds(c) /\ Release(c)
  BY DEF Commit, LockInv
<1>2. /\ pc'[c] = "idle" /\ tenant'[c] = NoTenant /\ mine'[c] = {}
      /\ \A d \in Conns \ {c} :
           /\ pc'[d] = pc[d] /\ tenant'[d] = tenant[d] /\ mine'[d] = mine[d]
           /\ head'[d] = head[d]
           /\ tenant[d] \in Tenants /\ Holds(d) => Holds(d)'
  BY <1>1 DEF Release, TypeOK, Holds
<1>3. TypeOK'
  BY <1>1, <1>2 DEF TypeOK, Release
<1>4. LockInv'
  BY <1>1, <1>2 DEF LockInv
<1>6. \A t \in Tenants : {e \in rows' : e.tenant = t}
         = IF t = tenant[c] THEN Visible(c) ELSE RowsOf(t)
  BY <1>1 DEF LockInv, Visible, RowsOf
<1>7. ChainVerifies'
  BY <1>6 DEF ChainVerifies, ChainInv, RowsOf
<1>8. ASSUME NEW d \in Conns \ {c}, tenant[d] = tenant[c]
      PROVE  mine[d] = {} /\ pc[d] # "read"
  BY <1>1, <1>8, OneHolder DEF LockInv
<1>9. ASSUME NEW d \in Conns \ {c}, tenant[d] \in Tenants
      PROVE  /\ tenant[d] # tenant[c] => Visible(d)' = Visible(d)
             /\ tenant[d] = tenant[c] => Visible(d)' = Visible(c)
  BY <1>1, <1>2, <1>6, <1>8, <1>9 DEF Visible, RowsOf
<1>10. \A d \in Conns : Visible(d)' = {} \/ (d # c /\ tenant[d] \in Tenants)
  <2>1. ASSUME NEW d \in Conns, tenant'[d] = NoTenant, mine'[d] = {}
        PROVE  Visible(d)' = {}
    BY <2>1, <1>3 DEF Visible, RowsOf, TypeOK
  <2> QED
    BY <1>1, <1>2, <2>1, <1>3 DEF LockInv, TypeOK
<1>11. ChainInv'
  <2>1. \A d \in Conns : verified(Visible(d)')
    BY <1>9, <1>10 DEF ChainInv, verified
  <2>2. ASSUME NEW d \in Conns, NEW e \in mine'[d], NEW f \in RowsOf(tenant[d])'
        PROVE  f.seq < e.seq
    BY <1>1, <1>2, <1>8, <2>2 DEF ChainInv, LockInv, RowsOf
  <2> QED
    BY <1>2, <2>1, <2>2 DEF ChainInv, RowsOf
<1>12. HeadIsFresh'
  BY <1>1, <1>2, <1>8, <1>9 DEF HeadIsFresh, LockInv
<1> QED
  BY <1>3, <1>4, <1>7, <1>11, <1>12

LEMMA Invariance == Spec => []IInv
<1>1. IInv /\ [Next]_vars => IInv'
  <2> SUFFICES ASSUME IInv, [Next]_vars PROVE IInv'
    OBVIOUS
  <2>1. CASE UNCHANGED vars
    BY <2>1 DEF vars, txVars, IInv, TypeOK, LockInv, Holds, ChainInv,
                ChainVerifies, HeadIsFresh, RowsOf, Visible
  <2>2. ASSUME NEW c \in Conns, LockTimeout(c) \/ Rollback(c) PROVE IInv'
    BY <2>2, ReleaseOK DEF LockTimeout, Rollback
  <2> QED
    BY <2>1, <2>2, QuietStepOK, InsertOK, CommitOK DEF Next
<1> QED
  BY InitIInv, <1>1, PTL DEF Spec

\* Committed and uncommitted links, locks and transactions stay well formed.
THEOREM TypeCorrect == Spec => []TypeOK
<1>1. IInv => TypeOK
  BY DEF IInv
<1> QED
  BY Invariance, <1>1, PTL

\* I5: every tenant's chain adds up at every moment (verify_tenant_chain).
THEOREM ChainAddsUp == Spec => []ChainVerifies
<1>1. IInv => ChainVerifies
  BY DEF IInv
<1> QED
  BY Invariance, <1>1, PTL

\* The head a link is computed from is still the head when it lands (append).
THEOREM FreshHeads == Spec => []HeadIsFresh
<1>1. IInv => HeadIsFresh
  BY DEF IInv
<1> QED
  BY Invariance, <1>1, PTL

\* What a reader has verified stays the beginning of the chain: commits come
\* in the order of the sequence, tenant by tenant.
THEOREM CommitsAppend == Spec => CommitsAtTheEnd
<1> DEFINE AtEnd == \A e \in rows' \ rows, f \in rows :
                       e.tenant = f.tenant => f.seq < e.seq
<1>1. IInv /\ [Next]_vars => AtEnd
  <2> SUFFICES ASSUME IInv, [Next]_vars PROVE AtEnd
    OBVIOUS
  <2>1. ASSUME NEW c \in Conns, Commit(c) PROVE AtEnd
    BY <2>1 DEF Commit, IInv, LockInv, ChainInv, RowsOf
  <2>2. ASSUME ~ \E c \in Conns : Commit(c) PROVE UNCHANGED rows
    BY <2>2 DEF Next, Begin, AskLock, Grant, LockTimeout, ReadHead, Insert,
                Rollback, vars
  <2> QED
    BY <2>1, <2>2
<1>2. IInv /\ [Next]_vars => [AtEnd]_vars
  BY <1>1
<1> QED
  BY <1>2, Invariance, PTL DEF Spec, CommitsAtTheEnd
-----------------------------------------------------------------------------
(* The log a reader sees.                                                  *)

Distinct(S) == \A e, f \in S : e.seq = f.seq => e = f

\* seq names one row of a tenant, and one of a transaction's.
SeqInv ==
    /\ IsFiniteSet(rows) /\ \A t \in Tenants : Distinct(RowsOf(t))
    /\ \A c \in Conns : IsFiniteSet(mine[c]) /\ Distinct(mine[c])

LEMMA InitSeqInv == Init => SeqInv
BY FS_EmptySet DEF Init, SeqInv, Distinct, RowsOf

\* Steps other than an insert and a commit only ever clear a transaction.
LEMMA ClearingKeepsSeqs ==
  ASSUME SeqInv, rows' = rows,
         \A c \in Conns : mine'[c] \in {mine[c], {}}
  PROVE  SeqInv'
BY FS_EmptySet DEF SeqInv, Distinct, RowsOf

\* What a commit makes of its tenant's rows, and of the others'.
LEMMA CommitRows ==
  ASSUME IInv, NEW c \in Conns, Commit(c)
  PROVE  /\ tenant[c] \in Tenants /\ mine[c] # {}
         /\ \A e \in mine[c], f \in RowsOf(tenant[c]) : f.seq < e.seq
         /\ \A t \in Tenants :
               RowsOf(t)' = IF t = tenant[c] THEN RowsOf(t) \cup mine[c] ELSE RowsOf(t)
BY DEF Commit, IInv, LockInv, ChainInv, RowsOf

LEMMA StepSeqInv == IInv /\ SeqInv /\ [Next]_vars => SeqInv'
<1> SUFFICES ASSUME IInv, SeqInv, [Next]_vars PROVE SeqInv'
  OBVIOUS
<1>1. DOMAIN mine = Conns
  BY DEF IInv, TypeOK
<1>2. ASSUME NEW c \in Conns,
             \/ \E t \in Tenants : Begin(c, t)
             \/ AskLock(c) \/ Grant(c) \/ ReadHead(c) \/ LockTimeout(c) \/ Rollback(c)
      PROVE  SeqInv'
  <2>1. rows' = rows /\ \A d \in Conns : mine'[d] \in {mine[d], {}}
    BY <1>1, <1>2 DEF Begin, AskLock, Grant, ReadHead, LockTimeout, Rollback, Release
  <2> QED
    BY <2>1, ClearingKeepsSeqs
<1>3. ASSUME NEW c \in Conns, NEW p \in Payloads, Insert(c, p)
      PROVE  SeqInv'
  <2> DEFINE link == [tenant |-> tenant[c], seq |-> serial + 1, payload |-> p,
                      prev |-> head[c], digest |-> digest_for(p, head[c])]
  <2>1. /\ rows' = rows /\ mine' = [mine EXCEPT ![c] = @ \cup {link}]
        /\ link.seq = serial + 1 /\ serial \in Nat
        /\ \A e \in mine[c] : e.seq \in 1..serial
    BY <1>3 DEF Insert, IInv, TypeOK
  <2> HIDE DEF link
  <2>2. IsFiniteSet(mine[c] \cup {link}) /\ Distinct(mine[c])
    BY FS_AddElement DEF SeqInv
  <2>3. Distinct(mine[c] \cup {link})
    BY <2>1, <2>2 DEF Distinct
  <2>4. \A d \in Conns : mine'[d] = IF d = c THEN mine[c] \cup {link} ELSE mine[d]
    BY <1>1, <2>1
  <2> QED
    BY <2>1, <2>2, <2>3, <2>4 DEF SeqInv, RowsOf
<1>4. ASSUME NEW c \in Conns, Commit(c)
      PROVE  SeqInv'
  <2>1. IsFiniteSet(rows') /\ \A d \in Conns : mine'[d] \in {mine[d], {}}
    BY <1>1, <1>4, FS_Union DEF Commit, Release, SeqInv
  <2>2. ASSUME NEW t \in Tenants PROVE Distinct(RowsOf(t)')
    <3>1. CASE t = tenant[c]
      <4>1. \A e \in mine[c], f \in RowsOf(t) : f.seq < e.seq
        BY <1>4, <3>1, CommitRows
      <4>2. \A e \in mine[c] \cup RowsOf(t) : e.seq \in Int
        BY DEF IInv, TypeOK, RowsOf
      <4>3. Distinct(RowsOf(t) \cup mine[c])
        BY <4>1, <4>2 DEF SeqInv, Distinct
      <4> QED
        BY <1>4, <3>1, <4>3, CommitRows
    <3>2. CASE t # tenant[c]
      BY <1>4, <3>2, CommitRows DEF SeqInv
    <3> QED
      BY <3>1, <3>2
  <2>3. \A d \in Conns : IsFiniteSet(mine'[d]) /\ Distinct(mine'[d])
    BY <2>1, FS_EmptySet DEF SeqInv, Distinct
  <2> QED
    BY <2>1, <2>2, <2>3 DEF SeqInv, Distinct
<1>5. CASE UNCHANGED vars
  BY <1>5, ClearingKeepsSeqs DEF vars, txVars
<1> QED
  BY <1>2, <1>3, <1>4, <1>5 DEF Next

\* Rows in the order of seq: one link for each row, whose payload is its own.
LEMMA OrderedRows ==
  ASSUME NEW R, IsFiniteSet(R), Distinct(R),
         \A e \in R : e.seq \in Int /\ e.payload \in Payloads
  PROVE  LET S == {e.seq : e \in R} IN
         /\ S \in SUBSET Int /\ IsFiniteSet(S) /\ Cardinality(S) \in Nat
         /\ InSeqOrder(R) \in Seq(Payloads) /\ Len(InSeqOrder(R)) = Cardinality(S)
         /\ DOMAIN InSeqOrder(R) = 1..Cardinality(S)
         /\ \A k \in 1..Cardinality(S), e \in R :
               e.seq = Ascending(S)[k] => InSeqOrder(R)[k] = e.payload
         /\ \A k \in 1..Cardinality(S) : \E e \in R : e.seq = Ascending(S)[k]
<1> DEFINE S == {e.seq : e \in R}
           seqs == Ascending(S)
<1>1. IsFiniteSet(S) /\ S \in SUBSET Int
  <2>1. [e \in R |-> e.seq] \in Surjection(R, S)
    BY DEF Surjection
  <2> QED
    BY <2>1, FS_Surjection
<1>2. /\ seqs \in Seq(S) /\ Len(seqs) = Cardinality(S) /\ Cardinality(S) \in Nat
      /\ DOMAIN seqs = 1..Cardinality(S)
  <2> HIDE DEF S
  <2> QED
    BY <1>1, AscendingEnumerates
<1>3. InSeqOrder(R) = [i \in DOMAIN seqs |-> (CHOOSE e \in R : e.seq = seqs[i]).payload]
  BY DEF InSeqOrder
<1>4. ASSUME NEW k \in DOMAIN seqs
      PROVE  \E e \in R : e.seq = seqs[k]
  <2>1. seqs[k] \in S
    <3> HIDE DEF S
    <3> QED
      BY <1>2
  <2> QED
    BY <2>1
<1> HIDE DEF S, seqs
<1>5. ASSUME NEW k \in DOMAIN seqs, NEW e \in R, e.seq = seqs[k]
      PROVE  InSeqOrder(R)[k] = e.payload
  <2>1. (CHOOSE f \in R : f.seq = seqs[k]) = e
    BY <1>5 DEF Distinct
  <2> QED
    BY <1>3, <2>1
<1>6. InSeqOrder(R) \in [DOMAIN seqs -> Payloads]
  BY <1>3, <1>4, <1>5
<1>7. DOMAIN InSeqOrder(R) = 1..Cardinality(S) /\ InSeqOrder(R) \in Seq(Payloads)
      /\ Len(InSeqOrder(R)) = Cardinality(S)
  BY <1>2, <1>6
<1> QED
  BY <1>1, <1>2, <1>4, <1>5, <1>7 DEF S, seqs

\* Rows behind all the others come behind them in the log.
LEMMA OrderedBehind ==
  ASSUME NEW R, IsFiniteSet(R), NEW M, IsFiniteSet(M), M # {},
         Distinct(R \cup M),
         \A e \in R \cup M : e.seq \in Int /\ e.payload \in Payloads,
         \A e \in M, f \in R : f.seq < e.seq
  PROVE  /\ InSeqOrder(R) \in Seq(Payloads) /\ InSeqOrder(R \cup M) \in Seq(Payloads)
         /\ Len(InSeqOrder(R)) < Len(InSeqOrder(R \cup M))
         /\ SubSeq(InSeqOrder(R \cup M), 1, Len(InSeqOrder(R))) = InSeqOrder(R)
<1> DEFINE S == {e.seq : e \in R}
           T == {e.seq : e \in M}
           U == {e.seq : e \in R \cup M}
           old == InSeqOrder(R)
           new == InSeqOrder(R \cup M)
<1>0. Distinct(R) /\ Distinct(M)
  BY DEF Distinct
<1>1. /\ S \in SUBSET Int /\ IsFiniteSet(S) /\ Cardinality(S) \in Nat
      /\ old \in Seq(Payloads) /\ Len(old) = Cardinality(S) /\ DOMAIN old = 1..Cardinality(S)
      /\ \A k \in 1..Cardinality(S), e \in R : e.seq = Ascending(S)[k] => old[k] = e.payload
      /\ \A k \in 1..Cardinality(S) : \E e \in R : e.seq = Ascending(S)[k]
  BY <1>0, OrderedRows
<1>2. /\ T \in SUBSET Int /\ IsFiniteSet(T) /\ Cardinality(T) \in Nat
  BY <1>0, OrderedRows
<1>3. /\ U \in SUBSET Int /\ IsFiniteSet(U) /\ Cardinality(U) \in Nat
      /\ new \in Seq(Payloads) /\ Len(new) = Cardinality(U) /\ DOMAIN new = 1..Cardinality(U)
      /\ \A k \in 1..Cardinality(U), e \in R \cup M :
            e.seq = Ascending(U)[k] => new[k] = e.payload
  <2> DEFINE Q == R \cup M
  <2>1. IsFiniteSet(Q) /\ Distinct(Q) /\ \A e \in Q : e.seq \in Int /\ e.payload \in Payloads
    BY FS_Union
  <2> HIDE DEF Q
  <2>2. /\ {e.seq : e \in Q} \in SUBSET Int /\ IsFiniteSet({e.seq : e \in Q})
        /\ Cardinality({e.seq : e \in Q}) \in Nat
        /\ InSeqOrder(Q) \in Seq(Payloads) /\ Len(InSeqOrder(Q)) = Cardinality({e.seq : e \in Q})
        /\ DOMAIN InSeqOrder(Q) = 1..Cardinality({e.seq : e \in Q})
        /\ \A k \in 1..Cardinality({e.seq : e \in Q}), e \in Q :
              e.seq = Ascending({f.seq : f \in Q})[k] => InSeqOrder(Q)[k] = e.payload
    BY <2>1, OrderedRows
  <2> QED
    BY <2>2 DEF Q
<1>4. U = S \cup T /\ T # {} /\ \A x \in S, y \in T : x < y
  OBVIOUS
<1> HIDE DEF S, T, U, old, new
<1>5. /\ Cardinality(U) = Cardinality(S) + Cardinality(T)
      /\ \A k \in 1..Cardinality(S) : Ascending(U)[k] = Ascending(S)[k]
  BY <1>1, <1>2, <1>4, AscendingBehind
<1>6. Cardinality(T) # 0
  BY <1>2, <1>4, FS_EmptySet
<1>7. \A k \in 1..Cardinality(S) : new[k] = old[k]
  BY <1>1, <1>2, <1>3, <1>5
<1>8. SubSeq(new, 1, Len(old)) = old
  BY <1>1, <1>2, <1>3, <1>5, <1>7
<1>9. Len(old) < Len(new)
  BY <1>1, <1>2, <1>3, <1>5, <1>6
<1> QED
  BY <1>1, <1>3, <1>8, <1>9 DEF old, new

\* Read in the order of seq, every tenant's rows are an append-only log: a
\* commit records its links behind the others, and nothing else shows.
THEOREM RecordsOnly == Spec => ImplementsLog
<1> DEFINE log == [t \in Tenants |-> InSeqOrder(RowsOf(t))]
<1>1. Init => Trail!LogInit
  <2> SUFFICES ASSUME Init PROVE log = [t \in Tenants |-> <<>>]
    BY DEF Trail!LogInit
  <2>1. ASSUME NEW t \in Tenants PROVE InSeqOrder(RowsOf(t)) = <<>>
    <3>1. RowsOf(t) = {}
      BY DEF Init, RowsOf
    <3>2. {e.seq : e \in {}} = {} /\ Cardinality({}) = 0 /\ IsFiniteSet({}) /\ Distinct({})
      BY FS_EmptySet DEF Distinct
    <3>3. InSeqOrder({}) \in Seq(Payloads) /\ Len(InSeqOrder({})) = 0
      BY <3>2, OrderedRows
    <3> QED
      BY <3>1, <3>3
  <2> QED
    BY <2>1
<1>2. ASSUME IInv, SeqInv, [Next]_vars
      PROVE  [\E t \in Tenants : Trail!Record(t)]_log
  <2>1. CASE \E c \in Conns : Commit(c)
    <3>1. PICK c \in Conns : Commit(c)
      BY <2>1
    <3>2. PICK t \in Tenants : t = tenant[c]
      BY <1>2, <3>1, CommitRows
    <3> DEFINE R == RowsOf(t)
               M == mine[c]
    <3>3. /\ M # {} /\ IsFiniteSet(M) /\ IsFiniteSet(R) /\ Distinct(R) /\ Distinct(M)
          /\ \A e \in M, f \in R : f.seq < e.seq
          /\ \A e \in R \cup M : e.seq \in Int /\ e.payload \in Payloads
      <4>1. R \in SUBSET rows
        BY DEF RowsOf
      <4>2. IsFiniteSet(R)
        BY <1>2, <4>1, FS_Subset DEF SeqInv
      <4> QED
        BY <1>2, <3>1, <3>2, <4>2, CommitRows DEF SeqInv, RowsOf, IInv, TypeOK
    <3>4. Distinct(R \cup M)
      BY <3>3 DEF Distinct
    <3>5. /\ InSeqOrder(R) \in Seq(Payloads) /\ InSeqOrder(R \cup M) \in Seq(Payloads)
          /\ Len(InSeqOrder(R)) < Len(InSeqOrder(R \cup M))
          /\ SubSeq(InSeqOrder(R \cup M), 1, Len(InSeqOrder(R))) = InSeqOrder(R)
      <4> HIDE DEF R, M
      <4> QED
        BY <3>3, <3>4, OrderedBehind
    <3>6. \A u \in Tenants : RowsOf(u)' = IF u = t THEN R \cup M ELSE RowsOf(u)
      BY <1>2, <3>1, <3>2, CommitRows
    <3>7. log' = [log EXCEPT ![t] = InSeqOrder(R \cup M)] /\ log'[t] = InSeqOrder(R \cup M)
          /\ log[t] = InSeqOrder(R)
      BY <3>6
    <3>8. Trail!Record(t)
      <4> HIDE DEF R, M
      <4> QED
        BY <3>5, <3>7 DEF Trail!Record
    <3> QED
      BY <3>8
  <2>2. CASE ~ \E c \in Conns : Commit(c)
    <3>1. rows' = rows
      BY <1>2, <2>2 DEF Next, Begin, AskLock, Grant, LockTimeout, ReadHead, Insert,
                        Rollback, vars
    <3> QED
      BY <3>1 DEF RowsOf
  <2> QED
    BY <2>1, <2>2
<1>3. Spec => []SeqInv
  BY InitSeqInv, StepSeqInv, Invariance, PTL DEF Spec
<1>4. IInv /\ SeqInv /\ [Next]_vars => [\E t \in Tenants : Trail!Record(t)]_log
  BY <1>2
<1> QED
  BY <1>1, <1>3, <1>4, Invariance, PTL DEF Spec, ImplementsLog, Trail!LogSpec

-----------------------------------------------------------------------------
\* A transaction holds no lock but its own tenant's, and none before it began.
OwnLock == \A c \in Conns, k \in Keys :
    lock[k] = c => pc[c] # "idle" /\ HashText[tenant[c]] = k

LEMMA StepOwnLock == IInv /\ OwnLock /\ [Next]_vars => OwnLock'
<1> SUFFICES ASSUME IInv, OwnLock, [Next]_vars PROVE OwnLock'
  OBVIOUS
<1> USE ConstantsAssumption DEF IInv, TypeOK, LockInv, OwnLock
<1>1. ASSUME NEW c \in Conns, NEW t \in Tenants, Begin(c, t)
      PROVE  OwnLock'
  BY <1>1 DEF Begin
<1>2. ASSUME NEW c \in Conns, AskLock(c) \/ ReadHead(c) \/ \E p \in Payloads : Insert(c, p)
      PROVE  OwnLock'
  BY <1>2 DEF AskLock, ReadHead, Insert
<1>3. ASSUME NEW c \in Conns, Grant(c)
      PROVE  OwnLock'
  BY <1>3 DEF Grant
<1>4. ASSUME NEW c \in Conns, LockTimeout(c) \/ Commit(c) \/ Rollback(c)
      PROVE  OwnLock'
  BY <1>4 DEF LockTimeout, Commit, Rollback, Release
<1>5. CASE UNCHANGED vars
  BY <1>5 DEF vars, txVars
<1> QED
  BY <1>1, <1>2, <1>3, <1>4, <1>5 DEF Next

\* However many transactions share however few locks, none that is in another's
\* way is itself waiting for a third (append inside tenant_transaction).
THEOREM NobodyInACircle == Spec => []HoldersRunOn
<1>1. Init => OwnLock
  BY ConstantsAssumption DEF Init, OwnLock
<1>2. IInv /\ OwnLock => HoldersRunOn
  <2> SUFFICES ASSUME IInv, OwnLock, NEW c \in Conns, NEW d \in Conns, d \in WaitsFor(c)
               PROVE  WaitsFor(d) = {}
    BY DEF HoldersRunOn
  <2>1. tenant[c] \in Tenants /\ lock[HashText[tenant[c]]] = d
    BY DEF WaitsFor, IInv, LockInv
  <2>2. HashText[tenant[c]] \in Keys
    BY <2>1, ConstantsAssumption
  <2>3. HashText[tenant[d]] = HashText[tenant[c]]
    BY <2>1, <2>2 DEF OwnLock
  <2> QED
    BY <2>1, <2>3 DEF WaitsFor
<1> QED
  BY <1>1, <1>2, StepOwnLock, Invariance, PTL DEF Spec
=============================================================================
