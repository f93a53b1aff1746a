------------------------- MODULE OutboxRelayProofs -------------------------
(***************************************************************************)
(* What holds of the relay for any number of assertions and passes, any    *)
(* batch size, cap and choice of poisoned or refused events.               *)
(***************************************************************************)
EXTENDS OutboxRelay, FiniteSetTheorems, TLAPS

(* What a pass knows at each of its awaits.  The cap, the reveal and the    *)
(* link all rest on it: a pass that reached `complete` holds an event that  *)
(* could be loaded, and its edge is there.                                  *)
PassesOK == \A r \in Relays :
    /\ batch[r] \subseteq queued
    /\ pc[r] = "idle" => batch[r] = {}
    /\ pc[r] \in {"upsert", "complete"} =>
          cur[r] \in batch[r] \ Poison /\ image[r] # "none"
    /\ pc[r] = "complete" => cur[r] \notin Rejected /\ edge[cur[r]] # "none"

IInv == TypeOK /\ PassesOK

LEMMA InitIInv == Init => IInv
BY ConstantsAssumption DEF Init, IInv, TypeOK, PassesOK, Edges, Steps

LEMMA StepTypeOK == IInv /\ [Next]_vars => TypeOK'
<1> SUFFICES ASSUME IInv, [Next]_vars PROVE TypeOK'
  OBVIOUS
<1> USE ConstantsAssumption DEF IInv, TypeOK, Edges, Steps
<1>1. ASSUME NEW S \in (SUBSET Assertions) \ {{}}, NEW stamp \in Stamps,
             Upsert(S, stamp)
      PROVE  TypeOK'
  BY <1>1 DEF Upsert, queueVars, graphVars, relayVars
<1>2. ASSUME NEW a \in Assertions, Supersede(a) PROVE TypeOK'
  BY <1>2 DEF Supersede, queueVars, graphVars, relayVars
<1>3. CASE LoseGraph
  BY <1>3 DEF LoseGraph, rowVars, queueVars
<1>4. ASSUME NEW r \in Relays, Claim(r) PROVE TypeOK'
  <2>1. PICK B \in SUBSET Claimable :
           /\ attempts' = [a \in Assertions |->
                             IF a \in B THEN attempts[a] + 1 ELSE attempts[a]]
           /\ batch' = [batch EXCEPT ![r] = B]
           /\ pc' = [pc EXCEPT ![r] = "next"]
    BY <1>4 DEF Claim
  <2>2. \A a \in B : a \in Assertions /\ attempts[a] < MaxAttempts
    BY DEF Claimable
  <2>3. attempts' \in [Assertions -> 0..MaxAttempts]
    BY <2>1, <2>2
  <2> QED
    BY <1>4, <2>1, <2>2, <2>3 DEF Claim, rowVars, graphVars
<1>5. ASSUME NEW r \in Relays, NEW a \in Assertions, Load(r, a) PROVE TypeOK'
  BY <1>5 DEF Load, Loaded, rowVars, queueVars, graphVars
<1>6. ASSUME NEW r \in Relays, NEW a \in Assertions, LoadNothing(r, a)
      PROVE TypeOK'
  BY <1>6 DEF LoadNothing, Continue, rowVars, queueVars, graphVars
<1>7. ASSUME NEW r \in Relays, UpsertEdge(r) PROVE TypeOK'
  BY <1>7 DEF UpsertEdge, rowVars, queueVars
<1>8. ASSUME NEW r \in Relays, UpsertUnavailable(r) PROVE TypeOK'
  BY <1>8 DEF UpsertUnavailable, Continue, rowVars, queueVars
<1>9. ASSUME NEW r \in Relays, UpsertRejected(r) PROVE TypeOK'
  BY <1>9 DEF UpsertRejected, Continue, rowVars, queueVars, graphVars
<1>10. ASSUME NEW r \in Relays, Complete(r) PROVE TypeOK'
  BY <1>10 DEF Complete, PassesOK, Continue, graphVars
<1>11. ASSUME NEW r \in Relays, Die(r) PROVE TypeOK'
  BY <1>11 DEF Die, Continue, rowVars, queueVars, graphVars
<1>12. CASE UNCHANGED vars
  BY <1>12 DEF vars, rowVars, queueVars, graphVars, relayVars
<1> QED
  BY <1>1, <1>2, <1>3, <1>4, <1>5, <1>6, <1>7, <1>8, <1>9, <1>10, <1>11, <1>12
     DEF Next, Writer, Step

(* A pass that goes on to its next event, or ends, keeps every pass in      *)
(* order as long as no edge disappears meanwhile.                           *)
LEMMA ContinueOK ==
  ASSUME IInv, NEW r \in Relays, NEW rest \in SUBSET batch[r],
         Continue(r, rest), UNCHANGED queued,
         \A a \in Assertions : edge[a] # "none" => edge'[a] # "none"
  PROVE  PassesOK'
<1>1. ASSUME NEW s \in Relays \ {r}
      PROVE  batch'[s] = batch[s] /\ pc'[s] = pc[s] /\ cur'[s] = cur[s]
             /\ image'[s] = image[s]
  BY DEF Continue, IInv, TypeOK
<1>2. batch'[r] = rest /\ pc'[r] = (IF rest = {} THEN "idle" ELSE "next")
  BY DEF Continue, IInv, TypeOK
<1>3. \A s \in Relays : pc[s] = "complete" => cur[s] \in Assertions
  BY DEF IInv, TypeOK, PassesOK
<1> QED
  BY <1>1, <1>2, <1>3 DEF IInv, PassesOK

LEMMA StepPassesOK == IInv /\ [Next]_vars => PassesOK'
<1> SUFFICES ASSUME IInv, [Next]_vars PROVE PassesOK'
  OBVIOUS
<1>0. TypeOK'
  BY StepTypeOK
<1>a. \A s \in Relays : pc[s] \in {"upsert", "complete"} => cur[s] \in Assertions
  BY DEF IInv, TypeOK, PassesOK
<1>1. ASSUME NEW S \in (SUBSET Assertions) \ {{}}, NEW stamp \in Stamps,
             Upsert(S, stamp)
      PROVE  PassesOK'
  BY <1>1 DEF Upsert, IInv, PassesOK, queueVars, graphVars, relayVars
<1>2. ASSUME NEW a \in Assertions, Supersede(a) PROVE PassesOK'
  BY <1>2 DEF Supersede, IInv, PassesOK, queueVars, graphVars, relayVars
<1>3. CASE LoseGraph
  BY <1>3 DEF LoseGraph, IInv, PassesOK, rowVars, queueVars
<1>4. ASSUME NEW r \in Relays, Claim(r) PROVE PassesOK'
  <2>1. PICK B \in SUBSET Claimable :
           /\ batch' = [batch EXCEPT ![r] = B]
           /\ pc' = [pc EXCEPT ![r] = "next"]
    BY <1>4 DEF Claim
  <2>2. B \subseteq queued
    BY DEF Claimable
  <2> QED
    BY <1>4, <2>1, <2>2 DEF Claim, IInv, TypeOK, PassesOK, rowVars, graphVars
<1>5. ASSUME NEW r \in Relays, NEW a \in Assertions, Load(r, a) PROVE PassesOK'
  BY <1>5 DEF Load, Loaded, IInv, TypeOK, PassesOK, rowVars, queueVars, graphVars
<1>6. ASSUME NEW r \in Relays, NEW a \in Assertions, LoadNothing(r, a)
      PROVE PassesOK'
  BY <1>6, ContinueOK DEF LoadNothing, queueVars, graphVars
<1>7. ASSUME NEW r \in Relays, UpsertEdge(r) PROVE PassesOK'
  BY <1>a, <1>7 DEF UpsertEdge, IInv, TypeOK, PassesOK, rowVars, queueVars
<1>8. ASSUME NEW r \in Relays, UpsertUnavailable(r) PROVE PassesOK'
  <2>1. \A a \in Assertions : edge[a] # "none" => edge'[a] # "none"
    BY <1>a, <1>8 DEF UpsertUnavailable, IInv, TypeOK, PassesOK
  <2> QED
    BY <1>8, <2>1, ContinueOK DEF UpsertUnavailable, queueVars
<1>9. ASSUME NEW r \in Relays, UpsertRejected(r) PROVE PassesOK'
  BY <1>9, ContinueOK DEF UpsertRejected, queueVars, graphVars
<1>10. ASSUME NEW r \in Relays, Complete(r) PROVE PassesOK'
  BY <1>10, ContinueOK DEF Complete, graphVars
<1>11. ASSUME NEW r \in Relays, Die(r) PROVE PassesOK'
  BY <1>11, ContinueOK DEF Die, queueVars, graphVars
<1>12. CASE UNCHANGED vars
  BY <1>12 DEF vars, IInv, PassesOK, queueVars, graphVars, relayVars
<1> QED
  BY <1>1, <1>2, <1>3, <1>4, <1>5, <1>6, <1>7, <1>8, <1>9, <1>10, <1>11, <1>12
     DEF Next, Writer, Step

LEMMA Invariance == Spec => []IInv
<1>1. IInv /\ [Next]_vars => IInv'
  BY StepTypeOK, StepPassesOK DEF IInv
<1> QED
  BY InitIInv, <1>1, PTL DEF Spec

\* The state is well formed whatever the passes do; in particular no event is
\* ever claimed beyond the cap (CLAIM_OUTBOX).
THEOREM TypeCorrect == Spec => []TypeOK
<1>1. IInv => TypeOK
  BY DEF IInv
<1> QED
  BY Invariance, <1>1, PTL

-----------------------------------------------------------------------------
(* Only one step shows anything to a reader, and this is what it knows.     *)

Reveals(r) ==
    /\ cur[r] \in queued \ (Poison \cup Rejected)
    /\ edge[cur[r]] # "none"
    /\ visible' = visible \cup {cur[r]}
    /\ dispatched' = [dispatched EXCEPT
                        ![cur[r]] = IF @ = NotYet THEN r ELSE @]
    /\ UNCHANGED <<stored, retired, queued, edge>>

LEMMA RevealStep ==
  ASSUME IInv, [Next]_vars
  PROVE  \/ UNCHANGED <<visible, dispatched>>
         \/ \E r \in Relays : Reveals(r)
<1>1. ASSUME NEW r \in Relays, Complete(r) PROVE Reveals(r)
  BY <1>1 DEF Complete, Reveals, IInv, PassesOK, graphVars
<1>2. ASSUME NEW r \in Relays,
             Claim(r) \/ UpsertEdge(r) \/ UpsertUnavailable(r)
               \/ UpsertRejected(r) \/ Die(r)
      PROVE  UNCHANGED <<visible, dispatched>>
  BY <1>2 DEF Claim, UpsertEdge, UpsertUnavailable, UpsertRejected, Die,
              rowVars, queueVars
<1>3. ASSUME NEW r \in Relays, NEW a \in Assertions,
             Load(r, a) \/ LoadNothing(r, a)
      PROVE  UNCHANGED <<visible, dispatched>>
  BY <1>3 DEF Load, LoadNothing, rowVars, queueVars
<1>4. CASE Writer \/ LoseGraph
  BY <1>4 DEF Writer, Upsert, Supersede, LoseGraph, rowVars, queueVars
<1> QED
  BY <1>1, <1>2, <1>3, <1>4 DEF Next, Step, vars, rowVars, queueVars

\* Revealing a row and closing its event are one decision, for every
\* interleaving of passes: no visible row is pending, no closed event hides
\* its row (_complete).
THEOREM RevealCompletes == Spec => []RevealIsCompletion
<1>1. Init => RevealIsCompletion
  BY DEF Init, RevealIsCompletion
<1>2. IInv /\ RevealIsCompletion /\ [Next]_vars => RevealIsCompletion'
  <2> SUFFICES ASSUME IInv, RevealIsCompletion, [Next]_vars
               PROVE  RevealIsCompletion'
    OBVIOUS
  <2>1. CASE UNCHANGED <<visible, dispatched>>
    BY <2>1 DEF RevealIsCompletion
  <2>2. ASSUME NEW r \in Relays, Reveals(r) PROVE RevealIsCompletion'
    <3>1. cur[r] \in Assertions /\ r # NotYet
      BY <2>2, ConstantsAssumption DEF Reveals, IInv, TypeOK
    <3>2. \A a \in Assertions :
             (dispatched'[a] # NotYet) <=> (a = cur[r] \/ dispatched[a] # NotYet)
      BY <2>2, <3>1 DEF Reveals, IInv, TypeOK
    <3> QED
      BY <2>2, <3>1, <3>2 DEF Reveals, RevealIsCompletion
  <2> QED
    BY <2>1, <2>2, RevealStep
<1> QED
  BY <1>1, <1>2, Invariance, PTL DEF Spec

\* An event under another tenant, or one the graph refuses, reveals nothing.
THEOREM PoisonHidden == Spec => []PoisonStaysHidden
<1>1. Init => PoisonStaysHidden
  BY DEF Init, PoisonStaysHidden
<1>2. IInv /\ PoisonStaysHidden /\ [Next]_vars => PoisonStaysHidden'
  BY RevealStep DEF Reveals, PoisonStaysHidden
<1> QED
  BY <1>1, <1>2, Invariance, PTL DEF Spec

\* A row and its event are written together or not at all, for every batch of
\* writes and replays (upsert, write_in).
THEOREM OwedTheorem == Spec => []StoredIsOwed
<1>1. Init => StoredIsOwed
  BY DEF Init, StoredIsOwed
<1>2. StoredIsOwed /\ [Next]_vars => StoredIsOwed'
  <2> SUFFICES ASSUME StoredIsOwed, [Next]_vars PROVE StoredIsOwed'
    OBVIOUS
  <2>1. CASE Writer
    BY <2>1 DEF Writer, Upsert, Supersede, StoredIsOwed, queueVars
  <2>2. ASSUME NEW r \in Relays, Claim(r) \/ Step(r) \/ Die(r)
        PROVE  UNCHANGED <<stored, queued>>
    BY <2>2 DEF Claim, Step, Load, LoadNothing, UpsertEdge, UpsertUnavailable,
                UpsertRejected, Complete, Die, rowVars, queueVars
  <2>3. CASE LoseGraph \/ UNCHANGED vars
    BY <2>3 DEF LoseGraph, vars, StoredIsOwed, rowVars, queueVars
  <2> QED
    BY <2>1, <2>2, <2>3 DEF Next, StoredIsOwed
<1> QED
  BY <1>1, <1>2, PTL DEF Spec

\* A pass reveals a fact only while its edge is there, even over a graph that
\* may lose everything at any moment (_dispatch, _complete).
THEOREM RevealsFollow == Spec => RevealFollowsLink
<1>1. IInv /\ [Next]_vars => \A a \in visible' \ visible : edge[a] # "none"
  BY RevealStep DEF Reveals
<1>2. IInv /\ [Next]_vars => [\A a \in visible' \ visible : edge[a] # "none"]_vars
  BY <1>1
<1> QED
  BY <1>2, Invariance, PTL DEF Spec, RevealFollowsLink

LEMMA EdgeStep ==
  ASSUME MaxRestarts = 0, IInv, [Next]_vars, NEW a \in Assertions
  PROVE  edge[a] # "none" => edge'[a] # "none"
<1>1. ~ LoseGraph
  BY DEF LoseGraph, IInv, TypeOK
<1>2. ASSUME NEW r \in Relays, UpsertEdge(r) \/ UpsertUnavailable(r)
      PROVE  edge[a] # "none" => edge'[a] # "none"
  BY <1>2 DEF UpsertEdge, UpsertUnavailable, IInv, TypeOK, PassesOK
<1>3. ASSUME NEW r \in Relays,
             Claim(r) \/ UpsertRejected(r) \/ Complete(r) \/ Die(r)
      PROVE  UNCHANGED edge
  BY <1>3 DEF Claim, UpsertRejected, Complete, Die, graphVars
<1>4. ASSUME NEW r \in Relays, NEW b \in Assertions,
             Load(r, b) \/ LoadNothing(r, b)
      PROVE  UNCHANGED edge
  BY <1>4 DEF Load, LoadNothing, graphVars
<1>5. CASE Writer \/ UNCHANGED vars
  BY <1>5 DEF Writer, Upsert, Supersede, vars, graphVars
<1> QED
  BY <1>1, <1>2, <1>3, <1>4, <1>5 DEF Next, Step

\* Over a graph that keeps what it was given, no reader of visible rows ever
\* meets a fact without its edge.
THEOREM LinkedReads == MaxRestarts = 0 /\ Spec => []NoUnlinkedRead
<1>1. Init => NoUnlinkedRead
  BY DEF Init, NoUnlinkedRead
<1>2. MaxRestarts = 0 /\ IInv /\ NoUnlinkedRead /\ [Next]_vars => NoUnlinkedRead'
  <2> SUFFICES ASSUME MaxRestarts = 0, IInv, NoUnlinkedRead, [Next]_vars
               PROVE  NoUnlinkedRead'
    OBVIOUS
  <2>1. \A a \in Assertions : edge[a] # "none" => edge'[a] # "none"
    BY EdgeStep
  <2>2. visible \subseteq Assertions /\ queued \subseteq Assertions
    BY DEF IInv, TypeOK
  <2> QED
    BY <2>1, <2>2, RevealStep DEF Reveals, NoUnlinkedRead
<1>3. CASE MaxRestarts = 0
  BY <1>1, <1>2, <1>3, Invariance, PTL DEF Spec
<1>4. CASE MaxRestarts # 0
  BY <1>4
<1> QED
  BY <1>3, <1>4

\* The first completion of an event is the one on record, however many passes
\* complete it (MARK_DISPATCHED).
THEOREM FirstStands == Spec => FirstCompletionStands
<1> DEFINE Kept == \A a \in Assertions :
                      dispatched[a] # NotYet => dispatched'[a] = dispatched[a]
<1>1. IInv /\ [Next]_vars => Kept
  <2> SUFFICES ASSUME IInv, [Next]_vars PROVE Kept
    OBVIOUS
  <2>1. ASSUME NEW r \in Relays, Reveals(r) PROVE Kept
    BY <2>1 DEF Reveals, IInv, TypeOK
  <2> QED
    BY <2>1, RevealStep
<1>2. IInv /\ [Next]_vars => [Kept]_vars
  BY <1>1
<1> QED
  BY <1>2, Invariance, PTL DEF Spec, FirstCompletionStands

\* No step un-reveals or un-retires a row, whatever is replayed on it.
THEOREM NothingResurrected == Spec => NoResurrection
<1> DEFINE Grows == visible \subseteq visible' /\ retired \subseteq retired'
<1>1. IInv /\ [Next]_vars => Grows
  <2> SUFFICES ASSUME IInv, [Next]_vars PROVE Grows
    OBVIOUS
  <2>1. visible \subseteq visible'
    BY RevealStep DEF Reveals
  <2>2. CASE Writer \/ LoseGraph \/ UNCHANGED vars
    BY <2>1, <2>2 DEF Writer, Upsert, Supersede, LoseGraph, vars, rowVars
  <2>3. ASSUME NEW r \in Relays, Claim(r) \/ Step(r) \/ Die(r)
        PROVE  UNCHANGED retired
    BY <2>3 DEF Claim, Step, Load, LoadNothing, UpsertEdge, UpsertUnavailable,
                UpsertRejected, Complete, Die, rowVars
  <2> QED
    BY <2>1, <2>2, <2>3 DEF Next
<1>2. IInv /\ [Next]_vars => [Grows]_vars
  BY <1>1
<1> QED
  BY <1>2, Invariance, PTL DEF Spec, NoResurrection

-----------------------------------------------------------------------------
(* Attempts.  A claim adds one holder and counts one attempt; every other   *)
(* step only lets go.                                                       *)

Holders(a) == {r \in Relays : a \in batch[r]}

LEMMA FewerHolders ==
  ASSUME NEW a, AttemptsCoverHolders, a \in Assertions, UNCHANGED attempts,
         \A r \in Relays : a \in batch'[r] => a \in batch[r],
         attempts[a] \in Nat
  PROVE  Cardinality({r \in Relays : a \in batch'[r]}) <= attempts'[a]
<1> DEFINE H == {r \in Relays : a \in batch[r]}
           H1 == {r \in Relays : a \in batch'[r]}
<1>1. IsFiniteSet(H) /\ H1 \subseteq H
  BY FS_Subset, ConstantsAssumption
<1>2. Cardinality(H1) <= Cardinality(H) /\ Cardinality(H1) \in Nat
      /\ Cardinality(H) \in Nat
  BY <1>1, FS_Subset, FS_CardinalityType
<1>3. Cardinality(H) <= attempts[a]
  BY DEF AttemptsCoverHolders
<1> QED
  BY <1>2, <1>3

LEMMA ClaimHolders ==
  ASSUME TypeOK, AttemptsCoverHolders, NEW r \in Relays, Claim(r)
  PROVE  AttemptsCoverHolders'
<1>1. PICK B \in SUBSET Assertions :
         /\ attempts' = [a \in Assertions |->
                           IF a \in B THEN attempts[a] + 1 ELSE attempts[a]]
         /\ batch' = [batch EXCEPT ![r] = B]
  <2>1. Claimable \subseteq Assertions
    BY DEF Claimable, TypeOK
  <2> QED
    BY <2>1 DEF Claim
<1> SUFFICES ASSUME NEW a \in Assertions
             PROVE  Cardinality({s \in Relays : a \in batch'[s]}) <= attempts'[a]
  BY DEF AttemptsCoverHolders
<1> DEFINE H == {s \in Relays : a \in batch[s]}
           H1 == {s \in Relays : a \in batch'[s]}
<1>2. IsFiniteSet(H) /\ Cardinality(H) \in Nat /\ Cardinality(H) <= attempts[a]
      /\ attempts[a] \in Nat
  BY FS_Subset, FS_CardinalityType, ConstantsAssumption
     DEF AttemptsCoverHolders, TypeOK
<1>3. CASE a \in B
  <2>1. H1 \subseteq H \cup {r}
    BY <1>1 DEF TypeOK
  <2>2. IsFiniteSet(H \cup {r}) /\ Cardinality(H \cup {r}) \in Nat
        /\ Cardinality(H \cup {r}) <= Cardinality(H) + 1
    <3>1. IsFiniteSet(H)
      BY <1>2
    <3> HIDE DEF H
    <3>2. IsFiniteSet(H \cup {r})
          /\ Cardinality(H \cup {r})
               = IF r \in H THEN Cardinality(H) ELSE Cardinality(H) + 1
      BY <3>1, FS_AddElement
    <3> QED
      BY <1>2, <3>2
  <2>3. Cardinality(H1) <= Cardinality(H \cup {r}) /\ Cardinality(H1) \in Nat
    BY <2>1, <2>2, FS_Subset, FS_CardinalityType
  <2>4. attempts'[a] = attempts[a] + 1
    BY <1>1, <1>3
  <2> QED
    BY <1>2, <2>2, <2>3, <2>4
<1>4. CASE a \notin B
  <2>1. H1 \subseteq H
    BY <1>1, <1>4 DEF TypeOK
  <2>2. Cardinality(H1) <= Cardinality(H) /\ Cardinality(H1) \in Nat
    BY <1>2, <2>1, FS_Subset, FS_CardinalityType
  <2>3. attempts'[a] = attempts[a]
    BY <1>1, <1>4
  <2>4. Cardinality(H1) <= attempts'[a]
    BY <1>2, <2>2, <2>3
  <2> QED
    BY <2>4
<1> QED
  BY <1>3, <1>4

\* However many passes hold an event at once, each of them has been counted:
\* a pass that dies anywhere has left evidence that it tried (_claim).
THEOREM AttemptsCover == Spec => []AttemptsCoverHolders
<1>1. Init => AttemptsCoverHolders
  <2> SUFFICES ASSUME Init, NEW a \in Assertions
               PROVE  Cardinality({r \in Relays : a \in batch[r]}) <= attempts[a]
    BY DEF AttemptsCoverHolders
  <2>1. {r \in Relays : a \in batch[r]} = {} /\ attempts[a] = 0
    BY DEF Init
  <2> QED
    BY <2>1, FS_EmptySet
<1>2. IInv /\ AttemptsCoverHolders /\ [Next]_vars => AttemptsCoverHolders'
  <2> SUFFICES ASSUME IInv, AttemptsCoverHolders, [Next]_vars
               PROVE  AttemptsCoverHolders'
    OBVIOUS
  <2> DEFINE LetsGo == /\ UNCHANGED attempts
                       /\ \A a \in Assertions, r \in Relays :
                            a \in batch'[r] => a \in batch[r]
  <2>1. ASSUME LetsGo PROVE AttemptsCoverHolders'
    <3>1. \A a \in Assertions : attempts[a] \in Nat
      BY DEF IInv, TypeOK
    <3> QED
      BY <2>1, <3>1, FewerHolders DEF AttemptsCoverHolders
  <2>2. CASE Writer \/ LoseGraph \/ UNCHANGED vars
    <3>1. LetsGo
      BY <2>2 DEF Writer, Upsert, Supersede, LoseGraph, vars, queueVars, relayVars
    <3> QED
      BY <2>1, <3>1
  <2>3. ASSUME NEW r \in Relays, Claim(r) PROVE AttemptsCoverHolders'
    BY <2>3, ClaimHolders DEF IInv
  <2>4. ASSUME NEW r \in Relays, NEW rest \in SUBSET batch[r],
               Continue(r, rest), UNCHANGED attempts
        PROVE  LetsGo
    BY <2>4 DEF Continue, IInv, TypeOK
  <2>5. ASSUME NEW r \in Relays, NEW a \in Assertions,
               Load(r, a) \/ LoadNothing(r, a)
        PROVE  LetsGo
    BY <2>4, <2>5 DEF Load, LoadNothing, queueVars
  <2>6. ASSUME NEW r \in Relays, UpsertEdge(r) PROVE LetsGo
    BY <2>6 DEF UpsertEdge, queueVars
  <2>7. ASSUME NEW r \in Relays,
               UpsertUnavailable(r) \/ UpsertRejected(r) \/ Complete(r) \/ Die(r)
        PROVE  LetsGo
    BY <2>4, <2>7 DEF UpsertUnavailable, UpsertRejected, Complete, Die, queueVars
  <2> QED
    BY <2>1, <2>2, <2>3, <2>5, <2>6, <2>7 DEF Next, Step
<1> QED
  BY <1>1, <1>2, Invariance, PTL DEF Spec

-----------------------------------------------------------------------------
(* The relay implements the dual write it was built for.                    *)

Fact == [a \in Assertions |->
           IF a \notin stored THEN "absent"
           ELSE IF a \in visible THEN "readable" ELSE "pending"]
Linked == {a \in Assertions : edge[a] # "none"}

MapInv == IInv /\ StoredIsOwed /\ visible \subseteq stored

LEMMA MapInvariance == Spec => []MapInv
<1>1. IInv /\ StoredIsOwed /\ visible \subseteq stored /\ [Next]_vars
        => (visible \subseteq stored)'
  <2> SUFFICES ASSUME IInv, StoredIsOwed, visible \subseteq stored, [Next]_vars
               PROVE  visible' \subseteq stored'
    OBVIOUS
  <2>1. stored \subseteq stored'
    <3>1. CASE Writer \/ LoseGraph \/ UNCHANGED vars
      BY <3>1 DEF Writer, Upsert, Supersede, LoseGraph, vars, rowVars
    <3>2. ASSUME NEW r \in Relays, Claim(r) \/ Step(r) \/ Die(r)
          PROVE  UNCHANGED stored
      BY <3>2 DEF Claim, Step, Load, LoadNothing, UpsertEdge, UpsertUnavailable,
                  UpsertRejected, Complete, Die, rowVars
    <3> QED
      BY <3>1, <3>2 DEF Next
  <2> QED
    BY <2>1, RevealStep DEF Reveals, StoredIsOwed
<1>2. Init => visible \subseteq stored
  BY DEF Init
<1> QED
  BY <1>1, <1>2, Invariance, OwedTheorem, PTL DEF Spec, MapInv

\* UpsertEdge, or an upsert whose answer was lost.
LEMMA LinkStep ==
  ASSUME MapInv, NEW r \in Relays, pc[r] = "upsert",
         edge' = [edge EXCEPT ![cur[r]] = image[r]],
         UNCHANGED <<stored, visible, retired>>
  PROVE  DW!DWNext
<1>1. cur[r] \in Assertions /\ cur[r] \in stored /\ image[r] # "none"
  BY DEF MapInv, IInv, TypeOK, PassesOK, StoredIsOwed
<1>2. Linked' = Linked \cup {cur[r]}
  BY <1>1 DEF Linked, MapInv, IInv, TypeOK
<1>3. Fact' = Fact /\ Fact[cur[r]] # "absent"
  BY <1>1 DEF Fact
<1>4. DW!Link(cur[r])
  BY <1>2, <1>3 DEF DW!Link, Fact, Linked
<1> QED
  BY <1>1, <1>4 DEF DW!DWNext, DW!Link

LEMMA PublishStep ==
  ASSUME MapInv, NEW r \in Relays, Reveals(r)
  PROVE  DW!DWNext \/ UNCHANGED DW!dwvars
<1>1. cur[r] \in Assertions /\ cur[r] \in stored /\ cur[r] \in Linked
  BY DEF MapInv, IInv, TypeOK, Reveals, Linked, StoredIsOwed
<1>2. Linked' = Linked /\ retired' = retired
  BY DEF Linked, Reveals
<1>3. CASE cur[r] \in visible
  <2>1. Fact' = Fact
    BY <1>3 DEF Fact, Reveals
  <2> QED
    BY <1>2, <2>1 DEF DW!dwvars, Fact, Linked
<1>4. CASE cur[r] \notin visible
  <2>1. Fact[cur[r]] = "pending" /\ Fact' = [Fact EXCEPT ![cur[r]] = "readable"]
    BY <1>1, <1>4 DEF Fact, Reveals
  <2>2. DW!Publish(cur[r])
    BY <1>1, <1>2, <2>1 DEF DW!Publish, Fact, Linked
  <2> QED
    BY <1>1, <2>2 DEF DW!DWNext, DW!Publish
<1> QED
  BY <1>3, <1>4

\* Over a durable graph every step of the relay, the writers and the faults is
\* a step of the reader's view (DualWrite) or none at all.
THEOREM Implements == MaxRestarts = 0 /\ Spec => ImplementsDualWrite
<1>1. Init => DW!DWInit
  BY DEF Init, DW!DWInit
<1>2. ASSUME MaxRestarts = 0, MapInv, [Next]_vars
      PROVE  DW!DWNext \/ UNCHANGED DW!dwvars
  <2> DEFINE Same == DW!DWNext \/ UNCHANGED DW!dwvars
  <2>1. ASSUME UNCHANGED <<stored, visible, retired, edge>> PROVE Same
    BY <2>1 DEF DW!dwvars
  <2>2. ASSUME NEW S \in SUBSET Assertions, NEW stamp \in Stamps, Upsert(S, stamp)
        PROVE  Same
    <3> DEFINE New == S \ stored
    <3>1. \A a \in New : Fact[a] = "absent" /\ a \notin visible
      BY <1>2 DEF Fact, MapInv
    <3>2. Fact' = [a \in Assertions |-> IF a \in New THEN "pending" ELSE Fact[a]]
      BY <2>2, <3>1 DEF Upsert, Fact
    <3>3. Linked' = Linked /\ retired' = retired
      BY <2>2 DEF Upsert, Linked, graphVars
    <3>4. DW!Transact(New, {})
      BY <3>1, <3>2, <3>3 DEF DW!Transact, Fact, Linked
    <3>5. New \in SUBSET Assertions /\ {} \in SUBSET Assertions
      OBVIOUS
    <3> HIDE DEF New
    <3> QED
      BY <3>4, <3>5 DEF DW!DWNext
  <2>3. ASSUME NEW a \in Assertions, Supersede(a) PROVE Same
    <3>1. Fact[a] # "absent" /\ Fact' = Fact /\ Linked' = Linked
      BY <2>3 DEF Supersede, Fact, Linked, graphVars
    <3>2. DW!Transact({}, {a})
      BY <2>3, <3>1 DEF DW!Transact, Supersede, Fact, Linked
    <3> QED
      BY <3>2 DEF DW!DWNext
  <2>4. ~ LoseGraph
    BY <1>2 DEF LoseGraph, MapInv, IInv, TypeOK
  <2>5. ASSUME NEW r \in Relays,
               Claim(r) \/ UpsertRejected(r) \/ Die(r)
        PROVE  Same
    BY <2>1, <2>5 DEF Claim, UpsertRejected, Die, rowVars, graphVars
  <2>6. ASSUME NEW r \in Relays, NEW a \in Assertions,
               Load(r, a) \/ LoadNothing(r, a)
        PROVE  Same
    BY <2>1, <2>6 DEF Load, LoadNothing, rowVars, graphVars
  <2>7. ASSUME NEW r \in Relays, UpsertEdge(r) \/ UpsertUnavailable(r)
        PROVE  Same
    BY <1>2, <2>1, <2>7, LinkStep DEF UpsertEdge, UpsertUnavailable, rowVars
  <2>8. ASSUME NEW r \in Relays, Complete(r) PROVE Same
    <3>1. Reveals(r)
      BY <1>2, <2>8 DEF Complete, Reveals, MapInv, IInv, PassesOK, graphVars
    <3> QED
      BY <1>2, <3>1, PublishStep
  <2>9. CASE UNCHANGED vars
    BY <2>1, <2>9 DEF vars, rowVars, graphVars
  <2> QED
    BY <1>2, <2>2, <2>3, <2>4, <2>5, <2>6, <2>7, <2>8, <2>9 DEF Next, Writer, Step
<1>3. CASE MaxRestarts = 0
  <2>1. MapInv /\ [Next]_vars => [DW!DWNext]_DW!dwvars
    BY <1>2, <1>3
  <2> QED
    BY <1>1, <2>1, MapInvariance, PTL DEF Spec, ImplementsDualWrite, DW!DWSpec
<1>4. CASE MaxRestarts # 0
  BY <1>4
<1> QED
  BY <1>3, <1>4
=============================================================================
