--------------------------- MODULE IngressProofs ---------------------------
(***************************************************************************)
(* What holds of the write path's front for any number of requests,        *)
(* tenants, headers and bodies, whatever fails and whenever records lapse. *)
(***************************************************************************)
EXTENDS Ingress, SequenceTheorems, TLAPS

(* Where its handler stands says what has become of a proposal: nothing    *)
(* before the work, everything before its record, and an answer only at    *)
(* the end.                                                                *)
Handled == \A r \in Requests :
    /\ pc[r] \in {"unsent", "check"} => job[r] = "none"
    /\ pc[r] = "work" => job[r] = IF IsStrict(r) THEN "running" ELSE "none"
    /\ pc[r] = "record" => Keyed(r) /\ Backed(r)
    /\ answer[r] # None => pc[r] = "answered"
    /\ job[r] = "none" => tries[r] = 0
    /\ job[r] = "queued" => tries[r] < MaxTries

\* A record is kept under the key of the request whose answer it is.
Filed == \A k \in Identities :
    record[k] # None => Keyed(record[k]) /\ Key(ask[record[k]]) = k

IInv == TypeOK /\ Handled /\ Filed /\ RepliesMatch /\ AnswerIsBacked /\ AnswersAreKept

\* What the steps need of the constants.
LEMMA Bounds == Strict \subseteq Bodies /\ MaxTries \in Nat \ {0} /\ None \notin Requests \cup Headers
BY ConstantsAssumption

LEMMA InitIInv == Init => IInv
BY Bounds
   DEF Init, IInv, TypeOK, Handled, Filed, RepliesMatch, AnswerIsBacked, AnswersAreKept

\* The key a request sends is one of the store's.
LEMMA KeyOK == \A a \in Asks : a.header # None => Key(a) \in Identities
BY DEF Identities

\* What a text of pieces is, piece by piece.
LEMMA Joined ==
  ASSUME NEW S, NEW s \in Seq(S), NEW t \in Seq(S)
  PROVE  /\ Len(s \o t) = Len(s) + Len(t)
         /\ \A i \in 1..Len(s) : (s \o t)[i] = s[i]
         /\ \A i \in 1..Len(t) : (s \o t)[Len(s) + i] = t[i]
BY ConcatProperties

\* A text is the other if both follow one and the same ...
LEMMA SameEnd ==
  ASSUME NEW S, NEW s \in Seq(S), NEW t \in Seq(S), NEW u \in Seq(S)
  PROVE  s \o t = s \o u => t = u
<1>1. /\ Len(s \o t) = Len(s) + Len(t)
      /\ \A i \in 1..Len(t) : (s \o t)[Len(s) + i] = t[i]
  BY Joined
<1>2. /\ Len(s \o u) = Len(s) + Len(u)
      /\ \A i \in 1..Len(u) : (s \o u)[Len(s) + i] = u[i]
  BY Joined
<1>3. ASSUME NEW w,
             Len(w) = Len(s) + Len(t), \A i \in 1..Len(t) : w[Len(s) + i] = t[i],
             Len(w) = Len(s) + Len(u), \A i \in 1..Len(u) : w[Len(s) + i] = u[i]
      PROVE  t = u
  <2>1. Len(t) = Len(u) /\ \A i \in 1..Len(t) : t[i] = u[i]
    BY <1>3, LenProperties
  <2> QED
    BY <2>1, SeqEqual
<1> QED
  BY <1>1, <1>2, <1>3, Zenon

\* ... and two that begin with a single piece begin with the same one.
LEMMA SameBegin ==
  ASSUME NEW S, NEW s \in Seq(S), NEW t \in Seq(S), NEW u \in Seq(S), NEW v \in Seq(S),
         Len(s) = 1, Len(t) = 1
  PROVE  s \o u = t \o v => s = t
<1>1. \A i \in 1..Len(s) : (s \o u)[i] = s[i]
  BY Joined
<1>2. \A i \in 1..Len(t) : (t \o v)[i] = t[i]
  BY Joined
<1>3. ASSUME NEW w, \A i \in 1..Len(s) : w[i] = s[i], \A i \in 1..Len(t) : w[i] = t[i]
      PROVE  s = t
  <2>1. Len(s) = Len(t) /\ \A i \in 1..Len(s) : s[i] = t[i]
    BY <1>3
  <2> QED
    BY <2>1, SeqEqual
<1> QED
  BY <1>1, <1>2, <1>3, Zenon

\* What a key says of the request that sent it.
LEMMA KeyTells ==
  ASSUME NEW a \in Asks, NEW b \in Asks, a.header # None, b.header # None, Key(a) = Key(b)
  PROVE  /\ a.body = b.body
         /\ \/ a.tenant = b.tenant
            \/ Plain(a.tenant) /\ Plain(b.tenant)
            => a = b
<1>1. a.body = b.body /\ a.tenant \o a.header = b.tenant \o b.header
  BY DEF Key
<1>2. /\ a.tenant \in Seq(Pieces) /\ a.header \in Seq(Pieces)
      /\ b.tenant \in Seq(Pieces) /\ b.header \in Seq(Pieces)
  BY ConstantsAssumption DEF Asks
<1>3. Plain(a.tenant) /\ Plain(b.tenant) => a.tenant = b.tenant
  BY <1>1, <1>2, SameBegin, Zenon DEF Plain
<1>4. a.tenant = b.tenant => a.header = b.header
  <2> SUFFICES ASSUME a.tenant = b.tenant PROVE a.header = b.header
    OBVIOUS
  <2>1. a.tenant \o a.header = a.tenant \o b.header
    BY <1>1, Zenon
  <2> QED
    BY <1>2, <2>1, SameEnd, Zenon
<1>5. a.tenant = b.tenant /\ a.header = b.header /\ a.body = b.body => a = b
  BY DEF Asks
<1> QED
  BY <1>1, <1>3, <1>4, <1>5

\* What a repeat is answered with: a proposal that was done, of a request that
\* has its key.
LEMMA Repeated ==
  ASSUME IInv, NEW r \in Requests, Replay(r)
  PROVE  \E t \in Requests :
            /\ Respond(r, t) /\ UNCHANGED <<ask, record, lapsed, job, tries>>
            /\ Backed(t)
            /\ ask[t].body = ask[r].body
            /\ \/ ask[t].tenant = ask[r].tenant
               \/ Plain(ask[t].tenant) /\ Plain(ask[r].tenant)
               => ask[t] = ask[r]
<1>1. ask[r] \in Asks /\ ask[r].header # None
  BY DEF IInv, TypeOK, Replay, Keyed
<1>2. Key(ask[r]) \in Identities
  BY <1>1, KeyOK
<1>3. PICK t : t = record[Key(ask[r])]
  OBVIOUS
<1>4. t \in Requests /\ Respond(r, t) /\ UNCHANGED <<ask, record, lapsed, job, tries>>
  BY <1>2, <1>3 DEF IInv, TypeOK, Replay
<1>5. Backed(t) /\ ask[t].header # None /\ Key(ask[t]) = Key(ask[r])
  BY <1>2, <1>3, <1>4 DEF IInv, Filed, AnswerIsBacked, Keyed, Replay
<1>6. ask[t] \in Asks
  <2>1. pc[t] # "unsent"
    BY <1>4, <1>5 DEF IInv, Handled, Backed, IsStrict
  <2> QED
    BY <1>4, <2>1 DEF IInv, TypeOK
<1>7. /\ ask[t].body = ask[r].body
      /\ \/ ask[t].tenant = ask[r].tenant
         \/ Plain(ask[t].tenant) /\ Plain(ask[r].tenant)
         => ask[t] = ask[r]
  BY <1>1, <1>5, <1>6, KeyTells, Zenon
<1> QED
  BY <1>4, <1>5, <1>7

LEMMA StepTypeOK == IInv /\ [Next]_vars => TypeOK'
<1> SUFFICES ASSUME IInv, [Next]_vars PROVE TypeOK'
  OBVIOUS
<1> USE Bounds DEF IInv, TypeOK
<1>1. ASSUME NEW r \in Requests, NEW a \in Asks, Send(r, a)
      PROVE  TypeOK'
  BY <1>1 DEF Send
<1>2. ASSUME NEW r \in Requests, Replay(r)
      PROVE  TypeOK'
  <2>1. PICK t \in Requests :
           /\ Respond(r, t) /\ UNCHANGED <<ask, record, lapsed, job, tries>>
           /\ ask[t].body = ask[r].body
           /\ \/ ask[t].tenant = ask[r].tenant
              \/ Plain(ask[t].tenant) /\ Plain(ask[r].tenant)
              => ask[t] = ask[r]
    BY <1>2, Repeated
  <2> QED
    BY <1>2, <2>1 DEF Replay, Respond
<1>3. ASSUME NEW r \in Requests, Miss(r)
      PROVE  TypeOK'
  BY <1>3 DEF Miss
<1>4. ASSUME NEW r \in Requests, Work(r)
      PROVE  TypeOK'
  BY <1>4 DEF Work, Worked, Onwards, Respond
<1>5. ASSUME NEW r \in Requests, Record(r)
      PROVE  TypeOK'
  BY <1>5 DEF Record, Respond
<1>6. ASSUME NEW r \in Requests, Fail(r)
      PROVE  TypeOK'
  BY <1>6 DEF Fail, Worked
<1>7. ASSUME NEW k \in Identities, Expire(k)
      PROVE  TypeOK'
  BY <1>7 DEF Expire, requestVars
<1>8. ASSUME NEW r \in Requests, Take(r)
      PROVE  TypeOK'
  BY <1>8 DEF Take, requestVars, Handled
<1>9. ASSUME NEW r \in Requests, End(r)
      PROVE  TypeOK'
  BY <1>9 DEF End, requestVars
<1>10. ASSUME NEW r \in Requests, GiveBack(r)
       PROVE  TypeOK'
  BY <1>10 DEF GiveBack, requestVars
<1>11. CASE UNCHANGED vars
  BY <1>11 DEF vars, requestVars
<1> QED
  BY <1>1, <1>2, <1>3, <1>4, <1>5, <1>6, <1>7, <1>8, <1>9, <1>10, <1>11
     DEF Next, Handler, Worker

LEMMA StepHandled == IInv /\ [Next]_vars => Handled'
<1> SUFFICES ASSUME IInv, [Next]_vars PROVE Handled'
  OBVIOUS
<1> USE Bounds, KeyOK DEF IInv, TypeOK, Handled, Keyed, IsStrict, Backed
<1>1. ASSUME NEW r \in Requests, NEW a \in Asks, Send(r, a)
      PROVE  Handled'
  BY <1>1 DEF Send
<1>2. ASSUME NEW r \in Requests, Replay(r)
      PROVE  Handled'
  BY <1>2 DEF Replay, Respond
<1>3. ASSUME NEW r \in Requests, Miss(r)
      PROVE  Handled'
  BY <1>3 DEF Miss
<1>4. ASSUME NEW r \in Requests, Work(r)
      PROVE  Handled'
  BY <1>4 DEF Work, Worked, Onwards, Respond
<1>5. ASSUME NEW r \in Requests, Record(r)
      PROVE  Handled'
  BY <1>5 DEF Record, Respond
<1>6. ASSUME NEW r \in Requests, Fail(r)
      PROVE  Handled'
  BY <1>6 DEF Fail, Worked
<1>7. ASSUME NEW k \in Identities, Expire(k)
      PROVE  Handled'
  BY <1>7 DEF Expire, requestVars
<1>8. ASSUME NEW r \in Requests, Take(r)
      PROVE  Handled'
  BY <1>8 DEF Take, requestVars
<1>9. ASSUME NEW r \in Requests, End(r)
      PROVE  Handled'
  BY <1>9 DEF End, requestVars
<1>10. ASSUME NEW r \in Requests, GiveBack(r)
       PROVE  Handled'
  BY <1>10 DEF GiveBack, requestVars
<1>11. CASE UNCHANGED vars
  BY <1>11 DEF vars, requestVars
<1> QED
  BY <1>1, <1>2, <1>3, <1>4, <1>5, <1>6, <1>7, <1>8, <1>9, <1>10, <1>11
     DEF Next, Handler, Worker

LEMMA StepFiled == IInv /\ [Next]_vars => Filed'
<1> SUFFICES ASSUME IInv, [Next]_vars PROVE Filed'
  OBVIOUS
<1> USE Bounds, KeyOK DEF IInv, TypeOK, Filed, Keyed
<1>1. ASSUME NEW r \in Requests, NEW a \in Asks, Send(r, a)
      PROVE  Filed'
  BY <1>1 DEF Send, Handled, AnswerIsBacked, Backed, IsStrict
<1>2. ASSUME NEW r \in Requests, Replay(r)
      PROVE  Filed'
  BY <1>2 DEF Replay, Respond
<1>3. ASSUME NEW r \in Requests, Miss(r)
      PROVE  Filed'
  BY <1>3 DEF Miss
<1>4. ASSUME NEW r \in Requests, Work(r)
      PROVE  Filed'
  BY <1>4 DEF Work, Worked, Onwards, Respond
<1>5. ASSUME NEW r \in Requests, Record(r)
      PROVE  Filed'
  BY <1>5 DEF Record, Respond, Handled
<1>6. ASSUME NEW r \in Requests, Fail(r)
      PROVE  Filed'
  BY <1>6 DEF Fail, Worked, Handled
<1>7. ASSUME NEW k \in Identities, Expire(k)
      PROVE  Filed'
  BY <1>7 DEF Expire, requestVars
<1>8. ASSUME NEW r \in Requests, Take(r)
      PROVE  Filed'
  BY <1>8 DEF Take, requestVars
<1>9. ASSUME NEW r \in Requests, End(r)
      PROVE  Filed'
  BY <1>9 DEF End, requestVars
<1>10. ASSUME NEW r \in Requests, GiveBack(r)
       PROVE  Filed'
  BY <1>10 DEF GiveBack, requestVars
<1>11. CASE UNCHANGED vars
  BY <1>11 DEF vars, requestVars
<1> QED
  BY <1>1, <1>2, <1>3, <1>4, <1>5, <1>6, <1>7, <1>8, <1>9, <1>10, <1>11
     DEF Next, Handler, Worker

LEMMA StepRepliesMatch == IInv /\ [Next]_vars => RepliesMatch'
<1> SUFFICES ASSUME IInv, [Next]_vars PROVE RepliesMatch'
  OBVIOUS
<1> USE Bounds DEF IInv, TypeOK, RepliesMatch
<1>1. ASSUME NEW r \in Requests, NEW a \in Asks, Send(r, a)
      PROVE  RepliesMatch'
  BY <1>1 DEF Send, Handled, AnswerIsBacked, Backed, IsStrict
<1>2. ASSUME NEW r \in Requests, Replay(r)
      PROVE  RepliesMatch'
  <2>1. PICK t \in Requests :
           /\ Respond(r, t) /\ UNCHANGED <<ask, record, lapsed, job, tries>>
           /\ ask[t].body = ask[r].body
           /\ \/ ask[t].tenant = ask[r].tenant
              \/ Plain(ask[t].tenant) /\ Plain(ask[r].tenant)
              => ask[t] = ask[r]
    BY <1>2, Repeated
  <2> QED
    BY <2>1 DEF Respond
<1>3. ASSUME NEW r \in Requests, Miss(r)
      PROVE  RepliesMatch'
  BY <1>3 DEF Miss
<1>4. ASSUME NEW r \in Requests, Work(r)
      PROVE  RepliesMatch'
  BY <1>4 DEF Work, Worked, Onwards, Respond
<1>5. ASSUME NEW r \in Requests, Record(r)
      PROVE  RepliesMatch'
  BY <1>5 DEF Record, Respond
<1>6. ASSUME NEW r \in Requests, Fail(r)
      PROVE  RepliesMatch'
  BY <1>6 DEF Fail, Worked
<1>7. ASSUME NEW k \in Identities, Expire(k)
      PROVE  RepliesMatch'
  BY <1>7 DEF Expire, requestVars
<1>8. ASSUME NEW r \in Requests, Take(r)
      PROVE  RepliesMatch'
  BY <1>8 DEF Take, requestVars
<1>9. ASSUME NEW r \in Requests, End(r)
      PROVE  RepliesMatch'
  BY <1>9 DEF End, requestVars
<1>10. ASSUME NEW r \in Requests, GiveBack(r)
       PROVE  RepliesMatch'
  BY <1>10 DEF GiveBack, requestVars
<1>11. CASE UNCHANGED vars
  BY <1>11 DEF vars, requestVars
<1> QED
  BY <1>1, <1>2, <1>3, <1>4, <1>5, <1>6, <1>7, <1>8, <1>9, <1>10, <1>11
     DEF Next, Handler, Worker

LEMMA StepAnswerIsBacked == IInv /\ [Next]_vars => AnswerIsBacked'
<1> SUFFICES ASSUME IInv, [Next]_vars PROVE AnswerIsBacked'
  OBVIOUS
<1> USE Bounds, KeyOK DEF IInv, TypeOK, AnswerIsBacked, IsStrict, Backed
<1>1. ASSUME NEW r \in Requests, NEW a \in Asks, Send(r, a)
      PROVE  AnswerIsBacked'
  BY <1>1 DEF Send, Handled
<1>2. ASSUME NEW r \in Requests, Replay(r)
      PROVE  AnswerIsBacked'
  BY <1>2, Repeated DEF Respond
<1>3. ASSUME NEW r \in Requests, Miss(r)
      PROVE  AnswerIsBacked'
  BY <1>3 DEF Miss, Handled
<1>4. ASSUME NEW r \in Requests, Work(r)
      PROVE  AnswerIsBacked'
  BY <1>4 DEF Work, Worked, Onwards, Respond
<1>5. ASSUME NEW r \in Requests, Record(r)
      PROVE  AnswerIsBacked'
  BY <1>5 DEF Record, Respond, Handled
<1>6. ASSUME NEW r \in Requests, Fail(r)
      PROVE  AnswerIsBacked'
  BY <1>6 DEF Fail, Worked, Handled, Keyed
<1>7. ASSUME NEW k \in Identities, Expire(k)
      PROVE  AnswerIsBacked'
  BY <1>7 DEF Expire, requestVars
<1>8. ASSUME NEW r \in Requests, Take(r)
      PROVE  AnswerIsBacked'
  BY <1>8 DEF Take, requestVars
<1>9. ASSUME NEW r \in Requests, End(r)
      PROVE  AnswerIsBacked'
  BY <1>9 DEF End, requestVars
<1>10. ASSUME NEW r \in Requests, GiveBack(r)
       PROVE  AnswerIsBacked'
  BY <1>10 DEF GiveBack, requestVars
<1>11. CASE UNCHANGED vars
  BY <1>11 DEF vars, requestVars
<1> QED
  BY <1>1, <1>2, <1>3, <1>4, <1>5, <1>6, <1>7, <1>8, <1>9, <1>10, <1>11
     DEF Next, Handler, Worker

LEMMA StepAnswersAreKept == IInv /\ [Next]_vars => AnswersAreKept'
<1> SUFFICES ASSUME IInv, [Next]_vars PROVE AnswersAreKept'
  OBVIOUS
<1> USE Bounds, KeyOK DEF IInv, TypeOK, AnswersAreKept, Keyed
<1>1. ASSUME NEW r \in Requests, NEW a \in Asks, Send(r, a)
      PROVE  AnswersAreKept'
  BY <1>1 DEF Send
<1>2. ASSUME NEW r \in Requests, Replay(r)
      PROVE  AnswersAreKept'
  BY <1>2 DEF Replay, Respond
<1>3. ASSUME NEW r \in Requests, Miss(r)
      PROVE  AnswersAreKept'
  BY <1>3 DEF Miss
<1>4. ASSUME NEW r \in Requests, Work(r)
      PROVE  AnswersAreKept'
  BY <1>4 DEF Work, Worked, Onwards, Respond
<1>5. ASSUME NEW r \in Requests, Record(r)
      PROVE  AnswersAreKept'
  BY <1>5 DEF Record, Respond
<1>6. ASSUME NEW r \in Requests, Fail(r)
      PROVE  AnswersAreKept'
  BY <1>6 DEF Fail, Worked
<1>7. ASSUME NEW k \in Identities, Expire(k)
      PROVE  AnswersAreKept'
  BY <1>7 DEF Expire, requestVars
<1>8. ASSUME NEW r \in Requests, Take(r)
      PROVE  AnswersAreKept'
  BY <1>8 DEF Take, requestVars
<1>9. ASSUME NEW r \in Requests, End(r)
      PROVE  AnswersAreKept'
  BY <1>9 DEF End, requestVars
<1>10. ASSUME NEW r \in Requests, GiveBack(r)
       PROVE  AnswersAreKept'
  BY <1>10 DEF GiveBack, requestVars
<1>11. CASE UNCHANGED vars
  BY <1>11 DEF vars, requestVars
<1> QED
  BY <1>1, <1>2, <1>3, <1>4, <1>5, <1>6, <1>7, <1>8, <1>9, <1>10, <1>11
     DEF Next, Handler, Worker

LEMMA Invariant == Spec => []IInv
<1>1. IInv /\ [Next]_vars => IInv'
  BY StepTypeOK, StepHandled, StepFiled, StepRepliesMatch, StepAnswerIsBacked,
     StepAnswersAreKept DEF IInv
<1> QED
  BY <1>1, InitIInv, PTL DEF Spec

-----------------------------------------------------------------------------
\* The variables keep their types; in particular no job is begun more often
\* than arq allows, whoever dies.
THEOREM TypeCorrect == Spec => []TypeOK
<1>1. IInv => TypeOK
  BY DEF IInv
<1> QED
  BY <1>1, Invariant, PTL

\* A caller is answered with a proposal of its own body; of its own header too
\* if the tenant is its own, and of its own tenant and header if neither id
\* holds the separator, whatever other tenants are called
\* (IdempotencyStore._key).
THEOREM Matched == Spec => []RepliesMatch
<1>1. IInv => RepliesMatch
  BY DEF IInv
<1> QED
  BY <1>1, Invariant, PTL

\* Wherever handlers fail, what is answered or recorded has been queued or
\* governed (propose: the check before the work, the record after it).
THEOREM BackedAnswers == Spec => []AnswerIsBacked
<1>1. IInv => AnswerIsBacked
  BY DEF IInv
<1> QED
  BY <1>1, Invariant, PTL

\* A repeat of an answered request finds a record until its TTL has passed,
\* however requests race (IdempotencyStore.put).
THEOREM KeptAnswers == Spec => []AnswersAreKept
<1>1. IInv => AnswersAreKept
  BY DEF IInv
<1> QED
  BY <1>1, Invariant, PTL
=============================================================================
