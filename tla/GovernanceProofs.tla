-------------------------- MODULE GovernanceProofs --------------------------
(***************************************************************************)
(* What supersession does for any number of proposals, candidates, values, *)
(* workers and crashes: rows and retirements are final; and as long as a   *)
(* run that died is not run again, no cycle ever arises (I3), a fact once  *)
(* written is never left with no live row, and a WRITE is told once.       *)
(***************************************************************************)
EXTENDS Governance, FiniteSetTheorems, TLAPS

\* A proposal has one worker, and a worker at rest has no locals.
Alone == \A w \in Workers :
    /\ job[w] = None => verdict[w] = <<>> /\ done[w] = 0
    /\ \A v \in Workers : v # w /\ job[w] # None => job[v] # job[w]

\* What superseded_by and a verdict to supersede name is a row.
Pointers ==
    /\ \A a \in Ids : successor[a] # None => a \in Stored
    /\ \A w \in Workers : \A i \in DOMAIN verdict[w] :
          verdict[w][i].over # None => verdict[w][i].over \in Stored

Base == TypeOK /\ Alone /\ Pointers

\* Without redelivery: a candidate that has not had its turn has no row.
Fresh == \A t \in queue, i \in 1..MaxFacts :
    (\A w \in Workers : job[w] = t => i \notin 1..done[w]) => value[<<t, i>>] = None

LEMMA InitBase == Init => Base
<1> SUFFICES ASSUME Init PROVE Base
  OBVIOUS
<1> USE ConstantsAssumption DEF Init
<1>1. <<>> \in Seq(AuditEvents)
  OBVIOUS
<1>2. TypeOK
  BY <1>1 DEF TypeOK
<1> QED
  BY <1>2 DEF Base, Alone, Pointers, Stored

\* The candidate whose turn it is.
LEMMA TurnFacts ==
  ASSUME Base, NEW w \in Workers, Ready(w)
  PROVE  /\ job[w] \in queue /\ job[w] \in Traces /\ job[w] # None
         /\ Turn(w) \in 1..MaxFacts
         /\ IdOf(w) \in Ids /\ IdOf(w) # None
         /\ facts[w][Turn(w)] \in Values /\ facts[w][Turn(w)] # None
         /\ VerdictOf(w) \in Verdicts
         /\ Turn(w) \in DOMAIN verdict[w]
         /\ VerdictOf(w).over # None => VerdictOf(w).over \in Stored
<1> USE ConstantsAssumption DEF Base, Ready
<1>1. job[w] \in queue /\ job[w] \in Traces /\ facts[w] \in FactLists
  BY DEF TypeOK
<1>2. PICK n \in 1..MaxFacts : facts[w] \in [1..n -> Values]
  BY <1>1 DEF FactLists
<1>3. Turn(w) \in 1..MaxFacts /\ facts[w][Turn(w)] \in Values
  BY <1>2
<1>4. IdOf(w) \in Ids /\ IdOf(w) # None
  BY <1>1, <1>3 DEF IdOf, Ids
<1>5. Turn(w) \in DOMAIN verdict[w] /\ VerdictOf(w) \in Verdicts
  BY DEF TypeOK, VerdictOf
<1>6. VerdictOf(w).over # None => VerdictOf(w).over \in Stored
  BY <1>5 DEF Pointers, VerdictOf
<1> QED
  BY <1>1, <1>3, <1>4, <1>5, <1>6

\* What an applied candidate does to the rows and the worker's locals,
\* whichever way it goes.
Touches(w) ==
    /\ Ready(w)
    /\ value' \in {value, Inserted(w)}
    /\ \A a \in Ids : successor'[a] # successor[a] =>
          /\ successor[a] = None
          /\ a = VerdictOf(w).over
          /\ successor'[a] = IdOf(w)
    /\ successor' \in [Ids -> Ids \cup {None}]
    /\ trail' \in Seq(AuditEvents)
    /\ Answered(w)

LEMMA ApplyTouches ==
  ASSUME Base, NEW w \in Workers, Apply(w)
  PROVE  Touches(w)
<1> USE ConstantsAssumption DEF Base
<1>0. Ready(w) /\ Answered(w)
  BY DEF Apply, ApplyHold, ApplyWrite, ApplySupersede, LoseRace, ApplyFails
<1>1. /\ IdOf(w) \in Ids
      /\ VerdictOf(w).over # None => VerdictOf(w).over \in Ids
  BY <1>0, TurnFacts DEF Stored
<1>2. ASSUME NEW k \in {"DECISION", "WRITE", "SUPERSEDE"},
             NEW o \in {None, VerdictOf(w).over}
      PROVE  Event(k, IdOf(w), o) \in AuditEvents
  BY <1>1 DEF Event, AuditEvents
<1>3. trail \in Seq(AuditEvents) /\ successor \in [Ids -> Ids \cup {None}]
  BY DEF TypeOK
<1>4. CASE ApplyHold(w)
  BY <1>0, <1>2, <1>3, <1>4 DEF ApplyHold, Touches
<1>5. CASE ApplyWrite(w)
  <2>1. <<Event("DECISION", IdOf(w), None), Event("WRITE", IdOf(w), None)>>
            \in Seq(AuditEvents)
    BY <1>2
  <2> QED
    BY <1>0, <1>3, <1>5, <2>1 DEF ApplyWrite, Touches
<1>6. CASE ApplySupersede(w)
  <2> DEFINE old == VerdictOf(w).over
  <2>1. /\ Event("DECISION", IdOf(w), old) \in AuditEvents
        /\ Event("WRITE", IdOf(w), None) \in AuditEvents
        /\ Event("SUPERSEDE", IdOf(w), old) \in AuditEvents
    BY <1>2
  <2>2. trail' \in Seq(AuditEvents)
    BY <1>3, <1>6, <2>1 DEF ApplySupersede
  <2>3. old \in Ids /\ successor[old] = None
        /\ successor' = [successor EXCEPT ![old] = IdOf(w)]
        /\ value' = Inserted(w)
    BY <1>1, <1>6 DEF ApplySupersede
  <2> QED
    BY <1>0, <1>1, <1>3, <2>2, <2>3 DEF Touches
<1>7. CASE LoseRace(w) \/ ApplyFails(w)
  BY <1>0, <1>3, <1>7 DEF LoseRace, ApplyFails, Touches
<1> QED
  BY <1>4, <1>5, <1>6, <1>7 DEF Apply

LEMMA TouchesBase ==
  ASSUME Base, NEW w \in Workers, Touches(w)
  PROVE  Base' /\ Stored \subseteq Stored'
<1> USE ConstantsAssumption DEF Base, Touches
<1>1. /\ IdOf(w) \in Ids /\ IdOf(w) # None
      /\ Turn(w) \in 1..MaxFacts
      /\ facts[w][Turn(w)] \in Values /\ facts[w][Turn(w)] # None
      /\ VerdictOf(w).over # None => VerdictOf(w).over \in Stored
  BY TurnFacts
<1>2. /\ value' \in [Ids -> Values \cup {None}]
      /\ \A a \in Ids : value[a] # None => value'[a] = value[a]
  BY <1>1 DEF Inserted, TypeOK
<1>3. Stored \subseteq Stored'
  BY <1>2 DEF Stored
<1>4. TypeOK'
  <2>1. visible' \subseteq {a \in Ids : value'[a] # None}
    BY <1>2 DEF TypeOK, Answered
  <2>2. done' \in [Workers -> 0..MaxFacts]
    BY <1>1 DEF TypeOK, Answered
  <2>3. ASSUME NEW v \in Workers, job'[v] # None
        PROVE  \A i \in 1..done'[v] : i \in DOMAIN facts'[v]
    BY <1>1, <2>3 DEF TypeOK, Answered, Ready, Turn
  <2> QED
    BY <1>2, <2>1, <2>2, <2>3 DEF TypeOK, Answered
<1>5. Alone'
  BY DEF Alone, Answered, Ready, TypeOK
<1>6. Pointers'
  <2>1. ASSUME NEW a \in Ids, successor'[a] # None
        PROVE  a \in Stored'
    <3>1. a # None
      BY DEF Ids
    <3>2. a \in Stored
      BY <1>1, <2>1, <3>1 DEF Pointers
    <3> QED
      BY <1>3, <3>2
  <2>2. ASSUME NEW v \in Workers, NEW i \in DOMAIN verdict'[v],
               verdict'[v][i].over # None
        PROVE  verdict'[v][i].over \in Stored'
    BY <1>3, <2>2 DEF Pointers, Answered
  <2> QED
    BY <2>1, <2>2 DEF Pointers
<1> QED
  BY <1>3, <1>4, <1>5, <1>6

\* Judge names rows only.
LEMMA JudgeVerdicts ==
  ASSUME TypeOK, NEW v, NEW d \in Judge(v)
  PROVE  d \in Verdicts /\ (d.over # None => d.over \in Stored)
<1>1. CASE \E b \in BOOLEAN : d = [write |-> b, over |-> None]
  BY <1>1 DEF Verdicts
<1>2. CASE \E a \in Current : d = [write |-> TRUE, over |-> a]
  BY <1>2 DEF Verdicts, Current, Live, Stored
<1> QED
  BY <1>1, <1>2 DEF Judge, Hold

LEMMA NextBase == Base /\ [Next]_vars => Base'
<1> SUFFICES ASSUME Base, [Next]_vars PROVE Base'
  OBVIOUS
<1> USE ConstantsAssumption DEF Base
<1>1. ASSUME NEW w \in Workers, NEW t \in Traces, Start(w, t)
      PROVE  Base'
  <2>1. PICK f \in FactLists : facts' = [facts EXCEPT ![w] = f]
    BY <1>1 DEF Start
  <2>2. TypeOK'
    BY <1>1, <2>1 DEF Start, rowVars, TypeOK, Alone
  <2>3. Alone' /\ Pointers'
    BY <1>1 DEF Start, rowVars, TypeOK, Alone, Pointers, Stored
  <2> QED
    BY <2>2, <2>3
<1>2. ASSUME NEW w \in Workers, NEW i \in 1..MaxFacts, Score(w, i)
      PROVE  Base'
  <2>1. PICK d \in Judge(facts[w][i]) :
           verdict' = [verdict EXCEPT ![w] =
                         [j \in DOMAIN @ \cup {i} |-> IF j = i THEN d ELSE @[j]]]
    BY <1>2 DEF Score
  <2>2. d \in Verdicts /\ (d.over # None => d.over \in Stored)
    BY JudgeVerdicts
  <2>3. \A v \in Workers \ {w} : verdict'[v] = verdict[v]
    BY <2>1 DEF TypeOK
  <2>4. /\ DOMAIN verdict'[w] = DOMAIN verdict[w] \cup {i}
        /\ \A j \in DOMAIN verdict'[w] :
              verdict'[w][j] = IF j = i THEN d ELSE verdict[w][j]
    BY <2>1 DEF TypeOK
  <2>5. TypeOK'
    <3>1. DOMAIN verdict' = Workers
      BY <2>1 DEF TypeOK
    <3>2. ASSUME NEW v \in Workers, job'[v] # None
          PROVE  /\ DOMAIN verdict'[v] \subseteq DOMAIN facts'[v]
                 /\ \A j \in DOMAIN verdict'[v] : verdict'[v][j] \in Verdicts
      <4>1. job'[v] = job[v] /\ facts'[v] = facts[v] /\ i \in DOMAIN facts[w]
        BY <1>2 DEF Score
      <4>2. /\ DOMAIN verdict[v] \subseteq DOMAIN facts[v]
            /\ \A j \in DOMAIN verdict[v] : verdict[v][j] \in Verdicts
        BY <3>2, <4>1 DEF TypeOK
      <4>3. CASE v = w
        BY <2>2, <2>4, <4>1, <4>2, <4>3
      <4>4. CASE v # w
        BY <2>3, <4>1, <4>2, <4>4
      <4> QED
        BY <4>3, <4>4
    <3> QED
      BY <1>2, <3>1, <3>2 DEF Score, rowVars, TypeOK
  <2>6. Alone'
    BY <1>2, <2>3 DEF Score, Alone
  <2>7. Pointers'
    <3>1. Stored' = Stored /\ successor' = successor
      BY <1>2 DEF Score, rowVars, Stored
    <3>2. ASSUME NEW v \in Workers, NEW j \in DOMAIN verdict'[v],
                 verdict'[v][j].over # None
          PROVE  verdict'[v][j].over \in Stored
      <4>1. CASE v = w
        BY <2>2, <2>4, <3>2, <4>1 DEF Pointers
      <4>2. CASE v # w
        BY <2>3, <3>2, <4>2 DEF Pointers
      <4> QED
        BY <4>1, <4>2
    <3> QED
      BY <3>1, <3>2 DEF Pointers
  <2> QED
    BY <2>5, <2>6, <2>7
<1>3. ASSUME NEW w \in Workers, Apply(w)
      PROVE  Base'
  BY <1>3, ApplyTouches, TouchesBase
<1>4. ASSUME NEW w \in Workers, Finish(w) \/ Crash(w)
      PROVE  Base'
  <2>1. /\ UNCHANGED <<rowVars, trail>> /\ Leave(w) /\ job[w] # None
        /\ queue' \subseteq queue /\ queue \ {job[w]} \subseteq queue'
        /\ crashes' \in 0..MaxCrashes
    BY <1>4 DEF Finish, Crash, TypeOK
  <2>2. TypeOK'
    BY <2>1 DEF Leave, rowVars, TypeOK, Alone
  <2>3. Alone' /\ Pointers'
    BY <2>1 DEF Leave, rowVars, TypeOK, Alone, Pointers, Stored
  <2> QED
    BY <2>2, <2>3
<1>5. ASSUME NEW a \in Ids, Reveal(a)
      PROVE  Base'
  BY <1>5 DEF Reveal, runVars, TypeOK, Alone, Pointers, Stored
<1>6. CASE UNCHANGED vars
  BY <1>6 DEF vars, rowVars, runVars, TypeOK, Alone, Pointers, Stored
<1> QED
  BY <1>1, <1>2, <1>3, <1>4, <1>5, <1>6 DEF Next

\* Type correctness.
THEOREM TypeCorrect == Spec => []TypeOK
<1>1. Base => TypeOK
  BY DEF Base
<1> QED
  BY <1>1, InitBase, NextBase, PTL DEF Spec

\* Nothing but an apply touches the rows or the trail.
LEMMA OnlyApplyWrites ==
  ASSUME [Next]_vars, ~ \E w \in Workers : Apply(w)
  PROVE  UNCHANGED <<value, successor, trail>>
BY DEF Next, Start, Score, Finish, Crash, Reveal, rowVars, runVars, vars

\* Rows are final, redelivered jobs or not: a second run of a proposal inserts
\* over nothing, and supersede_in moves only what nothing has moved.
THEOREM RowsStand == Spec => RowsAreFinal
<1>1. ASSUME Base, [Next]_vars
      PROVE  [\A a \in Ids : /\ value[a] # None => value'[a] = value[a]
                             /\ successor[a] # None => successor'[a] = successor[a]]_vars
  <2>1. CASE \E w \in Workers : Apply(w)
    <3>1. PICK w \in Workers : Apply(w)
      BY <2>1
    <3>2. Touches(w) /\ IdOf(w) \in Ids
      BY <1>1, <3>1, ApplyTouches, TurnFacts DEF Touches
    <3>3. \A a \in Ids : value[a] # None => value'[a] = value[a]
      BY <1>1, <3>2 DEF Touches, Inserted, Base, TypeOK
    <3> QED
      BY <3>2, <3>3 DEF Touches
  <2>2. CASE ~ \E w \in Workers : Apply(w)
    BY <1>1, <2>2, OnlyApplyWrites
  <2> QED
    BY <2>1, <2>2
<1> QED
  BY <1>1, InitBase, NextBase, PTL DEF Spec, RowsAreFinal

-----------------------------------------------------------------------------
(* Runs that died are not run again.                                       *)

\* A candidate has no row when its turn comes, whatever ran before.
LEMMA TurnIsFresh ==
  ASSUME Base, Fresh, NEW w \in Workers, Ready(w)
  PROVE  value[IdOf(w)] = None
<1>1. /\ job[w] \in queue /\ job[w] # None /\ Turn(w) \in 1..MaxFacts
      /\ done[w] \in 0..MaxFacts
  BY TurnFacts DEF Base, TypeOK
<1>2. \A v \in Workers : job[v] = job[w] => v = w
  BY <1>1 DEF Base, Alone
<1>3. Turn(w) \notin 1..done[w]
  BY <1>1 DEF Turn
<1> QED
  BY <1>1, <1>2, <1>3 DEF Fresh, IdOf

LEMMA FreshStays ==
  ASSUME ~ Redelivered, Base, Fresh, [Next]_vars
  PROVE  Fresh'
<1> USE DEF Base
<1>1. ASSUME NEW w \in Workers, NEW t \in Traces, Start(w, t)
      PROVE  Fresh'
  <2>1. done[w] = 0 /\ job[w] = None
    BY <1>1 DEF Start, Alone
  <2>2. ASSUME NEW s \in queue, NEW i \in 1..MaxFacts,
               \A v \in Workers : job'[v] = s => i \notin 1..done[v]
        PROVE  \A v \in Workers : job[v] = s => i \notin 1..done[v]
    <3>1. s # None
      BY ConstantsAssumption DEF TypeOK
    <3> QED
      BY <1>1, <2>1, <2>2, <3>1 DEF Start, TypeOK
  <2> QED
    BY <1>1, <2>2 DEF Start, rowVars, Fresh
<1>2. ASSUME NEW w \in Workers, NEW i \in 1..MaxFacts, Score(w, i)
      PROVE  Fresh'
  BY <1>2 DEF Score, rowVars, Fresh
<1>3. ASSUME NEW w \in Workers, Apply(w)
      PROVE  Fresh'
  <2>1. Touches(w) /\ Turn(w) \in 1..MaxFacts /\ done[w] \in 0..MaxFacts
    BY <1>3, ApplyTouches, TurnFacts DEF Touches, TypeOK
  <2>2. ASSUME NEW s \in queue, NEW i \in 1..MaxFacts,
               \A v \in Workers : job[v] = s => i \notin 1..done'[v]
        PROVE  value'[<<s, i>>] = None
    <3>1. \A v \in Workers : job[v] = s => i \notin 1..done[v]
      BY <2>1, <2>2 DEF Touches, Answered, Turn, TypeOK
    <3>2. <<s, i>> # IdOf(w)
      BY <2>1, <2>2 DEF Touches, Answered, IdOf, Turn, TypeOK
    <3>3. <<s, i>> \in Ids /\ value[<<s, i>>] = None
      BY <3>1 DEF Fresh, Ids, TypeOK
    <3> QED
      BY <2>1, <3>2, <3>3 DEF Touches, Inserted, TypeOK
  <2> QED
    BY <2>1, <2>2 DEF Touches, Answered, Fresh
<1>4. ASSUME NEW w \in Workers, Finish(w) \/ Crash(w)
      PROVE  Fresh'
  <2>1. /\ UNCHANGED value /\ Leave(w) /\ queue' = queue \ {job[w]}
    BY <1>4 DEF Finish, Crash, rowVars
  <2>2. ASSUME NEW s \in queue', NEW i \in 1..MaxFacts,
               \A v \in Workers : job'[v] = s => i \notin 1..done'[v]
        PROVE  \A v \in Workers : job[v] = s => i \notin 1..done[v]
    BY <2>1, <2>2 DEF Leave, TypeOK
  <2> QED
    BY <2>1, <2>2 DEF Fresh
<1>5. ASSUME NEW a \in Ids, Reveal(a)
      PROVE  Fresh'
  BY <1>5 DEF Reveal, runVars, Fresh
<1>6. CASE UNCHANGED vars
  BY <1>6 DEF vars, rowVars, runVars, Fresh
<1> QED
  BY <1>1, <1>2, <1>3, <1>4, <1>5, <1>6 DEF Next

Once == Base /\ Fresh

LEMMA InitOnce == Init => Once
BY InitBase DEF Once, Fresh, Init, Ids, Base, TypeOK

LEMMA NextOnce == ~ Redelivered /\ Once /\ [Next]_vars => Once'
BY NextBase, FreshStays DEF Once

\* I3 without redelivery: a row that supersedes another is a new one, nothing
\* points to it yet, and so no set of superseded rows closes on itself.
THEOREM NoCycles == ~ Redelivered /\ Spec => []SupersessionAcyclic
<1>1. Init => SupersessionAcyclic
  BY ConstantsAssumption DEF Init, SupersessionAcyclic
<1>2. ASSUME Once, SupersessionAcyclic, [Next]_vars
      PROVE  SupersessionAcyclic'
  <2>1. CASE \E w \in Workers : Apply(w)
    <3>1. PICK w \in Workers : Touches(w)
      BY <1>2, <2>1, ApplyTouches DEF Once
    <3>2. /\ IdOf(w) \in Ids /\ value[IdOf(w)] = None
          /\ VerdictOf(w).over # None => VerdictOf(w).over \in Stored
      BY <1>2, <3>1, TurnFacts, TurnIsFresh DEF Touches, Once
    <3>3. successor[IdOf(w)] = None /\ VerdictOf(w).over # IdOf(w)
      <4>1. IdOf(w) # None
        BY <1>2, <3>1, TurnFacts DEF Touches, Once
      <4> QED
        BY <1>2, <3>2, <4>1 DEF Once, Base, Pointers, Stored
    <3>4. successor'[IdOf(w)] = None
      BY <3>1, <3>2, <3>3 DEF Touches
    <3>5. ASSUME NEW S \in SUBSET {a \in Ids : successor'[a] # None}, S # {}
          PROVE  \E a \in S : successor'[a] \notin S
      <4>1. CASE \E a \in S : successor[a] # successor'[a]
        BY <3>1, <3>4, <4>1 DEF Touches
      <4>2. CASE \A a \in S : successor[a] = successor'[a]
        BY <1>2, <3>5, <4>2 DEF SupersessionAcyclic
      <4> QED
        BY <4>1, <4>2
    <3> QED
      BY <3>5 DEF SupersessionAcyclic
  <2>2. CASE ~ \E w \in Workers : Apply(w)
    BY <1>2, <2>2, OnlyApplyWrites DEF SupersessionAcyclic
  <2> QED
    BY <2>1, <2>2
<1>3. CASE ~ Redelivered
  BY <1>1, <1>2, <1>3, InitOnce, NextOnce, PTL DEF Spec
<1>4. CASE Redelivered
  BY <1>4
<1> QED
  BY <1>3, <1>4

-----------------------------------------------------------------------------
(* The record.                                                             *)

\* What an apply appends: a decision alone, with a WRITE, or with a WRITE and
\* a SUPERSEDE; or nothing.
Told(w) == LET id == IdOf(w)  old == VerdictOf(w).over IN
    \/ /\ UNCHANGED <<value, successor>>
       /\ \/ UNCHANGED trail
          \/ trail' = trail \o <<Event("DECISION", id, None)>>
    \/ /\ old = None
       /\ value' = Inserted(w)
       /\ UNCHANGED successor
       /\ trail' = trail \o <<Event("DECISION", id, None), Event("WRITE", id, None)>>
    \/ /\ old \notin {None, id}
       /\ successor[old] = None
       /\ value' = Inserted(w)
       /\ successor' = [successor EXCEPT ![old] = id]
       /\ trail' = trail \o <<Event("DECISION", id, old), Event("WRITE", id, None),
                              Event("SUPERSEDE", id, old)>>

LEMMA ApplyTells ==
  ASSUME Base, NEW w \in Workers, Apply(w)
  PROVE  Ready(w) /\ Told(w)
<1>1. trail \in Seq(AuditEvents)
  BY DEF Base, TypeOK
<1>2. CASE ApplyHold(w)
  <2>1. Event("DECISION", IdOf(w), None) \in AuditEvents
    BY <1>2, TurnFacts DEF ApplyHold, Event, AuditEvents
  <2>2. Append(trail, Event("DECISION", IdOf(w), None))
          = trail \o <<Event("DECISION", IdOf(w), None)>>
    BY <1>1, <2>1
  <2> QED
    BY <1>2, <2>2 DEF ApplyHold, Told
<1>3. CASE ApplyWrite(w)
  BY <1>3 DEF ApplyWrite, Told
<1>4. CASE ApplySupersede(w)
  BY <1>4 DEF ApplySupersede, Told
<1>5. CASE LoseRace(w) \/ ApplyFails(w)
  BY <1>5 DEF LoseRace, ApplyFails, Told
<1> QED
  BY <1>2, <1>3, <1>4, <1>5 DEF Apply

\* The events on record, and the events there are once a transaction has
\* appended its own.
OnRecord == {trail[i] : i \in DOMAIN trail}

LEMMA Recorded ==
  ASSUME NEW s \in Seq(AuditEvents), NEW u \in Seq(AuditEvents)
  PROVE  /\ DOMAIN (s \o u) = 1..(Len(s) + Len(u))
         /\ \A i \in DOMAIN s : (s \o u)[i] = s[i]
         /\ \A j \in DOMAIN u : (s \o u)[Len(s) + j] = u[j]
         /\ {(s \o u)[i] : i \in DOMAIN (s \o u)}
              = {s[i] : i \in DOMAIN s} \cup {u[j] : j \in DOMAIN u}
<1>1. /\ DOMAIN (s \o u) = 1..(Len(s) + Len(u))
      /\ DOMAIN s = 1..Len(s) /\ DOMAIN u = 1..Len(u)
      /\ Len(s) \in Nat /\ Len(u) \in Nat
  OBVIOUS
<1>2. \A i \in DOMAIN s : (s \o u)[i] = s[i]
  OBVIOUS
<1>3. \A j \in DOMAIN u : (s \o u)[Len(s) + j] = u[j]
  OBVIOUS
<1>4. ASSUME NEW i \in DOMAIN (s \o u), i \notin DOMAIN s
      PROVE  \E j \in DOMAIN u : i = Len(s) + j
  <2>1. i - Len(s) \in DOMAIN u /\ i = Len(s) + (i - Len(s))
    BY <1>1, <1>4
  <2> QED
    BY <2>1
<1>5. {(s \o u)[i] : i \in DOMAIN (s \o u)}
         \subseteq {s[i] : i \in DOMAIN s} \cup {u[j] : j \in DOMAIN u}
  BY <1>2, <1>3, <1>4
<1>6. DOMAIN s \subseteq DOMAIN (s \o u)
      /\ \A j \in DOMAIN u : Len(s) + j \in DOMAIN (s \o u)
  BY <1>1
<1>7. {s[i] : i \in DOMAIN s} \cup {u[j] : j \in DOMAIN u}
         \subseteq {(s \o u)[i] : i \in DOMAIN (s \o u)}
  BY <1>2, <1>3, <1>6
<1> QED
  BY <1>1, <1>2, <1>3, <1>5, <1>7

LEMMA TellsOnRecord ==
  ASSUME Base, NEW w \in Workers, Ready(w), Told(w)
  PROVE  LET id == IdOf(w)  old == VerdictOf(w).over IN
    \/ /\ UNCHANGED <<value, successor>>
       /\ \/ OnRecord' = OnRecord
          \/ OnRecord' = OnRecord \cup {Event("DECISION", id, None)}
    \/ /\ old = None
       /\ value' = Inserted(w)
       /\ UNCHANGED successor
       /\ OnRecord' = OnRecord \cup {Event("DECISION", id, None),
                                    Event("WRITE", id, None)}
    \/ /\ old \notin {None, id}
       /\ old \in Ids
       /\ successor[old] = None
       /\ value' = Inserted(w)
       /\ successor' = [successor EXCEPT ![old] = id]
       /\ OnRecord' = OnRecord \cup {Event("DECISION", id, old),
                                    Event("WRITE", id, None),
                                    Event("SUPERSEDE", id, old)}
<1> DEFINE id == IdOf(w)
           old == VerdictOf(w).over
<1>1. trail \in Seq(AuditEvents)
  BY DEF Base, TypeOK
<1>2. id \in Ids /\ (old # None => old \in Ids)
  BY TurnFacts DEF Stored
<1>3. ASSUME NEW k \in {"DECISION", "WRITE", "SUPERSEDE"}, NEW o \in {None, old}
      PROVE  Event(k, id, o) \in AuditEvents
  BY <1>2 DEF Event, AuditEvents
<1> HIDE DEF id, old
<1>4. ASSUME NEW u \in Seq(AuditEvents), trail' = trail \o u
      PROVE  OnRecord' = OnRecord \cup {u[j] : j \in DOMAIN u}
  <2>1. {(trail \o u)[i] : i \in DOMAIN (trail \o u)}
           = {trail[i] : i \in DOMAIN trail} \cup {u[j] : j \in DOMAIN u}
    BY <1>1, Recorded, Zenon
  <2> QED
    BY <1>4, <2>1, Zenon DEF OnRecord
<1>5. ASSUME NEW a \in AuditEvents, NEW b \in AuditEvents, NEW c \in AuditEvents
      PROVE  /\ <<a>> \in Seq(AuditEvents) /\ <<a, b>> \in Seq(AuditEvents)
             /\ <<a, b, c>> \in Seq(AuditEvents)
             /\ {<<a>>[j] : j \in DOMAIN <<a>>} = {a}
             /\ {<<a, b>>[j] : j \in DOMAIN <<a, b>>} = {a, b}
             /\ {<<a, b, c>>[j] : j \in DOMAIN <<a, b, c>>} = {a, b, c}
  <2>1. DOMAIN <<a>> = {1} /\ DOMAIN <<a, b>> = {1, 2} /\ DOMAIN <<a, b, c>> = {1, 2, 3}
    OBVIOUS
  <2>2. /\ {<<a>>[j] : j \in {1}} = {a}
        /\ {<<a, b>>[j] : j \in {1, 2}} = {a, b}
        /\ {<<a, b, c>>[j] : j \in {1, 2, 3}} = {a, b, c}
    OBVIOUS
  <2>3. /\ <<a>> \in Seq(AuditEvents) /\ <<a, b>> \in Seq(AuditEvents)
        /\ <<a, b, c>> \in Seq(AuditEvents)
    OBVIOUS
  <2> QED
    BY <2>1, <2>2, <2>3
<1>6. ASSUME NEW a \in AuditEvents, NEW b \in AuditEvents, NEW c \in AuditEvents
      PROVE  /\ trail' = trail \o <<a>> => OnRecord' = OnRecord \cup {a}
             /\ trail' = trail \o <<a, b>> => OnRecord' = OnRecord \cup {a, b}
             /\ trail' = trail \o <<a, b, c>> => OnRecord' = OnRecord \cup {a, b, c}
  <2>1. ASSUME NEW u \in Seq(AuditEvents), NEW S, {u[j] : j \in DOMAIN u} = S,
               trail' = trail \o u
        PROVE  OnRecord' = OnRecord \cup S
    BY <1>4, <2>1, Zenon
  <2>2. /\ <<a>> \in Seq(AuditEvents) /\ <<a, b>> \in Seq(AuditEvents)
        /\ <<a, b, c>> \in Seq(AuditEvents)
        /\ {<<a>>[j] : j \in DOMAIN <<a>>} = {a}
        /\ {<<a, b>>[j] : j \in DOMAIN <<a, b>>} = {a, b}
        /\ {<<a, b, c>>[j] : j \in DOMAIN <<a, b, c>>} = {a, b, c}
    BY <1>5
  <2>3. trail' = trail \o <<a>> => OnRecord' = OnRecord \cup {a}
    BY <2>1, <2>2, Zenon
  <2>4. trail' = trail \o <<a, b>> => OnRecord' = OnRecord \cup {a, b}
    BY <2>1, <2>2, Zenon
  <2>5. trail' = trail \o <<a, b, c>> => OnRecord' = OnRecord \cup {a, b, c}
    BY <2>1, <2>2, Zenon
  <2> QED
    BY <2>3, <2>4, <2>5
<1>7. UNCHANGED trail => OnRecord' = OnRecord
  BY DEF OnRecord
<1> QED
  BY <1>2, <1>3, <1>4, <1>5, <1>6, <1>7 DEF Told, id, old

LEMMA EventFields ==
  ASSUME NEW k, NEW id, NEW o
  PROVE  Event(k, id, o).kind = k /\ Event(k, id, o).id = id /\ Event(k, id, o).over = o
BY DEF Event

\* What an insert leaves stored.
LEMMA InsertedStores ==
  ASSUME Base, NEW w \in Workers, Ready(w), value' = Inserted(w)
  PROVE  Stored' = Stored \cup {IdOf(w)}
<1>1. IdOf(w) \in Ids /\ facts[w][Turn(w)] # None
  BY TurnFacts
<1> QED
  BY <1>1 DEF Inserted, Stored, Base, TypeOK

\* Non-negotiable 4, redelivered jobs or not: rows and WRITE events explain
\* each other.
THEOREM RowsAccounted == Spec => []RowsOnRecord
<1> DEFINE Written == {e.id : e \in {f \in OnRecord : f.kind = "WRITE"}}
<1>1. RowsOnRecord <=> Stored = Written
  BY DEF RowsOnRecord, Events, OnRecord
<1>0. RowsOnRecord' <=> Stored' = Written'
  BY DEF RowsOnRecord, Events, OnRecord
<1>2. Init => Stored = Written
  BY DEF Init, Stored, OnRecord
<1>3. ASSUME Base, Stored = Written, [Next]_vars
      PROVE  Stored' = Written'
  <2>1. CASE \E w \in Workers : Apply(w)
    <3>1. PICK w \in Workers : Ready(w) /\ Told(w)
      BY <1>3, <2>1, ApplyTells
    <3> DEFINE id == IdOf(w)
               old == VerdictOf(w).over
    <3>2. CASE value' = value /\ OnRecord' = OnRecord
      BY <1>3, <3>2 DEF Stored
    <3>3. CASE value' = value /\ OnRecord' = OnRecord \cup {Event("DECISION", id, None)}
      BY <1>3, <3>3, EventFields DEF Stored
    <3>4. ASSUME NEW o, value' = Inserted(w),
                 \/ OnRecord' = OnRecord \cup {Event("DECISION", id, o),
                                              Event("WRITE", id, None)}
                 \/ OnRecord' = OnRecord \cup {Event("DECISION", id, o),
                                              Event("WRITE", id, None),
                                              Event("SUPERSEDE", id, o)}
          PROVE  Stored' = Written'
      <4>1. Stored' = Stored \cup {id}
        BY <1>3, <3>1, <3>4, InsertedStores
      <4>2. Written' = Written \cup {id}
        <5> HIDE DEF id
        <5> QED
          BY <3>4, EventFields
      <4> QED
        BY <1>3, <4>1, <4>2
    <3> QED
      BY <1>3, <3>1, <3>2, <3>3, <3>4, TellsOnRecord
  <2>2. CASE ~ \E w \in Workers : Apply(w)
    BY <1>3, <2>2, OnlyApplyWrites DEF Stored, OnRecord
  <2> QED
    BY <2>1, <2>2
<1>4. Init => RowsOnRecord
  BY <1>1, <1>2
<1>5. Base /\ RowsOnRecord /\ [Next]_vars => RowsOnRecord'
  BY <1>1, <1>0, <1>3
<1> QED
  BY <1>4, <1>5, InitBase, NextBase, PTL DEF Spec

\* A supersession on the record was carried out, and every row was decided
\* upon: nothing in between can be observed, redelivered jobs or not.
THEOREM SupersessionsWhole == Spec => []SupersessionIsWhole
<1> DEFINE Carried == \A e \in OnRecord :
              e.kind = "DECISION" /\ e.over # None => successor[e.over] = e.id
           Decided == \A a \in Stored : \E e \in OnRecord :
              e.kind = "DECISION" /\ e.id = a
<1>0. SupersessionIsWhole <=> Carried /\ Decided
  BY DEF SupersessionIsWhole, Events, OnRecord
<1>1. SupersessionIsWhole' <=> Carried' /\ Decided'
  BY DEF SupersessionIsWhole, Events, OnRecord
<1>2. Init => Carried /\ Decided
  BY DEF Init, Stored, OnRecord
<1>3. ASSUME Base, Carried, Decided, [Next]_vars
      PROVE  Carried' /\ Decided'
  <2>1. CASE \E w \in Workers : Apply(w)
    <3>1. PICK w \in Workers : Ready(w) /\ Told(w)
      BY <1>3, <2>1, ApplyTells
    <3> DEFINE id == IdOf(w)
               old == VerdictOf(w).over
    <3>2. id \in Ids
      BY <1>3, <3>1, TurnFacts
    <3>3. \A e \in OnRecord : e.id \in Ids
      <4>1. \A i \in DOMAIN trail : trail[i] \in AuditEvents
        BY <1>3 DEF Base, TypeOK
      <4> QED
        BY <4>1 DEF OnRecord, AuditEvents
    <3>4. ASSUME OnRecord \subseteq OnRecord', value' = Inserted(w),
                 Event("DECISION", id, old) \in OnRecord'
          PROVE  Decided'
      <4>1. Stored' = Stored \cup {id}
        BY <1>3, <3>1, <3>4, InsertedStores
      <4>2. Event("DECISION", id, old).kind = "DECISION" /\ Event("DECISION", id, old).id = id
        BY EventFields
      <4> HIDE DEF id, old
      <4> QED
        BY <1>3, <3>4, <4>1, <4>2
    <3> HIDE DEF id, old
    <3>5. CASE value' = value /\ successor' = successor
               /\ \/ OnRecord' = OnRecord
                  \/ OnRecord' = OnRecord \cup {Event("DECISION", id, None)}
      BY <1>3, <3>5, EventFields DEF Stored
    <3>6. CASE /\ old = None
               /\ value' = Inserted(w)
               /\ successor' = successor
               /\ OnRecord' = OnRecord \cup {Event("DECISION", id, None),
                                            Event("WRITE", id, None)}
      <4>1. Event("DECISION", id, None).over = None /\ Event("WRITE", id, None).over = None
        BY EventFields
      <4>2. Carried'
        BY <1>3, <3>6, <4>1
      <4> QED
        BY <3>4, <3>6, <4>2
    <3>7. CASE /\ old \notin {None, id}
               /\ old \in Ids
               /\ successor[old] = None
               /\ value' = Inserted(w)
               /\ successor' = [successor EXCEPT ![old] = id]
               /\ OnRecord' = OnRecord \cup {Event("DECISION", id, old),
                                            Event("WRITE", id, None),
                                            Event("SUPERSEDE", id, old)}
      <4>1. successor'[old] = id
        BY <1>3, <3>7 DEF Base, TypeOK
      <4>2. ASSUME NEW e \in OnRecord, e.kind = "DECISION", e.over # None
            PROVE  successor'[e.over] = e.id
        <5>1. None \notin Ids
          BY ConstantsAssumption DEF Ids
        <5> QED
          BY <1>3, <3>3, <3>7, <4>2, <5>1
      <4>3. /\ Event("DECISION", id, old).over = old
            /\ Event("DECISION", id, old).id = id
            /\ Event("WRITE", id, None).over = None
            /\ Event("SUPERSEDE", id, old).kind # "DECISION"
        BY EventFields
      <4>4. Carried'
        BY <3>7, <4>1, <4>2, <4>3
      <4> QED
        BY <3>4, <3>7, <4>4
    <3> QED
      BY <1>3, <3>1, <3>5, <3>6, <3>7, TellsOnRecord DEF id, old
  <2>2. CASE ~ \E w \in Workers : Apply(w)
    BY <1>3, <2>2, OnlyApplyWrites DEF Stored, OnRecord
  <2> QED
    BY <2>1, <2>2
<1>4. Init => SupersessionIsWhole
  BY <1>0, <1>2
<1>5. Base /\ SupersessionIsWhole /\ [Next]_vars => SupersessionIsWhole'
  BY <1>0, <1>1, <1>3
<1> QED
  BY <1>4, <1>5, InitBase, NextBase, PTL DEF Spec

\* Where the record tells of a's retirement.
RetirementsOf(a) == {i \in Events("SUPERSEDE") : trail[i].over = a}

\* Inductive: one event for each retired row, which names its successor.
Retired == \A a \in Ids :
    IF successor[a] = None THEN RetirementsOf(a) = {}
    ELSE \E i : RetirementsOf(a) = {i} /\ trail[i].id = successor[a]

\* What appending u does to where retirements are told, u's only SUPERSEDE (if
\* it has one) being its third event.
LEMMA Retold ==
  ASSUME trail \in Seq(AuditEvents), NEW u \in Seq(AuditEvents), trail' = trail \o u,
         \A m \in DOMAIN u : u[m].kind = "SUPERSEDE" => m = 3,
         NEW a
  PROVE  /\ \A i \in RetirementsOf(a) : trail'[i] = trail[i]
         /\ RetirementsOf(a)' =
              IF 3 \in DOMAIN u /\ u[3].kind = "SUPERSEDE" /\ u[3].over = a
              THEN RetirementsOf(a) \cup {Len(trail) + 3} ELSE RetirementsOf(a)
         /\ 3 \in DOMAIN u => trail'[Len(trail) + 3] = u[3]
<1>1. /\ DOMAIN trail = 1..Len(trail) /\ DOMAIN u = 1..Len(u)
      /\ Len(trail) \in Nat /\ Len(u) \in Nat
  OBVIOUS
<1>2. /\ DOMAIN trail' = 1..(Len(trail) + Len(u))
      /\ \A i \in DOMAIN trail : trail'[i] = trail[i]
      /\ \A j \in DOMAIN u : trail'[Len(trail) + j] = u[j]
  BY Recorded
<1>3. ASSUME NEW i, i \in RetirementsOf(a)'
      PROVE  \/ i \in RetirementsOf(a)
             \/ /\ i = Len(trail) + 3 /\ 3 \in DOMAIN u
                /\ u[3].kind = "SUPERSEDE" /\ u[3].over = a
  <2>1. i \in DOMAIN trail' /\ trail'[i].kind = "SUPERSEDE" /\ trail'[i].over = a
    BY <1>3 DEF RetirementsOf, Events
  <2>2. CASE i \in DOMAIN trail
    BY <1>2, <2>1, <2>2 DEF RetirementsOf, Events
  <2>3. CASE i \notin DOMAIN trail
    <3>1. i - Len(trail) \in DOMAIN u /\ i = Len(trail) + (i - Len(trail))
      BY <1>1, <1>2, <2>1, <2>3
    <3>2. trail'[i] = u[i - Len(trail)]
      BY <1>2, <3>1
    <3>3. i - Len(trail) = 3
      BY <2>1, <3>1, <3>2
    <3> QED
      BY <2>1, <3>1, <3>2, <3>3
  <2> QED
    BY <2>2, <2>3
<1>4. ASSUME NEW i \in RetirementsOf(a)
      PROVE  i \in RetirementsOf(a)' /\ trail'[i] = trail[i]
  <2>1. i \in DOMAIN trail /\ i \in DOMAIN trail' /\ trail'[i] = trail[i]
    BY <1>1, <1>2 DEF RetirementsOf, Events
  <2> QED
    BY <2>1 DEF RetirementsOf, Events
<1>5. ASSUME 3 \in DOMAIN u, u[3].kind = "SUPERSEDE", u[3].over = a
      PROVE  Len(trail) + 3 \in RetirementsOf(a)'
  <2>1. Len(trail) + 3 \in DOMAIN trail' /\ trail'[Len(trail) + 3] = u[3]
    BY <1>1, <1>2, <1>5
  <2> QED
    BY <1>5, <2>1 DEF RetirementsOf, Events
<1> QED
  BY <1>2, <1>3, <1>4, <1>5

\* Non-negotiable 4 for retirements, redelivered jobs or not: every row that
\* was superseded has one SUPERSEDE on record, which names its successor, and
\* no event reports a retirement that did not happen.
THEOREM RetirementsAccounted == Spec => []RetirementsOnRecord
<1>1. Retired => RetirementsOnRecord
  <2> SUFFICES ASSUME Retired, NEW a \in Ids, successor[a] # None
               PROVE  /\ Cardinality(RetirementsOf(a)) = 1
                      /\ \A i \in RetirementsOf(a) : trail[i].id = successor[a]
    BY DEF RetirementsOnRecord, RetirementsOf, Retired
  <2>1. PICK i : RetirementsOf(a) = {i} /\ trail[i].id = successor[a]
    BY DEF Retired
  <2>2. Cardinality({i}) = 1
    BY FS_Singleton
  <2> QED
    BY <2>1, <2>2
<1>2. Init => Retired
  BY DEF Init, Retired, RetirementsOf, Events
<1>3. ASSUME Base, Retired, [Next]_vars
      PROVE  Retired'
  <2>1. CASE \E w \in Workers : Apply(w)
    <3>1. PICK w \in Workers : Ready(w) /\ Told(w)
      BY <1>3, <2>1, ApplyTells
    <3> DEFINE id == IdOf(w)
               old == VerdictOf(w).over
    <3>2. /\ trail \in Seq(AuditEvents) /\ successor \in [Ids -> Ids \cup {None}]
          /\ None \notin Ids /\ id \in Ids /\ (old # None => old \in Ids)
      BY <1>3, <3>1, TurnFacts, ConstantsAssumption DEF Base, TypeOK, Stored, Ids
    <3> HIDE DEF id, old
    <3>3. ASSUME NEW k \in {"DECISION", "WRITE", "SUPERSEDE"}, NEW o \in {None, old}
          PROVE  /\ Event(k, id, o) \in AuditEvents
                 /\ Event(k, id, o).kind = k /\ Event(k, id, o).id = id
                 /\ Event(k, id, o).over = o
      BY <3>2 DEF Event, AuditEvents
    <3>4. CASE trail' = trail /\ successor' = successor
      BY <1>3, <3>4 DEF Retired, RetirementsOf, Events
    <3>5. ASSUME NEW u \in Seq(AuditEvents), trail' = trail \o u, successor' = successor,
                 \A m \in DOMAIN u : u[m].kind # "SUPERSEDE"
          PROVE  Retired'
      <4>1. ASSUME NEW a \in Ids
            PROVE  /\ RetirementsOf(a)' = RetirementsOf(a)
                   /\ \A i \in RetirementsOf(a) : trail'[i] = trail[i]
        BY <3>2, <3>5, Retold
      <4> QED
        BY <1>3, <3>5, <4>1 DEF Retired
    <3>6. CASE successor' = successor /\ trail' = trail \o <<Event("DECISION", id, None)>>
      <4> DEFINE u == <<Event("DECISION", id, None)>>
      <4>1. u \in Seq(AuditEvents) /\ DOMAIN u = {1} /\ u[1] = Event("DECISION", id, None)
        BY <3>3
      <4> QED
        BY <3>3, <3>5, <3>6, <4>1
    <3>7. CASE /\ successor' = successor
               /\ trail' = trail \o <<Event("DECISION", id, None), Event("WRITE", id, None)>>
      <4> DEFINE d == Event("DECISION", id, None)
                 e == Event("WRITE", id, None)
                 u == <<d, e>>
      <4>1. d \in AuditEvents /\ e \in AuditEvents /\ d.kind = "DECISION" /\ e.kind = "WRITE"
        BY <3>3
      <4> HIDE DEF d, e
      <4>2. u \in Seq(AuditEvents) /\ DOMAIN u = {1, 2} /\ u[1] = d /\ u[2] = e
        BY <4>1
      <4>3. trail' = trail \o u
        BY <3>7 DEF d, e
      <4> HIDE DEF u
      <4> QED
        BY <3>5, <3>7, <4>1, <4>2, <4>3
    <3>8. CASE /\ old \notin {None, id} /\ successor[old] = None
               /\ successor' = [successor EXCEPT ![old] = id]
               /\ trail' = trail \o <<Event("DECISION", id, old), Event("WRITE", id, None),
                                      Event("SUPERSEDE", id, old)>>
      <4> DEFINE d == Event("DECISION", id, old)
                 e == Event("WRITE", id, None)
                 f == Event("SUPERSEDE", id, old)
                 u == <<d, e, f>>
      <4>1. /\ d \in AuditEvents /\ e \in AuditEvents /\ f \in AuditEvents
            /\ d.kind = "DECISION" /\ e.kind = "WRITE"
            /\ f.kind = "SUPERSEDE" /\ f.over = old /\ f.id = id
        BY <3>3
      <4>2. trail' = trail \o u
        BY <3>8
      <4> HIDE DEF d, e, f
      <4>3. u \in Seq(AuditEvents) /\ DOMAIN u = {1, 2, 3} /\ u[1] = d /\ u[2] = e /\ u[3] = f
        BY <4>1
      <4> HIDE DEF u
      <4>4. ASSUME NEW a \in Ids
            PROVE  /\ \A i \in RetirementsOf(a) : trail'[i] = trail[i]
                   /\ RetirementsOf(a)' = IF old = a THEN RetirementsOf(a) \cup {Len(trail) + 3}
                                         ELSE RetirementsOf(a)
                   /\ trail'[Len(trail) + 3].id = id
        <5>1. \A m \in DOMAIN u : u[m].kind = "SUPERSEDE" => m = 3
          BY <4>1, <4>3
        <5>2. 3 \in DOMAIN u /\ u[3].kind = "SUPERSEDE" /\ u[3].over = old /\ u[3].id = id
          BY <4>1, <4>3
        <5> QED
          BY <3>2, <4>2, <4>3, <5>1, <5>2, Retold
      <4>5. ASSUME NEW a \in Ids, a # old
            PROVE  IF successor'[a] = None THEN RetirementsOf(a)' = {}
                   ELSE \E i : RetirementsOf(a)' = {i} /\ trail'[i].id = successor'[a]
        BY <1>3, <3>2, <3>8, <4>4, <4>5 DEF Retired
      <4>6. ASSUME NEW a \in Ids, a = old
            PROVE  /\ successor'[a] = id /\ id # None
                   /\ RetirementsOf(a)' = {Len(trail) + 3}
                   /\ trail'[Len(trail) + 3].id = id
        <5>1. RetirementsOf(a) = {}
          BY <1>3, <3>8, <4>6 DEF Retired
        <5> QED
          BY <3>2, <3>8, <4>4, <4>6, <5>1
      <4>7. ASSUME NEW a \in Ids
            PROVE  IF successor'[a] = None THEN RetirementsOf(a)' = {}
                   ELSE \E i : RetirementsOf(a)' = {i} /\ trail'[i].id = successor'[a]
        BY <4>5, <4>6
      <4> QED
        BY <4>7 DEF Retired
    <3> QED
      BY <3>1, <3>4, <3>6, <3>7, <3>8 DEF Told, id, old
  <2>2. CASE ~ \E w \in Workers : Apply(w)
    BY <1>3, <2>2, OnlyApplyWrites DEF Retired, RetirementsOf, Events
  <2> QED
    BY <2>1, <2>2
<1> QED
  BY <1>1, <1>2, <1>3, InitBase, NextBase, PTL DEF Spec

\* Without redelivery a WRITE on the record is a row that came to be: none is
\* told twice.
THEOREM WritesToldOnce == ~ Redelivered /\ Spec => []WritesAreMoves
<1>1. Init => WritesAreMoves
  BY DEF Init, WritesAreMoves, Events
<1>2. ASSUME Once, RowsOnRecord, WritesAreMoves, [Next]_vars
      PROVE  WritesAreMoves'
  <2>1. CASE \E w \in Workers : Apply(w)
    <3>1. PICK w \in Workers : Ready(w) /\ Told(w)
      BY <1>2, <2>1, ApplyTells DEF Once
    <3> DEFINE id == IdOf(w)
               old == VerdictOf(w).over
    <3>2. value[id] = None
      BY <1>2, <3>1, TurnIsFresh DEF Once
    <3>3. \A i \in Events("WRITE") : trail[i].id # id
      BY <1>2, <3>2 DEF RowsOnRecord, Stored
    <3>4. trail \in Seq(AuditEvents) /\ id \in Ids /\ (old # None => old \in Ids)
      BY <1>2, <3>1, TurnFacts DEF Once, Base, TypeOK, Stored
    <3> HIDE DEF id, old
    <3>5. ASSUME NEW u \in Seq(AuditEvents), trail' = trail \o u,
                 \A m \in DOMAIN u : u[m].kind = "WRITE" => m = 2 /\ u[m].id = id
          PROVE  WritesAreMoves'
      <4>1. ASSUME NEW i \in DOMAIN trail', trail'[i].kind = "WRITE"
            PROVE  \/ i \in Events("WRITE") /\ trail'[i] = trail[i]
                   \/ i = Len(trail) + 2 /\ trail'[i].id = id
        <5>1. CASE i \in DOMAIN trail
          BY <3>4, <3>5, <4>1, <5>1, Recorded DEF Events
        <5>2. CASE i \notin DOMAIN trail
          <6>1. i - Len(trail) \in DOMAIN u /\ i = Len(trail) + (i - Len(trail))
            BY <3>4, <3>5, <5>2
          <6>2. trail'[i] = u[i - Len(trail)]
            BY <3>4, <3>5, <6>1
          <6> QED
            BY <3>4, <3>5, <4>1, <6>1, <6>2
        <5> QED
          BY <5>1, <5>2
      <4> QED
        BY <1>2, <3>3, <4>1 DEF WritesAreMoves, Events
    <3>6. CASE trail' = trail
      BY <1>2, <3>6 DEF WritesAreMoves, Events
    <3>7. ASSUME NEW k \in {"DECISION", "WRITE", "SUPERSEDE"}, NEW o \in {None, old}
          PROVE  Event(k, id, o) \in AuditEvents
      BY <3>4 DEF Event, AuditEvents
    <3>8. ASSUME NEW d \in AuditEvents, NEW e \in AuditEvents, NEW f \in AuditEvents,
                 d.kind # "WRITE", e.id = id, f.kind # "WRITE",
                 NEW u \in {<<d>>, <<d, e>>, <<d, e, f>>}, trail' = trail \o u
          PROVE  WritesAreMoves'
      <4> DEFINE Shape == /\ u \in Seq(AuditEvents)
                          /\ \A m \in DOMAIN u : u[m] \in {d, f} \/ (u[m] = e /\ m = 2)
      <4>1. ASSUME u = <<d>> PROVE Shape
        <5>1. u \in Seq(AuditEvents) /\ DOMAIN u = {1} /\ u[1] = d
          BY <4>1
        <5> QED
          BY <5>1
      <4>2. ASSUME u = <<d, e>> PROVE Shape
        <5>1. u \in Seq(AuditEvents) /\ DOMAIN u = {1, 2} /\ u[1] = d /\ u[2] = e
          BY <4>2
        <5> QED
          BY <5>1
      <4>3. ASSUME u = <<d, e, f>> PROVE Shape
        <5>1. /\ u \in Seq(AuditEvents) /\ DOMAIN u = {1, 2, 3}
              /\ u[1] = d /\ u[2] = e /\ u[3] = f
          BY <4>3
        <5> QED
          BY <5>1
      <4>4. Shape
        BY <3>8, <4>1, <4>2, <4>3, Zenon
      <4> QED
        BY <3>5, <3>8, <4>4, Zenon
    <3>9. ASSUME NEW o \in {None, old}
          PROVE  /\ Event("DECISION", id, o).kind # "WRITE"
                 /\ Event("SUPERSEDE", id, o).kind # "WRITE"
                 /\ Event("WRITE", id, None).id = id
      BY EventFields
    <3>10. ASSUME NEW o \in {None, old},
                  \/ trail' = trail \o <<Event("DECISION", id, o)>>
                  \/ trail' = trail \o <<Event("DECISION", id, o), Event("WRITE", id, None)>>
                  \/ trail' = trail \o <<Event("DECISION", id, o), Event("WRITE", id, None),
                                          Event("SUPERSEDE", id, o)>>
           PROVE  WritesAreMoves'
      BY <3>7, <3>8, <3>9, <3>10, Zenon
    <3> QED
      BY <3>1, <3>6, <3>10 DEF Told, id, old
  <2>2. CASE ~ \E w \in Workers : Apply(w)
    BY <1>2, <2>2, OnlyApplyWrites DEF WritesAreMoves, Events
  <2> QED
    BY <2>1, <2>2
<1>3. CASE ~ Redelivered
  BY <1>1, <1>2, <1>3, InitOnce, NextOnce, RowsAccounted, PTL DEF Spec
<1>4. CASE Redelivered
  BY <1>4
<1> QED
  BY <1>3, <1>4
=============================================================================
