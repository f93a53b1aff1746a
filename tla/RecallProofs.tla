----------------------------- MODULE RecallProofs -----------------------------
(***************************************************************************)
(* What the reads return, for any number of rows, workers and queries.     *)
(*                                                                         *)
(* A commit writes two rows: the new one, which no reader has seen, and    *)
(* its incumbent, whose interval it closes at the clock of its own begin.  *)
(* That the new row is not a visible one is the invariant.  So what is     *)
(* visible stays visible and what is retired stays retired (GoesOnwards),  *)
(* and a call that reads several times can lose a row from one list only   *)
(* to another that it reads later: the invariants of the two tools say     *)
(* which.                                                                  *)
(***************************************************************************)
EXTENDS Recall, EnumerationProofs

\* What is stored and what is being applied; the answers of readers are
\* nobody's premise.
RowTypes ==
    /\ now \in Moments
    /\ fact \in [Rows -> {"absent", "hidden", "visible"}]
    /\ from \in [Rows -> Moments]
    /\ to \in [Rows -> Moments \cup {None}]
    /\ job \in [Workers -> Jobs \cup {None}]

\* An id is drawn for one proposal only: nobody else is writing its row, and
\* nobody has.
RowsAreNew ==
    /\ \A w \in Workers : job[w] # None => fact[job[w].row] = "absent"
    /\ \A v, w \in Workers :
          v # w /\ job[v] # None /\ job[w] # None => job[v].row # job[w].row

IInv == RowTypes /\ RowsAreNew

LEMMA InitIInv == Init => IInv
  BY RecallAssumption DEF Init, IInv, RowTypes, RowsAreNew, Moments

\* What a step of the appliers and the relay does to them; a reader's step
\* does nothing.
LEMMA StepIInv == IInv /\ [Next]_vars => IInv'
<1> SUFFICES ASSUME IInv, [Next]_vars PROVE IInv'
  OBVIOUS
<1> USE RecallAssumption DEF IInv
<1>1. CASE Tick
  BY <1>1 DEF Tick, RowTypes, RowsAreNew, rowVars, Moments
<1>2. CASE UNCHANGED <<now, rowVars, job>>
  BY <1>2 DEF RowTypes, RowsAreNew, rowVars
<1>3. ASSUME NEW w \in Workers, Judge(w) PROVE IInv'
  <2>1. PICK r \in Rows :
          /\ fact[r] = "absent"
          /\ \A v \in Workers : job[v] # None => job[v].row # r
          /\ \E i \in {i \in Rows : Readable(i, None) /\ Predicate[i] = Predicate[r]}
                          \cup {None} :
               job' = [job EXCEPT ![w] = [row |-> r, over |-> i, at |-> None]]
    BY <1>3 DEF Judge
  <2>2. PICK i \in Rows \cup {None} :
          job' = [job EXCEPT ![w] = [row |-> r, over |-> i, at |-> None]]
    BY <2>1
  <2>3. RowTypes'
    BY <1>3, <2>2 DEF Judge, RowTypes, Jobs, rowVars
  <2>4. RowsAreNew'
    BY <1>3, <2>1, <2>2 DEF Judge, RowTypes, RowsAreNew, rowVars
  <2> QED
    BY <2>3, <2>4
<1>4. ASSUME NEW w \in Workers, Begin(w) PROVE IInv'
  <2>1. job[w] \in Jobs
    BY <1>4 DEF Begin, RowTypes
  <2>2. job' = [job EXCEPT ![w] = [job[w] EXCEPT !.at = now]]
    BY <1>4 DEF Begin
  <2>3. [job[w] EXCEPT !.at = now] \in Jobs /\ [job[w] EXCEPT !.at = now].row = job[w].row
    BY <2>1 DEF Jobs, RowTypes
  <2>4. RowTypes'
    BY <1>4, <2>2, <2>3 DEF Begin, RowTypes, rowVars
  <2>5. RowsAreNew'
    BY <1>4, <2>2, <2>3 DEF Begin, RowTypes, RowsAreNew, rowVars
  <2> QED
    BY <2>4, <2>5
<1>5. ASSUME NEW w \in Workers, Commit(w) PROVE IInv'
  <2>1. job[w] \in Jobs /\ job[w] # None /\ job[w].at # None
    BY <1>5 DEF Commit, RowTypes
  <2>2. job[w].row \in Rows /\ job[w].over \in Rows \cup {None} /\ job[w].at \in Moments
    BY <2>1 DEF Jobs
  <2>3. to' \in [Rows -> Moments \cup {None}]
    BY <1>5, <2>2 DEF Commit, Retires, RowTypes
  <2>4. PICK date \in Moments : from' = [from EXCEPT ![job[w].row] = date]
    BY <1>5 DEF Commit
  <2>5. from' \in [Rows -> Moments]
    BY <2>2, <2>4 DEF RowTypes
  <2>6. /\ fact' = [fact EXCEPT ![job[w].row] = "hidden"]
        /\ job' = [job EXCEPT ![w] = None]
        /\ now' = now
    BY <1>5 DEF Commit
  <2>7. RowTypes'
    BY <2>2, <2>3, <2>5, <2>6 DEF RowTypes
  <2>8. RowsAreNew'
    BY <2>1, <2>2, <2>6 DEF RowTypes, RowsAreNew
  <2> QED
    BY <2>7, <2>8
<1>6. ASSUME NEW w \in Workers, RollBack(w) PROVE IInv'
  BY <1>6 DEF RollBack, RowTypes, RowsAreNew, rowVars
<1>7. ASSUME NEW r \in Rows, Reveal(r) PROVE IInv'
  <2>1. RowTypes'
    BY <1>7 DEF Reveal, RowTypes
  <2>2. RowsAreNew'
    BY <1>7 DEF Reveal, RowTypes, RowsAreNew, Jobs
  <2> QED
    BY <2>1, <2>2
<1>8. ASSUME NEW r \in Rows, Link(r) PROVE IInv'
  BY <1>2, <1>8 DEF Link, rowVars
<1>9. CASE BeginSearch \/ BeginEntity \/ ReadNearest \/ ReadRetired \/ WalkGraph \/ Reply
  BY <1>2, <1>9 DEF BeginSearch, BeginEntity, ReadNearest, ReadRetired, WalkGraph, Reply
<1> QED
  BY <1>1, <1>2, <1>3, <1>4, <1>5, <1>6, <1>7, <1>8, <1>9 DEF Next, vars

LEMMA Invariant == Spec => []IInv
  BY InitIInv, StepIInv, PTL DEF Spec

\* One row at one past moment, over one step.
LEMMA StepPast ==
    ASSUME IInv, [Next]_vars,
           NEW r \in Rows, NEW t \in 0..(now - 1),
           Readable(r, t),
           \A w \in Workers : job[w] # None /\ job[w].at # None => t < job[w].at
    PROVE  Readable(r, t)'
<1> USE RecallAssumption DEF IInv
<1>1. t # None
  BY DEF RowTypes, Moments
<1>2. fact[r] = "visible" /\ HeldAt(r, t)
  BY <1>1 DEF Readable
<1>3. CASE UNCHANGED rowVars
  BY <1>3 DEF rowVars, Readable, HeldAt, Live
<1>4. ASSUME NEW q \in Rows, Reveal(q) PROVE Readable(r, t)'
  <2>1. fact'[r] = "visible" /\ UNCHANGED <<from, to>>
    BY <1>2, <1>4 DEF Reveal, RowTypes
  <2> QED
    BY <1>1, <1>2, <2>1 DEF Readable, HeldAt, Live
<1>5. ASSUME NEW w \in Workers, Commit(w) PROVE Readable(r, t)'
  <2>1. job[w] # None /\ job[w].at # None /\ job[w] \in Jobs
    BY <1>5 DEF Commit, RowTypes
  <2>2. job[w].row # r
    BY <1>2, <2>1 DEF RowsAreNew
  <2>3. fact'[r] = "visible" /\ from'[r] = from[r]
    BY <1>2, <1>5, <2>2 DEF Commit, RowTypes
  <2>4. to'[r] = to[r] \/ to'[r] = job[w].at
    BY <1>5, <2>1 DEF Commit, Retires, RowTypes, Jobs
  <2>5. job[w].at > t
    BY <2>1 DEF Jobs, Moments, RowTypes
  <2> QED
    BY <1>1, <1>2, <2>3, <2>4, <2>5 DEF Readable, HeldAt, Live
<1>6. ASSUME NEW w \in Workers, Judge(w) \/ Begin(w) \/ RollBack(w) PROVE Readable(r, t)'
  BY <1>3, <1>6 DEF Judge, Begin, RollBack
<1>7. ASSUME NEW q \in Rows, Link(q) PROVE Readable(r, t)'
  BY <1>3, <1>7 DEF Link
<1>8. CASE \/ Tick \/ BeginSearch \/ BeginEntity
           \/ ReadNearest \/ ReadRetired \/ WalkGraph \/ Reply
  BY <1>3, <1>8 DEF Tick, BeginSearch, BeginEntity, ReadNearest, ReadRetired, WalkGraph, Reply
<1>9. CASE UNCHANGED vars
  BY <1>3, <1>9 DEF vars
<1> QED
  BY <1>4, <1>5, <1>6, <1>7, <1>8, <1>9 DEF Next

\* applier.apply, supersede_in: whatever the clients' dates, an answer about a
\* past moment is not withdrawn by an apply that begins after it.
THEOREM PastIsFinal == Spec => PastStands
<1>1. IInv /\ [Next]_vars =>
        [\A r \in Rows : \A t \in 0..(now - 1) :
          /\ Readable(r, t)
          /\ \A w \in Workers : job[w] # None /\ job[w].at # None => t < job[w].at
          => Readable(r, t)']_vars
  BY StepPast
<1> QED
  BY <1>1, Invariant, PTL DEF Spec, PastStands

---------------------------------------------------------------------------
(* The lists a query returns and a call merges.                            *)

\* LIMIT: whoever is missing from the first n is missing because n were given.
LEMMA FirstOf ==
    ASSUME NEW X, NEW s \in Seq(X), NEW n \in Nat
    PROVE  /\ First(s, n) \in Seq(X) /\ Len(First(s, n)) <= n /\ Len(First(s, n)) <= Len(s)
           /\ ToSet(First(s, n)) \subseteq ToSet(s)
           /\ \A i \in DOMAIN First(s, n) : i \in DOMAIN s /\ First(s, n)[i] = s[i]
           /\ \A x \in ToSet(s) : x \in ToSet(First(s, n)) \/ (Len(First(s, n)) = n /\ n < Len(s))
<1> DEFINE m == IF n < Len(s) THEN n ELSE Len(s)
           t == First(s, n)
<1>1. m \in 0..Len(s) /\ m <= n /\ Len(s) \in Nat /\ DOMAIN s = 1..Len(s)
  OBVIOUS
<1>2. t = SubSeq(s, 1, m)
  BY DEF First
<1>3. n < Len(s) => m = n
  OBVIOUS
<1>4. ~(n < Len(s)) => m = Len(s)
  OBVIOUS
<1> HIDE DEF m, t
<1>5. t \in Seq(X) /\ Len(t) = m /\ DOMAIN t = 1..m /\ \A i \in 1..m : t[i] = s[i]
  BY <1>1, <1>2
<1>6. \A i \in DOMAIN t : i \in DOMAIN s /\ t[i] = s[i]
  BY <1>1, <1>5
<1>7. ToSet(t) \subseteq ToSet(s)
  BY <1>6 DEF ToSet
<1>8. ~(n < Len(s)) => ToSet(t) = ToSet(s)
  BY <1>1, <1>4, <1>5, <1>6 DEF ToSet
<1> QED
  BY <1>1, <1>3, <1>5, <1>6, <1>7, <1>8 DEF t

Distinct(s) == \A i, j \in DOMAIN s : i # j => s[i] # s[j]

LEMMA HeadAndTail ==
    ASSUME NEW X, NEW s \in Seq(X), s # <<>>
    PROVE  /\ Head(s) \in ToSet(s) /\ Tail(s) \in Seq(X)
           /\ ToSet(s) = {Head(s)} \cup ToSet(Tail(s))
<1>1. /\ Tail(s) \in Seq(X) /\ DOMAIN s = 1..Len(s) /\ Len(s) \in Nat /\ Len(s) # 0
      /\ DOMAIN Tail(s) = 1..(Len(s) - 1)
      /\ \A i \in 1..(Len(s) - 1) : Tail(s)[i] = s[i + 1]
      /\ Head(s) = s[1]
  OBVIOUS
<1>2. \A i \in DOMAIN s : i = 1 \/ (i - 1 \in DOMAIN Tail(s) /\ s[i] = Tail(s)[i - 1])
  BY <1>1
<1>3. 1 \in DOMAIN s /\ \A i \in DOMAIN Tail(s) : i + 1 \in DOMAIN s /\ Tail(s)[i] = s[i + 1]
  BY <1>1
<1> QED
  BY <1>1, <1>2, <1>3 DEF ToSet

LEMMA HowMany ==
    ASSUME NEW X, NEW s \in Seq(X)
    PROVE  /\ IsFiniteSet(ToSet(s)) /\ Cardinality(ToSet(s)) \in Nat
           /\ Cardinality(ToSet(s)) <= Len(s)
           /\ Distinct(s) => Cardinality(ToSet(s)) = Len(s)
<1>1. DOMAIN s = 1..Len(s) /\ Len(s) \in Nat
  OBVIOUS
<1>2. IsFiniteSet(DOMAIN s) /\ Cardinality(DOMAIN s) = Len(s)
  BY <1>1, IntervalSize
<1>3. s \in Surjection(DOMAIN s, ToSet(s))
  BY <1>1 DEF ToSet, Surjection
<1>4. IsFiniteSet(ToSet(s)) /\ Cardinality(ToSet(s)) <= Cardinality(DOMAIN s)
  BY <1>2, <1>3, FS_Surjection
<1>5. ASSUME Distinct(s) PROVE Cardinality(ToSet(s)) = Len(s)
  <2>1. s \in Bijection(DOMAIN s, ToSet(s))
    BY <1>3, <1>5 DEF Distinct, Bijection, Injection, IsInjective, Surjection
  <2>2. ExistsBijection(DOMAIN s, ToSet(s))
    BY <2>1 DEF ExistsBijection
  <2> QED
    BY <1>2, <2>2, FS_Bijection
<1> QED
  BY <1>2, <1>4, <1>5, FS_CardinalityType

\* dict.setdefault: nothing is lost, and nothing is counted twice.
LEMMA MergeHolds ==
    ASSUME NEW X, NEW s \in Seq(X), NEW t \in Seq(X)
    PROVE  /\ Merged(s, t) \in Seq(X)
           /\ ToSet(Merged(s, t)) = ToSet(s) \cup ToSet(t)
           /\ Len(s) <= Len(Merged(s, t))
           /\ Distinct(t) => Len(t) <= Len(Merged(s, t))
<1> DEFINE I == {i \in DOMAIN t : t[i] \notin ToSet(s)}
           new == Pick(t, I)
           m == Merged(s, t)
<1>1. /\ new \in Seq(X)
      /\ \A k \in DOMAIN new : \E i \in I : new[k] = t[i]
      /\ \A i \in I : \E k \in DOMAIN new : new[k] = t[i]
  <2>1. I \in SUBSET DOMAIN t
    OBVIOUS
  <2> HIDE DEF I
  <2>2. /\ new \in Seq(X)
        /\ \A k \in DOMAIN new : Ascending(I)[k] \in I /\ new[k] = t[Ascending(I)[k]]
        /\ \A i \in I : \E k \in DOMAIN new : new[k] = t[i]
    BY <2>1, Picked
  <2> QED
    BY <2>2
<1>2. m = s \o new
  BY DEF Merged
<1>3. ToSet(new) = {t[i] : i \in I}
  <2> HIDE DEF new, I
  <2> QED
    BY <1>1 DEF ToSet
<1>4. ToSet(s) \cup ToSet(new) = ToSet(s) \cup ToSet(t)
  BY <1>3 DEF ToSet
<1> HIDE DEF new, m
<1>5. /\ m \in Seq(X) /\ Len(m) = Len(s) + Len(new) /\ Len(new) \in Nat /\ Len(s) \in Nat
      /\ DOMAIN m = 1..Len(m) /\ DOMAIN s = 1..Len(s) /\ DOMAIN new = 1..Len(new)
      /\ \A i \in DOMAIN m : m[i] = IF i <= Len(s) THEN s[i] ELSE new[i - Len(s)]
  BY <1>1, <1>2
<1>6. ToSet(m) = ToSet(s) \cup ToSet(new)
  <2>1. \A i \in DOMAIN m : m[i] \in ToSet(s) \cup ToSet(new)
    BY <1>5 DEF ToSet
  <2>2. \A i \in DOMAIN s : i \in DOMAIN m /\ m[i] = s[i]
    BY <1>5
  <2>3. \A k \in DOMAIN new : k + Len(s) \in DOMAIN m /\ m[k + Len(s)] = new[k]
    BY <1>5
  <2> QED
    BY <2>1, <2>2, <2>3 DEF ToSet
<1>7. ASSUME Distinct(t) PROVE Len(t) <= Len(m)
  <2>1. Cardinality(ToSet(t)) = Len(t) /\ Cardinality(ToSet(t)) \in Nat
    BY <1>7, HowMany
  <2>2. IsFiniteSet(ToSet(m)) /\ Cardinality(ToSet(m)) <= Len(m) /\ Cardinality(ToSet(m)) \in Nat
    BY <1>5, HowMany
  <2>3. Cardinality(ToSet(t)) <= Cardinality(ToSet(m))
    BY <1>4, <1>6, <2>2, FS_Subset
  <2> QED
    BY <1>5, <2>1, <2>2, <2>3
<1> QED
  BY <1>4, <1>5, <1>6, <1>7 DEF m

\* VectorStore.search: the rows it may return, all of them unless the limit is
\* reached, each once.
LEMMA NearestHolds ==
    ASSUME NEW p, NEW asOf, NEW k \in Nat
    PROVE  LET near == Nearest(p, asOf, k)
               rows == {r \in Rows : Readable(r, asOf) /\ InScope(r, p)}
           IN /\ near \in Seq(Rows) /\ Distinct(near) /\ ToSet(near) \subseteq rows
              /\ \A r \in rows : r \in ToSet(near) \/ Len(near) = k
<1> DEFINE rows == {r \in Rows : Readable(r, asOf) /\ InScope(r, p)}
           s == Ascending(rows)
           near == Nearest(p, asOf, k)
<1>1. rows \in SUBSET Rows /\ rows \in SUBSET Int /\ IsFiniteSet(rows)
  <2>1. rows \in SUBSET Rows
    OBVIOUS
  <2> HIDE DEF rows
  <2>2. Rows \in SUBSET Int /\ IsFiniteSet(Rows)
    BY RecallAssumption
  <2>3. IsFiniteSet(rows)
    BY <2>1, <2>2, FS_Subset
  <2> QED
    BY <2>1, <2>2, <2>3
<1> HIDE DEF rows
<1>2. /\ s \in Seq(rows) /\ \A r \in rows : \E i \in DOMAIN s : s[i] = r
      /\ \A i, j \in DOMAIN s : i < j => s[i] < s[j]
  <2> HIDE DEF s
  <2> QED
    BY <1>1, AscendingEnumerates DEF s
<1>3. near = First(s, k)
  BY DEF Nearest, rows
<1> HIDE DEF s, near
<1>4. DOMAIN s = 1..Len(s) /\ Len(s) \in Nat /\ \A i \in DOMAIN s : s[i] \in rows
  BY <1>2
<1>5. /\ near \in Seq(rows)
      /\ \A i \in DOMAIN near : i \in DOMAIN s /\ near[i] = s[i]
      /\ \A x \in ToSet(s) : x \in ToSet(near) \/ Len(near) = k
      /\ ToSet(near) \subseteq ToSet(s)
  BY <1>2, <1>3, FirstOf
<1>6. ToSet(s) = rows
  BY <1>2, <1>4 DEF ToSet
<1>7. Distinct(near)
  <2>1. ASSUME NEW i \in DOMAIN near, NEW j \in DOMAIN near, i < j PROVE near[i] # near[j]
    <3>1. near[i] = s[i] /\ near[j] = s[j] /\ s[i] < s[j] /\ s[i] \in Int /\ s[j] \in Int
      BY <1>1, <1>2, <1>4, <1>5, <2>1
    <3> QED
      BY <3>1
  <2>2. \A i \in DOMAIN near : i \in Int
    BY <1>4, <1>5
  <2> QED
    BY <2>1, <2>2 DEF Distinct
<1>8. near \in Seq(Rows)
  <2>1. rows \subseteq Rows
    BY <1>1
  <2> QED
    BY <1>5, <2>1
<1> QED
  BY <1>5, <1>6, <1>7, <1>8 DEF rows, near

LEMMA NewestOrders ==
    ASSUME RowTypes, NEW p
    PROVE  Orders(NewestFirst(Dead(p)), Dead(p))
<1> DEFINE S == Dead(p)
           le == NewestFirst(S)
<1>1. \A r \in S : r \in Int /\ to[r] \in Int
  BY RecallAssumption DEF Dead, Live, RowTypes, Moments
<1>2. \A x, y \in S : <<x, y>> \in le <=> to[x] > to[y] \/ (to[x] = to[y] /\ x <= y)
  BY DEF NewestFirst
<1> HIDE DEF S, le
<1> QED
  BY <1>1, <1>2 DEF Orders, S, le

\* VectorStore.retired, likewise.
LEMMA RetiredHolds ==
    ASSUME RowTypes, NEW p
    PROVE  LET gone == Retired(p)
           IN /\ gone \in Seq(Rows) /\ Distinct(gone)
              /\ \A r \in Dead(p) : r \in ToSet(gone) \/ Len(gone) = ExcludedLimit
<1> DEFINE S == Dead(p)
           s == InOrder(S, NewestFirst(S))
           gone == Retired(p)
<1>1. S \in SUBSET Rows /\ IsFiniteSet(S) /\ ExcludedLimit \in Nat
  BY RecallAssumption, FS_Subset DEF Dead
<1>2. Orders(NewestFirst(S), S)
  BY NewestOrders
<1> HIDE DEF S
<1>3. /\ s \in Seq(S) /\ DOMAIN s = 1..Cardinality(S) /\ Cardinality(S) \in Nat
      /\ \A r \in S : \E i \in DOMAIN s : s[i] = r
      /\ \A i, j \in DOMAIN s : i < j => s[i] # s[j]
  <2> HIDE DEF s
  <2> QED
    BY <1>1, <1>2, InOrderEnumerates DEF s
<1>4. gone = First(s, ExcludedLimit)
  BY DEF Retired, S
<1> HIDE DEF s, gone
<1>5. /\ gone \in Seq(S)
      /\ \A i \in DOMAIN gone : i \in DOMAIN s /\ gone[i] = s[i]
      /\ \A x \in ToSet(s) : x \in ToSet(gone) \/ Len(gone) = ExcludedLimit
  BY <1>1, <1>3, <1>4, FirstOf
<1>6. \A r \in S : r \in ToSet(s)
  BY <1>3 DEF ToSet
<1>7. Distinct(gone)
  <2>1. \A i \in DOMAIN gone : i \in Int
    BY <1>3, <1>5
  <2>2. ASSUME NEW i \in DOMAIN gone, NEW j \in DOMAIN gone, i < j PROVE gone[i] # gone[j]
    BY <1>3, <1>5, <2>2
  <2> QED
    BY <2>1, <2>2 DEF Distinct
<1>8. gone \in Seq(Rows)
  BY <1>1, <1>5
<1> QED
  BY <1>5, <1>6, <1>7, <1>8 DEF S, gone

---------------------------------------------------------------------------
(* The call under way.                                                     *)

Names == {Predicate[r] : r \in Rows} \cup {"any"}

Asks == [tool : {"search", "entity"}, asOf : Dates, limit : Nat, room : Nat,
         search : Seq(Names), retired : Seq(Names), walk : BOOLEAN, had : SUBSET Rows,
         hits : Seq(Rows), excluded : Seq(Rows), neighbours : SUBSET Rows,
         graph_backed : BOOLEAN]

AskOK == ask \in Asks \cup {None}

\* What is seen stays to be seen, and what is over stays over.
Onwards == \A r \in Rows : /\ fact[r] = "visible" => fact'[r] = "visible"
                           /\ ~Live(r) => ~Live(r)'

LEMMA GoesOnwards ==
    ASSUME IInv, [Next]_vars PROVE Onwards
<1> USE RecallAssumption DEF IInv, Onwards, Live
<1>1. ASSUME UNCHANGED rowVars PROVE Onwards
  BY <1>1 DEF rowVars
<1>2. ASSUME NEW q \in Rows, Reveal(q) PROVE Onwards
  BY <1>2 DEF Reveal, RowTypes
<1>3. ASSUME NEW w \in Workers, Commit(w) PROVE Onwards
  <2>1. job[w] # None /\ job[w].at # None /\ job[w] \in Jobs
    BY <1>3 DEF Commit, RowTypes
  <2>2. fact[job[w].row] = "absent"
    BY <2>1 DEF RowsAreNew
  <2>3. fact' = [fact EXCEPT ![job[w].row] = "hidden"]
    BY <1>3 DEF Commit
  <2>4. \A r \in Rows : to'[r] = to[r] \/ to'[r] = job[w].at
    BY <1>3, <2>1 DEF Commit, Retires, RowTypes, Jobs
  <2>5. \A r \in Rows : fact[r] = "visible" => fact'[r] = "visible"
    BY <2>2, <2>3 DEF RowTypes
  <2> QED
    BY <2>1, <2>4, <2>5
<1>4. ASSUME NEW w \in Workers, Judge(w) \/ Begin(w) \/ RollBack(w) PROVE Onwards
  BY <1>1, <1>4 DEF Judge, Begin, RollBack
<1>5. ASSUME NEW q \in Rows, Link(q) PROVE Onwards
  BY <1>1, <1>5 DEF Link
<1>6. CASE \/ Tick \/ BeginSearch \/ BeginEntity
           \/ ReadNearest \/ ReadRetired \/ WalkGraph \/ Reply
  BY <1>1, <1>6 DEF Tick, BeginSearch, BeginEntity, ReadNearest, ReadRetired, WalkGraph, Reply
<1>7. CASE UNCHANGED vars
  BY <1>1, <1>7 DEF vars
<1> QED
  BY <1>2, <1>3, <1>4, <1>5, <1>6, <1>7 DEF Next

\* The steps of the call, each as a change of the record.
LEMMA AskSteps ==
    ASSUME AskOK, [Next]_vars
    PROVE  \/ UNCHANGED ask \/ ask' = None
           \/ BeginSearch \/ BeginEntity
           \/ ask \in Asks /\ (ReadNearest \/ ReadRetired \/ WalkGraph)
<1>1. CASE Tick \/ \E r \in Rows : Link(r) \/ Reveal(r)
  BY <1>1 DEF Tick, Link, Reveal
<1>2. CASE \E w \in Workers : Judge(w) \/ Begin(w) \/ Commit(w) \/ RollBack(w)
  <2>1. UNCHANGED ask
    BY <1>2, Zenon DEF Judge, Begin, Commit, RollBack
  <2> QED
    BY <2>1
<1>3. CASE ReadNearest \/ ReadRetired \/ WalkGraph
  BY <1>3 DEF AskOK, ReadNearest, ReadRetired, RetiredIsRead, WalkGraph, GraphIsWalked
<1>4. CASE Reply \/ UNCHANGED vars
  BY <1>4 DEF Reply, vars
<1> QED
  BY <1>1, <1>2, <1>3, <1>4 DEF Next

\* One answer is merged in.
LEMMA NearestIsMerged ==
    ASSUME ask \in Asks, ReadNearest
    PROVE  LET p == Head(ask.search)
               near == Nearest(p, ask.asOf, ask.limit)
           IN /\ ask' = [ask EXCEPT !.search = Tail(ask.search), !.hits = Merged(ask.hits, near)]
              /\ p \in ToSet(ask.search)
              /\ ToSet(ask.search) = {p} \cup ToSet(Tail(ask.search))
              /\ Tail(ask.search) \in Seq(Names)
              /\ Merged(ask.hits, near) \in Seq(Rows)
              /\ ToSet(Merged(ask.hits, near)) = ToSet(ask.hits) \cup ToSet(near)
              /\ Len(ask.hits) <= Len(Merged(ask.hits, near))
              /\ Len(near) <= Len(Merged(ask.hits, near))
              /\ UNCHANGED <<now, rowVars, edge, job>>
<1> DEFINE p == Head(ask.search)
           near == Nearest(p, ask.asOf, ask.limit)
<1>1. /\ ask.search \in Seq(Names) /\ ask.search # <<>> /\ ask.limit \in Nat
      /\ ask.hits \in Seq(Rows)
  BY DEF ReadNearest, Asks
<1>2. near \in Seq(Rows) /\ Distinct(near)
  BY <1>1, NearestHolds
<1> HIDE DEF near
<1>3. /\ Merged(ask.hits, near) \in Seq(Rows)
      /\ ToSet(Merged(ask.hits, near)) = ToSet(ask.hits) \cup ToSet(near)
      /\ Len(ask.hits) <= Len(Merged(ask.hits, near))
      /\ Len(near) <= Len(Merged(ask.hits, near))
  BY <1>1, <1>2, MergeHolds
<1>4. /\ p \in ToSet(ask.search) /\ Tail(ask.search) \in Seq(Names)
      /\ ToSet(ask.search) = {p} \cup ToSet(Tail(ask.search))
  BY <1>1, HeadAndTail
<1>5. /\ ask' = [ask EXCEPT !.search = Tail(ask.search), !.hits = Merged(ask.hits, near)]
      /\ UNCHANGED <<now, rowVars, edge, job>>
  BY DEF ReadNearest, near
<1> QED
  BY <1>3, <1>4, <1>5 DEF near

LEMMA RetiredIsMerged ==
    ASSUME RowTypes, ask \in Asks, ReadRetired
    PROVE  LET p == Head(ask.retired)
               gone == Retired(p)
           IN /\ ask' = [ask EXCEPT !.retired = Tail(ask.retired),
                                    !.excluded = Merged(ask.excluded, gone)]
              /\ ask.search = <<>>
              /\ ToSet(ask.retired) = {p} \cup ToSet(Tail(ask.retired))
              /\ Tail(ask.retired) \in Seq(Names)
              /\ Merged(ask.excluded, gone) \in Seq(Rows)
              /\ ToSet(Merged(ask.excluded, gone)) = ToSet(ask.excluded) \cup ToSet(gone)
              /\ Len(ask.excluded) <= Len(Merged(ask.excluded, gone))
              /\ Len(gone) <= Len(Merged(ask.excluded, gone))
              /\ UNCHANGED <<now, rowVars, edge, job>>
<1> DEFINE p == Head(ask.retired)
           gone == Retired(p)
<1>1. ask.retired \in Seq(Names) /\ ask.retired # <<>> /\ ask.excluded \in Seq(Rows)
  BY DEF ReadRetired, RetiredIsRead, Asks
<1>2. gone \in Seq(Rows) /\ Distinct(gone)
  BY RetiredHolds
<1> HIDE DEF gone
<1>3. /\ Merged(ask.excluded, gone) \in Seq(Rows)
      /\ ToSet(Merged(ask.excluded, gone)) = ToSet(ask.excluded) \cup ToSet(gone)
      /\ Len(ask.excluded) <= Len(Merged(ask.excluded, gone))
      /\ Len(gone) <= Len(Merged(ask.excluded, gone))
  BY <1>1, <1>2, MergeHolds
<1>4. /\ Tail(ask.retired) \in Seq(Names)
      /\ ToSet(ask.retired) = {p} \cup ToSet(Tail(ask.retired))
  BY <1>1, HeadAndTail
<1>5. /\ ask' = [ask EXCEPT !.retired = Tail(ask.retired), !.excluded = Merged(ask.excluded, gone)]
      /\ ask.search = <<>>
      /\ UNCHANGED <<now, rowVars, edge, job>>
  BY DEF ReadRetired, RetiredIsRead, gone
<1> QED
  BY <1>3, <1>4, <1>5 DEF gone

LEMMA StepAskOK == IInv /\ AskOK /\ [Next]_vars => AskOK'
<1> SUFFICES ASSUME IInv, AskOK, [Next]_vars PROVE AskOK'
  OBVIOUS
<1> USE DEF AskOK
<1>1. CASE UNCHANGED ask \/ ask' = None
  BY <1>1
<1>2. CASE BeginSearch
  <2>1. PICK scopes \in Scopes, asOf \in Dates, limit \in Limits, room \in Rooms :
          ask' = [tool |-> "search", asOf |-> asOf, limit |-> limit, room |-> room,
                  search |-> scopes, retired |-> scopes, walk |-> FALSE,
                  had |-> {r \in Rows : Readable(r, None)
                                          /\ \E p \in ToSet(scopes) : InScope(r, p)},
                  hits |-> <<>>, excluded |-> <<>>, neighbours |-> {},
                  graph_backed |-> FALSE]
    BY <1>2 DEF BeginSearch
  <2>2. scopes \in Seq(Names) /\ limit \in Nat /\ room \in Nat /\ <<>> \in Seq(Rows)
    BY RecallAssumption DEF Names
  <2> QED
    BY <2>1, <2>2 DEF Asks
<1>3. CASE BeginEntity
  <2>1. PICK asOf \in Dates, durable \in BOOLEAN :
          ask' = [tool |-> "entity", asOf |-> asOf, limit |-> Cardinality(Rows), room |-> 0,
                  search |-> <<"any">>, retired |-> <<>>, walk |-> TRUE,
                  had |-> {}, hits |-> <<>>, excluded |-> <<>>, neighbours |-> {},
                  graph_backed |-> durable]
    BY <1>3 DEF BeginEntity
  <2>2. <<"any">> \in Seq(Names) /\ <<>> \in Seq(Names) /\ <<>> \in Seq(Rows)
    BY DEF Names
  <2>3. Cardinality(Rows) \in Nat
    BY RecallAssumption, FS_CardinalityType
  <2> QED
    BY <2>1, <2>2, <2>3 DEF Asks
<1>4. CASE ask \in Asks /\ ReadNearest
  BY <1>4, NearestIsMerged DEF Asks
<1>5. CASE ask \in Asks /\ ReadRetired
  BY <1>5, RetiredIsMerged DEF Asks, IInv
<1>6. CASE ask \in Asks /\ WalkGraph
  <2>1. PICK found \in SUBSET Rows :
          ask' = [ask EXCEPT !.walk = FALSE, !.neighbours = found]
    BY <1>6 DEF WalkGraph, Walks
  <2> QED
    BY <1>6, <2>1 DEF Asks
<1> QED
  BY <1>1, <1>2, <1>3, <1>4, <1>5, <1>6, AskSteps

---------------------------------------------------------------------------
(* memory.get_entity: what the store gave has its edge in the graph.       *)

\* A row is revealed when it has an edge, and the graph is told of no end
\* that has not come.
EdgesOK ==
    /\ edge \in [Rows -> {"none", "live", "retired"}]
    /\ \A r \in Rows : /\ fact[r] = "visible" => edge[r] # "none"
                       /\ edge[r] = "retired" => ~Live(r)

LEMMA StepEdgesOK == IInv /\ EdgesOK /\ [Next]_vars => EdgesOK'
<1> SUFFICES ASSUME IInv, EdgesOK, [Next]_vars PROVE EdgesOK'
  OBVIOUS
<1>1. \A r \in Rows : ~Live(r) => ~Live(r)'
  BY GoesOnwards DEF Onwards
<1> USE DEF EdgesOK, IInv
<1>2. ASSUME UNCHANGED <<rowVars, edge>> PROVE EdgesOK'
  BY <1>2 DEF rowVars, Live
<1>3. ASSUME NEW q \in Rows, Reveal(q) PROVE EdgesOK'
  BY <1>3 DEF Reveal, Live, RowTypes
<1>4. ASSUME NEW q \in Rows, Link(q) PROVE EdgesOK'
  <2>1. PICK image \in {"live"} \cup (IF Live(q) THEN {} ELSE {"retired"}) :
          edge' = [edge EXCEPT ![q] = image]
    BY <1>4 DEF Link
  <2>2. image = "live" \/ (image = "retired" /\ ~Live(q))
    BY <2>1
  <2>3. UNCHANGED rowVars
    BY <1>4 DEF Link
  <2> QED
    BY <2>1, <2>2, <2>3 DEF rowVars, Live
<1>5. ASSUME NEW w \in Workers, Commit(w) PROVE EdgesOK'
  <2>1. job[w] # None /\ job[w] \in Jobs
    BY <1>5 DEF Commit, RowTypes
  <2>2. fact' = [fact EXCEPT ![job[w].row] = "hidden"] /\ edge' = edge
    BY <1>5 DEF Commit
  <2>3. \A r \in Rows : fact'[r] = "visible" => fact[r] = "visible"
    BY <2>1, <2>2 DEF RowTypes, Jobs
  <2> QED
    BY <1>1, <2>2, <2>3
<1>6. ASSUME NEW w \in Workers, Judge(w) \/ Begin(w) \/ RollBack(w) PROVE EdgesOK'
  BY <1>2, <1>6 DEF Judge, Begin, RollBack
<1>7. CASE \/ Tick \/ BeginSearch \/ BeginEntity
           \/ ReadNearest \/ ReadRetired \/ WalkGraph \/ Reply
  BY <1>2, <1>7 DEF Tick, BeginSearch, BeginEntity, ReadNearest, ReadRetired, WalkGraph, Reply
<1>8. CASE UNCHANGED vars
  BY <1>2, <1>8 DEF vars
<1> QED
  BY <1>3, <1>4, <1>5, <1>6, <1>7, <1>8 DEF Next

\* The hits are visible rows; once a durable graph is walked no query is left,
\* and whichever hit it did not give has been retired.
EntityInv ==
    ask # None /\ ask.tool = "entity" =>
        /\ \A r \in ToSet(ask.hits) : r \in Rows /\ fact[r] = "visible"
        /\ ask.graph_backed /\ ~ask.walk =>
                        /\ ask.search = <<>>
                        /\ \A r \in ToSet(ask.hits) : r \in ask.neighbours \/ ~Live(r)

LEMMA StepEntityInv ==
    IInv /\ AskOK /\ EdgesOK /\ EntityInv /\ [Next]_vars => EntityInv'
<1> SUFFICES ASSUME IInv, AskOK, EdgesOK, EntityInv, [Next]_vars PROVE EntityInv'
  OBVIOUS
<1>1. CASE UNCHANGED ask
  BY <1>1, GoesOnwards DEF EntityInv, Onwards
<1>2. CASE ask' = None
  BY <1>2 DEF EntityInv
<1>3. CASE BeginSearch
  <2>1. ask'.tool = "search"
    BY <1>3 DEF BeginSearch
  <2> QED
    BY <2>1 DEF EntityInv
<1>4. CASE BeginEntity
  <2>1. ask'.hits = <<>> /\ ask'.walk = TRUE
    BY <1>4 DEF BeginEntity
  <2>2. ToSet(<<>>) = {}
    BY DEF ToSet
  <2> QED
    BY <2>1, <2>2 DEF EntityInv
<1>5. CASE ask \in Asks /\ ReadNearest
  <2> DEFINE near == Nearest(Head(ask.search), ask.asOf, ask.limit)
  <2>1. /\ ask' = [ask EXCEPT !.search = Tail(ask.search), !.hits = Merged(ask.hits, near)]
        /\ ToSet(Merged(ask.hits, near)) = ToSet(ask.hits) \cup ToSet(near)
        /\ UNCHANGED <<now, rowVars, edge, job>>
    BY <1>5, NearestIsMerged
  <2>2. \A r \in ToSet(near) : r \in Rows /\ fact[r] = "visible"
    <3>1. ask.limit \in Nat
      BY <1>5 DEF Asks
    <3> QED
      BY <3>1, NearestHolds DEF Readable
  <2> HIDE DEF near
  <2>3. /\ ask'.hits = Merged(ask.hits, near) /\ ask'.walk = ask.walk /\ ask'.tool = ask.tool
        /\ ask'.graph_backed = ask.graph_backed
        /\ ask.search # <<>> /\ ask # None
    BY <1>5, <2>1 DEF Asks, ReadNearest
  <2>4. fact' = fact
    BY <2>1 DEF rowVars
  <2> QED
    BY <2>1, <2>2, <2>3, <2>4 DEF EntityInv
<1>6. CASE ask \in Asks /\ ReadRetired
  <2>1. /\ ask'.tool = ask.tool /\ ask'.hits = ask.hits /\ ask'.walk = ask.walk
        /\ ask'.search = ask.search /\ ask'.neighbours = ask.neighbours
        /\ ask'.graph_backed = ask.graph_backed
        /\ UNCHANGED rowVars /\ ask # None
    BY <1>6 DEF ReadRetired, RetiredIsRead, Asks
  <2> QED
    BY <2>1 DEF EntityInv, Live, rowVars
<1>7. CASE ask \in Asks /\ WalkGraph
  <2>1. /\ ask'.tool = ask.tool /\ ask'.hits = ask.hits
        /\ ask'.search = ask.search /\ ask'.graph_backed = ask.graph_backed
        /\ ask.graph_backed => ask'.neighbours = {r \in Rows : edge[r] = "live"}
        /\ UNCHANGED rowVars /\ ask # None /\ ask.search = <<>>
    BY <1>7 DEF WalkGraph, Walks, GraphIsWalked, Asks
  <2>2. \A r \in Rows : fact[r] = "visible" => edge[r] = "live" \/ ~Live(r)
    BY DEF EdgesOK
  <2> QED
    BY <2>1, <2>2 DEF EntityInv, Live, rowVars
<1> QED
  BY <1>1, <1>2, <1>3, <1>4, <1>5, <1>6, <1>7, AskSteps

\* GraphStore.neighbors after VectorStore.search, two stores and no snapshot
\* of both: on a durable graph, whatever the first gave, the second has its
\* edge or the row has been retired, for any number of rows and of writers in
\* between; and no response claims it (graph_backed) of a graph that is not.
THEOREM HitsAreCovered == Spec => []NeighboursCoverHits
<1>1. Init => AskOK /\ EdgesOK /\ EntityInv
  BY DEF Init, AskOK, EdgesOK, EntityInv
<1>2. IInv /\ (AskOK /\ EdgesOK /\ EntityInv) /\ [Next]_vars => (AskOK /\ EdgesOK /\ EntityInv)'
  BY StepAskOK, StepEdgesOK, StepEntityInv
<1>3. EntityInv => NeighboursCoverHits
  BY DEF EntityInv, NeighboursCoverHits, Answered
<1> QED
  BY <1>1, <1>2, <1>3, Invariant, PTL DEF Spec

---------------------------------------------------------------------------
(* memory.search: what was current when the call began is in its answer.   *)

\* What becomes of a row the call should give: it is among the hits or the
\* excluded, a limit kept it out, a query that reaches it is still to come,
\* or it has been retired and a query for the retired is.
Accounted(r) ==
    \/ r \in ToSet(ask.hits) \/ Len(ask.hits) >= ask.limit
    \/ r \in ToSet(ask.excluded) \/ Len(ask.excluded) >= ExcludedLimit
    \/ \E p \in ToSet(ask.search) : InScope(r, p)
    \/ ~Live(r) /\ \E p \in ToSet(ask.retired) : InScope(r, p)

\* No query for the retired is over while one for the live is to come.
SearchInv ==
    ask # None /\ ask.tool = "search" /\ ask.asOf = None =>
        /\ ToSet(ask.search) \subseteq ToSet(ask.retired)
        /\ \A r \in ask.had : r \in Rows /\ fact[r] = "visible" /\ Accounted(r)

LEMMA SearchBegins == BeginSearch => SearchInv'
<1> SUFFICES ASSUME BeginSearch PROVE SearchInv'
  OBVIOUS
<1>1. PICK scopes \in Scopes, asOf \in Dates, limit \in Limits, room \in Rooms :
        ask' = [tool |-> "search", asOf |-> asOf, limit |-> limit, room |-> room,
                search |-> scopes, retired |-> scopes, walk |-> FALSE,
                had |-> {r \in Rows : Readable(r, None)
                                        /\ \E p \in ToSet(scopes) : InScope(r, p)},
                hits |-> <<>>, excluded |-> <<>>, neighbours |-> {},
                graph_backed |-> FALSE]
  BY DEF BeginSearch
<1>2. /\ ask'.search = scopes /\ ask'.retired = scopes
      /\ ask'.had = {r \in Rows : Readable(r, None) /\ \E p \in ToSet(scopes) : InScope(r, p)}
  BY <1>1
<1>3. UNCHANGED rowVars
  BY DEF BeginSearch
<1>4. \A r \in ask'.had : /\ r \in Rows /\ fact'[r] = "visible"
                          /\ \E p \in ToSet(ask'.search) : InScope(r, p)
  BY <1>2, <1>3 DEF Readable, rowVars
<1> QED
  BY <1>2, <1>4 DEF SearchInv, Accounted, InScope

LEMMA SearchReadsNearest ==
    IInv /\ ask \in Asks /\ SearchInv /\ ReadNearest => SearchInv'
<1> SUFFICES ASSUME IInv, ask \in Asks, SearchInv, ReadNearest PROVE SearchInv'
  OBVIOUS
<1> DEFINE p == Head(ask.search)
           near == Nearest(p, ask.asOf, ask.limit)
           hits == Merged(ask.hits, near)
<1>1. /\ ask' = [ask EXCEPT !.search = Tail(ask.search), !.hits = hits]
      /\ p \in ToSet(ask.search)
      /\ ToSet(ask.search) = {p} \cup ToSet(Tail(ask.search))
      /\ hits \in Seq(Rows)
      /\ ToSet(hits) = ToSet(ask.hits) \cup ToSet(near)
      /\ Len(ask.hits) <= Len(hits) /\ Len(near) <= Len(hits)
      /\ UNCHANGED <<now, rowVars, edge, job>>
  BY NearestIsMerged
<1>2. /\ ask.limit \in Nat /\ ask.hits \in Seq(Rows) /\ ask # None
  BY DEF Asks, ReadNearest
<1>3. /\ near \in Seq(Rows)
      /\ \A r \in Rows : Readable(r, ask.asOf) /\ InScope(r, p) =>
            r \in ToSet(near) \/ Len(near) = ask.limit
  BY <1>2, NearestHolds
<1> HIDE DEF p, near, hits
<1>4. /\ ask'.search = Tail(ask.search) /\ ask'.hits = hits
      /\ ask'.tool = ask.tool /\ ask'.asOf = ask.asOf /\ ask'.had = ask.had
      /\ ask'.retired = ask.retired /\ ask'.excluded = ask.excluded /\ ask'.limit = ask.limit
  BY <1>1 DEF Asks
<1>5. UNCHANGED <<fact, to>>
  BY <1>1 DEF rowVars
<1>6. SUFFICES ASSUME ask.tool = "search", ask.asOf = None PROVE SearchInv'
  BY <1>4 DEF SearchInv
<1>7. /\ ToSet(ask.search) \subseteq ToSet(ask.retired)
      /\ \A r \in ask.had : r \in Rows /\ fact[r] = "visible" /\ Accounted(r)
  BY <1>2, <1>6 DEF SearchInv
<1>8. ASSUME NEW r \in ask.had PROVE Accounted(r)'
  <2>1. r \in Rows /\ fact[r] = "visible" /\ Accounted(r)
    BY <1>7
  <2>2. CASE r \in ToSet(ask.hits) \/ r \in ToSet(ask.excluded)
             \/ Len(ask.excluded) >= ExcludedLimit
    BY <1>1, <1>4, <2>2 DEF Accounted
  <2>3. CASE Len(ask.hits) >= ask.limit
    <3>1. Len(hits) >= ask.limit
      BY <1>1, <1>2, <2>3
    <3> QED
      BY <1>4, <3>1 DEF Accounted
  <2>4. CASE ~Live(r) /\ \E q \in ToSet(ask.retired) : InScope(r, q)
    BY <1>4, <1>5, <2>4 DEF Accounted, Live, InScope
  <2>5. CASE \E q \in ToSet(Tail(ask.search)) : InScope(r, q)
    BY <1>4, <2>5 DEF Accounted, InScope
  <2>6. CASE InScope(r, p)
    <3>1. CASE Live(r)
      <4>1. r \in ToSet(near) \/ Len(near) = ask.limit
        BY <1>3, <1>6, <2>1, <2>6, <3>1 DEF Readable
      <4>2. r \in ToSet(hits) \/ Len(hits) >= ask.limit
        BY <1>1, <1>2, <1>3, <4>1
      <4> QED
        BY <1>4, <4>2 DEF Accounted
    <3>2. CASE ~Live(r)
      BY <1>1, <1>4, <1>5, <1>7, <2>6, <3>2 DEF Accounted, Live, InScope
    <3> QED
      BY <3>1, <3>2
  <2> QED
    BY <1>1, <2>1, <2>2, <2>3, <2>4, <2>5, <2>6 DEF Accounted
<1> QED
  BY <1>1, <1>4, <1>5, <1>7, <1>8 DEF SearchInv

LEMMA SearchReadsRetired ==
    IInv /\ ask \in Asks /\ SearchInv /\ ReadRetired => SearchInv'
<1> SUFFICES ASSUME IInv, ask \in Asks, SearchInv, ReadRetired PROVE SearchInv'
  OBVIOUS
<1> DEFINE p == Head(ask.retired)
           gone == Retired(p)
           excluded == Merged(ask.excluded, gone)
<1>1. /\ ask' = [ask EXCEPT !.retired = Tail(ask.retired), !.excluded = excluded]
      /\ ask.search = <<>>
      /\ ToSet(ask.retired) = {p} \cup ToSet(Tail(ask.retired))
      /\ excluded \in Seq(Rows)
      /\ ToSet(excluded) = ToSet(ask.excluded) \cup ToSet(gone)
      /\ Len(ask.excluded) <= Len(excluded) /\ Len(gone) <= Len(excluded)
      /\ UNCHANGED <<now, rowVars, edge, job>>
  BY RetiredIsMerged DEF IInv
<1>2. ask.excluded \in Seq(Rows) /\ ask # None /\ ExcludedLimit \in Nat
  BY RecallAssumption DEF Asks, ReadRetired, RetiredIsRead
<1>3. /\ gone \in Seq(Rows)
      /\ \A r \in Dead(p) : r \in ToSet(gone) \/ Len(gone) = ExcludedLimit
  BY RetiredHolds DEF IInv
<1> HIDE DEF p, gone, excluded
<1>4. /\ ask'.search = <<>> /\ ask'.hits = ask.hits
      /\ ask'.tool = ask.tool /\ ask'.asOf = ask.asOf /\ ask'.had = ask.had
      /\ ask'.retired = Tail(ask.retired) /\ ask'.excluded = excluded /\ ask'.limit = ask.limit
  BY <1>1 DEF Asks
<1>5. UNCHANGED <<fact, to>>
  BY <1>1 DEF rowVars
<1>6. SUFFICES ASSUME ask.tool = "search", ask.asOf = None PROVE SearchInv'
  BY <1>4 DEF SearchInv
<1>7. \A r \in ask.had : r \in Rows /\ fact[r] = "visible" /\ Accounted(r)
  BY <1>2, <1>6 DEF SearchInv
<1>8. ToSet(<<>>) = {}
  BY DEF ToSet
<1>9. ASSUME NEW r \in ask.had PROVE Accounted(r)'
  <2>1. r \in Rows /\ fact[r] = "visible" /\ Accounted(r)
    BY <1>7
  <2>2. CASE r \in ToSet(ask.hits) \/ Len(ask.hits) >= ask.limit \/ r \in ToSet(ask.excluded)
    BY <1>1, <1>4, <2>2 DEF Accounted
  <2>3. CASE Len(ask.excluded) >= ExcludedLimit
    <3>1. Len(excluded) >= ExcludedLimit
      BY <1>1, <1>2, <2>3
    <3> QED
      BY <1>4, <3>1 DEF Accounted
  <2>4. CASE ~Live(r) /\ \E q \in ToSet(Tail(ask.retired)) : InScope(r, q)
    BY <1>4, <1>5, <2>4 DEF Accounted, Live, InScope
  <2>5. CASE ~Live(r) /\ InScope(r, p)
    <3>1. r \in ToSet(gone) \/ Len(gone) = ExcludedLimit
      BY <1>3, <2>1, <2>5 DEF Dead
    <3>2. r \in ToSet(excluded) \/ Len(excluded) >= ExcludedLimit
      BY <1>1, <1>2, <1>3, <3>1
    <3> QED
      BY <1>4, <3>2 DEF Accounted
  <2> QED
    BY <1>1, <1>8, <2>1, <2>2, <2>3, <2>4, <2>5 DEF Accounted
<1> QED
  BY <1>4, <1>5, <1>7, <1>8, <1>9 DEF SearchInv

LEMMA StepSearchInv == IInv /\ AskOK /\ SearchInv /\ [Next]_vars => SearchInv'
<1> SUFFICES ASSUME IInv, AskOK, SearchInv, [Next]_vars PROVE SearchInv'
  OBVIOUS
<1>1. CASE UNCHANGED ask
  <2>1. \A r \in Rows : /\ fact[r] = "visible" => fact'[r] = "visible"
                        /\ Accounted(r) => Accounted(r)'
    BY <1>1, GoesOnwards DEF Onwards, Accounted, InScope
  <2> QED
    BY <1>1, <2>1 DEF SearchInv
<1>2. CASE ask' = None
  BY <1>2 DEF SearchInv
<1>3. CASE BeginEntity
  <2>1. ask'.tool = "entity"
    BY <1>3 DEF BeginEntity
  <2> QED
    BY <2>1 DEF SearchInv
<1>4. CASE ask \in Asks /\ WalkGraph
  <2>1. /\ ask'.tool = ask.tool /\ ask'.walk = FALSE
        /\ ask'.search = ask.search /\ ask'.retired = ask.retired /\ ask'.hits = ask.hits
        /\ ask'.excluded = ask.excluded /\ ask'.limit = ask.limit /\ ask'.had = ask.had
        /\ ask'.asOf = ask.asOf /\ ask # None
    BY <1>4 DEF WalkGraph, GraphIsWalked, Asks
  <2>2. UNCHANGED <<fact, to>>
    BY <1>4 DEF WalkGraph, rowVars
  <2> QED
    BY <2>1, <2>2 DEF SearchInv, Accounted, InScope, Live
<1> QED
  BY <1>1, <1>2, <1>3, <1>4, SearchBegins, SearchReadsNearest, SearchReadsRetired, AskSteps

\* The answer leaves out a hit only for the floor, the limit or the budget.
LEMMA BestOf ==
    ASSUME NEW s \in Seq(Rows), NEW limit \in Nat, NEW room \in Nat,
           NEW r \in ToSet(s) \ Faint
    PROVE  LET sure == Pick(s, {i \in DOMAIN s : s[i] \notin Faint})
               kept == First(First(sure, limit), room)
           IN r \in ToSet(kept) \/ Len(kept) = room \/ limit < Len(s)
<1> DEFINE I == {i \in DOMAIN s : s[i] \notin Faint}
           sure == Pick(s, I)
           best == First(sure, limit)
           kept == First(best, room)
<1>1. I \in SUBSET DOMAIN s
  OBVIOUS
<1>2. PICK i \in I : s[i] = r
  BY DEF ToSet
<1> HIDE DEF I
<1>3. /\ sure \in Seq(Rows) /\ Len(sure) = Cardinality(I)
      /\ \A j \in I : \E k \in DOMAIN sure : sure[k] = s[j]
  <2>1. /\ sure \in Seq(Rows) /\ Len(sure) = Cardinality(I)
        /\ \A j \in I : \E k \in DOMAIN sure : Ascending(I)[k] = j /\ sure[k] = s[j]
    BY <1>1, Picked
  <2> QED
    BY <2>1
<1>4. Len(sure) <= Len(s) /\ Len(sure) \in Nat /\ Len(s) \in Nat
  BY <1>1, <1>3, PositionsFinite
<1> HIDE DEF sure
<1>5. r \in ToSet(sure)
  BY <1>2, <1>3 DEF ToSet
<1>6. best \in Seq(Rows) /\ (r \in ToSet(best) \/ limit < Len(sure))
  BY <1>3, <1>5, FirstOf
<1> HIDE DEF best
<1>7. r \in ToSet(best) => r \in ToSet(kept) \/ Len(kept) = room
  BY <1>6, FirstOf
<1> HIDE DEF kept
<1>8. r \in ToSet(kept) \/ Len(kept) = room \/ limit < Len(s)
  BY <1>4, <1>6, <1>7
<1> QED
  BY <1>8 DEF kept, best, sure, I

LEMMA AnswerHolds ==
    ask \in Asks /\ Answered /\ SearchInv => NothingFallsBetween
<1> SUFFICES ASSUME ask \in Asks, Answered, SearchInv,
                    ask.tool = "search", ask.asOf = None,
                    NEW r \in ask.had \ Faint,
                    ~Cut
             PROVE  r \in ToSet(Kept) \cup ToSet(Excluded)
  BY DEF NothingFallsBetween
<1>1. /\ ask.hits \in Seq(Rows) /\ ask.excluded \in Seq(Rows)
      /\ ask.limit \in Nat /\ ask.room \in Nat /\ ExcludedLimit \in Nat
  BY RecallAssumption DEF Asks
<1>2. r \in ToSet(ask.hits) \/ r \in ToSet(ask.excluded)
  <2>1. ToSet(<<>>) = {}
    BY DEF ToSet
  <2>2. Accounted(r) /\ ask.search = <<>> /\ ask.retired = <<>>
    BY DEF SearchInv, Answered
  <2> QED
    BY <2>1, <2>2 DEF Accounted, Cut
<1>3. CASE r \in ToSet(ask.hits)
  <2>1. r \in ToSet(Kept) \/ Len(Kept) = ask.room \/ ask.limit < Len(ask.hits)
    BY <1>1, <1>3, BestOf DEF Kept, Sure
  <2> QED
    BY <1>1, <2>1 DEF Cut
<1>4. CASE r \in ToSet(ask.excluded)
  <2>1. r \in ToSet(Excluded) \/ ExcludedLimit < Len(ask.excluded)
    BY <1>1, <1>4, FirstOf DEF Excluded
  <2> QED
    BY <1>1, <2>1 DEF Cut
<1> QED
  BY <1>2, <1>3, <1>4

\* run_search reads the live rows and the retired ones in different
\* transactions, one for each predicate: whatever is applied or revealed in
\* between, a row that was current when the call began is in its answer.
THEOREM NothingIsMissed == Spec => []NothingFallsBetween
<1>1. Init => AskOK /\ SearchInv
  BY DEF Init, AskOK, SearchInv
<1>2. IInv /\ (AskOK /\ SearchInv) /\ [Next]_vars => (AskOK /\ SearchInv)'
  BY StepAskOK, StepSearchInv
<1>3. AskOK /\ SearchInv => NothingFallsBetween
  <2>1. Answered => ask # None
    BY DEF Answered
  <2>2. ~Answered => NothingFallsBetween
    BY DEF NothingFallsBetween
  <2> QED
    BY <2>1, <2>2, AnswerHolds DEF AskOK
<1> QED
  BY <1>1, <1>2, <1>3, Invariant, PTL DEF Spec

\* The state is what the readers and the writers take it to be.
THEOREM TypeCorrect == Spec => []TypeOK
<1>1. Init => AskOK /\ EdgesOK
  BY DEF Init, AskOK, EdgesOK
<1>2. IInv /\ (AskOK /\ EdgesOK) /\ [Next]_vars => (AskOK /\ EdgesOK)'
  BY StepAskOK, StepEdgesOK
<1>3. IInv /\ AskOK /\ EdgesOK => TypeOK
  BY DEF IInv, RowTypes, AskOK, Asks, EdgesOK, TypeOK
<1> QED
  BY <1>1, <1>2, <1>3, Invariant, PTL DEF Spec

---------------------------------------------------------------------------
(* The writers are those of DualWrite.                                     *)

\* A proposal means to retire only what its reader saw, and that stays seen.
SeenIsOver ==
    \A w \in Workers :
        job[w] # None /\ job[w].over # None => fact[job[w].over] = "visible"

LEMMA StepSeenIsOver == IInv /\ SeenIsOver /\ [Next]_vars => SeenIsOver'
<1> SUFFICES ASSUME IInv, SeenIsOver, [Next]_vars PROVE SeenIsOver'
  OBVIOUS
<1>1. \A r \in Rows : fact[r] = "visible" => fact'[r] = "visible"
  BY GoesOnwards DEF Onwards
<1>2. \A w \in Workers : job[w] # None => job[w] \in Jobs /\ job[w].over \in Rows \cup {None}
  BY DEF IInv, RowTypes, Jobs
<1>3. ASSUME UNCHANGED job PROVE SeenIsOver'
  BY <1>1, <1>2, <1>3 DEF SeenIsOver
<1>4. ASSUME NEW w \in Workers, Judge(w) PROVE SeenIsOver'
  <2>1. PICK r \in Rows, i \in {i \in Rows : Readable(i, None)} \cup {None} :
          job' = [job EXCEPT ![w] = [row |-> r, over |-> i, at |-> None]]
    BY <1>4 DEF Judge
  <2>2. i # None => i \in Rows /\ fact[i] = "visible"
    BY <2>1 DEF Readable
  <2>3. \A v \in Workers : v # w => job'[v] = job[v]
    BY <2>1 DEF IInv, RowTypes
  <2>4. job'[w].over = i
    BY <2>1 DEF IInv, RowTypes
  <2>5. ASSUME NEW v \in Workers, job'[v] # None, job'[v].over # None
        PROVE  fact'[job'[v].over] = "visible"
    BY <1>1, <1>2, <2>2, <2>3, <2>4, <2>5 DEF SeenIsOver
  <2> QED
    BY <2>5 DEF SeenIsOver
<1>5. ASSUME NEW w \in Workers, Begin(w) PROVE SeenIsOver'
  <2>1. job[w] # None /\ job' = [job EXCEPT ![w] = [job[w] EXCEPT !.at = now]]
    BY <1>5 DEF Begin
  <2>2. \A v \in Workers : job[v] # None => job[v].over = job'[v].over
    BY <1>2, <2>1 DEF IInv, RowTypes, Jobs
  <2>3. \A v \in Workers : job'[v] # None => job[v] # None
    BY <2>1 DEF IInv, RowTypes
  <2>4. ASSUME NEW v \in Workers, job'[v] # None, job'[v].over # None
        PROVE  fact'[job'[v].over] = "visible"
    BY <1>1, <1>2, <2>2, <2>3, <2>4 DEF SeenIsOver
  <2> QED
    BY <2>4 DEF SeenIsOver
<1>6. ASSUME NEW w \in Workers, Commit(w) \/ RollBack(w) PROVE SeenIsOver'
  <2>1. job' = [job EXCEPT ![w] = None]
    BY <1>6 DEF Commit, RollBack
  <2>2. \A v \in Workers : job'[v] # None => job'[v] = job[v]
    BY <2>1 DEF IInv, RowTypes
  <2> QED
    BY <1>1, <1>2, <2>2 DEF SeenIsOver
<1>7. CASE \/ Tick \/ BeginSearch \/ BeginEntity
           \/ ReadNearest \/ ReadRetired \/ WalkGraph \/ Reply
  BY <1>3, <1>7 DEF Tick, BeginSearch, BeginEntity, ReadNearest, ReadRetired, WalkGraph, Reply
<1>8. CASE (\E r \in Rows : Link(r) \/ Reveal(r)) \/ UNCHANGED vars
  BY <1>3, <1>8 DEF Link, Reveal, vars
<1> QED
  BY <1>4, <1>5, <1>6, <1>7, <1>8 DEF Next

\* What the rows are to DualWrite.
Promised == [r \in Rows |-> IF fact[r] = "absent" THEN "absent"
                            ELSE IF fact[r] = "visible" THEN "readable" ELSE "pending"]
Known == {r \in Rows : edge[r] # "none"}
Ended == {r \in Rows : ~Live(r)}

LEMMA CommitTransacts ==
    ASSUME IInv, SeenIsOver, NEW w \in Workers, Commit(w) PROVE DW!DWNext
<1> DEFINE j == job[w]
<1>1. /\ j # None /\ j.at # None /\ j \in Jobs
      /\ j.row \in Rows /\ j.over \in Rows \cup {None} /\ fact[j.row] = "absent"
  BY DEF Commit, IInv, RowTypes, RowsAreNew, Jobs
<1>2. /\ fact' = [fact EXCEPT ![j.row] = "hidden"] /\ edge' = edge
      /\ \/ j.over = None /\ UNCHANGED to
         \/ j.over # None /\ Live(j.over) /\ to' = [to EXCEPT ![j.over] = j.at]
  BY DEF Commit, Retires
<1>3. j.over # None => j.over \in Rows /\ fact[j.over] = "visible"
  BY <1>1 DEF SeenIsOver
<1> HIDE DEF j
<1>4. PICK S \in SUBSET Rows, W \in SUBSET Rows :
        S = {j.row} /\ W = IF j.over = None THEN {} ELSE {j.over}
  BY <1>1
<1>5. Promised' = [r \in Rows |-> IF r \in S THEN "pending" ELSE Promised[r]]
  BY <1>1, <1>2, <1>4 DEF Promised, IInv, RowTypes
<1>6. Ended' = Ended \cup W /\ Known' = Known
  BY <1>1, <1>2, <1>3, <1>4 DEF Ended, Known, Live, IInv, RowTypes
<1>7. /\ \A r \in S : Promised[r] = "absent"
      /\ \A r \in W : Promised[r] # "absent" /\ r \notin Ended
  BY <1>1, <1>2, <1>3, <1>4 DEF Promised, Ended
<1>8. DW!Transact(S, W)
  BY <1>5, <1>6, <1>7 DEF DW!Transact, Promised, Ended, Known
<1> QED
  BY <1>8 DEF DW!DWNext

\* applier.apply and the relay: one transaction writes the row and ends its
\* incumbent, the graph hears of rows that were written, and a row is revealed
\* when it has.  The readers meet nothing else than what OutboxRelay is shown
\* to implement.
THEOREM WritersAreDual == Spec => KeepsThePromise
<1>1. Init => SeenIsOver /\ EdgesOK /\ DW!DWInit
  BY DEF Init, SeenIsOver, EdgesOK, DW!DWInit, Live
<1>2. ASSUME IInv, SeenIsOver, EdgesOK, [Next]_vars PROVE DW!DWNext \/ UNCHANGED DW!dwvars
  <2>1. ASSUME UNCHANGED <<fact, to, edge>> PROVE UNCHANGED DW!dwvars
    BY <2>1 DEF DW!dwvars, Live
  <2>2. ASSUME NEW r \in Rows, Link(r) PROVE DW!DWNext
    <3>1. /\ fact[r] # "absent" /\ UNCHANGED <<fact, to>>
      BY <2>2 DEF Link, rowVars
    <3>2. Known' = Known \cup {r}
      <4>1. PICK image \in {"live", "retired"} : edge' = [edge EXCEPT ![r] = image]
        BY <2>2 DEF Link
      <4>2. \A q \in Rows : edge'[q] = IF q = r THEN image ELSE edge[q]
        BY <1>2, <4>1 DEF EdgesOK
      <4>3. image # "none"
        OBVIOUS
      <4> QED
        BY <4>2, <4>3 DEF Known
    <3>3. DW!Link(r)
      BY <3>1, <3>2 DEF DW!Link, Known, Live
    <3> QED
      BY <3>3 DEF DW!DWNext
  <2>3. ASSUME NEW r \in Rows, Reveal(r) PROVE DW!DWNext
    <3>1. /\ fact[r] = "hidden" /\ edge[r] # "none" /\ fact' = [fact EXCEPT ![r] = "visible"]
          /\ UNCHANGED <<to, edge>>
      BY <2>3 DEF Reveal
    <3>2. Promised[r] = "pending" /\ Promised' = [Promised EXCEPT ![r] = "readable"]
      BY <1>2, <3>1 DEF Promised, IInv, RowTypes
    <3>3. r \in Known /\ Known' = Known /\ Ended' = Ended
      BY <3>1 DEF Known, Ended, Live
    <3>4. DW!Publish(r)
      BY <3>2, <3>3 DEF DW!Publish, Promised, Known, Ended
    <3> QED
      BY <3>4 DEF DW!DWNext
  <2>4. ASSUME NEW w \in Workers, Judge(w) \/ Begin(w) \/ RollBack(w) PROVE UNCHANGED DW!dwvars
    BY <2>1, <2>4 DEF Judge, Begin, RollBack, rowVars
  <2>5. CASE \/ Tick \/ BeginSearch \/ BeginEntity
             \/ ReadNearest \/ ReadRetired \/ WalkGraph \/ Reply \/ UNCHANGED vars
    BY <2>1, <2>5 DEF Tick, BeginSearch, BeginEntity, ReadNearest, ReadRetired, WalkGraph, Reply,
                      rowVars, vars
  <2> QED
    BY <1>2, <2>2, <2>3, <2>4, <2>5, CommitTransacts DEF Next
<1>3. IInv /\ (SeenIsOver /\ EdgesOK) /\ [Next]_vars
        => (SeenIsOver /\ EdgesOK)' /\ [DW!DWNext]_DW!dwvars
  BY <1>2, StepSeenIsOver, StepEdgesOK
<1> QED
  BY <1>1, <1>3, Invariant, PTL DEF Spec, KeepsThePromise, DW!DWSpec
=============================================================================
