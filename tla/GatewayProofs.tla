--------------------------- MODULE GatewayProofs ---------------------------
(***************************************************************************)
(* What holds of the read path for any number of requests, keys and        *)
(* replicas' clocks, for every size of bucket, budget, timeout and pool,   *)
(* and of the three lifespans in every environment.                        *)
(***************************************************************************)
EXTENDS Gateway, SequenceTheorems, FiniteSetTheorems, TLAPS

---------------------------------------------------------------------------
(* The token bucket.                                                       *)

\* What a bucket has given out and still holds was in it or came with time.
Funded(h) == h.granted * Cost + h.tokens <= Full + (h.updated - h.born)

LEMMA FullNat == Full \in Nat /\ Cost \in Nat /\ Cost > 0
BY GatewayAssumption DEF Full

LEMMA Priced == \A g \in Nat : g * Cost \in Nat /\ (g + 1) * Cost = g * Cost + Cost
BY FullNat

\* A refill by any clock keeps a bucket funded and no further ahead.
LEMMA RefilledFunded ==
    ASSUME NEW h \in Hashes, NEW t \in Int, Funded(h)
    PROVE  /\ Refilled(h, t) \in Hashes /\ Funded(Refilled(h, t))
           /\ Refilled(h, t).updated = h.updated \/ Refilled(h, t).updated = t
<1> USE FullNat
<1>1. CASE t > h.updated
  <2>1. Refilled(h, t) = [h EXCEPT !.tokens = Lesser(Full, @ + (t - h.updated)), !.updated = t]
    BY <1>1 DEF Refilled
  <2> DEFINE full == Lesser(Full, h.tokens + (t - h.updated))
  <2>2. full \in 0..Full /\ full <= h.tokens + (t - h.updated)
    BY <1>1 DEF Lesser, Hashes
  <2>3. Refilled(h, t) \in Hashes
    BY <2>1, <2>2 DEF Hashes
  <2>4. /\ Refilled(h, t).granted = h.granted /\ Refilled(h, t).born = h.born
        /\ Refilled(h, t).tokens = full /\ Refilled(h, t).updated = t
    BY <2>1 DEF Hashes
  <2>5. h.granted * Cost \in Nat /\ h.born \in Int /\ h.updated \in Int /\ h.tokens \in Int
    BY Priced DEF Hashes
  <2> QED
    BY <2>2, <2>3, <2>4, <2>5 DEF Funded
<1>2. CASE ~(t > h.updated)
  BY <1>2 DEF Refilled
<1> QED
  BY <1>1, <1>2

LEMMA Spent ==
    ASSUME NEW h \in Hashes, NEW x \in 0..Full, NEW y \in Nat
    PROVE  [h EXCEPT !.tokens = x, !.granted = y] \in Hashes
BY DEF Hashes

\* So does a check, whether it takes a token or not.
LEMMA CheckedFunded ==
    ASSUME NEW h \in Hashes, Funded(h), now \in Nat
    PROVE  Checked(h) \in Hashes /\ Funded(Checked(h)) /\ Checked(h).updated = h.updated
<1> USE FullNat
<1>1. now + IdleTTL \in Nat
  BY DEF IdleTTL
<1>2. CASE Affordable(h)
  <2> DEFINE taken == [h EXCEPT !.tokens = @ - Cost, !.granted = @ + 1]
  <2>1. Checked(h) = [taken EXCEPT !.kept = now + IdleTTL]
    BY <1>2 DEF Checked
  <2>2. h.tokens - Cost \in 0..Full
    BY <1>2 DEF Affordable, Hashes
  <2>3. Checked(h) \in Hashes
    <3>0. h.granted + 1 \in Nat
      BY DEF Hashes
    <3>1. taken \in Hashes
      BY <2>2, <3>0, Spent
    <3> HIDE DEF taken
    <3> QED
      BY <1>1, <2>1, <3>1 DEF Hashes
  <2>4. /\ Checked(h).granted = h.granted + 1 /\ Checked(h).tokens = h.tokens - Cost
        /\ Checked(h).updated = h.updated /\ Checked(h).born = h.born
    BY <2>1 DEF Hashes
  <2>5. /\ (h.granted + 1) * Cost = h.granted * Cost + Cost /\ h.granted * Cost \in Nat
        /\ h.tokens \in Int /\ h.updated \in Int /\ h.born \in Int
    BY Priced DEF Hashes
  <2> QED
    BY <2>3, <2>4, <2>5 DEF Funded
<1>3. CASE ~Affordable(h)
  <2>1. Checked(h) = [h EXCEPT !.kept = now + IdleTTL]
    BY <1>3 DEF Checked
  <2> QED
    BY <1>1, <2>1 DEF Hashes, Funded
<1> QED
  BY <1>2, <1>3

---------------------------------------------------------------------------
(* Types, as far as the invariants below need them.                        *)

Typed ==
    /\ now \in Nat
    /\ bucket \in [Buckets -> Hashes \cup {None}]
    /\ req \in [Requests -> Asks]
    /\ \A r \in Requests : req[r].at = "limiting" => req[r].credential \in Credentials

\* No clock reading on its way to Redis is ahead of the fastest clock.
Readings == \A r \in Requests : req[r].at = "limiting" => req[r].reading <= now + MaxSkew

\* Where a request waits says how far its budget and its timeouts can be
\* used up.
OnTime(a) ==
    /\ a.at \in Waits => now <= a.until
    /\ a.at \in {"limiting", "replied"} => a.until = a.deadline - Budget + StoreTimeout
    /\ a.at = "resolving" => now <= a.deadline - Budget + StoreTimeout
    /\ a.at \in {"acquiring", "beginning"} \cup Statements => a.ceiling <= StoreTimeout
    /\ a.at = "acquiring" => /\ a.until <= a.deadline
                             /\ a.until <= a.deadline - Budget + 2 * StoreTimeout
    /\ a.at = "beginning" => /\ now <= a.deadline + a.stalled
                             /\ now <= a.deadline - Budget + 2 * StoreTimeout + a.stalled
    /\ a.at = "binding" => /\ a.until <= a.deadline + StoreTimeout + a.stalled
                           /\ a.until <= a.deadline - Budget + 3 * StoreTimeout + a.stalled
    /\ a.at = "fetching" => /\ a.until <= a.deadline + 2 * StoreTimeout + a.stalled
                            /\ a.until <= a.deadline - Budget + 4 * StoreTimeout + a.stalled
    /\ a.at = "citing" => /\ a.until <= a.deadline + 3 * StoreTimeout + a.stalled
                          /\ a.until <= a.deadline - Budget + 5 * StoreTimeout + a.stalled
    /\ a.at = "ending" => /\ now <= a.deadline + 3 * StoreTimeout + a.stalled
                          /\ now <= a.deadline - Budget + 5 * StoreTimeout + a.stalled

Timely == \A r \in Requests : OnTime(req[r])

IInv == Typed /\ Readings /\ Timely /\ NoMinting

LEMMA InitIInv == Init => IInv
BY GatewayAssumption
   DEF Init, IInv, Typed, Readings, Timely, OnTime, NoMinting, Idle, Asks, Searching, Waits, Holding,
       Untimed, Statements

Causes == {"ok", "credential", "scope", "rate", "deadline", "store", "unready"}

\* Ending a request leaves it where no invariant looks.
LEMMA EndsAsk ==
    ASSUME NEW cause \in Causes
    PROVE  [Idle EXCEPT !.at = "done", !.answer = Status(cause)] \in Asks
<1>1. Status(cause) \in Nat
  BY DEF Causes, Status, Published
<1>2. Idle \in Asks
  BY DEF Asks, Idle
<1>3. \A n \in Nat : [Idle EXCEPT !.at = "done", !.answer = n] \in Asks
  BY <1>2 DEF Asks
<1> QED
  BY <1>1, <1>3

LEMMA EndsKeeps ==
    ASSUME IInv, NEW r \in Requests, NEW cause \in Causes, Ends(r, cause), UNCHANGED <<now, bucket>>
    PROVE  IInv'
<1> USE GatewayAssumption DEF IInv, Typed
<1>1. req' \in [Requests -> Asks] /\ req'[r].at = "done"
        /\ \A q \in Requests \ {r} : req'[q] = req[q]
  BY EndsAsk DEF Ends, Idle
<1>2. Typed'
  BY <1>1
<1>3. Readings'
  BY <1>1 DEF Readings
<1>4. Timely'
  BY <1>1 DEF Timely, OnTime, Waits, Statements
<1>5. NoMinting'
  BY DEF NoMinting
<1> QED
  BY <1>2, <1>3, <1>4, <1>5

\* A request moves on: its new place must be typed, and timely if it waits.
LEMMA MoveKeeps ==
    ASSUME IInv, NEW r \in Requests, NEW a \in Asks,
           req' = [req EXCEPT ![r] = a], now' = now,
           \/ bucket' = bucket
           \/ bucket' \in [Buckets -> Hashes \cup {None}] /\ NoMinting',
           OnTime(a),
           a.at = "limiting" => a.credential \in Credentials /\ a.reading <= now + MaxSkew
    PROVE  IInv'
<1> USE GatewayAssumption DEF IInv, Typed
<1>1. req' \in [Requests -> Asks] /\ req'[r] = a
        /\ \A q \in Requests \ {r} : req'[q] = req[q]
  OBVIOUS
<1>2. Typed'
  BY <1>1
<1>3. Readings'
  BY <1>1 DEF Readings
<1>4. Timely'
  BY <1>1 DEF Timely, OnTime
<1>5. NoMinting'
  BY DEF NoMinting
<1> QED
  BY <1>2, <1>3, <1>4, <1>5

LEMMA AllowedAsk ==
    ASSUME NEW a \in Asks, NEW at \in Searching, NEW x \in BOOLEAN
    PROVE  [a EXCEPT !.at = at, !.reading = 0, !.allowed = x] \in Asks
<1> DEFINE b == [a EXCEPT !.at = at]
           c == [b EXCEPT !.reading = 0]
<1>0. b \in Asks
  BY DEF Asks
<1> HIDE DEF b
<1>1. c \in Asks
  BY <1>0 DEF Asks
<1> HIDE DEF c
<1>2. [c EXCEPT !.allowed = x] \in Asks
  BY <1>1 DEF Asks
<1> QED
  BY <1>2 DEF b, c

LEMMA PassedKeeps ==
    ASSUME IInv, NEW r \in Requests, req[r].at \in {"limiting", "replied"},
           req' = [req EXCEPT ![r] = Passed(@)], UNCHANGED <<now, bucket>>
    PROVE  IInv'
<1> DEFINE a == Passed(req[r])
<1>1. req[r] \in Asks /\ OnTime(req[r]) /\ now \in Nat
  BY DEF IInv, Typed, Timely
<1>2. "resolving" \in Searching
  BY DEF Searching
<1>3. a \in Asks
  <2>1. [req[r] EXCEPT !.at = "resolving", !.reading = 0, !.allowed = FALSE] \in Asks
    BY <1>1, <1>2, AllowedAsk
  <2> QED
    BY <2>1 DEF Passed, Asks
<1>3a. a.at = "resolving" /\ a.deadline = req[r].deadline
  BY <1>1 DEF Passed, Asks
<1>4. req' = [req EXCEPT ![r] = a]
  OBVIOUS
<1>5. now <= req[r].until /\ req[r].until = req[r].deadline - Budget + StoreTimeout
  BY <1>1 DEF OnTime, Waits
<1> HIDE DEF a
<1>6. OnTime(a)
  BY <1>1, <1>3a, <1>5 DEF OnTime, Waits, Statements
<1> QED
  BY <1>3, <1>3a, <1>4, <1>6, MoveKeeps

LEMMA AcquireKeeps ==
    ASSUME IInv, NEW r \in Requests, req[r].at = "resolving",
           req' = [req EXCEPT ![r] =
                     [@ EXCEPT !.at = "acquiring", !.credential = None, !.ceiling = ForCall(r),
                               !.until = now + ForCall(r)]],
           UNCHANGED <<now, bucket>>, Remaining(r) # 0
    PROVE  IInv'
<1> USE GatewayAssumption
<1> DEFINE a == [req[r] EXCEPT !.at = "acquiring", !.credential = None, !.ceiling = ForCall(r),
                               !.until = now + ForCall(r)]
<1>1. req[r] \in Asks /\ OnTime(req[r]) /\ now \in Nat
  BY DEF IInv, Typed, Timely
<1>2. /\ ForCall(r) \in Nat /\ ForCall(r) <= StoreTimeout
      /\ now + ForCall(r) \in Nat /\ now + ForCall(r) <= req[r].deadline
  BY <1>1 DEF ForCall, Remaining, Lesser, Asks
<1>3. "acquiring" \in Searching
  BY DEF Searching, Waits
<1>4. a \in Asks
  BY <1>1, <1>2, <1>3 DEF Asks
<1>5. /\ a.at = "acquiring" /\ a.ceiling = ForCall(r) /\ a.until = now + ForCall(r)
      /\ a.deadline = req[r].deadline
  BY <1>1 DEF Asks
<1>6. req' = [req EXCEPT ![r] = a]
  OBVIOUS
<1>7. now <= req[r].deadline - Budget + StoreTimeout
  BY <1>1 DEF OnTime
<1> HIDE DEF a
<1>8. OnTime(a)
  BY <1>1, <1>2, <1>5, <1>7 DEF OnTime, Asks, Statements
<1> QED
  BY <1>4, <1>5, <1>6, <1>8, MoveKeeps

\* From one wait on Postgres to the next: to BEGIN, ...
LEMMA BeginKeeps ==
    ASSUME IInv, NEW r \in Requests, req[r].at = "acquiring",
           req' = [req EXCEPT ![r] = [@ EXCEPT !.at = "beginning", !.until = 0]],
           UNCHANGED <<now, bucket>>
    PROVE  IInv'
<1> USE GatewayAssumption
<1> DEFINE a == [req[r] EXCEPT !.at = "beginning", !.until = 0]
<1>1. req[r] \in Asks /\ OnTime(req[r]) /\ now \in Nat
  BY DEF IInv, Typed, Timely
<1>2. "beginning" \in Searching
  BY DEF Searching, Untimed
<1>3. a \in Asks
  BY <1>1, <1>2 DEF Asks
<1>4. /\ a.at = "beginning" /\ a.ceiling = req[r].ceiling /\ a.deadline = req[r].deadline
      /\ a.stalled = req[r].stalled
  BY <1>1 DEF Asks
<1>5. req' = [req EXCEPT ![r] = a]
  OBVIOUS
<1> HIDE DEF a
<1>6. OnTime(a)
  BY <1>1, <1>4 DEF OnTime, Asks, Waits, Statements
<1> QED
  BY <1>3, <1>4, <1>5, <1>6, MoveKeeps

\* ... to a statement of the store, ...
LEMMA IntoKeeps ==
    ASSUME IInv, NEW r \in Requests, NEW at,
           \/ req[r].at = "beginning" /\ at = "binding"
           \/ req[r].at = "binding" /\ at = "fetching"
           \/ req[r].at = "fetching" /\ at = "citing",
           req' = [req EXCEPT ![r] = Into(r, at)], UNCHANGED <<now, bucket>>
    PROVE  IInv'
<1> USE GatewayAssumption
<1> DEFINE a == Into(r, at)
<1>1. req[r] \in Asks /\ OnTime(req[r]) /\ now \in Nat
  BY DEF IInv, Typed, Timely
<1>2. at \in Searching /\ now + req[r].ceiling \in Nat
  BY <1>1 DEF Asks, Searching, Waits
<1>3. a \in Asks
  BY <1>1, <1>2 DEF Asks, Into
<1>4. /\ a.at = at /\ a.ceiling = req[r].ceiling /\ a.until = now + req[r].ceiling
      /\ a.deadline = req[r].deadline /\ a.stalled = req[r].stalled
  BY <1>1 DEF Asks, Into
<1> HIDE DEF a
<1>5. OnTime(a)
  BY <1>1, <1>4 DEF OnTime, Asks, Waits, Statements
<1> QED
  BY <1>3, <1>4, <1>5, MoveKeeps DEF a

\* ... and to COMMIT or ROLLBACK, from any of them.
LEMMA LeavesKeeps ==
    ASSUME IInv, NEW r \in Requests, req[r].at \in Statements,
           NEW cause \in Causes, Leaves(r, cause)
    PROVE  IInv'
<1> USE GatewayAssumption
<1> DEFINE a == [req[r] EXCEPT !.at = "ending", !.until = 0, !.answer = Status(cause)]
<1>1. req[r] \in Asks /\ OnTime(req[r]) /\ now \in Nat
  BY DEF IInv, Typed, Timely
<1>2. "ending" \in Searching /\ Status(cause) \in Nat
  BY DEF Searching, Untimed, Causes, Status, Published
<1>3. a \in Asks
  BY <1>1, <1>2 DEF Asks
<1>4. /\ a.at = "ending" /\ a.deadline = req[r].deadline /\ a.stalled = req[r].stalled
  BY <1>1 DEF Asks
<1>5. req' = [req EXCEPT ![r] = a] /\ now' = now /\ bucket' = bucket
  BY DEF Leaves
<1> HIDE DEF a
<1>6. now <= req[r].until
  BY <1>1 DEF OnTime, Waits, Statements
<1>7. OnTime(a)
  BY <1>1, <1>4, <1>6 DEF OnTime, Asks, Waits, Statements
<1> QED
  BY <1>3, <1>4, <1>5, <1>7, MoveKeeps

\* A request that is over, with whatever answer, is where no invariant looks.
LEMMA DoneKeeps ==
    ASSUME IInv, NEW r \in Requests, NEW n \in Nat, UNCHANGED <<now, bucket>>,
           req' = [req EXCEPT ![r] = [Idle EXCEPT !.at = "done", !.answer = n]]
    PROVE  IInv'
<1> DEFINE a == [Idle EXCEPT !.at = "done", !.answer = n]
<1>1. Idle \in Asks
  BY DEF Asks, Idle
<1>2. a \in Asks /\ a.at = "done"
  BY <1>1 DEF Asks
<1> HIDE DEF a
<1>3. OnTime(a)
  BY <1>2 DEF OnTime, Waits, Statements
<1> QED
  BY <1>2, <1>3, MoveKeeps DEF a

LEMMA ProbeKeeps ==
    ASSUME IInv, NEW r \in Requests, NEW at \in {"probing", "probed"},
           req' = [req EXCEPT ![r].at = at], UNCHANGED <<now, bucket>>
    PROVE  IInv'
<1> DEFINE a == [req[r] EXCEPT !.at = at]
<1>1. req[r] \in Asks
  BY DEF IInv, Typed
<1>2. at \in Searching \cup Holding \cup {"idle", "probing", "done"}
  BY DEF Holding
<1>3. a \in Asks /\ a.at = at
  BY <1>1, <1>2 DEF Asks
<1>4. req' = [req EXCEPT ![r] = a]
  OBVIOUS
<1> HIDE DEF a
<1>5. OnTime(a)
  BY <1>3 DEF OnTime, Waits, Statements
<1> QED
  BY <1>3, <1>4, <1>5, MoveKeeps

\* The script: the one step that writes a bucket.
LEMMA ScriptKeeps ==
    ASSUME IInv, NEW r \in Requests, RunScript(r)
    PROVE  IInv'
<1> USE GatewayAssumption
<1> DEFINE b == Key[req[r].credential]
           t == req[r].reading
           h == Refilled(Current(b, t), t)
           a == [req[r] EXCEPT !.at = "replied", !.reading = 0, !.allowed = Affordable(h)]
<1>1. /\ req[r] \in Asks /\ OnTime(req[r]) /\ now \in Nat /\ req[r].at = "limiting"
      /\ t \in Int /\ t <= now + MaxSkew /\ b \in Buckets
  BY DEF RunScript, IInv, Typed, Timely, Readings, Asks, Buckets
<1>2. /\ Current(b, t) \in Hashes /\ Funded(Current(b, t))
      /\ Current(b, t).updated <= now + MaxSkew
  <2>1. CASE Known(b)
    BY <1>1, <2>1 DEF Known, Current, IInv, Typed, NoMinting, Funded
  <2>2. CASE ~Known(b)
    <3>1. Current(b, t) = [tokens |-> Full, updated |-> t, kept |-> now, granted |-> 0, born |-> t]
      BY <2>2 DEF Current
    <3> QED
      BY <1>1, <3>1, FullNat DEF Hashes, Funded
  <2> QED
    BY <2>1, <2>2
<1>3. h \in Hashes /\ Funded(h) /\ h.updated <= now + MaxSkew
  BY <1>1, <1>2, RefilledFunded
<1>4. Checked(h) \in Hashes /\ Funded(Checked(h)) /\ Checked(h).updated <= now + MaxSkew
  BY <1>1, <1>3, CheckedFunded
<1>5. bucket' = [bucket EXCEPT ![b] = Checked(h)] /\ now' = now /\ req' = [req EXCEPT ![r] = a]
  BY DEF RunScript
<1>6. Affordable(h) \in BOOLEAN
  BY DEF Affordable
<1>7. "replied" \in Searching
  BY DEF Searching, Waits
<1>8. a \in Asks
  <2> DEFINE x == Affordable(h)
  <2> SUFFICES [req[r] EXCEPT !.at = "replied", !.reading = 0, !.allowed = x] \in Asks
    OBVIOUS
  <2>1. x \in BOOLEAN
    BY <1>6
  <2> HIDE DEF x
  <2> QED
    BY <1>1, <1>7, <2>1, AllowedAsk
<1>9. a.at = "replied" /\ a.until = req[r].until /\ a.deadline = req[r].deadline
  BY <1>1 DEF Asks
<1> HIDE DEF h, b, t
<1>10. bucket' \in [Buckets -> Hashes \cup {None}] /\ NoMinting'
  BY <1>1, <1>4, <1>5 DEF IInv, Typed, NoMinting, Funded
<1> HIDE DEF a
<1>11. OnTime(a)
  BY <1>1, <1>9 DEF OnTime, Waits, Statements
<1> QED
  BY <1>5, <1>8, <1>9, <1>10, <1>11, MoveKeeps

LEMMA StepIInv == IInv /\ [Next]_vars => IInv'
<1> SUFFICES ASSUME IInv, [Next]_vars PROVE IInv'
  OBVIOUS
<1> USE GatewayAssumption
<1>0. now \in Nat /\ \A r \in Requests : req[r] \in Asks
  BY DEF IInv, Typed
<1>1. CASE Tick
  <2>1. now' = now + 1 /\ bucket' = bucket
    BY <1>1 DEF Tick
  <2>2. \A r \in Requests :
           /\ req'[r] \in Asks
           /\ req'[r].at = req[r].at /\ req'[r].credential = req[r].credential
           /\ req'[r].reading = req[r].reading /\ req'[r].until = req[r].until
           /\ req'[r].deadline = req[r].deadline /\ req'[r].ceiling = req[r].ceiling
           /\ req'[r].stalled = IF req[r].at \in Untimed THEN req[r].stalled + 1
                                ELSE req[r].stalled
    <3> SUFFICES ASSUME NEW r \in Requests
                 PROVE  /\ req'[r] \in Asks
                        /\ req'[r].at = req[r].at /\ req'[r].credential = req[r].credential
                        /\ req'[r].reading = req[r].reading /\ req'[r].until = req[r].until
                        /\ req'[r].deadline = req[r].deadline
                        /\ req'[r].ceiling = req[r].ceiling
                        /\ req'[r].stalled = IF req[r].at \in Untimed THEN req[r].stalled + 1
                                             ELSE req[r].stalled
      OBVIOUS
    <3>1. req'[r] = IF req[r].at \in Untimed THEN [req[r] EXCEPT !.stalled = @ + 1] ELSE req[r]
      BY <1>1 DEF Tick
    <3> QED
      BY <1>0, <3>1 DEF Asks
  <2>3. Typed'
    <3>1. req' \in [Requests -> Asks]
      BY <1>1, <2>2 DEF Tick
    <3> QED
      BY <1>0, <2>1, <2>2, <3>1 DEF IInv, Typed
  <2>4. Readings'
    <3> SUFFICES ASSUME NEW r \in Requests, req[r].at = "limiting"
                 PROVE  req[r].reading <= (now + 1) + MaxSkew
      BY <2>1, <2>2 DEF Readings
    <3> QED
      BY <1>0 DEF IInv, Readings, Asks
  <2>5. NoMinting'
    <3> SUFFICES ASSUME NEW b \in Buckets, bucket[b] # None
                 PROVE  bucket[b].updated <= (now + 1) + MaxSkew
      BY <2>1 DEF IInv, NoMinting
    <3>1. bucket[b] \in Hashes
      BY DEF IInv, Typed
    <3> QED
      BY <1>0, <3>1 DEF IInv, NoMinting, Hashes
  <2>6. Timely'
    <3> SUFFICES ASSUME NEW r \in Requests PROVE OnTime(req[r])'
      BY DEF Timely
    <3>1. OnTime(req[r]) /\ req[r] \in Asks
      BY <1>0 DEF IInv, Timely
    <3>2. req[r].at # "resolving" /\ (req[r].at \in Waits => now < req[r].until)
      BY <1>1 DEF Tick, Timed
    <3> QED
      BY <1>0, <2>1, <2>2, <3>1, <3>2 DEF OnTime, Asks, Untimed
  <2> QED
    BY <2>3, <2>4, <2>5, <2>6 DEF IInv
<1>2. CASE RedisTurns \/ Lifecycle \/ UNCHANGED vars
  BY <1>2 DEF RedisTurns, Lifecycle, vars, gatewayVars, IInv, Typed, Readings, Timely, OnTime,
              NoMinting
<1>3. ASSUME NEW r \in Requests, Handle(r)
      PROVE  IInv'
  <2>a. req[r] \in Asks /\ OnTime(req[r])
    BY <1>0 DEF IInv, Timely
  <2>1. CASE Arrive(r)
    <3>1. PICK c \in Credentials, reading \in (now - MaxSkew)..(now + MaxSkew) :
             req' = [req EXCEPT ![r] =
                       [@ EXCEPT !.at = "limiting", !.credential = c, !.reading = reading,
                                 !.deadline = now + Budget, !.until = now + StoreTimeout]]
      BY <2>1 DEF Arrive
    <3> DEFINE a == [req[r] EXCEPT !.at = "limiting", !.credential = c, !.reading = reading,
                                 !.deadline = now + Budget, !.until = now + StoreTimeout]
    <3>2. a \in Asks
      <4>1. now + Budget \in Nat /\ now + StoreTimeout \in Nat /\ reading \in Int
        BY <1>0
      <4>2. c \in Credentials \cup {None} /\ "limiting" \in Searching
        BY DEF Searching, Waits
      <4> QED
        BY <2>a, <4>1, <4>2 DEF Asks
    <3>2a. req' = [req EXCEPT ![r] = a]
      BY <3>1
    <3>3. /\ a.at = "limiting" /\ a.credential = c /\ a.reading = reading
          /\ a.deadline = now + Budget /\ a.until = now + StoreTimeout
      BY <2>a DEF Asks
    <3>4. OnTime(a)
      BY <1>0, <3>3 DEF OnTime, Statements
    <3>5. now' = now /\ bucket' = bucket
      BY <2>1 DEF Arrive
    <3>6. reading <= now + MaxSkew
      BY <1>0
    <3> HIDE DEF a
    <3> QED
      BY <3>2, <3>2a, <3>3, <3>4, <3>5, <3>6, MoveKeeps
  <2>2. CASE Refuse(r)
    BY <2>2, EndsKeeps DEF Refuse, Causes
  <2>3. CASE RunScript(r)
    BY <2>3, ScriptKeeps
  <2>4. CASE Limit(r)
    BY <2>4, EndsKeeps, PassedKeeps DEF Limit, Causes
  <2>5. CASE FailOpen(r)
    BY <2>5, PassedKeeps DEF FailOpen
  <2>6. CASE Resolve(r)
    <3>1. CASE Remaining(r) = 0 \/ req[r].credential \notin Readers
      BY <2>6, <3>1, EndsKeeps DEF Resolve, Causes
    <3>2. CASE Remaining(r) # 0 /\ req[r].credential \in Readers
      BY <2>6, <3>2, AcquireKeeps DEF Resolve
    <3> QED
      BY <3>1, <3>2
  <2>7. CASE Connect(r)
    BY <2>7, BeginKeeps DEF Connect
  <2>8. CASE Proceed(r)
    BY <2>8, IntoKeeps DEF Proceed
  <2>9. CASE Succeed(r)
    BY <2>9, LeavesKeeps DEF Succeed, Causes, Statements
  <2>10. CASE TimeOut(r)
    BY <2>10, LeavesKeeps DEF TimeOut, Causes
  <2>11. CASE GiveUp(r) \/ LoseConnection(r)
    BY <2>11, EndsKeeps DEF GiveUp, LoseConnection, Causes
  <2>12. CASE Probe(r)
    BY <2>12, ProbeKeeps DEF Probe
  <2>13. CASE ProbeConnect(r)
    BY <2>13, ProbeKeeps DEF ProbeConnect
  <2>14. CASE ProbeAnswer(r)
    BY <2>14, EndsKeeps DEF ProbeAnswer, Causes
  <2>15. CASE Finish(r)
    <3>1. req[r].answer \in Nat
      BY <2>a DEF Asks
    <3> QED
      BY <2>15, <3>1, DoneKeeps DEF Finish
  <2> QED
    BY <1>3, <2>1, <2>2, <2>3, <2>4, <2>5, <2>6, <2>7, <2>8, <2>9, <2>10, <2>11, <2>12,
       <2>13, <2>14, <2>15 DEF Handle
<1> QED
  BY <1>1, <1>2, <1>3 DEF Next
LEMMA Invariant == Spec => []IInv
<1>1. Init => IInv
  BY InitIInv
<1>2. IInv /\ [Next]_vars => IInv'
  BY StepIInv
<1> QED
  BY <1>1, <1>2, PTL DEF Spec

\* _BUCKET_SCRIPT: no order of the replicas' checks and no disagreement of
\* their clocks within the skew makes a bucket give out more than its due.
THEOREM NothingMinted == Spec => []NoMinting
<1>1. IInv => NoMinting
  BY DEF IInv
<1> QED
  BY <1>1, Invariant, PTL

\* Deadline.for_call, evaluated once: how late a search can be, whatever the
\* budget, the timeout and the size of the pool, and however long BEGIN, COMMIT
\* and ROLLBACK take, which nothing but their own length bounds.
THEOREM Overruns == Spec => []OverrunIsBounded
<1>1. IInv => OverrunIsBounded
  <2> SUFFICES ASSUME IInv, NEW r \in Requests, req[r].at \in Searching
               PROVE  /\ now <= req[r].deadline + 3 * StoreTimeout + req[r].stalled
                      /\ 5 * StoreTimeout <= Budget
                            => now <= req[r].deadline + req[r].stalled
    BY DEF OverrunIsBounded
  <2>1. req[r] \in Asks /\ OnTime(req[r]) /\ now \in Nat
    BY DEF IInv, Typed, Timely
  <2> QED
    BY <2>1, GatewayAssumption DEF OnTime, Asks, Searching, Waits, Untimed
<1> QED
  BY <1>1, Invariant, PTL

---------------------------------------------------------------------------
(* The pool.                                                               *)

Pooled == free \in Nat /\ IsFiniteSet(Holders) /\ PoolIsWhole

\* One request moves: it is among the holders if it holds a connection there.
LEMMA HoldersMove ==
    ASSUME Typed, NEW r \in Requests, NEW a, req' = [req EXCEPT ![r] = a]
    PROVE  /\ a.at \in Holding => Holders' = Holders \cup {r}
           /\ a.at \notin Holding => Holders' = Holders \ {r}
<1>1. req'[r] = a /\ \A q \in Requests \ {r} : req'[q] = req[q]
  BY DEF Typed
<1> QED
  BY <1>1 DEF Holders

LEMMA TakesOne ==
    ASSUME Pooled, NEW r \in Requests, r \notin Holders, Holders' = Holders \cup {r},
           free > 0, free' = free - 1
    PROVE  Pooled'
<1>1. IsFiniteSet(Holders \cup {r}) /\ Cardinality(Holders \cup {r}) = Cardinality(Holders) + 1
  BY FS_AddElement DEF Pooled
<1>2. Cardinality(Holders) \in Nat
  BY FS_CardinalityType DEF Pooled
<1> HIDE DEF Holders
<1> QED
  BY <1>1, <1>2, GatewayAssumption DEF Pooled, PoolIsWhole

LEMMA GivesBack ==
    ASSUME Pooled, NEW r \in Requests, r \in Holders, Holders' = Holders \ {r}, free' = free + 1
    PROVE  Pooled'
<1>1. IsFiniteSet(Holders \ {r}) /\ Cardinality(Holders \ {r}) = Cardinality(Holders) - 1
  BY FS_RemoveElement DEF Pooled
<1>2. Cardinality(Holders) \in Nat
  BY FS_CardinalityType DEF Pooled
<1> QED
  BY <1>1, <1>2, GatewayAssumption DEF Pooled, PoolIsWhole

LEMMA LeavesIt ==
    ASSUME Pooled, Holders' = Holders, free' = free
    PROVE  Pooled'
BY DEF Pooled, PoolIsWhole

\* Where a request ends it holds nothing.
LEMMA DoneHolding ==
    ASSUME Typed, NEW r \in Requests, NEW n,
           req' = [req EXCEPT ![r] = [Idle EXCEPT !.at = "done", !.answer = n]]
    PROVE  Holders' = Holders \ {r}
<1> DEFINE a == [Idle EXCEPT !.at = "done", !.answer = n]
<1>1. req' = [req EXCEPT ![r] = a] /\ a.at \notin Holding
  BY DEF Idle, Holding, Untimed, Statements
<1> HIDE DEF a
<1> QED
  BY <1>1, HoldersMove

LEMMA EndsHolding ==
    ASSUME Typed, NEW r \in Requests, NEW cause, Ends(r, cause)
    PROVE  Holders' = Holders \ {r}
BY DoneHolding DEF Ends

LEMMA StepPooled == IInv /\ Pooled /\ [Next]_vars => Pooled'
<1> SUFFICES ASSUME IInv, Pooled, [Next]_vars PROVE Pooled'
  OBVIOUS
<1>0. Typed /\ \A r \in Requests : req[r] \in Asks
  BY DEF IInv, Typed
<1>1. CASE Tick \/ RedisTurns \/ Lifecycle \/ UNCHANGED vars
  <2>1. CASE Tick
    <3>1. free' = free
      BY <2>1 DEF Tick
    <3>2. \A r \in Requests : req'[r].at = req[r].at
      <4> SUFFICES ASSUME NEW r \in Requests PROVE req'[r].at = req[r].at
        OBVIOUS
      <4>1. req'[r] = IF req[r].at \in Untimed THEN [req[r] EXCEPT !.stalled = @ + 1] ELSE req[r]
        BY <2>1 DEF Tick
      <4> QED
        BY <1>0, <4>1 DEF Asks
    <3>3. Holders' = Holders
      BY <3>2 DEF Holders
    <3> QED
      BY <3>1, <3>3, LeavesIt
  <2>2. CASE RedisTurns \/ Lifecycle \/ UNCHANGED vars
    <3>1. req' = req /\ free' = free
      BY <2>2 DEF RedisTurns, Lifecycle, vars, gatewayVars
    <3> QED
      BY <3>1, LeavesIt DEF Holders
  <2> QED
    BY <1>1, <2>1, <2>2
<1>2. ASSUME NEW r \in Requests, Handle(r)
      PROVE  Pooled'
  <2>0. req[r] \in Asks
    BY <1>0
  <2>1. CASE r \notin Holders /\ free' = free /\ \E cause : Ends(r, cause)
    BY <1>0, <2>1, EndsHolding, LeavesIt
  <2>2. CASE r \in Holders /\ free' = free + 1 /\ \E cause : Ends(r, cause)
    BY <1>0, <2>2, EndsHolding, GivesBack
  <2>3. ASSUME NEW a, req' = [req EXCEPT ![r] = a], free' = free,
               a.at \in Holding <=> r \in Holders
        PROVE  Pooled'
    <3>1. Holders' = Holders
      BY <1>0, <2>3, HoldersMove
    <3> QED
      BY <2>3, <3>1, LeavesIt
  <2>4. ASSUME NEW a, req' = [req EXCEPT ![r] = a], a.at \in Holding, r \notin Holders,
               free > 0, free' = free - 1
        PROVE  Pooled'
    <3>1. Holders' = Holders \cup {r}
      BY <1>0, <2>4, HoldersMove
    <3> QED
      BY <2>4, <3>1, TakesOne
  <2>5. CASE Arrive(r)
    <3>1. PICK c, reading :
             req' = [req EXCEPT ![r] =
                       [@ EXCEPT !.at = "limiting", !.credential = c, !.reading = reading,
                                 !.deadline = now + Budget, !.until = now + StoreTimeout]]
      BY <2>5 DEF Arrive
    <3> DEFINE a == [req[r] EXCEPT !.at = "limiting", !.credential = c, !.reading = reading,
                                   !.deadline = now + Budget, !.until = now + StoreTimeout]
    <3>2. req' = [req EXCEPT ![r] = a] /\ a.at \notin Holding
      BY <2>0, <3>1 DEF Asks, Holding, Untimed, Statements
    <3>3. free' = free /\ r \notin Holders
      BY <2>5 DEF Arrive, Receives, Holders, Holding, Untimed, Statements
    <3> HIDE DEF a
    <3> QED
      BY <2>3, <3>2, <3>3
  <2>6. CASE RunScript(r)
    <3> DEFINE h == Refilled(Current(Key[req[r].credential], req[r].reading), req[r].reading)
               a == [req[r] EXCEPT !.at = "replied", !.reading = 0, !.allowed = Affordable(h)]
    <3>1. req' = [req EXCEPT ![r] = a] /\ free' = free /\ req[r].at = "limiting"
      BY <2>6 DEF RunScript
    <3> HIDE DEF h
    <3>2. a.at \notin Holding /\ r \notin Holders
      BY <2>0, <3>1 DEF Asks, Holding, Untimed, Statements, Holders
    <3> HIDE DEF a
    <3> QED
      BY <2>3, <3>1, <3>2
  <2>7. CASE req[r].at \in {"limiting", "replied"} /\ req' = [req EXCEPT ![r] = Passed(@)]
             /\ free' = free
    <3>1. req' = [req EXCEPT ![r] = Passed(req[r])]
      BY <2>7
    <3>2. Passed(req[r]).at \notin Holding /\ r \notin Holders
      BY <2>0, <2>7 DEF Asks, Passed, Holding, Untimed, Statements, Holders
    <3> QED
      BY <2>3, <2>7, <3>1, <3>2
  <2>8. CASE Refuse(r)
    BY <2>1, <2>8 DEF Refuse, Receives, Holders, Holding, Untimed, Statements
  <2>9. CASE Limit(r)
    BY <2>1, <2>7, <2>9 DEF Limit, Holders, Holding, Untimed, Statements
  <2>10. CASE FailOpen(r)
    BY <2>7, <2>10 DEF FailOpen
  <2>11. CASE Resolve(r)
    <3>1. req[r].at = "resolving" /\ free' = free /\ r \notin Holders
      BY <2>11 DEF Resolve, Holders, Holding, Untimed, Statements
    <3>2. CASE Remaining(r) = 0 \/ req[r].credential \notin Readers
      BY <2>1, <2>11, <3>1, <3>2 DEF Resolve
    <3>3. CASE Remaining(r) # 0 /\ req[r].credential \in Readers
      <4> DEFINE a == [req[r] EXCEPT !.at = "acquiring", !.credential = None,
                                     !.ceiling = ForCall(r), !.until = now + ForCall(r)]
      <4>1. req' = [req EXCEPT ![r] = a] /\ a.at \notin Holding
        BY <2>0, <2>11, <3>3 DEF Resolve, Asks, Holding, Untimed, Statements
      <4> HIDE DEF a
      <4> QED
        BY <2>3, <3>1, <4>1
    <3> QED
      BY <3>2, <3>3
  <2>12. ASSUME NEW at PROVE Into(r, at).at = at
    BY <2>0 DEF Into, Asks
  <2>13. CASE Connect(r)
    <3> DEFINE a == [req[r] EXCEPT !.at = "beginning", !.until = 0]
    <3>1. req' = [req EXCEPT ![r] = a] /\ a.at = "beginning"
      BY <2>0, <2>13 DEF Connect, Asks
    <3> HIDE DEF a
    <3> QED
      BY <2>4, <2>13, <3>1 DEF Connect, Holders, Holding, Untimed, Statements
  <2>14. CASE Proceed(r)
    BY <2>3, <2>12, <2>14 DEF Proceed, Holders, Holding, Untimed, Statements
  <2>15. CASE Succeed(r) \/ TimeOut(r)
    <3>1. PICK cause : Leaves(r, cause)
      BY <2>15 DEF Succeed, TimeOut
    <3>2. r \in Holders
      BY <2>15 DEF Succeed, TimeOut, Holders, Holding, Statements
    <3> DEFINE a == [req[r] EXCEPT !.at = "ending", !.until = 0, !.answer = Status(cause)]
    <3>3. req' = [req EXCEPT ![r] = a] /\ a.at \in Holding /\ free' = free
      BY <2>0, <3>1 DEF Leaves, Asks, Holding, Untimed
    <3> HIDE DEF a
    <3> QED
      BY <2>3, <3>2, <3>3
  <2>16. CASE GiveUp(r) \/ LoseConnection(r)
    BY <2>1, <2>2, <2>16 DEF GiveUp, LoseConnection, Holders, Holding, Untimed, Statements
  <2>19. CASE Finish(r)
    <3>1. r \in Holders /\ free' = free + 1
      BY <2>19 DEF Finish, Holders, Holding, Untimed
    <3>2. Holders' = Holders \ {r}
      BY <1>0, <2>19, DoneHolding DEF Finish
    <3> QED
      BY <3>1, <3>2, GivesBack
  <2>17. CASE Probe(r) \/ ProbeConnect(r)
    <3>1. PICK at \in {"probing", "probed"} : req' = [req EXCEPT ![r].at = at]
             /\ IF at = "probing" THEN free' = free ELSE free > 0 /\ free' = free - 1
      BY <2>17 DEF Probe, ProbeConnect
    <3>2. r \notin Holders
      BY <2>17 DEF Probe, ProbeConnect, Receives, Holders, Holding, Untimed, Statements
    <3> DEFINE a == [req[r] EXCEPT !.at = at]
    <3>3. req' = [req EXCEPT ![r] = a] /\ (a.at \in Holding <=> at = "probed")
      BY <2>0, <3>1 DEF Asks, Holding, Untimed, Statements
    <3> HIDE DEF a
    <3> QED
      BY <2>3, <2>4, <3>1, <3>2, <3>3
  <2>18. CASE ProbeAnswer(r)
    BY <2>2, <2>18 DEF ProbeAnswer, Holders, Holding, Untimed, Statements
  <2> QED
    BY <1>2, <2>5, <2>6, <2>8, <2>9, <2>10, <2>11, <2>13, <2>14, <2>15, <2>16,
       <2>17, <2>18, <2>19 DEF Handle
<1> QED
  BY <1>1, <1>2 DEF Next

\* pool.transaction: no way for a request to end costs the pool a connection or
\* brings it one, whatever the size of the pool and the number of requests.
THEOREM PoolStaysWhole == Spec => []PoolIsWhole
<1>1. Init => Pooled
  <2> SUFFICES ASSUME Init PROVE Pooled
    OBVIOUS
  <2>1. Holders = {}
    BY DEF Init, Idle, Holders, Holding, Untimed, Statements
  <2> QED
    BY <2>1, FS_EmptySet, GatewayAssumption DEF Init, Pooled, PoolIsWhole
<1>2. IInv /\ Pooled /\ [Next]_vars => Pooled'
  BY StepPooled
<1>3. Pooled => PoolIsWhole
  BY DEF Pooled
<1> QED
  BY <1>1, <1>2, <1>3, Invariant, PTL DEF Spec

---------------------------------------------------------------------------
(* The lifespans.                                                          *)

\* The steps there are.
Names == {"tracer", "pool", "redis", "ping", "http", "queue", "driver", "verify",
          "schema", "llm", "bind"}

\* Every live resource is on the stack, and what the opening has behind it
\* is live unless it was a check or a model without its key.
OnStack ==
    /\ self \in Environments
    /\ stack \in Seq(Names)
    /\ live \subseteq ToSet(stack)
    /\ done \in Nat
    /\ phase \in {"opening", "serving"} =>
         \A i \in 1..done : Opening[i] \in live \cup Checks \cup {"llm"}
    /\ phase = "serving" => done = Len(Opening)
    /\ phase = "down" => stack = <<>>

LEMMA OpeningSeq == ASSUME self \in Environments PROVE Opening \in Seq(Names)
<1>1. WorkerOpening \in Seq(Names) /\ GatewayOpening \in Seq(Names)
  BY DEF WorkerOpening, GatewayOpening, Names
<1>2. GraphOpening \in Seq(Names)
  <2>1. CASE self.graph = "neo4j"
    BY <2>1 DEF GraphOpening, Names
  <2>2. CASE self.graph # "neo4j"
    BY <2>2 DEF GraphOpening
  <2> QED
    BY <2>1, <2>2
<1>3. McpOpening \in Seq(Names)
  <2>1. <<"pool", "http">> \in Seq(Names) /\ <<"llm", "bind">> \in Seq(Names)
    BY DEF Names
  <2>2. <<"pool", "http">> \o GraphOpening \in Seq(Names)
    BY <1>2, <2>1
  <2> QED
    BY <2>1, <2>2 DEF McpOpening
<1>4. self.service \in {"gateway", "mcp", "worker"}
  BY EnvironmentsAssumption
<1> QED
  BY <1>1, <1>3, <1>4 DEF Opening

LEMMA InitOnStack == StartupInit => OnStack
BY DEF StartupInit, OnStack, ToSet

\* The two steps that change the stack.
LEMMA OpenOnStack == OnStack /\ Open => OnStack'
<1> SUFFICES ASSUME OnStack, Open PROVE OnStack'
  OBVIOUS
<1>1. Opening \in Seq(Names) /\ Opening' = Opening
  BY OpeningSeq DEF OnStack, Open, Opening, GatewayOpening, McpOpening, GraphOpening, WorkerOpening
<1>2. Upcoming \in Names /\ Registers(Upcoming) \in Seq(Names)
  <2>1. Upcoming \in Names
    BY <1>1 DEF Upcoming, Open, OnStack
  <2> HIDE DEF Upcoming
  <2>2. CASE Upcoming \in Checks
    BY <2>1, <2>2 DEF Registers
  <2>3. CASE Upcoming \notin Checks
    BY <2>1, <2>3 DEF Registers
  <2> QED
    BY <2>1, <2>2, <2>3
<1>3. stack' \in Seq(Names) /\ ToSet(stack) \subseteq ToSet(stack')
  BY <1>2 DEF Open, OnStack, ToSet
<1>4. Upcoming \notin Checks => Upcoming \in ToSet(stack')
  <2> SUFFICES ASSUME Upcoming \notin Checks PROVE Upcoming \in ToSet(stack')
    OBVIOUS
  <2>1. stack' = Append(stack, Upcoming)
    BY <1>2 DEF Open, Registers, OnStack
  <2>2. Len(stack') = Len(stack) + 1 /\ stack'[Len(stack) + 1] = Upcoming
    BY <1>2, <2>1 DEF OnStack
  <2> QED
    BY <1>3, <2>2 DEF ToSet, OnStack
<1>5. live' \subseteq ToSet(stack')
  BY <1>3, <1>4 DEF Open, OnStack
<1>6. \A i \in 1..done' : Opening[i] \in live' \cup Checks \cup {"llm"}
  BY DEF Open, OnStack, Upcoming
<1> QED
  BY <1>1, <1>3, <1>5, <1>6 DEF Open, OnStack

\* Front takes off the last of a stack and leaves the others in their places.
LEMMA Popped ==
  ASSUME NEW S, NEW s \in Seq(S), s # <<>>
  PROVE  /\ Front(s) \in Seq(S) /\ Len(Front(s)) = Len(s) - 1
         /\ \A i \in 1..Len(s) - 1 : Front(s)[i] = s[i]
<1> DEFINE n == Len(s) - 1
<1>1. Len(s) \in Nat /\ Len(s) > 0 /\ \A i \in 1..Len(s) : s[i] \in S
  BY LenProperties, EmptySeq
<1>2. n \in Nat /\ \A i \in 1..n : s[i] \in S
  BY <1>1
<1> HIDE DEF n
<1>3. /\ SubSeq(s, 1, n) \in Seq(S)
      /\ Len(SubSeq(s, 1, n)) = (IF 1 <= n THEN n - 1 + 1 ELSE 0)
      /\ \A i \in 1..n - 1 + 1 : SubSeq(s, 1, n)[i] = s[1 + i - 1]
  BY <1>2, SubSeqProperties
<1>4. Len(SubSeq(s, 1, n)) = n /\ \A i \in 1..n : SubSeq(s, 1, n)[i] = s[i]
  BY <1>2, <1>3
<1> QED
  BY <1>3, <1>4 DEF Front, n

LEMMA CloseOnStack == OnStack /\ Close => OnStack'
<1> SUFFICES ASSUME OnStack, Close PROVE OnStack'
  OBVIOUS
<1>1. /\ stack' = Front(stack) /\ stack # <<>> /\ stack \in Seq(Names)
      /\ live' = live \ {stack[Len(stack)]}
  BY DEF Close, Last, OnStack
<1>2. stack' \in Seq(Names) /\ Len(stack') = Len(stack) - 1
        /\ \A i \in 1..Len(stack') : stack'[i] = stack[i]
  BY <1>1, Popped
<1>3. live' \subseteq ToSet(stack')
  <2> SUFFICES ASSUME NEW x \in live' PROVE x \in ToSet(stack')
    OBVIOUS
  <2>1. PICK i \in 1..Len(stack) : x = stack[i]
    BY <1>1 DEF OnStack, ToSet
  <2>2. i \in 1..Len(stack')
    BY <1>1, <1>2, <2>1
  <2> QED
    BY <1>2, <2>1, <2>2 DEF ToSet
<1> QED
  BY <1>1, <1>2, <1>3 DEF Close, OnStack

LEMMA StepOnStack == OnStack /\ [Next]_vars => OnStack'
<1> SUFFICES ASSUME OnStack, [Next]_vars PROVE OnStack'
  OBVIOUS
<1>1. CASE UNCHANGED startupVars
  BY <1>1 DEF OnStack, startupVars, Opening, GatewayOpening, McpOpening, GraphOpening, WorkerOpening
<1>2. CASE Open
  BY <1>2, OpenOnStack
<1>3. CASE Close
  BY <1>3, CloseOnStack
<1>4. CASE NoModel
  <2>1. Opening' = Opening
    BY <1>4 DEF NoModel, Opening, GatewayOpening, McpOpening, GraphOpening, WorkerOpening
  <2> QED
    BY <1>4, <2>1 DEF NoModel, OnStack, Upcoming
<1>5. CASE Fail \/ Serve \/ Stop \/ Down
  <2>1. Opening' = Opening
    BY <1>5 DEF Fail, Serve, Stop, Down, Opening, GatewayOpening, McpOpening, GraphOpening,
                WorkerOpening
  <2> QED
    BY <1>5, <2>1 DEF Fail, Serve, Stop, Down, OnStack
<1>6. UNCHANGED startupVars \/ Open \/ NoModel \/ Fail \/ Serve \/ Stop \/ Close \/ Down
  <2>1. ASSUME NEW r \in Requests, Handle(r) PROVE UNCHANGED startupVars
    BY <2>1 DEF Handle, Arrive, Refuse, RunScript, Limit, FailOpen, Resolve, Connect, Proceed,
                Succeed, Leaves, TimeOut, GiveUp, Finish, LoseConnection, Probe, ProbeConnect,
                ProbeAnswer
  <2> QED
    BY <2>1 DEF Next, Lifecycle, StopServing, Tick, RedisTurns, vars
<1> QED
  BY <1>1, <1>2, <1>3, <1>4, <1>5, <1>6

\* AsyncExitStack: whichever step of the opening fails, in every environment
\* nothing stays open behind a process that is down, and one that serves has
\* what it needs.
THEOREM NothingIsLeaked == Spec => []NothingLeaks
<1>1. Init => OnStack
  BY InitOnStack DEF Init
<1>2. OnStack /\ [Next]_vars => OnStack'
  BY StepOnStack
<1>3. OnStack => NothingLeaks
  <2> SUFFICES ASSUME OnStack PROVE NothingLeaks
    OBVIOUS
  <2>1. phase = "down" => live = {}
    BY DEF OnStack, ToSet
  <2>2. Serving => ToSet(Opening) \ (Checks \cup {"llm"}) \subseteq live
    <3> SUFFICES ASSUME Serving, NEW x \in ToSet(Opening) PROVE x \in live \cup Checks \cup {"llm"}
      OBVIOUS
    <3>1. Opening \in Seq(Names)
      BY OpeningSeq DEF OnStack
    <3>2. PICK i \in 1..Len(Opening) : x = Opening[i]
      BY <3>1 DEF ToSet
    <3> QED
      BY <3>2 DEF OnStack, Serving
  <2> QED
    BY <2>1, <2>2 DEF NothingLeaks
<1> QED
  BY <1>1, <1>2, <1>3, PTL DEF Spec

---------------------------------------------------------------------------
(* Types.                                                                  *)

\* No step of an opening comes twice, so nothing is on the stack twice and
\* what is closed is not closed again.
EachOnce ==
    /\ done <= Len(Opening)
    /\ ToSet(stack) \subseteq live
    /\ \A i, j \in 1..Len(stack) : stack[i] = stack[j] => i = j
    /\ phase = "opening" => \A i \in 1..Len(stack) : \E k \in 1..done : Opening[k] = stack[i]

Differ(s) == \A i, j \in 1..Len(s) : s[i] = s[j] => i = j

\* What a concatenation is made of.
LEMMA Joined ==
    ASSUME NEW S, NEW s \in Seq(S), NEW t \in Seq(S)
    PROVE  /\ Len(s \o t) = Len(s) + Len(t)
           /\ \A i \in 1..Len(s) : (s \o t)[i] = s[i]
           /\ \A i \in 1..Len(t) : (s \o t)[Len(s) + i] = t[i]
BY ConcatProperties

\* In every environment the steps of an opening are different.
LEMMA OpeningOnce == ASSUME self \in Environments PROVE Differ(Opening)
<1>1. Differ(WorkerOpening) /\ Differ(GatewayOpening)
  <2>1. Differ(WorkerOpening)
    BY DEF WorkerOpening, Differ
  <2>2. Differ(GatewayOpening)
    BY DEF GatewayOpening, Differ
  <2> QED
    BY <2>1, <2>2
<1>2. Differ(McpOpening)
  <2> DEFINE first == <<"pool", "http">> \o GraphOpening
             last == <<"llm", "bind">>
  <2>1. McpOpening = first \o last /\ last \in Seq(Names) /\ <<"pool", "http">> \in Seq(Names)
    BY DEF McpOpening, Names
  <2>2. Len(last) = 2 /\ last[1] = "llm" /\ last[2] = "bind"
    OBVIOUS
  <2> HIDE DEF last
  <2>3. CASE self.graph = "neo4j"
    <3>1. GraphOpening = <<"driver", "verify", "schema">> /\ GraphOpening \in Seq(Names)
      BY <2>3 DEF GraphOpening, Names
    <3>2. /\ first \in Seq(Names) /\ Len(first) = 5
          /\ first[1] = "pool" /\ first[2] = "http" /\ first[3] = "driver"
          /\ first[4] = "verify" /\ first[5] = "schema"
      BY <2>1, <3>1, ConcatProperties
    <3> HIDE DEF first
    <3>3. first \in Seq(Names) /\ last \in Seq(Names)
      BY <2>1, <3>2
    <3>4. /\ Len(first \o last) = Len(first) + Len(last)
          /\ \A i \in 1..Len(first) : (first \o last)[i] = first[i]
          /\ \A i \in 1..Len(last) : (first \o last)[Len(first) + i] = last[i]
      BY <3>3, Joined
    <3>5. /\ Len(McpOpening) = Len(first) + Len(last)
          /\ \A i \in 1..Len(first) : McpOpening[i] = first[i]
          /\ \A i \in 1..Len(last) : McpOpening[Len(first) + i] = last[i]
      BY <2>1, <3>4, Zenon
    <3>6. /\ Len(McpOpening) = 7
          /\ McpOpening[1] = "pool" /\ McpOpening[2] = "http" /\ McpOpening[3] = "driver"
          /\ McpOpening[4] = "verify" /\ McpOpening[5] = "schema"
          /\ McpOpening[6] = "llm" /\ McpOpening[7] = "bind"
      BY <2>2, <3>2, <3>5
    <3> QED
      BY <3>6 DEF Differ
  <2>4. CASE self.graph # "neo4j"
    <3>1. GraphOpening = <<>> /\ GraphOpening \in Seq(Names)
      BY <2>4 DEF GraphOpening
    <3>2. /\ first \in Seq(Names) /\ Len(first) = 2
          /\ first[1] = "pool" /\ first[2] = "http"
      BY <2>1, <3>1, ConcatProperties
    <3> HIDE DEF first
    <3>3. first \in Seq(Names) /\ last \in Seq(Names)
      BY <2>1, <3>2
    <3>4. /\ Len(first \o last) = Len(first) + Len(last)
          /\ \A i \in 1..Len(first) : (first \o last)[i] = first[i]
          /\ \A i \in 1..Len(last) : (first \o last)[Len(first) + i] = last[i]
      BY <3>3, Joined
    <3>5. /\ Len(McpOpening) = Len(first) + Len(last)
          /\ \A i \in 1..Len(first) : McpOpening[i] = first[i]
          /\ \A i \in 1..Len(last) : McpOpening[Len(first) + i] = last[i]
      BY <2>1, <3>4, Zenon
    <3>6. /\ Len(McpOpening) = 4
          /\ McpOpening[1] = "pool" /\ McpOpening[2] = "http"
          /\ McpOpening[3] = "llm" /\ McpOpening[4] = "bind"
      BY <2>2, <3>2, <3>5
    <3> QED
      BY <3>6 DEF Differ
  <2> QED
    BY <2>3, <2>4
<1>3. self.service \in {"gateway", "mcp", "worker"}
  BY EnvironmentsAssumption
<1> QED
  BY <1>1, <1>2, <1>3 DEF Opening

LEMMA OpenEachOnce == OnStack /\ EachOnce /\ Open => EachOnce'
<1> SUFFICES ASSUME OnStack, EachOnce, Open PROVE EachOnce'
  OBVIOUS
<1>1. Opening' = Opening /\ Opening \in Seq(Names) /\ Differ(Opening)
  BY OpeningSeq, OpeningOnce
     DEF OnStack, Open, Opening, GatewayOpening, McpOpening, GraphOpening, WorkerOpening
<1>2. /\ done' = done + 1 /\ done' \in 1..Len(Opening) /\ Upcoming = Opening[done']
      /\ phase' = "opening" /\ done \in Nat /\ stack \in Seq(Names)
  BY <1>1 DEF Open, Upcoming, OnStack
<1>3. \A i \in 1..Len(stack) : stack[i] # Upcoming
  <2> SUFFICES ASSUME NEW i \in 1..Len(stack) PROVE stack[i] # Upcoming
    OBVIOUS
  <2>1. PICK k \in 1..done : Opening[k] = stack[i]
    BY DEF EachOnce, Open
  <2>2. k \in 1..Len(Opening) /\ k # done'
    BY <1>1, <1>2, <2>1
  <2> QED
    BY <1>1, <1>2, <2>1, <2>2 DEF Differ
<1>4. CASE Upcoming \in Checks
  <2>1. stack' = stack /\ live' = live
    BY <1>2, <1>4 DEF Open, Registers
  <2> QED
    BY <1>1, <1>2, <2>1 DEF EachOnce, Open, ToSet
<1>5. CASE Upcoming \notin Checks
  <2>0. Upcoming \in Names
    BY <1>1, <1>2
  <2>1. stack' = Append(stack, Upcoming) /\ live' = live \cup {Upcoming}
    BY <1>2, <1>5, <2>0 DEF Open, Registers
  <2>2. /\ Len(stack') = Len(stack) + 1 /\ stack'[Len(stack) + 1] = Upcoming
        /\ \A i \in 1..Len(stack) : stack'[i] = stack[i]
    BY <1>2, <2>0, <2>1
  <2>3. Len(stack) \in Nat
    BY <1>2
  <2>4. ToSet(stack') \subseteq live'
    BY <2>1, <2>2, <2>3 DEF ToSet, EachOnce
  <2>5. Differ(stack')
    BY <1>3, <2>2, <2>3 DEF Differ, EachOnce
  <2>6. \A i \in 1..Len(stack') : \E k \in 1..done' : Opening[k] = stack'[i]
    <3> SUFFICES ASSUME NEW i \in 1..Len(stack')
                 PROVE  \E k \in 1..done' : Opening[k] = stack'[i]
      OBVIOUS
    <3>1. CASE i \in 1..Len(stack)
      <4>1. PICK k \in 1..done : Opening[k] = stack[i]
        BY <3>1 DEF EachOnce, Open
      <4> QED
        BY <1>2, <2>2, <3>1, <4>1
    <3>2. CASE i = Len(stack) + 1
      BY <1>2, <2>2, <3>2
    <3> QED
      BY <2>2, <2>3, <3>1, <3>2
  <2> QED
    BY <1>1, <1>2, <2>4, <2>5, <2>6 DEF EachOnce, Differ
<1> QED
  BY <1>4, <1>5

LEMMA CloseEachOnce == OnStack /\ EachOnce /\ Close => EachOnce'
<1> SUFFICES ASSUME OnStack, EachOnce, Close PROVE EachOnce'
  OBVIOUS
<1>1. Opening' = Opening /\ done' = done /\ phase' = phase /\ phase = "closing"
  BY DEF Close, Opening, GatewayOpening, McpOpening, GraphOpening, WorkerOpening
<1>2. /\ stack' = Front(stack) /\ stack # <<>> /\ stack \in Seq(Names)
      /\ live' = live \ {stack[Len(stack)]}
  BY DEF Close, Last, OnStack
<1>3. Len(stack') = Len(stack) - 1 /\ \A i \in 1..Len(stack') : stack'[i] = stack[i]
  BY <1>2, Popped
<1>4. Len(stack) \in Nat \ {0}
  BY <1>2
<1>5. ToSet(stack') \subseteq live'
  <2> SUFFICES ASSUME NEW i \in 1..Len(stack') PROVE stack'[i] \in live'
    BY DEF ToSet
  <2>1. stack[i] \in live /\ stack[i] # stack[Len(stack)]
    BY <1>3, <1>4 DEF EachOnce, ToSet
  <2> QED
    BY <1>2, <1>3, <2>1
<1>6. Differ(stack')
  BY <1>3, <1>4 DEF Differ, EachOnce
<1> QED
  BY <1>1, <1>5, <1>6 DEF EachOnce, Differ

LEMMA StepEachOnce == OnStack /\ EachOnce /\ [Next]_vars => EachOnce'
<1> SUFFICES ASSUME OnStack, EachOnce, [Next]_vars PROVE EachOnce'
  OBVIOUS
<1>1. CASE Open
  BY <1>1, OpenEachOnce
<1>2. CASE Close
  BY <1>2, CloseEachOnce
<1>3. CASE NoModel
  <2>1. /\ Opening' = Opening /\ done' = done + 1 /\ done < Len(Opening)
        /\ stack' = stack /\ live' = live /\ phase' = phase
    BY <1>3 DEF NoModel, Opening, GatewayOpening, McpOpening, GraphOpening, WorkerOpening
  <2>2. done \in Nat /\ Len(Opening) \in Nat
    BY OpeningSeq DEF OnStack
  <2>3. \A k \in 1..done : k \in 1..done'
    BY <2>1, <2>2
  <2>4. done' <= Len(Opening')
    BY <2>1, <2>2
  <2> QED
    BY <2>1, <2>3, <2>4 DEF EachOnce, ToSet
<1>4. CASE UNCHANGED <<self, done, live, stack>> /\ (phase' = "opening" => phase = "opening")
  BY <1>4 DEF EachOnce, Opening, GatewayOpening, McpOpening, GraphOpening, WorkerOpening, ToSet
<1>5. UNCHANGED startupVars \/ Open \/ NoModel \/ Fail \/ Serve \/ Stop \/ Close \/ Down
  <2>1. ASSUME NEW r \in Requests, Handle(r) PROVE UNCHANGED startupVars
    BY <2>1 DEF Handle, Arrive, Refuse, RunScript, Limit, FailOpen, Resolve, Connect, Proceed,
                Succeed, Leaves, TimeOut, GiveUp, Finish, LoseConnection, Probe, ProbeConnect,
                ProbeAnswer
  <2> QED
    BY <2>1 DEF Next, Lifecycle, StopServing, Tick, RedisTurns, vars
<1>6. CASE UNCHANGED startupVars \/ Fail \/ Serve \/ Stop \/ Down
  BY <1>4, <1>6 DEF startupVars, Fail, Serve, Stop, Down
<1> QED
  BY <1>1, <1>2, <1>3, <1>5, <1>6

Ranges == now \in 0..MaxTime /\ redis \in BOOLEAN /\ phase \in {"opening", "serving", "closing", "down"}

LEMMA StepRanges == Ranges /\ [Next]_vars => Ranges'
<1> SUFFICES ASSUME Ranges, [Next]_vars PROVE Ranges'
  OBVIOUS
<1> USE GatewayAssumption
<1>1. CASE Tick
  BY <1>1 DEF Tick, Ranges, startupVars
<1>2. CASE RedisTurns \/ Lifecycle \/ UNCHANGED vars
  BY <1>2 DEF RedisTurns, Lifecycle, Open, NoModel, Fail, Serve, StopServing, Stop, Close, Down,
              Ranges, vars, gatewayVars, startupVars
<1>3. ASSUME NEW r \in Requests, Handle(r) PROVE Ranges'
  <2>1. UNCHANGED <<startupVars, now, redis>>
    BY <1>3 DEF Handle, Arrive, Refuse, RunScript, Limit, FailOpen, Resolve, Connect, Proceed,
                Succeed, Leaves, TimeOut, GiveUp, Finish, LoseConnection, Probe, ProbeConnect,
                ProbeAnswer
  <2> QED
    BY <2>1 DEF Ranges, startupVars
<1> QED
  BY <1>1, <1>2, <1>3 DEF Next

\* Every variable keeps its type; the pool never holds more connections than
\* it was given, and the exit stack nothing that is not open.
THEOREM TypeCorrect == Spec => []TypeOK
<1> DEFINE Inv == IInv /\ Pooled /\ OnStack /\ EachOnce /\ Ranges
<1>1. Init => Inv
  <2> SUFFICES ASSUME Init PROVE Inv
    OBVIOUS
  <2>1. IInv /\ OnStack
    BY InitIInv, InitOnStack DEF Init
  <2>2. Pooled
    <3>1. Holders = {}
      BY DEF Init, Idle, Holders, Holding, Untimed, Statements
    <3> QED
      BY <3>1, FS_EmptySet, GatewayAssumption DEF Init, Pooled, PoolIsWhole
  <2>3. EachOnce
    <3>1. Len(Opening) \in Nat
      BY <2>1, OpeningSeq DEF OnStack
    <3> QED
      BY <3>1 DEF Init, StartupInit, EachOnce, ToSet
  <2>4. Ranges
    BY GatewayAssumption DEF Init, StartupInit, Ranges
  <2> QED
    BY <2>1, <2>2, <2>3, <2>4
<1>2. Inv /\ [Next]_vars => Inv'
  BY StepIInv, StepPooled, StepOnStack, StepEachOnce, StepRanges
<1>3. Inv => TypeOK
  <2> SUFFICES ASSUME Inv PROVE TypeOK
    OBVIOUS
  <2>1. StartupTypeOK
    <3>1. done \in 0..Len(Opening)
      BY OpeningSeq DEF OnStack, EachOnce
    <3>2. stack \in Seq(live)
      <4>1. \A i \in 1..Len(stack) : stack[i] \in live
        BY DEF EachOnce, ToSet
      <4> QED
        BY <4>1 DEF OnStack
    <3> QED
      BY <3>1, <3>2 DEF StartupTypeOK, OnStack, Ranges
  <2>2. free \in 0..PoolSize
    BY FS_CardinalityType, GatewayAssumption DEF Pooled, PoolIsWhole
  <2> QED
    BY <2>1, <2>2 DEF TypeOK, IInv, Typed, Ranges
<1> QED
  BY <1>1, <1>2, <1>3, PTL DEF Spec
=============================================================================
