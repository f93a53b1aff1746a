------------------------------ MODULE Gateway ------------------------------
(***************************************************************************)
(* The read path of one gateway process: the middleware chain in front of  *)
(* GET /memory/search, the token bucket the replicas share in Redis, the   *)
(* budget of a request, and the pool of Postgres connections.              *)
(*                                                                         *)
(* Time is counted in ticks.  A step is what a request does between two    *)
(* awaits; a wait that has a timeout ends, one way or the other, no later  *)
(* than it, and code between two waits takes no time.  The waits without a *)
(* timeout, for BEGIN, COMMIT and ROLLBACK, take as long as they take.     *)
(***************************************************************************)
EXTENDS Integers, FiniteSets, Startup

CONSTANTS
    Requests,
    Credentials,  \* the keys in GM_GATEWAY_API_KEYS
    Readers,      \* those of them that carry memory:read
    Key,          \* tenant and first eight characters of each credential
    Burst,        \* tokens in a full bucket
    Cost,         \* ticks in which one token is refilled
    MaxSkew,      \* how far a replica's clock may be off
    Budget,       \* request_deadline_s
    StoreTimeout, \* store_timeout_s
    PoolSize,
    MaxTime,      \* bound of the model: the clock stops there
    MaxStall,     \* bound of the model: a request's ticks in untimed waits
    None

ASSUME GatewayAssumption ==
    /\ Readers \subseteq Credentials /\ None \notin Credentials
    /\ {Burst, Cost, Budget, StoreTimeout, PoolSize} \subseteq Nat \ {0}
    /\ {MaxSkew, MaxTime, MaxStall} \subseteq Nat

VARIABLES
    now,          \* the true time
    redis,        \* whether Redis can be reached
    bucket,       \* Redis' hash for each bucket key
    free,         \* connections in the pool that nobody holds
    req           \* where each request stands

gatewayVars == <<now, redis, bucket, free, req>>
vars == <<startupVars, gatewayVars>>

Lesser(a, b) == IF a <= b THEN a ELSE b

\* bucket_key.
Buckets == {Key[c] : c \in Credentials}
Full == Burst * Cost

\* TokenBucket.__init__: by then an idle bucket is full again.
IdleTTL == Full + 1

\* tokens and updated are the script's fields, in ticks' worth and by the
\* caller's clock; kept is Redis' expiry.  Of the last two the code knows
\* nothing: tokens granted since the hash came to be, and its first reading.
Hashes == [tokens : 0..Full, updated : Int, kept : Nat, granted : Nat, born : Int]

Known(b) == bucket[b] # None /\ now < bucket[b].kept

\* _BUCKET_SCRIPT: a hash that is not there starts out full.
Current(b, t) ==
    IF Known(b) THEN bucket[b]
    ELSE [tokens |-> Full, updated |-> t, kept |-> now, granted |-> 0, born |-> t]

\* Faulty: a lagging caller refills nothing but sets the clock back.
RefilledAnyway(h, t) ==
    [h EXCEPT !.tokens = IF t > h.updated THEN Lesser(Full, @ + (t - h.updated)) ELSE @,
              !.updated = t]

\* _BUCKET_SCRIPT: time that has not passed refills nothing and is not noted.
Refilled(h, t) ==
    IF t > h.updated
    THEN [h EXCEPT !.tokens = Lesser(Full, @ + (t - h.updated)), !.updated = t]
    ELSE h

Affordable(h) == h.tokens >= Cost

\* _BUCKET_SCRIPT: a check takes a token or leaves the bucket as it is, and
\* either way keeps it for another while.
Checked(h) ==
    LET taken == IF Affordable(h)
                 THEN [h EXCEPT !.tokens = @ - Cost, !.granted = @ + 1] ELSE h
    IN  [taken EXCEPT !.kept = now + IdleTTL]

\* at names the await the request stands in; of stalled, the ticks it has
\* spent in waits without a timeout, the code knows nothing.
Waits == {"limiting", "replied", "acquiring", "binding", "fetching", "citing"}
Untimed == {"beginning", "ending"}
Searching == Waits \cup Untimed \cup {"resolving"}
Statements == {"binding", "fetching", "citing"}
Holding == Untimed \cup Statements \cup {"probed"}

Asks == [at : Searching \cup Holding \cup {"idle", "probing", "done"},
         credential : Credentials \cup {None}, reading : Int, allowed : BOOLEAN,
         deadline : Nat, ceiling : Nat, until : Nat, stalled : Nat, answer : Nat]

Idle == [at |-> "idle", credential |-> None, deadline |-> 0, ceiling |-> 0,
         until |-> 0, stalled |-> 0, reading |-> 0, allowed |-> FALSE, answer |-> 0]

Init ==
    /\ StartupInit
    /\ now = 0 /\ redis = TRUE
    /\ bucket = [b \in Buckets |-> None]
    /\ free = PoolSize
    /\ req = [r \in Requests |-> Idle]

\* The http_status of the errors (errors.py) and of the refusals of the chain.
Published == [ok |-> 200, credential |-> 401, scope |-> 403, rate |-> 429,
              deadline |-> 504, store |-> 503, unready |-> 503]

\* build_app installs no exception handler: what the domain raises reaches the
\* caller as the server's 500.
Status(cause) ==
    IF cause \in {"deadline", "store"} THEN 500 ELSE Published[cause]

Ends(r, cause) ==
    req' = [req EXCEPT ![r] = [Idle EXCEPT !.at = "done", !.answer = Status(cause)]]

\* The most a search can take in the model.
Longest == 3 * StoreTimeout + Lesser(Budget, 2 * StoreTimeout) + MaxStall

Receives(r) == Serving /\ self.service = "gateway" /\ req[r].at = "idle"

\* RequestDeadline, RequestId and Authenticate, up to the limiter's call.
Arrive(r) ==
    /\ Receives(r) /\ now + Longest <= MaxTime
    /\ \E c \in Credentials, reading \in (now - MaxSkew)..(now + MaxSkew) :
         req' = [req EXCEPT ![r] =
                    [@ EXCEPT !.at = "limiting", !.credential = c, !.reading = reading,
                              !.deadline = now + Budget, !.until = now + StoreTimeout]]
    /\ UNCHANGED <<startupVars, now, redis, bucket, free>>

\* Authenticate: no bearer token, or one that is no configured key.
Refuse(r) ==
    /\ Receives(r)
    /\ Ends(r, "credential")
    /\ UNCHANGED <<startupVars, now, redis, bucket, free>>

\* The script runs at Redis, in one piece, some time after the caller read its
\* clock; the reply is on its way.
RunScript(r) ==
    /\ req[r].at = "limiting" /\ redis
    /\ LET b == Key[req[r].credential]
           h == Refilled(Current(b, req[r].reading), req[r].reading)
       IN  /\ bucket' = [bucket EXCEPT ![b] = Checked(h)]
           /\ req' = [req EXCEPT ![r] = [@ EXCEPT !.at = "replied", !.reading = 0,
                                            !.allowed = Affordable(h)]]
    /\ UNCHANGED <<startupVars, now, redis, free>>

Passed(a) == [a EXCEPT !.at = "resolving", !.reading = 0, !.allowed = FALSE, !.until = 0]

\* RateLimit: on with it, or 429.
Limit(r) ==
    /\ req[r].at = "replied"
    /\ IF req[r].allowed
       THEN req' = [req EXCEPT ![r] = Passed(@)]
       ELSE Ends(r, "rate")
    /\ UNCHANGED <<startupVars, now, redis, bucket, free>>

\* RateLimit: Redis cannot be reached or has not replied in time, whether or
\* not the script ran; the request goes on.
FailOpen(r) ==
    /\ req[r].at \in {"limiting", "replied"} /\ (~redis \/ now = req[r].until)
    /\ req' = [req EXCEPT ![r] = Passed(@)]
    /\ UNCHANGED <<startupVars, now, redis, bucket, free>>

Remaining(r) == IF req[r].deadline > now THEN req[r].deadline - now ELSE 0

\* Faulty: the store's ceiling, whatever is left of the budget.
ForCallRaw(r) == StoreTimeout

\* Deadline.for_call.
ForCall(r) == Lesser(StoreTimeout, Remaining(r))

\* The handler's dependencies, evaluated once for the request: a store with a
\* timeout of its own; then the scope.
Resolve(r) ==
    /\ req[r].at = "resolving"
    /\ IF Remaining(r) = 0 THEN Ends(r, "deadline")
       ELSE IF req[r].credential \notin Readers THEN Ends(r, "scope")
       ELSE req' = [req EXCEPT ![r] =
                       [@ EXCEPT !.at = "acquiring", !.credential = None, !.ceiling = ForCall(r),
                                 !.until = now + ForCall(r)]]
    /\ UNCHANGED <<startupVars, now, redis, bucket, free>>

\* Faulty: pool.acquire() is given no timeout.
TimedButAcquire(r) == req[r].at \in Waits \ {"acquiring"}

\* Redis by its socket timeout, the wait for a connection and the statements
\* of the store by the store's.  create_pool sets no command_timeout, so what
\* connection.transaction() sends has none.
Timed(r) == req[r].at \in Waits

Into(r, at) == [req[r] EXCEPT !.at = at, !.until = now + req[r].ceiling]

\* pool.transaction: a connection becomes free in time, and is sent BEGIN.
Connect(r) ==
    /\ req[r].at = "acquiring" /\ free > 0
    /\ free' = free - 1
    /\ req' = [req EXCEPT ![r] = [@ EXCEPT !.at = "beginning", !.until = 0]]
    /\ UNCHANGED <<startupVars, now, redis, bucket>>

\* The transaction is open, tenant_transaction has set the tenant,
\* PgVectorStore.search has its rows: to the next statement.
Proceed(r) ==
    /\ \/ req[r].at = "beginning" /\ req' = [req EXCEPT ![r] = Into(r, "binding")]
       \/ req[r].at = "binding" /\ req' = [req EXCEPT ![r] = Into(r, "fetching")]
       \/ req[r].at = "fetching" /\ req' = [req EXCEPT ![r] = Into(r, "citing")]
    /\ UNCHANGED <<startupVars, now, redis, bucket, free>>

\* Leaving the transaction's block: COMMIT, or ROLLBACK, is sent.
Leaves(r, cause) ==
    /\ req' = [req EXCEPT ![r] = [@ EXCEPT !.at = "ending", !.until = 0,
                                           !.answer = Status(cause)]]
    /\ UNCHANGED <<startupVars, now, redis, bucket, free>>

\* The citations are in, or no row was found to cite.
Succeed(r) ==
    /\ req[r].at \in {"fetching", "citing"}
    /\ Leaves(r, "ok")

\* A statement did not return.
TimeOut(r) ==
    /\ Timed(r) /\ req[r].at \in Statements /\ now = req[r].until
    /\ Leaves(r, "store")

\* No connection became free in time.
GiveUp(r) ==
    /\ Timed(r) /\ req[r].at = "acquiring" /\ now = req[r].until
    /\ Ends(r, "store")
    /\ UNCHANGED <<startupVars, now, redis, bucket, free>>

\* Faulty: the connection goes back only from a search that succeeded.
FinishKeeping(r) ==
    /\ req[r].at = "ending"
    /\ free' = IF req[r].answer = 200 THEN free + 1 ELSE free
    /\ req' = [req EXCEPT ![r] = [Idle EXCEPT !.at = "done", !.answer = req[r].answer]]
    /\ UNCHANGED <<startupVars, now, redis, bucket>>

\* COMMIT or ROLLBACK has returned and the connection has gone back.
Finish(r) ==
    /\ req[r].at = "ending"
    /\ free' = free + 1
    /\ req' = [req EXCEPT ![r] = [Idle EXCEPT !.at = "done", !.answer = req[r].answer]]
    /\ UNCHANGED <<startupVars, now, redis, bucket>>

\* The server is gone, which every wait on it notices at once; what there was
\* of a connection goes back.
LoseConnection(r) ==
    /\ req[r].at \in {"acquiring"} \cup Untimed \cup Statements
    /\ free' = IF req[r].at = "acquiring" THEN free ELSE free + 1
    /\ Ends(r, "store")
    /\ UNCHANGED <<startupVars, now, redis, bucket>>

\* readyz: SELECT 1 on a connection of the pool, without principal, budget or
\* timeout.
Probe(r) ==
    /\ Receives(r)
    /\ req' = [req EXCEPT ![r].at = "probing"]
    /\ UNCHANGED <<startupVars, now, redis, bucket, free>>

ProbeConnect(r) ==
    /\ req[r].at = "probing" /\ free > 0
    /\ free' = free - 1
    /\ req' = [req EXCEPT ![r].at = "probed"]
    /\ UNCHANGED <<startupVars, now, redis, bucket>>

\* The statement comes back or breaks off; Redis is asked as well.
ProbeAnswer(r) ==
    /\ req[r].at = "probed"
    /\ free' = free + 1
    /\ \E postgres \in BOOLEAN : Ends(r, IF postgres /\ redis THEN "ok" ELSE "unready")
    /\ UNCHANGED <<startupVars, now, redis, bucket>>

\* Redis becomes unreachable, or reachable again.
RedisTurns ==
    /\ Serving /\ self.service = "gateway"
    /\ redis' = ~redis
    /\ UNCHANGED <<startupVars, now, bucket, free, req>>

\* No wait outlasts its timeout if it has one, and code between waits takes no
\* time.
Tick ==
    /\ Serving /\ self.service = "gateway" /\ now < MaxTime
    /\ \A r \in Requests :
          /\ Timed(r) => now < req[r].until
          /\ req[r].at \in Untimed => req[r].stalled < MaxStall
          /\ req[r].at # "resolving"
    /\ now' = now + 1
    /\ req' = [r \in Requests |->
                  IF req[r].at \in Untimed THEN [req[r] EXCEPT !.stalled = @ + 1] ELSE req[r]]
    /\ UNCHANGED <<startupVars, redis, bucket, free>>

\* The server stops once the requests in flight are answered.
StopServing ==
    /\ \A r \in Requests : req[r].at \in {"idle", "done"}
    /\ Stop

Lifecycle ==
    /\ Open \/ NoModel \/ Fail \/ Serve \/ StopServing \/ Close \/ Down
    /\ UNCHANGED gatewayVars

Handle(r) ==
    \/ Arrive(r) \/ Refuse(r) \/ RunScript(r) \/ Limit(r) \/ FailOpen(r)
    \/ Resolve(r) \/ Connect(r) \/ Proceed(r) \/ Succeed(r)
    \/ TimeOut(r) \/ GiveUp(r) \/ Finish(r) \/ LoseConnection(r)
    \/ Probe(r) \/ ProbeConnect(r) \/ ProbeAnswer(r)

Next == Tick \/ RedisTurns \/ Lifecycle \/ \E r \in Requests : Handle(r)

Spec == Init /\ [][Next]_vars

\* Time passes, a request's own code runs, and a timeout goes off when it is
\* due.  That Redis, the pool or a statement of the store ever answers is not
\* assumed; that Postgres comes back from BEGIN, COMMIT and ROLLBACK has to be,
\* for nothing else ends these waits.
FairSpec ==
    /\ Spec /\ WF_vars(Tick)
    /\ \A r \in Requests :
          /\ WF_vars(FailOpen(r) \/ Resolve(r) \/ TimeOut(r) \/ GiveUp(r))
          /\ WF_vars(req[r].at = "beginning" /\ Proceed(r))
          /\ WF_vars(Finish(r))

TypeOK ==
    /\ StartupTypeOK
    /\ now \in 0..MaxTime /\ redis \in BOOLEAN
    /\ bucket \in [Buckets -> Hashes \cup {None}]
    /\ free \in 0..PoolSize
    /\ req \in [Requests -> Asks]

\* Whatever the clocks of the replicas say and in whatever order their checks
\* reach Redis, a bucket never gives out more than it held and was refilled
\* with since its first reading, and it is not refilled ahead of the fastest
\* clock (_BUCKET_SCRIPT).
NoMinting ==
    \A b \in Buckets : bucket[b] # None =>
        /\ bucket[b].granted * Cost + bucket[b].tokens
                <= Full + (bucket[b].updated - bucket[b].born)
        /\ bucket[b].updated <= now + MaxSkew

Holders == {r \in Requests : req[r].at \in Holding}

\* However searches and probes end - answered, out of time, cut off, or still
\* waiting for a connection when they gave up - no connection is kept from the
\* pool and none goes back twice (pool.transaction).
PoolIsWhole == free + Cardinality(Holders) = PoolSize

\* A search still in flight is past its budget by less than three of its four
\* timed waits on Postgres and what BEGIN, COMMIT and ROLLBACK took of it; but
\* for these it is within the budget where that allows for five full timeouts,
\* as the defaults do (Deadline.for_call, evaluated once; pool.transaction).
OverrunIsBounded ==
    \A r \in Requests : req[r].at \in Searching =>
        /\ now <= req[r].deadline + 3 * StoreTimeout + req[r].stalled
        /\ 5 * StoreTimeout <= Budget => now <= req[r].deadline + req[r].stalled

\* A search that got past authentication is answered, though Redis, the pool
\* and every statement of the store stall, provided that Postgres comes back
\* from the BEGIN and the COMMIT or ROLLBACK around them.
SearchIsAnswered ==
    \A r \in Requests : req[r].at = "limiting" ~> req[r].at = "done"
=============================================================================
