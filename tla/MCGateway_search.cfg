\* One replica's requests on one bucket, a pool of one, a budget of one timeout.
SPECIFICATION FairSpec
CONSTANTS
    c1 = c1
    c2 = c2
    Environments <- SomeEnvironments
    Requests = {r1, r2}
    Credentials = {c1, c2}
    Readers = {c1}
    Key <- OneBucket
    Burst = 1
    Cost = 2
    MaxSkew = 1
    Budget = 2
    StoreTimeout = 2
    PoolSize = 1
    MaxTime = 11
    MaxStall = 2
    None = None
CHECK_DEADLOCK FALSE
INVARIANTS
    NoMinting
    OverrunIsBounded
    NothingLeaks
    PoolIsWhole
PROPERTIES
    SearchIsAnswered
