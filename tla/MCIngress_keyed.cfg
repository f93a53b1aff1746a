\* Two requests of three tenants, one of whose ids holds a ":", with and without a header, one body of each mode; workers are fair.
SPECIFICATION FairSpec
CONSTANTS
    Pieces = {"a", "b", "1"}
    Requests = {r1, r2}
    Tenants <- SomeTenants
    Headers <- SomeHeaders
    Bodies = {b, s}
    Strict = {s}
    MaxTries = 2
    None = None
CHECK_DEADLOCK FALSE
INVARIANTS
    RepliesMatch
    AnswerIsBacked
    AnswersAreKept
PROPERTIES
    AcceptedIsDecided
