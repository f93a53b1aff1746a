\* Graph outages, dying passes and a lost in-process graph; an event the graph refuses, one of a foreign tenant, batches of two.
SPECIFICATION FairSpec
CONSTANTS
    Assertions = {a1, a2, a3}
    Relays = {r1, r2}
    Stamps = {1}
    Poison = {a3}
    Rejected = {a2}
    BatchSize = 2
    MaxAttempts = 2
    MaxRestarts = 1
    Faults = TRUE
    NotYet = NotYet
PROPERTIES
    NoSilentLoss
    RevealFollowsLink
