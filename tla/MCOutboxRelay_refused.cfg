\* No faults; an event the graph refuses and a healthy one in batches of two.
SPECIFICATION FairSpec
CONSTANTS
    Assertions = {a1, a2}
    Relays = {r1, r2}
    Stamps = {1, 2}
    Poison = {}
    Rejected = {a1}
    BatchSize = 2
    MaxAttempts = 2
    MaxRestarts = 0
    Faults = FALSE
    NotYet = NotYet
PROPERTIES
    HealthyIsRevealed
