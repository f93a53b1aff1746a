\* Two passes, three facts (one under a foreign tenant's event, one the graph refuses), every fault.
SPECIFICATION Spec
CONSTANTS
    Assertions = {a1, a2, a3}
    Relays = {r1, r2}
    Stamps = {1, 2}
    Poison = {a3}
    Rejected = {a2}
    BatchSize = 2
    MaxAttempts = 2
    MaxRestarts = 0
    Faults = TRUE
    NotYet = NotYet
SYMMETRY RelaySymmetry
INVARIANTS
    TypeOK
    NoUnlinkedRead
    RevealIsCompletion
    StoredIsOwed
    AttemptsCoverHolders
PROPERTIES
    NoResurrection
    ImplementsDualWrite
