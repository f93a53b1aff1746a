\* Three proposals on two workers; runs that die are run again, twice in all.
SPECIFICATION Spec
CONSTANTS
    Traces = {t1, t2, t3}
    Values = {u, v}
    Workers = {w1, w2}
    MaxFacts = 1
    MaxCrashes = 2
    Redelivered = TRUE
    None = None
SYMMETRY GovernanceSymmetry
CHECK_DEADLOCK FALSE
INVARIANTS
    RowsOnRecord
    SupersessionIsWhole
    RetirementsOnRecord
PROPERTIES
    RowsAreFinal
