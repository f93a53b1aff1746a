\* A proposal whose run dies after its write is run again.
SPECIFICATION Spec
CONSTANTS
    Traces = {t1, t2}
    Values = {u, v}
    Workers = {w1, w2}
    MaxFacts = 1
    MaxCrashes = 1
    Redelivered = TRUE
    None = None
SYMMETRY GovernanceSymmetry
CHECK_DEADLOCK FALSE
INVARIANTS
    SupersessionAcyclic
