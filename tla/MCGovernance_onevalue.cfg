\* Two proposals side by side.
SPECIFICATION Spec
CONSTANTS
    Traces = {t1, t2}
    Values = {u, v}
    Workers = {w1, w2}
    MaxFacts = 1
    MaxCrashes = 0
    Redelivered = FALSE
    None = None
SYMMETRY GovernanceSymmetry
CHECK_DEADLOCK FALSE
INVARIANTS
    OneLiveValue
