\* Two proposals of up to two facts on two workers; a run that dies is not run again.
SPECIFICATION Spec
CONSTANTS
    Traces = {t1, t2}
    Values = {u, v}
    Workers = {w1, w2}
    MaxFacts = 2
    MaxCrashes = 1
    Redelivered = FALSE
    None = None
SYMMETRY GovernanceSymmetry
CHECK_DEADLOCK FALSE
INVARIANTS
    SupersessionAcyclic
    SupersessionIsWhole
    WritesAreMoves
