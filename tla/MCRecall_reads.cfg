\* Two proposals under way while the server answers one call after another.
SPECIFICATION Spec
CONSTANTS
    Rows = {1, 2, 3}
    Predicate <- TwoPredicates
    Scopes <- BothScopes
    Dates = {None, 1}
    Faint = {3}
    Workers = {w1, w2}
    Limits = {2}
    Rooms = {1, 3}
    ExcludedLimit = 2
    MaxTime = 2
    None = None
INVARIANTS
    NothingFallsBetween
    NeighboursCoverHits
PROPERTIES
    PastStands
    KeepsThePromise
