\* One proposal of up to three turns, up to three candidates, one scored at a time.
SPECIFICATION FairSpec
CONSTANTS
    Texts <- MCTexts
    NearPairs <- MCNear
    Overlong <- MCOverlong
    TurnIds = {"t1", "t2", "t3"}
    NoReason = "none"
    Predicates <- MCPredicates
    Thresholds <- MCThresholds
    TurnLists <- MCTurns
    SourceTiers = {"trusted_system", "retrieved_web"}
    Namespaces = {"patient"}
    Adapters = {"ollama", "openai"}
    Ks = {1, 3}
    FactLists <- MCFacts
    Hits <- MCHits
    MaxHits = 2
    Judgements <- MCJudgements
    Levels = {0, 80}
    Degrees = {0, 50}
    MaxVerdicts = 2
    MaxConcurrent = 1
CHECK_DEADLOCK FALSE
INVARIANTS
    FunnelAccounts
    OnlyLowImpactWrites
    NoOrphans
PROPERTIES
    QuotesKeptTurns
    DisputedNeverWrites
    RunEnds
