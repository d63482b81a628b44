SPECIFICATION FairSpec
CONSTANTS
    None = None
    k1 = k1
    k2 = k2
    k3 = k3
    q0 = q0
    q1 = q1
    Clauses <- ThreeClauses
    SupersededClauses <- OneClause
    Searches <- TwoSearches
    SeedSearch = q0
    Scores <- SomeScores
    FusedScores <- SomeFused
    TopK = 2
    MaxRounds = 3
    MaxToModel = 2
    MaxToolCalls = 2
    Drafts <- SomeDrafts
    MinRerankScore = 35
    MinModelConfidence = 70
    MinCitations = 1
INVARIANTS
    DecidedOnShownEvidence
    WeakNeverReasoned
    RefinementBudget
    NoRepeatedSearch
    BestClauseConsidered
PROPERTIES
    KeepsContract
    Ends
CHECK_DEADLOCK FALSE
