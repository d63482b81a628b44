\* Three candidates of which two are returned, so that a ranking of three
\* entries can name one twice, name none, or have one too many.
SPECIFICATION Spec
CONSTANTS
    None = None
    k1 = k1
    k2 = k2
    k3 = k3
    Clauses <- ThreeClauses
    Scores <- SomeScores
    FusedScores <- TwoFused
    Limit = 3
    TopK = 2
    Backends <- EveryBackend
    MaxRankings = 3
SYMMETRY ClauseSymmetry
INVARIANTS
    ScoreIsItsOwn
    BestFirst
    FoundIsReturned
PROPERTIES
    KeepsSearchContract
\* The search ends.
CHECK_DEADLOCK FALSE
