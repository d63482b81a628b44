\* A run of the test set and two re-runs, two cases at a time.
SPECIFICATION Spec
CONSTANTS
    None = None
    Failed = Failed
    a = a
    b = b
    c1 = c1
    c2 = c2
    TestSet <- TwoCases
    GoldVerdict <- GoldVerdicts
    GoldClauses <- Gold
    Answers <- ThreeAnswers
    Concurrency = 2
    OnlySets <- SomeOnly
    Limits = {0, 1}
    MaxRuns = 3
INVARIANTS
    CountedOnce
    GoldlessLeftOut
    NothingForgotten
\* The commands run out.
CHECK_DEADLOCK FALSE
