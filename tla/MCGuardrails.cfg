SPECIFICATION DegradeSpec
CONSTANTS
    None = None
    k1 = k1
    k2 = k2
    Chunks <- TwoChunks
    RerankScores <- SomeScores
    Confidences <- SomeConfidences
    MaxCited = 2
    MinRerankScore = 35
    MinModelConfidence = 70
    MinCitations = 1
SYMMETRY ChunkSymmetry
INVARIANTS
    DecidedIffAnswerable
PROPERTIES
    OnlyTowardReview
