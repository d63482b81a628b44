SPECIFICATION Spec
CONSTANTS
    None = None
    Torn = Torn
    k1 = k1
    k2 = k2
    k3 = k3
    r1 = r1
    r2 = r2
    Chunks <- ThreeChunks
    Releases <- TwoReleases
    Batches <- TwoBatches
    MaxBuilds = 3
INVARIANTS
    HealthyIsWhole
PROPERTIES
    ManifestIsEarned
CHECK_DEADLOCK FALSE
