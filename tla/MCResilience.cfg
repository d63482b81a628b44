\* Three concurrent calls of a service whose breaker trips on the third fault;
\* two calls of two attempts are enough to trip it, the third sees it open.
SPECIFICATION FairSpec
CONSTANTS
    c1 = c1
    c2 = c2
    c3 = c3
    Calls <- ThreeCalls
    FailureThreshold = 3
    Attempts = 2
    RateLimitAttempts = 1
INVARIANTS
    BreakerAgreement
    TrafficBudget
    NoPhantomFailures
PROPERTIES
    EveryCallEnds
\* Every call ends, and no new ones are made.
CHECK_DEADLOCK FALSE
