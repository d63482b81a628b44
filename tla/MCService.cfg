\* Two faults open the breaker the requests share.
SPECIFICATION FairServiceSpec
CONSTANTS
    r1 = r1
    r2 = r2
    Requests <- TwoRequests
    Calls <- ThreeCallsEach
    MaxTurns = 3
    FailureThreshold = 2
    Attempts = 2
    RateLimitAttempts = 1
PROPERTIES
    RequestsEnd
\* Every request ends.
CHECK_DEADLOCK FALSE
