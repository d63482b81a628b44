SPECIFICATION FairSpec
CONSTANTS
    s1 = s1
    s2 = s2
    j1 = j1
    j2 = j2
    p1 = p1
    p2 = p2
    Absent = Absent
    Callers <- TwoCallers
    Jobs <- TwoJobs
    Principals <- TwoPrincipals
    Owner <- SomeOwner
    Slots = 2
    Ttl = 1
    MaxTime = 2
    MaxRestarts = 1
INVARIANTS
    SlotsConserved
    ToldOwnOutcome
PROPERTIES
    NeverBackwards
    KeepsAdmission
    JobsEnd
CHECK_DEADLOCK FALSE
