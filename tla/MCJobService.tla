---- MODULE MCJobService ----
\* Small instances of JobService for TLC.
EXTENDS JobService, TLC

CONSTANTS s1, s2, j1, j2, p1, p2

OneCaller == {s1}
TwoCallers == {s1, s2}
TwoJobs == {j1, j2}
TwoPrincipals == {p1, p2}

SomeOwner == [j \in Jobs |-> IF j = j1 THEN p1 ELSE p2]
====
