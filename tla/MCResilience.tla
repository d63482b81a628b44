---- MODULE MCResilience ----
\* Small instances of Resilience for TLC.
EXTENDS Resilience, TLC

CONSTANTS c1, c2, c3

ThreeCalls == {c1, c2, c3}
TwoCalls == {c1, c2}
====
