---- MODULE MCPipeline ----
\* Small instances of Pipeline for TLC.
EXTENDS Pipeline, TLC

CONSTANTS k1, k2, k3, q0, q1

\* Drafts that tell the gates apart: a clean one of each finding that may
\* decide, one citing k2, one misquoting, one unsure.
Draft(finding, confidence, chunk, quote) ==
    [finding |-> finding, confidence |-> confidence,
     citations |-> <<[chunk |-> chunk, quote |-> quote]>>, concerns |-> {}]

SomeDrafts == {
    Draft("SUPPORTED_COMPLIANT", 90, k1, "verbatim"),
    Draft("SUPPORTED_NON_COMPLIANT", 90, k2, "verbatim"),
    Draft("SUPPORTED_COMPLIANT", 90, k1, "flipped"),
    Draft("INSUFFICIENT_BASIS", 60, k1, "verbatim")}

ThreeClauses == {k1, k2, k3}
TwoSearches == {q0, q1}
OneClause == {k2}

\* 0 is falsy, 20 is below the floor of 35, 90 is above it.
SomeScores == {0, 20, 90}
SomeFused == {50}
====
