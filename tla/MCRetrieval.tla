---- MODULE MCRetrieval ----
\* A small instance of Retrieval for TLC.
EXTENDS Retrieval, TLC

CONSTANTS k1, k2, k3

ThreeClauses == {k1, k2, k3}
SomeScores == {20, 90}
TwoFused == {40, 50}
EveryBackend == {"llm", "local", "none"}

\* The clauses are interchangeable.
ClauseSymmetry == Permutations(ThreeClauses)
====
