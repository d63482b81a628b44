---- MODULE MCGuardrails ----
\* A small instance of GuardrailsDegrade for TLC.
EXTENDS GuardrailsDegrade, TLC

CONSTANTS k1, k2

TwoChunks == {k1, k2}

\* One score below the floor of 35 and one exactly on it.
SomeScores == {20, 35}

\* One confidence on each side of the threshold of 70.
SomeConfidences == {60, 70}

ChunkSymmetry == Permutations(TwoChunks)
====
