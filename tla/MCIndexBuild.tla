---- MODULE MCIndexBuild ----
\* Small instances of IndexBuild for TLC.
EXTENDS IndexBuild

CONSTANTS k1, k2, k3, r1, r2

ThreeChunks == {k1, k2, k3}
TwoReleases == {r1, r2}

\* The second release drops k1 and adds k3.
TwoBatches == [r \in {r1, r2} |-> IF r = r1 THEN <<{k1}, {k2}>> ELSE <<{k2}, {k3}>>]
====
