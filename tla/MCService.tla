------------------------------ MODULE MCService ------------------------------
\* A small instance of Service for TLC.
EXTENDS Service

CONSTANTS r1, r2

TwoRequests == {r1, r2}
ThreeCallsEach == TwoRequests \X {1, 2, 3}
===============================================================================
