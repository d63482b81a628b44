----------------------------- MODULE MCQuoteCheck -----------------------------
\* Small instances of QuoteCheck for TLC.
EXTENDS QuoteCheck

CONSTANTS not, may, own, sell

FourWords == {not, may, own, sell}
TwoForce == {not, may}

ThreeWords == {not, own, sell}
OneForce == {not}
===============================================================================
