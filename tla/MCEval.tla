------------------------------- MODULE MCEval -------------------------------
EXTENDS Eval

CONSTANTS c1, c2, a, b

TwoCases == <<c1, c2>>

\* c2 is out of corpus: it has no gold clauses.
GoldVerdicts == (c1 :> "COMPLIANT") @@ (c2 :> "NEEDS_REVIEW")
Gold == (c1 :> {a, b}) @@ (c2 :> {})

\* The confidences are the ends of bands.
ThreeAnswers ==
    {[verdict |-> "COMPLIANT", confidence |-> 100, retrieved |-> <<a>>],
     [verdict |-> "NON_COMPLIANT", confidence |-> 70, retrieved |-> <<b, a>>],
     [verdict |-> "NEEDS_REVIEW", confidence |-> 0, retrieved |-> <<>>]}

SomeOnly == {{}, {c1}}

=============================================================================
