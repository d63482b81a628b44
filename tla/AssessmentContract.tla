--------------------------- MODULE AssessmentContract ---------------------------
(***************************************************************************)
(* What an assessment promises its reader, whatever the pipeline does to   *)
(* produce it: it is answered once or fails without an answer; an answer   *)
(* that is not NEEDS_REVIEW is the finding of a draft the gates let pass;  *)
(* and a NEEDS_REVIEW always says why, every failure on the way included.  *)
(***************************************************************************)
EXTENDS DecisionBasis

VARIABLES
    status,     \* "pending", "answered" or "failed"
    answer      \* None, or the verdict and the escalation codes

vars == <<status, answer, reserved, draft, retrieved, prior>>

\* The answers the basis permits.
Permitted(a) ==
    /\ a.verdict \in Verdicts
    /\ a.escalations \subseteq EscalationCodes
    /\ a.verdict = "NEEDS_REVIEW" <=> a.escalations # {}
    /\ prior \subseteq a.escalations
    /\ a.verdict # "NEEDS_REVIEW" => Vetted(reserved, draft, retrieved)
    /\ a.verdict = "COMPLIANT" => draft.finding = "SUPPORTED_COMPLIANT"
    /\ a.verdict = "NON_COMPLIANT" => draft.finding = "SUPPORTED_NON_COMPLIANT"

Init == status = "pending" /\ answer = None /\ prior = {} /\ draft = NoDraft

\* The basis is being gathered; what failed stays on record.
Work ==
    /\ status = "pending"
    /\ prior \subseteq prior'
    /\ UNCHANGED <<status, answer>>

\* The basis is final and the answer is given.
Respond ==
    /\ status = "pending"
    /\ status' = "answered"
    /\ Permitted(answer')
    /\ UNCHANGED basis

Fail ==
    /\ status = "pending"
    /\ status' = "failed"
    /\ UNCHANGED <<answer, basis>>

Next == Work \/ Respond \/ Fail

Spec == Init /\ [][Next]_vars

=============================================================================
