----------------------------- MODULE DecisionBasis -----------------------------
(***************************************************************************)
(* What decide() is given: shared by the pipeline, which gathers it, by    *)
(* the contract of an assessment, which says what it permits, and by the   *)
(* machine that makes it worse step by step.                               *)
(***************************************************************************)
EXTENDS Guardrails

VARIABLES
    reserved,   \* whether the redacted query matches ALWAYS_REVIEW
    draft,      \* the model's draft, or NoDraft
    retrieved,  \* the clauses considered
    prior       \* codes escalated before decide()

basis == <<reserved, draft, retrieved, prior>>

=============================================================================
