--------------------------- MODULE GuardrailsDegrade ---------------------------
(***************************************************************************)
(* The module docstring of guardrails.py: "Guardrails can only move a      *)
(* result toward NEEDS_REVIEW ... nothing here can make a result less      *)
(* cautious."  The state is the input of decide(); each step makes one     *)
(* thing about it worse, in a way a provider or the model can, and the     *)
(* verdict may then only stay or move to NEEDS_REVIEW.                     *)
(***************************************************************************)
EXTENDS DecisionBasis, FiniteSets

CONSTANTS
    Chunks,       \* chunk ids
    RerankScores, \* rerank scores, in percent
    Confidences,  \* model confidences, in percent
    MaxCited      \* bound on the citations of one draft

ASSUME InputAssumption ==
    /\ RerankScores \subseteq Int
    /\ Confidences \subseteq Int
    /\ MaxCited \in Nat

verdict == VerdictOf(reserved, draft, retrieved, prior)

Citations == [chunk : Chunks, quote : QuoteKinds]

DraftInputs == [finding    : Findings,
           confidence : Confidences,
           citations  : UNION {[1..n -> Citations] : n \in 0..MaxCited},
           concerns   : SUBSET {"profit_guarantee"}]

Evidence == [clause : Chunks, rerank : RerankScores \cup {None}, superseded : BOOLEAN]

\* A request starts with well-quoted citations and scored evidence; every
\* worse input is reached from there by the steps below.
DegradeInit ==
    /\ reserved \in BOOLEAN
    /\ draft \in {d \in DraftInputs : \A i \in DOMAIN d.citations :
                     d.citations[i].quote \in {"verbatim", "empty"}}
    /\ retrieved \in {{[clause |-> c, rerank |-> score[c], superseded |-> FALSE] :
                         c \in DOMAIN score} :
                      score \in UNION {[S -> RerankScores] : S \in SUBSET Chunks}}
    /\ prior = {}

Replace(r, s) == retrieved' = (retrieved \ {r}) \cup {s}

Doubt ==
    /\ draft # NoDraft
    /\ \E p \in Confidences :
         p < draft.confidence /\ draft' = [draft EXCEPT !.confidence = p]
    /\ UNCHANGED <<reserved, retrieved, prior>>

NameConcern ==
    /\ draft # NoDraft
    /\ draft' = [draft EXCEPT !.concerns = {"profit_guarantee"}]
    /\ UNCHANGED <<reserved, retrieved, prior>>

Misquote ==
    /\ draft # NoDraft
    /\ \E i \in DOMAIN draft.citations, q \in QuoteKinds \ {"verbatim", "empty"} :
         /\ draft.citations[i].quote = "verbatim"
         /\ draft' = [draft EXCEPT !.citations[i].quote = q]
    /\ UNCHANGED <<reserved, retrieved, prior>>

LoseDraft ==
    /\ draft' = NoDraft
    /\ UNCHANGED <<reserved, retrieved, prior>>

LowerScore ==
    /\ \E r \in retrieved, s \in RerankScores :
         /\ r.rerank # None /\ s < r.rerank
         /\ Replace(r, [r EXCEPT !.rerank = s])
    /\ UNCHANGED <<reserved, draft, prior>>

LoseScore ==
    /\ \E r \in retrieved : Replace(r, [r EXCEPT !.rerank = None])
    /\ UNCHANGED <<reserved, draft, prior>>

Supersede ==
    /\ \E r \in retrieved : Replace(r, [r EXCEPT !.superseded = TRUE])
    /\ UNCHANGED <<reserved, draft, prior>>

UpstreamFails ==
    /\ prior' = prior \cup {"upstream_error"}
    /\ UNCHANGED <<reserved, draft, retrieved>>

DegradeNext == \/ Doubt \/ NameConcern \/ Misquote \/ LoseDraft
        \/ LowerScore \/ LoseScore \/ Supersede \/ UpstreamFails

DegradeSpec == DegradeInit /\ [][DegradeNext]_basis

-----------------------------------------------------------------------------

\* The input of decide() is one the pipeline can pass.
InputOK ==
    /\ reserved \in BOOLEAN
    /\ draft \in DraftInputs \cup {NoDraft}
    /\ retrieved \subseteq Evidence
    /\ prior \subseteq {"upstream_error"}

\* The invariant of guardrails.py, for the losses of this machine: when a score
\* falls or goes missing, a true quote turns bad, confidence drops, a clause is
\* superseded, the draft or a provider is lost, the verdict stays or becomes
\* NEEDS_REVIEW; it is never un-escalated nor turned into the other finding.  A
\* bad quote that becomes an empty one, and a superseded clause that is no longer
\* found, are no losses here: the code answers more readily after either.
OnlyTowardReview == [][verdict' \in {verdict, "NEEDS_REVIEW"}]_basis

\* Where every citation carries a quote, a verdict other than NEEDS_REVIEW is
\* given exactly to answerable requests with nothing escalated before; and it is
\* the one the draft's finding names.
DecidedIffAnswerable ==
    /\ Quoted(draft) =>
         (verdict # "NEEDS_REVIEW" <=> prior = {} /\ Answerable(reserved, draft, retrieved))
    /\ verdict = "COMPLIANT" => draft.finding = "SUPPORTED_COMPLIANT"
    /\ verdict = "NON_COMPLIANT" => draft.finding = "SUPPORTED_NON_COMPLIANT"

=============================================================================
