------------------------------ MODULE Guardrails ------------------------------
(***************************************************************************)
(* The deterministic gates of agent/guardrails.py, as operators.           *)
(*                                                                         *)
(* A retrieved clause is a record [clause, rerank, superseded]; rerank is  *)
(* None when the clause was never scored.  Chunk ids are unique in the     *)
(* list the pipeline passes, and no gate reads its order, so it is a set.  *)
(*                                                                         *)
(* A draft is NoDraft or a record [finding, confidence, citations,         *)
(* concerns]; a citation is [chunk, quote].  A quote is represented by     *)
(* what the checks can tell about it against the clause it names:          *)
(*   "empty"     no quote was given                                        *)
(*   "blank"     given, but nothing but white space and ellipses           *)
(*   "foreign"   under QUOTE_SIMILARITY_FLOOR recoverable from the clause  *)
(*   "flipped"   recoverable, but a word of legal force differs            *)
(*   "fragment"  faithful, but shorter than MIN_QUOTE_WORDS                *)
(*   "verbatim"  faithful and long enough                                  *)
(*                                                                         *)
(* An escalation is represented by its code; the code's detail text and    *)
(* _dedupe are abstracted by collecting codes in a set.                    *)
(***************************************************************************)
EXTENDS Integers, Sequences

CONSTANTS
    None,               \* Python's None
    MinRerankScore,     \* Settings.min_rerank_score, in percent
    MinModelConfidence, \* Settings.min_model_confidence, in percent
    MinCitations        \* Settings.min_citations

ASSUME SettingsAssumption ==
    /\ MinRerankScore \in Int
    /\ MinModelConfidence \in Int
    /\ MinCitations \in Int
    /\ None \notin Int

Findings == {"SUPPORTED_COMPLIANT", "SUPPORTED_NON_COMPLIANT",
             "INSUFFICIENT_BASIS", "CONFLICTING_SOURCES"}

Verdicts == {"COMPLIANT", "NON_COMPLIANT", "NEEDS_REVIEW"}

EscalationCodes == {"weak_retrieval", "no_citations", "unresolved_citation",
    "low_confidence", "insufficient_basis", "conflicting_sources",
    "superseded_standard", "always_review_category",
    "schema_validation_failed", "upstream_error"}

QuoteKinds == {"empty", "blank", "foreign", "flipped", "fragment", "verbatim"}

NoDraft == None

\* What DraftAssessment's validation leaves of a draft for the gates to read.
IsDraft(d) ==
    /\ d.finding \in Findings
    /\ d.confidence \in Int
    /\ Len(d.citations) \in Nat
    /\ \A i \in DOMAIN d.citations : d.citations[i].quote \in QuoteKinds

\* What one check contributes to the escalations.
CodeIf(condition, code) == IF condition THEN {code} ELSE {}

-----------------------------------------------------------------------------

\* The quote checks of verify_citations, in the order the code runs them.
\* An empty quote is let through before any of them.
QuoteProblems(quote) ==
    CodeIf(quote \in {"blank", "foreign", "flipped"}, "unresolved_citation")
        \cup CodeIf(quote = "fragment", "no_citations")

CitationProblems(citation, retrieved) ==
    IF \E r \in retrieved : r.clause = citation.chunk
    THEN QuoteProblems(citation.quote)
    ELSE {"unresolved_citation"}

\* Mutant of VerifyCitations: returns inside the loop, after the first.
VerifyFirstCitation(draft, retrieved) ==
    UNION {CitationProblems(draft.citations[i], retrieved) :
              i \in DOMAIN draft.citations \cap {1}}

VerifyCitations(draft, retrieved) ==
    UNION {CitationProblems(draft.citations[i], retrieved) :
              i \in DOMAIN draft.citations}

\* `reserved` says whether the redacted query matches an ALWAYS_REVIEW pattern.
CheckQueryCategory(reserved, concerns) ==
    CodeIf(reserved \/ "profit_guarantee" \in concerns, "always_review_category")

ScoresOf(retrieved) == {r.rerank : r \in {s \in retrieved : s.rerank # None}}

\* Mutants of CheckRetrieval: the worst score is compared, not the best; an
\* unscored list passes because nothing in it is below the floor.
CheckRetrievalWorst(retrieved) ==
    IF ScoresOf(retrieved) = {}
    THEN {"weak_retrieval"}
    ELSE CodeIf(\E s \in ScoresOf(retrieved) : s < MinRerankScore, "weak_retrieval")
            \cup CodeIf(\E r \in retrieved : r.superseded, "superseded_standard")

CheckRetrievalUnscored(retrieved) ==
    CodeIf(\E s \in ScoresOf(retrieved) : s < MinRerankScore, "weak_retrieval")
        \cup CodeIf(\E r \in retrieved : r.superseded, "superseded_standard")

\* Nothing retrieved and nothing scored are both weak, and return early.
CheckRetrieval(retrieved) ==
    IF ScoresOf(retrieved) = {}
    THEN {"weak_retrieval"}
    ELSE CodeIf(\A s \in ScoresOf(retrieved) : s < MinRerankScore, "weak_retrieval")
            \cup CodeIf(\E r \in retrieved : r.superseded, "superseded_standard")

\* The checks decide() makes on the draft itself.
CheckDraft(draft) ==
    CodeIf(Len(draft.citations) < MinCitations, "no_citations")
        \cup CodeIf(draft.confidence < MinModelConfidence, "low_confidence")
        \cup CodeIf(draft.finding = "INSUFFICIENT_BASIS", "insufficient_basis")
        \cup CodeIf(draft.finding = "CONFLICTING_SOURCES", "conflicting_sources")

Escalations(reserved, draft, retrieved, prior) ==
    prior
        \cup CheckQueryCategory(reserved, IF draft = NoDraft THEN {} ELSE draft.concerns)
        \cup CheckRetrieval(retrieved)
        \cup IF draft = NoDraft
             THEN {"schema_validation_failed"}
             ELSE VerifyCitations(draft, retrieved) \cup CheckDraft(draft)

VerdictOf(reserved, draft, retrieved, prior) ==
    IF Escalations(reserved, draft, retrieved, prior) # {} THEN "NEEDS_REVIEW"
    ELSE IF draft.finding = "SUPPORTED_COMPLIANT" THEN "COMPLIANT"
    ELSE "NON_COMPLIANT"

\* decide(): the only place a draft is mapped onto a verdict.
Decide(reserved, draft, retrieved, prior) ==
    [verdict     |-> VerdictOf(reserved, draft, retrieved, prior),
     escalations |-> Escalations(reserved, draft, retrieved, prior)]

-----------------------------------------------------------------------------

\* What verify_citations lets pass: the clause was retrieved, and the quote, if
\* one is given, is faithful and long enough.
Passes(citation, retrieved) ==
    /\ \E r \in retrieved : r.clause = citation.chunk
    /\ citation.quote \in {"empty", "verbatim"}

\* What the gates make sure of before a draft becomes a verdict.
Vetted(reserved, draft, retrieved) ==
    /\ ~reserved
    /\ draft # NoDraft
    /\ draft.finding \in {"SUPPORTED_COMPLIANT", "SUPPORTED_NON_COMPLIANT"}
    /\ "profit_guarantee" \notin draft.concerns
    /\ draft.confidence >= MinModelConfidence
    /\ Len(draft.citations) >= MinCitations
    /\ \A i \in DOMAIN draft.citations : Passes(draft.citations[i], retrieved)
    /\ \E r \in retrieved : r.rerank # None /\ r.rerank >= MinRerankScore
    /\ \A r \in retrieved : ~r.superseded

\* Every citation carries a quote, as Citation.quote asks for one.
Quoted(draft) ==
    draft # NoDraft => \A i \in DOMAIN draft.citations : draft.citations[i].quote # "empty"

\* What the documentation asks for besides: every citation is evidence a reviewer
\* can follow, a verbatim quote of a clause that was retrieved.
Answerable(reserved, draft, retrieved) ==
    Vetted(reserved, draft, retrieved) /\ Quoted(draft)

=============================================================================
