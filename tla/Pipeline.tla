------------------------------- MODULE Pipeline -------------------------------
(***************************************************************************)
(* One assessment: CompliancePipeline.assess() of agent/pipeline.py, from  *)
(* the seed search to the returned result.  Its providers - the retriever, *)
(* the model - are nondeterministic: they return anything their client     *)
(* code lets through, raise UpstreamUnavailable, or answer with something  *)
(* no handler expects.  The request shares no state with other requests,   *)
(* so it is modelled alone; PII redaction, timings and prompt texts are    *)
(* abstracted.                                                             *)
(***************************************************************************)
EXTENDS DecisionBasis, FiniteSets, FiniteSetsExt

CONSTANTS
    Clauses,           \* chunk ids of the collection
    SupersededClauses, \* those whose superseded_by is set
    Searches,          \* normalised (query, standard_no) pairs of a tool call
    SeedSearch,        \* the pair of the request's own query, unfiltered
    Scores,            \* rerank scores the reranker gives
    FusedScores,       \* fused scores the store gives
    TopK,              \* Settings.rerank_top_k
    MaxRounds,         \* Settings.max_retrieval_rounds
    MaxToModel,        \* MAX_CLAUSES_TO_MODEL
    MaxToolCalls,      \* bound: tool calls the model puts in one turn
    Drafts             \* drafts the reasoning call can return

ASSUME PipelineAssumption ==
    /\ IsFiniteSet(Clauses)
    /\ SupersededClauses \subseteq Clauses
    /\ SeedSearch \in Searches
    /\ Scores \subseteq Int
    /\ FusedScores \subseteq Int
    /\ TopK \in Nat \ {0}
    /\ MaxRounds \in Int
    /\ MaxToModel \in Nat \ {0}
    /\ MaxToolCalls \in Nat
    /\ None \notin Searches
    /\ \A d \in Drafts : IsDraft(d)

VARIABLES
    pc,          \* the stage assess() is at
    round,       \* round_no of the refinement loop
    calls,       \* tool calls of the current turn still to be handled
    seen,        \* seen_queries
    collected,   \* collected: chunk id -> scores
    result,      \* verdict and escalations, once decided
    searched,    \* history: searches performed, in order
    turns,       \* history: refinement turns answered (saturating, see Count)
    shown,       \* history: clauses rendered into a prompt sent to the model
    peak         \* history: the highest positive rerank score any round gave, or 0

vars == <<pc, round, calls, seen, collected, retrieved, draft, prior, reserved,
          result, searched, turns, shown, peak>>

Item == [rerank : Scores \cup {None}, fused : FusedScores]

\* Hits: what Retriever.search returns.
INSTANCE SearchHits

\* Python truth: 0 and None are both false in `x or y`.
OrElse(x, y) == IF x = None \/ x = 0 THEN y ELSE x

\* A hit replaces what an earlier round collected only if it scored higher.
Better(new, old) == OrElse(new.rerank, 0) > OrElse(old.rerank, 0)

\* Mutant of Merge: the latest round's hit is kept, whatever it scored.
MergeLatest(old, new) ==
    [k \in DOMAIN old \cup DOMAIN new |-> IF k \in DOMAIN new THEN new[k] ELSE old[k]]

Merge(old, new) ==
    [k \in DOMAIN old \cup DOMAIN new |->
        IF k \notin DOMAIN old THEN new[k]
        ELSE IF k \in DOMAIN new /\ Better(new[k], old[k]) THEN new[k]
        ELSE old[k]]

\* The highest positive score in the hits of one search, or 0.
PeakOf(hits) == Max({0} \cup {OrElse(hits[k].rerank, 0) : k \in DOMAIN hits})

SortKey(item) == OrElse(item.rerank, item.fused)

\* _top_clauses: the best MAX_CLAUSES_TO_MODEL, any choice among equal keys
\* (the order of insertion, which decides between them, is abstracted).
TopSets(items) ==
    {S \in SUBSET DOMAIN items :
        /\ Cardinality(S) = IF Cardinality(DOMAIN items) < MaxToModel
                            THEN Cardinality(DOMAIN items) ELSE MaxToModel
        /\ \A k \in S, j \in DOMAIN items \ S : SortKey(items[k]) >= SortKey(items[j])}

RetrievedClauses(items, S) ==
    {[clause |-> k, rerank |-> items[k].rerank, superseded |-> k \in SupersededClauses] :
        k \in S}

Considered == {r.clause : r \in retrieved}

Init ==
    /\ pc = "seed"
    /\ round = 1
    /\ calls = <<>>
    /\ seen = {}
    /\ collected = <<>>
    /\ retrieved = {}
    /\ draft = NoDraft
    /\ prior = {}
    /\ reserved \in BOOLEAN
    /\ result = None
    /\ searched = <<>>
    /\ turns = 0
    /\ shown = {}
    /\ peak = 0

-----------------------------------------------------------------------------
(* Stages 2 and 3: _gather_evidence *)

\* The loop `for round_no in range(2, max_rounds + 1)`: one more turn, or out.
\* Mutant of EnterRound: range(2, max_rounds + 2).
EnterRoundOnceMore(r) ==
    /\ round' = r
    /\ pc' = IF r <= MaxRounds + 1 THEN "refine" ELSE "gate"

EnterRound(r) ==
    /\ round' = r
    /\ pc' = IF r <= MaxRounds THEN "refine" ELSE "gate"

\* The unconditional first search.  The key put into seen_queries has no
\* "|standard" suffix, so it is the key of no tool call (no "|" in the query): seen stays empty.
Seed ==
    /\ pc = "seed"
    /\ \E hits \in Hits : collected' = hits /\ peak' = PeakOf(hits)
    /\ searched' = <<SeedSearch>>
    /\ EnterRound(2)
    /\ UNCHANGED <<calls, seen, retrieved, draft, prior, reserved, result, turns, shown>>

\* One more turn; the count stops one above the largest legal value.
Count == turns' = IF turns < MaxRounds THEN turns + 1 ELSE turns

\* The model answers with no tool call: it has enough.
Done ==
    /\ pc = "refine"
    /\ Count
    /\ shown' = shown \cup DOMAIN collected
    /\ pc' = "gate"
    /\ UNCHANGED <<round, calls, seen, collected, retrieved, draft, prior, reserved,
                   result, searched, peak>>

\* The model answers with tool calls; None is a call without a query.  The
\* prompt carries every clause found so far, in this turn or an earlier one.
Turn ==
    /\ pc = "refine"
    /\ Count
    /\ shown' = shown \cup DOMAIN collected
    /\ \E n \in 1..MaxToolCalls : calls' \in [1..n -> Searches \cup {None}]
    /\ pc' = "tools"
    /\ UNCHANGED <<round, seen, collected, retrieved, draft, prior, reserved, result,
                   searched, peak>>

\* A repeated or empty search is answered without searching.
Suppress ==
    /\ pc = "tools"
    /\ calls # <<>>
    /\ Head(calls) \in seen \cup {None}
    /\ calls' = Tail(calls)
    /\ UNCHANGED <<pc, round, seen, collected, retrieved, draft, prior, reserved,
                   result, searched, turns, shown, peak>>

\* Mutant of Search: the key is not remembered.
SearchForgets ==
    /\ pc = "tools"
    /\ calls # <<>>
    /\ Head(calls) \notin seen \cup {None}
    /\ \E hits \in Hits : collected' = Merge(collected, hits) /\ peak' = Max({peak, PeakOf(hits)})
    /\ searched' = Append(searched, Head(calls))
    /\ calls' = Tail(calls)
    /\ UNCHANGED <<pc, round, seen, retrieved, draft, prior, reserved, result, turns, shown>>

Search ==
    /\ pc = "tools"
    /\ calls # <<>>
    /\ Head(calls) \notin seen \cup {None}
    /\ seen' = seen \cup {Head(calls)}
    /\ \E hits \in Hits : collected' = Merge(collected, hits) /\ peak' = Max({peak, PeakOf(hits)})
    /\ searched' = Append(searched, Head(calls))
    /\ calls' = Tail(calls)
    /\ UNCHANGED <<pc, round, retrieved, draft, prior, reserved, result, turns, shown>>

\* Mutant of EndTurn: the round is not advanced.
EndTurnSameRound ==
    /\ pc = "tools"
    /\ calls = <<>>
    /\ EnterRound(round)
    /\ UNCHANGED <<calls, seen, collected, retrieved, draft, prior, reserved, result,
                   searched, turns, shown, peak>>

EndTurn ==
    /\ pc = "tools"
    /\ calls = <<>>
    /\ EnterRound(round + 1)
    /\ UNCHANGED <<calls, seen, collected, retrieved, draft, prior, reserved, result,
                   searched, turns, shown, peak>>

-----------------------------------------------------------------------------
(* Stages 4 to 8 *)

\* Mutant of GateA: blocks on nothing retrieved only.
GateAOnlyEmpty ==
    /\ pc = "gate"
    /\ \E S \in TopSets(collected) : retrieved' = RetrievedClauses(collected, S)
    /\ pc' = IF retrieved' = {} THEN "decide" ELSE "reason"
    /\ UNCHANGED <<round, calls, seen, collected, draft, prior, reserved, result,
                   searched, turns, shown, peak>>

\* Gate A skips the reasoning call when retrieval is weak.
GateA ==
    /\ pc = "gate"
    /\ \E S \in TopSets(collected) : retrieved' = RetrievedClauses(collected, S)
    /\ pc' = IF "weak_retrieval" \in CheckRetrieval(retrieved') THEN "decide" ELSE "reason"
    /\ UNCHANGED <<round, calls, seen, collected, draft, prior, reserved, result,
                   searched, turns, shown, peak>>

\* The reasoning call; NoDraft is an empty answer or one that fails validation.
Reason ==
    /\ pc = "reason"
    /\ draft' \in Drafts \cup {NoDraft}
    /\ shown' = shown \cup Considered
    /\ pc' = "decide"
    /\ UNCHANGED <<round, calls, seen, collected, retrieved, prior, reserved, result,
                   searched, turns, peak>>

\* Where assess() is waiting for a provider.
Waiting ==
    \/ pc \in {"seed", "refine", "reason"}
    \/ pc = "tools" /\ calls # <<>> /\ Head(calls) \notin seen \cup {None}

\* UpstreamUnavailable: what was gathered so far is dropped with the frame of
\* _gather_evidence, the failure is escalated, and decide() still runs.  A
\* reasoning call that failed may have put its prompt on the wire.
Upstream ==
    /\ Waiting
    /\ prior' = prior \cup {"upstream_error"}
    /\ shown' = IF pc = "reason" THEN shown \cup Considered ELSE shown
    /\ pc' = "decide"
    /\ UNCHANGED <<round, calls, seen, collected, retrieved, draft, reserved, result,
                   searched, turns, peak>>

\* An answer no handler expects (a response without choices, a ranking that is
\* not an object, tool arguments that are a list): assess() is left by any
\* other exception.
Malformed ==
    /\ Waiting \/ (pc = "tools" /\ calls # <<>>)
    /\ pc' = "failed"
    /\ UNCHANGED <<round, calls, seen, collected, retrieved, draft, prior, reserved,
                   result, searched, turns, shown, peak>>

\* Mutant of Emit: decide() is called without `prior`.
EmitDropsPrior ==
    /\ pc = "decide"
    /\ result' = Decide(reserved, draft, retrieved, {})
    /\ pc' = "done"
    /\ UNCHANGED <<round, calls, seen, collected, retrieved, draft, prior, reserved,
                   searched, turns, shown, peak>>

\* Stages 6 to 8: the verdict, the audit record and the response.
Emit ==
    /\ pc = "decide"
    /\ result' = Decide(reserved, draft, retrieved, prior)
    /\ pc' = "done"
    /\ UNCHANGED <<round, calls, seen, collected, retrieved, draft, prior, reserved,
                   searched, turns, shown, peak>>

Next == \/ Seed \/ Done \/ Turn \/ Suppress \/ Search \/ EndTurn
        \/ GateA \/ Reason \/ Upstream \/ Malformed \/ Emit

Spec == Init /\ [][Next]_vars

\* Every wait is bounded by call_with_resilience; the rest is straight code.
FairSpec == Spec /\ WF_vars(Next)

-----------------------------------------------------------------------------
(* Refinement *)

status == CASE pc = "done" -> "answered"
            [] pc = "failed" -> "failed"
            [] OTHER -> "pending"

Contract == INSTANCE AssessmentContract WITH answer <- result

\* The pipeline keeps the promise of AssessmentContract: one answer, permitted
\* by the basis it was given on, with every failure on the way reported.
KeepsContract == Contract!Spec

-----------------------------------------------------------------------------
(* Properties *)

Stages == {"seed", "refine", "tools", "gate", "reason", "decide", "done", "failed"}

\* Every variable holds a value the code can give it.
TypeOK ==
    /\ pc \in Stages
    /\ round \in Nat
    /\ calls \in Seq(Searches \cup {None})
    /\ seen \subseteq Searches
    /\ DOMAIN collected \subseteq Clauses
    /\ \A k \in DOMAIN collected : collected[k] \in Item
    /\ retrieved \subseteq [clause : Clauses, rerank : Scores \cup {None}, superseded : BOOLEAN]
    /\ draft \in Drafts \cup {NoDraft}
    /\ prior \subseteq {"upstream_error"}
    /\ reserved \in BOOLEAN
    /\ searched \in Seq(Searches)
    /\ turns \in Nat
    /\ shown \subseteq Clauses
    /\ peak \in Nat

\* README: NEEDS_REVIEW is decided in code.  A result other than NEEDS_REVIEW
\* rests on a request the gates let pass when it was decided, with every provider
\* call having succeeded, and the clauses its citations resolve to were all in
\* the prompt of the model that cited them.
DecidedOnShownEvidence ==
    (pc = "done" /\ result.verdict # "NEEDS_REVIEW") =>
        /\ Vetted(reserved, draft, retrieved)
        /\ prior = {}
        /\ \A i \in DOMAIN draft.citations : draft.citations[i].chunk \in shown

\* Gate A and the decision read the same evidence: a request whose retrieval
\* is escalated as weak never reached the reasoning model ("skip the model call
\* entirely"), and no draft is made on evidence the decision will call weak.
WeakNeverReasoned ==
    (pc = "done" /\ "weak_retrieval" \in result.escalations) => draft = NoDraft

\* test_retrieval_loop_is_bounded, llm.complete_calls: the model is asked at most
\* max_rounds - 1 times what to search for, however it answers.
RefinementBudget == turns <= (IF MaxRounds > 1 THEN MaxRounds - 1 ELSE 0)

\* Loop detection: no two searches the model asked for are the same, whatever
\* the turns they were asked in.
NoRepeatedSearch ==
    \A i, j \in 2..Len(searched) : searched[i] = searched[j] => i = j

\* Evidence ranking: the model reasons on a clause that scores at least as high
\* as anything any round found, though later rounds, ranked against other
\* queries, find the same clauses with lower scores or with none.  Excepted is
\* what the sort key makes of a score that is absent or 0: it puts the fused score
\* in its place, and one as high as the best rerank score may displace its clause.
BestClauseConsidered ==
    LET unscored == {k \in DOMAIN collected : OrElse(collected[k].rerank, 0) = 0}
    IN  (retrieved # {} /\ peak > 0 /\ \A k \in unscored : collected[k].fused < peak) =>
            \E r \in retrieved : r.rerank # None /\ r.rerank >= peak

\* Every assessment ends: with a result, or with an exception.
Ends == <>(pc \in {"done", "failed"})

=============================================================================
