------------------------------- MODULE Retrieval -------------------------------
(***************************************************************************)
(* One search: Retriever.search() of retrieval/hybrid.py with the three    *)
(* rerankers of retrieval/rerank.py.  The embedding and the hybrid query   *)
(* either answer or make the search raise; whatever the reranker does, its *)
(* outage only costs the order.  A candidate is one object: the list the   *)
(* search returns may name it twice, its score is one field.               *)
(***************************************************************************)
EXTENDS Integers, Sequences, FiniteSets, FiniteSetsExt, Functions

CONSTANTS
    Clauses,     \* chunk ids of the collection
    Scores,      \* rerank scores the reranker gives
    FusedScores, \* fused scores the store gives
    Limit,       \* Settings.retrieve_candidates
    TopK,        \* Settings.rerank_top_k
    Backends,    \* Settings.rerank_backend: "llm", "local" or "none"
    MaxRankings, \* bound: entries in a model's ranking
    None         \* Python's None

ASSUME RetrievalAssumption ==
    /\ IsFiniteSet(Clauses)
    /\ Scores \subseteq Int
    /\ FusedScores \subseteq Int
    /\ None \notin Scores
    /\ Limit \in Nat \ {0}
    /\ TopK \in Nat \ {0}
    /\ Backends \subseteq {"llm", "local", "none"}
    /\ MaxRankings \in Nat

VARIABLES
    pc,         \* where search() is
    backend,    \* the reranker built at startup
    candidates, \* the clauses of the hybrid query, best fused score first
    item,       \* their scores
    out,        \* the clauses returned
    given       \* history: the ranking the reranker answered with

vars == <<pc, backend, candidates, item, out, given>>

Item == [rerank : Scores \cup {None}, fused : FusedScores]

Init ==
    /\ pc = "embed"
    /\ backend \in Backends
    /\ candidates = <<>>
    /\ item = <<>>
    /\ out = <<>>
    /\ given = <<>>

-----------------------------------------------------------------------------
(* Candidates *)

Embed ==
    /\ pc = "embed"
    /\ pc' = "query"
    /\ UNCHANGED <<backend, candidates, item, out, given>>

\* The points of the collection that the fused query returns: distinct ones,
\* at most Limit, in descending order.  None found is an answer.
HybridSearch ==
    /\ pc = "query"
    /\ \E n \in 0..Limit :
        /\ candidates' \in [1..n -> Clauses]
        /\ \A i, j \in 1..n : candidates'[i] = candidates'[j] => i = j
        /\ item' \in [{candidates'[i] : i \in 1..n} -> [rerank : {None}, fused : FusedScores]]
        /\ \A i, j \in 1..n :
            i < j => item'[candidates'[i]].fused >= item'[candidates'[j]].fused
        /\ pc' = IF n = 0 THEN "done" ELSE "rerank"
    /\ UNCHANGED <<backend, out, given>>

\* UpstreamUnavailable of the gateway or of the store leaves search().
Upstream ==
    /\ pc \in {"embed", "query"}
    /\ pc' = "upstream"
    /\ UNCHANGED <<backend, candidates, item, out, given>>

\* An answer that cannot be read: no vector, a point without its payload, a
\* ranking that is not an object or an entry without a score.
Malformed ==
    /\ pc \in {"embed", "query"} \/ (pc = "rerank" /\ backend = "llm")
    /\ pc' = "malformed"
    /\ UNCHANGED <<backend, candidates, item, out, given>>

-----------------------------------------------------------------------------
(* Reranking *)

\* Mutant of Take: the slice is forgotten.
TakeAll(n) == n

\* The length of xs[:top_k], for xs of length n.
Take(n) == IF n < TopK THEN n ELSE TopK

\* The first candidates as the store ordered them, without scores.
FusionOrder ==
    /\ out' = SubSeq(candidates, 1, Take(Len(candidates)))
    /\ UNCHANGED item

\* The reranker is none, is down, timed out, or its answer does not parse.
Degrade ==
    /\ pc = "rerank"
    /\ FusionOrder
    /\ pc' = "done"
    /\ UNCHANGED <<backend, candidates, given>>

\* candidates[index], as Python counts.
Candidate(index) ==
    candidates[IF index >= 0 THEN index + 1 ELSE Len(candidates) + 1 + index]

\* Mutant of Valid: `0 <= index` is left out.
ValidFromEnd(ranking) == {i \in DOMAIN ranking : ranking[i].index < Len(candidates)}

\* The entries of a ranking that name a passage.
Valid(ranking) == {i \in DOMAIN ranking : ranking[i].index \in 0..Len(candidates) - 1}

\* Mutant of Orders: not sorted.
OrdersAsGiven(ranking) ==
    {f \in [1..Cardinality(Valid(ranking)) -> Valid(ranking)] :
        \A p, q \in DOMAIN f : p < q => f[p] < f[q]}

\* The valid entries by descending score; entries of one score in any order.
Orders(ranking) ==
    {f \in [1..Cardinality(Valid(ranking)) -> Valid(ranking)] :
        /\ \A p, q \in DOMAIN f : f[p] = f[q] => p = q
        /\ \A p, q \in DOMAIN f : p < q => ranking[f[p]].score >= ranking[f[q]].score}

\* The loop over the ranking: an object named twice keeps the last score.
Assign(ranking, order) ==
    LET m == Take(Cardinality(Valid(ranking)))
        Named(c) == {p \in 1..m : Candidate(ranking[order[p]].index) = c}
    IN  /\ out' = [p \in 1..m |-> Candidate(ranking[order[p]].index)]
        /\ item' = [c \in DOMAIN item |->
                IF Named(c) = {} THEN item[c]
                ELSE [item[c] EXCEPT !.rerank = ranking[order[Max(Named(c))]].score]]

\* What a reranker answers: the model anything of the schema, the local
\* encoder a score for each passage.
Rankings ==
    IF backend = "llm"
    THEN UNION {[1..n -> [index : (-1)..Limit, score : Scores]] : n \in 0..MaxRankings}
    ELSE {r \in [1..Len(candidates) -> [index : 0..Len(candidates) - 1, score : Scores]] :
            \A i \in DOMAIN r : r[i].index = i - 1}

\* Mutant of Rerank: a ranking that names no passage is an empty result.
RerankEmptyIsFinal ==
    /\ pc = "rerank"
    /\ backend # "none"
    /\ given' \in Rankings
    /\ \E order \in Orders(given') : Assign(given', order)
    /\ pc' = "done"
    /\ UNCHANGED <<backend, candidates>>

\* A ranking that names no passage leaves the fusion order too.
Rerank ==
    /\ pc = "rerank"
    /\ backend # "none"
    /\ given' \in Rankings
    /\ IF Valid(given') = {} THEN FusionOrder
       ELSE \E order \in Orders(given') : Assign(given', order)
    /\ pc' = "done"
    /\ UNCHANGED <<backend, candidates>>

Next == Embed \/ HybridSearch \/ Upstream \/ Malformed \/ Degrade \/ Rerank

Spec == Init /\ [][Next]_vars

-----------------------------------------------------------------------------
(* Refinement *)

answer ==
    [kind |-> CASE pc = "done" -> "hits"
                [] pc \in {"upstream", "malformed"} -> pc
                [] OTHER -> "pending",
     hits |-> IF pc = "done" THEN [c \in Range(out) |-> item[c]] ELSE <<>>]

Contract == INSTANCE SearchContract

\* Whatever the gateway, the store and the reranker answer, a search returns
\* what Pipeline takes a search to return: at most top_k clauses, and never
\* scored and unscored ones together.
KeepsSearchContract == Contract!Spec

-----------------------------------------------------------------------------
(* Properties *)

\* Every variable holds a value the code can give it.
TypeOK ==
    /\ pc \in {"embed", "query", "rerank", "done", "upstream", "malformed"}
    /\ backend \in Backends
    /\ candidates \in Seq(Clauses)
    /\ DOMAIN item = Range(candidates)
    /\ \A c \in DOMAIN item : item[c] \in Item
    /\ out \in Seq(Range(candidates))
    /\ given \in Seq([index : Int, score : Scores])

\* rerank.py drops entries that name no passage: a clause is only returned with
\* a score that was given for its own passage, whatever indexes the model
\* makes up.
ScoreIsItsOwn ==
    \A c \in Range(out) : item[c].rerank # None =>
        \E i \in DOMAIN given :
            /\ given[i].score = item[c].rerank
            /\ given[i].index + 1 \in DOMAIN candidates
            /\ candidates[given[i].index + 1] = c

\* "best first, at most top_n": unless the ranking names a passage twice, the
\* result is ordered by score and leaves out nothing that scored higher.
BestFirst ==
    LET scored == Valid(given)
        distinct == \A i, j \in scored : given[i].index = given[j].index => i = j
    IN  (pc = "done" /\ scored # {} /\ distinct) =>
            /\ \A p, q \in DOMAIN out : p < q => item[out[p]].rerank >= item[out[q]].rerank
            /\ \A i \in scored : Candidate(given[i].index) \notin Range(out) =>
                \A c \in Range(out) : item[c].rerank >= given[i].score

\* hybrid.py: "Degrade to fusion order rather than failing the request".  Once
\* clauses were found, no outage and no ranking makes the search come back
\* empty or raise UpstreamUnavailable.
FoundIsReturned ==
    candidates # <<>> => pc # "upstream" /\ (pc = "done" => out # <<>>)

=============================================================================
