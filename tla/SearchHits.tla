------------------------------- MODULE SearchHits -------------------------------
(***************************************************************************)
(* The values Retriever.search can return, shared by the pipeline, which   *)
(* takes any of them, and by the retriever's contract, which gives no      *)
(* other.  A result maps the clauses it holds to their scores.             *)
(***************************************************************************)
EXTENDS Naturals, FiniteSets

CONSTANTS
    Clauses,     \* chunk ids of the collection
    Scores,      \* rerank scores the reranker gives
    FusedScores, \* fused scores the store gives
    TopK,        \* Settings.rerank_top_k
    None         \* Python's None

\* At most top_k clauses of the collection, scored by the reranker, or all
\* unscored when the reranker degraded.
Hits ==
    LET found == {S \in SUBSET Clauses : Cardinality(S) <= TopK}
        scored == UNION {[S -> [rerank : Scores, fused : FusedScores]] : S \in found}
        unscored == UNION {[S -> [rerank : {None}, fused : FusedScores]] : S \in found}
    IN scored \cup unscored

=============================================================================
