----------------------------- MODULE SearchContract -----------------------------
(***************************************************************************)
(* What one search promises the pipeline: it is answered once, with at     *)
(* most TopK clauses of the collection that were all scored by a reranker  *)
(* or all left unscored, or it raises.                                     *)
(***************************************************************************)
EXTENDS FiniteSets

CONSTANTS Clauses, Scores, FusedScores, TopK, None

VARIABLE answer  \* [kind, hits]; the kind is "pending", "hits", "upstream" or "malformed"

INSTANCE SearchHits

Init == answer = [kind |-> "pending", hits |-> <<>>]

Answer == answer' \in [kind : {"hits"}, hits : Hits]
Raise == answer' \in [kind : {"upstream", "malformed"}, hits : {<<>>}]

Next == answer.kind = "pending" /\ (Answer \/ Raise)

Spec == Init /\ [][Next]_answer

=============================================================================
