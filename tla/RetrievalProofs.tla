---------------------------- MODULE RetrievalProofs ----------------------------
(***************************************************************************)
(* Proofs about one search, for every collection, every limit and every    *)
(* ranking a reranker can answer with.                                     *)
(***************************************************************************)
EXTENDS Retrieval, FiniteLemmas, SequenceTheorems, TLAPS

\* What is known before the search is answered and after: a result is short,
\* and scored as a whole or not at all.
Progress ==
    /\ pc \in {"embed", "query"} => candidates = <<>>
    /\ pc \in {"upstream", "malformed", "embed", "query", "rerank"} => out = <<>>
    /\ pc = "upstream" => candidates = <<>>
    /\ pc = "rerank" => candidates # <<>>
    /\ pc \in {"embed", "query", "rerank"} =>
         \A c \in DOMAIN item : item[c].rerank = None
    /\ Len(out) <= TopK
    /\ \/ \A c \in Range(out) : item[c].rerank = None
       \/ \A c \in Range(out) : item[c].rerank \in Scores
    /\ pc = "done" /\ candidates # <<>> => out # <<>>

Inv == TypeOK /\ Progress /\ ScoreIsItsOwn

\* A non-empty set of positions has a last one.
LEMMA LastPosition ==
    ASSUME NEW m \in Nat, NEW S \in SUBSET (1..m), S # {}
    PROVE  Max(S) \in S
<1> DEFINE same == [p \in S |-> p]
<1>1. IsFiniteSet(S)
    <2>1. IsFiniteSet(1..m)
        BY FS_Interval
    <2> QED
        BY <2>1, FS_Subset
<1>2. same \in [S -> Int]
    OBVIOUS
<1>3. PICK p \in S : \A q \in S : same[p] >= same[q]
    <2> HIDE DEF same
    <2> QED
        BY <1>1, <1>2, GreatestValue
<1>4. \A q \in S : p >= q
    BY <1>3
<1> QED
    BY <1>4 DEF Max

\* Lists of entries, as functions on an interval, are sequences.
LEMMA IntervalIsSeq ==
    ASSUME NEW n \in Nat, NEW S, NEW f \in [1..n -> S]
    PROVE  f \in Seq(S)
OBVIOUS

\* A slice is not longer than the list, nor than top_k, and keeps something.
LEMMA TakeBounds ==
    ASSUME NEW n \in Nat
    PROVE  Take(n) \in Nat /\ Take(n) <= n /\ Take(n) <= TopK /\ (n > 0 => Take(n) > 0)
BY RetrievalAssumption DEF Take

\* The entries that name a passage are finitely many.
LEMMA ValidCount ==
    ASSUME NEW ranking \in Seq([index : Int, score : Scores])
    PROVE  /\ Cardinality(Valid(ranking)) \in Nat
           /\ Valid(ranking) # {} => Cardinality(Valid(ranking)) > 0
<1>1. IsFiniteSet(1..Len(ranking))
    BY FS_Interval
<1>2. Valid(ranking) \in SUBSET (1..Len(ranking))
    BY DEF Valid
<1>3. IsFiniteSet(Valid(ranking))
    BY <1>1, <1>2, FS_Subset
<1> QED
    BY <1>3, FS_CardinalityType, FS_EmptySet

\* A valid entry of a ranking names one of the candidates.
LEMMA EntryNamesPassage ==
    ASSUME TypeOK, NEW ranking \in Seq([index : Int, score : Scores]), NEW i \in Valid(ranking)
    PROVE  /\ i \in DOMAIN ranking
           /\ ranking[i].index \in Int /\ ranking[i].score \in Scores
           /\ ranking[i].index + 1 \in DOMAIN candidates
           /\ Candidate(ranking[i].index) = candidates[ranking[i].index + 1]
<1>1. i \in DOMAIN ranking /\ ranking[i].index \in 0..Len(candidates) - 1
    BY DEF Valid
<1>2. ranking[i] \in [index : Int, score : Scores]
    <2>1. i \in 1..Len(ranking)
        BY <1>1
    <2> QED
        BY <2>1, ElementOfSeq
<1>3. Len(candidates) \in Nat /\ DOMAIN candidates = 1..Len(candidates)
    BY DEF TypeOK
<1>4. ranking[i].index >= 0 /\ ranking[i].index + 1 \in DOMAIN candidates
    BY <1>1, <1>2, <1>3
<1> QED
    BY <1>1, <1>2, <1>4 DEF Candidate

\* Degrading returns the first candidates, and not more than top_k.
LEMMA FusionOrderReturns ==
    ASSUME TypeOK, FusionOrder
    PROVE  /\ out' \in Seq(Range(candidates))
           /\ Len(out') <= TopK
           /\ candidates # <<>> => out' # <<>>
<1> DEFINE m == Take(Len(candidates))
<1>1. Len(candidates) \in Nat /\ (candidates # <<>> => Len(candidates) > 0)
    BY DEF TypeOK
<1>2. m \in Nat /\ m <= Len(candidates) /\ m <= TopK /\ (candidates # <<>> => m > 0)
    BY <1>1, TakeBounds
<1>3. out' = SubSeq(candidates, 1, m)
    BY DEF FusionOrder
<1>4. Len(out') = m /\ DOMAIN out' = 1..m /\ \A i \in 1..m : out'[i] = candidates[i]
    <2> HIDE DEF m
    <2> QED
        BY <1>2, <1>3 DEF TypeOK
<1>5. \A i \in 1..m : candidates[i] \in Range(candidates)
    BY <1>2 DEF TypeOK, Range
<1>6. out' \in Seq(Range(candidates))
    <2>1. out' \in Seq(Clauses)
        <3> HIDE DEF m
        <3> QED
            BY <1>2, <1>3 DEF TypeOK
    <2> HIDE DEF m
    <2> QED
        BY <2>1, <1>2, <1>4, <1>5
<1> QED
    BY <1>2, <1>4, <1>6

\* The loop over a ranking returns passages that were candidates, at most
\* top_k, each with a score given for its own index.
LEMMA AssignReturns ==
    ASSUME TypeOK, NEW ranking \in Seq([index : Int, score : Scores]),
           Valid(ranking) # {},
           NEW order \in Orders(ranking), Assign(ranking, order)
    PROVE  /\ out' \in Seq(Range(candidates))
           /\ out' # <<>>
           /\ Len(out') <= TopK
           /\ DOMAIN item' = DOMAIN item
           /\ \A c \in DOMAIN item : item'[c] \in Item
           /\ \A c \in Range(out') :
                /\ item'[c].rerank \in Scores
                /\ \E i \in DOMAIN ranking :
                     /\ ranking[i].score = item'[c].rerank
                     /\ ranking[i].index + 1 \in DOMAIN candidates
                     /\ candidates[ranking[i].index + 1] = c
<1> DEFINE n == Cardinality(Valid(ranking))
           m == Take(n)
           At(p) == Candidate(ranking[order[p]].index)
           Named(c) == {p \in 1..m : At(p) = c}
<1>1. n \in Nat /\ n > 0
    BY ValidCount
<1>2. m \in Nat /\ m > 0 /\ m <= n /\ m <= TopK
    <2> HIDE DEF n
    <2> QED
        BY <1>1, TakeBounds
<1>3. order \in [1..n -> Valid(ranking)]
    BY DEF Orders
<1>4. \A i \in Valid(ranking) :
        /\ i \in DOMAIN ranking
        /\ ranking[i].index \in Int /\ ranking[i].score \in Scores
        /\ ranking[i].index + 1 \in DOMAIN candidates
        /\ Candidate(ranking[i].index) = candidates[ranking[i].index + 1]
    BY EntryNamesPassage
<1>5. \A p \in 1..m :
        /\ order[p] \in Valid(ranking)
        /\ At(p) = candidates[ranking[order[p]].index + 1]
        /\ At(p) \in Range(candidates)
    <2> HIDE DEF n, m
    <2> SUFFICES ASSUME NEW p \in 1..m
                 PROVE  /\ order[p] \in Valid(ranking)
                        /\ At(p) = candidates[ranking[order[p]].index + 1]
                        /\ At(p) \in Range(candidates)
        OBVIOUS
    <2>1. p \in 1..n
        BY <1>1, <1>2
    <2>2. order[p] \in Valid(ranking)
        BY <2>1, <1>3
    <2>3. /\ At(p) = candidates[ranking[order[p]].index + 1]
          /\ ranking[order[p]].index + 1 \in DOMAIN candidates
        BY <2>2, <1>4
    <2> QED
        BY <2>2, <2>3 DEF Range
<1>6. /\ out' = [p \in 1..m |-> At(p)]
      /\ item' = [c \in DOMAIN item |->
            IF Named(c) = {} THEN item[c]
            ELSE [item[c] EXCEPT !.rerank = ranking[order[Max(Named(c))]].score]]
    BY DEF Assign
<1> HIDE DEF m, n, At
<1>7. out' \in Seq(Range(candidates)) /\ Len(out') = m /\ Range(out') = {At(p) : p \in 1..m}
    BY <1>2, <1>5, <1>6 DEF Range
<1>8. ASSUME NEW c \in DOMAIN item, Named(c) # {}
      PROVE  /\ Max(Named(c)) \in 1..m
             /\ At(Max(Named(c))) = c
             /\ item'[c] \in Item
             /\ item'[c].rerank = ranking[order[Max(Named(c))]].score
    <2>1. Max(Named(c)) \in Named(c)
        BY <1>2, <1>8, LastPosition
    <2>2. ranking[order[Max(Named(c))]].score \in Scores
        BY <2>1, <1>4, <1>5
    <2> QED
        BY <2>1, <2>2, <1>6, <1>8 DEF TypeOK, Item
<1>9. \A c \in DOMAIN item : item'[c] \in Item
    BY <1>6, <1>8 DEF TypeOK
<1>10. ASSUME NEW c \in Range(out')
       PROVE  /\ item'[c].rerank \in Scores
              /\ \E i \in DOMAIN ranking :
                   /\ ranking[i].score = item'[c].rerank
                   /\ ranking[i].index + 1 \in DOMAIN candidates
                   /\ candidates[ranking[i].index + 1] = c
    <2>1. c \in DOMAIN item /\ Named(c) # {}
        BY <1>5, <1>7 DEF TypeOK
    <2> DEFINE i == order[Max(Named(c))]
    <2>2. /\ Max(Named(c)) \in 1..m
          /\ At(Max(Named(c))) = c
          /\ item'[c].rerank = ranking[i].score
        BY <2>1, <1>8
    <2>3. i \in Valid(ranking) /\ c = candidates[ranking[i].index + 1]
        BY <2>2, <1>5
    <2> QED
        BY <2>2, <2>3, <1>4
<1>11. out' # <<>> /\ Len(out') <= TopK
    BY <1>2, <1>7, RetrievalAssumption
<1>12. DOMAIN item' = DOMAIN item
    BY <1>6
<1> QED
    BY <1>7, <1>9, <1>10, <1>11, <1>12


\* A result made of few enough clauses, scored as a whole or not at all, is one
\* that Pipeline takes.
LEMMA ResultIsHits ==
    ASSUME TypeOK, Progress
    PROVE  [c \in Range(out) |-> item[c]] \in Contract!Hits
<1> DEFINE S == Range(out)
           hits == [c \in S |-> item[c]]
<1>1. S \subseteq Clauses /\ S \subseteq DOMAIN item
    BY DEF TypeOK, Range
<1>2. Cardinality(S) <= TopK /\ IsFiniteSet(S)
    <2>1. Len(out) \in Nat /\ DOMAIN out = 1..Len(out) /\ out \in Surjection(1..Len(out), S)
        <3>1. Len(out) \in Nat /\ DOMAIN out = 1..Len(out) /\ out = [i \in 1..Len(out) |-> out[i]]
            BY DEF TypeOK
        <3>2. S = {out[i] : i \in 1..Len(out)}
            BY <3>1 DEF Range
        <3> HIDE DEF S
        <3> QED
            BY <3>1, <3>2 DEF Surjection
    <2>2. IsFiniteSet(S) /\ Cardinality(S) <= Len(out)
        BY <2>1, FS_Surjection, FS_Interval, FS_SurjCardinalityBound DEF ExistsSurjection
    <2>3. Cardinality(S) \in Nat /\ Len(out) <= TopK /\ TopK \in Nat
        BY <2>2, FS_CardinalityType, RetrievalAssumption DEF Progress
    <2> QED
        BY <2>1, <2>2, <2>3
<1>3. \/ hits \in [S -> [rerank : {None}, fused : FusedScores]]
      \/ hits \in [S -> [rerank : Scores, fused : FusedScores]]
    <2>1. \A c \in S : item[c] \in Item
        BY <1>1 DEF TypeOK
    <2>2. CASE \A c \in S : item[c].rerank = None
        <3>1. \A c \in S : item[c] \in [rerank : {None}, fused : FusedScores]
            BY <2>1, <2>2 DEF Item
        <3> QED
            BY <3>1
    <2>3. CASE \A c \in S : item[c].rerank \in Scores
        <3>1. \A c \in S : item[c] \in [rerank : Scores, fused : FusedScores]
            BY <2>1, <2>3 DEF Item
        <3> QED
            BY <3>1
    <2> QED
        BY <2>2, <2>3 DEF Progress
<1>4. \E U \in SUBSET Clauses :
        /\ Cardinality(U) <= TopK
        /\ \/ hits \in [U -> [rerank : {None}, fused : FusedScores]]
           \/ hits \in [U -> [rerank : Scores, fused : FusedScores]]
    BY <1>1, <1>2, <1>3
<1> HIDE DEF hits
<1>5. \A U : Contract!Cardinality(U) = Cardinality(U)
    BY Zenon DEF Contract!Cardinality, Cardinality
<1>6. hits \in Contract!Hits
    BY <1>4, <1>5 DEF Contract!Hits
<1> QED
    BY <1>6 DEF hits

\* A search that has not begun has found and returned nothing.
LEMMA InitInv == Init => Inv
<1> SUFFICES ASSUME Init PROVE Inv
    OBVIOUS
<1>1. TypeOK
    BY DEF Init, TypeOK, Range
<1>2. Progress
    BY RetrievalAssumption DEF Init, Progress, Range
<1>3. ScoreIsItsOwn
    BY DEF Init, ScoreIsItsOwn, Range
<1> QED
    BY <1>1, <1>2, <1>3 DEF Inv

\* One step per action of the code.
LEMMA NextInv == Inv /\ [Next]_vars => Inv'
<1> SUFFICES ASSUME Inv, [Next]_vars PROVE Inv'
    OBVIOUS
<1> USE DEF Inv
<1>1. CASE Embed
    <2>1. UNCHANGED <<candidates, item, out, given>> /\ pc = "embed" /\ pc' = "query"
        BY <1>1 DEF Embed
    <2>2. TypeOK'
        BY <1>1, <2>1 DEF Embed, TypeOK
    <2>3. Progress'
        BY <2>1 DEF Progress
    <2>4. ScoreIsItsOwn'
        BY <2>1 DEF ScoreIsItsOwn
    <2> QED
        BY <2>2, <2>3, <2>4
<1>2. CASE HybridSearch
    <2>1. PICK n \in 0..Limit :
            /\ candidates' \in [1..n -> Clauses]
            /\ item' \in [{candidates'[i] : i \in 1..n} -> [rerank : {None}, fused : FusedScores]]
            /\ pc' = IF n = 0 THEN "done" ELSE "rerank"
        BY <1>2 DEF HybridSearch
    <2>2. pc = "query" /\ UNCHANGED <<backend, out, given>> /\ out = <<>>
        BY <1>2 DEF HybridSearch, Progress
    <2>3. n \in Nat
        BY <2>1, RetrievalAssumption
    <2>4. candidates' \in Seq(Clauses) /\ Len(candidates') = n
        BY <2>1, <2>3
    <2>5. Range(candidates') = {candidates'[i] : i \in 1..n} /\ DOMAIN item' = Range(candidates')
        BY <2>1 DEF Range
    <2>6. \A c \in DOMAIN item' : item'[c] \in Item /\ item'[c].rerank = None
        BY <2>1 DEF Item
    <2>7. TypeOK'
        BY <2>1, <2>2, <2>4, <2>5, <2>6 DEF TypeOK
    <2>8. Range(out') = {}
        BY <2>2 DEF Range
    <2>9. Progress'
        BY <2>1, <2>2, <2>3, <2>4, <2>6, <2>8, RetrievalAssumption DEF Progress
    <2>10. ScoreIsItsOwn'
        BY <2>8 DEF ScoreIsItsOwn
    <2> QED
        BY <2>7, <2>9, <2>10
<1>3. CASE Upstream \/ Malformed
    <2>1. /\ UNCHANGED <<backend, candidates, item, out, given>>
          /\ \/ pc \in {"embed", "query"} /\ pc' = "upstream"
             \/ pc \in {"embed", "query", "rerank"} /\ pc' = "malformed"
        BY <1>3 DEF Upstream, Malformed
    <2>2. TypeOK'
        BY <2>1 DEF TypeOK
    <2>3. Progress'
        BY <2>1 DEF Progress
    <2>4. ScoreIsItsOwn'
        BY <2>1 DEF ScoreIsItsOwn
    <2> QED
        BY <2>2, <2>3, <2>4
<1>4. ASSUME pc = "rerank", FusionOrder, pc' = "done",
             UNCHANGED <<backend, candidates>>,
             given' \in Seq([index : Int, score : Scores])
      PROVE  Inv'
    <2>1. out' \in Seq(Range(candidates)) /\ Len(out') <= TopK /\ out' # <<>> /\ item' = item
        BY <1>4, FusionOrderReturns DEF FusionOrder, Progress
    <2>2. TypeOK'
        BY <1>4, <2>1 DEF TypeOK
    <2>3. Range(out') \subseteq DOMAIN item
        BY <2>1 DEF TypeOK, Range
    <2>4. \A c \in Range(out') : item'[c].rerank = None
        BY <1>4, <2>1, <2>3 DEF Progress
    <2>5. Progress'
        BY <1>4, <2>1, <2>4 DEF Progress
    <2>6. ScoreIsItsOwn'
        BY <2>4 DEF ScoreIsItsOwn
    <2> QED
        BY <2>2, <2>5, <2>6
<1>5. CASE Degrade
    BY <1>4, <1>5 DEF Degrade, TypeOK
<1>6. CASE Rerank
    <2>1. given' \in Seq([index : Int, score : Scores])
        <3>1. given' \in Rankings /\ Len(candidates) \in Nat
            BY <1>6 DEF Rerank, TypeOK
        <3>2. CASE backend = "llm"
            <4>1. PICK n \in 0..MaxRankings :
                    given' \in [1..n -> [index : (-1)..Limit, score : Scores]]
                BY <3>1, <3>2 DEF Rankings
            <4>2. n \in Nat /\ \A i \in 1..n : given'[i] \in [index : Int, score : Scores]
                BY <4>1, RetrievalAssumption
            <4>3. given' \in [1..n -> [index : Int, score : Scores]]
                BY <4>1, <4>2
            <4> QED
                BY <4>2, <4>3, IntervalIsSeq
        <3>3. CASE backend # "llm"
            <4>1. given' \in [1..Len(candidates) -> [index : 0..Len(candidates) - 1, score : Scores]]
                BY <3>1, <3>3 DEF Rankings
            <4>2. \A i \in 1..Len(candidates) : given'[i] \in [index : Int, score : Scores]
                BY <3>1, <4>1
            <4>3. given' \in [1..Len(candidates) -> [index : Int, score : Scores]]
                BY <4>1, <4>2
            <4> QED
                BY <3>1, <4>3, IntervalIsSeq
        <3> QED
            BY <3>2, <3>3
    <2>2. CASE Valid(given') = {}
        BY <1>4, <1>6, <2>1, <2>2 DEF Rerank
    <2>3. CASE Valid(given') # {}
        <3>1. pc = "rerank" /\ pc' = "done" /\ UNCHANGED <<backend, candidates>>
            BY <1>6 DEF Rerank
        <3>2. PICK order \in Orders(given') : Assign(given', order)
            BY <1>6, <2>3 DEF Rerank
        <3> DEFINE ranking == given'
        <3>3. /\ out' \in Seq(Range(candidates))
              /\ out' # <<>>
              /\ Len(out') <= TopK
              /\ DOMAIN item' = DOMAIN item
              /\ \A c \in DOMAIN item : item'[c] \in Item
              /\ \A c \in Range(out') :
                   /\ item'[c].rerank \in Scores
                   /\ \E i \in DOMAIN given' :
                        /\ given'[i].score = item'[c].rerank
                        /\ given'[i].index + 1 \in DOMAIN candidates
                        /\ candidates[given'[i].index + 1] = c
            <4>1. ranking \in Seq([index : Int, score : Scores]) /\ Valid(ranking) # {}
                BY <2>1, <2>3
            <4>2. order \in Orders(ranking) /\ Assign(ranking, order)
                BY <3>2
            <4> HIDE DEF ranking
            <4>3. /\ out' \in Seq(Range(candidates))
                  /\ out' # <<>>
                  /\ Len(out') <= TopK
                  /\ DOMAIN item' = DOMAIN item
                  /\ \A c \in DOMAIN item : item'[c] \in Item
                  /\ \A c \in Range(out') :
                       /\ item'[c].rerank \in Scores
                       /\ \E i \in DOMAIN ranking :
                            /\ ranking[i].score = item'[c].rerank
                            /\ ranking[i].index + 1 \in DOMAIN candidates
                            /\ candidates[ranking[i].index + 1] = c
                BY <4>1, <4>2, AssignReturns
            <4> QED
                BY <4>3 DEF ranking
        <3>4. TypeOK'
            BY <2>1, <3>1, <3>3 DEF TypeOK
        <3>5. Progress'
            BY <3>1, <3>3 DEF Progress
        <3>6. ScoreIsItsOwn'
            BY <3>1, <3>3 DEF ScoreIsItsOwn
        <3> QED
            BY <3>4, <3>5, <3>6
    <2> QED
        BY <2>2, <2>3
<1>7. CASE UNCHANGED vars
    BY <1>7 DEF vars, TypeOK, Progress, ScoreIsItsOwn, Range, Valid
<1> QED
    BY <1>1, <1>2, <1>3, <1>5, <1>6, <1>7 DEF Next

\* The inductive invariant of a search.
THEOREM Invariance == Spec => []Inv
BY InitInv, NextInv, PTL DEF Spec

\* Every variable of a search keeps its type.
THEOREM TypeCorrect == Spec => []TypeOK
<1>1. Inv => TypeOK
    BY DEF Inv
<1> QED
    BY <1>1, Invariance, PTL

\* rerank.py: whatever indexes the model makes up, a clause is returned only
\* with a score that was given for its own passage.
THEOREM ScoresAreTheirOwn == Spec => []ScoreIsItsOwn
<1>1. Inv => ScoreIsItsOwn
    BY DEF Inv
<1> QED
    BY <1>1, Invariance, PTL

\* hybrid.py: once clauses were found, the search returns some of them or its
\* reranker's answer could not be read; an outage never empties it.
THEOREM WhatIsFoundIsReturned == Spec => []FoundIsReturned
<1>1. Inv => FoundIsReturned
    BY DEF Inv, Progress, FoundIsReturned
<1> QED
    BY <1>1, Invariance, PTL

-----------------------------------------------------------------------------
(* The order of a reranked result *)

\* A clause is a candidate once, there is no ranking before the search is
\* answered, and the answer is the best of it.
OrderFacts ==
    /\ \A i, j \in DOMAIN candidates : candidates[i] = candidates[j] => i = j
    /\ pc # "done" => given = <<>>
    /\ BestFirst

\* A clause was scored by the only entry that names it, and the entries left
\* out come after those taken in an order by score.
LEMMA AssignIsBestFirst ==
    ASSUME TypeOK, \A i, j \in DOMAIN candidates : candidates[i] = candidates[j] => i = j,
           NEW ranking \in Seq([index : Int, score : Scores]),
           Valid(ranking) # {},
           \A i, j \in Valid(ranking) : ranking[i].index = ranking[j].index => i = j,
           NEW order \in Orders(ranking), Assign(ranking, order)
    PROVE  /\ \A p, q \in DOMAIN out' : p < q => item'[out'[p]].rerank >= item'[out'[q]].rerank
           /\ \A i \in Valid(ranking) : Candidate(ranking[i].index) \notin Range(out') =>
                \A c \in Range(out') : item'[c].rerank >= ranking[i].score
<1> DEFINE n == Cardinality(Valid(ranking))
           m == Take(n)
           At(p) == Candidate(ranking[order[p]].index)
           Named(c) == {p \in 1..m : At(p) = c}
<1>1. n \in Nat /\ n > 0
    BY ValidCount
<1>2. m \in Nat /\ m <= n
    <2> HIDE DEF n
    <2> QED
        BY <1>1, TakeBounds
<1>3. /\ order \in [1..n -> Valid(ranking)]
      /\ \A p, q \in 1..n : order[p] = order[q] => p = q
      /\ \A p, q \in 1..n : p < q => ranking[order[p]].score >= ranking[order[q]].score
    BY DEF Orders
<1>4. \A i \in Valid(ranking) : \E p \in 1..n : order[p] = i
    <2>1. IsFiniteSet(Valid(ranking))
        BY FS_Interval, FS_Subset DEF Valid
    <2>2. order \in Injection(1..n, Valid(ranking))
        BY <1>3 DEF Injection, IsInjective
    <2>3. Cardinality(1..n) = Cardinality(Valid(ranking))
        BY <1>1, FS_Interval
    <2>4. order \in Surjection(1..n, Valid(ranking))
        <3> HIDE DEF n
        <3> QED
            BY <2>1, <2>2, <2>3, FS_Injection
    <2> QED
        BY <2>4 DEF Surjection
<1>5. ASSUME NEW i \in Valid(ranking)
      PROVE  /\ ranking[i].score \in Int /\ ranking[i].index \in Int
             /\ ranking[i].index + 1 \in DOMAIN candidates
             /\ Candidate(ranking[i].index) = candidates[ranking[i].index + 1]
    BY EntryNamesPassage, RetrievalAssumption
<1>6. /\ out' = [p \in 1..m |-> At(p)]
      /\ item' = [c \in DOMAIN item |->
            IF Named(c) = {} THEN item[c]
            ELSE [item[c] EXCEPT !.rerank = ranking[order[Max(Named(c))]].score]]
    BY DEF Assign
<1>7. \A p \in 1..m : order[p] \in Valid(ranking) /\ p \in 1..n
    <2> HIDE DEF n, m
    <2>1. \A p \in 1..m : p \in 1..n
        BY <1>1, <1>2
    <2> QED
        BY <1>3, <2>1
<1>8. ASSUME NEW p \in 1..m, NEW q \in 1..n, Candidate(ranking[order[q]].index) = At(p)
      PROVE  p = q
    <2> HIDE DEF n, m
    <2>1. order[p] \in Valid(ranking) /\ order[q] \in Valid(ranking) /\ p \in 1..n
        BY <1>3, <1>7
    <2> DEFINE i == order[p]
               j == order[q]
    <2>2. ranking[i].index = ranking[j].index
        <3>1. /\ ranking[i].index \in Int /\ ranking[i].index + 1 \in DOMAIN candidates
              /\ Candidate(ranking[i].index) = candidates[ranking[i].index + 1]
            BY <1>5, <2>1
        <3>2. /\ ranking[j].index \in Int /\ ranking[j].index + 1 \in DOMAIN candidates
              /\ Candidate(ranking[j].index) = candidates[ranking[j].index + 1]
            BY <1>5, <2>1
        <3>3. Candidate(ranking[i].index) = Candidate(ranking[j].index)
            BY <1>8
        <3> HIDE DEF i, j
        <3>4. ranking[i].index + 1 = ranking[j].index + 1
            BY <3>1, <3>2, <3>3
        <3>5. \A x, y \in Int : x + 1 = y + 1 => x = y
            OBVIOUS
        <3> QED
            BY <3>1, <3>2, <3>4, <3>5
    <2> QED
        BY <1>3, <2>1, <2>2
<1>9. \A p \in 1..m : item'[At(p)].rerank = ranking[order[p]].score
    <2> SUFFICES ASSUME NEW p \in 1..m
                 PROVE  item'[At(p)].rerank = ranking[order[p]].score
        OBVIOUS
    <2>1. Named(At(p)) = {p}
        <3> HIDE DEF m, n, At
        <3> QED
            BY <1>7, <1>8 DEF At
    <2>2. Max({p}) = p
        BY <1>2 DEF Max
    <2>3. At(p) \in DOMAIN item
        <3>1. At(p) = candidates[ranking[order[p]].index + 1]
              /\ ranking[order[p]].index + 1 \in DOMAIN candidates
            BY <1>5, <1>7
        <3> QED
            BY <3>1 DEF TypeOK, Range
    <2>4. item[At(p)] \in Item
        BY <2>3 DEF TypeOK
    <2> HIDE DEF m, n, At, Named
    <2> QED
        BY <1>6, <2>1, <2>2, <2>3, <2>4 DEF Item
<1>r. DOMAIN out' = 1..m /\ \A p \in 1..m : out'[p] = At(p)
    BY <1>6
<1> HIDE DEF m, n, Named, At
<1>10. \A p \in 1..m, q \in 1..n : p < q => item'[out'[p]].rerank >= ranking[order[q]].score
    BY <1>3, <1>r, <1>7, <1>9
<1>11. ASSUME NEW p \in DOMAIN out', NEW q \in DOMAIN out', p < q
       PROVE  item'[out'[p]].rerank >= item'[out'[q]].rerank
    BY <1>r, <1>7, <1>9, <1>10, <1>11
<1>12. ASSUME NEW i \in Valid(ranking), Candidate(ranking[i].index) \notin Range(out'),
              NEW c \in Range(out')
       PROVE  item'[c].rerank >= ranking[i].score
    <2>1. PICK q \in 1..n : order[q] = i
        BY <1>4
    <2>2. PICK p \in 1..m : c = out'[p]
        BY <1>r DEF Range
    <2>3. q \notin 1..m
        BY <1>r, <1>12, <2>1 DEF Range, At
    <2>4. p < q
        BY <1>1, <1>2, <2>3
    <2> QED
        BY <1>10, <2>1, <2>2, <2>4
<1> QED
    BY <1>11, <1>12

\* The order of the answer is decided in the step that gives it.
LEMMA OrderStep == Inv /\ Inv' /\ OrderFacts /\ [Next]_vars => OrderFacts'
<1> SUFFICES ASSUME Inv, Inv', OrderFacts, [Next]_vars PROVE OrderFacts'
    OBVIOUS
<1>1. ASSUME given' = <<>> PROVE BestFirst'
    BY <1>1 DEF BestFirst, Valid
<1>2. CASE HybridSearch
    <2>1. PICK n \in 0..Limit :
            /\ candidates' \in [1..n -> Clauses]
            /\ \A i, j \in 1..n : candidates'[i] = candidates'[j] => i = j
        BY <1>2 DEF HybridSearch
    <2>2. given' = <<>>
        BY <1>2 DEF HybridSearch, OrderFacts
    <2> QED
        BY <1>1, <2>1, <2>2 DEF OrderFacts
<1>3. CASE Embed \/ Upstream \/ Malformed \/ Degrade
    <2>1. UNCHANGED <<candidates, given>> /\ given = <<>>
        BY <1>3 DEF Embed, Upstream, Malformed, Degrade, OrderFacts
    <2> QED
        BY <1>1, <2>1 DEF OrderFacts
<1>4. CASE Rerank
    <2>1. /\ pc' = "done" /\ UNCHANGED candidates
          /\ given' \in Seq([index : Int, score : Scores])
        BY <1>4 DEF Rerank, Inv, TypeOK
    <2>2. CASE Valid(given') = {}
        BY <2>1, <2>2 DEF OrderFacts, BestFirst, Valid
    <2>3. CASE Valid(given') # {} /\ \A i, j \in Valid(given') : given'[i].index = given'[j].index => i = j
        <3>1. PICK order \in Orders(given') : Assign(given', order)
            BY <1>4, <2>3 DEF Rerank
        <3> DEFINE ranking == given'
        <3>2. /\ ranking \in Seq([index : Int, score : Scores]) /\ Valid(ranking) # {}
              /\ \A i, j \in Valid(ranking) : ranking[i].index = ranking[j].index => i = j
              /\ order \in Orders(ranking) /\ Assign(ranking, order)
            BY <2>1, <2>3, <3>1
        <3>3. TypeOK /\ \A i, j \in DOMAIN candidates : candidates[i] = candidates[j] => i = j
            BY DEF Inv, OrderFacts
        <3> HIDE DEF ranking
        <3>4. /\ \A p, q \in DOMAIN out' : p < q => item'[out'[p]].rerank >= item'[out'[q]].rerank
              /\ \A i \in Valid(ranking) : Candidate(ranking[i].index) \notin Range(out') =>
                    \A c \in Range(out') : item'[c].rerank >= ranking[i].score
            BY <3>2, <3>3, AssignIsBestFirst
        <3>5. BestFirst'
            BY <2>1, <3>4 DEF BestFirst, Valid, Candidate, ranking
        <3> QED
            BY <2>1, <3>5 DEF OrderFacts
    <2>4. CASE ~ \A i, j \in Valid(given') : given'[i].index = given'[j].index => i = j
        BY <2>1, <2>4 DEF OrderFacts, BestFirst, Valid
    <2> QED
        BY <2>2, <2>3, <2>4
<1>5. CASE UNCHANGED vars
    BY <1>5 DEF vars, OrderFacts, BestFirst, Valid, Candidate, Range
<1> QED
    BY <1>2, <1>3, <1>4, <1>5 DEF Next

\* rerank.py, "best first, at most top_n": unless a ranking names a passage
\* twice, the result is ordered by score and leaves out nothing that scored
\* higher than what it holds.
THEOREM ResultsAreBestFirst == Spec => []BestFirst
<1>1. Init => OrderFacts
    BY DEF Init, OrderFacts, BestFirst
<1>2. OrderFacts => BestFirst
    BY DEF OrderFacts
<1> QED
    BY <1>1, <1>2, OrderStep, Invariance, PTL DEF Spec

-----------------------------------------------------------------------------
(* The contract of a search *)

\* The refinement: a search that has not begun is pending, and every step that
\* ends it gives an answer or raises.
LEMMA InitContract == Init => Contract!Init
BY DEF Init, Contract!Init, answer

\* A step of the search is a step of the contract or leaves its answer alone.
LEMMA NextContract == Inv /\ Inv' /\ [Next]_vars => [Contract!Next]_answer
<1> SUFFICES ASSUME Inv, Inv', [Next]_vars
             PROVE  [Contract!Next]_answer
    OBVIOUS
<1>1. CASE pc' = pc /\ pc # "done"
    BY <1>1 DEF answer
<1>2. CASE pc' \in {"query", "rerank"} /\ pc \in {"embed", "query"}
    BY <1>2 DEF answer
<1>3. CASE pc' = "done" /\ pc \in {"query", "rerank"}
    <2>1. [c \in Range(out) |-> item[c]]' \in Contract!Hits
        <3>1. ([c \in Range(out) |-> item[c]] \in Contract!Hits)'
            BY ResultIsHits, PTL DEF Inv
        <3> QED
            BY <3>1
    <2>2. answer.kind = "pending"
        BY <1>3 DEF answer
    <2>3. answer' = [kind |-> "hits", hits |-> [c \in Range(out) |-> item[c]]']
        BY <1>3 DEF answer
    <2> QED
        BY <2>1, <2>2, <2>3 DEF Contract!Next, Contract!Answer
<1>4. CASE pc' \in {"upstream", "malformed"} /\ pc \in {"embed", "query", "rerank"}
    <2>1. answer.kind = "pending" /\ answer' = [kind |-> pc', hits |-> <<>>]
        BY <1>4 DEF answer
    <2> QED
        BY <1>4, <2>1 DEF Contract!Next, Contract!Raise
<1>5. CASE UNCHANGED vars
    BY <1>5 DEF vars, answer, Range
<1> QED
    BY <1>1, <1>2, <1>3, <1>4, <1>5
       DEF Next, Embed, HybridSearch, Upstream, Malformed, Degrade, Rerank

\* For every collection and every answer of its providers, a search is a
\* behaviour of SearchContract: Pipeline's searches return what Hits says.
THEOREM RetrieverKeepsContract == Spec => KeepsSearchContract
BY InitContract, NextContract, Invariance, InitInv, PTL DEF Spec, KeepsSearchContract, Contract!Spec
=============================================================================
