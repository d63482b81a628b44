------------------------------- MODULE EvalProofs -------------------------------
(***************************************************************************)
(* Proofs about the evaluation harness, for every test set, every number   *)
(* of commands and whatever the assessments come to.                       *)
(***************************************************************************)
EXTENDS Eval, FiniteLemmas

RowSet == [id : Cases, answer : Answers \cup {Failed}]

FileSet ==
    [rows : SUBSET RowSet, summary : {Score(rows) : rows \in SUBSET RowSet},
     subset : BOOLEAN, limited : BOOLEAN, chain : SUBSET Nat]

TypeOK ==
    /\ selected = None \/ selected \in SUBSET Cases
    /\ row \in [Cases -> Answers \cup {Failed}]
    /\ results \in Seq(FileSet)
    /\ source \in [prior : 0..Len(results), limited : BOOLEAN]

\* A command that --limit does not cut runs all that failed in the file it was
\* given.
CommandFacts ==
    selected # None /\ source.prior # 0 /\ ~source.limited
        => FailedIn(results[source.prior]) \subseteq selected

\* A file is scored from its own rows.  Its chain is itself, or itself and the
\* chain of the earlier file whose failures it ran again.
FileFacts(files, f) ==
    LET file == files[f]
    IN  /\ file.summary = Score(file.rows) /\ IsFiniteSet(file.rows)
        /\ file.subset \/ \A c \in Cases : Ran(c, file)
        /\ \/ file.chain = {f}
           \/ \E g \in 1 .. f - 1 :
                /\ file.chain = files[g].chain \cup {f}
                /\ file.limited \/ \A c \in FailedIn(files[g]) : Ran(c, file)

IInv == TypeOK /\ CommandFacts /\ \A f \in DOMAIN results : FileFacts(results, f)

-----------------------------------------------------------------------------
(* The invariant is inductive *)

\* A test set has finitely many cases.
LEMMA CasesAreFinite == IsFiniteSet(Cases)
<1> DEFINE places == 1..Len(TestSet)
<1>1. Len(TestSet) \in Nat /\ DOMAIN TestSet = places
    BY EvalAssumption
<1>2. Cases = {TestSet[i] : i \in places}
    BY <1>1 DEF Cases, ToSet
<1>3. IsFiniteSet(places)
    BY <1>1, FS_Interval
<1>4. [i \in places |-> TestSet[i]] \in Surjection(places, Cases)
    BY <1>2 DEF Surjection
<1> QED
    BY <1>3, <1>4, FS_Surjection

\* Nothing has run and nothing is written at the start.
LEMMA InitInv == Init => IInv
<1> SUFFICES ASSUME Init PROVE IInv
    OBVIOUS
<1>1. /\ selected = None /\ results = <<>>
      /\ row = [c \in Cases |-> Failed] /\ source = [prior |-> 0, limited |-> FALSE]
    BY DEF Init
<1>2. results \in Seq(FileSet) /\ Len(results) = 0 /\ DOMAIN results = {}
    BY <1>1
<1>3. TypeOK
    BY <1>1, <1>2 DEF TypeOK
<1> QED
    BY <1>1, <1>2, <1>3 DEF IInv, CommandFacts

\* What is known of a file does not depend on the files after it.
LEMMA FileKept ==
    ASSUME NEW files, NEW more, NEW f \in Nat \ {0}, FileFacts(files, f),
           \A g \in 1..f : more[g] = files[g]
    PROVE  FileFacts(more, f)
<1>1. more[f] = files[f] /\ \A g \in 1 .. f - 1 : more[g] = files[g]
    OBVIOUS
<1> QED
    BY <1>1 DEF FileFacts

\* What a command selects is what failed in the file it is given, and more,
\* unless it is limited.
LEMMA SelectionFacts ==
    ASSUME TypeOK, NEW prior \in 0..Len(results), NEW only \in OnlySets, NEW limit \in Limits
    PROVE  /\ Limited(Selection(prior, only), limit) \in SUBSET Cases
           /\ limit = 0 /\ prior # 0
                => FailedIn(results[prior]) \subseteq Limited(Selection(prior, only), limit)
<1>1. ASSUME prior # 0
      PROVE  FailedIn(results[prior]) \subseteq Cases
  <2>1. results[prior] \in FileSet
      BY <1>1 DEF TypeOK
  <2>2. results[prior].rows \subseteq RowSet
      BY <2>1 DEF FileSet
  <2> QED
      BY <2>2 DEF FailedIn, RowSet
<1>2. only \subseteq Cases
    BY EvalAssumption
<1>3. Selection(prior, only) \subseteq Cases
    BY <1>1, <1>2 DEF Selection
<1>4. prior # 0 => FailedIn(results[prior]) \subseteq Selection(prior, only)
    BY DEF Selection
<1> QED
    BY <1>3, <1>4 DEF Limited

\* The rows of a command are typed, and finitely many.
LEMMA RowsAreFinite ==
    ASSUME TypeOK, selected # None
    PROVE  /\ Rows \in SUBSET RowSet /\ IsFiniteSet(Rows)
           /\ \A c \in Cases : (\E r \in Rows : r.id = c) <=> c \in selected
<1>1. selected \in SUBSET Cases /\ row \in [Cases -> Answers \cup {Failed}]
    BY DEF TypeOK
<1>2. IsFiniteSet(selected)
    BY <1>1, CasesAreFinite, FS_Subset
<1> DEFINE made == [c \in selected |-> [id |-> c, answer |-> row[c]]]
<1>3. made \in Surjection(selected, Rows)
    BY DEF Surjection, Rows
<1>4. IsFiniteSet(Rows)
  <2> HIDE DEF made
  <2> QED
      BY <1>2, <1>3, FS_Surjection
<1>5. \A r \in Rows : \E c \in selected : r = [id |-> c, answer |-> row[c]]
    BY DEF Rows
<1>6. \A c \in selected : [id |-> c, answer |-> row[c]] \in Rows \cap RowSet
    BY <1>1 DEF Rows, RowSet
<1>7. \A c \in Cases : (\E r \in Rows : r.id = c) <=> c \in selected
  <2>1. ASSUME NEW r \in Rows PROVE r.id \in selected
      BY <1>5
  <2>2. ASSUME NEW c \in selected PROVE \E r \in Rows : r.id = c
    <3>1. [id |-> c, answer |-> row[c]].id = c
        OBVIOUS
    <3> QED
        BY <1>6, <3>1
  <2> QED
      BY <2>1, <2>2
<1> QED
    BY <1>4, <1>5, <1>6, <1>7

\* Each command keeps the invariant: one step per action.
LEMMA InvStep == IInv /\ [Next]_vars => IInv'
<1> SUFFICES ASSUME IInv, [Next]_vars PROVE IInv'
    OBVIOUS
<1>0. TypeOK /\ CommandFacts /\ \A f \in DOMAIN results : FileFacts(results, f)
    BY DEF IInv
<1>b. ASSUME results' = results, source' = source,
             selected' \in {selected, None}, row' \in [Cases -> Answers \cup {Failed}]
      PROVE  IInv'
  <2>1. TypeOK'
      BY <1>0, <1>b DEF TypeOK
  <2>2. CommandFacts'
    <3>1. CASE selected' = None
        BY <3>1 DEF CommandFacts
    <3>2. CASE selected' = selected
        BY <1>0, <1>b, <3>2 DEF CommandFacts, FailedIn, Right
    <3> QED
        BY <1>b, <3>1, <3>2
  <2> QED
      BY <1>0, <1>b, <2>1, <2>2 DEF IInv
<1>1. CASE Command
  <2>1. PICK prior \in 0..Len(results), only \in OnlySets, limit \in Limits :
           /\ selected' = Limited(Selection(prior, only), limit)
           /\ source' = [prior |-> prior, limited |-> limit # 0]
      BY <1>1 DEF Command
  <2>2. row' = row /\ results' = results
      BY <1>1 DEF Command
  <2>3. /\ selected' \in SUBSET Cases
        /\ limit = 0 /\ prior # 0 => FailedIn(results[prior]) \subseteq selected'
      BY <1>0, <2>1, SelectionFacts
  <2>4. TypeOK'
    <3>1. source' \in [prior : 0..Len(results), limited : BOOLEAN]
        BY <2>1
    <3> QED
        BY <1>0, <2>2, <2>3, <3>1 DEF TypeOK
  <2>5. CommandFacts'
    <3>1. source'.prior = prior /\ source'.limited = (limit # 0)
        BY <2>1
    <3> QED
        BY <2>2, <2>3, <3>1 DEF CommandFacts, FailedIn, Right
  <2> QED
      BY <1>0, <2>2, <2>4, <2>5 DEF IInv
<1>2. CASE StartCase
    BY <1>0, <1>2, <1>b DEF StartCase, TypeOK
<1>3. ASSUME NEW c \in Cases, EndCase(c) PROVE IInv'
    BY <1>0, <1>3, <1>b DEF EndCase, TypeOK
<1>4. CASE Write
  <2> DEFINE n == Len(results) + 1
  <2>1. selected # None /\ selected' = None /\ source' = source
        /\ row' = [c \in Cases |-> Failed]
      BY <1>4 DEF Write, Finished
  <2>2. Rows \in SUBSET RowSet /\ IsFiniteSet(Rows)
        /\ \A c \in Cases : (\E r \in Rows : r.id = c) <=> c \in selected
      BY <1>0, <2>1, RowsAreFinite
  <2> DEFINE own == {n} \cup IF source.prior = 0 THEN {} ELSE results[source.prior].chain
             file == [rows |-> Rows, summary |-> Score(Rows), subset |-> selected # Cases,
                      limited |-> source.limited, chain |-> own]
  <2>3. results' = Append(results, file)
      BY <1>4 DEF Write
  <2>4. source.prior \in 0..Len(results) /\ source.limited \in BOOLEAN /\ Len(results) \in Nat
        /\ results \in Seq(FileSet)
      BY <1>0 DEF TypeOK
  <2>5. \A g \in 1..Len(results) : results[g].chain \in SUBSET Nat
    <3>1. \A g \in 1..Len(results) : results[g] \in FileSet
        BY <2>4
    <3>2. \A older \in FileSet : older.chain \in SUBSET Nat
        BY DEF FileSet
    <3> QED
        BY <3>1, <3>2
  <2>6. own \in SUBSET Nat
      BY <2>4, <2>5
  <2>7. file \in FileSet
    <3> HIDE DEF own
    <3> QED
        BY <2>2, <2>4, <2>6 DEF FileSet
  <2>8. Len(results') = n /\ results'[n] = file /\ \A g \in 1..Len(results) : results'[g] = results[g]
    <3> HIDE DEF file
    <3> QED
        BY <2>3, <2>4, <2>7
  <2>9. TypeOK'
    <3>1. results' \in Seq(FileSet)
      <4> HIDE DEF file
      <4> QED
          BY <2>3, <2>4, <2>7
    <3>2. source' \in [prior : 0..Len(results'), limited : BOOLEAN]
        BY <1>0, <2>1, <2>8, <2>4 DEF TypeOK
    <3>3. row' \in [Cases -> Answers \cup {Failed}]
        BY <2>1
    <3> QED
        BY <2>1, <3>1, <3>2, <3>3 DEF TypeOK
  <2>10. FileFacts(results', n)
    <3>1. file.summary = Score(file.rows) /\ IsFiniteSet(file.rows)
        BY <2>2
    <3>2. file.subset \/ \A c \in Cases : Ran(c, file)
        BY <2>2 DEF Ran
    <3>3. CASE source.prior = 0
      <4>1. file.chain = {n}
          BY <3>3
      <4> HIDE DEF file
      <4> QED
          BY <2>8, <3>1, <3>2, <4>1 DEF FileFacts
    <3>4. CASE source.prior # 0
      <4>1. source.prior \in 1 .. n - 1 /\ results'[source.prior] = results[source.prior]
          BY <2>4, <2>8, <3>4
      <4>2. file.chain = results[source.prior].chain \cup {n}
          BY <3>4
      <4>3. file.limited \/ \A c \in FailedIn(results[source.prior]) : Ran(c, file)
        <5>1. ~source.limited => FailedIn(results[source.prior]) \subseteq selected
            BY <1>0, <2>1, <3>4 DEF CommandFacts
        <5>2. selected \subseteq Cases
            BY <1>0, <2>1 DEF TypeOK
        <5> QED
            BY <2>2, <5>1, <5>2 DEF Ran
      <4> HIDE DEF file
      <4> QED
          BY <2>8, <3>1, <3>2, <4>1, <4>2, <4>3
          DEF FileFacts
    <3> QED
        BY <3>3, <3>4
  <2>11. \A f \in DOMAIN results' : FileFacts(results', f)
    <3> TAKE f \in DOMAIN results'
    <3>1. DOMAIN results' = 1..n /\ DOMAIN results = 1..Len(results)
        BY <2>4, <2>8, <2>9 DEF TypeOK
    <3>2. CASE f = n
        BY <2>10, <3>2
    <3>3. CASE f # n
      <4>1. /\ f \in DOMAIN results /\ f \in Nat \ {0}
            /\ \A g \in 1..f : results'[g] = results[g]
          BY <2>4, <2>8, <3>1, <3>3
      <4> QED
          BY <1>0, <4>1, FileKept
    <3> QED
        BY <3>2, <3>3
  <2>12. CommandFacts'
      BY <2>1 DEF CommandFacts
  <2> QED
      BY <2>9, <2>11, <2>12 DEF IInv
<1>5. CASE ReportRaises
    BY <1>0, <1>5, <1>b DEF ReportRaises
<1>6. CASE UNCHANGED vars
    BY <1>0, <1>6, <1>b DEF vars, TypeOK
<1> QED
    BY <1>1, <1>2, <1>3, <1>4, <1>5, <1>6 DEF Next

\* The invariant holds of every command.
LEMMA InvHolds == Spec => []IInv
<1> QED
    BY InitInv, InvStep, PTL DEF Spec

-----------------------------------------------------------------------------
(* Scores *)

Answered(rows) == {r \in rows : r.answer # Failed}

WithGold(rows) == {r \in rows : r.answer # Failed /\ GoldClauses[r.id] # {}}

\* Cases without gold clauses move none of the scores of retrieval.
LEMMA GoldlessMoveNothing ==
    ASSUME NEW rows
    PROVE  /\ Score(rows).recall = Score(WithGold(rows)).recall
           /\ Score(rows).mrr = Score(WithGold(rows)).mrr
           /\ Score(rows).context_precision = Score(WithGold(rows)).context_precision
<1> DEFINE A == Answered(rows)
           B == Answered(WithGold(rows))
<1>1. A \in SUBSET rows /\ B = {r \in A : GoldClauses[r.id] # {}}
    BY DEF Answered, WithGold
<1>2. ASSUME NEW k \in {1, 3, 5, 8}
      PROVE  Mean([r \in A |-> RecallAt(r.answer.retrieved, GoldClauses[r.id], k)])
               = Mean([r \in B |-> RecallAt(r.answer.retrieved, GoldClauses[r.id], k)])
  <2> DEFINE f(S) == [r \in S |-> RecallAt(r.answer.retrieved, GoldClauses[r.id], k)]
             real(S) == Restrict(f(S), {r \in DOMAIN f(S) : f(S)[r] # None})
  <2>1. real(A) = real(B)
      BY <1>1 DEF RecallAt, Restrict
  <2>2. \A S : Mean(f(S)) = IF DOMAIN real(S) = {} THEN None
                            ELSE SumFunction(real(S)) \div Cardinality(DOMAIN real(S))
      BY DEF Mean
  <2> HIDE DEF real
  <2> QED
      BY <2>1, <2>2
<1>3. Mean([r \in A |-> ReciprocalRank(r.answer.retrieved, GoldClauses[r.id])])
        = Mean([r \in B |-> ReciprocalRank(r.answer.retrieved, GoldClauses[r.id])])
  <2> DEFINE f(S) == [r \in S |-> ReciprocalRank(r.answer.retrieved, GoldClauses[r.id])]
             real(S) == Restrict(f(S), {r \in DOMAIN f(S) : f(S)[r] # None})
  <2>1. real(A) = real(B)
      BY <1>1 DEF ReciprocalRank, Restrict
  <2>2. \A S : Mean(f(S)) = IF DOMAIN real(S) = {} THEN None
                            ELSE SumFunction(real(S)) \div Cardinality(DOMAIN real(S))
      BY DEF Mean
  <2> HIDE DEF real
  <2> QED
      BY <2>1, <2>2
<1>4. Mean([r \in A |-> ContextPrecision(r.answer.retrieved, GoldClauses[r.id])])
        = Mean([r \in B |-> ContextPrecision(r.answer.retrieved, GoldClauses[r.id])])
  <2> DEFINE f(S) == [r \in S |-> ContextPrecision(r.answer.retrieved, GoldClauses[r.id])]
             real(S) == Restrict(f(S), {r \in DOMAIN f(S) : f(S)[r] # None})
  <2>1. real(A) = real(B)
      BY <1>1 DEF ContextPrecision, Restrict
  <2>2. \A S : Mean(f(S)) = IF DOMAIN real(S) = {} THEN None
                            ELSE SumFunction(real(S)) \div Cardinality(DOMAIN real(S))
      BY DEF Mean
  <2> HIDE DEF real
  <2> QED
      BY <2>1, <2>2
<1> HIDE DEF A, B
<1>5. Score(rows).mrr = Score(WithGold(rows)).mrr
    BY <1>3 DEF Score, A, B, Answered
<1>6. Score(rows).context_precision = Score(WithGold(rows)).context_precision
    BY <1>4 DEF Score, A, B, Answered
<1>7. Score(rows).recall = Score(WithGold(rows)).recall
    BY <1>2 DEF Score, A, B, Answered
<1> QED
    BY <1>5, <1>6, <1>7

\* What an out-of-corpus question or an error does to retrieval: nothing, whatever
\* is asked of the retriever beside it.
THEOREM GoldlessNeverAveraged == Spec => []GoldlessLeftOut
<1>1. IInv => GoldlessLeftOut
  <2> SUFFICES ASSUME IInv, NEW file \in Files
               PROVE  /\ file.summary.recall = Score(WithGold(file.rows)).recall
                      /\ file.summary.mrr = Score(WithGold(file.rows)).mrr
                      /\ file.summary.context_precision
                           = Score(WithGold(file.rows)).context_precision
      BY DEF GoldlessLeftOut, WithGold
  <2>1. file.summary = Score(file.rows)
      BY DEF IInv, FileFacts, Files, ToSet
  <2> QED
      BY <2>1, GoldlessMoveNothing
<1> QED
    BY <1>1, InvHolds, PTL

\* What a set holds beside a part of it.
LEMMA PartAndRest ==
    ASSUME NEW A, IsFiniteSet(A), NEW T \in SUBSET A
    PROVE  /\ IsFiniteSet(T) /\ IsFiniteSet(A \ T)
           /\ Cardinality(T) \in Nat /\ Cardinality(A \ T) \in Nat
           /\ Cardinality(A) = Cardinality(T) + Cardinality(A \ T)
<1>1. IsFiniteSet(T) /\ IsFiniteSet(A \ T)
    BY FS_Subset
<1>2. Cardinality(T) \in Nat /\ Cardinality(A \ T) \in Nat
    BY <1>1, FS_CardinalityType
<1>3. T \cup (A \ T) = A /\ T \cap (A \ T) = {}
    OBVIOUS
<1>4. Cardinality(T \cap (A \ T)) = 0
    BY <1>3, FS_EmptySet, Zenon
<1>5. Cardinality(T \cup (A \ T)) = Cardinality(T) + Cardinality(A \ T) - Cardinality(T \cap (A \ T))
    BY <1>1, FS_Union
<1>6. Cardinality(A) = Cardinality(T) + Cardinality(A \ T) - Cardinality(T \cap (A \ T))
    BY <1>3, <1>5
<1> QED
    BY <1>1, <1>2, <1>4, <1>6

\* Answers that are not right are wrong in one of three ways, and those that
\* pass over a required review in one of two.
LEMMA AnswersAreSorted ==
    ASSUME NEW A \in SUBSET [id : Cases, answer : Answers], IsFiniteSet(A)
    PROVE  LET Wrongly(v) == Confusion(A, Verdicts \ {v}, {v})
           IN  /\ Cardinality(A) = Cardinality({r \in A : Right(r)})
                    + Wrongly("COMPLIANT") + Wrongly("NON_COMPLIANT") + Wrongly("NEEDS_REVIEW")
               /\ Confusion(A, {"NEEDS_REVIEW"}, Verdicts \ {"NEEDS_REVIEW"})
                    <= Wrongly("COMPLIANT") + Wrongly("NON_COMPLIANT")
<1> DEFINE Said(T, v) == {r \in T : r.answer.verdict = v}
           right == {r \in A : Right(r)}
           wrong == A \ right
           definite == wrong \ Said(wrong, "NEEDS_REVIEW")
           missed == {r \in A : GoldVerdict[r.id] \in {"NEEDS_REVIEW"}
                                /\ r.answer.verdict \in Verdicts \ {"NEEDS_REVIEW"}}
<1>1. \A r \in A : r.answer.verdict \in Verdicts /\ GoldVerdict[r.id] \in Verdicts
    BY EvalAssumption
<1>2. \A v \in Verdicts : Confusion(A, Verdicts \ {v}, {v}) = Cardinality(Said(wrong, v))
  <2> TAKE v \in Verdicts
  <2>1. {r \in A : GoldVerdict[r.id] \in Verdicts \ {v} /\ r.answer.verdict \in {v}} = Said(wrong, v)
      BY <1>1 DEF Right
  <2> QED
      BY <2>1 DEF Confusion
<1>3. /\ right \in SUBSET A /\ Said(wrong, "NEEDS_REVIEW") \in SUBSET wrong
      /\ Said(wrong, "COMPLIANT") \in SUBSET definite
      /\ definite \ Said(wrong, "COMPLIANT") = Said(wrong, "NON_COMPLIANT")
      /\ missed \in SUBSET definite
    BY <1>1 DEF Verdicts, Right
<1> HIDE DEF right, wrong, definite, Said, missed
<1>4. /\ IsFiniteSet(wrong) /\ Cardinality(right) \in Nat
      /\ Cardinality(A) = Cardinality(right) + Cardinality(wrong)
    BY <1>3, PartAndRest DEF wrong
<1>5. /\ IsFiniteSet(definite) /\ Cardinality(Said(wrong, "NEEDS_REVIEW")) \in Nat
      /\ Cardinality(wrong) = Cardinality(Said(wrong, "NEEDS_REVIEW")) + Cardinality(definite)
    BY <1>3, <1>4, PartAndRest DEF definite
<1>6. /\ Cardinality(Said(wrong, "COMPLIANT")) \in Nat
      /\ Cardinality(Said(wrong, "NON_COMPLIANT")) \in Nat
      /\ Cardinality(definite) = Cardinality(Said(wrong, "COMPLIANT"))
                                + Cardinality(Said(wrong, "NON_COMPLIANT"))
    BY <1>3, <1>5, PartAndRest
<1>7. Cardinality(missed) <= Cardinality(definite)
    BY <1>3, <1>5, FS_Subset
<1>8. Confusion(A, {"NEEDS_REVIEW"}, Verdicts \ {"NEEDS_REVIEW"}) = Cardinality(missed)
    BY DEF Confusion, missed
<1>9. \A v \in {"COMPLIANT", "NON_COMPLIANT", "NEEDS_REVIEW"} :
         Confusion(A, Verdicts \ {v}, {v}) = Cardinality(Said(wrong, v))
    BY <1>2 DEF Verdicts
<1> QED
    BY <1>4, <1>5, <1>6, <1>7, <1>8, <1>9 DEF right

\* The bands meet without overlap: an answer of any confidence is in one.
LEMMA BandsPartition ==
    ASSUME NEW A \in SUBSET [id : Cases, answer : Answers], IsFiniteSet(A)
    PROVE  LET found == Buckets(A)
           IN  SumFunction([b \in DOMAIN found |-> found[b].rows]) = Cardinality(A)
<1> DEFINE bands == 1..5
           parts == [b \in bands |-> Band(A, b)]
<1>0. Len(Edges) - 1 = 5
    BY DEF Edges
<1>1. DOMAIN Buckets(A) = bands /\ \A b \in bands : Buckets(A)[b].rows = Cardinality(parts[b])
    BY <1>0 DEF Buckets
<1>2. /\ Edges[1] = 0 /\ Edges[2] = 70 /\ Edges[3] = 80 /\ Edges[4] = 90
      /\ Edges[5] = 95 /\ Edges[6] = 101
    BY DEF Edges
<1>3. \A r \in A : r.answer.confidence \in 0..100
    BY EvalAssumption
<1>4. bands = {1, 2, 3, 4, 5}
    OBVIOUS
<1>5. \A x, y \in bands : x # y => parts[x] \cap parts[y] = {}
    BY <1>2, <1>3, <1>4 DEF Band
<1>6. UNION {parts[b] : b \in bands} = A
  <2>1. ASSUME NEW r \in A PROVE \E b \in bands : r \in parts[b]
    <3>1. PICK n \in 0..100 : r.answer.confidence = n
        BY <1>3
    <3>2. n < 70 \/ (70 <= n /\ n < 80) \/ (80 <= n /\ n < 90) \/ (90 <= n /\ n < 95) \/ 95 <= n
        BY <3>1
    <3>3. r \in parts[1] \/ r \in parts[2] \/ r \in parts[3] \/ r \in parts[4] \/ r \in parts[5]
        BY <1>2, <3>1, <3>2 DEF Band
    <3> QED
        BY <1>4, <3>3
  <2>2. \A b \in bands : parts[b] \subseteq A
      BY DEF Band
  <2> HIDE DEF parts
  <2> QED
      BY <2>1, <2>2
<1>7. \A b \in bands : IsFiniteSet(parts[b])
  <2>1. \A b \in bands : parts[b] \in SUBSET A
      BY DEF Band
  <2> HIDE DEF parts
  <2> QED
      BY <2>1, FS_Subset
<1>8. IsFiniteSet(bands)
  <2>1. PICK last \in Int : last = 5
      OBVIOUS
  <2>2. IsFiniteSet(1..last)
      BY FS_Interval
  <2> QED
      BY <2>1, <2>2
<1> HIDE DEF parts, bands
<1>9. SumFunction([b \in bands |-> Cardinality(parts[b])]) = Cardinality(UNION {parts[b] : b \in bands})
    BY <1>5, <1>7, <1>8, SumOfParts
<1>10. [b \in DOMAIN Buckets(A) |-> Buckets(A)[b].rows] = [b \in bands |-> Cardinality(parts[b])]
    BY <1>1
<1> QED
    BY <1>6, <1>9, <1>10

\* What a score holds, field by field.
LEMMA ScoreOf ==
    ASSUME NEW rows
    PROVE  LET A == Answered(rows)
               Wrongly(v) == Confusion(A, Verdicts \ {v}, {v})
           IN  /\ Score(rows).total = Cardinality(rows)
               /\ Score(rows).errors = Cardinality(rows \ A)
               /\ Score(rows).correct = Cardinality({r \in A : Right(r)})
               /\ Score(rows).calibration = Buckets(A)
               /\ Score(rows).false_compliant = Wrongly("COMPLIANT")
               /\ Score(rows).false_non_compliant = Wrongly("NON_COMPLIANT")
               /\ Score(rows).over_escalation = Wrongly("NEEDS_REVIEW")
               /\ Score(rows).missed_escalation
                    = Confusion(A, {"NEEDS_REVIEW"}, Verdicts \ {"NEEDS_REVIEW"})
<1>1. Score(rows).total = Cardinality(rows) /\ Score(rows).errors = Cardinality(rows \ Answered(rows))
    BY DEF Score, Answered
<1>2. Score(rows).correct = Cardinality({r \in Answered(rows) : Right(r)})
    BY DEF Score, Answered
<1>3. Score(rows).calibration = Buckets(Answered(rows))
    BY DEF Score, Answered
<1>4. Score(rows).false_compliant = Confusion(Answered(rows), Verdicts \ {"COMPLIANT"}, {"COMPLIANT"})
    BY DEF Score, Answered
<1>5. Score(rows).false_non_compliant
        = Confusion(Answered(rows), Verdicts \ {"NON_COMPLIANT"}, {"NON_COMPLIANT"})
    BY DEF Score, Answered
<1>6. Score(rows).over_escalation
        = Confusion(Answered(rows), Verdicts \ {"NEEDS_REVIEW"}, {"NEEDS_REVIEW"})
    BY DEF Score, Answered
<1>7. Score(rows).missed_escalation
        = Confusion(Answered(rows), {"NEEDS_REVIEW"}, Verdicts \ {"NEEDS_REVIEW"})
    BY DEF Score, Answered
<1> QED
    BY <1>1, <1>2, <1>3, <1>4, <1>5, <1>6, <1>7

\* Every row counts once in the verdicts and once in the calibration, so that the
\* rates of a report are over the same cases.
THEOREM RowsCountOnce == Spec => []CountedOnce
<1>1. IInv => CountedOnce
  <2> SUFFICES ASSUME IInv, NEW file \in Files
               PROVE  LET s == file.summary IN
                  /\ s.total = s.errors + s.correct
                       + s.false_compliant + s.false_non_compliant + s.over_escalation
                  /\ s.missed_escalation <= s.false_compliant + s.false_non_compliant
                  /\ s.total = s.errors
                       + SumFunction([b \in DOMAIN s.calibration |-> s.calibration[b].rows])
      BY DEF CountedOnce
  <2> DEFINE rows == file.rows
             A == Answered(rows)
  <2>1. file.summary = Score(rows) /\ IsFiniteSet(rows) /\ file \in FileSet
      BY DEF IInv, FileFacts, Files, ToSet, TypeOK
  <2>2. rows \in SUBSET RowSet
      BY <2>1 DEF FileSet
  <2>3. A \in SUBSET rows /\ A \in SUBSET [id : Cases, answer : Answers]
      BY <2>2 DEF Answered, RowSet
  <2> HIDE DEF rows, A
  <2>4. /\ IsFiniteSet(A) /\ Cardinality(A) \in Nat /\ Cardinality(rows \ A) \in Nat
        /\ Cardinality(rows) = Cardinality(A) + Cardinality(rows \ A)
      BY <2>1, <2>3, PartAndRest
  <2> DEFINE Wrongly(v) == Confusion(A, Verdicts \ {v}, {v})
             correct == Cardinality({r \in A : Right(r)})
  <2>5. /\ Cardinality(A) = correct + Wrongly("COMPLIANT") + Wrongly("NON_COMPLIANT") + Wrongly("NEEDS_REVIEW")
        /\ Confusion(A, {"NEEDS_REVIEW"}, Verdicts \ {"NEEDS_REVIEW"})
             <= Wrongly("COMPLIANT") + Wrongly("NON_COMPLIANT")
      BY <2>3, <2>4, AnswersAreSorted
  <2>6. \A v : Wrongly(v) \in Nat
    <3> TAKE v
    <3> DEFINE said == {r \in A : GoldVerdict[r.id] \in Verdicts \ {v} /\ r.answer.verdict \in {v}}
    <3>1. said \in SUBSET A
        OBVIOUS
    <3> HIDE DEF said
    <3>2. Cardinality(said) \in Nat
        BY <2>4, <3>1, PartAndRest
    <3> QED
        BY <3>2 DEF Confusion, said
  <2>7. correct \in Nat
      BY <2>4, PartAndRest
  <2>8. SumFunction([b \in DOMAIN Buckets(A) |-> Buckets(A)[b].rows]) = Cardinality(A)
      BY <2>3, <2>4, BandsPartition
  <2> HIDE DEF Wrongly, correct
  <2>9. /\ file.summary.total = Cardinality(rows) /\ file.summary.errors = Cardinality(rows \ A)
        /\ file.summary.correct = correct /\ file.summary.calibration = Buckets(A)
        /\ file.summary.false_compliant = Wrongly("COMPLIANT")
        /\ file.summary.false_non_compliant = Wrongly("NON_COMPLIANT")
        /\ file.summary.over_escalation = Wrongly("NEEDS_REVIEW")
        /\ file.summary.missed_escalation
             = Confusion(A, {"NEEDS_REVIEW"}, Verdicts \ {"NEEDS_REVIEW"})
      BY <2>1, ScoreOf DEF A, Wrongly, correct
  <2> QED
      BY <2>4, <2>5, <2>6, <2>7, <2>8, <2>9
<1> QED
    BY <1>1, InvHolds, PTL

-----------------------------------------------------------------------------
(* Re-runs *)

\* The first and the last of some files.
LEMMA FirstAndLast ==
    ASSUME NEW n \in Nat, NEW T \in SUBSET (1..n), T # {}
    PROVE  /\ Min(T) \in T /\ \A x \in T : Min(T) <= x
           /\ Max(T) \in T /\ \A x \in T : Max(T) >= x
<1>0. \A x \in T : x \in Nat
    OBVIOUS
<1>1. IsFiniteSet(T)
  <2>1. IsFiniteSet(1..n)
      BY FS_Interval
  <2> QED
      BY <2>1, FS_Subset
<1>2. \E x \in T : \A y \in T : x <= y
    BY <1>0, LeastNatural
<1>3. \E x \in T : \A y \in T : x >= y
  <2> DEFINE same == [x \in T |-> x]
  <2>1. same \in [T -> Int]
      BY <1>0
  <2>2. \E x \in T : \A y \in T : same[x] >= same[y]
    <3> HIDE DEF same
    <3> QED
        BY <1>1, <2>1, GreatestValue
  <2> QED
      BY <2>2
<1> QED
    BY <1>2, <1>3 DEF Min, Max

\* NothingForgotten, of one file.
KeepsTrack(f) ==
    LET chain == results[f].chain
    IN  ~results[Min(chain)].subset /\ (\A g \in chain : ~results[g].limited)
        => \A c \in Cases :
             LET latest == Max({g \in chain : Ran(c, results[g])})
             IN  latest = f \/ RightIn(c, results[latest])

\* The chain of a file is among the files up to it.
LEMMA ChainBounded ==
    ASSUME IInv, NEW f \in DOMAIN results
    PROVE  f \in results[f].chain /\ results[f].chain \subseteq 1..f
<1> DEFINE Loose == {g \in DOMAIN results :
                        ~(g \in results[g].chain /\ results[g].chain \subseteq 1..g)}
<1>1. DOMAIN results \subseteq Nat \ {0}
    BY DEF IInv, TypeOK
<1>2. ASSUME Loose # {} PROVE FALSE
  <2>1. PICK g \in Loose : \A h \in Loose : g <= h
    <3>1. Loose \in SUBSET Nat
        BY <1>1
    <3> HIDE DEF Loose
    <3> QED
        BY <1>2, <3>1, LeastNatural
  <2>2. g \in DOMAIN results /\ g \in Nat \ {0} /\ FileFacts(results, g)
      BY <1>1, <2>1 DEF IInv
  <2>3. results[g].chain # {g}
      BY <2>1, <2>2
  <2>4. PICK h \in 1 .. g - 1 : results[g].chain = results[h].chain \cup {g}
      BY <2>2, <2>3 DEF FileFacts
  <2>5. h \in DOMAIN results /\ h \notin Loose
    <3>1. DOMAIN results = 1..Len(results) /\ Len(results) \in Nat
        BY DEF IInv, TypeOK
    <3> HIDE DEF Loose
    <3> QED
        BY <2>1, <2>2, <3>1
  <2>6. results[h].chain \subseteq 1..h
      BY <2>5
  <2>7. results[g].chain \subseteq 1..g
      BY <2>2, <2>4, <2>6
  <2> QED
      BY <2>1, <2>4, <2>7
<1> QED
    BY <1>2

\* A file that starts a chain keeps track when it ran every case.
LEMMA StartKeepsTrack ==
    ASSUME IInv, NEW f \in DOMAIN results, results[f].chain = {f}
    PROVE  KeepsTrack(f)
<1>1. f \in Nat \ {0} /\ FileFacts(results, f)
    BY DEF IInv, TypeOK
<1> SUFFICES ASSUME ~results[Min({f})].subset, NEW c \in Cases
             PROVE  Max({g \in {f} : Ran(c, results[g])}) = f
    BY DEF KeepsTrack
<1>2. Min({f}) = f
    BY <1>1, FirstAndLast
<1>3. Ran(c, results[f])
    BY <1>1, <1>2 DEF FileFacts
<1>4. {g \in {f} : Ran(c, results[g])} = {f}
    BY <1>3
<1>5. Max({f}) = f
    BY <1>1, FirstAndLast
<1> QED
    BY <1>4, <1>5

\* A re-run keeps track of what the file it re-runs kept track of.
LEMMA RerunKeepsTrack ==
    ASSUME IInv, NEW f \in DOMAIN results, NEW g \in 1 .. f - 1,
           results[f].chain = results[g].chain \cup {f},
           results[f].limited \/ \A c \in FailedIn(results[g]) : Ran(c, results[f]),
           KeepsTrack(g)
    PROVE  KeepsTrack(f)
<1> DEFINE old == results[g].chain
           chain == results[f].chain
<1>1. /\ f \in Nat \ {0} /\ g \in Nat \ {0} /\ g < f
      /\ g \in DOMAIN results
  <2>1. DOMAIN results = 1..Len(results) /\ Len(results) \in Nat
      BY DEF IInv, TypeOK
  <2> QED
      BY <2>1
<1>2. g \in old /\ old \subseteq 1..g
    BY <1>1, ChainBounded
<1>3. chain = old \cup {f} /\ chain \in SUBSET (1..f) /\ old \in SUBSET (1..g)
    BY <1>1, <1>2
<1>4. Min(chain) = Min(old) /\ Min(old) \in old
  <2>1. /\ Min(chain) \in chain /\ \A x \in chain : Min(chain) <= x
        /\ Min(old) \in old /\ \A x \in old : Min(old) <= x
    <3> HIDE DEF chain, old
    <3> QED
        BY <1>1, <1>2, <1>3, FirstAndLast
  <2> HIDE DEF chain, old
  <2>2. \A x \in old : x \in Nat /\ x < f
      BY <1>1, <1>3
  <2>3. Min(chain) # f
    <3>1. g \in chain
        BY <1>2, <1>3
    <3>2. Min(chain) <= g
        BY <2>1, <3>1
    <3> QED
        BY <1>1, <3>2
  <2>4. Min(chain) \in old
      BY <1>3, <2>1, <2>3
  <2>5. Min(chain) <= Min(old) /\ Min(old) <= Min(chain)
      BY <1>3, <2>1, <2>4
  <2> QED
      BY <2>1, <2>2, <2>4, <2>5
<1> SUFFICES ASSUME ~results[Min(chain)].subset, \A h \in chain : ~results[h].limited,
                    NEW c \in Cases
             PROVE  LET latest == Max({h \in chain : Ran(c, results[h])})
                    IN  latest = f \/ RightIn(c, results[latest])
    BY DEF KeepsTrack
<1> DEFINE before == {h \in old : Ran(c, results[h])}
           now == {h \in chain : Ran(c, results[h])}
<1>5. Max(before) = g \/ RightIn(c, results[Max(before)])
    BY <1>3, <1>4 DEF KeepsTrack
<1>6. CASE Ran(c, results[f])
  <2>1. f \in now /\ now \in SUBSET (1..f)
      BY <1>3, <1>6
  <2>2. Max(now) \in now /\ \A h \in now : Max(now) >= h
    <3> HIDE DEF now
    <3> QED
        BY <1>1, <2>1, FirstAndLast
  <2>3. Max(now) = f
    <3> HIDE DEF now
    <3> QED
        BY <1>1, <2>1, <2>2
  <2> QED
      BY <2>3
<1>7. CASE ~Ran(c, results[f])
  <2>1. now = before
      BY <1>3, <1>7
  <2>2. Min(old) \in before
    <3>1. FileFacts(results, Min(old))
      <4>1. Min(old) \in DOMAIN results
        <5>1. DOMAIN results = 1..Len(results) /\ Len(results) \in Nat
            BY DEF IInv, TypeOK
        <5> HIDE DEF old
        <5> QED
            BY <1>1, <1>3, <1>4, <5>1
      <4> QED
          BY <4>1 DEF IInv
    <3> QED
        BY <1>4, <3>1 DEF FileFacts
  <2>3. Max(before) \in before
    <3>1. before \in SUBSET (1..g)
        BY <1>3
    <3> HIDE DEF before
    <3> QED
        BY <1>1, <2>2, <3>1, FirstAndLast
  <2>4. CASE Max(before) = g
    <3>1. Ran(c, results[g])
        BY <2>3, <2>4
    <3>2. PICK r \in results[g].rows : r.id = c
        BY <3>1 DEF Ran
    <3>3. c \notin FailedIn(results[g])
        BY <1>3, <1>7
    <3>4. r.answer # Failed /\ Right(r)
        BY <3>2, <3>3 DEF FailedIn
    <3>5. RightIn(c, results[g])
        BY <3>2, <3>4 DEF RightIn
    <3> QED
        BY <2>1, <2>4, <3>5
  <2> QED
      BY <1>5, <2>1, <2>4
<1> QED
    BY <1>6, <1>7

\* However many re-runs follow one another, no case that came out wrong or raised
\* is lost from sight: what the last file does not hold was right when it last ran.
THEOREM NoCaseIsForgotten == Spec => []NothingForgotten
<1>1. IInv => NothingForgotten
  <2> SUFFICES ASSUME IInv PROVE \A f \in DOMAIN results : KeepsTrack(f)
      BY DEF NothingForgotten, KeepsTrack
  <2> DEFINE Lost == {f \in DOMAIN results : ~KeepsTrack(f)}
  <2>1. DOMAIN results = 1..Len(results) /\ Len(results) \in Nat
      BY DEF IInv, TypeOK
  <2>2. ASSUME Lost # {} PROVE FALSE
    <3>1. PICK f \in Lost : \A g \in Lost : f <= g
      <4>1. Lost \in SUBSET Nat
          BY <2>1
      <4> HIDE DEF Lost
      <4> QED
          BY <2>2, <4>1, LeastNatural
    <3>2. f \in DOMAIN results /\ f \in Nat /\ ~KeepsTrack(f) /\ FileFacts(results, f)
        BY <2>1, <3>1 DEF IInv
    <3>3. PICK g \in 1 .. f - 1 :
             /\ results[f].chain = results[g].chain \cup {f}
             /\ results[f].limited \/ \A c \in FailedIn(results[g]) : Ran(c, results[f])
        BY <3>2, StartKeepsTrack DEF FileFacts
    <3>4. KeepsTrack(g)
      <4>1. g \in DOMAIN results /\ g < f
          BY <2>1, <3>2
      <4> QED
          BY <2>1, <3>1, <4>1
    <3> QED
        BY <3>2, <3>3, <3>4, RerunKeepsTrack
  <2> QED
      BY <2>2
<1> QED
    BY <1>1, InvHolds, PTL

=============================================================================
