---------------------------------- MODULE Eval ----------------------------------
(***************************************************************************)
(* The evaluation harness, eval/run_eval.py with eval/metrics.py: a        *)
(* command selects cases of the test set, assesses them a few at a time,   *)
(* scores the rows, prints a report and writes a results file, which a     *)
(* later command may take the failed cases from.                           *)
(*                                                                         *)
(* A row is what scoring reads of an assessment: its verdict, confidence   *)
(* in percent and the clauses considered.  Rows carry the id of their case *)
(* and are kept as a set: nothing reads their order, which is that of the  *)
(* test set.  Rates are in thousandths, the precision of the report.       *)
(* Latency, tokens, the escalation codes and the printed wording are left  *)
(* out.                                                                    *)
(***************************************************************************)
EXTENDS Integers, Sequences, FiniteSets, FiniteSetsExt, SequencesExt, Functions

CONSTANTS
    TestSet,     \* the cases of testset.yaml, in order
    GoldVerdict, \* gold_verdict of each case
    GoldClauses, \* gold_clauses of each case
    Answers,     \* what an assessment can come to
    Failed,      \* the row of a case whose assessment raised
    None,
    Concurrency, \* --concurrency
    OnlySets,    \* values of --only; {} when it is omitted
    Limits,      \* values of --limit; 0 when it is omitted
    MaxRuns      \* bound: commands

Cases == ToSet(TestSet)

Verdicts == {"COMPLIANT", "NON_COMPLIANT", "NEEDS_REVIEW"}

ASSUME EvalAssumption ==
    /\ TestSet \in Seq(Cases) /\ IsInjective(TestSet)
    /\ GoldVerdict \in [Cases -> Verdicts] /\ DOMAIN GoldClauses = Cases
    /\ Concurrency \in Nat \ {0}
    /\ OnlySets \subseteq SUBSET Cases
    /\ Limits \subseteq Nat /\ MaxRuns \in Nat
    /\ Failed \notin Answers
    /\ \A chosen \in SUBSET Cases : chosen # None
    /\ \A answer \in Answers : answer.verdict \in Verdicts /\ answer.confidence \in 0..100

VARIABLES
    runs,     \* commands given so far
    selected, \* cases of the command that runs; None when none does
    progress, \* where each case is: "queued", "running" or "done"
    row,      \* the row of each case that is done
    results,  \* the results files, oldest first
    source    \* history: the file --rerun-failed named (0 for none), and whether
              \* the selection was cut by --limit

vars == <<runs, selected, progress, row, results, source>>

Init ==
    /\ runs = 0
    /\ selected = None
    /\ progress = [c \in Cases |-> "done"]
    /\ row = [c \in Cases |-> Failed]
    /\ results = <<>>
    /\ source = [prior |-> 0, limited |-> FALSE]

-----------------------------------------------------------------------------
(* eval/metrics.py *)

RecallAt(retrieved, gold, k) ==
    LET top == ToSet(SubSeq(retrieved, 1, Min({k, Len(retrieved)})))
    IN  IF gold = {} THEN None
        ELSE (1000 * Cardinality(gold \cap top)) \div Cardinality(gold)

\* The places of gold clauses among those retrieved.
Hits(retrieved, gold) == {i \in DOMAIN retrieved : retrieved[i] \in gold}

\* Mutant of ReciprocalRank: a case without gold clauses counts as a miss.
ReciprocalRankOfAll(retrieved, gold) ==
    LET found == Hits(retrieved, gold)
    IN  IF found = {} THEN 0 ELSE 1000 \div Min(found)

ReciprocalRank(retrieved, gold) ==
    LET found == Hits(retrieved, gold)
    IN  IF gold = {} THEN None
        ELSE IF found = {} THEN 0 ELSE 1000 \div Min(found)

ContextPrecision(retrieved, gold) ==
    IF gold = {} \/ retrieved = <<>> THEN None
    ELSE (1000 * Cardinality(Hits(retrieved, gold))) \div Len(retrieved)

\* mean() of the values of a metric: where it is None it counts neither way.
Mean(values) ==
    LET real == Restrict(values, {r \in DOMAIN values : values[r] # None})
    IN  IF DOMAIN real = {} THEN None ELSE SumFunction(real) \div Cardinality(DOMAIN real)

\* Mutant of Edges: the last band ends at a confidence of 1.
EdgesClosed == <<0, 70, 80, 90, 95, 100>>

Edges == <<0, 70, 80, 90, 95, 101>>

Right(r) == r.answer.verdict = GoldVerdict[r.id]

Band(answered, b) ==
    {r \in answered : Edges[b] <= r.answer.confidence /\ r.answer.confidence < Edges[b + 1]}

\* calibration_buckets: how many rows of each band, and how many of them right.
Buckets(answered) ==
    [b \in 1..Len(Edges) - 1 |->
        [rows  |-> Cardinality(Band(answered, b)),
         right |-> Cardinality({r \in Band(answered, b) : Right(r)})]]

\* VerdictScores.confusion: how many answers were `actual` where `gold` was due.
Confusion(answered, gold, actual) ==
    Cardinality({r \in answered : GoldVerdict[r.id] \in gold /\ r.answer.verdict \in actual})

\* score(): a row that raised is counted, and takes part in nothing else.
Score(rows) ==
    LET answered == {r \in rows : r.answer # Failed}
        Of(Metric(_, _)) == [r \in answered |-> Metric(r.answer.retrieved, GoldClauses[r.id])]
        WronglySaid(v) == Confusion(answered, Verdicts \ {v}, {v})
    IN  [total   |-> Cardinality(rows),
         errors  |-> Cardinality(rows \ answered),
         correct |-> Cardinality({r \in answered : Right(r)}),
         false_compliant     |-> WronglySaid("COMPLIANT"),
         false_non_compliant |-> WronglySaid("NON_COMPLIANT"),
         over_escalation     |-> WronglySaid("NEEDS_REVIEW"),
         missed_escalation   |-> Confusion(answered, {"NEEDS_REVIEW"}, Verdicts \ {"NEEDS_REVIEW"}),
         recall |-> [k \in {1, 3, 5, 8} |-> Mean(Of(LAMBDA s, g : RecallAt(s, g, k)))],
         mrr    |-> Mean(Of(ReciprocalRank)),
         context_precision |-> Mean(Of(ContextPrecision)),
         calibration |-> Buckets(answered)]

-----------------------------------------------------------------------------
(* eval/run_eval.py *)

\* Mutant of FailedIn: a case that raised has no verdict to be wrong.
FailedInAnswered(file) == {r.id : r \in {q \in file.rows : q.answer # Failed /\ ~Right(q)}}

\* --rerun-failed: the cases of a results file that raised or came out wrong.
FailedIn(file) == {r.id : r \in {q \in file.rows : q.answer = Failed \/ ~Right(q)}}

\* Both options together select the union; an empty --only is no option.
Selection(prior, only) ==
    IF prior = 0 /\ only = {} THEN Cases
    ELSE only \cup IF prior = 0 THEN {} ELSE FailedIn(results[prior])

Place(c) == CHOOSE i \in DOMAIN TestSet : TestSet[i] = c

\* cases[: limit], in the order of the test set; 0 is no limit.
Limited(chosen, limit) ==
    {c \in chosen : limit = 0 \/ Cardinality({d \in chosen : Place(d) < Place(c)}) < limit}

Command ==
    /\ selected = None
    /\ runs < MaxRuns
    /\ \E prior \in 0..Len(results), only \in OnlySets, limit \in Limits :
         /\ selected' = Limited(Selection(prior, only), limit)
         /\ source' = [prior |-> prior, limited |-> limit # 0]
    /\ progress' = [c \in Cases |-> IF c \in selected' THEN "queued" ELSE "done"]
    /\ runs' = runs + 1
    /\ UNCHANGED <<row, results>>

At(where) == {c \in Cases : progress[c] = where}

\* The semaphore lets the tasks in in the order gather() made them.
StartCase ==
    /\ selected # None
    /\ Cardinality(At("running")) < Concurrency
    /\ \E next \in At("queued") :
         /\ \A c \in At("queued") : Place(next) <= Place(c)
         /\ progress' = [progress EXCEPT ![next] = "running"]
    /\ UNCHANGED <<runs, selected, row, results, source>>

\* run_case: an assessment returns, or raises and becomes an error row.
EndCase(c) ==
    /\ progress[c] = "running"
    /\ progress' = [progress EXCEPT ![c] = "done"]
    /\ \E answer \in Answers \cup {Failed} : row' = [row EXCEPT ![c] = answer]
    /\ UNCHANGED <<runs, selected, results, source>>

Finished == selected # None /\ At("done") = Cases

Rows == {[id |-> c, answer |-> row[c]] : c \in selected}

\* report() formats mrr and context_precision as numbers.
Reported(s) == s.mrr # None /\ s.context_precision # None

\* `chain` and `limited` are history: the files this one goes back to by
\* --rerun-failed, itself included, and whether --limit cut its selection.
Write ==
    /\ Finished
    /\ Reported(Score(Rows))
    /\ results' = Append(results,
         [rows |-> Rows, summary |-> Score(Rows), subset |-> selected # Cases,
          limited |-> source.limited,
          chain   |-> {Len(results) + 1} \cup
                      IF source.prior = 0 THEN {} ELSE results[source.prior].chain])
    /\ selected' = None
    /\ row' = [c \in Cases |-> Failed]
    /\ UNCHANGED <<runs, progress, source>>

\* report() raises: the command ends before the results are written.
ReportRaises ==
    /\ Finished
    /\ ~Reported(Score(Rows))
    /\ selected' = None
    /\ row' = [c \in Cases |-> Failed]
    /\ UNCHANGED <<runs, progress, results, source>>

Next == Command \/ StartCase \/ (\E c \in Cases : EndCase(c)) \/ Write \/ ReportRaises

Spec == Init /\ [][Next]_vars

-----------------------------------------------------------------------------
(* Properties *)

Files == ToSet(results)

\* Every row of a file is counted once: as an error, as correct or in one of the
\* three ways to be wrong, and an answered one in one band of confidence.  An
\* answer given where a human was required is a false one.
CountedOnce ==
    \A file \in Files : LET s == file.summary IN
        /\ s.total = s.errors + s.correct
                     + s.false_compliant + s.false_non_compliant + s.over_escalation
        /\ s.missed_escalation <= s.false_compliant + s.false_non_compliant
        /\ s.total = s.errors
                     + SumFunction([b \in DOMAIN s.calibration |-> s.calibration[b].rows])

\* recall_at_k: "an out-of-corpus question is not a retrieval failure and must not
\* be averaged in as a zero".  Cases without gold clauses, and cases that raised,
\* move none of the retrieval scores, whichever cases ran beside them.
GoldlessLeftOut ==
    \A file \in Files :
        LET gold == Score({r \in file.rows : r.answer # Failed /\ GoldClauses[r.id] # {}})
        IN  /\ file.summary.recall = gold.recall
            /\ file.summary.mrr = gold.mrr
            /\ file.summary.context_precision = gold.context_precision

Ran(c, file) == \E r \in file.rows : r.id = c

RightIn(c, file) == \E r \in file.rows : r.id = c /\ r.answer # Failed /\ Right(r)

\* "Run only the cases that failed in a previous run": where a run of the whole
\* test set is followed by re-runs of what failed, each from the file before it,
\* a case that is not in the last file was answered right the last time it ran,
\* whatever --only adds and whichever commands came to nothing.
NothingForgotten ==
    \A f \in DOMAIN results :
        LET chain == results[f].chain
        IN  ~results[Min(chain)].subset /\ (\A g \in chain : ~results[g].limited)
            => \A c \in Cases :
                 LET latest == Max({g \in chain : Ran(c, results[g])})
                 IN  latest = f \/ RightIn(c, results[latest])

=============================================================================
