# Verification project: Shari'ah compliance agent

TLA+ models, TLC configurations and TLAPS proofs for the service in
`src/src/sharia_agent`: an asyncio/FastAPI program that takes a product proposal,
retrieves clauses of the AAOIFI standards, lets a language model draft a finding,
and maps the draft onto a verdict through deterministic guardrails. Paths below
are relative to `src/src/sharia_agent` unless they start with `src/`.

1. [Inventory of the system](#1-inventory-of-the-system)
2. [Plan](#2-plan)
3. [The modules](#3-the-modules)
4. [What the runs check](#4-what-the-runs-check)
5. [Fairness](#5-fairness)
6. [What is proved](#6-what-is-proved)
7. [Findings](#7-findings)
8. [What is not modelled](#8-what-is-not-modelled)

## 1. Inventory of the system

| Component | State it keeps | Operations | Talks to |
|---|---|---|---|
| **Resilience** (`resilience.py`) | per service: `_failures`, `_opened_at`; per call: `faults`, `throttles` | `before_call`, `record_success`, `record_failure`, the retry loop | every outbound call; four breakers are shared by all requests (chat, embeddings, rerank, qdrant) |
| **Retrieval** (`retrieval/hybrid.py`, `rerank.py`, `store.py`, `embeddings.py`, `sparse.py`) | none across requests but the breakers | `search`: embed, hybrid query, rerank, degrade | resilience, qdrant, gateway |
| **Guardrails** (`agent/guardrails.py`) | none | `check_query_category`, `check_retrieval`, `verify_citations`, `decide` | called by the pipeline twice (gate A, gate B) |
| **Pipeline** (`agent/pipeline.py`) | per request: `collected`, `seen_queries`, round, `retrieved`, `draft`, `prior`, the audit record, token spend | intake, seed search, refinement turns and their tool calls, gate A, reason, decide, emit | retriever, LLM, guardrails |
| **LLM client** (`llm.py`) | context-local token spend | `complete`, `complete_structured`, `track_usage` | resilience, gateway |
| **HTTP service** (`api/routes.py`, `api/main.py`, `api/deps.py`) | `inflight` semaphore, `running` task set, `index_snapshot`, manifest | `POST /assess` sync and async, `GET /assess/{id}`, `/health`, authentication | pipeline, job store |
| **Job store** (`jobs.py`) | `_jobs` | `create`, `get`, `update`, `_evict` | routes |
| **Ingest** (`ingest/*.py`) | the qdrant collection, `corpus/manifest.json` | parse, chunk, embed and upsert by batches, write manifest | store; read by the service at startup |
| **Observability, PII, prompts, config** (`obs/trace.py`, `pii.py`, `agent/prompts.py`, `agent/tools.py`, `config.py`) | context variables, cached settings | redaction, spans, rendering | everyone |
| **Evaluation harness** (`src/eval`) | results files | select cases, assess them a few at a time, score, report, write | the pipeline, in its own process; earlier results files |
| **Scripts** (`src/scripts`) | none | checks and printouts | the HTTP API, the store, the documents |

How they interact. One event loop runs everything; a coroutine gives up control only at
an `await` that suspends. Requests share the four breakers, the semaphore, the job store
and the manifest that was read at startup. A request is otherwise sequential.

Which behaviours are hard, and what makes each component correct:

* **Resilience** - many concurrent calls report to one breaker in any order. Its two
  fields must agree, each call's traffic must be bounded, 429s must not count as faults,
  every call must end.
* **Retrieval** - three providers fail on their own; an outage of the reranker must cost
  the order and nothing else, and a model's ranking may name any index. A clause must
  carry only a score given for its own text, and scored and unscored clauses must not mix
  within one search.
* **Guardrails** - the docstring's invariant: nothing can make a result *less* cautious,
  and only a clean draft that supports compliance may be COMPLIANT.
* **Pipeline** - every search, rerank, model turn can fail or degrade on its own; a
  partial failure must end in NEEDS_REVIEW, the best evidence of any round must reach the
  model, and the number of model turns must be bounded.
* **HTTP service and job store** - sync requests are refused at capacity, async ones
  queue on the same semaphore, jobs expire while they run. Slots must be conserved,
  a job must move forward only, and be visible only to its owner; accepted work must end.
* **Parsing and chunking** - attribution is positional, and a page header, a title page and a
  cross-reference look alike. An entry must be text of its own clause and standard, the
  right one of several occurrences must win, and chunks must lose nothing and name one clause.
* **LLM client** - concurrent requests share the chat breaker and one context variable for
  usage. A request must end whatever the others do to the breaker.
* **Evaluation** - a case that fails must be counted once, must not move the other scores and
  must be found again by the next re-run.
* **Ingest** - batches are upserted one by one and the manifest is written last, while a
  service may be answering from the same collection; a crash leaves a mixture.

The hazards, each at its line, are in `PROJECT.json`.

## 2. Plan

The order is by importance of the behaviour. Modules that are proved about use no
recursive operator: what the code does by recursion or in a loop is a fold, a set or a step.

| | Module | Abstract specification | Proofs | State |
|---|---|---|---|---|
| 1 | `Resilience` | - | `ServiceProofs` | done |
| 2 | `Guardrails`, `DecisionBasis`, `GuardrailsDegrade` | - | `AssessmentProofs` | done |
| 3 | `Pipeline` (uses `DecisionBasis`, `SearchHits`) | `AssessmentContract` | `AssessmentProofs` | done |
| 4 | `Retrieval` | `SearchContract` (shares `SearchHits` with `Pipeline`) | `RetrievalProofs` | done |
| 5 | `JobService` | `Admission` | `JobServiceProofs` | done |
| 6 | `IndexBuild` | - | `IndexBuildProofs` | done |
| 7 | `Parsing`, `Chunking`, composed by `Corpus` | - | `CorpusProofs` | done |
| 8 | `Service`: concurrent requests over one breaker (extends `Resilience`) | `Resilience` | `ServiceProofs` | done |
| 9 | `QuoteCheck`: the polarity check word by word | - | `AssessmentProofs` | done |
| 10 | `Eval`: the evaluation harness | - | `EvalProofs` | done |

`FiniteLemmas` holds the facts about finite sets, sums, counts and folds that several of the
proofs cite. Every invariant and action property and every refinement that a passing run checks
is also proved; the liveness properties are model-checked only (section 6).

## 3. The modules

Each definition that stands for code is listed with its lines in the `map` of
`PROJECT.json`. Variables keep the source's names where they exist there; those marked
*history* in a module are not program state and no action reads them. An operator whose
comment begins with *Mutant of* is a faulty variant of the definition next to it; no
specification uses it, it is there to show that the property named in `PROJECT.json`
notices the fault.

**`Resilience`** - one breaker (`failures`, `opened`) and any number of concurrent
`call_with_resilience` invocations, each with its two local counters. What the code does
between two awaits is one action: `Admit`/`Refuse` are `before_call` and the first request;
`Succeed`, `Throttled`, `Faulted` the three ways an awaited request comes back, with the
breaker told or not; `Retry` the end of a back-off sleep. `CoolOff` is the clock reaching
`_opened_at + reset_after_seconds`. Delays and the `Retry-After` header are abstracted, and
`do_not_retry_on` is left out because no caller passes it. Cancellation of a call from
outside is not modelled; it would leave the breaker as it was.

**`SearchHits`**, **`SearchContract`**, **`Retrieval`** - `SearchHits` is the set of values
a search may return. `Pipeline` takes any of them as the outcome of a search; `Retrieval`
is the code that produces them, and is shown to implement `SearchContract`, which gives no
others: what one module assumes, the other guarantees. In `Retrieval` a candidate is one
mutable object (`item`), because the loop at `hybrid.py:86` writes through it: a ranking
that names a passage twice puts one object into the list twice, with the last score.
`Rankings` lets the model name any index including negative and out-of-range ones; the
local encoder scores each passage once.

**`Guardrails`** - `decide()` and the checks it calls, as operators. A quote is represented
by what the text checks can conclude about it (`empty`, `blank`, `foreign`, `flipped`,
`fragment`, `verbatim`), scores are percentages. `Vetted` is the
reference definition of what the gates let pass; `Answerable` adds what the repository says the
gates see to and they do not, that every citation carries a quote (`Quoted`).
**`DecisionBasis`** names what `decide()` is given, for the three modules that state something
about it: the pipeline, its contract, and the next one.
**`GuardrailsDegrade`** makes it a state machine: the state is the input of `decide()`, and
each action makes one thing about it worse in a way a provider or the model can (lose a
score, misquote, become less confident, lose the draft, ...). "Nothing here can make a result less
cautious" is then an action property. Two losses are not among the steps because in the code they
escalate less: a quote that was wrong and becomes empty is no longer checked, and a superseded
clause that is no longer found is no longer reported.

**`Pipeline`** - one `assess()`. `pc` is the stage; `Seed`, `Done`, `Turn`, `Suppress`,
`Search`, `EndTurn` are `_gather_evidence`, with a turn's tool calls handled one by one;
`GateA`, `Reason`, `Emit` are the rest. `Upstream` is the one exception `assess()` handles
and `Malformed` every other, wherever a provider is awaited. `Hits` and the drafts are all
a provider's client code lets through. Python's truth of a score of 0 (`rerank_score or 0`)
is `OrElse`. The order of insertion that decides between equal sort keys is abstracted to a
free choice. Requests share no pipeline state, so one is modelled.
**`AssessmentContract`** is what an assessment promises: answered once, a decided answer
only on a basis the gates let pass, every failure on the way among the escalations.

**`JobService`** - synchronous callers that call again and again, jobs, the semaphore
(`value`, `waiters`, `woken`), the store and the clock. A step is what a coroutine does
until it really suspends; in particular `locked()` and the acquire after it are one step,
and `JobStore`'s lock is never contended. The semaphore (external, `asyncio`) is modelled
with the window in which a woken waiter owns a slot and has not run. `Expired` jobs go when
another one is created, whatever their status. `Restart` may come at any point.
**`Admission`** is the promise about load: at most `Slots` assessments, only jobs queue.

**`IndexBuild`** - the ingest command as `Begin`, `Drop`, `Create`, `WriteBatch`,
`Truncate`, `WriteManifest`, able to `Fail` between any two; the service that reads the
manifest at `Start`, also while a command runs; `Health`, the vector store's line of
`/health`. A release stands for source, selection and embedding model. Points keep the
release they were written from, so that a mixture can be seen. Chunk ids within a release
are distinct (entries are keyed by path, parts are numbered).

**`Parsing`** - the loop of `parse_standards`: each line read is one step, and the text is
chosen line by line. A line is what the regular expressions see in it (a header of a
standard with or without a title, an entry's opener, an appendix, noise, prose) and its
length. A text is the sequence of the positions of its lines, so that a property can say
where an entry came from. `Flush` is the inner function; `Announce` the header branch;
`ResolveName` the vote on titles, with ties broken by first appearance as `Counter` does.
**`Chunking`** is `_split_long` on sentences whose characters are the places they stand at.
**`Corpus`** is the ingest command up to the index: `Parse`, `Select` (which standards, and the
corpus version), and `ChunkClause`, one turn of `clauses_from_standard`. The two nested loops
over standards and over `citable_entries` are one: `todo` holds the clauses still to be chunked,
and the next is the first `Before` all others, by standard and then by path.

**`Service`** - requests under way over the one chat breaker. It extends `Resilience`: a chat
call of a request is a `Call` of that module, and every action is one of its actions joined
with what the request does on that outcome (`Ask`, `AskRefused`, `Answered`, `Malformed`,
`Unanswered`, `AskAgain`), or a step between calls (`Begin`, `Blocked`, `Reason`). Searches have
breakers of their own and are left out, as is what the calls cost. The lemma
`ServiceKeepsResilience`, that a behaviour of the composition is one of `Resilience`, carries that
module's theorems over.

**`QuoteCheck`** - `_aligned_window`, `polarity_mismatch` and the loop over elided fragments, on
sequences of words. `difflib` is external and modelled by what it documents: the longest match,
earliest in the quote, then earliest in the clause, then the same on both sides. The recursion is
unrolled into rounds: a stretch of the quote beside a stretch of the clause is split at its longest
match (`Halves`), and after as many rounds as the quote has words no stretch has a match left
(`Stretches`), so that what remains are the edits. The state machine is the model that quotes: it
copies a span, may elide, may put in, drop or swap a word of force. `Slack` is 8 in the code; the
runs use 1, with clauses in proportion.

**`Eval`** - commands of the evaluation harness, each a selection (`--only`, `--rerun-failed`,
`--limit`), cases let through a semaphore in order and finished in any, `Score`, and then
either a results file or a report that raises (`ReportRaises`). The metrics are operators in
thousandths. Rows are a set, as nothing reads their order; `chain`, the files a results file goes
back to by `--rerun-failed`, is history.

Each `MC` module gives the constants of its component their small values.

## 4. What the runs check

Ten passing runs, one for each component (distinct states in parentheses):

| Run | Instance | Shows |
|---|---|---|
| `resilience` (8 327) | three calls, threshold 3, two faults and one 429 each | Fields agree (`BreakerAgreement`), traffic is bounded (`TrafficBudget`), 429s alone never open (`NoPhantomFailures`), every call ends |
| `service` (494 241) | two requests of three chat calls, threshold 2 | Every request that begins ends, though the other may open the breaker they share |
| `retrieval` (12 142) | three clauses, `top_k` 2, rankings of up to three entries with indexes -1 to 3 | `ScoreIsItsOwn`, `BestFirst`, `FoundIsReturned`, and that a search implements `SearchContract` |
| `guardrails` (246 512) | two clauses, two scores on both sides of the floor, two confidences, every kind of quote | `DecidedIffAnswerable`, of drafts whose citations all carry a quote; `OnlyTowardReview` |
| `quotes` (103 226) | clauses of up to five words out of four, two of them of force, slack 1 | A true quote is never reported; a change of force is, where no word recurs |
| `pipeline` (147 306) | three clauses, one superseded, `top_k` 2, two clauses to the model, three rounds, two tool calls a turn, scores 0, low and high | A decided result rests on vetted, shown evidence; weak evidence is never reasoned on; the model is asked a bounded number of times and does not repeat a search it asked for; the best score of any round is kept; refinement of `AssessmentContract`; every assessment ends |
| `jobs` (176 677) | two callers, two jobs of two principals, two slots, clock past the TTL, one restart | Slots are conserved, synchronous requests never wait, polls tell an owner the truth and never go back, refinement of `Admission`, every accepted job ends |
| `corpus` (966 195) | five lines out of twelve, two standards, two paths, three titles of which one is no title; chunks of six characters, overlap two | Whose text an entry is and that none is an appendix's, which occurrence and which title win; a chunk id names one piece of one clause, parts lose nothing and fit |
| `index` (1 381) | two overlapping releases of two batches, three commands, each stopping anywhere | A manifest is earned by a whole release; a healthy service over one release sees all of it, each chunk once |
| `eval` (32 476) | three commands over two cases, one without gold clauses, concurrency 2 | Rows are counted once, retrieval scores ignore what has no gold, re-runs forget no failure |

Types are proved rather than checked again by TLC, where a module has proofs.

Why the bounds are enough. *Resilience*: two calls of two attempts trip a threshold of
three, and the third call meets every state of the breaker: refused, probing beside another
probe, answered late. *Retrieval*: three entries over three candidates with two places
allow a repeated, a missing, an invalid and a surplus entry, ties included; there is no
state across searches. *Guardrails*: a draft of up to two citations tells "the first", "the
last", "some" and "all" apart; scores matter by the side of the floor they are on. *Pipeline*:
three rounds give two refinement turns, the least in which a search can be repeated, a score
be replaced by a better and by a worse one, and evidence be dropped after ranking; 0 is the
score Python confuses with none. *Jobs*: with two slots a release can find no waiter, one, or
a woken one; two principals are needed for one to ask about the other's job. *Index*: three
commands are the least for build, half a rebuild, and a re-run. *Corpus*: five lines hold a
stub, an entry of two lines and something that ends or repeats it, or three headers that vote
on two titles; twelve lines give every kind in both standards with lengths on both sides of
each limit. *Service*: two faults open the breaker, which then refuses, cools
off and is probed in the middle of the other's turns. *Quotes*: five words leave room on both
sides of a span of three, elided or edited, and for a word that recurs. *Eval*: a chain of
three commands, with a failure that stays, one that is mended, and a report that raises between.
`MaxTime`, `MaxRestarts`, `MaxBuilds`, `MaxToolCalls`, `MaxRankings`, `MaxLines`,
`MaxWords` and `MaxRuns` are the only bounds on what the program itself
does not bound; each is named as one where it is declared.

Deadlock is checked in no run: each model ends (calls end, the assessment is emitted, the
clock and the commands run out). That everything that should end does is a liveness property.

Two further runs each show one disagreement (section 7).

## 5. Fairness

Fairness is assumed of what the event loop and the timeouts force, of nothing a client
chooses, and liveness is asked only under it.

* `Resilience`: a request is answered or timed out by `asyncio.wait_for`
  (`WF(Answer(c))`), a sleep of at most 60 seconds ends (`WF(Retry(c))`), the clock advances
  (`WF(CoolOff)`). Not assumed: that a call is ever made, nor which answer comes.
* `Pipeline`: one process, `WF(Next)`. Each wait is a `call_with_resilience`, which ends by
  `EveryCallEnds`, but for one: with `RERANK_BACKEND=local` the encoder runs in a thread that is
  awaited without a timeout (`retrieval/rerank.py:197`), and is assumed to return.
* `JobService`: the loop runs what can run (`WF(Resume)`, `WF(RunJob(j))`) and an
  assessment ends by the pipeline's `Ends` (`WF(Answer(c))`, `WF(EndJob(j))`). Not assumed:
  that callers pause. `JobsEnd` holds although they never do, because a synchronous request
  is refused whenever anyone waits.

* `Service`: `WF(RequestStep(r))` for every request that has begun, by the same timeouts and
  sleeps, and `WF(ClockAdvances)`. Not assumed: that a request begins, nor anything of the
  order in which requests run.
* `Parsing`, `Corpus`, `QuoteCheck`, `Eval`, `IndexBuild`: no liveness is claimed; what they
  model are loops over finite input.

Weak fairness is enough everywhere: none of these steps is disabled again once enabled,
except by itself or by a restart.

## 6. What is proved

Every theorem holds for all values of the constants that satisfy the named assumption
(`BudgetAssumption`, `RetrievalAssumption`, `SettingsAssumption`, `InputAssumption`,
`PipelineAssumption`, `JobServiceAssumption`, `ParsingAssumption`, `ChunkingAssumption`,
`CorpusAssumption`, `ServiceAssumption`, `IndexBuildAssumption`, `QuoteAssumption`,
`EvalAssumption`, `FinitelyManyCalls`): signs and types of the settings, that `None`, `NoWord` and
`Failed` are none of the values they stand beside, an overlap between 1 and the size of a chunk,
distinct case ids in the test set, and that the sets that are counted are finite - the clauses of a
corpus, the chunks of a release, the calls that are ever made. Nothing else is assumed. The theorems
of `AssessmentProofs` about the polarity check are about `QuoteSpec`, those about `decide()` about
`DegradeSpec`, and those about the request about `Spec` of `Pipeline`.

* **`ServiceProofs`** (the breaker) - type correctness, `BreakerAgreement`, `TrafficBudget`,
  `RaiseHasCause`, `OnlySuccessForgives`, for any number of calls. The
  traffic bound is not inductive: it needs `CallAccount`, which says at each place in the
  loop how many requests were sent for how many answers, and that no budget is exceeded
  while the loop still runs. `NoPhantomFailures` compares the breaker's count with the faults of
  all calls together; the sum is read as the number of pairs of a call and one of its faults
  (`Marks`), so that a fault adds one pair and the comparison becomes inductive (`FailuresSeen`).
* **`RetrievalProofs`** - type correctness, `ScoreIsItsOwn`, `FoundIsReturned` and the
  refinement of `SearchContract`, for rankings of any length. `Progress` adds what is known
  before the answer (nothing is scored) and of it (short, and scored as a whole or not at
  all). That a passage named several times has a *last* place is proved from the
  well-foundedness of strict inclusion (`LastPosition`). `BestFirst` is proved of rankings that
  name no passage twice: that the order of scores is the order of the places in the ranking
  (`OrderStep`), and that what is missing from the ranking is behind it.
* **`AssessmentProofs`** (the decision) - `DecidedIffAnswerable` and `OnlyTowardReview`, from lemmas on
  the operators: the escalations are empty exactly on vetted
  input (`CleanIffVetted`), and a vetted input that was made worse was vetted before, with the
  same finding.
* **`AssessmentProofs`** (the request) - type correctness, `DecidedOnShownEvidence`,
  `WeakNeverReasoned` and the refinement of `AssessmentContract`. The strengthening is `StageFacts`:
  a draft exists only when nothing had failed, gate A found the evidence strong, and every clause
  considered was shown. `RefinementBudget` needs `LoopFacts` (the round and the turns at each
  stage), `NoRepeatedSearch` `SeenFacts` (the queries remembered are exactly those searched after
  the seed). `BestClauseConsidered` speaks of `peak`, the highest score any round gave any clause,
  which the code does not keep: `PeakFacts` says that the collection still has it, which is what
  merging must not lose (`PeakOfHits` of one round, `MergeKeepsPeak` of a round merged into those
  before), and `TopFacts` that what was considered is a best choice of the collection.
* **`JobServiceProofs`** - type correctness, `SlotsConserved`, `SyncNeverQueues`,
  `ToldOwnOutcome`, `NeverBackwards` and the refinement of
  `Admission`. The invariant ties the three copies of a job's state together: `QueueOK` (who
  waits), `StoreOK` (a record that is left says where its job is), `ToldOK` (what was told is
  not ahead of the job, and a 404 to the owner means the record is gone).

* **`IndexBuildProofs`** - `ManifestIsEarned` and `HealthyIsWhole`, for releases of any size and
  any number of commands, each failing anywhere. The invariant says of every point that
  its chunk belongs to the release that wrote it (`CollectionFacts`), of a manifest and of a
  service's copy of one that its count is the size of its release (`RecordFacts`), and of the
  command under way that the batches it has written are all in the collection (`BuildFacts`).
  That a count equal to the release's size means the whole release is then a fact about
  cardinalities.
* **`CorpusProofs`** - for every set of lines and any length of text. `EntryIsOneRun`: the
  strengthening is `ParseInv`, by which the entry that is open is one run too and reaches up to the
  last prose read (`OpenRun`), and `current` is the standard announced last (`CurrentIsAnnounced`).
  That no entry is text of an appendix is by `BodyIsRead`: while entries are read, no appendix has
  begun since the last header, as far back as the text is looked at. `TitleByMajority`: by `VoteInv`
  a standard has as many votes for a title as header lines gave it that title. `LongestKept`: a
  clause nothing has closed yet is the one that is open (`UnclosedIsOpen`), its buffer is exactly
  its run of lines (`BufferIsRun`), and so flushing compares the sizes of whole runs; that
  `len(body)` does not depend on the order its lines are added up in is `RunIsSized`.
* **`ServiceProofs`** (the requests) - `BreakerAgreement` and `TrafficBudget` for the calls of any
  number of requests, because every behaviour is one of `Resilience`. The strengthening, `TurnsOK`,
  says that of a request's calls only the current one is under way.
* **`CorpusProofs`** (the chunks) - `CitationsResolve`, `NothingLostBetweenParts` and `PartsFit`,
  for every text, chunk size and overlap. First of one clause: the loop of `_split_long` is a fold
  (`PartsAreTaken` reads it as a run of states), and `SplitFacts` is its invariant, which says of
  the parts so far and the open one that they stand in the text in order, each beginning before the
  one it follows ends and ending after it, that every sentence read is whole in one, and how
  long each is; `NextInPart` is the turn that joins a sentence, `NextPart` the one that cuts and
  carries the tail. Then of the list of chunks: by `ChunkInv` the chunks of a clause stand
  together, in their order, and nowhere else (`IsBlock`), and the corpus version names the
  standards chunked or still to be. With the invariants of the parser that is `IngestInv`.
* **`EvalProofs`** - `CountedOnce`, `GoldlessLeftOut` and `NothingForgotten`, for any test set and
  any number of commands. `IInv` says of every file that it was scored from its own rows, and of
  its chain that it is itself or itself and the chain of an earlier file all of whose failures
  ran again, unless `--limit` cut them (`FileFacts`). `CountedOnce` is then a partition: every
  answer is right or wrong in one way (`AnswersAreSorted`) and its confidence is in one band
  (`BandsPartition`). `NothingForgotten` goes along the chain: that no file breaks it is shown by
  the first that would, since a re-run keeps what the file it was made from kept
  (`RerunKeepsTrack`).
* **`AssessmentProofs`** (the polarity check) - `VerbatimAccepted` and `ForceChangeReported`, for
  every clause, every set of words of force and every slack. The rounds are read as a run
  (`RoundsRun`), of which an invariant of one round holds at the end (`RoundsKeep`, `SomeIsLeft`).
  A quote that stands in the clause stands in its window (`VerbatimInWindow`), where its
  longest match is all of it, so that what is left is before or after it. A word put in that the
  clause does not have stays in some stretch, whatever is matched (`PutInIsReported`). A word left
  out does too, because where no word recurs a match is on one side of it (`Parted`,
  `LeftOutIsEdit`), and the window reaches over it (`DroppedIsReported`). `QuoteInv` says which of
  the three each fragment of the state machine is.

Only model-checked, and why: the liveness properties (`EveryCallEnds`, `Ends`, `JobsEnd`,
`RequestsEnd`), which are out of the prover's reach.

Two kinds of definition are inductions over data, which the provers cannot make. They are within
reach where the induction can be done on something else. A sum over a finite set has a
closed form: `MarksAreSummed` shows that counting marks solves the recursion of the folds, and
`SumIsUnique`, by a smallest set on which two solutions differ, that nothing else does. A fold over
a sequence is a run of states: `FoldIsDefined` shows that a function on sets of positions solves
its recursion, `FoldIsRun` that it is a run over the positions in order, and `HoldsThroughout` takes
an invariant of a step to the end of the run, by the least position where it would fail.

## 7. Findings

Each of these runs asks for what a comment or a docstring says, and TLC shows a behaviour of
the code that differs. The quotations are in `PROJECT.json`.

| Run | Said | Done |
|---|---|---|
| `corpus_running_headers` | running headers re-announce the same standard, so they are harmless | a page header inside a clause drops the rest of the clause; inside an appendix it ends the appendix |
| `quotes_introduced_negation` | a legal-force token the quote changes is named | a "not" put into the quote is aligned with a "not" after the quoted span; the edits that are left are of ordinary words, and nothing is reported |

The second was tried with `difflib` outside of the model: between "An Institution that owns the
asset can sell it provided that it has not leased it to another party." and the quote "An
Institution that owns the asset can not sell", the edit script inserts words of the clause before
its "not" and replaces what follows, so that "not" itself is kept. The quote has nine words and
0.957 of it is contained in the clause, which passes the other two checks.

Seen in the models and not given a run of their own:

* A citation with an empty quote passes before any of the three quote checks, and a draft with
  nothing but such citations may be decided (`agent/guardrails.py:219`). The repository asks for
  more: "so all three run" (91-92), a "Verbatim span from the cited clause" (`models.py:109`), a
  claim without evidence escalates (`src/docs/ARCHITECTURE.md:34`). `DecidedIffAnswerable` speaks
  of drafts whose citations all carry a quote; `DecidedOnShownEvidence` says of the others what the
  gates do check.
* Clauses of a round whose rerank degraded are judged by the scores of another round, so
  the degradation does not escalate by itself (`agent/guardrails.py:304`; "is itself a signal",
  comment at `retrieval/hybrid.py:76-78`). `DecidedOnShownEvidence` allows it.
* The round limit bounds turns, not searches: a turn makes as many searches as it has tool calls
  (`agent/pipeline.py:276`), where `src/README.md:56` says "max 3 total", `src/docs/API.md:107` a
  "Hard cap on the search loop", and `src/tests/test_pipeline.py:139-140` counts three searches of a
  model that makes one tool call a turn. `RefinementBudget` states the bound that holds, on turns.
* The seed query is remembered under a key no tool call has, so the model may repeat it once
  (`agent/pipeline.py:258`; "an identical repeat search", comment at 281-282). `NoRepeatedSearch`
  therefore starts at the second search.
* A call admitted before the breaker opened keeps retrying into the open breaker: `before_call`
  is above the loop (`resilience.py:122-127`; "calls fail immediately", docstring at 8-11).
* `record_success` closes the breaker in any state, so the late answer to an old call ends
  the cool-off of an open breaker (`resilience.py:90`; docstring at 65-67).
* A job older than the TTL is evicted even while it runs, and its failure reaches nobody
  (`jobs.py:66`; "surfaced to the caller via the job", comment at `api/routes.py:141`).
* Token usage of embedding calls is not recorded though the comment at `agent/pipeline.py:108`
  counts them in the total (`retrieval/embeddings.py:53`).
* Only `UpstreamUnavailable` is caught: a completion without choices (`llm.py:263`) or a ranking
  that is no object (`retrieval/rerank.py:150`) leaves `assess()` by an exception with no
  assessment and no audit record (`agent/pipeline.py:137`; `src/README.md:188-189`). The breaker
  has recorded a success, and for the completion the usage is lost.
* Two releases of the same size cannot be told apart by `/health`, which compares a count
  (`api/routes.py:211`).
* The evaluation report formats `mrr` and `context_precision` as numbers although `mean` may
  return None (`src/eval/run_eval.py:181-182`): when every selected case raised or has no gold
  clauses, or a re-run of a file without failures selects nothing, the command ends by a
  TypeError before the results file is written (comment at 66: "one bad case must not end the
  run"). This is `ReportRaises`.
* A part of a split clause can be wholly contained in the next one, when its text is no longer
  than the overlap (`ingest/chunk.py:36`); `NothingLostBetweenParts` allows it.
* `is_well_parsed` takes an implausible title for a title when it came with the first header,
  because the fallback is that name and not "Standard N" (`ingest/parse.py:72`, 158, 232).
* The corpus version hashes the source and the selection, so a change of the parser or of the
  chunk size gives other chunks under the same version (`ingest/chunk.py:72`; "a verdict cannot
  be replayed" without it, 75).
* Each elided fragment is checked against the whole clause on its own, so fragments in another
  order than the clause's pass, and so does an ellipsis over a "not" (`agent/guardrails.py:226`;
  by design, comment at 74-77).
* When gate A blocks, `clauses_considered` may name clauses that no prompt contained
  (`agent/pipeline.py:186`; comment at `models.py:179`).
* A job says "running" while it waits for a slot (`api/routes.py:133`).
* A ranking with a repeated index lowers that clause's score and spends a place of `top_k`
  (`retrieval/hybrid.py:87`); `BestFirst` excludes such rankings.

## 8. What is not modelled

* The character comparison `quote_containment` (its outcome is part of a quote's kind in
  `Guardrails`), the OCR normalisation of `parse.py`, heading trails, tokenising and hashing in
  `sparse.py`, strict-schema rendering in `llm.py`: pure functions of text without an order of
  events, whose models would be their transliteration.
* `extract_text` with its cache of the converted PDF: file input and an external program.
* The usage that `track_usage` adds up and the audit record states: one addition for each answer.
* Authentication, request validation, redaction, tracing, prompts, settings: no state that a
  gate reads, or constants here.
* A manifest file half written when the process dies (`ingest/index.py:100`): writing it is one
  step here.
* `/health` other than the vector store's line; scripts and deployment.
