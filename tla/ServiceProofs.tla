----------------------------- MODULE ServiceProofs -----------------------------
(***************************************************************************)
(* Proofs about the retry loop and the circuit breaker, for every set of   *)
(* concurrent calls and every threshold and budget; then about concurrent  *)
(* assessments over one breaker, for every number of requests and turns.   *)
(***************************************************************************)
EXTENDS Service, FiniteLemmas, TLAPS

-----------------------------------------------------------------------------
(* The circuit breaker and its callers *)

\* What one invocation's counters say about where it is: every request on the
\* wire is accounted for by one answer, except the one being waited for.
CallAccount(c) ==
    LET faulty == faults[c] + throttles[c]
        inBudget == faults[c] < Attempts /\ throttles[c] <= RateLimitAttempts
    IN  /\ pc[c] = "idle" => sent[c] = 0 /\ faulty = 0
        /\ pc[c] \in {"calling", "returned"} => sent[c] = faulty + 1 /\ inBudget
        /\ pc[c] = "sleeping" => sent[c] = faulty /\ inBudget
        /\ pc[c] = "raised" =>
             /\ sent[c] = faulty
             /\ \/ faulty = 0
                \/ faults[c] = Attempts /\ throttles[c] <= RateLimitAttempts
                \/ faults[c] < Attempts /\ throttles[c] = RateLimitAttempts + 1

Accounts == \A c \in Calls : CallAccount(c)

\* The inductive invariant.
Inv == TypeOK /\ BreakerAgreement /\ Accounts

\* Every initial state of the breaker and its callers satisfies the invariant.
LEMMA InitInv == Init => Inv
  BY BudgetAssumption
  DEF Init, Inv, TypeOK, OpenedAt, BreakerAgreement, Accounts, CallAccount

\* Variables keep their types: one step per action of the code.
LEMMA TypeStep == TypeOK /\ [Next]_vars => TypeOK'
<1> SUFFICES ASSUME TypeOK, [Next]_vars PROVE TypeOK'
    OBVIOUS
<1> USE BudgetAssumption DEF TypeOK, OpenedAt
<1>1. CASE CoolOff
    BY <1>1 DEF CoolOff, callVars
<1>2. ASSUME NEW c \in Calls, CallStep(c) PROVE TypeOK'
  <2>1. CASE Admit(c)
      BY <2>1 DEF Admit, Send, breakerVars
  <2>2. CASE Refuse(c)
      BY <2>2 DEF Refuse, breakerVars
  <2>3. CASE Succeed(c)
      BY <2>3 DEF Succeed, RecordSuccess
  <2>4. CASE Throttled(c)
      BY <2>4 DEF Throttled, breakerVars
  <2>5. CASE Faulted(c)
      BY <2>5 DEF Faulted, RecordFailure
  <2>6. CASE Retry(c)
      BY <2>6 DEF Retry, Send, breakerVars
  <2> QED
      BY <1>2, <2>1, <2>2, <2>3, <2>4, <2>5, <2>6 DEF CallStep, Answer
<1>3. CASE UNCHANGED vars
    BY <1>3 DEF vars
<1> QED
    BY <1>1, <1>2, <1>3 DEF Next

\* The two fields of the breaker stay in agreement.  The half_open disjunct of
\* record_failure is never what trips it: by the agreement itself, a breaker
\* that has been opened is already over the threshold.
LEMMA AgreementStep == TypeOK /\ BreakerAgreement /\ [Next]_vars => BreakerAgreement'
<1> SUFFICES ASSUME TypeOK, BreakerAgreement, [Next]_vars PROVE BreakerAgreement'
    OBVIOUS
<1> USE BudgetAssumption DEF TypeOK, BreakerAgreement, OpenedAt
<1>1. CASE CoolOff
    BY <1>1 DEF CoolOff, callVars
<1>2. ASSUME NEW c \in Calls, CallStep(c) PROVE BreakerAgreement'
  <2>1. CASE UNCHANGED breakerVars
      BY <2>1 DEF breakerVars
  <2>2. CASE Succeed(c)
      BY <2>2 DEF Succeed, RecordSuccess
  <2>3. CASE Faulted(c)
      BY <2>3 DEF Faulted, RecordFailure, state, StateOf
  <2> QED
      BY <1>2, <2>1, <2>2, <2>3
      DEF CallStep, Answer, Admit, Refuse, Throttled, Retry
<1>3. CASE UNCHANGED vars
    BY <1>3 DEF vars
<1> QED
    BY <1>1, <1>2, <1>3 DEF Next

\* Each step keeps the accounts of the call that takes it, and touches no
\* other call's.
LEMMA AccountsStep == TypeOK /\ Accounts /\ [Next]_vars => Accounts'
<1> SUFFICES ASSUME TypeOK, Accounts, [Next]_vars, NEW d \in Calls
             PROVE CallAccount(d)'
    BY DEF Accounts
<1>0. CallAccount(d)
    BY DEF Accounts
<1>1. CASE CoolOff
    BY <1>0, <1>1 DEF CoolOff, callVars, CallAccount
<1>2. ASSUME NEW c \in Calls, CallStep(c) PROVE CallAccount(d)'
  <2> USE BudgetAssumption, <1>0 DEF TypeOK, CallAccount
  <2>1. CASE Admit(c)
      BY <2>1 DEF Admit, Send
  <2>2. CASE Refuse(c)
      BY <2>2 DEF Refuse
  <2>3. CASE Succeed(c)
      BY <2>3 DEF Succeed
  <2>4. CASE Throttled(c)
      BY <2>4 DEF Throttled
  <2>5. CASE Faulted(c)
      BY <2>5 DEF Faulted
  <2>6. CASE Retry(c)
      BY <2>6 DEF Retry, Send
  <2> QED
      BY <1>2, <2>1, <2>2, <2>3, <2>4, <2>5, <2>6 DEF CallStep, Answer
<1>3. CASE UNCHANGED vars
    BY <1>0, <1>3 DEF vars, CallAccount
<1> QED
    BY <1>1, <1>2, <1>3 DEF Next

\* The inductive invariant holds of every reachable state.
THEOREM Invariance == Spec => []Inv
<1>1. Inv /\ [Next]_vars => Inv'
    BY TypeStep, AgreementStep, AccountsStep DEF Inv
<1> QED
    BY InitInv, <1>1, PTL DEF Spec

\* Type correctness of the breaker and the retry loop.
THEOREM TypeCorrect == Spec => []TypeOK
<1>1. Inv => TypeOK
    BY DEF Inv
<1> QED
    BY Invariance, <1>1, PTL

\* CircuitBreaker: _opened_at is set exactly when _failures has reached
\* failure_threshold, for any number of concurrent callers.
THEOREM BreakerAgrees == Spec => []BreakerAgreement
<1>1. Inv => BreakerAgreement
    BY DEF Inv
<1> QED
    BY Invariance, <1>1, PTL

\* call_with_resilience: however faults and 429s alternate, one invocation
\* sends at most attempts + rate_limit_attempts requests.
THEOREM TrafficBounded == Spec => []TrafficBudget
<1>1. Inv => TrafficBudget
  <2> SUFFICES ASSUME Inv, NEW c \in Calls
               PROVE sent[c] <= Attempts + RateLimitAttempts
      BY DEF TrafficBudget
  <2>1. pc[c] \in {"idle", "calling", "sleeping", "returned", "raised"}
      BY DEF Inv, TypeOK
  <2> QED
      BY <2>1, BudgetAssumption DEF Inv, TypeOK, Accounts, CallAccount
<1> QED
    BY Invariance, <1>1, PTL

\* call_with_resilience: UpstreamUnavailable is only ever raised by a refusal
\* or by an exhausted budget.
THEOREM RaisesHaveCause == Spec => []RaiseHasCause
<1>1. Inv => RaiseHasCause
    BY BudgetAssumption DEF Inv, TypeOK, Accounts, CallAccount, RaiseHasCause
<1> QED
    BY Invariance, <1>1, PTL

\* CircuitBreaker: a failure is forgotten only in a step in which some
\* caller's request succeeds; time and refusals never clear the count.
THEOREM SuccessForgives == Spec => OnlySuccessForgives
<1>1. Inv /\ [Next]_vars =>
        [failures' < failures =>
            \E c \in Calls : pc[c] = "calling" /\ pc'[c] = "returned"]_vars
  <2> SUFFICES ASSUME Inv, Next, failures' < failures
               PROVE \E c \in Calls : pc[c] = "calling" /\ pc'[c] = "returned"
      BY DEF vars
  <2>1. PICK c \in Calls : Succeed(c)
      BY DEF Inv, TypeOK, Next, CoolOff, callVars, breakerVars, CallStep, Answer,
             Admit, Refuse, Throttled, Faulted, RecordFailure, Retry
  <2> QED
      BY <2>1 DEF Succeed, Inv, TypeOK
<1> QED
    BY Invariance, <1>1, PTL DEF Spec, OnlySuccessForgives

\* Every failure the breaker counts is a fault of one of its callers.
FailuresSeen == failures <= Cardinality(Marks(faults, Calls))

\* A counted failure leaves a mark on the caller that saw it; marks stay.
LEMMA FailuresSeenStep == TypeOK /\ FailuresSeen /\ [Next]_vars => FailuresSeen'
<1> SUFFICES ASSUME TypeOK, FailuresSeen, [Next]_vars PROVE FailuresSeen'
    OBVIOUS
<1> USE DEF TypeOK, FailuresSeen
<1>0. Cardinality(Marks(faults, Calls)) \in Nat
    BY FinitelyManyCalls, MarksAreFinite, FS_CardinalityType
<1>1. CASE CoolOff
    BY <1>1 DEF CoolOff, callVars
<1>2. ASSUME NEW c \in Calls, CallStep(c) PROVE FailuresSeen'
  <2>1. CASE UNCHANGED <<failures, faults>>
      BY <2>1
  <2>2. CASE Succeed(c)
      BY <1>0, <2>2 DEF Succeed, RecordSuccess
  <2>3. CASE Faulted(c)
    <3>1. failures' = failures + 1 /\ faults' = [faults EXCEPT ![c] = @ + 1]
        BY <2>3 DEF Faulted, RecordFailure
    <3>2. Cardinality(Marks(faults', Calls)) = Cardinality(Marks(faults, Calls)) + 1
        BY <3>1, FinitelyManyCalls, OneMoreMark
    <3> QED
        BY <1>0, <3>1, <3>2
  <2> QED
      BY <1>2, <2>1, <2>2, <2>3
      DEF CallStep, Answer, Admit, Refuse, Throttled, Retry, breakerVars
<1>3. CASE UNCHANGED vars
    BY <1>3 DEF vars
<1> QED
    BY <1>1, <1>2, <1>3 DEF Next

\* is_rate_limited: the breaker never counts more failures than its callers saw
\* faults, however many callers there are; 429s alone cannot open it.
THEOREM FailuresAreFaults == Spec => []NoPhantomFailures
<1>1. Init => FailuresSeen
  <2> SUFFICES ASSUME Init PROVE FailuresSeen
      OBVIOUS
  <2>1. failures = 0 /\ faults \in [Calls -> Nat]
      BY DEF Init
  <2>2. Cardinality(Marks(faults, Calls)) \in Nat
      BY <2>1, FinitelyManyCalls, MarksAreFinite, FS_CardinalityType
  <2> QED
      BY <2>1, <2>2 DEF FailuresSeen
<1>2. TypeOK /\ FailuresSeen => NoPhantomFailures
  <2> SUFFICES ASSUME TypeOK, FailuresSeen PROVE NoPhantomFailures
      OBVIOUS
  <2>1. MapThenSumSet(LAMBDA c : faults[c], Calls) = Cardinality(Marks(faults, Calls))
      BY FinitelyManyCalls, SumCountsMarks DEF TypeOK
  <2> QED
      BY <2>1 DEF FailuresSeen, NoPhantomFailures
<1> QED
    BY <1>1, <1>2, FailuresSeenStep, TypeCorrect, PTL DEF Spec

-----------------------------------------------------------------------------
(* Concurrent assessments over one breaker *)

\* A request's current chat call is one of the invocations.
LEMMA CallsAreCalls ==
  ASSUME turn \in [Requests -> 1..MaxTurns], NEW r \in Requests
  PROVE  Call(r) \in Calls
  BY ServiceAssumption DEF Call

\* A request's turns stay within its chat calls: calls it has not come to are
\* idle, and only a refinement turn, never the last call, is followed by another.
TurnsOK ==
    /\ pc \in [Calls -> {"idle", "calling", "sleeping", "returned", "raised"}]
    /\ stage \in [Requests -> {"waiting", "evidence", "reason", "emitted", "failed"}]
    /\ turn \in [Requests -> 1..MaxTurns]
    /\ \A r \in Requests :
         /\ stage[r] \in {"waiting", "evidence"} /\ turn[r] = MaxTurns => Between(r)
         /\ \A i \in 1..MaxTurns : i > turn[r] => pc[<<r, i>>] = "idle"

\* No call has been made at first.
LEMMA InitTurns == ServiceInit => TurnsOK
  BY ServiceAssumption DEF ServiceInit, Init, TurnsOK, Between, Call

\* A step outside the chat calls.
LEMMA QuietStep ==
  ASSUME NEW r \in Requests, TurnsOK, UNCHANGED <<pc, turn>>,
         \/ /\ stage[r] = "waiting"
            /\ stage' = [stage EXCEPT ![r] = "evidence"]
         \/ \E s \in {"reason", "emitted", "failed"} : stage' = [stage EXCEPT ![r] = s]
         \/ UNCHANGED stage
  PROVE  TurnsOK'
  BY DEF TurnsOK, Between, Call

\* A step of a chat call that is not the last of the evidence stage, after which
\* the request is still at the same call.
LEMMA CallMoves ==
  ASSUME NEW r \in Requests, TurnsOK, UNCHANGED turn,
         stage[r] \in {"waiting", "evidence"} => turn[r] < MaxTurns \/ ~Between(r),
         NEW s \in {"calling", "sleeping", "returned", "raised"},
         pc' = [pc EXCEPT ![Call(r)] = s],
         \/ UNCHANGED stage
         \/ \E t \in {"emitted", "failed"} : stage' = [stage EXCEPT ![r] = t]
  PROVE  TurnsOK'
<1>1. Call(r) \in Calls
    BY CallsAreCalls DEF TurnsOK
<1>2. pc' \in [Calls -> {"idle", "calling", "sleeping", "returned", "raised"}]
    BY DEF TurnsOK
<1>3. stage' \in [Requests -> {"waiting", "evidence", "reason", "emitted", "failed"}]
    BY DEF TurnsOK
<1>4. ASSUME NEW q \in Requests
      PROVE  /\ stage'[q] \in {"waiting", "evidence"} /\ turn'[q] = MaxTurns => Between(q)'
             /\ \A i \in 1..MaxTurns : i > turn'[q] => pc'[<<q, i>>] = "idle"
  <2> turn[q] \in 1..MaxTurns /\ turn[r] \in 1..MaxTurns /\ MaxTurns \in Nat
      BY ServiceAssumption DEF TurnsOK
  <2>1. CASE q # r
      BY <2>1, <1>1, ServiceAssumption DEF TurnsOK, Between, Call
  <2>2. CASE q = r
      BY <2>2, <1>1, ServiceAssumption DEF TurnsOK, Between, Call
  <2> QED
      BY <2>1, <2>2
<1> QED
    BY <1>2, <1>3, <1>4 DEF TurnsOK

\* The answer to a refinement turn: the request comes to its next call.
LEMMA TurnMoves ==
  ASSUME NEW r \in Requests, TurnsOK, UNCHANGED stage, stage[r] = "evidence", ~Between(r),
         pc' = [pc EXCEPT ![Call(r)] = "returned"],
         turn' = [turn EXCEPT ![r] = @ + 1]
  PROVE  TurnsOK'
<1> MaxTurns \in Nat /\ turn[r] \in 1..MaxTurns /\ turn[r] # MaxTurns
    BY ServiceAssumption DEF TurnsOK
<1>1. Call(r) \in Calls
    BY CallsAreCalls DEF TurnsOK
<1>2. pc' \in [Calls -> {"idle", "calling", "sleeping", "returned", "raised"}]
    BY DEF TurnsOK
<1>3. turn' \in [Requests -> 1..MaxTurns]
    BY DEF TurnsOK
<1>4. ASSUME NEW q \in Requests
      PROVE  /\ stage'[q] \in {"waiting", "evidence"} /\ turn'[q] = MaxTurns => Between(q)'
             /\ \A i \in 1..MaxTurns : i > turn'[q] => pc'[<<q, i>>] = "idle"
  <2> turn[q] \in 1..MaxTurns
      BY DEF TurnsOK
  <2>1. CASE q # r
      BY <2>1, <1>1, ServiceAssumption DEF TurnsOK, Between, Call
  <2>2. CASE q = r
    <3>1. turn'[r] = turn[r] + 1
        BY DEF TurnsOK
    <3>2. \A i \in 1..MaxTurns : i > turn[r] => pc'[<<r, i>>] = "idle"
        BY <1>1, ServiceAssumption DEF TurnsOK, Call
    <3> QED
        BY <2>2, <3>1, <3>2 DEF Between, Call
  <2> QED
      BY <2>1, <2>2
<1> QED
    BY <1>2, <1>3, <1>4 DEF TurnsOK

-----------------------------------------------------------------------------

\* What a step of the service is to the breaker: nothing, the clock, or a step
\* of one invocation; and the turns stay in order.
LEMMA TurnStep == TurnsOK /\ [ServiceNext]_serviceVars => TurnsOK' /\ [Next]_vars
<1> SUFFICES ASSUME TurnsOK, [ServiceNext]_serviceVars PROVE TurnsOK' /\ [Next]_vars
    OBVIOUS
<1>1. ASSUME NEW r \in Requests, Begin(r) \/ RequestStep(r) PROVE TurnsOK' /\ [Next]_vars
  <2> Call(r) \in Calls
      BY CallsAreCalls DEF TurnsOK
  <2> turn[r] \in 1..MaxTurns /\ MaxTurns \in Nat
      BY ServiceAssumption DEF TurnsOK
  <2>1. CASE Begin(r)
      BY <2>1, QuietStep DEF Begin, vars
  <2>2. CASE Blocked(r)
      BY <2>2, QuietStep DEF Blocked, Emit, vars
  <2>3. CASE Reason(r)
      BY <2>3, QuietStep DEF Reason, vars
  <2>4. CASE Ask(r)
    <3>1. [Next]_vars
        BY <2>4 DEF Ask, Next, CallStep
    <3>2. TurnsOK'
        BY <2>4, CallMoves DEF Ask, Admit, Send, requestVars, Under
    <3> QED
        BY <3>1, <3>2
  <2>5. CASE AskRefused(r)
    <3>1. [Next]_vars
        BY <2>5 DEF AskRefused, Next, CallStep
    <3>2. TurnsOK'
        BY <2>5, CallMoves DEF AskRefused, Refuse, Emit, Under
    <3> QED
        BY <3>1, <3>2
  <2>6. CASE Answered(r)
    <3>1. [Next]_vars
        BY <2>6 DEF Answered, Next, CallStep, Answer
    <3>2. ~Between(r) /\ pc' = [pc EXCEPT ![Call(r)] = "returned"]
        BY <2>6 DEF Answered, Succeed, Between
    <3>3. ASSUME stage[r] = "reason" PROVE TurnsOK'
        BY <2>6, <3>2, <3>3, CallMoves DEF Answered, Emit
    <3>4. ASSUME stage[r] = "evidence" PROVE TurnsOK'
        BY <2>6, <3>2, <3>4, TurnMoves DEF Answered
    <3> QED
        BY <2>6, <3>1, <3>3, <3>4 DEF Answered, Under
  <2>7. CASE Malformed(r)
    <3>1. [Next]_vars
        BY <2>7 DEF Malformed, Next, CallStep, Answer
    <3>2. TurnsOK'
        BY <2>7, CallMoves DEF Malformed, Succeed, Between
    <3> QED
        BY <3>1, <3>2
  <2>8. CASE Unanswered(r)
    <3>1. [Next]_vars
        BY <2>8 DEF Unanswered, Next, CallStep, Answer
    <3>2. ~Between(r) /\ \E s \in {"sleeping", "raised"} : pc' = [pc EXCEPT ![Call(r)] = s]
        BY <2>8 DEF Unanswered, Throttled, Faulted, Between
    <3>3. UNCHANGED stage \/ stage' = [stage EXCEPT ![r] = "emitted"]
        BY <2>8 DEF Unanswered, Emit
    <3>4. TurnsOK'
        BY <2>8, <3>2, <3>3, CallMoves DEF Unanswered
    <3> QED
        BY <3>1, <3>4
  <2>9. CASE AskAgain(r)
    <3>1. [Next]_vars
        BY <2>9 DEF AskAgain, Next, CallStep
    <3>2. TurnsOK'
        BY <2>9, CallMoves DEF AskAgain, Retry, Send, Between, requestVars
    <3> QED
        BY <3>1, <3>2
  <2> QED
      BY <1>1, <2>1, <2>2, <2>3, <2>4, <2>5, <2>6, <2>7, <2>8, <2>9
      DEF RequestStep
<1>2. CASE ClockAdvances
    BY <1>2 DEF ClockAdvances, CoolOff, callVars, requestVars, Next, TurnsOK, Between, Call
<1>3. CASE UNCHANGED serviceVars
    BY <1>3 DEF serviceVars, vars, requestVars, TurnsOK, Between, Call
<1> QED
    BY <1>1, <1>2, <1>3 DEF ServiceNext

\* The composition implements the component: seen at the breaker, any number of
\* concurrent assessments behave as module Resilience says.
LEMMA ServiceKeepsResilience == ServiceSpec => Spec
<1>1. ServiceInit => Init
    BY DEF ServiceInit
<1> QED
    BY InitTurns, TurnStep, <1>1, PTL DEF ServiceSpec, Spec

\* What is proved of the breaker and the retry loop holds of the service.
THEOREM ServiceInherits == ServiceSpec => [](BreakerAgreement /\ TrafficBudget)
  BY ServiceKeepsResilience, BreakerAgrees, TrafficBounded, PTL

=============================================================================
