------------------------------ MODULE Resilience ------------------------------
(***************************************************************************)
(* Retries, back-off and the circuit breaker of resilience.py, for ONE     *)
(* upstream service.  Every element of Calls is one invocation of          *)
(* call_with_resilience(); all of them share the one CircuitBreaker the    *)
(* service's module owns.  The invocations run on one event loop and       *)
(* interleave only where the coroutine awaits: inside wait_for(fn()) and   *)
(* inside sleep(delay).  Everything between two awaits is one action.      *)
(*                                                                         *)
(* Time is abstracted to what the breaker reads of it: whether             *)
(* reset_after_seconds have passed since _opened_at.                       *)
(***************************************************************************)
EXTENDS Integers, FiniteSets, FiniteSetsExt

CONSTANTS
    Calls,              \* invocations of call_with_resilience
    FailureThreshold,   \* CircuitBreaker.failure_threshold
    Attempts,           \* attempts: faults after which a call gives up
    RateLimitAttempts   \* rate_limit_attempts: 429s a call waits out

ASSUME BudgetAssumption ==
    /\ FailureThreshold \in Nat \ {0}
    /\ Attempts \in Nat \ {0}
    /\ RateLimitAttempts \in Nat

\* A process makes finitely many invocations; what they saw can be added up.
ASSUME FinitelyManyCalls == IsFiniteSet(Calls)

VARIABLES
    failures,   \* CircuitBreaker._failures
    opened,     \* CircuitBreaker._opened_at, as time sees it
    pc,         \* where each invocation is
    faults,     \* the invocation's local counter of faults
    throttles,  \* the invocation's local counter of 429s
    sent        \* history: requests the invocation has put on the wire

breakerVars == <<failures, opened>>
callVars == <<pc, faults, throttles, sent>>
vars == <<failures, opened, pc, faults, throttles, sent>>

\* "unset": _opened_at is None.  "cooling": set, less than reset_after ago.
\* "cooled": set, at least reset_after ago.
OpenedAt == {"unset", "cooling", "cooled"}

\* CircuitBreaker.state, a function of _opened_at and the clock.
StateOf(o) == CASE o = "unset"   -> "closed"
                [] o = "cooling" -> "open"
                [] o = "cooled"  -> "half_open"

state == StateOf(opened)

Ended == {"returned", "raised"}

Init ==
    /\ failures = 0
    /\ opened = "unset"
    /\ pc = [c \in Calls |-> "idle"]
    /\ faults = [c \in Calls |-> 0]
    /\ throttles = [c \in Calls |-> 0]
    /\ sent = [c \in Calls |-> 0]

-----------------------------------------------------------------------------
(* CircuitBreaker *)

\* Mutant of RecordSuccess: the stamp is cleared and the count is not.
RecordSuccessKeepsCount == failures' = failures /\ opened' = "unset"

\* record_success: forget every failure, whatever state the breaker is in.
RecordSuccess ==
    /\ failures' = 0
    /\ opened' = "unset"

\* record_failure: count it; trip or re-trip, stamping _opened_at with now.
RecordFailure ==
    /\ failures' = failures + 1
    /\ opened' = IF state = "half_open" \/ failures + 1 >= FailureThreshold
                 THEN "cooling"
                 ELSE opened

\* reset_after_seconds have gone by since the last stamp.
CoolOff ==
    /\ opened = "cooling"
    /\ opened' = "cooled"
    /\ UNCHANGED <<failures, callVars>>

-----------------------------------------------------------------------------
(* call_with_resilience *)

\* fn() is invoked: one request goes on the wire.
Send(c) ==
    /\ pc' = [pc EXCEPT ![c] = "calling"]
    /\ sent' = [sent EXCEPT ![c] = @ + 1]

\* before_call() lets the invocation through to its first request.
Admit(c) ==
    /\ pc[c] = "idle"
    /\ state # "open"
    /\ Send(c)
    /\ UNCHANGED <<breakerVars, faults, throttles>>

\* before_call() raises UpstreamUnavailable("circuit open"): nothing is sent.
Refuse(c) ==
    /\ pc[c] = "idle"
    /\ state = "open"
    /\ pc' = [pc EXCEPT ![c] = "raised"]
    /\ UNCHANGED <<breakerVars, faults, throttles, sent>>

\* fn() returned in time.
Succeed(c) ==
    /\ pc[c] = "calling"
    /\ RecordSuccess
    /\ pc' = [pc EXCEPT ![c] = "returned"]
    /\ UNCHANGED <<faults, throttles, sent>>

\* Mutant of Throttled: a 429 is reported to the breaker.
ThrottledTrips(c) ==
    /\ pc[c] = "calling"
    /\ throttles' = [throttles EXCEPT ![c] = @ + 1]
    /\ RecordFailure
    /\ pc' = [pc EXCEPT ![c] = IF throttles[c] + 1 > RateLimitAttempts
                               THEN "raised" ELSE "sleeping"]
    /\ UNCHANGED <<faults, sent>>

\* fn() raised and is_rate_limited(exc): the breaker is not told.
Throttled(c) ==
    /\ pc[c] = "calling"
    /\ throttles' = [throttles EXCEPT ![c] = @ + 1]
    /\ pc' = [pc EXCEPT ![c] = IF throttles[c] + 1 > RateLimitAttempts
                               THEN "raised" ELSE "sleeping"]
    /\ UNCHANGED <<breakerVars, faults, sent>>

\* Mutant of Faulted: faults > attempts where the code has >=.
FaultedOnceMore(c) ==
    /\ pc[c] = "calling"
    /\ faults' = [faults EXCEPT ![c] = @ + 1]
    /\ RecordFailure
    /\ pc' = [pc EXCEPT ![c] = IF faults[c] + 1 > Attempts
                               THEN "raised" ELSE "sleeping"]
    /\ UNCHANGED <<throttles, sent>>

\* fn() raised anything else, or wait_for timed out.
Faulted(c) ==
    /\ pc[c] = "calling"
    /\ faults' = [faults EXCEPT ![c] = @ + 1]
    /\ RecordFailure
    /\ pc' = [pc EXCEPT ![c] = IF faults[c] + 1 >= Attempts
                               THEN "raised" ELSE "sleeping"]
    /\ UNCHANGED <<throttles, sent>>

\* Mutant of Retry: a retry waits for the breaker to close, which only the
\* success of a retry could bring about.
RetryWhenClosed(c) ==
    /\ pc[c] = "sleeping"
    /\ state = "closed"
    /\ Send(c)
    /\ UNCHANGED <<breakerVars, faults, throttles>>

\* sleep(delay) is over: the loop goes round and calls fn() again.  The loop
\* starts below before_call(), so the breaker is not asked a second time.
Retry(c) ==
    /\ pc[c] = "sleeping"
    /\ Send(c)
    /\ UNCHANGED <<breakerVars, faults, throttles>>

Answer(c) == Succeed(c) \/ Throttled(c) \/ Faulted(c)

CallStep(c) == Admit(c) \/ Refuse(c) \/ Answer(c) \/ Retry(c)

Next ==
    \/ CoolOff
    \/ \E c \in Calls : CallStep(c)

Spec == Init /\ [][Next]_vars

\* wait_for bounds every fn() by `timeout`, sleep() by at most 60 seconds, and
\* the clock advances.  Whether a call is made at all is up to the caller.
FairSpec ==
    /\ Spec
    /\ WF_vars(CoolOff)
    /\ \A c \in Calls : WF_vars(Answer(c)) /\ WF_vars(Retry(c))

-----------------------------------------------------------------------------
(* Properties *)

\* Every variable holds a value the code can give it.
TypeOK ==
    /\ failures \in Nat
    /\ opened \in OpenedAt
    /\ pc \in [Calls -> {"idle", "calling", "sleeping", "returned", "raised"}]
    /\ faults \in [Calls -> Nat]
    /\ throttles \in [Calls -> Nat]
    /\ sent \in [Calls -> Nat]

\* The two fields of the breaker never disagree: _opened_at is set exactly when
\* the failure count has reached the threshold, so no half-open breaker can be
\* one failure short of re-opening and none stays shut over the threshold.
BreakerAgreement == opened # "unset" <=> failures >= FailureThreshold

\* The retry loop's two counters bound the traffic of one invocation, however
\* 429s and faults are mixed: attempts + rate_limit_attempts requests at most.
TrafficBudget == \A c \in Calls : sent[c] <= Attempts + RateLimitAttempts

\* Only genuine faults move the breaker (is_rate_limited): its count never
\* exceeds the faults its callers saw, so 429s alone cannot open it.
NoPhantomFailures == failures <= MapThenSumSet(LAMBDA c : faults[c], Calls)

\* A call that ends in UpstreamUnavailable has a reason: it was refused with
\* nothing on the wire, or it used up one of its two budgets.
RaiseHasCause == \A c \in Calls : pc[c] = "raised" =>
    \/ sent[c] = 0
    \/ faults[c] = Attempts
    \/ throttles[c] = RateLimitAttempts + 1

\* "A single success in half-open closes it", and nothing but a success ever
\* closes the breaker or forgets a failure.
OnlySuccessForgives == [][
    failures' < failures => \E c \in Calls : pc[c] = "calling" /\ pc'[c] = "returned"]_vars

\* "... instead of hanging" (module docstring): an invocation that has begun
\* comes to an end, whatever mix of faults and 429s the service answers with.
EveryCallEnds == \A c \in Calls : pc[c] = "calling" ~> pc[c] \in Ended

=============================================================================
