-------------------------------- MODULE Service --------------------------------
(***************************************************************************)
(* Several assessments at once over the one chat breaker of llm.py.  Every *)
(* chat call of a request is an invocation of call_with_resilience() of    *)
(* module Resilience.  The turns of a request are those of module          *)
(* Pipeline, reduced to these calls: refinement turns, then one reasoning  *)
(* call.  Searches between them are left out, as their providers have      *)
(* breakers of their own, and so is what the calls cost.                   *)
(***************************************************************************)
EXTENDS Resilience

CONSTANTS
    Requests,    \* assessments under way
    MaxTurns     \* chat calls of a request: refinement turns and the reasoning call

ASSUME ServiceAssumption ==
    /\ Calls = Requests \X (1..MaxTurns)
    /\ MaxTurns \in Nat \ {0}

VARIABLES
    stage,     \* where each request is
    turn       \* its current chat call, or the one it would make next

requestVars == <<stage, turn>>
serviceVars == <<vars, requestVars>>

ServiceInit ==
    /\ Init
    /\ stage = [r \in Requests |-> "waiting"]
    /\ turn = [r \in Requests |-> 1]

-----------------------------------------------------------------------------

Call(r) == <<r, turn[r]>>

\* Not inside a chat call.
Between(r) == pc[Call(r)] = "idle"

Under(r) == stage[r] \in {"evidence", "reason"}

\* Once the try block is left, the request is decided and emitted before the next
\* await.
Emit(r) == stage' = [stage EXCEPT ![r] = "emitted"]

Begin(r) ==
    /\ stage[r] = "waiting"
    /\ stage' = [stage EXCEPT ![r] = "evidence"]
    /\ UNCHANGED <<vars, turn>>

\* The reasoning call is not made: a search finds the embeddings or the vector
\* store unavailable, and the request ends in the handler of UpstreamUnavailable,
\* or gate A blocks.
Blocked(r) ==
    /\ stage[r] = "evidence" /\ Between(r)
    /\ Emit(r)
    /\ UNCHANGED <<vars, turn>>

\* The evidence is gathered: the next chat call is the last.
Reason(r) ==
    /\ stage[r] = "evidence" /\ Between(r)
    /\ stage' = [stage EXCEPT ![r] = "reason"]
    /\ UNCHANGED <<vars, turn>>

\* complete() in a refinement turn, complete_structured() to reason.
Ask(r) ==
    /\ Under(r) /\ Between(r)
    /\ stage[r] = "evidence" => turn[r] < MaxTurns
    /\ Admit(Call(r))
    /\ UNCHANGED requestVars

\* "circuit open"
AskRefused(r) ==
    /\ Under(r) /\ Between(r)
    /\ stage[r] = "evidence" => turn[r] < MaxTurns
    /\ Refuse(Call(r))
    /\ Emit(r)
    /\ UNCHANGED turn

\* A completion with a message in it.  What complete_structured() cannot
\* validate is no draft, and ends the reasoning all the same.
Answered(r) ==
    /\ Under(r)
    /\ Succeed(Call(r))
    /\ IF stage[r] = "reason" THEN Emit(r) /\ UNCHANGED turn
       ELSE turn' = [turn EXCEPT ![r] = @ + 1] /\ UNCHANGED stage

\* A completion without choices: _to_llm_response() raises out of reach of the
\* retries and of the handler, and the request fails without an audit record.
Malformed(r) ==
    /\ Under(r)
    /\ Succeed(Call(r))
    /\ stage' = [stage EXCEPT ![r] = "failed"]
    /\ UNCHANGED turn

\* A 429 or a fault; the request is escalated when the call gives up.
Unanswered(r) ==
    /\ Under(r)
    /\ Throttled(Call(r)) \/ Faulted(Call(r))
    /\ IF pc'[Call(r)] = "raised" THEN Emit(r) ELSE UNCHANGED stage
    /\ UNCHANGED turn

AskAgain(r) == Retry(Call(r)) /\ UNCHANGED requestVars

ClockAdvances == CoolOff /\ UNCHANGED requestVars

RequestStep(r) ==
    \/ Blocked(r) \/ Reason(r)
    \/ Ask(r) \/ AskRefused(r) \/ AskAgain(r)
    \/ Answered(r) \/ Malformed(r) \/ Unanswered(r)

ServiceNext ==
    \/ ClockAdvances
    \/ \E r \in Requests : Begin(r) \/ RequestStep(r)

ServiceSpec == ServiceInit /\ [][ServiceNext]_serviceVars

\* The event loop runs every task that can go on, and wait_for and sleep bound
\* what a task waits for: a request that has begun is never left standing.
FairServiceSpec ==
    /\ ServiceSpec
    /\ WF_serviceVars(ClockAdvances)
    /\ \A r \in Requests : WF_serviceVars(RequestStep(r))

-----------------------------------------------------------------------------
(* Properties *)

\* An assessment that has begun is emitted or fails, whatever the other requests
\* do to the breaker they share.
RequestsEnd ==
    \A r \in Requests : stage[r] = "evidence" ~> stage[r] \in {"emitted", "failed"}

=============================================================================
