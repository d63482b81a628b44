------------------------------- MODULE Admission -------------------------------
(***************************************************************************)
(* What the service promises about load: at most Slots assessments run at  *)
(* a time; a synchronous request is started or turned away, and only a job *)
(* may be queued; what was started ends, or is lost with the process.      *)
(***************************************************************************)
EXTENDS Naturals, FiniteSets

CONSTANTS Callers, Jobs, Slots

VARIABLE stage  \* of each request: "out", "queued" or "working"

InUse == Cardinality({t \in Callers \cup Jobs : stage[t] = "working"})

Move(t, from, to) == stage[t] = from /\ stage' = [stage EXCEPT ![t] = to]

Init == stage = [t \in Callers \cup Jobs |-> "out"]

Begin(t) == InUse < Slots /\ Move(t, IF t \in Jobs THEN "queued" ELSE "out", "working")
Enqueue(j) == Move(j, "out", "queued")
End(t) == Move(t, "working", "out")
LoseAll == stage' = [t \in Callers \cup Jobs |-> "out"]

Next ==
    \/ \E t \in Callers \cup Jobs : Begin(t) \/ End(t)
    \/ \E j \in Jobs : Enqueue(j)
    \/ LoseAll

Spec == Init /\ [][Next]_stage

=============================================================================
