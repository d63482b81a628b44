------------------------------ MODULE JobService ------------------------------
(***************************************************************************)
(* The HTTP side of an assessment: the two modes of POST /assess, polling  *)
(* (api/routes.py), the in-process JobStore (jobs.py) and the semaphore    *)
(* that bounds concurrent assessments (api/main.py).                       *)
(*                                                                         *)
(* A step is what one coroutine does between two points where it really    *)
(* suspends.  JobStore's lock is never held across one, so acquiring it    *)
(* never suspends; locked() and the acquire after it are one step too.     *)
(* The pipeline is a wait that ends with a result or an exception.         *)
(***************************************************************************)
EXTENDS Integers, Sequences, FiniteSets

CONSTANTS
    Callers,     \* clients of the synchronous mode, each calling again and again
    Jobs,        \* ids of the jobs submitted in asynchronous mode
    Principals,  \* authenticated principals
    Owner,       \* Owner[j]: the principal that submits job j
    Slots,       \* Settings.max_concurrent_assessments
    Ttl,         \* Settings.job_ttl_seconds, in ticks
    MaxTime,     \* bound: ticks of the wall clock
    MaxRestarts, \* bound: restarts of the process
    Absent       \* no job, or a 404

ASSUME JobServiceAssumption ==
    /\ IsFiniteSet(Callers) /\ IsFiniteSet(Jobs)
    /\ Callers \cap Jobs = {}
    /\ Owner \in [Jobs -> Principals]
    /\ Slots \in Nat \ {0}
    /\ Ttl \in Nat
    /\ MaxTime \in Nat
    /\ MaxRestarts \in Nat
    /\ Absent \notin {"queued", "running", "succeeded", "failed"}

VARIABLES
    pc,       \* where each caller's request and each job's task is
    value,    \* inflight._value
    waiters,  \* inflight._waiters, first come first served
    woken,    \* how many of the first waiters hold a finished future
    store,    \* JobStore._jobs: the record of each job, or Absent
    now,      \* time.time(), in ticks
    told,     \* history: what each principal last read about each job
    restarts  \* history: restarts so far

vars == <<pc, value, waiters, woken, store, now, told, restarts>>

Tasks == Callers \cup Jobs
Outcomes == {"succeeded", "failed"}
Statuses == {"queued", "running"} \cup Outcomes

Job == [status : Statuses, created : Nat]

Working == {t \in Tasks : pc[t] = "working"}

Init ==
    /\ pc = [t \in Tasks |-> "new"]
    /\ value = Slots
    /\ waiters = <<>>
    /\ woken = 0
    /\ store = [j \in Jobs |-> Absent]
    /\ now = 0
    /\ told = [j \in Jobs |-> [p \in Principals |-> Absent]]
    /\ restarts = 0

-----------------------------------------------------------------------------
(* asyncio.Semaphore: a woken waiter has been given its slot but keeps its *)
(* place in the queue until it runs, and the semaphore counts as locked    *)
(* until then.                                                             *)

Locked == value = 0 \/ waiters # <<>>

\* `async with inflight`, up to the first suspension.
Acquire(t) ==
    \/ /\ ~Locked
       /\ value' = value - 1
       /\ pc' = [pc EXCEPT ![t] = "working"]
       /\ UNCHANGED <<waiters, woken>>
    \/ /\ Locked
       /\ waiters' = Append(waiters, t)
       /\ pc' = [pc EXCEPT ![t] = "waiting"]
       /\ UNCHANGED <<value, woken>>

\* A slot is handed to the first waiter that has none, or goes back.
Release ==
    /\ IF woken < Len(waiters)
       THEN woken' = woken + 1 /\ UNCHANGED value
       ELSE value' = value + 1 /\ UNCHANGED woken
    /\ UNCHANGED waiters

\* A woken waiter runs, in the order of waking, and wakes others if slots are
\* free: one of them or as many as fit, as the Python release has it.
Resume ==
    /\ woken > 0
    /\ pc' = [pc EXCEPT ![Head(waiters)] = "working"]
    /\ waiters' = Tail(waiters)
    /\ \E more \in 0..value :
        /\ more <= Len(waiters) - woken
        /\ value > 0 /\ Len(waiters) > woken => more > 0
        /\ woken' = woken - 1 + more
        /\ value' = value - more
    /\ UNCHANGED <<store, now, told, restarts>>

-----------------------------------------------------------------------------
(* JobStore *)

Expired(job) == job.created < now - Ttl

\* create: expired jobs are dropped only here, whatever their status.
Create(j) ==
    store' = [k \in Jobs |->
        IF k = j THEN [status |-> "queued", created |-> now]
        ELSE IF store[k] # Absent /\ Expired(store[k]) THEN Absent
        ELSE store[k]]

\* Mutant of Update: a job that is not there is put there.
UpdateRevives(j, status) ==
    store' = [store EXCEPT ![j] = [status |-> status, created |-> now]]

\* update: silently does nothing when the job was evicted.
Update(j, status) ==
    store' = IF store[j] = Absent THEN store ELSE [store EXCEPT ![j].status = status]

\* Mutant of Get: any principal may read any job.
GetAny(j, p) == IF store[j] = Absent THEN Absent ELSE store[j].status

\* get: a job is there for the principal that created it only.
Get(j, p) == IF store[j] = Absent \/ Owner[j] # p THEN Absent ELSE store[j].status

-----------------------------------------------------------------------------
(* The routes *)

\* The synchronous mode refuses with 429 when no slot can be had at once.
Refuse(c) ==
    /\ pc[c] = "new"
    /\ Locked
    /\ pc' = [pc EXCEPT ![c] = "refused"]
    /\ UNCHANGED <<value, waiters, woken, store, now, told, restarts>>

AssessSync(c) ==
    /\ pc[c] = "new"
    /\ ~Locked
    /\ Acquire(c)
    /\ UNCHANGED <<store, now, told, restarts>>

\* Mutant of Answer: an exception keeps the slot.
AnswerKeepsSlot(c) ==
    /\ pc[c] = "working"
    /\ \/ pc' = [pc EXCEPT ![c] = "failed"] /\ UNCHANGED <<value, waiters, woken>>
       \/ pc' = [pc EXCEPT ![c] = "succeeded"] /\ Release
    /\ UNCHANGED <<store, now, told, restarts>>

\* The slot is released before the audit record is logged and the response
\* returned; an exception leaves as a 500.
Answer(c) ==
    /\ pc[c] = "working"
    /\ Release
    /\ \E outcome \in Outcomes : pc' = [pc EXCEPT ![c] = outcome]
    /\ UNCHANGED <<store, now, told, restarts>>

\* The client calls again.
CallAgain(c) ==
    /\ pc[c] \in {"refused", "lost"} \cup Outcomes
    /\ pc' = [pc EXCEPT ![c] = "new"]
    /\ UNCHANGED <<value, waiters, woken, store, now, told, restarts>>

\* The asynchronous mode: a job and its task, and a 202 that says "queued".
Submit(j) ==
    /\ pc[j] = "new"
    /\ Create(j)
    /\ pc' = [pc EXCEPT ![j] = "accepted"]
    /\ told' = [told EXCEPT ![j][Owner[j]] = "queued"]
    /\ UNCHANGED <<value, waiters, woken, now, restarts>>

\* Mutant of RunJob: `async with inflight` is left out.
RunJobUnbounded(j) ==
    /\ pc[j] = "accepted"
    /\ Update(j, "running")
    /\ pc' = [pc EXCEPT ![j] = "working"]
    /\ UNCHANGED <<value, waiters, woken, now, told, restarts>>

\* _run_job: the job is "running" before it has a slot.
RunJob(j) ==
    /\ pc[j] = "accepted"
    /\ Update(j, "running")
    /\ Acquire(j)
    /\ UNCHANGED <<now, told, restarts>>

\* Mutant of EndJob: a failed assessment keeps its slot.
EndJobKeepsSlot(j) ==
    /\ pc[j] = "working"
    /\ \E outcome \in Outcomes :
        /\ IF outcome = "failed" THEN UNCHANGED <<value, waiters, woken>> ELSE Release
        /\ pc' = [pc EXCEPT ![j] = outcome]
        /\ Update(j, outcome)
    /\ UNCHANGED <<now, told, restarts>>

EndJob(j) ==
    /\ pc[j] = "working"
    /\ Release
    /\ \E outcome \in Outcomes :
        /\ pc' = [pc EXCEPT ![j] = outcome]
        /\ Update(j, outcome)
    /\ UNCHANGED <<now, told, restarts>>

\* GET /assess/{job_id}
Poll(j, p) ==
    /\ pc[j] # "new"
    /\ told' = [told EXCEPT ![j][p] = Get(j, p)]
    /\ UNCHANGED <<pc, value, waiters, woken, store, now, restarts>>

Tick ==
    /\ now < MaxTime
    /\ now' = now + 1
    /\ UNCHANGED <<pc, value, waiters, woken, store, told, restarts>>

\* The process stops, at any point, and lifespan() starts over: nothing waits
\* for app.state.running, and nothing of app.state is kept.
Restart ==
    /\ restarts < MaxRestarts
    /\ restarts' = restarts + 1
    /\ pc' = [t \in Tasks |->
                IF pc[t] \in {"accepted", "waiting", "working"} THEN "lost" ELSE pc[t]]
    /\ value' = Slots
    /\ waiters' = <<>>
    /\ woken' = 0
    /\ store' = [j \in Jobs |-> Absent]
    /\ UNCHANGED <<now, told>>

Next ==
    \/ \E c \in Callers : Refuse(c) \/ AssessSync(c) \/ Answer(c) \/ CallAgain(c)
    \/ \E j \in Jobs : Submit(j) \/ RunJob(j) \/ EndJob(j)
    \/ \E j \in Jobs, p \in Principals : Poll(j, p)
    \/ Resume \/ Tick \/ Restart

Spec == Init /\ [][Next]_vars

\* The event loop runs every task that can run, and every assessment ends.
FairSpec ==
    /\ Spec
    /\ WF_vars(Resume)
    /\ \A c \in Callers : WF_vars(Answer(c))
    /\ \A j \in Jobs : WF_vars(RunJob(j)) /\ WF_vars(EndJob(j))

-----------------------------------------------------------------------------
(* Refinement *)

stage == [t \in Tasks |->
    CASE pc[t] = "working" -> "working"
      [] pc[t] \in {"accepted", "waiting"} -> "queued"
      [] OTHER -> "out"]

Admission == INSTANCE Admission

\* Whatever way requests come in, they are admitted as Admission says.
KeepsAdmission == Admission!Spec

-----------------------------------------------------------------------------
(* Properties *)

\* Every variable holds a value the code can give it.
TypeOK ==
    /\ pc \in [Tasks -> {"new", "refused", "accepted", "waiting", "working", "lost"} \cup Outcomes]
    /\ value \in Nat
    /\ waiters \in Seq(Tasks)
    /\ woken \in 0..Len(waiters)
    /\ store \in [Jobs -> Job \cup {Absent}]
    /\ now \in Nat
    /\ told \in [Jobs -> [Principals -> Statuses \cup {Absent}]]
    /\ restarts \in Nat

\* No slot is lost or made, on any way out of an assessment: those free, those
\* promised to a woken waiter and those in use are max_concurrent_assessments.
SlotsConserved == value + woken + Cardinality(Working) = Slots

\* routes.py: "excess load is refused with 429 ... rather than queued": no
\* synchronous request ever waits for a slot.
SyncNeverQueues ==
    /\ \A i \in DOMAIN waiters : waiters[i] \in Jobs
    /\ \A c \in Callers : pc[c] # "waiting"

\* API.md: "Jobs are readable only by the principal that created them"; and
\* what a principal has read of an outcome is what became of the job.
ToldOwnOutcome ==
    \A j \in Jobs, p \in Principals :
        told[j][p] # Absent =>
            /\ p = Owner[j]
            /\ told[j][p] \in Outcomes => pc[j] = told[j][p]

\* A client that polls sees its job go forward only: an outcome stands, a job
\* that is gone stays gone, and a running job is never queued again.
NeverBackwards == [][
    \A j \in Jobs, p \in Principals :
        LET before == told[j][p]
            after == told'[j][p]
        IN  pc[j] # "new" => \/ after \in {before, Absent}
                             \/ before = "queued"
                             \/ before = "running" /\ after \in Outcomes]_vars

\* Every accepted job comes to an end, however many synchronous callers keep
\* coming and whatever fails: it is answered, failed or lost with the process.
JobsEnd == \A j \in Jobs : pc[j] = "accepted" ~> pc[j] \in Outcomes \cup {"lost"}

=============================================================================
