--------------------------- MODULE JobServiceProofs ---------------------------
(***************************************************************************)
(* Proofs about admission, jobs and polls, for every finite set of callers *)
(* and jobs, every number of slots, any TTL and any number of restarts.    *)
(***************************************************************************)
EXTENDS JobService, FiniteSetTheorems, SequenceTheorems, TLAPS

\* Who waits, and what the route of each kind of request can be at.
QueueOK ==
    /\ \A i \in 1..Len(waiters) : waiters[i] \in Jobs /\ pc[waiters[i]] = "waiting"
    /\ \A i, k \in 1..Len(waiters) : waiters[i] = waiters[k] => i = k
    /\ \A c \in Callers : pc[c] \notin {"accepted", "waiting"}

\* A record that has not been evicted says where its job is.
StoreOK ==
    \A j \in Jobs : store[j] # Absent =>
        \/ pc[j] = "accepted" /\ store[j].status = "queued"
        \/ pc[j] \in {"waiting", "working"} /\ store[j].status = "running"
        \/ pc[j] \in Outcomes /\ store[j].status = pc[j]

\* What a principal was told is not ahead of the job, and an owner that was
\* told 404 was told so of a job whose record is gone.
ToldOK ==
    \A j \in Jobs, p \in Principals :
        /\ told[j][p] # Absent => p = Owner[j] /\ pc[j] # "new"
        /\ told[j][p] = "running" => pc[j] \in {"waiting", "working", "lost"} \cup Outcomes
        /\ told[j][p] \in Outcomes => pc[j] = told[j][p]
        /\ told[j][p] = Absent /\ p = Owner[j] /\ pc[j] # "new" => store[j] = Absent

\* The inductive invariant.
Inv == TypeOK /\ SlotsConserved /\ QueueOK /\ StoreOK /\ ToldOK

-----------------------------------------------------------------------------
(* Counting the assessments in progress *)

\* They are finitely many.
LEMMA WorkingIsFinite == IsFiniteSet(Working) /\ Cardinality(Working) \in Nat
<1>1. IsFiniteSet(Tasks)
    BY FS_Union, JobServiceAssumption DEF Tasks
<1> QED
    BY <1>1, FS_Subset, FS_CardinalityType DEF Working

\* A task that starts working is one more.
LEMMA OneMore ==
    ASSUME TypeOK, NEW t \in Tasks, pc[t] # "working",
           pc' = [pc EXCEPT ![t] = "working"]
    PROVE  Cardinality(Working') = Cardinality(Working) + 1
<1>1. Working' = Working \cup {t} /\ t \notin Working
    BY DEF Working, TypeOK
<1> QED
    BY <1>1, WorkingIsFinite, FS_AddElement

\* A task that stops working is one fewer.
LEMMA OneFewer ==
    ASSUME TypeOK, NEW t \in Tasks, pc[t] = "working",
           NEW s, s # "working", pc' = [pc EXCEPT ![t] = s]
    PROVE  Cardinality(Working') = Cardinality(Working) - 1
<1>1. Working' = Working \ {t} /\ t \in Working
    BY DEF Working, TypeOK
<1> QED
    BY <1>1, WorkingIsFinite, FS_RemoveElement

\* Any other move changes nothing.
LEMMA SameNumber ==
    ASSUME TypeOK, NEW t \in Tasks, pc[t] # "working",
           NEW s, s # "working", pc' = [pc EXCEPT ![t] = s]
    PROVE  Working' = Working
  BY DEF Working, TypeOK

-----------------------------------------------------------------------------
(* The invariant is inductive *)

\* Every initial state satisfies it.
LEMMA InitInv == Init => Inv
<1> SUFFICES ASSUME Init PROVE Inv
    OBVIOUS
<1>1. Working = {}
    BY DEF Init, Working
<1>2. SlotsConserved
    BY <1>1, FS_EmptySet, JobServiceAssumption DEF Init, SlotsConserved
<1>3. TypeOK
    BY JobServiceAssumption DEF Init, TypeOK, Outcomes, Statuses
<1>4. QueueOK
    BY DEF Init, QueueOK, Tasks
<1>5. StoreOK /\ ToldOK
    BY JobServiceAssumption DEF Init, StoreOK, ToldOK, Tasks, Outcomes
<1> QED
    BY <1>2, <1>3, <1>4, <1>5 DEF Inv

\* What Acquire does to the types, the slots and the queue, for a job or for a
\* caller that found the semaphore unlocked.
LEMMA AcquireStep ==
    ASSUME TypeOK, SlotsConserved, QueueOK, NEW t \in Tasks,
           pc[t] \in {"new", "accepted"}, Acquire(t), t \in Jobs \/ ~Locked
    PROVE  /\ pc' \in [Tasks -> {"new", "refused", "accepted", "waiting", "working", "lost"}
                                    \cup Outcomes]
           /\ value' \in Nat /\ waiters' \in Seq(Tasks) /\ woken' \in 0..Len(waiters')
           /\ SlotsConserved' /\ QueueOK'
<1>1. CASE ~Locked
  <2>1. value' = value - 1 /\ pc' = [pc EXCEPT ![t] = "working"] /\ value # 0
        /\ waiters' = waiters /\ woken' = woken /\ waiters = <<>>
      BY <1>1 DEF Acquire, Locked
  <2>2. Cardinality(Working') = Cardinality(Working) + 1
      BY <2>1, OneMore
  <2>3. SlotsConserved'
      BY <2>1, <2>2, WorkingIsFinite DEF SlotsConserved, TypeOK
  <2> QED
      BY <2>1, <2>3 DEF TypeOK, QueueOK
<1>2. CASE Locked
  <2>1. /\ waiters' = Append(waiters, t) /\ pc' = [pc EXCEPT ![t] = "waiting"]
        /\ value' = value /\ woken' = woken /\ t \in Jobs
      BY <1>2 DEF Acquire
  <2>2. SlotsConserved'
      BY <2>1, SameNumber DEF SlotsConserved
  <2>3. /\ waiters' \in Seq(Tasks) /\ Len(waiters') = Len(waiters) + 1
        /\ \A i \in 1..Len(waiters) : waiters'[i] = waiters[i]
        /\ waiters'[Len(waiters) + 1] = t
      BY <2>1, AppendProperties DEF TypeOK
  <2>4. \A i \in 1..Len(waiters) : waiters[i] # t
      BY DEF QueueOK
  <2>5. QueueOK'
      BY <2>1, <2>3, <2>4, JobServiceAssumption DEF QueueOK, TypeOK
  <2> QED
      BY <2>1, <2>2, <2>3, <2>5 DEF TypeOK
<1> QED
    BY <1>1, <1>2

\* A worker's unit of the limit goes to a woken waiter or back to the value.
LEMMA UnitHandedOn ==
    ASSUME NEW v \in Nat, NEW w \in Nat, NEW k \in Nat
    PROVE  /\ v + w + k = v + (w + 1) + (k - 1)
           /\ v + w + k = (v + 1) + w + (k - 1)
    OBVIOUS

\* What Release does to them when a task leaves with an outcome.
LEMMA ReleaseStep ==
    ASSUME TypeOK, SlotsConserved, QueueOK, NEW t \in Tasks, pc[t] = "working",
           Release, NEW o \in Outcomes, pc' = [pc EXCEPT ![t] = o]
    PROVE  /\ pc' \in [Tasks -> {"new", "refused", "accepted", "waiting", "working", "lost"}
                                    \cup Outcomes]
           /\ value' \in Nat /\ waiters' \in Seq(Tasks) /\ woken' \in 0..Len(waiters')
           /\ SlotsConserved' /\ QueueOK'
<1>1. /\ waiters' = waiters /\ value' \in Nat /\ woken' \in 0..Len(waiters)
      /\ \/ value' = value /\ woken' = woken + 1
         \/ value' = value + 1 /\ woken' = woken
    BY DEF Release, TypeOK
<1>2. Cardinality(Working') = Cardinality(Working) - 1
    BY OneFewer DEF Outcomes
<1>3. SlotsConserved'
  <2>1. value \in Nat /\ woken \in Nat
      BY DEF TypeOK
  <2>2. PICK working \in Nat : working = Cardinality(Working)
      BY WorkingIsFinite
  <2>3. Cardinality(Working') = working - 1
      BY <1>2, <2>2
  <2>4. value + woken + working = value' + woken' + (working - 1)
    <3>1. CASE value' = value /\ woken' = woken + 1
        BY <2>1, <2>2, <3>1, UnitHandedOn
    <3>2. CASE value' = value + 1 /\ woken' = woken
        BY <2>1, <2>2, <3>2, UnitHandedOn
    <3> QED
        BY <1>1, <3>1, <3>2
  <2> QED
      BY <2>2, <2>3, <2>4 DEF SlotsConserved
<1>4. QueueOK'
    BY <1>1 DEF QueueOK, TypeOK, Outcomes
<1> QED
    BY <1>1, <1>3, <1>4 DEF TypeOK

\* What Resume does: the first waiter, a waiting job, starts to work.
LEMMA ResumeStep ==
    ASSUME TypeOK, SlotsConserved, QueueOK, Resume
    PROVE  /\ Head(waiters) \in Jobs /\ pc[Head(waiters)] = "waiting"
           /\ pc' = [pc EXCEPT ![Head(waiters)] = "working"]
           /\ pc' \in [Tasks -> {"new", "refused", "accepted", "waiting", "working", "lost"}
                                    \cup Outcomes]
           /\ value' \in Nat /\ waiters' \in Seq(Tasks) /\ woken' \in 0..Len(waiters')
           /\ SlotsConserved' /\ QueueOK'
<1> DEFINE t == Head(waiters)
<1>1. waiters # <<>> /\ Len(waiters) >= 1 /\ t = waiters[1]
    BY DEF Resume, TypeOK
<1>2. t \in Jobs /\ t \in Tasks /\ pc[t] = "waiting"
    BY <1>1 DEF QueueOK, Tasks, TypeOK
<1>3. pc' = [pc EXCEPT ![t] = "working"] /\ waiters' = Tail(waiters)
    BY DEF Resume
<1>4. /\ waiters' \in Seq(Tasks) /\ Len(waiters') = Len(waiters) - 1
      /\ \A i \in 1..Len(waiters') : waiters'[i] = waiters[i + 1]
    BY <1>1, <1>3 DEF TypeOK
<1>5. PICK more \in 0..value : /\ more <= Len(waiters) - woken
                               /\ woken' = woken - 1 + more
                               /\ value' = value - more
    BY DEF Resume
<1>6. value' \in Nat /\ woken' \in 0..Len(waiters') /\ SlotsConserved'
  <2>1. value \in Nat /\ woken \in Nat /\ woken >= 1 /\ more \in Nat
      BY <1>5 DEF TypeOK, Resume
  <2>2. Cardinality(Working') = Cardinality(Working) + 1
      BY <1>2, <1>3, OneMore
  <2>3. SlotsConserved'
      BY <1>5, <2>1, <2>2, WorkingIsFinite DEF SlotsConserved
  <2> QED
      BY <1>4, <1>5, <2>1, <2>3
<1>7. \A i \in 1..Len(waiters') : waiters'[i] # t
    BY <1>1, <1>4 DEF QueueOK, TypeOK
<1>8. QueueOK'
  <2>1. \A i \in 1..Len(waiters') : waiters'[i] \in Jobs /\ pc'[waiters'[i]] = "waiting"
      BY <1>3, <1>4, <1>7 DEF QueueOK, TypeOK, Tasks
  <2>2. \A i, k \in 1..Len(waiters') : waiters'[i] = waiters'[k] => i = k
      BY <1>4 DEF QueueOK, TypeOK
  <2>3. \A c \in Callers : pc'[c] \notin {"accepted", "waiting"}
      BY <1>2, <1>3, JobServiceAssumption DEF QueueOK, TypeOK, Tasks
  <2> QED
      BY <2>1, <2>2, <2>3 DEF QueueOK
<1> QED
    BY <1>2, <1>3, <1>4, <1>6, <1>8 DEF TypeOK

\* A record that is written or read is a record of the store.
LEMMA StoreTypes ==
    ASSUME TypeOK
    PROVE  /\ \A j \in Jobs, s \in Statuses : Update(j, s) => store' \in [Jobs -> Job \cup {Absent}]
           /\ \A j \in Jobs : Create(j) => store' \in [Jobs -> Job \cup {Absent}]
           /\ \A j \in Jobs, p \in Principals : Get(j, p) \in Statuses \cup {Absent}
<1>1. ASSUME NEW j \in Jobs, NEW s \in Statuses, Update(j, s)
      PROVE  store' \in [Jobs -> Job \cup {Absent}]
    BY <1>1 DEF Update, TypeOK, Job
<1>2. ASSUME NEW j \in Jobs, Create(j)
      PROVE  store' \in [Jobs -> Job \cup {Absent}]
    BY <1>2 DEF Create, TypeOK, Job, Statuses
<1>3. ASSUME NEW j \in Jobs, NEW p \in Principals
      PROVE  Get(j, p) \in Statuses \cup {Absent}
    BY DEF Get, TypeOK, Job
<1> QED
    BY <1>1, <1>2, <1>3

\* Types, slots and the queue are kept by every action.
LEMMA CoreStep == Inv /\ [Next]_vars => TypeOK' /\ SlotsConserved' /\ QueueOK'
<1> SUFFICES ASSUME Inv, [Next]_vars PROVE TypeOK' /\ SlotsConserved' /\ QueueOK'
    OBVIOUS
<1>0. TypeOK /\ SlotsConserved /\ QueueOK
    BY DEF Inv
<1>1. ASSUME NEW c \in Callers, Refuse(c) \/ CallAgain(c)
      PROVE  TypeOK' /\ SlotsConserved' /\ QueueOK'
  <2>1. PICK s \in {"refused", "new"} :
            /\ pc' = [pc EXCEPT ![c] = s] /\ pc[c] \notin {"working", "waiting", "accepted"}
            /\ UNCHANGED <<value, waiters, woken, store, now, told, restarts>>
      BY <1>1 DEF Refuse, CallAgain, Outcomes
  <2>2. Working' = Working
      BY <2>1, <1>0, SameNumber DEF Tasks
  <2>3. TypeOK'
      BY <2>1, <1>0 DEF TypeOK
  <2>4. QueueOK'
      BY <2>1, <1>0, JobServiceAssumption DEF QueueOK, TypeOK
  <2> QED
      BY <2>1, <2>2, <2>3, <2>4, <1>0 DEF SlotsConserved
<1>2. ASSUME NEW c \in Callers, AssessSync(c)
      PROVE  TypeOK' /\ SlotsConserved' /\ QueueOK'
    BY <1>0, <1>2, AcquireStep DEF AssessSync, TypeOK, Tasks
<1>3. ASSUME NEW c \in Callers, Answer(c)
      PROVE  TypeOK' /\ SlotsConserved' /\ QueueOK'
    BY <1>0, <1>3, ReleaseStep DEF Answer, TypeOK, Tasks
<1>4. ASSUME NEW j \in Jobs, Submit(j)
      PROVE  TypeOK' /\ SlotsConserved' /\ QueueOK'
  <2>1. /\ pc[j] = "new" /\ pc' = [pc EXCEPT ![j] = "accepted"] /\ Create(j)
        /\ told' = [told EXCEPT ![j][Owner[j]] = "queued"]
        /\ UNCHANGED <<value, waiters, woken, now, restarts>>
      BY <1>4 DEF Submit
  <2>2. Working' = Working
      BY <2>1, <1>0, SameNumber DEF Tasks
  <2>3. store' \in [Jobs -> Job \cup {Absent}]
      BY <2>1, <1>0, StoreTypes
  <2>4. told' \in [Jobs -> [Principals -> Statuses \cup {Absent}]]
      BY <2>1, <1>0, JobServiceAssumption DEF TypeOK, Statuses
  <2>5. TypeOK'
      BY <2>1, <2>3, <2>4, <1>0 DEF TypeOK
  <2>6. QueueOK'
      BY <2>1, <1>0, JobServiceAssumption DEF QueueOK, TypeOK
  <2> QED
      BY <2>1, <2>2, <2>5, <2>6, <1>0 DEF SlotsConserved
<1>5. ASSUME NEW j \in Jobs, RunJob(j)
      PROVE  TypeOK' /\ SlotsConserved' /\ QueueOK'
  <2>1. store' \in [Jobs -> Job \cup {Absent}]
      BY <1>0, <1>5, StoreTypes DEF RunJob, Statuses
  <2> QED
      BY <1>0, <1>5, <2>1, AcquireStep DEF RunJob, TypeOK, Tasks
<1>6. ASSUME NEW j \in Jobs, EndJob(j)
      PROVE  TypeOK' /\ SlotsConserved' /\ QueueOK'
  <2>1. store' \in [Jobs -> Job \cup {Absent}]
      BY <1>0, <1>6, StoreTypes DEF EndJob, Statuses
  <2> QED
      BY <1>0, <1>6, <2>1, ReleaseStep DEF EndJob, TypeOK, Tasks
<1>7. ASSUME NEW j \in Jobs, NEW p \in Principals, Poll(j, p)
      PROVE  TypeOK' /\ SlotsConserved' /\ QueueOK'
  <2>1. told' \in [Jobs -> [Principals -> Statuses \cup {Absent}]]
      BY <1>0, <1>7, StoreTypes DEF Poll, TypeOK
  <2> QED
      BY <1>0, <1>7, <2>1 DEF Poll, TypeOK, SlotsConserved, Working, QueueOK
<1>8. CASE Resume
    BY <1>0, <1>8, ResumeStep DEF Resume, TypeOK
<1>9. CASE Tick
  <2>1. TypeOK'
      BY <1>0, <1>9 DEF Tick, TypeOK
  <2> QED
      BY <1>0, <1>9, <2>1 DEF Tick, SlotsConserved, Working, QueueOK
<1>10. CASE Restart
  <2>1. Working' = {}
      BY <1>10 DEF Restart, Working
  <2>2. SlotsConserved'
      BY <1>10, <2>1, FS_EmptySet, JobServiceAssumption DEF Restart, SlotsConserved
  <2>3. TypeOK'
      BY <1>0, <1>10, JobServiceAssumption DEF Restart, TypeOK
  <2>4. QueueOK'
      BY <1>10 DEF Restart, QueueOK, Tasks
  <2> QED
      BY <2>2, <2>3, <2>4
<1>11. CASE UNCHANGED vars
    BY <1>0, <1>11 DEF vars, TypeOK, SlotsConserved, Working, QueueOK
<1> QED
    BY <1>1, <1>2, <1>3, <1>4, <1>5, <1>6, <1>7, <1>8, <1>9, <1>10, <1>11 DEF Next

\* A record goes on saying where its job is.
LEMMA StoreStep == Inv /\ [Next]_vars => StoreOK'
<1> SUFFICES ASSUME Inv, [Next]_vars, NEW j \in Jobs, store'[j] # Absent
             PROVE  \/ pc'[j] = "accepted" /\ store'[j].status = "queued"
                    \/ pc'[j] \in {"waiting", "working"} /\ store'[j].status = "running"
                    \/ pc'[j] \in Outcomes /\ store'[j].status = pc'[j]
    BY DEF StoreOK
<1>0. /\ TypeOK /\ Callers \cap Jobs = {}
      /\ store[j] # Absent =>
            \/ pc[j] = "accepted" /\ store[j].status = "queued"
            \/ pc[j] \in {"waiting", "working"} /\ store[j].status = "running"
            \/ pc[j] \in Outcomes /\ store[j].status = pc[j]
    BY JobServiceAssumption DEF Inv, StoreOK
<1>1. ASSUME NEW c \in Callers, Refuse(c) \/ AssessSync(c) \/ Answer(c) \/ CallAgain(c)
      PROVE  pc'[j] = pc[j] /\ store' = store
    BY <1>0, <1>1 DEF Refuse, AssessSync, Acquire, Answer, CallAgain, TypeOK, Tasks
<1>2. ASSUME NEW k \in Jobs, Submit(k)
      PROVE  \/ store[j] # Absent /\ store'[j] = store[j] /\ pc'[j] = pc[j]
             \/ pc'[j] = "accepted" /\ store'[j].status = "queued"
    BY <1>0, <1>2 DEF Submit, Create, TypeOK, Tasks
<1>3. ASSUME NEW k \in Jobs, RunJob(k)
      PROVE  \/ store[j] # Absent /\ store'[j] = store[j] /\ pc'[j] = pc[j]
             \/ pc'[j] \in {"waiting", "working"} /\ store'[j].status = "running"
    BY <1>0, <1>3 DEF RunJob, Update, Acquire, TypeOK, Tasks, Job
<1>4. ASSUME NEW k \in Jobs, EndJob(k)
      PROVE  \/ store[j] # Absent /\ store'[j] = store[j] /\ pc'[j] = pc[j]
             \/ pc'[j] \in Outcomes /\ store'[j].status = pc'[j]
    BY <1>0, <1>4 DEF EndJob, Update, TypeOK, Tasks, Job
<1>5. ASSUME Resume
      PROVE  /\ store' = store
             /\ pc'[j] = pc[j] \/ (pc[j] = "waiting" /\ pc'[j] = "working")
  <2>1. /\ pc[Head(waiters)] = "waiting"
        /\ pc' = [pc EXCEPT ![Head(waiters)] = "working"]
      BY <1>5, ResumeStep DEF Inv
  <2>2. store' = store
      BY <1>5 DEF Resume
  <2>3. pc \in [Tasks -> {"new", "refused", "accepted", "waiting", "working", "lost"}
                             \cup Outcomes] /\ j \in Tasks
      BY <1>0 DEF TypeOK, Tasks
  <2> QED
      BY <2>1, <2>2, <2>3
<1>6. ASSUME Restart PROVE FALSE
    BY <1>6 DEF Restart
<1>7. ASSUME \/ \E k \in Jobs, p \in Principals : Poll(k, p)
             \/ Tick \/ UNCHANGED vars
      PROVE  pc' = pc /\ store' = store
    BY <1>7 DEF Poll, Tick, vars
<1> QED
    BY <1>0, <1>1, <1>2, <1>3, <1>4, <1>5, <1>6, <1>7 DEF Next, Outcomes

\* What is known about one job and one principal.
ToldOf(j, p) ==
    /\ told[j][p] # Absent => p = Owner[j] /\ pc[j] # "new"
    /\ told[j][p] = "running" => pc[j] \in {"waiting", "working", "lost"} \cup Outcomes
    /\ told[j][p] \in Outcomes => pc[j] = told[j][p]
    /\ told[j][p] = Absent /\ p = Owner[j] /\ pc[j] # "new" => store[j] = Absent

\* Where a job's task can go in one step, and what its record can become.
LEMMA JobMoves ==
    ASSUME Inv, [Next]_vars, NEW j \in Jobs
    PROVE  \/ pc'[j] = pc[j] /\ (store[j] = Absent => store'[j] = Absent)
           \/ pc[j] = "new" /\ pc'[j] = "accepted"
              /\ told' = [told EXCEPT ![j][Owner[j]] = "queued"]
           \/ /\ pc[j] = "accepted" /\ pc'[j] \in {"waiting", "working", "lost"}
              /\ store[j] = Absent => store'[j] = Absent
           \/ /\ pc[j] \in {"waiting", "working"}
              /\ pc'[j] \in {"working", "lost"} \cup Outcomes
              /\ store[j] = Absent => store'[j] = Absent
<1>0. TypeOK /\ Callers \cap Jobs = {}
    BY JobServiceAssumption DEF Inv
<1>1. ASSUME NEW c \in Callers, Refuse(c) \/ AssessSync(c) \/ Answer(c) \/ CallAgain(c)
      PROVE  pc'[j] = pc[j] /\ store' = store
    BY <1>0, <1>1 DEF Refuse, AssessSync, Acquire, Answer, CallAgain, TypeOK, Tasks
<1>2. ASSUME NEW k \in Jobs, Submit(k)
      PROVE  \/ pc'[j] = pc[j] /\ (store[j] = Absent => store'[j] = Absent)
             \/ pc[j] = "new" /\ pc'[j] = "accepted"
                /\ told' = [told EXCEPT ![j][Owner[j]] = "queued"]
    BY <1>0, <1>2 DEF Submit, Create, TypeOK, Tasks
<1>3. ASSUME NEW k \in Jobs, RunJob(k)
      PROVE  /\ store[j] = Absent => store'[j] = Absent
             /\ pc'[j] = pc[j] \/ (pc[j] = "accepted" /\ pc'[j] \in {"waiting", "working"})
    BY <1>0, <1>3 DEF RunJob, Update, Acquire, TypeOK, Tasks
<1>4. ASSUME NEW k \in Jobs, EndJob(k)
      PROVE  /\ store[j] = Absent => store'[j] = Absent
             /\ pc'[j] = pc[j] \/ (pc[j] = "working" /\ pc'[j] \in Outcomes)
    BY <1>0, <1>4 DEF EndJob, Update, TypeOK, Tasks
<1>5. ASSUME Resume
      PROVE  /\ store' = store
             /\ pc'[j] = pc[j] \/ (pc[j] = "waiting" /\ pc'[j] = "working")
  <2>1. /\ pc[Head(waiters)] = "waiting"
        /\ pc' = [pc EXCEPT ![Head(waiters)] = "working"]
      BY <1>5, ResumeStep DEF Inv
  <2>2. store' = store
      BY <1>5 DEF Resume
  <2>3. pc \in [Tasks -> {"new", "refused", "accepted", "waiting", "working", "lost"}
                             \cup Outcomes] /\ j \in Tasks
      BY <1>0 DEF TypeOK, Tasks
  <2> QED
      BY <2>1, <2>2, <2>3
<1>6. ASSUME Restart
      PROVE  /\ store'[j] = Absent
             /\ pc'[j] = pc[j]
                \/ (pc[j] \in {"accepted", "waiting", "working"} /\ pc'[j] = "lost")
    BY <1>6 DEF Restart, Tasks
<1>7. ASSUME \/ \E k \in Jobs, p \in Principals : Poll(k, p)
             \/ Tick \/ UNCHANGED vars
      PROVE  pc' = pc /\ store' = store
    BY <1>7 DEF Poll, Tick, vars
<1> QED
    BY <1>1, <1>2, <1>3, <1>4, <1>5, <1>6, <1>7 DEF Next

\* Only a poll and a submission tell a principal anything.
LEMMA ToldMoves ==
    ASSUME Inv, [Next]_vars, NEW j \in Jobs, NEW p \in Principals
    PROVE  \/ told'[j][p] = told[j][p]
           \/ pc[j] = "new" /\ pc'[j] = "accepted" /\ p = Owner[j] /\ told'[j][p] = "queued"
           \/ Poll(j, p) /\ told'[j][p] = Get(j, p)
<1>0. TypeOK
    BY DEF Inv
<1>1. ASSUME NEW k \in Jobs, Submit(k)
      PROVE  \/ told'[j][p] = told[j][p]
             \/ pc[j] = "new" /\ pc'[j] = "accepted" /\ p = Owner[j] /\ told'[j][p] = "queued"
    BY <1>0, <1>1 DEF Submit, TypeOK, Tasks
<1>2. ASSUME NEW k \in Jobs, NEW q \in Principals, Poll(k, q)
      PROVE  told'[j][p] = told[j][p] \/ (Poll(j, p) /\ told'[j][p] = Get(j, p))
    BY <1>0, <1>2 DEF Poll, TypeOK
<1>3. ASSUME \/ \E c \in Callers : Refuse(c) \/ AssessSync(c) \/ Answer(c) \/ CallAgain(c)
             \/ \E k \in Jobs : RunJob(k) \/ EndJob(k)
             \/ Resume \/ Tick \/ Restart \/ UNCHANGED vars
      PROVE  told' = told
    BY <1>3 DEF Refuse, AssessSync, Answer, CallAgain, RunJob, EndJob, Resume, Tick, Restart, vars
<1> QED
    BY <1>1, <1>2, <1>3 DEF Next

\* What was told goes on being true.
LEMMA ToldStep == Inv /\ [Next]_vars => ToldOK'
<1> SUFFICES ASSUME Inv, [Next]_vars, NEW j \in Jobs, NEW p \in Principals
             PROVE  ToldOf(j, p)'
    BY DEF ToldOK, ToldOf
<1>0. ToldOf(j, p)
    BY DEF Inv, ToldOK, ToldOf
<1>1. CASE told'[j][p] = told[j][p]
  <2>1. CASE pc[j] = "new" /\ pc'[j] = "accepted"
             /\ told' = [told EXCEPT ![j][Owner[j]] = "queued"]
      BY <1>0, <1>1, <2>1, JobServiceAssumption DEF ToldOf, Inv, TypeOK, Outcomes
  <2> QED
      BY <1>0, <1>1, <2>1, JobMoves DEF ToldOf, Outcomes
<1>2. CASE pc[j] = "new" /\ pc'[j] = "accepted" /\ p = Owner[j] /\ told'[j][p] = "queued"
    BY <1>2, JobServiceAssumption DEF ToldOf, Outcomes
<1>3. CASE Poll(j, p) /\ told'[j][p] = Get(j, p)
  <2>1. pc' = pc /\ store' = store /\ pc[j] # "new"
      BY <1>3 DEF Poll
  <2>2. store[j] # Absent =>
            \/ pc[j] = "accepted" /\ store[j].status = "queued"
            \/ pc[j] \in {"waiting", "working"} /\ store[j].status = "running"
            \/ pc[j] \in Outcomes /\ store[j].status = pc[j]
      BY DEF Inv, StoreOK
  <2> QED
      BY <1>3, <2>1, <2>2, JobServiceAssumption DEF ToldOf, Get, Outcomes
<1> QED
    BY <1>1, <1>2, <1>3, ToldMoves

-----------------------------------------------------------------------------
(* Theorems *)

\* The inductive invariant holds of every reachable state.
THEOREM Invariance == Spec => []Inv
<1>1. Inv /\ [Next]_vars => Inv'
    BY CoreStep, StoreStep, ToldStep DEF Inv
<1> QED
    BY InitInv, <1>1, PTL DEF Spec

\* Type correctness of the service.
THEOREM TypeCorrect == Spec => []TypeOK
<1>1. Inv => TypeOK
    BY DEF Inv
<1> QED
    BY Invariance, <1>1, PTL

\* No slot is lost or made, whichever way assessments end.
THEOREM SlotsAreConserved == Spec => []SlotsConserved
<1>1. Inv => SlotsConserved
    BY DEF Inv
<1> QED
    BY Invariance, <1>1, PTL

\* A synchronous request never waits for a slot.
THEOREM SyncIsNotQueued == Spec => []SyncNeverQueues
<1>1. Inv => SyncNeverQueues
    BY DEF Inv, QueueOK, SyncNeverQueues, TypeOK
<1> QED
    BY Invariance, <1>1, PTL

\* Principals read their own jobs only, and outcomes that are the job's.
THEOREM ToldTruly == Spec => []ToldOwnOutcome
<1>1. Inv => ToldOwnOutcome
    BY DEF Inv, ToldOK, ToldOwnOutcome
<1> QED
    BY Invariance, <1>1, PTL

\* What a client is told of its job never goes backwards.
THEOREM PollsGoForward == Spec => NeverBackwards
<1>1. Inv /\ [Next]_vars =>
        [\A j \in Jobs, p \in Principals :
            LET before == told[j][p]
                after == told'[j][p]
            IN  pc[j] # "new" => \/ after \in {before, Absent}
                                 \/ before = "queued"
                                 \/ before = "running" /\ after \in Outcomes]_vars
  <2> SUFFICES ASSUME Inv, [Next]_vars, NEW j \in Jobs, NEW p \in Principals, pc[j] # "new",
                      told'[j][p] # told[j][p], told'[j][p] # Absent, told[j][p] # "queued"
               PROVE  told[j][p] = "running" /\ told'[j][p] \in Outcomes
      OBVIOUS
  <2>1. told'[j][p] = Get(j, p)
      BY ToldMoves
  <2>2. told'[j][p] = store[j].status /\ store[j] # Absent /\ p = Owner[j]
      BY <2>1 DEF Get
  <2>3. \/ pc[j] = "accepted" /\ store[j].status = "queued"
        \/ pc[j] \in {"waiting", "working"} /\ store[j].status = "running"
        \/ pc[j] \in Outcomes /\ store[j].status = pc[j]
      BY <2>2 DEF Inv, StoreOK
  <2>4. ToldOf(j, p)
      BY DEF Inv, ToldOK, ToldOf
  <2>5. told[j][p] \in Statuses \cup {Absent}
      BY DEF Inv, TypeOK
  <2> QED
      BY <2>2, <2>3, <2>4, <2>5 DEF ToldOf, Statuses, Outcomes
<1> QED
    BY Invariance, <1>1, PTL DEF Spec, NeverBackwards

-----------------------------------------------------------------------------
(* The service implements Admission. *)

\* The place in Admission of a task at s.
Place(s) == IF s = "working" THEN "working"
            ELSE IF s \in {"accepted", "waiting"} THEN "queued"
            ELSE "out"

LEMMA StageIsPlace == stage = [t \in Tasks |-> Place(pc[t])]
  BY DEF stage, Place

\* Both specifications count the same assessments in progress.
LEMMA InUseIsWorking == Admission!InUse = Cardinality(Working)
<1>1. {t \in Callers \cup Jobs : stage[t] = "working"} = Working
    BY StageIsPlace DEF Working, Tasks, Place
<1>2. Admission!InUse = Cardinality({t \in Callers \cup Jobs : stage[t] = "working"})
    BY DEF Admission!InUse, Admission!Cardinality, Cardinality
<1> QED
    BY <1>1, <1>2

\* A task that moves changes its own place only.
LEMMA PlaceMoves ==
    ASSUME TypeOK, NEW t \in Tasks, NEW s, pc' = [pc EXCEPT ![t] = s]
    PROVE  stage[t] = Place(pc[t]) /\ stage' = [stage EXCEPT ![t] = Place(s)]
<1>1. stage' = [u \in Tasks |-> Place(pc'[u])]
    BY DEF stage, Place
<1>2. \A u \in Tasks : pc'[u] = IF u = t THEN s ELSE pc[u]
    BY DEF TypeOK
<1> QED
    BY <1>1, <1>2, StageIsPlace DEF Place

\* A task that is given a slot begins: there is one left.
LEMMA BeginsWithASlot ==
    ASSUME TypeOK, SlotsConserved, NEW t \in Tasks, value + woken > 0,
           IF t \in Jobs THEN pc[t] \in {"accepted", "waiting"} ELSE pc[t] = "new",
           pc' = [pc EXCEPT ![t] = "working"]
    PROVE  Admission!Begin(t)
<1>1. Admission!InUse < Slots
    BY InUseIsWorking, WorkingIsFinite, JobServiceAssumption DEF SlotsConserved, TypeOK
<1>2. stage[t] = Place(pc[t]) /\ stage' = [stage EXCEPT ![t] = "working"]
    BY PlaceMoves DEF Place
<1> QED
    BY <1>1, <1>2 DEF Admission!Begin, Admission!Move, Place

\* The service implements Admission: it starts as Admission does, and every
\* step begins, ends, enqueues or loses what Admission says it may.
THEOREM ServiceKeepsAdmission == Spec => KeepsAdmission
<1>1. Init => Admission!Init
    BY DEF Init, Admission!Init, stage, Tasks
<1>2. Inv /\ [Next]_vars => [Admission!Next]_stage
  <2> SUFFICES ASSUME Inv, [Next]_vars PROVE Admission!Next \/ UNCHANGED stage
      OBVIOUS
  <2>0. TypeOK /\ SlotsConserved /\ QueueOK /\ Callers \cap Jobs = {}
        /\ value \in Nat /\ woken \in Nat
      BY JobServiceAssumption DEF Inv, TypeOK
  <2>1. ASSUME UNCHANGED pc PROVE UNCHANGED stage
      BY <2>1 DEF stage
  <2>2. ASSUME NEW t \in Tasks, NEW s, pc' = [pc EXCEPT ![t] = s], Place(pc[t]) = Place(s)
        PROVE  UNCHANGED stage
    <3>1. stage[t] = Place(s) /\ stage' = [stage EXCEPT ![t] = Place(s)]
        BY <2>0, <2>2, PlaceMoves
    <3>2. stage = [u \in Tasks |-> Place(pc[u])]
        BY StageIsPlace
    <3> QED
        BY <3>1, <3>2
  <2>3. ASSUME NEW t \in Tasks, NEW s, pc[t] = "working", s \in Outcomes,
               pc' = [pc EXCEPT ![t] = s]
        PROVE  Admission!Next
      BY <2>0, <2>3, PlaceMoves
      DEF Admission!Next, Admission!End, Admission!Move, Place, Tasks, Outcomes
  <2>4. CASE \E c \in Callers : Refuse(c) \/ CallAgain(c)
      BY <2>2, <2>4 DEF Refuse, CallAgain, Place, Tasks, Outcomes
  <2>5. ASSUME NEW c \in Callers, AssessSync(c) PROVE Admission!Next
    <3>1. pc[c] = "new" /\ pc' = [pc EXCEPT ![c] = "working"] /\ value # 0
        BY <2>5 DEF AssessSync, Acquire, Locked
    <3>2. value + woken > 0 /\ c \in Tasks /\ c \notin Jobs
        BY <2>0, <3>1 DEF Tasks
    <3>3. Admission!Begin(c)
        BY <2>0, <3>1, <3>2, BeginsWithASlot
    <3> QED
        BY <3>3 DEF Admission!Next
  <2>6. CASE \E c \in Callers : Answer(c)
      BY <2>3, <2>6 DEF Answer, Tasks
  <2>7. ASSUME NEW j \in Jobs, Submit(j) PROVE Admission!Next
    <3>1. pc[j] = "new" /\ pc' = [pc EXCEPT ![j] = "accepted"]
        BY <2>7 DEF Submit
    <3>2. stage[j] = "out" /\ stage' = [stage EXCEPT ![j] = "queued"]
        BY <2>0, <3>1, PlaceMoves DEF Place, Tasks
    <3> QED
        BY <3>2 DEF Admission!Next, Admission!Enqueue, Admission!Move
  <2>8. ASSUME NEW j \in Jobs, RunJob(j) PROVE Admission!Next \/ UNCHANGED stage
    <3>1. pc[j] = "accepted"
        BY <2>8 DEF RunJob
    <3>2. CASE ~Locked
        BY <2>0, <2>8, <3>1, <3>2, BeginsWithASlot
        DEF RunJob, Acquire, Locked, Admission!Next, Tasks
    <3>3. CASE Locked
        BY <2>2, <2>8, <3>1, <3>3 DEF RunJob, Acquire, Place, Tasks
    <3> QED
        BY <3>2, <3>3
  <2>9. CASE \E j \in Jobs : EndJob(j)
      BY <2>3, <2>9 DEF EndJob, Tasks
  <2>10. CASE \/ \E j \in Jobs, p \in Principals : Poll(j, p)
              \/ Tick \/ UNCHANGED vars
      BY <2>1, <2>10 DEF Poll, Tick, vars
  <2>11. CASE Resume
    <3>1. /\ Head(waiters) \in Jobs /\ pc[Head(waiters)] = "waiting"
          /\ pc' = [pc EXCEPT ![Head(waiters)] = "working"]
        BY <2>0, <2>11, ResumeStep
    <3>2. value + woken > 0 /\ Head(waiters) \in Tasks
        BY <2>0, <2>11, <3>1 DEF Resume, Tasks
    <3>3. Admission!Begin(Head(waiters))
        BY <2>0, <3>1, <3>2, BeginsWithASlot
    <3> QED
        BY <3>1, <3>3 DEF Admission!Next
  <2>12. CASE Restart
    <3>1. stage' = [t \in Callers \cup Jobs |-> "out"]
        BY <2>12 DEF Restart, stage, Tasks
    <3> QED
        BY <3>1 DEF Admission!Next, Admission!LoseAll
  <2> QED
      BY <2>4, <2>5, <2>6, <2>7, <2>8, <2>9, <2>10, <2>11, <2>12 DEF Next
<1> QED
    BY <1>1, <1>2, Invariance, PTL DEF Spec, KeepsAdmission, Admission!Spec

=============================================================================
