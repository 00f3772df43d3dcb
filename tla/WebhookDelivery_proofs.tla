----------------------- MODULE WebhookDelivery_proofs -----------------------
(***************************************************************************)
(* The inductive invariant of WebhookDelivery and the theorems it gives:   *)
(* types, the outbox's honesty, the bound on POSTs, the finality of        *)
(* terminal rows and the refinement of EventDelivery, for any number of    *)
(* deliveries, workers, attempts and disturbances.                         *)
(***************************************************************************)
EXTENDS WebhookDelivery, TLAPS

Busy(w) == pc[w] # "idle"

\* A worker that owns a lock is busy.
HeldIsBusy == \A w \in Workers : held[w] => Busy(w)

\* Only an active job of its own lets a worker run, as long as no lock was lost.
OwnsJob ==
    \A w \in Workers : Busy(w) /\ job[w] \notin overlapped =>
        held[w] /\ jobs[job[w]] = "active"

OneRun ==
    \A v, w \in Workers :
        Busy(v) /\ Busy(w) /\ job[v] = job[w] /\ job[v] \notin overlapped => v = w

\* What a worker read still holds when it writes.
ReadHolds ==
    \A w \in Workers : pc[w] \in Reading =>
        /\ row[job[w]] \in Committed
        /\ job[w] \notin overlapped => row[job[w]] = "pending" /\ seen[w] = attempts[job[w]]

\* A row that waits has an attempt left, and no row has used more than there are.
AttemptsLeft ==
    \A d \in Deliveries \ overlapped :
        /\ attempts[d] <= MaxAttempts
        /\ row[d] \notin {"delivered", "failed"} => attempts[d] < MaxAttempts

Answered(d) == \E w \in Workers : pc[w] \in Posted /\ job[w] = d

\* Every POST is counted in the row, lost, or in a worker's hands.
PostsCounted ==
    \A d \in Deliveries \ overlapped :
        /\ posts[d] <= attempts[d] + lost[d] + 1
        /\ ~Answered(d) => posts[d] <= attempts[d] + lost[d]

\* And no attempt is counted that was not made: a row's attempts, what a worker
\* goes on from, and what is lost or in a worker's hands, were all POSTed.
PostsMade ==
    /\ \A d \in Deliveries : attempts[d] <= posts[d]
    /\ \A w \in Workers : pc[w] \in Reading => seen[w] <= posts[job[w]]
    /\ \A w \in Workers : pc[w] \in Posted => seen[w] + 1 <= posts[job[w]]
    /\ \A d \in Deliveries \ overlapped : attempts[d] + lost[d] <= posts[d]
    /\ \A w \in Workers : pc[w] \in Posted /\ job[w] \notin overlapped =>
          attempts[job[w]] + lost[job[w]] + 1 <= posts[job[w]]

AcceptedIsKnown == \A w \in Workers : pc[w] = "accepted" => job[w] \in accepted

-----------------------------------------------------------------------------
(* Types *)

(* The queue's operators keep its types. *)
LEMMA QueueKeepsTypes ==
    ASSUME Queue!QueueTypes, NEW d \in Deliveries,
           \/ Queue!Add(d) \/ Queue!AddDelayed(d) \/ Queue!Promote(d) \/ Queue!Take(d)
           \/ Queue!Complete(d) \/ Queue!Fail(d) \/ Queue!Evict(d) \/ Queue!Lose(d)
           \/ Queue!Stall(d) \/ UNCHANGED queue
    PROVE  Queue!QueueTypes'
BY DEF Queue!QueueTypes, Queue!JobStates, Queue!Add, Queue!AddDelayed, Queue!Promote, Queue!Take,
       Queue!Complete, Queue!Fail, Queue!Evict, Queue!Lose, Queue!Stall, Queue!Forget, Queue!Put,
       Queue!Known, queue

(* What a worker does to its own place and job keeps their types. *)
LEMMA WorkerKeepsTypes ==
    ASSUME TypeOK, NEW w \in Workers, Busy(w),
           (\E p \in PCs : Goto(w, p)) \/ Idle(w)
    PROVE  /\ pc' \in [Workers -> PCs]
           /\ job' \in [Workers -> Deliveries \cup {NoDelivery}]
           /\ \A v \in Workers : pc'[v] # "idle" => job'[v] \in Deliveries
           /\ seen' \in [Workers -> Nat]
           /\ held' \in [Workers -> BOOLEAN]
BY DEF TypeOK, PCs, Goto, Idle, Busy

(* Every step of a worker keeps the types. *)
LEMMA WorkTypes ==
    ASSUME TypeOK, NEW w \in Workers, Work(w)
    PROVE  TypeOK'
<1> USE DEF TypeOK, vars, queue, rows, outbox, worker, history, Queue!QueueTypes
<1>j. Busy(w) => job[w] \in Deliveries
  BY DEF Busy
<1>1. CASE Read(w)
  <2>1. pc' \in [Workers -> PCs]
    BY <1>1 DEF Read, PCs
  <2>2. seen' \in [Workers -> Nat]
    BY <1>1, <1>j DEF Read, Busy
  <2> QED
    BY <1>1, <1>j, <2>1, <2>2 DEF Read
<1>2. CASE Retire(w)
  <2>1. /\ Busy(w) /\ "leaving" \in PCs /\ Goto(w, "leaving")
    BY <1>2 DEF Retire, MarkTerminal, Busy, PCs
  <2> QED
    BY <1>2, <1>j, <2>1, WorkerKeepsTypes DEF Retire, MarkTerminal, RowStates, Committed, Busy
<1>3. CASE Post(w)
  <2>1. Busy(w) /\ {"accepted", "refused"} \subseteq PCs /\ \E p \in PCs : Goto(w, p)
    BY <1>3 DEF Post, Busy, PCs
  <2>2. posts' \in [Deliveries -> Nat] /\ accepted' \subseteq Deliveries
    BY <1>3, <1>j, <2>1 DEF Post
  <2> QED
    BY <1>3, <2>1, <2>2, WorkerKeepsTypes DEF Post
<1>4. CASE RecordDelivered(w)
  <2>1. /\ Busy(w) /\ "leaving" \in PCs /\ Goto(w, "leaving")
    BY <1>4 DEF RecordDelivered, MarkTerminal, Busy, PCs
  <2> QED
    BY <1>4, <1>j, <2>1, WorkerKeepsTypes DEF RecordDelivered, MarkTerminal, RowStates, Committed, Busy
<1>5. CASE DeadLetter(w)
  <2>1. /\ Busy(w) /\ "leaving" \in PCs /\ Goto(w, "leaving")
    BY <1>5 DEF DeadLetter, MarkTerminal, Busy, PCs
  <2> QED
    BY <1>5, <1>j, <2>1, WorkerKeepsTypes DEF DeadLetter, MarkTerminal, RowStates, Committed, Busy
<1>6. CASE ScheduleRetry(w)
  <2>1. /\ Busy(w) /\ "requeueing" \in PCs /\ Goto(w, "requeueing")
    BY <1>6 DEF ScheduleRetry, Busy, PCs
  <2> QED
    BY <1>6, <1>j, <2>1, WorkerKeepsTypes DEF ScheduleRetry, RowStates, Committed, Busy
<1>7. CASE Requeue(w)
  <2>1. /\ Busy(w) /\ "leaving" \in PCs /\ Goto(w, "leaving")
    BY <1>7 DEF Requeue, Busy, PCs
  <2>2. Queue!QueueTypes'
    BY <1>7, <1>j, <2>1, QueueKeepsTypes DEF Requeue
  <2> QED
    BY <1>7, <2>1, <2>2, WorkerKeepsTypes DEF Requeue
<1>8. CASE Leave(w)
  <2>1. Busy(w) /\ Idle(w)
    BY <1>8 DEF Leave, Busy
  <2>2. Queue!QueueTypes'
    BY <1>8, <1>j, <2>1, QueueKeepsTypes DEF Leave
  <2> QED
    BY <1>8, <2>1, <2>2, WorkerKeepsTypes DEF Leave
<1> QED
  BY <1>1, <1>2, <1>3, <1>4, <1>5, <1>6, <1>7, <1>8 DEF Work

(* What stops a worker keeps the types. *)
LEMMA StopTypes ==
    ASSUME TypeOK, HeldIsBusy, NEW w \in Workers, Throw(w) \/ Crash(w) \/ LoseLock(w)
    PROVE  TypeOK'
<1> USE DEF TypeOK, vars, queue, rows, outbox, worker, history, Queue!QueueTypes
<1>e. events' \in 0 .. MaxEvents
  BY WebhookAssumption DEF Throw, Crash, LoseLock, Happens
<1>j. Busy(w) => job[w] \in Deliveries
  BY DEF Busy
<1>1. CASE Throw(w)
  <2>1. Busy(w) /\ Idle(w)
    BY <1>1 DEF Throw, Busy
  <2>2. Queue!QueueTypes'
    BY <1>1, <1>j, <2>1, QueueKeepsTypes DEF Throw
  <2>3. lost' \in [Deliveries -> Nat]
    BY <1>1, <1>j, <2>1 DEF Throw, Unrecorded
  <2> QED
    BY <1>1, <1>e, <2>1, <2>2, <2>3, WorkerKeepsTypes DEF Throw
<1>2. CASE Crash(w)
  <2>1. Busy(w) /\ Idle(w)
    BY <1>2 DEF Crash, Busy
  <2>3. lost' \in [Deliveries -> Nat]
    BY <1>2, <1>j, <2>1 DEF Crash, Unrecorded
  <2> QED
    BY <1>2, <1>e, <2>1, <2>3, WorkerKeepsTypes DEF Crash
<1>3. CASE LoseLock(w)
  BY <1>3, <1>e, <1>j DEF LoseLock, HeldIsBusy
<1> QED
  BY <1>1, <1>2, <1>3

(* The outbox, the queue, time and administrators keep the types. *)
LEMMA EnvironmentTypes ==
    ASSUME TypeOK,
           \/ \E d \in Deliveries : Stage(d) \/ Commit(d) \/ Rollback(d) \/ Flush(d)
           \/ SweepSelect
           \/ \E d \in Deliveries : SweepEnqueue(d)
           \/ \E w \in Workers, d \in Deliveries : TakeJob(w, d)
           \/ \E d \in Deliveries : StallJob(d) \/ PromoteJob(d) \/ EvictJob(d) \/ LoseJob(d)
           \/ \E d \in Deliveries : Ripen(d)
           \/ \E s \in Subscriptions : UpdateSubscription(s) \/ RemoveSubscription(s)
           \/ UNCHANGED vars
    PROVE  TypeOK'
<1> USE DEF TypeOK, vars, queue, rows, outbox, worker, history, Queue!QueueTypes
<1>h. ASSUME NEW what, Happens(what) PROVE events' \in 0 .. MaxEvents
  BY <1>h, WebhookAssumption DEF Happens
<1>1. ASSUME NEW d \in Deliveries, Stage(d) PROVE TypeOK'
  BY <1>1 DEF Stage, RowStates
<1>2. ASSUME NEW d \in Deliveries, Commit(d) PROVE TypeOK'
  BY <1>2 DEF Commit, RowStates, Committed
<1>3. ASSUME NEW d \in Deliveries, Rollback(d) PROVE TypeOK'
  BY <1>3 DEF Rollback, RowStates
<1>4. ASSUME NEW d \in Deliveries, Flush(d) PROVE TypeOK'
  <2>1. Queue!QueueTypes'
    BY <1>4, QueueKeepsTypes DEF Flush
  <2> QED
    BY <1>4, <1>h, <2>1 DEF Flush
<1>5. CASE SweepSelect
  BY <1>5 DEF SweepSelect, Due
<1>6. ASSUME NEW d \in Deliveries, SweepEnqueue(d) PROVE TypeOK'
  <2>1. Queue!QueueTypes'
    BY <1>6, QueueKeepsTypes DEF SweepEnqueue
  <2> QED
    BY <1>6, <1>h, <2>1 DEF SweepEnqueue
<1>7. ASSUME NEW w \in Workers, NEW d \in Deliveries, TakeJob(w, d) PROVE TypeOK'
  <2>1. Queue!QueueTypes'
    BY <1>7, QueueKeepsTypes DEF TakeJob
  <2> QED
    BY <1>7, <2>1 DEF TakeJob, PCs
<1>8. ASSUME NEW d \in Deliveries, StallJob(d) \/ PromoteJob(d) \/ EvictJob(d) \/ LoseJob(d)
      PROVE  TypeOK'
  <2>1. Queue!QueueTypes'
    BY <1>8, QueueKeepsTypes DEF StallJob, PromoteJob, EvictJob, LoseJob
  <2> QED
    BY <1>8, <1>h, <2>1 DEF StallJob, PromoteJob, EvictJob, LoseJob
<1>9. ASSUME NEW d \in Deliveries, Ripen(d) PROVE TypeOK'
  BY <1>9 DEF Ripen
<1>10. ASSUME NEW s \in Subscriptions, UpdateSubscription(s) PROVE TypeOK'
  BY <1>10, <1>h DEF UpdateSubscription
<1>11. ASSUME NEW s \in Subscriptions, RemoveSubscription(s) PROVE TypeOK'
  BY <1>11, <1>h DEF RemoveSubscription
<1>12. CASE UNCHANGED vars
  BY <1>12
<1> QED
  BY <1>1, <1>2, <1>3, <1>4, <1>5, <1>6, <1>7, <1>8, <1>9, <1>10, <1>11, <1>12

(* Each step keeps the types, if a worker that owns a lock is busy. *)
LEMMA StepTypes == TypeOK /\ HeldIsBusy /\ [Next]_vars => TypeOK'
BY WorkTypes, StopTypes, EnvironmentTypes DEF Next

-----------------------------------------------------------------------------
(* The invariant, effect by effect *)

Core ==
    /\ HeldIsBusy
    /\ OwnsJob
    /\ OneRun
    /\ ReadHolds
    /\ AttemptsLeft
    /\ PostsCounted
    /\ AcceptedIsKnown
    /\ OutboxHonest

\* Nothing but the queue moves, and a job whose worker owns it stays active.
Quiet ==
    /\ UNCHANGED <<row, attempts, worker, history>>
    /\ \A w \in Workers : held[w] /\ jobs[job[w]] = "active" => jobs'[job[w]] = "active"

\* A transaction that inserted a row begins, commits or rolls back.
Inserts(d) ==
    /\ row[d] \in {"none", "staged"}
    /\ \E s \in {"staged", "pending", "aborted"} : row' = [row EXCEPT ![d] = s]
    /\ UNCHANGED <<queue, attempts, worker, history>>

\* A worker writes the outcome of what it read.
Writes(w, s, n) ==
    /\ pc[w] \in Reading
    /\ row' = [row EXCEPT ![job[w]] = s]
    /\ attempts' = [attempts EXCEPT ![job[w]] = n]
    /\ \E p \in {"leaving", "requeueing"} : Goto(w, p)
    /\ UNCHANGED <<queue, history>>
    /\ \/ pc[w] = "retiring" /\ s = "failed" /\ n = seen[w]
       \/ pc[w] = "accepted" /\ s = "delivered" /\ n = seen[w] + 1
       \/ pc[w] = "refused" /\ s = "failed" /\ n = seen[w] + 1
       \/ pc[w] = "refused" /\ s = "pending" /\ n = seen[w] + 1 /\ n < MaxAttempts

\* A worker ends its job, one way or another.
Stops(w) ==
    /\ Busy(w)
    /\ Idle(w)
    /\ Unrecorded(w)
    /\ \A d \in Deliveries \ {job[w]} : jobs'[d] = jobs[d]
    /\ UNCHANGED <<row, attempts, posts, accepted, overlapped>>

LEMMA QuietStep == TypeOK /\ Core /\ Quiet => Core'
BY DEF Core, Quiet, HeldIsBusy, OwnsJob, OneRun, ReadHolds, AttemptsLeft, PostsCounted, Answered,
       AcceptedIsKnown, OutboxHonest, Busy, worker, history

LEMMA InsertStep ==
    ASSUME TypeOK, Core, NEW d \in Deliveries, Inserts(d)
    PROVE  Core'
<1> USE DEF Core, Inserts, Busy, worker, history, queue
<1>1. HeldIsBusy' /\ OwnsJob' /\ OneRun' /\ AcceptedIsKnown'
  BY DEF HeldIsBusy, OwnsJob, OneRun, AcceptedIsKnown
<1>2. ReadHolds'
  <2>1. ASSUME NEW w \in Workers, pc[w] \in Reading PROVE job[w] \in Deliveries \ {d}
    BY <2>1 DEF ReadHolds, Committed, Reading, TypeOK
  <2> QED
    BY <2>1 DEF ReadHolds, TypeOK
<1>3. AttemptsLeft'
  BY DEF AttemptsLeft, TypeOK
<1>4. PostsCounted'
  BY DEF PostsCounted, Answered
<1>5. OutboxHonest'
  BY DEF OutboxHonest, TypeOK, Committed
<1> QED
  BY <1>1, <1>2, <1>3, <1>4, <1>5

LEMMA TakeStep ==
    ASSUME TypeOK, Core, NEW w \in Workers, NEW d \in Deliveries, TakeJob(w, d)
    PROVE  Core'
<1> USE DEF Core, TakeJob, Queue!Take, Queue!Put, Busy, rows, history, TypeOK, Queue!QueueTypes
<1>0. \A v \in Workers : Busy(v) /\ job[v] = d => d \in overlapped
  BY DEF OwnsJob
<1>1. HeldIsBusy' /\ AcceptedIsKnown' /\ OutboxHonest' /\ AttemptsLeft'
  BY DEF HeldIsBusy, AcceptedIsKnown, OutboxHonest, AttemptsLeft
<1>2. OwnsJob'
  BY <1>0 DEF OwnsJob
<1>3. OneRun'
  BY <1>0 DEF OneRun
<1>4. ReadHolds'
  BY DEF ReadHolds, Reading
<1>5. PostsCounted'
  <2>1. \A e \in Deliveries : Answered(e)' <=> Answered(e)
    BY DEF Answered, Posted
  <2> QED
    BY <2>1 DEF PostsCounted
<1> QED
  BY <1>1, <1>2, <1>3, <1>4, <1>5

LEMMA ReadStep ==
    ASSUME TypeOK, Core, NEW w \in Workers, Read(w)
    PROVE  Core'
<1> USE DEF Core, Read, Busy, rows, history, queue, TypeOK
<1>1. HeldIsBusy' /\ OwnsJob' /\ OneRun' /\ OutboxHonest' /\ AttemptsLeft'
  BY DEF HeldIsBusy, OwnsJob, OneRun, OutboxHonest, AttemptsLeft
<1>2. ReadHolds'
  BY DEF ReadHolds, Reading, Committed
<1>3. PostsCounted'
  <2>1. \A e \in Deliveries : Answered(e)' <=> Answered(e)
    BY DEF Answered, Posted
  <2> QED
    BY <2>1 DEF PostsCounted
<1>4. AcceptedIsKnown'
  BY DEF AcceptedIsKnown
<1> QED
  BY <1>1, <1>2, <1>3, <1>4

LEMMA PostStep ==
    ASSUME TypeOK, Core, NEW w \in Workers, Post(w)
    PROVE  Core'
<1> USE DEF Core, Post, Goto, Busy, rows, queue, TypeOK
<1>0. job[w] \in Deliveries /\ row[job[w]] \in Committed
  BY DEF ReadHolds, Reading
<1>1. HeldIsBusy' /\ OwnsJob' /\ OneRun' /\ AttemptsLeft'
  BY DEF HeldIsBusy, OwnsJob, OneRun, AttemptsLeft
<1>2. ReadHolds'
  BY DEF ReadHolds, Reading
<1>3. PostsCounted'
  <2>1. ASSUME NEW d \in Deliveries \ overlapped, d # job[w]
        PROVE  posts'[d] = posts[d] /\ (Answered(d)' <=> Answered(d))
    BY <2>1 DEF Answered, Posted
  <2>2. ASSUME job[w] \notin overlapped
        PROVE  posts[job[w]] <= attempts[job[w]] + lost[job[w]]
    <3>1. ~Answered(job[w])
      BY <2>2 DEF Answered, Posted, OneRun
    <3> QED
      BY <1>0, <2>2, <3>1 DEF PostsCounted
  <2>3. Answered(job[w])'
    BY DEF Answered, Posted
  <2> QED
    BY <1>0, <2>1, <2>2, <2>3 DEF PostsCounted
<1>4. AcceptedIsKnown'
  BY DEF AcceptedIsKnown
<1>5. OutboxHonest'
  BY <1>0 DEF OutboxHonest
<1> QED
  BY <1>1, <1>2, <1>3, <1>4, <1>5

LEMMA WriteStep ==
    ASSUME TypeOK, Core, NEW w \in Workers, NEW s, NEW n, Writes(w, s, n)
    PROVE  Core'
<1> USE DEF Core, Writes, Goto, Busy, queue, history, TypeOK
<1>0. job[w] \in Deliveries /\ row[job[w]] \in Committed /\ s \in Committed /\ n \in Nat
  BY DEF ReadHolds, Reading, Committed
<1>1. HeldIsBusy' /\ OwnsJob' /\ OneRun' /\ AcceptedIsKnown'
  BY DEF HeldIsBusy, OwnsJob, OneRun, AcceptedIsKnown, Reading
<1>2. ReadHolds'
  <2>1. ASSUME NEW v \in Workers, v # w, pc[v] \in Reading, job[v] = job[w]
        PROVE  job[v] \in overlapped
    BY <2>1 DEF OneRun, Reading
  <2> QED
    BY <1>0, <2>1 DEF ReadHolds, Reading
<1>3. AttemptsLeft'
  <2>1. job[w] \notin overlapped => seen[w] < MaxAttempts
    BY <1>0 DEF ReadHolds, AttemptsLeft
  <2> QED
    BY <1>0, <2>1, WebhookAssumption DEF AttemptsLeft
<1>4. PostsCounted'
  <2>1. ASSUME NEW d \in Deliveries \ overlapped, d # job[w]
        PROVE  attempts'[d] = attempts[d] /\ (Answered(d)' <=> Answered(d))
    BY <2>1 DEF Answered, Posted
  <2>2. ASSUME job[w] \notin overlapped
        PROVE  posts[job[w]] <= n + lost[job[w]]
    <3>1. seen[w] = attempts[job[w]]
      BY <2>2 DEF ReadHolds
    <3>2. CASE pc[w] = "retiring"
      <4>1. ~Answered(job[w])
        BY <2>2, <3>2 DEF Answered, Posted, OneRun
      <4> QED
        BY <1>0, <2>2, <3>1, <3>2, <4>1 DEF PostsCounted
    <3>3. CASE pc[w] # "retiring"
      BY <1>0, <2>2, <3>1, <3>3 DEF PostsCounted
    <3> QED
      BY <3>2, <3>3
  <2> QED
    BY <1>0, <2>1, <2>2 DEF PostsCounted
<1>5. OutboxHonest'
  BY <1>0 DEF OutboxHonest, AcceptedIsKnown
<1> QED
  BY <1>1, <1>2, <1>3, <1>4, <1>5

LEMMA RequeueStep ==
    ASSUME TypeOK, Core, NEW w \in Workers, Requeue(w)
    PROVE  Core'
<1> USE DEF Core, Requeue, Goto, Busy, rows, history, TypeOK, Queue!QueueTypes
<1>0. \A d \in Deliveries : jobs[d] = "active" => jobs'[d] = "active"
  BY DEF Queue!AddDelayed, Queue!Put, Queue!Known
<1>1. HeldIsBusy' /\ OneRun' /\ AcceptedIsKnown' /\ OutboxHonest' /\ AttemptsLeft'
  BY DEF HeldIsBusy, OneRun, AcceptedIsKnown, OutboxHonest, AttemptsLeft
<1>2. OwnsJob'
  BY <1>0 DEF OwnsJob
<1>3. ReadHolds'
  BY DEF ReadHolds, Reading
<1>4. PostsCounted'
  <2>1. \A e \in Deliveries : Answered(e)' <=> Answered(e)
    BY DEF Answered, Posted
  <2> QED
    BY <2>1 DEF PostsCounted
<1> QED
  BY <1>1, <1>2, <1>3, <1>4

LEMMA StopStep ==
    ASSUME TypeOK, Core, NEW w \in Workers, Stops(w)
    PROVE  Core'
<1> USE DEF Core, Stops, Idle, Busy, TypeOK, Queue!QueueTypes
<1>1. HeldIsBusy' /\ OneRun' /\ AcceptedIsKnown' /\ OutboxHonest' /\ AttemptsLeft'
  BY DEF HeldIsBusy, OneRun, AcceptedIsKnown, OutboxHonest, AttemptsLeft
<1>2. OwnsJob'
  <2>1. ASSUME NEW v \in Workers, v # w, Busy(v), job[v] \notin overlapped
        PROVE  job[v] \in Deliveries \ {job[w]}
    BY <2>1 DEF OneRun
  <2> QED
    BY <2>1 DEF OwnsJob
<1>3. ReadHolds'
  BY DEF ReadHolds, Reading
<1>4. PostsCounted'
  <2>1. ASSUME NEW d \in Deliveries \ overlapped, d # job[w]
        PROVE  lost'[d] = lost[d] /\ (Answered(d)' <=> Answered(d))
    BY <2>1 DEF Answered, Posted, Unrecorded
  <2>2. CASE pc[w] \in Posted
    <3>1. lost'[job[w]] = lost[job[w]] + 1
      BY <2>2 DEF Unrecorded
    <3> QED
      BY <2>1, <3>1 DEF PostsCounted
  <2>3. CASE pc[w] \notin Posted
    <3>1. lost' = lost /\ \A d \in Deliveries : Answered(d)' <=> Answered(d)
      BY <2>3 DEF Unrecorded, Answered, Posted
    <3> QED
      BY <3>1 DEF PostsCounted
  <2> QED
    BY <2>2, <2>3
<1> QED
  BY <1>1, <1>2, <1>3, <1>4

LEMMA LoseLockStep ==
    ASSUME TypeOK, Core, NEW w \in Workers, LoseLock(w)
    PROVE  Core'
BY DEF Core, LoseLock, HeldIsBusy, OwnsJob, OneRun, ReadHolds, AttemptsLeft, PostsCounted, Answered,
       AcceptedIsKnown, OutboxHonest, Busy, queue, rows, TypeOK

-----------------------------------------------------------------------------
(* Each action has one of the effects *)

LEMMA EnvironmentIsQuiet ==
    ASSUME TypeOK, HeldIsBusy,
           \/ \E d \in Deliveries : Flush(d) \/ SweepEnqueue(d) \/ Ripen(d)
           \/ \E d \in Deliveries : StallJob(d) \/ PromoteJob(d) \/ EvictJob(d) \/ LoseJob(d)
           \/ SweepSelect
           \/ \E s \in Subscriptions : UpdateSubscription(s) \/ RemoveSubscription(s)
           \/ UNCHANGED vars
    PROVE  Quiet
<1> USE DEF Quiet, rows, outbox, history, TypeOK, Queue!QueueTypes
<1>0. \A w \in Workers : held[w] => job[w] \in Deliveries
  BY DEF HeldIsBusy, Busy
<1>1. ASSUME NEW d \in Deliveries,
             \/ Queue!Add(d) \/ Queue!Promote(d) \/ Queue!Evict(d) \/ Queue!Lose(d)
             \/ UNCHANGED queue
      PROVE  \A e \in Deliveries : jobs[e] = "active" => jobs'[e] = "active"
  BY <1>1 DEF Queue!Add, Queue!Promote, Queue!Evict, Queue!Lose, Queue!Forget, Queue!Put,
              Queue!Known, queue
<1>2. ASSUME NEW d \in Deliveries, Flush(d) \/ SweepEnqueue(d) \/ Ripen(d) PROVE Quiet
  BY <1>0, <1>1, <1>2 DEF Flush, SweepEnqueue, Ripen
<1>3. ASSUME NEW d \in Deliveries, PromoteJob(d) \/ EvictJob(d) \/ LoseJob(d) PROVE Quiet
  BY <1>0, <1>1, <1>3 DEF PromoteJob, EvictJob, LoseJob
<1>4. ASSUME NEW d \in Deliveries, StallJob(d) PROVE Quiet
  BY <1>0, <1>4 DEF StallJob, Queue!Stall, Queue!Put
<1>5. CASE SweepSelect
  BY <1>5 DEF SweepSelect, queue
<1>6. ASSUME NEW s \in Subscriptions, UpdateSubscription(s) \/ RemoveSubscription(s) PROVE Quiet
  BY <1>6 DEF UpdateSubscription, RemoveSubscription, queue
<1>7. CASE UNCHANGED vars
  BY <1>7 DEF vars, queue
<1> QED
  BY <1>2, <1>3, <1>4, <1>5, <1>6, <1>7

LEMMA TransactionInserts ==
    ASSUME NEW d \in Deliveries, Stage(d) \/ Commit(d) \/ Rollback(d)
    PROVE  Inserts(d)
BY DEF Stage, Commit, Rollback, Inserts, queue, worker, history

LEMMA OutcomeIsWritten ==
    ASSUME TypeOK, NEW w \in Workers,
           Retire(w) \/ RecordDelivered(w) \/ DeadLetter(w) \/ ScheduleRetry(w)
    PROVE  \E s \in Committed, n \in Nat : Writes(w, s, n)
<1>0. /\ {"pending", "delivered", "failed"} \subseteq Committed
      /\ seen[w] \in Nat /\ seen[w] + 1 \in Nat
  BY DEF Committed, TypeOK
<1>1. CASE Retire(w)
  <2>1. Writes(w, "failed", seen[w])
    BY <1>1 DEF Retire, MarkTerminal, Writes, Reading, queue
  <2> QED
    BY <1>0, <2>1
<1>2. CASE RecordDelivered(w)
  <2>1. Writes(w, "delivered", seen[w] + 1)
    BY <1>2 DEF RecordDelivered, MarkTerminal, Writes, Reading, queue
  <2> QED
    BY <1>0, <2>1
<1>3. CASE DeadLetter(w)
  <2>1. Writes(w, "failed", seen[w] + 1)
    BY <1>3 DEF DeadLetter, MarkTerminal, Writes, Reading, queue
  <2> QED
    BY <1>0, <2>1
<1>4. CASE ScheduleRetry(w)
  <2>1. Writes(w, "pending", seen[w] + 1)
    BY <1>4, WebhookAssumption DEF ScheduleRetry, IsDeadLettered, Writes, Reading, TypeOK
  <2> QED
    BY <1>0, <2>1
<1> QED
  BY <1>1, <1>2, <1>3, <1>4

LEMMA EndOfJobStops ==
    ASSUME TypeOK, NEW w \in Workers, Leave(w) \/ Throw(w) \/ Crash(w)
    PROVE  Stops(w)
<1> USE DEF Stops, Busy, Unrecorded, Posted, rows, queue, history, TypeOK, Queue!QueueTypes
<1>1. CASE Leave(w)
  BY <1>1 DEF Leave, Queue!Complete, Queue!Forget
<1>2. CASE Throw(w)
  BY <1>2 DEF Throw, Queue!Fail, Queue!Put
<1>3. CASE Crash(w)
  BY <1>3 DEF Crash
<1> QED
  BY <1>1, <1>2, <1>3

LEMMA CoreStep == TypeOK /\ Core /\ [Next]_vars => Core'
<1> SUFFICES ASSUME TypeOK, Core, [Next]_vars PROVE Core'
  OBVIOUS
<1>1. ASSUME NEW d \in Deliveries, Stage(d) \/ Commit(d) \/ Rollback(d) PROVE Core'
  BY <1>1, TransactionInserts, InsertStep
<1>2. ASSUME NEW w \in Workers, NEW d \in Deliveries, TakeJob(w, d) PROVE Core'
  BY <1>2, TakeStep
<1>3. ASSUME NEW w \in Workers, Work(w) PROVE Core'
  <2>1. CASE Retire(w) \/ RecordDelivered(w) \/ DeadLetter(w) \/ ScheduleRetry(w)
    BY <2>1, OutcomeIsWritten, WriteStep
  <2>2. CASE Leave(w)
    BY <2>2, EndOfJobStops, StopStep
  <2> QED
    BY <1>3, <2>1, <2>2, ReadStep, PostStep, RequeueStep DEF Work
<1>4. ASSUME NEW w \in Workers, Throw(w) \/ Crash(w) \/ LoseLock(w) PROVE Core'
  BY <1>4, EndOfJobStops, StopStep, LoseLockStep
<1>5. CASE \/ \E d \in Deliveries : Flush(d) \/ SweepEnqueue(d) \/ Ripen(d)
           \/ \E d \in Deliveries : StallJob(d) \/ PromoteJob(d) \/ EvictJob(d) \/ LoseJob(d)
           \/ SweepSelect
           \/ \E s \in Subscriptions : UpdateSubscription(s) \/ RemoveSubscription(s)
           \/ UNCHANGED vars
  BY <1>5, EnvironmentIsQuiet, QuietStep DEF Core
<1> QED
  BY <1>1, <1>2, <1>3, <1>4, <1>5 DEF Next

-----------------------------------------------------------------------------
(* No attempt is counted that was not made *)

LEMMA MadeQuietly ==
    ASSUME TypeOK, PostsMade, Quiet \/ \E d \in Deliveries : Inserts(d)
    PROVE  PostsMade'
BY DEF PostsMade, Quiet, Inserts, worker, history

\* A worker that takes a job, or comes to the end of one, without a POST or a row.
LEMMA MadeByOthers ==
    ASSUME TypeOK, PostsMade, NEW w \in Workers,
           \/ \E d \in Deliveries : TakeJob(w, d)
           \/ Requeue(w) \/ LoseLock(w)
    PROVE  PostsMade'
BY DEF PostsMade, TakeJob, Requeue, LoseLock, Goto, rows, history, Reading, Posted, TypeOK

LEMMA MadeByRead ==
    ASSUME TypeOK, PostsMade, NEW w \in Workers, Read(w)
    PROVE  PostsMade'
<1> USE DEF PostsMade, Read, rows, history, Reading, Posted, TypeOK
<1>1. job[w] \in Deliveries /\ attempts[job[w]] <= posts[job[w]]
  OBVIOUS
<1> QED
  BY <1>1

LEMMA MadeByPost ==
    ASSUME TypeOK, Core, PostsMade, NEW w \in Workers, Post(w)
    PROVE  PostsMade'
<1> USE DEF Post, Goto, rows, Reading, Posted, TypeOK
<1>0. /\ job[w] \in Deliveries /\ job' = job /\ seen' = seen /\ attempts' = attempts
      /\ lost' = lost /\ overlapped' = overlapped
      /\ \A d \in Deliveries : posts[d] \in Nat /\ attempts[d] \in Nat /\ lost[d] \in Nat
      /\ \A v \in Workers : seen[v] \in Nat
      /\ posts'[job[w]] = posts[job[w]] + 1
      /\ \A d \in Deliveries : posts[d] <= posts'[d]
  OBVIOUS
<1>1. \A v \in Workers : pc'[v] \in Reading => pc[v] \in Reading /\ job[v] \in Deliveries
  OBVIOUS
<1>2. \A v \in Workers : pc'[v] \in Posted => pc[v] \in Posted \/ v = w
  OBVIOUS
<1>3. seen[w] <= posts[job[w]]
  BY DEF PostsMade
<1> QED
  BY <1>0, <1>1, <1>2, <1>3 DEF PostsMade

LEMMA MadeByWrite ==
    ASSUME TypeOK, Core, PostsMade, NEW w \in Workers, NEW s, NEW n \in Nat, Writes(w, s, n)
    PROVE  PostsMade'
<1> USE DEF Writes, Goto, Reading, Posted, TypeOK, history
<1>0. /\ job[w] \in Deliveries /\ job' = job /\ seen' = seen /\ posts' = posts
      /\ lost' = lost /\ overlapped' = overlapped
      /\ \A d \in Deliveries : posts[d] \in Nat /\ attempts[d] \in Nat /\ lost[d] \in Nat
      /\ attempts'[job[w]] = n
      /\ \A d \in Deliveries \ {job[w]} : attempts'[d] = attempts[d]
      /\ \A v \in Workers : pc'[v] \in Reading => v # w /\ pc'[v] = pc[v] /\ job[v] \in Deliveries
  OBVIOUS
<1>1. n <= posts[job[w]]
  BY DEF PostsMade
<1>2. ASSUME job[w] \notin overlapped PROVE n + lost[job[w]] <= posts[job[w]]
  <2>1. seen[w] = attempts[job[w]]
    BY <1>2 DEF Core, ReadHolds
  <2> QED
    BY <1>0, <1>2, <2>1 DEF PostsMade
<1>3. ASSUME job[w] \notin overlapped, NEW v \in Workers, pc'[v] \in Posted PROVE job[v] # job[w]
  BY <1>3, <1>0 DEF Core, OneRun, Busy
<1> QED
  BY <1>0, <1>1, <1>2, <1>3 DEF PostsMade

LEMMA MadeByStop ==
    ASSUME TypeOK, Core, PostsMade, NEW w \in Workers, Stops(w)
    PROVE  PostsMade'
<1> USE DEF Stops, Idle, Reading, Posted, TypeOK
<1>0. /\ job[w] \in Deliveries /\ seen' = seen /\ posts' = posts /\ attempts' = attempts
      /\ overlapped' = overlapped
      /\ \A d \in Deliveries : posts[d] \in Nat /\ attempts[d] \in Nat /\ lost[d] \in Nat
      /\ \A v \in Workers : pc'[v] \in Reading =>
            v # w /\ pc'[v] = pc[v] /\ job'[v] = job[v] /\ job[v] \in Deliveries
  BY DEF Busy
<1>1. \A d \in Deliveries \ {job[w]} : lost'[d] = lost[d]
  BY <1>0 DEF Unrecorded
<1>2. ASSUME job[w] \notin overlapped PROVE attempts[job[w]] + lost'[job[w]] <= posts[job[w]]
  BY <1>0, <1>2 DEF Unrecorded, PostsMade
<1>3. ASSUME job[w] \notin overlapped, NEW v \in Workers, pc'[v] \in Posted PROVE job[v] # job[w]
  BY <1>3, <1>0 DEF Core, OneRun, Busy
<1> QED
  BY <1>0, <1>1, <1>2, <1>3 DEF PostsMade

LEMMA MadeStep == TypeOK /\ Core /\ PostsMade /\ [Next]_vars => PostsMade'
<1> SUFFICES ASSUME TypeOK, Core, PostsMade, [Next]_vars PROVE PostsMade'
  OBVIOUS
<1>1. ASSUME NEW d \in Deliveries, Stage(d) \/ Commit(d) \/ Rollback(d) PROVE PostsMade'
  BY <1>1, TransactionInserts, MadeQuietly
<1>2. ASSUME NEW w \in Workers, NEW d \in Deliveries, TakeJob(w, d) PROVE PostsMade'
  BY <1>2, MadeByOthers
<1>3. ASSUME NEW w \in Workers, Work(w) PROVE PostsMade'
  <2>1. CASE Retire(w) \/ RecordDelivered(w) \/ DeadLetter(w) \/ ScheduleRetry(w)
    BY <2>1, OutcomeIsWritten, MadeByWrite
  <2>2. CASE Leave(w)
    BY <2>2, EndOfJobStops, MadeByStop
  <2> QED
    BY <1>3, <2>1, <2>2, MadeByRead, MadeByPost, MadeByOthers DEF Work
<1>4. ASSUME NEW w \in Workers, Throw(w) \/ Crash(w) \/ LoseLock(w) PROVE PostsMade'
  BY <1>4, EndOfJobStops, MadeByStop, MadeByOthers
<1>5. CASE \/ \E d \in Deliveries : Flush(d) \/ SweepEnqueue(d) \/ Ripen(d)
           \/ \E d \in Deliveries : StallJob(d) \/ PromoteJob(d) \/ EvictJob(d) \/ LoseJob(d)
           \/ SweepSelect
           \/ \E s \in Subscriptions : UpdateSubscription(s) \/ RemoveSubscription(s)
           \/ UNCHANGED vars
  BY <1>5, EnvironmentIsQuiet, MadeQuietly DEF Core
<1> QED
  BY <1>1, <1>2, <1>3, <1>4, <1>5 DEF Next

-----------------------------------------------------------------------------
(* Each step is one of EventDelivery's, or none *)

\* A worker that was not about to give up its event, and is not now, withdraws nothing.
LEMMA SameRetiring ==
    ASSUME TypeOK, NEW w \in Workers,
           pc[w] # "retiring", pc'[w] # "retiring",
           \A v \in Workers \ {w} : pc'[v] = pc[v] /\ job'[v] = job[v]
    PROVE  Retiring' = Retiring
BY DEF Retiring

LEMMA LessRetiring ==
    ASSUME TypeOK, NEW w \in Workers, pc'[w] # "retiring",
           \A v \in Workers \ {w} : pc'[v] = pc[v] /\ job'[v] = job[v]
    PROVE  Retiring' \in {Retiring, Retiring \ {job[w]}}
<1>1. CASE \E v \in Workers \ {w} : pc[v] = "retiring" /\ job[v] = job[w]
  <2>1. Retiring' = Retiring
    BY <1>1 DEF Retiring
  <2> QED
    BY <2>1
<1>2. CASE ~ \E v \in Workers \ {w} : pc[v] = "retiring" /\ job[v] = job[w]
  <2>1. CASE pc[w] = "retiring"
    <3>1. Retiring' = Retiring \ {job[w]}
      BY <1>2, <2>1 DEF Retiring
    <3> QED
      BY <3>1
  <2>2. CASE pc[w] # "retiring"
    BY <2>2, SameRetiring
  <2> QED
    BY <2>1, <2>2
<1> QED
  BY <1>1, <1>2

\* The event in a worker's hands can still have an outcome.
LEMMA InHandIsOpen ==
    ASSUME TypeOK, Core, NEW w \in Workers, pc[w] \in Reading
    PROVE  job[w] \in Deliveries /\ Promise!Open(job[w])
BY DEF Core, ReadHolds, Reading, Promise!Open, Promise!Committed, Committed, TypeOK

LEMMA TransactionRefines ==
    ASSUME TypeOK, NEW d \in Deliveries, Stage(d) \/ Commit(d) \/ Rollback(d)
    PROVE  Promise!Stage(d) \/ Promise!EndTransaction(d)
<1>1. Retiring' = Retiring
  BY DEF Retiring, Stage, Commit, Rollback, worker
<1> QED
  BY <1>1 DEF Stage, Commit, Rollback, Promise!Stage, Promise!EndTransaction, Promise!Becomes, history

LEMMA ReadRefines ==
    ASSUME TypeOK, NEW w \in Workers, Read(w)
    PROVE  Promise!Withdraw(job[w]) \/ UNCHANGED Promise!vars
<1>0. \A v \in Workers \ {w} : pc'[v] = pc[v] /\ job'[v] = job[v]
  BY DEF Read, TypeOK
<1>1. CASE pc'[w] = "retiring"
  <2>1. row[job[w]] = "pending" /\ job[w] \in Deliveries
    BY <1>1 DEF Read, TypeOK
  <2>2. Retiring' = Retiring \cup {job[w]}
    BY <1>0, <1>1, <2>1 DEF Retiring, Read
  <2> QED
    BY <2>1, <2>2 DEF Promise!Withdraw, Read, rows, history
<1>2. CASE pc'[w] # "retiring"
  <2>1. Retiring' = Retiring
    BY <1>0, <1>2, SameRetiring DEF Read
  <2> QED
    BY <2>1 DEF Promise!vars, Read, rows, history
<1> QED
  BY <1>1, <1>2

LEMMA PostRefines ==
    ASSUME TypeOK, Core, NEW w \in Workers, Post(w)
    PROVE  Promise!Post(job[w])
<1> USE DEF Post, Goto, TypeOK
<1>1. Retiring' = Retiring
  BY SameRetiring
<1>2. job[w] \in Deliveries /\ Promise!Open(job[w])
  BY InHandIsOpen DEF Reading
<1>3. job[w] \in overlapped \/ posts[job[w]] < MaxAttempts + lost[job[w]]
  <2> SUFFICES ASSUME job[w] \notin overlapped PROVE posts[job[w]] < MaxAttempts + lost[job[w]]
    OBVIOUS
  <2>1. row[job[w]] = "pending"
    BY DEF Core, ReadHolds, Reading
  <2>2. attempts[job[w]] < MaxAttempts
    BY <1>2, <2>1 DEF Core, AttemptsLeft
  <2>3. ~Answered(job[w])
    BY DEF Core, OneRun, Answered, Posted, Busy
  <2>4. posts[job[w]] <= attempts[job[w]] + lost[job[w]]
    BY <1>2, <2>3 DEF Core, PostsCounted
  <2> QED
    BY <1>2, <2>2, <2>4, WebhookAssumption
<1> QED
  BY <1>1, <1>2, <1>3 DEF Promise!Post, rows

LEMMA OutcomeRefines ==
    ASSUME TypeOK, Core, PostsMade, NEW w \in Workers,
           Retire(w) \/ RecordDelivered(w) \/ DeadLetter(w) \/ ScheduleRetry(w)
    PROVE  \/ Promise!Deliver(job[w]) \/ Promise!GiveUp(job[w]) \/ Promise!Reopen(job[w])
           \/ UNCHANGED Promise!vars
<1> USE DEF TypeOK, MarkTerminal, Goto, history, Promise!Becomes
<1>0. job[w] \in Deliveries /\ Promise!Open(job[w])
  BY InHandIsOpen DEF Reading, Retire, RecordDelivered, DeadLetter, ScheduleRetry
<1>1. CASE Retire(w)
  <2>1. Retiring' \in {Retiring, Retiring \ {job[w]}}
    BY <1>1, LessRetiring DEF Retire
  <2>2. job[w] \in Retiring
    BY <1>0, <1>1 DEF Retire, Retiring
  <2> QED
    BY <1>0, <1>1, <2>1, <2>2 DEF Retire, Promise!GiveUp, Promise!MayForget
<1>2. CASE RecordDelivered(w)
  <2>1. Retiring' = Retiring
    BY <1>2, SameRetiring DEF RecordDelivered
  <2>2. job[w] \in accepted
    BY <1>2 DEF RecordDelivered, Core, AcceptedIsKnown
  <2> QED
    BY <1>0, <1>2, <2>1, <2>2 DEF RecordDelivered, Promise!Deliver
<1>3. CASE DeadLetter(w)
  <2>1. Retiring' = Retiring
    BY <1>3, SameRetiring DEF DeadLetter
  <2>2. Promise!Exhausted(job[w])
    <3>1. /\ seen[w] + 1 <= posts[job[w]]
          /\ job[w] \notin overlapped => attempts[job[w]] + lost[job[w]] + 1 <= posts[job[w]]
      BY <1>3 DEF DeadLetter, PostsMade, Posted
    <3>2. job[w] \notin overlapped => seen[w] = attempts[job[w]]
      BY <1>3 DEF DeadLetter, Core, ReadHolds, Reading
    <3>3. MaxAttempts <= seen[w] + 1
      BY <1>3 DEF DeadLetter, IsDeadLettered
    <3> QED
      BY <1>0, <3>1, <3>2, <3>3, WebhookAssumption DEF Promise!Exhausted
  <2> QED
    BY <1>0, <1>3, <2>1, <2>2 DEF DeadLetter, Promise!GiveUp, Promise!MayForget
<1>4. CASE ScheduleRetry(w)
  <2>1. Retiring' = Retiring
    BY <1>4, SameRetiring DEF ScheduleRetry
  <2>2. CASE job[w] \in overlapped
    BY <1>0, <1>4, <2>1, <2>2 DEF ScheduleRetry, Promise!Reopen
  <2>3. CASE job[w] \notin overlapped
    <3>1. row' = row
      BY <1>4, <2>3 DEF ScheduleRetry, Core, ReadHolds, Reading
    <3> QED
      BY <1>4, <2>1, <3>1 DEF ScheduleRetry, Promise!vars
  <2> QED
    BY <2>2, <2>3
<1> QED
  BY <1>1, <1>2, <1>3, <1>4

LEMMA StopRefines ==
    ASSUME TypeOK, PostsMade, NEW w \in Workers, Stops(w)
    PROVE  \/ Promise!Forget(job[w]) \/ Promise!Reconsider(job[w])
           \/ UNCHANGED Promise!vars
<1> USE DEF Stops, Idle, TypeOK
<1>0. /\ job[w] \in Deliveries
      /\ pc'[w] # "retiring"
      /\ \A v \in Workers \ {w} : pc'[v] = pc[v] /\ job'[v] = job[v]
  BY DEF Busy
<1>1. CASE pc[w] \in Posted
  <2>1. Retiring' = Retiring
    BY <1>0, <1>1, SameRetiring DEF Posted
  <2>2. job[w] \in overlapped \/ lost[job[w]] < posts[job[w]]
    BY <1>0, <1>1 DEF PostsMade
  <2> QED
    BY <1>0, <1>1, <2>1, <2>2 DEF Promise!Forget, Unrecorded
<1>2. CASE pc[w] \notin Posted
  <2>1. Retiring' \in {Retiring, Retiring \ {job[w]}}
    BY <1>0, LessRetiring
  <2> QED
    BY <1>2, <2>1 DEF Promise!Reconsider, Promise!MayForget, Unrecorded
<1> QED
  BY <1>1, <1>2

LEMMA OthersRefine ==
    ASSUME TypeOK, Core, NEW w \in Workers,
           \/ \E d \in Deliveries : TakeJob(w, d)
           \/ Requeue(w) \/ LoseLock(w)
    PROVE  Promise!Loosen(job[w]) \/ UNCHANGED Promise!vars
<1> USE DEF TypeOK, rows, history
<1>1. CASE \E d \in Deliveries : TakeJob(w, d)
  <2>1. Retiring' = Retiring
    BY <1>1, SameRetiring DEF TakeJob
  <2> QED
    BY <1>1, <2>1 DEF TakeJob, Promise!vars
<1>2. CASE Requeue(w)
  <2>1. Retiring' = Retiring
    BY <1>2, SameRetiring DEF Requeue, Goto
  <2> QED
    BY <1>2, <2>1 DEF Requeue, Promise!vars
<1>3. CASE LoseLock(w)
  BY <1>3 DEF LoseLock, Promise!Loosen, Retiring
<1> QED
  BY <1>1, <1>2, <1>3

LEMMA StepRefines ==
    TypeOK /\ Core /\ PostsMade /\ [Next]_vars => [Promise!Next]_(Promise!vars)
<1> SUFFICES ASSUME TypeOK, Core, PostsMade, [Next]_vars
             PROVE  Promise!Next \/ UNCHANGED Promise!vars
  OBVIOUS
<1>1. ASSUME NEW d \in Deliveries, Stage(d) \/ Commit(d) \/ Rollback(d) PROVE Promise!Next
  BY <1>1, TransactionRefines DEF Promise!Next
<1>2. \A w \in Workers : Busy(w) => job[w] \in Deliveries
  BY DEF TypeOK, Busy
<1>3. ASSUME NEW w \in Workers, NEW d \in Deliveries, TakeJob(w, d)
      PROVE  UNCHANGED Promise!vars
  <2>1. Retiring' = Retiring
    BY <1>3, SameRetiring DEF TakeJob, TypeOK
  <2> QED
    BY <1>3, <2>1 DEF TakeJob, Promise!vars, rows, history
<1>4. ASSUME NEW w \in Workers, Work(w) PROVE Promise!Next \/ UNCHANGED Promise!vars
  <2>0. job[w] \in Deliveries
    BY <1>2, <1>4 DEF Work, Busy, Read, Retire, Post, RecordDelivered, DeadLetter, ScheduleRetry,
                      Requeue, Leave
  <2>1. CASE Retire(w) \/ RecordDelivered(w) \/ DeadLetter(w) \/ ScheduleRetry(w)
    BY <2>0, <2>1, OutcomeRefines DEF Promise!Next
  <2>2. CASE Leave(w)
    BY <2>0, <2>2, EndOfJobStops, StopRefines DEF Promise!Next
  <2>3. CASE Read(w)
    BY <2>0, <2>3, ReadRefines DEF Promise!Next
  <2>4. CASE Post(w)
    BY <2>0, <2>4, PostRefines DEF Promise!Next
  <2>5. CASE Requeue(w)
    BY <2>0, <2>5, OthersRefine DEF Promise!Next
  <2> QED
    BY <1>4, <2>1, <2>2, <2>3, <2>4, <2>5 DEF Work
<1>5. ASSUME NEW w \in Workers, Throw(w) \/ Crash(w) \/ LoseLock(w)
      PROVE  Promise!Next \/ UNCHANGED Promise!vars
  <2>0. job[w] \in Deliveries
    BY <1>2, <1>5 DEF Core, HeldIsBusy, Throw, Crash, LoseLock, Busy
  <2>1. CASE Throw(w) \/ Crash(w)
    BY <2>0, <2>1, EndOfJobStops, StopRefines DEF Promise!Next
  <2>2. CASE LoseLock(w)
    BY <2>0, <2>2, OthersRefine DEF Promise!Next
  <2> QED
    BY <1>5, <2>1, <2>2
<1>6. CASE \/ \E d \in Deliveries : Flush(d) \/ SweepEnqueue(d) \/ Ripen(d)
           \/ \E d \in Deliveries : StallJob(d) \/ PromoteJob(d) \/ EvictJob(d) \/ LoseJob(d)
           \/ SweepSelect
           \/ \E s \in Subscriptions : UpdateSubscription(s) \/ RemoveSubscription(s)
           \/ UNCHANGED vars
  <2>1. Quiet
    BY <1>6, EnvironmentIsQuiet DEF Core
  <2> QED
    BY <2>1 DEF Quiet, Promise!vars, Retiring, worker, history
<1> QED
  BY <1>1, <1>3, <1>4, <1>5, <1>6 DEF Next

-----------------------------------------------------------------------------
(* Theorems *)

(* The inductive invariant holds in every reachable state of the outbox. *)
THEOREM WebhookInvariant == Spec => [](TypeOK /\ Core /\ PostsMade)
<1>1. Init => TypeOK /\ Core /\ PostsMade
  BY WebhookAssumption
     DEF Init, TypeOK, Core, HeldIsBusy, OwnsJob, OneRun, ReadHolds, AttemptsLeft, PostsCounted,
         PostsMade, AcceptedIsKnown, OutboxHonest, Busy, Reading, Posted, Committed, RowStates, PCs, Queue!QueueInit,
         Queue!QueueTypes, Queue!JobStates
<1>2. TypeOK /\ Core /\ PostsMade /\ [Next]_vars => (TypeOK /\ Core /\ PostsMade)'
  BY StepTypes, CoreStep, MadeStep DEF Core
<1> QED
  BY <1>1, <1>2, PTL DEF Spec

(* Type correctness of rows, jobs and workers (TypeOK). *)
THEOREM WebhookTypes == Spec => []TypeOK
BY WebhookInvariant, PTL

(* The outbox is honest both ways: no POST without a commit, nothing delivered *)
(* that no subscriber accepted -- even when runs of a delivery overlap.        *)
THEOREM OutboxIsHonest == Spec => []OutboxHonest
<1>1. Core => OutboxHonest
  BY DEF Core
<1> QED
  BY <1>1, WebhookInvariant, PTL

(* maxAttempts bounds the POSTs of an event, whatever crashes or is enqueued  *)
(* twice: only a POST whose outcome was lost is made again.                   *)
THEOREM PostsAreBounded == Spec => []PostsBounded
<1>1. TypeOK /\ Core => PostsBounded
  <2> SUFFICES ASSUME TypeOK, Core, NEW d \in Deliveries \ overlapped
               PROVE  posts[d] <= MaxAttempts + lost[d]
    BY DEF PostsBounded
  <2>0. /\ posts[d] \in Nat /\ attempts[d] \in Nat /\ lost[d] \in Nat /\ MaxAttempts \in Nat
    BY WebhookAssumption DEF TypeOK
  <2>1. CASE Answered(d)
    <3>1. row[d] = "pending"
      BY <2>1 DEF Answered, Core, ReadHolds, Posted, Reading
    <3>2. attempts[d] < MaxAttempts
      BY <3>1 DEF Core, AttemptsLeft
    <3>3. posts[d] <= attempts[d] + lost[d] + 1
      BY DEF Core, PostsCounted
    <3> QED
      BY <2>0, <3>2, <3>3
  <2>2. CASE ~Answered(d)
    <3>1. attempts[d] <= MaxAttempts /\ posts[d] <= attempts[d] + lost[d]
      BY <2>2 DEF Core, AttemptsLeft, PostsCounted
    <3> QED
      BY <2>0, <3>1
  <2> QED
    BY <2>1, <2>2
<1> QED
  BY <1>1, WebhookInvariant, PTL

(* A terminal row is never written again: no UPDATE of delivery.ts checks the *)
(* state, and OwnsJob and ReadHolds are why none has to while locks hold.     *)
THEOREM TerminalRowsStay == Spec => TerminalIsFinal
<1> DEFINE Stays == \A d \in Deliveries \ overlapped : row[d] \in {"delivered", "failed"} =>
                       row'[d] = row[d] /\ attempts'[d] = attempts[d]
<1>1. TypeOK /\ Core /\ [Next]_vars => Stays
  <2> SUFFICES ASSUME TypeOK, Core, [Next]_vars PROVE Stays
    OBVIOUS
  <2>1. ASSUME NEW d \in Deliveries, Stage(d) \/ Commit(d) \/ Rollback(d) PROVE Stays
    <3>1. Inserts(d)
      BY <2>1, TransactionInserts
    <3> QED
      BY <3>1 DEF Inserts, TypeOK
  <2>2. ASSUME NEW w \in Workers,
               Retire(w) \/ RecordDelivered(w) \/ DeadLetter(w) \/ ScheduleRetry(w)
        PROVE  Stays
    <3>1. PICK s \in Committed, n \in Nat : Writes(w, s, n)
      BY <2>2, OutcomeIsWritten
    <3>2. job[w] \notin overlapped => row[job[w]] = "pending"
      BY <3>1 DEF Writes, Core, ReadHolds
    <3> QED
      BY <3>1, <3>2 DEF Writes, TypeOK
  <2>3. ASSUME UNCHANGED <<row, attempts>> PROVE Stays
    BY <2>3
  <2>4. ASSUME NEW w \in Workers,
               \/ Leave(w) \/ Throw(w) \/ Crash(w) \/ LoseLock(w)
               \/ Read(w) \/ Post(w) \/ Requeue(w)
               \/ \E d \in Deliveries : TakeJob(w, d)
        PROVE  UNCHANGED <<row, attempts>>
    BY <2>4 DEF Leave, Throw, Crash, LoseLock, Read, Post, Requeue, TakeJob, rows
  <2>5. CASE \/ \E d \in Deliveries : Flush(d) \/ SweepEnqueue(d) \/ Ripen(d)
             \/ \E d \in Deliveries : StallJob(d) \/ PromoteJob(d) \/ EvictJob(d) \/ LoseJob(d)
             \/ SweepSelect
             \/ \E s \in Subscriptions : UpdateSubscription(s) \/ RemoveSubscription(s)
             \/ UNCHANGED vars
    BY <2>3, <2>5, EnvironmentIsQuiet DEF Quiet, Core
  <2> QED
    BY <2>1, <2>2, <2>3, <2>4, <2>5 DEF Next, Work
<1> QED
  BY <1>1, WebhookInvariant, PTL DEF Spec, TerminalIsFinal

(* The outbox implements EventDelivery: seen through its rows, its POSTs and  *)
(* who is about to retire what, each step of sweeps, jobs, workers and        *)
(* administrators is one of the event's, or none.                             *)
THEOREM OutboxRefinement == Spec => ImplementsEventDelivery
<1>1. Init => Promise!Init
  BY DEF Init, Promise!Init, Retiring
<1>2. TypeOK /\ Core /\ PostsMade /\ [Next]_vars => [Promise!Next]_(Promise!vars)
  BY StepRefines
<1> QED
  BY <1>1, <1>2, WebhookInvariant, PTL DEF Spec, ImplementsEventDelivery, Promise!Spec

=============================================================================
