-------------------------- MODULE WebhookDelivery --------------------------
(***************************************************************************)
(* Outbound webhooks (services/webhooks): a transactional outbox.  A       *)
(* domain transaction stages one webhook_deliveries row per subscription;  *)
(* a flush and a sweep every 15 s enqueue wake-ups by the row's id; the    *)
(* job's processor reads the row, POSTs the stored event and records what  *)
(* came of it, each in a statement of its own.                             *)
(*                                                                         *)
(* Time is left out: `ripe' holds the rows whose next_retry_at has passed. *)
(***************************************************************************)
EXTENDS Naturals, FiniteSets

CONSTANTS
    Deliveries, Subscriptions, Workers,
    NoDelivery,     \* the job of an idle worker
    SubscriptionOf, \* [Deliveries -> Subscriptions]
    MaxAttempts,    \* DEFAULT_BACKOFF.maxAttempts
    Disturbances,   \* which of the disturbances below may happen
    MaxEvents       \* and how many of them

AllDisturbances ==
    {"throw", "crash", "lose_lock", "lose_job", "enqueue_fails", "evict", "subscription"}

ASSUME WebhookAssumption ==
    /\ SubscriptionOf \in [Deliveries -> Subscriptions]
    /\ NoDelivery \notin Deliveries
    /\ MaxAttempts \in Nat \ {0}
    /\ Disturbances \subseteq AllDisturbances
    /\ MaxEvents \in Nat

VARIABLES
    jobs, stalls,   \* the queue, one job id per delivery
    row,            \* webhook_deliveries.state; staged and aborted are not visible
    attempts,       \* webhook_deliveries.attempts
    ripe,           \* rows whose next_retry_at has passed
    sub,            \* webhook_subscriptions.is_active, or the row is gone
    unflushed,      \* deliveries whose flush is still to come
    selected,       \* rows the sweep has selected and not enqueued yet
    pc, job, seen,  \* each worker's place, delivery, and the attempts it read
    held,           \* does the worker still own its job's lock?
    events,         \* disturbances so far
    posts,          \* history: POSTs made
    accepted,       \* history: deliveries a subscriber accepted
    lost,           \* history: POSTs whose outcome was never recorded
    overlapped      \* history: deliveries whose worker lost its lock while it lived

queue   == <<jobs, stalls>>
rows    == <<row, attempts, ripe>>
outbox  == <<unflushed, selected>>
worker  == <<pc, job, seen, held>>
history == <<posts, accepted, lost, overlapped>>
vars == <<queue, rows, sub, outbox, worker, events, history>>

Queue == INSTANCE JobQueue WITH JobIds <- Deliveries

-----------------------------------------------------------------------------
(* Vocabulary *)

Committed == {"pending", "delivered", "failed"}
RowStates == {"none", "staged", "aborted"} \cup Committed
PCs == {"idle", "reading", "retiring", "posting", "accepted", "refused", "requeueing", "leaving"}

\* The worker has read a pending row and not written its outcome.
Reading == {"retiring", "posting", "accepted", "refused"}
Posted  == {"accepted", "refused"}

Happens(what) == what \in Disturbances /\ events < MaxEvents /\ events' = events + 1

Active(d) == sub[SubscriptionOf[d]] = "active"

Goto(w, p) == pc' = [pc EXCEPT ![w] = p] /\ UNCHANGED <<job, seen, held>>

Idle(w) ==
    /\ pc' = [pc EXCEPT ![w] = "idle"]
    /\ job' = [job EXCEPT ![w] = NoDelivery]
    /\ held' = [held EXCEPT ![w] = FALSE]
    /\ UNCHANGED seen

-----------------------------------------------------------------------------
(* The outbox *)

\* stage: the row is inserted in the domain transaction, if its subscription
\* is active and matches.
Stage(d) ==
    /\ row[d] = "none"
    /\ Active(d)
    /\ row' = [row EXCEPT ![d] = "staged"]
    /\ unflushed' = unflushed \cup {d}
    /\ UNCHANGED <<queue, attempts, ripe, sub, selected, worker, events, history>>

Commit(d) ==
    /\ row[d] = "staged"
    /\ row' = [row EXCEPT ![d] = "pending"]
    /\ ripe' = ripe \cup {d}
    /\ UNCHANGED <<queue, attempts, sub, outbox, worker, events, history>>

Rollback(d) ==
    /\ row[d] = "staged"
    /\ row' = [row EXCEPT ![d] = "aborted"]
    /\ unflushed' = unflushed \ {d}
    /\ UNCHANGED <<queue, attempts, ripe, sub, selected, worker, events, history>>

\* flush: best effort.  recordActivity flushes when its own transaction ends, which
\* inside a caller's transaction is a savepoint: the row may not be committed.
Flush(d) ==
    /\ d \in unflushed
    /\ unflushed' = unflushed \ {d}
    /\ \/ Queue!Add(d) /\ UNCHANGED events
       \/ Happens("enqueue_fails") /\ UNCHANGED queue
    /\ UNCHANGED <<rows, sub, selected, worker, history>>

\* sweepPendingWebhookDeliveries: a SELECT, then one enqueue after the other; an
\* enqueue that throws ends the sweep.
\* Mutant: the sweep is for rows whose flush was lost only.
DueFirstAttempt == {d \in Deliveries : row[d] = "pending" /\ attempts[d] = 0}

Due == {d \in Deliveries : row[d] = "pending" /\ d \in ripe}

SweepSelect ==
    /\ ~ Due \subseteq selected
    /\ selected' = selected \cup Due
    /\ UNCHANGED <<queue, rows, sub, unflushed, worker, events, history>>

SweepEnqueue(d) ==
    /\ d \in selected
    /\ \/ /\ Queue!Add(d)
          /\ selected' = selected \ {d}
          /\ UNCHANGED events
       \/ /\ Happens("enqueue_fails")
          /\ selected' = {}
          /\ UNCHANGED queue
    /\ UNCHANGED <<rows, sub, unflushed, worker, history>>

-----------------------------------------------------------------------------
(* processDelivery *)

TakeJob(w, d) ==
    /\ pc[w] = "idle"
    /\ Queue!Take(d)
    /\ pc' = [pc EXCEPT ![w] = "reading"]
    /\ job' = [job EXCEPT ![w] = d]
    /\ held' = [held EXCEPT ![w] = TRUE]
    /\ UNCHANGED <<rows, sub, outbox, seen, events, history>>

\* Mutant: the row's state is not looked at.
ReadAnyState(w) ==
    /\ pc[w] = "reading"
    /\ seen' = [seen EXCEPT ![w] = attempts[job[w]]]
    /\ pc' = [pc EXCEPT ![w] =
                IF row[job[w]] \notin Committed THEN "leaving"
                ELSE IF Active(job[w]) THEN "posting" ELSE "retiring"]
    /\ UNCHANGED <<queue, rows, sub, outbox, job, held, events, history>>

\* Mutant: a row is read before its transaction commits.
ReadUncommitted(w) ==
    /\ pc[w] = "reading"
    /\ seen' = [seen EXCEPT ![w] = attempts[job[w]]]
    /\ pc' = [pc EXCEPT ![w] =
                IF row[job[w]] \notin {"staged", "pending"} THEN "leaving"
                ELSE IF Active(job[w]) THEN "posting" ELSE "retiring"]
    /\ UNCHANGED <<queue, rows, sub, outbox, job, held, events, history>>

\* SELECT ... JOIN subscription: gone or terminal is skipped, inactive retired.
Read(w) ==
    /\ pc[w] = "reading"
    /\ seen' = [seen EXCEPT ![w] = attempts[job[w]]]
    /\ pc' = [pc EXCEPT ![w] =
                IF row[job[w]] # "pending" THEN "leaving"
                ELSE IF Active(job[w]) THEN "posting" ELSE "retiring"]
    /\ UNCHANGED <<queue, rows, sub, outbox, job, held, events, history>>

\* markTerminal
MarkTerminal(w, s, n) ==
    /\ row' = [row EXCEPT ![job[w]] = s]
    /\ attempts' = [attempts EXCEPT ![job[w]] = n]
    /\ ripe' = ripe \ {job[w]}
    /\ Goto(w, "leaving")

Retire(w) ==
    /\ pc[w] = "retiring"
    /\ MarkTerminal(w, "failed", seen[w])
    /\ UNCHANGED <<queue, sub, outbox, events, history>>

\* The POST: a 2xx, or anything else (another status, a network error).
Post(w) ==
    /\ pc[w] = "posting"
    /\ posts' = [posts EXCEPT ![job[w]] = @ + 1]
    /\ \/ Goto(w, "accepted") /\ accepted' = accepted \cup {job[w]}
       \/ Goto(w, "refused") /\ UNCHANGED accepted
    /\ UNCHANGED <<queue, rows, sub, outbox, events, lost, overlapped>>

RecordDelivered(w) ==
    /\ pc[w] = "accepted"
    /\ MarkTerminal(w, "delivered", seen[w] + 1)
    /\ UNCHANGED <<queue, sub, outbox, events, history>>

\* Mutant: one attempt too many.
DeadLetteredLate(n) == n > MaxAttempts

\* Mutant: one attempt too few.
DeadLetteredEarly(n) == n + 1 >= MaxAttempts

IsDeadLettered(n) == n >= MaxAttempts

DeadLetter(w) ==
    /\ pc[w] = "refused"
    /\ IsDeadLettered(seen[w] + 1)
    /\ MarkTerminal(w, "failed", seen[w] + 1)
    /\ UNCHANGED <<queue, sub, outbox, events, history>>

\* next_retry_at is set to a later time (nextRetryDelayMs is never zero).
ScheduleRetry(w) ==
    /\ pc[w] = "refused"
    /\ ~IsDeadLettered(seen[w] + 1)
    /\ row' = [row EXCEPT ![job[w]] = "pending"]
    /\ attempts' = [attempts EXCEPT ![job[w]] = seen[w] + 1]
    /\ ripe' = ripe \ {job[w]}
    /\ Goto(w, "requeueing")
    /\ UNCHANGED <<queue, sub, outbox, events, history>>

\* queue.enqueue with the delivery's job id, from inside the job that has it.
Requeue(w) ==
    /\ pc[w] = "requeueing"
    /\ Queue!AddDelayed(job[w])
    /\ Goto(w, "leaving")
    /\ UNCHANGED <<rows, sub, outbox, events, history>>

Leave(w) ==
    /\ pc[w] = "leaving"
    /\ IF held[w] THEN Queue!Complete(job[w]) ELSE UNCHANGED queue
    /\ Idle(w)
    /\ UNCHANGED <<rows, sub, outbox, events, history>>

\* A POST that is over and not recorded when its worker stops.
Unrecorded(w) ==
    lost' = IF pc[w] \in Posted THEN [lost EXCEPT ![job[w]] = @ + 1] ELSE lost

\* A statement or the enqueue throws: the job fails.
Throw(w) ==
    /\ Happens("throw")
    /\ pc[w] \in {"reading", "retiring", "accepted", "refused", "requeueing"}
    /\ IF held[w] THEN Queue!Fail(job[w]) ELSE UNCHANGED queue
    /\ Unrecorded(w)
    /\ Idle(w)
    /\ UNCHANGED <<rows, sub, outbox, posts, accepted, overlapped>>

Crash(w) ==
    /\ Happens("crash")
    /\ pc[w] # "idle"
    /\ Unrecorded(w)
    /\ Idle(w)
    /\ UNCHANGED <<queue, rows, sub, outbox, posts, accepted, overlapped>>

\* A live worker is cut off from Redis for longer than the lock lasts.
LoseLock(w) ==
    /\ Happens("lose_lock")
    /\ held[w]
    /\ held' = [held EXCEPT ![w] = FALSE]
    /\ overlapped' = overlapped \cup {job[w]}
    /\ UNCHANGED <<queue, rows, sub, outbox, pc, job, seen, posts, accepted, lost>>

-----------------------------------------------------------------------------
(* The queue's own steps, time, and administrators *)

StallJob(d) ==
    /\ ~ \E w \in Workers : held[w] /\ job[w] = d
    /\ Queue!Stall(d)
    /\ UNCHANGED <<rows, sub, outbox, worker, events, history>>

PromoteJob(d) ==
    /\ Queue!Promote(d)
    /\ UNCHANGED <<rows, sub, outbox, worker, events, history>>

EvictJob(d) ==
    /\ Happens("evict")
    /\ Queue!Evict(d)
    /\ UNCHANGED <<rows, sub, outbox, worker, history>>

LoseJob(d) ==
    /\ Happens("lose_job")
    /\ Queue!Lose(d)
    /\ UNCHANGED <<rows, sub, outbox, worker, history>>

Ripen(d) ==
    /\ row[d] = "pending"
    /\ d \notin ripe
    /\ ripe' = ripe \cup {d}
    /\ UNCHANGED <<queue, row, attempts, sub, outbox, worker, events, history>>

\* WebhookSubscriptionService.update: the active flag.
UpdateSubscription(s) ==
    /\ Happens("subscription")
    /\ sub[s] # "gone"
    /\ sub' = [sub EXCEPT ![s] = IF @ = "active" THEN "inactive" ELSE "active"]
    /\ UNCHANGED <<queue, rows, outbox, worker, history>>

\* remove: a foreign key refuses it while a delivery refers to the subscription.
RemoveSubscription(s) ==
    /\ Happens("subscription")
    /\ sub[s] # "gone"
    /\ \A d \in Deliveries : SubscriptionOf[d] = s => row[d] \in {"none", "aborted"}
    /\ sub' = [sub EXCEPT ![s] = "gone"]
    /\ UNCHANGED <<queue, rows, outbox, worker, history>>

-----------------------------------------------------------------------------
(* Specification *)

Init ==
    /\ Queue!QueueInit
    /\ row = [d \in Deliveries |-> "none"]
    /\ attempts = [d \in Deliveries |-> 0]
    /\ ripe = {}
    /\ sub = [s \in Subscriptions |-> "active"]
    /\ unflushed = {}
    /\ selected = {}
    /\ pc = [w \in Workers |-> "idle"]
    /\ job = [w \in Workers |-> NoDelivery]
    /\ seen = [w \in Workers |-> 0]
    /\ held = [w \in Workers |-> FALSE]
    /\ events = 0
    /\ posts = [d \in Deliveries |-> 0]
    /\ accepted = {}
    /\ lost = [d \in Deliveries |-> 0]
    /\ overlapped = {}

Work(w) ==
    \/ Read(w)
    \/ Retire(w)
    \/ Post(w)
    \/ RecordDelivered(w)
    \/ DeadLetter(w)
    \/ ScheduleRetry(w)
    \/ Requeue(w)
    \/ Leave(w)

Next ==
    \/ \E d \in Deliveries : Stage(d) \/ Commit(d) \/ Rollback(d) \/ Flush(d)
    \/ SweepSelect
    \/ \E d \in Deliveries : SweepEnqueue(d)
    \/ \E w \in Workers, d \in Deliveries : TakeJob(w, d)
    \/ \E w \in Workers : Work(w)
    \/ \E w \in Workers : Throw(w) \/ Crash(w) \/ LoseLock(w)
    \/ \E d \in Deliveries : StallJob(d) \/ PromoteJob(d) \/ EvictJob(d) \/ LoseJob(d)
    \/ \E d \in Deliveries : Ripen(d)
    \/ \E s \in Subscriptions : UpdateSubscription(s) \/ RemoveSubscription(s)

Spec == Init /\ [][Next]_vars

\* The sweep's timer fires, its enqueues return, time passes, BullMQ finds stalled
\* jobs and hands out waiting ones in their order, and a worker's promises resolve.
Fairness ==
    /\ WF_vars(SweepSelect)
    /\ \A d \in Deliveries :
          /\ WF_vars(SweepEnqueue(d))
          /\ WF_vars(Ripen(d))
          /\ WF_vars(StallJob(d))
          /\ WF_vars(PromoteJob(d))
          /\ SF_vars(\E w \in Workers : TakeJob(w, d))
    /\ \A w \in Workers : WF_vars(Work(w))

FairSpec == Spec /\ Fairness

-----------------------------------------------------------------------------
(* Properties *)

(* Every variable has its type, and a busy worker holds a delivery. *)
TypeOK ==
    /\ Queue!QueueTypes
    /\ row \in [Deliveries -> RowStates]
    /\ attempts \in [Deliveries -> Nat]
    /\ ripe \subseteq Deliveries
    /\ sub \in [Subscriptions -> {"active", "inactive", "gone"}]
    /\ unflushed \subseteq Deliveries
    /\ selected \subseteq Deliveries
    /\ pc \in [Workers -> PCs]
    /\ job \in [Workers -> Deliveries \cup {NoDelivery}]
    /\ \A w \in Workers : pc[w] # "idle" => job[w] \in Deliveries
    /\ seen \in [Workers -> Nat]
    /\ held \in [Workers -> BOOLEAN]
    /\ events \in 0 .. MaxEvents
    /\ posts \in [Deliveries -> Nat]
    /\ accepted \subseteq Deliveries
    /\ lost \in [Deliveries -> Nat]
    /\ overlapped \subseteq Deliveries

(* The retry policy over crashes and duplicated wake-ups: an event is POSTed  *)
(* at most maxAttempts times, plus once for every POST whose outcome a crash *)
(* or an error kept from being recorded -- unless two runs of it overlapped. *)
PostsBounded == \A d \in Deliveries \ overlapped : posts[d] <= MaxAttempts + lost[d]

(* "Idempotent: a row already in a terminal state is a no-op -- safe under    *)
(* duplicate wake-ups": a delivered or dead-lettered row stays as it is.  No *)
(* UPDATE checks it: the job's lock alone keeps a second run away.           *)
TerminalIsFinal ==
    [][\A d \in Deliveries \ overlapped : row[d] \in {"delivered", "failed"} =>
          row'[d] = row[d] /\ attempts'[d] = attempts[d]]_vars

(* Outbox, both ways: what is delivered was accepted by the subscriber, and  *)
(* nothing is POSTed for an event whose transaction rolled back or is open.  *)
OutboxHonest ==
    \A d \in Deliveries :
        /\ row[d] = "delivered" => d \in accepted
        /\ posts[d] > 0 => row[d] \in Committed

(* What the sweep achieves: a committed event is delivered or dead-lettered  *)
(* in the end, or its job ended up in the queue's failed tail.               *)
SettledOrJobFailed ==
    \A d \in Deliveries :
        row[d] = "pending" ~> row[d] \in {"delivered", "failed"} \/ jobs[d] = "failed"

(* The outbox implements the abstract delivery of an event, which adds that  *)
(* a dead-lettered event had all its attempts: maxAttempts POSTs that were   *)
(* answered, or a worker that found its subscription inactive while the row  *)
(* was pending.                                                              *)
Retiring == {d \in Deliveries : \E w \in Workers : pc[w] = "retiring" /\ job[w] = d}

Promise == INSTANCE EventDelivery WITH
    Events <- Deliveries, outcome <- row, sent <- posts, forgotten <- lost,
    withdrawn <- Retiring, loose <- overlapped

ImplementsEventDelivery == Promise!Spec

=============================================================================
