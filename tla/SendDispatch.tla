--------------------------- MODULE SendDispatch ---------------------------
(***************************************************************************)
(* The sequence send engine (apps/api/src/services/sequences): enrollments *)
(* create one send intent per step, workers claim due intents in a         *)
(* transaction that re-checks every send-safety rail, call the provider    *)
(* outside it, and record the outcome in a second transaction.  Replies,   *)
(* bounces and unsubscribes pause enrollments while this happens; reviews, *)
(* administrators and crashes interfere; stale claims can be expired.      *)
(*                                                                         *)
(* A transaction is the sequence of its statements that read or lock what  *)
(* another actor may change.  The database runs READ COMMITTED: a          *)
(* statement sees what is committed when it runs, `SELECT ... FOR UPDATE`  *)
(* and `UPDATE` wait for the row's lock.  `state', `enr', ... hold the     *)
(* committed rows; an open claim transaction is a worker's pc.             *)
(***************************************************************************)
EXTENDS Naturals, FiniteSets

CONSTANTS
    Leads, Contacts, Destinations, Mailboxes, SequenceIds, Enrollments,
    Intents, Workers,
    NoIntent,       \* the job of an idle worker
    LeadOf,         \* [Contacts -> Leads]
    EmailOf,        \* [Contacts -> Destinations], the first e-mail address
    PhoneOf,        \* [Contacts -> Destinations], the first phone number
    ContactOf,      \* [Enrollments -> Contacts]
    SequenceOf,     \* [Enrollments -> SequenceIds]
    MailboxOf,      \* [Enrollments -> Mailboxes]
    EnrollmentOf,   \* [Intents -> Enrollments]
    Channel,        \* [Intents -> Channels]
    DelayOf,        \* [Intents -> Nat], cumulative delay of the intent's step
    NeedsReview,    \* intents whose step has requiresReview
    SkipIfReplied,  \* intents whose step has the skipIfReplied condition
    Unsendable,     \* intents with no template, mailbox, recipient or number
    StartUnlinked,  \* mailboxes that have no oauth tokens at first
    DailyCap,       \* org_settings: sends per mailbox and UTC day
    DayLength,      \* ticks in a day
    OpenTicks,      \* ticks of a day inside the sending window / quiet hours
    ClaimTimeout,   \* a claim at least this old is stale
    ExpiryWired,    \* does anything call expireStaleClaims?  main.ts does not
    MaxTime,        \* bound on the clock
    MaxEvents       \* bound on outside events (replies, crashes, edits...)

Channels == {"email", "sms", "call_task"}

ASSUME CastAssumption ==
    /\ LeadOf \in [Contacts -> Leads]
    /\ EmailOf \in [Contacts -> Destinations]
    /\ PhoneOf \in [Contacts -> Destinations]
    /\ ContactOf \in [Enrollments -> Contacts]
    /\ SequenceOf \in [Enrollments -> SequenceIds]
    /\ MailboxOf \in [Enrollments -> Mailboxes]
    /\ EnrollmentOf \in [Intents -> Enrollments]
    /\ Channel \in [Intents -> Channels]
    /\ DelayOf \in [Intents -> Nat]
    /\ NeedsReview \subseteq Intents
    /\ SkipIfReplied \subseteq Intents
    /\ Unsendable \subseteq Intents
    /\ StartUnlinked \subseteq Mailboxes
    /\ NoIntent \notin Intents

ASSUME BoundsAssumption ==
    /\ DailyCap \in Nat
    /\ DayLength \in Nat \ {0}
    /\ OpenTicks \subseteq 0 .. DayLength - 1
    /\ ClaimTimeout \in Nat
    /\ ExpiryWired \in BOOLEAN
    /\ MaxTime \in Nat
    /\ MaxEvents \in Nat

VARIABLES
    now,        \* the wall clock
    events,     \* outside events so far (bounded by MaxEvents)
    enr,        \* sequence_enrollments.state, "none" before the insert
    state,      \* send_intents.state, "none" before the insert
    due,        \* send_intents.due_at
    claimedAt,  \* send_intents.claimed_at
    suppressed, \* Destinations -> how an active suppression came to be
    dnc,        \* leads and contacts flagged do-not-contact
    deleted,    \* soft-deleted leads and contacts
    leaving,    \* open unsubscribe transactions
    late,       \* history: enrollments made while their address was leaving
    approving,  \* intents whose approval has read the row and not yet updated it
    inbound,    \* <<enrollment, channel>>: a reply recorded since enrollment
    unlinked,   \* mailboxes without oauth tokens
    sendCount,  \* email_accounts.daily_send_count
    countDate,  \* email_accounts.daily_count_date
    claimsOn,   \* history: e-mail claims per mailbox and day of the claim's clock
    turns,      \* history: how often a counter was set back to an earlier day
    pc, job,    \* where each worker is, and with which intent
    clock,      \* deps.now() as the worker read it when it picked the job up
    calls       \* history: provider.send calls made per intent

pending  == <<leaving, late, approving>>
entities == <<suppressed, pending, dnc, deleted, inbound, unlinked>>
rows     == <<enr, state, due, claimedAt>>
mailbox  == <<sendCount, countDate, claimsOn, turns>>
worker   == <<pc, job, clock>>
vars == <<now, events, rows, entities, mailbox, worker, calls>>

-----------------------------------------------------------------------------
(* Vocabulary *)

EnrStates    == {"none", "active", "paused", "finished"}
Open         == {"SCHEDULED", "CLAIMED", "AWAITING_REVIEW"}
Terminal     == {"SENT", "SKIPPED", "BLOCKED", "FAILED", "FAILED_TIMEOUT"}
IntentStates == {"none"} \cup Open \cup Terminal

\* Worker control points.  The first four are inside the claim transaction.
InClaim  == {"claiming", "guarding", "vetted", "cleared"}
Locking  == {"guarding", "vetted", "cleared"}
InFlight == {"calling", "delivered", "undelivered"}
PCs      == {"idle"} \cup InClaim \cup InFlight

Contact(i) == ContactOf[EnrollmentOf[i]]
Lead(i)    == LeadOf[Contact(i)]
Mailbox(i) == MailboxOf[EnrollmentOf[i]]
Dest(i)    == IF Channel[i] = "sms" THEN PhoneOf[Contact(i)] ELSE EmailOf[Contact(i)]

Day(t)        == t \div DayLength
Days          == {Day(t) : t \in 0 .. MaxTime}
InsideWindow(t) == t % DayLength \in OpenTicks
\* minutesUntilOpen: the distance to the next open tick, a day if there is none --
\* as many ticks as there are d whose next d ticks are all closed.
UntilOpen(t) ==
    Cardinality({d \in 0 .. DayLength - 1 : \A x \in 1 .. d : ~InsideWindow(t + x)})

IntentLocked(i)     == \E w \in Workers : pc[w] \in InClaim /\ job[w] = i

EnrollmentLocked(e) ==
    \E w \in Workers : pc[w] \in Locking /\ EnrollmentOf[job[w]] = e

Intents_(e) == {i \in Intents : EnrollmentOf[i] = e}
Replied(i)  ==
    \E ch \in (IF Channel[i] = "sms" THEN {"email", "sms"} ELSE {"email"}) :
        <<EnrollmentOf[i], ch>> \in inbound

Happens == events < MaxEvents /\ events' = events + 1

\* The worker leaves the job: its transaction committed, or its error was thrown.
Release(w) ==
    /\ pc' = [pc EXCEPT ![w] = "idle"]
    /\ job' = [job EXCEPT ![w] = NoIntent]
    /\ UNCHANGED clock

Goto(w, p) == pc' = [pc EXCEPT ![w] = p] /\ UNCHANGED <<job, clock>>

-----------------------------------------------------------------------------
(* Enrollment: one row per enrollment, one intent per step, in one           *)
(* transaction.  The partial unique index keeps one live enrollment per      *)
(* (sequence, contact).                                                      *)

Live(e) == enr[e] \in {"active", "paused"}

Enroll(e) ==
    /\ enr[e] = "none"
    /\ {ContactOf[e], LeadOf[ContactOf[e]]} \cap deleted = {}
    /\ ~ \E d \in Enrollments : /\ Live(d)
                                /\ SequenceOf[d] = SequenceOf[e]
                                /\ ContactOf[d] = ContactOf[e]
    /\ enr' = [enr EXCEPT ![e] = "active"]
    /\ state' = [i \in Intents |->
                    IF i \notin Intents_(e) THEN state[i]
                    ELSE IF i \in NeedsReview THEN "AWAITING_REVIEW" ELSE "SCHEDULED"]
    /\ due' = [i \in Intents |->
                    IF i \in Intents_(e) THEN now + DelayOf[i] ELSE due[i]]
    /\ late' = IF \E u \in leaving : u.to = EmailOf[ContactOf[e]] THEN late \cup {e} ELSE late
    /\ UNCHANGED <<now, events, claimedAt, suppressed, leaving, approving, dnc, deleted,
                   inbound, unlinked, mailbox, worker, calls>>

-----------------------------------------------------------------------------
(* Phase A: the claim transaction *)

\* Mutant: the worker takes the row but loses which intent it holds.
ClaimLosesJob(w, i) ==
    /\ pc[w] = "idle" /\ ~IntentLocked(i) /\ state[i] = "SCHEDULED" /\ due[i] <= now
    /\ pc' = [pc EXCEPT ![w] = "claiming"]
    /\ UNCHANGED <<now, events, rows, entities, mailbox, job, clock, calls>>

\* UPDATE ... SET state = 'CLAIMED' WHERE state = 'SCHEDULED' AND due_at <= now:
\* takes the intent's row lock, or matches nothing.
Claim(w, i) ==
    /\ pc[w] = "idle"
    /\ ~IntentLocked(i)
    /\ state[i] = "SCHEDULED"
    /\ due[i] <= now
    /\ pc' = [pc EXCEPT ![w] = "claiming"]
    /\ job' = [job EXCEPT ![w] = i]
    /\ clock' = [clock EXCEPT ![w] = now]
    /\ UNCHANGED <<now, events, rows, entities, mailbox, calls>>

\* The transaction commits the intent in a terminal state and the job ends.
Settle(w, s) ==
    /\ state' = [state EXCEPT ![job[w]] = s]
    /\ Release(w)
    /\ UNCHANGED <<now, events, enr, due, claimedAt, entities, mailbox, calls>>

\* deferIntent, committed.
Defer(w, ticks) ==
    /\ due' = [due EXCEPT ![job[w]] = clock[w] + ticks]
    /\ Release(w)
    /\ UNCHANGED <<now, events, enr, state, claimedAt, entities, mailbox, calls>>

\* Mutant: a step whose call is in flight does not count as open.
FinishIgnoringClaims(i) ==
    LET e == EnrollmentOf[i]
    IN  enr' = IF \E j \in Intents_(e) \ {i} : state[j] \in {"SCHEDULED", "AWAITING_REVIEW"}
               THEN enr ELSE [enr EXCEPT ![e] = "finished"]

\* finishIfComplete, run when intent i becomes SENT: no other open intent left.
FinishIfComplete(i) ==
    LET e == EnrollmentOf[i]
    IN  enr' = IF \E j \in Intents_(e) \ {i} : state[j] \in Open
               THEN enr ELSE [enr EXCEPT ![e] = "finished"]

\* SELECT ... FROM sequence_enrollments ... FOR UPDATE, and the active check.
LockEnrollment(w) ==
    /\ pc[w] = "claiming"
    /\ ~EnrollmentLocked(EnrollmentOf[job[w]])
    /\ IF enr[EnrollmentOf[job[w]]] = "active"
       THEN /\ Goto(w, "guarding")
            /\ UNCHANGED <<now, events, rows, entities, mailbox, calls>>
       ELSE Settle(w, "SKIPPED")

\* A call_task step becomes a task, and is complete, in the same transaction.
MaterializeCallTask(w) ==
    /\ pc[w] = "guarding"
    /\ Channel[job[w]] = "call_task"
    /\ IF Lead(job[w]) \in deleted
       THEN Settle(w, "SKIPPED")
       ELSE /\ state' = [state EXCEPT ![job[w]] = "SENT"]
            /\ FinishIfComplete(job[w])
            /\ Release(w)
            /\ UNCHANGED <<now, events, due, claimedAt, entities, mailbox, calls>>

\* The condition gate, the missing-data exits, and DNC of lead and contact. Their
\* SELECTs follow one another; nothing locks what they read, and the steps below
\* rely on none of it, so that one step stands for the last of them.
Vet(w, i) ==
    IF \/ i \in SkipIfReplied /\ Replied(i)
       \/ i \in Unsendable
       \/ {Lead(i), Contact(i)} \cap deleted # {}
    THEN Settle(w, "SKIPPED")
    ELSE IF {Lead(i), Contact(i)} \cap dnc # {}
    THEN Settle(w, "BLOCKED")
    ELSE /\ Goto(w, "vetted")
         /\ UNCHANGED <<now, events, rows, entities, mailbox, calls>>

\* The suppression probe, and the sending window (e-mail) or quiet hours (sms).
Probe(w, d) ==
    IF suppressed[d] # "no"
    THEN Settle(w, "BLOCKED")
    ELSE IF ~InsideWindow(clock[w])
    THEN Defer(w, UntilOpen(clock[w]))
    ELSE /\ Goto(w, "cleared")
         /\ UNCHANGED <<now, events, rows, entities, mailbox, calls>>

VetEmail(w) == pc[w] = "guarding" /\ Channel[job[w]] = "email" /\ Vet(w, job[w])
VetSms(w)   == pc[w] = "guarding" /\ Channel[job[w]] = "sms" /\ Vet(w, job[w])

ProbeEmail(w) ==
    pc[w] = "vetted" /\ Channel[job[w]] = "email" /\ Probe(w, EmailOf[Contact(job[w])])
ProbePhone(w) ==
    pc[w] = "vetted" /\ Channel[job[w]] = "sms" /\ Probe(w, PhoneOf[Contact(job[w])])

\* COMMIT: the claim is visible before any network call.
CommitClaim(w) ==
    /\ state' = [state EXCEPT ![job[w]] = "CLAIMED"]
    /\ claimedAt' = [claimedAt EXCEPT ![job[w]] = clock[w]]
    /\ Goto(w, "calling")

CommitSmsClaim(w) ==
    /\ pc[w] = "cleared"
    /\ Channel[job[w]] = "sms"
    /\ CommitClaim(w)
    /\ UNCHANGED <<now, events, enr, due, entities, mailbox, calls>>

\* The step's template is gone: the last exit before the claim's COMMIT.
SkipSms(w) ==
    /\ pc[w] = "cleared"
    /\ Channel[job[w]] = "sms"
    /\ Happens
    /\ state' = [state EXCEPT ![job[w]] = "SKIPPED"]
    /\ Release(w)
    /\ UNCHANGED <<now, enr, due, claimedAt, entities, mailbox, calls>>

\* sendCount counts the day in countDate; another day's count is stale.
UsedToday(m, t) == IF countDate[m] = Day(t) THEN sendCount[m] ELSE 0

\* Mutant: the cap is off by one.
CapPassed(m, t) == UsedToday(m, t) > DailyCap

CapReached(m, t) == UsedToday(m, t) >= DailyCap

\* t was read when the job was picked up: a day that is over by now resets the
\* counter of the day that has begun.
ChargeMailbox(m, t) ==
    /\ sendCount' = [sendCount EXCEPT ![m] = UsedToday(m, t) + 1]
    /\ countDate' = [countDate EXCEPT ![m] = Day(t)]
    /\ turns' = [turns EXCEPT ![m] = IF Day(t) < countDate[m] THEN @ + 1 ELSE @]

\* The mailbox row, locked; the daily cap; the claim's COMMIT.
CommitEmailClaim(w) ==
    LET i == job[w]
        m == Mailbox(i)
    IN  /\ pc[w] = "cleared"
        /\ Channel[i] = "email"
        /\ m \notin unlinked
        /\ ~CapReached(m, clock[w])
        /\ ChargeMailbox(m, clock[w])
        /\ claimsOn' = [claimsOn EXCEPT ![<<m, Day(clock[w])>>] = @ + 1]
        /\ CommitClaim(w)
        /\ UNCHANGED <<now, events, enr, due, entities, calls>>

\* The exits of the same step: mailbox unlinked, cap reached (next day), or the
\* template gone once the counter is already incremented.
LeaveMailbox(w) ==
    LET i == job[w]
        m == Mailbox(i)
    IN  /\ pc[w] = "cleared"
        /\ Channel[i] = "email"
        /\ \/ m \in unlinked /\ Settle(w, "SKIPPED")
           \/ /\ m \notin unlinked
              /\ CapReached(m, clock[w])
              /\ Defer(w, DayLength)
           \/ /\ m \notin unlinked
              /\ ~CapReached(m, clock[w])
              /\ Happens
              /\ ChargeMailbox(m, clock[w])
              /\ state' = [state EXCEPT ![i] = "SKIPPED"]
              /\ Release(w)
              /\ UNCHANGED <<now, enr, due, claimedAt, entities, claimsOn, calls>>

-----------------------------------------------------------------------------
(* Phase B: the provider call, and phase C: the recording transaction *)

\* provider.send or sendSms is called; what comes back is an answer or an error.
Call(w) ==
    /\ calls' = [calls EXCEPT ![job[w]] = @ + 1]
    /\ \/ Goto(w, "delivered") /\ UNCHANGED events
       \/ Goto(w, "undelivered") /\ Happens
    /\ UNCHANGED <<now, rows, entities, mailbox>>

SendEmail(w) == pc[w] = "calling" /\ Channel[job[w]] = "email" /\ Call(w)
SendSms(w)   == pc[w] = "calling" /\ Channel[job[w]] = "sms" /\ Call(w)

\* providerFor or cipher.decrypt throws: no call is made, and it is a failure too.
FailBeforeCall(w) ==
    /\ pc[w] = "calling"
    /\ Channel[job[w]] = "email"
    /\ Happens
    /\ Goto(w, "undelivered")
    /\ UNCHANGED <<now, rows, entities, mailbox, calls>>

RecordFailure(w) ==
    /\ pc[w] = "undelivered"
    /\ Settle(w, "FAILED")

\* Mutant: phase C trusts the check of phase A.
RecordUnchecked(w, i) ==
    /\ state' = [state EXCEPT ![i] = "SENT"]
    /\ Release(w)
    /\ UNCHANGED <<now, events, enr, due, claimedAt, entities, mailbox, calls>>

\* Re-lock the enrollment: a pause during the call wins.  recordActivity throws
\* for a soft-deleted lead, which rolls the transaction back.
Record(w, i) ==
    /\ ~EnrollmentLocked(EnrollmentOf[i])
    /\ IF enr[EnrollmentOf[i]] # "active"
       THEN Settle(w, "SKIPPED")
       ELSE IF Lead(i) \in deleted
       THEN /\ Release(w)
            /\ UNCHANGED <<now, events, rows, entities, mailbox, calls>>
       ELSE /\ state' = [state EXCEPT ![i] = "SENT"]
            /\ FinishIfComplete(i)
            /\ Release(w)
            /\ UNCHANGED <<now, events, due, claimedAt, entities, mailbox, calls>>

RecordEmailSent(w) ==
    pc[w] = "delivered" /\ Channel[job[w]] = "email" /\ Record(w, job[w])
FinishSmsSend(w) ==
    pc[w] = "delivered" /\ Channel[job[w]] = "sms" /\ Record(w, job[w])

\* The process dies: an open transaction rolls back, a committed claim stays.
Crash(w) ==
    /\ pc[w] # "idle"
    /\ Happens
    /\ Release(w)
    /\ UNCHANGED <<now, rows, entities, mailbox, calls>>

-----------------------------------------------------------------------------
(* expireStaleClaims, the crash recovery: one UPDATE over every stale claim. *)
(* The scheduled sweeper (main.ts) does not call it, so no fairness is       *)
(* assumed: a stale claim may stay CLAIMED for ever.                         *)

\* Mutant: a stale claim is put back to be sent.
RetryStaleClaims ==
    /\ ExpiryWired
    /\ \E i \in Intents : state[i] = "CLAIMED" /\ claimedAt[i] + ClaimTimeout <= now
    /\ state' = [i \in Intents |->
                    IF state[i] = "CLAIMED" /\ claimedAt[i] + ClaimTimeout <= now
                    THEN "SCHEDULED" ELSE state[i]]
    /\ UNCHANGED <<now, events, enr, due, claimedAt, entities, mailbox, worker, calls>>

Stale(i) == state[i] = "CLAIMED" /\ claimedAt[i] + ClaimTimeout <= now

ExpireStaleClaims ==
    /\ ExpiryWired
    /\ \E i \in Intents : Stale(i)
    /\ state' = [i \in Intents |-> IF Stale(i) THEN "FAILED_TIMEOUT" ELSE state[i]]
    /\ UNCHANGED <<now, events, enr, due, claimedAt, entities, mailbox, worker, calls>>

-----------------------------------------------------------------------------
(* Pauses: the rows of every active enrollment aimed at are locked, set to   *)
(* paused and logged.  The log throws for a soft-deleted lead.               *)

PauseTargets(cs) == {e \in Enrollments : enr[e] = "active" /\ ContactOf[e] \in cs}

PauseActive(cs) ==
    /\ \A e \in PauseTargets(cs) : ~EnrollmentLocked(e)
    /\ enr' = [e \in Enrollments |-> IF e \in PauseTargets(cs) THEN "paused" ELSE enr[e]]

ContactsOf(l) == {c \in Contacts : LeadOf[c] = l}

Since(l) == {e \in Enrollments : enr[e] # "none" /\ LeadOf[ContactOf[e]] = l}

\* An inbound reply on a lead, through the ingest seam.
PauseOnInboundReply(l) ==
    /\ Happens
    /\ l \notin deleted
    /\ PauseActive(ContactsOf(l))
    /\ inbound' = inbound \cup (Since(l) \X {"email"})
    /\ UNCHANGED <<now, state, due, claimedAt, suppressed, pending, dnc, deleted, unlinked,
                   mailbox, worker, calls>>

\* A bounce: of one contact's mail, or of the lead's when the caller names none.
RecordBounceAndPause(l, cs) ==
    /\ Happens
    /\ l \notin deleted
    /\ PauseActive(cs)
    /\ UNCHANGED <<now, state, due, claimedAt, entities, mailbox, worker, calls>>

\* An inbound message that lands on the timeline without a pause: a text, or a
\* mail whose thread is matched to the lead only later.
RecordInbound(l, ch) ==
    /\ Happens
    /\ l \notin deleted
    /\ inbound' = inbound \cup (Since(l) \X {ch})
    /\ UNCHANGED <<now, rows, suppressed, pending, dnc, deleted, unlinked, mailbox, worker,
                   calls>>

ContactsWithEmail(d) == {c \in Contacts \ deleted : EmailOf[c] = d}

\* An address that becomes suppressed is logged on every lead that has it; a
\* soft-deleted lead makes the log throw.
UnsubscribeThrows(d) ==
    \E c \in ContactsWithEmail(d) : /\ LeadOf[c] \in deleted
                                    /\ suppressed[d] = "no" \/ PauseTargets({c}) # {}

\* The unsubscribe link is hit: one transaction.  It inserts (or revives) the
\* suppression, which nobody sees yet, finds the address's contacts and the active
\* enrollments to lock -- or is rolled back at once, when the log throws.
ApplyUnsubscribe(d) ==
    /\ Happens
    /\ ~ \E u \in leaving : u.to = d /\ u.adds
    /\ IF UnsubscribeThrows(d)
       THEN UNCHANGED leaving
       ELSE leaving' = leaving \cup {[to |-> d, adds |-> suppressed[d] = "no",
                                     found |-> PauseTargets(ContactsWithEmail(d))]}
    /\ UNCHANGED <<now, rows, suppressed, late, approving, dnc, deleted, inbound, unlinked,
                   mailbox, worker, calls>>

\* Mutant: the suppression commits without pausing the enrollments found.
CommitUnsubscribeUnpaused(u) ==
    /\ leaving' = leaving \ {u}
    /\ suppressed' = [suppressed EXCEPT ![u.to] = IF u.adds THEN "unsubscribe" ELSE @]
    /\ UNCHANGED <<now, events, rows, late, approving, dnc, deleted, inbound, unlinked, mailbox,
                   worker, calls>>

\* It has the locks of those that are still active, pauses them and commits.
CommitUnsubscribe(u) ==
    LET paused == {e \in u.found : enr[e] = "active"}
    IN  /\ \A e \in paused : ~EnrollmentLocked(e)
        /\ leaving' = leaving \ {u}
        /\ IF \E e \in paused : LeadOf[ContactOf[e]] \in deleted
           THEN UNCHANGED <<suppressed, enr>>
           ELSE /\ suppressed' = [suppressed EXCEPT ![u.to] = IF u.adds THEN "unsubscribe" ELSE @]
                /\ enr' = [e \in Enrollments |-> IF e \in paused THEN "paused" ELSE enr[e]]
        /\ UNCHANGED <<now, events, state, due, claimedAt, late, approving, dnc, deleted, inbound,
                       unlinked, mailbox, worker, calls>>

-----------------------------------------------------------------------------
(* Other actors *)

\* An administrator's suppression, or a STOP text: a plain insert, no pause.
AddSuppression(d) ==
    /\ Happens
    /\ suppressed[d] = "no"
    /\ ~ \E u \in leaving : u.to = d /\ u.adds
    /\ suppressed' = [suppressed EXCEPT ![d] = "manual"]
    /\ UNCHANGED <<now, rows, pending, dnc, deleted, inbound, unlinked, mailbox, worker, calls>>

ReleaseSuppression(d) ==
    /\ Happens
    /\ suppressed[d] # "no"
    /\ suppressed' = [suppressed EXCEPT ![d] = "no"]
    /\ UNCHANGED <<now, rows, pending, dnc, deleted, inbound, unlinked, mailbox, worker, calls>>

SetDnc(x) ==
    /\ Happens
    /\ dnc' = IF x \in dnc THEN dnc \ {x} ELSE dnc \cup {x}
    /\ UNCHANGED <<now, rows, suppressed, pending, deleted, inbound, unlinked, mailbox, worker,
                   calls>>

SoftDelete(x) ==
    /\ Happens
    /\ x \notin deleted
    /\ deleted' = deleted \cup {x}
    /\ UNCHANGED <<now, rows, suppressed, pending, dnc, inbound, unlinked, mailbox, worker,
                   calls>>

\* completeLinking: the OAuth exchange stores the mailbox's tokens.
Link(m) ==
    /\ m \in unlinked
    /\ unlinked' = unlinked \ {m}
    /\ UNCHANGED <<now, events, rows, suppressed, pending, dnc, deleted, inbound, mailbox, worker,
                   calls>>

\* The approval reads the row and the DNC flags, ...
StartApproval(i) ==
    /\ state[i] = "AWAITING_REVIEW"
    /\ i \notin approving
    /\ {Lead(i), Contact(i)} \cap dnc = {}
    /\ approving' = approving \cup {i}
    /\ UNCHANGED <<now, events, rows, suppressed, leaving, late, dnc, deleted, inbound, unlinked,
                   mailbox, worker, calls>>

\* Mutant: the UPDATE's WHERE does not repeat the state that was read before.
ApproveUnguarded(i) ==
    /\ i \in approving
    /\ approving' = approving \ {i}
    /\ state' = [state EXCEPT ![i] = "SCHEDULED"]
    /\ due' = [due EXCEPT ![i] = now]
    /\ UNCHANGED <<now, events, enr, claimedAt, suppressed, leaving, late, dnc, deleted, inbound,
                   unlinked, mailbox, worker, calls>>

\* ... and its UPDATE repeats the state: what came in between is a conflict.
ApproveReview(i) ==
    /\ i \in approving
    /\ approving' = approving \ {i}
    /\ IF state[i] = "AWAITING_REVIEW"
       THEN /\ state' = [state EXCEPT ![i] = "SCHEDULED"]
            /\ due' = [due EXCEPT ![i] = now]
       ELSE UNCHANGED <<state, due>>
    /\ UNCHANGED <<now, events, enr, claimedAt, suppressed, leaving, late, dnc, deleted, inbound,
                   unlinked, mailbox, worker, calls>>

SkipReview(i) ==
    /\ state[i] = "AWAITING_REVIEW"
    /\ state' = [state EXCEPT ![i] = "SKIPPED"]
    /\ UNCHANGED <<now, events, enr, due, claimedAt, entities, mailbox, worker, calls>>

Tick ==
    /\ now < MaxTime
    /\ now' = now + 1
    /\ UNCHANGED <<events, rows, entities, mailbox, worker, calls>>

-----------------------------------------------------------------------------
(* Specification *)

Init ==
    /\ now = 0
    /\ events = 0
    /\ enr = [e \in Enrollments |-> "none"]
    /\ state = [i \in Intents |-> "none"]
    /\ due = [i \in Intents |-> 0]
    /\ claimedAt = [i \in Intents |-> 0]
    /\ suppressed = [d \in Destinations |-> "no"]
    /\ leaving = {}
    /\ late = {}
    /\ approving = {}
    /\ dnc = {}
    /\ deleted = {}
    /\ inbound = {}
    /\ unlinked = StartUnlinked
    /\ sendCount = [m \in Mailboxes |-> 0]
    /\ countDate = [m \in Mailboxes |-> 0]
    /\ claimsOn = [x \in Mailboxes \X Days |-> 0]
    /\ turns = [m \in Mailboxes |-> 0]
    /\ pc = [w \in Workers |-> "idle"]
    /\ job = [w \in Workers |-> NoIntent]
    /\ clock = [w \in Workers |-> 0]
    /\ calls = [i \in Intents |-> 0]

\* What a worker does with a job it has picked up.
Work(w) ==
    \/ LockEnrollment(w)
    \/ MaterializeCallTask(w)
    \/ VetEmail(w) \/ ProbeEmail(w) \/ CommitEmailClaim(w) \/ LeaveMailbox(w)
    \/ VetSms(w) \/ ProbePhone(w) \/ CommitSmsClaim(w) \/ SkipSms(w)
    \/ SendEmail(w) \/ FailBeforeCall(w) \/ RecordEmailSent(w)
    \/ SendSms(w) \/ FinishSmsSend(w)
    \/ RecordFailure(w)

Outside ==
    \/ \E l \in Leads : PauseOnInboundReply(l)
    \/ \E c \in Contacts : RecordBounceAndPause(LeadOf[c], {c})
    \/ \E l \in Leads : RecordBounceAndPause(l, ContactsOf(l))
    \/ \E l \in Leads, ch \in {"email", "sms"} : RecordInbound(l, ch)
    \/ \E d \in Destinations : ApplyUnsubscribe(d)
    \/ \E d \in Destinations : AddSuppression(d)
    \/ \E d \in Destinations : ReleaseSuppression(d)
    \/ \E x \in Leads \cup Contacts : SetDnc(x)
    \/ \E x \in Leads \cup Contacts : SoftDelete(x)
    \/ \E m \in Mailboxes : Link(m)

Next ==
    \/ \E e \in Enrollments : Enroll(e)
    \/ \E w \in Workers, i \in Intents : Claim(w, i)
    \/ \E w \in Workers : Work(w)
    \/ \E w \in Workers : Crash(w)
    \/ ExpireStaleClaims
    \/ \E i \in Intents : StartApproval(i)
    \/ \E i \in Intents : ApproveReview(i)
    \/ \E i \in Intents : SkipReview(i)
    \/ \E u \in leaving : CommitUnsubscribe(u)
    \/ Outside
    \/ Tick

Spec == Init /\ [][Next]_vars

-----------------------------------------------------------------------------
(* Properties *)

RowTypes ==
    /\ enr \in [Enrollments -> EnrStates]
    /\ state \in [Intents -> IntentStates]
    /\ due \in [Intents -> Nat]
    /\ claimedAt \in [Intents -> Nat]

EntityTypes ==
    /\ suppressed \in [Destinations -> {"no", "manual", "unsubscribe"}]
    /\ \A u \in leaving : /\ u.to \in Destinations
                          /\ u.adds \in BOOLEAN
                          /\ u.found \subseteq Enrollments
    /\ late \subseteq Enrollments
    /\ approving \subseteq Intents
    /\ dnc \subseteq Leads \cup Contacts
    /\ deleted \subseteq Leads \cup Contacts
    /\ inbound \subseteq Enrollments \X {"email", "sms"}
    /\ unlinked \subseteq Mailboxes

MailboxTypes ==
    /\ sendCount \in [Mailboxes -> Nat]
    /\ countDate \in [Mailboxes -> Nat]
    /\ claimsOn \in [Mailboxes \X Days -> Nat]
    /\ turns \in [Mailboxes -> Nat]

WorkerTypes ==
    /\ pc \in [Workers -> PCs]
    /\ job \in [Workers -> Intents \cup {NoIntent}]
    /\ \A w \in Workers : pc[w] # "idle" => job[w] \in Intents
    /\ clock \in [Workers -> 0 .. MaxTime]

(* Every variable has its type: the committed rows, what is said of people   *)
(* and addresses, the mailbox counters, and the workers, of whom none is     *)
(* busy without an intent.                                                   *)
TypeOK ==
    /\ now \in 0 .. MaxTime
    /\ events \in 0 .. MaxEvents
    /\ calls \in [Intents -> Nat]
    /\ RowTypes
    /\ EntityTypes
    /\ MailboxTypes
    /\ WorkerTypes

(* I-SEND-1 (never twice): whatever workers, crashes, expiries, pauses and   *)
(* reviews do, provider.send is called at most once for an intent.           *)
AtMostOneCall == \A i \in Intents : calls[i] <= 1

(* What finishIfComplete promises: once an enrollment is finished none of    *)
(* its intents is still scheduled, claimed or awaiting review -- although    *)
(* other workers hold claims of the same enrollment when it is decided.      *)
FinishedIsComplete ==
    \A i \in Intents : enr[EnrollmentOf[i]] = "finished" => state[i] \notin Open

(* What is left of I-SEND-4's daily cap: the claims of a mailbox that carry   *)
(* one day's clock stay within the cap, and another cap's worth for each time *)
(* a worker with the clock of a day that is over set the counter back -- a    *)
(* worker may wait for the mailbox's row over midnight (dispatch.ts:472).     *)
DailyClaimsBounded ==
    \A m \in Mailboxes, d \in Days : claimsOn[<<m, d>>] <= DailyCap * turns[m] + DailyCap

Becomes(i, s) == state[i] # s /\ state'[i] = s

(* I-SEND-2: an enrollment that is paused or finished has no claim commit    *)
(* and no intent become SENT any more, wherever the pause fell in the claim  *)
(* or the provider call; nor does it ever become active again.               *)
NothingAfterPause ==
    [][\A e \in Enrollments : enr[e] \in {"paused", "finished"} =>
          /\ enr'[e] = enr[e]
          /\ \A i \in Intents_(e) : ~Becomes(i, "SENT") /\ ~Becomes(i, "CLAIMED")]_vars

(* I-SEND-5 with I-SEND-3: after an unsubscribe has committed, and until an  *)
(* administrator releases it, no e-mail claim commits for the address: the   *)
(* enrollments it found are paused, later ones meet the probe.  What escapes *)
(* both is an enrollment made while the transaction was open, and a contact  *)
(* that is deleted, which the unsubscribe does not find.                     *)
NeverClaimedAfterUnsubscribe ==
    [][\A i \in Intents :
          (/\ Becomes(i, "CLAIMED")
           /\ Channel[i] = "email"
           /\ Contact(i) \notin deleted
           /\ EnrollmentOf[i] \notin late) => suppressed[Dest(i)] # "unsubscribe"]_vars

(* The engine implements the abstract send: at most one provider call, only  *)
(* under a committed claim, any outcome but FAILED only after the call, and   *)
(* for good.                                                                 *)
Phase(i) == CASE state[i] \in {"none", "SCHEDULED", "AWAITING_REVIEW"} -> "open"
              [] state[i] = "CLAIMED" -> "claimed"
              [] state[i] = "FAILED_TIMEOUT" -> "expired"
              [] OTHER -> state[i]

Promise == INSTANCE SendOnce WITH phase <- [i \in Intents |-> Phase(i)], called <- calls

ImplementsSendOnce == Promise!Spec

=============================================================================
