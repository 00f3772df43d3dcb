------------------------ MODULE SendDispatch_proofs ------------------------
(***************************************************************************)
(* Proofs about SendDispatch, for any cast of leads, contacts, steps,      *)
(* mailboxes and workers, any cap, window and clock bound.                 *)
(*                                                                         *)
(* IInv is the inductive invariant.  Its heart is what each control point  *)
(* of a worker may rely on: inside the claim transaction the intent is     *)
(* still SCHEDULED for everybody else and belongs to no other worker; from *)
(* LockEnrollment on the enrollment is active and nobody else holds it; in *)
(* flight the intent is CLAIMED or given up, and calls counts exactly the  *)
(* call this worker made.  The counter of a mailbox is tied to the history *)
(* of its claims by ClaimsCharged.                                         *)
(***************************************************************************)
EXTENDS SendDispatch, FiniteSetTheorems, TLAPS

-----------------------------------------------------------------------------
(* The parts of the inductive invariant *)

\* No intent is held by two workers.
OneHolder ==
    \A v, w \in Workers : v # w /\ pc[v] # "idle" /\ pc[w] # "idle" => job[v] # job[w]

\* What a worker's control point says of the intent it holds.
HeldState ==
    \A w \in Workers :
        /\ pc[w] \in InClaim => state[job[w]] = "SCHEDULED"
        /\ pc[w] \in InFlight => state[job[w]] \in {"CLAIMED", "FAILED_TIMEOUT"}

\* Calls are counted once, and only for intents whose claim has committed.
CallCount ==
    /\ \A i \in Intents : calls[i] \in {0, 1}
    /\ \A i \in Intents :
          state[i] \in {"none", "SCHEDULED", "AWAITING_REVIEW"} => calls[i] = 0
    /\ \A w \in Workers :
          /\ pc[w] = "calling" => calls[job[w]] = 0
          /\ pc[w] = "delivered" => calls[job[w]] = 1

\* An enrollment that was not made has no intents; a locked one is active and
\* locked once.
EnrollmentRows ==
    /\ \A i \in Intents : enr[EnrollmentOf[i]] = "none" => state[i] = "none"
    /\ \A w \in Workers : pc[w] \in Locking => enr[EnrollmentOf[job[w]]] = "active"
    /\ \A v, w \in Workers : v # w /\ pc[v] \in Locking /\ pc[w] \in Locking
          => EnrollmentOf[job[v]] # EnrollmentOf[job[w]]

\* An open unsubscribe that will suppress its address has found every active
\* enrollment of it but the late ones and those of deleted contacts.
FoundAll ==
    \A u \in leaving : u.adds =>
        \A e \in Enrollments :
            (/\ enr[e] = "active"
             /\ EmailOf[ContactOf[e]] = u.to
             /\ ContactOf[e] \notin deleted
             /\ e \notin late)
            => e \in u.found

\* A worker past the probe holds an address that nobody has unsubscribed, with
\* the same exceptions.
ClearedIsSubscribed ==
    \A w \in Workers :
        (/\ pc[w] = "cleared"
         /\ Channel[job[w]] = "email"
         /\ Contact(job[w]) \notin deleted
         /\ EnrollmentOf[job[w]] \notin late)
        => suppressed[EmailOf[Contact(job[w])]] # "unsubscribe"

\* What the counter says of the claims of a day.
Share(m, d) == CASE d < countDate[m] -> DailyCap
                 [] d = countDate[m] -> sendCount[m]
                 [] OTHER -> 0

\* The counter is within the cap; it covers the claims of its own day and, but
\* for what the turns allow, nobody has claimed on a later one.
ClaimsCharged ==
    \A m \in Mailboxes :
        /\ sendCount[m] <= DailyCap
        /\ \A d \in Days : claimsOn[<<m, d>>] <= DailyCap * turns[m] + Share(m, d)

IInv ==
    /\ TypeOK
    /\ OneHolder
    /\ HeldState
    /\ CallCount
    /\ EnrollmentRows
    /\ FinishedIsComplete
    /\ ClaimsCharged
    /\ FoundAll
    /\ ClearedIsSubscribed

-----------------------------------------------------------------------------
(* What a step does to the rows, the workers and the calls.  Each action has *)
(* one of these effects (EffectOfStep), so that the parts of the invariant   *)
(* need one case per effect.                                                 *)

Frees(w) ==
    /\ pc' = [pc EXCEPT ![w] = "idle"]
    /\ job' = [job EXCEPT ![w] = NoIntent]

Sets(i, s) == state' = [state EXCEPT ![i] = s]

Moves(w, p) == pc' = [pc EXCEPT ![w] = p] /\ UNCHANGED job

Quiet == UNCHANGED <<enr, state, pc, job, calls>>

Made(e) ==
    /\ enr[e] = "none"
    /\ enr' = [enr EXCEPT ![e] = "active"]
    /\ state' = [i \in Intents |->
                    IF i \notin Intents_(e) THEN state[i]
                    ELSE IF i \in NeedsReview THEN "AWAITING_REVIEW" ELSE "SCHEDULED"]
    /\ UNCHANGED <<pc, job, calls>>

Taken(w, i) ==
    /\ pc[w] = "idle"
    /\ ~IntentLocked(i)
    /\ state[i] = "SCHEDULED"
    /\ pc' = [pc EXCEPT ![w] = "claiming"]
    /\ job' = [job EXCEPT ![w] = i]
    /\ UNCHANGED <<enr, state, calls>>

Entered(w) ==
    /\ pc[w] = "claiming"
    /\ ~EnrollmentLocked(EnrollmentOf[job[w]])
    /\ enr[EnrollmentOf[job[w]]] = "active"
    /\ Moves(w, "guarding")
    /\ UNCHANGED <<enr, state, calls>>

Passed(w, p) ==
    /\ pc[w] \in {"guarding", "vetted"}
    /\ Moves(w, p)
    /\ UNCHANGED <<enr, state, calls>>

Rejected(w, s) ==
    /\ pc[w] \in InClaim
    /\ Sets(job[w], s)
    /\ Frees(w)
    /\ UNCHANGED <<enr, calls>>

Dropped(w) ==
    /\ pc[w] # "idle"
    /\ Frees(w)
    /\ UNCHANGED <<enr, state, calls>>

Committed(w) ==
    /\ pc[w] = "cleared"
    /\ Sets(job[w], "CLAIMED")
    /\ Moves(w, "calling")
    /\ UNCHANGED <<enr, calls>>

Called(w, p) ==
    /\ pc[w] = "calling"
    /\ calls' = [calls EXCEPT ![job[w]] = @ + 1]
    /\ Moves(w, p)
    /\ UNCHANGED <<enr, state>>

Missed(w) ==
    /\ pc[w] = "calling"
    /\ Moves(w, "undelivered")
    /\ UNCHANGED <<enr, state, calls>>

Reported(w, s) ==
    /\ pc[w] = (IF s = "FAILED" THEN "undelivered" ELSE "delivered")
    /\ Sets(job[w], s)
    /\ Frees(w)
    /\ UNCHANGED <<enr, calls>>

Sent(w) ==
    /\ \/ pc[w] = "guarding"
       \/ /\ pc[w] = "delivered"
          /\ ~EnrollmentLocked(EnrollmentOf[job[w]])
          /\ enr[EnrollmentOf[job[w]]] = "active"
    /\ Sets(job[w], "SENT")
    /\ FinishIfComplete(job[w])
    /\ Frees(w)
    /\ UNCHANGED calls

Expired(S) ==
    /\ \A i \in S : state[i] = "CLAIMED"
    /\ state' = [i \in Intents |-> IF i \in S THEN "FAILED_TIMEOUT" ELSE state[i]]
    /\ UNCHANGED <<enr, pc, job, calls>>

Reviewed(i, s) ==
    /\ state[i] = "AWAITING_REVIEW"
    /\ Sets(i, s)
    /\ UNCHANGED <<enr, pc, job, calls>>

Paused(S) ==
    /\ \A e \in S : enr[e] = "active" /\ ~EnrollmentLocked(e)
    /\ enr' = [e \in Enrollments |-> IF e \in S THEN "paused" ELSE enr[e]]
    /\ UNCHANGED <<state, pc, job, calls>>

WorkerEffect(w) ==
    \/ \E i \in Intents : Taken(w, i)
    \/ Entered(w)
    \/ \E p \in {"vetted", "cleared"} : Passed(w, p)
    \/ \E s \in {"SKIPPED", "BLOCKED"} : Rejected(w, s)
    \/ Dropped(w)
    \/ Committed(w)
    \/ \E p \in {"delivered", "undelivered"} : Called(w, p)
    \/ Missed(w)
    \/ \E s \in {"SKIPPED", "FAILED"} : Reported(w, s)
    \/ Sent(w)

Effect ==
    \/ Quiet
    \/ \E e \in Enrollments : Made(e)
    \/ \E w \in Workers : WorkerEffect(w)
    \/ \E S \in SUBSET Intents : Expired(S)
    \/ \E i \in Intents, s \in {"SCHEDULED", "SKIPPED"} : Reviewed(i, s)
    \/ \E S \in SUBSET Enrollments : Paused(S)

(* Every step of the specification has one of the effects. *)
LEMMA EffectOfWork ==
    ASSUME NEW w \in Workers, Work(w)
    PROVE  WorkerEffect(w)
<1>. USE DEF Release, Goto, Frees, Moves, Sets, Settle, Defer, InClaim, WorkerEffect, rows
<1>1. CASE LockEnrollment(w)
  BY <1>1 DEF LockEnrollment, Entered, Rejected
<1>2. CASE MaterializeCallTask(w)
  BY <1>2 DEF MaterializeCallTask, Rejected, Sent
<1>3. ASSUME pc[w] = "guarding", Vet(w, job[w])
      PROVE  WorkerEffect(w)
  BY <1>3 DEF Vet, Rejected, Passed
<1>4. ASSUME NEW d, pc[w] = "vetted", Probe(w, d)
      PROVE  WorkerEffect(w)
  BY <1>4 DEF Probe, Rejected, Dropped, Passed
<1>5. CASE CommitEmailClaim(w)
  BY <1>5 DEF CommitEmailClaim, CommitClaim, Committed
<1>6. CASE CommitSmsClaim(w)
  BY <1>6 DEF CommitSmsClaim, CommitClaim, Committed
<1>7. CASE LeaveMailbox(w)
  BY <1>7 DEF LeaveMailbox, Rejected, Dropped
<1>8. ASSUME pc[w] = "calling", Call(w)
      PROVE  WorkerEffect(w)
  BY <1>8 DEF Call, Called
<1>9. ASSUME pc[w] = "delivered", Record(w, job[w])
      PROVE  WorkerEffect(w)
  BY <1>9 DEF Record, Reported, Dropped, Sent
<1>10. CASE RecordFailure(w)
  BY <1>10 DEF RecordFailure, Reported
<1>11. CASE SkipSms(w)
  BY <1>11 DEF SkipSms, Rejected
<1>12. CASE FailBeforeCall(w)
  BY <1>12 DEF FailBeforeCall, Missed
<1>. QED
  BY <1>1, <1>2, <1>3, <1>4, <1>5, <1>6, <1>7, <1>8, <1>9, <1>10, <1>11, <1>12
  DEF Work, VetEmail, VetSms, ProbeEmail, ProbePhone, SendEmail, SendSms,
      RecordEmailSent, FinishSmsSend

LEMMA EffectOfStep ==
    ASSUME Next
    PROVE  Effect
<1>. USE DEF Effect, Quiet, worker, rows
<1>1. ASSUME NEW e \in Enrollments, Enroll(e)
      PROVE  Effect
  BY <1>1 DEF Enroll, Made
<1>2. ASSUME NEW w \in Workers, NEW i \in Intents, Claim(w, i)
      PROVE  Effect
  BY <1>2 DEF Claim, Taken, WorkerEffect
<1>3. ASSUME NEW w \in Workers, Work(w)
      PROVE  Effect
  BY <1>3, EffectOfWork
<1>4. ASSUME NEW w \in Workers, Crash(w)
      PROVE  Effect
  BY <1>4 DEF Crash, Release, Dropped, Frees, WorkerEffect
<1>5. CASE ExpireStaleClaims
  <2>. DEFINE S == {i \in Intents : Stale(i)}
  <2>1. Expired(S)
    BY <1>5 DEF ExpireStaleClaims, Stale, Expired
  <2>. QED  BY <2>1
<1>6. ASSUME NEW i \in Intents, StartApproval(i) \/ ApproveReview(i) \/ SkipReview(i)
      PROVE  Effect
  <2>1. CASE StartApproval(i)
    BY <2>1 DEF StartApproval
  <2>2. CASE ApproveReview(i)
    BY <2>2 DEF ApproveReview, Reviewed, Sets
  <2>3. CASE SkipReview(i)
    BY <2>3 DEF SkipReview, Reviewed, Sets
  <2>. QED  BY <1>6, <2>1, <2>2, <2>3
<1>7. ASSUME NEW cs, PauseActive(cs), UNCHANGED <<state, worker, calls>>
      PROVE  Effect
  <2>1. Paused(PauseTargets(cs))
    BY <1>7 DEF PauseActive, PauseTargets, Paused
  <2>. QED  BY <2>1 DEF PauseTargets
<1>8. ASSUME NEW u \in leaving, CommitUnsubscribe(u)
      PROVE  Effect
  <2>. DEFINE S == {e \in u.found : enr[e] = "active"}
  <2>1. CASE \E e \in S : LeadOf[ContactOf[e]] \in deleted
    BY <1>8, <2>1 DEF CommitUnsubscribe
  <2>2. CASE ~ \E e \in S : LeadOf[ContactOf[e]] \in deleted
    <3>1. Paused(S \cap Enrollments)
      BY <1>8, <2>2 DEF CommitUnsubscribe, Paused
    <3>. QED  BY <3>1
  <2>. QED  BY <2>1, <2>2
<1>9. CASE Outside
  <2>1. ASSUME NEW l \in Leads, PauseOnInboundReply(l)
        PROVE  Effect
    BY <2>1, <1>7 DEF PauseOnInboundReply
  <2>2. ASSUME NEW l, NEW cs, RecordBounceAndPause(l, cs)
        PROVE  Effect
    BY <2>2, <1>7 DEF RecordBounceAndPause
  <2>. QED
    BY <1>9, <2>1, <2>2
    DEF Outside, RecordInbound, ApplyUnsubscribe, AddSuppression, ReleaseSuppression,
        SetDnc, SoftDelete, Link
<1>10. CASE Tick
  BY <1>10 DEF Tick
<1>. QED
  BY <1>1, <1>2, <1>3, <1>4, <1>5, <1>6, <1>8, <1>9, <1>10 DEF Next

-----------------------------------------------------------------------------
(* Type correctness *)

(* Days of a tick, and the delay until the window opens, are natural numbers. *)
LEMMA DayType ==
    ASSUME NEW t \in Nat
    PROVE  Day(t) \in Nat
BY BoundsAssumption DEF Day

LEMMA UntilOpenType ==
    ASSUME NEW t \in Nat
    PROVE  UntilOpen(t) \in Nat
<1>. DEFINE closed == {d \in 0 .. DayLength - 1 : \A x \in 1 .. d : ~InsideWindow(t + x)}
<1>1. IsFiniteSet(0 .. DayLength - 1)
  BY BoundsAssumption, FS_Interval
<1>2. IsFiniteSet(closed)
  BY <1>1, FS_Subset
<1>. QED
  BY <1>2, FS_CardinalityType DEF UntilOpen

THEOREM TypeInit == Init => TypeOK
BY CastAssumption, BoundsAssumption
DEF Init, TypeOK, RowTypes, EntityTypes, MailboxTypes, WorkerTypes, EnrStates, IntentStates, PCs

LEMMA ReleaseType ==
    ASSUME WorkerTypes, NEW w \in Workers, Release(w)
    PROVE  WorkerTypes'
BY CastAssumption DEF Release, WorkerTypes, PCs

LEMMA GotoType ==
    ASSUME WorkerTypes, NEW w \in Workers, NEW p \in PCs, pc[w] # "idle", Goto(w, p)
    PROVE  WorkerTypes'
BY DEF Goto, WorkerTypes

LEMMA SettleType ==
    ASSUME TypeOK, NEW w \in Workers, NEW s \in Terminal, Settle(w, s)
    PROVE  TypeOK'
<1>1. WorkerTypes'
  BY ReleaseType DEF TypeOK, Settle
<1>2. RowTypes'
  BY DEF TypeOK, RowTypes, Settle, IntentStates, rows
<1>. QED
  BY <1>1, <1>2 DEF TypeOK, Settle, EntityTypes, MailboxTypes, entities, pending, mailbox

LEMMA DeferType ==
    ASSUME TypeOK, NEW w \in Workers, NEW n \in Nat, Defer(w, n)
    PROVE  TypeOK'
<1>1. WorkerTypes'
  BY ReleaseType DEF TypeOK, Defer
<1>2. clock[w] + n \in Nat
  BY BoundsAssumption DEF TypeOK, WorkerTypes
<1>3. RowTypes'
  BY <1>2 DEF TypeOK, RowTypes, Defer
<1>. QED
  BY <1>1, <1>3 DEF TypeOK, Defer, EntityTypes, MailboxTypes, entities, pending, mailbox

LEMMA ChargeType ==
    ASSUME TypeOK, NEW w \in Workers, NEW m \in Mailboxes, ChargeMailbox(m, clock[w])
    PROVE  /\ sendCount' \in [Mailboxes -> Nat]
           /\ countDate' \in [Mailboxes -> Nat]
           /\ turns' \in [Mailboxes -> Nat]
<1>1. clock[w] \in Nat /\ Day(clock[w]) \in Nat
  BY DayType, BoundsAssumption DEF TypeOK, WorkerTypes
<1>. QED  BY <1>1 DEF TypeOK, MailboxTypes, ChargeMailbox, UsedToday

LEMMA FinishType ==
    ASSUME RowTypes, NEW i \in Intents, FinishIfComplete(i)
    PROVE  enr' \in [Enrollments -> EnrStates]
BY DEF RowTypes, FinishIfComplete, EnrStates

LEMMA TypeOfWork ==
    ASSUME TypeOK, NEW w \in Workers, Work(w)
    PROVE  TypeOK'
<1>. USE DEF Terminal, PCs, InClaim, InFlight
<1>1. ASSUME pc[w] # "idle" PROVE job[w] \in Intents /\ Mailbox(job[w]) \in Mailboxes
  BY <1>1, CastAssumption DEF TypeOK, WorkerTypes, Mailbox
<1>2. ASSUME NEW p \in PCs, pc[w] # "idle", Goto(w, p),
             UNCHANGED <<now, events, rows, entities, mailbox, calls>>
      PROVE  TypeOK'
  <2>1. WorkerTypes'
    BY <1>2, GotoType DEF TypeOK
  <2>. QED
    BY <1>2, <2>1
    DEF TypeOK, RowTypes, EntityTypes, MailboxTypes, rows, entities, pending, mailbox
<1>3. ASSUME NEW i \in Intents,
             state' = [state EXCEPT ![i] = "SENT"],
             FinishIfComplete(i),
             Release(w),
             UNCHANGED <<now, events, due, claimedAt, entities, mailbox, calls>>
      PROVE  TypeOK'
  <2>1. WorkerTypes'
    BY <1>3, ReleaseType DEF TypeOK
  <2>2. RowTypes'
    BY <1>3, FinishType DEF TypeOK, RowTypes, IntentStates
  <2>. QED
    BY <1>3, <2>1, <2>2 DEF TypeOK, EntityTypes, MailboxTypes, entities, pending, mailbox
<1>4. CASE LockEnrollment(w)
  BY <1>4, <1>2, SettleType DEF LockEnrollment
<1>5. CASE MaterializeCallTask(w)
  BY <1>5, <1>1, <1>3, SettleType DEF MaterializeCallTask
<1>6. ASSUME pc[w] = "guarding", Vet(w, job[w])
      PROVE  TypeOK'
  BY <1>6, <1>2, SettleType DEF Vet
<1>7. ASSUME NEW d, pc[w] = "vetted", Probe(w, d)
      PROVE  TypeOK'
  <2>1. UntilOpen(clock[w]) \in Nat
    BY UntilOpenType, BoundsAssumption DEF TypeOK, WorkerTypes
  <2>. QED  BY <1>7, <2>1, <1>2, SettleType, DeferType DEF Probe
<1>8. ASSUME pc[w] = "cleared", CommitClaim(w)
      PROVE  /\ state' \in [Intents -> IntentStates]
             /\ claimedAt' \in [Intents -> Nat]
             /\ WorkerTypes'
  <2>1. WorkerTypes'
    BY <1>8, GotoType DEF CommitClaim, TypeOK
  <2>2. clock[w] \in Nat
    BY BoundsAssumption DEF TypeOK, WorkerTypes
  <2>. QED  BY <1>8, <2>1, <2>2 DEF CommitClaim, TypeOK, RowTypes, IntentStates, Open
<1>9. CASE CommitEmailClaim(w)
  <2>1. MailboxTypes'
    <3>. DEFINE x == <<Mailbox(job[w]), Day(clock[w])>>
    <3>1. x \in Mailboxes \X Days
      BY <1>9, <1>1 DEF CommitEmailClaim, TypeOK, WorkerTypes, Days
    <3>2. claimsOn' \in [Mailboxes \X Days -> Nat]
      BY <1>9, <3>1 DEF CommitEmailClaim, TypeOK, MailboxTypes
    <3>. QED  BY <1>9, <1>1, <3>2, ChargeType DEF CommitEmailClaim, MailboxTypes, TypeOK
  <2>. QED
    BY <1>9, <2>1, <1>8
    DEF CommitEmailClaim, TypeOK, RowTypes, EntityTypes, entities, pending
<1>10. CASE CommitSmsClaim(w)
  BY <1>10, <1>8
  DEF CommitSmsClaim, TypeOK, RowTypes, EntityTypes, MailboxTypes, entities, pending, mailbox
<1>11. CASE LeaveMailbox(w)
  <2>. DEFINE m == Mailbox(job[w])
  <2>1. CASE Settle(w, "SKIPPED")
    BY <2>1, SettleType
  <2>2. CASE Defer(w, DayLength)
    BY <2>2, DeferType, BoundsAssumption
  <2>3. CASE /\ Happens
             /\ ChargeMailbox(m, clock[w])
             /\ state' = [state EXCEPT ![job[w]] = "SKIPPED"]
             /\ Release(w)
             /\ UNCHANGED <<now, enr, due, claimedAt, entities, claimsOn, calls>>
    <3>1. WorkerTypes' /\ m \in Mailboxes
      BY <1>11, <2>3, <1>1, ReleaseType DEF TypeOK, LeaveMailbox
    <3>2. RowTypes'
      BY <2>3 DEF TypeOK, RowTypes, IntentStates
    <3>3. MailboxTypes'
      BY <2>3, <3>1, ChargeType DEF TypeOK, MailboxTypes
    <3>4. events' \in 0 .. MaxEvents
      BY <2>3, BoundsAssumption DEF TypeOK, Happens
    <3>. QED
      BY <2>3, <3>1, <3>2, <3>3, <3>4 DEF TypeOK, EntityTypes, entities, pending
  <2>. QED  BY <1>11, <2>1, <2>2, <2>3 DEF LeaveMailbox
<1>12. ASSUME pc[w] = "calling", Call(w)
       PROVE  TypeOK'
  <2>1. WorkerTypes'
    BY <1>12, GotoType DEF TypeOK, Call
  <2>2. calls' \in [Intents -> Nat]
    <3>1. calls[job[w]] + 1 \in Nat
      BY <1>12, <1>1 DEF TypeOK
    <3>. QED  BY <1>12, <3>1 DEF TypeOK, Call
  <2>3. events' \in 0 .. MaxEvents
    BY <1>12, BoundsAssumption DEF TypeOK, Call, Happens
  <2>. QED
    BY <1>12, <2>1, <2>2, <2>3
    DEF TypeOK, Call, RowTypes, EntityTypes, MailboxTypes, rows, entities, pending, mailbox
<1>13. ASSUME pc[w] = "delivered", Record(w, job[w])
       PROVE  TypeOK'
  <2>1. CASE /\ Release(w)
             /\ UNCHANGED <<now, events, rows, entities, mailbox, calls>>
    <3>1. WorkerTypes'
      BY <2>1, ReleaseType DEF TypeOK
    <3>. QED
      BY <2>1, <3>1
      DEF TypeOK, RowTypes, EntityTypes, MailboxTypes, rows, entities, pending, mailbox
  <2>. QED  BY <1>13, <2>1, <1>1, <1>3, SettleType DEF Record
<1>14. CASE RecordFailure(w)
  BY <1>14, SettleType DEF RecordFailure
<1>15. CASE SkipSms(w)
  <2>1. WorkerTypes'
    BY <1>15, ReleaseType DEF SkipSms, TypeOK
  <2>2. RowTypes'
    BY <1>15 DEF SkipSms, TypeOK, RowTypes, IntentStates
  <2>3. events' \in 0 .. MaxEvents
    BY <1>15, BoundsAssumption DEF SkipSms, TypeOK, Happens
  <2>. QED
    BY <1>15, <2>1, <2>2, <2>3
    DEF SkipSms, TypeOK, EntityTypes, MailboxTypes, entities, pending, mailbox
<1>16. CASE FailBeforeCall(w)
  <2>1. WorkerTypes'
    BY <1>16, GotoType DEF FailBeforeCall, TypeOK
  <2>2. events' \in 0 .. MaxEvents
    BY <1>16, BoundsAssumption DEF FailBeforeCall, TypeOK, Happens
  <2>. QED
    BY <1>16, <2>1, <2>2
    DEF FailBeforeCall, TypeOK, RowTypes, EntityTypes, MailboxTypes, rows, entities, pending, mailbox
<1>. QED
  BY <1>4, <1>5, <1>6, <1>7, <1>9, <1>10, <1>11, <1>12, <1>13, <1>14, <1>15, <1>16
  DEF Work, VetEmail, VetSms, ProbeEmail, ProbePhone, SendEmail, SendSms,
      RecordEmailSent, FinishSmsSend

LEMMA TypeOfOutside ==
    ASSUME TypeOK, Outside
    PROVE  TypeOK'
<1>. USE CastAssumption, BoundsAssumption DEF TypeOK, Happens, rows, entities, pending, mailbox, worker
<1>1. ASSUME NEW cs, PauseActive(cs)
      PROVE  enr' \in [Enrollments -> EnrStates]
  BY <1>1 DEF PauseActive, RowTypes, EnrStates
<1>2. ASSUME UNCHANGED <<enr, state, due, claimedAt>>  PROVE RowTypes'
  BY <1>2 DEF RowTypes
<1>3. ASSUME UNCHANGED mailbox  PROVE MailboxTypes'
  BY <1>3 DEF MailboxTypes
<1>4. ASSUME UNCHANGED worker  PROVE WorkerTypes'
  BY <1>4 DEF WorkerTypes
<1>5. ASSUME NEW l \in Leads, PauseOnInboundReply(l)
      PROVE  TypeOK'
  BY <1>5, <1>1, <1>3, <1>4 DEF PauseOnInboundReply, RowTypes, EntityTypes, Since
<1>6. ASSUME NEW l, NEW cs, RecordBounceAndPause(l, cs)
      PROVE  TypeOK'
  BY <1>6, <1>1, <1>3, <1>4 DEF RecordBounceAndPause, RowTypes, EntityTypes
<1>7. ASSUME NEW l \in Leads, NEW ch \in {"email", "sms"}, RecordInbound(l, ch)
      PROVE  TypeOK'
  BY <1>7, <1>2, <1>3, <1>4 DEF RecordInbound, EntityTypes, Since
<1>8. ASSUME NEW d \in Destinations, ApplyUnsubscribe(d)
      PROVE  TypeOK'
  <2>. DEFINE new == [to |-> d, adds |-> suppressed[d] = "no",
                      found |-> PauseTargets(ContactsWithEmail(d))]
  <2>1. new.to \in Destinations /\ new.found \subseteq Enrollments
    BY DEF PauseTargets
  <2>2. new.adds \in BOOLEAN
    BY Zenon
  <2>3. leaving' = leaving \cup {new} \/ leaving' = leaving
    BY <1>8 DEF ApplyUnsubscribe
  <2>. HIDE DEF new
  <2>4. \A u \in leaving' : u.to \in Destinations /\ u.adds \in BOOLEAN /\ u.found \subseteq Enrollments
    BY <2>1, <2>2, <2>3 DEF EntityTypes
  <2>. QED
    BY <1>8, <1>2, <1>3, <1>4, <2>4 DEF ApplyUnsubscribe, EntityTypes
<1>9. ASSUME NEW d \in Destinations, AddSuppression(d) \/ ReleaseSuppression(d)
      PROVE  TypeOK'
  BY <1>9, <1>2, <1>3, <1>4 DEF AddSuppression, ReleaseSuppression, EntityTypes
<1>10. ASSUME NEW x \in Leads \cup Contacts, SetDnc(x) \/ SoftDelete(x)
       PROVE  TypeOK'
  BY <1>10, <1>2, <1>3, <1>4 DEF SetDnc, SoftDelete, EntityTypes
<1>11. ASSUME NEW m \in Mailboxes, Link(m)
       PROVE  TypeOK'
  BY <1>11, <1>2, <1>3, <1>4 DEF Link, EntityTypes
<1>. QED
  BY <1>5, <1>6, <1>7, <1>8, <1>9, <1>10, <1>11 DEF Outside

LEMMA TypeOfStep ==
    ASSUME TypeOK, [Next]_vars
    PROVE  TypeOK'
<1>. USE CastAssumption, BoundsAssumption DEF rows, entities, pending, mailbox, worker
<1>1. ASSUME NEW e \in Enrollments, Enroll(e)
      PROVE  TypeOK'
  <2>1. \A i \in Intents : now + DelayOf[i] \in Nat
    BY DEF TypeOK
  <2>2. RowTypes'
    BY <1>1, <2>1 DEF Enroll, TypeOK, RowTypes, EnrStates, IntentStates, Open
  <2>3. EntityTypes'
    BY <1>1 DEF Enroll, TypeOK, EntityTypes
  <2>. QED
    BY <1>1, <2>2, <2>3 DEF Enroll, TypeOK, MailboxTypes, WorkerTypes
<1>2. ASSUME NEW w \in Workers, NEW i \in Intents, Claim(w, i)
      PROVE  TypeOK'
  <2>1. WorkerTypes'
    BY <1>2 DEF Claim, TypeOK, WorkerTypes, PCs, InClaim
  <2>. QED
    BY <1>2, <2>1 DEF Claim, TypeOK, RowTypes, EntityTypes, MailboxTypes
<1>3. ASSUME NEW w \in Workers, Crash(w)
      PROVE  TypeOK'
  <2>1. WorkerTypes'
    BY <1>3, ReleaseType DEF Crash, TypeOK
  <2>. QED
    BY <1>3, <2>1 DEF Crash, Happens, TypeOK, RowTypes, EntityTypes, MailboxTypes
<1>4. CASE ExpireStaleClaims
  <2>1. RowTypes'
    BY <1>4 DEF ExpireStaleClaims, TypeOK, RowTypes, IntentStates, Terminal
  <2>. QED
    BY <1>4, <2>1 DEF ExpireStaleClaims, TypeOK, EntityTypes, MailboxTypes, WorkerTypes
<1>5. ASSUME NEW i \in Intents, StartApproval(i) \/ ApproveReview(i) \/ SkipReview(i)
      PROVE  TypeOK'
  <2>1. RowTypes'
    BY <1>5
    DEF StartApproval, ApproveReview, SkipReview, TypeOK, RowTypes, IntentStates, Open, Terminal
  <2>. QED
    BY <1>5, <2>1
    DEF StartApproval, ApproveReview, SkipReview, TypeOK, EntityTypes, MailboxTypes, WorkerTypes
<1>6. ASSUME NEW u \in leaving, CommitUnsubscribe(u)
      PROVE  TypeOK'
  <2>1. u.to \in Destinations
    BY DEF TypeOK, EntityTypes
  <2>2. RowTypes'
    BY <1>6 DEF CommitUnsubscribe, TypeOK, RowTypes, EnrStates
  <2>3. EntityTypes'
    BY <1>6, <2>1 DEF CommitUnsubscribe, TypeOK, EntityTypes
  <2>. QED
    BY <1>6, <2>2, <2>3 DEF CommitUnsubscribe, TypeOK, MailboxTypes, WorkerTypes
<1>7. CASE Tick
  BY <1>7 DEF Tick, TypeOK, RowTypes, EntityTypes, MailboxTypes, WorkerTypes
<1>8. CASE UNCHANGED vars
  BY <1>8 DEF vars, TypeOK, RowTypes, EntityTypes, MailboxTypes, WorkerTypes
<1>. QED
  BY <1>1, <1>2, <1>3, <1>4, <1>5, <1>6, <1>7, <1>8, TypeOfWork, TypeOfOutside DEF Next

(* Type correctness: for any cast, every committed row, counter and worker   *)
(* keeps its type; in particular a busy worker always holds an intent.       *)
THEOREM TypeCorrect == Spec => []TypeOK
BY TypeInit, TypeOfStep, PTL DEF Spec

-----------------------------------------------------------------------------
(* The inductive invariant, effect by effect *)

\* The part of the types that the effects need.
CoreTypes ==
    /\ enr \in [Enrollments -> EnrStates]
    /\ state \in [Intents -> IntentStates]
    /\ calls \in [Intents -> Nat]
    /\ pc \in [Workers -> PCs]
    /\ job \in [Workers -> Intents \cup {NoIntent}]
    /\ \A w \in Workers : pc[w] # "idle" => job[w] \in Intents

Core ==
    /\ CoreTypes
    /\ OneHolder
    /\ HeldState
    /\ CallCount
    /\ EnrollmentRows
    /\ FinishedIsComplete

LEMMA CoreOfRows ==
    ASSUME Core, NEW S \in SUBSET Intents, Expired(S), CoreTypes'
    PROVE  Core'
<1>. USE DEF Core, CoreTypes, Expired
<1>1. OneHolder'
  BY DEF OneHolder
<1>2. HeldState'
  BY DEF HeldState, InClaim, InFlight, PCs
<1>3. CallCount'
  BY DEF CallCount
<1>4. EnrollmentRows'
  BY DEF EnrollmentRows
<1>5. FinishedIsComplete'
  BY CastAssumption DEF FinishedIsComplete, Open
<1>. QED  BY <1>1, <1>2, <1>3, <1>4, <1>5

LEMMA CoreOfReview ==
    ASSUME Core, NEW i \in Intents, NEW s \in {"SCHEDULED", "SKIPPED"}, Reviewed(i, s), CoreTypes'
    PROVE  Core'
<1>. USE DEF Core, CoreTypes, Reviewed, Sets
<1>1. OneHolder'
  BY DEF OneHolder
<1>2. HeldState'
  BY DEF HeldState, InClaim, InFlight, PCs
<1>3. CallCount'
  BY DEF CallCount
<1>4. EnrollmentRows'
  BY DEF EnrollmentRows
<1>5. FinishedIsComplete'
  BY CastAssumption DEF FinishedIsComplete, Open
<1>. QED  BY <1>1, <1>2, <1>3, <1>4, <1>5

LEMMA CoreOfPause ==
    ASSUME Core, NEW S \in SUBSET Enrollments, Paused(S), CoreTypes'
    PROVE  Core'
<1>. USE CastAssumption DEF Core, CoreTypes, Paused
<1>1. OneHolder'
  BY DEF OneHolder
<1>2. HeldState'
  BY DEF HeldState
<1>3. CallCount'
  BY DEF CallCount
<1>4. EnrollmentRows'
  <2>1. ASSUME NEW w \in Workers, pc[w] \in Locking
        PROVE  EnrollmentOf[job[w]] \notin S
    BY <2>1 DEF EnrollmentLocked
  <2>2. ASSUME NEW w \in Workers, pc[w] \in Locking
        PROVE  EnrollmentOf[job[w]] \in Enrollments
    BY <2>2 DEF Locking
  <2>. QED  BY <2>1, <2>2 DEF EnrollmentRows
<1>5. FinishedIsComplete'
  BY DEF FinishedIsComplete
<1>. QED  BY <1>1, <1>2, <1>3, <1>4, <1>5

LEMMA CoreOfMade ==
    ASSUME Core, NEW e \in Enrollments, Made(e), CoreTypes'
    PROVE  Core'
<1>. USE CastAssumption DEF Core, CoreTypes, Made, Intents_
<1>1. OneHolder'
  BY DEF OneHolder
<1>2. HeldState'
  BY DEF HeldState, EnrollmentRows, InClaim, InFlight, PCs
<1>3. CallCount'
  BY DEF CallCount, EnrollmentRows
<1>4. EnrollmentRows'
  BY DEF EnrollmentRows, Locking
<1>5. FinishedIsComplete'
  BY DEF FinishedIsComplete
<1>. QED  BY <1>1, <1>2, <1>3, <1>4, <1>5

LEMMA CoreOfWorker ==
    ASSUME Core, NEW w \in Workers, WorkerEffect(w), CoreTypes'
    PROVE  Core'
<1>. USE CastAssumption DEF Core, CoreTypes, PCs, InClaim, InFlight, Locking
<1>1. ASSUME NEW i \in Intents, Taken(w, i)
      PROVE  Core'
  <2>. USE <1>1 DEF Taken
  <2>1. \A v \in Workers : pc[v] # "idle" => job[v] # i
    BY DEF IntentLocked, HeldState
  <2>2. OneHolder'
    BY <2>1 DEF OneHolder
  <2>3. HeldState'
    BY DEF HeldState
  <2>4. CallCount'
    BY DEF CallCount
  <2>5. EnrollmentRows'
    BY DEF EnrollmentRows
  <2>6. FinishedIsComplete'
    BY DEF FinishedIsComplete
  <2>. QED  BY <2>2, <2>3, <2>4, <2>5, <2>6
<1>2. CASE Entered(w)
  <2>. USE <1>2 DEF Entered, Moves
  <2>1. OneHolder'
    BY DEF OneHolder
  <2>2. HeldState'
    BY DEF HeldState
  <2>3. CallCount'
    BY DEF CallCount
  <2>4. EnrollmentRows'
    BY DEF EnrollmentRows, EnrollmentLocked
  <2>5. FinishedIsComplete'
    BY DEF FinishedIsComplete
  <2>. QED  BY <2>1, <2>2, <2>3, <2>4, <2>5
<1>3. ASSUME NEW p \in {"vetted", "cleared"}, Passed(w, p)
      PROVE  Core'
  <2>. USE <1>3 DEF Passed, Moves
  <2>1. OneHolder'
    BY DEF OneHolder
  <2>2. HeldState'
    BY DEF HeldState
  <2>3. CallCount'
    BY DEF CallCount
  <2>4. EnrollmentRows'
    BY DEF EnrollmentRows
  <2>5. FinishedIsComplete'
    BY DEF FinishedIsComplete
  <2>. QED  BY <2>1, <2>2, <2>3, <2>4, <2>5
<1>4. CASE Dropped(w)
  <2>. USE <1>4 DEF Dropped, Frees
  <2>1. OneHolder'
    BY DEF OneHolder
  <2>2. HeldState'
    BY DEF HeldState
  <2>3. CallCount'
    BY DEF CallCount
  <2>4. EnrollmentRows'
    BY DEF EnrollmentRows
  <2>5. FinishedIsComplete'
    BY DEF FinishedIsComplete
  <2>. QED  BY <2>1, <2>2, <2>3, <2>4, <2>5
<1>5. ASSUME NEW s \in {"SKIPPED", "BLOCKED", "FAILED"}, pc[w] # "idle",
             Sets(job[w], s), Frees(w), UNCHANGED <<enr, calls>>
      PROVE  Core'
  <2>. USE <1>5 DEF Sets, Frees
  <2>1. OneHolder'
    BY DEF OneHolder
  <2>2. HeldState'
    BY DEF HeldState, OneHolder
  <2>3. CallCount'
    BY DEF CallCount
  <2>4. EnrollmentRows'
    BY DEF EnrollmentRows, HeldState
  <2>5. FinishedIsComplete'
    BY DEF FinishedIsComplete, Open
  <2>. QED  BY <2>1, <2>2, <2>3, <2>4, <2>5
<1>6. CASE Committed(w)
  <2>. USE <1>6 DEF Committed, Sets, Moves
  <2>1. OneHolder'
    BY DEF OneHolder
  <2>2. HeldState'
    BY DEF HeldState, OneHolder
  <2>3. CallCount'
    BY DEF CallCount, HeldState
  <2>4. EnrollmentRows'
    BY DEF EnrollmentRows
  <2>5. FinishedIsComplete'
    BY DEF FinishedIsComplete, EnrollmentRows
  <2>. QED  BY <2>1, <2>2, <2>3, <2>4, <2>5
<1>7. ASSUME NEW p \in {"delivered", "undelivered"}, Called(w, p)
      PROVE  Core'
  <2>. USE <1>7 DEF Called, Moves
  <2>1. OneHolder'
    BY DEF OneHolder
  <2>2. HeldState'
    BY DEF HeldState
  <2>3. CallCount'
    BY DEF CallCount, HeldState, OneHolder
  <2>4. EnrollmentRows'
    BY DEF EnrollmentRows
  <2>5. FinishedIsComplete'
    BY DEF FinishedIsComplete
  <2>. QED  BY <2>1, <2>2, <2>3, <2>4, <2>5
<1>8. CASE Sent(w)
  <2>. USE <1>8 DEF Sent, Sets, Frees, FinishIfComplete, Intents_
  <2>. DEFINE e == EnrollmentOf[job[w]]
  <2>1. OneHolder'
    BY DEF OneHolder
  <2>2. HeldState'
    BY DEF HeldState, OneHolder
  <2>3. CallCount'
    BY DEF CallCount
  <2>4. EnrollmentRows'
    <3>1. ASSUME NEW v \in Workers \ {w}, pc[v] \in Locking
          PROVE  EnrollmentOf[job[v]] # e
      BY <3>1 DEF EnrollmentRows, EnrollmentLocked
    <3>2. enr[e] = "active" /\ state[job[w]] # "none"
      BY DEF EnrollmentRows, HeldState
    <3>. QED  BY <3>1, <3>2 DEF EnrollmentRows
  <2>5. FinishedIsComplete'
    BY DEF FinishedIsComplete, Open
  <2>. QED  BY <2>1, <2>2, <2>3, <2>4, <2>5
<1>9. ASSUME NEW s \in {"SKIPPED", "BLOCKED", "FAILED"}, Rejected(w, s) \/ Reported(w, s)
      PROVE  Core'
  BY <1>9, <1>5 DEF Rejected, Reported
<1>10. CASE Missed(w)
  <2>. USE <1>10 DEF Missed, Moves
  <2>1. OneHolder'
    BY DEF OneHolder
  <2>2. HeldState'
    BY DEF HeldState
  <2>3. CallCount'
    BY DEF CallCount
  <2>4. EnrollmentRows'
    BY DEF EnrollmentRows
  <2>5. FinishedIsComplete'
    BY DEF FinishedIsComplete
  <2>. QED  BY <2>1, <2>2, <2>3, <2>4, <2>5
<1>. QED
  BY <1>1, <1>2, <1>3, <1>4, <1>6, <1>7, <1>8, <1>9, <1>10 DEF WorkerEffect

LEMMA CoreOfEffect ==
    ASSUME Core, Effect \/ UNCHANGED vars, CoreTypes'
    PROVE  Core'
<1>1. CASE Quiet \/ UNCHANGED vars
  BY <1>1
  DEF Quiet, vars, rows, worker, Core, CoreTypes, OneHolder, HeldState, CallCount, EnrollmentRows,
      FinishedIsComplete
<1>. QED
  BY <1>1, CoreOfRows, CoreOfReview, CoreOfPause, CoreOfMade, CoreOfWorker DEF Effect

-----------------------------------------------------------------------------
(* The daily counter *)

LEMMA Distribute ==
    ASSUME NEW a \in Nat, NEW b \in Nat
    PROVE  a * b \in Nat /\ a * (b + 1) = a * b + a
OBVIOUS

\* Charging the mailbox leaves room for one more claim of the charge's day.
LEMMA ChargeMakesRoom ==
    ASSUME TypeOK, ClaimsCharged, NEW m \in Mailboxes, NEW t \in 0 .. MaxTime,
           ~CapReached(m, t), ChargeMailbox(m, t)
    PROVE  /\ \A n \in Mailboxes \ {m} :
                 /\ sendCount'[n] = sendCount[n]
                 /\ countDate'[n] = countDate[n]
                 /\ turns'[n] = turns[n]
           /\ sendCount'[m] <= DailyCap
           /\ \A d \in Days : claimsOn[<<m, d>>] + (IF d = Day(t) THEN 1 ELSE 0)
                                 <= DailyCap * turns'[m] + Share(m, d)'
<1>. DEFINE P == DailyCap * turns[m]
            Q == DailyCap * turns'[m]
            D == Day(t)
<1>1. D \in Nat /\ D \in Days /\ DailyCap \in Nat
  BY DayType, BoundsAssumption DEF Days
<1>2. turns[m] \in Nat /\ sendCount[m] \in Nat /\ countDate[m] \in Nat
  BY DEF TypeOK, MailboxTypes
<1>3. /\ sendCount'[m] = UsedToday(m, t) + 1
      /\ countDate'[m] = D
      /\ turns'[m] = IF D < countDate[m] THEN turns[m] + 1 ELSE turns[m]
  BY DEF ChargeMailbox, TypeOK, MailboxTypes
<1>4. UsedToday(m, t) = IF countDate[m] = D THEN sendCount[m] ELSE 0
  BY DEF UsedToday
<1>5. UsedToday(m, t) < DailyCap
  BY <1>1, <1>2, <1>4 DEF CapReached
<1>6. P \in Nat /\ Q = IF D < countDate[m] THEN P + DailyCap ELSE P
  BY <1>1, <1>2, <1>3, Distribute
<1>7. sendCount[m] <= DailyCap /\ \A d \in Days : claimsOn[<<m, d>>] <= P + Share(m, d)
  BY DEF ClaimsCharged
<1>. HIDE DEF P, Q, D
<1>8. ASSUME NEW d \in Days
      PROVE  claimsOn[<<m, d>>] + (IF d = D THEN 1 ELSE 0) <= Q + Share(m, d)'
  <2>1. d \in Nat /\ claimsOn[<<m, d>>] \in Nat
    BY DayType, BoundsAssumption DEF TypeOK, MailboxTypes, Days
  <2>2. claimsOn[<<m, d>>] <= P + Share(m, d)
    BY <1>7
  <2>3. CASE D < countDate[m]
    BY <1>1, <1>2, <1>3, <1>4, <1>5, <1>6, <1>7, <2>1, <2>2, <2>3 DEF Share
  <2>4. CASE D = countDate[m]
    BY <1>1, <1>2, <1>3, <1>4, <1>5, <1>6, <1>7, <2>1, <2>2, <2>4 DEF Share
  <2>5. CASE D > countDate[m]
    BY <1>1, <1>2, <1>3, <1>4, <1>5, <1>6, <1>7, <2>1, <2>2, <2>5 DEF Share
  <2>. QED  BY <1>1, <1>2, <2>3, <2>4, <2>5
<1>9. sendCount'[m] <= DailyCap
  BY <1>1, <1>2, <1>3, <1>4, <1>5
<1>10. \A n \in Mailboxes \ {m} :
          sendCount'[n] = sendCount[n] /\ countDate'[n] = countDate[n] /\ turns'[n] = turns[n]
  BY DEF ChargeMailbox, TypeOK, MailboxTypes
<1>. QED  BY <1>8, <1>9, <1>10 DEF Q, D

LEMMA CounterOfStep ==
    ASSUME TypeOK, TypeOK', ClaimsCharged, [Next]_vars
    PROVE  ClaimsCharged'
<1>. USE DEF mailbox
<1>1. CASE UNCHANGED mailbox
  BY <1>1 DEF ClaimsCharged, Share
<1>2. ASSUME NEW w \in Workers, pc[w] # "idle"
      PROVE  Mailbox(job[w]) \in Mailboxes /\ clock[w] \in 0 .. MaxTime
  BY <1>2, CastAssumption DEF TypeOK, WorkerTypes, Mailbox
<1>3. ASSUME NEW m \in Mailboxes, NEW t \in 0 .. MaxTime,
             ~CapReached(m, t), ChargeMailbox(m, t),
             \/ claimsOn' = claimsOn
             \/ claimsOn' = [claimsOn EXCEPT ![<<m, Day(t)>>] = @ + 1]
      PROVE  ClaimsCharged'
  <2>1. ASSUME NEW n \in Mailboxes, NEW d \in Days
        PROVE  sendCount'[n] <= DailyCap
               /\ claimsOn'[<<n, d>>] <= DailyCap * turns'[n] + Share(n, d)'
    <3>1. CASE n # m
      <4>1. claimsOn'[<<n, d>>] = claimsOn[<<n, d>>]
        BY <1>3, <3>1 DEF TypeOK, MailboxTypes
      <4>2. Share(n, d)' = Share(n, d) /\ turns'[n] = turns[n] /\ sendCount'[n] = sendCount[n]
        BY <1>3, <3>1, ChargeMakesRoom DEF Share
      <4>. QED  BY <4>1, <4>2 DEF ClaimsCharged
    <3>2. CASE n = m
      <4>1. claimsOn[<<m, d>>] \in Nat /\ claimsOn'[<<m, d>>] \in Nat
        BY DEF TypeOK, MailboxTypes
      <4>2. claimsOn'[<<m, d>>] <= claimsOn[<<m, d>>] + (IF d = Day(t) THEN 1 ELSE 0)
        BY <1>3, <4>1 DEF TypeOK, MailboxTypes
      <4>3. claimsOn[<<m, d>>] + (IF d = Day(t) THEN 1 ELSE 0) <= DailyCap * turns'[m] + Share(m, d)'
        BY <1>3, ChargeMakesRoom
      <4>4. turns'[m] \in Nat /\ Share(m, d)' \in Nat /\ DailyCap \in Nat
        BY BoundsAssumption DEF TypeOK, MailboxTypes, Share
      <4>5. DailyCap * turns'[m] \in Nat
        BY <4>4, Distribute
      <4>6. sendCount'[m] <= DailyCap
        BY <1>3, ChargeMakesRoom
      <4>. QED  BY <3>2, <4>1, <4>2, <4>3, <4>4, <4>5, <4>6
    <3>. QED  BY <3>1, <3>2
  <2>2. ASSUME NEW n \in Mailboxes
        PROVE  sendCount'[n] <= DailyCap
    BY <1>3, ChargeMakesRoom DEF ClaimsCharged
  <2>. QED  BY <2>1, <2>2 DEF ClaimsCharged
<1>4. ASSUME NEW w \in Workers, CommitEmailClaim(w)
      PROVE  ClaimsCharged'
  BY <1>4, <1>2, <1>3 DEF CommitEmailClaim
<1>5. ASSUME NEW w \in Workers, LeaveMailbox(w)
      PROVE  ClaimsCharged'
  BY <1>5, <1>1, <1>2, <1>3 DEF LeaveMailbox, Settle, Defer
<1>6. ASSUME NEW w \in Workers, Work(w)
      PROVE  ClaimsCharged'
  BY <1>6, <1>1, <1>4, <1>5
  DEF Work, LockEnrollment, MaterializeCallTask, VetEmail, VetSms, Vet, ProbeEmail, ProbePhone,
      Probe, CommitSmsClaim, SkipSms, SendEmail, SendSms, Call, FailBeforeCall, RecordEmailSent,
      FinishSmsSend, Record, RecordFailure, Settle, Defer
<1>. QED
  BY <1>1, <1>6
  DEF Next, vars, Enroll, Claim, Crash, ExpireStaleClaims, StartApproval, ApproveReview, SkipReview,
      CommitUnsubscribe, Outside, PauseOnInboundReply, RecordBounceAndPause, RecordInbound,
      ApplyUnsubscribe, AddSuppression, ReleaseSuppression, SetDnc, SoftDelete, Link, Tick

-----------------------------------------------------------------------------
(* Unsubscribes against claims.  Only an enrollment, the two halves of an    *)
(* unsubscribe and the probe matter to FoundAll and ClearedIsSubscribed;     *)
(* every other step is calm for them.                                        *)

CalmRows ==
    /\ UNCHANGED <<leaving, late>>
    /\ deleted \subseteq deleted'
    /\ \A e \in Enrollments : enr'[e] = "active" => enr[e] = "active"
    /\ \A d \in Destinations : suppressed'[d] = "unsubscribe" => suppressed[d] = "unsubscribe"

CalmWorkers ==
    \A w \in Workers : pc'[w] = "cleared" /\ Channel[job'[w]] = "email" =>
        \/ pc[w] = "cleared" /\ job'[w] = job[w]
        \/ suppressed'[EmailOf[Contact(job'[w])]] = "no"

Calm == CalmRows /\ CalmWorkers

LEMMA CalmWork ==
    ASSUME TypeOK, NEW w \in Workers, Work(w)
    PROVE  Calm
<1>. USE DEF entities, pending, rows, TypeOK, WorkerTypes, RowTypes
<1>1. UNCHANGED entities
  BY DEF Work, LockEnrollment, MaterializeCallTask, VetEmail, VetSms, Vet, ProbeEmail,
         ProbePhone, Probe, CommitEmailClaim, LeaveMailbox, CommitSmsClaim, SkipSms,
         SendEmail, SendSms, Call, FailBeforeCall, RecordEmailSent, FinishSmsSend, Record, RecordFailure, Settle, Defer
<1>2. \A e \in Enrollments : enr'[e] = "active" => enr[e] = "active"
  BY DEF Work, LockEnrollment, MaterializeCallTask, VetEmail, VetSms, Vet, ProbeEmail,
         ProbePhone, Probe, CommitEmailClaim, LeaveMailbox, CommitSmsClaim, SkipSms,
         SendEmail, SendSms, Call, FailBeforeCall, RecordEmailSent, FinishSmsSend, Record, RecordFailure, Settle, Defer,
         FinishIfComplete
<1>3. ASSUME Release(w) \/ \E p \in PCs \ {"cleared"} : Goto(w, p)
      PROVE  CalmWorkers
  <2>1. CASE Release(w)
    BY <2>1 DEF Release, CalmWorkers
  <2>2. CASE \E p \in PCs \ {"cleared"} : Goto(w, p)
    BY <2>2 DEF Goto, CalmWorkers
  <2>. QED  BY <1>3, <2>1, <2>2
<1>4. ASSUME ProbeEmail(w)
      PROVE  CalmWorkers
  <2>1. CASE suppressed[EmailOf[Contact(job[w])]] = "no" /\ Goto(w, "cleared")
    <3>1. job' = job /\ suppressed' = suppressed /\ pc' = [pc EXCEPT ![w] = "cleared"]
      BY <2>1, <1>1 DEF Goto
    <3>. QED  BY <2>1, <3>1 DEF CalmWorkers, Contact
  <2>2. CASE Release(w)
    BY <2>2, <1>3
  <2>. QED  BY <1>4, <2>1, <2>2 DEF ProbeEmail, Probe, Settle, Defer
<1>5. ASSUME ProbePhone(w)
      PROVE  CalmWorkers
  <2>1. CASE Channel[job[w]] = "sms" /\ Goto(w, "cleared")
    <3>1. job' = job /\ pc' = [pc EXCEPT ![w] = "cleared"]
      BY <2>1 DEF Goto
    <3>. QED  BY <2>1, <3>1 DEF CalmWorkers
  <2>2. CASE Release(w)
    BY <2>2, <1>3
  <2>. QED  BY <1>5, <2>1, <2>2 DEF ProbePhone, Probe, Settle, Defer
<1>6. ASSUME ~ProbeEmail(w) /\ ~ProbePhone(w)
      PROVE  CalmWorkers
  <2>1. Release(w) \/ \E p \in {"guarding", "vetted", "calling", "delivered", "undelivered"} : Goto(w, p)
    BY <1>6 DEF Work, LockEnrollment, MaterializeCallTask, VetEmail, VetSms, Vet,
       CommitEmailClaim, LeaveMailbox, CommitSmsClaim, SkipSms, CommitClaim, SendEmail,
       SendSms, Call, FailBeforeCall, RecordEmailSent, FinishSmsSend, Record, RecordFailure, Settle, Defer
  <2>. QED  BY <2>1, <1>3 DEF PCs, InClaim, InFlight
<1>. QED  BY <1>1, <1>2, <1>4, <1>5, <1>6 DEF Calm, CalmRows

LEMMA CalmOutside ==
    ASSUME TypeOK, Outside, ~ \E d \in Destinations : ApplyUnsubscribe(d)
    PROVE  Calm
<1>. USE DEF entities, pending, rows, worker, Calm, CalmRows, CalmWorkers, TypeOK, RowTypes, EntityTypes
<1>1. ASSUME NEW cs, PauseActive(cs)
      PROVE  \A e \in Enrollments : enr'[e] = "active" => enr[e] = "active"
  BY <1>1 DEF PauseActive
<1>2. ASSUME NEW l \in Leads, PauseOnInboundReply(l)
      PROVE  Calm
  BY <1>2, <1>1 DEF PauseOnInboundReply
<1>3. ASSUME NEW l, NEW cs, RecordBounceAndPause(l, cs)
      PROVE  Calm
  BY <1>3, <1>1 DEF RecordBounceAndPause
<1>4. ASSUME NEW l \in Leads, NEW ch \in {"email", "sms"}, RecordInbound(l, ch)
      PROVE  Calm
  BY <1>4 DEF RecordInbound
<1>5. ASSUME NEW d \in Destinations, AddSuppression(d) \/ ReleaseSuppression(d)
      PROVE  Calm
  BY <1>5 DEF AddSuppression, ReleaseSuppression
<1>6. ASSUME NEW x \in Leads \cup Contacts, SetDnc(x) \/ SoftDelete(x)
      PROVE  Calm
  BY <1>6 DEF SetDnc, SoftDelete
<1>7. ASSUME NEW m \in Mailboxes, Link(m)
      PROVE  Calm
  BY <1>7 DEF Link
<1>. QED  BY <1>2, <1>3, <1>4, <1>5, <1>6, <1>7 DEF Outside

LEMMA UnsubscribeOfStep ==
    ASSUME TypeOK, TypeOK', EnrollmentRows, FoundAll, ClearedIsSubscribed, [Next]_vars
    PROVE  FoundAll' /\ ClearedIsSubscribed'
<1>. USE CastAssumption DEF entities, pending, rows, worker
<1>1. CASE Calm
  <2>1. FoundAll'
    BY <1>1 DEF Calm, CalmRows, FoundAll
  <2>2. ASSUME NEW w \in Workers, pc'[w] = "cleared"
        PROVE  job'[w] \in Intents /\ EmailOf[Contact(job'[w])] \in Destinations
    BY <2>2 DEF TypeOK, WorkerTypes, Contact
  <2>3. ClearedIsSubscribed'
    BY <1>1, <2>2 DEF Calm, CalmRows, CalmWorkers, ClearedIsSubscribed, Contact
  <2>. QED  BY <2>1, <2>3
<1>2. ASSUME NEW e \in Enrollments, Enroll(e)
      PROVE  FoundAll' /\ ClearedIsSubscribed'
  <2>1. FoundAll'
    BY <1>2 DEF Enroll, FoundAll, TypeOK, RowTypes
  <2>2. ClearedIsSubscribed'
    BY <1>2 DEF Enroll, ClearedIsSubscribed, Contact
  <2>. QED  BY <2>1, <2>2
<1>3. ASSUME NEW d \in Destinations, ApplyUnsubscribe(d)
      PROVE  FoundAll' /\ ClearedIsSubscribed'
  <2>1. \A u \in leaving' \ leaving :
           /\ u.to = d
           /\ u.found = PauseTargets(ContactsWithEmail(d))
    BY <1>3 DEF ApplyUnsubscribe
  <2>2. \A e \in Enrollments :
           (enr[e] = "active" /\ EmailOf[ContactOf[e]] = d /\ ContactOf[e] \notin deleted)
           => e \in PauseTargets(ContactsWithEmail(d))
    BY DEF PauseTargets, ContactsWithEmail
  <2>3. FoundAll'
    BY <1>3, <2>1, <2>2 DEF ApplyUnsubscribe, FoundAll
  <2>4. ClearedIsSubscribed'
    BY <1>3 DEF ApplyUnsubscribe, ClearedIsSubscribed, Contact
  <2>. QED  BY <2>3, <2>4
<1>4. ASSUME NEW u \in leaving, CommitUnsubscribe(u)
      PROVE  FoundAll' /\ ClearedIsSubscribed'
  <2>1. FoundAll'
    BY <1>4 DEF CommitUnsubscribe, FoundAll
  <2>2. ASSUME NEW w \in Workers,
               pc[w] = "cleared",
               Channel[job[w]] = "email",
               Contact(job[w]) \notin deleted,
               EnrollmentOf[job[w]] \notin late
        PROVE  suppressed'[EmailOf[Contact(job[w])]] # "unsubscribe"
    <3>. DEFINE e == EnrollmentOf[job[w]]
    <3>1. e \in Enrollments /\ enr[e] = "active" /\ EnrollmentLocked(e)
      BY <2>2 DEF TypeOK, WorkerTypes, EnrollmentRows, Locking, EnrollmentLocked
    <3>2. e \notin u.found
      BY <1>4, <3>1 DEF CommitUnsubscribe
    <3>3. ~(u.adds /\ EmailOf[Contact(job[w])] = u.to)
      BY <2>2, <3>1, <3>2 DEF FoundAll, Contact
    <3>4. suppressed[EmailOf[Contact(job[w])]] # "unsubscribe"
      BY <2>2 DEF ClearedIsSubscribed
    <3>5. EmailOf[Contact(job[w])] \in Destinations
      BY <3>1 DEF Contact
    <3>. QED
      BY <1>4, <3>3, <3>4, <3>5 DEF CommitUnsubscribe, TypeOK, EntityTypes
  <2>3. ClearedIsSubscribed'
    BY <1>4, <2>2 DEF CommitUnsubscribe, ClearedIsSubscribed, Contact
  <2>. QED  BY <2>1, <2>3
<1>5. ASSUME NEW w \in Workers, NEW i \in Intents, Claim(w, i)
      PROVE  Calm
  BY <1>5 DEF Claim, Calm, CalmRows, CalmWorkers, TypeOK, WorkerTypes
<1>6. ASSUME NEW w \in Workers, Crash(w)
      PROVE  Calm
  BY <1>6 DEF Crash, Release, Calm, CalmRows, CalmWorkers, TypeOK, WorkerTypes
<1>7. ASSUME NEW i \in Intents, StartApproval(i) \/ ApproveReview(i) \/ SkipReview(i)
      PROVE  Calm
  BY <1>7 DEF StartApproval, ApproveReview, SkipReview, Calm, CalmRows, CalmWorkers
<1>8. ASSUME UNCHANGED <<enr, suppressed, leaving, late, deleted, pc, job>>
      PROVE  Calm
  BY <1>8 DEF Calm, CalmRows, CalmWorkers
<1>9. CASE ExpireStaleClaims \/ Tick \/ UNCHANGED vars
  BY <1>9, <1>8, <1>1 DEF ExpireStaleClaims, Tick, vars
<1>. QED
  BY <1>1, <1>2, <1>3, <1>4, <1>5, <1>6, <1>7, <1>9, CalmWork, CalmOutside DEF Next

-----------------------------------------------------------------------------
(* The inductive invariant, and what follows from it *)

LEMMA CoreOfInvariant ==
    ASSUME IInv
    PROVE  Core /\ CoreTypes
BY DEF IInv, Core, CoreTypes, TypeOK, RowTypes, WorkerTypes

THEOREM InvariantInit == Init => IInv
<1>. SUFFICES ASSUME Init PROVE IInv
  OBVIOUS
<1>1. TypeOK
  BY TypeInit
<1>2. OneHolder /\ HeldState /\ CallCount /\ EnrollmentRows
  BY CastAssumption DEF Init, OneHolder, HeldState, CallCount, EnrollmentRows, InClaim, InFlight, Locking
<1>3. FinishedIsComplete /\ ClaimsCharged
  BY CastAssumption, BoundsAssumption DEF Init, FinishedIsComplete, ClaimsCharged, Share, Open
<1>4. FoundAll /\ ClearedIsSubscribed
  BY DEF Init, FoundAll, ClearedIsSubscribed
<1>. QED  BY <1>1, <1>2, <1>3, <1>4 DEF IInv

THEOREM InvariantStep == IInv /\ [Next]_vars => IInv'
<1>. SUFFICES ASSUME IInv, [Next]_vars PROVE IInv'
  OBVIOUS
<1>1. TypeOK'
  BY TypeOfStep DEF IInv
<1>2. CoreTypes'
  BY <1>1 DEF CoreTypes, TypeOK, RowTypes, WorkerTypes
<1>3. Core'
  BY <1>2, CoreOfInvariant, CoreOfEffect, EffectOfStep
<1>4. ClaimsCharged'
  BY <1>1, CounterOfStep DEF IInv
<1>5. FoundAll' /\ ClearedIsSubscribed'
  BY <1>1, UnsubscribeOfStep DEF IInv
<1>. QED  BY <1>1, <1>3, <1>4, <1>5 DEF IInv, Core

THEOREM InvariantCorrect == Spec => []IInv
BY InvariantInit, InvariantStep, PTL DEF Spec

(* I-SEND-1: provider.send is called at most once for an intent, for any     *)
(* number of workers, crashes, expiries and reviews.                         *)
THEOREM NeverTwice == Spec => []AtMostOneCall
<1>1. IInv => AtMostOneCall
  BY DEF IInv, CallCount, AtMostOneCall
<1>. QED  BY <1>1, InvariantCorrect, PTL

(* finishIfComplete: a finished enrollment has no scheduled, claimed or      *)
(* reviewable intent, whatever other workers held when it was decided.       *)
THEOREM FinishedCorrect == Spec => []FinishedIsComplete
<1>1. IInv => FinishedIsComplete
  BY DEF IInv
<1>. QED  BY <1>1, InvariantCorrect, PTL

(* The daily cap: a mailbox's claims of one day exceed it only by what the    *)
(* workers whose clock was of an earlier day have set back, a cap's worth a   *)
(* time.  ClaimsCharged says how far the counter stands for the claims: of    *)
(* its own day exactly, of the days before by what they may have used up.     *)
THEOREM DailyClaims == Spec => []DailyClaimsBounded
<1>1. TypeOK /\ ClaimsCharged => DailyClaimsBounded
  <2>. SUFFICES ASSUME TypeOK, ClaimsCharged, NEW m \in Mailboxes, NEW d \in Days
                PROVE  claimsOn[<<m, d>>] <= DailyCap * turns[m] + DailyCap
    BY DEF DailyClaimsBounded
  <2>. DEFINE P == DailyCap * turns[m]
  <2>1. P \in Nat /\ DailyCap \in Nat /\ claimsOn[<<m, d>>] \in Nat /\ sendCount[m] \in Nat
    BY BoundsAssumption DEF TypeOK, MailboxTypes
  <2>2. claimsOn[<<m, d>>] <= P + Share(m, d) /\ sendCount[m] <= DailyCap
    BY DEF ClaimsCharged
  <2>. HIDE DEF P
  <2>3. claimsOn[<<m, d>>] <= P + DailyCap
    BY <2>1, <2>2 DEF Share
  <2>. QED  BY <2>3 DEF P
<1>. QED  BY <1>1, TypeCorrect, InvariantCorrect, PTL DEF IInv

-----------------------------------------------------------------------------
(* Action properties: each holds of every step from a state of IInv *)

LEMMA EffectOfBox ==
    ASSUME [Next]_vars
    PROVE  Effect
<1>1. CASE UNCHANGED vars
  BY <1>1 DEF vars, rows, worker, Effect, Quiet
<1>. QED  BY <1>1, EffectOfStep

SentStep ==
    \A e \in Enrollments : enr[e] \in {"paused", "finished"} =>
        /\ enr'[e] = enr[e]
        /\ \A i \in Intents_(e) : ~Becomes(i, "SENT")

LEMMA SentOfEffect ==
    ASSUME Core, Effect
    PROVE  SentStep
<1>. USE CastAssumption DEF SentStep, Core, CoreTypes, Becomes, Sets, Frees, Moves, Intents_
<1>1. CASE Quiet
  BY <1>1 DEF Quiet
<1>2. ASSUME NEW e \in Enrollments, Made(e)
      PROVE  SentStep
  BY <1>2 DEF Made
<1>3. ASSUME NEW w \in Workers, Sent(w)
      PROVE  SentStep
  <2>1. enr[EnrollmentOf[job[w]]] = "active" /\ job[w] \in Intents
    BY <1>3 DEF Sent, EnrollmentRows, Locking
  <2>. QED  BY <1>3, <2>1 DEF Sent, FinishIfComplete
<1>4. ASSUME NEW w \in Workers, WorkerEffect(w), ~Sent(w)
      PROVE  SentStep
  BY <1>4
  DEF WorkerEffect, Taken, Entered, Passed, Rejected, Dropped, Committed, Called, Missed,
      Reported
<1>5. ASSUME NEW S \in SUBSET Intents, Expired(S)
      PROVE  SentStep
  BY <1>5 DEF Expired
<1>6. ASSUME NEW i \in Intents, NEW s \in {"SCHEDULED", "SKIPPED"}, Reviewed(i, s)
      PROVE  SentStep
  BY <1>6 DEF Reviewed
<1>7. ASSUME NEW S \in SUBSET Enrollments, Paused(S)
      PROVE  SentStep
  BY <1>7 DEF Paused
<1>. QED  BY <1>1, <1>2, <1>3, <1>4, <1>5, <1>6, <1>7 DEF Effect

\* Only a worker that has passed every rail makes an intent CLAIMED.
LEMMA ClaimedByCommit ==
    ASSUME Core, Effect, NEW i \in Intents, Becomes(i, "CLAIMED")
    PROVE  \E w \in Workers : pc[w] = "cleared" /\ job[w] = i
<1>. USE DEF Core, CoreTypes, Becomes, Sets, Frees, Moves, Intents_
<1>1. ASSUME NEW w \in Workers, WorkerEffect(w)
      PROVE  pc[w] = "cleared" /\ job[w] = i
  BY <1>1
  DEF WorkerEffect, Taken, Entered, Passed, Rejected, Dropped, Committed, Called, Missed, Reported, Sent
<1>. QED
  BY <1>1 DEF Effect, Quiet, Made, Expired, Reviewed, Paused

(* I-SEND-2: a pause, wherever it falls in a claim or a provider call, keeps *)
(* every intent of the enrollment from being claimed or recorded SENT from   *)
(* then on -- the row lock orders it against the claims -- and a paused or   *)
(* finished enrollment never changes again.                                  *)
THEOREM PauseIsFinal == Spec => NothingAfterPause
<1>1. IInv /\ [Next]_vars => SentStep
  BY CoreOfInvariant, EffectOfBox, SentOfEffect
<1>2. ASSUME IInv, [Next]_vars, NEW e \in Enrollments, NEW i \in Intents_(e), Becomes(i, "CLAIMED")
      PROVE  enr[e] = "active"
  <2>1. i \in Intents /\ EnrollmentOf[i] = e
    BY DEF Intents_
  <2>2. PICK w \in Workers : pc[w] = "cleared" /\ job[w] = i
    BY <1>2, <2>1, CoreOfInvariant, EffectOfBox, ClaimedByCommit
  <2>. QED  BY <1>2, <2>1, <2>2 DEF IInv, EnrollmentRows, Locking
<1>3. IInv /\ [Next]_vars =>
        [\A e \in Enrollments : enr[e] \in {"paused", "finished"} =>
            /\ enr'[e] = enr[e]
            /\ \A i \in Intents_(e) : ~Becomes(i, "SENT") /\ ~Becomes(i, "CLAIMED")]_vars
  BY <1>1, <1>2 DEF SentStep
<1>. QED  BY <1>3, InvariantCorrect, PTL DEF Spec, NothingAfterPause

(* I-SEND-5: after an unsubscribe has committed no e-mail claim commits for  *)
(* the address, but for enrollments made while it was open and contacts that *)
(* were deleted: what FoundAll and ClearedIsSubscribed leave out.            *)
THEOREM UnsubscribeStopsClaims == Spec => NeverClaimedAfterUnsubscribe
<1>1. IInv /\ [Next]_vars =>
        [\A i \in Intents :
            (/\ Becomes(i, "CLAIMED")
             /\ Channel[i] = "email"
             /\ Contact(i) \notin deleted
             /\ EnrollmentOf[i] \notin late) => suppressed[Dest(i)] # "unsubscribe"]_vars
  <2>. SUFFICES ASSUME IInv, [Next]_vars, NEW i \in Intents,
                       Becomes(i, "CLAIMED"),
                       Channel[i] = "email",
                       Contact(i) \notin deleted,
                       EnrollmentOf[i] \notin late
                PROVE  suppressed[Dest(i)] # "unsubscribe"
    OBVIOUS
  <2>1. PICK w \in Workers : pc[w] = "cleared" /\ job[w] = i
    BY CoreOfInvariant, EffectOfBox, ClaimedByCommit
  <2>. QED  BY <2>1 DEF IInv, ClearedIsSubscribed, Dest
<1>. QED  BY <1>1, InvariantCorrect, PTL DEF Spec, NeverClaimedAfterUnsubscribe

-----------------------------------------------------------------------------
(* The engine implements SendOnce *)

Phases == [i \in Intents |-> Phase(i)]

LEMMA ReportedStep ==
    ASSUME Core, Effect
    PROVE  Promise!Next \/ UNCHANGED <<Phases, calls>>
<1>. USE CastAssumption DEF Core, CoreTypes, Sets, Frees, Moves, Intents_
<1>. DEFINE Goal == Promise!Next \/ UNCHANGED <<Phases, calls>>
<1>1. ASSUME \A i \in Intents : Phase(i)' = Phase(i), UNCHANGED calls
      PROVE  Goal
  <2>1. Phases' = Phases
    BY <1>1 DEF Phases
  <2>. QED  BY <1>1, <2>1
<1>2. ASSUME NEW i \in Intents, NEW p,
             Phase(i)' = p,
             \A j \in Intents \ {i} : Phase(j)' = Phase(j)
      PROVE  Phases' = [Phases EXCEPT ![i] = p]
  BY <1>2 DEF Phases
<1>3. ASSUME NEW i \in Intents, NEW s \in IntentStates, Sets(i, s)
      PROVE  \A j \in Intents \ {i} : Phase(j)' = Phase(j)
  BY <1>3 DEF Phase
<1>4. ASSUME NEW i \in Intents,
             Phase(i) = "open",
             Phase(i)' \in Promise!Outcomes \cup {"claimed"},
             \A j \in Intents \ {i} : Phase(j)' = Phase(j),
             UNCHANGED calls
      PROVE  Goal
  <2>1. Phases[i] = "open"
    BY <1>4 DEF Phases
  <2>2. PICK p \in Promise!Outcomes \cup {"claimed"} : Phases' = [Phases EXCEPT ![i] = p]
    BY <1>2, <1>4
  <2>. QED  BY <1>4, <2>1, <2>2 DEF Promise!Next, Promise!Reject, Promise!Take, Phases
<1>5. ASSUME NEW w \in Workers, NEW i \in Intents, WorkerEffect(w), pc[w] # "idle", job[w] = i
      PROVE  Goal
  <2>. USE <1>5
  <2>1. pc[w] \in InClaim => Phase(i) = "open"
    BY DEF HeldState, Phase
  <2>2. pc[w] \in InFlight => Phase(i) \in {"claimed", "expired"}
    BY DEF HeldState, Phase
  <2>3. CASE UNCHANGED <<state, calls>>
    BY <2>3, <1>1 DEF Phase
  <2>4. CASE \/ Rejected(w, "SKIPPED") \/ Rejected(w, "BLOCKED") \/ Committed(w)
             \/ Sent(w) /\ pc[w] = "guarding"
    <3>1. PICK s \in {"SKIPPED", "BLOCKED", "CLAIMED", "SENT"} : Sets(i, s)
      BY <2>4 DEF Rejected, Committed, Sent
    <3>2. pc[w] \in InClaim /\ UNCHANGED calls
      BY <2>4 DEF Rejected, Committed, Sent, InClaim
    <3>3. Phase(i)' \in Promise!Outcomes \cup {"claimed"}
      BY <3>1 DEF Phase, Promise!Outcomes
    <3>4. \A j \in Intents \ {i} : Phase(j)' = Phase(j)
      BY <3>1, <1>3 DEF IntentStates, Open, Terminal
    <3>. QED  BY <2>1, <3>2, <3>3, <3>4, <1>4
  <2>5. CASE \E p \in {"delivered", "undelivered"} : Called(w, p)
    <3>1. calls[i] = 0 /\ Phase(i) \in {"claimed", "expired"}
      BY <2>5, <2>2 DEF Called, CallCount, InFlight
    <3>2. calls' = [calls EXCEPT ![i] = 1]
      BY <2>5, <3>1 DEF Called
    <3>3. Phases' = Phases /\ Phases[i] \in {"claimed", "expired"}
      BY <2>5, <3>1 DEF Called, Phases, Phase
    <3>. QED  BY <3>1, <3>2, <3>3 DEF Promise!Next, Promise!Call, Phases
  <2>6. CASE \/ Reported(w, "SKIPPED") \/ Reported(w, "FAILED")
             \/ Sent(w) /\ pc[w] = "delivered"
    <3>1. PICK s \in {"SKIPPED", "FAILED", "SENT"} :
              Sets(i, s) /\ pc[w] = (IF s = "FAILED" THEN "undelivered" ELSE "delivered")
      BY <2>6 DEF Reported, Sent
    <3>2. calls[i] \in {0, 1} /\ Phase(i) \in {"claimed", "expired"} /\ UNCHANGED calls
      BY <2>6, <2>2 DEF Reported, Sent, CallCount, InFlight
    <3>3. Phase(i)' = s /\ \A j \in Intents \ {i} : Phase(j)' = Phase(j)
      BY <3>1, <1>3 DEF Phase, IntentStates, Open, Terminal
    <3>4. Phases' = [Phases EXCEPT ![i] = s] /\ Phases[i] \in {"claimed", "expired"}
      BY <1>2, <3>2, <3>3 DEF Phases
    <3>5. s # "FAILED" => calls[i] = 1
      BY <3>1 DEF CallCount
    <3>6. CASE calls[i] = 1
      BY <3>2, <3>4, <3>6 DEF Promise!Next, Promise!Report, Promise!Outcomes, Phases
    <3>7. CASE calls[i] = 0
      <4>1. s = "FAILED"
        BY <3>5, <3>7
      <4>2. Promise!GiveUp(i)
        BY <3>2, <3>4, <3>7, <4>1 DEF Promise!GiveUp, Phases
      <4>. QED  BY <4>2 DEF Promise!Next
    <3>. QED  BY <3>2, <3>6, <3>7
  <2>. QED
    BY <2>3, <2>4, <2>5, <2>6
    DEF WorkerEffect, Taken, Entered, Passed, Dropped, Missed, Sent
<1>11. ASSUME NEW w \in Workers, WorkerEffect(w), pc[w] = "idle"
       PROVE  Goal
  BY <1>11, <1>1
  DEF WorkerEffect, Taken, Entered, Passed, Rejected, Dropped, Committed, Called, Missed,
      Reported, Sent,
      InClaim, Phase
<1>6. ASSUME NEW S \in SUBSET Intents, Expired(S)
      PROVE  Goal
  <2>1. \A i \in S : Phases[i] = "claimed"
    BY <1>6 DEF Expired, Phases, Phase
  <2>2. Phases' = [i \in Intents |-> IF i \in S THEN "expired" ELSE Phases[i]]
    BY <1>6 DEF Expired, Phases, Phase
  <2>. QED  BY <1>6, <2>1, <2>2 DEF Expired, Promise!Next, Promise!Expire, Phases
<1>7. ASSUME NEW i \in Intents, NEW s \in {"SCHEDULED", "SKIPPED"}, Reviewed(i, s)
      PROVE  Goal
  <2>1. \A j \in Intents \ {i} : Phase(j)' = Phase(j)
    BY <1>7 DEF Reviewed, Phase
  <2>2. Phase(i) = "open" /\ Phase(i)' \in {"open", "SKIPPED"}
    BY <1>7 DEF Reviewed, Phase
  <2>. QED  BY <1>7, <2>1, <2>2, <1>1, <1>4 DEF Reviewed, Promise!Outcomes
<1>8. ASSUME NEW e \in Enrollments, Made(e)
      PROVE  Goal
  <2>1. \A i \in Intents : Phase(i)' = Phase(i)
    BY <1>8 DEF Made, EnrollmentRows, Phase
  <2>. QED  BY <1>1, <1>8, <2>1 DEF Made
<1>9. CASE Quiet
  BY <1>9, <1>1 DEF Quiet, Phase
<1>10. ASSUME NEW S \in SUBSET Enrollments, Paused(S)
       PROVE  Goal
  BY <1>10, <1>1 DEF Paused, Phase
<1>. QED  BY <1>5, <1>6, <1>7, <1>8, <1>9, <1>10, <1>11 DEF Effect

(* The send engine implements SendOnce: seen through the phase of each       *)
(* intent, every step is one of its steps or none -- one call at most, only  *)
(* under a committed claim, and no outcome but FAILED without the call.      *)
THEOREM Refinement == Spec => ImplementsSendOnce
<1>1. Init => Promise!Init
  BY DEF Init, Promise!Init, Phase
<1>2. IInv /\ [Next]_vars => [Promise!Next]_<<Phases, calls>>
  BY CoreOfInvariant, EffectOfBox, ReportedStep
<1>. QED
  BY <1>1, <1>2, InvariantCorrect, PTL DEF Spec, ImplementsSendOnce, Promise!Spec, Phases

=============================================================================
