---------------------------- MODULE TwilioInbox ----------------------------
(***************************************************************************)
(* Twilio's callbacks (services/telephony): the ingress stores each one in *)
(* webhook_inbox, and sweeps or wake-ups process the stored rows, one      *)
(* transaction a row, into calls, suppressions and timeline entries.  A    *)
(* rep's dial and voicemail drop write the same calls.                     *)
(*                                                                         *)
(* A transaction is the sequence of its statements that read what others   *)
(* write or that take a row lock.  What it wrote appears when it commits;  *)
(* until then `holds' names the rows it has locked.                        *)
(***************************************************************************)
EXTENDS Naturals, FiniteSets

CONSTANTS
    Events,         \* callbacks Twilio may deliver, by provider_event_id
    Calls, Numbers, Leads,
    Workers,        \* sweeps and queue jobs that may run at the same time
    Reps,           \* who may drop a voicemail into a call
    NoTask,
    Kind,           \* [Events -> Kinds]
    Subject,        \* [Events -> Calls \cup Numbers]: the call, or the sms's sender
    PartyOf,        \* [Calls -> Numbers]: the other end's number
    OwnerOf,        \* [Numbers -> Leads]: the lead whose contact has the number
    Bare,           \* callbacks that do not carry the other end's number
    Outbound,       \* calls that a rep dials
    MaxRows,        \* rows of the inbox
    MaxEvents       \* disturbances: failures, edits, releases, drops

\* What parseTwilioWebhook and classifyTerminal tell apart.  `ended' and `message' are
\* the terminal callbacks, a `message' that of an inbound call a machine answered, with
\* the message's url; a `recorded' one is a recording that is complete.
Kinds == {"voice", "progress", "ended", "message", "recording", "recorded", "text", "stop"}
CallKinds  == Kinds \ {"text", "stop"}
Terminals  == {"ended", "message"}
Recordings == {"recording", "recorded"}

ASSUME CastAssumption ==
    /\ Kind \in [Events -> Kinds]
    /\ Subject \in [Events -> Calls \cup Numbers]
    /\ \A e \in Events : Subject[e] \in Calls <=> Kind[e] \in CallKinds
    /\ PartyOf \in [Calls -> Numbers]
    /\ OwnerOf \in [Numbers -> Leads]
    /\ Bare \subseteq Events
    /\ Outbound \subseteq Calls
    /\ \A e \in Events : Kind[e] = "message" => Subject[e] \notin Outbound
    /\ NoTask \notin Events \cup Calls

ASSUME DisjointAssumption ==
    /\ Events \cap (Calls \cup Numbers \cup Leads) = {}
    /\ Calls \cap (Numbers \cup Leads) = {}
    /\ Numbers \cap Leads = {}
    /\ Workers \cap Reps = {}

ASSUME BoundsAssumption == MaxRows \in Nat /\ MaxEvents \in Nat

VARIABLES
    rank,           \* received_at: the place of each stored row, 0 if not stored
    done,           \* rows with processed_at set
    woken,          \* rows with a wake-up in the queue
    status,         \* calls.status: no row, not over, over
    logs,           \* call_logged, call_missed, voicemail_received of a call
    consents,       \* recording_consent_played of a call
    ref,            \* calls.recording_ref: whose it is
    texts,          \* sms_received or sms_opt_out entries of an sms row
    confirmed,      \* confirmations sent for a STOP
    suppression,    \* of a number: never, active, released
    dialled,        \* of an outbound call: what dialCall has done
    known,          \* numbers a live contact has
    deleted,        \* leads soft-deleted
    pc, task,       \* each actor's place, and its row or call
    todo,           \* rows a sweep has selected and not come to yet
    matched,        \* did resolveContactByPhone find the sender?
    holds,          \* rows locked
    events,         \* disturbances so far
    dropped,        \* history: calls with a voicemail drop committed
    pardoned,       \* history: STOPs that a later release took back
    crowded         \* history: calls whose first marker two callbacks set out to record

inbox == <<rank, done, woken>>
phone == <<status, logs, consents, ref, dialled>>
sms   == <<texts, confirmed, suppression>>
crm   == <<known, deleted>>
actor == <<pc, task, todo, matched, holds>>
ghost == <<dropped, pardoned, crowded>>
vars == <<inbox, phone, sms, crm, actor, events, ghost>>

-----------------------------------------------------------------------------
(* Vocabulary *)

Actors == Workers \cup Reps

PCs == {"idle", "next", "claimed", "resolving", "probing", "consenting", "attaching",
        "updating", "finalising", "logging", "suppressing", "inserting", "reactivating",
        "texting", "confirming", "checking", "overwriting", "noting"}

Stored == {e \in Events : rank[e] > 0}
Unprocessed == Stored \ done

First(e, S) == e \in S /\ \A f \in S : rank[e] <= rank[f]

CallOf(a) == IF task[a] \in Calls THEN task[a] ELSE Subject[task[a]]
NumberOf(e) == IF Kind[e] \in CallKinds THEN PartyOf[Subject[e]] ELSE Subject[e]
LeadOf(a) == IF task[a] \in Calls THEN OwnerOf[PartyOf[task[a]]] ELSE OwnerOf[NumberOf(task[a])]

\* Mutant: the join does not look at the lead.
ResolvesDeleted(n) == n \in known

\* resolveContactByPhone: a live contact of a live lead.
Resolves(n) == n \in known /\ OwnerOf[n] \notin deleted

Happens == events < MaxEvents /\ events' = events + 1

-----------------------------------------------------------------------------
(* Transactions *)

Free(a, r) == \A b \in Actors \ {a} : r \notin holds[b]

Goto(a, p) == pc' = [pc EXCEPT ![a] = p] /\ UNCHANGED <<task, todo, matched, holds>>

\* The statement takes the lock and the transaction goes on.
LockAndGoto(a, r, p) ==
    /\ Free(a, r)
    /\ holds' = [holds EXCEPT ![a] = @ \cup {r}]
    /\ pc' = [pc EXCEPT ![a] = p]
    /\ UNCHANGED <<task, todo, matched>>

\* COMMIT of the row's transaction; the processor goes to its next row.
CommitRow(w) ==
    /\ done' = done \cup {task[w]}
    /\ holds' = [holds EXCEPT ![w] = {}]
    /\ task' = [task EXCEPT ![w] = NoTask]
    /\ pc' = [pc EXCEPT ![w] = "next"]
    /\ UNCHANGED <<rank, woken, todo, matched>>

\* An exception rolls back and leaves processPendingTwilioWebhooks' loop.
GiveUp(a) ==
    /\ pc' = [pc EXCEPT ![a] = "idle"]
    /\ task' = [task EXCEPT ![a] = NoTask]
    /\ todo' = [todo EXCEPT ![a] = {}]
    /\ holds' = [holds EXCEPT ![a] = {}]
    /\ UNCHANGED matched

Rollback(a) == GiveUp(a) /\ UNCHANGED <<inbox, phone, sms, crm, events, ghost>>

-----------------------------------------------------------------------------
(* Ingress *)

\* persistTwilioWebhook stores a row unless its event id is there, then the
\* route enqueues a wake-up.  One that is refused or lost is one nobody ever takes.
Deliver(e) ==
    /\ rank[e] = 0
    /\ Cardinality(Stored) < MaxRows
    /\ Subject[e] \in Outbound => dialled[Subject[e]] # "no"
    /\ rank' = [rank EXCEPT ![e] = Cardinality(Stored) + 1]
    /\ woken' = woken \cup {e}
    /\ UNCHANGED <<done, phone, sms, crm, actor, events, ghost>>

\* handleTelephonyJob: a job is one row.
Wake(w, e) ==
    /\ pc[w] = "idle"
    /\ e \in woken
    /\ woken' = woken \ {e}
    /\ todo' = [todo EXCEPT ![w] = {e}]
    /\ pc' = [pc EXCEPT ![w] = "next"]
    /\ UNCHANGED <<rank, done, phone, sms, crm, task, matched, holds, events, ghost>>

\* processPendingTwilioWebhooks: one SELECT.
Sweep(w) ==
    /\ pc[w] = "idle"
    /\ Unprocessed # {}
    /\ todo' = [todo EXCEPT ![w] = Unprocessed]
    /\ pc' = [pc EXCEPT ![w] = "next"]
    /\ UNCHANGED <<inbox, phone, sms, crm, task, matched, holds, events, ghost>>

\* Mutant: processed_at is not looked at again.
ClaimAgain(w) ==
    /\ pc[w] = "next"
    /\ \E e \in todo[w] :
          /\ First(e, todo[w])
          /\ Free(w, e)
          /\ todo' = [todo EXCEPT ![w] = @ \ {e}]
          /\ task' = [task EXCEPT ![w] = e]
          /\ pc' = [pc EXCEPT ![w] = "claimed"]
          /\ holds' = [holds EXCEPT ![w] = {e}]
    /\ UNCHANGED <<inbox, phone, sms, crm, matched, events, ghost>>

\* UPDATE ... WHERE processed_at IS NULL, the oldest row of the list first.
Claim(w) ==
    /\ pc[w] = "next"
    /\ \E e \in todo[w] :
          /\ First(e, todo[w])
          /\ Free(w, e)
          /\ todo' = [todo EXCEPT ![w] = @ \ {e}]
          /\ IF e \in done
             THEN UNCHANGED <<pc, task, holds>>
             ELSE /\ task' = [task EXCEPT ![w] = e]
                  /\ pc' = [pc EXCEPT ![w] = "claimed"]
                  /\ holds' = [holds EXCEPT ![w] = {e}]
    /\ UNCHANGED <<inbox, phone, sms, crm, matched, events, ghost>>

Finish(w) ==
    /\ pc[w] = "next"
    /\ todo[w] = {}
    /\ Rollback(w)

\* A voice row is kept for audit only.
PassVoice(w) ==
    /\ pc[w] = "claimed"
    /\ Kind[task[w]] = "voice"
    /\ CommitRow(w)
    /\ UNCHANGED <<phone, sms, crm, events, ghost>>

-----------------------------------------------------------------------------
(* processStatus *)

AfterCall(w) == IF Kind[task[w]] \in Recordings THEN "probing" ELSE "updating"

\* ensureCallRow: SELECT.
LoadCall(w) ==
    /\ pc[w] = "claimed"
    /\ Kind[task[w]] \in CallKinds \ {"voice"}
    /\ Goto(w, IF status[CallOf(w)] = "none" THEN "resolving" ELSE AfterCall(w))
    /\ UNCHANGED <<inbox, phone, sms, crm, events, ghost>>

\* ensureCallRow: nobody to attach the call to; the row is done, with an error.
NoContact(w) ==
    /\ pc[w] = "resolving"
    /\ task[w] \in Bare \/ ~Resolves(NumberOf(task[w]))
    /\ CommitRow(w)
    /\ UNCHANGED <<phone, sms, crm, events, ghost>>

\* ensureCallRow: INSERT ... ON CONFLICT DO NOTHING, which waits for a row
\* another transaction is inserting.
CreateCall(w) ==
    /\ pc[w] = "resolving"
    /\ task[w] \notin Bare
    /\ Resolves(NumberOf(task[w]))
    /\ \/ status[CallOf(w)] = "none" /\ LockAndGoto(w, CallOf(w), AfterCall(w))
       \/ status[CallOf(w)] # "none" /\ Goto(w, AfterCall(w))
    /\ UNCHANGED <<inbox, phone, sms, crm, events, ghost>>

\* Mutant: a marker is recorded with completed recordings only if the call is over.
MarksEndedCalls(w) == LeadOf(w) \in holds[w] /\ status[CallOf(w)] = "ended"

\* Has this transaction recorded the marker?
Marks(w) == LeadOf(w) \in holds[w]

\* It has found no marker, and its own is not committed.
Marking(w) == pc[w] = "consenting" \/ (pc[w] = "attaching" /\ Marks(w))

\* ensureConsentPlayed: is there a marker?  The SELECT locks nothing.
ProbeConsent(w) ==
    /\ pc[w] = "probing"
    /\ IF consents[CallOf(w)] > 0
       THEN Goto(w, "attaching") /\ UNCHANGED crowded
       ELSE /\ Goto(w, "consenting")
            /\ crowded' = crowded \cup
                             {c \in {CallOf(w)} : \E v \in Workers : Marking(v) /\ CallOf(v) = c}
    /\ UNCHANGED <<inbox, phone, sms, crm, events, dropped, pardoned>>

\* recordActivity updates the lead, and throws for one that is soft-deleted.
RecordConsent(w) ==
    /\ pc[w] = "consenting"
    /\ Free(w, LeadOf(w))
    /\ IF LeadOf(w) \in deleted
       THEN Rollback(w)
       ELSE /\ LockAndGoto(w, LeadOf(w), "attaching")
            /\ UNCHANGED <<inbox, phone, sms, crm, events, ghost>>

\* Mutant: a recording callback writes the status it carries, as a progress callback does.
AttachRecordingAndStatus(w) ==
    /\ pc[w] = "attaching"
    /\ Free(w, CallOf(w))
    /\ consents' = [consents EXCEPT ![CallOf(w)] = IF Marks(w) THEN @ + 1 ELSE @]
    /\ ref' = IF Kind[task[w]] = "recorded" THEN [ref EXCEPT ![CallOf(w)] = "recording"] ELSE ref
    /\ status' = [status EXCEPT ![CallOf(w)] = "open"]
    /\ CommitRow(w)
    /\ UNCHANGED <<logs, dialled, sms, crm, events, ghost>>

\* The ref is attached when the recording is complete; COMMIT.  A call that had no row
\* gets one: a recording callback has no CallStatus, so its status is `queued'.
AttachRecording(w) ==
    /\ pc[w] = "attaching"
    /\ Kind[task[w]] = "recorded" => Free(w, CallOf(w))
    /\ consents' = [consents EXCEPT ![CallOf(w)] = IF Marks(w) THEN @ + 1 ELSE @]
    /\ ref' = IF Kind[task[w]] = "recorded" THEN [ref EXCEPT ![CallOf(w)] = "recording"] ELSE ref
    /\ status' = [status EXCEPT ![CallOf(w)] = IF @ = "none" THEN "open" ELSE @]
    /\ CommitRow(w)
    /\ UNCHANGED <<logs, dialled, sms, crm, events, ghost>>

\* An intermediate callback writes the status it carries; COMMIT.
Advance(w) ==
    /\ pc[w] = "updating"
    /\ Kind[task[w]] = "progress"
    /\ Free(w, CallOf(w))
    /\ status' = [status EXCEPT ![CallOf(w)] = "open"]
    /\ CommitRow(w)
    /\ UNCHANGED <<logs, consents, ref, dialled, sms, crm, events, ghost>>

\* Mutant: the call is not locked before the probe (the UPDATE comes after it).
FinaliseUnlocked(w) ==
    /\ pc[w] = "updating"
    /\ Kind[task[w]] \in Terminals
    /\ Goto(w, "finalising")
    /\ UNCHANGED <<inbox, phone, sms, crm, events, ghost>>

\* A terminal callback: UPDATE of the call, which waits for the row's lock.
Finalise(w) ==
    /\ pc[w] = "updating"
    /\ Kind[task[w]] \in Terminals
    /\ LockAndGoto(w, CallOf(w), "finalising")
    /\ UNCHANGED <<inbox, phone, sms, crm, events, ghost>>

\* What the UPDATE has written; a message's url is the call's recording_ref.
Finalised(w) ==
    /\ status' = [status EXCEPT ![CallOf(w)] = "ended"]
    /\ ref' = IF Kind[task[w]] = "message" THEN [ref EXCEPT ![CallOf(w)] = "message"] ELSE ref

\* hasTerminalCallActivity; if there is one, COMMIT.
ProbeLogged(w) ==
    /\ pc[w] = "finalising"
    /\ IF logs[CallOf(w)] > 0
       THEN Finalised(w) /\ CommitRow(w)
       ELSE Goto(w, "logging") /\ UNCHANGED <<inbox, status, ref>>
    /\ UNCHANGED <<logs, consents, dialled, sms, crm, events, ghost>>

\* Mutant: recordActivity does not look at the lead's deleted_at.
LogCallOfAnyLead(w) ==
    /\ pc[w] = "logging"
    /\ Free(w, LeadOf(w))
    /\ logs' = [logs EXCEPT ![CallOf(w)] = @ + 1]
    /\ Finalised(w)
    /\ CommitRow(w)
    /\ UNCHANGED <<consents, dialled, sms, crm, events, ghost>>

\* recordActivity of the call; COMMIT.
LogCall(w) ==
    /\ pc[w] = "logging"
    /\ Free(w, LeadOf(w))
    /\ IF LeadOf(w) \in deleted
       THEN Rollback(w)
       ELSE /\ logs' = [logs EXCEPT ![CallOf(w)] = @ + 1]
            /\ Finalised(w)
            /\ CommitRow(w)
            /\ UNCHANGED <<consents, dialled, sms, crm, events, ghost>>

-----------------------------------------------------------------------------
(* processSms *)

\* resolveContactByPhone of the sender: an ordinary sms needs one, a STOP does not.
ReadSender(w) ==
    /\ pc[w] = "claimed"
    /\ LET found == Resolves(NumberOf(task[w]))
       IN  \/ /\ Kind[task[w]] = "text"
              /\ ~found
              /\ CommitRow(w)
           \/ /\ found \/ Kind[task[w]] = "stop"
              /\ Kind[task[w]] \in {"text", "stop"}
              /\ matched' = [matched EXCEPT ![w] = found]
              /\ pc' = [pc EXCEPT ![w] = IF Kind[task[w]] = "stop" THEN "suppressing" ELSE "texting"]
              /\ UNCHANGED <<inbox, task, todo, holds>>
    /\ UNCHANGED <<phone, sms, crm, events, ghost>>

\* Mutant: a released suppression counts as one.
LookUpAnySuppression(w) ==
    /\ pc[w] = "suppressing"
    /\ Goto(w, IF suppression[NumberOf(task[w])] = "never" THEN "inserting" ELSE "texting")
    /\ UNCHANGED <<inbox, phone, sms, crm, events, ghost>>

\* addPhoneSuppression: SELECT.
LookUpSuppression(w) ==
    /\ pc[w] = "suppressing"
    /\ Goto(w, CASE suppression[NumberOf(task[w])] = "never"    -> "inserting"
                 [] suppression[NumberOf(task[w])] = "released" -> "reactivating"
                 [] suppression[NumberOf(task[w])] = "active"   -> "texting")
    /\ UNCHANGED <<inbox, phone, sms, crm, events, ghost>>

\* A plain INSERT: the unique index lets one of two succeed, the other throws.
InsertSuppression(w) ==
    /\ pc[w] = "inserting"
    /\ IF suppression[NumberOf(task[w])] = "never"
       THEN /\ LockAndGoto(w, NumberOf(task[w]), "texting")
            /\ UNCHANGED <<inbox, phone, sms, crm, events, ghost>>
       ELSE Rollback(w)

ReactivateSuppression(w) ==
    /\ pc[w] = "reactivating"
    /\ LockAndGoto(w, NumberOf(task[w]), "texting")
    /\ UNCHANGED <<inbox, phone, sms, crm, events, ghost>>

\* COMMIT of a STOP: what it locked it has suppressed; the confirmation is next.
CommitStop(w) ==
    /\ suppression' =
          [n \in Numbers |-> IF n \in holds[w] THEN "active" ELSE suppression[n]]
    /\ done' = done \cup {task[w]}
    /\ pc' = [pc EXCEPT ![w] = "confirming"]
    /\ holds' = [holds EXCEPT ![w] = {}]
    /\ UNCHANGED <<rank, woken, task, todo, matched>>

\* recordActivity of the sms, if it has a lead; COMMIT.
RecordText(w) ==
    /\ pc[w] = "texting"
    /\ matched[w] => Free(w, LeadOf(w))
    /\ IF matched[w] /\ LeadOf(w) \in deleted
       THEN Rollback(w)
       ELSE /\ texts' = [texts EXCEPT ![task[w]] = IF matched[w] THEN @ + 1 ELSE @]
            /\ \/ Kind[task[w]] = "stop" /\ CommitStop(w)
               \/ Kind[task[w]] = "text" /\ CommitRow(w) /\ UNCHANGED suppression
            /\ UNCHANGED <<confirmed, phone, crm, events, ghost>>

\* The courtesy sms; a failure is swallowed.
Confirm(w) ==
    /\ pc[w] = "confirming"
    /\ \/ confirmed' = [confirmed EXCEPT ![task[w]] = @ + 1]
       \/ UNCHANGED confirmed
    /\ pc' = [pc EXCEPT ![w] = "next"]
    /\ task' = [task EXCEPT ![w] = NoTask]
    /\ UNCHANGED <<inbox, phone, texts, suppression, crm, todo, matched, holds, events, ghost>>

-----------------------------------------------------------------------------
(* Reps and administrators *)

\* dialCall: the rails passed and the provider took the call.
Dial(c) ==
    /\ c \in Outbound
    /\ dialled[c] = "no"
    /\ OwnerOf[PartyOf[c]] \notin deleted
    /\ suppression[PartyOf[c]] # "active"
    /\ dialled' = [dialled EXCEPT ![c] = "placed"]
    /\ UNCHANGED <<inbox, status, logs, consents, ref, sms, crm, actor, events, ghost>>

\* dialCall: a plain INSERT, which throws if a callback has made the row.
InsertDialled(c) ==
    /\ dialled[c] = "placed"
    /\ IF status[c] = "none"
       THEN /\ \A a \in Actors : c \notin holds[a]
            /\ status' = [status EXCEPT ![c] = "open"]
            /\ dialled' = [dialled EXCEPT ![c] = "recorded"]
       ELSE /\ dialled' = [dialled EXCEPT ![c] = "failed"]
            /\ UNCHANGED status
    /\ UNCHANGED <<inbox, logs, consents, ref, sms, crm, actor, events, ghost>>

\* dropVoicemailOnCall: not finalised yet, and the provider plays the voicemail.
DropVoicemail(r, c) ==
    /\ Happens
    /\ pc[r] = "idle"
    /\ c \in Outbound
    /\ status[c] # "none"
    /\ logs[c] = 0
    /\ task' = [task EXCEPT ![r] = c]
    /\ pc' = [pc EXCEPT ![r] = "checking"]
    /\ UNCHANGED <<inbox, phone, sms, crm, todo, matched, holds, ghost>>

\* "Re-check inside the txn"
RecheckLogged(r) ==
    /\ pc[r] = "checking"
    /\ IF logs[CallOf(r)] > 0
       THEN Rollback(r)
       ELSE /\ Goto(r, "overwriting")
            /\ UNCHANGED <<inbox, phone, sms, crm, events, ghost>>

OverwriteCall(r) ==
    /\ pc[r] = "overwriting"
    /\ LockAndGoto(r, CallOf(r), "noting")
    /\ UNCHANGED <<inbox, phone, sms, crm, events, ghost>>

\* recordActivity of the drop; COMMIT.  The asset that was played is the call's ref.
RecordDrop(r) ==
    /\ pc[r] = "noting"
    /\ Free(r, LeadOf(r))
    /\ IF LeadOf(r) \in deleted
       THEN Rollback(r)
       ELSE /\ logs' = [logs EXCEPT ![CallOf(r)] = @ + 1]
            /\ status' = [status EXCEPT ![CallOf(r)] = "ended"]
            /\ ref' = [ref EXCEPT ![CallOf(r)] = "drop"]
            /\ dropped' = dropped \cup {CallOf(r)}
            /\ GiveUp(r)
            /\ UNCHANGED <<inbox, consents, dialled, sms, crm, events, pardoned, crowded>>

\* softDeleteLead
DeleteLead(l) ==
    /\ Happens
    /\ l \notin deleted
    /\ \A a \in Actors : l \notin holds[a]
    /\ deleted' = deleted \cup {l}
    /\ UNCHANGED <<inbox, phone, sms, known, actor, ghost>>

\* A contact loses the number, or one of its lead gets it.
EditContact(n) ==
    /\ Happens
    /\ known' = IF n \in known THEN known \ {n} ELSE known \cup {n}
    /\ UNCHANGED <<inbox, phone, sms, deleted, actor, ghost>>

\* releaseSuppression.  It also takes back a STOP that has seen the number
\* suppressed and not committed.
Release(n) ==
    /\ Happens
    /\ suppression[n] = "active"
    /\ \A a \in Actors : n \notin holds[a]
    /\ suppression' = [suppression EXCEPT ![n] = "released"]
    /\ pardoned' = pardoned \cup
          {e \in Events : /\ Kind[e] = "stop"
                          /\ Subject[e] = n
                          /\ e \in done \/ \E w \in Workers : task[w] = e /\ pc[w] = "texting"}
    /\ UNCHANGED <<inbox, phone, texts, confirmed, crm, actor, dropped, crowded>>

-----------------------------------------------------------------------------
(* Failures *)

\* A statement throws, or the process stops.
Fail(a) ==
    /\ Happens
    /\ pc[a] # "idle"
    /\ GiveUp(a)
    /\ UNCHANGED <<inbox, phone, sms, crm, ghost>>

\* What the next statement of an actor locks.
Wants(a) ==
    CASE pc[a] \in {"consenting", "logging", "noting"} -> {LeadOf(a)}
      [] pc[a] = "texting" /\ matched[a] -> {LeadOf(a)}
      [] pc[a] \in {"updating", "overwriting"} -> {CallOf(a)}
      [] pc[a] = "attaching" /\ Kind[task[a]] = "recorded" -> {CallOf(a)}
      [] OTHER -> {}

Waits(a, b) == a # b /\ Wants(a) \cap holds[b] # {}

\* Postgres ends a cycle of waits by failing one of its transactions.
Abort(a) ==
    /\ \E C \in SUBSET Actors :
          /\ a \in C
          /\ \A b \in C : \E c \in C : Waits(b, c)
    /\ Rollback(a)

-----------------------------------------------------------------------------
(* Specification *)

Init ==
    /\ rank = [e \in Events |-> 0]
    /\ done = {}
    /\ woken = {}
    /\ status = [c \in Calls |-> "none"]
    /\ logs = [c \in Calls |-> 0]
    /\ consents = [c \in Calls |-> 0]
    /\ ref = [c \in Calls |-> "none"]
    /\ dialled = [c \in Calls |-> "no"]
    /\ texts = [e \in Events |-> 0]
    /\ confirmed = [e \in Events |-> 0]
    /\ suppression = [n \in Numbers |-> "never"]
    /\ known = Numbers
    /\ deleted = {}
    /\ pc = [a \in Actors |-> "idle"]
    /\ task = [a \in Actors |-> NoTask]
    /\ todo = [a \in Actors |-> {}]
    /\ matched = [a \in Actors |-> FALSE]
    /\ holds = [a \in Actors |-> {}]
    /\ events = 0
    /\ dropped = {}
    /\ pardoned = {}
    /\ crowded = {}

Status(w) ==
    \/ LoadCall(w) \/ NoContact(w) \/ CreateCall(w)
    \/ ProbeConsent(w) \/ RecordConsent(w) \/ AttachRecording(w)
    \/ Advance(w) \/ Finalise(w) \/ ProbeLogged(w) \/ LogCall(w)

Sms(w) ==
    \/ ReadSender(w) \/ LookUpSuppression(w) \/ InsertSuppression(w)
    \/ ReactivateSuppression(w) \/ RecordText(w) \/ Confirm(w)

Process(w) == Claim(w) \/ Finish(w) \/ PassVoice(w) \/ Status(w) \/ Sms(w)

Drop(r) == RecheckLogged(r) \/ OverwriteCall(r) \/ RecordDrop(r)

Next ==
    \/ \E e \in Events : Deliver(e)
    \/ \E w \in Workers, e \in Events : Wake(w, e)
    \/ \E w \in Workers : Sweep(w) \/ Process(w)
    \/ \E r \in Reps, c \in Calls : DropVoicemail(r, c)
    \/ \E r \in Reps : Drop(r)
    \/ \E c \in Calls : Dial(c) \/ InsertDialled(c)
    \/ \E l \in Leads : DeleteLead(l)
    \/ \E n \in Numbers : EditContact(n) \/ Release(n)
    \/ \E a \in Actors : Fail(a) \/ Abort(a)

Spec == Init /\ [][Next]_vars

\* The 15 s timer fires, statements return, Postgres finds deadlocks, and it grants
\* a lock to who waits for it before a transaction that starts later gets it.
Fairness ==
    /\ WF_vars(\E w \in Workers : Sweep(w))
    /\ \A w \in Workers : SF_vars(Process(w))
    /\ \A r \in Reps : SF_vars(Drop(r))
    /\ \A a \in Actors : WF_vars(Abort(a))

FairSpec == Spec /\ Fairness

-----------------------------------------------------------------------------
(* Properties *)

(* Every variable has its type, and an actor in the middle of something has a *)
(* row, or in a rep's case a call, to work on.                               *)
TypeOK ==
    /\ rank \in [Events -> Nat]
    /\ done \subseteq Events
    /\ woken \subseteq Events
    /\ status \in [Calls -> {"none", "open", "ended"}]
    /\ logs \in [Calls -> Nat]
    /\ consents \in [Calls -> Nat]
    /\ ref \in [Calls -> {"none", "recording", "message", "drop"}]
    /\ dialled \in [Calls -> {"no", "placed", "recorded", "failed"}]
    /\ texts \in [Events -> Nat]
    /\ confirmed \in [Events -> Nat]
    /\ suppression \in [Numbers -> {"never", "active", "released"}]
    /\ known \subseteq Numbers
    /\ deleted \subseteq Leads
    /\ pc \in [Actors -> PCs]
    /\ task \in [Actors -> Events \cup Calls \cup {NoTask}]
    /\ \A w \in Workers : pc[w] \notin {"idle", "next"} => task[w] \in Events
    /\ \A r \in Reps : pc[r] # "idle" => task[r] \in Calls
    /\ todo \in [Actors -> SUBSET Events]
    /\ matched \in [Actors -> BOOLEAN]
    /\ holds \in [Actors -> SUBSET (Events \cup Calls \cup Numbers \cup Leads)]
    /\ events \in 0 .. MaxEvents
    /\ dropped \subseteq Calls
    /\ pardoned \subseteq Events
    /\ crowded \subseteq Calls

(* "the ONE that emits a call activity -- guarded additionally by an          *)
(* existence check": however many terminal callbacks a call gets, and however *)
(* they are processed, the timeline has one entry of it, and it has one as   *)
(* soon as the call is over.  A rep's voicemail drop is another writer: see  *)
(* DropIsTheOnlyEntry.                                                       *)
OneEntryPerCall ==
    \A c \in Calls \ dropped :
        /\ logs[c] <= 1
        /\ status[c] = "ended" => logs[c] = 1

(* "replaying any webhook is a no-op": a stored sms gives one timeline entry  *)
(* and one confirmation at most, both only with the row marked processed, so *)
(* that a crash at any point neither repeats nor invents them.               *)
SmsExactlyOnce ==
    \A e \in Events :
        /\ texts[e] <= 1 /\ confirmed[e] <= 1
        /\ texts[e] + confirmed[e] > 0 => e \in done

(* I-QUIET, "suppress the number GLOBALLY": once a STOP's row is processed,   *)
(* with or without a contact, its number is suppressed until an admin        *)
(* releases it after that STOP; an earlier release does not count.           *)
StopIsHonoured ==
    \A e \in done : Kind[e] = "stop" => suppression[Subject[e]] = "active" \/ e \in pardoned

(* I-REC, "A recording ref may exist on a call ONLY if" there is a consent    *)
(* marker, whichever callback is processed first, whatever rolls back and    *)
(* whoever writes the ref last.  Two refs the code writes without one: the   *)
(* url of a message left with an inbound machine and the asset that a drop   *)
(* played, and either only together with the call's entry in the timeline.   *)
ConsentBeforeRecording ==
    \A c \in Calls : ref[c] # "none" =>
        \/ consents[c] > 0
        \/ ref[c] = "message" /\ c \notin Outbound /\ logs[c] > 0
        \/ ref[c] = "drop" /\ c \in dropped

\* A late intermediate callback is all that takes back a finished call's status: replays,
\* recordings, drops and dials that race with the end of the call leave it over, and no
\* step makes the call new again.
OnlyProgressReopens ==
    [][\A c \in Calls :
          (status[c] = "ended" /\ status'[c] # "ended") =>
              /\ status'[c] = "open"
              /\ \E e \in done' \ done : Kind[e] = "progress" /\ Subject[e] = c]_vars

\* Its row throws whenever it is processed: the call's lead is gone.
Poisonous(e) ==
    /\ \/ Kind[e] \in Terminals /\ logs[Subject[e]] = 0
       \/ Kind[e] \in Recordings /\ consents[Subject[e]] = 0
    /\ status[Subject[e]] # "none"
    /\ OwnerOf[PartyOf[Subject[e]]] \in deleted

RowIsProcessed(k) == \E e \in done : rank[e] = k

(* The sweeper processes every stored row in the end, through overlapping     *)
(* sweeps, lost wake-ups, failures and deadlocks between the transactions of *)
(* one call -- as long as no row it comes to belongs to a deleted lead.      *)
ProcessedUnlessPoisoned ==
    \A k \in 1 .. MaxRows :
        Cardinality(Stored) >= k ~> RowIsProcessed(k) \/ \E f \in Unprocessed : Poisonous(f)

(* "Re-check inside the txn to close the drop-vs-terminal race": a voicemail  *)
(* drop and a terminal callback leave one entry between them.                *)
DropIsTheOnlyEntry == \A c \in Calls : logs[c] <= 1

(* The inbox implements its serial specification: sweeps, jobs and reps that  *)
(* overlap leave what the callbacks would have left one after the other, each *)
(* processed once and as a whole, and nothing is recorded of a deleted lead.  *)
(* "Record the consent marker once" is so for all calls but the crowded ones: *)
(* two recording callbacks that look for a marker at once both write theirs.  *)
Serial == INSTANCE SerialInbox WITH stored <- Stored, marks <- consents

ImplementsSerialInbox == Serial!Spec

=============================================================================
