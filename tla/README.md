# Switchboard in TLA+

Switchboard is a CRM whose API process (`apps/api`) stores leads, contacts and their timeline in Postgres, sends
e-mail and sms **sequences** on their own schedule, ingests what comes back (mail, Twilio callbacks, bounces,
unsubscribes) and fans events out to webhooks. This directory models the parts of it where several actors touch the
same rows: what must hold there depends on the order of statements in transactions, on row locks, on crashes, and on
wake-ups that come late or twice.

All paths below are relative to `src/apps/api/src/` unless they say otherwise.

## 1. The system

### 1.1 Components, their state, their operations

| Component | State | Operations | Talks to |
|---|---|---|---|
| Send engine `services/sequences/{dispatch,enrollment,window,sms-window}.ts` | `sequence_enrollments` (active, paused, finished), `send_intents` (SCHEDULED, AWAITING_REVIEW, CLAIMED, SENT, SKIPPED, BLOCKED, FAILED, FAILED_TIMEOUT), `email_accounts.daily_send_count/date` | enroll; claim (one transaction with every rail); provider call; record (second transaction); call-task steps; deferral | providers, activity writer, queue |
| Pauses, suppression, unsubscribe `services/sequences/{pause,suppression,unsubscribe}.ts` | enrollments, `suppressions` | pause on reply / bounce; unsubscribe link and mailbox; probe | ingest, activity writer |
| Sweeper `services/sequences/sweeper.ts` | - | wake due intents, expire stale claims, recover RESYNC accounts | queue, sync |
| Review inbox `services/inbox/review.ts` | intents AWAITING_REVIEW | approve (back to SCHEDULED, due now), skip | queue |
| Wake-up queue `queue/*.ts`, `services/sequences/{worker,job-names}.ts`, `main.ts` | BullMQ jobs by id: delayed, waiting, active, failed (the last 5000); completed ones are removed | enqueue (no-op for a known id), process, 15 s sweeps | every engine below |
| Outbound webhooks `services/webhooks/*.ts` | `webhook_deliveries` (pending, delivered, failed; attempts; next_retry_at), `webhook_subscriptions` | stage rows in the domain transaction, flush, sweep, deliver with backoff, dead-letter, (de)activate, delete | queue, subscriber |
| Twilio ingress and inbox `services/telephony/{ingress,process,worker,routing}.ts` | `webhook_inbox` (processed_at), `calls`, `sms_messages` | persist with dedupe, claim and process a row, opt-out | queue, activity writer |
| Dialer `services/telephony/{dialer,dial}.ts` | `calls`; the queue is a smart view's query | dial; advance (skips members who may not be called, one live call per rep); voicemail drop | telephony provider, activity writer |
| Recording `services/telephony/recording.ts` | `calls.recording_ref`, consent rules | consent gate | provider |
| E-mail sync `services/sync/{linking,state,backfill,incremental,ingest,matcher,webhook,engine-deps}.ts` | `email_accounts.sync_status` (UNLINKED, AUTHORIZING, BACKFILLING, LIVE, DEGRADED, RESYNC, REAUTH_REQUIRED), `history_cursor`, `backfill_checkpoint`; `webhook_inbox` | link, backfill by page, pull from the cursor, store and process pushes, recover RESYNC | gmail provider, threading |
| Threading, matching, triage `services/sync/ingest.ts`, `services/email/{threading,matching,triage,activities}.ts` | `email_threads.triage_status` (none, ambiguous, matched, ignored) and lead, `email_messages.thread_id` | ingest: insert, link, merge, match, entries; a rep resolves or ignores a thread | activity writer |
| One-off sends `services/{email,sms}/send.ts`, `services/telephony/dial.ts`, `services/compliance/dnc.ts` | `email_messages` by Message-ID, `sms_messages` by sid, `calls` | rails, lookup by idempotency key, provider call, rows and entry | providers, activity writer |
| CSV import `services/imports/*.ts` | `imports` (uploaded, dry_run, committing, committed, failed), its `dry_run_result` (the plan) and `result` (checkpoint, counters) | map, dry run, commit by batch, resume | activity writer |
| API tokens and rate limit `services/tokens/*.ts` | hashes, fixed windows in memory | verify, count | HTTP |
| Activity writer `services/activity/writer.ts` | `activities`, `leads.last_*` | insert and denormalise in the caller's transaction; throws for a soft-deleted lead | webhooks |
| Pipeline board, web client `apps/web/src/features/pipeline`, `services/opportunities/service.ts` | per browser, one cached list of all deals; `opportunities.stage_id`, their stage-change entries | fetch all pages; optimistic move, confirm, roll back; PATCH under a row lock | activity writer |
| CRUD: leads, contacts, tasks, notes, opportunities, templates, sequences, settings, audit, tokens | one table each | single-row transactions | audit |
| Smart views, search, reports, export, AI helpers | none of their own | pure compilers, queries | - |
| Auth, routes, server, observability, other views of the web client, CLI, seeds | signed cookies; none shared | validation, delegation | - |

### 1.2 How they interact

Postgres is the truth, Redis is a hint. A transaction commits rows and, after it, enqueues a job by an id derived
from the row; the job's processor re-reads the row and decides again. Every 15 s a timer in the same process
re-enqueues what the rows say is due. Replies, bounces and unsubscribes reach the send engine only through rows:
they lock and pause enrollments, which the claim and the recording transaction lock too.

### 1.3 Where it is hard

* **Claim against pause.** Between the claim's first UPDATE and its COMMIT, a reply or an unsubscribe may commit.
  Only `SELECT ... FOR UPDATE` on the enrollment orders them.
* **Call outside the transaction.** While `provider.send` runs the claim is visible, the enrollment is not locked,
  the process may die and the sweeper may give up on it.
* **Probe without a lock.** The suppression probe, the clock and the DNC flags are read, not locked.
* **Counters by date.** The daily cap compares a stored date with a clock read earlier.
* **Wake-ups by id.** A job id that is still known (active, failed) swallows a new wake-up.
* **At-least-once input.** Twilio callbacks arrive late, twice and out of order; sweeps and queue jobs process them
  at the same time, and reps write the same calls.
* **A cursor read beside its list.** Gmail's history id is asked for after the page it is stored with, and mail
  arrives in between; two walks of one mailbox write one checkpoint.
* **Threads in motion.** Ingests link and merge threads that reps are deciding on and other ingests are filling.
* **A key looked up before the call.** One-off sends read their rails and their idempotency key long before the
  provider answers, and clients repeat.
* **A cache ahead of its server.** The board shows a move before the server has it; fetches, answers and rollbacks of
  other moves arrive in any order.
* **A plan replayed.** Dry runs and commits of one import run side by side, die between batches and are repeated.

`PROJECT.json` lists each of these under `hazards`, at its line, with the properties that cover it, or with the reason
why none does: in most of these the code does what one would rule out.

## 2. The modules

| Module | What it is |
|---|---|
| `SendOnce` | The abstract promise of the engine for an intent: one call at most, only under a committed claim, SENT only after the call, and no outcome rewritten. |
| `SendDispatch` | The engine with workers, pauses, unsubscribes, reviews, administrators, crashes and the expiry sweep. Implements `SendOnce`. |
| `MCSendDispatch` | Casts (leads, contacts, steps, mailboxes, workers) for TLC. |
| `SendDispatch_proofs` | The inductive invariant and the theorems about `SendDispatch`. |
| `JobQueue` | BullMQ as `queue/index.ts` configures it: what the queue knows of each job id. Operators only; the components that use the queue instantiate it. |
| `EventDelivery` | The abstract promise of the webhooks for an event: staged with its domain transaction, POSTed no more often than attempts allow, delivered only if the subscriber took it, given up only when the attempts are used up or the subscription is gone, and no outcome rewritten. No jobs, workers, sweeps or retries. |
| `WebhookDelivery` | Outbound webhooks on top of `JobQueue`: outbox, flush, sweep, processor, backoff, subscriptions, failures. Implements `EventDelivery`. |
| `MCWebhookDelivery` | One delivery of one subscription for TLC. |
| `WebhookDelivery_proofs` | The inductive invariant and the theorems about `WebhookDelivery`. |
| `SerialInbox` | The abstract promise of the telephony inbox: each callback processed once, as a whole, one after the other. No workers, sweeps, wake-ups, locks or transactions. |
| `TwilioInbox` | Twilio's callbacks from the ingress to calls, suppressions and timeline, with `dialCall`'s insert and the voicemail drop as the other writers of a call. Implements `SerialInbox`. |
| `MCTwilioInbox` | One lead with a number, two calls and ten callbacks for TLC. |
| `TwilioInbox_proofs` | The inductive invariant and the theorems about `TwilioInbox`. |
| `EmailSync` | One linked mailbox: the status machine, the backfill with its checkpoint, the pull from the cursor, pushes, recovery. |
| `MCEmailSync` | Two workers for TLC. |
| `EmailSync_proofs` | The inductive invariant and the theorems about `EmailSync`. |
| `Conversations` | The abstract promise of threading and triage: a message joins once, with all it brings together; conversations only grow; a matched one is on its live lead's timeline from the same moment on. No transactions, locks, workers or reps. |
| `MailThreads` | What becomes of a message once it is fetched: stored, linked, merged, matched, on the timeline; and the triage queue. Implements `Conversations`. |
| `MCMailThreads` | Five messages, two of which bridge threads that have one in common, for TLC. |
| `MailThreads_proofs` | The inductive invariant and the theorems about `MailThreads`. |
| `Outreach` | One-off e-mails, texts and dialled calls: rails, idempotency, provider, rows. |
| `MCOutreach` | Seven requests, retries among them, for TLC. |
| `Outreach_proofs` | The inductive invariant and the theorems about `Outreach`. |
| `ImportRun` | One CSV import: dry runs and commits, batches, checkpoints, failures. |
| `MCImportRun` | A file of four rows for TLC. |
| `ImportRun_proofs` | The inductive invariant and the theorems about `ImportRun`. |
| `PipelineBoard` | The web client's pipeline board, its optimistic moves and fetches, over the server's opportunities. |
| `MCPipelineBoard` | Two boards, two deals, three moves for TLC. |
| `PipelineBoard_proofs` | The inductive invariant and the theorems about `PipelineBoard`. |

### 2.1 SendDispatch and the code

A database transaction is modelled as the sequence of its statements that read or lock what another actor may
change. The committed rows are the variables; what a transaction has written and not committed is a worker's control
point `pc` together with the locks it implies (`IntentLocked`, `EnrollmentLocked`). READ COMMITTED is taken
literally: each step reads the committed state of the moment.

| `pc` | where the worker is in `dispatch.ts` | holds |
|---|---|---|
| `idle` | no job | - |
| `claiming` | after `UPDATE ... SET state='CLAIMED' WHERE state='SCHEDULED' AND due_at<=now` | the intent row |
| `guarding` | enrollment locked and active | and the enrollment row |
| `vetted` | condition, missing data, DNC passed | the same |
| `cleared` | suppression and window passed | the same |
| `calling` | claim committed; next `provider.send`, or `providerFor` or `decrypt` throws before it (`FailBeforeCall`) | nothing |
| `delivered`, `undelivered` | the provider answered | nothing |

The mailbox row is locked, counted and committed in one step (`CommitEmailClaim`, `LeaveMailbox`): its lock is taken
last and nothing of another actor is read after it, so the lock needs no state of its own. The recording transaction
(`Record`) likewise locks one enrollment and writes; it is one step that waits for the lock. `applyUnsubscribe` is
two steps: it finds contacts and enrollments from one snapshot (`ApplyUnsubscribe`) and later locks, pauses and
commits (`CommitUnsubscribe`); the suppression it inserted is invisible to others in between, and so is an
enrollment made in between to it. `approveReview` is two steps as well: its SELECT and checks (`StartApproval`),
then its UPDATE. Throws are modelled by what they roll back: `recordActivity` of a soft-deleted
lead undoes the recording, the pause or the unsubscribe it is part of.

Abstractions. Addresses, steps, mailboxes and templates of the cast do not change while a run lasts; intents that
lack one of them are the set `Unsendable`. The sending window and the sms quiet hours are a set of open ticks of a
day (`OpenTicks`), and `UntilOpen` is the distance to the next of them. Rendering, headers, tracking, audit rows and
webhook staging are left out. `Happens` counts outside events so that their number is bounded; it is part of the
environment, not of the engine. `claimsOn` and `turns` are history: the claims of a mailbox that carry a day's
clock, and how often a worker's clock has set its counter back to a day that is over. A deadlock between row locks
of different tables is excluded here (see 5, `DispatchLocks`).

### 2.2 WebhookDelivery and the code

`stage` inserts the row in the domain transaction (`staged`: nobody else sees it), which commits (`pending`) or
rolls back (`aborted`). `flush` comes after - but `recordActivity` flushes when *its* transaction ends, and inside a
caller's transaction that is a savepoint, so `Flush` may come before `Commit`; the job then finds no row and
completes. The sweep is two steps, a SELECT and one enqueue per selected row. `processDelivery` (`delivery.ts`) uses
no transaction: every statement commits by itself.

| `pc` | where the worker is in `delivery.ts` |
|---|---|
| `idle` | no job |
| `reading` | the job is active, the row is not read yet |
| `retiring` | the subscription was inactive: `markTerminal(failed)` comes next |
| `posting` | a pending row of an active subscription was read; the POST comes next |
| `accepted`, `refused` | the subscriber answered 2xx, or something else, or not at all |
| `requeueing` | the retry is recorded; `queue.enqueue` comes next |
| `leaving` | the processor returns, BullMQ completes and removes the job |

`held` says whether the worker still owns its job's lock. A crash, or a lost lock, leaves the job active until the
stall check gives it to another worker once and fails it the second time (`maxStalledCount` is BullMQ's default). An
exception fails the job; the failed job, and its id, stays among the last 5000. Time is abstracted to `ripe`, the
rows whose `next_retry_at` has passed. `posts`, `accepted`, `lost` and `overlapped` are history: no action reads
them. The payload, the signature and the SSRF check are data; a POST that the check refuses is one that was not
accepted.

### 2.3 TwilioInbox and the code

An actor is a worker (a sweep, or a queue job, which is a sweep of one row) or a rep. Its transaction is the
sequence of its statements that read what others write or lock a row. `holds` is the set of rows it has locked; a
row that another actor holds makes `LockAndGoto`, and the final step of a transaction, wait. What a transaction
wrote becomes visible in its last step, which commits (`CommitRow`, `CommitStop`, or in `RecordDrop`).

| `pc` | where the actor is | statement that comes next |
|---|---|---|
| `next` | `processPendingTwilioWebhooks`' loop | claim of the oldest selected row |
| `claimed` | row locked, `processed_at` written | SELECT of the call, or of the sender's contact |
| `resolving` | no call row | contact by phone, INSERT of the call |
| `probing`, `consenting`, `attaching` | a recording callback | marker SELECT; `recordActivity`; UPDATE of the ref and COMMIT |
| `updating` | a status callback | UPDATE of the call (intermediate: and COMMIT) |
| `finalising`, `logging` | terminal, call locked | entry SELECT; `recordActivity` and COMMIT |
| `suppressing`, `inserting`, `reactivating` | a STOP | suppression SELECT; INSERT; UPDATE of a released row |
| `texting` | any sms | `recordActivity` and COMMIT |
| `confirming` | after a STOP's COMMIT | `provider.sendSms` |
| `checking`, `overwriting`, `noting` | a rep in `dropVoicemailOnCall` after the provider played it | entry SELECT; UPDATE of the call; `recordActivity` and COMMIT |

`recordActivity` locks the lead by updating it and throws when it is soft-deleted; so do a unique violation
(`InsertSuppression`, `InsertDialled`) and any failure (`Fail`). A throw rolls the transaction back and leaves the
sweep's loop, which has no `catch` (`GiveUp`). Postgres ends a deadlock by failing one of its transactions
(`Abort`); the terminal callback (call, then lead) and the completed recording (lead, then call) can have one.

A row's wake-up is in `woken` from its delivery until a worker takes it; one that the queue refuses or loses is one
that no worker ever takes, since nothing makes `Wake` happen. `Kind` says what `parseTwilioWebhook` and
`classifyTerminal` make of a callback: the different terminal statuses, durations and voicemails differ only in
data - except the voicemail that a caller leaves (`message`), whose url the terminal UPDATE writes. `ref` is
`calls.recording_ref` by its writer: a recording callback, such a message, or the asset of a voicemail drop. `Bare`
callbacks lack the other end's number. The `sms_messages` row, phone keys, DNC flags and TwiML are left out.
`dropped`, `pardoned` and `crowded` are history: which calls have a committed voicemail drop, which STOPs an
administrator has taken back, and calls of which two recording callbacks looked for a marker at once.

### 2.4 EmailSync and the code

One row of `email_accounts`, the mailbox behind it, and workers: the OAuth callback's backfill, the pull of a push,
the recovery sweep. What the provider answers and what a transaction commits are separate steps; a throw or a crash
ends the worker and leaves what is committed.

| `pc` | where the worker is | what comes next |
|---|---|---|
| `loading` | `runBackfill` | SELECT of the checkpoint |
| `listing`, `profiling` | `listMessages` | the list; then `getProfile`, whose history id goes with the page |
| `committing` | `backfill.ts` | one transaction: ingest of the page, checkpoint - or, after the last page, cursor and LIVE |
| `starting` | `incrementalPull` | SELECT of status and cursor |
| `pulling` | | `history.list` from that cursor |
| `applying` | | one transaction: ingest of the page, cursor; more pages, or the end |
| `expiring` | history too old | LIVE to RESYNC, then a backfill |
| `stamping` | `processGmailInboxRow` | `processed_at` |

A message is the history id that added it, so "arrived later" and "has a higher number" are the same; deleting it is
an event of its own. A page is any prefix of what is left of the list, which stands for every page size. The adapter
is a constant: `Gmail` lists newest first and gives each history page the mailbox's current history id, also a page
that has a successor (`gmail-email-provider.ts:202`, 440); otherwise the list is oldest first and a page's id is the
highest it covers, which is the contract of `listHistory` and what the mock does. DEGRADED and REAUTH_REQUIRED are
in the table of legal transitions and nothing in `src/` sets them. `processGmailInboxRow` and
`recoverResyncAccounts` exist with their tests; `main.ts` wires neither, so nothing is assumed to run them. `late`,
`skipped`, `overlapped` and `dropped` are history: messages that arrived during a walk, or that a page's id put
behind the cursor unread; whether two backfills ran at once; and pushes found while the mailbox was not live.

### 2.5 MailThreads and the code

An ingest is one transaction in four steps, cut where it reads what others commit: `Link` (INSERT of the message,
which the unique index makes the only one; SELECT of related threads, or of a thread by subject), `Judge` (only if
there are several: SELECT of their statuses, and the verdict), `Gather` (threads merged, message assigned, members
read), `File` (UPDATE of the thread, match, entries, COMMIT). A worker at `gathered` holds the rows it merges, so
another that needs them waits. A thread that another merge took away after `Link` counts for nothing in `Judge`, and
`Gather` goes on without it, because its UPDATE and DELETE change no row; with a verdict it may have read while the
thread was there. `GatherFails` is the survivor gone (the foreign key), or the deadlock that Postgres breaks. A rep
reads a thread (`Open`) and decides later (`Resolve`, `Ignore`); owners of addresses change and leads are deleted at
any time.

Messages are numbered as they were sent, so a parent has a lower number whatever order they are ingested in. A
thread is named after the message that created it. `Mentions` stands for In-Reply-To and References, `SubjectOf` for
the normalised subject, `PeopleOf` for the participants without the mailbox itself. Provider thread ids, header
parsing and the queue's ranking are left out. `together` and `overtaken` are history: the pairs of messages
whose transactions overlapped, and messages that lost a linked thread before they got to it.

### 2.6 Outreach and the code

| `pc` | what was passed | what comes next |
|---|---|---|
| `new` | - | the request comes in |
| `busy` | - | a call only: the rep's live call |
| `lead`, `contact`, `destination`, `suppression` | the ones before it | lead's DNC and deletion; named contact's DNC; DNC of whoever owns an address; suppressions |
| `prior` | all rails | e-mail: lookup of the Message-ID; sms: quiet hours, and was the number texted before; call: nothing |
| `ready` | | the provider call |
| `accepted` | the provider took it | rows and entry, one transaction; a call's row |
| `over` | | - |

Each rail is a SELECT of its own. Blocks come and go, the client's connection or the process dies anywhere, the
provider's answer can get lost after the mail has left. Addresses stand for mail addresses and phone numbers.
`Dedupes` is the set of channels whose provider honours the idempotency key: Twilio's adapter sends it as a header
(`providers/telephony/twilio-telephony-provider.ts:248`); Gmail's `send` has nowhere to put it, so the only
protection is the lookup. `SyncSentCopy` is the sync that finds the message in the Sent folder and stores it under
the same Message-ID. Invalid input, templates and merge tags end a request before the rails and change nothing;
tracking and attachments are left out. A call whose row is there already, because a callback was faster, ends in an
error after the provider has dialled (`dial.ts:164`, `InsertCall`). Whether it is a quiet hour is anybody's guess.
`standing` (blocks in force ever since a request came in) and `known` (its message was stored by then) are history.

### 2.7 ImportRun and the code

A dry run reads the status (`checked`), plans against the CRM (`planned`) and stores the plan. A commit:

| `pc` | where the request is in `commit.ts` | what comes next |
|---|---|---|
| `idle` | | SELECT of the import, its plan and its checkpoint |
| `claiming` | a dry run's plan in hand | UPDATE to 'committing' if the status is still 'dry_run'; who comes second ends |
| `resuming` | plan and checkpoint of a committing import in hand | the checkpoint is written back under the default committer id, whatever has become of the import |
| `applying` | in a batch's transaction | the next row; or COMMIT with the checkpoint; or, after the last, 'committed' |
| `failing` | a batch was rolled back | status 'failed' with the checkpoint and the counters in memory; a failed import is planned again before it is committed again |

A lead's id is `<<plan, row>>`: the plan fixes the uuids, which is how a replay finds what an earlier attempt made.
`made` and `fills` are what the open batch has inserted and merged. Each row has one key - an e-mail address of no
company, or the domain of a URL - and every `matchOn` criterion is on; fuzzy name matching is left out, as are
parsing and column mapping. Others add leads with one of the file's keys at any time (`AddLead`, one for each of
`Rivals`) and delete leads; `addedAt` is history, how many plans were built before. `crowded` (two commits side by
side) and `overlapped` (a dry run beside a commit) are history.

### 2.8 PipelineBoard and the code

Each browser (`Boards`) has one query, whose cache is `seen` and whose fetch (`got`, `upTo`) reads the deals in the
order of their ids, page by page; others write between two pages. Each request is one `moveMutation`:

| `pc` | where the move is | what comes next |
|---|---|---|
| `new` | | `onMutate`: the fetch under way is cancelled, `prev` kept, the cache written; only microtasks lie between |
| `sent` | the PATCH is on its way | `SELECT ... FOR UPDATE`, which reads `from` |
| `locked` | in `patchOpportunity`'s transaction | UPDATE, entry, COMMIT; or `recordActivity` throws for a deleted lead |
| `applied`, `refused` | committed, or rolled back | - |
| `lost` | never arrived, or the server fell with it | - |

`client` says how far the board's mutation is: `none`, `waiting`, `failed` (its fetch has rejected) and `over`. The
two are independent: a connection that breaks (`LoseConnection`) tells the server nothing, which may still lock,
apply and commit what the board then rolls back (`RollBack`); or the request never gets there (`Vanish`).

A deal is its stage; `doMove` sends the status that follows from it, so `opportunity_closed` follows the stage's
entry and has none of its own here. Creating and deleting deals, the columns' totals, drag and keyboard are left
out. `foreign`, `fresh`, `upset` and `dirty` are history; `SettledBoardIsTrue` excepts with them what the code does
not promise.

## 3. What TLC checks

| Run | Question | Outcome |
|---|---|---|
| `contention` | Two workers, three intents of three kinds, two outside events anywhere: calls, finished enrollments, pauses, unsubscribes, and the refinement of `SendOnce` | pass |
| `rails` | Two workers, five steps of two contacts, two days with a closed tick, unlinked mailbox: every exit of the claim, and the claims of a day are the cap's but for counters set back over midnight | pass |
| `webhooks` | One event through outbox, queue, two workers and every disturbance: POSTs bounded, terminal rows final, the outbox honest, it settles or its job is in the failed tail, and the refinement of `EventDelivery` | pass |
| `inbox` | Any two of ten callbacks, two workers, a rep, one disturbance: one entry per call, each sms once, STOPs honoured, consent first, calls that are over stay so, and the refinement of `SerialInbox` | pass |
| `inbox_live` | Every stored row is processed, unless a row of a deleted lead is in the way | pass |
| `voicemail_drop` | "Re-check inside the txn to close the drop-vs-terminal race" | violated |
| `email_mailbox` | Backfills, pulls on Gmail's pages, pushes, expiry, deletions and crashes: the cursor is ahead of no stored mail but what Gmail's history ids skip, a checkpoint ends with its backfill, no push is stamped in vain | pass |
| `email_gap` | A push dropped while the mailbox is not LIVE loses nothing | violated |
| `threads` | Five messages of one subject with two bridges, in any order, two ingests, a rep, one change of contacts or leads or a crash: one entry each, matched threads complete, related mail together, matches stay, and the refinement of `Conversations` | pass |
| `outreach` | Any two of seven requests, three disturbances: nobody blocked is contacted, the timeline honest, no repeat of what is stored, opt-out language first | pass |
| `imports` | Two commits, a dry run, all three dedupe actions, a lead added or deleted by others, failures and crashes: leads made once, checkpoints true, counters true, no duplicates | pass |
| `board` | Two boards, two deals, three moves, two fetches, a broken connection, deleted leads: the trail of a deal is a chain that ends in its stage, a board whose moves are over shows the truth | pass |

The type invariants of `WebhookDelivery`, `TwilioInbox`, `MailThreads`, `Outreach`, `ImportRun` and `PipelineBoard`
are in no run: section 4 has their proofs.

The two violations are in `PROJECT.json` under `findings`, with the lines that say otherwise. More disagreements
were seen while modelling; they have no run of their own, and the properties above except exactly these cases:

* Sends. `expireStaleClaims` is called by nothing in `main.ts` (853 starts the sweeps), which ARCHITECTURE.md:92 has
  running: a claim whose worker died stays CLAIMED. The last intent of an enrollment finishes it only if it ends SENT
  (`dispatch.ts:577`; the comment at 185 says otherwise). A soft-deleted lead makes `recordActivity` throw and rolls
  the unsubscribe back with it, for every contact of that address (`unsubscribe.ts:126`, CONTRACTS.md:160). With two
  workers around midnight, the one whose clock was read on the old day sets the new day's counter back
  (`dispatch.ts:472`), so a mailbox may send more than its daily cap (CONTRACTS.md:159, I-SEND-4). A suppression that
  an administrator adds between the probe and the claim's COMMIT does not stop the send (`dispatch.ts:434` reads
  without a lock; CONTRACTS.md:158).
* Webhooks. A job that ended in the failed tail keeps its id, and the sweep's enqueue of that id is ignored
  (`queue/index.ts:51`; `fanout.ts:145` says nothing is lost). A retry is enqueued under the id of the job that is
  still running, which BullMQ ignores: only the 15 s sweep retries, whatever the backoff says (`delivery.ts:176`).
* Twilio. Two recording callbacks of a call that look for a consent marker at once both write one (`process.ts:538`,
  against "Record the consent marker once", 223). A `recording_ref` is written without a marker by the terminal
  callback of an inbound call, with the url of the message left (`process.ts:254`), and by a voicemail drop
  (`dialer.ts:378`), against `recording.ts:166`. A late intermediate callback reopens a call that is over
  (`process.ts:240`). A row that always throws ends every sweep before the rows behind it (`process.ts:189`,
  `worker.ts:9`). One live call per rep is an unlocked SELECT (`dialer.ts:273`; "enforced server-side", 30).
* E-mail. Gmail's adapter gives every history page the mailbox's current history id, also a page that has a successor
  (`gmail-email-provider.ts:202`, 440), and the pull commits it as the cursor and asks from there for the next page
  (`incremental.ts:104`): what was on the pages behind the first is never fetched. The contract (`incremental.ts:15`,
  `packages/shared/src/providers.ts:119`) has a page's id cover that page. Neither the worker that processes Gmail
  pushes nor the recovery of RESYNC mailboxes is started by `main.ts`, which ARCHITECTURE.md has running (104, 67).
  Two pulls from one cursor may move it back (`incremental.ts:19` calls it monotonic) - harmless, since ingest is
  idempotent. Two backfills at once leave a checkpoint on a LIVE mailbox, so the next RESYNC starts in the
  middle. A crash while BACKFILLING strands the mailbox, since recovery looks for RESYNC only; an abandoned
  AUTHORIZING cannot be started again.
* Threads. A message that bridges two threads, one of which another merge took away after it was found, changes no
  row of it and commits with the other (`threading.ts:188`): what it should have joined stays apart, against the
  order-independence that the comment at 152 claims. A merge decides on statuses read before it locked anything and
  can overwrite what a human has just decided (`threading.ts:149`, 159); a rep who opened a thread earlier re-points
  a match (`triage.ts:327`, against 22). Grouping by subject depends on the order of arrival (`threading.ts:17`). A
  deleted lead's matched thread makes each later page with its mail fail.
* One-off sends. A repeat that comes while the first send of its key is in flight is sent too: `findByRfc` runs
  before the provider call and nothing is stored until after it (`send.ts:657`, against "a repeat send
  short-circuits (no second provider call, ...)" at 45; the unique index only keeps the second row out).
  When storing throws after the provider took an e-mail, it is nowhere until the sync finds the sent
  copy.
* Imports. A dry run that read the status before a commit stores its plan over a committing or committed import
  (`engine.ts:134`, against the comment at 41). Under the default committer id the lease refuses nobody
  (`commit.ts:19`, 270, 296). The slower of two commits overwrites 'committed'. A failed import's counters include
  the rows that were rolled back (`commit.ts:395`). A deleted lead's contacts still match (`dedupe.ts:133`, against
  110), so the rows are merged into a lead that nobody sees. A lead that a rep or another import has added
  since the dry run gets a second one with its key beside it: the commit replays the plan and looks at ids only
  (`commit.ts:142`).
* Board. A failed move puts the whole list back, and with it takes moves of other deals off the board that were
  confirmed meanwhile (`PipelineBoard.tsx:195`, against the comment at 199). A connection that breaks rolls the
  board back, and the server may still commit the move (`api/client.ts:105`): no refetch follows. A lost answer, a
  fetch begun during a move and two quick moves of one deal leave a board beside the truth until it fetches again
  (`PipelineBoard.tsx:194`).

Bounds of the send engine, and why they are enough. Two workers make every race of two claims, or a claim and a
recording, of one enrollment (`i1`, `i2`) and of two enrollments of one contact on one mailbox. Two outside events
allow a cause and a second disturbance (unsubscribe, then release; crash after a provider error; two pauses). The
clock has two to three ticks: enough for a stale claim and for a day to end between reading the clock and using it.
`rails` has a second day, a closed window, delays, a call task, a conditional and an unsendable step, and two
e-mails of two enrollments on one mailbox with a cap of one: the least in which a worker can wait for the mailbox
over midnight and set the new day's counter back. Workers are symmetric. `CHECK_DEADLOCK FALSE` is set because the
bounded clock and the bounded events end every behaviour.

Bounds of the webhooks. Deliveries share only the queue's failed tail, so one delivery shows every interleaving of
flush, sweep, stall and two runs of a job. Two attempts give a first, a retry and a dead letter; three disturbances
allow a lost flush, a failed job and its eviction, or a crash, a stall and a second crash.

Bounds of the Twilio inbox. Rows meet only in the call, the number or the lead they share, so every race is one of
two rows, or of a row and a rep: two rows out of ten kinds of callback (two terminals of one call, a completed
recording and a terminal, two STOPs, a STOP and a text, ...) and two workers. One call is inbound and one is
dialled, which adds the race of the first callback with `dialCall`'s INSERT. One disturbance is a failure anywhere,
an edit of the contact, a deletion of the lead, a release, or a voicemail drop. Both recordings of a call make the
double marker; the message is one of the two refs without a marker, the drop the other. `CHECK_DEADLOCK FALSE`
because an inbox whose rows are all processed rests.

Bounds of the e-mail runs. Two workers race backfill with backfill, pull with pull, and each with the other; the head
goes from one message to three, so two may arrive at any point of a walk, which makes a history page with a
successor and a cursor that is behind. One disturbance out of crash, deletion and expiry. In `threads`, two parents,
two bridges that share one of them, and messages without references make every link: by reference in both directions,
by subject, new thread, merge, and a merge that takes a thread away from another. Two ingests are what overlaps; one
event is a decision of a rep, a change of owners, a deletion or a crash.

Bounds of `outreach`. Requests meet only in a key, an address, a lead or a rep, so two requests out of seven, which
share those in every way, show each race; three events allow a block, its release and a loss. In `imports`, four
rows in batches of two give a boundary to crash at, a duplicate within the file on either side of it, and a lead
that the CRM had before; two plans let one replace the other under a commit; two commits race everywhere; one lead
with the key of a row is added, or one lead deleted, by somebody else.

Bounds of `board`. Moves meet in a deal or in a board: three moves give two of one deal and one beside them, on one
board or on two. Two fetches give each board one, or one board a fetch and a refetch; two deals a page boundary. One
loss is a broken connection whose PATCH the server commits or not, or a failed fetch.

Fairness is assumed where a liveness property needs it and the code justifies it: of the webhooks and the Twilio
inbox. The send engine's and the mailbox's properties are about safety; their schedulers are the ones that `main.ts`
does not start.

Fairness of the webhooks: the 15 s timer fires and its enqueues return, `next_retry_at` passes, BullMQ finds stalled
jobs and promotes delayed ones, and a worker's promises resolve (weak fairness). A waiting job is taken in the end
although it is not always waiting (strong fairness): BullMQ hands out jobs in order, so no job is passed over for
ever. Nothing is assumed of subscribers, flushes, administrators or failures.

Fairness of the Twilio inbox: the 15 s timer of `main.ts` fires, Postgres finds deadlocks (weak fairness), and a
worker inside a row, or a rep inside a drop, gets on although another keeps taking the lock it waits for (strong
fairness): Postgres queues who waits for a row lock. Nothing is assumed of Twilio, of wake-ups, reps, administrators
or failures.

## 4. What is proved

`SendDispatch_proofs` proves, for every cast, every number of workers and every bound, from `CastAssumption` and
`BoundsAssumption` alone (the constants have their types):

`TypeCorrect`, `NeverTwice`, `FinishedCorrect`, `DailyClaims` (`DailyClaimsBounded`), `PauseIsFinal`
(`NothingAfterPause`), `UnsubscribeStopsClaims`, and `Refinement` (`SendDispatch` implements `SendOnce`, outcomes
included).

The properties are not inductive: that a call is made at most once says nothing of the worker that is about to make
it. `IInv` adds what each control point may rely on:

* `OneHolder`: two busy workers hold different intents;
* `HeldState`: inside the claim the committed state is SCHEDULED; in flight it is CLAIMED or FAILED_TIMEOUT - nobody
  else moves it on;
* `CallCount`: an intent that was never claimed was never called; a worker at `calling` has not called yet, one that
  was answered has called once, one that failed at most once;
* `EnrollmentRows`: a locked enrollment is active and locked by one worker;
* `ClaimsCharged`: the counter covers the claims of its own day, and each reset allows another cap's worth;
* `FoundAll`, `ClearedIsSubscribed`: an open unsubscribe has found every active enrollment of its address but those
  made meanwhile, so its commit waits for every worker past the probe.

The argument goes in two layers. `EffectOfStep` shows that each action has one of fifteen effects on the rows,
workers and calls (a claim is taken, rejected, committed; an intent is reported, reviewed, expired; ...).
`CoreOfEffect` then needs one case per effect, and so do the action properties and the refinement. Types, the
claims of a day and the unsubscribe, which depend on more than the effects, have step lemmas of their own.

`WebhookDelivery_proofs` proves, for every number of deliveries, subscriptions, workers, attempts and disturbances,
from `WebhookAssumption`: `WebhookTypes`, `OutboxIsHonest`, `PostsAreBounded`, `TerminalRowsStay` and
`OutboxRefinement` (`ImplementsEventDelivery`). No UPDATE of
`delivery.ts` looks at the state it overwrites; what keeps a stale worker from undoing a delivery is the job's lock
alone. So the invariant (`Core`) says of each delivery none of whose workers has lost its lock while alive
(`overlapped` names the others):

* `OwnsJob`, `OneRun`: a busy worker holds its job, which is active, and no other worker has the same;
* `ReadHolds`: a worker between its SELECT and its UPDATE has read what is still in the row;
* `AttemptsLeft`: a row that is not terminal has an attempt left;
* `PostsCounted`: each POST is in the row's `attempts`, was lost, or is in a worker's hands.

The refinement says what the queue, the sweep, the stalls and the crashes come to for one event: nothing is given up
but after the attempts that the configuration promises, each of them answered, or because its subscription was
withdrawn. The abstract state is the rows and the history; its `retiring` is the set of deliveries that a worker is
about to mark failed (`Retiring`). Two things have to be added to `Core`. `PostsMade` bounds the POSTs from below, as
`PostsCounted` does from above: no attempt is counted, and no loss is recorded, that was not POSTed - so a row that
is dead-lettered has had them all. And `Core` itself is needed to show that a worker which writes an outcome still has
a row that waits for one. Retries and their delays, jobs and wake-ups map to stuttering.

That the properties are stated for deliveries outside `overlapped` is not a convenience: with an overlap TLC
finds both violated.

`TwilioInbox_proofs` proves, for every cast of callbacks, calls, numbers and leads and every number of workers,
reps, rows and disturbances, from `CastAssumption`, `DisjointAssumption` and `BoundsAssumption`: `InboxTypes`,
`OneEntry`, `SmsOnce`, `StopsAreHonoured`, `ConsentComesFirst`, `OnlyProgressTakesBack` (`OnlyProgressReopens`) and
`SerialRefinement` (`ImplementsSerialInbox`). The code has no constraint that makes a call's entry or a marker
unique; a SELECT before the INSERT decides, and what makes the answer last is a lock taken earlier. So `IInv` says
who holds what and what each place may rely on:

* `LockInv`: no row has two holders, a worker inside a transaction holds its own, unprocessed row, and one worker at
  most confirms a STOP;
* `LogsUnderLock`: whoever is about to log a call holds it, and a worker at `logging` has found no entry - so none
  can appear before it commits;
* `StopInHand`: a STOP about to commit has locked its number, seen it suppressed, or been taken back since;
* `ConsentInHand`: a recording about to be attached has a marker or writes one - and markers and entries are never
  taken back (`RefsStand`), so that a ref that another callback writes over keeps what stands for it;
* `StoredFinite`: the inbox is finite, which the type of `rank` needs.

The voicemail drop is the case in which `LogsUnderLock` says less: a rep at `noting` holds the call but looked for
an entry before it did. That is why `OneEntryPerCall` excepts dropped calls, and what `voicemail_drop` shows. The
proof goes through effects again: `EffectOfStep`, then one lemma for each part of the invariant.

`SerialRefinement` says that under READ COMMITTED, with the locks this code happens to take, the inbox is
serialisable at its commits: what a transaction read without a lock and acted on is still so when it commits, or
makes no difference. The mapping is the committed rows themselves (`Stored`, and the number of consent markers); a
commit maps to the whole callback, every other step of a transaction to stuttering. `SerialInv` adds to `IInv` what
the readers of an earlier statement rely on:

* `StoredInHand`: whatever a worker has, or is on a list or in the queue, is in the inbox;
* `KindInHand`: a place has callbacks of its kind, a text that gets to the timeline has found its sender, and a
  worker locks no number but its STOP's;
* `LeadsHeldAreLive`: a lead that a transaction has locked is not deleted before it commits - which is why a marker
  written three statements earlier may count as written now;
* `OutboundOnly`: only outbound calls are dialled;
* `FirstMarks`: whoever is about to write a marker found none, and is alone in that, or the call is `crowded`.

Three steps are not serial, and `SerialInbox` says so where they are: a voicemail drop may log a call that is logged
(the finding above); a recording callback may mark a crowded call again, which the SELECT of `ensureConsentPlayed`
does not prevent; and a release may take back a STOP that has seen the number suppressed and not committed.

`EmailSync_proofs` proves, for every number of workers, messages and disturbances and either adapter, from
`SyncAssumption`: `EmailSyncTypes`, `CursorIsCovered` (`CursorCovers`), `CheckpointIsCurrent`
(`CheckpointIsOfThisBackfill`), `PushesAreStored` (`StampedPushIsStored`) and `ContractSkipsNothing`: with an adapter
that keeps the contract of `listHistory`, no page puts a message behind the cursor unread, so that the exception which
`CursorCovers` makes of Gmail's ids is empty. That the cursor is
not ahead of the mail says nothing of the walk that will set it, so `IInv` follows the mail through it:

* `OneWalk`, `CheckpointIsOfThisBackfill`: while no two backfills overlap, one worker walks, and a checkpoint is its
  own;
* `CheckpointCovers`, `Resumes`: what the checkpoint has left behind is stored or late, and the walker goes on from
  there;
* `ListedCovers`, `LastCovers`: with the page in hand, everything up to its end, and on the last page everything, is
  stored, in hand or late - before and after the profile is read, which is what makes a late cursor harmless except
  to late mail;
* `PullCovers`: a history page up to n, on top of the cursor it was asked from, covers n - the last one, if it is
  Gmail's;
* `PushIsReached`, `StampsAreAnswered` (`PushInv`): the last page of the pull that a push starts reaches its id, and
  the push is stamped with that page applied.

`MailThreads_proofs` proves, for every cast of messages, references, people and leads and any number of workers and
reps, from `CastAssumption`: `MailThreadsTypes`, `OneEntry`, `MatchedOnTheTimeline`, `RelatedTogether`,
`CompleteParticipants`, `MatchesLatch` and `ConversationsRefinement` (`ImplementsConversations`). The invariant says

* `InHand`, `Threads`, `VerdictInv`, `Gathered` (`HoldInv`): a transaction has a message of its own; threads have a
  row if they have members; what a worker has decided - a verdict over a single thread that is left belongs to a
  message that was overtaken - and which rows it holds;
* `RelativesAreLinked`: what a transaction has found of its message's relatives - all, but those in transactions
  beside it, or one whose thread has been merged away, in which case it fails or is overtaken;
* `DraftIsComplete`: the participants it will write are those of all members it could see.

`ConversationsRefinement` adds what the separate properties do not say together: each commit, of an ingest or of a
decision, is one step on conversations, in which members, decision and timeline change at once. No ingest that read
before another committed splits a conversation (`Gathered`: the threads it holds are still there, and nobody else
merges them), though one that lost a thread before it held it joins only those that are left (`astray`, and the
abstract step says so); a commit that would write to a deleted lead does nothing at all; and a message that joins one
conversation leaves a match, or a human's `ignored`, as it is at that moment (`VerdictInv`: only a merge has a
verdict of its own). `Conversations` promises nothing of the decisions of conversations that a message brings
together, because the code reads them before it locks anything. The mapping is the committed rows; of `leadOf` what
stands for a match (`MatchOf`), and of the entries which leads' timelines have a message (`Timeline`).

`Outreach_proofs` proves, for every set of requests, keys, addresses and contacts, from `CastAssumption` and
`RetryAssumption` (a repeated key repeats its text, lead and destination): `OutreachTypes`, `HonestTimeline`,
`NoRepeats`, `OptOutFirst` and `NobodyBlockedIsContacted`. The invariant names what each place between two rails has
established:

* `StandingIsInForce`, `Passed` (`RailsInv`): a block that has stood since the request came in is in force, and
  concerns nothing a request has passed;
* `AcceptedHasReached`, `StoredHasReached`, `EntriesAreStored`, `AnswersAreTrue` (`StoreInv`): what is stored has
  been sent;
* `KnownIsStopped`: a repeat of a stored message stays out of the provider's hands, or finds its key known there;
* `PlainFollows`: who found a prior text has one before it that carried the opt-out language.

`ImportRun_proofs` proves, for every file, batch size, number of requests, plans and deletions, from
`FileAssumption` and `BoundsAssumption`, with others who add and delete leads: `ImportTypes`, `CreatedOnce`
(`LeadsAreCreatedOnce`), `CheckpointIsCovered` (`CheckpointCovers`), `CountersCorrect` (`CountersAreTrue`) and
`NoDuplicates` (`NoSecondLead`). The invariant has five parts:

* `OpenInserts`: what an open batch has inserted is of its plan, not there yet, and in nobody else's batch -
  Postgres' primary key makes the second wait;
* `Replayed`: unless a dry run got in between, every commit replays the stored plan, and what it has come past is in
  the CRM or in its batch;
* `PlansAreBuilt`, `PlansAreKnown`: plans in anybody's hands exist, and refer to leads that do;
* `KeysDiffer`, `Fresh`: the new leads of a plan have different keys, and no live lead that the plan could see
  has the key of one that is still to be made;
* `TallyInv`: a commit's counters are the rows of its plan that it has passed, and while no other commit runs beside
  it the checkpoint is where its last batch ended and the plan's leads are those below that point (`SoleCommit`,
  `NewLeads`). What a batch adds to a counter is the cardinality of a set that grows by one row at a time, so no
  induction over the plan is needed.

`PipelineBoard_proofs` proves, for every number of boards, deals, stages, moves, fetches and losses, from
`BoardAssumption`: `TypeCorrect`, `TrailTheorem` (`TrailLeadsToStage`) and `SettledTheorem` (`SettledBoardIsTrue`).
The invariant:

* `LockInv`: a row lock has one holder, and what it read is still there - so its entry continues the chain;
* `OneMove`: a deal that is not upset has one move under way at most, so whoever wrote it last is known;
* `Restores`: the server has what a rollback of that move restores, or what its confirmation writes; one that it
  commits after its board gave it up counts as written by another;
* `Reads`: what a fetch has read is still so, for deals that nobody wrote; and it runs beside no move but those that
  were there when it began, because a move cancels it.

Only model-checked: `SettledOrJobFailed` and `ProcessedUnlessPoisoned`, which are liveness properties. Liveness
under fairness, ENABLED, induction over data and RECURSIVE operators are beyond the prover.

## 5. Plan

Done: `SendDispatch` with `SendOnce`, `WebhookDelivery` with `JobQueue` and `EventDelivery`, `TwilioInbox` with
`SerialInbox`, `EmailSync`, `MailThreads` with `Conversations`, `Outreach`, `ImportRun`, `PipelineBoard`, each with
its proofs. Next, in this order:

1. `DispatchLocks`: the order of row locks (enrollment, lead, mailbox) of the claim, the recording, the pauses, the
   ingest and the Twilio inbox; which cycles Postgres has to break.
2. `WakeupQueue`: `sequence:send` jobs (ids by due time, `requeueDeferred` not wired) and `sweepDueIntents` on
   `JobQueue`; that a due intent is claimed in the end.
3. Compositions: `EmailSync`'s stored messages as `MailThreads`' input; a reply's entry as `SendDispatch`'s pause;
   Twilio's STOP as `Outreach`'s and `SendDispatch`'s suppression.
4. The dialer's walk over a smart view's members, and the fixed windows of the rate limit.
5. Pure algorithms against a reference definition: sending window, quiet hours, backoff, keyword matching.

## 6. Not modelled

What is modelled is where several actors change the same rows. That is a small part of the lines: most of the
repository is the web client (React views over the REST API, with a request cache as their only state, of which the
pipeline board stands for the rest), validation and delegation in routes, the search language with its SQL compiler,
reports, exports, seeds, the command line, and adapters that encode and decode what providers say.

* Parsing, rendering, SQL compilation, scoring, hashing, CSV parsing and column mapping, HTTP plumbing: pure
  functions of their input.
* CRUD services are single-row transactions; where an engine reads their rows (DNC, soft delete, suppressions,
  mailbox links, contacts' addresses) their writes are actions of that engine's module.
* OAuth tokens, sessions, API tokens: checked per request; nothing that several steps share.
* Providers are modelled by how `src/` calls them: what they return may be late, repeated or lost.
* The in-process queue driver of MOCK_MODE, the observability endpoints and the drain on SIGTERM.
