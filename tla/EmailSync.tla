----------------------------- MODULE EmailSync -----------------------------
(***************************************************************************)
(* One linked mailbox (services/sync): the C5 status machine, the paged    *)
(* backfill with its checkpoint, the incremental pull from the history     *)
(* cursor, Gmail's push inbox, and the recovery of a stuck RESYNC.         *)
(*                                                                         *)
(* A message is the history id that added it: 1..head have arrived.  What  *)
(* the provider answers and what a transaction commits are separate steps; *)
(* a page is any prefix of what is left, which stands for every page size. *)
(* The provider is the Gmail adapter or, in its place, the contract of the *)
(* mock: they list in a different order, and the history id of a page is   *)
(* the mailbox's for the one, the last of the page for the other.          *)
(***************************************************************************)
EXTENDS Integers, FiniteSets

CONSTANTS
    Workers,
    NoCursor, NoToken,  \* history_cursor, pageToken: null
    Gmail,              \* the provider is the Gmail adapter, not the mock
    MaxHead,            \* bound on arrivals
    MaxEvents,          \* bound on the disturbances
    Disturbances

AllDisturbances == {"crash", "delete", "expire"}

ASSUME SyncAssumption ==
    /\ NoCursor \notin Nat
    /\ NoToken \notin Nat
    /\ Gmail \in BOOLEAN
    /\ MaxHead \in Nat \ {0}
    /\ MaxEvents \in Nat
    /\ Disturbances \subseteq AllDisturbances

VARIABLES
    head, oldest, deleted,  \* the provider's mailbox and the start of its history
    status, cursor, checkpoint, linked,  \* the email_accounts row
    stored,                 \* email_messages
    inbox, processed,       \* webhook_inbox: pushes, those with processed_at
    pc, task,               \* each worker's place, and what it works for
    from,                   \* the cursor, or page token, it has read
    page,                   \* the provider's answer it holds
    events,
    late,                   \* history: arrived while a backfill was under way
    overlapped,             \* history: two backfills were under way at once
    dropped,                \* history: pushes found when the mailbox was not live
    skipped                 \* history: on no page, but behind the id of one with a successor

mailbox == <<head, oldest, deleted>>
account == <<status, cursor, checkpoint, linked>>
rows    == <<stored, inbox, processed>>
worker  == <<pc, task, from, page>>
history == <<late, overlapped, dropped, skipped>>
vars == <<mailbox, account, rows, worker, events, history>>

-----------------------------------------------------------------------------
(* Vocabulary *)

SyncStatus == {"UNLINKED", "AUTHORIZING", "BACKFILLING", "LIVE", "DEGRADED",
               "RESYNC", "REAUTH_REQUIRED"}

Allowed ==
    [UNLINKED |-> {"AUTHORIZING"}, AUTHORIZING |-> {"BACKFILLING"},
     BACKFILLING |-> {"LIVE"}, LIVE |-> {"DEGRADED", "RESYNC"},
     DEGRADED |-> {"LIVE"}, RESYNC |-> {"LIVE"}, REAUTH_REQUIRED |-> {"AUTHORIZING"}]

IsLegalTransition(f, t) ==
    IF t = "REAUTH_REQUIRED" THEN f # t ELSE t \in Allowed[f]

Walking == {"loading", "listing", "profiling", "committing"}
Pulling == {"starting", "pulling", "applying", "expiring"}
PCs == {"idle", "stamping"} \cup Walking \cup Pulling

\* What a worker was started for: the OAuth callback, the RESYNC sweep, or a push.
Callback == 0 - 1
Recovery == 0
Pushes == 1..MaxHead

Pages == [ids : SUBSET (1..MaxHead), next : Nat \cup {NoToken}, upTo : Nat, more : BOOLEAN]
NoPage == [ids |-> {}, next |-> NoToken, upTo |-> 0, more |-> FALSE]

Live == (1..head) \ deleted
Before(m, n) == IF Gmail THEN m > n ELSE m < n
Listable(token) == IF token = NoToken THEN Live ELSE {m \in Live : Before(token, m)}

\* A page of a backfill was listed and its walk is not over.
WalkOpen ==
    \/ checkpoint # NoToken
    \/ \E w \in Workers :
          pc[w] = "profiling" \/ (pc[w] = "committing" /\ page[w].next # NoToken)

Happens(what) == what \in Disturbances /\ events < MaxEvents /\ events' = events + 1

Goto(w, p) == pc' = [pc EXCEPT ![w] = p] /\ UNCHANGED <<task, from, page>>

\* The request ends, by a return or by a throw: nothing of it is left.
Stop(w) ==
    /\ pc' = [pc EXCEPT ![w] = "idle"]
    /\ task' = [task EXCEPT ![w] = Recovery]
    /\ from' = [from EXCEPT ![w] = NoCursor]
    /\ page' = [page EXCEPT ![w] = NoPage]

\* runBackfill is entered, by the worker that has task t.
EnterBackfill(w, t) ==
    /\ pc' = [pc EXCEPT ![w] = "loading"]
    /\ task' = [task EXCEPT ![w] = t]
    /\ from' = [from EXCEPT ![w] = NoCursor]
    /\ page' = [page EXCEPT ![w] = NoPage]
    /\ overlapped' = (overlapped \/ \E v \in Workers \ {w} : pc[v] \in Walking)
    /\ UNCHANGED <<late, dropped, skipped>>

-----------------------------------------------------------------------------
(* The provider *)

Arrive ==
    /\ head < MaxHead
    /\ head' = head + 1
    /\ late' = IF WalkOpen THEN late \cup {head + 1} ELSE late
    /\ UNCHANGED <<oldest, deleted, account, rows, worker, events, overlapped, dropped, skipped>>

DeleteMessage(m) ==
    /\ m \in Live
    /\ Happens("delete")
    /\ deleted' = deleted \cup {m}
    /\ UNCHANGED <<head, oldest, account, rows, worker, history>>

ExpireHistory ==
    /\ oldest < head
    /\ Happens("expire")
    /\ oldest' = head
    /\ UNCHANGED <<head, deleted, account, rows, worker, history>>

\* persistGmailPush: deduplicated by the Pub/Sub messageId, which stands for one arrival.
PersistGmailPush(n) ==
    /\ n \in (1..head) \ inbox
    /\ inbox' = inbox \cup {n}
    /\ UNCHANGED <<mailbox, account, stored, processed, worker, events, history>>

-----------------------------------------------------------------------------
(* Linking *)

StartLinking ==
    /\ IsLegalTransition(status, "AUTHORIZING")
    /\ status' = "AUTHORIZING"
    /\ UNCHANGED <<mailbox, cursor, checkpoint, linked, rows, worker, events, history>>

\* The tokens and the transition commit together; the callback then runs the backfill.
CompleteLinking(w) ==
    /\ pc[w] = "idle"
    /\ IsLegalTransition(status, "BACKFILLING")
    /\ status' = "BACKFILLING"
    /\ linked' = TRUE
    /\ EnterBackfill(w, Callback)
    /\ UNCHANGED <<mailbox, cursor, checkpoint, rows, events>>

-----------------------------------------------------------------------------
(* Backfill *)

\* loadAccount: the checkpoint to resume from.
LoadCheckpoint(w) ==
    /\ pc[w] = "loading"
    /\ pc' = [pc EXCEPT ![w] = "listing"]
    /\ from' = [from EXCEPT ![w] = checkpoint]
    /\ UNCHANGED <<mailbox, account, rows, task, page, events, history>>

\* messages.list
ListMessages(w) ==
    /\ pc[w] = "listing"
    /\ pc' = [pc EXCEPT ![w] = "profiling"]
    /\ LET rest == Listable(from[w])
       IN \/ /\ rest = {}
             /\ page' = [page EXCEPT ![w] = NoPage]
          \/ \E last \in rest :
                LET ids == {m \in rest : m = last \/ Before(m, last)}
                IN page' = [page EXCEPT ![w] =
                      [ids |-> ids, next |-> IF ids = rest THEN NoToken ELSE last,
                       upTo |-> 0, more |-> FALSE]]
    /\ UNCHANGED <<mailbox, account, rows, task, from, events, history>>

\* Mutant: the cursor is the id of the next message.
ReadNextHistoryId(w) ==
    /\ pc[w] = "profiling"
    /\ pc' = [pc EXCEPT ![w] = "committing"]
    /\ page' = [page EXCEPT ![w].upTo = head + 1]
    /\ UNCHANGED <<mailbox, account, rows, task, from, events, history>>

\* users.getProfile, a call of its own after the list.
ReadProfile(w) ==
    /\ pc[w] = "profiling"
    /\ pc' = [pc EXCEPT ![w] = "committing"]
    /\ page' = [page EXCEPT ![w].upTo = head]
    /\ UNCHANGED <<mailbox, account, rows, task, from, events, history>>

\* getMessage throws when a listed message is gone by now.
FetchFails(w) ==
    /\ pc[w] = "committing"
    /\ page[w].ids \cap deleted # {}
    /\ Stop(w)
    /\ UNCHANGED <<mailbox, account, rows, events, history>>

\* A page that is not the last: messages and checkpoint in one transaction.
CommitPage(w) ==
    /\ pc[w] = "committing"
    /\ page[w].next # NoToken
    /\ page[w].ids \cap deleted = {}
    /\ stored' = stored \cup page[w].ids
    /\ checkpoint' = page[w].next
    /\ pc' = [pc EXCEPT ![w] = "loading"]
    /\ UNCHANGED <<mailbox, status, cursor, linked, inbox, processed, task, from, page, events, history>>

\* Mutant: the last page leaves the checkpoint as it is.
CommitLastPageKeeping(w) ==
    /\ pc[w] = "committing"
    /\ page[w].next = NoToken
    /\ page[w].ids \cap deleted = {}
    /\ IsLegalTransition(status, "LIVE")
    /\ stored' = stored \cup page[w].ids
    /\ cursor' = page[w].upTo
    /\ status' = "LIVE"
    /\ IF task[w] \in Pushes THEN Goto(w, "stamping") ELSE Stop(w)
    /\ UNCHANGED <<mailbox, checkpoint, linked, inbox, processed, events, history>>

\* The last page goes LIVE in the same transaction; an illegal transition rolls it back.
\* The pull that fell back on the backfill stamps its push next.
CommitLastPage(w) ==
    /\ pc[w] = "committing"
    /\ page[w].next = NoToken
    /\ page[w].ids \cap deleted = {}
    /\ \/ /\ IsLegalTransition(status, "LIVE")
          /\ stored' = stored \cup page[w].ids
          /\ checkpoint' = NoToken
          /\ cursor' = page[w].upTo
          /\ status' = "LIVE"
          /\ IF task[w] \in Pushes THEN Goto(w, "stamping") ELSE Stop(w)
          /\ UNCHANGED linked
       \/ /\ ~ IsLegalTransition(status, "LIVE")
          /\ Stop(w)
          /\ UNCHANGED <<account, stored>>
    /\ UNCHANGED <<mailbox, inbox, processed, events, history>>

\* recoverResyncAccounts
RecoverResync(w) ==
    /\ pc[w] = "idle"
    /\ status = "RESYNC"
    /\ EnterBackfill(w, Recovery)
    /\ UNCHANGED <<mailbox, account, rows, events>>

-----------------------------------------------------------------------------
(* Pushes and the incremental pull *)

\* Mutant: the push is stamped when it is taken.
TakePushStamped(w, n) ==
    /\ pc[w] = "idle"
    /\ n \in inbox \ processed
    /\ processed' = processed \cup {n}
    /\ pc' = [pc EXCEPT ![w] = IF status \in {"LIVE", "DEGRADED"} THEN "starting" ELSE "stamping"]
    /\ task' = [task EXCEPT ![w] = n]
    /\ dropped' = IF status \in {"LIVE", "DEGRADED"} THEN dropped ELSE dropped \cup {n}
    /\ UNCHANGED <<mailbox, account, stored, inbox, from, page, events, late, overlapped, skipped>>

\* processGmailInboxRow: an unprocessed row, and the mailbox's status as it is now.
TakePush(w, n) ==
    /\ pc[w] = "idle"
    /\ n \in inbox \ processed
    /\ pc' = [pc EXCEPT ![w] = IF status \in {"LIVE", "DEGRADED"} THEN "starting" ELSE "stamping"]
    /\ task' = [task EXCEPT ![w] = n]
    /\ dropped' = IF status \in {"LIVE", "DEGRADED"} THEN dropped ELSE dropped \cup {n}
    /\ UNCHANGED <<mailbox, account, rows, from, page, events, late, overlapped, skipped>>

\* incrementalPull: the stored cursor; without one, or without tokens, it throws.
LoadCursor(w) ==
    /\ pc[w] = "starting"
    /\ IF cursor = NoCursor \/ ~ linked
       THEN Stop(w)
       ELSE /\ pc' = [pc EXCEPT ![w] = "pulling"]
            /\ from' = [from EXCEPT ![w] = cursor]
            /\ UNCHANGED <<task, page>>
    /\ UNCHANGED <<mailbox, account, rows, events, history>>

\* history.list: 404, or a page of what was added after the cursor and is still there.  Gmail
\* gives every page the mailbox's current history id, also one that has a successor.
ListHistory(w) ==
    /\ pc[w] = "pulling"
    /\ \/ from[w] < oldest /\ Goto(w, "expiring")
       \/ /\ from[w] >= oldest
          /\ \E last \in from[w]..head :
                /\ last = from[w] => from[w] = head
                /\ page' = [page EXCEPT ![w] =
                      [ids |-> (from[w] + 1..last) \ deleted, next |-> NoToken,
                       upTo |-> IF Gmail THEN head ELSE last, more |-> last < head]]
          /\ pc' = [pc EXCEPT ![w] = "applying"]
          /\ UNCHANGED <<task, from>>
    /\ UNCHANGED <<mailbox, account, rows, events, history>>

\* What a page with a successor leaves between its last message and its history id.
LeftBehind(w) ==
    IF page[w].more THEN (from[w] + 1..page[w].upTo) \ (page[w].ids \cup deleted) ELSE {}

\* Mutant: the cursor is the mailbox's history id at the commit, not at the answer.
ApplyPageToHead(w) ==
    /\ pc[w] = "applying"
    /\ stored' = stored \cup (page[w].ids \ deleted)
    /\ cursor' = head
    /\ from' = [from EXCEPT ![w] = head]
    /\ pc' = [pc EXCEPT ![w] = IF page[w].more THEN "pulling" ELSE "stamping"]
    /\ skipped' = skipped \cup LeftBehind(w)
    /\ UNCHANGED <<mailbox, status, checkpoint, linked, inbox, processed, task, page, events,
                   late, overlapped, dropped>>

\* The fetched messages and the cursor commit together; a message deleted since is skipped.
\* The next request asks for what came after that cursor: a page token is never sent.
ApplyPage(w) ==
    /\ pc[w] = "applying"
    /\ stored' = stored \cup (page[w].ids \ deleted)
    /\ cursor' = page[w].upTo
    /\ from' = [from EXCEPT ![w] = page[w].upTo]
    /\ pc' = [pc EXCEPT ![w] = IF page[w].more THEN "pulling" ELSE "stamping"]
    /\ skipped' = skipped \cup LeftBehind(w)
    /\ UNCHANGED <<mailbox, status, checkpoint, linked, inbox, processed, task, page, events,
                   late, overlapped, dropped>>

\* HistoryExpiredError: LIVE -> RESYNC and a backfill, or an illegal transition.
StartResync(w) ==
    /\ pc[w] = "expiring"
    /\ \/ /\ IsLegalTransition(status, "RESYNC")
          /\ status' = "RESYNC"
          /\ EnterBackfill(w, task[w])
       \/ /\ ~ IsLegalTransition(status, "RESYNC")
          /\ Stop(w)
          /\ UNCHANGED <<status, history>>
    /\ UNCHANGED <<mailbox, cursor, checkpoint, linked, rows, events>>

Stamp(w) ==
    /\ pc[w] = "stamping"
    /\ processed' = processed \cup {task[w]}
    /\ Stop(w)
    /\ UNCHANGED <<mailbox, account, stored, inbox, events, history>>

\* The process dies, or a call to the provider fails.
Crash(w) ==
    /\ pc[w] # "idle"
    /\ Happens("crash")
    /\ Stop(w)
    /\ UNCHANGED <<mailbox, account, rows, history>>

-----------------------------------------------------------------------------
Init ==
    /\ head = 1 /\ oldest = 0 /\ deleted = {}
    /\ status = "UNLINKED" /\ cursor = NoCursor /\ checkpoint = NoToken /\ linked = FALSE
    /\ stored = {} /\ inbox = {} /\ processed = {}
    /\ pc = [w \in Workers |-> "idle"]
    /\ task = [w \in Workers |-> Recovery]
    /\ from = [w \in Workers |-> NoCursor]
    /\ page = [w \in Workers |-> NoPage]
    /\ events = 0
    /\ late = {} /\ overlapped = FALSE /\ dropped = {} /\ skipped = {}

Backfill(w) ==
    \/ LoadCheckpoint(w) \/ ListMessages(w) \/ ReadProfile(w)
    \/ FetchFails(w) \/ CommitPage(w) \/ CommitLastPage(w)

Pull(w) == LoadCursor(w) \/ ListHistory(w) \/ ApplyPage(w) \/ StartResync(w) \/ Stamp(w)

Environment ==
    \/ Arrive \/ ExpireHistory \/ StartLinking
    \/ \E m \in 1..MaxHead : DeleteMessage(m) \/ PersistGmailPush(m)
    \/ \E w \in Workers : CompleteLinking(w) \/ Crash(w)

Next ==
    \/ Environment
    \/ \E w \in Workers : Backfill(w) \/ Pull(w) \/ RecoverResync(w)
    \/ \E w \in Workers, n \in Pushes : TakePush(w, n)

Spec == Init /\ [][Next]_vars

-----------------------------------------------------------------------------
(* Properties *)

\* Every row, and what each worker holds, keeps its type.
TypeOK ==
    /\ head \in 0..MaxHead /\ oldest \in 0..head /\ deleted \subseteq 1..MaxHead
    /\ status \in SyncStatus /\ linked \in BOOLEAN
    /\ cursor \in 0..head \cup {NoCursor}
    /\ checkpoint \in Nat \cup {NoToken}
    /\ stored \subseteq 1..head /\ inbox \subseteq 1..head /\ processed \subseteq inbox
    /\ pc \in [Workers -> PCs]
    /\ task \in [Workers -> Pushes \cup {Callback, Recovery}]
    /\ from \in [Workers -> Nat \cup {NoCursor, NoToken}]
    /\ page \in [Workers -> Pages]
    /\ events \in 0..MaxEvents
    /\ late \subseteq 1..head /\ overlapped \in BOOLEAN /\ dropped \subseteq inbox
    /\ skipped \subseteq 1..head

\* The cursor is never ahead of the mail: each message up to it that the provider still has is
\* stored - pulls that race, crash and fall back on a RESYNC included - except one that arrived
\* while a backfill was walking the pages, or that Gmail's history id of a page with a successor
\* put behind the cursor.  Two backfills at once are excepted.
CursorCovers ==
    (cursor # NoCursor /\ ~ overlapped) =>
        (1..cursor) \ deleted \subseteq stored \cup late \cup skipped

\* A checkpoint belongs to a backfill that has begun and not ended: the next RESYNC of a
\* LIVE mailbox starts at the first page.
CheckpointIsOfThisBackfill ==
    (checkpoint # NoToken /\ ~ overlapped) => status \in {"BACKFILLING", "RESYNC"}

\* A push is stamped only when its message is stored, or gone from the provider: no crash,
\* expiry or failed fetch loses it between the two.  Excepted are the messages of CursorCovers,
\* and a push that was found while the mailbox was not live.
StampedPushIsStored ==
    ~ overlapped =>
        processed \ dropped \subseteq stored \cup deleted \cup late \cup skipped

\* What processGmailInboxRow says of a push it drops because the mailbox is not live: once it
\* is live, the message of that push is stored, or is still ahead of the cursor.
DroppedPushIsHarmless ==
    status = "LIVE" =>
        \A m \in processed \cap dropped : m \in stored \cup deleted \/ m > cursor
=============================================================================
