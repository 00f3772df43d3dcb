----------------------------- MODULE ImportRun -----------------------------
(***************************************************************************)
(* One CSV import (apps/api/src/services/imports): dry runs build a plan   *)
(* against a snapshot of the CRM and store it; commits replay the stored   *)
(* plan in batches, one transaction each, with a checkpoint to resume from *)
(* after a crash.  Requests of both kinds run side by side.                *)
(*                                                                         *)
(* A commit request is its statements: what it has inserted or updated in  *)
(* the batch that is open is in `made' and `fills', which others wait for; *)
(* the rest is what is committed.  A lead's id is the plan and the row it  *)
(* was made for; plan 0 stands for the leads of others, the ones that were *)
(* there before and the ones that reps and other imports add meanwhile.    *)
(* Rows and leads have one key each, an e-mail of no company or a URL's    *)
(* domain, and keep it.                                                    *)
(***************************************************************************)
EXTENDS Naturals, FiniteSets

CONSTANTS
    RowCount,    \* data rows of the file
    Keys,        \* what rows and leads are matched on
    EmailKeys,   \* the keys that are e-mail addresses; the others are domains
    KeyOf,       \* [1 .. RowCount -> Keys]
    Unusable,    \* rows that are blank, or have a cell the mapping cannot read
    Nameless,    \* rows without a lead name
    Known,       \* rows whose lead was in the CRM before
    Rivals,      \* rows whose lead others may add while the import is under way
    DedupeActions,
    Planners,    \* dry-run requests
    Committers,  \* commit requests
    BatchSize,
    MaxPlans,    \* bound on dry runs
    MaxChanges   \* bound on leads that others add or delete

Rows  == 1 .. RowCount
Plans == 1 .. MaxPlans

ASSUME FileAssumption ==
    /\ RowCount \in Nat
    /\ KeyOf \in [Rows -> Keys]
    /\ EmailKeys \subseteq Keys
    /\ Unusable \subseteq Rows
    /\ Nameless \subseteq Rows
    /\ Known \subseteq Rows
    /\ Rivals \subseteq Rows
    /\ DedupeActions \subseteq {"skip", "merge-fields", "create-anyway"}

ASSUME BoundsAssumption ==
    /\ BatchSize \in Nat \ {0}
    /\ MaxPlans \in Nat
    /\ MaxChanges \in Nat

VARIABLES
    status,     \* imports.status; nothing sets `mapped'
    plan,       \* imports.dry_run_result: the number of its plan, 0 before any
    next,       \* result.nextRowIndex: the rows that are done
    counters,   \* result.counters: leads made, rows merged
    rowsOf,     \* [Plans -> [Rows -> RowPlan]]
    anyway,     \* plans whose dedupe action is create-anyway
    built,      \* plans built so far
    desk, draft,          \* where each dry run is, and the plan it has built
    pc, hand,             \* where each commit is, and the plan it has read
    at, row,              \* rows in its committed batches, and in the open one too
    tally,                \* the counters it holds in memory
    made, fills,          \* leads inserted and rows merged in the open batch
    leads, deleted,       \* leads, and the soft-deleted ones
    entries,              \* lead_created entries of each lead the import made
    filled,               \* merges that are committed, by plan and row
    crowded,    \* history: two commits have run side by side
    overlapped, \* history: a dry run and a commit have
    addedAt     \* history: the last plan built before others added a row's lead

import  == <<status, plan, next, counters>>
drafts  == <<rowsOf, anyway, built, desk, draft>>
request == <<pc, hand, at, row, tally, made, fills>>
crm     == <<leads, deleted, entries, filled>>
history == <<crowded, overlapped, addedAt>>
vars    == <<import, drafts, request, crm, history>>

-----------------------------------------------------------------------------
(* Vocabulary *)

Statuses == {"uploaded", "dry_run", "committing", "committed", "failed"}
PCs      == {"idle", "claiming", "resuming", "applying", "failing"}
LeadIds  == (0 .. MaxPlans) \X Rows
NoLead   == <<0, 0>>
Counters == [leads : Nat, merged : Nat]
Zero     == [leads |-> 0, merged |-> 0]
RowPlan  == [does : {"create", "merge", "nothing"}, lead : LeadIds \cup {NoLead}]

LeadKey(l) == KeyOf[l[2]]
Live       == leads \ deleted

Busy       == {c \in Committers : pc[c] # "idle"}
Planning   == {d \in Planners : desk[d] # "idle"}
Others(c)  == Committers \ {c}

\* A batch's end; the last is cut off.
End(i) == IF i + BatchSize > RowCount THEN RowCount ELSE i + BatchSize

-----------------------------------------------------------------------------
(* The planner *)

\* buildExistingIndex: a contact's e-mail outlives its lead, a URL's domain does not.
Matching(k) == {l \in leads : LeadKey(l) = k /\ (k \in EmailKeys \/ l \notin deleted)}

\* One lead per key: the SELECTs have no order, the first row wins.
Snapshots ==
    {s \in [Keys -> leads \cup {NoLead}] :
        \A k \in Keys : IF Matching(k) = {} THEN s[k] = NoLead ELSE s[k] \in Matching(k)}

\* Rows before r that registered its key.  Mutant: no in-file matches.
NothingEarlier(r) == {}
Earlier(r) ==
    {x \in 1 .. r - 1 : x \notin Unusable \cup Nameless /\ KeyOf[x] = KeyOf[r]}

\* findMatch: the snapshot, then the first row of the file that made the key's lead.
Match(s, n, r) ==
    IF s[KeyOf[r]] # NoLead THEN s[KeyOf[r]]
    ELSE IF Earlier(r) # {} THEN <<n, CHOOSE x \in Earlier(r) : \A y \in Earlier(r) : x <= y>>
    ELSE NoLead

Nothing        == [does |-> "nothing", lead |-> NoLead]
Create(n, r)   == IF r \in Nameless THEN Nothing ELSE [does |-> "create", lead |-> <<n, r>>]

\* buildPlan, for one row.
Planned(s, a, n, r) ==
    IF r \in Unusable THEN Nothing
    ELSE IF Match(s, n, r) = NoLead \/ a = "create-anyway" THEN Create(n, r)
    ELSE IF a = "skip" THEN Nothing
    ELSE [does |-> "merge", lead |-> Match(s, n, r)]

\* dryRunImport reads the status ...
CheckStatus(d) ==
    /\ desk[d] = "idle"
    /\ status \notin {"committing", "committed"}
    /\ desk' = [desk EXCEPT ![d] = "checked"]
    /\ overlapped' = (overlapped \/ Busy # {})
    /\ UNCHANGED <<import, rowsOf, anyway, built, draft, request, crm, crowded, addedAt>>

\* ... then the CRM, and plans ...
BuildPlan(d) ==
    /\ desk[d] = "checked"
    /\ built < MaxPlans
    /\ built' = built + 1
    /\ \E s \in Snapshots, a \in DedupeActions :
          /\ rowsOf' = [rowsOf EXCEPT ![built + 1] = [r \in Rows |-> Planned(s, a, built + 1, r)]]
          /\ anyway' = IF a = "create-anyway" THEN anyway \cup {built + 1} ELSE anyway
    /\ desk' = [desk EXCEPT ![d] = "planned"]
    /\ draft' = [draft EXCEPT ![d] = built + 1]
    /\ UNCHANGED <<import, request, crm, history>>

\* ... and stores the plan, whatever the status is by then.
StorePlan(d) ==
    /\ desk[d] = "planned"
    /\ status' = "dry_run"
    /\ plan' = draft[d]
    /\ desk' = [desk EXCEPT ![d] = "idle"]
    /\ draft' = [draft EXCEPT ![d] = 0]
    /\ UNCHANGED <<next, counters, rowsOf, anyway, built, request, crm, history>>

GiveUpPlanning(d) ==
    /\ desk[d] # "idle"
    /\ desk' = [desk EXCEPT ![d] = "idle"]
    /\ draft' = [draft EXCEPT ![d] = 0]
    /\ UNCHANGED <<import, rowsOf, anyway, built, request, crm, history>>

-----------------------------------------------------------------------------
(* The committer *)

Checkpoint(c, n) ==
    /\ next' = n
    /\ counters' = tally[c]

\* Mutant: a resumed commit counts from zero.
LoadWithoutCounters(c) ==
    /\ pc[c] = "idle" /\ status = "committing"
    /\ pc' = [pc EXCEPT ![c] = "resuming"]
    /\ hand' = [hand EXCEPT ![c] = plan]
    /\ at' = [at EXCEPT ![c] = next]
    /\ row' = [row EXCEPT ![c] = next]
    /\ tally' = [tally EXCEPT ![c] = Zero]
    /\ UNCHANGED <<import, drafts, made, fills, crm, history>>

\* A commit of an import that is `committing' goes on from the checkpoint.  The lease
\* never refuses it: the route passes no committerId, so each holder has its name.
LoadCheckpoint(c) ==
    /\ pc[c] = "idle"
    /\ status = "committing"
    /\ pc' = [pc EXCEPT ![c] = "resuming"]
    /\ hand' = [hand EXCEPT ![c] = plan]
    /\ at' = [at EXCEPT ![c] = next]
    /\ row' = [row EXCEPT ![c] = next]
    /\ tally' = [tally EXCEPT ![c] = counters]
    /\ crowded' = (crowded \/ Busy # {})
    /\ overlapped' = (overlapped \/ Planning # {})
    /\ UNCHANGED <<import, drafts, made, fills, crm, addedAt>>

LoadPlan(c) ==
    /\ pc[c] = "idle"
    /\ status = "dry_run"
    /\ pc' = [pc EXCEPT ![c] = "claiming"]
    /\ hand' = [hand EXCEPT ![c] = plan]
    /\ at' = [at EXCEPT ![c] = 0]
    /\ row' = [row EXCEPT ![c] = 0]
    /\ tally' = [tally EXCEPT ![c] = Zero]
    /\ crowded' = (crowded \/ Busy # {})
    /\ overlapped' = (overlapped \/ Planning # {})
    /\ UNCHANGED <<import, drafts, made, fills, crm, addedAt>>

\* Mutant: the claim leaves the last plan's checkpoint.
ClaimOnly(c) ==
    /\ pc[c] = "claiming" /\ status = "dry_run"
    /\ status' = "committing"
    /\ pc' = [pc EXCEPT ![c] = "applying"]
    /\ UNCHANGED <<plan, next, counters, drafts, hand, at, row, tally, made, fills, crm, history>>

\* The compare-and-swap on the status.
Claim(c) ==
    /\ pc[c] = "claiming"
    /\ status = "dry_run"
    /\ status' = "committing"
    /\ Checkpoint(c, 0)
    /\ pc' = [pc EXCEPT ![c] = "applying"]
    /\ UNCHANGED <<plan, drafts, hand, at, row, tally, made, fills, crm, history>>

\* A request that is over leaves nothing behind but what it wrote; Postgres rolls the
\* batch back that it had open.
Over(c) ==
    /\ pc' = [pc EXCEPT ![c] = "idle"]
    /\ hand' = [hand EXCEPT ![c] = 0]
    /\ at' = [at EXCEPT ![c] = 0]
    /\ row' = [row EXCEPT ![c] = 0]
    /\ tally' = [tally EXCEPT ![c] = Zero]
    /\ made' = [made EXCEPT ![c] = {}]
    /\ fills' = [fills EXCEPT ![c] = {}]

LoseClaim(c) ==
    /\ pc[c] = "claiming"
    /\ status # "dry_run"
    /\ Over(c)
    /\ UNCHANGED <<import, drafts, crm, history>>

\* The checkpoint is written whatever has become of the import since it was read.
Reclaim(c) ==
    /\ pc[c] = "resuming"
    /\ Checkpoint(c, at[c])
    /\ pc' = [pc EXCEPT ![c] = "applying"]
    /\ UNCHANGED <<status, plan, drafts, hand, at, row, tally, made, fills, crm, history>>

\* The row that the open batch comes to next.
Step(c) ==
    /\ pc[c] = "applying"
    /\ row[c] < End(at[c])
    /\ row' = [row EXCEPT ![c] = row[c] + 1]

Instruction(c) == rowsOf[hand[c]][row[c] + 1]

SkipRow(c) ==
    /\ Step(c)
    /\ Instruction(c).does = "nothing"
    /\ UNCHANGED <<import, drafts, pc, hand, at, tally, made, fills, crm, history>>

\* Mutant: a replayed row records its entries again.
CreateAgain(c) ==
    /\ Step(c)
    /\ Instruction(c).does = "create"
    /\ \A x \in Others(c) : Instruction(c).lead \notin made[x]
    /\ made' = [made EXCEPT ![c] = made[c] \cup {Instruction(c).lead}]
    /\ tally' = [tally EXCEPT ![c].leads = tally[c].leads + 1]
    /\ UNCHANGED <<import, drafts, pc, hand, at, fills, crm, history>>

\* INSERT ... ON CONFLICT DO NOTHING: it waits for an open insert of the same id, and
\* a lead that is there keeps its contact and its entries.
CreateLead(c) ==
    /\ Step(c)
    /\ Instruction(c).does = "create"
    /\ \A x \in Others(c) : Instruction(c).lead \notin made[x]
    /\ IF Instruction(c).lead \in leads
       THEN UNCHANGED <<made, tally>>
       ELSE /\ made' = [made EXCEPT ![c] = made[c] \cup {Instruction(c).lead}]
            /\ tally' = [tally EXCEPT ![c].leads = tally[c].leads + 1]
    /\ UNCHANGED <<import, drafts, pc, hand, at, fills, crm, history>>

\* The leads whose rows an open batch has updated.
Held(c) == {rowsOf[f[1]][f[2]].lead : f \in fills[c]} \ deleted

\* A match by domain also gets the row's contact, which needs the lead to be there.
NeedsLead(c) == KeyOf[row[c] + 1] \notin EmailKeys

MergeRow(c) ==
    LET l == Instruction(c).lead
    IN  /\ Step(c)
        /\ Instruction(c).does = "merge"
        /\ \A x \in Others(c) : l \notin Held(x)
        /\ NeedsLead(c) => l \in leads \cup made[c]
        /\ fills' = [fills EXCEPT ![c] = fills[c] \cup {<<hand[c], row[c] + 1>>}]
        /\ tally' = [tally EXCEPT ![c].merged = tally[c].merged + 1]
        /\ UNCHANGED <<import, drafts, pc, hand, at, made, crm, history>>

\* The rows and their entries become visible with the checkpoint.
CommitBatch(c) ==
    /\ pc[c] = "applying"
    /\ at[c] < RowCount
    /\ row[c] = End(at[c])
    /\ leads' = leads \cup made[c]
    /\ entries' = [l \in LeadIds |-> entries[l] + IF l \in made[c] THEN 1 ELSE 0]
    /\ filled' = filled \cup fills[c]
    /\ Checkpoint(c, row[c])
    /\ at' = [at EXCEPT ![c] = row[c]]
    /\ made' = [made EXCEPT ![c] = {}]
    /\ fills' = [fills EXCEPT ![c] = {}]
    /\ UNCHANGED <<status, plan, drafts, pc, hand, row, tally, deleted, history>>

Finalize(c) ==
    /\ pc[c] = "applying"
    /\ at[c] = RowCount
    /\ status' = "committed"
    /\ next' = RowCount
    /\ counters' = tally[c]
    /\ Over(c)
    /\ UNCHANGED <<plan, drafts, crm, history>>

\* A statement throws -- a deadlock, a foreign key, a lost connection -- and the
\* batch rolls back; the counters in memory do not.
Fail(c) ==
    /\ pc[c] = "applying"
    /\ pc' = [pc EXCEPT ![c] = "failing"]
    /\ row' = [row EXCEPT ![c] = at[c]]
    /\ made' = [made EXCEPT ![c] = {}]
    /\ fills' = [fills EXCEPT ![c] = {}]
    /\ UNCHANGED <<import, drafts, hand, at, tally, crm, history>>

RecordFailure(c) ==
    /\ pc[c] = "failing"
    /\ status' = "failed"
    /\ next' = at[c]
    /\ counters' = tally[c]
    /\ Over(c)
    /\ UNCHANGED <<plan, drafts, crm, history>>

\* The process dies.
Crash(c) ==
    /\ pc[c] # "idle"
    /\ Over(c)
    /\ UNCHANGED <<import, drafts, crm, history>>

-----------------------------------------------------------------------------
(* The rest of the CRM *)

Changed == deleted \cup {l \in leads : l[1] = 0 /\ l[2] \notin Known}

SoftDelete(l) ==
    /\ l \in Live
    /\ Cardinality(Changed) < MaxChanges
    /\ \A c \in Committers : l \notin Held(c)
    /\ deleted' = deleted \cup {l}
    /\ UNCHANGED <<import, drafts, request, leads, entries, filled, history>>

\* A rep or another import adds a lead with the key of row r: no index of the schema forbids
\* a second one, and a commit replays its plan without looking for it.
AddLead(r) ==
    /\ <<0, r>> \notin leads
    /\ Cardinality(Changed) < MaxChanges
    /\ leads' = leads \cup {<<0, r>>}
    /\ addedAt' = [addedAt EXCEPT ![r] = built]
    /\ UNCHANGED <<import, drafts, request, deleted, entries, filled, crowded, overlapped>>

-----------------------------------------------------------------------------

Init ==
    /\ status = "uploaded" /\ plan = 0
    /\ next = 0 /\ counters = Zero
    /\ rowsOf = [n \in Plans |-> [r \in Rows |-> Nothing]]
    /\ anyway = {} /\ built = 0
    /\ desk = [d \in Planners |-> "idle"] /\ draft = [d \in Planners |-> 0]
    /\ pc = [c \in Committers |-> "idle"] /\ hand = [c \in Committers |-> 0]
    /\ at = [c \in Committers |-> 0] /\ row = [c \in Committers |-> 0]
    /\ tally = [c \in Committers |-> Zero]
    /\ made = [c \in Committers |-> {}] /\ fills = [c \in Committers |-> {}]
    /\ leads = {0} \X Known /\ deleted = {}
    /\ entries = [l \in LeadIds |-> 0] /\ filled = {}
    /\ crowded = FALSE /\ overlapped = FALSE /\ addedAt = [r \in Rows |-> 0]

DryRun(d) == CheckStatus(d) \/ BuildPlan(d) \/ StorePlan(d) \/ GiveUpPlanning(d)

Commit(c) ==
    \/ LoadPlan(c) \/ LoadCheckpoint(c) \/ Claim(c) \/ LoseClaim(c) \/ Reclaim(c)
    \/ SkipRow(c) \/ CreateLead(c) \/ MergeRow(c) \/ CommitBatch(c) \/ Finalize(c)
    \/ Fail(c) \/ RecordFailure(c) \/ Crash(c)

Next ==
    \/ \E d \in Planners : DryRun(d)
    \/ \E c \in Committers : Commit(c)
    \/ \E l \in LeadIds : SoftDelete(l)
    \/ \E r \in Rivals : AddLead(r)

Spec == Init /\ [][Next]_vars

-----------------------------------------------------------------------------
(* Properties *)

TypeOK ==
    /\ status \in Statuses /\ plan \in 0 .. MaxPlans
    /\ (plan = 0) <=> (status = "uploaded")
    /\ next \in 0 .. RowCount /\ counters \in Counters
    /\ rowsOf \in [Plans -> [Rows -> RowPlan]]
    /\ anyway \subseteq Plans /\ built \in 0 .. MaxPlans
    /\ desk \in [Planners -> {"idle", "checked", "planned"}]
    /\ draft \in [Planners -> 0 .. MaxPlans]
    /\ pc \in [Committers -> PCs]
    /\ hand \in [Committers -> 0 .. MaxPlans]
    /\ at \in [Committers -> 0 .. RowCount] /\ row \in [Committers -> 0 .. RowCount]
    /\ tally \in [Committers -> Counters]
    /\ made \in [Committers -> SUBSET LeadIds]
    /\ fills \in [Committers -> SUBSET (Plans \X Rows)]
    /\ leads \subseteq LeadIds /\ deleted \subseteq leads
    /\ entries \in [LeadIds -> Nat] /\ filled \subseteq Plans \X Rows
    /\ crowded \in BOOLEAN /\ overlapped \in BOOLEAN /\ addedAt \in [Rows -> 0 .. MaxPlans]

(* "import_created + lead_created, once each": whatever commits replay, side *)
(* by side, resumed or of plans that have been replaced, each lead they made *)
(* has its entries once, and no entry is of a lead that is not there.        *)
LeadsAreCreatedOnce ==
    \A l \in LeadIds : entries[l] = IF l \in leads /\ l[1] > 0 THEN 1 ELSE 0

Applied(p, r) ==
    /\ rowsOf[p][r].does = "create" => rowsOf[p][r].lead \in leads
    /\ rowsOf[p][r].does = "merge" => <<p, r>> \in filled

(* "a crash between batches resumes at a batch boundary": every row below    *)
(* the checkpoint is in the CRM, and every row of the plan once the import   *)
(* is committed, however many commits write checkpoints over each other --   *)
(* unless a dry run ran beside a commit and put another plan under it.       *)
CheckpointCovers ==
    (status \in {"committing", "committed", "failed"} /\ ~ overlapped) =>
        \A r \in 1 .. (IF status = "committed" THEN RowCount ELSE next) : Applied(plan, r)

\* Plan n was built with l in the CRM: its snapshot had it, if it was not deleted.
CouldSee(n, l) == l[1] = 0 => n > addedAt[l[2]]

(* Dedupe across the file, the CRM and earlier attempts: a commit of a plan  *)
(* that skips or merges duplicates never adds a lead beside a live one with  *)
(* the same key -- whether the plan found it, this import made it, or a      *)
(* first attempt that failed half way did.  What nobody checks again is what *)
(* others have added since the plan was built, and a dry run beside a commit *)
(* plans without the leads that the commit is about to make.                 *)
NoSecondLead ==
    [][\A l \in leads' \ leads : \A k \in leads' \ deleted' :
          (/\ l[1] \in Plans \ anyway /\ ~ overlapped
           /\ CouldSee(l[1], k) /\ LeadKey(k) = LeadKey(l)) => k = l]_vars

Creates(p) == {r \in Rows : rowsOf[p][r].does = "create"}
Merges(p)  == {r \in Rows : rowsOf[p][r].does = "merge"}

(* A committed import reports the leads and merges of its plan, through      *)
(* crashes and resumed commits, and never more.  It may report fewer when    *)
(* two commits ran side by side: the one that reports does not count leads   *)
(* that it found, and the slower one overwrites the final counters.          *)
CountersAreTrue ==
    (status = "committed" /\ ~ overlapped) =>
        /\ counters.merged <= Cardinality(Merges(plan))
        /\ counters.leads <= Cardinality(Creates(plan))
        /\ ~ crowded => /\ counters.merged = Cardinality(Merges(plan))
                        /\ counters.leads = Cardinality(Creates(plan))

=============================================================================
