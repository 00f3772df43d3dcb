------------------------ MODULE ImportRun_proofs --------------------------
(***************************************************************************)
(* The inductive invariant of ImportRun and the theorems it gives: what    *)
(* commits replay is applied once, the checkpoint covers its rows, the     *)
(* counters count them, and no second lead joins a live one with its key   *)
(* that the plan could see, for any file, batch size and number of         *)
(* requests, crashes, failures and leads that others add meanwhile.        *)
(***************************************************************************)
EXTENDS ImportRun, FiniteSetTheorems, WellFoundedInduction, TLAPS

\* A row that creates a lead has its own id for it, and a plan that is not built is empty.
PlansAreBuilt ==
    \A n \in Plans : \A r \in Rows :
        /\ rowsOf[n][r].does = "create" => rowsOf[n][r].lead = <<n, r>>
        /\ n > built => rowsOf[n][r] = Nothing

\* Whatever is stored, drafted or replayed is a plan that is built.
PlansAreKnown ==
    /\ plan <= built
    /\ \A d \in Planners : draft[d] <= built /\ (desk[d] = "planned" => draft[d] # 0)
    /\ \A c \in Committers : hand[c] <= built /\ (pc[c] # "idle" => hand[c] # 0 /\ plan # 0)

Typed == TypeOK /\ PlansAreBuilt /\ PlansAreKnown

\* What an open batch has inserted is its own, and nobody else's.
OpenInserts ==
    \A c \in Committers : \A l \in made[c] :
        /\ pc[c] = "applying" /\ l \notin leads
        /\ l = <<hand[c], l[2]>> /\ rowsOf[hand[c]][l[2]].does = "create"
        /\ \A x \in Others(c) : l \notin made[x]

CreateInv == OpenInserts /\ LeadsAreCreatedOnce

\* A row that the open batch of c has come past.
InHand(c, r) ==
    /\ rowsOf[plan][r].does = "create" => rowsOf[plan][r].lead \in leads \cup made[c]
    /\ rowsOf[plan][r].does = "merge" => <<plan, r>> \in filled \cup fills[c]

\* The commit c replays the stored plan, and every row it has come past is applied or in
\* its batch.
Covers(c) ==
    /\ hand[c] = plan /\ at[c] <= row[c]
    /\ pc[c] # "applying" => row[c] = at[c]
    /\ \A r \in 1 .. at[c] : Applied(plan, r)
    /\ \A r \in at[c] + 1 .. row[c] : InHand(c, r)

\* Without an overlap all commits do.
Replayed ==
    ~ overlapped =>
        /\ Busy = {} \/ Planning = {}
        /\ \A c \in Busy : Covers(c)

CoverInv == Replayed /\ CheckpointCovers

\* Of a plan that minds duplicates: its new leads have different keys ...
KeysDiffer ==
    \A n \in Plans \ anyway : \A r, s \in Rows :
        (/\ rowsOf[n][r].does = "create"
         /\ rowsOf[n][s].does = "create"
         /\ KeyOf[r] = KeyOf[s]) => r = s

\* ... that no live lead has which the plan could see.
Fresh(n) ==
    \A r \in Rows : \A l \in Live :
        (/\ n \notin anyway /\ rowsOf[n][r].does = "create"
         /\ CouldSee(n, l) /\ LeadKey(l) = KeyOf[r]) => l = <<n, r>>

FreshInv ==
    /\ KeysDiffer
    /\ ~ overlapped =>
          /\ plan # 0 => Fresh(plan)
          /\ \A d \in Planners : desk[d] = "planned" => Fresh(draft[d])


-----------------------------------------------------------------------------
(* Plans *)

LEMMA File ==
    /\ RowCount \in Nat /\ BatchSize \in Nat \ {0} /\ MaxPlans \in Nat
    /\ KeyOf \in [Rows -> Keys]
    /\ Rows \subseteq Nat /\ 0 \notin Rows
    /\ Plans \subseteq Nat /\ 0 \notin Plans
    /\ \A n \in Plans, r \in Rows : <<n, r>> \in LeadIds
    /\ NoLead \notin LeadIds
BY FileAssumption, BoundsAssumption DEF Rows, Plans, LeadIds, NoLead

\* A nonempty set of rows has a first one.
LEMMA FirstRow ==
    ASSUME NEW S \in SUBSET Nat, S # {}
    PROVE  \E x \in S : \A y \in S : x <= y
<1>1. PICK x \in S : \A y \in S : <<y, x>> \notin OpToRel(<, Nat)
  BY WFMin, NatLessThanWellFounded, Zenon
<1>2. \A y \in S : ~ (y < x)
  BY <1>1, Zenon DEF OpToRel
<1> QED
  BY <1>2

\* Matching gives a lead that is there or that an earlier row of the file makes.
LEMMA MatchType ==
    ASSUME leads \subseteq LeadIds, NEW s \in Snapshots, NEW n \in Plans, NEW r \in Rows
    PROVE  Match(s, n, r) \in LeadIds \cup {NoLead}
<1>1. s[KeyOf[r]] \in LeadIds \cup {NoLead}
  BY File DEF Snapshots
<1>2. ASSUME Earlier(r) # {}
      PROVE  (CHOOSE x \in Earlier(r) : \A y \in Earlier(r) : x <= y) \in Rows
  <2>1. Earlier(r) \subseteq Rows
    BY File DEF Earlier, Rows
  <2>2. \E x \in Earlier(r) : \A y \in Earlier(r) : x <= y
    BY <1>2, <2>1, File, FirstRow
  <2> QED
    BY <2>1, <2>2
<1> QED
  BY <1>1, <1>2, File DEF Match

LEMMA PlannedType ==
    ASSUME leads \subseteq LeadIds, NEW s \in Snapshots, NEW a \in DedupeActions,
           NEW n \in Plans, NEW r \in Rows
    PROVE  /\ Planned(s, a, n, r) \in RowPlan
           /\ Planned(s, a, n, r).does = "create" => Planned(s, a, n, r).lead = <<n, r>>
BY MatchType, File DEF Planned, Create, Nothing, RowPlan

\* A row that makes a lead where duplicates matter has found nothing, in the CRM or in
\* the file.
LEMMA PlannedFresh ==
    ASSUME leads \subseteq LeadIds, NEW s \in Snapshots, NEW a \in DedupeActions, a # "create-anyway",
           NEW n \in Plans, NEW r \in Rows, Planned(s, a, n, r).does = "create"
    PROVE  Matching(KeyOf[r]) = {} /\ Earlier(r) = {} /\ r \notin Unusable \cup Nameless
<1>1. r \notin Unusable \cup Nameless /\ Match(s, n, r) = NoLead
  BY DEF Planned, Create, Nothing
<1>2. s[KeyOf[r]] = NoLead /\ Earlier(r) = {}
  BY <1>1, File DEF Match, NoLead
<1>3. Matching(KeyOf[r]) = {}
  BY <1>2, File DEF Snapshots, Matching
<1> QED
  BY <1>1, <1>2, <1>3

-----------------------------------------------------------------------------
(* Types *)

LEMMA InstructionType ==
    ASSUME Typed, NEW c \in Committers, Step(c)
    PROVE  /\ row[c] + 1 \in Rows /\ hand[c] \in Plans
           /\ Instruction(c) \in RowPlan
           /\ Instruction(c).does = "create" => Instruction(c).lead = <<hand[c], row[c] + 1>>
<1>1. row[c] + 1 \in Rows /\ hand[c] \in Plans
  BY File DEF Typed, TypeOK, PlansAreKnown, Step, End, Rows, Plans
<1> QED
  BY <1>1, File DEF Typed, TypeOK, PlansAreBuilt, Instruction

LEMMA OneMoreLead ==
    ASSUME NEW t \in Counters
    PROVE  [t EXCEPT !.leads = t.leads + 1] \in Counters
BY DEF Counters

LEMMA TypedStep ==
    ASSUME Typed, [Next]_vars
    PROVE  Typed'
<1> USE DEF Typed, TypeOK, PlansAreKnown, PlansAreBuilt
<1> USE DEF vars, import, drafts, request, crm, history
<1>1. ASSUME NEW d \in Planners, CheckStatus(d) PROVE Typed'
  BY <1>1, File DEF CheckStatus
<1>2. ASSUME NEW d \in Planners, BuildPlan(d) PROVE Typed'
  <2>1. PICK s \in Snapshots, a \in DedupeActions :
            /\ rowsOf' = [rowsOf EXCEPT ![built + 1] = [r \in Rows |-> Planned(s, a, built + 1, r)]]
            /\ anyway' = IF a = "create-anyway" THEN anyway \cup {built + 1} ELSE anyway
    BY <1>2 DEF BuildPlan
  <2>2. built + 1 \in Plans
    BY <1>2, File DEF BuildPlan, Plans
  <2>3. \A r \in Rows :
            /\ Planned(s, a, built + 1, r) \in RowPlan
            /\ Planned(s, a, built + 1, r).does = "create" =>
                  Planned(s, a, built + 1, r).lead = <<built + 1, r>>
    BY <2>2, PlannedType
  <2>4. rowsOf' \in [Plans -> [Rows -> RowPlan]] /\ PlansAreBuilt'
    <3> DEFINE new == [r \in Rows |-> Planned(s, a, built + 1, r)]
    <3>0. new \in [Rows -> RowPlan]
      BY <2>3
    <3>1. rowsOf' \in [Plans -> [Rows -> RowPlan]]
      <4> HIDE DEF new
      <4>1. rowsOf' = [rowsOf EXCEPT ![built + 1] = new]
        BY <2>1 DEF new
      <4> QED
        BY <4>1, <3>0, <2>2
    <3>2. ASSUME NEW n \in Plans, n # built + 1 PROVE rowsOf'[n] = rowsOf[n]
      BY <2>1, <3>2
    <3>3. rowsOf'[built + 1] = [r \in Rows |-> Planned(s, a, built + 1, r)]
      BY <2>1, <2>2
    <3>4. built' = built + 1
      BY <1>2 DEF BuildPlan
    <3> QED
      BY <2>3, <3>1, <3>2, <3>3, <3>4, File
  <2>5. UNCHANGED <<import, request, crm, history>> /\ built' = built + 1
    BY <1>2 DEF BuildPlan
  <2>6. desk' = [desk EXCEPT ![d] = "planned"] /\ draft' = [draft EXCEPT ![d] = built + 1]
    BY <1>2 DEF BuildPlan
  <2>7. anyway' \subseteq Plans /\ built' \in 0 .. MaxPlans /\ built + 1 \in 0 .. MaxPlans
    BY <2>1, <2>2, <2>5, File DEF Plans
  <2>8. TypeOK'
    BY <2>4, <2>5, <2>6, <2>7
  <2>9. PlansAreKnown'
    BY <2>2, <2>5, <2>6, File
  <2> QED
    BY <2>4, <2>8, <2>9
<1>3. ASSUME NEW d \in Planners, StorePlan(d) PROVE Typed'
  BY <1>3, File DEF StorePlan, Statuses
<1>4. ASSUME NEW d \in Planners, GiveUpPlanning(d) PROVE Typed'
  BY <1>4, File DEF GiveUpPlanning
<1>5. ASSUME NEW c \in Committers, LoadPlan(c) PROVE Typed'
  BY <1>5, File DEF LoadPlan, PCs, Zero, Counters
<1>6. ASSUME NEW c \in Committers, LoadCheckpoint(c) PROVE Typed'
  BY <1>6, File DEF LoadCheckpoint, PCs
<1>7. ASSUME NEW c \in Committers, Claim(c) PROVE Typed'
  BY <1>7, File DEF Claim, Checkpoint, PCs, Statuses
<1>8. ASSUME NEW c \in Committers, LoseClaim(c) PROVE Typed'
  BY <1>8, File DEF LoseClaim, Over, PCs, Zero, Counters
<1>9. ASSUME NEW c \in Committers, Reclaim(c) PROVE Typed'
  BY <1>9, File DEF Reclaim, Checkpoint, PCs
<1>10. ASSUME NEW c \in Committers, SkipRow(c) PROVE Typed'
  <2>1. /\ row[c] + 1 \in Rows /\ hand[c] \in Plans
        /\ Instruction(c) \in RowPlan
        /\ Instruction(c).does = "create" => Instruction(c).lead = <<hand[c], row[c] + 1>>
    BY <1>10, InstructionType DEF SkipRow
  <2>2. row[c] + 1 \in 0 .. RowCount
    BY <2>1 DEF Rows
  <2> QED
    BY <1>10, <2>1, <2>2, File DEF SkipRow, Step
<1>11. ASSUME NEW c \in Committers, CreateLead(c) PROVE Typed'
  <2>1. /\ row[c] + 1 \in Rows /\ hand[c] \in Plans
        /\ Instruction(c) \in RowPlan
        /\ Instruction(c).does = "create" => Instruction(c).lead = <<hand[c], row[c] + 1>>
    BY <1>11, InstructionType DEF CreateLead
  <2>2. row[c] + 1 \in 0 .. RowCount
    BY <2>1 DEF Rows
  <2>3. /\ made' \in [Committers -> SUBSET LeadIds]
        /\ tally' \in [Committers -> Counters]
    <3>1. CASE Instruction(c).lead \in leads
      BY <1>11, <3>1 DEF CreateLead
    <3>2. CASE Instruction(c).lead \notin leads
      <4>1. Instruction(c).lead \in LeadIds
        BY <1>11, <2>1, File DEF CreateLead
      <4>2. tally[c] \in Counters
        OBVIOUS
      <4>3. [tally[c] EXCEPT !.leads = tally[c].leads + 1] \in Counters
        BY <4>2, OneMoreLead
      <4>4. tally' = [tally EXCEPT ![c] = [tally[c] EXCEPT !.leads = tally[c].leads + 1]]
        BY <1>11, <3>2 DEF CreateLead
      <4> QED
        BY <1>11, <3>2, <4>1, <4>3, <4>4 DEF CreateLead
    <3> QED
      BY <3>1, <3>2
  <2> QED
    BY <1>11, <2>2, <2>3 DEF CreateLead, Step
<1>12. ASSUME NEW c \in Committers, MergeRow(c) PROVE Typed'
  <2>1. /\ row[c] + 1 \in Rows /\ hand[c] \in Plans
        /\ Instruction(c) \in RowPlan
        /\ Instruction(c).does = "create" => Instruction(c).lead = <<hand[c], row[c] + 1>>
    BY <1>12, InstructionType DEF MergeRow
  <2>2. row[c] + 1 \in 0 .. RowCount
    BY <2>1 DEF Rows
  <2> QED
    BY <1>12, <2>1, <2>2, File DEF MergeRow, Step, Counters
<1>13. ASSUME NEW c \in Committers, CommitBatch(c) PROVE Typed'
  BY <1>13, File DEF CommitBatch, Checkpoint, PCs, Rows
<1>14. ASSUME NEW c \in Committers, Finalize(c) PROVE Typed'
  BY <1>14, File DEF Finalize, Over, PCs, Zero, Counters, Statuses
<1>15. ASSUME NEW c \in Committers, Fail(c) PROVE Typed'
  BY <1>15, File DEF Fail, PCs
<1>16. ASSUME NEW c \in Committers, RecordFailure(c) PROVE Typed'
  BY <1>16, File DEF RecordFailure, Over, PCs, Zero, Counters, Statuses
<1>17. ASSUME NEW c \in Committers, Crash(c) PROVE Typed'
  BY <1>17, File DEF Crash, Over, PCs, Zero, Counters
<1>18. ASSUME NEW l \in LeadIds, SoftDelete(l) PROVE Typed'
  BY <1>18 DEF SoftDelete, Live
<1>19. CASE UNCHANGED vars
  BY <1>19
<1>20. ASSUME NEW r \in Rivals, AddLead(r) PROVE Typed'
  <2>1. r \in Rows /\ <<0, r>> \in LeadIds /\ built \in 0 .. MaxPlans
    BY File, FileAssumption DEF LeadIds
  <2> QED
    BY <1>20, <2>1 DEF AddLead
<1> QED
  BY <1>1, <1>2, <1>3, <1>4, <1>5, <1>6, <1>7, <1>8, <1>9, <1>10, <1>11, <1>12, <1>13, <1>14, <1>15, <1>16, <1>17, <1>18, <1>19, <1>20 DEF Next, DryRun, Commit

-----------------------------------------------------------------------------
(* Leads are made once *)

\* Rows of plans that are built, and what batches have inserted of them, stay.
LEMMA PlansStay ==
    ASSUME Typed, [Next]_vars, NEW n \in Plans, n <= built, NEW r \in Rows
    PROVE  rowsOf'[n][r] = rowsOf[n][r] /\ (n \in anyway' <=> n \in anyway)
<1> USE DEF vars, import, drafts, request, crm, history
<1>1. ASSUME NEW d \in Planners, BuildPlan(d) PROVE rowsOf'[n][r] = rowsOf[n][r] /\ (n \in anyway' <=> n \in anyway)
  BY <1>1, File DEF BuildPlan, Typed, TypeOK
<1>2. CASE UNCHANGED <<rowsOf, anyway>>
  BY <1>2
<1>3. ASSUME NEW c \in Committers, Commit(c) PROVE UNCHANGED <<rowsOf, anyway>>
  BY <1>3 DEF Commit, LoadPlan, LoadCheckpoint, Claim, LoseClaim, Reclaim, SkipRow, CreateLead,
              MergeRow, CommitBatch, Finalize, Fail, RecordFailure, Crash
<1> QED
  BY <1>1, <1>2, <1>3 DEF Next, DryRun, CheckStatus, StorePlan, GiveUpPlanning, SoftDelete, AddLead

\* What a commit inserts are leads that other rows and plans do not name.
LEMMA CreateStep ==
    ASSUME Typed, CreateInv, [Next]_vars
    PROVE  CreateInv'
<1> USE DEF vars, import, drafts, request, crm, history
<1>0. \A c \in Committers : \A l \in made[c] : hand[c] \in Plans /\ l[2] \in Rows /\ l \in LeadIds
  BY File DEF Typed, TypeOK, PlansAreKnown, CreateInv, OpenInserts, LeadIds, Plans
<1>1. \A c \in Committers : \A l \in made[c] : rowsOf'[hand[c]][l[2]] = rowsOf[hand[c]][l[2]]
  BY <1>0, PlansStay DEF Typed, PlansAreKnown
<1>2. CASE UNCHANGED <<made, leads, entries, hand, pc>>
  BY <1>1, <1>2 DEF CreateInv, OpenInserts, LeadsAreCreatedOnce, Others
<1>3. ASSUME NEW c \in Committers, made[c] = {}, made' = made, UNCHANGED <<leads, entries>>,
             \A x \in Others(c) : hand'[x] = hand[x] /\ pc'[x] = pc[x]
      PROVE  CreateInv'
  <2>1. \A x \in Committers : \A l \in made[x] : hand'[x] = hand[x] /\ pc'[x] = pc[x]
    BY <1>3 DEF Others
  <2> QED
    BY <1>1, <1>3, <2>1 DEF CreateInv, OpenInserts, LeadsAreCreatedOnce, Others
<1>4. ASSUME NEW c \in Committers, made' = [made EXCEPT ![c] = {}], UNCHANGED <<leads, entries>>,
             \A x \in Others(c) : hand'[x] = hand[x] /\ pc'[x] = pc[x]
      PROVE  CreateInv'
  <2>1. \A x \in Committers : \A l \in made'[x] :
            hand'[x] = hand[x] /\ pc'[x] = pc[x] /\ l \in made[x]
    BY <1>4 DEF Others, Typed, TypeOK
  <2>2. \A x \in Committers : made'[x] \subseteq made[x]
    BY <1>4 DEF Typed, TypeOK
  <2> QED
    BY <1>1, <1>4, <2>1, <2>2 DEF CreateInv, OpenInserts, LeadsAreCreatedOnce, Others
<1>5. ASSUME NEW c \in Committers, CreateLead(c) PROVE CreateInv'
  <2>1. CASE Instruction(c).lead \in leads
    BY <1>2, <1>5, <2>1 DEF CreateLead, Step
  <2>2. CASE Instruction(c).lead \notin leads
    <3> DEFINE l == Instruction(c).lead
    <3>1. /\ row[c] + 1 \in Rows /\ hand[c] \in Plans /\ hand[c] <= built
          /\ l = <<hand[c], row[c] + 1>> /\ l[2] = row[c] + 1
          /\ rowsOf[hand[c]][l[2]].does = "create"
      BY <1>5, InstructionType DEF CreateLead, Typed, PlansAreKnown, Instruction
    <3>2. rowsOf'[hand[c]][l[2]] = rowsOf[hand[c]][l[2]]
      BY <3>1, PlansStay
    <3>3. /\ made'[c] = made[c] \cup {l} /\ \A x \in Others(c) : made'[x] = made[x] /\ l \notin made[x]
          /\ pc[c] = "applying" /\ UNCHANGED <<pc, hand, leads, entries>>
      BY <1>5, <2>2 DEF CreateLead, Step, Others, Typed, TypeOK
    <3> HIDE DEF l
    <3>4. l \notin leads
      BY <2>2 DEF l
    <3>5. OpenInserts'
      BY <1>1, <3>1, <3>2, <3>3, <3>4 DEF CreateInv, OpenInserts, Others
    <3> QED
      BY <3>3, <3>5 DEF CreateInv, LeadsAreCreatedOnce
  <2> QED
    BY <2>1, <2>2
<1>6. ASSUME NEW c \in Committers, CommitBatch(c) PROVE CreateInv'
  <2>1. /\ leads' = leads \cup made[c] /\ made'[c] = {}
        /\ \A x \in Others(c) : made'[x] = made[x]
        /\ entries' = [l \in LeadIds |-> entries[l] + IF l \in made[c] THEN 1 ELSE 0]
        /\ UNCHANGED <<pc, hand>>
    BY <1>6 DEF CommitBatch, Others, Typed, TypeOK
  <2>2. OpenInserts'
    BY <1>1, <2>1 DEF CreateInv, OpenInserts, Others
  <2>3. ASSUME NEW l \in LeadIds PROVE entries'[l] = IF l \in leads' /\ l[1] > 0 THEN 1 ELSE 0
    <3>1. l \in made[c] => l \notin leads /\ l[1] > 0
      BY <1>0, File DEF CreateInv, OpenInserts, Plans
    <3>2. entries'[l] = entries[l] + IF l \in made[c] THEN 1 ELSE 0
      BY <2>1
    <3> QED
      BY <2>1, <3>1, <3>2 DEF CreateInv, LeadsAreCreatedOnce
  <2> QED
    BY <2>2, <2>3 DEF CreateInv, LeadsAreCreatedOnce
<1>7. ASSUME NEW c \in Committers, Commit(c) PROVE CreateInv'
  <2>1. CASE LoadPlan(c) \/ LoadCheckpoint(c) \/ Claim(c) \/ Reclaim(c)
    <3>1. made[c] = {}
      BY <2>1 DEF LoadPlan, LoadCheckpoint, Claim, Reclaim, CreateInv, OpenInserts
    <3>2. \A x \in Others(c) : hand'[x] = hand[x] /\ pc'[x] = pc[x]
      BY <2>1 DEF LoadPlan, LoadCheckpoint, Claim, Reclaim, Others, Typed, TypeOK
    <3> QED
      BY <1>3, <2>1, <3>1, <3>2 DEF LoadPlan, LoadCheckpoint, Claim, Reclaim
  <2>2. CASE LoseClaim(c) \/ Finalize(c) \/ RecordFailure(c) \/ Crash(c) \/ Fail(c)
    <3>1. \A x \in Others(c) : hand'[x] = hand[x] /\ pc'[x] = pc[x]
      BY <2>2 DEF LoseClaim, Finalize, RecordFailure, Crash, Fail, Over, Others, Typed, TypeOK
    <3> QED
      BY <1>4, <2>2, <3>1 DEF LoseClaim, Finalize, RecordFailure, Crash, Fail, Over
  <2>3. CASE SkipRow(c) \/ MergeRow(c)
    BY <1>2, <2>3 DEF SkipRow, MergeRow, Step
  <2> QED
    BY <1>5, <1>6, <1>7, <2>1, <2>2, <2>3 DEF Commit
<1>8. ASSUME NEW r \in Rivals, AddLead(r) PROVE CreateInv'
  <2>1. leads' = leads \cup {<<0, r>>} /\ UNCHANGED <<made, entries, hand, pc>>
    BY <1>8 DEF AddLead
  <2>2. \A c \in Committers : <<0, r>> \notin made[c]
    BY <1>0, File DEF CreateInv, OpenInserts
  <2>3. OpenInserts'
    BY <1>1, <2>1, <2>2 DEF CreateInv, OpenInserts, Others
  <2>4. LeadsAreCreatedOnce'
    BY <2>1 DEF CreateInv, LeadsAreCreatedOnce
  <2> QED
    BY <2>3, <2>4 DEF CreateInv
<1> QED
  BY <1>2, <1>7, <1>8
  DEF Next, DryRun, CheckStatus, BuildPlan, StorePlan, GiveUpPlanning, SoftDelete

-----------------------------------------------------------------------------
(* The checkpoint *)

\* What is applied stays applied.
LEMMA AppliedStays ==
    ASSUME Typed, [Next]_vars, plan' = plan, plan # 0, NEW r \in Rows
    PROVE  /\ Applied(plan, r) => Applied(plan, r)'
           /\ rowsOf'[plan'][r] = rowsOf[plan][r]
           /\ leads \subseteq leads' /\ filled \subseteq filled'
           /\ rowsOf[plan][r] \in RowPlan
<1>1. plan \in Plans /\ plan <= built
  BY File DEF Typed, TypeOK, PlansAreKnown, Plans
<1>2. rowsOf'[plan'][r] = rowsOf[plan][r] /\ rowsOf[plan][r] \in RowPlan
  BY <1>1, PlansStay DEF Typed, TypeOK
<1>3. leads \subseteq leads' /\ filled \subseteq filled'
  BY DEF Next, DryRun, Commit, vars, import, drafts, request, crm, history,
         CheckStatus, BuildPlan, StorePlan, GiveUpPlanning, LoadPlan, LoadCheckpoint, Claim,
         LoseClaim, Reclaim, SkipRow, CreateLead, MergeRow, CommitBatch, Finalize, Fail,
         RecordFailure, Crash, SoftDelete, AddLead
<1> QED
  BY <1>2, <1>3 DEF Applied

\* A commit that does not move stays covered.
LEMMA CoversStays ==
    ASSUME Typed, [Next]_vars, plan' = plan, plan # 0, NEW c \in Committers, Covers(c),
           pc'[c] = pc[c], hand'[c] = hand[c], at'[c] = at[c], row'[c] = row[c],
           made'[c] = made[c], fills'[c] = fills[c]
    PROVE  Covers(c)'
<1>1. at[c] \in 0 .. RowCount /\ row[c] \in 0 .. RowCount
  BY DEF Typed, TypeOK
<1>2. \A r \in Rows : /\ Applied(plan, r) => Applied(plan, r)'
                      /\ InHand(c, r) => InHand(c, r)'
  BY AppliedStays DEF InHand
<1>3. 1 .. at[c] \subseteq Rows /\ at[c] + 1 .. row[c] \subseteq Rows
  BY <1>1, File DEF Rows
<1> QED
  BY <1>2, <1>3 DEF Covers

\* Rows below a bound are rows of the file.
LEMMA RowsUpTo ==
    ASSUME NEW i \in 0 .. RowCount, NEW j \in 0 .. RowCount
    PROVE  1 .. i \subseteq Rows /\ i + 1 .. j \subseteq Rows
BY File DEF Rows

\* The checkpoint of an import that a step leaves alone still covers its rows.
LEMMA CheckpointStays ==
    ASSUME Typed, [Next]_vars, CheckpointCovers, UNCHANGED <<status, plan, next>>,
           overlapped => overlapped'
    PROVE  CheckpointCovers'
<1>1. SUFFICES ASSUME status \in {"committing", "committed", "failed"}, ~ overlapped,
                      NEW r \in 1 .. (IF status = "committed" THEN RowCount ELSE next)
               PROVE  Applied(plan, r)'
  BY DEF CheckpointCovers
<1>2. r \in Rows /\ plan # 0
  BY <1>1, File DEF Typed, TypeOK, Rows
<1> QED
  BY <1>1, <1>2, AppliedStays DEF CheckpointCovers

\* Nothing makes an overlap undone.
LEMMA OverlapLatches ==
    ASSUME [Next]_vars, overlapped
    PROVE  overlapped'
BY DEF Next, DryRun, Commit, vars, import, drafts, request, crm, history,
       CheckStatus, BuildPlan, StorePlan, GiveUpPlanning, LoadPlan, LoadCheckpoint, Claim,
       LoseClaim, Reclaim, SkipRow, CreateLead, MergeRow, CommitBatch, Finalize, Fail,
       RecordFailure, Crash, SoftDelete, AddLead

\* Of the commits, only c moves.
Alone(c) ==
    \A x \in Others(c) :
        /\ pc'[x] = pc[x] /\ hand'[x] = hand[x] /\ at'[x] = at[x] /\ row'[x] = row[x]
        /\ made'[x] = made[x] /\ fills'[x] = fills[x]

LEMMA CommitsAlone ==
    ASSUME Typed, NEW c \in Committers, Commit(c)
    PROVE  Alone(c) /\ plan' = plan /\ UNCHANGED <<drafts, deleted>>
BY DEF Commit, Alone, Others, Typed, TypeOK, import, drafts, crm, history, Step, Over, Checkpoint,
       LoadPlan, LoadCheckpoint, Claim, LoseClaim, Reclaim, SkipRow, CreateLead, MergeRow,
       CommitBatch, Finalize, Fail, RecordFailure, Crash

\* The commit that moves stays covered.
LEMMA MoverCovers ==
    ASSUME Typed, CoverInv, ~ overlapped', [Next]_vars, NEW c \in Committers, Commit(c), pc'[c] # "idle"
    PROVE  Covers(c)' /\ plan # 0 /\ Planning = {}
<1> USE DEF import, drafts, request, crm, history
<1>1. ~ overlapped
  BY OverlapLatches
<1>2. plan' = plan
  BY CommitsAlone
<1>3. pc[c] # "idle" => Covers(c) /\ Planning = {} /\ plan # 0
  BY <1>1 DEF CoverInv, Replayed, Busy, Typed, PlansAreKnown
<1>4. at[c] \in 0 .. RowCount /\ row[c] \in 0 .. RowCount /\ next \in 0 .. RowCount
  BY DEF Typed, TypeOK
<1>5. CASE LoadPlan(c)
  <2>1. pc'[c] = "claiming" /\ hand'[c] = plan /\ at'[c] = 0 /\ row'[c] = 0 /\ plan # 0 /\ Planning = {}
    BY <1>5 DEF LoadPlan, Typed, TypeOK
  <2> QED
    BY <1>2, <2>1 DEF Covers
<1>6. CASE LoadCheckpoint(c)
  <2>1. /\ pc'[c] = "resuming" /\ hand'[c] = plan /\ at'[c] = next /\ row'[c] = next
        /\ plan # 0 /\ Planning = {}
    BY <1>6 DEF LoadCheckpoint, Typed, TypeOK
  <2>2. \A r \in 1 .. next : Applied(plan, r)
    BY <1>1, <1>6 DEF LoadCheckpoint, CoverInv, CheckpointCovers
  <2>3. \A r \in 1 .. next : Applied(plan, r)'
    BY <1>2, <1>4, <2>1, <2>2, AppliedStays, RowsUpTo
  <2> QED
    BY <1>2, <1>4, <2>1, <2>3 DEF Covers
<1>7. CASE Claim(c) \/ Reclaim(c)
  <2>1. /\ pc[c] \in {"claiming", "resuming"} /\ pc'[c] = "applying"
        /\ UNCHANGED <<hand, at, row, made, fills, leads, filled>>
    BY <1>7 DEF Claim, Reclaim, Typed, TypeOK
  <2>2. Covers(c) /\ plan # 0 /\ Planning = {}
    BY <1>3, <2>1
  <2>3. \A r \in 1 .. at[c] : Applied(plan, r)'
    BY <1>2, <1>4, <2>2, AppliedStays, RowsUpTo DEF Covers
  <2>4. row[c] = at[c]
    BY <2>1, <2>2 DEF Covers
  <2> QED
    BY <1>2, <1>4, <2>1, <2>2, <2>3, <2>4 DEF Covers
<1>8. CASE SkipRow(c) \/ CreateLead(c) \/ MergeRow(c)
  <2>1. pc[c] = "applying" /\ pc' = pc /\ at' = at /\ hand' = hand /\ row'[c] = row[c] + 1
    BY <1>8 DEF SkipRow, CreateLead, MergeRow, Step, Typed, TypeOK
  <2>2. Covers(c) /\ plan # 0 /\ Planning = {}
    BY <1>3, <2>1
  <2>3. row[c] + 1 \in Rows /\ Instruction(c) = rowsOf[plan][row[c] + 1]
    BY <1>8, <2>2, InstructionType DEF SkipRow, CreateLead, MergeRow, Covers, Instruction
  <2>4. made[c] \subseteq made'[c] /\ fills[c] \subseteq fills'[c]
    BY <1>8 DEF SkipRow, CreateLead, MergeRow, Typed, TypeOK
  <2>5. \A r \in Rows : (Applied(plan, r) => Applied(plan, r)') /\ (InHand(c, r) => InHand(c, r)')
    BY <1>2, <2>2, <2>4, AppliedStays DEF InHand
  <2>6. ASSUME NEW r \in Rows, r = row[c] + 1 PROVE InHand(c, r)'
    <3>1. /\ Instruction(c).does = "create" => Instruction(c).lead \in leads' \cup made'[c]
          /\ Instruction(c).does = "merge" => <<plan, row[c] + 1>> \in fills'[c]
      BY <1>8, <2>2 DEF SkipRow, CreateLead, MergeRow, Typed, TypeOK, Covers
    <3> QED
      BY <1>2, <2>2, <2>3, <2>6, <3>1, AppliedStays DEF InHand
  <2>7. \A r \in at[c] + 1 .. row[c] + 1 : r \in at[c] + 1 .. row[c] \/ r = row[c] + 1
    BY <1>4
  <2> QED
    <3>1. \A r \in 1 .. at[c] : Applied(plan, r)'
      BY <1>4, <2>2, <2>5, RowsUpTo DEF Covers
    <3>2. \A r \in at[c] + 1 .. row[c] + 1 : InHand(c, r)'
      BY <1>4, <2>2, <2>3, <2>5, <2>6, <2>7, RowsUpTo DEF Covers
    <3> QED
      BY <1>2, <1>4, <2>1, <2>2, <3>1, <3>2 DEF Covers
<1>9. CASE CommitBatch(c)
  <2>1. /\ pc[c] = "applying" /\ pc' = pc /\ hand' = hand /\ row' = row /\ at'[c] = row[c]
        /\ leads' = leads \cup made[c] /\ filled' = filled \cup fills[c]
    BY <1>9 DEF CommitBatch, Typed, TypeOK
  <2>2. Covers(c) /\ plan # 0 /\ Planning = {}
    BY <1>3, <2>1
  <2>3. \A r \in Rows : (Applied(plan, r) \/ InHand(c, r)) => Applied(plan, r)'
    BY <1>2, <2>1, <2>2, AppliedStays DEF InHand, Applied
  <2>4. \A r \in 1 .. row[c] : r \in 1 .. at[c] \/ r \in at[c] + 1 .. row[c]
    BY <1>4
  <2> QED
    BY <1>2, <1>4, <2>1, <2>2, <2>3, <2>4, RowsUpTo DEF Covers
<1>10. CASE Fail(c)
  <2>1. /\ pc[c] = "applying" /\ pc'[c] = "failing" /\ hand' = hand /\ row'[c] = at[c] /\ at' = at
    BY <1>10 DEF Fail, Typed, TypeOK
  <2>2. Covers(c) /\ plan # 0 /\ Planning = {}
    BY <1>3, <2>1
  <2>3. \A r \in 1 .. at[c] : Applied(plan, r)'
    BY <1>2, <1>4, <2>2, AppliedStays, RowsUpTo DEF Covers
  <2> QED
    BY <1>2, <1>4, <2>1, <2>2, <2>3 DEF Covers
<1>11. CASE LoseClaim(c) \/ Finalize(c) \/ RecordFailure(c) \/ Crash(c)
  BY <1>11 DEF LoseClaim, Finalize, RecordFailure, Crash, Over, Typed, TypeOK
<1> QED
  BY <1>5, <1>6, <1>7, <1>8, <1>9, <1>10, <1>11 DEF Commit

\* The checkpoint that a commit writes covers its rows.
LEMMA CheckpointStep ==
    ASSUME Typed, CoverInv, [Next]_vars
    PROVE  CheckpointCovers'
<1> USE DEF vars, import, drafts, request, crm, history
<1>1. overlapped => overlapped'
  BY OverlapLatches
<1>2. CASE UNCHANGED <<status, plan, next>>
  BY <1>1, <1>2, CheckpointStays DEF CoverInv
<1>3. ASSUME NEW d \in Planners, StorePlan(d) PROVE CheckpointCovers'
  BY <1>3 DEF StorePlan, CheckpointCovers
<1>4. ASSUME NEW c \in Committers, Claim(c) PROVE CheckpointCovers'
  BY <1>4 DEF Claim, Checkpoint, CheckpointCovers
<1>5. ASSUME NEW c \in Committers, pc[c] # "idle", ~ overlapped', plan' = plan,
             NEW i \in 0 .. RowCount, next' = i,
             \A r \in 1 .. i : Applied(plan, r)',
             (status' = "committed" => i = RowCount) \/ status' = status
      PROVE  CheckpointCovers'
  <2>1. plan # 0 /\ ~ overlapped
    BY <1>1, <1>5 DEF Typed, PlansAreKnown
  <2>2. ASSUME status = "committed", NEW r \in 1 .. RowCount PROVE Applied(plan, r)'
    <3>1. Applied(plan, r)
      BY <2>1, <2>2 DEF CoverInv, CheckpointCovers
    <3> QED
      BY <1>5, <2>1, <3>1, AppliedStays DEF Rows
  <2> QED
    BY <1>5, <2>2 DEF CheckpointCovers
<1>6. ASSUME NEW c \in Committers, Reclaim(c) \/ CommitBatch(c) \/ Finalize(c) \/ RecordFailure(c)
      PROVE  CheckpointCovers'
  <2> SUFFICES ASSUME ~ overlapped' PROVE CheckpointCovers'
    BY DEF CheckpointCovers
  <2>1. /\ pc[c] # "idle" /\ plan' = plan
        /\ at[c] \in 0 .. RowCount /\ row[c] \in 0 .. RowCount
    BY <1>6 DEF Reclaim, CommitBatch, Finalize, RecordFailure, Typed, TypeOK
  <2>2. Covers(c) /\ plan # 0
    BY <1>1, <2>1 DEF CoverInv, Replayed, Busy, Typed, PlansAreKnown
  <2>3. \A r \in 1 .. at[c] : Applied(plan, r)'
    BY <2>1, <2>2, AppliedStays, RowsUpTo DEF Covers
  <2>4. CASE Reclaim(c) \/ Finalize(c) \/ RecordFailure(c)
    BY <1>5, <2>1, <2>3, <2>4 DEF Reclaim, Finalize, RecordFailure, Checkpoint
  <2>5. CASE CommitBatch(c)
    <3>1. pc'[c] # "idle" /\ at'[c] = row[c]
      BY <2>5 DEF CommitBatch, Typed, TypeOK
    <3>2. Covers(c)'
      BY <2>5, <3>1, MoverCovers DEF Commit
    <3>3. \A r \in 1 .. row[c] : Applied(plan, r)'
      BY <2>1, <3>1, <3>2 DEF Covers
    <3> QED
      BY <1>5, <2>1, <2>5, <3>3 DEF CommitBatch, Checkpoint
  <2> QED
    BY <1>6, <2>4, <2>5
<1>7. ASSUME NEW c \in Committers, Commit(c) PROVE CheckpointCovers'
  BY <1>2, <1>4, <1>6, <1>7 DEF Commit, LoadPlan, LoadCheckpoint, LoseClaim, SkipRow, CreateLead,
     MergeRow, Fail, Crash
<1> QED
  BY <1>2, <1>3, <1>7 DEF Next, DryRun, CheckStatus, BuildPlan, GiveUpPlanning, SoftDelete, AddLead

\* Commits go on replaying the stored plan.
LEMMA ReplayedStep ==
    ASSUME Typed, CoverInv, [Next]_vars
    PROVE  Replayed'
<1> USE DEF vars, import, drafts, request, crm, history
<1> SUFFICES ASSUME ~ overlapped' PROVE (Busy = {} \/ Planning = {})' /\ \A c \in Busy' : Covers(c)'
  BY DEF Replayed
<1>1. ~ overlapped /\ (Busy = {} \/ Planning = {}) /\ \A c \in Busy : Covers(c) /\ plan # 0
  BY OverlapLatches DEF CoverInv, Replayed, Busy, Typed, PlansAreKnown
<1>2. ASSUME NEW d \in Planners, DryRun(d)
      PROVE  (Busy = {} \/ Planning = {})' /\ \A c \in Busy' : Covers(c)'
  <2>1. UNCHANGED request /\ Busy' = Busy
    BY <1>2 DEF DryRun, CheckStatus, BuildPlan, StorePlan, GiveUpPlanning, Busy
  <2>2. CASE Busy = {}
    BY <2>1, <2>2
  <2>3. CASE Busy # {}
    <3>1. GiveUpPlanning(d)
      BY <1>1, <1>2, <2>3 DEF DryRun, CheckStatus, BuildPlan, StorePlan, Planning
    <3>2. FALSE
      BY <1>1, <2>3, <3>1 DEF GiveUpPlanning, Planning
    <3> QED
      BY <3>2
  <2> QED
    BY <2>2, <2>3
<1>3. ASSUME NEW c \in Committers, Commit(c)
      PROVE  (Busy = {} \/ Planning = {})' /\ \A x \in Busy' : Covers(x)'
  <2>1. Alone(c) /\ plan' = plan /\ Planning' = Planning
    BY <1>3, CommitsAlone DEF Planning
  <2>2. pc'[c] # "idle" => Covers(c)' /\ Planning = {}
    BY <1>3, MoverCovers
  <2>3. \A x \in Others(c) : x \in Busy' => x \in Busy /\ Covers(x)'
    BY <1>1, <2>1, CoversStays DEF Alone, Busy, Others
  <2> QED
    BY <1>1, <2>1, <2>2, <2>3 DEF Busy, Others
<1>4. CASE UNCHANGED <<import, request, desk>>
  <2>1. Busy' = Busy /\ Planning' = Planning
    BY <1>4 DEF Busy, Planning
  <2>2. \A c \in Busy : Covers(c)'
    BY <1>1, <1>4, CoversStays DEF Busy
  <2> QED
    BY <1>1, <2>1, <2>2
<1> QED
  BY <1>2, <1>3, <1>4 DEF Next, SoftDelete, AddLead

-----------------------------------------------------------------------------
(* Duplicates *)

LEMMA KeysStep ==
    ASSUME Typed, KeysDiffer, [Next]_vars
    PROVE  KeysDiffer'
<1> USE DEF vars, import, drafts, request, crm, history
<1>1. ASSUME NEW d \in Planners, BuildPlan(d) PROVE KeysDiffer'
  <2>1. PICK s \in Snapshots, a \in DedupeActions :
            /\ rowsOf' = [rowsOf EXCEPT ![built + 1] = [r \in Rows |-> Planned(s, a, built + 1, r)]]
            /\ anyway' = IF a = "create-anyway" THEN anyway \cup {built + 1} ELSE anyway
    BY <1>1 DEF BuildPlan
  <2>2. built + 1 \in Plans
    BY <1>1, File DEF BuildPlan, Plans, Typed, TypeOK
  <2> SUFFICES ASSUME NEW n \in Plans, n \notin anyway', NEW q \in Rows, NEW r \in Rows,
                      rowsOf'[n][q].does = "create", rowsOf'[n][r].does = "create",
                      KeyOf[q] = KeyOf[r]
               PROVE  q = r
    BY DEF KeysDiffer
  <2>3. CASE n # built + 1
    BY <2>1, <2>3 DEF KeysDiffer, Typed, TypeOK
  <2>4. CASE n = built + 1
    <3>1. a # "create-anyway" /\ \A x \in Rows : rowsOf'[n][x] = Planned(s, a, n, x)
      BY <2>1, <2>2, <2>4 DEF Typed, TypeOK
    <3>2. \A x \in {q, r} : Earlier(x) = {} /\ x \notin Unusable \cup Nameless
      BY <2>4, <3>1, PlannedFresh DEF Typed, TypeOK
    <3>3. ~ (q < r) /\ ~ (r < q)
      BY <3>2, File DEF Earlier, Rows
    <3> QED
      BY <3>3, File
  <2> QED
    BY <2>3, <2>4
<1>2. CASE UNCHANGED <<rowsOf, anyway>>
  BY <1>2 DEF KeysDiffer
<1>3. ASSUME NEW c \in Committers, Commit(c) PROVE UNCHANGED <<rowsOf, anyway>>
  BY <1>3, CommitsAlone
<1> QED
  BY <1>1, <1>2, <1>3 DEF Next, DryRun, CheckStatus, StorePlan, GiveUpPlanning, SoftDelete, AddLead

\* A plan stays fresh while no lead is added.
LEMMA FreshStays ==
    ASSUME Typed, [Next]_vars, NEW n \in Plans, n <= built, Fresh(n),
           Live' \subseteq Live, addedAt' = addedAt
    PROVE  Fresh(n)'
BY PlansStay DEF Fresh, LeadKey, CouldSee

\* No plan that is built could see the lead that somebody adds.
LEMMA FreshBeside ==
    ASSUME Typed, NEW q \in Rivals, AddLead(q), NEW n \in Plans, n <= built, Fresh(n)
    PROVE  Fresh(n)'
<1>1. /\ q \in Rows /\ <<0, q>> \notin leads
      /\ leads' = leads \cup {<<0, q>>} /\ addedAt' = [addedAt EXCEPT ![q] = built]
      /\ UNCHANGED <<rowsOf, anyway, deleted>> /\ addedAt \in [Rows -> 0 .. MaxPlans]
  BY FileAssumption DEF AddLead, drafts, Typed, TypeOK
<1> SUFFICES ASSUME NEW r \in Rows, NEW l \in Live', n \notin anyway,
                    rowsOf[n][r].does = "create", CouldSee(n, l)', LeadKey(l) = KeyOf[r]
             PROVE  l = <<n, r>>
  BY <1>1 DEF Fresh, LeadKey
<1>2. n \in Nat /\ built \in Nat
  BY File DEF Typed, TypeOK
<1>3. l # <<0, q>>
  BY <1>1, <1>2 DEF CouldSee
<1>4. l \in Live /\ l \in LeadIds
  BY <1>1, <1>3 DEF Live, Typed, TypeOK
<1>5. CouldSee(n, l)
  <2>1. CASE l[1] # 0
    BY <2>1 DEF CouldSee
  <2>2. CASE l[1] = 0
    <3>1. l[2] \in Rows /\ l = <<l[1], l[2]>>
      BY <1>4 DEF LeadIds
    <3>2. addedAt'[l[2]] = addedAt[l[2]]
      BY <1>1, <1>3, <2>2, <3>1
    <3> QED
      BY <3>2, <2>2 DEF CouldSee
  <2> QED
    BY <2>1, <2>2
<1> QED
  BY <1>4, <1>5 DEF Fresh

\* Neither a dry run nor a commit puts a lead beside the new ones of a plan.
LEMMA FreshStep ==
    ASSUME Typed, CreateInv, CoverInv, FreshInv, [Next]_vars
    PROVE  FreshInv'
<1> USE DEF vars, import, drafts, request, crm, history
<1> SUFFICES ASSUME ~ overlapped'
             PROVE  /\ plan' # 0 => Fresh(plan)'
                    /\ \A d \in Planners : desk'[d] = "planned" => Fresh(draft[d])'
  BY KeysStep DEF FreshInv
<1>1. ~ overlapped
  BY OverlapLatches
<1>2. /\ plan # 0 => Fresh(plan) /\ plan \in Plans /\ plan <= built
      /\ \A d \in Planners : desk[d] = "planned" =>
            Fresh(draft[d]) /\ draft[d] \in Plans /\ draft[d] <= built
  BY <1>1, File DEF FreshInv, Typed, TypeOK, PlansAreKnown, Plans
<1>3. CASE UNCHANGED <<plan, draft, addedAt>> /\ Live' \subseteq Live /\
           \A d \in Planners : desk'[d] = "planned" => desk[d] = "planned"
  BY <1>2, <1>3, FreshStays
<1>4. ASSUME NEW d \in Planners, BuildPlan(d)
      PROVE  /\ plan' # 0 => Fresh(plan)'
             /\ \A x \in Planners : desk'[x] = "planned" => Fresh(draft[x])'
  <2>1. PICK s \in Snapshots, a \in DedupeActions :
            /\ rowsOf' = [rowsOf EXCEPT ![built + 1] = [r \in Rows |-> Planned(s, a, built + 1, r)]]
            /\ anyway' = IF a = "create-anyway" THEN anyway \cup {built + 1} ELSE anyway
    BY <1>4 DEF BuildPlan
  <2>2. built + 1 \in Plans
    BY <1>4, File DEF BuildPlan, Plans, Typed, TypeOK
  <2>3. /\ UNCHANGED <<plan, leads, deleted, addedAt>> /\ draft'[d] = built + 1
        /\ \A x \in Planners \ {d} : draft'[x] = draft[x] /\ desk'[x] = desk[x]
    BY <1>4 DEF BuildPlan, Typed, TypeOK
  <2>4. ASSUME NEW n \in Plans, n = built + 1 PROVE Fresh(n)'
    <3> SUFFICES ASSUME NEW r \in Rows, NEW l \in Live, n \notin anyway',
                        rowsOf'[n][r].does = "create", LeadKey(l) = KeyOf[r]
                 PROVE  FALSE
      BY <2>3 DEF Fresh, LeadKey, Live
    <3>1. a # "create-anyway" /\ Planned(s, a, n, r).does = "create"
      BY <2>1, <2>2, <2>4 DEF Typed, TypeOK
    <3>2. Matching(KeyOf[r]) = {}
      BY <2>4, <3>1, PlannedFresh DEF Typed, TypeOK
    <3>3. l \in Matching(KeyOf[r])
      BY DEF Matching, Live
    <3> QED
      BY <3>2, <3>3
  <2>5. Live' \subseteq Live
    BY <2>3 DEF Live
  <2> QED
    BY <1>2, <2>2, <2>3, <2>4, <2>5, FreshStays
<1>5. ASSUME NEW d \in Planners, StorePlan(d)
      PROVE  /\ plan' # 0 => Fresh(plan)'
             /\ \A x \in Planners : desk'[x] = "planned" => Fresh(draft[x])'
  <2>1. /\ plan' = draft[d] /\ desk[d] = "planned" /\ desk'[d] = "idle" /\ UNCHANGED <<leads, deleted, addedAt>>
        /\ \A x \in Planners \ {d} : draft'[x] = draft[x] /\ desk'[x] = desk[x]
    BY <1>5 DEF StorePlan, Typed, TypeOK
  <2>2. Live' \subseteq Live
    BY <2>1 DEF Live
  <2> QED
    BY <1>2, <2>1, <2>2, FreshStays
<1>6. ASSUME NEW c \in Committers, CommitBatch(c)
      PROVE  /\ plan' # 0 => Fresh(plan)'
             /\ \A x \in Planners : desk'[x] = "planned" => Fresh(draft[x])'
  <2>1. pc[c] # "idle" /\ pc'[c] # "idle" /\ UNCHANGED <<rowsOf, anyway, plan, desk, deleted, addedAt>>
        /\ leads' = leads \cup made[c]
    BY <1>6 DEF CommitBatch
  <2>2. plan # 0 /\ Planning = {} /\ hand[c] = plan
    BY <1>1, <1>6, <2>1, MoverCovers DEF Commit, CoverInv, Replayed, Busy, Covers
  <2>3. ASSUME NEW r \in Rows, NEW l \in made[c], plan \notin anyway,
               rowsOf[plan][r].does = "create", LeadKey(l) = KeyOf[r]
        PROVE  l = <<plan, r>>
    <3>1. l = <<plan, l[2]>> /\ rowsOf[plan][l[2]].does = "create" /\ l[2] \in Rows /\ plan \in Plans
      BY <1>2, <2>2, File DEF CreateInv, OpenInserts, Typed, TypeOK, LeadIds
    <3>2. l[2] = r
      BY <2>3, <3>1 DEF FreshInv, KeysDiffer, LeadKey
    <3> QED
      BY <3>1, <3>2
  <2>4. Fresh(plan)'
    BY <1>2, <2>1, <2>2, <2>3 DEF Fresh, Live, LeadKey, CouldSee
  <2> QED
    BY <2>1, <2>2, <2>4 DEF Planning
<1>7. ASSUME NEW c \in Committers, Commit(c)
      PROVE  /\ plan' # 0 => Fresh(plan)'
             /\ \A x \in Planners : desk'[x] = "planned" => Fresh(draft[x])'
  <2>1. UNCHANGED <<plan, desk, draft, deleted>>
    BY <1>7, CommitsAlone
  <2>2. CASE CommitBatch(c)
    BY <1>6, <2>2
  <2>3. CASE ~ CommitBatch(c)
    <3>1. leads' = leads /\ addedAt' = addedAt
      BY <1>7, <2>3 DEF Commit, LoadPlan, LoadCheckpoint, Claim, LoseClaim, Reclaim, SkipRow, CreateLead,
         MergeRow, Finalize, Fail, RecordFailure, Crash
    <3> QED
      BY <1>3, <2>1, <3>1 DEF Live
  <2> QED
    BY <2>2, <2>3
<1>8. ASSUME NEW d \in Planners, CheckStatus(d) \/ GiveUpPlanning(d)
      PROVE  /\ plan' # 0 => Fresh(plan)'
             /\ \A x \in Planners : desk'[x] = "planned" => Fresh(draft[x])'
  <2>1. /\ UNCHANGED <<plan, leads, deleted, addedAt>> /\ desk'[d] # "planned"
        /\ \A x \in Planners \ {d} : draft'[x] = draft[x] /\ desk'[x] = desk[x]
    BY <1>8 DEF CheckStatus, GiveUpPlanning, Typed, TypeOK
  <2>2. Live' \subseteq Live
    BY <2>1 DEF Live
  <2> QED
    BY <1>2, <2>1, <2>2, FreshStays
<1>9. CASE UNCHANGED vars \/ \E l \in LeadIds : SoftDelete(l)
  <2>1. UNCHANGED <<plan, draft, desk, addedAt>> /\ Live' \subseteq Live
    BY <1>9 DEF SoftDelete, Live
  <2> QED
    BY <1>3, <2>1
<1>10. ASSUME NEW r \in Rivals, AddLead(r)
       PROVE  /\ plan' # 0 => Fresh(plan)'
              /\ \A x \in Planners : desk'[x] = "planned" => Fresh(draft[x])'
  <2>1. UNCHANGED <<plan, draft, desk>>
    BY <1>10 DEF AddLead
  <2> QED
    BY <1>2, <1>10, <2>1, FreshBeside
<1> QED
  BY <1>4, <1>5, <1>7, <1>8, <1>9, <1>10 DEF Next, DryRun

-----------------------------------------------------------------------------
(* Counters *)

MergesTo(p, i)  == {r \in Merges(p) : r <= i}
CreatesTo(p, i) == {r \in Creates(p) : r <= i}

\* The counters t report the rows of plan p up to i.
Counted(t, p, i) ==
    /\ t.merged <= Cardinality(MergesTo(p, i))
    /\ t.leads <= Cardinality(CreatesTo(p, i))
    /\ ~ crowded => /\ t.merged = Cardinality(MergesTo(p, i))
                    /\ t.leads = Cardinality(CreatesTo(p, i))

\* What a commit holds in memory, or has left in the checkpoint, counts its rows; that it
\* has failed makes it worthless.
CountInv ==
    ~ overlapped =>
        /\ status \in {"committing", "committed"} => Counted(counters, plan, next)
        /\ \A c \in Busy : pc[c] # "failing" => Counted(tally[c], plan, row[c])

\* A commit that has read a plan starts with its first row.
Starts == \A c \in Committers : pc[c] = "claiming" => at[c] = 0

\* Without another commit the checkpoint is where the last batch ended.
SoleCommit ==
    ~ crowded /\ ~ overlapped =>
        /\ status = "committed" => next = RowCount
        /\ \A c \in Busy :
              /\ Busy = {c}
              /\ pc[c] # "claiming" => status = "committing" /\ at[c] = next

\* The leads of the stored plan are those of the rows below the checkpoint, so no row
\* above it finds its lead made.
NewLeads ==
    /\ \A l \in leads : l[1] <= built
    /\ ~ crowded /\ ~ overlapped =>
        /\ \A c \in Busy : \A l \in made[c] : l[2] <= row[c]
        /\ plan # 0 => \A l \in leads : l[1] = plan => status # "dry_run" /\ l[2] <= next
        /\ \A d \in Planners : desk[d] = "planned" => \A l \in leads : l[1] # draft[d]

TallyInv == Starts /\ SoleCommit /\ NewLeads /\ CountInv

\* One more row is one more merge, one more lead, or neither.
LEMMA OneMoreRow ==
    ASSUME NEW p \in Plans, NEW i \in 0 .. RowCount, i + 1 \in Rows
    PROVE  /\ Cardinality(MergesTo(p, i)) \in Nat /\ Cardinality(CreatesTo(p, i)) \in Nat
           /\ Cardinality(MergesTo(p, i + 1)) = Cardinality(MergesTo(p, i))
                + (IF rowsOf[p][i + 1].does = "merge" THEN 1 ELSE 0)
           /\ Cardinality(CreatesTo(p, i + 1)) = Cardinality(CreatesTo(p, i))
                + (IF rowsOf[p][i + 1].does = "create" THEN 1 ELSE 0)
<1>1. \A S \in SUBSET Rows : IsFiniteSet(S) /\ Cardinality(S) \in Nat
  <2>1. IsFiniteSet(Rows)
    BY File, FS_Interval DEF Rows
  <2> QED
    BY <2>1, FS_Subset, FS_CardinalityType
<1>2. MergesTo(p, i) \in SUBSET Rows /\ CreatesTo(p, i) \in SUBSET Rows
  BY DEF MergesTo, CreatesTo, Merges, Creates
<1>3. /\ i + 1 \notin MergesTo(p, i) /\ i + 1 \notin CreatesTo(p, i)
      /\ \A r \in Rows : r <= i + 1 <=> r <= i \/ r = i + 1
  BY File DEF MergesTo, CreatesTo
<1>4. /\ MergesTo(p, i + 1) = IF rowsOf[p][i + 1].does = "merge" THEN MergesTo(p, i) \cup {i + 1}
                                                                 ELSE MergesTo(p, i)
      /\ CreatesTo(p, i + 1) = IF rowsOf[p][i + 1].does = "create" THEN CreatesTo(p, i) \cup {i + 1}
                                                                   ELSE CreatesTo(p, i)
  BY <1>3 DEF MergesTo, CreatesTo, Merges, Creates
<1> QED
  BY <1>1, <1>2, <1>3, <1>4, FS_AddElement

\* No row, and all of them.
LEMMA FirstAndLastRow ==
    ASSUME NEW p \in Plans
    PROVE  /\ Cardinality(MergesTo(p, 0)) = 0 /\ Cardinality(CreatesTo(p, 0)) = 0
           /\ MergesTo(p, RowCount) = Merges(p) /\ CreatesTo(p, RowCount) = Creates(p)
<1>1. MergesTo(p, 0) = {} /\ CreatesTo(p, 0) = {}
  BY File DEF MergesTo, CreatesTo, Merges, Creates, Rows
<1>2. MergesTo(p, RowCount) = Merges(p) /\ CreatesTo(p, RowCount) = Creates(p)
  BY File DEF MergesTo, CreatesTo, Merges, Creates, Rows
<1> QED
  BY <1>1, <1>2, FS_EmptySet

\* The first rows are not more than all of them.
LEMMA SomeRows ==
    ASSUME NEW p \in Plans, NEW i \in 0 .. RowCount
    PROVE  /\ Cardinality(MergesTo(p, i)) <= Cardinality(Merges(p))
           /\ Cardinality(CreatesTo(p, i)) <= Cardinality(Creates(p))
           /\ Cardinality(MergesTo(p, i)) \in Nat /\ Cardinality(Merges(p)) \in Nat
           /\ Cardinality(CreatesTo(p, i)) \in Nat /\ Cardinality(Creates(p)) \in Nat
<1>1. IsFiniteSet(Rows)
  BY File, FS_Interval DEF Rows
<1>2. IsFiniteSet(Merges(p)) /\ IsFiniteSet(Creates(p))
  BY <1>1, FS_Subset DEF Merges, Creates
<1>3. MergesTo(p, i) \in SUBSET Merges(p) /\ CreatesTo(p, i) \in SUBSET Creates(p)
  BY DEF MergesTo, CreatesTo
<1>4. IsFiniteSet(MergesTo(p, i)) /\ IsFiniteSet(CreatesTo(p, i))
  BY <1>2, <1>3, FS_Subset
<1> QED
  BY <1>2, <1>3, <1>4, FS_Subset, FS_CardinalityType

\* Nothing makes a crowd undone.
LEMMA CrowdLatches ==
    ASSUME [Next]_vars, crowded
    PROVE  crowded'
BY DEF Next, DryRun, Commit, vars, import, drafts, request, crm, history,
       CheckStatus, BuildPlan, StorePlan, GiveUpPlanning, LoadPlan, LoadCheckpoint, Claim,
       LoseClaim, Reclaim, SkipRow, CreateLead, MergeRow, CommitBatch, Finalize, Fail,
       RecordFailure, Crash, SoftDelete, AddLead

\* A step that leaves the stored plan alone does not change its rows.
LEMMA CountsStay ==
    ASSUME Typed, [Next]_vars, plan' = plan, plan # 0, NEW i \in 0 .. RowCount
    PROVE  /\ Cardinality(MergesTo(plan, i))' = Cardinality(MergesTo(plan, i))
           /\ Cardinality(CreatesTo(plan, i))' = Cardinality(CreatesTo(plan, i))
<1>1. \A r \in Rows : rowsOf'[plan'][r] = rowsOf[plan][r]
  BY AppliedStays
<1>2. MergesTo(plan, i)' = MergesTo(plan, i) /\ CreatesTo(plan, i)' = CreatesTo(plan, i)
  BY <1>1 DEF MergesTo, CreatesTo, Merges, Creates
<1> QED
  BY <1>2

\* While a commit runs and nothing has overlapped, the plan stands and nobody plans.
LEMMA BusyMeans ==
    ASSUME Typed, CoverInv, ~ overlapped, NEW c \in Busy
    PROVE  /\ Covers(c) /\ Planning = {} /\ plan # 0 /\ plan \in Plans
           /\ at[c] \in 0 .. RowCount /\ row[c] \in 0 .. RowCount
BY File DEF CoverInv, Replayed, Busy, Typed, TypeOK, PlansAreKnown, Plans

\* A step of a dry run while a commit runs would be an overlap.
LEMMA PlansAlone ==
    ASSUME Typed, CoverInv, ~ overlapped', [Next]_vars, NEW d \in Planners, DryRun(d)
    PROVE  Busy = {} /\ Busy' = {}
<1> USE DEF import, drafts, request, crm, history
<1>1. ~ overlapped /\ (Busy = {} \/ Planning = {})
  BY OverlapLatches DEF CoverInv, Replayed
<1>2. Busy' = Busy
  BY DEF DryRun, CheckStatus, BuildPlan, StorePlan, GiveUpPlanning, Busy
<1>3. CheckStatus(d) => Busy = {}
  BY DEF CheckStatus
<1>4. ~ CheckStatus(d) => Planning # {}
  BY DEF DryRun, BuildPlan, StorePlan, GiveUpPlanning, Planning
<1> QED
  BY <1>1, <1>2, <1>3, <1>4

LEMMA StartsStep ==
    ASSUME Typed, Starts, [Next]_vars
    PROVE  Starts'
<1> USE DEF vars, import, drafts, request, crm, history, Starts
<1>1. ASSUME NEW c \in Committers, Commit(c) PROVE Starts'
  <2>1. Alone(c)
    BY <1>1, CommitsAlone
  <2>2. pc'[c] = "claiming" => at'[c] = 0
    BY <1>1 DEF Commit, Typed, TypeOK, Step, Over, LoadPlan, LoadCheckpoint, Claim, LoseClaim,
       Reclaim, SkipRow, CreateLead, MergeRow, CommitBatch, Finalize, Fail, RecordFailure, Crash
  <2> QED
    BY <2>1, <2>2 DEF Alone, Others
<1>2. CASE UNCHANGED request
  BY <1>2
<1> QED
  BY <1>1, <1>2 DEF Next, DryRun, CheckStatus, BuildPlan, StorePlan, GiveUpPlanning, SoftDelete, AddLead

LEMMA SoleStep ==
    ASSUME Typed, CoverInv, Starts, SoleCommit, [Next]_vars
    PROVE  SoleCommit'
<1> USE DEF vars, import, drafts, request, crm, history
<1> SUFFICES ASSUME ~ crowded', ~ overlapped'
             PROVE  /\ status' = "committed" => next' = RowCount
                    /\ \A c \in Busy' :
                          /\ Busy' = {c}
                          /\ pc'[c] # "claiming" => status' = "committing" /\ at'[c] = next'
  BY DEF SoleCommit
<1>1. /\ ~ crowded /\ ~ overlapped
      /\ status = "committed" => next = RowCount
      /\ \A c \in Busy : Busy = {c} /\ (pc[c] # "claiming" => status = "committing" /\ at[c] = next)
  BY OverlapLatches, CrowdLatches DEF SoleCommit
<1>2. ASSUME NEW d \in Planners, DryRun(d)
      PROVE  Busy' = {} /\ (status' = "committed" => next' = RowCount)
  BY <1>1, <1>2, PlansAlone DEF DryRun, CheckStatus, BuildPlan, StorePlan, GiveUpPlanning
<1>3. ASSUME NEW c \in Committers, Commit(c)
      PROVE  /\ Busy' \subseteq {c}
             /\ status' = "committed" => next' = RowCount
             /\ c \in Busy' /\ pc'[c] # "claiming" => status' = "committing" /\ at'[c] = next'
  <2>1. Busy \subseteq {c}
    <3>1. CASE LoadPlan(c) \/ LoadCheckpoint(c)
      BY <3>1 DEF LoadPlan, LoadCheckpoint
    <3>2. CASE ~ (LoadPlan(c) \/ LoadCheckpoint(c))
      <4>1. c \in Busy
        BY <1>3, <3>2 DEF Commit, Claim, LoseClaim, Reclaim, SkipRow, CreateLead, MergeRow, Step,
           CommitBatch, Finalize, Fail, RecordFailure, Crash, Busy
      <4> QED
        BY <1>1, <4>1
    <3> QED
      BY <3>1, <3>2
  <2>2. Busy' \subseteq {c}
    BY <1>3, <2>1, CommitsAlone DEF Alone, Others, Busy
  <2>3. pc[c] \notin {"idle", "claiming"} => status = "committing" /\ at[c] = next
    BY <1>1 DEF Busy
  <2>4. CASE LoadPlan(c) \/ LoadCheckpoint(c) \/ Claim(c)
    <3>1. Claim(c) => row[c] = at[c] /\ at'[c] = at[c]
      BY <1>1, BusyMeans DEF Claim, Covers, Busy
    <3>2. Claim(c) => at[c] = 0
      BY DEF Claim, Starts
    <3> QED
      BY <1>1, <2>2, <2>4, <3>1, <3>2 DEF LoadPlan, LoadCheckpoint, Claim, Checkpoint, Typed, TypeOK
  <2>5. CASE LoseClaim(c) \/ Finalize(c) \/ RecordFailure(c) \/ Crash(c)
    <3>1. c \notin Busy'
      BY <2>5 DEF LoseClaim, Finalize, RecordFailure, Crash, Over, Busy, Typed, TypeOK
    <3> QED
      BY <1>1, <2>2, <2>5, <3>1 DEF LoseClaim, Finalize, RecordFailure, Crash
  <2>6. CASE Reclaim(c) \/ SkipRow(c) \/ CreateLead(c) \/ MergeRow(c) \/ Fail(c)
    BY <1>1, <2>2, <2>3, <2>6 DEF Reclaim, SkipRow, CreateLead, MergeRow, Fail, Step, Checkpoint
  <2>7. CASE CommitBatch(c)
    BY <1>1, <2>2, <2>3, <2>7 DEF CommitBatch, Checkpoint, Typed, TypeOK
  <2> QED
    BY <1>3, <2>4, <2>5, <2>6, <2>7 DEF Commit
<1>4. CASE UNCHANGED <<import, request>>
  BY <1>1, <1>4 DEF Busy
<1> QED
  BY <1>2, <1>3, <1>4 DEF Next, SoftDelete, AddLead

LEMMA NewLeadsStep ==
    ASSUME Typed, CreateInv, CoverInv, SoleCommit, NewLeads, [Next]_vars
    PROVE  NewLeads'
<1> USE DEF vars, import, drafts, request, crm, history
<1>1. \A l \in leads' : l[1] <= built'
  <2>1. built <= built'
    <3>1. built' = built \/ built' = built + 1
      BY DEF Next, DryRun, Commit, CheckStatus, BuildPlan, StorePlan, GiveUpPlanning, LoadPlan,
         LoadCheckpoint, Claim, LoseClaim, Reclaim, SkipRow, CreateLead, MergeRow, CommitBatch,
         Finalize, Fail, RecordFailure, Crash, SoftDelete, AddLead
    <3>2. built \in Nat
      BY File DEF Typed, TypeOK
    <3> QED
      BY <3>1, <3>2
  <2>2. \/ leads' = leads \/ \E c \in Committers : leads' = leads \cup made[c]
        \/ \E r \in Rivals : leads' = leads \cup {<<0, r>>}
    BY DEF Next, DryRun, Commit, CheckStatus, BuildPlan, StorePlan, GiveUpPlanning, LoadPlan,
       LoadCheckpoint, Claim, LoseClaim, Reclaim, SkipRow, CreateLead, MergeRow, CommitBatch,
       Finalize, Fail, RecordFailure, Crash, SoftDelete, AddLead
  <2>3. \A c \in Committers : \A l \in made[c] : l[1] <= built
    BY DEF CreateInv, OpenInserts, Typed, PlansAreKnown
  <2>4. \A l \in leads \cup leads' : l[1] \in Nat
    <3>1. leads \cup leads' \subseteq LeadIds
      BY TypedStep DEF Typed, TypeOK
    <3> QED
      BY <3>1, File DEF LeadIds
  <2>5. built \in Nat /\ built' \in Nat
    BY TypedStep, File DEF Typed, TypeOK
  <2> QED
    BY <2>1, <2>2, <2>3, <2>4, <2>5 DEF NewLeads
<1> SUFFICES ASSUME ~ crowded', ~ overlapped'
             PROVE  /\ \A c \in Busy' : \A l \in made'[c] : l[2] <= row'[c]
                    /\ plan' # 0 => \A l \in leads' : l[1] = plan' => status' # "dry_run" /\ l[2] <= next'
                    /\ \A d \in Planners : desk'[d] = "planned" => \A l \in leads' : l[1] # draft'[d]
  BY <1>1 DEF NewLeads
<1>2. /\ ~ crowded /\ ~ overlapped
      /\ \A c \in Busy : Busy = {c} /\ (pc[c] # "claiming" => status = "committing" /\ at[c] = next)
      /\ \A c \in Busy : \A l \in made[c] : l[2] <= row[c]
      /\ plan # 0 => \A l \in leads : l[1] = plan => status # "dry_run" /\ l[2] <= next
      /\ \A d \in Planners : desk[d] = "planned" => \A l \in leads : l[1] # draft[d]
  BY OverlapLatches, CrowdLatches DEF SoleCommit, NewLeads
<1>3. ASSUME NEW d \in Planners, DryRun(d)
      PROVE  /\ Busy' = {}
             /\ plan' # 0 => \A l \in leads' : l[1] = plan' => status' # "dry_run" /\ l[2] <= next'
             /\ \A x \in Planners : desk'[x] = "planned" => \A l \in leads' : l[1] # draft'[x]
  <2>1. CASE BuildPlan(d)
    <3>1. /\ UNCHANGED <<plan, status, next, leads>> /\ draft'[d] = built + 1
          /\ \A x \in Planners \ {d} : desk'[x] = desk[x] /\ draft'[x] = draft[x]
      BY <2>1 DEF BuildPlan, Typed, TypeOK
    <3>2. \A l \in leads : l[1] # built + 1
      <4>1. \A l \in leads : l[1] \in Nat
        BY File DEF Typed, TypeOK, LeadIds
      <4> QED
        BY <4>1, File DEF NewLeads, Typed, TypeOK
    <3> QED
      BY <1>2, <1>3, <3>1, <3>2, PlansAlone
  <2>2. CASE ~ BuildPlan(d)
    BY <1>2, <1>3, <2>2, PlansAlone DEF DryRun, CheckStatus, StorePlan, GiveUpPlanning, Typed, TypeOK
  <2> QED
    BY <2>1, <2>2
<1>4. ASSUME NEW c \in Committers, Commit(c)
      PROVE  /\ \A x \in Busy' : \A l \in made'[x] : l[2] <= row'[x]
             /\ plan' # 0 => \A l \in leads' : l[1] = plan' => status' # "dry_run" /\ l[2] <= next'
             /\ \A x \in Planners : desk'[x] = "planned" => \A l \in leads' : l[1] # draft'[x]
  <2>1. Alone(c) /\ plan' = plan /\ UNCHANGED <<desk, draft>>
    BY <1>4, CommitsAlone
  <2>2. \A x \in Busy' \ {c} : \A l \in made'[x] : l[2] <= row'[x]
    BY <1>2, <2>1 DEF Alone, Others, Busy
  <2>3. CASE LoadPlan(c) \/ LoadCheckpoint(c)
    <3>1. made'[c] = {} /\ UNCHANGED <<leads, status, next>>
      BY <2>3 DEF LoadPlan, LoadCheckpoint, CreateInv, OpenInserts
    <3> QED
      BY <1>2, <2>1, <2>2, <3>1
  <2>4. CASE ~ (LoadPlan(c) \/ LoadCheckpoint(c))
    <3>1. c \in Busy
      BY <1>4, <2>4 DEF Commit, Claim, LoseClaim, Reclaim, SkipRow, CreateLead, MergeRow, Step,
         CommitBatch, Finalize, Fail, RecordFailure, Crash, Busy
    <3>2. Covers(c) /\ Planning = {} /\ plan # 0 /\ at[c] \in 0 .. RowCount /\ row[c] \in 0 .. RowCount
      BY <1>2, <3>1, BusyMeans
    <3>3. /\ \A l \in made[c] : l[2] <= row[c] /\ l[1] = plan /\ pc[c] = "applying"
          /\ \A l \in leads \cup made[c] : l[2] \in Nat
      BY <1>2, <3>1, <3>2, File DEF CreateInv, OpenInserts, Covers, LeadIds, Typed, TypeOK, Rows
    <3>4. next \in 0 .. RowCount
      BY DEF Typed, TypeOK
    <3>5. CASE Claim(c)
      <4>1. made'[c] = {} /\ leads' = leads /\ status = "dry_run"
        BY <3>5 DEF Claim, CreateInv, OpenInserts
      <4> QED
        BY <1>2, <2>1, <2>2, <4>1
    <3>6. CASE LoseClaim(c) \/ Finalize(c) \/ RecordFailure(c) \/ Crash(c)
      <4>1. /\ made'[c] = {} /\ leads' = leads
            /\ \/ UNCHANGED <<next, status>>
               \/ status' # "dry_run"
        BY <3>6 DEF LoseClaim, Finalize, RecordFailure, Crash, Over, Typed, TypeOK
      <4>2. RecordFailure(c) => at[c] = next
        BY <1>2, <3>1 DEF RecordFailure
      <4>3. next' = next \/ next' = RowCount
        BY <3>6, <4>2 DEF LoseClaim, Finalize, RecordFailure, Crash
      <4> QED
        BY <1>2, <2>1, <2>2, <3>3, <3>4, <4>1, <4>3, File
    <3>7. CASE Reclaim(c) \/ SkipRow(c) \/ MergeRow(c) \/ Fail(c)
      <4>1. /\ made'[c] \subseteq made[c] /\ UNCHANGED <<leads, status>> /\ next' = next
            /\ row'[c] \in Nat /\ (made'[c] # {} => row'[c] >= row[c])
        BY <1>2, <3>1, <3>2, <3>7, File DEF Reclaim, SkipRow, MergeRow, Fail, Step, Checkpoint, Typed, TypeOK
      <4>2. \A l \in made'[c] : l[2] <= row'[c]
        BY <3>2, <3>3, <4>1
      <4> QED
        BY <1>2, <2>1, <2>2, <4>1, <4>2
    <3>8. CASE CreateLead(c)
      <4>1. /\ UNCHANGED <<leads, status, next>> /\ row'[c] = row[c] + 1
            /\ made'[c] \subseteq made[c] \cup {Instruction(c).lead}
        BY <3>8 DEF CreateLead, Step, Typed, TypeOK
      <4>2. Instruction(c).lead = <<hand[c], row[c] + 1>>
        BY <3>8, InstructionType DEF CreateLead
      <4>3. \A l \in made'[c] : l[2] <= row'[c]
        BY <3>2, <3>3, <4>1, <4>2
      <4> QED
        BY <1>2, <2>1, <2>2, <4>1, <4>3
    <3>9. CASE CommitBatch(c)
      <4>1. /\ made'[c] = {} /\ leads' = leads \cup made[c] /\ status' = status /\ next' = row[c]
            /\ pc[c] = "applying"
        BY <3>9 DEF CommitBatch, Checkpoint, Typed, TypeOK
      <4>2. status = "committing" /\ next <= row[c]
        BY <1>2, <3>1, <3>2, <4>1 DEF Covers
      <4>3. \A l \in leads' : l[1] = plan => l[2] <= row[c]
        BY <1>2, <3>2, <3>3, <3>4, <4>1, <4>2
      <4> QED
        BY <2>1, <2>2, <3>2, <4>1, <4>2, <4>3 DEF Planning
    <3> QED
      BY <1>4, <2>4, <3>5, <3>6, <3>7, <3>8, <3>9 DEF Commit
  <2> QED
    BY <2>3, <2>4
<1>5. CASE UNCHANGED <<import, drafts, request, leads>>
  BY <1>2, <1>5 DEF Busy
<1>6. ASSUME NEW r \in Rivals, AddLead(r)
      PROVE  /\ \A c \in Busy' : \A l \in made'[c] : l[2] <= row'[c]
             /\ plan' # 0 => \A l \in leads' : l[1] = plan' => status' # "dry_run" /\ l[2] <= next'
             /\ \A d \in Planners : desk'[d] = "planned" => \A l \in leads' : l[1] # draft'[d]
  <2>1. leads' = leads \cup {<<0, r>>} /\ UNCHANGED <<import, drafts, request>>
    BY <1>6 DEF AddLead
  <2>2. \A d \in Planners : desk[d] = "planned" => draft[d] # 0
    BY DEF Typed, PlansAreKnown
  <2> QED
    BY <1>2, <2>1, <2>2 DEF Busy
<1> QED
  BY <1>3, <1>4, <1>5, <1>6 DEF Next, SoftDelete

\* The commit that moves counts the row it has come past.
LEMMA MoverCounts ==
    ASSUME Typed, CoverInv, Starts, SoleCommit, NewLeads, CountInv, ~ overlapped', [Next]_vars,
           NEW c \in Committers, Commit(c), pc'[c] \notin {"idle", "failing"}
    PROVE  Counted(tally[c], plan, row[c])'
<1> USE DEF import, drafts, request, crm, history
<1>1. ~ overlapped /\ (crowded => crowded') /\ plan' = plan
  BY OverlapLatches, CrowdLatches, CommitsAlone
<1>2. plan # 0 /\ plan \in Plans /\ row'[c] \in 0 .. RowCount
  <2>1. plan # 0
    BY MoverCovers
  <2> QED
    BY <2>1, TypedStep, File DEF Typed, TypeOK, Plans
<1>3. PICK i \in 0 .. RowCount : i = row'[c]
  BY <1>2
<1> SUFFICES /\ tally'[c].merged <= Cardinality(MergesTo(plan, i))
             /\ tally'[c].leads <= Cardinality(CreatesTo(plan, i))
             /\ ~ crowded' => /\ tally'[c].merged = Cardinality(MergesTo(plan, i))
                              /\ tally'[c].leads = Cardinality(CreatesTo(plan, i))
  <2>1. /\ Cardinality(MergesTo(plan, i))' = Cardinality(MergesTo(plan, i))
        /\ Cardinality(CreatesTo(plan, i))' = Cardinality(CreatesTo(plan, i))
    BY <1>1, <1>2, CountsStay
  <2> QED
    BY <1>1, <1>3, <2>1 DEF Counted
<1>4. CASE LoadPlan(c)
  <2>1. row'[c] = 0 /\ tally'[c] = Zero
    BY <1>4 DEF LoadPlan, Typed, TypeOK
  <2> QED
    BY <1>2, <1>3, <2>1, FirstAndLastRow DEF Zero
<1>5. CASE LoadCheckpoint(c)
  <2>1. row'[c] = next /\ tally'[c] = counters /\ status = "committing"
    BY <1>5 DEF LoadCheckpoint, Typed, TypeOK
  <2>2. Counted(counters, plan, next)
    BY <1>1, <2>1 DEF CountInv
  <2> QED
    BY <1>1, <1>3, <2>1, <2>2 DEF Counted
<1>6. CASE ~ (LoadPlan(c) \/ LoadCheckpoint(c))
  <2>1. c \in Busy /\ pc[c] # "failing"
    BY <1>6 DEF Commit, Claim, LoseClaim, Reclaim, SkipRow, CreateLead, MergeRow, Step,
       CommitBatch, Finalize, Fail, RecordFailure, Crash, Over, Busy, Typed, TypeOK
  <2>2. Counted(tally[c], plan, row[c])
    BY <1>1, <2>1 DEF CountInv
  <2>3. Covers(c) /\ at[c] \in 0 .. RowCount /\ row[c] \in 0 .. RowCount
    BY <1>1, <2>1, BusyMeans
  <2>4. CASE Claim(c) \/ Reclaim(c) \/ CommitBatch(c)
    <3>1. row' = row /\ tally' = tally
      BY <2>4 DEF Claim, Reclaim, CommitBatch
    <3> QED
      BY <1>1, <1>3, <2>2, <3>1 DEF Counted
  <2>5. CASE SkipRow(c) \/ CreateLead(c) \/ MergeRow(c)
    <3>1. /\ row'[c] = row[c] + 1 /\ row[c] + 1 \in Rows /\ crowded' = crowded
          /\ Instruction(c) = rowsOf[plan][row[c] + 1] /\ pc[c] = "applying"
          /\ Instruction(c).does = "create" => Instruction(c).lead = <<plan, row[c] + 1>>
      BY <2>3, <2>5, InstructionType DEF SkipRow, CreateLead, MergeRow, Step, Covers, Instruction,
         Typed, TypeOK
    <3>2. /\ Cardinality(MergesTo(plan, row[c])) \in Nat /\ Cardinality(CreatesTo(plan, row[c])) \in Nat
          /\ Cardinality(MergesTo(plan, row[c] + 1)) = Cardinality(MergesTo(plan, row[c]))
               + (IF Instruction(c).does = "merge" THEN 1 ELSE 0)
          /\ Cardinality(CreatesTo(plan, row[c] + 1)) = Cardinality(CreatesTo(plan, row[c]))
               + (IF Instruction(c).does = "create" THEN 1 ELSE 0)
      BY <1>2, <2>3, <3>1, OneMoreRow
    <3>3. tally[c] \in Counters /\ tally[c].merged \in Nat /\ tally[c].leads \in Nat
      BY DEF Typed, TypeOK, Counters
    <3>4. CASE SkipRow(c)
      <4>1. tally' = tally /\ Instruction(c).does = "nothing"
        BY <3>4 DEF SkipRow
      <4> QED
        BY <1>3, <2>2, <3>1, <3>2, <3>3, <4>1 DEF Counted
    <3>5. CASE MergeRow(c)
      <4>1. /\ tally'[c].merged = tally[c].merged + 1 /\ tally'[c].leads = tally[c].leads
            /\ Instruction(c).does = "merge"
        BY <3>3, <3>5 DEF MergeRow, Typed, TypeOK, Counters
      <4> QED
        BY <1>3, <2>2, <3>1, <3>2, <3>3, <4>1 DEF Counted
    <3>6. CASE CreateLead(c) /\ Instruction(c).lead \notin leads
      <4>1. /\ tally'[c].leads = tally[c].leads + 1 /\ tally'[c].merged = tally[c].merged
            /\ Instruction(c).does = "create"
        BY <3>3, <3>6 DEF CreateLead, Typed, TypeOK, Counters
      <4> QED
        BY <1>3, <2>2, <3>1, <3>2, <3>3, <4>1 DEF Counted
    <3>7. CASE CreateLead(c) /\ Instruction(c).lead \in leads
      <4>1. tally' = tally /\ Instruction(c).does = "create"
        BY <3>7 DEF CreateLead
      <4>2. crowded
        <5>1. SUFFICES ASSUME ~ crowded PROVE FALSE
          OBVIOUS
        <5>2. at[c] = next /\ next \in 0 .. RowCount
          BY <1>1, <2>1, <3>1, <5>1 DEF SoleCommit, Typed, TypeOK
        <5>3. row[c] + 1 <= next
          BY <1>1, <1>2, <3>1, <3>7, <4>1, <5>1 DEF NewLeads
        <5> QED
          BY <2>3, <5>2, <5>3 DEF Covers
      <4> QED
        BY <1>3, <2>2, <3>1, <3>2, <3>3, <4>1, <4>2 DEF Counted
    <3> QED
      BY <2>5, <3>4, <3>5, <3>6, <3>7
  <2>6. CASE LoseClaim(c) \/ Finalize(c) \/ RecordFailure(c) \/ Crash(c) \/ Fail(c)
    BY <2>6 DEF LoseClaim, Finalize, RecordFailure, Crash, Fail, Over, Typed, TypeOK
  <2> QED
    BY <1>6, <2>4, <2>5, <2>6 DEF Commit
<1> QED
  BY <1>4, <1>5, <1>6

\* The counters that a commit writes are those of the rows it is past.
LEMMA CountStep ==
    ASSUME Typed, CoverInv, Starts, SoleCommit, NewLeads, CountInv, [Next]_vars
    PROVE  CountInv'
<1> USE DEF vars, import, drafts, request, crm, history
<1> SUFFICES ASSUME ~ overlapped'
             PROVE  /\ status' \in {"committing", "committed"} => Counted(counters, plan, next)'
                    /\ \A c \in Busy' : pc'[c] # "failing" => Counted(tally[c], plan, row[c])'
  BY DEF CountInv
<1>1. /\ ~ overlapped /\ (crowded => crowded')
      /\ status \in {"committing", "committed"} => Counted(counters, plan, next)
      /\ \A c \in Busy : pc[c] # "failing" => Counted(tally[c], plan, row[c])
  BY OverlapLatches, CrowdLatches DEF CountInv
<1>2. ASSUME plan' = plan, plan # 0, NEW i \in 0 .. RowCount
      PROVE  /\ Cardinality(MergesTo(plan, i))' = Cardinality(MergesTo(plan, i))
             /\ Cardinality(CreatesTo(plan, i))' = Cardinality(CreatesTo(plan, i))
  BY <1>2, CountsStay
<1>3. ASSUME UNCHANGED import
      PROVE  status' \in {"committing", "committed"} => Counted(counters, plan, next)'
  <2>1. status \in {"committing", "committed"} => plan # 0 /\ next \in 0 .. RowCount
    BY DEF Typed, TypeOK
  <2> QED
    BY <1>1, <1>2, <1>3, <2>1 DEF Counted
<1>4. ASSUME plan' = plan, NEW x \in Busy, pc'[x] = pc[x], pc[x] # "failing",
             tally'[x] = tally[x], row'[x] = row[x]
      PROVE  Counted(tally[x], plan, row[x])'
  <2>1. plan # 0 /\ row[x] \in 0 .. RowCount
    BY <1>1, BusyMeans
  <2> QED
    BY <1>1, <1>2, <1>4, <2>1 DEF Counted
<1>5. ASSUME NEW d \in Planners, DryRun(d)
      PROVE  /\ status' \in {"committing", "committed"} => Counted(counters, plan, next)'
             /\ Busy' = {}
  <2>1. Busy' = {}
    BY <1>5, PlansAlone
  <2>2. CASE StorePlan(d)
    BY <2>1, <2>2 DEF StorePlan
  <2>3. CASE ~ StorePlan(d)
    BY <1>3, <1>5, <2>1, <2>3 DEF DryRun, CheckStatus, BuildPlan, GiveUpPlanning
  <2> QED
    BY <2>2, <2>3
<1>6. ASSUME NEW c \in Committers, Commit(c)
      PROVE  /\ status' \in {"committing", "committed"} => Counted(counters, plan, next)'
             /\ \A x \in Busy' : pc'[x] # "failing" => Counted(tally[x], plan, row[x])'
  <2>1. Alone(c) /\ plan' = plan
    BY <1>6, CommitsAlone
  <2>2. \A x \in Others(c) : tally'[x] = tally[x]
    BY <1>6 DEF Commit, Others, Typed, TypeOK, Step, Over, LoadPlan, LoadCheckpoint, Claim, LoseClaim,
       Reclaim, SkipRow, CreateLead, MergeRow, CommitBatch, Finalize, Fail, RecordFailure, Crash
  <2>3. \A x \in Busy' : pc'[x] # "failing" => Counted(tally[x], plan, row[x])'
    <3>1. ASSUME NEW x \in Busy', x # c, pc'[x] # "failing" PROVE Counted(tally[x], plan, row[x])'
      BY <1>4, <2>1, <2>2, <3>1 DEF Alone, Others, Busy
    <3>2. c \in Busy' /\ pc'[c] # "failing" => Counted(tally[c], plan, row[c])'
      BY <1>6, MoverCounts DEF Busy
    <3> QED
      BY <3>1, <3>2
  <2>4. CASE UNCHANGED import
    BY <1>3, <2>3, <2>4
  <2>5. ASSUME c \in Busy, pc[c] # "failing", next' = row[c], counters' = tally[c]
        PROVE  Counted(counters, plan, next)'
    <3>1. plan # 0 /\ row[c] \in 0 .. RowCount
      BY <1>1, <2>5, BusyMeans
    <3>2. Counted(tally[c], plan, row[c])
      BY <1>1, <2>5
    <3> QED
      BY <1>1, <1>2, <2>1, <2>5, <3>1, <3>2 DEF Counted
  <2>6. CASE Claim(c) \/ Reclaim(c) \/ CommitBatch(c) \/ Finalize(c)
    <3>1. c \in Busy /\ pc[c] # "failing" /\ counters' = tally[c]
      BY <2>6 DEF Claim, Reclaim, CommitBatch, Finalize, Checkpoint, Busy
    <3>2. Covers(c)
      BY <1>1, <3>1, BusyMeans
    <3>3. pc[c] # "applying" => row[c] = at[c]
      BY <3>2 DEF Covers
    <3>4. Claim(c) \/ Reclaim(c) \/ CommitBatch(c) => next' = row[c]
      BY <3>3 DEF Claim, Reclaim, CommitBatch, Checkpoint, Starts
    <3>5. Finalize(c) => next' = row[c]
      BY <3>2, File DEF Finalize, Covers, Typed, TypeOK
    <3> QED
      BY <2>3, <2>5, <2>6, <3>1, <3>4, <3>5
  <2>7. CASE RecordFailure(c)
    BY <2>3, <2>7 DEF RecordFailure
  <2> QED
    BY <1>6, <2>3, <2>4, <2>6, <2>7 DEF Commit, LoadPlan, LoadCheckpoint, LoseClaim, SkipRow,
       CreateLead, MergeRow, Fail, Crash
<1>7. CASE UNCHANGED <<import, request>>
  <2>1. \A x \in Busy' : x \in Busy /\ pc'[x] = pc[x] /\ tally'[x] = tally[x] /\ row'[x] = row[x]
    BY <1>7 DEF Busy
  <2> QED
    BY <1>3, <1>4, <1>7, <2>1
<1> QED
  BY <1>5, <1>6, <1>7 DEF Next, SoftDelete, AddLead

-----------------------------------------------------------------------------
(* Theorems *)

IInv == Typed /\ CreateInv /\ CoverInv /\ FreshInv /\ TallyInv

LEMMA InitIInv ==
    ASSUME Init
    PROVE  IInv
<1>1. Typed
  <2>1. Nothing \in RowPlan /\ Zero \in Counters
    BY DEF Nothing, RowPlan, Zero, Counters
  <2>2. {0} \X Known \subseteq LeadIds
    <3>1. 0 \in 0 .. MaxPlans
      BY File
    <3> QED
      BY <3>1, FileAssumption DEF LeadIds
  <2>3. TypeOK
    <3>1. /\ status \in Statuses /\ plan \in 0 .. MaxPlans /\ (plan = 0 <=> status = "uploaded")
          /\ next \in 0 .. RowCount /\ counters \in Counters
          /\ anyway \subseteq Plans /\ built \in 0 .. MaxPlans
      BY <2>1, File DEF Init, Statuses
    <3>0. crowded \in BOOLEAN /\ overlapped \in BOOLEAN
      BY Zenon DEF Init
    <3>6. addedAt \in [Rows -> 0 .. MaxPlans]
      BY File DEF Init
    <3>2. rowsOf \in [Plans -> [Rows -> RowPlan]]
      BY <2>1 DEF Init
    <3>3. /\ desk \in [Planners -> {"idle", "checked", "planned"}]
          /\ draft \in [Planners -> 0 .. MaxPlans]
          /\ pc \in [Committers -> PCs] /\ hand \in [Committers -> 0 .. MaxPlans]
          /\ at \in [Committers -> 0 .. RowCount] /\ row \in [Committers -> 0 .. RowCount]
      BY File DEF Init, PCs
    <3>4. /\ tally \in [Committers -> Counters]
          /\ made \in [Committers -> SUBSET LeadIds]
          /\ fills \in [Committers -> SUBSET (Plans \X Rows)]
      BY <2>1 DEF Init
    <3>5. /\ leads \subseteq LeadIds /\ deleted \subseteq leads
          /\ entries \in [LeadIds -> Nat] /\ filled \subseteq Plans \X Rows
      BY <2>2 DEF Init
    <3> QED
      BY <3>0, <3>1, <3>2, <3>3, <3>4, <3>5, <3>6 DEF TypeOK
  <2>4. PlansAreBuilt /\ PlansAreKnown
    BY DEF Init, PlansAreBuilt, PlansAreKnown, Nothing
  <2> QED
    BY <2>3, <2>4 DEF Typed
<1>2. CreateInv
  BY File DEF Init, CreateInv, OpenInserts, LeadsAreCreatedOnce, LeadIds
<1>3. CoverInv
  BY DEF Init, CoverInv, Replayed, CheckpointCovers, Busy
<1>4. FreshInv
  BY DEF Init, FreshInv, KeysDiffer, Nothing
<1>5. TallyInv
  BY File DEF Init, TallyInv, Starts, SoleCommit, NewLeads, CountInv, Busy
<1> QED
  BY <1>1, <1>2, <1>3, <1>4, <1>5 DEF IInv

LEMMA IInvStep ==
    ASSUME IInv, [Next]_vars
    PROVE  IInv'
BY TypedStep, CreateStep, ReplayedStep, CheckpointStep, FreshStep, StartsStep, SoleStep, NewLeadsStep, CountStep
DEF IInv, CoverInv, TallyInv

LEMMA Invariance == Spec => []IInv
BY InitIInv, IInvStep, PTL DEF Spec

(* Types, for any file and any number of requests.                           *)
THEOREM ImportTypes == Spec => []TypeOK
<1>1. IInv => TypeOK
  BY DEF IInv, Typed
<1> QED
  BY <1>1, Invariance, PTL

(* A lead that imports made has its entries once, whatever is replayed.      *)
THEOREM CreatedOnce == Spec => []LeadsAreCreatedOnce
<1>1. IInv => LeadsAreCreatedOnce
  BY DEF IInv, CreateInv
<1> QED
  BY <1>1, Invariance, PTL

(* The checkpoint covers the rows below it, and a committed import its file, *)
(* through crashes, failures and commits that overwrite each other's         *)
(* checkpoints.                                                              *)
THEOREM CheckpointIsCovered == Spec => []CheckpointCovers
<1>1. IInv => CheckpointCovers
  BY DEF IInv, CoverInv
<1> QED
  BY <1>1, Invariance, PTL

(* A committed import never reports more leads or merges than its plan has,  *)
(* and exactly those if its commits ran one after the other, through         *)
(* crashes, failures and resumptions.                                        *)
THEOREM CountersCorrect == Spec => []CountersAreTrue
<1>1. ASSUME IInv, status = "committed", ~ overlapped
      PROVE  /\ counters.merged <= Cardinality(Merges(plan))
             /\ counters.leads <= Cardinality(Creates(plan))
             /\ ~ crowded => /\ counters.merged = Cardinality(Merges(plan))
                             /\ counters.leads = Cardinality(Creates(plan))
  <2>1. plan \in Plans /\ next \in 0 .. RowCount /\ counters.merged \in Nat /\ counters.leads \in Nat
    BY <1>1, File DEF IInv, Typed, TypeOK, Plans, Counters
  <2>2. Counted(counters, plan, next) /\ (~ crowded => next = RowCount)
    BY <1>1 DEF IInv, TallyInv, CountInv, SoleCommit
  <2> QED
    BY <2>1, <2>2, SomeRows, FirstAndLastRow DEF Counted
<1>2. IInv => CountersAreTrue
  BY <1>1 DEF CountersAreTrue
<1> QED
  BY <1>2, Invariance, PTL

(* No commit of a plan that minds duplicates puts a second lead beside a     *)
(* live one with its key, but for those that others have added since the     *)
(* plan was built.                                                           *)
THEOREM NoDuplicates == Spec => NoSecondLead
<1>1. ASSUME IInv, [Next]_vars
      PROVE  [\A l \in leads' \ leads : \A k \in leads' \ deleted' :
                 (/\ l[1] \in Plans \ anyway /\ ~ overlapped
                  /\ CouldSee(l[1], k) /\ LeadKey(k) = LeadKey(l)) => k = l]_vars
  <2> USE DEF vars, import, drafts, request, crm, history
  <2> SUFFICES ASSUME NEW l \in leads' \ leads, NEW k \in leads' \ deleted',
                      l[1] \in Plans \ anyway, ~ overlapped,
                      CouldSee(l[1], k), LeadKey(k) = LeadKey(l)
               PROVE  k = l
    OBVIOUS
  <2>0. \A r \in Rivals : AddLead(r) => l[1] = 0
    BY DEF AddLead
  <2>1. PICK c \in Committers : CommitBatch(c)
    BY <1>1, <2>0, File DEF Next, DryRun, Commit, CheckStatus, BuildPlan, StorePlan, GiveUpPlanning, LoadPlan,
       LoadCheckpoint, Claim, LoseClaim, Reclaim, SkipRow, CreateLead, MergeRow, Finalize, Fail,
       RecordFailure, Crash, SoftDelete
  <2>2. /\ leads' = leads \cup made[c] /\ pc[c] # "idle"
        /\ UNCHANGED <<plan, rowsOf, anyway, deleted, overlapped, addedAt>>
    BY <2>1 DEF CommitBatch
  <2>3. hand[c] = plan /\ plan \in Plans /\ Fresh(plan)'
    <3>1. plan \in Plans /\ hand[c] = plan
      BY <1>1, <2>2, File DEF IInv, CoverInv, Replayed, Covers, Busy, Typed, TypeOK, PlansAreKnown, Plans
    <3>2. FreshInv'
      BY <1>1, FreshStep DEF IInv
    <3> QED
      BY <2>2, <3>1, <3>2, File DEF FreshInv
  <2>4. l = <<plan, l[2]>> /\ rowsOf[plan][l[2]].does = "create" /\ l[2] \in Rows
    BY <1>1, <2>2, <2>3, File DEF IInv, CreateInv, OpenInserts, Typed, TypeOK, LeadIds
  <2>5. k = <<plan, l[2]>>
    BY <2>2, <2>3, <2>4 DEF Fresh, Live, LeadKey, CouldSee
  <2> QED
    BY <2>4, <2>5
<1> QED
  BY <1>1, Invariance, PTL DEF Spec, NoSecondLead

=============================================================================
