---------------------------- MODULE MailThreads ----------------------------
(***************************************************************************)
(* What becomes of a fetched message (services/sync/ingest.ts and          *)
(* services/email): it is stored once, put into a thread by reference or   *)
(* by subject, threads it bridges are merged, the thread is matched to a   *)
(* lead or left to a human, and a matched thread's messages become entries *)
(* of the lead's timeline.                                                 *)
(*                                                                         *)
(* An ingest is one transaction, in these steps:                           *)
(*   Link    INSERT of the message; SELECTs of the threads it belongs to   *)
(*   Judge   of several: SELECT of what was decided of them                *)
(*   Gather  threads merged, message assigned; SELECT of the members       *)
(*   File    UPDATE of the thread (its row lock), match, entries, COMMIT   *)
(* A worker at "gathered" holds the rows it merges, or a key-share lock of *)
(* the one thread its message refers to.  Nothing of it is visible before. *)
(*                                                                         *)
(* Messages are numbered in the order they were sent; a thread is named    *)
(* after the message that created it.                                      *)
(***************************************************************************)
EXTENDS Integers

CONSTANTS
    Messages,       \* a set of naturals
    People, Leads, Subjects,
    Workers, Reps,
    Mentions,       \* [Messages -> SUBSET Messages]: In-Reply-To and References
    SubjectOf,      \* [Messages -> Subjects], normalised
    PeopleOf,       \* [Messages -> SUBSET People]: from, to and cc, without the mailbox's own
    InitialOwners,  \* [People -> SUBSET Leads]: whose contacts have the address
    None,
    MaxEvents

ASSUME CastAssumption ==
    /\ Messages \subseteq Nat
    /\ \A S \in SUBSET Messages : S # {} => \E x \in S : \A y \in S : x <= y
    /\ Mentions \in [Messages -> SUBSET Messages]
    /\ SubjectOf \in [Messages -> Subjects]
    /\ PeopleOf \in [Messages -> SUBSET People]
    /\ InitialOwners \in [People -> SUBSET Leads]
    /\ None \notin Messages \cup Leads \cup Subjects
    /\ MaxEvents \in Nat

VARIABLES
    threadOf,                       \* email_messages.thread_id; None: not stored
    triage, leadOf, people, subject, \* email_threads
    entries,                        \* activities of type email_*, per message and lead
    owners, gone,                   \* contacts.emails; soft-deleted leads
    pc, msg, linked, verdict, target, draft,   \* ingest transactions
    desk, ticket, choice,             \* reps at the triage queue
    events,
    together,                       \* history: pairs of messages ingested at the same time
    overtaken                       \* history: messages ingested without a thread they had found

threads == <<triage, leadOf, people, subject>>
mail    == <<threadOf, threads, entries>>
crm     == <<owners, gone>>
ingest  == <<pc, msg, linked, verdict, target, draft>>
queue   == <<desk, ticket, choice>>
history == <<together, overtaken>>
vars == <<mail, crm, ingest, queue, events, history>>

-----------------------------------------------------------------------------
(* Vocabulary *)

Triage == {"none", "ambiguous", "matched", "ignored"}
Verdicts == [status : {"keep", "ambiguous", "matched", "ignored"}, lead : Leads \cup {None}]
Keep == [status |-> "keep", lead |-> None]
Drafts == [people : SUBSET People, subject : Subjects \cup {None}]
NoDraft == [people |-> {}, subject |-> None]

Several(S) == \E s, t \in S : s # t
Exists(t) == triage[t] # "none"
Members(T) == {x \in Messages : threadOf[x] \in T}

\* computeIdSet, and the symmetric test of findLinkedThreadIds.
IdSet(m) == {m} \cup Mentions[m]

\* Mutant: only a parent that is already stored is found.
RelatedToParent(m, x) == x \in IdSet(m)

Related(m, x) == IdSet(m) \cap IdSet(x) # {}

LinkedThreads(m) == {threadOf[x] : x \in {y \in Messages : threadOf[y] # None /\ Related(m, y)}}
FallbackThreads(m) ==
    {t \in {threadOf[x] : x \in Messages} \ {None} :
        subject[t] = SubjectOf[m] /\ people[t] = PeopleOf[m]}

\* Mutant: the participants of the latest message replace the thread's.
AttributesOfLatest(S) ==
    [people |-> PeopleOf[CHOOSE x \in S : \A y \in S : y <= x],
     subject |-> SubjectOf[CHOOSE x \in S : \A y \in S : x <= y]]

\* recomputeThreadAttributes, of the messages S.
Attributes(S) ==
    [people |-> UNION {PeopleOf[x] : x \in S},
     subject |-> SubjectOf[CHOOSE x \in S : \A y \in S : x <= y]]

\* mergeThreads: matched (one of their leads) > ignored > ambiguous.
Precedence(T) ==
    LET matched == {t \in T : triage[t] = "matched"}
    IN IF matched # {} THEN {[status |-> "matched", lead |-> leadOf[t]] : t \in matched}
       ELSE IF \E t \in T : triage[t] = "ignored" THEN {[status |-> "ignored", lead |-> None]}
       ELSE {[status |-> "ambiguous", lead |-> None]}

\* findCandidateLeadIds, decideMatch: never a guess.
Candidates(P) == UNION {owners[p] : p \in P} \ gone
Decide(P) ==
    IF \E l \in Leads : Candidates(P) = {l}
    THEN [status |-> "matched", lead |-> CHOOSE l \in Leads : Candidates(P) = {l}]
    ELSE [status |-> "ambiguous", lead |-> None]

HasEntry(m) == \E l \in Leads : entries[m][l] > 0

\* Mutant: an entry on another lead does not count.
MaterializedPerLead(S, l) ==
    [m \in Messages |-> IF m \in S /\ entries[m][l] = 0
                        THEN [entries[m] EXCEPT ![l] = @ + 1] ELSE entries[m]]

\* Mutant: the latest message alone gets its entry.
MaterializedLatest(S, l) ==
    [m \in Messages |-> IF m \in S /\ (\A x \in S : x <= m) /\ ~ HasEntry(m)
                        THEN [entries[m] EXCEPT ![l] = @ + 1] ELSE entries[m]]

\* materializeThreadActivities: the entries after one more for each of S that has none.
Materialized(S, l) ==
    [m \in Messages |-> IF m \in S /\ ~ HasEntry(m)
                        THEN [entries[m] EXCEPT ![l] = @ + 1] ELSE entries[m]]

\* Mutant: the lead is checked for the first entry of a thread only.
ThrowsForNewThreads(S, l) == l \in gone /\ \A m \in S : ~ HasEntry(m)

\* It throws for a soft-deleted lead, if there is anything to write.
Throws(S, l) == l \in gone /\ \E m \in S : ~ HasEntry(m)

\* Merging locks every row it touches; assigning locks the thread against deletion only.
Merging(w) == pc[w] = "gathered" /\ verdict[w] # Keep
Locked(t, self) == \E w \in Workers \ {self} : Merging(w) /\ t \in linked[w]
Referred(t, self) == \E w \in Workers \ {self} : pc[w] = "gathered" /\ target[w] = t

Happens == events < MaxEvents /\ events' = events + 1

Rest(w) ==
    /\ pc' = [pc EXCEPT ![w] = "idle"]
    /\ msg' = [msg EXCEPT ![w] = None]
    /\ linked' = [linked EXCEPT ![w] = {}]
    /\ verdict' = [verdict EXCEPT ![w] = Keep]
    /\ target' = [target EXCEPT ![w] = None]
    /\ draft' = [draft EXCEPT ![w] = NoDraft]

-----------------------------------------------------------------------------
(* ingestMessage *)

InFlight == {msg[w] : w \in Workers} \ {None}

\* A message that is already stored, or that another transaction is about to store, is a no-op.
Link(w, m) ==
    /\ pc[w] = "idle"
    /\ threadOf[m] = None
    /\ m \notin InFlight
    /\ pc' = [pc EXCEPT ![w] = "linked"]
    /\ msg' = [msg EXCEPT ![w] = m]
    /\ \/ /\ LinkedThreads(m) # {}
          /\ linked' = [linked EXCEPT ![w] = LinkedThreads(m)]
       \/ /\ LinkedThreads(m) = {}
          /\ \/ FallbackThreads(m) = {} /\ UNCHANGED linked
             \/ \E t \in FallbackThreads(m) : linked' = [linked EXCEPT ![w] = {t}]
    /\ together' = together \cup {{m, x} : x \in InFlight}
    /\ UNCHANGED <<mail, crm, verdict, target, draft, queue, events, overtaken>>

\* mergeThreads, its SELECT: a thread that is gone by now counts for nothing.
Judge(w) ==
    /\ pc[w] = "linked"
    /\ Several(linked[w])
    /\ \E v \in Precedence(linked[w]) : verdict' = [verdict EXCEPT ![w] = v]
    /\ pc' = [pc EXCEPT ![w] = "judged"]
    /\ UNCHANGED <<mail, crm, msg, linked, target, draft, queue, events, history>>

MayGather(w) == pc[w] = "judged" \/ (pc[w] = "linked" /\ ~ Several(linked[w]))

\* The merge or createEmptyThread, the assignment, and the SELECT of
\* recomputeThreadAttributes.  Merging waits for who holds or refers to a thread.  Only the
\* survivor must still be there: moving and deleting another that is gone changes 0 rows.
Gather(w) ==
    LET there == {t \in linked[w] : Exists(t)}
    IN /\ MayGather(w)
       /\ \A t \in linked[w] : ~ Locked(t, w)
       /\ \E t \in IF linked[w] = {} THEN {msg[w]} ELSE there :
             /\ \A other \in there \ {t} : ~ Referred(other, w)
             /\ target' = [target EXCEPT ![w] = t]
       /\ draft' = [draft EXCEPT ![w] = Attributes({msg[w]} \cup Members(there))]
       /\ linked' = [linked EXCEPT ![w] = there]
       /\ overtaken' = IF there = linked[w] THEN overtaken ELSE overtaken \cup {msg[w]}
       /\ pc' = [pc EXCEPT ![w] = "gathered"]
       /\ UNCHANGED <<mail, crm, msg, verdict, queue, events, together>>

\* The foreign key refuses a message of a survivor that is gone, and the deletion of a thread
\* that a message refers to: the transaction rolls back.
GatherFails(w) ==
    /\ MayGather(w)
    /\ \/ \E t \in linked[w] : ~ Exists(t)
       \/ Several(linked[w]) /\ \E t \in linked[w] : Referred(t, w)
    /\ Rest(w)
    /\ UNCHANGED <<mail, crm, queue, events, history>>

\* Mutant: a thread that has entries of an earlier match is matched anew.
RefreshedAlways(status, lead, P) ==
    IF status = "ignored" THEN [status |-> status, lead |-> lead] ELSE Decide(P)

\* refreshThreadMatch: matched and ignored latch; an ambiguous thread is decided.
Refreshed(status, lead, P) ==
    IF status = "ambiguous" THEN Decide(P) ELSE [status |-> status, lead |-> lead]

\* Status and lead of w's thread as the transaction sees them once it has the row's lock.
Standing(w) ==
    IF linked[w] = {} THEN [status |-> "ambiguous", lead |-> None]
    ELSE IF verdict[w] # Keep THEN verdict[w]
    ELSE [status |-> triage[target[w]], lead |-> leadOf[target[w]]]

Outcome(w) == Refreshed(Standing(w).status, Standing(w).lead, draft[w].people)

\* All that is in w's thread when it files: who was committed there, what it merges, its message.
Filed(w) == {msg[w]} \cup Members(linked[w])

FileAs(w) ==
    LET o == Outcome(w)
        t == target[w]
        merged == linked[w] \ {t}
    IN /\ threadOf' = [x \in Messages |-> IF x \in Filed(w) THEN t ELSE threadOf[x]]
       /\ triage' = [x \in Messages |-> IF x = t THEN o.status
                                        ELSE IF x \in merged THEN "none" ELSE triage[x]]
       /\ leadOf' = [x \in Messages |-> IF x = t THEN o.lead
                                        ELSE IF x \in merged THEN None ELSE leadOf[x]]
       /\ people' = [x \in Messages |-> IF x = t THEN draft[w].people
                                        ELSE IF x \in merged THEN {} ELSE people[x]]
       /\ subject' = [x \in Messages |-> IF x = t THEN draft[w].subject
                                         ELSE IF x \in merged THEN None ELSE subject[x]]

File(w) ==
    /\ pc[w] = "gathered"
    /\ ~ Locked(target[w], w)
    /\ LET o == Outcome(w)
       IN \/ /\ o.status = "matched"
             /\ ~ Throws(Filed(w), o.lead)
             /\ entries' = Materialized(Filed(w), o.lead)
             /\ FileAs(w)
             /\ UNCHANGED overtaken
          \/ /\ o.status # "matched"
             /\ FileAs(w)
             /\ UNCHANGED <<entries, overtaken>>
          \/ /\ o.status = "matched"
             /\ Throws(Filed(w), o.lead)
             /\ overtaken' = overtaken \ {msg[w]}
             /\ UNCHANGED mail
    /\ Rest(w)
    /\ UNCHANGED <<crm, queue, events, together>>

-----------------------------------------------------------------------------
(* The triage queue *)

\* resolveThreadToLead and ignoreThread read the thread without a lock ...
Open(r, t, l) ==
    /\ desk[r] = "idle"
    /\ Exists(t)
    /\ triage[t] \in {"ambiguous", "ignored"}
    /\ l = None => triage[t] = "ambiguous"
    /\ l # None => l \notin gone
    /\ Happens
    /\ desk' = [desk EXCEPT ![r] = "deciding"]
    /\ ticket' = [ticket EXCEPT ![r] = t]
    /\ choice' = [choice EXCEPT ![r] = l]
    /\ UNCHANGED <<mail, crm, ingest, history>>

Close(r) ==
    /\ desk' = [desk EXCEPT ![r] = "idle"]
    /\ ticket' = [ticket EXCEPT ![r] = None]
    /\ choice' = [choice EXCEPT ![r] = None]

\* ... and write it by its id alone; a thread that is gone is no error.
Resolve(r) ==
    LET t == ticket[r]
        l == choice[r]
    IN /\ desk[r] = "deciding"
       /\ l # None
       /\ ~ Locked(t, None)
       /\ \/ /\ Exists(t)
             /\ ~ Throws(Members({t}), l)
             /\ triage' = [triage EXCEPT ![t] = "matched"]
             /\ leadOf' = [leadOf EXCEPT ![t] = l]
             /\ entries' = Materialized(Members({t}), l)
             /\ UNCHANGED <<threadOf, people, subject>>
          \/ /\ ~ Exists(t) \/ Throws(Members({t}), l)
             /\ UNCHANGED mail
       /\ Close(r)
       /\ UNCHANGED <<crm, ingest, events, history>>

Ignore(r) ==
    LET t == ticket[r]
    IN /\ desk[r] = "deciding"
       /\ choice[r] = None
       /\ ~ Locked(t, None)
       /\ triage' = [triage EXCEPT ![t] = IF Exists(t) THEN "ignored" ELSE "none"]
       /\ Close(r)
       /\ UNCHANGED <<threadOf, leadOf, people, subject, entries, crm, ingest, events, history>>

-----------------------------------------------------------------------------
(* The rest of the CRM *)

ChangeOwners(p, L) ==
    /\ Happens
    /\ owners' = [owners EXCEPT ![p] = L]
    /\ UNCHANGED <<mail, gone, ingest, queue, history>>

SoftDelete(l) ==
    /\ l \notin gone
    /\ Happens
    /\ gone' = gone \cup {l}
    /\ UNCHANGED <<mail, owners, ingest, queue, history>>

\* The process dies or the connection is lost: nothing was committed.
Crash(w) ==
    /\ pc[w] # "idle"
    /\ Happens
    /\ Rest(w)
    /\ overtaken' = overtaken \ {msg[w]}
    /\ UNCHANGED <<mail, crm, queue, together>>

-----------------------------------------------------------------------------
Init ==
    /\ threadOf = [m \in Messages |-> None]
    /\ triage = [m \in Messages |-> "none"]
    /\ leadOf = [m \in Messages |-> None]
    /\ people = [m \in Messages |-> {}]
    /\ subject = [m \in Messages |-> None]
    /\ entries = [m \in Messages |-> [l \in Leads |-> 0]]
    /\ owners = InitialOwners
    /\ gone = {}
    /\ pc = [w \in Workers |-> "idle"]
    /\ msg = [w \in Workers |-> None]
    /\ linked = [w \in Workers |-> {}]
    /\ verdict = [w \in Workers |-> Keep]
    /\ target = [w \in Workers |-> None]
    /\ draft = [w \in Workers |-> NoDraft]
    /\ desk = [r \in Reps |-> "idle"]
    /\ ticket = [r \in Reps |-> None]
    /\ choice = [r \in Reps |-> None]
    /\ events = 0
    /\ together = {} /\ overtaken = {}

Ingest(w) == (\E m \in Messages : Link(w, m)) \/ Judge(w) \/ Gather(w) \/ GatherFails(w) \/ File(w)
Triaging(r) == Resolve(r) \/ Ignore(r)

Next ==
    \/ \E w \in Workers : Ingest(w) \/ Crash(w)
    \/ \E r \in Reps : Triaging(r)
    \/ \E r \in Reps, t \in Messages, l \in Leads \cup {None} : Open(r, t, l)
    \/ \E p \in People, L \in SUBSET Leads : ChangeOwners(p, L)
    \/ \E l \in Leads : SoftDelete(l)

Spec == Init /\ [][Next]_vars

-----------------------------------------------------------------------------
(* Properties *)

\* Every row, and what each transaction holds, keeps its type; a matched thread has a lead.
TypeOK ==
    /\ threadOf \in [Messages -> Messages \cup {None}]
    /\ triage \in [Messages -> Triage]
    /\ leadOf \in [Messages -> Leads \cup {None}]
    /\ \A t \in Messages : triage[t] = "matched" => leadOf[t] # None
    /\ people \in [Messages -> SUBSET People]
    /\ subject \in [Messages -> Subjects \cup {None}]
    /\ entries \in [Messages -> [Leads -> Nat]]
    /\ owners \in [People -> SUBSET Leads] /\ gone \subseteq Leads
    /\ pc \in [Workers -> {"idle", "linked", "judged", "gathered"}]
    /\ msg \in [Workers -> Messages \cup {None}]
    /\ linked \in [Workers -> SUBSET Messages]
    /\ verdict \in [Workers -> Verdicts]
    /\ target \in [Workers -> Messages \cup {None}]
    /\ draft \in [Workers -> Drafts]
    /\ desk \in [Reps -> {"idle", "deciding"}]
    /\ ticket \in [Reps -> Messages \cup {None}]
    /\ choice \in [Reps -> Leads \cup {None}]
    /\ events \in 0..MaxEvents
    /\ together \subseteq SUBSET Messages /\ overtaken \subseteq Messages

\* C4, exactly once: a message has one timeline entry at most, over all leads, whatever
\* ingests, merges and human decisions its thread goes through at the same time.
OneEntryPerMessage ==
    \A m \in Messages : \A k, l \in Leads :
        (entries[m][k] > 0 /\ entries[m][l] > 0) => (k = l /\ entries[m][k] = 1)

\* No message of a matched thread is left out of the timeline: neither one that was in
\* flight while a human resolved the thread, nor those a merge brought in.
MatchedIsMaterialized ==
    \A m \in Messages :
        (threadOf[m] # None /\ triage[threadOf[m]] = "matched") => HasEntry(m)

\* A stored message's thread exists, and holds every stored message it shares an id with, in
\* whichever order they came.  Excepted are two whose transactions overlapped, and a message
\* that bridged threads, one of which another merge took away before it got there.
RelatedShareAThread ==
    \A m, x \in Messages :
        threadOf[m] # None =>
            /\ Exists(threadOf[m])
            /\ (threadOf[x] # None /\ Related(m, x) /\ {m, x} \notin together
                  /\ m \notin overtaken /\ x \notin overtaken)
                  => threadOf[m] = threadOf[x]

\* The participants a match is decided on are those of all members, but for members whose
\* transactions overlapped.
ParticipantsAreComplete ==
    \A t \in Messages :
        (Exists(t) /\ \A m, x \in Members({t}) : {m, x} \notin together)
            => people[t] = UNION {PeopleOf[m] : m \in Members({t})}

\* A match latches: a grown thread, or contacts that changed hands, do not undo it.  Only a
\* human who had opened that thread before it was matched, or a message that found it to be
\* one of several, changes the lead its entries belong to.
MatchLatches ==
    [][\A t \in Messages :
          (triage[t] = "matched" /\ triage'[t] # "none" /\ leadOf'[t] # leadOf[t]) =>
              \/ \E r \in Reps : ticket[r] = t /\ desk'[r] = "idle"
              \/ \E w \in Workers : Merging(w) /\ target[w] = t /\ pc'[w] = "idle"]_vars

\* The lead of a thread that is matched, and the leads whose timeline has a message.
MatchOf == [t \in Messages |-> IF triage[t] = "matched" THEN leadOf[t] ELSE None]
Timeline == [m \in Messages |-> {l \in Leads : entries[m][l] > 0}]
Astray == {m \in overtaken : threadOf[m] # None}

Talk == INSTANCE Conversations WITH
    home <- threadOf, status <- triage, lead <- MatchOf, timeline <- Timeline, astray <- Astray

\* Threading and triage implement their specification without transactions: a message
\* never leaves its conversation, ingests and decisions that overlap take effect one after
\* the other, and entries come with the match, for live leads only.
ImplementsConversations == Talk!Spec

=============================================================================
