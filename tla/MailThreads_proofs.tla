------------------------ MODULE MailThreads_proofs -------------------------
(***************************************************************************)
(* The inductive invariant of MailThreads and the theorems it gives: one   *)
(* timeline entry a message, none missing of a matched thread, related     *)
(* messages in one thread, complete participants, matches that latch, and  *)
(* the refinement of Conversations - for any messages, references,         *)
(* workers, decisions and crashes.                                         *)
(***************************************************************************)
EXTENDS MailThreads, TLAPS

(* TypeOK, by the owner of the variable. *)
MailTypes ==
    /\ threadOf \in [Messages -> Messages \cup {None}]
    /\ triage \in [Messages -> Triage]
    /\ leadOf \in [Messages -> Leads \cup {None}]
    /\ \A t \in Messages : triage[t] = "matched" => leadOf[t] # None
    /\ people \in [Messages -> SUBSET People]
    /\ subject \in [Messages -> Subjects \cup {None}]
EntryTypes == entries \in [Messages -> [Leads -> Nat]]
OtherTypes ==
    /\ owners \in [People -> SUBSET Leads] /\ gone \subseteq Leads
    /\ desk \in [Reps -> {"idle", "deciding"}]
    /\ ticket \in [Reps -> Messages \cup {None}]
    /\ choice \in [Reps -> Leads \cup {None}]
    /\ events \in 0..MaxEvents
    /\ together \subseteq SUBSET Messages /\ overtaken \subseteq Messages
IngestTypes ==
    /\ pc \in [Workers -> {"idle", "linked", "judged", "gathered"}]
    /\ msg \in [Workers -> Messages \cup {None}]
    /\ linked \in [Workers -> SUBSET Messages]
    /\ verdict \in [Workers -> Verdicts]
    /\ target \in [Workers -> Messages \cup {None}]
    /\ draft \in [Workers -> Drafts]

\* A rep that decides has a ticket.
Tickets == \A r \in Reps : desk[r] = "deciding" => ticket[r] \in Messages

Typed == MailTypes /\ EntryTypes /\ OtherTypes /\ IngestTypes /\ Tickets

\* A transaction has a message of its own that is not stored.
InHand ==
    \A w \in Workers :
        /\ pc[w] # "idle" => msg[w] \in Messages /\ threadOf[msg[w]] = None
        /\ pc[w] = "idle" => msg[w] = None /\ linked[w] = {} /\ verdict[w] = Keep
        /\ \A v \in Workers : (v # w /\ pc[v] # "idle" /\ pc[w] # "idle") =>
              msg[v] # msg[w] /\ {msg[v], msg[w]} \in together

\* A thread exists while it has members; its name is not given to another.
Threads ==
    /\ \A x \in Messages : threadOf[x] # None => Exists(threadOf[x])
    /\ \A t \in Messages : Exists(t) => threadOf[t] # None
    /\ \A w \in Workers : \A t \in linked[w] : threadOf[t] # None

\* A verdict is that of a merge; one that is left with a single thread was overtaken.
VerdictInv ==
    \A w \in Workers :
        /\ verdict[w] # Keep =>
              /\ pc[w] \in {"judged", "gathered"} /\ linked[w] # {}
              /\ verdict[w].status # "keep"
              /\ verdict[w].status = "matched" => verdict[w].lead # None
        /\ pc[w] \in {"judged", "gathered"} /\ Several(linked[w]) => verdict[w] # Keep
        /\ pc[w] = "judged" => Several(linked[w])
        /\ Merging(w) /\ ~ Several(linked[w]) => msg[w] \in overtaken

\* A transaction that has gathered its threads keeps them: they exist, and one that merges
\* shares none with another, but for the one it merges into.
Gathered ==
    \A w \in Workers : pc[w] = "gathered" =>
        /\ target[w] \in IF linked[w] = {} THEN {msg[w]} ELSE linked[w]
        /\ \A t \in linked[w] : Exists(t)
        /\ \A v \in Workers : \A t \in linked[w] \cap linked[v] :
              (v # w /\ pc[v] = "gathered" /\ verdict[w] # Keep) =>
                  t = target[w] /\ verdict[v] = Keep

HoldInv == InHand /\ Threads /\ VerdictInv /\ Gathered

\* What a transaction has found of its message's relatives.
RelativesAreLinked ==
    \A w \in Workers : pc[w] # "idle" =>
        \A x \in Messages :
            (threadOf[x] # None /\ Related(msg[w], x) /\ {msg[w], x} \notin together) =>
                \/ threadOf[x] \in linked[w]
                \/ \E t \in linked[w] : ~ Exists(t)
                \/ msg[w] \in overtaken
RelatedInv == RelativesAreLinked /\ RelatedShareAThread

\* What a transaction has gathered of its thread's people.
DraftIsComplete ==
    \A w \in Workers : pc[w] = "gathered" =>
        \/ draft[w].people = UNION {PeopleOf[x] : x \in {msg[w]} \cup Members(linked[w])}
        \/ \E x \in Members(linked[w]) : {msg[w], x} \in together
PeopleInv == DraftIsComplete /\ ParticipantsAreComplete

IInv ==
    /\ Typed /\ HoldInv
    /\ OneEntryPerMessage /\ MatchedIsMaterialized /\ RelatedInv /\ PeopleInv

-----------------------------------------------------------------------------
(* Operators *)

LEMMA Cast ==
    /\ Mentions \in [Messages -> SUBSET Messages]
    /\ SubjectOf \in [Messages -> Subjects]
    /\ PeopleOf \in [Messages -> SUBSET People]
    /\ None \notin Messages /\ None \notin Leads
    /\ \A S \in SUBSET Messages : S # {} => \E x \in S : \A y \in S : x <= y
    /\ Keep \in Verdicts /\ NoDraft \in Drafts
    /\ MaxEvents \in Nat
BY CastAssumption DEF Keep, Verdicts, NoDraft, Drafts

LEMMA SplitTypes == TypeOK <=> MailTypes /\ EntryTypes /\ OtherTypes /\ IngestTypes
BY DEF TypeOK, MailTypes, EntryTypes, OtherTypes, IngestTypes

LEMMA AttributesAreDrafts ==
    ASSUME NEW S \in SUBSET Messages, S # {}
    PROVE  Attributes(S) \in Drafts /\ Attributes(S).people = UNION {PeopleOf[x] : x \in S}
<1> DEFINE first == CHOOSE x \in S : \A y \in S : x <= y
<1>1. first \in Messages
  BY Cast
<1>2. UNION {PeopleOf[x] : x \in S} \in SUBSET People
  BY Cast
<1>3. SubjectOf[first] \in Subjects
  BY <1>1, Cast
<1> HIDE DEF first
<1>4. Attributes(S) = [people |-> UNION {PeopleOf[x] : x \in S}, subject |-> SubjectOf[first]]
  BY DEF Attributes, first
<1> QED
  BY <1>2, <1>3, <1>4 DEF Drafts

LEMMA DecideIsAVerdict ==
    ASSUME NEW P
    PROVE  /\ Decide(P).status \in {"matched", "ambiguous"}
           /\ Decide(P).lead \in Leads \cup {None}
           /\ Decide(P).status = "matched" => Decide(P).lead \in Leads
<1>1. CASE \E l \in Leads : Candidates(P) = {l}
  <2> DEFINE lead == CHOOSE l \in Leads : Candidates(P) = {l}
  <2>1. lead \in Leads
    BY <1>1
  <2> HIDE DEF lead
  <2>2. Decide(P) = [status |-> "matched", lead |-> lead]
    BY <1>1 DEF Decide, lead
  <2> QED
    BY <2>1, <2>2
<1>2. CASE ~ \E l \in Leads : Candidates(P) = {l}
  BY <1>2 DEF Decide
<1> QED
  BY <1>1, <1>2

LEMMA PrecedenceIsAVerdict ==
    ASSUME MailTypes, NEW T \in SUBSET Messages, NEW v \in Precedence(T)
    PROVE  /\ v \in Verdicts /\ v # Keep /\ v.status # "keep"
           /\ v.status = "matched" => v.lead # None
<1>1. \/ \E t \in T : triage[t] = "matched" /\ v = [status |-> "matched", lead |-> leadOf[t]]
      \/ v \in {[status |-> "ignored", lead |-> None], [status |-> "ambiguous", lead |-> None]}
  BY DEF Precedence
<1> QED
  BY <1>1 DEF Verdicts, Keep, MailTypes

\* What File makes of a thread is a thread.
LEMMA OutcomeIsATriage ==
    ASSUME Typed, HoldInv, NEW w \in Workers, pc[w] = "gathered"
    PROVE  /\ Outcome(w).status \in Triage \ {"none"}
           /\ Outcome(w).lead \in Leads \cup {None}
           /\ Outcome(w).status = "matched" => Outcome(w).lead \in Leads
<1>1. /\ Standing(w).status \in Triage \ {"none"}
      /\ Standing(w).lead \in Leads \cup {None}
      /\ Standing(w).status = "matched" => Standing(w).lead # None
  <2>1. CASE linked[w] = {}
    BY <2>1 DEF Standing, Triage
  <2>2. CASE linked[w] # {} /\ verdict[w] # Keep
    BY <2>2 DEF Standing, Triage, HoldInv, VerdictInv, Typed, IngestTypes, Verdicts
  <2>3. CASE linked[w] # {} /\ verdict[w] = Keep
    <3>1. target[w] \in Messages /\ Exists(target[w])
      BY <2>3 DEF HoldInv, Gathered, Typed, IngestTypes
    <3> QED
      BY <2>3, <3>1 DEF Standing, Exists, Typed, MailTypes
  <2> QED
    BY <2>1, <2>2, <2>3
<1> QED
  BY <1>1, DecideIsAVerdict DEF Outcome, Refreshed, Triage

\* An entry is added for each of S that has none, and nowhere else.
LEMMA MaterializedFacts ==
    ASSUME EntryTypes, NEW S, NEW l \in Leads
    PROVE  /\ Materialized(S, l) \in [Messages -> [Leads -> Nat]]
           /\ \A m \in Messages : \A k \in Leads :
                 /\ HasEntry(m) => Materialized(S, l)[m] = entries[m]
                 /\ k # l => Materialized(S, l)[m][k] = entries[m][k]
                 /\ Materialized(S, l)[m][l] \in {entries[m][l], entries[m][l] + 1}
                 /\ m \in S /\ ~ HasEntry(m) => Materialized(S, l)[m][l] = entries[m][l] + 1
BY DEF Materialized, EntryTypes

-----------------------------------------------------------------------------
(* Types *)

LEMMA FileTypes ==
    ASSUME Typed, HoldInv, NEW w \in Workers, File(w)
    PROVE  MailTypes' /\ EntryTypes'
<1>1. CASE UNCHANGED mail
  BY <1>1 DEF mail, threads, Typed, MailTypes, EntryTypes
<1>2. CASE FileAs(w)
  <2>1. target[w] \in Messages \cup {None} /\ draft[w] \in Drafts
    BY DEF Typed, IngestTypes
  <2>2. MailTypes'
    <3>1. /\ Outcome(w).status \in Triage /\ Outcome(w).lead \in Leads \cup {None}
          /\ Outcome(w).status = "matched" => Outcome(w).lead # None
      BY OutcomeIsATriage, Cast DEF File
    <3>2. threadOf' \in [Messages -> Messages \cup {None}]
      BY <1>2, <2>1 DEF FileAs, Typed, MailTypes
    <3>3. triage' \in [Messages -> Triage] /\ leadOf' \in [Messages -> Leads \cup {None}]
      BY <1>2, <3>1 DEF FileAs, Typed, MailTypes, Triage
    <3>4. \A t \in Messages : triage'[t] = "matched" => leadOf'[t] # None
      BY <1>2, <3>1 DEF FileAs, Typed, MailTypes
    <3>5. draft[w].people \in SUBSET People /\ draft[w].subject \in Subjects \cup {None}
      BY <2>1 DEF Drafts
    <3>6. people' \in [Messages -> SUBSET People] /\ subject' \in [Messages -> Subjects \cup {None}]
      BY <1>2, <3>5 DEF FileAs, Typed, MailTypes
    <3> QED
      BY <3>2, <3>3, <3>4, <3>6 DEF MailTypes
  <2>3. EntryTypes'
    BY OutcomeIsATriage, MaterializedFacts DEF File, Typed, EntryTypes, mail
  <2> QED
    BY <2>2, <2>3
<1> QED
  BY <1>1, <1>2 DEF File

LEMMA ResolveTypes ==
    ASSUME Typed, NEW r \in Reps, Resolve(r)
    PROVE  MailTypes' /\ EntryTypes'
<1>1. choice[r] \in Leads
  BY DEF Resolve, Typed, OtherTypes
<1>2. MailTypes'
  BY <1>1, Cast DEF Resolve, Typed, MailTypes, Triage, mail, threads
<1>3. EntryTypes'
  BY <1>1, MaterializedFacts DEF Resolve, Typed, EntryTypes, mail
<1> QED
  BY <1>2, <1>3

\* Types.
LEMMA TypedStep ==
    ASSUME Typed, HoldInv, [Next]_vars
    PROVE  Typed'
<1> USE DEF Typed, mail, threads, crm, ingest, queue, history
<1>1. ASSUME NEW w \in Workers, NEW m \in Messages, Link(w, m) PROVE Typed'
  <2>1. MailTypes'
    BY Cast, <1>1 DEF Link, MailTypes, Triage, Exists
  <2>2. EntryTypes'
    BY Cast, <1>1 DEF Link, EntryTypes
  <2>3. OtherTypes'
    BY Cast, <1>1 DEF Link, OtherTypes, InFlight, IngestTypes
  <2>4. IngestTypes'
    <3>1. LinkedThreads(m) \in SUBSET Messages /\ FallbackThreads(m) \in SUBSET Messages
      BY DEF LinkedThreads, FallbackThreads, MailTypes
    <3> QED
      BY <1>1, <3>1, Cast DEF Link, IngestTypes
  <2>5. Tickets'
    BY Cast, <1>1 DEF Link, Tickets, OtherTypes
  <2> QED
    BY <2>1, <2>2, <2>3, <2>4, <2>5
<1>2. ASSUME NEW w \in Workers, Gather(w) PROVE Typed'
  <2>1. MailTypes'
    BY Cast, <1>2 DEF Gather, MailTypes, Triage, Exists
  <2>2. EntryTypes'
    BY Cast, <1>2 DEF Gather, EntryTypes
  <2>3. OtherTypes'
    BY Cast, <1>2 DEF Gather, MayGather, OtherTypes, InFlight, IngestTypes, HoldInv, InHand
  <2>4. IngestTypes'
    <3> DEFINE there == {t \in linked[w] : Exists(t)}
    <3>1. {msg[w]} \cup Members(there) \in SUBSET Messages
      BY <1>2 DEF Gather, MayGather, HoldInv, InHand, Members
    <3>2. there \in SUBSET Messages /\ linked[w] \in SUBSET Messages /\ msg[w] \in Messages
      BY <1>2 DEF Gather, MayGather, HoldInv, InHand, IngestTypes
    <3>3. /\ draft' = [draft EXCEPT ![w] = Attributes({msg[w]} \cup Members(there))]
          /\ linked' = [linked EXCEPT ![w] = there]
          /\ \E t \in Messages : target' = [target EXCEPT ![w] = t]
          /\ pc' = [pc EXCEPT ![w] = "gathered"] /\ UNCHANGED <<msg, verdict>>
      BY <1>2, <3>2 DEF Gather
    <3>4. Attributes({msg[w]} \cup Members(there)) \in Drafts
      BY <3>1, AttributesAreDrafts
    <3> HIDE DEF there
    <3> QED
      BY <3>2, <3>3, <3>4 DEF IngestTypes
  <2>5. Tickets'
    BY Cast, <1>2 DEF Gather, Tickets, OtherTypes
  <2> QED
    BY <2>1, <2>2, <2>3, <2>4, <2>5
<1>3. ASSUME NEW w \in Workers, GatherFails(w) PROVE Typed'
  <2>1. MailTypes'
    BY Cast, <1>3 DEF GatherFails, Rest, MailTypes, Triage, Exists
  <2>2. EntryTypes'
    BY Cast, <1>3 DEF GatherFails, Rest, EntryTypes
  <2>3. OtherTypes'
    BY Cast, <1>3 DEF GatherFails, Rest, OtherTypes, InFlight, IngestTypes
  <2>4. IngestTypes'
    BY Cast, <1>3 DEF GatherFails, Rest, IngestTypes
  <2>5. Tickets'
    BY Cast, <1>3 DEF GatherFails, Rest, Tickets, OtherTypes
  <2> QED
    BY <2>1, <2>2, <2>3, <2>4, <2>5
<1>4. ASSUME NEW w \in Workers, File(w) PROVE Typed'
  <2>1. MailTypes'
    BY FileTypes, <1>4
  <2>2. EntryTypes'
    BY FileTypes, <1>4
  <2>3. OtherTypes'
    BY Cast, <1>4 DEF File, Rest, OtherTypes, InFlight, IngestTypes
  <2>4. IngestTypes'
    BY Cast, <1>4 DEF File, Rest, IngestTypes
  <2>5. Tickets'
    BY Cast, <1>4 DEF File, Rest, Tickets, OtherTypes
  <2> QED
    BY <2>1, <2>2, <2>3, <2>4, <2>5
<1>5. ASSUME NEW w \in Workers, Crash(w) PROVE Typed'
  <2>1. MailTypes'
    BY Cast, <1>5 DEF Crash, Rest, Happens, MailTypes, Triage, Exists
  <2>2. EntryTypes'
    BY Cast, <1>5 DEF Crash, Rest, Happens, EntryTypes
  <2>3. OtherTypes'
    BY Cast, <1>5 DEF Crash, Rest, Happens, OtherTypes, InFlight, IngestTypes
  <2>4. IngestTypes'
    BY Cast, <1>5 DEF Crash, Rest, Happens, IngestTypes
  <2>5. Tickets'
    BY Cast, <1>5 DEF Crash, Rest, Happens, Tickets, OtherTypes
  <2> QED
    BY <2>1, <2>2, <2>3, <2>4, <2>5
<1>6. ASSUME NEW r \in Reps, Resolve(r) PROVE Typed'
  <2>1. MailTypes'
    BY ResolveTypes, <1>6
  <2>2. EntryTypes'
    BY ResolveTypes, <1>6
  <2>3. OtherTypes'
    BY Cast, <1>6 DEF Resolve, Close, OtherTypes, InFlight, IngestTypes
  <2>4. IngestTypes'
    BY Cast, <1>6 DEF Resolve, Close, IngestTypes
  <2>5. Tickets'
    BY Cast, <1>6 DEF Resolve, Close, Tickets, OtherTypes
  <2> QED
    BY <2>1, <2>2, <2>3, <2>4, <2>5
<1>7. ASSUME NEW r \in Reps, Ignore(r) PROVE Typed'
  <2>1. MailTypes'
    BY Cast, <1>7 DEF Ignore, Close, MailTypes, Triage, Exists
  <2>2. EntryTypes'
    BY Cast, <1>7 DEF Ignore, Close, EntryTypes
  <2>3. OtherTypes'
    BY Cast, <1>7 DEF Ignore, Close, OtherTypes, InFlight, IngestTypes
  <2>4. IngestTypes'
    BY Cast, <1>7 DEF Ignore, Close, IngestTypes
  <2>5. Tickets'
    BY Cast, <1>7 DEF Ignore, Close, Tickets, OtherTypes
  <2> QED
    BY <2>1, <2>2, <2>3, <2>4, <2>5
<1>8. ASSUME NEW r \in Reps, NEW t \in Messages, NEW l \in Leads \cup {None}, Open(r, t, l) PROVE Typed'
  <2>1. MailTypes'
    BY Cast, <1>8 DEF Open, Happens, MailTypes, Triage, Exists
  <2>2. EntryTypes'
    BY Cast, <1>8 DEF Open, Happens, EntryTypes
  <2>3. OtherTypes'
    BY Cast, <1>8 DEF Open, Happens, OtherTypes, InFlight, IngestTypes
  <2>4. IngestTypes'
    BY Cast, <1>8 DEF Open, Happens, IngestTypes
  <2>5. Tickets'
    BY Cast, <1>8 DEF Open, Happens, Tickets, OtherTypes
  <2> QED
    BY <2>1, <2>2, <2>3, <2>4, <2>5
<1>9. ASSUME NEW p \in People, NEW L \in SUBSET Leads, ChangeOwners(p, L) PROVE Typed'
  <2>1. MailTypes'
    BY Cast, <1>9 DEF ChangeOwners, Happens, MailTypes, Triage, Exists
  <2>2. EntryTypes'
    BY Cast, <1>9 DEF ChangeOwners, Happens, EntryTypes
  <2>3. OtherTypes'
    BY Cast, <1>9 DEF ChangeOwners, Happens, OtherTypes, InFlight, IngestTypes
  <2>4. IngestTypes'
    BY Cast, <1>9 DEF ChangeOwners, Happens, IngestTypes
  <2>5. Tickets'
    BY Cast, <1>9 DEF ChangeOwners, Happens, Tickets, OtherTypes
  <2> QED
    BY <2>1, <2>2, <2>3, <2>4, <2>5
<1>10. ASSUME NEW l \in Leads, SoftDelete(l) PROVE Typed'
  <2>1. MailTypes'
    BY Cast, <1>10 DEF SoftDelete, Happens, MailTypes, Triage, Exists
  <2>2. EntryTypes'
    BY Cast, <1>10 DEF SoftDelete, Happens, EntryTypes
  <2>3. OtherTypes'
    BY Cast, <1>10 DEF SoftDelete, Happens, OtherTypes, InFlight, IngestTypes
  <2>4. IngestTypes'
    BY Cast, <1>10 DEF SoftDelete, Happens, IngestTypes
  <2>5. Tickets'
    BY Cast, <1>10 DEF SoftDelete, Happens, Tickets, OtherTypes
  <2> QED
    BY <2>1, <2>2, <2>3, <2>4, <2>5
<1>11. CASE UNCHANGED vars
  BY <1>11 DEF vars, MailTypes, EntryTypes, OtherTypes, IngestTypes, Tickets
<1>12. ASSUME NEW w \in Workers, Judge(w) PROVE Typed'
  <2>1. linked[w] \in SUBSET Messages
    BY DEF IngestTypes
  <2>2. PICK v \in Precedence(linked[w]) : verdict' = [verdict EXCEPT ![w] = v]
    BY <1>12 DEF Judge
  <2>3. v \in Verdicts
    BY <2>1, <2>2, PrecedenceIsAVerdict
  <2>4. IngestTypes'
    BY <1>12, <2>2, <2>3 DEF Judge, IngestTypes
  <2> QED
    BY <1>12, <2>4 DEF Judge, MailTypes, EntryTypes, OtherTypes, Tickets, Exists
<1> QED
  BY <1>1, <1>2, <1>3, <1>4, <1>5, <1>6, <1>7, <1>8, <1>9, <1>10, <1>11, <1>12 DEF Next, Ingest, Triaging

-----------------------------------------------------------------------------
(* What a File that goes through does to the threads *)

Moved(w) ==
    LET m == msg[w]
        T == linked[w]
        t == target[w]
    IN /\ m \in Messages /\ threadOf[m] = None /\ t \in Messages
       /\ T \subseteq Messages /\ t \in IF T = {} THEN {m} ELSE T
       /\ \A x \in Messages :
             threadOf'[x] = IF x = m \/ threadOf[x] \in T THEN t ELSE threadOf[x]
       /\ triage'[t] # "none" /\ \A s \in T : Exists(s)
       /\ \A s \in T \ {t} : triage'[s] = "none"
       /\ \A s \in Messages \ (T \cup {t}) : triage'[s] = triage[s] /\ people'[s] = people[s]
       /\ people'[t] = draft[w].people

LEMMA FileMoves ==
    ASSUME Typed, HoldInv, NEW w \in Workers, File(w)
    PROVE  UNCHANGED mail \/ (FileAs(w) /\ Moved(w))
<1>1. SUFFICES ASSUME FileAs(w) PROVE Moved(w)
  BY DEF File
<1>2. pc[w] = "gathered" /\ linked[w] \subseteq Messages
  BY DEF File, Typed, IngestTypes
<1>3. msg[w] \in Messages /\ threadOf[msg[w]] = None
  BY <1>2 DEF HoldInv, InHand
<1>4. target[w] \in IF linked[w] = {} THEN {msg[w]} ELSE linked[w]
  BY <1>2 DEF HoldInv, Gathered
<1>5. target[w] \in Messages
  BY <1>2, <1>3, <1>4
<1>6. \A x \in Messages :
         threadOf'[x] = IF x = msg[w] \/ threadOf[x] \in linked[w] THEN target[w] ELSE threadOf[x]
  BY <1>1 DEF FileAs, Filed, Members
<1>7. triage'[target[w]] # "none"
  <2>1. triage'[target[w]] = Outcome(w).status
    BY <1>1, <1>5 DEF FileAs
  <2>2. Outcome(w).status # "none"
    BY <1>2, OutcomeIsATriage
  <2> QED
    BY <2>1, <2>2
<1>8. \A s \in linked[w] : Exists(s)
  BY <1>2 DEF HoldInv, Gathered
<1>9. \A s \in linked[w] \ {target[w]} : triage'[s] = "none"
  BY <1>1, <1>2 DEF FileAs, Exists
<1>10. \A s \in Messages \ (linked[w] \cup {target[w]}) :
          triage'[s] = triage[s] /\ people'[s] = people[s]
  BY <1>1 DEF FileAs
<1>11. people'[target[w]] = draft[w].people
  BY <1>1, <1>5 DEF FileAs
<1> QED
  BY <1>2, <1>3, <1>4, <1>5, <1>6, <1>7, <1>8, <1>9, <1>10, <1>11 DEF Moved

\* A message that moves in was not there.
LEMMA MovesAreNew == ASSUME NEW w \in Workers, Moved(w) PROVE ~ UNCHANGED mail
<1>1. threadOf'[msg[w]] # threadOf[msg[w]]
  BY Cast DEF Moved
<1> QED
  BY <1>1 DEF mail

\* Outside ingestion no message moves and no thread comes or goes.
LEMMA OthersMoveNothing ==
    ASSUME Typed, NEW r \in Reps, Resolve(r) \/ Ignore(r)
    PROVE  /\ threadOf' = threadOf /\ people' = people
           /\ \A t \in Messages : Exists(t)' <=> Exists(t)
<1>1. ticket[r] \in Messages
  BY DEF Resolve, Ignore, Typed, Tickets
<1> QED
  BY <1>1 DEF Resolve, Ignore, Exists, Typed, MailTypes, mail, threads

-----------------------------------------------------------------------------
(* Steps *)

\* Two transactions never have one message, and know of each other.
LEMMA InHandStep ==
    ASSUME Typed, HoldInv, [Next]_vars
    PROVE  InHand'
<1> USE DEF Typed, HoldInv, InHand, mail, threads, crm, ingest, queue, history
<1>1. ASSUME NEW w \in Workers, NEW m \in Messages, Link(w, m) PROVE InHand'
  <2>1. /\ pc'[w] = "linked" /\ msg'[w] = m /\ threadOf' = threadOf /\ together \subseteq together'
        /\ \A v \in Workers \ {w} :
              /\ pc'[v] = pc[v] /\ msg'[v] = msg[v] /\ linked'[v] = linked[v] /\ verdict'[v] = verdict[v]
    BY <1>1 DEF Link, IngestTypes
  <2>2. ASSUME NEW v \in Workers \ {w}, pc[v] # "idle"
        PROVE  msg[v] # m /\ {m, msg[v]} \in together'
    <3>1. msg[v] \in InFlight
      BY <2>2, Cast DEF InFlight
    <3> QED
      BY <1>1, <3>1 DEF Link
  <2>3. threadOf[m] = None
    BY <1>1 DEF Link
  <2>4. ASSUME NEW u \in Workers, NEW v \in Workers, v # u, pc'[v] # "idle", pc'[u] # "idle"
        PROVE  msg'[v] # msg'[u] /\ {msg'[v], msg'[u]} \in together'
    <3>1. CASE u = w
      BY <2>1, <2>2, <2>4, <3>1
    <3>2. CASE v = w
      BY <2>1, <2>2, <2>4, <3>2
    <3>3. CASE u # w /\ v # w
      BY <2>1, <2>4, <3>3
    <3> QED
      BY <3>1, <3>2, <3>3
  <2>5. ASSUME NEW v \in Workers
        PROVE  /\ pc'[v] # "idle" => msg'[v] \in Messages /\ threadOf'[msg'[v]] = None
               /\ pc'[v] = "idle" => msg'[v] = None /\ linked'[v] = {} /\ verdict'[v] = Keep
    BY <2>1, <2>3
  <2> QED
    BY <2>4, <2>5
<1>2. ASSUME NEW w \in Workers, Gather(w) PROVE InHand'
  <2>1. pc[w] # "idle" /\ pc' = [pc EXCEPT ![w] = "gathered"]
        /\ UNCHANGED <<msg, threadOf, verdict, together>>
        /\ \A v \in Workers \ {w} : linked'[v] = linked[v]
    BY <1>2 DEF Gather, MayGather, IngestTypes
  <2> QED
    BY <2>1 DEF IngestTypes
<1>3. ASSUME NEW w \in Workers, GatherFails(w) PROVE InHand'
  BY Cast, <1>3 DEF GatherFails, Rest, IngestTypes
<1>4. ASSUME NEW w \in Workers, File(w) PROVE InHand'
  <2>1. /\ \A v \in Workers \ {w} : pc'[v] = pc[v] /\ msg'[v] = msg[v]
        /\ pc'[w] = "idle" /\ msg'[w] = None /\ together' = together
        /\ linked'[w] = {} /\ verdict'[w] = Keep
        /\ \A v \in Workers \ {w} : linked'[v] = linked[v] /\ verdict'[v] = verdict[v]
    BY <1>4 DEF File, Rest, IngestTypes
  <2>2. pc[w] = "gathered"
    BY <1>4 DEF File
  <2>3. \A v \in Workers \ {w} : pc[v] # "idle" => threadOf'[msg[v]] = None
    <3>1. CASE UNCHANGED mail
      BY <3>1
    <3>2. CASE Moved(w)
      BY <3>2, <2>2, Cast DEF Moved
    <3> QED
      BY <3>1, <3>2, <1>4, FileMoves
  <2> QED
    BY <2>1, <2>2, <2>3
<1>5. ASSUME NEW w \in Workers, Crash(w) PROVE InHand'
  BY Cast, <1>5 DEF Crash, Rest, Happens, IngestTypes
<1>6. ASSUME NEW r \in Reps, Resolve(r) PROVE InHand'
  BY Cast, OthersMoveNothing, <1>6 DEF Resolve, Close
<1>7. ASSUME NEW r \in Reps, Ignore(r) PROVE InHand'
  BY Cast, OthersMoveNothing, <1>7 DEF Ignore, Close
<1>8. ASSUME NEW r \in Reps, NEW t \in Messages, NEW l \in Leads \cup {None}, Open(r, t, l) PROVE InHand'
  BY Cast, <1>8 DEF Open, Happens
<1>9. ASSUME NEW p \in People, NEW L \in SUBSET Leads, ChangeOwners(p, L) PROVE InHand'
  BY Cast, <1>9 DEF ChangeOwners, Happens
<1>10. ASSUME NEW l \in Leads, SoftDelete(l) PROVE InHand'
  BY Cast, <1>10 DEF SoftDelete, Happens
<1>11. CASE UNCHANGED vars
  BY <1>11 DEF vars
<1>12. ASSUME NEW w \in Workers, Judge(w) PROVE InHand'
  BY <1>12 DEF Judge, IngestTypes
<1> QED
  BY <1>1, <1>2, <1>3, <1>4, <1>5, <1>6, <1>7, <1>8, <1>9, <1>10, <1>11, <1>12 DEF Next, Ingest, Triaging

\* Only a merge has a verdict.
LEMMA VerdictStep ==
    ASSUME Typed, HoldInv, [Next]_vars
    PROVE  VerdictInv'
<1> USE DEF Typed, IngestTypes, HoldInv, VerdictInv, Several, Merging, mail, threads, crm, ingest, queue, history
<1>1. ASSUME NEW w \in Workers, NEW m \in Messages, Link(w, m) PROVE VerdictInv'
  <2>1. /\ \A v \in Workers \ {w} : pc'[v] = pc[v] /\ msg'[v] = msg[v] /\ linked'[v] = linked[v]
        /\ pc[w] = "idle" /\ pc'[w] = "linked" /\ verdict' = verdict /\ overtaken' = overtaken
    BY <1>1 DEF Link
  <2>2. verdict[w] = Keep
    BY <2>1 DEF InHand
  <2> QED
    BY <2>1, <2>2
<1>2. ASSUME NEW w \in Workers, Gather(w) PROVE VerdictInv'
  <2>1. /\ \A v \in Workers \ {w} : pc'[v] = pc[v] /\ linked'[v] = linked[v]
        /\ verdict' = verdict /\ msg' = msg /\ overtaken \subseteq overtaken'
        /\ pc'[w] = "gathered" /\ linked'[w] \subseteq linked[w]
        /\ linked'[w] # linked[w] => msg[w] \in overtaken'
        /\ linked[w] # {} => linked'[w] # {}
    BY <1>2 DEF Gather
  <2>2. /\ verdict[w] # Keep => Several(linked[w])
        /\ Several(linked'[w]) => verdict[w] # Keep
    BY <1>2, <2>1 DEF Gather, MayGather
  <2> QED
    BY <2>1, <2>2
<1>3. ASSUME NEW w \in Workers, GatherFails(w) PROVE VerdictInv'
  BY Cast, <1>3 DEF GatherFails, Rest
<1>4. ASSUME NEW w \in Workers, File(w) \/ Crash(w) PROVE VerdictInv'
  <2>1. /\ \A v \in Workers \ {w} :
              /\ pc'[v] = pc[v] /\ msg'[v] = msg[v] /\ linked'[v] = linked[v]
              /\ verdict'[v] = verdict[v]
        /\ pc'[w] = "idle" /\ verdict'[w] = Keep /\ pc[w] # "idle"
        /\ overtaken \ {msg[w]} \subseteq overtaken'
    BY <1>4 DEF File, Crash, Rest
  <2>2. \A v \in Workers \ {w} : pc[v] # "idle" => msg[v] # msg[w]
    BY <2>1 DEF InHand
  <2> QED
    BY <2>1, <2>2
<1>6. ASSUME NEW r \in Reps, Resolve(r) PROVE VerdictInv'
  BY Cast, <1>6 DEF Resolve, Close
<1>7. ASSUME NEW r \in Reps, Ignore(r) PROVE VerdictInv'
  BY Cast, <1>7 DEF Ignore, Close
<1>8. ASSUME NEW r \in Reps, NEW t \in Messages, NEW l \in Leads \cup {None}, Open(r, t, l) PROVE VerdictInv'
  BY Cast, <1>8 DEF Open, Happens
<1>9. ASSUME NEW p \in People, NEW L \in SUBSET Leads, ChangeOwners(p, L) PROVE VerdictInv'
  BY Cast, <1>9 DEF ChangeOwners, Happens
<1>10. ASSUME NEW l \in Leads, SoftDelete(l) PROVE VerdictInv'
  BY Cast, <1>10 DEF SoftDelete, Happens
<1>11. CASE UNCHANGED vars
  BY <1>11 DEF vars
<1>12. ASSUME NEW w \in Workers, Judge(w) PROVE VerdictInv'
  <2>1. linked[w] \in SUBSET Messages
    OBVIOUS
  <2>2. PICK v \in Precedence(linked[w]) : verdict' = [verdict EXCEPT ![w] = v]
    BY <1>12 DEF Judge
  <2>3. v # Keep /\ v.status # "keep" /\ (v.status = "matched" => v.lead # None)
    BY <2>1, <2>2, PrecedenceIsAVerdict
  <2>4. /\ pc'[w] = "judged" /\ verdict'[w] = v /\ Several(linked[w])
        /\ \A u \in Workers \ {w} : pc'[u] = pc[u] /\ verdict'[u] = verdict[u]
        /\ UNCHANGED <<linked, msg, overtaken>>
    BY <1>12, <2>2 DEF Judge
  <2> QED
    BY <2>3, <2>4
<1> QED
  BY <1>1, <1>2, <1>3, <1>4, <1>6, <1>7, <1>8, <1>9, <1>10, <1>11, <1>12 DEF Next, Ingest, Triaging

\* A thread lives as long as it has members.
LEMMA ThreadsStep ==
    ASSUME Typed, HoldInv, [Next]_vars
    PROVE  Threads'
<1> USE DEF Typed, HoldInv, Threads, Exists, mail, threads, crm, ingest, queue, history
<1>1. ASSUME NEW w \in Workers, NEW m \in Messages, Link(w, m) PROVE Threads'
  <2>1. \A t \in LinkedThreads(m) \cup FallbackThreads(m) : threadOf[t] # None
    BY DEF LinkedThreads, FallbackThreads, MailTypes
  <2>2. threadOf' = threadOf /\ triage' = triage
    BY <1>1 DEF Link
  <2>3. \A v \in Workers : linked'[v] \in {linked[v], LinkedThreads(m)} \/ \E t \in FallbackThreads(m) : linked'[v] = {t}
    BY <1>1 DEF Link, IngestTypes
  <2> QED
    BY <2>1, <2>2, <2>3
<1>2. ASSUME NEW w \in Workers, Gather(w) PROVE Threads'
  BY Cast, <1>2 DEF Gather, IngestTypes
<1>3. ASSUME NEW w \in Workers, GatherFails(w) PROVE Threads'
  BY Cast, <1>3 DEF GatherFails, Rest, IngestTypes
<1>4. ASSUME NEW w \in Workers, File(w) PROVE Threads'
  <2>1. /\ \A v \in Workers \ {w} :
              /\ pc'[v] = pc[v] /\ msg'[v] = msg[v] /\ linked'[v] = linked[v]
              /\ target'[v] = target[v] /\ draft'[v] = draft[v]
        /\ pc'[w] = "idle" /\ linked'[w] = {} /\ together' = together
    BY <1>4 DEF File, Rest, Typed, IngestTypes
  <2>2. CASE UNCHANGED mail
    BY <2>1, <2>2
  <2>3. CASE Moved(w)
    <3>1. \A x \in Messages : threadOf[x] # None => threadOf'[x] # None
      BY <2>3, Cast DEF Moved
    <3>2. ASSUME NEW x \in Messages, threadOf'[x] # None
          PROVE  triage'[threadOf'[x]] # "none"
      <4>1. CASE threadOf'[x] = target[w]
        BY <4>1, <2>3 DEF Moved
      <4>2. CASE threadOf'[x] # target[w]
        <5>1. threadOf'[x] = threadOf[x] /\ threadOf[x] \notin linked[w] /\ x # msg[w]
          BY <4>2, <2>3 DEF Moved
        <5>2. threadOf[x] \in Messages /\ triage[threadOf[x]] # "none"
          BY <3>2, <5>1 DEF MailTypes
        <5> QED
          BY <4>2, <5>1, <5>2, <2>3 DEF Moved
      <4> QED
        BY <4>1, <4>2
    <3>3. ASSUME NEW t \in Messages, triage'[t] # "none"
          PROVE  threadOf'[t] # None
      <4>1. t = msg[w] \/ threadOf[t] # None
        BY <3>3, <2>3 DEF Moved
      <4> QED
        BY <4>1, <3>1, <2>3, Cast DEF Moved
    <3>4. \A v \in Workers : \A t \in linked'[v] : t \in Messages /\ threadOf[t] # None
      BY <2>1 DEF IngestTypes
    <3> QED
      BY <3>1, <3>2, <3>3, <3>4
  <2> QED
    BY <2>2, <2>3, <1>4, FileMoves
<1>5. ASSUME NEW w \in Workers, Crash(w) PROVE Threads'
  BY Cast, <1>5 DEF Crash, Rest, Happens, IngestTypes
<1>6. ASSUME NEW r \in Reps, Resolve(r) PROVE Threads'
  <2>1. threadOf' = threadOf /\ linked' = linked /\ \A t \in Messages : triage'[t] # "none" <=> triage[t] # "none"
    BY <1>6, OthersMoveNothing DEF Resolve
  <2> QED
    BY <2>1 DEF MailTypes
<1>7. ASSUME NEW r \in Reps, Ignore(r) PROVE Threads'
  <2>1. threadOf' = threadOf /\ linked' = linked /\ \A t \in Messages : triage'[t] # "none" <=> triage[t] # "none"
    BY <1>7, OthersMoveNothing DEF Ignore
  <2> QED
    BY <2>1 DEF MailTypes
<1>8. ASSUME NEW r \in Reps, NEW t \in Messages, NEW l \in Leads \cup {None}, Open(r, t, l) PROVE Threads'
  BY Cast, <1>8 DEF Open, Happens
<1>9. ASSUME NEW p \in People, NEW L \in SUBSET Leads, ChangeOwners(p, L) PROVE Threads'
  BY Cast, <1>9 DEF ChangeOwners, Happens
<1>10. ASSUME NEW l \in Leads, SoftDelete(l) PROVE Threads'
  BY Cast, <1>10 DEF SoftDelete, Happens
<1>11. CASE UNCHANGED vars
  BY <1>11 DEF vars
<1>12. ASSUME NEW w \in Workers, Judge(w) PROVE Threads'
  BY <1>12 DEF Judge
<1> QED
  BY <1>1, <1>2, <1>3, <1>4, <1>5, <1>6, <1>7, <1>8, <1>9, <1>10, <1>11, <1>12 DEF Next, Ingest, Triaging

\* Who only lets go keeps what others hold; threads that are held must stay.
LEMMA HeldStays ==
    ASSUME Typed, Gathered,
           \A v \in Workers : pc'[v] = "gathered" =>
              /\ pc[v] = "gathered" /\ msg'[v] = msg[v] /\ linked'[v] = linked[v]
              /\ target'[v] = target[v] /\ verdict'[v] = verdict[v]
              /\ \A t \in linked[v] : Exists(t)'
    PROVE  Gathered'
<1>1. ASSUME NEW w \in Workers, pc'[w] = "gathered"
      PROVE  /\ target'[w] \in IF linked'[w] = {} THEN {msg'[w]} ELSE linked'[w]
             /\ \A t \in linked'[w] : Exists(t)'
  BY <1>1 DEF Gathered
<1>2. ASSUME NEW w \in Workers, NEW v \in Workers, NEW t \in linked'[w] \cap linked'[v],
             v # w, pc'[w] = "gathered", pc'[v] = "gathered", verdict'[w] # Keep
      PROVE  t = target'[w] /\ verdict'[v] = Keep
  BY <1>2 DEF Gathered
<1> QED
  BY <1>1, <1>2 DEF Gathered

\* Threads that are held stay, and are merged by one transaction only.
LEMMA GatheredStep ==
    ASSUME Typed, HoldInv, [Next]_vars
    PROVE  Gathered'
<1> USE DEF HoldInv, Exists, mail, threads, crm, ingest, queue, history
<1>1. ASSUME NEW w \in Workers, NEW m \in Messages, Link(w, m) PROVE Gathered'
  <2>1. /\ \A v \in Workers \ {w} :
              pc'[v] = pc[v] /\ msg'[v] = msg[v] /\ linked'[v] = linked[v] /\ target'[v] = target[v]
        /\ pc'[w] = "linked" /\ triage' = triage /\ verdict' = verdict
    BY <1>1 DEF Link, Typed, IngestTypes
  <2> QED
    BY <2>1, HeldStays DEF Gathered
<1>2. ASSUME NEW w \in Workers, Gather(w) PROVE Gathered'
  <2>1. /\ \A v \in Workers \ {w} :
              pc'[v] = pc[v] /\ target'[v] = target[v] /\ linked'[v] = linked[v]
        /\ msg' = msg /\ verdict' = verdict /\ triage' = triage
        /\ linked'[w] = {t \in linked[w] : triage[t] # "none"}
        /\ pc'[w] = "gathered"
    BY <1>2 DEF Gather, Typed, IngestTypes
  <2>2. target'[w] \in IF linked[w] = {} THEN {msg[w]} ELSE linked'[w]
    BY <1>2, <2>1 DEF Gather, Typed, IngestTypes
  <2>3. \A v \in Workers \ {w} : pc[v] = "gathered" /\ verdict[v] # Keep =>
           linked'[w] \cap linked[v] = {}
    BY <1>2, <2>1 DEF Gather, Locked, Merging
  <2>4. \A v \in Workers \ {w} : pc[v] = "gathered" => target[v] \notin linked'[w] \ {target'[w]}
    BY <1>2, <2>1 DEF Gather, Referred, Typed, IngestTypes
  <2>5. ASSUME NEW v \in Workers \ {w}, pc[v] = "gathered", NEW t \in linked'[w] \cap linked[v]
        PROVE  t = target'[w] /\ verdict[v] = Keep
    <3>1. verdict[v] = Keep
      BY <2>3, <2>5
    <3>2. t = target[v]
      BY <2>5, <3>1 DEF Gathered, VerdictInv, Several
    <3> QED
      BY <2>4, <2>5, <3>1, <3>2
  <2>6. ASSUME NEW v \in Workers, pc'[v] = "gathered"
        PROVE  /\ target'[v] \in IF linked'[v] = {} THEN {msg'[v]} ELSE linked'[v]
               /\ \A t \in linked'[v] : triage'[t] # "none"
    BY <2>1, <2>2, <2>6 DEF Gathered
  <2>7. ASSUME NEW u \in Workers, NEW v \in Workers, NEW t \in linked'[u] \cap linked'[v],
               v # u, pc'[u] = "gathered", pc'[v] = "gathered", verdict'[u] # Keep
        PROVE  t = target'[u] /\ verdict'[v] = Keep
    <3>1. CASE u = w
      BY <2>1, <2>5, <2>7, <3>1
    <3>2. CASE v = w
      BY <2>1, <2>3, <2>7, <3>2
    <3>3. CASE u # w /\ v # w
      BY <2>1, <2>7, <3>3 DEF Gathered
    <3> QED
      BY <3>1, <3>2, <3>3
  <2> QED
    BY <2>6, <2>7 DEF Gathered
<1>3. ASSUME NEW w \in Workers, GatherFails(w) PROVE Gathered'
  BY HeldStays, <1>3 DEF GatherFails, Rest, Typed, IngestTypes, Gathered
<1>4. ASSUME NEW w \in Workers, File(w) PROVE Gathered'
  <2>1. /\ \A v \in Workers \ {w} :
              /\ pc'[v] = pc[v] /\ msg'[v] = msg[v] /\ linked'[v] = linked[v]
              /\ target'[v] = target[v] /\ verdict'[v] = verdict[v]
        /\ pc'[w] = "idle"
    BY <1>4 DEF File, Rest, Typed, IngestTypes
  <2>2. ASSUME NEW v \in Workers \ {w}, pc[v] = "gathered", NEW t \in linked[v]
        PROVE  triage'[t] # "none"
    <3>1. pc[w] = "gathered" /\ t \in Messages /\ triage[t] # "none"
      BY <1>4, <2>2 DEF File, Typed, IngestTypes, Gathered
    <3>2. CASE UNCHANGED mail
      BY <3>1, <3>2
    <3>3. CASE Moved(w) /\ t \in linked[w] \ {target[w]}
      <4>1. target[w] \in linked[w] /\ Several(linked[w])
        BY <3>3 DEF Moved, Several
      <4>2. verdict[w] # Keep
        BY <3>1, <4>1 DEF VerdictInv
      <4> QED
        BY <4>2, <3>1, <3>3, <2>2 DEF Gathered
    <3>4. CASE Moved(w) /\ t \notin linked[w] \ {target[w]}
      BY <3>1, <3>4 DEF Moved
    <3> QED
      BY <3>2, <3>3, <3>4, <1>4, FileMoves
  <2> QED
    BY <2>1, <2>2, HeldStays
<1>5. ASSUME NEW w \in Workers, Crash(w) PROVE Gathered'
  BY HeldStays, <1>5 DEF Crash, Rest, Happens, Typed, IngestTypes, Gathered
<1>6. ASSUME NEW r \in Reps, Resolve(r) PROVE Gathered'
  BY HeldStays, OthersMoveNothing, <1>6 DEF Resolve, Close, Gathered, Typed, IngestTypes
<1>7. ASSUME NEW r \in Reps, Ignore(r) PROVE Gathered'
  BY HeldStays, OthersMoveNothing, <1>7 DEF Ignore, Close, Gathered, Typed, IngestTypes
<1>8. ASSUME NEW r \in Reps, NEW t \in Messages, NEW l \in Leads \cup {None}, Open(r, t, l) PROVE Gathered'
  BY HeldStays, <1>8 DEF Open, Happens, Gathered
<1>9. ASSUME NEW p \in People, NEW L \in SUBSET Leads, ChangeOwners(p, L) PROVE Gathered'
  BY HeldStays, <1>9 DEF ChangeOwners, Happens, Gathered
<1>10. ASSUME NEW l \in Leads, SoftDelete(l) PROVE Gathered'
  BY HeldStays, <1>10 DEF SoftDelete, Happens, Gathered
<1>11. CASE UNCHANGED vars
  BY <1>11 DEF vars, Gathered, Several
<1>12. ASSUME NEW w \in Workers, Judge(w) PROVE Gathered'
  BY <1>12, HeldStays DEF Judge, Typed, IngestTypes, Gathered
<1> QED
  BY <1>1, <1>2, <1>3, <1>4, <1>5, <1>6, <1>7, <1>8, <1>9, <1>10, <1>11, <1>12 DEF Next, Ingest, Triaging

\* Writing entries keeps those there are.
LEMMA EntriesStay ==
    ASSUME Typed, NEW S, NEW l \in Leads, entries' = Materialized(S, l)
    PROVE  /\ OneEntryPerMessage => OneEntryPerMessage'
           /\ \A m \in Messages : m \in S \/ HasEntry(m) => HasEntry(m)'
<1> USE DEF Typed, EntryTypes
<1>1. ASSUME NEW m \in Messages, HasEntry(m)
      PROVE  entries'[m] = entries[m]
  BY <1>1, MaterializedFacts
<1>2. ASSUME NEW m \in Messages, ~ HasEntry(m)
      PROVE  /\ \A k \in Leads : entries[m][k] = 0
             /\ \A k \in Leads : k # l => entries'[m][k] = 0
             /\ entries'[m][l] \in {0, 1} /\ (m \in S => entries'[m][l] = 1)
  <2>1. \A k \in Leads : entries[m][k] = 0
    BY <1>2 DEF HasEntry
  <2> QED
    BY <1>2, <2>1, MaterializedFacts
<1>3. \A m \in Messages : m \in S \/ HasEntry(m) => HasEntry(m)'
  <2>1. ASSUME NEW m \in Messages, HasEntry(m) PROVE HasEntry(m)'
    BY <2>1, <1>1 DEF HasEntry
  <2>2. ASSUME NEW m \in S, m \in Messages, ~ HasEntry(m) PROVE HasEntry(m)'
    BY <2>2, <1>2 DEF HasEntry
  <2> QED
    BY <2>1, <2>2
<1>4. ASSUME OneEntryPerMessage, NEW m \in Messages, NEW j \in Leads, NEW k \in Leads,
             entries'[m][j] > 0, entries'[m][k] > 0
      PROVE  j = k /\ entries'[m][j] = 1
  <2>1. CASE HasEntry(m)
    BY <2>1, <1>1, <1>4 DEF OneEntryPerMessage
  <2>2. CASE ~ HasEntry(m)
    BY <2>2, <1>2, <1>4
  <2> QED
    BY <2>1, <2>2
<1> QED
  BY <1>3, <1>4 DEF OneEntryPerMessage

\* What File and Resolve do to the entries.
LEMMA FileEntries ==
    ASSUME Typed, HoldInv, NEW w \in Workers, File(w)
    PROVE  /\ OneEntryPerMessage => OneEntryPerMessage'
           /\ \A m \in Messages : HasEntry(m) => HasEntry(m)'
           /\ UNCHANGED mail \/ (Outcome(w).status = "matched" =>
                                    \A m \in Filed(w) \cap Messages : HasEntry(m)')
<1>1. CASE UNCHANGED entries /\ Outcome(w).status # "matched"
  BY <1>1 DEF OneEntryPerMessage, HasEntry
<1>2. CASE entries' = Materialized(Filed(w), Outcome(w).lead) /\ Outcome(w).status = "matched"
  BY <1>2, OutcomeIsATriage, EntriesStay DEF File
<1>3. CASE UNCHANGED mail
  BY <1>3 DEF mail, threads, OneEntryPerMessage, HasEntry
<1> QED
  BY <1>1, <1>2, <1>3 DEF File

LEMMA ResolveEntries ==
    ASSUME Typed, NEW r \in Reps, Resolve(r)
    PROVE  /\ OneEntryPerMessage => OneEntryPerMessage'
           /\ \A m \in Messages : HasEntry(m) => HasEntry(m)'
           /\ triage' = triage \/ \A m \in Members({ticket[r]}) : HasEntry(m)'
<1>1. CASE entries' = Materialized(Members({ticket[r]}), choice[r])
  <2>1. choice[r] \in Leads
    BY DEF Resolve, Typed, OtherTypes
  <2>2. Members({ticket[r]}) \subseteq Messages
    BY DEF Members
  <2> QED
    BY <1>1, <2>1, <2>2, EntriesStay
<1>2. CASE UNCHANGED mail
  BY <1>2 DEF mail, threads, OneEntryPerMessage, HasEntry
<1> QED
  BY <1>1, <1>2 DEF Resolve

\* No message gets a second entry.
LEMMA OneEntryStep ==
    ASSUME Typed, HoldInv, OneEntryPerMessage, [Next]_vars
    PROVE  OneEntryPerMessage'
<1> USE DEF mail, threads, crm, ingest, queue, history
<1>1. ASSUME NEW w \in Workers, NEW m \in Messages, Link(w, m) PROVE OneEntryPerMessage'
  BY <1>1 DEF Link, OneEntryPerMessage
<1>2. ASSUME NEW w \in Workers, Gather(w) PROVE OneEntryPerMessage'
  BY <1>2 DEF Gather, OneEntryPerMessage
<1>3. ASSUME NEW w \in Workers, GatherFails(w) PROVE OneEntryPerMessage'
  BY <1>3 DEF GatherFails, Rest, OneEntryPerMessage
<1>4. ASSUME NEW w \in Workers, File(w) PROVE OneEntryPerMessage'
  BY <1>4, FileEntries
<1>5. ASSUME NEW w \in Workers, Crash(w) PROVE OneEntryPerMessage'
  BY <1>5 DEF Crash, Rest, Happens, OneEntryPerMessage
<1>6. ASSUME NEW r \in Reps, Resolve(r) PROVE OneEntryPerMessage'
  BY <1>6, ResolveEntries
<1>7. ASSUME NEW r \in Reps, Ignore(r) PROVE OneEntryPerMessage'
  BY <1>7 DEF Ignore, Close, OneEntryPerMessage
<1>8. ASSUME NEW r \in Reps, NEW t \in Messages, NEW l \in Leads \cup {None}, Open(r, t, l) PROVE OneEntryPerMessage'
  BY <1>8 DEF Open, Happens, OneEntryPerMessage
<1>9. ASSUME NEW p \in People, NEW L \in SUBSET Leads, ChangeOwners(p, L) PROVE OneEntryPerMessage'
  BY <1>9 DEF ChangeOwners, Happens, OneEntryPerMessage
<1>10. ASSUME NEW l \in Leads, SoftDelete(l) PROVE OneEntryPerMessage'
  BY <1>10 DEF SoftDelete, Happens, OneEntryPerMessage
<1>11. CASE UNCHANGED vars
  BY <1>11 DEF vars, OneEntryPerMessage
<1>12. ASSUME NEW w \in Workers, Judge(w) PROVE OneEntryPerMessage'
  BY <1>12 DEF Judge, OneEntryPerMessage
<1> QED
  BY <1>1, <1>2, <1>3, <1>4, <1>5, <1>6, <1>7, <1>8, <1>9, <1>10, <1>11, <1>12 DEF Next, Ingest, Triaging

\* A message that gets into a matched thread gets its entry with it.
LEMMA MaterializedStep ==
    ASSUME Typed, HoldInv, MatchedIsMaterialized, [Next]_vars
    PROVE  MatchedIsMaterialized'
<1> USE DEF mail, threads, crm, ingest, queue, history
<1>1. ASSUME NEW w \in Workers, NEW m \in Messages, Link(w, m) PROVE MatchedIsMaterialized'
  BY <1>1 DEF Link, MatchedIsMaterialized, HasEntry
<1>2. ASSUME NEW w \in Workers, Gather(w) PROVE MatchedIsMaterialized'
  BY <1>2 DEF Gather, MatchedIsMaterialized, HasEntry
<1>3. ASSUME NEW w \in Workers, GatherFails(w) PROVE MatchedIsMaterialized'
  BY <1>3 DEF GatherFails, Rest, MatchedIsMaterialized, HasEntry
<1>4. ASSUME NEW w \in Workers, File(w) PROVE MatchedIsMaterialized'
  <2>1. CASE UNCHANGED mail
    BY <2>1 DEF MatchedIsMaterialized, HasEntry
  <2>2. CASE FileAs(w) /\ Moved(w)
    <3>1. ASSUME NEW m \in Messages, threadOf'[m] # None, triage'[threadOf'[m]] = "matched"
          PROVE  HasEntry(m)'
      <4>1. CASE m \in Filed(w)
        <5>1. threadOf'[m] = target[w] /\ triage'[target[w]] = Outcome(w).status
          BY <4>1, <2>2 DEF FileAs, Moved
        <5> QED
          BY <5>1, <4>1, <3>1, <2>2, <1>4, FileEntries, Cast DEF Moved
      <4>2. CASE m \notin Filed(w)
        <5>1. threadOf'[m] = threadOf[m] /\ threadOf[m] \notin linked[w]
          BY <4>2, <2>2, <3>1 DEF FileAs, Filed, Members
        <5>2. threadOf[m] \in Messages /\ Exists(threadOf[m])
          BY <5>1, <3>1 DEF Typed, MailTypes, HoldInv, Threads
        <5>3. threadOf[m] # target[w]
          BY <5>1, <5>2, <2>2 DEF Moved, HoldInv, Threads
        <5>4. triage[threadOf[m]] = "matched"
          BY <5>1, <5>2, <5>3, <3>1, <2>2 DEF Moved
        <5>5. HasEntry(m)
          BY <5>1, <5>4, <3>1 DEF MatchedIsMaterialized
        <5>6. HasEntry(m) => HasEntry(m)'
          BY <1>4, FileEntries
        <5> QED
          BY <5>5, <5>6
      <4> QED
        BY <4>1, <4>2
    <3> QED
      BY <3>1 DEF MatchedIsMaterialized
  <2> QED
    BY <2>1, <2>2, <1>4, FileMoves
<1>5. ASSUME NEW w \in Workers, Crash(w) PROVE MatchedIsMaterialized'
  BY <1>5 DEF Crash, Rest, Happens, MatchedIsMaterialized, HasEntry
<1>6. ASSUME NEW r \in Reps, Resolve(r) PROVE MatchedIsMaterialized'
  <2>1. threadOf' = threadOf
    BY <1>6, OthersMoveNothing
  <2>2. \A t \in Messages : triage'[t] = triage[t] \/ (t = ticket[r] /\ triage' # triage)
    BY <1>6 DEF Resolve, Typed, MailTypes
  <2>3. ASSUME NEW m \in Messages, threadOf[m] # None, triage'[threadOf[m]] = "matched"
        PROVE  HasEntry(m)'
    <3>1. CASE triage[threadOf[m]] = "matched"
      BY <3>1, <2>3, <1>6, ResolveEntries DEF MatchedIsMaterialized
    <3>2. CASE triage[threadOf[m]] # "matched"
      <4>1. m \in Members({ticket[r]}) /\ triage' # triage
        BY <3>2, <2>2, <2>3 DEF Members, Typed, MailTypes
      <4> QED
        BY <4>1, <1>6, ResolveEntries
    <3> QED
      BY <3>1, <3>2
  <2> QED
    BY <2>1, <2>3 DEF MatchedIsMaterialized
<1>7. ASSUME NEW r \in Reps, Ignore(r) PROVE MatchedIsMaterialized'
  <2>1. threadOf' = threadOf /\ entries' = entries
    BY <1>7 DEF Ignore
  <2>2. \A t \in Messages : triage'[t] = "matched" => triage[t] = "matched"
    BY <1>7 DEF Ignore, Typed, MailTypes
  <2>3. \A m \in Messages : threadOf[m] # None => threadOf[m] \in Messages
    BY DEF Typed, MailTypes
  <2> QED
    BY <2>1, <2>2, <2>3 DEF MatchedIsMaterialized, HasEntry
<1>8. ASSUME NEW r \in Reps, NEW t \in Messages, NEW l \in Leads \cup {None}, Open(r, t, l) PROVE MatchedIsMaterialized'
  BY <1>8 DEF Open, Happens, MatchedIsMaterialized, HasEntry
<1>9. ASSUME NEW p \in People, NEW L \in SUBSET Leads, ChangeOwners(p, L) PROVE MatchedIsMaterialized'
  BY <1>9 DEF ChangeOwners, Happens, MatchedIsMaterialized, HasEntry
<1>10. ASSUME NEW l \in Leads, SoftDelete(l) PROVE MatchedIsMaterialized'
  BY <1>10 DEF SoftDelete, Happens, MatchedIsMaterialized, HasEntry
<1>11. CASE UNCHANGED vars
  BY <1>11 DEF vars, MatchedIsMaterialized, HasEntry
<1>12. ASSUME NEW w \in Workers, Judge(w) PROVE MatchedIsMaterialized'
  BY <1>12 DEF Judge, MatchedIsMaterialized, HasEntry
<1> QED
  BY <1>1, <1>2, <1>3, <1>4, <1>5, <1>6, <1>7, <1>8, <1>9, <1>10, <1>11, <1>12 DEF Next, Ingest, Triaging

-----------------------------------------------------------------------------
(* Threads that hold together *)

\* A message's thread after a File: itself, or the one its thread was merged into.
LEMMA Follows ==
    ASSUME Typed, HoldInv, NEW w \in Workers, Moved(w),
           NEW m \in Messages, NEW x \in Messages, threadOf[m] # None, threadOf[m] = threadOf[x]
    PROVE  threadOf'[m] = threadOf'[x]
BY DEF Moved

LEMMA Relation == \A m, x \in Messages : Related(m, x) <=> Related(x, m)
BY DEF Related

\* Of the threads found, one is gone or all still hold what they held.
LEMMA LinkedFollow ==
    ASSUME Typed, HoldInv, NEW w \in Workers, Moved(w),
           NEW T \in SUBSET Messages, \A t \in T : threadOf[t] # None,
           NEW x \in Messages, threadOf[x] \in T
    PROVE  threadOf'[x] \in T \/ \E t \in T : triage'[t] = "none"
<1>1. x # msg[w]
  BY Cast DEF Moved
<1>2. CASE threadOf[x] \in linked[w] \ {target[w]}
  BY <1>2 DEF Moved
<1>3. CASE threadOf[x] \notin linked[w] \ {target[w]}
  BY <1>1, <1>3 DEF Moved
<1> QED
  BY <1>2, <1>3

LEMMA GoneStaysGone ==
    ASSUME Typed, HoldInv, NEW w \in Workers, Moved(w),
           NEW t \in Messages, threadOf[t] # None, triage[t] = "none"
    PROVE  triage'[t] = "none"
BY DEF Moved, Exists

LEMMA SameThreads ==
    ASSUME Typed, RelatedInv, UNCHANGED <<together, threadOf>>,
           \A v \in Workers : pc'[v] # "idle" =>
              /\ pc[v] # "idle" /\ msg'[v] = msg[v] /\ linked'[v] = linked[v]
              /\ msg[v] \in overtaken => msg[v] \in overtaken',
           \A m \in overtaken : threadOf[m] # None => m \in overtaken',
           \A t \in Messages : Exists(t)' <=> Exists(t)
    PROVE  RelatedInv'
<1>1. RelativesAreLinked'
  BY DEF RelatedInv, RelativesAreLinked, Related, IdSet, Typed, IngestTypes
<1>2. RelatedShareAThread'
  BY DEF RelatedInv, RelatedShareAThread, Related, IdSet, Typed, MailTypes
<1> QED
  BY <1>1, <1>2 DEF RelatedInv

\* What is related and was not ingested at the same time is found, and merged.
LEMMA RelatedStep ==
    ASSUME Typed, HoldInv, RelatedInv, [Next]_vars
    PROVE  RelatedInv'
<1> USE DEF RelatedInv, mail, threads, crm, ingest, queue, history
<1>1. ASSUME NEW w \in Workers, NEW m \in Messages, Link(w, m) PROVE RelatedInv'
  <2>1. /\ \A v \in Workers \ {w} : pc'[v] = pc[v] /\ msg'[v] = msg[v] /\ linked'[v] = linked[v]
        /\ msg'[w] = m /\ UNCHANGED <<triage, threadOf, overtaken>> /\ together \subseteq together'
        /\ LinkedThreads(m) # {} => linked'[w] = LinkedThreads(m)
    BY <1>1 DEF Link, Typed, IngestTypes
  <2>2. \A x \in Messages : threadOf[x] # None /\ Related(m, x) => threadOf[x] \in LinkedThreads(m)
    BY DEF LinkedThreads
  <2>3. RelativesAreLinked'
    <3>1. ASSUME NEW x \in Messages, threadOf[x] # None, Related(m, x)
          PROVE  threadOf[x] \in linked'[w]
      BY <2>1, <2>2, <3>1
    <3>2. ASSUME NEW v \in Workers \ {w}, pc[v] # "idle", NEW x \in Messages, threadOf[x] # None,
                 Related(msg[v], x), {msg[v], x} \notin together'
          PROVE  \/ threadOf[x] \in linked[v]
                 \/ (\E t \in linked[v] : triage[t] = "none") \/ msg[v] \in overtaken
      BY <2>1, <3>2 DEF RelativesAreLinked, Exists
    <3> QED
      BY <2>1, <3>1, <3>2 DEF RelativesAreLinked, Exists, Related, IdSet
  <2>4. RelatedShareAThread'
    BY <2>1 DEF RelatedShareAThread, Exists, Related, IdSet
  <2> QED
    BY <2>3, <2>4
<1>2. ASSUME NEW w \in Workers, Gather(w) PROVE RelatedInv'
  <2>1. /\ \A v \in Workers \ {w} : pc'[v] = pc[v] /\ linked'[v] = linked[v]
        /\ UNCHANGED <<msg, triage, threadOf, together>> /\ overtaken \subseteq overtaken'
        /\ linked'[w] = {t \in linked[w] : Exists(t)}
        /\ linked'[w] # linked[w] => msg[w] \in overtaken'
    BY <1>2 DEF Gather, Typed, IngestTypes
  <2>2. pc[w] # "idle" /\ \A x \in Messages : threadOf[x] # None => Exists(threadOf[x])
    BY <1>2 DEF Gather, MayGather, HoldInv, Threads
  <2>3. RelativesAreLinked'
    BY <2>1, <2>2 DEF RelativesAreLinked, Related, IdSet, Exists
  <2>4. RelatedShareAThread'
    BY <2>1 DEF RelatedShareAThread, Related, IdSet, Exists
  <2> QED
    BY <2>3, <2>4
<1>3. ASSUME NEW w \in Workers, GatherFails(w) PROVE RelatedInv'
  BY Cast, SameThreads, <1>3 DEF GatherFails, Rest, Exists, Typed, IngestTypes
<1>4. ASSUME NEW w \in Workers, File(w) PROVE RelatedInv'
  <2>1. /\ \A v \in Workers \ {w} :
              /\ pc'[v] = pc[v] /\ msg'[v] = msg[v] /\ linked'[v] = linked[v]
              /\ target'[v] = target[v] /\ draft'[v] = draft[v]
        /\ pc'[w] = "idle" /\ linked'[w] = {} /\ together' = together
        /\ overtaken \ {msg[w]} \subseteq overtaken'
    BY <1>4 DEF File, Rest, Typed, IngestTypes
  <2>2. CASE UNCHANGED mail
    <3>1. threadOf[msg[w]] = None /\ \A v \in Workers \ {w} : pc[v] # "idle" => msg[v] # msg[w]
      BY <1>4 DEF File, HoldInv, InHand
    <3> QED
      BY <2>1, <2>2, <3>1, SameThreads DEF Exists
  <2>3. CASE Moved(w)
    <3>1. pc[w] = "gathered" /\ msg[w] \in Messages /\ \A t \in linked[w] : Exists(t)
      BY <1>4 DEF File, HoldInv, InHand, Gathered
    <3>0. overtaken' = overtaken
      BY <1>4, <2>3, MovesAreNew DEF File
    <3>2. ASSUME NEW v \in Workers \ {w}, pc[v] # "idle", NEW x \in Messages, threadOf'[x] # None,
                 Related(msg[v], x), {msg[v], x} \notin together
          PROVE  \/ threadOf'[x] \in linked[v]
                 \/ (\E t \in linked[v] : triage'[t] = "none") \/ msg[v] \in overtaken
      <4>1. x # msg[w]
        BY <3>1, <3>2 DEF HoldInv, InHand
      <4>2. threadOf[x] # None
        BY <4>1, <3>2, <2>3, Cast DEF Moved
      <4>3. linked[v] \in SUBSET Messages /\ \A t \in linked[v] : threadOf[t] # None
        BY <3>2 DEF Typed, IngestTypes, HoldInv, Threads
      <4>4. CASE threadOf[x] \in linked[v]
        BY <4>3, <4>4, <2>3, LinkedFollow
      <4>5. CASE \E t \in linked[v] : triage[t] = "none"
        BY <4>3, <4>5, <2>3, GoneStaysGone
      <4> QED
        BY <4>2, <4>4, <4>5, <3>2 DEF RelativesAreLinked, Exists
    <3>3. ASSUME NEW x \in Messages, threadOf[x] # None, Related(msg[w], x), {msg[w], x} \notin together,
                 msg[w] \notin overtaken
          PROVE  threadOf'[msg[w]] = threadOf'[x]
      <4>1. threadOf[x] \in linked[w]
        BY <3>1, <3>3 DEF RelativesAreLinked
      <4> QED
        BY <4>1, <2>3 DEF Moved
    <3>4. ASSUME NEW m \in Messages, NEW x \in Messages, threadOf'[m] # None, threadOf'[x] # None,
                 Related(m, x), {m, x} \notin together,
                 m \notin overtaken, x \notin overtaken
          PROVE  threadOf'[m] = threadOf'[x]
      <4>1. CASE m = msg[w] /\ x # msg[w]
        <5>1. threadOf[x] # None
          BY <4>1, <3>4, <2>3, Cast DEF Moved
        <5> QED
          BY <4>1, <5>1, <3>3, <3>4
      <4>2. CASE x = msg[w] /\ m # msg[w]
        <5>1. threadOf[m] # None
          BY <4>2, <3>4, <2>3, Cast DEF Moved
        <5>2. {m, x} = {x, m}
          OBVIOUS
        <5> QED
          BY <4>2, <5>1, <5>2, <3>3, <3>4, Relation
      <4>3. CASE m # msg[w] /\ x # msg[w]
        <5>1. threadOf[m] # None /\ threadOf[x] # None
          BY <4>3, <3>4, <2>3, Cast DEF Moved
        <5> QED
          BY <5>1, <3>4, <2>3, Follows DEF RelatedShareAThread
      <4> QED
        BY <4>1, <4>2, <4>3
    <3>5. \A m \in Messages : threadOf'[m] # None => triage'[threadOf'[m]] # "none"
      BY ThreadsStep DEF Threads, Exists
    <3>6. RelativesAreLinked'
      BY <2>1, <3>0, <3>2 DEF RelativesAreLinked, Exists, Related, IdSet
    <3>7. RelatedShareAThread'
      BY <2>1, <3>0, <3>4, <3>5 DEF RelatedShareAThread, Exists, Related, IdSet
    <3> QED
      BY <3>6, <3>7
  <2> QED
    BY <2>2, <2>3, <1>4, FileMoves
<1>5. ASSUME NEW w \in Workers, Crash(w) PROVE RelatedInv'
  <2>1. /\ \A v \in Workers \ {w} :
              pc'[v] = pc[v] /\ msg'[v] = msg[v] /\ linked'[v] = linked[v]
        /\ pc[w] # "idle" /\ pc'[w] = "idle" /\ UNCHANGED <<together, threadOf, triage>>
        /\ overtaken \ {msg[w]} \subseteq overtaken'
    BY <1>5 DEF Crash, Rest, Typed, IngestTypes
  <2>2. threadOf[msg[w]] = None /\ \A v \in Workers \ {w} : pc[v] # "idle" => msg[v] # msg[w]
    BY <2>1 DEF HoldInv, InHand
  <2> QED
    BY <2>1, <2>2, SameThreads DEF Exists
<1>6. ASSUME NEW r \in Reps, Resolve(r) PROVE RelatedInv'
  <2>1. /\ UNCHANGED <<pc, msg, linked, together, overtaken, threadOf>>
        /\ \A t \in Messages : Exists(t)' <=> Exists(t)
    BY <1>6, OthersMoveNothing DEF Resolve
  <2> QED
    BY <2>1, SameThreads
<1>7. ASSUME NEW r \in Reps, Ignore(r) PROVE RelatedInv'
  <2>1. /\ UNCHANGED <<pc, msg, linked, together, overtaken, threadOf>>
        /\ \A t \in Messages : Exists(t)' <=> Exists(t)
    BY <1>7, OthersMoveNothing DEF Ignore
  <2> QED
    BY <2>1, SameThreads
<1>8. ASSUME NEW r \in Reps, NEW t \in Messages, NEW l \in Leads \cup {None}, Open(r, t, l) PROVE RelatedInv'
  BY Cast, <1>8 DEF Open, Happens, RelativesAreLinked, RelatedShareAThread, Exists
<1>9. ASSUME NEW p \in People, NEW L \in SUBSET Leads, ChangeOwners(p, L) PROVE RelatedInv'
  BY Cast, <1>9 DEF ChangeOwners, Happens, RelativesAreLinked, RelatedShareAThread, Exists
<1>10. ASSUME NEW l \in Leads, SoftDelete(l) PROVE RelatedInv'
  BY Cast, <1>10 DEF SoftDelete, Happens, RelativesAreLinked, RelatedShareAThread, Exists
<1>11. CASE UNCHANGED vars
  BY <1>11 DEF vars, RelativesAreLinked, RelatedShareAThread, Exists
<1>12. ASSUME NEW w \in Workers, Judge(w) PROVE RelatedInv'
  BY <1>12, SameThreads DEF Judge, Exists, Typed, IngestTypes
<1> QED
  BY <1>1, <1>2, <1>3, <1>4, <1>5, <1>6, <1>7, <1>8, <1>9, <1>10, <1>11, <1>12 DEF Next, Ingest, Triaging

\* Who only lets go of threads leaves the drafts complete.
LEMMA SamePeople ==
    ASSUME Typed, PeopleInv, UNCHANGED <<together, threadOf, people>>,
           \A v \in Workers : pc'[v] = "gathered" =>
              pc[v] = "gathered" /\ msg'[v] = msg[v] /\ linked'[v] = linked[v] /\ draft'[v] = draft[v],
           \A t \in Messages : Exists(t)' <=> Exists(t)
    PROVE  PeopleInv'
<1>1. \A T : Members(T)' = Members(T)
  BY DEF Members
<1>2. DraftIsComplete'
  BY <1>1 DEF PeopleInv, DraftIsComplete
<1>3. ParticipantsAreComplete'
  BY <1>1 DEF PeopleInv, ParticipantsAreComplete
<1> QED
  BY <1>2, <1>3 DEF PeopleInv

\* A transaction that has gathered its threads loses none of their members to another, and
\* those it gains come with a message of the same time.
LEMMA MembersStay ==
    ASSUME Typed, HoldInv, NEW w \in Workers, pc[w] = "gathered", Moved(w),
           NEW v \in Workers, v # w, pc[v] = "gathered"
    PROVE  /\ \A x \in Members(linked[v]) : threadOf'[x] \in linked[v]
           /\ \A x \in Messages : threadOf'[x] \in linked[v] /\ x \notin Members(linked[v]) =>
                 threadOf'[msg[w]] \in linked[v]
<1>1. \A x \in Messages : threadOf[x] \in linked[w] \cap linked[v] => target[w] \in linked[v]
  <2>1. CASE verdict[w] # Keep
    BY <2>1 DEF HoldInv, Gathered
  <2>2. CASE verdict[w] = Keep
    <3>1. ~ Several(linked[w])
      BY <2>2 DEF HoldInv, VerdictInv
    <3>2. linked[w] # {} => target[w] \in linked[w]
      BY DEF HoldInv, Gathered
    <3> QED
      BY <3>1, <3>2 DEF Several
  <2> QED
    BY <2>1, <2>2
<1>2. linked[v] \subseteq Messages /\ None \notin linked[v]
  BY Cast DEF Typed, IngestTypes
<1> QED
  BY <1>1, <1>2 DEF Moved, Members

\* Participants are recomputed from all that the transaction can see.
LEMMA PeopleStep ==
    ASSUME Typed, HoldInv, PeopleInv, [Next]_vars
    PROVE  PeopleInv'
<1> USE DEF mail, threads, crm, ingest, queue, history
<1>1. ASSUME NEW w \in Workers, NEW m \in Messages, Link(w, m) PROVE PeopleInv'
  <2>1. /\ \A v \in Workers \ {w} :
              /\ pc'[v] = pc[v] /\ msg'[v] = msg[v] /\ linked'[v] = linked[v] /\ draft'[v] = draft[v]
        /\ pc'[w] = "linked" /\ triage' = triage /\ threadOf' = threadOf /\ people' = people
        /\ together \subseteq together'
    BY <1>1 DEF Link, Typed, IngestTypes
  <2>2. \A T : Members(T)' = Members(T)
    BY <2>1 DEF Members
  <2>3. DraftIsComplete'
    BY <2>1, <2>2 DEF PeopleInv, DraftIsComplete
  <2>4. ParticipantsAreComplete'
    BY <2>1, <2>2 DEF PeopleInv, ParticipantsAreComplete, Exists
  <2> QED
    BY <2>3, <2>4 DEF PeopleInv
<1>2. ASSUME NEW w \in Workers, Gather(w) PROVE PeopleInv'
  <2> DEFINE there == {t \in linked[w] : Exists(t)}
  <2>1. /\ \A v \in Workers \ {w} :
              pc'[v] = pc[v] /\ draft'[v] = draft[v] /\ linked'[v] = linked[v]
        /\ UNCHANGED <<msg, together, threadOf, people, triage>>
        /\ linked'[w] = there /\ draft'[w] = Attributes({msg[w]} \cup Members(there))
    BY <1>2 DEF Gather, Typed, IngestTypes
  <2>2. {msg[w]} \cup Members(there) \in SUBSET Messages
    BY <1>2 DEF Gather, MayGather, HoldInv, InHand, Members
  <2> HIDE DEF there
  <2>3. draft'[w].people = UNION {PeopleOf[x] : x \in {msg[w]} \cup Members(there)}
    BY <2>1, <2>2, AttributesAreDrafts
  <2>4. \A T : Members(T)' = Members(T)
    BY <2>1 DEF Members
  <2>5. DraftIsComplete'
    BY <2>1, <2>3, <2>4 DEF PeopleInv, DraftIsComplete
  <2>6. ParticipantsAreComplete'
    BY <2>1, <2>4 DEF PeopleInv, ParticipantsAreComplete, Exists
  <2> QED
    BY <2>5, <2>6 DEF PeopleInv
<1>3. ASSUME NEW w \in Workers, GatherFails(w) PROVE PeopleInv'
  BY Cast, SamePeople, <1>3 DEF GatherFails, Rest, Exists, Typed, IngestTypes
<1>4. ASSUME NEW w \in Workers, File(w) PROVE PeopleInv'
  <2>1. /\ \A v \in Workers \ {w} :
              /\ pc'[v] = pc[v] /\ msg'[v] = msg[v] /\ linked'[v] = linked[v]
              /\ target'[v] = target[v] /\ draft'[v] = draft[v]
        /\ pc'[w] = "idle" /\ linked'[w] = {} /\ together' = together
    BY <1>4 DEF File, Rest, Typed, IngestTypes
  <2>2. pc[w] = "gathered"
    BY <1>4 DEF File
  <2>3. CASE UNCHANGED mail
    BY <2>1, <2>3, SamePeople DEF Exists
  <2>4. CASE Moved(w)
    <3>1. ASSUME NEW v \in Workers \ {w}, pc[v] = "gathered"
          PROVE  \/ draft[v].people = UNION {PeopleOf[x] : x \in {msg[v]} \cup Members(linked[v])'}
                 \/ \E x \in Messages : threadOf'[x] \in linked[v] /\ {msg[v], x} \in together
      <4>1. CASE \E x \in Members(linked[v]) : {msg[v], x} \in together
        BY <4>1, <3>1, <2>2, <2>4, MembersStay DEF Members
      <4>2. CASE threadOf'[msg[w]] \in linked[v]
        <5>1. {msg[v], msg[w]} \in together /\ msg[w] \in Messages
          BY <3>1, <2>2 DEF HoldInv, InHand
        <5> QED
          BY <4>2, <5>1
      <4>3. CASE /\ draft[v].people = UNION {PeopleOf[x] : x \in {msg[v]} \cup Members(linked[v])}
                 /\ threadOf'[msg[w]] \notin linked[v]
        <5>1. {x \in Messages : threadOf'[x] \in linked[v]} = Members(linked[v])
          BY <4>3, <3>1, <2>2, <2>4, MembersStay DEF Members
        <5>2. Members(linked[v])' = Members(linked[v])
          BY <5>1, <3>1, <2>1 DEF Members
        <5> QED
          BY <5>2, <4>3
      <4> QED
        BY <4>1, <4>2, <4>3, <3>1 DEF PeopleInv, DraftIsComplete
    <3>2. DraftIsComplete'
      BY <2>1, <3>1 DEF DraftIsComplete, Members
    <3>3. ASSUME NEW t \in Messages, triage'[t] # "none",
                 \A m, x \in Messages :
                     threadOf'[m] = t /\ threadOf'[x] = t => {m, x} \notin together
          PROVE  people'[t] = UNION {PeopleOf[m] : m \in {x \in Messages : threadOf'[x] = t}}
      <4>1. CASE t = target[w]
        <5>1. {x \in Messages : threadOf'[x] = t} = {msg[w]} \cup Members(linked[w])
          <6>1. ASSUME NEW x \in Messages, threadOf'[x] = t
                PROVE  x = msg[w] \/ threadOf[x] \in linked[w]
            <7>1. CASE linked[w] = {}
              <8>1. t = msg[w] /\ threadOf[t] = None /\ t # None
                BY <7>1, <4>1, <2>4, Cast DEF Moved
              <8>2. threadOf[x] # t
                BY <8>1 DEF HoldInv, Threads
              <8> QED
                BY <8>1, <8>2, <7>1, <6>1, <2>4 DEF Moved
            <7>2. CASE linked[w] # {}
              BY <7>2, <6>1, <4>1, <2>4 DEF Moved
            <7> QED
              BY <7>1, <7>2
          <6>2. \A x \in Messages : x = msg[w] \/ threadOf[x] \in linked[w] => threadOf'[x] = t
            BY <4>1, <2>4 DEF Moved
          <6> QED
            BY <6>1, <6>2, <2>4 DEF Moved, Members
        <5>2. \A x \in Members(linked[w]) : {msg[w], x} \notin together
          BY <5>1, <3>3, <2>4 DEF Moved, Members
        <5>3. draft[w].people = UNION {PeopleOf[x] : x \in {msg[w]} \cup Members(linked[w])}
          BY <5>2, <2>2 DEF PeopleInv, DraftIsComplete
        <5> QED
          BY <5>1, <5>3, <4>1, <2>4 DEF Moved
      <4>2. CASE t # target[w]
        <5>1. t \notin linked[w] /\ triage[t] # "none" /\ people'[t] = people[t]
          BY <4>2, <3>3, <2>4 DEF Moved
        <5>2. {x \in Messages : threadOf'[x] = t} = Members({t})
          BY <5>1, <4>2, <2>4, Cast DEF Moved, Members
        <5>3. \A m, x \in Members({t}) : {m, x} \notin together
          BY <5>2, <3>3
        <5> QED
          BY <5>1, <5>2, <5>3 DEF PeopleInv, ParticipantsAreComplete, Exists
      <4> QED
        BY <4>1, <4>2
    <3>4. ParticipantsAreComplete'
      <4>1. \A t \in Messages : Members({t})' = {x \in Messages : threadOf'[x] = t}
        BY DEF Members
      <4> QED
        BY <2>1, <3>3, <4>1 DEF ParticipantsAreComplete, Exists
    <3> QED
      BY <3>2, <3>4 DEF PeopleInv
  <2> QED
    BY <2>3, <2>4, <1>4, FileMoves
<1>5. ASSUME NEW w \in Workers, Crash(w) PROVE PeopleInv'
  BY Cast, SamePeople, <1>5 DEF Crash, Rest, Happens, Exists, Typed, IngestTypes
<1>6. ASSUME NEW r \in Reps, Resolve(r) PROVE PeopleInv'
  <2>1. /\ UNCHANGED <<pc, msg, linked, draft, together, threadOf, people>>
        /\ \A t \in Messages : Exists(t)' <=> Exists(t)
    BY <1>6, OthersMoveNothing DEF Resolve
  <2> QED
    BY <2>1, SamePeople
<1>7. ASSUME NEW r \in Reps, Ignore(r) PROVE PeopleInv'
  <2>1. /\ UNCHANGED <<pc, msg, linked, draft, together, threadOf, people>>
        /\ \A t \in Messages : Exists(t)' <=> Exists(t)
    BY <1>7, OthersMoveNothing DEF Ignore
  <2> QED
    BY <2>1, SamePeople
<1>8. ASSUME NEW r \in Reps, NEW t \in Messages, NEW l \in Leads \cup {None}, Open(r, t, l) PROVE PeopleInv'
  BY Cast, SamePeople, <1>8 DEF Open, Happens, Exists
<1>9. ASSUME NEW p \in People, NEW L \in SUBSET Leads, ChangeOwners(p, L) PROVE PeopleInv'
  BY Cast, SamePeople, <1>9 DEF ChangeOwners, Happens, Exists
<1>10. ASSUME NEW l \in Leads, SoftDelete(l) PROVE PeopleInv'
  BY Cast, SamePeople, <1>10 DEF SoftDelete, Happens, Exists
<1>11. CASE UNCHANGED vars
  BY <1>11, SamePeople DEF vars, Exists
<1>12. ASSUME NEW w \in Workers, Judge(w) PROVE PeopleInv'
  BY <1>12, SamePeople DEF Judge, Exists, Typed, IngestTypes
<1> QED
  BY <1>1, <1>2, <1>3, <1>4, <1>5, <1>6, <1>7, <1>8, <1>9, <1>10, <1>11, <1>12 DEF Next, Ingest, Triaging

\* Only an open ticket, or a message that found the thread one of several, changes the lead
\* of a matched thread.
LEMMA LatchStep ==
    ASSUME Typed, HoldInv, [Next]_vars,
           NEW t \in Messages, triage[t] = "matched", triage'[t] # "none", leadOf'[t] # leadOf[t]
    PROVE  \/ \E r \in Reps : ticket[r] = t /\ desk'[r] = "idle"
           \/ \E w \in Workers : Merging(w) /\ target[w] = t /\ pc'[w] = "idle"
<1> USE DEF mail, threads, crm, ingest, queue, history
<1>1. ASSUME NEW w \in Workers, File(w)
      PROVE  Merging(w) /\ target[w] = t /\ pc'[w] = "idle"
  <2>1. FileAs(w) /\ Moved(w) /\ pc[w] = "gathered" /\ pc'[w] = "idle"
    BY <1>1, FileMoves DEF File, Rest, Typed, IngestTypes
  <2>2. t = target[w] /\ leadOf'[t] = Outcome(w).lead
    BY <2>1 DEF FileAs, Moved
  <2>3. linked[w] # {}
    BY <2>1, <2>2 DEF Moved, HoldInv, Threads, Exists
  <2>4. verdict[w] # Keep
    BY <2>2, <2>3 DEF Outcome, Refreshed, Standing
  <2> QED
    BY <2>1, <2>2, <2>4 DEF Merging
<1>2. ASSUME NEW r \in Reps, Resolve(r)
      PROVE  ticket[r] = t /\ desk'[r] = "idle"
  BY <1>2 DEF Resolve, Close, Typed, MailTypes, OtherTypes
<1>3. CASE ~ \E w \in Workers : File(w)
  BY <1>2, <1>3 DEF Next, Ingest, Triaging, Link, Judge, Gather, GatherFails, Crash, Ignore, Open,
      ChangeOwners, SoftDelete, vars
<1> QED
  BY <1>1, <1>3

-----------------------------------------------------------------------------
(* The invariant *)

LEMMA InitInv == Init => IInv
<1> SUFFICES ASSUME Init PROVE IInv
  OBVIOUS
<1> USE Cast DEF Init
<1>1. MailTypes /\ EntryTypes
  BY DEF MailTypes, EntryTypes, Triage
<1>2. OtherTypes
  BY CastAssumption DEF OtherTypes
<1>3. IngestTypes /\ Tickets
  BY DEF IngestTypes, Tickets
<1>4. HoldInv
  BY DEF HoldInv, InHand, Threads, VerdictInv, Merging, Gathered, Exists
<1>5. OneEntryPerMessage /\ MatchedIsMaterialized
  BY DEF OneEntryPerMessage, MatchedIsMaterialized
<1>6. RelatedInv
  BY DEF RelatedInv, RelativesAreLinked, RelatedShareAThread
<1>7. PeopleInv
  BY DEF PeopleInv, DraftIsComplete, ParticipantsAreComplete, Exists
<1> QED
  BY <1>1, <1>2, <1>3, <1>4, <1>5, <1>6, <1>7 DEF IInv, Typed

\* The invariant is inductive.
THEOREM MailThreadsInvariant == Spec => []IInv
<1>1. IInv /\ [Next]_vars => IInv'
  <2> SUFFICES ASSUME IInv, [Next]_vars PROVE IInv'
    OBVIOUS
  <2>1. Typed' /\ HoldInv'
    BY TypedStep, InHandStep, VerdictStep, ThreadsStep, GatheredStep DEF IInv, HoldInv
  <2>2. OneEntryPerMessage' /\ MatchedIsMaterialized'
    BY OneEntryStep, MaterializedStep DEF IInv
  <2>3. RelatedInv' /\ PeopleInv'
    BY RelatedStep, PeopleStep DEF IInv
  <2> QED
    BY <2>1, <2>2, <2>3 DEF IInv
<1> QED
  BY InitInv, <1>1, PTL DEF Spec

\* Every row and transaction keeps its type.
THEOREM MailThreadsTypes == Spec => []TypeOK
<1>1. IInv => TypeOK
  BY SplitTypes DEF IInv, Typed
<1> QED
  BY MailThreadsInvariant, <1>1, PTL

\* C4: a message never gets two timeline entries.
THEOREM OneEntry == Spec => []OneEntryPerMessage
<1>1. IInv => OneEntryPerMessage
  BY DEF IInv
<1> QED
  BY MailThreadsInvariant, <1>1, PTL

\* Every message of a matched thread is on the timeline.
THEOREM MatchedOnTheTimeline == Spec => []MatchedIsMaterialized
<1>1. IInv => MatchedIsMaterialized
  BY DEF IInv
<1> QED
  BY MailThreadsInvariant, <1>1, PTL

\* Related messages share a thread, in any order of arrival, unless ingested at the same time
\* or overtaken by a merge.
THEOREM RelatedTogether == Spec => []RelatedShareAThread
<1>1. IInv => RelatedShareAThread
  BY DEF IInv, RelatedInv
<1> QED
  BY MailThreadsInvariant, <1>1, PTL

\* A thread's participants are those of all its messages.
THEOREM CompleteParticipants == Spec => []ParticipantsAreComplete
<1>1. IInv => ParticipantsAreComplete
  BY DEF IInv, PeopleInv
<1> QED
  BY MailThreadsInvariant, <1>1, PTL

\* A match latches: only an open ticket, or a message that found the thread one of several,
\* changes its lead.
THEOREM MatchesLatch == Spec => MatchLatches
<1>1. IInv /\ [Next]_vars =>
        [\A t \in Messages :
            (triage[t] = "matched" /\ triage'[t] # "none" /\ leadOf'[t] # leadOf[t]) =>
                \/ \E r \in Reps : ticket[r] = t /\ desk'[r] = "idle"
                \/ \E w \in Workers : Merging(w) /\ target[w] = t /\ pc'[w] = "idle"]_vars
  BY LatchStep DEF IInv
<1> QED
  BY MailThreadsInvariant, <1>1, PTL DEF Spec, MatchLatches

-----------------------------------------------------------------------------
(* The refinement of Conversations *)

\* A message has an entry exactly if it is on a timeline.
LEMMA OnATimeline ==
    ASSUME EntryTypes, NEW m \in Messages
    PROVE  HasEntry(m) <=> Timeline[m] # {}
BY DEF HasEntry, Timeline

\* Materialization writes the timeline, of live leads only.
LEMMA MaterializedIsWritten ==
    ASSUME EntryTypes, NEW S \in SUBSET Messages, NEW l \in Leads,
           ~ Throws(S, l), entries' = Materialized(S, l)
    PROVE  Talk!Written(S, l)
<1>1. l \in gone => \A x \in S : Timeline[x] # {}
  BY OnATimeline DEF Throws
<1>2. ASSUME NEW x \in Messages, x \in S, Timeline[x] = {}
      PROVE  {k \in Leads : entries'[x][k] > 0} = {l}
  <2>1. ~ HasEntry(x)
    BY <1>2, OnATimeline
  <2>2. \A k \in Leads : entries[x][k] = 0
    BY <2>1 DEF HasEntry, EntryTypes
  <2>3. \A k \in Leads : entries'[x][k] = IF k = l THEN 1 ELSE 0
    BY <1>2, <2>1, <2>2, MaterializedFacts
  <2> QED
    BY <2>3
<1>3. ASSUME NEW x \in Messages, ~ (x \in S /\ Timeline[x] = {})
      PROVE  {k \in Leads : entries'[x][k] > 0} = Timeline[x]
  <2>1. entries'[x] = entries[x]
    BY <1>3, OnATimeline DEF Materialized
  <2> QED
    BY <2>1 DEF Timeline
<1>4. Timeline' = [x \in Messages |-> IF x \in S /\ Timeline[x] = {} THEN {l} ELSE Timeline[x]]
  BY <1>2, <1>3 DEF Timeline
<1> QED
  BY <1>1, <1>4 DEF Talk!Written

\* What filing makes of the threads it merges: one, decided.
LEMMA FileDecides ==
    ASSUME Typed, HoldInv, NEW w \in Workers, pc[w] = "gathered", FileAs(w)
    PROVE  Talk!Decided(target[w], linked[w], Outcome(w).status,
                        IF Outcome(w).status = "matched" THEN Outcome(w).lead ELSE None)
<1> DEFINE s == Outcome(w).status
           l == IF s = "matched" THEN Outcome(w).lead ELSE None
<1>1. triage' = [x \in Messages |-> IF x = target[w] THEN s
                                    ELSE IF x \in linked[w] THEN "none" ELSE triage[x]]
  BY DEF FileAs
<1>2. \A x \in Messages :
         leadOf'[x] = IF x = target[w] THEN Outcome(w).lead
                      ELSE IF x \in linked[w] THEN None ELSE leadOf[x]
  BY DEF FileAs
<1>3. MatchOf' = [x \in Messages |-> IF x = target[w] THEN l
                                     ELSE IF x \in linked[w] THEN None ELSE MatchOf[x]]
  <2>1. \A x \in Messages :
           (IF triage'[x] = "matched" THEN leadOf'[x] ELSE None) =
           (IF x = target[w] THEN l ELSE IF x \in linked[w] THEN None ELSE MatchOf[x])
    BY <1>1, <1>2 DEF MatchOf
  <2> QED
    BY <2>1 DEF MatchOf
<1> QED
  BY <1>1, <1>3 DEF Talk!Decided

\* A message that is overtaken is astray once it is stored.
LEMMA FileStrays ==
    ASSUME Typed, NEW w \in Workers, File(w), Moved(w)
    PROVE  /\ Astray' \in {Astray, Astray \cup {msg[w]}}
           /\ msg[w] \in overtaken => msg[w] \in Astray'
<1>1. overtaken' = overtaken
  BY MovesAreNew DEF File
<1>2. /\ \A x \in Messages \ {msg[w]} : threadOf'[x] = None <=> threadOf[x] = None
      /\ threadOf'[msg[w]] # None /\ threadOf[msg[w]] = None
  BY Cast DEF Moved
<1>3. overtaken \in SUBSET Messages
  BY DEF Typed, OtherTypes
<1> QED
  BY <1>1, <1>2, <1>3 DEF Astray

\* Who joins one conversation leaves its match, and that a human ignores it, alone.
LEMMA FileRespects ==
    ASSUME Typed, HoldInv, NEW w \in Workers, File(w), Moved(w), pc[w] = "gathered"
    PROVE  Talk!Respects(msg[w], target[w], linked[w], Outcome(w).status,
                         IF Outcome(w).status = "matched" THEN Outcome(w).lead ELSE None)
<1>1. linked[w] = {} => Outcome(w).status # "ignored"
  BY DecideIsAVerdict DEF Outcome, Refreshed, Standing
<1>2. ASSUME ~ Several(linked[w]), target[w] \in linked[w], msg[w] \notin overtaken
      PROVE  /\ triage[target[w]] = "matched" =>
                   Outcome(w).status = "matched" /\ Outcome(w).lead = leadOf[target[w]]
             /\ triage[target[w]] = "ignored" <=> Outcome(w).status = "ignored"
  <2>1. verdict[w] = Keep
    BY <1>2 DEF HoldInv, VerdictInv, Merging
  <2>2. Standing(w) = [status |-> triage[target[w]], lead |-> leadOf[target[w]]]
    BY <1>2, <2>1 DEF Standing
  <2> QED
    BY <2>2, DecideIsAVerdict DEF Outcome, Refreshed
<1>3. target[w] \in linked[w] => target[w] \in Messages
  BY DEF Typed, IngestTypes
<1> QED
  BY <1>1, <1>2, <1>3, FileStrays DEF Talk!Respects, Talk!Several, Several, MatchOf

\* What filing writes, if it does not roll back.
LEMMA FileWrites ==
    ASSUME Typed, HoldInv, NEW w \in Workers, File(w), Moved(w)
    PROVE  IF Outcome(w).status = "matched"
           THEN /\ ~ Throws(Filed(w), Outcome(w).lead)
                /\ entries' = Materialized(Filed(w), Outcome(w).lead)
           ELSE entries' = entries
BY MovesAreNew DEF File

\* Until it commits, an ingest is invisible.
LEMMA InvisibleSteps ==
    ASSUME UNCHANGED <<mail, gone>>,
           \A m : threadOf[m] # None => (m \in overtaken' <=> m \in overtaken)
    PROVE  UNCHANGED Talk!vars
<1>1. Astray' = Astray
  BY DEF mail, Astray
<1> QED
  BY <1>1 DEF mail, threads, Talk!vars, MatchOf, Timeline

\* An ingest that commits is a message that joins its conversations, all at once.
LEMMA FileRefines ==
    ASSUME Typed, HoldInv, NEW w \in Workers, File(w)
    PROVE  Talk!Next \/ UNCHANGED Talk!vars
<1>1. pc[w] = "gathered" /\ gone' = gone
  BY DEF File, crm
<1>2. CASE UNCHANGED mail
  <2>1. threadOf[msg[w]] = None
    BY <1>1 DEF HoldInv, InHand
  <2>2. \A m : threadOf[m] # None => (m \in overtaken' <=> m \in overtaken)
    BY <2>1 DEF File
  <2> QED
    BY <1>1, <1>2, <2>2, InvisibleSteps
<1>3. CASE FileAs(w) /\ Moved(w)
  <2> DEFINE s == Outcome(w).status
             l == IF s = "matched" THEN Outcome(w).lead ELSE None
             S == {msg[w]} \cup Talk!In(linked[w])
  <2>1. /\ msg[w] \in Messages /\ threadOf[msg[w]] = None /\ linked[w] \in SUBSET Messages
        /\ target[w] \in IF linked[w] = {} THEN {msg[w]} ELSE linked[w]
        /\ \A x \in linked[w] : triage[x] # "none"
    BY <1>3 DEF Moved, Exists
  <2>2. threadOf' = [x \in Messages |-> IF x = msg[w] \/ threadOf[x] \in linked[w]
                                        THEN target[w] ELSE threadOf[x]]
    <3>1. threadOf' = [x \in Messages |-> IF x \in Filed(w) THEN target[w] ELSE threadOf[x]]
      BY <1>3 DEF FileAs
    <3> QED
      BY <3>1 DEF Filed, Members
  <2>3. Talk!Decided(target[w], linked[w], s, l)
    BY <1>1, <1>3, FileDecides
  <2>4. Talk!Respects(msg[w], target[w], linked[w], s, l)
    BY <1>1, <1>3, FileRespects
  <2>8. Astray' \in {Astray, Astray \cup {msg[w]}}
    BY <1>3, FileStrays
  <2>5. S = Filed(w) /\ S \in SUBSET Messages
    BY <2>1 DEF Filed, Members, Talk!In
  <2>6. CASE s = "matched"
    <3>1. l \in Leads /\ l = Outcome(w).lead
      BY <1>1, <2>6, OutcomeIsATriage
    <3>2. ~ Throws(S, l) /\ entries' = Materialized(S, l)
      BY <2>5, <2>6, <3>1, FileWrites, <1>3
    <3>3. Talk!Written(S, l)
      BY <2>5, <3>1, <3>2, MaterializedIsWritten DEF Typed
    <3> HIDE DEF s, l
    <3>4. Talk!Join(msg[w], linked[w], target[w])
      BY <1>1, <2>1, <2>2, <2>3, <2>4, <2>6, <2>8, <3>1, <3>3 DEF Talk!Join
    <3> QED
      BY <2>1, <3>4 DEF Talk!Next
  <2>7. CASE s # "matched"
    <3>1. s \in {"ambiguous", "ignored"} /\ l = None
      BY <1>1, <2>7, OutcomeIsATriage DEF Triage
    <3>2. Timeline' = Timeline
      BY <2>7, FileWrites, <1>3 DEF Timeline
    <3> HIDE DEF s, l
    <3>3. Talk!Join(msg[w], linked[w], target[w])
      BY <1>1, <2>1, <2>2, <2>3, <2>4, <2>8, <3>1, <3>2 DEF Talk!Join
    <3> QED
      BY <2>1, <3>3 DEF Talk!Next
  <2> QED
    BY <2>6, <2>7
<1> QED
  BY <1>2, <1>3, FileMoves

\* A human's decision that commits takes the thread as it is then.
LEMMA ResolveRefines ==
    ASSUME Typed, NEW r \in Reps, Resolve(r)
    PROVE  Talk!Next \/ UNCHANGED Talk!vars
<1>1. choice[r] \in Leads /\ ticket[r] \in Messages /\ gone' = gone /\ overtaken' = overtaken
  BY DEF Resolve, Typed, OtherTypes, Tickets, crm, history
<1>2. CASE UNCHANGED mail
  BY <1>1, <1>2, InvisibleSteps
<1>3. CASE /\ Exists(ticket[r])
           /\ ~ Throws(Members({ticket[r]}), choice[r])
           /\ triage' = [triage EXCEPT ![ticket[r]] = "matched"]
           /\ leadOf' = [leadOf EXCEPT ![ticket[r]] = choice[r]]
           /\ entries' = Materialized(Members({ticket[r]}), choice[r])
           /\ threadOf' = threadOf
  <2>1. Talk!Written(Talk!In({ticket[r]}), choice[r])
    <3>1. Members({ticket[r]}) \in SUBSET Messages
      BY DEF Members
    <3>2. Talk!Written(Members({ticket[r]}), choice[r])
      BY <1>1, <1>3, <3>1, MaterializedIsWritten DEF Typed
    <3> QED
      BY <3>2 DEF Members, Talk!In
  <2>2. Talk!Decided(ticket[r], {}, "matched", choice[r])
    BY <1>1, <1>3 DEF Talk!Decided, MatchOf, Typed, MailTypes
  <2>3. Talk!Resolve(ticket[r], choice[r])
    BY <1>1, <1>3, <2>1, <2>2 DEF Talk!Resolve, Exists, Astray
  <2> QED
    BY <1>1, <2>3 DEF Talk!Next
<1> QED
  BY <1>2, <1>3 DEF Resolve

LEMMA IgnoreRefines ==
    ASSUME Typed, NEW r \in Reps, Ignore(r)
    PROVE  Talk!Next \/ UNCHANGED Talk!vars
<1>1. ticket[r] \in Messages
  BY DEF Ignore, Typed, Tickets
<1>2. UNCHANGED <<threadOf, leadOf, Timeline, gone, Astray>>
  BY DEF Ignore, crm, Timeline, history, Astray
<1>3. CASE ~ Exists(ticket[r])
  <2>1. triage' = triage
    BY <1>1, <1>3 DEF Ignore, Exists, Typed, MailTypes
  <2> QED
    BY <1>2, <2>1 DEF Talk!vars, MatchOf
<1>4. CASE Exists(ticket[r])
  <2>1. triage' = [triage EXCEPT ![ticket[r]] = "ignored"]
    BY <1>4 DEF Ignore
  <2>2. Talk!Decided(ticket[r], {}, "ignored", None)
    BY <1>1, <1>2, <2>1 DEF Talk!Decided, MatchOf, Typed, MailTypes
  <2>3. Talk!Ignore(ticket[r])
    BY <1>2, <1>4, <2>2 DEF Talk!Ignore, Exists
  <2> QED
    BY <1>1, <2>3 DEF Talk!Next
<1> QED
  BY <1>3, <1>4

LEMMA StepRefines ==
    ASSUME Typed, HoldInv, [Next]_vars
    PROVE  Talk!Next \/ UNCHANGED Talk!vars
<1> USE DEF crm, history
<1>1. ASSUME NEW w \in Workers, NEW m \in Messages, Link(w, m) PROVE UNCHANGED Talk!vars
  BY <1>1, InvisibleSteps DEF Link
<1>2. ASSUME NEW w \in Workers, Judge(w) \/ GatherFails(w) PROVE UNCHANGED Talk!vars
  BY <1>2, InvisibleSteps DEF Judge, GatherFails
<1>3. ASSUME NEW w \in Workers, Gather(w) \/ Crash(w) PROVE UNCHANGED Talk!vars
  <2>1. threadOf[msg[w]] = None
    BY <1>3 DEF Gather, MayGather, Crash, HoldInv, InHand
  <2>2. UNCHANGED <<mail, gone>> /\ \A m : m # msg[w] => (m \in overtaken' <=> m \in overtaken)
    BY <1>3 DEF Gather, Crash
  <2> QED
    BY <2>1, <2>2, InvisibleSteps
<1>4. ASSUME NEW r \in Reps, NEW t \in Messages, NEW l \in Leads \cup {None}, Open(r, t, l)
      PROVE  UNCHANGED Talk!vars
  BY <1>4, InvisibleSteps DEF Open
<1>5. ASSUME NEW p \in People, NEW L \in SUBSET Leads, ChangeOwners(p, L)
      PROVE  UNCHANGED Talk!vars
  BY <1>5, InvisibleSteps DEF ChangeOwners
<1>6. ASSUME NEW l \in Leads, SoftDelete(l) PROVE Talk!Next
  <2>1. UNCHANGED <<threadOf, triage, MatchOf, Timeline, Astray>> /\ gone' = gone \cup {l}
    BY <1>6 DEF SoftDelete, mail, threads, MatchOf, Timeline, Astray
  <2> QED
    BY <1>6, <2>1 DEF Talk!Next, Talk!Delete
<1>7. CASE UNCHANGED vars
  BY <1>7, InvisibleSteps DEF vars
<1> QED
  BY <1>1, <1>2, <1>3, <1>4, <1>5, <1>6, <1>7, FileRefines, ResolveRefines, IgnoreRefines
    DEF Next, Ingest, Triaging

\* Threading and triage, with all that overlaps, implement conversations that messages
\* join and people decide on in single steps.
THEOREM ConversationsRefinement == Spec => ImplementsConversations
<1>1. Init => Talk!Init
  BY DEF Init, Talk!Init, MatchOf, Timeline, Astray
<1>2. IInv /\ [Next]_vars => [Talk!Next]_(Talk!vars)
  BY StepRefines DEF IInv
<1> QED
  BY MailThreadsInvariant, <1>1, <1>2, PTL DEF Spec, ImplementsConversations, Talk!Spec
=============================================================================
