------------------------- MODULE Outreach_proofs --------------------------
(***************************************************************************)
(* The inductive invariant of Outreach and the theorems it gives: nobody   *)
(* is contacted over a standing block, the timeline is honest, a stored    *)
(* message is not sent again and opt-out language comes first, for any     *)
(* requests, retries, blocks, crashes and lost answers.                    *)
(***************************************************************************)
EXTENDS Outreach, TLAPS

\* Only a request that has called its provider has reached anybody.
ReachedHasCalled == \A r \in reached : pc[r] \in {"accepted", "over"}

\* What has stood since the request came in is in force.
StandingIsInForce == \A r \in Requests : standing[r] \subseteq blocks

AfterLead == {"contact", "destination", "suppression", "prior", "ready"}
AfterContact == AfterLead \ {"contact"}
AfterDestination == AfterContact \ {"destination"}
AfterSuppression == AfterDestination \ {"suppression"}

\* A rail that let a request pass has not stood.
Passed ==
    \A r \in Requests :
        /\ pc[r] \in AfterLead => <<"lead", LeadOf[r]>> \notin standing[r]
        /\ pc[r] \in AfterContact => <<"contact", ContactOf[r]>> \notin standing[r]
        /\ pc[r] \in AfterDestination =>
              \A c \in Contacts : AddressesOf[c] \cap ToOf[r] # {} => <<"contact", c>> \notin standing[r]
        /\ pc[r] \in AfterSuppression => \A a \in ToOf[r] : <<"address", a>> \notin standing[r]

RailsInv == StandingIsInForce /\ Passed

\* A message that is stored, or about to be, has reached its recipient.
AcceptedHasReached ==
    \A r \in Requests :
        (pc[r] = "accepted" /\ ~ Is(r, "call")) =>
            \E s \in reached : MessageOf(s) = MessageOf(r)
StoredHasReached == \A m \in stored : \E s \in reached : MessageOf(s) = m
EntriesAreStored == \A m \in Messages : entries[m] <= 1 /\ (entries[m] = 1 => m \in stored)
AnswersAreTrue ==
    \A r \in Requests :
        /\ answer[r] = "sent" /\ ~ Is(r, "call") => entries[MessageOf(r)] = 1
        /\ answer[r] = "deduped" => MessageOf(r) \in stored

StoreInv == AcceptedHasReached /\ StoredHasReached /\ EntriesAreStored /\ AnswersAreTrue

\* A request that came in after its message was stored: an e-mail does not get to the
\* provider, and the sms provider has seen its key.
KnownIsStopped ==
    \A r \in Requests : known[r] =>
        /\ pc[r] # "new"
        /\ Is(r, "email") => /\ MessageOf(r) \in stored
                             /\ pc[r] \notin {"ready", "accepted"} /\ r \notin reached
        /\ Is(r, "sms") => /\ "sms" \in Dedupes /\ r \notin reached
                           /\ \E s \in reached : KeyOf[s] = KeyOf[r]

\* A plain sms follows one with opt-out language that got through.
PlainFollows ==
    \A r \in Requests : plain[r] =>
        /\ pc[r] \in {"ready", "accepted", "over"}
        /\ \E s \in reached : Is(s, "sms") /\ ~ plain[s] /\ ToOf[s] = ToOf[r]

IInv ==
    /\ TypeOK /\ ReachedHasCalled /\ RailsInv
    /\ StoreInv /\ KnownIsStopped /\ PlainFollows

-----------------------------------------------------------------------------
(* Messages *)

LEMMA Cast ==
    /\ ChannelOf \in [Requests -> Channels]
    /\ KeyOf \in [Requests -> Keys]
    /\ \A r \in Requests : MessageOf(r) \in Messages
    /\ Keys \cap Requests = {}
    /\ Dedupes \subseteq {"email", "sms"}
    /\ None \notin Contacts
    /\ MaxEvents \in Nat
BY CastAssumption DEF MessageOf, Messages, Is

\* Requests of one key are of one message, if the provider or the engine goes by the key.
LEMMA SameKey ==
    ASSUME NEW r \in Requests, NEW s \in Requests, KeyOf[r] = KeyOf[s]
    PROVE  /\ ChannelOf[r] = ChannelOf[s] /\ ToOf[r] = ToOf[s]
           /\ Is(r, "email") \/ ChannelOf[r] \in Dedupes => MessageOf(r) = MessageOf(s)
BY RetryAssumption DEF MessageOf, Is

\* Requests of one message are one request, or have one key.
LEMMA SameMessage ==
    ASSUME NEW r \in Requests, NEW s \in Requests, MessageOf(r) = MessageOf(s), r # s
    PROVE  /\ KeyOf[r] = KeyOf[s] /\ ChannelOf[r] = ChannelOf[s] /\ ToOf[r] = ToOf[s]
           /\ Is(r, "email") \/ ChannelOf[r] \in Dedupes
<1>1. KeyOf[r] = KeyOf[s] /\ (Is(r, "email") \/ ChannelOf[r] \in Dedupes)
  BY Cast DEF MessageOf
<1> QED
  BY <1>1, SameKey

-----------------------------------------------------------------------------
(* Steps *)

\* Types.
LEMMA TypesStep ==
    ASSUME TypeOK, [Next]_vars
    PROVE  TypeOK'
<1> USE DEF TypeOK, vars, rails, engine, rows, ghost
<1>1. ASSUME NEW r \in Requests, Start(r) PROVE TypeOK'
  BY Cast, <1>1 DEF Start, Goto, PCs, Is, Blocks
<1>2. ASSUME NEW r \in Requests, CheckBusy(r) PROVE TypeOK'
  BY Cast, <1>2 DEF CheckBusy, Rail, Goto, Return, PCs, Answers
<1>3. ASSUME NEW r \in Requests, CheckLead(r) PROVE TypeOK'
  BY Cast, <1>3 DEF CheckLead, Rail, Goto, Return, PCs, Answers
<1>4. ASSUME NEW r \in Requests, CheckContact(r) PROVE TypeOK'
  BY Cast, <1>4 DEF CheckContact, Rail, Goto, Return, PCs, Answers
<1>5. ASSUME NEW r \in Requests, CheckDestination(r) PROVE TypeOK'
  BY Cast, <1>5 DEF CheckDestination, Rail, Goto, Return, PCs, Answers
<1>6. ASSUME NEW r \in Requests, CheckSuppression(r) PROVE TypeOK'
  BY Cast, <1>6 DEF CheckSuppression, Rail, Goto, Return, PCs, Answers
<1>7. ASSUME NEW r \in Requests, LastLook(r) PROVE TypeOK'
  BY Cast, <1>7 DEF LastLook, Goto, Return, PCs, Answers, Is
<1>8. ASSUME NEW r \in Requests, CallProvider(r) PROVE TypeOK'
  BY Cast, <1>8 DEF CallProvider, Goto, Return, Deliver, Happens, PCs, Answers
<1>9. ASSUME NEW r \in Requests, Persist(r) PROVE TypeOK'
  BY Cast, <1>9 DEF Persist, Return, Logged, Answers, PCs
<1>10. ASSUME NEW r \in Requests, PersistThrows(r) PROVE TypeOK'
  BY Cast, <1>10 DEF PersistThrows, Return, PCs, Answers
<1>11. ASSUME NEW r \in Requests, InsertCall(r) PROVE TypeOK'
  BY Cast, <1>11 DEF InsertCall, Return, PCs, Answers
<1>12. ASSUME NEW r \in Requests, Crash(r) PROVE TypeOK'
  BY Cast, <1>12 DEF Crash, Return, Happens, PCs, Answers
<1>13. ASSUME NEW r \in Requests, SyncSentCopy(r) PROVE TypeOK'
  BY Cast, <1>13 DEF SyncSentCopy, Happens, Logged
<1>14. ASSUME NEW r \in Requests, EndCall(r) PROVE TypeOK'
  BY Cast, <1>14 DEF EndCall
<1>15. ASSUME NEW b \in Blocks, Forbid(b) PROVE TypeOK'
  BY Cast, <1>15 DEF Forbid, Happens
<1>16. ASSUME NEW b \in Blocks, Permit(b) PROVE TypeOK'
  BY Cast, <1>16 DEF Permit, Happens
<1>17. ASSUME NEW l \in Leads, SoftDelete(l) PROVE TypeOK'
  BY Cast, <1>17 DEF SoftDelete, Happens
<1>18. ASSUME NEW a \in Addresses, ReceiveSms(a) PROVE TypeOK'
  BY Cast, <1>18 DEF ReceiveSms, Happens
<1>19. CASE UNCHANGED vars
  BY Cast, <1>19
<1> QED
  BY <1>1, <1>2, <1>3, <1>4, <1>5, <1>6, <1>7, <1>8, <1>9, <1>10, <1>11, <1>12, <1>13, <1>14, <1>15, <1>16, <1>17, <1>18, <1>19 DEF Next, Step

\* A provider call is the last step of an engine outside its transaction.
LEMMA ReachedStep ==
    ASSUME TypeOK, ReachedHasCalled, [Next]_vars
    PROVE  ReachedHasCalled'
<1> USE DEF TypeOK, ReachedHasCalled, vars, rails, engine, rows, ghost
<1>1. ASSUME NEW r \in Requests, Start(r) PROVE ReachedHasCalled'
  BY <1>1 DEF Start, Goto, Is
<1>2. ASSUME NEW r \in Requests, CheckBusy(r) PROVE ReachedHasCalled'
  BY <1>2 DEF CheckBusy, Rail, Goto, Return
<1>3. ASSUME NEW r \in Requests, CheckLead(r) PROVE ReachedHasCalled'
  BY <1>3 DEF CheckLead, Rail, Goto, Return
<1>4. ASSUME NEW r \in Requests, CheckContact(r) PROVE ReachedHasCalled'
  BY <1>4 DEF CheckContact, Rail, Goto, Return
<1>5. ASSUME NEW r \in Requests, CheckDestination(r) PROVE ReachedHasCalled'
  BY <1>5 DEF CheckDestination, Rail, Goto, Return
<1>6. ASSUME NEW r \in Requests, CheckSuppression(r) PROVE ReachedHasCalled'
  BY <1>6 DEF CheckSuppression, Rail, Goto, Return
<1>7. ASSUME NEW r \in Requests, LastLook(r) PROVE ReachedHasCalled'
  BY <1>7 DEF LastLook, Goto, Return
<1>8. ASSUME NEW r \in Requests, CallProvider(r) PROVE ReachedHasCalled'
  BY <1>8 DEF CallProvider, Goto, Return, Deliver, Happens
<1>9. ASSUME NEW r \in Requests, Persist(r) PROVE ReachedHasCalled'
  BY <1>9 DEF Persist, Return
<1>10. ASSUME NEW r \in Requests, PersistThrows(r) PROVE ReachedHasCalled'
  BY <1>10 DEF PersistThrows, Return
<1>11. ASSUME NEW r \in Requests, InsertCall(r) PROVE ReachedHasCalled'
  BY <1>11 DEF InsertCall, Return
<1>12. ASSUME NEW r \in Requests, Crash(r) PROVE ReachedHasCalled'
  BY <1>12 DEF Crash, Return, Happens
<1>13. ASSUME NEW r \in Requests, SyncSentCopy(r) PROVE ReachedHasCalled'
  BY <1>13 DEF SyncSentCopy, Happens
<1>14. ASSUME NEW r \in Requests, EndCall(r) PROVE ReachedHasCalled'
  BY <1>14 DEF EndCall
<1>15. ASSUME NEW b \in Blocks, Forbid(b) PROVE ReachedHasCalled'
  BY <1>15 DEF Forbid, Happens
<1>16. ASSUME NEW b \in Blocks, Permit(b) PROVE ReachedHasCalled'
  BY <1>16 DEF Permit, Happens
<1>17. ASSUME NEW l \in Leads, SoftDelete(l) PROVE ReachedHasCalled'
  BY <1>17 DEF SoftDelete, Happens
<1>18. ASSUME NEW a \in Addresses, ReceiveSms(a) PROVE ReachedHasCalled'
  BY <1>18 DEF ReceiveSms, Happens
<1>19. CASE UNCHANGED vars
  BY <1>19
<1> QED
  BY <1>1, <1>2, <1>3, <1>4, <1>5, <1>6, <1>7, <1>8, <1>9, <1>10, <1>11, <1>12, <1>13, <1>14, <1>15, <1>16, <1>17, <1>18, <1>19 DEF Next, Step

\* A block that stands is in force, and each rail in its turn sees it.
LEMMA RailsStep ==
    ASSUME TypeOK, RailsInv, [Next]_vars
    PROVE  RailsInv'
<1> USE DEF TypeOK, RailsInv, StandingIsInForce, Passed, AfterLead, AfterContact, AfterDestination, AfterSuppression, vars, rails, engine, rows, ghost
<1>1. ASSUME NEW r \in Requests, Start(r) PROVE RailsInv'
  BY <1>1 DEF Start, Goto, Is
<1>2. ASSUME NEW r \in Requests, CheckBusy(r) PROVE RailsInv'
  BY <1>2 DEF CheckBusy, Rail, Goto, Return
<1>3. ASSUME NEW r \in Requests, CheckLead(r) PROVE RailsInv'
  BY <1>3 DEF CheckLead, Rail, Goto, Return
<1>4. ASSUME NEW r \in Requests, CheckContact(r) PROVE RailsInv'
  BY <1>4 DEF CheckContact, Rail, Goto, Return
<1>5. ASSUME NEW r \in Requests, CheckDestination(r) PROVE RailsInv'
  BY <1>5 DEF CheckDestination, Rail, Goto, Return, DncOwner
<1>6. ASSUME NEW r \in Requests, CheckSuppression(r) PROVE RailsInv'
  BY <1>6 DEF CheckSuppression, Rail, Goto, Return
<1>7. ASSUME NEW r \in Requests, LastLook(r) PROVE RailsInv'
  BY <1>7 DEF LastLook, Goto, Return
<1>8. ASSUME NEW r \in Requests, CallProvider(r) PROVE RailsInv'
  BY <1>8 DEF CallProvider, Goto, Return, Deliver, Happens
<1>9. ASSUME NEW r \in Requests, Persist(r) PROVE RailsInv'
  BY <1>9 DEF Persist, Return
<1>10. ASSUME NEW r \in Requests, PersistThrows(r) PROVE RailsInv'
  BY <1>10 DEF PersistThrows, Return
<1>11. ASSUME NEW r \in Requests, InsertCall(r) PROVE RailsInv'
  BY <1>11 DEF InsertCall, Return
<1>12. ASSUME NEW r \in Requests, Crash(r) PROVE RailsInv'
  BY <1>12 DEF Crash, Return, Happens
<1>13. ASSUME NEW r \in Requests, SyncSentCopy(r) PROVE RailsInv'
  BY <1>13 DEF SyncSentCopy, Happens
<1>14. ASSUME NEW r \in Requests, EndCall(r) PROVE RailsInv'
  BY <1>14 DEF EndCall
<1>15. ASSUME NEW b \in Blocks, Forbid(b) PROVE RailsInv'
  BY <1>15 DEF Forbid, Happens
<1>16. ASSUME NEW b \in Blocks, Permit(b) PROVE RailsInv'
  BY <1>16 DEF Permit, Happens
<1>17. ASSUME NEW l \in Leads, SoftDelete(l) PROVE RailsInv'
  BY <1>17 DEF SoftDelete, Happens
<1>18. ASSUME NEW a \in Addresses, ReceiveSms(a) PROVE RailsInv'
  BY <1>18 DEF ReceiveSms, Happens
<1>19. CASE UNCHANGED vars
  BY <1>19
<1> QED
  BY <1>1, <1>2, <1>3, <1>4, <1>5, <1>6, <1>7, <1>8, <1>9, <1>10, <1>11, <1>12, <1>13, <1>14, <1>15, <1>16, <1>17, <1>18, <1>19 DEF Next, Step

\* Nothing is stored that has not reached anybody; one entry, with the row.
LEMMA StoreStep ==
    ASSUME TypeOK, StoreInv, [Next]_vars
    PROVE  StoreInv'
<1> USE DEF TypeOK, StoreInv, AcceptedHasReached, StoredHasReached, EntriesAreStored, AnswersAreTrue, vars, rails, engine, rows, ghost
<1>1. ASSUME NEW r \in Requests, Start(r) PROVE StoreInv'
  BY Cast, SameKey, <1>1 DEF Start, Goto
<1>2. ASSUME NEW r \in Requests, CheckBusy(r) PROVE StoreInv'
  BY Cast, SameKey, <1>2 DEF CheckBusy, Rail, Goto, Return
<1>3. ASSUME NEW r \in Requests, CheckLead(r) PROVE StoreInv'
  BY Cast, SameKey, <1>3 DEF CheckLead, Rail, Goto, Return
<1>4. ASSUME NEW r \in Requests, CheckContact(r) PROVE StoreInv'
  BY Cast, SameKey, <1>4 DEF CheckContact, Rail, Goto, Return
<1>5. ASSUME NEW r \in Requests, CheckDestination(r) PROVE StoreInv'
  BY Cast, SameKey, <1>5 DEF CheckDestination, Rail, Goto, Return
<1>6. ASSUME NEW r \in Requests, CheckSuppression(r) PROVE StoreInv'
  BY Cast, SameKey, <1>6 DEF CheckSuppression, Rail, Goto, Return
<1>7. ASSUME NEW r \in Requests, LastLook(r) PROVE StoreInv'
  BY Cast, SameKey, <1>7 DEF LastLook, Goto, Return, PriorEmail
<1>8. ASSUME NEW r \in Requests, CallProvider(r) PROVE StoreInv'
  BY Cast, SameKey, <1>8 DEF CallProvider, Goto, Return, Deliver, Happens, Repeats
<1>9. ASSUME NEW r \in Requests, Persist(r) PROVE StoreInv'
  <2>1. AcceptedHasReached'
    BY <1>9, Cast DEF Persist, Return
  <2>2. StoredHasReached'
    BY <1>9, Cast DEF Persist
  <2>3. EntriesAreStored'
    BY <1>9, Cast DEF Persist, Logged
  <2>4. \A m \in Messages : entries[m] = 1 => entries'[m] = 1
    BY <1>9, Cast DEF Persist, Logged
  <2>5. answer'[r] = "sent" => entries'[MessageOf(r)] = 1
    BY <1>9, Cast DEF Persist, Return, Logged
  <2>6. AnswersAreTrue'
    BY <1>9, <2>4, <2>5, Cast DEF Persist, Return
  <2> QED
    BY <2>1, <2>2, <2>3, <2>6
<1>10. ASSUME NEW r \in Requests, PersistThrows(r) PROVE StoreInv'
  BY Cast, SameKey, <1>10 DEF PersistThrows, Return
<1>11. ASSUME NEW r \in Requests, InsertCall(r) PROVE StoreInv'
  BY Cast, SameKey, <1>11 DEF InsertCall, Return
<1>12. ASSUME NEW r \in Requests, Crash(r) PROVE StoreInv'
  BY Cast, SameKey, <1>12 DEF Crash, Return, Happens
<1>13. ASSUME NEW r \in Requests, SyncSentCopy(r) PROVE StoreInv'
  <2>1. AcceptedHasReached' /\ StoredHasReached'
    BY <1>13, Cast DEF SyncSentCopy
  <2>2. EntriesAreStored'
    BY <1>13, Cast DEF SyncSentCopy, Logged
  <2>3. \A m \in Messages : entries[m] = 1 => entries'[m] = 1
    BY <1>13, Cast DEF SyncSentCopy, Logged
  <2>4. AnswersAreTrue'
    BY <1>13, <2>3, Cast DEF SyncSentCopy
  <2> QED
    BY <2>1, <2>2, <2>4
<1>14. ASSUME NEW r \in Requests, EndCall(r) PROVE StoreInv'
  BY Cast, SameKey, <1>14 DEF EndCall
<1>15. ASSUME NEW b \in Blocks, Forbid(b) PROVE StoreInv'
  BY Cast, SameKey, <1>15 DEF Forbid, Happens
<1>16. ASSUME NEW b \in Blocks, Permit(b) PROVE StoreInv'
  BY Cast, SameKey, <1>16 DEF Permit, Happens
<1>17. ASSUME NEW l \in Leads, SoftDelete(l) PROVE StoreInv'
  BY Cast, SameKey, <1>17 DEF SoftDelete, Happens
<1>18. ASSUME NEW a \in Addresses, ReceiveSms(a) PROVE StoreInv'
  BY Cast, SameKey, <1>18 DEF ReceiveSms, Happens
<1>19. CASE UNCHANGED vars
  BY Cast, SameKey, <1>19
<1> QED
  BY <1>1, <1>2, <1>3, <1>4, <1>5, <1>6, <1>7, <1>8, <1>9, <1>10, <1>11, <1>12, <1>13, <1>14, <1>15, <1>16, <1>17, <1>18, <1>19 DEF Next, Step

\* What is stored when a request comes in stops it.
LEMMA KnownStep ==
    ASSUME TypeOK, ReachedHasCalled, StoreInv, KnownIsStopped, [Next]_vars
    PROVE  KnownIsStopped'
<1> USE DEF TypeOK, KnownIsStopped, vars, rails, engine, rows, ghost
<1>1. ASSUME NEW r \in Requests, Start(r) PROVE KnownIsStopped'
  <2>1. ASSUME known'[r] PROVE pc'[r] # "new" /\ pc'[r] \notin {"ready", "accepted"} /\ r \notin reached
    BY <1>1 DEF Start, Goto, Is, ReachedHasCalled
  <2>2. ASSUME known'[r] PROVE MessageOf(r) \in stored
    BY <1>1, <2>2 DEF Start
  <2>3. ASSUME known'[r], Is(r, "sms") PROVE "sms" \in Dedupes /\ \E s \in reached : KeyOf[s] = KeyOf[r]
    <3>1. PICK s \in reached : MessageOf(s) = MessageOf(r)
      BY <2>2, <2>3 DEF StoreInv, StoredHasReached
    <3>2. s \in Requests /\ s # r
      BY <1>1 DEF Start, ReachedHasCalled
    <3> QED
      BY <3>1, <3>2, <2>3, SameMessage DEF Is
  <2> QED
    BY <1>1, <2>1, <2>2, <2>3 DEF Start, Goto
<1>2. ASSUME NEW r \in Requests, CheckBusy(r) PROVE KnownIsStopped'
  BY Cast, <1>2 DEF CheckBusy, Rail, Goto, Return
<1>3. ASSUME NEW r \in Requests, CheckLead(r) PROVE KnownIsStopped'
  BY Cast, <1>3 DEF CheckLead, Rail, Goto, Return
<1>4. ASSUME NEW r \in Requests, CheckContact(r) PROVE KnownIsStopped'
  BY Cast, <1>4 DEF CheckContact, Rail, Goto, Return
<1>5. ASSUME NEW r \in Requests, CheckDestination(r) PROVE KnownIsStopped'
  BY Cast, <1>5 DEF CheckDestination, Rail, Goto, Return
<1>6. ASSUME NEW r \in Requests, CheckSuppression(r) PROVE KnownIsStopped'
  BY Cast, <1>6 DEF CheckSuppression, Rail, Goto, Return
<1>7. ASSUME NEW r \in Requests, LastLook(r) PROVE KnownIsStopped'
  BY Cast, <1>7 DEF LastLook, Goto, Return, PriorEmail
<1>8. ASSUME NEW r \in Requests, CallProvider(r) PROVE KnownIsStopped'
  BY Cast, <1>8 DEF CallProvider, Goto, Return, Deliver, Happens, Repeats, Is
<1>9. ASSUME NEW r \in Requests, Persist(r) PROVE KnownIsStopped'
  BY Cast, <1>9 DEF Persist, Return
<1>10. ASSUME NEW r \in Requests, PersistThrows(r) PROVE KnownIsStopped'
  BY Cast, <1>10 DEF PersistThrows, Return
<1>11. ASSUME NEW r \in Requests, InsertCall(r) PROVE KnownIsStopped'
  BY Cast, <1>11 DEF InsertCall, Return
<1>12. ASSUME NEW r \in Requests, Crash(r) PROVE KnownIsStopped'
  BY Cast, <1>12 DEF Crash, Return, Happens
<1>13. ASSUME NEW r \in Requests, SyncSentCopy(r) PROVE KnownIsStopped'
  BY Cast, <1>13 DEF SyncSentCopy, Happens
<1>14. ASSUME NEW r \in Requests, EndCall(r) PROVE KnownIsStopped'
  BY Cast, <1>14 DEF EndCall
<1>15. ASSUME NEW b \in Blocks, Forbid(b) PROVE KnownIsStopped'
  BY Cast, <1>15 DEF Forbid, Happens
<1>16. ASSUME NEW b \in Blocks, Permit(b) PROVE KnownIsStopped'
  BY Cast, <1>16 DEF Permit, Happens
<1>17. ASSUME NEW l \in Leads, SoftDelete(l) PROVE KnownIsStopped'
  BY Cast, <1>17 DEF SoftDelete, Happens
<1>18. ASSUME NEW a \in Addresses, ReceiveSms(a) PROVE KnownIsStopped'
  BY Cast, <1>18 DEF ReceiveSms, Happens
<1>19. CASE UNCHANGED vars
  BY Cast, <1>19
<1> QED
  BY <1>1, <1>2, <1>3, <1>4, <1>5, <1>6, <1>7, <1>8, <1>9, <1>10, <1>11, <1>12, <1>13, <1>14, <1>15, <1>16, <1>17, <1>18, <1>19 DEF Next, Step

\* A plain sms has a stored one before it.
LEMMA PlainStep ==
    ASSUME TypeOK, ReachedHasCalled, StoreInv, PlainFollows, [Next]_vars
    PROVE  PlainFollows'
<1> USE DEF TypeOK, PlainFollows, vars, rails, engine, rows, ghost
<1>1. ASSUME NEW r \in Requests, Start(r) PROVE PlainFollows'
  BY Cast, <1>1 DEF Start, Goto
<1>2. ASSUME NEW r \in Requests, CheckBusy(r) PROVE PlainFollows'
  BY Cast, <1>2 DEF CheckBusy, Rail, Goto, Return
<1>3. ASSUME NEW r \in Requests, CheckLead(r) PROVE PlainFollows'
  BY Cast, <1>3 DEF CheckLead, Rail, Goto, Return
<1>4. ASSUME NEW r \in Requests, CheckContact(r) PROVE PlainFollows'
  BY Cast, <1>4 DEF CheckContact, Rail, Goto, Return
<1>5. ASSUME NEW r \in Requests, CheckDestination(r) PROVE PlainFollows'
  BY Cast, <1>5 DEF CheckDestination, Rail, Goto, Return
<1>6. ASSUME NEW r \in Requests, CheckSuppression(r) PROVE PlainFollows'
  BY Cast, <1>6 DEF CheckSuppression, Rail, Goto, Return
<1>7. ASSUME NEW r \in Requests, LastLook(r) PROVE PlainFollows'
  <2>1. ASSUME PriorOutboundSms(r)
        PROVE  \E s \in reached : s # r /\ Is(s, "sms") /\ ~ plain[s] /\ ToOf[s] = ToOf[r]
    <3>1. PICK t \in Requests : Is(t, "sms") /\ MessageOf(t) \in stored /\ ToOf[t] = ToOf[r]
      BY <2>1 DEF PriorOutboundSms
    <3>2. PICK s \in reached : MessageOf(s) = MessageOf(t)
      BY <3>1 DEF StoreInv, StoredHasReached
    <3>3. s \in Requests /\ Is(s, "sms") /\ ToOf[s] = ToOf[r]
      BY <3>1, <3>2, SameMessage DEF Is
    <3>4. PICK u \in reached : Is(u, "sms") /\ ~ plain[u] /\ ToOf[u] = ToOf[r]
      BY <3>2, <3>3
    <3>5. u # r
      BY <1>7, <3>4 DEF LastLook, ReachedHasCalled
    <3> QED
      BY <3>4, <3>5
  <2>2. reached' = reached /\ \A s \in Requests \ {r} : plain'[s] = plain[s] /\ pc'[s] = pc[s]
    BY <1>7 DEF LastLook, Goto, Return
  <2>3. plain'[r] => pc'[r] = "ready" /\ PriorOutboundSms(r)
    BY <1>7 DEF LastLook, Goto, Return
  <2>4. r \notin reached
    BY <1>7 DEF LastLook, ReachedHasCalled
  <2>5. ASSUME NEW q \in Requests, plain'[q]
        PROVE  \E s \in reached : s # r /\ Is(s, "sms") /\ ~ plain[s] /\ ToOf[s] = ToOf[q]
    <3>1. CASE q = r
      BY <3>1, <2>1, <2>3, <2>5
    <3>2. CASE q # r
      BY <3>2, <2>2, <2>4, <2>5
    <3> QED
      BY <3>1, <3>2
  <2> QED
    BY <2>2, <2>3, <2>5
<1>8. ASSUME NEW r \in Requests, CallProvider(r) PROVE PlainFollows'
  BY Cast, <1>8 DEF CallProvider, Goto, Return, Deliver, Happens
<1>9. ASSUME NEW r \in Requests, Persist(r) PROVE PlainFollows'
  BY Cast, <1>9 DEF Persist, Return
<1>10. ASSUME NEW r \in Requests, PersistThrows(r) PROVE PlainFollows'
  BY Cast, <1>10 DEF PersistThrows, Return
<1>11. ASSUME NEW r \in Requests, InsertCall(r) PROVE PlainFollows'
  BY Cast, <1>11 DEF InsertCall, Return
<1>12. ASSUME NEW r \in Requests, Crash(r) PROVE PlainFollows'
  BY Cast, <1>12 DEF Crash, Return, Happens
<1>13. ASSUME NEW r \in Requests, SyncSentCopy(r) PROVE PlainFollows'
  BY Cast, <1>13 DEF SyncSentCopy, Happens
<1>14. ASSUME NEW r \in Requests, EndCall(r) PROVE PlainFollows'
  BY Cast, <1>14 DEF EndCall
<1>15. ASSUME NEW b \in Blocks, Forbid(b) PROVE PlainFollows'
  BY Cast, <1>15 DEF Forbid, Happens
<1>16. ASSUME NEW b \in Blocks, Permit(b) PROVE PlainFollows'
  BY Cast, <1>16 DEF Permit, Happens
<1>17. ASSUME NEW l \in Leads, SoftDelete(l) PROVE PlainFollows'
  BY Cast, <1>17 DEF SoftDelete, Happens
<1>18. ASSUME NEW a \in Addresses, ReceiveSms(a) PROVE PlainFollows'
  BY Cast, <1>18 DEF ReceiveSms, Happens
<1>19. CASE UNCHANGED vars
  BY Cast, <1>19
<1> QED
  BY <1>1, <1>2, <1>3, <1>4, <1>5, <1>6, <1>7, <1>8, <1>9, <1>10, <1>11, <1>12, <1>13, <1>14, <1>15, <1>16, <1>17, <1>18, <1>19 DEF Next, Step

-----------------------------------------------------------------------------
(* The invariant *)

LEMMA InitInv == Init => IInv
BY Cast DEF Init, IInv, TypeOK, PCs, Answers, ReachedHasCalled, RailsInv, StandingIsInForce, Passed,
    AfterLead, AfterContact, AfterDestination, AfterSuppression, StoreInv, AcceptedHasReached,
    StoredHasReached, EntriesAreStored, AnswersAreTrue, KnownIsStopped, PlainFollows

\* The invariant is inductive.
THEOREM OutreachInvariant == Spec => []IInv
<1>1. IInv /\ [Next]_vars => IInv'
  BY TypesStep, ReachedStep, RailsStep, StoreStep, KnownStep, PlainStep DEF IInv
<1> QED
  BY InitInv, <1>1, PTL DEF Spec

\* Every row, request and history variable keeps its type.
THEOREM OutreachTypes == Spec => []TypeOK
<1>1. IInv => TypeOK
  BY DEF IInv
<1> QED
  BY OutreachInvariant, <1>1, PTL

\* One entry a message, stored only if it got through, and honest answers.
THEOREM HonestTimeline == Spec => []TimelineIsHonest
<1>1. IInv => TimelineIsHonest
  BY DEF IInv, StoreInv, StoredHasReached, EntriesAreStored, AnswersAreTrue, TimelineIsHonest
<1> QED
  BY OutreachInvariant, <1>1, PTL

\* Sent once and stored, a message is not sent again for a later request of its key.
THEOREM NoRepeats == Spec => []NoRepeatOnceStored
<1>1. IInv => NoRepeatOnceStored
  BY Cast DEF IInv, TypeOK, KnownIsStopped, NoRepeatOnceStored, Channels, Is
<1> QED
  BY OutreachInvariant, <1>1, PTL

\* The first sms to reach an address carries opt-out language.
THEOREM OptOutFirst == Spec => []OptOutComesFirst
<1>1. IInv => OptOutComesFirst
  BY DEF IInv, TypeOK, PlainFollows, OptOutComesFirst
<1> QED
  BY OutreachInvariant, <1>1, PTL

\* I-DNC: no channel contacts anybody over a block that has stood since the request came.
THEOREM NobodyBlockedIsContacted == Spec => BlockedIsNotContacted
<1>1. ASSUME IInv, Next, NEW r \in Requests, r \in reached' \ reached
      PROVE  standing[r] \cap Concerning(r) = {}
  <2>1. pc[r] = "ready"
    <3>1. CASE \E s \in Requests : CallProvider(s)
      BY <3>1, <1>1 DEF CallProvider, Deliver
    <3>2. CASE ~ \E s \in Requests : CallProvider(s)
      BY <3>2, <1>1 DEF Next, Step, Start, CheckBusy, CheckLead, CheckContact, CheckDestination,
          CheckSuppression, Rail, LastLook, Persist, PersistThrows, InsertCall, Crash, SyncSentCopy,
          EndCall, Forbid, Permit, SoftDelete, ReceiveSms, rows
    <3> QED
      BY <3>1, <3>2
  <2> QED
    BY <2>1, <1>1 DEF IInv, RailsInv, Passed, Concerning, AfterLead, AfterContact, AfterDestination,
        AfterSuppression
<1>2. IInv /\ [Next]_vars =>
        [\A r \in Requests : r \in reached' \ reached => standing[r] \cap Concerning(r) = {}]_vars
  BY <1>1
<1> QED
  BY OutreachInvariant, <1>2, PTL DEF Spec, BlockedIsNotContacted
=============================================================================
