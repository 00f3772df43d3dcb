------------------------ MODULE TwilioInbox_proofs -------------------------
(***************************************************************************)
(* The inductive invariant of TwilioInbox and the theorems it gives: types,*)
(* one timeline entry a call, each sms once, STOPs honoured and consent    *)
(* before recordings, for any callbacks, sweeps, reps and disturbances;    *)
(* and the refinement of SerialInbox.                                      *)
(***************************************************************************)
EXTENDS TwilioInbox, FiniteSetTheorems, TLAPS

\* Only finitely many rows are ever stored.
StoredFinite == IsFiniteSet(Stored)

\* Places outside a transaction.
Rest == {"idle", "next", "confirming"}

\* No two transactions hold the same row, and nobody holds one outside.
Exclusive == \A a, b \in Actors : a # b => holds[a] \cap holds[b] = {}
RestHoldsNothing == \A a \in Actors : pc[a] \in Rest => holds[a] = {}

\* A worker inside a transaction holds a row that is not processed.
OwnsRow ==
    \A w \in Workers : pc[w] \notin Rest => task[w] \in holds[w] /\ task[w] \notin done

\* One worker confirms a STOP, and its row is processed.
OneConfirmer ==
    /\ \A w \in Workers : pc[w] = "confirming" => task[w] \in done
    /\ \A v, w \in Workers :
          pc[v] = "confirming" /\ pc[w] = "confirming" /\ task[v] = task[w] => v = w

\* What is processed as a call's callback is one.
CallPlaces == {"resolving", "probing", "consenting", "attaching", "updating", "finalising", "logging"}
CallbackInHand == \A w \in Workers : pc[w] \in CallPlaces => Kind[task[w]] \in CallKinds

LockInv == Exclusive /\ RestHoldsNothing /\ OwnsRow /\ OneConfirmer /\ CallbackInHand

\* Who is about to log a call has locked it; a worker has found no entry since.
LogsUnderLock ==
    /\ \A a \in Actors : pc[a] \in {"finalising", "logging", "noting"} => CallOf(a) \in holds[a]
    /\ \A a \in Actors : pc[a] = "logging" => logs[CallOf(a)] = 0

CallInv == LogsUnderLock /\ OneEntryPerCall

\* What is to be confirmed has not been.
Unconfirmed == \A w \in Workers : pc[w] = "confirming" => confirmed[task[w]] = 0

SmsInv == Unconfirmed /\ SmsExactlyOnce

\* A STOP about to commit that has not written the suppression has seen it.
StopInHand ==
    \A w \in Workers : pc[w] = "texting" /\ Kind[task[w]] = "stop" =>
        \/ Subject[task[w]] \in holds[w]
        \/ suppression[Subject[task[w]]] = "active"
        \/ task[w] \in pardoned

StopInv == StopInHand /\ StopIsHonoured

\* A recording about to be attached has a marker, or writes one.
ConsentInHand ==
    \A w \in Workers : pc[w] = "attaching" => Marks(w) \/ consents[CallOf(w)] > 0

ConsentInv == ConsentInHand /\ ConsentBeforeRecording

IInv == TypeOK /\ StoredFinite /\ LockInv /\ CallInv /\ SmsInv /\ StopInv /\ ConsentInv

-----------------------------------------------------------------------------
(* The cast *)

(* What a worker's row, or a rep's call, is about. *)
LEMMA Cast ==
    ASSUME TypeOK
    PROVE  /\ \A w \in Workers : pc[w] \notin {"idle", "next"} =>
                 /\ task[w] \in Events
                 /\ CallOf(w) = Subject[task[w]]
                 /\ CallOf(w) \in Calls \cup Numbers
                 /\ Kind[task[w]] \in CallKinds => CallOf(w) \in Calls
                 /\ NumberOf(task[w]) \in Numbers
                 /\ Kind[task[w]] = "stop" => NumberOf(task[w]) = Subject[task[w]]
                 /\ LeadOf(w) \in Leads
           /\ \A r \in Reps : pc[r] # "idle" =>
                 CallOf(r) = task[r] /\ CallOf(r) \in Calls /\ LeadOf(r) \in Leads
<1>1. ASSUME NEW w \in Workers, pc[w] \notin {"idle", "next"}
      PROVE  /\ task[w] \in Events
             /\ CallOf(w) = Subject[task[w]]
             /\ CallOf(w) \in Calls \cup Numbers
             /\ Kind[task[w]] \in CallKinds => CallOf(w) \in Calls
             /\ NumberOf(task[w]) \in Numbers
             /\ Kind[task[w]] = "stop" => NumberOf(task[w]) = Subject[task[w]]
             /\ LeadOf(w) \in Leads
  <2>1. task[w] \in Events /\ task[w] \notin Calls
    BY <1>1, DisjointAssumption DEF TypeOK
  <2>2. NumberOf(task[w]) \in Numbers
    BY <2>1, CastAssumption DEF NumberOf
  <2> QED
    BY <2>1, <2>2, CastAssumption DEF CallOf, NumberOf, LeadOf, CallKinds, Kinds
<1>2. ASSUME NEW r \in Reps, pc[r] # "idle"
      PROVE  CallOf(r) = task[r] /\ CallOf(r) \in Calls /\ LeadOf(r) \in Leads
  BY <1>2, CastAssumption DEF TypeOK, CallOf, LeadOf
<1> QED
  BY <1>1, <1>2

-----------------------------------------------------------------------------
(* Types *)

Places == pc \in [Actors -> PCs] /\ task \in [Actors -> Events \cup Calls \cup {NoTask}]
Hands == holds \in [Actors -> SUBSET (Events \cup Calls \cup Numbers \cup Leads)]
Tasks ==
    /\ \A w \in Workers : pc[w] \notin {"idle", "next"} => task[w] \in Events
    /\ \A r \in Reps : pc[r] # "idle" => task[r] \in Calls

(* The ways an actor goes on keep the types of what it is made of. *)
LEMMA ActorKeepsTypes ==
    ASSUME TypeOK, NEW a \in Actors, NEW p \in PCs,
           pc[a] # "idle",
           pc[a] = "next" => p = "idle",
           \/ Goto(a, p)
           \/ \E r \in Events \cup Calls \cup Numbers \cup Leads : LockAndGoto(a, r, p)
           \/ GiveUp(a)
    PROVE  Places' /\ Hands' /\ Tasks'
           /\ todo' \in [Actors -> SUBSET Events] /\ matched' \in [Actors -> BOOLEAN]
<1>0. "idle" \in PCs
  BY DEF PCs
<1>1. CASE Goto(a, p)
  BY <1>1 DEF TypeOK, Goto, Places, Hands, Tasks
<1>2. CASE \E r \in Events \cup Calls \cup Numbers \cup Leads : LockAndGoto(a, r, p)
  BY <1>2 DEF TypeOK, LockAndGoto, Places, Hands, Tasks
<1>3. CASE GiveUp(a)
  BY <1>0, <1>3, DisjointAssumption DEF TypeOK, GiveUp, Places, Hands, Tasks, Actors
<1> QED
  BY <1>1, <1>2, <1>3

(* And so does the commit of a row. *)
LEMMA CommitKeepsTypes ==
    ASSUME TypeOK, NEW w \in Workers, pc[w] \notin {"idle", "next"}, CommitRow(w)
    PROVE  /\ Places' /\ Hands' /\ Tasks'
           /\ todo' \in [Actors -> SUBSET Events] /\ matched' \in [Actors -> BOOLEAN]
           /\ rank' \in [Events -> Nat] /\ done' \subseteq Events /\ woken' \subseteq Events
<1>1. "next" \in PCs /\ w \in Actors /\ w \notin Reps
  BY DisjointAssumption DEF PCs, Actors
<1> QED
  BY <1>1 DEF TypeOK, CommitRow, Places, Hands, Tasks

(* The ingress keeps the types. *)
LEMMA DeliverTypes ==
    ASSUME TypeOK, StoredFinite, NEW e \in Events, Deliver(e)
    PROVE  TypeOK'
<1>1. Cardinality(Stored) + 1 \in Nat
  BY FS_CardinalityType DEF StoredFinite
<1> QED
  BY <1>1 DEF TypeOK, Deliver, phone, sms, crm, actor, ghost

(* Sweeps and jobs keep the types. *)
LEMMA SweepTypes ==
    ASSUME TypeOK, NEW w \in Workers,
           \/ \E e \in Events : Wake(w, e)
           \/ Sweep(w) \/ Claim(w) \/ Finish(w) \/ PassVoice(w) \/ Confirm(w)
    PROVE  TypeOK'
<1> USE DEF inbox, phone, sms, crm, actor, ghost
<1>a. w \in Actors /\ w \notin Reps /\ {"idle", "next", "claimed"} \subseteq PCs
  BY DisjointAssumption DEF Actors, PCs
<1>2. CASE \E e \in Events : Wake(w, e)
  BY <1>a, <1>2 DEF TypeOK, Wake
<1>3. CASE Sweep(w)
  BY <1>a, <1>3 DEF TypeOK, Sweep, Unprocessed, Stored
<1>4. CASE Claim(w)
  <2> PICK f \in todo[w] :
          /\ todo' = [todo EXCEPT ![w] = @ \ {f}]
          /\ \/ UNCHANGED <<pc, task, holds>>
             \/ /\ task' = [task EXCEPT ![w] = f]
                /\ pc' = [pc EXCEPT ![w] = "claimed"]
                /\ holds' = [holds EXCEPT ![w] = {f}]
    BY <1>4 DEF Claim
  <2>1. f \in Events
    BY <1>a DEF TypeOK
  <2>2. Places' /\ Hands' /\ Tasks'
    <3>1. CASE UNCHANGED <<pc, task, holds>>
      BY <3>1 DEF TypeOK, Places, Hands, Tasks
    <3>2. CASE /\ task' = [task EXCEPT ![w] = f]
               /\ pc' = [pc EXCEPT ![w] = "claimed"]
               /\ holds' = [holds EXCEPT ![w] = {f}]
      BY <1>a, <2>1, <3>2 DEF TypeOK, Places, Hands, Tasks
    <3> QED
      BY <3>1, <3>2
  <2> QED
    BY <1>a, <1>4, <2>1, <2>2 DEF TypeOK, Claim, Places, Hands, Tasks
<1>5. CASE Finish(w)
  BY <1>a, <1>5 DEF TypeOK, Finish, Rollback, GiveUp
<1>6. CASE PassVoice(w)
  BY <1>6, CommitKeepsTypes DEF TypeOK, PassVoice, Places, Hands, Tasks
<1>7. CASE Confirm(w)
  <2>1. confirmed' \in [Events -> Nat]
    BY <1>7 DEF TypeOK, Confirm
  <2> QED
    BY <1>a, <1>7, <2>1 DEF TypeOK, Confirm
<1> QED
  BY <1>2, <1>3, <1>4, <1>5, <1>6, <1>7

(* A worker's steps inside a transaction keep the types: calls. *)
LEMMA StatusTypes ==
    ASSUME TypeOK, CallbackInHand, NEW w \in Workers, Status(w)
    PROVE  TypeOK'
<1> USE DEF inbox, phone, sms, crm, actor, ghost, Places, Hands, Tasks
<1>a. w \in Actors /\ PCs = PCs \cup {"resolving", "probing", "updating", "attaching", "consenting",
                                      "finalising", "logging", "idle"}
  BY DEF Actors, PCs
<1>b. /\ pc[w] # "idle" /\ pc[w] # "next"
      /\ CallOf(w) \in Calls \cup Numbers /\ LeadOf(w) \in Leads
      /\ Kind[task[w]] \in CallKinds => CallOf(w) \in Calls
  <2>1. pc[w] \notin {"idle", "next"}
    BY DEF Status, LoadCall, NoContact, CreateCall, ProbeConsent, RecordConsent, AttachRecording,
           Advance, Finalise, ProbeLogged, LogCall
  <2> QED
    BY <2>1, Cast
<1>c. AfterCall(w) \in PCs
  BY <1>a DEF AfterCall
<1>t. Finalised(w) => /\ status' \in [Calls -> {"none", "open", "ended"}]
                      /\ ref' \in [Calls -> {"none", "recording", "message", "drop"}]
  <2>1. [status EXCEPT ![CallOf(w)] = "ended"] \in [Calls -> {"none", "open", "ended"}]
    BY DEF TypeOK
  <2>2. [ref EXCEPT ![CallOf(w)] = "message"] \in [Calls -> {"none", "recording", "message", "drop"}]
    BY DEF TypeOK
  <2> QED
    BY <2>1, <2>2 DEF TypeOK, Finalised
<1>1. CASE LoadCall(w)
  BY <1>1, <1>a, <1>b, <1>c, ActorKeepsTypes DEF TypeOK, LoadCall
<1>2. CASE NoContact(w)
  BY <1>2, <1>a, <1>b, CommitKeepsTypes DEF TypeOK, NoContact
<1>3. CASE CreateCall(w)
  BY <1>3, <1>a, <1>b, <1>c, ActorKeepsTypes DEF TypeOK, CreateCall
<1>4. CASE ProbeConsent(w)
  <2>1. Goto(w, "attaching") \/ Goto(w, "consenting")
    BY <1>4 DEF ProbeConsent
  <2>2. crowded' \subseteq Calls
    BY <1>4, <1>b DEF TypeOK, ProbeConsent, CallbackInHand, CallPlaces
  <2> QED
    BY <1>4, <1>a, <1>b, <2>1, <2>2, ActorKeepsTypes DEF TypeOK, ProbeConsent
<1>5. CASE RecordConsent(w)
  BY <1>5, <1>a, <1>b, ActorKeepsTypes DEF TypeOK, RecordConsent, Rollback
<1>6. CASE AttachRecording(w)
  <2>1. consents' \in [Calls -> Nat] /\ status' \in [Calls -> {"none", "open", "ended"}]
    <3>1. consents' = IF Marks(w) THEN [consents EXCEPT ![CallOf(w)] = @ + 1] ELSE consents
      BY <1>6 DEF TypeOK, AttachRecording
    <3>2. consents' \in [Calls -> Nat]
      <4>1. consents' = consents \/ consents' = [consents EXCEPT ![CallOf(w)] = @ + 1]
        BY <3>1
      <4> QED
        BY <4>1 DEF TypeOK
    <3>3. status' \in [Calls -> {"none", "open", "ended"}]
      BY <1>6 DEF TypeOK, AttachRecording
    <3> QED
      BY <3>2, <3>3
  <2>2. ref' \in [Calls -> {"none", "recording", "message", "drop"}]
    BY <1>6 DEF TypeOK, AttachRecording
  <2> QED
    BY <1>6, <1>b, <2>1, <2>2, CommitKeepsTypes DEF TypeOK, AttachRecording
<1>7. CASE Advance(w)
  <2>1. status' \in [Calls -> {"none", "open", "ended"}]
    BY <1>7 DEF TypeOK, Advance
  <2> QED
    BY <1>7, <1>b, <2>1, CommitKeepsTypes DEF TypeOK, Advance
<1>8. CASE Finalise(w)
  BY <1>8, <1>a, <1>b, ActorKeepsTypes DEF TypeOK, Finalise
<1>9. CASE ProbeLogged(w)
  <2>1. CASE Goto(w, "logging") /\ UNCHANGED <<inbox, status, ref>>
    BY <1>9, <1>a, <1>b, <2>1, ActorKeepsTypes DEF TypeOK, ProbeLogged
  <2>2. CASE Finalised(w) /\ CommitRow(w)
    <3>1. /\ status' \in [Calls -> {"none", "open", "ended"}]
          /\ ref' \in [Calls -> {"none", "recording", "message", "drop"}]
      BY <1>t, <2>2
    <3> QED
      BY <1>9, <1>b, <2>2, <3>1, CommitKeepsTypes DEF TypeOK, ProbeLogged
  <2> QED
    BY <1>9, <2>1, <2>2 DEF ProbeLogged
<1>10. CASE LogCall(w)
  <2>1. CASE Rollback(w)
    BY <1>a, <1>b, <2>1, ActorKeepsTypes DEF TypeOK, Rollback
  <2>2. CASE ~Rollback(w)
    <3>1. /\ logs' \in [Calls -> Nat] /\ status' \in [Calls -> {"none", "open", "ended"}]
          /\ ref' \in [Calls -> {"none", "recording", "message", "drop"}]
      BY <1>10, <1>t, <2>2 DEF TypeOK, LogCall
    <3> QED
      BY <1>10, <1>b, <2>2, <3>1, CommitKeepsTypes DEF TypeOK, LogCall
  <2> QED
    BY <2>1, <2>2
<1> QED
  BY <1>1, <1>2, <1>3, <1>4, <1>5, <1>6, <1>7, <1>8, <1>9, <1>10 DEF Status

(* A worker's steps inside a transaction keep the types: sms. *)
LEMMA SmsTypes ==
    ASSUME TypeOK, NEW w \in Workers,
           \/ ReadSender(w) \/ LookUpSuppression(w) \/ InsertSuppression(w)
           \/ ReactivateSuppression(w) \/ RecordText(w)
    PROVE  TypeOK'
<1> USE DEF inbox, phone, sms, crm, actor, ghost, Places, Hands, Tasks
<1>a. w \in Actors /\ w \notin Reps
      /\ PCs = PCs \cup {"suppressing", "texting", "inserting", "reactivating", "confirming", "idle"}
  BY DisjointAssumption DEF Actors, PCs
<1>b. pc[w] # "idle" /\ pc[w] # "next" /\ task[w] \in Events /\ NumberOf(task[w]) \in Numbers
  <2>1. pc[w] \notin {"idle", "next"}
    BY DEF ReadSender, LookUpSuppression, InsertSuppression, ReactivateSuppression, RecordText
  <2> QED
    BY <2>1, Cast
<1>1. CASE ReadSender(w)
  <2>1. CASE CommitRow(w)
    BY <1>1, <1>b, <2>1, CommitKeepsTypes DEF TypeOK, ReadSender
  <2>2. CASE ~CommitRow(w)
    <3>1. matched' \in [Actors -> BOOLEAN]
      BY <1>1, <2>2 DEF TypeOK, ReadSender, Resolves
    <3>2. PICK p \in {"suppressing", "texting"} :
              pc' = [pc EXCEPT ![w] = p] /\ UNCHANGED <<inbox, task, todo, holds>>
      BY <1>1, <2>2 DEF ReadSender
    <3>3. Places' /\ Tasks'
      BY <1>a, <1>b, <3>2 DEF TypeOK
    <3> QED
      BY <1>1, <2>2, <3>1, <3>2, <3>3 DEF TypeOK, ReadSender
  <2> QED
    BY <2>1, <2>2
<1>2. CASE LookUpSuppression(w)
  <2> DEFINE q == CASE suppression[NumberOf(task[w])] = "never"    -> "inserting"
                    [] suppression[NumberOf(task[w])] = "released" -> "reactivating"
                    [] suppression[NumberOf(task[w])] = "active"   -> "texting"
  <2>1. q \in PCs
    BY <1>a, <1>b DEF TypeOK
  <2>2. Goto(w, q)
    BY <1>2 DEF LookUpSuppression
  <2> HIDE DEF q
  <2> QED
    BY <1>2, <1>a, <1>b, <2>1, <2>2, ActorKeepsTypes DEF TypeOK, LookUpSuppression
<1>3. CASE InsertSuppression(w)
  BY <1>3, <1>a, <1>b, ActorKeepsTypes DEF TypeOK, InsertSuppression, Rollback
<1>4. CASE ReactivateSuppression(w)
  BY <1>4, <1>a, <1>b, ActorKeepsTypes DEF TypeOK, ReactivateSuppression
<1>5. CASE RecordText(w)
  <2>1. CASE Rollback(w)
    BY <1>a, <1>b, <2>1, ActorKeepsTypes DEF TypeOK, Rollback
  <2>2. CASE ~Rollback(w)
    <3>1. texts' \in [Events -> Nat]
      BY <1>5, <2>2 DEF TypeOK, RecordText
    <3>2. CASE CommitRow(w) /\ UNCHANGED suppression
      BY <1>5, <1>b, <2>2, <3>1, <3>2, CommitKeepsTypes DEF TypeOK, RecordText
    <3>3. CASE CommitStop(w)
      <4>1. suppression' \in [Numbers -> {"never", "active", "released"}] /\ done' \subseteq Events
        BY <1>b, <3>3 DEF TypeOK, CommitStop
      <4>2. Places' /\ Hands' /\ Tasks'
        BY <1>a, <1>b, <3>3 DEF TypeOK, CommitStop
      <4> QED
        BY <1>5, <2>2, <3>1, <3>3, <4>1, <4>2 DEF TypeOK, RecordText, CommitStop
    <3> QED
      BY <1>5, <2>2, <3>2, <3>3 DEF RecordText
  <2> QED
    BY <2>1, <2>2
<1> QED
  BY <1>1, <1>2, <1>3, <1>4, <1>5

(* Reps keep the types. *)
LEMMA RepTypes ==
    ASSUME TypeOK, NEW r \in Reps, (\E c \in Calls : DropVoicemail(r, c)) \/ Drop(r)
    PROVE  TypeOK'
<1> USE DEF inbox, phone, sms, crm, actor, ghost, Places, Hands, Tasks
<1>a. r \in Actors /\ r \notin Workers
      /\ PCs = PCs \cup {"checking", "overwriting", "noting", "idle"}
  BY DisjointAssumption DEF Actors, PCs
<1>1. CASE \E c \in Calls : DropVoicemail(r, c)
  <2>1. events' \in 0 .. MaxEvents
    BY <1>1, BoundsAssumption DEF TypeOK, DropVoicemail, Happens
  <2>2. Places' /\ Tasks'
    BY <1>1, <1>a DEF TypeOK, DropVoicemail
  <2> QED
    BY <1>1, <2>1, <2>2 DEF TypeOK, DropVoicemail
<1>2. CASE RecheckLogged(r)
  BY <1>2, <1>a, ActorKeepsTypes DEF TypeOK, RecheckLogged, Rollback
<1>3. CASE OverwriteCall(r)
  <2>1. CallOf(r) \in Calls /\ pc[r] = "overwriting"
    BY <1>3, Cast DEF OverwriteCall
  <2> QED
    BY <1>3, <1>a, <2>1, ActorKeepsTypes DEF TypeOK, OverwriteCall
<1>4. CASE RecordDrop(r)
  <2>1. CallOf(r) \in Calls /\ pc[r] = "noting"
    BY <1>4, Cast DEF RecordDrop
  <2>2. GiveUp(r)
    BY <1>4 DEF RecordDrop, Rollback
  <2>3. CASE Rollback(r)
    BY <1>a, <2>1, <2>2, <2>3, ActorKeepsTypes DEF TypeOK, Rollback
  <2>4. CASE ~Rollback(r)
    <3>1. /\ logs' \in [Calls -> Nat] /\ status' \in [Calls -> {"none", "open", "ended"}]
          /\ ref' \in [Calls -> {"none", "recording", "message", "drop"}]
          /\ dropped' \subseteq Calls
      BY <1>4, <2>1, <2>4 DEF TypeOK, RecordDrop
    <3> QED
      BY <1>4, <1>a, <2>1, <2>2, <2>4, <3>1, ActorKeepsTypes DEF TypeOK, RecordDrop
  <2> QED
    BY <2>3, <2>4
<1> QED
  BY <1>1, <1>2, <1>3, <1>4 DEF Drop

(* Dials, the CRM and failures keep the types. *)
LEMMA WorldTypes ==
    ASSUME TypeOK,
           \/ \E c \in Calls : Dial(c) \/ InsertDialled(c)
           \/ \E l \in Leads : DeleteLead(l)
           \/ \E n \in Numbers : EditContact(n) \/ Release(n)
           \/ \E a \in Actors : Fail(a) \/ Abort(a)
    PROVE  TypeOK'
<1> USE DEF inbox, phone, sms, crm, actor, ghost, Places, Hands, Tasks
<1>0. "idle" \in PCs
  BY DEF PCs
<1>1. ASSUME NEW c \in Calls, Dial(c) PROVE TypeOK'
  BY <1>1 DEF TypeOK, Dial
<1>2. ASSUME NEW c \in Calls, InsertDialled(c) PROVE TypeOK'
  BY <1>2 DEF TypeOK, InsertDialled
<1>3. ASSUME NEW l \in Leads, DeleteLead(l) PROVE TypeOK'
  BY <1>3, BoundsAssumption DEF TypeOK, DeleteLead, Happens
<1>4. ASSUME NEW n \in Numbers, EditContact(n) PROVE TypeOK'
  <2>1. events' \in 0 .. MaxEvents
    BY <1>4, BoundsAssumption DEF TypeOK, EditContact, Happens
  <2> QED
    BY <1>4, <2>1 DEF TypeOK, EditContact
<1>5. ASSUME NEW n \in Numbers, Release(n) PROVE TypeOK'
  <2>1. events' \in 0 .. MaxEvents
    BY <1>5, BoundsAssumption DEF TypeOK, Release, Happens
  <2>2. suppression' \in [Numbers -> {"never", "active", "released"}]
    BY <1>5 DEF TypeOK, Release
  <2>3. pardoned' \subseteq Events
    BY <1>5 DEF TypeOK, Release
  <2> QED
    BY <1>5, <2>1, <2>2, <2>3 DEF TypeOK, Release
<1>6. ASSUME NEW a \in Actors, Fail(a) PROVE TypeOK'
  <2>1. events' \in 0 .. MaxEvents /\ pc[a] # "idle" /\ GiveUp(a)
    BY <1>6, BoundsAssumption DEF TypeOK, Fail, Happens
  <2> QED
    BY <1>0, <1>6, <2>1, ActorKeepsTypes DEF TypeOK, Fail
<1>7. ASSUME NEW a \in Actors, Abort(a) PROVE TypeOK'
  <2>1. pc[a] # "idle"
    BY <1>7 DEF Abort, Waits, Wants
  <2> QED
    BY <1>0, <1>7, <2>1, ActorKeepsTypes DEF TypeOK, Abort, Rollback
<1> QED
  BY <1>1, <1>2, <1>3, <1>4, <1>5, <1>6, <1>7

(* One step stores one row at most. *)
LEMMA FiniteStep ==
    ASSUME TypeOK, StoredFinite, Next
    PROVE  StoredFinite'
<1>1. CASE \E e \in Events : Deliver(e)
  <2>1. PICK e \in Events : Deliver(e)
    BY <1>1
  <2>2. Stored' \subseteq Stored \cup {e}
    BY <2>1 DEF TypeOK, Deliver, Stored
  <2> QED
    BY <2>2, FS_AddElement, FS_Subset DEF StoredFinite
<1>2. CASE UNCHANGED rank
  BY <1>2 DEF StoredFinite, Stored
<1> QED
  BY <1>1, <1>2
  DEF Next, Wake, Sweep, Process, Claim, Finish, PassVoice, Status, Sms, Drop, Rollback, GiveUp, CommitRow,
      LoadCall, NoContact, CreateCall, ProbeConsent, RecordConsent, AttachRecording, Advance, Finalise,
      ProbeLogged, LogCall, ReadSender, LookUpSuppression, InsertSuppression, ReactivateSuppression,
      RecordText, CommitStop, Confirm, DropVoicemail, RecheckLogged, OverwriteCall, RecordDrop, Dial,
      InsertDialled, DeleteLead, EditContact, Release, Fail, Abort, inbox

(* Every step keeps the types. *)
LEMMA NextTypes ==
    ASSUME TypeOK, CallbackInHand, StoredFinite, [Next]_vars
    PROVE  TypeOK' /\ StoredFinite'
<1>1. CASE UNCHANGED vars
  BY <1>1 DEF TypeOK, StoredFinite, Stored, vars, inbox, phone, sms, crm, actor, ghost
<1>2. ASSUME NEW w \in Workers, Sweep(w) \/ Process(w) PROVE TypeOK'
  BY <1>2, SweepTypes, StatusTypes, SmsTypes DEF Process, Sms
<1>3. CASE Next
  BY <1>2, <1>3, DeliverTypes, SweepTypes, RepTypes, WorldTypes, FiniteStep DEF Next
<1> QED
  BY <1>1, <1>3

-----------------------------------------------------------------------------
(* What a step can do to the actors, their locks and the rows that the       *)
(* invariant is about.                                                       *)

callRows == <<status, logs, dropped, consents, ref>>
smsRows == <<texts, confirmed, suppression, pardoned>>
places == <<pc, task, holds, done>>

Quiet == UNCHANGED <<callRows, smsRows, places>>

Opens ==
    /\ \E c \in Calls : status' = [status EXCEPT ![c] = "open"]
    /\ UNCHANGED <<logs, dropped, consents, ref, smsRows, places>>

Releases ==
    /\ \E n \in Numbers :
          /\ \A a \in Actors : n \notin holds[a]
          /\ suppression' = [suppression EXCEPT ![n] = "released"]
          /\ pardoned' = pardoned \cup
                {e \in Events : /\ Kind[e] = "stop"
                                /\ Subject[e] = n
                                /\ e \in done \/ \E w \in Workers : task[w] = e /\ pc[w] = "texting"}
    /\ UNCHANGED <<callRows, texts, confirmed, places>>

Starts(w) ==
    /\ pc[w] \in {"idle", "next"}
    /\ pc' = [pc EXCEPT ![w] = "next"]
    /\ UNCHANGED <<callRows, smsRows, task, holds, done>>

Claims(w, e) ==
    /\ pc[w] = "next"
    /\ e \notin done
    /\ Free(w, e)
    /\ task' = [task EXCEPT ![w] = e]
    /\ pc' = [pc EXCEPT ![w] = "claimed"]
    /\ holds' = [holds EXCEPT ![w] = {e}]
    /\ UNCHANGED <<callRows, smsRows, done>>

\* What the place an actor goes to may rely on.
Entitled(a, p, locked) ==
    /\ p \in PCs \ Rest
    /\ p \in CallPlaces => Kind[task[a]] \in CallKinds
    /\ p \in {"finalising", "noting"} => CallOf(a) \in locked
    /\ p = "logging" => pc[a] = "finalising" /\ logs[CallOf(a)] = 0
    /\ p = "texting" => \/ Kind[task[a]] # "stop"
                        \/ Subject[task[a]] \in locked
                        \/ suppression[Subject[task[a]]] = "active"
    /\ p = "attaching" => LeadOf(a) \in locked \/ consents[CallOf(a)] > 0

Moves(a, p, R) ==
    /\ pc[a] \notin Rest
    /\ Entitled(a, p, holds[a] \cup R)
    /\ \A r \in R : Free(a, r)
    /\ holds' = [holds EXCEPT ![a] = @ \cup R]
    /\ pc' = [pc EXCEPT ![a] = p]
    /\ UNCHANGED <<callRows, smsRows, task, done>>

Stops(a) ==
    /\ pc' = [pc EXCEPT ![a] = "idle"]
    /\ task' = [task EXCEPT ![a] = NoTask]
    /\ holds' = [holds EXCEPT ![a] = {}]
    /\ UNCHANGED done

GivesUp(a) == Stops(a) /\ UNCHANGED <<callRows, smsRows>>

Picks(r, c) ==
    /\ r \in Reps
    /\ pc[r] = "idle"
    /\ pc' = [pc EXCEPT ![r] = "checking"]
    /\ task' = [task EXCEPT ![r] = c]
    /\ UNCHANGED <<callRows, smsRows, holds, done>>

Drops(r) ==
    /\ pc[r] = "noting"
    /\ Stops(r)
    /\ logs' = [logs EXCEPT ![CallOf(r)] = @ + 1]
    /\ status' = [status EXCEPT ![CallOf(r)] = "ended"]
    /\ ref' = [ref EXCEPT ![CallOf(r)] = "drop"]
    /\ dropped' = dropped \cup {CallOf(r)}
    /\ UNCHANGED <<consents, smsRows>>

Ends(w) ==
    /\ pc[w] \notin Rest
    /\ pc' = [pc EXCEPT ![w] = "next"]
    /\ task' = [task EXCEPT ![w] = NoTask]
    /\ holds' = [holds EXCEPT ![w] = {}]
    /\ done' = done \cup {task[w]}

CommitsCall(w) ==
    /\ Ends(w)
    /\ Kind[task[w]] # "stop"
    /\ \/ UNCHANGED <<status, logs>>
       \/ status' = [status EXCEPT ![CallOf(w)] = "open"] /\ UNCHANGED logs
       \/ /\ pc[w] = "finalising"
          /\ logs[CallOf(w)] > 0
          /\ status' = [status EXCEPT ![CallOf(w)] = "ended"]
          /\ UNCHANGED logs
       \/ /\ pc[w] = "logging"
          /\ status' = [status EXCEPT ![CallOf(w)] = "ended"]
          /\ logs' = [logs EXCEPT ![CallOf(w)] = @ + 1]
    /\ \/ UNCHANGED ref
       \/ /\ Kind[task[w]] = "message"
          /\ logs'[CallOf(w)] > 0
          /\ ref' = [ref EXCEPT ![CallOf(w)] = "message"]
    /\ UNCHANGED <<consents, dropped, smsRows>>

CommitsRecording(w) ==
    /\ Ends(w)
    /\ Kind[task[w]] # "stop"
    /\ pc[w] = "attaching"
    /\ status' = status \/ status' = [status EXCEPT ![CallOf(w)] = "open"]
    /\ consents' = [consents EXCEPT ![CallOf(w)] = IF Marks(w) THEN @ + 1 ELSE @]
    /\ ref' = ref \/ ref' = [ref EXCEPT ![CallOf(w)] = "recording"]
    /\ UNCHANGED <<logs, dropped, smsRows>>

CommitsText(w) ==
    /\ Ends(w)
    /\ Kind[task[w]] # "stop"
    /\ texts' = texts \/ texts' = [texts EXCEPT ![task[w]] = @ + 1]
    /\ UNCHANGED <<callRows, confirmed, suppression, pardoned>>

CommitsStop(w) ==
    /\ pc[w] = "texting"
    /\ Kind[task[w]] = "stop"
    /\ CommitStop(w)
    /\ texts' = texts \/ texts' = [texts EXCEPT ![task[w]] = @ + 1]
    /\ UNCHANGED <<callRows, confirmed, pardoned>>

Confirms(w) ==
    /\ pc[w] = "confirming"
    /\ confirmed' = confirmed \/ confirmed' = [confirmed EXCEPT ![task[w]] = @ + 1]
    /\ pc' = [pc EXCEPT ![w] = "next"]
    /\ task' = [task EXCEPT ![w] = NoTask]
    /\ UNCHANGED <<callRows, texts, suppression, pardoned, holds, done>>

WorkerEffect(w) ==
    \/ Starts(w)
    \/ \E e \in Events : Claims(w, e)
    \/ CommitsCall(w) \/ CommitsRecording(w) \/ CommitsText(w) \/ CommitsStop(w) \/ Confirms(w)

ActorEffect(a) == GivesUp(a) \/ \E p \in PCs, R \in SUBSET (Calls \cup Numbers \cup Leads) : Moves(a, p, R)

Effect ==
    \/ Quiet \/ Opens \/ Releases
    \/ \E w \in Workers : WorkerEffect(w)
    \/ \E a \in Actors : ActorEffect(a)
    \/ \E r \in Reps : Drops(r) \/ \E c \in Calls : Picks(r, c)

(* Going on without a lock, or with one, is a move. *)
LEMMA GotoMoves ==
    ASSUME TypeOK, NEW a \in Actors, NEW p \in PCs, pc[a] \notin Rest,
           UNCHANGED <<callRows, smsRows, done>>,
           \/ Goto(a, p) /\ Entitled(a, p, holds[a])
           \/ \E r \in Calls \cup Numbers \cup Leads :
                 LockAndGoto(a, r, p) /\ Entitled(a, p, holds[a] \cup {r})
    PROVE  ActorEffect(a)
<1>1. CASE Goto(a, p) /\ Entitled(a, p, holds[a])
  <2>1. holds[a] \cup {} = holds[a] /\ holds' = [holds EXCEPT ![a] = @ \cup {}]
    BY <1>1 DEF TypeOK, Goto
  <2>2. Moves(a, p, {})
    BY <1>1, <2>1 DEF Moves, Goto
  <2> QED
    BY <2>2 DEF ActorEffect
<1>2. CASE \E r \in Calls \cup Numbers \cup Leads :
               LockAndGoto(a, r, p) /\ Entitled(a, p, holds[a] \cup {r})
  <2>1. PICK r \in Calls \cup Numbers \cup Leads :
               LockAndGoto(a, r, p) /\ Entitled(a, p, holds[a] \cup {r})
    BY <1>2
  <2>2. Moves(a, p, {r})
    BY <2>1 DEF Moves, LockAndGoto
  <2> QED
    BY <2>2 DEF ActorEffect
<1> QED
  BY <1>1, <1>2

(* The effects of a worker's steps: sweeps and rows it does not go into. *)
LEMMA SweepEffect ==
    ASSUME TypeOK, NEW w \in Workers,
           \/ \E e \in Events : Wake(w, e)
           \/ Sweep(w) \/ Claim(w) \/ Finish(w) \/ PassVoice(w) \/ Confirm(w)
    PROVE  Effect
<1> USE DEF inbox, phone, sms, crm, actor, ghost, callRows, smsRows, places
<1>a. w \in Actors
  BY DEF Actors
<1>1. CASE (\E e \in Events : Wake(w, e)) \/ Sweep(w)
  <2>1. Starts(w)
    BY <1>1 DEF Starts, Wake, Sweep
  <2> QED
    BY <2>1 DEF Effect, WorkerEffect
<1>2. CASE Claim(w)
  <2>1. PICK e \in todo[w] :
           /\ Free(w, e)
           /\ IF e \in done
              THEN UNCHANGED <<pc, task, holds>>
              ELSE /\ task' = [task EXCEPT ![w] = e]
                   /\ pc' = [pc EXCEPT ![w] = "claimed"]
                   /\ holds' = [holds EXCEPT ![w] = {e}]
    BY <1>2 DEF Claim
  <2>2. CASE e \in done
    BY <1>2, <2>1, <2>2 DEF Claim, Effect, Quiet
  <2>3. CASE e \notin done
    <3>1. e \in Events /\ Claims(w, e)
      BY <1>2, <1>a, <2>1, <2>3 DEF Claim, Claims, TypeOK
    <3> QED
      BY <3>1 DEF Effect, WorkerEffect
  <2> QED
    BY <2>2, <2>3
<1>3. CASE Finish(w)
  <2>1. GivesUp(w)
    BY <1>3 DEF Finish, Rollback, GiveUp, GivesUp, Stops
  <2> QED
    BY <1>a, <2>1 DEF Effect, ActorEffect
<1>4. CASE PassVoice(w)
  <2>1. CommitsCall(w)
    BY <1>4 DEF PassVoice, CommitRow, CommitsCall, Ends, Rest
  <2> QED
    BY <2>1 DEF Effect, WorkerEffect
<1>5. CASE Confirm(w)
  <2>1. Confirms(w)
    BY <1>5 DEF Confirm, Confirms
  <2> QED
    BY <2>1 DEF Effect, WorkerEffect
<1> QED
  BY <1>1, <1>2, <1>3, <1>4, <1>5

(* The effects of a call's callback. *)
LEMMA StatusEffect ==
    ASSUME TypeOK, CallbackInHand, NEW w \in Workers, Status(w)
    PROVE  WorkerEffect(w) \/ ActorEffect(w)
<1> USE DEF inbox, phone, sms, crm, actor, ghost, callRows, smsRows
<1>a. w \in Actors
  BY DEF Actors
<1>b. /\ pc[w] \notin {"idle", "next"} /\ pc[w] \notin Rest
      /\ CallOf(w) \in Calls /\ LeadOf(w) \in Leads
      /\ Kind[task[w]] \in CallKinds /\ Kind[task[w]] # "stop"
  <2>1. pc[w] \notin {"idle", "next"} /\ pc[w] # "confirming"
    BY DEF Status, LoadCall, NoContact, CreateCall, ProbeConsent, RecordConsent, AttachRecording,
           Advance, Finalise, ProbeLogged, LogCall
  <2>2. Kind[task[w]] \in CallKinds
    BY DEF Status, LoadCall, NoContact, CreateCall, ProbeConsent, RecordConsent, AttachRecording,
           Advance, Finalise, ProbeLogged, LogCall, CallbackInHand, CallPlaces
  <2> QED
    BY <2>1, <2>2, Cast DEF Rest, CallKinds
<1>c. AfterCall(w) \in {"probing", "updating"}
  BY DEF AfterCall
<1>d. \A p \in {"resolving", "probing", "consenting", "updating"} : \A L : Entitled(w, p, L)
  BY <1>b DEF Entitled, PCs, Rest
<1>e. \A p \in {"resolving", "probing", "consenting", "updating", "attaching", "finalising", "logging"} :
          p \in PCs /\ p \notin Rest
  BY DEF PCs, Rest
<1>f. Rollback(w) => ActorEffect(w)
  BY DEF Rollback, GiveUp, ActorEffect, GivesUp, Stops
<1>1. CASE LoadCall(w)
  <2>1. PICK p \in {"resolving", "probing", "updating"} : Goto(w, p)
    BY <1>1, <1>c DEF LoadCall
  <2> QED
    BY <1>1, <1>a, <1>b, <1>d, <1>e, <2>1, GotoMoves DEF LoadCall
<1>2. CASE NoContact(w)
  <2>1. CommitsCall(w)
    BY <1>2, <1>b DEF NoContact, CommitRow, CommitsCall, Ends
  <2> QED
    BY <2>1 DEF WorkerEffect
<1>3. CASE CreateCall(w)
  <2>1. PICK p \in {"probing", "updating"} : Goto(w, p) \/ LockAndGoto(w, CallOf(w), p)
    BY <1>3, <1>c DEF CreateCall
  <2> QED
    BY <1>3, <1>a, <1>b, <1>d, <1>e, <2>1, GotoMoves DEF CreateCall
<1>4. CASE ProbeConsent(w)
  <2>1. CASE Goto(w, "attaching") /\ consents[CallOf(w)] > 0
    <3>1. Entitled(w, "attaching", holds[w])
      BY <1>b, <1>e, <2>1 DEF Entitled
    <3> QED
      BY <1>4, <1>a, <1>b, <1>e, <2>1, <3>1, GotoMoves DEF ProbeConsent
  <2>2. CASE Goto(w, "consenting")
    BY <1>4, <1>a, <1>b, <1>d, <1>e, <2>2, GotoMoves DEF ProbeConsent
  <2> QED
    BY <1>4, <2>1, <2>2 DEF ProbeConsent
<1>5. CASE RecordConsent(w)
  <2>1. CASE LockAndGoto(w, LeadOf(w), "attaching")
    <3>1. Entitled(w, "attaching", holds[w] \cup {LeadOf(w)})
      BY <1>b, <1>e DEF Entitled
    <3> QED
      BY <1>5, <1>a, <1>b, <1>e, <1>f, <2>1, <3>1, GotoMoves DEF RecordConsent
  <2> QED
    BY <1>5, <1>f, <2>1 DEF RecordConsent
<1>6. CASE AttachRecording(w)
  <2>1. status' = status \/ status' = [status EXCEPT ![CallOf(w)] = "open"]
    BY <1>6 DEF AttachRecording, TypeOK
  <2>2. Ends(w)
    BY <1>6, <1>b DEF AttachRecording, CommitRow, Ends
  <2>3. CommitsRecording(w)
    BY <1>6, <1>b, <2>1, <2>2 DEF AttachRecording, CommitsRecording
  <2> QED
    BY <2>3 DEF WorkerEffect
<1>7. CASE Advance(w)
  <2>1. CommitsCall(w)
    BY <1>7, <1>b DEF Advance, CommitRow, CommitsCall, Ends
  <2> QED
    BY <2>1 DEF WorkerEffect
<1>8. CASE Finalise(w)
  <2>1. Entitled(w, "finalising", holds[w] \cup {CallOf(w)})
    BY <1>b, <1>e DEF Entitled
  <2> QED
    BY <1>8, <1>a, <1>b, <1>e, <2>1, GotoMoves DEF Finalise
<1>9. CASE ProbeLogged(w)
  <2>1. CASE logs[CallOf(w)] > 0
    <3>1. CommitsCall(w)
      BY <1>9, <1>b, <2>1 DEF ProbeLogged, Finalised, CommitRow, CommitsCall, Ends
    <3> QED
      BY <3>1 DEF WorkerEffect
  <2>2. CASE ~(logs[CallOf(w)] > 0)
    <3>1. logs[CallOf(w)] = 0
      BY <1>b, <2>2 DEF TypeOK
    <3>2. Entitled(w, "logging", holds[w])
      BY <1>9, <1>b, <1>e, <3>1 DEF Entitled, ProbeLogged
    <3> QED
      BY <1>9, <1>a, <1>b, <1>e, <2>2, <3>2, GotoMoves DEF ProbeLogged
  <2> QED
    BY <2>1, <2>2
<1>10. CASE LogCall(w)
  <2>1. CASE ~Rollback(w)
    <3>1. logs' = [logs EXCEPT ![CallOf(w)] = @ + 1] /\ logs'[CallOf(w)] > 0
      BY <1>10, <1>b, <2>1 DEF LogCall, TypeOK
    <3>2. CommitsCall(w)
      BY <1>10, <1>b, <2>1, <3>1 DEF LogCall, Finalised, CommitRow, CommitsCall, Ends
    <3> QED
      BY <3>2 DEF WorkerEffect
  <2> QED
    BY <1>f, <2>1
<1> QED
  BY <1>1, <1>2, <1>3, <1>4, <1>5, <1>6, <1>7, <1>8, <1>9, <1>10 DEF Status

(* The effects of an sms. *)
LEMMA SmsEffect ==
    ASSUME TypeOK, NEW w \in Workers,
           \/ ReadSender(w) \/ LookUpSuppression(w) \/ InsertSuppression(w)
           \/ ReactivateSuppression(w) \/ RecordText(w)
    PROVE  WorkerEffect(w) \/ ActorEffect(w)
<1> USE DEF inbox, phone, sms, crm, actor, ghost, callRows, smsRows
<1>a. w \in Actors
  BY DEF Actors
<1>b. /\ pc[w] \notin Rest
      /\ NumberOf(task[w]) \in Numbers
      /\ Kind[task[w]] = "stop" => NumberOf(task[w]) = Subject[task[w]]
  <2>1. pc[w] \notin {"idle", "next"} /\ pc[w] # "confirming"
    BY DEF ReadSender, LookUpSuppression, InsertSuppression, ReactivateSuppression, RecordText
  <2> QED
    BY <2>1, Cast DEF Rest
<1>c. \A p \in {"suppressing", "inserting", "reactivating", "texting"} :
          p \in PCs /\ p \notin Rest /\ p \notin CallPlaces
  BY DEF PCs, Rest, CallPlaces
<1>d. \A p \in {"suppressing", "inserting", "reactivating"} : \A L : Entitled(w, p, L)
  BY <1>c DEF Entitled
<1>f. Rollback(w) => ActorEffect(w)
  BY DEF Rollback, GiveUp, ActorEffect, GivesUp, Stops
<1>1. CASE ReadSender(w)
  <2>1. CASE Kind[task[w]] = "text" /\ CommitRow(w)
    <3>1. CommitsText(w)
      BY <1>1, <1>b, <2>1 DEF ReadSender, CommitRow, CommitsText, Ends
    <3> QED
      BY <3>1 DEF WorkerEffect
  <2>2. CASE ~(Kind[task[w]] = "text" /\ CommitRow(w))
    <3>1. PICK p \in {"suppressing", "texting"} :
             /\ pc' = [pc EXCEPT ![w] = p]
             /\ p = "texting" => Kind[task[w]] # "stop"
             /\ UNCHANGED <<inbox, task, todo, holds>>
      BY <1>1, <2>2 DEF ReadSender
    <3>2. Entitled(w, p, holds[w] \cup {}) /\ holds' = [holds EXCEPT ![w] = @ \cup {}]
      BY <1>c, <3>1 DEF Entitled, TypeOK
    <3>3. Moves(w, p, {})
      BY <1>1, <1>b, <3>1, <3>2 DEF Moves, ReadSender
    <3> QED
      BY <1>c, <3>3 DEF ActorEffect
  <2> QED
    BY <2>1, <2>2
<1>2. CASE LookUpSuppression(w)
  <2>1. CASE Goto(w, "inserting") \/ Goto(w, "reactivating")
    BY <1>2, <1>a, <1>b, <1>c, <1>d, <2>1, GotoMoves DEF LookUpSuppression
  <2>2. CASE Goto(w, "texting") /\ suppression[NumberOf(task[w])] = "active"
    <3>1. Entitled(w, "texting", holds[w])
      BY <1>b, <1>c, <2>2 DEF Entitled
    <3> QED
      BY <1>2, <1>a, <1>b, <1>c, <2>2, <3>1, GotoMoves DEF LookUpSuppression
  <2>3. suppression[NumberOf(task[w])] \in {"never", "released", "active"}
    BY <1>b DEF TypeOK
  <2> QED
    BY <1>2, <2>1, <2>2, <2>3 DEF LookUpSuppression
<1>3. CASE (InsertSuppression(w) \/ ReactivateSuppression(w)) /\ ~Rollback(w)
  <2>1. Entitled(w, "texting", holds[w] \cup {NumberOf(task[w])})
    BY <1>b, <1>c DEF Entitled
  <2> QED
    BY <1>3, <1>a, <1>b, <1>c, <2>1, GotoMoves DEF InsertSuppression, ReactivateSuppression
<1>4. CASE RecordText(w) /\ ~Rollback(w)
  <2>1. texts' = texts \/ texts' = [texts EXCEPT ![task[w]] = @ + 1]
    BY <1>4 DEF RecordText, TypeOK
  <2>2. CASE Kind[task[w]] = "stop" /\ CommitStop(w)
    <3>1. CommitsStop(w)
      BY <1>4, <2>1, <2>2 DEF RecordText, CommitsStop
    <3> QED
      BY <3>1 DEF WorkerEffect
  <2>3. CASE Kind[task[w]] = "text" /\ CommitRow(w) /\ UNCHANGED suppression
    <3>1. CommitsText(w)
      BY <1>4, <1>b, <2>1, <2>3 DEF RecordText, CommitRow, CommitsText, Ends
    <3> QED
      BY <3>1 DEF WorkerEffect
  <2> QED
    BY <1>4, <2>2, <2>3 DEF RecordText
<1> QED
  BY <1>f, <1>3, <1>1, <1>2, <1>4

(* The effects of reps. *)
LEMMA RepEffect ==
    ASSUME TypeOK, NEW r \in Reps, (\E c \in Calls : DropVoicemail(r, c)) \/ Drop(r)
    PROVE  Effect
<1> USE DEF inbox, phone, sms, crm, actor, ghost, callRows, smsRows, places
<1>a. r \in Actors /\ {"overwriting", "noting"} \subseteq PCs
  BY DEF Actors, PCs
<1>f. Rollback(r) => ActorEffect(r)
  BY DEF Rollback, GiveUp, ActorEffect, GivesUp, Stops
<1>1. CASE \E c \in Calls : DropVoicemail(r, c)
  <2>1. \E c \in Calls : Picks(r, c)
    BY <1>1 DEF DropVoicemail, Picks
  <2> QED
    BY <2>1 DEF Effect
<1>2. CASE RecheckLogged(r)
  <2>1. Entitled(r, "overwriting", holds[r])
    BY <1>a DEF Entitled, Rest, CallPlaces
  <2>2. ActorEffect(r)
    BY <1>2, <1>a, <1>f, <2>1, GotoMoves DEF RecheckLogged, Rest
  <2> QED
    BY <1>a, <2>2 DEF Effect
<1>3. CASE OverwriteCall(r)
  <2>1. CallOf(r) \in Calls /\ pc[r] \notin Rest
    BY <1>3, Cast DEF OverwriteCall, Rest
  <2>2. Entitled(r, "noting", holds[r] \cup {CallOf(r)})
    BY <1>a DEF Entitled, Rest, CallPlaces
  <2>3. ActorEffect(r)
    BY <1>3, <1>a, <2>1, <2>2, GotoMoves DEF OverwriteCall
  <2> QED
    BY <1>a, <2>3 DEF Effect
<1>4. CASE RecordDrop(r)
  <2>1. CASE ~Rollback(r)
    <3>1. Drops(r)
      BY <1>4, <2>1 DEF RecordDrop, GiveUp, Drops, Stops
    <3> QED
      BY <3>1 DEF Effect
  <2> QED
    BY <1>a, <1>f, <2>1 DEF Effect
<1> QED
  BY <1>1, <1>2, <1>3, <1>4 DEF Drop

(* The effects of dials, the CRM and failures. *)
LEMMA WorldEffect ==
    ASSUME TypeOK,
           \/ \E e \in Events : Deliver(e)
           \/ \E c \in Calls : Dial(c) \/ InsertDialled(c)
           \/ \E l \in Leads : DeleteLead(l)
           \/ \E n \in Numbers : EditContact(n) \/ Release(n)
           \/ \E a \in Actors : Fail(a) \/ Abort(a)
    PROVE  Effect
<1> USE DEF inbox, phone, sms, crm, actor, ghost, callRows, smsRows, places, Effect
<1>1. CASE \/ \E e \in Events : Deliver(e)
           \/ \E c \in Calls : Dial(c)
           \/ \E l \in Leads : DeleteLead(l)
           \/ \E n \in Numbers : EditContact(n)
  BY <1>1 DEF Deliver, Dial, DeleteLead, EditContact, Quiet
<1>2. ASSUME NEW c \in Calls, InsertDialled(c) PROVE Effect
  <2>1. Quiet \/ Opens
    BY <1>2 DEF InsertDialled, Quiet, Opens
  <2> QED
    BY <2>1
<1>3. ASSUME NEW n \in Numbers, Release(n) PROVE Effect
  <2>1. Releases
    BY <1>3 DEF Release, Releases
  <2> QED
    BY <2>1
<1>4. ASSUME NEW a \in Actors, Fail(a) \/ Abort(a) PROVE Effect
  <2>1. ActorEffect(a)
    BY <1>4 DEF Fail, Abort, Rollback, GiveUp, ActorEffect, GivesUp, Stops
  <2> QED
    BY <2>1
<1> QED
  BY <1>1, <1>2, <1>3, <1>4

(* Every step has one of the effects. *)
LEMMA EffectOfStep ==
    ASSUME TypeOK, CallbackInHand, [Next]_vars
    PROVE  Effect
<1>1. CASE UNCHANGED vars
  BY <1>1 DEF vars, inbox, phone, sms, crm, actor, ghost, callRows, smsRows, places, Effect, Quiet
<1>2. ASSUME NEW w \in Workers, Sweep(w) \/ Process(w) PROVE Effect
  <2>1. WorkerEffect(w) \/ ActorEffect(w) => Effect
    BY DEF Effect, Actors
  <2> QED
    BY <1>2, <2>1, SweepEffect, StatusEffect, SmsEffect DEF Process, Sms
<1>3. CASE Next
  BY <1>2, <1>3, SweepEffect, RepEffect, WorldEffect DEF Next
<1> QED
  BY <1>1, <1>3

-----------------------------------------------------------------------------
(* The invariant is inductive: locks *)

(* Facts about places and the rows of the queue that every effect can use. *)
LEMMA Disjoint ==
    /\ \A w \in Workers : w \in Actors /\ w \notin Reps
    /\ \A r \in Reps : r \in Actors /\ r \notin Workers
    /\ Events \cap (Calls \cup Numbers \cup Leads) = {}
    /\ NoTask \notin Events
BY DisjointAssumption, CastAssumption DEF Actors

(* What a worker starts, takes, ends or confirms leaves the locks in order. *)
LEMMA WorkerLocks ==
    ASSUME TypeOK, LockInv, NEW w \in Workers, WorkerEffect(w)
    PROVE  LockInv'
<1> USE Disjoint DEF TypeOK, LockInv, Exclusive, RestHoldsNothing, OwnsRow, OneConfirmer,
                     CallbackInHand, CallPlaces, Rest, places
<1>1. CASE Starts(w)
  BY <1>1 DEF Starts
<1>2. CASE \E e \in Events : Claims(w, e)
  <2>1. PICK e \in Events : Claims(w, e)
    BY <1>2
  <2>2. Exclusive' /\ RestHoldsNothing'
    BY <2>1 DEF Claims, Free
  <2>3. OwnsRow'
    BY <2>1 DEF Claims
  <2>4. OneConfirmer' /\ CallbackInHand'
    BY <2>1 DEF Claims
  <2> QED
    BY <2>2, <2>3, <2>4
<1>3. CASE Ends(w)
  <2>1. Exclusive' /\ RestHoldsNothing'
    BY <1>3 DEF Ends
  <2>2. OwnsRow'
    BY <1>3 DEF Ends
  <2>3. OneConfirmer' /\ CallbackInHand'
    BY <1>3 DEF Ends
  <2> QED
    BY <2>1, <2>2, <2>3
<1>4. CASE CommitsStop(w)
  <2>1. Exclusive' /\ RestHoldsNothing'
    BY <1>4 DEF CommitsStop, CommitStop
  <2>2. OwnsRow'
    BY <1>4 DEF CommitsStop, CommitStop
  <2>3. OneConfirmer' /\ CallbackInHand'
    BY <1>4 DEF CommitsStop, CommitStop
  <2> QED
    BY <2>1, <2>2, <2>3
<1>5. CASE Confirms(w)
  BY <1>5 DEF Confirms
<1> QED
  BY <1>1, <1>2, <1>3, <1>4, <1>5 DEF WorkerEffect, CommitsCall, CommitsRecording, CommitsText

(* Every effect leaves the locks in order. *)
LEMMA LockStep ==
    ASSUME TypeOK, LockInv, Effect
    PROVE  LockInv'
<1> USE Disjoint DEF TypeOK, LockInv, Exclusive, RestHoldsNothing, OwnsRow, OneConfirmer,
                     CallbackInHand, CallPlaces, Rest, places
<1>1. CASE Quiet \/ Opens \/ Releases
  BY <1>1 DEF Quiet, Opens, Releases
<1>2. CASE \E w \in Workers : WorkerEffect(w)
  BY <1>2, WorkerLocks
<1>3. ASSUME NEW a \in Actors, NEW p \in PCs, NEW R \in SUBSET (Calls \cup Numbers \cup Leads), Moves(a, p, R)
      PROVE  LockInv'
  <2>1. Exclusive' /\ RestHoldsNothing'
    BY <1>3 DEF Moves, Entitled, Free
  <2>2. OwnsRow'
    BY <1>3 DEF Moves, Entitled
  <2>3. OneConfirmer' /\ CallbackInHand'
    BY <1>3 DEF Moves, Entitled
  <2> QED
    BY <2>1, <2>2, <2>3
<1>4. ASSUME NEW a \in Actors, Stops(a) PROVE LockInv'
  BY <1>4 DEF Stops
<1>5. ASSUME NEW r \in Reps, NEW c \in Calls, Picks(r, c) PROVE LockInv'
  BY <1>5 DEF Picks
<1> QED
  BY <1>1, <1>2, <1>3, <1>4, <1>5 DEF Effect, ActorEffect, GivesUp, Drops

-----------------------------------------------------------------------------
(* The invariant is inductive: calls *)

Logging == {"finalising", "logging", "noting"}

(* Locks and entries stay in order as long as no entry is added to a call   *)
(* that somebody else has locked.                                            *)
LEMMA LoggingFrame ==
    ASSUME TypeOK, LogsUnderLock, NEW a \in Actors,
           \A b \in Actors \ {a} : pc'[b] = pc[b] /\ task'[b] = task[b] /\ holds'[b] = holds[b],
           \A b \in Actors \ {a} : pc[b] = "logging" => logs'[CallOf(b)] = logs[CallOf(b)],
           pc'[a] \notin Logging
    PROVE  LogsUnderLock'
<1>1. \A b \in Actors \ {a} : CallOf(b)' = CallOf(b)
  BY DEF CallOf
<1>2. \A b \in Actors : pc'[b] \in Logging => b # a
  OBVIOUS
<1> QED
  BY <1>1, <1>2 DEF LogsUnderLock, Logging

(* Whoever holds a call is the only one about to log it. *)
LEMMA OneLogger ==
    ASSUME Exclusive, LogsUnderLock, NEW a \in Actors, NEW b \in Actors, a # b,
           pc[a] \in Logging, pc[b] \in Logging
    PROVE  CallOf(a) # CallOf(b)
BY DEF Exclusive, LogsUnderLock, Logging

(* What a worker commits keeps one entry per call. *)
LEMMA WorkerCalls ==
    ASSUME TypeOK, LockInv, CallInv, NEW w \in Workers, WorkerEffect(w)
    PROVE  CallInv'
<1>a. w \in Actors /\ \A x \in {"next", "claimed", "confirming"} : x \notin Logging
  BY Disjoint DEF Logging
<1>1. CASE Starts(w) \/ (\E e \in Events : Claims(w, e)) \/ CommitsText(w) \/ CommitsStop(w) \/ Confirms(w)
  <2>1. UNCHANGED callRows
    BY <1>1 DEF Starts, Claims, CommitsText, CommitsStop, Confirms
  <2>2. pc'[w] \notin Logging
    BY <1>1, <1>a DEF Starts, Claims, CommitsText, Ends, CommitsStop, CommitStop, Confirms, TypeOK
  <2>3. \A b \in Actors \ {w} : pc'[b] = pc[b] /\ task'[b] = task[b] /\ holds'[b] = holds[b]
    BY <1>1, <1>a DEF Starts, Claims, CommitsText, Ends, CommitsStop, CommitStop, Confirms, TypeOK
  <2>4. LogsUnderLock'
    BY <1>a, <2>1, <2>2, <2>3, LoggingFrame DEF CallInv, callRows
  <2> QED
    BY <2>1, <2>4 DEF CallInv, OneEntryPerCall, callRows
<1>2. CASE CommitsCall(w) \/ CommitsRecording(w)
  <2>1. /\ Ends(w) /\ dropped' = dropped /\ pc'[w] \notin Logging
        /\ \A b \in Actors \ {w} : pc'[b] = pc[b] /\ task'[b] = task[b] /\ holds'[b] = holds[b]
    BY <1>2, <1>a DEF CommitsCall, CommitsRecording, Ends, TypeOK
  <2>2. CASE logs' = logs /\ (status' = status \/ status' = [status EXCEPT ![CallOf(w)] = "open"])
    <3>1. LogsUnderLock'
      BY <1>a, <2>1, <2>2, LoggingFrame DEF CallInv
    <3> QED
      BY <2>1, <2>2, <3>1 DEF CallInv, OneEntryPerCall, TypeOK
  <2>3. CASE /\ logs' = logs /\ logs[CallOf(w)] > 0
             /\ status' = [status EXCEPT ![CallOf(w)] = "ended"]
    <3>1. LogsUnderLock'
      BY <1>a, <2>1, <2>3, LoggingFrame DEF CallInv
    <3> QED
      BY <2>1, <2>3, <3>1 DEF CallInv, OneEntryPerCall, TypeOK
  <2>4. CASE /\ pc[w] = "logging"
             /\ status' = [status EXCEPT ![CallOf(w)] = "ended"]
             /\ logs' = [logs EXCEPT ![CallOf(w)] = @ + 1]
    <3>1. logs[CallOf(w)] = 0
      BY <1>a, <2>4 DEF CallInv, LogsUnderLock
    <3>2. \A b \in Actors \ {w} : pc[b] = "logging" => logs'[CallOf(b)] = logs[CallOf(b)]
      <4>1. \A b \in Actors \ {w} : pc[b] = "logging" => CallOf(b) # CallOf(w)
        BY <1>a, <2>4, OneLogger DEF LockInv, CallInv, Logging
      <4> QED
        BY <2>4, <4>1 DEF TypeOK
    <3>3. LogsUnderLock'
      BY <1>a, <2>1, <3>2, LoggingFrame DEF CallInv
    <3>4. OneEntryPerCall'
      BY <2>1, <2>4, <3>1 DEF CallInv, OneEntryPerCall, TypeOK
    <3> QED
      BY <3>3, <3>4 DEF CallInv
  <2> QED
    BY <1>2, <2>2, <2>3, <2>4 DEF CommitsCall, CommitsRecording
<1> QED
  BY <1>1, <1>2 DEF WorkerEffect

(* Every effect keeps one entry per call. *)
LEMMA CallStep ==
    ASSUME TypeOK, LockInv, CallInv, Effect
    PROVE  CallInv'
<1>1. CASE Quiet \/ Releases
  BY <1>1 DEF Quiet, Releases, callRows, places, CallInv, LogsUnderLock, CallOf, OneEntryPerCall
<1>2. CASE Opens
  <2>1. LogsUnderLock'
    BY <1>2 DEF Opens, places, CallInv, LogsUnderLock, CallOf
  <2>2. OneEntryPerCall'
    BY <1>2 DEF Opens, CallInv, OneEntryPerCall, TypeOK
  <2> QED
    BY <2>1, <2>2 DEF CallInv
<1>3. ASSUME NEW w \in Workers, WorkerEffect(w) PROVE CallInv'
  BY <1>3, WorkerCalls
<1>4. ASSUME NEW a \in Actors, NEW p \in PCs, NEW R \in SUBSET (Calls \cup Numbers \cup Leads), Moves(a, p, R)
      PROVE  CallInv'
  <2>1. UNCHANGED <<callRows, task>>
    BY <1>4 DEF Moves
  <2>2. /\ pc'[a] = p /\ holds'[a] = holds[a] \cup R
        /\ \A b \in Actors \ {a} : pc'[b] = pc[b] /\ holds'[b] = holds[b]
    BY <1>4 DEF Moves, TypeOK
  <2>3. \A b \in Actors : CallOf(b)' = CallOf(b)
    BY <2>1 DEF CallOf
  <2>4. LogsUnderLock'
    BY <1>4, <2>1, <2>2, <2>3 DEF Moves, Entitled, CallInv, LogsUnderLock, callRows
  <2> QED
    BY <2>1, <2>4 DEF CallInv, OneEntryPerCall, callRows
<1>5. ASSUME NEW a \in Actors, GivesUp(a) PROVE CallInv'
  <2>1. UNCHANGED callRows
    BY <1>5 DEF GivesUp
  <2>2. /\ pc'[a] \notin Logging
        /\ \A b \in Actors \ {a} : pc'[b] = pc[b] /\ task'[b] = task[b] /\ holds'[b] = holds[b]
    BY <1>5 DEF GivesUp, Stops, TypeOK, Logging
  <2>3. LogsUnderLock'
    BY <2>1, <2>2, LoggingFrame DEF CallInv, callRows
  <2> QED
    BY <2>1, <2>3 DEF CallInv, OneEntryPerCall, callRows
<1>6. ASSUME NEW r \in Reps, NEW c \in Calls, Picks(r, c) PROVE CallInv'
  <2>1. UNCHANGED callRows
    BY <1>6 DEF Picks
  <2>2. /\ pc'[r] \notin Logging
        /\ \A b \in Actors \ {r} : pc'[b] = pc[b] /\ task'[b] = task[b] /\ holds'[b] = holds[b]
    BY <1>6, Disjoint DEF Picks, TypeOK, Logging
  <2>3. LogsUnderLock'
    BY <2>1, <2>2, Disjoint, LoggingFrame DEF CallInv, callRows
  <2> QED
    BY <2>1, <2>3 DEF CallInv, OneEntryPerCall, callRows
<1>7. ASSUME NEW r \in Reps, Drops(r) PROVE CallInv'
  <2>1. /\ r \in Actors /\ pc'[r] \notin Logging /\ pc[r] \in Logging
        /\ \A b \in Actors \ {r} : pc'[b] = pc[b] /\ task'[b] = task[b] /\ holds'[b] = holds[b]
    BY <1>7, Disjoint DEF Drops, Stops, TypeOK, Logging
  <2>2. \A b \in Actors \ {r} : pc[b] = "logging" => logs'[CallOf(b)] = logs[CallOf(b)]
    <3>1. \A b \in Actors \ {r} : pc[b] = "logging" => CallOf(b) # CallOf(r)
      BY <2>1, OneLogger DEF LockInv, CallInv, Logging
    <3> QED
      BY <1>7, <3>1 DEF Drops, TypeOK
  <2>3. LogsUnderLock'
    BY <2>1, <2>2, LoggingFrame DEF CallInv
  <2>4. OneEntryPerCall'
    BY <1>7 DEF Drops, CallInv, OneEntryPerCall, TypeOK
  <2> QED
    BY <2>3, <2>4 DEF CallInv
<1> QED
  BY <1>1, <1>2, <1>3, <1>4, <1>5, <1>6, <1>7 DEF Effect, ActorEffect

-----------------------------------------------------------------------------
(* The invariant is inductive: sms, STOPs and consent *)

(* Every effect records and confirms an sms once. *)
LEMMA SmsStep ==
    ASSUME TypeOK, LockInv, SmsInv, Effect
    PROVE  SmsInv'
<1> USE Disjoint DEF TypeOK, SmsInv, Unconfirmed, SmsExactlyOnce, smsRows, places
<1>1. CASE Quiet \/ Opens \/ Releases
  BY <1>1 DEF Quiet, Opens, Releases
<1>2. ASSUME NEW w \in Workers, Starts(w) \/ \E e \in Events : Claims(w, e) PROVE SmsInv'
  BY <1>2 DEF Starts, Claims
<1>3. ASSUME NEW w \in Workers, CommitsCall(w) \/ CommitsRecording(w) PROVE SmsInv'
  BY <1>3 DEF CommitsCall, CommitsRecording, Ends
<1>4. ASSUME NEW w \in Workers, CommitsText(w) PROVE SmsInv'
  <2>1. task[w] \in Events /\ task[w] \notin done /\ texts[task[w]] = 0
    <3>1. task[w] \in Events /\ task[w] \notin done
      BY <1>4 DEF CommitsText, Ends, LockInv, OwnsRow, Rest
    <3>2. ~(texts[task[w]] + confirmed[task[w]] > 0)
          /\ texts[task[w]] \in Nat /\ confirmed[task[w]] \in Nat
      BY <3>1
    <3>3. \A x, y \in Nat : ~(x + y > 0) => x = 0 /\ y = 0
      OBVIOUS
    <3> QED
      BY ONLY <3>1, <3>2, <3>3
  <2>2. Unconfirmed'
    BY <1>4 DEF CommitsText, Ends
  <2>3. SmsExactlyOnce'
    BY <1>4, <2>1 DEF CommitsText, Ends
  <2> QED
    BY <2>2, <2>3
<1>5. ASSUME NEW w \in Workers, CommitsStop(w) PROVE SmsInv'
  <2>1. task[w] \in Events /\ task[w] \notin done /\ texts[task[w]] = 0 /\ confirmed[task[w]] = 0
    <3>1. task[w] \in Events /\ task[w] \notin done
      BY <1>5 DEF CommitsStop, LockInv, OwnsRow, Rest
    <3>2. ~(texts[task[w]] + confirmed[task[w]] > 0)
          /\ texts[task[w]] \in Nat /\ confirmed[task[w]] \in Nat
      BY <3>1
    <3>3. \A x, y \in Nat : ~(x + y > 0) => x = 0 /\ y = 0
      OBVIOUS
    <3> QED
      BY ONLY <3>1, <3>2, <3>3
  <2>2. Unconfirmed'
    BY <1>5, <2>1 DEF CommitsStop, CommitStop
  <2>3. SmsExactlyOnce'
    BY <1>5, <2>1 DEF CommitsStop, CommitStop
  <2> QED
    BY <2>2, <2>3
<1>6. ASSUME NEW w \in Workers, Confirms(w) PROVE SmsInv'
  <2>1. task[w] \in Events /\ task[w] \in done /\ confirmed[task[w]] = 0
    BY <1>6 DEF Confirms, LockInv, OneConfirmer
  <2>2. \A v \in Workers \ {w} : pc[v] = "confirming" => task[v] # task[w]
    BY <1>6 DEF Confirms, LockInv, OneConfirmer
  <2>3. Unconfirmed'
    BY <1>6, <2>1, <2>2 DEF Confirms
  <2>4. SmsExactlyOnce'
    BY <1>6, <2>1 DEF Confirms
  <2> QED
    BY <2>3, <2>4
<1>7. ASSUME NEW a \in Actors, NEW p \in PCs, NEW R \in SUBSET (Calls \cup Numbers \cup Leads), Moves(a, p, R)
      PROVE  SmsInv'
  BY <1>7 DEF Moves, Entitled, Rest
<1>8. ASSUME NEW a \in Actors, Stops(a), UNCHANGED smsRows PROVE SmsInv'
  BY <1>8 DEF Stops
<1>9. ASSUME NEW r \in Reps, NEW c \in Calls, Picks(r, c) PROVE SmsInv'
  BY <1>9 DEF Picks
<1> QED
  BY <1>1, <1>2, <1>3, <1>4, <1>5, <1>6, <1>7, <1>8, <1>9
  DEF Effect, WorkerEffect, ActorEffect, GivesUp, Drops

(* Every effect honours the STOPs. *)
LEMMA StopStep ==
    ASSUME TypeOK, LockInv, StopInv, Effect
    PROVE  StopInv'
<1> USE Disjoint DEF TypeOK, StopInv, StopInHand, StopIsHonoured, smsRows, places
<1>1. CASE Quiet \/ Opens
  BY <1>1 DEF Quiet, Opens
<1>2. CASE Releases
  <2>1. PICK n \in Numbers :
           /\ \A a \in Actors : n \notin holds[a]
           /\ suppression' = [suppression EXCEPT ![n] = "released"]
           /\ pardoned' = pardoned \cup
                 {e \in Events : /\ Kind[e] = "stop"
                                 /\ Subject[e] = n
                                 /\ e \in done \/ \E w \in Workers : task[w] = e /\ pc[w] = "texting"}
    BY <1>2 DEF Releases
  <2>2. StopInHand'
    BY <1>2, <2>1 DEF Releases
  <2>3. StopIsHonoured'
    BY <1>2, <2>1 DEF Releases
  <2> QED
    BY <2>2, <2>3
<1>3. ASSUME NEW w \in Workers, Starts(w) \/ (\E e \in Events : Claims(w, e)) \/ Confirms(w) PROVE StopInv'
  BY <1>3 DEF Starts, Claims, Confirms
<1>4. ASSUME NEW w \in Workers, Ends(w), Kind[task[w]] # "stop", UNCHANGED <<suppression, pardoned>>
      PROVE  StopInv'
  BY <1>4 DEF Ends
<1>5. ASSUME NEW w \in Workers, CommitsStop(w) PROVE StopInv'
  <2>1. \A n \in Numbers : suppression'[n] = IF n \in holds[w] THEN "active" ELSE suppression[n]
    BY <1>5 DEF CommitsStop, CommitStop
  <2>2. task[w] \in Events /\ Subject[task[w]] \in Numbers
    BY <1>5, CastAssumption DEF CommitsStop, CallKinds
  <2>3. StopInHand'
    <3> SUFFICES ASSUME NEW v \in Workers, pc'[v] = "texting", Kind[task'[v]] = "stop"
                 PROVE  \/ Subject[task'[v]] \in holds'[v]
                        \/ suppression'[Subject[task'[v]]] = "active"
                        \/ task'[v] \in pardoned'
      OBVIOUS
    <3>1. v # w /\ pc[v] = "texting" /\ task'[v] = task[v] /\ holds'[v] = holds[v]
      BY <1>5 DEF CommitsStop, CommitStop
    <3>2. Subject[task[v]] \in Numbers
      BY <3>1, CastAssumption DEF CallKinds
    <3> QED
      BY <1>5, <2>1, <3>1, <3>2 DEF CommitsStop
  <2>4. StopIsHonoured'
    <3> SUFFICES ASSUME NEW e \in done', Kind[e] = "stop"
                 PROVE  suppression'[Subject[e]] = "active" \/ e \in pardoned'
      OBVIOUS
    <3>1. done' = done \cup {task[w]} /\ pardoned' = pardoned
      BY <1>5 DEF CommitsStop, CommitStop
    <3>2. e \in Events /\ Subject[e] \in Numbers
      BY <2>2, <3>1, CastAssumption DEF CallKinds
    <3> QED
      BY <1>5, <2>1, <3>1, <3>2 DEF CommitsStop
  <2> QED
    BY <2>3, <2>4
<1>6. ASSUME NEW a \in Actors, NEW p \in PCs, NEW R \in SUBSET (Calls \cup Numbers \cup Leads), Moves(a, p, R)
      PROVE  StopInv'
  BY <1>6 DEF Moves, Entitled, Rest
<1>7. ASSUME NEW a \in Actors, Stops(a), UNCHANGED smsRows PROVE StopInv'
  BY <1>7 DEF Stops
<1>8. ASSUME NEW r \in Reps, NEW c \in Calls, Picks(r, c) PROVE StopInv'
  BY <1>8 DEF Picks
<1> QED
  BY <1>1, <1>2, <1>3, <1>4, <1>5, <1>6, <1>7, <1>8
  DEF Effect, WorkerEffect, ActorEffect, GivesUp, Drops, CommitsCall, CommitsRecording, CommitsText

(* A step after which the refs that were there are still accounted for. *)
RefsStand ==
    /\ \A c \in Calls : consents[c] > 0 => consents'[c] > 0
    /\ \A c \in Calls : logs[c] > 0 => logs'[c] > 0
    /\ dropped \subseteq dropped'

(* A ref that a step writes has its marker or its entry, and the others keep theirs. *)
LEMMA RefWritten ==
    ASSUME TypeOK, ConsentBeforeRecording, RefsStand, NEW d \in Calls,
           \/ ref' = ref
           \/ ref' = [ref EXCEPT ![d] = "recording"] /\ consents'[d] > 0
           \/ ref' = [ref EXCEPT ![d] = "message"] /\ d \notin Outbound /\ logs'[d] > 0
           \/ ref' = [ref EXCEPT ![d] = "drop"] /\ d \in dropped'
    PROVE  ConsentBeforeRecording'
<1> SUFFICES ASSUME NEW c \in Calls, ref'[c] # "none"
             PROVE  \/ consents'[c] > 0
                    \/ ref'[c] = "message" /\ c \notin Outbound /\ logs'[c] > 0
                    \/ ref'[c] = "drop" /\ c \in dropped'
  BY DEF ConsentBeforeRecording
<1>1. CASE ref'[c] = ref[c]
  BY <1>1 DEF ConsentBeforeRecording, RefsStand
<1>2. CASE ref'[c] # ref[c]
  BY <1>2 DEF TypeOK
<1> QED
  BY <1>1, <1>2

(* Who was about to attach a recording still is entitled to. *)
LEMMA ConsentFrame ==
    ASSUME TypeOK, LockInv, ConsentInHand, NEW a \in Actors, pc'[a] # "attaching",
           \A c \in Calls : consents[c] > 0 => consents'[c] > 0,
           \A b \in Actors \ {a} : pc'[b] = pc[b] /\ task'[b] = task[b] /\ holds'[b] = holds[b]
    PROVE  ConsentInHand'
<1> SUFFICES ASSUME NEW v \in Workers, pc'[v] = "attaching"
             PROVE  (Marks(v) \/ consents[CallOf(v)] > 0)'
  BY DEF ConsentInHand
<1>1. v \in Actors \ {a} /\ pc[v] = "attaching" /\ task'[v] = task[v] /\ holds'[v] = holds[v]
  BY Disjoint
<1>2. CallOf(v)' = CallOf(v) /\ LeadOf(v)' = LeadOf(v)
  BY <1>1 DEF CallOf, LeadOf
<1>3. CallOf(v) \in Calls
  BY <1>1, Cast DEF LockInv, CallbackInHand, CallPlaces
<1> QED
  BY <1>1, <1>2, <1>3 DEF ConsentInHand, Marks

(* Every effect leaves a consent marker before a recording. *)
LEMMA ConsentStep ==
    ASSUME TypeOK, LockInv, ConsentInv, Effect
    PROVE  ConsentInv'
<1> USE Disjoint
<1>r. UNCHANGED <<consents, logs, dropped>> => RefsStand
  BY DEF RefsStand
<1>s. UNCHANGED callRows => ConsentBeforeRecording'
  BY DEF callRows, ConsentInv, ConsentBeforeRecording
<1>1. CASE Quiet \/ Opens \/ Releases
  BY <1>1 DEF Quiet, Opens, Releases, CallOf, LeadOf, ConsentInv, ConsentInHand, ConsentBeforeRecording,
     Marks, callRows, places
<1>2. ASSUME NEW w \in Workers, WorkerEffect(w), ~CommitsRecording(w), ~CommitsCall(w) PROVE ConsentInv'
  <2>1. UNCHANGED callRows
    BY <1>2 DEF WorkerEffect, Starts, Claims, CommitsText, CommitsStop, Confirms
  <2>2. /\ pc'[w] # "attaching"
        /\ \A v \in Actors \ {w} : pc'[v] = pc[v] /\ task'[v] = task[v] /\ holds'[v] = holds[v]
    BY <1>2 DEF TypeOK, WorkerEffect, Starts, Claims, CommitsText, Ends, CommitsStop, CommitStop, Confirms
  <2> QED
    BY <1>s, <2>1, <2>2, ConsentFrame DEF ConsentInv, callRows
<1>3. ASSUME NEW w \in Workers, CommitsRecording(w) PROVE ConsentInv'
  <2>1. /\ pc'[w] # "attaching"
        /\ \A v \in Actors \ {w} : pc'[v] = pc[v] /\ task'[v] = task[v] /\ holds'[v] = holds[v]
    BY <1>3 DEF TypeOK, CommitsRecording, Ends
  <2>2. CallOf(w) \in Calls /\ (Marks(w) \/ consents[CallOf(w)] > 0)
    BY <1>3, Cast DEF CommitsRecording, LockInv, CallbackInHand, CallPlaces, ConsentInv, ConsentInHand
  <2>3. consents'[CallOf(w)] > 0 /\ \A c \in Calls : consents[c] > 0 => consents'[c] > 0
    <3>1. CASE Marks(w)
      BY <1>3, <2>2, <3>1 DEF CommitsRecording, TypeOK
    <3>2. CASE ~Marks(w)
      BY <1>3, <2>2, <3>2 DEF CommitsRecording, TypeOK
    <3> QED
      BY <3>1, <3>2
  <2>4. RefsStand /\ (ref' = ref \/ ref' = [ref EXCEPT ![CallOf(w)] = "recording"])
    BY <1>3, <2>3 DEF CommitsRecording, RefsStand
  <2>5. ConsentBeforeRecording'
    BY <2>2, <2>3, <2>4, RefWritten DEF ConsentInv
  <2> QED
    BY <2>1, <2>3, <2>5, ConsentFrame DEF ConsentInv
<1>4. ASSUME NEW w \in Workers, CommitsCall(w) PROVE ConsentInv'
  <2>1. /\ pc'[w] # "attaching"
        /\ \A v \in Actors \ {w} : pc'[v] = pc[v] /\ task'[v] = task[v] /\ holds'[v] = holds[v]
    BY <1>4 DEF TypeOK, CommitsCall, Ends
  <2>2. RefsStand
    BY <1>4 DEF CommitsCall, RefsStand, TypeOK
  <2>3. CASE ref' = ref
    <3>1. ConsentBeforeRecording'
      BY <2>2, <2>3 DEF RefsStand, ConsentInv, ConsentBeforeRecording
    <3> QED
      BY <1>4, <2>1, <3>1, ConsentFrame DEF ConsentInv, CommitsCall
  <2>4. CASE ref' # ref
    <3>1. /\ ref' = [ref EXCEPT ![CallOf(w)] = "message"]
          /\ logs'[CallOf(w)] > 0 /\ Kind[task[w]] = "message" /\ pc[w] \notin Rest
      BY <1>4, <2>4 DEF CommitsCall, Ends
    <3>2. CallOf(w) \in Calls /\ CallOf(w) \notin Outbound
      BY <3>1, Cast, CastAssumption DEF Rest, CallKinds, Kinds
    <3>3. ConsentBeforeRecording'
      BY <2>2, <3>1, <3>2, RefWritten DEF ConsentInv
    <3> QED
      BY <1>4, <2>1, <3>3, ConsentFrame DEF ConsentInv, CommitsCall
  <2> QED
    BY <2>3, <2>4
<1>5. ASSUME NEW a \in Actors, NEW p \in PCs, NEW R \in SUBSET (Calls \cup Numbers \cup Leads), Moves(a, p, R)
      PROVE  ConsentInv'
  <2>1. \A b \in Actors : CallOf(b)' = CallOf(b) /\ LeadOf(b)' = LeadOf(b)
    BY <1>5 DEF Moves, CallOf, LeadOf
  <2>2. ConsentInHand'
    BY <1>5, <2>1 DEF Moves, Entitled, Rest, TypeOK, ConsentInv, ConsentInHand, Marks, callRows
  <2> QED
    BY <1>5, <1>s, <2>2 DEF Moves, ConsentInv
<1>6. ASSUME NEW a \in Actors, GivesUp(a) PROVE ConsentInv'
  <2>1. /\ pc'[a] # "attaching"
        /\ \A v \in Actors \ {a} : pc'[v] = pc[v] /\ task'[v] = task[v] /\ holds'[v] = holds[v]
    BY <1>6 DEF TypeOK, GivesUp, Stops
  <2> QED
    BY <1>6, <1>s, <2>1, ConsentFrame DEF ConsentInv, GivesUp, callRows
<1>7. ASSUME NEW r \in Reps, NEW c \in Calls, Picks(r, c) PROVE ConsentInv'
  <2>1. /\ pc'[r] # "attaching"
        /\ \A v \in Actors \ {r} : pc'[v] = pc[v] /\ task'[v] = task[v] /\ holds'[v] = holds[v]
    BY <1>7 DEF TypeOK, Picks
  <2> QED
    BY <1>7, <1>s, <2>1, ConsentFrame DEF ConsentInv, Picks, callRows
<1>8. ASSUME NEW r \in Reps, Drops(r) PROVE ConsentInv'
  <2>1. /\ pc'[r] # "attaching" /\ pc[r] = "noting" /\ UNCHANGED consents
        /\ \A v \in Actors \ {r} : pc'[v] = pc[v] /\ task'[v] = task[v] /\ holds'[v] = holds[v]
    BY <1>8 DEF TypeOK, Drops, Stops
  <2>2. CallOf(r) \in Calls
    BY <2>1, Cast
  <2>3. RefsStand /\ ref' = [ref EXCEPT ![CallOf(r)] = "drop"] /\ CallOf(r) \in dropped'
    BY <1>8 DEF Drops, RefsStand, TypeOK
  <2>4. ConsentBeforeRecording'
    BY <2>2, <2>3, RefWritten DEF ConsentInv
  <2> QED
    BY <2>1, <2>4, ConsentFrame DEF ConsentInv
<1> QED
  BY <1>1, <1>2, <1>3, <1>4, <1>5, <1>6, <1>7, <1>8 DEF Effect, ActorEffect

-----------------------------------------------------------------------------
(* The invariant for the serial inbox *)

\* What is taken, or on somebody's list, is in the inbox.
StoredInHand ==
    /\ woken \subseteq Stored
    /\ \A w \in Workers : todo[w] \subseteq Stored
    /\ \A w \in Workers : pc[w] \notin {"idle", "next"} => task[w] \in Stored

\* Each place is for callbacks of one kind, and a worker locks no number but its STOP's.
KindInHand ==
    \A w \in Workers :
        /\ pc[w] \in {"probing", "consenting", "attaching"} => Kind[task[w]] \in Recordings
        /\ pc[w] \in {"finalising", "logging"} => Kind[task[w]] \in Terminals
        /\ pc[w] \in {"suppressing", "inserting", "reactivating", "confirming"} => Kind[task[w]] = "stop"
        /\ pc[w] = "texting" /\ Kind[task[w]] # "stop" => matched[w]
        /\ \A n \in Numbers : n \in holds[w] => Kind[task[w]] = "stop" /\ n = Subject[task[w]]

\* A locked lead is not deleted, and only outbound calls are dialled.
LeadsHeldAreLive == \A a \in Actors : \A l \in Leads : l \in holds[a] => l \notin deleted
OutboundOnly == \A c \in Calls : dialled[c] # "no" => c \in Outbound

\* Only who records a marker keeps a lead locked; it found no marker, or the call is crowded.
LeadsForMarks == \A a \in Actors : \A l \in Leads : l \in holds[a] => pc[a] = "attaching"
FirstMarks ==
    \A w \in Workers : Marking(w) =>
        /\ consents[CallOf(w)] = 0 \/ CallOf(w) \in crowded
        /\ \A v \in Workers \ {w} : Marking(v) /\ CallOf(v) = CallOf(w) => CallOf(w) \in crowded

MarkInv == LeadsForMarks /\ FirstMarks

SerialInv == StoredInHand /\ KindInHand /\ LeadsHeldAreLive /\ OutboundOnly /\ MarkInv

(* Every step keeps what is at hand stored. *)
LEMMA StoredStep ==
    ASSUME TypeOK, StoredInHand, StoredFinite, [Next]_vars
    PROVE  StoredInHand'
<1> USE Disjoint DEF StoredInHand, Stored
<1>1. ASSUME NEW e \in Events, Deliver(e) PROVE StoredInHand'
  <2>1. Cardinality(Stored) \in Nat
    BY FS_CardinalityType DEF StoredFinite
  <2>2. rank'[e] > 0 /\ \A f \in Events \ {e} : rank'[f] = rank[f]
    BY <1>1, <2>1 DEF Deliver, TypeOK
  <2>3. UNCHANGED <<pc, task, todo>> /\ woken' = woken \cup {e}
    BY <1>1 DEF Deliver, actor
  <2> QED
    BY <2>2, <2>3 DEF TypeOK
<1>2. ASSUME NEW w \in Workers,
             \/ \E e \in Events : Wake(w, e)
             \/ Sweep(w) \/ Claim(w)
      PROVE  StoredInHand'
  BY <1>2 DEF TypeOK, Wake, Sweep, Claim, Unprocessed, inbox
<1>3. ASSUME NEW w \in Workers, Finish(w) \/ PassVoice(w) \/ Confirm(w) PROVE StoredInHand'
  BY <1>3 DEF TypeOK, Finish, Rollback, GiveUp, PassVoice, CommitRow, Confirm, inbox
<1>4. ASSUME NEW w \in Workers, Status(w) PROVE StoredInHand'
  <2>1. CASE CommitRow(w) \/ Rollback(w)
    BY <2>1 DEF TypeOK, CommitRow, Rollback, GiveUp, inbox
  <2>2. CASE ~CommitRow(w) /\ ~Rollback(w)
    <3>1. UNCHANGED <<task, todo, inbox>> /\ \A v \in Workers \ {w} : pc'[v] = pc[v]
      BY <1>4, <2>2 DEF TypeOK, Status, LoadCall, NoContact, CreateCall, ProbeConsent, RecordConsent,
         AttachRecording, Advance, Finalise, ProbeLogged, LogCall, Goto, LockAndGoto
    <3>2. pc[w] \notin {"idle", "next"}
      BY <1>4 DEF Status, LoadCall, NoContact, CreateCall, ProbeConsent, RecordConsent, AttachRecording,
         Advance, Finalise, ProbeLogged, LogCall
    <3> QED
      BY <3>1, <3>2 DEF inbox
  <2> QED
    BY <2>1, <2>2
<1>5. ASSUME NEW w \in Workers,
           \/ ReadSender(w) \/ LookUpSuppression(w) \/ InsertSuppression(w)
           \/ ReactivateSuppression(w) \/ RecordText(w)
      PROVE  StoredInHand'
  <2>0. pc[w] \notin {"idle", "next"}
    BY <1>5 DEF ReadSender, LookUpSuppression, InsertSuppression, ReactivateSuppression, RecordText
  <2>1. CASE CommitRow(w) \/ Rollback(w)
    BY <2>1 DEF TypeOK, CommitRow, Rollback, GiveUp, inbox
  <2>2. CASE ~CommitRow(w) /\ ~Rollback(w)
    <3>1. UNCHANGED <<task, todo, rank, woken>> /\ \A v \in Workers \ {w} : pc'[v] = pc[v]
      BY <1>5, <2>2 DEF TypeOK, ReadSender, LookUpSuppression, InsertSuppression, ReactivateSuppression,
         RecordText, CommitStop, Goto, LockAndGoto, inbox
    <3> QED
      BY <2>0, <3>1
  <2> QED
    BY <2>1, <2>2
<1>6. ASSUME NEW r \in Reps, (\E c \in Calls : DropVoicemail(r, c)) \/ Drop(r) PROVE StoredInHand'
  BY <1>6 DEF TypeOK, Drop, DropVoicemail, RecheckLogged, OverwriteCall, RecordDrop, Goto, LockAndGoto,
     Rollback, GiveUp, inbox
<1>7. CASE \/ \E c \in Calls : Dial(c) \/ InsertDialled(c)
           \/ \E l \in Leads : DeleteLead(l)
           \/ \E n \in Numbers : EditContact(n) \/ Release(n)
           \/ \E a \in Actors : Fail(a) \/ Abort(a)
           \/ UNCHANGED vars
  BY <1>7 DEF TypeOK, Dial, InsertDialled, DeleteLead, EditContact, Release, Fail, Abort, Rollback, GiveUp,
     inbox, actor, vars
<1> QED
  BY <1>1, <1>2, <1>3, <1>4, <1>5, <1>6, <1>7 DEF Next, Process, Sms

(* Every step takes a callback only to the places of its kind. *)
LEMMA KindStep ==
    ASSUME TypeOK, LockInv, KindInHand, [Next]_vars
    PROVE  KindInHand'
<1> USE Disjoint DEF KindInHand
<1>2. ASSUME NEW w \in Workers,
             \/ \E e \in Events : Wake(w, e)
             \/ Sweep(w) \/ Claim(w)
      PROVE  KindInHand'
  BY <1>2 DEF TypeOK, Wake, Sweep, Claim, inbox
<1>3. ASSUME NEW w \in Workers, Finish(w) \/ PassVoice(w) \/ Confirm(w) PROVE KindInHand'
  BY <1>3 DEF TypeOK, Finish, Rollback, GiveUp, PassVoice, CommitRow, Confirm, inbox, LockInv,
     RestHoldsNothing, Rest
<1>4. ASSUME NEW w \in Workers, Status(w) PROVE KindInHand'
  <2>1. Kind[task[w]] \in CallKinds /\ LeadOf(w) \in Leads /\ CallOf(w) \in Calls
    <3>1. pc[w] \notin {"idle", "next"}
      BY <1>4 DEF Status, LoadCall, NoContact, CreateCall, ProbeConsent, RecordConsent, AttachRecording,
           Advance, Finalise, ProbeLogged, LogCall
    <3>2. Kind[task[w]] \in CallKinds
      BY <1>4 DEF Status, LoadCall, NoContact, CreateCall, ProbeConsent, RecordConsent, AttachRecording,
           Advance, Finalise, ProbeLogged, LogCall, CallbackInHand, CallPlaces, LockInv
    <3> QED
      BY <3>1, <3>2, Cast
  <2>2. LeadOf(w) \notin Numbers /\ CallOf(w) \notin Numbers
    BY <2>1, DisjointAssumption
  <2>3. CASE CommitRow(w) \/ Rollback(w)
    BY <2>3 DEF TypeOK, CommitRow, Rollback, GiveUp
  <2>4. CASE LoadCall(w) \/ CreateCall(w)
    BY <2>1, <2>2, <2>3, <2>4 DEF TypeOK, LoadCall, CreateCall, Goto, LockAndGoto, AfterCall, CallKinds,
       Kinds, Recordings
  <2>5. CASE ProbeConsent(w) \/ RecordConsent(w)
    BY <2>1, <2>2, <2>3, <2>5 DEF TypeOK, ProbeConsent, RecordConsent, Goto, LockAndGoto
  <2>6. CASE Finalise(w) \/ ProbeLogged(w)
    BY <2>1, <2>2, <2>3, <2>6 DEF TypeOK, Finalise, ProbeLogged, Goto, LockAndGoto
  <2>7. CASE NoContact(w) \/ AttachRecording(w) \/ Advance(w) \/ LogCall(w)
    BY <2>3, <2>7 DEF NoContact, AttachRecording, Advance, LogCall
  <2> QED
    BY <1>4, <2>4, <2>5, <2>6, <2>7 DEF Status
<1>5. ASSUME NEW w \in Workers,
           \/ ReadSender(w) \/ LookUpSuppression(w) \/ InsertSuppression(w)
           \/ ReactivateSuppression(w) \/ RecordText(w)
      PROVE  KindInHand'
  <2>1. pc[w] \notin {"idle", "next"}
    BY <1>5 DEF ReadSender, LookUpSuppression, InsertSuppression, ReactivateSuppression, RecordText
  <2>2. /\ w \in Actors /\ NumberOf(task[w]) \in Numbers /\ LeadOf(w) \notin Numbers
        /\ Kind[task[w]] = "stop" => NumberOf(task[w]) = Subject[task[w]]
    BY <2>1, Cast, DisjointAssumption
  <2>3. CASE CommitRow(w) \/ Rollback(w)
    BY <2>2, <2>3 DEF TypeOK, CommitRow, Rollback, GiveUp
  <2>4. CASE ReadSender(w) /\ ~CommitRow(w)
    BY <2>2, <2>4 DEF TypeOK, ReadSender
  <2>5. CASE LookUpSuppression(w)
    <3>1. PICK p \in {"inserting", "reactivating", "texting"} : Goto(w, p)
      BY <2>2, <2>5 DEF TypeOK, LookUpSuppression
    <3> QED
      BY <2>2, <2>5, <3>1 DEF TypeOK, LookUpSuppression, Goto
  <2>6. CASE InsertSuppression(w) \/ ReactivateSuppression(w)
    <3>1. CASE LockAndGoto(w, NumberOf(task[w]), "texting")
      BY <2>2, <2>6, <3>1 DEF TypeOK, InsertSuppression, ReactivateSuppression, LockAndGoto
    <3> QED
      BY <2>3, <2>6, <3>1 DEF InsertSuppression, ReactivateSuppression
  <2>7. CASE RecordText(w)
    <3>1. CASE Kind[task[w]] = "stop" /\ CommitStop(w)
      BY <2>2, <3>1 DEF TypeOK, CommitStop
    <3> QED
      BY <2>3, <2>7, <3>1 DEF RecordText
  <2> QED
    BY <1>5, <2>3, <2>4, <2>5, <2>6, <2>7
<1>6. ASSUME NEW r \in Reps, (\E c \in Calls : DropVoicemail(r, c)) \/ Drop(r) PROVE KindInHand'
  BY <1>6 DEF TypeOK, Drop, DropVoicemail, RecheckLogged, OverwriteCall, RecordDrop, Goto, LockAndGoto,
     Rollback, GiveUp
<1>7. CASE \/ \E e \in Events : Deliver(e)
           \/ \E c \in Calls : Dial(c) \/ InsertDialled(c)
           \/ \E l \in Leads : DeleteLead(l)
           \/ \E n \in Numbers : EditContact(n) \/ Release(n)
           \/ \E a \in Actors : Fail(a) \/ Abort(a)
           \/ UNCHANGED vars
  BY <1>7 DEF TypeOK, Deliver, Dial, InsertDialled, DeleteLead, EditContact, Release, Fail, Abort,
     Rollback, GiveUp, actor, vars
<1> QED
  BY <1>2, <1>3, <1>4, <1>5, <1>6, <1>7 DEF Next, Process, Sms

(* No step deletes a lead that is locked, or dials a call that is not outbound. *)
LEMMA LiveStep ==
    ASSUME TypeOK, LeadsHeldAreLive, OutboundOnly, LockInv, [Next]_vars
    PROVE  LeadsHeldAreLive' /\ OutboundOnly'
<1> USE Disjoint DEF LeadsHeldAreLive, OutboundOnly, phone, crm
<1>2. ASSUME NEW w \in Workers,
             \/ \E e \in Events : Wake(w, e)
             \/ Sweep(w) \/ Claim(w)
      PROVE  LeadsHeldAreLive' /\ OutboundOnly'
  BY <1>2 DEF TypeOK, Wake, Sweep, Claim, inbox
<1>3. ASSUME NEW w \in Workers, Finish(w) \/ PassVoice(w) \/ Confirm(w) PROVE LeadsHeldAreLive' /\ OutboundOnly'
  BY <1>3 DEF TypeOK, Finish, Rollback, GiveUp, PassVoice, CommitRow, Confirm
<1>4. ASSUME NEW w \in Workers, Status(w) PROVE LeadsHeldAreLive' /\ OutboundOnly'
  <2>1. CallOf(w) \notin Leads
    <3>1. pc[w] \notin {"idle", "next"}
      BY <1>4 DEF Status, LoadCall, NoContact, CreateCall, ProbeConsent, RecordConsent, AttachRecording,
           Advance, Finalise, ProbeLogged, LogCall
    <3> QED
      BY <3>1, Cast, DisjointAssumption
  <2> QED
    BY <1>4, <2>1 DEF TypeOK, Status, LoadCall, NoContact, CreateCall, ProbeConsent, RecordConsent,
       AttachRecording, Advance, Finalise, ProbeLogged, LogCall, Goto, LockAndGoto, CommitRow, Rollback, GiveUp
<1>5. ASSUME NEW w \in Workers,
           \/ ReadSender(w) \/ LookUpSuppression(w) \/ InsertSuppression(w)
           \/ ReactivateSuppression(w) \/ RecordText(w)
      PROVE  LeadsHeldAreLive' /\ OutboundOnly'
  <2>1. NumberOf(task[w]) \notin Leads
    <3>1. pc[w] \notin {"idle", "next"}
      BY <1>5 DEF ReadSender, LookUpSuppression, InsertSuppression, ReactivateSuppression, RecordText
    <3> QED
      BY <3>1, Cast, DisjointAssumption
  <2> QED
    BY <1>5, <2>1 DEF TypeOK, ReadSender, LookUpSuppression, InsertSuppression, ReactivateSuppression, RecordText,
     CommitStop, Goto, LockAndGoto, CommitRow, Rollback, GiveUp
<1>6. ASSUME NEW r \in Reps, (\E c \in Calls : DropVoicemail(r, c)) \/ Drop(r)
      PROVE  LeadsHeldAreLive' /\ OutboundOnly'
  <2>1. pc[r] # "idle" => CallOf(r) \notin Leads
    BY Cast, DisjointAssumption
  <2> QED
    BY <1>6, <2>1 DEF TypeOK, Drop, DropVoicemail, RecheckLogged, OverwriteCall, RecordDrop, Goto,
     LockAndGoto, Rollback, GiveUp
<1>7. CASE \/ \E e \in Events : Deliver(e)
           \/ \E c \in Calls : Dial(c) \/ InsertDialled(c)
           \/ \E l \in Leads : DeleteLead(l)
           \/ \E n \in Numbers : EditContact(n) \/ Release(n)
           \/ \E a \in Actors : Fail(a) \/ Abort(a)
           \/ UNCHANGED vars
  BY <1>7 DEF TypeOK, Deliver, Dial, InsertDialled, DeleteLead, EditContact, Release, Fail, Abort,
     Rollback, GiveUp, actor, vars
<1> QED
  BY <1>2, <1>3, <1>4, <1>5, <1>6, <1>7 DEF Next, Process, Sms

(* Steps after which no one but those who were is about to leave a marker. *)
LEMMA MarkFrame ==
    ASSUME TypeOK, MarkInv, UNCHANGED consents, crowded \subseteq crowded', LeadsForMarks',
           \A w \in Workers : Marking(w)' => Marking(w) /\ CallOf(w)' = CallOf(w)
    PROVE  MarkInv'
BY DEF MarkInv, FirstMarks

(* Going on to other places, with no lead locked, is such a step. *)
LEMMA OtherPlaces ==
    ASSUME TypeOK, MarkInv, UNCHANGED <<consents, crowded>>,
           \A a \in Actors :
              \/ pc'[a] = pc[a] /\ task'[a] = task[a] /\ holds'[a] = holds[a]
              \/ pc'[a] \notin {"consenting", "attaching"} /\ \A l \in Leads : l \notin holds'[a]
    PROVE  MarkInv'
<1>1. LeadsForMarks'
  BY DEF MarkInv, LeadsForMarks
<1>2. ASSUME NEW w \in Workers, Marking(w)' PROVE Marking(w) /\ CallOf(w)' = CallOf(w)
  <2>1. pc'[w] = pc[w] /\ task'[w] = task[w] /\ holds'[w] = holds[w]
    BY <1>2, Disjoint DEF Marking
  <2> QED
    BY <1>2, <2>1 DEF Marking, Marks, CallOf, LeadOf
<1> QED
  BY <1>1, <1>2, MarkFrame

(* Looking for a marker: whoever finds none while another records one crowds the call. *)
LEMMA ProbeMarks ==
    ASSUME TypeOK, LockInv, MarkInv, NEW w \in Workers, ProbeConsent(w)
    PROVE  MarkInv'
<1>1. /\ pc[w] = "probing" /\ CallOf(w) \in Calls /\ LeadOf(w) \in Leads /\ w \in Actors
      /\ UNCHANGED <<task, holds, consents>> /\ crowded \subseteq crowded'
  BY Cast, Disjoint DEF ProbeConsent, Goto, phone, LockInv, CallbackInHand, CallPlaces
<1>2. \A v \in Workers : CallOf(v)' = CallOf(v) /\ LeadOf(v)' = LeadOf(v)
  BY <1>1 DEF CallOf, LeadOf
<1>3. \A a \in Actors \ {w} : pc'[a] = pc[a]
  BY DEF TypeOK, ProbeConsent, Goto
<1>4. \A l \in Leads : l \notin holds[w]
  BY <1>1 DEF MarkInv, LeadsForMarks
<1>5. LeadsForMarks'
  BY <1>1, <1>3, <1>4 DEF MarkInv, LeadsForMarks
<1>6. \A v \in Workers \ {w} : Marking(v)' = Marking(v)
  BY <1>1, <1>2, <1>3, Disjoint DEF Marking, Marks
<1>7. CASE consents[CallOf(w)] > 0
  <2>1. pc'[w] = "attaching"
    BY <1>1, <1>7 DEF TypeOK, ProbeConsent, Goto
  <2>2. ~Marking(w)'
    BY <1>1, <1>2, <1>4, <2>1 DEF Marking, Marks
  <2> QED
    BY <1>1, <1>2, <1>5, <1>6, <2>2, MarkFrame
<1>8. CASE ~(consents[CallOf(w)] > 0)
  <2>1. consents[CallOf(w)] = 0
    BY <1>1, <1>8 DEF TypeOK
  <2>2. \A v \in Workers : Marking(v) /\ CallOf(v) = CallOf(w) => CallOf(w) \in crowded'
    BY <1>8 DEF ProbeConsent
  <2>3. ~Marking(w)
    BY <1>1 DEF Marking
  <2>4. FirstMarks'
    BY <1>1, <1>2, <1>6, <2>1, <2>2, <2>3 DEF MarkInv, FirstMarks
  <2> QED
    BY <1>5, <2>4 DEF MarkInv
<1> QED
  BY <1>7, <1>8

(* The commit of a recording callback: the others that are about to leave a marker *)
(* crowd the call, or are about another one.                                       *)
LEMMA AttachMarks ==
    ASSUME TypeOK, LockInv, MarkInv, NEW w \in Workers, AttachRecording(w)
    PROVE  MarkInv'
<1>1. /\ pc[w] = "attaching" /\ w \in Actors /\ CallOf(w) \in Calls
      /\ pc'[w] = "next" /\ holds'[w] = {} /\ UNCHANGED crowded
      /\ consents' = [consents EXCEPT ![CallOf(w)] = IF Marks(w) THEN @ + 1 ELSE @]
  BY Cast, Disjoint DEF TypeOK, AttachRecording, CommitRow, ghost, LockInv, CallbackInHand, CallPlaces
<1>2. \A a \in Actors \ {w} : pc'[a] = pc[a] /\ task'[a] = task[a] /\ holds'[a] = holds[a]
  BY DEF TypeOK, AttachRecording, CommitRow
<1>3. LeadsForMarks'
  BY <1>1, <1>2 DEF MarkInv, LeadsForMarks
<1>4. ~Marking(w)'
  BY <1>1 DEF Marking
<1>5. \A v \in Workers \ {w} :
         CallOf(v)' = CallOf(v) /\ LeadOf(v)' = LeadOf(v) /\ Marking(v)' = Marking(v)
  BY <1>2, Disjoint DEF CallOf, LeadOf, Marking, Marks
<1>6. \A v \in Workers \ {w} : Marking(v) => CallOf(v) \in crowded \/ consents'[CallOf(v)] = 0
  <2> SUFFICES ASSUME NEW v \in Workers \ {w}, Marking(v), CallOf(v) \notin crowded
               PROVE  consents'[CallOf(v)] = 0
    OBVIOUS
  <2>1. CallOf(v) \in Calls /\ consents[CallOf(v)] = 0
    BY Cast DEF Marking, LockInv, CallbackInHand, CallPlaces, MarkInv, FirstMarks
  <2>2. CASE CallOf(v) = CallOf(w)
    <3>1. ~Marks(w)
      BY <1>1, <2>2 DEF Marking, MarkInv, FirstMarks
    <3> QED
      BY <1>1, <2>1, <3>1 DEF TypeOK
  <2>3. CASE CallOf(v) # CallOf(w)
    BY <1>1, <2>1, <2>3 DEF TypeOK
  <2> QED
    BY <2>2, <2>3
<1>7. FirstMarks'
  BY <1>1, <1>4, <1>5, <1>6 DEF MarkInv, FirstMarks
<1> QED
  BY <1>3, <1>7 DEF MarkInv

(* A marker is recorded by one callback, or by those that crowd the call. *)
LEMMA MarkStep ==
    ASSUME TypeOK, LockInv, MarkInv, [Next]_vars
    PROVE  MarkInv'
<1> USE Disjoint DEF phone, ghost
<1>0. \A a \in Actors : pc[a] # "attaching" => \A l \in Leads : l \notin holds[a]
  BY DEF MarkInv, LeadsForMarks
<1>2. ASSUME NEW w \in Workers,
             \/ \E e \in Events : Wake(w, e)
             \/ Sweep(w) \/ Claim(w)
      PROVE  MarkInv'
  BY <1>0, <1>2, OtherPlaces DEF TypeOK, Wake, Sweep, Claim
<1>3. ASSUME NEW w \in Workers, Finish(w) \/ PassVoice(w) \/ Confirm(w) PROVE MarkInv'
  BY <1>0, <1>3, OtherPlaces DEF TypeOK, Finish, Rollback, GiveUp, PassVoice, CommitRow, Confirm
<1>4. ASSUME NEW w \in Workers, Status(w) PROVE MarkInv'
  <2>1. CallOf(w) \in Calls /\ CallOf(w) \notin Leads /\ LeadOf(w) \in Leads
    <3>1. pc[w] \notin {"idle", "next"} /\ Kind[task[w]] \in CallKinds
      BY <1>4 DEF Status, LoadCall, NoContact, CreateCall, ProbeConsent, RecordConsent, AttachRecording,
           Advance, Finalise, ProbeLogged, LogCall, CallbackInHand, CallPlaces, LockInv
    <3> QED
      BY <3>1, Cast, DisjointAssumption
  <2>2. CASE (CommitRow(w) \/ Rollback(w)) /\ UNCHANGED <<consents, crowded>>
    BY <2>2, OtherPlaces DEF TypeOK, CommitRow, Rollback, GiveUp
  <2>3. CASE LoadCall(w) \/ CreateCall(w) \/ Finalise(w)
    BY <1>0, <2>1, <2>3, OtherPlaces DEF TypeOK, LoadCall, CreateCall, Finalise, Goto, LockAndGoto, AfterCall
  <2>4. CASE RecordConsent(w) /\ ~Rollback(w)
    <3>1. /\ pc[w] = "consenting" /\ pc'[w] = "attaching" /\ UNCHANGED <<task, consents, crowded>>
          /\ \A a \in Actors \ {w} : pc'[a] = pc[a] /\ holds'[a] = holds[a]
      BY <2>4 DEF TypeOK, RecordConsent, LockAndGoto
    <3>2. LeadsForMarks'
      BY <3>1 DEF MarkInv, LeadsForMarks
    <3>3. ASSUME NEW v \in Workers, Marking(v)' PROVE Marking(v) /\ CallOf(v)' = CallOf(v)
      BY <3>1, <3>3 DEF Marking, Marks, CallOf, LeadOf
    <3> QED
      BY <3>1, <3>2, <3>3, MarkFrame
  <2>5. CASE ProbeLogged(w)
    <3>1. CASE Goto(w, "logging")
      BY <1>0, <2>5, <3>1, OtherPlaces DEF TypeOK, ProbeLogged, Goto
    <3> QED
      BY <2>2, <2>5, <3>1 DEF ProbeLogged
  <2> QED
    BY <1>4, <2>2, <2>3, <2>4, <2>5, ProbeMarks, AttachMarks
    DEF Status, NoContact, Advance, LogCall, RecordConsent, Rollback
<1>5. ASSUME NEW w \in Workers,
           \/ ReadSender(w) \/ LookUpSuppression(w) \/ InsertSuppression(w)
           \/ ReactivateSuppression(w) \/ RecordText(w)
      PROVE  MarkInv'
  <2>1. pc[w] \notin {"idle", "next"}
    BY <1>5 DEF ReadSender, LookUpSuppression, InsertSuppression, ReactivateSuppression, RecordText
  <2>2. /\ NumberOf(task[w]) \in Numbers /\ NumberOf(task[w]) \notin Leads
    BY <2>1, Cast, DisjointAssumption
  <2>3. UNCHANGED <<consents, crowded>>
    BY <1>5 DEF ReadSender, LookUpSuppression, InsertSuppression, ReactivateSuppression, RecordText, Rollback
  <2>4. CASE CommitRow(w) \/ Rollback(w) \/ CommitStop(w)
    BY <2>3, <2>4, OtherPlaces DEF TypeOK, CommitRow, Rollback, GiveUp, CommitStop
  <2>5. CASE ReadSender(w) /\ ~CommitRow(w)
    BY <1>0, <2>3, <2>5, OtherPlaces DEF TypeOK, ReadSender
  <2>6. CASE LookUpSuppression(w)
    <3>1. PICK p \in {"inserting", "reactivating", "texting"} : Goto(w, p)
      BY <2>2, <2>6 DEF TypeOK, LookUpSuppression
    <3> QED
      BY <1>0, <2>3, <2>6, <3>1, OtherPlaces DEF TypeOK, LookUpSuppression, Goto
  <2>7. CASE (InsertSuppression(w) \/ ReactivateSuppression(w)) /\ ~Rollback(w)
    <3>1. LockAndGoto(w, NumberOf(task[w]), "texting") /\ pc[w] # "attaching"
      BY <2>7 DEF InsertSuppression, ReactivateSuppression
    <3> QED
      BY <1>0, <2>2, <2>3, <3>1, OtherPlaces DEF TypeOK, LockAndGoto
  <2> QED
    BY <1>5, <2>4, <2>5, <2>6, <2>7 DEF RecordText
<1>6. ASSUME NEW r \in Reps, (\E c \in Calls : DropVoicemail(r, c)) \/ Drop(r) PROVE MarkInv'
  <2>1. pc[r] # "idle" => CallOf(r) \notin Leads
    BY Cast, DisjointAssumption
  <2> QED
    BY <1>0, <1>6, <2>1, OtherPlaces DEF TypeOK, Drop, DropVoicemail, RecheckLogged, OverwriteCall,
       RecordDrop, Goto, LockAndGoto, Rollback, GiveUp
<1>7. CASE \/ \E e \in Events : Deliver(e)
           \/ \E c \in Calls : Dial(c) \/ InsertDialled(c)
           \/ \E l \in Leads : DeleteLead(l)
           \/ \E n \in Numbers : EditContact(n) \/ Release(n)
           \/ \E a \in Actors : Fail(a) \/ Abort(a)
           \/ UNCHANGED vars
  BY <1>7, OtherPlaces DEF TypeOK, Deliver, Dial, InsertDialled, DeleteLead, EditContact, Release, Fail,
     Abort, Rollback, GiveUp, actor, vars
<1> QED
  BY <1>2, <1>3, <1>4, <1>5, <1>6, <1>7 DEF Next, Process, Sms

-----------------------------------------------------------------------------
(* Every step is a step of the serial inbox, or none *)

(* An actor that only goes on, or stops, is not seen. *)
LEMMA Unseen ==
    ASSUME UNCHANGED <<rank, done, status, logs, consents, ref, sms, crm, ghost>>
    PROVE  UNCHANGED Serial!vars
<1>1. UNCHANGED Stored
  BY DEF Stored
<1> QED
  BY <1>1 DEF sms, crm, ghost,
     Serial!vars, Serial!callbacks, Serial!calls, Serial!sms, Serial!crm

(* A row that a transaction marks processed is stored, and was not processed. *)
LEMMA RowProcessed ==
    ASSUME IInv, SerialInv, NEW w \in Workers, pc[w] \notin Rest,
           UNCHANGED <<rank, crm>>, done' = done \cup {task[w]}
    PROVE  task[w] \in Events /\ Serial!Processed(task[w])
<1>1. task[w] \in Stored /\ task[w] \notin done
  BY DEF SerialInv, StoredInHand, IInv, LockInv, OwnsRow, Rest
<1> QED
  BY <1>1 DEF Stored, crm, Serial!Processed, Serial!crm

(* The lead a worker's row is about, in the words of the serial inbox. *)
LEMMA PartyOfRow ==
    ASSUME TypeOK, NEW w \in Workers, pc[w] \notin {"idle", "next"}
    PROVE  /\ Serial!Party(task[w]) = NumberOf(task[w])
           /\ LeadOf(w) \notin deleted <=> Serial!Live(NumberOf(task[w]))
<1>1. task[w] \in Events /\ task[w] \notin Calls
  BY DisjointAssumption DEF TypeOK
<1> QED
  BY <1>1, CastAssumption DEF NumberOf, LeadOf, Serial!Party, Serial!Live

(* A delivered callback. *)
LEMMA DeliverRefines ==
    ASSUME TypeOK, StoredFinite, NEW e \in Events, Deliver(e)
    PROVE  Serial!Store(e)
<1>1. Cardinality(Stored) \in Nat
  BY FS_CardinalityType DEF StoredFinite
<1>2. e \notin Stored /\ Stored' = Stored \cup {e}
  <2>1. rank'[e] > 0 /\ \A f \in Events \ {e} : rank'[f] = rank[f]
    BY <1>1 DEF Deliver, TypeOK
  <2> QED
    BY <2>1 DEF Deliver, Stored
<1> QED
  BY <1>2 DEF Deliver, phone, sms, crm, ghost,
     Serial!Store, Serial!calls, Serial!sms, Serial!crm

(* A row that is marked processed and nothing else has been passed over. *)
LEMMA PassRefines ==
    ASSUME IInv, SerialInv, NEW w \in Workers,
           PassVoice(w) \/ NoContact(w) \/ (ReadSender(w) /\ Kind[task[w]] = "text" /\ CommitRow(w))
    PROVE  task[w] \in Events /\ Serial!Pass(task[w])
<1>0. TypeOK
  BY DEF IInv
<1>1. pc[w] \notin Rest /\ UNCHANGED <<rank, phone, sms, crm, ghost>> /\ done' = done \cup {task[w]}
  BY DEF PassVoice, NoContact, ReadSender, CommitRow, Rest
<1>2. task[w] \in Events /\ Serial!Processed(task[w])
  BY <1>1, RowProcessed DEF crm
<1>3. Serial!Party(task[w]) = NumberOf(task[w])
  BY <1>0, <1>1, PartyOfRow DEF Rest
<1>4. Kind[task[w]] # "stop"
  BY DEF PassVoice, NoContact, IInv, LockInv, CallbackInHand, CallPlaces, CallKinds
<1>5. CASE PassVoice(w)
  BY <1>1, <1>2, <1>4, <1>5, Unseen DEF PassVoice, phone, sms, ghost, Serial!Pass, Serial!calls,
     Serial!sms
<1>6. CASE ~PassVoice(w)
  <2>1. task[w] \in Bare \/ NumberOf(task[w]) \notin known \/ ~Serial!Live(NumberOf(task[w]))
    <3>1. CASE NoContact(w)
      BY <3>1 DEF NoContact, Resolves, Serial!Live
    <3>2. CASE ReadSender(w) /\ CommitRow(w)
      <4>1. task'[w] = NoTask /\ task[w] # NoTask
        BY <1>0, <1>2, <3>2, CastAssumption DEF CommitRow, TypeOK, Actors
      <4>2. ~Resolves(NumberOf(task[w]))
        BY <3>2, <4>1 DEF ReadSender
      <4> QED
        BY <4>2 DEF Resolves, Serial!Live
    <3> QED
      BY <1>6, <3>1, <3>2
  <2> QED
    BY <1>1, <1>2, <1>3, <1>4, <2>1, Unseen DEF phone, sms, ghost, Serial!Pass, Serial!calls, Serial!sms
<1> QED
  BY <1>5, <1>6

(* A committed progress callback. *)
LEMMA ProgressRefines ==
    ASSUME IInv, SerialInv, NEW w \in Workers, Advance(w)
    PROVE  task[w] \in Events /\ Serial!Progress(task[w])
<1>1. pc[w] \notin Rest /\ UNCHANGED <<rank, crm>> /\ done' = done \cup {task[w]}
  BY DEF Advance, CommitRow, Rest
<1>2. task[w] \in Events /\ Serial!Processed(task[w])
  BY <1>1, RowProcessed
<1>3. CallOf(w) = Subject[task[w]]
  BY <1>1, Cast DEF IInv, Rest
<1> QED
  BY <1>2, <1>3, Unseen DEF Advance, sms, ghost, Serial!Progress, Serial!sms

(* A committed terminal callback: it found an entry, or it writes the only one. *)
LEMMA TerminalRefines ==
    ASSUME IInv, SerialInv, NEW w \in Workers, CommitRow(w),
           \/ ProbeLogged(w) /\ logs[CallOf(w)] > 0
           \/ LogCall(w) /\ LeadOf(w) \notin deleted
    PROVE  task[w] \in Events /\ Serial!Terminal(task[w])
<1>0. TypeOK /\ Kind[task[w]] \in Terminals /\ pc[w] \in {"finalising", "logging"}
  BY DEF IInv, SerialInv, KindInHand, ProbeLogged, LogCall
<1>1. /\ UNCHANGED <<rank, consents, sms, crm, ghost>>
      /\ done' = done \cup {task[w]}
      /\ Finalised(w)
  BY DEF CommitRow, ProbeLogged, LogCall
<1>2. task[w] \in Events /\ Serial!Processed(task[w])
  BY <1>0, <1>1, RowProcessed DEF Rest
<1>3. /\ CallOf(w) = Subject[task[w]] /\ CallOf(w) \in Calls
      /\ Serial!Party(task[w]) = NumberOf(task[w])
      /\ LeadOf(w) \notin deleted <=> Serial!Live(NumberOf(task[w]))
  BY <1>0, Cast, PartyOfRow DEF CallKinds, Kinds, Terminals
<1>4. \/ logs[Subject[task[w]]] > 0 /\ UNCHANGED logs
      \/ /\ logs[Subject[task[w]]] = 0
         /\ Serial!Live(Serial!Party(task[w]))
         /\ logs' = [logs EXCEPT ![Subject[task[w]]] = 1]
  <2>1. CASE ProbeLogged(w) /\ logs[CallOf(w)] > 0
    BY <1>3, <2>1 DEF ProbeLogged
  <2>2. CASE LogCall(w) /\ LeadOf(w) \notin deleted
    <3>1. logs[CallOf(w)] = 0
      BY <2>2 DEF LogCall, IInv, CallInv, LogsUnderLock, Actors
    <3> QED
      BY <1>3, <2>2, <3>1 DEF LogCall
  <2> QED
    BY <2>1, <2>2
<1> QED
  BY <1>0, <1>1, <1>2, <1>3, <1>4, Unseen DEF sms, ghost, Finalised, Terminals, Serial!Terminal,
     Serial!sms

(* A committed recording: there was a marker, or it is written for a live lead. *)
LEMMA RecordingRefines ==
    ASSUME IInv, SerialInv, NEW w \in Workers, AttachRecording(w)
    PROVE  task[w] \in Events /\ Serial!Recording(task[w])
<1>0. TypeOK /\ Kind[task[w]] \in Recordings /\ pc[w] = "attaching"
  BY DEF IInv, SerialInv, KindInHand, AttachRecording
<1>1. UNCHANGED <<rank, crm>> /\ done' = done \cup {task[w]}
  BY DEF CommitRow, AttachRecording
<1>2. task[w] \in Events /\ Serial!Processed(task[w])
  BY <1>0, <1>1, RowProcessed DEF Rest
<1>3. /\ CallOf(w) = Subject[task[w]] /\ CallOf(w) \in Calls /\ LeadOf(w) \in Leads
      /\ Serial!Party(task[w]) = NumberOf(task[w])
      /\ LeadOf(w) \notin deleted <=> Serial!Live(NumberOf(task[w]))
  BY <1>0, Cast, PartyOfRow DEF CallKinds, Kinds, Recordings
<1>4. \/ consents[CallOf(w)] > 0 /\ UNCHANGED consents
      \/ /\ consents[CallOf(w)] = 0 \/ CallOf(w) \in crowded
         /\ Serial!Live(NumberOf(task[w]))
         /\ consents' = [consents EXCEPT ![CallOf(w)] = @ + 1]
  <2>1. CASE Marks(w)
    <3>1. LeadOf(w) \notin deleted
      BY <1>3, <2>1 DEF Marks, SerialInv, LeadsHeldAreLive, Actors
    <3>2. consents[CallOf(w)] = 0 \/ CallOf(w) \in crowded
      BY <1>0, <2>1 DEF SerialInv, MarkInv, FirstMarks, Marking
    <3> QED
      BY <1>3, <2>1, <3>1, <3>2 DEF AttachRecording
  <2>2. CASE ~Marks(w)
    <3>1. consents[CallOf(w)] > 0
      BY <1>0, <2>2 DEF IInv, ConsentInv, ConsentInHand
    <3> QED
      BY <1>0, <2>2, <3>1 DEF AttachRecording, TypeOK
  <2> QED
    BY <2>1, <2>2
<1> QED
  BY <1>0, <1>2, <1>3, <1>4 DEF AttachRecording, sms, ghost, Recordings,
     Serial!Recording, Serial!Records, Serial!sms

(* A committed sms: recorded for a live lead, and a STOP's number suppressed. *)
LEMMA TextRefines ==
    ASSUME IInv, SerialInv, NEW w \in Workers, RecordText(w), ~Rollback(w)
    PROVE  task[w] \in Events /\ (Serial!Text(task[w]) \/ Serial!Stop(task[w]))
<1>0. TypeOK /\ pc[w] = "texting"
  BY DEF IInv, RecordText
<1>1. /\ UNCHANGED <<rank, crm, phone, ghost, confirmed>> /\ done' = done \cup {task[w]}
      /\ texts' = [texts EXCEPT ![task[w]] = IF matched[w] THEN @ + 1 ELSE @]
      /\ matched[w] => LeadOf(w) \notin deleted
  BY DEF RecordText, CommitRow, CommitStop
<1>2. task[w] \in Events /\ Serial!Processed(task[w])
  BY <1>0, <1>1, RowProcessed DEF Rest
<1>3. /\ NumberOf(task[w]) \in Numbers
      /\ Kind[task[w]] = "stop" => NumberOf(task[w]) = Subject[task[w]]
      /\ Serial!Party(task[w]) = NumberOf(task[w])
      /\ LeadOf(w) \notin deleted <=> Serial!Live(NumberOf(task[w]))
  BY <1>0, Cast, PartyOfRow
<1>4. texts[task[w]] = 0
  <2>1. task[w] \notin done /\ texts[task[w]] \in Nat /\ confirmed[task[w]] \in Nat
    BY <1>0, <1>2 DEF Serial!Processed, TypeOK
  <2>2. ~(texts[task[w]] + confirmed[task[w]] > 0)
    BY <1>2, <2>1 DEF IInv, SmsInv, SmsExactlyOnce
  <2>3. \A x, y \in Nat : ~(x + y > 0) => x = 0
    OBVIOUS
  <2> QED
    BY ONLY <2>1, <2>2, <2>3
<1>5. IF matched[w] THEN Serial!Recorded(task[w]) ELSE UNCHANGED texts
  <2>1. CASE matched[w]
    BY <1>1, <1>3, <1>4, <2>1 DEF Serial!Recorded
  <2>2. CASE ~matched[w]
    BY <1>0, <1>1, <2>2 DEF TypeOK
  <2> QED
    BY <2>1, <2>2
<1>6. CASE Kind[task[w]] = "text" /\ UNCHANGED suppression
  <2>1. matched[w]
    BY <1>0, <1>6 DEF SerialInv, KindInHand
  <2> QED
    BY <1>1, <1>2, <1>5, <1>6, <2>1, Unseen DEF phone, ghost, Serial!Text, Serial!calls
<1>7. CASE Kind[task[w]] = "stop" /\ CommitStop(w)
  <2>1. \A n \in Numbers : n \in holds[w] => n = Subject[task[w]]
    BY DEF SerialInv, KindInHand
  <2>2. \/ suppression' = [suppression EXCEPT ![Subject[task[w]]] = "active"]
        \/ task[w] \in pardoned /\ UNCHANGED suppression
    <3>1. CASE Subject[task[w]] \in holds[w]
      BY <1>0, <1>7, <2>1, <3>1 DEF CommitStop, TypeOK
    <3>2. CASE Subject[task[w]] \notin holds[w]
      <4>1. UNCHANGED suppression
        BY <1>0, <1>7, <2>1, <3>2 DEF CommitStop, TypeOK
      <4>2. suppression[Subject[task[w]]] = "active" \/ task[w] \in pardoned
        BY <1>0, <1>7, <3>2 DEF IInv, StopInv, StopInHand
      <4> QED
        BY <1>0, <4>1, <4>2 DEF TypeOK
    <3> QED
      BY <3>1, <3>2
  <2> QED
    BY <1>1, <1>2, <1>5, <1>7, <2>2, Unseen DEF phone, ghost, Serial!Stop, Serial!calls
<1> QED
  BY <1>6, <1>7 DEF RecordText

(* A confirmation, or one that failed. *)
LEMMA ConfirmRefines ==
    ASSUME IInv, SerialInv, NEW w \in Workers, Confirm(w)
    PROVE  task[w] \in Events /\ (Serial!Confirm(task[w]) \/ UNCHANGED Serial!vars)
<1>1. task[w] \in Events /\ task[w] \in done /\ Kind[task[w]] = "stop" /\ confirmed[task[w]] = 0
  BY DEF Confirm, IInv, TypeOK, LockInv, OneConfirmer, SmsInv, Unconfirmed, SerialInv, KindInHand
<1>2. CASE UNCHANGED confirmed
  BY <1>1, <1>2, Unseen DEF Confirm, inbox, phone, sms
<1>3. CASE confirmed' = [confirmed EXCEPT ![task[w]] = @ + 1]
  <2>1. UNCHANGED Stored
    BY DEF Confirm, inbox, Stored
  <2> QED
    BY <1>1, <1>3, <2>1 DEF Confirm, inbox, phone, crm, ghost,
       Serial!Confirm, Serial!callbacks, Serial!calls, Serial!crm
<1> QED
  BY <1>1, <1>2, <1>3 DEF Confirm

(* A release takes back the STOPs of its number that are processed, and some that *)
(* are not.                                                                       *)
LEMMA ReleaseRefines ==
    ASSUME IInv, SerialInv, NEW n \in Numbers, Release(n)
    PROVE  Serial!Release(n)
<1> DEFINE early == {e \in Events : /\ Kind[e] = "stop" /\ Subject[e] = n
                                    /\ \E w \in Workers : task[w] = e /\ pc[w] = "texting"}
<1>1. early \subseteq {e \in Stored \ done : Kind[e] = "stop" /\ Subject[e] = n}
  BY DEF SerialInv, StoredInHand, IInv, LockInv, OwnsRow, Rest
<1>2. pardoned' = pardoned \cup early \cup {e \in done : Kind[e] = "stop" /\ Subject[e] = n}
  BY DEF Release, IInv, TypeOK
<1>3. UNCHANGED Stored
  BY DEF Release, inbox, Stored
<1> HIDE DEF early
<1> QED
  BY <1>1, <1>2, <1>3 DEF Release, inbox, phone, crm,
     Serial!Release, Serial!callbacks, Serial!calls, Serial!crm

(* The rest of the world. *)
LEMMA WorldRefines ==
    ASSUME IInv, SerialInv
    PROVE  /\ \A c \in Calls : InsertDialled(c) => Serial!Dialled(c) \/ UNCHANGED Serial!vars
           /\ \A r \in Reps : RecordDrop(r) =>
                 (\E c \in Calls : Serial!Drop(c)) \/ UNCHANGED Serial!vars
           /\ \A l \in Leads : DeleteLead(l) => Serial!Delete(l)
           /\ \A n \in Numbers : EditContact(n) => Serial!Edit(n)
<1> USE Unseen DEF inbox, phone, sms, crm, ghost,
    Serial!callbacks, Serial!calls, Serial!sms, Serial!crm
<1>0. TypeOK
  BY DEF IInv
<1>s. UNCHANGED rank => UNCHANGED Stored
  BY DEF Stored
<1>1. ASSUME NEW c \in Calls, InsertDialled(c) PROVE Serial!Dialled(c) \/ UNCHANGED Serial!vars
  <2>1. c \in Outbound
    BY <1>1 DEF SerialInv, OutboundOnly, InsertDialled
  <2>2. CASE status[c] = "none"
    BY <1>1, <1>s, <2>1, <2>2 DEF InsertDialled, Serial!Dialled
  <2>3. CASE status[c] # "none"
    BY <1>1, <2>3 DEF InsertDialled
  <2> QED
    BY <2>2, <2>3
<1>2. ASSUME NEW r \in Reps, RecordDrop(r)
      PROVE  (\E c \in Calls : Serial!Drop(c)) \/ UNCHANGED Serial!vars
  <2>1. CASE LeadOf(r) \in deleted
    BY <1>2, <2>1 DEF RecordDrop, Rollback
  <2>2. CASE LeadOf(r) \notin deleted
    <3>1. CallOf(r) \in Calls /\ Serial!Live(PartyOf[CallOf(r)])
      BY <1>0, <1>2, <2>2 DEF RecordDrop, TypeOK, CallOf, LeadOf, Serial!Live
    <3>2. Serial!Drop(CallOf(r))
      BY <1>2, <1>s, <2>2, <3>1 DEF RecordDrop, Serial!Drop
    <3> QED
      BY <3>1, <3>2
  <2> QED
    BY <2>1, <2>2
<1>3. ASSUME NEW l \in Leads, DeleteLead(l) PROVE Serial!Delete(l)
  BY <1>3, <1>s DEF DeleteLead, Serial!Delete
<1>4. ASSUME NEW n \in Numbers, EditContact(n) PROVE Serial!Edit(n)
  BY <1>4, <1>s DEF EditContact, Serial!Edit
<1> QED
  BY <1>1, <1>2, <1>3, <1>4

(* Looking for a marker is not seen, unless another callback is about to leave one. *)
LEMMA ProbeRefines ==
    ASSUME IInv, SerialInv, NEW w \in Workers, ProbeConsent(w)
    PROVE  (\E c \in Calls : Serial!Crowd(c)) \/ UNCHANGED Serial!vars
<1>0. TypeOK /\ pc[w] = "probing" /\ Kind[task[w]] \in Recordings /\ w \in Actors
  BY Disjoint DEF IInv, SerialInv, KindInHand, ProbeConsent
<1>1. UNCHANGED <<rank, done, status, logs, consents, ref, sms, crm, dropped, pardoned>> /\ UNCHANGED Stored
  BY DEF ProbeConsent, inbox, phone, Stored
<1>2. CASE crowded' = crowded
  BY <1>1, <1>2, Unseen DEF ghost
<1>3. CASE crowded' # crowded
  <2>1. /\ ~(consents[CallOf(w)] > 0) /\ crowded' = crowded \cup {CallOf(w)}
        /\ \E v \in Workers : Marking(v) /\ CallOf(v) = CallOf(w)
    BY <1>3 DEF ProbeConsent
  <2>2. PICK v \in Workers : Marking(v) /\ CallOf(v) = CallOf(w)
    BY <2>1
  <2>3. v # w /\ pc[v] \in {"consenting", "attaching"} /\ Kind[task[v]] \in Recordings
    BY <1>0, <2>2 DEF Marking, SerialInv, KindInHand
  <2>4. /\ task[v] \in holds[v] /\ task[w] \in holds[w]
        /\ task[v] \in Stored \ done /\ task[w] \in Stored \ done
    BY <1>0, <2>3 DEF IInv, LockInv, OwnsRow, Rest, SerialInv, StoredInHand
  <2>5. task[v] # task[w]
    BY <2>3, <2>4, Disjoint DEF IInv, LockInv, Exclusive
  <2>6. CallOf(w) \in Calls /\ CallOf(w) = Subject[task[w]] /\ CallOf(v) = Subject[task[v]]
    BY <1>0, <2>3, Cast DEF CallKinds, Kinds, Recordings
  <2>7. consents[CallOf(w)] = 0
    BY <1>0, <2>1, <2>6 DEF TypeOK
  <2>8. Serial!Crowd(CallOf(w))
    BY <1>0, <1>1, <2>1, <2>2, <2>3, <2>4, <2>5, <2>6, <2>7
    DEF sms, crm, Recordings, Serial!Crowd, Serial!Records, Serial!callbacks, Serial!sms, Serial!crm
  <2> QED
    BY <2>6, <2>8
<1> QED
  BY <1>2, <1>3

(* Steps of actors that commit nothing. *)
LEMMA QuietRefines ==
    ASSUME \/ \E w \in Workers, e \in Events : Wake(w, e)
           \/ \E w \in Workers :
                 \/ Sweep(w) \/ Claim(w) \/ Finish(w) \/ Rollback(w)
                 \/ LoadCall(w) \/ CreateCall(w) \/ RecordConsent(w) \/ Finalise(w)
                 \/ LookUpSuppression(w) \/ InsertSuppression(w) \/ ReactivateSuppression(w)
           \/ \E r \in Reps, c \in Calls : DropVoicemail(r, c)
           \/ \E r \in Reps : RecheckLogged(r) \/ OverwriteCall(r)
           \/ \E c \in Calls : Dial(c)
           \/ \E a \in Actors : Fail(a) \/ Abort(a)
           \/ UNCHANGED vars
    PROVE  UNCHANGED Serial!vars
<1>1. UNCHANGED <<rank, done, status, logs, consents, ref, sms, crm, ghost>>
  BY DEF Wake, Sweep, Claim, Finish, Rollback, LoadCall, CreateCall, RecordConsent, Finalise,
     LookUpSuppression, InsertSuppression, ReactivateSuppression, DropVoicemail, RecheckLogged, OverwriteCall,
     Dial, Fail, Abort, inbox, phone, vars
<1> QED
  BY <1>1, Unseen

(* Every step is one of the serial inbox, or is not seen. *)
LEMMA StepRefines ==
    ASSUME IInv, SerialInv, [Next]_vars
    PROVE  [Serial!Next]_(Serial!vars)
<1>0. TypeOK /\ StoredFinite
  BY DEF IInv
<1>p. ASSUME NEW e \in Events, Serial!Process(e) PROVE Serial!Next
  BY <1>p DEF Serial!Next
<1>1. ASSUME NEW w \in Workers, PassVoice(w) \/ Status(w) PROVE [Serial!Next]_(Serial!vars)
  <2>1. CASE PassVoice(w) \/ NoContact(w)
    BY <2>1, PassRefines, <1>p DEF Serial!Process
  <2>2. CASE Advance(w)
    BY <2>2, ProgressRefines, <1>p DEF Serial!Process
  <2>3. CASE AttachRecording(w)
    BY <2>3, RecordingRefines, <1>p DEF Serial!Process
  <2>4. CASE ProbeLogged(w)
    <3>1. CASE logs[CallOf(w)] > 0
      BY <2>4, <3>1, TerminalRefines, <1>p DEF ProbeLogged, Serial!Process
    <3>2. CASE ~(logs[CallOf(w)] > 0)
      <4>1. UNCHANGED <<rank, done, status, logs, consents, ref, sms, crm, ghost>>
        BY <2>4, <3>2 DEF ProbeLogged, inbox
      <4> QED
        BY <4>1, Unseen
    <3> QED
      BY <3>1, <3>2
  <2>5. CASE LogCall(w)
    BY <2>5, TerminalRefines, QuietRefines, <1>p DEF LogCall, Serial!Process
  <2>6. CASE ProbeConsent(w)
    BY <2>6, ProbeRefines DEF Serial!Next
  <2> QED
    BY <1>1, <2>1, <2>2, <2>3, <2>4, <2>5, <2>6, QuietRefines DEF Status
<1>2. ASSUME NEW w \in Workers, Sms(w) PROVE [Serial!Next]_(Serial!vars)
  <2>1. CASE ReadSender(w)
    <3>1. CASE Kind[task[w]] = "text" /\ CommitRow(w)
      BY <2>1, <3>1, PassRefines, <1>p DEF Serial!Process
    <3>2. CASE ~(Kind[task[w]] = "text" /\ CommitRow(w))
      <4>1. UNCHANGED <<rank, done, status, logs, consents, ref, sms, crm, ghost>>
        BY <2>1, <3>2 DEF ReadSender, inbox, phone
      <4> QED
        BY <4>1, Unseen
    <3> QED
      BY <3>1, <3>2
  <2>2. CASE RecordText(w)
    BY <2>2, TextRefines, QuietRefines, <1>p DEF Serial!Process
  <2>3. CASE Confirm(w)
    BY <2>3, ConfirmRefines DEF Serial!Next
  <2> QED
    BY <1>2, <2>1, <2>2, <2>3, QuietRefines DEF Sms
<1>3. ASSUME NEW w \in Workers, Sweep(w) \/ Process(w) PROVE [Serial!Next]_(Serial!vars)
  BY <1>1, <1>2, <1>3, QuietRefines DEF Process
<1>4. ASSUME NEW r \in Reps, Drop(r) PROVE [Serial!Next]_(Serial!vars)
  BY <1>4, WorldRefines, QuietRefines DEF Drop, Serial!Next
<1>5. CASE \E e \in Events : Deliver(e)
  BY <1>0, <1>5, DeliverRefines DEF Serial!Next
<1>6. CASE \/ \E c \in Calls : Dial(c) \/ InsertDialled(c)
           \/ \E l \in Leads : DeleteLead(l)
           \/ \E n \in Numbers : EditContact(n) \/ Release(n)
  BY <1>6, WorldRefines, ReleaseRefines, QuietRefines DEF Serial!Next
<1> QED
  BY <1>3, <1>4, <1>5, <1>6, QuietRefines DEF Next

(* The initial states. *)
LEMMA InitRefines ==
    ASSUME Init
    PROVE  SerialInv /\ Serial!Init
<1>1. Stored = {}
  BY DEF Init, Stored
<1>2. SerialInv
  BY <1>1, Disjoint DEF Init, SerialInv, StoredInHand, KindInHand, LeadsHeldAreLive, OutboundOnly,
     MarkInv, LeadsForMarks, FirstMarks, Marking
<1> QED
  BY <1>1, <1>2 DEF Init, Serial!Init

-----------------------------------------------------------------------------
(* Theorems *)

(* The initial state satisfies the invariant. *)
LEMMA InitInv ==
    ASSUME Init
    PROVE  IInv
<1>1. TypeOK
  <2>1. Places /\ Hands /\ Tasks
    BY Disjoint DEF Init, Places, Hands, Tasks, PCs
  <2>2. matched \in [Actors -> BOOLEAN] /\ events \in 0 .. MaxEvents
    BY BoundsAssumption DEF Init
  <2> QED
    BY <2>1, <2>2, Disjoint DEF Init, TypeOK, Places, Hands, Tasks
<1>2. StoredFinite
  <2>1. Stored = {}
    BY DEF Init, Stored
  <2> QED
    BY <2>1, FS_EmptySet DEF StoredFinite
<1>3. LockInv /\ SmsInv /\ StopInv
  BY Disjoint DEF Init, LockInv, Exclusive, RestHoldsNothing, OwnsRow, OneConfirmer, CallbackInHand,
      CallPlaces, Rest, SmsInv, Unconfirmed, SmsExactlyOnce, StopInv, StopInHand, StopIsHonoured
<1>4. CallInv /\ ConsentInv
  BY Disjoint DEF Init, CallInv, LogsUnderLock, OneEntryPerCall, ConsentInv, ConsentInHand,
      ConsentBeforeRecording
<1> QED
  BY <1>1, <1>2, <1>3, <1>4 DEF IInv

(* The inductive invariant: types, which rows and calls the actors hold, and *)
(* what each place of a transaction may rely on.                             *)
THEOREM InboxInvariant == Spec => []IInv
<1>1. IInv /\ [Next]_vars => IInv'
  BY NextTypes, EffectOfStep, LockStep, CallStep, SmsStep, StopStep, ConsentStep DEF IInv, LockInv
<1> QED
  BY <1>1, InitInv, PTL DEF Spec

(* Every variable keeps its type. *)
THEOREM InboxTypes == Spec => []TypeOK
<1>1. IInv => TypeOK
  BY DEF IInv
<1> QED
  BY <1>1, InboxInvariant, PTL

(* processStatus writes one call activity per call, whatever terminal         *)
(* callbacks it gets and whoever processes them at the same time.            *)
THEOREM OneEntry == Spec => []OneEntryPerCall
<1>1. IInv => OneEntryPerCall
  BY DEF IInv, CallInv
<1> QED
  BY <1>1, InboxInvariant, PTL

(* processSms records and confirms a stored sms once, wherever it is cut off. *)
THEOREM SmsOnce == Spec => []SmsExactlyOnce
<1>1. IInv => SmsExactlyOnce
  BY DEF IInv, SmsInv
<1> QED
  BY <1>1, InboxInvariant, PTL

(* I-QUIET: a processed STOP leaves its number suppressed until it is released. *)
THEOREM StopsAreHonoured == Spec => []StopIsHonoured
<1>1. IInv => StopIsHonoured
  BY DEF IInv, StopInv
<1> QED
  BY <1>1, InboxInvariant, PTL

(* I-REC: no recording ref without a consent marker, but for an inbound message's and a *)
(* drop's, which come with the call's entry in the timeline.                            *)
THEOREM ConsentComesFirst == Spec => []ConsentBeforeRecording
<1>1. IInv => ConsentBeforeRecording
  BY DEF IInv, ConsentInv
<1> QED
  BY <1>1, InboxInvariant, PTL

(* process.ts: an intermediate callback writes its status without a look at the one there, *)
(* and nothing else takes back the end of a call.                                         *)
THEOREM OnlyProgressTakesBack == Spec => OnlyProgressReopens
<1>1. ASSUME IInv, Next, NEW c \in Calls, status[c] = "ended", status'[c] # "ended"
      PROVE  /\ status'[c] = "open"
             /\ \E e \in done' \ done : Kind[e] = "progress" /\ Subject[e] = c
  <2>1. ASSUME NEW w \in Workers, Advance(w)
        PROVE  /\ status'[c] = "open"
               /\ \E e \in done' \ done : Kind[e] = "progress" /\ Subject[e] = c
    <3>1. task[w] \in Events /\ task[w] \notin done /\ CallOf(w) = Subject[task[w]]
      BY <2>1, <1>1, Cast DEF Advance, IInv, LockInv, OwnsRow, Rest
    <3>2. status' = [status EXCEPT ![CallOf(w)] = "open"] /\ done' = done \cup {task[w]}
      BY <2>1 DEF Advance, CommitRow
    <3>3. CallOf(w) = c /\ status'[c] = "open"
      BY <1>1, <3>2 DEF IInv, TypeOK
    <3> QED
      BY <2>1, <3>1, <3>2, <3>3 DEF Advance
  <2>2. CASE ~ \E w \in Workers : Advance(w)
    BY <1>1, <2>2 DEF IInv, TypeOK, Next, Process, Status, Sms, Drop, Rollback, GiveUp, Goto,
        inbox, phone, sms, Deliver, Wake, Sweep, Claim, Finish, PassVoice, LoadCall, NoContact,
        CreateCall, ProbeConsent, RecordConsent, AttachRecording, Finalise, Finalised, ProbeLogged, LogCall,
        ReadSender, LookUpSuppression, InsertSuppression, ReactivateSuppression, RecordText,
        Confirm, DropVoicemail, RecheckLogged, OverwriteCall, RecordDrop, Dial, InsertDialled,
        DeleteLead, EditContact, Release, Fail, Abort
  <2> QED
    BY <2>1, <2>2
<1>2. IInv /\ [Next]_vars =>
        [\A c \in Calls :
            (status[c] = "ended" /\ status'[c] # "ended") =>
                /\ status'[c] = "open"
                /\ \E e \in done' \ done : Kind[e] = "progress" /\ Subject[e] = c]_vars
  BY <1>1
<1> QED
  BY InboxInvariant, <1>2, PTL DEF Spec, OnlyProgressReopens

(* What the refinement needs beside IInv: rows at hand are stored, each place *)
(* has callbacks of its kind, and a locked lead is not deleted.              *)
THEOREM SerialInvariant == Spec => [](IInv /\ SerialInv)
<1>1. IInv /\ SerialInv /\ [Next]_vars => SerialInv'
  BY StoredStep, KindStep, LiveStep, MarkStep DEF IInv, SerialInv
<1> QED
  BY <1>1, InboxInvariant, InitRefines, PTL DEF Spec

(* The inbox of overlapping sweeps, jobs and reps does what the serial inbox does: *)
(* process.ts processes a callback once and as a whole, whoever else is at it.     *)
THEOREM SerialRefinement == Spec => ImplementsSerialInbox
<1>1. Init => Serial!Init
  BY InitRefines
<1>2. IInv /\ SerialInv /\ [Next]_vars => [Serial!Next]_(Serial!vars)
  BY StepRefines
<1> QED
  BY <1>1, <1>2, SerialInvariant, PTL DEF Spec, ImplementsSerialInbox, Serial!Spec

=============================================================================
