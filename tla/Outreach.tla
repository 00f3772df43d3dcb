------------------------------ MODULE Outreach ------------------------------
(***************************************************************************)
(* What a rep, or a client of the API, sends by hand: sendOneOff           *)
(* (services/email/send.ts), sendSms (services/sms/send.ts) and dialCall   *)
(* behind the list dialer (services/telephony).  Every engine reads the    *)
(* compliance rails one SELECT after the other, calls its provider outside *)
(* of any transaction and writes what it did afterwards; requests run side *)
(* by side, are retried with their idempotency key, and die half way.      *)
(*                                                                         *)
(* Addresses stand for mail addresses and telephone numbers, compared as   *)
(* citext and by phoneMatchKey.  Invalid requests, templates and merge     *)
(* tags end before the rails and change nothing.                           *)
(***************************************************************************)
EXTENDS Integers, FiniteSets

CONSTANTS
    Requests, Keys, Addresses, Contacts, Leads, Reps,
    None,
    ChannelOf,      \* [Requests -> Channels]
    KeyOf,          \* [Requests -> Keys]: a retry has the key of its first attempt
    RepOf,          \* [Requests -> Reps]
    LeadOf,         \* [Requests -> Leads]
    ContactOf,      \* [Requests -> Contacts \cup {None}]: the contact the caller names
    ToOf,           \* [Requests -> SUBSET Addresses]: to and cc
    AddressesOf,    \* [Contacts -> SUBSET Addresses]
    Dedupes,        \* channels whose provider honours the idempotency key
    MaxRequests,
    MaxEvents       \* disturbances: blocks, releases, deletions, crashes, lost answers

Channels == {"email", "sms", "call"}

ASSUME CastAssumption ==
    /\ ChannelOf \in [Requests -> Channels]
    /\ KeyOf \in [Requests -> Keys]
    /\ RepOf \in [Requests -> Reps]
    /\ LeadOf \in [Requests -> Leads]
    /\ ContactOf \in [Requests -> Contacts \cup {None}]
    /\ ToOf \in [Requests -> SUBSET Addresses]
    /\ AddressesOf \in [Contacts -> SUBSET Addresses]
    /\ Dedupes \subseteq {"email", "sms"}
    /\ MaxRequests \in Nat /\ MaxEvents \in Nat
    /\ None \notin Contacts
    /\ Keys \cap Requests = {}

\* A key belongs to one channel and, sent again, to one text, one lead and one destination.
ASSUME RetryAssumption ==
    \A r, s \in Requests : KeyOf[r] = KeyOf[s] =>
        /\ ChannelOf[r] = ChannelOf[s]
        /\ LeadOf[r] = LeadOf[s]
        /\ ToOf[r] = ToOf[s]

\* Lead, contact and address blocks: leads.dnc, contacts.dnc, an active suppression.
Blocks == ({"lead"} \X Leads) \cup ({"contact"} \X Contacts) \cup ({"address"} \X Addresses)

VARIABLES
    blocks, gone,   \* the blocks in force; soft-deleted leads
    texted,         \* addresses an inbound sms came from
    pc, answer,     \* each request: where its engine is, and what it returned
    plain,          \* an sms that goes out without opt-out language
    reached,        \* requests whose provider call got through to the recipient
    stored,         \* email_messages by Message-ID, sms_messages by sid
    entries,        \* email_sent and sms_sent of each message
    calls,          \* the calls row of a request: none, live, over
    events,
    standing,       \* history: blocks in force ever since the request came in
    known           \* history: was the request's message stored when it came in?

rails == <<blocks, gone>>
engine == <<pc, answer, plain>>
rows == <<stored, entries, calls>>
ghost == <<standing, known>>
vars == <<rails, texted, engine, reached, rows, events, ghost>>

-----------------------------------------------------------------------------
(* Vocabulary *)

PCs == {"new", "busy", "lead", "contact", "destination", "suppression", "prior", "ready",
        "accepted", "over"}
Answers == {"none", "sent", "deduped", "refused", "failed", "lost"}

Is(r, channel) == ChannelOf[r] = channel
Messages == Keys \cup Requests

\* deterministicMessageId; the sid, which repeats if the provider honours the key.
MessageOf(r) == IF Is(r, "email") \/ ChannelOf[r] \in Dedupes THEN KeyOf[r] ELSE r

\* Everything that forbids r, whether or not the caller names the contact.
Concerning(r) ==
    {<<"lead", LeadOf[r]>>} \cup {<<"address", a>> : a \in ToOf[r]}
        \cup {<<"contact", c>> : c \in {x \in Contacts : x = ContactOf[r] \/ AddressesOf[x] \cap ToOf[r] # {}}}

Started == {r \in Requests : pc[r] # "new"}
Happens == events < MaxEvents /\ events' = events + 1

Goto(r, p) == pc' = [pc EXCEPT ![r] = p] /\ UNCHANGED answer
Return(r, a) ==
    /\ pc' = [pc EXCEPT ![r] = "over"]
    /\ answer' = [answer EXCEPT ![r] = a]

\* One SELECT of a rail: the request goes on, or is refused and touches nothing.
Rail(r, at, forbidden, next) ==
    /\ pc[r] = at
    /\ IF forbidden THEN Return(r, "refused") ELSE Goto(r, next)
    /\ UNCHANGED <<rails, texted, plain, reached, rows, events, ghost>>

-----------------------------------------------------------------------------
(* The engines *)

Start(r) ==
    /\ pc[r] = "new"
    /\ Cardinality(Started) < MaxRequests
    /\ Goto(r, IF Is(r, "call") THEN "busy" ELSE "lead")
    /\ standing' = [standing EXCEPT ![r] = blocks]
    /\ known' = [known EXCEPT ![r] = MessageOf(r) \in stored]
    /\ UNCHANGED <<rails, texted, plain, reached, rows, events>>

\* advanceDialer: does the rep have a call in an active status?
Live(rep) == {r \in Requests : RepOf[r] = rep /\ calls[r] = "live"}
CheckBusy(r) == Rail(r, "busy", Live(RepOf[r]) # {}, "lead")

\* loadLead and lead.dnc
CheckLead(r) ==
    Rail(r, "lead", LeadOf[r] \in gone \/ <<"lead", LeadOf[r]>> \in blocks, "contact")

\* loadContact and contact.dnc, of the contact the caller names
CheckContact(r) == Rail(r, "contact", <<"contact", ContactOf[r]>> \in blocks, "destination")

\* Mutant: the contact the caller names is the only one that is looked at.
NoDncOwner(r) == {}

\* findEmailDnc, findPhoneDnc: whoever owns a destination.
DncOwner(r) == {c \in Contacts : <<"contact", c>> \in blocks /\ AddressesOf[c] \cap ToOf[r] # {}}
CheckDestination(r) == Rail(r, "destination", DncOwner(r) # {}, "suppression")

\* firstSuppressedRecipient, isPhoneSuppressed
CheckSuppression(r) ==
    Rail(r, "suppression", \E a \in ToOf[r] : <<"address", a>> \in blocks, "prior")

\* Mutant: any sms of the number counts, whoever sent it.
AnyPriorSms(r) ==
    \/ ToOf[r] \cap texted # {}
    \/ \E s \in Requests : Is(s, "sms") /\ MessageOf(s) \in stored /\ ToOf[s] = ToOf[r]

\* hasPriorOutboundSms, of the same lead and number.
PriorOutboundSms(r) ==
    \E s \in Requests : /\ Is(s, "sms") /\ MessageOf(s) \in stored
                        /\ LeadOf[s] = LeadOf[r] /\ ToOf[s] = ToOf[r]

\* Mutant: the e-mail engine leaves the lookup to the unique index.
NeverPrior(r) == FALSE

\* findByRfc, by the e-mail engine only.
PriorEmail(r) == Is(r, "email") /\ MessageOf(r) \in stored

\* The last look before the provider: a repeated e-mail ends here, an sms outside its
\* recipient's hours is refused, a first sms gets opt-out language (unless it has it).
LastLook(r) ==
    /\ pc[r] = "prior"
    /\ \/ PriorEmail(r) /\ Return(r, "deduped") /\ UNCHANGED plain
       \/ Is(r, "sms") /\ Return(r, "refused") /\ UNCHANGED plain
       \/ /\ ~ PriorEmail(r)
          /\ Goto(r, "ready")
          /\ plain' = [plain EXCEPT ![r] = Is(r, "sms") /\ PriorOutboundSms(r)]
    /\ UNCHANGED <<rails, texted, reached, rows, events, ghost>>

\* Does the provider recognise r as a repeat?
Repeats(r) == ChannelOf[r] \in Dedupes /\ \E s \in reached : KeyOf[s] = KeyOf[r]

Deliver(r) == reached' = IF Repeats(r) THEN reached ELSE reached \cup {r}

\* The call that tells the provider, and its answer.
CallProvider(r) ==
    /\ pc[r] = "ready"
    /\ \/ Deliver(r) /\ Goto(r, "accepted") /\ UNCHANGED events
       \/ Deliver(r) /\ Return(r, "failed") /\ Happens
       \/ UNCHANGED reached /\ Return(r, "failed") /\ Happens
    /\ UNCHANGED <<rails, texted, plain, rows, ghost>>

-----------------------------------------------------------------------------
(* What is written afterwards, in one transaction *)

\* Mutant: the entry is written although the row was there.
LoggedAlways(r) == [entries EXCEPT ![MessageOf(r)] = @ + 1]

\* The entries once r's message has its own: one, if the insert inserted.
Logged(r) == IF MessageOf(r) \in stored THEN entries ELSE [entries EXCEPT ![MessageOf(r)] = @ + 1]

\* persistSent and the end of sendSms: ON CONFLICT DO NOTHING, the row, its entry.
Persist(r) ==
    /\ pc[r] = "accepted"
    /\ ~ Is(r, "call")
    /\ MessageOf(r) \in stored \/ LeadOf[r] \notin gone
    /\ Return(r, IF MessageOf(r) \in stored THEN "deduped" ELSE "sent")
    /\ entries' = Logged(r)
    /\ stored' = stored \cup {MessageOf(r)}
    /\ UNCHANGED <<rails, texted, plain, reached, calls, events, ghost>>

\* The insert rolls back: the lead was deleted meanwhile, or the e-mail falls into a
\* thread (of MailThreads) that is matched to another lead.
PersistThrows(r) ==
    /\ pc[r] = "accepted"
    /\ ~ Is(r, "call")
    /\ MessageOf(r) \notin stored
    /\ Is(r, "email") \/ LeadOf[r] \in gone
    /\ Return(r, "failed")
    /\ UNCHANGED <<rails, texted, plain, reached, rows, events, ghost>>

\* dialCall's INSERT, with no regard to the lead.  It throws if the call's first callback has
\* made the row (in TwilioInbox): the unique twilio_sid is taken.
InsertCall(r) ==
    /\ pc[r] = "accepted"
    /\ Is(r, "call")
    /\ Return(r, "sent") \/ Return(r, "failed")
    /\ calls' = [calls EXCEPT ![r] = "live"]
    /\ UNCHANGED <<rails, texted, plain, reached, stored, entries, events, ghost>>

-----------------------------------------------------------------------------
(* Everybody else *)

\* The process dies, or the client's connection does: whoever asked may ask again.
Crash(r) ==
    /\ pc[r] \notin {"new", "over"}
    /\ Happens
    /\ Return(r, "lost")
    /\ UNCHANGED <<rails, texted, plain, reached, rows, ghost>>

\* The mailbox sync (EmailSync) ingests the sent copy, in a thread that is matched or not.
SyncSentCopy(r) ==
    /\ Is(r, "email")
    /\ r \in reached
    /\ MessageOf(r) \notin stored
    /\ Happens
    /\ stored' = stored \cup {MessageOf(r)}
    /\ \E matched \in BOOLEAN :
          entries' = IF matched THEN Logged(r) ELSE entries
    /\ UNCHANGED <<rails, texted, engine, reached, calls, ghost>>

\* The terminal status callback (TwilioInbox).
EndCall(r) ==
    /\ calls[r] = "live"
    /\ calls' = [calls EXCEPT ![r] = "over"]
    /\ UNCHANGED <<rails, texted, engine, reached, stored, entries, events, ghost>>

\* updateLead does not find a soft-deleted lead.
Writable(b) == \A l \in gone : b # <<"lead", l>>

\* Someone ticks dnc; a STOP or an unsubscribe suppresses.
Forbid(b) ==
    /\ b \notin blocks
    /\ Writable(b)
    /\ Happens
    /\ blocks' = blocks \cup {b}
    /\ UNCHANGED <<gone, texted, engine, reached, rows, ghost>>

Permit(b) ==
    /\ b \in blocks
    /\ Writable(b)
    /\ Happens
    /\ blocks' = blocks \ {b}
    /\ standing' = [r \in Requests |-> standing[r] \ {b}]
    /\ UNCHANGED <<gone, texted, engine, reached, rows, known>>

SoftDelete(l) ==
    /\ l \notin gone
    /\ Happens
    /\ gone' = gone \cup {l}
    /\ UNCHANGED <<blocks, texted, engine, reached, rows, ghost>>

ReceiveSms(a) ==
    /\ a \notin texted
    /\ Happens
    /\ texted' = texted \cup {a}
    /\ UNCHANGED <<rails, engine, reached, rows, ghost>>

-----------------------------------------------------------------------------
Init ==
    /\ blocks = {} /\ gone = {} /\ texted = {}
    /\ pc = [r \in Requests |-> "new"]
    /\ answer = [r \in Requests |-> "none"]
    /\ plain = [r \in Requests |-> FALSE]
    /\ reached = {}
    /\ stored = {}
    /\ entries = [m \in Messages |-> 0]
    /\ calls = [r \in Requests |-> "none"]
    /\ events = 0
    /\ standing = [r \in Requests |-> {}]
    /\ known = [r \in Requests |-> FALSE]

Step(r) ==
    \/ CheckBusy(r) \/ CheckLead(r) \/ CheckContact(r) \/ CheckDestination(r)
    \/ CheckSuppression(r) \/ LastLook(r) \/ CallProvider(r)
    \/ Persist(r) \/ PersistThrows(r) \/ InsertCall(r)

Next ==
    \/ \E r \in Requests : Start(r) \/ Step(r) \/ Crash(r) \/ SyncSentCopy(r) \/ EndCall(r)
    \/ \E b \in Blocks : Forbid(b) \/ Permit(b)
    \/ \E l \in Leads : SoftDelete(l)
    \/ \E a \in Addresses : ReceiveSms(a)

Spec == Init /\ [][Next]_vars

-----------------------------------------------------------------------------
(* Properties *)

\* Every row, request and history variable keeps its type.
TypeOK ==
    /\ blocks \subseteq Blocks /\ gone \subseteq Leads /\ texted \subseteq Addresses
    /\ pc \in [Requests -> PCs] /\ answer \in [Requests -> Answers]
    /\ plain \in [Requests -> BOOLEAN]
    /\ reached \subseteq Requests
    /\ stored \subseteq Messages
    /\ entries \in [Messages -> Nat]
    /\ calls \in [Requests -> {"none", "live", "over"}]
    /\ events \in 0..MaxEvents
    /\ standing \in [Requests -> SUBSET Blocks]
    /\ known \in [Requests -> BOOLEAN]

\* I-DNC: nobody is contacted over a block of the lead, of whoever owns a destination, or
\* of an address, that was in force when the request came in and has been ever since -
\* on any channel, whichever contact the caller names or leaves out.
BlockedIsNotContacted ==
    [][\A r \in Requests :
          r \in reached' \ reached => standing[r] \cap Concerning(r) = {}]_vars

\* The timeline shows what happened: a message has one entry at most, is stored only if it
\* reached the recipient, and an engine that answers "sent" has stored and logged it once.
TimelineIsHonest ==
    /\ \A m \in Messages : entries[m] <= 1 /\ (entries[m] = 1 => m \in stored)
    /\ \A m \in stored : \E r \in reached : MessageOf(r) = m
    /\ \A r \in Requests :
          /\ answer[r] = "sent" /\ ~ Is(r, "call") => entries[MessageOf(r)] = 1
          /\ answer[r] = "deduped" => MessageOf(r) \in stored

\* A request whose message was already stored when it came in does not reach anybody
\* again: by the e-mail engine's lookup, by the sms provider's own memory of the key.
NoRepeatOnceStored ==
    \A r \in reached : known[r] => Is(r, "call")

\* Whoever got an sms without opt-out language got one with it before.
OptOutComesFirst ==
    \A r \in reached :
        (Is(r, "sms") /\ plain[r]) =>
            \E s \in reached : Is(s, "sms") /\ ~ plain[s] /\ ToOf[s] = ToOf[r]

=============================================================================
