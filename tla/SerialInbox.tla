---------------------------- MODULE SerialInbox ----------------------------
(***************************************************************************)
(* What the telephony inbox promises, without workers, sweeps, wake-ups,   *)
(* locks and transactions: each stored callback is processed at most once, *)
(* all of it in one step, one callback after the other.  A call is logged  *)
(* by the first terminal callback that is processed, a recording is        *)
(* attached together with a consent marker if there is none, a STOP's      *)
(* number is suppressed with the row, and nothing is recorded of a lead    *)
(* that is deleted.                                                        *)
(*                                                                         *)
(* Three things are not serial in the code and are said here as they are:  *)
(* a voicemail drop logs a call that may have been logged meanwhile, a     *)
(* release takes back STOPs that have already seen the number suppressed,  *)
(* and recording callbacks that crowd a call may each leave a marker.      *)
(***************************************************************************)
EXTENDS Naturals

CONSTANTS Events, Calls, Numbers, Leads, Kind, Subject, PartyOf, OwnerOf, Bare, Outbound

VARIABLES
    stored, done,       \* callbacks
    status, logs,       \* of a call
    marks, ref,         \* of a call: its consent markers; what its recording_ref is
    crowded,            \* calls whose recording callbacks look for a marker together
    texts, confirmed,   \* of an sms
    suppression,        \* of a number
    known, deleted,     \* numbers a contact has; leads
    dropped, pardoned   \* calls with a voicemail drop; STOPs taken back

callbacks == <<stored, done>>
calls     == <<status, logs, marks, ref, crowded, dropped>>
sms       == <<texts, confirmed, suppression, pardoned>>
crm       == <<known, deleted>>
vars == <<callbacks, calls, sms, crm>>

Live(n) == OwnerOf[n] \notin deleted

\* The other end of what the callback is about.
Party(e) == IF Subject[e] \in Calls THEN PartyOf[Subject[e]] ELSE Subject[e]

Init ==
    /\ stored = {} /\ done = {}
    /\ status = [c \in Calls |-> "none"]
    /\ logs = [c \in Calls |-> 0]
    /\ marks = [c \in Calls |-> 0]
    /\ ref = [c \in Calls |-> "none"]
    /\ crowded = {} /\ dropped = {}
    /\ texts = [e \in Events |-> 0]
    /\ confirmed = [e \in Events |-> 0]
    /\ suppression = [n \in Numbers |-> "never"]
    /\ pardoned = {}
    /\ known = Numbers /\ deleted = {}

Store(e) ==
    /\ e \notin stored
    /\ stored' = stored \cup {e}
    /\ UNCHANGED <<done, calls, sms, crm>>

Processed(e) ==
    /\ e \in stored \ done
    /\ done' = done \cup {e}
    /\ UNCHANGED <<stored, crm>>

\* For audit only, or nobody to attach it to.
Pass(e) ==
    /\ Kind[e] # "stop"
    /\ Kind[e] # "voice" => e \in Bare \/ Party(e) \notin known \/ ~Live(Party(e))
    /\ Processed(e)
    /\ UNCHANGED <<calls, sms>>

Progress(e) ==
    /\ Kind[e] = "progress"
    /\ Processed(e)
    /\ status' = [status EXCEPT ![Subject[e]] = "open"]
    /\ UNCHANGED <<logs, marks, ref, crowded, dropped, sms>>

\* The first one logs the call.
Terminal(e) ==
    /\ Kind[e] \in {"ended", "message"}
    /\ Processed(e)
    /\ status' = [status EXCEPT ![Subject[e]] = "ended"]
    /\ \/ logs[Subject[e]] > 0 /\ UNCHANGED logs
       \/ /\ logs[Subject[e]] = 0
          /\ Live(Party(e))
          /\ logs' = [logs EXCEPT ![Subject[e]] = 1]
    /\ ref' = IF Kind[e] = "message" THEN [ref EXCEPT ![Subject[e]] = "message"] ELSE ref
    /\ UNCHANGED <<marks, crowded, dropped, sms>>

Records(e) == Kind[e] \in {"recording", "recorded"}

\* Two recording callbacks of a call that has no marker are being processed.
Crowd(c) ==
    /\ marks[c] = 0
    /\ \E e, f \in stored \ done : e # f /\ \A g \in {e, f} : Records(g) /\ Subject[g] = c
    /\ crowded' = crowded \cup {c}
    /\ UNCHANGED <<callbacks, status, logs, marks, ref, dropped, sms, crm>>

\* The first one leaves a marker, a later one only if they crowd the call.
Recording(e) ==
    /\ Records(e)
    /\ Processed(e)
    /\ \/ marks[Subject[e]] > 0 /\ UNCHANGED marks
       \/ /\ marks[Subject[e]] = 0 \/ Subject[e] \in crowded
          /\ Live(Party(e))
          /\ marks' = [marks EXCEPT ![Subject[e]] = @ + 1]
    /\ ref' = IF Kind[e] = "recorded" THEN [ref EXCEPT ![Subject[e]] = "recording"] ELSE ref
    /\ status' = [status EXCEPT ![Subject[e]] = IF @ = "none" THEN "open" ELSE @]
    /\ UNCHANGED <<logs, crowded, dropped, sms>>

\* The sms is on the timeline of a live lead, once.
Recorded(e) == texts[e] = 0 /\ Live(Party(e)) /\ texts' = [texts EXCEPT ![e] = 1]

Text(e) ==
    /\ Kind[e] = "text"
    /\ Processed(e)
    /\ Recorded(e)
    /\ UNCHANGED <<calls, confirmed, suppression, pardoned>>

Stop(e) ==
    /\ Kind[e] = "stop"
    /\ Processed(e)
    /\ \/ suppression' = [suppression EXCEPT ![Subject[e]] = "active"]
       \/ e \in pardoned /\ UNCHANGED suppression
    /\ Recorded(e) \/ UNCHANGED texts
    /\ UNCHANGED <<calls, confirmed, pardoned>>

Confirm(e) ==
    /\ e \in done
    /\ Kind[e] = "stop"
    /\ confirmed[e] = 0
    /\ confirmed' = [confirmed EXCEPT ![e] = 1]
    /\ UNCHANGED <<callbacks, calls, texts, suppression, pardoned, crm>>

\* The call that dialCall placed gets its row, unless a callback made it.
Dialled(c) ==
    /\ c \in Outbound
    /\ status[c] = "none"
    /\ status' = [status EXCEPT ![c] = "open"]
    /\ UNCHANGED <<callbacks, logs, marks, ref, crowded, dropped, sms, crm>>

Drop(c) ==
    /\ Live(PartyOf[c])
    /\ logs' = [logs EXCEPT ![c] = @ + 1]
    /\ status' = [status EXCEPT ![c] = "ended"]
    /\ ref' = [ref EXCEPT ![c] = "drop"]
    /\ dropped' = dropped \cup {c}
    /\ UNCHANGED <<callbacks, marks, crowded, sms, crm>>

Release(n) ==
    /\ suppression[n] = "active"
    /\ suppression' = [suppression EXCEPT ![n] = "released"]
    /\ \E early \in SUBSET {e \in stored \ done : Kind[e] = "stop" /\ Subject[e] = n} :
          pardoned' = pardoned \cup early \cup {e \in done : Kind[e] = "stop" /\ Subject[e] = n}
    /\ UNCHANGED <<callbacks, calls, texts, confirmed, crm>>

Delete(l) ==
    /\ deleted' = deleted \cup {l}
    /\ UNCHANGED <<callbacks, calls, sms, known>>

Edit(n) ==
    /\ known' \in {known \cup {n}, known \ {n}}
    /\ UNCHANGED <<callbacks, calls, sms, deleted>>

Process(e) == Pass(e) \/ Progress(e) \/ Terminal(e) \/ Recording(e) \/ Text(e) \/ Stop(e)

Next ==
    \/ \E e \in Events : Store(e) \/ Process(e) \/ Confirm(e)
    \/ \E c \in Calls : Dialled(c) \/ Drop(c) \/ Crowd(c)
    \/ \E n \in Numbers : Release(n) \/ Edit(n)
    \/ \E l \in Leads : Delete(l)

Spec == Init /\ [][Next]_vars

=============================================================================
