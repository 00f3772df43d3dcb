--------------------------- MODULE EventDelivery ---------------------------
(***************************************************************************)
(* What the webhook outbox promises about an event, without queue, jobs,   *)
(* workers or timers.  An event is POSTed after its transaction commits    *)
(* and until it has an outcome, MaxAttempts times plus once for each POST  *)
(* whose outcome was forgotten.  It is delivered when the subscriber has   *)
(* accepted it, given up after MaxAttempts answers or because its          *)
(* subscription was withdrawn, and for good.                               *)
(*                                                                         *)
(* Nothing forbids two runs of one delivery but a lock that can be lost    *)
(* (`loose' says for which events it was): those can be POSTed again and   *)
(* their outcome replaced, but what is delivered was accepted, and what is *)
(* given up was POSTed MaxAttempts times or withdrawn, even so.            *)
(***************************************************************************)
EXTENDS Naturals

CONSTANTS Events, MaxAttempts

VARIABLES
    outcome,    \* of each event
    sent,       \* POSTs
    forgotten,  \* POSTs whose outcome was not recorded
    accepted,   \* events that the subscriber accepted
    withdrawn,  \* events about to be given up for an inactive subscription
    loose       \* events whose lock was lost

vars == <<outcome, sent, forgotten, accepted, withdrawn, loose>>

Committed == {"pending", "delivered", "failed"}

Open(e) == outcome[e] = "pending" \/ (e \in loose /\ outcome[e] \in Committed)

Becomes(e, o) == outcome' = [outcome EXCEPT ![e] = o]

\* Whoever saw the subscription inactive is done, or goes on to be.
MayForget(e) == withdrawn' \in {withdrawn, withdrawn \ {e}}

Init ==
    /\ outcome = [e \in Events |-> "none"]
    /\ sent = [e \in Events |-> 0]
    /\ forgotten = [e \in Events |-> 0]
    /\ accepted = {}
    /\ withdrawn = {}
    /\ loose = {}

Stage(e) ==
    /\ outcome[e] = "none"
    /\ Becomes(e, "staged")
    /\ UNCHANGED <<sent, forgotten, accepted, withdrawn, loose>>

EndTransaction(e) ==
    /\ outcome[e] = "staged"
    /\ Becomes(e, "pending") \/ Becomes(e, "aborted")
    /\ UNCHANGED <<sent, forgotten, accepted, withdrawn, loose>>

Post(e) ==
    /\ Open(e)
    /\ e \in loose \/ sent[e] < MaxAttempts + forgotten[e]
    /\ sent' = [sent EXCEPT ![e] = @ + 1]
    /\ accepted' \in {accepted, accepted \cup {e}}
    /\ UNCHANGED <<outcome, forgotten, withdrawn, loose>>

Forget(e) ==
    /\ e \in loose \/ forgotten[e] < sent[e]
    /\ forgotten' = [forgotten EXCEPT ![e] = @ + 1]
    /\ UNCHANGED <<outcome, sent, accepted, withdrawn, loose>>

Deliver(e) ==
    /\ Open(e)
    /\ e \in accepted
    /\ Becomes(e, "delivered")
    /\ UNCHANGED <<sent, forgotten, accepted, withdrawn, loose>>

\* MaxAttempts POSTs were answered; of a loose event, MaxAttempts were made.
Exhausted(e) == sent[e] >= MaxAttempts + (IF e \in loose THEN 0 ELSE forgotten[e])

GiveUp(e) ==
    /\ Open(e)
    /\ e \in withdrawn \/ Exhausted(e)
    /\ Becomes(e, "failed")
    /\ MayForget(e)
    /\ UNCHANGED <<sent, forgotten, accepted, loose>>

\* A subscription is found inactive, while the event has no outcome.
Withdraw(e) ==
    /\ outcome[e] = "pending"
    /\ withdrawn' = withdrawn \cup {e}
    /\ UNCHANGED <<outcome, sent, forgotten, accepted, loose>>

Reconsider(e) ==
    /\ MayForget(e)
    /\ UNCHANGED <<outcome, sent, forgotten, accepted, loose>>

Loosen(e) ==
    /\ loose' = loose \cup {e}
    /\ UNCHANGED <<outcome, sent, forgotten, accepted, withdrawn>>

Reopen(e) ==
    /\ e \in loose
    /\ Open(e)
    /\ Becomes(e, "pending")
    /\ UNCHANGED <<sent, forgotten, accepted, withdrawn, loose>>

Next ==
    \E e \in Events :
        \/ Stage(e) \/ EndTransaction(e)
        \/ Post(e) \/ Forget(e) \/ Deliver(e) \/ GiveUp(e)
        \/ Withdraw(e) \/ Reconsider(e) \/ Loosen(e) \/ Reopen(e)

Spec == Init /\ [][Next]_vars

=============================================================================
