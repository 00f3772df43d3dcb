------------------------------ MODULE SendOnce ------------------------------
(***************************************************************************)
(* What the send engine promises about an intent, without workers, rows or *)
(* rails (CONTRACTS C6, I-SEND-1): an intent is rejected while it is open, *)
(* or claimed once; the provider is called at most once, and only under a  *)
(* claim that is already committed; a claimed intent gets its outcome only *)
(* after the call -- or fails without one, when no provider can be made -- *)
(* and no outcome is ever rewritten.  A claim that takes too long may be   *)
(* expired, which neither reopens the intent nor calls the provider: the   *)
(* worker that was given up on may still make its one call and report.     *)
(***************************************************************************)
EXTENDS Naturals

CONSTANT Intents

VARIABLES phase, called

Outcomes == {"SENT", "SKIPPED", "BLOCKED", "FAILED"}
Phases   == {"open", "claimed", "expired"} \cup Outcomes

Init ==
    /\ phase = [i \in Intents |-> "open"]
    /\ called = [i \in Intents |-> 0]

\* Open intents are rejected by a rail, or need no provider.
Reject(i) ==
    /\ phase[i] = "open"
    /\ \E o \in Outcomes : phase' = [phase EXCEPT ![i] = o]
    /\ UNCHANGED called

Take(i) ==
    /\ phase[i] = "open"
    /\ phase' = [phase EXCEPT ![i] = "claimed"]
    /\ UNCHANGED called

Expire(S) ==
    /\ \A i \in S : phase[i] = "claimed"
    /\ phase' = [i \in Intents |-> IF i \in S THEN "expired" ELSE phase[i]]
    /\ UNCHANGED called

Call(i) ==
    /\ phase[i] \in {"claimed", "expired"}
    /\ called[i] = 0
    /\ called' = [called EXCEPT ![i] = 1]
    /\ UNCHANGED phase

Report(i) ==
    /\ phase[i] \in {"claimed", "expired"}
    /\ called[i] = 1
    /\ \E o \in Outcomes : phase' = [phase EXCEPT ![i] = o]
    /\ UNCHANGED called

GiveUp(i) ==
    /\ phase[i] \in {"claimed", "expired"}
    /\ called[i] = 0
    /\ phase' = [phase EXCEPT ![i] = "FAILED"]
    /\ UNCHANGED called

Next ==
    \/ \E i \in Intents : Reject(i) \/ Take(i) \/ Call(i) \/ Report(i) \/ GiveUp(i)
    \/ \E S \in SUBSET Intents : Expire(S)

Spec == Init /\ [][Next]_<<phase, called>>

=============================================================================
