--------------------------- MODULE Conversations ---------------------------
(***************************************************************************)
(* What the threading and triage of mail promise, without transactions,    *)
(* locks, workers or reps.  A message joins once, with all that it brings  *)
(* together: conversations only grow, a message never leaves the one it is *)
(* in but with everybody else in it, and whoever is in a matched           *)
(* conversation is on its lead's timeline from the same moment on.  What   *)
(* is on a timeline stays there, once, and nothing is written on that of a *)
(* deleted lead.  A message that joins one conversation leaves a human's   *)
(* decision, and an earlier match, alone.                                  *)
(*                                                                         *)
(* A message that brings several together decides for all of them anew:    *)
(* the code reads what was decided before it locks, so nothing is promised *)
(* of their decisions.  Neither does it promise any if one of the several  *)
(* is taken in by yet another while the message is on its way: it joins    *)
(* those that are left, and goes astray from the messages of that one.     *)
(***************************************************************************)
CONSTANTS Messages, Leads, None

VARIABLES
    home,       \* each message's conversation, named after one of its messages
    status,     \* of a conversation: none (there is none), ambiguous, matched, ignored
    lead,       \* of a matched conversation
    timeline,   \* the leads whose timeline has a message
    gone,       \* leads deleted
    astray      \* messages that joined without one of their conversations

vars == <<home, status, lead, timeline, gone, astray>>

In(T) == {x \in Messages : home[x] \in T}
Several(T) == \E s, t \in T : s # t

\* The conversation t, which takes in the others of T, is now s, for lead l.
Decided(t, T, s, l) ==
    /\ status' = [x \in Messages |-> IF x = t THEN s ELSE IF x \in T THEN "none" ELSE status[x]]
    /\ lead' = [x \in Messages |-> IF x = t THEN l ELSE IF x \in T THEN None ELSE lead[x]]

\* Each message of S that is on no timeline gets on the live lead l's.
Written(S, l) ==
    /\ l \in gone => \A x \in S : timeline[x] # {}
    /\ timeline' = [x \in Messages |-> IF x \in S /\ timeline[x] = {} THEN {l} ELSE timeline[x]]

Init ==
    /\ home = [x \in Messages |-> None]
    /\ status = [x \in Messages |-> "none"]
    /\ lead = [x \in Messages |-> None]
    /\ timeline = [x \in Messages |-> {}]
    /\ gone = {} /\ astray = {}

\* What a message m that joins the conversations T, which become t, may do to their decisions.
Respects(m, t, T, s, l) ==
    /\ T = {} => s # "ignored"
    /\ ~ Several(T) /\ t \in T /\ m \notin astray' =>
          /\ status[t] = "matched" => s = "matched" /\ l = lead[t]
          /\ status[t] = "ignored" <=> s = "ignored"

Join(m, T, t) ==
    /\ home[m] = None
    /\ \A x \in T : status[x] # "none"
    /\ t \in IF T = {} THEN {m} ELSE T
    /\ home' = [x \in Messages |-> IF x = m \/ home[x] \in T THEN t ELSE home[x]]
    /\ astray' \in {astray, astray \cup {m}}
    /\ \/ \E l \in Leads :
             Respects(m, t, T, "matched", l) /\ Decided(t, T, "matched", l) /\ Written({m} \cup In(T), l)
       \/ \E s \in {"ambiguous", "ignored"} :
             Respects(m, t, T, s, None) /\ Decided(t, T, s, None) /\ UNCHANGED timeline
    /\ UNCHANGED gone

Resolve(t, l) ==
    /\ status[t] # "none"
    /\ Decided(t, {}, "matched", l)
    /\ Written(In({t}), l)
    /\ UNCHANGED <<home, gone, astray>>

Ignore(t) ==
    /\ status[t] # "none"
    /\ Decided(t, {}, "ignored", None)
    /\ UNCHANGED <<home, timeline, gone, astray>>

Delete(l) ==
    /\ gone' = gone \cup {l}
    /\ UNCHANGED <<home, status, lead, timeline, astray>>

Next ==
    \/ \E m \in Messages : \E T \in SUBSET Messages : \E t \in T \cup {m} : Join(m, T, t)
    \/ \E t \in Messages : Ignore(t) \/ \E l \in Leads : Resolve(t, l)
    \/ \E l \in Leads : Delete(l)

Spec == Init /\ [][Next]_vars

=============================================================================
