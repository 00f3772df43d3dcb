--------------------------- MODULE MCTwilioInbox ---------------------------
(***************************************************************************)
(* Instances of TwilioInbox for TLC: one lead with one number, a call      *)
(* either way, and one or two callbacks of each kind.                      *)
(***************************************************************************)
EXTENDS TwilioInbox, TLC

CONSTANTS
    l1, n1, c1, c2, w1, w2, r1,
    voice1, message1,                                      \* callbacks of c1
    progress2, ended2, again2, recording2, recorded2,    \* callbacks of c2
    stop1, stop2, text1                                  \* sms from n1

KindOf ==
    [e \in Events |->
        CASE e = voice1 -> "voice"
          [] e = progress2 -> "progress"
          [] e \in {ended2, again2} -> "ended"
          [] e = message1 -> "message"
          [] e = recording2 -> "recording"
          [] e = recorded2 -> "recorded"
          [] e \in {stop1, stop2} -> "stop"
          [] e = text1 -> "text"]

SubjectOf ==
    [e \in Events |->
        CASE e \in {voice1, message1} -> c1
          [] e \in {progress2, ended2, again2, recording2, recorded2} -> c2
          [] e \in {stop1, stop2, text1} -> n1]

OneParty == [c \in Calls |-> n1]
OneOwner == [n \in Numbers |-> l1]

WorkerSymmetry == Permutations({w1, w2})
===========================================================================
