-------------------------- MODULE MCSendDispatch --------------------------
(***************************************************************************)
(* Instances of SendDispatch for TLC.  One lead with one or two contacts,  *)
(* one mailbox, two enrollments; the casts differ in channels and steps.   *)
(***************************************************************************)
EXTENDS SendDispatch, TLC

CONSTANTS l1, c1, c2, mail1, mail2, phone1, mb1, s1, s2, e1, e2, i1, i2, i3, i4, i5, w1, w2

OneLeadOf == c1 :> l1
OneEmailOf == c1 :> mail1
OnePhoneOf == c1 :> phone1
OneContactOf == e1 :> c1 @@ e2 :> c1
EachSequenceOf == e1 :> s1 @@ e2 :> s2
EachMailboxOf == e1 :> mb1 @@ e2 :> mb1
NoDelayOf == i1 :> 0 @@ i2 :> 0 @@ i3 :> 0
TwoAndOne == i1 :> e1 @@ i2 :> e1 @@ i3 :> e2

\* Contention: an e-mail and an sms step, and a reviewed e-mail step beside them.
MixedChannel == i1 :> "email" @@ i2 :> "sms" @@ i3 :> "email"

\* Rails: two contacts of the lead on one sequence; a call task, a conditional
\* e-mail a tick later, another contact's e-mail, one a day later and one without
\* a template.
TwoLeadOf == c1 :> l1 @@ c2 :> l1
TwoEmailOf == c1 :> mail1 @@ c2 :> mail2
TwoPhoneOf == c1 :> phone1 @@ c2 :> phone1
TwoContactOf == e1 :> c1 @@ e2 :> c2
SameSequenceOf == e1 :> s1 @@ e2 :> s1
TwoAndThree == i1 :> e1 @@ i2 :> e1 @@ i3 :> e2 @@ i4 :> e2 @@ i5 :> e2
TaskChannel == i1 :> "call_task" @@ i2 :> "email" @@ i3 :> "email" @@ i4 :> "email"
               @@ i5 :> "email"
TaskDelayOf == i1 :> 0 @@ i2 :> 1 @@ i3 :> 0 @@ i4 :> 0 @@ i5 :> 2

WorkerSymmetry == Permutations({w1, w2})
===========================================================================
