----------------------------- MODULE MCOutreach -----------------------------
(***************************************************************************)
(* Instances of Outreach for TLC: an e-mail and its retry, to ann and with *)
(* bob on cc; two texts to one number and a retry of the first; and two    *)
(* calls of the dialer.  Only the texts name a contact - who does not own  *)
(* the number.                                                             *)
(***************************************************************************)
EXTENDS Outreach, TLC

CONSTANTS mail1, mail2, text1, text2, again1, call1, call2,
          k1, k2, k3, k4, ann, bob, cas, atAnn, atBob, l1, rep

Channel == mail1 :> "email" @@ mail2 :> "email" @@ text1 :> "sms" @@ text2 :> "sms"
           @@ again1 :> "sms" @@ call1 :> "call" @@ call2 :> "call"
Key == mail1 :> k1 @@ mail2 :> k1 @@ text1 :> k2 @@ again1 :> k2 @@ text2 :> k3
       @@ call1 :> k4 @@ call2 :> k4
OneRep == [r \in Requests |-> rep]
OneLead == [r \in Requests |-> l1]
Named == [r \in Requests |-> IF Channel[r] = "sms" THEN cas ELSE None]
Recipients == [r \in Requests |-> IF Channel[r] = "email" THEN {atAnn, atBob} ELSE {atBob}]
Owned == ann :> {atAnn} @@ bob :> {atBob} @@ cas :> {}
=============================================================================
