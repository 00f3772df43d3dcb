--------------------------- MODULE MCMailThreads ---------------------------
(***************************************************************************)
(* Instances of MailThreads for TLC.  Five messages of one subject: a mail *)
(* to ann, one to bob, an answer that refers to both, one more to ann that *)
(* refers to none, and an answer that refers to this and to bob's: the two *)
(* answers bridge threads that have one in common.                         *)
(***************************************************************************)
EXTENDS MailThreads, TLC

CONSTANTS w1, w2, r1, r2, ann, bob, l1, l2, hello

BridgeMentions == 1 :> {} @@ 2 :> {} @@ 3 :> {1, 2} @@ 4 :> {} @@ 5 :> {2, 4}
BridgeSubject == 1 :> hello @@ 2 :> hello @@ 3 :> hello @@ 4 :> hello @@ 5 :> hello
BridgePeople == 1 :> {ann} @@ 2 :> {bob} @@ 3 :> {ann, bob} @@ 4 :> {ann} @@ 5 :> {ann, bob}
AnnOnly == ann :> {l1} @@ bob :> {}

Symmetry == Permutations({w1, w2}) \cup Permutations({r1, r2})
=============================================================================
