---------------------------- MODULE MCEmailSync ----------------------------
(***************************************************************************)
(* Instances of EmailSync for TLC.                                         *)
(***************************************************************************)
EXTENDS EmailSync, TLC

CONSTANTS w1, w2

WorkerSymmetry == Permutations({w1, w2})
=============================================================================
