---------------------------- MODULE MCImportRun ----------------------------
(* A file of four rows: a new lead that the file has twice, and one that is  *)
(* in the CRM already, once without a name.                                  *)
EXTENDS ImportRun, TLC

FileKeys == <<"ada", "known.io", "ada", "known.io">>
CommitterSymmetry == Permutations(Committers)

=============================================================================
