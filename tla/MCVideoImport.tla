---------------------------- MODULE MCVideoImport ----------------------------
(* The home screen's imports, with interchangeable job identities.         *)
EXTENDS VideoImport, TLC

JobSymmetry == Permutations(Jobs)
=============================================================================
