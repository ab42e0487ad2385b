---------------------------- MODULE MCJobRegistry ----------------------------
(* Model-checking instance of JobRegistry: job ids are interchangeable.    *)
EXTENDS JobRegistry, TLC

JobSymmetry == Permutations(Jobs)
=============================================================================
