----------------------------- MODULE MCTaskStore -----------------------------
(* Model-checking instance of TaskStore: a thread in each of two processes. *)
EXTENDS TaskStore, TLC

CONSTANTS p1, p2, a1, a2

TwoProcesses == (a1 :> p1) @@ (a2 :> p2)
=============================================================================
