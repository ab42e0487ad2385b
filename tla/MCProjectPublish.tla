-------------------------- MODULE MCProjectPublish --------------------------
(* A small instance of ProjectPublish: two workspaces open the project one *)
(* after the other and begin two publish operations, one each or both in   *)
(* the same workspace.                                                     *)
EXTENDS ProjectPublish

MCBudgets == {<<2, 0>>, <<1, 1>>, <<0, 2>>}
=============================================================================
