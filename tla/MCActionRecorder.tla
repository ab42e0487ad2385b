-------------------------- MODULE MCActionRecorder --------------------------
(* A small instance of ActionRecorder.  Of three pictures of one size two  *)
(* differ without motion, and a fourth has another size.                   *)
EXTENDS ActionRecorder

MCLuma == [level : {0, 1, 3}, size : {1}] \cup [level : {0}, size : {2}]
=============================================================================
