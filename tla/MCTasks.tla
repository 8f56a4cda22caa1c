------------------------------ MODULE MCTasks ------------------------------
(***************************************************************************)
(* TLC instance of Tasks.                                                  *)
(***************************************************************************)
EXTENDS Tasks
=============================================================================
