------------------------------- MODULE MCProc ------------------------------
(***************************************************************************)
(* TLC instance of Proc.  The frames are interchangeable.                  *)
(***************************************************************************)
EXTENDS Proc, TLC

Symmetric == Permutations(Frames)
=============================================================================
