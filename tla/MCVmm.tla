------------------------------- MODULE MCVmm -------------------------------
(***************************************************************************)
(* TLC instance of Vmm.  The frames are interchangeable.                   *)
(***************************************************************************)
EXTENDS Vmm, TLC

Symmetric == Permutations(Frames)
=============================================================================
