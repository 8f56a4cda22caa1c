------------------------------- MODULE MCPmm -------------------------------
(***************************************************************************)
(* TLC instance of Pmm: four managed frames of a bitmap of five, counters  *)
(* that saturate at the number of holders a frame may have.                *)
(***************************************************************************)
EXTENDS Pmm
=============================================================================
