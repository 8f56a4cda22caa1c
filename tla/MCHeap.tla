------------------------------- MODULE MCHeap ------------------------------
(***************************************************************************)
(* TLC instance of Heap, in bytes, with the headers and alignments of the  *)
(* two heaps and room for a handful of blocks.                             *)
(***************************************************************************)
EXTENDS Heap

KernelHeap == [user |-> FALSE, hdr |-> 12, align |-> 4, size |-> 88]
UserHeap == [user |-> TRUE, hdr |-> 16, align |-> 8, size |-> 136]

MCKinds == {KernelHeap, UserHeap}
=============================================================================
