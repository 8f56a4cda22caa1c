----------------------------- MODULE FramePool -----------------------------
(***************************************************************************)
(* What the physical memory manager promises its callers, with the bitmap, *)
(* the byte-sized counters and the search hint left out: a pool of frames, *)
(* each with the number of references its holders have.  A request is      *)
(* answered with a frame nobody holds, and refused only when every frame   *)
(* is held.  A frame goes back to the pool when its last holder lets go,   *)
(* and not before.                                                         *)
(***************************************************************************)
EXTENDS Naturals

CONSTANTS Frames,      \* the frames of the pool
          NoFrame      \* the answer to a request that is refused

VARIABLES held,        \* references to each frame that holders have
          got          \* the answer to the last request

vars == <<held, got>>

Init == /\ held = [f \in Frames |-> 0]
        /\ got = NoFrame

Grant(f) == /\ held[f] = 0
            /\ held' = [held EXCEPT ![f] = 1]
            /\ got' = f

Refuse == /\ \A f \in Frames : held[f] > 0
          /\ got' = NoFrame
          /\ UNCHANGED held

Share(f) == /\ held[f] > 0
            /\ held' = [held EXCEPT ![f] = @ + 1]
            /\ UNCHANGED got

Release(f) == /\ held[f] > 0
              /\ held' = [held EXCEPT ![f] = @ - 1]
              /\ UNCHANGED got

Next == \/ \E f \in Frames : Grant(f) \/ Share(f) \/ Release(f)
        \/ Refuse

Spec == Init /\ [][Next]_vars
=============================================================================
