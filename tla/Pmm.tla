-------------------------------- MODULE Pmm --------------------------------
(***************************************************************************)
(* The physical memory manager, kernel/pmm.c: a bitmap of frames in use, a *)
(* reference count per frame, a count of the frames in use and a hint      *)
(* where the next search starts.                                           *)
(*                                                                         *)
(* A physical address MANAGED_BASE + i * PAGE_SIZE is the integer i;       *)
(* addresses below MANAGED_BASE are the negative integers.  The callers    *)
(* are the address spaces of kernel/vmm.c: they free and share frames they *)
(* hold, and the history variable held counts the references they have.    *)
(* Calls on addresses nobody holds (a double free, a reserved or           *)
(* out-of-range address) are part of the model: the code promises to       *)
(* ignore them.                                                            *)
(***************************************************************************)
EXTENDS Integers, FiniteSets

CONSTANTS MemFrames,   \* (mem_bytes - MANAGED_BASE) / PAGE_SIZE
          MaxFrames,   \* MAX_FRAMES, the size of the bitmap
          RefMax,      \* the largest value of a uint8_t counter (255)
          MaxHeld      \* bound: references the callers ever have to one frame

ASSUME PmmAssumption ==
  /\ MemFrames \in Int
  /\ MaxFrames \in Nat
  /\ RefMax \in Nat \ {0}
  /\ MaxHeld \in Nat \ {0}
  /\ MaxHeld <= RefMax   \* MAX_PROCS (16) address spaces share a page at most

(* pmm_install: how many frames are managed; fixed from boot on.           *)
total_frames == IF MemFrames <= 0 THEN 0
                ELSE IF MemFrames > MaxFrames THEN MaxFrames ELSE MemFrames

Slots == 0..(MaxFrames - 1)      \* the indices of bitmap[] and refcount[]
Index == 0..(total_frames - 1)   \* the frames that are managed
Phys  == -1..MaxFrames           \* addresses a caller may pass
NoFrame == -1                    \* pmm_alloc returned 0

VARIABLES bitmap, refcount, used_frames, next_hint,
          held,                  \* history: references the callers have
          got                    \* what the last pmm_alloc returned

pmmVars == <<bitmap, refcount, used_frames, next_hint>>
vars == <<bitmap, refcount, used_frames, next_hint, held, got>>

Init == /\ bitmap = [i \in Slots |-> FALSE]
        /\ refcount = [i \in Slots |-> 0]
        /\ used_frames = 0
        /\ next_hint = 0
        /\ held = [i \in Index |-> 0]
        /\ got = NoFrame

-----------------------------------------------------------------------------
(* The frames a search from start to end - 1 finds clear.                  *)
Clear_LastSkipped(start, end) == {i \in start..(end - 2) : ~bitmap[i]}

Clear(start, end) == {i \in start..(end - 1) : ~bitmap[i]}

(* The two passes of pmm_alloc: from the hint up, then from 0 to the hint. *)
Scan == IF Clear(next_hint, total_frames) # {}
        THEN Clear(next_hint, total_frames)
        ELSE Clear(0, next_hint)

pmm_alloc ==
  \/ \E i \in Scan :
       /\ \A j \in Scan : i <= j
       /\ bitmap' = [bitmap EXCEPT ![i] = TRUE]
       /\ refcount' = [refcount EXCEPT ![i] = 1]
       /\ used_frames' = used_frames + 1
       /\ next_hint' = i + 1
       /\ got' = i
       /\ held' = [held EXCEPT ![i] = @ + 1]
  \/ /\ Scan = {}
     /\ got' = NoFrame
     /\ UNCHANGED <<pmmVars, held>>

(* The addresses pmm_free and pmm_incref act on: managed and in use.       *)
Managed_AnyIndex(i) == i >= 0 /\ i < MaxFrames

Managed(i) == i >= 0 /\ i < total_frames /\ bitmap[i]

(* A frame with other holders left only loses a reference.                 *)
DropReference(i) == /\ refcount' = [refcount EXCEPT ![i] = @ - 1]
                    /\ UNCHANGED <<bitmap, used_frames, next_hint>>

Reclaim_HintKept(i) == /\ refcount' = [refcount EXCEPT ![i] = 0]
                       /\ bitmap' = [bitmap EXCEPT ![i] = FALSE]
                       /\ used_frames' = used_frames - 1
                       /\ UNCHANGED next_hint

Reclaim_NotCounted(i) == /\ refcount' = [refcount EXCEPT ![i] = 0]
                         /\ bitmap' = [bitmap EXCEPT ![i] = FALSE]
                         /\ next_hint' = IF i < next_hint THEN i ELSE next_hint
                         /\ UNCHANGED used_frames

Reclaim(i) == /\ refcount' = [refcount EXCEPT ![i] = 0]
              /\ bitmap' = [bitmap EXCEPT ![i] = FALSE]
              /\ used_frames' = used_frames - 1
              /\ next_hint' = IF i < next_hint THEN i ELSE next_hint

pmm_free_Unshared(i) == \/ ~Managed(i) /\ UNCHANGED pmmVars
                        \/ Managed(i) /\ Reclaim(i)

pmm_free(i) == \/ ~Managed(i) /\ UNCHANGED pmmVars
               \/ Managed(i) /\ refcount[i] > 1 /\ DropReference(i)
               \/ Managed(i) /\ refcount[i] <= 1 /\ Reclaim(i)

pmm_incref(i) ==
  /\ refcount' = IF Managed(i) /\ refcount[i] < RefMax
                 THEN [refcount EXCEPT ![i] = @ + 1] ELSE refcount
  /\ UNCHANGED <<bitmap, used_frames, next_hint>>

-----------------------------------------------------------------------------
(* A holder lets go of, or shares, a frame it holds.                       *)
Release(i) == /\ held[i] > 0
              /\ pmm_free(i)
              /\ held' = [held EXCEPT ![i] = @ - 1]
              /\ UNCHANGED got

Share(i) == /\ held[i] \in 1..(MaxHeld - 1)
            /\ pmm_incref(i)
            /\ held' = [held EXCEPT ![i] = @ + 1]
            /\ UNCHANGED got

(* A call on an address that nobody holds.                                 *)
Stray(i) == /\ (i \in Index) => (held[i] = 0)
            /\ pmm_free(i) \/ pmm_incref(i)
            /\ UNCHANGED <<held, got>>

Next == \/ pmm_alloc
        \/ \E i \in Index : Release(i) \/ Share(i)
        \/ \E i \in Phys : Stray(i)

Spec == Init /\ [][Next]_vars

-----------------------------------------------------------------------------
(* The types of the allocator's variables (pmm.c:29-33).                   *)
TypeOK == /\ bitmap \in [Slots -> BOOLEAN]
          /\ refcount \in [Slots -> 0..RefMax]
          /\ used_frames \in 0..total_frames
          /\ next_hint \in 0..total_frames
          /\ held \in [Index -> 0..MaxHeld]
          /\ got \in Index \cup {NoFrame}

(* A frame's counter is the number of references its holders have, and its *)
(* bit is set exactly while somebody holds it: "must not be reclaimed      *)
(* until the last of them lets go" (pmm.c:9-11), and no stray call to      *)
(* pmm_free or pmm_incref disturbs a frame (pmm.c:80).                     *)
CountsExact ==
  \A i \in Slots :
    IF i \in Index THEN /\ refcount[i] = held[i]
                        /\ bitmap[i] <=> held[i] > 0
    ELSE ~bitmap[i] /\ refcount[i] = 0

(* pmm_used_frames and pmm_free_frames (pmm.c:117-118), which the shell    *)
(* prints to show that nothing leaks, report the bitmap truthfully.        *)
UsedExact == used_frames = Cardinality({i \in Slots : bitmap[i]})

(* No frame below the hint is free.  This is why the second pass of        *)
(* pmm_alloc never finds anything, and why the search is first fit.        *)
HintInv == \A j \in 0..(next_hint - 1) : bitmap[j]

(* "Allocation scans for the first clear bit" (pmm.c:5): of all the free   *)
(* frames the one that gets allocated is the lowest, whatever frees came   *)
(* before, although the search starts at the hint.                         *)
FirstFit == [][\A i \in Slots :
                 ~bitmap[i] /\ bitmap'[i] => \A j \in 0..(i - 1) : bitmap[j]]_vars

(* The allocator implements the abstract pool: a request is answered with  *)
(* a frame nobody holds and refused only if there is none.                 *)
Pool == INSTANCE FramePool WITH Frames <- Index
PoolSpec == Pool!Spec
=============================================================================
