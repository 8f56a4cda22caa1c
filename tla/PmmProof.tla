------------------------------ MODULE PmmProof -----------------------------
(***************************************************************************)
(* Proofs about Pmm.tla, for every number of frames and every bound on the *)
(* references.  The inductive invariant IndInv is the conjunction of what  *)
(* the runs check and of HintInv: that a grant is first fit, and even that *)
(* the second pass of pmm_alloc is never needed, rests on no frame below   *)
(* the hint being free.                                                    *)
(***************************************************************************)
EXTENDS Pmm, FiniteSetTheorems, TLAPS

(* The inductive invariant.                                                *)
IndInv == TypeOK /\ CountsExact /\ UsedExact /\ HintInv

UsedSet(b) == {i \in Slots : b[i]}

-----------------------------------------------------------------------------
(* The managed frames are an initial part of the bitmap.                   *)
LEMMA Bounds ==
  /\ total_frames \in Nat
  /\ total_frames <= MaxFrames
  /\ Index \subseteq Slots
  /\ IsFiniteSet(Slots)
  /\ IsFiniteSet(Index)
  /\ Cardinality(Index) = total_frames
<1>1. total_frames \in Nat /\ total_frames <= MaxFrames
  BY PmmAssumption DEF total_frames
<1>2. Index \subseteq Slots
  BY <1>1, PmmAssumption DEF Index, Slots
<1>3. IsFiniteSet(Slots)
  BY FS_Interval, PmmAssumption DEF Slots
<1>4. /\ IsFiniteSet(Index)
      /\ Cardinality(Index) = IF 0 > total_frames - 1 THEN 0
                              ELSE (total_frames - 1) - 0 + 1
  BY FS_Interval, <1>1 DEF Index
<1>5. Cardinality(Index) = total_frames
  BY <1>1, <1>4
<1> QED BY <1>1, <1>2, <1>3, <1>4, <1>5

(* Setting a clear bit adds one to the frames in use; clearing a set bit   *)
(* takes one away.                                                         *)
LEMMA SetBit ==
  ASSUME NEW b \in [Slots -> BOOLEAN], NEW i \in Slots, ~b[i]
  PROVE  /\ Cardinality(UsedSet(b)) \in Nat
         /\ Cardinality(UsedSet([b EXCEPT ![i] = TRUE])) = Cardinality(UsedSet(b)) + 1
<1>1. IsFiniteSet(UsedSet(b))
  BY Bounds, FS_Subset DEF UsedSet
<1>2. UsedSet([b EXCEPT ![i] = TRUE]) = UsedSet(b) \cup {i}
  BY DEF UsedSet
<1>3. i \notin UsedSet(b)
  BY DEF UsedSet
<1>4. Cardinality(UsedSet(b)) \in Nat
  BY <1>1, FS_CardinalityType
<1>5. Cardinality(UsedSet(b) \cup {i}) = Cardinality(UsedSet(b)) + 1
  BY <1>1, <1>3, FS_AddElement
<1> QED BY <1>2, <1>4, <1>5

LEMMA ClearBit ==
  ASSUME NEW b \in [Slots -> BOOLEAN], NEW i \in Slots, b[i]
  PROVE  /\ Cardinality(UsedSet(b)) \in Nat
         /\ Cardinality(UsedSet([b EXCEPT ![i] = FALSE])) = Cardinality(UsedSet(b)) - 1
<1>1. IsFiniteSet(UsedSet(b))
  BY Bounds, FS_Subset DEF UsedSet
<1>2. UsedSet([b EXCEPT ![i] = FALSE]) = UsedSet(b) \ {i}
  BY DEF UsedSet
<1>3. i \in UsedSet(b)
  BY DEF UsedSet
<1>4. Cardinality(UsedSet(b)) \in Nat
  BY <1>1, FS_CardinalityType
<1>5. Cardinality(UsedSet(b) \ {i}) = Cardinality(UsedSet(b)) - 1
  BY <1>1, <1>3, FS_RemoveElement
<1> QED BY <1>2, <1>4, <1>5

(* If only managed frames are in use, no more than total_frames are.       *)
LEMMA UsedBound ==
  ASSUME NEW b \in [Slots -> BOOLEAN], \A i \in Slots \ Index : ~b[i]
  PROVE  Cardinality(UsedSet(b)) \in 0..total_frames
<1>1. UsedSet(b) \subseteq Index
  BY DEF UsedSet
<1>2. /\ IsFiniteSet(UsedSet(b))
      /\ Cardinality(UsedSet(b)) <= Cardinality(Index)
  BY <1>1, Bounds, FS_Subset
<1>3. Cardinality(UsedSet(b)) \in Nat
  BY <1>2, FS_CardinalityType
<1> QED BY <1>2, <1>3, Bounds

-----------------------------------------------------------------------------
(* At boot every frame is free (pmm_install).                              *)
LEMMA InitIndInv == Init => IndInv
<1> SUFFICES ASSUME Init PROVE IndInv
  OBVIOUS
<1>1. TypeOK
  BY Bounds, PmmAssumption DEF Init, TypeOK, Slots, Index
<1>2. CountsExact
  BY Bounds DEF Init, CountsExact
<1>3. UsedExact
  <2>1. {i \in Slots : bitmap[i]} = {}
    BY DEF Init
  <2> QED BY <2>1, FS_EmptySet DEF Init, UsedExact
<1>4. HintInv
  BY DEF Init, HintInv
<1> QED BY <1>1, <1>2, <1>3, <1>4 DEF IndInv

(* Below the hint nothing is clear, so the search of pmm_alloc looks at    *)
(* every managed frame that is clear and its second pass finds none.       *)
LEMMA ScanIsClear ==
  ASSUME TypeOK, HintInv
  PROVE  Scan = {i \in Index : ~bitmap[i]}
<1>1. Clear(0, next_hint) = {}
  BY DEF HintInv, Clear
<1>2. Clear(next_hint, total_frames) = {i \in Index : ~bitmap[i]}
  BY Bounds DEF TypeOK, HintInv, Clear, Index
<1> QED BY <1>1, <1>2 DEF Scan

(* A grant: the least clear frame, whose number the hint then follows.     *)
LEMMA GrantPreserves ==
  ASSUME IndInv, NEW i \in Scan, \A j \in Scan : i <= j,
         bitmap' = [bitmap EXCEPT ![i] = TRUE],
         refcount' = [refcount EXCEPT ![i] = 1],
         used_frames' = used_frames + 1,
         next_hint' = i + 1,
         got' = i,
         held' = [held EXCEPT ![i] = @ + 1]
  PROVE  IndInv'
<1>1. i \in Index /\ i \in Slots /\ ~bitmap[i] /\ \A j \in Index : ~bitmap[j] => i <= j
  BY ScanIsClear, Bounds DEF IndInv
<1>2. refcount[i] = 0 /\ held[i] = 0
  BY <1>1, PmmAssumption DEF IndInv, CountsExact, TypeOK
<1>3. bitmap' \in [Slots -> BOOLEAN]
  BY <1>1 DEF IndInv, TypeOK
<1>4. CountsExact'
  <2> SUFFICES ASSUME NEW k \in Slots
               PROVE  IF k \in Index THEN /\ refcount'[k] = held'[k]
                                          /\ bitmap'[k] <=> held'[k] > 0
                      ELSE ~bitmap'[k] /\ refcount'[k] = 0
    BY DEF CountsExact
  <2>1. CASE k = i
    BY <2>1, <1>1, <1>2 DEF IndInv, TypeOK
  <2>2. CASE k # i
    BY <2>2, <1>1 DEF IndInv, TypeOK, CountsExact
  <2> QED BY <2>1, <2>2
<1>5. UsedExact'
  BY <1>1, SetBit DEF IndInv, TypeOK, UsedExact, UsedSet
<1>6. used_frames' \in 0..total_frames
  <2>1. \A k \in Slots \ Index : ~bitmap'[k]
    BY <1>4 DEF CountsExact
  <2> QED BY <2>1, <1>3, <1>5, UsedBound DEF UsedExact, UsedSet
<1>7. TypeOK'
  BY <1>1, <1>2, <1>3, <1>6, Bounds, PmmAssumption DEF IndInv, TypeOK, Index
<1>8. HintInv'
  <2> SUFFICES ASSUME NEW j \in 0..i PROVE bitmap'[j]
    BY <1>1, Bounds DEF HintInv, Index
  <2>1. j \in Index /\ j \in Slots
    BY <1>1, Bounds DEF Index
  <2>2. CASE j = i
    BY <2>2, <1>1 DEF IndInv, TypeOK
  <2>3. CASE j < i
    BY <2>3, <2>1, <1>1, Bounds DEF IndInv, TypeOK, Index
  <2> QED BY <2>2, <2>3, <1>1, Bounds DEF Index
<1> QED BY <1>4, <1>5, <1>7, <1>8 DEF IndInv

(* A call on an address that nobody holds changes nothing: the address is  *)
(* not managed or its bit is clear.                                        *)
LEMMA StrayIgnored ==
  ASSUME IndInv, NEW i \in Phys, Stray(i)
  PROVE  UNCHANGED vars
<1>1. ~Managed(i)
  BY Bounds, PmmAssumption DEF Stray, Managed, IndInv, CountsExact, TypeOK, Index, Phys
<1> QED BY <1>1 DEF Stray, pmm_free, pmm_incref, pmmVars, vars

(* A frame that somebody holds is managed, and its counter is exact.       *)
LEMMA HeldIsManaged ==
  ASSUME IndInv, NEW i \in Index, held[i] > 0
  PROVE  i \in Slots /\ Managed(i) /\ refcount[i] = held[i] /\ held[i] \in 1..MaxHeld /\ bitmap[i]
<1>1. i \in Slots
  BY Bounds
<1>2. refcount[i] = held[i] /\ bitmap[i]
  BY <1>1 DEF IndInv, CountsExact
<1>3. i >= 0 /\ i < total_frames
  BY Bounds DEF Index
<1>4. held[i] \in 1..MaxHeld
  BY PmmAssumption DEF IndInv, TypeOK
<1> QED BY <1>1, <1>2, <1>3, <1>4 DEF Managed

(* A holder's frame is managed, so its release takes one reference away,   *)
(* and the frame too when the reference was the last.                      *)
LEMMA ReleasePreserves ==
  ASSUME IndInv, NEW i \in Index, Release(i)
  PROVE  IndInv'
<1>1. i \in Slots /\ Managed(i) /\ refcount[i] = held[i] /\ held[i] \in 1..MaxHeld /\ bitmap[i]
  BY HeldIsManaged DEF Release
<1>2. held' = [held EXCEPT ![i] = held[i] - 1] /\ got' = got
  BY DEF Release
<1>3. CASE refcount[i] > 1 /\ DropReference(i)
  <2>1. TypeOK'
    BY <1>1, <1>2, <1>3, PmmAssumption DEF IndInv, TypeOK, DropReference
  <2>2. CountsExact'
    BY <1>1, <1>2, <1>3 DEF IndInv, TypeOK, CountsExact, DropReference
  <2>3. UsedExact' /\ HintInv'
    BY <1>3 DEF IndInv, UsedExact, HintInv, DropReference
  <2> QED BY <2>1, <2>2, <2>3 DEF IndInv
<1>4. CASE refcount[i] <= 1 /\ Reclaim(i)
  <2>1. bitmap' = [bitmap EXCEPT ![i] = FALSE] /\ bitmap' \in [Slots -> BOOLEAN]
    BY <1>1, <1>4 DEF IndInv, TypeOK, Reclaim
  <2>2. CountsExact'
    BY <1>1, <1>2, <1>4 DEF IndInv, TypeOK, CountsExact, Reclaim
  <2>3. UsedExact'
    BY <1>1, <1>4, <2>1, ClearBit DEF IndInv, TypeOK, UsedExact, UsedSet, Reclaim
  <2>4. used_frames' \in 0..total_frames
    <3>1. \A k \in Slots \ Index : ~bitmap'[k]
      BY <2>2 DEF CountsExact
    <3> QED BY <3>1, <2>1, <2>3, UsedBound DEF UsedExact, UsedSet
  <2>5. TypeOK'
    BY <1>1, <1>2, <1>4, <2>1, <2>4, Bounds, PmmAssumption DEF IndInv, TypeOK, Reclaim, Index
  <2>6. HintInv'
    BY <1>1, <1>4, <2>1, Bounds, PmmAssumption DEF IndInv, TypeOK, HintInv, Reclaim, Slots, Index
  <2> QED BY <2>2, <2>3, <2>5, <2>6 DEF IndInv
<1> QED BY <1>1, <1>3, <1>4 DEF Release, pmm_free

(* Sharing a held frame counts one reference more; the counter has room,   *)
(* because no frame has more holders than a uint8_t can count.             *)
LEMMA SharePreserves ==
  ASSUME IndInv, NEW i \in Index, Share(i)
  PROVE  IndInv'
<1>1. i \in Slots /\ Managed(i) /\ refcount[i] = held[i] /\ refcount[i] < RefMax
  <2>1. held[i] > 0 /\ held[i] < MaxHeld
    BY PmmAssumption DEF Share
  <2>2. i \in Slots /\ Managed(i) /\ refcount[i] = held[i] /\ held[i] \in 1..MaxHeld
    BY <2>1, HeldIsManaged
  <2> QED BY <2>1, <2>2, PmmAssumption
<1>2. refcount' = [refcount EXCEPT ![i] = refcount[i] + 1]
  BY <1>1 DEF Share, pmm_incref
<1>3. held' = [held EXCEPT ![i] = held[i] + 1] /\ held[i] \in 1..(MaxHeld - 1)
  BY DEF Share
<1>4. UNCHANGED <<bitmap, used_frames, next_hint, got>>
  BY DEF Share, pmm_incref
<1>5. TypeOK'
  BY <1>1, <1>2, <1>3, <1>4, PmmAssumption DEF IndInv, TypeOK
<1>6. CountsExact'
  BY <1>1, <1>2, <1>3, <1>4, PmmAssumption DEF IndInv, TypeOK, CountsExact
<1>7. UsedExact' /\ HintInv'
  BY <1>4 DEF IndInv, UsedExact, HintInv
<1> QED BY <1>5, <1>6, <1>7 DEF IndInv

(* Every step of the allocator and of its callers keeps the invariant.     *)
LEMMA NextIndInv == IndInv /\ [Next]_vars => IndInv'
<1> SUFFICES ASSUME IndInv, [Next]_vars PROVE IndInv'
  OBVIOUS
<1>1. CASE pmm_alloc
  <2>1. CASE Scan # {}
    BY <2>1, <1>1, GrantPreserves DEF pmm_alloc
  <2>2. CASE Scan = {}
    BY <2>2, <1>1 DEF pmm_alloc, pmmVars, IndInv, TypeOK, CountsExact, UsedExact, HintInv
  <2> QED BY <2>1, <2>2
<1>2. ASSUME NEW i \in Index, Release(i) PROVE IndInv'
  BY <1>2, ReleasePreserves
<1>3. ASSUME NEW i \in Index, Share(i) PROVE IndInv'
  BY <1>3, SharePreserves
<1>4. CASE UNCHANGED vars
  BY <1>4 DEF vars, IndInv, TypeOK, CountsExact, UsedExact, HintInv
<1>5. ASSUME NEW i \in Phys, Stray(i) PROVE IndInv'
  BY <1>5, <1>4, StrayIgnored
<1> QED BY <1>1, <1>2, <1>3, <1>4, <1>5 DEF Next

(* The inductive invariant holds in every state of the allocator, for      *)
(* every amount of memory and every bound on the references.               *)
THEOREM Inductive == Spec => []IndInv
  BY InitIndInv, NextIndInv, PTL DEF Spec

(* The allocator's variables keep their types: no counter of pmm.c leaves  *)
(* its range and the hint stays within the bitmap.                         *)
THEOREM TypeCorrect == Spec => []TypeOK
<1>1. IndInv => TypeOK
  BY DEF IndInv
<1> QED BY <1>1, Inductive, PTL

(* pmm_alloc, pmm_free and pmm_incref keep each counter equal to the       *)
(* references that are really held, and each bit set exactly while there   *)
(* are any, whatever stray calls are made.                                 *)
THEOREM CountsCorrect == Spec => []CountsExact
<1>1. IndInv => CountsExact
  BY DEF IndInv
<1> QED BY <1>1, Inductive, PTL

(* used_frames is the number of bits that are set.                         *)
THEOREM UsedCorrect == Spec => []UsedExact
<1>1. IndInv => UsedExact
  BY DEF IndInv
<1> QED BY <1>1, Inductive, PTL

-----------------------------------------------------------------------------
(* Whatever was freed before, pmm_alloc takes the lowest clear frame.      *)
THEOREM FirstFitCorrect == Spec => FirstFit
<1> DEFINE A == \A i \in Slots :
                  ~bitmap[i] /\ bitmap'[i] => \A j \in 0..(i - 1) : bitmap[j]
<1>1. ASSUME IndInv, Next PROVE A
  <2> SUFFICES ASSUME NEW k \in Slots, ~bitmap[k], bitmap'[k],
                      NEW j \in 0..(k - 1)
               PROVE  bitmap[j]
    BY PmmAssumption DEF Slots
  <2>1. ASSUME NEW i \in Scan, \A m \in Scan : i <= m,
               bitmap' = [bitmap EXCEPT ![i] = TRUE]
        PROVE  bitmap[j]
    <3>1. i \in Index /\ i \in Slots /\ \A m \in Index : ~bitmap[m] => i <= m
      BY <1>1, <2>1, ScanIsClear, Bounds DEF IndInv
    <3>2. k = i
      BY <3>1, <2>1, <1>1 DEF IndInv, TypeOK
    <3>3. j \in Index /\ j < i
      BY <3>1, <3>2, Bounds DEF Index
    <3> QED BY <3>1, <3>3, Bounds DEF Index
  <2>2. CASE bitmap' = bitmap
    BY <2>2
  <2>3. ASSUME NEW i \in Index, Reclaim(i) PROVE bitmap[j]
    BY <2>3, <1>1, Bounds DEF Reclaim, IndInv, TypeOK
  <2>4. CASE pmm_alloc
    BY <2>4, <2>1, <2>2 DEF pmm_alloc, pmmVars
  <2>5. ASSUME NEW i \in Index, Release(i) PROVE bitmap[j]
    BY <2>5, <2>2, <2>3 DEF Release, pmm_free, DropReference, pmmVars
  <2>6. ASSUME NEW i \in Index, Share(i) PROVE bitmap[j]
    BY <2>6, <2>2 DEF Share, pmm_incref
  <2>7. ASSUME NEW i \in Phys, Stray(i) PROVE bitmap[j]
    BY <2>7, <1>1, <2>2, StrayIgnored DEF vars
  <2> QED BY <1>1, <2>4, <2>5, <2>6, <2>7 DEF Next
<1>2. IndInv /\ [Next]_vars => [A]_vars
  BY <1>1
<1>3. Spec => [][A]_vars
  BY <1>2, Inductive, PTL DEF Spec
<1> QED BY <1>3 DEF FirstFit

(* The allocator implements the abstract pool: every call of pmm_alloc,    *)
(* pmm_free and pmm_incref is a grant, a refusal, a release or a sharing   *)
(* of FramePool, or changes nothing a caller can see.                      *)
THEOREM ImplementsPool == Spec => PoolSpec
<1>1. Init => Pool!Init
  BY DEF Init, Pool!Init
<1>2. ASSUME IndInv, [Next]_vars PROVE [Pool!Next]_(Pool!vars)
  <2>1. CASE pmm_alloc
    <3>1. ASSUME NEW i \in Scan, got' = i, held' = [held EXCEPT ![i] = @ + 1]
          PROVE  Pool!Next
      <4>1. i \in Index /\ ~bitmap[i] /\ i \in Slots
        BY <1>2, <3>1, ScanIsClear, Bounds DEF IndInv
      <4>2. held[i] = 0
        BY <4>1, <1>2, PmmAssumption DEF IndInv, CountsExact, TypeOK
      <4>3. Pool!Grant(i)
        BY <4>1, <4>2, <3>1 DEF Pool!Grant
      <4> QED BY <4>1, <4>3 DEF Pool!Next
    <3>2. ASSUME Scan = {}, got' = NoFrame, UNCHANGED held PROVE Pool!Next
      <4>1. \A i \in Index : held[i] > 0
        BY <1>2, <3>2, ScanIsClear, Bounds DEF IndInv, CountsExact
      <4>2. Pool!Refuse
        BY <4>1, <3>2 DEF Pool!Refuse
      <4> QED BY <4>2 DEF Pool!Next
    <3> QED BY <2>1, <3>1, <3>2 DEF pmm_alloc
  <2>2. ASSUME NEW i \in Index, Release(i) PROVE Pool!Next
    BY <2>2 DEF Release, Pool!Release, Pool!Next
  <2>3. ASSUME NEW i \in Index, Share(i) PROVE Pool!Next
    <3>1. held[i] > 0
      BY <2>3, PmmAssumption DEF Share
    <3> QED BY <2>3, <3>1 DEF Share, Pool!Share, Pool!Next
  <2>4. ASSUME NEW i \in Phys, Stray(i) PROVE UNCHANGED Pool!vars
    BY <2>4 DEF Stray, Pool!vars
  <2>5. CASE UNCHANGED vars
    BY <2>5 DEF vars, Pool!vars
  <2> QED BY <1>2, <2>1, <2>2, <2>3, <2>4, <2>5 DEF Next
<1> QED BY <1>1, <1>2, Inductive, PTL DEF Spec, PoolSpec, Pool!Spec
=============================================================================
