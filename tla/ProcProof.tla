------------------------------ MODULE ProcProof ----------------------------
(***************************************************************************)
(* Proofs about Vmm.tla and Proc.tla: the page tables, the reference       *)
(* counts, the TLB and the process table, for every number of frames,      *)
(* directory and table indices, processes and pids.                        *)
(*                                                                         *)
(* They are in three layers.  What the spaces map is one function, the     *)
(* view, from a space and a page to an entry; the first layer shows how    *)
(* the counts follow the view, the second how the view follows the         *)
(* directories and tables, and the third takes the two to the operations   *)
(* of vmm.c.  Both specifications are steps of those operations.           *)
(*                                                                         *)
(* The last parts show that the page tables implement the plain memories   *)
(* of AddressSpaces.tla, and that the process table implements the Unix    *)
(* processes of UnixProc.tla.                                              *)
(***************************************************************************)
EXTENDS Proc, FiniteSetTheorems, TLAPS

(* What each space has at each page.                                       *)
View(D, T) == [x \in (DOMAIN D) \X Pages |->
                 IF D[x[1]][x[2][1]] = None THEN None
                 ELSE T[D[x[1]][x[2][1]]][x[2][2]]]

IsView(A, Ds) == /\ Ds \subseteq Frames
                 /\ A \in [Ds \X Pages -> Entries \cup {None}]

(* The places that map a frame.                                            *)
MapsOf(A, f) == {x \in DOMAIN A : A[x] # None /\ A[x].frame = f}

(* The frames in use as directories, tables or lost frames, S, are held    *)
(* once; any other is held by the places that map it.  All the places of a *)
(* frame are the same page, in different spaces.                           *)
Apart(A, S) == \A x \in DOMAIN A : A[x] # None => A[x].frame \in Frames \ S

SamePage(A) == \A x, y \in DOMAIN A :
  A[x] # None /\ A[y] # None /\ A[x].frame = A[y].frame => x[2] = y[2]

CountsMatch(A, S, R) == /\ R \in [Frames -> 0..RefMax]
                        /\ \A f \in S : R[f] = 1
                        /\ \A f \in Frames \ S : R[f] = Cardinality(MapsOf(A, f))

OwnWritable(A, R) == \A x \in DOMAIN A :
  A[x] # None /\ A[x].rw => R[A[x].frame] = 1

Counted(A, S, R) == /\ S \subseteq Frames
                    /\ Apart(A, S)
                    /\ SamePage(A)
                    /\ CountsMatch(A, S, R)
                    /\ OwnWritable(A, R)

-----------------------------------------------------------------------------
(* The counts follow the view.                                             *)

(* The places of a frame are finitely many, no more than there are spaces. *)
LEMMA MapsFinite ==
  ASSUME NEW A, NEW Ds, NEW f, IsView(A, Ds)
  PROVE  /\ IsFiniteSet(MapsOf(A, f))
         /\ Cardinality(MapsOf(A, f)) \in Nat
<1>1. IsFiniteSet(Ds) /\ IsFiniteSet(Pages)
  BY VmmAssumption, FS_Subset, FS_Product DEF IsView, Pages
<1>2. IsFiniteSet(Ds \X Pages)
  BY <1>1, FS_Product
<1>3. MapsOf(A, f) \in SUBSET (Ds \X Pages)
  BY DEF MapsOf, IsView
<1>. QED
  BY <1>2, <1>3, FS_Subset, FS_CardinalityType

LEMMA MapsBound ==
  ASSUME NEW A, NEW Ds, NEW f, IsView(A, Ds), SamePage(A), Cardinality(Ds) <= RefMax
  PROVE  Cardinality(MapsOf(A, f)) <= RefMax
<1>. DEFINE M == MapsOf(A, f)
            g == [x \in M |-> x[1]]
<1>1. IsFiniteSet(Ds)
  BY VmmAssumption, FS_Subset DEF IsView
<1>2. \A x \in M : x[1] \in Ds /\ x[2] \in Pages /\ x = <<x[1], x[2]>>
  BY DEF MapsOf, IsView
<1>3. \A x, y \in M : x[2] = y[2]
  BY DEF MapsOf, SamePage
<1>4. g \in [M -> Ds]
  BY <1>2
<1>5. \A x, y \in M : g[x] = g[y] => x = y
  BY <1>2, <1>3
<1>6. g \in Injection(M, Ds)
  BY <1>4, <1>5 DEF Injection, IsInjective
<1>7. Cardinality(M) <= Cardinality(Ds)
  BY <1>1, <1>6, FS_Injection
<1>8. /\ Cardinality(M) \in Nat
      /\ Cardinality(Ds) \in Nat
  BY <1>1, MapsFinite, FS_CardinalityType
<1>. HIDE DEF M
<1>9. Cardinality(M) <= RefMax
  BY <1>7, <1>8, VmmAssumption
<1>. QED
  BY <1>9 DEF M

(* A frame whose count is 0 is used for nothing.                           *)
LEMMA FreeUnused ==
  ASSUME NEW A, NEW Ds, NEW S, NEW R, IsView(A, Ds), Counted(A, S, R),
         NEW f \in Frames, R[f] = 0
  PROVE  f \notin S /\ MapsOf(A, f) = {}
<1>1. f \notin S
  BY DEF Counted, CountsMatch
<1>2. Cardinality(MapsOf(A, f)) = 0
  BY <1>1 DEF Counted, CountsMatch
<1>. QED
  BY <1>1, <1>2, MapsFinite, FS_EmptySet

(* A frame that is mapped has a count.                                     *)
LEMMA MappedCounted ==
  ASSUME NEW A, NEW Ds, NEW S, NEW R, IsView(A, Ds), Counted(A, S, R),
         NEW x \in DOMAIN A, A[x] # None
  PROVE  /\ A[x].frame \in Frames \ S
         /\ R[A[x].frame] \in Nat
         /\ R[A[x].frame] >= 1
         /\ R[A[x].frame] = Cardinality(MapsOf(A, A[x].frame))
<1>1. A[x].frame \in Frames \ S
  BY DEF Counted, Apart
<1>2. x \in MapsOf(A, A[x].frame)
  BY DEF MapsOf
<1>3. R[A[x].frame] = Cardinality(MapsOf(A, A[x].frame))
  BY <1>1 DEF Counted, CountsMatch
<1>4. Cardinality(MapsOf(A, A[x].frame)) # 0
  BY <1>2, MapsFinite, FS_EmptySet
<1>5. Cardinality(MapsOf(A, A[x].frame)) \in Nat
  BY MapsFinite
<1>. QED
  BY <1>1, <1>3, <1>4, <1>5

(* A count of 1 means a single place.                                      *)
LEMMA SolePlace ==
  ASSUME NEW A, NEW Ds, NEW S, NEW R, IsView(A, Ds), Counted(A, S, R),
         NEW x \in DOMAIN A, A[x] # None, R[A[x].frame] = 1
  PROVE  MapsOf(A, A[x].frame) = {x}
<1>1. Cardinality(MapsOf(A, A[x].frame)) = 1
  BY MappedCounted
<1>2. PICK y : MapsOf(A, A[x].frame) = {y}
  BY <1>1, MapsFinite, FS_Singleton
<1>3. x \in MapsOf(A, A[x].frame)
  BY DEF MapsOf
<1>. QED
  BY <1>2, <1>3

(* Frames that are free become directories, tables or lost frames.         *)
Reserved(R, G) == [f \in Frames |-> IF f \in G THEN 1 ELSE R[f]]

LEMMA CountReserve ==
  ASSUME NEW A, NEW Ds, NEW S, NEW R, IsView(A, Ds), Counted(A, S, R),
         NEW G \in SUBSET Frames, \A f \in G : R[f] = 0
  PROVE  Counted(A, S \cup G, Reserved(R, G))
<1>. DEFINE R2 == Reserved(R, G)
<1>1. \A f \in G : f \notin S /\ MapsOf(A, f) = {}
  BY FreeUnused
<1>2. \A x \in DOMAIN A : A[x] # None => A[x].frame \in Frames \ (S \cup G)
  BY <1>1 DEF Counted, Apart, MapsOf
<1>3. 1 <= RefMax
  BY VmmAssumption
<1>4. R2 \in [Frames -> 0..RefMax]
  BY <1>3, VmmAssumption DEF Counted, CountsMatch, Reserved
<1>5. \A f \in S \cup G : R2[f] = 1
  BY DEF Counted, CountsMatch, Reserved
<1>6. \A f \in Frames \ G : R2[f] = R[f]
  BY DEF Reserved
<1>7. OwnWritable(A, R2)
  BY <1>2, <1>6 DEF Counted, OwnWritable
<1>8. \A f \in Frames \ (S \cup G) : R2[f] = Cardinality(MapsOf(A, f))
  BY <1>6 DEF Counted, CountsMatch
<1>. QED
  BY <1>2, <1>4, <1>5, <1>7, <1>8 DEF Counted, CountsMatch, Apart

(* A page is mapped to a frame that was free.                              *)
LEMMA CountMap ==
  ASSUME NEW A, NEW Ds, NEW S, NEW R, IsView(A, Ds), Counted(A, S, R),
         NEW x \in Ds \X Pages, A[x] = None,
         NEW e \in Entries, R[e.frame] = 0
  PROVE  /\ IsView([A EXCEPT ![x] = e], Ds)
         /\ Counted([A EXCEPT ![x] = e], S, Reserved(R, {e.frame}))
<1>. DEFINE f == e.frame
            B == [A EXCEPT ![x] = e]
            R2 == Reserved(R, {f})
<1>0. f \in Frames /\ e # None
  BY NoneAssumption DEF Entries
<1>1. f \notin S /\ MapsOf(A, f) = {}
  BY <1>0, FreeUnused
<1>2. IsView(B, Ds)
  BY DEF IsView
<1>3. /\ DOMAIN B = DOMAIN A /\ x \in DOMAIN A /\ B[x] = e
      /\ \A y \in DOMAIN A : y # x => B[y] = A[y]
  BY DEF IsView
<1>. HIDE DEF B
<1>4. MapsOf(B, f) = {x}
  BY <1>0, <1>1, <1>3 DEF MapsOf
<1>5. \A h \in Frames \ {f} : MapsOf(B, h) = MapsOf(A, h)
  BY <1>3 DEF MapsOf
<1>6. Apart(B, S)
  BY <1>0, <1>1, <1>3 DEF Counted, Apart
<1>7. SamePage(B)
  <2>. SUFFICES ASSUME NEW y \in DOMAIN B, NEW z \in DOMAIN B,
                       B[y] # None, B[z] # None, B[y].frame = B[z].frame
                PROVE  y[2] = z[2]
    BY DEF SamePage
  <2>1. CASE y = x \/ z = x
    <3>1. y \in MapsOf(B, f) /\ z \in MapsOf(B, f)
      BY <1>3, <2>1 DEF MapsOf
    <3>. QED
      BY <3>1, <1>4
  <2>2. CASE y # x /\ z # x
    BY <1>3, <2>2 DEF Counted, SamePage
  <2>. QED
    BY <2>1, <2>2
<1>8. R2 \in [Frames -> 0..RefMax] /\ R2[f] = 1
      /\ \A h \in Frames \ {f} : R2[h] = R[h]
  <2>1. Counted(A, S \cup {f}, R2)
    BY <1>0, CountReserve
  <2>. QED
    BY <2>1, <1>0 DEF Counted, CountsMatch, Reserved
<1>9. CountsMatch(B, S, R2)
  <2>0. /\ S \subseteq Frames
        /\ \A h \in S : R[h] = 1
        /\ \A h \in Frames \ S : R[h] = Cardinality(MapsOf(A, h))
    BY DEF Counted, CountsMatch
  <2>. HIDE DEF R2
  <2>1. \A h \in S : R2[h] = 1
    BY <1>1, <1>8, <2>0
  <2>2. ASSUME NEW h \in Frames \ S
        PROVE  R2[h] = Cardinality(MapsOf(B, h))
    <3>1. CASE h = f
      <4>1. Cardinality(MapsOf(B, f)) = 1
        BY <1>4, FS_Singleton
      <4>. QED
        BY <4>1, <3>1, <1>8
    <3>2. CASE h # f
      BY <3>2, <1>5, <1>8, <2>0
    <3>. QED
      BY <3>1, <3>2
  <2>. QED
    BY <2>1, <2>2, <1>8 DEF CountsMatch
<1>10. OwnWritable(B, R2)
  <2>. SUFFICES ASSUME NEW y \in DOMAIN B, B[y] # None, B[y].rw, B[y].frame # f
                PROVE  R2[B[y].frame] = 1
    BY <1>8 DEF OwnWritable
  <2>1. y # x /\ B[y] = A[y]
    BY <1>3
  <2>2. A[y].frame \in Frames \ {f}
    BY <2>1, <1>6 DEF Apart
  <2>3. R[A[y].frame] = 1
    BY <2>1, <1>3 DEF Counted, OwnWritable
  <2>. QED
    BY <2>1, <2>2, <2>3, <1>8
<1>. QED
  BY <1>2, <1>6, <1>7, <1>9, <1>10 DEF Counted, B

(* A page is unmapped.                                                     *)
LEMMA CountUnmap ==
  ASSUME NEW A, NEW Ds, NEW S, NEW R, IsView(A, Ds), Counted(A, S, R),
         NEW x \in Ds \X Pages, A[x] # None
  PROVE  /\ IsView([A EXCEPT ![x] = None], Ds)
         /\ Counted([A EXCEPT ![x] = None], S,
                    [R EXCEPT ![A[x].frame] = Freed(@, 1)])
<1>. DEFINE f == A[x].frame
            B == [A EXCEPT ![x] = None]
            R2 == [R EXCEPT ![f] = Freed(@, 1)]
<1>0. x \in DOMAIN A /\ R \in [Frames -> 0..RefMax]
  BY DEF IsView, Counted, CountsMatch
<1>1. /\ f \in Frames \ S /\ R[f] \in Nat /\ R[f] >= 1
      /\ R[f] = Cardinality(MapsOf(A, f))
  BY <1>0, MappedCounted
<1>2. IsView(B, Ds)
  BY DEF IsView
<1>3. /\ DOMAIN B = DOMAIN A /\ B[x] = None
      /\ \A y \in DOMAIN A : y # x => B[y] = A[y]
  BY DEF IsView
<1>4. \A h \in Frames \ {f} : MapsOf(B, h) = MapsOf(A, h)
  BY <1>3 DEF MapsOf
<1>5. MapsOf(B, f) = MapsOf(A, f) \ {x} /\ x \in MapsOf(A, f)
  BY <1>0, <1>3 DEF MapsOf
<1>6. Cardinality(MapsOf(B, f)) = R[f] - 1
  <2>1. IsFiniteSet(MapsOf(A, f))
    BY MapsFinite
  <2>2. Cardinality(MapsOf(A, f) \ {x}) = Cardinality(MapsOf(A, f)) - 1
    BY <2>1, <1>5, FS_RemoveElement
  <2>. QED
    BY <2>2, <1>1, <1>5
<1>7. /\ R2 \in [Frames -> 0..RefMax] /\ R2[f] = R[f] - 1
      /\ \A h \in Frames \ {f} : R2[h] = R[h]
  BY <1>0, <1>1, VmmAssumption DEF Freed
<1>. HIDE DEF B, R2
<1>8. Apart(B, S)
  BY <1>3 DEF Counted, Apart
<1>9. SamePage(B)
  BY <1>3 DEF Counted, SamePage
<1>10. CountsMatch(B, S, R2)
  <2>1. \A h \in S : R2[h] = 1
    BY <1>1, <1>7 DEF Counted, CountsMatch
  <2>2. \A h \in Frames \ S : R2[h] = Cardinality(MapsOf(B, h))
    BY <1>4, <1>6, <1>7 DEF Counted, CountsMatch
  <2>. QED
    BY <2>1, <2>2, <1>7 DEF CountsMatch
<1>11. OwnWritable(B, R2)
  <2>. SUFFICES ASSUME NEW y \in DOMAIN B, B[y] # None, B[y].rw
                PROVE  R2[B[y].frame] = 1
    BY DEF OwnWritable
  <2>1. y # x /\ B[y] = A[y] /\ y \in DOMAIN A
    BY <1>3
  <2>2. R[A[y].frame] = 1 /\ A[y].frame \in Frames
    BY <2>1 DEF Counted, OwnWritable, Apart
  <2>3. A[y].frame # f
    <3>. SUFFICES ASSUME A[y].frame = f PROVE FALSE
      OBVIOUS
    <3>1. MapsOf(A, f) = {x}
      BY <1>0, <2>2, SolePlace
    <3>2. y \in MapsOf(A, f)
      BY <2>1 DEF MapsOf
    <3>. QED
      BY <3>1, <3>2, <2>1
  <2>. QED
    BY <2>1, <2>2, <2>3, <1>7
<1>. QED
  BY <1>2, <1>8, <1>9, <1>10, <1>11 DEF Counted, B, R2

(* Entries keep their frames; one that becomes writable is the only one.   *)
SameFrames(A, B) == /\ DOMAIN B = DOMAIN A
                    /\ \A x \in DOMAIN A : A[x] = None <=> B[x] = None
                    /\ \A x \in DOMAIN A : A[x] # None => B[x].frame = A[x].frame

LEMMA CountKeep ==
  ASSUME NEW A, NEW Ds, NEW S, NEW R, IsView(A, Ds), Counted(A, S, R),
         NEW B, SameFrames(A, B),
         \A x \in DOMAIN B : B[x] # None /\ B[x].rw /\ ~A[x].rw => R[B[x].frame] = 1
  PROVE  Counted(B, S, R)
<1>1. \A f : MapsOf(B, f) = MapsOf(A, f)
  BY DEF SameFrames, MapsOf
<1>2. Apart(B, S)
  BY DEF Counted, Apart, SameFrames
<1>3. SamePage(B)
  BY DEF Counted, SamePage, SameFrames
<1>4. CountsMatch(B, S, R)
  BY <1>1 DEF Counted, CountsMatch
<1>5. OwnWritable(B, R)
  BY DEF Counted, OwnWritable, SameFrames
<1>. QED
  BY <1>2, <1>3, <1>4, <1>5 DEF Counted

(* A space that is added with the pages C.                                 *)
Joined(A, Ds, d, C) == [x \in (Ds \cup {d}) \X Pages |->
                          IF x[1] = d THEN C[x[2]] ELSE A[x]]

PagesOf(C, f) == {p \in Pages : C[p] # None /\ C[p].frame = f}

Joins(A, B, Ds, d, C) ==
  /\ IsView(B, Ds \cup {d})
  /\ \A x \in DOMAIN A : x \in DOMAIN B /\ B[x] = A[x]
  /\ \A p \in Pages : /\ <<d, p>> \in DOMAIN B
                      /\ <<d, p>> \notin DOMAIN A
                      /\ B[<<d, p>>] = C[p]
  /\ \A x \in DOMAIN B : x \in DOMAIN A \/ \E p \in Pages : x = <<d, p>>

LEMMA JoinedView ==
  ASSUME NEW A, NEW Ds, IsView(A, Ds), NEW d \in Frames \ Ds,
         NEW C \in [Pages -> Entries \cup {None}]
  PROVE  Joins(A, Joined(A, Ds, d, C), Ds, d, C)
<1>1. DOMAIN A = Ds \X Pages /\ \A x \in DOMAIN A : x[1] # d /\ A[x] \in Entries \cup {None}
  BY DEF IsView
<1>2. \A x \in (Ds \cup {d}) \X Pages :
        /\ x[2] \in Pages
        /\ x[1] = d => x = <<d, x[2]>>
        /\ x[1] # d => x \in DOMAIN A
  BY <1>1
<1>3. \A x \in (Ds \cup {d}) \X Pages :
        (IF x[1] = d THEN C[x[2]] ELSE A[x]) \in Entries \cup {None}
  BY <1>1, <1>2
<1>4. IsView(Joined(A, Ds, d, C), Ds \cup {d})
  BY <1>3 DEF IsView, Joined
<1>5. DOMAIN Joined(A, Ds, d, C) = (Ds \cup {d}) \X Pages
  BY DEF Joined
<1>6. \A x \in DOMAIN A : /\ x \in DOMAIN Joined(A, Ds, d, C)
                          /\ Joined(A, Ds, d, C)[x] = A[x]
  BY <1>1 DEF Joined
<1>7. \A p \in Pages : /\ <<d, p>> \in (Ds \cup {d}) \X Pages
                       /\ <<d, p>> \notin DOMAIN A
                       /\ <<d, p>>[1] = d /\ <<d, p>>[2] = p
  BY <1>1
<1>8. \A p \in Pages : Joined(A, Ds, d, C)[<<d, p>>] = C[p]
  BY <1>7 DEF Joined
<1>. QED
  BY <1>2, <1>4, <1>5, <1>6, <1>7, <1>8 DEF Joins

(* A space whose pages are all in frames that were free.                   *)
LEMMA CountCopy ==
  ASSUME NEW A, NEW Ds, NEW S, NEW R, IsView(A, Ds), Counted(A, S, R),
         NEW d \in Frames \ Ds, NEW C \in [Pages -> Entries \cup {None}],
         NEW B, Joins(A, B, Ds, d, C),
         NEW H, H = {C[p].frame : p \in {q \in Pages : C[q] # None}},
         \A f \in H : R[f] = 0,
         \A p, q \in Pages : C[p] # None /\ C[q] # None /\ C[p].frame = C[q].frame
                               => p = q
  PROVE  Counted(B, S, Reserved(R, H))
<1>. DEFINE R2 == Reserved(R, H)
<1>1. /\ \A x \in DOMAIN A : x \in DOMAIN B /\ B[x] = A[x]
      /\ \A p \in Pages : /\ <<d, p>> \in DOMAIN B
                          /\ <<d, p>> \notin DOMAIN A
                          /\ B[<<d, p>>] = C[p]
      /\ \A x \in DOMAIN B : x \in DOMAIN A \/ \E p \in Pages : x = <<d, p>>
  BY DEF Joins
<1>2. H \subseteq Frames
  BY DEF Entries
<1>3. \A f \in H : f \notin S /\ MapsOf(A, f) = {}
  BY <1>2, FreeUnused
<1>4. Counted(A, S \cup H, R2)
  BY <1>2, CountReserve
<1>. HIDE DEF R2
<1>5. \A p \in Pages : C[p] # None => C[p].frame \in H
  OBVIOUS
<1>6. \A f \in Frames \ H : MapsOf(B, f) = MapsOf(A, f)
  BY <1>1, <1>5 DEF MapsOf
<1>7. \A f \in H : \E x : MapsOf(B, f) = {x}
  <2>. SUFFICES ASSUME NEW f \in H PROVE \E x : MapsOf(B, f) = {x}
    OBVIOUS
  <2>1. PICK p \in Pages : C[p] # None /\ C[p].frame = f
    OBVIOUS
  <2>2. <<d, p>> \in MapsOf(B, f)
    BY <2>1, <1>1 DEF MapsOf
  <2>3. ASSUME NEW y \in MapsOf(B, f) PROVE y = <<d, p>>
    <3>1. y \in DOMAIN B /\ B[y] # None /\ B[y].frame = f
      BY <2>3 DEF MapsOf
    <3>2. y \notin DOMAIN A
      BY <3>1, <1>1, <1>3 DEF MapsOf
    <3>3. PICK q \in Pages : y = <<d, q>>
      BY <3>1, <3>2, <1>1
    <3>. QED
      BY <3>1, <3>3, <2>1, <1>1
  <2>4. MapsOf(B, f) = {<<d, p>>}
    BY <2>2, <2>3
  <2>. QED
    BY <2>4
<1>8. Apart(B, S)
  <2>. SUFFICES ASSUME NEW x \in DOMAIN B, B[x] # None
                PROVE  B[x].frame \in Frames \ S
    BY DEF Apart
  <2>1. CASE x \in DOMAIN A
    BY <2>1, <1>1 DEF Counted, Apart
  <2>2. CASE x \notin DOMAIN A
    BY <2>2, <1>1, <1>2, <1>3, <1>5
  <2>. QED
    BY <2>1, <2>2
<1>9. SamePage(B)
  <2>. SUFFICES ASSUME NEW x \in DOMAIN B, NEW y \in DOMAIN B,
                       B[x] # None, B[y] # None, B[x].frame = B[y].frame
                PROVE  x[2] = y[2]
    BY DEF SamePage
  <2>1. CASE B[x].frame \in H
    BY <2>1, <1>7 DEF MapsOf
  <2>2. CASE B[x].frame \notin H
    <3>1. x \in DOMAIN A /\ y \in DOMAIN A
      BY <2>2, <1>1, <1>5
    <3>. QED
      BY <3>1, <1>1 DEF Counted, SamePage
  <2>. QED
    BY <2>1, <2>2
<1>10. /\ R2 \in [Frames -> 0..RefMax]
       /\ \A f \in S \cup H : R2[f] = 1
       /\ \A f \in Frames \ (S \cup H) : R2[f] = Cardinality(MapsOf(A, f))
  BY <1>4 DEF Counted, CountsMatch
<1>11. CountsMatch(B, S, R2)
  <2>1. \A f \in H : Cardinality(MapsOf(B, f)) = 1
    BY <1>7, FS_Singleton
  <2>. QED
    BY <2>1, <1>6, <1>10 DEF CountsMatch
<1>12. OwnWritable(B, R2)
  <2>. SUFFICES ASSUME NEW x \in DOMAIN B, B[x] # None, B[x].rw
                PROVE  R2[B[x].frame] = 1
    BY DEF OwnWritable
  <2>1. CASE x \in DOMAIN A
    BY <2>1, <1>1, <1>4 DEF Counted, OwnWritable
  <2>2. CASE x \notin DOMAIN A
    BY <2>2, <1>1, <1>5, <1>10
  <2>. QED
    BY <2>1, <2>2
<1>. QED
  BY <1>8, <1>9, <1>11, <1>12 DEF Counted, R2

(* A space that maps, read-only, what the space s maps.                    *)
Raised(R, G, C) == [f \in Frames |->
                      IF f \in G THEN 1
                      ELSE Incref(R[f], Cardinality(PagesOf(C, f)))]

ReadOnlyCopy(A, s, C) == \A p \in Pages : C[p] # None =>
  <<s, p>> \in DOMAIN A /\ A[<<s, p>>] = C[p] /\ ~C[p].rw

LEMMA CountShare ==
  ASSUME NEW A, NEW Ds, NEW S, NEW R, IsView(A, Ds), Counted(A, S, R),
         NEW d \in Frames \ Ds, NEW C \in [Pages -> Entries \cup {None}], NEW s,
         NEW B, Joins(A, B, Ds, d, C),
         ReadOnlyCopy(A, s, C), NEW G \in SUBSET S, Cardinality(Ds \cup {d}) <= RefMax
  PROVE  Counted(B, S, Raised(R, G, C))
<1>. DEFINE R2 == Raised(R, G, C)
<1>12. R2 = [f \in Frames |-> IF f \in G THEN 1
                              ELSE Incref(R[f], Cardinality(PagesOf(C, f)))]
  BY DEF Raised
<1>. HIDE DEF R2
<1>13. \A p \in Pages : C[p] # None => /\ <<s, p>> \in DOMAIN A
                                       /\ A[<<s, p>>] = C[p]
                                       /\ ~C[p].rw
  BY DEF ReadOnlyCopy
<1>. USE <1>12, <1>13
<1>1. /\ \A x \in DOMAIN A : x \in DOMAIN B /\ B[x] = A[x]
      /\ \A p \in Pages : /\ <<d, p>> \in DOMAIN B
                          /\ <<d, p>> \notin DOMAIN A
                          /\ B[<<d, p>>] = C[p]
      /\ \A x \in DOMAIN B : x \in DOMAIN A \/ \E p \in Pages : x = <<d, p>>
  BY DEF Joins
<1>2. IsView(B, Ds \cup {d})
  BY DEF Joins
<1>3. Apart(B, S)
  <2>1. \A x \in DOMAIN A : A[x] # None => A[x].frame \in Frames \ S
    BY DEF Counted, Apart
  <2>2. \A p \in Pages : C[p] # None => C[p].frame \in Frames \ S
    BY <2>1
  <2>. QED
    BY <2>1, <2>2, <1>1 DEF Apart
<1>4. SamePage(B)
  <2>1. \A x \in DOMAIN B : B[x] # None =>
          \E y \in DOMAIN A : /\ y[2] = x[2]
                              /\ A[y] # None
                              /\ A[y].frame = B[x].frame
    <3>. SUFFICES ASSUME NEW x \in DOMAIN B, B[x] # None
                  PROVE  \E y \in DOMAIN A : /\ y[2] = x[2]
                                             /\ A[y] # None
                                             /\ A[y].frame = B[x].frame
      OBVIOUS
    <3>1. CASE x \in DOMAIN A
      BY <3>1, <1>1
    <3>2. CASE x \notin DOMAIN A
      <4>1. PICK p \in Pages : x = <<d, p>>
        BY <3>2, <1>1
      <4>2. C[p] = B[x]
        BY <4>1, <1>1
      <4>3. /\ <<s, p>> \in DOMAIN A /\ A[<<s, p>>] = B[x]
            /\ <<s, p>>[2] = x[2]
        BY <4>1, <4>2
      <4>. QED
        BY <4>3
    <3>. QED
      BY <3>1, <3>2
  <2>. QED
    BY <2>1 DEF Counted, SamePage
<1>5. \A f \in Frames \ S : R[f] \in 0..RefMax /\ R[f] = Cardinality(MapsOf(A, f))
  BY DEF Counted, CountsMatch
<1>6. ASSUME NEW f \in Frames \ G, PagesOf(C, f) = {}
      PROVE  R2[f] = R[f] /\ MapsOf(B, f) = MapsOf(A, f)
  <2>1. Cardinality(PagesOf(C, f)) = 0
    BY <1>6, FS_EmptySet
  <2>2. R[f] \in 0..RefMax
    BY DEF Counted, CountsMatch
  <2>3. R2[f] = R[f]
    BY <2>1, <2>2, VmmAssumption DEF Incref
  <2>4. MapsOf(B, f) = MapsOf(A, f)
    BY <1>1, <1>6 DEF MapsOf, PagesOf
  <2>. QED
    BY <2>3, <2>4
<1>7. ASSUME NEW f \in Frames \ G, NEW p \in PagesOf(C, f)
      PROVE  /\ f \notin S
             /\ R2[f] = R[f] + 1
             /\ R2[f] = Cardinality(MapsOf(B, f))
             /\ R2[f] \in 0..RefMax
  <2>1. p \in Pages /\ C[p] # None /\ C[p].frame = f
    BY DEF PagesOf
  <2>2. <<s, p>> \in DOMAIN A /\ A[<<s, p>>] # None /\ A[<<s, p>>].frame = f
    BY <2>1
  <2>3. f \notin S /\ R[f] \in Nat /\ R[f] >= 1
    BY <2>2, MappedCounted
  <2>4. PagesOf(C, f) = {p}
    <3>1. ASSUME NEW q \in PagesOf(C, f) PROVE q = p
      <4>1. /\ <<s, q>> \in DOMAIN A /\ A[<<s, q>>] # None
            /\ A[<<s, q>>].frame = f
        BY DEF PagesOf
      <4>2. <<s, q>>[2] = <<s, p>>[2]
        BY <4>1, <2>2 DEF Counted, SamePage
      <4>. QED
        BY <4>2
    <3>. QED
      BY <3>1
  <2>5. Cardinality(PagesOf(C, f)) = 1
    BY <2>4, FS_Singleton
  <2>6. MapsOf(B, f) = MapsOf(A, f) \cup {<<d, p>>}
    <3>1. ASSUME NEW x \in MapsOf(B, f), x \notin MapsOf(A, f)
          PROVE  x = <<d, p>>
      <4>1. x \in DOMAIN B /\ B[x] # None /\ B[x].frame = f /\ x \notin DOMAIN A
        BY <3>1, <1>1 DEF MapsOf
      <4>2. PICK q \in Pages : x = <<d, q>>
        BY <4>1, <1>1
      <4>3. q \in PagesOf(C, f)
        BY <4>1, <4>2, <1>1 DEF PagesOf
      <4>. QED
        BY <4>2, <4>3, <2>4
    <3>2. <<d, p>> \in MapsOf(B, f)
      BY <2>1, <1>1 DEF MapsOf
    <3>3. MapsOf(A, f) \subseteq MapsOf(B, f)
      BY <1>1 DEF MapsOf
    <3>. QED
      BY <3>1, <3>2, <3>3
  <2>7. <<d, p>> \notin MapsOf(A, f)
    BY <2>1, <1>1 DEF MapsOf
  <2>8. Cardinality(MapsOf(B, f)) = Cardinality(MapsOf(A, f)) + 1
    BY <2>6, <2>7, MapsFinite, FS_AddElement
  <2>9. Cardinality(MapsOf(B, f)) = R[f] + 1
    BY <2>8, <2>3, <1>5
  <2>10. R[f] + 1 <= RefMax
    BY <2>9, <1>2, <1>4, MapsBound
  <2>11. R2[f] = Incref(R[f], 1)
    BY <2>5
  <2>12. R2[f] = R[f] + 1
    BY <2>11, <2>10, <2>3 DEF Incref
  <2>. QED
    BY <2>12, <2>10, <2>9, <2>3, VmmAssumption
<1>8. R2 \in [Frames -> 0..RefMax]
  <2>. SUFFICES ASSUME NEW f \in Frames PROVE R2[f] \in 0..RefMax
    OBVIOUS
  <2>1. CASE f \in G
    <3>1. R[f] = 1 /\ R[f] \in 0..RefMax /\ R2[f] = 1
      BY <2>1 DEF Counted, CountsMatch
    <3>. QED
      BY <3>1
  <2>2. CASE f \notin G /\ PagesOf(C, f) = {}
    BY <2>2, <1>6 DEF Counted, CountsMatch
  <2>3. CASE f \notin G /\ PagesOf(C, f) # {}
    BY <2>3, <1>7
  <2>. QED
    BY <2>1, <2>2, <2>3
<1>9. \A f \in S : R2[f] = 1
  <2>. SUFFICES ASSUME NEW f \in S PROVE R2[f] = 1
    OBVIOUS
  <2>0. R[f] = 1 /\ f \in Frames
    BY DEF Counted, CountsMatch
  <2>1. CASE f \in G
    BY <2>1, <2>0
  <2>2. CASE f \notin G
    BY <2>0, <2>2, <1>6, <1>7
  <2>. QED
    BY <2>1, <2>2
<1>10. \A f \in Frames \ S : R2[f] = Cardinality(MapsOf(B, f))
  <2>. SUFFICES ASSUME NEW f \in Frames \ S PROVE R2[f] = Cardinality(MapsOf(B, f))
    OBVIOUS
  <2>1. CASE PagesOf(C, f) = {}
    <3>1. R2[f] = R[f] /\ MapsOf(B, f) = MapsOf(A, f)
      BY <2>1, <1>6
    <3>. QED
      BY <3>1, <1>5
  <2>2. CASE PagesOf(C, f) # {}
    BY <2>2, <1>7
  <2>. QED
    BY <2>1, <2>2
<1>11. OwnWritable(B, R2)
  <2>. SUFFICES ASSUME NEW x \in DOMAIN B, B[x] # None, B[x].rw
                PROVE  R2[B[x].frame] = 1
    BY DEF OwnWritable
  <2>1. x \in DOMAIN A /\ B[x] = A[x]
    <3>. SUFFICES ASSUME NEW p \in Pages, x = <<d, p>> PROVE FALSE
      BY <1>1
    <3>1. B[x] = C[p]
      BY <1>1
    <3>. QED
      BY <3>1
  <2>2. A[x].frame \in Frames \ S /\ R[A[x].frame] = 1
    BY <2>1 DEF Counted, OwnWritable, Apart
  <2>3. PagesOf(C, A[x].frame) = {}
    <3>. SUFFICES ASSUME NEW p \in PagesOf(C, A[x].frame) PROVE FALSE
      OBVIOUS
    <3>1. /\ <<s, p>> \in DOMAIN A /\ A[<<s, p>>] # None
          /\ A[<<s, p>>].frame = A[x].frame
          /\ ~A[<<s, p>>].rw
      BY DEF PagesOf
    <3>2. MapsOf(A, A[x].frame) = {x}
      BY <2>1, <2>2, SolePlace
    <3>3. x = <<s, p>>
      BY <3>1, <3>2 DEF MapsOf
    <3>. QED
      BY <3>1, <3>3, <2>1
  <2>. QED
    BY <2>1, <2>2, <2>3, <1>6
<1>. QED
  BY <1>3, <1>4, <1>8, <1>9, <1>10, <1>11 DEF Counted, CountsMatch, R2

(* The space d goes, and with it G, its directory and its tables.          *)
PagesAt(A, d) == [p \in Pages |-> A[<<d, p>>]]

Parts(A, B, Ds, d) == /\ IsView(B, Ds \ {d})
                      /\ \A x \in (Ds \ {d}) \X Pages : B[x] = A[x]

Lowered(R, G, C) == [f \in Frames |->
                       IF f \in G THEN Freed(R[f], 1)
                       ELSE Freed(R[f], Cardinality(PagesOf(C, f)))]

LEMMA CountDestroy ==
  ASSUME NEW A, NEW Ds, NEW S, NEW R, IsView(A, Ds), Counted(A, S, R),
         NEW d \in Ds, NEW B, Parts(A, B, Ds, d), NEW G \in SUBSET S
  PROVE  /\ Counted(B, S \ G, Lowered(R, G, PagesAt(A, d)))
         /\ \A f \in Frames : Lowered(R, G, PagesAt(A, d))[f] <= R[f]
<1>. DEFINE C == PagesAt(A, d)
            R2 == Lowered(R, G, C)
<1>17. \A p \in Pages : C[p] = A[<<d, p>>]
  BY DEF PagesAt
<1>. HIDE DEF C
<1>. USE <1>17
<1>16. R2 = [f \in Frames |-> IF f \in G THEN Freed(R[f], 1)
                             ELSE Freed(R[f], Cardinality(PagesOf(C, f)))]
  BY DEF Lowered
<1>. HIDE DEF R2
<1>. USE <1>16
<1>0. DOMAIN A = Ds \X Pages /\ \A x \in DOMAIN A : A[x] \in Entries \cup {None}
  BY DEF IsView
<1>1. /\ DOMAIN B = (Ds \ {d}) \X Pages
      /\ \A x \in DOMAIN B : x \in DOMAIN A /\ B[x] = A[x]
  BY <1>0 DEF Parts, IsView
<1>2. IsView(B, Ds \ {d})
  BY DEF Parts
<1>3. \A x \in DOMAIN A : x \in DOMAIN B \/ \E p \in Pages : x = <<d, p>>
  BY <1>0, <1>1
<1>4. \A p \in Pages : <<d, p>> \in DOMAIN A /\ <<d, p>> \notin DOMAIN B
  BY <1>0, <1>1
<1>5. Apart(B, S \ G)
  BY <1>1 DEF Counted, Apart
<1>6. SamePage(B)
  BY <1>1 DEF Counted, SamePage
<1>7. \A f \in Frames : R[f] \in 0..RefMax
  BY DEF Counted, CountsMatch
<1>8. ASSUME NEW f \in Frames \ G, PagesOf(C, f) = {}
      PROVE  R2[f] = R[f] /\ MapsOf(B, f) = MapsOf(A, f)
  <2>1. Cardinality(PagesOf(C, f)) = 0
    BY <1>8, FS_EmptySet
  <2>2. R2[f] = R[f]
    BY <2>1, <1>7, VmmAssumption DEF Freed
  <2>3. MapsOf(B, f) = MapsOf(A, f)
    BY <1>1, <1>3, <1>8 DEF MapsOf, PagesOf
  <2>. QED
    BY <2>2, <2>3
<1>9. ASSUME NEW f \in Frames \ G, NEW p \in PagesOf(C, f)
      PROVE  /\ f \notin S /\ R[f] >= 1
             /\ R2[f] = R[f] - 1
             /\ R2[f] = Cardinality(MapsOf(B, f))
  <2>1. /\ p \in Pages /\ <<d, p>> \in DOMAIN A /\ A[<<d, p>>] # None
        /\ A[<<d, p>>].frame = f
    BY <1>4 DEF PagesOf
  <2>2. /\ f \notin S /\ R[f] \in Nat /\ R[f] >= 1
        /\ R[f] = Cardinality(MapsOf(A, f))
    BY <2>1, MappedCounted
  <2>3. \A q \in PagesOf(C, f) : q = p
    <3>. SUFFICES ASSUME NEW q \in PagesOf(C, f) PROVE q = p
      OBVIOUS
    <3>1. /\ <<d, q>> \in DOMAIN A /\ A[<<d, q>>] # None
          /\ A[<<d, q>>].frame = f
      BY <1>4 DEF PagesOf
    <3>2. <<d, q>>[2] = <<d, p>>[2]
      BY <3>1, <2>1 DEF Counted, SamePage
    <3>. QED
      BY <3>2
  <2>4. PagesOf(C, f) = {p}
    BY <2>3
  <2>5. Cardinality(PagesOf(C, f)) = 1
    BY <2>4, FS_Singleton
  <2>6. MapsOf(B, f) = MapsOf(A, f) \ {<<d, p>>}
    <3>1. ASSUME NEW x \in MapsOf(A, f), x # <<d, p>> PROVE x \in MapsOf(B, f)
      <4>1. x \in DOMAIN A /\ A[x] # None /\ A[x].frame = f
        BY DEF MapsOf
      <4>2. x \in DOMAIN B
        <5>. SUFFICES ASSUME NEW q \in Pages, x = <<d, q>> PROVE FALSE
          BY <4>1, <1>3
        <5>1. q \in PagesOf(C, f)
          BY <4>1 DEF PagesOf
        <5>. QED
          BY <5>1, <2>3, <3>1
      <4>. QED
        BY <4>1, <4>2, <1>1 DEF MapsOf
    <3>2. \A x \in MapsOf(B, f) : x \in MapsOf(A, f) /\ x # <<d, p>>
      BY <2>1, <1>1, <1>4 DEF MapsOf
    <3>. QED
      BY <3>1, <3>2
  <2>7. <<d, p>> \in MapsOf(A, f)
    BY <2>1 DEF MapsOf
  <2>8. Cardinality(MapsOf(B, f)) = Cardinality(MapsOf(A, f)) - 1
    <3>. DEFINE M == MapsOf(A, f)
                y == <<d, p>>
    <3>1. IsFiniteSet(M) /\ y \in M
      BY <2>7, MapsFinite
    <3>. HIDE DEF M, y
    <3>2. Cardinality(M \ {y}) = Cardinality(M) - 1
      BY <3>1, FS_RemoveElement
    <3>. QED
      BY <3>2, <2>6 DEF M, y
  <2>9. R2[f] = Freed(R[f], 1)
    BY <2>5
  <2>10. R2[f] = R[f] - 1
    BY <2>9, <2>2 DEF Freed
  <2>. QED
    BY <2>2, <2>8, <2>10
<1>10. ASSUME NEW f \in G
       PROVE  R2[f] = 0 /\ R[f] = 1 /\ Cardinality(MapsOf(B, f)) = 0
  <2>1. R[f] = 1 /\ f \in Frames
    BY DEF Counted, CountsMatch
  <2>2. R2[f] = 0
    BY <2>1 DEF Freed
  <2>3. MapsOf(B, f) = {}
    BY <1>1 DEF Counted, Apart, MapsOf
  <2>. QED
    BY <2>1, <2>2, <2>3, FS_EmptySet
<1>11. \A f \in Frames : R2[f] \in 0..RefMax /\ R2[f] <= R[f]
  <2>. SUFFICES ASSUME NEW f \in Frames PROVE R2[f] \in 0..RefMax /\ R2[f] <= R[f]
    OBVIOUS
  <2>1. CASE f \in G
    BY <2>1, <1>10, VmmAssumption
  <2>2. CASE f \notin G /\ PagesOf(C, f) = {}
    BY <2>2, <1>7, <1>8
  <2>3. CASE f \notin G /\ PagesOf(C, f) # {}
    <3>1. R2[f] = R[f] - 1 /\ R[f] >= 1
      BY <2>3, <1>9
    <3>. QED
      BY <3>1, <1>7, VmmAssumption
  <2>. QED
    BY <2>1, <2>2, <2>3
<1>12. \A f \in S \ G : R2[f] = 1
  BY <1>8, <1>9 DEF Counted, CountsMatch
<1>13. \A f \in Frames \ (S \ G) : R2[f] = Cardinality(MapsOf(B, f))
  <2>. SUFFICES ASSUME NEW f \in Frames \ (S \ G)
                PROVE  R2[f] = Cardinality(MapsOf(B, f))
    OBVIOUS
  <2>1. CASE f \in G
    BY <2>1, <1>10
  <2>2. CASE f \notin G /\ PagesOf(C, f) = {}
    <3>1. R2[f] = R[f] /\ MapsOf(B, f) = MapsOf(A, f)
      BY <2>2, <1>8
    <3>. QED
      BY <2>2, <3>1 DEF Counted, CountsMatch
  <2>3. CASE f \notin G /\ PagesOf(C, f) # {}
    BY <2>3, <1>9
  <2>. QED
    BY <2>1, <2>2, <2>3
<1>14. R2 \in [Frames -> 0..RefMax]
  BY <1>11
<1>15. OwnWritable(B, R2)
  <2>. SUFFICES ASSUME NEW x \in DOMAIN B, B[x] # None, B[x].rw
                PROVE  R2[B[x].frame] = 1
    BY DEF OwnWritable
  <2>1. x \in DOMAIN A /\ B[x] = A[x]
    BY <1>1
  <2>2. A[x].frame \in Frames \ S /\ R[A[x].frame] = 1
    BY <2>1 DEF Counted, OwnWritable, Apart
  <2>3. PagesOf(C, A[x].frame) = {}
    <3>. SUFFICES ASSUME NEW p \in PagesOf(C, A[x].frame) PROVE FALSE
      OBVIOUS
    <3>1. /\ <<d, p>> \in DOMAIN A /\ A[<<d, p>>] # None
          /\ A[<<d, p>>].frame = A[x].frame
          /\ <<d, p>> \notin DOMAIN B
      BY <1>4 DEF PagesOf
    <3>2. MapsOf(A, A[x].frame) = {x}
      BY <2>1, <2>2, SolePlace
    <3>3. x = <<d, p>>
      BY <3>1, <3>2 DEF MapsOf
    <3>. QED
      BY <3>1, <3>3
  <2>. QED
    BY <2>1, <2>2, <2>3, <1>8
<1>. QED
  BY <1>5, <1>6, <1>11, <1>12, <1>13, <1>14, <1>15 DEF Counted, CountsMatch, R2, C

-----------------------------------------------------------------------------
(* The view follows the directories and the tables: every table is in one  *)
(* place of one directory.                                                 *)
Typed(D, T) == /\ DOMAIN D \subseteq Frames
               /\ DOMAIN T \subseteq Frames
               /\ DOMAIN D \cap DOMAIN T = {}
               /\ \A d \in DOMAIN D : D[d] \in [DirIdx -> DOMAIN T \cup {None}]
               /\ \A t \in DOMAIN T : T[t] \in [TabIdx -> Entries \cup {None}]

OnePlace(D) == \A d, e \in DOMAIN D : \A i, j \in DirIdx :
  D[d][i] # None /\ D[d][i] = D[e][j] => d = e /\ i = j

Placed(D, T) == \A t \in DOMAIN T :
  \E d \in DOMAIN D : \E i \in DirIdx : D[d][i] = t

Shape(D, T) == Typed(D, T) /\ OnePlace(D) /\ Placed(D, T)

(* What a place of the view is, and that it is an entry or None.           *)
Cell(D, T, d, i, j) == IF D[d][i] = None THEN None ELSE T[D[d][i]][j]

Reads(A, D, T) == \A d \in DOMAIN D : \A i \in DirIdx : \A j \in TabIdx :
  A[<<d, <<i, j>>>>] = Cell(D, T, d, i, j)

LEMMA ViewAt ==
  ASSUME NEW D, NEW T, Typed(D, T)
  PROVE  IsView(View(D, T), DOMAIN D) /\ Reads(View(D, T), D, T)
<1>1. \A x \in (DOMAIN D) \X Pages :
        /\ x[1] \in DOMAIN D /\ x[2][1] \in DirIdx /\ x[2][2] \in TabIdx
        /\ x = <<x[1], <<x[2][1], x[2][2]>>>>
  BY DEF Pages
<1>2. \A d \in DOMAIN D : \A i \in DirIdx : \A j \in TabIdx :
        (IF D[d][i] = None THEN None ELSE T[D[d][i]][j]) \in Entries \cup {None}
  BY DEF Typed
<1>3. \A d \in DOMAIN D : \A i \in DirIdx : \A j \in TabIdx :
        <<d, <<i, j>>>> \in (DOMAIN D) \X Pages
  BY DEF Pages
<1>4. IsView(View(D, T), DOMAIN D)
  BY <1>1, <1>2 DEF IsView, View, Typed
<1>. QED
  BY <1>3, <1>4 DEF View, Reads, Cell

(* A view that reads the tables is the one they have.                      *)
LEMMA ViewIs ==
  ASSUME NEW D, NEW T, Typed(D, T), NEW B, IsView(B, DOMAIN D), Reads(B, D, T)
  PROVE  View(D, T) = B
<1>. DEFINE A == View(D, T)
<1>1. IsView(A, DOMAIN D) /\ Reads(A, D, T)
  BY ViewAt
<1>. HIDE DEF A
<1>2. \A x \in (DOMAIN D) \X Pages :
        /\ x[1] \in DOMAIN D /\ x[2][1] \in DirIdx /\ x[2][2] \in TabIdx
        /\ x = <<x[1], <<x[2][1], x[2][2]>>>>
  BY DEF Pages
<1>3. \A x \in (DOMAIN D) \X Pages : /\ A[x] = Cell(D, T, x[1], x[2][1], x[2][2])
                                    /\ B[x] = Cell(D, T, x[1], x[2][1], x[2][2])
  BY <1>1, <1>2 DEF Reads
<1>4. A = B
  BY <1>1, <1>3 DEF IsView
<1>. QED
  BY <1>4 DEF A

(* An entry of a table is written.                                         *)
WithEntry(T, t, j, e) == [T EXCEPT ![t][j] = e]
WithTable(D, d, i, t) == [D EXCEPT ![d][i] = t]
OneEntry(j, e) == [Blank EXCEPT ![j] = e]
At(A, x, e) == [A EXCEPT ![x] = e]

LEMMA ShapeSet ==
  ASSUME NEW D, NEW T, Shape(D, T), NEW d \in DOMAIN D, NEW p \in Pages,
         D[d][p[1]] # None, NEW e \in Entries \cup {None},
         NEW T2, T2 = WithEntry(T, D[d][p[1]], p[2], e)
  PROVE  /\ Shape(D, T2)
         /\ DOMAIN T2 = DOMAIN T
         /\ View(D, T2) = At(View(D, T), <<d, p>>, e)
<1>. DEFINE t == D[d][p[1]]
            A == View(D, T)
<1>1. p[1] \in DirIdx /\ p[2] \in TabIdx /\ p = <<p[1], p[2]>>
  BY DEF Pages
<1>2. t \in DOMAIN T
  BY <1>1 DEF Shape, Typed
<1>3. DOMAIN T2 = DOMAIN T
  BY DEF WithEntry
<1>4. T[t] \in [TabIdx -> Entries \cup {None}]
  BY <1>2 DEF Shape, Typed
<1>5. /\ \A u \in DOMAIN T : u # t => T2[u] = T[u]
      /\ T2[t] = [T[t] EXCEPT ![p[2]] = e]
  BY <1>2 DEF WithEntry
<1>6. T2[t] \in [TabIdx -> Entries \cup {None}] /\ T2[t][p[2]] = e
      /\ \A j \in TabIdx \ {p[2]} : T2[t][j] = T[t][j]
  BY <1>1, <1>4, <1>5
<1>7. Typed(D, T2)
  BY <1>3, <1>5, <1>6 DEF Shape, Typed
<1>8. Shape(D, T2)
  BY <1>3, <1>7 DEF Shape, Placed
<1>. HIDE DEF A
<1>9. IsView(A, DOMAIN D) /\ Reads(A, D, T) /\ DOMAIN A = (DOMAIN D) \X Pages
  <2>1. IsView(A, DOMAIN D) /\ Reads(A, D, T)
    BY ViewAt DEF Shape, A
  <2>. QED
    BY <2>1 DEF IsView
<1>10. IsView([A EXCEPT ![<<d, p>>] = e], DOMAIN D)
  BY <1>9 DEF IsView
<1>. DEFINE B == [A EXCEPT ![<<d, p>>] = e]
<1>11. ASSUME NEW c \in DOMAIN D, NEW i \in DirIdx, NEW j \in TabIdx
       PROVE  B[<<c, <<i, j>>>>] = Cell(D, T2, c, i, j)
  <2>. DEFINE x == <<c, <<i, j>>>>
  <2>0. x \in DOMAIN A
    BY <1>9 DEF Pages
  <2>1. CASE x = <<d, p>>
    <3>1. c = d /\ i = p[1] /\ j = p[2]
      BY <2>1, <1>1
    <3>2. Cell(D, T2, c, i, j) = e
      BY <3>1, <1>6 DEF Cell
    <3>. QED
      BY <3>2, <2>0, <2>1
  <2>2. CASE x # <<d, p>>
    <3>1. ~(c = d /\ i = p[1] /\ j = p[2])
      BY <2>2, <1>1
    <3>2. D[c][i] = t => c = d /\ i = p[1]
      BY <1>1 DEF Shape, OnePlace
    <3>3. D[c][i] # None => T2[D[c][i]][j] = T[D[c][i]][j]
      <4>1. D[c][i] # None => D[c][i] \in DOMAIN T
        BY DEF Shape, Typed
      <4>. QED
        BY <4>1, <3>1, <3>2, <1>5, <1>6
    <3>4. Cell(D, T2, c, i, j) = Cell(D, T, c, i, j)
      BY <3>3 DEF Cell
    <3>5. A[x] = Cell(D, T, c, i, j)
      BY <1>9 DEF Reads
    <3>. QED
      BY <3>4, <3>5, <2>0, <2>2
  <2>. QED
    BY <2>1, <2>2
<1>12. IsView(B, DOMAIN D) /\ Reads(B, D, T2)
  BY <1>10, <1>11 DEF Reads
<1>. HIDE DEF B
<1>13. View(D, T2) = B
  BY <1>7, <1>12, ViewIs
<1>. QED
  BY <1>3, <1>8, <1>13 DEF A, B, At

(* A directory gets a table with one entry.                                *)
LEMMA ShapeNew ==
  ASSUME NEW D, NEW T, Shape(D, T), NEW d \in DOMAIN D, NEW p \in Pages,
         D[d][p[1]] = None, NEW e \in Entries,
         NEW t \in Frames \ (DOMAIN D \cup DOMAIN T),
         NEW D2, D2 = WithTable(D, d, p[1], t),
         NEW T2, T2 = Put(T, t, OneEntry(p[2], e))
  PROVE  /\ Shape(D2, T2)
         /\ DOMAIN D2 = DOMAIN D
         /\ DOMAIN T2 = DOMAIN T \cup {t}
         /\ View(D2, T2) = At(View(D, T), <<d, p>>, e)
<1>. DEFINE A == View(D, T)
            B == [A EXCEPT ![<<d, p>>] = e]
            N == OneEntry(p[2], e)
<1>1. p[1] \in DirIdx /\ p[2] \in TabIdx /\ p = <<p[1], p[2]>>
  BY DEF Pages
<1>2. D[d] \in [DirIdx -> DOMAIN T \cup {None}] /\ None \notin DOMAIN T
  BY VmmAssumption DEF Shape, Typed
<1>3. /\ DOMAIN D2 = DOMAIN D /\ \A c \in DOMAIN D : c # d => D2[c] = D[c]
      /\ D2[d] = [D[d] EXCEPT ![p[1]] = t]
  BY DEF WithTable
<1>4. D2[d][p[1]] = t /\ \A i \in DirIdx : i # p[1] => D2[d][i] = D[d][i]
  BY <1>1, <1>2, <1>3
<1>5. N \in [TabIdx -> Entries \cup {None}] /\ N[p[2]] = e
      /\ \A j \in TabIdx : j # p[2] => N[j] = None
  BY <1>1 DEF Blank, OneEntry
<1>6. /\ DOMAIN T2 = DOMAIN T \cup {t} /\ T2[t] = N
      /\ \A u \in DOMAIN T : T2[u] = T[u]
  BY DEF Put
<1>. HIDE DEF A, N
<1>7. Typed(D2, T2)
  <2>1. \A c \in DOMAIN D2 : D2[c] \in [DirIdx -> DOMAIN T2 \cup {None}]
    <3>. SUFFICES ASSUME NEW c \in DOMAIN D
                  PROVE  D2[c] \in [DirIdx -> DOMAIN T2 \cup {None}]
      BY <1>3
    <3>1. D[c] \in [DirIdx -> DOMAIN T \cup {None}]
      BY DEF Shape, Typed
    <3>. QED
      BY <3>1, <1>3, <1>6
  <2>2. \A u \in DOMAIN T2 : T2[u] \in [TabIdx -> Entries \cup {None}]
    BY <1>5, <1>6 DEF Shape, Typed
  <2>3. /\ DOMAIN D2 \subseteq Frames /\ DOMAIN T2 \subseteq Frames
        /\ DOMAIN D2 \cap DOMAIN T2 = {}
    <3>1. /\ DOMAIN D \subseteq Frames /\ DOMAIN T \subseteq Frames
          /\ DOMAIN D \cap DOMAIN T = {}
      BY DEF Shape, Typed
    <3>2. DOMAIN D2 = DOMAIN D /\ DOMAIN T2 = DOMAIN T \cup {t}
      BY <1>3, <1>6
    <3>. QED
      BY ONLY <3>1, <3>2, t \in Frames \ (DOMAIN D \cup DOMAIN T)
  <2>. QED
    BY <2>1, <2>2, <2>3 DEF Typed
<1>8. \A c \in DOMAIN D : \A i \in DirIdx :
        /\ D2[c][i] = t <=> c = d /\ i = p[1]
        /\ D2[c][i] # t => D2[c][i] = D[c][i]
  <2>1. \A c \in DOMAIN D : \A i \in DirIdx : D[c][i] # t
    BY VmmAssumption DEF Shape, Typed
  <2>2. \A c \in DOMAIN D : \A i \in DirIdx :
          D2[c][i] = IF c = d /\ i = p[1] THEN t ELSE D[c][i]
    BY <1>3, <1>4
  <2>. QED
    BY <2>1, <2>2
<1>9. OnePlace(D2)
  BY <1>3, <1>8 DEF Shape, OnePlace
<1>10. Placed(D2, T2)
  <2>. SUFFICES ASSUME NEW u \in DOMAIN T2
                PROVE  \E c \in DOMAIN D2 : \E i \in DirIdx : D2[c][i] = u
    BY DEF Placed
  <2>1. CASE u = t
    BY <2>1, <1>1, <1>3, <1>4
  <2>2. CASE u \in DOMAIN T
    <3>1. PICK c \in DOMAIN D, i \in DirIdx : D[c][i] = u
      BY <2>2 DEF Shape, Placed
    <3>2. D2[c][i] = u
      BY <3>1, <2>2, <1>2, <1>8
    <3>. QED
      BY <3>2, <1>3
  <2>. QED
    BY <2>1, <2>2, <1>6
<1>11. IsView(A, DOMAIN D) /\ Reads(A, D, T) /\ DOMAIN A = (DOMAIN D) \X Pages
  <2>1. IsView(A, DOMAIN D) /\ Reads(A, D, T)
    BY ViewAt DEF Shape, A
  <2>. QED
    BY <2>1 DEF IsView
<1>12. IsView(B, DOMAIN D2)
  BY <1>3, <1>11 DEF IsView
<1>13. ASSUME NEW c \in DOMAIN D, NEW i \in DirIdx, NEW j \in TabIdx
       PROVE  B[<<c, <<i, j>>>>] = Cell(D2, T2, c, i, j)
  <2>. DEFINE x == <<c, <<i, j>>>>
  <2>0. x \in DOMAIN A /\ A[x] = Cell(D, T, c, i, j)
    BY <1>11 DEF Pages, Reads
  <2>1. CASE c = d /\ i = p[1] /\ j = p[2]
    <3>1. x = <<d, p>> /\ Cell(D2, T2, c, i, j) = e
      BY <2>1, <1>1, <1>4, <1>5, <1>6, VmmAssumption DEF Cell
    <3>. QED
      BY <3>1, <2>0
  <2>2. CASE c = d /\ i = p[1] /\ j # p[2]
    <3>1. x # <<d, p>>
      BY <2>2, <1>1
    <3>2. Cell(D2, T2, c, i, j) = None /\ Cell(D, T, c, i, j) = None
      BY <2>2, <1>4, <1>5, <1>6 DEF Cell
    <3>. QED
      BY <3>1, <3>2, <2>0
  <2>3. CASE ~(c = d /\ i = p[1])
    <3>1. x # <<d, p>>
      BY <2>3, <1>1
    <3>2. D2[c][i] = D[c][i]
      BY <2>3, <1>8
    <3>3. D[c][i] # None => D[c][i] \in DOMAIN T
      BY DEF Shape, Typed
    <3>4. D[c][i] # None => T2[D[c][i]] = T[D[c][i]]
      BY <3>3, <1>6
    <3>5. Cell(D2, T2, c, i, j) = Cell(D, T, c, i, j)
      BY <3>2, <3>4 DEF Cell
    <3>. QED
      BY <3>1, <3>5, <2>0
  <2>. QED
    BY <2>1, <2>2, <2>3
<1>14. Reads(B, D2, T2)
  BY <1>3, <1>13 DEF Reads
<1>. HIDE DEF B
<1>15. View(D2, T2) = B
  BY <1>7, <1>12, <1>14, ViewIs
<1>. QED
  BY <1>3, <1>6, <1>7, <1>9, <1>10, <1>15 DEF Shape, A, B, At

(* Tables are rewritten; they stay where they are.                         *)
LEMMA ShapeTables ==
  ASSUME NEW D, NEW T, Shape(D, T), NEW T2, DOMAIN T2 = DOMAIN T,
         \A t \in DOMAIN T : T2[t] \in [TabIdx -> Entries \cup {None}]
  PROVE  Shape(D, T2)
BY DEF Shape, Typed, Placed

(* A directory is added, with tables of its own.                           *)
NewSpace(D, T, d, G, dir, T2, C) ==
  /\ d \in Frames \ (DOMAIN D \cup DOMAIN T)
  /\ G \subseteq Frames \ (DOMAIN D \cup DOMAIN T \cup {d})
  /\ dir \in [DirIdx -> G \cup {None}]
  /\ \A i, j \in DirIdx : dir[i] # None /\ dir[i] = dir[j] => i = j
  /\ \A t \in G : \E i \in DirIdx : dir[i] = t
  /\ DOMAIN T2 = DOMAIN T \cup G
  /\ \A t \in DOMAIN T : T2[t] = T[t]
  /\ \A t \in G : T2[t] \in [TabIdx -> Entries \cup {None}]
  /\ C \in [Pages -> Entries \cup {None}]
  /\ \A i \in DirIdx : \A j \in TabIdx :
       C[<<i, j>>] = IF dir[i] = None THEN None ELSE T2[dir[i]][j]

LEMMA ShapeJoin ==
  ASSUME NEW D, NEW T, Shape(D, T), NEW d, NEW G, NEW dir, NEW T2, NEW C,
         NewSpace(D, T, d, G, dir, T2, C)
  PROVE  /\ Shape(Put(D, d, dir), T2)
         /\ DOMAIN Put(D, d, dir) = DOMAIN D \cup {d}
         /\ Joins(View(D, T), View(Put(D, d, dir), T2), DOMAIN D, d, C)
<1>. DEFINE D2 == Put(D, d, dir)
            A == View(D, T)
            B == Joined(A, DOMAIN D, d, C)
<1>0. /\ d \in Frames \ (DOMAIN D \cup DOMAIN T)
      /\ G \subseteq Frames \ (DOMAIN D \cup DOMAIN T \cup {d})
      /\ dir \in [DirIdx -> G \cup {None}]
      /\ \A i, j \in DirIdx : dir[i] # None /\ dir[i] = dir[j] => i = j
      /\ \A t \in G : \E i \in DirIdx : dir[i] = t
      /\ DOMAIN T2 = DOMAIN T \cup G
      /\ \A t \in DOMAIN T : T2[t] = T[t]
      /\ \A t \in G : T2[t] \in [TabIdx -> Entries \cup {None}]
      /\ C \in [Pages -> Entries \cup {None}]
      /\ \A i \in DirIdx : \A j \in TabIdx :
           C[<<i, j>>] = IF dir[i] = None THEN None ELSE T2[dir[i]][j]
  BY DEF NewSpace
<1>. USE <1>0
<1>1. /\ DOMAIN D2 = DOMAIN D \cup {d} /\ D2[d] = dir
      /\ \A c \in DOMAIN D : D2[c] = D[c]
  BY DEF Put
<1>. HIDE DEF D2
<1>2. Typed(D, T) /\ None \notin Frames
  BY VmmAssumption DEF Shape
<1>3. Typed(D2, T2)
  <2>1. /\ DOMAIN D2 \subseteq Frames /\ DOMAIN T2 \subseteq Frames
        /\ DOMAIN D2 \cap DOMAIN T2 = {}
    BY <1>1, <1>2 DEF Typed
  <2>2. \A c \in DOMAIN D2 : D2[c] \in [DirIdx -> DOMAIN T2 \cup {None}]
    <3>. SUFFICES ASSUME NEW c \in DOMAIN D2
                  PROVE  D2[c] \in [DirIdx -> DOMAIN T2 \cup {None}]
      OBVIOUS
    <3>1. CASE c = d
      BY <3>1, <1>1
    <3>2. CASE c \in DOMAIN D
      <4>1. D[c] \in [DirIdx -> DOMAIN T \cup {None}] /\ D2[c] = D[c]
        BY <3>2, <1>1, <1>2 DEF Typed
      <4>. QED
        BY <4>1
    <3>. QED
      BY <3>1, <3>2, <1>1
  <2>3. \A t \in DOMAIN T2 : T2[t] \in [TabIdx -> Entries \cup {None}]
    BY <1>2 DEF Typed
  <2>. QED
    BY <2>1, <2>2, <2>3 DEF Typed
<1>4. OnePlace(D2)
  <2>1. \A c \in DOMAIN D : \A i \in DirIdx : D[c][i] \in DOMAIN T \cup {None}
    BY <1>2 DEF Typed
  <2>2. \A i \in DirIdx : dir[i] \in G \cup {None}
    OBVIOUS
  <2>. SUFFICES ASSUME NEW b \in DOMAIN D2, NEW c \in DOMAIN D2,
                       NEW i \in DirIdx, NEW j \in DirIdx,
                       D2[b][i] # None, D2[b][i] = D2[c][j]
                PROVE  b = c /\ i = j
    BY DEF OnePlace
  <2>3. CASE b = d /\ c = d
    BY <2>3, <1>1
  <2>4. CASE b # d /\ c # d
    <3>1. D[b][i] # None /\ D[b][i] = D[c][j] /\ b \in DOMAIN D /\ c \in DOMAIN D
      BY <2>4, <1>1
    <3>. QED
      BY <3>1 DEF Shape, OnePlace
  <2>5. CASE b = d /\ c # d
    BY <2>5, <2>1, <2>2, <1>1
  <2>6. CASE b # d /\ c = d
    BY <2>6, <2>1, <2>2, <1>1
  <2>. QED
    BY <2>3, <2>4, <2>5, <2>6
<1>5. Placed(D2, T2)
  <2>. SUFFICES ASSUME NEW t \in DOMAIN T2
                PROVE  \E c \in DOMAIN D2 : \E i \in DirIdx : D2[c][i] = t
    BY DEF Placed
  <2>1. CASE t \in G
    BY <2>1, <1>1
  <2>2. CASE t \in DOMAIN T
    <3>1. PICK c \in DOMAIN D, i \in DirIdx : D[c][i] = t
      BY <2>2 DEF Shape, Placed
    <3>2. c \in DOMAIN D2 /\ D2[c][i] = t
      BY <3>1, <1>1
    <3>. QED
      BY <3>2
  <2>. QED
    BY <2>1, <2>2
<1>6. IsView(A, DOMAIN D) /\ Reads(A, D, T)
  BY <1>2, ViewAt
<1>. HIDE DEF A
<1>7. Joins(A, B, DOMAIN D, d, C)
  BY <1>6, JoinedView
<1>. HIDE DEF B
<1>8. IsView(B, DOMAIN D2)
  BY <1>1, <1>7 DEF Joins
<1>9. ASSUME NEW c \in DOMAIN D2, NEW i \in DirIdx, NEW j \in TabIdx
      PROVE  B[<<c, <<i, j>>>>] = Cell(D2, T2, c, i, j)
  <2>1. CASE c = d
    <3>1. <<i, j>> \in Pages
      BY DEF Pages
    <3>2. B[<<c, <<i, j>>>>] = C[<<i, j>>]
      BY <2>1, <3>1, <1>7 DEF Joins
    <3>3. Cell(D2, T2, c, i, j) = IF dir[i] = None THEN None ELSE T2[dir[i]][j]
      BY <2>1, <1>1 DEF Cell
    <3>. QED
      BY <3>2, <3>3
  <2>2. CASE c # d
    <3>1. c \in DOMAIN D /\ D2[c] = D[c]
      BY <2>2, <1>1
    <3>2. <<c, <<i, j>>>> \in DOMAIN A
      BY <3>1, <1>6 DEF IsView, Pages
    <3>3. B[<<c, <<i, j>>>>] = Cell(D, T, c, i, j)
      <4>1. B[<<c, <<i, j>>>>] = A[<<c, <<i, j>>>>]
        BY <3>2, <1>7 DEF Joins
      <4>2. A[<<c, <<i, j>>>>] = Cell(D, T, c, i, j)
        BY <3>1, <1>6 DEF Reads
      <4>. QED
        BY <4>1, <4>2
    <3>4. D[c][i] # None => D[c][i] \in DOMAIN T
      BY <3>1, <1>2 DEF Typed
    <3>5. D[c][i] # None => T2[D[c][i]] = T[D[c][i]]
      BY <3>4
    <3>. QED
      BY <3>1, <3>3, <3>5 DEF Cell
  <2>. QED
    BY <2>1, <2>2
<1>10. Reads(B, D2, T2)
  BY <1>9 DEF Reads
<1>11. View(D2, T2) = B
  BY <1>3, <1>8, <1>10, ViewIs
<1>. QED
  BY <1>1, <1>3, <1>4, <1>5, <1>7, <1>11 DEF Shape, A, D2

(* A directory without tables.                                             *)
LEMMA ShapeEmpty ==
  ASSUME NEW D, NEW T, Shape(D, T), NEW d \in Frames \ (DOMAIN D \cup DOMAIN T)
  PROVE  /\ Shape(Put(D, d, Empty), T)
         /\ DOMAIN Put(D, d, Empty) = DOMAIN D \cup {d}
         /\ Joins(View(D, T), View(Put(D, d, Empty), T), DOMAIN D, d, Flushed)
<1>1. /\ Empty \in [DirIdx -> {} \cup {None}] /\ \A i \in DirIdx : Empty[i] = None
      /\ Flushed \in [Pages -> Entries \cup {None}]
      /\ \A i \in DirIdx : \A j \in TabIdx : Flushed[<<i, j>>] = None
  BY DEF Empty, Flushed, Pages
<1>2. NewSpace(D, T, d, {}, Empty, T, Flushed)
  BY <1>1 DEF NewSpace
<1>. QED
  BY <1>2, ShapeJoin

(* A directory goes, and its tables with it.                               *)
TabsOf(D, d) == {D[d][i] : i \in {j \in DirIdx : D[d][j] # None}}

DirsLess(D, d) == Restrict(D, DOMAIN D \ {d})
TabsLess(D, T, d) == Restrict(T, DOMAIN T \ TabsOf(D, d))

LEMMA ShapeDestroy ==
  ASSUME NEW D, NEW T, Shape(D, T), NEW d \in DOMAIN D
  PROVE  /\ Shape(DirsLess(D, d), TabsLess(D, T, d))
         /\ DOMAIN DirsLess(D, d) = DOMAIN D \ {d}
         /\ DOMAIN TabsLess(D, T, d) = DOMAIN T \ TabsOf(D, d)
         /\ TabsOf(D, d) \subseteq DOMAIN T
         /\ Parts(View(D, T), View(DirsLess(D, d), TabsLess(D, T, d)), DOMAIN D, d)
<1>. DEFINE D2 == DirsLess(D, d)
            T2 == TabsLess(D, T, d)
            G == TabsOf(D, d)
            A == View(D, T)
            B == [x \in (DOMAIN D \ {d}) \X Pages |-> A[x]]
<1>1. /\ DOMAIN D2 = DOMAIN D \ {d} /\ \A c \in DOMAIN D2 : D2[c] = D[c]
      /\ DOMAIN T2 = DOMAIN T \ G /\ \A t \in DOMAIN T2 : T2[t] = T[t]
  BY DEF Restrict, DirsLess, TabsLess
<1>. HIDE DEF D2, T2
<1>13. G = {D[d][i] : i \in {j \in DirIdx : D[d][j] # None}}
  BY DEF TabsOf
<1>. HIDE DEF G
<1>. USE <1>13
<1>2. Typed(D, T) /\ \A c \in DOMAIN D : \A i \in DirIdx : D[c][i] \in DOMAIN T \cup {None}
  BY DEF Shape, Typed
<1>3. G \subseteq DOMAIN T
  BY <1>2
<1>4. \A c \in DOMAIN D2 : \A i \in DirIdx : D[c][i] \notin G
  <2>. SUFFICES ASSUME NEW c \in DOMAIN D2, NEW i \in DirIdx, NEW j \in DirIdx,
                       D[d][j] # None, D[c][i] = D[d][j]
                PROVE  FALSE
    OBVIOUS
  <2>1. d = c
    BY <1>1 DEF Shape, OnePlace
  <2>. QED
    BY <2>1, <1>1
<1>5. Typed(D2, T2)
  <2>1. \A c \in DOMAIN D2 : D2[c] \in [DirIdx -> DOMAIN T2 \cup {None}]
    <3>. SUFFICES ASSUME NEW c \in DOMAIN D2
                  PROVE  D2[c] \in [DirIdx -> DOMAIN T2 \cup {None}]
      OBVIOUS
    <3>1. c \in DOMAIN D /\ D2[c] = D[c]
      BY <1>1
    <3>2. D[c] \in [DirIdx -> DOMAIN T \cup {None}]
      BY <3>1, <1>2 DEF Typed
    <3>. QED
      BY <3>1, <3>2, <1>1, <1>4
  <2>2. \A t \in DOMAIN T2 : T2[t] \in [TabIdx -> Entries \cup {None}]
    BY <1>1, <1>2 DEF Typed
  <2>. QED
    BY <2>1, <2>2, <1>1, <1>2 DEF Typed
<1>6. OnePlace(D2)
  <2>1. OnePlace(D) /\ \A c \in DOMAIN D2 : c \in DOMAIN D /\ D2[c] = D[c]
    BY <1>1 DEF Shape
  <2>. QED
    BY ONLY <2>1 DEF OnePlace
<1>7. Placed(D2, T2)
  <2>. SUFFICES ASSUME NEW t \in DOMAIN T2
                PROVE  \E c \in DOMAIN D2 : \E i \in DirIdx : D2[c][i] = t
    BY DEF Placed
  <2>1. t \in DOMAIN T /\ t \notin G /\ t # None
    BY <1>1, <1>2, VmmAssumption DEF Typed
  <2>2. PICK c \in DOMAIN D, i \in DirIdx : D[c][i] = t
    BY <2>1 DEF Shape, Placed
  <2>3. c # d
    BY <2>1, <2>2
  <2>. QED
    BY <2>2, <2>3, <1>1
<1>8. IsView(A, DOMAIN D) /\ Reads(A, D, T)
  BY <1>2, ViewAt
<1>. HIDE DEF A
<1>9. /\ IsView(B, DOMAIN D2)
      /\ \A x \in (DOMAIN D2) \X Pages : B[x] = A[x]
  BY <1>1, <1>8 DEF IsView
<1>. HIDE DEF B
<1>10. ASSUME NEW c \in DOMAIN D2, NEW i \in DirIdx, NEW j \in TabIdx
       PROVE  B[<<c, <<i, j>>>>] = Cell(D2, T2, c, i, j)
  <2>1. <<c, <<i, j>>>> \in (DOMAIN D2) \X Pages
    BY DEF Pages
  <2>2. c \in DOMAIN D /\ D2[c] = D[c]
    BY <1>1
  <2>3. A[<<c, <<i, j>>>>] = Cell(D, T, c, i, j)
    BY <2>2, <1>8 DEF Reads
  <2>4. B[<<c, <<i, j>>>>] = Cell(D, T, c, i, j)
    BY <2>1, <2>3, <1>9
  <2>5. D[c][i] # None => T2[D[c][i]] = T[D[c][i]]
    BY <2>2, <1>1, <1>2, <1>4
  <2>. QED
    BY <2>2, <2>4, <2>5 DEF Cell
<1>11. Reads(B, D2, T2)
  BY <1>10 DEF Reads
<1>12. View(D2, T2) = B
  BY <1>5, <1>9, <1>11, ViewIs
<1>. QED
  BY <1>1, <1>3, <1>5, <1>6, <1>7, <1>9, <1>12 DEF Shape, Parts, A, G, D2, T2

-----------------------------------------------------------------------------
(* The operations of vmm.c keep the memory in order.                       *)
Uses(D, T, L) == DOMAIN D \cup DOMAIN T \cup L

Mem(D, T, L, R) == /\ Shape(D, T)
                   /\ L \cap (DOMAIN D \cup DOMAIN T) = {}
                   /\ Counted(View(D, T), Uses(D, T, L), R)

MemInv == Mem(dirs, tabs, lost, ref)

(* Outside the places X, what was mapped still is, with no new permission, *)
(* and a frame with a single holder gets no other.                         *)
Weaker(e, e2) == e # None => /\ e2 # None
                             /\ e2.frame = e.frame
                             /\ e2.rw => e.rw

NoNewHolder(R, R2) == \A f \in Frames : R[f] = 1 => R2[f] <= 1

Effect(A, R, B, R2, X) ==
  /\ \A x \in DOMAIN A \ X : x \in DOMAIN B /\ Weaker(A[x], B[x])
  /\ NoNewHolder(R, R2)

(* Consequences of Mem, and the place of the view that Entry reads.        *)
EntryIn(D, T, d, p) == IF d \in DOMAIN D THEN View(D, T)[<<d, p>>] ELSE None

LEMMA MemView ==
  ASSUME NEW D, NEW T, NEW L, NEW R, Mem(D, T, L, R)
  PROVE  /\ IsView(View(D, T), DOMAIN D)
         /\ DOMAIN View(D, T) = (DOMAIN D) \X Pages
         /\ Typed(D, T)
         /\ Counted(View(D, T), Uses(D, T, L), R)
         /\ R \in [Frames -> 0..RefMax]
         /\ L \subseteq Frames
<1>1. Typed(D, T) /\ Counted(View(D, T), Uses(D, T, L), R)
  BY DEF Mem, Shape
<1>2. IsView(View(D, T), DOMAIN D)
  BY <1>1, ViewAt
<1>. QED
  BY <1>1, <1>2 DEF IsView, Counted, CountsMatch, Uses

LEMMA EntryRead ==
  ASSUME NEW D, NEW T, Typed(D, T), NEW d, NEW p \in Pages
  PROVE  EntryIn(D, T, d, p) =
           LET t == (IF d \in DOMAIN D THEN D[d] ELSE Empty)[p[1]]
           IN IF t = None THEN None ELSE T[t][p[2]]
<1>1. p[1] \in DirIdx /\ p[2] \in TabIdx /\ p = <<p[1], p[2]>>
  BY DEF Pages
<1>2. Reads(View(D, T), D, T)
  BY ViewAt
<1>3. CASE d \in DOMAIN D
  <2>1. View(D, T)[<<d, <<p[1], p[2]>>>>] = Cell(D, T, d, p[1], p[2])
    BY <1>1, <1>2, <1>3 DEF Reads
  <2>2. View(D, T)[<<d, p>>] = Cell(D, T, d, p[1], p[2])
    BY <2>1, <1>1
  <2>. QED
    BY <2>2, <1>3 DEF EntryIn, Cell
<1>4. CASE d \notin DOMAIN D
  BY <1>1, <1>4 DEF EntryIn, Empty
<1>. QED
  BY <1>3, <1>4

LEMMA EntryIs ==
  ASSUME MemInv, NEW d, NEW p \in Pages
  PROVE  Entry(d, p) = EntryIn(dirs, tabs, d, p)
<1>1. Typed(dirs, tabs)
  BY MemView DEF MemInv
<1>. QED
  BY <1>1, EntryRead DEF Entry, table_for, Dir

LEMMA EntryIsNext ==
  ASSUME MemInv', NEW d, NEW p \in Pages
  PROVE  Entry(d, p)' = EntryIn(dirs', tabs', d, p)
<1>1. Typed(dirs', tabs')
  BY MemView DEF MemInv
<1>. QED
  BY <1>1, EntryRead DEF Entry, table_for, Dir

LEMMA FreeIs ==
  ASSUME MemInv, NEW f \in Free
  PROVE  /\ f \in Frames /\ ref[f] = 0
         /\ f \notin DOMAIN dirs /\ f \notin DOMAIN tabs /\ f \notin lost
<1>1. f \in Frames /\ ref[f] = 0
  BY DEF Free
<1>2. /\ IsView(View(dirs, tabs), DOMAIN dirs)
      /\ Counted(View(dirs, tabs), Uses(dirs, tabs, lost), ref)
  BY MemView DEF MemInv
<1>3. f \notin Uses(dirs, tabs, lost)
  BY <1>1, <1>2, FreeUnused
<1>. QED
  BY <1>1, <1>3 DEF Uses

LEMMA ReservedNoNew ==
  ASSUME NEW R \in [Frames -> 0..RefMax], NEW G
  PROVE  NoNewHolder(R, Reserved(R, G))
BY DEF NoNewHolder, Reserved

(* One place of the view is written.                                       *)
LEMMA EffectSet ==
  ASSUME NEW A, NEW R, NEW B, NEW R2, NEW x, NEW e, B = At(A, x, e),
         NoNewHolder(R, R2)
  PROVE  Effect(A, R, B, R2, {x})
BY DEF Effect, Weaker, At

(* The entry of a page that vmm_map_alloc adds.                            *)
NewPage(f, w) == [frame |-> f, rw |-> w, cow |-> FALSE]

LEMMA MapAllocMem ==
  ASSUME MemInv, NEW d \in DOMAIN dirs, NEW p \in Pages, NEW w \in BOOLEAN,
         Entry(d, p) = None, vmm_map_alloc(d, p, w)
  PROVE  /\ MemInv'
         /\ DOMAIN dirs' = DOMAIN dirs
         /\ Effect(View(dirs, tabs), ref, View(dirs', tabs'), ref', {<<d, p>>})
         /\ \E e \in Entries : e.rw = w /\ View(dirs', tabs')[<<d, p>>] = e
         /\ tlb' = [tlb EXCEPT ![p] = None]
         /\ \E f \in Free : /\ View(dirs', tabs') = At(View(dirs, tabs), <<d, p>>, NewPage(f, w))
                           /\ data' = Put(data, f, Zero)
<1>. DEFINE A == View(dirs, tabs)
            S == Uses(dirs, tabs, lost)
            x == <<d, p>>
<1>1. /\ IsView(A, DOMAIN dirs) /\ DOMAIN A = (DOMAIN dirs) \X Pages
      /\ Typed(dirs, tabs) /\ Counted(A, S, ref)
      /\ ref \in [Frames -> 0..RefMax]
  BY MemView DEF MemInv
<1>2. x \in (DOMAIN dirs) \X Pages
  OBVIOUS
<1>3. A[x] = None
  BY EntryIs DEF EntryIn
<1>4. Shape(dirs, tabs) /\ lost \cap (DOMAIN dirs \cup DOMAIN tabs) = {}
  BY DEF MemInv, Mem
<1>5. p[1] \in DirIdx /\ p[2] \in TabIdx
  BY DEF Pages
<1>6. table_for(d, p) = dirs[d][p[1]]
  BY DEF table_for, Dir
<1>. HIDE DEF A, S, x
<1>7. ASSUME NEW f \in Free, MapHere(d, p, w, f)
      PROVE  /\ MemInv'
             /\ DOMAIN dirs' = DOMAIN dirs
             /\ Effect(A, ref, View(dirs', tabs'), ref', {x})
             /\ \E e \in Entries : e.rw = w /\ View(dirs', tabs')[x] = e
             /\ tlb' = [tlb EXCEPT ![p] = None]
             /\ View(dirs', tabs') = At(A, x, NewPage(f, w))
             /\ data' = Put(data, f, Zero)
  <2>. DEFINE e == NewPage(f, w)
              B == At(A, x, e)
  <2>1. /\ f \in Frames /\ ref[f] = 0
    BY FreeIs
  <2>2. e \in Entries /\ e.frame = f /\ e.rw = w
    BY <2>1 DEF Entries, NewPage
  <2>3. /\ dirs' = dirs /\ lost' = lost
        /\ dirs[d][p[1]] # None
        /\ tabs' = WithEntry(tabs, dirs[d][p[1]], p[2], e)
        /\ ref' = [ref EXCEPT ![f] = 1]
        /\ tlb' = [tlb EXCEPT ![p] = None]
        /\ data' = Put(data, f, Zero)
    BY <1>6, <1>7 DEF MapHere, vmm_flush, WithEntry, NewPage
  <2>4. ref' = Reserved(ref, {f})
    BY <1>1, <2>3 DEF Reserved
  <2>. HIDE DEF e
  <2>5. /\ Shape(dirs, tabs') /\ DOMAIN tabs' = DOMAIN tabs
        /\ View(dirs, tabs') = B
    BY <1>4, <2>2, <2>3, ShapeSet DEF A, x
  <2>. HIDE DEF B
  <2>6. Counted(B, S, Reserved(ref, {e.frame}))
    BY <1>1, <1>2, <1>3, <2>1, <2>2, CountMap DEF B, At
  <2>7. Counted(View(dirs', tabs'), Uses(dirs', tabs', lost'), ref')
    BY <2>2, <2>3, <2>4, <2>5, <2>6 DEF S, Uses
  <2>8. MemInv'
    BY <1>4, <2>3, <2>5, <2>7 DEF MemInv, Mem
  <2>9. Effect(A, ref, B, ref', {x})
    BY <1>1, <2>4, ReservedNoNew, EffectSet DEF B
  <2>10. B[x] = e
    BY <1>1, <1>2 DEF B, At
  <2>. QED
    BY <2>2, <2>3, <2>5, <2>8, <2>9, <2>10 DEF B, e
<1>8. ASSUME NEW f \in Free, NEW t \in Free \ {f}, MapNewTable(d, p, w, f, t)
      PROVE  /\ MemInv'
             /\ DOMAIN dirs' = DOMAIN dirs
             /\ Effect(A, ref, View(dirs', tabs'), ref', {x})
             /\ \E e \in Entries : e.rw = w /\ View(dirs', tabs')[x] = e
             /\ tlb' = [tlb EXCEPT ![p] = None]
             /\ View(dirs', tabs') = At(A, x, NewPage(f, w))
             /\ data' = Put(data, f, Zero)
  <2>. DEFINE e == NewPage(f, w)
              B == At(A, x, e)
              R1 == Reserved(ref, {t})
  <2>1. /\ f \in Frames /\ ref[f] = 0
        /\ t \in Frames /\ ref[t] = 0 /\ t # f
        /\ t \notin DOMAIN dirs /\ t \notin DOMAIN tabs /\ t \notin lost
    BY FreeIs
  <2>2. e \in Entries /\ e.frame = f /\ e.rw = w
    BY <2>1 DEF Entries, NewPage
  <2>3. /\ lost' = lost
        /\ dirs[d][p[1]] = None
        /\ dirs' = WithTable(dirs, d, p[1], t)
        /\ tabs' = Put(tabs, t, OneEntry(p[2], e))
        /\ ref' = [ref EXCEPT ![f] = 1, ![t] = 1]
        /\ tlb' = [tlb EXCEPT ![p] = None]
    BY <1>6, <1>8 DEF MapNewTable, vmm_flush, WithTable, OneEntry, NewPage
  <2>15. data' = Put(data, f, Zero)
    BY <1>8 DEF MapNewTable
  <2>4. ref' = Reserved(R1, {f}) /\ ref' = Reserved(ref, {t, f})
    BY <1>1, <2>1, <2>3 DEF Reserved
  <2>. HIDE DEF e
  <2>5. /\ Shape(dirs', tabs') /\ DOMAIN dirs' = DOMAIN dirs
        /\ DOMAIN tabs' = DOMAIN tabs \cup {t}
        /\ View(dirs', tabs') = B
    BY <1>4, <2>1, <2>2, <2>3, ShapeNew DEF A, x
  <2>. HIDE DEF B
  <2>6. Counted(A, S \cup {t}, R1)
    BY <1>1, <2>1, CountReserve
  <2>7. R1[f] = 0
    BY <2>1 DEF Reserved
  <2>. HIDE DEF R1
  <2>8. Counted(B, S \cup {t}, Reserved(R1, {e.frame}))
    BY <1>1, <1>2, <1>3, <2>2, <2>6, <2>7, CountMap DEF B, At
  <2>9. Uses(dirs', tabs', lost') = S \cup {t}
    BY <2>3, <2>5 DEF S, Uses
  <2>10. Counted(View(dirs', tabs'), Uses(dirs', tabs', lost'), ref')
    BY <2>2, <2>4, <2>5, <2>8, <2>9
  <2>11. lost' \cap (DOMAIN dirs' \cup DOMAIN tabs') = {}
    BY <1>4, <2>1, <2>3, <2>5
  <2>12. MemInv'
    BY <2>5, <2>10, <2>11 DEF MemInv, Mem
  <2>13. Effect(A, ref, B, ref', {x})
    BY <1>1, <2>4, ReservedNoNew, EffectSet DEF B
  <2>14. B[x] = e
    BY <1>1, <1>2 DEF B, At
  <2>. QED
    BY <2>2, <2>3, <2>5, <2>12, <2>13, <2>14, <2>15 DEF B, e
<1>. QED
  BY <1>7, <1>8 DEF vmm_map_alloc, A, x

LEMMA MapFailsMem ==
  ASSUME MemInv, NEW d, NEW p \in Pages, vmm_map_alloc_fails(d, p)
  PROVE  /\ MemInv'
         /\ dirs' = dirs /\ tabs' = tabs /\ tlb' = tlb
         /\ Effect(View(dirs, tabs), ref, View(dirs', tabs'), ref', {})
         /\ Free' = {}
         /\ data' = data
<1>1. /\ IsView(View(dirs, tabs), DOMAIN dirs) /\ Typed(dirs, tabs)
      /\ Counted(View(dirs, tabs), Uses(dirs, tabs, lost), ref)
      /\ ref \in [Frames -> 0..RefMax]
  BY MemView DEF MemInv
<1>2. CASE Free = {} /\ UNCHANGED <<frameVars, tlb>>
  <2>1. /\ ref' = ref /\ dirs' = dirs /\ tabs' = tabs /\ lost' = lost /\ tlb' = tlb
        /\ Free' = {} /\ data' = data
    BY <1>2 DEF frameVars, Free
  <2>2. MemInv'
    BY <2>1 DEF MemInv
  <2>. QED
    BY <2>1, <2>2, <1>1 DEF Effect, Weaker, NoNewHolder
<1>3. ASSUME NEW f \in Free, Free = {f}, ref' = [ref EXCEPT ![f] = 1],
             lost' = lost \cup {f}, UNCHANGED <<dirs, tabs, data, tlb>>
      PROVE  /\ MemInv' /\ Free' = {} /\ data' = data
             /\ dirs' = dirs /\ tabs' = tabs /\ tlb' = tlb
             /\ Effect(View(dirs, tabs), ref, View(dirs', tabs'), ref', {})
  <2>1. /\ f \in Frames /\ ref[f] = 0 /\ f \notin DOMAIN dirs
        /\ f \notin DOMAIN tabs
    BY FreeIs
  <2>2. dirs' = dirs /\ tabs' = tabs /\ tlb' = tlb /\ data' = data
    BY <1>3
  <2>3. ref' = Reserved(ref, {f})
    BY <1>1, <1>3 DEF Reserved
  <2>4. Counted(View(dirs, tabs), Uses(dirs, tabs, lost) \cup {f}, Reserved(ref, {f}))
    BY <1>1, <2>1, CountReserve
  <2>5. Uses(dirs', tabs', lost') = Uses(dirs, tabs, lost) \cup {f}
    BY <1>3, <2>2 DEF Uses
  <2>6. Counted(View(dirs', tabs'), Uses(dirs', tabs', lost'), ref')
    BY <2>2, <2>3, <2>4, <2>5
  <2>7. MemInv'
    BY <1>3, <2>1, <2>2, <2>6 DEF MemInv, Mem
  <2>8. Free' = {}
    BY <1>1, <1>3, <2>1 DEF Free
  <2>9. NoNewHolder(ref, ref')
    BY <1>1, <2>3, ReservedNoNew
  <2>. QED
    BY <2>2, <2>7, <2>8, <2>9 DEF Effect, Weaker
<1>. QED
  BY <1>2, <1>3 DEF vmm_map_alloc_fails

LEMMA UnmapMem ==
  ASSUME MemInv, NEW d \in DOMAIN dirs, NEW p \in Pages, vmm_unmap(d, p)
  PROVE  /\ MemInv'
         /\ DOMAIN dirs' = DOMAIN dirs
         /\ Effect(View(dirs, tabs), ref, View(dirs', tabs'), ref', {<<d, p>>})
         /\ tlb' = [tlb EXCEPT ![p] = None]
         /\ View(dirs', tabs') = At(View(dirs, tabs), <<d, p>>, None)
         /\ data' = Restrict(data, Held(ref'))
         /\ View(dirs, tabs)[<<d, p>>] # None
<1>. DEFINE A == View(dirs, tabs)
            S == Uses(dirs, tabs, lost)
            x == <<d, p>>
            B == At(A, x, None)
<1>1. /\ IsView(A, DOMAIN dirs) /\ DOMAIN A = (DOMAIN dirs) \X Pages
      /\ Typed(dirs, tabs) /\ Counted(A, S, ref)
      /\ ref \in [Frames -> 0..RefMax]
  BY MemView DEF MemInv
<1>2. x \in (DOMAIN dirs) \X Pages
  OBVIOUS
<1>3. A[x] = Entry(d, p) /\ A[x] # None
  BY EntryIs DEF EntryIn, vmm_unmap, Mapped
<1>4. Shape(dirs, tabs) /\ lost \cap (DOMAIN dirs \cup DOMAIN tabs) = {}
  BY DEF MemInv, Mem
<1>5. table_for(d, p) = dirs[d][p[1]] /\ dirs[d][p[1]] # None
  BY <1>3 DEF table_for, Dir, Entry
<1>. HIDE DEF A, S, x
<1>6. /\ dirs' = dirs /\ lost' = lost
      /\ tabs' = WithEntry(tabs, dirs[d][p[1]], p[2], None)
      /\ ref' = [ref EXCEPT ![A[x].frame] = Freed(@, 1)]
      /\ tlb' = [tlb EXCEPT ![p] = None]
      /\ data' = Restrict(data, Held(ref'))
  BY <1>3, <1>5 DEF vmm_unmap, vmm_flush, WithEntry
<1>7. /\ Shape(dirs, tabs') /\ DOMAIN tabs' = DOMAIN tabs
      /\ View(dirs, tabs') = B
  BY <1>4, <1>5, <1>6, ShapeSet DEF A, x
<1>8. Counted(B, S, ref')
  BY <1>1, <1>2, <1>3, <1>6, CountUnmap DEF At
<1>. HIDE DEF B
<1>9. Counted(View(dirs', tabs'), Uses(dirs', tabs', lost'), ref')
  BY <1>6, <1>7, <1>8 DEF S, Uses
<1>10. MemInv'
  BY <1>4, <1>6, <1>7, <1>9 DEF MemInv, Mem
<1>11. NoNewHolder(ref, ref')
  BY <1>1, <1>6 DEF NoNewHolder, Freed
<1>12. Effect(A, ref, B, ref', {x})
  BY <1>11, EffectSet DEF B
<1>. QED
  BY <1>3, <1>6, <1>7, <1>10, <1>12 DEF A, x, B

(* The page at x becomes writable, where it is or in a copy.               *)
Moves(A, x, B) == \/ /\ B = At(A, x, NewPage(A[x].frame, TRUE))
                     /\ data' = data
                  \/ \E f \in Free : /\ B = At(A, x, NewPage(f, TRUE))
                                     /\ data' = Put(data, f, data[A[x].frame])

LEMMA CowMem ==
  ASSUME MemInv, NEW p \in Pages, cr3 \in DOMAIN dirs, Entry(cr3, p) # None,
         vmm_cow_handle(p)
  PROVE  /\ MemInv'
         /\ DOMAIN dirs' = DOMAIN dirs
         /\ Effect(View(dirs, tabs), ref, View(dirs', tabs'), ref', {<<cr3, p>>})
         /\ \E e \in Entries : e.rw = TRUE /\ View(dirs', tabs')[<<cr3, p>>] = e
         /\ tlb' = [tlb EXCEPT ![p] = None]
         /\ Moves(View(dirs, tabs), <<cr3, p>>, View(dirs', tabs'))
<1>. DEFINE A == View(dirs, tabs)
            S == Uses(dirs, tabs, lost)
            d == cr3
            x == <<d, p>>
            old == A[x].frame
<1>1. /\ IsView(A, DOMAIN dirs) /\ DOMAIN A = (DOMAIN dirs) \X Pages
      /\ Typed(dirs, tabs) /\ Counted(A, S, ref)
      /\ ref \in [Frames -> 0..RefMax]
  BY MemView DEF MemInv
<1>2. x \in (DOMAIN dirs) \X Pages
  OBVIOUS
<1>3. A[x] = Entry(d, p) /\ A[x] # None
  BY EntryIs DEF EntryIn
<1>4. Shape(dirs, tabs) /\ lost \cap (DOMAIN dirs \cup DOMAIN tabs) = {}
  BY DEF MemInv, Mem
<1>5. table_for(d, p) = dirs[d][p[1]] /\ dirs[d][p[1]] # None
  BY <1>3 DEF table_for, Dir, Entry
<1>6. old \in Frames /\ ref[old] \in Nat /\ ref[old] >= 1
  BY <1>1, <1>2, <1>3, MappedCounted
<1>. HIDE DEF A, S, x, old, d
<1>7. CASE CowInPlace(p)
  <2>. DEFINE e == [frame |-> old, rw |-> TRUE, cow |-> FALSE]
              B == At(A, x, e)
  <2>0. e \in Entries
    BY <1>6 DEF Entries
  <2>1. e \in Entries /\ e # None /\ e.frame = old /\ e.rw = TRUE
    BY <2>0, NoneAssumption
  <2>2. /\ dirs' = dirs /\ lost' = lost /\ ref' = ref
        /\ tabs' = WithEntry(tabs, dirs[d][p[1]], p[2], e)
        /\ tlb' = [tlb EXCEPT ![p] = None]
        /\ ref[old] <= 1 /\ data' = data
    BY <1>3, <1>5, <1>7
    DEF CowInPlace, vmm_flush, WithEntry, Writable, LastHolder, old, d
  <2>. HIDE DEF e
  <2>3. /\ Shape(dirs, tabs') /\ DOMAIN tabs' = DOMAIN tabs
        /\ View(dirs, tabs') = B
    BY <1>4, <1>5, <2>1, <2>2, ShapeSet DEF A, x, d
  <2>4. /\ DOMAIN B = DOMAIN A /\ B[x] = e /\ x \in DOMAIN A
        /\ \A y \in DOMAIN A : y # x => B[y] = A[y]
    BY <1>1, <1>2 DEF At
  <2>. HIDE DEF B
  <2>5. SameFrames(A, B)
    BY <1>3, <2>1, <2>4 DEF SameFrames, old
  <2>6. \A y \in DOMAIN B : B[y] # None /\ B[y].rw /\ ~A[y].rw => ref[B[y].frame] = 1
    BY <1>6, <2>1, <2>2, <2>4
  <2>7. Counted(B, S, ref)
    BY <1>1, <2>5, <2>6, CountKeep
  <2>8. Counted(View(dirs', tabs'), Uses(dirs', tabs', lost'), ref')
    BY <2>2, <2>3, <2>7 DEF S, Uses
  <2>9. MemInv'
    BY <1>4, <2>2, <2>3, <2>8 DEF MemInv, Mem
  <2>10. Effect(A, ref, B, ref', {x})
    BY <1>1, <2>2, EffectSet DEF B, NoNewHolder
  <2>11. Moves(A, x, View(dirs', tabs'))
    BY <2>2, <2>3 DEF B, e, Moves, NewPage, old
  <2>. QED
    BY <2>1, <2>2, <2>3, <2>4, <2>9, <2>10, <2>11 DEF A, x, d
<1>8. ASSUME NEW fresh \in Free, CowCopy(p, fresh)
      PROVE  /\ MemInv'
             /\ DOMAIN dirs' = DOMAIN dirs
             /\ Effect(A, ref, View(dirs', tabs'), ref', {x})
             /\ \E e \in Entries : e.rw = TRUE /\ View(dirs', tabs')[x] = e
             /\ tlb' = [tlb EXCEPT ![p] = None]
             /\ Moves(A, x, View(dirs', tabs'))
  <2>. DEFINE e == [frame |-> fresh, rw |-> TRUE, cow |-> FALSE]
              A1 == [A EXCEPT ![x] = None]
              R1 == [ref EXCEPT ![old] = Freed(@, 1)]
              B == At(A, x, e)
  <2>1. fresh \in Frames /\ ref[fresh] = 0 /\ fresh # old
    BY <1>6, FreeIs
  <2>2. e \in Entries /\ e.frame = fresh /\ e.rw = TRUE
    BY <2>1 DEF Entries
  <2>3. /\ dirs' = dirs /\ lost' = lost
        /\ tabs' = WithEntry(tabs, dirs[d][p[1]], p[2], e)
        /\ tlb' = [tlb EXCEPT ![p] = None]
        /\ ref' = [ref EXCEPT ![fresh] = 1, ![old] = Freed(@, 1)]
        /\ data' = Put(data, fresh, data[old])
    BY <1>3, <1>5, <1>8 DEF CowCopy, vmm_flush, WithEntry, Writable, old, d
  <2>. HIDE DEF e
  <2>4. /\ Shape(dirs, tabs') /\ DOMAIN tabs' = DOMAIN tabs
        /\ View(dirs, tabs') = B
    BY <1>4, <1>5, <2>2, <2>3, ShapeSet DEF A, x, d
  <2>5. IsView(A1, DOMAIN dirs) /\ Counted(A1, S, R1)
    BY <1>1, <1>2, <1>3, CountUnmap DEF old
  <2>6. A1[x] = None /\ R1[fresh] = 0
    BY <1>1, <1>2, <2>1
  <2>7. ref' = Reserved(R1, {fresh})
    <3>1. ref' = [R1 EXCEPT ![fresh] = 1]
      BY <1>1, <1>6, <2>1, <2>3
    <3>2. R1 \in [Frames -> 0..RefMax]
      BY <2>5 DEF Counted, CountsMatch
    <3>. HIDE DEF R1
    <3>. QED
      BY <3>1, <3>2 DEF Reserved
  <2>8. B = [A1 EXCEPT ![x] = e]
    BY <1>1, <1>2 DEF At, IsView
  <2>9. NoNewHolder(ref, ref')
    BY <1>1, <1>6, <2>1, <2>3 DEF NoNewHolder, Freed
  <2>. HIDE DEF A1, R1
  <2>10. Counted(B, S, ref')
    <3>1. Counted([A1 EXCEPT ![x] = e], S, Reserved(R1, {e.frame}))
      BY <1>2, <2>2, <2>5, <2>6, CountMap
    <3>. HIDE DEF B
    <3>. QED
      BY <3>1, <2>2, <2>7, <2>8
  <2>11. B[x] = e
    BY <1>1, <1>2 DEF At
  <2>. HIDE DEF B
  <2>12. Counted(View(dirs', tabs'), Uses(dirs', tabs', lost'), ref')
    BY <2>3, <2>4, <2>10 DEF S, Uses
  <2>13. MemInv'
    BY <1>4, <2>3, <2>4, <2>12 DEF MemInv, Mem
  <2>14. Effect(A, ref, B, ref', {x})
    BY <2>9, EffectSet DEF B
  <2>15. Moves(A, x, View(dirs', tabs'))
    BY <2>3, <2>4 DEF B, e, Moves, NewPage, old
  <2>. QED
    BY <2>2, <2>3, <2>4, <2>11, <2>13, <2>14, <2>15
<1>. QED
  BY <1>7, <1>8 DEF vmm_cow_handle, A, x, d

LEMMA CreateMem ==
  ASSUME MemInv, NEW d, vmm_create_dir(d)
  PROVE  /\ MemInv'
         /\ d \in Free
         /\ DOMAIN dirs' = DOMAIN dirs \cup {d}
         /\ Effect(View(dirs, tabs), ref, View(dirs', tabs'), ref', {})
         /\ Joins(View(dirs, tabs), View(dirs', tabs'), DOMAIN dirs, d, Flushed)
         /\ data' = data
<1>. DEFINE A == View(dirs, tabs)
            S == Uses(dirs, tabs, lost)
            B == View(dirs', tabs')
<1>1. /\ IsView(A, DOMAIN dirs)
      /\ Typed(dirs, tabs) /\ Counted(A, S, ref)
      /\ ref \in [Frames -> 0..RefMax]
  BY MemView DEF MemInv
<1>2. /\ d \in Free /\ ref' = [ref EXCEPT ![d] = 1]
      /\ dirs' = Put(dirs, d, Empty) /\ tabs' = tabs /\ lost' = lost /\ data' = data
  BY DEF vmm_create_dir
<1>3. /\ d \in Frames /\ ref[d] = 0
      /\ d \notin DOMAIN dirs /\ d \notin DOMAIN tabs /\ d \notin lost
  BY <1>2, FreeIs
<1>4. Shape(dirs, tabs) /\ lost \cap (DOMAIN dirs \cup DOMAIN tabs) = {}
  BY DEF MemInv, Mem
<1>5. /\ Empty \in [DirIdx -> {} \cup {None}] /\ \A i \in DirIdx : Empty[i] = None
      /\ Flushed \in [Pages -> Entries \cup {None}]
      /\ \A i \in DirIdx : \A j \in TabIdx : Flushed[<<i, j>>] = None
      /\ \A p \in Pages : Flushed[p] = None
  BY DEF Empty, Flushed, Pages
<1>. HIDE DEF A, S
<1>6. /\ Shape(dirs', tabs') /\ DOMAIN dirs' = DOMAIN dirs \cup {d}
      /\ Joins(A, B, DOMAIN dirs, d, Flushed)
  BY <1>2, <1>3, <1>4, ShapeEmpty DEF A
<1>. HIDE DEF B
<1>8. Counted(A, S \cup {d}, Reserved(ref, {d}))
  BY <1>1, <1>3, CountReserve
<1>9. ref' = Reserved(ref, {d})
  BY <1>1, <1>2 DEF Reserved
<1>10. Counted(B, S \cup {d}, Reserved(ref', {}))
  <2>1. {} = {Flushed[p].frame : p \in {q \in Pages : Flushed[q] # None}}
    BY <1>5
  <2>. QED
    BY <1>1, <1>3, <1>5, <1>6, <1>8, <1>9, <2>1, CountCopy
<1>11. Reserved(ref', {}) = ref'
  BY <1>9 DEF Reserved
<1>12. Uses(dirs', tabs', lost') = S \cup {d}
  BY <1>2, <1>6 DEF S, Uses
<1>13. Counted(View(dirs', tabs'), Uses(dirs', tabs', lost'), ref')
  BY <1>10, <1>11, <1>12 DEF B
<1>14. lost' \cap (DOMAIN dirs' \cup DOMAIN tabs') = {}
  BY <1>2, <1>3, <1>4, <1>6
<1>15. MemInv'
  BY <1>6, <1>13, <1>14 DEF MemInv, Mem
<1>16. NoNewHolder(ref, ref')
  BY <1>1, <1>9, ReservedNoNew
<1>17. Effect(A, ref, B, ref', {})
  BY <1>6, <1>16 DEF Joins, Effect, Weaker
<1>. QED
  BY <1>2, <1>6, <1>15, <1>17 DEF A, B

LEMMA DestroyMem ==
  ASSUME MemInv, NEW d \in DOMAIN dirs, vmm_destroy_dir(d)
  PROVE  /\ MemInv'
         /\ DOMAIN dirs' = DOMAIN dirs \ {d}
         /\ lost' = lost
         /\ Effect(View(dirs, tabs), ref, View(dirs', tabs'), ref', {d} \X Pages)
         /\ Parts(View(dirs, tabs), View(dirs', tabs'), DOMAIN dirs, d)
         /\ data' = Restrict(data, Held(ref'))
<1>. DEFINE A == View(dirs, tabs)
            S == Uses(dirs, tabs, lost)
            G == TabsOf(dirs, d)
            C == PagesAt(A, d)
            H == G \cup {d}
            B == View(dirs', tabs')
<1>1. /\ IsView(A, DOMAIN dirs) /\ DOMAIN A = (DOMAIN dirs) \X Pages
      /\ Typed(dirs, tabs) /\ Counted(A, S, ref)
      /\ ref \in [Frames -> 0..RefMax]
  BY MemView DEF MemInv
<1>2. Shape(dirs, tabs) /\ lost \cap (DOMAIN dirs \cup DOMAIN tabs) = {}
  BY DEF MemInv, Mem
<1>3. TablesOf(d) = G
  BY DEF TablesOf, Present, Dir, TabsOf
<1>4. \A p \in Pages : C[p] = Entry(d, p)
  BY EntryIs DEF EntryIn, PagesAt
<1>5. \A f : Mappings(d, f) = PagesOf(C, f)
  BY <1>4 DEF Mappings, Mapped, PagesOf
<1>. HIDE DEF A, S
<1>. HIDE DEF C
<1>7. /\ lost' = lost
      /\ dirs' = DirsLess(dirs, d)
      /\ tabs' = TabsLess(dirs, tabs, d)
      /\ ref' = Lowered(ref, H, C)
      /\ data' = Restrict(data, Held(ref'))
  BY <1>3, <1>5 DEF vmm_destroy_dir, Lowered, DirsLess, TabsLess
<1>8. /\ Shape(dirs', tabs') /\ G \subseteq DOMAIN tabs
      /\ DOMAIN dirs' = DOMAIN dirs \ {d} /\ DOMAIN tabs' = DOMAIN tabs \ G
      /\ Parts(A, B, DOMAIN dirs, d)
  BY <1>2, <1>7, ShapeDestroy DEF A
<1>. HIDE DEF B, G
<1>9. H \in SUBSET S
  BY <1>8 DEF S, Uses
<1>. HIDE DEF H
<1>10. /\ Counted(B, S \ H, ref')
       /\ \A f \in Frames : ref'[f] <= ref[f]
  BY <1>1, <1>7, <1>8, <1>9, CountDestroy DEF C
<1>11. Uses(dirs', tabs', lost') = S \ H
  <2>1. DOMAIN dirs \cap DOMAIN tabs = {}
    BY <1>1 DEF Typed
  <2>. QED
    BY <2>1, <1>2, <1>7, <1>8 DEF S, H, Uses
<1>12. Counted(View(dirs', tabs'), Uses(dirs', tabs', lost'), ref')
  BY <1>10, <1>11 DEF B
<1>13. MemInv'
  BY <1>2, <1>7, <1>8, <1>12 DEF MemInv, Mem
<1>14. NoNewHolder(ref, ref')
  BY <1>10 DEF NoNewHolder
<1>15. Effect(A, ref, B, ref', {d} \X Pages)
  <2>1. \A x \in DOMAIN A \ ({d} \X Pages) : x \in DOMAIN B /\ B[x] = A[x]
    BY <1>1, <1>8 DEF Parts, IsView
  <2>. QED
    BY <2>1, <1>14 DEF Effect, Weaker
<1>. QED
  BY <1>7, <1>8, <1>13, <1>15 DEF A, B

(* What vmm_clone_cow leaves in the tables it shares.                      *)
LEMMA SharedIs ==
  ASSUME NEW e \in Entries \cup {None}
  PROVE  /\ Shared(e) \in Entries \cup {None}
         /\ Shared(e) = None <=> e = None
         /\ e # None => Shared(e).frame = e.frame /\ ~Shared(e).rw
         /\ e # None => (Shared(e).rw \/ Shared(e).cow) = (e.rw \/ e.cow)
<1>1. CASE e = None
  BY <1>1 DEF Shared
<1>2. CASE e # None
  <2>1. e \in Entries
    BY <1>2
  <2>2. Shared(e) = [e EXCEPT !.rw = FALSE, !.cow = e.rw \/ e.cow]
    BY <1>2 DEF Shared
  <2>3. Shared(e) \in Entries /\ Shared(e).frame = e.frame /\ Shared(e).rw = FALSE
    BY <2>1, <2>2 DEF Entries
  <2>4. Shared(e).cow = (e.rw \/ e.cow)
    BY <2>1, <2>2 DEF Entries
  <2>. QED
    BY <2>3, <2>4, <1>2, NoneAssumption
<1>. QED
  BY <1>1, <1>2

(* Distinct free frames, one for each member of a set.                     *)
LEMMA FreshIs ==
  ASSUME NEW P, NEW F, NEW g \in Fresh(P, F)
  PROVE  /\ g \in [P -> F] /\ DOMAIN g = P
         /\ Range(g) \subseteq F
         /\ \A i \in P : g[i] \in Range(g) /\ AntiFunction(g)[g[i]] = i
         /\ \A i, j \in P : g[i] = g[j] => i = j
         /\ \A t \in Range(g) : /\ AntiFunction(g)[t] \in P
                                /\ g[AntiFunction(g)[t]] = t
<1>1. g \in [P -> F] /\ DOMAIN g = P /\ \A i, j \in P : g[i] = g[j] => i = j
  BY DEF Fresh, Injection, IsInjective
<1>2. Range(g) \subseteq F /\ \A i \in P : g[i] \in Range(g)
  BY <1>1 DEF Range
<1>3. ASSUME NEW t \in Range(g)
      PROVE  AntiFunction(g)[t] \in P /\ g[AntiFunction(g)[t]] = t
  <2>1. AntiFunction(g)[t] = CHOOSE i \in P : t \in Range(g) => g[i] = t
    BY <1>1 DEF AntiFunction, Inverse
  <2>2. \E i \in P : t \in Range(g) => g[i] = t
    BY <1>1 DEF Range
  <2>. QED
    BY <2>1, <2>2
<1>4. \A i \in P : AntiFunction(g)[g[i]] = i
  BY <1>1, <1>2, <1>3
<1>. QED
  BY <1>1, <1>2, <1>3, <1>4

(* What vmm_clone_cow and vmm_clone_dir read of the source.                *)
LEMMA SourceIs ==
  ASSUME MemInv, NEW s \in Space
  PROVE  /\ Present(s) \subseteq DirIdx
         /\ \A i \in DirIdx : i \notin Present(s) => Dir(s)[i] = None
         /\ \A i \in Present(s) : /\ Dir(s)[i] \in DOMAIN tabs
                                  /\ Dir(s)[i] \in TablesOf(s)
                                  /\ s \in DOMAIN dirs /\ Dir(s) = dirs[s]
         /\ TablesOf(s) \subseteq DOMAIN tabs
         /\ s \notin DOMAIN dirs => Present(s) = {} /\ TablesOf(s) = {}
         /\ \A i \in DirIdx : \A j \in TabIdx :
              Entry(s, <<i, j>>) = IF i \in Present(s) THEN tabs[Dir(s)[i]][j] ELSE None
         /\ \A p \in Pages : Entry(s, p) \in Entries \cup {None}
<1>1. Typed(dirs, tabs)
  BY MemView DEF MemInv
<1>2. s \notin DOMAIN dirs => Dir(s) = Empty
  BY DEF Dir
<1>3. s \in DOMAIN dirs => Dir(s) = dirs[s] /\ dirs[s] \in [DirIdx -> DOMAIN tabs \cup {None}]
  BY <1>1 DEF Dir, Typed
<1>4. \A i \in DirIdx : Empty[i] = None
  BY DEF Empty
<1>5. /\ Present(s) \subseteq DirIdx
      /\ \A i \in DirIdx : i \notin Present(s) <=> Dir(s)[i] = None
  BY DEF Present
<1>6. \A i \in Present(s) : s \in DOMAIN dirs /\ Dir(s) = dirs[s] /\ Dir(s)[i] \in DOMAIN tabs
  BY <1>2, <1>3, <1>4, <1>5
<1>7. TablesOf(s) \subseteq DOMAIN tabs /\ \A i \in Present(s) : Dir(s)[i] \in TablesOf(s)
  BY <1>6 DEF TablesOf
<1>8. s \notin DOMAIN dirs => Present(s) = {} /\ TablesOf(s) = {}
  BY <1>6 DEF TablesOf
<1>9. \A i \in DirIdx : \A j \in TabIdx :
        Entry(s, <<i, j>>) = IF i \in Present(s) THEN tabs[Dir(s)[i]][j] ELSE None
  BY <1>5 DEF Entry, table_for
<1>10. ASSUME NEW p \in Pages PROVE Entry(s, p) \in Entries \cup {None}
  <2>1. p[1] \in DirIdx /\ p[2] \in TabIdx
    BY DEF Pages
  <2>2. Dir(s)[p[1]] # None => Dir(s)[p[1]] \in DOMAIN tabs
    BY <2>1, <1>5, <1>6
  <2>3. Dir(s)[p[1]] # None => tabs[Dir(s)[p[1]]][p[2]] \in Entries \cup {None}
    BY <2>1, <2>2, <1>1 DEF Typed
  <2>. QED
    BY <2>3 DEF Entry, table_for
<1>. QED
  BY <1>5, <1>6, <1>7, <1>8, <1>9, <1>10

(* The two views show a process the same.                                  *)
Alike(e, e2) == /\ e2 = None <=> e = None
                /\ e # None => /\ e2.frame = e.frame
                               /\ (e2.rw \/ e2.cow) = (e.rw \/ e.cow)

SameShown(A, B) == DOMAIN B = DOMAIN A /\ \A x \in DOMAIN A : Alike(A[x], B[x])

(* The tables in G lose their write permissions; the counts stay right.    *)
TabsShared(G) == [t \in DOMAIN tabs |-> IF t \in G THEN SharedTable(t) ELSE tabs[t]]

LEMMA ShareTabs ==
  ASSUME MemInv, NEW G, NEW T1, T1 = TabsShared(G)
  PROVE  /\ Shape(dirs, T1) /\ DOMAIN T1 = DOMAIN tabs
         /\ \A t \in DOMAIN tabs : t \in G => T1[t] = SharedTable(t)
         /\ Counted(View(dirs, T1), Uses(dirs, tabs, lost), ref)
         /\ Effect(View(dirs, tabs), ref, View(dirs, T1), ref, {})
         /\ SameShown(View(dirs, tabs), View(dirs, T1))
<1>. DEFINE A == View(dirs, tabs)
            B == View(dirs, T1)
<1>1. /\ IsView(A, DOMAIN dirs) /\ DOMAIN A = (DOMAIN dirs) \X Pages
      /\ Typed(dirs, tabs) /\ Counted(A, Uses(dirs, tabs, lost), ref)
      /\ ref \in [Frames -> 0..RefMax]
  BY MemView DEF MemInv
<1>2. Shape(dirs, tabs)
  BY DEF MemInv, Mem
<1>3. /\ DOMAIN T1 = DOMAIN tabs
      /\ \A t \in DOMAIN tabs : T1[t] = IF t \in G THEN SharedTable(t) ELSE tabs[t]
  BY DEF TabsShared
<1>4. \A t \in DOMAIN tabs : /\ tabs[t] \in [TabIdx -> Entries \cup {None}]
                             /\ SharedTable(t) \in [TabIdx -> Entries \cup {None}]
                             /\ \A j \in TabIdx : SharedTable(t)[j] = Shared(tabs[t][j])
  BY <1>1, SharedIs DEF Typed, SharedTable
<1>5. \A t \in DOMAIN tabs : T1[t] \in [TabIdx -> Entries \cup {None}]
  BY <1>3, <1>4
<1>6. Shape(dirs, T1)
  BY <1>2, <1>3, <1>5, ShapeTables
<1>7. IsView(B, DOMAIN dirs) /\ Reads(B, dirs, T1) /\ Reads(A, dirs, tabs)
  BY <1>1, <1>6, ViewAt DEF Shape
<1>. HIDE DEF A, B
<1>8. \A t \in DOMAIN tabs : \A j \in TabIdx :
        /\ T1[t][j] = None <=> tabs[t][j] = None
        /\ tabs[t][j] # None => /\ T1[t][j].frame = tabs[t][j].frame
                                /\ T1[t][j].rw => tabs[t][j].rw
        /\ Alike(tabs[t][j], T1[t][j])
  BY <1>3, <1>4, SharedIs DEF Alike
<1>9. ASSUME NEW x \in DOMAIN A
      PROVE  /\ A[x] = None <=> B[x] = None
             /\ A[x] # None => B[x].frame = A[x].frame /\ (B[x].rw => A[x].rw)
             /\ Alike(A[x], B[x])
  <2>1. PICK c \in DOMAIN dirs, i \in DirIdx, j \in TabIdx : x = <<c, <<i, j>>>>
    BY <1>1 DEF Pages
  <2>2. A[x] = Cell(dirs, tabs, c, i, j) /\ B[x] = Cell(dirs, T1, c, i, j)
    BY <2>1, <1>7 DEF Reads
  <2>3. dirs[c][i] # None => dirs[c][i] \in DOMAIN tabs
    BY <1>1 DEF Typed
  <2>4. CASE dirs[c][i] = None
    BY <2>2, <2>4 DEF Cell, Alike
  <2>5. CASE dirs[c][i] # None
    <3>1. A[x] = tabs[dirs[c][i]][j] /\ B[x] = T1[dirs[c][i]][j]
      BY <2>2, <2>5 DEF Cell
    <3>. QED
      BY <3>1, <2>3, <2>5, <1>8
  <2>. QED
    BY <2>4, <2>5
<1>10. DOMAIN B = DOMAIN A
  BY <1>1, <1>7 DEF IsView
<1>11. SameFrames(A, B)
  BY <1>9, <1>10 DEF SameFrames
<1>12. \A x \in DOMAIN B : B[x] # None /\ B[x].rw /\ ~A[x].rw => ref[B[x].frame] = 1
  BY <1>9, <1>10
<1>13. Counted(B, Uses(dirs, tabs, lost), ref)
  BY <1>1, <1>11, <1>12, CountKeep
<1>14. Effect(A, ref, B, ref, {})
  BY <1>1, <1>9, <1>10 DEF Effect, Weaker, NoNewHolder
<1>. QED
  BY <1>3, <1>6, <1>9, <1>10, <1>13, <1>14 DEF A, B, SameShown

LEMMA CloneCowFailsMem ==
  ASSUME MemInv, NEW s \in Space, vmm_clone_cow_fails(s)
  PROVE  /\ MemInv'
         /\ dirs' = dirs
         /\ Effect(View(dirs, tabs), ref, View(dirs', tabs'), ref', {})
         /\ SameShown(View(dirs, tabs), View(dirs', tabs'))
         /\ data' = data
<1>1. /\ ref' = ref /\ dirs' = dirs /\ lost' = lost /\ data' = data
  BY DEF vmm_clone_cow_fails
<1>2. PICK G : tabs' = TabsShared(G)
  BY DEF vmm_clone_cow_fails, TabsShared
<1>3. /\ Shape(dirs, tabs') /\ DOMAIN tabs' = DOMAIN tabs
      /\ Counted(View(dirs, tabs'), Uses(dirs, tabs, lost), ref)
      /\ Effect(View(dirs, tabs), ref, View(dirs, tabs'), ref, {})
      /\ SameShown(View(dirs, tabs), View(dirs, tabs'))
  BY <1>2, ShareTabs
<1>4. Counted(View(dirs', tabs'), Uses(dirs', tabs', lost'), ref')
  BY <1>1, <1>3 DEF Uses
<1>5. MemInv'
  BY <1>1, <1>3, <1>4 DEF MemInv, Mem
<1>. QED
  BY <1>1, <1>3, <1>5

(* The directory of a clone.                                               *)
DirOf(P, g) == [i \in DirIdx |-> IF i \in P THEN g[i] ELSE None]

IsDirOf(dir, P, g) ==
  /\ dir \in [DirIdx -> Range(g) \cup {None}]
  /\ \A i, j \in DirIdx : dir[i] # None /\ dir[i] = dir[j] => i = j
  /\ \A t \in Range(g) : \E i \in DirIdx : dir[i] = t
  /\ \A i \in P : dir[i] = g[i] /\ g[i] # None
  /\ \A i \in DirIdx \ P : dir[i] = None

LEMMA DirOfIs ==
  ASSUME NEW P \in SUBSET DirIdx, NEW F \in SUBSET Frames, NEW g \in Fresh(P, F)
  PROVE  IsDirOf(DirOf(P, g), P, g)
<1>1. /\ Range(g) \subseteq F
      /\ \A i \in P : g[i] \in Range(g)
      /\ \A i, j \in P : g[i] = g[j] => i = j
      /\ \A t \in Range(g) : AntiFunction(g)[t] \in P /\ g[AntiFunction(g)[t]] = t
  BY FreshIs
<1>2. \A i \in P : g[i] # None
  BY <1>1, VmmAssumption
<1>3. /\ \A i \in P : DirOf(P, g)[i] = g[i]
      /\ \A i \in DirIdx \ P : DirOf(P, g)[i] = None
  BY DEF DirOf
<1>4. DirOf(P, g) \in [DirIdx -> Range(g) \cup {None}]
  BY <1>1 DEF DirOf
<1>5. \A i, j \in DirIdx :
        DirOf(P, g)[i] # None /\ DirOf(P, g)[i] = DirOf(P, g)[j] => i = j
  BY <1>1, <1>3
<1>6. \A t \in Range(g) : \E i \in DirIdx : DirOf(P, g)[i] = t
  BY <1>1, <1>3
<1>. QED
  BY <1>2, <1>3, <1>4, <1>5, <1>6 DEF IsDirOf

LEMMA CloneCowMem ==
  ASSUME MemInv, NEW s \in Space, NEW d \in Free, vmm_clone_cow(s, d),
         Cardinality(DOMAIN dirs \cup {d}) <= RefMax
  PROVE  /\ MemInv'
         /\ DOMAIN dirs' = DOMAIN dirs \cup {d}
         /\ lost' = lost
         /\ \E A1 : /\ SameShown(View(dirs, tabs), A1)
                    /\ IsView(A1, DOMAIN dirs)
                    /\ Joins(A1, View(dirs', tabs'), DOMAIN dirs, d,
                             [p \in Pages |-> Shared(Entry(s, p))])
         /\ data' = data
<1>. DEFINE S == Uses(dirs, tabs, lost)
            C == [p \in Pages |-> Shared(Entry(s, p))]
            T1 == TabsShared(TablesOf(s))
            A1 == View(dirs, T1)
<1>1. /\ Typed(dirs, tabs) /\ ref \in [Frames -> 0..RefMax]
      /\ Shape(dirs, tabs) /\ lost \cap (DOMAIN dirs \cup DOMAIN tabs) = {}
  BY MemView DEF MemInv, Mem
<1>2. PICK g \in Fresh(Present(s), Free \ {d}) :
        /\ ref' = [f \in Frames |-> IF f = d \/ f \in Range(g) THEN 1
                                    ELSE Incref(ref[f], Cardinality(Mappings(s, f)))]
        /\ dirs' = Put(dirs, d, DirOf(Present(s), g))
        /\ tabs' = [t \in DOMAIN tabs \cup Range(g) |->
                      IF t \in TablesOf(s) THEN SharedTable(t)
                      ELSE IF t \in Range(g)
                           THEN SharedTable(Dir(s)[AntiFunction(g)[t]])
                           ELSE tabs[t]]
        /\ lost' = lost /\ data' = data
  BY DEF vmm_clone_cow, DirOf
<1>. DEFINE G == Range(g)
            N == G \cup {d}
            dir == DirOf(Present(s), g)
<1>3. /\ Present(s) \subseteq DirIdx
      /\ \A i \in Present(s) : /\ Dir(s)[i] \in DOMAIN tabs
                               /\ Dir(s)[i] \in TablesOf(s)
                               /\ s \in DOMAIN dirs /\ Dir(s) = dirs[s]
      /\ TablesOf(s) \subseteq DOMAIN tabs
      /\ s \notin DOMAIN dirs => Present(s) = {}
      /\ \A i \in DirIdx : \A j \in TabIdx :
           Entry(s, <<i, j>>) = IF i \in Present(s) THEN tabs[Dir(s)[i]][j] ELSE None
      /\ \A p \in Pages : Entry(s, p) \in Entries \cup {None}
  BY SourceIs
<1>4. /\ G \subseteq Free \ {d} /\ Free \subseteq Frames
      /\ \A i \in Present(s) : g[i] \in G /\ AntiFunction(g)[g[i]] = i
      /\ \A t \in G : AntiFunction(g)[t] \in Present(s) /\ g[AntiFunction(g)[t]] = t
  BY FreshIs DEF Free
<1>5. /\ dir \in [DirIdx -> G \cup {None}]
      /\ \A i, j \in DirIdx : dir[i] # None /\ dir[i] = dir[j] => i = j
      /\ \A t \in G : \E i \in DirIdx : dir[i] = t
      /\ \A i \in Present(s) : dir[i] = g[i] /\ g[i] # None
      /\ \A i \in DirIdx \ Present(s) : dir[i] = None
  <2>1. Free \ {d} \in SUBSET Frames
    BY DEF Free
  <2>2. IsDirOf(dir, Present(s), g)
    BY <2>1, <1>3, DirOfIs
  <2>. QED
    BY <2>2 DEF IsDirOf
<1>6. \A f \in N : /\ f \in Frames /\ ref[f] = 0
                   /\ f \notin DOMAIN dirs /\ f \notin DOMAIN tabs /\ f \notin lost
  BY <1>4, FreeIs
<1>. HIDE DEF G, dir, S
<1>7. /\ Shape(dirs, T1) /\ DOMAIN T1 = DOMAIN tabs
      /\ \A t \in TablesOf(s) : T1[t] = SharedTable(t)
      /\ Counted(A1, S, ref)
      /\ SameShown(View(dirs, tabs), A1)
  BY <1>3, ShareTabs DEF S
<1>8. \A t \in DOMAIN tabs : /\ SharedTable(t) \in [TabIdx -> Entries \cup {None}]
                             /\ \A j \in TabIdx : SharedTable(t)[j] = Shared(tabs[t][j])
  BY <1>1, SharedIs DEF Typed, SharedTable
<1>9. C \in [Pages -> Entries \cup {None}]
  BY <1>3, SharedIs
<1>10. /\ DOMAIN tabs' = DOMAIN tabs \cup G
       /\ \A t \in DOMAIN tabs : tabs'[t] = T1[t]
       /\ \A t \in G : tabs'[t] = SharedTable(Dir(s)[AntiFunction(g)[t]])
  BY <1>2, <1>3, <1>6 DEF G, TabsShared
<1>11. \A t \in G : tabs'[t] \in [TabIdx -> Entries \cup {None}]
  BY <1>3, <1>4, <1>8, <1>10
<1>12. ASSUME NEW i \in DirIdx, NEW j \in TabIdx
       PROVE  C[<<i, j>>] = IF dir[i] = None THEN None ELSE tabs'[dir[i]][j]
  <2>0. <<i, j>> \in Pages
    BY DEF Pages
  <2>1. CASE i \in Present(s)
    <3>1. C[<<i, j>>] = Shared(tabs[Dir(s)[i]][j])
      BY <2>0, <2>1, <1>3
    <3>2. tabs'[dir[i]] = SharedTable(Dir(s)[i])
      BY <2>1, <1>4, <1>5, <1>10
    <3>3. SharedTable(Dir(s)[i])[j] = Shared(tabs[Dir(s)[i]][j])
      BY <2>1, <1>3, <1>8
    <3>. QED
      BY <3>1, <3>2, <3>3, <2>1, <1>5
  <2>2. CASE i \notin Present(s)
    BY <2>0, <2>2, <1>3, <1>5 DEF Shared
  <2>. QED
    BY <2>1, <2>2
<1>13. \A f : PagesOf(C, f) = Mappings(s, f)
  BY <1>3, SharedIs DEF PagesOf, Mappings, Mapped
<1>14. \A p \in Pages : C[p] = Shared(Entry(s, p))
  OBVIOUS
<1>. HIDE DEF C, T1
<1>15. NewSpace(dirs, T1, d, G, dir, tabs', C)
  BY <1>4, <1>5, <1>6, <1>7, <1>9, <1>10, <1>11, <1>12 DEF NewSpace
<1>16. /\ Shape(dirs', tabs') /\ DOMAIN dirs' = DOMAIN dirs \cup {d}
       /\ Joins(A1, View(dirs', tabs'), DOMAIN dirs, d, C)
  <2>1. /\ Shape(Put(dirs, d, dir), tabs')
        /\ DOMAIN Put(dirs, d, dir) = DOMAIN dirs \cup {d}
        /\ Joins(A1, View(Put(dirs, d, dir), tabs'), DOMAIN dirs, d, C)
    BY <1>7, <1>15, ShapeJoin
  <2>2. dirs' = Put(dirs, d, dir)
    BY <1>2 DEF dir
  <2>. QED
    BY <2>1, <2>2
<1>17. IsView(A1, DOMAIN dirs) /\ Reads(A1, dirs, T1)
  BY <1>7, ViewAt DEF Shape
<1>18. ReadOnlyCopy(A1, s, C)
  <2>. SUFFICES ASSUME NEW p \in Pages, C[p] # None
                PROVE  <<s, p>> \in DOMAIN A1 /\ A1[<<s, p>>] = C[p] /\ ~C[p].rw
    BY DEF ReadOnlyCopy
  <2>1. PICK i \in DirIdx, j \in TabIdx : p = <<i, j>>
    BY DEF Pages
  <2>2. dir[i] # None
    BY <2>1, <1>12
  <2>3. i \in Present(s)
    BY <2>2, <1>5
  <2>4. /\ s \in DOMAIN dirs /\ Dir(s) = dirs[s] /\ dirs[s][i] \in TablesOf(s)
        /\ dirs[s][i] \in DOMAIN tabs /\ dirs[s][i] # None
    BY <2>3, <1>1, <1>3, VmmAssumption DEF Typed
  <2>5. A1[<<s, p>>] = Cell(dirs, T1, s, i, j)
    BY <2>1, <2>4, <1>17 DEF Reads
  <2>6. A1[<<s, p>>] = SharedTable(dirs[s][i])[j]
    BY <2>4, <2>5, <1>7 DEF Cell
  <2>7. C[p] = SharedTable(dirs[s][i])[j]
    BY <2>1, <2>3, <2>4, <1>3, <1>8, <1>14
  <2>8. ~C[p].rw
    BY <1>3, <1>14, SharedIs
  <2>9. <<s, p>> \in DOMAIN A1
    BY <2>4, <1>17 DEF IsView
  <2>. QED
    BY <2>6, <2>7, <2>8, <2>9
<1>. HIDE DEF A1, N
<1>19. N \in SUBSET Frames /\ \A f \in N : ref[f] = 0
  BY <1>6
<1>20. Counted(A1, S \cup N, Reserved(ref, N))
  BY <1>7, <1>17, <1>19, CountReserve
<1>21. Counted(View(dirs', tabs'), S \cup N, Raised(Reserved(ref, N), N, C))
  <2>1. d \in Frames \ DOMAIN dirs
    BY <1>6 DEF N
  <2>2. N \in SUBSET (S \cup N)
    OBVIOUS
  <2>. QED
    BY <2>1, <2>2, <1>9, <1>16, <1>17, <1>18, <1>20, CountShare
<1>22. ref' = Raised(Reserved(ref, N), N, C)
  BY <1>2, <1>13 DEF Raised, Reserved, N, G
<1>23. Uses(dirs', tabs', lost') = S \cup N
  BY <1>2, <1>10, <1>16 DEF Uses, S, N
<1>24. lost' \cap (DOMAIN dirs' \cup DOMAIN tabs') = {}
  BY <1>1, <1>2, <1>6, <1>10, <1>16 DEF N
<1>25. Counted(View(dirs', tabs'), Uses(dirs', tabs', lost'), ref')
  BY <1>21, <1>22, <1>23
<1>26. MemInv'
  BY <1>16, <1>24, <1>25 DEF MemInv, Mem
<1>. QED
  BY <1>2, <1>7, <1>16, <1>17, <1>26 DEF C

(* A copy of an entry, in the frame f.                                     *)
Copied(e, f) == IF e = None THEN None ELSE [e EXCEPT !.frame = f]

LEMMA CopiedIs ==
  ASSUME NEW e \in Entries \cup {None}, NEW f, e # None => f \in Frames
  PROVE  /\ Copied(e, f) \in Entries \cup {None}
         /\ Copied(e, f) = None <=> e = None
         /\ e # None => Copied(e, f).frame = f
<1>1. CASE e = None
  BY <1>1 DEF Copied
<1>2. CASE e # None
  <2>1. e \in Entries /\ f \in Frames
    BY <1>2
  <2>2. Copied(e, f) = [e EXCEPT !.frame = f]
    BY <1>2 DEF Copied
  <2>3. Copied(e, f) \in Entries /\ Copied(e, f).frame = f
    BY <2>1, <2>2 DEF Entries
  <2>. QED
    BY <2>3, <1>2, NoneAssumption
<1>. QED
  BY <1>1, <1>2

(* What data holds after vmm_clone_dir copied the pages of s to the frames *)
(* h, which were free.                                                     *)
CopiedData(s, h) ==
  /\ DOMAIN data' = DOMAIN data \cup Range(h)
  /\ \A f \in DOMAIN data : f \notin Free => data'[f] = data[f]
  /\ \A p \in Mapped(s) : /\ h[p] \in Frames /\ h[p] \in DOMAIN data'
                          /\ data'[h[p]] = data[Entry(s, p).frame]

LEMMA CloneDirMem ==
  ASSUME MemInv, NEW s \in Space, NEW d \in Free, vmm_clone_dir(s, d)
  PROVE  /\ MemInv'
         /\ DOMAIN dirs' = DOMAIN dirs \cup {d}
         /\ Effect(View(dirs, tabs), ref, View(dirs', tabs'), ref', {})
         /\ \E h : /\ CopiedData(s, h)
                   /\ Joins(View(dirs, tabs), View(dirs', tabs'), DOMAIN dirs, d,
                            [p \in Pages |-> Copied(Entry(s, p), h[p])])
<1>. DEFINE S == Uses(dirs, tabs, lost)
            A == View(dirs, tabs)
            B == View(dirs', tabs')
<1>1. /\ Typed(dirs, tabs) /\ ref \in [Frames -> 0..RefMax]
      /\ Shape(dirs, tabs) /\ lost \cap (DOMAIN dirs \cup DOMAIN tabs) = {}
      /\ IsView(A, DOMAIN dirs) /\ Counted(A, S, ref)
  BY MemView DEF MemInv, Mem
<1>. DEFINE Clone(g, h) ==
              /\ ref' = [f \in Frames |->
                           IF f \in {d} \cup Range(g) \cup Range(h) THEN 1 ELSE ref[f]]
              /\ dirs' = Put(dirs, d, DirOf(Present(s), g))
              /\ tabs' = [t \in DOMAIN tabs \cup Range(g) |->
                            IF t \in Range(g)
                            THEN [j \in TabIdx |->
                                    Copied(Entry(s, <<AntiFunction(g)[t], j>>),
                                           h[<<AntiFunction(g)[t], j>>])]
                            ELSE tabs[t]]
              /\ lost' = lost
              /\ data' = [f \in DOMAIN data \cup Range(h) |->
                            IF f \in Range(h)
                            THEN data[Entry(s, AntiFunction(h)[f]).frame]
                            ELSE data[f]]
<1>32. \E g \in Fresh(Present(s), Free \ {d}) :
         \E h \in Fresh(Mapped(s), (Free \ {d}) \ Range(g)) : Clone(g, h)
  BY DEF vmm_clone_dir, DirOf, Copied
<1>33. PICK g \in Fresh(Present(s), Free \ {d}) :
         \E h \in Fresh(Mapped(s), (Free \ {d}) \ Range(g)) : Clone(g, h)
  BY <1>32
<1>2. PICK h \in Fresh(Mapped(s), (Free \ {d}) \ Range(g)) : Clone(g, h)
  BY <1>33
<1>. DEFINE G == Range(g)
            N == G \cup {d}
            H == Range(h)
            dir == DirOf(Present(s), g)
            C == [p \in Pages |-> Copied(Entry(s, p), h[p])]
<1>3. /\ Present(s) \subseteq DirIdx
      /\ \A i \in DirIdx : \A j \in TabIdx :
           Entry(s, <<i, j>>) = IF i \in Present(s) THEN tabs[Dir(s)[i]][j] ELSE None
      /\ \A p \in Pages : Entry(s, p) \in Entries \cup {None}
  BY SourceIs
<1>4. /\ G \subseteq Free \ {d} /\ Free \subseteq Frames
      /\ \A i \in Present(s) : g[i] \in G /\ AntiFunction(g)[g[i]] = i
      /\ \A t \in G : AntiFunction(g)[t] \in Present(s) /\ g[AntiFunction(g)[t]] = t
  BY FreshIs DEF Free
<1>5. /\ H \subseteq (Free \ {d}) \ G
      /\ \A p \in Mapped(s) : h[p] \in H
      /\ \A p, q \in Mapped(s) : h[p] = h[q] => p = q
      /\ \A f \in H : \E p \in Mapped(s) : h[p] = f
  <2>1. /\ H \subseteq (Free \ {d}) \ G
        /\ \A p \in Mapped(s) : h[p] \in H
        /\ \A p, q \in Mapped(s) : h[p] = h[q] => p = q
        /\ \A f \in H : AntiFunction(h)[f] \in Mapped(s) /\ h[AntiFunction(h)[f]] = f
    BY FreshIs
  <2>. QED
    BY <2>1
<1>6. /\ dir \in [DirIdx -> G \cup {None}]
      /\ \A i, j \in DirIdx : dir[i] # None /\ dir[i] = dir[j] => i = j
      /\ \A t \in G : \E i \in DirIdx : dir[i] = t
      /\ \A i \in Present(s) : dir[i] = g[i] /\ g[i] # None
      /\ \A i \in DirIdx \ Present(s) : dir[i] = None
  <2>1. Free \ {d} \in SUBSET Frames
    BY DEF Free
  <2>2. IsDirOf(dir, Present(s), g)
    BY <2>1, <1>3, DirOfIs
  <2>. QED
    BY <2>2 DEF IsDirOf
<1>7. \A f \in N : /\ f \in Frames /\ ref[f] = 0
                   /\ f \notin DOMAIN dirs /\ f \notin DOMAIN tabs /\ f \notin lost
  BY <1>4, FreeIs
<1>8. \A f \in H : f \in Frames /\ ref[f] = 0 /\ f \notin N
  BY <1>5, FreeIs
<1>. HIDE DEF G, dir, S, H
<1>9. \A p \in Pages : Entry(s, p) # None => p \in Mapped(s) /\ h[p] \in H /\ h[p] \in Frames
  BY <1>5, <1>8 DEF Mapped
<1>10. \A p \in Pages : C[p] = Copied(Entry(s, p), h[p])
  OBVIOUS
<1>11. C \in [Pages -> Entries \cup {None}]
  BY <1>3, <1>9, CopiedIs
<1>. HIDE DEF C
<1>12. \A p \in Pages : /\ C[p] = None <=> Entry(s, p) = None
                        /\ C[p] # None => /\ C[p].frame = h[p]
                                          /\ p \in Mapped(s) /\ h[p] \in H
  BY <1>3, <1>9, <1>10, CopiedIs
<1>13. /\ DOMAIN tabs' = DOMAIN tabs \cup G
       /\ \A t \in DOMAIN tabs : tabs'[t] = tabs[t]
       /\ \A t \in G : tabs'[t] = [j \in TabIdx |-> C[<<AntiFunction(g)[t], j>>]]
  <2>1. /\ DOMAIN tabs' = DOMAIN tabs \cup G
        /\ \A t \in DOMAIN tabs : tabs'[t] = tabs[t]
    BY <1>2, <1>7 DEF G
  <2>2. ASSUME NEW t \in G
        PROVE  tabs'[t] = [j \in TabIdx |-> C[<<AntiFunction(g)[t], j>>]]
    <3>1. tabs'[t] = [j \in TabIdx |-> Copied(Entry(s, <<AntiFunction(g)[t], j>>),
                                              h[<<AntiFunction(g)[t], j>>])]
      BY <1>2 DEF G
    <3>2. \A j \in TabIdx : <<AntiFunction(g)[t], j>> \in Pages
      BY <1>3, <1>4 DEF Pages
    <3>. QED
      BY <3>1, <3>2, <1>10
  <2>. QED
    BY <2>1, <2>2
<1>14. \A t \in G : tabs'[t] \in [TabIdx -> Entries \cup {None}]
  <2>. SUFFICES ASSUME NEW t \in G
                PROVE  tabs'[t] \in [TabIdx -> Entries \cup {None}]
    OBVIOUS
  <2>1. \A j \in TabIdx : <<AntiFunction(g)[t], j>> \in Pages
    BY <1>3, <1>4 DEF Pages
  <2>2. \A j \in TabIdx : C[<<AntiFunction(g)[t], j>>] \in Entries \cup {None}
    BY <2>1, <1>11
  <2>3. tabs'[t] = [j \in TabIdx |-> C[<<AntiFunction(g)[t], j>>]]
    BY <1>13
  <2>. QED
    BY ONLY <2>2, <2>3
<1>15. ASSUME NEW i \in DirIdx, NEW j \in TabIdx
       PROVE  C[<<i, j>>] = IF dir[i] = None THEN None ELSE tabs'[dir[i]][j]
  <2>0. <<i, j>> \in Pages
    BY DEF Pages
  <2>1. CASE i \in Present(s)
    BY <2>1, <1>4, <1>6, <1>13
  <2>2. CASE i \notin Present(s)
    BY <2>0, <2>2, <1>3, <1>6, <1>12
  <2>. QED
    BY <2>1, <2>2
<1>16. NewSpace(dirs, tabs, d, G, dir, tabs', C)
  BY <1>4, <1>6, <1>7, <1>11, <1>13, <1>14, <1>15 DEF NewSpace
<1>17. /\ Shape(dirs', tabs') /\ DOMAIN dirs' = DOMAIN dirs \cup {d}
       /\ Joins(A, B, DOMAIN dirs, d, C)
  <2>1. /\ Shape(Put(dirs, d, dir), tabs')
        /\ DOMAIN Put(dirs, d, dir) = DOMAIN dirs \cup {d}
        /\ Joins(A, View(Put(dirs, d, dir), tabs'), DOMAIN dirs, d, C)
    BY <1>1, <1>16, ShapeJoin
  <2>2. dirs' = Put(dirs, d, dir)
    BY <1>2 DEF dir
  <2>. QED
    BY <2>1, <2>2
<1>. HIDE DEF A, B, N
<1>18. N \in SUBSET Frames /\ \A f \in N : ref[f] = 0
  BY <1>7
<1>19. Counted(A, S \cup N, Reserved(ref, N))
  BY <1>1, <1>18, CountReserve
<1>20. H = {C[p].frame : p \in {q \in Pages : C[q] # None}}
  <2>1. \A f \in H : \E p \in {q \in Pages : C[q] # None} : f = C[p].frame
    <3>. SUFFICES ASSUME NEW f \in H
                  PROVE  \E p \in {q \in Pages : C[q] # None} : f = C[p].frame
      OBVIOUS
    <3>1. PICK p \in Mapped(s) : h[p] = f
      BY <1>5
    <3>2. p \in Pages /\ C[p] # None
      BY <1>12 DEF Mapped
    <3>. QED
      BY <3>1, <3>2, <1>12
  <2>2. \A p \in Pages : C[p] # None => C[p].frame \in H
    BY <1>12
  <2>. QED
    BY <2>1, <2>2
<1>21. \A p, q \in Pages : C[p] # None /\ C[q] # None /\ C[p].frame = C[q].frame => p = q
  BY <1>5, <1>12
<1>22. \A f \in H : Reserved(ref, N)[f] = 0
  BY <1>8 DEF Reserved
<1>23. d \in Frames \ DOMAIN dirs
  BY <1>7 DEF N
<1>24. Counted(B, S \cup N, Reserved(Reserved(ref, N), H))
  BY <1>1, <1>11, <1>17, <1>19, <1>20, <1>21, <1>22, <1>23, CountCopy
<1>25. ref' = Reserved(Reserved(ref, N), H) /\ ref' = Reserved(ref, N \cup H)
  BY <1>2 DEF Reserved, N, G, H
<1>26. Uses(dirs', tabs', lost') = S \cup N
  BY <1>2, <1>13, <1>17 DEF Uses, S, N
<1>27. lost' \cap (DOMAIN dirs' \cup DOMAIN tabs') = {}
  BY <1>1, <1>2, <1>7, <1>13, <1>17 DEF N
<1>28. Counted(View(dirs', tabs'), Uses(dirs', tabs', lost'), ref')
  BY <1>24, <1>25, <1>26 DEF B
<1>29. MemInv'
  BY <1>17, <1>27, <1>28 DEF MemInv, Mem
<1>30. NoNewHolder(ref, ref')
  BY <1>1, <1>25, ReservedNoNew
<1>31. Effect(A, ref, B, ref', {})
  BY <1>17, <1>30 DEF Joins, Effect, Weaker
<1>34. CopiedData(s, h)
  <2>1. /\ Range(h) \subseteq (Free \ {d}) \ Range(g)
        /\ \A p \in Mapped(s) : h[p] \in Range(h) /\ AntiFunction(h)[h[p]] = p
    BY FreshIs
  <2>2. data' = [f \in DOMAIN data \cup Range(h) |->
                   IF f \in Range(h)
                   THEN data[Entry(s, AntiFunction(h)[f]).frame]
                   ELSE data[f]]
    BY <1>2
  <2>3. \A p \in Mapped(s) : h[p] \in Frames
    BY <2>1 DEF Free
  <2>. QED
    BY <2>1, <2>2, <2>3 DEF CopiedData
<1>. QED
  BY <1>17, <1>29, <1>31, <1>34 DEF A, B, C

-----------------------------------------------------------------------------
(* The TLB and the access that is re-run.                                  *)

(* What the TLB caches for a page leads where the active space does, can   *)
(* be written only if nobody else holds the frame, and is not older than a *)
(* permission the tables have given since.                                 *)
TlbOK(A, R, c, tl) ==
  /\ tl \in [Pages -> Entries \cup {None}]
  /\ \A p \in Pages : tl[p] # None =>
       /\ <<c, p>> \in DOMAIN A /\ A[<<c, p>>] # None
       /\ tl[p].frame = A[<<c, p>>].frame
       /\ tl[p].rw => R[tl[p].frame] = 1
       /\ A[<<c, p>>].rw => tl[p].rw

CpuInv == /\ cr3 \in DOMAIN dirs \cup {KDir}
          /\ TlbOK(View(dirs, tabs), ref, cr3, tlb)

LEMMA TlbKept ==
  ASSUME NEW A, NEW R, NEW B, NEW R2, NEW X, NEW c, NEW tl, NEW tl2, NEW Ds, NEW S,
         TlbOK(A, R, c, tl), Effect(A, R, B, R2, X), IsView(B, Ds), Counted(B, S, R2),
         tl2 \in [Pages -> Entries \cup {None}],
         \A p \in Pages : tl2[p] = None \/ (tl2[p] = tl[p] /\ <<c, p>> \notin X)
  PROVE  TlbOK(B, R2, c, tl2)
<1>. SUFFICES ASSUME NEW p \in Pages, tl2[p] # None
              PROVE  /\ <<c, p>> \in DOMAIN B /\ B[<<c, p>>] # None
                     /\ tl2[p].frame = B[<<c, p>>].frame
                     /\ tl2[p].rw => R2[tl2[p].frame] = 1
                     /\ B[<<c, p>>].rw => tl2[p].rw
  BY DEF TlbOK
<1>. DEFINE x == <<c, p>>
<1>1. tl2[p] = tl[p] /\ x \notin X
  OBVIOUS
<1>. HIDE DEF x
<1>2. /\ x \in DOMAIN A /\ A[x] # None
      /\ tl[p].frame = A[x].frame
      /\ tl[p].rw => R[tl[p].frame] = 1
      /\ A[x].rw => tl[p].rw
  BY <1>1 DEF TlbOK, x
<1>3. /\ x \in DOMAIN B /\ B[x] # None /\ B[x].frame = A[x].frame
      /\ B[x].rw => A[x].rw
  BY <1>1, <1>2 DEF Effect, Weaker
<1>4. /\ B[x].frame \in Frames /\ R2[B[x].frame] \in Nat /\ R2[B[x].frame] >= 1
  BY <1>3, MappedCounted
<1>5. tl[p].rw => R2[B[x].frame] = 1
  <2>. SUFFICES ASSUME tl[p].rw PROVE R2[B[x].frame] = 1
    OBVIOUS
  <2>1. R[B[x].frame] = 1
    BY <1>2, <1>3
  <2>2. R2[B[x].frame] <= 1
    BY <2>1, <1>4 DEF Effect, NoNewHolder
  <2>. QED
    BY <2>2, <1>4
<1>. QED
  BY <1>1, <1>2, <1>3, <1>5 DEF x

LEMMA FlushedOK ==
  ASSUME NEW A, NEW R, NEW c
  PROVE  TlbOK(A, R, c, Flushed)
BY DEF TlbOK, Flushed

(* A step of the memory that leaves cr3 and the TLB alone, or flushes the  *)
(* page it changes.                                                        *)
LEMMA CpuKept ==
  ASSUME MemInv', CpuInv, NEW X,
         Effect(View(dirs, tabs), ref, View(dirs', tabs'), ref', X),
         cr3' = cr3, cr3 \in DOMAIN dirs => cr3 \in DOMAIN dirs',
         tlb' \in [Pages -> Entries \cup {None}],
         \A p \in Pages : tlb'[p] = None \/ (tlb'[p] = tlb[p] /\ <<cr3, p>> \notin X)
  PROVE  CpuInv'
<1>1. IsView(View(dirs', tabs'), DOMAIN dirs')
      /\ Counted(View(dirs', tabs'), Uses(dirs', tabs', lost'), ref')
  BY MemView DEF MemInv
<1>2. TlbOK(View(dirs', tabs'), ref', cr3, tlb')
  BY <1>1, TlbKept DEF CpuInv
<1>. QED
  BY <1>2 DEF CpuInv

LEMMA FlushKeeps ==
  ASSUME CpuInv, NEW p \in Pages, tlb' = [tlb EXCEPT ![p] = None], NEW d
  PROVE  /\ tlb' \in [Pages -> Entries \cup {None}]
         /\ \A q \in Pages : tlb'[q] = None \/ (tlb'[q] = tlb[q] /\ <<cr3, q>> \notin {<<d, p>>})
         /\ tlb'[p] = None
BY DEF CpuInv, TlbOK

LEMMA SwitchKeeps ==
  ASSUME NEW d, d \in DOMAIN dirs' \cup {KDir}, vmm_switch(d)
  PROVE  CpuInv'
<1>1. cr3' = d /\ tlb' = Flushed
  BY DEF vmm_switch
<1>2. TlbOK(View(dirs', tabs'), ref', d, Flushed)
  BY FlushedOK
<1>. QED
  BY <1>1, <1>2 DEF CpuInv

-----------------------------------------------------------------------------
(* The access that is re-run, the regions, and the whole invariant of the  *)
(* memory.                                                                 *)
Rerunnable == /\ Permits(Entry(cr3, pend.page), pend)
              /\ tlb[pend.page] # None => Permits(tlb[pend.page], pend)

FaultInv == /\ pend \in Accesses \cup {None}
            /\ halted \in BOOLEAN
            /\ pend # None /\ ~halted => Rerunnable
            /\ HaltJustified

RegInv == regions \in Seq([dir : Frames, di : DirIdx])

VmmInv == MemInv /\ CpuInv /\ FaultInv /\ RegInv

LEMMA AccessPage ==
  ASSUME NEW op \in Accesses
  PROVE  op.page \in Pages
BY DEF Accesses

(* A call of the kernel leaves nothing to re-run and does not halt.        *)
LEMMA CallKeeps ==
  ASSUME FaultInv, Running, pend' = pend, halted' = halted
  PROVE  FaultInv'
BY DEF FaultInv, Running, HaltJustified

(* What the CPU knows of a page of the active space.                       *)
LEMMA CpuAt ==
  ASSUME MemInv, CpuInv, NEW p \in Pages
  PROVE  /\ tlb \in [Pages -> Entries \cup {None}]
         /\ Entry(cr3, p) \in Entries \cup {None}
         /\ Entry(cr3, p) # None =>
              /\ cr3 \in DOMAIN dirs
              /\ <<cr3, p>> \in DOMAIN View(dirs, tabs)
              /\ View(dirs, tabs)[<<cr3, p>>] = Entry(cr3, p)
              /\ Entry(cr3, p).rw => ref[Entry(cr3, p).frame] = 1
         /\ tlb[p] # None => /\ Entry(cr3, p) # None
                             /\ tlb[p].frame = Entry(cr3, p).frame
                             /\ tlb[p].rw => ref[tlb[p].frame] = 1
                             /\ Entry(cr3, p).rw => tlb[p].rw
<1>. DEFINE A == View(dirs, tabs)
<1>1. /\ IsView(A, DOMAIN dirs) /\ DOMAIN A = (DOMAIN dirs) \X Pages
      /\ OwnWritable(A, ref)
  BY MemView DEF MemInv, Counted
<1>2. Entry(cr3, p) = IF cr3 \in DOMAIN dirs THEN A[<<cr3, p>>] ELSE None
  BY EntryIs DEF EntryIn
<1>3. TlbOK(A, ref, cr3, tlb)
  BY DEF CpuInv
<1>4. <<cr3, p>> \in DOMAIN A <=> cr3 \in DOMAIN dirs
  BY <1>1
<1>5. A \in [(DOMAIN dirs) \X Pages -> Entries \cup {None}]
  BY <1>1 DEF IsView
<1>. HIDE DEF A
<1>6. Entry(cr3, p) \in Entries \cup {None}
  BY <1>2, <1>4, <1>5
<1>7. Entry(cr3, p) # None =>
              /\ cr3 \in DOMAIN dirs
              /\ <<cr3, p>> \in DOMAIN A
              /\ A[<<cr3, p>>] = Entry(cr3, p)
              /\ Entry(cr3, p).rw => ref[Entry(cr3, p).frame] = 1
  BY <1>1, <1>2, <1>4 DEF OwnWritable
<1>8. tlb[p] # None => /\ Entry(cr3, p) # None
                       /\ tlb[p].frame = Entry(cr3, p).frame
                       /\ tlb[p].rw => ref[tlb[p].frame] = 1
                       /\ Entry(cr3, p).rw => tlb[p].rw
  BY <1>2, <1>3, <1>4 DEF TlbOK
<1>9. tlb \in [Pages -> Entries \cup {None}]
  BY <1>3 DEF TlbOK
<1>. QED
  BY <1>6, <1>7, <1>8, <1>9 DEF A

(* The processor fills the TLB with what it used.                          *)
LEMMA PerformKeeps ==
  ASSUME VmmInv, ~halted, NEW op \in Accesses, Perform(op)
  PROVE  VmmInv' /\ dirs' = dirs /\ lost' = lost /\ cr3' = cr3 /\ regions' = regions
<1>. DEFINE p == op.page
            e == Translation(p)
            A == View(dirs, tabs)
<1>1. p \in Pages
  BY AccessPage
<1>2. /\ ref' = ref /\ dirs' = dirs /\ tabs' = tabs /\ cr3' = cr3
      /\ regions' = regions /\ halted' = halted /\ lost' = lost /\ pend' = None
      /\ tlb' = [tlb EXCEPT ![p] = e] /\ e # None
  BY DEF Perform, Permits
<1>3. MemInv'
  BY <1>2 DEF VmmInv, MemInv
<1>4. /\ e \in Entries
      /\ Entry(cr3, p) # None
      /\ <<cr3, p>> \in DOMAIN A
      /\ A[<<cr3, p>>] = Entry(cr3, p)
      /\ e.frame = A[<<cr3, p>>].frame
      /\ e.rw => ref[e.frame] = 1
      /\ A[<<cr3, p>>].rw => e.rw
  BY <1>1, <1>2, CpuAt DEF Translation, VmmInv
<1>5. TlbOK(A, ref, cr3, tlb)
  BY DEF VmmInv, CpuInv
<1>. HIDE DEF e, A, p
<1>6. TlbOK(A, ref, cr3, tlb')
  <2>1. tlb' \in [Pages -> Entries \cup {None}]
    BY <1>2, <1>4, <1>5 DEF TlbOK
  <2>2. ASSUME NEW q \in Pages, tlb'[q] # None
        PROVE  /\ <<cr3, q>> \in DOMAIN A /\ A[<<cr3, q>>] # None
               /\ tlb'[q].frame = A[<<cr3, q>>].frame
               /\ tlb'[q].rw => ref[tlb'[q].frame] = 1
               /\ A[<<cr3, q>>].rw => tlb'[q].rw
    <3>1. CASE q = p
      <4>1. tlb'[q] = e
        BY <1>1, <1>2, <1>5, <3>1 DEF TlbOK
      <4>. QED
        BY <4>1, <3>1, <1>4
    <3>2. CASE q # p
      <4>1. tlb'[q] = tlb[q]
        BY <1>1, <1>2, <1>5, <3>2 DEF TlbOK
      <4>. QED
        BY <4>1, <2>2, <1>5 DEF TlbOK
    <3>. QED
      BY <3>1, <3>2
  <2>. QED
    BY <2>1, <2>2 DEF TlbOK
<1>7. CpuInv'
  BY <1>2, <1>6 DEF VmmInv, CpuInv, A
<1>8. FaultInv'
  BY <1>2 DEF VmmInv, FaultInv, HaltJustified
<1>9. RegInv'
  BY <1>2 DEF VmmInv, RegInv
<1>. QED
  BY <1>2, <1>3, <1>7, <1>8, <1>9 DEF VmmInv

(* A handler says that it resolved the fault: the access can be re-run.    *)
LEMMA ResolveKeeps ==
  ASSUME VmmInv, ~halted, NEW op \in Accesses, Resolve(op)
  PROVE  VmmInv' /\ DOMAIN dirs' = DOMAIN dirs /\ cr3' = cr3 /\ regions' = regions
<1>. DEFINE p == op.page
<1>1. p \in Pages
  BY AccessPage
<1>2. cr3' = cr3 /\ regions' = regions /\ halted' = halted /\ pend' = op
  BY DEF Resolve
<1>3. op # None
  BY NoneAssumption
<1>. HIDE DEF p
<1>4. /\ MemInv' /\ DOMAIN dirs' = DOMAIN dirs /\ cr3 \in DOMAIN dirs
      /\ Effect(View(dirs, tabs), ref, View(dirs', tabs'), ref', {<<cr3, p>>})
      /\ \E e \in Entries : e.rw = TRUE /\ View(dirs', tabs')[<<cr3, p>>] = e
      /\ tlb' = [tlb EXCEPT ![p] = None]
  <2>1. CASE demand_handle(p)
    <3>1. Translation(p) = None /\ Promised(cr3, p) /\ vmm_map_alloc(cr3, p, TRUE)
      BY <2>1 DEF demand_handle
    <3>2. Entry(cr3, p) = None
      BY <3>1, <1>1, CpuAt DEF Translation, VmmInv
    <3>3. PICK i \in DOMAIN regions : regions[i] = [dir |-> cr3, di |-> p[1]]
      BY <3>1 DEF Promised
    <3>4. regions[i] \in [dir : Frames, di : DirIdx]
      BY <3>3 DEF VmmInv, RegInv
    <3>5. cr3 \in Frames
      BY <3>3, <3>4
    <3>6. cr3 \in DOMAIN dirs
      BY <3>5, VmmAssumption DEF VmmInv, CpuInv
    <3>. QED
      BY <3>1, <3>2, <3>6, <1>1, MapAllocMem DEF VmmInv
  <2>2. CASE CowFault(op) /\ vmm_cow_handle(p)
    <3>1. Entry(cr3, p) # None
      BY <2>2 DEF CowFault, p
    <3>2. cr3 \in DOMAIN dirs
      BY <3>1, <1>1, CpuAt DEF VmmInv
    <3>. QED
      BY <2>2, <3>1, <3>2, <1>1, CowMem DEF VmmInv
  <2>. QED
    BY <2>1, <2>2 DEF Resolve, p
<1>5. /\ tlb' \in [Pages -> Entries \cup {None}]
      /\ \A q \in Pages : tlb'[q] = None \/ (tlb'[q] = tlb[q] /\ <<cr3, q>> \notin {<<cr3, p>>})
      /\ tlb'[p] = None
  BY <1>1, <1>4, FlushKeeps DEF VmmInv
<1>6. CpuInv'
  BY <1>2, <1>4, <1>5, CpuKept DEF VmmInv
<1>7. Entry(cr3, p)' # None /\ Entry(cr3, p)'.rw
  <2>1. Entry(cr3, p)' = EntryIn(dirs', tabs', cr3', p)
    BY <1>1, <1>4, EntryIsNext DEF p
  <2>2. EntryIn(dirs', tabs', cr3', p) = View(dirs', tabs')[<<cr3, p>>]
    BY <1>2, <1>4 DEF EntryIn
  <2>. QED
    BY <2>1, <2>2, <1>2, <1>4, NoneAssumption
<1>8. FaultInv'
  <2>1. Rerunnable'
    BY <1>2, <1>5, <1>7 DEF Rerunnable, Permits, p
  <2>. QED
    BY <2>1, <1>2 DEF VmmInv, FaultInv, HaltJustified
<1>9. RegInv'
  BY <1>2 DEF VmmInv, RegInv
<1>. QED
  BY <1>2, <1>4, <1>6, <1>8, <1>9 DEF VmmInv

(* No handler can resolve the fault: the access was not allowed or there   *)
(* is no memory.                                                           *)
LEMMA GiveUpKeeps ==
  ASSUME VmmInv, ~halted, NEW op \in Accesses, GiveUp(op), ~Permits(Translation(op.page), op)
  PROVE  VmmInv' /\ DOMAIN dirs' = DOMAIN dirs /\ cr3' = cr3 /\ regions' = regions
<1>. DEFINE p == op.page
<1>1. p \in Pages
  BY AccessPage
<1>2. cr3' = cr3 /\ regions' = regions /\ halted' = TRUE /\ pend' = op
  BY DEF GiveUp
<1>3. /\ MemInv' /\ dirs' = dirs /\ tabs' = tabs /\ tlb' = tlb
      /\ Effect(View(dirs, tabs), ref, View(dirs', tabs'), ref', {})
      /\ ~Allowed(op) \/ Free' = {}
  <2>1. CASE Translation(p) = None /\ Promised(cr3, p)
    BY <2>1, <1>1, MapFailsMem DEF GiveUp, demand_handle_returns_0, VmmInv
  <2>2. CASE ~(Translation(p) = None /\ Promised(cr3, p))
    <3>1. ref' = ref /\ dirs' = dirs /\ tabs' = tabs /\ tlb' = tlb /\ lost' = lost
      BY <2>2 DEF GiveUp, demand_handle_returns_0, frameVars
    <3>2. MemInv'
      BY <3>1 DEF VmmInv, MemInv
    <3>3. Effect(View(dirs, tabs), ref, View(dirs', tabs'), ref', {})
      BY <3>1 DEF Effect, Weaker, NoNewHolder
    <3>4. Free' = Free
      BY <3>1 DEF Free
    <3>5. ASSUME ~CowFault(op) PROVE ~Allowed(op)
      <4>1. CASE Entry(cr3, p) = None
        <5>1. Translation(p) = None
          BY <4>1, <1>1, CpuAt DEF Translation, VmmInv
        <5>. QED
          BY <4>1, <5>1, <2>2 DEF Allowed
      <4>2. CASE Entry(cr3, p) # None
        <5>1. Translation(p) # None /\ (Entry(cr3, p).rw => Translation(p).rw)
          BY <4>2, <1>1, CpuAt DEF Translation, VmmInv
        <5>2. op.write /\ ~Entry(cr3, p).rw
          BY <5>1 DEF Permits
        <5>3. ~Entry(cr3, p).cow
          BY <4>2, <5>2, <3>5 DEF CowFault
        <5>. QED
          BY <4>2, <5>2, <5>3 DEF Allowed
      <4>. QED
        BY <4>1, <4>2
    <3>6. ASSUME CowFault(op) PROVE Free = {}
      BY <3>6 DEF GiveUp, CowOutOfMemory
    <3>. QED
      BY <3>1, <3>2, <3>3, <3>4, <3>5, <3>6
  <2>. QED
    BY <2>1, <2>2
<1>4. CpuInv'
  <2>1. tlb' \in [Pages -> Entries \cup {None}]
    BY <1>3 DEF VmmInv, CpuInv, TlbOK
  <2>2. \A q \in Pages : tlb'[q] = None \/ (tlb'[q] = tlb[q] /\ <<cr3, q>> \notin {})
    BY <1>3
  <2>. QED
    BY <2>1, <2>2, <1>2, <1>3, CpuKept DEF VmmInv
<1>5. Allowed(pend)' <=> Allowed(op)
  BY <1>2, <1>3 DEF Allowed, Entry, table_for, Dir, Promised
<1>6. FaultInv'
  BY <1>2, <1>3, <1>5 DEF FaultInv, HaltJustified
<1>7. RegInv'
  BY <1>2 DEF VmmInv, RegInv
<1>. QED
  BY <1>2, <1>3, <1>4, <1>6, <1>7 DEF VmmInv

LEMMA IsrKeeps ==
  ASSUME VmmInv, ~halted, NEW op \in Accesses, isr_handler(op)
  PROVE  VmmInv' /\ DOMAIN dirs' = DOMAIN dirs /\ cr3' = cr3 /\ regions' = regions
BY ResolveKeeps, GiveUpKeeps DEF isr_handler

(* A step that leaves all but the TLB alone, and empties some of that.     *)
LEMMA EvictKeeps ==
  ASSUME VmmInv, UNCHANGED <<ref, dirs, tabs, lost, cr3, regions, pend, halted>>,
         tlb' \in [Pages -> Entries \cup {None}],
         \A q \in Pages : tlb'[q] = None \/ tlb'[q] = tlb[q]
  PROVE  VmmInv'
<1>1. MemInv'
  BY DEF VmmInv, MemInv
<1>2. Effect(View(dirs, tabs), ref, View(dirs', tabs'), ref', {})
  BY DEF Effect, Weaker, NoNewHolder
<1>3. CpuInv'
  BY <1>1, <1>2, CpuKept DEF VmmInv
<1>4. HaltJustified'
  <2>1. Allowed(pend)' <=> Allowed(pend)
    BY DEF Allowed, Entry, table_for, Dir, Promised
  <2>2. Free' = Free
    BY DEF Free
  <2>. QED
    BY <2>1, <2>2 DEF VmmInv, FaultInv, HaltJustified
<1>5. ASSUME pend # None, ~halted PROVE Rerunnable'
  <2>1. pend \in Accesses /\ Rerunnable
    BY <1>5 DEF VmmInv, FaultInv
  <2>2. pend.page \in Pages
    BY <2>1, AccessPage
  <2>3. Entry(cr3, pend.page)' = Entry(cr3, pend.page)
    BY DEF Entry, table_for, Dir
  <2>. QED
    BY <2>1, <2>2, <2>3 DEF Rerunnable, Permits
<1>6. FaultInv'
  BY <1>4, <1>5 DEF VmmInv, FaultInv
<1>. QED
  BY <1>1, <1>3, <1>6 DEF VmmInv, RegInv

-----------------------------------------------------------------------------
(* The kernel's calls, as far as both specifications make them.            *)

(* A call that changes no page of the active space.                        *)
LEMMA AsideKeeps ==
  ASSUME VmmInv, Running, MemInv', RegInv', NEW X,
         Effect(View(dirs, tabs), ref, View(dirs', tabs'), ref', X),
         \A q \in Pages : <<cr3, q>> \notin X,
         cr3 \in DOMAIN dirs => cr3 \in DOMAIN dirs',
         cr3' = cr3, tlb' = tlb, pend' = pend, halted' = halted
  PROVE  VmmInv'
<1>1. tlb' \in [Pages -> Entries \cup {None}]
  BY DEF VmmInv, CpuInv, TlbOK
<1>2. \A q \in Pages : tlb'[q] = None \/ (tlb'[q] = tlb[q] /\ <<cr3, q>> \notin X)
  OBVIOUS
<1>3. CpuInv'
  BY <1>1, <1>2, CpuKept DEF VmmInv
<1>4. FaultInv'
  BY CallKeeps DEF VmmInv
<1>. QED
  BY <1>3, <1>4 DEF VmmInv

(* A call that changes one page of a space and flushes it.                 *)
LEMMA FlushedCallKeeps ==
  ASSUME VmmInv, Running, MemInv', RegInv', NEW d, NEW p \in Pages,
         Effect(View(dirs, tabs), ref, View(dirs', tabs'), ref', {<<d, p>>}),
         DOMAIN dirs' = DOMAIN dirs,
         cr3' = cr3, tlb' = [tlb EXCEPT ![p] = None], pend' = pend, halted' = halted
  PROVE  VmmInv'
<1>1. /\ tlb' \in [Pages -> Entries \cup {None}]
      /\ \A q \in Pages : tlb'[q] = None \/ (tlb'[q] = tlb[q] /\ <<cr3, q>> \notin {<<d, p>>})
  BY FlushKeeps DEF VmmInv
<1>2. CpuInv'
  BY <1>1, CpuKept DEF VmmInv
<1>3. FaultInv'
  BY CallKeeps DEF VmmInv
<1>. QED
  BY <1>2, <1>3 DEF VmmInv

(* A call that ends with a CR3 load.                                       *)
LEMMA SwitchedCallKeeps ==
  ASSUME VmmInv, Running, MemInv', RegInv', NEW d, d \in DOMAIN dirs' \cup {KDir},
         vmm_switch(d), pend' = pend, halted' = halted
  PROVE  VmmInv'
<1>1. CpuInv'
  BY SwitchKeeps
<1>2. FaultInv'
  BY CallKeeps DEF VmmInv
<1>. QED
  BY <1>1, <1>2 DEF VmmInv

LEMMA MapCallKeeps ==
  ASSUME VmmInv, Running, NEW d \in DOMAIN dirs, NEW p \in Pages, NEW w \in BOOLEAN,
         Entry(d, p) = None, vmm_map_alloc(d, p, w) \/ vmm_map_alloc_fails(d, p),
         UNCHANGED <<cr3, regions, pend, halted>>
  PROVE  VmmInv' /\ DOMAIN dirs' = DOMAIN dirs
<1>1. RegInv'
  BY DEF VmmInv, RegInv
<1>2. CASE vmm_map_alloc(d, p, w)
  BY <1>1, <1>2, MapAllocMem, FlushedCallKeeps DEF VmmInv
<1>3. CASE vmm_map_alloc_fails(d, p)
  <2>1. /\ MemInv' /\ dirs' = dirs /\ tlb' = tlb
        /\ Effect(View(dirs, tabs), ref, View(dirs', tabs'), ref', {})
    BY <1>3, MapFailsMem DEF VmmInv
  <2>. QED
    BY <1>1, <2>1, AsideKeeps
<1>. QED
  BY <1>2, <1>3

LEMMA TouchKeeps ==
  ASSUME VmmInv, (\E op \in Accesses : Issue(op)) \/ Rerun
  PROVE  VmmInv' /\ DOMAIN dirs' = DOMAIN dirs /\ cr3' = cr3 /\ regions' = regions
<1>1. CASE \E op \in Accesses : Issue(op)
  <2>1. PICK op \in Accesses : Issue(op)
    BY <1>1
  <2>2. ~halted /\ (Perform(op) \/ isr_handler(op))
    BY <2>1 DEF Issue, Running
  <2>. QED
    BY <2>2, PerformKeeps, IsrKeeps
<1>2. CASE Rerun
  <2>1. ~halted /\ pend # None /\ (Perform(pend) \/ isr_handler(pend))
    BY <1>2 DEF Rerun
  <2>2. PICK op \in Accesses : op = pend
    BY <2>1 DEF VmmInv, FaultInv
  <2>3. ~halted /\ (Perform(op) \/ isr_handler(op))
    BY <2>1, <2>2
  <2>. QED
    BY <2>3, PerformKeeps, IsrKeeps
<1>. QED
  BY <1>1, <1>2

(* The TLB drops an entry, or the machine stays halted.                    *)
LEMMA IdleKeeps ==
  ASSUME VmmInv, (\E p \in Pages : Evict(p)) \/ Halt
  PROVE  VmmInv' /\ UNCHANGED <<ref, dirs, tabs, lost, cr3, regions, pend, halted>>
<1>0. tlb \in [Pages -> Entries \cup {None}]
  BY DEF VmmInv, CpuInv, TlbOK
<1>1. CASE \E p \in Pages : Evict(p)
  <2>1. PICK p \in Pages : Evict(p)
    BY <1>1
  <2>2. /\ UNCHANGED <<ref, dirs, tabs, lost, cr3, regions, pend, halted>>
        /\ tlb' = [tlb EXCEPT ![p] = None]
    BY <2>1 DEF Evict, frameVars, vmm_flush
  <2>3. /\ tlb' \in [Pages -> Entries \cup {None}]
        /\ \A q \in Pages : tlb'[q] = None \/ tlb'[q] = tlb[q]
    BY <1>0, <2>2
  <2>. QED
    BY <2>2, <2>3, EvictKeeps
<1>2. CASE Halt
  <2>1. /\ UNCHANGED <<ref, dirs, tabs, lost, cr3, regions, pend, halted>>
        /\ tlb' = tlb
    BY <1>2 DEF Halt, vars
  <2>. QED
    BY <1>0, <2>1, EvictKeeps
<1>. QED
  BY <1>1, <1>2

LEMMA VmmInit == Init => VmmInv
<1>. SUFFICES ASSUME Init PROVE VmmInv
  OBVIOUS
<1>. USE DEF Init
<1>1. DOMAIN dirs = {} /\ DOMAIN tabs = {} /\ lost = {}
  OBVIOUS
<1>2. Shape(dirs, tabs)
  BY <1>1 DEF Shape, Typed, OnePlace, Placed
<1>3. DOMAIN View(dirs, tabs) = {}
  BY <1>1 DEF View
<1>4. \A f : MapsOf(View(dirs, tabs), f) = {}
  BY <1>3 DEF MapsOf
<1>5. Uses(dirs, tabs, lost) = {}
  BY <1>1 DEF Uses
<1>6. CountsMatch(View(dirs, tabs), {}, ref)
  <2>1. \A f \in Frames : Cardinality(MapsOf(View(dirs, tabs), f)) = 0
    BY <1>4, FS_EmptySet
  <2>. QED
    BY <2>1, VmmAssumption DEF CountsMatch
<1>7. Counted(View(dirs, tabs), {}, ref)
  BY <1>3, <1>6 DEF Counted, Apart, SamePage, OwnWritable
<1>8. MemInv
  BY <1>1, <1>2, <1>5, <1>7 DEF MemInv, Mem
<1>9. CpuInv
  BY FlushedOK DEF CpuInv
<1>10. FaultInv
  BY DEF FaultInv, HaltJustified
<1>11. RegInv
  BY DEF RegInv
<1>. QED
  BY <1>8, <1>9, <1>10, <1>11 DEF VmmInv

LEMMA VmmStep ==
  ASSUME VmmInv, [Next]_vars
  PROVE  VmmInv'
<1>. DEFINE A == View(dirs, tabs)
            B == View(dirs', tabs')
<1>0. MemInv /\ CpuInv /\ FaultInv /\ RegInv
  BY DEF VmmInv
<1>1. CASE Create
  <2>1. PICK d \in Free : vmm_create_dir(d)
    BY <1>1 DEF Create
  <2>2. Running /\ UNCHANGED <<cr3, tlb, pend, halted, regions>>
    BY <1>1 DEF Create, cpuVars
  <2>3. RegInv'
    BY <1>0, <2>2 DEF RegInv
  <2>4. MemInv' /\ DOMAIN dirs' = DOMAIN dirs \cup {d} /\ Effect(A, ref, B, ref', {})
    BY <1>0, <2>1, CreateMem
  <2>. QED
    BY <2>2, <2>3, <2>4, AsideKeeps
<1>2. ASSUME NEW d \in DOMAIN dirs, NEW p \in Pages, NEW w \in Perms, MapAlloc(d, p, w)
      PROVE  VmmInv'
  <2>1. w \in BOOLEAN
    BY VmmAssumption
  <2>. QED
    BY <1>2, <2>1, MapCallKeeps DEF MapAlloc
<1>3. ASSUME NEW d \in DOMAIN dirs, NEW p \in Pages, Unmap(d, p)
      PROVE  VmmInv'
  <2>1. Running /\ vmm_unmap(d, p) /\ UNCHANGED <<cr3, regions, pend, halted>>
    BY <1>3 DEF Unmap
  <2>2. RegInv'
    BY <1>0, <2>1 DEF RegInv
  <2>3. /\ MemInv' /\ DOMAIN dirs' = DOMAIN dirs
        /\ Effect(A, ref, B, ref', {<<d, p>>})
        /\ tlb' = [tlb EXCEPT ![p] = None]
    BY <1>0, <2>1, UnmapMem
  <2>. QED
    BY <2>1, <2>2, <2>3, FlushedCallKeeps
<1>4. ASSUME NEW s \in Space, CloneDir(s)
      PROVE  VmmInv'
  <2>1. Running /\ UNCHANGED <<cr3, tlb, pend, halted, regions>>
    BY <1>4 DEF CloneDir, cpuVars
  <2>2. RegInv'
    BY <1>0, <2>1 DEF RegInv
  <2>3. CASE \E d \in Free : vmm_clone_dir(s, d)
    <3>1. PICK d \in Free : vmm_clone_dir(s, d)
      BY <2>3
    <3>2. MemInv' /\ DOMAIN dirs' = DOMAIN dirs \cup {d} /\ Effect(A, ref, B, ref', {})
      BY <1>0, <3>1, CloneDirMem
    <3>. QED
      BY <2>1, <2>2, <3>2, AsideKeeps
  <2>4. CASE vmm_clone_dir_fails(s)
    <3>1. UNCHANGED <<ref, dirs, tabs, lost>>
      BY <2>4 DEF vmm_clone_dir_fails, frameVars
    <3>2. tlb' \in [Pages -> Entries \cup {None}]
      BY <1>0, <2>1 DEF CpuInv, TlbOK
    <3>. QED
      BY <2>1, <3>1, <3>2, EvictKeeps
  <2>. QED
    BY <1>4, <2>3, <2>4 DEF CloneDir
<1>5. CASE Fork
  <2>1. Running /\ UNCHANGED <<regions, pend, halted>> /\ cr3 \in Space
    BY <1>0, <1>5 DEF Fork, CpuInv, Space
  <2>2. RegInv'
    BY <1>0, <2>1 DEF RegInv
  <2>3. CASE (\E d \in Free : vmm_clone_cow(cr3, d)) /\ vmm_switch(cr3)
    <3>1. PICK d \in Free : vmm_clone_cow(cr3, d)
      BY <2>3
    <3>0. Cardinality(DOMAIN dirs \cup {d}) <= RefMax
      <4>1. IsFiniteSet(DOMAIN dirs) /\ d \notin DOMAIN dirs
        BY <1>0, MemView, FreeIs, VmmAssumption, FS_Subset DEF MemInv, Typed
      <4>2. /\ Cardinality(DOMAIN dirs) \in Nat
            /\ Cardinality(DOMAIN dirs \cup {d}) = Cardinality(DOMAIN dirs) + 1
        BY <4>1, FS_CardinalityType, FS_AddElement
      <4>3. Cardinality(DOMAIN dirs) < MaxSpaces
        BY <1>5 DEF Fork, RoomForSpace
      <4>. QED
        BY <4>2, <4>3, VmmAssumption
    <3>2. MemInv' /\ DOMAIN dirs' = DOMAIN dirs \cup {d}
      BY <1>0, <2>1, <3>0, <3>1, CloneCowMem
    <3>3. cr3 \in DOMAIN dirs' \cup {KDir}
      BY <3>2, <2>1 DEF Space
    <3>. QED
      BY <2>1, <2>2, <2>3, <3>2, <3>3, SwitchedCallKeeps
  <2>4. CASE vmm_clone_cow_fails(cr3) /\ UNCHANGED <<cr3, tlb>>
    <3>1. MemInv' /\ dirs' = dirs /\ Effect(A, ref, B, ref', {})
      BY <1>0, <2>1, <2>4, CloneCowFailsMem
    <3>. QED
      BY <2>1, <2>2, <2>4, <3>1, AsideKeeps
  <2>. QED
    BY <1>5, <2>3, <2>4 DEF Fork
<1>6. ASSUME NEW d \in DOMAIN dirs, Teardown(d)
      PROVE  VmmInv'
  <2>1. /\ Running /\ d # cr3 /\ vmm_destroy_dir(d) /\ regions' = << >>
        /\ UNCHANGED <<cr3, tlb, pend, halted>>
    BY <1>6 DEF Teardown, demand_clear, cpuVars
  <2>2. RegInv'
    BY <2>1 DEF RegInv
  <2>3. /\ MemInv' /\ DOMAIN dirs' = DOMAIN dirs \ {d}
        /\ Effect(A, ref, B, ref', {d} \X Pages)
    BY <1>0, <2>1, DestroyMem
  <2>4. \A q \in Pages : <<cr3, q>> \notin {d} \X Pages
    BY <2>1
  <2>. QED
    BY <2>1, <2>2, <2>3, <2>4, AsideKeeps
<1>7. ASSUME NEW d \in Space, Switch(d)
      PROVE  VmmInv'
  <2>1. /\ Running /\ vmm_switch(d)
        /\ UNCHANGED <<ref, dirs, tabs, lost, regions, pend, halted>>
    BY <1>7 DEF Switch, frameVars
  <2>2. MemInv' /\ RegInv' /\ d \in DOMAIN dirs' \cup {KDir}
    BY <1>0, <2>1 DEF MemInv, RegInv, Space
  <2>. QED
    BY <2>1, <2>2, SwitchedCallKeeps
<1>8. ASSUME NEW d \in DOMAIN dirs, NEW di \in DirIdx, demand_region(d, di)
      PROVE  VmmInv'
  <2>1. /\ Running /\ UNCHANGED <<ref, dirs, tabs, lost, cr3, tlb, pend, halted>>
        /\ regions' = IF Len(regions) < MaxRegions
                      THEN Append(regions, [dir |-> d, di |-> di]) ELSE regions
    BY <1>8 DEF demand_region, frameVars, cpuVars
  <2>2. d \in Frames
    BY <1>0, MemView DEF MemInv, Typed
  <2>3. [dir |-> d, di |-> di] \in [dir : Frames, di : DirIdx]
    BY <2>2
  <2>4. RegInv'
    <3>. DEFINE Rg == [dir : Frames, di : DirIdx]
                r == [dir |-> d, di |-> di]
    <3>1. regions \in Seq(Rg) /\ r \in Rg
      BY <1>0, <2>3 DEF RegInv
    <3>. HIDE DEF Rg, r
    <3>2. Append(regions, r) \in Seq(Rg)
      BY <3>1
    <3>3. regions' = Append(regions, r) \/ regions' = regions
      BY <2>1 DEF r
    <3>4. regions' \in Seq(Rg)
      BY <3>1, <3>2, <3>3
    <3>. QED
      BY <3>4 DEF RegInv, Rg
  <2>5. MemInv'
    BY <1>0, <2>1 DEF MemInv
  <2>6. Effect(A, ref, B, ref', {})
    BY <2>1 DEF Effect, Weaker, NoNewHolder
  <2>. QED
    BY <2>1, <2>4, <2>5, <2>6, AsideKeeps
<1>9. CASE (\E op \in Accesses : Issue(op)) \/ Rerun
  BY <1>9, TouchKeeps
<1>10. CASE (\E p \in Pages : Evict(p)) \/ Halt
  BY <1>10, IdleKeeps
<1>11. CASE UNCHANGED vars
  <2>1. UNCHANGED <<ref, dirs, tabs, lost, cr3, tlb, regions, pend, halted>>
    BY <1>11 DEF vars
  <2>2. tlb' \in [Pages -> Entries \cup {None}]
    BY <1>0, <2>1 DEF CpuInv, TlbOK
  <2>. QED
    BY <2>1, <2>2, EvictKeeps
<1>. QED
  BY <1>1, <1>2, <1>3, <1>4, <1>5, <1>6, <1>7, <1>8, <1>9, <1>10, <1>11 DEF Next

-----------------------------------------------------------------------------
(* What the invariant says of the frames, the TLB and the faults.          *)

LEMMA HoldersAre ==
  ASSUME MemInv, NEW f \in Frames
  PROVE  ref[f] = Cardinality(Holders(f)) + (IF f \in lost THEN 1 ELSE 0)
<1>. DEFINE A == View(dirs, tabs)
            H1 == {<<d>> : d \in {f} \cap DOMAIN dirs}
            H2 == {x \in (DOMAIN dirs) \X DirIdx : dirs[x[1]][x[2]] = f}
            H3 == {x \in (DOMAIN dirs) \X Pages : x[2] \in Mappings(x[1], f)}
<1>1. /\ Typed(dirs, tabs) /\ OnePlace(dirs) /\ Placed(dirs, tabs)
      /\ lost \cap (DOMAIN dirs \cup DOMAIN tabs) = {}
      /\ DOMAIN A = (DOMAIN dirs) \X Pages
      /\ Apart(A, DOMAIN dirs \cup DOMAIN tabs \cup lost)
      /\ CountsMatch(A, DOMAIN dirs \cup DOMAIN tabs \cup lost, ref)
      /\ IsView(A, DOMAIN dirs)
  BY MemView DEF MemInv, Mem, Shape, Counted, Uses
<1>2. H3 = MapsOf(A, f)
  <2>. HIDE DEF A
  <2>1. ASSUME NEW d \in DOMAIN dirs, NEW p \in Pages
        PROVE  p \in Mappings(d, f) <=> A[<<d, p>>] # None /\ A[<<d, p>>].frame = f
    <3>1. Entry(d, p) = A[<<d, p>>]
      BY EntryIs DEF EntryIn, A
    <3>. QED
      BY <3>1 DEF Mappings, Mapped
  <2>2. \A x \in (DOMAIN dirs) \X Pages :
          x[1] \in DOMAIN dirs /\ x[2] \in Pages /\ x = <<x[1], x[2]>>
    OBVIOUS
  <2>3. \A x \in (DOMAIN dirs) \X Pages :
          x[2] \in Mappings(x[1], f) <=> A[x] # None /\ A[x].frame = f
    BY <2>1, <2>2
  <2>. QED
    BY <2>3, <1>1 DEF MapsOf
<1>3. Holders(f) = H1 \cup H2 \cup H3
  BY DEF Holders
<1>. HIDE DEF A, H3
<1>4. f \in DOMAIN dirs \cup DOMAIN tabs \cup lost => H3 = {} /\ ref[f] = 1
  BY <1>1, <1>2 DEF MapsOf, Apart, CountsMatch
<1>5. f \notin DOMAIN tabs => H2 = {}
  <2>1. ASSUME NEW x \in H2 PROVE f \in DOMAIN tabs
    <3>1. x[1] \in DOMAIN dirs /\ x[2] \in DirIdx /\ dirs[x[1]][x[2]] = f
      OBVIOUS
    <3>2. f \in DOMAIN tabs \cup {None}
      BY <3>1, <1>1 DEF Typed
    <3>. QED
      BY <3>2, VmmAssumption
  <2>. HIDE DEF H2
  <2>. QED
    BY <2>1
<1>6. f \notin DOMAIN dirs => H1 = {}
  OBVIOUS
<1>8. Cardinality({}) = 0
  BY FS_EmptySet
<1>9. CASE f \in DOMAIN dirs
  <2>1. H1 = {<<f>>}
    BY <1>9
  <2>2. f \notin DOMAIN tabs /\ f \notin lost
    BY <1>1, <1>9 DEF Typed
  <2>. HIDE DEF H1, H2
  <2>3. Holders(f) = {<<f>>}
    BY <2>1, <2>2, <1>3, <1>4, <1>5, <1>9
  <2>. QED
    <3>1. Cardinality(Holders(f)) = 1
      BY <2>3, FS_Singleton
    <3>. QED
      BY <3>1, <2>2, <1>4, <1>9
<1>10. CASE f \in DOMAIN tabs
  <2>1. PICK d \in DOMAIN dirs : \E i \in DirIdx : dirs[d][i] = f
    BY <1>1, <1>10 DEF Placed
  <2>2. PICK i \in DirIdx : dirs[d][i] = f
    BY <2>1
  <2>3. f # None
    BY VmmAssumption
  <2>4. ASSUME NEW x \in (DOMAIN dirs) \X DirIdx, dirs[x[1]][x[2]] = f
        PROVE  x = <<d, i>>
    <3>1. x[1] \in DOMAIN dirs /\ x[2] \in DirIdx /\ x = <<x[1], x[2]>>
      OBVIOUS
    <3>2. d = x[1] /\ i = x[2]
      BY <3>1, <2>2, <2>3, <2>4, <1>1 DEF OnePlace
    <3>. QED
      BY <3>1, <3>2
  <2>5. <<d, i>> \in H2
    BY <2>2
  <2>6. H2 = {<<d, i>>}
    BY <2>4, <2>5
  <2>7. f \notin DOMAIN dirs /\ f \notin lost
    BY <1>1, <1>10 DEF Typed
  <2>. HIDE DEF H1, H2
  <2>8. Holders(f) = {<<d, i>>}
    BY <2>6, <2>7, <1>3, <1>4, <1>6, <1>10
  <2>. QED
    <3>1. Cardinality(Holders(f)) = 1
      BY <2>8, FS_Singleton
    <3>. QED
      BY <3>1, <2>7, <1>4, <1>10
<1>11. CASE f \in lost
  <2>1. f \notin DOMAIN dirs /\ f \notin DOMAIN tabs
    BY <1>1, <1>11
  <2>. HIDE DEF H1, H2
  <2>2. Holders(f) = {}
    BY <2>1, <1>3, <1>4, <1>5, <1>6, <1>11
  <2>. QED
    BY <2>2, <1>4, <1>8, <1>11
<1>12. CASE f \notin DOMAIN dirs \cup DOMAIN tabs \cup lost
  <2>. HIDE DEF H1, H2
  <2>1. Holders(f) = MapsOf(A, f)
    BY <1>2, <1>3, <1>5, <1>6, <1>12
  <2>2. ref[f] = Cardinality(MapsOf(A, f))
    BY <1>1, <1>12 DEF CountsMatch
  <2>3. Cardinality(MapsOf(A, f)) \in Nat
    BY <1>1, MapsFinite
  <2>. QED
    BY <2>1, <2>2, <2>3, <1>12
<1>. QED
  BY <1>9, <1>10, <1>11, <1>12

LEMMA VmmSafe ==
  ASSUME VmmInv
  PROVE  RefExact /\ WriteExclusive /\ TlbCoherent /\ FaultResolved /\ HaltJustified
<1>0. MemInv /\ CpuInv /\ FaultInv
  BY DEF VmmInv
<1>1. RefExact
  BY <1>0, HoldersAre DEF RefExact
<1>2. ASSUME NEW d \in DOMAIN dirs, NEW p \in Mapped(d), Entry(d, p).rw
      PROVE  ref[Entry(d, p).frame] = 1
  <2>1. p \in Pages /\ Entry(d, p) # None
    BY DEF Mapped
  <2>2. Entry(d, p) = View(dirs, tabs)[<<d, p>>]
    BY <1>0, <2>1, EntryIs DEF EntryIn
  <2>3. <<d, p>> \in DOMAIN View(dirs, tabs)
    <3>1. DOMAIN View(dirs, tabs) = (DOMAIN dirs) \X Pages
      BY <1>0, MemView DEF MemInv
    <3>. QED
      BY <2>1, <3>1
  <2>4. OwnWritable(View(dirs, tabs), ref)
    BY <1>0, MemView DEF MemInv, Counted
  <2>. QED
    BY <1>2, <2>1, <2>2, <2>3, <2>4 DEF OwnWritable
<1>3. WriteExclusive
  BY <1>0, <1>2, CpuAt DEF WriteExclusive
<1>4. TlbCoherent
  BY <1>0, CpuAt DEF TlbCoherent
<1>5. FaultResolved
  BY <1>0 DEF FaultInv, FaultResolved, Rerunnable, Translation
<1>6. HaltJustified
  BY <1>0 DEF FaultInv
<1>. QED
  BY <1>1, <1>3, <1>4, <1>5, <1>6

(* The invariant holds of every behaviour of Vmm.tla: the counts, the      *)
(* tables, the TLB, the access to be re-run and the regions stay in order  *)
(* through every call of vmm.c and demand.c and every page fault.          *)
THEOREM VmmInvariant == Spec => []VmmInv
<1>1. Init => VmmInv
  BY VmmInit
<1>2. VmmInv /\ [Next]_vars => VmmInv'
  BY VmmStep
<1>. QED
  BY <1>1, <1>2, PTL DEF Spec

(* Every frame is referred to exactly as often as its count says, through  *)
(* vmm_map_alloc, vmm_unmap, both clones, vmm_cow_handle and               *)
(* vmm_destroy_dir (vmm.c), for every number of frames and spaces.         *)
THEOREM ReferencesExact == Spec => []RefExact
BY VmmInvariant, VmmSafe, PTL

(* What can be written without a fault, through a page table or through    *)
(* the TLB, has one holder: a fork of vmm_clone_cow isolates the two       *)
(* spaces (vmm.c:236-238).                                                 *)
THEOREM WritesExclusive == Spec => []WriteExclusive
BY VmmInvariant, VmmSafe, PTL

(* vmm_flush and vmm_switch are called wherever the TLB could otherwise    *)
(* lead to a frame that the active page tables no longer name.             *)
THEOREM TlbNeverStale == Spec => []TlbCoherent
BY VmmInvariant, VmmSafe, PTL

(* When demand_handle or vmm_cow_handle has resolved a fault, the access   *)
(* goes through when isr_handler returns to it.                            *)
THEOREM FaultsResolved == Spec => []FaultResolved
BY VmmInvariant, VmmSafe, PTL

(* isr_handler halts only for an access nobody allowed, or without memory. *)
THEOREM HaltsJustified == Spec => []HaltJustified
BY VmmInvariant, VmmSafe, PTL

-----------------------------------------------------------------------------
(* The process table.                                                      *)
Record == [pid : 0..MaxPid, ppid : 0..MaxPid,
           state : {"unused", "ready", "running", "zombie"},
           dir : Frames \cup {KDir, None}, code : Codes \cup {0}]

InUse(q) == q.state # "unused"
Alive(q) == q.state \in {"ready", "running"}

TableTyped(tab, np, cur) == /\ tab \in [Slots -> Record]
                            /\ np \in 1..(MaxPid + 1)
                            /\ cur \in Slots

(* Slot 0 is the kernel, and its own parent.                               *)
Rooted(tab) == /\ tab[0].dir = KDir
               /\ tab[0].pid = 0
               /\ tab[0].ppid = 0
               /\ Alive(tab[0])

PidsGiven(tab, np) == \A i \in Slots : InUse(tab[i]) => tab[i].pid < np

ZombiesBare(tab) == \A i \in Slots : tab[i].state = "zombie" => tab[i].dir = None

OneRuns(tab, cur) == \A i \in Slots : tab[i].state = "running" <=> i = cur

Parented(tab) == \A i \in Slots : InUse(tab[i]) =>
  \E j \in Slots : Alive(tab[j]) /\ tab[j].pid = tab[i].ppid

(* A program of exec is the current process and has no children: this is   *)
(* why proc_end_user may free its slot and reparent nobody.                *)
Childless(tab, cur) == \A i \in Slots \ {0} : InUse(tab[i]) /\ tab[i].dir = KDir =>
  /\ i = cur
  /\ \A j \in Slots : InUse(tab[j]) => tab[j].ppid # tab[i].pid

(* The spaces Ds and the slots in use.                                     *)
Owners(tab, Ds) ==
  /\ Ds \subseteq Frames
  /\ \A i \in Slots : InUse(tab[i]) /\ tab[i].dir \in Frames => tab[i].dir \in Ds
  /\ \A d \in Ds : \E i \in Slots : InUse(tab[i]) /\ tab[i].dir = d
  /\ \A i, j \in Slots :
       InUse(tab[i]) /\ InUse(tab[j]) /\ tab[i].dir = tab[j].dir /\ tab[i].dir \in Frames
         => i = j

Tree(tab, np, cur) == /\ TableTyped(tab, np, cur)
                      /\ Rooted(tab)
                      /\ PidsGiven(tab, np)
                      /\ ZombiesBare(tab)
                      /\ OneRuns(tab, cur)
                      /\ Parented(tab)

ProcInv == /\ VmmInv
           /\ regions = << >>
           /\ Tree(table, next_pid, current_idx)
           /\ Childless(table, current_idx)
           /\ Owners(table, DOMAIN dirs)
           /\ cr3 = table[current_idx].dir

(* The kernel is not in a program, so there is none.                       *)
NoProgram(tab, cur) == cur # 0 => tab[cur].dir # KDir

LEMMA SlotZero == 0 \in Slots
BY ProcAssumption DEF Slots

LEMMA NoneInProgram ==
  ASSUME NEW tab, NEW cur, Childless(tab, cur), NoProgram(tab, cur)
  PROVE  \A i \in Slots \ {0} : InUse(tab[i]) => tab[i].dir # KDir
BY DEF Childless, NoProgram

(* The parent of a process that is in use has a pid that was given out.    *)
LEMMA ParentsGiven ==
  ASSUME NEW tab, NEW np, NEW cur, Tree(tab, np, cur), NEW i \in Slots, InUse(tab[i])
  PROVE  tab[i].ppid < np
<1>1. PICK j \in Slots : Alive(tab[j]) /\ tab[j].pid = tab[i].ppid
  BY DEF Tree, Parented
<1>2. InUse(tab[j])
  BY <1>1 DEF Alive, InUse
<1>. QED
  BY <1>1, <1>2 DEF Tree, PidsGiven

(* There are no more spaces than slots, so a count has room for them all.  *)
LEMMA FewSpaces ==
  ASSUME NEW tab, NEW Ds, Owners(tab, Ds)
  PROVE  Cardinality(Ds) <= RefMax
<1>. DEFINE g == [d \in Ds |-> CHOOSE i \in Slots : InUse(tab[i]) /\ tab[i].dir = d]
<1>1. \A d \in Ds : g[d] \in Slots /\ tab[g[d]].dir = d
  BY DEF Owners
<1>2. g \in Injection(Ds, Slots)
  BY <1>1 DEF Injection, IsInjective
<1>3. IsFiniteSet(Slots) /\ Cardinality(Slots) = MaxProcs
  BY ProcAssumption, FS_Interval DEF Slots
<1>4. IsFiniteSet(Ds)
  BY VmmAssumption, FS_Subset DEF Owners
<1>5. Cardinality(Ds) <= MaxProcs /\ Cardinality(Ds) \in Nat
  BY <1>2, <1>3, <1>4, FS_Injection, FS_CardinalityType
<1>. QED
  BY <1>5, ProcAssumption, VmmAssumption

(* The record proc_alloc writes, and the one that frees a slot.            *)
Newborn(q, tab, np, cur, d) == /\ q \in Record
                               /\ q.pid = np
                               /\ q.ppid = tab[cur].pid
                               /\ q.state = "ready"
                               /\ q.dir = d
                               /\ q.code = 0

LEMMA UnusedIs == Unused \in Record /\ ~InUse(Unused)
BY ProcAssumption DEF Unused, Record, InUse

LEMMA NewProcIs ==
  ASSUME Tree(table, next_pid, current_idx), next_pid <= MaxPid,
         NEW d \in Frames \cup {KDir, None}
  PROVE  Newborn(NewProc(d), table, next_pid, current_idx, d)
<1>1. table[current_idx].pid \in 0..MaxPid /\ next_pid \in 0..MaxPid
  BY ProcAssumption DEF Tree, TableTyped, Record
<1>2. NewProc(d) = [Unused EXCEPT !.pid = next_pid, !.ppid = table[current_idx].pid,
                                  !.state = "ready", !.dir = d]
  BY DEF NewProc, Me
<1>3. /\ NewProc(d) \in Record
      /\ NewProc(d).pid = next_pid /\ NewProc(d).ppid = table[current_idx].pid
      /\ NewProc(d).state = "ready" /\ NewProc(d).dir = d /\ NewProc(d).code = 0
  BY <1>1, <1>2, UnusedIs DEF Record, Unused
<1>. QED
  BY <1>3 DEF Newborn

(* proc_alloc: a child of the current process in a free slot.              *)
LEMMA BirthTree ==
  ASSUME NEW tab, NEW np, NEW cur, Tree(tab, np, cur), np <= MaxPid,
         NEW i \in Slots \ {0}, ~InUse(tab[i]), NEW d,
         NEW q, Newborn(q, tab, np, cur, d), NEW tab2, tab2 = [tab EXCEPT ![i] = q]
  PROVE  Tree(tab2, np + 1, cur)
<1>1. /\ tab \in [Slots -> Record] /\ np \in 1..(MaxPid + 1) /\ cur \in Slots
      /\ MaxPid \in Nat /\ 0 \in Slots
  BY ProcAssumption, SlotZero DEF Tree, TableTyped
<1>2. tab[cur] \in Record
  BY <1>1
<1>4. /\ q \in Record
      /\ q.pid = np /\ q.ppid = tab[cur].pid /\ q.state = "ready" /\ q.dir = d
  BY DEF Newborn
<1>5. InUse(q) /\ Alive(q)
  BY <1>4 DEF InUse, Alive
<1>6. Alive(tab[cur])
  BY <1>1 DEF Tree, OneRuns, Alive
<1>7. i # cur
  BY <1>6 DEF InUse, Alive
<1>8. /\ tab2 \in [Slots -> Record]
      /\ tab2[i] = q
      /\ \A j \in Slots : j # i => tab2[j] = tab[j]
  BY <1>1, <1>4
<1>9. TableTyped(tab2, np + 1, cur)
  BY <1>1, <1>8 DEF TableTyped
<1>10. Rooted(tab2)
  BY <1>1, <1>8 DEF Tree, Rooted
<1>11. PidsGiven(tab2, np + 1)
  <2>1. ASSUME NEW j \in Slots, InUse(tab2[j]) PROVE tab2[j].pid < np + 1
    <3>1. CASE j = i
      BY <3>1, <1>1, <1>4, <1>8
    <3>2. CASE j # i
      <4>1. tab[j].pid < np /\ tab[j].pid \in Nat
        BY <2>1, <3>2, <1>1, <1>8 DEF Tree, PidsGiven, Record
      <4>. QED
        BY <3>2, <4>1, <1>1, <1>8
    <3>. QED
      BY <3>1, <3>2
  <2>. QED
    BY <2>1 DEF PidsGiven
<1>12. ZombiesBare(tab2)
  BY <1>4, <1>8 DEF Tree, ZombiesBare
<1>13. OneRuns(tab2, cur)
  BY <1>4, <1>7, <1>8 DEF Tree, OneRuns
<1>14. Parented(tab2)
  <2>1. ASSUME NEW j \in Slots, InUse(tab2[j])
        PROVE  \E k \in Slots : Alive(tab2[k]) /\ tab2[k].pid = tab2[j].ppid
    <3>1. CASE j = i
      BY <3>1, <1>1, <1>4, <1>6, <1>7, <1>8
    <3>2. CASE j # i
      <4>1. PICK k \in Slots : Alive(tab[k]) /\ tab[k].pid = tab[j].ppid
        BY <2>1, <3>2, <1>8 DEF Tree, Parented
      <4>2. k # i
        BY <4>1 DEF Alive, InUse
      <4>. QED
        BY <4>1, <4>2, <3>2, <1>8
    <3>. QED
      BY <3>1, <3>2
  <2>. QED
    BY <2>1 DEF Parented
<1>. QED
  BY <1>9, <1>10, <1>11, <1>12, <1>13, <1>14 DEF Tree

LEMMA BirthOwners ==
  ASSUME NEW tab, NEW Ds, Owners(tab, Ds), tab \in [Slots -> Record],
         NEW i \in Slots, ~InUse(tab[i]), NEW q, InUse(q), q.dir \notin Ds,
         NEW Ds2, Ds2 = Ds \cup ({q.dir} \cap Frames)
  PROVE  Owners([tab EXCEPT ![i] = q], Ds2)
<1>. DEFINE tab2 == [tab EXCEPT ![i] = q]
<1>1. tab2[i] = q /\ \A j \in Slots : j # i => tab2[j] = tab[j]
  OBVIOUS
<1>. HIDE DEF tab2
<1>2. Ds2 \subseteq Frames
  BY DEF Owners
<1>3. \A j \in Slots : InUse(tab2[j]) /\ tab2[j].dir \in Frames => tab2[j].dir \in Ds2
  BY <1>1 DEF Owners
<1>4. ASSUME NEW d \in Ds2 PROVE \E j \in Slots : InUse(tab2[j]) /\ tab2[j].dir = d
  <2>1. CASE d \in Ds
    <3>1. PICK j \in Slots : InUse(tab[j]) /\ tab[j].dir = d
      BY <2>1 DEF Owners
    <3>2. j # i
      BY <3>1
    <3>. QED
      BY <3>1, <3>2, <1>1
  <2>2. CASE d = q.dir
    BY <2>2, <1>1
  <2>. QED
    BY <2>1, <2>2
<1>5. ASSUME NEW j \in Slots, NEW k \in Slots, InUse(tab2[j]), InUse(tab2[k]),
             tab2[j].dir = tab2[k].dir, tab2[j].dir \in Frames
      PROVE  j = k
  <2>1. \A l \in Slots : l # i /\ InUse(tab2[l]) /\ tab2[l].dir \in Frames => tab2[l].dir \in Ds
    BY <1>1 DEF Owners
  <2>2. CASE j = i
    BY <2>1, <2>2, <1>1, <1>5
  <2>3. CASE k = i
    BY <2>1, <2>3, <1>1, <1>5
  <2>4. CASE j # i /\ k # i
    BY <2>4, <1>1, <1>5 DEF Owners
  <2>. QED
    BY <2>2, <2>3, <2>4
<1>6. Owners(tab2, Ds2)
  BY <1>2, <1>3, <1>4, <1>5 DEF Owners
<1>. QED
  BY <1>6 DEF tab2

(* A slot is given back: nobody that stays is a child of its process, or   *)
(* it was not alive.                                                       *)
Strands(tab, i) == /\ Alive(tab[i])
                   /\ \E j \in Slots : InUse(tab[j]) /\ tab[j].ppid = tab[i].pid

LEMMA DropTree ==
  ASSUME NEW tab, NEW np, NEW cur, Tree(tab, np, cur), NEW i \in Slots \ {0}, i # cur,
         ~Strands(tab, i), NEW q \in Record, ~InUse(q), NEW np2 \in {np, np + 1},
         np2 <= MaxPid + 1
  PROVE  Tree([tab EXCEPT ![i] = q], np2, cur)
<1>. DEFINE tab2 == [tab EXCEPT ![i] = q]
<1>1. /\ tab \in [Slots -> Record] /\ np \in 1..(MaxPid + 1) /\ cur \in Slots
      /\ MaxPid \in Nat /\ 0 \in Slots
  BY ProcAssumption, SlotZero DEF Tree, TableTyped
<1>2. /\ tab2 \in [Slots -> Record]
      /\ tab2[i] = q
      /\ \A j \in Slots : j # i => tab2[j] = tab[j]
  BY <1>1
<1>. HIDE DEF tab2
<1>3. TableTyped(tab2, np2, cur)
  BY <1>1, <1>2 DEF TableTyped
<1>4. Rooted(tab2)
  BY <1>1, <1>2 DEF Tree, Rooted
<1>5. PidsGiven(tab2, np2)
  <2>1. ASSUME NEW j \in Slots, InUse(tab2[j]) PROVE tab2[j].pid < np2
    <3>1. j # i
      BY <2>1, <1>2
    <3>2. tab[j].pid < np /\ tab[j].pid \in Nat
      BY <2>1, <3>1, <1>1, <1>2 DEF Tree, PidsGiven, Record
    <3>. QED
      BY <3>1, <3>2, <1>1, <1>2
  <2>. QED
    BY <2>1 DEF PidsGiven
<1>6. ZombiesBare(tab2)
  <2>1. q.state # "zombie"
    BY DEF InUse
  <2>. QED
    BY <2>1, <1>2 DEF Tree, ZombiesBare
<1>7. OneRuns(tab2, cur)
  <2>1. q.state # "running"
    BY DEF InUse
  <2>. QED
    BY <2>1, <1>2 DEF Tree, OneRuns
<1>8. Parented(tab2)
  <2>1. ASSUME NEW j \in Slots, InUse(tab2[j])
        PROVE  \E k \in Slots : Alive(tab2[k]) /\ tab2[k].pid = tab2[j].ppid
    <3>1. j # i
      BY <2>1, <1>2
    <3>2. PICK k \in Slots : Alive(tab[k]) /\ tab[k].pid = tab[j].ppid
      BY <2>1, <3>1, <1>2 DEF Tree, Parented
    <3>3. k # i
      BY <2>1, <3>1, <3>2, <1>2 DEF Strands
    <3>. QED
      BY <3>1, <3>2, <3>3, <1>2
  <2>. QED
    BY <2>1 DEF Parented
<1>9. Tree(tab2, np2, cur)
  BY <1>3, <1>4, <1>5, <1>6, <1>7, <1>8 DEF Tree
<1>. QED
  BY <1>9 DEF tab2

LEMMA DropOwners ==
  ASSUME NEW tab, NEW Ds, Owners(tab, Ds), tab \in [Slots -> Record],
         NEW i \in Slots, InUse(tab[i]) => tab[i].dir \notin Frames, NEW q, ~InUse(q)
  PROVE  Owners([tab EXCEPT ![i] = q], Ds)
<1>. DEFINE tab2 == [tab EXCEPT ![i] = q]
<1>1. tab2[i] = q /\ \A j \in Slots : j # i => tab2[j] = tab[j]
  OBVIOUS
<1>. HIDE DEF tab2
<1>2. \A j \in Slots : InUse(tab2[j]) => j # i /\ tab2[j] = tab[j]
  BY <1>1
<1>3. ASSUME NEW d \in Ds PROVE \E j \in Slots : InUse(tab2[j]) /\ tab2[j].dir = d
  <2>1. PICK j \in Slots : InUse(tab[j]) /\ tab[j].dir = d
    BY DEF Owners
  <2>2. d \in Frames
    BY DEF Owners
  <2>. QED
    BY <2>1, <2>2, <1>1
<1>4. \A j, k \in Slots :
        InUse(tab2[j]) /\ InUse(tab2[k]) /\ tab2[j].dir = tab2[k].dir /\ tab2[j].dir \in Frames
          => j = k
  BY <1>2 DEF Owners
<1>5. \A j \in Slots : InUse(tab2[j]) /\ tab2[j].dir \in Frames => tab2[j].dir \in Ds
  BY <1>2 DEF Owners
<1>6. Owners(tab2, Ds)
  BY <1>3, <1>4, <1>5 DEF Owners
<1>. QED
  BY <1>6 DEF tab2

(* proc_switch_to: nothing but the states of two slots changes.            *)
Runs(tab, tab2, cur, i) ==
  /\ tab2 \in [Slots -> Record]
  /\ \A j \in Slots : /\ tab2[j].pid = tab[j].pid
                      /\ tab2[j].ppid = tab[j].ppid
                      /\ tab2[j].dir = tab[j].dir
                      /\ tab2[j].code = tab[j].code
  /\ tab2[i].state = "running"
  /\ \A j \in Slots : j # i =>
       tab2[j].state = IF j = cur /\ tab[j].state = "running" THEN "ready" ELSE tab[j].state

LEMMA DispatchIs ==
  ASSUME NEW tab \in [Slots -> Record], NEW i \in Slots
  PROVE  Runs(tab, Dispatch(tab, i), current_idx, i)
<1>. DEFINE run(q) == [q EXCEPT !.state = "running"]
            wait(q) == [q EXCEPT !.state = "ready"]
            tab2 == Dispatch(tab, i)
<1>1. ASSUME NEW q \in Record
      PROVE  /\ run(q) \in Record /\ run(q).state = "running" /\ run(q).pid = q.pid
             /\ run(q).ppid = q.ppid /\ run(q).dir = q.dir /\ run(q).code = q.code
  BY DEF Record
<1>2. ASSUME NEW q \in Record
      PROVE  /\ wait(q) \in Record /\ wait(q).state = "ready" /\ wait(q).pid = q.pid
             /\ wait(q).ppid = q.ppid /\ wait(q).dir = q.dir /\ wait(q).code = q.code
  BY DEF Record
<1>3. tab2 = [j \in Slots |-> IF j = i THEN run(tab[j])
                              ELSE IF j = current_idx /\ tab[j].state = "running"
                                   THEN wait(tab[j]) ELSE tab[j]]
  BY DEF Dispatch
<1>. HIDE DEF run, wait, tab2
<1>4. \A j \in Slots : tab[j] \in Record
  OBVIOUS
<1>5. tab2 \in [Slots -> Record]
  BY <1>1, <1>2, <1>3, <1>4
<1>6. \A j \in Slots : tab2[j] = IF j = i THEN run(tab[j])
                                 ELSE IF j = current_idx /\ tab[j].state = "running"
                                      THEN wait(tab[j]) ELSE tab[j]
  BY <1>3
<1>7. \A j \in Slots : /\ tab2[j].pid = tab[j].pid
                       /\ tab2[j].ppid = tab[j].ppid
                       /\ tab2[j].dir = tab[j].dir
                       /\ tab2[j].code = tab[j].code
  BY <1>1, <1>2, <1>4, <1>6
<1>8. tab2[i].state = "running"
  BY <1>1, <1>4, <1>6
<1>9. \A j \in Slots : j # i =>
        tab2[j].state = IF j = current_idx /\ tab[j].state = "running" THEN "ready"
                        ELSE tab[j].state
  BY <1>2, <1>4, <1>6
<1>10. Runs(tab, tab2, current_idx, i)
  BY <1>5, <1>7, <1>8, <1>9 DEF Runs
<1>. QED
  BY <1>10 DEF tab2

LEMMA RunsTree ==
  ASSUME NEW tab, NEW np, NEW cur, Tree(tab, np, cur), NEW i \in Slots, Alive(tab[i]),
         NEW tab2, Runs(tab, tab2, cur, i)
  PROVE  /\ Tree(tab2, np, i)
         /\ \A j \in Slots : /\ InUse(tab2[j]) <=> InUse(tab[j])
                             /\ Alive(tab2[j]) <=> Alive(tab[j])
<1>1. /\ tab \in [Slots -> Record] /\ np \in 1..(MaxPid + 1) /\ cur \in Slots
      /\ 0 \in Slots
  BY SlotZero DEF Tree, TableTyped
<1>2. \A j \in Slots : /\ InUse(tab2[j]) <=> InUse(tab[j])
                       /\ Alive(tab2[j]) <=> Alive(tab[j])
                       /\ tab2[j].state = "zombie" <=> tab[j].state = "zombie"
  BY DEF Runs, InUse, Alive
<1>3. TableTyped(tab2, np, i)
  BY <1>1 DEF TableTyped, Runs
<1>4. Rooted(tab2)
  BY <1>1, <1>2 DEF Tree, Rooted, Runs
<1>5. PidsGiven(tab2, np)
  BY <1>2 DEF Tree, PidsGiven, Runs
<1>6. ZombiesBare(tab2)
  BY <1>2 DEF Tree, ZombiesBare, Runs
<1>7. OneRuns(tab2, i)
  BY DEF Tree, OneRuns, Runs
<1>8. Parented(tab2)
  BY <1>2 DEF Tree, Parented, Runs
<1>. QED
  BY <1>2, <1>3, <1>4, <1>5, <1>6, <1>7, <1>8 DEF Tree

LEMMA RunsOwners ==
  ASSUME NEW tab, NEW Ds, Owners(tab, Ds), NEW tab2,
         \A j \in Slots : (InUse(tab2[j]) <=> InUse(tab[j])) /\ tab2[j].dir = tab[j].dir
  PROVE  Owners(tab2, Ds)
BY DEF Owners

(* proc_exit: the current process becomes a zombie without a space, slot 0 *)
(* runs, and the children go to it.                                        *)
Exits(tab, tab2, cur) ==
  /\ tab2 \in [Slots -> Record]
  /\ \A j \in Slots : tab2[j].pid = tab[j].pid
  /\ \A j \in Slots \ {cur} : tab2[j].code = tab[j].code
  /\ tab2[0].state = "running" /\ tab2[0].dir = tab[0].dir /\ tab2[0].ppid = tab[0].ppid
  /\ tab2[cur].state = "zombie" /\ tab2[cur].dir = None
  /\ \A j \in Slots \ {0, cur} : tab2[j].state = tab[j].state /\ tab2[j].dir = tab[j].dir
  /\ \A j \in Slots \ {0} :
       tab2[j].ppid = IF InUse(tab[j]) /\ tab[j].ppid = tab[cur].pid THEN 0 ELSE tab[j].ppid

LEMMA ReparentedIs ==
  ASSUME NEW q \in Record
  PROVE  /\ Reparented(q) \in Record
         /\ Reparented(q).pid = q.pid /\ Reparented(q).state = q.state
         /\ Reparented(q).dir = q.dir /\ Reparented(q).code = q.code
         /\ Reparented(q).ppid = IF InUse(q) /\ q.ppid = table[current_idx].pid THEN 0 ELSE q.ppid
<1>1. CASE q.state # "unused" /\ q.ppid = Me.pid
  <2>1. Reparented(q) = [q EXCEPT !.ppid = 0] /\ InUse(q) /\ q.ppid = table[current_idx].pid
    BY <1>1 DEF Reparented, InUse, Me
  <2>2. 0 \in 0..MaxPid
    BY ProcAssumption
  <2>. QED
    BY <2>1, <2>2 DEF Record
<1>2. CASE ~(q.state # "unused" /\ q.ppid = Me.pid)
  BY <1>2 DEF Reparented, InUse, Me
<1>. QED
  BY <1>1, <1>2

LEMMA ExitIs ==
  ASSUME Tree(table, next_pid, current_idx), current_idx # 0, NEW code \in Codes
  PROVE  Exits(table, AfterExit(code), current_idx) /\ AfterExit(code)[current_idx].code = code
<1>. DEFINE tab2 == AfterExit(code)
            z == [Me EXCEPT !.state = "zombie", !.dir = None, !.code = code]
            k == [table[0] EXCEPT !.state = "running"]
<1>1. /\ table \in [Slots -> Record] /\ current_idx \in Slots /\ 0 \in Slots
      /\ table[current_idx].state = "running"
  BY SlotZero DEF Tree, TableTyped, OneRuns
<1>2. /\ z \in Record /\ z.pid = table[current_idx].pid /\ z.ppid = table[current_idx].ppid
      /\ z.state = "zombie" /\ z.dir = None /\ z.code = code
  <2>1. Me \in Record /\ Me = table[current_idx]
    BY <1>1 DEF Me
  <2>. QED
    BY <2>1 DEF Record
<1>3. /\ k \in Record /\ k.pid = table[0].pid /\ k.ppid = table[0].ppid
      /\ k.state = "running" /\ k.dir = table[0].dir /\ k.code = table[0].code
  <2>1. table[0] \in Record
    BY <1>1
  <2>. QED
    BY <2>1 DEF Record
<1>4. tab2 = [i \in Slots |-> IF i = 0 THEN k ELSE IF i = current_idx THEN Reparented(z)
                              ELSE Reparented(table[i])]
  BY DEF AfterExit
<1>. HIDE DEF z, k, tab2
<1>5. /\ tab2[0] = k /\ tab2[current_idx] = Reparented(z)
      /\ \A j \in Slots \ {0, current_idx} : tab2[j] = Reparented(table[j])
  BY <1>1, <1>4
<1>6. \A j \in Slots : table[j] \in Record
  BY <1>1
<1>7. tab2 \in [Slots -> Record]
  BY <1>2, <1>3, <1>4, <1>6, ReparentedIs
<1>8. \A j \in Slots : tab2[j].pid = table[j].pid
  BY <1>2, <1>3, <1>5, <1>6, ReparentedIs
<1>9. /\ tab2[0].state = "running" /\ tab2[0].dir = table[0].dir
      /\ tab2[0].ppid = table[0].ppid
      /\ tab2[current_idx].state = "zombie" /\ tab2[current_idx].dir = None
  BY <1>2, <1>3, <1>5, ReparentedIs
<1>10. \A j \in Slots \ {0, current_idx} :
         tab2[j].state = table[j].state /\ tab2[j].dir = table[j].dir
  BY <1>5, <1>6, ReparentedIs
<1>11. InUse(z) /\ InUse(table[current_idx])
  BY <1>1, <1>2 DEF InUse
<1>12. \A j \in Slots \ {0} :
         tab2[j].ppid = IF InUse(table[j]) /\ table[j].ppid = table[current_idx].pid
                        THEN 0 ELSE table[j].ppid
  <2>1. tab2[current_idx].ppid = IF table[current_idx].ppid = table[current_idx].pid
                                 THEN 0 ELSE table[current_idx].ppid
    BY <1>2, <1>5, <1>11, ReparentedIs
  <2>2. \A j \in Slots \ {0, current_idx} :
         tab2[j].ppid = IF InUse(table[j]) /\ table[j].ppid = table[current_idx].pid
                        THEN 0 ELSE table[j].ppid
    BY <1>5, <1>6, ReparentedIs
  <2>. QED
    BY <2>1, <2>2, <1>11
<1>14. /\ \A j \in Slots \ {current_idx} : tab2[j].code = table[j].code
       /\ tab2[current_idx].code = code
  BY <1>2, <1>3, <1>5, <1>6, ReparentedIs
<1>13. Exits(table, tab2, current_idx)
  BY <1>7, <1>8, <1>9, <1>10, <1>12, <1>14 DEF Exits
<1>. QED
  BY <1>13, <1>14 DEF tab2

LEMMA ExitTree ==
  ASSUME NEW tab, NEW np, NEW cur, Tree(tab, np, cur), cur # 0, NEW tab2, Exits(tab, tab2, cur)
  PROVE  /\ Tree(tab2, np, 0)
         /\ \A j \in Slots : InUse(tab2[j]) <=> InUse(tab[j])
<1>1. /\ tab \in [Slots -> Record] /\ np \in 1..(MaxPid + 1) /\ cur \in Slots
      /\ 0 \in Slots /\ tab[cur].state = "running" /\ Alive(tab[0])
      /\ tab[0].pid = 0 /\ tab[0].ppid = 0 /\ tab[0].dir = KDir
  BY SlotZero DEF Tree, TableTyped, OneRuns, Rooted
<1>2. \A j \in Slots : InUse(tab2[j]) <=> InUse(tab[j])
  BY <1>1 DEF Exits, InUse, Alive
<1>3. \A j \in Slots \ {cur} : Alive(tab[j]) => Alive(tab2[j])
  BY <1>1 DEF Exits, Alive
<1>4. TableTyped(tab2, np, 0)
  BY <1>1 DEF TableTyped, Exits
<1>5. Rooted(tab2)
  BY <1>1, <1>3 DEF Rooted, Exits
<1>6. PidsGiven(tab2, np)
  BY <1>2 DEF Tree, PidsGiven, Exits
<1>7. ZombiesBare(tab2)
  BY DEF Tree, ZombiesBare, Exits
<1>8. OneRuns(tab2, 0)
  BY DEF Tree, OneRuns, Exits
<1>9. Parented(tab2)
  <2>1. ASSUME NEW j \in Slots, InUse(tab2[j])
        PROVE  \E k \in Slots : Alive(tab2[k]) /\ tab2[k].pid = tab2[j].ppid
    <3>1. InUse(tab[j])
      BY <2>1, <1>2
    <3>2. Alive(tab2[0]) /\ tab2[0].pid = 0
      BY <1>5 DEF Rooted
    <3>3. CASE j = 0 \/ tab[j].ppid = tab[cur].pid
      <4>1. tab2[j].ppid = 0
        BY <3>1, <3>3, <1>1 DEF Exits
      <4>. QED
        BY <4>1, <3>2, <1>1
    <3>4. CASE j # 0 /\ tab[j].ppid # tab[cur].pid
      <4>1. PICK k \in Slots : Alive(tab[k]) /\ tab[k].pid = tab[j].ppid
        BY <3>1 DEF Tree, Parented
      <4>2. k # cur
        BY <4>1, <3>4
      <4>3. tab2[j].ppid = tab[j].ppid /\ tab2[k].pid = tab[k].pid
        BY <3>4 DEF Exits
      <4>. QED
        BY <4>1, <4>2, <4>3, <1>3
    <3>. QED
      BY <3>3, <3>4
  <2>. QED
    BY <2>1 DEF Parented
<1>. QED
  BY <1>2, <1>4, <1>5, <1>6, <1>7, <1>8, <1>9 DEF Tree

LEMMA ExitOwners ==
  ASSUME NEW tab, NEW np, NEW cur, Tree(tab, np, cur), cur # 0, NEW tab2,
         Exits(tab, tab2, cur), NEW Ds, Owners(tab, Ds), tab[cur].dir \in Ds
  PROVE  Owners(tab2, Ds \ {tab[cur].dir})
<1>. DEFINE c == tab[cur].dir
<1>1. /\ cur \in Slots /\ 0 \in Slots /\ InUse(tab[cur])
      /\ \A j \in Slots : InUse(tab2[j]) <=> InUse(tab[j])
      /\ \A j \in Slots \ {cur} : tab2[j].dir = tab[j].dir
      /\ tab2[cur].dir = None
  BY ExitTree, SlotZero DEF Tree, TableTyped, OneRuns, InUse, Exits
<1>2. c \in Frames /\ None \notin Frames
  BY VmmAssumption DEF Owners
<1>. HIDE DEF c
<1>3. Ds \ {c} \subseteq Frames
  BY DEF Owners
<1>4. \A j \in Slots : InUse(tab2[j]) /\ tab2[j].dir \in Frames => j # cur
  BY <1>1, <1>2
<1>5. \A j \in Slots \ {cur} : InUse(tab[j]) => tab[j].dir # c
  BY <1>1, <1>2 DEF Owners, c
<1>6. \A j \in Slots : InUse(tab2[j]) /\ tab2[j].dir \in Frames => tab2[j].dir \in Ds \ {c}
  BY <1>1, <1>4, <1>5 DEF Owners
<1>7. \A d \in Ds \ {c} : \E j \in Slots : InUse(tab2[j]) /\ tab2[j].dir = d
  BY <1>1 DEF Owners, c
<1>8. \A j, k \in Slots :
        InUse(tab2[j]) /\ InUse(tab2[k]) /\ tab2[j].dir = tab2[k].dir /\ tab2[j].dir \in Frames
          => j = k
  BY <1>1, <1>4 DEF Owners
<1>9. Owners(tab2, Ds \ {c})
  BY <1>3, <1>6, <1>7, <1>8 DEF Owners
<1>. QED
  BY <1>9 DEF c

-----------------------------------------------------------------------------
(* The steps of Proc.tla.                                                  *)

(* proc_alloc, called by the kernel.                                       *)
LEMMA AllocKeeps ==
  ASSUME ProcInv, NoProgram(table, current_idx), NEW i, NEW d \in Frames \cup {None},
         d \notin DOMAIN dirs, proc_alloc(i, d)
  PROVE  /\ Tree(table', next_pid', current_idx)
         /\ Childless(table', current_idx)
         /\ Owners(table', DOMAIN dirs \cup ({d} \cap Frames))
         /\ table'[current_idx].dir = table[current_idx].dir
<1>. DEFINE q == NewProc(d)
            tab2 == [table EXCEPT ![i] = q]
<1>0. /\ Tree(table, next_pid, current_idx) /\ Childless(table, current_idx)
      /\ Owners(table, DOMAIN dirs)
  BY DEF ProcInv
<1>1. /\ i \in Slots \ {0} /\ ~InUse(table[i]) /\ next_pid <= MaxPid
      /\ table' = tab2 /\ next_pid' = next_pid + 1
  BY DEF proc_alloc, FreeSlot, Used, InUse
<1>2. Newborn(q, table, next_pid, current_idx, d)
  BY <1>0, <1>1, NewProcIs
<1>3. InUse(q) /\ q.dir = d /\ d # KDir
  BY <1>2, VmmAssumption, NoneAssumption DEF Newborn, InUse
<1>4. /\ table \in [Slots -> Record] /\ current_idx \in Slots
      /\ table[current_idx].state = "running"
  BY <1>0 DEF Tree, TableTyped, OneRuns
<1>5. i # current_idx
  BY <1>1, <1>4 DEF InUse
<1>. HIDE DEF q
<1>6. Tree(tab2, next_pid + 1, current_idx)
  BY <1>0, <1>1, <1>2, BirthTree
<1>7. Owners(tab2, DOMAIN dirs \cup ({d} \cap Frames))
  BY <1>0, <1>1, <1>3, <1>4, BirthOwners
<1>8. tab2[i] = q /\ \A j \in Slots : j # i => tab2[j] = table[j]
  BY <1>1, <1>4
<1>. HIDE DEF tab2
<1>9. Childless(tab2, current_idx)
  <2>1. \A j \in Slots \ {0} : InUse(table[j]) => table[j].dir # KDir
    BY <1>0, NoneInProgram
  <2>. QED
    BY <2>1, <1>3, <1>8 DEF Childless
<1>. QED
  BY <1>1, <1>4, <1>5, <1>6, <1>7, <1>8, <1>9

LEMMA SpawnKeeps ==
  ASSUME ProcInv, Spawn
  PROVE  ProcInv'
<1>0. VmmInv /\ MemInv /\ cr3 = table[current_idx].dir /\ regions = << >>
  BY DEF ProcInv, VmmInv
<1>1. /\ Running /\ NoProgram(table, current_idx)
      /\ UNCHANGED <<cr3, tlb, pend, halted, regions, current_idx>>
  BY DEF Spawn, KernelRuns, InProgram, Me, NoProgram, cpuVars
<1>2. RegInv'
  BY <1>0, <1>1 DEF VmmInv, RegInv
<1>3. PICK i \in Slots : \/ \E d \in Free : vmm_create_dir(d) /\ proc_alloc(i, d)
                         \/ Free = {} /\ proc_alloc(i, None) /\ UNCHANGED frameVars
  BY DEF Spawn
<1>4. CASE \E d \in Free : vmm_create_dir(d) /\ proc_alloc(i, d)
  <2>1. PICK d \in Free : vmm_create_dir(d) /\ proc_alloc(i, d)
    BY <1>4
  <2>2. /\ MemInv' /\ DOMAIN dirs' = DOMAIN dirs \cup {d}
        /\ Effect(View(dirs, tabs), ref, View(dirs', tabs'), ref', {})
    BY <1>0, <2>1, CreateMem
  <2>3. VmmInv'
    BY <1>0, <1>1, <1>2, <2>2, AsideKeeps
  <2>4. d \in Frames /\ d \notin DOMAIN dirs
    BY <1>0, <2>1, FreeIs
  <2>5. /\ Tree(table', next_pid', current_idx)
        /\ Childless(table', current_idx)
        /\ Owners(table', DOMAIN dirs \cup ({d} \cap Frames))
        /\ table'[current_idx].dir = table[current_idx].dir
    BY <1>1, <2>1, <2>4, AllocKeeps
  <2>6. DOMAIN dirs' = DOMAIN dirs \cup ({d} \cap Frames)
    BY <2>2, <2>4
  <2>. QED
    BY <1>0, <1>1, <2>3, <2>5, <2>6 DEF ProcInv
<1>5. CASE Free = {} /\ proc_alloc(i, None) /\ UNCHANGED frameVars
  <2>1. UNCHANGED <<ref, dirs, tabs, lost>>
    BY <1>5 DEF frameVars
  <2>2. tlb' \in [Pages -> Entries \cup {None}]
    BY <1>0, <1>1 DEF VmmInv, CpuInv, TlbOK
  <2>3. VmmInv'
    BY <1>0, <1>1, <2>1, <2>2, EvictKeeps
  <2>4. None \notin DOMAIN dirs
    BY <1>0, MemView, VmmAssumption DEF MemInv, Typed
  <2>5. /\ Tree(table', next_pid', current_idx)
        /\ Childless(table', current_idx)
        /\ Owners(table', DOMAIN dirs \cup ({None} \cap Frames))
        /\ table'[current_idx].dir = table[current_idx].dir
    BY <1>1, <1>5, <2>4, AllocKeeps
  <2>6. DOMAIN dirs' = DOMAIN dirs \cup ({None} \cap Frames)
    BY <2>1, VmmAssumption
  <2>. QED
    BY <1>0, <1>1, <2>3, <2>5, <2>6 DEF ProcInv
<1>. QED
  BY <1>3, <1>4, <1>5

LEMMA ForkKeeps ==
  ASSUME ProcInv, proc_fork
  PROVE  ProcInv'
<1>0. /\ VmmInv /\ MemInv /\ cr3 = table[current_idx].dir /\ regions = << >>
      /\ cr3 \in Space /\ Me.dir = cr3
      /\ Tree(table, next_pid, current_idx) /\ Childless(table, current_idx)
      /\ Owners(table, DOMAIN dirs)
  BY DEF ProcInv, VmmInv, CpuInv, Space, Me
<1>1. /\ Running /\ NoProgram(table, current_idx)
      /\ UNCHANGED <<pend, halted, regions, current_idx>>
  BY DEF proc_fork, KernelRuns, InProgram, Me, NoProgram
<1>2. RegInv'
  BY <1>0, <1>1 DEF VmmInv, RegInv
<1>3. ASSUME NEW i \in Slots, ForkChild(i) PROVE ProcInv'
  <2>1. PICK d \in Free : vmm_clone_cow(cr3, d) /\ proc_alloc(i, d) /\ vmm_switch(cr3)
    BY <1>0, <1>3 DEF ForkChild
  <2>5. d \in Frames /\ d \notin DOMAIN dirs
    BY <1>0, <2>1, FreeIs
  <2>6. /\ Tree(table', next_pid', current_idx)
        /\ Childless(table', current_idx)
        /\ Owners(table', DOMAIN dirs \cup ({d} \cap Frames))
        /\ table'[current_idx].dir = table[current_idx].dir
    BY <1>1, <2>1, <2>5, AllocKeeps
  <2>0. Cardinality(DOMAIN dirs \cup {d}) <= RefMax
    <3>1. Owners(table', DOMAIN dirs \cup {d})
      <4>1. {d} \cap Frames = {d}
        BY <2>5
      <4>. QED
        BY <4>1, <2>6
    <3>. QED
      BY <3>1, FewSpaces
  <2>2. MemInv' /\ DOMAIN dirs' = DOMAIN dirs \cup {d}
    BY <1>0, <2>0, <2>1, CloneCowMem
  <2>3. cr3 \in DOMAIN dirs' \cup {KDir}
    BY <1>0, <2>2 DEF Space
  <2>4. VmmInv'
    BY <1>0, <1>1, <1>2, <2>1, <2>2, <2>3, SwitchedCallKeeps
  <2>7. DOMAIN dirs' = DOMAIN dirs \cup ({d} \cap Frames)
    BY <2>2, <2>5
  <2>8. cr3' = cr3
    BY <2>1 DEF vmm_switch
  <2>. QED
    BY <1>0, <1>1, <2>4, <2>6, <2>7, <2>8 DEF ProcInv
<1>4. ASSUME NEW i \in Slots, ForkNoMemory(i) PROVE ProcInv'
  <2>. DEFINE q == [NewProc(None) EXCEPT !.state = "unused"]
  <2>1. /\ i \in Slots \ {0} /\ ~InUse(table[i]) /\ next_pid <= MaxPid
        /\ vmm_clone_cow_fails(cr3) /\ table' = [table EXCEPT ![i] = q]
        /\ next_pid' = next_pid + 1 /\ cr3' = cr3 /\ tlb' = tlb
    BY <1>0, <1>4 DEF ForkNoMemory, FreeSlot, Used, InUse
  <2>2. /\ MemInv' /\ dirs' = dirs
        /\ Effect(View(dirs, tabs), ref, View(dirs', tabs'), ref', {})
    BY <1>0, <2>1, CloneCowFailsMem
  <2>3. VmmInv'
    BY <1>0, <1>1, <1>2, <2>1, <2>2, AsideKeeps
  <2>4. NewProc(None) \in Record
    BY <1>0, <2>1, NewProcIs DEF Newborn
  <2>5. q \in Record /\ ~InUse(q)
    BY <2>4 DEF Record, InUse
  <2>6. /\ table \in [Slots -> Record] /\ current_idx \in Slots
        /\ table[current_idx].state = "running" /\ next_pid \in 1..(MaxPid + 1)
        /\ MaxPid \in Nat
    BY <1>0, ProcAssumption DEF Tree, TableTyped, OneRuns
  <2>7. i # current_idx /\ ~Strands(table, i)
    BY <2>1, <2>6 DEF InUse, Strands, Alive
  <2>. HIDE DEF q
  <2>8. Tree(table', next_pid', current_idx)
    <3>1. next_pid + 1 \in {next_pid, next_pid + 1} /\ next_pid + 1 <= MaxPid + 1
      BY <2>1, <2>6
    <3>2. Tree([table EXCEPT ![i] = q], next_pid + 1, current_idx)
      BY <1>0, <2>1, <2>5, <2>7, <3>1, DropTree
    <3>. QED
      BY <3>2, <2>1
  <2>9. Owners(table', DOMAIN dirs)
    BY <1>0, <2>1, <2>5, <2>6, DropOwners
  <2>10. table'[i] = q /\ \A j \in Slots : j # i => table'[j] = table[j]
    BY <2>1, <2>6
  <2>11. Childless(table', current_idx)
    BY <1>0, <2>5, <2>10 DEF Childless
  <2>12. table'[current_idx] = table[current_idx]
    BY <2>6, <2>7, <2>10
  <2>. QED
    BY <1>0, <1>1, <2>1, <2>2, <2>3, <2>8, <2>9, <2>11, <2>12 DEF ProcInv
<1>5. CASE ForkTableFull
  <2>1. UNCHANGED <<ref, dirs, tabs, lost, cr3, tlb, table, next_pid>>
    BY <1>5 DEF ForkTableFull, frameVars
  <2>2. tlb' \in [Pages -> Entries \cup {None}]
    BY <1>0, <2>1 DEF VmmInv, CpuInv, TlbOK
  <2>3. VmmInv'
    BY <1>0, <1>1, <2>1, <2>2, EvictKeeps
  <2>. QED
    BY <1>0, <1>1, <2>1, <2>3 DEF ProcInv
<1>. QED
  BY <1>3, <1>4, <1>5 DEF proc_fork

LEMMA ExitKeeps ==
  ASSUME ProcInv, NEW code \in Codes, proc_exit(code)
  PROVE  ProcInv'
<1>0. /\ VmmInv /\ MemInv /\ CpuInv /\ cr3 = table[current_idx].dir /\ regions = << >>
      /\ Tree(table, next_pid, current_idx) /\ Childless(table, current_idx)
      /\ Owners(table, DOMAIN dirs)
  BY DEF ProcInv, VmmInv
<1>1. /\ Running /\ NoProgram(table, current_idx) /\ table[current_idx].pid # 0
      /\ vmm_switch(KDir) /\ vmm_destroy_dir(table[current_idx].dir)
      /\ table' = AfterExit(code) /\ current_idx' = 0
      /\ UNCHANGED <<pend, halted, regions, next_pid>>
  BY DEF proc_exit, StepOff, KernelRuns, InProgram, Me, NoProgram
<1>2. current_idx # 0
  BY <1>0, <1>1 DEF Tree, Rooted
<1>3. table[current_idx].dir \in DOMAIN dirs
  BY <1>0, <1>1, <1>2 DEF CpuInv, NoProgram
<1>4. RegInv'
  BY <1>0, <1>1 DEF VmmInv, RegInv
<1>5. MemInv' /\ DOMAIN dirs' = DOMAIN dirs \ {table[current_idx].dir}
  BY <1>0, <1>1, <1>3, DestroyMem
<1>6. VmmInv'
  BY <1>0, <1>1, <1>4, <1>5, SwitchedCallKeeps
<1>7. Exits(table, table', current_idx)
  BY <1>0, <1>1, <1>2, ExitIs
<1>8. /\ Tree(table', next_pid, 0)
      /\ \A j \in Slots : InUse(table'[j]) <=> InUse(table[j])
  BY <1>0, <1>2, <1>7, ExitTree
<1>9. Owners(table', DOMAIN dirs \ {table[current_idx].dir})
  BY <1>0, <1>2, <1>3, <1>7, ExitOwners
<1>10. Childless(table', 0)
  <2>1. \A j \in Slots \ {0} : InUse(table[j]) => table[j].dir # KDir
    BY <1>0, <1>1, NoneInProgram
  <2>2. \A j \in Slots \ {0} : InUse(table'[j]) => table'[j].dir # KDir
    BY <2>1, <1>7, <1>8, NoneAssumption DEF Exits
  <2>. QED
    BY <2>2 DEF Childless
<1>11. cr3' = table'[0].dir
  BY <1>1, <1>8 DEF vmm_switch, Tree, Rooted
<1>. QED
  BY <1>0, <1>1, <1>5, <1>6, <1>8, <1>9, <1>10, <1>11 DEF ProcInv

LEMMA WaitKeeps ==
  ASSUME ProcInv, proc_wait
  PROVE  ProcInv'
<1>0. /\ VmmInv /\ cr3 = table[current_idx].dir /\ regions = << >>
      /\ Tree(table, next_pid, current_idx) /\ Childless(table, current_idx)
      /\ Owners(table, DOMAIN dirs)
  BY DEF ProcInv
<1>1. PICK i \in Slots \ {0} : /\ table[i].state = "zombie"
                               /\ table' = [table EXCEPT ![i] = Unused]
  BY DEF proc_wait, ZombieChild
<1>2. UNCHANGED <<ref, dirs, tabs, lost, cr3, tlb, regions, pend, halted, next_pid, current_idx>>
  BY DEF proc_wait, vars
<1>3. tlb' \in [Pages -> Entries \cup {None}]
  BY <1>0, <1>2 DEF VmmInv, CpuInv, TlbOK
<1>4. VmmInv'
  BY <1>0, <1>2, <1>3, EvictKeeps
<1>5. /\ table \in [Slots -> Record] /\ current_idx \in Slots
      /\ table[current_idx].state = "running" /\ next_pid \in 1..(MaxPid + 1)
      /\ MaxPid \in Nat /\ table[i].dir = None
  BY <1>0, <1>1, ProcAssumption DEF Tree, TableTyped, OneRuns, ZombiesBare
<1>6. i # current_idx /\ ~Strands(table, i) /\ next_pid <= MaxPid + 1
  BY <1>1, <1>5 DEF Strands, Alive
<1>7. Tree([table EXCEPT ![i] = Unused], next_pid, current_idx)
  BY <1>0, <1>6, UnusedIs, DropTree
<1>8. Owners([table EXCEPT ![i] = Unused], DOMAIN dirs)
  BY <1>0, <1>5, VmmAssumption, UnusedIs, DropOwners
<1>9. table'[i] = Unused /\ \A j \in Slots : j # i => table'[j] = table[j]
  BY <1>1, <1>5
<1>10. Childless(table', current_idx)
  BY <1>0, <1>9, UnusedIs DEF Childless
<1>11. table'[current_idx] = table[current_idx]
  BY <1>5, <1>6, <1>9
<1>. QED
  BY <1>0, <1>1, <1>2, <1>4, <1>7, <1>8, <1>10, <1>11 DEF ProcInv

LEMMA SwitchToKeeps ==
  ASSUME ProcInv, NEW i \in Slots, proc_switch_to(i)
  PROVE  ProcInv'
<1>0. /\ VmmInv /\ MemInv /\ cr3 = table[current_idx].dir /\ regions = << >>
      /\ Tree(table, next_pid, current_idx) /\ Childless(table, current_idx)
      /\ Owners(table, DOMAIN dirs) /\ table \in [Slots -> Record]
  BY DEF ProcInv, VmmInv, Tree, TableTyped
<1>1. /\ Running /\ NoProgram(table, current_idx)
      /\ InUse(table[i]) /\ table[i].state # "zombie" /\ table[i].dir # None
      /\ current_idx' = i /\ table' = Dispatch(table, i) /\ vmm_switch(table[i].dir)
      /\ UNCHANGED <<ref, dirs, tabs, lost, regions, pend, halted, next_pid>>
  BY DEF proc_switch_to, KernelRuns, InProgram, Me, NoProgram, Switchable, Used, InUse,
         frameVars
<1>2. RegInv' /\ MemInv'
  BY <1>0, <1>1 DEF VmmInv, RegInv, MemInv
<1>3. table[i] \in Record
  BY <1>0
<1>4. Alive(table[i]) /\ table[i].dir \in DOMAIN dirs \cup {KDir}
  BY <1>0, <1>1, <1>3 DEF Record, Alive, InUse, Owners
<1>5. VmmInv'
  BY <1>0, <1>1, <1>2, <1>4, SwitchedCallKeeps
<1>6. Runs(table, table', current_idx, i)
  BY <1>0, <1>1, DispatchIs
<1>7. /\ Tree(table', next_pid, i)
      /\ \A j \in Slots : InUse(table'[j]) <=> InUse(table[j])
  BY <1>0, <1>4, <1>6, RunsTree
<1>8. \A j \in Slots : table'[j].dir = table[j].dir
  BY <1>6 DEF Runs
<1>9. Owners(table', DOMAIN dirs)
  BY <1>0, <1>7, <1>8, RunsOwners
<1>10. Childless(table', i)
  <2>1. \A j \in Slots \ {0} : InUse(table[j]) => table[j].dir # KDir
    BY <1>0, <1>1, NoneInProgram
  <2>. QED
    BY <2>1, <1>7, <1>8 DEF Childless
<1>11. cr3' = table'[i].dir
  BY <1>1, <1>8 DEF vmm_switch
<1>. QED
  BY <1>0, <1>1, <1>5, <1>7, <1>9, <1>10, <1>11 DEF ProcInv

LEMMA BeginKeeps ==
  ASSUME ProcInv, proc_begin_user
  PROVE  ProcInv'
<1>0. /\ VmmInv /\ MemInv /\ regions = << >>
      /\ Tree(table, next_pid, current_idx) /\ Childless(table, current_idx)
      /\ Owners(table, DOMAIN dirs) /\ table \in [Slots -> Record]
  BY DEF ProcInv, VmmInv, Tree, TableTyped
<1>1. /\ Running /\ NoProgram(table, current_idx) /\ current_idx = 0 /\ next_pid <= MaxPid
      /\ next_pid' = next_pid + 1 /\ vmm_switch(KDir)
      /\ UNCHANGED <<ref, dirs, tabs, lost, regions, pend, halted>>
  BY DEF proc_begin_user, KernelRuns, InProgram, Me, NoProgram, frameVars
<1>. DEFINE q == NewProc(KDir)
<1>2. PICK i \in Slots : /\ FreeSlot(i)
                         /\ table' = Dispatch([table EXCEPT ![i] = q], i)
                         /\ current_idx' = i
  BY DEF proc_begin_user
<1>. DEFINE tab1 == [table EXCEPT ![i] = q]
<1>3. i \in Slots \ {0} /\ ~InUse(table[i])
  BY <1>2 DEF FreeSlot, Used, InUse
<1>4. Newborn(q, table, next_pid, current_idx, KDir)
  BY <1>0, <1>1, NewProcIs
<1>5. /\ InUse(q) /\ Alive(q) /\ q.dir = KDir /\ KDir \notin DOMAIN dirs /\ KDir \notin Frames
      /\ q.pid = next_pid /\ q.ppid = table[current_idx].pid /\ q \in Record
  BY <1>0, <1>4, MemView, VmmAssumption DEF Newborn, InUse, Alive, MemInv, Typed
<1>. HIDE DEF q
<1>6. Tree(tab1, next_pid + 1, current_idx)
  BY <1>0, <1>1, <1>3, <1>4, BirthTree
<1>7. Owners(tab1, DOMAIN dirs)
  <2>1. DOMAIN dirs = DOMAIN dirs \cup ({q.dir} \cap Frames)
    BY <1>5
  <2>. QED
    BY <2>1, <1>0, <1>3, <1>5, BirthOwners
<1>8. tab1 \in [Slots -> Record] /\ tab1[i] = q /\ \A j \in Slots : j # i => tab1[j] = table[j]
  BY <1>0, <1>3, <1>5
<1>9. table' = Dispatch(tab1, i)
  BY <1>2
<1>. HIDE DEF tab1
<1>10. Runs(tab1, table', current_idx, i)
  BY <1>8, <1>9, DispatchIs
<1>11. /\ Tree(table', next_pid + 1, i)
       /\ \A j \in Slots : InUse(table'[j]) <=> InUse(tab1[j])
  BY <1>5, <1>6, <1>8, <1>10, RunsTree
<1>12. \A j \in Slots : /\ table'[j].dir = tab1[j].dir /\ table'[j].pid = tab1[j].pid
                        /\ table'[j].ppid = tab1[j].ppid
  BY <1>10 DEF Runs
<1>13. Owners(table', DOMAIN dirs)
  BY <1>7, <1>11, <1>12, RunsOwners
<1>14. Childless(table', i)
  <2>1. \A j \in Slots \ {0} : InUse(table[j]) => table[j].dir # KDir
    BY <1>0, <1>1, NoneInProgram
  <2>2. \A j \in Slots : InUse(table[j]) => table[j].ppid < next_pid /\ table[j].pid < next_pid
    BY <1>0, ParentsGiven DEF Tree, PidsGiven
  <2>3. InUse(table[current_idx]) /\ current_idx \in Slots /\ next_pid \in Nat
    BY <1>0, ProcAssumption DEF Tree, OneRuns, TableTyped, InUse
  <2>4. \A j \in Slots : table[j].ppid \in Nat /\ table[j].pid \in Nat
    BY <1>0 DEF Record
  <2>5. \A j \in Slots : InUse(tab1[j]) => tab1[j].ppid # next_pid
    BY <2>2, <2>3, <2>4, <1>5, <1>8
  <2>6. \A j \in Slots \ {0} : InUse(tab1[j]) /\ tab1[j].dir = KDir => j = i
    BY <2>1, <1>8
  <2>. QED
    BY <2>5, <2>6, <1>5, <1>8, <1>11, <1>12 DEF Childless
<1>15. cr3' = table'[i].dir
  BY <1>1, <1>5, <1>8, <1>12 DEF vmm_switch
<1>16. RegInv' /\ MemInv'
  BY <1>0, <1>1 DEF VmmInv, RegInv, MemInv
<1>17. VmmInv'
  BY <1>0, <1>1, <1>16, SwitchedCallKeeps
<1>. QED
  BY <1>0, <1>1, <1>2, <1>11, <1>13, <1>14, <1>15, <1>17 DEF ProcInv

LEMMA EndKeeps ==
  ASSUME ProcInv, proc_end_user
  PROVE  ProcInv'
<1>. DEFINE c == current_idx
            tab1 == Dispatch(table, 0)
<1>0. /\ VmmInv /\ MemInv /\ regions = << >>
      /\ Tree(table, next_pid, c) /\ Childless(table, c)
      /\ Owners(table, DOMAIN dirs) /\ table \in [Slots -> Record]
      /\ c \in Slots /\ 0 \in Slots /\ Alive(table[0]) /\ table[c].state = "running"
      /\ next_pid <= MaxPid + 1
  BY SlotZero, ProcAssumption DEF ProcInv, VmmInv, Tree, TableTyped, Rooted, OneRuns
<1>1. /\ Running /\ c # 0 /\ table[c].dir = KDir
      /\ table' = [tab1 EXCEPT ![c] = Unused] /\ current_idx' = 0 /\ vmm_switch(KDir)
      /\ UNCHANGED <<ref, dirs, tabs, lost, regions, pend, halted, next_pid>>
  BY DEF proc_end_user, InProgram, Me, frameVars
<1>2. RegInv' /\ MemInv'
  BY <1>0, <1>1 DEF VmmInv, RegInv, MemInv
<1>3. VmmInv'
  BY <1>0, <1>1, <1>2, SwitchedCallKeeps
<1>4. Runs(table, tab1, c, 0)
  BY <1>0, DispatchIs
<1>. HIDE DEF tab1, c
<1>5. /\ Tree(tab1, next_pid, 0)
      /\ \A j \in Slots : InUse(tab1[j]) <=> InUse(table[j])
  BY <1>0, <1>4, RunsTree
<1>6. /\ tab1 \in [Slots -> Record]
      /\ \A j \in Slots : /\ tab1[j].dir = table[j].dir /\ tab1[j].pid = table[j].pid
                          /\ tab1[j].ppid = table[j].ppid
  BY <1>4 DEF Runs
<1>7. Owners(tab1, DOMAIN dirs)
  BY <1>0, <1>5, <1>6, RunsOwners
<1>8. InUse(table[c])
  BY <1>0 DEF InUse
<1>9. ~Strands(tab1, c)
  <2>1. \A j \in Slots : InUse(table[j]) => table[j].ppid # table[c].pid
    BY <1>0, <1>1, <1>8 DEF Childless
  <2>. QED
    BY <2>1, <1>0, <1>5, <1>6 DEF Strands
<1>10. Tree([tab1 EXCEPT ![c] = Unused], next_pid, 0)
  <2>1. c \in Slots \ {0} /\ Unused \in Record /\ ~InUse(Unused)
    BY <1>0, <1>1, UnusedIs
  <2>. QED
    BY <2>1, <1>0, <1>1, <1>5, <1>9, DropTree
<1>11. Owners([tab1 EXCEPT ![c] = Unused], DOMAIN dirs)
  <2>1. tab1[c].dir \notin Frames
    BY <1>0, <1>1, <1>6, VmmAssumption
  <2>. QED
    BY <2>1, <1>0, <1>6, <1>7, UnusedIs, DropOwners
<1>12. table'[c] = Unused /\ \A j \in Slots : j # c => table'[j] = tab1[j]
  BY <1>0, <1>1, <1>6
<1>13. Childless(table', 0)
  <2>1. \A j \in Slots \ {0} : InUse(table'[j]) => table'[j].dir # KDir
    BY <1>0, <1>5, <1>6, <1>12, UnusedIs DEF Childless
  <2>. QED
    BY <2>1 DEF Childless
<1>14. Tree(table', next_pid, 0) /\ Owners(table', DOMAIN dirs)
  BY <1>1, <1>10, <1>11
<1>15. cr3' = table'[0].dir
  BY <1>1, <1>14 DEF vmm_switch, Tree, Rooted
<1>. QED
  BY <1>0, <1>1, <1>3, <1>13, <1>14, <1>15 DEF ProcInv

(* A step of the memory alone: the spaces stay the same.                   *)
LEMMA MemoryStepKeeps ==
  ASSUME ProcInv, VmmInv', DOMAIN dirs' = DOMAIN dirs, cr3' = cr3, regions' = regions,
         UNCHANGED procVars
  PROVE  ProcInv'
<1>1. table' = table /\ next_pid' = next_pid /\ current_idx' = current_idx
  BY DEF procVars
<1>. QED
  BY <1>1 DEF ProcInv

LEMMA ProcInitial == ProcInit => ProcInv
<1>. SUFFICES ASSUME ProcInit PROVE ProcInv
  OBVIOUS
<1>1. /\ Init /\ table = [i \in Slots |-> IF i = 0 THEN Kernel ELSE Unused]
      /\ next_pid = 1 /\ current_idx = 0 /\ 0 \in Slots
  BY SlotZero DEF ProcInit
<1>2. VmmInv
  BY <1>1, VmmInit
<1>3. DOMAIN dirs = {} /\ regions = << >> /\ cr3 = KDir
  BY <1>1 DEF Init
<1>4. Kernel = [Unused EXCEPT !.state = "running", !.dir = KDir]
  BY DEF Kernel
<1>5. /\ Unused \in Record /\ Unused.state = "unused"
      /\ Unused.pid = 0 /\ Unused.ppid = 0
  BY UnusedIs DEF Unused
<1>6. /\ Kernel \in Record /\ Kernel.state = "running" /\ Kernel.dir = KDir
      /\ Kernel.pid = 0 /\ Kernel.ppid = 0
  BY <1>4, <1>5 DEF Record
<1>7. /\ table \in [Slots -> Record] /\ table[0] = Kernel
      /\ \A i \in Slots : i # 0 => table[i].state = "unused"
  BY <1>1, <1>5, <1>6
<1>8. InUse(table[0]) /\ Alive(table[0]) /\ \A i \in Slots : InUse(table[i]) => i = 0
  BY <1>6, <1>7 DEF InUse, Alive
<1>9. TableTyped(table, next_pid, current_idx)
  BY <1>1, <1>7, ProcAssumption DEF TableTyped
<1>10. Rooted(table)
  BY <1>6, <1>7, <1>8 DEF Rooted
<1>11. PidsGiven(table, next_pid)
  BY <1>1, <1>6, <1>7, <1>8 DEF PidsGiven
<1>12. ZombiesBare(table) /\ OneRuns(table, current_idx)
  BY <1>1, <1>6, <1>7 DEF ZombiesBare, OneRuns
<1>13. Parented(table)
  BY <1>1, <1>6, <1>7, <1>8 DEF Parented
<1>14. Childless(table, current_idx)
  BY <1>8 DEF Childless
<1>15. Owners(table, DOMAIN dirs)
  BY <1>3, <1>6, <1>7, <1>8, VmmAssumption DEF Owners
<1>. QED
  BY <1>1, <1>2, <1>3, <1>6, <1>7, <1>9, <1>10, <1>11, <1>12, <1>13, <1>14, <1>15
     DEF ProcInv, Tree

LEMMA ProcStep ==
  ASSUME ProcInv, [ProcNext]_allVars
  PROVE  ProcInv'
<1>0. VmmInv
  BY DEF ProcInv
<1>1. ASSUME NEW i \in Slots, NEW p \in Pages, MapPage(i, p) PROVE ProcInv'
  <2>1. /\ Running /\ table[i].dir \in DOMAIN dirs /\ Entry(table[i].dir, p) = None
        /\ vmm_map_alloc(table[i].dir, p, TRUE) \/ vmm_map_alloc_fails(table[i].dir, p)
        /\ UNCHANGED <<cr3, regions, pend, halted>> /\ UNCHANGED procVars
    BY <1>1 DEF MapPage, KernelRuns
  <2>2. VmmInv' /\ DOMAIN dirs' = DOMAIN dirs
    BY <1>0, <2>1, MapCallKeeps
  <2>. QED
    BY <2>1, <2>2, MemoryStepKeeps
<1>2. CASE Touch
  <2>1. ((\E op \in Accesses : Issue(op)) \/ Rerun) /\ UNCHANGED procVars
    BY <1>2 DEF Touch
  <2>2. VmmInv' /\ DOMAIN dirs' = DOMAIN dirs /\ cr3' = cr3 /\ regions' = regions
    BY <1>0, <2>1, TouchKeeps
  <2>. QED
    BY <2>1, <2>2, MemoryStepKeeps
<1>3. CASE ((\E p \in Pages : Evict(p)) \/ Halt) /\ UNCHANGED procVars
  <2>1. VmmInv' /\ UNCHANGED <<dirs, cr3, regions>>
    BY <1>0, <1>3, IdleKeeps
  <2>. QED
    BY <1>3, <2>1, MemoryStepKeeps
<1>4. CASE UNCHANGED allVars
  <2>1. UNCHANGED <<ref, dirs, tabs, lost, cr3, tlb, regions, pend, halted>> /\ UNCHANGED procVars
    BY <1>4 DEF allVars, vars
  <2>2. tlb' \in [Pages -> Entries \cup {None}]
    BY <1>0, <2>1 DEF VmmInv, CpuInv, TlbOK
  <2>3. VmmInv'
    BY <1>0, <2>1, <2>2, EvictKeeps
  <2>. QED
    BY <2>1, <2>3, MemoryStepKeeps
<1>. QED
  BY <1>1, <1>2, <1>3, <1>4, SpawnKeeps, ForkKeeps, ExitKeeps, WaitKeeps, SwitchToKeeps,
     BeginKeeps, EndKeeps DEF ProcNext

-----------------------------------------------------------------------------
(* What the invariant says of the processes.                               *)

(* Without directories there are no tables, and every count is 0.          *)
LEMMA NoSpaceNoUse ==
  ASSUME MemInv, DOMAIN dirs = {}, lost = {}
  PROVE  Free = Frames
<1>. DEFINE A == View(dirs, tabs)
<1>1. /\ DOMAIN A = {} /\ Placed(dirs, tabs)
      /\ CountsMatch(A, DOMAIN dirs \cup DOMAIN tabs \cup lost, ref)
  BY MemView DEF MemInv, Mem, Shape, Counted, Uses
<1>. HIDE DEF A
<1>2. DOMAIN tabs = {}
  BY <1>1 DEF Placed
<1>3. ASSUME NEW f \in Frames PROVE ref[f] = 0
  <2>1. MapsOf(A, f) = {}
    BY <1>1 DEF MapsOf
  <2>2. Cardinality(MapsOf(A, f)) = 0
    BY <2>1, FS_EmptySet
  <2>. QED
    BY <2>2, <1>1, <1>2 DEF CountsMatch
<1>. QED
  BY <1>3 DEF Free

LEMMA ProcSafe ==
  ASSUME ProcInv
  PROVE  CpuOwner /\ ParentLive /\ SpacesOwned /\ AllReturned
<1>0. /\ MemInv /\ CpuInv /\ cr3 = table[current_idx].dir
      /\ Tree(table, next_pid, current_idx) /\ Owners(table, DOMAIN dirs)
      /\ 0 \in Slots
  BY SlotZero DEF ProcInv, VmmInv
<1>1. CpuOwner
  BY <1>0 DEF CpuOwner, Tree, OneRuns, Me, CpuInv, Space
<1>2. ParentLive
  BY <1>0 DEF ParentLive, Tree, Parented, Used, InUse, Alive
<1>3. SpacesOwned
  <2>1. \A i \in Slots : Used(i) /\ table[i].dir \in Frames =>
          table[i].dir \in DOMAIN dirs /\ table[i].state # "zombie"
    BY <1>0, VmmAssumption DEF Owners, Tree, ZombiesBare, Used, InUse
  <2>2. ASSUME NEW d \in DOMAIN dirs
        PROVE  \E i \in Slots : /\ Used(i)
                                /\ table[i].dir = d
                                /\ \A j \in Slots : Used(j) /\ table[j].dir = d => i = j
    <3>1. PICK i \in Slots : InUse(table[i]) /\ table[i].dir = d
      BY <1>0 DEF Owners
    <3>2. d \in Frames
      BY <1>0 DEF Owners
    <3>3. \A j \in Slots : InUse(table[j]) /\ table[j].dir = d => i = j
      BY <1>0, <3>1, <3>2 DEF Owners
    <3>. QED
      BY <3>1, <3>3 DEF Used, InUse
  <2>. QED
    BY <2>1, <2>2 DEF SpacesOwned
<1>4. ASSUME \A i \in Slots \ {0} : ~Used(i), lost = {} PROVE Free = Frames
  <2>1. ASSUME NEW d \in DOMAIN dirs PROVE FALSE
    <3>1. PICK i \in Slots : InUse(table[i]) /\ table[i].dir = d
      BY <1>0 DEF Owners
    <3>2. i = 0
      BY <3>1, <1>4 DEF Used, InUse
    <3>3. d = KDir /\ d \in Frames
      BY <3>1, <3>2, <1>0 DEF Tree, Rooted, Owners
    <3>. QED
      BY <3>3, VmmAssumption
  <2>2. DOMAIN dirs = {}
    BY <2>1
  <2>. QED
    BY <2>2, <1>0, <1>4, NoSpaceNoUse
<1>5. AllReturned
  BY <1>4 DEF AllReturned
<1>. QED
  BY <1>1, <1>2, <1>3, <1>5

(* The invariant of the memory, of the process tree and of who owns which  *)
(* space holds of every behaviour of Proc.tla, in whatever order the shell *)
(* forks, maps, switches, execs, exits and waits.                          *)
THEOREM ProcInvariant == ProcSpec => []ProcInv
<1>1. ProcInit => ProcInv
  BY ProcInitial
<1>2. ProcInv /\ [ProcNext]_allVars => ProcInv'
  BY ProcStep
<1>. QED
  BY <1>1, <1>2, PTL DEF ProcSpec

(* One process runs, in its own space, and that space exists:              *)
(* proc_switch_to, proc_exit and proc_end_user load CR3 before anything is *)
(* destroyed (proc.c:168-177).                                             *)
THEOREM CpuOwned == ProcSpec => []CpuOwner
BY ProcInvariant, ProcSafe, PTL

(* proc_exit reparents the children of a process to process 0, so nobody   *)
(* is left in the table without a parent to reap it (proc.c:187-188).      *)
THEOREM ParentsLive == ProcSpec => []ParentLive
BY ProcInvariant, ProcSafe, PTL

(* Every address space has one owner in the table, and no zombie has one   *)
(* (proc.c:179).                                                           *)
THEOREM OneOwner == ProcSpec => []SpacesOwned
BY ProcInvariant, ProcSafe, PTL

(* When every process is reaped all frames are free again, which is what   *)
(* the fork and cow commands show (shell.c:286-287, 346-348).              *)
THEOREM EverythingReturned == ProcSpec => []AllReturned
BY ProcInvariant, ProcSafe, PTL

(* The processes' memory has every property proved of Spec above: the      *)
(* process table only makes calls of vmm.c that are safe.                  *)
THEOREM ProcMemorySafe ==
  ProcSpec => [](RefExact /\ WriteExclusive /\ TlbCoherent /\ FaultResolved /\ HaltJustified)
<1>1. ProcInv => RefExact /\ WriteExclusive /\ TlbCoherent /\ FaultResolved /\ HaltJustified
  BY VmmSafe DEF ProcInv
<1>. QED
  BY <1>1, ProcInvariant, PTL

-----------------------------------------------------------------------------
(* What the spaces hold: the promise of AddressSpaces.                     *)

(* What an entry shows of the frames' contents X, and what all spaces do.  *)
Sight(e, X) == IF e = None THEN [mapped |-> FALSE]
               ELSE [mapped |-> TRUE, val |-> X[e.frame], writable |-> e.rw \/ e.cow]

Contents(A, Ds, X) == [d \in Ds |-> [p \in Pages |-> Sight(A[<<d, p>>], X)]]

(* Every frame that is mapped has contents.                                *)
Backed(A, X) == \A x \in DOMAIN A : A[x] # None => A[x].frame \in DOMAIN X

(* X2 holds for e what X does.                                             *)
HoldsSame(e, X, X2) == e # None => X2[e.frame] = X[e.frame]

LEMMA SightSame ==
  ASSUME NEW e, NEW e2, NEW X, NEW X2, Alike(e, e2), HoldsSame(e, X, X2)
  PROVE  Sight(e2, X2) = Sight(e, X)
<1>1. CASE e = None
  BY <1>1 DEF Alike, Sight
<1>2. CASE e # None
  <2>1. /\ e2 # None /\ X2[e2.frame] = X[e.frame]
        /\ (e2.rw \/ e2.cow) = (e.rw \/ e.cow)
    BY <1>2 DEF Alike, HoldsSame
  <2>. QED
    BY <1>2, <2>1 DEF Sight
<1>. QED
  BY <1>1, <1>2

LEMMA AlikeItself == \A e : Alike(e, e)
BY DEF Alike

LEMMA PlaceOf ==
  ASSUME NEW A, NEW Ds, IsView(A, Ds)
  PROVE  /\ DOMAIN A = Ds \X Pages
         /\ \A d \in Ds : \A p \in Pages : <<d, p>> \in DOMAIN A
         /\ \A x \in DOMAIN A : A[x] \in Entries \cup {None}
BY DEF IsView

(* The same entries over the same contents.                                *)
LEMMA SameContents ==
  ASSUME NEW A, NEW B, NEW Ds, NEW X, NEW X2, IsView(A, Ds), SameShown(A, B),
         \A x \in DOMAIN A : HoldsSame(A[x], X, X2)
  PROVE  Contents(B, Ds, X2) = Contents(A, Ds, X)
<1>1. ASSUME NEW d \in Ds, NEW p \in Pages
      PROVE  Sight(B[<<d, p>>], X2) = Sight(A[<<d, p>>], X)
  <2>1. <<d, p>> \in DOMAIN A
    BY PlaceOf
  <2>2. HoldsSame(A[<<d, p>>], X, X2) /\ Alike(A[<<d, p>>], B[<<d, p>>])
    BY <2>1 DEF SameShown
  <2>. QED
    BY <2>2, SightSame
<1>2. \A d \in Ds : [p \in Pages |-> Sight(B[<<d, p>>], X2)]
                      = [p \in Pages |-> Sight(A[<<d, p>>], X)]
  BY <1>1
<1>. QED
  BY <1>2 DEF Contents

(* The memories M with v at page p of space d.                             *)
WithPage(M, d, p, v) == [M EXCEPT ![d][p] = v]

(* One page of one space changes.                                          *)
LEMMA SetContents ==
  ASSUME NEW A, NEW Ds, NEW X, NEW X2, IsView(A, Ds), NEW d \in Ds, NEW p \in Pages,
         NEW e, NEW x, x = <<d, p>>,
         \A y \in DOMAIN A : y # x => HoldsSame(A[y], X, X2)
  PROVE  Contents(At(A, x, e), Ds, X2)
           = WithPage(Contents(A, Ds, X), d, p, Sight(e, X2))
<1>. DEFINE B == At(A, x, e)
            M == Contents(A, Ds, X)
            N == Contents(B, Ds, X2)
            O == [Contents(A, Ds, X) EXCEPT ![d][p] = Sight(e, X2)]
<1>1. \A c \in Ds : \A q \in Pages :
        B[<<c, q>>] = IF c = d /\ q = p THEN e ELSE A[<<c, q>>]
  BY PlaceOf DEF At
<1>2. ASSUME NEW c \in Ds, NEW q \in Pages, ~(c = d /\ q = p)
      PROVE  Sight(B[<<c, q>>], X2) = Sight(A[<<c, q>>], X)
  <2>1. <<c, q>> \in DOMAIN A /\ <<c, q>> # x
    BY <1>2, PlaceOf
  <2>2. HoldsSame(A[<<c, q>>], X, X2) /\ Alike(A[<<c, q>>], B[<<c, q>>])
    BY <2>1, <1>1, <1>2, AlikeItself
  <2>. QED
    BY <2>2, SightSame
<1>3. Sight(B[<<d, p>>], X2) = Sight(e, X2)
  BY <1>1
<1>4. /\ DOMAIN M = Ds /\ \A c \in Ds : DOMAIN M[c] = Pages
      /\ \A c \in Ds : \A q \in Pages : M[c][q] = Sight(A[<<c, q>>], X)
      /\ M = [c \in Ds |-> M[c]]
  BY DEF Contents
<1>5. /\ N = [c \in Ds |-> N[c]]
      /\ \A c \in Ds : /\ N[c] = [q \in Pages |-> N[c][q]]
                       /\ \A q \in Pages : N[c][q] = Sight(B[<<c, q>>], X2)
  BY DEF Contents
<1>. HIDE DEF N, B
<1>6. /\ O = [c \in Ds |-> O[c]]
      /\ \A c \in Ds : /\ O[c] = [q \in Pages |-> O[c][q]]
                       /\ \A q \in Pages : O[c][q] = IF c = d /\ q = p THEN Sight(e, X2)
                                                     ELSE Sight(A[<<c, q>>], X)
  <2>1. O = [M EXCEPT ![d] = [M[d] EXCEPT ![p] = Sight(e, X2)]]
    OBVIOUS
  <2>. HIDE DEF M, O
  <2>2. \A c \in Ds : M[c] = [q \in Pages |-> M[c][q]]
    <3>1. M = Contents(A, Ds, X)
      BY DEF M
    <3>. QED
      BY <3>1 DEF Contents
  <2>3. DOMAIN O = Ds /\ O = [c \in Ds |-> O[c]]
    BY <1>4, <2>1
  <2>4. O[d] = [q \in Pages |-> IF q = p THEN Sight(e, X2) ELSE M[d][q]]
    BY <1>4, <2>1, <2>2
  <2>5. \A c \in Ds : c # d => O[c] = M[c]
    BY <1>4, <2>1
  <2>. QED
    BY <1>4, <2>2, <2>3, <2>4, <2>5
<1>. HIDE DEF O
<1>7. \A c \in Ds : \A q \in Pages : N[c][q] = O[c][q]
  <2>. SUFFICES ASSUME NEW c \in Ds, NEW q \in Pages PROVE N[c][q] = O[c][q]
    OBVIOUS
  <2>1. CASE c = d /\ q = p
    BY <2>1, <1>3, <1>5, <1>6
  <2>2. CASE ~(c = d /\ q = p)
    <3>1. N[c][q] = Sight(B[<<c, q>>], X2)
      BY <1>5
    <3>2. O[c][q] = Sight(A[<<c, q>>], X)
      BY <2>2, <1>6
    <3>3. Sight(B[<<c, q>>], X2) = Sight(A[<<c, q>>], X)
      BY <2>2, <1>2
    <3>. QED
      BY <3>1, <3>2, <3>3
  <2>. QED
    BY <2>1, <2>2
<1>8. \A c \in Ds : N[c] = O[c]
  BY <1>5, <1>6, <1>7
<1>9. N = O
  BY <1>5, <1>6, <1>8
<1>. QED
  BY <1>9 DEF N, O, B, WithPage

(* A space is added.                                                       *)
LEMMA JoinContents ==
  ASSUME NEW A, NEW B, NEW Ds, NEW d, NEW C, NEW X, NEW X2,
         IsView(A, Ds), Joins(A, B, Ds, d, C),
         \A x \in DOMAIN A : HoldsSame(A[x], X, X2)
  PROVE  Contents(B, Ds \cup {d}, X2)
           = Put(Contents(A, Ds, X), d, [p \in Pages |-> Sight(C[p], X2)])
<1>1. \A p \in Pages : B[<<d, p>>] = C[p]
  BY DEF Joins
<1>2. ASSUME NEW c \in Ds, NEW p \in Pages
      PROVE  Sight(B[<<c, p>>], X2) = Sight(A[<<c, p>>], X)
  <2>1. <<c, p>> \in DOMAIN A
    BY PlaceOf
  <2>2. HoldsSame(A[<<c, p>>], X, X2) /\ Alike(A[<<c, p>>], B[<<c, p>>])
    BY <2>1, AlikeItself DEF Joins
  <2>. QED
    BY <2>2, SightSame
<1>3. \A c \in Ds : [p \in Pages |-> Sight(B[<<c, p>>], X2)]
                      = [p \in Pages |-> Sight(A[<<c, p>>], X)]
  BY <1>2
<1>4. [p \in Pages |-> Sight(B[<<d, p>>], X2)] = [p \in Pages |-> Sight(C[p], X2)]
  BY <1>1
<1>. QED
  BY <1>3, <1>4 DEF Contents, Put

(* A space goes.                                                           *)
LEMMA PartContents ==
  ASSUME NEW A, NEW B, NEW Ds, NEW d, NEW X, NEW X2,
         IsView(A, Ds), Parts(A, B, Ds, d),
         \A x \in DOMAIN B : HoldsSame(B[x], X, X2)
  PROVE  Contents(B, Ds \ {d}, X2) = Restrict(Contents(A, Ds, X), Ds \ {d})
<1>1. \A c \in Ds \ {d} : \A p \in Pages :
        /\ <<c, p>> \in DOMAIN B
        /\ B[<<c, p>>] = A[<<c, p>>]
  <2>1. DOMAIN B = (Ds \ {d}) \X Pages
    BY PlaceOf DEF Parts
  <2>. QED
    BY <2>1 DEF Parts
<1>2. ASSUME NEW c \in Ds \ {d}, NEW p \in Pages
      PROVE  Sight(B[<<c, p>>], X2) = Sight(A[<<c, p>>], X)
  <2>1. HoldsSame(A[<<c, p>>], X, X2) /\ Alike(A[<<c, p>>], B[<<c, p>>])
    BY <1>1, AlikeItself
  <2>. QED
    BY <2>1, SightSame
<1>3. \A c \in Ds \ {d} : [p \in Pages |-> Sight(B[<<c, p>>], X2)]
                            = [p \in Pages |-> Sight(A[<<c, p>>], X)]
  BY <1>2
<1>. QED
  BY <1>3 DEF Contents, Restrict

(* The state's memories are the contents of its view.                      *)
LEMMA MemoriesAre ==
  ASSUME MemInv
  PROVE  /\ Memories = Contents(View(dirs, tabs), DOMAIN dirs, data)
         /\ \A d \in DOMAIN dirs : \A p \in Pages :
              Memories[d][p] = Sight(View(dirs, tabs)[<<d, p>>], data)
<1>1. \A d \in DOMAIN dirs : \A p \in Pages :
        Shown(Entry(d, p)) = Sight(View(dirs, tabs)[<<d, p>>], data)
  BY EntryIs DEF EntryIn, Shown, Sight
<1>2. \A d \in DOMAIN dirs : [p \in Pages |-> Shown(Entry(d, p))]
                               = [p \in Pages |-> Sight(View(dirs, tabs)[<<d, p>>], data)]
  BY <1>1
<1>. QED
  BY <1>1, <1>2 DEF Memories, Contents

LEMMA MemoriesNext ==
  ASSUME MemInv'
  PROVE  Memories' = Contents(View(dirs', tabs'), DOMAIN dirs', data')
<1>1. \A d \in DOMAIN dirs' : \A p \in Pages :
        Shown(Entry(d, p))' = Sight(View(dirs', tabs')[<<d, p>>], data')
  BY EntryIsNext DEF EntryIn, Shown, Sight
<1>2. \A d \in DOMAIN dirs' : [p \in Pages |-> Shown(Entry(d, p))']
                               = [p \in Pages |-> Sight(View(dirs', tabs')[<<d, p>>], data')]
  BY <1>1
<1>. QED
  BY <1>2 DEF Memories, Contents

StoreInv == Backed(View(dirs, tabs), data)

(* A frame that is mapped is not free; one that is not can be filled       *)
(* unseen.                                                                 *)
LEMMA MappedNotFree ==
  ASSUME MemInv, NEW x \in DOMAIN View(dirs, tabs), View(dirs, tabs)[x] # None
  PROVE  View(dirs, tabs)[x].frame \notin Free
<1>1. /\ IsView(View(dirs, tabs), DOMAIN dirs)
      /\ Counted(View(dirs, tabs), Uses(dirs, tabs, lost), ref)
  BY MemView DEF MemInv
<1>2. ref[View(dirs, tabs)[x].frame] \in Nat /\ ref[View(dirs, tabs)[x].frame] >= 1
  BY <1>1, MappedCounted
<1>. QED
  BY <1>2 DEF Free

LEMMA FillFree ==
  ASSUME MemInv, StoreInv, NEW f \in Free, NEW v
  PROVE  /\ \A x \in DOMAIN View(dirs, tabs) :
              HoldsSame(View(dirs, tabs)[x], data, Put(data, f, v))
         /\ Put(data, f, v)[f] = v
         /\ DOMAIN Put(data, f, v) = DOMAIN data \cup {f}
BY MappedNotFree DEF StoreInv, Backed, HoldsSame, Put

(* A frame with the value v in a new entry.                                *)
LEMMA NewPageIs ==
  ASSUME NEW f \in Frames, NEW w \in BOOLEAN, NEW X
  PROVE  /\ NewPage(f, w) # None /\ NewPage(f, w).frame = f
         /\ Sight(NewPage(f, w), X) = [mapped |-> TRUE, val |-> X[f], writable |-> w]
<1>1. NewPage(f, w) \in Entries /\ NewPage(f, w).frame = f
  BY DEF NewPage, Entries
<1>2. NewPage(f, w) # None
  BY <1>1, NoneAssumption
<1>3. (NewPage(f, w).rw \/ NewPage(f, w).cow) = w
  BY DEF NewPage
<1>. QED
  BY <1>1, <1>2, <1>3 DEF Sight

LEMMA BackedSet ==
  ASSUME NEW A, NEW X, NEW X2, NEW x \in DOMAIN A, NEW e, Backed(A, X),
         DOMAIN X \subseteq DOMAIN X2, e # None => e.frame \in DOMAIN X2
  PROVE  Backed(At(A, x, e), X2)
BY DEF Backed, At

LEMMA MapAllocShows ==
  ASSUME MemInv, StoreInv, NEW d \in DOMAIN dirs, NEW p \in Pages, NEW w \in BOOLEAN,
         Entry(d, p) = None, vmm_map_alloc(d, p, w)
  PROVE  /\ StoreInv' /\ DOMAIN dirs' = DOMAIN dirs
         /\ ~Memories[d][p].mapped
         /\ Memories' = WithPage(Memories, d, p,
                                 [mapped |-> TRUE, val |-> Zero, writable |-> w])
<1>. DEFINE A == View(dirs, tabs)
            B == View(dirs', tabs')
            x == <<d, p>>
<1>1. /\ MemInv' /\ DOMAIN dirs' = DOMAIN dirs
      /\ \E f \in Free : B = At(A, x, NewPage(f, w)) /\ data' = Put(data, f, Zero)
  BY MapAllocMem
<1>2. PICK f \in Free : B = At(A, x, NewPage(f, w)) /\ data' = Put(data, f, Zero)
  BY <1>1
<1>3. f \in Frames
  BY DEF Free
<1>4. /\ IsView(A, DOMAIN dirs) /\ x \in DOMAIN A
  BY MemView DEF MemInv
<1>5. Memories[d][p] = Sight(A[x], data) /\ A[x] = None
  BY MemoriesAre, EntryIs DEF EntryIn
<1>13. x = <<d, p>>
  OBVIOUS
<1>. HIDE DEF A, B, x
<1>6. /\ \A y \in DOMAIN A : HoldsSame(A[y], data, data')
      /\ data'[f] = Zero
      /\ DOMAIN data' = DOMAIN data \cup {f}
  BY <1>2, FillFree DEF A
<1>7. Contents(B, DOMAIN dirs, data')
        = WithPage(Contents(A, DOMAIN dirs, data), d, p, Sight(NewPage(f, w), data'))
  BY <1>2, <1>4, <1>6, <1>13, SetContents
<1>8. /\ NewPage(f, w) # None /\ NewPage(f, w).frame = f
      /\ Sight(NewPage(f, w), data') = [mapped |-> TRUE, val |-> Zero, writable |-> w]
  BY <1>3, <1>6, NewPageIs
<1>9. Memories' = WithPage(Memories, d, p,
                           [mapped |-> TRUE, val |-> Zero, writable |-> w])
  BY <1>1, <1>7, <1>8, MemoriesAre, MemoriesNext DEF A, B
<1>10. Backed(At(A, x, NewPage(f, w)), data')
  <2>1. Backed(A, data)
    BY DEF StoreInv, A
  <2>. QED
    BY <2>1, <1>4, <1>6, <1>8, BackedSet
<1>11. StoreInv'
  BY <1>2, <1>10 DEF StoreInv, B
<1>12. ~Memories[d][p].mapped
  BY <1>5 DEF Sight
<1>. QED
  BY <1>1, <1>9, <1>11, <1>12

LEMMA MapFailsShows ==
  ASSUME MemInv, StoreInv, NEW d, NEW p \in Pages, vmm_map_alloc_fails(d, p)
  PROVE  StoreInv' /\ dirs' = dirs /\ tlb' = tlb /\ Memories' = Memories
<1>1. dirs' = dirs /\ tabs' = tabs /\ data' = data /\ tlb' = tlb
  BY MapFailsMem
<1>2. \A e, q : Entry(e, q)' = Entry(e, q)
  BY <1>1 DEF Entry, table_for, Dir
<1>. QED
  BY <1>1, <1>2 DEF StoreInv, Memories, Shown

(* When references go, what is still mapped keeps its contents.            *)
LEMMA HeldShows ==
  ASSUME MemInv', data' = Restrict(data, Held(ref')), Backed(View(dirs', tabs'), data)
  PROVE  /\ StoreInv'
         /\ \A x \in DOMAIN View(dirs', tabs') :
              HoldsSame(View(dirs', tabs')[x], data, data')
<1>. DEFINE B == View(dirs', tabs')
<1>1. IsView(B, DOMAIN dirs') /\ Counted(B, Uses(dirs', tabs', lost'), ref')
  BY MemView DEF MemInv
<1>2. \A x \in DOMAIN B : B[x] # None =>
        /\ B[x].frame \in DOMAIN data
        /\ ref'[B[x].frame] \in Nat /\ ref'[B[x].frame] >= 1
  BY <1>1, MappedCounted DEF Backed
<1>. HIDE DEF B
<1>3. \A f \in DOMAIN data : ref'[f] \in Nat /\ ref'[f] >= 1 => f \in Held(ref')
  BY DEF Held
<1>4. DOMAIN data' = Held(ref') /\ \A f \in Held(ref') : data'[f] = data[f]
  BY DEF Restrict, Held
<1>5. \A x \in DOMAIN B : B[x] # None => B[x].frame \in Held(ref')
  BY <1>2, <1>3
<1>6. Backed(B, data') /\ \A x \in DOMAIN B : HoldsSame(B[x], data, data')
  BY <1>4, <1>5 DEF Backed, HoldsSame
<1>. QED
  BY <1>6 DEF StoreInv, B

LEMMA UnmapShows ==
  ASSUME MemInv, StoreInv, NEW d \in DOMAIN dirs, NEW p \in Pages, vmm_unmap(d, p)
  PROVE  /\ StoreInv' /\ DOMAIN dirs' = DOMAIN dirs
         /\ Memories[d][p].mapped
         /\ Memories' = WithPage(Memories, d, p, [mapped |-> FALSE])
<1>. DEFINE A == View(dirs, tabs)
            B == View(dirs', tabs')
            x == <<d, p>>
<1>1. /\ MemInv' /\ DOMAIN dirs' = DOMAIN dirs
      /\ B = At(A, x, None) /\ A[x] # None
      /\ data' = Restrict(data, Held(ref'))
  BY UnmapMem
<1>2. IsView(A, DOMAIN dirs) /\ x \in DOMAIN A
  BY MemView DEF MemInv
<1>3. Memories[d][p] = Sight(A[x], data)
  BY MemoriesAre
<1>12. x = <<d, p>>
  OBVIOUS
<1>. HIDE DEF A, B, x
<1>4. /\ DOMAIN B = DOMAIN A
      /\ \A y \in DOMAIN A : y # x => B[y] = A[y]
      /\ B[x] = None
  BY <1>1, <1>2 DEF At
<1>5. Backed(B, data)
  BY <1>4 DEF StoreInv, Backed, A
<1>6. StoreInv' /\ \A y \in DOMAIN B : HoldsSame(B[y], data, data')
  BY <1>1, <1>5, HeldShows DEF B
<1>7. \A y \in DOMAIN A : y # x => HoldsSame(A[y], data, data')
  BY <1>4, <1>6
<1>8. Contents(B, DOMAIN dirs, data')
        = WithPage(Contents(A, DOMAIN dirs, data), d, p, Sight(None, data'))
  BY <1>1, <1>2, <1>7, <1>12, SetContents
<1>9. Sight(None, data') = [mapped |-> FALSE]
  BY DEF Sight
<1>10. Memories' = WithPage(Memories, d, p, [mapped |-> FALSE])
  BY <1>1, <1>8, <1>9, MemoriesAre, MemoriesNext DEF A, B
<1>11. Memories[d][p].mapped
  BY <1>1, <1>3 DEF Sight
<1>. QED
  BY <1>1, <1>6, <1>10, <1>11

LEMMA CowShows ==
  ASSUME MemInv, StoreInv, NEW op \in Accesses, cr3 \in DOMAIN dirs, CowFault(op),
         vmm_cow_handle(op.page)
  PROVE  StoreInv' /\ DOMAIN dirs' = DOMAIN dirs /\ Memories' = Memories
<1>. DEFINE p == op.page
            A == View(dirs, tabs)
            B == View(dirs', tabs')
            x == <<cr3, p>>
            M == Contents(A, DOMAIN dirs, data)
<1>1. p \in Pages
  BY AccessPage
<1>2. Entry(cr3, p) # None /\ Entry(cr3, p).cow
  BY DEF CowFault
<1>3. MemInv' /\ DOMAIN dirs' = DOMAIN dirs /\ Moves(A, x, B)
  BY <1>1, <1>2, CowMem
<1>4. IsView(A, DOMAIN dirs) /\ x \in DOMAIN A
  <2>1. IsView(A, DOMAIN dirs) /\ DOMAIN A = (DOMAIN dirs) \X Pages
    BY MemView DEF MemInv
  <2>. QED
    BY <2>1, <1>1
<1>5. A[x] = Entry(cr3, p)
  BY <1>1, EntryIs DEF EntryIn
<1>6. Memories = M /\ Memories' = Contents(B, DOMAIN dirs, data')
  BY <1>3, MemoriesAre, MemoriesNext
<1>7. Backed(A, data)
  BY DEF StoreInv
<1>8. M[cr3][p] = Sight(A[x], data)
  BY <1>1 DEF Contents
<1>9. A[x].frame \in Frames /\ (A[x].rw \/ A[x].cow) = TRUE
  <2>1. A[x] \in Entries
    BY <1>2, <1>4, <1>5 DEF IsView
  <2>. QED
    BY <2>1, <1>2, <1>5 DEF Entries
<1>10. Sight(A[x], data) = [mapped |-> TRUE, val |-> data[A[x].frame], writable |-> TRUE]
  BY <1>2, <1>5, <1>9 DEF Sight
<1>11. WithPage(M, cr3, p, M[cr3][p]) = M
  BY <1>1 DEF Contents, WithPage
<1>15. x = <<cr3, p>>
  OBVIOUS
<1>. HIDE DEF A, B, x, p, M
<1>12. ASSUME NEW f \in Frames, B = At(A, x, NewPage(f, TRUE)),
              data'[f] = data[A[x].frame], f \in DOMAIN data',
              \A y \in DOMAIN A : y # x => HoldsSame(A[y], data, data'),
              DOMAIN data \subseteq DOMAIN data'
       PROVE  StoreInv' /\ Memories' = Memories
  <2>1. /\ NewPage(f, TRUE) # None /\ NewPage(f, TRUE).frame = f
        /\ Sight(NewPage(f, TRUE), data') = Sight(A[x], data)
    <3>1. TRUE \in BOOLEAN
      OBVIOUS
    <3>2. /\ NewPage(f, TRUE) # None /\ NewPage(f, TRUE).frame = f
          /\ Sight(NewPage(f, TRUE), data') = [mapped |-> TRUE, val |-> data'[f], writable |-> TRUE]
      BY <3>1, <1>12, NewPageIs
    <3>. QED
      BY <3>2, <1>10, <1>12
  <2>2. Contents(At(A, x, NewPage(f, TRUE)), DOMAIN dirs, data')
          = WithPage(M, cr3, p, Sight(NewPage(f, TRUE), data'))
    <3>. DEFINE e == NewPage(f, TRUE)
    <3>1. cr3 \in DOMAIN dirs /\ p \in Pages
      BY <1>1
    <3>2. \A y \in DOMAIN A : y # x => HoldsSame(A[y], data, data')
      BY <1>12
    <3>. HIDE DEF e
    <3>3. Contents(At(A, x, e), DOMAIN dirs, data')
            = WithPage(Contents(A, DOMAIN dirs, data), cr3, p, Sight(e, data'))
      BY <3>1, <3>2, <1>4, <1>15, SetContents
    <3>. QED
      BY <3>3 DEF M, e
  <2>3. Memories' = Memories
    BY <2>1, <2>2, <1>6, <1>8, <1>11, <1>12
  <2>4. Backed(B, data')
    BY <2>1, <1>4, <1>7, <1>12, BackedSet
  <2>. QED
    BY <2>3, <2>4 DEF StoreInv, B
<1>13. CASE B = At(A, x, NewPage(A[x].frame, TRUE)) /\ data' = data
  <2>1. A[x].frame \in DOMAIN data'
    BY <1>2, <1>4, <1>5, <1>7, <1>13 DEF Backed
  <2>2. \A y \in DOMAIN A : HoldsSame(A[y], data, data')
    BY <1>13 DEF HoldsSame
  <2>. QED
    BY <2>1, <2>2, <1>3, <1>9, <1>12, <1>13
<1>14. ASSUME NEW f \in Free, B = At(A, x, NewPage(f, TRUE)),
              data' = Put(data, f, data[A[x].frame])
       PROVE  StoreInv' /\ Memories' = Memories
  <2>1. /\ \A y \in DOMAIN A : HoldsSame(A[y], data, data')
        /\ data'[f] = data[A[x].frame]
        /\ DOMAIN data' = DOMAIN data \cup {f}
    BY <1>14, FillFree DEF A
  <2>2. f \in Frames
    BY DEF Free
  <2>. QED
    BY <2>1, <2>2, <1>12, <1>14
<1>. QED
  BY <1>3, <1>13, <1>14 DEF Moves

LEMMA ValueSet ==
  ASSUME NEW a, NEW v, NEW w
  PROVE  [[mapped |-> TRUE, val |-> a, writable |-> w] EXCEPT !.val = v]
           = [mapped |-> TRUE, val |-> v, writable |-> w]
<1>1. \A m : [[mapped |-> m, val |-> a, writable |-> w] EXCEPT !.val = v]
                = [mapped |-> m, val |-> v, writable |-> w]
  BY SMT
<1>. QED
  BY <1>1, Zenon

(* A store through an entry that may write reaches no other space.         *)
LEMMA StoreShows ==
  ASSUME MemInv, StoreInv, NEW d \in DOMAIN dirs, NEW p \in Pages, NEW f, NEW v,
         View(dirs, tabs)[<<d, p>>] # None, View(dirs, tabs)[<<d, p>>].frame = f,
         ref[f] = 1, dirs' = dirs, tabs' = tabs, ref' = ref, lost' = lost,
         data' = [data EXCEPT ![f] = v]
  PROVE  /\ StoreInv'
         /\ Memories' = WithPage(Memories, d, p, [Memories[d][p] EXCEPT !.val = v])
<1>. DEFINE A == View(dirs, tabs)
            x == <<d, p>>
            M == Contents(A, DOMAIN dirs, data)
<1>1. /\ IsView(A, DOMAIN dirs) /\ x \in DOMAIN A
      /\ Counted(A, Uses(dirs, tabs, lost), ref)
  BY MemView DEF MemInv
<1>2. MemInv'
  BY DEF MemInv
<1>3. Memories = M /\ Memories' = Contents(A, DOMAIN dirs, data')
  BY <1>2, MemoriesAre, MemoriesNext
<1>4. Backed(A, data)
  BY DEF StoreInv
<1>5. f \in DOMAIN data
  BY <1>1, <1>4 DEF Backed
<1>6. StoreInv'
  BY <1>4 DEF StoreInv, Backed
<1>. HIDE DEF A
<1>7. \A y \in DOMAIN A : y # x => HoldsSame(A[y], data, data')
  <2>. SUFFICES ASSUME NEW y \in DOMAIN A, y # x, A[y] # None
                PROVE  data'[A[y].frame] = data[A[y].frame]
    BY DEF HoldsSame
  <2>1. MapsOf(A, f) = {x}
    BY <1>1, SolePlace DEF A
  <2>2. A[y].frame # f
    BY <2>1 DEF MapsOf
  <2>. QED
    BY <2>2
<1>8. At(A, x, A[x]) = A
  BY <1>1 DEF At, IsView
<1>13. x = <<d, p>>
  OBVIOUS
<1>. HIDE DEF x
<1>9. Contents(A, DOMAIN dirs, data') = WithPage(M, d, p, Sight(A[x], data'))
  <2>1. Contents(At(A, x, A[x]), DOMAIN dirs, data') = WithPage(M, d, p, Sight(A[x], data'))
    <3>. DEFINE e == A[x]
    <3>. HIDE DEF e
    <3>1. d \in DOMAIN dirs /\ p \in Pages
      OBVIOUS
    <3>2. ASSUME NEW X2, \A y \in DOMAIN A : y # x => HoldsSame(A[y], data, X2)
          PROVE  Contents(At(A, x, e), DOMAIN dirs, X2)
                   = WithPage(Contents(A, DOMAIN dirs, data), d, p, Sight(e, X2))
      BY ONLY <1>1, <1>13, <3>1, <3>2, SetContents
    <3>. QED
      BY ONLY <1>7, <3>2 DEF e, M
  <2>. QED
    BY <2>1, <1>8
<1>10. Sight(A[x], data') = [Sight(A[x], data) EXCEPT !.val = v]
  <2>1. A[x] # None /\ A[x].frame = f /\ data'[f] = v
    BY <1>5, <1>13 DEF A
  <2>. DEFINE w == A[x].rw \/ A[x].cow
  <2>2. /\ Sight(A[x], data) = [mapped |-> TRUE, val |-> data[f], writable |-> w]
        /\ Sight(A[x], data') = [mapped |-> TRUE, val |-> v, writable |-> w]
    BY <2>1 DEF Sight
  <2>. HIDE DEF w
  <2>. QED
    BY <2>2, ValueSet
<1>11. M[d][p] = Sight(A[x], data)
  BY <1>13 DEF Contents
<1>. HIDE DEF M, x
<1>12. Memories' = WithPage(Memories, d, p, [Memories[d][p] EXCEPT !.val = v])
  BY <1>3, <1>9, <1>10, <1>11
<1>. QED
  BY <1>6, <1>12

-----------------------------------------------------------------------------
(* What joins and leaves.                                                  *)
Nothing == [p \in Pages |-> [mapped |-> FALSE]]

MemoryOf(s) == IF s = KDir THEN Nothing ELSE Memories[s]

LEMMA MemoryIs ==
  ASSUME MemInv, NEW s \in Space
  PROVE  MemoryOf(s) = [p \in Pages |-> Sight(Entry(s, p), data)]
<1>1. \A p \in Pages : Entry(s, p) = EntryIn(dirs, tabs, s, p)
  BY EntryIs
<1>2. CASE s = KDir
  <2>1. s \notin DOMAIN dirs
    BY <1>2, MemView, VmmAssumption DEF MemInv, Typed
  <2>2. \A p \in Pages : Sight(Entry(s, p), data) = [mapped |-> FALSE]
    BY <1>1, <2>1 DEF EntryIn, Sight
  <2>. QED
    BY <1>2, <2>2 DEF MemoryOf, Nothing
<1>3. CASE s # KDir
  <2>1. s \in DOMAIN dirs
    BY <1>3 DEF Space
  <2>2. Memories[s] = [p \in Pages |-> Sight(View(dirs, tabs)[<<s, p>>], data)]
    BY <2>1, MemoriesAre DEF Contents
  <2>3. \A p \in Pages : Entry(s, p) = View(dirs, tabs)[<<s, p>>]
    BY <1>1, <2>1 DEF EntryIn
  <2>4. MemoryOf(s) = Memories[s]
    BY <1>3 DEF MemoryOf
  <2>. QED
    BY <2>2, <2>3, <2>4
<1>. QED
  BY <1>2, <1>3

LEMMA BackedJoin ==
  ASSUME NEW A, NEW B, NEW Ds, NEW d, NEW C, NEW X, NEW X2,
         Backed(A, X), Joins(A, B, Ds, d, C), DOMAIN X \subseteq DOMAIN X2,
         \A p \in Pages : C[p] # None => C[p].frame \in DOMAIN X2
  PROVE  Backed(B, X2)
<1>. SUFFICES ASSUME NEW x \in DOMAIN B, B[x] # None
              PROVE  B[x].frame \in DOMAIN X2
  BY DEF Backed
<1>1. CASE x \in DOMAIN A
  BY <1>1 DEF Backed, Joins
<1>2. CASE x \notin DOMAIN A
  <2>1. PICK p \in Pages : x = <<d, p>>
    BY <1>2 DEF Joins
  <2>2. B[x] = C[p]
    BY <2>1 DEF Joins
  <2>. QED
    BY <2>2
<1>. QED
  BY <1>1, <1>2

LEMMA BackedAlike ==
  ASSUME NEW A, NEW B, NEW X, Backed(A, X), SameShown(A, B)
  PROVE  Backed(B, X)
BY DEF Backed, SameShown, Alike

LEMMA HoldsItself == ASSUME NEW e, NEW X PROVE HoldsSame(e, X, X)
BY DEF HoldsSame

LEMMA CreateShows ==
  ASSUME MemInv, StoreInv, NEW d, vmm_create_dir(d)
  PROVE  /\ StoreInv' /\ DOMAIN dirs' = DOMAIN dirs \cup {d}
         /\ d \in Frames /\ d \notin DOMAIN dirs
         /\ Memories' = Put(Memories, d, Nothing)
<1>. DEFINE A == View(dirs, tabs)
            B == View(dirs', tabs')
<1>1. /\ MemInv' /\ d \in Free /\ DOMAIN dirs' = DOMAIN dirs \cup {d}
      /\ Joins(A, B, DOMAIN dirs, d, Flushed) /\ data' = data
  BY CreateMem
<1>2. d \in Frames /\ d \notin DOMAIN dirs
  BY <1>1, FreeIs
<1>3. IsView(A, DOMAIN dirs) /\ Backed(A, data)
  BY MemView DEF MemInv, StoreInv
<1>4. \A p \in Pages : Flushed[p] = None
  BY DEF Flushed
<1>5. [p \in Pages |-> Sight(Flushed[p], data)] = Nothing
  BY <1>4 DEF Sight, Nothing
<1>6. Memories = Contents(A, DOMAIN dirs, data)
  BY MemoriesAre
<1>7. Memories' = Contents(B, DOMAIN dirs \cup {d}, data)
  BY <1>1, MemoriesNext
<1>. HIDE DEF A, B
<1>8. \A x \in DOMAIN A : HoldsSame(A[x], data, data)
  BY HoldsItself
<1>9. Contents(B, DOMAIN dirs \cup {d}, data)
        = Put(Contents(A, DOMAIN dirs, data), d, [p \in Pages |-> Sight(Flushed[p], data)])
  BY <1>1, <1>3, <1>8, JoinContents
<1>10. Backed(B, data)
  BY <1>1, <1>3, <1>4, BackedJoin
<1>11. StoreInv'
  BY <1>1, <1>10 DEF StoreInv, B
<1>. QED
  BY <1>1, <1>2, <1>5, <1>6, <1>7, <1>9, <1>11

LEMMA DestroyShows ==
  ASSUME MemInv, StoreInv, NEW d \in DOMAIN dirs, vmm_destroy_dir(d)
  PROVE  /\ StoreInv' /\ DOMAIN dirs' = DOMAIN dirs \ {d}
         /\ Memories' = Restrict(Memories, DOMAIN dirs \ {d})
<1>. DEFINE A == View(dirs, tabs)
            B == View(dirs', tabs')
<1>1. /\ MemInv' /\ DOMAIN dirs' = DOMAIN dirs \ {d}
      /\ Parts(A, B, DOMAIN dirs, d) /\ data' = Restrict(data, Held(ref'))
  BY DestroyMem
<1>2. IsView(A, DOMAIN dirs) /\ DOMAIN A = (DOMAIN dirs) \X Pages /\ Backed(A, data)
  BY MemView DEF MemInv, StoreInv
<1>3. DOMAIN B = (DOMAIN dirs \ {d}) \X Pages
  BY <1>1, PlaceOf DEF Parts
<1>4. Memories = Contents(A, DOMAIN dirs, data)
  BY MemoriesAre
<1>5. Memories' = Contents(B, DOMAIN dirs \ {d}, data')
  BY <1>1, MemoriesNext
<1>. HIDE DEF A, B
<1>6. \A x \in DOMAIN B : x \in DOMAIN A /\ B[x] = A[x]
  BY <1>1, <1>2, <1>3 DEF Parts
<1>7. Backed(B, data)
  BY <1>2, <1>6 DEF Backed
<1>8. StoreInv' /\ \A x \in DOMAIN B : HoldsSame(B[x], data, data')
  BY <1>1, <1>7, HeldShows DEF B
<1>9. Contents(B, DOMAIN dirs \ {d}, data')
        = Restrict(Contents(A, DOMAIN dirs, data), DOMAIN dirs \ {d})
  BY <1>1, <1>2, <1>8, PartContents
<1>. QED
  BY <1>1, <1>4, <1>5, <1>8, <1>9

LEMMA CloneCowFailsShows ==
  ASSUME MemInv, StoreInv, NEW s \in Space, vmm_clone_cow_fails(s)
  PROVE  StoreInv' /\ dirs' = dirs /\ Memories' = Memories
<1>. DEFINE A == View(dirs, tabs)
            B == View(dirs', tabs')
<1>1. MemInv' /\ dirs' = dirs /\ SameShown(A, B) /\ data' = data
  BY CloneCowFailsMem
<1>2. IsView(A, DOMAIN dirs) /\ Backed(A, data)
  BY MemView DEF MemInv, StoreInv
<1>3. /\ Memories = Contents(A, DOMAIN dirs, data)
      /\ Memories' = Contents(B, DOMAIN dirs, data)
  BY <1>1, MemoriesAre, MemoriesNext
<1>. HIDE DEF A, B
<1>4. \A x \in DOMAIN A : HoldsSame(A[x], data, data)
  BY HoldsItself
<1>5. Contents(B, DOMAIN dirs, data) = Contents(A, DOMAIN dirs, data)
  BY <1>1, <1>2, <1>4, SameContents
<1>6. Backed(B, data)
  BY <1>1, <1>2, BackedAlike
<1>. QED
  BY <1>1, <1>3, <1>5, <1>6 DEF StoreInv, B

LEMMA CloneCowShows ==
  ASSUME MemInv, StoreInv, NEW s \in Space, NEW d \in Free, vmm_clone_cow(s, d),
         Cardinality(DOMAIN dirs \cup {d}) <= RefMax
  PROVE  /\ StoreInv' /\ DOMAIN dirs' = DOMAIN dirs \cup {d}
         /\ Memories' = Put(Memories, d, MemoryOf(s))
<1>. DEFINE A == View(dirs, tabs)
            B == View(dirs', tabs')
            C == [p \in Pages |-> Shared(Entry(s, p))]
<1>1. /\ MemInv' /\ DOMAIN dirs' = DOMAIN dirs \cup {d} /\ data' = data
      /\ \E A1 : /\ SameShown(A, A1)
                 /\ IsView(A1, DOMAIN dirs)
                 /\ Joins(A1, B, DOMAIN dirs, d, C)
  BY CloneCowMem
<1>2. PICK A1 : /\ SameShown(A, A1)
                /\ IsView(A1, DOMAIN dirs)
                /\ Joins(A1, B, DOMAIN dirs, d, C)
  BY <1>1
<1>3. /\ IsView(A, DOMAIN dirs) /\ Backed(A, data)
      /\ DOMAIN A = (DOMAIN dirs) \X Pages
  BY MemView DEF MemInv, StoreInv
<1>4. /\ Memories = Contents(A, DOMAIN dirs, data)
      /\ Memories' = Contents(B, DOMAIN dirs \cup {d}, data)
  BY <1>1, MemoriesAre, MemoriesNext
<1>5. \A p \in Pages : /\ Entry(s, p) \in Entries \cup {None}
                       /\ Entry(s, p) # None => Entry(s, p).frame \in DOMAIN data
                       /\ C[p] = Shared(Entry(s, p))
  <2>1. \A p \in Pages : Entry(s, p) = EntryIn(dirs, tabs, s, p)
    BY EntryIs
  <2>2. \A x \in DOMAIN A : A[x] \in Entries \cup {None}
    BY <1>3, PlaceOf
  <2>. QED
    BY <1>3, <2>1, <2>2 DEF EntryIn, Backed
<1>6. MemoryOf(s) = [p \in Pages |-> Sight(Entry(s, p), data)]
  BY MemoryIs
<1>. HIDE DEF A, B, C
<1>7. \A p \in Pages : /\ Alike(Entry(s, p), C[p])
                       /\ C[p] # None => C[p].frame \in DOMAIN data
  BY <1>5, SharedIs DEF Alike
<1>8. \A p \in Pages : Sight(C[p], data) = Sight(Entry(s, p), data)
  BY <1>7, HoldsItself, SightSame
<1>9. [p \in Pages |-> Sight(C[p], data)] = MemoryOf(s)
  BY <1>6, <1>8
<1>10. Backed(A1, data)
  BY <1>2, <1>3, BackedAlike
<1>11. Contents(A1, DOMAIN dirs, data) = Contents(A, DOMAIN dirs, data)
  <2>1. \A x \in DOMAIN A : HoldsSame(A[x], data, data)
    BY HoldsItself
  <2>. QED
    BY <1>2, <1>3, <2>1, SameContents
<1>12. Contents(B, DOMAIN dirs \cup {d}, data)
         = Put(Contents(A1, DOMAIN dirs, data), d, [p \in Pages |-> Sight(C[p], data)])
  <2>1. \A x \in DOMAIN A1 : HoldsSame(A1[x], data, data)
    BY HoldsItself
  <2>. QED
    BY <1>2, <2>1, JoinContents
<1>13. Backed(B, data)
  BY <1>2, <1>7, <1>10, BackedJoin
<1>14. StoreInv'
  BY <1>1, <1>13 DEF StoreInv, B
<1>. QED
  BY <1>1, <1>4, <1>9, <1>11, <1>12, <1>14

LEMMA CloneDirShows ==
  ASSUME MemInv, StoreInv, NEW s \in Space, NEW d \in Free, vmm_clone_dir(s, d)
  PROVE  /\ StoreInv' /\ DOMAIN dirs' = DOMAIN dirs \cup {d}
         /\ Memories' = Put(Memories, d, MemoryOf(s))
<1>. DEFINE A == View(dirs, tabs)
            B == View(dirs', tabs')
<1>1. /\ MemInv' /\ DOMAIN dirs' = DOMAIN dirs \cup {d}
      /\ \E h : /\ CopiedData(s, h)
                /\ Joins(A, B, DOMAIN dirs, d, [p \in Pages |-> Copied(Entry(s, p), h[p])])
  BY CloneDirMem
<1>2. PICK h : /\ CopiedData(s, h)
               /\ Joins(A, B, DOMAIN dirs, d, [p \in Pages |-> Copied(Entry(s, p), h[p])])
  BY <1>1
<1>. DEFINE C == [p \in Pages |-> Copied(Entry(s, p), h[p])]
<1>3. IsView(A, DOMAIN dirs) /\ Backed(A, data)
  BY MemView DEF MemInv, StoreInv
<1>4. /\ Memories = Contents(A, DOMAIN dirs, data)
      /\ Memories' = Contents(B, DOMAIN dirs \cup {d}, data')
  BY <1>1, MemoriesAre, MemoriesNext
<1>5. \A p \in Pages : /\ Entry(s, p) \in Entries \cup {None}
                       /\ C[p] = Copied(Entry(s, p), h[p])
  <2>1. \A p \in Pages : Entry(s, p) = EntryIn(dirs, tabs, s, p)
    BY EntryIs
  <2>2. \A x \in DOMAIN A : A[x] \in Entries \cup {None}
    BY <1>3, PlaceOf
  <2>3. \A e \in DOMAIN dirs : \A p \in Pages : <<e, p>> \in DOMAIN A
    BY <1>3, PlaceOf
  <2>. QED
    BY <2>1, <2>2, <2>3 DEF EntryIn
<1>6. MemoryOf(s) = [p \in Pages |-> Sight(Entry(s, p), data)]
  BY MemoryIs
<1>7. \A x \in DOMAIN A : HoldsSame(A[x], data, data')
  <2>1. \A x \in DOMAIN A : A[x] # None => A[x].frame \in DOMAIN data /\ A[x].frame \notin Free
    BY <1>3, MappedNotFree DEF Backed
  <2>. QED
    BY <2>1, <1>2 DEF HoldsSame, CopiedData
<1>8. Joins(A, B, DOMAIN dirs, d, C)
  BY <1>2
<1>9. \A p \in Pages : Entry(s, p) # None =>
        h[p] \in Frames /\ h[p] \in DOMAIN data' /\ data'[h[p]] = data[Entry(s, p).frame]
  BY <1>2 DEF CopiedData, Mapped
<1>. HIDE DEF A, B, C
<1>10. \A p \in Pages : /\ Sight(C[p], data') = Sight(Entry(s, p), data)
                        /\ C[p] # None => C[p].frame \in DOMAIN data'
  <2>. SUFFICES ASSUME NEW p \in Pages
                PROVE  /\ Sight(C[p], data') = Sight(Entry(s, p), data)
                       /\ C[p] # None => C[p].frame \in DOMAIN data'
    OBVIOUS
  <2>. DEFINE e == Entry(s, p)
              c == C[p]
  <2>1. e \in Entries \cup {None} /\ c = Copied(e, h[p])
    BY <1>5
  <2>2. e # None => h[p] \in Frames /\ h[p] \in DOMAIN data' /\ data'[h[p]] = data[e.frame]
    BY <1>9
  <2>. HIDE DEF e, c
  <2>3. CASE e = None
    <3>1. c = None
      BY <2>1, <2>3 DEF Copied
    <3>. QED
      BY <2>3, <3>1 DEF Sight, e, c
  <2>4. CASE e # None
    <3>1. c = [e EXCEPT !.frame = h[p]]
      BY <2>1, <2>4 DEF Copied
    <3>2. e \in Entries
      BY <2>1, <2>4
    <3>3. c.frame = h[p] /\ c.rw = e.rw /\ c.cow = e.cow
      BY <3>1, <3>2 DEF Entries
    <3>4. c # None
      BY <2>1, <2>2, <2>4, CopiedIs
    <3>. QED
      BY <2>2, <2>4, <3>3, <3>4 DEF Sight, e, c
  <2>. QED
    BY <2>3, <2>4
<1>11. [p \in Pages |-> Sight(C[p], data')] = MemoryOf(s)
  BY <1>6, <1>10
<1>12. Contents(B, DOMAIN dirs \cup {d}, data')
         = Put(Contents(A, DOMAIN dirs, data), d, [p \in Pages |-> Sight(C[p], data')])
  BY <1>3, <1>7, <1>8, JoinContents
<1>13. DOMAIN data \subseteq DOMAIN data'
  BY <1>2 DEF CopiedData
<1>14. Backed(B, data')
  BY <1>3, <1>8, <1>10, <1>13, BackedJoin
<1>15. StoreInv'
  BY <1>14 DEF StoreInv, B
<1>. QED
  BY <1>1, <1>4, <1>11, <1>12, <1>15

-----------------------------------------------------------------------------
(* A step of the spaces, seen as one of AddressSpaces.                     *)
Seen == [Spaces!Next]_(Spaces!vars)

LEMMA SeenIdle ==
  ASSUME Memories' = Memories, Promises' = Promises, cr3' = cr3, pend' = pend
  PROVE  Seen
BY DEF Seen, Spaces!vars

LEMMA SeenCall ==
  ASSUME pend = None, Spaces!Call
  PROVE  Seen
BY DEF Seen, Spaces!Next

LEMMA SeenCreate ==
  ASSUME NEW d \in Frames, d \notin DOMAIN Memories, Memories' = Put(Memories, d, Nothing),
         Promises' = Promises, cr3' = cr3, pend' = pend
  PROVE  Spaces!Call
<1>1. Spaces!Create(d)
  BY DEF Spaces!Create, Spaces!Put, Spaces!Absent, Put, Nothing
<1>. QED
  BY <1>1 DEF Spaces!Call

LEMMA SeenClone ==
  ASSUME NEW s \in DOMAIN Memories \cup {KDir}, NEW d \in Frames, d \notin DOMAIN Memories,
         Memories' = Put(Memories, d, MemoryOf(s)),
         Promises' = Promises, cr3' = cr3, pend' = pend
  PROVE  Spaces!Call
<1>1. Spaces!Memory(s) = MemoryOf(s)
  BY DEF Spaces!Memory, Spaces!Absent, MemoryOf, Nothing
<1>2. Spaces!Clone(s, d)
  BY <1>1 DEF Spaces!Clone, Spaces!Put, Put
<1>. QED
  BY <1>2 DEF Spaces!Call

LEMMA SeenDestroy ==
  ASSUME NEW d \in DOMAIN Memories, d # cr3,
         Memories' = Restrict(Memories, DOMAIN Memories \ {d}),
         Promises' = {}, cr3' = cr3, pend' = pend
  PROVE  Spaces!Call
<1>1. Spaces!Destroy(d)
  BY DEF Spaces!Destroy, Spaces!Restrict, Restrict
<1>. QED
  BY <1>1 DEF Spaces!Call

LEMMA SeenMap ==
  ASSUME NEW d, NEW p, NEW w, ~Memories[d][p].mapped,
         Memories' = WithPage(Memories, d, p, [mapped |-> TRUE, val |-> Zero, writable |-> w]),
         Promises' = Promises, cr3' = cr3
  PROVE  Spaces!Map(d, p, w)
BY DEF Spaces!Map, Spaces!Page, WithPage

LEMMA SeenUnmap ==
  ASSUME NEW d \in DOMAIN Memories, NEW p \in Pages, Memories[d][p].mapped,
         Memories' = WithPage(Memories, d, p, [mapped |-> FALSE]),
         Promises' = Promises, cr3' = cr3, pend' = pend
  PROVE  Spaces!Call
<1>1. Spaces!Unmap(d, p)
  BY DEF Spaces!Unmap, Spaces!Absent, WithPage
<1>. QED
  BY <1>1 DEF Spaces!Call

LEMMA SeenPromise ==
  ASSUME NEW d \in DOMAIN Memories, NEW P \in SUBSET Pages,
         Promises' = Promises \cup ({d} \X P),
         Memories' = Memories, cr3' = cr3, pend' = pend
  PROVE  Spaces!Call
<1>1. Spaces!Promise(d, P)
  BY DEF Spaces!Promise
<1>. QED
  BY <1>1 DEF Spaces!Call

LEMMA SeenSwitch ==
  ASSUME NEW d \in DOMAIN Memories \cup {KDir}, cr3' = d,
         Memories' = Memories, Promises' = Promises, pend' = pend
  PROVE  Spaces!Call
<1>1. Spaces!Activate(d)
  BY DEF Spaces!Activate
<1>. QED
  BY <1>1 DEF Spaces!Call

LEMMA SeenAccess ==
  ASSUME NEW op \in Accesses, pend = None \/ pend = op, Spaces!Access(op)
  PROVE  Seen
<1>1. op # None
  BY NoneAssumption
<1>. QED
  BY <1>1 DEF Seen, Spaces!Next

-----------------------------------------------------------------------------
(* What is promised is promised in a space that exists, and what the TLB   *)
(* lets through is allowed in the active space.                            *)
RegLive == \A i \in DOMAIN regions : regions[i].dir \in DOMAIN dirs

TlbTrue == \A p \in Pages : tlb[p] # None /\ tlb[p].rw => Memories[cr3][p].writable

SpacesInv == StoreInv /\ RegLive /\ TlbTrue

LEMMA MemoriesDomain == DOMAIN Memories = DOMAIN dirs
BY DEF Memories

LEMMA TlbHome ==
  ASSUME CpuInv, NEW p \in Pages, tlb[p] # None
  PROVE  cr3 \in DOMAIN dirs
<1>1. <<cr3, p>> \in DOMAIN View(dirs, tabs)
  BY DEF CpuInv, TlbOK
<1>. QED
  BY <1>1 DEF View

LEMMA PromisesKept ==
  ASSUME RegLive, regions' = regions, DOMAIN dirs \subseteq DOMAIN dirs'
  PROVE  RegLive' /\ Promises' = Promises
<1>1. RegLive'
  BY DEF RegLive
<1>2. \A d, p : Promised(d, p)' <=> Promised(d, p)
  BY DEF Promised
<1>3. \A d, p : Promised(d, p) => d \in DOMAIN dirs
  BY DEF Promised, RegLive
<1>4. Promises' = {x \in (DOMAIN dirs') \X Pages : Promised(x[1], x[2])}
  BY <1>2 DEF Promises
<1>5. Promises' = Promises
  BY <1>3, <1>4 DEF Promises
<1>. QED
  BY <1>1, <1>5

LEMMA TlbTrueKept ==
  ASSUME CpuInv, TlbTrue, cr3' = cr3,
         \A p \in Pages : \/ tlb'[p] = None
                          \/ /\ tlb'[p] = tlb[p]
                             /\ cr3 \in DOMAIN dirs => Memories'[cr3][p] = Memories[cr3][p]
  PROVE  TlbTrue'
<1>. SUFFICES ASSUME NEW p \in Pages, tlb'[p] # None, tlb'[p].rw
              PROVE  Memories'[cr3'][p].writable
  BY DEF TlbTrue
<1>1. tlb[p] # None /\ tlb[p].rw
  OBVIOUS
<1>2. cr3 \in DOMAIN dirs
  BY <1>1, TlbHome
<1>3. Memories'[cr3'][p] = Memories[cr3][p]
  BY <1>2
<1>4. Memories[cr3][p].writable
  BY <1>1 DEF TlbTrue
<1>. QED
  BY <1>3, <1>4

(* The TLB is empty.                                                       *)
LEMMA TlbTrueFlushed ==
  ASSUME tlb' = Flushed
  PROVE  TlbTrue'
BY DEF TlbTrue, Flushed

(* One page changes and is flushed.                                        *)
LEMMA TlbTrueAt ==
  ASSUME CpuInv, MemInv, TlbTrue, cr3' = cr3, NEW d \in DOMAIN dirs, NEW p \in Pages, NEW v,
         tlb' = [tlb EXCEPT ![p] = None], Memories' = WithPage(Memories, d, p, v)
  PROVE  TlbTrue'
<1>1. tlb \in [Pages -> Entries \cup {None}]
  BY DEF CpuInv, TlbOK
<1>2. ASSUME NEW q \in Pages, q # p, cr3 \in DOMAIN dirs
      PROVE  Memories'[cr3][q] = Memories[cr3][q]
  <2>1. DOMAIN Memories = DOMAIN dirs /\ DOMAIN Memories[d] = Pages
    BY DEF Memories
  <2>. QED
    BY <1>2, <2>1 DEF WithPage
<1>3. tlb'[p] = None /\ \A q \in Pages : q # p => tlb'[q] = tlb[q]
  BY <1>1
<1>. QED
  BY <1>2, <1>3, TlbTrueKept

-----------------------------------------------------------------------------
(* The steps.                                                              *)

LEMMA SeenLoad ==
  ASSUME NEW op, ~op.write, cr3 \in DOMAIN Memories, cr3 # KDir,
         Memories[cr3][op.page].mapped, Memories' = Memories,
         Promises' = Promises, cr3' = cr3, pend' = None
  PROVE  Spaces!Access(op)
<1>1. Spaces!Load(op)
  BY DEF Spaces!Load, Spaces!Memory
<1>. QED
  BY <1>1 DEF Spaces!Access

LEMMA SeenStore ==
  ASSUME NEW op, op.write, cr3 \in DOMAIN Memories, cr3 # KDir,
         Memories[cr3][op.page].mapped, Memories[cr3][op.page].writable,
         Memories' = WithPage(Memories, cr3, op.page,
                              [Memories[cr3][op.page] EXCEPT !.val = op.val]),
         Promises' = Promises, cr3' = cr3, pend' = None
  PROVE  Spaces!Access(op)
<1>1. Spaces!Store(op)
  BY DEF Spaces!Store, Spaces!Memory, WithPage
<1>. QED
  BY <1>1 DEF Spaces!Access

LEMMA SeenFault ==
  ASSUME NEW op, pend' = op, cr3' = cr3, Promises' = Promises,
         \/ Memories' = Memories
         \/ <<cr3, op.page>> \in Promises /\ Spaces!Map(cr3, op.page, TRUE)
  PROVE  Spaces!Access(op)
<1>1. Spaces!Fault(op)
  BY DEF Spaces!Fault
<1>. QED
  BY <1>1 DEF Spaces!Access

LEMMA KernelNoSpace ==
  ASSUME MemInv
  PROVE  KDir \notin DOMAIN dirs
BY MemView, VmmAssumption DEF MemInv, Typed

(* The frames stay as they are.                                            *)
LEMMA SameMemories ==
  ASSUME StoreInv, UNCHANGED <<dirs, tabs, data>>
  PROVE  StoreInv' /\ Memories' = Memories
<1>1. \A d, q : Entry(d, q)' = Entry(d, q)
  BY DEF Entry, table_for, Dir
<1>. QED
  BY <1>1 DEF StoreInv, Memories, Shown

(* What the CPU uses for a page is mapped in the active space.             *)
LEMMA TranslationShown ==
  ASSUME VmmInv, NEW p \in Pages, Translation(p) # None
  PROVE  /\ cr3 \in DOMAIN dirs /\ cr3 # KDir
         /\ View(dirs, tabs)[<<cr3, p>>] # None
         /\ View(dirs, tabs)[<<cr3, p>>].frame = Translation(p).frame
         /\ Translation(p).rw => ref[Translation(p).frame] = 1
         /\ Memories[cr3][p].mapped
         /\ Entry(cr3, p).rw => Memories[cr3][p].writable
<1>1. MemInv /\ CpuInv
  BY DEF VmmInv
<1>2. /\ Entry(cr3, p) \in Entries \cup {None}
      /\ Entry(cr3, p) # None =>
           /\ cr3 \in DOMAIN dirs
           /\ View(dirs, tabs)[<<cr3, p>>] = Entry(cr3, p)
           /\ Entry(cr3, p).rw => ref[Entry(cr3, p).frame] = 1
      /\ tlb[p] # None => /\ Entry(cr3, p) # None
                          /\ tlb[p].frame = Entry(cr3, p).frame
                          /\ tlb[p].rw => ref[tlb[p].frame] = 1
  BY <1>1, CpuAt
<1>3. Entry(cr3, p) # None /\ cr3 \in DOMAIN dirs
  BY <1>2 DEF Translation
<1>4. cr3 # KDir
  BY <1>1, <1>3, KernelNoSpace
<1>. DEFINE w == Entry(cr3, p).rw \/ Entry(cr3, p).cow
            m == Memories[cr3][p]
<1>5. /\ m = [mapped |-> TRUE, val |-> data[Entry(cr3, p).frame], writable |-> w]
      /\ Entry(cr3, p).rw => w
  BY <1>3 DEF Memories, Shown
<1>6. Memories[cr3][p].mapped /\ (Entry(cr3, p).rw => Memories[cr3][p].writable)
  <2>. HIDE DEF m, w
  <2>1. m.mapped /\ m.writable = w
    BY <1>5
  <2>. QED
    BY <2>1, <1>5 DEF m
<1>. QED
  BY <1>2, <1>3, <1>4, <1>6 DEF Translation

(* An access that goes through.                                            *)
Stored(op) == WithPage(Memories, cr3, op.page, [Memories[cr3][op.page] EXCEPT !.val = op.val])

LEMMA PerformShows ==
  ASSUME VmmInv, StoreInv, NEW op \in Accesses, Perform(op)
  PROVE  /\ StoreInv' /\ dirs' = dirs /\ cr3 \in DOMAIN dirs /\ cr3 # KDir
         /\ Memories[cr3][op.page].mapped
         /\ Memories' = IF op.write THEN Stored(op) ELSE Memories
<1>. DEFINE p == op.page
            e == Translation(p)
<1>1. p \in Pages /\ MemInv /\ CpuInv
  BY AccessPage DEF VmmInv
<1>2. /\ ref' = ref /\ dirs' = dirs /\ tabs' = tabs /\ lost' = lost
      /\ e # None /\ (op.write => e.rw)
      /\ data' = IF op.write THEN [data EXCEPT ![e.frame] = op.val] ELSE data
  BY DEF Perform, Permits
<1>3. /\ cr3 \in DOMAIN dirs /\ cr3 # KDir
      /\ View(dirs, tabs)[<<cr3, p>>] # None
      /\ View(dirs, tabs)[<<cr3, p>>].frame = e.frame
      /\ e.rw => ref[e.frame] = 1
      /\ Memories[cr3][p].mapped
  BY <1>1, <1>2, TranslationShown
<1>4. CASE ~op.write
  <2>1. dirs' = dirs /\ tabs' = tabs /\ data' = data
    BY <1>2, <1>4
  <2>2. StoreInv' /\ Memories' = Memories
    BY <2>1, SameMemories
  <2>. QED
    BY <1>3, <1>4, <2>1, <2>2
<1>5. CASE op.write
  <2>1. data' = [data EXCEPT ![e.frame] = op.val] /\ ref[e.frame] = 1
    BY <1>2, <1>3, <1>5
  <2>. HIDE DEF e, p
  <2>2. /\ StoreInv'
        /\ Memories' = WithPage(Memories, cr3, p, [Memories[cr3][p] EXCEPT !.val = op.val])
    <3>. DEFINE f == e.frame
                v == op.val
    <3>1. data' = [data EXCEPT ![f] = v] /\ ref[f] = 1
      BY <2>1
    <3>2. View(dirs, tabs)[<<cr3, p>>] # None /\ View(dirs, tabs)[<<cr3, p>>].frame = f
      BY <1>3
    <3>3. ref' = ref /\ dirs' = dirs /\ tabs' = tabs /\ lost' = lost
      BY <1>2
    <3>4. MemInv /\ StoreInv /\ cr3 \in DOMAIN dirs /\ p \in Pages
      BY <1>1, <1>3
    <3>. HIDE DEF f, v
    <3>5. /\ StoreInv'
          /\ Memories' = WithPage(Memories, cr3, p, [Memories[cr3][p] EXCEPT !.val = v])
      BY ONLY <3>1, <3>2, <3>3, <3>4, StoreShows
    <3>. QED
      BY <3>5 DEF v
  <2>3. Memories' = Stored(op)
    BY <2>2 DEF Stored, p
  <2>. QED
    BY <1>2, <1>3, <1>5, <2>2, <2>3 DEF p
<1>. QED
  BY <1>4, <1>5

LEMMA PerformSeen ==
  ASSUME VmmInv, SpacesInv, NEW op \in Accesses, pend = None \/ pend = op, Perform(op)
  PROVE  Seen /\ SpacesInv'
<1>. DEFINE p == op.page
            e == Translation(p)
<1>1. p \in Pages /\ MemInv /\ CpuInv /\ StoreInv /\ RegLive /\ TlbTrue
  BY AccessPage DEF VmmInv, SpacesInv
<1>2. /\ cr3' = cr3 /\ regions' = regions /\ pend' = None
      /\ tlb' = [tlb EXCEPT ![p] = e] /\ e # None /\ (op.write => e.rw)
  BY DEF Perform, Permits
<1>3. /\ StoreInv' /\ dirs' = dirs /\ cr3 \in DOMAIN dirs /\ cr3 # KDir
      /\ Memories[cr3][p].mapped
      /\ Memories' = IF op.write THEN Stored(op) ELSE Memories
  BY <1>1, PerformShows
<1>4. tlb \in [Pages -> Entries \cup {None}]
  BY <1>1 DEF CpuInv, TlbOK
<1>5. DOMAIN Memories = DOMAIN dirs /\ DOMAIN Memories[cr3] = Pages
  BY <1>3 DEF Memories
<1>6. RegLive' /\ Promises' = Promises
  BY <1>1, <1>2, <1>3, PromisesKept
<1>7. e.rw => Memories[cr3][p].writable
  <2>1. tlb[p] # None /\ tlb[p].rw => Memories[cr3][p].writable
    BY <1>1 DEF TlbTrue
  <2>2. Entry(cr3, p).rw => Memories[cr3][p].writable
    BY <1>1, <1>2, TranslationShown
  <2>. QED
    BY <2>1, <2>2 DEF Translation
<1>8. ASSUME \A q \in Pages : Memories'[cr3][q].writable = Memories[cr3][q].writable
      PROVE  TlbTrue'
  <2>. SUFFICES ASSUME NEW q \in Pages, tlb'[q] # None, tlb'[q].rw
                PROVE  Memories'[cr3'][q].writable
    BY DEF TlbTrue
  <2>1. CASE q = p
    <3>1. tlb'[q] = e
      BY <1>1, <1>2, <1>4, <2>1
    <3>. QED
      BY <3>1, <2>1, <1>2, <1>7, <1>8
  <2>2. CASE q # p
    <3>1. tlb'[q] = tlb[q]
      BY <1>2, <1>4, <2>2
    <3>2. Memories[cr3][q].writable
      BY <1>1, <3>1 DEF TlbTrue
    <3>. QED
      BY <3>2, <1>2, <1>8
  <2>. QED
    BY <2>1, <2>2
<1>9. CASE ~op.write
  <2>1. Memories' = Memories
    BY <1>3, <1>9
  <2>2. Spaces!Access(op)
    BY <1>2, <1>3, <1>5, <1>6, <1>9, <2>1, SeenLoad
  <2>3. Seen
    BY <2>2, SeenAccess
  <2>4. TlbTrue'
    BY <1>8, <2>1
  <2>. QED
    BY <1>3, <1>6, <2>3, <2>4 DEF SpacesInv
<1>10. CASE op.write
  <2>. HIDE DEF e, p
  <2>1. Memories' = WithPage(Memories, cr3, p, [Memories[cr3][p] EXCEPT !.val = op.val])
    BY <1>3, <1>10 DEF Stored, p
  <2>2. Memories[cr3][p].writable
    BY <1>2, <1>7, <1>10
  <2>3. Spaces!Access(op)
    BY <1>2, <1>3, <1>5, <1>6, <1>10, <2>1, <2>2, SeenStore DEF p
  <2>4. Seen
    BY <2>3, SeenAccess
  <2>5. TlbTrue'
    <3>1. \A q \in Pages : Memories'[cr3][q].writable = Memories[cr3][q].writable
      <4>. DEFINE m == [Memories[cr3][p] EXCEPT !.val = op.val]
      <4>1. m.writable = Memories[cr3][p].writable
        <5>1. Entry(cr3, p) # None
          BY <1>1, <1>2, TranslationShown, EntryIs DEF EntryIn, e
        <5>2. Memories[cr3][p] = [mapped |-> TRUE, val |-> data[Entry(cr3, p).frame],
                                  writable |-> Entry(cr3, p).rw \/ Entry(cr3, p).cow]
          BY <1>1, <1>3, <5>1 DEF Memories, Shown
        <5>. QED
          BY <5>2
      <4>. HIDE DEF m
      <4>2. Memories' = WithPage(Memories, cr3, p, m)
        BY <2>1 DEF m
      <4>3. Memories'[cr3][p] = m /\ \A q \in Pages : q # p => Memories'[cr3][q] = Memories[cr3][q]
        BY <1>1, <1>3, <1>5, <4>2 DEF WithPage
      <4>. QED
        BY <4>1, <4>3
    <3>. QED
      BY <3>1, <1>8
  <2>. QED
    BY <1>3, <1>6, <2>4, <2>5 DEF SpacesInv
<1>. QED
  BY <1>9, <1>10

(* Nothing that is visible changes.                                        *)
LEMMA UnseenKeeps ==
  ASSUME VmmInv, SpacesInv, StoreInv', Memories' = Memories, regions' = regions,
         DOMAIN dirs' = DOMAIN dirs, cr3' = cr3,
         \A p \in Pages : tlb'[p] = None \/ tlb'[p] = tlb[p]
  PROVE  SpacesInv' /\ Promises' = Promises
<1>1. RegLive' /\ Promises' = Promises
  BY PromisesKept DEF SpacesInv
<1>2. TlbTrue'
  BY TlbTrueKept DEF SpacesInv, VmmInv
<1>. QED
  BY <1>1, <1>2 DEF SpacesInv

LEMMA MappedKeeps ==
  ASSUME VmmInv, SpacesInv, StoreInv', regions' = regions, DOMAIN dirs' = DOMAIN dirs,
         cr3' = cr3, NEW d \in DOMAIN dirs, NEW p \in Pages, NEW v,
         tlb' = [tlb EXCEPT ![p] = None], Memories' = WithPage(Memories, d, p, v)
  PROVE  SpacesInv' /\ Promises' = Promises
<1>1. RegLive' /\ Promises' = Promises
  BY PromisesKept DEF SpacesInv
<1>2. TlbTrue'
  BY TlbTrueAt DEF SpacesInv, VmmInv
<1>. QED
  BY <1>1, <1>2 DEF SpacesInv

LEMMA IsrSeen ==
  ASSUME VmmInv, SpacesInv, NEW op \in Accesses, pend = None \/ pend = op, isr_handler(op)
  PROVE  Seen /\ SpacesInv'
<1>. DEFINE p == op.page
<1>1. p \in Pages /\ MemInv /\ CpuInv /\ StoreInv /\ RegLive /\ TlbTrue
  BY AccessPage DEF VmmInv, SpacesInv
<1>2. cr3' = cr3 /\ regions' = regions /\ pend' = op
  BY DEF isr_handler, Resolve, GiveUp
<1>3. tlb \in [Pages -> Entries \cup {None}]
  BY <1>1 DEF CpuInv, TlbOK
<1>4. ASSUME Memories' = Memories, StoreInv', DOMAIN dirs' = DOMAIN dirs,
             \A q \in Pages : tlb'[q] = None \/ tlb'[q] = tlb[q]
      PROVE  Seen /\ SpacesInv'
  <2>1. SpacesInv' /\ Promises' = Promises
    BY <1>2, <1>4, UnseenKeeps
  <2>2. Spaces!Access(op)
    BY <1>2, <1>4, <2>1, SeenFault
  <2>. QED
    BY <2>1, <2>2, SeenAccess
<1>5. CASE demand_handle(p)
  <2>1. Translation(p) = None /\ Promised(cr3, p) /\ vmm_map_alloc(cr3, p, TRUE)
    BY <1>5 DEF demand_handle
  <2>2. cr3 \in DOMAIN dirs /\ <<cr3, p>> \in Promises
    BY <1>1, <2>1 DEF Promised, RegLive, Promises
  <2>3. Entry(cr3, p) = None
    BY <2>1 DEF Translation
  <2>4. TRUE \in BOOLEAN
    OBVIOUS
  <2>5. /\ StoreInv' /\ DOMAIN dirs' = DOMAIN dirs
        /\ ~Memories[cr3][p].mapped
        /\ Memories' = WithPage(Memories, cr3, p,
                                [mapped |-> TRUE, val |-> Zero, writable |-> TRUE])
    BY <1>1, <2>1, <2>2, <2>3, <2>4, MapAllocShows
  <2>6. tlb' = [tlb EXCEPT ![p] = None]
    BY <1>1, <2>1, <2>2, <2>3, <2>4, MapAllocMem
  <2>. HIDE DEF p
  <2>7. SpacesInv' /\ Promises' = Promises
    BY <1>1, <1>2, <2>2, <2>5, <2>6, MappedKeeps
  <2>8. Spaces!Map(cr3, p, TRUE)
    BY <1>2, <2>5, <2>7, SeenMap
  <2>9. Spaces!Access(op)
    BY <1>2, <2>2, <2>7, <2>8, SeenFault DEF p
  <2>. QED
    BY <2>7, <2>9, SeenAccess
<1>6. CASE CowFault(op) /\ vmm_cow_handle(p)
  <2>1. cr3 \in DOMAIN dirs
    BY <1>1, <1>6, CpuAt DEF CowFault
  <2>2. StoreInv' /\ DOMAIN dirs' = DOMAIN dirs /\ Memories' = Memories
    BY <1>1, <1>6, <2>1, CowShows
  <2>3. tlb' = [tlb EXCEPT ![p] = None]
    BY <1>6 DEF vmm_cow_handle, CowInPlace, CowCopy, vmm_flush
  <2>4. \A q \in Pages : tlb'[q] = None \/ tlb'[q] = tlb[q]
    BY <1>1, <1>3, <2>3
  <2>. QED
    BY <2>2, <2>4, <1>4
<1>7. CASE demand_handle_returns_0(p)
  <2>1. CASE vmm_map_alloc_fails(cr3, p)
    <3>1. StoreInv' /\ dirs' = dirs /\ tlb' = tlb /\ Memories' = Memories
      BY <1>1, <2>1, MapFailsShows
    <3>. QED
      BY <3>1, <1>4
  <2>2. CASE UNCHANGED <<frameVars, tlb>>
    <3>1. dirs' = dirs /\ tabs' = tabs /\ data' = data /\ tlb' = tlb
      BY <2>2 DEF frameVars
    <3>2. \A d, q : Entry(d, q)' = Entry(d, q)
      BY <3>1 DEF Entry, table_for, Dir
    <3>3. StoreInv' /\ Memories' = Memories
      BY <1>1, <3>1, <3>2 DEF StoreInv, Memories, Shown
    <3>. QED
      BY <3>1, <3>3, <1>4
  <2>. QED
    BY <1>7, <2>1, <2>2 DEF demand_handle_returns_0
<1>. QED
  BY <1>5, <1>6, <1>7 DEF isr_handler, Resolve, GiveUp

LEMMA AccessSeen ==
  ASSUME VmmInv, SpacesInv, (\E op \in Accesses : Issue(op)) \/ Rerun
  PROVE  Seen /\ SpacesInv'
<1>1. CASE \E op \in Accesses : Issue(op)
  BY <1>1, PerformSeen, IsrSeen DEF Issue, Running
<1>2. CASE Rerun
  <2>1. pend \in Accesses
    BY <1>2 DEF Rerun, VmmInv, FaultInv
  <2>. QED
    BY <1>2, <2>1, PerformSeen, IsrSeen DEF Rerun
<1>. QED
  BY <1>1, <1>2

LEMMA MapCallSeen ==
  ASSUME VmmInv, SpacesInv, NEW d \in DOMAIN dirs, NEW p \in Pages, NEW w \in BOOLEAN,
         Running, Entry(d, p) = None, vmm_map_alloc(d, p, w) \/ vmm_map_alloc_fails(d, p),
         UNCHANGED <<cr3, regions, pend, halted>>
  PROVE  Seen /\ SpacesInv'
<1>1. MemInv /\ CpuInv /\ StoreInv /\ tlb \in [Pages -> Entries \cup {None}]
  BY DEF VmmInv, SpacesInv, CpuInv, TlbOK
<1>2. CASE vmm_map_alloc(d, p, w)
  <2>1. /\ StoreInv' /\ DOMAIN dirs' = DOMAIN dirs
        /\ ~Memories[d][p].mapped
        /\ Memories' = WithPage(Memories, d, p,
                                [mapped |-> TRUE, val |-> Zero, writable |-> w])
    BY <1>1, <1>2, MapAllocShows
  <2>2. tlb' = [tlb EXCEPT ![p] = None]
    BY <1>1, <1>2, MapAllocMem
  <2>3. SpacesInv' /\ Promises' = Promises
    BY <2>1, <2>2, MappedKeeps
  <2>4. Spaces!Map(d, p, w) /\ d \in DOMAIN Memories
    BY <2>1, <2>3, SeenMap, MemoriesDomain
  <2>5. Spaces!Call
    BY <2>4 DEF Spaces!Call
  <2>. QED
    BY <2>3, <2>5, SeenCall DEF Running
<1>3. CASE vmm_map_alloc_fails(d, p)
  <2>1. StoreInv' /\ dirs' = dirs /\ tlb' = tlb /\ Memories' = Memories
    BY <1>1, <1>3, MapFailsShows
  <2>2. SpacesInv' /\ Promises' = Promises
    BY <2>1, UnseenKeeps
  <2>. QED
    BY <2>1, <2>2, SeenIdle
<1>. QED
  BY <1>2, <1>3

(* A space is added.                                                       *)
LEMMA JoinedKeeps ==
  ASSUME VmmInv, SpacesInv, StoreInv', regions' = regions, NEW d, d \notin DOMAIN dirs,
         DOMAIN dirs' = DOMAIN dirs \cup {d}, NEW m, Memories' = Put(Memories, d, m),
         cr3' = cr3, tlb' = tlb \/ tlb' = Flushed
  PROVE  SpacesInv' /\ Promises' = Promises
<1>1. RegLive' /\ Promises' = Promises
  BY PromisesKept DEF SpacesInv
<1>2. CASE tlb' = tlb
  <2>1. cr3 \in DOMAIN dirs => Memories'[cr3] = Memories[cr3]
    BY MemoriesDomain DEF Put
  <2>2. TlbTrue'
    BY <1>2, <2>1, TlbTrueKept DEF SpacesInv, VmmInv
  <2>. QED
    BY <1>1, <2>2 DEF SpacesInv
<1>3. CASE tlb' = Flushed
  BY <1>1, <1>3, TlbTrueFlushed DEF SpacesInv
<1>. QED
  BY <1>2, <1>3

LEMMA RoomFor ==
  ASSUME MemInv, RoomForSpace, NEW d \in Free
  PROVE  Cardinality(DOMAIN dirs \cup {d}) <= RefMax
<1>1. IsFiniteSet(DOMAIN dirs) /\ d \notin DOMAIN dirs
  BY MemView, FreeIs, VmmAssumption, FS_Subset DEF MemInv, Typed
<1>2. /\ Cardinality(DOMAIN dirs) \in Nat
      /\ Cardinality(DOMAIN dirs \cup {d}) = Cardinality(DOMAIN dirs) + 1
  BY <1>1, FS_CardinalityType, FS_AddElement
<1>3. Cardinality(DOMAIN dirs) < MaxSpaces
  BY DEF RoomForSpace
<1>. QED
  BY <1>2, <1>3, VmmAssumption

LEMMA ForkSeen ==
  ASSUME VmmInv, SpacesInv, Fork
  PROVE  Seen /\ SpacesInv'
<1>1. MemInv /\ CpuInv /\ StoreInv /\ cr3 \in Space /\ pend = None
  BY DEF VmmInv, SpacesInv, CpuInv, Fork, Running, Space
<1>2. UNCHANGED <<regions, pend, halted>> /\ RoomForSpace
  BY DEF Fork
<1>3. ASSUME NEW d \in Free, vmm_clone_cow(cr3, d), vmm_switch(cr3)
      PROVE  Seen /\ SpacesInv'
  <2>1. Cardinality(DOMAIN dirs \cup {d}) <= RefMax
    BY <1>1, <1>2, RoomFor
  <2>2. /\ StoreInv' /\ DOMAIN dirs' = DOMAIN dirs \cup {d}
        /\ Memories' = Put(Memories, d, MemoryOf(cr3))
    BY <1>1, <1>3, <2>1, CloneCowShows
  <2>3. d \in Frames /\ d \notin DOMAIN dirs
    BY <1>1, <1>3, FreeIs
  <2>4. cr3' = cr3 /\ tlb' = Flushed
    BY <1>3 DEF vmm_switch
  <2>5. SpacesInv' /\ Promises' = Promises
    BY <1>2, <2>2, <2>3, <2>4, JoinedKeeps
  <2>6. Spaces!Call
    BY <1>1, <1>2, <2>2, <2>3, <2>4, <2>5, SeenClone, MemoriesDomain DEF Space
  <2>. QED
    BY <1>1, <2>5, <2>6, SeenCall
<1>4. CASE vmm_clone_cow_fails(cr3) /\ UNCHANGED <<cr3, tlb>>
  <2>1. StoreInv' /\ dirs' = dirs /\ Memories' = Memories
    BY <1>1, <1>4, CloneCowFailsShows
  <2>2. SpacesInv' /\ Promises' = Promises
    BY <1>2, <1>4, <2>1, UnseenKeeps
  <2>. QED
    BY <1>2, <1>4, <2>1, <2>2, SeenIdle
<1>. QED
  BY <1>3, <1>4 DEF Fork

LEMMA RegionSeen ==
  ASSUME VmmInv, SpacesInv, NEW d \in DOMAIN dirs, NEW di \in DirIdx, demand_region(d, di)
  PROVE  Seen /\ SpacesInv'
<1>1. StoreInv /\ RegLive /\ TlbTrue /\ regions \in Seq([dir : Frames, di : DirIdx])
  BY DEF SpacesInv, VmmInv, RegInv
<1>2. /\ dirs' = dirs /\ tabs' = tabs /\ data' = data
      /\ cr3' = cr3 /\ tlb' = tlb /\ pend' = pend /\ pend = None
  BY DEF demand_region, frameVars, cpuVars, Running
<1>3. StoreInv' /\ Memories' = Memories
  BY <1>1, <1>2, SameMemories
<1>4. TlbTrue'
  BY <1>1, <1>2, <1>3 DEF TlbTrue
<1>5. CASE regions' = regions
  <2>1. SpacesInv' /\ Promises' = Promises
    BY <1>2, <1>3, <1>5, UnseenKeeps
  <2>. QED
    BY <1>2, <1>3, <2>1, SeenIdle
<1>6. CASE regions' = Append(regions, [dir |-> d, di |-> di])
  <2>. DEFINE r == [dir |-> d, di |-> di]
              n == Len(regions) + 1
  <2>1. /\ DOMAIN regions = 1..Len(regions) /\ Len(regions) \in Nat
        /\ DOMAIN regions' = 1..n
        /\ \A i \in DOMAIN regions : regions'[i] = regions[i]
        /\ regions'[n] = r
    <3>1. Len(regions) \in Nat
      BY <1>1
    <3>2. r \in [dir : Frames \cup {d}, di : DirIdx]
      OBVIOUS
    <3>. HIDE DEF r
    <3>3. \A q : DOMAIN Append(regions, q) = 1..(Len(regions) + 1)
      BY <1>1
    <3>. QED
      BY <1>1, <1>6, <3>1, <3>3 DEF r
  <2>2. r.dir = d /\ r.di = di
    OBVIOUS
  <2>3. n \in DOMAIN regions' /\ \A i \in DOMAIN regions' : i \in DOMAIN regions \/ i = n
    BY <2>1
  <2>. HIDE DEF r, n
  <2>4. RegLive'
    BY <1>1, <1>2, <2>1, <2>2, <2>3 DEF RegLive
  <2>5. \A e, p : Promised(e, p)' <=> Promised(e, p) \/ (e = d /\ p[1] = di)
    <3>. SUFFICES ASSUME NEW e, NEW p
                  PROVE  Promised(e, p)' <=> Promised(e, p) \/ (e = d /\ p[1] = di)
      OBVIOUS
    <3>. DEFINE want == [dir |-> e, di |-> p[1]]
    <3>1. r = want <=> e = d /\ p[1] = di
      <4>1. r = want => e = d /\ p[1] = di
        <5>1. want.dir = e /\ want.di = p[1]
          OBVIOUS
        <5>. HIDE DEF want
        <5>. QED
          BY <5>1, <2>2
      <4>2. e = d /\ p[1] = di => r = want
        BY DEF r
      <4>. QED
        BY <4>1, <4>2
    <3>2. Promised(e, p) <=> \E i \in DOMAIN regions : regions[i] = want
      BY DEF Promised
    <3>3. Promised(e, p)' <=> \E i \in DOMAIN regions' : regions'[i] = want
      BY DEF Promised
    <3>4. DOMAIN regions \subseteq DOMAIN regions'
      BY <2>1, <2>3 DEF n
    <3>. HIDE DEF want
    <3>. QED
      BY <2>1, <2>3, <3>1, <3>2, <3>3, <3>4
  <2>6. Promises' = Promises \cup ({d} \X ({di} \X TabIdx))
    <3>1. Promises' = {x \in (DOMAIN dirs) \X Pages :
                         Promised(x[1], x[2]) \/ (x[1] = d /\ x[2][1] = di)}
      BY <1>2, <2>5 DEF Promises
    <3>2. \A x : x \in {d} \X ({di} \X TabIdx)
             <=> x \in (DOMAIN dirs) \X Pages /\ x[1] = d /\ x[2][1] = di
      BY DEF Pages
    <3>. QED
      BY <3>1, <3>2 DEF Promises
  <2>7. {di} \X TabIdx \in SUBSET Pages
    BY DEF Pages
  <2>8. Spaces!Call
    BY <1>2, <1>3, <2>6, <2>7, SeenPromise, MemoriesDomain
  <2>. QED
    BY <1>2, <1>3, <1>4, <2>4, <2>8, SeenCall DEF SpacesInv
<1>. QED
  BY <1>5, <1>6 DEF demand_region

LEMMA SpacesStep ==
  ASSUME VmmInv, SpacesInv, [Next]_vars
  PROVE  Seen /\ SpacesInv'
<1>0. /\ MemInv /\ CpuInv /\ StoreInv /\ RegLive /\ TlbTrue
      /\ tlb \in [Pages -> Entries \cup {None}]
  BY DEF VmmInv, SpacesInv, CpuInv, TlbOK
<1>1. CASE Create
  <2>1. PICK d \in Free : vmm_create_dir(d)
    BY <1>1 DEF Create
  <2>2. pend = None /\ UNCHANGED <<cr3, tlb, pend, halted, regions>>
    BY <1>1 DEF Create, cpuVars, Running
  <2>3. /\ StoreInv' /\ DOMAIN dirs' = DOMAIN dirs \cup {d}
        /\ d \in Frames /\ d \notin DOMAIN dirs
        /\ Memories' = Put(Memories, d, Nothing)
    BY <1>0, <2>1, CreateShows
  <2>4. SpacesInv' /\ Promises' = Promises
    BY <2>2, <2>3, JoinedKeeps
  <2>5. Spaces!Call
    BY <2>2, <2>3, <2>4, SeenCreate, MemoriesDomain
  <2>. QED
    BY <2>2, <2>4, <2>5, SeenCall
<1>2. ASSUME NEW d \in DOMAIN dirs, NEW p \in Pages, NEW w \in Perms, MapAlloc(d, p, w)
      PROVE  Seen /\ SpacesInv'
  <2>1. w \in BOOLEAN
    BY VmmAssumption
  <2>. QED
    BY <1>2, <2>1, MapCallSeen DEF MapAlloc
<1>3. ASSUME NEW d \in DOMAIN dirs, NEW p \in Pages, Unmap(d, p)
      PROVE  Seen /\ SpacesInv'
  <2>1. /\ pend = None /\ vmm_unmap(d, p) /\ UNCHANGED <<cr3, regions, pend, halted>>
        /\ tlb' = [tlb EXCEPT ![p] = None]
    BY <1>3 DEF Unmap, Running, vmm_unmap, vmm_flush
  <2>2. /\ StoreInv' /\ DOMAIN dirs' = DOMAIN dirs
        /\ Memories[d][p].mapped
        /\ Memories' = WithPage(Memories, d, p, [mapped |-> FALSE])
    BY <1>0, <2>1, UnmapShows
  <2>3. SpacesInv' /\ Promises' = Promises
    BY <2>1, <2>2, MappedKeeps
  <2>4. Spaces!Call
    BY <2>1, <2>2, <2>3, SeenUnmap, MemoriesDomain
  <2>. QED
    BY <2>1, <2>3, <2>4, SeenCall
<1>4. ASSUME NEW s \in Space, CloneDir(s)
      PROVE  Seen /\ SpacesInv'
  <2>1. pend = None /\ UNCHANGED <<cr3, tlb, pend, halted, regions>>
    BY <1>4 DEF CloneDir, cpuVars, Running
  <2>2. ASSUME NEW d \in Free, vmm_clone_dir(s, d)
        PROVE  Seen /\ SpacesInv'
    <3>1. /\ StoreInv' /\ DOMAIN dirs' = DOMAIN dirs \cup {d}
          /\ Memories' = Put(Memories, d, MemoryOf(s))
      BY <1>0, <2>2, CloneDirShows
    <3>2. d \in Frames /\ d \notin DOMAIN dirs
      BY <1>0, FreeIs
    <3>3. SpacesInv' /\ Promises' = Promises
      BY <2>1, <3>1, <3>2, JoinedKeeps
    <3>4. Spaces!Call
      BY <2>1, <3>1, <3>2, <3>3, SeenClone, MemoriesDomain DEF Space
    <3>. QED
      BY <2>1, <3>3, <3>4, SeenCall
  <2>3. CASE vmm_clone_dir_fails(s)
    <3>1. dirs' = dirs /\ tabs' = tabs /\ data' = data
      BY <2>3 DEF vmm_clone_dir_fails, frameVars
    <3>2. StoreInv' /\ Memories' = Memories
      BY <1>0, <3>1, SameMemories
    <3>3. SpacesInv' /\ Promises' = Promises
      BY <2>1, <3>1, <3>2, UnseenKeeps
    <3>. QED
      BY <2>1, <3>2, <3>3, SeenIdle
  <2>. QED
    BY <1>4, <2>2, <2>3 DEF CloneDir
<1>5. CASE Fork
  BY <1>5, ForkSeen
<1>6. ASSUME NEW d \in DOMAIN dirs, Teardown(d)
      PROVE  Seen /\ SpacesInv'
  <2>1. /\ pend = None /\ d # cr3 /\ vmm_destroy_dir(d) /\ regions' = << >>
        /\ UNCHANGED <<cr3, tlb, pend, halted>>
    BY <1>6 DEF Teardown, demand_clear, cpuVars, Running
  <2>2. /\ StoreInv' /\ DOMAIN dirs' = DOMAIN dirs \ {d}
        /\ Memories' = Restrict(Memories, DOMAIN dirs \ {d})
    BY <1>0, <2>1, DestroyShows
  <2>3. DOMAIN regions' = {}
    BY <2>1
  <2>4. RegLive' /\ Promises' = {}
    BY <2>3 DEF RegLive, Promises, Promised
  <2>5. cr3 \in DOMAIN dirs => Memories'[cr3] = Memories[cr3]
    BY <2>1, <2>2 DEF Restrict
  <2>6. TlbTrue'
    BY <1>0, <2>1, <2>5, TlbTrueKept
  <2>7. Spaces!Call
    BY <2>1, <2>2, <2>4, SeenDestroy, MemoriesDomain
  <2>. QED
    BY <2>1, <2>2, <2>4, <2>6, <2>7, SeenCall DEF SpacesInv
<1>7. ASSUME NEW d \in Space, Switch(d)
      PROVE  Seen /\ SpacesInv'
  <2>1. /\ pend = None /\ cr3' = d /\ tlb' = Flushed
        /\ UNCHANGED <<dirs, tabs, data, regions, pend, halted>>
    BY <1>7 DEF Switch, vmm_switch, frameVars, Running
  <2>2. StoreInv' /\ Memories' = Memories
    BY <1>0, <2>1, SameMemories
  <2>3. RegLive' /\ Promises' = Promises
    BY <1>0, <2>1, PromisesKept
  <2>4. TlbTrue'
    BY <2>1, TlbTrueFlushed
  <2>5. Spaces!Call
    BY <2>1, <2>2, <2>3, SeenSwitch, MemoriesDomain DEF Space
  <2>. QED
    BY <2>1, <2>2, <2>3, <2>4, <2>5, SeenCall DEF SpacesInv
<1>8. ASSUME NEW d \in DOMAIN dirs, NEW di \in DirIdx, demand_region(d, di)
      PROVE  Seen /\ SpacesInv'
  BY <1>8, RegionSeen
<1>9. CASE (\E op \in Accesses : Issue(op)) \/ Rerun
  BY <1>9, AccessSeen
<1>10. ASSUME NEW p \in Pages, Evict(p)
       PROVE  Seen /\ SpacesInv'
  <2>1. /\ UNCHANGED <<dirs, tabs, data, cr3, regions, pend, halted>>
        /\ tlb' = [tlb EXCEPT ![p] = None]
    BY <1>10 DEF Evict, frameVars, vmm_flush
  <2>2. StoreInv' /\ Memories' = Memories
    BY <1>0, <2>1, SameMemories
  <2>3. \A q \in Pages : tlb'[q] = None \/ tlb'[q] = tlb[q]
    BY <1>0, <2>1
  <2>4. SpacesInv' /\ Promises' = Promises
    BY <2>1, <2>2, <2>3, UnseenKeeps
  <2>. QED
    BY <2>1, <2>2, <2>4, SeenIdle
<1>11. CASE UNCHANGED vars
  <2>1. UNCHANGED <<dirs, tabs, data, cr3, tlb, regions, pend, halted>>
    BY <1>11 DEF vars
  <2>2. StoreInv' /\ Memories' = Memories
    BY <1>0, <2>1, SameMemories
  <2>3. SpacesInv' /\ Promises' = Promises
    BY <2>1, <2>2, UnseenKeeps
  <2>. QED
    BY <2>1, <2>2, <2>3, SeenIdle
<1>. QED
  BY <1>1, <1>2, <1>3, <1>4, <1>5, <1>6, <1>7, <1>8, <1>9, <1>10, <1>11 DEF Next, Halt

(* Address spaces over shared frames, with copy-on-write, demand paging    *)
(* and a TLB that keeps what it likes, behave as memories that are private *)
(* to each space (vmm.c:236-238): a clone starts with the contents of its  *)
(* source, a store is seen in the space it was made in and in no other,    *)
(* and a page that was promised appears, zeroed, on first touch.           *)
THEOREM ImplementsSpaces == Spec => SpacesSpec
<1>1. Init => Spaces!Init
  <2>. SUFFICES ASSUME Init PROVE Spaces!Init
    OBVIOUS
  <2>1. dirs = << >> /\ regions = << >> /\ cr3 = KDir /\ pend = None
    BY DEF Init
  <2>2. DOMAIN dirs = {}
    BY <2>1
  <2>3. Memories = << >>
    BY <2>2 DEF Memories
  <2>4. Promises = {}
    BY <2>2 DEF Promises
  <2>. QED
    BY <2>1, <2>3, <2>4 DEF Spaces!Init
<1>2. Init => SpacesInv
  <2>. SUFFICES ASSUME Init PROVE SpacesInv
    OBVIOUS
  <2>1. dirs = << >> /\ regions = << >> /\ tlb = Flushed
    BY DEF Init
  <2>2. DOMAIN dirs = {} /\ DOMAIN regions = {}
    BY <2>1
  <2>3. DOMAIN View(dirs, tabs) = {}
    BY <2>2 DEF View
  <2>. QED
    BY <2>1, <2>2, <2>3 DEF SpacesInv, StoreInv, Backed, RegLive, TlbTrue, Flushed
<1>3. VmmInv /\ SpacesInv /\ [Next]_vars => SpacesInv'
  BY SpacesStep
<1>4. VmmInv /\ SpacesInv /\ [Next]_vars => [Spaces!Next]_(Spaces!vars)
  BY SpacesStep DEF Seen
<1>. QED
  BY <1>1, <1>2, <1>3, <1>4, VmmInvariant, PTL DEF Spec, SpacesSpec, Spaces!Spec

-----------------------------------------------------------------------------
(* What the processes show: the promise of UnixProc.                       *)

(* A page without its permissions.                                         *)
Bare(x) == IF x.mapped THEN [mapped |-> TRUE, val |-> x.val] ELSE [mapped |-> FALSE]
BareOf(m) == [p \in Pages |-> Bare(m[p])]

(* What a process finds in the space it has: Nothing without one.          *)
Dirs == Frames \cup {KDir, None}
LocalOf(Ds, M) == [d \in Dirs |-> IF d \in Ds THEN BareOf(M[d]) ELSE Nothing]
Local == LocalOf(DOMAIN dirs, Memories)

LEMMA BareNothing == BareOf(Nothing) = Nothing
<1>1. \A p \in Pages : Bare(Nothing[p]) = [mapped |-> FALSE]
  BY DEF Bare, Nothing
<1>. QED
  BY <1>1 DEF BareOf, Nothing

LEMMA BareMapped ==
  ASSUME NEW v, NEW w
  PROVE  Bare([mapped |-> TRUE, val |-> v, writable |-> w]) = [mapped |-> TRUE, val |-> v]
BY DEF Bare

LEMMA LocalJoin ==
  ASSUME NEW Ds, NEW M, DOMAIN M = Ds, NEW d \in Dirs, d \notin Ds, NEW m
  PROVE  LocalOf(Ds \cup {d}, Put(M, d, m)) = [LocalOf(Ds, M) EXCEPT ![d] = BareOf(m)]
<1>1. \A e \in Ds : Put(M, d, m)[e] = M[e]
  BY DEF Put
<1>2. Put(M, d, m)[d] = m
  BY DEF Put
<1>. HIDE DEF Put
<1>. QED
  BY <1>1, <1>2 DEF LocalOf

LEMMA LocalNone ==
  ASSUME NEW Ds, NEW M, NEW d \in Dirs, d \notin Ds
  PROVE  LocalOf(Ds, M)[d] = Nothing /\ [LocalOf(Ds, M) EXCEPT ![d] = Nothing] = LocalOf(Ds, M)
BY DEF LocalOf

LEMMA LocalDrop ==
  ASSUME NEW Ds, NEW M, DOMAIN M = Ds, NEW d \in Dirs
  PROVE  LocalOf(Ds \ {d}, Restrict(M, Ds \ {d})) = [LocalOf(Ds, M) EXCEPT ![d] = Nothing]
<1>1. \A e \in Ds \ {d} : Restrict(M, Ds \ {d})[e] = M[e]
  BY DEF Restrict
<1>. QED
  BY <1>1 DEF LocalOf

LEMMA LocalSet ==
  ASSUME NEW Ds, NEW M, DOMAIN M = Ds, NEW d \in Dirs, d \in Ds, NEW p \in Pages,
         DOMAIN M[d] = Pages, NEW v
  PROVE  LocalOf(Ds, WithPage(M, d, p, v))
           = [LocalOf(Ds, M) EXCEPT ![d] = [LocalOf(Ds, M)[d] EXCEPT ![p] = Bare(v)]]
<1>. DEFINE N == WithPage(M, d, p, v)
<1>1. N[d][p] = v /\ \A q \in Pages : q # p => N[d][q] = M[d][q]
  BY DEF WithPage
<1>2. \A e \in Ds : e # d => N[e] = M[e]
  BY DEF WithPage
<1>. HIDE DEF N
<1>3. BareOf(N[d]) = [BareOf(M[d]) EXCEPT ![p] = Bare(v)]
  <2>1. \A q \in Pages : Bare(N[d][q]) = IF q = p THEN Bare(v) ELSE Bare(M[d][q])
    BY <1>1
  <2>. QED
    BY <2>1 DEF BareOf
<1>4. LocalOf(Ds, M)[d] = BareOf(M[d])
  BY DEF LocalOf
<1>5. \A e \in Dirs : (IF e \in Ds THEN BareOf(N[e]) ELSE Nothing)
        = IF e = d THEN [BareOf(M[d]) EXCEPT ![p] = Bare(v)]
          ELSE IF e \in Ds THEN BareOf(M[e]) ELSE Nothing
  BY <1>2, <1>3
<1>6. LocalOf(Ds, N) = [LocalOf(Ds, M) EXCEPT ![d] = [BareOf(M[d]) EXCEPT ![p] = Bare(v)]]
  BY <1>5 DEF LocalOf
<1>. QED
  BY <1>4, <1>6 DEF N

LEMMA PageShown ==
  ASSUME NEW X, NEW e
  PROVE  Bare(Sight(e, X)) = IF e = None THEN [mapped |-> FALSE]
                             ELSE [mapped |-> TRUE, val |-> X[e.frame]]
<1>1. CASE e = None
  BY <1>1 DEF Sight, Bare
<1>2. CASE e # None
  BY <1>2, BareMapped DEF Sight
<1>. QED
  BY <1>1, <1>2

LEMMA LocalIs ==
  ASSUME NEW d \in Dirs
  PROVE  [p \in Pages |-> PageOf(d, p)] = Local[d]
<1>1. \A p \in Pages : PageOf(d, p) = Bare(Shown(Entry(d, p)))
  BY PageShown DEF PageOf, Shown, Sight
<1>2. CASE d \in DOMAIN dirs
  BY <1>1, <1>2 DEF Local, LocalOf, BareOf, Memories
<1>3. CASE d \notin DOMAIN dirs
  <2>1. \A p \in Pages : Entry(d, p) = None
    BY <1>3 DEF Entry, table_for, Dir, Empty, Pages
  <2>2. \A p \in Pages : PageOf(d, p) = [mapped |-> FALSE]
    BY <2>1 DEF PageOf
  <2>. QED
    BY <1>3, <2>2 DEF Local, LocalOf, Nothing
<1>. QED
  BY <1>2, <1>3

LEMMA LocalIsNext ==
  ASSUME NEW d \in Dirs
  PROVE  [p \in Pages |-> PageOf(d, p)'] = Local'[d]
<1>1. \A p \in Pages : PageOf(d, p)' = Bare(Shown(Entry(d, p))')
  BY PageShown DEF PageOf, Shown, Sight
<1>2. CASE d \in DOMAIN dirs'
  BY <1>1, <1>2 DEF Local, LocalOf, BareOf, Memories
<1>3. CASE d \notin DOMAIN dirs'
  <2>1. \A p \in Pages : Entry(d, p)' = None
    BY <1>3 DEF Entry, table_for, Dir, Empty, Pages
  <2>2. \A p \in Pages : PageOf(d, p)' = [mapped |-> FALSE]
    BY <2>1 DEF PageOf
  <2>. QED
    BY <1>3, <2>2 DEF Local, LocalOf, Nothing
<1>. QED
  BY <1>2, <1>3

(* A process as the table tab and the spaces' contents L show it, and all  *)
(* of them by pid.                                                         *)
Dead(e) == e.state = "zombie"
Program(e) == e.pid # 0 /\ e.dir = KDir
Person(q, dead, code, prog, m) ==
  [parent |-> q, dead |-> dead, code |-> code, program |-> prog, mem |-> m]
Rec(e, L) == Person(e.ppid, Dead(e), e.code, Program(e), L[e.dir])

PidsIn(tab) == {tab[i].pid : i \in {j \in Slots : InUse(tab[j])}}
SlotIn(tab, q) == CHOOSE i \in Slots : InUse(tab[i]) /\ tab[i].pid = q
ProcsIn(tab, L) == [q \in PidsIn(tab) |-> Rec(tab[SlotIn(tab, q)], L)]

PidsApart(tab) == \A i, j \in Slots :
  InUse(tab[i]) /\ InUse(tab[j]) /\ tab[i].pid = tab[j].pid => i = j

LEMMA SlotInIs ==
  ASSUME NEW tab, NEW q \in PidsIn(tab)
  PROVE  SlotIn(tab, q) \in Slots /\ InUse(tab[SlotIn(tab, q)]) /\ tab[SlotIn(tab, q)].pid = q
BY DEF PidsIn, SlotIn

LEMMA ProcsAt ==
  ASSUME NEW tab, NEW L, PidsApart(tab), NEW i \in Slots, InUse(tab[i])
  PROVE  tab[i].pid \in DOMAIN ProcsIn(tab, L) /\ ProcsIn(tab, L)[tab[i].pid] = Rec(tab[i], L)
<1>1. tab[i].pid \in PidsIn(tab)
  BY DEF PidsIn
<1>2. SlotIn(tab, tab[i].pid) = i
  BY <1>1, SlotInIs DEF PidsApart
<1>. QED
  BY <1>1, <1>2 DEF ProcsIn

LEMMA ProcsAre ==
  ASSUME NEW tab, NEW L, NEW F, F = [q \in DOMAIN F |-> F[q]], DOMAIN F = PidsIn(tab),
         \A i \in Slots : InUse(tab[i]) => F[tab[i].pid] = Rec(tab[i], L)
  PROVE  ProcsIn(tab, L) = F
<1>1. \A q \in PidsIn(tab) : F[q] = Rec(tab[SlotIn(tab, q)], L)
  BY SlotInIs
<1>. QED
  BY <1>1 DEF ProcsIn

LEMMA ProcessesAre ==
  ASSUME table \in [Slots -> Record]
  PROVE  Processes = ProcsIn(table, Local)
<1>1. \A i \in Slots : Used(i) <=> InUse(table[i])
  BY DEF Used, InUse
<1>2. {table[i].pid : i \in {j \in Slots : Used(j)}} = PidsIn(table)
  BY <1>1 DEF PidsIn
<1>3. \A q : SlotOf(q) = SlotIn(table, q)
  BY <1>1 DEF SlotOf, SlotIn
<1>4. ASSUME NEW e \in Record PROVE ProcessOf(e) = Rec(e, Local)
  <2>1. e.dir \in Dirs
    BY DEF Record, Dirs
  <2>2. [p \in Pages |-> PageOf(e.dir, p)] = Local[e.dir]
    BY <2>1, LocalIs
  <2>. QED
    BY <2>2 DEF ProcessOf, Rec, Person, Dead, Program
<1>5. \A q \in PidsIn(table) : ProcessOf(table[SlotOf(q)]) = Rec(table[SlotIn(table, q)], Local)
  <2>. SUFFICES ASSUME NEW q \in PidsIn(table)
                PROVE  ProcessOf(table[SlotOf(q)]) = Rec(table[SlotIn(table, q)], Local)
    OBVIOUS
  <2>1. table[SlotIn(table, q)] \in Record
    BY SlotInIs
  <2>. QED
    BY <2>1, <1>3, <1>4
<1>. QED
  BY <1>2, <1>5 DEF Processes, ProcsIn

LEMMA ProcessesNext ==
  ASSUME table' \in [Slots -> Record]
  PROVE  Processes' = ProcsIn(table', Local')
<1>1. \A i \in Slots : Used(i)' <=> InUse(table'[i])
  BY DEF Used, InUse
<1>2. {table'[i].pid : i \in {j \in Slots : Used(j)'}} = PidsIn(table')
  BY <1>1 DEF PidsIn
<1>3. \A q : SlotOf(q)' = SlotIn(table', q)
  BY <1>1 DEF SlotOf, SlotIn
<1>5. \A q \in PidsIn(table') :
        ProcessOf(table[SlotOf(q)])' = Rec(table'[SlotIn(table', q)], Local')
  <2>. SUFFICES ASSUME NEW q \in PidsIn(table')
                PROVE  ProcessOf(table[SlotOf(q)])' = Rec(table'[SlotIn(table', q)], Local')
    OBVIOUS
  <2>. DEFINE i == SlotIn(table', q)
              e == table'[i]
  <2>1. e \in Record
    BY SlotInIs
  <2>2. PICK d \in Dirs : d = e.dir
    BY <2>1 DEF Record, Dirs
  <2>3. table'[SlotOf(q)'] = e
    BY <1>3
  <2>4. [p \in Pages |-> PageOf(d, p)'] = Local'[e.dir]
    BY <2>2, LocalIsNext
  <2>. HIDE DEF e, i
  <2>5. \A p \in Pages : PageOf(table[SlotOf(q)].dir, p)' = PageOf(d, p)'
    BY <2>2, <2>3 DEF PageOf, Entry, table_for, Dir
  <2>6. [p \in Pages |-> PageOf(table[SlotOf(q)].dir, p)'] = Local'[e.dir]
    BY <2>4, <2>5
  <2>7. ProcessOf(table[SlotOf(q)])' = Rec(e, Local')
    BY <2>3, <2>6 DEF ProcessOf, Rec, Person, Dead, Program
  <2>. QED
    BY <2>7 DEF e, i
<1>. QED
  BY <1>2, <1>5 DEF Processes, ProcsIn

(* Those of S that are in use look the same in tab2 and L2.                *)
Like(tab, L, tab2, L2, S) == \A j \in S :
  /\ InUse(tab2[j]) <=> InUse(tab[j])
  /\ InUse(tab[j]) => tab2[j].pid = tab[j].pid /\ Rec(tab2[j], L2) = Rec(tab[j], L)

LEMMA ProcsLike ==
  ASSUME NEW tab, NEW L, NEW tab2, NEW L2, PidsApart(tab), Like(tab, L, tab2, L2, Slots)
  PROVE  ProcsIn(tab2, L2) = ProcsIn(tab, L)
<1>. DEFINE F == ProcsIn(tab, L)
<1>1. F = [q \in DOMAIN F |-> F[q]] /\ DOMAIN F = PidsIn(tab)
  BY DEF ProcsIn
<1>2. PidsIn(tab2) = PidsIn(tab)
  BY DEF PidsIn, Like
<1>3. \A i \in Slots : InUse(tab[i]) => F[tab[i].pid] = Rec(tab[i], L)
  BY ProcsAt
<1>. HIDE DEF F
<1>4. \A i \in Slots : InUse(tab2[i]) => F[tab2[i].pid] = Rec(tab2[i], L2)
  BY <1>3 DEF Like
<1>5. ProcsIn(tab2, L2) = F
  BY <1>1, <1>2, <1>4, ProcsAre
<1>. QED
  BY <1>5 DEF F

LEMMA ProcsBirth ==
  ASSUME NEW tab, NEW L, NEW tab2, NEW L2, PidsApart(tab), NEW i \in Slots, ~InUse(tab[i]),
         InUse(tab2[i]), Like(tab, L, tab2, L2, Slots \ {i}), tab2[i].pid \notin PidsIn(tab)
  PROVE  /\ ProcsIn(tab2, L2) = Put(ProcsIn(tab, L), tab2[i].pid, Rec(tab2[i], L2))
         /\ PidsApart(tab2)
<1>. DEFINE P == ProcsIn(tab, L)
            n == tab2[i].pid
            F == Put(P, n, Rec(tab2[i], L2))
<1>1. DOMAIN P = PidsIn(tab)
  BY DEF ProcsIn
<1>2. \A j \in Slots : InUse(tab[j]) => tab[j].pid \in PidsIn(tab) /\ P[tab[j].pid] = Rec(tab[j], L)
  BY <1>1, ProcsAt
<1>3. PidsIn(tab2) = PidsIn(tab) \cup {n}
  BY DEF PidsIn, Like
<1>. HIDE DEF P
<1>4. /\ DOMAIN F = PidsIn(tab2) /\ F = [q \in DOMAIN F |-> F[q]]
      /\ F[n] = Rec(tab2[i], L2) /\ \A q \in PidsIn(tab) : q # n => F[q] = P[q]
  BY <1>1, <1>3 DEF Put
<1>. HIDE DEF F
<1>5. \A j \in Slots : InUse(tab2[j]) => F[tab2[j].pid] = Rec(tab2[j], L2)
  <2>. SUFFICES ASSUME NEW j \in Slots, InUse(tab2[j]), j # i
                PROVE  F[tab2[j].pid] = Rec(tab2[j], L2)
    BY <1>4
  <2>1. InUse(tab[j]) /\ tab2[j].pid = tab[j].pid /\ Rec(tab2[j], L2) = Rec(tab[j], L)
    BY DEF Like
  <2>2. tab[j].pid \in PidsIn(tab) /\ P[tab[j].pid] = Rec(tab[j], L)
    BY <2>1, <1>2
  <2>3. F[tab[j].pid] = P[tab[j].pid]
    BY <2>2, <1>4
  <2>. QED
    BY <2>1, <2>2, <2>3
<1>6. ProcsIn(tab2, L2) = F
  BY <1>4, <1>5, ProcsAre
<1>7. PidsApart(tab2)
  <2>1. \A j \in Slots : j # i /\ InUse(tab2[j]) =>
          InUse(tab[j]) /\ tab2[j].pid = tab[j].pid /\ tab2[j].pid # n
    BY <1>2 DEF Like
  <2>. QED
    BY <2>1 DEF PidsApart
<1>. QED
  BY <1>6, <1>7 DEF F, P

LEMMA ProcsDrop ==
  ASSUME NEW tab, NEW L, NEW tab2, NEW L2, PidsApart(tab), NEW i \in Slots, InUse(tab[i]),
         ~InUse(tab2[i]), Like(tab, L, tab2, L2, Slots \ {i})
  PROVE  ProcsIn(tab2, L2) = Restrict(ProcsIn(tab, L), DOMAIN ProcsIn(tab, L) \ {tab[i].pid})
<1>. DEFINE P == ProcsIn(tab, L)
            n == tab[i].pid
            F == Restrict(P, DOMAIN P \ {n})
<1>1. DOMAIN P = PidsIn(tab)
  BY DEF ProcsIn
<1>2. \A j \in Slots : InUse(tab[j]) => tab[j].pid \in PidsIn(tab) /\ P[tab[j].pid] = Rec(tab[j], L)
  BY <1>1, ProcsAt
<1>3. \A j \in Slots : j # i /\ InUse(tab[j]) => tab[j].pid # n
  BY DEF PidsApart
<1>4. PidsIn(tab2) = PidsIn(tab) \ {n}
  BY <1>3 DEF PidsIn, Like
<1>. HIDE DEF P
<1>5. /\ DOMAIN F = PidsIn(tab2) /\ F = [q \in DOMAIN F |-> F[q]]
      /\ \A q \in PidsIn(tab) : q # n => F[q] = P[q]
  BY <1>1, <1>4 DEF Restrict
<1>. HIDE DEF F
<1>6. \A j \in Slots : InUse(tab2[j]) => F[tab2[j].pid] = Rec(tab2[j], L2)
  <2>. SUFFICES ASSUME NEW j \in Slots, InUse(tab2[j]), j # i
                PROVE  F[tab2[j].pid] = Rec(tab2[j], L2)
    OBVIOUS
  <2>1. InUse(tab[j]) /\ tab2[j].pid = tab[j].pid /\ Rec(tab2[j], L2) = Rec(tab[j], L)
    BY DEF Like
  <2>2. tab[j].pid \in PidsIn(tab) /\ P[tab[j].pid] = Rec(tab[j], L) /\ tab[j].pid # n
    BY <2>1, <1>2, <1>3
  <2>3. F[tab[j].pid] = P[tab[j].pid]
    BY <2>2, <1>5
  <2>. QED
    BY <2>1, <2>2, <2>3
<1>7. ProcsIn(tab2, L2) = F
  BY <1>5, <1>6, ProcsAre
<1>. QED
  BY <1>7 DEF F, P

(* One process's memory changes.                                           *)
LEMMA ProcsSet ==
  ASSUME NEW tab, NEW L, NEW L2, PidsApart(tab), NEW i \in Slots, InUse(tab[i]),
         Like(tab, L, tab, L2, Slots \ {i})
  PROVE  ProcsIn(tab, L2) = [ProcsIn(tab, L) EXCEPT ![tab[i].pid] = Rec(tab[i], L2)]
<1>. DEFINE P == ProcsIn(tab, L)
            n == tab[i].pid
            F == [P EXCEPT ![n] = Rec(tab[i], L2)]
<1>1. DOMAIN P = PidsIn(tab)
  BY DEF ProcsIn
<1>2. \A j \in Slots : InUse(tab[j]) => tab[j].pid \in PidsIn(tab) /\ P[tab[j].pid] = Rec(tab[j], L)
  BY <1>1, ProcsAt
<1>3. \A j \in Slots : j # i /\ InUse(tab[j]) => tab[j].pid # n
  BY DEF PidsApart
<1>. HIDE DEF P
<1>4. /\ DOMAIN F = PidsIn(tab) /\ F = [q \in DOMAIN F |-> F[q]]
      /\ F[n] = Rec(tab[i], L2) /\ \A q \in PidsIn(tab) : q # n => F[q] = P[q]
  BY <1>1, <1>2
<1>. HIDE DEF F
<1>5. \A j \in Slots : InUse(tab[j]) => F[tab[j].pid] = Rec(tab[j], L2)
  <2>. SUFFICES ASSUME NEW j \in Slots, InUse(tab[j]), j # i
                PROVE  F[tab[j].pid] = Rec(tab[j], L2)
    BY <1>4
  <2>1. Rec(tab[j], L2) = Rec(tab[j], L)
    BY DEF Like
  <2>2. tab[j].pid \in PidsIn(tab) /\ P[tab[j].pid] = Rec(tab[j], L) /\ tab[j].pid # n
    BY <1>2, <1>3
  <2>3. F[tab[j].pid] = P[tab[j].pid]
    BY <2>2, <1>4
  <2>. QED
    BY <2>1, <2>2, <2>3
<1>6. ProcsIn(tab, L2) = F
  BY <1>4, <1>5, ProcsAre
<1>. QED
  BY <1>6 DEF F, P

-----------------------------------------------------------------------------
(* A step of the table, seen as one of UnixProc.                           *)
UnixSeen == [Unix!Next]_(Unix!vars)

LEMMA PersonFields == \A q, d, c, g, m :
  /\ Person(q, d, c, g, m).parent = q
  /\ Person(q, d, c, g, m).dead = d
  /\ Person(q, d, c, g, m).program = g
  /\ Person(q, d, c, g, m).mem = m
BY SMT DEF Person

LEMMA PersonDead == \A q, d, c, g, m, v :
  [Person(q, d, c, g, m) EXCEPT !.dead = v] = Person(q, v, c, g, m)
BY SMT DEF Person

LEMMA PersonCode == \A q, d, c, g, m, v :
  [Person(q, d, c, g, m) EXCEPT !.code = v] = Person(q, d, v, g, m)
BY SMT DEF Person

LEMMA PersonMem == \A q, d, c, g, m, v :
  [Person(q, d, c, g, m) EXCEPT !.mem = v] = Person(q, d, c, g, v)
BY SMT DEF Person

LEMMA PersonProgram == \A q, d, c, g, m, v :
  [Person(q, d, c, g, m) EXCEPT !.program = v] = Person(q, d, c, v, m)
BY SMT DEF Person

LEMMA PersonParent == \A q, d, c, g, m, v :
  [Person(q, d, c, g, m) EXCEPT !.parent = v] = Person(v, d, c, g, m)
BY SMT DEF Person

(* A process as its death leaves it.                                       *)
Dies(r, v, w, x) == [r EXCEPT !.dead = v, !.code = w, !.mem = x]

LEMMA PersonDies == \A q, d, c, g, m, v, w, x :
  Dies(Person(q, d, c, g, m), v, w, x) = Person(q, v, w, g, x)
<1>1. \A r, v, w, x : Dies(r, v, w, x)
         = [[[r EXCEPT !.dead = v] EXCEPT !.code = w] EXCEPT !.mem = x]
  BY SMT DEF Dies
<1>. TAKE q, d, c, g, m, v, w, x
<1>2. [Person(q, d, c, g, m) EXCEPT !.dead = v] = Person(q, v, c, g, m)
  BY PersonDead, SMT
<1>3. [Person(q, v, c, g, m) EXCEPT !.code = w] = Person(q, v, w, g, m)
  BY PersonCode, SMT
<1>4. [Person(q, v, w, g, m) EXCEPT !.mem = x] = Person(q, v, w, g, x)
  BY PersonMem, SMT
<1>. QED
  BY <1>1, <1>2, <1>3, <1>4, Zenon

(* What an exit leaves of everybody.                                       *)
Bereaved(P, n, c) ==
  [q \in DOMAIN P |->
     IF q = n THEN Dies(P[q], TRUE, c, Nothing)
     ELSE [P[q] EXCEPT !.parent = IF P[q].parent = n THEN 0 ELSE P[q].parent]]

LEMMA SeenStill ==
  ASSUME Processes' = Processes, Me.pid' = Me.pid, next_pid' = next_pid, pend' = pend
  PROVE  UnixSeen
BY DEF UnixSeen, Unix!vars

LEMMA SeenUnixCall ==
  ASSUME pend = None, pend' = pend, Unix!Call
  PROVE  UnixSeen
BY DEF UnixSeen, Unix!Next

LEMMA SeenSpawn ==
  ASSUME next_pid \in Nat, next_pid' = next_pid + 1, Me.pid' = Me.pid,
         Processes' = Put(Processes, next_pid, Person(Me.pid, FALSE, 0, FALSE, Nothing))
  PROVE  Unix!Call
<1>1. next_pid - 1 + 1 = next_pid /\ next_pid' - 1 = next_pid - 1 + 1
  OBVIOUS
<1>2. Unix!Spawn
  BY <1>1 DEF Unix!Spawn, Unix!Start, Unix!Process, Unix!NoPages, Unix!Absent, Unix!Put,
              Put, Person, Nothing
<1>. QED
  BY <1>2 DEF Unix!Call

LEMMA SeenForkChild ==
  ASSUME next_pid \in Nat, next_pid' = next_pid + 1, Me.pid' = Me.pid,
         Processes' = Put(Processes, next_pid,
                          Person(Me.pid, FALSE, 0, FALSE, Processes[Me.pid].mem))
  PROVE  Unix!Call
<1>1. next_pid - 1 + 1 = next_pid /\ next_pid' - 1 = next_pid - 1 + 1
  OBVIOUS
<1>2. Unix!Fork
  BY <1>1 DEF Unix!Fork, Unix!Start, Unix!Process, Unix!Put, Put, Person
<1>. QED
  BY <1>2 DEF Unix!Call

LEMMA SeenForkFails ==
  ASSUME next_pid \in Nat, next_pid' = next_pid + 1, Me.pid' = Me.pid, Processes' = Processes
  PROVE  Unix!Call
<1>1. next_pid' - 1 = next_pid - 1 + 1
  OBVIOUS
<1>2. Unix!ForkFails
  BY <1>1 DEF Unix!ForkFails
<1>. QED
  BY <1>2 DEF Unix!Call

LEMMA SeenProgram ==
  ASSUME next_pid \in Nat, next_pid' = next_pid + 1, Me.pid' = next_pid,
         Processes' = Put(Processes, next_pid, Person(Me.pid, FALSE, 0, TRUE, Nothing))
  PROVE  Unix!Call
<1>1. next_pid - 1 + 1 = next_pid /\ next_pid' - 1 = next_pid - 1 + 1
  OBVIOUS
<1>2. [Unix!Process(Me.pid, Unix!NoPages) EXCEPT !.program = TRUE]
        = Person(Me.pid, FALSE, 0, TRUE, Nothing)
  <2>1. Unix!Process(Me.pid, Unix!NoPages) = Person(Me.pid, FALSE, 0, FALSE, Nothing)
    BY DEF Unix!Process, Unix!NoPages, Unix!Absent, Person, Nothing
  <2>2. [Person(Me.pid, FALSE, 0, FALSE, Nothing) EXCEPT !.program = TRUE]
          = Person(Me.pid, FALSE, 0, TRUE, Nothing)
    <3>1. \A d, g, v : [Person(Me.pid, d, 0, g, Nothing) EXCEPT !.program = v]
                          = Person(Me.pid, d, 0, v, Nothing)
      BY PersonProgram, SMT
    <3>. QED
      BY <3>1, Zenon
  <2>. QED
    BY <2>1, <2>2, Zenon
<1>3. Unix!RunProgram
  BY <1>1, <1>2 DEF Unix!RunProgram, Unix!Start, Unix!Put, Put
<1>. QED
  BY <1>3 DEF Unix!Call

LEMMA SeenProgramEnds ==
  ASSUME Processes[Me.pid].program, Me.pid' = 0, next_pid' = next_pid,
         Processes' = Restrict(Processes, DOMAIN Processes \ {Me.pid})
  PROVE  Unix!Call
<1>1. Unix!EndProgram
  BY DEF Unix!EndProgram, Unix!Remove, Unix!Restrict, Restrict
<1>. QED
  BY <1>1 DEF Unix!Call

LEMMA SeenPage ==
  ASSUME NEW q \in DOMAIN Processes, NEW p \in Pages, ~Processes[q].mem[p].mapped,
         Processes' = [Processes EXCEPT ![q] = [Processes[q] EXCEPT !.mem =
                         [Processes[q].mem EXCEPT ![p] = [mapped |-> TRUE, val |-> Zero]]]],
         Me.pid' = Me.pid, next_pid' = next_pid
  PROVE  Unix!Call
<1>1. Unix!Map(q, p)
  BY DEF Unix!Map
<1>. QED
  BY <1>1 DEF Unix!Call

LEMMA SeenExit ==
  ASSUME NEW c \in Codes, Me.pid # 0, Me.pid' = 0, next_pid' = next_pid,
         Processes' = Bereaved(Processes, Me.pid, c)
  PROVE  Unix!Call
<1>1. Unix!NoPages = Nothing
  BY DEF Unix!NoPages, Unix!Absent, Nothing
<1>2. Unix!Exit(c)
  BY <1>1 DEF Unix!Exit, Bereaved, Dies
<1>. QED
  BY <1>2 DEF Unix!Call

LEMMA SeenWait ==
  ASSUME NEW q \in DOMAIN Processes, Processes[q].dead, Processes[q].parent = Me.pid,
         Processes' = Restrict(Processes, DOMAIN Processes \ {q}),
         Me.pid' = Me.pid, next_pid' = next_pid
  PROVE  Unix!Call
<1>1. Unix!Wait
  BY DEF Unix!Wait, Unix!Remove, Unix!Restrict, Restrict
<1>. QED
  BY <1>1 DEF Unix!Call

LEMMA SeenSwitchTo ==
  ASSUME NEW q \in DOMAIN Processes, ~Processes[q].dead, Me.pid' = q,
         Processes' = Processes, next_pid' = next_pid
  PROVE  Unix!Call
<1>1. Unix!Switch(q)
  BY DEF Unix!Switch
<1>. QED
  BY <1>1 DEF Unix!Call

LEMMA SeenHeldUp ==
  ASSUME NEW op \in Accesses, pend = None \/ pend = op, pend' = op,
         Processes' = Processes, Me.pid' = Me.pid, next_pid' = next_pid
  PROVE  UnixSeen
<1>1. Unix!Access(op)
  BY DEF Unix!Access
<1>. QED
  BY <1>1 DEF UnixSeen, Unix!Next

LEMMA SeenDone ==
  ASSUME NEW op \in Accesses, pend = None \/ pend = op, pend' = None,
         Processes[Me.pid].mem[op.page].mapped,
         Processes' = IF op.write
                      THEN [Processes EXCEPT ![Me.pid] = [Processes[Me.pid] EXCEPT !.mem =
                              [Processes[Me.pid].mem EXCEPT ![op.page] =
                                 [Processes[Me.pid].mem[op.page] EXCEPT !.val = op.val]]]]
                      ELSE Processes,
         Me.pid' = Me.pid, next_pid' = next_pid
  PROVE  UnixSeen
<1>1. Unix!Access(op)
  BY DEF Unix!Access
<1>. QED
  BY <1>1 DEF UnixSeen, Unix!Next

-----------------------------------------------------------------------------
(* No two processes have the same pid, and a child's is larger than its    *)
(* parent's: a process is never its own parent, except the kernel.         *)
Descends(tab) == \A i \in Slots \ {0} : InUse(tab[i]) => tab[i].ppid < tab[i].pid

UnixInv == ProcInv /\ StoreInv /\ PidsApart(table) /\ Descends(table)

LEMMA UnixFacts ==
  ASSUME UnixInv
  PROVE  /\ ProcInv /\ VmmInv /\ MemInv /\ CpuInv /\ StoreInv
         /\ PidsApart(table) /\ Descends(table)
         /\ Tree(table, next_pid, current_idx) /\ Childless(table, current_idx)
         /\ Owners(table, DOMAIN dirs) /\ table \in [Slots -> Record]
         /\ current_idx \in Slots /\ 0 \in Slots /\ next_pid \in Nat /\ MaxPid \in Nat
         /\ cr3 = table[current_idx].dir /\ regions = << >> /\ Me = table[current_idx]
         /\ table[current_idx].state = "running" /\ InUse(table[current_idx])
BY SlotZero, ProcAssumption
   DEF UnixInv, ProcInv, VmmInv, Tree, TableTyped, OneRuns, InUse, Me

LEMMA UnixTable ==
  ASSUME UnixInv
  PROVE  /\ Processes = ProcsIn(table, Local)
         /\ DOMAIN Processes = PidsIn(table)
         /\ \A i \in Slots : table[i].dir \in Dirs
         /\ \A i \in Slots : InUse(table[i]) =>
              table[i].pid \in DOMAIN Processes /\ Processes[table[i].pid] = Rec(table[i], Local)
<1>1. table \in [Slots -> Record] /\ PidsApart(table)
  BY UnixFacts
<1>2. Processes = ProcsIn(table, Local)
  BY <1>1, ProcessesAre
<1>3. \A i \in Slots : table[i].dir \in Dirs
  BY <1>1 DEF Record, Dirs
<1>4. DOMAIN ProcsIn(table, Local) = PidsIn(table)
  BY DEF ProcsIn
<1>5. \A i \in Slots : InUse(table[i]) =>
        /\ table[i].pid \in DOMAIN ProcsIn(table, Local)
        /\ ProcsIn(table, Local)[table[i].pid] = Rec(table[i], Local)
  BY <1>1, ProcsAt
<1>. QED
  BY <1>2, <1>3, <1>4, <1>5

LEMMA UnixSpaces ==
  ASSUME UnixInv
  PROVE  /\ DOMAIN dirs \subseteq Frames /\ Frames \subseteq Dirs /\ KDir \in Dirs /\ None \in Dirs
         /\ KDir \notin DOMAIN dirs /\ None \notin DOMAIN dirs
         /\ DOMAIN Memories = DOMAIN dirs
         /\ \A d \in DOMAIN dirs : DOMAIN Memories[d] = Pages
         /\ Local[KDir] = Nothing /\ Local[None] = Nothing
<1>1. DOMAIN dirs \subseteq Frames
  BY UnixFacts DEF Owners
<1>2. KDir \notin DOMAIN dirs /\ None \notin DOMAIN dirs
  BY <1>1, VmmAssumption
<1>3. Frames \subseteq Dirs /\ KDir \in Dirs /\ None \in Dirs
  BY DEF Dirs
<1>4. Local[KDir] = Nothing /\ Local[None] = Nothing
  BY <1>2, <1>3, LocalNone DEF Local
<1>5. \A d \in DOMAIN dirs : DOMAIN Memories[d] = Pages
  BY DEF Memories
<1>. QED
  BY <1>1, <1>2, <1>3, <1>4, <1>5, MemoriesDomain

LEMMA LocalSame ==
  ASSUME Memories' = Memories, DOMAIN dirs' = DOMAIN dirs
  PROVE  Local' = Local
BY DEF Local

LEMMA NextTable ==
  ASSUME ProcInv'
  PROVE  Processes' = ProcsIn(table', Local')
<1>1. table' \in [Slots -> Record]
  BY DEF ProcInv, Tree, TableTyped
<1>. QED
  BY <1>1, ProcessesNext

(* The slots of S say the same in both tables, but for who runs.           *)
Steady(tab, tab2, S) == \A j \in S :
  /\ InUse(tab2[j]) <=> InUse(tab[j])
  /\ InUse(tab[j]) => /\ tab2[j].pid = tab[j].pid
                      /\ tab2[j].ppid = tab[j].ppid
                      /\ tab2[j].code = tab[j].code
                      /\ tab2[j].dir = tab[j].dir
                      /\ tab2[j].state = "zombie" <=> tab[j].state = "zombie"

LEMMA SteadyLike ==
  ASSUME NEW tab, NEW tab2, NEW S, Steady(tab, tab2, S), NEW L, NEW L2,
         \A j \in S : InUse(tab[j]) => L2[tab[j].dir] = L[tab[j].dir]
  PROVE  Like(tab, L, tab2, L2, S)
<1>. SUFFICES ASSUME NEW j \in S, InUse(tab[j])
              PROVE  tab2[j].pid = tab[j].pid /\ Rec(tab2[j], L2) = Rec(tab[j], L)
  BY DEF Like, Steady
<1>1. /\ tab2[j].pid = tab[j].pid /\ tab2[j].ppid = tab[j].ppid /\ tab2[j].code = tab[j].code
      /\ tab2[j].dir = tab[j].dir /\ L2[tab[j].dir] = L[tab[j].dir]
      /\ tab2[j].state = "zombie" <=> tab[j].state = "zombie"
  BY DEF Steady
<1>2. Dead(tab2[j]) = Dead(tab[j])
  BY <1>1 DEF Dead
<1>3. Program(tab2[j]) = Program(tab[j])
  BY <1>1 DEF Program
<1>. QED
  BY <1>1, <1>2, <1>3 DEF Rec

LEMMA SteadyItself == ASSUME NEW tab, NEW S PROVE Steady(tab, tab, S)
BY DEF Steady

LEMMA SteadyKeeps ==
  ASSUME NEW tab, NEW tab2, PidsApart(tab), Descends(tab), Steady(tab, tab2, Slots)
  PROVE  PidsApart(tab2) /\ Descends(tab2)
BY DEF Steady, PidsApart, Descends

LEMMA StillKeeps ==
  ASSUME UnixInv, ProcInv', StoreInv', Steady(table, table', Slots), Local' = Local
  PROVE  UnixInv' /\ Processes' = Processes
<1>1. Like(table, Local, table', Local', Slots)
  BY SteadyLike
<1>2. ProcsIn(table', Local') = ProcsIn(table, Local)
  BY <1>1, UnixFacts, ProcsLike
<1>3. Processes' = Processes
  BY <1>2, NextTable, UnixTable
<1>4. PidsApart(table') /\ Descends(table')
  BY UnixFacts, SteadyKeeps
<1>5. UnixInv'
  BY <1>4 DEF UnixInv
<1>. QED
  BY <1>3, <1>5

(* A process is born in slot i.                                            *)
LEMMA BirthKeeps ==
  ASSUME UnixInv, ProcInv', StoreInv', NEW i \in Slots \ {0}, ~InUse(table[i]),
         InUse(table'[i]), table'[i].pid = next_pid, table'[i].ppid = table[current_idx].pid,
         Steady(table, table', Slots \ {i}),
         \A j \in Slots : InUse(table[j]) => Local'[table[j].dir] = Local[table[j].dir]
  PROVE  /\ UnixInv'
         /\ Processes' = Put(Processes, next_pid, Rec(table'[i], Local'))
<1>0. /\ Tree(table, next_pid, current_idx) /\ PidsApart(table) /\ Descends(table)
      /\ table \in [Slots -> Record] /\ next_pid \in Nat /\ current_idx \in Slots
      /\ InUse(table[current_idx])
  BY UnixFacts
<1>1. \A j \in Slots : InUse(table[j]) => table[j].pid < next_pid /\ table[j].pid \in Nat
  BY <1>0 DEF Tree, PidsGiven, Record
<1>2. next_pid \notin PidsIn(table)
  BY <1>0, <1>1 DEF PidsIn
<1>3. Like(table, Local, table', Local', Slots \ {i})
  BY SteadyLike
<1>4. /\ ProcsIn(table', Local') = Put(ProcsIn(table, Local), table'[i].pid, Rec(table'[i], Local'))
      /\ PidsApart(table')
  BY <1>0, <1>2, <1>3, ProcsBirth
<1>5. Descends(table')
  <2>1. table'[i].ppid < table'[i].pid
    BY <1>0, <1>1
  <2>. QED
    BY <2>1, <1>0 DEF Descends, Steady
<1>6. Processes' = Put(Processes, next_pid, Rec(table'[i], Local'))
  BY <1>4, NextTable, UnixTable
<1>7. UnixInv'
  BY <1>4, <1>5 DEF UnixInv
<1>. QED
  BY <1>6, <1>7

(* The process in slot i is gone.                                          *)
LEMMA DropKeeps ==
  ASSUME UnixInv, ProcInv', StoreInv', NEW i \in Slots, InUse(table[i]), ~InUse(table'[i]),
         Steady(table, table', Slots \ {i}), Local' = Local
  PROVE  /\ UnixInv'
         /\ Processes' = Restrict(Processes, DOMAIN Processes \ {table[i].pid})
<1>1. PidsApart(table) /\ Descends(table)
  BY UnixFacts
<1>2. Like(table, Local, table', Local', Slots \ {i})
  BY SteadyLike
<1>3. ProcsIn(table', Local')
        = Restrict(ProcsIn(table, Local), DOMAIN ProcsIn(table, Local) \ {table[i].pid})
  BY <1>1, <1>2, ProcsDrop
<1>4. Processes' = Restrict(Processes, DOMAIN Processes \ {table[i].pid})
  BY <1>3, NextTable, UnixTable
<1>5. PidsApart(table')
  <2>1. \A j \in Slots : InUse(table'[j]) =>
          j # i /\ InUse(table[j]) /\ table'[j].pid = table[j].pid
    BY DEF Steady
  <2>. QED
    BY <2>1, <1>1 DEF PidsApart
<1>6. Descends(table')
  BY <1>1 DEF Descends, Steady
<1>7. UnixInv'
  BY <1>5, <1>6 DEF UnixInv
<1>. QED
  BY <1>4, <1>7

(* proc_alloc writes one slot.                                             *)
LEMMA AllocIs ==
  ASSUME UnixInv, NEW i, NEW d \in Frames \cup {None}, proc_alloc(i, d)
  PROVE  /\ i \in Slots \ {0} /\ ~InUse(table[i]) /\ i # current_idx
         /\ next_pid' = next_pid + 1
         /\ InUse(table'[i]) /\ table'[i].pid = next_pid
         /\ table'[i].ppid = table[current_idx].pid
         /\ table'[i].dir = d
         /\ \A L : Rec(table'[i], L) = Person(Me.pid, FALSE, 0, FALSE, L[d])
         /\ Steady(table, table', Slots \ {i})
         /\ Me.pid' = Me.pid \/ current_idx' # current_idx
<1>. DEFINE q == NewProc(d)
<1>0. /\ Tree(table, next_pid, current_idx) /\ table \in [Slots -> Record]
      /\ Me = table[current_idx] /\ InUse(table[current_idx]) /\ current_idx \in Slots
  BY UnixFacts
<1>1. /\ i \in Slots \ {0} /\ ~InUse(table[i]) /\ next_pid <= MaxPid
      /\ table' = [table EXCEPT ![i] = q] /\ next_pid' = next_pid + 1
  BY DEF proc_alloc, FreeSlot, Used, InUse
<1>2. Newborn(q, table, next_pid, current_idx, d)
  BY <1>0, <1>1, NewProcIs
<1>. HIDE DEF q
<1>3. /\ q.pid = next_pid /\ q.ppid = table[current_idx].pid /\ q.state = "ready"
      /\ q.dir = d /\ q.code = 0 /\ d # KDir
  BY <1>2, VmmAssumption, NoneAssumption DEF Newborn
<1>4. table'[i] = q /\ \A j \in Slots : j # i => table'[j] = table[j]
  BY <1>0, <1>1
<1>5. i # current_idx
  BY <1>0, <1>1
<1>6. Dead(q) = FALSE
  BY <1>3 DEF Dead
<1>7. Program(q) = FALSE
  BY <1>3 DEF Program
<1>8. \A L : Rec(q, L) = Person(Me.pid, FALSE, 0, FALSE, L[d])
  BY <1>0, <1>3, <1>6, <1>7, Zenon DEF Rec
<1>9. Steady(table, table', Slots \ {i})
  BY <1>4 DEF Steady
<1>10. Me.pid' = Me.pid \/ current_idx' # current_idx
  BY <1>0, <1>4, <1>5 DEF Me
<1>11. InUse(q)
  BY <1>3 DEF InUse
<1>12. \A L : Rec(table'[i], L) = Person(Me.pid, FALSE, 0, FALSE, L[d])
  BY <1>4, <1>8, Zenon
<1>. QED
  BY <1>1, <1>3, <1>4, <1>5, <1>9, <1>10, <1>11, <1>12, Zenon

(* A space that nobody has yet.                                            *)
LEMMA FreshSpace ==
  ASSUME UnixInv, NEW d \in Frames, d \notin DOMAIN dirs, NEW m,
         DOMAIN dirs' = DOMAIN dirs \cup {d}, Memories' = Put(Memories, d, m)
  PROVE  /\ Local'[d] = BareOf(m)
         /\ \A j \in Slots : InUse(table[j]) => Local'[table[j].dir] = Local[table[j].dir]
<1>1. d \in Dirs /\ DOMAIN Memories = DOMAIN dirs
  BY UnixSpaces
<1>2. Local' = [Local EXCEPT ![d] = BareOf(m)]
  BY <1>1, LocalJoin DEF Local
<1>3. DOMAIN Local = Dirs
  BY DEF Local, LocalOf
<1>4. \A j \in Slots : InUse(table[j]) => table[j].dir # d
  BY UnixFacts DEF Owners
<1>. QED
  BY <1>1, <1>2, <1>3, <1>4, UnixTable

LEMMA SpawnSeen ==
  ASSUME UnixInv, Spawn
  PROVE  UnixSeen /\ UnixInv'
<1>0. MemInv /\ StoreInv /\ ProcInv /\ next_pid \in Nat
  BY UnixFacts
<1>1. ProcInv'
  BY <1>0, SpawnKeeps
<1>2. pend = None /\ pend' = pend /\ current_idx' = current_idx
  BY DEF Spawn, KernelRuns, Running, cpuVars
<1>3. PICK i \in Slots : \/ \E d \in Free : vmm_create_dir(d) /\ proc_alloc(i, d)
                         \/ Free = {} /\ proc_alloc(i, None) /\ UNCHANGED frameVars
  BY DEF Spawn
<1>4. ASSUME NEW d \in Frames \cup {None}, proc_alloc(i, d), StoreInv', Local'[d] = Nothing,
             \A j \in Slots : InUse(table[j]) => Local'[table[j].dir] = Local[table[j].dir]
      PROVE  UnixSeen /\ UnixInv'
  <2>1. /\ i \in Slots \ {0} /\ ~InUse(table[i]) /\ next_pid' = next_pid + 1
        /\ InUse(table'[i]) /\ table'[i].pid = next_pid
        /\ table'[i].ppid = table[current_idx].pid
        /\ Steady(table, table', Slots \ {i}) /\ Me.pid' = Me.pid
    BY <1>2, <1>4, AllocIs
  <2>2. Rec(table'[i], Local') = Person(Me.pid, FALSE, 0, FALSE, Local'[d])
    <3>1. \A L : Rec(table'[i], L) = Person(Me.pid, FALSE, 0, FALSE, L[d])
      BY <1>4, AllocIs, Zenon
    <3>. QED
      BY <3>1, Zenon
  <2>3. UnixInv' /\ Processes' = Put(Processes, next_pid, Rec(table'[i], Local'))
    BY <1>1, <1>4, <2>1, BirthKeeps
  <2>4. Processes' = Put(Processes, next_pid, Person(Me.pid, FALSE, 0, FALSE, Nothing))
    BY <1>4, <2>2, <2>3, Zenon
  <2>5. Unix!Call
    BY <1>0, <2>1, <2>4, SeenSpawn
  <2>. QED
    BY <1>2, <2>3, <2>5, SeenUnixCall
<1>5. CASE \E d \in Free : vmm_create_dir(d) /\ proc_alloc(i, d)
  <2>1. PICK d \in Free : vmm_create_dir(d) /\ proc_alloc(i, d)
    BY <1>5
  <2>2. /\ StoreInv' /\ DOMAIN dirs' = DOMAIN dirs \cup {d}
        /\ d \in Frames /\ d \notin DOMAIN dirs /\ Memories' = Put(Memories, d, Nothing)
    BY <1>0, <2>1, CreateShows
  <2>3. /\ Local'[d] = Nothing
        /\ \A j \in Slots : InUse(table[j]) => Local'[table[j].dir] = Local[table[j].dir]
    BY <2>2, FreshSpace, BareNothing
  <2>. QED
    BY <1>4, <2>1, <2>2, <2>3
<1>6. CASE Free = {} /\ proc_alloc(i, None) /\ UNCHANGED frameVars
  <2>1. UNCHANGED <<dirs, tabs, data>>
    BY <1>6 DEF frameVars
  <2>2. StoreInv' /\ Local' = Local
    BY <1>0, <2>1, SameMemories, LocalSame
  <2>3. Local'[None] = Nothing
    BY <2>2, UnixSpaces
  <2>. QED
    BY <1>4, <1>6, <2>2, <2>3
<1>. QED
  BY <1>3, <1>5, <1>6

LEMMA ForkUnixSeen ==
  ASSUME UnixInv, proc_fork
  PROVE  UnixSeen /\ UnixInv'
<1>0. /\ MemInv /\ CpuInv /\ StoreInv /\ ProcInv /\ next_pid \in Nat /\ table \in [Slots -> Record]
      /\ Me = table[current_idx] /\ cr3 = Me.dir /\ current_idx \in Slots
      /\ InUse(table[current_idx])
      /\ Tree(table, next_pid, current_idx)
  BY UnixFacts
<1>1. ProcInv' /\ Me.dir \in Space
  BY <1>0, ForkKeeps DEF CpuInv, Space
<1>2. pend = None /\ pend' = pend /\ current_idx' = current_idx /\ NoProgram(table, current_idx)
  BY <1>0 DEF proc_fork, KernelRuns, Running, InProgram, NoProgram
<1>3. ASSUME NEW i \in Slots, ForkChild(i) PROVE UnixSeen /\ UnixInv'
  <2>1. PICK d \in Free : vmm_clone_cow(Me.dir, d) /\ proc_alloc(i, d)
    BY <1>3 DEF ForkChild
  <2>2. d \in Frames /\ d \notin DOMAIN dirs
    BY <1>0, <2>1, FreeIs
  <2>3. Cardinality(DOMAIN dirs \cup {d}) <= RefMax
    <3>1. Owners(table', DOMAIN dirs \cup ({d} \cap Frames))
      BY <1>0, <1>2, <2>1, <2>2, AllocKeeps
    <3>2. {d} \cap Frames = {d}
      BY <2>2
    <3>3. Owners(table', DOMAIN dirs \cup {d})
      BY <3>1, <3>2
    <3>. QED
      BY <3>3, FewSpaces
  <2>4. /\ StoreInv' /\ DOMAIN dirs' = DOMAIN dirs \cup {d}
        /\ Memories' = Put(Memories, d, MemoryOf(Me.dir))
    BY <1>0, <1>1, <2>1, <2>3, CloneCowShows
  <2>5. /\ Local'[d] = BareOf(MemoryOf(Me.dir))
        /\ \A j \in Slots : InUse(table[j]) => Local'[table[j].dir] = Local[table[j].dir]
    BY <2>2, <2>4, FreshSpace
  <2>6. BareOf(MemoryOf(Me.dir)) = Local[Me.dir]
    <3>1. CASE Me.dir = KDir
      BY <3>1, BareNothing, UnixSpaces DEF MemoryOf
    <3>2. CASE Me.dir # KDir
      BY <3>2, <1>1, UnixSpaces DEF MemoryOf, Local, LocalOf, Space
    <3>. QED
      BY <3>1, <3>2
  <2>7. /\ i \in Slots \ {0} /\ ~InUse(table[i]) /\ next_pid' = next_pid + 1
        /\ InUse(table'[i]) /\ table'[i].pid = next_pid
        /\ table'[i].ppid = table[current_idx].pid
        /\ Steady(table, table', Slots \ {i}) /\ Me.pid' = Me.pid
    BY <1>2, <2>1, <2>2, AllocIs
  <2>8. Rec(table'[i], Local') = Person(Me.pid, FALSE, 0, FALSE, Local'[d])
    BY <2>1, <2>2, AllocIs
  <2>9. UnixInv' /\ Processes' = Put(Processes, next_pid, Rec(table'[i], Local'))
    BY <1>1, <2>4, <2>5, <2>7, BirthKeeps
  <2>10. Processes[Me.pid].mem = Local[Me.dir]
    <3>1. Processes[Me.pid] = Rec(Me, Local)
      BY <1>0, UnixTable
    <3>. QED
      BY <3>1, PersonFields DEF Rec
  <2>11. Local'[d] = Processes[Me.pid].mem
    BY <2>5, <2>6, <2>10
  <2>12. Processes' = Put(Processes, next_pid,
                          Person(Me.pid, FALSE, 0, FALSE, Processes[Me.pid].mem))
    BY <2>8, <2>9, <2>11, Zenon
  <2>13. Unix!Call
    BY <1>0, <2>7, <2>12, SeenForkChild
  <2>. QED
    BY <1>2, <2>9, <2>13, SeenUnixCall
<1>4. ASSUME NEW i \in Slots, ForkNoMemory(i) PROVE UnixSeen /\ UnixInv'
  <2>. DEFINE q == [NewProc(None) EXCEPT !.state = "unused"]
  <2>1. /\ i \in Slots \ {0} /\ ~InUse(table[i]) /\ next_pid <= MaxPid
        /\ vmm_clone_cow_fails(Me.dir) /\ table' = [table EXCEPT ![i] = q]
        /\ next_pid' = next_pid + 1
    BY <1>4 DEF ForkNoMemory, FreeSlot, Used, InUse
  <2>2. StoreInv' /\ dirs' = dirs /\ Memories' = Memories
    BY <1>0, <1>1, <2>1, CloneCowFailsShows
  <2>3. NewProc(None) \in Record
    BY <1>0, <2>1, NewProcIs DEF Newborn
  <2>4. ~InUse(q)
    BY <2>3 DEF Record, InUse
  <2>. HIDE DEF q
  <2>5. Steady(table, table', Slots)
    BY <1>0, <2>1, <2>4 DEF Steady
  <2>6. Local' = Local
    BY <2>2, LocalSame
  <2>7. UnixInv' /\ Processes' = Processes
    BY <1>1, <2>2, <2>5, <2>6, StillKeeps
  <2>8. Me.pid' = Me.pid
    BY <1>0, <1>2, <2>5 DEF Steady, Me
  <2>9. Unix!Call
    BY <1>0, <2>1, <2>7, <2>8, SeenForkFails
  <2>. QED
    BY <1>2, <2>7, <2>9, SeenUnixCall
<1>5. CASE ForkTableFull
  <2>1. UNCHANGED <<dirs, tabs, data, table, next_pid>>
    BY <1>5 DEF ForkTableFull, frameVars
  <2>2. StoreInv' /\ Local' = Local
    BY <1>0, <2>1, SameMemories, LocalSame
  <2>3. UnixInv' /\ Processes' = Processes
    BY <1>1, <2>1, <2>2, SteadyItself, StillKeeps
  <2>. QED
    BY <1>2, <2>1, <2>3, SeenStill DEF Me
<1>. QED
  BY <1>3, <1>4, <1>5 DEF proc_fork

(* A page of a process in slot i changes, and nobody else sees it.         *)
LEMMA PageKeeps ==
  ASSUME UnixInv, ProcInv', StoreInv', table' = table, NEW i \in Slots, InUse(table[i]),
         NEW p \in Pages, NEW v, table[i].dir \in DOMAIN dirs, DOMAIN dirs' = DOMAIN dirs,
         Memories' = WithPage(Memories, table[i].dir, p, v)
  PROVE  /\ UnixInv'
         /\ table[i].pid \in DOMAIN Processes
         /\ Processes[table[i].pid].mem = BareOf(Memories[table[i].dir])
         /\ Processes' = [Processes EXCEPT ![table[i].pid] =
                            [Processes[table[i].pid] EXCEPT !.mem =
                               [Processes[table[i].pid].mem EXCEPT ![p] = Bare(v)]]]
<1>. DEFINE d == table[i].dir
            e == table[i]
            L2 == [Local EXCEPT ![d] = [Local[d] EXCEPT ![p] = Bare(v)]]
<1>1. /\ d \in Dirs /\ DOMAIN Memories = DOMAIN dirs /\ DOMAIN Memories[d] = Pages
      /\ d \in Frames
  BY UnixSpaces
<1>2. Local' = L2
  BY <1>1, LocalSet DEF Local
<1>3. DOMAIN Local = Dirs /\ Local[d] = BareOf(Memories[d])
  BY <1>1 DEF Local, LocalOf
<1>4. \A j \in Slots \ {i} : InUse(table[j]) => table[j].dir # d /\ table[j].dir \in Dirs
  BY <1>1, UnixFacts, UnixTable DEF Owners
<1>5. \A j \in Slots \ {i} : InUse(table[j]) => Local'[table[j].dir] = Local[table[j].dir]
  BY <1>2, <1>3, <1>4
<1>6. Local'[d] = [Local[d] EXCEPT ![p] = Bare(v)]
  BY <1>1, <1>2, <1>3
<1>. HIDE DEF L2
<1>7. Like(table, Local, table, Local', Slots \ {i})
  BY <1>5, SteadyItself, SteadyLike
<1>8. ProcsIn(table, Local') = [ProcsIn(table, Local) EXCEPT ![e.pid] = Rec(e, Local')]
  BY <1>7, UnixFacts, ProcsSet
<1>9. e.pid \in DOMAIN Processes /\ Processes[e.pid] = Rec(e, Local)
  BY UnixTable
<1>10. Processes[e.pid].mem = Local[d]
  BY <1>9, PersonFields DEF Rec
<1>11. Rec(e, Local') = [Processes[e.pid] EXCEPT !.mem = Local'[d]]
  BY <1>9, PersonMem DEF Rec
<1>12. Processes' = [Processes EXCEPT ![e.pid] = Rec(e, Local')]
  BY <1>8, NextTable, UnixTable
<1>13. UnixInv'
  BY UnixFacts DEF UnixInv
<1>. QED
  BY <1>3, <1>6, <1>9, <1>10, <1>11, <1>12, <1>13

LEMMA MapPageSeen ==
  ASSUME UnixInv, ProcInv', NEW i \in Slots, NEW p \in Pages, MapPage(i, p)
  PROVE  UnixSeen /\ UnixInv'
<1>. DEFINE d == table[i].dir
            q == table[i].pid
<1>0. MemInv /\ StoreInv
  BY UnixFacts
<1>1. /\ pend = None /\ pend' = pend /\ table' = table /\ next_pid' = next_pid
      /\ current_idx' = current_idx /\ InUse(table[i]) /\ d \in DOMAIN dirs /\ Entry(d, p) = None
      /\ vmm_map_alloc(d, p, TRUE) \/ vmm_map_alloc_fails(d, p)
  BY DEF MapPage, KernelRuns, Running, procVars, InUse
<1>2. Me.pid' = Me.pid
  BY <1>1 DEF Me
<1>3. CASE vmm_map_alloc(d, p, TRUE)
  <2>0. TRUE \in BOOLEAN
    OBVIOUS
  <2>. DEFINE v == [mapped |-> TRUE, val |-> Zero, writable |-> TRUE]
  <2>1. /\ StoreInv' /\ DOMAIN dirs' = DOMAIN dirs /\ ~Memories[d][p].mapped
        /\ Memories' = WithPage(Memories, d, p, v)
    BY <1>0, <1>1, <1>3, <2>0, MapAllocShows
  <2>2. Bare(v) = [mapped |-> TRUE, val |-> Zero]
    BY BareMapped, Zenon
  <2>. HIDE DEF v
  <2>3. /\ UnixInv' /\ q \in DOMAIN Processes /\ Processes[q].mem = BareOf(Memories[d])
        /\ Processes' = [Processes EXCEPT ![q] = [Processes[q] EXCEPT !.mem =
                           [Processes[q].mem EXCEPT ![p] = Bare(v)]]]
    BY <1>1, <2>1, PageKeeps
  <2>4. ~Processes[q].mem[p].mapped
    BY <2>1, <2>3 DEF BareOf, Bare
  <2>5. Processes' = [Processes EXCEPT ![q] = [Processes[q] EXCEPT !.mem =
                        [Processes[q].mem EXCEPT ![p] = [mapped |-> TRUE, val |-> Zero]]]]
    BY <2>2, <2>3, Zenon
  <2>6. Unix!Call
    BY <1>1, <1>2, <2>3, <2>4, <2>5, SeenPage
  <2>. QED
    BY <1>1, <2>3, <2>6, SeenUnixCall
<1>4. CASE vmm_map_alloc_fails(d, p)
  <2>1. StoreInv' /\ dirs' = dirs /\ Memories' = Memories
    BY <1>0, <1>4, MapFailsShows
  <2>2. Local' = Local
    BY <2>1, LocalSame
  <2>3. UnixInv' /\ Processes' = Processes
    BY <1>1, <2>1, <2>2, SteadyItself, StillKeeps
  <2>. QED
    BY <1>1, <1>2, <2>3, SeenStill
<1>. QED
  BY <1>1, <1>3, <1>4

LEMMA WaitSeen ==
  ASSUME UnixInv, proc_wait
  PROVE  UnixSeen /\ UnixInv'
<1>0. /\ StoreInv /\ ProcInv /\ table \in [Slots -> Record] /\ Me = table[current_idx]
      /\ table[current_idx].state = "running" /\ current_idx \in Slots
  BY UnixFacts
<1>1. ProcInv' /\ pend = None
  BY <1>0, WaitKeeps DEF proc_wait, KernelRuns, Running
<1>2. PICK i \in Slots \ {0} : /\ table[i].state = "zombie" /\ table[i].ppid = Me.pid
                               /\ table' = [table EXCEPT ![i] = Unused]
  BY DEF proc_wait, ZombieChild
<1>3. UNCHANGED <<dirs, tabs, data, pend, next_pid, current_idx>>
  BY DEF proc_wait, vars
<1>4. StoreInv' /\ Local' = Local
  BY <1>0, <1>3, SameMemories, LocalSame
<1>5. InUse(table[i]) /\ ~InUse(table'[i]) /\ Steady(table, table', Slots \ {i})
      /\ i # current_idx
  BY <1>0, <1>2, UnusedIs DEF InUse, Steady
<1>6. UnixInv' /\ Processes' = Restrict(Processes, DOMAIN Processes \ {table[i].pid})
  BY <1>1, <1>4, <1>5, DropKeeps
<1>7. table[i].pid \in DOMAIN Processes /\ Processes[table[i].pid] = Rec(table[i], Local)
  BY <1>5, UnixTable
<1>8. /\ Processes[table[i].pid].dead = Dead(table[i])
      /\ Processes[table[i].pid].parent = table[i].ppid
  BY <1>7, PersonFields DEF Rec
<1>9. Processes[table[i].pid].dead
  <2>1. Dead(table[i])
    BY <1>2 DEF Dead
  <2>. QED
    BY <2>1, <1>8, Zenon
<1>10. Me.pid' = Me.pid
  BY <1>0, <1>2, <1>3, <1>5 DEF Me
<1>11. Unix!Call
  BY <1>2, <1>3, <1>6, <1>7, <1>8, <1>9, <1>10, SeenWait
<1>. QED
  BY <1>1, <1>3, <1>6, <1>11, SeenUnixCall

(* proc_switch_to changes nothing that a process can see.                  *)
LEMMA RunsSteady ==
  ASSUME NEW tab, NEW tab2, NEW cur, NEW i \in Slots, Runs(tab, tab2, cur, i), Alive(tab[i])
  PROVE  Steady(tab, tab2, Slots)
BY DEF Runs, Steady, Alive, InUse

LEMMA SwitchToSeen ==
  ASSUME UnixInv, NEW i \in Slots, proc_switch_to(i)
  PROVE  UnixSeen /\ UnixInv'
<1>0. StoreInv /\ ProcInv /\ table \in [Slots -> Record]
  BY UnixFacts
<1>1. ProcInv'
  BY <1>0, SwitchToKeeps
<1>2. /\ pend = None /\ pend' = pend /\ next_pid' = next_pid /\ current_idx' = i
      /\ InUse(table[i]) /\ table[i].state # "zombie" /\ table' = Dispatch(table, i)
      /\ UNCHANGED <<dirs, tabs, data>>
  BY DEF proc_switch_to, KernelRuns, Running, Switchable, Used, InUse, frameVars
<1>3. StoreInv' /\ Local' = Local
  BY <1>0, <1>2, SameMemories, LocalSame
<1>4. table[i] \in Record
  BY <1>0
<1>5. Alive(table[i])
  BY <1>2, <1>4 DEF Record, Alive, InUse
<1>6. Steady(table, table', Slots)
  BY <1>0, <1>2, <1>5, DispatchIs, RunsSteady
<1>7. UnixInv' /\ Processes' = Processes
  BY <1>1, <1>3, <1>6, StillKeeps
<1>8. table[i].pid \in DOMAIN Processes /\ Processes[table[i].pid] = Rec(table[i], Local)
  BY <1>2, UnixTable
<1>9. Processes[table[i].pid].dead = Dead(table[i])
  BY <1>8, PersonFields DEF Rec
<1>10. ~Processes[table[i].pid].dead
  <2>1. ~Dead(table[i])
    BY <1>2 DEF Dead
  <2>. QED
    BY <2>1, <1>9, Zenon
<1>11. Me.pid' = table[i].pid
  BY <1>2, <1>6 DEF Me, Steady
<1>12. Unix!Call
  BY <1>2, <1>7, <1>8, <1>10, <1>11, SeenSwitchTo
<1>. QED
  BY <1>2, <1>7, <1>12, SeenUnixCall

LEMMA BeginSeen ==
  ASSUME UnixInv, proc_begin_user
  PROVE  UnixSeen /\ UnixInv'
<1>0. /\ StoreInv /\ ProcInv /\ table \in [Slots -> Record] /\ next_pid \in Nat
      /\ Tree(table, next_pid, current_idx) /\ Me = table[current_idx]
      /\ InUse(table[current_idx]) /\ current_idx \in Slots
  BY UnixFacts
<1>1. ProcInv'
  BY <1>0, BeginKeeps
<1>2. /\ pend = None /\ pend' = pend /\ next_pid' = next_pid + 1 /\ next_pid <= MaxPid
      /\ UNCHANGED <<dirs, tabs, data>>
  BY DEF proc_begin_user, KernelRuns, Running, frameVars
<1>3. StoreInv' /\ Local' = Local
  BY <1>0, <1>2, SameMemories, LocalSame
<1>. DEFINE q == NewProc(KDir)
<1>4. PICK i \in Slots : /\ i # 0 /\ ~InUse(table[i])
                         /\ table' = Dispatch([table EXCEPT ![i] = q], i)
                         /\ current_idx' = i
  BY DEF proc_begin_user, FreeSlot, Used, InUse
<1>. DEFINE tab1 == [table EXCEPT ![i] = q]
<1>5. Newborn(q, table, next_pid, current_idx, KDir)
  BY <1>0, <1>2, NewProcIs
<1>6. /\ q \in Record /\ q.pid = next_pid /\ q.ppid = table[current_idx].pid
      /\ q.state = "ready" /\ q.dir = KDir /\ q.code = 0
  BY <1>5 DEF Newborn
<1>. HIDE DEF q
<1>7. tab1 \in [Slots -> Record] /\ tab1[i] = q /\ \A j \in Slots : j # i => tab1[j] = table[j]
  BY <1>0, <1>6
<1>8. table' = Dispatch(tab1, i)
  BY <1>4
<1>. HIDE DEF tab1
<1>9. Runs(tab1, table', current_idx, i)
  BY <1>7, <1>8, DispatchIs
<1>10. Steady(tab1, table', Slots)
  <2>1. Alive(tab1[i])
    BY <1>6, <1>7 DEF Alive
  <2>. QED
    BY <2>1, <1>9, RunsSteady
<1>11. Steady(table, table', Slots \ {i})
  BY <1>7, <1>10 DEF Steady
<1>12. /\ table'[i].state = "running" /\ table'[i].pid = next_pid /\ table'[i].code = 0
       /\ table'[i].ppid = table[current_idx].pid /\ table'[i].dir = KDir
  BY <1>6, <1>7, <1>9 DEF Runs
<1>13. InUse(table'[i])
  BY <1>12 DEF InUse
<1>14. UnixInv' /\ Processes' = Put(Processes, next_pid, Rec(table'[i], Local'))
  BY <1>1, <1>3, <1>4, <1>11, <1>12, <1>13, BirthKeeps
<1>15. Dead(table'[i]) = FALSE
  BY <1>12 DEF Dead
<1>16. Program(table'[i]) = TRUE
  <2>1. next_pid # 0
    BY <1>0 DEF Tree, TableTyped
  <2>. QED
    BY <2>1, <1>12 DEF Program
<1>17. Local'[KDir] = Nothing
  BY <1>3, UnixSpaces
<1>18. Rec(table'[i], Local') = Person(Me.pid, FALSE, 0, TRUE, Nothing)
  BY <1>0, <1>12, <1>15, <1>16, <1>17, Zenon DEF Rec
<1>19. Processes' = Put(Processes, next_pid, Person(Me.pid, FALSE, 0, TRUE, Nothing))
  BY <1>14, <1>18, Zenon
<1>20. Me.pid' = next_pid
  BY <1>4, <1>12 DEF Me
<1>21. Unix!Call
  BY <1>0, <1>2, <1>19, <1>20, SeenProgram
<1>. QED
  BY <1>2, <1>14, <1>21, SeenUnixCall

LEMMA EndSeen ==
  ASSUME UnixInv, proc_end_user
  PROVE  UnixSeen /\ UnixInv'
<1>. DEFINE c == current_idx
            tab1 == Dispatch(table, 0)
<1>0. /\ StoreInv /\ ProcInv /\ table \in [Slots -> Record] /\ 0 \in Slots
      /\ Tree(table, next_pid, c) /\ Me = table[c] /\ InUse(table[c]) /\ c \in Slots
      /\ Descends(table)
  BY UnixFacts
<1>1. ProcInv'
  BY <1>0, EndKeeps
<1>2. /\ pend = None /\ pend' = pend /\ next_pid' = next_pid /\ c # 0 /\ table[c].dir = KDir
      /\ table' = [tab1 EXCEPT ![c] = Unused] /\ current_idx' = 0
      /\ UNCHANGED <<dirs, tabs, data>>
  BY DEF proc_end_user, Running, InProgram, Me, frameVars
<1>3. StoreInv' /\ Local' = Local
  BY <1>0, <1>2, SameMemories, LocalSame
<1>4. Runs(table, tab1, c, 0)
  BY <1>0, DispatchIs
<1>. HIDE DEF c, tab1
<1>5. Steady(table, tab1, Slots) /\ tab1 \in [Slots -> Record]
  BY <1>0, <1>4, RunsSteady DEF Tree, Rooted, Runs
<1>6. table'[c] = Unused /\ \A j \in Slots : j # c => table'[j] = tab1[j]
  BY <1>0, <1>2, <1>5
<1>7. ~InUse(table'[c]) /\ Steady(table, table', Slots \ {c})
  BY <1>5, <1>6, UnusedIs DEF Steady
<1>8. UnixInv' /\ Processes' = Restrict(Processes, DOMAIN Processes \ {table[c].pid})
  BY <1>0, <1>1, <1>3, <1>7, DropKeeps
<1>9. Processes[table[c].pid] = Rec(table[c], Local)
  BY <1>0, UnixTable
<1>10. Processes[table[c].pid].program = Program(table[c])
  BY <1>9, PersonFields DEF Rec
<1>11. Program(table[c])
  <2>1. table[c].ppid < table[c].pid /\ table[c].ppid \in Nat /\ table[c].pid \in Nat
    BY <1>0, <1>2 DEF Descends, Record
  <2>2. table[c].pid # 0
    BY <2>1
  <2>. QED
    BY <2>2, <1>2 DEF Program
<1>12. Processes[Me.pid].program
  BY <1>0, <1>10, <1>11, Zenon
<1>13. Me.pid' = 0
  <2>1. table'[0].pid = 0
    BY <1>0, <1>2, <1>5, <1>6 DEF Steady, Tree, Rooted, InUse, Alive
  <2>. QED
    BY <2>1, <1>2 DEF Me
<1>14. Unix!Call
  BY <1>0, <1>2, <1>8, <1>12, <1>13, SeenProgramEnds
<1>. QED
  BY <1>2, <1>8, <1>14, SeenUnixCall

LEMMA BereavedOther ==
  ASSUME NEW P, NEW n, NEW c, NEW q \in DOMAIN P, q # n, NEW par, NEW d, NEW k, NEW g, NEW m,
         P[q] = Person(par, d, k, g, m)
  PROVE  Bereaved(P, n, c)[q] = Person(IF par = n THEN 0 ELSE par, d, k, g, m)
<1>1. P[q].parent = par
  BY PersonFields
<1>2. Bereaved(P, n, c)[q] = [P[q] EXCEPT !.parent = IF par = n THEN 0 ELSE par]
  BY <1>1 DEF Bereaved
<1>. QED
  BY <1>2, PersonParent

LEMMA ExitSeen ==
  ASSUME UnixInv, NEW code \in Codes, proc_exit(code)
  PROVE  UnixSeen /\ UnixInv'
<1>. DEFINE c == current_idx
            d == table[c].dir
            n == table[c].pid
            F == Bereaved(Processes, n, code)
<1>0. /\ MemInv /\ CpuInv /\ StoreInv /\ ProcInv /\ table \in [Slots -> Record] /\ 0 \in Slots
      /\ Tree(table, next_pid, c) /\ Me = table[c] /\ InUse(table[c]) /\ c \in Slots
      /\ Owners(table, DOMAIN dirs) /\ PidsApart(table) /\ Descends(table)
      /\ Childless(table, c) /\ cr3 = d
  BY UnixFacts
<1>1. ProcInv'
  BY <1>0, ExitKeeps
<1>2. /\ pend = None /\ pend' = pend /\ next_pid' = next_pid /\ n # 0 /\ current_idx' = 0
      /\ vmm_destroy_dir(d) /\ table' = AfterExit(code) /\ NoProgram(table, c)
  BY <1>0 DEF proc_exit, KernelRuns, Running, InProgram, NoProgram
<1>3. c # 0
  BY <1>0, <1>2 DEF Tree, Rooted
<1>4. d \in DOMAIN dirs /\ d \in Frames /\ d # KDir
  BY <1>0, <1>2, <1>3, UnixSpaces DEF CpuInv, NoProgram
<1>5. /\ StoreInv' /\ DOMAIN dirs' = DOMAIN dirs \ {d}
      /\ Memories' = Restrict(Memories, DOMAIN dirs \ {d})
  BY <1>0, <1>2, <1>4, DestroyShows
<1>6. Local' = [Local EXCEPT ![d] = Nothing]
  <2>1. d \in Dirs /\ DOMAIN Memories = DOMAIN dirs
    BY <1>4, UnixSpaces
  <2>. QED
    BY <2>1, <1>5, LocalDrop DEF Local
<1>7. Exits(table, table', c) /\ table'[c].code = code
  BY <1>0, <1>2, <1>3, ExitIs
<1>8. \A j \in Slots : InUse(table'[j]) <=> InUse(table[j])
  BY <1>0, <1>3, <1>7, ExitTree
<1>9. DOMAIN Local = Dirs
  BY DEF Local, LocalOf
<1>10. \A j \in Slots \ {c} : InUse(table[j]) =>
         table[j].dir # d /\ Local'[table[j].dir] = Local[table[j].dir]
  BY <1>0, <1>4, <1>6, <1>9, UnixTable DEF Owners
<1>11. Local'[None] = Nothing
  BY <1>4, <1>6, <1>9, UnixSpaces, VmmAssumption
<1>12. table[c].ppid < n /\ table[c].ppid \in Nat /\ n \in Nat
  BY <1>0, <1>3 DEF Descends, Record
<1>. HIDE DEF c, d, n
<1>13. F = [q \in DOMAIN F |-> F[q]] /\ DOMAIN F = DOMAIN Processes
  BY DEF Bereaved
<1>. HIDE DEF F
<1>14. DOMAIN F = PidsIn(table')
  <2>1. PidsIn(table') = PidsIn(table)
    BY <1>7, <1>8 DEF PidsIn, Exits
  <2>. QED
    BY <2>1, <1>13, UnixTable
<1>15. ASSUME NEW j \in Slots, InUse(table'[j]) PROVE F[table'[j].pid] = Rec(table'[j], Local')
  <2>0. InUse(table[j]) /\ table'[j].pid = table[j].pid
    BY <1>7, <1>8, <1>15 DEF Exits
  <2>1. table[j].pid \in DOMAIN Processes /\ Processes[table[j].pid] = Rec(table[j], Local)
    BY <2>0, UnixTable
  <2>2. Processes[table[j].pid] = Person(table[j].ppid, Dead(table[j]), table[j].code,
                                         Program(table[j]), Local[table[j].dir])
    BY <2>1, Zenon DEF Rec
  <2>4. CASE j = c
    <3>1. F[table[c].pid] = Person(table[c].ppid, TRUE, code, Program(table[c]), Nothing)
      <4>. DEFINE par == table[c].ppid
                  dd == Dead(table[c])
                  k == table[c].code
                  g == Program(table[c])
                  m == Local[table[c].dir]
      <4>1. n \in DOMAIN Processes /\ table[c].pid = n /\ Processes[n] = Person(par, dd, k, g, m)
        BY <2>1, <2>2, <2>4 DEF n
      <4>. HIDE DEF par, dd, k, g, m
      <4>2. F[n] = Dies(Processes[n], TRUE, code, Nothing)
        BY <4>1 DEF F, Bereaved
      <4>3. \A v : Dies(Processes[n], v, code, Nothing) = Person(par, v, code, g, Nothing)
        BY <4>1, PersonDies
      <4>. QED
        BY <4>1, <4>2, <4>3, Zenon DEF par, g
    <3>2. /\ table'[c].ppid = table[c].ppid /\ table'[c].code = code /\ table'[c].dir = None
          /\ table'[c].state = "zombie"
      BY <1>0, <1>3, <1>7, <1>12 DEF Exits, n
    <3>3. Dead(table'[c]) = TRUE
      BY <3>2 DEF Dead
    <3>4. Program(table'[c]) = Program(table[c])
      BY <1>4, <3>2, NoneAssumption DEF Program, d
    <3>5. Rec(table'[c], Local') = Person(table[c].ppid, TRUE, code, Program(table[c]), Nothing)
      BY <3>2, <3>3, <3>4, <1>11, Zenon DEF Rec
    <3>. QED
      BY <2>0, <2>4, <3>1, <3>5, Zenon
  <2>5. CASE j # c
    <3>1. table[j].pid # n
      BY <1>0, <2>0, <2>5 DEF PidsApart, n
    <3>2. /\ table'[j].ppid = IF table[j].ppid = n THEN 0 ELSE table[j].ppid
          /\ table'[j].code = table[j].code /\ table'[j].dir = table[j].dir
          /\ table'[j].state = "zombie" <=> table[j].state = "zombie"
      BY <1>0, <1>2, <1>7, <2>0, <2>5 DEF Exits, n, Tree, Rooted, Alive
    <3>3. Dead(table'[j]) = Dead(table[j])
      BY <3>2 DEF Dead
    <3>4. Program(table'[j]) = Program(table[j])
      BY <2>0, <3>2 DEF Program
    <3>5. Local'[table'[j].dir] = Local[table[j].dir]
      BY <1>10, <2>0, <2>5, <3>2
    <3>6. Rec(table'[j], Local') = Person(IF table[j].ppid = n THEN 0 ELSE table[j].ppid,
              Dead(table[j]), table[j].code, Program(table[j]), Local[table[j].dir])
      BY <3>2, <3>3, <3>4, <3>5 DEF Rec
    <3>7. F[table[j].pid] = Person(IF table[j].ppid = n THEN 0 ELSE table[j].ppid,
              Dead(table[j]), table[j].code, Program(table[j]), Local[table[j].dir])
      BY <2>1, <2>2, <3>1, BereavedOther DEF F
    <3>. QED
      BY <2>0, <3>6, <3>7
  <2>. QED
    BY <2>4, <2>5
<1>16. ProcsIn(table', Local') = F
  BY <1>13, <1>14, <1>15, ProcsAre
<1>17. Processes' = Bereaved(Processes, Me.pid, code)
  BY <1>0, <1>1, <1>16, NextTable DEF F, n
<1>18. PidsApart(table')
  BY <1>0, <1>7, <1>8 DEF PidsApart, Exits
<1>19. Descends(table')
  <2>1. \A j \in Slots \ {0} : InUse(table'[j]) =>
          table'[j].ppid = 0 \/ table'[j].ppid = table[j].ppid
    BY <1>7 DEF Exits
  <2>2. \A j \in Slots \ {0} : InUse(table[j]) =>
          table[j].ppid < table[j].pid /\ table[j].ppid \in Nat /\ table[j].pid \in Nat
    BY <1>0 DEF Descends, Record
  <2>3. \A j \in Slots : table'[j].pid = table[j].pid
    BY <1>7 DEF Exits
  <2>. QED
    BY <2>1, <2>2, <2>3, <1>8 DEF Descends
<1>20. UnixInv'
  BY <1>1, <1>5, <1>18, <1>19 DEF UnixInv
<1>21. Me.pid' = 0 /\ Me.pid # 0
  BY <1>0, <1>2, <1>7 DEF Me, Exits, Tree, Rooted, n
<1>22. Unix!Call
  BY <1>2, <1>17, <1>21, SeenExit
<1>. QED
  BY <1>2, <1>20, <1>22, SeenUnixCall

LEMMA AccessFields ==
  ASSUME NEW op \in Accesses
  PROVE  op.page \in Pages /\ op.write \in BOOLEAN
BY DEF Accesses

LEMMA BareVal ==
  ASSUME NEW x, NEW v, x.mapped, NEW e, NEW X, x = Sight(e, X)
  PROVE  Bare([x EXCEPT !.val = v]) = [Bare(x) EXCEPT !.val = v] /\ Bare(x).mapped
<1>1. e # None
  BY DEF Sight
<1>. DEFINE w == e.rw \/ e.cow
            a == X[e.frame]
<1>2. x = [mapped |-> TRUE, val |-> a, writable |-> w]
  BY <1>1 DEF Sight
<1>. HIDE DEF w, a
<1>3. [x EXCEPT !.val = v] = [mapped |-> TRUE, val |-> v, writable |-> w]
  <2>1. [[mapped |-> TRUE, val |-> a, writable |-> w] EXCEPT !.val = v]
          = [mapped |-> TRUE, val |-> v, writable |-> w]
    BY ONLY ValueSet
  <2>. QED
    BY <1>2, <2>1, Zenon
<1>4. Bare(x) = [mapped |-> TRUE, val |-> a]
  BY <1>2, BareMapped, Zenon
<1>5. Bare([x EXCEPT !.val = v]) = [mapped |-> TRUE, val |-> v]
  BY <1>3, BareMapped, Zenon
<1>6. \A t : [[mapped |-> t, val |-> a] EXCEPT !.val = v] = [mapped |-> t, val |-> v]
  BY SMT
<1>7. [[mapped |-> TRUE, val |-> a] EXCEPT !.val = v] = [mapped |-> TRUE, val |-> v]
  BY <1>6, Zenon
<1>8. Bare(x).mapped
  BY <1>4
<1>. QED
  BY <1>4, <1>5, <1>7, <1>8, Zenon

LEMMA DoneSeen ==
  ASSUME UnixInv, ProcInv', NEW op \in Accesses, pend = None \/ pend = op, Perform(op),
         table' = table, next_pid' = next_pid, current_idx' = current_idx
  PROVE  UnixSeen /\ UnixInv'
<1>. DEFINE p == op.page
            q == Me.pid
<1>0. /\ VmmInv /\ MemInv /\ StoreInv /\ cr3 = Me.dir /\ Me = table[current_idx]
      /\ current_idx \in Slots /\ InUse(table[current_idx]) /\ p \in Pages
  BY UnixFacts, AccessFields
<1>1. /\ StoreInv' /\ dirs' = dirs /\ cr3 \in DOMAIN dirs /\ Memories[cr3][p].mapped
      /\ Memories' = IF op.write THEN Stored(op) ELSE Memories
  BY <1>0, PerformShows
<1>2. pend' = None /\ Me.pid' = Me.pid
  BY DEF Perform, Me
<1>3. Processes[q] = Rec(Me, Local) /\ q \in DOMAIN Processes
  BY <1>0, UnixTable
<1>4. Local[cr3] = BareOf(Memories[cr3])
  BY <1>1, UnixSpaces DEF Local, LocalOf
<1>5. Processes[q].mem = BareOf(Memories[cr3])
  BY <1>0, <1>3, <1>4, PersonFields DEF Rec
<1>. DEFINE x == Memories[cr3][p]
            v == [x EXCEPT !.val = op.val]
<1>6. Processes[q].mem[p] = Bare(x)
  BY <1>0, <1>5 DEF BareOf
<1>7. x = Sight(View(dirs, tabs)[<<cr3, p>>], data)
  BY <1>0, <1>1, MemoriesAre
<1>8. Bare(v) = [Bare(x) EXCEPT !.val = op.val] /\ Bare(x).mapped
  BY <1>1, <1>7, BareVal
<1>9. Processes[q].mem[p].mapped
  BY <1>6, <1>8
<1>10. CASE op.write
  <2>1. Memories' = WithPage(Memories, cr3, p, v)
    BY <1>1, <1>10 DEF Stored
  <2>. HIDE DEF v, x
  <2>2. /\ UnixInv'
        /\ Processes' = [Processes EXCEPT ![q] = [Processes[q] EXCEPT !.mem =
                           [Processes[q].mem EXCEPT ![p] = Bare(v)]]]
    BY <1>0, <1>1, <2>1, PageKeeps
  <2>3. Processes' = [Processes EXCEPT ![q] = [Processes[q] EXCEPT !.mem =
                        [Processes[q].mem EXCEPT ![p] =
                           [Processes[q].mem[p] EXCEPT !.val = op.val]]]]
    BY <1>6, <1>8, <2>2, Zenon
  <2>4. UnixSeen
    BY <1>2, <1>9, <1>10, <2>3, SeenDone
  <2>. QED
    BY <2>2, <2>4
<1>11. CASE ~op.write
  <2>1. Local' = Local
    BY <1>1, <1>11, LocalSame
  <2>2. UnixInv' /\ Processes' = Processes
    BY <1>1, <2>1, SteadyItself, StillKeeps
  <2>3. UnixSeen
    BY <1>2, <1>9, <1>11, <2>2, SeenDone
  <2>. QED
    BY <2>2, <2>3
<1>. QED
  BY <1>10, <1>11

LEMMA HeldUpSeen ==
  ASSUME UnixInv, ProcInv', NEW op \in Accesses, pend = None \/ pend = op, isr_handler(op),
         table' = table, next_pid' = next_pid, current_idx' = current_idx
  PROVE  UnixSeen /\ UnixInv'
<1>0. /\ MemInv /\ CpuInv /\ StoreInv /\ regions = << >> /\ op.page \in Pages
  BY UnixFacts, AccessFields
<1>1. ~Promised(cr3, op.page)
  BY <1>0 DEF Promised
<1>2. pend' = op /\ Me.pid' = Me.pid
  BY DEF isr_handler, Resolve, GiveUp, Me
<1>3. ASSUME StoreInv', DOMAIN dirs' = DOMAIN dirs, Memories' = Memories
      PROVE  UnixSeen /\ UnixInv'
  <2>1. Local' = Local
    BY <1>3, LocalSame
  <2>2. UnixInv' /\ Processes' = Processes
    BY <1>3, <2>1, SteadyItself, StillKeeps
  <2>3. UnixSeen
    BY <1>2, <2>2, SeenHeldUp
  <2>. QED
    BY <2>2, <2>3
<1>4. CASE CowFault(op) /\ vmm_cow_handle(op.page)
  <2>1. cr3 \in DOMAIN dirs
    BY <1>0, <1>4, CpuAt DEF CowFault
  <2>2. StoreInv' /\ DOMAIN dirs' = DOMAIN dirs /\ Memories' = Memories
    BY <1>0, <1>4, <2>1, CowShows
  <2>. QED
    BY <1>3, <2>2
<1>5. CASE demand_handle_returns_0(op.page)
  <2>1. UNCHANGED <<dirs, tabs, data>>
    BY <1>1, <1>5 DEF demand_handle_returns_0, frameVars
  <2>2. StoreInv' /\ Memories' = Memories
    BY <1>0, <2>1, SameMemories
  <2>. QED
    BY <1>3, <2>1, <2>2
<1>. QED
  BY <1>1, <1>4, <1>5 DEF isr_handler, Resolve, GiveUp, demand_handle

LEMMA TouchSeen ==
  ASSUME UnixInv, ProcInv', Touch
  PROVE  UnixSeen /\ UnixInv'
<1>1. table' = table /\ next_pid' = next_pid /\ current_idx' = current_idx
  BY DEF Touch, procVars
<1>2. ASSUME NEW op \in Accesses, Issue(op) PROVE UnixSeen /\ UnixInv'
  <2>1. pend = None /\ (Perform(op) \/ isr_handler(op))
    BY <1>2 DEF Issue, Running
  <2>. QED
    BY <1>1, <2>1, DoneSeen, HeldUpSeen
<1>3. CASE Rerun
  <2>1. pend # None /\ (Perform(pend) \/ isr_handler(pend))
    BY <1>3 DEF Rerun
  <2>2. pend \in Accesses
    BY <2>1, UnixFacts DEF VmmInv, FaultInv
  <2>. QED
    BY <1>1, <2>1, <2>2, DoneSeen, HeldUpSeen
<1>. QED
  BY <1>2, <1>3 DEF Touch

(* Nothing of the memory and the table changes.                            *)
LEMMA IdleSeen ==
  ASSUME UnixInv, ProcInv', UNCHANGED <<dirs, tabs, data, pend, table, next_pid, current_idx>>
  PROVE  UnixSeen /\ UnixInv'
<1>1. StoreInv' /\ Local' = Local
  BY UnixFacts, SameMemories, LocalSame
<1>2. UnixInv' /\ Processes' = Processes
  BY <1>1, SteadyItself, StillKeeps
<1>3. Me.pid' = Me.pid
  BY DEF Me
<1>. QED
  BY <1>2, <1>3, SeenStill

LEMMA UnixStep ==
  ASSUME UnixInv, [ProcNext]_allVars
  PROVE  UnixSeen /\ UnixInv'
<1>1. ProcInv'
  BY UnixFacts, ProcStep
<1>2. ASSUME NEW p \in Pages, Evict(p), UNCHANGED procVars PROVE UnixSeen /\ UnixInv'
  BY <1>1, <1>2, IdleSeen DEF Evict, frameVars, procVars
<1>3. CASE Halt /\ UNCHANGED procVars
  BY <1>1, <1>3, IdleSeen DEF Halt, vars, procVars
<1>4. CASE UNCHANGED allVars
  BY <1>1, <1>4, IdleSeen DEF allVars, vars, procVars
<1>. QED
  BY <1>1, <1>2, <1>3, <1>4, SpawnSeen, MapPageSeen, ForkUnixSeen, ExitSeen, WaitSeen,
     SwitchToSeen, BeginSeen, EndSeen, TouchSeen DEF ProcNext

LEMMA UnixInitial == ProcInit => UnixInv /\ Unix!Init
<1>. SUFFICES ASSUME ProcInit PROVE UnixInv /\ Unix!Init
  OBVIOUS
<1>1. ProcInv
  BY ProcInitial
<1>2. /\ table = [i \in Slots |-> IF i = 0 THEN Kernel ELSE Unused] /\ 0 \in Slots
      /\ next_pid = 1 /\ current_idx = 0 /\ dirs = << >> /\ pend = None
  BY SlotZero DEF ProcInit, Init
<1>3. /\ Kernel.state = "running" /\ Kernel.dir = KDir /\ Kernel.pid = 0 /\ Kernel.ppid = 0
      /\ Kernel.code = 0
  BY DEF Kernel, Unused
<1>4. table[0] = Kernel /\ \A i \in Slots : i # 0 => ~InUse(table[i])
  BY <1>2, UnusedIs
<1>5. DOMAIN dirs = {}
  BY <1>2
<1>6. StoreInv
  BY <1>5 DEF StoreInv, Backed, View
<1>7. PidsApart(table) /\ Descends(table)
  BY <1>4 DEF PidsApart, Descends
<1>8. UnixInv
  BY <1>1, <1>6, <1>7 DEF UnixInv
<1>9. InUse(table[0])
  BY <1>3, <1>4 DEF InUse
<1>10. PidsIn(table) = {0}
  BY <1>2, <1>3, <1>4, <1>9 DEF PidsIn
<1>11. DOMAIN Processes = {0} /\ Processes[0] = Rec(Kernel, Local)
  BY <1>2, <1>3, <1>4, <1>8, <1>9, <1>10, UnixTable
<1>12. Rec(Kernel, Local) = Person(0, FALSE, 0, FALSE, Nothing)
  <2>1. Dead(Kernel) = FALSE
    BY <1>3 DEF Dead
  <2>2. Program(Kernel) = FALSE
    BY <1>3 DEF Program
  <2>3. Local[KDir] = Nothing
    BY <1>8, UnixSpaces
  <2>. QED
    BY <2>1, <2>2, <2>3, <1>3, Zenon DEF Rec
<1>13. Unix!Process(0, Unix!NoPages) = Person(0, FALSE, 0, FALSE, Nothing)
  BY DEF Unix!Process, Unix!NoPages, Unix!Absent, Person, Nothing
<1>14. Processes = [q \in {0} |-> Unix!Process(0, Unix!NoPages)]
  <2>1. Processes[0] = Unix!Process(0, Unix!NoPages)
    BY <1>11, <1>12, <1>13, Zenon
  <2>2. Processes = [q \in DOMAIN Processes |-> Processes[q]]
    BY DEF Processes
  <2>3. Processes = [q \in {0} |-> Processes[q]]
    BY <1>11, <2>2
  <2>. HIDE DEF Processes
  <2>4. [q \in {0} |-> Processes[q]] = [q \in {0} |-> Processes[0]]
    OBVIOUS
  <2>. QED
    BY <2>1, <2>3, <2>4, Zenon
<1>15. Me.pid = 0 /\ next_pid - 1 = 0
  BY <1>2, <1>3, <1>4 DEF Me
<1>16. Unix!Init
  BY <1>2, <1>14, <1>15, Zenon DEF Unix!Init
<1>. QED
  BY <1>8, <1>16

(* The table of slots over shared, copied-on-write pages behaves as a tree *)
(* of processes with private memories: fork gives the child a copy of its  *)
(* parent (proc.c:130-157), exit leaves a code and no memory, hands the    *)
(* children to process 0, wait takes each dead child once, and no pid is   *)
(* used twice.                                                             *)
THEOREM ImplementsUnix == ProcSpec => UnixSpec
<1>1. ProcInit => UnixInv /\ Unix!Init
  BY UnixInitial
<1>2. UnixInv /\ [ProcNext]_allVars => UnixInv'
  BY UnixStep
<1>3. UnixInv /\ [ProcNext]_allVars => [Unix!Next]_(Unix!vars)
  BY UnixStep DEF UnixSeen
<1>. QED
  BY <1>1, <1>2, <1>3, PTL DEF ProcSpec, UnixSpec, Unix!Spec
=============================================================================
