-------------------------------- MODULE Vmm --------------------------------
(***************************************************************************)
(* Address spaces: kernel/vmm.c, kernel/demand.c and the page-fault part   *)
(* of isr_handler in kernel/isr.c, on the CPU they run on (the MMU's page  *)
(* walk, the TLB, CR3).                                                    *)
(*                                                                         *)
(* The frame allocator is seen through what Pmm.tla establishes: a frame   *)
(* has a count of references, pmm_alloc returns any frame whose count is   *)
(* 0, pmm_free and pmm_incref move the count.  A virtual page is a pair    *)
(* <<directory index, table index>>; indices 0 and 1, the shared kernel    *)
(* range, are left out, so the kernel's own directory has no entries.      *)
(* An operation of the kernel runs to its end before the next one starts:  *)
(* nothing in vmm.c is called from an interrupt other than the page fault  *)
(* itself.  The interleavings are those of the kernel's calls, the         *)
(* faulting accesses and the TLB, which may drop an entry at any time.     *)
(***************************************************************************)
EXTENDS Naturals, FiniteSets, Sequences, Functions

CONSTANTS Frames,      \* the managed frames
          KDir,        \* kernel_dir, the boot page directory
          None,        \* an entry that is not present, a call that returned 0
          DirIdx,      \* directory indices 2.. that are used
          TabIdx,      \* table indices that are used
          Values,      \* what a page can hold
          Zero,        \* what memset leaves in it
          Perms,       \* PF_RW in the flags of a vmm_map_alloc, or not
          MaxRegions,  \* MAX_REGIONS of demand.c
          MaxSpaces,   \* bound: spaces at a time (MAX_PROCS slots own one each)
          RefMax       \* the largest reference count (255)

ASSUME VmmAssumption ==
  /\ IsFiniteSet(Frames)
  /\ KDir \notin Frames
  /\ None \notin Frames
  /\ DirIdx \subseteq Nat
  /\ IsFiniteSet(DirIdx)
  /\ IsFiniteSet(TabIdx)
  /\ Zero \in Values
  /\ Perms \subseteq BOOLEAN
  /\ MaxRegions \in Nat
  /\ MaxSpaces \in Nat \ {0}
  /\ RefMax \in Nat
  /\ MaxSpaces <= RefMax      \* 16 and 255: a count has room for every space

Pages == DirIdx \X TabIdx
Entries == [frame : Frames, rw : BOOLEAN, cow : BOOLEAN]
Accesses == [write : {FALSE}, page : Pages]
              \cup [write : {TRUE}, page : Pages, val : Values]

ASSUME NoneAssumption == /\ None # KDir
                         /\ None \notin Entries
                         /\ None \notin Accesses

VARIABLES ref,         \* the reference count of each frame
          dirs,        \* the page directories, by their frame
          tabs,        \* the page tables, by their frame
          data,        \* the contents of the frames that hold data
          cr3,         \* the active directory
          tlb,         \* what the TLB caches for each page, or None
          regions,     \* the active entries of regions[]
          pend,        \* the access whose fault has been handled, to be re-run
          halted,      \* isr_handler found no way to go on
          lost         \* history: frames that are in use and have no holder

frameVars == <<ref, dirs, tabs, data, lost>>
cpuVars == <<cr3, tlb, pend, halted>>
vars == <<ref, dirs, tabs, data, cr3, tlb, regions, pend, halted, lost>>

Put(f, x, v) == [y \in DOMAIN f \cup {x} |-> IF y = x THEN v ELSE f[y]]

Empty == [di \in DirIdx |-> None]
Blank == [ti \in TabIdx |-> None]
Flushed == [p \in Pages |-> None]

Init == /\ ref = [f \in Frames |-> 0]
        /\ dirs = << >>
        /\ tabs = << >>
        /\ data = << >>
        /\ cr3 = KDir
        /\ tlb = Flushed
        /\ regions = << >>
        /\ pend = None
        /\ halted = FALSE
        /\ lost = {}

-----------------------------------------------------------------------------
(* The frames pmm_alloc chooses from, and counts after calls of pmm_alloc, *)
(* pmm_incref and pmm_free.                                                *)
Free == {f \in Frames : ref[f] = 0}

Incref_Skipped(n, k) == n

Incref(n, k) == IF n = 0 THEN 0 ELSE IF n + k <= RefMax THEN n + k ELSE RefMax
Freed(n, k) == IF n > k THEN n - k ELSE 0

(* The directory, the table and the entry a page is reached through.       *)
Dir(d) == IF d \in DOMAIN dirs THEN dirs[d] ELSE Empty
table_for(d, p) == Dir(d)[p[1]]
Entry(d, p) == IF table_for(d, p) = None THEN None ELSE tabs[table_for(d, p)][p[2]]

Present(d) == {di \in DirIdx : Dir(d)[di] # None}
Mapped(d) == {p \in Pages : Entry(d, p) # None}
TablesOf(d) == {Dir(d)[di] : di \in Present(d)}
Mappings(d, f) == {p \in Mapped(d) : Entry(d, p).frame = f}

(* As many distinct frames as S has members, all of them free.             *)
Fresh(S, F) == Injection(S, F)

-----------------------------------------------------------------------------
(* vmm_switch: the CR3 load also empties the TLB.  vmm_flush: one page.    *)
vmm_switch(d) == /\ cr3' = d
                 /\ tlb' = Flushed

vmm_flush_Skipped(p) == UNCHANGED tlb

vmm_flush(p) == tlb' = [tlb EXCEPT ![p] = None]

vmm_create_dir(d) == /\ d \in Free
                     /\ ref' = [ref EXCEPT ![d] = 1]
                     /\ dirs' = Put(dirs, d, Empty)
                     /\ UNCHANGED <<tabs, data, lost>>

(* vmm_map_alloc takes the data frame first and the table, if the          *)
(* directory has none yet, second.                                         *)
MapHere(d, p, w, f) == /\ table_for(d, p) # None
                       /\ ref' = [ref EXCEPT ![f] = 1]
                       /\ data' = Put(data, f, Zero)
                       /\ tabs' = [tabs EXCEPT ![table_for(d, p)][p[2]] =
                                     [frame |-> f, rw |-> w, cow |-> FALSE]]
                       /\ vmm_flush(p)
                       /\ UNCHANGED <<dirs, lost>>

MapNewTable(d, p, w, f, t) ==
  /\ table_for(d, p) = None
  /\ ref' = [ref EXCEPT ![f] = 1, ![t] = 1]
  /\ data' = Put(data, f, Zero)
  /\ dirs' = [dirs EXCEPT ![d][p[1]] = t]
  /\ tabs' = Put(tabs, t, [Blank EXCEPT ![p[2]] =
                             [frame |-> f, rw |-> w, cow |-> FALSE]])
  /\ vmm_flush(p)
  /\ UNCHANGED lost

vmm_map_alloc(d, p, w) ==
  \/ \E f \in Free : MapHere(d, p, w, f)
  \/ \E f \in Free : \E t \in Free \ {f} : MapNewTable(d, p, w, f, t)

(* It returns -1: no data frame; or a data frame and no table, in which    *)
(* case nothing refers to the data frame any more.                         *)
vmm_map_alloc_fails(d, p) ==
  \/ /\ Free = {}
     /\ UNCHANGED <<frameVars, tlb>>
  \/ \E f \in Free :
       /\ Free = {f}
       /\ table_for(d, p) = None
       /\ ref' = [ref EXCEPT ![f] = 1]
       /\ lost' = lost \cup {f}
       /\ UNCHANGED <<dirs, tabs, data, tlb>>

(* What is left of the data frames when the references that ref1 no longer *)
(* counts are gone.                                                        *)
Held(ref1) == {f \in DOMAIN data : ref1[f] > 0}

vmm_unmap(d, p) ==
  /\ p \in Mapped(d)
  /\ ref' = [ref EXCEPT ![Entry(d, p).frame] = Freed(@, 1)]
  /\ data' = Restrict(data, Held(ref'))
  /\ tabs' = [tabs EXCEPT ![table_for(d, p)][p[2]] = None]
  /\ vmm_flush(p)
  /\ UNCHANGED <<dirs, lost>>

vmm_destroy_dir(d) ==
  /\ ref' = [f \in Frames |->
               IF f \in TablesOf(d) \cup {d} THEN Freed(ref[f], 1)
               ELSE Freed(ref[f], Cardinality(Mappings(d, f)))]
  /\ dirs' = Restrict(dirs, DOMAIN dirs \ {d})
  /\ tabs' = Restrict(tabs, DOMAIN tabs \ TablesOf(d))
  /\ data' = Restrict(data, Held(ref'))
  /\ UNCHANGED lost

-----------------------------------------------------------------------------
(* vmm_clone_dir: a directory, its tables and a copy of every page, or,    *)
(* when there are too few frames, nothing.                                 *)
vmm_clone_dir(s, d) ==
  \E g \in Fresh(Present(s), Free \ {d}) :
    \E h \in Fresh(Mapped(s), (Free \ {d}) \ Range(g)) :
      LET copy(di, ti) == IF Entry(s, <<di, ti>>) = None THEN None
                          ELSE [Entry(s, <<di, ti>>) EXCEPT !.frame = h[<<di, ti>>]]
      IN /\ d \in Free
         /\ ref' = [f \in Frames |->
                      IF f \in {d} \cup Range(g) \cup Range(h) THEN 1 ELSE ref[f]]
         /\ dirs' = Put(dirs, d, [di \in DirIdx |->
                                    IF di \in Present(s) THEN g[di] ELSE None])
         /\ tabs' = [t \in DOMAIN tabs \cup Range(g) |->
                       IF t \in Range(g)
                       THEN [ti \in TabIdx |-> copy(AntiFunction(g)[t], ti)]
                       ELSE tabs[t]]
         /\ data' = [f \in DOMAIN data \cup Range(h) |->
                       IF f \in Range(h)
                       THEN data[Entry(s, AntiFunction(h)[f]).frame]
                       ELSE data[f]]
         /\ UNCHANGED lost

vmm_clone_dir_fails(s) ==
  /\ Cardinality(Free) < 1 + Cardinality(Present(s)) + Cardinality(Mapped(s))
  /\ UNCHANGED frameVars

(* vmm_clone_cow: the same entry on both sides, without write permission,  *)
(* tagged when it had it.                                                  *)
Shared(e) == IF e = None THEN None
             ELSE [e EXCEPT !.rw = FALSE, !.cow = e.rw \/ e.cow]

SharedTable(t) == [ti \in TabIdx |-> Shared(tabs[t][ti])]

vmm_clone_cow(s, d) ==
  \E g \in Fresh(Present(s), Free \ {d}) :
    /\ d \in Free
    /\ ref' = [f \in Frames |-> IF f = d \/ f \in Range(g) THEN 1
                                ELSE Incref(ref[f], Cardinality(Mappings(s, f)))]
    /\ dirs' = Put(dirs, d, [di \in DirIdx |->
                               IF di \in Present(s) THEN g[di] ELSE None])
    /\ tabs' = [t \in DOMAIN tabs \cup Range(g) |->
                  IF t \in TablesOf(s) THEN SharedTable(t)
                  ELSE IF t \in Range(g)
                       THEN SharedTable(Dir(s)[AntiFunction(g)[t]])
                       ELSE tabs[t]]
    /\ UNCHANGED <<data, lost>>

(* The clone runs out of frames: the new space is destroyed, which gives   *)
(* back every reference, but the tables of the source it got to, in the    *)
(* order of their directory index, stay read-only and tagged.              *)
vmm_clone_cow_fails(s) ==
  LET reached == {di \in Present(s) :
                    Cardinality({i \in Present(s) : i <= di}) < Cardinality(Free)}
  IN /\ Cardinality(Free) < 1 + Cardinality(Present(s))
     /\ tabs' = [t \in DOMAIN tabs |->
                   IF t \in {Dir(s)[di] : di \in reached}
                   THEN SharedTable(t) ELSE tabs[t]]
     /\ UNCHANGED <<ref, dirs, data, lost>>

-----------------------------------------------------------------------------
(* What the CPU uses for a page: the TLB's entry if there is one, else the *)
(* one it walks to.                                                        *)
Translation(p) == IF tlb[p] # None THEN tlb[p] ELSE Entry(cr3, p)

Permits(e, op) == e # None /\ (op.write => e.rw)

(* An access that goes through; the TLB keeps what it used.                *)
Perform(op) == LET e == Translation(op.page)
               IN /\ Permits(e, op)
                  /\ tlb' = [tlb EXCEPT ![op.page] = e]
                  /\ data' = IF op.write THEN [data EXCEPT ![e.frame] = op.val]
                             ELSE data
                  /\ pend' = None
                  /\ UNCHANGED <<ref, dirs, tabs, cr3, regions, halted, lost>>

(* demand_handle: an absent page that a region of the active space covers  *)
(* gets a frame.  Otherwise, or if there is no frame, it returns 0.        *)
Promised(d, p) == \E i \in DOMAIN regions : regions[i] = [dir |-> d, di |-> p[1]]

demand_handle(p) == /\ Translation(p) = None
                    /\ Promised(cr3, p)
                    /\ vmm_map_alloc(cr3, p, TRUE)

demand_handle_returns_0(p) ==
  IF Translation(p) = None /\ Promised(cr3, p)
  THEN vmm_map_alloc_fails(cr3, p)
  ELSE UNCHANGED <<frameVars, tlb>>

(* vmm_cow_handle: a store to a tagged page.  The last holder writes in    *)
(* place, any other gets a copy.                                           *)
CowFault_TestsRw(op) == /\ op.write
                        /\ Entry(cr3, op.page) # None
                        /\ Entry(cr3, op.page).rw

CowFault(op) == /\ op.write
                /\ Entry(cr3, op.page) # None
                /\ Entry(cr3, op.page).cow

LastHolder(f) == ref[f] <= 1

Writable_StillTagged(e, f) == [frame |-> f, rw |-> FALSE, cow |-> TRUE]

Writable(e, f) == [frame |-> f, rw |-> TRUE, cow |-> FALSE]

CowInPlace(p) == LET e == Entry(cr3, p)
                 IN /\ LastHolder(e.frame)
                    /\ tabs' = [tabs EXCEPT ![table_for(cr3, p)][p[2]] =
                                  Writable(e, e.frame)]
                    /\ vmm_flush(p)
                    /\ UNCHANGED <<ref, dirs, data, lost>>

CowCopy_Blank(p, fresh) == LET e == Entry(cr3, p)
                           IN /\ ~LastHolder(e.frame)
                              /\ ref' = [ref EXCEPT ![fresh] = 1,
                                                    ![e.frame] = Freed(@, 1)]
                              /\ data' = Put(data, fresh, Zero)
                              /\ tabs' = [tabs EXCEPT ![table_for(cr3, p)][p[2]] =
                                            Writable(e, fresh)]
                              /\ vmm_flush(p)
                              /\ UNCHANGED <<dirs, lost>>

CowCopy(p, fresh) == LET e == Entry(cr3, p)
                     IN /\ ~LastHolder(e.frame)
                        /\ ref' = [ref EXCEPT ![fresh] = 1,
                                              ![e.frame] = Freed(@, 1)]
                        /\ data' = Put(data, fresh, data[e.frame])
                        /\ tabs' = [tabs EXCEPT ![table_for(cr3, p)][p[2]] =
                                      Writable(e, fresh)]
                        /\ vmm_flush(p)
                        /\ UNCHANGED <<dirs, lost>>

vmm_cow_handle(p) == \/ CowInPlace(p)
                     \/ \E fresh \in Free : CowCopy(p, fresh)

CowOutOfMemory(op) == /\ ~LastHolder(Entry(cr3, op.page).frame)
                      /\ Free = {}

(* isr_handler on a page fault, with no recovery armed: the handlers in    *)
(* turn, and if neither resolves the fault, the CPU is halted for good.    *)
Resolve(op) == /\ \/ demand_handle(op.page)
                  \/ CowFault(op) /\ vmm_cow_handle(op.page)
               /\ pend' = op
               /\ UNCHANGED <<cr3, regions, halted>>

GiveUp(op) == /\ \/ ~CowFault(op)
                 \/ CowFault(op) /\ CowOutOfMemory(op)
              /\ demand_handle_returns_0(op.page)
              /\ halted' = TRUE
              /\ pend' = op
              /\ UNCHANGED <<cr3, regions>>

isr_handler(op) == /\ ~Permits(Translation(op.page), op)
                   /\ Resolve(op) \/ GiveUp(op)

-----------------------------------------------------------------------------
(* The kernel's calls.  A call starts when no access is being re-run.      *)
Running == ~halted /\ pend = None
Space == DOMAIN dirs \cup {KDir}
RoomForSpace == Cardinality(DOMAIN dirs) < MaxSpaces

Create == /\ Running
          /\ RoomForSpace
          /\ \E d \in Free : vmm_create_dir(d)
          /\ UNCHANGED <<cpuVars, regions>>

(* A page is mapped where there is none.                                   *)
MapAlloc(d, p, w) == /\ Running
                     /\ Entry(d, p) = None
                     /\ vmm_map_alloc(d, p, w) \/ vmm_map_alloc_fails(d, p)
                     /\ UNCHANGED <<cr3, regions, pend, halted>>

Unmap(d, p) == /\ Running
               /\ vmm_unmap(d, p)
               /\ UNCHANGED <<cr3, regions, pend, halted>>

CloneDir(s) == /\ Running
               /\ RoomForSpace
               /\ (\E d \in Free : vmm_clone_dir(s, d)) \/ vmm_clone_dir_fails(s)
               /\ UNCHANGED <<cpuVars, regions>>

(* The memory half of proc_fork: the active space is cloned and its CR3    *)
(* reloaded, unless the clone failed.                                      *)
Fork_NoReload == /\ Running
                 /\ RoomForSpace
                 /\ \E d \in Free : vmm_clone_cow(cr3, d)
                 /\ UNCHANGED <<cpuVars, regions>>

Fork == /\ Running
        /\ RoomForSpace
        /\ \/ (\E d \in Free : vmm_clone_cow(cr3, d)) /\ vmm_switch(cr3)
           \/ vmm_clone_cow_fails(cr3) /\ UNCHANGED <<cr3, tlb>>
        /\ UNCHANGED <<regions, pend, halted>>

demand_clear == regions' = << >>

(* The end of the shell's vm command: the space is destroyed while another *)
(* one is active, and the promises made in it are withdrawn.               *)
Teardown(d) == /\ Running
               /\ d # cr3
               /\ vmm_destroy_dir(d)
               /\ demand_clear
               /\ UNCHANGED cpuVars

Switch(d) == /\ Running
             /\ vmm_switch(d)
             /\ UNCHANGED <<frameVars, regions, pend, halted>>

(* demand_region: a call that finds no free slot is dropped.               *)
demand_region(d, di) ==
  /\ Running
  /\ regions' = IF Len(regions) < MaxRegions
                THEN Append(regions, [dir |-> d, di |-> di]) ELSE regions
  /\ UNCHANGED <<frameVars, cpuVars>>

(* An instruction reads or writes a page: it goes through, or it faults    *)
(* and is re-run after the handler.                                        *)
Issue(op) == /\ Running
             /\ \/ Perform(op)
                \/ isr_handler(op)

Rerun == /\ ~halted
         /\ pend # None
         /\ \/ Perform(pend)
            \/ isr_handler(pend)

(* The hardware drops a TLB entry whenever it likes.                       *)
Evict(p) == /\ tlb[p] # None
            /\ vmm_flush(p)
            /\ UNCHANGED <<frameVars, cr3, regions, pend, halted>>

(* for (;;) hlt                                                            *)
Halt == halted /\ UNCHANGED vars

Next == \/ Create
        \/ \E d \in DOMAIN dirs, p \in Pages, w \in Perms : MapAlloc(d, p, w)
        \/ \E d \in DOMAIN dirs, p \in Pages : Unmap(d, p)
        \/ \E s \in Space : CloneDir(s)
        \/ Fork
        \/ \E d \in DOMAIN dirs : Teardown(d)
        \/ \E d \in Space : Switch(d)
        \/ \E d \in DOMAIN dirs, di \in DirIdx : demand_region(d, di)
        \/ \E op \in Accesses : Issue(op)
        \/ Rerun
        \/ \E p \in Pages : Evict(p)
        \/ Halt

Spec == Init /\ [][Next]_vars

-----------------------------------------------------------------------------
(* The types of the state.                                                 *)
TypeOK ==
  /\ ref \in [Frames -> 0..RefMax]
  /\ DOMAIN dirs \subseteq Frames
  /\ \A d \in DOMAIN dirs : dirs[d] \in [DirIdx -> Frames \cup {None}]
  /\ DOMAIN tabs \subseteq Frames
  /\ \A t \in DOMAIN tabs : tabs[t] \in [TabIdx -> Entries \cup {None}]
  /\ DOMAIN data \subseteq Frames
  /\ \A f \in DOMAIN data : data[f] \in Values
  /\ cr3 \in Frames \cup {KDir}
  /\ tlb \in [Pages -> Entries \cup {None}]
  /\ regions \in Seq([dir : Frames, di : DirIdx])
  /\ Len(regions) <= MaxRegions
  /\ pend \in Accesses \cup {None}
  /\ halted \in BOOLEAN
  /\ lost \subseteq Frames

(* Everything that refers to a frame: a space by its directory, a          *)
(* directory entry to its table, a table entry to its page.                *)
Holders(f) ==
  {<<d>> : d \in {f} \cap DOMAIN dirs}
    \cup {x \in (DOMAIN dirs) \X DirIdx : dirs[x[1]][x[2]] = f}
    \cup {x \in (DOMAIN dirs) \X Pages : x[2] \in Mappings(x[1], f)}

(* The reference count of a frame is the number of its holders, through    *)
(* every fork, split, unmap and teardown: no page is reclaimed under a     *)
(* space that still maps it (pmm.c:83-85) and none is kept that nobody     *)
(* maps.  The one exception is the data frame that vmm_map_alloc drops     *)
(* when it cannot get a table for it (vmm.c:91-98).                        *)
RefExact == \A f \in Frames :
  ref[f] = Cardinality(Holders(f)) + (IF f \in lost THEN 1 ELSE 0)

(* A page that can be written without a fault, through its entry or        *)
(* through what the TLB still caches, is held by the active space alone:   *)
(* the isolation copy-on-write exists for (vmm.c:236-238, proc.c:146-148). *)
WriteExclusive ==
  /\ \A d \in DOMAIN dirs : \A p \in Mapped(d) :
       Entry(d, p).rw => ref[Entry(d, p).frame] = 1
  /\ \A p \in Pages : tlb[p] # None /\ tlb[p].rw => ref[tlb[p].frame] = 1

(* The TLB never leads anywhere the page tables do not.                    *)
TlbCoherent == \A p \in Pages :
  tlb[p] # None => /\ Entry(cr3, p) # None
                   /\ tlb[p].frame = Entry(cr3, p).frame

(* The machine stops only for an access that was never allowed, or when    *)
(* physical memory is exhausted.                                           *)
Allowed(op) == LET e == Entry(cr3, op.page)
               IN IF e = None THEN Promised(cr3, op.page)
                  ELSE op.write => e.rw \/ e.cow

HaltJustified == halted => ~Allowed(pend) \/ Free = {}

(* "Either way the faulting instruction re-runs and succeeds" (vmm.c:290,  *)
(* demand.c:9): when a handler says that it resolved a fault, what the CPU *)
(* now uses for the page, from the tables or from the TLB, lets the access *)
(* through.  If it did not, isr_handler would return to the same fault for *)
(* ever.                                                                   *)
FaultResolved == pend # None /\ ~halted => Permits(Translation(pend.page), pend)

(* What each space holds, and what it is promised on first touch.          *)
Shown(e) == IF e = None THEN [mapped |-> FALSE]
            ELSE [mapped |-> TRUE, val |-> data[e.frame], writable |-> e.rw \/ e.cow]

Memories == [d \in DOMAIN dirs |-> [p \in Pages |-> Shown(Entry(d, p))]]
Promises == {x \in (DOMAIN dirs) \X Pages : Promised(x[1], x[2])}

(* The spaces implement memories that are private to each of them.         *)
Spaces == INSTANCE AddressSpaces WITH
  Names <- Frames, Kernel <- KDir, active <- cr3, retry <- pend,
  mem <- Memories, promised <- Promises
SpacesSpec == Spaces!Spec
=============================================================================
