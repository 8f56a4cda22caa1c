-------------------------------- MODULE Proc -------------------------------
(***************************************************************************)
(* The process table, kernel/proc.c, over the address spaces of Vmm.tla.   *)
(*                                                                         *)
(* The clients are the shell's fork, cow and exec commands (kernel/        *)
(* shell.c): the kernel builds a process by hand (proc_alloc,              *)
(* vmm_create_dir, vmm_map_alloc), makes it current, and then the calls    *)
(* are made in the name of whichever process is current.  The model lets   *)
(* them come in every order.  A program that exec runs has the kernel's    *)
(* directory; it cannot fork, exit or wait through proc.c, so nothing of   *)
(* this module happens until it is over.                                   *)
(*                                                                         *)
(* A pid is a natural number; next_pid stops at MaxPid.  The fields entry, *)
(* brk and name play no part here.                                         *)
(***************************************************************************)
EXTENDS Vmm, Integers

CONSTANTS MaxProcs,    \* MAX_PROCS
          MaxPid,      \* bound: pids that are given out
          Codes        \* exit codes

ASSUME ProcAssumption == /\ MaxProcs \in Nat \ {0}
                         /\ MaxProcs <= MaxSpaces
                         /\ MaxPid \in Nat
                         /\ Codes \subseteq Int

Slots == 0..(MaxProcs - 1)

VARIABLES table,       \* table[]: pid, ppid, state, dir and exit_code
          next_pid,
          current_idx

procVars == <<table, next_pid, current_idx>>
allVars == <<vars, procVars>>

Unused == [pid |-> 0, ppid |-> 0, state |-> "unused", dir |-> None, code |-> 0]
Kernel == [Unused EXCEPT !.state = "running", !.dir = KDir]

(* proc_install.                                                           *)
ProcInit == /\ Init
            /\ table = [i \in Slots |-> IF i = 0 THEN Kernel ELSE Unused]
            /\ next_pid = 1
            /\ current_idx = 0

Used(i) == table[i].state # "unused"
Me == table[current_idx]

-----------------------------------------------------------------------------
(* proc_alloc: the first free slot from 1 on and the record it gets.       *)
FreeSlot(i) == /\ i \in Slots \ {0}
               /\ ~Used(i)
               /\ \A j \in 1..(i - 1) : Used(j)

TableFull == \A i \in Slots \ {0} : Used(i)

NewProc(d) == [Unused EXCEPT !.pid = next_pid, !.ppid = Me.pid,
                             !.state = "ready", !.dir = d]

proc_alloc(i, d) == /\ FreeSlot(i)
                    /\ next_pid <= MaxPid
                    /\ table' = [table EXCEPT ![i] = NewProc(d)]
                    /\ next_pid' = next_pid + 1

(* proc_switch_to: the table with slot i running in place of the current   *)
(* one.                                                                    *)
Dispatch(tab, i) ==
  [j \in Slots |->
     IF j = i THEN [tab[j] EXCEPT !.state = "running"]
     ELSE IF j = current_idx /\ tab[j].state = "running"
          THEN [tab[j] EXCEPT !.state = "ready"]
     ELSE tab[j]]

Switchable(i) == /\ Used(i)
                 /\ table[i].state # "zombie"
                 /\ table[i].dir # None

-----------------------------------------------------------------------------
(* exec has a program running: a process other than 0 in the kernel's      *)
(* space.                                                                  *)
InProgram == current_idx # 0 /\ Me.dir = KDir
KernelRuns == Running /\ ~InProgram

(* The shell builds a process: a slot and an empty space (dir is 0 when    *)
(* there is no frame for it, which nobody checks), then a page in it.      *)
Spawn == /\ KernelRuns
         /\ \E i \in Slots :
              \/ \E d \in Free : vmm_create_dir(d) /\ proc_alloc(i, d)
              \/ Free = {} /\ proc_alloc(i, None) /\ UNCHANGED frameVars
         /\ UNCHANGED <<cpuVars, regions, current_idx>>

MapPage(i, p) == /\ KernelRuns
                 /\ table[i].state = "ready"
                 /\ table[i].dir \in DOMAIN dirs
                 /\ Entry(table[i].dir, p) = None
                 /\ \/ vmm_map_alloc(table[i].dir, p, TRUE)
                    \/ vmm_map_alloc_fails(table[i].dir, p)
                 /\ UNCHANGED <<cr3, regions, pend, halted, procVars>>

(* proc_fork: the child's slot, then its space; with the clone, CR3 is     *)
(* reloaded; without it, the slot is given back and the pid is spent.      *)
ForkChild(i) == \E d \in Free : /\ vmm_clone_cow(Me.dir, d)
                                /\ proc_alloc(i, d)
                                /\ vmm_switch(Me.dir)

ForkNoMemory(i) == /\ FreeSlot(i)
                   /\ next_pid <= MaxPid
                   /\ vmm_clone_cow_fails(Me.dir)
                   /\ table' = [table EXCEPT ![i] =
                                  [NewProc(None) EXCEPT !.state = "unused"]]
                   /\ next_pid' = next_pid + 1
                   /\ UNCHANGED <<cr3, tlb>>

ForkTableFull == /\ TableFull
                 /\ UNCHANGED <<frameVars, cr3, tlb, table, next_pid>>

proc_fork == /\ KernelRuns
             /\ \/ \E i \in Slots : ForkChild(i) \/ ForkNoMemory(i)
                \/ ForkTableFull
             /\ UNCHANGED <<regions, pend, halted, current_idx>>

(* proc_exit: the slot becomes a zombie, the kernel takes over the CPU,    *)
(* the space is destroyed and the children go to process 0.                *)
Reparented_Kept(q) == q

Reparented(q) == IF q.state # "unused" /\ q.ppid = Me.pid
                 THEN [q EXCEPT !.ppid = 0] ELSE q

AfterExit_DirKept(code) ==
  [i \in Slots |->
     IF i = 0 THEN [table[0] EXCEPT !.state = "running"]
     ELSE IF i = current_idx
          THEN Reparented([Me EXCEPT !.state = "zombie", !.code = code])
     ELSE Reparented(table[i])]

AfterExit_CodeLost(code) ==
  [i \in Slots |->
     IF i = 0 THEN [table[0] EXCEPT !.state = "running"]
     ELSE IF i = current_idx
          THEN Reparented([Me EXCEPT !.state = "zombie", !.dir = None])
     ELSE Reparented(table[i])]

AfterExit(code) ==
  [i \in Slots |->
     IF i = 0 THEN [table[0] EXCEPT !.state = "running"]
     ELSE IF i = current_idx
          THEN Reparented([Me EXCEPT !.state = "zombie", !.dir = None, !.code = code])
     ELSE Reparented(table[i])]

StepOff_Skipped == UNCHANGED <<cr3, tlb>>

StepOff == vmm_switch(KDir)

proc_exit_SpaceKept(code) == /\ KernelRuns
                             /\ Me.pid # 0
                             /\ StepOff
                             /\ current_idx' = 0
                             /\ table' = AfterExit(code)
                             /\ UNCHANGED <<frameVars, regions, pend, halted, next_pid>>

proc_exit(code) == /\ KernelRuns
                   /\ Me.pid # 0
                   /\ StepOff
                   /\ current_idx' = 0
                   /\ vmm_destroy_dir(Me.dir)
                   /\ table' = AfterExit(code)
                   /\ UNCHANGED <<regions, pend, halted, next_pid>>

(* proc_wait: the first zombie that is a child of the current process is   *)
(* reaped; a zombie has no space left for proc_free to destroy.            *)
ZombieChild(i) == table[i].state = "zombie" /\ table[i].ppid = Me.pid

proc_wait == /\ KernelRuns
             /\ \E i \in Slots \ {0} :
                  /\ ZombieChild(i)
                  /\ \A j \in 1..(i - 1) : ~ZombieChild(j)
                  /\ table' = [table EXCEPT ![i] = Unused]
             /\ UNCHANGED <<vars, next_pid, current_idx>>

(* proc_switch_to a process, found by its pid.                             *)
proc_switch_to(i) == /\ KernelRuns
                     /\ Switchable(i)
                     /\ current_idx' = i
                     /\ table' = Dispatch(table, i)
                     /\ vmm_switch(table[i].dir)
                     /\ UNCHANGED <<frameVars, regions, pend, halted, next_pid>>

(* exec: proc_begin_user gives the program a process, proc_end_user takes  *)
(* it away again.  When the table is full the program runs as process 0,   *)
(* and proc_end_user finds nothing to free.                                *)
proc_begin_user == /\ KernelRuns
                   /\ current_idx = 0
                   /\ next_pid <= MaxPid
                   /\ \E i \in Slots :
                        /\ FreeSlot(i)
                        /\ table' = Dispatch([table EXCEPT ![i] = NewProc(KDir)], i)
                        /\ current_idx' = i
                   /\ next_pid' = next_pid + 1
                   /\ vmm_switch(KDir)
                   /\ UNCHANGED <<frameVars, regions, pend, halted>>

proc_end_user == /\ Running
                 /\ InProgram
                 /\ table' = [Dispatch(table, 0) EXCEPT ![current_idx] = Unused]
                 /\ current_idx' = 0
                 /\ vmm_switch(KDir)
                 /\ UNCHANGED <<frameVars, regions, pend, halted, next_pid>>

(* The current process touches its memory.                                 *)
Touch == /\ ~InProgram
         /\ (\E op \in Accesses : Issue(op)) \/ Rerun
         /\ UNCHANGED procVars

ProcNext ==
  \/ Spawn
  \/ \E i \in Slots, p \in Pages : MapPage(i, p)
  \/ proc_fork
  \/ \E code \in Codes : proc_exit(code)
  \/ proc_wait
  \/ \E i \in Slots : proc_switch_to(i)
  \/ proc_begin_user
  \/ proc_end_user
  \/ Touch
  \/ \E p \in Pages : Evict(p) /\ UNCHANGED procVars
  \/ Halt /\ UNCHANGED procVars

ProcSpec == ProcInit /\ [][ProcNext]_allVars

-----------------------------------------------------------------------------
(* The types of the process table, besides TypeOK for the memory.          *)
ProcTypeOK ==
  /\ TypeOK
  /\ table \in [Slots -> [pid : 0..MaxPid, ppid : 0..MaxPid,
                          state : {"unused", "ready", "running", "zombie"},
                          dir : Frames \cup {KDir, None}, code : Codes \cup {0}]]
  /\ next_pid \in 1..(MaxPid + 1)
  /\ current_idx \in Slots

(* The CPU belongs to one process and runs in that process's address       *)
(* space: through switches, exits that step off a space before destroying  *)
(* it (proc.c:168-177) and programs that borrow the kernel's.              *)
CpuOwner == /\ \A i \in Slots : table[i].state = "running" <=> i = current_idx
            /\ cr3 = Me.dir
            /\ cr3 \in Space

(* Every process has a parent that is alive, so that there is somebody who *)
(* can reap it: "a dead parent cannot strand its children in the table     *)
(* forever" (proc.c:187-188).                                              *)
ParentLive == \A i \in Slots : Used(i) =>
  \E j \in Slots : /\ table[j].state \in {"ready", "running"}
                   /\ table[j].pid = table[i].ppid

(* Every address space belongs to one process; a zombie has none: "Its     *)
(* memory is no longer needed" (proc.c:179).                               *)
SpacesOwned ==
  /\ \A i \in Slots : Used(i) /\ table[i].dir \in Frames =>
       table[i].dir \in DOMAIN dirs /\ table[i].state # "zombie"
  /\ \A d \in DOMAIN dirs : \E i \in Slots :
       /\ Used(i)
       /\ table[i].dir = d
       /\ \A j \in Slots : Used(j) /\ table[j].dir = d => i = j

(* What the fork and cow commands print at their end: when every process   *)
(* has been reaped, every frame is free again (shell.c:286-287, 346-348).  *)
AllReturned == (\A i \in Slots \ {0} : ~Used(i)) /\ lost = {} => Free = Frames

(* The processes by pid, each with what its pages hold.                    *)
SlotOf(q) == CHOOSE i \in Slots : Used(i) /\ table[i].pid = q

PageOf(d, p) == IF Entry(d, p) = None THEN [mapped |-> FALSE]
                 ELSE [mapped |-> TRUE, val |-> data[Entry(d, p).frame]]

ProcessOf(e) == [parent |-> e.ppid, dead |-> e.state = "zombie", code |-> e.code,
                 program |-> e.pid # 0 /\ e.dir = KDir,
                 mem |-> [p \in Pages |-> PageOf(e.dir, p)]]

Processes == [q \in {table[i].pid : i \in {j \in Slots : Used(j)}} |->
                ProcessOf(table[SlotOf(q)])]

(* The table over shared pages implements a tree of processes with private *)
(* memories.                                                               *)
Unix == INSTANCE UnixProc WITH
  running <- Me.pid, last <- next_pid - 1, retry <- pend, procs <- Processes
UnixSpec == Unix!Spec
=============================================================================
