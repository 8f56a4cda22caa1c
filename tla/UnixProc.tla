------------------------------ MODULE UnixProc -----------------------------
(***************************************************************************)
(* What the process calls promise, with slots, page tables and frames left *)
(* out: a tree of processes, each with a memory of its own.  fork makes a  *)
(* copy of the running process, exit ends it and leaves its exit code      *)
(* behind, wait hands the code to the parent, once.  Pids are not reused.  *)
(***************************************************************************)
EXTENDS Naturals, Functions

CONSTANTS Pages,      \* the virtual pages of a process
          Zero,       \* what a fresh page holds
          Codes,      \* exit codes
          Accesses,   \* loads and stores: [write, page, val]
          None        \* no access

VARIABLES procs,      \* the processes by pid: parent, dead, code, program, mem
          running,    \* the pid of the process on the CPU
          last,       \* the last pid that was given out
          retry       \* the access that is about to be run again, or None

vars == <<procs, running, last, retry>>

Put(f, x, v) == [y \in DOMAIN f \cup {x} |-> IF y = x THEN v ELSE f[y]]
Remove(f, x) == Restrict(f, DOMAIN f \ {x})

Absent == [mapped |-> FALSE]
NoPages == [p \in Pages |-> Absent]
Process(q, mem) == [parent |-> q, dead |-> FALSE, code |-> 0,
                    program |-> FALSE, mem |-> mem]

Init == /\ procs = [q \in {0} |-> Process(0, NoPages)]
        /\ running = 0
        /\ last = 0
        /\ retry = None

(* A new process: empty, or a copy of the running one, or a program that   *)
(* runs at once.  A fork that fails costs a pid and nothing else.          *)
Start(new, who) == /\ procs' = Put(procs, last + 1, new)
                   /\ running' = who
                   /\ last' = last + 1

Spawn == Start(Process(running, NoPages), running)
Fork == Start(Process(running, procs[running].mem), running)
RunProgram == Start([Process(running, NoPages) EXCEPT !.program = TRUE], last + 1)
ForkFails == last' = last + 1 /\ UNCHANGED <<procs, running>>

EndProgram == /\ procs[running].program
              /\ procs' = Remove(procs, running)
              /\ running' = 0
              /\ UNCHANGED last

Map(q, p) == /\ ~procs[q].mem[p].mapped
             /\ procs' = [procs EXCEPT ![q].mem[p] = [mapped |-> TRUE, val |-> Zero]]
             /\ UNCHANGED <<running, last>>

Exit(c) ==
  /\ running # 0
  /\ procs' = [q \in DOMAIN procs |->
       IF q = running
       THEN [procs[q] EXCEPT !.dead = TRUE, !.code = c, !.mem = NoPages]
       ELSE [procs[q] EXCEPT !.parent = IF @ = running THEN 0 ELSE @]]
  /\ running' = 0
  /\ UNCHANGED last

Wait == /\ \E q \in DOMAIN procs : /\ procs[q].dead
                                   /\ procs[q].parent = running
                                   /\ procs' = Remove(procs, q)
        /\ UNCHANGED <<running, last>>

Switch(q) == /\ ~procs[q].dead
             /\ running' = q
             /\ UNCHANGED <<procs, last>>

Call == \/ Spawn \/ Fork \/ ForkFails \/ RunProgram \/ EndProgram \/ Wait
        \/ \E q \in DOMAIN procs, p \in Pages : Map(q, p)
        \/ \E c \in Codes : Exit(c)
        \/ \E q \in DOMAIN procs : Switch(q)

(* A load or a store of the running process: held up, or done.             *)
Access(op) ==
  \/ retry' = op /\ UNCHANGED <<procs, running, last>>
  \/ /\ procs[running].mem[op.page].mapped
     /\ procs' = IF op.write
                 THEN [procs EXCEPT ![running].mem[op.page].val = op.val]
                 ELSE procs
     /\ retry' = None
     /\ UNCHANGED <<running, last>>

Next == \/ retry = None /\ Call /\ UNCHANGED retry
        \/ \E op \in Accesses : retry \in {None, op} /\ Access(op)

Spec == Init /\ [][Next]_vars
=============================================================================
