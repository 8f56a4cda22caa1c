--------------------------- MODULE AddressSpaces ---------------------------
(***************************************************************************)
(* What the virtual memory manager promises a process, with page tables,   *)
(* shared frames, the TLB and page faults left out: every address space    *)
(* has a memory of its own.  A clone starts with the contents of the space *)
(* it was cloned from; from then on a store is seen in the space it was    *)
(* made in and in no other.                                                *)
(***************************************************************************)
EXTENDS Functions

CONSTANTS Names,      \* the names address spaces can have
          Kernel,     \* the kernel's own space, which has no private pages
          Pages,      \* the virtual pages above the shared kernel range
          Accesses,   \* loads and stores: [write, page, val]
          None,       \* no access
          Zero        \* what a fresh page holds

Absent == [mapped |-> FALSE]
Page(x, w) == [mapped |-> TRUE, val |-> x, writable |-> w]

(* f with x, new or not, given the value v.                                *)
Put(f, x, v) == [y \in DOMAIN f \cup {x} |-> IF y = x THEN v ELSE f[y]]

VARIABLES mem,        \* the memory of each space that exists
          promised,   \* <<space, page>> backed on first touch
          active,     \* the space that the CPU runs in
          retry       \* the access that is about to be run again, or None

vars == <<mem, promised, active, retry>>

Memory(s) == IF s = Kernel THEN [p \in Pages |-> Absent] ELSE mem[s]

Init == /\ mem = << >>
        /\ promised = {}
        /\ active = Kernel
        /\ retry = None

Create(s) == /\ s \notin DOMAIN mem
             /\ mem' = Put(mem, s, [p \in Pages |-> Absent])
             /\ UNCHANGED <<promised, active, retry>>

Clone(s, t) == /\ t \notin DOMAIN mem
               /\ mem' = Put(mem, t, Memory(s))
               /\ UNCHANGED <<promised, active, retry>>

Destroy(s) == /\ s # active
              /\ mem' = Restrict(mem, DOMAIN mem \ {s})
              /\ promised' = {}
              /\ UNCHANGED <<active, retry>>

Map(s, p, w) == /\ ~mem[s][p].mapped
                /\ mem' = [mem EXCEPT ![s][p] = Page(Zero, w)]
                /\ UNCHANGED <<promised, active>>

Unmap(s, p) == /\ mem[s][p].mapped
               /\ mem' = [mem EXCEPT ![s][p] = Absent]
               /\ UNCHANGED <<promised, active, retry>>

Promise(s, ps) == /\ promised' = promised \cup ({s} \X ps)
                  /\ UNCHANGED <<mem, active, retry>>

Activate(s) == /\ active' = s
               /\ UNCHANGED <<mem, promised, retry>>

(* An access is held up.  The first touch of a promised page maps it;      *)
(* nothing else that is visible happens.                                   *)
Fault(op) == /\ retry' = op
             /\ \/ /\ <<active, op.page>> \in promised
                   /\ Map(active, op.page, TRUE)
                \/ UNCHANGED <<mem, promised, active>>

(* An access goes through.                                                 *)
Load(op) == /\ Memory(active)[op.page].mapped
            /\ retry' = None
            /\ UNCHANGED <<mem, promised, active>>

Store(op) == /\ Memory(active)[op.page].mapped
             /\ Memory(active)[op.page].writable
             /\ mem' = [mem EXCEPT ![active][op.page].val = op.val]
             /\ retry' = None
             /\ UNCHANGED <<promised, active>>

Access(op) == \/ Fault(op)
              \/ ~op.write /\ Load(op)
              \/ op.write /\ Store(op)

Call == \/ \E s \in Names : Create(s)
        \/ \E s \in DOMAIN mem \cup {Kernel}, t \in Names : Clone(s, t)
        \/ \E s \in DOMAIN mem : Destroy(s)
        \/ \E s \in DOMAIN mem, p \in Pages, w \in BOOLEAN :
             Map(s, p, w) /\ UNCHANGED retry
        \/ \E s \in DOMAIN mem, p \in Pages : Unmap(s, p)
        \/ \E s \in DOMAIN mem, ps \in SUBSET Pages : Promise(s, ps)
        \/ \E s \in DOMAIN mem \cup {Kernel} : Activate(s)

Next == \/ retry = None /\ Call
        \/ retry = None /\ \E op \in Accesses : Access(op)
        \/ retry # None /\ Access(retry)

Spec == Init /\ [][Next]_vars
=============================================================================
