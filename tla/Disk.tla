-------------------------------- MODULE Disk -------------------------------
(***************************************************************************)
(* What the file system may expect of a disk, one sector to a call.        *)
(*                                                                         *)
(* can[l] is the set of the values that sector l may be found to hold, now *)
(* or after a power loss.  A write that succeeds leaves one.  One that     *)
(* fails, or is cut off, leaves the sector undecided: the value that was   *)
(* there or the new one, until the disk settles on fewer of them or        *)
(* another write decides it.                                               *)
(***************************************************************************)
EXTENDS Naturals

CONSTANTS Lbas, Values, Blank, None

VARIABLES can,         \* what each sector may hold
          call,        \* the call in progress, or None
          result       \* what the last call returned

vars == <<can, call, result>>

ReadCall(l) == [op |-> "read", lba |-> l]
WriteCall(l, v) == [op |-> "write", lba |-> l, val |-> v]
Failure == [rc |-> 1]
Success == [rc |-> 0]
Answer(v) == [rc |-> 0, data |-> v]

Init == /\ can = [l \in Lbas |-> {Blank}]
        /\ call = None
        /\ result = Success

(* The disk gives up some of the values a sector may hold.                 *)
Narrows == /\ DOMAIN can' = Lbas
           /\ \A l \in Lbas : can'[l] # {} /\ can'[l] \subseteq can[l]

Read(l) == /\ call = None
           /\ call' = ReadCall(l)
           /\ UNCHANGED <<can, result>>

Write(l, v) == /\ call = None
               /\ call' = WriteCall(l, v)
               /\ can' = [can EXCEPT ![l] = @ \cup {v}]
               /\ UNCHANGED result

(* ata.h: "Return 0 on success, -1 on error."                              *)
ReadOk == /\ call # None /\ call.op = "read"
          /\ \E v \in can[call.lba] : result' = Answer(v)
          /\ call' = None
          /\ UNCHANGED can

WriteOk == /\ call # None /\ call.op = "write"
           /\ can' = [can EXCEPT ![call.lba] = {call.val}]
           /\ result' = Success
           /\ call' = None

Fail == /\ call # None
        /\ Narrows
        /\ result' = Failure
        /\ call' = None

Settle == /\ Narrows
          /\ UNCHANGED <<call, result>>

(* Power is lost: nobody waits for the call any more.                      *)
PowerLoss == /\ Narrows
             /\ call' = None
             /\ UNCHANGED result

Next == \/ \E l \in Lbas : Read(l) \/ \E v \in Values : Write(l, v)
        \/ ReadOk \/ WriteOk \/ Fail
        \/ Settle \/ PowerLoss

Spec == Init /\ [][Next]_vars
=============================================================================
