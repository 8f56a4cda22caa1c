-------------------------------- MODULE Ata --------------------------------
(***************************************************************************)
(* The PIO disk driver, kernel/ata.c, and the drive on the other side of   *)
(* its ports.  Every call in the kernel transfers one sector.              *)
(*                                                                         *)
(* The driver polls the status register; one step of it is one poll, with  *)
(* what it does about the answer.  The drive owes it nothing: it is busy   *)
(* for as long as it likes, for ever too, it can refuse or fail a command, *)
(* and it can finish one that the driver has given up.  It answers the     *)
(* command register at once by going busy, and a command that it gets      *)
(* while an older transfer waits for the host ends that transfer.  Written *)
(* sectors go to its cache, from which they reach the medium in any order; *)
(* a power loss empties the cache.                                         *)
(***************************************************************************)
EXTENDS Naturals, Functions

CONSTANTS Lbas, Values,
          Blank,       \* what the sectors hold at first
          Timeout,     \* ATA_TIMEOUT
          None

Calls == [op : {"read"}, lba : Lbas] \cup [op : {"write"}, lba : Lbas, val : Values]

ASSUME AtaAssumption == /\ Timeout \in Nat \ {0}
                        /\ Blank \in Values
                        /\ None \notin Calls

VARIABLES medium, cache,          \* the sectors, and those only in the cache
          bsy, drq, err,          \* the status register
          job,                    \* the drive's command: op, lba and data
          pc,                     \* where the driver is
          i,                      \* its poll counter
          call, result            \* the call, what the last one returned

driveVars == <<bsy, drq, err, job>>
driverVars == <<pc, i, call, result>>
vars == <<medium, cache, driveVars, driverVars>>

NoJob == [op |-> "none"]

Init == /\ medium = [l \in Lbas |-> Blank]
        /\ cache = <<>>
        /\ bsy = FALSE /\ drq = FALSE /\ err = FALSE
        /\ job = NoJob
        /\ pc = "idle"
        /\ i = 0
        /\ call = None
        /\ result = [rc |-> 0]

-----------------------------------------------------------------------------
(* The drive.                                                              *)
Sector(l) == IF l \in DOMAIN cache THEN cache[l] ELSE medium[l]

(* The cache with one sector more, or with a newer value of it.            *)
Cached(l, v) == [k \in DOMAIN cache \cup {l} |-> IF k = l THEN v ELSE cache[k]]

Completes(ready) == /\ bsy' = FALSE /\ drq' = ready /\ err' = FALSE

(* A command is done, or ready for the host to transfer its sector.        *)
Serve == /\ bsy
         /\ \/ /\ job.op = "read"
               /\ Completes(TRUE)
               /\ job' = [op |-> "read", lba |-> job.lba, val |-> Sector(job.lba)]
               /\ UNCHANGED <<medium, cache>>
            \/ /\ job.op = "write"
               /\ Completes(TRUE)
               /\ UNCHANGED <<medium, cache, job>>
            \/ /\ job.op = "store"
               /\ Completes(FALSE)
               /\ cache' = Cached(job.lba, job.val)
               /\ job' = NoJob
               /\ UNCHANGED medium
            \/ /\ job.op = "flush"
               /\ Completes(FALSE)
               /\ medium' = [l \in Lbas |-> Sector(l)]
               /\ cache' = <<>>
               /\ job' = NoJob
         /\ UNCHANGED driverVars

(* It refuses or fails one (ERR or DF); a sector may have got through.     *)
Refuse == /\ bsy
          /\ bsy' = FALSE /\ drq' = FALSE /\ err' = TRUE
          /\ job' = NoJob
          /\ \/ UNCHANGED cache
             \/ job.op = "store" /\ cache' = Cached(job.lba, job.val)
          /\ UNCHANGED <<medium, driverVars>>

(* A cached sector reaches the medium.                                     *)
Commit(l) == /\ l \in DOMAIN cache
             /\ medium' = [medium EXCEPT ![l] = cache[l]]
             /\ cache' = Restrict(cache, DOMAIN cache \ {l})
             /\ UNCHANGED <<driveVars, driverVars>>

(* The drive gets a command, or the last word of a sector.                 *)
Accept(j) == /\ bsy' = TRUE /\ drq' = FALSE /\ err' = FALSE
             /\ job' = j

-----------------------------------------------------------------------------
(* The driver.                                                             *)
Return(r) == /\ pc' = "idle" /\ i' = 0
             /\ call' = None
             /\ result' = r

Goto(l) == /\ pc' = l /\ i' = 0
           /\ UNCHANGED <<call, result>>

PollAgain_Forever == /\ i' = i
                     /\ UNCHANGED <<pc, call, result>>

(* Another poll, unless they are used up.                                  *)
PollAgain == IF i + 1 < Timeout THEN i' = i + 1 /\ UNCHANGED <<pc, call, result>>
             ELSE Return([rc |-> 1])

ata_read(l) == /\ pc = "idle"
               /\ call' = [op |-> "read", lba |-> l]
               /\ pc' = "select" /\ i' = 0
               /\ UNCHANGED <<medium, cache, driveVars, result>>

ata_write(l, v) == /\ pc = "idle"
                   /\ call' = [op |-> "write", lba |-> l, val |-> v]
                   /\ pc' = "select" /\ i' = 0
                   /\ UNCHANGED <<medium, cache, driveVars, result>>

(* ata_select polls once more than the others, then the command goes out.  *)
ata_select == /\ pc = "select"
              /\ \/ /\ bsy
                    /\ IF i < Timeout THEN i' = i + 1 /\ UNCHANGED <<pc, call, result>>
                       ELSE Return([rc |-> 1])
                    /\ UNCHANGED driveVars
                 \/ /\ ~bsy
                    /\ Accept([op |-> call.op, lba |-> call.lba])
                    /\ Goto("wait")
              /\ UNCHANGED <<medium, cache>>

(* The drive is ready: the sector is transferred.                          *)
Transfer == IF call.op = "read"
            THEN /\ Return([rc |-> 0, data |-> job.val])
                 /\ drq' = FALSE /\ job' = NoJob
                 /\ UNCHANGED <<bsy, err>>
            ELSE /\ Accept([op |-> "store", lba |-> call.lba, val |-> call.val])
                 /\ Goto("stored")

ata_wait == /\ pc = "wait"
            /\ \/ ~bsy /\ err /\ Return([rc |-> 1]) /\ UNCHANGED driveVars
               \/ ~bsy /\ ~err /\ drq /\ Transfer
               \/ (bsy \/ (~err /\ ~drq)) /\ PollAgain /\ UNCHANGED driveVars
            /\ UNCHANGED <<medium, cache>>

(* ata_idle, after the sector: when the drive has it, FLUSH CACHE goes out.*)
Stored_NoFlush == /\ pc = "stored"
                  /\ \/ ~bsy /\ err /\ Return([rc |-> 1])
                     \/ ~bsy /\ ~err /\ Return([rc |-> 0])
                     \/ bsy /\ PollAgain
                  /\ UNCHANGED <<medium, cache, driveVars>>

Stored == /\ pc = "stored"
          /\ \/ ~bsy /\ err /\ Return([rc |-> 1]) /\ UNCHANGED driveVars
             \/ ~bsy /\ ~err /\ Accept([op |-> "flush"]) /\ Goto("flushed")
             \/ bsy /\ PollAgain /\ UNCHANGED driveVars
          /\ UNCHANGED <<medium, cache>>

(* ata_idle, after FLUSH CACHE.                                            *)
Flushed == /\ pc = "flushed"
           /\ \/ ~bsy /\ Return([rc |-> IF err THEN 1 ELSE 0])
              \/ bsy /\ PollAgain
           /\ UNCHANGED <<medium, cache, driveVars>>

Driver == ata_select \/ ata_wait \/ Stored \/ Flushed

(* Power is lost: the driver's call and all but the medium are gone.       *)
PowerLoss == /\ cache' = <<>>
             /\ bsy' = FALSE /\ drq' = FALSE /\ err' = FALSE
             /\ job' = NoJob
             /\ pc' = "idle" /\ i' = 0 /\ call' = None
             /\ UNCHANGED <<medium, result>>

Next == \/ \E l \in Lbas : ata_read(l) \/ \E v \in Values : ata_write(l, v)
        \/ Driver
        \/ Serve \/ Refuse \/ PowerLoss
        \/ \E l \in Lbas : Commit(l)

(* The CPU goes on polling; of the drive nothing is assumed.               *)
Spec == Init /\ [][Next]_vars /\ WF_vars(Driver)

-----------------------------------------------------------------------------
(* What a sector may still turn out to hold: what is on the medium, what   *)
(* is in the cache, and what a command or a call is about to put there.    *)
May(l) == {medium[l]}
            \cup {cache[k] : k \in DOMAIN cache \cap {l}}
            \cup {j.val : j \in {k \in {job} : k.op = "store" /\ k.lba = l}}
            \cup {c.val : c \in {k \in {call} \ {None} : k.op = "write" /\ k.lba = l}}

(* The driver makes a disk of the drive, whatever the drive does: a read   *)
(* that returns 0 has the sector that was asked for and not what a command *)
(* given up earlier left in the data port; a write that returns 0 survives *)
(* a power loss; a call that fails changes no other sector and undoes no   *)
(* earlier or later one.                                                   *)
Abstract == INSTANCE Disk WITH can <- [l \in Lbas |-> May(l)]
DiskSpec == Abstract!Spec

(* Every call returns, even when the drive never answers again: "status    *)
(* polls before giving up" (ata.c:26).                                     *)
Returns == (call # None) ~> (call = None)
=============================================================================
