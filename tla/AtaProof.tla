------------------------------ MODULE AtaProof -----------------------------
(***************************************************************************)
(* Proofs about Ata.tla, for every set of sectors and values and every     *)
(* number of polls: whatever the drive does, the driver makes the disk of  *)
(* Disk.tla out of it.                                                     *)
(*                                                                         *)
(* What has to be known is which command the status register is about when *)
(* the driver looks at it: the drive may still be at work on an older one. *)
(* That is Matches; DataInv says what the data port and the cache hold     *)
(* then.                                                                   *)
(***************************************************************************)
EXTENDS Ata, TLAPS

(* The types of the state.                                                 *)
TypeOK == /\ medium \in [Lbas -> Values]
          /\ DOMAIN cache \subseteq Lbas
          /\ \A l \in DOMAIN cache : cache[l] \in Values
          /\ bsy \in BOOLEAN /\ drq \in BOOLEAN /\ err \in BOOLEAN
          /\ job.op \in {"none", "read", "write", "store", "flush"}
          /\ job.op \in {"read", "write", "store"} => job.lba \in Lbas
          /\ job.op = "store" => job.val \in Values
          /\ pc \in {"idle", "select", "wait", "stored", "flushed"}
          /\ call \in Calls \cup {None}

(* A sector or a flush is in the drive only while it is busy, and a read   *)
(* that is ready for the host holds what its sector holds.                 *)
DataInv == /\ job.op \in {"store", "flush"} => bsy
           /\ drq /\ job.op = "read" => job.val = Sector(job.lba)

(* The driver's call and the drive's command belong together, from the     *)
(* command register on.                                                    *)
Matches ==
  /\ pc = "idle" <=> call = None
  /\ pc = "wait" =>
       \/ ~bsy /\ err
       \/ (bsy \/ drq) /\ ~err /\ job.op = call.op /\ job.lba = call.lba
  /\ pc = "stored" => /\ call.op = "write"
                      /\ \/ ~bsy /\ err
                         \/ /\ bsy /\ job.op = "store"
                            /\ job.lba = call.lba /\ job.val = call.val
                         \/ ~bsy /\ job.op = "none" /\ Sector(call.lba) = call.val
  /\ pc = "flushed" => /\ call.op = "write"
                       /\ \/ ~bsy /\ err
                          \/ bsy /\ job.op = "flush" /\ Sector(call.lba) = call.val
                          \/ /\ ~bsy /\ job.op = "none"
                             /\ medium[call.lba] = call.val
                             /\ call.lba \notin DOMAIN cache

(* The inductive invariant.                                                *)
IndInv == TypeOK /\ DataInv /\ Matches

-----------------------------------------------------------------------------
(* The fields of a call, and that None is not one.                         *)
LEMMA CallFields ==
  /\ \A c \in Calls : /\ c # None
                      /\ c.op \in {"read", "write"}
                      /\ c.lba \in Lbas
                      /\ c.op = "write" => c.val \in Values
  /\ \A l \in Lbas : [op |-> "read", lba |-> l] \in Calls
  /\ \A l \in Lbas, v \in Values : [op |-> "write", lba |-> l, val |-> v] \in Calls
BY AtaAssumption DEF Calls

LEMMA NothingCached == DOMAIN <<>> = {}
OBVIOUS

LEMMA SectorType == TypeOK => \A l \in Lbas : Sector(l) \in Values
BY DEF TypeOK, Sector

-----------------------------------------------------------------------------
LEMMA InitIndInv == Init => IndInv
<1> SUFFICES ASSUME Init PROVE IndInv
  OBVIOUS
<1>1. TypeOK
  BY AtaAssumption, NothingCached DEF Init, TypeOK, NoJob
<1>2. DataInv /\ Matches
  BY DEF Init, DataInv, Matches, NoJob
<1> QED BY <1>1, <1>2 DEF IndInv

(* The drive.                                                              *)
LEMMA ServePreserves == IndInv /\ Serve => IndInv'
<1> SUFFICES ASSUME IndInv, Serve PROVE IndInv'
  OBVIOUS
<1> USE DEF IndInv, NoJob
<1>0. bsy /\ pc' = pc /\ call' = call
  BY DEF Serve, driverVars
<1>1. CASE job.op = "read"
  <2>1. /\ bsy' = FALSE /\ drq' = TRUE /\ err' = FALSE
        /\ job' = [op |-> "read", lba |-> job.lba, val |-> Sector(job.lba)]
        /\ medium' = medium /\ cache' = cache
    BY <1>1 DEF Serve, Completes
  <2>2. TypeOK'
    BY <1>0, <1>1, <2>1 DEF TypeOK
  <2>3. DataInv'
    BY <1>0, <1>1, <2>1 DEF DataInv, Sector
  <2>4. Matches'
    BY <1>0, <1>1, <2>1, CallFields DEF TypeOK, Matches, Sector
  <2> QED BY <2>2, <2>3, <2>4
<1>2. CASE job.op = "write"
  <2>1. /\ bsy' = FALSE /\ drq' = TRUE /\ err' = FALSE
        /\ medium' = medium /\ cache' = cache /\ job' = job
    BY <1>2 DEF Serve, Completes
  <2>2. TypeOK'
    BY <1>0, <1>2, <2>1 DEF TypeOK
  <2>3. DataInv'
    BY <1>0, <1>2, <2>1 DEF DataInv, Sector
  <2>4. Matches'
    BY <1>0, <1>2, <2>1, CallFields DEF TypeOK, Matches, Sector
  <2> QED BY <2>2, <2>3, <2>4
<1>3. CASE job.op = "store"
  <2>1. /\ bsy' = FALSE /\ drq' = FALSE /\ err' = FALSE
        /\ job' = NoJob /\ medium' = medium
        /\ cache' = Cached(job.lba, job.val)
    BY <1>3 DEF Serve, Completes
  <2>2. TypeOK'
    BY <1>0, <1>3, <2>1 DEF TypeOK, Cached
  <2>3. DataInv'
    BY <1>0, <1>3, <2>1 DEF DataInv
  <2>4. Matches'
    BY <1>0, <1>3, <2>1, CallFields DEF TypeOK, Matches, Sector, Cached
  <2> QED BY <2>2, <2>3, <2>4
<1>4. CASE job.op = "flush"
  <2>1. /\ bsy' = FALSE /\ drq' = FALSE /\ err' = FALSE
        /\ job' = NoJob
        /\ medium' = [l \in Lbas |-> Sector(l)]
        /\ cache' = <<>>
    BY <1>4 DEF Serve, Completes
  <2>2. TypeOK'
    BY <1>0, <1>4, <2>1, SectorType, NothingCached DEF TypeOK
  <2>3. DataInv'
    BY <1>0, <1>4, <2>1 DEF DataInv
  <2>4. Matches'
    BY <1>0, <1>4, <2>1, CallFields, NothingCached DEF TypeOK, Matches
  <2> QED BY <2>2, <2>3, <2>4
<1> QED BY <1>1, <1>2, <1>3, <1>4 DEF Serve

LEMMA RefusePreserves == IndInv /\ Refuse => IndInv'
<1> SUFFICES ASSUME IndInv, Refuse PROVE IndInv'
  OBVIOUS
<1> USE DEF IndInv, NoJob
<1>1. /\ bsy /\ bsy' = FALSE /\ drq' = FALSE /\ err' = TRUE
      /\ job' = NoJob /\ medium' = medium /\ pc' = pc /\ call' = call
      /\ \/ cache' = cache
         \/ job.op = "store" /\ cache' = Cached(job.lba, job.val)
  BY DEF Refuse, driverVars
<1>2. TypeOK'
  BY <1>1 DEF TypeOK, Cached
<1>3. DataInv'
  BY <1>1 DEF DataInv
<1>4. Matches'
  BY <1>1 DEF Matches
<1> QED BY <1>2, <1>3, <1>4

(* A sector that goes from the cache to the medium holds what it held.     *)
LEMMA CommitKeeps ==
  ASSUME TypeOK, NEW l \in Lbas, Commit(l)
  PROVE  /\ medium' \in [Lbas -> Values]
         /\ DOMAIN cache' = DOMAIN cache \ {l}
         /\ \A k \in DOMAIN cache' : cache'[k] = cache[k]
         /\ medium'[l] = cache[l]
         /\ \A k \in Lbas \ {l} : medium'[k] = medium[k]
         /\ \A k \in Lbas : Sector(k)' = Sector(k)
BY DEF TypeOK, Commit, Restrict, Sector

LEMMA CommitPreserves == ASSUME IndInv, NEW l \in Lbas, Commit(l) PROVE IndInv'
<1> USE DEF IndInv
<1>1. /\ l \in DOMAIN cache
      /\ bsy' = bsy /\ drq' = drq /\ err' = err /\ job' = job
      /\ pc' = pc /\ call' = call
  BY DEF Commit, driveVars, driverVars
<1>2. TypeOK'
  BY <1>1, CommitKeeps DEF TypeOK
<1>3. DataInv'
  BY <1>1, CommitKeeps DEF DataInv, TypeOK
<1>4. Matches'
  BY <1>1, CommitKeeps, CallFields DEF Matches, TypeOK
<1> QED BY <1>2, <1>3, <1>4

(* The driver.                                                             *)
LEMMA CallPreserves ==
  ASSUME IndInv, NEW l \in Lbas,
         ata_read(l) \/ \E v \in Values : ata_write(l, v)
  PROVE  IndInv'
<1> USE DEF IndInv
<1>1. /\ call' \in Calls /\ pc' = "select"
      /\ bsy' = bsy /\ drq' = drq /\ err' = err /\ job' = job
      /\ medium' = medium /\ cache' = cache
  BY CallFields DEF ata_read, ata_write, driveVars
<1>2. TypeOK'
  BY <1>1 DEF TypeOK
<1>3. DataInv'
  BY <1>1 DEF DataInv, Sector
<1>4. Matches'
  BY <1>1, CallFields DEF Matches
<1> QED BY <1>2, <1>3, <1>4

(* The driver gives up a call, or answers it, and leaves the drive alone.  *)
LEMMA LeavePreserves ==
  ASSUME IndInv, UNCHANGED <<medium, cache, driveVars>>,
         \/ UNCHANGED <<pc, call>>
         \/ pc' = "idle" /\ call' = None
  PROVE  IndInv'
<1> USE DEF IndInv
<1>1. /\ bsy' = bsy /\ drq' = drq /\ err' = err /\ job' = job
      /\ medium' = medium /\ cache' = cache
  BY DEF driveVars
<1>2. TypeOK'
  BY <1>1 DEF TypeOK
<1>3. DataInv'
  BY <1>1 DEF DataInv, Sector
<1>4. Matches'
  BY <1>1 DEF Matches, Sector
<1> QED BY <1>2, <1>3, <1>4

LEMMA SelectPreserves == IndInv /\ ata_select => IndInv'
<1> SUFFICES ASSUME IndInv, ata_select PROVE IndInv'
  OBVIOUS
<1>1. CASE bsy
  BY <1>1, LeavePreserves DEF ata_select, Return
<1>2. CASE ~bsy
  <2>1. /\ bsy' = TRUE /\ drq' = FALSE /\ err' = FALSE
        /\ job' = [op |-> call.op, lba |-> call.lba]
        /\ pc = "select" /\ pc' = "wait" /\ call' = call
        /\ medium' = medium /\ cache' = cache
    BY <1>2 DEF ata_select, Accept, Goto
  <2>2. call \in Calls
    BY <2>1 DEF IndInv, TypeOK, Matches
  <2>3. job'.op = call.op /\ job'.lba = call.lba
    BY <2>1
  <2>4. TypeOK'
    BY <2>1, <2>2, <2>3, CallFields DEF IndInv, TypeOK
  <2>5. DataInv' /\ Matches'
    BY <2>1, <2>2, <2>3, CallFields DEF IndInv, DataInv, Matches
  <2> QED BY <2>4, <2>5 DEF IndInv
<1> QED BY <1>1, <1>2

(* The sector has been transferred.                                        *)
LEMMA TransferPreserves ==
  ASSUME IndInv, pc = "wait", ~bsy, ~err, drq, Transfer, UNCHANGED <<medium, cache>>
  PROVE  IndInv'
<1>1. call \in Calls /\ job.op = call.op /\ job.lba = call.lba
  BY DEF IndInv, TypeOK, Matches
<1>2. CASE call.op = "read"
  <2>1. /\ pc' = "idle" /\ call' = None
        /\ bsy' = bsy /\ drq' = FALSE /\ err' = err /\ job' = NoJob
        /\ medium' = medium /\ cache' = cache
    BY <1>2 DEF Transfer, Return
  <2>2. TypeOK'
    BY <2>1 DEF IndInv, TypeOK, NoJob
  <2>3. DataInv' /\ Matches'
    BY <2>1 DEF IndInv, DataInv, Matches, NoJob
  <2> QED BY <2>2, <2>3 DEF IndInv
<1>3. CASE call.op = "write"
  <2>1. /\ bsy' = TRUE /\ drq' = FALSE /\ err' = FALSE
        /\ job' = [op |-> "store", lba |-> call.lba, val |-> call.val]
        /\ pc' = "stored" /\ call' = call
        /\ medium' = medium /\ cache' = cache
    BY <1>3 DEF Transfer, Accept, Goto
  <2>2. TypeOK'
    BY <1>1, <1>3, <2>1, CallFields DEF IndInv, TypeOK
  <2>3. DataInv' /\ Matches'
    BY <1>1, <1>3, <2>1, CallFields DEF IndInv, DataInv, Matches
  <2> QED BY <2>2, <2>3 DEF IndInv
<1> QED BY <1>1, <1>2, <1>3, CallFields

LEMMA WaitPreserves == IndInv /\ ata_wait => IndInv'
<1> SUFFICES ASSUME IndInv, ata_wait PROVE IndInv'
  OBVIOUS
<1>1. CASE ~bsy /\ ~err /\ drq /\ Transfer
  BY <1>1, TransferPreserves DEF ata_wait
<1>2. CASE ~(~bsy /\ ~err /\ drq /\ Transfer)
  BY <1>2, LeavePreserves DEF ata_wait, PollAgain, Return
<1> QED BY <1>1, <1>2

LEMMA StoredPreserves == IndInv /\ Stored => IndInv'
<1> SUFFICES ASSUME IndInv, Stored PROVE IndInv'
  OBVIOUS
<1>1. CASE bsy \/ err
  BY <1>1, LeavePreserves DEF Stored, PollAgain, Return
<1>2. CASE ~bsy /\ ~err
  <2>1. /\ pc = "stored"
        /\ bsy' = TRUE /\ drq' = FALSE /\ err' = FALSE /\ job' = [op |-> "flush"]
        /\ pc' = "flushed" /\ call' = call
        /\ medium' = medium /\ cache' = cache
    BY <1>2 DEF Stored, Accept, Goto
  <2>2. TypeOK'
    BY <2>1 DEF IndInv, TypeOK
  <2>3. DataInv' /\ Matches'
    BY <1>2, <2>1 DEF IndInv, DataInv, Matches, Sector
  <2> QED BY <2>2, <2>3 DEF IndInv
<1> QED BY <1>1, <1>2

LEMMA FlushedPreserves == IndInv /\ Flushed => IndInv'
BY LeavePreserves DEF Flushed, PollAgain, Return

LEMMA PowerLossPreserves == IndInv /\ PowerLoss => IndInv'
<1> SUFFICES ASSUME IndInv, PowerLoss PROVE IndInv'
  OBVIOUS
<1>1. TypeOK'
  BY NothingCached DEF IndInv, TypeOK, PowerLoss, NoJob
<1>2. DataInv' /\ Matches'
  BY DEF PowerLoss, NoJob, DataInv, Matches
<1> QED BY <1>1, <1>2 DEF IndInv

-----------------------------------------------------------------------------
LEMMA NextIndInv == IndInv /\ [Next]_vars => IndInv'
<1> SUFFICES ASSUME IndInv, [Next]_vars PROVE IndInv'
  OBVIOUS
<1>1. CASE \E l \in Lbas : ata_read(l) \/ \E v \in Values : ata_write(l, v)
  BY <1>1, CallPreserves
<1>2. CASE Driver
  BY <1>2, SelectPreserves, WaitPreserves, StoredPreserves, FlushedPreserves DEF Driver
<1>3. CASE Serve \/ Refuse \/ PowerLoss
  BY <1>3, ServePreserves, RefusePreserves, PowerLossPreserves
<1>4. CASE \E l \in Lbas : Commit(l)
  BY <1>4, CommitPreserves
<1>5. CASE UNCHANGED vars
  BY <1>5, LeavePreserves DEF vars, driverVars
<1> QED BY <1>1, <1>2, <1>3, <1>4, <1>5 DEF Next

(* In every state, the command that the drive is at work on or has ready   *)
(* is the one that the driver waits for (ata_wait, ata_idle), however late *)
(* the drive has been with the ones before.                                *)
THEOREM CommandMatches == Spec => []IndInv
BY InitIndInv, NextIndInv, PTL DEF Spec

-----------------------------------------------------------------------------
(* The refinement.  What a sector may hold, without the set constructors.  *)
LEMMA MayMember ==
  ASSUME NEW l \in Lbas, NEW v
  PROVE  v \in May(l) <=> \/ v = medium[l]
                          \/ l \in DOMAIN cache /\ v = cache[l]
                          \/ job.op = "store" /\ job.lba = l /\ v = job.val
                          \/ call # None /\ call.op = "write" /\ call.lba = l /\ v = call.val
BY DEF May

LEMMA MayMemberNext ==
  ASSUME NEW l \in Lbas, NEW v
  PROVE  v \in May(l)' <=> \/ v = medium'[l]
                           \/ l \in DOMAIN cache' /\ v = cache'[l]
                           \/ job'.op = "store" /\ job'.lba = l /\ v = job'.val
                           \/ call' # None /\ call'.op = "write" /\ call'.lba = l /\ v = call'.val
BY DEF May

LEMMA NarrowsIf ==
  ASSUME \A l \in Lbas : \A v : v \in May(l)' => v \in May(l)
  PROVE  Abstract!Narrows
<1>1. \A l \in Lbas : May(l)' # {}
  BY MayMemberNext
<1> QED BY <1>1 DEF Abstract!Narrows

LEMMA InitDisk == Init => Abstract!Init
<1> SUFFICES ASSUME Init PROVE Abstract!Init
  OBVIOUS
<1>1. ASSUME NEW l \in Lbas PROVE May(l) = {Blank}
  <2>1. ASSUME NEW v PROVE v \in May(l) <=> v = Blank
    BY MayMember, NothingCached DEF Init, NoJob
  <2> QED BY <2>1
<1> QED BY <1>1 DEF Init, Abstract!Init, Abstract!Success

(* What the drive does by itself, and the power, decide sectors.           *)
LEMMA ServeSettles == IndInv /\ Serve => Abstract!Settle
<1> SUFFICES ASSUME IndInv, Serve PROVE Abstract!Settle
  OBVIOUS
<1>1. ASSUME NEW l \in Lbas, NEW v, v \in May(l)' PROVE v \in May(l)
  <2> USE DEF Serve, driverVars, NoJob
  <2>1. CASE job.op = "read"
    BY <1>1, <2>1, MayMember, MayMemberNext
  <2>2. CASE job.op = "write"
    BY <1>1, <2>2, MayMember, MayMemberNext
  <2>3. CASE job.op = "store"
    BY <1>1, <2>3, MayMember, MayMemberNext DEF Cached
  <2>4. CASE job.op = "flush"
    BY <1>1, <2>4, MayMember, MayMemberNext, NothingCached DEF Sector
  <2> QED BY <2>1, <2>2, <2>3, <2>4
<1> QED BY <1>1, NarrowsIf DEF Abstract!Settle, Serve, driverVars

LEMMA RefuseSettles == IndInv /\ Refuse => Abstract!Settle
<1> SUFFICES ASSUME IndInv, Refuse PROVE Abstract!Settle
  OBVIOUS
<1>1. ASSUME NEW l \in Lbas, NEW v, v \in May(l)' PROVE v \in May(l)
  BY <1>1, MayMember, MayMemberNext DEF Refuse, driverVars, NoJob, Cached
<1> QED BY <1>1, NarrowsIf DEF Abstract!Settle, Refuse, driverVars

LEMMA CommitSettles == ASSUME IndInv, NEW k \in Lbas, Commit(k) PROVE Abstract!Settle
<1>1. ASSUME NEW l \in Lbas, NEW v, v \in May(l)' PROVE v \in May(l)
  <2>1. job' = job /\ call' = call /\ k \in DOMAIN cache
    BY DEF Commit, driveVars, driverVars
  <2>2. /\ DOMAIN cache' = DOMAIN cache \ {k}
        /\ \A n \in DOMAIN cache' : cache'[n] = cache[n]
        /\ medium'[k] = cache[k]
        /\ \A n \in Lbas \ {k} : medium'[n] = medium[n]
    BY CommitKeeps DEF IndInv
  <2> QED BY <1>1, <2>1, <2>2, MayMember, MayMemberNext
<1> QED BY <1>1, NarrowsIf DEF Abstract!Settle, Commit, driverVars

LEMMA PowerLossNarrows == IndInv /\ PowerLoss => Abstract!PowerLoss
<1> SUFFICES ASSUME IndInv, PowerLoss PROVE Abstract!PowerLoss
  OBVIOUS
<1>1. ASSUME NEW l \in Lbas, NEW v, v \in May(l)' PROVE v \in May(l)
  BY <1>1, MayMember, MayMemberNext, NothingCached DEF PowerLoss, NoJob
<1> QED BY <1>1, NarrowsIf DEF Abstract!PowerLoss, PowerLoss

(* The driver leaves the drive alone.  Then the call goes on, or it fails  *)
(* and what it was to write may still get there or not.                    *)
LEMMA LeaveMaps ==
  ASSUME IndInv, UNCHANGED <<medium, cache, driveVars>>,
         \/ UNCHANGED <<call, result>>
         \/ pc # "idle" /\ Return([rc |-> 1])
  PROVE  Abstract!Settle \/ Abstract!Fail
<1>1. medium' = medium /\ cache' = cache /\ job' = job
  BY DEF driveVars
<1>2. ASSUME NEW l \in Lbas, NEW v, v \in May(l)' PROVE v \in May(l)
  BY <1>1, <1>2, MayMember, MayMemberNext DEF Return
<1>3. Abstract!Narrows
  BY <1>2, NarrowsIf
<1>4. CASE UNCHANGED <<call, result>>
  BY <1>3, <1>4 DEF Abstract!Settle
<1>5. CASE pc # "idle" /\ Return([rc |-> 1])
  BY <1>3, <1>5 DEF IndInv, Matches, Return, Abstract!Fail, Abstract!Failure
<1> QED BY <1>4, <1>5

LEMMA CallMaps ==
  ASSUME IndInv, NEW l \in Lbas
  PROVE  /\ ata_read(l) => Abstract!Read(l)
         /\ \A v \in Values : ata_write(l, v) => Abstract!Write(l, v)
<1>1. ASSUME ata_read(l) PROVE Abstract!Read(l)
  <2>1. /\ call = None /\ call' = [op |-> "read", lba |-> l] /\ call'.op = "read"
        /\ medium' = medium /\ cache' = cache /\ job' = job /\ result' = result
    BY <1>1 DEF IndInv, Matches, ata_read, driveVars
  <2>2. ASSUME NEW k \in Lbas PROVE May(k)' = May(k)
    <3>1. ASSUME NEW v PROVE v \in May(k)' <=> v \in May(k)
      BY <2>1, MayMember, MayMemberNext
    <3> QED BY <3>1
  <2> QED BY <2>1, <2>2 DEF Abstract!Read, Abstract!ReadCall
<1>2. ASSUME NEW w \in Values, ata_write(l, w) PROVE Abstract!Write(l, w)
  <2>1. /\ call = None /\ call' = [op |-> "write", lba |-> l, val |-> w]
        /\ call' \in Calls
        /\ medium' = medium /\ cache' = cache /\ job' = job /\ result' = result
    BY <1>2, CallFields DEF IndInv, Matches, ata_write, driveVars
  <2>2. call'.op = "write" /\ call'.lba = l /\ call'.val = w /\ call' # None
    BY <2>1, CallFields
  <2>3. ASSUME NEW k \in Lbas PROVE May(k)' = IF k = l THEN May(k) \cup {w} ELSE May(k)
    <3>1. ASSUME NEW v PROVE v \in May(k)' <=> v \in May(k) \/ (k = l /\ v = w)
      BY <2>1, <2>2, MayMember, MayMemberNext
    <3> QED BY <3>1
  <2> QED BY <2>1, <2>3 DEF Abstract!Write, Abstract!WriteCall
<1> QED BY <1>1, <1>2

LEMMA SelectMaps == IndInv /\ ata_select => Abstract!Settle \/ Abstract!Fail
<1> SUFFICES ASSUME IndInv, ata_select PROVE Abstract!Settle \/ Abstract!Fail
  OBVIOUS
<1>1. CASE bsy
  BY <1>1, LeaveMaps DEF ata_select
<1>2. CASE ~bsy
  <2>1. /\ job' = [op |-> call.op, lba |-> call.lba]
        /\ call' = call /\ result' = result /\ call \in Calls
        /\ medium' = medium /\ cache' = cache
    BY <1>2 DEF ata_select, Accept, Goto, IndInv, TypeOK, Matches
  <2>2. job'.op \in {"read", "write"}
    BY <2>1, CallFields
  <2>3. ASSUME NEW l \in Lbas, NEW v, v \in May(l)' PROVE v \in May(l)
    BY <2>1, <2>2, <2>3, MayMember, MayMemberNext
  <2> QED BY <2>1, <2>3, NarrowsIf DEF Abstract!Settle
<1> QED BY <1>1, <1>2

(* A read that succeeds has the sector that was asked for.                 *)
LEMMA TransferMaps ==
  ASSUME IndInv, pc = "wait", ~bsy, ~err, drq, Transfer, UNCHANGED <<medium, cache>>
  PROVE  Abstract!ReadOk \/ Abstract!Settle
<1>1. call \in Calls /\ job.op = call.op /\ job.lba = call.lba /\ call # None
  BY CallFields DEF IndInv, TypeOK, Matches
<1>2. CASE call.op = "read"
  <2>1. /\ call' = None /\ result' = [rc |-> 0, data |-> job.val] /\ job' = NoJob
        /\ medium' = medium /\ cache' = cache /\ job'.op = "none"
    BY <1>2 DEF Transfer, Return, NoJob
  <2>2. ASSUME NEW l \in Lbas PROVE May(l)' = May(l)
    <3>1. ASSUME NEW v PROVE v \in May(l)' <=> v \in May(l)
      BY <1>1, <1>2, <2>1, MayMember, MayMemberNext
    <3> QED BY <3>1
  <2>3. call.lba \in Lbas /\ job.val = Sector(call.lba)
    BY <1>1, <1>2, CallFields DEF IndInv, DataInv
  <2>4. job.val \in May(call.lba)
    BY <2>3, MayMember DEF Sector
  <2> QED BY <1>1, <1>2, <2>1, <2>2, <2>3, <2>4 DEF Abstract!ReadOk, Abstract!Answer
<1>3. CASE call.op = "write"
  <2>1. /\ job' = [op |-> "store", lba |-> call.lba, val |-> call.val]
        /\ call' = call /\ result' = result
        /\ medium' = medium /\ cache' = cache
    BY <1>3 DEF Transfer, Accept, Goto
  <2>2. ASSUME NEW l \in Lbas, NEW v, v \in May(l)' PROVE v \in May(l)
    BY <1>1, <1>3, <2>1, <2>2, MayMember, MayMemberNext
  <2> QED BY <2>1, <2>2, NarrowsIf DEF Abstract!Settle
<1> QED BY <1>1, <1>2, <1>3, CallFields

LEMMA WaitMaps ==
  IndInv /\ ata_wait => Abstract!ReadOk \/ Abstract!Settle \/ Abstract!Fail
<1> SUFFICES ASSUME IndInv, ata_wait
             PROVE  Abstract!ReadOk \/ Abstract!Settle \/ Abstract!Fail
  OBVIOUS
<1>1. CASE ~bsy /\ ~err /\ drq /\ Transfer
  BY <1>1, TransferMaps DEF ata_wait
<1>2. CASE ~(~bsy /\ ~err /\ drq /\ Transfer)
  BY <1>2, LeaveMaps DEF ata_wait, PollAgain
<1> QED BY <1>1, <1>2

LEMMA StoredMaps == IndInv /\ Stored => Abstract!Settle \/ Abstract!Fail
<1> SUFFICES ASSUME IndInv, Stored PROVE Abstract!Settle \/ Abstract!Fail
  OBVIOUS
<1>1. CASE bsy \/ err
  BY <1>1, LeaveMaps DEF Stored, PollAgain
<1>2. CASE ~bsy /\ ~err
  <2>1. /\ job' = [op |-> "flush"] /\ call' = call /\ result' = result
        /\ medium' = medium /\ cache' = cache /\ job'.op = "flush"
    BY <1>2 DEF Stored, Accept, Goto
  <2>2. ASSUME NEW l \in Lbas, NEW v, v \in May(l)' PROVE v \in May(l)
    BY <2>1, <2>2, MayMember, MayMemberNext
  <2> QED BY <2>1, <2>2, NarrowsIf DEF Abstract!Settle
<1> QED BY <1>1, <1>2

(* A write that succeeds is on the medium, and nothing is left anywhere    *)
(* that could put another value into its sector.                           *)
LEMMA FlushedMaps ==
  IndInv /\ Flushed => Abstract!WriteOk \/ Abstract!Settle \/ Abstract!Fail
<1> SUFFICES ASSUME IndInv, Flushed
             PROVE  Abstract!WriteOk \/ Abstract!Settle \/ Abstract!Fail
  OBVIOUS
<1>1. CASE bsy \/ err
  BY <1>1, LeaveMaps DEF Flushed, PollAgain
<1>2. CASE ~bsy /\ ~err
  <2>1. /\ pc = "flushed" /\ call' = None /\ result' = [rc |-> 0]
        /\ medium' = medium /\ cache' = cache /\ job' = job
    BY <1>2 DEF Flushed, Return, driveVars
  <2>2. /\ call \in Calls /\ call # None /\ call.op = "write" /\ call.lba \in Lbas
        /\ job.op = "none" /\ medium[call.lba] = call.val
        /\ call.lba \notin DOMAIN cache
    BY <1>2, <2>1, CallFields DEF IndInv, TypeOK, Matches
  <2>3. ASSUME NEW l \in Lbas
        PROVE  May(l)' = IF l = call.lba THEN {call.val} ELSE May(l)
    <3>1. ASSUME NEW v
          PROVE  v \in May(l)' <=> IF l = call.lba THEN v = call.val ELSE v \in May(l)
      BY <2>1, <2>2, MayMember, MayMemberNext
    <3> QED BY <3>1
  <2> QED BY <2>1, <2>2, <2>3 DEF Abstract!WriteOk, Abstract!Success
<1> QED BY <1>1, <1>2

LEMMA NextDisk == IndInv /\ [Next]_vars => [Abstract!Next]_(Abstract!vars)
<1> SUFFICES ASSUME IndInv, [Next]_vars PROVE [Abstract!Next]_(Abstract!vars)
  OBVIOUS
<1> USE DEF Abstract!Next
<1>1. CASE \E l \in Lbas : ata_read(l) \/ \E v \in Values : ata_write(l, v)
  BY <1>1, CallMaps
<1>2. CASE Driver
  BY <1>2, SelectMaps, WaitMaps, StoredMaps, FlushedMaps DEF Driver
<1>3. CASE Serve \/ Refuse \/ PowerLoss
  BY <1>3, ServeSettles, RefuseSettles, PowerLossNarrows
<1>4. CASE \E l \in Lbas : Commit(l)
  BY <1>4, CommitSettles
<1>5. CASE UNCHANGED vars
  BY <1>5, LeaveMaps DEF vars, driverVars
<1> QED BY <1>1, <1>2, <1>3, <1>4, <1>5 DEF Next

(* The driver makes a disk of any drive: a read that returns 0 has the     *)
(* sector that was asked for, a write that returns 0 survives a power      *)
(* loss, and a call that fails changes no other sector.                    *)
THEOREM ImplementsDisk == Spec => DiskSpec
<1>1. Spec => []IndInv
  BY CommandMatches
<1>2. Init => Abstract!Init
  BY InitDisk
<1>3. IndInv /\ [Next]_vars => [Abstract!Next]_(Abstract!vars)
  BY NextDisk
<1> QED BY <1>1, <1>2, <1>3, PTL DEF Spec, DiskSpec, Abstract!Spec
=============================================================================
