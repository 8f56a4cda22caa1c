--------------------------------- MODULE Fs --------------------------------
(***************************************************************************)
(* PyroFS, kernel/fs.c, on the disk behind kernel/ata.c: a superblock with *)
(* a bump pointer, one directory sector and a fixed slot of sectors for    *)
(* each file.  The sectors are written one by one; the machine can lose    *)
(* power (or be reset by the shell's reboot command) between any two of    *)
(* them, and mounts the disk again when it comes back.                     *)
(*                                                                         *)
(* start_lba is the number of the slot.  A file's content is a value; each *)
(* of its sectors holds that value.  The disk is the one Disk.tla          *)
(* specifies and Ata.tla implements: for each sector the set of what it    *)
(* may be found to hold.  Transfers of the kinds of sector in Faulty can   *)
(* fail: a read that fails leaves its buffer alone, a write that fails     *)
(* leaves the sector undecided between the old value and the new one.      *)
(***************************************************************************)
EXTENDS Naturals, FiniteSets

CONSTANTS Names,        \* file names
          Long,         \* those of them with NAME_LEN or more characters
          Cut,          \* what is left of each of those when it is stored
          Contents,     \* what files can hold
          Length,       \* the number of sectors of each content
          SlotSectors,  \* SLOT_SECTORS
          MaxFiles,     \* MAX_FILES
          MaxSlots,     \* bound: slots that are ever reserved
          Faulty,       \* kinds of sector whose transfer may fail
          None

ASSUME FsAssumption ==
  /\ Long \subseteq Names
  /\ \A n \in Long : Cut[n] \notin Long \cup {None}
  /\ Length \in [Contents -> Nat]
  /\ SlotSectors \in Nat \ {0}
  /\ MaxFiles \in Nat /\ MaxSlots \in Nat
  /\ Faulty \subseteq {"super", "dir", "data"}
  /\ None \notin Names \cup Contents

Files == 0..(MaxFiles - 1)
Slots == 0..(MaxSlots - 1)
Sectors == 0..(SlotSectors - 1)

VARIABLES super, dir,           \* the copies in memory
          dsuper, ddir, ddata,  \* what superblock, directory and slots on
                                \* the disk may hold
          pc,                   \* where the mount or the fs_write is
          w,                    \* its variables: name, e, data, s
          acked                 \* history: what the last fs_write of a name
                                \* that returned 0 wrote, unless one began since

diskVars == <<dsuper, ddir, ddata>>
vars == <<super, dir, diskVars, pc, w, acked>>

NoEntry == [used |-> FALSE, name |-> None, size |-> 0, start |-> 0]
NoFiles == [i \in Files |-> NoEntry]
Blank == [magic |-> FALSE, next |-> 0]

Init == /\ super = Blank /\ dir = NoFiles
        /\ dsuper = {Blank} /\ ddir = {NoFiles}
        /\ ddata = [k \in Slots |-> [s \in Sectors |-> {None}]]
        /\ pc = "off"
        /\ w = None
        /\ acked = [n \in Names |-> None]

(* What ata_write of v makes of a sector, and what it returns.             *)
ata_write(kind, sector, v) ==
  {[sector |-> {v}, rc |-> 0]}
    \cup {[sector |-> sector \cup {v}, rc |-> 1] : k \in Faulty \cap {kind}}

ata_read(kind, sector, buf) == sector \cup {buf : k \in Faulty \cap {kind}}

-----------------------------------------------------------------------------
(* fs_init: load_meta, whose results nobody looks at, then perhaps format. *)
LoadSuper == /\ pc = "off"
             /\ super' \in ata_read("super", dsuper, super)
             /\ pc' = "load"
             /\ UNCHANGED <<dir, diskVars, w, acked>>

LoadDir == /\ pc = "load"
           /\ dir' \in ata_read("dir", ddir, dir)
           /\ pc' = IF super.magic THEN "idle" ELSE "format"
           /\ UNCHANGED <<super, diskVars, w, acked>>

FormatSuper == /\ pc = "format"
               /\ super' = [magic |-> TRUE, next |-> 0]
               /\ dir' = NoFiles
               /\ \E r \in ata_write("super", dsuper, super') : dsuper' = r.sector
               /\ pc' = "format2"
               /\ UNCHANGED <<ddir, ddata, w, acked>>

FormatDir == /\ pc = "format2"
             /\ \E r \in ata_write("dir", ddir, dir) : ddir' = r.sector
             /\ pc' = "idle"
             /\ UNCHANGED <<super, dir, dsuper, ddata, w, acked>>

-----------------------------------------------------------------------------
(* strncpy_z into name[NAME_LEN]: a long name is cut, and then it is not   *)
(* the name it was cut from, but may be that of another file.              *)
Stored(n) == IF n \in Long THEN Cut[n] ELSE n

(* The first entry of directory d that has a property.                     *)
First(d, P(_)) == {i \in Files : P(d[i]) /\ \A j \in 0..(i - 1) : ~P(d[j])}
find(d, n) == LET is(e) == e.used /\ e.name = n IN First(d, is)
Unused(d) == LET is(e) == ~e.used IN First(d, is)

(* fs_write: an existing file keeps its slot, a new one reserves the next. *)
BeginWrite(n, c, i) == /\ pc = "idle"
                       /\ w' = [name |-> n, e |-> i, data |-> c, s |-> 0]
                       /\ acked' = [acked EXCEPT ![n] = None]
                       /\ UNCHANGED diskVars

Rewrite(n, c) == \E i \in find(dir, n) : /\ BeginWrite(n, c, i)
                                         /\ pc' = "data"
                                         /\ UNCHANGED <<super, dir>>

NewFile(n, c) == \E i \in Unused(dir) :
  /\ find(dir, n) = {}
  /\ super.next < MaxSlots
  /\ BeginWrite(n, c, i)
  /\ pc' = "super"
  /\ dir' = [dir EXCEPT ![i].used = TRUE, ![i].name = Stored(n),
                        ![i].start = super.next]
  /\ super' = [super EXCEPT !.next = @ + 1]

WriteSuper_Skipped == /\ pc = "super"
                      /\ pc' = "data"
                      /\ UNCHANGED <<super, dir, diskVars, w, acked>>

WriteSuper == /\ pc = "super"
              /\ \E r \in ata_write("super", dsuper, super) : dsuper' = r.sector
              /\ pc' = "data"
              /\ UNCHANGED <<super, dir, ddir, ddata, w, acked>>

Size(c) == IF Length[c] > SlotSectors THEN SlotSectors ELSE Length[c]

MoreSectors(c, s) == s + 1 < Size(c)

WriteData == /\ pc = "data"
             /\ \E r \in ata_write("data", ddata[dir[w.e].start][w.s], w.data) :
                  /\ ddata' = [ddata EXCEPT ![dir[w.e].start][w.s] = r.sector]
                  /\ IF r.rc # 0 THEN pc' = "idle" /\ w' = None
                     ELSE IF MoreSectors(w.data, w.s)
                          THEN w' = [w EXCEPT !.s = @ + 1] /\ UNCHANGED pc
                          ELSE pc' = "dir" /\ UNCHANGED w
             /\ UNCHANGED <<super, dir, dsuper, ddir, acked>>

WriteDir_SizeLate == /\ pc = "dir"
                     /\ dir' = [dir EXCEPT ![w.e].size = Size(w.data)]
                     /\ \E r \in ata_write("dir", ddir, dir) : ddir' = r.sector
                     /\ pc' = "idle"
                     /\ w' = None
                     /\ acked' = [acked EXCEPT ![w.name] = w.data]
                     /\ UNCHANGED <<super, dsuper, ddata>>

WriteDir == /\ pc = "dir"
            /\ dir' = [dir EXCEPT ![w.e].size = Size(w.data)]
            /\ \E r \in ata_write("dir", ddir, dir') : ddir' = r.sector
            /\ pc' = "idle"
            /\ w' = None
            /\ acked' = [acked EXCEPT ![w.name] = w.data]
            /\ UNCHANGED <<super, dsuper, ddata>>

(* Power fails or the machine is reset: memory is lost, the disk stays.    *)
Crash == /\ pc # "off"
         /\ super' = Blank /\ dir' = NoFiles
         /\ pc' = "off"
         /\ w' = None
         /\ UNCHANGED <<diskVars, acked>>

Next == \/ LoadSuper \/ LoadDir \/ FormatSuper \/ FormatDir
        \/ \E n \in Names, c \in Contents : Rewrite(n, c) \/ NewFile(n, c)
        \/ WriteSuper \/ WriteData \/ WriteDir
        \/ Crash

Spec == Init /\ [][Next]_vars

-----------------------------------------------------------------------------
Mounted == pc \in {"idle", "super", "data", "dir"}

(* fs_read of n through directory d returns c.                             *)
fs_read(d, n, c) == \E i \in find(d, n) :
  /\ d[i].size = Size(c)
  /\ \A s \in 0..(Size(c) - 1) : ddata[d[i].start][s] = {c}

(* What fs_write said it wrote can be read, now and after a crash at this  *)
(* very moment, as long as nobody has begun to write that file again: no   *)
(* write of another file, no failed write and no crash in the middle of    *)
(* one damages it (fs.h:11 "create/overwrite").  A long name is not found  *)
(* again, so this is about the others; files with long names still take    *)
(* entries and slots.                                                      *)
Durable == \A n \in Names \ Long : acked[n] # None =>
  /\ \A s \in dsuper : s.magic
  /\ \A d \in ddir : fs_read(d, n, acked[n])
  /\ Mounted => fs_read(dir, n, acked[n])

(* Directory d gives no two files the same slot, and next is past all of   *)
(* the slots it gives.                                                     *)
Separate(d, next) == \A i \in Files : d[i].used =>
  /\ d[i].start < next
  /\ \A j \in Files : d[j].used /\ d[j].start = d[i].start => i = j

(* "each file gets a fixed ... slot" (fs.c:7): two files never share one,  *)
(* in memory or on the disk, so that no write of a file can damage another *)
(* one, and the bump pointer is past all of them, after any crash.         *)
SlotsSeparate == (Mounted => Separate(dir, super.next)) /\
                 \A s \in dsuper, d \in ddir :
                   s.magic /\ pc # "format2" => Separate(d, s.next)

(* "format the disk if new" (fs.h:9, kernel.c:37): a disk that holds a     *)
(* file system is never formatted.                                         *)
FormatsOnlyNew == [][pc = "format" /\ pc' = "format2" => \E s \in dsuper : ~s.magic]_vars
=============================================================================
