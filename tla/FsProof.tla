------------------------------- MODULE FsProof -----------------------------
(***************************************************************************)
(* Proofs about Fs.tla, for every set of names and contents, every number  *)
(* of files, slots and sectors, and any crash.  Transfers of file data may *)
(* fail; those of the superblock and the directory are taken to work,      *)
(* since fs.c looks at neither result (the run MCFsMount shows what        *)
(* happens when one fails).                                                *)
(***************************************************************************)
EXTENDS Fs, TLAPS, WellFoundedInduction

MetaWorks == Faulty \subseteq {"data"}

AllNames == Names \cup {None} \cup {Cut[n] : n \in Long}
SuperType == [magic : BOOLEAN, next : 0..MaxSlots]
EntryType == [used : BOOLEAN, name : AllNames, size : Nat, start : 0..MaxSlots]
DirType == [Files -> EntryType]

Busy == pc \in {"super", "data", "dir"}

TypeInv ==
  /\ pc \in {"off", "load", "format", "format2", "idle", "super", "data", "dir"}
  /\ super \in SuperType /\ dir \in DirType
  /\ dsuper \subseteq SuperType /\ ddir \subseteq DirType
  /\ ddata \in [Slots -> [Sectors -> SUBSET (Contents \cup {None})]]
  /\ acked \in [Names -> Contents \cup {None}]
  /\ Busy => w \in [name : Names, e : Files, data : Contents, s : Sectors]

(* Entries are taken in order and never given back.                        *)
Packed(d) == \A i \in Files : d[i].used => \A j \in 0..(i - 1) : d[j].used

(* Stored names are short ones.                                            *)
Short(d) == \A i \in Files : d[i].used => d[i].name \notin Long

(* Directory d has every entry of directory e, as it is there.             *)
Extends(d, e) == \A i \in Files : e[i].used => d[i] = e[i]

(* The disk: one superblock and one directory, which fit together; before  *)
(* the first format the directory is empty.                                *)
DiskInv ==
  /\ \E s : dsuper = {s}
  /\ \E d : ddir = {d}
  /\ \A d \in ddir : Packed(d) /\ Short(d)
  /\ \A s \in dsuper, d \in ddir : Separate(d, s.next)
  /\ \A s \in dsuper : ~s.magic => ddir = {NoFiles}

(* The copies in memory, against the disk.                                 *)
MountInv ==
  /\ pc \in {"load", "format"} => super \in dsuper
  /\ pc = "format" => ~super.magic
  /\ pc = "format2" => /\ super.magic /\ super \in dsuper
                       /\ dir = NoFiles /\ ddir = {NoFiles}
  /\ Mounted => /\ \A s \in dsuper : s.magic
                /\ super.magic
                /\ pc # "super" => super \in dsuper
                /\ Packed(dir) /\ Short(dir) /\ Separate(dir, super.next)
                /\ \A d \in ddir : Extends(dir, d)

(* An fs_write under way: its entry, and the sectors written so far.       *)
WriteInv ==
  Busy => /\ acked[w.name] = None
          /\ dir[w.e].used /\ dir[w.e].name = Stored(w.name)
          /\ w.name \notin Long => w.e \in find(dir, w.name)
          /\ w.name \in Long => \A d \in ddir : ~d[w.e].used
          /\ pc = "super" => w.s = 0
          /\ pc = "data" => \A t \in 0..(w.s - 1) : ddata[dir[w.e].start][t] = {w.data}
          /\ pc = "dir" => \A t \in 0..(Size(w.data) - 1) :
                             ddata[dir[w.e].start][t] = {w.data}

(* fs_read with the slots as a parameter.                                  *)
Reads(D, d, n, c) == \E i \in find(d, n) :
  /\ d[i].size = Size(c)
  /\ \A s \in 0..(Size(c) - 1) : D[d[i].start][s] = {c}

(* What was acknowledged is on the disk.                                   *)
KeptInv == \A n \in Names \ Long : acked[n] # None =>
  /\ \A s \in dsuper : s.magic
  /\ \A d \in ddir : Reads(ddata, d, n, acked[n])

IndInv == TypeInv /\ DiskInv /\ MountInv /\ WriteInv /\ KeptInv

-----------------------------------------------------------------------------
LEMMA Sizes == /\ SlotSectors \in Nat \ {0} /\ MaxFiles \in Nat /\ MaxSlots \in Nat
               /\ \A c \in Contents : Length[c] \in Nat
BY FsAssumption

LEMMA SizeBound == \A c \in Contents : Size(c) \in 0..SlotSectors
BY Sizes DEF Size

LEMMA NameFacts ==
  /\ None \in AllNames /\ None \notin Names
  /\ \A n \in Names : Stored(n) \in AllNames /\ Stored(n) \notin Long
BY FsAssumption DEF AllNames, Stored

LEMMA MetaTransfers ==
  ASSUME MetaWorks, NEW kind \in {"super", "dir"}, NEW sector, NEW v
  PROVE  /\ \A r \in ata_write(kind, sector, v) : r.sector = {v}
         /\ ata_read(kind, sector, v) = sector
<1>1. Faulty \cap {kind} = {}
  BY DEF MetaWorks
<1>2. ata_write(kind, sector, v) = {[sector |-> {v}, rc |-> 0]}
  BY <1>1 DEF ata_write
<1>3. ata_read(kind, sector, v) = sector
  BY <1>1 DEF ata_read
<1> QED BY <1>2, <1>3

LEMMA FindMeans ==
  ASSUME NEW d, NEW n, NEW i
  PROVE  i \in find(d, n) <=> /\ i \in Files /\ d[i].used /\ d[i].name = n
                              /\ \A j \in 0..(i - 1) : ~(d[j].used /\ d[j].name = n)
BY DEF find, First

LEMMA UnusedMeans ==
  ASSUME NEW d, NEW i \in Unused(d)
  PROVE  i \in Files /\ ~d[i].used /\ \A j \in 0..(i - 1) : d[j].used
BY DEF Unused, First

LEMMA EmptyDir ==
  /\ NoFiles \in DirType /\ Blank \in SuperType
  /\ Packed(NoFiles) /\ Short(NoFiles) /\ \A k : Separate(NoFiles, k)
  /\ \A d : Extends(d, NoFiles)
<1>1. \A i \in Files : NoFiles[i] = NoEntry
  BY DEF NoFiles
<1>2. NoEntry \in EntryType /\ NoEntry.used = FALSE
  BY NameFacts, Sizes DEF NoEntry, EntryType
<1>3. NoFiles \in DirType
  BY <1>2 DEF NoFiles, DirType
<1>4. Blank \in SuperType
  BY Sizes DEF Blank, SuperType
<1> QED BY <1>1, <1>2, <1>3, <1>4 DEF Packed, Short, Separate, Extends

LEMMA ReadsNow == \A d, n, c : fs_read(d, n, c) <=> Reads(ddata, d, n, c)
BY DEF fs_read, Reads

(* An entry found through a directory is found through one that extends    *)
(* it: what was added came behind it.                                      *)
LEMMA FoundAgain ==
  ASSUME NEW d, NEW e, NEW n, NEW i \in find(e, n), Packed(e), Extends(d, e)
  PROVE  i \in find(d, n) /\ d[i] = e[i] /\ e[i].used
<1>1. /\ i \in Files /\ e[i].used /\ e[i].name = n
      /\ \A j \in 0..(i - 1) : ~(e[j].used /\ e[j].name = n)
  BY FindMeans
<1>2. \A j \in 0..(i - 1) : j \in Files
  BY <1>1, Sizes DEF Files
<1>3. \A j \in 0..(i - 1) : d[j] = e[j]
  BY <1>1, <1>2 DEF Packed, Extends
<1>4. d[i] = e[i]
  BY <1>1 DEF Extends
<1> QED BY <1>1, <1>3, <1>4, FindMeans

LEMMA InitInv == Init => IndInv
<1> SUFFICES ASSUME Init PROVE IndInv
  OBVIOUS
<1> USE DEF Init
<1>1. TypeInv
  <2>1. ddata \in [Slots -> [Sectors -> SUBSET (Contents \cup {None})]]
    OBVIOUS
  <2>2. acked \in [Names -> Contents \cup {None}]
    OBVIOUS
  <2> QED BY <2>1, <2>2, EmptyDir DEF TypeInv, Busy
<1>2. DiskInv
  BY EmptyDir DEF DiskInv
<1>3. MountInv /\ WriteInv
  BY DEF MountInv, WriteInv, Mounted, Busy
<1>4. KeptInv
  BY DEF KeptInv
<1> QED BY <1>1, <1>2, <1>3, <1>4 DEF IndInv

(* A step that leaves the disk and the acknowledgements alone.             *)
LEMMA SameDisk ==
  ASSUME IndInv, UNCHANGED <<diskVars, acked>>
  PROVE  /\ DiskInv' /\ KeptInv'
         /\ dsuper' \subseteq SuperType /\ ddir' \subseteq DirType
         /\ ddata' \in [Slots -> [Sectors -> SUBSET (Contents \cup {None})]]
         /\ acked' \in [Names -> Contents \cup {None}]
<1>1. dsuper' = dsuper /\ ddir' = ddir /\ ddata' = ddata /\ acked' = acked
  BY DEF diskVars
<1>2. DiskInv'
  BY <1>1 DEF IndInv, DiskInv
<1>3. KeptInv'
  BY <1>1 DEF IndInv, KeptInv
<1> QED BY <1>1, <1>2, <1>3 DEF IndInv, TypeInv

LEMMA MountKeeps ==
  ASSUME MetaWorks, IndInv, LoadSuper \/ LoadDir \/ Crash
  PROVE  IndInv'
<1>1. CASE LoadSuper
  <2>1. /\ pc = "off" /\ pc' = "load" /\ super' \in dsuper /\ dir' = dir
        /\ UNCHANGED <<diskVars, acked>> /\ dsuper' = dsuper
    BY <1>1, MetaTransfers DEF LoadSuper, diskVars
  <2>2. TypeInv'
    BY <2>1, SameDisk DEF IndInv, TypeInv, Busy
  <2>3. MountInv' /\ WriteInv'
    BY <2>1 DEF MountInv, WriteInv, Mounted, Busy
  <2> QED BY <2>1, <2>2, <2>3, SameDisk DEF IndInv
<1>2. CASE LoadDir
  <2>1. /\ pc = "load" /\ pc' = IF super.magic THEN "idle" ELSE "format"
        /\ super' = super /\ dir' \in ddir
        /\ UNCHANGED <<diskVars, acked>> /\ dsuper' = dsuper /\ ddir' = ddir
    BY <1>2, MetaTransfers DEF LoadDir, diskVars
  <2>2. TypeInv'
    BY <2>1, SameDisk DEF IndInv, TypeInv, Busy
  <2>3. super \in dsuper /\ dsuper = {super} /\ ddir = {dir'}
    BY <2>1 DEF IndInv, DiskInv, MountInv
  <2>4. Packed(dir') /\ Short(dir') /\ Separate(dir', super.next) /\ Extends(dir', dir')
    BY <2>3 DEF IndInv, DiskInv, Extends
  <2>5. MountInv'
    BY <2>1, <2>3, <2>4 DEF MountInv, Mounted
  <2>6. WriteInv'
    BY <2>1 DEF WriteInv, Busy
  <2> QED BY <2>1, <2>2, <2>5, <2>6, SameDisk DEF IndInv
<1>3. CASE Crash
  <2>1. /\ pc' = "off" /\ super' = Blank /\ dir' = NoFiles
        /\ UNCHANGED <<diskVars, acked>>
    BY <1>3 DEF Crash
  <2>2. TypeInv'
    BY <2>1, SameDisk, EmptyDir DEF TypeInv, Busy
  <2>3. MountInv' /\ WriteInv'
    BY <2>1 DEF MountInv, WriteInv, Mounted, Busy
  <2> QED BY <2>1, <2>2, <2>3, SameDisk DEF IndInv
<1> QED BY <1>1, <1>2, <1>3

LEMMA FormatKeeps ==
  ASSUME MetaWorks, IndInv, FormatSuper \/ FormatDir
  PROVE  IndInv'
<1>1. CASE FormatSuper
  <2> DEFINE new == [magic |-> TRUE, next |-> 0]
  <2>1. /\ pc = "format" /\ pc' = "format2" /\ super' = new /\ dir' = NoFiles
        /\ dsuper' = {new} /\ ddir' = ddir /\ ddata' = ddata /\ acked' = acked
    <3>1. \E r \in ata_write("super", dsuper, super') : dsuper' = r.sector
      BY <1>1 DEF FormatSuper
    <3>2. dsuper' = {super'}
      BY <3>1, MetaTransfers
    <3> QED BY <1>1, <3>2 DEF FormatSuper
  <2>2. new \in SuperType /\ new.magic = TRUE
    BY Sizes DEF SuperType
  <2> HIDE DEF new
  <2>3. super \in dsuper /\ ~super.magic /\ ddir = {NoFiles}
    BY <2>1 DEF IndInv, MountInv, DiskInv
  <2>4. TypeInv'
    BY <2>1, <2>2, EmptyDir DEF IndInv, TypeInv, Busy
  <2>5. DiskInv'
    BY <2>1, <2>2, <2>3, EmptyDir DEF DiskInv
  <2>6. MountInv' /\ WriteInv'
    BY <2>1, <2>2, <2>3 DEF MountInv, WriteInv, Mounted, Busy
  <2>7. KeptInv'
    BY <2>1, <2>3 DEF IndInv, KeptInv
  <2> QED BY <2>4, <2>5, <2>6, <2>7 DEF IndInv
<1>2. CASE FormatDir
  <2>1. /\ pc = "format2" /\ pc' = "idle" /\ super' = super /\ dir' = dir
        /\ ddir' = {dir} /\ dsuper' = dsuper /\ ddata' = ddata /\ acked' = acked
    BY <1>2, MetaTransfers DEF FormatDir
  <2>2. /\ super.magic /\ super \in dsuper /\ dir = NoFiles /\ ddir = {NoFiles}
    BY <2>1 DEF IndInv, MountInv
  <2>3. UNCHANGED <<diskVars, acked>>
    BY <2>1, <2>2 DEF diskVars
  <2>4. TypeInv'
    BY <2>1, <2>3, SameDisk DEF IndInv, TypeInv, Busy
  <2>5. dsuper = {super}
    BY <2>2 DEF IndInv, DiskInv
  <2>6. MountInv'
    BY <2>1, <2>2, <2>5, EmptyDir DEF MountInv, Mounted
  <2>7. WriteInv'
    BY <2>1 DEF WriteInv, Busy
  <2> QED BY <2>3, <2>4, <2>6, <2>7, SameDisk DEF IndInv
<1> QED BY <1>1, <1>2

-----------------------------------------------------------------------------
(* A search that finds nothing says that there is nothing.                 *)
LEMMA NotFound ==
  ASSUME NEW d, NEW n, find(d, n) = {}, NEW i \in Files, d[i].used
  PROVE  d[i].name # n
<1> SUFFICES ASSUME d[i].name = n PROVE FALSE
  OBVIOUS
<1> DEFINE T == {j \in Files : d[j].used /\ d[j].name = n}
<1>1. T \subseteq Nat /\ T # {}
  BY DEF Files
<1>2. \E x \in T : \A y \in T : ~(<<y, x>> \in OpToRel(<, Nat))
  BY <1>1, NatLessThanWellFounded, WFMin
<1>3. PICK x \in T : \A y \in T : ~(y < x)
  BY <1>1, <1>2 DEF OpToRel
<1>4. \A j \in 0..(x - 1) : j \in Files /\ j < x
  BY <1>3, Sizes DEF Files
<1>5. x \in find(d, n)
  BY <1>3, <1>4, FindMeans
<1> QED BY <1>5

(* The first step of fs_write: nothing is on the disk yet.                 *)
LEMMA BeginEffect ==
  ASSUME IndInv, NEW n \in Names, NEW c \in Contents, NEW i \in Files, BeginWrite(n, c, i)
  PROVE  /\ pc = "idle" /\ w' = [name |-> n, e |-> i, data |-> c, s |-> 0]
         /\ w' \in [name : Names, e : Files, data : Contents, s : Sectors]
         /\ acked' \in [Names -> Contents \cup {None}] /\ acked'[n] = None
         /\ dsuper' = dsuper /\ ddir' = ddir /\ ddata' = ddata
         /\ DiskInv' /\ KeptInv'
<1>1. /\ pc = "idle" /\ w' = [name |-> n, e |-> i, data |-> c, s |-> 0]
      /\ acked' = [acked EXCEPT ![n] = None]
      /\ dsuper' = dsuper /\ ddir' = ddir /\ ddata' = ddata
  BY DEF BeginWrite, diskVars
<1>2. acked \in [Names -> Contents \cup {None}]
  BY DEF IndInv, TypeInv
<1>3. 0 \in Sectors
  BY Sizes DEF Sectors
<1>4. w' \in [name : Names, e : Files, data : Contents, s : Sectors]
  BY <1>1, <1>3
<1>5. acked' \in [Names -> Contents \cup {None}] /\ acked'[n] = None
  BY <1>1, <1>2
<1>6. DiskInv'
  BY <1>1 DEF IndInv, DiskInv
<1>7. \A m \in Names : acked'[m] # None => acked'[m] = acked[m]
  BY <1>1, <1>2
<1>8. KeptInv'
  <2>1. KeptInv
    BY DEF IndInv
  <2> QED BY <1>1, <1>7, <2>1 DEF KeptInv
<1> QED BY <1>1, <1>4, <1>5, <1>6, <1>8

LEMMA RewriteKeeps ==
  ASSUME IndInv, NEW n \in Names, NEW c \in Contents, Rewrite(n, c)
  PROVE  IndInv'
<1>1. PICK i \in find(dir, n) : BeginWrite(n, c, i)
  BY DEF Rewrite
<1>2. pc' = "data" /\ super' = super /\ dir' = dir
  BY DEF Rewrite
<1>3. i \in Files /\ dir[i].used /\ dir[i].name = n
  BY FindMeans
<1>4. /\ pc = "idle" /\ w' = [name |-> n, e |-> i, data |-> c, s |-> 0]
      /\ w' \in [name : Names, e : Files, data : Contents, s : Sectors]
      /\ acked' \in [Names -> Contents \cup {None}] /\ acked'[n] = None
      /\ dsuper' = dsuper /\ ddir' = ddir /\ ddata' = ddata
      /\ DiskInv' /\ KeptInv'
  BY <1>1, <1>3, BeginEffect
<1>5. TypeInv'
  BY <1>2, <1>4 DEF IndInv, TypeInv
<1>6. MountInv'
  BY <1>2, <1>4 DEF IndInv, MountInv, Mounted
<1>7. WriteInv'
  <2>1. n \notin Long
    BY <1>3, <1>4 DEF IndInv, MountInv, Mounted, Short
  <2>2. w'.name = n /\ w'.e = i /\ w'.s = 0
    BY <1>4
  <2>3. \A t \in 0..(0 - 1) : FALSE
    OBVIOUS
  <2> QED BY <1>1, <1>2, <1>3, <1>4, <2>1, <2>2, <2>3 DEF WriteInv, Stored
<1> QED BY <1>4, <1>5, <1>6, <1>7 DEF IndInv

LEMMA NewFileKeeps ==
  ASSUME IndInv, NEW n \in Names, NEW c \in Contents, NewFile(n, c)
  PROVE  IndInv'
<1>1. PICK i \in Unused(dir) :
        /\ BeginWrite(n, c, i)
        /\ dir' = [dir EXCEPT ![i].used = TRUE, ![i].name = Stored(n),
                              ![i].start = super.next]
  BY DEF NewFile
<1>2. /\ find(dir, n) = {} /\ super.next < MaxSlots /\ pc' = "super"
      /\ super' = [super EXCEPT !.next = @ + 1]
  BY DEF NewFile
<1>3. i \in Files /\ ~dir[i].used /\ \A j \in 0..(i - 1) : dir[j].used
  BY UnusedMeans
<1>4. /\ pc = "idle" /\ w' = [name |-> n, e |-> i, data |-> c, s |-> 0]
      /\ w' \in [name : Names, e : Files, data : Contents, s : Sectors]
      /\ acked' \in [Names -> Contents \cup {None}] /\ acked'[n] = None
      /\ dsuper' = dsuper /\ ddir' = ddir /\ ddata' = ddata
      /\ DiskInv' /\ KeptInv'
  BY <1>1, <1>3, BeginEffect
<1>5. /\ dir \in DirType /\ super \in SuperType /\ super.next \in 0..MaxSlots
      /\ super.magic \in BOOLEAN
  BY DEF IndInv, TypeInv, SuperType
<1>6. /\ super.magic /\ Packed(dir) /\ Short(dir) /\ Separate(dir, super.next)
      /\ \A s \in dsuper : s.magic
      /\ \A d \in ddir : Extends(dir, d)
  BY <1>4 DEF IndInv, MountInv, Mounted
<1>7. super'.next = super.next + 1 /\ super'.magic = super.magic /\ super' \in SuperType
  BY <1>2, <1>5, Sizes DEF SuperType
<1>8. /\ \A j \in Files : j # i => dir'[j] = dir[j]
      /\ dir'[i].used = TRUE /\ dir'[i].name = Stored(n) /\ dir'[i].start = super.next
      /\ dir' \in DirType
  <2>1. dir[i] \in EntryType
    BY <1>3, <1>5 DEF DirType
  <2>2. PICK u \in EntryType : dir' = [dir EXCEPT ![i] = u]
          /\ u.used = TRUE /\ u.name = Stored(n) /\ u.start = super.next
    <3> DEFINE u == [dir[i] EXCEPT !.used = TRUE, !.name = Stored(n), !.start = super.next]
    <3>1. u \in EntryType /\ u.used = TRUE /\ u.name = Stored(n) /\ u.start = super.next
      BY <1>5, <2>1, NameFacts DEF EntryType
    <3>2. dir' = [dir EXCEPT ![i] = u]
      BY <1>1, <1>3, <1>5 DEF DirType
    <3> QED BY <3>1, <3>2
  <2> QED BY <1>3, <1>5, <2>2 DEF DirType
<1>9. TypeInv'
  BY <1>2, <1>4, <1>7, <1>8 DEF IndInv, TypeInv
<1>10. Packed(dir')
  <2>1. ASSUME NEW j \in Files, dir'[j].used, NEW k \in 0..(j - 1) PROVE dir'[k].used
    <3>1. k \in Files /\ j \in Int /\ i \in Int /\ k \in Int
      BY <1>3, <2>1, Sizes DEF Files
    <3>2. CASE j = i
      BY <1>3, <1>8, <2>1, <3>1, <3>2
    <3>3. CASE j # i
      <4>1. dir[j].used /\ dir[k].used
        BY <1>6, <1>8, <2>1, <3>3 DEF Packed
      <4> QED BY <1>8, <3>1, <4>1
    <3> QED BY <3>2, <3>3
  <2> QED BY <2>1 DEF Packed
<1>11. Short(dir')
  BY <1>3, <1>6, <1>8, NameFacts DEF Short
<1>12. Separate(dir', super.next + 1)
  <2>1. \A j \in Files : dir[j].start \in Nat /\ (dir[j].used => dir[j].start < super.next)
    BY <1>5, <1>6 DEF DirType, EntryType, Separate
  <2>2. \A j \in Files : dir'[j].used => dir'[j].start < super.next + 1
    BY <1>5, <1>8, <2>1
  <2>3. ASSUME NEW j \in Files, NEW k \in Files, dir'[j].used, dir'[k].used,
               dir'[k].start = dir'[j].start
        PROVE  j = k
    <3>1. CASE j # i /\ k # i
      BY <1>6, <1>8, <2>3, <3>1 DEF Separate
    <3>2. CASE j = i \/ k = i
      BY <1>5, <1>8, <2>1, <2>3, <3>2
    <3> QED BY <3>1, <3>2
  <2> QED BY <2>2, <2>3 DEF Separate
<1>13. \A d \in ddir : Extends(dir', d) /\ ~d[i].used
  <2>1. \A d \in ddir : ~d[i].used
    BY <1>3, <1>6 DEF Extends
  <2> QED BY <1>6, <1>8, <2>1 DEF Extends
<1>14. MountInv'
  BY <1>2, <1>4, <1>6, <1>7, <1>10, <1>11, <1>12, <1>13 DEF MountInv, Mounted
<1>15. n \notin Long => i \in find(dir', n)
  <2>1. \A j \in 0..(i - 1) : j \in Files /\ j # i
    BY <1>3, Sizes DEF Files
  <2>2. \A j \in 0..(i - 1) : ~(dir'[j].used /\ dir'[j].name = n)
    BY <1>2, <1>8, <2>1, NotFound
  <2>3. n \notin Long => dir'[i].name = n
    BY <1>8 DEF Stored
  <2> QED BY <1>3, <1>8, <2>2, <2>3, FindMeans
<1>16. WriteInv'
  <2>1. w'.name = n /\ w'.e = i /\ w'.s = 0
    BY <1>4
  <2> QED BY <1>2, <1>4, <1>8, <1>13, <1>15, <2>1 DEF WriteInv
<1> QED BY <1>4, <1>9, <1>14, <1>16 DEF IndInv

LEMMA WriteSuperKeeps == ASSUME MetaWorks, IndInv, WriteSuper PROVE IndInv'
<1>1. /\ pc = "super" /\ pc' = "data" /\ dsuper' = {super}
      /\ super' = super /\ dir' = dir /\ ddir' = ddir /\ ddata' = ddata
      /\ w' = w /\ acked' = acked
  BY MetaTransfers DEF WriteSuper
<1>2. /\ super.magic /\ Separate(dir, super.next) /\ \A d \in ddir : Extends(dir, d)
  BY <1>1 DEF IndInv, MountInv, Mounted
<1>3. TypeInv'
  BY <1>1 DEF IndInv, TypeInv, Busy
<1>4. \A d \in ddir : Separate(d, super.next)
  BY <1>2 DEF Separate, Extends
<1>5. DiskInv'
  BY <1>1, <1>2, <1>4 DEF IndInv, DiskInv
<1>6. MountInv'
  BY <1>1, <1>2 DEF IndInv, MountInv, Mounted
<1>7. WriteInv'
  <2>1. w.s = 0 /\ \A t \in 0..(0 - 1) : FALSE
    BY <1>1 DEF IndInv, WriteInv, Busy
  <2> QED BY <1>1, <2>1 DEF IndInv, WriteInv, Busy
<1>8. KeptInv'
  BY <1>1, <1>2 DEF IndInv, KeptInv
<1> QED BY <1>3, <1>5, <1>6, <1>7, <1>8 DEF IndInv

(* A slot belongs to one entry, so that writing to the slot of the file    *)
(* that is being written leaves every acknowledged one alone.              *)
LEMMA OtherFilesKept ==
  ASSUME IndInv, Busy, NEW n \in Names \ Long, acked[n] # None, NEW d \in ddir,
         NEW i \in find(d, n)
  PROVE  /\ i # w.e /\ d[i].start # dir[w.e].start
         /\ i \in find(dir, n) /\ dir[i] = d[i]
<1>1. w.e \in Files /\ w.name \in Names
  BY DEF IndInv, TypeInv
<1>2. Mounted
  BY DEF Busy, Mounted
<1>3. Packed(d) /\ Extends(dir, d) /\ Separate(dir, super.next)
  BY <1>2 DEF IndInv, DiskInv, MountInv
<1>4. i \in find(dir, n) /\ dir[i] = d[i] /\ d[i].used
  BY <1>3, FoundAgain
<1>5. i \in Files /\ dir[i].name = n
  BY <1>4, FindMeans
<1>6. i # w.e
  <2>1. CASE w.name \in Long
    BY <1>4, <2>1 DEF IndInv, WriteInv
  <2>2. CASE w.name \notin Long
    <3>1. dir[w.e].name = w.name /\ acked[w.name] = None
      BY <2>2 DEF IndInv, WriteInv, Stored
    <3> QED BY <1>5, <3>1
  <2> QED BY <2>1, <2>2
<1>7. dir[w.e].used
  BY DEF IndInv, WriteInv
<1> QED BY <1>1, <1>3, <1>4, <1>5, <1>6, <1>7 DEF Separate

LEMMA WriteDataKeeps == ASSUME IndInv, WriteData PROVE IndInv'
<1> DEFINE k == dir[w.e].start
<1>1. pc = "data" /\ Busy /\ Mounted
  BY DEF WriteData, Busy, Mounted
<1>2. /\ super' = super /\ dir' = dir /\ dsuper' = dsuper /\ ddir' = ddir /\ acked' = acked
  BY DEF WriteData
<1>3. PICK r \in ata_write("data", ddata[k][w.s], w.data) :
        /\ ddata' = [ddata EXCEPT ![k][w.s] = r.sector]
        /\ \/ r.rc # 0 /\ pc' = "idle" /\ w' = None
           \/ r.rc = 0 /\ MoreSectors(w.data, w.s) /\ w' = [w EXCEPT !.s = @ + 1] /\ pc' = pc
           \/ r.rc = 0 /\ ~MoreSectors(w.data, w.s) /\ pc' = "dir" /\ w' = w
  BY DEF WriteData
<1>4. /\ w \in [name : Names, e : Files, data : Contents, s : Sectors]
      /\ w.e \in Files /\ w.s \in Sectors /\ w.data \in Contents
  BY <1>1 DEF IndInv, TypeInv
<1>5. k \in Slots
  <2>1. Separate(dir, super.next) /\ dir[w.e].used
    BY <1>1 DEF IndInv, MountInv, WriteInv
  <2>2. dir[w.e] \in EntryType /\ super \in SuperType
    BY <1>4 DEF IndInv, TypeInv, DirType
  <2>3. k \in Nat /\ k < super.next /\ super.next <= MaxSlots /\ super.next \in Nat
    BY <1>4, <2>1, <2>2, Sizes DEF EntryType, SuperType, Separate
  <2> QED BY <2>3, Sizes DEF Slots
<1>6. ddata \in [Slots -> [Sectors -> SUBSET (Contents \cup {None})]]
  BY DEF IndInv, TypeInv
<1>7. r.rc = 0 => r.sector = {w.data}
  BY <1>3 DEF ata_write
<1>8. r.sector \in SUBSET (Contents \cup {None})
  <2>1. ddata[k][w.s] \in SUBSET (Contents \cup {None})
    BY <1>4, <1>5, <1>6
  <2> QED BY <1>3, <1>4, <2>1 DEF ata_write
<1> HIDE DEF k
<1>9. /\ ddata' \in [Slots -> [Sectors -> SUBSET (Contents \cup {None})]]
      /\ \A q \in Slots : q # k => ddata'[q] = ddata[q]
      /\ ddata'[k][w.s] = r.sector
      /\ \A t \in Sectors : t # w.s => ddata'[k][t] = ddata[k][t]
  BY <1>3, <1>4, <1>5, <1>6, <1>8
<1>10. DiskInv'
  BY <1>2 DEF IndInv, DiskInv
<1>11. KeptInv'
  <2>1. ASSUME NEW n \in Names \ Long, acked[n] # None, NEW d \in ddir
        PROVE  Reads(ddata', d, n, acked[n])
    <3>1. PICK i \in find(d, n) :
            /\ d[i].size = Size(acked[n])
            /\ \A s \in 0..(Size(acked[n]) - 1) : ddata[d[i].start][s] = {acked[n]}
      BY <2>1 DEF IndInv, KeptInv, Reads
    <3>2. d[i].start # k /\ dir[i] = d[i] /\ i \in find(dir, n)
      BY <1>1, <2>1, OtherFilesKept DEF k
    <3>3. d[i].start \in Slots
      <4>1. i \in Files /\ dir[i].used
        BY <3>2, FindMeans
      <4>2. dir[i] \in EntryType /\ super \in SuperType /\ Separate(dir, super.next)
        BY <1>1, <4>1 DEF IndInv, TypeInv, DirType, MountInv
      <4>3. /\ dir[i].start \in Nat /\ dir[i].start < super.next
            /\ super.next <= MaxSlots /\ super.next \in Nat
        BY <4>1, <4>2, Sizes DEF EntryType, SuperType, Separate
      <4> QED BY <3>2, <4>3, Sizes DEF Slots
    <3>4. ddata'[d[i].start] = ddata[d[i].start]
      BY <1>9, <3>2, <3>3
    <3> QED BY <3>1, <3>4 DEF Reads
  <2>2. KeptInv
    BY DEF IndInv
  <2> QED BY <1>2, <2>1, <2>2 DEF KeptInv
<1>12. MountInv' /\ TypeInv' /\ WriteInv'
  <2>0. /\ TypeInv /\ MountInv /\ WriteInv
    BY DEF IndInv
  <2>1. CASE r.rc # 0
    <3>1. pc' = "idle"
      BY <1>3, <2>1
    <3>2. TypeInv'
      BY <1>2, <1>9, <2>0, <3>1 DEF TypeInv, Busy
    <3>3. MountInv'
      BY <1>1, <1>2, <2>0, <3>1 DEF MountInv, Mounted
    <3>4. WriteInv'
      BY <3>1 DEF WriteInv, Busy
    <3> QED BY <3>2, <3>3, <3>4
  <2>2. CASE r.rc = 0
    <3>1. ddata'[k][w.s] = {w.data}
      BY <1>7, <1>9, <2>2
    <3>2. w.s \in Nat /\ \A t \in 0..(w.s - 1) : t \in Sectors /\ t # w.s
      BY <1>4, Sizes DEF Sectors
    <3>3. \A t \in 0..(w.s - 1) : ddata[k][t] = {w.data}
      BY <1>1, <2>0 DEF WriteInv, k
    <3>4. \A t \in 0..w.s : ddata'[k][t] = {w.data}
      <4>1. ASSUME NEW t \in 0..w.s PROVE ddata'[k][t] = {w.data}
        <5>1. CASE t = w.s
          BY <3>1, <5>1
        <5>2. CASE t # w.s
          <6>1. t \in 0..(w.s - 1)
            BY <3>2, <5>2
          <6> QED BY <1>9, <3>2, <3>3, <6>1
        <5> QED BY <5>1, <5>2
      <4> QED BY <4>1
    <3>5. Size(w.data) \in Nat /\ Size(w.data) <= SlotSectors
      BY <1>4, SizeBound, Sizes
    <3>6. CASE MoreSectors(w.data, w.s)
      <4>1. w' = [w EXCEPT !.s = @ + 1] /\ pc' = "data"
        BY <1>1, <1>3, <2>2, <3>6
      <4>2. w.s + 1 \in Sectors
        BY <3>2, <3>5, <3>6, Sizes DEF MoreSectors, Sectors
      <4>3. /\ w' \in [name : Names, e : Files, data : Contents, s : Sectors]
            /\ w'.name = w.name /\ w'.e = w.e /\ w'.data = w.data /\ w'.s = w.s + 1
        BY <1>4, <4>1, <4>2
      <4>4. TypeInv'
        BY <1>2, <1>9, <2>0, <4>1, <4>3 DEF TypeInv
      <4>5. MountInv'
        BY <1>1, <1>2, <2>0, <4>1 DEF MountInv, Mounted
      <4>6. \A t \in 0..(w'.s - 1) : ddata'[k][t] = {w.data}
        <5>1. w'.s - 1 = w.s
          BY <3>2, <4>3
        <5> QED BY <3>4, <5>1
      <4>7. WriteInv'
        BY <1>1, <1>2, <2>0, <4>1, <4>3, <4>6 DEF WriteInv, Busy, k
      <4> QED BY <4>4, <4>5, <4>7
    <3>7. CASE ~MoreSectors(w.data, w.s)
      <4>1. w' = w /\ pc' = "dir"
        BY <1>3, <2>2, <3>7
      <4>2. \A t \in 0..(Size(w.data) - 1) : t \in 0..w.s
        BY <3>2, <3>5, <3>7 DEF MoreSectors
      <4>3. TypeInv'
        BY <1>1, <1>2, <1>9, <2>0, <4>1 DEF TypeInv, Busy
      <4>4. MountInv'
        BY <1>1, <1>2, <2>0, <4>1 DEF MountInv, Mounted
      <4>5. WriteInv'
        BY <1>1, <1>2, <2>0, <3>4, <4>1, <4>2 DEF WriteInv, Busy, k
      <4> QED BY <4>3, <4>4, <4>5
    <3> QED BY <3>6, <3>7
  <2>3. r.rc = 0 \/ r.rc # 0
    OBVIOUS
  <2> QED BY <2>1, <2>2, <2>3
<1> QED BY <1>10, <1>11, <1>12 DEF IndInv

LEMMA WriteDirKeeps == ASSUME MetaWorks, IndInv, WriteDir PROVE IndInv'
<1> DEFINE z == Size(w.data)
<1>1. pc = "dir" /\ Busy /\ Mounted
  BY DEF WriteDir, Busy, Mounted
<1>2. /\ dir' = [dir EXCEPT ![w.e].size = z] /\ pc' = "idle"
      /\ acked' = [acked EXCEPT ![w.name] = w.data]
      /\ super' = super /\ dsuper' = dsuper /\ ddata' = ddata
  BY DEF WriteDir
<1>3. ddir' = {dir'}
  <2>1. \E r \in ata_write("dir", ddir, dir') : ddir' = r.sector
    BY DEF WriteDir
  <2> QED BY <2>1, MetaTransfers
<1>4. w.e \in Files /\ w.data \in Contents /\ w.name \in Names
  BY <1>1 DEF IndInv, TypeInv
<1>5. z \in Nat
  BY <1>4, SizeBound, Sizes
<1>6. dir \in DirType /\ acked \in [Names -> Contents \cup {None}]
  BY DEF IndInv, TypeInv
<1> HIDE DEF z
<1>7. dir' \in DirType /\ dir'[w.e].size = z
  BY <1>2, <1>4, <1>5, <1>6 DEF DirType, EntryType
<1>used. \A i \in Files : dir'[i].used <=> dir[i].used
  BY <1>2, <1>4, <1>5, <1>6 DEF DirType, EntryType
<1>name. \A i \in Files : dir'[i].name = dir[i].name
  BY <1>2, <1>4, <1>5, <1>6 DEF DirType, EntryType
<1>start. \A i \in Files : dir'[i].start = dir[i].start
  BY <1>2, <1>4, <1>5, <1>6 DEF DirType, EntryType
<1>rest. \A i \in Files : i # w.e => dir'[i] = dir[i]
  BY <1>2, <1>4, <1>5, <1>6 DEF DirType, EntryType
<1>8. /\ super.magic /\ super \in dsuper /\ dsuper = {super}
      /\ Packed(dir) /\ Short(dir) /\ Separate(dir, super.next)
  BY <1>1 DEF IndInv, MountInv, DiskInv
<1>9. /\ Packed(dir') /\ Short(dir') /\ Separate(dir', super.next) /\ Extends(dir', dir')
  <2>1. \A i \in Files : \A j \in 0..(i - 1) : j \in Files
    BY Sizes DEF Files
  <2>2. Packed(dir')
    BY <1>used, <1>8, <2>1 DEF Packed
  <2>3. Short(dir') /\ Separate(dir', super.next) /\ Extends(dir', dir')
    BY <1>used, <1>name, <1>start, <1>8 DEF Short, Separate, Extends
  <2> QED BY <2>2, <2>3
<1>10. TypeInv'
  <2>1. acked' \in [Names -> Contents \cup {None}]
    BY <1>2, <1>4, <1>6
  <2> QED BY <1>2, <1>3, <1>7, <2>1 DEF IndInv, TypeInv, Busy
<1>11. DiskInv'
  BY <1>2, <1>3, <1>8, <1>9 DEF DiskInv
<1>12. MountInv'
  BY <1>2, <1>3, <1>8, <1>9 DEF MountInv, Mounted
<1>13. WriteInv'
  BY <1>2 DEF WriteInv, Busy
<1>14. ASSUME NEW n, NEW i \in find(dir, n) PROVE i \in find(dir', n)
  <2>1. /\ i \in Files /\ dir[i].used /\ dir[i].name = n
        /\ \A j \in 0..(i - 1) : ~(dir[j].used /\ dir[j].name = n)
    BY FindMeans
  <2>2. \A j \in 0..(i - 1) : j \in Files
    BY <2>1, Sizes DEF Files
  <2> QED BY <1>used, <1>name, <2>1, <2>2, FindMeans
<1>15. KeptInv'
  <2>1. ASSUME NEW n \in Names \ Long, acked'[n] # None PROVE Reads(ddata, dir', n, acked'[n])
    <3>1. CASE n = w.name
      <4>1. /\ w.e \in find(dir, n)
            /\ \A t \in 0..(z - 1) : ddata[dir[w.e].start][t] = {w.data}
        BY <1>1, <3>1 DEF IndInv, WriteInv, z
      <4>2. acked'[n] = w.data
        BY <1>2, <1>4, <1>6, <3>1
      <4>3. w.e \in find(dir', n) /\ dir'[w.e].size = z /\ dir'[w.e].start = dir[w.e].start
        BY <1>4, <1>7, <1>start, <1>14, <4>1
      <4> QED BY <4>1, <4>2, <4>3 DEF Reads, z
    <3>2. CASE n # w.name
      <4>1. acked'[n] = acked[n] /\ acked[n] # None
        BY <1>2, <1>6, <2>1, <3>2
      <4>2. PICK d : ddir = {d}
        BY DEF IndInv, DiskInv
      <4>3. Reads(ddata, d, n, acked[n])
        BY <4>1, <4>2 DEF IndInv, KeptInv
      <4>4. PICK i \in find(d, n) :
              /\ d[i].size = Size(acked[n])
              /\ \A s \in 0..(Size(acked[n]) - 1) : ddata[d[i].start][s] = {acked[n]}
        BY <4>3 DEF Reads
      <4>5. i # w.e /\ i \in find(dir, n) /\ dir[i] = d[i]
        BY <1>1, <4>1, <4>2, OtherFilesKept
      <4>6. i \in find(dir', n) /\ dir'[i] = d[i]
        <5>1. i \in Files
          BY <4>5, FindMeans
        <5> QED BY <1>rest, <1>14, <4>5, <5>1
      <4> QED BY <4>1, <4>4, <4>6 DEF Reads
    <3> QED BY <3>1, <3>2
  <2> QED BY <1>2, <1>3, <1>8, <2>1 DEF KeptInv
<1> QED BY <1>10, <1>11, <1>12, <1>13, <1>15 DEF IndInv

LEMMA NextInv == ASSUME MetaWorks PROVE IndInv /\ [Next]_vars => IndInv'
<1> SUFFICES ASSUME IndInv, [Next]_vars PROVE IndInv'
  OBVIOUS
<1>1. CASE UNCHANGED vars
  <2>1. /\ super' = super /\ dir' = dir /\ pc' = pc /\ w' = w
        /\ dsuper' = dsuper /\ ddir' = ddir /\ ddata' = ddata /\ acked' = acked
        /\ UNCHANGED <<diskVars, acked>>
    BY <1>1 DEF vars, diskVars
  <2>2. TypeInv' /\ MountInv'
    BY <2>1 DEF IndInv, TypeInv, MountInv, Busy, Mounted
  <2>3. WriteInv'
    BY <2>1 DEF IndInv, WriteInv, Busy
  <2> QED BY <2>1, <2>2, <2>3, SameDisk DEF IndInv
<1> QED BY <1>1, MountKeeps, FormatKeeps, RewriteKeeps, NewFileKeeps, WriteSuperKeeps,
           WriteDataKeeps, WriteDirKeeps DEF Next

(* Everything the file system keeps in memory and on the disk fits         *)
(* together, through crashes at any point and failing data writes.         *)
THEOREM Consistent == ASSUME MetaWorks PROVE Spec => []IndInv
BY InitInv, NextInv, PTL DEF Spec

(* No two files ever share a slot, in memory or on the disk.               *)
THEOREM SlotsApart == ASSUME MetaWorks PROVE Spec => []SlotsSeparate
<1>1. IndInv => SlotsSeparate
  BY DEF IndInv, DiskInv, MountInv, SlotsSeparate
<1> QED BY <1>1, Consistent, PTL

(* What fs_write acknowledged can be read, now and after a crash.          *)
THEOREM WritesDurable == ASSUME MetaWorks PROVE Spec => []Durable
<1>1. IndInv => Durable
  <2> SUFFICES ASSUME IndInv, NEW n \in Names \ Long, acked[n] # None
               PROVE  /\ \A s \in dsuper : s.magic
                      /\ \A d \in ddir : fs_read(d, n, acked[n])
                      /\ Mounted => fs_read(dir, n, acked[n])
    BY DEF Durable
  <2>1. /\ \A s \in dsuper : s.magic
        /\ \A d \in ddir : Reads(ddata, d, n, acked[n])
    BY DEF IndInv, KeptInv
  <2>2. ASSUME Mounted PROVE Reads(ddata, dir, n, acked[n])
    <3>1. PICK d \in ddir : Packed(d) /\ Extends(dir, d)
      BY <2>2 DEF IndInv, DiskInv, MountInv
    <3>2. PICK i \in find(d, n) :
            /\ d[i].size = Size(acked[n])
            /\ \A s \in 0..(Size(acked[n]) - 1) : ddata[d[i].start][s] = {acked[n]}
      BY <2>1, <3>1 DEF Reads
    <3>3. i \in find(dir, n) /\ dir[i] = d[i]
      BY <3>1, FoundAgain
    <3> QED BY <3>2, <3>3 DEF Reads
  <2> QED BY <2>1, <2>2, ReadsNow
<1> QED BY <1>1, Consistent, PTL
=============================================================================
