-------------------------------- MODULE Exec -------------------------------
(***************************************************************************)
(* Running a program in ring 3: the shell's exec, user and fault commands  *)
(* (kernel/shell.c), the ELF loader (kernel/elf.c), the argument block     *)
(* (kernel/args.c), the permissions of the user zone (kernel/paging.c),    *)
(* the way into ring 3 and the two ways back (kernel/usermode.c,           *)
(* kernel/ring3.asm, kernel/isr.c), the system calls that reach into the   *)
(* program's memory (kernel/syscall.c), and the kernel's own prints, which *)
(* are stores into the user zone too: the text screen lies in it           *)
(* (kernel/screen.c).                                                      *)
(*                                                                         *)
(* Memory is a row of cells, PageCells of them to a page.  A cell is a     *)
(* piece of memory smaller than a page: what it holds is a tag that says   *)
(* where its bytes came from.  The argument block is the one cell below    *)
(* StackTop.  Addresses and sizes are counted in cells; Word cells are the *)
(* whole address space, where 32-bit sums wrap.                            *)
(*                                                                         *)
(* The page fault handler first tries demand paging and copy-on-write      *)
(* (Vmm.tla); in the kernel's directory, which programs run in, neither    *)
(* applies.                                                                *)
(***************************************************************************)
EXTENDS Integers, Sequences, FiniteSets, Functions

CONSTANTS Word,           \* cells of the address space
          PageCells,      \* cells of a page
          ZoneStart,      \* USER_ZONE_START, which is also USER_LOAD_ADDR
          ZoneEnd,        \* USER_ZONE_END
          StackTop,       \* USER_STACK_TOP
          HeapBase,       \* USER_HEAP_BASE
          HeapEnd,        \* USER_HEAP_END
          Video,          \* the cells of the text screen at VIDEO_MEMORY
          Rom,            \* cells of the zone that are no memory
          ArgMax,         \* ARG_MAX
          ArgBytes,       \* ARG_BYTES
          Images,         \* the files that can be executed
          Bundled,        \* user_prog
          Lines,          \* command lines: the lengths of their words
          Stores,         \* bound: the cells a program stores to
          Pointers,       \* bound: the pointers it passes to the kernel
          Lengths         \* bound: the lengths it passes to the kernel

ASSUME ExecAssumption ==
  /\ {Word, PageCells} \subseteq Nat \ {0}
  /\ {ZoneStart, ZoneEnd, StackTop, HeapBase, HeapEnd} \subseteq 1..(Word - 1)
  /\ ZoneStart < HeapBase /\ HeapBase < HeapEnd
  /\ HeapEnd < StackTop /\ StackTop < ZoneEnd
  /\ \A a \in {ZoneStart, ZoneEnd, StackTop} : a % PageCells = 0

Cells == 0..(Word - 1)
Zone == ZoneStart..(ZoneEnd - 1)
PageOf(c) == c \div PageCells
ZonePages == {PageOf(c) : c \in Zone}
ArgCell == StackTop - 1

(* The part of the zone that is no plain memory (usermode.h): the text     *)
(* screen, which fills less than one page, and ROM, where stores are       *)
(* dropped.  The BIOS is above the screen.                                 *)
ASSUME HardwareAssumption ==
  /\ Video \subseteq Zone /\ Rom \subseteq Zone \ Video
  /\ \A c, d \in Video : PageOf(c) = PageOf(d)
  /\ \E r \in Rom : \A c \in Video : c < r

Ram == Cells \ (Video \cup Rom)

(* n cells from a on, as the CPU counts them.                              *)
Span(a, n) == {(a + k) % Word : k \in 0..(n - 1)}

(* What a cell can hold.  Only some of it has a zero byte in it.           *)
Junk == <<"junk">>
KernelData == <<"kernel">>
Bios == <<"rom">>
Text == <<"text">>
Zeros == <<"zero">>
Data == <<"data">>
ArgBlock(argc) == <<"args", argc>>
FileCell(f, o) == <<"file", f.name, o>>
HasNul(v) == v[1] \in {"kernel", "rom", "zero", "args"}

VARIABLES pc,         \* where the kernel or the program is
          cmd,        \* the command: its name, its image and its line
          mem,        \* memory
          wr,         \* first_page_table: the zone's pages with PAGE_RW
          armed,      \* fault_armed
          fctx, kctx, \* fault_recovery_ctx, kernel_ctx: whose frame it is,
                      \* and the saved interrupt flag
          intr,       \* the interrupt flag
          faulted,    \* g_user_faulted
          self,       \* proc_current(): process 0, or 1, the program's own
          brk,        \* brk of the two
          halted,     \* isr_handler found no recovery armed, or faults itself
          strayed,    \* a system call touched memory outside the zone
          ended,      \* how the last program really ended
          report      \* what run_user_at_sp said of it

faultVars == <<armed, faulted, halted, intr>>
ctxVars == <<fctx, kctx>>
procVars == <<self, brk>>
obsVars == <<ended, report, strayed>>
vars == <<pc, cmd, mem, wr, faultVars, ctxVars, procVars, obsVars>>

NoContext == [frame |-> "none", eflags |-> FALSE]
NoCommand == [name |-> "none", image |-> Bundled, line |-> <<>>]

(* paging_install, clear_screen, and process 0, whose brk nobody sets.     *)
Init == /\ pc = "shell"
        /\ cmd = NoCommand
        /\ mem = [c \in Cells |-> CASE c \in Video -> Text
                                     [] c \in Rom -> Bios
                                     [] c \in Zone \ (Video \cup Rom) -> Junk
                                     [] c \notin Zone -> KernelData]
        /\ wr = ZonePages
        /\ armed = FALSE /\ faulted = FALSE /\ halted = FALSE
        /\ intr = TRUE
        /\ fctx = NoContext /\ kctx = NoContext
        /\ self = 0
        /\ brk = [i \in {0, 1} |-> 0]
        /\ strayed = FALSE
        /\ ended = "none" /\ report = "none"

-----------------------------------------------------------------------------
(* save_context in the frame of run_user_at_sp or of the fault command,    *)
(* and restore_context, which goes on after it with the flags of then.     *)
save_context(frame) == [frame |-> frame, eflags |-> intr]

Resumed(ctx) == IF ctx.frame = "run" THEN "returned" ELSE "recovered"

restore_context_NoPopf(ctx) == /\ pc' = Resumed(ctx)
                               /\ intr' = FALSE

restore_context(ctx) == /\ pc' = Resumed(ctx)
                        /\ intr' = ctx.eflags

(* What memory m becomes by storing new in some cells.                     *)
Stored(m, new, cells) == [c \in Cells |-> IF c \in cells \ Rom THEN new[c] ELSE m[c]]

(* What the screen can show after a print: text at the cursor, and what    *)
(* was there before where it was, or further up.                           *)
Shown(m) == {new \in [Video -> {Text} \cup {m[c] : c \in Video}] :
               \A c \in Video : new[c] = Text \/ \E d \in Video : d >= c /\ new[c] = m[d]}

(* CR0.WP makes stores in ring 0 obey the permissions w as well.           *)
Obeys(cells, w) == \A c \in cells \cap Zone : PageOf(c) \in w

(* An exception clears the interrupt flag on its way to the handler, which *)
(* finds memory m.  It prints before it looks whether a recovery is armed: *)
(* when the screen's page is read-only it faults there, again and again.   *)
isr_handler(m, w) ==
  \/ /\ Obeys(Video, w)
     /\ \E new \in Shown(m) : mem' = Stored(m, new, Video)
     /\ armed' = FALSE
     /\ faulted' = (faulted \/ armed)
     /\ halted' = ~armed
     /\ \/ armed /\ restore_context(fctx)
        \/ ~armed /\ intr' = FALSE /\ UNCHANGED pc
  \/ /\ ~Obeys(Video, w)
     /\ mem' = m
     /\ halted' = TRUE /\ intr' = FALSE
     /\ UNCHANGED <<pc, armed, faulted>>

(* A store in ring 0, upwards through the cells in the domain of new.      *)
(* Without a fault the kernel goes on at next; at a fault it has stored    *)
(* what comes before.                                                      *)
Upto(new, w) == {c \in DOMAIN new : \A d \in DOMAIN new : d <= c => Obeys({d}, w)}

KernelStore(new, w, next) ==
  \/ /\ Obeys(DOMAIN new, w)
     /\ mem' = Stored(mem, new, DOMAIN new)
     /\ pc' = next
     /\ UNCHANGED faultVars
  \/ /\ ~Obeys(DOMAIN new, w)
     /\ isr_handler(Stored(mem, new, Upto(new, w)), w)

kprint(next) == \E new \in Shown(mem) : KernelStore(new, wr, next)

-----------------------------------------------------------------------------
(* elf_validate: the identification (magic, class, type and machine), the  *)
(* program header table and the file part of every segment.  Its sums are  *)
(* made in 64 bits.                                                        *)
ValidSegment(f, s) == /\ s.memsz >= s.filesz
                      /\ s.offset + s.filesz <= f.size

elf_validate(f) == /\ f.ident
                   /\ f.ph # <<>>
                   /\ f.phoff + Len(f.ph) <= f.size
                   /\ \A i \in DOMAIN f.ph : f.ph[i].load => ValidSegment(f, f.ph[i])
                   /\ \E i \in DOMAIN f.ph : f.ph[i].load

(* The segments elf_load and elf_protect look at.                          *)
Segments(f) == {i \in DOMAIN f.ph : f.ph[i].load /\ f.ph[i].memsz # 0}
SegCells(f, i) == Span(f.ph[i].vaddr, f.ph[i].memsz)

(* elf_load's two checks, before it copies anything.                       *)
InWindow_Wraps(f, i) ==
  /\ f.ph[i].vaddr >= ZoneStart
  /\ (f.ph[i].vaddr + f.ph[i].memsz) % Word <= StackTop

InWindow(f, i) == /\ f.ph[i].vaddr >= ZoneStart
                  /\ f.ph[i].vaddr + f.ph[i].memsz <= StackTop

Loadable(f) == /\ \A i \in Segments(f) : InWindow(f, i)
               /\ f.entry >= ZoneStart /\ f.entry < StackTop

(* elf_load's copy: segment after segment, so the last one to cover a cell *)
(* decides; the file's cells, then zeros.                                  *)
SegValue_NoBss(f, i, c) == FileCell(f, f.ph[i].offset + (c - f.ph[i].vaddr))

SegValue(f, i, c) == LET k == (c - f.ph[i].vaddr) % Word
                     IN  IF k < f.ph[i].filesz
                         THEN FileCell(f, f.ph[i].offset + k) ELSE Zeros

LoadedElf(f) ==
  [c \in UNION {SegCells(f, i) : i \in Segments(f)} |->
     LET i == CHOOSE i \in Segments(f) :
                /\ c \in SegCells(f, i)
                /\ \A j \in Segments(f) : c \in SegCells(f, j) => j <= i
     IN  SegValue(f, i, c)]

LoadedFlat(f) == [c \in Span(ZoneStart, f.size) |-> FileCell(f, c - ZoneStart)]

Loaded(f) == IF elf_validate(f) THEN LoadedElf(f) ELSE LoadedFlat(f)

(* Headers hold unsigned numbers; a flat binary fits below the heap (a     *)
(* file has at most 16 KB), and the bundled one is flat.                   *)
ASSUME ImagesAssumption ==
  /\ \A f \in Images \cup {Bundled} :
       /\ f.size \in Nat
       /\ Len(f.ph) \in Nat /\ DOMAIN f.ph = 1..Len(f.ph)
       /\ \A i \in DOMAIN f.ph :
            {f.ph[i].vaddr, f.ph[i].offset, f.ph[i].filesz, f.ph[i].memsz} \subseteq Nat
       /\ ~elf_validate(f) => ZoneStart + f.size <= HeapBase
  /\ ~elf_validate(Bundled)
  /\ Pointers \subseteq Nat /\ Lengths \subseteq Nat

(* args_build: at most ArgMax words, each with its terminator; a text that *)
(* does not fit is refused, and then the shell passes no arguments at all. *)
Argc(line) == IF Len(line) < ArgMax THEN Len(line) ELSE ArgMax

ArgsFit(line) ==
  SumFunctionOnSet([i \in 1..Argc(line) |-> line[i] + 1], 1..Argc(line)) <= ArgBytes

args_build(line) == ArgBlock(IF ArgsFit(line) THEN Argc(line) ELSE 0)

(* paging_set_user_writable: the pages a range touches, within the zone.   *)
PagesOf_LastLost(addr, len) ==
  {p \in ZonePages : p >= addr \div PageCells /\ p < (addr + len) \div PageCells}

PagesOf(addr, len) ==
  {p \in ZonePages : /\ p >= addr \div PageCells
                     /\ p < (addr + len + PageCells - 1) \div PageCells}

ReadOnlySegments(f) == {i \in Segments(f) : ~f.ph[i].writable}

elf_protect(f) ==
  wr \ UNION {PagesOf(f.ph[i].vaddr, f.ph[i].memsz) : i \in ReadOnlySegments(f)}

paging_reset_user_zone == ZonePages

-----------------------------------------------------------------------------
(* exec: the file was found.  proc_begin_user gives the program a process  *)
(* with an empty heap, unless the table is full.                           *)
proc_begin_user == \/ self' = 1 /\ brk' = [brk EXCEPT ![1] = HeapBase]
                   \/ UNCHANGED procVars

Exec(f, line) == /\ pc = "shell" /\ ~halted
                 /\ proc_begin_user
                 /\ cmd' = [name |-> "exec", image |-> f, line |-> line]
                 /\ pc' = IF elf_validate(f) THEN "elf" ELSE "flat"
                 /\ UNCHANGED <<mem, wr, faultVars, ctxVars, obsVars>>

(* user: run_user_program runs as process 0.                               *)
User == /\ pc = "shell" /\ ~halted
        /\ kprint("flat")
        /\ cmd' = [name |-> "user", image |-> Bundled, line |-> <<>>]
        /\ UNCHANGED <<wr, ctxVars, procVars, obsVars>>

(* The prompt, the echo of the line and all other commands only print, cat *)
(* also the zero bytes of a file.                                          *)
PrintOnly ==
  /\ pc = "shell" /\ ~halted
  /\ \E new \in [Video -> {Text, Zeros}] : KernelStore(new, wr, "shell")
  /\ UNCHANGED <<cmd, wr, ctxVars, procVars, obsVars>>

(* The zone is made writable and the ELF is loaded, or refused as a whole. *)
ElfLoad ==
  /\ pc = "elf" /\ ~halted
  /\ wr' = paging_reset_user_zone
  /\ \/ /\ Loadable(cmd.image)
        /\ KernelStore(LoadedElf(cmd.image), wr', "loaded")
     \/ /\ ~Loadable(cmd.image)
        /\ pc' = "refused"
        /\ UNCHANGED <<mem, faultVars>>
  /\ UNCHANGED <<cmd, ctxVars, procVars, obsVars>>

(* A flat binary goes to the start of the zone as it is.                   *)
AfterFlat == IF cmd.name = "user" THEN "args" ELSE "loaded"

FlatLoad_NoReset ==
  /\ pc = "flat" /\ ~halted
  /\ KernelStore(LoadedFlat(cmd.image), wr, AfterFlat)
  /\ UNCHANGED <<cmd, wr, ctxVars, procVars, obsVars>>

FlatLoad == /\ pc = "flat" /\ ~halted
            /\ wr' = paging_reset_user_zone
            /\ KernelStore(LoadedFlat(cmd.image), wr', AfterFlat)
            /\ UNCHANGED <<cmd, ctxVars, procVars, obsVars>>

(* exec says what it loaded, over what it loaded where that is the screen, *)
(* or why it refused.                                                      *)
Announce == /\ pc \in {"loaded", "refused"} /\ ~halted
            /\ kprint(IF pc = "loaded" THEN "args" ELSE "finish")
            /\ UNCHANGED <<cmd, wr, ctxVars, procVars, obsVars>>

(* The argument block, written before the permissions are applied.         *)
BuildArgs == /\ pc = "args" /\ ~halted
             /\ KernelStore([c \in {ArgCell} |-> args_build(cmd.line)], wr,
                            IF elf_validate(cmd.image) THEN "protect" ELSE "enter")
             /\ UNCHANGED <<cmd, wr, ctxVars, procVars, obsVars>>

Protect == /\ pc = "protect" /\ ~halted
           /\ wr' = elf_protect(cmd.image)
           /\ pc' = "enter"
           /\ UNCHANGED <<cmd, mem, faultVars, ctxVars, procVars, obsVars>>

(* run_user_at_sp up to the iret of enter_user_mode.                       *)
EnterUser_StaleVerdict ==
  /\ pc = "enter" /\ ~halted
  /\ kctx' = save_context("run") /\ fctx' = kctx'
  /\ armed' = TRUE
  /\ pc' = "ring3" /\ intr' = TRUE
  /\ UNCHANGED <<cmd, mem, wr, faulted, halted, procVars, obsVars>>

EnterUser == /\ pc = "enter" /\ ~halted
             /\ faulted' = FALSE
             /\ kctx' = save_context("run") /\ fctx' = kctx'
             /\ armed' = TRUE
             /\ pc' = "ring3" /\ intr' = TRUE
             /\ UNCHANGED <<cmd, mem, wr, halted, procVars, obsVars>>

(* After either way back to it, and at the end of the fault command.       *)
fault_disarm_Dropped ==
  /\ pc \in {"returned", "disarm"} /\ ~halted
  /\ pc' = IF pc = "returned" THEN "verdict" ELSE "shell"
  /\ cmd' = IF pc = "returned" THEN cmd ELSE NoCommand
  /\ UNCHANGED <<mem, wr, faultVars, ctxVars, procVars, obsVars>>

fault_disarm == /\ pc \in {"returned", "disarm"} /\ ~halted
                /\ armed' = FALSE
                /\ pc' = IF pc = "returned" THEN "verdict" ELSE "shell"
                /\ cmd' = IF pc = "returned" THEN cmd ELSE NoCommand
                /\ UNCHANGED <<mem, wr, faulted, halted, intr, ctxVars, procVars,
                               obsVars>>

(* run_user_at_sp says how the program ended, with no recovery armed.      *)
LeaveUser ==
  /\ pc = "verdict" /\ ~halted
  /\ kprint(IF cmd.name = "exec" THEN "finish" ELSE "shell")
  /\ report' = IF halted' THEN report ELSE IF faulted THEN "fault" ELSE "exit"
  /\ cmd' = IF pc' = "shell" THEN NoCommand ELSE cmd
  /\ UNCHANGED <<wr, ctxVars, procVars, strayed, ended>>

(* proc_end_user, after the program ran and after it was refused.          *)
Finish == /\ pc = "finish" /\ ~halted
          /\ self' = 0 /\ brk' = [brk EXCEPT ![1] = 0]
          /\ pc' = "shell"
          /\ cmd' = NoCommand
          /\ UNCHANGED <<mem, wr, faultVars, ctxVars, obsVars>>

-----------------------------------------------------------------------------
(* The fault command: its own frame is the one to come back to.            *)
FaultCommand == /\ pc = "shell" /\ ~halted
                /\ kprint("arm")
                /\ cmd' = [name |-> "fault", image |-> Bundled, line |-> <<>>]
                /\ UNCHANGED <<wr, ctxVars, procVars, obsVars>>

Arm == /\ pc = "arm" /\ ~halted
       /\ fctx' = save_context("command")
       /\ armed' = TRUE
       /\ pc' = "probe"
       /\ UNCHANGED <<cmd, mem, wr, kctx, faulted, halted, intr, procVars, obsVars>>

Probe == /\ pc = "probe" /\ ~halted
         /\ isr_handler(mem, wr)
         /\ UNCHANGED <<cmd, wr, ctxVars, procVars, obsVars>>

Recovered == /\ pc = "recovered" /\ ~halted
             /\ kprint("disarm")
             /\ UNCHANGED <<cmd, wr, ctxVars, procVars, obsVars>>

-----------------------------------------------------------------------------
(* The program.  Outside the zone every page is supervisor-only or absent, *)
(* so a store there faults like one to a read-only page.                   *)
InRing3 == pc = "ring3" /\ ~halted

Store(c) == /\ InRing3
            /\ \/ /\ c \in Zone /\ PageOf(c) \in wr
                  /\ mem' = Stored(mem, [d \in {c} |-> Data], {c})
                  /\ UNCHANGED <<pc, faultVars, ended>>
               \/ /\ ~(c \in Zone /\ PageOf(c) \in wr)
                  /\ isr_handler(mem, wr)
                  /\ ended' = "fault"
            /\ UNCHANGED <<cmd, wr, ctxVars, procVars, report, strayed>>

(* SYS_EXIT: user_exit resumes kernel_ctx.                                 *)
SysExit == /\ InRing3
           /\ restore_context(kctx)
           /\ ended' = "exit"
           /\ UNCHANGED <<cmd, mem, wr, armed, faulted, halted, ctxVars, procVars,
                          report, strayed>>

(* in_user_zone adds in 64 bits; user_string_ok looks for the terminator.  *)
in_user_zone(p, len) == p >= ZoneStart /\ p + len <= ZoneEnd

user_string_ok(p) == /\ in_user_zone(p, 1)
                     /\ \E q \in p..(ZoneEnd - 1) : HasNul(mem[q])

(* What the kernel reads of a string: all up to its terminator.            *)
StringCells(p) == {c \in p..(Word - 1) : \A q \in p..(c - 1) : ~HasNul(mem[q])}

touch(cells) == strayed' = (strayed \/ ~(cells \subseteq Zone))

(* What kprint reads of one: a terminator that is on the screen itself may *)
(* be printed over before kprint comes to it.                              *)
PrintedCells(p) ==
  {c \in p..(Word - 1) : \A q \in p..(c - 1) : q \in Video \/ ~HasNul(mem[q])}

(* SYS_WRITE prints a string, unless there is nothing in it that is shown; *)
(* SYS_FWRITE reads a name and a buffer.                                   *)
SysWrite(p) ==
  /\ InRing3
  /\ \/ /\ user_string_ok(p)
        /\ touch(PrintedCells(p))
        /\ kprint("ring3") \/ UNCHANGED <<pc, mem, faultVars>>
     \/ /\ ~user_string_ok(p)
        /\ UNCHANGED <<pc, mem, faultVars, strayed>>
  /\ ended' = IF pc' = "ring3" THEN ended ELSE "fault"
  /\ UNCHANGED <<cmd, wr, ctxVars, procVars, report>>

SysFwrite(p, buf, len) ==
  /\ InRing3
  /\ touch(IF user_string_ok(p) /\ in_user_zone(buf, len)
           THEN StringCells(p) \cup Span(buf, len) ELSE {})
  /\ UNCHANGED <<pc, cmd, mem, wr, faultVars, ctxVars, procVars, ended, report>>

(* SYS_FREAD: fs_read stores as much of the file as there is, at most len; *)
(* a store to a read-only page ends the program from inside the kernel.    *)
SysFread(p, buf, len) ==
  /\ InRing3
  /\ \/ /\ user_string_ok(p) /\ in_user_zone(buf, len)
        /\ \E n \in 0..len :
             /\ touch(StringCells(p) \cup Span(buf, n))
             /\ KernelStore([c \in Span(buf, n) |-> Data], wr, "ring3")
        /\ ended' = IF pc' = "ring3" THEN ended ELSE "fault"
     \/ /\ ~(user_string_ok(p) /\ in_user_zone(buf, len))
        /\ UNCHANGED <<pc, mem, faultVars, ended, strayed>>
  /\ UNCHANGED <<cmd, wr, ctxVars, procVars, report>>

(* SYS_SBRK: the sum is one of 32 bits.                                    *)
Break == IF brk[self] = 0 THEN HeapBase ELSE brk[self]

Grown_NoEnd(incr) == (Break + incr) % Word >= Break /\ (Break + incr) % Word < ZoneEnd
Grown(incr) == (Break + incr) % Word >= Break /\ (Break + incr) % Word <= HeapEnd

SysSbrk(incr) == /\ InRing3
                 /\ brk' = IF incr # 0 /\ Grown(incr)
                           THEN [brk EXCEPT ![self] = (Break + incr) % Word]
                           ELSE brk
                 /\ UNCHANGED <<pc, cmd, mem, wr, faultVars, ctxVars, self, obsVars>>

Program == \/ \E c \in Stores : Store(c)
           \/ SysExit
           \/ \E p \in Pointers : SysWrite(p)
           \/ \E p, b \in Pointers, n \in Lengths : SysFwrite(p, b, n)
           \/ \E p, b \in Pointers, n \in Lengths : SysFread(p, b, n)
           \/ \E n \in Lengths : SysSbrk(n)

(* for (;;) hlt, with interrupts off, or fault after fault.                *)
Halt == halted /\ UNCHANGED vars

Kernel == \/ ElfLoad \/ FlatLoad \/ Announce \/ BuildArgs \/ Protect
          \/ EnterUser \/ fault_disarm \/ LeaveUser \/ Finish
          \/ Arm \/ Probe \/ Recovered \/ Halt

Next == \/ \E f \in Images, l \in Lines : Exec(f, l)
        \/ User \/ FaultCommand \/ PrintOnly
        \/ Kernel \/ Program

Spec == Init /\ [][Next]_vars

-----------------------------------------------------------------------------
Running == pc \in {"enter", "ring3"}
IsElf == elf_validate(cmd.image)
OwnSegments == IF IsElf THEN Segments(cmd.image) ELSE {}

(* Whatever program runs and however it ends, the kernel survives it       *)
(* (usermode.c:8-10).                                                      *)
NeverHalts == ~halted

(* The kernel faults with no recovery armed, or in the handler itself,     *)
(* only on a screen that elf_protect has locked: whatever ran before, and  *)
(* whatever image comes next, all its other stores into the zone meet      *)
(* writable pages (the order shell.c keeps: reset, load, arguments,        *)
(* permissions) or a recovery that is armed.                               *)
HaltsOnlyLocked == halted => \E c \in Video : PageOf(c) \notin wr

(* Programs run, and the shell waits for its next command, with interrupts *)
(* on, whichever way the last program or the fault command came back: both *)
(* ways leave an interrupt gate without an iret, "restore eflags           *)
(* (re-enables interrupts)" (ring3.asm:59).  With interrupts off the       *)
(* shell's hlt would never end.                                            *)
InterruptsOn == pc \in {"shell", "ring3"} /\ ~halted => intr

(* A recovery that is armed, and the context SYS_EXIT returns to, belong   *)
(* to a stack frame that has not returned: run_user_at_sp's while the      *)
(* program runs, the command's in fault (isr.c: "a stack frame that        *)
(* survives until the fault").                                             *)
FrameLive(ctx) ==
  \/ ctx.frame = "run" /\ pc \in {"ring3", "returned", "verdict"}
  \/ ctx.frame = "command" /\ pc \in {"probe", "recovered", "disarm"}

RecoveryLive == /\ armed => FrameLive(fctx)
                /\ pc = "ring3" => armed /\ FrameLive(kctx)

(* What run_user_at_sp reports is how the program ended, although the flag *)
(* it looks at is also set by the fault command and by earlier programs.   *)
ReportTrue == pc \notin {"ring3", "returned", "verdict"} => report = ended

(* A program starts on what was loaded for it: its file's cells, zeros in  *)
(* its .bss and nothing an earlier program left, and the arguments of its  *)
(* own command line, whichever path of exec or user brought it in.  Only   *)
(* the argument block may lie over its image.  This is said of the cells   *)
(* that are memory: the loader also accepts segments where stores "are     *)
(* dropped or land on the screen" (usermode.h:27-30).                      *)
Bss(f) == (UNION {SegCells(f, i) : i \in Segments(f)})
            \ (UNION {Span(f.ph[i].vaddr, f.ph[i].filesz) : i \in Segments(f)})

StartsFresh ==
  pc = "enter" =>
    /\ \A c \in (DOMAIN Loaded(cmd.image) \cap Ram) \ {ArgCell} :
         mem[c] = Loaded(cmd.image)[c]
    /\ \A c \in (Bss(cmd.image) \cap Ram) \ {ArgCell} : IsElf => mem[c] = Zeros
    /\ ArgCell \in Ram =>
         /\ mem[ArgCell] \in {<<"args", 0>>, <<"args", Argc(cmd.line)>>}
         /\ ArgsFit(cmd.line) => mem[ArgCell] = <<"args", Argc(cmd.line)>>

(* The cells of a read-only segment, where they are memory, keep what was  *)
(* loaded there for as long as the program runs: neither its own stores    *)
(* nor the kernel's on its behalf get through (elf.c: the program is       *)
(* killed "rather than quietly corrupting itself").                        *)
CodeIntact ==
  Running => \A i \in OwnSegments : ~cmd.image.ph[i].writable =>
    \A c \in (SegCells(cmd.image, i) \cap Ram) \ {ArgCell} :
      mem[c] = Loaded(cmd.image)[c]

(* No image, however its headers are made, no system call and no store of  *)
(* a program changes memory outside the user zone, and what the kernel     *)
(* reads and writes for a program lies in it, the whole string and the     *)
(* whole buffer included.                                                  *)
Confined == ~strayed /\ \A c \in Cells \ Zone : mem[c] = KernelData

(* What sbrk has granted to the program that runs is its own: it is        *)
(* neither part of its image nor of the top of its stack, as usermode.h    *)
(* lays the zone out.                                                      *)
HeapSeparate ==
  Running => \A c \in HeapBase..(Break - 1) :
               /\ c \notin DOMAIN Loaded(cmd.image)
               /\ c # ArgCell
=============================================================================
