# TLA+ models of PyroOS

PyroOS is a small 32-bit x86 kernel (C and assembly) with a frame allocator,
address spaces with copy-on-write and demand paging, a process table with
fork/exit/wait, cooperative and preemptive tasks, drivers for timer, keyboard
and ATA disk, a file system, an ELF loader, ring-3 programs and a shell.
This directory models the parts that carry state over time, checks them
with TLC on small instances, and proves theorems about them with TLAPS.

`PROJECT.json` lists the components, the runs, the source lines behind every
definition, the hazards of the code and the theorems.

## The system

One CPU, no SMP.  The kernel runs with interrupts on; an interrupt handler
runs with interrupts off, to its end or until it switches to another task.
What is concurrent is therefore: the timer and keyboard interrupts against
whatever they interrupt; tasks against each other, at `task_yield` and, while
`spin` is armed, at every tick; an access that faults against the page-fault
handler and the TLB; the drive against the driver that polls it and may give
it up; and the disk against a loss of power.

| Component | State | Operations | Used by | Hard behaviour | Correct when |
|---|---|---|---|---|---|
| `pmm.c` | bitmap, reference counts, used count, hint | alloc, free, incref | vmm | sharing, double frees, hint | counts equal references held; first fit; refuses only when full |
| `vmm.c` | directories and tables in frames, CR3, TLB | create, map, unmap, destroy, clone, clone_cow, cow_handle | proc, demand, shell | stale TLB, out of memory half way, last holder | spaces behave like private memories; nothing leaks |
| `demand.c` | regions | region, clear, handle | isr, shell `vm` | a promise that outlives its space | only live spaces are promised anything |
| `isr.c`, `interrupt.asm` | armed recovery, interrupt in service | isr_handler, irq_handler | CPU | fault re-run for ever; recovery into a dead frame; a switch before the handler has ended | a fault is resolved, or the machine stops for a reason; ticks keep coming |
| `proc.c` | table, next_pid, current_idx | alloc, fork, exit, wait, switch_to, begin/end_user | shell `fork`, `cow`, `exec` | exit on one's own page tables, orphans, zombies, failed forks | a tree of processes with private memories; every frame comes back |
| `task.c`, `switch.asm`, `sync.c`, `timer.c` | tasks, current, saved stack pointers, mutex, tick, deadline | yield, exit, preempt_tick, mutex_lock/unlock | shell `tasks`, `spin`, `threads` | preemption anywhere, lost updates, waiting for a holder that yields, tick wrap | no bad stack pointer; mutual exclusion; every demo ends |
| `keyboard.c` | ring, head, tail, shift, extended | IRQ 1 handler, getchar | shell, SYS_READ | no lock between interrupt and reader, full ring, `hlt` race | a bounded queue; every key is read |
| `fs.c` | superblock, directory, slots; copies in memory | init/format, write, read | shell, SYS_FWRITE/FREAD | crash between sectors, failing transfers, long names | acknowledged files survive; slots never overlap |
| `ata.c` | poll counter; the drive's status, command, cache and medium | read, write | fs | a drive that hangs, or answers a command that was given up; a write cache and a power loss | a read that succeeds has the sector's value, a write that succeeds is on the medium, every call returns |
| `screen.c`, `logo.c`, the line editor of `shell.c`, `user/ask.c`, `user/note.c` | cells and cursor, line, history, a program's text | print, erase, scroll, recall, enter | whoever prints or reads | wrapped and scrolled lines, full buffers, the ends of the history | the screen shows what will be run |
| `kheap.c`, `user/umalloc.h` | block lists | malloc, free | kernel demos, programs | fragmentation, size wrap, a break that others move | blocks tile the heap; live blocks never overlap |
| `elf.c`, `args.c`, `usermode.c`, `ring3.asm`, `syscall.c`, `paging.c` | user zone (the text screen and ROM are in it), its permissions, saved contexts, interrupt flag | exec, system calls | shell `exec` | order of writes, prints and protection, leftovers of the last program, fault recovery, pointers from ring 3 | the kernel survives every program; interrupts come back on; programs start fresh, keep their code and stay in the zone |
| `gdt.c`, `idt.c`, `kernel.c`, boot loader | constant tables, start-up | | | | not modelled |

## Modules

Each component has a module with its state, `Init`, one action per operation
and `Spec`; where the component promises something simple, an abstract module
states the promise and a run checks that the component implements it.
`MC*.tla` and the `.cfg` files are the instances for TLC.  Definitions keep the
names of the C functions they model.  Operators with an underscore and a
capital after the name of another one (`Reclaim_HintKept`) are that operator
with a plausible bug; no specification uses them, they show that the property
they are paired with in `PROJECT.json` notices the bug.

| Module | Models | Abstract specification |
|---|---|---|
| `Pmm` | `pmm.c` | `FramePool`: a pool of frames with holders |
| `Vmm` | `vmm.c`, `demand.c`, page faults in `isr.c`, MMU and TLB | `AddressSpaces`: private memories |
| `Proc` (extends `Vmm`) | `proc.c` and the shell commands that use it | `UnixProc`: a tree of processes |
| `Tasks` | `task.c`, `switch.asm`, the mutex of `sync.c`, `timer.c`, `irq_handler` of `isr.c` and its stub | |
| `Keyboard` | `keyboard.c` and the two loops that read from it | `TypeAhead`: a bounded queue |
| `Fs` | `fs.c` on the disk of `Disk` | |
| `Ata` | `ata.c`, and the drive behind its ports | `Disk`: sectors that hold one of a set of values |
| `Screen` | `screen.c`, as operators on a screen | |
| `Terminal` (extends `Screen`) | the line editor and history of `shell.c`, `logo.c`, the reading loops of `ask.c` and `note.c` | `Readline`: an edited line and the commands before it |
| `Exec` | `exec`, `user` and `fault` of `shell.c`, `elf.c`, `args.c`, `usermode.c`, `ring3.asm`, recovery in `isr.c`, permissions in `paging.c`, system calls with pointers | |
| `Heap` | `kheap.c`, and `umalloc.h` over SYS_SBRK | `Arena`: disjoint pieces of a heap |

`PmmProof`, `AtaProof`, `TasksProof`, `ExecProof`, `FsProof`, `HeapProof` and
`ProcProof` extend the module they are named after with the TLAPS proofs about
it; `ProcProof`, which reaches `Vmm` through `Proc`, has the proofs about both.
`ConsoleProof` has those about `Keyboard` and `Terminal`.

### Pmm

A physical address `MANAGED_BASE + i * PAGE_SIZE` is the integer `i`.  The
actions are the three calls, made by callers that hold references (history
variable `held`) or by callers that do not (`Stray`: double frees, reserved
and out-of-range addresses, which the code promises to ignore).  The two
passes of the search are `Scan`; the bit operations are a function to BOOLEAN.

### Vmm and Proc

A frame is a model value with a reference count; `pmm_alloc` returns any free
one, which is what `Pmm` establishes about it, minus the choice of the lowest.
Directories and tables live in frames, with indices 0 and 1 of a directory,
the shared kernel range, left out.  An operation of the kernel is one step:
nothing in `vmm.c` is called from an interrupt other than the page fault, and
the page fault is a step of the access that faults.  `pend` is the access whose
fault has been handled and that the CPU is about to re-run.  The TLB caches the
entries that were used, and may drop any of them at any time.  Running out of
frames is part of every operation: `vmm_map_alloc_fails` loses a data frame
when there is none left for the table (as `vmm.c:91-98` does; `lost` records
it), `vmm_clone_cow_fails` leaves the part of the source it got to read-only.

The spaces of `Vmm` are at most `MaxSpaces`, a bound that `Proc` does not need
(a slot owns a space, so `MAX_PROCS` = 16 bounds them): it stays below the
largest count, 255, at which `pmm_incref` would stop counting.

`vmm_clone_dir` and `vmm_unmap` have no caller in the repository; they are
public and are modelled as calls that anybody may make.  No recovery is armed
while the modelled commands run, so an unresolved fault halts.

`Proc` adds the table.  The shell's `fork` and `cow` commands are fixed
scripts; the model lets their calls come in any order, in the name of whoever
is current.  A space is built while it is not active, and a page is mapped only
where there is none, as the scripts do.  While a program of `exec` runs nothing
else in `proc.c` happens.  `spawn` with no frame left gives a process without
a space (`shell.c:301` does not check), which `proc_switch_to` then refuses.

### Tasks

The saved stack pointer of a task is `new` (from `task_create`), `valid`,
`stale` or `none`; `context_switch` loads what it finds and `wild` records a
bad load.  A cooperative worker runs from one `task_yield` to the next in one
step, since nothing can interrupt it to effect while preemption is off;
`preempt_demo` is split where a tick makes a difference, between the store of
`deadline` and the store of `preempt_enabled`.  The tick counter wraps at
`TickMod` (2^32 in the code).

The timer's interrupt is taken when `IF_flag` is set and the PIC has none in
service.  `irq_handler` sends the End-Of-Interrupt and then calls the driver,
which may switch tasks.  A task that was preempted resumes inside its own
handler, whose `iret` sets the flag; a task that runs for the first time starts
with it clear, until `pworker` sets it.

### Keyboard

`keyboard_callback` is one step, `keyboard_getchar` three (test, load,
advance) and `hlt` a fourth, so that an interrupt can fall between any two.
Scancodes come as a keyboard sends them: a press before its release, `0xE0`
before an extended key, repeats while a key is down.  There are two Shift keys
and one flag.  `TypeAhead` therefore promises the case of the last press or
release of a Shift key, not that of the keys held (see the further
observations).

### Fs

`fs_init` and `fs_write` go sector by sector, and `Crash` can come between any
two.  The disk is that of `Disk`, which `Ata` implements: a sector is the set
of the values it may be found to hold.  The kinds of sector in `Faulty` may
fail to transfer; a read that fails leaves the buffer as it was (zero at boot),
a write that fails adds its value to the set, where it stays until the next
write that succeeds.  The content of a file is a value that each of its sectors
holds.  A name in `Long` has `NAME_LEN` or more characters, and `Cut` says what
`strncpy_z` leaves of it, which may well be the name of another file (in the
instances it is).  The kernel image
overlapping the file system's sectors in a too large build
(`boot.asm:18` loads 120 sectors, `SUPER_LBA` is 99) is not modelled.

### Ata

A step of the driver is one poll of the status register with what follows from
it; `i` counts the polls (`ATA_TIMEOUT` is `Timeout`; `ata_select` polls once
more than the others, as its loop does).  The drive is external: it takes any
time for a command, for ever too, may fail it, may go on with one that the
driver has given up, and keeps written sectors in a cache that reaches the
medium in any order.  Three things are assumed of it: BSY is set by the time
of the first poll after a command, the other bits mean nothing while it is set
(`ata.c:28-29`), and a command that arrives while an older transfer waits for
the host ends that transfer.  A call transfers one sector, as every caller
asks, and the words of a sector are one value.

`May(l)` maps the state to `Disk`: what is on the medium, in the cache, in the
drive's command, and in a write that is under way.  A write given up by the
driver can still reach the sector later; that is why `Disk` leaves a sector
undecided after a failure, and why `Fs` must live with it.

### Screen and Terminal

A screen is its cells and the cursor; every operator of `Screen` takes one and
gives the next.  `Terminal` has the actions of `handle_char`, one for each kind
of key, and those of the reading loops of `ask` and `note`, whose echo goes
through the same screen.  What a command prints is one of `Outputs`; a command
may also clear the screen, show the logo (all of the screen, whatever its
shape) or start one of the two programs.  Colours are left out.  What the user
sees of the line (`Visible`) are the cells between the prompt and the cursor: the
cells before the cursor must read the whole prompt and then the line, so that a
prompt that is overwritten, or text left over in front of the line, is noticed.
The characters of the prompt may be typed too, as the space at the end of
"pyro> " may; in the instance they can.

### Exec

Memory is a row of cells, two to a page in the instance, each with a tag that
says where its bytes came from: the kernel, ROM, text on the screen, a file and
an offset in it, zeros, an argument block, or a store of a program.  `wr` holds
the pages of the zone with the write permission; a store of the kernel that
meets a page without it goes through `isr_handler`, as CR0.WP demands, after
what it had stored before.

The zone is not all memory (`usermode.h:27-30`): `Video` are the cells of the
text screen, `Rom` those where stores are dropped, and the loader accepts
segments over both.  Every print of the kernel is a store to the screen and so
to the zone: `kprint` puts text where the cursor is and may scroll up what was
there (`Shown`).  `isr_handler` prints before it looks whether a recovery is
armed; when the screen's page is read-only it faults itself, and `halted` stands
for that recursion as well as for its final `hlt` loop.  What prints in ring 0:
the commands `user` and `fault`, `exec` after loading (`Announce`), the verdict
on a program (`LeaveUser`, after `fault_disarm`), SYS_WRITE, and the prompt, the
echo and every other command (`PrintOnly`).

A command goes through the steps of its C code in their order (`pc`): reset and
load, announcement, arguments, permissions, ring 3, the return, the disarming,
the verdict, the end of the process.  A saved context is
the name of the frame that saved it and the interrupt flag of then;
`FrameLive` says when that frame still exists.  A system call or an exception
clears the flag, `iret` to ring 3 sets it, and `restore_context` brings back
the saved one.  A program stores anywhere and makes every system call that
takes a pointer; a system call is one step, since the handler runs with
interrupts off (those that turn them on again touch no memory of the program).
A string that SYS_WRITE prints may lie on the screen that it is printed to, so
that its terminator is gone when `kprint` comes to it (`PrintedCells`).
`in_user_zone` and `elf_load` add in 64 bits and therefore without a wrap,
`SYS_SBRK` in 32.  Whether the process table is full when `exec` wants a slot
is left open.  `strayed`, `ended` and `report` only observe.

An image is its identification (one flag for magic, class, type and machine),
its size and its program headers.  An image that fails `elf_validate` runs as
a flat binary, whatever it is.  Flat images fit below the heap.

### Heap

The list of blocks is the sequence of its headers; `next` is the order.  The
kernel's heap and a program's walk it for the first fit, split under the same
condition and merge with the same arithmetic, so one module models both: the
variable `kind`, fixed in `Init`, says which heap a behaviour is about, with its
header, alignment and size.  `kmalloc` refuses when nothing fits, `umalloc`
moves the break; `kfree` merges with the next block, `ufree` walks the list.
Clients free only what they hold: freeing anything else is outside both
interfaces.  `live` records what they hold and how much they asked for.  Sizes
so close to 2^32 that rounding wraps, and programs that call SYS_SBRK
themselves between two `umalloc`s, are left out of the instance (see the
further observations).

## Runs

| Run | Instance | Shows |
|---|---|---|
| `pmm` | 5 slots, 4 managed, counters to 3 | counters, bitmap and used count agree with the references held, first fit, implements `FramePool` |
| `vmm` | 6 frames, 2 directory entries, 1 table entry, 2 values, 1 region | references are exact, the TLB is coherent, writable pages are exclusive, a fault that was handled does not recur, halts are justified, implements `AddressSpaces` (a promise that outlived its space would break that) |
| `proc` | 4 slots, 4 pids, 6 frames, 1 page, 2 values | the CPU runs in its owner's space, every process can be reaped, spaces have one owner, all frames come back, implements `UnixProc` |
| `tasks` | 3 workers, 2 spinners, 3 rounds, 5 ticks | no bad stack pointer, exact counter under the mutex, every spinner gets the CPU, every demo ends |
| `keyboard` | ring of 3, 2 letters, an arrow, Ctrl, two Shift keys, 7 scancodes | implements `TypeAhead`, every character is read |
| `fs` | 2 names and a long one, 2 files, contents of 1 and 2 sectors, 3 slots, data writes may fail | acknowledged files survive, slots are separate |
| `fs_mount` | superblock transfers may fail | violation: a disk that holds files is formatted |
| `exec` | 18 cells, 7 pages of zone (image, heap, screen, ROM, stack), 4 good, 3 refused and 1 flat image, 3 command lines | the kernel halts only over a locked screen, recovery is armed only for a live frame, reports are true, programs start fresh, code is intact, interrupts are on in the shell and in programs, nothing outside the zone is read or written, heap, image and stack are separate |
| `exec_screen` | a read-only segment in the page of the screen | violation: the kernel does not survive the program |
| `heap` | the kernel's heap of 88 bytes with headers of 12, a program's of 136 with headers of 16, four sizes | blocks tile the heap, in-use blocks are the ones held, free blocks of a program never stay side by side, both implement `Arena` |
| `ata` | 2 sectors, 3 values, 2 polls | implements `Disk`, every call returns |
| `terminal` | 2 columns, 3 rows, lines of 3, history of 2, names of 1, texts of 6 characters | the screen shows the line being edited, implements `Readline` |

**Bounds.**  Six frames hold a parent and a child with a page each (directory,
table, data for one, directory, table and a copy for the other), and one more
space than that runs out of memory at every point of every operation, so both
sides of each allocation happen.  Two directory entries let a clone fail
between two tables.  Four slots hold a grandparent, parent and child and let
the table fill up.  A third round of the workers is the first where the order
of a worker's round and another one's exit can differ.  A ring of three is the
smallest that distinguishes full, empty and one in between.  Three slots on the
disk allow a slot that a crash leaked to be followed by two files.  In `exec` two cells to a page are what it takes for a segment to share one,
with another segment, with the arguments or with the screen; one image lies
over the screen and ROM, one locks the screen from beside it.  The stores,
pointers and lengths of a program include both sides of every limit and one
length that wraps.  The heaps have
room for enough blocks that one can be freed between two free ones, and
one size never fits.  Two polls let a call give up between two states of the
drive and the next call start in each of them; two sectors show a write that
lands in the wrong place, three values one that lands too late.  With two
columns a line of three wraps with any prompt, and three rows scroll in the
middle of a line; a text of six characters is longer than the screen is high.

**Fairness.**  `Tasks`: the task that has the CPU executes, and the timer ticks
for ever, where an interrupt that the flag or the PIC holds back is not
enabled: that it gets through is a result.  `Ata`: the driver goes on polling;
the drive owes nothing.
`Keyboard`: the reader runs when it is awake, and the timer ticks for ever
(`timer_install` programs a periodic interrupt and nothing masks it).  None of
them assumes that a key is ever pressed or a command ever given.

**Symmetry** is used in `vmm` and `proc`, over the frames, for safety
properties; the runs that check liveness use none.

## Findings

Each has a run whose expected result is a violation:

- `fs_mount`: a failed read of the superblock is taken for a new disk
  (`fs.c:48-69`).
- `exec_screen`: the loader accepts a read-only segment in the page of the text
  screen (`elf.c:145`, `:182-183`), and then the kernel's own prints fault, with
  recovery disarmed (`usermode.c:63-69`) or in the handler before it recovers
  (`isr.c:149-166`); `usermode.c:10` says "Either way PyroOS survives".

Further observations, met while modelling, that have no run of their own; the
instances of the passing runs stay on this side of them, or their properties
allow for them:

- Names of 20 characters and more are cut when stored (`fs.c:106`) and compared
  whole when looked up (`fs.c:74`), so such a file is never found again and
  each write of it makes another one, although `fs.h:11` says
  "create/overwrite".  The shell accepts names of up to 23 characters.  In `fs`
  one name is long, and is cut to the name of another file; `Durable` is about
  the others, and holds because the first entry of a name is the one found.
- In `note`, Enter on a full text stores no newline but moves `line_start`
  (`note.c:76-77`); from then on nothing can be typed or erased, the line with
  the dot cannot be entered, and the program never ends.  In `terminal` the
  screen and the text still agree in that state, which is what is checked.
- `fs_write` reports nothing of a write that the drive finishes after the
  driver gave it up: the file may change later.  `Durable` therefore speaks of
  a name only until the next write of it begins.
- Deadlines are compared with `>=` on counters that wrap (`task.c:146`,
  `syscall.c:105`), so a deadline set just before the wrap is reached at once.
  In `tasks` the counter stays below `TickMod`.
- One flag stands for two Shift keys, and the release of either clears it
  (`keyboard.c:88-89`), although `keyboard.c:64` calls it "is a Shift key
  currently held": with both down and one released, letters come out small.
  The other half holds: without a Shift key held the flag is clear
  (`ShiftNeverSticks`).
- The loader does not keep an image out of the heap (`elf.c:145`), although
  `usermode.h:32` leaves "the 64 KB from USER_LOAD_ADDR for the program image":
  with a larger .bss, sbrk grants memory that is part of the image, and
  `HeapSeparate` fails.
- The loader accepts segments where there is no memory: what is loaded over the
  screen is printed over before the program starts (`shell.c:401-403`), what is
  loaded into ROM is dropped.  `StartsFresh` and `CodeIntact` therefore speak of
  the cells that are memory.  The stack, below 0xF0000, is in the range that
  `usermode.h:27-30` calls ROM; in the instance it is memory, as
  `whoami`, which reads its arguments from there, needs it to be; the theorems
  cover both.
- A string whose only terminator is on the screen can lose it while `kprint`
  prints it (`screen.c:75`), after `user_string_ok` has seen it.  `Confined`
  holds nevertheless because the BIOS above the screen has a zero byte.
- The results of the superblock and directory writes of `fs_write` are ignored
  (`fs.c:109`, `fs.c:131`): with `"super"` in `Faulty`, `SlotsSeparate` fails,
  with `"dir"`, `Durable` does.  `fs` lets data writes fail.
- Permissions are per page, so a read-only segment takes write permission from
  a writable one on the same page (`elf.c:183`); `user/prog.ld` aligns its data
  to avoid this, other linker scripts need not.
- Rounding a size next to 2^32 wraps (`kheap.c:36`, `umalloc.h:68`, `:88`), and
  a block smaller than asked is returned: `LiveExact` fails with such a size.
- `u_coalesce` takes neighbours in the list for neighbours in memory
  (`umalloc.h:55`), which holds only while `umalloc` is the one caller of
  SYS_SBRK in its program.

## Proofs

The theorems hold for every value of the constants that satisfies the named
assumption of the module, and the hypothesis in the table where there is one.

| Module | Theorem | Statement | Hypothesis |
|---|---|---|---|
| `PmmProof` | `TypeCorrect` | `Spec => []TypeOK` | |
| | `CountsCorrect` | `Spec => []CountsExact` | |
| | `UsedCorrect` | `Spec => []UsedExact` | |
| | `FirstFitCorrect` | `Spec => FirstFit` | |
| | `ImplementsPool` | `Spec => PoolSpec` | |
| `AtaProof` | `CommandMatches` | `Spec => []IndInv` | |
| | `ImplementsDisk` | `Spec => DiskSpec` | |
| `ConsoleProof` | `ReaderSafe` | `Spec => []IndInv` | |
| | `ImplementsQueue` | `Spec => QueueSpec` | |
| | `ShiftNeverSticks` | `Spec => []NotStuck` | |
| | `TermSafe` | `TermSpec => []TermInv` | |
| | `EchoSafe` | `TermSpec => []Echoed` | |
| | `ImplementsReadline` | `TermSpec => ReadlineSpec` | |
| `TasksProof` | `SwitchesSafe` | `Spec => []NoWildSwitch` | |
| | `CounterCorrect` | `Spec => []CounterExact` | |
| | `TotalCorrect` | `Spec => []TotalRight` | |
| | `AllSpinnersRan` | `Spec => []AllSpun` | `SpanEnough` |
| `ExecProof` | `HaltsLocked` | `Spec => []HaltsOnlyLocked` | |
| | `KernelSurvives` | `Spec => []NeverHalts` | `KeepsOffScreen` |
| | `InterruptsComeBack` | `Spec => []InterruptsOn` | |
| | `FramesLive` | `Spec => []RecoveryLive` | |
| | `ReportsTrue` | `Spec => []ReportTrue` | |
| | `ZoneConfines` | `Spec => []Confined` | |
| | `ImageFresh` | `Spec => []StartsFresh` | |
| | `CodeKept` | `Spec => []CodeIntact` | |
| | `HeapOwn` | `Spec => []HeapSeparate` | `KeepsOutOfHeap` |
| `FsProof` | `SlotsApart` | `Spec => []SlotsSeparate` | `MetaWorks` |
| | `WritesDurable` | `Spec => []Durable` | `MetaWorks` |
| `HeapProof` | `HeapTiled` | `Spec => []Tiles` | `NothingWraps` |
| | `ClientsOwn` | `Spec => []LiveExact` | `NothingWraps` |
| | `FullyMerged` | `Spec => []Coalesced` | `NothingWraps` |
| | `ImplementsArena` | `Spec => HeapPromise` | `NothingWraps` |
| `ProcProof` | `VmmInvariant` | `Spec => []VmmInv` | |
| | `ReferencesExact` | `Spec => []RefExact` | |
| | `WritesExclusive` | `Spec => []WriteExclusive` | |
| | `TlbNeverStale` | `Spec => []TlbCoherent` | |
| | `FaultsResolved` | `Spec => []FaultResolved` | |
| | `HaltsJustified` | `Spec => []HaltJustified` | |
| | `ProcInvariant` | `ProcSpec => []ProcInv` | |
| | `CpuOwned` | `ProcSpec => []CpuOwner` | |
| | `ParentsLive` | `ProcSpec => []ParentLive` | |
| | `OneOwner` | `ProcSpec => []SpacesOwned` | |
| | `EverythingReturned` | `ProcSpec => []AllReturned` | |
| | `ProcMemorySafe` | the five properties of `Vmm`, of `ProcSpec` | |
| | `ImplementsSpaces` | `Spec => SpacesSpec` | |
| | `ImplementsUnix` | `ProcSpec => UnixSpec` | |

**Hypotheses.**  Each is a fact about the constants that the code relies on
without checking it; where it fails, so does the property, as a finding or an
observation above says.  The instances of the passing runs satisfy them, except
`KeepsOffScreen`: `exec` has an image that locks the screen.

- `MetaWorks`: superblock and directory transfers do not fail (data transfers
  may); see the observation about `fs.c:109`.  Nothing is proved about
  `FormatsOnlyNew`, which is about transfers that fail.
- `KeepsOutOfHeap`: no segment of an image reaches the heap's region
  (see the observation about `elf.c:145`).
- `KeepsOffScreen`: no image has a read-only segment in the page of the text
  screen (`exec_screen` is about one that does).
- `NothingWraps`: a request with its rounding and header fits in a word, and so
  does the heap with one alignment unit more.
- `SpanEnough`: the demo lasts a tick longer than a turn for each spinner and
  one for the shell (the code: 100 ticks, 2 spinners), and its deadline does
  not wrap.

The named assumptions are weaker: `Pmm` wants `MaxHeld <= RefMax` (a frame has
at most `MAX_PROCS` = 16 holders, a counter goes to 255); `Exec` wants the order
of the regions in `usermode.h` and flat images that end below the heap (a file
has at most `SLOT_SECTORS` sectors, the heap begins far above that), and of the
machine a screen that fits in a page (4000 bytes) and ROM above it; `Fs`
that a cut name is shorter than `NAME_LEN`; `Vmm` that a count has room for
every space (`MaxSpaces <= RefMax`) and `Proc` that there are no more slots than
that (`MaxProcs <= MaxSpaces`; the code: 16 slots, counts to 255); `Terminal` that
the prompt and the longest line fit above the last row (the code: 6 and 127
characters, 1920 cells) and that newline and backspace are not among the
characters typed into a line; the others only types and that the model values
differ.

**Arguments.**  TLC checked each inductive invariant before its proof.

- `Pmm`: `TypeOK /\ CountsExact /\ UsedExact /\ HintInv`.  `CountsExact` is what
  makes a release find its frame managed; `UsedExact` gives `used_frames` its
  upper bound, through the cardinality of the set of bits; `HintInv` (no frame
  below the hint is free) turns the two passes of the search into "the clear
  frames" (`ScanIsClear`), from which first fit and the refusal of the
  refinement follow.
- `Ata`: `Matches` says that from the command register on the drive's command
  is the one of the call, or the drive reports an error; the driver gets there
  only through a poll that saw BSY clear.  With it every step of the drive
  maps to a stutter of `Disk` or to a sector losing a value it might have held,
  and a return of 0 leaves one value in `May`.
- `Keyboard`: `ReaderInv` (what the reader tested and loaded is still so) holds
  because the interrupt never moves `tail` and refuses a character that would
  make `head` meet it.  The refinement computes the queue from `head` and
  `tail` modulo the ring's size.  Shift does not stick because each Shift key that
  is held will be released, and any release clears the flag.
- `Tasks`: `SwitchInv` (whoever is active and not running has a pointer that
  can be loaded), `CoopInv` and `MutexInv` (one worker at most is inside, it
  holds the lock, and what it read is what the counter holds) give the exact
  counter; `SpinInv` relates the tick to the spinner whose turn it is.
- `Exec`: `CtlInv` is about control (what is armed where, the flag that tells
  how a program ended, all of the zone writable while the kernel stores an image
  or arguments into it); `DataInv` about cells (what was loaded, what is left
  zero, which pages are locked, that a validated segment lies in the zone and
  therefore does not wrap), of which prints change none that is memory;
  `HaltInv` says that a halted kernel has a locked screen, which
  stays locked because a halted kernel does nothing; with `KeepsOffScreen` the
  screen is never locked.  `HeapInv` is about the break.
- `Fs`: `DiskInv` (one value for superblock and directory, separate slots, no
  files without a superblock), `MountInv` (the copies in memory extend what is
  on the disk, the superblock is never behind the directory), `WriteInv` (the
  sectors written so far, in a slot that no acknowledged file has) and
  `KeptInv`, which is `Durable` over all that the disk may hold.
- `Heap`: the list is a `Chain`, told for neighbours and for all pairs of
  blocks; `InUse` is the set of its blocks in use, and `Held` relates that set
  to the clients' pointers.  Merging, splitting, marking and appending each
  keep the chain and change `InUse` by at most one block.  `u_coalesce` is a
  recursive function; that it exists, and that its walk keeps `WalkInv` (what
  lies behind it has no free neighbours, and `Len(bs)` iterations reach the
  end), follows from the least number for which it would not
  (`LeastNatural`).  A break that had wrapped would have gone down, so that
  SYS_SBRK refused.
- `Vmm`: what the spaces map is one function, the view, from a space and a page
  to an entry.  `MemInv` has a part about shape (every table is in one place of
  one directory, so that writing a table changes one place of the view) and a
  part about counts (directories, tables and lost frames are held once, any
  other frame by the places of the view that map it; those are the same page in
  different spaces, which bounds the count by the number of spaces).  Lemmas
  in three layers take an operation from directories and tables to the view and
  from the view to the counts.  Each operation has an `Effect`: outside the
  places it flushes, an entry keeps its frame and gains no permission, and a
  frame with one holder gets no other; that keeps `CpuInv`, which besides
  coherence says that the TLB has every write permission the tables have.
  `FaultInv` says that a resolved fault left an entry that permits the access
  and nothing in the TLB that forbids it, and carries `HaltJustified`.
  `vmm_clone_cow` is the one operation without an `Effect`: the CR3 load after
  it is what the proof needs there.
- `Proc`: on top of `VmmInv`, `Tree` (types, slot 0, pids below `next_pid`,
  zombies without a space, one running slot, live parents), `Owners` (spaces and
  slots in use correspond) and `Childless`: a program of `exec` is current and
  has no children, which is why `proc_end_user` may free its slot and reparent
  nobody.
- `AddressSpaces`: besides `VmmInv`, `SpacesInv` says that every mapped frame has
  contents, that what is promised is promised in a space that exists, and that
  what the TLB lets a store through to is writable in the active space.  The
  abstract memory of a space is a function of its entries and of the contents
  of their frames; so the lemmas say, for each operation, which entries keep
  frame and permission and which frames keep their contents.  A store goes to a
  frame with one holder (`WriteExclusive`), which is why it changes one page of
  one memory; a copy-on-write fault moves the entry to a frame with the same
  contents, and demand paging to a zeroed one, which are a stutter and the
  mapping of a promised page.
- `UnixProc`: `UnixInv` adds to `ProcInv` that pids are unique, which makes the
  abstract table, indexed by pids, well defined, and that a child's pid is
  larger than its parent's, so that nobody is its own parent.  An abstract
  process is its slot and the memory of its space; the calls of `Vmm` that a
  call of `Proc` makes are taken from the lemmas for `AddressSpaces`, and what is
  left is which slots a call changes and that it leaves the others and their
  memories alone.
- `Terminal`: `TermInv`.  `Shows(s, t)` says that the cells before the cursor hold
  the end of `t`, as much of it as there is room for, and `Clean` that nothing is
  behind the cursor; with these, one lemma for each kind of character covers
  wrapping, scrolling and erasing back over a row, whatever the number of columns
  and rows.  In the shell the text is the prompt and the line, all of it
  (`Full`), which survives scrolling because both fit above the last row; in a
  program it is what follows the last newline, which is never behind
  `line_start`, so that erasing cannot reach it.  A string is printed by a fold;
  that the fold is the iteration of `kprint_char`, and what it leaves after each
  character, is shown by induction on the length, with a set in place of the
  predicate (`SetInduction`, from the well-foundedness of the naturals).

**Only model-checked.**  Liveness (`Returns`, `DemoEnds`, `Drained`) stays with
TLC: fairness is outside what the proof system handles.  Every invariant, action
property and refinement that a passing run checks is a theorem above, some under
the hypothesis named there.

## Not modelled

- The boot loader, `kernel.c`, `gdt.c`, `idt.c`, `isr_install`, `pic_remap` and
  the programming of the PIT run once and leave constants behind; the modules
  start in the state they leave.
- The spinlock and the semaphore of `sync.c` have no caller.
- SYS_UPTIME, SYS_GETPID and SYS_RAND return a number; SYS_SLEEP is the wait of
  `logo_splash` with the comparison that wraps (above).
- `calc`, `guess`, `prog` and `whoami` compute and print; `ls`, `ps`, `help`,
  `elfinfo` and the like only print.
- Colours, number formatting, and the layout inside an argument block.

## Plan

What could follow:

1. The wrapping tick counter in `Tasks` (`task.c:146`), with a deadline that
   compares differences; today the counter stays below `TickMod`.
2. SYS_SLEEP, and the two programs that read numbers (`calc`, `guess`).
3. A composition of `Keyboard` and `Terminal`, in which the characters of a
   command are lost when the ring is full.
