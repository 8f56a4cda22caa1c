------------------------------- MODULE MCExec ------------------------------
(***************************************************************************)
(* TLC instance of Exec.  Two cells to a page:                             *)
(*                                                                         *)
(*   0 1 | 2 3 | 4 5 | 6 7 | 8 9 | 10 11 | 12 13 | 14 15 | 16 17           *)
(*  kernel image image heap screen  ROM    stack   BIOS   kernel heap      *)
(*                                                                         *)
(* Cell 8 is the text screen, 9 the rest of its page; 14 is ROM, 15 not.   *)
(* Cell 13 takes the argument block.  The images leave 6 and 7 to the      *)
(* heap, as user/prog.ld does.  Locks makes the screen read-only.          *)
(***************************************************************************)
EXTENDS Exec

Segment(vaddr, offset, filesz, memsz, writable) ==
  [load |-> TRUE, vaddr |-> vaddr, offset |-> offset, filesz |-> filesz,
   memsz |-> memsz, writable |-> writable]

Elf(name, entry, ph) == [name |-> name, ident |-> TRUE, size |-> 6, phoff |-> 1,
                         entry |-> entry, ph |-> ph]

Flat(name, size) == [name |-> name, ident |-> FALSE, size |-> size, phoff |-> 0,
                     entry |-> 0, ph |-> <<>>]

(* Code, and data with a .bss; code that shares a page with the stack, in  *)
(* front of a segment that takes no memory.                                *)
Plain == Elf("plain", 2, <<Segment(2, 2, 2, 2, FALSE), Segment(4, 4, 1, 2, TRUE)>>)
High  == Elf("high", 12, <<[Segment(2, 2, 1, 1, TRUE) EXCEPT !.load = FALSE],
                           Segment(12, 2, 1, 1, FALSE), Segment(3, 3, 0, 0, TRUE)>>)

(* Zeros over the screen, and a read-only segment that begins in ROM and   *)
(* ends in the page of the stack.                                          *)
Over  == Elf("over", 12, <<Segment(8, 2, 0, 1, TRUE), Segment(10, 2, 3, 3, FALSE)>>)

(* Refused by elf_load: the second segment below the zone, one that wraps, *)
(* and an entry point outside.                                             *)
Below == Elf("below", 2, <<Segment(4, 2, 1, 2, TRUE), Segment(1, 2, 1, 2, TRUE)>>)
Wraps == Elf("wraps", 2, <<Segment(4, 2, 1, 1, TRUE), Segment(17, 2, 1, 3, TRUE)>>)
Entry == Elf("entry", 15, <<Segment(4, 2, 1, 1, TRUE)>>)

(* Not an ELF for elf_validate, so a flat binary for exec: its segment     *)
(* ends outside the file.                                                  *)
Cut   == [Elf("cut", 2, <<Segment(2, 2, 2, 2, FALSE)>>) EXCEPT !.size = 3]

(* A read-only segment beside the text, in the page of the screen.         *)
Locks == Elf("locks", 2, <<Segment(2, 2, 2, 2, FALSE), Segment(9, 4, 1, 1, FALSE)>>)

MCBundled == Flat("user", 1)
MCImages == {Plain, High, Over, Locks, Below, Wraps, Entry, Cut}
LocksImages == {Locks}

(* No words but the name, two words, too many, too long.                   *)
MCLines == {<<1>>, <<1, 1, 1, 1>>, <<1, 6>>}
=============================================================================
