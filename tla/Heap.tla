-------------------------------- MODULE Heap -------------------------------
(***************************************************************************)
(* The two heaps: the kernel's (kernel/kheap.c), a fixed region, and a     *)
(* program's (user/umalloc.h), which grows through SYS_SBRK (kernel/       *)
(* syscall.c).  Both keep a list of blocks, a header and its usable bytes  *)
(* each, and search and split it in the same way; they differ in how they  *)
(* merge and in what they do when nothing fits.  A behaviour is that of    *)
(* one heap, whose kind is chosen at the start.                            *)
(*                                                                         *)
(* The list is the sequence of its blocks: the address of the header, the  *)
(* size without the header, the free flag.  Addresses are bytes from the   *)
(* start of the heap; Word is 2^32.                                        *)
(***************************************************************************)
EXTENDS Integers, Sequences, Functions

CONSTANTS Word,        \* 2^32: where unsigned sums wrap
          Kinds,       \* the heaps: user or not, header, alignment, bytes
          Asks         \* the sizes that clients ask for

ASSUME HeapAssumption ==
  /\ Word \in Nat \ {0}
  /\ \A k \in Kinds : /\ k.user \in BOOLEAN
                      /\ {k.hdr, k.align} \subseteq Nat \ {0}
                      /\ k.size \in k.hdr..(Word - 1)
  /\ Asks \subseteq 0..(Word - 1)

VARIABLES kind,        \* which heap it is
          blocks,      \* the list from heap_head or u_head on
          brk,         \* the end of the heap, for a program its break
          live         \* the pointers clients hold: address -> bytes asked for

vars == <<kind, blocks, brk, live>>

Block(at, size, free) == [at |-> at, size |-> size, free |-> free]
Payload(b) == b.at + kind.hdr
End(b) == Payload(b) + b.size

(* heap_install makes one free block; a program's list is empty and so is  *)
(* the heap proc_begin_user gives it.                                      *)
Init == /\ kind \in Kinds
        /\ blocks = IF kind.user THEN <<>>
                    ELSE <<Block(0, kind.size - kind.hdr, TRUE)>>
        /\ brk = IF kind.user THEN 0 ELSE kind.size
        /\ live = [p \in {} |-> 0]

-----------------------------------------------------------------------------
(* (n + align - 1) & ~(align - 1), in 32 bits.                             *)
Rounded(n) == (((n + kind.align - 1) % Word) \div kind.align) * kind.align

(* The first free block that is large enough.                              *)
Fits_AnySize(b, size) == b.free
Fits(b, size) == b.free /\ b.size >= size

FirstFit(i, size) == /\ Fits(blocks[i], size)
                     /\ \A j \in 1..(i - 1) : ~Fits(blocks[j], size)

NoFit(size) == \A i \in DOMAIN blocks : ~Fits(blocks[i], size)

(* The list with block i handed out, its tail split off if that makes a    *)
(* block of its own.                                                       *)
Rest(b, size) == Block(Payload(b) + size, b.size - size - kind.hdr, TRUE)

Taken(i, size) ==
  IF blocks[i].size >= (size + kind.hdr + kind.align) % Word
  THEN [k \in 1..(Len(blocks) + 1) |->
          IF k < i THEN blocks[k]
          ELSE IF k = i THEN Block(blocks[i].at, size, FALSE)
          ELSE IF k = i + 1 THEN Rest(blocks[i], size)
          ELSE blocks[k - 1]]
  ELSE [blocks EXCEPT ![i].free = FALSE]

Gets(p, n) == live' = [q \in DOMAIN live \cup {p} |-> IF q = p THEN n ELSE live[q]]

Reuse(n) == \E i \in DOMAIN blocks : /\ FirstFit(i, Rounded(n))
                                     /\ blocks' = Taken(i, Rounded(n))
                                     /\ Gets(Payload(blocks[i]), n)
                                     /\ UNCHANGED <<kind, brk>>

Refuse == UNCHANGED vars

kmalloc(n) == /\ ~kind.user
              /\ \/ Reuse(n)
                 \/ NoFit(Rounded(n)) /\ Refuse

(* SYS_SBRK: an increment of 0 asks for the break; one that wraps or goes  *)
(* past the end of the heap fails.                                         *)
SbrkFails(incr) == /\ incr # 0
                   /\ \/ (brk + incr) % Word < brk
                      \/ (brk + incr) % Word > kind.size

Increment(n) == (kind.hdr + Rounded(n)) % Word

(* A new block at the break, at the end of the list.                       *)
Grow(n) == /\ ~SbrkFails(Increment(n))
           /\ brk' = (brk + Increment(n)) % Word
           /\ blocks' = Append(blocks, Block(brk, Rounded(n), FALSE))
           /\ Gets(brk + kind.hdr, n)
           /\ UNCHANGED kind

umalloc(n) == /\ kind.user
              /\ \/ n = 0 /\ Refuse
                 \/ n # 0 /\ Reuse(n)
                 \/ n # 0 /\ NoFit(Rounded(n)) /\ Grow(n)
                 \/ n # 0 /\ NoFit(Rounded(n)) /\ SbrkFails(Increment(n)) /\ Refuse

-----------------------------------------------------------------------------
(* Block i of a list absorbs the one behind it.                            *)
Merged_HeaderLost(bs, i) ==
  [k \in 1..(Len(bs) - 1) |->
     IF k < i THEN bs[k]
     ELSE IF k = i THEN [bs[i] EXCEPT !.size = @ + bs[i + 1].size]
     ELSE bs[k + 1]]

Merged(bs, i) ==
  [k \in 1..(Len(bs) - 1) |->
     IF k < i THEN bs[k]
     ELSE IF k = i THEN [bs[i] EXCEPT !.size = @ + kind.hdr + bs[i + 1].size]
     ELSE bs[k + 1]]

BothFree(bs, i) == i < Len(bs) /\ bs[i].free /\ bs[i + 1].free

(* kfree looks at the next block only.                                     *)
MergeNext(bs, i) == IF BothFree(bs, i) THEN Merged(bs, i) ELSE bs

(* u_coalesce walks the whole list; a block absorbs its successors while   *)
(* they are free.  Every iteration moves on or shortens the list, so       *)
(* Len(bs) of them are enough.                                             *)
Step_MovesOn(w) == [at |-> w.at + 1, list |-> MergeNext(w.list, w.at)]
Step(w) == IF BothFree(w.list, w.at) THEN [w EXCEPT !.list = Merged(w.list, w.at)]
                                     ELSE [w EXCEPT !.at = @ + 1]

u_coalesce(bs) ==
  LET walk[k \in 0..Len(bs)] == IF k = 0 THEN [at |-> 1, list |-> bs]
                                ELSE Step(walk[k - 1])
  IN  walk[Len(bs)].list

Marked_Not(i) == blocks
Marked(i) == [blocks EXCEPT ![i].free = TRUE]

(* kfree and ufree of a pointer that the client holds.                     *)
Free(p) == \E i \in DOMAIN blocks :
             /\ Payload(blocks[i]) = p
             /\ blocks' = IF kind.user THEN u_coalesce(Marked(i))
                          ELSE MergeNext(Marked(i), i)
             /\ live' = Restrict(live, DOMAIN live \ {p})
             /\ UNCHANGED <<kind, brk>>

Next == \/ \E n \in Asks : kmalloc(n) \/ umalloc(n)
        \/ \E p \in DOMAIN live : Free(p)

Spec == Init /\ [][Next]_vars

-----------------------------------------------------------------------------
(* The blocks cover the heap from its first byte to its end, each of them  *)
(* beginning where the one before it ends: splitting, merging and growing  *)
(* neither lose nor share a byte, header included, in any order of calls.  *)
Tiles == /\ brk \in 0..kind.size
         /\ blocks = <<>> => brk = 0
         /\ \A i \in DOMAIN blocks :
              /\ blocks[i].size >= 0
              /\ blocks[i].at = IF i = 1 THEN 0 ELSE End(blocks[i - 1])
              /\ i = Len(blocks) => End(blocks[i]) = brk

(* The blocks marked in use are exactly those that clients hold, and each  *)
(* has at least the bytes its holder asked for.                            *)
LiveExact == LET InUse == {i \in DOMAIN blocks : ~blocks[i].free}
             IN  /\ {Payload(blocks[i]) : i \in InUse} = DOMAIN live
                 /\ \A i \in InUse : live[Payload(blocks[i])] <= blocks[i].size

(* In a program's heap freed blocks never stay side by side: one walk      *)
(* after each ufree is enough, since neither a split nor a new block puts  *)
(* a free block next to another (umalloc.h:13-15).                         *)
Coalesced == kind.user => \A i \in DOMAIN blocks : ~BothFree(blocks, i)

(* Both heaps keep a heap's promise: what they return lies in the heap, is *)
(* as large as asked and shares no byte with what is still in use.         *)
Abstract == INSTANCE Arena WITH Requests <- Asks, held <- live, size <- kind.size
HeapPromise == Abstract!ArenaSpec
=============================================================================
