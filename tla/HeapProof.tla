------------------------------ MODULE HeapProof ----------------------------
(***************************************************************************)
(* Proofs about Heap.tla, for both kinds of heap, of every size, header    *)
(* and alignment, and for every sequence of allocations and frees.         *)
(***************************************************************************)
EXTENDS Heap, TLAPS, SequenceTheorems, WellFoundedInduction

(* Requests and heaps for which the 32-bit sums of kmalloc and umalloc do  *)
(* not wrap: the rounded request and its header fit in a word, and so does *)
(* the whole heap with one alignment unit more.                            *)
NothingWraps ==
  \A k \in Kinds : /\ k.size + k.align < Word
                   /\ \A n \in Asks : n + k.align + k.hdr <= Word

BlockType == [at : Nat, size : Nat, free : BOOLEAN]
EndOf(h, b) == b.at + h + b.size

(* The blocks tile the heap up to e; told for neighbours and for all pairs.*)
Adjacent(h, bs) ==
  \A i \in 1..Len(bs) : bs[i].at = IF i = 1 THEN 0 ELSE EndOf(h, bs[i - 1])

Closed(h, bs, e) == IF Len(bs) = 0 THEN e = 0 ELSE EndOf(h, bs[Len(bs)]) = e

Ordered(h, bs) ==
  \A i, j \in 1..Len(bs) : i < j => EndOf(h, bs[i]) <= bs[j].at

Chain(h, bs, e) == /\ bs \in Seq(BlockType)
                   /\ Adjacent(h, bs) /\ Closed(h, bs, e) /\ Ordered(h, bs)

(* The blocks in use, as the clients know them.                            *)
InUse(bs) == {<<bs[i].at, bs[i].size>> : i \in {k \in 1..Len(bs) : ~bs[k].free}}

(* The pointers that clients hold are the blocks u.                        *)
Held(h, u, lv) == /\ {b[1] + h : b \in u} = DOMAIN lv
                  /\ \A b \in u : lv[b[1] + h] <= b[2]

NoNeighbours(bs) == \A i \in 1..(Len(bs) - 1) : ~(bs[i].free /\ bs[i + 1].free)

TypeInv == /\ kind \in Kinds
           /\ brk \in 0..kind.size
           /\ \A p \in DOMAIN live : live[p] \in Nat

IndInv == /\ TypeInv
          /\ Chain(kind.hdr, blocks, brk)
          /\ Held(kind.hdr, InUse(blocks), live)
          /\ kind.user => NoNeighbours(blocks)

-----------------------------------------------------------------------------
LEMMA KindTypes ==
  ASSUME NEW k \in Kinds
  PROVE  /\ k.user \in BOOLEAN /\ k.hdr \in Nat \ {0} /\ k.align \in Nat \ {0}
         /\ k.size \in Nat /\ k.hdr <= k.size /\ k.size < Word
<1>1. Word \in Nat /\ k.user \in BOOLEAN
  BY HeapAssumption
<1>2. {k.hdr, k.align} \subseteq Nat \ {0} /\ k.size \in k.hdr..(Word - 1)
  BY HeapAssumption
<1>3. k.hdr \in Nat \ {0} /\ k.align \in Nat \ {0}
  BY <1>2
<1>4. k.size \in Nat /\ k.hdr <= k.size /\ k.size < Word
  BY <1>1, <1>2, <1>3
<1> QED BY <1>1, <1>3, <1>4

LEMMA SeqIntro ==
  ASSUME NEW S, NEW n \in Nat, NEW f \in [1..n -> S]
  PROVE  f \in Seq(S) /\ Len(f) = n /\ DOMAIN f = 1..n
OBVIOUS

LEMMA SeqElim ==
  ASSUME NEW S, NEW s \in Seq(S)
  PROVE  Len(s) \in Nat /\ DOMAIN s = 1..Len(s) /\ \A i \in 1..Len(s) : s[i] \in S
OBVIOUS

LEMMA BlockFields ==
  ASSUME NEW b \in BlockType
  PROVE  b.at \in Nat /\ b.size \in Nat /\ b.free \in BOOLEAN
BY DEF BlockType

LEMMA Enlarged ==
  ASSUME NEW b \in BlockType, NEW n \in Nat
  PROVE  /\ [b EXCEPT !.size = n] \in BlockType
         /\ [b EXCEPT !.size = n].at = b.at
         /\ [b EXCEPT !.size = n].free = b.free
         /\ [b EXCEPT !.size = n].size = n
BY DEF BlockType

LEMMA MergedEffect ==
  ASSUME kind.hdr \in Nat \ {0}, NEW bs \in Seq(BlockType), NEW i \in 1..(Len(bs) - 1)
  PROVE  /\ Merged(bs, i) \in Seq(BlockType) /\ Len(Merged(bs, i)) = Len(bs) - 1
         /\ \A k \in 1..(i - 1) : Merged(bs, i)[k] = bs[k]
         /\ Merged(bs, i)[i].at = bs[i].at
         /\ Merged(bs, i)[i].size = bs[i].size + kind.hdr + bs[i + 1].size
         /\ Merged(bs, i)[i].free = bs[i].free
         /\ \A k \in (i + 1)..(Len(bs) - 1) : Merged(bs, i)[k] = bs[k + 1]
<1> DEFINE L == Len(bs)
<1> DEFINE m == Merged(bs, i)
<1> DEFINE b == [bs[i] EXCEPT !.size = @ + kind.hdr + bs[i + 1].size]
<1>1. L \in Nat /\ i \in Nat /\ 1 <= i /\ i + 1 <= L /\ \A k \in 1..L : bs[k] \in BlockType
  BY SeqElim
<1>2. bs[i] \in BlockType /\ bs[i + 1] \in BlockType
  BY <1>1
<1>3. /\ b \in BlockType /\ b.at = bs[i].at /\ b.free = bs[i].free
      /\ b.size = bs[i].size + kind.hdr + bs[i + 1].size
  <2>1. bs[i].size + kind.hdr + bs[i + 1].size \in Nat
    BY <1>2, BlockFields
  <2>2. b = [bs[i] EXCEPT !.size = bs[i].size + kind.hdr + bs[i + 1].size]
    OBVIOUS
  <2> HIDE DEF b
  <2> QED BY <1>2, <2>1, <2>2, Enlarged
<1>4. m = [k \in 1..(L - 1) |-> IF k < i THEN bs[k] ELSE IF k = i THEN b ELSE bs[k + 1]]
  BY DEF Merged
<1> HIDE DEF L, m, b
<1>5. m \in [1..(L - 1) -> BlockType]
  <2>1. ASSUME NEW k \in 1..(L - 1)
        PROVE  (IF k < i THEN bs[k] ELSE IF k = i THEN b ELSE bs[k + 1]) \in BlockType
    <3>1. k \in 1..L /\ k + 1 \in 1..L
      BY <1>1
    <3> QED BY <1>1, <1>3, <3>1
  <2> QED BY <1>4, <2>1
<1>6. L - 1 \in Nat /\ i \in 1..(L - 1)
  BY <1>1
<1>7. m \in Seq(BlockType) /\ Len(m) = L - 1
  BY <1>5, <1>6, SeqIntro
<1>8. m[i] = b
  BY <1>4, <1>6
<1>9. \A k \in 1..(i - 1) : m[k] = bs[k]
  BY <1>1, <1>4
<1>10. \A k \in (i + 1)..(L - 1) : m[k] = bs[k + 1]
  BY <1>1, <1>4
<1> QED BY <1>3, <1>7, <1>8, <1>9, <1>10 DEF L, m

(* Facts about a chain at one index.                                       *)
LEMMA ChainFacts ==
  ASSUME NEW h \in Nat \ {0}, NEW bs, NEW e, Chain(h, bs, e)
  PROVE  /\ Len(bs) \in Nat /\ DOMAIN bs = 1..Len(bs)
         /\ \A k \in 1..Len(bs) : /\ bs[k].at \in Nat /\ bs[k].size \in Nat
                                  /\ bs[k].free \in BOOLEAN
         /\ \A k \in 1..Len(bs) : EndOf(h, bs[k]) \in Nat /\ bs[k].at < EndOf(h, bs[k])
<1>1. Len(bs) \in Nat /\ DOMAIN bs = 1..Len(bs) /\ \A k \in 1..Len(bs) : bs[k] \in BlockType
  BY SeqElim DEF Chain
<1>2. \A k \in 1..Len(bs) : bs[k].at \in Nat /\ bs[k].size \in Nat /\ bs[k].free \in BOOLEAN
  BY <1>1, BlockFields
<1>3. \A k \in 1..Len(bs) : EndOf(h, bs[k]) \in Nat /\ bs[k].at < EndOf(h, bs[k])
  BY <1>2 DEF EndOf
<1> QED BY <1>1, <1>2, <1>3

LEMMA InUseMeans ==
  ASSUME NEW bs, NEW u
  PROVE  u \in InUse(bs) <=>
           \E i \in 1..Len(bs) : ~bs[i].free /\ u = <<bs[i].at, bs[i].size>>
BY DEF InUse

(* Merging two blocks keeps the chain, and the blocks in use if the two    *)
(* are free.                                                               *)
LEMMA MergedKeeps ==
  ASSUME NEW h \in Nat \ {0}, kind.hdr = h, NEW bs, NEW e, Chain(h, bs, e),
         NEW i \in 1..(Len(bs) - 1), bs[i].free, bs[i + 1].free
  PROVE  /\ Chain(h, Merged(bs, i), e)
         /\ Len(Merged(bs, i)) = Len(bs) - 1
         /\ InUse(Merged(bs, i)) = InUse(bs)
<1> DEFINE L == Len(bs)
<1> DEFINE m == Merged(bs, i)
<1>1. /\ L \in Nat /\ \A k \in 1..L : EndOf(h, bs[k]) \in Nat /\ bs[k].at < EndOf(h, bs[k])
      /\ \A k \in 1..L : bs[k].at \in Nat /\ bs[k].size \in Nat /\ bs[k].free \in BOOLEAN
      /\ bs \in Seq(BlockType) /\ i \in Nat /\ 1 <= i /\ i < L
  BY ChainFacts DEF Chain
<1>2. /\ m \in Seq(BlockType) /\ Len(m) = L - 1
      /\ \A k \in 1..(i - 1) : m[k] = bs[k]
      /\ \A k \in (i + 1)..(L - 1) : m[k] = bs[k + 1]
  BY <1>1, MergedEffect
<1>3. /\ m[i].at = bs[i].at /\ m[i].free = bs[i].free
      /\ m[i].size = bs[i].size + h + bs[i + 1].size
  BY <1>1, MergedEffect
<1> HIDE DEF L, m
<1>4. /\ Adjacent(h, bs) /\ Ordered(h, bs) /\ EndOf(h, bs[L]) = e
  BY <1>1 DEF Chain, Closed, L
<1>5. bs[i + 1].at = EndOf(h, bs[i])
  <2>1. i + 1 \in 1..L /\ i + 1 # 1 /\ (i + 1) - 1 = i
    BY <1>1
  <2> QED BY <1>4, <2>1 DEF Adjacent, L
<1>6. EndOf(h, m[i]) = EndOf(h, bs[i + 1])
  <2>1. /\ bs[i].at \in Nat /\ bs[i].size \in Nat /\ bs[i + 1].size \in Nat
    BY <1>1
  <2> QED BY <1>3, <1>5, <2>1 DEF EndOf
(* Where block k of the merged list was: first and last of what it covers. *)
<1> DEFINE lo(k) == IF k <= i THEN k ELSE k + 1
<1> DEFINE hi(k) == IF k < i THEN k ELSE k + 1
<1>7. \A k \in 1..(L - 1) : /\ lo(k) \in 1..L /\ hi(k) \in 1..L
                            /\ m[k].at = bs[lo(k)].at
                            /\ EndOf(h, m[k]) = EndOf(h, bs[hi(k)])
  <2>1. ASSUME NEW k \in 1..(L - 1)
        PROVE  /\ lo(k) \in 1..L /\ hi(k) \in 1..L
               /\ m[k].at = bs[lo(k)].at /\ EndOf(h, m[k]) = EndOf(h, bs[hi(k)])
    <3>1. CASE k < i
      <4>1. k \in 1..(i - 1)
        BY <1>1, <3>1
      <4> QED BY <1>1, <1>2, <3>1, <4>1
    <3>2. CASE k = i
      BY <1>1, <1>3, <1>6, <3>2
    <3>3. CASE k > i
      <4>1. k \in (i + 1)..(L - 1)
        BY <1>1, <3>3
      <4>2. m[k] = bs[k + 1]
        BY <1>2, <4>1
      <4>3. lo(k) = k + 1 /\ hi(k) = k + 1 /\ k + 1 \in 1..L
        BY <1>1, <3>3
      <4> QED BY <4>2, <4>3
    <3> QED BY <1>1, <3>1, <3>2, <3>3
  <2> QED BY <2>1
<1>8. Adjacent(h, m)
  <2>1. ASSUME NEW k \in 1..(L - 1)
        PROVE  m[k].at = IF k = 1 THEN 0 ELSE EndOf(h, m[k - 1])
    <3>1. CASE k = 1
      <4>1. lo(k) = 1
        BY <1>1, <3>1
      <4> QED BY <1>4, <1>7, <3>1, <4>1 DEF Adjacent, L
    <3>2. CASE k # 1
      <4>1. k - 1 \in 1..(L - 1) /\ hi(k - 1) = lo(k) - 1 /\ lo(k) # 1 /\ lo(k) \in 1..L
        BY <1>1, <3>2
      <4>2. m[k].at = bs[lo(k)].at /\ EndOf(h, m[k - 1]) = EndOf(h, bs[lo(k) - 1])
        BY <1>7, <4>1
      <4>3. bs[lo(k)].at = EndOf(h, bs[lo(k) - 1])
        BY <1>4, <4>1 DEF Adjacent, L
      <4> QED BY <3>2, <4>2, <4>3
    <3> QED BY <3>1, <3>2
  <2> QED BY <1>2, <2>1 DEF Adjacent
<1>9. Closed(h, m, e)
  <2>1. L - 1 \in 1..(L - 1) /\ hi(L - 1) = L /\ L - 1 # 0
    BY <1>1
  <2> QED BY <1>2, <1>4, <1>7, <2>1 DEF Closed
<1>10. Ordered(h, m)
  <2>1. ASSUME NEW j \in 1..(L - 1), NEW k \in 1..(L - 1), j < k
        PROVE  EndOf(h, m[j]) <= m[k].at
    <3>1. hi(j) < lo(k) /\ hi(j) \in 1..L /\ lo(k) \in 1..L
      BY <1>1, <1>7, <2>1
    <3>2. EndOf(h, bs[hi(j)]) <= bs[lo(k)].at
      BY <1>4, <3>1 DEF Ordered, L
    <3> QED BY <1>7, <3>2
  <2> QED BY <1>2, <2>1 DEF Ordered
<1>11. InUse(m) = InUse(bs)
  <2>1. ASSUME NEW k \in 1..(L - 1), ~m[k].free
        PROVE  \E j \in 1..L : ~bs[j].free /\ bs[j].at = m[k].at /\ bs[j].size = m[k].size
    <3>1. k # i
      BY <1>3, <2>1
    <3>2. k \in 1..(i - 1) \/ k \in (i + 1)..(L - 1)
      BY <1>1, <3>1
    <3>3. m[k] = bs[k] \/ m[k] = bs[k + 1]
      BY <1>2, <3>2
    <3>4. k \in 1..L /\ k + 1 \in 1..L
      BY <1>1
    <3> QED BY <2>1, <3>3, <3>4
  <2>2. ASSUME NEW j \in 1..L, ~bs[j].free
        PROVE  \E k \in 1..(L - 1) : ~m[k].free /\ bs[j].at = m[k].at /\ bs[j].size = m[k].size
    <3>1. j # i /\ j # i + 1
      BY <2>2
    <3>2. CASE j < i
      <4>1. j \in 1..(i - 1) /\ j \in 1..(L - 1)
        BY <1>1, <3>2
      <4> QED BY <1>2, <2>2, <4>1
    <3>3. CASE j > i
      <4>1. j - 1 \in (i + 1)..(L - 1) /\ j - 1 \in 1..(L - 1) /\ (j - 1) + 1 = j
        BY <1>1, <3>1, <3>3
      <4> QED BY <1>2, <2>2, <4>1
    <3>4. j < i \/ j > i
      BY <1>1, <3>1
    <3> QED BY <3>2, <3>3, <3>4
  <2>3. ASSUME NEW u \in InUse(m) PROVE u \in InUse(bs)
    <3>1. PICK k \in 1..(L - 1) : ~m[k].free /\ u = <<m[k].at, m[k].size>>
      BY <1>2, InUseMeans
    <3>2. PICK j \in 1..L : ~bs[j].free /\ bs[j].at = m[k].at /\ bs[j].size = m[k].size
      BY <2>1, <3>1
    <3> QED BY <3>1, <3>2, InUseMeans DEF L
  <2>4. ASSUME NEW u \in InUse(bs) PROVE u \in InUse(m)
    <3>1. PICK j \in 1..L : ~bs[j].free /\ u = <<bs[j].at, bs[j].size>>
      BY InUseMeans DEF L
    <3>2. PICK k \in 1..(L - 1) : ~m[k].free /\ bs[j].at = m[k].at /\ bs[j].size = m[k].size
      BY <2>2, <3>1
    <3> QED BY <1>2, <3>1, <3>2, InUseMeans
  <2> QED BY <2>3, <2>4
<1> QED BY <1>2, <1>8, <1>9, <1>10, <1>11 DEF Chain, L, m

-----------------------------------------------------------------------------
(* The walk of u_coalesce.  A recursive function is a choice of a function *)
(* that satisfies its equation; there is one, by the least number for      *)
(* which there would be none.                                              *)
Start(bs) == [at |-> 1, list |-> bs]

LEMMA LeastNatural ==
  ASSUME NEW T \in SUBSET Nat, T # {}
  PROVE  \E m \in T : \A t \in T : m <= t
<1>1. \E x \in T : \A y \in T : ~(<<y, x>> \in OpToRel(<, Nat))
  BY NatLessThanWellFounded, WFMin
<1>2. PICK x \in T : \A y \in T : ~(y < x)
  BY <1>1 DEF OpToRel
<1>3. \A y \in T : x <= y
  BY <1>2
<1> QED BY <1>3

LEMMA WalkExists ==
  ASSUME NEW bs, NEW n \in Nat
  PROVE  \E f : f = [k \in 0..n |-> IF k = 0 THEN Start(bs) ELSE Step(f[k - 1])]
<1> DEFINE Walks(f, m) == f = [k \in 0..m |-> IF k = 0 THEN Start(bs) ELSE Step(f[k - 1])]
<1> DEFINE T == {m \in Nat : ~\E f : Walks(f, m)}
<1> SUFFICES ASSUME n \in T PROVE FALSE
  OBVIOUS
<1>1. PICK m \in T : \A t \in T : m <= t
  <2>1. T \in SUBSET Nat /\ T # {}
    OBVIOUS
  <2> HIDE DEF T
  <2> QED BY <2>1, LeastNatural
<1>2. CASE m = 0
  <2> DEFINE f == [k \in 0..0 |-> Start(bs)]
  <2>1. Walks(f, 0)
    OBVIOUS
  <2> QED BY <1>1, <1>2, <2>1
<1>3. CASE m # 0
  <2>1. m - 1 \in Nat /\ m - 1 \notin T
    BY <1>1, <1>3
  <2>2. PICK f : Walks(f, m - 1)
    BY <2>1
  <2> DEFINE g == [k \in 0..m |-> IF k = m THEN Step(f[m - 1]) ELSE f[k]]
  <2>3. \A k \in 0..m : g[k] = IF k = 0 THEN Start(bs) ELSE Step(g[k - 1])
    <3>1. ASSUME NEW k \in 0..m PROVE g[k] = IF k = 0 THEN Start(bs) ELSE Step(g[k - 1])
      <4>1. CASE k = m
        <5>1. m - 1 \in 0..m /\ m - 1 # m /\ m \in 0..m
          BY <1>3
        <5>2. g[m - 1] = f[m - 1] /\ g[m] = Step(f[m - 1])
          BY <5>1
        <5> QED BY <1>3, <4>1, <5>2
      <4>2. CASE k # m
        <5>1. k \in 0..(m - 1) /\ g[k] = f[k]
          BY <4>2
        <5>2. f[k] = IF k = 0 THEN Start(bs) ELSE Step(f[k - 1])
          BY <2>2, <5>1
        <5>3. k # 0 => k - 1 \in 0..m /\ k - 1 # m
          BY <4>2
        <5>4. k # 0 => g[k - 1] = f[k - 1]
          BY <5>3
        <5> QED BY <5>1, <5>2, <5>4
      <4> QED BY <4>1, <4>2
    <3> QED BY <3>1
  <2>4. Walks(g, m)
    <3>1. g = [k \in 0..m |-> g[k]]
      OBVIOUS
    <3> HIDE DEF g
    <3> QED BY <2>3, <3>1
  <2> QED BY <1>1, <2>4
<1> QED BY <1>2, <1>3

LEMMA CoalesceWalks ==
  ASSUME NEW bs, Len(bs) \in Nat
  PROVE  \E f : /\ f[0] = Start(bs)
                /\ \A k \in 1..Len(bs) : f[k] = Step(f[k - 1])
                /\ u_coalesce(bs) = f[Len(bs)].list
<1> DEFINE f == CHOOSE f : f = [k \in 0..Len(bs) |-> IF k = 0 THEN Start(bs) ELSE Step(f[k - 1])]
<1>1. f = [k \in 0..Len(bs) |-> IF k = 0 THEN Start(bs) ELSE Step(f[k - 1])]
  BY WalkExists
<1>2. u_coalesce(bs) = f[Len(bs)].list
  BY DEF u_coalesce, Start
<1> HIDE DEF f
<1>3. f[0] = Start(bs) /\ \A k \in 1..Len(bs) : f[k] = Step(f[k - 1])
  BY <1>1
<1> QED BY <1>2, <1>3

(* After k iterations: the list is a chain with the same blocks in use,    *)
(* every iteration has moved on or merged, and what lies behind the walk   *)
(* has no free neighbours.                                                 *)
WalkInv(h, bs, e, k, v) ==
  /\ v = [at |-> v.at, list |-> v.list]
  /\ v.at \in Nat \ {0}
  /\ Chain(h, v.list, e)
  /\ InUse(v.list) = InUse(bs)
  /\ v.at + Len(bs) = Len(v.list) + k + 1
  /\ \A j \in 1..(v.at - 1) : j < Len(v.list) => ~(v.list[j].free /\ v.list[j + 1].free)

LEMMA StepKeeps ==
  ASSUME NEW h \in Nat \ {0}, kind.hdr = h, NEW bs, NEW e, NEW k \in Nat, NEW v,
         WalkInv(h, bs, e, k, v), Len(bs) \in Nat
  PROVE  WalkInv(h, bs, e, k + 1, Step(v))
<1> DEFINE l == v.list
<1> DEFINE a == v.at
<1>1. /\ v = [at |-> a, list |-> l] /\ a \in Nat \ {0}
      /\ Chain(h, l, e) /\ InUse(l) = InUse(bs)
      /\ a + Len(bs) = Len(l) + k + 1
      /\ \A j \in 1..(a - 1) : j < Len(l) => ~(l[j].free /\ l[j + 1].free)
  BY DEF WalkInv
<1>2. Len(l) \in Nat /\ \A q \in 1..Len(l) : l[q].free \in BOOLEAN
  BY <1>1, ChainFacts
<1>3. CASE BothFree(l, a)
  <2> DEFINE m == Merged(l, a)
  <2>1. a \in 1..(Len(l) - 1) /\ l[a].free /\ l[a + 1].free
    BY <1>1, <1>2, <1>3 DEF BothFree
  <2>2. Chain(h, m, e) /\ Len(m) = Len(l) - 1 /\ InUse(m) = InUse(l)
    BY <1>1, <2>1, MergedKeeps
  <2>3. /\ \A q \in 1..(a - 1) : m[q] = l[q]
        /\ m[a].free = l[a].free
    <3>1. l \in Seq(BlockType) /\ kind.hdr \in Nat \ {0}
      BY <1>1 DEF Chain
    <3> HIDE DEF l, a
    <3> QED BY <2>1, <3>1, MergedEffect
  <2>4. Step(v) = [at |-> a, list |-> m]
    BY <1>1, <1>3 DEF Step
  <2> HIDE DEF l, a, m
  <2>5. Step(v).at = a /\ Step(v).list = m /\ Step(v) = [at |-> Step(v).at, list |-> Step(v).list]
    BY <2>4
  <2>6. a + Len(bs) = Len(m) + (k + 1) + 1
    BY <1>1, <1>2, <2>2
  <2>7. ASSUME NEW j \in 1..(a - 1), j < Len(m) PROVE ~(m[j].free /\ m[j + 1].free)
    <3>1. ~(l[j].free /\ l[j + 1].free)
      BY <1>1, <1>2, <2>2, <2>7
    <3>2. CASE j + 1 = a
      BY <2>1, <2>3, <3>1, <3>2
    <3>3. CASE j + 1 # a
      <4>1. j + 1 \in 1..(a - 1)
        BY <1>1, <3>3
      <4> QED BY <2>3, <3>1, <4>1
    <3> QED BY <3>2, <3>3
  <2> QED BY <1>1, <2>2, <2>5, <2>6, <2>7 DEF WalkInv
<1>4. CASE ~BothFree(l, a)
  <2>1. Step(v) = [at |-> a + 1, list |-> l]
    BY <1>1, <1>4 DEF Step
  <2>2. a < Len(l) => ~(l[a].free /\ l[a + 1].free)
    BY <1>4 DEF BothFree
  <2> HIDE DEF l, a
  <2>3. Step(v).at = a + 1 /\ Step(v).list = l
        /\ Step(v) = [at |-> Step(v).at, list |-> Step(v).list]
    BY <2>1
  <2>4. a + 1 + Len(bs) = Len(l) + (k + 1) + 1 /\ a + 1 \in Nat \ {0}
    BY <1>1, <1>2
  <2>5. ASSUME NEW j \in 1..a, j < Len(l) PROVE ~(l[j].free /\ l[j + 1].free)
    <3>1. CASE j = a
      BY <2>2, <2>5, <3>1
    <3>2. CASE j # a
      <4>1. j \in 1..(a - 1)
        BY <1>1, <3>2
      <4> QED BY <1>1, <2>5, <4>1
    <3> QED BY <3>1, <3>2
  <2>6. \A j \in 1..(Step(v).at - 1) :
          j < Len(Step(v).list) => ~(Step(v).list[j].free /\ Step(v).list[j + 1].free)
    <3>1. Step(v).at - 1 = a
      BY <1>1, <2>3
    <3>2. \A j \in 1..a : j < Len(l) => ~(l[j].free /\ l[j + 1].free)
      BY <2>5
    <3> QED BY <2>3, <3>1, <3>2
  <2>7. /\ Chain(h, Step(v).list, e) /\ InUse(Step(v).list) = InUse(bs)
        /\ Step(v).at + Len(bs) = Len(Step(v).list) + (k + 1) + 1
        /\ Step(v).at \in Nat \ {0}
    BY <1>1, <2>3, <2>4
  <2> QED BY <2>3, <2>6, <2>7 DEF WalkInv
<1> QED BY <1>3, <1>4

(* u_coalesce keeps the chain and the blocks in use, and leaves no two     *)
(* free blocks side by side.                                               *)
LEMMA CoalesceKeeps ==
  ASSUME NEW h \in Nat \ {0}, kind.hdr = h, NEW bs, NEW e, Chain(h, bs, e)
  PROVE  /\ Chain(h, u_coalesce(bs), e)
         /\ InUse(u_coalesce(bs)) = InUse(bs)
         /\ NoNeighbours(u_coalesce(bs))
<1> DEFINE n == Len(bs)
<1>1. n \in Nat
  BY ChainFacts
<1>2. PICK f : /\ f[0] = Start(bs)
               /\ \A k \in 1..n : f[k] = Step(f[k - 1])
               /\ u_coalesce(bs) = f[n].list
  BY <1>1, CoalesceWalks
<1>3. WalkInv(h, bs, e, 0, f[0])
  <2>1. f[0].at = 1 /\ f[0].list = bs /\ f[0] = [at |-> f[0].at, list |-> f[0].list]
    BY <1>2 DEF Start
  <2> QED BY <1>1, <2>1 DEF WalkInv
<1>4. \A k \in 0..n : WalkInv(h, bs, e, k, f[k])
  <2> DEFINE T == {k \in 0..n : ~WalkInv(h, bs, e, k, f[k])}
  <2> SUFFICES ASSUME T # {} PROVE FALSE
    OBVIOUS
  <2>1. T \in SUBSET Nat
    BY <1>1
  <2>2. PICK m \in T : \A t \in T : m <= t
    <3> HIDE DEF T
    <3> QED BY <2>1, LeastNatural
  <2>3. m \in 0..n /\ m # 0 /\ ~WalkInv(h, bs, e, m, f[m])
    BY <1>3, <2>2
  <2>4. m - 1 \in 0..n /\ m - 1 \in Nat /\ (m - 1) + 1 = m /\ m \in 1..n
    BY <1>1, <2>3
  <2>5. m - 1 \notin T
    BY <2>2, <2>4
  <2>6. WalkInv(h, bs, e, m - 1, f[m - 1])
    BY <2>4, <2>5
  <2> HIDE DEF T
  <2>7. WalkInv(h, bs, e, (m - 1) + 1, Step(f[m - 1]))
    BY <1>1, <2>4, <2>6, StepKeeps
  <2> QED BY <1>2, <2>3, <2>4, <2>7
<1>5. WalkInv(h, bs, e, n, f[n])
  BY <1>1, <1>4
<1> DEFINE l == f[n].list
<1>6. /\ Chain(h, l, e) /\ InUse(l) = InUse(bs) /\ f[n].at \in Nat
      /\ f[n].at + n = Len(l) + n + 1
      /\ \A j \in 1..(f[n].at - 1) : j < Len(l) => ~(l[j].free /\ l[j + 1].free)
  BY <1>5 DEF WalkInv
<1> HIDE DEF l
<1>7. Len(l) \in Nat
  BY <1>6, ChainFacts
<1>8. f[n].at - 1 = Len(l)
  BY <1>1, <1>6, <1>7
<1>9. NoNeighbours(l)
  <2>1. ASSUME NEW j \in 1..(Len(l) - 1) PROVE ~(l[j].free /\ l[j + 1].free)
    <3>1. j \in 1..(f[n].at - 1) /\ j < Len(l)
      BY <1>7, <1>8
    <3> QED BY <1>6, <3>1
  <2> QED BY <2>1 DEF NoNeighbours
<1> QED BY <1>2, <1>6, <1>9 DEF l

-----------------------------------------------------------------------------
(* Two blocks of a chain do not begin at the same byte, and none goes past *)
(* the end.                                                                *)
LEMMA ChainOrder ==
  ASSUME NEW h \in Nat \ {0}, NEW bs, NEW e, Chain(h, bs, e)
  PROVE  /\ \A i, j \in 1..Len(bs) : bs[i].at = bs[j].at => i = j
         /\ \A i \in 1..Len(bs) : EndOf(h, bs[i]) <= e /\ e \in Nat
<1>1. /\ Len(bs) \in Nat
      /\ \A k \in 1..Len(bs) : bs[k].at \in Nat
      /\ \A k \in 1..Len(bs) : EndOf(h, bs[k]) \in Nat /\ bs[k].at < EndOf(h, bs[k])
  BY ChainFacts
<1>2. \A i, j \in 1..Len(bs) : i < j => EndOf(h, bs[i]) <= bs[j].at
  BY DEF Chain, Ordered
<1>3. \A i, j \in 1..Len(bs) : i < j => bs[i].at < bs[j].at
  BY <1>1, <1>2
<1>4. \A i, j \in 1..Len(bs) : bs[i].at = bs[j].at => i = j
  <2>1. ASSUME NEW i \in 1..Len(bs), NEW j \in 1..Len(bs), bs[i].at = bs[j].at, i # j
        PROVE  FALSE
    <3>1. i < j \/ j < i
      BY <1>1, <2>1
    <3> QED BY <1>1, <1>3, <2>1, <3>1
  <2> QED BY <2>1
<1>5. ASSUME NEW i \in 1..Len(bs) PROVE EndOf(h, bs[i]) <= e /\ e \in Nat
  <2>1. Len(bs) \in 1..Len(bs) /\ Len(bs) # 0
    BY <1>1
  <2>2. EndOf(h, bs[Len(bs)]) = e
    BY <2>1 DEF Chain, Closed
  <2>3. CASE i = Len(bs)
    BY <1>1, <2>2, <2>3
  <2>4. CASE i # Len(bs)
    <3>1. i < Len(bs)
      BY <1>1, <2>4
    <3>2. EndOf(h, bs[i]) <= bs[Len(bs)].at
      BY <1>2, <2>1, <3>1
    <3> QED BY <1>1, <2>1, <2>2, <3>2
  <2> QED BY <2>3, <2>4
<1> QED BY <1>4, <1>5

(* A chain in which one free flag differs is a chain.                      *)
Put(bs, i, b) == [bs EXCEPT ![i] = b]

LEMMA SameTiling ==
  ASSUME NEW h \in Nat \ {0}, NEW bs, NEW e, Chain(h, bs, e), NEW i \in 1..Len(bs),
         NEW b \in BlockType, b.at = bs[i].at, b.size = bs[i].size,
         NEW t, t = Put(bs, i, b)
  PROVE  /\ Chain(h, t, e) /\ Len(t) = Len(bs) /\ t[i] = b
         /\ \A k \in 1..Len(bs) : k # i => t[k] = bs[k]
<1>1. bs \in Seq(BlockType) /\ Len(bs) \in Nat /\ DOMAIN bs = 1..Len(bs)
      /\ \A k \in 1..Len(bs) : bs[k] \in BlockType
  BY ChainFacts, SeqElim DEF Chain
<1>5. bs \in [1..Len(bs) -> BlockType]
  BY <1>1
<1>6. t \in [1..Len(bs) -> BlockType] /\ t[i] = b
  BY <1>5 DEF Put
<1>7. \A k \in 1..Len(bs) : k # i => t[k] = bs[k]
  BY <1>5 DEF Put
<1>8. t \in Seq(BlockType) /\ Len(t) = Len(bs)
  BY <1>1, <1>6, SeqIntro
<1>9. \A k \in 1..Len(bs) : t[k].at = bs[k].at /\ EndOf(h, t[k]) = EndOf(h, bs[k])
  BY <1>6, <1>7 DEF EndOf
<1>10. Adjacent(h, t)
  <2>1. \A k \in 1..Len(bs) : k # 1 => k - 1 \in 1..Len(bs)
    BY <1>1
  <2>2. Adjacent(h, bs)
    BY DEF Chain
  <2> QED BY <1>8, <1>9, <2>1, <2>2 DEF Adjacent
<1>11. Closed(h, t, e)
  <2>1. Len(bs) # 0 => Len(bs) \in 1..Len(bs)
    BY <1>1
  <2> QED BY <1>8, <1>9, <2>1 DEF Chain, Closed
<1>12. Ordered(h, t)
  BY <1>8, <1>9 DEF Chain, Ordered
<1> QED BY <1>6, <1>7, <1>8, <1>10, <1>11, <1>12 DEF Chain

Given(bs, i) == [bs EXCEPT ![i].free = FALSE]
Returned(bs, i) == [bs EXCEPT ![i].free = TRUE]

LEMMA Flagged ==
  ASSUME NEW h \in Nat \ {0}, NEW bs, NEW e, Chain(h, bs, e), NEW i \in 1..Len(bs)
  PROVE  /\ \E b \in BlockType : /\ b.at = bs[i].at /\ b.size = bs[i].size /\ ~b.free
                                 /\ Given(bs, i) = Put(bs, i, b)
         /\ \E b \in BlockType : /\ b.at = bs[i].at /\ b.size = bs[i].size /\ b.free
                                 /\ Returned(bs, i) = Put(bs, i, b)
<1>1. bs[i] \in BlockType
  BY SeqElim DEF Chain
<1>2. PICK b : b = [bs[i] EXCEPT !.free = FALSE]
  OBVIOUS
<1>3. b \in BlockType /\ b.at = bs[i].at /\ b.size = bs[i].size /\ ~b.free
  BY <1>1, <1>2 DEF BlockType
<1>4. Given(bs, i) = Put(bs, i, b)
  BY <1>2 DEF Given, Put
<1>5. PICK c : c = [bs[i] EXCEPT !.free = TRUE]
  OBVIOUS
<1>6. c \in BlockType /\ c.at = bs[i].at /\ c.size = bs[i].size /\ c.free
  BY <1>1, <1>5 DEF BlockType
<1>7. Returned(bs, i) = Put(bs, i, c)
  BY <1>5 DEF Returned, Put
<1> QED BY <1>3, <1>4, <1>6, <1>7

(* Handing out a block without splitting it.                               *)
LEMMA TakenWhole ==
  ASSUME NEW h \in Nat \ {0}, NEW bs, NEW e, Chain(h, bs, e), NEW i \in 1..Len(bs),
         bs[i].free, NEW t, t = Given(bs, i)
  PROVE  /\ Chain(h, t, e)
         /\ InUse(t) = InUse(bs) \cup {<<bs[i].at, bs[i].size>>}
         /\ NoNeighbours(bs) => NoNeighbours(t)
<1>0. PICK b \in BlockType : /\ b.at = bs[i].at /\ b.size = bs[i].size /\ ~b.free
                             /\ t = Put(bs, i, b)
  BY Flagged
<1>1. /\ Chain(h, t, e) /\ Len(t) = Len(bs)
      /\ t[i].at = bs[i].at /\ t[i].size = bs[i].size /\ ~t[i].free
      /\ \A k \in 1..Len(bs) : k # i => t[k] = bs[k]
  <2>1. Chain(h, t, e) /\ Len(t) = Len(bs) /\ t[i] = b
    BY <1>0, SameTiling
  <2>2. \A k \in 1..Len(bs) : k # i => t[k] = bs[k]
    BY <1>0, SameTiling
  <2> QED BY <1>0, <2>1, <2>2
<1>2. InUse(t) = InUse(bs) \cup {<<bs[i].at, bs[i].size>>}
  <2>1. ASSUME NEW u \in InUse(t) PROVE u \in InUse(bs) \cup {<<bs[i].at, bs[i].size>>}
    <3>1. PICK k \in 1..Len(t) : ~t[k].free /\ u = <<t[k].at, t[k].size>>
      BY InUseMeans
    <3>2. k \in 1..Len(bs)
      BY <1>1
    <3>3. CASE k = i
      BY <1>1, <3>1, <3>3
    <3>4. CASE k # i
      <4>1. t[k] = bs[k]
        BY <1>1, <3>2, <3>4
      <4> QED BY <3>1, <3>2, <4>1, InUseMeans
    <3> QED BY <3>3, <3>4
  <2>2. ASSUME NEW u \in InUse(bs) PROVE u \in InUse(t)
    <3>1. PICK k \in 1..Len(bs) : ~bs[k].free /\ u = <<bs[k].at, bs[k].size>>
      BY InUseMeans
    <3>2. t[k] = bs[k]
      BY <1>1, <3>1
    <3> QED BY <1>1, <3>1, <3>2, InUseMeans
  <2>3. <<bs[i].at, bs[i].size>> \in InUse(t)
    BY <1>1, InUseMeans
  <2> QED BY <2>1, <2>2, <2>3
<1>3. ASSUME NoNeighbours(bs) PROVE NoNeighbours(t)
  <2>1. Len(bs) \in Nat
    BY ChainFacts
  <2>2. ASSUME NEW k \in 1..(Len(bs) - 1) PROVE ~(t[k].free /\ t[k + 1].free)
    <3>1. k \in 1..Len(bs) /\ k + 1 \in 1..Len(bs) /\ ~(bs[k].free /\ bs[k + 1].free)
      BY <1>3, <2>1 DEF NoNeighbours
    <3> QED BY <1>1, <3>1
  <2> QED BY <1>1, <2>2 DEF NoNeighbours
<1> QED BY <1>1, <1>2, <1>3

(* Handing out the first bytes of a block and keeping the rest as a free   *)
(* block of its own.                                                       *)
Split(h, bs, i, n) ==
  [k \in 1..(Len(bs) + 1) |->
     IF k < i THEN bs[k]
     ELSE IF k = i THEN Block(bs[i].at, n, FALSE)
     ELSE IF k = i + 1 THEN Block(bs[i].at + h + n, bs[i].size - n - h, TRUE)
     ELSE bs[k - 1]]

LEMMA SplitEffect ==
  ASSUME NEW h \in Nat \ {0}, NEW bs \in Seq(BlockType), NEW i \in 1..Len(bs),
         NEW n \in Nat, bs[i].size >= n + h, NEW t, t = Split(h, bs, i, n)
  PROVE  /\ t \in Seq(BlockType) /\ Len(t) = Len(bs) + 1
         /\ \A k \in 1..(i - 1) : t[k] = bs[k]
         /\ t[i].at = bs[i].at /\ t[i].size = n /\ ~t[i].free
         /\ t[i + 1].at = bs[i].at + h + n /\ t[i + 1].size = bs[i].size - n - h
         /\ t[i + 1].free
         /\ \A k \in (i + 2)..(Len(bs) + 1) : t[k] = bs[k - 1]
<1> DEFINE L == Len(bs)
<1> DEFINE b == Block(bs[i].at, n, FALSE)
<1> DEFINE c == Block(bs[i].at + h + n, bs[i].size - n - h, TRUE)
<1>1. L \in Nat /\ i \in Nat /\ 1 <= i /\ i <= L /\ \A k \in 1..L : bs[k] \in BlockType
  BY SeqElim
<1>2. bs[i].at \in Nat /\ bs[i].size \in Nat
  BY <1>1, BlockFields
<1>3. b \in BlockType /\ b.at = bs[i].at /\ b.size = n /\ ~b.free
  BY <1>2 DEF Block, BlockType
<1>4. /\ c \in BlockType /\ c.at = bs[i].at + h + n
      /\ c.size = bs[i].size - n - h /\ c.free
  <2>1. bs[i].at + h + n \in Nat /\ bs[i].size - n - h \in Nat
    BY <1>2
  <2> QED BY <2>1 DEF Block, BlockType
<1>5. t = [k \in 1..(L + 1) |-> IF k < i THEN bs[k] ELSE IF k = i THEN b
                                ELSE IF k = i + 1 THEN c ELSE bs[k - 1]]
  BY DEF Split
<1> HIDE DEF L, b, c
<1>6. t \in [1..(L + 1) -> BlockType]
  <2>1. ASSUME NEW k \in 1..(L + 1)
        PROVE  (IF k < i THEN bs[k] ELSE IF k = i THEN b
                ELSE IF k = i + 1 THEN c ELSE bs[k - 1]) \in BlockType
    <3>1. (k < i => k \in 1..L) /\ (~(k < i) /\ k # i /\ k # i + 1 => k - 1 \in 1..L)
      BY <1>1
    <3> QED BY <1>1, <1>3, <1>4, <3>1
  <2> QED BY <1>5, <2>1
<1>7. L + 1 \in Nat /\ i \in 1..(L + 1) /\ i + 1 \in 1..(L + 1)
  BY <1>1
<1>8. t \in Seq(BlockType) /\ Len(t) = L + 1
  BY <1>6, <1>7, SeqIntro
<1>9. t[i] = b /\ t[i + 1] = c
  BY <1>1, <1>5, <1>7
<1>10. \A k \in 1..(i - 1) : t[k] = bs[k]
  BY <1>1, <1>5
<1>11. \A k \in (i + 2)..(L + 1) : t[k] = bs[k - 1]
  BY <1>1, <1>5
<1> QED BY <1>3, <1>4, <1>8, <1>9, <1>10, <1>11 DEF L

LEMMA SplitSums ==
  \A x, y, h, n \in Nat : y >= n + h =>
    /\ x + h + n + h + (y - n - h) = x + h + y
    /\ x + h + n \in Nat /\ x <= x + h + n /\ x + h + n <= x + h + y
OBVIOUS

LEMMA SplitKeeps ==
  ASSUME NEW h \in Nat \ {0}, NEW bs, NEW e, Chain(h, bs, e), NEW i \in 1..Len(bs),
         bs[i].free, NEW n \in Nat, bs[i].size >= n + h, NEW t, t = Split(h, bs, i, n)
  PROVE  /\ Chain(h, t, e)
         /\ InUse(t) = InUse(bs) \cup {<<bs[i].at, n>>}
         /\ NoNeighbours(bs) => NoNeighbours(t)
<1> DEFINE L == Len(bs)
<1>1. /\ L \in Nat /\ i \in Nat /\ 1 <= i /\ i <= L
      /\ \A k \in 1..L : EndOf(h, bs[k]) \in Nat /\ bs[k].at < EndOf(h, bs[k])
      /\ \A k \in 1..L : bs[k].at \in Nat /\ bs[k].size \in Nat /\ bs[k].free \in BOOLEAN
      /\ bs \in Seq(BlockType)
  BY ChainFacts DEF Chain
<1>a. bs \in Seq(BlockType)
  BY <1>1
<1>b. /\ t \in Seq(BlockType) /\ Len(t) = Len(bs) + 1
      /\ \A k \in 1..(i - 1) : t[k] = bs[k]
  BY <1>a, SplitEffect
<1>c. \A k \in (i + 2)..(Len(bs) + 1) : t[k] = bs[k - 1]
  BY <1>a, SplitEffect
<1>2. /\ t \in Seq(BlockType) /\ Len(t) = L + 1
      /\ \A k \in 1..(i - 1) : t[k] = bs[k]
      /\ \A k \in (i + 2)..(L + 1) : t[k] = bs[k - 1]
  BY <1>b, <1>c
<1>3. /\ t[i].at = bs[i].at /\ t[i].size = n /\ ~t[i].free
      /\ t[i + 1].at = bs[i].at + h + n /\ t[i + 1].size = bs[i].size - n - h
      /\ t[i + 1].free
  BY <1>a, SplitEffect
<1> HIDE DEF L
<1>4. Adjacent(h, bs) /\ Ordered(h, bs) /\ EndOf(h, bs[L]) = e
  BY <1>1 DEF Chain, Closed, L
<1>5. /\ EndOf(h, t[i]) = t[i + 1].at /\ EndOf(h, t[i]) \in Nat
      /\ EndOf(h, t[i + 1]) = EndOf(h, bs[i])
      /\ bs[i].at <= t[i + 1].at /\ t[i].at \in Nat /\ t[i + 1].at \in Nat
      /\ EndOf(h, t[i]) <= EndOf(h, bs[i])
  <2>1. bs[i].at \in Nat /\ bs[i].size \in Nat /\ h \in Nat /\ n \in Nat
        /\ bs[i].size >= n + h
    BY <1>1
  <2>2. EndOf(h, t[i]) = bs[i].at + h + n
    BY <1>3 DEF EndOf
  <2>3. EndOf(h, t[i + 1]) = bs[i].at + h + bs[i].size
    <3>1. PICK x, y : x = bs[i].at /\ y = bs[i].size
      OBVIOUS
    <3>2. x \in Nat /\ y \in Nat /\ y >= n + h
      BY <2>1, <3>1
    <3>3. x + h + n + h + (y - n - h) = x + h + y
      BY <2>1, <3>2, SplitSums
    <3>4. EndOf(h, t[i + 1]) = x + h + n + h + (y - n - h)
      BY <1>3, <3>1 DEF EndOf
    <3> QED BY <3>1, <3>3, <3>4
  <2>4. EndOf(h, bs[i]) = bs[i].at + h + bs[i].size
    BY DEF EndOf
  <2>5. /\ bs[i].at + h + n \in Nat /\ bs[i].at <= bs[i].at + h + n
        /\ bs[i].at + h + n <= bs[i].at + h + bs[i].size
    BY <2>1, SplitSums
  <2>6. t[i].at \in Nat /\ t[i + 1].at = bs[i].at + h + n
    BY <1>3, <2>1
  <2> QED BY <2>2, <2>3, <2>4, <2>5, <2>6
(* Where block k of the split list was.                                    *)
<1> DEFINE was(k) == IF k <= i THEN k ELSE k - 1
<1>6. \A k \in 1..(L + 1) : was(k) \in 1..L
  BY <1>1
<1>7. \A k \in 1..(L + 1) : k # i /\ k # i + 1 => t[k] = bs[was(k)]
  <2>1. ASSUME NEW k \in 1..(L + 1), k # i, k # i + 1 PROVE t[k] = bs[was(k)]
    <3>1. (k \in 1..(i - 1) /\ was(k) = k) \/ (k \in (i + 2)..(L + 1) /\ was(k) = k - 1)
      BY <1>1, <2>1
    <3> QED BY <1>2, <3>1
  <2> QED BY <2>1
<1>8. was(i) = i /\ was(i + 1) = i
  BY <1>1
<1>9. \A k \in 1..(L + 1) : k # i + 1 => t[k].at = bs[was(k)].at
  BY <1>3, <1>7, <1>8
<1>10. \A k \in 1..(L + 1) : k # i => EndOf(h, t[k]) = EndOf(h, bs[was(k)])
  BY <1>5, <1>7, <1>8
<1>11. Adjacent(h, t)
  <2>1. ASSUME NEW k \in 1..(L + 1)
        PROVE  t[k].at = IF k = 1 THEN 0 ELSE EndOf(h, t[k - 1])
    <3>1. CASE k = 1
      <4>1. was(k) = 1 /\ k # i + 1 /\ 1 \in 1..L
        BY <1>1, <3>1
      <4> QED BY <1>4, <1>9, <3>1, <4>1 DEF Adjacent, L
    <3>2. CASE k = i + 1
      <4>1. k # 1 /\ k - 1 = i
        BY <1>1, <3>2
      <4>2. t[k].at = EndOf(h, t[k - 1])
        BY <1>5, <3>2, <4>1
      <4> QED BY <4>1, <4>2
    <3>3. CASE k # 1 /\ k # i + 1
      <4>1. k - 1 \in 1..(L + 1) /\ k - 1 # i /\ was(k - 1) = was(k) - 1 /\ was(k) # 1
        BY <1>1, <3>3
      <4>2. t[k].at = bs[was(k)].at /\ EndOf(h, t[k - 1]) = EndOf(h, bs[was(k) - 1])
        BY <1>9, <1>10, <3>3, <4>1
      <4>3. bs[was(k)].at = EndOf(h, bs[was(k) - 1])
        BY <1>4, <1>6, <4>1 DEF Adjacent, L
      <4> QED BY <3>3, <4>2, <4>3
    <3> QED BY <3>1, <3>2, <3>3
  <2> QED BY <1>2, <2>1 DEF Adjacent
<1>12. Closed(h, t, e)
  <2>1. L + 1 \in 1..(L + 1) /\ was(L + 1) = L /\ L + 1 # 0 /\ L + 1 # i
    BY <1>1
  <2>2. EndOf(h, t[L + 1]) = e
    BY <1>4, <1>10, <2>1
  <2> QED BY <1>2, <2>1, <2>2 DEF Closed
<1>13. Ordered(h, t)
  <2>1. ASSUME NEW j \in 1..(L + 1), NEW k \in 1..(L + 1), j < k
        PROVE  EndOf(h, t[j]) <= t[k].at
    <3>1. was(j) \in 1..L /\ was(k) \in 1..L
      BY <1>6
    <3>2. CASE j = i /\ k = i + 1
      BY <1>5, <3>2
    <3>3. CASE ~(j = i /\ k = i + 1)
      <4>1. was(j) < was(k)
        BY <1>1, <2>1, <3>3
      <4>2. EndOf(h, bs[was(j)]) <= bs[was(k)].at
        BY <1>4, <3>1, <4>1 DEF Ordered, L
      <4>3. EndOf(h, t[j]) <= EndOf(h, bs[was(j)]) /\ EndOf(h, t[j]) \in Nat
        <5>1. CASE j = i
          BY <1>5, <1>8, <5>1
        <5>2. CASE j # i
          <6>1. EndOf(h, t[j]) = EndOf(h, bs[was(j)]) /\ EndOf(h, bs[was(j)]) \in Nat
            BY <1>1, <1>10, <3>1, <5>2
          <6> HIDE DEF was
          <6> QED BY <6>1
        <5> QED BY <5>1, <5>2
      <4>4. bs[was(k)].at <= t[k].at /\ t[k].at \in Nat
        <5>1. CASE k = i + 1
          BY <1>5, <1>8, <5>1
        <5>2. CASE k # i + 1
          <6>1. t[k].at = bs[was(k)].at /\ bs[was(k)].at \in Nat
            BY <1>1, <1>9, <3>1, <5>2
          <6> HIDE DEF was
          <6> QED BY <6>1
        <5> QED BY <5>1, <5>2
      <4>5. EndOf(h, bs[was(j)]) \in Nat /\ bs[was(k)].at \in Nat
        BY <1>1, <3>1
      <4> HIDE DEF was
      <4> QED BY <4>2, <4>3, <4>4, <4>5
    <3> QED BY <3>2, <3>3
  <2> QED BY <1>2, <2>1 DEF Ordered
<1>14. InUse(t) = InUse(bs) \cup {<<bs[i].at, n>>}
  <2>1. ASSUME NEW u \in InUse(t) PROVE u \in InUse(bs) \cup {<<bs[i].at, n>>}
    <3>1. PICK k \in 1..(L + 1) : ~t[k].free /\ u = <<t[k].at, t[k].size>>
      BY <1>2, InUseMeans
    <3>2. CASE k = i
      BY <1>3, <3>1, <3>2
    <3>3. CASE k # i
      <4>1. k # i + 1
        BY <1>3, <3>1
      <4>2. t[k] = bs[was(k)] /\ was(k) \in 1..L
        BY <1>6, <1>7, <3>3, <4>1
      <4> HIDE DEF was
      <4> QED BY <3>1, <4>2, InUseMeans DEF L
    <3> QED BY <3>2, <3>3
  <2>2. ASSUME NEW u \in InUse(bs) PROVE u \in InUse(t)
    <3>1. PICK j \in 1..L : ~bs[j].free /\ u = <<bs[j].at, bs[j].size>>
      BY InUseMeans DEF L
    <3>2. j # i
      BY <3>1
    <3>3. PICK k \in 1..(L + 1) : k # i /\ k # i + 1 /\ was(k) = j
      <4>1. CASE j < i
        <5>1. j \in 1..(L + 1) /\ j # i /\ j # i + 1 /\ was(j) = j
          BY <1>1, <4>1
        <5> QED BY <5>1
      <4>2. CASE j > i
        <5>1. j + 1 \in 1..(L + 1) /\ j + 1 # i /\ j + 1 # i + 1 /\ was(j + 1) = j
          BY <1>1, <4>2
        <5> QED BY <5>1
      <4> QED BY <1>1, <3>2, <4>1, <4>2
    <3>4. t[k] = bs[j]
      BY <1>7, <3>3
    <3> QED BY <1>2, <3>1, <3>4, InUseMeans
  <2>3. <<bs[i].at, n>> \in InUse(t)
    <3>1. i \in 1..(L + 1)
      BY <1>1
    <3> QED BY <1>2, <1>3, <3>1, InUseMeans
  <2> QED BY <2>1, <2>2, <2>3
<1>15. ASSUME NoNeighbours(bs) PROVE NoNeighbours(t)
  <2>1. ASSUME NEW k \in 1..L PROVE ~(t[k].free /\ t[k + 1].free)
    <3>1. CASE k = i
      BY <1>3, <3>1
    <3>2. CASE k = i + 1
      <4>1. i \in 1..(L - 1) /\ i + 2 \in (i + 2)..(L + 1) /\ (i + 2) - 1 = i + 1 /\ k + 1 = i + 2
        BY <1>1, <3>2
      <4>2. ~(bs[i].free /\ bs[i + 1].free)
        BY <1>15, <4>1 DEF NoNeighbours, L
      <4>3. t[k + 1] = bs[i + 1]
        BY <1>2, <4>1
      <4> QED BY <4>2, <4>3
    <3>3. CASE k # i /\ k # i + 1
      <4>1. k \in 1..(L + 1) /\ t[k] = bs[was(k)]
        BY <1>1, <1>7, <3>3
      <4>2. CASE k + 1 = i
        BY <1>3, <4>2
      <4>3. CASE k + 1 # i
        <5>1. k + 1 \in 1..(L + 1) /\ k + 1 # i + 1 /\ was(k + 1) = was(k) + 1
              /\ was(k) \in 1..(L - 1)
          BY <1>1, <3>3, <4>3
        <5>2. t[k + 1] = bs[was(k) + 1]
          BY <1>7, <4>3, <5>1
        <5>3. ~(bs[was(k)].free /\ bs[was(k) + 1].free)
          BY <1>15, <5>1 DEF NoNeighbours, L
        <5> QED BY <4>1, <5>2, <5>3
      <4> QED BY <4>2, <4>3
    <3> QED BY <3>1, <3>2, <3>3
  <2>2. Len(t) - 1 = L
    BY <1>1, <1>2
  <2> QED BY <2>1, <2>2 DEF NoNeighbours
<1> QED BY <1>2, <1>11, <1>12, <1>13, <1>14, <1>15 DEF Chain

(* Marking a block free.                                                   *)
LEMMA ReturnedKeeps ==
  ASSUME NEW h \in Nat \ {0}, NEW bs, NEW e, Chain(h, bs, e), NEW i \in 1..Len(bs),
         ~bs[i].free, NEW t, t = Returned(bs, i)
  PROVE  /\ Chain(h, t, e) /\ Len(t) = Len(bs)
         /\ InUse(t) = InUse(bs) \ {<<bs[i].at, bs[i].size>>}
<1>0. PICK b \in BlockType : /\ b.at = bs[i].at /\ b.size = bs[i].size /\ b.free
                             /\ t = Put(bs, i, b)
  BY Flagged
<1>a. b.at = bs[i].at /\ b.size = bs[i].size /\ t = Put(bs, i, b)
  BY <1>0
<1>1. Chain(h, t, e) /\ Len(t) = Len(bs) /\ t[i] = b
  BY <1>a, SameTiling
<1>2. \A k \in 1..Len(bs) : k # i => t[k] = bs[k]
  BY <1>a, SameTiling
<1>3. ASSUME NEW u \in InUse(t) PROVE u \in InUse(bs) /\ u # <<bs[i].at, bs[i].size>>
  <2>1. PICK k \in 1..Len(bs) : ~t[k].free /\ u = <<t[k].at, t[k].size>>
    BY <1>1, InUseMeans
  <2>2. k # i /\ t[k] = bs[k]
    BY <1>0, <1>1, <1>2, <2>1
  <2>3. bs[k].at # bs[i].at
    BY <2>2, ChainOrder
  <2> QED BY <2>1, <2>2, <2>3, InUseMeans
<1>4. ASSUME NEW u \in InUse(bs), u # <<bs[i].at, bs[i].size>> PROVE u \in InUse(t)
  <2>1. PICK k \in 1..Len(bs) : ~bs[k].free /\ u = <<bs[k].at, bs[k].size>>
    BY InUseMeans
  <2>2. k # i /\ t[k] = bs[k]
    BY <1>2, <1>4, <2>1
  <2> QED BY <1>1, <2>1, <2>2, InUseMeans
<1>5. InUse(t) = InUse(bs) \ {<<bs[i].at, bs[i].size>>}
  BY <1>3, <1>4
<1> QED BY <1>1, <1>5

(* A new block at the end.                                                 *)
LEMMA Appended ==
  ASSUME NEW S, NEW s \in Seq(S), NEW x \in S, NEW t, t = Append(s, x)
  PROVE  /\ t \in Seq(S) /\ Len(t) = Len(s) + 1 /\ t[Len(s) + 1] = x
         /\ \A k \in 1..Len(s) : t[k] = s[k]
OBVIOUS

Grown(bs, e, n) == Append(bs, Block(e, n, FALSE))

LEMMA GrownKeeps ==
  ASSUME NEW h \in Nat \ {0}, NEW bs, NEW e \in Nat, Chain(h, bs, e), NEW n \in Nat,
         NEW t, t = Grown(bs, e, n)
  PROVE  /\ Chain(h, t, e + h + n)
         /\ InUse(t) = InUse(bs) \cup {<<e, n>>}
         /\ NoNeighbours(bs) => NoNeighbours(t)
<1> DEFINE L == Len(bs)
<1>0. PICK b : b = Block(e, n, FALSE)
  OBVIOUS
<1>1. b \in BlockType /\ b.at = e /\ b.size = n /\ ~b.free
  BY <1>0 DEF Block, BlockType
<1>2. bs \in Seq(BlockType) /\ L \in Nat
  BY ChainFacts DEF Chain
<1>a. t = Append(bs, b)
  BY <1>0 DEF Grown
<1>b. bs \in Seq(BlockType) /\ b \in BlockType
  BY <1>1, <1>2
<1>3. t \in Seq(BlockType) /\ Len(t) = L + 1 /\ t[L + 1] = b
  <2>1. t \in Seq(BlockType)
    BY <1>a, <1>b, Appended
  <2>2. Len(t) = L + 1
    BY <1>a, <1>b, Appended
  <2>3. t[L + 1] = b
    <3>1. Append(bs, b)[Len(bs) + 1] = b
      BY <1>b
    <3> QED BY <1>a, <3>1
  <2> QED BY <2>1, <2>2, <2>3
<1>4. \A k \in 1..L : t[k] = bs[k]
  BY <1>1, <1>2, <1>a, Appended
<1>5. /\ Adjacent(h, bs) /\ Closed(h, bs, e) /\ Ordered(h, bs)
      /\ \A k \in 1..L : EndOf(h, bs[k]) <= e
  BY ChainOrder DEF Chain
<1> HIDE DEF L
<1>6. EndOf(h, t[L + 1]) = e + h + n
  BY <1>1, <1>3 DEF EndOf
<1>7. Adjacent(h, t)
  <2>1. ASSUME NEW k \in 1..(L + 1)
        PROVE  t[k].at = IF k = 1 THEN 0 ELSE EndOf(h, t[k - 1])
    <3>1. CASE k = L + 1
      <4>1. CASE L = 0
        <5>1. e = 0 /\ k = 1
          BY <1>5, <3>1, <4>1 DEF Closed, L
        <5> QED BY <1>1, <1>3, <3>1, <5>1
      <4>2. CASE L # 0
        <5>1. L \in 1..L /\ k - 1 = L /\ k # 1
          BY <1>2, <3>1, <4>2
        <5>2. t[L] = bs[L] /\ EndOf(h, bs[L]) = e
          BY <1>4, <1>5, <4>2, <5>1 DEF Closed, L
        <5> QED BY <1>1, <1>3, <3>1, <5>1, <5>2
      <4> QED BY <4>1, <4>2
    <3>2. CASE k # L + 1
      <4>1. k \in 1..L /\ (k # 1 => k - 1 \in 1..L)
        BY <1>2, <3>2
      <4>2. bs[k].at = IF k = 1 THEN 0 ELSE EndOf(h, bs[k - 1])
        BY <1>5, <4>1 DEF Adjacent, L
      <4> QED BY <1>4, <4>1, <4>2
    <3> QED BY <3>1, <3>2
  <2> QED BY <1>3, <2>1 DEF Adjacent
<1>8. Closed(h, t, e + h + n)
  <2>1. L + 1 # 0
    BY <1>2
  <2> QED BY <1>3, <1>6, <2>1 DEF Closed
<1>9. Ordered(h, t)
  <2>1. ASSUME NEW j \in 1..(L + 1), NEW k \in 1..(L + 1), j < k
        PROVE  EndOf(h, t[j]) <= t[k].at
    <3>0. j \in 1..L
      BY <1>2, <2>1
    <3>1. j \in 1..L /\ t[j] = bs[j]
      BY <1>4, <3>0
    <3>2. CASE k = L + 1
      BY <1>1, <1>3, <1>5, <3>1, <3>2
    <3>3. CASE k # L + 1
      <4>1. k \in 1..L
        BY <1>2, <3>3
      <4>2. EndOf(h, bs[j]) <= bs[k].at
        BY <1>5, <2>1, <3>1, <4>1 DEF Ordered, L
      <4> QED BY <1>4, <3>1, <4>1, <4>2
    <3> QED BY <3>2, <3>3
  <2> QED BY <1>3, <2>1 DEF Ordered
<1>10. InUse(t) = InUse(bs) \cup {<<e, n>>}
  <2>1. ASSUME NEW u \in InUse(t) PROVE u \in InUse(bs) \cup {<<e, n>>}
    <3>0. PICK k \in 1..Len(t) : ~t[k].free /\ u = <<t[k].at, t[k].size>>
      BY InUseMeans
    <3>1. k \in 1..(L + 1) /\ ~t[k].free /\ u = <<t[k].at, t[k].size>>
      BY <1>3, <3>0
    <3>2. CASE k = L + 1
      BY <1>1, <1>3, <3>1, <3>2
    <3>3. CASE k # L + 1
      <4>0. k \in 1..L
        BY <1>2, <3>1, <3>3
      <4>1. k \in 1..L /\ t[k] = bs[k]
        BY <1>4, <4>0
      <4> QED BY <3>1, <4>1, InUseMeans DEF L
    <3> QED BY <3>2, <3>3
  <2>2. ASSUME NEW u \in InUse(bs) PROVE u \in InUse(t)
    <3>1. PICK k \in 1..L : ~bs[k].free /\ u = <<bs[k].at, bs[k].size>>
      BY InUseMeans DEF L
    <3>2. k \in 1..(L + 1)
      BY <1>2
    <3>3. t[k] = bs[k]
      BY <1>4
    <3> QED BY <1>3, <3>1, <3>2, <3>3, InUseMeans
  <2>3. <<e, n>> \in InUse(t)
    <3>1. L + 1 \in 1..(L + 1)
      BY <1>2
    <3> QED BY <1>1, <1>3, <3>1, InUseMeans
  <2> QED BY <2>1, <2>2, <2>3
<1>11. ASSUME NoNeighbours(bs) PROVE NoNeighbours(t)
  <2>1. ASSUME NEW k \in 1..L PROVE ~(t[k].free /\ t[k + 1].free)
    <3>1. CASE k = L
      BY <1>1, <1>3, <3>1
    <3>2. CASE k # L
      <4>1. k \in 1..(L - 1) /\ k + 1 \in 1..L
        BY <1>2, <3>2
      <4>2. ~(bs[k].free /\ bs[k + 1].free)
        BY <1>11, <4>1 DEF NoNeighbours, L
      <4> QED BY <1>4, <4>1, <4>2
    <3> QED BY <3>1, <3>2
  <2>2. Len(t) - 1 = L
    BY <1>2, <1>3
  <2> QED BY <2>1, <2>2 DEF NoNeighbours
<1> QED BY <1>3, <1>7, <1>8, <1>9, <1>10, <1>11 DEF Chain

(* The addresses of the blocks in use of a chain.                          *)
LEMMA UseFacts ==
  ASSUME NEW h \in Nat \ {0}, NEW bs, NEW e, Chain(h, bs, e)
  PROVE  /\ \A u \in InUse(bs) : /\ u[1] \in Nat /\ u[2] \in Nat /\ u = <<u[1], u[2]>>
                                 /\ u[1] < e
         /\ \A u, v \in InUse(bs) : u[1] = v[1] => u = v
         /\ \A i \in 1..Len(bs) : bs[i].free => \A u \in InUse(bs) : u[1] # bs[i].at
         /\ \A u \in InUse(bs) : u[1] + h + u[2] <= e
         /\ \A u, v \in InUse(bs) : u # v => \/ u[1] + h + u[2] <= v[1]
                                             \/ v[1] + h + v[2] <= u[1]
         /\ \A i \in 1..Len(bs), u \in InUse(bs) :
              bs[i].free => \/ u[1] + h + u[2] <= bs[i].at
                            \/ EndOf(h, bs[i]) <= u[1]
<1> DEFINE L == Len(bs)
<1>1. /\ \A k \in 1..L : bs[k].at \in Nat /\ bs[k].size \in Nat /\ bs[k].free \in BOOLEAN
      /\ \A k \in 1..L : EndOf(h, bs[k]) \in Nat /\ bs[k].at < EndOf(h, bs[k])
      /\ L \in Nat
  BY ChainFacts
<1>2. /\ \A i, j \in 1..L : bs[i].at = bs[j].at => i = j
      /\ \A i \in 1..L : EndOf(h, bs[i]) <= e /\ e \in Nat
  BY ChainOrder
<1>3. \A u \in InUse(bs) : \E k \in 1..L : ~bs[k].free /\ u = <<bs[k].at, bs[k].size>>
  BY InUseMeans
<1>4. \A i, j \in 1..L : i # j => EndOf(h, bs[i]) <= bs[j].at \/ EndOf(h, bs[j]) <= bs[i].at
  BY <1>1 DEF Chain, Ordered
<1> HIDE DEF L
<1>5. \A u \in InUse(bs) : \E k \in 1..L : /\ ~bs[k].free /\ u[1] = bs[k].at /\ u[2] = bs[k].size
                                           /\ u = <<u[1], u[2]>>
                                           /\ u[1] + h + u[2] = EndOf(h, bs[k])
  BY <1>3 DEF EndOf
<1>6. \A u \in InUse(bs) : u[1] \in Nat /\ u[2] \in Nat /\ u = <<u[1], u[2]>> /\ u[1] < e
  BY <1>1, <1>2, <1>5
<1>7. \A u, v \in InUse(bs) : u[1] = v[1] => u = v
  BY <1>2, <1>5
<1>8. \A i \in 1..L : bs[i].free => \A u \in InUse(bs) : u[1] # bs[i].at
  BY <1>2, <1>5
<1>9. \A u \in InUse(bs) : u[1] + h + u[2] <= e
  BY <1>2, <1>5
<1>10. ASSUME NEW u \in InUse(bs), NEW v \in InUse(bs), u # v
       PROVE  u[1] + h + u[2] <= v[1] \/ v[1] + h + v[2] <= u[1]
  <2>1. PICK i \in 1..L : u[1] = bs[i].at /\ u[1] + h + u[2] = EndOf(h, bs[i])
    BY <1>5
  <2>2. PICK j \in 1..L : v[1] = bs[j].at /\ v[1] + h + v[2] = EndOf(h, bs[j])
    BY <1>5
  <2>3. i # j
    BY <1>7, <1>10, <2>1, <2>2
  <2> QED BY <1>4, <2>1, <2>2, <2>3
<1>11. ASSUME NEW i \in 1..L, NEW u \in InUse(bs), bs[i].free
       PROVE  u[1] + h + u[2] <= bs[i].at \/ EndOf(h, bs[i]) <= u[1]
  <2>1. PICK j \in 1..L : u[1] = bs[j].at /\ u[1] + h + u[2] = EndOf(h, bs[j]) /\ ~bs[j].free
    BY <1>5
  <2>2. i # j
    BY <1>11, <2>1
  <2> QED BY <1>4, <2>1, <2>2
<1> QED BY <1>6, <1>7, <1>8, <1>9, <1>10, <1>11 DEF L

(* A client gets a block, or gives one back.                               *)
With(lv, p, n) == [q \in DOMAIN lv \cup {p} |-> IF q = p THEN n ELSE lv[q]]

LEMMA HeldAdd ==
  ASSUME NEW h \in Nat, NEW u, NEW lv, Held(h, u, lv), NEW a \in Nat, NEW m, NEW n, n <= m,
         \A b \in u : b[1] \in Nat /\ b[1] # a,
         NEW lw, lw = With(lv, a + h, n)
  PROVE  Held(h, u \cup {<<a, m>>}, lw)
<1> DEFINE w == u \cup {<<a, m>>}
<1>1. {b[1] + h : b \in u} = DOMAIN lv /\ \A b \in u : lv[b[1] + h] <= b[2]
  BY DEF Held
<1>2. DOMAIN lw = DOMAIN lv \cup {a + h} /\ lw[a + h] = n
  BY DEF With
<1>3. \A q \in DOMAIN lv : q # a + h => lw[q] = lv[q]
  BY DEF With
<1>4. {b[1] + h : b \in w} = DOMAIN lw
  <2>1. ASSUME NEW q \in DOMAIN lw PROVE \E b \in w : q = b[1] + h
    <3>1. CASE q \in DOMAIN lv
      <4>1. PICK b \in u : q = b[1] + h
        BY <1>1, <3>1
      <4> QED BY <4>1
    <3>2. CASE q = a + h
      <4>1. <<a, m>> \in w /\ <<a, m>>[1] = a
        OBVIOUS
      <4> HIDE DEF w
      <4> QED BY <3>2, <4>1
    <3> QED BY <1>2, <3>1, <3>2
  <2>2. ASSUME NEW b \in w PROVE b[1] + h \in DOMAIN lw
    <3>1. CASE b \in u
      BY <1>1, <1>2, <3>1
    <3>2. CASE b = <<a, m>>
      BY <1>2, <3>2
    <3> QED BY <3>1, <3>2
  <2> HIDE DEF w
  <2> QED BY <2>1, <2>2
<1>5. ASSUME NEW b \in w PROVE lw[b[1] + h] <= b[2]
  <2>1. CASE b \in u
    <3>1. b[1] + h \in DOMAIN lv /\ b[1] + h # a + h
      BY <1>1, <2>1
    <3> QED BY <1>1, <1>3, <2>1, <3>1
  <2>2. CASE b = <<a, m>>
    BY <1>2, <2>2
  <2> QED BY <2>1, <2>2
<1> QED BY <1>4, <1>5 DEF Held

LEMMA HeldRemove ==
  ASSUME NEW h \in Nat, NEW u, NEW lv, Held(h, u, lv), NEW v \in u,
         \A b \in u : b[1] \in Nat, \A b, c \in u : b[1] = c[1] => b = c,
         NEW lw, lw = Restrict(lv, DOMAIN lv \ {v[1] + h})
  PROVE  Held(h, u \ {v}, lw)
<1>1. {b[1] + h : b \in u} = DOMAIN lv /\ \A b \in u : lv[b[1] + h] <= b[2]
  BY DEF Held
<1>2. DOMAIN lw = DOMAIN lv \ {v[1] + h} /\ \A q \in DOMAIN lw : lw[q] = lv[q]
  BY DEF Restrict
<1>3. \A b \in u \ {v} : b[1] + h # v[1] + h
  OBVIOUS
<1>4. ASSUME NEW q \in DOMAIN lw PROVE \E b \in u \ {v} : q = b[1] + h
  BY <1>1, <1>2
<1>5. ASSUME NEW b \in u \ {v} PROVE b[1] + h \in DOMAIN lw /\ lw[b[1] + h] <= b[2]
  <2>1. b[1] + h \in DOMAIN lv /\ b[1] + h # v[1] + h
    BY <1>1, <1>3
  <2> QED BY <1>1, <1>2, <2>1
<1>6. {b[1] + h : b \in u \ {v}} = DOMAIN lw
  BY <1>4, <1>5
<1> QED BY <1>5, <1>6 DEF Held

-----------------------------------------------------------------------------
LEMMA ModSmall == \A n \in Nat \ {0} : \A x \in 0..(n - 1) : x % n = x
OBVIOUS

LEMMA ModOnce == \A n \in Nat \ {0} : \A x \in n..(2 * n - 1) : x % n = x - n
OBVIOUS

LEMMA DivDefined ==
  ASSUME NEW p \in Nat \ {0}, NEW x \in Nat
  PROVE  /\ x \div p \in Nat
         /\ p * (x \div p) <= x /\ x < p * (x \div p) + p
OBVIOUS

(* What kmalloc and umalloc make of a request.                             *)
LEMMA RoundedFacts ==
  ASSUME NothingWraps, kind \in Kinds, NEW n \in Asks
  PROVE  /\ n \in Nat /\ Rounded(n) \in Nat /\ n <= Rounded(n)
         /\ kind.hdr + Rounded(n) \in 0..(Word - 1)
<1>1. Word \in Nat \ {0} /\ n \in 0..(Word - 1)
  BY HeapAssumption
<1>2. kind.hdr \in Nat \ {0} /\ kind.align \in Nat \ {0}
  BY KindTypes
<1>3. n + kind.align + kind.hdr <= Word
  BY DEF NothingWraps
<1> DEFINE x == n + kind.align - 1
<1> DEFINE q == x \div kind.align
<1>4. x \in 0..(Word - 1) /\ x \in Nat /\ n \in Nat
  BY <1>1, <1>2, <1>3
<1>5. x % Word = x
  <2> HIDE DEF x
  <2> QED BY <1>1, <1>4, ModSmall
<1>6. Rounded(n) = q * kind.align
  BY <1>5 DEF Rounded
<1>7. q \in Nat /\ kind.align * q <= x /\ x < kind.align * q + kind.align
  <2> HIDE DEF x
  <2> QED BY <1>2, <1>4, DivDefined
<1> HIDE DEF q
<1>8. q * kind.align = kind.align * q /\ kind.align * q \in Nat
  BY <1>2, <1>7
<1>9. Rounded(n) \in Nat /\ Rounded(n) <= x /\ x < Rounded(n) + kind.align
  BY <1>6, <1>7, <1>8
<1> QED BY <1>1, <1>2, <1>3, <1>4, <1>9

(* A step that hands out m bytes behind the header at a, n of them asked   *)
(* for.                                                                    *)
Allots(a, m, n) ==
  /\ kind' = kind /\ brk' \in 0..kind.size
  /\ Chain(kind.hdr, blocks', brk')
  /\ NoNeighbours(blocks) => NoNeighbours(blocks')
  /\ n <= m /\ \A b \in InUse(blocks) : b[1] # a
  /\ InUse(blocks') = InUse(blocks) \cup {<<a, m>>}
  /\ Gets(a + kind.hdr, n)

LEMMA ReuseAllots ==
  ASSUME NothingWraps, IndInv, NEW n \in Asks, Reuse(n)
  PROVE  \E a, m \in Nat : Allots(a, m, n)
<1> DEFINE h == kind.hdr
<1> DEFINE r == Rounded(n)
<1>1. h \in Nat \ {0} /\ kind.align \in Nat \ {0} /\ kind.size \in Nat
  BY KindTypes DEF IndInv, TypeInv
<1>2. Word \in Nat \ {0} /\ kind.size + kind.align < Word
  BY HeapAssumption DEF NothingWraps, IndInv, TypeInv
<1>3. n \in Nat /\ r \in Nat /\ n <= r
  BY RoundedFacts DEF IndInv, TypeInv
<1>4. Chain(h, blocks, brk) /\ brk \in 0..kind.size
  BY DEF IndInv, TypeInv
<1>5. PICK i \in DOMAIN blocks : /\ FirstFit(i, r) /\ blocks' = Taken(i, r)
                                 /\ Gets(Payload(blocks[i]), n)
                                 /\ UNCHANGED <<kind, brk>>
  BY DEF Reuse
<1>6. i \in 1..Len(blocks)
  BY <1>1, <1>4, <1>5, ChainFacts
<1>7. blocks[i].at \in Nat /\ blocks[i].size \in Nat
  BY <1>1, <1>4, <1>6, ChainFacts
<1>8. blocks[i].free /\ blocks[i].size >= r
  BY <1>5 DEF FirstFit, Fits
<1>9. Gets(blocks[i].at + h, n) /\ kind' = kind /\ brk' = brk
  BY <1>5 DEF Payload
<1>10. EndOf(h, blocks[i]) <= brk
  BY <1>1, <1>4, <1>6, ChainOrder
<1>11. r + h + kind.align \in 0..(Word - 1)
  BY <1>1, <1>2, <1>3, <1>4, <1>7, <1>8, <1>10 DEF EndOf
<1>12. (r + h + kind.align) % Word = r + h + kind.align
  BY <1>2, <1>11, ModSmall
<1>13. \A b \in InUse(blocks) : b[1] # blocks[i].at
  BY <1>1, <1>4, <1>6, <1>8, UseFacts
<1>14. CASE blocks[i].size >= r + h + kind.align
  <2>1. blocks' = Split(h, blocks, i, r)
    BY <1>5, <1>12, <1>14 DEF Taken, Split, Rest, Payload
  <2>2. blocks[i].size >= r + h
    BY <1>1, <1>3, <1>7, <1>14
  <2> HIDE DEF h, r
  <2>3. /\ Chain(h, blocks', brk)
        /\ InUse(blocks') = InUse(blocks) \cup {<<blocks[i].at, r>>}
        /\ NoNeighbours(blocks) => NoNeighbours(blocks')
    BY <1>1, <1>3, <1>4, <1>6, <1>8, <2>1, <2>2, SplitKeeps
  <2>4. Allots(blocks[i].at, r, n)
    BY <1>3, <1>4, <1>9, <1>13, <2>3 DEF Allots, h
  <2> QED BY <1>3, <1>7, <2>4
<1>15. CASE ~(blocks[i].size >= r + h + kind.align)
  <2>1. blocks' = Given(blocks, i)
    BY <1>5, <1>12, <1>15 DEF Taken, Given
  <2> HIDE DEF h, r
  <2>3. /\ Chain(h, blocks', brk)
        /\ InUse(blocks') = InUse(blocks) \cup {<<blocks[i].at, blocks[i].size>>}
        /\ NoNeighbours(blocks) => NoNeighbours(blocks')
    BY <1>1, <1>4, <1>6, <1>8, <2>1, TakenWhole
  <2>4. n <= blocks[i].size
    BY <1>3, <1>7, <1>8
  <2>5. Allots(blocks[i].at, blocks[i].size, n)
    BY <1>4, <1>9, <1>13, <2>3, <2>4 DEF Allots, h
  <2> QED BY <1>7, <2>5
<1> QED BY <1>14, <1>15

LEMMA GrowAllots ==
  ASSUME NothingWraps, IndInv, NEW n \in Asks, Grow(n)
  PROVE  \E a, m \in Nat : Allots(a, m, n)
<1> DEFINE h == kind.hdr
<1> DEFINE r == Rounded(n)
<1>1. h \in Nat \ {0} /\ kind.size \in Nat /\ kind.size < Word
  BY KindTypes DEF IndInv, TypeInv
<1>2. Word \in Nat \ {0}
  BY HeapAssumption
<1>3. n \in Nat /\ r \in Nat /\ n <= r /\ h + r \in 0..(Word - 1)
  BY RoundedFacts DEF IndInv, TypeInv
<1>4. Chain(h, blocks, brk) /\ brk \in 0..kind.size /\ brk \in Nat
  BY <1>1 DEF IndInv, TypeInv
<1>5. Increment(n) = h + r
  <2> HIDE DEF r, h
  <2>1. (h + r) % Word = h + r
    BY <1>2, <1>3, ModSmall
  <2> QED BY <2>1 DEF Increment, r, h
<1>6. /\ ~SbrkFails(h + r) /\ brk' = (brk + (h + r)) % Word
      /\ blocks' = Grown(blocks, brk, r)
      /\ Gets(brk + h, n) /\ kind' = kind
  BY <1>5 DEF Grow, Grown
<1> HIDE DEF r, h
<1>x. PICK x \in Nat : x = brk + (h + r) /\ x = brk + h + r
  BY <1>1, <1>3, <1>4
(* Had the sum wrapped, the break would have gone down and SYS_SBRK failed.*)
<1>7. brk' = x % Word /\ ~(x % Word < brk) /\ ~(x % Word > kind.size)
  BY <1>1, <1>3, <1>6, <1>x DEF SbrkFails
<1>8. x < Word
  <2>1. ASSUME ~(x < Word) PROVE FALSE
    <3>1. x \in Word..(2 * Word - 1) /\ x - Word < brk
      BY <1>1, <1>2, <1>3, <1>4, <1>x, <2>1
    <3>2. x % Word = x - Word
      BY <1>2, <3>1, ModOnce
    <3> QED BY <1>7, <3>1, <3>2
  <2> QED BY <2>1
<1>9. x % Word = x
  <2>1. x \in 0..(Word - 1)
    BY <1>2, <1>8
  <2> QED BY <1>2, <2>1, ModSmall
<1>10. brk' = brk + h + r /\ brk' \in 0..kind.size
  BY <1>1, <1>7, <1>9, <1>x
<1>11. /\ Chain(h, blocks', brk + h + r)
       /\ InUse(blocks') = InUse(blocks) \cup {<<brk, r>>}
       /\ NoNeighbours(blocks) => NoNeighbours(blocks')
  <2>1. blocks' = Grown(blocks, brk, r)
    BY <1>6
  <2>2. brk \in Nat /\ r \in Nat /\ h \in Nat \ {0} /\ Chain(h, blocks, brk)
    BY <1>1, <1>3, <1>4
  <2>3. Chain(h, blocks', brk + h + r)
    BY <2>1, <2>2, GrownKeeps
  <2>4. InUse(blocks') = InUse(blocks) \cup {<<brk, r>>}
    <3>1. InUse(Grown(blocks, brk, r)) = InUse(blocks) \cup {<<brk, r>>}
      BY <2>2, GrownKeeps
    <3> QED BY <2>1, <3>1
  <2>5. NoNeighbours(blocks) => NoNeighbours(blocks')
    BY <2>1, <2>2, GrownKeeps
  <2> QED BY <2>3, <2>4, <2>5
<1>12. \A b \in InUse(blocks) : b[1] # brk
  <2>1. \A b \in InUse(blocks) : b[1] \in Nat /\ b[1] < brk
    BY <1>1, <1>4, UseFacts
  <2> QED BY <1>4, <2>1
<1>13. Allots(brk, r, n)
  BY <1>3, <1>6, <1>10, <1>11, <1>12 DEF Allots, h
<1> QED BY <1>3, <1>4, <1>13

(* A step that takes back the block v, whose bytes begin at p.             *)
TakesBack(v, p) ==
  /\ kind' = kind /\ brk' = brk
  /\ Chain(kind.hdr, blocks', brk)
  /\ kind.user => NoNeighbours(blocks')
  /\ p = v[1] + kind.hdr
  /\ InUse(blocks') = InUse(blocks) \ {v}
  /\ live' = Restrict(live, DOMAIN live \ {p})

LEMMA FreeTakesBack ==
  ASSUME IndInv, NEW p \in DOMAIN live, Free(p)
  PROVE  \E v \in InUse(blocks) : TakesBack(v, p)
<1> DEFINE h == kind.hdr
<1>1. h \in Nat \ {0} /\ kind.user \in BOOLEAN
  BY KindTypes DEF IndInv, TypeInv
<1>2. Chain(h, blocks, brk) /\ Held(h, InUse(blocks), live)
  BY DEF IndInv
<1>3. PICK i \in DOMAIN blocks :
        /\ Payload(blocks[i]) = p
        /\ blocks' = IF kind.user THEN u_coalesce(Marked(i)) ELSE MergeNext(Marked(i), i)
        /\ live' = Restrict(live, DOMAIN live \ {p})
        /\ UNCHANGED <<kind, brk>>
  BY DEF Free
<1>4. i \in 1..Len(blocks) /\ Len(blocks) \in Nat
  BY <1>1, <1>2, ChainFacts
<1>5. blocks[i].at \in Nat /\ blocks[i].at + h = p
  BY <1>1, <1>2, <1>3, <1>4, ChainFacts DEF Payload
(* The pointer is that of a block in use, and of one block only.           *)
<1>6. ~blocks[i].free
  <2>1. PICK u \in InUse(blocks) : u[1] + h = p
    BY <1>2 DEF Held
  <2>2. u[1] \in Nat
    BY <1>1, <1>2, UseFacts
  <2>3. u[1] = blocks[i].at
    BY <1>1, <1>5, <2>1, <2>2
  <2>4. blocks[i].free => u[1] # blocks[i].at
    BY <1>1, <1>2, <1>4, UseFacts
  <2> QED BY <2>3, <2>4
<1> DEFINE v == <<blocks[i].at, blocks[i].size>>
<1>7. v \in InUse(blocks) /\ v[1] = blocks[i].at
  BY <1>4, <1>6, InUseMeans
<1> DEFINE t == Marked(i)
<1>8. t = Returned(blocks, i)
  BY DEF Marked, Returned
<1>9. blocks' = IF kind.user THEN u_coalesce(t) ELSE MergeNext(t, i)
  BY <1>3
<1>a. live' = Restrict(live, DOMAIN live \ {p}) /\ kind' = kind /\ brk' = brk
  BY <1>3
<1> HIDE DEF h, t
<1>10. Chain(h, t, brk) /\ Len(t) = Len(blocks) /\ InUse(t) = InUse(blocks) \ {v}
  BY <1>1, <1>2, <1>4, <1>6, <1>8, ReturnedKeeps
<1> HIDE DEF v
<1>11. CASE kind.user
  <2>1. blocks' = u_coalesce(t)
    BY <1>9, <1>11
  <2>2. Chain(h, blocks', brk) /\ InUse(blocks') = InUse(t) /\ NoNeighbours(blocks')
    BY <1>1, <1>10, <2>1, CoalesceKeeps DEF h
  <2>3. TakesBack(v, p)
    BY <1>5, <1>7, <1>10, <1>a, <2>2 DEF TakesBack, h
  <2> QED BY <1>7, <2>3
<1>12. CASE ~kind.user
  <2>1. blocks' = MergeNext(t, i)
    BY <1>9, <1>12
  <2>2. Chain(h, blocks', brk) /\ InUse(blocks') = InUse(t)
    <3>1. CASE BothFree(t, i)
      <4>1. i \in 1..(Len(t) - 1) /\ t[i].free /\ t[i + 1].free
        BY <1>4, <1>10, <3>1 DEF BothFree
      <4>2. blocks' = Merged(t, i)
        BY <2>1, <3>1 DEF MergeNext
      <4> QED BY <1>1, <1>10, <4>1, <4>2, MergedKeeps DEF h
    <3>2. CASE ~BothFree(t, i)
      BY <1>10, <2>1, <3>2 DEF MergeNext
    <3> QED BY <3>1, <3>2
  <2>3. TakesBack(v, p)
    BY <1>5, <1>7, <1>10, <1>12, <1>a, <2>2 DEF TakesBack, h
  <2> QED BY <1>7, <2>3
<1> QED BY <1>11, <1>12

-----------------------------------------------------------------------------
LEMMA InitInv == Init => IndInv
<1> SUFFICES ASSUME Init PROVE IndInv
  OBVIOUS
<1> DEFINE h == kind.hdr
<1>1. kind \in Kinds
  BY DEF Init
<1>2. h \in Nat \ {0} /\ kind.size \in Nat /\ h <= kind.size /\ kind.user \in BOOLEAN
  BY <1>1, KindTypes
<1>3. DOMAIN live = {}
  BY DEF Init
<1>4. CASE kind.user
  <2>1. blocks = <<>> /\ brk = 0
    BY <1>4 DEF Init
  <2>2. blocks \in Seq(BlockType) /\ Len(blocks) = 0
    BY <2>1
  <2>3. Chain(h, blocks, brk) /\ NoNeighbours(blocks)
    BY <2>1, <2>2 DEF Chain, Adjacent, Closed, Ordered, NoNeighbours
  <2>4. InUse(blocks) = {}
    BY <2>2 DEF InUse
  <2> QED BY <1>1, <1>2, <1>3, <2>1, <2>3, <2>4 DEF IndInv, TypeInv, Held
<1>5. CASE ~kind.user
  <2>1. PICK b : b = Block(0, kind.size - h, TRUE)
    OBVIOUS
  <2>2. b \in BlockType /\ b.at = 0 /\ b.size = kind.size - h /\ b.free
    BY <1>2, <2>1 DEF Block, BlockType
  <2>3. blocks = <<b>> /\ brk = kind.size
    BY <1>5, <2>1 DEF Init
  <2>4. blocks \in Seq(BlockType) /\ Len(blocks) = 1 /\ blocks[1] = b
    BY <2>2, <2>3
  <2>5. \A k \in 1..1 : k = 1
    OBVIOUS
  <2>6. EndOf(h, b) = kind.size
    BY <1>2, <2>2 DEF EndOf
  <2>7. Chain(h, blocks, brk)
    BY <2>2, <2>3, <2>4, <2>5, <2>6 DEF Chain, Adjacent, Closed, Ordered
  <2>8. InUse(blocks) = {}
    BY <2>2, <2>4, <2>5 DEF InUse
  <2> QED BY <1>1, <1>2, <1>3, <1>5, <2>3, <2>7, <2>8 DEF IndInv, TypeInv, Held
<1> QED BY <1>2, <1>4, <1>5

LEMMA AllotsInv ==
  ASSUME IndInv, NEW n \in Nat, NEW a \in Nat, NEW m \in Nat, Allots(a, m, n)
  PROVE  IndInv'
<1> DEFINE h == kind.hdr
<1>1. h \in Nat \ {0} /\ kind \in Kinds
  BY KindTypes DEF IndInv, TypeInv
<1>2. Chain(h, blocks, brk) /\ Held(h, InUse(blocks), live)
  BY DEF IndInv
<1>3. /\ live' = With(live, a + h, n)
      /\ InUse(blocks') = InUse(blocks) \cup {<<a, m>>}
      /\ n <= m /\ \A b \in InUse(blocks) : b[1] # a
  BY DEF Allots, Gets, With
<1>4. \A b \in InUse(blocks) : b[1] \in Nat /\ b[1] # a
  BY <1>1, <1>2, <1>3, UseFacts
<1>5. Held(h, InUse(blocks) \cup {<<a, m>>}, live')
  <2> HIDE DEF h
  <2>1. h \in Nat
    BY <1>1
  <2> QED BY <1>2, <1>3, <1>4, <2>1, HeldAdd
<1>6. \A p \in DOMAIN live' : live'[p] \in Nat
  BY <1>3 DEF IndInv, TypeInv, With
<1>7. /\ kind' = kind /\ brk' \in 0..kind.size /\ Chain(h, blocks', brk')
      /\ kind.user => NoNeighbours(blocks')
  BY DEF Allots, IndInv
<1>8. TypeInv'
  BY <1>1, <1>6, <1>7 DEF TypeInv
<1> QED BY <1>3, <1>5, <1>7, <1>8 DEF IndInv

LEMMA TakesBackInv ==
  ASSUME IndInv, NEW p, NEW v \in InUse(blocks), TakesBack(v, p)
  PROVE  IndInv'
<1> DEFINE h == kind.hdr
<1>1. h \in Nat \ {0} /\ kind \in Kinds
  BY KindTypes DEF IndInv, TypeInv
<1>2. Chain(h, blocks, brk) /\ Held(h, InUse(blocks), live)
  BY DEF IndInv
<1>3. /\ live' = Restrict(live, DOMAIN live \ {v[1] + h})
      /\ InUse(blocks') = InUse(blocks) \ {v}
  BY DEF TakesBack
<1>4. \A b \in InUse(blocks) : b[1] \in Nat
  BY <1>1, <1>2, UseFacts
<1>5. \A b, c \in InUse(blocks) : b[1] = c[1] => b = c
  BY <1>1, <1>2, UseFacts
<1>6. Held(h, InUse(blocks) \ {v}, live')
  <2> HIDE DEF h
  <2>1. h \in Nat
    BY <1>1
  <2> QED BY <1>2, <1>3, <1>4, <1>5, <2>1, HeldRemove
<1>7. \A p2 \in DOMAIN live' : live'[p2] \in Nat
  BY <1>3 DEF IndInv, TypeInv, Restrict
<1>8. /\ kind' = kind /\ brk' = brk /\ Chain(h, blocks', brk)
      /\ kind.user => NoNeighbours(blocks')
  BY DEF TakesBack
<1>9. TypeInv'
  BY <1>1, <1>7, <1>8 DEF TypeInv, IndInv
<1> QED BY <1>3, <1>6, <1>8, <1>9 DEF IndInv

(* What a step of the heap does.                                           *)
LEMMA StepCases ==
  ASSUME NothingWraps, IndInv, [Next]_vars
  PROVE  \/ \E n \in Asks : \E a, m \in Nat : Allots(a, m, n)
         \/ \E p \in DOMAIN live : \E v \in InUse(blocks) : TakesBack(v, p)
         \/ UNCHANGED vars
<1>1. ASSUME NEW n \in Asks, kmalloc(n)
      PROVE  UNCHANGED vars \/ \E a, m \in Nat : Allots(a, m, n)
  BY <1>1, ReuseAllots DEF kmalloc, Refuse
<1>2. ASSUME NEW n \in Asks, umalloc(n)
      PROVE  UNCHANGED vars \/ \E a, m \in Nat : Allots(a, m, n)
  BY <1>2, ReuseAllots, GrowAllots DEF umalloc, Refuse
<1>3. ASSUME NEW p \in DOMAIN live, Free(p)
      PROVE  \E v \in InUse(blocks) : TakesBack(v, p)
  BY <1>3, FreeTakesBack
<1>4. CASE Next
  BY <1>1, <1>2, <1>3, <1>4 DEF Next
<1> QED BY <1>4

LEMMA NextInv == NothingWraps /\ IndInv /\ [Next]_vars => IndInv'
<1> SUFFICES ASSUME NothingWraps, IndInv, [Next]_vars PROVE IndInv'
  OBVIOUS
<1>1. ASSUME NEW n \in Asks, NEW a \in Nat, NEW m \in Nat, Allots(a, m, n) PROVE IndInv'
  <2>1. n \in Nat
    BY HeapAssumption
  <2> QED BY <1>1, <2>1, AllotsInv
<1>2. ASSUME NEW p \in DOMAIN live, NEW v \in InUse(blocks), TakesBack(v, p) PROVE IndInv'
  BY <1>2, TakesBackInv
<1>3. CASE UNCHANGED vars
  BY <1>3 DEF vars, IndInv, TypeInv
<1> QED BY <1>1, <1>2, <1>3, StepCases

(* A heap stays consistent through every sequence of calls.                *)
THEOREM Consistent == ASSUME NothingWraps PROVE Spec => []IndInv
BY InitInv, NextInv, PTL DEF Spec

-----------------------------------------------------------------------------
(* Splitting, merging and growing neither lose nor share a byte: the list  *)
(* of either heap covers it from its first byte to its end for ever.       *)
THEOREM HeapTiled == ASSUME NothingWraps PROVE Spec => []Tiles
<1>1. ASSUME IndInv PROVE Tiles
  <2> DEFINE h == kind.hdr
  <2>1. h \in Nat \ {0} /\ Chain(h, blocks, brk) /\ brk \in 0..kind.size
    BY <1>1, KindTypes DEF IndInv, TypeInv
  <2>2. /\ Len(blocks) \in Nat /\ DOMAIN blocks = 1..Len(blocks)
        /\ \A k \in 1..Len(blocks) : blocks[k].at \in Nat /\ blocks[k].size \in Nat
    BY <2>1, ChainFacts
  <2>3. blocks = <<>> => brk = 0
    BY <2>1 DEF Chain, Closed
  <2>4. \A b : End(b) = EndOf(h, b)
    BY DEF End, EndOf, Payload
  <2>5. \A i \in 1..Len(blocks) :
          blocks[i].at = IF i = 1 THEN 0 ELSE EndOf(h, blocks[i - 1])
    BY <2>1 DEF Chain, Adjacent
  <2>6. ASSUME NEW i \in 1..Len(blocks), i = Len(blocks) PROVE EndOf(h, blocks[i]) = brk
    <3>1. Len(blocks) # 0
      BY <2>2
    <3> QED BY <2>1, <2>6, <3>1 DEF Chain, Closed
  <2>7. \A i \in 1..Len(blocks) : blocks[i].size >= 0
    BY <2>2
  <2> HIDE DEF h
  <2> QED BY <2>1, <2>2, <2>3, <2>4, <2>5, <2>6, <2>7 DEF Tiles
<1> QED BY <1>1, Consistent, PTL

(* The blocks marked in use are those that clients hold, each with at      *)
(* least the bytes asked for: a free never hits a block twice or the wrong *)
(* one.                                                                    *)
THEOREM ClientsOwn == ASSUME NothingWraps PROVE Spec => []LiveExact
<1>1. ASSUME IndInv PROVE LiveExact
  <2> DEFINE h == kind.hdr
  <2> DEFINE used == {i \in DOMAIN blocks : ~blocks[i].free}
  <2>1. h \in Nat \ {0} /\ Chain(h, blocks, brk)
    BY <1>1, KindTypes DEF IndInv, TypeInv
  <2>2. DOMAIN blocks = 1..Len(blocks)
    BY <2>1, ChainFacts
  <2>3. /\ {b[1] + h : b \in InUse(blocks)} = DOMAIN live
        /\ \A b \in InUse(blocks) : live[b[1] + h] <= b[2]
    BY <1>1 DEF IndInv, Held
  <2>4. ASSUME NEW i \in used
        PROVE  Payload(blocks[i]) \in DOMAIN live /\ live[Payload(blocks[i])] <= blocks[i].size
    <3>1. PICK b : b = <<blocks[i].at, blocks[i].size>>
      OBVIOUS
    <3>2. b \in InUse(blocks) /\ b[1] + h = Payload(blocks[i]) /\ b[2] = blocks[i].size
      BY <2>2, <3>1, InUseMeans DEF Payload
    <3> QED BY <2>3, <3>2
  <2>5. ASSUME NEW p \in DOMAIN live PROVE \E i \in used : p = Payload(blocks[i])
    <3>1. PICK b \in InUse(blocks) : p = b[1] + h
      BY <2>3
    <3>2. PICK i \in 1..Len(blocks) : ~blocks[i].free /\ b = <<blocks[i].at, blocks[i].size>>
      BY InUseMeans
    <3> QED BY <2>2, <3>1, <3>2 DEF Payload
  <2>6. {Payload(blocks[i]) : i \in used} = DOMAIN live
    <3> HIDE DEF used
    <3> QED BY <2>4, <2>5
  <2> QED BY <2>4, <2>6 DEF LiveExact
<1> QED BY <1>1, Consistent, PTL

(* In a program's heap no two free blocks ever lie side by side: the walk  *)
(* of u_coalesce after each ufree merges them all.                         *)
THEOREM FullyMerged == ASSUME NothingWraps PROVE Spec => []Coalesced
<1>1. ASSUME IndInv PROVE Coalesced
  <2>1. ASSUME kind.user, NEW i \in DOMAIN blocks, BothFree(blocks, i) PROVE FALSE
    <3>1. kind.hdr \in Nat \ {0} /\ Chain(kind.hdr, blocks, brk)
      BY <1>1, KindTypes DEF IndInv, TypeInv
    <3>2. DOMAIN blocks = 1..Len(blocks) /\ Len(blocks) \in Nat
      BY <3>1, ChainFacts
    <3>3. i \in 1..(Len(blocks) - 1) /\ blocks[i].free /\ blocks[i + 1].free
      BY <2>1, <3>2 DEF BothFree
    <3>4. NoNeighbours(blocks)
      BY <1>1, <2>1 DEF IndInv
    <3> QED BY <3>3, <3>4 DEF NoNeighbours
  <2> QED BY <2>1 DEF Coalesced
<1> QED BY <1>1, Consistent, PTL

(* A step that hands out a block is a grant of the arena.                  *)
LEMMA AllotsGrants ==
  ASSUME IndInv, NEW n \in Asks, NEW a \in Nat, NEW m \in Nat, Allots(a, m, n)
  PROVE  /\ a + kind.hdr \in 0..kind.size
         /\ Abstract!Grant(a + kind.hdr, n)
<1> DEFINE h == kind.hdr
<1> DEFINE q == a + h
<1>1. h \in Nat \ {0} /\ kind.size \in Nat /\ n \in Nat
  BY KindTypes, HeapAssumption DEF IndInv, TypeInv
<1>2. Chain(h, blocks, brk) /\ Held(h, InUse(blocks), live)
      /\ \A p \in DOMAIN live : live[p] \in Nat
  BY DEF IndInv, TypeInv
<1>3. /\ live' = [p \in DOMAIN live \cup {q} |-> IF p = q THEN n ELSE live[p]]
      /\ InUse(blocks') = InUse(blocks) \cup {<<a, m>>}
      /\ n <= m /\ \A b \in InUse(blocks) : b[1] # a
      /\ brk' \in 0..kind.size /\ Chain(h, blocks', brk')
  BY DEF Allots, Gets
<1>4. PICK v : v = <<a, m>>
  OBVIOUS
<1>5. v[1] = a /\ v[2] = m /\ v \in InUse(blocks')
  BY <1>3, <1>4
<1> HIDE DEF h
<1>6. a + h + m <= brk'
  <2>1. v[1] + h + v[2] <= brk'
    BY <1>1, <1>3, <1>5, UseFacts
  <2> QED BY <1>5, <2>1
<1>7. ASSUME NEW p \in DOMAIN live PROVE p # q /\ (q + n <= p \/ p + live[p] <= q)
  <2>1. PICK b \in InUse(blocks) : p = b[1] + h /\ live[p] <= b[2]
    BY <1>2 DEF Held
  <2>2. b \in InUse(blocks') /\ b # v /\ b[1] # a
    BY <1>3, <1>5, <2>1
  <2>3. b[1] \in Nat /\ b[2] \in Nat
    BY <1>1, <1>3, <2>2, UseFacts
  <2>4. v[1] + h + v[2] <= b[1] \/ b[1] + h + b[2] <= v[1]
    BY <1>1, <1>3, <1>5, <2>2, UseFacts
  <2>5. a + h + m <= b[1] \/ b[1] + h + b[2] <= a
    BY <1>5, <2>4
  <2>6. live[p] \in Nat
    BY <1>2
  <2> QED BY <1>1, <1>3, <2>1, <2>2, <2>3, <2>5, <2>6
<1>8. q \in 0..kind.size /\ q + n <= kind.size
  BY <1>1, <1>3, <1>6
<1>9. q \notin DOMAIN live /\ \A p \in DOMAIN live : Abstract!Apart(q, n, p, live[p])
  BY <1>7 DEF Abstract!Apart
<1>10. Abstract!Grant(q, n)
  BY <1>3, <1>8, <1>9 DEF Abstract!Grant
<1> QED BY <1>8, <1>10 DEF h

(* Both heaps implement the arena: what kmalloc and umalloc return lies in *)
(* the heap, is as large as asked and shares no byte with what is held.    *)
THEOREM ImplementsArena == ASSUME NothingWraps PROVE Spec => HeapPromise
<1>1. Init => Abstract!ArenaInit
  <2> SUFFICES ASSUME Init PROVE Abstract!ArenaInit
    OBVIOUS
  <2>1. kind.size \in Nat
    BY KindTypes DEF Init
  <2> QED BY <2>1 DEF Init, Abstract!ArenaInit
<1>2. ASSUME IndInv, [Next]_vars
      PROVE  [Abstract!ArenaNext]_<<live, kind.size>>
  <2>1. ASSUME NEW n \in Asks, NEW a \in Nat, NEW m \in Nat, Allots(a, m, n)
        PROVE  Abstract!ArenaNext
    <3>1. kind' = kind
      BY <2>1 DEF Allots
    <3>2. a + kind.hdr \in 0..kind.size /\ Abstract!Grant(a + kind.hdr, n)
      BY <1>2, <2>1, AllotsGrants
    <3> QED BY <3>1, <3>2 DEF Abstract!ArenaNext
  <2>2. ASSUME NEW p \in DOMAIN live, NEW v \in InUse(blocks), TakesBack(v, p)
        PROVE  Abstract!ArenaNext
    <3>1. kind' = kind /\ live' = Restrict(live, DOMAIN live \ {p})
      BY <2>2 DEF TakesBack
    <3>2. Abstract!Release(p)
      BY <3>1 DEF Abstract!Release, Restrict, Abstract!Restrict
    <3> QED BY <3>1, <3>2 DEF Abstract!ArenaNext
  <2>3. CASE UNCHANGED vars
    BY <2>3 DEF vars
  <2> QED BY <1>2, <2>1, <2>2, <2>3, StepCases
<1> QED BY <1>1, <1>2, Consistent, PTL DEF Spec, HeapPromise, Abstract!ArenaSpec
=============================================================================
