---------------------------- MODULE ConsoleProof ---------------------------
(***************************************************************************)
(* Proofs about Keyboard.tla and Terminal.tla.                             *)
(*                                                                         *)
(* The first part is about the keyboard, for every ring size and every set *)
(* of keys: the ring that the interrupt handler fills and the reader       *)
(* empties, without a lock, is the bounded queue of TypeAhead.tla.         *)
(*                                                                         *)
(* The second is about what is typed, for every size of the screen and of  *)
(* the buffers and every text that is printed: first what a fold prints,   *)
(* then what one character and what a string does to the screen, then the  *)
(* steps of the line editors.  At the end the shell implements             *)
(* Readline.tla.                                                           *)
(***************************************************************************)
EXTENDS Keyboard, Terminal, SequenceTheorems, WellFoundedInduction, TLAPS

Index == 0..(BufSize - 1)
Codes == [key : Letters \cup Arrows, shift : BOOLEAN] \cup {Nothing}

(* The types of the state.                                                 *)
TypeOK == /\ buffer \in [Index -> Codes]
          /\ head \in Index /\ tail \in Index
          /\ shift \in BOOLEAN /\ extended \in BOOLEAN
          /\ down \subseteq Keys
          /\ prefixed \in Arrows \cup {Nothing}
          /\ reader \in {"test", "load", "advance", "hlt", "asleep"}

(* extended is set exactly between a prefix and the key it belongs to.     *)
PrefixInv == extended <=> prefixed # Nothing

(* What the reader knows while it takes a character stays true, whatever   *)
(* the interrupt puts into the ring meanwhile.                             *)
ReaderInv == /\ reader \in {"load", "advance"} => tail # head
             /\ reader = "advance" => c = buffer[tail]

(* The inductive invariant.                                                *)
IndInv == TypeOK /\ PrefixInv /\ ReaderInv

-----------------------------------------------------------------------------
LEMMA SizeType == BufSize \in Nat \ {0}
BY KeyboardAssumption

(* Positions in the ring.                                                  *)
LEMMA ModSmall == \A n \in Nat \ {0} : \A x \in 0..(n - 1) : x % n = x
OBVIOUS

LEMMA ModOnce == \A n \in Nat \ {0} : \A x \in n..(2 * n - 1) : x % n = x - n
OBVIOUS

LEMMA NextPosition ==
  ASSUME NEW x \in Index
  PROVE  /\ (x + 1) % BufSize = IF x + 1 = BufSize THEN 0 ELSE x + 1
         /\ (x + 1) % BufSize \in Index
<1>1. (x + 1) % BufSize = IF x + 1 = BufSize THEN 0 ELSE x + 1
  BY SizeType, ModSmall, ModOnce DEF Index
<1> QED BY <1>1, SizeType DEF Index

(* A ring b from position t up to h: how many characters it holds, where   *)
(* the i-th of them is, and all of them.                                   *)
Fill(h, t) == (h + BufSize - t) % BufSize
Position(t, i) == (t + i - 1) % BufSize
Ring(b, h, t) == [i \in 1..Fill(h, t) |-> b[Position(t, i)]]

LEMMA FillValue ==
  ASSUME NEW h \in Index, NEW t \in Index
  PROVE  /\ Fill(h, t) = IF t <= h THEN h - t ELSE h + BufSize - t
         /\ Fill(h, t) \in 0..(BufSize - 1)
<1> USE SizeType DEF Index
<1>1. Fill(h, t) = IF t <= h THEN h - t ELSE h + BufSize - t
  <2>1. CASE t <= h
    <3>1. h + BufSize - t \in BufSize..(2 * BufSize - 1)
      BY <2>1
    <3> QED BY <2>1, <3>1, ModOnce DEF Fill
  <2>2. CASE t > h
    <3>1. h + BufSize - t \in 0..(BufSize - 1)
      BY <2>2
    <3> QED BY <2>2, <3>1, ModSmall DEF Fill
  <2> QED BY <2>1, <2>2
<1> QED BY <1>1

LEMMA PositionValue ==
  ASSUME NEW t \in Index, NEW i \in 1..BufSize
  PROVE  /\ Position(t, i) = IF t + i - 1 < BufSize THEN t + i - 1 ELSE t + i - 1 - BufSize
         /\ Position(t, i) \in Index
<1> USE SizeType DEF Index
<1>1. Position(t, i) = IF t + i - 1 < BufSize THEN t + i - 1 ELSE t + i - 1 - BufSize
  <2>1. CASE t + i - 1 < BufSize
    <3>1. t + i - 1 \in 0..(BufSize - 1)
      BY <2>1
    <3> QED BY <2>1, <3>1, ModSmall DEF Position
  <2>2. CASE t + i - 1 >= BufSize
    <3>1. t + i - 1 \in BufSize..(2 * BufSize - 1)
      BY <2>2
    <3> QED BY <2>2, <3>1, ModOnce DEF Position
  <2> QED BY <2>1, <2>2
<1> QED BY <1>1

LEMMA RingIsSeq ==
  ASSUME NEW b \in [Index -> Codes], NEW h \in Index, NEW t \in Index
  PROVE  /\ Ring(b, h, t) \in Seq(Codes)
         /\ Len(Ring(b, h, t)) = Fill(h, t)
         /\ \A i \in 1..Fill(h, t) : Ring(b, h, t)[i] = b[Position(t, i)]
<1>1. Fill(h, t) \in Nat /\ Fill(h, t) <= BufSize
  BY FillValue, SizeType
<1>2. \A i \in 1..Fill(h, t) : b[Position(t, i)] \in Codes
  BY <1>1, PositionValue, SizeType
<1> QED BY <1>1, <1>2, IsASeq DEF Ring

(* What enqueue takes for a full ring is one that holds as much as it can, *)
(* and what the reader takes for an empty one is empty.                    *)
LEMMA FullAndEmpty ==
  ASSUME NEW b \in [Index -> Codes], NEW h \in Index, NEW t \in Index
  PROVE  /\ (h + 1) % BufSize # t <=> Len(Ring(b, h, t)) < BufSize - 1
         /\ t # h <=> Ring(b, h, t) # << >>
<1>1. /\ Fill(h, t) = IF t <= h THEN h - t ELSE h + BufSize - t
      /\ (h + 1) % BufSize = IF h + 1 = BufSize THEN 0 ELSE h + 1
  BY FillValue, NextPosition
<1>2. (h + 1) % BufSize # t <=> Fill(h, t) < BufSize - 1
  BY <1>1, SizeType DEF Index
<1>3. t # h <=> Fill(h, t) # 0
  BY <1>1, SizeType DEF Index
<1>4. Ring(b, h, t) # << >> <=> Len(Ring(b, h, t)) # 0
  BY RingIsSeq, EmptySeq
<1> QED BY <1>2, <1>3, <1>4, RingIsSeq

(* Storing at h and moving h on appends, unless the ring is full.          *)
SameBut(b, b2, h) == \A k \in Index \ {h} : b2[k] = b[k]

LEMMA StoreAppends ==
  ASSUME NEW b \in [Index -> Codes], NEW h \in Index, NEW t \in Index,
         NEW b2 \in [Index -> Codes], SameBut(b, b2, h),
         NEW h2 \in Index, h2 = (h + 1) % BufSize, h2 # t
  PROVE  Ring(b2, h2, t) = Ring(b, h, t) \o <<b2[h]>>
<1> DEFINE ch == b2[h]
           n == Fill(h, t)
           old == Ring(b, h, t)
           new == Ring(b2, h2, t)
<1>1. h2 = IF h + 1 = BufSize THEN 0 ELSE h + 1
  BY NextPosition
<1>2. /\ n = IF t <= h THEN h - t ELSE h + BufSize - t
      /\ Fill(h2, t) = IF t <= h2 THEN h2 - t ELSE h2 + BufSize - t
  BY <1>1, FillValue
<1>3. n \in Nat /\ n + 1 \in Nat /\ n + 1 <= BufSize /\ Fill(h2, t) = n + 1
  BY <1>1, <1>2, SizeType DEF Index
<1>4. <<ch>> \in Seq(Codes) /\ Len(<<ch>>) = 1 /\ <<ch>>[1] = ch
  OBVIOUS
<1>5. /\ old \in Seq(Codes) /\ Len(old) = n
      /\ \A i \in 1..n : old[i] = b[Position(t, i)]
  BY RingIsSeq
<1>6. /\ new \in Seq(Codes) /\ Len(new) = n + 1
      /\ \A i \in 1..(n + 1) : new[i] = b2[Position(t, i)]
  <2>1. /\ new \in Seq(Codes) /\ Len(new) = Fill(h2, t)
        /\ \A i \in 1..Fill(h2, t) : new[i] = b2[Position(t, i)]
    BY RingIsSeq
  <2> QED BY <1>3, <2>1
<1> HIDE DEF ch, n, old, new
<1>7. /\ old \o <<ch>> \in Seq(Codes) /\ Len(old \o <<ch>>) = n + 1
      /\ \A i \in 1..n : (old \o <<ch>>)[i] = old[i]
      /\ (old \o <<ch>>)[n + 1] = ch
  BY <1>3, <1>4, <1>5, ConcatProperties
<1>8. ASSUME NEW i \in 1..(n + 1) PROVE new[i] = (old \o <<ch>>)[i]
  <2>1. /\ Position(t, i) = IF t + i - 1 < BufSize THEN t + i - 1 ELSE t + i - 1 - BufSize
        /\ Position(t, i) \in Index
    <3>1. i \in 1..BufSize
      BY <1>3, SizeType
    <3> QED BY <3>1, PositionValue
  <2>2. CASE i \in 1..n
    <3>1. Position(t, i) # h
      BY <1>2, <1>3, <2>1, <2>2, SizeType DEF Index
    <3> QED BY <1>5, <1>6, <1>7, <2>1, <2>2, <3>1 DEF SameBut
  <2>3. CASE i = n + 1
    <3>1. Position(t, i) = h
      BY <1>2, <1>3, <2>1, <2>3, SizeType DEF Index
    <3> QED BY <1>6, <1>7, <2>3, <3>1 DEF ch
  <2>4. i \in 1..n \/ i = n + 1
    BY <1>3
  <2> QED BY <2>2, <2>3, <2>4
<1>9. new = old \o <<ch>>
  BY <1>3, <1>6, <1>7, <1>8, SeqEqual
<1> QED BY <1>9 DEF ch, old, new

(* Moving t on takes the first character.                                  *)
LEMMA AdvanceTakes ==
  ASSUME NEW b \in [Index -> Codes], NEW h \in Index, NEW t \in Index, t # h,
         NEW t2, t2 = (t + 1) % BufSize
  PROVE  /\ Head(Ring(b, h, t)) = b[t]
         /\ Ring(b, h, t2) = Tail(Ring(b, h, t))
<1> DEFINE n == Fill(h, t)
           old == Ring(b, h, t)
           new == Ring(b, h, t2)
<1>1. /\ t2 \in Index /\ old # << >>
      /\ t2 = IF t + 1 = BufSize THEN 0 ELSE t + 1
  BY NextPosition, FullAndEmpty
<1>2. /\ n = IF t <= h THEN h - t ELSE h + BufSize - t
      /\ Fill(h, t2) = IF t2 <= h THEN h - t2 ELSE h + BufSize - t2
  BY <1>1, FillValue
<1>3. n \in Nat /\ n - 1 \in Nat /\ n < BufSize /\ Fill(h, t2) = n - 1
  BY <1>1, <1>2, SizeType DEF Index
<1>4. /\ old \in Seq(Codes) /\ Len(old) = n
      /\ \A i \in 1..n : old[i] = b[Position(t, i)]
  BY RingIsSeq
<1>5. /\ new \in Seq(Codes) /\ Len(new) = n - 1
      /\ \A i \in 1..(n - 1) : new[i] = b[Position(t2, i)]
  <2>1. /\ new \in Seq(Codes) /\ Len(new) = Fill(h, t2)
        /\ \A i \in 1..Fill(h, t2) : new[i] = b[Position(t2, i)]
    BY <1>1, RingIsSeq
  <2> QED BY <1>3, <2>1
<1> HIDE DEF n, old, new
<1>6. /\ Tail(old) \in Seq(Codes) /\ Len(Tail(old)) = n - 1
      /\ \A i \in 1..(n - 1) : Tail(old)[i] = old[i + 1]
  BY <1>1, <1>4, HeadTailProperties
<1>7. ASSUME NEW i \in 1..(n - 1) PROVE new[i] = Tail(old)[i]
  <2>1. i \in 1..BufSize /\ i + 1 \in 1..BufSize /\ i + 1 \in 1..n
    BY <1>3, SizeType
  <2>2. /\ Position(t2, i) = IF t2 + i - 1 < BufSize THEN t2 + i - 1 ELSE t2 + i - 1 - BufSize
        /\ Position(t, i + 1) = IF t + (i + 1) - 1 < BufSize THEN t + (i + 1) - 1
                                ELSE t + (i + 1) - 1 - BufSize
    BY <1>1, <2>1, PositionValue
  <2>3. Position(t2, i) = Position(t, i + 1)
    BY <1>1, <1>3, <2>1, <2>2, SizeType DEF Index
  <2> QED BY <1>4, <1>5, <1>6, <2>1, <2>3
<1>8. new = Tail(old)
  BY <1>3, <1>5, <1>6, <1>7, SeqEqual
<1>9. Head(old) = b[t]
  <2>1. 1 \in 1..BufSize /\ 1 \in 1..n
    BY <1>3, SizeType
  <2>2. Position(t, 1) = IF t + 1 - 1 < BufSize THEN t + 1 - 1 ELSE t + 1 - 1 - BufSize
    BY <2>1, PositionValue
  <2>3. Position(t, 1) = t
    BY <2>2, SizeType DEF Index
  <2> QED BY <1>4, <2>1, <2>3
<1> QED BY <1>8, <1>9 DEF old, new

-----------------------------------------------------------------------------
LEMMA WaitingIsRing ==
  Waiting = Ring(buffer, head, tail) /\ Waiting' = Ring(buffer', head', tail')
BY DEF Waiting, Ring, Fill, Position

(* enqueue, in terms of the characters that wait; whatever the reader is   *)
(* about to take stays where it is.                                        *)
RingKept == /\ buffer' \in [Index -> Codes] /\ head' \in Index
            /\ tail # head => head' # tail /\ buffer'[tail] = buffer[tail]

LEMMA EnqueueAppends ==
  ASSUME TypeOK, NEW ch \in Codes, enqueue(ch), tail' = tail
  PROVE  /\ RingKept
         /\ Waiting' = IF Len(Waiting) < BufSize - 1 THEN Waiting \o <<ch>> ELSE Waiting
<1>1. /\ buffer \in [Index -> Codes] /\ head \in Index /\ tail \in Index
      /\ (head + 1) % BufSize # tail <=> Len(Waiting) < BufSize - 1
  BY WaitingIsRing, FullAndEmpty DEF TypeOK
<1>2. CASE (head + 1) % BufSize # tail
  <2>1. /\ buffer' \in [Index -> Codes] /\ buffer'[head] = ch
        /\ SameBut(buffer, buffer', head)
        /\ head' = (head + 1) % BufSize
    BY <1>1, <1>2 DEF enqueue, SameBut
  <2>2. head' \in Index
    BY <1>1, <2>1, NextPosition
  <2>3. RingKept
    BY <1>1, <1>2, <2>1, <2>2 DEF RingKept, SameBut
  <2>4. Ring(buffer', head', tail) = Ring(buffer, head, tail) \o <<ch>>
    <3>1. head' # tail
      BY <1>2, <2>1
    <3>2. Ring(buffer', head', tail) = Ring(buffer, head, tail) \o <<buffer'[head]>>
      BY ONLY <1>1, <2>1, <2>2, <3>1, StoreAppends
    <3> QED BY <2>1, <3>2
  <2> QED BY <1>1, <1>2, <2>3, <2>4, WaitingIsRing
<1>3. CASE (head + 1) % BufSize = tail
  <2>1. buffer' = buffer /\ head' = head
    BY <1>3 DEF enqueue, ringVars
  <2> QED BY <1>1, <1>3, <2>1, WaitingIsRing DEF RingKept
<1> QED BY <1>2, <1>3

LEMMA SameRing ==
  ASSUME TypeOK, UNCHANGED ringVars, tail' = tail
  PROVE  RingKept /\ Waiting' = Waiting
BY WaitingIsRing DEF TypeOK, ringVars, RingKept

(* A press: the characters of the key are appended, in the case that the   *)
(* flag says.                                                              *)
LEMMA PressEffect ==
  ASSUME IndInv, NEW k \in Keys, Press(k)
  PROVE  /\ RingKept
         /\ Waiting' = IF Len(Waiting) < BufSize - 1 THEN Waiting \o Typed(k, shift)
                       ELSE Waiting
         /\ shift' \in BOOLEAN /\ (shift' <=> shift \/ k \in ShiftKeys)
         /\ extended' = FALSE /\ prefixed' = Nothing /\ down' = down \cup {k}
         /\ tail' = tail /\ c' = c /\ got' = got
<1> USE KeyboardAssumption
<1>1. /\ NextIs(k) /\ PressArrives(k) /\ down' = down \cup {k} /\ prefixed' = Nothing
      /\ tail' = tail /\ c' = c /\ got' = got
      /\ TypeOK /\ PrefixInv
  BY DEF Press, Irq, IndInv
<1>2. Waiting \o << >> = Waiting
  BY <1>1, WaitingIsRing, RingIsSeq, ConcatEmptySeq DEF TypeOK
<1>3. CASE extended
  <2>1. k \in Arrows /\ k \notin Letters /\ k \notin ShiftKeys
    BY <1>1, <1>3 DEF NextIs, TypeOK, PrefixInv
  <2>2. /\ Typed(k, shift) = <<[key |-> k, shift |-> FALSE]>>
        /\ [key |-> k, shift |-> FALSE] \in Codes
    BY <2>1 DEF Typed, Codes
  <2>3. enqueue([key |-> k, shift |-> FALSE]) /\ extended' = FALSE /\ shift' = shift
    BY <1>1, <1>3, <2>1 DEF PressArrives
  <2>4. shift \in BOOLEAN
    BY <1>1 DEF TypeOK
  <2> QED BY <1>1, <2>1, <2>2, <2>3, <2>4, EnqueueAppends
<1>4. CASE ~extended
  <2>1. prefixed = Nothing /\ k \notin Arrows
    BY <1>1, <1>4 DEF NextIs, PrefixInv
  <2>2. CASE k \in ShiftKeys
    <3>1. Typed(k, shift) = << >>
      BY <2>1, <2>2 DEF Typed
    <3>2. shift' = TRUE /\ extended' = extended /\ UNCHANGED ringVars
      BY <1>1, <1>4, <2>2 DEF PressArrives
    <3>3. extended' = FALSE
      BY <1>1, <1>4, <3>2 DEF TypeOK
    <3> QED BY <1>1, <1>2, <2>2, <3>1, <3>2, <3>3, SameRing
  <2>3. CASE k \in Letters
    <3>1. k \notin ShiftKeys
      BY <2>3
    <3>2. shift \in BOOLEAN /\ [key |-> k, shift |-> shift] \in Codes
      BY <1>1, <2>3 DEF TypeOK, Codes
    <3>3. Typed(k, shift) = <<[key |-> k, shift |-> shift]>>
      BY <2>3 DEF Typed
    <3>4. enqueue([key |-> k, shift |-> shift]) /\ shift' = shift /\ extended' = extended
      BY <1>1, <1>4, <2>3, <3>1 DEF PressArrives, keyVars
    <3>5. extended' = FALSE
      BY <1>1, <1>4, <3>4 DEF TypeOK
    <3> QED BY <1>1, <3>1, <3>2, <3>3, <3>4, <3>5, EnqueueAppends
  <2>4. CASE k \notin ShiftKeys /\ k \notin Letters
    <3>1. Typed(k, shift) = << >>
      BY <2>1, <2>4 DEF Typed
    <3>2. UNCHANGED ringVars /\ shift' = shift /\ extended' = extended
      BY <1>1, <1>4, <2>4 DEF PressArrives, keyVars
    <3>3. extended' = FALSE /\ shift \in BOOLEAN
      BY <1>1, <1>4, <3>2 DEF TypeOK
    <3> QED BY <1>1, <1>2, <2>4, <3>1, <3>2, <3>3, SameRing
  <2> QED BY <2>2, <2>3, <2>4
<1> QED BY <1>3, <1>4

(* The reader's steps; only Advance takes a character.                     *)
LEMMA AdvanceEffect ==
  ASSUME IndInv, Read, reader = "advance"
  PROVE  /\ tail' \in Index /\ reader' = "test"
         /\ Waiting # << >> /\ got' = Head(Waiting) /\ Waiting' = Tail(Waiting)
<1>1. /\ buffer \in [Index -> Codes] /\ head \in Index /\ tail \in Index
      /\ tail # head /\ c = buffer[tail]
      /\ buffer' = buffer /\ head' = head
      /\ tail' = (tail + 1) % BufSize /\ got' = c /\ reader' = "test"
  BY DEF IndInv, TypeOK, ReaderInv, Read, Test, Load, Advance, Hlt, Step, ringVars
<1>2. tail' \in Index
  BY <1>1, NextPosition
<1>3. Head(Ring(buffer, head, tail)) = buffer[tail]
  BY <1>1, AdvanceTakes
<1>4. Ring(buffer, head, tail') = Tail(Ring(buffer, head, tail))
  BY ONLY <1>1, <1>2, AdvanceTakes
<1>5. Waiting # << >>
  BY <1>1, WaitingIsRing, FullAndEmpty
<1> QED BY <1>1, <1>2, <1>3, <1>4, <1>5, WaitingIsRing

-----------------------------------------------------------------------------
LEMMA InitIndInv == Init => IndInv
<1> SUFFICES ASSUME Init PROVE IndInv
  OBVIOUS
<1>1. 0 \in Index
  BY SizeType DEF Index
<1>2. buffer \in [Index -> Codes]
  BY DEF Init, Index, Codes
<1> QED BY <1>1, <1>2 DEF Init, IndInv, TypeOK, PrefixInv, ReaderInv

(* What a step of the keyboard leaves of the reader's knowledge.           *)
LEMMA IrqKeepsReader ==
  ASSUME IndInv, RingKept, Irq
  PROVE  /\ ReaderInv'
         /\ reader' \in {"test", "load", "advance", "hlt", "asleep"}
         /\ tail' \in Index
BY DEF IndInv, TypeOK, ReaderInv, RingKept, Irq, Woken

LEMMA PrefixPreserves == ASSUME IndInv, NEW k \in Keys, Prefix(k) PROVE IndInv'
<1>1. RingKept
  BY SameRing DEF IndInv, Prefix, PrefixArrives, Irq
<1>2. ReaderInv' /\ reader' \in {"test", "load", "advance", "hlt", "asleep"} /\ tail' \in Index
  BY <1>1, IrqKeepsReader DEF Prefix
<1>3. TypeOK' /\ PrefixInv'
  BY <1>1, <1>2, KeyboardAssumption DEF IndInv, TypeOK, PrefixInv, RingKept, Prefix, PrefixArrives
<1> QED BY <1>2, <1>3 DEF IndInv

LEMMA PressPreserves == ASSUME IndInv, NEW k \in Keys, Press(k) PROVE IndInv'
<1>1. /\ RingKept
      /\ shift' \in BOOLEAN /\ extended' = FALSE /\ prefixed' = Nothing
      /\ down' = down \cup {k}
  BY PressEffect
<1>2. ReaderInv' /\ reader' \in {"test", "load", "advance", "hlt", "asleep"} /\ tail' \in Index
  BY <1>1, IrqKeepsReader DEF Press
<1>3. TypeOK' /\ PrefixInv'
  BY <1>1, <1>2 DEF IndInv, TypeOK, PrefixInv, RingKept
<1> QED BY <1>2, <1>3 DEF IndInv

LEMMA ReleasePreserves == ASSUME IndInv, NEW k \in Keys, Release(k) PROVE IndInv'
<1>1. RingKept
  BY SameRing DEF IndInv, Release, ReleaseArrives, Irq
<1>2. ReaderInv' /\ reader' \in {"test", "load", "advance", "hlt", "asleep"} /\ tail' \in Index
  BY <1>1, IrqKeepsReader DEF Release
<1>3. TypeOK' /\ PrefixInv'
  BY <1>1, <1>2 DEF IndInv, TypeOK, PrefixInv, RingKept, Release, ReleaseArrives
<1> QED BY <1>2, <1>3 DEF IndInv

LEMMA ReadPreserves == ASSUME IndInv, Read PROVE IndInv'
<1>1. CASE reader = "advance"
  <2>1. tail' \in Index /\ reader' = "test"
    BY <1>1, AdvanceEffect
  <2> QED BY <2>1 DEF IndInv, TypeOK, PrefixInv, ReaderInv, Read, ringVars, keyVars
<1>2. CASE reader # "advance"
  BY <1>2 DEF IndInv, TypeOK, PrefixInv, ReaderInv, Read, Test, Load, Advance, Hlt, Step,
              ringVars, keyVars
<1> QED BY <1>1, <1>2

LEMMA NextIndInv == IndInv /\ [Next]_vars => IndInv'
<1> SUFFICES ASSUME IndInv, [Next]_vars PROVE IndInv'
  OBVIOUS
<1>1. CASE \E k \in Keys : Prefix(k) \/ Press(k) \/ Release(k)
  BY <1>1, PrefixPreserves, PressPreserves, ReleasePreserves
<1>2. CASE Read
  BY <1>2, ReadPreserves
<1>3. CASE Timer
  BY <1>3 DEF IndInv, TypeOK, PrefixInv, ReaderInv, Timer, Woken, ringVars, keyVars
<1>4. CASE UNCHANGED vars
  BY <1>4 DEF IndInv, TypeOK, PrefixInv, ReaderInv, vars, ringVars, keyVars, readerVars
<1> QED BY <1>1, <1>2, <1>3, <1>4 DEF Next

(* The character that the reader has in hand is still in the ring, at      *)
(* tail, when it moves tail on (keyboard.c:10-12).                         *)
THEOREM ReaderSafe == Spec => []IndInv
BY InitIndInv, NextIndInv, PTL DEF Spec

-----------------------------------------------------------------------------
(* The refinement.                                                         *)
LEMMA InitWaiting == Init => Waiting = << >>
<1> SUFFICES ASSUME Init PROVE Waiting = << >>
  OBVIOUS
<1>1. TypeOK /\ tail = head
  BY InitIndInv DEF Init, IndInv
<1> QED BY <1>1, WaitingIsRing, FullAndEmpty DEF TypeOK

(* Everything but a press, a release and Advance leaves the queue alone.   *)
LEMMA QuietStep ==
  ASSUME IndInv, [Next]_vars, ~(\E k \in Keys : Press(k) \/ Release(k)),
         ~(Read /\ reader = "advance")
  PROVE  Waiting' = Waiting /\ got' = got /\ down' = down /\ shift' = shift
<1>1. /\ UNCHANGED ringVars /\ tail' = tail
      /\ got' = got /\ down' = down /\ shift' = shift
  BY DEF Next, Prefix, PrefixArrives, Irq, Read, Test, Load, Advance, Hlt, Step, Timer,
         vars, ringVars, keyVars, readerVars
<1> QED BY <1>1, SameRing DEF IndInv

LEMMA ReleaseEffect ==
  ASSUME IndInv, NEW k \in Keys, Release(k)
  PROVE  /\ Waiting' = Waiting /\ got' = got /\ down' = down \ {k}
         /\ shift' = IF k \in ShiftKeys THEN FALSE ELSE shift
<1>1. UNCHANGED ringVars /\ tail' = tail
  BY DEF Release, ReleaseArrives, Irq
<1>2. Waiting' = Waiting
  BY <1>1, SameRing DEF IndInv
<1> QED BY <1>2 DEF Release, ReleaseArrives, Irq

(* The shift flag follows the Shift keys: no step that leaves them alone   *)
(* changes it.                                                             *)
LEMMA NextQueue == IndInv /\ [Next]_vars => [Queue!Next]_(Queue!vars)
<1> SUFFICES ASSUME IndInv, [Next]_vars PROVE [Queue!Next]_(Queue!vars)
  OBVIOUS
<1>0. shift \in BOOLEAN
  BY DEF IndInv, TypeOK
<1>1. ASSUME NEW k \in Keys, Press(k) PROVE Queue!Press(k)
  <2>1. /\ Waiting' = IF Len(Waiting) < BufSize - 1 THEN Waiting \o Typed(k, shift)
                      ELSE Waiting
        /\ shift' \in BOOLEAN /\ (shift' <=> shift \/ k \in ShiftKeys)
        /\ down' = down \cup {k} /\ got' = got
    BY <1>1, PressEffect
  <2>2. shift' = (shift \/ k \in ShiftKeys)
    BY <1>0, <2>1
  <2> QED BY <2>1, <2>2 DEF Queue!Press
<1>2. ASSUME NEW k \in Keys, Release(k) PROVE Queue!Release(k)
  <2>1. /\ Waiting' = Waiting /\ got' = got /\ down' = down \ {k}
        /\ shift' = IF k \in ShiftKeys THEN FALSE ELSE shift
        /\ k \in down
    BY <1>2, ReleaseEffect DEF Release
  <2>2. shift' = (shift /\ k \notin ShiftKeys)
    BY <1>0, <2>1
  <2> QED BY <2>1, <2>2 DEF Queue!Release
<1>3. CASE Read /\ reader = "advance"
  <2>1. Waiting # << >> /\ got' = Head(Waiting) /\ Waiting' = Tail(Waiting)
    BY <1>3, AdvanceEffect
  <2>2. down' = down /\ shift' = shift
    BY <1>3 DEF Read, keyVars
  <2> QED BY <2>1, <2>2 DEF Queue!Next, Queue!Get
<1>4. CASE /\ ~(\E k \in Keys : Press(k) \/ Release(k))
           /\ ~(Read /\ reader = "advance")
  BY <1>4, QuietStep DEF Queue!vars
<1> QED BY <1>1, <1>2, <1>3, <1>4 DEF Queue!Next

(* The ring is a queue of BufSize - 1 characters that loses none, repeats  *)
(* none and keeps their order, although the interrupt can strike between   *)
(* any two accesses of the reader; the case of each is that of the last    *)
(* press or release of a Shift key, however many there are.                *)
THEOREM ImplementsQueue == Spec => QueueSpec
<1>1. Init => Queue!Init
  BY InitWaiting DEF Init, Queue!Init
<1>2. IndInv /\ [Next]_vars => [Queue!Next]_(Queue!vars)
  BY NextQueue
<1> QED BY <1>1, <1>2, ReaderSafe, PTL DEF Spec, QueueSpec, Queue!Spec

(* Half of what keyboard.c:64 says of the flag, "is a Shift key currently  *)
(* held".  The other half fails when one of two Shift keys is released.    *)
NotStuck == shift => down \cap ShiftKeys # {}

(* While no Shift key is held the driver types small letters: the release  *)
(* of any Shift key clears the flag, and each that is held gets one        *)
(* (keyboard.c:86-92).                                                     *)
THEOREM ShiftNeverSticks == Spec => []NotStuck
<1>1. Init => NotStuck
  BY DEF Init, NotStuck
<1>2. IndInv /\ NotStuck /\ [Next]_vars => NotStuck'
  <2> SUFFICES ASSUME IndInv, NotStuck, [Next]_vars PROVE NotStuck'
    OBVIOUS
  <2>1. CASE \E k \in Keys : Press(k)
    BY <2>1, PressEffect DEF NotStuck
  <2>2. CASE \E k \in Keys : Release(k)
    BY <2>2, ReleaseEffect DEF NotStuck
  <2>3. CASE Read /\ reader = "advance"
    BY <2>3 DEF Read, keyVars, NotStuck
  <2>4. CASE /\ ~(\E k \in Keys : Press(k) \/ Release(k))
             /\ ~(Read /\ reader = "advance")
    BY <2>4, QuietStep DEF NotStuck
  <2> QED BY <2>1, <2>2, <2>3, <2>4
<1> QED BY <1>1, <1>2, ReaderSafe, PTL DEF Spec

-----------------------------------------------------------------------------
(* Printing.                                                              *)
(* Induction on the naturals, with a set in place of the predicate.        *)
LEMMA SetInduction ==
  ASSUME NEW T, 0 \in T, \A n \in Nat : n \in T => n + 1 \in T
  PROVE  Nat \subseteq T
<1> DEFINE Missed == Nat \ T
           Less == OpToRel(<, Nat)
<1>1. SUFFICES ASSUME Missed # {} PROVE FALSE
  OBVIOUS
<1>2. IsWellFoundedOn(Less, Nat)
  BY NatLessThanWellFounded
<1>3. \E x \in Missed : \A y \in Missed : ~ (<<y, x>> \in Less)
  <2> HIDE DEF Less
  <2> Missed \subseteq Nat
    OBVIOUS
  <2> QED BY <1>1, <1>2, WFMin
<1>4. PICK x \in Missed : \A y \in Missed : ~ (<<y, x>> \in Less)
  BY <1>3
<1>5. \A y \in Missed : ~(y < x)
  BY <1>4 DEF OpToRel
<1>6. x # 0 /\ x - 1 \in Nat
  OBVIOUS
<1> QED BY <1>5, <1>6

LEMMA MaxTop ==
  ASSUME NEW n \in Nat, NEW t \in SUBSET (1..n), n \in t
  PROVE  Max(t) = n
<1>1. n \in t /\ \A y \in t : n >= y
  OBVIOUS
<1>2. ASSUME NEW x \in t, \A y \in t : x >= y PROVE x = n
  BY <1>1, <1>2
<1>3. Max(t) \in t /\ \A y \in t : Max(t) >= y
  <2>1. \E x \in t : \A y \in t : x >= y
    BY <1>1
  <2> QED BY <2>1, Zenon DEF Max
<1> QED BY <1>2, <1>3

(* iter of the fold that prints s.                                         *)
Prints(f, scr0, s, n) ==
  f = [t \in SUBSET (1..n) |->
         IF t = {} THEN scr0 ELSE kprint_char(f[t \ {Max(t)}], s[Max(t)])]

LEMMA PrintsExists ==
  ASSUME NEW scr0, NEW s
  PROVE  \A n \in Nat : \E f : Prints(f, scr0, s, n)
<1> DEFINE T == {n \in Nat : \E f : Prints(f, scr0, s, n)}
<1>1. 0 \in T
  <2> DEFINE f == [t \in SUBSET (1..0) |-> scr0]
  <2>1. Prints(f, scr0, s, 0)
    BY DEF Prints
  <2> QED BY <2>1
<1>2. ASSUME NEW n \in Nat, n \in T PROVE n + 1 \in T
  <2>1. PICK g : Prints(g, scr0, s, n)
    BY <1>2
  <2> DEFINE f == [t \in SUBSET (1..(n + 1)) |->
                     IF n + 1 \in t THEN kprint_char(g[t \ {n + 1}], s[n + 1])
                     ELSE g[t]]
             Rhs(t) == IF t = {} THEN scr0 ELSE kprint_char(f[t \ {Max(t)}], s[Max(t)])
  <2>2. ASSUME NEW t \in SUBSET (1..(n + 1)) PROVE f[t] = Rhs(t)
    <3>1. CASE n + 1 \in t
      <4>1. Max(t) = n + 1
        BY <3>1, MaxTop
      <4>2. f[t \ {n + 1}] = g[t \ {n + 1}]
        OBVIOUS
      <4> QED BY <3>1, <4>1, <4>2
    <3>2. CASE n + 1 \notin t
      <4>1. t \in SUBSET (1..n)
        BY <3>2
      <4>2. f[t] = g[t] /\ f[t \ {Max(t)}] = g[t \ {Max(t)}]
        BY <3>2
      <4>3. g[t] = IF t = {} THEN scr0 ELSE kprint_char(g[t \ {Max(t)}], s[Max(t)])
        BY <2>1, <4>1 DEF Prints
      <4> QED BY <4>2, <4>3
    <3> QED BY <3>1, <3>2
  <2>3. f = [t \in SUBSET (1..(n + 1)) |-> Rhs(t)]
    BY <2>2
  <2>4. Prints(f, scr0, s, n + 1)
    BY <2>3 DEF Prints
  <2> QED BY <2>4
<1>3. Nat \subseteq T
  <2> HIDE DEF T
  <2> QED BY <1>1, <1>2, SetInduction
<1> QED BY <1>3

LEMMA KprintSteps ==
  ASSUME NEW scr0, NEW S, NEW s \in Seq(S)
  PROVE  \E f : /\ f[0] = scr0
                /\ \A n \in 1..Len(s) : f[n] = kprint_char(f[n - 1], s[n])
                /\ kprint(scr0, s) = f[Len(s)]
<1> DEFINE f == CHOOSE f : Prints(f, scr0, s, Len(s))
<1>1. DOMAIN s = 1..Len(s) /\ Len(s) \in Nat
  OBVIOUS
<1>2. Prints(f, scr0, s, Len(s))
  BY <1>1, PrintsExists
<1>3. kprint(scr0, s) = f[1..Len(s)]
  BY <1>1 DEF kprint, FoldLeft, MapThenFoldSet, Prints
<1> DEFINE h == [n \in 0..Len(s) |-> f[1..n]]
<1> HIDE DEF f
<1>4. h[0] = scr0
  <2>1. 1..0 = {} /\ {} \in SUBSET (1..Len(s))
    OBVIOUS
  <2> QED BY <1>1, <1>2, <2>1 DEF Prints
<1>5. ASSUME NEW n \in 1..Len(s) PROVE h[n] = kprint_char(h[n - 1], s[n])
  <2>1. n \in Nat /\ n \in 1..n /\ 1..n \in SUBSET (1..Len(s))
    BY <1>1
  <2>2. Max(1..n) = n
    BY <2>1, MaxTop
  <2>3. (1..n) \ {n} = 1..(n - 1)
    BY <1>1
  <2>4. f[1..n] = kprint_char(f[(1..n) \ {n}], s[n])
    BY <1>2, <2>1, <2>2 DEF Prints
  <2>5. h[n] = f[1..n] /\ h[n - 1] = f[1..(n - 1)]
    BY <1>1
  <2> QED BY <2>3, <2>4, <2>5, Zenon
<1>6. kprint(scr0, s) = h[Len(s)]
  BY <1>1, <1>3
<1> HIDE DEF h
<1> QED BY <1>4, <1>5, <1>6

-----------------------------------------------------------------------------
(* The screen.                                                             *)
Pictures == [Cells -> Glyphs \cup {Space}]
Screens == [cells : Pictures, cursor : Cells]

(* A screen before it scrolls: the cursor may be behind the last cell.     *)
Unscrolled == [cells : Pictures, cursor : 0..Size]

(* Nothing is behind the cursor.                                           *)
Clean(s) == \A k \in Cells : k >= s.cursor => s.cells[k] = Space

(* The cells before the cursor hold the end of t.                          *)
Shows(s, t) == \A j \in 1..Len(t) :
                 j <= s.cursor => s.cells[s.cursor - j] = t[Len(t) + 1 - j]

Good(s, t) == Clean(s) /\ Shows(s, t)

Printable == Glyphs \cup {NL, BS}
Text == Seq(Glyphs)

(* The start and the end of a sequence.                                    *)
IsStart(u, t, n, S) == u \in Seq(S) /\ Len(u) = n /\ \A i \in 1..n : u[i] = t[i]
IsEnd(u, t, n, S) == /\ u \in Seq(S) /\ Len(u) = n
                     /\ \A i \in 1..n : u[i] = t[Len(t) - n + i]

LEMMA StartOf ==
  ASSUME NEW S, NEW t \in Seq(S), NEW n \in 0..Len(t)
  PROVE  IsStart(SubSeq(t, 1, n), t, n, S)
<1> DEFINE u == SubSeq(t, 1, n)
<1>1. n \in Int /\ Len(t) \in Nat /\ \A i \in 1..n : t[i] \in S
  OBVIOUS
<1>2. /\ u \in Seq(S)
      /\ Len(u) = IF 1 <= n THEN n - 1 + 1 ELSE 0
      /\ \A i \in 1..(n - 1 + 1) : u[i] = t[1 + i - 1]
  BY <1>1, SubSeqProperties
<1> HIDE DEF u
<1>3. Len(u) = n
  BY <1>2
<1>4. \A i \in 1..n : u[i] = t[i]
  BY <1>1, <1>2
<1>5. IsStart(u, t, n, S)
  BY <1>2, <1>3, <1>4 DEF IsStart
<1> QED BY <1>5 DEF u

LEMMA EndOf ==
  ASSUME NEW S, NEW t \in Seq(S), NEW n \in 0..Len(t)
  PROVE  IsEnd(SubSeq(t, Len(t) - n + 1, Len(t)), t, n, S)
<1> DEFINE m == Len(t) - n + 1
           u == SubSeq(t, m, Len(t))
<1>1. m \in Int /\ m >= 1 /\ Len(t) \in Nat /\ \A i \in m..Len(t) : t[i] \in S
  OBVIOUS
<1>2. Len(t) - m + 1 = n
  BY <1>1
<1> HIDE DEF m
<1>3. /\ u \in Seq(S)
      /\ Len(u) = IF m <= Len(t) THEN Len(t) - m + 1 ELSE 0
      /\ \A i \in 1..(Len(t) - m + 1) : u[i] = t[m + i - 1]
  BY <1>1, SubSeqProperties
<1> HIDE DEF u
<1>4. Len(u) = n
  BY <1>1, <1>2, <1>3
<1>5. \A i \in 1..n : u[i] = t[Len(t) - n + i]
  BY <1>1, <1>2, <1>3 DEF m
<1>6. IsEnd(u, t, n, S)
  BY <1>3, <1>4, <1>5 DEF IsEnd
<1> QED BY <1>6 DEF u, m

LEMMA SizeFacts ==
  /\ Cols \in Nat \ {0} /\ LastRow \in Nat /\ Size \in Nat
  /\ Size = LastRow + Cols /\ LastRow >= Cols
  /\ Cells = 0..(Size - 1)
<1>1. Cols \in Nat \ {0} /\ Rows \in Nat /\ Rows >= 2
  BY ScreenAssumption
<1>2. \A a, b \in Nat : b >= 2 => /\ a * b \in Nat /\ a * (b - 1) \in Nat
                                  /\ a * b = a * (b - 1) + a /\ a * (b - 1) >= a
  OBVIOUS
<1> QED BY <1>1, <1>2 DEF LastRow, Size, Cells

LEMMA NextRow ==
  ASSUME NEW k \in Cells
  PROVE  (k \div Cols + 1) * Cols \in Nat /\ (k \div Cols + 1) * Cols > k
         /\ (k \div Cols + 1) * Cols <= Size
<1>1. Cols \in Nat \ {0} /\ Rows \in Nat /\ Rows >= 2 /\ Size = Cols * Rows
  BY ScreenAssumption DEF Size
<1>2. k \in Nat /\ k < Cols * Rows
  BY <1>1, SizeFacts
<1> DEFINE q == k \div Cols
<1>3. q \in Nat /\ q * Cols <= k /\ k < (q + 1) * Cols
  BY <1>1, <1>2
<1> HIDE DEF q
<1>4. q < Rows
  BY <1>1, <1>2, <1>3
<1>5. (q + 1) * Cols <= Rows * Cols
  BY <1>1, <1>3, <1>4
<1> QED BY <1>1, <1>3, <1>5 DEF q

LEMMA Scrolls ==
  ASSUME NEW s \in Unscrolled, NEW t \in Text, Good(s, t)
  PROVE  scroll_if_needed(s) \in Screens /\ Good(scroll_if_needed(s), t)
<1> USE SizeFacts
<1>1. CASE s.cursor < Size
  BY <1>1 DEF Unscrolled, Screens, scroll_if_needed
<1>2. CASE s.cursor = Size
  <2> DEFINE r == scroll_if_needed(s)
  <2>1. r = [cells |-> [k \in Cells |-> IF k < LastRow THEN s.cells[k + Cols] ELSE Space],
             cursor |-> LastRow]
    BY <1>2 DEF scroll_if_needed
  <2>2. s.cells \in Pictures /\ r.cursor = LastRow
    BY <2>1 DEF Unscrolled
  <2>3. r \in Screens
    BY <2>1, <2>2 DEF Screens, Pictures
  <2>4. Clean(r)
    BY <2>1 DEF Clean
  <2>5. ASSUME NEW j \in 1..Len(t), j <= r.cursor
        PROVE  r.cells[r.cursor - j] = t[Len(t) + 1 - j]
    <3>1. Len(t) \in Nat /\ j <= Size
      BY <2>2, <2>5 DEF Text
    <3>2. s.cells[Size - j] = t[Len(t) + 1 - j]
      BY <1>2, <3>1 DEF Good, Shows
    <3>3. LastRow - j \in Cells /\ LastRow - j < LastRow
      BY <2>2, <2>5, <3>1
    <3>4. r.cells[LastRow - j] = s.cells[LastRow - j + Cols]
      BY <2>1, <3>3
    <3>5. LastRow - j + Cols = Size - j
      BY <3>1
    <3> QED BY <2>2, <3>2, <3>4, <3>5
  <2> QED BY <2>3, <2>4, <2>5 DEF Good, Shows
<1> QED BY <1>1, <1>2 DEF Unscrolled

LEMMA PutRecord ==
  ASSUME NEW s \in Screens, NEW x
  PROVE  Put(s, x) = [cells |-> [s.cells EXCEPT ![s.cursor] = x],
                      cursor |-> s.cursor + 1]
<1>1. s = [cells |-> s.cells, cursor |-> s.cursor]
  BY DEF Screens
<1>2. put_cell(s, s.cursor, x) = [cells |-> [s.cells EXCEPT ![s.cursor] = x], cursor |-> s.cursor]
  BY <1>1 DEF put_cell
<1> QED BY <1>2 DEF Put

LEMMA PutShows ==
  ASSUME NEW s \in Screens, NEW t \in Text, Good(s, t), NEW x \in Glyphs
  PROVE  kprint_char(s, x) \in Screens /\ Good(kprint_char(s, x), Append(t, x))
<1> USE SizeFacts
<1> DEFINE r == Put(s, x)
<1>1. kprint_char(s, x) = scroll_if_needed(r)
  BY TerminalAssumption DEF kprint_char
<1>2. r = [cells |-> [s.cells EXCEPT ![s.cursor] = x], cursor |-> s.cursor + 1]
  BY PutRecord
<1>3. s.cells \in Pictures /\ s.cursor \in Cells
  BY DEF Screens
<1>4. r \in Unscrolled
  BY <1>2, <1>3 DEF Unscrolled, Pictures
<1>5. Clean(r)
  BY <1>2, <1>3 DEF Clean, Good, Pictures
<1>6. Append(t, x) \in Text /\ Len(t) \in Nat /\ Len(Append(t, x)) = Len(t) + 1
  BY DEF Text
<1>7. ASSUME NEW j \in 1..Len(Append(t, x)), j <= r.cursor
      PROVE  r.cells[r.cursor - j] = Append(t, x)[Len(Append(t, x)) + 1 - j]
  <2>1. CASE j = 1
    BY <1>2, <1>3, <1>6, <2>1 DEF Pictures, Text
  <2>2. CASE j # 1
    <3>1. j - 1 \in 1..Len(t) /\ j - 1 <= s.cursor
      BY <1>2, <1>3, <1>6, <1>7, <2>2
    <3>2. s.cells[s.cursor - (j - 1)] = t[Len(t) + 1 - (j - 1)]
      BY <3>1 DEF Good, Shows
    <3>3. r.cursor - j = s.cursor - (j - 1) /\ s.cursor - (j - 1) \in Cells
          /\ s.cursor - (j - 1) # s.cursor
      BY <1>2, <1>3, <3>1
    <3>4. Append(t, x)[Len(t) + 2 - j] = t[Len(t) + 2 - j]
      BY <1>6, <3>1 DEF Text
    <3> QED BY <1>2, <1>3, <1>6, <3>1, <3>2, <3>3, <3>4 DEF Pictures
  <2> QED BY <2>1, <2>2
<1>8. Good(r, Append(t, x))
  BY <1>5, <1>7 DEF Good, Shows
<1> HIDE DEF r
<1> QED BY <1>1, <1>4, <1>6, <1>8, Scrolls

LEMMA EraseShows ==
  ASSUME NEW s \in Screens, NEW t \in Text, Good(s, t), t # << >>
  PROVE  kprint_char(s, BS) \in Screens /\ Good(kprint_char(s, BS), SubSeq(t, 1, Len(t) - 1))
<1> USE SizeFacts
<1> DEFINE r == Erase(s)
           u == SubSeq(t, 1, Len(t) - 1)
<1> SUFFICES kprint_char(s, BS) \in Screens /\ Good(kprint_char(s, BS), u)
  OBVIOUS
<1>1. kprint_char(s, BS) = scroll_if_needed(r)
  BY TerminalAssumption DEF kprint_char
<1>2. s.cells \in Pictures /\ s.cursor \in Cells
  BY DEF Screens
<1>3. u \in Text /\ Len(t) \in Nat /\ Len(u) = Len(t) - 1
      /\ \A i \in 1..Len(u) : u[i] = t[i]
  <2>1. Len(t) \in Nat /\ Len(t) >= 1 /\ t \in Seq(Glyphs)
    BY DEF Text
  <2>2. Len(t) - 1 \in 0..Len(t)
    BY <2>1
  <2>3. IsStart(u, t, Len(t) - 1, Glyphs)
    BY <2>1, <2>2, StartOf
  <2> HIDE DEF u
  <2> QED BY <2>1, <2>3 DEF Text, IsStart
<1>4. CASE s.cursor = 0
  <2>1. r = s
    BY <1>4 DEF Erase
  <2>2. Shows(r, u)
    BY <1>3, <1>4, <2>1 DEF Shows
  <2>3. r \in Unscrolled /\ Good(r, u)
    BY <2>1, <2>2 DEF Screens, Unscrolled, Good
  <2> HIDE DEF r, u
  <2> QED BY <1>1, <1>3, <2>3, Scrolls
<1>5. CASE s.cursor # 0
  <2>1. r = [cells |-> [s.cells EXCEPT ![s.cursor - 1] = Space], cursor |-> s.cursor - 1]
    BY <1>5 DEF Erase, put_cell, Screens
  <2>2. r \in Unscrolled
    BY <1>2, <1>5, <2>1 DEF Unscrolled, Pictures
  <2>3. Clean(r)
    BY <1>2, <1>5, <2>1 DEF Clean, Good, Pictures
  <2>4. ASSUME NEW j \in 1..Len(u), j <= r.cursor
        PROVE  r.cells[r.cursor - j] = u[Len(u) + 1 - j]
    <3>1. j + 1 \in 1..Len(t) /\ j + 1 <= s.cursor
      BY <1>2, <1>3, <1>5, <2>1, <2>4
    <3>2. s.cells[s.cursor - (j + 1)] = t[Len(t) + 1 - (j + 1)]
      BY <3>1 DEF Good, Shows
    <3>3. r.cursor - j = s.cursor - (j + 1) /\ s.cursor - (j + 1) \in Cells
          /\ s.cursor - (j + 1) # s.cursor - 1
      BY <1>2, <1>5, <2>1, <3>1
    <3>4. r.cells[r.cursor - j] = s.cells[s.cursor - (j + 1)]
      BY <1>2, <2>1, <3>3 DEF Pictures
    <3>5. u[Len(u) + 1 - j] = t[Len(u) + 1 - j]
          /\ Len(u) + 1 - j = Len(t) + 1 - (j + 1)
      BY <1>3, <3>1
    <3> QED BY <3>2, <3>4, <3>5
  <2>5. Good(r, u)
    BY <2>3, <2>4 DEF Good, Shows
  <2> HIDE DEF r, u
  <2> QED BY <1>1, <1>3, <2>2, <2>5, Scrolls
<1> QED BY <1>4, <1>5

(* Whatever is printed, nothing is left behind the cursor.                 *)
LEMMA CharClean ==
  ASSUME NEW s \in Screens, Clean(s), NEW x \in Printable
  PROVE  kprint_char(s, x) \in Screens /\ Clean(kprint_char(s, x))
<1> USE SizeFacts
<1>1. << >> \in Text /\ Good(s, << >>)
  BY DEF Text, Good, Shows
<1>2. CASE x \in Glyphs
  BY <1>1, <1>2, PutShows DEF Good
<1>3. CASE x = BS
  <2>1. s.cells \in Pictures /\ s.cursor \in Cells
    BY DEF Screens
  <2>2. Erase(s) \in Unscrolled /\ Clean(Erase(s))
    <3>1. CASE s.cursor = 0
      BY <3>1 DEF Erase, Screens, Unscrolled
    <3>2. CASE s.cursor # 0
      <4>1. Erase(s) = [cells |-> [s.cells EXCEPT ![s.cursor - 1] = Space], cursor |-> s.cursor - 1]
        BY <3>2 DEF Erase, put_cell, Screens
      <4> QED BY <2>1, <3>2, <4>1 DEF Unscrolled, Pictures, Clean
    <3> QED BY <3>1, <3>2
  <2>3. Good(Erase(s), << >>)
    BY <2>2 DEF Good, Shows
  <2>4. kprint_char(s, x) = scroll_if_needed(Erase(s))
    BY <1>3, TerminalAssumption DEF kprint_char
  <2> QED BY <1>1, <2>2, <2>3, <2>4, Scrolls DEF Good
<1>4. CASE x = NL
  <2>1. s.cells \in Pictures /\ s.cursor \in Cells
    BY DEF Screens
  <2>2. NewLine(s) = [cells |-> s.cells, cursor |-> (s.cursor \div Cols + 1) * Cols]
    BY DEF NewLine, Screens
  <2>3. NewLine(s) \in Unscrolled /\ NewLine(s).cursor > s.cursor
    <3> DEFINE p == (s.cursor \div Cols + 1) * Cols
    <3>1. p \in 0..Size /\ p > s.cursor
      <4>1. p \in Nat /\ p > s.cursor /\ p <= Size
        BY <2>1, NextRow
      <4> HIDE DEF p
      <4> QED BY <4>1
    <3> HIDE DEF p
    <3>2. NewLine(s) = [cells |-> s.cells, cursor |-> p]
      BY <2>2 DEF p
    <3> QED BY <2>1, <3>1, <3>2 DEF Unscrolled
  <2>4. NewLine(s).cells = s.cells
    BY <2>2
  <2>5. Good(NewLine(s), << >>)
    BY <2>1, <2>3, <2>4 DEF Good, Shows, Clean, Unscrolled
  <2>6. kprint_char(s, x) = scroll_if_needed(NewLine(s))
    BY <1>4 DEF kprint_char
  <2> QED BY <1>1, <2>3, <2>5, <2>6, Scrolls DEF Good
<1> QED BY <1>2, <1>3, <1>4 DEF Printable

(* All of t is before the cursor.                                          *)
Full(s, t) == Good(s, t) /\ Len(t) <= s.cursor

LEMMA ScrollsTo ==
  ASSUME NEW s
  PROVE  scroll_if_needed(s).cursor = IF s.cursor < Size THEN s.cursor ELSE LastRow
BY DEF scroll_if_needed

LEMMA PutFull ==
  ASSUME NEW s \in Screens, NEW t \in Text, Full(s, t), NEW x \in Glyphs,
         Len(t) < LastRow
  PROVE  kprint_char(s, x) \in Screens /\ Full(kprint_char(s, x), Append(t, x))
<1>1. kprint_char(s, x) \in Screens /\ Good(kprint_char(s, x), Append(t, x))
  BY PutShows DEF Full
<1>2. kprint_char(s, x) = scroll_if_needed(Put(s, x))
  BY TerminalAssumption DEF kprint_char
<1>3. Put(s, x).cursor = s.cursor + 1
  BY PutRecord
<1>4. Len(Append(t, x)) = Len(t) + 1 /\ Len(t) \in Nat
  BY DEF Text
<1>5. s.cursor \in Cells
  BY DEF Screens
<1>6. Len(Append(t, x)) <= kprint_char(s, x).cursor
  BY <1>2, <1>3, <1>4, <1>5, ScrollsTo, SizeFacts DEF Full
<1> QED BY <1>1, <1>6 DEF Full

LEMMA EraseFull ==
  ASSUME NEW s \in Screens, NEW t \in Text, Full(s, t), t # << >>
  PROVE  /\ kprint_char(s, BS) \in Screens
         /\ Full(kprint_char(s, BS), SubSeq(t, 1, Len(t) - 1))
<1> DEFINE u == SubSeq(t, 1, Len(t) - 1)
<1>1. kprint_char(s, BS) \in Screens /\ Good(kprint_char(s, BS), u)
  BY EraseShows DEF Full
<1>2. kprint_char(s, BS) = scroll_if_needed(Erase(s))
  BY TerminalAssumption DEF kprint_char
<1>3. Len(t) \in Nat /\ Len(t) >= 1 /\ t \in Seq(Glyphs) /\ Len(t) - 1 \in 0..Len(t)
  BY DEF Text
<1>4. Len(u) = Len(t) - 1
  BY <1>3, StartOf DEF IsStart
<1>5. s = [cells |-> s.cells, cursor |-> s.cursor] /\ s.cursor \in Cells
  BY DEF Screens
<1>6. s.cursor # 0
  BY <1>3, <1>5, SizeFacts DEF Full
<1>7. Erase(s).cursor = s.cursor - 1
  BY <1>5, <1>6 DEF Erase, put_cell
<1>8. Len(u) <= kprint_char(s, BS).cursor
  <2> HIDE DEF u
  <2> QED BY <1>2, <1>3, <1>4, <1>5, <1>7, ScrollsTo, SizeFacts DEF Full
<1> QED BY <1>1, <1>8 DEF Full

LEMMA ConcatAppend ==
  ASSUME NEW S, NEW t \in Seq(S), NEW a \in Seq(S), NEW x \in S
  PROVE  t \o Append(a, x) = Append(t \o a, x)
<1> DEFINE l == t \o Append(a, x)
           r == Append(t \o a, x)
           n == Len(t) + Len(a) + 1
<1>1. Len(t) \in Nat /\ Len(a) \in Nat /\ n \in Nat
  OBVIOUS
<1>2. l \in Seq(S) /\ Len(l) = n
  OBVIOUS
<1>3. r \in Seq(S) /\ Len(r) = n
  OBVIOUS
<1>4. ASSUME NEW i \in 1..n PROVE l[i] = r[i]
  <2>1. CASE i <= Len(t)
    BY <1>1, <2>1
  <2>2. CASE i > Len(t) /\ i <= Len(t) + Len(a)
    BY <1>1, <2>2
  <2>3. CASE i = n
    BY <1>1, <2>3
  <2> QED BY <1>1, <2>1, <2>2, <2>3
<1> HIDE DEF l, r
<1>5. l = r
  BY <1>1, <1>2, <1>3, <1>4
<1> QED BY <1>5 DEF l, r

LEMMA KprintClean ==
  ASSUME NEW s \in Screens, Clean(s), NEW t \in Seq(Printable)
  PROVE  kprint(s, t) \in Screens /\ Clean(kprint(s, t))
<1>1. PICK f : /\ f[0] = s
               /\ \A n \in 1..Len(t) : f[n] = kprint_char(f[n - 1], t[n])
               /\ kprint(s, t) = f[Len(t)]
  BY KprintSteps
<1> DEFINE Done(n) == f[n] \in Screens /\ Clean(f[n])
           T == {n \in Nat : n <= Len(t) => Done(n)}
<1>2. 0 \in T
  BY <1>1
<1>3. ASSUME NEW n \in Nat, n \in T PROVE n + 1 \in T
  <2>1. SUFFICES ASSUME n + 1 <= Len(t) PROVE Done(n + 1)
    OBVIOUS
  <2>2. Len(t) \in Nat /\ n <= Len(t) /\ n + 1 \in 1..Len(t)
        /\ t[n + 1] \in Printable
    BY <2>1
  <2>3. Done(n)
    BY <1>3, <2>2
  <2>4. f[n + 1] = kprint_char(f[n + 1 - 1], t[n + 1]) /\ n + 1 - 1 = n
    BY <1>1, <2>2
  <2>5. f[n + 1] = kprint_char(f[n], t[n + 1])
    BY <2>4
  <2> QED BY <2>2, <2>3, <2>5, CharClean
<1>4. Nat \subseteq T
  <2> HIDE DEF T
  <2> QED BY <1>2, <1>3, SetInduction
<1>5. Done(Len(t))
  <2>1. Len(t) \in Nat /\ Len(t) <= Len(t)
    OBVIOUS
  <2> QED BY <1>4, <2>1
<1> QED BY <1>1, <1>5

(* Text is printed behind the text that is there.                          *)
LEMMA KprintText ==
  ASSUME NEW s \in Screens, NEW t \in Text, Full(s, t),
         NEW u \in Text, Len(t) + Len(u) <= LastRow
  PROVE  kprint(s, u) \in Screens /\ Full(kprint(s, u), t \o u)
<1>1. PICK f : /\ f[0] = s
               /\ \A n \in 1..Len(u) : f[n] = kprint_char(f[n - 1], u[n])
               /\ kprint(s, u) = f[Len(u)]
  BY KprintSteps DEF Text
<1> DEFINE Part(n) == t \o SubSeq(u, 1, n)
           Done(n) == f[n] \in Screens /\ Full(f[n], Part(n))
           T == {n \in Nat : n <= Len(u) => Done(n)}
<1>a. t \in Seq(Glyphs) /\ u \in Seq(Glyphs) /\ Len(t) \in Nat /\ Len(u) \in Nat
  BY DEF Text
<1>2. 0 \in T
  <2>1. SubSeq(u, 1, 0) = << >>
    BY SubSeqEmpty
  <2>2. Part(0) = t
    BY <1>a, <2>1
  <2> HIDE DEF Part
  <2> QED BY <1>1, <2>2
<1>3. ASSUME NEW n \in Nat, n \in T PROVE n + 1 \in T
  <2>1. SUFFICES ASSUME n + 1 <= Len(u) PROVE Done(n + 1)
    OBVIOUS
  <2>2. n <= Len(u) /\ n + 1 \in 1..Len(u) /\ u[n + 1] \in Glyphs
        /\ n \in 0..Len(u) /\ n + 1 \in 0..Len(u)
    BY <1>a, <2>1
  <2>3. Done(n)
    BY <1>3, <2>2
  <2>4. f[n + 1] = kprint_char(f[n + 1 - 1], u[n + 1]) /\ n + 1 - 1 = n
    BY <1>1, <2>2
  <2>5. f[n + 1] = kprint_char(f[n], u[n + 1])
    BY <2>4
  <2> DEFINE a == SubSeq(u, 1, n)
             b == SubSeq(u, 1, n + 1)
  <2>6. IsStart(a, u, n, Glyphs) /\ IsStart(b, u, n + 1, Glyphs)
    BY <1>a, <2>2, StartOf
  <2>7. Part(n + 1) = Append(Part(n), u[n + 1]) /\ Part(n) \in Text
        /\ Len(Part(n)) = Len(t) + n
    <3> SUFFICES /\ t \o b = Append(t \o a, u[n + 1]) /\ t \o a \in Text
                 /\ Len(t \o a) = Len(t) + n
      OBVIOUS
    <3> HIDE DEF a, b
    <3>1. b = Append(a, u[n + 1])
      BY <2>2, <2>6 DEF IsStart
    <3>2. a \in Seq(Glyphs) /\ Len(a) = n
      BY <2>6 DEF IsStart
    <3>3. t \o a \in Seq(Glyphs) /\ Len(t \o a) = Len(t) + n
      BY <1>a, <3>2
    <3>4. t \o b = Append(t \o a, u[n + 1])
      BY <1>a, <2>2, <3>1, <3>2, ConcatAppend
    <3> QED BY <3>3, <3>4 DEF Text
  <2>8. Len(Part(n)) < LastRow
    BY <1>a, <2>1, <2>7, SizeFacts
  <2> HIDE DEF Part
  <2> QED BY <2>2, <2>3, <2>5, <2>7, <2>8, PutFull
<1>4. Nat \subseteq T
  <2> HIDE DEF T
  <2> QED BY <1>2, <1>3, SetInduction
<1>5. Done(Len(u))
  <2>1. Len(u) \in Nat /\ Len(u) <= Len(u)
    BY <1>a
  <2> QED BY <1>4, <2>1
<1>6. Part(Len(u)) = t \o u
  <2> DEFINE b == SubSeq(u, 1, Len(u))
  <2>1. Len(u) \in 0..Len(u)
    BY <1>a
  <2>2. IsStart(b, u, Len(u), Glyphs)
    BY <1>a, <2>1, StartOf
  <2>3. b = u
    <3> HIDE DEF b
    <3> QED BY <1>a, <2>2 DEF IsStart
  <2> QED BY <2>3
<1> HIDE DEF Part
<1> QED BY <1>1, <1>5, <1>6

(* As many backspaces as u has characters leave what was before it.        *)
LEMMA KprintErase ==
  ASSUME NEW s \in Screens, NEW t \in Text, NEW u \in Text, Full(s, t \o u)
  PROVE  LET b == [k \in 1..Len(u) |-> BS]
         IN  kprint(s, b) \in Screens /\ Full(kprint(s, b), t)
<1> DEFINE b == [k \in 1..Len(u) |-> BS]
           w == t \o u
<1>a. /\ t \in Seq(Glyphs) /\ u \in Seq(Glyphs) /\ Len(t) \in Nat /\ Len(u) \in Nat
      /\ w \in Seq(Glyphs) /\ Len(w) = Len(t) + Len(u) /\ Full(s, w)
  BY DEF Text
<1>b. b \in Seq({BS}) /\ Len(b) = Len(u)
  BY <1>a
<1>c. \A n \in 1..Len(u) : b[n] = BS
  OBVIOUS
<1>1. PICK f : /\ f[0] = s
               /\ \A n \in 1..Len(b) : f[n] = kprint_char(f[n - 1], b[n])
               /\ kprint(s, b) = f[Len(b)]
  BY <1>b, KprintSteps
<1> DEFINE Part(n) == SubSeq(w, 1, Len(w) - n)
           Done(n) == f[n] \in Screens /\ Full(f[n], Part(n))
           T == {n \in Nat : n <= Len(u) => Done(n)}
<1> HIDE DEF w, b
<1>s. ASSUME NEW n \in 0..Len(u)
      PROVE  IsStart(Part(n), w, Len(w) - n, Glyphs)
  <2>1. Len(w) - n \in 0..Len(w)
    BY <1>a
  <2> QED BY <1>a, <2>1, StartOf
<1> HIDE DEF Part
<1>2. 0 \in T
  <2>1. IsStart(Part(0), w, Len(w), Glyphs)
    BY <1>a, <1>s
  <2>2. Part(0) = w
    BY <1>a, <2>1 DEF IsStart
  <2> QED BY <1>1, <1>a, <2>2
<1>3. ASSUME NEW n \in Nat, n \in T PROVE n + 1 \in T
  <2>1. SUFFICES ASSUME n + 1 <= Len(u) PROVE Done(n + 1)
    OBVIOUS
  <2>2. n <= Len(u) /\ n + 1 \in 1..Len(u) /\ n \in 0..Len(u) /\ n + 1 \in 0..Len(u)
    BY <1>a, <2>1
  <2>3. Done(n)
    BY <1>3, <2>2
  <2>4. f[n + 1] = kprint_char(f[n + 1 - 1], b[n + 1]) /\ n + 1 - 1 = n
        /\ b[n + 1] = BS
    BY <1>1, <1>b, <1>c, <2>2
  <2>5. f[n + 1] = kprint_char(f[n], BS)
    BY <2>4
  <2>6. IsStart(Part(n), w, Len(w) - n, Glyphs)
        /\ IsStart(Part(n + 1), w, Len(w) - (n + 1), Glyphs)
    BY <1>s, <2>2
  <2>7. Part(n) \in Text /\ Len(Part(n)) = Len(w) - n /\ Part(n) # << >>
    BY <1>a, <2>1, <2>6 DEF IsStart, Text
  <2> DEFINE x == SubSeq(Part(n), 1, Len(Part(n)) - 1)
  <2>8. IsStart(x, Part(n), Len(Part(n)) - 1, Glyphs)
    <3>1. Len(Part(n)) - 1 \in 0..Len(Part(n)) /\ Part(n) \in Seq(Glyphs)
      BY <1>a, <2>1, <2>7 DEF Text
    <3> QED BY <3>1, StartOf
  <2>9. kprint_char(f[n], BS) \in Screens /\ Full(kprint_char(f[n], BS), x)
    BY <2>3, <2>7, EraseFull
  <2> HIDE DEF x
  <2>10. x = Part(n + 1)
    <3>1. Len(x) = Len(Part(n + 1)) /\ Len(Part(n + 1)) \in Nat
      BY <1>a, <2>2, <2>6, <2>7, <2>8 DEF IsStart
    <3>2. \A i \in 1..Len(x) : x[i] = Part(n + 1)[i]
      BY <1>a, <2>2, <2>6, <2>7, <2>8 DEF IsStart
    <3> QED BY <2>6, <2>8, <3>1, <3>2 DEF IsStart
  <2> QED BY <2>5, <2>9, <2>10
<1>4. Nat \subseteq T
  <2> HIDE DEF T
  <2> QED BY <1>2, <1>3, SetInduction
<1>5. Done(Len(u))
  <2>1. Len(u) \in Nat /\ Len(u) <= Len(u)
    BY <1>a
  <2> QED BY <1>4, <2>1
<1>6. Part(Len(u)) = t
  <2>1. Len(u) \in 0..Len(u)
    BY <1>a
  <2>2. IsStart(Part(Len(u)), w, Len(w) - Len(u), Glyphs)
    BY <1>s, <2>1
  <2>3. \A i \in 1..Len(t) : w[i] = t[i]
    BY <1>a DEF w
  <2> QED BY <1>a, <2>2, <2>3 DEF IsStart
<1>7. kprint(s, b) \in Screens /\ Full(kprint(s, b), t)
  BY <1>1, <1>b, <1>5, <1>6
<1> QED BY <1>7 DEF b

-----------------------------------------------------------------------------
(* The line editors.                                                       *)
Lines == {s \in Seq(Chars) : Len(s) < LineMax}
Bodies == Seq(Glyphs \cup {NL})

(* p is where the last newline of b is, 0 if there is none.                *)
LastNewline(b, p) == /\ p = 0 \/ b[p] = NL
                     /\ \A i \in (p + 1)..Len(b) : b[i] # NL

(* The screen shows what was typed since the last newline, which is not    *)
(* behind where a program stops erasing.                                   *)
Editing(s, b, from) == \E p \in 0..from : /\ LastNewline(b, p)
                                          /\ Good(s, SubSeq(b, p + 1, Len(b)))

(* The types of the terminal's state.                                      *)
TermTypeOK ==
  /\ scr \in Screens
  /\ mode \in {"boot", "splash", "shell", "ask", "name", "body"}
  /\ line \in Lines
  /\ history \in Seq(Lines) /\ Len(history) <= HistMax
  /\ hist_browse \in 0..Len(history)
  /\ buf \in Bodies
  /\ line_start \in 0..Len(buf)

(* In the shell, the prompt and the whole line are before the cursor.      *)
ShellInv == mode = "shell" => Full(scr, Prompt \o line)

(* A program's line is before the cursor, or its end is.                   *)
ReadInv == Reading => Editing(scr, buf, line_start)

(* The inductive invariant.                                                *)
TermInv == TermTypeOK /\ ShellInv /\ ReadInv

LEMMA Strings ==
  /\ Prompt \in Text /\ Len(Prompt) \in Nat /\ Len(Prompt) > 0
  /\ LineMax \in Nat /\ LineMax > 0 /\ HistMax \in Nat /\ HistMax > 0
  /\ Len(Prompt) + LineMax - 1 <= LastRow
  /\ Question \in Seq(Printable) /\ Banner \in Seq(Printable)
  /\ Outputs \subseteq Seq(Printable)
  /\ Chars \subseteq Glyphs /\ Arrow \in Glyphs /\ Dot \in Glyphs
  /\ NL \notin Glyphs
<1>1. {LineMax, HistMax} \subseteq Nat \ {0}
  BY TerminalAssumption
<1>2. {Question, Banner} \cup Outputs \subseteq Seq(Printable)
  BY TerminalAssumption DEF Printable
<1>3. Prompt \in Seq(Glyphs)
  BY TerminalAssumption
<1>4. Len(Prompt) > 0 /\ Len(Prompt) + LineMax - 1 <= LastRow
  BY TerminalAssumption
<1>5. Dot \in Chars /\ Chars \cup {Arrow} \subseteq Glyphs /\ NL \notin Glyphs
  BY TerminalAssumption
<1> QED BY <1>1, <1>2, <1>3, <1>4, <1>5 DEF Text

LEMMA LineText ==
  ASSUME NEW s \in Lines
  PROVE  s \in Text /\ s \in Seq(Chars) /\ Len(s) \in Nat /\ Len(s) < LineMax
         /\ Prompt \o s \in Text /\ Len(Prompt \o s) = Len(Prompt) + Len(s)
         /\ Len(Prompt) + Len(s) <= LastRow
<1>1. s \in Seq(Chars) /\ Len(s) \in Nat /\ Len(s) < LineMax
  BY DEF Lines
<1>2. s \in Seq(Glyphs)
  BY <1>1, Strings
<1>3. Prompt \o s \in Seq(Glyphs) /\ Len(Prompt \o s) = Len(Prompt) + Len(s)
  BY <1>2, Strings DEF Text
<1> QED BY <1>1, <1>2, <1>3, Strings, SizeFacts DEF Text

LEMMA ClearScreen == clear_screen \in Screens /\ Clean(clear_screen)
BY SizeFacts DEF clear_screen, Screens, Pictures, Clean

LEMMA LogoScreen == draw_logo \in Screens
<1>1. draw_logo = [cells |-> [k \in Cells |-> Dot], cursor |-> 0]
  BY DEF draw_logo, clear_screen
<1> QED BY <1>1, SizeFacts, Strings DEF Screens, Pictures

LEMMA Prompted ==
  ASSUME NEW s \in Screens, Clean(s)
  PROVE  prompt(s) \in Screens /\ Full(prompt(s), Prompt \o << >>)
<1>1. << >> \in Text /\ Full(s, << >>)
  BY SizeFacts DEF Text, Full, Good, Shows, Screens
<1>2. Len(<< >>) + Len(Prompt) <= LastRow
  BY Strings, SizeFacts
<1>3. kprint(s, Prompt) \in Screens /\ Full(kprint(s, Prompt), << >> \o Prompt)
  BY <1>1, <1>2, Strings, KprintText
<1>4. << >> \o Prompt = Prompt \o << >>
  BY Strings DEF Text
<1> QED BY <1>3, <1>4 DEF prompt

(* The shell is back, with a fresh line.                                   *)
LEMMA BackEffect ==
  ASSUME NEW s \in Screens, Clean(s), BackToShell(s)
  PROVE  scr' \in Screens /\ mode' = "shell" /\ line' = << >> /\ line' \in Lines
         /\ ShellInv' /\ ReadInv'
<1>1. scr' = prompt(s) /\ mode' = "shell" /\ line' = << >>
  BY DEF BackToShell
<1>2. << >> \in Lines
  BY Strings DEF Lines
<1> QED BY <1>1, <1>2, Prompted DEF ShellInv, ReadInv, Reading

(* A program starts to read a line.                                        *)
LEMMA EmptyField ==
  ASSUME NEW s, Clean(s)
  PROVE  Editing(s, << >>, 0)
<1>1. SubSeq(<< >>, 0 + 1, Len(<< >>)) = << >>
  BY SubSeqEmpty
<1>2. LastNewline(<< >>, 0)
  BY DEF LastNewline
<1>3. Good(s, << >>)
  BY DEF Good, Shows
<1>4. Good(s, SubSeq(<< >>, 0 + 1, Len(<< >>)))
  BY <1>1, <1>3, Zenon
<1>5. 0 \in 0..0
  OBVIOUS
<1> QED BY <1>2, <1>4, <1>5, Zenon DEF Editing

(* The field of b behind p.                                                *)
IsField(u, b, p) == u \in Text /\ Len(u) = Len(b) - p /\ \A i \in 1..Len(u) : u[i] = b[p + i]

LEMMA FieldOf ==
  ASSUME NEW b \in Bodies, NEW p \in 0..Len(b), LastNewline(b, p)
  PROVE  IsField(SubSeq(b, p + 1, Len(b)), b, p)
<1> DEFINE m == p + 1
           u == SubSeq(b, m, Len(b))
<1>1. Len(b) \in Nat /\ p \in Nat /\ p <= Len(b) /\ m \in Int /\ m = p + 1
  BY DEF Bodies
<1>2. \A i \in m..Len(b) : b[i] \in Glyphs
  BY DEF Bodies, LastNewline
<1> HIDE DEF m
<1>3. /\ u \in Seq(Glyphs)
      /\ Len(u) = IF m <= Len(b) THEN Len(b) - m + 1 ELSE 0
      /\ \A i \in 1..(Len(b) - m + 1) : u[i] = b[m + i - 1]
  BY <1>1, <1>2, SubSeqProperties
<1> HIDE DEF u
<1>4. Len(u) = IF m <= Len(b) THEN Len(b) - m + 1 ELSE 0
  BY <1>3
<1>5. Len(u) = Len(b) - p
  BY <1>1, <1>4
<1>6. ASSUME NEW i \in 1..Len(u) PROVE u[i] = b[p + i]
  <2>1. i \in 1..(Len(b) - m + 1) /\ m + i - 1 = p + i
    BY <1>1, <1>5
  <2>2. u[i] = b[m + i - 1]
    BY <1>3, <2>1
  <2> QED BY <2>1, <2>2
<1>7. IsField(u, b, p)
  BY <1>3, <1>5, <1>6 DEF IsField, Text
<1> QED BY <1>7 DEF u, m

LEMMA FieldUnique ==
  ASSUME NEW b \in Bodies, NEW p \in 0..Len(b), NEW u, NEW v, IsField(u, b, p),
         IsField(v, b, p)
  PROVE  u = v
<1>1. u \in Seq(Glyphs) /\ v \in Seq(Glyphs) /\ Len(u) = Len(v)
  BY DEF IsField, Text
<1>2. \A i \in 1..Len(u) : u[i] = v[i]
  BY <1>1 DEF IsField
<1> QED BY <1>1, <1>2

LEMMA TypeField ==
  ASSUME NEW s \in Screens, NEW b \in Bodies, NEW from \in 0..Len(b), Editing(s, b,
         from),
         NEW x \in Glyphs
  PROVE  /\ kprint_char(s, x) \in Screens
         /\ Append(b, x) \in Bodies /\ from \in 0..Len(Append(b, x))
         /\ Editing(kprint_char(s, x), Append(b, x), from)
<1>1. PICK p \in 0..from : LastNewline(b, p) /\ Good(s, SubSeq(b, p + 1, Len(b)))
  BY DEF Editing
<1> DEFINE u == SubSeq(b, p + 1, Len(b))
           d == Append(b, x)
           v == SubSeq(d, p + 1, Len(d))
<1>2. b \in Seq(Glyphs \cup {NL}) /\ Len(b) \in Nat /\ p \in 0..Len(b)
      /\ from \in 0..Len(b)
  BY DEF Bodies
<1>3. /\ d \in Bodies /\ Len(d) = Len(b) + 1 /\ d[Len(b) + 1] = x
      /\ \A i \in 1..Len(b) : d[i] = b[i]
  BY <1>2 DEF Bodies
<1>4. from \in 0..Len(d) /\ p \in 0..Len(d)
  BY <1>2, <1>3
<1>5. LastNewline(d, p)
  BY <1>1, <1>2, <1>3, Strings DEF LastNewline
<1>6. IsField(u, b, p) /\ IsField(v, d, p)
  BY <1>1, <1>2, <1>3, <1>4, <1>5, FieldOf
<1>7. kprint_char(s, x) \in Screens /\ Good(kprint_char(s, x), Append(u, x))
  BY <1>1, <1>6, PutShows DEF IsField
<1> HIDE DEF u, v, d
<1>8. v = Append(u, x)
  <2>1. u \in Seq(Glyphs) /\ v \in Seq(Glyphs) /\ Len(u) \in Nat
        /\ Len(v) = Len(u) + 1
    BY <1>2, <1>3, <1>6 DEF IsField, Text
  <2>2. ASSUME NEW i \in 1..Len(v) PROVE v[i] = Append(u, x)[i]
    <3>1. v[i] = d[p + i] /\ Len(u) = Len(b) - p
      BY <1>6 DEF IsField
    <3>2. CASE i = Len(v)
      <4>1. p + i = Len(b) + 1
        BY <1>2, <2>1, <3>1, <3>2
      <4>2. Append(u, x)[i] = x
        BY <2>1, <3>2
      <4> QED BY <1>3, <3>1, <4>1, <4>2
    <3>3. CASE i # Len(v)
      <4>1. i \in 1..Len(u)
        BY <2>1, <3>3
      <4>2. p + i \in 1..Len(b)
        BY <1>2, <3>1, <4>1
      <4>3. u[i] = b[p + i] /\ Append(u, x)[i] = u[i]
        BY <1>6, <2>1, <4>1 DEF IsField
      <4> QED BY <1>3, <3>1, <4>2, <4>3
    <3> QED BY <3>2, <3>3
  <2>3. Append(u, x) \in Seq(Glyphs) /\ Len(Append(u, x)) = Len(v)
    BY <2>1
  <2> DEFINE w == Append(u, x)
  <2> HIDE DEF w
  <2>4. v = w
    BY <2>1, <2>2, <2>3 DEF w
  <2> QED BY <2>4 DEF w
<1>9. Editing(kprint_char(s, x), d, from)
  BY <1>5, <1>7, <1>8 DEF Editing, v
<1> QED BY <1>3, <1>4, <1>7, <1>9 DEF d

LEMMA EraseField ==
  ASSUME NEW s \in Screens, NEW b \in Bodies, NEW from \in 0..Len(b), Editing(s, b,
         from),
         Len(b) > from
  PROVE  /\ kprint_char(s, BS) \in Screens
         /\ Front(b) \in Bodies /\ from \in 0..Len(Front(b))
         /\ Editing(kprint_char(s, BS), Front(b), from)
<1>1. PICK p \in 0..from : LastNewline(b, p) /\ Good(s, SubSeq(b, p + 1, Len(b)))
  BY DEF Editing
<1> DEFINE u == SubSeq(b, p + 1, Len(b))
           d == Front(b)
           v == SubSeq(d, p + 1, Len(d))
           w == SubSeq(u, 1, Len(u) - 1)
<1>2. b \in Seq(Glyphs \cup {NL}) /\ Len(b) \in Nat /\ p \in 0..Len(b)
      /\ from \in 0..Len(b)
      /\ Len(b) - 1 \in 0..Len(b)
  BY DEF Bodies
<1>3. IsStart(d, b, Len(b) - 1, Glyphs \cup {NL})
  BY <1>2, StartOf DEF Front
<1> HIDE DEF d
<1>4. d \in Bodies /\ Len(d) = Len(b) - 1 /\ \A i \in 1..Len(d) : d[i] = b[i]
  BY <1>3 DEF IsStart, Bodies
<1>5. from \in 0..Len(d) /\ p \in 0..Len(d)
  BY <1>2, <1>4
<1>6. LastNewline(d, p)
  BY <1>1, <1>2, <1>4, <1>5 DEF LastNewline
<1>7. IsField(u, b, p) /\ IsField(v, d, p)
  BY <1>1, <1>2, <1>4, <1>5, <1>6, FieldOf
<1> HIDE DEF u, v
<1>8. u \in Seq(Glyphs) /\ Len(u) \in Nat /\ Len(u) >= 1 /\ u # << >>
      /\ Len(u) - 1 \in 0..Len(u)
  BY <1>2, <1>7 DEF IsField, Text
<1>9. kprint_char(s, BS) \in Screens /\ Good(kprint_char(s, BS), w)
  BY <1>1, <1>7, <1>8, EraseShows DEF IsField, u
<1>10. IsStart(w, u, Len(u) - 1, Glyphs)
  BY <1>8, StartOf
<1> HIDE DEF w
<1>11. w = v
  <2>1. Len(w) = Len(d) - p /\ w \in Text
    BY <1>2, <1>4, <1>7, <1>8, <1>10 DEF IsStart, IsField, Text
  <2>2. \A i \in 1..Len(w) : w[i] = d[p + i]
    BY <1>2, <1>4, <1>5, <1>7, <1>8, <1>10, <2>1 DEF IsStart, IsField
  <2>3. IsField(w, d, p)
    BY <2>1, <2>2 DEF IsField
  <2> QED BY <1>4, <1>5, <1>7, <2>3, FieldUnique
<1>12. Editing(kprint_char(s, BS), d, from)
  BY <1>6, <1>9, <1>11 DEF Editing, v
<1> QED BY <1>4, <1>5, <1>9, <1>12 DEF d

(* A newline in the text: the field is empty.                              *)
LEMMA NewlineField ==
  ASSUME NEW s \in Screens, NEW b \in Bodies, Clean(s)
  PROVE  /\ kprint_char(s, NL) \in Screens
         /\ Append(b, NL) \in Bodies /\ Len(Append(b, NL)) \in 0..Len(Append(b, NL))
         /\ Editing(kprint_char(s, NL), Append(b, NL), Len(Append(b, NL)))
<1> DEFINE d == Append(b, NL)
           p == Len(d)
<1>1. d \in Bodies /\ p \in Nat /\ d[p] = NL
  BY DEF Bodies
<1>2. kprint_char(s, NL) \in Screens /\ Clean(kprint_char(s, NL))
  BY CharClean DEF Printable
<1> HIDE DEF d
<1>3. LastNewline(d, p)
  BY <1>1 DEF LastNewline
<1>4. SubSeq(d, p + 1, Len(d)) = << >>
  BY <1>1, SubSeqEmpty
<1>5. Good(kprint_char(s, NL), << >>)
  BY <1>2 DEF Good, Shows
<1>6. Editing(kprint_char(s, NL), d, p)
  <2>1. p \in 0..p
    BY <1>1
  <2>2. Good(kprint_char(s, NL), SubSeq(d, p + 1, Len(d)))
    BY <1>4, <1>5, Zenon
  <2> QED BY <1>3, <2>1, <2>2, Zenon DEF Editing
<1> QED BY <1>1, <1>2, <1>6 DEF d

-----------------------------------------------------------------------------
(* The steps of the terminal keep the invariant.                           *)
LEMMA TermInitInv == TermInit => TermInv
<1> SUFFICES ASSUME TermInit PROVE TermInv
  OBVIOUS
<1>1. << >> \in Lines /\ << >> \in Seq(Lines) /\ << >> \in Bodies
  BY Strings DEF Lines, Bodies
<1>2. TermTypeOK
  BY <1>1, LogoScreen, Strings DEF TermInit, TermTypeOK
<1> QED BY <1>2 DEF TermInit, TermInv, ShellInv, ReadInv, Reading

LEMMA ReaderClean ==
  ASSUME TermInv, mode \notin {"boot", "splash"}
  PROVE  Clean(scr) /\ scr \in Screens
<1>1. mode = "shell" => Clean(scr)
  BY DEF TermInv, ShellInv, Full, Good
<1>2. Reading => Clean(scr)
  BY DEF TermInv, ReadInv, Editing, Good
<1> QED BY <1>1, <1>2 DEF TermInv, TermTypeOK, Reading

LEMMA EndSplashKeeps == ASSUME TermInv, EndSplash PROVE TermInv'
<1> DEFINE s == IF mode = "boot" THEN kprint(clear_screen, Banner) ELSE clear_screen
<1>1. BackToShell(s)
  BY DEF EndSplash
<1>2. s \in Screens /\ Clean(s)
  BY ClearScreen, KprintClean, Strings
<1> HIDE DEF s
<1>3. scr' \in Screens /\ mode' = "shell" /\ line' \in Lines /\ ShellInv'
      /\ ReadInv'
  BY <1>1, <1>2, BackEffect
<1>4. TermTypeOK'
  BY <1>3 DEF TermInv, TermTypeOK, EndSplash, progVars
<1> QED BY <1>3, <1>4 DEF TermInv

(* A recalled line takes the place of the one that was edited.             *)
LEMMA ReplaceEffect ==
  ASSUME TermInv, mode = "shell", NEW s \in Lines, replace_line(s)
  PROVE  scr' \in Screens /\ line' \in Lines /\ Full(scr', Prompt \o line')
<1> DEFINE b == [k \in 1..Len(line) |-> BS]
           r == kprint(scr, b)
<1>1. scr \in Screens /\ line \in Lines /\ Full(scr, Prompt \o line)
  BY DEF TermInv, TermTypeOK, ShellInv
<1>2. line \in Text /\ Prompt \in Text
  BY <1>1, LineText, Strings
<1>3. r \in Screens /\ Full(r, Prompt)
  BY <1>1, <1>2, KprintErase
<1>4. scr' = kprint(r, s) /\ line' = s
  BY DEF replace_line
<1> HIDE DEF r
<1>5. s \in Text /\ Len(Prompt) + Len(s) <= LastRow
  BY LineText
<1> QED BY <1>2, <1>3, <1>4, <1>5, KprintText

LEMMA HistoryKeeps == ASSUME TermInv, HistoryKey PROVE TermInv'
<1>1. mode = "shell" /\ mode' = mode /\ history' = history /\ buf' = buf
      /\ line_start' = line_start
  BY DEF HistoryKey, progVars
<1>2. history \in Seq(Lines) /\ Len(history) \in Nat
      /\ hist_browse \in 0..Len(history)
  BY DEF TermInv, TermTypeOK
<1>3. << >> \in Lines
  BY Strings DEF Lines
<1>4. \E s \in Lines : replace_line(s) /\ hist_browse' \in 0..Len(history)
  <2>1. CASE history_prev
    <3>1. history[hist_browse] \in Lines /\ hist_browse' \in 0..Len(history)
      BY <1>2, <2>1 DEF history_prev
    <3> QED BY <2>1, <3>1 DEF history_prev
  <2>2. CASE history_next
    <3> DEFINE s == IF hist_browse' = Len(history) THEN << >> ELSE history[hist_browse' + 1]
    <3>1. hist_browse' \in 0..Len(history)
      BY <1>2, <2>2 DEF history_next
    <3>2. s \in Lines
      BY <1>2, <1>3, <3>1
    <3>3. replace_line(s)
      BY <2>2 DEF history_next
    <3> HIDE DEF s
    <3> QED BY <3>1, <3>2, <3>3
  <2> QED BY <2>1, <2>2 DEF HistoryKey
<1>5. PICK s \in Lines : replace_line(s) /\ hist_browse' \in 0..Len(history)
  BY <1>4
<1>6. scr' \in Screens /\ line' \in Lines /\ Full(scr', Prompt \o line')
  BY <1>1, <1>5, ReplaceEffect
<1>7. TermTypeOK'
  BY <1>1, <1>5, <1>6 DEF TermInv, TermTypeOK
<1>8. ShellInv' /\ ReadInv'
  BY <1>1, <1>6 DEF ShellInv, ReadInv, Reading
<1> QED BY <1>7, <1>8 DEF TermInv

LEMMA HistoryAddType ==
  ASSUME TermInv, history_add(line)
  PROVE  /\ history' \in Seq(Lines) /\ Len(history') <= HistMax
         /\ hist_browse' \in 0..Len(history') /\ hist_browse' = Len(history')
<1>1. history \in Seq(Lines) /\ Len(history) \in Nat /\ Len(history) <= HistMax
      /\ line \in Lines
  BY DEF TermInv, TermTypeOK
<1>2. HistMax \in Nat /\ HistMax > 0
  BY Strings
<1>3. history' \in Seq(Lines) /\ Len(history') <= HistMax
  <2>1. CASE line = << >>
    BY <1>1, <2>1 DEF history_add
  <2>2. CASE line # << >> /\ Len(history) < HistMax
    BY <1>1, <1>2, <2>2 DEF history_add
  <2>3. CASE line # << >> /\ Len(history) >= HistMax
    <3>1. history # << >>
      BY <1>1, <1>2, <2>3
    <3>2. Tail(history) \in Seq(Lines) /\ Len(Tail(history)) = Len(history) - 1
      BY <1>1, <3>1
    <3>3. history' = Append(Tail(history), line)
      BY <1>1, <1>2, <2>3 DEF history_add
    <3> QED BY <1>1, <1>2, <3>2, <3>3
  <2> QED BY <1>1, <1>2, <2>1, <2>2, <2>3
<1> QED BY <1>3 DEF history_add

LEMMA EnterKeeps == ASSUME TermInv, Enter PROVE TermInv'
<1> DEFINE s == kprint_char(scr, NL)
<1>1. mode = "shell" /\ history_add(line) /\ execute(s)
  BY DEF Enter
<1>2. s \in Screens /\ Clean(s)
  BY <1>1, ReaderClean, CharClean DEF Printable
<1> HIDE DEF s
<1>3. history' \in Seq(Lines) /\ Len(history') <= HistMax
      /\ hist_browse' \in 0..Len(history')
  BY <1>1, HistoryAddType
<1>4. ASSUME NEW r \in Screens, Clean(r), BackToShell(r), UNCHANGED progVars PROVE TermInv'
  <2>1. scr' \in Screens /\ mode' = "shell" /\ line' \in Lines /\ ShellInv'
        /\ ReadInv'
    BY <1>4, BackEffect
  <2>2. TermTypeOK'
    BY <1>3, <1>4, <2>1 DEF TermInv, TermTypeOK, progVars
  <2> QED BY <2>1, <2>2 DEF TermInv
<1>5. CASE (\E o \in IF line = << >> THEN {<< >>} ELSE Outputs : BackToShell(kprint(s, o)))
           /\ UNCHANGED progVars
  <2>1. PICK o \in IF line = << >> THEN {<< >>} ELSE Outputs : BackToShell(kprint(s, o))
    BY <1>5
  <2>2. o \in Seq(Printable)
    <3>1. << >> \in Seq(Printable)
      OBVIOUS
    <3> QED BY <3>1, Strings
  <2>3. kprint(s, o) \in Screens /\ Clean(kprint(s, o))
    BY <1>2, <2>2, KprintClean
  <2> QED BY <1>4, <1>5, <2>1, <2>3
<1>6. CASE BackToShell(clear_screen) /\ UNCHANGED progVars
  BY <1>4, <1>6, ClearScreen
<1>7. CASE scr' = draw_logo /\ mode' = "splash" /\ UNCHANGED <<line, progVars>>
  <2>1. TermTypeOK'
    BY <1>3, <1>7, LogoScreen DEF TermInv, TermTypeOK, progVars
  <2> QED BY <1>7, <2>1 DEF TermInv, ShellInv, ReadInv, Reading
<1>8. CASE /\ mode' \in {"ask", "name"} /\ scr' = kprint(s, Question)
           /\ buf' = << >> /\ line_start' = 0 /\ UNCHANGED line
  <2>1. scr' \in Screens /\ Clean(scr')
    BY <1>2, <1>8, KprintClean, Strings
  <2>2. TermTypeOK'
    BY <1>3, <1>8, <2>1 DEF TermInv, TermTypeOK, Bodies
  <2>3. Editing(scr', << >>, 0)
    BY <2>1, EmptyField
  <2>4. ShellInv' /\ ReadInv'
    BY <1>8, <2>3 DEF ShellInv, ReadInv
  <2> QED BY <2>2, <2>4 DEF TermInv
<1> QED BY <1>1, <1>5, <1>6, <1>7, <1>8 DEF execute

LEMMA StartOfLine ==
  ASSUME NEW s \in Lines, s # << >>
  PROVE  /\ Front(s) \in Lines
         /\ Prompt \o Front(s) = SubSeq(Prompt \o s, 1, Len(Prompt \o s) - 1)
<1> DEFINE f == Front(s)
           w == Prompt \o s
           v == SubSeq(w, 1, Len(w) - 1)
           x == Prompt \o f
<1>1. /\ s \in Seq(Chars) /\ Len(s) \in Nat /\ Len(s) >= 1 /\ Len(s) < LineMax
      /\ Len(s) - 1 \in 0..Len(s) /\ LineMax \in Nat /\ w \in Seq(Glyphs)
      /\ Len(w) = Len(Prompt) + Len(s)
  BY LineText, Strings DEF Text
<1>2. IsStart(f, s, Len(s) - 1, Chars)
  BY <1>1, StartOf DEF Front
<1>3. Len(w) - 1 \in 0..Len(w)
  BY <1>1, Strings
<1>4. IsStart(v, w, Len(w) - 1, Glyphs)
  BY <1>1, <1>3, StartOf
<1> HIDE DEF f, v
<1>5. f \in Lines
  BY <1>1, <1>2 DEF IsStart, Lines
<1>6. x \in Seq(Glyphs) /\ Len(x) = Len(Prompt) + Len(s) - 1 /\ Len(x) = Len(v)
      /\ v \in Seq(Glyphs) /\ Len(x) \in Nat
  <2>1. Len(f) = Len(s) - 1 /\ Len(v) = Len(w) - 1 /\ v \in Seq(Glyphs)
    BY <1>2, <1>4 DEF IsStart
  <2>2. x \in Seq(Glyphs) /\ Len(x) = Len(Prompt) + Len(f)
    BY <1>5, LineText DEF Text
  <2> HIDE DEF x, w
  <2> QED BY <1>1, <2>1, <2>2, Strings
<1>7. ASSUME NEW i \in 1..Len(x) PROVE x[i] = v[i]
  <2>1. v[i] = w[i]
    BY <1>1, <1>4, <1>6 DEF IsStart
  <2>2. CASE i <= Len(Prompt)
    <3>1. x[i] = Prompt[i] /\ w[i] = Prompt[i]
      BY <1>1, <1>2, <2>2, Strings DEF IsStart, Text
    <3> QED BY <2>1, <3>1
  <2>3. CASE i > Len(Prompt)
    <3>1. i - Len(Prompt) \in 1..Len(f) /\ i - Len(Prompt) \in 1..Len(s)
      BY <1>1, <1>2, <1>6, <2>3, Strings DEF IsStart
    <3>2. x[i] = f[i - Len(Prompt)] /\ w[i] = s[i - Len(Prompt)]
      BY <1>1, <1>2, <2>3, <3>1, Strings DEF IsStart, Text
    <3>3. f[i - Len(Prompt)] = s[i - Len(Prompt)]
      BY <1>2, <3>1 DEF IsStart
    <3> QED BY <2>1, <3>2, <3>3
  <2> QED BY <1>6, <2>2, <2>3, Strings
<1> HIDE DEF x, w
<1>8. x = v
  BY <1>6, <1>7
<1> QED BY <1>5, <1>8 DEF f, x, v, w

LEMMA BackspaceKeeps == ASSUME TermInv, Backspace PROVE TermInv'
<1>1. /\ mode = "shell" /\ line # << >> /\ line' = Front(line)
      /\ scr' = kprint_char(scr, BS)
      /\ mode' = mode /\ history' = history /\ hist_browse' = hist_browse
      /\ buf' = buf /\ line_start' = line_start
  BY DEF Backspace, progVars
<1>2. scr \in Screens /\ line \in Lines /\ Full(scr, Prompt \o line)
  BY <1>1 DEF TermInv, TermTypeOK, ShellInv
<1>3. line' \in Lines
      /\ Prompt \o line' = SubSeq(Prompt \o line, 1, Len(Prompt \o line) - 1)
  BY <1>1, <1>2, StartOfLine
<1>4. Prompt \o line \in Text /\ Prompt \o line # << >>
  <2>1. Len(Prompt \o line) > 0
    BY <1>2, LineText, Strings
  <2> QED BY <1>2, <2>1, LineText
<1>5. scr' \in Screens /\ Full(scr', Prompt \o line')
  BY <1>1, <1>2, <1>3, <1>4, EraseFull
<1>6. TermTypeOK'
  BY <1>1, <1>3, <1>5 DEF TermInv, TermTypeOK
<1> QED BY <1>1, <1>5, <1>6 DEF TermInv, ShellInv, ReadInv, Reading

LEMMA InsertKeeps == ASSUME TermInv, NEW x \in Chars, Insert(x) PROVE TermInv'
<1>1. /\ mode = "shell" /\ Len(line) < LineMax - 1
      /\ line' = Append(line, x) /\ scr' = kprint_char(scr, x)
      /\ mode' = mode /\ history' = history /\ hist_browse' = hist_browse
      /\ buf' = buf /\ line_start' = line_start
  BY DEF Insert, progVars
<1>2. scr \in Screens /\ line \in Lines /\ Full(scr, Prompt \o line)
  BY <1>1 DEF TermInv, TermTypeOK, ShellInv
<1>3. line \in Seq(Chars) /\ Len(line) \in Nat /\ line \in Seq(Glyphs)
      /\ Prompt \in Seq(Glyphs)
  BY <1>2, LineText, Strings DEF Text
<1>4. line' \in Lines
  BY <1>1, <1>3, Strings DEF Lines
<1>5. Prompt \o line' = Append(Prompt \o line, x)
  BY <1>1, <1>3, Strings, ConcatAppend
<1>6. Prompt \o line \in Text /\ Len(Prompt \o line) < LastRow
  BY <1>1, <1>2, <1>3, LineText, Strings, SizeFacts
<1>7. scr' \in Screens /\ Full(scr', Prompt \o line')
  BY <1>1, <1>2, <1>5, <1>6, Strings, PutFull
<1>8. TermTypeOK'
  BY <1>1, <1>4, <1>7 DEF TermInv, TermTypeOK
<1> QED BY <1>1, <1>7, <1>8 DEF TermInv, ShellInv, ReadInv, Reading

LEMMA TypeKeyKeeps ==
  ASSUME TermInv, NEW x \in Chars \cup {Arrow}, TypeKey(x)
  PROVE  TermInv'
<1>1. /\ Reading /\ buf' = Append(buf, x) /\ scr' = kprint_char(scr, x)
      /\ mode' = mode /\ line' = line /\ history' = history
      /\ hist_browse' = hist_browse
      /\ line_start' = line_start
  BY DEF TypeKey, shellVars
<1>2. scr \in Screens /\ buf \in Bodies /\ line_start \in 0..Len(buf)
      /\ Editing(scr, buf, line_start) /\ x \in Glyphs
  BY <1>1, Strings DEF TermInv, TermTypeOK, ReadInv
<1>3. scr' \in Screens /\ buf' \in Bodies /\ line_start' \in 0..Len(buf')
      /\ Editing(scr', buf', line_start')
  BY <1>1, <1>2, TypeField
<1>4. TermTypeOK'
  BY <1>1, <1>3 DEF TermInv, TermTypeOK
<1> QED BY <1>1, <1>3, <1>4 DEF TermInv, ShellInv, ReadInv, Reading

LEMMA EraseKeyKeeps == ASSUME TermInv, EraseKey PROVE TermInv'
<1>1. /\ Reading /\ Len(buf) > line_start /\ buf' = Front(buf)
      /\ scr' = kprint_char(scr, BS)
      /\ mode' = mode /\ line' = line /\ history' = history
      /\ hist_browse' = hist_browse
      /\ line_start' = line_start
  BY DEF EraseKey, shellVars
<1>2. scr \in Screens /\ buf \in Bodies /\ line_start \in 0..Len(buf)
      /\ Editing(scr, buf, line_start)
  BY <1>1 DEF TermInv, TermTypeOK, ReadInv
<1>3. scr' \in Screens /\ buf' \in Bodies /\ line_start' \in 0..Len(buf')
      /\ Editing(scr', buf', line_start')
  BY <1>1, <1>2, EraseField
<1>4. TermTypeOK'
  BY <1>1, <1>3 DEF TermInv, TermTypeOK
<1> QED BY <1>1, <1>3, <1>4 DEF TermInv, ShellInv, ReadInv, Reading

LEMMA BodyPrintable ==
  /\ \A b \in Bodies : <<NL>> \o b \o <<NL>> \in Seq(Printable)
  /\ <<NL>> \o Question \o <<NL>> \in Seq(Printable)
<1>1. \A b \in Bodies : b \in Seq(Printable)
  BY DEF Bodies, Printable
<1>2. <<NL>> \in Seq(Printable)
  BY DEF Printable
<1>3. \A b \in Seq(Printable) : <<NL>> \o b \o <<NL>> \in Seq(Printable)
  BY <1>2
<1> QED BY <1>1, <1>3, Strings

LEMMA GreetKeeps == ASSUME TermInv, Greet PROVE TermInv'
<1> DEFINE s == kprint(scr, <<NL>> \o buf \o <<NL>>)
<1>1. BackToShell(s) /\ mode = "ask"
      /\ UNCHANGED <<history, hist_browse, ran, progVars>>
  BY DEF Greet
<1>2. buf \in Bodies
  BY DEF TermInv, TermTypeOK
<1>3. s \in Screens /\ Clean(s)
  BY <1>1, <1>2, BodyPrintable, ReaderClean, KprintClean
<1> HIDE DEF s
<1>4. scr' \in Screens /\ mode' = "shell" /\ line' \in Lines /\ ShellInv'
      /\ ReadInv'
  BY <1>1, <1>3, BackEffect
<1>5. TermTypeOK'
  BY <1>1, <1>4 DEF TermInv, TermTypeOK, progVars
<1> QED BY <1>4, <1>5 DEF TermInv

LEMMA NameDoneKeeps == ASSUME TermInv, NameDone PROVE TermInv'
<1>1. /\ mode = "name" /\ mode' = "body" /\ buf' = << >> /\ line_start' = 0
      /\ scr' = kprint(scr, <<NL>> \o Question \o <<NL>>)
      /\ line' = line /\ history' = history /\ hist_browse' = hist_browse
  BY DEF NameDone, shellVars
<1>2. scr' \in Screens /\ Clean(scr')
  BY <1>1, BodyPrintable, ReaderClean, KprintClean
<1>3. Editing(scr', << >>, 0)
  BY <1>2, EmptyField
<1>4. TermTypeOK'
  BY <1>1, <1>2 DEF TermInv, TermTypeOK, Bodies
<1> QED BY <1>1, <1>3, <1>4 DEF TermInv, ShellInv, ReadInv

LEMMA BodyLineKeeps == ASSUME TermInv, BodyLine PROVE TermInv'
<1>1. /\ mode = "body" /\ mode' = mode /\ line_start' = Len(buf')
      /\ line' = line /\ history' = history /\ hist_browse' = hist_browse
  BY DEF BodyLine, shellVars
<1>2. scr \in Screens /\ buf \in Bodies /\ line_start \in 0..Len(buf)
      /\ Editing(scr, buf, line_start) /\ Clean(scr)
  BY <1>1, ReaderClean DEF TermInv, TermTypeOK, ReadInv, Reading
<1>3. scr' \in Screens /\ buf' \in Bodies /\ line_start' \in 0..Len(buf')
      /\ Editing(scr', buf', line_start')
  <2>1. CASE buf' = Append(buf, NL) /\ scr' = kprint_char(scr, NL)
    BY <1>1, <1>2, <2>1, NewlineField
  <2>2. CASE UNCHANGED <<buf, scr>>
    <3>1. line_start' = Len(buf) /\ Len(buf) \in 0..Len(buf)
          /\ 0..line_start \subseteq 0..Len(buf)
      BY <1>1, <1>2, <2>2 DEF Bodies
    <3>2. Editing(scr, buf, Len(buf))
      BY <1>2, <3>1, Zenon DEF Editing
    <3> QED BY <1>2, <2>2, <3>1, <3>2
  <2> QED BY <2>1, <2>2 DEF BodyLine
<1>4. TermTypeOK'
  BY <1>1, <1>3 DEF TermInv, TermTypeOK
<1> QED BY <1>1, <1>3, <1>4 DEF TermInv, ShellInv, ReadInv, Reading

LEMMA BodyDoneKeeps == ASSUME TermInv, BodyDone PROVE TermInv'
<1>1. PICK text \in {SubSeq(buf, 1, line_start), << >>} :
        BackToShell(kprint(scr, <<NL>> \o text \o <<NL>>))
  BY DEF BodyDone
<1>2. /\ mode = "body" /\ buf' = << >> /\ line_start' = 0
      /\ history' = history /\ hist_browse' = hist_browse
  BY DEF BodyDone
<1>3. buf \in Bodies /\ line_start \in 0..Len(buf) /\ buf \in Seq(Glyphs \cup {NL})
  BY DEF TermInv, TermTypeOK, Bodies
<1>4. text \in Bodies
  <2>1. SubSeq(buf, 1, line_start) \in Bodies
    BY <1>3, StartOf DEF IsStart, Bodies
  <2>2. << >> \in Bodies
    BY DEF Bodies
  <2> QED BY <2>1, <2>2
<1> DEFINE s == kprint(scr, <<NL>> \o text \o <<NL>>)
<1>5. s \in Screens /\ Clean(s)
  BY <1>2, <1>4, BodyPrintable, ReaderClean, KprintClean
<1>6. BackToShell(s)
  BY <1>1
<1> HIDE DEF s
<1>7. scr' \in Screens /\ mode' = "shell" /\ line' \in Lines /\ ShellInv'
      /\ ReadInv'
  BY <1>5, <1>6, BackEffect
<1>8. TermTypeOK'
  BY <1>2, <1>7 DEF TermInv, TermTypeOK, Bodies
<1> QED BY <1>7, <1>8 DEF TermInv

LEMMA TermStutter == ASSUME TermInv, UNCHANGED termVars PROVE TermInv'
<1>1. /\ scr' = scr /\ mode' = mode /\ line' = line /\ history' = history
      /\ hist_browse' = hist_browse /\ buf' = buf /\ line_start' = line_start
  BY DEF termVars, shellVars, progVars
<1> QED BY <1>1 DEF TermInv, TermTypeOK, ShellInv, ReadInv, Reading

LEMMA TermNextInv == TermInv /\ [TermNext]_termVars => TermInv'
<1> SUFFICES ASSUME TermInv, [TermNext]_termVars PROVE TermInv'
  OBVIOUS
<1> USE EndSplashKeeps, HistoryKeeps, EnterKeeps, BackspaceKeeps, InsertKeeps, TypeKeyKeeps,
        EraseKeyKeeps, GreetKeeps, NameDoneKeeps, BodyLineKeeps, BodyDoneKeeps, TermStutter
<1> QED BY Zenon DEF TermNext

(* Whatever is typed, erased, recalled, run or printed, the terminal's     *)
(* state has its types, the prompt and the line are before the cursor in   *)
(* the shell, and a program's line, or its end, is.                        *)
THEOREM TermSafe == TermSpec => []TermInv
BY TermInitInv, TermNextInv, PTL DEF TermSpec

(* What the cells before the cursor read.                                  *)
LEMMA BeforeShown ==
  ASSUME NEW s \in Screens, NEW t \in Text, Shows(s, t), NEW n \in Nat,
         n <= Len(t), n <= s.cursor
  PROVE  Before(s, n) = SubSeq(t, Len(t) - n + 1, Len(t))
<1> DEFINE u == SubSeq(t, Len(t) - n + 1, Len(t))
           b == Before(s, n)
<1>1. t \in Seq(Glyphs) /\ Len(t) \in Nat /\ n \in 0..Len(t) /\ s.cursor \in Nat
  BY SizeFacts DEF Text, Screens
<1>2. IsEnd(u, t, n, Glyphs)
  BY <1>1, EndOf
<1> HIDE DEF u
<1>3. b = [k \in 1..n |-> s.cells[s.cursor - n + k - 1]]
  BY DEF Before
<1>4. ASSUME NEW i \in 1..n PROVE s.cells[s.cursor - n + i - 1] = u[i]
  <2>1. n - i + 1 \in 1..Len(t) /\ n - i + 1 <= s.cursor
    BY <1>1
  <2>2. s.cells[s.cursor - (n - i + 1)] = t[Len(t) + 1 - (n - i + 1)]
    BY <2>1 DEF Shows
  <2>3. s.cursor - (n - i + 1) = s.cursor - n + i - 1
        /\ Len(t) + 1 - (n - i + 1) = Len(t) - n + i
    BY <1>1
  <2>4. u[i] = t[Len(t) - n + i]
    BY <1>2 DEF IsEnd
  <2> QED BY <2>2, <2>3, <2>4
<1>5. u \in Seq(Glyphs) /\ Len(u) = n
  BY <1>2 DEF IsEnd
<1>6. u = [k \in 1..n |-> u[k]]
  BY <1>5
<1>7. u = b
  BY <1>3, <1>4, <1>6
<1> QED BY <1>7 DEF u, b

LEMMA LineShown ==
  ASSUME NEW s, NEW t \in Lines, Shows(s, Prompt \o t)
  PROVE  Shows(s, t)
<1> DEFINE w == Prompt \o t
<1>1. /\ t \in Seq(Glyphs) /\ Prompt \in Seq(Glyphs) /\ Len(t) \in Nat
      /\ Len(Prompt) \in Nat
      /\ Len(w) = Len(Prompt) + Len(t)
  BY LineText, Strings DEF Text
<1>2. ASSUME NEW j \in 1..Len(t), j <= s.cursor
      PROVE  s.cells[s.cursor - j] = t[Len(t) + 1 - j]
  <2>1. j \in 1..Len(w)
    BY <1>1
  <2>2. s.cells[s.cursor - j] = w[Len(w) + 1 - j]
    BY <1>2, <2>1 DEF Shows
  <2>3. Len(w) + 1 - j = Len(Prompt) + (Len(t) + 1 - j)
        /\ Len(t) + 1 - j \in 1..Len(t)
    BY <1>1
  <2>4. \A i \in 1..Len(t) : w[Len(Prompt) + i] = t[i]
    BY <1>1
  <2> HIDE DEF w
  <2> QED BY <2>2, <2>3, <2>4
<1> QED BY <1>2 DEF Shows

LEMMA FieldIs ==
  ASSUME mode # "shell", buf \in Bodies, NEW p \in 0..Len(buf), LastNewline(buf, p)
  PROVE  Field = SubSeq(buf, p + 1, Len(buf))
<1> DEFINE I == {i \in 1..Len(buf) : buf[i] = NL}
           q == IF I # {} THEN Max(I) ELSE 0
<1>1. Field = SubSeq(buf, q + 1, Len(buf))
  BY DEF Field, SelectLastInSeq
<1>2. Len(buf) \in Nat /\ I \subseteq 1..p
  BY DEF LastNewline, Bodies
<1>3. q = p
  <2>1. CASE p = 0
    BY <1>2, <2>1
  <2>2. CASE p # 0
    <3>1. p \in I
      BY <1>2, <2>2 DEF LastNewline
    <3>2. p \in Nat /\ I \in SUBSET (1..p)
      BY <1>2
    <3> HIDE DEF I
    <3>3. Max(I) = p
      BY <3>1, <3>2, MaxTop
    <3> QED BY <3>1, <3>3
  <2> QED BY <2>1, <2>2
<1> QED BY <1>1, <1>3

LEMMA InvEchoed == TermInv => Echoed
<1> SUFFICES ASSUME TermInv, mode \notin {"boot", "splash"}
             PROVE  LET n == Least(Len(Field), scr.cursor)
                    IN  /\ Before(scr, n) = SubSeq(Field, Len(Field) - n + 1, Len(Field))
                        /\ \A k \in Cells : k >= scr.cursor => scr.cells[k] = Space
  BY DEF Echoed
<1>1. scr \in Screens /\ Clean(scr) /\ scr.cursor \in Nat
  BY ReaderClean, SizeFacts DEF Screens
<1>2. Field \in Text /\ Shows(scr, Field)
  <2>1. CASE mode = "shell"
    <3>1. Field = line /\ line \in Lines /\ Shows(scr, Prompt \o line)
      BY <2>1 DEF Field, TermInv, TermTypeOK, ShellInv, Full, Good
    <3> QED BY <3>1, LineShown, LineText
  <2>2. CASE mode # "shell"
    <3>1. buf \in Bodies /\ line_start \in 0..Len(buf)
          /\ Editing(scr, buf, line_start)
      BY <2>2 DEF TermInv, TermTypeOK, ReadInv, Reading
    <3>2. PICK p \in 0..line_start : /\ LastNewline(buf, p)
                                     /\ Good(scr, SubSeq(buf, p + 1, Len(buf)))
      BY <3>1 DEF Editing
    <3>3. p \in 0..Len(buf)
      BY <3>1 DEF Bodies
    <3>4. Field = SubSeq(buf, p + 1, Len(buf))
      BY <2>2, <3>1, <3>2, <3>3, FieldIs
    <3>5. SubSeq(buf, p + 1, Len(buf)) \in Text
      BY <3>1, <3>2, <3>3, FieldOf DEF IsField
    <3>6. Field \in Text
      BY <3>4, <3>5, Zenon
    <3>7. Good(scr, Field)
      BY <3>2, <3>4, Zenon
    <3> QED BY <3>6, <3>7 DEF Good
  <2> QED BY <2>1, <2>2
<1> DEFINE n == Least(Len(Field), scr.cursor)
<1>3. Len(Field) \in Nat
  BY <1>2 DEF Text
<1>4. n \in Nat /\ n <= Len(Field) /\ n <= scr.cursor
  BY <1>1, <1>3 DEF Least
<1>5. Before(scr, n) = SubSeq(Field, Len(Field) - n + 1, Len(Field))
  <2> HIDE DEF n
  <2> QED BY <1>1, <1>2, <1>4, BeforeShown
<1> QED BY <1>1, <1>5 DEF Clean

(* What is typed and not yet sent is what the screen shows, for every size *)
(* of the screen, of the lines and of the texts, every prompt and whatever *)
(* the commands print: through wrapping, scrolling, erasing and recalling. *)
THEOREM EchoSafe == TermSpec => []Echoed
BY TermSafe, InvEchoed, PTL

-----------------------------------------------------------------------------
(* The shell implements Readline.                                          *)
LEMMA SameSeq ==
  ASSUME NEW S, NEW a \in Seq(S), NEW b \in Seq(S), Len(a) = Len(b),
         \A i \in 1..Len(b) : a[i] = b[i]
  PROVE  a = b
OBVIOUS

LEMMA VisibleIs == TermInv /\ mode = "shell" => Visible = line
<1> SUFFICES ASSUME TermInv, mode = "shell" PROVE Visible = line
  OBVIOUS
<1> DEFINE w == Prompt \o line
<1>1. scr \in Screens /\ line \in Lines /\ Shows(scr, w) /\ Len(w) <= scr.cursor
  BY DEF TermInv, TermTypeOK, ShellInv, Full, Good
<1>2. /\ line \in Seq(Glyphs) /\ Prompt \in Seq(Glyphs) /\ Len(line) \in Nat
      /\ Len(Prompt) \in Nat /\ w \in Seq(Glyphs) /\ w \in Text
      /\ Len(w) = Len(Prompt) + Len(line) /\ scr.cursor \in Nat
  BY <1>1, LineText, Strings, SizeFacts DEF Text, Screens
<1>a. /\ \A i \in 1..Len(Prompt) : w[i] = Prompt[i]
      /\ \A i \in 1..Len(line) : w[Len(Prompt) + i] = line[i]
  BY <1>2
<1> HIDE DEF w
<1>3. Least(Len(Prompt) + Len(line), scr.cursor) = Len(w)
  BY <1>1, <1>2 DEF Least
<1>4. Before(scr, Len(w)) = SubSeq(w, Len(w) - Len(w) + 1, Len(w))
  <2>1. Len(w) \in Nat /\ Len(w) <= Len(w)
    BY <1>2
  <2> QED BY <1>1, <1>2, <2>1, BeforeShown
<1>5. SubSeq(w, Len(w) - Len(w) + 1, Len(w)) = w
  <2> DEFINE u == SubSeq(w, Len(w) - Len(w) + 1, Len(w))
  <2>1. Len(w) \in 0..Len(w) /\ Len(w) - Len(w) = 0
    BY <1>2
  <2>2. IsEnd(u, w, Len(w), Glyphs)
    BY <1>2, <2>1, EndOf
  <2> HIDE DEF u
  <2>3. u = w
    BY <1>2, <2>1, <2>2 DEF IsEnd
  <2> QED BY <2>3 DEF u
<1>6. Before(scr, Least(Len(Prompt) + Len(line), scr.cursor)) = w
  BY <1>3, <1>4, <1>5, Zenon
<1>7. IsPrefix(Prompt, w)
  <2> DEFINE a == SubSeq(Prompt, 1, Len(Prompt))
             b == SubSeq(w, 1, Len(Prompt))
  <2>1. Len(Prompt) \in 0..Len(Prompt) /\ Len(Prompt) \in 0..Len(w)
        /\ Len(Prompt) <= Len(w)
    BY <1>2
  <2>2. IsStart(a, Prompt, Len(Prompt), Glyphs)
        /\ IsStart(b, w, Len(Prompt), Glyphs)
    BY <1>2, <2>1, StartOf
  <2> HIDE DEF a, b
  <2>3. a = b
    <3>1. a \in Seq(Glyphs) /\ b \in Seq(Glyphs) /\ Len(a) = Len(Prompt)
          /\ Len(b) = Len(Prompt)
      BY <2>2 DEF IsStart
    <3>2. \A i \in 1..Len(Prompt) : a[i] = b[i]
      BY <1>a, <2>2 DEF IsStart
    <3> QED BY <3>1, <3>2, SameSeq
  <2> QED BY <2>1, <2>3 DEF IsPrefix, a, b
<1>8. SubSeq(w, Len(Prompt) + 1, Len(w)) = line
  <2> DEFINE m == Len(w) - Len(line)
             u == SubSeq(w, m + 1, Len(w))
  <2>1. Len(line) \in 0..Len(w) /\ m = Len(Prompt)
    BY <1>2
  <2>2. IsEnd(u, w, Len(line), Glyphs)
    BY <1>2, <2>1, EndOf
  <2> HIDE DEF u
  <2>3. u = line
    <3>1. u \in Seq(Glyphs) /\ Len(u) = Len(line)
      BY <2>2 DEF IsEnd
    <3>2. \A i \in 1..Len(line) : u[i] = line[i]
      BY <1>a, <2>1, <2>2 DEF IsEnd
    <3> QED BY <1>2, <3>1, <3>2, SameSeq
  <2> HIDE DEF m
  <2>4. SubSeq(w, m + 1, Len(w)) = line
    BY <2>3 DEF u
  <2> QED BY <2>1, <2>4
<1> QED BY <1>6, <1>7, <1>8, Zenon DEF Visible

LEMMA ShownIs == TermInv => Shown = IF mode = "shell" THEN line ELSE << >>
BY VisibleIs DEF Shown

LEMMA InitReadline == TermInit => Abstract!Init
BY DEF TermInit, Abstract!Init, Shown

(* The step of the abstract editor that a step of the terminal is.         *)
LEMMA EnterReadline ==
  ASSUME TermInv, Enter, Shown = line, Shown' = << >>
  PROVE  Abstract!Enter
<1>1. history \in Seq(Lines) /\ Len(history) \in Nat /\ Len(history) <= HistMax
      /\ line \in Lines
  BY DEF TermInv, TermTypeOK
<1>2. ran' = line /\ history_add(line)
  BY DEF Enter
<1>3. HistMax \in Nat /\ HistMax > 0
  BY Strings
<1>4. hist_browse' = Len(history')
  BY <1>2 DEF history_add
<1>5. Len(Append(history, line)) = Len(history) + 1
  BY <1>1
<1>6. history' = IF line = << >> THEN history ELSE Abstract!Newest(Append(history, line))
  <2>1. CASE line = << >>
    BY <1>2, <2>1 DEF history_add
  <2>2. CASE line # << >> /\ Len(history) < HistMax
    BY <1>1, <1>2, <1>3, <1>5, <2>2 DEF history_add, Abstract!Newest
  <2>3. CASE line # << >> /\ Len(history) >= HistMax
    <3>1. history # << >>
      BY <1>1, <1>3, <2>3
    <3>2. history' = Append(Tail(history), line)
      BY <1>1, <1>2, <1>3, <2>3 DEF history_add
    <3>3. Tail(Append(history, line)) = Append(Tail(history), line)
      BY <1>1, <3>1
    <3> QED BY <1>1, <1>3, <1>5, <2>3, <3>2, <3>3 DEF Abstract!Newest
  <2> QED BY <1>1, <1>3, <2>1, <2>2, <2>3
<1> QED BY <1>2, <1>4, <1>6 DEF Abstract!Enter

LEMMA NextReadline ==
  TermInv /\ TermInv' /\ [TermNext]_termVars => [Abstract!Next]_(Abstract!vars)
<1> SUFFICES ASSUME TermInv, TermInv', [TermNext]_termVars
             PROVE  [Abstract!Next]_(Abstract!vars)
  OBVIOUS
<1>1. Shown = IF mode = "shell" THEN line ELSE << >>
  BY ShownIs
<1>2. Shown' = IF mode' = "shell" THEN line' ELSE << >>
  <2>1. (Shown = IF mode = "shell" THEN line ELSE << >>)'
    BY ShownIs, PTL
  <2> QED BY <2>1
<1>3. line \in Lines /\ history \in Seq(Lines) /\ Len(history) \in Nat
      /\ LineMax \in Nat
  BY Strings DEF TermInv, TermTypeOK
<1>4. CASE EndSplash
  <2>1. mode # "shell" /\ mode' = "shell" /\ line' = << >>
        /\ history' = history /\ hist_browse' = hist_browse /\ ran' = ran
    BY <1>4 DEF EndSplash, BackToShell
  <2> QED BY <1>1, <1>2, <2>1 DEF Abstract!vars
<1>5. CASE HistoryKey
  <2>1. mode = "shell" /\ mode' = mode /\ history' = history /\ ran' = ran
    BY <1>5 DEF HistoryKey
  <2>2. CASE history_prev
    <3>1. hist_browse > 0 /\ hist_browse' = hist_browse - 1
          /\ line' = history[hist_browse]
      BY <2>2 DEF history_prev, replace_line
    <3>2. Abstract!Up
      BY <1>1, <1>2, <2>1, <3>1 DEF Abstract!Up
    <3> QED BY <3>2 DEF Abstract!Next
  <2>3. CASE history_next
    <3>1. /\ hist_browse < Len(history) /\ hist_browse' = hist_browse + 1
          /\ line' = IF hist_browse' = Len(history) THEN << >> ELSE history[hist_browse' + 1]
      BY <2>3 DEF history_next, replace_line
    <3>2. Abstract!Down
      BY <1>1, <1>2, <2>1, <3>1 DEF Abstract!Down
    <3> QED BY <3>2 DEF Abstract!Next
  <2> QED BY <1>5, <2>2, <2>3 DEF HistoryKey
<1>6. CASE Enter
  <2>1. mode = "shell"
    BY <1>6 DEF Enter
  <2>2. mode' # "shell" \/ line' = << >>
    BY <1>6 DEF Enter, execute, BackToShell
  <2>3. Shown = line /\ Shown' = << >>
    BY <1>1, <1>2, <2>1, <2>2
  <2> QED BY <1>6, <2>3, EnterReadline DEF Abstract!Next
<1>7. CASE Backspace
  <2>1. /\ mode = "shell" /\ mode' = mode /\ line # << >>
        /\ line' = SubSeq(line, 1, Len(line) - 1)
        /\ history' = history /\ hist_browse' = hist_browse /\ ran' = ran
    BY <1>7 DEF Backspace, Front
  <2>2. Shown = line /\ Shown' = SubSeq(line, 1, Len(line) - 1)
    BY <1>1, <1>2, <2>1, Zenon
  <2>3. Abstract!Erase
    BY <2>1, <2>2, Zenon DEF Abstract!Erase
  <2> QED BY <2>3 DEF Abstract!Next
<1>8. ASSUME NEW x \in Chars, Insert(x) PROVE [Abstract!Next]_(Abstract!vars)
  <2>1. /\ mode = "shell" /\ mode' = mode /\ Len(line) < LineMax - 1
        /\ line' = Append(line, x)
        /\ history' = history /\ hist_browse' = hist_browse /\ ran' = ran
    BY <1>8 DEF Insert
  <2>2. Abstract!Type(x)
    BY <1>1, <1>2, <2>1 DEF Abstract!Type
  <2> QED BY <2>2 DEF Abstract!Next
<1>9. ASSUME NEW x \in Chars \cup {Arrow}, TypeKey(x) PROVE [Abstract!Next]_(Abstract!vars)
  <2>1. mode # "shell" /\ mode' = mode /\ history' = history
        /\ hist_browse' = hist_browse /\ ran' = ran
    BY <1>9 DEF TypeKey, Reading, shellVars
  <2> QED BY <1>1, <1>2, <2>1 DEF Abstract!vars
<1>10. CASE EraseKey
  <2>1. mode # "shell" /\ mode' = mode /\ history' = history
        /\ hist_browse' = hist_browse /\ ran' = ran
    BY <1>10 DEF EraseKey, Reading, shellVars
  <2> QED BY <1>1, <1>2, <2>1 DEF Abstract!vars
<1>11. CASE Greet
  <2>1. mode # "shell" /\ mode' = "shell" /\ line' = << >>
        /\ history' = history /\ hist_browse' = hist_browse /\ ran' = ran
    BY <1>11 DEF Greet, BackToShell
  <2> QED BY <1>1, <1>2, <2>1 DEF Abstract!vars
<1>12. CASE NameDone
  <2>1. mode # "shell" /\ mode' # "shell" /\ history' = history
        /\ hist_browse' = hist_browse /\ ran' = ran
    BY <1>12 DEF NameDone, shellVars
  <2> QED BY <1>1, <1>2, <2>1 DEF Abstract!vars
<1>13. CASE BodyLine
  <2>1. mode # "shell" /\ mode' # "shell" /\ history' = history
        /\ hist_browse' = hist_browse /\ ran' = ran
    BY <1>13 DEF BodyLine, shellVars
  <2> QED BY <1>1, <1>2, <2>1 DEF Abstract!vars
<1>14. CASE BodyDone
  <2>1. mode # "shell" /\ mode' = "shell" /\ line' = << >>
        /\ history' = history /\ hist_browse' = hist_browse /\ ran' = ran
    BY <1>14 DEF BodyDone, BackToShell
  <2> QED BY <1>1, <1>2, <2>1 DEF Abstract!vars
<1>15. CASE UNCHANGED termVars
  <2>1. mode' = mode /\ line' = line /\ history' = history
        /\ hist_browse' = hist_browse /\ ran' = ran
    BY <1>15 DEF termVars, shellVars
  <2> QED BY <1>1, <1>2, <2>1 DEF Abstract!vars
<1> QED
  BY <1>4, <1>5, <1>6, <1>7, <1>8, <1>9, <1>10, <1>11, <1>12, <1>13, <1>14, <1>15,
     Zenon
  DEF TermNext

(* The shell runs and recalls what the screen shows after the prompt, for  *)
(* every screen on which the prompt and the longest line fit above the     *)
(* last row: the line editor, with its buffer, its history and the screen, *)
(* implements Readline.                                                    *)
THEOREM ImplementsReadline == TermSpec => ReadlineSpec
<1>1. TermInv /\ TermInv' /\ [TermNext]_termVars => [Abstract!Next]_(Abstract!vars)
  BY NextReadline
<1> QED BY <1>1, InitReadline, TermSafe, PTL DEF TermSpec, ReadlineSpec,
           Abstract!Spec
=============================================================================
