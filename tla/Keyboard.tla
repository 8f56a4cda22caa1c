------------------------------ MODULE Keyboard -----------------------------
(***************************************************************************)
(* The keyboard driver, kernel/keyboard.c, between the keyboard (IRQ 1)    *)
(* and its readers, shell_run in kernel/shell.c and SYS_READ in kernel/    *)
(* syscall.c, which run the same loop: take a character, or hlt until the  *)
(* next interrupt.                                                         *)
(*                                                                         *)
(* The interrupt handler runs to its end; it can strike between any two    *)
(* accesses that the reader makes to head, tail and buffer, and between    *)
(* the reader's look at an empty buffer and its hlt.  The timer (IRQ 0)    *)
(* interrupts the hlt too.  A scancode is a prefix 0xE0 or a key with its  *)
(* release bit.                                                            *)
(***************************************************************************)
EXTENDS Naturals, Sequences

CONSTANTS Letters,     \* keys with an entry in the scancode tables
          Arrows,      \* extended keys that are handled
          Others,      \* keys that type nothing (Ctrl, Alt...)
          ShiftKeys,   \* LSHIFT, RSHIFT
          BufSize,     \* BUF_SIZE
          MaxEvents,   \* bound: scancodes that arrive
          Nothing

ASSUME KeyboardAssumption == /\ BufSize \in Nat \ {0}
                             /\ MaxEvents \in Nat
                             /\ ShiftKeys # {}
                             /\ Letters \cap Arrows = {}
                             /\ (Letters \cup Arrows) \cap ShiftKeys = {}
                             /\ Nothing \notin Arrows

Keys == Letters \cup Arrows \cup Others \cup ShiftKeys

(* The character of a key, if it has one.                                  *)
Typed(k, shifted) == IF k \in Letters THEN <<[key |-> k, shift |-> shifted]>>
                     ELSE IF k \in Arrows THEN <<[key |-> k, shift |-> FALSE]>>
                     ELSE << >>

VARIABLES buffer, head, tail, shift, extended,
          down,        \* the keys that are held down
          prefixed,    \* the extended key whose 0xE0 has been sent, or Nothing
          events,      \* scancodes sent so far
          reader,      \* what the reader does next
          c,           \* its local variable
          got          \* the last character it returned

ringVars == <<buffer, head>>
keyVars == <<shift, extended>>
readerVars == <<tail, reader, c, got>>
vars == <<ringVars, keyVars, down, prefixed, events, readerVars>>

Init == /\ buffer = [i \in 0..(BufSize - 1) |-> Nothing]
        /\ head = 0 /\ tail = 0
        /\ shift = FALSE /\ extended = FALSE
        /\ down = {}
        /\ prefixed = Nothing
        /\ events = 0
        /\ reader = "test"
        /\ c = Nothing
        /\ got = Nothing

-----------------------------------------------------------------------------
enqueue_NoFullTest(ch) ==
  /\ buffer' = [buffer EXCEPT ![head] = ch]
  /\ head' = (head + 1) % BufSize

enqueue(ch) == IF (head + 1) % BufSize # tail
               THEN /\ buffer' = [buffer EXCEPT ![head] = ch]
                    /\ head' = (head + 1) % BufSize
               ELSE UNCHANGED ringVars

(* keyboard_callback, by what arrives: a prefix, a release, a press.       *)
PrefixArrives == extended' = TRUE /\ UNCHANGED <<shift, ringVars>>

ReleaseArrives(k) == /\ shift' = IF k \in ShiftKeys THEN FALSE ELSE shift
                     /\ extended' = FALSE
                     /\ UNCHANGED ringVars

PressArrives(k) ==
  IF extended
  THEN /\ extended' = FALSE
       /\ UNCHANGED shift
       /\ IF k \in Arrows THEN enqueue([key |-> k, shift |-> FALSE])
          ELSE UNCHANGED ringVars
  ELSE IF k \in ShiftKeys THEN shift' = TRUE /\ UNCHANGED <<extended, ringVars>>
  ELSE /\ UNCHANGED keyVars
       /\ IF k \in Letters THEN enqueue([key |-> k, shift |-> shift])
          ELSE UNCHANGED ringVars

(* Every interrupt ends a hlt.                                             *)
Woken == reader' = IF reader = "asleep" THEN "test" ELSE reader

(* A key that is held down repeats its press.  The keyboard sends 0xE0     *)
(* before the code of an extended key.                                     *)
Irq == /\ events < MaxEvents
       /\ events' = events + 1
       /\ Woken
       /\ UNCHANGED <<tail, c, got>>

Prefix(k) == /\ Irq
             /\ prefixed = Nothing
             /\ k \in Arrows
             /\ PrefixArrives
             /\ prefixed' = k
             /\ UNCHANGED down

NextIs(k) == prefixed = k \/ (prefixed = Nothing /\ k \notin Arrows)

Press(k) == /\ Irq
            /\ NextIs(k)
            /\ PressArrives(k)
            /\ down' = down \cup {k}
            /\ prefixed' = Nothing

Release(k) == /\ Irq
              /\ NextIs(k)
              /\ k \in down
              /\ ReleaseArrives(k)
              /\ down' = down \ {k}
              /\ prefixed' = Nothing

-----------------------------------------------------------------------------
(* The reader: keyboard_getchar in three steps, or hlt.                    *)
Step(from, to) == reader = from /\ reader' = to

Test == /\ reader = "test"
        /\ reader' = IF tail = head THEN "hlt" ELSE "load"
        /\ UNCHANGED <<tail, c, got>>

Load == /\ Step("load", "advance")
        /\ c' = buffer[tail]
        /\ UNCHANGED <<tail, got>>

Advance == /\ Step("advance", "test")
           /\ tail' = (tail + 1) % BufSize
           /\ got' = c
           /\ UNCHANGED c

Hlt == /\ Step("hlt", "asleep")
       /\ UNCHANGED <<tail, c, got>>

Read == /\ Test \/ Load \/ Advance \/ Hlt
        /\ UNCHANGED <<ringVars, keyVars, down, prefixed, events>>

Timer_Masked == /\ reader = "asleep"
                /\ UNCHANGED vars

Timer == /\ reader = "asleep"
         /\ Woken
         /\ UNCHANGED <<ringVars, keyVars, down, prefixed, events, tail, c, got>>

Next == \/ \E k \in Keys : Prefix(k) \/ Press(k) \/ Release(k)
        \/ Read
        \/ Timer

(* The reader runs when it is not asleep; the timer ticks for ever.        *)
Spec == Init /\ [][Next]_vars /\ WF_vars(Read) /\ WF_vars(Timer)

-----------------------------------------------------------------------------

(* The characters from tail up to head.                                    *)
Waiting == [i \in 1..((head + BufSize - tail) % BufSize) |->
              buffer[(tail + i - 1) % BufSize]]

(* The ring, without a lock between the interrupt and the reader           *)
(* (keyboard.c:10-12), is a queue of BufSize - 1 characters that loses     *)
(* none, repeats none, keeps their order, and gives each the case of the   *)
(* last press or release of a Shift key before it (keyboard.c:86-114).     *)
Queue == INSTANCE TypeAhead WITH Capacity <- BufSize - 1, queue <- Waiting,
                                 shifted <- shift
QueueSpec == Queue!Spec

(* Every character is read in the end, even if its interrupt came between  *)
(* the reader's look at the empty buffer and its hlt.                      *)
Drained == <>[](head = tail /\ reader \in {"test", "hlt", "asleep"})
=============================================================================
