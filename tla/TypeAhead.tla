----------------------------- MODULE TypeAhead -----------------------------
(***************************************************************************)
(* What the keyboard driver promises the shell: the characters come out in *)
(* the order they were typed, each exactly once; what is typed while       *)
(* Capacity characters are waiting is lost.  A character is shifted if it  *)
(* is typed between the press of a Shift key and the next release of one,  *)
(* be it the same key or another.                                          *)
(***************************************************************************)
EXTENDS Naturals, Sequences

CONSTANTS Keys,        \* all keys
          ShiftKeys,   \* the Shift keys among them
          Typed(_, _), \* the characters (none or one) of a key, shifted or not
          Capacity,    \* characters that can wait
          Nothing      \* nothing has been read yet

VARIABLES down,        \* the keys that are held down
          shifted,     \* the last that happened to a Shift key was a press
          queue,       \* the characters that wait to be read
          got          \* the last character that was read

vars == <<down, shifted, queue, got>>

Init == /\ down = {}
        /\ shifted = FALSE
        /\ queue = << >>
        /\ got = Nothing

Press(k) == LET c == Typed(k, shifted)
            IN /\ down' = down \cup {k}
               /\ shifted' = (shifted \/ k \in ShiftKeys)
               /\ queue' = IF Len(queue) < Capacity THEN queue \o c ELSE queue
               /\ UNCHANGED got

Release(k) == /\ k \in down
              /\ down' = down \ {k}
              /\ shifted' = (shifted /\ k \notin ShiftKeys)
              /\ UNCHANGED <<queue, got>>

Get == /\ queue # << >>
       /\ got' = Head(queue)
       /\ queue' = Tail(queue)
       /\ UNCHANGED <<down, shifted>>

Next == \/ \E k \in Keys : Press(k) \/ Release(k)
        \/ Get

Spec == Init /\ [][Next]_vars
=============================================================================
