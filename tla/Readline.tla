------------------------------ MODULE Readline -----------------------------
(***************************************************************************)
(* What the shell's line editor promises: the user edits the text that is  *)
(* on the screen, Enter runs that text, and the arrow keys go through the  *)
(* last Keep commands and back to an empty line.                           *)
(***************************************************************************)
EXTENDS Naturals, Sequences

CONSTANTS Chars, Limit, Keep

VARIABLES text,        \* the line, as the user sees it
          past,        \* the commands that can be recalled, oldest first
          at,          \* the one that is shown: past[at + 1], or a fresh line
          ran          \* the command that was run last

vars == <<text, past, at, ran>>

Init == /\ text = <<>> /\ ran = <<>>
        /\ past = <<>>
        /\ at = 0

Type(c) == /\ Len(text) < Limit
           /\ text' = Append(text, c)
           /\ UNCHANGED <<past, at, ran>>

Erase == /\ text # <<>>
         /\ text' = SubSeq(text, 1, Len(text) - 1)
         /\ UNCHANGED <<past, at, ran>>

Newest(s) == IF Len(s) > Keep THEN Tail(s) ELSE s

Enter == /\ ran' = text
         /\ past' = IF text = <<>> THEN past ELSE Newest(Append(past, text))
         /\ at' = Len(past')
         /\ text' = <<>>

Up == /\ at > 0
      /\ at' = at - 1
      /\ text' = past[at]
      /\ UNCHANGED <<past, ran>>

Down == /\ at < Len(past)
        /\ at' = at + 1
        /\ text' = IF at' = Len(past) THEN <<>> ELSE past[at' + 1]
        /\ UNCHANGED <<past, ran>>

Next == \/ \E c \in Chars : Type(c)
        \/ Erase \/ Enter \/ Up \/ Down

Spec == Init /\ [][Next]_vars
=============================================================================
