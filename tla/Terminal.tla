------------------------------ MODULE Terminal -----------------------------
(***************************************************************************)
(* The user at the keyboard and the screen: the shell's line editor and    *)
(* its history (kernel/shell.c), the screen (kernel/screen.c), the logo    *)
(* (kernel/logo.c), and the two programs that read text with their own     *)
(* editing, ask and note (user/ask.c, user/note.c), through SYS_READ and   *)
(* SYS_WRITE.  Characters arrive one by one, as Keyboard.tla delivers      *)
(* them.                                                                   *)
(*                                                                         *)
(* A string is a sequence; the line is line[0 .. line_len - 1].  What a    *)
(* command prints is one of Outputs.                                       *)
(***************************************************************************)
EXTENDS Screen

CONSTANTS Glyphs,      \* characters other than newline and backspace
          Chars,       \* what can be typed, besides Enter, Backspace, arrows
          Arrow,       \* an arrow key, as a program sees it
          Dot,         \* '.', one of Chars
          Prompt,      \* "pyro> "
          Question,    \* what a program asks
          Banner,      \* what shell_run says first
          Outputs,     \* what commands print
          LineMax,     \* LINE_MAX
          HistMax,     \* HIST_MAX
          NameMax,     \* the size of name in note, and of name in ask
          BodyMax      \* the size of body in note

ASSUME TerminalAssumption ==
  /\ {LineMax, HistMax, NameMax, BodyMax} \subseteq Nat \ {0}
  /\ Dot \in Chars /\ Chars \cup {Arrow} \subseteq Glyphs
  /\ NL \notin Glyphs /\ BS \notin Glyphs /\ NL # BS
  /\ Prompt \in Seq(Glyphs)
  /\ {Question, Banner} \cup Outputs \subseteq Seq(Glyphs \cup {NL, BS})
  /\ Len(Prompt) > 0 /\ Len(Prompt) + LineMax - 1 <= LastRow

VARIABLES scr,                      \* the screen
          mode,                     \* who reads the keyboard
          line, history,            \* of the shell, with hist_count
          hist_browse,
          buf, line_start,          \* a program's name or body, and line_start
          ran                       \* history: the command run last

shellVars == <<line, history, hist_browse, ran>>
progVars == <<buf, line_start>>
termVars == <<scr, mode, shellVars, progVars>>

(* kmain shows the logo before it starts the shell.                        *)
draw_logo == [clear_screen EXCEPT !.cells = [k \in Cells |-> Dot]]

TermInit == /\ scr = draw_logo
            /\ mode = "boot"
            /\ line = <<>> /\ history = <<>> /\ hist_browse = 0
            /\ buf = <<>> /\ line_start = 0
            /\ ran = <<>>

-----------------------------------------------------------------------------
(* The shell.                                                              *)
prompt(s) == kprint(s, Prompt)

(* execute is done: a fresh line.                                          *)
BackToShell(s) == /\ scr' = prompt(s)
                  /\ mode' = "shell"
                  /\ line' = <<>>

(* logo_splash ends, at boot, where shell_run follows, or in the logo      *)
(* command.                                                                *)
EndSplash == /\ mode \in {"boot", "splash"}
             /\ BackToShell(IF mode = "boot" THEN kprint(clear_screen, Banner)
                            ELSE clear_screen)
             /\ UNCHANGED <<history, hist_browse, ran, progVars>>

replace_line_NotErased(s) == /\ scr' = kprint(scr, s)
                             /\ line' = s

replace_line(s) ==
  /\ scr' = kprint(kprint(scr, [k \in 1..Len(line) |-> BS]), s)
  /\ line' = s

history_prev == /\ hist_browse > 0
                /\ hist_browse' = hist_browse - 1
                /\ replace_line(history[hist_browse])

history_next == /\ hist_browse < Len(history)
                /\ hist_browse' = hist_browse + 1
                /\ replace_line(IF hist_browse' = Len(history) THEN <<>>
                                ELSE history[hist_browse' + 1])

HistoryKey == /\ mode = "shell"
              /\ history_prev \/ history_next
              /\ UNCHANGED <<mode, history, ran, progVars>>

history_add(s) ==
  /\ history' = IF s = <<>> THEN history
                ELSE IF Len(history) < HistMax THEN Append(history, s)
                ELSE Append(Tail(history), s)
  /\ hist_browse' = Len(history')

(* What execute can do: print something, clear, show the logo, or start a  *)
(* program.  An empty line does nothing.                                   *)
execute(s) ==
  \/ /\ \E o \in IF line = <<>> THEN {<<>>} ELSE Outputs : BackToShell(kprint(s, o))
     /\ UNCHANGED progVars
  \/ /\ line # <<>>
     /\ BackToShell(clear_screen)
     /\ UNCHANGED progVars
  \/ /\ line # <<>>
     /\ scr' = draw_logo
     /\ mode' = "splash"
     /\ UNCHANGED <<line, progVars>>
  \/ /\ line # <<>>
     /\ mode' \in {"ask", "name"}
     /\ scr' = kprint(s, Question)
     /\ buf' = <<>> /\ line_start' = 0
     /\ UNCHANGED line

Enter == /\ mode = "shell"
         /\ history_add(line)
         /\ ran' = line
         /\ execute(kprint_char(scr, NL))

Backspace == /\ mode = "shell" /\ line # <<>>
             /\ line' = Front(line)
             /\ scr' = kprint_char(scr, BS)
             /\ UNCHANGED <<mode, history, hist_browse, ran, progVars>>

Insert(c) == /\ mode = "shell" /\ Len(line) < LineMax - 1
             /\ line' = Append(line, c)
             /\ scr' = kprint_char(scr, c)
             /\ UNCHANGED <<mode, history, hist_browse, ran, progVars>>

-----------------------------------------------------------------------------
(* The programs.  An arrow key is a character like any other to them.      *)
Reading == mode \in {"ask", "name", "body"}
FieldSize == IF mode = "body" THEN BodyMax ELSE NameMax

TypeKey(c) == /\ Reading /\ Len(buf) < FieldSize - 1
              /\ buf' = Append(buf, c)
              /\ scr' = kprint_char(scr, c)
              /\ UNCHANGED <<mode, shellVars, line_start>>

EraseKey == /\ Reading /\ Len(buf) > line_start
            /\ buf' = Front(buf)
            /\ scr' = kprint_char(scr, BS)
            /\ UNCHANGED <<mode, shellVars, line_start>>

(* Enter in ask: the greeting, and the program ends.                       *)
Greet == /\ mode = "ask"
         /\ BackToShell(kprint(scr, <<NL>> \o buf \o <<NL>>))
         /\ UNCHANGED <<history, hist_browse, ran, progVars>>

(* Enter after the filename, which is not empty.                           *)
NameDone == /\ mode = "name" /\ buf # <<>>
            /\ mode' = "body"
            /\ buf' = <<>> /\ line_start' = 0
            /\ scr' = kprint(scr, <<NL>> \o Question \o <<NL>>)
            /\ UNCHANGED shellVars

DotLine == Len(buf) - line_start = 1 /\ buf[line_start + 1] = Dot

(* Enter in the text: a newline, if there is room for it.                  *)
BodyLine == /\ mode = "body" /\ ~DotLine
            /\ \/ /\ Len(buf) < BodyMax - 1
                  /\ buf' = Append(buf, NL)
                  /\ scr' = kprint_char(scr, NL)
               \/ /\ Len(buf) >= BodyMax - 1
                  /\ UNCHANGED <<buf, scr>>
            /\ line_start' = Len(buf')
            /\ UNCHANGED <<mode, shellVars>>

(* Enter on the line with the dot: save the text before it, print it as it *)
(* was read back, or that it could not be saved.                           *)
BodyDone == /\ mode = "body" /\ DotLine
            /\ \E text \in {SubSeq(buf, 1, line_start), <<>>} :
                 BackToShell(kprint(scr, <<NL>> \o text \o <<NL>>))
            /\ buf' = <<>> /\ line_start' = 0
            /\ UNCHANGED <<history, hist_browse, ran>>

TermNext == \/ EndSplash \/ HistoryKey \/ Enter \/ Backspace
            \/ \E c \in Chars : Insert(c)
            \/ \E c \in Chars \cup {Arrow} : TypeKey(c)
            \/ EraseKey
            \/ Greet \/ NameDone \/ BodyLine \/ BodyDone

TermSpec == TermInit /\ [][TermNext]_termVars

-----------------------------------------------------------------------------
(* The line the user is editing: the shell's, a name, or the text since    *)
(* its last newline.                                                       *)
Field == IF mode = "shell" THEN line
         ELSE SubSeq(buf, SelectLastInSeq(buf, LAMBDA c : c = NL) + 1, Len(buf))

Least(m, n) == IF m < n THEN m ELSE n

(* What is typed and not yet sent is what the screen shows: the cells      *)
(* before the cursor hold it (its end, if it is longer than the screen)    *)
(* and there is nothing after it, through lines that wrap, rows that       *)
(* scroll away while they are typed, and Backspace across the end of a     *)
(* row.                                                                    *)
Echoed == mode \notin {"boot", "splash"} =>
  LET n == Least(Len(Field), scr.cursor)
  IN  /\ Before(scr, n) = SubSeq(Field, Len(Field) - n + 1, Len(Field))
      /\ \A k \in Cells : k >= scr.cursor => scr.cells[k] = Space

(* What the user sees between the prompt and the cursor; if the prompt is  *)
(* not in its place, the cells there, which are no line.                   *)
Visible == LET shown == Before(scr, Least(Len(Prompt) + Len(line), scr.cursor))
           IN  IF IsPrefix(Prompt, shown)
               THEN SubSeq(shown, Len(Prompt) + 1, Len(shown))
               ELSE shown

Shown == IF mode = "shell" THEN Visible ELSE <<>>

(* What the user sees after the prompt is the command that Enter runs and  *)
(* that the history recalls; commands come back in the order in which they *)
(* were entered, "up/down arrows recall previous commands" (shell.c:39).   *)
Abstract == INSTANCE Readline WITH
  Limit <- LineMax - 1, Keep <- HistMax, text <- Shown, past <- history,
  at <- hist_browse
ReadlineSpec == Abstract!Spec
=============================================================================
