------------------------------- MODULE Screen ------------------------------
(***************************************************************************)
(* The text screen, kernel/screen.c: a row of Cols * Rows cells and a      *)
(* cursor.  Colours are left out.  Every operator takes a screen and gives *)
(* the one that is left.                                                   *)
(***************************************************************************)
EXTENDS Naturals, SequencesExt

CONSTANTS Cols, Rows,
          Space,       \* what an empty cell holds
          NL, BS       \* '\n' and '\b'

ASSUME ScreenAssumption == Cols \in Nat \ {0} /\ Rows \in Nat \ {0, 1}

Size == Cols * Rows
Cells == 0..(Size - 1)
LastRow == Cols * (Rows - 1)

clear_screen == [cells |-> [k \in Cells |-> Space], cursor |-> 0]

put_cell(scr, k, c) == [scr EXCEPT !.cells[k] = c]

scroll_if_needed_RowKept(scr) ==
  IF scr.cursor < Size THEN scr
  ELSE [cells |-> [k \in Cells |-> IF k < LastRow THEN scr.cells[k + Cols]
                                   ELSE scr.cells[k]],
        cursor |-> LastRow]

scroll_if_needed(scr) ==
  IF scr.cursor < Size THEN scr
  ELSE [cells |-> [k \in Cells |-> IF k < LastRow THEN scr.cells[k + Cols] ELSE Space],
        cursor |-> LastRow]

NewLine(scr) == [scr EXCEPT !.cursor = (@ \div Cols + 1) * Cols]

Erase(scr) == IF scr.cursor = 0 THEN scr
              ELSE put_cell([scr EXCEPT !.cursor = @ - 1], scr.cursor - 1, Space)

Put(scr, c) == [put_cell(scr, scr.cursor, c) EXCEPT !.cursor = @ + 1]

kprint_char(scr, c) == scroll_if_needed(IF c = NL THEN NewLine(scr)
                                        ELSE IF c = BS THEN Erase(scr)
                                        ELSE Put(scr, c))

kprint(scr, s) == FoldLeft(kprint_char, scr, s)

(* The n cells before the cursor.                                          *)
Before(scr, n) == [k \in 1..n |-> scr.cells[scr.cursor - n + k - 1]]
=============================================================================
