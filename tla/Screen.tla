------------------------------- MODULE Screen -------------------------------
(***************************************************************************)
(* The VGA text screen of UwUOS (kernel/kernel.c): SCREEN_H rows of        *)
(* SCREEN_W cells in one array, a cursor, and the functions that write at  *)
(* the cursor.  A screen is [cell, y, x]; colours are left out.  A         *)
(* definition whose name extends the next one's (ScrollHome, Scroll) is a  *)
(* mutation of it that a run must refute.                                  *)
(***************************************************************************)
EXTENDS KeyMap

CONSTANTS SCREEN_W, SCREEN_H

ASSUME ScreenAssumption ==
  /\ SCREEN_W \in Nat \ {0}
  /\ SCREEN_H \in Nat \ {0}

BLANK == 32

Cells   == 0..(SCREEN_W * SCREEN_H - 1)
Columns == 0..(SCREEN_W - 1)
Rows    == 0..(SCREEN_H - 1)
Screens == [cell : [Cells -> ByteValues], y : Rows, x : Columns]

(* The cell under the cursor. *)
Pos(s) == s.y * SCREEN_W + s.x

Cleared == [cell |-> [i \in Cells |-> BLANK], y |-> 0, x |-> 0]

(* Every row moves up by one; the last one is blank, and has the cursor. *)
ScrollHome(s) ==
  [s EXCEPT !.cell = [i \in Cells |-> IF i < SCREEN_W * (SCREEN_H - 1)
                                      THEN s.cell[i + SCREEN_W] ELSE BLANK],
            !.y = 0]

Scroll(s) ==
  [s EXCEPT !.cell = [i \in Cells |-> IF i < SCREEN_W * (SCREEN_H - 1)
                                      THEN s.cell[i + SCREEN_W] ELSE BLANK],
            !.y = SCREEN_H - 1]

NewLine(s) ==
  LET t == [s EXCEPT !.x = 0]
  IN  IF s.y + 1 >= SCREEN_H THEN Scroll(t) ELSE [t EXCEPT !.y = s.y + 1]

Store(s, ch) == [s EXCEPT !.cell = [s.cell EXCEPT ![Pos(s)] = ch]]

Putc(s, ch) ==
  IF ch = NEWLINE THEN NewLine(s)
  ELSE IF s.x + 1 >= SCREEN_W THEN NewLine(Store(s, ch))
  ELSE [Store(s, ch) EXCEPT !.x = s.x + 1]

(* terminal_readline's backspace: back one cell, over the line's edge too. *)
Rubout(s) ==
  Store(IF s.x > 0 THEN [s EXCEPT !.x = s.x - 1]
                   ELSE [s EXCEPT !.x = SCREEN_W - 1, !.y = s.y - 1], BLANK)

(* The text that ends at the cursor. *)
Before(s, n) == [j \in 1..n |-> s.cell[Pos(s) - n + j - 1]]
=============================================================================
