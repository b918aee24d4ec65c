-------------------------------- MODULE Apps --------------------------------
(***************************************************************************)
(* The shell with its two full-screen programs, text_editor and paint_app  *)
(* (kernel/kernel.c).  A program is the command the shell executes: it has *)
(* the screen to itself, loops on keyboard_getchar, is meant to end on ESC *)
(* (27), and leaves a clear screen for the next prompt.  The characters it *)
(* gets are those the keyboard handler stores, the non-zero entries of     *)
(* key_map.                                                                *)
(***************************************************************************)
EXTENDS Readline

CONSTANTS key_map,
          KeyCodes,                     \* scan codes of the keys used in each program
          ED_TOP, ED_LINES, ED_COLS,    \* first row and size of the editor's page
          PAINT_TOP, PAINT_X, PAINT_Y   \* first row of the canvas, brush at the start

ASSUME AppsAssumption ==
  /\ key_map \in [MakeCodes -> ByteValues] 
  /\ KeyCodes \in [{"edit", "paint"} -> SUBSET MakeCodes]
  /\ ED_LINES \in Nat \ {0} /\ ED_COLS \in Nat \ {0}
  /\ ED_TOP \in Nat /\ ED_TOP + ED_LINES < SCREEN_H /\ ED_COLS <= SCREEN_W
  /\ PAINT_TOP \in Rows /\ PAINT_X \in Columns /\ PAINT_Y \in PAINT_TOP..(SCREEN_H - 1)

BRUSH == 219
ESC_CODE == 1
W_KEY == 119
A_KEY == 97
S_KEY == 115
D_KEY == 100

VARIABLES app,              \* "none", "edit", "paint"
          kbd,              \* the character that waits in the keyboard ring
          lines, line, col, \* the editor's page and its position in it
          px, py,           \* the brush
          esc               \* the ESC key was pressed in the running program

page    == << lines, line, col >>
canvas  == << px, py >>
locals  == << app, kbd, page, canvas, esc >>
console == << vars, locals >>

PageLines == 0..(ED_LINES - 1)
PageCols  == 0..(ED_COLS - 1)
EmptyPage == [r \in PageLines |-> [k \in PageCols |-> 0]]
Cell(y, x) == y * SCREEN_W + x
Paint(s, y, x, ch) == [s EXCEPT !.cell = [s.cell EXCEPT ![Cell(y, x)] = ch]]

ConsoleInit ==
  /\ Init
  /\ app = "none" /\ kbd = << >>
  /\ lines = EmptyPage /\ line = 0 /\ col = 0
  /\ px = PAINT_X /\ py = PAINT_Y
  /\ esc = FALSE

(* A key the keyboard handler turns into a character, or into none. *)
PressKey ==
  /\ app # "none" /\ kbd = << >>
  /\ \E sc \in KeyCodes[app] :
       /\ kbd' = IF key_map[sc] # 0 THEN << key_map[sc] >> ELSE << >>
       /\ esc' = (esc \/ sc = ESC_CODE)
  /\ UNCHANGED << vars, app, page, canvas >>

(* net_poll in the program's keyboard_getchar prints where the cursor is. *)
ReplyIntoProgram ==
  /\ app # "none" /\ kbd = << >> /\ out = << >>
  /\ out' = Reply /\ clean' = FALSE
  /\ UNCHANGED << pc, screen, buf, locals >>

(* The banner above the page and the menu above the canvas are left out. *)
StartEditor ==
  /\ Idle("command") /\ app = "none" /\ app' = "edit"
  /\ screen' = [Cleared EXCEPT !.y = ED_TOP]
  /\ lines' = EmptyPage /\ line' = 0 /\ col' = 0
  /\ clean' = TRUE /\ esc' = FALSE
  /\ UNCHANGED << pc, buf, out, kbd, canvas >>

StartPaint ==
  /\ Idle("command") /\ app = "none" /\ app' = "paint"
  /\ px' = PAINT_X /\ py' = PAINT_Y
  /\ screen' = Paint(Cleared, PAINT_Y, PAINT_X, BRUSH)
  /\ clean' = TRUE /\ esc' = FALSE
  /\ UNCHANGED << pc, buf, out, kbd, page >>

Getchar(in) ==
  /\ app = in /\ out = << >>
  /\ kbd # << >> /\ kbd' = << >>

ch == Head(kbd)

(* The program returns; its locals are gone. *)
Quit(in) ==
  /\ Getchar(in) /\ ch = ESC
  /\ app' = "none" /\ pc' = "prompt" /\ screen' = Cleared
  /\ lines' = EmptyPage /\ line' = 0 /\ col' = 0
  /\ px' = PAINT_X /\ py' = PAINT_Y
  /\ clean' = TRUE /\ esc' = FALSE
  /\ UNCHANGED << buf, out >>

EditorEnterKeepsCol ==
  /\ Getchar("edit") /\ ch = NEWLINE
  /\ IF line < ED_LINES - 1
     THEN line' = line + 1 /\ screen' = [screen EXCEPT !.x = 0, !.y = screen.y + 1]
     ELSE UNCHANGED << line, screen >>
  /\ UNCHANGED << app, pc, buf, col, lines, canvas, out, clean, esc >>

EditorEnter ==
  /\ Getchar("edit") /\ ch = NEWLINE
  /\ IF line < ED_LINES - 1
     THEN /\ line' = line + 1 /\ col' = 0
          /\ screen' = [screen EXCEPT !.x = 0,
                          !.y = IF screen.y + 1 >= SCREEN_H THEN SCREEN_H - 1 ELSE screen.y + 1]
     ELSE UNCHANGED << line, col, screen >>
  /\ UNCHANGED << app, pc, buf, lines, canvas, out, clean, esc >>

EditorBackspace ==
  /\ Getchar("edit") /\ ch = BACKSPACE
  /\ IF col > 0
     THEN /\ col' = col - 1
          /\ lines' = [lines EXCEPT ![line][col - 1] = 0]
          /\ screen' = Store([screen EXCEPT !.x = IF screen.x > 0 THEN screen.x - 1 ELSE 0], BLANK)
     ELSE UNCHANGED << col, lines, screen >>
  /\ UNCHANGED << app, pc, buf, line, canvas, out, clean, esc >>

LineHasRoom == col < ED_COLS - 1

EditorType ==
  /\ Getchar("edit") /\ ch \notin {ESC, NEWLINE, BACKSPACE}
  /\ IF Printable(ch) /\ LineHasRoom
     THEN /\ lines' = [lines EXCEPT ![line][col] = ch]
          /\ col' = col + 1
          /\ screen' = Putc(screen, ch)
     ELSE UNCHANGED << lines, col, screen >>
  /\ UNCHANGED << app, pc, buf, line, canvas, out, clean, esc >>

UpDown(y) == IF ch = W_KEY /\ y > PAINT_TOP THEN y - 1
             ELSE IF ch = S_KEY /\ y < SCREEN_H - 1 THEN y + 1 ELSE y

AcrossNoEdge(x) == IF ch = A_KEY THEN x - 1 ELSE IF ch = D_KEY THEN x + 1 ELSE x
Across(x) == IF ch = A_KEY /\ x > 0 THEN x - 1
             ELSE IF ch = D_KEY /\ x < SCREEN_W - 1 THEN x + 1 ELSE x

(* Every key blanks the brush's cell, moves, and paints the brush again; the *)
(* space bar paints it a second time.                                        *)
Lift(s) == Paint(s, py, px, BLANK)

PaintKey ==
  /\ Getchar("paint") /\ ch # ESC
  /\ py' = UpDown(py) /\ px' = Across(px)
  /\ screen' = Paint(Lift(screen), py', px', BRUSH)
  /\ UNCHANGED << app, pc, buf, page, out, clean, esc >>

Editor == EditorEnter \/ EditorBackspace \/ EditorType \/ Quit("edit")
Painter == PaintKey \/ Quit("paint")

(* What the shell does around its programs, and while one prints a reply. *)
Shell ==
  /\ \/ Output \/ ShowPrompt \/ Enter \/ Backspace \/ Echo \/ Full \/ ReplyPrinted
     \/ Command /\ app = "none"
  /\ UNCHANGED locals

ConsoleNext ==
  \/ Shell \/ PressKey \/ ReplyIntoProgram \/ StartEditor \/ StartPaint \/ Editor \/ Painter

ConsoleSpec == ConsoleInit /\ [][ConsoleNext]_console

(* The thread handles the character that waits and finishes what it prints.  *)
FairConsole ==
  /\ ConsoleSpec
  /\ WF_console(Editor \/ Painter) /\ WF_console(Output /\ UNCHANGED locals)

-----------------------------------------------------------------------------
(* Properties *)

(* Page and canvas indices stay in range, also when replies move the cursor. *)
ConsoleTypeOK ==
  /\ TypeOK
  /\ app \in {"none", "edit", "paint"} /\ (app # "none" => pc = "command")
  /\ kbd \in Seq(ByteValues) /\ Len(kbd) <= 1
  /\ lines \in [PageLines -> [PageCols -> ByteValues]]
  /\ line \in PageLines /\ col \in PageCols
  /\ px \in Columns /\ py \in PAINT_TOP..(SCREEN_H - 1)
  /\ esc \in BOOLEAN

(* Unless a reply was printed into it, the screen shows what the program     *)
(* holds: the editor its lines, with the cursor where the next character     *)
(* goes, and the paint program one brush, where it thinks it is.             *)
PageIsShown ==
  /\ screen.y = ED_TOP + line /\ screen.x = col
  /\ \A r \in PageLines, k \in PageCols :
       screen.cell[Cell(ED_TOP + r, k)] = IF lines[r][k] = 0 THEN BLANK ELSE lines[r][k]
OneBrush == {i \in Cells : screen.cell[i] = BRUSH} = {Cell(py, px)}

ProgramIsShown ==
  clean => (app = "edit" => PageIsShown) /\ (app = "paint" => OneBrush)

(* "ESC to exit", the editor's banner says: pressing ESC ends the program.   *)
EscExits == (app # "none" /\ esc) ~> (app = "none")
=============================================================================
