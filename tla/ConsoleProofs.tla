--------------------------- MODULE ConsoleProofs ----------------------------
(***************************************************************************)
(* Proofs about the console.  First Readline alone: the cursor, and the    *)
(* line that is shown, for every screen, buffer and set of outputs that    *)
(* ReadlineAssumption allows.  Then Apps, the shell with its editor and    *)
(* its paint program, for every key map, page and canvas that              *)
(* AppsAssumption allows.                                                  *)
(***************************************************************************)
EXTENDS Apps, SequenceTheorems, TLAPS

-----------------------------------------------------------------------------
(* Arithmetic of rows and columns. *)

LEMMA ProductNat ==
  ASSUME NEW a \in Int, NEW b \in Int, a >= 0, b >= 0
  PROVE  a * b \in Int /\ a * b >= 0
BY SMT

LEMMA RowStep ==
  ASSUME NEW y \in Int
  PROVE  /\ (y - 1) * SCREEN_W = y * SCREEN_W - SCREEN_W
         /\ (y + 1) * SCREEN_W = y * SCREEN_W + SCREEN_W
         /\ y * SCREEN_W \in Int
BY ScreenAssumption, SMT

LEMMA RowOrder ==
  ASSUME NEW y \in Int, NEW z \in Int, y <= z
  PROVE  y * SCREEN_W <= z * SCREEN_W
<1>1. (z - y) * SCREEN_W >= 0
  BY ScreenAssumption, ProductNat
<1>2. (z - y) * SCREEN_W = z * SCREEN_W - y * SCREEN_W
  BY ScreenAssumption, SMT
<1>3. z * SCREEN_W \in Int /\ y * SCREEN_W \in Int
  BY RowStep
<1> QED BY <1>1, <1>2, <1>3

LEMMA PosType ==
  ASSUME NEW s \in Screens
  PROVE  /\ Pos(s) \in Cells
         /\ s.y * SCREEN_W <= Pos(s) /\ Pos(s) < s.y * SCREEN_W + SCREEN_W
<1>1. s.y \in Int /\ 0 <= s.y /\ s.y + 1 <= SCREEN_H /\ s.x \in 0..(SCREEN_W - 1)
  BY ScreenAssumption DEF Screens, Rows, Columns
<1>2. 0 <= s.y * SCREEN_W /\ s.y * SCREEN_W \in Int
  BY <1>1, ScreenAssumption, ProductNat
<1>3. (s.y + 1) * SCREEN_W <= SCREEN_H * SCREEN_W /\ SCREEN_H * SCREEN_W \in Int
  BY <1>1, ScreenAssumption, RowOrder, RowStep
<1>4. (s.y + 1) * SCREEN_W = s.y * SCREEN_W + SCREEN_W
  BY <1>1, RowStep
<1>5. SCREEN_H * SCREEN_W = SCREEN_W * SCREEN_H
  BY ScreenAssumption, SMT
<1> QED BY <1>1, <1>2, <1>3, <1>4, <1>5, ScreenAssumption DEF Pos, Cells

-----------------------------------------------------------------------------
(* The functions that write at the cursor. *)

LEMMA StoreType ==
  ASSUME NEW s \in Screens, NEW char \in ByteValues
  PROVE  /\ Store(s, char) \in Screens
         /\ Store(s, char).y = s.y /\ Store(s, char).x = s.x
<1>1. [s.cell EXCEPT ![Pos(s)] = char] \in [Cells -> ByteValues]
  BY PosType DEF Screens
<1> DEFINE f == [s.cell EXCEPT ![Pos(s)] = char]
<1> HIDE DEF f
<1>2. [s EXCEPT !.cell = f] \in Screens
  BY <1>1 DEF f, Screens
<1>3. [s EXCEPT !.cell = f].y = s.y /\ [s EXCEPT !.cell = f].x = s.x
  BY DEF Screens
<1> QED BY <1>2, <1>3 DEF Store, f

LEMMA LastRow ==
  /\ SCREEN_W * (SCREEN_H - 1) = (SCREEN_H - 1) * SCREEN_W
  /\ SCREEN_W * (SCREEN_H - 1) \in Nat
  /\ SCREEN_W * SCREEN_H = SCREEN_W * (SCREEN_H - 1) + SCREEN_W
  /\ BLANK \in ByteValues
<1>1. SCREEN_W * (SCREEN_H - 1) = (SCREEN_H - 1) * SCREEN_W
  BY ScreenAssumption, SMT
<1>2. (SCREEN_H - 1) * SCREEN_W \in Int /\ (SCREEN_H - 1) * SCREEN_W >= 0
  BY ScreenAssumption, ProductNat
<1>3. SCREEN_W * SCREEN_H = SCREEN_W * (SCREEN_H - 1) + SCREEN_W
  BY ScreenAssumption, SMT
<1>4. BLANK \in ByteValues
  BY DEF BLANK, ByteValues
<1> QED BY <1>1, <1>2, <1>3, <1>4

(* A newline ends in column 0 of the next row, or of the last one. *)
LEMMA NewLineProps ==
  ASSUME NEW s \in Screens
  PROVE  /\ NewLine(s) \in Screens
         /\ \/ Pos(NewLine(s)) >= Pos(s) + 1
            \/ Pos(NewLine(s)) >= SCREEN_W * (SCREEN_H - 1)
<1>1. /\ s.y \in Int /\ 0 <= s.y /\ s.y < SCREEN_H /\ s.cell \in [Cells -> ByteValues]
      /\ s = [cell |-> s.cell, y |-> s.y, x |-> s.x]
  BY ScreenAssumption DEF Screens, Rows
<1>2. 0 \in Columns /\ SCREEN_H - 1 \in Rows
  BY ScreenAssumption DEF Columns, Rows
<1>3. CASE s.y + 1 >= SCREEN_H
  <2> DEFINE f == [i \in Cells |-> IF i < SCREEN_W * (SCREEN_H - 1)
                                   THEN s.cell[i + SCREEN_W] ELSE BLANK]
  <2>1. f \in [Cells -> ByteValues]
    <3>1. ASSUME NEW i \in Cells, i < SCREEN_W * (SCREEN_H - 1)
          PROVE  i + SCREEN_W \in Cells
      BY <3>1, LastRow, ScreenAssumption DEF Cells
    <3> QED BY <1>1, <3>1, LastRow
  <2>2. NewLine(s) = [cell |-> f, y |-> SCREEN_H - 1, x |-> 0]
    BY <1>1, <1>3 DEF NewLine, Scroll
  <2> HIDE DEF f
  <2>3. NewLine(s) \in Screens
    BY <1>2, <2>1, <2>2 DEF Screens
  <2>4. Pos(NewLine(s)) = (SCREEN_H - 1) * SCREEN_W
    BY <2>2, LastRow DEF Pos
  <2> QED BY <2>3, <2>4, LastRow
<1>4. CASE ~(s.y + 1 >= SCREEN_H)
  <2>1. NewLine(s) = [cell |-> s.cell, y |-> s.y + 1, x |-> 0]
    BY <1>1, <1>4 DEF NewLine
  <2>2. s.y + 1 \in Rows
    BY <1>1, <1>4, ScreenAssumption DEF Rows
  <2>3. NewLine(s) \in Screens
    BY <1>1, <1>2, <2>1, <2>2 DEF Screens
  <2>4. Pos(NewLine(s)) = (s.y + 1) * SCREEN_W
    BY <1>1, <2>1, RowStep, ScreenAssumption DEF Pos
  <2>5. (s.y + 1) * SCREEN_W = s.y * SCREEN_W + SCREEN_W /\ s.y * SCREEN_W \in Int
    BY <1>1, RowStep
  <2>6. Pos(s) < s.y * SCREEN_W + SCREEN_W /\ Pos(s) \in Int
    BY PosType DEF Cells
  <2> QED BY <2>3, <2>4, <2>5, <2>6, ScreenAssumption
<1> QED BY <1>3, <1>4

(* terminal_putc moves the cursor on by at least one cell, unless it scrolls. *)
LEMMA PutcProps ==
  ASSUME NEW s \in Screens, NEW char \in ByteValues
  PROVE  /\ Putc(s, char) \in Screens
         /\ \/ Pos(Putc(s, char)) >= Pos(s) + 1
            \/ Pos(Putc(s, char)) >= SCREEN_W * (SCREEN_H - 1)
<1> DEFINE t == Store(s, char)
<1>1. t \in Screens /\ t.x = s.x /\ t.y = s.y
  BY StoreType
<1>2. Pos(t) = Pos(s)
  BY <1>1 DEF Pos
<1> HIDE DEF t
<1>3. CASE char = NEWLINE
  BY <1>3, NewLineProps DEF Putc
<1>4. CASE char # NEWLINE /\ s.x + 1 >= SCREEN_W
  BY <1>1, <1>2, <1>4, NewLineProps DEF Putc, t
<1>5. CASE char # NEWLINE /\ ~(s.x + 1 >= SCREEN_W)
  <2>1. Putc(s, char) = [t EXCEPT !.x = s.x + 1]
    BY <1>5 DEF Putc, t
  <2>2. s.x + 1 \in Columns
    BY <1>5, ScreenAssumption DEF Screens, Columns
  <2>3. Putc(s, char) \in Screens /\ Putc(s, char).y = s.y /\ Putc(s, char).x = s.x + 1
    BY <1>1, <2>1, <2>2 DEF Screens
  <2>4. s.y * SCREEN_W \in Int /\ s.x \in Int
    BY RowStep, ScreenAssumption DEF Screens, Rows, Columns
  <2> QED BY <2>3, <2>4 DEF Pos
<1> QED BY <1>3, <1>4, <1>5

(* A rubout that is not at the screen's first cell moves back one cell. *)
LEMMA RuboutProps ==
  ASSUME NEW s \in Screens, Pos(s) >= 1
  PROVE  Rubout(s) \in Screens /\ Pos(Rubout(s)) = Pos(s) - 1
<1> DEFINE t == IF s.x > 0 THEN [s EXCEPT !.x = s.x - 1]
                ELSE [s EXCEPT !.x = SCREEN_W - 1, !.y = s.y - 1]
<1>1. /\ s.y \in Int /\ 0 <= s.y /\ s.y < SCREEN_H /\ s.x \in 0..(SCREEN_W - 1)
      /\ s.y * SCREEN_W \in Int
  BY ScreenAssumption, RowStep DEF Screens, Rows, Columns
<1>2. t \in Screens /\ Pos(t) = Pos(s) - 1
  <2>1. CASE s.x > 0
    <3>1. s.x - 1 \in Columns
      BY <1>1, <2>1, ScreenAssumption DEF Columns
    <3>2. t \in Screens /\ t.y = s.y /\ t.x = s.x - 1
      BY <2>1, <3>1 DEF Screens
    <3> HIDE DEF t
    <3> QED BY <1>1, <3>2 DEF Pos
  <2>2. CASE ~(s.x > 0)
    <3>1. s.x = 0
      BY <1>1, <2>2
    <3>2. s.y >= 1
      <4>1. SUFFICES ASSUME s.y = 0 PROVE FALSE
        BY <1>1
      <4>2. Pos(s) = 0
        BY <4>1, <3>1, ScreenAssumption DEF Pos
      <4> QED BY <4>2
    <3>3. s.y - 1 \in Rows /\ SCREEN_W - 1 \in Columns
      BY <1>1, <3>2, ScreenAssumption DEF Rows, Columns
    <3>4. t \in Screens /\ t.y = s.y - 1 /\ t.x = SCREEN_W - 1
      BY <2>2, <3>3 DEF Screens
    <3>5. (s.y - 1) * SCREEN_W = s.y * SCREEN_W - SCREEN_W
      BY <1>1, RowStep
    <3> HIDE DEF t
    <3> QED BY <1>1, <3>1, <3>4, <3>5, ScreenAssumption DEF Pos
  <2> QED BY <2>1, <2>2
<1>3. Rubout(s) = Store(t, BLANK)
  BY DEF Rubout
<1> HIDE DEF t
<1>4. Store(t, BLANK) \in Screens /\ Pos(Store(t, BLANK)) = Pos(t)
  BY <1>2, LastRow, StoreType DEF Pos
<1> QED BY <1>2, <1>3, <1>4

LEMMA ClearedProps == Cleared \in Screens /\ Pos(Cleared) >= 0
<1>1. Cleared \in Screens
  BY LastRow, ScreenAssumption DEF Cleared, Screens, Rows, Columns
<1> QED BY <1>1, PosType DEF Cells

-----------------------------------------------------------------------------
(* What the screen shows before the cursor. *)

Ends(s, text) ==
  /\ Pos(s) >= Len(text)
  /\ \A j \in 1..Len(text) : s.cell[Pos(s) - Len(text) + j - 1] = text[j]

(* terminal_putc puts the character where the cursor was; if that scrolls    *)
(* the screen, every cell moves with the cursor.                             *)
LEMMA PutcCells ==
  ASSUME NEW s \in Screens, NEW char \in ByteValues, char # NEWLINE
  PROVE  \E shift \in Nat :
           /\ Pos(Putc(s, char)) = Pos(s) + 1 - shift
           /\ shift = 0 \/ Pos(Putc(s, char)) = SCREEN_W * (SCREEN_H - 1)
           /\ \A i \in 0..(Pos(Putc(s, char)) - 1) :
                Putc(s, char).cell[i] = IF i + shift = Pos(s) THEN char ELSE s.cell[i + shift]
<1> DEFINE t == Store(s, char)
<1>1. /\ t \in Screens /\ t.x = s.x /\ t.y = s.y /\ t.cell = [s.cell EXCEPT ![Pos(s)] = char]
  BY StoreType DEF Store, Screens
<1>2. /\ s.y \in Int /\ 0 <= s.y /\ s.y < SCREEN_H /\ s.x \in 0..(SCREEN_W - 1)
      /\ s.y * SCREEN_W \in Int /\ s.cell \in [Cells -> ByteValues]
      /\ (s.y + 1) * SCREEN_W = s.y * SCREEN_W + SCREEN_W
      /\ Pos(s) \in Cells /\ Pos(s) \in Nat /\ Pos(s) = s.y * SCREEN_W + s.x
  <2>1. /\ s.y \in Int /\ 0 <= s.y /\ s.y < SCREEN_H /\ s.x \in 0..(SCREEN_W - 1)
        /\ s.cell \in [Cells -> ByteValues]
    BY ScreenAssumption DEF Screens, Rows, Columns
  <2>2. s.y * SCREEN_W \in Int /\ (s.y + 1) * SCREEN_W = s.y * SCREEN_W + SCREEN_W
    BY <2>1, RowStep
  <2>3. Pos(s) \in Cells /\ Pos(s) \in Nat
    BY PosType DEF Cells
  <2> QED BY <2>1, <2>2, <2>3 DEF Pos
<1>3. \A i \in Cells : t.cell[i] = IF i = Pos(s) THEN char ELSE s.cell[i]
  BY <1>1, <1>2
<1> HIDE DEF t
<1>4. ASSUME Putc(s, char).cell = t.cell, Pos(Putc(s, char)) = Pos(s) + 1
      PROVE  \A i \in 0..(Pos(Putc(s, char)) - 1) :
               Putc(s, char).cell[i] = IF i + 0 = Pos(s) THEN char ELSE s.cell[i + 0]
  <2>1. \A i \in 0..(Pos(Putc(s, char)) - 1) : i \in Cells /\ i + 0 = i
    <3>1. Pos(s) \in 0..(SCREEN_W * SCREEN_H - 1) /\ SCREEN_W * SCREEN_H \in Int
      BY <1>2, LastRow, ScreenAssumption DEF Cells
    <3>2. \A i \in 0..Pos(s) : i \in Cells /\ i + 0 = i
      BY <3>1 DEF Cells
    <3>3. Pos(Putc(s, char)) - 1 = Pos(s)
      BY <1>2, <1>4
    <3> QED BY <3>2, <3>3
  <2> QED BY <1>3, <1>4, <2>1
<1>5. CASE ~(s.x + 1 >= SCREEN_W)
  <2>1. Putc(s, char) = [t EXCEPT !.x = s.x + 1]
    BY <1>5 DEF Putc, t
  <2>2. Putc(s, char).cell = t.cell /\ Putc(s, char).y = s.y /\ Putc(s, char).x = s.x + 1
    BY <1>1, <2>1 DEF Screens
  <2>3. Pos(Putc(s, char)) = Pos(s) + 1
    BY <1>2, <2>2 DEF Pos
  <2>4. 0 \in Nat /\ Pos(Putc(s, char)) = Pos(s) + 1 - 0
    BY <1>2, <2>3
  <2> QED BY <1>4, <2>2, <2>3, <2>4
<1>6. CASE s.x + 1 >= SCREEN_W /\ ~(s.y + 1 >= SCREEN_H)
  <2>1. Putc(s, char) = [[t EXCEPT !.x = 0] EXCEPT !.y = s.y + 1]
    BY <1>1, <1>6 DEF Putc, NewLine, t
  <2>2. Putc(s, char).cell = t.cell /\ Putc(s, char).y = s.y + 1 /\ Putc(s, char).x = 0
    BY <1>1, <2>1 DEF Screens
  <2>3. s.x = SCREEN_W - 1
    BY <1>2, <1>6, ScreenAssumption
  <2>4. Pos(Putc(s, char)) = (s.y + 1) * SCREEN_W
    BY <1>2, <2>2, ScreenAssumption DEF Pos
  <2>5. Pos(Putc(s, char)) = Pos(s) + 1
    BY <1>2, <2>3, <2>4, ScreenAssumption
  <2>6. 0 \in Nat /\ Pos(Putc(s, char)) = Pos(s) + 1 - 0
    BY <1>2, <2>5
  <2> QED BY <1>4, <2>2, <2>5, <2>6
<1>7. CASE s.x + 1 >= SCREEN_W /\ s.y + 1 >= SCREEN_H
  <2> DEFINE f == [i \in Cells |-> IF i < SCREEN_W * (SCREEN_H - 1)
                                   THEN t.cell[i + SCREEN_W] ELSE BLANK]
             u == Putc(s, char)
             last == SCREEN_W * (SCREEN_H - 1)
  <2>1. u.cell = f /\ u.y = SCREEN_H - 1 /\ u.x = 0
    <3>1. u = [[t EXCEPT !.x = 0] EXCEPT !.cell = f, !.y = SCREEN_H - 1]
      BY <1>1, <1>7 DEF Putc, NewLine, Scroll, t, Screens
    <3> HIDE DEF f, u
    <3> QED BY <1>1, <3>1 DEF Screens
  <2>2. s.x = SCREEN_W - 1 /\ s.y = SCREEN_H - 1
    <3>1. s.y \in Int /\ s.y < SCREEN_H /\ s.x \in 0..(SCREEN_W - 1)
      BY <1>2
    <3> QED BY <1>7, <3>1, ScreenAssumption
  <2>3. last \in Nat /\ last = (SCREEN_H - 1) * SCREEN_W /\ SCREEN_W * SCREEN_H = last + SCREEN_W
    BY LastRow
  <2> HIDE DEF last
  <2>4. Pos(u) = last
    <3> HIDE DEF u
    <3> QED BY <2>1, <2>3 DEF Pos
  <2>5. Pos(s) = last + SCREEN_W - 1
    BY <1>2, <2>2, <2>3, ScreenAssumption
  <2>6. Pos(u) = Pos(s) + 1 - SCREEN_W /\ SCREEN_W \in Nat
    BY <2>3, <2>4, <2>5, ScreenAssumption
  <2>7. ASSUME NEW i \in 0..(last - 1)
        PROVE  f[i] = IF i + SCREEN_W = Pos(s) THEN char ELSE s.cell[i + SCREEN_W]
    <3>1. i \in Cells /\ i + SCREEN_W \in Cells /\ i < last
      BY <2>3, <2>7, ScreenAssumption DEF Cells
    <3>2. f[i] = t.cell[i + SCREEN_W]
      BY <3>1 DEF last
    <3> QED BY <1>3, <3>1, <3>2
  <2> HIDE DEF f, u
  <2> QED BY <2>1, <2>4, <2>6, <2>7 DEF u, last
<1> QED BY <1>5, <1>6, <1>7

(* Echoing a character adds it to the text before the cursor. *)
LEMMA EndsPutc ==
  ASSUME NEW s \in Screens, NEW char \in ByteValues, char # NEWLINE,
         NEW text \in Seq(ByteValues), Len(text) + 1 <= SCREEN_W * (SCREEN_H - 1), Ends(s, text)
  PROVE  Ends(Putc(s, char), Append(text, char))
<1> DEFINE u == Putc(s, char)
           n == Len(text)
           longer == Append(text, char)
<1>1. PICK shift \in Nat :
        /\ Pos(u) = Pos(s) + 1 - shift
        /\ shift = 0 \/ Pos(u) = SCREEN_W * (SCREEN_H - 1)
        /\ \A i \in 0..(Pos(u) - 1) :
             u.cell[i] = IF i + shift = Pos(s) THEN char ELSE s.cell[i + shift]
  BY PutcCells
<1>2. /\ Len(longer) = n + 1 /\ longer[n + 1] = char /\ n \in Nat
      /\ \A j \in 1..n : longer[j] = text[j]
  BY AppendProperties
<1>3. Pos(s) \in Int /\ SCREEN_W * (SCREEN_H - 1) \in Nat
  BY PosType, LastRow DEF Cells
<1>4. Pos(s) >= n /\ \A j \in 1..n : s.cell[Pos(s) - n + j - 1] = text[j]
  BY DEF Ends
<1> HIDE DEF u, longer
<1>5. Pos(u) >= n + 1 /\ Pos(u) \in Int
  BY <1>1, <1>2, <1>3, <1>4
<1>6. ASSUME NEW j \in 1..(n + 1) PROVE u.cell[Pos(u) - (n + 1) + j - 1] = longer[j]
  <2> DEFINE i == Pos(u) - (n + 1) + j - 1
  <2>1. i \in 0..(Pos(u) - 1) /\ i + shift = Pos(s) - n + j - 1
    <3>1. PICK p, q : p = Pos(u) /\ q = Pos(s)
      OBVIOUS
    <3>2. p = q + 1 - shift /\ p >= n + 1 /\ p \in Int /\ q \in Int /\ n \in Nat
      BY <1>1, <1>2, <1>3, <1>5, <3>1
    <3>3. /\ p - (n + 1) + j - 1 \in 0..(p - 1)
          /\ p - (n + 1) + j - 1 + shift = q - n + j - 1
      BY <1>6, <3>2
    <3> QED BY <3>1, <3>3
  <2>2. u.cell[i] = IF i + shift = Pos(s) THEN char ELSE s.cell[i + shift]
    <3> HIDE DEF i
    <3> QED BY <1>1, <2>1
  <2>3. CASE j = n + 1
    <3>1. i + shift = Pos(s)
      BY <1>2, <1>3, <2>1, <2>3
    <3> QED BY <1>2, <2>2, <2>3, <3>1
  <2>4. CASE j # n + 1
    <3>1. j \in 1..n /\ i + shift # Pos(s)
      BY <1>2, <1>3, <1>6, <2>1, <2>4
    <3> QED BY <1>2, <1>4, <2>1, <2>2, <3>1
  <2> QED BY <2>3, <2>4
<1> QED BY <1>2, <1>5, <1>6 DEF Ends, u, longer

LEMMA RuboutCells ==
  ASSUME NEW s \in Screens, Pos(s) >= 1
  PROVE  \A i \in Cells : i # Pos(s) - 1 => Rubout(s).cell[i] = s.cell[i]
<1> DEFINE t == IF s.x > 0 THEN [s EXCEPT !.x = s.x - 1]
                ELSE [s EXCEPT !.x = SCREEN_W - 1, !.y = s.y - 1]
<1>1. t.cell = s.cell /\ s.cell \in [Cells -> ByteValues]
  BY DEF Screens
<1>2. Rubout(s) = Store(t, BLANK)
  BY DEF Rubout
<1> HIDE DEF t
<1>3. Rubout(s) \in Screens /\ Pos(Rubout(s)) = Pos(s) - 1
  BY RuboutProps
<1>4. Rubout(s).cell = [t.cell EXCEPT ![Pos(t)] = BLANK] /\ Pos(Rubout(s)) = Pos(t)
  <2>1. Rubout(s) = [t EXCEPT !.cell = [t.cell EXCEPT ![Pos(t)] = BLANK]]
    BY <1>2 DEF Store
  <2>2. /\ [s EXCEPT !.x = s.x - 1] \in [cell : {s.cell}, y : {s.y}, x : {s.x - 1}]
        /\ [s EXCEPT !.x = SCREEN_W - 1, !.y = s.y - 1]
             \in [cell : {s.cell}, y : {s.y - 1}, x : {SCREEN_W - 1}]
    BY DEF Screens
  <2>3. t = [cell |-> t.cell, y |-> t.y, x |-> t.x]
    BY <2>2 DEF t
  <2> DEFINE f == [t.cell EXCEPT ![Pos(t)] = BLANK]
  <2> HIDE DEF f
  <2>4. Rubout(s) = [cell |-> f, y |-> t.y, x |-> t.x]
    BY <2>1, <2>3 DEF f
  <2>5. Rubout(s).cell = f /\ Rubout(s).y = t.y /\ Rubout(s).x = t.x
    BY <2>4
  <2> QED BY <2>5 DEF f, Pos
<1> QED BY <1>1, <1>3, <1>4

(* A rubout takes away the last character of the text before the cursor. *)
LEMMA EndsRubout ==
  ASSUME NEW s \in Screens, NEW text, NEW shorter, Len(shorter) \in Nat,
         Len(text) = Len(shorter) + 1, \A j \in 1..Len(shorter) : shorter[j] = text[j],
         Ends(s, text)
  PROVE  Ends(Rubout(s), shorter)
<1> DEFINE u == Rubout(s)
           n == Len(shorter)
<1>1. Pos(s) \in Cells /\ Pos(s) \in Int /\ n \in Nat /\ Pos(s) >= n + 1
  BY PosType DEF Cells, Ends
<1>2. Pos(u) = Pos(s) - 1 /\ \A i \in Cells : i # Pos(s) - 1 => u.cell[i] = s.cell[i]
  <2>1. Pos(s) >= 1
    BY <1>1
  <2> QED BY <2>1, RuboutProps, RuboutCells
<1> HIDE DEF u
<1>3. ASSUME NEW j \in 1..n PROVE u.cell[Pos(u) - n + j - 1] = shorter[j]
  <2> DEFINE i == Pos(s) - (n + 1) + j - 1
  <2>1. /\ i \in Cells /\ i # Pos(s) - 1 /\ i = Pos(u) - n + j - 1 /\ j \in 1..Len(text)
    BY <1>1, <1>2, <1>3, ScreenAssumption DEF Cells
  <2>2. s.cell[i] = text[j]
    BY <2>1 DEF Ends
  <2> HIDE DEF i
  <2> QED BY <1>2, <1>3, <2>1, <2>2
<1> QED BY <1>1, <1>2, <1>3 DEF Ends, u

-----------------------------------------------------------------------------
(* The invariant is inductive as it stands. *)

IInv == TypeOK /\ CursorAfterLine

LEMMA IInvInit == Init => IInv
BY ClearedProps, ReadlineAssumption DEF Init, IInv, TypeOK, CursorAfterLine

LEMMA IInvStep == IInv /\ [Next]_vars => IInv'
<1> SUFFICES ASSUME IInv, [Next]_vars PROVE IInv'
  OBVIOUS
<1> USE DEF IInv, TypeOK, CursorAfterLine
<1>1. NEWLINE \in ByteValues /\ Prompt \in Seq(ByteValues)
  BY DEF NEWLINE, ByteValues, Prompt
<1>2. /\ Pos(screen) \in Int /\ Pos(screen) >= 0
      /\ Len(buf) \in Nat /\ SCREEN_W * (SCREEN_H - 1) \in Nat
      /\ max <= SCREEN_W * (SCREEN_H - 1) /\ max \in Nat \ {0}
  BY PosType, LastRow, ReadlineAssumption DEF Cells, Prompt
<1>3. CASE Output
  <2>1. Head(out) \in ByteValues /\ Tail(out) \in Seq(ByteValues)
    BY <1>3, HeadTailProperties DEF Output
  <2>2. /\ Putc(screen, Head(out)) \in Screens
        /\ \/ Pos(Putc(screen, Head(out))) >= Pos(screen) + 1
           \/ Pos(Putc(screen, Head(out))) >= SCREEN_W * (SCREEN_H - 1)
    BY <2>1, PutcProps
  <2>3. Pos(Putc(screen, Head(out))) \in Int
    BY <2>2, PosType DEF Cells
  <2> QED BY <1>2, <1>3, <2>1, <2>2, <2>3 DEF Output
<1>4. CASE Command
  BY <1>4, ClearedProps, ReadlineAssumption DEF Command, Idle
<1>5. CASE ShowPrompt
  <2>1. << >> \in Seq(ByteValues) /\ Len(<< >>) = 0
    OBVIOUS
  <2> QED BY <1>1, <1>2, <1>5, <2>1 DEF ShowPrompt, Idle
<1>6. CASE Enter
  BY <1>1, <1>6 DEF Enter, Idle
<1>7. CASE Backspace
  <2>1. Len(buf) >= 1
    BY <1>7, EmptySeq DEF Backspace
  <2> DEFINE n == Len(buf) - 1
             shorter == SubSeq(buf, 1, n)
  <2>2. shorter \in Seq(ByteValues) /\ Len(shorter) = n
    <3>1. \A i \in 1..n : buf[i] \in ByteValues
      BY <1>2, ElementOfSeq
    <3>2. n \in Nat
      BY <1>2, <2>1
    <3> HIDE DEF n
    <3>3. /\ shorter \in Seq(ByteValues)
          /\ Len(shorter) = IF 1 <= n THEN n - 1 + 1 ELSE 0
      BY <3>1, <3>2, SubSeqProperties
    <3> HIDE DEF shorter
    <3> QED BY <3>2, <3>3
  <2>3. Pos(screen) >= 1
    BY <1>2, <1>7, <2>1 DEF Backspace, Idle
  <2>4. Rubout(screen) \in Screens /\ Pos(Rubout(screen)) = Pos(screen) - 1
    BY <2>3, RuboutProps
  <2>5. buf' = shorter /\ screen' = Rubout(screen) /\ UNCHANGED << pc, out, clean >>
    BY <1>7 DEF Backspace
  <2> HIDE DEF shorter
  <2> QED BY <1>2, <1>7, <2>1, <2>2, <2>4, <2>5 DEF Backspace, Idle
<1>8. CASE Echo
  <2>1. PICK char \in Input : buf' = Append(buf, char) /\ screen' = Putc(screen, char)
    BY <1>8 DEF Echo
  <2>2. char \in ByteValues
    BY ReadlineAssumption
  <2>3. /\ screen' \in Screens
        /\ \/ Pos(screen') >= Pos(screen) + 1
           \/ Pos(screen') >= SCREEN_W * (SCREEN_H - 1)
    BY <2>1, <2>2, PutcProps
  <2>4. buf' \in Seq(ByteValues) /\ Len(buf') = Len(buf) + 1
    BY <2>1, <2>2, AppendProperties
  <2>5. Pos(screen') \in Int
    BY <2>3, PosType DEF Cells
  <2> QED BY <1>2, <1>8, <2>3, <2>4, <2>5 DEF Echo, Idle, HasSpace
<1>9. CASE Full
  BY <1>9 DEF Full, Idle
<1>10. CASE ReplyPrinted
  BY <1>10, ReadlineAssumption DEF ReplyPrinted, Idle
<1>11. CASE UNCHANGED vars
  BY <1>11 DEF vars
<1> QED BY <1>3, <1>4, <1>5, <1>6, <1>7, <1>8, <1>9, <1>10, <1>11 DEF Next

(* The cursor never leaves the screen, so vga_buffer is never written        *)
(* outside it, for every screen and every buffer shorter than all rows but   *)
(* one.                                                                      *)
THEOREM TypeCorrect == Spec => []TypeOK
<1>1. IInv => TypeOK
  BY DEF IInv
<1> QED BY <1>1, IInvInit, IInvStep, PTL DEF Spec

(* The unsigned cursor_y of readline's backspace never goes below row 0.     *)
THEOREM CursorStaysAfterLine == Spec => []CursorAfterLine
<1>1. IInv => CursorAfterLine
  BY DEF IInv
<1> QED BY <1>1, IInvInit, IInvStep, PTL DEF Spec

-----------------------------------------------------------------------------
(* From the prompt's first character on, and until a reply is printed, the   *)
(* screen shows before the cursor what was printed of the prompt, then the   *)
(* line so far.                                                              *)

Echoed ==
  (pc = "readline" /\ clean) =>
    \/ out = Prompt /\ buf = << >>
    \/ out = << 32 >> /\ buf = << >> /\ Ends(screen, << 35 >>)
    \/ out = << >> /\ Ends(screen, Prompt \o buf)

LEMMA PromptType ==
  /\ Prompt \in Seq(ByteValues) /\ Len(Prompt) = 2 /\ Prompt # << >>
  /\ Head(Prompt) = 35 /\ Tail(Prompt) = << 32 >>
  /\ Append(<< 35 >>, 32) = Prompt \o << >> /\ 35 # NEWLINE /\ 32 # NEWLINE
  /\ 35 \in ByteValues /\ 32 \in ByteValues
<1>1. 35 \in ByteValues /\ 32 \in ByteValues /\ 35 # NEWLINE /\ 32 # NEWLINE
  BY DEF ByteValues, NEWLINE
<1>2. /\ << 35, 32 >> \in Seq(ByteValues) /\ Len(<< 35, 32 >>) = 2 /\ << 35, 32 >> # << >>
      /\ Head(<< 35, 32 >>) = 35
  BY <1>1
<1>3. Tail(<< 35, 32 >>) = << 32 >>
  OBVIOUS
<1>4. Append(<< 35 >>, 32) = << 35, 32 >>
  <2>1. << 35 >> \in Seq(ByteValues) /\ Len(<< 35 >>) = 1 /\ << 35 >>[1] = 35
    BY <1>1
  <2>2. /\ Append(<< 35 >>, 32) \in Seq(ByteValues) /\ Len(Append(<< 35 >>, 32)) = 2
        /\ Append(<< 35 >>, 32)[2] = 32 /\ Append(<< 35 >>, 32)[1] = 35
    BY <1>1, <2>1, AppendProperties
  <2>3. << 35, 32 >>[1] = 35 /\ << 35, 32 >>[2] = 32
    OBVIOUS
  <2>4. \A i \in 1..2 : i = 1 \/ i = 2
    OBVIOUS
  <2> DEFINE s == Append(<< 35 >>, 32)
             t == << 35, 32 >>
  <2>5. /\ s \in Seq(ByteValues) /\ t \in Seq(ByteValues) /\ Len(s) = 2 /\ Len(t) = 2
        /\ \A i \in 1..2 : s[i] = t[i]
    BY <1>2, <2>2, <2>3, <2>4
  <2> HIDE DEF s, t
  <2>6. s = t
    BY <2>5, SeqEqual
  <2> QED BY <2>6 DEF s, t
<1>5. << 35, 32 >> \o << >> = << 35, 32 >>
  BY <1>2, ConcatEmptySeq
<1> QED BY <1>1, <1>2, <1>3, <1>4, <1>5 DEF Prompt

LEMMA PromptThen ==
  ASSUME NEW text \in Seq(ByteValues)
  PROVE  /\ Prompt \o text \in Seq(ByteValues) /\ Len(Prompt \o text) = 2 + Len(text)
         /\ \A j \in 1..(2 + Len(text)) :
              (Prompt \o text)[j] = IF j <= 2 THEN Prompt[j] ELSE text[j - 2]
<1>1. Prompt \in Seq(ByteValues) /\ Len(Prompt) = 2
  BY PromptType
<1> HIDE DEF Prompt
<1>2. /\ Prompt \o text \in Seq(ByteValues)
      /\ Len(Prompt \o text) = Len(Prompt) + Len(text)
      /\ \A j \in 1..(Len(Prompt) + Len(text)) :
           (Prompt \o text)[j] = IF j <= Len(Prompt) THEN Prompt[j] ELSE text[j - Len(Prompt)]
  BY <1>1, ConcatProperties
<1> QED BY <1>1, <1>2

(* The prompt and a full line fit above the last row. *)
LEMMA LineFits ==
  /\ SCREEN_W * (SCREEN_H - 1) \in Nat /\ max \in Nat \ {0}
  /\ max + 2 <= SCREEN_W * (SCREEN_H - 1)
BY LastRow, PromptType, ReadlineAssumption

LEMMA EchoedOutput ==
  ASSUME IInv, Echoed, Output
  PROVE  Echoed'
<1>1. /\ out # << >> /\ screen' = Putc(screen, Head(out)) /\ out' = Tail(out)
      /\ UNCHANGED << buf, pc, clean >> /\ screen \in Screens
  BY DEF Output, IInv, TypeOK
<1> SUFFICES ASSUME pc = "readline", clean PROVE Echoed'
  BY <1>1 DEF Echoed
<1>2. CASE out = Prompt /\ buf = << >>
  <2>1. Ends(screen, << >>)
    BY <1>1, PosType DEF Ends, Cells
  <2>2. << >> \in Seq(ByteValues) /\ Len(<< >>) + 1 <= SCREEN_W * (SCREEN_H - 1)
    BY LineFits
  <2>3. Ends(Putc(screen, 35), Append(<< >>, 35))
    BY <1>1, <2>1, <2>2, PromptType, EndsPutc
  <2>4. Append(<< >>, 35) = << 35 >>
    OBVIOUS
  <2> QED BY <1>1, <1>2, <2>3, <2>4, PromptType DEF Echoed
<1>3. CASE out = << 32 >> /\ buf = << >> /\ Ends(screen, << 35 >>)
  <2>1. << 35 >> \in Seq(ByteValues) /\ Len(<< 35 >>) + 1 <= SCREEN_W * (SCREEN_H - 1)
    BY LineFits, PromptType
  <2>2. Ends(Putc(screen, 32), Append(<< 35 >>, 32))
    BY <1>1, <1>3, <2>1, PromptType, EndsPutc
  <2>3. Head(out) = 32 /\ Tail(out) = << >>
    BY <1>3
  <2> QED BY <1>1, <1>3, <2>2, <2>3, PromptType DEF Echoed
<1> QED BY <1>1, <1>2, <1>3 DEF Echoed

LEMMA EchoedEcho ==
  ASSUME IInv, Echoed, Echo
  PROVE  Echoed'
<1>1. PICK char \in Input : Printable(char) /\ buf' = Append(buf, char) /\ screen' = Putc(screen, char)
  BY DEF Echo
<1>2. char \in ByteValues /\ char # NEWLINE
  BY <1>1, ReadlineAssumption DEF Printable, NEWLINE
<1>3. /\ out = << >> /\ pc = "readline" /\ Len(buf) < max - 1 /\ UNCHANGED << pc, out, clean >>
      /\ screen \in Screens /\ buf \in Seq(ByteValues)
  BY DEF Echo, Idle, HasSpace, IInv, TypeOK
<1> SUFFICES ASSUME clean PROVE Ends(screen', Prompt \o buf')
  BY <1>3 DEF Echoed
<1>4. Ends(screen, Prompt \o buf)
  BY <1>3, PromptType DEF Echoed
<1>5. Prompt \o buf \in Seq(ByteValues) /\ Len(Prompt \o buf) = 2 + Len(buf)
  BY <1>3, PromptThen
<1>6. Len(Prompt \o buf) + 1 <= SCREEN_W * (SCREEN_H - 1)
  BY <1>3, <1>5, LineFits
<1>7. Ends(screen', Append(Prompt \o buf, char))
  BY <1>1, <1>2, <1>3, <1>4, <1>5, <1>6, EndsPutc
<1>8. Append(Prompt \o buf, char) = Prompt \o Append(buf, char)
  BY <1>2, <1>3, PromptType
<1> QED BY <1>1, <1>7, <1>8

LEMMA EchoedBackspace ==
  ASSUME IInv, Echoed, Backspace
  PROVE  Echoed'
<1> DEFINE n == Len(buf) - 1
           shorter == SubSeq(buf, 1, n)
<1>1. /\ out = << >> /\ pc = "readline" /\ buf # << >> /\ UNCHANGED << pc, out, clean >>
      /\ screen \in Screens /\ buf \in Seq(ByteValues)
      /\ buf' = shorter /\ screen' = Rubout(screen)
  BY DEF Backspace, Idle, IInv, TypeOK
<1> SUFFICES ASSUME clean PROVE Ends(screen', Prompt \o buf')
  BY <1>1 DEF Echoed
<1>2. Ends(screen, Prompt \o buf)
  BY <1>1, PromptType DEF Echoed
<1>3. Len(buf) \in Nat /\ n \in Nat /\ n \in Int
  BY <1>1, EmptySeq
<1>4. \A i \in 1..n : buf[i] \in ByteValues
  BY <1>1, <1>3, ElementOfSeq
<1> HIDE DEF n
<1>5. /\ shorter \in Seq(ByteValues) /\ Len(shorter) = n
      /\ \A i \in 1..n : shorter[i] = buf[i]
  <2>1. /\ shorter \in Seq(ByteValues)
        /\ Len(shorter) = IF 1 <= n THEN n - 1 + 1 ELSE 0
        /\ \A i \in 1..(n - 1 + 1) : shorter[i] = buf[1 + i - 1]
    BY <1>3, <1>4, SubSeqProperties
  <2> HIDE DEF shorter
  <2>2. \A i \in 1..n : i \in 1..(n - 1 + 1) /\ 1 + i - 1 = i
    BY <1>3
  <2> QED BY <1>3, <2>1, <2>2
<1> HIDE DEF shorter
<1>6. /\ Len(Prompt \o shorter) = 2 + n /\ Len(Prompt \o buf) = 2 + Len(buf)
      /\ \A j \in 1..(2 + n) : (Prompt \o shorter)[j] = IF j <= 2 THEN Prompt[j] ELSE shorter[j - 2]
      /\ \A j \in 1..(2 + Len(buf)) : (Prompt \o buf)[j] = IF j <= 2 THEN Prompt[j] ELSE buf[j - 2]
  BY <1>1, <1>5, PromptThen
<1>7. \A j \in 1..(2 + n) : /\ j \in 1..(2 + Len(buf))
                            /\ j <= 2 \/ j - 2 \in 1..n
  BY <1>3 DEF n
<1>8. \A j \in 1..(2 + n) : (Prompt \o shorter)[j] = (Prompt \o buf)[j]
  BY <1>5, <1>6, <1>7
<1>9. 2 + n \in Nat /\ 2 + Len(buf) = (2 + n) + 1
  BY <1>3 DEF n
<1> QED BY <1>1, <1>2, <1>6, <1>8, <1>9, EndsRubout

LEMMA EchoedStep == IInv /\ Echoed /\ [Next]_vars => Echoed'
<1>1. IInv /\ Echoed /\ (Output \/ Echo \/ Backspace) => Echoed'
  BY EchoedOutput, EchoedEcho, EchoedBackspace
<1>2. Command \/ ShowPrompt \/ Enter \/ Full \/ ReplyPrinted => Echoed'
  BY DEF Command, ShowPrompt, Enter, Full, ReplyPrinted, Echoed, Idle
<1>3. Echoed /\ UNCHANGED vars => Echoed'
  BY DEF Echoed, vars
<1> QED BY <1>1, <1>2, <1>3 DEF Next

LEMMA EchoedShows == IInv /\ Echoed => EchoIsBuffer
<1> SUFFICES ASSUME IInv, Echoed, out = << >>, pc = "readline", clean
             PROVE  /\ Pos(screen) >= Len(Prompt) + Len(buf)
                    /\ Before(screen, Len(Prompt) + Len(buf)) = Prompt \o buf
  BY DEF EchoIsBuffer, Idle
<1> DEFINE n == Len(Prompt) + Len(buf)
           text == Prompt \o buf
<1>1. Ends(screen, text)
  BY PromptType DEF Echoed
<1>2. text \in Seq(ByteValues) /\ Len(text) = n /\ n \in Nat
  <2>1. buf \in Seq(ByteValues)
    BY DEF IInv, TypeOK
  <2> QED BY <2>1, PromptType, PromptThen
<1> HIDE DEF text, n
<1>3. Pos(screen) >= n /\ \A j \in 1..n : screen.cell[Pos(screen) - n + j - 1] = text[j]
  BY <1>1, <1>2 DEF Ends
<1>4. Before(screen, n) = [j \in 1..n |-> text[j]]
  BY <1>3 DEF Before
<1>5. text = [j \in 1..n |-> text[j]]
  BY <1>2
<1> QED BY <1>3, <1>4, <1>5 DEF n, text

(* Until a reply is printed into it, the text before the cursor is the       *)
(* prompt and exactly the characters terminal_readline hands to the shell,   *)
(* for every screen and every buffer that fits above its last row, wherever  *)
(* the line wraps or scrolls.                                                *)
THEOREM LineIsEchoed == Spec => []EchoIsBuffer
<1>1. Init => IInv /\ Echoed
  BY IInvInit DEF Init, Echoed
<1>2. IInv /\ Echoed /\ [Next]_vars => (IInv /\ Echoed)'
  BY IInvStep, EchoedStep
<1> QED BY <1>1, <1>2, EchoedShows, PTL DEF Spec

-----------------------------------------------------------------------------
(* Cells and the rows and columns they stand for. *)

LEMMA CellType ==
  ASSUME NEW y \in Rows, NEW x \in Columns
  PROVE  /\ Cell(y, x) \in Cells
         /\ y * SCREEN_W \in Int /\ y * SCREEN_W <= Cell(y, x)
         /\ Cell(y, x) < y * SCREEN_W + SCREEN_W
<1>1. y \in Int /\ 0 <= y /\ y + 1 <= SCREEN_H /\ x \in 0..(SCREEN_W - 1)
  BY ScreenAssumption DEF Rows, Columns
<1>2. 0 <= y * SCREEN_W /\ y * SCREEN_W \in Int
  BY <1>1, ScreenAssumption, ProductNat
<1>3. (y + 1) * SCREEN_W <= SCREEN_H * SCREEN_W /\ SCREEN_H * SCREEN_W \in Int
  BY <1>1, ScreenAssumption, RowOrder, RowStep
<1>4. (y + 1) * SCREEN_W = y * SCREEN_W + SCREEN_W
  BY <1>1, RowStep
<1>5. SCREEN_H * SCREEN_W = SCREEN_W * SCREEN_H
  BY ScreenAssumption, SMT
<1> QED BY <1>1, <1>2, <1>3, <1>4, <1>5, ScreenAssumption DEF Cell, Cells

LEMMA CellOrder ==
  ASSUME NEW y \in Rows, NEW x \in Columns, NEW z \in Rows, NEW w \in Columns, y < z
  PROVE  Cell(y, x) < Cell(z, w)
<1>1. y \in Int /\ z \in Int /\ y + 1 \in Int /\ y + 1 <= z
  BY ScreenAssumption DEF Rows
<1>2. (y + 1) * SCREEN_W <= z * SCREEN_W /\ (y + 1) * SCREEN_W = y * SCREEN_W + SCREEN_W
  BY <1>1, RowOrder, RowStep
<1>3. Cell(y, x) < y * SCREEN_W + SCREEN_W /\ y * SCREEN_W \in Int /\ Cell(y, x) \in Int
  BY CellType DEF Cells
<1>4. z * SCREEN_W <= Cell(z, w) /\ z * SCREEN_W \in Int /\ Cell(z, w) \in Int
  BY CellType DEF Cells
<1> QED BY <1>2, <1>3, <1>4, ScreenAssumption

(* Two cells of the screen are one only if their rows and columns agree. *)
LEMMA CellUnique ==
  ASSUME NEW y \in Rows, NEW x \in Columns, NEW z \in Rows, NEW w \in Columns,
         Cell(y, x) = Cell(z, w)
  PROVE  y = z /\ x = w
<1>1. /\ y \in Int /\ z \in Int /\ x \in Int /\ w \in Int
      /\ Cell(y, x) \in Int /\ Cell(z, w) \in Int /\ y * SCREEN_W \in Int
  BY CellType DEF Rows, Columns, Cells
<1>2. ~(y < z)
  BY <1>1, CellOrder
<1>3. ~(z < y)
  BY <1>1, CellOrder
<1>4. y = z
  BY <1>1, <1>2, <1>3
<1>5. y * SCREEN_W + x = y * SCREEN_W + w
  BY <1>4 DEF Cell
<1>6. x = w
  BY <1>1, <1>5
<1> QED BY <1>4, <1>6

LEMMA PageFits ==
  /\ \A r \in PageLines : ED_TOP + r \in Rows /\ ED_TOP + r + 1 \in Rows
  /\ PageCols \subseteq Columns
  /\ ED_TOP \in Rows /\ 0 \in PageLines /\ 0 \in PageCols /\ 0 \in Columns /\ 0 \in Rows
  /\ PAINT_TOP..(SCREEN_H - 1) \subseteq Rows
  /\ 0 \in ByteValues /\ BLANK \in ByteValues /\ BRUSH \in ByteValues /\ BLANK # BRUSH
<1>1. /\ SCREEN_W \in Nat \ {0} /\ SCREEN_H \in Nat \ {0} /\ ED_TOP \in Nat /\ ED_LINES \in Nat \ {0}
      /\ ED_COLS \in Nat \ {0} /\ ED_TOP + ED_LINES < SCREEN_H /\ ED_COLS <= SCREEN_W
      /\ PAINT_TOP \in 0..(SCREEN_H - 1)
  BY ScreenAssumption, AppsAssumption DEF Rows
<1>2. \A r \in 0..(ED_LINES - 1) :
        ED_TOP + r \in 0..(SCREEN_H - 1) /\ ED_TOP + r + 1 \in 0..(SCREEN_H - 1)
  BY <1>1
<1>3. 0..(ED_COLS - 1) \subseteq 0..(SCREEN_W - 1)
  BY <1>1
<1>4. /\ ED_TOP \in 0..(SCREEN_H - 1) /\ 0 \in 0..(ED_LINES - 1) /\ 0 \in 0..(ED_COLS - 1)
      /\ 0 \in 0..(SCREEN_W - 1) /\ 0 \in 0..(SCREEN_H - 1)
      /\ PAINT_TOP..(SCREEN_H - 1) \subseteq 0..(SCREEN_H - 1)
  BY <1>1
<1>5. 0 \in ByteValues /\ BLANK \in ByteValues /\ BRUSH \in ByteValues /\ BLANK # BRUSH
  BY DEF BLANK, BRUSH, ByteValues
<1> QED BY <1>2, <1>3, <1>4, <1>5 DEF Rows, Columns, PageLines, PageCols

LEMMA EmptyPageType ==
  /\ EmptyPage \in [PageLines -> [PageCols -> ByteValues]]
  /\ \A r \in PageLines, k \in PageCols : EmptyPage[r][k] = 0
BY PageFits DEF EmptyPage

LEMMA PaintType ==
  ASSUME NEW s \in Screens, NEW y \in Rows, NEW x \in Columns, NEW v \in ByteValues
  PROVE  /\ Paint(s, y, x, v) \in Screens
         /\ Paint(s, y, x, v).cell = [s.cell EXCEPT ![Cell(y, x)] = v]
<1> DEFINE f == [s.cell EXCEPT ![Cell(y, x)] = v]
<1>1. f \in [Cells -> ByteValues]
  BY CellType DEF Screens
<1> HIDE DEF f
<1>2. [s EXCEPT !.cell = f] \in Screens /\ [s EXCEPT !.cell = f].cell = f
  BY <1>1 DEF Screens
<1> QED BY <1>2 DEF Paint, f

-----------------------------------------------------------------------------
(* The types *)

ConsoleInv == ConsoleTypeOK /\ IInv /\ Echoed

(* While a program runs and no reply was printed into it, nothing is being   *)
(* printed.                                                                  *)
Programs == (app # "none" /\ clean => out = << >>) /\ ProgramIsShown

LEMMA ConsoleInitInv == ConsoleInit => ConsoleInv /\ Programs
<1> SUFFICES ASSUME ConsoleInit PROVE ConsoleInv /\ Programs
  OBVIOUS
<1>1. IInv /\ Echoed
  BY IInvInit DEF ConsoleInit, Init, Echoed
<1>2. px \in Columns /\ py \in PAINT_TOP..(SCREEN_H - 1)
  BY AppsAssumption DEF ConsoleInit
<1>3. << >> \in Seq(ByteValues) /\ Len(<< >>) = 0
  OBVIOUS
<1>4. ConsoleTypeOK
  BY <1>1, <1>2, <1>3, EmptyPageType, PageFits DEF ConsoleInit, ConsoleTypeOK, IInv, Init
<1> QED BY <1>1, <1>4 DEF ConsoleInv, Programs, ProgramIsShown, ConsoleInit

(* What the shell does while no program runs, and its output at any time. *)
LEMMA ShellKeeps ==
  ASSUME ConsoleInv, Programs, Shell
  PROVE  ConsoleInv' /\ Programs'
<1>1. Next /\ UNCHANGED << app, kbd, lines, line, col, px, py, esc >>
  BY DEF Shell, Next, locals, page, canvas
<1>2. IInv' /\ Echoed'
  BY <1>1, IInvStep, EchoedStep DEF ConsoleInv
<1>3. app # "none" => Output
  BY DEF Shell, ConsoleInv, ConsoleTypeOK, ShowPrompt, Enter, Backspace, Echo, Full,
         ReplyPrinted, Idle
<1>4. app # "none" => UNCHANGED << pc, clean >> /\ ~clean
  BY <1>3 DEF Output, Programs
<1>5. ConsoleTypeOK'
  BY <1>1, <1>2, <1>4 DEF ConsoleInv, ConsoleTypeOK, IInv
<1>6. Programs'
  BY <1>1, <1>4 DEF Programs, ProgramIsShown
<1> QED BY <1>2, <1>5, <1>6 DEF ConsoleInv

(* While a program runs, the prompt and its line are no one's business. *)
LEMMA ProgramKeeps ==
  ASSUME TypeOK', pc' # "readline"
  PROVE  IInv' /\ Echoed'
BY DEF IInv, CursorAfterLine, Echoed

LEMMA PressKeyKeeps ==
  ASSUME ConsoleInv, Programs, PressKey
  PROVE  ConsoleInv' /\ Programs'
<1>1. PICK sc \in KeyCodes[app] :
        /\ kbd' = IF key_map[sc] # 0 THEN << key_map[sc] >> ELSE << >>
        /\ esc' = (esc \/ sc = ESC_CODE)
  BY DEF PressKey
<1>2. app \in {"edit", "paint"} /\ UNCHANGED << vars, app, page, canvas >>
  BY DEF PressKey, ConsoleInv, ConsoleTypeOK
<1>3. key_map[sc] \in ByteValues
  BY <1>1, <1>2, AppsAssumption
<1>4. kbd' \in Seq(ByteValues) /\ Len(kbd') <= 1 /\ esc' \in BOOLEAN
  BY <1>1, <1>3 DEF ConsoleInv, ConsoleTypeOK
<1>5. UNCHANGED << screen, buf, pc, out, clean, app, lines, line, col, px, py >>
  BY <1>2 DEF vars, page, canvas
<1>6. IInv' /\ Echoed'
  BY <1>5 DEF ConsoleInv, IInv, TypeOK, CursorAfterLine, Echoed
<1>7. ConsoleTypeOK'
  BY <1>4, <1>5, <1>6 DEF ConsoleInv, ConsoleTypeOK, IInv
<1>8. Programs'
  BY <1>5 DEF Programs, ProgramIsShown, PageIsShown, OneBrush
<1> QED BY <1>6, <1>7, <1>8 DEF ConsoleInv

LEMMA ReplyKeeps ==
  ASSUME ConsoleInv, Programs, ReplyIntoProgram
  PROVE  ConsoleInv' /\ Programs'
<1>1. /\ out' = Reply /\ clean' = FALSE /\ Reply \in Seq(ByteValues) /\ pc = "command"
      /\ UNCHANGED << pc, screen, buf, app, kbd, lines, line, col, px, py, esc >>
  BY ReadlineAssumption DEF ReplyIntoProgram, locals, page, canvas, ConsoleInv, ConsoleTypeOK
<1>2. TypeOK'
  BY <1>1 DEF ConsoleInv, ConsoleTypeOK, TypeOK
<1>3. IInv' /\ Echoed'
  BY <1>1, <1>2, ProgramKeeps
<1>4. ConsoleTypeOK'
  BY <1>1, <1>2 DEF ConsoleInv, ConsoleTypeOK
<1>5. Programs'
  BY <1>1 DEF Programs, ProgramIsShown
<1> QED BY <1>3, <1>4, <1>5 DEF ConsoleInv

-----------------------------------------------------------------------------
(* Starting and leaving a program *)

LEMMA ClearedCells ==
  /\ Cleared \in Screens
  /\ \A i \in Cells : Cleared.cell[i] = BLANK
BY ClearedProps DEF Cleared

LEMMA StartEditorKeeps ==
  ASSUME ConsoleInv, Programs, StartEditor
  PROVE  ConsoleInv' /\ Programs'
<1>1. /\ app' = "edit" /\ screen' = [Cleared EXCEPT !.y = ED_TOP]
      /\ lines' = EmptyPage /\ line' = 0 /\ col' = 0 /\ clean' = TRUE /\ esc' = FALSE
      /\ out = << >> /\ pc = "command" /\ UNCHANGED << pc, buf, out, kbd, px, py >>
  BY DEF StartEditor, Idle, canvas
<1>2. screen' \in Screens /\ screen'.cell = Cleared.cell /\ screen'.y = ED_TOP /\ screen'.x = 0
  <2>1. screen' \in Screens
    BY <1>1, ClearedCells, PageFits DEF Screens
  <2>2. screen' = [cell |-> Cleared.cell, y |-> ED_TOP, x |-> 0]
    BY <1>1 DEF Cleared
  <2> QED BY <2>1, <2>2
<1>3. TypeOK'
  BY <1>1, <1>2 DEF ConsoleInv, ConsoleTypeOK, TypeOK
<1>4. IInv' /\ Echoed'
  BY <1>1, <1>3, ProgramKeeps
<1>5. ConsoleTypeOK'
  BY <1>1, <1>3, EmptyPageType, PageFits DEF ConsoleInv, ConsoleTypeOK
<1>6. PageIsShown'
  <2>1. screen'.y = ED_TOP + line' /\ screen'.x = col'
    BY <1>1, <1>2, AppsAssumption
  <2>2. ASSUME NEW r \in PageLines, NEW k \in PageCols
        PROVE  screen'.cell[Cell(ED_TOP + r, k)] = IF lines'[r][k] = 0 THEN BLANK ELSE lines'[r][k]
    <3>1. Cell(ED_TOP + r, k) \in Cells
      BY PageFits, CellType
    <3> QED BY <1>1, <1>2, <3>1, ClearedCells, EmptyPageType
  <2> QED BY <2>1, <2>2 DEF PageIsShown
<1>7. Programs'
  BY <1>1, <1>6 DEF Programs, ProgramIsShown
<1> QED BY <1>4, <1>5, <1>7 DEF ConsoleInv

LEMMA StartPaintKeeps ==
  ASSUME ConsoleInv, Programs, StartPaint
  PROVE  ConsoleInv' /\ Programs'
<1>1. /\ app' = "paint" /\ screen' = Paint(Cleared, PAINT_Y, PAINT_X, BRUSH)
      /\ px' = PAINT_X /\ py' = PAINT_Y /\ clean' = TRUE /\ esc' = FALSE
      /\ out = << >> /\ pc = "command" /\ UNCHANGED << pc, buf, out, kbd, lines, line, col >>
  BY DEF StartPaint, Idle, page
<1>2. PAINT_X \in Columns /\ PAINT_Y \in PAINT_TOP..(SCREEN_H - 1) /\ PAINT_Y \in Rows
  BY PageFits, AppsAssumption
<1>3. /\ screen' \in Screens
      /\ screen'.cell = [Cleared.cell EXCEPT ![Cell(PAINT_Y, PAINT_X)] = BRUSH]
  BY <1>1, <1>2, ClearedCells, PageFits, PaintType
<1>4. TypeOK'
  BY <1>1, <1>3 DEF ConsoleInv, ConsoleTypeOK, TypeOK
<1>5. IInv' /\ Echoed'
  BY <1>1, <1>4, ProgramKeeps
<1>6. ConsoleTypeOK'
  BY <1>1, <1>2, <1>4 DEF ConsoleInv, ConsoleTypeOK
<1>7. OneBrush'
  <2>1. Cell(PAINT_Y, PAINT_X) \in Cells
    BY <1>2, CellType
  <2>2. Cleared.cell \in [Cells -> ByteValues]
    BY ClearedCells DEF Screens
  <2>3. \A i \in Cells : screen'.cell[i] = BRUSH <=> i = Cell(PAINT_Y, PAINT_X)
    BY <1>3, <2>1, <2>2, ClearedCells, PageFits
  <2> QED BY <1>1, <2>1, <2>3 DEF OneBrush
<1>8. Programs'
  BY <1>1, <1>7 DEF Programs, ProgramIsShown
<1> QED BY <1>5, <1>6, <1>8 DEF ConsoleInv

LEMMA QuitKeeps ==
  ASSUME ConsoleInv, Programs, NEW in, Quit(in)
  PROVE  ConsoleInv' /\ Programs'
<1>1. /\ app' = "none" /\ pc' = "prompt" /\ screen' = Cleared /\ kbd' = << >>
      /\ lines' = EmptyPage /\ line' = 0 /\ col' = 0 /\ px' = PAINT_X /\ py' = PAINT_Y
      /\ clean' = TRUE /\ esc' = FALSE /\ UNCHANGED << buf, out >>
  BY DEF Quit, Getchar
<1>2. TypeOK'
  BY <1>1, ClearedCells DEF ConsoleInv, ConsoleTypeOK, TypeOK
<1>3. IInv' /\ Echoed'
  BY <1>1, <1>2, ProgramKeeps
<1>4. << >> \in Seq(ByteValues) /\ Len(<< >>) = 0
  OBVIOUS
<1>5. ConsoleTypeOK'
  <2>1. px' \in Columns /\ py' \in PAINT_TOP..(SCREEN_H - 1)
    BY <1>1, AppsAssumption
  <2>2. lines' \in [PageLines -> [PageCols -> ByteValues]] /\ line' \in PageLines /\ col' \in PageCols
    BY <1>1, EmptyPageType, PageFits
  <2>3. kbd' \in Seq(ByteValues) /\ Len(kbd') <= 1 /\ esc' \in BOOLEAN /\ app' = "none"
    <3>1. << >> \in Seq(ByteValues) /\ Len(<< >>) <= 1
      BY <1>4
    <3>2. esc' \in BOOLEAN /\ app' = "none" /\ kbd' = << >>
      BY <1>1
    <3> QED BY <3>1, <3>2
  <2> QED BY <1>2, <2>1, <2>2, <2>3 DEF ConsoleTypeOK
<1>6. Programs'
  BY <1>1 DEF Programs, ProgramIsShown
<1> QED BY <1>3, <1>5, <1>6 DEF ConsoleInv

-----------------------------------------------------------------------------
(* The editor *)

(* The character that waits, and what every key leaves alone. *)
LEMMA KeyTaken ==
  ASSUME ConsoleInv, Programs, NEW in \in {"edit", "paint"}, Getchar(in)
  PROVE  /\ app = in /\ out = << >> /\ pc = "command" /\ ch \in ByteValues
         /\ kbd' \in Seq(ByteValues) /\ Len(kbd') <= 1 /\ screen \in Screens
<1>1. /\ app = in /\ out = << >> /\ kbd # << >> /\ kbd' = << >>
      /\ kbd \in Seq(ByteValues) /\ pc = "command" /\ screen \in Screens
  BY DEF Getchar, ConsoleInv, ConsoleTypeOK, TypeOK
<1>2. Head(kbd) \in ByteValues
  BY <1>1, HeadTailProperties
<1>3. << >> \in Seq(ByteValues) /\ Len(<< >>) = 0
  OBVIOUS
<1> QED BY <1>1, <1>2, <1>3 DEF ch

(* The cells of the page, whatever the cursor. *)
Shown(cell, ls) ==
  \A r \in PageLines, k \in PageCols :
    cell[Cell(ED_TOP + r, k)] = IF ls[r][k] = 0 THEN BLANK ELSE ls[r][k]

LEMMA ShownCell ==
  ASSUME NEW cell \in [Cells -> ByteValues], NEW ls \in [PageLines -> [PageCols -> ByteValues]],
         NEW r0 \in PageLines, NEW k0 \in PageCols, NEW v \in ByteValues, Shown(cell, ls)
  PROVE  Shown([cell EXCEPT ![Cell(ED_TOP + r0, k0)] = IF v = 0 THEN BLANK ELSE v],
               [ls EXCEPT ![r0][k0] = v])
<1> DEFINE new == [cell EXCEPT ![Cell(ED_TOP + r0, k0)] = IF v = 0 THEN BLANK ELSE v]
           next == [ls EXCEPT ![r0][k0] = v]
<1>1. ASSUME NEW r \in PageLines, NEW k \in PageCols
      PROVE  new[Cell(ED_TOP + r, k)] = IF next[r][k] = 0 THEN BLANK ELSE next[r][k]
  <2>1. /\ ED_TOP + r \in Rows /\ ED_TOP + r0 \in Rows /\ k \in Columns /\ k0 \in Columns
        /\ r \in Int /\ r0 \in Int
    BY PageFits DEF PageLines
  <2>2. Cell(ED_TOP + r, k) \in Cells /\ Cell(ED_TOP + r0, k0) \in Cells
    BY <2>1, CellType
  <2>3. CASE r = r0 /\ k = k0
    BY <2>2, <2>3
  <2>4. CASE ~(r = r0 /\ k = k0)
    <3>1. Cell(ED_TOP + r, k) # Cell(ED_TOP + r0, k0)
      <4>1. ED_TOP + r = ED_TOP + r0 => r = r0
        BY <2>1, AppsAssumption
      <4> QED BY <2>1, <2>4, <4>1, CellUnique
    <3>2. new[Cell(ED_TOP + r, k)] = cell[Cell(ED_TOP + r, k)]
      BY <2>2, <3>1
    <3>3. next[r][k] = ls[r][k]
      BY <2>4
    <3> QED BY <3>2, <3>3 DEF Shown
  <2> QED BY <2>3, <2>4
<1> QED BY <1>1 DEF Shown

(* An editor's key keeps everything if it keeps the types of page and screen *)
(* and what the screen shows.                                                *)
LEMMA EditorKeeps ==
  ASSUME ConsoleInv, Programs, Getchar("edit"),
         UNCHANGED << app, pc, buf, px, py, out, clean, esc >>,
         screen' \in Screens, lines' \in [PageLines -> [PageCols -> ByteValues]],
         line' \in PageLines, col' \in PageCols,
         PageIsShown => PageIsShown'
  PROVE  ConsoleInv' /\ Programs'
<1>1. /\ app = "edit" /\ out = << >> /\ pc = "command"
      /\ kbd' \in Seq(ByteValues) /\ Len(kbd') <= 1
  BY KeyTaken
<1>2. TypeOK'
  BY DEF ConsoleInv, ConsoleTypeOK, TypeOK
<1>3. IInv' /\ Echoed'
  BY <1>1, <1>2, ProgramKeeps
<1>4. ConsoleTypeOK'
  BY <1>1, <1>2 DEF ConsoleInv, ConsoleTypeOK
<1>5. Programs'
  BY <1>1 DEF Programs, ProgramIsShown
<1> QED BY <1>3, <1>4, <1>5 DEF ConsoleInv

LEMMA PageTypes ==
  ASSUME ConsoleInv
  PROVE  /\ lines \in [PageLines -> [PageCols -> ByteValues]]
         /\ line \in PageLines /\ col \in PageCols /\ line \in Int /\ col \in Int
         /\ screen \in Screens /\ screen.cell \in [Cells -> ByteValues]
         /\ screen.y \in Rows /\ screen.x \in Columns /\ screen.y \in Int /\ screen.x \in Int
         /\ screen = [cell |-> screen.cell, y |-> screen.y, x |-> screen.x]
<1>1. /\ lines \in [PageLines -> [PageCols -> ByteValues]]
      /\ line \in PageLines /\ col \in PageCols /\ screen \in Screens
  BY DEF ConsoleInv, ConsoleTypeOK, TypeOK
<1>2. line \in Int /\ col \in Int
  BY <1>1 DEF PageLines, PageCols
<1>3. /\ screen.cell \in [Cells -> ByteValues] /\ screen.y \in Rows /\ screen.x \in Columns
      /\ screen = [cell |-> screen.cell, y |-> screen.y, x |-> screen.x]
  BY <1>1 DEF Screens
<1>4. screen.y \in Int /\ screen.x \in Int
  BY <1>3 DEF Rows, Columns
<1> QED BY <1>1, <1>2, <1>3, <1>4

LEMMA EditorEnterKeeps ==
  ASSUME ConsoleInv, Programs, EditorEnter
  PROVE  ConsoleInv' /\ Programs'
<1> DEFINE below == IF screen.y + 1 >= SCREEN_H THEN SCREEN_H - 1 ELSE screen.y + 1
<1>1. /\ Getchar("edit") /\ UNCHANGED << app, pc, buf, lines, px, py, out, clean, esc >>
      /\ IF line < ED_LINES - 1
         THEN /\ line' = line + 1 /\ col' = 0
              /\ screen' = [screen EXCEPT !.x = 0, !.y = below]
         ELSE UNCHANGED << line, col, screen >>
  BY DEF EditorEnter, canvas
<1>2. CASE line < ED_LINES - 1
  <2>1. screen' = [cell |-> screen.cell, y |-> below, x |-> 0]
    BY <1>1, <1>2, PageTypes
  <2>2. below \in Rows
    BY PageTypes, ScreenAssumption DEF Rows
  <2>3. screen' \in Screens
    BY <2>1, <2>2, PageTypes, PageFits DEF Screens
  <2>4. line' \in PageLines /\ col' \in PageCols
    BY <1>1, <1>2, PageTypes, PageFits, AppsAssumption DEF PageLines
  <2>5. PageIsShown => PageIsShown'
    <3> SUFFICES ASSUME PageIsShown PROVE PageIsShown'
      OBVIOUS
    <3>1. below = ED_TOP + (line + 1)
      <4>1. ED_TOP + line + 1 \in Rows /\ screen.y = ED_TOP + line
        BY PageTypes, PageFits DEF PageIsShown
      <4>2. ED_TOP + line + 1 < SCREEN_H
        BY <4>1, ScreenAssumption DEF Rows
      <4> QED BY <4>1, <4>2, PageTypes, ScreenAssumption, AppsAssumption
    <3>2. screen'.y = ED_TOP + line' /\ screen'.x = col' /\ screen'.cell = screen.cell
      BY <1>1, <1>2, <2>1, <3>1
    <3>3. lines' = lines
      BY <1>1
    <3> QED BY <3>2, <3>3 DEF PageIsShown
  <2>6. lines' = lines /\ UNCHANGED << app, pc, buf, px, py, out, clean, esc >>
    BY <1>1
  <2> QED BY <1>1, <2>3, <2>4, <2>5, <2>6, PageTypes, EditorKeeps
<1>3. CASE ~(line < ED_LINES - 1)
  <2>1. UNCHANGED << app, pc, buf, px, py, out, clean, esc, lines, line, col, screen >>
    BY <1>1, <1>3
  <2>2. PageIsShown => PageIsShown'
    BY <2>1 DEF PageIsShown
  <2> QED BY <1>1, <2>1, <2>2, PageTypes, EditorKeeps
<1> QED BY <1>2, <1>3

(* What Store does to the screen's three parts. *)
LEMMA StoreCells ==
  ASSUME NEW s \in Screens, NEW v \in ByteValues
  PROVE  /\ Store(s, v) \in Screens /\ Store(s, v).y = s.y /\ Store(s, v).x = s.x
         /\ Store(s, v).cell = [s.cell EXCEPT ![Cell(s.y, s.x)] = v]
<1>1. Pos(s) = Cell(s.y, s.x)
  BY DEF Pos, Cell
<1>2. Store(s, v).cell = [s.cell EXCEPT ![Pos(s)] = v]
  BY DEF Store, Screens
<1> QED BY <1>1, <1>2, StoreType

LEMMA EditorBackspaceKeeps ==
  ASSUME ConsoleInv, Programs, EditorBackspace
  PROVE  ConsoleInv' /\ Programs'
<1> DEFINE left == IF screen.x > 0 THEN screen.x - 1 ELSE 0
           t == [screen EXCEPT !.x = left]
<1>1. /\ Getchar("edit") /\ UNCHANGED << app, pc, buf, line, px, py, out, clean, esc >>
      /\ IF col > 0
         THEN /\ col' = col - 1 /\ lines' = [lines EXCEPT ![line][col - 1] = 0]
              /\ screen' = Store(t, BLANK)
         ELSE UNCHANGED << col, lines, screen >>
  BY DEF EditorBackspace, canvas
<1>2. CASE col > 0
  <2>1. t = [cell |-> screen.cell, y |-> screen.y, x |-> left] /\ left \in Columns
    <3>1. left \in Columns
      BY PageTypes, ScreenAssumption DEF Columns
    <3> QED BY <3>1, PageTypes
  <2>2. t \in Screens /\ t.cell = screen.cell /\ t.y = screen.y /\ t.x = left
    BY <2>1, PageTypes DEF Screens
  <2> HIDE DEF t
  <2>3. /\ screen' \in Screens /\ screen'.y = screen.y /\ screen'.x = left
        /\ screen'.cell = [screen.cell EXCEPT ![Cell(screen.y, left)] = BLANK]
    BY <1>1, <1>2, <2>2, PageFits, StoreCells
  <2>4. col - 1 \in PageCols /\ line \in PageLines
    BY <1>2, PageTypes, AppsAssumption DEF PageCols
  <2>5. /\ lines' \in [PageLines -> [PageCols -> ByteValues]] /\ line' \in PageLines
        /\ col' \in PageCols
    BY <1>1, <1>2, <2>4, PageTypes, PageFits
  <2>6. PageIsShown => PageIsShown'
    <3> SUFFICES ASSUME PageIsShown PROVE PageIsShown'
      OBVIOUS
    <3>1. screen.y = ED_TOP + line /\ screen.x = col /\ Shown(screen.cell, lines)
      BY DEF PageIsShown, Shown
    <3>2. left = col - 1
      BY <1>2, <3>1
    <3>3. 0 \in ByteValues
      BY PageFits
    <3>4. Shown([screen.cell EXCEPT ![Cell(ED_TOP + line, col - 1)] = IF 0 = 0 THEN BLANK ELSE 0],
                [lines EXCEPT ![line][col - 1] = 0])
      BY <2>4, <3>1, <3>3, PageTypes, ShownCell
    <3>5. Shown(screen'.cell, lines')
      BY <1>1, <1>2, <2>3, <3>1, <3>2, <3>4
    <3> QED BY <1>1, <1>2, <2>3, <3>1, <3>2, <3>5 DEF PageIsShown, Shown
  <2>7. UNCHANGED << app, pc, buf, px, py, out, clean, esc >>
    BY <1>1
  <2> QED BY <1>1, <2>3, <2>5, <2>6, <2>7, EditorKeeps
<1>3. CASE ~(col > 0)
  <2>1. UNCHANGED << app, pc, buf, px, py, out, clean, esc, lines, line, col, screen >>
    BY <1>1, <1>3
  <2>2. PageIsShown => PageIsShown'
    BY <2>1 DEF PageIsShown
  <2> QED BY <1>1, <2>1, <2>2, PageTypes, EditorKeeps
<1> QED BY <1>2, <1>3

(* A line of the page ends before the screen's last column, so a character   *)
(* typed into it never wraps.                                                *)
LEMMA EditorTypeKeeps ==
  ASSUME ConsoleInv, Programs, EditorType
  PROVE  ConsoleInv' /\ Programs'
<1>1. /\ Getchar("edit") /\ ch # NEWLINE
      /\ UNCHANGED << app, pc, buf, line, px, py, out, clean, esc >>
      /\ IF Printable(ch) /\ LineHasRoom
         THEN /\ lines' = [lines EXCEPT ![line][col] = ch]
              /\ col' = col + 1 /\ screen' = Putc(screen, ch)
         ELSE UNCHANGED << lines, col, screen >>
  BY DEF EditorType, canvas
<1>2. ch \in ByteValues
  BY <1>1, KeyTaken
<1>3. CASE Printable(ch) /\ LineHasRoom
  <2>1. ch # 0 /\ col < ED_COLS - 1
    BY <1>3 DEF Printable, LineHasRoom
  <2>2. screen' \in Screens
    BY <1>1, <1>2, <1>3, PageTypes, PutcProps
  <2>3. /\ lines' \in [PageLines -> [PageCols -> ByteValues]] /\ line' \in PageLines
        /\ col' \in PageCols
    <3>1. col + 1 \in PageCols
      BY <2>1, PageTypes, AppsAssumption DEF PageCols
    <3> QED BY <1>1, <1>2, <1>3, <3>1, PageTypes
  <2>4. PageIsShown => PageIsShown'
    <3> SUFFICES ASSUME PageIsShown PROVE PageIsShown'
      OBVIOUS
    <3>1. screen.y = ED_TOP + line /\ screen.x = col /\ Shown(screen.cell, lines)
      BY DEF PageIsShown, Shown
    <3>2. ~(screen.x + 1 >= SCREEN_W)
      BY <2>1, <3>1, PageTypes, AppsAssumption, ScreenAssumption
    <3>3. /\ screen'.y = screen.y /\ screen'.x = screen.x + 1
          /\ screen'.cell = [screen.cell EXCEPT ![Cell(screen.y, screen.x)] = ch]
      <4> DEFINE t == Store(screen, ch)
      <4>1. /\ t \in Screens /\ t.y = screen.y /\ t.x = screen.x
            /\ t.cell = [screen.cell EXCEPT ![Cell(screen.y, screen.x)] = ch]
        BY <1>2, PageTypes, StoreCells
      <4>2. screen' = [t EXCEPT !.x = screen.x + 1]
        BY <1>1, <1>3, <3>2 DEF Putc
      <4> HIDE DEF t
      <4> QED BY <4>1, <4>2 DEF Screens
    <3>4. Shown([screen.cell EXCEPT ![Cell(ED_TOP + line, col)] = IF ch = 0 THEN BLANK ELSE ch],
                [lines EXCEPT ![line][col] = ch])
      BY <1>2, <3>1, PageTypes, ShownCell
    <3>5. Shown(screen'.cell, lines')
      BY <1>1, <1>3, <2>1, <3>1, <3>3, <3>4
    <3> QED BY <1>1, <1>3, <3>1, <3>3, <3>5 DEF PageIsShown, Shown
  <2>5. UNCHANGED << app, pc, buf, px, py, out, clean, esc >>
    BY <1>1
  <2> QED BY <1>1, <2>2, <2>3, <2>4, <2>5, EditorKeeps
<1>4. CASE ~(Printable(ch) /\ LineHasRoom)
  <2>1. UNCHANGED << app, pc, buf, px, py, out, clean, esc, lines, line, col, screen >>
    BY <1>1, <1>4
  <2>2. PageIsShown => PageIsShown'
    BY <2>1 DEF PageIsShown
  <2> QED BY <1>1, <2>1, <2>2, PageTypes, EditorKeeps
<1> QED BY <1>3, <1>4

-----------------------------------------------------------------------------
(* The paint program *)

LEMMA PaintKeeps ==
  ASSUME ConsoleInv, Programs, PaintKey
  PROVE  ConsoleInv' /\ Programs'
<1>1. /\ Getchar("paint") /\ UNCHANGED << app, pc, buf, lines, line, col, out, clean, esc >>
      /\ py' = UpDown(py) /\ px' = Across(px)
      /\ screen' = Paint(Lift(screen), py', px', BRUSH)
  BY DEF PaintKey, page
<1>2. /\ app = "paint" /\ out = << >> /\ pc = "command" /\ screen \in Screens
      /\ kbd' \in Seq(ByteValues) /\ Len(kbd') <= 1
  BY <1>1, KeyTaken
<1>3. px \in Columns /\ py \in PAINT_TOP..(SCREEN_H - 1) /\ py \in Rows
  BY PageFits DEF ConsoleInv, ConsoleTypeOK
<1>4. px' \in Columns /\ py' \in PAINT_TOP..(SCREEN_H - 1) /\ py' \in Rows
  <2>1. PAINT_TOP \in Nat
    BY AppsAssumption DEF Rows
  <2>2. Across(px) \in Columns
    BY <1>3, ScreenAssumption DEF Across, Columns
  <2>3. UpDown(py) \in PAINT_TOP..(SCREEN_H - 1)
    BY <1>3, <2>1, ScreenAssumption DEF UpDown
  <2> QED BY <1>1, <2>2, <2>3, PageFits
<1>5. /\ Lift(screen) \in Screens
      /\ Lift(screen).cell = [screen.cell EXCEPT ![Cell(py, px)] = BLANK]
  BY <1>2, <1>3, PageFits, PaintType DEF Lift
<1>6. /\ screen' \in Screens
      /\ screen'.cell = [Lift(screen).cell EXCEPT ![Cell(py', px')] = BRUSH]
  BY <1>1, <1>4, <1>5, PageFits, PaintType
<1>7. TypeOK'
  BY <1>1, <1>6 DEF ConsoleInv, ConsoleTypeOK, TypeOK
<1>8. IInv' /\ Echoed'
  BY <1>1, <1>2, <1>7, ProgramKeeps
<1>9. ConsoleTypeOK'
  BY <1>1, <1>2, <1>4, <1>7 DEF ConsoleInv, ConsoleTypeOK
<1>10. OneBrush => OneBrush'
  <2> SUFFICES ASSUME OneBrush PROVE OneBrush'
    OBVIOUS
  <2>1. Cell(py, px) \in Cells /\ Cell(py', px') \in Cells
    BY <1>3, <1>4, CellType
  <2>2. screen.cell \in [Cells -> ByteValues]
    BY <1>2 DEF Screens
  <2>3. \A i \in Cells : screen.cell[i] = BRUSH <=> i = Cell(py, px)
    BY <2>1 DEF OneBrush
  <2>4. \A i \in Cells : screen'.cell[i] = BRUSH <=> i = Cell(py', px')
    BY <1>5, <1>6, <2>1, <2>2, <2>3, PageFits
  <2> QED BY <2>1, <2>4 DEF OneBrush
<1>11. Programs'
  BY <1>1, <1>2, <1>10 DEF Programs, ProgramIsShown
<1> QED BY <1>8, <1>9, <1>11 DEF ConsoleInv

-----------------------------------------------------------------------------
(* The theorems *)

LEMMA ConsoleStep == ConsoleInv /\ Programs /\ [ConsoleNext]_console => ConsoleInv' /\ Programs'
<1>1. ConsoleInv /\ Programs /\ UNCHANGED console => ConsoleInv' /\ Programs'
  <2> SUFFICES ASSUME ConsoleInv, Programs, UNCHANGED console PROVE ConsoleInv' /\ Programs'
    OBVIOUS
  <2>1. /\ UNCHANGED << screen, buf, pc, out, clean, app, kbd, lines, line, col, px, py, esc >>
    BY DEF console, vars, locals, page, canvas
  <2> QED BY <2>1 DEF ConsoleInv, ConsoleTypeOK, IInv, TypeOK, CursorAfterLine, Echoed,
                 Programs, ProgramIsShown, PageIsShown, OneBrush
<1> QED BY <1>1, ShellKeeps, PressKeyKeeps, ReplyKeeps, StartEditorKeeps, StartPaintKeeps,
           QuitKeeps, EditorEnterKeeps, EditorBackspaceKeeps, EditorTypeKeeps, PaintKeeps
        DEF ConsoleNext, Editor, Painter

(* Shell, editor and paint program keep the invariant their theorems share.  *)
THEOREM ConsoleInvariance == ConsoleSpec => [](ConsoleInv /\ Programs)
BY ConsoleInitInv, ConsoleStep, PTL DEF ConsoleSpec

(* The editor's line and column stay inside its page, the brush inside the   *)
(* canvas, and the cursor on the screen, whatever keys come, and also when a *)
(* reply moves the cursor under a running program.                           *)
THEOREM ConsoleTypeCorrect == ConsoleSpec => []ConsoleTypeOK
<1>1. ConsoleInv => ConsoleTypeOK
  BY DEF ConsoleInv
<1> QED BY <1>1, ConsoleInvariance, PTL

(* Programs that come and go in between do not disturb the shell's prompt:   *)
(* the line it shows is the line it reads.                                   *)
THEOREM ConsoleLineIsEchoed == ConsoleSpec => [](CursorAfterLine /\ EchoIsBuffer)
<1>1. ConsoleInv => CursorAfterLine /\ EchoIsBuffer
  BY EchoedShows DEF ConsoleInv, IInv
<1> QED BY <1>1, ConsoleInvariance, PTL

(* Until a reply is printed into it, the screen shows the editor's page with *)
(* the cursor at its position, or the paint program's one brush.             *)
THEOREM ScreenIsProgram == ConsoleSpec => []ProgramIsShown
<1>1. Programs => ProgramIsShown
  BY DEF Programs
<1> QED BY <1>1, ConsoleInvariance, PTL
=============================================================================
