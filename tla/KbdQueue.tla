------------------------------ MODULE KbdQueue ------------------------------
(***************************************************************************)
(* What the keyboard ring of kernel/kernel.c promises its readers: a FIFO  *)
(* of at most Capacity characters.  Typing appends what fits and drops the *)
(* new character when nothing does; a reader takes the oldest character;   *)
(* and ping's flush drops the characters that waited when it began, never  *)
(* one typed since.  Nothing else takes a character out.                   *)
(***************************************************************************)
EXTENDS Integers, Sequences

CONSTANTS Capacity,     \* how many characters wait at most
          Chars,        \* the characters a key press can produce
          Interrupt     \* the one that Ctrl+C adds

VARIABLES queue,        \* typed and not yet read, oldest first
          marked,       \* how many waited when the running flush began
          ret           \* the character the last read returned, 0 before

vars == << queue, marked, ret >>

NoFlush == -1

Init == queue = << >> /\ marked = NoFlush /\ ret = 0

Put(q, ch) == IF Len(q) < Capacity THEN Append(q, ch) ELSE q

(* A key event adds its character, and after it the interrupt character of Ctrl+C. *)
Type ==
  /\ \E ch \in Chars :
       queue' \in {Put(queue, ch), Put(Put(queue, ch), Interrupt)}
  /\ UNCHANGED << marked, ret >>

Take ==
  /\ queue # << >> /\ marked = NoFlush
  /\ ret' = Head(queue)
  /\ queue' = Tail(queue)
  /\ UNCHANGED marked

FlushBegin ==
  /\ marked = NoFlush
  /\ marked' = Len(queue)
  /\ UNCHANGED << queue, ret >>

Discard ==
  /\ marked # NoFlush
  /\ queue' = SubSeq(queue, marked + 1, Len(queue))
  /\ marked' = NoFlush
  /\ UNCHANGED ret

Next == Type \/ Take \/ FlushBegin \/ Discard

Spec == Init /\ [][Next]_vars
=============================================================================
