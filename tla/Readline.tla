------------------------------ MODULE Readline ------------------------------
(***************************************************************************)
(* The shell's prompt and terminal_readline (kernel/kernel.c).  A command  *)
(* prints its output and the prompt; then keys edit the line until Enter   *)
(* or a full buffer ends it.  While readline waits for a key,              *)
(* keyboard_getchar calls net_poll, and an ICMP echo reply prints a line   *)
(* of its own in the middle of the user's.                                 *)
(***************************************************************************)
EXTENDS Screen

CONSTANTS max,          \* size of the caller's buffer
          Input,        \* characters the user may type
          Outputs,      \* what a command may print
          Reply         \* the line net_handle_packet prints for an echo reply

Prompt == << 35, 32 >>  \* "# "

ASSUME ReadlineAssumption ==
  /\ max \in Nat \ {0}
  /\ max + Len(Prompt) <= SCREEN_W * (SCREEN_H - 1)
  /\ Input \subseteq ByteValues
  /\ Outputs \subseteq Seq(ByteValues) /\ Reply \in Seq(ByteValues)

VARIABLES screen,       \* vga_buffer, cursor_y, cursor_x
          buf,          \* the line so far: buf[0..i-1]
          pc,           \* "command", "prompt", "readline"
          out,          \* what is being printed, one terminal_putc at a time
          clean         \* no reply was printed since the prompt

vars == << screen, buf, pc, out, clean >>

Init ==
  /\ screen = Cleared
  /\ buf = << >> /\ pc = "command" /\ out = << >> /\ clean = TRUE

(* terminal_write: nothing else of the thread runs until the text is out. *)
Output ==
  /\ out # << >>
  /\ screen' = Putc(screen, Head(out))
  /\ out' = Tail(out)
  /\ UNCHANGED << buf, pc, clean >>

Idle(at) == out = << >> /\ pc = at

(* shell_execute prints something, or clears the screen. *)
Command ==
  /\ Idle("command")
  /\ \/ out' \in Outputs /\ UNCHANGED screen
     \/ screen' = Cleared /\ UNCHANGED out
  /\ pc' = "prompt"
  /\ UNCHANGED << buf, clean >>

(* shell_loop: terminal_write("# "), then terminal_readline starts with i = 0. *)
ShowPrompt ==
  /\ Idle("prompt")
  /\ out' = Prompt
  /\ buf' = << >> /\ clean' = TRUE /\ pc' = "readline"
  /\ UNCHANGED screen

HasSpace == Len(buf) < max - 1

Enter ==
  /\ Idle("readline") /\ HasSpace
  /\ NEWLINE \in Input
  /\ out' = << NEWLINE >> /\ pc' = "command"
  /\ UNCHANGED << screen, buf, clean >>

BackspaceAlways ==
  /\ Idle("readline") /\ HasSpace
  /\ BACKSPACE \in Input
  /\ screen.x > 0 \/ screen.y > 0
  /\ buf' = IF buf = << >> THEN buf ELSE SubSeq(buf, 1, Len(buf) - 1)
  /\ screen' = Rubout(screen)
  /\ UNCHANGED << pc, out, clean >>

Backspace ==
  /\ Idle("readline") /\ HasSpace
  /\ BACKSPACE \in Input /\ buf # << >>
  /\ buf' = SubSeq(buf, 1, Len(buf) - 1)
  /\ screen' = Rubout(screen)
  /\ UNCHANGED << pc, out, clean >>

Echo ==
  /\ Idle("readline") /\ HasSpace
  /\ \E ch \in Input :
       /\ Printable(ch)
       /\ buf' = Append(buf, ch)
       /\ screen' = Putc(screen, ch)
  /\ UNCHANGED << pc, out, clean >>

(* The loop ends on a full buffer without echoing a newline. *)
Full ==
  /\ Idle("readline") /\ ~HasSpace
  /\ pc' = "command"
  /\ UNCHANGED << screen, buf, out, clean >>

(* net_poll inside keyboard_getchar: only while readline waits for a key. *)
ReplyPrinted ==
  /\ Idle("readline") /\ HasSpace
  /\ out' = Reply /\ clean' = FALSE
  /\ UNCHANGED << screen, buf, pc >>

Next ==
  \/ Output \/ Command \/ ShowPrompt
  \/ Enter \/ Backspace \/ Echo \/ Full
  \/ ReplyPrinted

Spec == Init /\ [][Next]_vars

-----------------------------------------------------------------------------
(* Properties *)

(* The cursor stays on the screen, and vga_buffer is written inside it.      *)
TypeOK ==
  /\ screen \in Screens
  /\ buf \in Seq(ByteValues) /\ Len(buf) <= max - 1
  /\ pc \in {"command", "prompt", "readline"}
  /\ out \in Seq(ByteValues)
  /\ clean \in BOOLEAN

(* The cursor is at least as far into the screen as the line is long: the    *)
(* backspaces it allows never move it above the first row, whatever replies  *)
(* were printed and however often the screen scrolled.                       *)
CursorAfterLine ==
  pc = "readline" => Pos(screen) >= Len(buf)

(* Unless a reply was printed into it, the text before the cursor is the     *)
(* prompt and exactly the characters that Enter will hand to the shell.      *)
EchoIsBuffer ==
  (Idle("readline") /\ clean) =>
    LET n == Len(Prompt) + Len(buf)
    IN  Pos(screen) >= n /\ Before(screen, n) = Prompt \o buf
=============================================================================
