------------------------------- MODULE KeyMap -------------------------------
(***************************************************************************)
(* The scan codes and characters of the UwUOS keyboard driver              *)
(* (kernel/kernel.c): characters are their ASCII codes, 0 is "no           *)
(* character".                                                             *)
(***************************************************************************)
EXTENDS Integers, Sequences

MakeCodes == 0..127         \* sc < 0x80: a key goes down; its release is sc + 0x80
ByteValues == 0..255

CTRL == 29                  \* 0x1D
C_KEY == 46                 \* 0x2E
EXTENDED == 224             \* 0xE0, the prefix byte of right Ctrl, arrows, keypad Enter
BREAK == 128

ETX == 3
BACKSPACE == 8
NEWLINE == 10
ESC == 27

(***************************************************************************)
(* static u8 key_map[128]: the entries the initialiser names, the rest 0.  *)
(***************************************************************************)
KernelKeyMap ==
  LET named == << 0, 0, 49, 50, 51, 52, 53, 54, 55, 56, 57, 48, 45, 61, 8, 9,
                  113, 119, 101, 114, 116, 121, 117, 105, 111, 112, 91, 93, 10, 0,
                  97, 115, 100, 102, 103, 104, 106, 107, 108, 59, 39, 96, 0, 92,
                  122, 120, 99, 118, 98, 110, 109, 44, 46, 47, 0, 42, 0, 32 >>
  IN  [sc \in MakeCodes |-> IF sc < Len(named) THEN named[sc + 1] ELSE 0]

(***************************************************************************)
(* What keyboard_handler can ever put into its ring.                       *)
(***************************************************************************)
KbdChars(key_map) == ({key_map[sc] : sc \in MakeCodes} \ {0}) \cup {ETX}

Printable(c) == c >= 32 /\ c < 127
=============================================================================
