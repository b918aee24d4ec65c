----------------------------- MODULE MCKeyboard -----------------------------
(***************************************************************************)
(* Small keyboards for Keyboard: the kernel's own key map, a ring of a few *)
(* cells, and the keys that matter to it.                                  *)
(***************************************************************************)
EXTENDS Keyboard

Key(sc)    == [code |-> sc, ext |-> FALSE]
ExtKey(sc) == [code |-> sc, ext |-> TRUE]

(* C, both Ctrl keys, ESC: 0x03 can be typed, and a key that has no character. *)
CtrlKeys == {Key(C_KEY), Key(CTRL), ExtKey(CTRL), Key(1)}
=============================================================================
