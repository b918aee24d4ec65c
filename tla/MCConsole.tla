----------------------------- MODULE MCConsole ------------------------------
(***************************************************************************)
(* A screen of a few cells, so that lines wrap and scroll, and two key     *)
(* maps.  KernelKeyMap is the kernel's own, in which the ESC key has no    *)
(* character: no program ever ends (EscExits, the run console_esc).        *)
(* EscKeyMap adds the missing 27, so that the invariants, which are about  *)
(* any key map, are also checked where a program does return.              *)
(***************************************************************************)
EXTENDS Apps

MCInput   == {97, 98, NEWLINE, BACKSPACE, ETX}
MCOutputs == {<< >>, << 111, NEWLINE >>}
MCReply   == << 114, NEWLINE >>

(* ESC, backspace, Enter, a in the editor; ESC, w, s, d and the space bar    *)
(* when painting.                                                            *)
AppKeys == [edit |-> {ESC_CODE, 14, 28, 30}, paint |-> {ESC_CODE, 17, 31, 32, 57}]

EscKeyMap == [KernelKeyMap EXCEPT ![ESC_CODE] = ESC]
=============================================================================
