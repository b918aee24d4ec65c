----------------------------- MODULE FileStore ------------------------------
(***************************************************************************)
(* What a user of the file commands expects of kernel/fs.c: a set of names *)
(* (directories among them), each file with contents of its own, the bytes *)
(* that were last written to it.  call is the command that was carried out *)
(* with each step; nothing changes that it did not ask for.                *)
(***************************************************************************)
EXTENDS Integers, Sequences, FiniteSets

CONSTANTS Names, Bytes, Capacity, RootDir, PackagesDir

VARIABLES contents,     \* name -> what cat shows; directories hold << >>
          directories,  \* the names that are directories
          call          \* [op, name, bytes]: the last command

vars == << contents, directories, call >>

Known == DOMAIN contents
With(n, d) == [m \in Known \cup {n} |-> IF m = n THEN d ELSE contents[m]]
HasRoomFor(n) == n \in Known \/ Cardinality(Known) < Capacity

Init ==
  /\ directories = {RootDir, PackagesDir}
  /\ contents = [n \in directories |-> << >>]
  /\ call.op = "none"

Create ==
  /\ call'.op \in {"file", "directory"}
  /\ call'.name \in Names \ Known /\ HasRoomFor(call'.name)
  /\ contents' = With(call'.name, << >>)
  /\ directories' = IF call'.op = "directory" THEN directories \cup {call'.name} ELSE directories

Write ==
  /\ call'.op = "write"
  /\ call'.name \in Names \ directories /\ HasRoomFor(call'.name)
  /\ call'.bytes \in Seq(Bytes)
  /\ contents' = With(call'.name, call'.bytes)
  /\ UNCHANGED directories

Delete ==
  /\ call'.op = "delete" /\ call'.name \in Known
  /\ contents' = [m \in Known \ {call'.name} |-> contents[m]]
  /\ directories' = directories \ {call'.name}

Next == Create \/ Write \/ Delete

Spec == Init /\ [][Next]_vars
=============================================================================
