-------------------------------- MODULE Paths --------------------------------
(***************************************************************************)
(* Paths in UwUOS: construct_path and the commands cd, ls, mkdir, touch    *)
(* and rm of kernel/kernel.c over fs_normalize_path, fs_list and the file  *)
(* table of kernel/fs.c.  A path is a sequence of slashes and of names;    *)
(* only names that are a whole argument can mean the parent directory.  A  *)
(* definition whose name extends the next one's is a mutation of it that a *)
(* run must refute.                                                        *)
(***************************************************************************)
EXTENDS Integers, FiniteSets, SequencesExt

CONSTANTS Args,             \* what the user types after a command
          FS_MAX_FILES,
          LIST_SIZE,        \* sizeof(buffer) of ls, in names and slashes
          MaxLength         \* bound: the longest name that is made

SLASH == "/"
Root == << SLASH >>
PackagesDir == << SLASH, "packages", SLASH >>

(* What paths are made of, and that a name is as long as it can be: another  *)
(* one comes only after a slash.                                             *)
Pieces == Range(PackagesDir) \cup UNION {Range(arg) : arg \in Args}
Separated(path) == \A i \in 1..(Len(path) - 1) : path[i] = SLASH \/ path[i + 1] = SLASH

ASSUME PathsAssumption ==
  /\ FS_MAX_FILES \in Nat \ {0, 1} /\ LIST_SIZE \in Nat /\ MaxLength \in Nat
  /\ \A arg \in Args : arg \in Seq(Pieces) \ {<< >>} /\ Separated(arg)

VARIABLES files, current_path

vars == << files, current_path >>

Slots == 1..FS_MAX_FILES
Free == [name |-> << >>, is_directory |-> FALSE]
File(name, dir) == [name |-> name, is_directory |-> dir]

Init ==
  /\ files = [i \in Slots |-> IF i = 1 THEN File(Root, TRUE)
                              ELSE IF i = 2 THEN File(PackagesDir, TRUE) ELSE Free]
  /\ current_path = Root

Used == {i \in Slots : files[i] # Free}
Names == {files[i].name : i \in Used}
Slot(name) == CHOOSE i \in Used : files[i].name = name

-----------------------------------------------------------------------------
(* Paths *)

WithSlash(path) == IF Last(path) = SLASH THEN path ELSE Append(path, SLASH)
WithoutSlash(path) == IF Last(path) = SLASH /\ Len(path) > 1 THEN Front(path) ELSE path

(* Everything up to the last slash that is not the path's end. *)
ToLastSlash(path) ==
  SubSeq(path, 1, CHOOSE n \in 1..Len(path) :
                    /\ n = 1 \/ path[n] = SLASH
                    /\ \A m \in (n + 1)..Len(path) : path[m] # SLASH)

(* For the parent the code appends a slash to one that is there. *)
ParentPathSelf(path) == path
ParentPath(path) ==
  IF Len(path) > 1 THEN Append(ToLastSlash(WithoutSlash(path)), SLASH) ELSE Root

construct_path(arg) ==
  IF Head(arg) = SLASH THEN arg
  ELSE IF arg = << ".." >> THEN ParentPath(current_path)
  ELSE IF arg = << "." >> THEN current_path
  ELSE WithSlash(current_path) \o arg

(* The path without the positions of a set. *)
Without(path, dropped) ==
  LET kept[n \in 0..Len(path)] ==
        IF n = 0 THEN << >>
        ELSE IF n \in dropped THEN kept[n - 1] ELSE Append(kept[n - 1], path[n])
  IN  kept[Len(path)]

SqueezedAll(path) == path
Squeezed(path) ==
  Without(path, {n \in 2..Len(path) : path[n] = SLASH /\ path[n - 1] = SLASH})

fs_normalize_path(path) == WithoutSlash(Squeezed(path))

(* cd and mkdir *)
DirPath(arg) == WithSlash(fs_normalize_path(construct_path(arg)))

-----------------------------------------------------------------------------
(* The commands *)

fs_create(name, dir) ==
  /\ Used # Slots /\ name \notin Names /\ Len(name) <= MaxLength
  /\ \E i \in Slots \ Used :
       /\ \A j \in Slots \ Used : i <= j
       /\ files' = [files EXCEPT ![i] = File(name, dir)]

IsDirectory(path) == path \in Names /\ files[Slot(path)].is_directory

Cd(arg) ==
  /\ IsDirectory(DirPath(arg))
  /\ current_path' = DirPath(arg)
  /\ UNCHANGED files

Mkdir(arg) == fs_create(DirPath(arg), TRUE) /\ UNCHANGED current_path
Touch(arg) == fs_create(construct_path(arg), FALSE) /\ UNCHANGED current_path

(* Also a directory that is not empty, or the current one. *)
Rm(arg) ==
  /\ construct_path(arg) \in Names
  /\ files' = [files EXCEPT ![Slot(construct_path(arg))] = Free]
  /\ UNCHANGED current_path

Next == \E arg \in Args : Cd(arg) \/ Mkdir(arg) \/ Touch(arg) \/ Rm(arg)

Spec == Init /\ [][Next]_vars

-----------------------------------------------------------------------------
(* ls: fs_list of the current directory.                                     *)

RelativeTo(path, name) ==
  LET rel == SubSeq(name, Len(path) + 1, Len(name))
  IN  IF Len(path) > 1 /\ Head(rel) = SLASH THEN Tail(rel) ELSE rel

Slashes(rel) == Cardinality({i \in 1..Len(rel) : rel[i] = SLASH})

ShownAnyDepth(path, name) == IsPrefix(path, name) /\ name # path
ShownIn(path, name) ==
  /\ IsPrefix(path, name) /\ name # path
  /\ LET rel == RelativeTo(path, name)
     IN  Slashes(rel) = 0 \/ (Slashes(rel) = 1 /\ Last(rel) = SLASH)

(* The lines in the buffer, slot by slot, their length, and whether one did  *)
(* not fit, which ends the loop.                                             *)
Nothing == [lines |-> {}, pos |-> 0, over |-> FALSE]
Listed(b, rel) ==
  IF b.pos + Len(rel) + 2 >= LIST_SIZE THEN [b EXCEPT !.over = TRUE]
  ELSE [lines |-> b.lines \cup {rel}, pos |-> b.pos + Len(rel) + 1, over |-> FALSE]

fs_list(path) ==
  LET listed[i \in 0..FS_MAX_FILES] ==
        IF i = 0 THEN Nothing
        ELSE IF ShownIn(path, files[i].name) /\ ~listed[i - 1].over
        THEN Listed(listed[i - 1], RelativeTo(path, files[i].name))
        ELSE listed[i - 1]
  IN  listed[FS_MAX_FILES]

-----------------------------------------------------------------------------
(* Properties *)

(* The names on the way, which is what a path means to a user.               *)
Components(path) == Without(path, {n \in 1..Len(path) : path[n] = SLASH})

Meaning(arg) ==
  IF Head(arg) = SLASH THEN Components(arg)
  ELSE IF arg = << ".." >>
       THEN IF Components(current_path) = << >> THEN << >> ELSE Front(Components(current_path))
  ELSE IF arg = << "." >> THEN Components(current_path)
  ELSE Components(current_path) \o Components(arg)

Directories == {Components(files[i].name) : i \in {j \in Used : files[j].is_directory}}

Normal(path) ==
  /\ path # << >> /\ Head(path) = SLASH /\ Last(path) = SLASH
  /\ \A i \in 1..(Len(path) - 1) : ~(path[i] = SLASH /\ path[i + 1] = SLASH)

(* Paths are compared as texts, so each directory has one text only, and the *)
(* current path is one of these texts, after any walk through "..", "." and  *)
(* doubled slashes.                                                          *)
OneTextPerDirectory ==
  /\ Normal(current_path)
  /\ \A i \in Used : files[i].is_directory => Normal(files[i].name)

(* cd goes to the directory its argument means, whenever there is one, and   *)
(* mkdir makes that directory.                                               *)
CommandsMeanPaths ==
  [][/\ \A arg \in Args : Cd(arg) => Components(current_path') = Meaning(arg)
     /\ \A arg \in Args : (Mkdir(arg) /\ ~Touch(arg)) => Meaning(arg) \in Directories'
     /\ \A arg \in Args : Meaning(arg) \in Directories => IsDirectory(DirPath(arg))]_vars

(* Of the names without doubled slashes (touch makes others too) ls shows    *)
(* those directly in the current directory and no other, until its buffer is *)
(* full.                                                                     *)
IsChild(path, name) ==
  Components(name) # << >> /\ Front(Components(name)) = Components(path)

LsShowsChildren ==
  LET shown == fs_list(current_path)
  IN  \A i \in Used :
        LET name == files[i].name
        IN  Normal(WithSlash(name)) =>
              /\ ShownIn(current_path, name) => IsChild(current_path, name)
              /\ IsChild(current_path, name) =>
                   shown.over \/ RelativeTo(current_path, name) \in shown.lines
=============================================================================
