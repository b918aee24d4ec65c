----------------------------- MODULE FileSystem -----------------------------
(***************************************************************************)
(* The in-memory file system of UwUOS (kernel/fs.c) under the shell        *)
(* commands touch, mkdir, rm and write (kernel/kernel.c).  A file's bytes  *)
(* lie at its offset in one data array; the offset is the watermark        *)
(* next_data_offset at the time of the file's creation, and only a write   *)
(* raises the watermark.  Nothing looks whether the bytes still lie in the *)
(* array: a write behind it changes other memory, after which C promises   *)
(* nothing, and the model stops there (spilled).  Names stand for absolute *)
(* paths, directories' end in a slash.  A definition whose name extends    *)
(* the next one's is a mutation of it that a run must refute.              *)
(***************************************************************************)
EXTENDS Integers, Sequences, FiniteSets

CONSTANTS FS_MAX_FILES, FS_MAX_FILESIZE,
          FileNames, DirNames, RootDir, PackagesDir,
          Bytes, NoByte,    \* what is written; the zeros of the fresh array
          Careful           \* TRUE: the user keeps to the writes CarefulWrite allows

ASSUME FileSystemAssumption ==
  /\ FS_MAX_FILES \in Nat \ {0, 1} /\ FS_MAX_FILESIZE \in Nat \ {0}
  /\ {RootDir, PackagesDir} \subseteq DirNames /\ RootDir # PackagesDir
  /\ NoByte \notin Bytes
  /\ Careful \in BOOLEAN

Names == FileNames \cup DirNames
Slots == 0..(FS_MAX_FILES - 1)
DATA_SIZE == FS_MAX_FILES * FS_MAX_FILESIZE

VARIABLES files, num_files, next_data_offset, data,
          spilled,      \* a write went behind the data array
          call          \* for IsFileStore: the last call that was carried out

vars == << files, num_files, next_data_offset, data, spilled, call >>

File == [name : Names, size : 0..FS_MAX_FILESIZE, offset : 0..DATA_SIZE,
         is_directory : BOOLEAN, in_use : BOOLEAN]

Called(op, name, bytes) == [op |-> op, name |-> name, bytes |-> bytes]

(* fs_init, which makes the root directory, and kernel_main's "/packages/". *)
Init ==
  /\ files = [i \in Slots |-> [name |-> IF i = 1 THEN PackagesDir ELSE RootDir,
                               size |-> 0, offset |-> 0,
                               is_directory |-> i \in {0, 1}, in_use |-> i \in {0, 1}]]
  /\ num_files = 2 /\ next_data_offset = 0
  /\ data = [k \in 0..(DATA_SIZE - 1) |-> NoByte]
  /\ spilled = FALSE /\ call = Called("none", RootDir, << >>)

Used == {i \in Slots : files[i].in_use}
fs_find(name) == {i \in Used : files[i].name = name}
fs_exists(name) == fs_find(name) # {}
First(S) == CHOOSE i \in S : \A j \in S : i <= j

FirstFree == First(Slots \ Used)

Entry(name, dir, size) ==
  [name |-> name, size |-> size, offset |-> next_data_offset,
   is_directory |-> dir, in_use |-> TRUE]

(* Every call starts here: the model says nothing of a memory written over. *)
Intact == ~spilled

CanCreate(name) == num_files < FS_MAX_FILES /\ ~fs_exists(name) /\ Used # Slots

(* fs_create: a free slot, at the watermark, which it does not raise. *)
fs_create(name, dir) ==
  /\ Intact
  /\ CanCreate(name)
  /\ files' = [files EXCEPT ![FirstFree] = Entry(name, dir, 0)]
  /\ num_files' = num_files + 1
  /\ call' = Called(IF dir THEN "directory" ELSE "file", name, << >>)
  /\ UNCHANGED << next_data_offset, data, spilled >>

(* Where fs_write puts the bytes of an old or a new file, and their end. *)
Start(name) == IF fs_exists(name) THEN files[First(fs_find(name))].offset
               ELSE next_data_offset

InArray(end) == end <= DATA_SIZE

(* bytes stored at offset, and without the last one *)
StoreAtShort(offset, bytes) ==
  [k \in DOMAIN data |-> IF k \in offset..(offset + Len(bytes) - 2)
                         THEN bytes[k - offset + 1] ELSE data[k]]

StoreAt(offset, bytes) ==
  [k \in DOMAIN data |-> IF k \in offset..(offset + Len(bytes) - 1)
                         THEN bytes[k - offset + 1] ELSE data[k]]

RaisedNot(end) == next_data_offset
Raised(end) == IF end > next_data_offset THEN end ELSE next_data_offset

(* What keeps extents apart: a file grows only while it ends at the          *)
(* watermark.                                                                *)
CarefulWrite(name, size) ==
  fs_exists(name) =>
    LET f == files[First(fs_find(name))]
    IN  size <= f.size \/ f.offset + f.size = next_data_offset

(* fs_write to a file that exists: at its offset, whatever its size was. *)
WriteOld(name, bytes) ==
  LET i == First(fs_find(name))
      end == files[i].offset + Len(bytes)
  IN  /\ fs_exists(name) /\ ~files[i].is_directory
      /\ InArray(end)
      /\ data' = StoreAt(files[i].offset, bytes)
      /\ files' = [files EXCEPT ![i].size = Len(bytes)]
      /\ next_data_offset' = Raised(end)
      /\ UNCHANGED << num_files, spilled >>

(* fs_write creates a file that is missing, as fs_create does, and fills it. *)
WriteNew(name, bytes) ==
  LET end == next_data_offset + Len(bytes)
  IN  /\ CanCreate(name)
      /\ InArray(end)
      /\ data' = StoreAt(next_data_offset, bytes)
      /\ files' = [files EXCEPT ![FirstFree] = Entry(name, FALSE, Len(bytes))]
      /\ next_data_offset' = Raised(end)
      /\ num_files' = num_files + 1
      /\ UNCHANGED spilled

(* Neither case looks at the end of the array.  What lies behind it is not   *)
(* part of the model, which ends with the table as it was before this write. *)
WriteBehind(name, bytes) ==
  /\ IF fs_exists(name) THEN ~files[First(fs_find(name))].is_directory ELSE CanCreate(name)
  /\ ~InArray(Start(name) + Len(bytes))
  /\ spilled' = TRUE
  /\ UNCHANGED << files, num_files, next_data_offset, data, call >>

Stores(name, bytes) ==
  /\ WriteOld(name, bytes) \/ WriteNew(name, bytes)
  /\ call' = Called("write", name, bytes)

fs_writeAnySize(name, bytes) ==
  /\ Intact
  /\ Careful => CarefulWrite(name, Len(bytes))
  /\ Stores(name, bytes) \/ WriteBehind(name, bytes)

fs_write(name, bytes) ==
  /\ Intact
  /\ Len(bytes) <= FS_MAX_FILESIZE
  /\ Careful => CarefulWrite(name, Len(bytes))
  /\ Stores(name, bytes) \/ WriteBehind(name, bytes)

DeleteKeepsCount(name) ==
  /\ Intact /\ fs_exists(name)
  /\ files' = [files EXCEPT ![First(fs_find(name))].in_use = FALSE]
  /\ call' = Called("delete", name, << >>)
  /\ UNCHANGED << num_files, next_data_offset, data, spilled >>

(* fs_delete: the slot is free again, the bytes and the watermark stay. *)
fs_delete(name) ==
  /\ Intact /\ fs_exists(name)
  /\ files' = [files EXCEPT ![First(fs_find(name))].in_use = FALSE]
  /\ num_files' = num_files - 1
  /\ call' = Called("delete", name, << >>)
  /\ UNCHANGED << next_data_offset, data, spilled >>

-----------------------------------------------------------------------------
(* The shell's commands. *)

Touch(name) == fs_create(name, FALSE)
Mkdir(name) == fs_create(name, TRUE)

Contents == UNION {[1..n -> Bytes] : n \in 0..(FS_MAX_FILESIZE + 1)}

Next ==
  \/ \E name \in Names : Touch(name) \/ fs_delete(name)
  \/ \E name \in DirNames : Mkdir(name)
  \/ \E name \in Names, bytes \in Contents : fs_write(name, bytes)

Spec == Init /\ [][Next]_vars

(* The same for a user who never types rm.                                   *)
KeepingSpec == Init /\ [][Next /\ call'.op # "delete"]_vars

-----------------------------------------------------------------------------
(* Properties *)

InBounds ==
  /\ files \in [Slots -> File]
  /\ num_files \in 0..FS_MAX_FILES
  /\ next_data_offset \in 0..DATA_SIZE
  /\ data \in [0..(DATA_SIZE - 1) -> Bytes \cup {NoByte}]

(* Until a write goes behind the array, sizes keep to FS_MAX_FILESIZE, every *)
(* offset and the watermark lie in the array, and the count in the table.    *)
TypeOK == spilled \in BOOLEAN /\ (~spilled => InBounds)

(* What the array's size, FS_MAX_FILES times FS_MAX_FILESIZE, is to ensure:  *)
(* a write of at most FS_MAX_FILESIZE bytes lies in it.  That is so only     *)
(* until a file is removed (KeepingSpec), because fs_delete gives back no    *)
(* bytes and fs_write does not look.                                         *)
StaysInArray == ~spilled

(* The counter that refuses a 65th file agrees with the table.               *)
CountIsRight == num_files = Cardinality(Used)

(* Path lookup is unambiguous, although slots are reused and keep old names. *)
UniqueNames ==
  \A i, j \in Used : files[i].name = files[j].name => i = j

(* Every extent lies below the watermark, so a new file never starts inside  *)
(* an old one; directories own no bytes.                                     *)
ExtentsBelowWatermark ==
  \A i \in Used : /\ files[i].offset <= next_data_offset
                  /\ files[i].offset + files[i].size <= next_data_offset
                  /\ files[i].is_directory => files[i].size = 0

(* The table is sound: what fs_create, fs_write and fs_delete each rely on,  *)
(* the count, the first match of fs_find and the watermark, never comes      *)
(* apart over their interleavings, with slots reused and limits hit, until   *)
(* a write goes behind the array.                                            *)
TableIsSound == ~spilled => CountIsRight /\ UniqueNames /\ ExtentsBelowWatermark

Extent(f) == f.offset..(f.offset + f.size - 1)

(* Under careful use no byte of the array belongs to two files.              *)
ExtentsDisjoint ==
  \A i, j \in Used : i # j => Extent(files[i]) \cap Extent(files[j]) = {}

-----------------------------------------------------------------------------

\* What cat shows of a file (its buffer of 4096 bytes holds whatever write
\* stores), and the store the user sees.
Shown(f) == [k \in 1..f.size |-> data[f.offset + k - 1]]

ShownContents ==
  [n \in {files[i].name : i \in Used} |-> Shown(files[First(fs_find(n))])]

Store == INSTANCE FileStore WITH
           Capacity <- FS_MAX_FILES,
           contents <- ShownContents,
           directories <- {files[i].name : i \in {j \in Used : files[j].is_directory}}

(* Each file shows the bytes of the last fs_write to it, whatever is made,   *)
(* written and deleted in between; a write to one changes no other.          *)
IsFileStore == Store!Spec
=============================================================================
