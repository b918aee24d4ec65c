---------------------------- MODULE MCFileSystem ----------------------------
(***************************************************************************)
(* Small tables that begin with the two directories made at boot.  rm      *)
(* deletes these as it does any other entry, and touch may then make a     *)
(* file of the same name: every slot can become a file, and again another. *)
(***************************************************************************)
EXTENDS FileSystem, TLC

(* File names are interchangeable, and so are byte values.                   *)
Symmetry == Permutations(FileNames) \cup Permutations(Bytes)

(* What can be read later.  The fields of a slot that is not in use never    *)
(* are: fs_create sets them all.  Nor are bytes outside all extents: a write *)
(* stores every byte of the extent it leaves.  And no step reads call.       *)
Owned == UNION {Extent(files[i]) : i \in Used}

Readable ==
  << [i \in Used |-> files[i]], num_files, next_data_offset, [k \in Owned |-> data[k]], spilled >>
=============================================================================
