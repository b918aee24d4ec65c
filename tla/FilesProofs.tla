----------------------------- MODULE FilesProofs -----------------------------
(***************************************************************************)
(* Proofs about FileSystem and about Packages, which extends it.  The file *)
(* table stays consistent, and careful writes keep files apart, for every  *)
(* table size, file size and set of names; what an install keeps is what   *)
(* its answers said, and it leaves other packages alone, for every set of  *)
(* packages and versions and every buffer size.                            *)
(***************************************************************************)
EXTENDS Packages, FiniteSetTheorems, SequenceTheorems, WellFoundedInduction,
        TLAPS

-----------------------------------------------------------------------------
(* The first match of the code's loops over the table. *)

Less == {ss \in Nat \X Nat : ss[1] < ss[2]}

LEMMA FirstSlot ==
  ASSUME NEW S \in SUBSET Slots, S # {}
  PROVE  First(S) \in S
<1>1. OpToRel(<, Nat) = Less
  BY Zenon DEF OpToRel, Less
<1>2. IsWellFoundedOn(Less, Nat)
  BY <1>1, NatLessThanWellFounded, Zenon
<1>5. S \subseteq Nat
  BY FileSystemAssumption DEF Slots
<1>3. PICK x \in S : \A y \in S : ~(<<y, x>> \in Less)
  BY <1>2, <1>5, WFMin
<1>4. ASSUME NEW y \in S PROVE x <= y
  <2>1. x \in Nat /\ y \in Nat /\ <<y, x>> \notin Less
    BY <1>3, <1>5
  <2>2. y < x => <<y, x>> \in Less
    BY <2>1, Zenon DEF Less
  <2> QED BY <2>1, <2>2
<1> QED BY <1>4 DEF First

LEMMA Sizes ==
  /\ DATA_SIZE \in Nat
  /\ FS_MAX_FILES \in Nat /\ FS_MAX_FILESIZE \in Nat
BY FileSystemAssumption DEF DATA_SIZE

LEMMA SlotsFinite == IsFiniteSet(Slots) /\ Cardinality(Slots) = FS_MAX_FILES
<1>1. FS_MAX_FILES \in Nat /\ FS_MAX_FILES # 0
  BY FileSystemAssumption
<1> QED BY <1>1, FS_Interval DEF Slots

LEMMA UsedFinite == IsFiniteSet(Used) /\ Used \subseteq Slots
<1>1. Used \subseteq Slots
  BY DEF Used
<1> QED BY <1>1, SlotsFinite, FS_Subset

(* fs_find's slot is in use and has the name. *)
LEMMA FindSlot ==
  ASSUME NEW name, fs_exists(name)
  PROVE  /\ First(fs_find(name)) \in Used /\ First(fs_find(name)) \in Slots
         /\ files[First(fs_find(name))].name = name
BY FirstSlot DEF fs_exists, fs_find, Used

(* Storing bytes keeps the type of the array. *)
LEMMA StoreType ==
  ASSUME data \in [0..(DATA_SIZE - 1) -> Bytes \cup {NoByte}], NEW bytes \in Contents,
         NEW offset \in Nat
  PROVE  /\ StoreAt(offset, bytes) \in [0..(DATA_SIZE - 1) -> Bytes \cup {NoByte}]
         /\ Len(bytes) \in Nat
<1>1. PICK n \in 0..(FS_MAX_FILESIZE + 1) : bytes \in [1..n -> Bytes]
  BY DEF Contents
<1>2. n \in Nat /\ Len(bytes) = n
  BY <1>1, Sizes
<1>3. ASSUME NEW k \in DOMAIN data, k \in offset..(offset + n - 1)
      PROVE  bytes[k - offset + 1] \in Bytes
  BY <1>1, <1>2, <1>3, Sizes
<1> QED BY <1>2, <1>3 DEF StoreAt

-----------------------------------------------------------------------------
(* The inductive invariant. *)

Sound == InBounds /\ CountIsRight /\ UniqueNames /\ ExtentsBelowWatermark

IInv == Sound /\ spilled \in BOOLEAN /\ (Careful => ExtentsDisjoint)

LEMMA IInvInit == Init => IInv
<1> SUFFICES ASSUME Init PROVE IInv
  OBVIOUS
<1> DEFINE u(i) == [name |-> IF i = 1 THEN PackagesDir ELSE RootDir, size |-> 0,
                    offset |-> 0, is_directory |-> i \in {0, 1}, in_use |-> i \in {0, 1}]
<1>1. \A i \in Slots : u(i) \in File
  BY FileSystemAssumption, Sizes DEF File, Names
<1>2. files = [i \in Slots |-> u(i)]
  BY DEF Init
<1>3. 0 \in Slots /\ 1 \in Slots /\ 0 # 1
  BY FileSystemAssumption DEF Slots
<1>4. \A i \in Slots : /\ files[i].name = IF i = 1 THEN PackagesDir ELSE RootDir
                       /\ files[i].size = 0 /\ files[i].offset = 0
                       /\ files[i].in_use = (i \in {0, 1})
  BY <1>2
<1>5. files \in [Slots -> File]
  BY <1>1, <1>2
<1> HIDE DEF u
<1>6. Used = {0} \cup {1}
  BY <1>3, <1>4 DEF Used
<1>7. Cardinality(Used) = 2
  <2>1. IsFiniteSet({0}) /\ Cardinality({0}) = 1
    BY FS_Singleton, Zenon
  <2>2. Cardinality({0} \cup {1}) = Cardinality({0}) + 1
    BY <2>1, FS_AddElement
  <2> QED BY <1>6, <2>1, <2>2
<1>8. InBounds
  BY <1>5, FileSystemAssumption, Sizes DEF Init, InBounds
<1>9. UniqueNames /\ ExtentsBelowWatermark
  BY <1>3, <1>4, <1>6, FileSystemAssumption DEF UniqueNames, ExtentsBelowWatermark, Init
<1>10. ExtentsDisjoint
  BY <1>3, <1>4, <1>6 DEF ExtentsDisjoint, Extent
<1> QED BY <1>7, <1>8, <1>9, <1>10 DEF IInv, Sound, CountIsRight, Init

(* A free slot gets an entry at the watermark. *)
LEMMA NewEntry ==
  ASSUME Sound, NEW name \in Names, NEW dir \in BOOLEAN, NEW size \in 0..FS_MAX_FILESIZE,
         CanCreate(name), dir => size = 0,
         files' = [files EXCEPT ![FirstFree] = Entry(name, dir, size)],
         num_files' = num_files + 1,
         next_data_offset' \in 0..DATA_SIZE, next_data_offset + size <= next_data_offset',
         data' \in [0..(DATA_SIZE - 1) -> Bytes \cup {NoByte}]
  PROVE  Sound' /\ (ExtentsDisjoint => ExtentsDisjoint')
<1> DEFINE i == FirstFree
           u == Entry(name, dir, size)
<1>1. i \in Slots /\ i \notin Used
  <2>1. Slots \ Used # {} /\ Slots \ Used \in SUBSET Slots
    BY UsedFinite DEF CanCreate
  <2>2. First(Slots \ Used) \in Slots \ Used
    BY <2>1, FirstSlot
  <2> QED BY <2>2 DEF FirstFree
<1>2. /\ u \in File /\ u.name = name /\ u.size = size /\ u.offset = next_data_offset
      /\ u.in_use /\ u.is_directory = dir
  BY DEF Sound, InBounds, Entry, File
<1>3. files' = [files EXCEPT ![i] = u] /\ files \in [Slots -> File]
  BY DEF Sound, InBounds
<1> HIDE DEF i, u
<1>4. /\ files' \in [Slots -> File] /\ files'[i] = u
      /\ \A j \in Slots \ {i} : files'[j] = files[j]
  BY <1>1, <1>2, <1>3
<1>5. Used' = Used \cup {i} /\ \A j \in Used : j # i /\ files'[j] = files[j] /\ j \in Slots
  BY <1>1, <1>2, <1>4 DEF Used
<1>6. num_files' \in 0..FS_MAX_FILES
  BY Sizes DEF Sound, InBounds, CanCreate
<1>7. InBounds'
  BY <1>4, <1>6 DEF InBounds
<1>8. CountIsRight'
  BY <1>1, <1>5, UsedFinite, FS_AddElement DEF Sound, CountIsRight
<1>9. UniqueNames'
  <2>1. \A j \in Used : files[j].name # name
    BY DEF CanCreate, fs_exists, fs_find
  <2> QED BY <1>2, <1>4, <1>5, <2>1 DEF Sound, UniqueNames
<1>10. \A j \in Used : /\ files[j].offset \in Nat /\ files[j].size \in Nat
                       /\ files[j].offset <= next_data_offset
                       /\ files[j].offset + files[j].size <= next_data_offset
                       /\ files[j].is_directory => files[j].size = 0
  BY <1>3, <1>5, Sizes DEF File, Sound, ExtentsBelowWatermark
<1>11. next_data_offset \in Nat /\ size \in Nat /\ next_data_offset' \in Nat
  BY Sizes DEF Sound, InBounds
<1>12. ExtentsBelowWatermark'
  BY <1>2, <1>4, <1>5, <1>10, <1>11 DEF ExtentsBelowWatermark
<1>13. ASSUME ExtentsDisjoint PROVE ExtentsDisjoint'
  <2>1. \A j \in Used : Extent(files[j]) \cap Extent(u) = {}
    BY <1>2, <1>10, <1>11 DEF Extent
  <2>2. \A j, k \in Used : j # k => Extent(files[j]) \cap Extent(files[k]) = {}
    BY <1>13 DEF ExtentsDisjoint
  <2>3. \A j, k \in Used' : j # k => Extent(files'[j]) \cap Extent(files'[k]) = {}
    BY <1>4, <1>5, <2>1, <2>2
  <2> QED BY <2>3 DEF ExtentsDisjoint, Extent
<1> QED BY <1>7, <1>8, <1>9, <1>12, <1>13 DEF Sound

(* A file keeps its offset and gets a new size. *)
LEMMA Resize ==
  ASSUME Sound, NEW i \in Used, NEW size \in 0..FS_MAX_FILESIZE,
         ~files[i].is_directory,
         files' = [files EXCEPT ![i].size = size], num_files' = num_files,
         next_data_offset' \in 0..DATA_SIZE, next_data_offset <= next_data_offset',
         files[i].offset + size <= next_data_offset',
         data' \in [0..(DATA_SIZE - 1) -> Bytes \cup {NoByte}]
  PROVE  /\ Sound'
         /\ ExtentsDisjoint /\ (\/ size <= files[i].size
                                \/ files[i].offset + files[i].size = next_data_offset)
              => ExtentsDisjoint'
<1> DEFINE u == [files[i] EXCEPT !.size = size]
<1>1. i \in Slots /\ files \in [Slots -> File]
  BY DEF Sound, InBounds, Used
<1>2. /\ u \in File /\ u.name = files[i].name /\ u.size = size /\ u.offset = files[i].offset
      /\ u.in_use = files[i].in_use /\ u.is_directory = files[i].is_directory
  BY <1>1 DEF File
<1>3. files' = [files EXCEPT ![i] = u]
  BY <1>1
<1> HIDE DEF u
<1>4. /\ files' \in [Slots -> File] /\ files'[i] = u
      /\ \A j \in Slots \ {i} : files'[j] = files[j]
  BY <1>1, <1>2, <1>3
<1>5. \A j \in Slots : /\ files'[j].name = files[j].name /\ files'[j].offset = files[j].offset
                       /\ files'[j].in_use = files[j].in_use
                       /\ files'[j].is_directory = files[j].is_directory
                       /\ j # i => files'[j].size = files[j].size
  BY <1>2, <1>4
<1>6. Used' = Used /\ Used \subseteq Slots
  BY <1>5 DEF Used
<1>7. InBounds'
  BY <1>4 DEF Sound, InBounds
<1>8. CountIsRight' /\ UniqueNames'
  BY <1>5, <1>6 DEF Sound, CountIsRight, UniqueNames
<1>9. \A j \in Used : /\ files[j].offset \in Nat /\ files[j].size \in Nat
                      /\ files[j].offset <= next_data_offset
                      /\ files[j].offset + files[j].size <= next_data_offset
                      /\ files[j].is_directory => files[j].size = 0
  BY <1>1, <1>6, Sizes DEF File, Sound, ExtentsBelowWatermark
<1>10. next_data_offset \in Nat /\ size \in Nat /\ next_data_offset' \in Nat
  BY Sizes DEF Sound, InBounds
<1>11. \A j \in Used : /\ files'[j].offset <= next_data_offset'
                       /\ files'[j].offset + files'[j].size <= next_data_offset'
                       /\ files'[j].is_directory => files'[j].size = 0
  <2> TAKE j \in Used
  <2>1. CASE j = i
    BY <2>1, <1>2, <1>4, <1>9, <1>10
  <2>2. CASE j # i
    BY <2>2, <1>5, <1>6, <1>9, <1>10
  <2> QED BY <2>1, <2>2
<1>12. ExtentsBelowWatermark'
  BY <1>6, <1>11 DEF ExtentsBelowWatermark
<1>13. ASSUME ExtentsDisjoint,
              size <= files[i].size \/ files[i].offset + files[i].size = next_data_offset
       PROVE  ExtentsDisjoint'
  <2>1. ASSUME NEW j \in Used, j # i
        PROVE  Extent(files[j]) \cap Extent(u) = {}
    <3>1. Extent(files[j]) \cap Extent(files[i]) = {}
      BY <1>13, <2>1 DEF ExtentsDisjoint
    <3>2. CASE size <= files[i].size
      BY <1>2, <1>9, <1>10, <3>1, <3>2 DEF Extent
    <3>3. CASE files[i].offset + files[i].size = next_data_offset
      <4> SUFFICES ASSUME NEW b \in Extent(files[j]), b \in Extent(u)
                   PROVE  FALSE
        OBVIOUS
      <4>1. b \in Int /\ b < next_data_offset /\ b >= files[i].offset
        BY <1>2, <1>9, <1>10 DEF Extent
      <4>2. b \in Extent(files[i])
        BY <1>9, <3>3, <4>1 DEF Extent
      <4> QED BY <3>1, <4>2
    <3> QED BY <1>13, <3>2, <3>3
  <2>2. \A j, k \in Used : j # k => Extent(files[j]) \cap Extent(files[k]) = {}
    BY <1>13 DEF ExtentsDisjoint
  <2>3. \A j, k \in Used' : j # k => Extent(files'[j]) \cap Extent(files'[k]) = {}
    BY <1>4, <1>6, <2>1, <2>2
  <2> QED BY <2>3 DEF ExtentsDisjoint, Extent
<1> QED BY <1>7, <1>8, <1>12, <1>13 DEF Sound

LEMMA CreateStep ==
  ASSUME Sound, NEW name \in Names, NEW dir \in BOOLEAN, fs_create(name, dir)
  PROVE  Sound' /\ (ExtentsDisjoint => ExtentsDisjoint')
<1>1. 0 \in 0..FS_MAX_FILESIZE
  BY Sizes
<1>2. next_data_offset \in 0..DATA_SIZE /\ next_data_offset + 0 <= next_data_offset
  BY Sizes DEF Sound, InBounds
<1> QED BY <1>1, <1>2, NewEntry DEF fs_create, Sound, InBounds

LEMMA WriteOldStep ==
  ASSUME Sound, NEW name \in Names, NEW bytes \in Contents, Len(bytes) <= FS_MAX_FILESIZE,
         WriteOld(name, bytes)
  PROVE  /\ Sound'
         /\ ExtentsDisjoint /\ CarefulWrite(name, Len(bytes)) => ExtentsDisjoint'
<1> DEFINE i == First(fs_find(name))
<1>1. i \in Used /\ i \in Slots /\ fs_exists(name)
  BY FindSlot DEF WriteOld
<1>2. files[i].offset \in Nat /\ files[i].offset \in 0..DATA_SIZE /\ next_data_offset \in 0..DATA_SIZE
  BY <1>1, Sizes DEF Sound, InBounds, File
<1>3. /\ StoreAt(files[i].offset, bytes) \in [0..(DATA_SIZE - 1) -> Bytes \cup {NoByte}]
      /\ Len(bytes) \in 0..FS_MAX_FILESIZE
  BY <1>2, StoreType, Sizes DEF Sound, InBounds
<1>4. /\ ~files[i].is_directory /\ files' = [files EXCEPT ![i].size = Len(bytes)]
      /\ num_files' = num_files
      /\ data' = StoreAt(files[i].offset, bytes)
      /\ files[i].offset + Len(bytes) <= DATA_SIZE
      /\ next_data_offset' = Raised(files[i].offset + Len(bytes))
  BY DEF WriteOld, InArray
<1>5. CarefulWrite(name, Len(bytes)) => \/ Len(bytes) <= files[i].size
                                         \/ files[i].offset + files[i].size = next_data_offset
  BY <1>1 DEF CarefulWrite
<1> HIDE DEF i
<1>6. /\ next_data_offset' \in 0..DATA_SIZE /\ next_data_offset <= next_data_offset'
      /\ files[i].offset + Len(bytes) <= next_data_offset'
  BY <1>2, <1>3, <1>4, Sizes DEF Raised
<1> QED BY <1>1, <1>3, <1>4, <1>5, <1>6, Resize

LEMMA WriteNewStep ==
  ASSUME Sound, NEW name \in Names, NEW bytes \in Contents, Len(bytes) <= FS_MAX_FILESIZE,
         WriteNew(name, bytes)
  PROVE  Sound' /\ (ExtentsDisjoint => ExtentsDisjoint')
<1>1. next_data_offset \in Nat /\ next_data_offset \in 0..DATA_SIZE
  BY Sizes DEF Sound, InBounds
<1>2. /\ StoreAt(next_data_offset, bytes) \in [0..(DATA_SIZE - 1) -> Bytes \cup {NoByte}]
      /\ Len(bytes) \in 0..FS_MAX_FILESIZE
  BY <1>1, StoreType, Sizes DEF Sound, InBounds
<1>3. /\ CanCreate(name) /\ files' = [files EXCEPT ![FirstFree] = Entry(name, FALSE, Len(bytes))]
      /\ num_files' = num_files + 1
      /\ data' = StoreAt(next_data_offset, bytes)
      /\ next_data_offset + Len(bytes) <= DATA_SIZE
      /\ next_data_offset' = Raised(next_data_offset + Len(bytes))
  BY DEF WriteNew, InArray
<1>4. /\ next_data_offset' \in 0..DATA_SIZE
      /\ next_data_offset + Len(bytes) <= next_data_offset'
  BY <1>1, <1>2, <1>3, Sizes DEF Raised
<1> QED BY <1>2, <1>3, <1>4, NewEntry

(* A write is stored in an old or a new file, or ends behind the array.      *)
LEMMA WriteStep ==
  ASSUME Sound, NEW name \in Names, NEW bytes \in Contents, fs_write(name, bytes)
  PROVE  /\ Sound'
         /\ ExtentsDisjoint /\ CarefulWrite(name, Len(bytes)) => ExtentsDisjoint'
         /\ spilled' \in {spilled, TRUE}
<1>1. CASE Stores(name, bytes)
  <2>1. Len(bytes) <= FS_MAX_FILESIZE /\ ~spilled
    BY DEF fs_write, Intact
  <2>2. WriteOld(name, bytes) => /\ Sound'
                                 /\ ExtentsDisjoint /\ CarefulWrite(name, Len(bytes))
                                      => ExtentsDisjoint'
    BY <2>1, WriteOldStep
  <2>3. WriteNew(name, bytes) => Sound' /\ (ExtentsDisjoint => ExtentsDisjoint')
    BY <2>1, WriteNewStep
  <2>4. spilled' = spilled /\ (WriteOld(name, bytes) \/ WriteNew(name, bytes))
    BY <1>1 DEF Stores, WriteOld, WriteNew
  <2> QED BY <2>1, <2>2, <2>3, <2>4
<1>2. CASE WriteBehind(name, bytes)
  <2>1. UNCHANGED << files, num_files, next_data_offset, data >> /\ spilled' = TRUE
    BY <1>2 DEF WriteBehind
  <2>2. Sound' /\ (ExtentsDisjoint => ExtentsDisjoint')
    BY <2>1 DEF Sound, InBounds, CountIsRight, UniqueNames, ExtentsBelowWatermark,
       ExtentsDisjoint, Used
  <2> QED BY <2>1, <2>2
<1> QED BY <1>1, <1>2 DEF fs_write

LEMMA DeleteStep ==
  ASSUME Sound, NEW name \in Names, fs_delete(name)
  PROVE  Sound' /\ (ExtentsDisjoint => ExtentsDisjoint')
<1> DEFINE i == First(fs_find(name))
           u == [files[i] EXCEPT !.in_use = FALSE]
<1>1. i \in Used /\ i \in Slots /\ files \in [Slots -> File]
  BY FindSlot DEF fs_delete, Sound, InBounds
<1>2. u \in File /\ ~u.in_use
  BY <1>1 DEF File
<1>3. files' = [files EXCEPT ![i] = u] /\ num_files' = num_files - 1
  BY <1>1 DEF fs_delete
<1> HIDE DEF i, u
<1>4. /\ files' \in [Slots -> File] /\ files'[i] = u
      /\ \A j \in Slots \ {i} : files'[j] = files[j]
  BY <1>1, <1>2, <1>3
<1>5. Used' = Used \ {i} /\ \A j \in Used' : j \in Used /\ files'[j] = files[j]
  BY <1>1, <1>2, <1>4 DEF Used
<1>6. CountIsRight' /\ num_files' \in 0..FS_MAX_FILES
  <2>1. /\ Cardinality(Used') = Cardinality(Used) - 1
        /\ Cardinality(Used') \in Nat
    BY <1>1, <1>5, UsedFinite, FS_RemoveElement, FS_CardinalityType
  <2> QED BY <1>3, <2>1, Sizes DEF Sound, CountIsRight, InBounds
<1>7. InBounds'
  BY <1>4, <1>6 DEF Sound, InBounds, fs_delete
<1>8. UniqueNames' /\ ExtentsBelowWatermark'
  BY <1>5 DEF Sound, UniqueNames, ExtentsBelowWatermark, fs_delete
<1>9. ExtentsDisjoint => ExtentsDisjoint'
  BY <1>5 DEF ExtentsDisjoint, Extent
<1> QED BY <1>6, <1>7, <1>8, <1>9 DEF Sound

LEMMA IInvStep == IInv /\ [Next]_vars => IInv'
<1> SUFFICES ASSUME IInv, [Next]_vars PROVE IInv'
  OBVIOUS
<1>1. CASE UNCHANGED vars
  BY <1>1 DEF vars, IInv, Sound, InBounds, CountIsRight, UniqueNames, ExtentsBelowWatermark,
     ExtentsDisjoint, Used
<1>2. ASSUME NEW name \in Names, Touch(name) PROVE IInv'
  BY <1>2, CreateStep DEF Touch, fs_create, IInv
<1>3. ASSUME NEW name \in DirNames, Mkdir(name) PROVE IInv'
  <2>1. name \in Names
    BY DEF Names
  <2> QED BY <1>3, <2>1, CreateStep DEF Mkdir, fs_create, IInv
<1>4. ASSUME NEW name \in Names, fs_delete(name) PROVE IInv'
  BY <1>4, DeleteStep DEF fs_delete, IInv
<1>5. ASSUME NEW name \in Names, NEW bytes \in Contents, fs_write(name, bytes) PROVE IInv'
  <2>1. Careful => CarefulWrite(name, Len(bytes))
    BY <1>5 DEF fs_write
  <2> QED BY <1>5, <2>1, WriteStep DEF IInv
<1> QED BY <1>1, <1>2, <1>3, <1>4, <1>5 DEF Next

(* The table invariants hold together in every reachable state.              *)
THEOREM Invariance == Spec => []IInv
BY IInvInit, IInvStep, PTL DEF Spec

(* num_files, which refuses a file when the table is full, always agrees     *)
(* with the slots in use; no two entries in use have the same path; every    *)
(* file's bytes lie below the watermark, where no new file begins: all that  *)
(* for any user, until a write goes behind the data array.                   *)
THEOREM TableStaysSound == Spec => []TableIsSound
<1>1. IInv => TableIsSound
  BY DEF IInv, Sound, TableIsSound
<1> QED BY <1>1, Invariance, PTL

(* Whatever the user does, sizes and offsets stay in the array and the count *)
(* in the table up to the first write that ends behind the array: the only   *)
(* step that leaves it is that one, and the code does not refuse it.         *)
THEOREM TypeCorrect == Spec => []TypeOK
<1>1. IInv => TypeOK
  BY DEF IInv, Sound, TypeOK
<1> QED BY <1>1, Invariance, PTL

(* A user who lets a file grow only while it ends at the watermark never has *)
(* two files share a byte.                                                   *)
THEOREM CarefulFilesDisjoint == Careful /\ Spec => []ExtentsDisjoint
<1>1. Careful => (IInv => ExtentsDisjoint)
  BY DEF IInv
<1>2. ASSUME Careful PROVE Spec => []ExtentsDisjoint
  <2>1. IInv => ExtentsDisjoint
    BY <1>1, <1>2
  <2> QED BY <2>1, Invariance, PTL
<1> QED BY <1>2

-----------------------------------------------------------------------------
(* The array's size suffices for a user who removes nothing: each entry that *)
(* is made leaves room for FS_MAX_FILESIZE bytes of its own.                 *)

Room(n) == n * FS_MAX_FILESIZE

LEMMA RoomGrows ==
  ASSUME NEW n \in Nat
  PROVE  /\ Room(n) \in Nat /\ Room(n + 1) = Room(n) + FS_MAX_FILESIZE
         /\ n <= FS_MAX_FILES => Room(n) <= DATA_SIZE
<1>1. Room(n) \in Nat /\ Room(n + 1) = Room(n) + FS_MAX_FILESIZE
  BY Sizes DEF Room
<1>2. ASSUME n <= FS_MAX_FILES PROVE Room(n) <= DATA_SIZE
  <2>1. PICK d \in Nat : FS_MAX_FILES = n + d
    <3>1. FS_MAX_FILES - n \in Nat /\ FS_MAX_FILES = n + (FS_MAX_FILES - n)
      BY <1>2, Sizes
    <3> QED BY <3>1
  <2>2. (n + d) * FS_MAX_FILESIZE = n * FS_MAX_FILESIZE + d * FS_MAX_FILESIZE
        /\ d * FS_MAX_FILESIZE \in Nat /\ n * FS_MAX_FILESIZE \in Nat
    BY Sizes, SMT
  <2>3. DATA_SIZE = (n + d) * FS_MAX_FILESIZE
    BY <2>1 DEF DATA_SIZE
  <2> QED BY <2>2, <2>3 DEF Room
<1> QED BY <1>1, <1>2

(* Every entry began when there was at least one entry fewer.                *)
Roomy ==
  /\ ~spilled
  /\ num_files >= 1 /\ next_data_offset <= Room(num_files)
  /\ \A i \in Used : files[i].offset <= Room(num_files - 1)

LEMMA RoomyInit == Init => Roomy
<1> SUFFICES ASSUME Init PROVE Roomy
  OBVIOUS
<1>1. Room(2) \in Nat /\ Room(1) \in Nat
  BY RoomGrows
<1>2. num_files = 2 /\ next_data_offset = 0 /\ \A i \in Used : files[i].offset = 0
  BY DEF Init, Used
<1> QED BY <1>1, <1>2 DEF Roomy, Init

(* A new entry begins at the watermark, which has room for one entry more.   *)
LEMMA RoomyEntry ==
  ASSUME Sound, Roomy, NEW name, NEW dir, NEW size \in 0..FS_MAX_FILESIZE, CanCreate(name),
         files' = [files EXCEPT ![FirstFree] = Entry(name, dir, size)],
         num_files' = num_files + 1, ~spilled',
         next_data_offset' \in {next_data_offset, next_data_offset + size}
  PROVE  Roomy'
<1>1. /\ num_files \in Nat /\ num_files - 1 \in Nat /\ next_data_offset \in Nat
      /\ size \in Nat /\ size <= FS_MAX_FILESIZE
  BY Sizes DEF Sound, InBounds, Roomy
<1>2. /\ Room(num_files) \in Nat /\ Room(num_files - 1) \in Nat
      /\ Room(num_files + 1) = Room(num_files) + FS_MAX_FILESIZE
      /\ Room((num_files - 1) + 1) = Room(num_files - 1) + FS_MAX_FILESIZE
  BY <1>1, RoomGrows
<1>3. (num_files - 1) + 1 = num_files /\ num_files' - 1 = num_files
  BY <1>1
<1>4. Entry(name, dir, size).offset = next_data_offset
  BY DEF Entry
<1>5. ASSUME NEW i \in Used' PROVE files'[i].offset <= Room(num_files)
  <2>1. i \in Slots /\ files \in [Slots -> File]
    BY DEF Used, Sound, InBounds
  <2>2. CASE i = FirstFree
    BY <1>4, <2>1, <2>2 DEF Roomy
  <2>3. CASE i # FirstFree
    <3>1. files'[i] = files[i] /\ i \in Used /\ files[i].offset \in Nat
      BY <1>5, <2>1, <2>3, Sizes DEF Used, File
    <3>2. files[i].offset <= Room(num_files - 1)
      BY <3>1 DEF Roomy
    <3> QED BY <1>2, <1>3, <3>1, <3>2, Sizes
  <2> QED BY <2>2, <2>3
<1>6. next_data_offset' <= Room(num_files')
  BY <1>1, <1>2, Sizes DEF Roomy
<1> QED BY <1>1, <1>3, <1>5, <1>6 DEF Roomy

(* A write to an old file ends where the next entry's room begins, or before. *)
LEMMA RoomyWrite ==
  ASSUME Sound, Roomy, NEW name \in Names, NEW bytes \in Contents, fs_write(name, bytes)
  PROVE  Roomy'
<1>1. /\ num_files \in Nat /\ num_files - 1 \in Nat /\ next_data_offset \in Nat
      /\ num_files <= FS_MAX_FILES
  BY Sizes DEF Sound, InBounds, Roomy
<1>2. /\ Room(num_files) \in Nat /\ Room(num_files - 1) \in Nat
      /\ Room(num_files + 1) = Room(num_files) + FS_MAX_FILESIZE
      /\ Room((num_files - 1) + 1) = Room(num_files - 1) + FS_MAX_FILESIZE
      /\ (num_files - 1) + 1 = num_files /\ Room(num_files) <= DATA_SIZE
      /\ num_files < FS_MAX_FILES => Room(num_files + 1) <= DATA_SIZE
  BY <1>1, Sizes, RoomGrows
<1>3. Len(bytes) \in Nat /\ Len(bytes) <= FS_MAX_FILESIZE
  BY StoreType DEF fs_write, Sound, InBounds
<1>4. ASSUME fs_exists(name)
      PROVE  /\ First(fs_find(name)) \in Used
             /\ files[First(fs_find(name))].offset \in Nat
             /\ files[First(fs_find(name))].offset + Len(bytes) <= Room(num_files)
  <2>1. First(fs_find(name)) \in Used /\ First(fs_find(name)) \in Slots
    BY <1>4, FindSlot
  <2>2. files[First(fs_find(name))].offset \in Nat
    BY <2>1, Sizes DEF Sound, InBounds, File
  <2>3. files[First(fs_find(name))].offset <= Room(num_files - 1)
    BY <2>1 DEF Roomy
  <2> QED BY <1>2, <1>3, <2>1, <2>2, <2>3, Sizes
<1>5. ~WriteBehind(name, bytes)
  <2> SUFFICES ASSUME WriteBehind(name, bytes) PROVE FALSE
    OBVIOUS
  <2>1. CASE fs_exists(name)
    BY <1>1, <1>2, <1>3, <1>4, <2>1, Sizes DEF WriteBehind, Start, InArray
  <2>2. CASE ~fs_exists(name)
    <3>1. num_files < FS_MAX_FILES /\ next_data_offset <= Room(num_files)
      BY <2>2 DEF WriteBehind, CanCreate, Roomy
    <3> QED BY <1>1, <1>2, <1>3, <2>2, <3>1, Sizes DEF WriteBehind, Start, InArray
  <2> QED BY <2>1, <2>2
<1>6. CASE WriteOld(name, bytes)
  <2>1. /\ fs_exists(name) /\ num_files' = num_files /\ spilled' = spilled
        /\ files' = [files EXCEPT ![First(fs_find(name))].size = Len(bytes)]
        /\ next_data_offset' = Raised(files[First(fs_find(name))].offset + Len(bytes))
    BY <1>6 DEF WriteOld
  <2>2. next_data_offset' <= Room(num_files')
    BY <1>1, <1>4, <2>1 DEF Raised, Roomy
  <2>3. \A i \in Slots : /\ files'[i].offset = files[i].offset
                         /\ files'[i].in_use = files[i].in_use
    BY <2>1 DEF Sound, InBounds, File
  <2>4. \A i \in Used' : files'[i].offset <= Room(num_files' - 1)
    BY <2>1, <2>3 DEF Used, Roomy
  <2> QED BY <2>1, <2>2, <2>4 DEF Roomy
<1>7. CASE WriteNew(name, bytes)
  <2>1. /\ CanCreate(name) /\ num_files' = num_files + 1 /\ spilled' = spilled
        /\ files' = [files EXCEPT ![FirstFree] = Entry(name, FALSE, Len(bytes))]
        /\ next_data_offset' = Raised(next_data_offset + Len(bytes))
    BY <1>7 DEF WriteNew
  <2>2. Len(bytes) \in 0..FS_MAX_FILESIZE
    BY <1>3, Sizes
  <2>3. next_data_offset' \in {next_data_offset, next_data_offset + Len(bytes)}
    BY <2>1 DEF Raised
  <2>4. ~spilled'
    BY <2>1 DEF Roomy
  <2> QED BY <2>1, <2>2, <2>3, <2>4, RoomyEntry
<1> QED BY <1>5, <1>6, <1>7 DEF fs_write, Stores

LEMMA RoomyCreate ==
  ASSUME Sound, Roomy, NEW name, NEW dir, fs_create(name, dir)
  PROVE  Roomy'
<1>1. 0 \in 0..FS_MAX_FILESIZE
  BY Sizes
<1>2. ~spilled'
  BY DEF fs_create, Roomy
<1> QED BY <1>1, <1>2, RoomyEntry DEF fs_create

LEMMA RoomyStep ==
  IInv /\ Roomy /\ [Next /\ call'.op # "delete"]_vars => Roomy'
<1> SUFFICES ASSUME IInv, Roomy, [Next /\ call'.op # "delete"]_vars PROVE Roomy'
  OBVIOUS
<1>1. CASE UNCHANGED vars
  BY <1>1 DEF vars, Roomy, Used
<1>2. ASSUME NEW name \in Names, Touch(name) PROVE Roomy'
  BY <1>2, RoomyCreate DEF Touch, IInv
<1>3. ASSUME NEW name \in DirNames, Mkdir(name) PROVE Roomy'
  BY <1>3, RoomyCreate DEF Mkdir, IInv
<1>4. ASSUME NEW name \in Names, fs_delete(name) PROVE call'.op = "delete"
  BY <1>4 DEF fs_delete, Called
<1>5. ASSUME NEW name \in Names, NEW bytes \in Contents, fs_write(name, bytes) PROVE Roomy'
  BY <1>5, RoomyWrite DEF IInv
<1> QED BY <1>1, <1>2, <1>3, <1>4, <1>5 DEF Next

(* FS_MAX_FILES times FS_MAX_FILESIZE bytes are enough for any user until a  *)
(* file is removed: no write of touch, mkdir and write ends behind the       *)
(* array, although fs_write does not look.                                   *)
THEOREM ArraySuffices == KeepingSpec => []StaysInArray
<1>1. Roomy => StaysInArray
  BY DEF Roomy, StaysInArray
<1>2. [Next /\ call'.op # "delete"]_vars => [Next]_vars
  OBVIOUS
<1> QED BY <1>1, <1>2, IInvInit, IInvStep, RoomyInit, RoomyStep, PTL DEF KeepingSpec

-----------------------------------------------------------------------------
(* The table, the array and the watermark implement FileStore.               *)

Known == {files[j].name : j \in Used}
Directories == {files[j].name : j \in {k \in Used : files[k].is_directory}}

(* What the store shows under a name is what lies at the one entry with it.  *)
Looked ==
  /\ DOMAIN ShownContents = Known
  /\ ShownContents = [n \in Known |-> ShownContents[n]]
  /\ \A j \in Used : ShownContents[files[j].name] = Shown(files[j])

LEMMA Lookup == UniqueNames => Looked
<1> SUFFICES ASSUME UniqueNames PROVE Looked
  OBVIOUS
<1>1. ASSUME NEW j \in Used PROVE First(fs_find(files[j].name)) = j
  <2>1. fs_exists(files[j].name)
    BY DEF fs_exists, fs_find
  <2> QED BY <2>1, FindSlot DEF UniqueNames
<1>2. DOMAIN ShownContents = Known
  BY DEF ShownContents, Known
<1>3. ASSUME NEW j \in Used PROVE ShownContents[files[j].name] = Shown(files[j])
  <2>1. files[j].name \in Known
    BY DEF Known
  <2> QED BY <1>1, <2>1 DEF ShownContents, Known
<1>4. ShownContents = [n \in Known |-> ShownContents[n]]
  BY <1>2 DEF ShownContents
<1> QED BY <1>2, <1>3, <1>4 DEF Looked

(* There are no more names than entries. *)
LEMMA KnownFits ==
  ASSUME Sound, num_files < FS_MAX_FILES
  PROVE  Cardinality(Known) < FS_MAX_FILES
<1> DEFINE f == [j \in Used |-> files[j].name]
<1>1. f \in Surjection(Used, Known)
  BY DEF Surjection, Known
<1>2. Cardinality(Known) <= Cardinality(Used) /\ IsFiniteSet(Known)
  BY <1>1, UsedFinite, FS_Surjection
<1>3. Cardinality(Known) \in Nat /\ Cardinality(Used) \in Nat
  BY <1>2, UsedFinite, FS_CardinalityType
<1> QED BY <1>2, <1>3, Sizes DEF Sound, CountIsRight

(* The Cardinality that FileStore takes from its own FiniteSets. *)
LEMMA SameCardinality ==
  ASSUME NEW S PROVE Store!Cardinality(S) = Cardinality(S)
BY Zenon DEF Store!Cardinality, Cardinality

LEMMA StoreInit == Init => Store!Init
<1> SUFFICES ASSUME Init PROVE Store!Init
  OBVIOUS
<1>1. Sound
  BY IInvInit DEF IInv
<1>2. 0 \in Slots /\ 1 \in Slots /\ 0 # 1
  BY FileSystemAssumption DEF Slots
<1>3. \A j \in Slots : /\ files[j].name = IF j = 1 THEN PackagesDir ELSE RootDir
                       /\ files[j].size = 0
                       /\ files[j].is_directory = (j \in {0, 1})
                       /\ files[j].in_use = (j \in {0, 1})
  BY DEF Init
<1>4. Used = {0, 1}
  BY <1>2, <1>3 DEF Used
<1>5. {j \in Used : files[j].is_directory} = Used
  BY <1>2, <1>3, <1>4
<1>6. Known = {RootDir, PackagesDir} /\ Directories = Known
  BY <1>2, <1>3, <1>4, <1>5 DEF Known, Directories
<1>7. ASSUME NEW j \in Used PROVE Shown(files[j]) = << >>
  <2>1. files[j].size = 0
    BY <1>3, <1>4, <1>2
  <2> QED BY <2>1 DEF Shown
<1>8. ASSUME NEW n \in Known PROVE ShownContents[n] = << >>
  <2>1. PICK j \in Used : n = files[j].name
    BY DEF Known
  <2> QED BY <1>1, <1>7, <2>1, Lookup DEF Sound, Looked
<1>9. ShownContents = [n \in Known |-> << >>]
  <2>1. ShownContents = [n \in Known |-> ShownContents[n]]
    BY <1>1, Lookup DEF Sound, Looked
  <2> QED BY <1>8, <2>1
<1>10. call.op = "none"
  BY DEF Init, Called
<1> QED BY <1>6, <1>9, <1>10 DEF Store!Init, Directories

(* One entry gets a name, or keeps it, and the other files show what they    *)
(* showed.                                                                   *)
LEMMA EntryStored ==
  ASSUME Sound, Sound', NEW i \in Slots, NEW n,
         i \in Used', files'[i].name = n,
         \A j \in Slots \ {i} : files'[j] = files[j],
         (i \in Used /\ files[i].name = n) \/ (i \notin Used /\ n \notin Known),
         \A j \in Used \ {i} : Shown(files[j])' = Shown(files[j])
  PROVE  ShownContents' = Store!With(n, Shown(files[i])')
<1>1. Looked /\ Looked'
  <2>1. UniqueNames' => Looked'
    BY Lookup, PTL
  <2> QED BY <2>1, Lookup DEF Sound
<1>2. Used' = Used \cup {i} /\ Used \subseteq Slots
  BY DEF Used
<1>3. Known' = Known \cup {n}
  BY <1>2 DEF Known
<1>4. ShownContents'[n] = Shown(files[i])'
  BY <1>1 DEF Looked
<1>5. ASSUME NEW m \in Known', m # n PROVE ShownContents'[m] = ShownContents[m]
  <2>1. PICK j \in Used' : m = files'[j].name
    BY DEF Known
  <2>2. j # i /\ j \in Used
    BY <1>2, <1>5, <2>1
  <2>3. j \in Slots \ {i} /\ files'[j] = files[j]
    BY <1>2, <2>2
  <2>4. ShownContents'[m] = Shown(files[j])' /\ ShownContents[m] = Shown(files[j])
    BY <1>1, <2>1, <2>2, <2>3 DEF Looked
  <2> QED BY <2>2, <2>4
<1>6. ShownContents' = [m \in Known' |-> ShownContents'[m]]
  BY <1>1 DEF Looked
<1>7. DOMAIN ShownContents = Known
  BY <1>1 DEF Looked
<1> QED BY <1>3, <1>4, <1>5, <1>6, <1>7 DEF Store!With, Store!Known

(* fs_create's slot is a free one. *)
LEMMA FreeSlot ==
  ASSUME NEW name, CanCreate(name)
  PROVE  FirstFree \in Slots /\ FirstFree \notin Used
<1>1. Slots \ Used # {} /\ Slots \ Used \subseteq Slots
  BY DEF CanCreate, Used
<1>2. First(Slots \ Used) \in Slots \ Used
  BY <1>1, FirstSlot
<1> QED BY <1>2 DEF FirstFree

LEMMA CreateIsStoreStep ==
  ASSUME Sound, Sound', NEW name \in Names, NEW dir \in BOOLEAN, fs_create(name, dir)
  PROVE  Store!Create
<1>1. PICK i \in Slots : i = FirstFree /\ i \notin Used
  BY FreeSlot DEF fs_create
<1>2. /\ files' = [files EXCEPT ![i] = Entry(name, dir, 0)] /\ data' = data
      /\ DOMAIN files = Slots
  BY <1>1 DEF fs_create, Sound, InBounds
<1>3. /\ files'[i] = Entry(name, dir, 0) /\ i \in Used' /\ files'[i].name = name
      /\ files'[i].is_directory = dir /\ files'[i].size = 0
      /\ \A j \in Slots \ {i} : files'[j] = files[j]
  BY <1>1, <1>2 DEF Entry, Used
<1>4. name \notin Known
  BY DEF fs_create, CanCreate, fs_exists, fs_find, Known
<1>5. Shown(files[i])' = << >>
  BY <1>3 DEF Shown
<1>6. ASSUME NEW j \in Used \ {i} PROVE Shown(files[j])' = Shown(files[j])
  BY <1>2, <1>3 DEF Shown, Used
<1>7. ShownContents' = Store!With(name, << >>)
  BY <1>1, <1>3, <1>4, <1>5, <1>6, EntryStored
<1>8. Directories' = IF dir THEN Directories \cup {name} ELSE Directories
  BY <1>1, <1>3 DEF Directories, Used
<1>9. Cardinality(Known) < FS_MAX_FILES
  BY KnownFits DEF fs_create, CanCreate
<1>10. DOMAIN ShownContents = Known
  BY Lookup DEF Sound, Looked
<1>11. /\ call'.op = (IF dir THEN "directory" ELSE "file") /\ call'.name = name
  BY DEF fs_create, Called
<1>12. Store!HasRoomFor(name)
  BY <1>9, <1>10, SameCardinality DEF Store!HasRoomFor, Store!Known
<1> QED BY <1>4, <1>7, <1>8, <1>10, <1>11, <1>12 DEF Store!Create, Store!Known, Directories

(* The bytes that are written are those that are shown, and every other file *)
(* keeps its own.                                                            *)
LEMMA BytesStored ==
  ASSUME Sound, Sound', ExtentsDisjoint', NEW i \in Slots, NEW bytes \in Contents, NEW offset,
         i \in Used', files'[i].offset = offset, files'[i].size = Len(bytes),
         \A j \in Slots \ {i} : files'[j] = files[j],
         InArray(offset + Len(bytes)), data' = StoreAt(offset, bytes)
  PROVE  /\ Shown(files[i])' = bytes
         /\ \A j \in Used \ {i} : Shown(files[j])' = Shown(files[j])
         /\ bytes \in Seq(Bytes)
<1>1. PICK n \in 0..(FS_MAX_FILESIZE + 1) : bytes \in [1..n -> Bytes]
  BY DEF Contents
<1>2. n \in Nat /\ Len(bytes) = n /\ bytes \in Seq(Bytes)
  BY <1>1, Sizes
<1>3. offset \in Nat /\ offset + n <= DATA_SIZE /\ DATA_SIZE \in Nat
  <2>1. files'[i] \in File
    BY DEF Sound, InBounds
  <2> QED BY <1>2, <2>1, Sizes DEF InArray, File
<1>4. DOMAIN data = 0..(DATA_SIZE - 1)
  BY DEF Sound, InBounds
<1>5. ASSUME NEW k \in 1..n PROVE data'[offset + k - 1] = bytes[k]
  <2>1. offset + k - 1 \in DOMAIN data /\ offset + k - 1 \in offset..(offset + n - 1)
    BY <1>2, <1>3, <1>4
  <2>2. (offset + k - 1) - offset + 1 = k
    BY <1>2, <1>3
  <2> QED BY <1>2, <2>1, <2>2 DEF StoreAt
<1>6. Shown(files[i])' = bytes
  <2>1. Shown(files[i])' = [k \in 1..n |-> data'[offset + k - 1]]
    BY <1>2 DEF Shown
  <2>2. bytes = [k \in 1..n |-> bytes[k]]
    BY <1>1
  <2> QED BY <1>5, <2>1, <2>2
<1>7. ASSUME NEW j \in Used \ {i} PROVE Shown(files[j])' = Shown(files[j])
  <2>1. j \in Slots /\ files'[j] = files[j] /\ j \in Used'
    BY DEF Used
  <2>2. files[j] \in File
    BY <2>1 DEF Sound, InBounds
  <2>3. /\ files[j].offset \in Nat /\ files[j].size \in Nat
        /\ files[j].offset + files[j].size <= DATA_SIZE
    <3>1. files[j].offset \in Nat /\ files[j].size \in Nat
      BY <2>2, Sizes DEF File
    <3>2. files[j].offset + files[j].size <= next_data_offset /\ next_data_offset \in 0..DATA_SIZE
      BY DEF Sound, InBounds, ExtentsBelowWatermark
    <3> QED BY <1>3, <3>1, <3>2
  <2>4. (files[j].offset..(files[j].offset + files[j].size - 1)) \cap (offset..(offset + n - 1)) = {}
    BY <1>2, <2>1 DEF ExtentsDisjoint, Extent
  <2>5. ASSUME NEW k \in 1..files[j].size
        PROVE  data'[files[j].offset + k - 1] = data[files[j].offset + k - 1]
    <3>1. /\ files[j].offset + k - 1 \in files[j].offset..(files[j].offset + files[j].size - 1)
          /\ files[j].offset + k - 1 \in DOMAIN data
      <4>1. PICK b, size : b = files[j].offset /\ size = files[j].size
        OBVIOUS
      <4>2. b \in Nat /\ size \in Nat /\ b + size <= DATA_SIZE /\ DATA_SIZE \in Nat /\ k \in 1..size
        BY <1>3, <2>3, <4>1
      <4>3. b + k - 1 \in b..(b + size - 1) /\ b + k - 1 \in 0..(DATA_SIZE - 1)
        BY <4>2
      <4> QED BY <1>4, <4>1, <4>3
    <3>2. files[j].offset + k - 1 \notin offset..(offset + n - 1)
      BY <2>4, <3>1
    <3> QED BY <1>2, <3>1, <3>2 DEF StoreAt
  <2> QED BY <2>1, <2>5 DEF Shown
<1> QED BY <1>2, <1>6, <1>7

(* fs_write changes one entry, the one of the name or a free one, and stores *)
(* the bytes at its offset.                                                  *)
Written(i, name, bytes) ==
  /\ i \in Used' /\ files'[i].name = name /\ files'[i].size = Len(bytes)
  /\ \A j \in Slots \ {i} : files'[j] = files[j]
  /\ (i \in Used /\ files[i].name = name) \/ (i \notin Used /\ name \notin Known)
  /\ InArray(files'[i].offset + Len(bytes)) /\ data' = StoreAt(files'[i].offset, bytes)
  /\ name \in Known \/ num_files < FS_MAX_FILES
  /\ name \notin Directories /\ Directories' = Directories
  /\ num_files' = num_files \/ num_files' = num_files + 1

LEMMA WriteEntry ==
  ASSUME Sound, NEW name, NEW bytes, fs_write(name, bytes), ~spilled'
  PROVE  \E i \in Slots : Written(i, name, bytes)
<1>1. DOMAIN files = Slots /\ Used \subseteq Slots
  BY DEF Sound, InBounds, Used
<1>2. CASE WriteOld(name, bytes)
  <2>1. PICK i \in Used : i = First(fs_find(name)) /\ files[i].name = name
    BY <1>2, FindSlot DEF WriteOld
  <2>2. /\ i \in Slots /\ ~files[i].is_directory
        /\ files' = [files EXCEPT ![i].size = Len(bytes)]
        /\ data' = StoreAt(files[i].offset, bytes) /\ InArray(files[i].offset + Len(bytes))
    BY <1>1, <1>2, <2>1 DEF WriteOld
  <2>3. files[i] \in File
    BY <2>2 DEF Sound, InBounds
  <2>4. /\ files'[i].name = name /\ files'[i].offset = files[i].offset
        /\ files'[i].size = Len(bytes) /\ ~files'[i].is_directory /\ files'[i].in_use
        /\ \A j \in Slots \ {i} : files'[j] = files[j]
    BY <1>1, <2>1, <2>2, <2>3 DEF File, Used
  <2>5. Used' = Used
    BY <1>1, <2>1, <2>4 DEF Used
  <2>6. name \in Known
    BY <2>1 DEF Known
  <2>7. name \notin Directories
    BY <2>1, <2>2 DEF Directories, Sound, UniqueNames
  <2>8. Directories' = Directories
    BY <1>1, <2>1, <2>2, <2>4, <2>5 DEF Directories
  <2>9. num_files' = num_files
    BY <1>2 DEF WriteOld
  <2> QED BY <2>1, <2>2, <2>4, <2>5, <2>6, <2>7, <2>8, <2>9 DEF Written
<1>3. CASE WriteNew(name, bytes)
  <2>1. PICK i \in Slots : i = FirstFree /\ i \notin Used
    BY <1>3, FreeSlot DEF WriteNew
  <2>2. /\ files' = [files EXCEPT ![i] = Entry(name, FALSE, Len(bytes))]
        /\ data' = StoreAt(next_data_offset, bytes)
        /\ InArray(next_data_offset + Len(bytes)) /\ num_files < FS_MAX_FILES
    BY <1>3, <2>1 DEF WriteNew, CanCreate
  <2>3. /\ files'[i].name = name /\ files'[i].offset = next_data_offset
        /\ files'[i].size = Len(bytes) /\ ~files'[i].is_directory /\ files'[i].in_use
        /\ \A j \in Slots \ {i} : files'[j] = files[j]
    BY <1>1, <2>1, <2>2 DEF Entry
  <2>4. i \in Used' /\ Used' = Used \cup {i}
    BY <1>1, <2>1, <2>3 DEF Used
  <2>5. name \notin Known
    BY <1>3 DEF WriteNew, CanCreate, fs_exists, fs_find, Known
  <2>6. name \notin Directories
    BY <2>5 DEF Directories, Known
  <2>7. Directories' = Directories
    BY <1>1, <2>1, <2>3, <2>4 DEF Directories
  <2>8. num_files' = num_files + 1
    BY <1>3 DEF WriteNew
  <2> QED BY <2>1, <2>2, <2>3, <2>4, <2>5, <2>6, <2>7, <2>8 DEF Written
<1> QED BY <1>2, <1>3 DEF fs_write, Stores, WriteBehind

LEMMA WriteIsStoreStep ==
  ASSUME Sound, Sound', ExtentsDisjoint', NEW name \in Names, NEW bytes \in Contents,
         fs_write(name, bytes), ~spilled'
  PROVE  Store!Write
<1>1. PICK i \in Slots : Written(i, name, bytes)
  BY WriteEntry
<1>2. Shown(files[i])' = bytes /\ bytes \in Seq(Bytes)
  BY <1>1, BytesStored DEF Written
<1>3. ShownContents' = Store!With(name, bytes)
  BY <1>1, <1>2, BytesStored, EntryStored DEF Written
<1>4. call' = Called("write", name, bytes)
  BY DEF fs_write, Stores, WriteBehind
<1>5. name \in Known \/ Cardinality(Known) < FS_MAX_FILES
  BY <1>1, KnownFits DEF Written
<1>6. name \in Names \ Directories /\ Directories' = Directories /\ DOMAIN ShownContents = Known
  BY <1>1, Lookup DEF Sound, Looked, Written
<1>7. Store!HasRoomFor(name)
  BY <1>5, <1>6, SameCardinality DEF Store!HasRoomFor, Store!Known
<1> QED BY <1>2, <1>3, <1>4, <1>6, <1>7 DEF Store!Write, Called, Directories

LEMMA DeleteIsStoreStep ==
  ASSUME Sound, Sound', NEW name \in Names, fs_delete(name)
  PROVE  Store!Delete
<1>1. DOMAIN files = Slots /\ Used \subseteq Slots
  BY DEF Sound, InBounds, Used
<1>2. Looked /\ Looked'
  <2>1. UniqueNames' => Looked'
    BY Lookup, PTL
  <2> QED BY <2>1, Lookup DEF Sound
<1>3. PICK i \in Used : i = First(fs_find(name)) /\ files[i].name = name
  BY FindSlot DEF fs_delete
<1>4. i \in Slots /\ files' = [files EXCEPT ![i].in_use = FALSE] /\ data' = data
  BY <1>1, <1>3 DEF fs_delete
<1>5. files[i] \in File
  BY <1>4 DEF Sound, InBounds
<1>6. ~files'[i].in_use /\ \A j \in Slots \ {i} : files'[j] = files[j]
  BY <1>1, <1>4, <1>5 DEF File
<1>7. Used' = Used \ {i}
  BY <1>1, <1>4, <1>6 DEF Used
<1>8. \A j \in Used \ {i} : files'[j] = files[j] /\ files[j].name # name
  BY <1>1, <1>3, <1>6 DEF Sound, UniqueNames
<1>9. name \in Known /\ Known' = Known \ {name}
  BY <1>3, <1>7, <1>8 DEF Known
<1>10. Directories' = Directories \ {name}
  BY <1>3, <1>7, <1>8 DEF Directories
<1>11. ASSUME NEW m \in Known \ {name} PROVE ShownContents'[m] = ShownContents[m]
  <2>1. PICK j \in Used \ {i} : m = files[j].name
    BY <1>3 DEF Known
  <2>2. Shown(files[j])' = Shown(files[j])
    BY <1>4, <1>8 DEF Shown
  <2>3. ShownContents'[m] = Shown(files[j])' /\ ShownContents[m] = Shown(files[j])
    BY <1>2, <1>7, <1>8, <2>1 DEF Looked
  <2> QED BY <2>2, <2>3
<1>12. ShownContents' = [m \in Known \ {name} |-> ShownContents[m]]
  <2>1. ShownContents' = [m \in Known' |-> ShownContents'[m]]
    BY <1>2 DEF Looked
  <2> QED BY <1>9, <1>11, <2>1
<1>13. DOMAIN ShownContents = Known
  BY <1>2 DEF Looked
<1>14. call' = Called("delete", name, << >>)
  BY DEF fs_delete
<1> QED BY <1>9, <1>10, <1>12, <1>13, <1>14 DEF Store!Delete, Store!Known, Called, Directories

(* The write that goes behind the array ends the model and changes no file.  *)
LEMMA BehindIsStutter ==
  ASSUME NEW name, NEW bytes, WriteBehind(name, bytes)
  PROVE  UNCHANGED Store!vars
<1>1. ShownContents' = ShownContents
  BY DEF WriteBehind, ShownContents, Shown, fs_find, First, Used
<1>2. Directories' = Directories
  BY DEF WriteBehind, Directories, Used
<1> QED BY <1>1, <1>2 DEF WriteBehind, Store!vars, Directories

LEMMA StoreStep ==
  ASSUME Careful, IInv, IInv', [Next]_vars
  PROVE  [Store!Next]_Store!vars
<1>1. CASE UNCHANGED vars
  <2>1. ShownContents' = ShownContents
    BY <1>1 DEF vars, ShownContents, Shown, fs_find, First, Used
  <2>2. Directories' = Directories
    BY <1>1 DEF vars, Directories, Used
  <2> QED BY <1>1, <2>1, <2>2 DEF Store!vars, vars, Directories
<1>2. ASSUME NEW name \in Names, Touch(name) PROVE Store!Next
  BY <1>2, CreateIsStoreStep DEF IInv, Touch, Store!Next
<1>3. ASSUME NEW name \in Names, fs_delete(name) PROVE Store!Next
  BY <1>3, DeleteIsStoreStep DEF IInv, Store!Next
<1>4. ASSUME NEW name \in DirNames, Mkdir(name) PROVE Store!Next
  <2>1. name \in Names
    BY DEF Names
  <2> QED BY <1>4, <2>1, CreateIsStoreStep DEF IInv, Mkdir, Store!Next
<1>5. ASSUME NEW name \in Names, NEW bytes \in Contents, fs_write(name, bytes)
      PROVE  Store!Next \/ UNCHANGED Store!vars
  <2>1. CASE ~spilled'
    BY <1>5, <2>1, WriteIsStoreStep DEF IInv, Store!Next
  <2>2. CASE spilled'
    <3>1. WriteBehind(name, bytes)
      BY <1>5, <2>2 DEF fs_write, Intact, Stores, WriteOld, WriteNew
    <3> QED BY <3>1, BehindIsStutter
  <2> QED BY <2>1, <2>2
<1> QED BY <1>1, <1>2, <1>3, <1>4, <1>5 DEF Next

(* As long as the user writes carefully, the file table, the data array and  *)
(* the watermark of kernel/fs.c are a store of independent files: each shows *)
(* what was last written to it, whatever is created, written and deleted     *)
(* around it, for every table size, file size and set of names.              *)
THEOREM CarefulFilesAreAStore == Careful /\ Spec => IsFileStore
<1>1. ASSUME Careful PROVE Spec => IsFileStore
  <2>1. Init => Store!Init
    BY StoreInit
  <2>2. IInv /\ IInv' /\ [Next]_vars => [Store!Next]_Store!vars
    BY <1>1, StoreStep
  <2> QED BY <2>1, <2>2, Invariance, PTL DEF Spec, IsFileStore, Store!Spec
<1> QED BY <1>1

-----------------------------------------------------------------------------
(***************************************************************************)
(* Packages.                                                               *)
(***************************************************************************)

-----------------------------------------------------------------------------
(* What one call of the file system leaves behind. *)

(* Only the file of this name is another one than before. *)
OnlyName(n) ==
  /\ \A j \in Used : files[j].name # n =>
       j \in Used' /\ files'[j] = files[j] /\ Shown(files[j])' = Shown(files[j])
  /\ \A j \in Used' : files'[j].name # n => j \in Used /\ files'[j] = files[j]

LEMMA ShownOfSlot ==
  ASSUME Sound, NEW j \in Used
  PROVE  ShownOf(files[j].name) = Shown(files[j]) /\ fs_exists(files[j].name)
<1>1. fs_exists(files[j].name)
  BY DEF fs_exists, fs_find
<1>2. First(fs_find(files[j].name)) = j
  BY <1>1, FindSlot DEF Sound, UniqueNames
<1> QED BY <1>1, <1>2 DEF ShownOf

SlotsShow == \A j \in Used : /\ ShownOf(files[j].name) = Shown(files[j])
                             /\ fs_exists(files[j].name)

LEMMA SoundShows == Sound => SlotsShow
BY ShownOfSlot DEF SlotsShow

LEMMA SoundShowsNext == Sound' => SlotsShow'
BY SoundShows, PTL

LEMMA CreateFrame ==
  ASSUME Sound, NEW n, NEW dir, fs_create(n, dir)
  PROVE  OnlyName(n) /\ num_files' = num_files + 1
<1>1. PICK i \in Slots : i = FirstFree /\ i \notin Used
  BY FreeSlot DEF fs_create
<1>2. /\ files' = [files EXCEPT ![i] = Entry(n, dir, 0)] /\ data' = data
      /\ DOMAIN files = Slots
  BY <1>1 DEF fs_create, Sound, InBounds
<1>3. /\ files'[i].name = n
      /\ \A j \in Slots \ {i} : files'[j] = files[j]
  BY <1>1, <1>2 DEF Entry
<1>4. \A j \in Used : j \in Slots \ {i}
  BY <1>1 DEF Used
<1>5. \A j \in Used : j \in Used' /\ files'[j] = files[j] /\ Shown(files[j])' = Shown(files[j])
  BY <1>2, <1>3, <1>4 DEF Used, Shown
<1>6. \A j \in Used' : files'[j].name # n => j \in Used /\ files'[j] = files[j]
  BY <1>3 DEF Used
<1> QED BY <1>5, <1>6 DEF OnlyName, fs_create

LEMMA DeleteFrame ==
  ASSUME Sound, NEW n, fs_delete(n)
  PROVE  OnlyName(n) /\ \A j \in Used' : j \in Used /\ files'[j] = files[j]
<1>1. PICK i \in Used : i = First(fs_find(n)) /\ files[i].name = n
  BY FindSlot DEF fs_delete
<1>2. /\ i \in Slots /\ files' = [files EXCEPT ![i].in_use = FALSE] /\ data' = data
      /\ files \in [Slots -> File]
  BY <1>1 DEF fs_delete, Used, Sound, InBounds
<1>3. ~files'[i].in_use /\ \A j \in Slots \ {i} : files'[j] = files[j]
  BY <1>2 DEF File
<1>4. Used' = Used \ {i} /\ \A j \in Used' : j \in Used /\ files'[j] = files[j]
  BY <1>1, <1>2, <1>3 DEF Used
<1>5. \A j \in Used : files[j].name # n => j \in Used'
  BY <1>1, <1>4
<1>6. \A j \in Used' : Shown(files[j])' = Shown(files[j])
  BY <1>2, <1>4 DEF Shown
<1> QED BY <1>4, <1>5, <1>6 DEF OnlyName

LEMMA WriteFrame ==
  ASSUME Sound, Sound', ExtentsDisjoint', NEW n, NEW bytes \in Contents, fs_write(n, bytes),
         ~spilled'
  PROVE  /\ OnlyName(n)
         /\ \A j \in Used' : files'[j].name = n => Shown(files[j])' = bytes
         /\ fs_exists(n)' /\ ShownOf(n)' = bytes
         /\ num_files' = num_files \/ num_files' = num_files + 1
<1>1. PICK i \in Slots : Written(i, n, bytes)
  BY WriteEntry
<1>2. Shown(files[i])' = bytes /\ \A j \in Used \ {i} : Shown(files[j])' = Shown(files[j])
  BY <1>1, BytesStored DEF Written
<1>3. \A j \in Used' : files'[j].name = n => j = i
  BY <1>1 DEF Written, Sound, UniqueNames
<1>4. \A j \in Used : files[j].name # n => j # i /\ j \in Slots \ {i}
  BY <1>1 DEF Written, Used
<1>5. \A j \in Slots \ {i} : files'[j] = files[j] /\ (j \in Used' <=> j \in Used)
  BY <1>1 DEF Written, Used
<1>6. Used' \subseteq Slots /\ files'[i].name = n /\ i \in Used'
  BY <1>1 DEF Written, Used
<1>7. OnlyName(n)
  BY <1>2, <1>4, <1>5, <1>6 DEF OnlyName
<1>8. fs_exists(n)' /\ ShownOf(n)' = bytes
  BY <1>2, <1>6, SoundShowsNext DEF SlotsShow
<1> QED BY <1>1, <1>2, <1>3, <1>7, <1>8 DEF Written

(* When fs_create has no room although the file is missing, the table is full. *)
LEMMA NoRoom ==
  ASSUME Sound, NEW n, ~fs_exists(n), ~CanCreate(n)
  PROVE  num_files = FS_MAX_FILES
<1>1. num_files \in 0..FS_MAX_FILES
  BY DEF Sound, InBounds
<1>2. CASE Used = Slots
  BY <1>2, SlotsFinite DEF Sound, CountIsRight
<1> QED BY <1>1, <1>2, Sizes DEF CanCreate

(* A file that is in order stays so while calls go to other names. *)
Done(n, bytes) ==
  /\ fs_exists(n) => ShownOf(n) = bytes
  /\ fs_exists(n) \/ num_files = FS_MAX_FILES

LEMMA DoneStays ==
  ASSUME Sound, Sound', NEW m, NEW n, n # m, OnlyName(m),
         num_files' = num_files \/ num_files' = num_files + 1,
         NEW bytes, Done(n, bytes)
  PROVE  Done(n, bytes)'
<1>1. num_files \in 0..FS_MAX_FILES /\ num_files' \in 0..FS_MAX_FILES /\ FS_MAX_FILES \in Nat
  BY Sizes DEF Sound, InBounds
<1>2. CASE fs_exists(n)
  <2>1. PICK j \in Used : files[j].name = n
    BY <1>2 DEF fs_exists, fs_find
  <2>2. j \in Used' /\ files'[j] = files[j] /\ Shown(files[j])' = Shown(files[j])
    BY <2>1 DEF OnlyName
  <2>3. fs_exists(n)' /\ ShownOf(n)' = Shown(files[j])'
    BY <2>1, <2>2, SoundShowsNext DEF SlotsShow
  <2>4. ShownOf(n) = Shown(files[j])
    BY <2>1, SoundShows DEF SlotsShow
  <2> QED BY <1>2, <2>2, <2>3, <2>4 DEF Done
<1>3. CASE ~fs_exists(n)
  <2>1. num_files' = FS_MAX_FILES
    BY <1>1, <1>3 DEF Done
  <2>2. ~fs_exists(n)'
    <3> SUFFICES ASSUME fs_exists(n)' PROVE FALSE
      OBVIOUS
    <3>1. PICK j \in Used' : files'[j].name = n
      BY DEF fs_exists, fs_find
    <3>2. j \in Used /\ files[j].name = n
      BY <3>1 DEF OnlyName
    <3> QED BY <1>3, <3>2 DEF fs_exists, fs_find
  <2> QED BY <2>1, <2>2 DEF Done
<1> QED BY <1>2, <1>3

-----------------------------------------------------------------------------
(* Answers, and what an install takes out of them. *)

LEMMA PrefixBy ==
  ASSUME NEW S, NEW s \in Seq(S), NEW T, NEW t \in Seq(T), Len(s) <= Len(t),
         \A i \in 1..Len(s) : s[i] = t[i]
  PROVE  IsPrefix(s, t)
<1>1. Len(s) \in Nat /\ Len(t) \in Nat
  BY LenProperties
<1>2. SubSeq(s, 1, Len(s)) = s
  BY SubSeqFull
<1>3. /\ SubSeq(t, 1, Len(s)) \in Seq(T) /\ Len(SubSeq(t, 1, Len(s))) = Len(s)
      /\ \A i \in 1..Len(s) : SubSeq(t, 1, Len(s))[i] = t[i]
  <2>1. \A i \in 1..Len(s) : i \in 1..Len(t)
    BY <1>1
  <2>2. Len(s) - 1 + 1 = Len(s) /\ \A i \in 1..Len(s) : 1 + i - 1 = i
    BY <1>1
  <2> QED BY <1>1, <2>1, <2>2, SubSeqProperties
<1>4. SubSeq(t, 1, Len(s)) = s
  BY <1>3, SeqEqual
<1> QED BY <1>2, <1>4 DEF IsPrefix

LEMMA ResponseIsBeginning ==
  ASSUME NEW S, NEW answer \in Seq(S), NEW max_len \in Nat \ {0},
         NEW r \in Responses(answer, max_len), r # << >>
  PROVE  \E n \in 1..Len(answer) :
           /\ r \in Seq(S) /\ Len(r) = n /\ \A i \in 1..n : r[i] = answer[i]
<1>1. Len(answer) \in Nat
  BY LenProperties
<1>2. PICK n \in 1..Len(answer) : r = SubSeq(answer, 1, n)
  BY <1>1 DEF Responses
<1>3. \A i \in 1..n : i \in 1..Len(answer) /\ 1 + i - 1 = i
  BY <1>1
<1>4. n - 1 + 1 = n /\ n \in Nat
  BY <1>1
<1> QED BY <1>1, <1>2, <1>3, <1>4, SubSeqProperties

Beginning == << << "http" >>, << "200" >> >>

LEMMA RightStatus ==
  ASSUME NEW r, TRUE \in Status(r)
  PROVE  r # << >> /\ (Len(r) = 1 \/ r[2] = << "200" >>)
<1>1. CASE Len(r) = 1
  <2>1. Len(<< >>) # 1
    OBVIOUS
  <2> QED BY <1>1, <2>1
<1>2. CASE Len(r) # 1
  <2>1. Status(r) = {r # << >> /\ r[2] = << "200" >>}
    BY <1>2 DEF Status
  <2> QED BY <2>1, Zenon
<1> QED BY <1>1, <1>2

LEMMA FoundParts ==
  ASSUME NEW body \in Seq(Bytes)
  PROVE  /\ Found(body) \in Seq(Bytes) /\ Len(Found(body)) = Len(body) + 3
         /\ \A i \in 1..2 : Found(body)[i] = Beginning[i]
         /\ \A i \in 1..Len(body) : Found(body)[i + 3] = body[i]
         /\ Beginning \in Seq(Bytes) /\ Len(Beginning) = 2
<1> DEFINE h == Header("200")
<1>1. h \in Seq(Bytes) /\ Len(h) = 3 /\ h[1] = << "http" >> /\ h[2] = << "200" >>
  BY PackageBytes DEF Header
<1>2. h[1] \in Bytes /\ h[2] \in Bytes
  BY <1>1, LenProperties
<1>3. Beginning \in Seq(Bytes) /\ Len(Beginning) = 2 /\ Beginning[1] = h[1] /\ Beginning[2] = h[2]
  BY <1>1, <1>2 DEF Beginning
<1> HIDE DEF h
<1>4. Found(body) = h \o body
  BY DEF Found, h
<1>5. /\ h \o body \in Seq(Bytes) /\ Len(h \o body) = Len(body) + 3
      /\ \A i \in 1..Len(h) : (h \o body)[i] = h[i]
      /\ \A i \in 1..Len(body) : (h \o body)[3 + i] = body[i]
  <2>1. Len(body) \in Nat /\ Len(h) = 3
    BY <1>1, LenProperties
  <2>2. /\ h \o body \in Seq(Bytes) /\ Len(h \o body) = Len(h) + Len(body)
        /\ \A i \in 1..(Len(h) + Len(body)) :
             (h \o body)[i] = IF i <= Len(h) THEN h[i] ELSE body[i - Len(h)]
    BY <1>1, ConcatProperties
  <2>3. \A i \in 1..Len(h) : i \in 1..(Len(h) + Len(body)) /\ i <= Len(h)
    BY <2>1
  <2>4. ASSUME NEW i \in 1..Len(body) PROVE (h \o body)[3 + i] = body[i]
    <3>1. /\ 3 + i \in 1..(Len(h) + Len(body)) /\ ~(3 + i <= Len(h))
          /\ 3 + i - Len(h) = i
      BY <2>1
    <3>2. (h \o body)[3 + i] = body[3 + i - Len(h)]
      BY <2>2, <3>1
    <3> QED BY <3>1, <3>2
  <2> QED BY <2>1, <2>2, <2>3, <2>4
<1>6. \A i \in 1..2 : i \in 1..Len(h) /\ h[i] = Beginning[i]
  BY <1>1, <1>3
<1>7. \A i \in 1..Len(body) : i + 3 = 3 + i
  BY LenProperties
<1> QED BY <1>3, <1>4, <1>5, <1>6, <1>7

(* Of an answer with status 200 an install keeps a part of the body, or a    *)
(* part of a header that was cut, never more.                                *)
LEMMA KeepsBody ==
  ASSUME NEW body \in Seq(Bytes), NEW max_len \in Nat \ {0},
         NEW r \in Responses(Found(body), max_len), TRUE \in Status(r)
  PROVE  /\ Body(r) \in Seq(Bytes)
         /\ IsPrefix(Body(r), Beginning) \/ IsPrefix(Body(r), body)
<1>1. r # << >>
  BY RightStatus
<1>2. /\ Found(body) \in Seq(Bytes) /\ Len(Found(body)) = Len(body) + 3
      /\ \A i \in 1..2 : Found(body)[i] = Beginning[i]
      /\ \A i \in 1..Len(body) : Found(body)[i + 3] = body[i]
      /\ Beginning \in Seq(Bytes) /\ Len(Beginning) = 2
  BY FoundParts
<1>3. PICK n \in 1..Len(Found(body)) :
        r \in Seq(Bytes) /\ Len(r) = n /\ \A i \in 1..n : r[i] = Found(body)[i]
  BY <1>1, <1>2, ResponseIsBeginning
<1>4. Len(body) \in Nat
  BY LenProperties
<1>5. CASE n < 3
  <2>1. Body(r) = r
    BY <1>3, <1>5 DEF Body, HEADER
  <2>2. Len(r) <= Len(Beginning) /\ \A i \in 1..Len(r) : i \in 1..2 /\ i \in 1..n
    BY <1>2, <1>3, <1>4, <1>5
  <2>3. \A i \in 1..Len(r) : r[i] = Beginning[i]
    BY <1>2, <1>3, <2>2
  <2> QED BY <1>2, <1>3, <2>1, <2>2, <2>3, PrefixBy
<1>6. CASE n >= 3
  <2>1. Body(r) = SubSeq(r, 4, n)
    BY <1>2, <1>3, <1>6 DEF Body, HEADER
  <2>2. /\ n \in Nat /\ n - 3 \in Nat /\ n - 3 <= Len(body)
        /\ n - 4 + 1 = n - 3 /\ (IF 4 <= n THEN n - 4 + 1 ELSE 0) = n - 3
    BY <1>2, <1>4, <1>6
  <2>3. \A i \in 4..n : r[i] \in Bytes
    <3>1. \A i \in 4..n : i \in 1..Len(r)
      BY <1>3, <2>2
    <3> QED BY <1>3, <3>1, LenProperties
  <2>4. /\ Body(r) \in Seq(Bytes) /\ Len(Body(r)) = n - 3
        /\ \A i \in 1..(n - 3) : Body(r)[i] = r[4 + i - 1]
    BY <2>1, <2>2, <2>3, SubSeqProperties
  <2>5. ASSUME NEW i \in 1..(n - 3) PROVE Body(r)[i] = body[i]
    <3>1. 4 + i - 1 = i + 3 /\ i + 3 \in 1..n /\ i \in 1..Len(body)
      BY <1>4, <2>2
    <3>2. Body(r)[i] = r[i + 3] /\ r[i + 3] = Found(body)[i + 3]
      BY <1>3, <2>4, <3>1
    <3> QED BY <1>2, <3>1, <3>2
  <2> QED BY <2>2, <2>4, <2>5, PrefixBy
<1> QED BY <1>3, <1>4, <1>5, <1>6, <1>2

(* Of the server's error page only the first bytes of its header can be      *)
(* taken for an answer: when the status has not come yet.                    *)
LEMMA ErrorIsSeen ==
  ASSUME NEW max_len \in Nat \ {0}, NEW r \in Responses(NotFound, max_len), TRUE \in Status(r)
  PROVE  Body(r) \in Seq(Bytes) /\ IsPrefix(Body(r), Beginning) /\ r # NotFound
<1> DEFINE S == {<< "http" >>, << "404" >>, << "blank" >>, << "page" >>}
<1>1. r # << >>
  BY RightStatus
<1>2. /\ NotFound \in Seq(S) /\ Len(NotFound) = 4
      /\ NotFound[1] = << "http" >> /\ NotFound[2] = << "404" >>
  <2> DEFINE h == Header("404")
             page == << << "page" >> >>
  <2>1. /\ h \in Seq(S) /\ Len(h) = 3 /\ h[1] = << "http" >> /\ h[2] = << "404" >>
        /\ page \in Seq(S) /\ Len(page) = 1
    BY DEF Header
  <2> HIDE DEF h, page, S
  <2>2. NotFound = h \o page
    BY DEF NotFound, h, page
  <2>3. /\ h \o page \in Seq(S) /\ Len(h \o page) = Len(h) + Len(page)
        /\ \A i \in 1..(Len(h) + Len(page)) :
             (h \o page)[i] = IF i <= Len(h) THEN h[i] ELSE page[i - Len(h)]
    BY <2>1, ConcatProperties
  <2>4. 1 \in 1..(Len(h) + Len(page)) /\ 2 \in 1..(Len(h) + Len(page)) /\ 1 <= Len(h) /\ 2 <= Len(h)
    BY <2>1
  <2> QED BY <2>1, <2>2, <2>3, <2>4
<1> HIDE DEF S
<1>3. PICK n \in 1..4 :
        r \in Seq(S) /\ Len(r) = n /\ \A i \in 1..n : r[i] = NotFound[i]
  <2>1. \E n \in 1..Len(NotFound) :
           r \in Seq(S) /\ Len(r) = n /\ \A i \in 1..n : r[i] = NotFound[i]
    <3>1. NotFound \in Seq(S)
      BY <1>2
    <3> HIDE DEF NotFound
    <3> QED BY <1>1, <3>1, ResponseIsBeginning
  <2> QED BY <1>2, <2>1
<1>4. n = 1
  <2> SUFFICES ASSUME n # 1 PROVE FALSE
    OBVIOUS
  <2>1. 2 \in 1..n
    BY <1>3
  <2>2. r[2] = << "404" >>
    BY <1>2, <1>3, <2>1
  <2>3. << "404" >> # << "200" >>
    OBVIOUS
  <2>4. Len(r) # 1
    BY <1>3
  <2>5. r[2] = << "200" >>
    BY <2>4, RightStatus
  <2> QED BY <2>2, <2>3, <2>5
<1>5. Body(r) = r
  BY <1>3, <1>4 DEF Body, HEADER
<1>6. Beginning \in Seq(Bytes) /\ Len(Beginning) = 2 /\ Beginning[1] = << "http" >>
  <2>1. << >> \in Seq(Bytes)
    OBVIOUS
  <2> QED BY <2>1, FoundParts DEF Beginning
<1>7. r[1] = Beginning[1] /\ Len(r) = 1
  BY <1>2, <1>3, <1>4, <1>6
<1>8. Len(r) <= Len(Beginning) /\ \A i \in 1..Len(r) : r[i] = Beginning[i]
  BY <1>6, <1>7
<1>9. IsPrefix(r, Beginning)
  BY <1>3, <1>6, <1>8, PrefixBy
<1>10. r \in Seq(Bytes)
  <2>1. Beginning[1] \in Bytes
    BY <1>6, LenProperties
  <2>2. r \in [1..1 -> S]
    BY <1>3, <1>7, LenProperties
  <2>3. r = [i \in 1..1 |-> r[i]] /\ \A i \in 1..1 : r[i] \in Bytes
    BY <1>7, <2>1, <2>2
  <2>4. 1 \in Nat /\ [i \in 1..1 |-> r[i]] \in Seq(Bytes)
    BY <2>3, SMT
  <2> QED BY <2>3, <2>4
<1> QED BY <1>2, <1>5, <1>7, <1>9, <1>10

(* What the server answers. *)
LEMMA Answers ==
  ASSUME NEW p \in Pkgs
  PROVE  /\ FileAnswer(Meta(p)) = IF published[p] # 0 THEN Found(Json(p, published[p])) ELSE NotFound
         /\ FileAnswer(Source(p)) = IF published[p] # 0 THEN Found(Code(p, published[p])) ELSE NotFound
         /\ FileAnswer(CutSource(p)) = NotFound
<1>1. \A q, s : /\ Meta(q) # Source(s) /\ Meta(q) # CutSource(s) /\ Source(q) # CutSource(s)
                /\ (Meta(q) = Meta(s) => q = s) /\ (Source(q) = Source(s) => q = s)
  BY DEF Meta, Source, CutSource
<1>2. ASSUME NEW name, name = Meta(p) \/ name = Source(p)
      PROVE  /\ (\E q \in Pkgs : published[q] # 0 /\ name \in {Meta(q), Source(q)})
                  <=> published[p] # 0
             /\ (CHOOSE q \in Pkgs : name \in {Meta(q), Source(q)}) = p
  <2>1. \A q \in Pkgs : name \in {Meta(q), Source(q)} <=> q = p
    BY <1>1, <1>2
  <2> QED BY <2>1
<1>3. \A q \in Pkgs : CutSource(p) \notin {Meta(q), Source(q)}
  BY <1>1
<1> QED BY <1>1, <1>2, <1>3 DEF FileAnswer

-----------------------------------------------------------------------------
(* The inductive invariant. *)

(* What StoredAsNamed says of one file. *)
Fits(name, s) ==
  name \in PkgFiles =>
    \/ IsPrefix(s, Beginning)
    \/ \E p \in Pkgs, v \in Versions :
         \/ name = Meta(p) /\ IsPrefix(s, Json(p, v))
         \/ name = Source(p) /\ IsPrefix(s, Code(p, v))

Call == [dir : BOOLEAN, name : PkgFiles \cup DirNames, bytes : Seq(Bytes)]

(* A command only ever writes what its answer held, and where it belongs. *)
RightCall(c) ==
  /\ c.dir => c.name \in DirNames
  /\ ~c.dir => /\ c.name \in PkgFiles /\ Fits(c.name, c.bytes)
               /\ pc = "meta" => c.name = Meta(pkg) /\ (complete => c.bytes = served.meta)
               /\ pc = "source" => c.name = entry /\ (complete => c.bytes = served.source)

Plan ==
  /\ pc \in {"idle", "meta", "source"} /\ (pc = "idle" => calls = << >>)
  /\ pkg \in Pkgs /\ entry \in {NoEntry, CutSource(pkg), Source(pkg)}
  /\ pc = "source" => entry # NoEntry
  /\ published \in [Pkgs -> Versions \cup {0}]
  /\ served = [meta |-> served.meta, source |-> served.source]
  /\ calls \in Seq(Call) /\ \A i \in 1..Len(calls) : RightCall(calls[i])

Waits(n) == \E i \in 1..Len(calls) : ~calls[i].dir /\ calls[i].name = n

(* What is no longer to be written has been, or had no room. *)
Progress ==
  /\ pc # "idle" /\ complete /\ ~overgrown /\ ~Waits(Meta(pkg)) => Done(Meta(pkg), served.meta)
  /\ pc = "source" /\ complete /\ ~overgrown /\ ~Waits(entry) => Done(entry, served.source)
  /\ said = "installed" => pc = "idle"

Table == Sound /\ (~overgrown => ExtentsDisjoint) /\ StoredAsNamed

InstallInv == Table /\ Plan /\ Progress /\ InstalledIsServed

LEMMA NamesApart ==
  /\ \A p, q : Meta(p) # Source(q) /\ Meta(p) # CutSource(q) /\ Meta(p) # NoEntry
  /\ \A p \in Pkgs : {Meta(p), Source(p), CutSource(p)} \subseteq PkgFiles
  /\ \A p \in Pkgs : {Base(p), SrcDir(p)} \subseteq DirNames
  /\ \A n \in PkgFiles : n \in Names /\ n \notin DirNames
  /\ DirNames \subseteq Names /\ PackagesDir \in DirNames
<1>1. \A p, q : Meta(p) # Source(q) /\ Meta(p) # CutSource(q) /\ Meta(p) # NoEntry
  BY DEF Meta, Source, CutSource, NoEntry
<1>2. \A p \in Pkgs : {Meta(p), Source(p), CutSource(p)} \subseteq PkgFiles
  BY DEF PkgFiles
<1>3. \A p \in Pkgs : {Base(p), SrcDir(p)} \subseteq PkgDirs
  BY DEF PkgDirs
<1> QED BY <1>1, <1>2, <1>3, PackageNames, FileSystemAssumption DEF Names

LEMMA Stored == StoredAsNamed <=> (~overgrown => \A i \in Used : Fits(files[i].name, Shown(files[i])))
BY DEF StoredAsNamed, Fits, Beginning

LEMMA StoredNext ==
  StoredAsNamed' <=> (~overgrown' => \A i \in Used' : Fits(files'[i].name, Shown(files[i])'))
BY DEF StoredAsNamed, Fits, Beginning

LEMMA InstalledMeans ==
  InstalledIsServed <=>
    (said = "installed" /\ complete /\ ~overgrown =>
       Done(Meta(pkg), served.meta) /\ Done(entry, served.source))
BY DEF InstalledIsServed, Done

LEMMA InstalledMeansNext ==
  InstalledIsServed' <=>
    (said = "installed" /\ complete /\ ~overgrown =>
       Done(Meta(pkg), served.meta) /\ Done(entry, served.source))'
BY InstalledMeans, PTL

LEMMA NoCalls == << >> \in Seq(Call) /\ \A i : i \notin 1..Len(<< >>)
OBVIOUS

LEMMA InstallInit == PkgInit => InstallInv
<1> SUFFICES ASSUME PkgInit PROVE InstallInv
  OBVIOUS
<1>1. Init
  BY DEF PkgInit
<1>2. Sound
  BY <1>1, IInvInit DEF IInv
<1>3. \A i \in Used : files[i].size = 0 /\ files[i].name \in DirNames
  <2>1. \A i \in Slots : files[i].size = 0 /\ files[i].name = IF i = 1 THEN PackagesDir ELSE RootDir
    BY <1>1 DEF Init
  <2> QED BY <2>1, FileSystemAssumption DEF Used
<1>4. ExtentsDisjoint
  <2>1. \A i \in Used : files[i].offset \in Nat /\ files[i].size = 0
    BY <1>2, <1>3, Sizes DEF Sound, InBounds, File, Used
  <2>2. \A i \in Used : Extent(files[i]) = {}
    BY <2>1 DEF Extent
  <2> QED BY <2>2 DEF ExtentsDisjoint
<1>5. StoredAsNamed
  BY <1>3, NamesApart, Stored DEF Fits
<1>6. /\ pc = "idle" /\ pkg \in Pkgs /\ entry = NoEntry /\ calls = << >> /\ said = ""
      /\ published \in [Pkgs -> Versions \cup {0}]
      /\ served = [meta |-> served.meta, source |-> served.source]
  BY DEF PkgInit
<1>7. Plan
  <2>1. calls = << >>
    BY <1>6
  <2>2. calls \in Seq(Call) /\ \A i \in 1..Len(calls) : RightCall(calls[i])
    BY <2>1, NoCalls
  <2> QED BY <1>6, <2>2 DEF Plan
<1>8. Progress /\ InstalledIsServed
  BY <1>6 DEF Progress, InstalledIsServed
<1> QED BY <1>2, <1>4, <1>5, <1>7, <1>8 DEF InstallInv, Table

LEMMA SameFiles ==
  ASSUME Table, UNCHANGED vars, overgrown' = overgrown
  PROVE  Table' /\ \A n, b : Done(n, b)' <=> Done(n, b)
<1>1. Sound' /\ (~overgrown' => ExtentsDisjoint')
  BY DEF Table, vars, Sound, InBounds, CountIsRight, UniqueNames, ExtentsBelowWatermark,
         ExtentsDisjoint, Used
<1>2. StoredAsNamed'
  BY DEF Table, vars, StoredAsNamed, Used, Shown
<1>3. \A n, b : Done(n, b)' <=> Done(n, b)
  BY DEF vars, Done, ShownOf, Shown, fs_exists, fs_find, Used
<1> QED BY <1>1, <1>2, <1>3 DEF Table

-----------------------------------------------------------------------------
(* The steps. *)

(* A command that ends says something else than "installed". *)
LEMMA EndsOtherwise ==
  ASSUME InstallInv, UNCHANGED << vars, overgrown, pkg, published >>,
         NEW words, words # "installed", Says(words),
         entry' \in {NoEntry, CutSource(pkg), Source(pkg)},
         served' = [meta |-> served'.meta, source |-> served'.source]
  PROVE  InstallInv'
<1>1. Table'
  BY SameFiles DEF InstallInv
<1>2. pc' = "idle" /\ calls' = << >> /\ said' # "installed"
  BY DEF Says
<1>3. calls' \in Seq(Call) /\ \A i \in 1..Len(calls') : RightCall(calls[i])'
  BY <1>2, NoCalls
<1>4. Plan'
  BY <1>2, <1>3 DEF InstallInv, Plan, CutSource, Source
<1>5. Progress' /\ InstalledIsServed'
  BY <1>2 DEF Progress, InstalledIsServed
<1> QED BY <1>1, <1>4, <1>5 DEF InstallInv

LEMMA PublishKeeps ==
  ASSUME InstallInv, NEW p \in Pkgs, Publish(p)
  PROVE  InstallInv'
<1>1. UNCHANGED << vars, pc, pkg, entry, calls, said, served, complete, overgrown >>
  BY DEF Publish, shell
<1>2. Table' /\ \A n, b : Done(n, b)' <=> Done(n, b)
  BY <1>1, SameFiles DEF InstallInv
<1>3. published' \in [Pkgs -> Versions \cup {0}]
  BY DEF Publish, InstallInv, Plan
<1>4. Plan'
  BY <1>1, <1>3 DEF InstallInv, Plan, RightCall
<1>5. Progress'
  BY <1>1, <1>2 DEF InstallInv, Progress, Waits
<1>6. InstalledIsServed'
  BY <1>1, <1>2, InstalledMeans, InstalledMeansNext DEF InstallInv
<1> QED BY <1>2, <1>4, <1>5, <1>6 DEF InstallInv

(* An answer with a status of 200 to a request for one of a package's files. *)
LEMMA AnswerFits ==
  ASSUME NEW p \in Pkgs, published \in [Pkgs -> Versions \cup {0}],
         NEW name \in {Meta(p), Source(p), CutSource(p)}, NEW max_len \in Nat \ {0},
         NEW r \in Responses(FileAnswer(name), max_len), TRUE \in Status(r)
  PROVE  /\ Body(r) \in Seq(Bytes) /\ Fits(name, Body(r))
         /\ r = FileAnswer(name) =>
              Body(r) = SubSeq(FileAnswer(name), HEADER + 1, Len(FileAnswer(name)))
<1>1. CASE FileAnswer(name) = NotFound
  BY <1>1, ErrorIsSeen DEF Fits
<1>2. ASSUME NEW body \in Seq(Bytes), FileAnswer(name) = Found(body),
             \A s : IsPrefix(s, body) => Fits(name, s)
      PROVE  /\ Body(r) \in Seq(Bytes) /\ Fits(name, Body(r))
             /\ r = FileAnswer(name) =>
                  Body(r) = SubSeq(FileAnswer(name), HEADER + 1, Len(FileAnswer(name)))
  <2>1. Body(r) \in Seq(Bytes) /\ (IsPrefix(Body(r), Beginning) \/ IsPrefix(Body(r), body))
    BY <1>2, KeepsBody
  <2>2. Len(Found(body)) = Len(body) + 3 /\ Len(body) \in Nat
    BY FoundParts, LenProperties
  <2>3. ~(Len(Found(body)) < HEADER)
    BY <2>2 DEF HEADER
  <2> QED BY <1>2, <2>1, <2>3 DEF Body, Fits
<1>3. CASE name = Meta(p) /\ published[p] # 0
  <2>1. published[p] \in Versions
    BY <1>3
  <2>2. FileAnswer(name) = Found(Json(p, published[p])) /\ Json(p, published[p]) \in Seq(Bytes)
    BY <1>3, <2>1, Answers, PackageBytes
  <2>3. \A s : IsPrefix(s, Json(p, published[p])) => Fits(name, s)
    BY <1>3, <2>1 DEF Fits
  <2> QED BY <1>2, <2>2, <2>3
<1>4. CASE name = Source(p) /\ published[p] # 0
  <2>1. published[p] \in Versions
    BY <1>4
  <2>2. FileAnswer(name) = Found(Code(p, published[p])) /\ Code(p, published[p]) \in Seq(Bytes)
    BY <1>4, <2>1, Answers, PackageBytes
  <2>3. \A s : IsPrefix(s, Code(p, published[p])) => Fits(name, s)
    BY <1>4, <2>1 DEF Fits
  <2> QED BY <1>2, <2>2, <2>3
<1> QED BY <1>1, <1>3, <1>4, Answers

LEMMA CallForms ==
  /\ \A n \in DirNames : Dir(n) \in Call /\ Dir(n).dir /\ Dir(n).name = n
  /\ \A n \in PkgFiles, bytes \in Seq(Bytes) :
       /\ Write(n, bytes) \in Call /\ ~Write(n, bytes).dir
       /\ Write(n, bytes).name = n /\ Write(n, bytes).bytes = bytes
<1>1. \A n : Dir(n) = [dir |-> TRUE, name |-> n, bytes |-> << >>]
  BY DEF Dir
<1>2. \A n, bytes : Write(n, bytes) = [dir |-> FALSE, name |-> n, bytes |-> bytes]
  BY DEF Write
<1>3. \A n \in DirNames : Dir(n) \in Call
  <2>1. << >> \in Seq(Bytes)
    OBVIOUS
  <2> QED BY <1>1, <2>1 DEF Call
<1>4. \A n \in PkgFiles, bytes \in Seq(Bytes) : Write(n, bytes) \in Call
  BY <1>2 DEF Call
<1>5. \A n : Dir(n).dir = TRUE /\ Dir(n).name = n
  BY <1>1
<1>6. \A n, bytes : /\ Write(n, bytes).dir = FALSE
                    /\ Write(n, bytes).name = n /\ Write(n, bytes).bytes = bytes
  BY <1>2
<1> QED BY <1>3, <1>4, <1>5, <1>6

LEMMA ThreeAndMore ==
  ASSUME NEW S, NEW a \in S, NEW b \in S, NEW c \in S, NEW s \in Seq(S)
  PROVE  /\ << a, b, c >> \o s \in Seq(S)
         /\ Len(<< a, b, c >> \o s) = 3 + Len(s) /\ (<< a, b, c >> \o s)[3] = c
         /\ \A i \in 1..(3 + Len(s)) :
              \/ (<< a, b, c >> \o s)[i] \in {a, b, c}
              \/ i - 3 \in 1..Len(s) /\ (<< a, b, c >> \o s)[i] = s[i - 3]
<1> DEFINE t == << a, b, c >>
<1>1. t \in Seq(S) /\ Len(t) = 3 /\ t[3] = c /\ \A i \in 1..3 : t[i] \in {a, b, c}
  OBVIOUS
<1>2. Len(s) \in Nat
  BY LenProperties
<1> HIDE DEF t
<1>3. /\ t \o s \in Seq(S) /\ Len(t \o s) = Len(t) + Len(s)
      /\ \A i \in 1..(Len(t) + Len(s)) : (t \o s)[i] = IF i <= Len(t) THEN t[i] ELSE s[i - Len(t)]
  BY <1>1, ConcatProperties
<1>4. 3 \in 1..(Len(t) + Len(s)) /\ 3 <= Len(t)
  BY <1>1, <1>2
<1>5. ASSUME NEW i \in 1..(3 + Len(s))
      PROVE  (t \o s)[i] \in {a, b, c} \/ (i - 3 \in 1..Len(s) /\ (t \o s)[i] = s[i - 3])
  <2>1. CASE i <= 3
    <3>1. i \in 1..3
      BY <1>2, <2>1
    <3> QED BY <1>1, <1>3, <2>1, <3>1
  <2>2. CASE ~(i <= 3)
    <3>1. i - 3 \in 1..Len(s)
      BY <1>2, <2>2
    <3> QED BY <1>1, <1>3, <2>2, <3>1
  <2> QED BY <2>1, <2>2
<1>6. Len(t \o s) = 3 + Len(s) /\ (t \o s)[3] = c
  BY <1>1, <1>3, <1>4
<1> QED BY <1>3, <1>5, <1>6 DEF t

LEMMA FetchMetaKeeps ==
  ASSUME InstallInv, NEW p \in Pkgs, FetchMeta(p)
  PROVE  InstallInv'
<1> DEFINE answer == FileAnswer(Meta(p))
           four(r) == << Dir(PackagesDir), Dir(Base(p)), Write(Meta(p), Body(r)) >>
                        \o IF entry' = NoEntry THEN << >> ELSE << Dir(SrcDir(p)) >>
<1>0. PICK r \in Responses(answer, META_LEN) : \E ok \in Status(r) :
        /\ complete' = (r = answer)
        /\ entry' = EntryOf(p, r)
        /\ served' = [meta |-> SubSeq(answer, HEADER + 1, Len(answer)), source |-> << >>]
        /\ IF ok THEN pc' = "meta" /\ said' = "Installing" /\ calls' = four(r)
           ELSE Says("failed to fetch package.json")
  BY DEF FetchMeta
<1>1. PICK ok \in Status(r) :
        /\ complete' = (r = answer)
        /\ entry' = EntryOf(p, r)
        /\ served' = [meta |-> SubSeq(answer, HEADER + 1, Len(answer)), source |-> << >>]
        /\ IF ok THEN pc' = "meta" /\ said' = "Installing" /\ calls' = four(r)
           ELSE Says("failed to fetch package.json")
  BY <1>0
<1>2. /\ UNCHANGED << vars, published, overgrown >> /\ pkg' = p
      /\ entry' \in {NoEntry, CutSource(p), Source(p)}
      /\ served' = [meta |-> served'.meta, source |-> served'.source]
  BY <1>1 DEF FetchMeta, EntryOf
<1>3. Table'
  BY <1>2, SameFiles DEF InstallInv
<1>4. CASE ~ok
  <2>1. pc' = "idle" /\ calls' = << >> /\ said' # "installed"
    BY <1>1, <1>4 DEF Says
  <2>2. calls' \in Seq(Call) /\ \A i \in 1..Len(calls') : RightCall(calls[i])'
    BY <2>1, NoCalls
  <2>3. Plan'
    BY <1>2, <2>1, <2>2 DEF InstallInv, Plan
  <2> QED BY <1>3, <2>1, <2>3 DEF InstallInv, Progress, InstalledIsServed
<1>5. CASE ok
  <2>1. TRUE \in Status(r)
    <3>1. ok \in BOOLEAN
      BY <1>1 DEF Status
    <3>2. ok = TRUE
      BY <1>5, <3>1
    <3> QED BY <1>1, <3>2
  <2>2. /\ Body(r) \in Seq(Bytes) /\ Fits(Meta(p), Body(r))
        /\ r = answer => Body(r) = SubSeq(answer, HEADER + 1, Len(answer))
    <3>1. META_LEN \in Nat \ {0} /\ published \in [Pkgs -> Versions \cup {0}]
      BY PackagesAssumption DEF InstallInv, Plan
    <3> QED BY <2>1, <3>1, AnswerFits
  <2>3. pc' = "meta" /\ said' = "Installing" /\ calls' = four(r)
    BY <1>1, <1>5
  <2>4. complete' => Body(r) = served'.meta
    BY <1>1, <2>2
  <2>5. /\ \A n \in DirNames : Dir(n) \in Call /\ Dir(n).dir /\ Dir(n).name = n
        /\ Write(Meta(p), Body(r)) \in Call /\ ~Write(Meta(p), Body(r)).dir
        /\ Write(Meta(p), Body(r)).name = Meta(p) /\ Write(Meta(p), Body(r)).bytes = Body(r)
    BY <2>2, NamesApart, CallForms
  <2>6. Base(p) \in DirNames /\ SrcDir(p) \in DirNames /\ PackagesDir \in DirNames
    BY NamesApart
  <2>7. RightCall(Write(Meta(p), Body(r)))'
    BY <1>2, <2>2, <2>3, <2>4, <2>5, NamesApart DEF RightCall, Fits
  <2>8. \A n \in DirNames : RightCall(Dir(n))'
    BY <2>5 DEF RightCall
  <2>9. /\ calls' \in Seq(Call) /\ \A i \in 1..Len(calls') : RightCall(calls[i])'
        /\ 3 \in 1..Len(calls') /\ calls'[3] = Write(Meta(p), Body(r))
    <3> DEFINE a == Dir(PackagesDir)
               b == Dir(Base(p))
               c == Write(Meta(p), Body(r))
               d == Dir(SrcDir(p))
    <3>1. a \in Call /\ b \in Call /\ c \in Call /\ d \in Call
      BY <2>5, <2>6
    <3>2. RightCall(a)' /\ RightCall(b)' /\ RightCall(c)' /\ RightCall(d)'
      BY <2>6, <2>7, <2>8
    <3>3. PICK rest : calls' = << a, b, c >> \o rest /\ (rest = << >> \/ rest = << d >>)
      BY <2>3
    <3> HIDE DEF a, b, c, d, answer, four
    <3>4. rest \in Seq(Call) /\ Len(rest) \in Nat /\ \A i \in 1..Len(rest) : rest[i] = d
      <4>1. CASE rest = << >>
        BY <4>1, NoCalls
      <4>2. CASE rest = << d >>
        BY <3>1, <4>2
      <4> QED BY <3>3, <4>1, <4>2
    <3>5. /\ calls' \in Seq(Call) /\ Len(calls') = 3 + Len(rest) /\ calls'[3] = c
          /\ \A i \in 1..(3 + Len(rest)) :
               calls'[i] \in {a, b, c} \/ (i - 3 \in 1..Len(rest) /\ calls'[i] = rest[i - 3])
      <4>1. PICK all : all = << a, b, c >> \o rest
        OBVIOUS
      <4>2. /\ all \in Seq(Call) /\ Len(all) = 3 + Len(rest) /\ all[3] = c
            /\ \A i \in 1..(3 + Len(rest)) :
                 all[i] \in {a, b, c} \/ (i - 3 \in 1..Len(rest) /\ all[i] = rest[i - 3])
        BY <3>1, <3>4, <4>1, ThreeAndMore
      <4>3. calls' = all
        BY <3>3, <4>1
      <4> QED BY <4>2, <4>3
    <3>6. \A i \in 1..Len(calls') : calls'[i] \in {a, b, c, d}
      BY <3>4, <3>5
    <3>7. \A i \in 1..Len(calls') : RightCall(calls[i])'
      BY <3>2, <3>6
    <3>8. 3 \in 1..Len(calls')
      BY <3>4, <3>5
    <3> QED BY <3>5, <3>7, <3>8 DEF c
  <2>10. Plan'
    BY <1>2, <2>3, <2>9 DEF InstallInv, Plan
  <2>11. Waits(Meta(pkg))'
    BY <1>2, <2>5, <2>9 DEF Waits
  <2>12. Progress' /\ InstalledIsServed'
    BY <2>3, <2>11 DEF Progress, InstalledIsServed
  <2> QED BY <1>3, <2>10, <2>12 DEF InstallInv
<1> QED BY <1>4, <1>5

LEMMA FetchSourceKeeps ==
  ASSUME InstallInv, FetchSource
  PROVE  InstallInv'
<1> DEFINE answer == FileAnswer(entry)
<1>0. PICK r \in Responses(answer, BUFFER_SIZE) : \E ok \in Status(r) :
        /\ complete' = (complete /\ r = answer)
        /\ served' = [served EXCEPT !.source = SubSeq(answer, HEADER + 1, Len(answer))]
        /\ IF ok
           THEN pc' = "source" /\ calls' = << Write(entry, Body(r)) >> /\ UNCHANGED said
           ELSE Says("failed to fetch source")
  BY DEF FetchSource
<1>1. PICK ok \in Status(r) :
        /\ complete' = (complete /\ r = answer)
        /\ served' = [served EXCEPT !.source = SubSeq(answer, HEADER + 1, Len(answer))]
        /\ IF ok
           THEN pc' = "source" /\ calls' = << Write(entry, Body(r)) >> /\ UNCHANGED said
           ELSE Says("failed to fetch source")
  BY <1>0
<1>2. /\ UNCHANGED << vars, published, overgrown, pkg, entry >>
      /\ pc = "meta" /\ calls = << >> /\ entry \in {CutSource(pkg), Source(pkg)} /\ pkg \in Pkgs
      /\ entry # NoEntry
  BY DEF FetchSource, CallsMade, InstallInv, Plan
<1>3. Table' /\ \A n, b : Done(n, b)' <=> Done(n, b)
  BY <1>2, SameFiles DEF InstallInv
<1>4. CASE ~ok
  <2>1. Says("failed to fetch source")
    BY <1>1, <1>4
  <2>2. served' = [meta |-> served'.meta, source |-> served'.source]
    BY <1>1 DEF InstallInv, Plan
  <2> QED BY <1>2, <2>1, <2>2, EndsOtherwise
<1>5. CASE ok
  <2>1. TRUE \in Status(r)
    <3>1. ok \in BOOLEAN
      BY <1>1 DEF Status
    <3>2. ok = TRUE
      BY <1>5, <3>1
    <3> QED BY <1>1, <3>2
  <2>2. /\ Body(r) \in Seq(Bytes) /\ Fits(entry, Body(r))
        /\ r = answer => Body(r) = SubSeq(answer, HEADER + 1, Len(answer))
    <3>1. BUFFER_SIZE \in Nat \ {0} /\ published \in [Pkgs -> Versions \cup {0}]
      BY PackagesAssumption DEF InstallInv, Plan
    <3>2. entry \in {Meta(pkg), Source(pkg), CutSource(pkg)}
      BY <1>2
    <3> QED BY <1>2, <2>1, <3>1, <3>2, AnswerFits
  <2>3. pc' = "source" /\ said' = said /\ calls' = << Write(entry, Body(r)) >>
    BY <1>1, <1>5
  <2> PICK c : c = Write(entry, Body(r))
    OBVIOUS
  <2>4. /\ entry \in PkgFiles /\ c \in Call /\ ~c.dir /\ c.name = entry /\ c.bytes = Body(r)
    BY <1>2, <2>2, NamesApart, CallForms
  <2>5. said # "installed"
    BY <1>2 DEF InstallInv, Progress
  <2>6. InstalledIsServed'
    BY <2>3, <2>5 DEF InstalledIsServed
  <2>7. complete /\ ~overgrown => Done(Meta(pkg), served.meta)
    <3>1. ~Waits(Meta(pkg))
      BY <1>2, NoCalls DEF Waits
    <3> QED BY <1>2, <3>1 DEF InstallInv, Progress
  <2>8. complete' => complete /\ Body(r) = SubSeq(answer, HEADER + 1, Len(answer))
    BY <1>1, <2>2
  <2>9. /\ served' = [meta |-> served'.meta, source |-> served'.source]
        /\ served.meta = served'.meta /\ served'.source = SubSeq(answer, HEADER + 1, Len(answer))
    BY <1>1 DEF InstallInv, Plan
  <2>10. RightCall(c)'
    BY <1>2, <2>2, <2>3, <2>4, <2>8, <2>9 DEF RightCall, Fits
  <2> HIDE DEF answer
  <2>11. /\ calls' \in Seq(Call) /\ 1 \in 1..Len(calls') /\ calls'[1] = c
         /\ \A i \in 1..Len(calls') : calls'[i] = c
    BY <2>3, <2>4
  <2>12. \A i \in 1..Len(calls') : RightCall(calls[i])'
    BY <2>10, <2>11
  <2>13. Plan'
    BY <1>2, <2>3, <2>9, <2>11, <2>12 DEF InstallInv, Plan
  <2>14. Waits(entry)'
    BY <1>2, <2>4, <2>11 DEF Waits
  <2>15. Progress'
    BY <1>2, <1>3, <2>3, <2>5, <2>7, <2>8, <2>9, <2>14 DEF Progress
  <2> QED BY <1>3, <2>6, <2>13, <2>15 DEF InstallInv
<1> QED BY <1>4, <1>5

LEMMA InstalledKeeps ==
  ASSUME InstallInv, Installed
  PROVE  InstallInv'
<1>1. /\ UNCHANGED << vars, pkg, entry, served, complete, published, overgrown >>
      /\ pc = "source" /\ calls = << >>
      /\ pc' = "idle" /\ said' = "installed" /\ calls' = << >>
  BY DEF Installed, CallsMade, Says
<1>2. Table' /\ \A n, b : Done(n, b)' <=> Done(n, b)
  BY <1>1, SameFiles DEF InstallInv
<1>3. \A n : ~Waits(n)
  BY <1>1, NoCalls DEF Waits
<1>4. complete /\ ~overgrown => Done(Meta(pkg), served.meta) /\ Done(entry, served.source)
  BY <1>1, <1>3 DEF InstallInv, Progress
<1>5. InstalledIsServed'
  BY <1>1, <1>2, <1>4, InstalledMeansNext
<1>6. Plan'
  <2>1. calls' \in Seq(Call) /\ \A i \in 1..Len(calls') : RightCall(calls[i])'
    BY <1>1, NoCalls
  <2> QED BY <1>1, <2>1 DEF InstallInv, Plan
<1> QED BY <1>1, <1>2, <1>5, <1>6 DEF InstallInv, Progress

LEMMA RmKeeps ==
  ASSUME InstallInv, NEW name \in PkgFiles, Rm(name)
  PROVE  InstallInv'
<1>1. /\ UNCHANGED << pkg, entry, published, served, complete, overgrown >>
      /\ fs_delete(name)
      /\ pc' = "idle" /\ said' = "deleted" /\ calls' = << >>
  BY DEF Rm, Says
<1>2. name \in Names
  BY NamesApart
<1>3. Sound' /\ (ExtentsDisjoint => ExtentsDisjoint')
  BY <1>1, <1>2, DeleteStep DEF InstallInv, Table
<1>4. \A j \in Used' : j \in Used /\ files'[j] = files[j]
  BY <1>1, DeleteFrame DEF InstallInv, Table
<1>5. \A j \in Used' : Shown(files[j])' = Shown(files[j])
  BY <1>1, <1>4 DEF fs_delete, Shown
<1>6. StoredAsNamed'
  BY <1>1, <1>4, <1>5, Stored, StoredNext DEF InstallInv, Table
<1>7. Plan'
  <2>1. calls' \in Seq(Call) /\ \A i \in 1..Len(calls') : RightCall(calls[i])'
    BY <1>1, NoCalls
  <2> QED BY <1>1, <2>1 DEF InstallInv, Plan
<1> QED BY <1>1, <1>3, <1>6, <1>7 DEF InstallInv, Table, Progress, InstalledIsServed

(* A call of an install, which is dropped when the file system has no room. *)
LEMMA CallOnFiles ==
  ASSUME InstallInv, FsCall, NEW c, c = Head(calls)
  PROVE  /\ calls # << >> /\ c \in Call /\ RightCall(c)
         /\ Table'
         /\ ~overgrown' => OnlyName(c.name)
         /\ num_files' = num_files \/ num_files' = num_files + 1
         /\ ~c.dir /\ ~overgrown' => Done(c.name, c.bytes)'
<1>1. /\ calls # << >> /\ calls \in Seq(Call) /\ \A i \in 1..Len(calls) : RightCall(calls[i])
      /\ overgrown' = (overgrown \/ spilled' \/ (~c.dir /\ ~CarefulWrite(c.name, Len(c.bytes))))
      /\ Sound /\ (~overgrown => ExtentsDisjoint)
      /\ ~overgrown => \A i \in Used : Fits(files[i].name, Shown(files[i]))
  BY Stored DEF FsCall, InstallInv, Plan, Table
<1>2. IF c.dir
      THEN IF CanCreate(c.name) THEN fs_create(c.name, TRUE) ELSE UNCHANGED vars
      ELSE IF fs_exists(c.name) \/ CanCreate(c.name) THEN fs_write(c.name, c.bytes)
           ELSE UNCHANGED vars
  BY DEF FsCall
<1>3. c \in Call /\ RightCall(c)
  <2>1. 1 \in 1..Len(calls) /\ Head(calls) = calls[1]
    BY <1>1
  <2> QED BY <1>1, <2>1, LenProperties
<1>4. c.name \in Names /\ c.dir \in BOOLEAN /\ c.bytes \in Seq(Bytes)
  BY <1>3, NamesApart DEF Call
<1>5. CASE UNCHANGED vars /\ (c.dir \/ (~fs_exists(c.name) /\ ~CanCreate(c.name)))
  <2>1. Sound' /\ (ExtentsDisjoint => ExtentsDisjoint')
    BY <1>1, <1>5 DEF vars, Sound, InBounds, CountIsRight, UniqueNames, ExtentsBelowWatermark,
           ExtentsDisjoint, Used
  <2>2. /\ Used' = Used /\ files' = files /\ \A j \in Used : Shown(files[j])' = Shown(files[j])
        /\ num_files' = num_files
    BY <1>5 DEF vars, Used, Shown
  <2>3. StoredAsNamed'
    BY <1>1, <2>2, StoredNext
  <2>4. OnlyName(c.name)
    BY <2>2 DEF OnlyName
  <2>5. ASSUME ~c.dir PROVE Done(c.name, c.bytes)'
    <3>1. num_files = FS_MAX_FILES /\ ~fs_exists(c.name)
      BY <1>1, <1>5, <2>5, NoRoom
    <3>2. ~fs_exists(c.name)'
      BY <2>2, <3>1 DEF fs_exists, fs_find
    <3> QED BY <2>2, <3>1, <3>2 DEF Done
  <2> QED BY <1>1, <1>3, <1>4, <2>1, <2>2, <2>3, <2>4, <2>5 DEF Table
<1>6. CASE c.dir /\ fs_create(c.name, TRUE)
  <2>1. Sound' /\ (ExtentsDisjoint => ExtentsDisjoint')
    BY <1>1, <1>4, <1>6, CreateStep
  <2>2. OnlyName(c.name) /\ num_files' = num_files + 1
    BY <1>1, <1>6, CreateFrame
  <2>3. c.name \notin PkgFiles
    BY <1>3, <1>6, NamesApart DEF RightCall
  <2>4. ~overgrown' => \A j \in Used' : Fits(files'[j].name, Shown(files[j])')
    BY <1>1, <2>2, <2>3 DEF OnlyName, Fits
  <2>5. StoredAsNamed'
    BY <2>4, StoredNext
  <2> QED BY <1>1, <1>3, <1>4, <1>6, <2>1, <2>2, <2>5 DEF Table
<1>7. CASE ~c.dir /\ fs_write(c.name, c.bytes)
  <2>1. c.bytes \in Contents /\ Len(c.bytes) <= FS_MAX_FILESIZE
    <3>1. Len(c.bytes) <= FS_MAX_FILESIZE /\ Len(c.bytes) \in Nat /\ c.bytes \in [1..Len(c.bytes) -> Bytes]
      BY <1>4, <1>7, LenProperties DEF fs_write
    <3>2. Len(c.bytes) \in 0..(FS_MAX_FILESIZE + 1)
      BY <3>1, Sizes
    <3> QED BY <3>1, <3>2 DEF Contents
  <2>2. Sound' /\ (ExtentsDisjoint /\ CarefulWrite(c.name, Len(c.bytes)) => ExtentsDisjoint')
    BY <1>1, <1>4, <1>7, <2>1, WriteStep
  <2>3. spilled' => UNCHANGED num_files
    BY <1>7 DEF fs_write, Intact, Stores, WriteOld, WriteNew, WriteBehind
  <2>4. ~overgrown' => ~overgrown /\ ExtentsDisjoint' /\ ~spilled'
    BY <1>1, <1>7, <2>2
  <2>5. PICK n, bytes : n = c.name /\ bytes = c.bytes
    OBVIOUS
  <2>6. ASSUME ~overgrown'
        PROVE  /\ OnlyName(n) /\ Done(n, bytes)'
               /\ \A j \in Used' : files'[j].name = n => Shown(files[j])' = bytes
    BY <1>1, <1>7, <2>1, <2>2, <2>4, <2>5, <2>6, WriteFrame DEF Done
  <2>7. num_files' = num_files \/ num_files' = num_files + 1
    <3>1. CASE ~spilled'
      <4>1. PICK i \in Slots : Written(i, c.name, c.bytes)
        BY <1>1, <1>7, <3>1, WriteEntry
      <4> QED BY <4>1 DEF Written
    <3> QED BY <2>3, <3>1
  <2>8. ASSUME ~overgrown', NEW j \in Used' PROVE Fits(files'[j].name, Shown(files[j])')
    <3>1. Fits(n, bytes)
      BY <1>3, <1>7, <2>5 DEF RightCall
    <3>2. CASE files'[j].name = n
      BY <2>6, <2>8, <3>1, <3>2
    <3>3. CASE files'[j].name # n
      <4>1. j \in Used /\ files'[j] = files[j]
        BY <2>6, <2>8, <3>3 DEF OnlyName
      <4>2. Shown(files[j])' = Shown(files[j])
        BY <2>6, <2>8, <3>3, <4>1 DEF OnlyName
      <4> QED BY <1>1, <2>4, <2>8, <4>1, <4>2
    <3> QED BY <3>2, <3>3
  <2>9. StoredAsNamed'
    BY <2>8, StoredNext
  <2> QED BY <1>1, <1>3, <1>4, <1>7, <2>2, <2>4, <2>5, <2>6, <2>7, <2>9 DEF Table
<1> QED BY <1>2, <1>4, <1>5, <1>6, <1>7

LEMMA FsCallKeeps ==
  ASSUME InstallInv, FsCall
  PROVE  InstallInv'
<1>1. PICK c : c = Head(calls)
  OBVIOUS
<1>2. /\ calls # << >> /\ c \in Call /\ RightCall(c)
      /\ Table'
      /\ ~overgrown' => OnlyName(c.name)
      /\ num_files' = num_files \/ num_files' = num_files + 1
      /\ ~c.dir /\ ~overgrown' => Done(c.name, c.bytes)'
  BY <1>1, CallOnFiles
<1>3. /\ calls' = Tail(calls) /\ (~overgrown' => ~overgrown)
      /\ UNCHANGED << pc, pkg, entry, said, published, served, complete >>
  BY DEF FsCall
<1>4. /\ pc \in {"meta", "source"} /\ entry \in {NoEntry, CutSource(pkg), Source(pkg)}
      /\ (pc = "source" => entry # NoEntry) /\ pkg \in Pkgs
      /\ calls \in Seq(Call) /\ \A i \in 1..Len(calls) : RightCall(calls[i])
  BY <1>2 DEF InstallInv, Plan
<1>5. /\ calls' \in Seq(Call) /\ Len(calls') = Len(calls) - 1 /\ Len(calls) \in Nat /\ c = calls[1]
      /\ \A i \in 1..Len(calls') : i + 1 \in 1..Len(calls) /\ calls'[i] = calls[i + 1]
  BY <1>1, <1>2, <1>3, <1>4
<1>6. \A d : RightCall(d) <=> RightCall(d)'
  BY <1>3 DEF RightCall
<1>7. Plan'
  BY <1>3, <1>5, <1>6 DEF InstallInv, Plan
<1>8. ASSUME NEW n, ~Waits(n)', ~(~c.dir /\ c.name = n)
      PROVE  ~Waits(n)
  <2> SUFFICES ASSUME NEW i \in 1..Len(calls), ~calls[i].dir, calls[i].name = n
               PROVE  FALSE
    BY DEF Waits
  <2>1. i # 1
    BY <1>5, <1>8
  <2>2. i - 1 \in 1..Len(calls') /\ (i - 1) + 1 = i
    BY <1>5, <2>1
  <2>3. calls'[i - 1] = calls[i]
    BY <1>5, <2>2
  <2> QED BY <1>8, <2>2, <2>3 DEF Waits
<1>9. ASSUME NEW n \in PkgFiles, NEW bytes, ~overgrown', ~Waits(n)',
             ~Waits(n) => Done(n, bytes),
             ~c.dir /\ c.name = n => c.bytes = bytes
      PROVE  Done(n, bytes)'
  <2>1. CASE ~c.dir /\ c.name = n
    BY <1>2, <1>9, <2>1
  <2>2. CASE ~(~c.dir /\ c.name = n)
    <3>1. Done(n, bytes)
      BY <1>8, <1>9, <2>2
    <3>2. c.name # n
      BY <1>2, <2>2, NamesApart DEF RightCall
    <3>3. Sound /\ Sound'
      BY <1>2 DEF InstallInv, Table
    <3> QED BY <1>2, <1>9, <3>1, <3>2, <3>3, DoneStays
  <2> QED BY <2>1, <2>2
<1>10. ASSUME complete', ~overgrown', ~Waits(Meta(pkg))'
       PROVE  Done(Meta(pkg), served.meta)'
  <2>1. PICK n, bytes : n = Meta(pkg) /\ bytes = served.meta
    OBVIOUS
  <2>2. n = Meta(pkg)' /\ bytes = served'.meta /\ n \in PkgFiles
    BY <1>3, <1>4, <2>1, NamesApart DEF Meta
  <2>3. ~Waits(n)'
    BY <1>10, <2>2
  <2>4. ~Waits(n) => Done(n, bytes)
    BY <1>3, <1>4, <1>10, <2>1 DEF InstallInv, Progress
  <2>5. ~c.dir /\ c.name = n => c.bytes = bytes
    <3>1. entry # n
      BY <1>4, <2>1, NamesApart
    <3> QED BY <1>2, <1>3, <1>4, <1>10, <2>1, <3>1 DEF RightCall
  <2>6. Done(n, bytes)'
    BY <1>9, <1>10, <2>2, <2>3, <2>4, <2>5
  <2> QED BY <2>2, <2>6
<1>11. ASSUME pc' = "source", complete', ~overgrown', ~Waits(entry)'
       PROVE  Done(entry, served.source)'
  <2>1. PICK n, bytes : n = entry /\ bytes = served.source
    OBVIOUS
  <2>2. n = entry' /\ bytes = served'.source /\ n \in PkgFiles
    BY <1>3, <1>4, <1>11, <2>1, NamesApart
  <2>3. ~Waits(n)'
    BY <1>11, <2>2
  <2>4. ~Waits(n) => Done(n, bytes)
    BY <1>3, <1>11, <2>1 DEF InstallInv, Progress
  <2>5. ~c.dir /\ c.name = n => c.bytes = bytes
    BY <1>2, <1>3, <1>11, <2>1 DEF RightCall
  <2>6. Done(n, bytes)'
    BY <1>9, <1>11, <2>2, <2>3, <2>4, <2>5
  <2> QED BY <2>2, <2>6
<1>12. said' # "installed"
  BY <1>3, <1>4 DEF InstallInv, Progress
<1>13. Progress' /\ InstalledIsServed'
  BY <1>10, <1>11, <1>12 DEF Progress, InstalledIsServed
<1> QED BY <1>2, <1>7, <1>13 DEF InstallInv

LEMMA InstallStep == InstallInv /\ [PkgNext]_pkgVars => InstallInv'
<1> SUFFICES ASSUME InstallInv, [PkgNext]_pkgVars PROVE InstallInv'
  OBVIOUS
<1>1. CASE UNCHANGED pkgVars
  <2>1. UNCHANGED << vars, pc, pkg, entry, calls, said, served, complete, published, overgrown >>
    BY <1>1 DEF pkgVars, shell
  <2>2. Table' /\ \A n, b : Done(n, b)' <=> Done(n, b)
    BY <2>1, SameFiles DEF InstallInv
  <2>3. Plan' /\ Progress'
    BY <2>1, <2>2 DEF InstallInv, Plan, RightCall, Progress, Waits
  <2>4. InstalledIsServed'
    BY <2>1, <2>2, InstalledMeans, InstalledMeansNext DEF InstallInv
  <2> QED BY <2>2, <2>3, <2>4 DEF InstallInv
<1>2. CASE PkgTest \/ PkgList
  <2>1. PICK words : words # "installed" /\ Says(words)
    BY <1>2 DEF PkgTest, PkgList
  <2>2. UNCHANGED << vars, overgrown, pkg, entry, published, served >>
    BY <1>2 DEF PkgTest, PkgList
  <2> QED BY <2>1, <2>2, EndsOtherwise DEF InstallInv, Plan
<1>3. CASE InvalidPackage
  <2>1. Says("invalid package.json (no entry)")
    BY <1>3 DEF InvalidPackage
  <2>2. UNCHANGED << vars, overgrown, pkg, entry, published, served >>
    BY <1>3 DEF InvalidPackage
  <2> QED BY <2>1, <2>2, EndsOtherwise DEF InstallInv, Plan
<1> QED BY <1>1, <1>2, <1>3, FetchSourceKeeps, InstalledKeeps, FsCallKeeps, FetchMetaKeeps,
           PublishKeeps, RmKeeps
        DEF PkgNext

(* Files, plan and promises of a command agree in every reachable state.     *)
THEOREM InstallInvariance == PkgSpec => []InstallInv
BY InstallInit, InstallStep, PTL DEF PkgSpec

(* However answers are cut, whatever the server publishes in between and     *)
(* whichever calls the file system refuses: when the shell says "installed", *)
(* package.json and source are as the server sent them, or the table is      *)
(* full.                                                                     *)
THEOREM InstallsWhatIsServed == PkgSpec => []InstalledIsServed
<1>1. InstallInv => InstalledIsServed
  BY DEF InstallInv
<1> QED BY <1>1, InstallInvariance, PTL

(* A file of a package never holds the server's error page, a header or      *)
(* bytes of another file, for every set of packages, versions and sizes.     *)
THEOREM KeepsWhatItsNameSays == PkgSpec => []StoredAsNamed
<1>1. InstallInv => StoredAsNamed
  BY DEF InstallInv, Table
<1> QED BY <1>1, InstallInvariance, PTL

(* No command but rm changes the entry or the bytes of a file of another     *)
(* package.                                                                  *)
THEOREM OthersStay == PkgSpec => OthersKept
<1> DEFINE Kept ==
      \A i \in Used :
        LET f == files[i]
        IN  (f.name \in PkgFiles /\ f.name[2] # pkg' /\ ~overgrown' /\ said' # "deleted")
              => /\ files'[i] = f
                 /\ \A k \in Extent(f) : data'[k] = data[k]
<1>1. ASSUME InstallInv, InstallInv', PkgNext PROVE Kept
  <2>1. CASE UNCHANGED vars
    BY <2>1 DEF vars
  <2>2. ASSUME NEW name \in PkgFiles, Rm(name) PROVE Kept
    BY <2>2 DEF Rm, Says
  <2>3. CASE FsCall
    <3> SUFFICES ASSUME NEW i \in Used, files[i].name \in PkgFiles, files[i].name[2] # pkg,
                        ~overgrown'
                 PROVE  /\ files'[i] = files[i]
                        /\ \A k \in Extent(files[i]) : data'[k] = data[k]
      BY <2>3 DEF FsCall
    <3>1. PICK c : c = Head(calls)
      OBVIOUS
    <3>2. calls # << >> /\ RightCall(c) /\ OnlyName(c.name)
      BY <1>1, <2>3, <3>1, CallOnFiles
    <3>3. /\ pc \in {"meta", "source"} /\ entry \in {NoEntry, CutSource(pkg), Source(pkg)}
          /\ pc = "source" => entry # NoEntry
      BY <1>1, <3>2 DEF InstallInv, Plan
    <3>4. Meta(pkg)[2] = pkg /\ Source(pkg)[2] = pkg /\ CutSource(pkg)[2] = pkg
      BY DEF Meta, Source, CutSource
    <3>5. c.name # files[i].name
      BY <3>2, <3>3, <3>4, NamesApart DEF RightCall
    <3>6. files'[i] = files[i] /\ Shown(files[i])' = Shown(files[i])
      BY <3>2, <3>5 DEF OnlyName
    <3>7. files[i].offset \in Nat /\ files[i].size \in Nat
      BY <1>1, Sizes DEF InstallInv, Table, Sound, InBounds, File, Used
    <3>8. ASSUME NEW k \in Extent(files[i]) PROVE data'[k] = data[k]
      <4>1. PICK b, size, j : b = files[i].offset /\ size = files[i].size /\ j = k - b + 1
        OBVIOUS
      <4>2. j \in 1..size /\ b + j - 1 = k
        BY <3>7, <3>8, <4>1 DEF Extent
      <4>3. Shown(files[i])[j] = data[b + j - 1]
        BY <4>1, <4>2 DEF Shown
      <4>4. Shown(files[i])'[j] = data'[b + j - 1]
        BY <3>6, <4>1, <4>2 DEF Shown
      <4> QED BY <3>6, <4>2, <4>3, <4>4
    <3> QED BY <3>6, <3>8
  <2> QED BY <1>1, <2>1, <2>2, <2>3
      DEF PkgNext, PkgTest, PkgList, FetchSource, InvalidPackage, Installed, FetchMeta, Publish
<1>2. InstallInv /\ InstallInv' /\ [PkgNext]_pkgVars => [Kept]_pkgVars
  BY <1>1
<1> QED BY <1>2, InstallInvariance, PTL DEF PkgSpec, OthersKept

-----------------------------------------------------------------------------
(* The package manager as a user of the file system. *)

(* What the shell asks for is what a user could have typed. *)
LEMMA CallIsCommand ==
  ASSUME InstallInv, FsCall
  PROVE  \/ UNCHANGED vars
         \/ \E name \in DirNames : fs_create(name, TRUE)
         \/ \E name \in Names, bytes \in Contents :
              /\ fs_write(name, bytes)
              /\ ~overgrown' => ~spilled'
<1> DEFINE c == Head(calls)
<1>1. /\ calls # << >> /\ calls \in Seq(Call) /\ \A i \in 1..Len(calls) : RightCall(calls[i])
      /\ IF c.dir
         THEN IF CanCreate(c.name) THEN fs_create(c.name, TRUE) ELSE UNCHANGED vars
         ELSE IF fs_exists(c.name) \/ CanCreate(c.name) THEN fs_write(c.name, c.bytes)
              ELSE UNCHANGED vars
      /\ ~overgrown' => ~spilled'
  BY DEF FsCall, InstallInv, Plan
<1>2. c \in Call /\ RightCall(c)
  <2>1. 1 \in 1..Len(calls) /\ c = calls[1]
    BY <1>1
  <2> QED BY <1>1, <2>1, LenProperties
<1>3. c.name \in Names /\ c.bytes \in Seq(Bytes) /\ (c.dir => c.name \in DirNames)
  BY <1>2, NamesApart DEF Call, RightCall
<1> HIDE DEF c
<1>4. ASSUME fs_write(c.name, c.bytes) PROVE c.bytes \in Contents
  <2>1. Len(c.bytes) <= FS_MAX_FILESIZE /\ Len(c.bytes) \in Nat /\ c.bytes \in [1..Len(c.bytes) -> Bytes]
    BY <1>3, <1>4, LenProperties DEF fs_write
  <2>2. Len(c.bytes) \in 0..(FS_MAX_FILESIZE + 1)
    BY <2>1, Sizes
  <2> QED BY <2>1, <2>2 DEF Contents
<1> QED BY <1>1, <1>3, <1>4

LEMMA PkgNextOnFiles ==
  ASSUME InstallInv, [PkgNext]_pkgVars
  PROVE  \/ UNCHANGED vars
         \/ FsCall
         \/ \E name \in Names : fs_delete(name)
<1>1. CASE UNCHANGED pkgVars
  BY <1>1 DEF pkgVars
<1>2. ASSUME NEW name \in PkgFiles, Rm(name) PROVE \E n \in Names : fs_delete(n)
  BY <1>2, NamesApart DEF Rm
<1> QED BY <1>1, <1>2
    DEF PkgNext, PkgTest, PkgList, FetchSource, InvalidPackage, Installed, FetchMeta, Publish

(* The commands of pkg are steps of the file system: they give it only names *)
(* and bytes that touch, mkdir, rm and write could have given it, so all     *)
(* that is proved of the file table holds under them too.                    *)
THEOREM PackagesUseFiles == PkgSpec => Spec
<1>1. PkgInit => Init
  BY DEF PkgInit
<1>2. ASSUME InstallInv, [PkgNext]_pkgVars PROVE [Next]_vars
  <2>1. ASSUME NEW name \in DirNames, fs_create(name, TRUE) PROVE Next
    BY <2>1 DEF Next, Mkdir
  <2>2. ASSUME NEW name \in Names, NEW bytes \in Contents, fs_write(name, bytes) PROVE Next
    BY <2>2 DEF Next
  <2>3. ASSUME NEW name \in Names, fs_delete(name) PROVE Next
    BY <2>3 DEF Next
  <2>4. CASE FsCall
    BY <1>2, <2>1, <2>2, <2>4, CallIsCommand
  <2> QED BY <1>2, <2>3, <2>4, PkgNextOnFiles
<1> QED BY <1>1, <1>2, InstallInvariance, PTL DEF PkgSpec, Spec

(* The file table stays sound under every series of installs and removals,   *)
(* although pkg looks at no result of fs_create and fs_write.                *)
THEOREM PackagesKeepTable == PkgSpec => []TableIsSound
BY PackagesUseFiles, TableStaysSound, PTL

(* Until a file is written that has outgrown its place, an install uses the  *)
(* file system as a store of independent files: each call changes what is    *)
(* shown under its own name only, or nothing when there is no room.  Nothing *)
(* of the user's care is assumed.                                            *)
THEOREM PackagesUseStore ==
  PkgSpec => Store!Init /\ [][~overgrown' => [Store!Next]_(Store!vars)]_pkgVars
<1>1. PkgInit => Store!Init
  BY StoreInit DEF PkgInit
<1>2. ASSUME InstallInv, InstallInv', [PkgNext]_pkgVars, ~overgrown'
      PROVE  [Store!Next]_(Store!vars)
  <2>1. Sound /\ Sound' /\ ExtentsDisjoint'
    BY <1>2 DEF InstallInv, Table
  <2>2. CASE UNCHANGED vars
    <3>1. ShownContents' = ShownContents
      BY <2>2 DEF vars, ShownContents, Shown, fs_find, First, Used
    <3>2. Directories' = Directories
      BY <2>2 DEF vars, Directories, Used
    <3> QED BY <2>2, <3>1, <3>2 DEF vars, Store!vars, Directories
  <2>3. ASSUME NEW name \in DirNames, fs_create(name, TRUE) PROVE Store!Next
    BY <2>1, <2>3, NamesApart, CreateIsStoreStep DEF Store!Next
  <2>4. ASSUME NEW name \in Names, NEW bytes \in Contents, fs_write(name, bytes),
               ~overgrown' => ~spilled'
        PROVE  Store!Next
    BY <1>2, <2>1, <2>4, WriteIsStoreStep DEF Store!Next
  <2>5. ASSUME NEW name \in Names, fs_delete(name) PROVE Store!Next
    BY <2>1, <2>5, DeleteIsStoreStep DEF Store!Next
  <2>6. CASE FsCall
    BY <1>2, <2>2, <2>3, <2>4, <2>6, CallIsCommand
  <2> QED BY <1>2, <2>2, <2>5, <2>6, PkgNextOnFiles
<1>3. InstallInv /\ InstallInv' /\ [PkgNext]_pkgVars
        => [~overgrown' => [Store!Next]_(Store!vars)]_pkgVars
  BY <1>2
<1> QED BY <1>1, <1>3, InstallInvariance, PTL DEF PkgSpec
=============================================================================
