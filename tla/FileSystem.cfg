SPECIFICATION Spec
CONSTANTS
  FS_MAX_FILES = 3
  FS_MAX_FILESIZE = 2
  FileNames = {f}
  DirNames = {root, packages}
  RootDir = root
  PackagesDir = packages
  Bytes = {x, y}
  NoByte = zero
  Careful = TRUE
INVARIANTS TypeOK TableIsSound ExtentsDisjoint
PROPERTIES IsFileStore
SYMMETRY Symmetry
VIEW Readable
CHECK_DEADLOCK FALSE
