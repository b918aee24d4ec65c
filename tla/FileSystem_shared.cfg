SPECIFICATION Spec
CONSTANTS
  FS_MAX_FILES = 3
  FS_MAX_FILESIZE = 2
  FileNames = {f, g}
  DirNames = {root, packages}
  RootDir = root
  PackagesDir = packages
  NoByte = zero
  Bytes = {x, y}
  Careful = FALSE
PROPERTIES IsFileStore
