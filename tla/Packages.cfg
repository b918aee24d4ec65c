SPECIFICATION PkgSpec
CONSTANTS
  Pkgs = {"bread", "milk"}
  Versions = {1, 2, 3}
  JsonSize <- MCJsonSize
  SourceSize <- MCSourceSize
  META_LEN = 8
  BUFFER_SIZE = 8
  MaxCommands = 2
  FS_MAX_FILES = 8
  FS_MAX_FILESIZE = 8
  FileNames <- PkgFiles
  DirNames <- MCDirs
  RootDir <- MCRoot
  PackagesDir <- MCPackagesDir
  Bytes <- MCBytes
  NoByte <- MCNoByte
  Careful = FALSE
INVARIANTS InstalledIsServed StoredAsNamed
PROPERTIES OthersKept
CHECK_DEADLOCK FALSE
