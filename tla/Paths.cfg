SPECIFICATION Spec
CONSTANTS
  Args <- MCArgs
  FS_MAX_FILES = 4
  LIST_SIZE = 9
  MaxLength = 6
INVARIANTS OneTextPerDirectory LsShowsChildren
PROPERTIES CommandsMeanPaths
