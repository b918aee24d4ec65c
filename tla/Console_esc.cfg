SPECIFICATION FairConsole
CONSTANTS
  SCREEN_W = 3
  SCREEN_H = 3
  max = 4
  Input <- MCInput
  Outputs <- MCOutputs
  Reply <- MCReply
  key_map <- KernelKeyMap
  KeyCodes <- AppKeys
  ED_TOP = 0
  ED_LINES = 2
  ED_COLS = 3
  PAINT_TOP = 1
  PAINT_X = 1
  PAINT_Y = 2
PROPERTIES EscExits
