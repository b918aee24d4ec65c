SPECIFICATION FairSpec
CONSTANTS
  KBD_BUFFER_SIZE = 3
  key_map <- KernelKeyMap
  Keys <- CtrlKeys
  MaxDown = 3
  ShortWindow = TRUE
INVARIANTS CtrlIsDown LostWakeupHasRelease
PROPERTIES IsQueue CharIsReturned CtrlCStopsPing
