SPECIFICATION Spec
CONSTANTS
  Addresses = {a, b, c}
  Sizes = {1, 2}
  UWU_MAX_ALLOCS = 4
INVARIANTS ReportIsExact DoubleFreeNeverReachesLibc
CHECK_DEADLOCK FALSE
