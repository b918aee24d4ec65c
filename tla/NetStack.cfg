SPECIFICATION FairSpec
CONSTANTS
  Hosts = {gw, h1, h2}
  Remote = {r}
  gateway_ip = gw
  NoOne = none
  CACHE = 2
  RING = 28
  MAX_POLL = 2
  MIN_LEN = 4
  MAX_LEN = 10
  Lengths = {5, 11}
  MaxRequests = 1
  MaxNested = 1
INVARIANTS TypeOK InSync ServerNeverBlocks
PROPERTIES KnownStaysKnown ThreadReturns
CHECK_DEADLOCK FALSE
