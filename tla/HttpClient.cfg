SPECIFICATION FairSpec
CONSTANTS
  FIRST_PORT = 1
  LAST_PORT = 2
  BUFFER_SIZE = 4
  max_len = 3
  AnswerLengths = {2, 4}
  SegmentSize = 2
  MaxRequests = 2
  MaxInFlight = 2
  StrangerSeqs = {3}
  MaxDisturbances = 1
INVARIANTS TypeOK NoCrossTalk FinMeansComplete ResultIsPrefix AcksOnlySent
PROPERTIES RequestReturns
CHECK_DEADLOCK FALSE
