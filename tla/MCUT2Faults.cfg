CONSTANTS
  Clients = 1
  ReqAmount = 2
  Rounds = 2
  MaxFaults = 2
SPECIFICATION FairSpec
INVARIANT ResultsEarned
PROPERTIES
  RunEnds
  WaitersEnd
CHECK_DEADLOCK FALSE
