CONSTANTS
  Lengths = {1, 2}
  MaxLength = 2
  Capacities = {2, 3}
  MaxCapacity = 3
  MaxPackets = 5
  LastFlush = 2
SPECIFICATION FairSpec
INVARIANTS
  IsStream
  PushRecountCovers
  BoundedOvershoot
  ReportInRange
PROPERTY EveryByteTaken
CHECK_DEADLOCK FALSE
