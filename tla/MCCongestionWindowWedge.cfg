CONSTANTS
  Lengths = {1, 2}
  MaxLength = 2
  Capacities = {2, 3}
  MaxCapacity = 3
  MaxPackets = 5
  LastFlush = 2
SPECIFICATION Spec
INVARIANT EmptyWindowAdmits
CHECK_DEADLOCK FALSE
