CONSTANTS
  Clients = 2
  ReqAmount = 2
  Rounds = 2
  MaxFaults = 0
SPECIFICATION Spec
INVARIANTS
  ValidatedWhenDone
  FinalIdReached
CHECK_DEADLOCK FALSE
