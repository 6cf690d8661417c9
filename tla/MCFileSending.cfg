CONSTANTS
 Kinds = {"tcp", "quic", "quiche"}
 Combos = 2
 Sizes = 2
 Clients = 1
 ReqAmount = 3
SPECIFICATION Spec
INVARIANTS SuccessIsEarned WritersApart
PROPERTY TestEnds
CHECK_DEADLOCK FALSE
