CONSTANTS
 ByteBase = 4
 Words = {1,15}
 FoldBit = 4
 Lengths = {0,3,8}
 Fds = {0,1}
 QueueLimit = 2
SPECIFICATION Spec
INVARIANTS TypeOK ReceiverAccepts LeaksNothing OwnDescriptor ReadIsReady
CHECK_DEADLOCK FALSE
