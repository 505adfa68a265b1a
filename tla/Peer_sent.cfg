CONSTANTS
  PeerCount = 1
  MAX_MESSAGES = 2
  FIFO_SIZE = 1
  MaxMsgs = 2
  MaxFaults = 0
SPECIFICATION Spec
INVARIANT SentIsDelivered
CHECK_DEADLOCK FALSE
