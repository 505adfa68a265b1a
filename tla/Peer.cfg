CONSTANTS
  PeerCount = 2
  MAX_MESSAGES = 1
  FIFO_SIZE = 1
  MaxMsgs = 2
  MaxFaults = 2
SPECIFICATION FairSpec
INVARIANTS AtMostOnce 
PROPERTIES NoRequestCutOff PeerComesBack
CHECK_DEADLOCK FALSE
