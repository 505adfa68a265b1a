CONSTANTS
  k1 = k1 k2 = k2 s1 = s1
  Keyboards = {k1, k2}
  Senders = {s1}
  Keys = {110, 46}
  Kinds = {"key", "backspace", "enter"}
  Signals = TRUE
  MSG_MAX_LEN = 2
  FIFO_SIZE = 1
  NoMsg = NoMsg
  MaxStrokes = 4
SPECIFICATION FairSpec
INVARIANTS SentIsTyped StackInBounds
 
CHECK_DEADLOCK FALSE
