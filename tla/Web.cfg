CONSTANTS
  m1 = m1 b = b p1 = p1 g1 = g1 g2 = g2 r1 = r1
  Messages = {m1, b}
  Blank = {b}
  Pages = {p1}
  Polls = {g1, g2}
  Reads = {r1}
  FIFO_SIZE = 2
  MAX_MESSAGES = 2
  NoSlot = NoSlot Old = Old
SPECIFICATION FairSpec
INVARIANTS  ReadAllFindsMessages
CHECK_DEADLOCK FALSE
PROPERTIES  PageCatchesUp
