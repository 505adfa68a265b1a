CONSTANTS
  m1 = m1 b = b p1 = p1 g1 = g1 r1 = r1  g2 = g2
  Messages = {m1, b}
  Blank = {b}
  Pages = {p1}
  Polls = {g1}
  Reads = {r1}
  FIFO_SIZE = 1
  MAX_MESSAGES = 1
  NoSlot = NoSlot Old = Old
SPECIFICATION FairSpec
PROPERTY InboxIsListed
CHECK_DEADLOCK FALSE
