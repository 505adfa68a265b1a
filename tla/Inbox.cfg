CONSTANTS
  c1 = c1 c2 = c2 a1 = a1 p1 = p1
  Conns = {c1, c2}
  Api = {a1}
  Terminal = {p1}
  FIFO_SIZE = 1
  MAX_MESSAGES = 2
  Earlier = 1
  Old = Old NoMsg = NoMsg
SPECIFICATION FairSpec
INVARIANTS AnswerIsTrue  ListInBounds
 
CHECK_DEADLOCK FALSE
