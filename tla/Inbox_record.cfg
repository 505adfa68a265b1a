CONSTANTS
  c1 = c1 c2 = c2 a1 = a1 p1 = p1
  Conns = {c1, c2}
  Api = {}
  Terminal = {p1}
  FIFO_SIZE = 1
  MAX_MESSAGES = 3
  Earlier = 1
  Old = Old NoMsg = NoMsg
SPECIFICATION Spec
INVARIANT RecordMatches
CHECK_DEADLOCK FALSE
