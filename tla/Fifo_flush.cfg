CONSTANTS
  w1 = w1 w2 = w2 w3 = w3 r1 = r1 r2 = r2 f1 = f1 m1 = m1 m2 = m2
  NoMsg = NoMsg NoThread = NoThread
  FIFO_SIZE = 2
  Msg = {m1}
  Writers = {w1, w3}
  NonBlocking = {w3}
  Readers = {r1, r2}
  Flushers = {f1}
SPECIFICATION Spec
INVARIANTS MutualExclusion FlushDriftBounded
SYMMETRY Sym
