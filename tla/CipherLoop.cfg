CONSTANTS
  Alphabet <- Edges
  MSG_MAX_LEN = 3
SPECIFICATION Spec
INVARIANTS StoredIsReference RoundTrip
CHECK_DEADLOCK FALSE
