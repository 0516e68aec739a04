SPECIFICATION ProcessSpec
CONSTANTS
  Conns = {c1, c2}
  Msgs = {m1, m2}
INVARIANTS Handout Received
PROPERTIES LateOnesConfigured ActsAsMailbox EndWakes
CHECK_DEADLOCK FALSE
