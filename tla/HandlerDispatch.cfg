SPECIFICATION Spec
CONSTANTS
  Names = {a, b}
  Handlers = {h1, h2}
  Msgs = {m1, m2}
  MaxCommands = 2
  MaxRounds = 2
SYMMETRY Alike
INVARIANTS Deliveries Answers
PROPERTY AllDelivered
CHECK_DEADLOCK FALSE
