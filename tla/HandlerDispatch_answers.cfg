SPECIFICATION Spec
CONSTANTS
  Names = {a}
  Handlers = {h1}
  Msgs = {m1}
  MaxCommands = 2
  MaxRounds = 2
INVARIANT AnswersResumed
CHECK_DEADLOCK FALSE
