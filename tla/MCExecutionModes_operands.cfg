SPECIFICATION FairSpec
CONSTANTS
  NIL = NIL
  cMain = cMain
  cF = cF
  cG = cG
  Closure <- MCClosure
  StackSize = 48
  FrameLimit = 12
  Programs <- OperandPrograms
  Optimized = {}
  Fuel = 12
  MaxSteps = 150
INVARIANT SameInBothModes
CHECK_DEADLOCK FALSE
