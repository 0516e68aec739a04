SPECIFICATION FairSpec
CONSTANTS
  NIL = NIL
  cMain = cMain
  cF = cF
  cG = cG
  Closure <- MCClosure
  StackSize = 48
  FrameLimit = 12
  Programs <- MCPrograms
  Optimized <- ShortPrograms
  Fuel = 12
  MaxSteps = 150
INVARIANTS ModesAgree StackInShape
PROPERTIES CallersKept NoRaiseKept Halts
CHECK_DEADLOCK FALSE
