SPECIFICATION FairSpec
CONSTANTS
  Conns = {c1, c2}
  Coros = {main, k1}
  Main = main
  None = None
  CounterSize = 4
INVARIANTS ConnectsCounted ConnectInv
PROPERTY LoopEnds
CHECK_DEADLOCK FALSE
