SPECIFICATION Spec
CONSTANTS
  Locs = {l1, l2}
  Funs = {f}
  MaxId = 2
  MaxDepth = 3
  MaxSteps = 3
  MaxRuns = 2
INVARIANTS LinesIndexed PausedStandsStill StepsEndInTime
PROPERTIES CommandsReturn
CHECK_DEADLOCK FALSE
