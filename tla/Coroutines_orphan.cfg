SPECIFICATION Spec
CONSTANTS
  Tasks = {main, t1}
  Main = main
  NoTask = NoTask
  MaxFrames = 2
INVARIANT AllComplete
CHECK_DEADLOCK FALSE
