SPECIFICATION Spec
CONSTANTS
  Conns = {c1}
  Coros = {main}
  Main = main
  None = None
  CounterSize = 4
INVARIANT ConnectResolves
CHECK_DEADLOCK FALSE
