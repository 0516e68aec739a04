SPECIFICATION FairSpec
CONSTANTS
  Tasks = {main, t1, t2, t3}
  Main = main
  NoTask = NoTask
  MaxFrames = 3
INVARIANT CoroutineInv
PROPERTIES KeepsPromise Woken LoopTerminates
CHECK_DEADLOCK FALSE
