SPECIFICATION Spec
CONSTANTS
  Ops = {o1}
  Configs = {g1, g2}
  Default = g1
  Times = {1, 2}
  Written <- SixDigits
  MaxSize = 1
  TopK = 2
  MaxTrials = 2
  Patience = 1
  PopulationSize = 2
  Generations = 2
  GenPatience = 1
  MaxCalls = 4
  MaxSearches = 2
  MaxClock = 2
  Threads = {t1, t2}
  Schedules = {s1, s2}
  NoThread = NoThread
  MaxEvals = 5
  NIL = NIL
  InlineLimit = 20
  Sources <- MCSources
  RunFuel = 14
INVARIANTS
  OutputKept StopsAtFixedPoint SchedCacheSound BestIsFound EvaluatorSound
PROPERTY TuningReturns
CHECK_DEADLOCK FALSE
