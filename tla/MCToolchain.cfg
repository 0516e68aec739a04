SPECIFICATION Spec
CONSTANTS
  Procs = {p1, p2}
  Requests <- MCRequests
  Blocks = 2
  MaxStarts = 3
  MaxKills = 1
  NoFile = NoFile
  Hole = Hole
  Texts <- MCTexts
  Kinds <- MCKinds
  MaxEdits = 1
  JitFunctions = {"main", "f"}
  JitMain = "main"
  Modules <- MCModules
  CodeSize <- MCSize
  Page = 4
  CacheSize = 10
  Addresses = {a1, a2}
  MaxLoads = 3
  MaxClears = 1
  Chans = {c1, c2, c3}
  Capacities = {1}
  Batch = 2
  MaxFrames = 4
  MaxSends = 2
  MaxStreams = 2
  Codes <- MCCodes
  NumInt = 2
  NumFloat = 2
  Short = 2
  FirstFloat = 4
  Names = {"a", "ab", "c"}
  Shorter <- MCShorter
  Requires <- MCRequires
  Manifests <- MCManifests
  Edits <- MCEdits
  Registries <- MCRegistries
  Strategies = {"Newest", "Oldest", "Minimal", "Lockfile"}
  MaxDepth = 2
  BacktrackLimit = 1
  MaxCommands = 3
  Uris = {u1, u2}
  Sources <- MCSources
  Ast <- MCAst
  Unreadable = Unreadable
  Letters = {"a", "b", "e", "f", "i", "l", "n", "t", "9"}
  Keywords <- MCKeywords
  Builtins <- MCBuiltins
  NewName <- MCNewName
  Framed = TRUE
  MaxMessages = 4
  MaxRequests = 1
  MaxUnread = 2
INVARIANTS
  CachesInOrder RunsItsOwnSource
  ParserAdvances VerdictIsRight
  EngineSound
  AllocationSound
  StreamsSound
  ResolutionSound LockReproduces
  ServerSound
CHECK_DEADLOCK FALSE
