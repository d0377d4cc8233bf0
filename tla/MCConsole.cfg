SPECIFICATION ConsoleSpec
CONSTANTS
  v1 = v1
  v2 = v2
  p1 = p1
  Users = {v1, v2}
  Ids = {p1, p2}
  NoId = NoId
  NoEntry = NoEntry
  Workers = {w1, w2}
  Unset = Unset
  Bodies <- SomeBodies
  LastTick = 2
  Asks = 2
  Failures = 1
  People = {e1, e2}
  Cmds = {c1, c2}
  Unknown = "unknown"
  Regions = {UT, CO}
  Platforms = {"twitch"}
  Null = Null
  DayLen = 2
  Under5m = 1
  Under30m = 1
  Under2h = 2
  WindowDays = 1
  LookbackDays = 1
  MinSamples = 1
  LifetimeTTL = 1
  BucketTicks = 2
  Requests = {r1, r2}
  LastHour = 5
  MaxRows = 6
  Mishaps = 1
  Reels <- Corpora
  NoConfidence <- NoConf
  MinRouteConfidence = 5
  MinCoordConfidence = 8
  MaxRouteGap = 25
  CorpusEpsilon = 1
  MaxCorpusPoints = 3
  CorpusTTL = 1
  MaxAge = 1
  Maps = {m1}
  LastHourDrawn = 3
  Edits = 1
  Blips = 1
  Seconds = {0, 1, 2, 3, 4, 5, 6, 7}
  Cuts = {0, 2}
  Tracks <- SomeRows
  Fans = {f1}
  Operators = {o1}
  Console = Console
  CoordWindow = 3
  OcrWindow = 1
  Lookback = 3
  Recuts = 2
  Marked = 2
SYMMETRY Interchangeable
CHECK_DEADLOCK FALSE
INVARIANTS
  MarksHold
  IdsAreHonest
  
  
  
  
PROPERTIES
  OneMarkEach
