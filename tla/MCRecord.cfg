SPECIFICATION RecordSpec
CONSTANTS
  a = a
  b = b
  d = d
  p1 = p1
  p2 = p2
  k1 = k1
  s1 = s1
  s2 = s2
  s3 = s3
  s4 = s4
  Clips = {a, b, d}
  NoVideo = NoVideo
  Road <- TheRoad
  NoState = ""
  Ingested = {a, b}
  Pollers = {p1, p2}
  Trackers = {k1}
  Commands = {"skip"}
  CauseWindow = 1
  StaleAfter = 1
  MaxTime = 2
  Jumps = 1
  Faults = 1
  Samplers = {p1, p2}
  Counts = {0, 1, 2, 3}
  NoReading = NoReading
  Unseeded = Unseeded
  Samples = 5
  AudienceFaults = 2
  Drives <- TheDrives
  Places = {0, 1, 13, 31}
  MaxSpeed = 6
  MinSpike = 6
  DetourRatio = 2
  MaxInterpGap = 4
  MaxGap = 5
  Passes = 2
  Recodes = 1
  Scenes = {s1, s2, s3, s4}
  NoScene = NoScene
  Day <- SceneDay
  Region <- SceneRegion
  Cell <- SceneCell
  Hour <- SceneHour
  Named = {s2}
  Undescribed = {}
  Emitters = {p1, p2}
  Throttle = 1
  TTL = 1
  Swap = 1
  LastMinute = 3
  Moves = 2
  Mishaps = 1
  Viewers = {v1, v2}
  Hooks = {p1, p2}
  Stretches = {a, b, d}
  Where <- StretchState
  PassesBy <- StretchSights
  Nowhere = ""
  VisitTiers <- FirstAndNext
  Days = 1
  Changes = 3
  Slips = 1
SYMMETRY Overlapping
CHECK_DEADLOCK FALSE
INVARIANTS
  PlaysTile
  OneRowPerCommand
  RecordsOnlyClimb
  
  CaptionsAreTrue
  AwardsAgree
