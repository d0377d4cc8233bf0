SPECIFICATION FairProcessSpec
CONSTANTS
  Casts = {"eventsub", "egress", "rollout"}
  follow = follow
  raid = raid
  Events = {follow, raid}
  Scoped = {follow}
  Outside <- Troubles
  Legs = {"tiktok", "youtube"}
  MaxAge = 3
  Skew = 1
  MaxClock = 7
  MaxBinds = 3
  MaxFaults = 2
  Pods = {1, 2}
  Versions = {"v1", "v2"}
  OrphanDelay = 3
  Interval = 2
  Handover = 1
  Grace = 1
  LastTick = 6
  MaxDeaths = 1
CHECK_DEADLOCK FALSE
INVARIANTS
  GaugeFallsWithTheSession
  RecoveredRoomIsFed
  
PROPERTIES
  EventsArriveHere
  LiveAnswerIsFresh
