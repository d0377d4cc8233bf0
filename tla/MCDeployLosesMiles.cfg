SPECIFICATION ProcessSpec
CONSTANTS
  Casts = {"rollout"}
  follow = follow
  raid = raid
  Events = {follow, raid}
  Scoped = {follow}
  Outside <- Troubles
  Legs = {"tiktok"}
  MaxAge = 3
  Skew = 1
  MaxClock = 7
  MaxBinds = 3
  MaxFaults = 0
  Pods = {1, 2}
  Versions = {"v1"}
  OrphanDelay = 3
  Interval = 2
  Handover = 1
  Grace = 1
  LastTick = 7
  MaxDeaths = 0
CHECK_DEADLOCK FALSE
INVARIANTS
  NoOrphansNoLoss
