SPECIFICATION OutputsSpec
CONSTANTS
  Threshold = 3
  Cooldown = 10
  Grace = 3
  MaxRounds = 3
  MaxSilence = 1
  Gaps = {1, 2}
  StartAttempts = 2
  CapAttempts = 2
  MaxDecisions = 3
  MaxFaults = 2
  MaxBroadcasts = 2
  MaxOperator = 1
  MaxExits = 1
CHECK_DEADLOCK FALSE
INVARIANTS
  NoChurn
  CanRearm
  
PROPERTIES
  RestartsAreSpaced
  OutagesAreSettled
  DarkIsTemporary
