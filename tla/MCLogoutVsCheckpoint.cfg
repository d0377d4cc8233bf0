SPECIFICATION Spec
CONSTANTS
  u1 = u1
  s1 = s1
  s2 = s2
  t1 = t1
  b1 = b1
  c1 = c1
  main = main
  Users = {u1}
  Sids = {s1, s2}
  NoSid = NoSid
  Ticks = {t1}
  Bankers = {b1}
  Chats = {}
  Mains = {}
  Lifetime = 1
  MilesPerTick = 1
  BonusPerTick = 1
  Gift = 1
  Deltas = {}
  MaxTime = 2
  Budget = 0
SYMMETRY SidSymmetry
CHECK_DEADLOCK FALSE
INVARIANTS
  GoneMeansBanked
