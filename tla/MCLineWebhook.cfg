SPECIFICATION FairSpec
CONSTANTS
  m1 = m1
  m2 = m2
  u1 = u1
  p1 = p1
  Events = {m1, m2}
  Users = {u1}
  UserOf <- MCUserOf
  Procs = {p1}
  None = None
  MaxDeliveries = 2
  CacheLimit = 1
  Faults = {"db", "core", "reply", "push", "hang", "crash"}
CHECK_DEADLOCK FALSE
INVARIANTS
  WorkAtMostOnce
  HeardAtMostOnce
PROPERTIES
  HandlersFinish
  FallbacksCover
