SPECIFICATION FairSpec
CONSTANTS
  Handlers = {h1}
  InFlight = 1
  Procs = {s1}
  Categories = {vault, local}
  Other = Other
  OtherRuns = TRUE
  MaxRuns = 3
  Cooldown = 2
  PageSize = 1
  Lag = {h1, vault}
  Faults = {"refused", "lost", "restart"}
CHECK_DEADLOCK FALSE
INVARIANTS
  OneRepairAtATime
  OneRunPerRequest
PROPERTIES
  CooldownHolds
  LineAnswers
