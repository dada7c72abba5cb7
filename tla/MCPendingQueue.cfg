SPECIFICATION PendingSpec
CONSTANTS
  w1 = w1
  w2 = w2
  NoWork = NoWork
  Workers = {w1, w2}
  MaxTasks = 2
  Priorities = {0, 1}
  MaxRetries = 2
CHECK_DEADLOCK FALSE
INVARIANTS
  RecoveriesAccounted
  ClaimsExclusive
