SPECIFICATION Spec
CONSTANTS
  Task = {"t1", "t2"}
  Transient = {"rate_limited"}
  Repairable = {"timeout", "unknown"}
  HoldAfter = 3
  MaxRetries = 1
  Tracked <- MCTracked
  Approved = {"t2"}
  MaxAdditions = 1
  MaxTasks = 2
  MaxDepth = 1
  Human = TRUE
INVARIANT HoldBinds
PROPERTIES HoldNeedsAHuman CompletedWasPublished ReportIsTrue
