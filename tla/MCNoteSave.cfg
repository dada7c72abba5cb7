SPECIFICATION Spec
CONSTANTS
  c1 = c1
  c2 = c2
  Calls = {c1, c2}
  MaxAttempts = 2
  OnDemand = TRUE
  Faults = {"db", "net", "service", "control", "crash"}
SYMMETRY CallSymmetry
CHECK_DEADLOCK FALSE
INVARIANTS
  StoredOnce
  AnswersAreTrue
  LeftSuspended
  NoClaimLeftBehind
