SPECIFICATION WorkersSpec
CONSTANTS
  Text0 <- MCText0
  GateRounds = 2
INVARIANTS
  TestsKept
PROPERTIES
  TestedIsCommitted
  PlansStayApplicable
CHECK_DEADLOCK FALSE
