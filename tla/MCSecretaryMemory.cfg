SPECIFICATION Spec
CONSTANTS
  a1 = a1
  a2 = a2
  b1 = b1
  b2 = b2
  c = c
  Programs = {"conversation"}
  Repairs = {a1, a2}
  Nightly = c
  Files = {b1, b2}
  Roles = {a1, a2}
  OtherRoles = {c}
  Resources = {c}
  TaskIds = {b1, b2, c}
  MaxTasks = 3
  MaxMessages = 2
  MaxRounds = 3
  Cycles = {a1, a2}
  Queued = {b1, b2}
  Causes = {c}
  MaxRecords = 5
  MaxProposalSignals = 2
  MaxDevelopments = 3
  Asks = {a1, a2, c}
  Followups = {a1, a2}
  Topics <- MCTopics
  Calls = 2
SYMMETRY Symmetry
INVARIANT YesErasesMemories
CHECK_DEADLOCK FALSE
