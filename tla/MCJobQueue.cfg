SPECIFICATION Spec
CONSTANTS
  MaxJobs = 3
  JobTypes = {obsidian, openclaw}
  NoType = NoType
  MaxRetries = 1
  StaleAfter = 1
INVARIANTS
  ClaimSafety
PROPERTIES
  ImplementsLedger
  TokensNeverRevive
