SPECIFICATION FairSpec
CONSTANTS
  MaxJobs = 1
  MaxRetries = 2
  StaleAfter = 1
  NoType = NoType
  Obsidian = Obsidian
  OpenClaw = OpenClaw
  mac1 = mac1
  mac2 = mac2
  claw = claw
  Bridges = {mac1, mac2, claw}
  BridgeType <- MCBridgeType
  ServerFaults = TRUE
INVARIANTS
  ToldOnceForAll
  AppliedPerClaim
  ReportsAreTold
PROPERTIES
  EveryJobCloses
