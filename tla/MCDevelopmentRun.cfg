SPECIFICATION FairSpec
CONSTANTS
  Contents = {orig, first, second}
  Original = orig
  Nothing = nothing
  MaxRounds = 3
  MaxRuns = 2
INVARIANTS
  PublishedIsVerified
  DirtIsExplained
PROPERTIES
  StopBinds
  RequestEnds
