SPECIFICATION FairSpec
CONSTANTS
  Ids = {c1, c2}
  c1 = c1
  c2 = c2
  Root = Root
  None = None
  Budget <- CalmBudget
  Settled = TRUE
  MaxInFlight = 2
INVARIANT RetriesGoOn
PROPERTY ZoneFollowed
PROPERTY TargetJoined
CHECK_DEADLOCK FALSE
