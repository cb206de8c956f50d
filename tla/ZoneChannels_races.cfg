SPECIFICATION Spec
CONSTANTS
  Ids = {c1, c2}
  c1 = c1
  c2 = c2
  Root = Root
  None = None
  Budget <- RacesBudget
  Settled = FALSE
  MaxInFlight = 2
SYMMETRY IdSymmetry
INVARIANT TypeOK
INVARIANT CacheCoherent
INVARIANT ConfirmedZoneIsLocation
CHECK_DEADLOCK FALSE
