SPECIFICATION Spec
CONSTANTS
  Ids = {c1, c2}
  c1 = c1
  c2 = c2
  Root = Root
  None = None
  Budget <- AloneBudget
  Settled = FALSE
  MaxInFlight = 2
INVARIANT NoSilentStall
CHECK_DEADLOCK FALSE
