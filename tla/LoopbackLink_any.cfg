SPECIFICATION FairLinkSpec
CONSTANTS
  s1 = s1
  s2 = s2
  SourceIds = {s1, s2}
  Ours = Ours
  Outs = 2
  Inputs = 2
  None = None
  Budget <- AnyBudget
INVARIANT LinkTypeOK
INVARIANT EarlyChannelsMatch
PROPERTY ImplementsPatchbay
PROPERTY Heard
PROPERTY Released
CHECK_DEADLOCK FALSE
