SPECIFICATION FairSpec
CONSTANTS
  o1 = o1
  i1 = i1
  i2 = i2
  Empty = Empty
  AutoSink = AutoSink
  None = None
  Outs = {o1}
  Ins = {i1, i2}
  Roles = {"ambient"}
  Saved <- MCSaved
  Budget <- AnyBudget
INVARIANT TypeOK
INVARIANT SelectionHolds
INVARIANT ChoiceRestored
PROPERTY ListsFollow
