SPECIFICATION FairSpec
CONSTANTS
  MaxConnections = 1
  VoipClient = "All"
  RadioSource = "AutoSink"
  None = None
  Budget <- FailBudget
INVARIANT TypeOK
INVARIANT OneCrew
INVARIANT StatusFollows
PROPERTY Released
PROPERTY AllOnline
CHECK_DEADLOCK FALSE
