SPECIFICATION FairSpec
CONSTANTS
  Sources = {voice, pa}
  voice = voice
  pa = pa
  Channels = 2
  Seconds = 3
  Lengths = {1, 3}
  Periods = {2, 3}
  Capacity = 2
  Total = 7
INVARIANT TypeOK
INVARIANT Aligned
PROPERTY ImplementsFifo
PROPERTY Drains
CHECK_DEADLOCK FALSE
