SPECIFICATION FairSpec
CONSTANTS
  Kinds <- AllKinds
  Listeners = {l1, l2}
  Frame = 3
  Noise = 2
  Chunks <- MCChunks
  RawCap = 1
  QueueCap = 1
  RingCap = 2
  Supply = 12
INVARIANT TypeOK
PROPERTY ImplementsStream
PROPERTY EveryoneTold
CHECK_DEADLOCK FALSE
