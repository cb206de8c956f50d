SPECIFICATION FairSpec
CONSTANTS
  MaxConnections = 2
  a = a
  b = b
  Nodes = {a, b}
  NoNode = NoNode
  Wanted <- MCWanted
  Nobody = Nobody
  Foreign = Foreign
  MaxEvents = 2
INVARIANT TypeOK
INVARIANT OpensAreRouted
INVARIANT SinkReady
PROPERTY ComesUp
CHECK_DEADLOCK FALSE
