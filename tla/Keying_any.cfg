SPECIFICATION FairSpec
CONSTANTS
  Clients = {"IC", "PA", "Radio"}
  DataRefs <- MCDataRefs
  Setups <- MCSetups
  Unknown = Unknown
  Unread = Unread
INVARIANT TypeOK
INVARIANT PassExact
PROPERTY AirFollows
