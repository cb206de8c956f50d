SPECIFICATION FairSpec
CONSTANTS
  h1 = h1
  h2 = h2
  c1 = c1
  c2 = c2
  d1 = d1
  Hosts = {h1, h2}
  CertsOf <- MCCertsOf
  None = None
  Corrupt = Corrupt
  Failure = Failure
  Budget <- CancelBudget
PROPERTY ProbeResolves
