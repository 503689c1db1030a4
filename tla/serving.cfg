SPECIFICATION FairSpec
CONSTANTS
  r1 = r1
  r2 = r2
  i1 = i1
  i2 = i2
  None = None
  Requests <- TwoRequests
  Instances <- TwoInstances
  Pools <- OnePool
  Contexts <- TwoContexts
  Threshold = 2
  MaxTroubles = 6
INVARIANTS
  TypeOK
  ActiveCounts
  BreakerAgreesWithHealth
PROPERTIES
  NoCallWhileCooling
  OutageHeals
