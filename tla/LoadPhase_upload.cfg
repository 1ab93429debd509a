SPECIFICATION FairSpec
CONSTANTS
  Upload = TRUE
  H2 = TRUE
  MaxFlows = 1
  InitialFlows = 1
  Limit = 2
  Chunk = 1
  SelfCost = 1
  ForeignCost = 2
  MaxInFlight = 1
  Endings = {"cancelled"}
  MaxPayload = 1
  MaxLaunches = 2
  MaxTicks = 1
INVARIANTS
  ProbesUseOpenTransports
  EverySampleCountedOnce
  NothingOutlivesThePhase
PROPERTIES
  PhaseReturns
