SPECIFICATION Spec
CONSTANTS
  Upload = FALSE
  H2 = TRUE
  MaxFlows = 2
  InitialFlows = 1
  Limit = 2
  Chunk = 1
  SelfCost = 1
  ForeignCost = 2
  MaxInFlight = 1
  Endings = {"cancelled", "deadline"}
  MaxPayload = 2
  MaxLaunches = 1
  MaxTicks = 1
INVARIANTS
  ReasonJustified
  OnlyOwnFailuresCounted
  BytesAreCost
PROPERTIES
  PhaseSpec
