SPECIFICATION Spec
CONSTANTS
  Minute = 120
  Defaults <- SmallDefaults
  DefaultMaxFlows = 5
  DefaultUploadSendBuffer = 1
  Options <- BothOptions
  Dirs = {"upload"}
  Scale = 2
  Unit = 2
  Observations <- MixedObservations
  MaxIntervals = 5
CHECK_DEADLOCK FALSE
INVARIANTS
  LowerBoundSound
  EvidenceSinceDrop
  SummaryUsesSamples
  RPMByDefinition
  PercentilesAreRanks
PROPERTIES
  RampSteps
