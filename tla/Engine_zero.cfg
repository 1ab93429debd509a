SPECIFICATION Spec
CONSTANTS
  Minute = 120
  Defaults <- SmallDefaults
  DefaultMaxFlows = 2
  DefaultUploadSendBuffer = 4
  Options <- DefaultOptions
  Dirs = {"upload"}
  Scale = 2
  Unit = 2
  Observations <- LoadObservations
  MaxIntervals = 3
CHECK_DEADLOCK FALSE
INVARIANTS
  ZeroMeansMeasured
