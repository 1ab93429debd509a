SPECIFICATION Spec
CONSTANTS
  Kinds = {"download", "upload", "foreign", "self"}
  Attempts = {a1, a2}
  MaxBody = 1
  MaxClock = 3
INVARIANTS
  BodyClosedOnce
  ProbeWasWhole
  StagesFitTotal
PROPERTIES
  ExchangeReturns
