SPECIFICATION Spec
CONSTANTS
  Kinds = {"download", "upload", "foreign", "self"}
  Attempts = {a1, a2}
  MaxBody = 1
  MaxClock = 3
INVARIANT
  SubInOrder
