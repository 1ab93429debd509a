SPECIFICATION FairSpec
CONSTANTS
  Dirs <- Both
  IdleProbes = 1
  Handshakes = {h1}
CHECK_DEADLOCK FALSE
PROPERTIES
  ResultFrozen
