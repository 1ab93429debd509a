SPECIFICATION ClientFair
CONSTANTS
  Dirs <- BothDirs
  IdleProbes = 2
  Handshakes = {h1, h2}
  CommandLines <- AnyCommandLine
INVARIANTS
  ErrorTellsResult
  PartialResultKept
  IdleOutcomeTold
  InterceptionReportedOnce
  ExitTellsOutcome
PROPERTIES
  CommandExits
