SPECIFICATION ServerFair
CONSTANTS
  Conns = {c1, c2}
  Max = 1
  Acceptors = {"Serve"}
  Closers = {"Serve", "Shutdown"}
  Calls = {"handler", "Shutdown"}
  MaxErrors = 1
  CommandLines <- AnyCommandLine
PROPERTIES
  
  CapSpec
  WaitersAreServed
  InterruptEnds
