SPECIFICATION FairSpec
CONSTANTS
  w1 = w1
  w2 = w2
  r1 = r1
  Wrapped = {w1, w2}
  Raw = {r1}
  RemoteOf <- RemoteAddrs
  LocalOf <- LocalAddrs
  NoAddr = NoAddr
CHECK_DEADLOCK FALSE
INVARIANTS
  NothingLeftOpen
  ClosedIsForgotten
  AddressesListed
PROPERTIES
  AllSocketsClose
