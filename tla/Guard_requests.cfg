SPECIFICATION GuardSpec
CONSTANTS
  Keys = {"x", "sub:x"}
  Handlers = {h1, h2}
  Caps = {1}
  R = 1
  Max = 1
  Window = 1
  Concurrency = 1
  CleanupAt = 2
  Second = 2
  MaxRetryWait = 3
  MaxTime = 2
  MaxBuckets = 2
  Configs <- MCConfigs
  IssuerKeys = {"k1", "k2"}
  Subjects = {"", "x", "long"}
  IPs = {"x"}
  Leeway = 2
  MaxTTL = 4
  MaxInt = 20
  Epoch = 3
  TooLong = {"long"}
  Boot = 5
  Skews <- MCSkews
  TTLs = {1, 4, 5}
  MaxURLs = 1
SYMMETRY HandlerSymmetry
INVARIANTS
  ServedWereEntitled
  HonestURLsAccepted
  BucketsAreNotShared
