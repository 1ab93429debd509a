SPECIFICATION Spec
CONSTANTS
  Keys = {k1, k2}
  Handlers = {h1, h2, h3}
  Caps = {2}
  R = 2
  Max = 1
  Window = 2
  Concurrency = 2
  CleanupAt = 1
  Second = 2
  MaxRetryWait = 3
  MaxTime = 2
  MaxBuckets = 3
SYMMETRY HandlerSymmetry
INVARIANTS
  AdmissionsKeepTheirBucket
  SlotsMatchHandlers
  BudgetConformance
  OvershootBound
  RetryAfterSuffices
