SPECIFICATION ReconcileSpec
CONSTANTS
  k1 = k1
  k2 = k2
  NoKey = NoKey
  Keys = {k1, k2}
  Content <- ContentMC
  Attempts = {a1}
  Workers = {w1}
  Quota = 2
  MaxAttempts = 2
  MaxJobs = 2
INVARIANT DeletedOnRequest
CHECK_DEADLOCK FALSE
