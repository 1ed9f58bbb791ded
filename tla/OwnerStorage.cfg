SPECIFICATION Spec
CONSTANTS
  k1 = k1
  k2 = k2
  NoKey = NoKey
  Keys = {k1, k2}
  Content <- ContentMC
  Attempts = {a1, a2}
  Workers = {w1, w2}
  Quota = 2
  MaxAttempts = 2
  MaxJobs = 2
SYMMETRY Symmetry
INVARIANTS CountersAreExact ReferencesAreExact DeletedOnRequest LiveHasBlob
CHECK_DEADLOCK FALSE
