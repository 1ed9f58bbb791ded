SPECIFICATION FairSpec
CONSTANTS
  Orders = {o1}
  Events <- EventsMC
  Dispatchers = {d1, d2}
  Reconcilers = {r1}
  NoEvent = NoEvent
  BatchLimit = 2
  MaxAttempts = 2
  MaxMishaps = 1
INVARIANTS SettledIsApplied ClaimsAreExclusive RevokedBeforeReturned PaidIsAccounted
PROPERTIES EveryCommandAnswered
CHECK_DEADLOCK FALSE
