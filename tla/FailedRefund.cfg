SPECIFICATION FairSpec
CONSTANTS
  Orders = {o1}
  Events <- EventsMC
  Dispatchers = {d1}
  Reconcilers = {}
  NoEvent = NoEvent
  BatchLimit = 2
  MaxAttempts = 1
  MaxMishaps = 0
PROPERTY FailedRefundIsCompensated
CHECK_DEADLOCK FALSE
