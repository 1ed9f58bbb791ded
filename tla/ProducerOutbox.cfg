SPECIFICATION FairSpec
CONSTANTS
  Commands = {c1, c2}
  Senders = {r1, r2}
  NoOne = NoOne
  BatchLimit = 2
  MaxAttempts = 2
  MaxMishaps = 1
INVARIANT CompletedHasOutcome
PROPERTIES ImplementsQueue BoxedOnlyIfUndelivered NothingIsTakenBack EveryCommandSettled
CHECK_DEADLOCK FALSE
