SPECIFICATION FairSpec
CONSTANTS
  Events = {e1}
  Payloads = {p1, p2}
  Workers = {w1, w2, w3}
  NoOne = NoOne
  MaxAttempts = 2
  MaxMishaps = 2
INVARIANTS AppliedAtMostOnce
PROPERTIES ImplementsQueue VerdictsAreFinal LeaseIsRespected EveryEventIsSettled
